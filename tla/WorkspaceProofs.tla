--------------------------- MODULE WorkspaceProofs ----------------------------
(***************************************************************************)
(* Proofs about Workspace, for any members, names, agents and requests.    *)
(*                                                                         *)
(* A handler made its checks when it began and runs its statements later.  *)
(* Sound says what the tables keep to; Frame says of a handler under way   *)
(* what its statements may still do to the tables as they are now.  A      *)
(* statement keeps Sound and relates the tables before and after by Grows, *)
(* which is all that the frames of other handlers need.                    *)
(***************************************************************************)
EXTENDS Workspace, FiniteSetTheorems, SequenceTheorems, TLAPS

-----------------------------------------------------------------------------
(* The tables                                                              *)

DirectRow ==
    [agent : AgentIds, name : AllNames, by : Actors, from : Nat, id : Nat, scope : SUBSET AllNames]
RoleCredRow == [role : RoleNames, name : AllNames, id : Nat]
AgentRoleRow == [agent : AgentIds, role : RoleNames]
ScopeRow == [user : Users, name : AllNames, id : Nat]
SetupRow ==
    [id : Nat, by : Users, name : AllNames, hosts : {"any", "listed"}, passkey : BOOLEAN, pending : BOOLEAN]
StateRow ==
    [id : Nat, by : Users \cup Apps, provider : Providers, flow : {"create", "reauthorize"},
     name : AllNames, endUser : AllNames \cup {Nobody}, agents : SUBSET AgentIds]

Tables ==
    [cred : [AllNames -> CredentialRow \cup {Absent}], policy : [AllNames -> PolicyRow \cup {Absent}],
     agent : [AgentIds -> AgentRow \cup {Absent}], roles : SUBSET RoleNames,
     roleCred : SUBSET RoleCredRow, agentRole : SUBSET AgentRoleRow, direct : SUBSET DirectRow,
     approver : SUBSET ScopeRow, setups : SUBSET SetupRow, states : SUBSET StateRow,
     stepups : SUBSET (Users \cup Nat), tier : Tiers, customer : Customers \cup {Nobody},
     made : SUBSET (Nat \X Nat), next : Nat]

(* The foreign keys on agents and roles.                                   *)
Keyed(d) ==
    /\ \A r \in d.direct : d.agent[r.agent] # Absent
    /\ \A r \in d.agentRole : d.agent[r.agent] # Absent /\ r.role \in d.roles
    /\ \A r \in d.roleCred : r.role \in d.roles

(* What names a credential names the one there is.                         *)
Refers(d, r) == d.cred[r.name] # Absent /\ r.id = d.cred[r.name].id

Bare(d) ==
    /\ \A r \in d.direct : Refers(d, r)
    /\ \A r \in d.roleCred : Refers(d, r)
    /\ \A r \in d.approver : Refers(d, r)
    /\ \A n \in AllNames : d.policy[n] # Absent => d.cred[n] # Absent /\ d.policy[n].id = d.cred[n].id

(* The end-user whose name this is.                                        *)
OwnerOf(n) == IF n \in EndUserNames THEN n ELSE Nobody

Bound(d) ==
    \A n \in AllNames : d.cred[n] # Absent =>
        /\ d.cred[n].endUser = OwnerOf(n)
        /\ d.cred[n].gate => n \notin EndUserNames
        /\ d.cred[n].from # 0 => <<d.cred[n].from, d.cred[n].id>> \in d.made

Scoped(d) ==
    /\ \A r \in d.direct : r.by \in Approvers => r.name \in r.scope
    /\ \A a \in AgentIds : d.agent[a] # Absent /\ d.agent[a].all => d.agent[a].allBy \in Managers

(* Nothing was made from what has this number.                             *)
Unused(d, k) == \A p \in d.made : p[1] # k

Once(d) ==
    /\ \A p \in d.made : p[1] < d.next
    /\ \A p, q \in d.made : p[1] = q[1] => p = q
    /\ \A x \in d.setups : x.id # 0 /\ x.id < d.next /\ x.name \notin EndUserNames /\ (x.pending => Unused(d, x.id))
    /\ \A s \in d.states : s.id # 0 /\ s.id < d.next /\ Unused(d, s.id)
    /\ \A s, x \in d.states : s.id = x.id => s = x
    /\ \A s \in d.states, x \in d.setups : s.id # x.id

(* Who asked for a connection, and for whom.                               *)
Meant(d) ==
    \A s \in d.states :
        /\ s.flow = "create" => s.endUser = OwnerOf(s.name)
        /\ s.endUser = Nobody => s.by \in Managers

(* A credential made from what has this number is behind its gate.         *)
Passkeyed(d, n, k) ==
    d.cred[n] # Absent /\ d.cred[n].from = k /\ d.cred[n].gate => d.policy[n] # Absent /\ d.policy[n].passkey

Gated(d) == \A r \in d.direct : r.from # 0 => Passkeyed(d, r.name, r.from)

Sound(d) ==
    /\ d \in Tables
    /\ d.next > 0
    /\ Keyed(d) /\ Bare(d) /\ Bound(d) /\ Scoped(d) /\ Once(d) /\ Meant(d) /\ Gated(d)

-----------------------------------------------------------------------------
(* The statements                                                          *)

Statements ==
    [st : {"createCredential"}, name : AllNames, connector : {"direct", "sidecar"}, value : Values,
            endUser : AllNames \cup {Nobody}, app : Apps \cup {Nobody}, gate : BOOLEAN]
    \cup [st : {"setConfig"}, name : AllNames, connector : {"direct", "sidecar"}]
    \cup [st : {"setHosts", "patchHosts"}, name : AllNames, hosts : Hosts]
    \cup [st : {"setValue"}, name : AllNames, value : Values]
    \cup [st : {"deleteCredential"}, name : AllNames]
    \cup [st : {"setPolicy"}, name : AllNames, passkey : BOOLEAN]
    \cup [st : {"createAgent"}, agent : AgentIds, kind : {"agent", "app"}, all : BOOLEAN, owner : Actors]
    \cup [st : {"setAll"}, agent : AgentIds, all : BOOLEAN]
    \cup [st : {"setEnabled"}, agent : AgentIds, enabled : BOOLEAN]
    \cup [st : {"deleteAgent", "purge"}, agent : AgentIds]
    \cup [st : {"addDirect", "removeDirect"}, agent : AgentIds, name : AllNames]
    \cup [st : {"assignRole", "removeRole"}, agent : AgentIds, role : RoleNames]
    \cup [st : {"createRole"}, role : RoleNames]
    \cup [st : {"addToRole", "removeFromRole"}, role : RoleNames, name : AllNames]
    \cup [st : {"assignApprover", "removeApprover"}, user : Users, name : AllNames]
    \cup [st : {"claimSetup"}, setup : SetupRow]
    \cup [st : {"setCustomer"}, customer : Customers]
    \cup [st : {"syncDirect"}, agent : AgentIds, names : SUBSET AllNames]
    \cup [st : {"syncRoles"}, agent : AgentIds, roles : SUBSET RoleNames]
    \cup [st : {"syncRole"}, role : RoleNames, names : SUBSET AllNames]
    \cup [st : {"assignAgents"}, name : AllNames, agents : SUBSET AgentIds]

(* Statements after which an agent may use a credential.                   *)
Access(s) == s.st \in {"addDirect", "assignAgents"}

InScope(scope, by, n) == by \in Approvers => n \in scope

(* What the checks of the handler, and the scope they were made against,   *)
(* say of a statement.                                                     *)
Rightful(scope, by, from, s) ==
    /\ s.st = "createCredential" =>
          s.endUser = OwnerOf(s.name) /\ (s.gate => s.name \notin EndUserNames)
    /\ s.st = "setPolicy" /\ ~s.passkey => s.name \in EndUserNames
    /\ s.st \in {"createAgent", "setAll"} /\ s.all => by \in Managers
    /\ s.st = "addDirect" => InScope(scope, by, s.name)
    /\ s.st = "syncDirect" => from = 0 /\ \A n \in s.names : InScope(scope, by, n)
    /\ s.st = "assignAgents" => by \in Managers
    /\ s.st = "claimSetup" => from # 0 /\ s.setup.id = from

Right(scope, by, from) == {s \in Statements : Rightful(scope, by, from, s)}

(* The scope a member has now.                                             *)
Scope(u) == ListApproverCredentials(db, u)

-----------------------------------------------------------------------------
(* The handlers under way                                                  *)

(* What a setup or a state is good for comes first.                        *)
Lined(t) ==
    \A i \in 1 .. Len(t) :
        /\ t[i].st = "claimSetup" => i = 1
        /\ t[i].st = "createCredential" => i = 1 \/ (i = 2 /\ t[1].st = "claimSetup")

(* The gate is closed before the statement number i.                       *)
Gates(t, i) == \E j \in 1 .. i - 1 : t[j].st = "setPolicy" /\ t[j].name = t[i].name /\ t[j].passkey

Secured(t) ==
    \A i, k \in 1 .. Len(t) :
        t[k].st = "createCredential" /\ t[k].gate /\ Access(t[i]) => Gates(t, i)

(* The handler has claimed its setup, or taken its state.                  *)
Owning(f) == f.from # 0 /\ f.todo # <<>> /\ f.todo[1].st # "claimSetup"

Numbered(d, f) == f.from # 0 => f.from < d.next /\ \A s \in d.states : s.id # f.from

Owns(d, f) ==
    /\ \A x \in d.setups : x.id = f.from => ~x.pending
    /\ f.todo[1].st = "createCredential" => Unused(d, f.from)

Closed(d, f) ==
    \A i \in 1 .. Len(f.todo) : Access(f.todo[i]) => Passkeyed(d, f.todo[i].name, f.from) \/ Gates(f.todo, i)

Handlers == [by : Actors, from : Nat, scope : SUBSET AllNames, todo : Seq(Statements)]

Frame(d, f) ==
    /\ f \in Handlers
    /\ f.todo \in Seq(Right(f.scope, f.by, f.from))
    /\ f.from # 0 => Lined(f.todo) /\ Secured(f.todo)
    /\ Numbered(d, f)
    /\ Owning(f) => Owns(d, f) /\ Closed(d, f)

(* Two handlers never own the same setup or state.                         *)
Apart(f, g) == Owning(f) /\ Owning(g) => f.from # g.from

-----------------------------------------------------------------------------
(* What Stripe told of                                                     *)

Plans == Customers \X {"starter", "pro"}

Paying ==
    /\ stripe.customers \subseteq Customers /\ stripe.checkouts \subseteq Plans /\ stripe.paid \subseteq Plans
    /\ stripe = [customers |-> stripe.customers, checkouts |-> stripe.checkouts,
                 paid |-> stripe.paid, events |-> stripe.events]
    /\ \A e \in stripe.events :
          e.type \in {"completed", "updated"} => \E k \in stripe.paid : k[2] = e.tier

Paid(d, l) == d.tier # l.tier /\ d.tier # "free" => \E k \in stripe.paid : k[2] = d.tier

Facts ==
    /\ load \in Loads
    /\ Sound(db)
    /\ DOMAIN call = Callers
    /\ \A c \in Callers : Frame(db, call[c])
    /\ \A b, c \in Callers : b # c => Apart(call[b], call[c])
    /\ Paying /\ Paid(db, load)

-----------------------------------------------------------------------------

\* The fields of a statement of each kind.
LEMMA Fields ==
    ASSUME NEW s \in Statements
    PROVE  /\ s.st = "createCredential" =>
                /\ s.name \in AllNames /\ s.connector \in {"direct", "sidecar"} /\ s.value \in Values
                /\ s.endUser \in AllNames \cup {Nobody} /\ s.app \in Apps \cup {Nobody} /\ s.gate \in BOOLEAN
           /\ s.st = "setConfig" => s.name \in AllNames /\ s.connector \in {"direct", "sidecar"}
           /\ s.st \in {"setHosts", "patchHosts"} => s.name \in AllNames /\ s.hosts \in Hosts
           /\ s.st = "setValue" => s.name \in AllNames /\ s.value \in Values
           /\ s.st = "deleteCredential" => s.name \in AllNames
           /\ s.st = "setPolicy" => s.name \in AllNames /\ s.passkey \in BOOLEAN
           /\ s.st = "createAgent" =>
                s.agent \in AgentIds /\ s.kind \in {"agent", "app"} /\ s.all \in BOOLEAN /\ s.owner \in Actors
           /\ s.st = "setAll" => s.agent \in AgentIds /\ s.all \in BOOLEAN
           /\ s.st = "setEnabled" => s.agent \in AgentIds /\ s.enabled \in BOOLEAN
           /\ s.st \in {"deleteAgent", "purge"} => s.agent \in AgentIds
           /\ s.st \in {"addDirect", "removeDirect"} => s.agent \in AgentIds /\ s.name \in AllNames
           /\ s.st \in {"assignRole", "removeRole"} => s.agent \in AgentIds /\ s.role \in RoleNames
           /\ s.st = "createRole" => s.role \in RoleNames
           /\ s.st \in {"addToRole", "removeFromRole"} => s.role \in RoleNames /\ s.name \in AllNames
           /\ s.st \in {"assignApprover", "removeApprover"} => s.user \in Users /\ s.name \in AllNames
           /\ s.st = "claimSetup" => s.setup \in SetupRow
           /\ s.st = "setCustomer" => s.customer \in Customers
           /\ s.st = "syncDirect" => s.agent \in AgentIds /\ s.names \in SUBSET AllNames
           /\ s.st = "syncRoles" => s.agent \in AgentIds /\ s.roles \in SUBSET RoleNames
           /\ s.st = "syncRole" => s.role \in RoleNames /\ s.names \in SUBSET AllNames
           /\ s.st = "assignAgents" => s.name \in AllNames /\ s.agents \in SUBSET AgentIds
  BY DEF Statements

\* A statement reads, or is one of those that write.
LEMMA Kinds ==
    ASSUME NEW s \in Statements
    PROVE  \/ s.st \in Reads
           \/ s.st \in {"createCredential", "setConfig", "setHosts", "patchHosts", "setValue", "deleteCredential",
                        "setPolicy", "createAgent", "setAll", "setEnabled", "deleteAgent", "addDirect",
                        "removeDirect", "assignRole", "removeRole", "createRole", "addToRole", "removeFromRole",
                        "assignApprover", "removeApprover", "claimSetup", "setCustomer"}
  BY DEF Statements, Reads

-----------------------------------------------------------------------------
(* Lists of statements                                                     *)

\* SetToSeq lists the members of a finite set.
LEMMA Listing ==
    ASSUME NEW S, IsFiniteSet(S)
    PROVE  SetToSeq(S) \in Seq(S)
  <1>1. Cardinality(S) \in Nat /\ \E g \in [1 .. Cardinality(S) -> S] : IsInjective(g)
    BY FS_CardinalityType DEF ExistsBijection, Bijection, Injection
  <1>2. SetToSeq(S) \in [1 .. Cardinality(S) -> S]
    BY <1>1 DEF SetToSeq
  <1> QED
    BY <1>1, <1>2

\* What is listed for each member of a set is finite where the set is.
LEMMA ImageFinite ==
    ASSUME NEW S, IsFiniteSet(S), NEW T \in SUBSET S, NEW F
    PROVE  IsFiniteSet({F[x] : x \in T})
  <1> DEFINE G == [x \in T |-> F[x]]
             U == {F[x] : x \in T}
  <1>1. IsFiniteSet(T)
    BY FS_Subset
  <1>2. G \in Surjection(T, U)
    BY DEF Surjection
  <1> QED
    BY <1>1, <1>2, FS_Surjection

\* What is listed for each member of a set.
LEMMA ListOfEach ==
    ASSUME NEW S, IsFiniteSet(S), NEW T \in SUBSET S, NEW F, NEW X, \A x \in T : F[x] \in X
    PROVE  SetToSeq({F[x] : x \in T}) \in Seq(X)
  <1> DEFINE U == {F[x] : x \in T}
  <1>1. U \subseteq X /\ IsFiniteSet(U)
    BY ImageFinite
  <1> HIDE DEF U
  <1>2. SetToSeq(U) \in Seq(X)
    BY <1>1, Listing, SeqMonotonic
  <1> QED
    BY <1>2 DEF U

\* The lists of statements on the credentials and roles of an agent.
LEMMA AgentLists ==
    ASSUME NEW a, NEW names \in SUBSET AllNames, NEW roles \in SUBSET RoleNames, NEW X
    PROVE  /\ (\A n \in names : [st |-> "addDirect", agent |-> a, name |-> n] \in X)
                => AddsDirect(a, names) \in Seq(X)
           /\ (\A n \in names : [st |-> "removeDirect", agent |-> a, name |-> n] \in X)
                => RemovesDirect(a, names) \in Seq(X)
           /\ (\A r \in roles : [st |-> "assignRole", agent |-> a, role |-> r] \in X)
                => AssignsRoles(a, roles) \in Seq(X)
           /\ (\A r \in roles : [st |-> "removeRole", agent |-> a, role |-> r] \in X)
                => RemovesRoles(a, roles) \in Seq(X)
  <1>1. ASSUME \A n \in names : [st |-> "addDirect", agent |-> a, name |-> n] \in X
        PROVE  AddsDirect(a, names) \in Seq(X)
    <2> DEFINE F == [n \in names |-> [st |-> "addDirect", agent |-> a, name |-> n]]
    <2>1. \A n \in names : F[n] \in X
      BY <1>1
    <2>2. {F[n] : n \in names} = {[st |-> "addDirect", agent |-> a, name |-> n] : n \in names}
      OBVIOUS
    <2> HIDE DEF F
    <2>3. SetToSeq({F[n] : n \in names}) \in Seq(X)
      BY <2>1, ListOfEach, FiniteAssumption
    <2> QED BY <2>2, <2>3 DEF AddsDirect, Each
  <1>2. ASSUME \A n \in names : [st |-> "removeDirect", agent |-> a, name |-> n] \in X
        PROVE  RemovesDirect(a, names) \in Seq(X)
    <2> DEFINE F == [n \in names |-> [st |-> "removeDirect", agent |-> a, name |-> n]]
    <2>1. \A n \in names : F[n] \in X
      BY <1>2
    <2>2. {F[n] : n \in names} = {[st |-> "removeDirect", agent |-> a, name |-> n] : n \in names}
      OBVIOUS
    <2> HIDE DEF F
    <2>3. SetToSeq({F[n] : n \in names}) \in Seq(X)
      BY <2>1, ListOfEach, FiniteAssumption
    <2> QED BY <2>2, <2>3 DEF RemovesDirect, Each
  <1>3. ASSUME \A r \in roles : [st |-> "assignRole", agent |-> a, role |-> r] \in X
        PROVE  AssignsRoles(a, roles) \in Seq(X)
    <2> DEFINE F == [r \in roles |-> [st |-> "assignRole", agent |-> a, role |-> r]]
    <2>1. \A r \in roles : F[r] \in X
      BY <1>3
    <2>2. {F[r] : r \in roles} = {[st |-> "assignRole", agent |-> a, role |-> r] : r \in roles}
      OBVIOUS
    <2> HIDE DEF F
    <2>3. SetToSeq({F[r] : r \in roles}) \in Seq(X)
      BY <2>1, ListOfEach, FiniteAssumption
    <2> QED BY <2>2, <2>3 DEF AssignsRoles, Each
  <1>4. ASSUME \A r \in roles : [st |-> "removeRole", agent |-> a, role |-> r] \in X
        PROVE  RemovesRoles(a, roles) \in Seq(X)
    <2> DEFINE F == [r \in roles |-> [st |-> "removeRole", agent |-> a, role |-> r]]
    <2>1. \A r \in roles : F[r] \in X
      BY <1>4
    <2>2. {F[r] : r \in roles} = {[st |-> "removeRole", agent |-> a, role |-> r] : r \in roles}
      OBVIOUS
    <2> HIDE DEF F
    <2>3. SetToSeq({F[r] : r \in roles}) \in Seq(X)
      BY <2>1, ListOfEach, FiniteAssumption
    <2> QED BY <2>2, <2>3 DEF RemovesRoles, Each
  <1> QED
    BY <1>1, <1>2, <1>3, <1>4

\* The lists of statements on the credentials of a role.
LEMMA RoleLists ==
    ASSUME NEW r, NEW names \in SUBSET AllNames, NEW X
    PROVE  /\ (\A n \in names : [st |-> "addToRole", role |-> r, name |-> n] \in X)
                => AddsToRole(r, names) \in Seq(X)
           /\ (\A n \in names : [st |-> "removeFromRole", role |-> r, name |-> n] \in X)
                => RemovesFromRole(r, names) \in Seq(X)
  <1>1. ASSUME \A n \in names : [st |-> "addToRole", role |-> r, name |-> n] \in X
        PROVE  AddsToRole(r, names) \in Seq(X)
    <2> DEFINE F == [n \in names |-> [st |-> "addToRole", role |-> r, name |-> n]]
    <2>1. \A n \in names : F[n] \in X
      BY <1>1
    <2>2. {F[n] : n \in names} = {[st |-> "addToRole", role |-> r, name |-> n] : n \in names}
      OBVIOUS
    <2> HIDE DEF F
    <2>3. SetToSeq({F[n] : n \in names}) \in Seq(X)
      BY <2>1, ListOfEach, FiniteAssumption
    <2> QED BY <2>2, <2>3 DEF AddsToRole, Each
  <1>2. ASSUME \A n \in names : [st |-> "removeFromRole", role |-> r, name |-> n] \in X
        PROVE  RemovesFromRole(r, names) \in Seq(X)
    <2> DEFINE F == [n \in names |-> [st |-> "removeFromRole", role |-> r, name |-> n]]
    <2>1. \A n \in names : F[n] \in X
      BY <1>2
    <2>2. {F[n] : n \in names} = {[st |-> "removeFromRole", role |-> r, name |-> n] : n \in names}
      OBVIOUS
    <2> HIDE DEF F
    <2>3. SetToSeq({F[n] : n \in names}) \in Seq(X)
      BY <2>1, ListOfEach, FiniteAssumption
    <2> QED BY <2>2, <2>3 DEF RemovesFromRole, Each
  <1> QED
    BY <1>1, <1>2

(* What a read puts in its own place.                                      *)
Expansion(scope, by, from, s) ==
    {x \in Right(scope, by, from) :
        /\ x.st \in {"addDirect", "removeDirect", "assignRole", "removeRole", "addToRole", "removeFromRole"}
        /\ x.st = "addDirect" /\ from # 0 => s.st = "assignAgents" /\ x.name = s.name}

\* The statements a read puts in its place are ones the handler may run.
LEMMA ExpandLists ==
    ASSUME NEW d \in Tables, NEW scope, NEW by, NEW from, NEW s \in Right(scope, by, from), s.st \in Reads
    PROVE  Expand(d, s) \in Seq(Expansion(scope, by, from, s))
  <1> DEFINE X == Expansion(scope, by, from, s)
  <1>0. s \in Statements /\ Rightful(scope, by, from, s)
    BY DEF Right
  <1>1. CASE s.st = "purge"
    <2>1. s.agent \in AgentIds
      BY <1>0, <1>1, Fields
    <2>2. GetAgentDirectCredentials(d, s.agent) \in SUBSET AllNames
      BY DEF GetAgentDirectCredentials, Tables, DirectRow
    <2>3. \A n \in AllNames : [st |-> "removeDirect", agent |-> s.agent, name |-> n] \in X
      BY <2>1 DEF Expansion, Right, Statements, Rightful
    <2> HIDE DEF X
    <2>4. RemovesDirect(s.agent, GetAgentDirectCredentials(d, s.agent)) \in Seq(X)
      BY <2>2, <2>3, AgentLists
    <2> QED BY <1>1, <2>4 DEF Expand, X
  <1>2. CASE s.st = "syncDirect"
    <2> DEFINE current == GetAgentDirectCredentials(d, s.agent)
    <2>1. s.agent \in AgentIds /\ s.names \in SUBSET AllNames
      BY <1>0, <1>2, Fields
    <2>2. current \in SUBSET AllNames
      BY DEF GetAgentDirectCredentials, Tables, DirectRow
    <2>3. \A n \in AllNames : [st |-> "removeDirect", agent |-> s.agent, name |-> n] \in X
      BY <2>1 DEF Expansion, Right, Statements, Rightful
    <2>4. from = 0 /\ \A n \in s.names : InScope(scope, by, n)
      BY <1>0, <1>2 DEF Rightful
    <2>5. \A n \in s.names : [st |-> "addDirect", agent |-> s.agent, name |-> n] \in X
      BY <2>1, <2>4 DEF Expansion, Right, Statements, Rightful
    <2> HIDE DEF X, current
    <2>6. RemovesDirect(s.agent, current \ s.names) \in Seq(X)
      BY <2>2, <2>3, AgentLists
    <2>7. AddsDirect(s.agent, s.names \ current) \in Seq(X)
      <3>1. s.names \ current \in SUBSET AllNames
        BY <2>1
      <3> QED BY <2>5, <3>1, AgentLists
    <2> QED BY <1>2, <2>6, <2>7, ConcatProperties DEF Expand, SyncDirect, X, current
  <1>3. CASE s.st = "syncRoles"
    <2> DEFINE current == GetAgentRoles(d, s.agent)
    <2>1. s.agent \in AgentIds /\ s.roles \in SUBSET RoleNames
      BY <1>0, <1>3, Fields
    <2>2. current \in SUBSET RoleNames
      BY DEF GetAgentRoles, Tables, AgentRoleRow
    <2>3. \A r \in RoleNames : /\ [st |-> "assignRole", agent |-> s.agent, role |-> r] \in X
                               /\ [st |-> "removeRole", agent |-> s.agent, role |-> r] \in X
      BY <2>1 DEF Expansion, Right, Statements, Rightful
    <2> HIDE DEF X, current
    <2>4. AssignsRoles(s.agent, s.roles \ current) \in Seq(X)
      BY <2>1, <2>3, AgentLists
    <2>5. RemovesRoles(s.agent, current \ s.roles) \in Seq(X)
      BY <2>2, <2>3, AgentLists
    <2> QED BY <1>3, <2>4, <2>5, ConcatProperties DEF Expand, SyncRoles, X, current
  <1>4. CASE s.st = "syncRole"
    <2> DEFINE current == ListRoleCredentials(d, s.role)
    <2>1. s.role \in RoleNames /\ s.names \in SUBSET AllNames
      BY <1>0, <1>4, Fields
    <2>2. current \in SUBSET AllNames
      BY DEF ListRoleCredentials, Tables, RoleCredRow
    <2>3. \A n \in AllNames : /\ [st |-> "addToRole", role |-> s.role, name |-> n] \in X
                              /\ [st |-> "removeFromRole", role |-> s.role, name |-> n] \in X
      BY <2>1 DEF Expansion, Right, Statements, Rightful
    <2> HIDE DEF X, current
    <2>4. RemovesFromRole(s.role, current \ s.names) \in Seq(X)
      BY <2>2, <2>3, RoleLists
    <2>5. AddsToRole(s.role, s.names \ current) \in Seq(X)
      BY <2>1, <2>3, RoleLists
    <2> QED BY <1>4, <2>4, <2>5, ConcatProperties DEF Expand, SyncRoleCredentials, X, current
  <1>5. CASE s.st = "assignAgents"
    <2> DEFINE T == s.agents \cap ListAgents(d)
               F == [a \in T |-> [st |-> "addDirect", agent |-> a, name |-> s.name]]
    <2>1. s.name \in AllNames /\ s.agents \in SUBSET AgentIds /\ T \in SUBSET AgentIds
      BY <1>0, <1>5, Fields
    <2>2. by \in Managers /\ by \notin Approvers
      BY <1>0, <1>5, MemberAssumption DEF Rightful
    <2>3. \A a \in T : F[a] \in X
      BY <1>5, <2>1, <2>2 DEF Expansion, Right, Statements, Rightful, InScope
    <2>4. {F[a] : a \in T} = {[st |-> "addDirect", agent |-> a, name |-> s.name] : a \in T}
      OBVIOUS
    <2> HIDE DEF F, X, T
    <2>5. SetToSeq({F[a] : a \in T}) \in Seq(X)
      BY <2>1, <2>3, ListOfEach, FiniteAssumption
    <2> QED BY <1>5, <2>4, <2>5 DEF Expand, AssignAgents, Each, X, T
  <1> QED
    BY <1>1, <1>2, <1>3, <1>4, <1>5 DEF Reads

-----------------------------------------------------------------------------
(* What a statement leaves to other handlers                               *)

(* A credential that is new was made from what has the number k.           *)
Grows(d, e, k) ==
    /\ d.next <= e.next
    /\ \A s \in e.states : s \in d.states \/ s.id >= d.next
    /\ \A x \in e.setups : x.pending => x \in d.setups \/ x.id >= d.next
    /\ \A p \in e.made : p \in d.made \/ (p[1] = k /\ k # 0)
    /\ \A n \in AllNames, j \in Nat \ {0} : j # k /\ Passkeyed(d, n, j) => Passkeyed(e, n, j)

\* The number a handler came from stays an old one.
LEMMA NumberedKept ==
    ASSUME NEW d \in Tables, NEW e \in Tables, NEW f, NEW k, f.from \in Nat, Numbered(d, f), Grows(d, e, k)
    PROVE  Numbered(e, f)
  <1>1. SUFFICES ASSUME f.from # 0 PROVE f.from < e.next /\ \A s \in e.states : s.id # f.from
    BY DEF Numbered
  <1>2. f.from < d.next /\ \A s \in d.states : s.id # f.from
    BY <1>1 DEF Numbered
  <1>3. d.next \in Nat /\ e.next \in Nat /\ d.next <= e.next
    BY DEF Tables, Grows
  <1>4. ASSUME NEW s \in e.states PROVE s.id # f.from
    <2>1. s.id \in Nat
      BY DEF Tables, StateRow
    <2>2. CASE s \in d.states
      BY <1>2, <2>2
    <2>3. CASE s.id >= d.next
      BY <1>2, <1>3, <2>1, <2>3
    <2> QED BY <2>2, <2>3 DEF Grows
  <1> QED
    BY <1>2, <1>3, <1>4

\* What has been claimed stays claimed.
LEMMA OwnsKept ==
    ASSUME NEW d \in Tables, NEW e \in Tables, NEW f, NEW k, f.from \in Nat \ {0}, Numbered(d, f),
           Owns(d, f), Grows(d, e, k)
    PROVE  /\ \A x \in e.setups : x.id = f.from => ~x.pending
           /\ f.from # k => Owns(e, f)
  <1>1. f.from < d.next /\ d.next \in Nat
    BY DEF Numbered, Tables
  <1>2. ASSUME NEW x \in e.setups, x.id = f.from, x.pending PROVE FALSE
    <2>1. CASE x \in d.setups
      BY <1>2, <2>1 DEF Owns
    <2>2. CASE x.id >= d.next
      BY <1>1, <1>2, <2>2
    <2> QED BY <1>2, <2>1, <2>2 DEF Grows
  <1>3. ASSUME f.from # k, f.todo[1].st = "createCredential" PROVE Unused(e, f.from)
    BY <1>3 DEF Owns, Unused, Grows
  <1> QED
    BY <1>2, <1>3 DEF Owns

\* The frame of a handler survives the statement of another one.
LEMMA FrameKept ==
    ASSUME NEW d \in Tables, NEW e \in Tables, NEW f, NEW k, Frame(d, f), Grows(d, e, k),
           Owning(f) => f.from # k
    PROVE  Frame(e, f)
  <1>1. f \in Handlers /\ f.from \in Nat /\ f.todo \in Seq(Statements)
    BY DEF Frame, Handlers
  <1>2. f.todo \in Seq(Right(f.scope, f.by, f.from))
    BY DEF Frame
  <1>3. Numbered(e, f)
    BY <1>1, NumberedKept DEF Frame
  <1>4. ASSUME Owning(f) PROVE Owns(e, f) /\ Closed(e, f)
    <2>1. f.from \in Nat \ {0} /\ f.from # k
      BY <1>1, <1>4 DEF Owning
    <2>2. Owns(e, f)
      BY <1>4, <2>1, OwnsKept DEF Frame
    <2>3. ASSUME NEW i \in 1 .. Len(f.todo), Access(f.todo[i])
          PROVE  Passkeyed(e, f.todo[i].name, f.from) \/ Gates(f.todo, i)
      <3>1. f.todo[i] \in Statements
        BY <1>1, <2>3, ElementOfSeq
      <3>2. f.todo[i].name \in AllNames
        BY <2>3, <3>1, Fields DEF Access
      <3>3. Passkeyed(d, f.todo[i].name, f.from) \/ Gates(f.todo, i)
        BY <1>4, <2>3 DEF Frame, Closed
      <3> QED BY <2>1, <3>2, <3>3 DEF Grows
    <2> QED BY <2>2, <2>3 DEF Closed
  <1> QED
    BY <1>1, <1>2, <1>3, <1>4 DEF Frame

\* A statement that leaves credentials, policies, setups and states alone.
SameKeys(d, e) ==
    /\ e.cred = d.cred /\ e.policy = d.policy /\ e.made = d.made /\ e.next = d.next
    /\ e.setups = d.setups /\ e.states = d.states

\* Such a statement is one that other frames survive,
LEMMA SameKeysGrow ==
    ASSUME NEW d \in Tables, NEW e, SameKeys(d, e)
    PROVE  \A k : Grows(d, e, k)
  BY DEF SameKeys, Grows, Passkeyed, Tables

\* keeps what is said of credentials, setups and states,
LEMMA SameKeysSound ==
    ASSUME NEW d, NEW e, Sound(d), SameKeys(d, e)
    PROVE  Bound(e) /\ Once(e) /\ Meant(e) /\ e.next > 0
  BY DEF SameKeys, Sound, Bound, Once, Meant, Unused

\* and so keeps the tables sound if the rows it writes are.
LEMMA SameKeysKeep ==
    ASSUME NEW d, NEW e \in Tables, Sound(d), SameKeys(d, e), Keyed(e), Bare(e), Scoped(e), Gated(e)
    PROVE  Sound(e) /\ \A k : Grows(d, e, k)
  <1>1. d \in Tables
    BY DEF Sound
  <1> QED
    BY <1>1, SameKeysGrow, SameKeysSound DEF Sound

\* Rows may go.
FewerRows(d, e) ==
    /\ SameKeys(d, e) /\ e.agent = d.agent /\ e.roles = d.roles
    /\ e.direct \subseteq d.direct /\ e.roleCred \subseteq d.roleCred
    /\ e.agentRole \subseteq d.agentRole /\ e.approver \subseteq d.approver

\* A statement that only removes rows keeps the tables sound.
LEMMA FewerRowsKeep ==
    ASSUME NEW d, NEW e \in Tables, Sound(d), FewerRows(d, e)
    PROVE  Sound(e) /\ \A k : Grows(d, e, k)
  <1>1. SameKeys(d, e)
    BY DEF FewerRows
  <1>2. Keyed(e)
    BY DEF FewerRows, Sound, Keyed
  <1>3. Bare(e)
    BY DEF FewerRows, SameKeys, Sound, Bare, Refers
  <1>4. Scoped(e)
    BY DEF FewerRows, SameKeys, Sound, Scoped
  <1>5. Gated(e)
    BY DEF FewerRows, SameKeys, Sound, Gated, Passkeyed
  <1> QED
    BY <1>1, <1>2, <1>3, <1>4, <1>5, SameKeysKeep

-----------------------------------------------------------------------------
(* The statements on agents, roles and scopes                              *)

\* Taking a credential or a role away keeps the tables sound.
LEMMA RemoveStatements ==
    ASSUME NEW d, Sound(d), NEW s
    PROVE  /\ Sound(RemoveDirectCredential(d, s)) /\ \A k : Grows(d, RemoveDirectCredential(d, s), k)
           /\ Sound(RemoveRoleFromAgent(d, s)) /\ \A k : Grows(d, RemoveRoleFromAgent(d, s), k)
           /\ Sound(RemoveCredentialFromRole(d, s)) /\ \A k : Grows(d, RemoveCredentialFromRole(d, s), k)
           /\ Sound(RemoveCredentialFromApprover(d, s)) /\ \A k : Grows(d, RemoveCredentialFromApprover(d, s), k)
  <1>0. d \in Tables
    BY DEF Sound
  <1>1. ASSUME NEW e, e = RemoveDirectCredential(d, s) PROVE Sound(e) /\ \A k : Grows(d, e, k)
    <2>1. PICK rows : rows = {r \in d.direct : r.agent # s.agent \/ r.name # s.name}
      OBVIOUS
    <2>2. e = [d EXCEPT !.direct = rows] /\ rows \subseteq d.direct
      BY <1>0, <1>1, <2>1 DEF RemoveDirectCredential
    <2>3. e \in Tables /\ FewerRows(d, e)
      BY <1>0, <2>2 DEF Tables, FewerRows, SameKeys
    <2> QED BY <2>3, FewerRowsKeep
  <1>2. ASSUME NEW e, e = RemoveRoleFromAgent(d, s) PROVE Sound(e) /\ \A k : Grows(d, e, k)
    <2>1. PICK rows : rows = d.agentRole \ {[agent |-> s.agent, role |-> s.role]}
      OBVIOUS
    <2>2. e = [d EXCEPT !.agentRole = rows] /\ rows \subseteq d.agentRole
      BY <1>0, <1>2, <2>1 DEF RemoveRoleFromAgent
    <2>3. e \in Tables /\ FewerRows(d, e)
      BY <1>0, <2>2 DEF Tables, FewerRows, SameKeys
    <2> QED BY <2>3, FewerRowsKeep
  <1>3. ASSUME NEW e, e = RemoveCredentialFromRole(d, s) PROVE Sound(e) /\ \A k : Grows(d, e, k)
    <2>1. PICK rows : rows = {r \in d.roleCred : r.role # s.role \/ r.name # s.name}
      OBVIOUS
    <2>2. e = [d EXCEPT !.roleCred = rows] /\ rows \subseteq d.roleCred
      BY <1>0, <1>3, <2>1 DEF RemoveCredentialFromRole
    <2>3. e \in Tables /\ FewerRows(d, e)
      BY <1>0, <2>2 DEF Tables, FewerRows, SameKeys
    <2> QED BY <2>3, FewerRowsKeep
  <1>4. ASSUME NEW e, e = RemoveCredentialFromApprover(d, s) PROVE Sound(e) /\ \A k : Grows(d, e, k)
    <2>1. PICK rows : rows = {r \in d.approver : r.user # s.user \/ r.name # s.name}
      OBVIOUS
    <2>2. e = [d EXCEPT !.approver = rows] /\ rows \subseteq d.approver
      BY <1>0, <1>4, <2>1 DEF RemoveCredentialFromApprover
    <2>3. e \in Tables /\ FewerRows(d, e)
      BY <1>0, <2>2 DEF Tables, FewerRows, SameKeys
    <2> QED BY <2>3, FewerRowsKeep
  <1> QED
    BY <1>1, <1>2, <1>3, <1>4

\* What is kept beside the rows: the challenges, the tier and the customer.
LEMMA TeamStatements ==
    ASSUME NEW d, Sound(d)
    PROVE  /\ \A x \in SUBSET (Users \cup Nat) :
                LET e == [d EXCEPT !.stepups = x] IN Sound(e) /\ \A k : Grows(d, e, k)
           /\ \A tier \in Tiers : LET e == UpdateTeamTier(d, tier) IN Sound(e) /\ \A k : Grows(d, e, k)
           /\ \A s : s.customer \in Customers =>
                LET e == SetStripeCustomerId(d, s) IN Sound(e) /\ \A k : Grows(d, e, k)
  <1>0. d \in Tables
    BY DEF Sound
  <1>1. ASSUME NEW x \in SUBSET (Users \cup Nat), NEW e, e = [d EXCEPT !.stepups = x]
        PROVE  Sound(e) /\ \A k : Grows(d, e, k)
    <2>1. e \in Tables /\ FewerRows(d, e)
      BY <1>0, <1>1 DEF Tables, FewerRows, SameKeys
    <2> QED BY <2>1, FewerRowsKeep
  <1>2. ASSUME NEW tier \in Tiers, NEW e, e = UpdateTeamTier(d, tier)
        PROVE  Sound(e) /\ \A k : Grows(d, e, k)
    <2>1. e \in Tables /\ FewerRows(d, e)
      BY <1>0, <1>2 DEF Tables, FewerRows, SameKeys, UpdateTeamTier
    <2> QED BY <2>1, FewerRowsKeep
  <1>3. ASSUME NEW s, s.customer \in Customers, NEW e, e = SetStripeCustomerId(d, s)
        PROVE  Sound(e) /\ \A k : Grows(d, e, k)
    <2>1. e \in Tables /\ FewerRows(d, e)
      BY <1>0, <1>3 DEF Tables, FewerRows, SameKeys, SetStripeCustomerId
    <2> QED BY <2>1, FewerRowsKeep
  <1> QED
    BY <1>1, <1>2, <1>3

\* An agent that is there stays, and an account key has a manager behind it.
AgentsOnly(d, e) ==
    /\ SameKeys(d, e) /\ e.roles = d.roles
    /\ e.direct = d.direct /\ e.roleCred = d.roleCred /\ e.agentRole = d.agentRole /\ e.approver = d.approver
    /\ \A a \in AgentIds : d.agent[a] # Absent => e.agent[a] # Absent
    /\ \A a \in AgentIds : e.agent[a] # Absent /\ e.agent[a].all => e.agent[a].allBy \in Managers

\* Writes to agents alone keep the tables sound.
LEMMA AgentsOnlyKeep ==
    ASSUME NEW d, NEW e \in Tables, Sound(d), AgentsOnly(d, e)
    PROVE  Sound(e) /\ \A k : Grows(d, e, k)
  <1>0. d \in Tables
    BY DEF Sound
  <1>1. SameKeys(d, e)
    BY DEF AgentsOnly
  <1>2. Keyed(e)
    BY <1>0 DEF AgentsOnly, Sound, Keyed, Tables, DirectRow, AgentRoleRow
  <1>3. Bare(e)
    BY DEF AgentsOnly, SameKeys, Sound, Bare, Refers
  <1>4. Scoped(e)
    BY DEF AgentsOnly, Sound, Scoped
  <1>5. Gated(e)
    BY DEF AgentsOnly, SameKeys, Sound, Gated, Passkeyed
  <1> QED
    BY <1>1, <1>2, <1>3, <1>4, <1>5, SameKeysKeep

\* One row of the agents is replaced.
LEMMA AgentReplaced ==
    ASSUME NEW d, Sound(d), NEW a \in AgentIds, NEW row \in AgentRow, row.all => row.allBy \in Managers,
           NEW e, e = [d EXCEPT !.agent[a] = row]
    PROVE  Sound(e) /\ \A k : Grows(d, e, k)
  <1>0. d \in Tables /\ row # Absent
    BY AbsentAssumption DEF Sound
  <1> DEFINE agent == [d.agent EXCEPT ![a] = row]
  <1>1. agent \in [AgentIds -> AgentRow \cup {Absent}] /\ \A b \in AgentIds : agent[b] = IF b = a THEN row ELSE d.agent[b]
    BY <1>0 DEF Tables
  <1>2. e = [d EXCEPT !.agent = agent]
    BY <1>0 DEF Tables
  <1> HIDE DEF agent
  <1>3. e \in Tables /\ e.agent = agent
    BY <1>0, <1>1, <1>2, ZenonT(40) DEF Tables
  <1>4. /\ SameKeys(d, e) /\ e.roles = d.roles
        /\ e.direct = d.direct /\ e.roleCred = d.roleCred /\ e.agentRole = d.agentRole /\ e.approver = d.approver
    BY <1>0, <1>2 DEF Tables, SameKeys
  <1>5. AgentsOnly(d, e)
    BY <1>0, <1>1, <1>3, <1>4 DEF AgentsOnly, Sound, Scoped
  <1> QED
    BY <1>3, <1>5, AgentsOnlyKeep

\* Creating an agent, letting it use all and enabling it keep the tables sound.
LEMMA AgentStatements ==
    ASSUME NEW d, Sound(d), NEW s, NEW by \in Actors, s.agent \in AgentIds
    PROVE  /\ /\ s.kind \in {"agent", "app"} /\ s.all \in BOOLEAN /\ s.owner \in Actors
              /\ s.all => by \in Managers
              => LET e == CreateAgent(d, s, by) IN Sound(e) /\ \A k : Grows(d, e, k)
           /\ s.all \in BOOLEAN /\ (s.all => by \in Managers)
              => LET e == SetAgentAllCredentials(d, s, by) IN Sound(e) /\ \A k : Grows(d, e, k)
           /\ s.enabled \in BOOLEAN
              => LET e == SetAgentEnabled(d, s) IN Sound(e) /\ \A k : Grows(d, e, k)
  <1>0. d \in Tables /\ (d.agent[s.agent] # Absent => d.agent[s.agent] \in AgentRow)
    BY DEF Sound, Tables
  <1>00. \A k : Grows(d, d, k)
    BY <1>0, SameKeysGrow DEF SameKeys
  <1>1. ASSUME s.kind \in {"agent", "app"}, s.all \in BOOLEAN, s.owner \in Actors, s.all => by \in Managers,
               NEW e, e = CreateAgent(d, s, by)
        PROVE  Sound(e) /\ \A k : Grows(d, e, k)
    <2> DEFINE row == [kind |-> s.kind, owner |-> s.owner, enabled |-> TRUE, all |-> s.all, allBy |-> by]
    <2>1. row \in AgentRow /\ (row.all => row.allBy \in Managers)
      BY <1>1 DEF AgentRow
    <2>2. e = [d EXCEPT !.agent[s.agent] = row]
      BY <1>1 DEF CreateAgent
    <2> HIDE DEF row
    <2> QED BY <2>1, <2>2, AgentReplaced
  <1>2. ASSUME s.all \in BOOLEAN, s.all => by \in Managers, NEW e, e = SetAgentAllCredentials(d, s, by)
        PROVE  Sound(e) /\ \A k : Grows(d, e, k)
    <2>1. CASE d.agent[s.agent] = Absent
      BY <1>00, <1>2, <2>1 DEF SetAgentAllCredentials
    <2>2. CASE d.agent[s.agent] # Absent
      <3> DEFINE row == [d.agent[s.agent] EXCEPT !.all = s.all, !.allBy = by]
      <3>1. row \in AgentRow /\ (row.all => row.allBy \in Managers)
        BY <1>0, <1>2, <2>2 DEF AgentRow
      <3>2. e = [d EXCEPT !.agent[s.agent] = row]
        BY <1>0, <1>2, <2>2 DEF SetAgentAllCredentials, Tables, AgentRow
      <3> HIDE DEF row
      <3> QED BY <3>1, <3>2, AgentReplaced
    <2> QED BY <2>1, <2>2
  <1>3. ASSUME s.enabled \in BOOLEAN, NEW e, e = SetAgentEnabled(d, s)
        PROVE  Sound(e) /\ \A k : Grows(d, e, k)
    <2>1. CASE d.agent[s.agent] = Absent
      BY <1>00, <1>3, <2>1 DEF SetAgentEnabled
    <2>2. CASE d.agent[s.agent] # Absent
      <3> DEFINE row == [d.agent[s.agent] EXCEPT !.enabled = s.enabled]
      <3>1. row \in AgentRow /\ (row.all => row.allBy \in Managers)
        BY <1>0, <1>3, <2>2 DEF AgentRow, Sound, Scoped
      <3>2. e = [d EXCEPT !.agent[s.agent] = row]
        BY <1>0, <1>3, <2>2 DEF SetAgentEnabled, Tables, AgentRow
      <3> HIDE DEF row
      <3> QED BY <3>1, <3>2, AgentReplaced
    <2> QED BY <2>1, <2>2
  <1> QED
    BY <1>1, <1>2, <1>3

\* A deleted agent takes its credentials and roles with it.
LEMMA DeleteAgentStatement ==
    ASSUME NEW d, Sound(d), NEW a \in AgentIds, NEW e, e = DeleteAgent(d, a)
    PROVE  Sound(e) /\ \A k : Grows(d, e, k)
  <1>0. d \in Tables
    BY DEF Sound
  <1> DEFINE agent == [d.agent EXCEPT ![a] = Absent]
             direct == {r \in d.direct : r.agent # a}
             agentRole == {r \in d.agentRole : r.agent # a}
  <1>1. /\ agent \in [AgentIds -> AgentRow \cup {Absent}]
        /\ \A b \in AgentIds : agent[b] = IF b = a THEN Absent ELSE d.agent[b]
    BY <1>0 DEF Tables
  <1>2. /\ direct \subseteq d.direct /\ agentRole \subseteq d.agentRole
        /\ (\A r \in direct : r.agent # a) /\ (\A r \in agentRole : r.agent # a)
    OBVIOUS
  <1>3. e = [d EXCEPT !.agent = agent, !.direct = direct, !.agentRole = agentRole]
    BY <1>0 DEF Tables, DeleteAgent
  <1> HIDE DEF agent, direct, agentRole
  <1>4. e \in Tables /\ e.agent = agent /\ e.direct = direct /\ e.agentRole = agentRole
    <2>1. direct \in SUBSET DirectRow /\ agentRole \in SUBSET AgentRoleRow
      BY <1>0, <1>2 DEF Tables
    <2>2. agent \in [AgentIds -> AgentRow \cup {Absent}]
      BY <1>1
    <2> QED BY <1>0, <1>3, <2>1, <2>2, ZenonT(40) DEF Tables
  <1>5. SameKeys(d, e) /\ e.roles = d.roles /\ e.roleCred = d.roleCred /\ e.approver = d.approver
    BY <1>0, <1>3 DEF Tables, SameKeys
  <1>6. Keyed(e)
    <2>1. Keyed(d) /\ (\A r \in d.direct : r.agent \in AgentIds) /\ (\A r \in d.agentRole : r.agent \in AgentIds)
      BY <1>0 DEF Sound, Tables, DirectRow, AgentRoleRow
    <2> QED BY <1>1, <1>2, <1>4, <1>5, <2>1 DEF Keyed
  <1>7. Bare(e)
    BY <1>2, <1>4, <1>5 DEF SameKeys, Sound, Bare, Refers
  <1>8. Scoped(e)
    BY <1>1, <1>2, <1>4, <1>5 DEF Sound, Scoped
  <1>9. Gated(e)
    BY <1>2, <1>4, <1>5 DEF SameKeys, Sound, Gated, Passkeyed
  <1> QED
    BY <1>4, <1>5, <1>6, <1>7, <1>8, <1>9, SameKeysKeep

\* A direct credential of an agent refers to the credential there is.
LEMMA AddDirectStatement ==
    ASSUME NEW d, Sound(d), NEW s, s.agent \in AgentIds, s.name \in AllNames,
           NEW f, f.by \in Actors, f.from \in Nat, f.scope \in SUBSET AllNames, InScope(f.scope, f.by, s.name),
           f.from # 0 => Passkeyed(d, s.name, f.from),
           NEW e, e = AddDirectCredential(d, s, f)
    PROVE  Sound(e) /\ \A k : Grows(d, e, k)
  <1>0. d \in Tables
    BY DEF Sound
  <1>1. CASE \/ d.agent[s.agent] = Absent \/ ~GetCredential(d, s.name)
             \/ \E r \in d.direct : r.agent = s.agent /\ r.name = s.name
    <2>1. e = d
      BY <1>1 DEF AddDirectCredential
    <2>2. \A k : Grows(d, d, k)
      BY <1>0, SameKeysGrow DEF SameKeys
    <2> QED BY <2>1, <2>2
  <1>2. CASE /\ d.agent[s.agent] # Absent /\ GetCredential(d, s.name)
             /\ ~\E r \in d.direct : r.agent = s.agent /\ r.name = s.name
    <2> DEFINE row == [agent |-> s.agent, name |-> s.name, by |-> f.by, from |-> f.from, id |-> d.cred[s.name].id,
                       scope |-> f.scope]
    <2>1. d.cred[s.name] # Absent /\ d.cred[s.name].id \in Nat
      BY <1>0, <1>2 DEF GetCredential, Tables, CredentialRow
    <2>2. /\ row \in DirectRow /\ row.agent = s.agent /\ row.name = s.name /\ row.by = f.by /\ row.from = f.from
          /\ row.id = d.cred[s.name].id /\ row.scope = f.scope
      BY <2>1 DEF DirectRow
    <2>3. e = [d EXCEPT !.direct = d.direct \cup {row}]
      BY <1>2 DEF AddDirectCredential
    <2> HIDE DEF row
    <2>4. /\ e \in Tables /\ e.direct = d.direct \cup {row} /\ SameKeys(d, e)
          /\ e.agent = d.agent /\ e.roles = d.roles /\ e.roleCred = d.roleCred /\ e.agentRole = d.agentRole
          /\ e.approver = d.approver /\ e.cred = d.cred /\ e.policy = d.policy
      BY <1>0, <2>2, <2>3 DEF Tables, SameKeys
    <2>5. Keyed(e)
      BY <1>2, <2>2, <2>4 DEF Sound, Keyed
    <2>6. Bare(e)
      BY <2>1, <2>2, <2>4 DEF Sound, Bare, Refers
    <2>7. Scoped(e)
      BY <2>2, <2>4 DEF Sound, Scoped, InScope
    <2>8. Gated(e)
      BY <2>2, <2>4 DEF Sound, Gated, Passkeyed
    <2> QED BY <2>4, <2>5, <2>6, <2>7, <2>8, SameKeysKeep
  <1> QED
    BY <1>1, <1>2

\* The statements on roles keep the tables sound.
LEMMA RoleStatements ==
    ASSUME NEW d, Sound(d), NEW s, s.role \in RoleNames
    PROVE  /\ LET e == CreateRole(d, s) IN Sound(e) /\ \A k : Grows(d, e, k)
           /\ LET e == DeleteRole(d, s.role) IN Sound(e) /\ \A k : Grows(d, e, k)
           /\ s.name \in AllNames => LET e == AddCredentialToRole(d, s) IN Sound(e) /\ \A k : Grows(d, e, k)
           /\ s.agent \in AgentIds => LET e == AssignRoleToAgent(d, s) IN Sound(e) /\ \A k : Grows(d, e, k)
  <1>0. d \in Tables
    BY DEF Sound
  <1>00. \A k : Grows(d, d, k)
    BY <1>0, SameKeysGrow DEF SameKeys
  <1>1. ASSUME NEW e, e = CreateRole(d, s) PROVE Sound(e) /\ \A k : Grows(d, e, k)
    <2>1. /\ e \in Tables /\ e.roles = d.roles \cup {s.role} /\ SameKeys(d, e)
          /\ e.agent = d.agent /\ e.direct = d.direct /\ e.roleCred = d.roleCred /\ e.agentRole = d.agentRole
          /\ e.approver = d.approver /\ e.cred = d.cred /\ e.policy = d.policy
      BY <1>0, <1>1 DEF CreateRole, Tables, SameKeys
    <2>2. Keyed(e)
      BY <2>1 DEF Sound, Keyed
    <2>3. Bare(e) /\ Scoped(e) /\ Gated(e)
      BY <2>1 DEF Sound, Bare, Refers, Scoped, Gated, Passkeyed
    <2> QED BY <2>1, <2>2, <2>3, SameKeysKeep
  <1>2. ASSUME NEW e, e = DeleteRole(d, s.role) PROVE Sound(e) /\ \A k : Grows(d, e, k)
    <2> DEFINE roleCred == {x \in d.roleCred : x.role # s.role}
               agentRole == {x \in d.agentRole : x.role # s.role}
    <2>1. e = [d EXCEPT !.roles = d.roles \ {s.role}, !.roleCred = roleCred, !.agentRole = agentRole]
      BY <1>2 DEF DeleteRole
    <2>2. /\ roleCred \subseteq d.roleCred /\ agentRole \subseteq d.agentRole
          /\ (\A x \in roleCred : x.role # s.role) /\ (\A x \in agentRole : x.role # s.role)
      OBVIOUS
    <2> HIDE DEF roleCred, agentRole
    <2>3. /\ e \in Tables /\ e.roles = d.roles \ {s.role} /\ SameKeys(d, e)
          /\ e.agent = d.agent /\ e.direct = d.direct /\ e.roleCred = roleCred /\ e.agentRole = agentRole
          /\ e.approver = d.approver /\ e.cred = d.cred /\ e.policy = d.policy
      BY <1>0, <2>1, <2>2 DEF Tables, SameKeys
    <2>4. Keyed(e)
      BY <2>2, <2>3 DEF Sound, Keyed
    <2>5. Bare(e)
      BY <2>2, <2>3 DEF Sound, Bare, Refers
    <2>6. Scoped(e) /\ Gated(e)
      BY <2>3 DEF Sound, Scoped, Gated, Passkeyed
    <2> QED BY <2>3, <2>4, <2>5, <2>6, SameKeysKeep
  <1>3. ASSUME s.name \in AllNames, NEW e, e = AddCredentialToRole(d, s) PROVE Sound(e) /\ \A k : Grows(d, e, k)
    <2>1. CASE s.role \notin d.roles \/ ~GetCredential(d, s.name)
      BY <1>00, <1>3, <2>1 DEF AddCredentialToRole
    <2>2. CASE s.role \in d.roles /\ GetCredential(d, s.name)
      <3> DEFINE row == [role |-> s.role, name |-> s.name, id |-> d.cred[s.name].id]
      <3>1. d.cred[s.name] # Absent /\ d.cred[s.name].id \in Nat
        BY <1>0, <1>3, <2>2 DEF GetCredential, Tables, CredentialRow
      <3>2. row \in RoleCredRow /\ row.role = s.role /\ row.name = s.name /\ row.id = d.cred[s.name].id
        BY <1>3, <3>1 DEF RoleCredRow
      <3>3. e = [d EXCEPT !.roleCred = d.roleCred \cup {row}]
        BY <1>3, <2>2 DEF AddCredentialToRole
      <3> HIDE DEF row
      <3>4. /\ e \in Tables /\ e.roleCred = d.roleCred \cup {row} /\ SameKeys(d, e)
            /\ e.agent = d.agent /\ e.roles = d.roles /\ e.direct = d.direct /\ e.agentRole = d.agentRole
            /\ e.approver = d.approver /\ e.cred = d.cred /\ e.policy = d.policy
        BY <1>0, <3>2, <3>3 DEF Tables, SameKeys
      <3>5. Keyed(e)
        BY <2>2, <3>2, <3>4 DEF Sound, Keyed
      <3>6. Bare(e)
        BY <3>1, <3>2, <3>4 DEF Sound, Bare, Refers
      <3>7. Scoped(e) /\ Gated(e)
        BY <3>4 DEF Sound, Scoped, Gated, Passkeyed
      <3> QED BY <3>4, <3>5, <3>6, <3>7, SameKeysKeep
    <2> QED BY <2>1, <2>2
  <1>4. ASSUME s.agent \in AgentIds, NEW e, e = AssignRoleToAgent(d, s) PROVE Sound(e) /\ \A k : Grows(d, e, k)
    <2>1. CASE d.agent[s.agent] = Absent \/ s.role \notin d.roles
      BY <1>00, <1>4, <2>1 DEF AssignRoleToAgent
    <2>2. CASE d.agent[s.agent] # Absent /\ s.role \in d.roles
      <3> DEFINE row == [agent |-> s.agent, role |-> s.role]
      <3>1. row \in AgentRoleRow /\ row.agent = s.agent /\ row.role = s.role
        BY <1>4 DEF AgentRoleRow
      <3>2. e = [d EXCEPT !.agentRole = d.agentRole \cup {row}]
        BY <1>4, <2>2 DEF AssignRoleToAgent
      <3> HIDE DEF row
      <3>3. /\ e \in Tables /\ e.agentRole = d.agentRole \cup {row} /\ SameKeys(d, e)
            /\ e.agent = d.agent /\ e.roles = d.roles /\ e.direct = d.direct /\ e.roleCred = d.roleCred
            /\ e.approver = d.approver /\ e.cred = d.cred /\ e.policy = d.policy
        BY <1>0, <3>1, <3>2 DEF Tables, SameKeys
      <3>4. Keyed(e)
        BY <2>2, <3>1, <3>3 DEF Sound, Keyed
      <3>5. Bare(e) /\ Scoped(e) /\ Gated(e)
        BY <3>3 DEF Sound, Bare, Refers, Scoped, Gated, Passkeyed
      <3> QED BY <3>3, <3>4, <3>5, SameKeysKeep
    <2> QED BY <2>1, <2>2
  <1> QED
    BY <1>1, <1>2, <1>3, <1>4

\* A scope that is widened names the credential there is.
LEMMA AssignApproverStatement ==
    ASSUME NEW d, Sound(d), NEW s, s.user \in Users, s.name \in AllNames,
           NEW e, e = AssignCredentialToApprover(d, s)
    PROVE  Sound(e) /\ \A k : Grows(d, e, k)
  <1>0. d \in Tables
    BY DEF Sound
  <1>1. CASE ~GetCredential(d, s.name)
    <2>1. \A k : Grows(d, d, k)
      BY <1>0, SameKeysGrow DEF SameKeys
    <2> QED BY <1>1, <2>1 DEF AssignCredentialToApprover
  <1>2. CASE GetCredential(d, s.name)
    <2> DEFINE row == [user |-> s.user, name |-> s.name, id |-> d.cred[s.name].id]
    <2>1. d.cred[s.name] # Absent /\ d.cred[s.name].id \in Nat
      BY <1>0, <1>2 DEF GetCredential, Tables, CredentialRow
    <2>2. /\ row \in ScopeRow /\ row.user = s.user /\ row.name = s.name /\ row.id = d.cred[s.name].id
      BY <2>1 DEF ScopeRow
    <2>3. e = [d EXCEPT !.approver = d.approver \cup {row}]
      BY <1>2 DEF AssignCredentialToApprover
    <2> HIDE DEF row
    <2>5. /\ e \in Tables /\ e.approver = d.approver \cup {row}
          /\ e.agent = d.agent /\ e.roles = d.roles /\ e.direct = d.direct /\ e.roleCred = d.roleCred
          /\ e.agentRole = d.agentRole /\ e.cred = d.cred /\ e.policy = d.policy
      <3> DEFINE approver == d.approver \cup {row}
      <3>1. approver \in SUBSET ScopeRow
        BY <1>0, <2>2 DEF Tables
      <3>2. e = [d EXCEPT !.approver = approver]
        BY <2>3
      <3> HIDE DEF approver
      <3>3. /\ e \in Tables /\ e.approver = approver
            /\ e.agent = d.agent /\ e.roles = d.roles /\ e.direct = d.direct /\ e.roleCred = d.roleCred
            /\ e.agentRole = d.agentRole /\ e.cred = d.cred /\ e.policy = d.policy
        BY <1>0, <3>1, <3>2, ZenonT(40) DEF Tables
      <3> QED BY <3>3 DEF approver
    <2>6. SameKeys(d, e)
      BY <1>0, <2>3 DEF Tables, SameKeys
    <2>7. Keyed(e) /\ Gated(e)
      BY <2>5 DEF Sound, Keyed, Gated, Passkeyed
    <2>8. Bare(e)
      BY <2>1, <2>2, <2>5 DEF Sound, Bare, Refers
    <2>9. Scoped(e)
      BY <2>5 DEF Sound, Scoped
    <2> QED BY <2>5, <2>6, <2>7, <2>8, <2>9, SameKeysKeep
  <1> QED
    BY <1>1, <1>2

-----------------------------------------------------------------------------
(* The statements on credentials and policies                              *)

(* A row that is there keeps its number, its owner and where it came from. *)
SameOrigin(x, y) ==
    /\ y # Absent /\ y.id = x.id /\ y.endUser = x.endUser /\ y.from = x.from /\ y.gate = x.gate

\* A column of a credential is written.
LEMMA CredentialWritten ==
    ASSUME NEW d, Sound(d), NEW n \in AllNames, d.cred[n] # Absent, NEW row \in CredentialRow,
           SameOrigin(d.cred[n], row), NEW e, e = [d EXCEPT !.cred[n] = row]
    PROVE  Sound(e) /\ \A k : Grows(d, e, k)
  <1>0. d \in Tables
    BY DEF Sound
  <1> DEFINE cred == [d.cred EXCEPT ![n] = row]
  <1>1. cred \in [AllNames -> CredentialRow \cup {Absent}] /\ \A m \in AllNames : cred[m] = IF m = n THEN row ELSE d.cred[m]
    BY <1>0 DEF Tables
  <1>2. e = [d EXCEPT !.cred = cred]
    BY <1>0 DEF Tables
  <1> HIDE DEF cred
  <1>3. /\ e \in Tables /\ e.cred = cred /\ e.policy = d.policy /\ e.agent = d.agent /\ e.roles = d.roles
        /\ e.roleCred = d.roleCred /\ e.agentRole = d.agentRole /\ e.direct = d.direct /\ e.approver = d.approver
        /\ e.setups = d.setups /\ e.states = d.states /\ e.made = d.made /\ e.next = d.next
    <2>1. cred \in [AllNames -> CredentialRow \cup {Absent}]
      BY <1>1
    <2> QED BY <1>0, <1>2, <2>1, ZenonT(40) DEF Tables
  <1>4. /\ \A m \in AllNames : e.cred[m] = Absent <=> d.cred[m] = Absent
        /\ \A m \in AllNames : e.cred[m] # Absent => SameOrigin(d.cred[m], e.cred[m])
    BY <1>1, <1>3 DEF SameOrigin
  <1>5. Keyed(e) /\ Scoped(e) /\ Once(e) /\ Meant(e)
    BY <1>3 DEF Sound, Keyed, Scoped, Once, Meant, Unused
  <1>6. Bare(e)
    <2>1. Bare(d) /\ \A r \in d.direct \cup d.roleCred \cup d.approver : r.name \in AllNames
      BY <1>0 DEF Sound, Tables, DirectRow, RoleCredRow, ScopeRow
    <2> QED BY <1>3, <1>4, <2>1 DEF Bare, Refers, SameOrigin
  <1>7. Bound(e)
    BY <1>3, <1>4 DEF Sound, Bound, SameOrigin
  <1>8. \A m \in AllNames, j \in Nat : Passkeyed(d, m, j) => Passkeyed(e, m, j)
    BY <1>3, <1>4 DEF Passkeyed, SameOrigin
  <1>9. Gated(e)
    BY <1>0, <1>3, <1>8 DEF Sound, Gated, Tables, DirectRow
  <1>10. \A k : Grows(d, e, k)
    <2>1. d.next \in Nat
      BY <1>0 DEF Tables
    <2> QED BY <1>3, <1>8, <2>1 DEF Grows
  <1> QED
    BY <1>3, <1>5, <1>6, <1>7, <1>9, <1>10 DEF Sound

\* Writing the connector, the hosts or the value keeps what the row is.
LEMMA WriteStatements ==
    ASSUME NEW d, Sound(d), NEW s, s.name \in AllNames
    PROVE  /\ s.connector \in {"direct", "sidecar"} =>
                LET e == UpdateCredentialConfig(d, s) IN Sound(e) /\ \A k : Grows(d, e, k)
           /\ s.hosts \in Hosts => LET e == SetCredentialAllowedHosts(d, s) IN Sound(e) /\ \A k : Grows(d, e, k)
           /\ s.value \in Values => LET e == SetCredentialValue(d, s) IN Sound(e) /\ \A k : Grows(d, e, k)
  <1>0. d \in Tables
    BY DEF Sound
  <1>00. \A k : Grows(d, d, k)
    BY <1>0, SameKeysGrow DEF SameKeys
  <1>1. CASE d.cred[s.name] = Absent
    BY <1>00, <1>1 DEF UpdateCredentialConfig, SetCredentialAllowedHosts, SetCredentialValue, GetCredential
  <1>2. CASE d.cred[s.name] # Absent
    <2>0. d.cred[s.name] \in CredentialRow
      BY <1>0, <1>2 DEF Tables
    <2>1. ASSUME s.connector \in {"direct", "sidecar"}, NEW e, e = UpdateCredentialConfig(d, s)
          PROVE  Sound(e) /\ \A k : Grows(d, e, k)
      <3> DEFINE row == [d.cred[s.name] EXCEPT !.connector = s.connector]
      <3>1. row \in CredentialRow /\ row # Absent /\ SameOrigin(d.cred[s.name], row)
        BY <2>0, <2>1, AbsentAssumption DEF CredentialRow, SameOrigin
      <3>2. e = [d EXCEPT !.cred[s.name] = row]
        BY <1>0, <1>2, <2>1 DEF UpdateCredentialConfig, GetCredential, Tables
      <3> HIDE DEF row
      <3> QED BY <1>2, <3>1, <3>2, CredentialWritten
    <2>2. ASSUME s.hosts \in Hosts, NEW e, e = SetCredentialAllowedHosts(d, s)
          PROVE  Sound(e) /\ \A k : Grows(d, e, k)
      <3> DEFINE row == [d.cred[s.name] EXCEPT !.hosts = s.hosts]
      <3>1. row \in CredentialRow /\ row # Absent /\ SameOrigin(d.cred[s.name], row)
        BY <2>0, <2>2, AbsentAssumption DEF CredentialRow, SameOrigin
      <3>2. e = [d EXCEPT !.cred[s.name] = row]
        BY <1>0, <1>2, <2>2 DEF SetCredentialAllowedHosts, GetCredential, Tables
      <3> HIDE DEF row
      <3> QED BY <1>2, <3>1, <3>2, CredentialWritten
    <2>3. ASSUME s.value \in Values, NEW e, e = SetCredentialValue(d, s)
          PROVE  Sound(e) /\ \A k : Grows(d, e, k)
      <3> DEFINE row == [d.cred[s.name] EXCEPT !.value = s.value]
      <3>1. row \in CredentialRow /\ row # Absent /\ SameOrigin(d.cred[s.name], row)
        BY <2>0, <2>3, AbsentAssumption DEF CredentialRow, SameOrigin
      <3>2. e = [d EXCEPT !.cred[s.name] = row]
        BY <1>0, <1>2, <2>3 DEF SetCredentialValue, GetCredential, Tables
      <3> HIDE DEF row
      <3> QED BY <1>2, <3>1, <3>2, CredentialWritten
    <2> QED BY <2>1, <2>2, <2>3
  <1> QED
    BY <1>1, <1>2

\* A deleted credential takes what refers to it along.
LEMMA DeleteCredentialStatement ==
    ASSUME NEW d, Sound(d), NEW n \in AllNames, NEW e, e = DeleteCredential(d, n)
    PROVE  Sound(e) /\ \A k : Grows(d, e, k)
  <1>0. d \in Tables
    BY DEF Sound
  <1> DEFINE cred == [d.cred EXCEPT ![n] = Absent]
             policy == [d.policy EXCEPT ![n] = Absent]
             direct == Without(d.direct, n)
             approver == Without(d.approver, n)
             roleCred == Without(d.roleCred, n)
  <1>1. /\ cred \in [AllNames -> CredentialRow \cup {Absent}]
        /\ policy \in [AllNames -> PolicyRow \cup {Absent}]
        /\ direct \subseteq d.direct /\ approver \subseteq d.approver /\ roleCred \subseteq d.roleCred
    BY <1>0 DEF Tables, Without
  <1>2. /\ \A m \in AllNames : cred[m] = IF m = n THEN Absent ELSE d.cred[m]
        /\ \A m \in AllNames : policy[m] = IF m = n THEN Absent ELSE d.policy[m]
        /\ \A r \in direct : r \in d.direct /\ r.name # n /\ r.name \in AllNames
        /\ \A r \in approver : r \in d.approver /\ r.name # n /\ r.name \in AllNames
        /\ \A r \in roleCred : r \in d.roleCred /\ r.name # n /\ r.name \in AllNames
    BY <1>0 DEF Tables, Without, DirectRow, ScopeRow, RoleCredRow
  <1>3. e = [d EXCEPT !.cred = cred, !.policy = policy, !.direct = direct, !.approver = approver, !.roleCred = roleCred]
    BY <1>0 DEF Tables, DeleteCredential
  <1> HIDE DEF cred, policy, direct, approver, roleCred
  <1>4. /\ e.cred = cred /\ e.policy = policy /\ e.direct = direct /\ e.approver = approver /\ e.roleCred = roleCred
        /\ e.agent = d.agent /\ e.roles = d.roles /\ e.agentRole = d.agentRole
        /\ e.setups = d.setups /\ e.states = d.states /\ e.made = d.made /\ e.next = d.next
    BY <1>0, <1>3 DEF Tables
  <1>5. e \in Tables
    <2>1. direct \in SUBSET DirectRow /\ approver \in SUBSET ScopeRow /\ roleCred \in SUBSET RoleCredRow
      BY <1>0, <1>1 DEF Tables
    <2>2. PICK x : x = [d EXCEPT !.direct = direct, !.approver = approver, !.roleCred = roleCred]
      OBVIOUS
    <2>3. x \in Tables
      BY <1>0, <2>1, <2>2 DEF Tables
    <2>4. cred \in [AllNames -> CredentialRow \cup {Absent}] /\ policy \in [AllNames -> PolicyRow \cup {Absent}]
      BY <1>1
    <2>5. e = [x EXCEPT !.cred = cred, !.policy = policy]
      BY <1>0, <1>3, <2>2, <2>3 DEF Tables
    <2> QED BY <2>3, <2>4, <2>5, ZenonT(40) DEF Tables
  <1>6. Once(e) /\ Meant(e)
    BY <1>4 DEF Sound, Once, Meant, Unused
  <1>7. Keyed(e) /\ Scoped(e)
    BY <1>2, <1>4 DEF Sound, Keyed, Scoped
  <1>8. Bare(e)
    BY <1>2, <1>4 DEF Sound, Bare, Refers
  <1>9. Bound(e)
    BY <1>2, <1>4 DEF Sound, Bound
  <1>10. \A m \in AllNames, j \in Nat : Passkeyed(d, m, j) => Passkeyed(e, m, j)
    BY <1>2, <1>4 DEF Passkeyed
  <1>11. Gated(e)
    BY <1>0, <1>2, <1>4, <1>10 DEF Sound, Gated, Tables, DirectRow
  <1>12. \A k : Grows(d, e, k)
    <2>1. d.next \in Nat
      BY <1>0 DEF Tables
    <2> QED BY <1>4, <1>10, <2>1 DEF Grows
  <1> QED
    BY <1>4, <1>5, <1>6, <1>7, <1>8, <1>9, <1>11, <1>12 DEF Sound

\* A gate that is closed is not opened: a policy without one is of an
\* end-user's credential, which has none.
LEMMA SetPolicyStatement ==
    ASSUME NEW d, Sound(d), NEW s, s.name \in AllNames, s.passkey \in BOOLEAN, d.cred[s.name] # Absent,
           ~s.passkey => s.name \in EndUserNames, NEW e, e = SetPolicy(d, s)
    PROVE  /\ Sound(e) /\ \A k : Grows(d, e, k)
           /\ s.passkey => \A j \in Nat : Passkeyed(e, s.name, j)
  <1>0. d \in Tables
    BY DEF Sound
  <1> DEFINE row == [id |-> d.cred[s.name].id, passkey |-> s.passkey]
             policy == [d.policy EXCEPT ![s.name] = row]
  <1>1. row \in PolicyRow /\ row # Absent /\ row.id = d.cred[s.name].id /\ row.passkey = s.passkey
    BY <1>0, AbsentAssumption DEF Tables, CredentialRow, PolicyRow
  <1> HIDE DEF row
  <1>2. /\ policy \in [AllNames -> PolicyRow \cup {Absent}]
        /\ \A m \in AllNames : policy[m] = IF m = s.name THEN row ELSE d.policy[m]
    BY <1>0, <1>1 DEF Tables
  <1>3. e = [d EXCEPT !.policy = policy]
    BY <1>0 DEF Tables, SetPolicy, GetCredential, row
  <1> HIDE DEF policy
  <1>4. /\ e \in Tables /\ e.policy = policy /\ e.cred = d.cred /\ e.agent = d.agent /\ e.roles = d.roles
        /\ e.roleCred = d.roleCred /\ e.agentRole = d.agentRole /\ e.direct = d.direct /\ e.approver = d.approver
        /\ e.setups = d.setups /\ e.states = d.states /\ e.made = d.made /\ e.next = d.next
    <2>1. policy \in [AllNames -> PolicyRow \cup {Absent}]
      BY <1>2
    <2> QED BY <1>0, <1>3, <2>1 DEF Tables
  <1>5. Keyed(e) /\ Scoped(e) /\ Once(e) /\ Meant(e) /\ Bound(e)
    BY <1>4 DEF Sound, Keyed, Scoped, Once, Meant, Unused, Bound
  <1>6. Bare(e)
    BY <1>1, <1>2, <1>4 DEF Sound, Bare, Refers
  <1>7. \A m \in AllNames, j \in Nat : Passkeyed(d, m, j) => Passkeyed(e, m, j)
    <2>1. d.cred[s.name].gate => s.passkey
      BY DEF Sound, Bound
    <2> QED BY <1>1, <1>2, <1>4, <2>1 DEF Passkeyed
  <1>8. Gated(e)
    BY <1>0, <1>4, <1>7 DEF Sound, Gated, Tables, DirectRow
  <1>9. \A k : Grows(d, e, k)
    <2>1. d.next \in Nat
      BY <1>0 DEF Tables
    <2> QED BY <1>4, <1>7, <2>1 DEF Grows
  <1>10. s.passkey => \A j \in Nat : Passkeyed(e, s.name, j)
    BY <1>1, <1>2, <1>4 DEF Passkeyed
  <1> QED
    BY <1>4, <1>5, <1>6, <1>8, <1>9, <1>10 DEF Sound

\* The name was free, so nothing refers to the credential that is made, and
\* what it was made from is good for one.
LEMMA CreateCredentialStatement ==
    ASSUME NEW d, Sound(d), NEW s \in Statements, s.st = "createCredential", d.cred[s.name] = Absent,
           s.endUser = OwnerOf(s.name), s.gate => s.name \notin EndUserNames, NEW from \in Nat,
           from # 0 => /\ from < d.next /\ Unused(d, from)
                       /\ \A x \in d.states : x.id # from
                       /\ \A x \in d.setups : x.id = from => ~x.pending,
           NEW e, e = CreateCredential(d, s, from)
    PROVE  /\ Sound(e) /\ Grows(d, e, from)
           /\ \A m \in AllNames : (m # s.name \/ ~s.gate) /\ Passkeyed(d, m, from) => Passkeyed(e, m, from)
           /\ ~s.gate => Passkeyed(e, s.name, from)
  <1>0. d \in Tables /\ d.next \in Nat /\ d.next > 0 /\ d.next + 1 \in Nat
    BY DEF Sound, Tables
  <1>00. /\ s.name \in AllNames /\ s.connector \in {"direct", "sidecar"} /\ s.value \in Values
         /\ s.endUser \in AllNames \cup {Nobody} /\ s.app \in Apps \cup {Nobody} /\ s.gate \in BOOLEAN
    BY Fields
  <1> DEFINE row == [id |-> d.next, connector |-> s.connector, hosts |-> "any", value |-> s.value,
                     endUser |-> s.endUser, app |-> s.app, from |-> from, gate |-> s.gate]
             pair == <<from, d.next>>
             cred == [d.cred EXCEPT ![s.name] = row]
             made == IF from = 0 THEN d.made ELSE d.made \cup {pair}
             next == d.next + 1
  <1>1. /\ row \in CredentialRow /\ row # Absent /\ row.id = d.next /\ row.endUser = s.endUser
        /\ row.from = from /\ row.gate = s.gate
    BY <1>0, <1>00, AbsentAssumption DEF CredentialRow, Hosts
  <1>2. pair \in Nat \X Nat /\ pair[1] = from /\ pair = <<from, d.next>>
    BY <1>0
  <1> HIDE DEF row, pair
  <1>3. /\ cred \in [AllNames -> CredentialRow \cup {Absent}]
        /\ \A m \in AllNames : cred[m] = IF m = s.name THEN row ELSE d.cred[m]
    BY <1>0, <1>00, <1>1 DEF Tables
  <1>4. /\ made \in SUBSET (Nat \X Nat) /\ d.made \subseteq made
        /\ \A p \in made : p \in d.made \/ (p = pair /\ from # 0)
        /\ from # 0 => pair \in made
    BY <1>0, <1>2 DEF Tables
  <1>5. e = [d EXCEPT !.cred = cred, !.made = made, !.next = next]
    BY <1>0 DEF Tables, CreateCredential, row, pair
  <1>50. next \in Nat /\ next = d.next + 1
    BY <1>0
  <1> HIDE DEF cred, made, next
  <1>6. /\ e.cred = cred /\ e.made = made /\ e.next = next
        /\ e.policy = d.policy /\ e.agent = d.agent /\ e.roles = d.roles /\ e.roleCred = d.roleCred
        /\ e.agentRole = d.agentRole /\ e.direct = d.direct /\ e.approver = d.approver
        /\ e.setups = d.setups /\ e.states = d.states
    BY <1>0, <1>5 DEF Tables
  <1>7. e \in Tables
    <2>1. cred \in [AllNames -> CredentialRow \cup {Absent}] /\ made \in SUBSET (Nat \X Nat) /\ next \in Nat
      BY <1>3, <1>4, <1>50
    <2>2. PICK x : x = [d EXCEPT !.cred = cred]
      OBVIOUS
    <2>3. d \in Tables /\ cred \in [AllNames -> CredentialRow \cup {Absent}]
      BY <1>0, <2>1
    <2>4. x \in Tables
      BY <2>2, <2>3 DEF Tables
    <2>5. e = [x EXCEPT !.made = made, !.next = next]
      BY <1>5, <2>2, <2>3 DEF Tables
    <2>6. made \in SUBSET (Nat \X Nat) /\ next \in Nat
      BY <2>1
    <2> QED BY <2>4, <2>5, <2>6, ZenonT(40) DEF Tables
  <1>8. Keyed(e) /\ Scoped(e) /\ Meant(e)
    BY <1>6 DEF Sound, Keyed, Scoped, Meant
  <1>9. /\ \A r \in d.direct \cup d.roleCred \cup d.approver : r.name \in AllNames /\ r.name # s.name
        /\ d.policy[s.name] = Absent
    BY <1>0, <1>00 DEF Sound, Bare, Refers, Tables, DirectRow, RoleCredRow, ScopeRow
  <1>10. Bare(e)
    BY <1>3, <1>6, <1>9 DEF Sound, Bare, Refers
  <1>11. Bound(e)
    <2>1. ASSUME NEW m \in AllNames, e.cred[m] # Absent
          PROVE  /\ e.cred[m].endUser = OwnerOf(m)
                 /\ e.cred[m].gate => m \notin EndUserNames
                 /\ e.cred[m].from # 0 => <<e.cred[m].from, e.cred[m].id>> \in e.made
      <3>1. CASE m = s.name
        BY <1>1, <1>2, <1>3, <1>4, <1>6, <3>1
      <3>2. CASE m # s.name
        BY <1>3, <1>4, <1>6, <2>1, <3>2 DEF Sound, Bound
      <3> QED BY <3>1, <3>2
    <2> QED BY <2>1 DEF Bound
  <1>12. Once(e)
    <2>1. \A p \in d.made : p[1] \in Nat /\ p[1] < d.next
      BY <1>0 DEF Sound, Once, Tables
    <2>2. \A p \in e.made : p[1] < e.next
      BY <1>0, <1>2, <1>4, <1>50, <1>6, <2>1
    <2>3. \A p, q \in e.made : p[1] = q[1] => p = q
      BY <1>2, <1>4, <1>6 DEF Sound, Once, Unused
    <2>4. ASSUME NEW k, k # from \/ from = 0, Unused(d, k) PROVE Unused(e, k)
      BY <1>2, <1>4, <1>6, <2>4 DEF Unused
    <2>5. ASSUME NEW x \in e.setups
          PROVE  x.id # 0 /\ x.id < e.next /\ x.name \notin EndUserNames /\ (x.pending => Unused(e, x.id))
      <3>1. /\ x \in d.setups /\ x.id \in Nat /\ x.id # 0 /\ x.id < d.next /\ x.name \notin EndUserNames
            /\ x.pending => Unused(d, x.id)
        BY <1>0, <1>6, <2>5 DEF Sound, Once, Tables, SetupRow
      <3>2. x.pending => Unused(e, x.id)
        BY <2>4, <3>1
      <3> QED BY <1>0, <1>50, <1>6, <3>1, <3>2
    <2>6. ASSUME NEW x \in e.states PROVE x.id # 0 /\ x.id < e.next /\ Unused(e, x.id)
      <3>1. /\ x \in d.states /\ x.id \in Nat /\ x.id # 0 /\ x.id < d.next /\ Unused(d, x.id)
        BY <1>0, <1>6, <2>6 DEF Sound, Once, Tables, StateRow
      <3>2. Unused(e, x.id)
        BY <2>4, <3>1
      <3> QED BY <1>0, <1>50, <1>6, <3>1, <3>2
    <2>7. /\ \A x, y \in e.states : x.id = y.id => x = y
          /\ \A x \in e.states, y \in e.setups : x.id # y.id
      BY <1>6 DEF Sound, Once
    <2> QED BY <2>2, <2>3, <2>5, <2>6, <2>7 DEF Once
  <1>13. Gated(e)
    BY <1>3, <1>6, <1>9 DEF Sound, Gated, Passkeyed
  <1>14. Grows(d, e, from)
    <2>1. \A p \in e.made : p \in d.made \/ (p[1] = from /\ from # 0)
      BY <1>2, <1>4, <1>6
    <2>2. \A m \in AllNames, j \in Nat \ {0} : j # from /\ Passkeyed(d, m, j) => Passkeyed(e, m, j)
      BY <1>1, <1>3, <1>6 DEF Passkeyed
    <2>3. d.next <= e.next /\ e.states = d.states /\ e.setups = d.setups
      BY <1>0, <1>50, <1>6
    <2> QED BY <2>1, <2>2, <2>3 DEF Grows
  <1>15. \A m \in AllNames : (m # s.name \/ ~s.gate) /\ Passkeyed(d, m, from) => Passkeyed(e, m, from)
    BY <1>1, <1>3, <1>6 DEF Passkeyed
  <1>16. ~s.gate => Passkeyed(e, s.name, from)
    BY <1>00, <1>1, <1>3, <1>6 DEF Passkeyed
  <1>17. e.next > 0
    BY <1>0, <1>50, <1>6
  <1> QED
    BY <1>7, <1>8, <1>10, <1>11, <1>12, <1>13, <1>14, <1>15, <1>16, <1>17 DEF Sound

-----------------------------------------------------------------------------
(* The statements on setups and states                                     *)

(* Setups and states that may take the place of those there are.           *)
Links(d, S, T, next) ==
    /\ S \in SUBSET SetupRow /\ T \in SUBSET StateRow /\ next \in Nat /\ d.next <= next
    /\ \A x \in S : x.id # 0 /\ x.id < next /\ x.name \notin EndUserNames /\ (x.pending => Unused(d, x.id))
    /\ \A x \in T : x.id # 0 /\ x.id < next /\ Unused(d, x.id)
    /\ \A x, y \in T : x.id = y.id => x = y
    /\ \A x \in T, y \in S : x.id # y.id
    /\ \A x \in T : (x.flow = "create" => x.endUser = OwnerOf(x.name)) /\ (x.endUser = Nobody => x.by \in Managers)
    /\ \A x \in S : x.pending => x \in d.setups \/ x.id >= d.next
    /\ \A x \in T : x \in d.states \/ x.id >= d.next

Relinked(d, e, S, T, next) == e = [d EXCEPT !.setups = S, !.states = T, !.next = next]

\* The setups, the states and the next number are replaced.
LEMMA LinksReplaced ==
    ASSUME NEW d, Sound(d), NEW S, NEW T, NEW next, Links(d, S, T, next),
           NEW e, Relinked(d, e, S, T, next)
    PROVE  Sound(e) /\ \A k : Grows(d, e, k)
  <1>0. d \in Tables /\ d.next \in Nat /\ d.next > 0
    BY DEF Sound, Tables
  <1>1. /\ e.setups = S /\ e.states = T /\ e.next = next
        /\ e.cred = d.cred /\ e.policy = d.policy /\ e.agent = d.agent /\ e.roles = d.roles
        /\ e.roleCred = d.roleCred /\ e.agentRole = d.agentRole /\ e.direct = d.direct
        /\ e.approver = d.approver /\ e.made = d.made
    BY <1>0 DEF Tables, Relinked
  <1>2. e \in Tables
    <2>1. d \in Tables
      BY <1>0
    <2> QED BY <2>1 DEF Tables, Links, Relinked
  <1>3. Keyed(e) /\ Scoped(e) /\ Gated(e)
    BY <1>1 DEF Sound, Keyed, Scoped, Gated, Passkeyed
  <1>4. Bare(e) /\ Bound(e)
    BY <1>1 DEF Sound, Bare, Refers, Bound
  <1>5. \A k : Unused(e, k) <=> Unused(d, k)
    BY <1>1 DEF Unused
  <1>6. Once(e)
    <2>1. \A p \in d.made : p[1] \in Nat /\ p[1] < d.next
      BY <1>0 DEF Sound, Once, Tables
    <2>2. \A p \in e.made : p[1] < e.next
      BY <1>0, <1>1, <2>1 DEF Links
    <2>3. \A p, q \in e.made : p[1] = q[1] => p = q
      BY <1>1 DEF Sound, Once
    <2> QED BY <1>1, <1>5, <2>2, <2>3 DEF Once, Links
  <1>7. Meant(e)
    BY <1>1 DEF Meant, Links
  <1>8. \A k : Grows(d, e, k)
    BY <1>1 DEF Grows, Passkeyed, Links
  <1>9. e.next > 0
    BY <1>0, <1>1 DEF Links
  <1> QED
    BY <1>2, <1>3, <1>4, <1>6, <1>7, <1>8, <1>9 DEF Sound

\* What the rows of setups and states keep to.
LEMMA LinkFacts ==
    ASSUME NEW d, Sound(d)
    PROVE  /\ d \in Tables /\ d.next \in Nat /\ d.next > 0
           /\ d.setups \in SUBSET SetupRow /\ d.states \in SUBSET StateRow
           /\ \A x \in d.setups : /\ x.id \in Nat /\ x.id # 0 /\ x.id < d.next /\ x.name \notin EndUserNames
                                  /\ x.pending => Unused(d, x.id)
           /\ \A x \in d.states : x.id \in Nat /\ x.id # 0 /\ x.id < d.next /\ Unused(d, x.id)
           /\ \A x, y \in d.states : x.id = y.id => x = y
           /\ \A x \in d.states, y \in d.setups : x.id # y.id
           /\ \A x \in d.states : (x.flow = "create" => x.endUser = OwnerOf(x.name))
                                  /\ (x.endUser = Nobody => x.by \in Managers)
           /\ Unused(d, d.next)
  <1>1. d \in Tables /\ d.next \in Nat /\ d.next > 0 /\ d.setups \in SUBSET SetupRow /\ d.states \in SUBSET StateRow
    BY DEF Sound, Tables
  <1>2. /\ \A x \in d.setups : x.id \in Nat
        /\ \A x \in d.states : x.id \in Nat
    BY <1>1 DEF SetupRow, StateRow
  <1>3. \A p \in d.made : p[1] \in Nat /\ p[1] < d.next
    BY <1>1 DEF Sound, Once, Tables
  <1>4. Unused(d, d.next)
    BY <1>1, <1>3 DEF Unused
  <1> QED
    BY <1>1, <1>2, <1>4 DEF Sound, Once, Meant

\* A setup or a state is claimed once, by the handler that owns it afterwards.
LEMMA ClaimStatement ==
    ASSUME NEW d, Sound(d), NEW s \in SetupRow, SetupIsPending(d, s), NEW e, e = ActivateCredentialSetup(d, s)
    PROVE  /\ Sound(e) /\ \A k : Grows(d, e, k)
           /\ \A x \in e.setups : x.id = s.id => ~x.pending
           /\ Unused(e, s.id) /\ e.states = d.states
  <1>0. d \in Tables /\ s.id \in Nat /\ d.next \in Nat /\ d.next <= d.next
    BY DEF Sound, Tables, SetupRow
  <1> DEFINE S == {IF x.id = s.id THEN [x EXCEPT !.pending = FALSE] ELSE x : x \in d.setups}
  <1>1. ASSUME NEW y \in S
        PROVE  /\ y \in SetupRow
               /\ y.id = s.id => ~y.pending
               /\ y.pending => y \in d.setups
               /\ \E x \in d.setups : y.id = x.id /\ y.name = x.name /\ (y.pending => x.pending)
    <2>1. PICK x \in d.setups : y = IF x.id = s.id THEN [x EXCEPT !.pending = FALSE] ELSE x
      BY <1>1
    <2>2. x \in SetupRow
      BY <1>0 DEF Tables
    <2>3. CASE x.id = s.id
      <3>1. y = [x EXCEPT !.pending = FALSE]
        BY <2>1, <2>3
      <3>2. y \in SetupRow /\ y.id = x.id /\ y.name = x.name /\ ~y.pending
        BY <2>2, <3>1 DEF SetupRow
      <3> QED BY <3>2
    <2>4. CASE x.id # s.id
      BY <2>1, <2>2, <2>4
    <2> QED BY <2>3, <2>4
  <1>2. e = [d EXCEPT !.setups = S]
    BY DEF ActivateCredentialSetup
  <1> HIDE DEF S
  <1>3. Relinked(d, e, S, d.states, d.next)
    BY <1>0, <1>2 DEF Tables, Relinked
  <1>4. S \in SUBSET SetupRow
    BY <1>1
  <1>5. \A x \in S : x.id # 0 /\ x.id < d.next /\ x.name \notin EndUserNames /\ (x.pending => Unused(d, x.id))
    BY <1>1, LinkFacts
  <1>6. \A x \in d.states, y \in S : x.id # y.id
    BY <1>1, LinkFacts
  <1>7. Sound(e) /\ \A k : Grows(d, e, k)
    <2>1. d.states \in SUBSET StateRow /\ \A x \in d.states : x.id # 0 /\ x.id < d.next /\ Unused(d, x.id)
      BY LinkFacts
    <2>2. \A x, y \in d.states : x.id = y.id => x = y
      BY LinkFacts
    <2>3. \A x \in d.states : (x.flow = "create" => x.endUser = OwnerOf(x.name))
                              /\ (x.endUser = Nobody => x.by \in Managers)
      BY LinkFacts
    <2>4. \A x \in S : x.pending => x \in d.setups \/ x.id >= d.next
      BY <1>1
    <2>5. d.next \in Nat /\ d.next <= d.next /\ \A x \in d.states : x \in d.states \/ x.id >= d.next
      BY <1>0
    <2>6. Links(d, S, d.states, d.next)
      BY <1>4, <1>5, <1>6, <2>1, <2>2, <2>3, <2>4, <2>5 DEF Links
    <2> QED BY <1>3, <2>6, LinksReplaced
  <1>8. e.setups = S /\ e.made = d.made /\ e.states = d.states
    BY <1>0, <1>2 DEF Tables
  <1>9. Unused(e, s.id)
    BY <1>8, LinkFacts DEF SetupIsPending, Unused
  <1> QED
    BY <1>1, <1>7, <1>8, <1>9

\* A new setup has a number of its own.
LEMMA CreateSetupStatement ==
    ASSUME NEW d, Sound(d), NEW u \in Users, NEW n \in Names, NEW hosts \in {"any", "listed"}, NEW passkey \in BOOLEAN,
           NEW e, e = CreateCredentialSetup(d, u, n, hosts, passkey)
    PROVE  Sound(e) /\ \A k : Grows(d, e, k)
  <1>0. d \in Tables /\ d.next \in Nat /\ d.next > 0 /\ d.next + 1 \in Nat /\ d.next <= d.next + 1 /\ d.next < d.next + 1
    BY LinkFacts
  <1> DEFINE row == [id |-> d.next, by |-> u, name |-> n, hosts |-> hosts, passkey |-> passkey, pending |-> TRUE]
             S == d.setups \cup {row}
  <1>1. n \in AllNames /\ n \notin EndUserNames
    BY NameAssumption DEF AllNames
  <1>2. row \in SetupRow /\ row.id = d.next /\ row.name = n
    BY <1>0, <1>1 DEF SetupRow
  <1>3. e = [d EXCEPT !.setups = S, !.next = d.next + 1]
    BY DEF CreateCredentialSetup
  <1> HIDE DEF row
  <1>4. S \in SUBSET SetupRow
    BY <1>2, LinkFacts
  <1>5. /\ \A x \in S : x.id # 0 /\ x.id < d.next + 1 /\ x.name \notin EndUserNames /\ (x.pending => Unused(d, x.id))
        /\ \A x \in S : x \in d.setups \/ x.id >= d.next
    BY <1>0, <1>1, <1>2, LinkFacts
  <1>6. /\ \A x \in d.states, y \in S : x.id # y.id
        /\ \A x \in d.states : x.id # 0 /\ x.id < d.next + 1 /\ Unused(d, x.id)
    BY <1>0, <1>2, LinkFacts
  <1> HIDE DEF S
  <1>7. Relinked(d, e, S, d.states, d.next + 1)
    BY <1>0, <1>3 DEF Tables, Relinked
  <1> QED
    <2>1. Links(d, S, d.states, d.next + 1)
      BY <1>0, <1>4, <1>5, <1>6, LinkFacts DEF Links
    <2> QED BY <1>7, <2>1, LinksReplaced

\* A new OAuth state has a number of its own.
LEMMA StateAdded ==
    ASSUME NEW d, Sound(d), NEW row \in StateRow, row.id = d.next,
           row.flow = "create" => row.endUser = OwnerOf(row.name), row.endUser = Nobody => row.by \in Managers,
           NEW e, e = [d EXCEPT !.states = d.states \cup {row}, !.next = d.next + 1]
    PROVE  Sound(e) /\ \A k : Grows(d, e, k)
  <1>00. PICK next : next = d.next + 1
    OBVIOUS
  <1>0. d \in Tables /\ d.next \in Nat /\ d.next > 0 /\ next \in Nat /\ d.next <= next /\ d.next < next
    BY <1>00, LinkFacts
  <1> DEFINE T == d.states \cup {row}
  <1>1. T \in SUBSET StateRow
    BY LinkFacts
  <1>2. /\ \A x \in T : x.id # 0 /\ x.id < next /\ Unused(d, x.id)
        /\ \A x \in T : x \in d.states \/ x.id >= d.next
    BY <1>0, LinkFacts
  <1>3. /\ \A x, y \in T : x.id = y.id => x = y
        /\ \A x \in T, y \in d.setups : x.id # y.id
    BY <1>0, LinkFacts
  <1>4. \A x \in d.setups : x.id # 0 /\ x.id < next /\ x.name \notin EndUserNames /\ (x.pending => Unused(d, x.id))
    BY <1>0, LinkFacts
  <1>5. \A x \in T : (x.flow = "create" => x.endUser = OwnerOf(x.name)) /\ (x.endUser = Nobody => x.by \in Managers)
    BY LinkFacts
  <1>6. e = [d EXCEPT !.states = T, !.next = next]
    BY <1>00
  <1> HIDE DEF T
  <1>7. Relinked(d, e, d.setups, T, next)
    BY <1>0, <1>6 DEF Tables, Relinked
  <1>8. d.setups \in SUBSET SetupRow /\ \A x \in d.setups : x.pending => x \in d.setups \/ x.id >= d.next
    BY LinkFacts
  <1> QED
    <2>1. Links(d, d.setups, T, next)
      BY <1>0, <1>1, <1>2, <1>3, <1>4, <1>5, <1>8 DEF Links
    <2> QED BY <1>7, <2>1, LinksReplaced

\* Setups and states may expire.
LEMMA RemovedLinks ==
    ASSUME NEW d, Sound(d), NEW x
    PROVE  /\ LET e == [d EXCEPT !.setups = @ \ {x}] IN Sound(e) /\ \A k : Grows(d, e, k)
           /\ LET e == [d EXCEPT !.states = @ \ {x}] IN Sound(e) /\ \A k : Grows(d, e, k)
  <1>0. d \in Tables /\ d.next \in Nat /\ d.next <= d.next
    BY LinkFacts
  <1>1. ASSUME NEW e, e = [d EXCEPT !.setups = @ \ {x}] PROVE Sound(e) /\ \A k : Grows(d, e, k)
    <2> DEFINE S == d.setups \ {x}
    <2>1. S \subseteq d.setups /\ e = [d EXCEPT !.setups = S]
      BY <1>1
    <2> HIDE DEF S
    <2>2. Relinked(d, e, S, d.states, d.next)
      BY <1>0, <2>1 DEF Tables, Relinked
    <2>3. S \in SUBSET SetupRow /\ \A y \in S : y \in d.setups
      BY <2>1, LinkFacts
    <2>4. Links(d, S, d.states, d.next)
      BY <1>0, <2>3, LinkFacts DEF Links
    <2> QED BY <2>2, <2>4, LinksReplaced
  <1>2. ASSUME NEW e, e = [d EXCEPT !.states = @ \ {x}] PROVE Sound(e) /\ \A k : Grows(d, e, k)
    <2> DEFINE T == d.states \ {x}
    <2>1. T \subseteq d.states /\ e = [d EXCEPT !.states = T]
      BY <1>2
    <2> HIDE DEF T
    <2>2. Relinked(d, e, d.setups, T, d.next)
      BY <1>0, <2>1 DEF Tables, Relinked
    <2>3. T \in SUBSET StateRow /\ \A y \in T : y \in d.states
      BY <2>1, LinkFacts
    <2>4. Links(d, d.setups, T, d.next)
      BY <1>0, <2>3, LinkFacts DEF Links
    <2> QED BY <2>2, <2>4, LinksReplaced
  <1> QED
    BY <1>1, <1>2

-----------------------------------------------------------------------------
(* The list of a handler after one statement                               *)

\* What is left of a list of rightful statements is one.
LEMMA AfterHead ==
    ASSUME NEW t \in Seq(Statements), t # <<>>, NEW u, u = Tail(t)
    PROVE  /\ u \in Seq(Statements) /\ Len(t) \in Nat /\ Len(u) \in Nat /\ Len(t) = Len(u) + 1
           /\ Head(t) = t[1] /\ t[1] \in Statements
           /\ \A i \in 1 .. Len(u) : u[i] = t[i + 1] /\ i + 1 \in 1 .. Len(t) /\ u[i] \in Statements
  <1>1. /\ u \in Seq(Statements) /\ Len(t) \in Nat /\ Len(u) \in Nat /\ Len(t) = Len(u) + 1
        /\ Head(t) = t[1] /\ 1 \in 1 .. Len(t)
    OBVIOUS
  <1>2. \A i \in 1 .. Len(u) : u[i] = t[i + 1] /\ i + 1 \in 1 .. Len(t)
    BY <1>1
  <1> QED
    BY <1>1, <1>2, ElementOfSeq

\* The gate stays before the agents in what is left of the list.
LEMMA GatesAfterHead ==
    ASSUME NEW t \in Seq(Statements), t # <<>>, NEW u, u = Tail(t), NEW i \in 1 .. Len(u), Gates(t, i + 1)
    PROVE  Gates(u, i) \/ (t[1].st = "setPolicy" /\ t[1].name = u[i].name /\ t[1].passkey)
  <1>1. PICK j \in 1 .. (i + 1) - 1 : t[j].st = "setPolicy" /\ t[j].name = t[i + 1].name /\ t[j].passkey
    BY DEF Gates
  <1>2. u[i] = t[i + 1] /\ Len(u) \in Nat /\ i \in Nat
    BY AfterHead
  <1>3. CASE j = 1
    BY <1>1, <1>2, <1>3
  <1>4. CASE j # 1
    <2>1. j - 1 \in 1 .. i - 1 /\ j - 1 \in 1 .. Len(u) /\ (j - 1) + 1 = j
      BY <1>2, <1>4
    <2>2. u[j - 1] = t[j]
      BY <2>1, AfterHead
    <2> QED BY <1>1, <1>2, <2>1, <2>2 DEF Gates
  <1> QED
    BY <1>3, <1>4

\* A claim stays in front in what is left of the list.
LEMMA LinesAfterHead ==
    ASSUME NEW t \in Seq(Statements), t # <<>>, NEW u, u = Tail(t), Lined(t), Secured(t)
    PROVE  /\ Lined(u) /\ Secured(u)
           /\ \A i \in 1 .. Len(u) : u[i].st # "claimSetup" /\ (u[i].st = "createCredential" => t[1].st = "claimSetup")
  <1>1. Len(u) \in Nat /\ \A i \in 1 .. Len(u) : u[i] = t[i + 1] /\ i + 1 \in 1 .. Len(t)
    BY AfterHead
  <1>2. ASSUME NEW i \in 1 .. Len(u)
        PROVE  /\ u[i].st # "claimSetup"
               /\ u[i].st = "createCredential" => i = 1 /\ t[1].st = "claimSetup"
    <2>1. i \in Nat /\ i >= 1 /\ u[i] = t[i + 1] /\ i + 1 \in 1 .. Len(t)
      BY <1>1
    <2>2. /\ t[i + 1].st = "claimSetup" => i + 1 = 1
          /\ t[i + 1].st = "createCredential" => i + 1 = 1 \/ (i + 1 = 2 /\ t[1].st = "claimSetup")
      BY <2>1 DEF Lined
    <2> QED BY <2>1, <2>2
  <1>3. ASSUME NEW i \in 1 .. Len(u), NEW k \in 1 .. Len(u), u[k].st = "createCredential", u[k].gate, Access(u[i])
        PROVE  Gates(u, i)
    <2>1. t[1].st = "claimSetup"
      BY <1>2, <1>3
    <2>2. Gates(t, i + 1)
      BY <1>1, <1>3 DEF Secured
    <2> QED BY <2>1, <2>2, GatesAfterHead
  <1> QED
    BY <1>2, <1>3 DEF Lined, Secured

-----------------------------------------------------------------------------
(* One statement of a handler                                              *)

\* The statements that any handler may run whatever it made or claimed.
LEMMA PlainEffect ==
    ASSUME NEW d, Sound(d), NEW f, f.by \in Actors, NEW s \in Statements, Rightful(f.scope, f.by, f.from, s),
           s.st \notin Reads \cup {"createCredential", "setPolicy", "addDirect", "claimSetup"},
           NEW e, e = Effect(d, f, s)
    PROVE  Sound(e) /\ \A k : Grows(d, e, k)
  <1>0. d \in Tables
    BY DEF Sound
  <1>1. CASE s.st = "setConfig"
    <2>1. e = UpdateCredentialConfig(d, s)
      BY <1>1 DEF Effect
    <2> QED BY <1>0, <1>1, <2>1, Fields, WriteStatements
  <1>2. CASE s.st = "setHosts"
    <2>1. e = SetCredentialAllowedHosts(d, s)
      BY <1>2 DEF Effect
    <2> QED BY <1>0, <1>2, <2>1, Fields, WriteStatements
  <1>3. CASE s.st = "patchHosts"
    <2>1. e = SetCredentialAllowedHosts(d, s)
      BY <1>3 DEF Effect
    <2> QED BY <1>0, <1>3, <2>1, Fields, WriteStatements
  <1>4. CASE s.st = "setValue"
    <2>1. e = SetCredentialValue(d, s)
      BY <1>4 DEF Effect
    <2> QED BY <1>0, <1>4, <2>1, Fields, WriteStatements
  <1>5. CASE s.st = "deleteCredential"
    <2>1. e = DeleteCredential(d, s.name)
      BY <1>5 DEF Effect
    <2> QED BY <1>0, <1>5, <2>1, Fields, DeleteCredentialStatement
  <1>6. CASE s.st = "createAgent"
    <2>1. e = CreateAgent(d, s, f.by)
      BY <1>6 DEF Effect
    <2> QED BY <1>0, <1>6, <2>1, Fields, AgentStatements DEF Rightful
  <1>7. CASE s.st = "setAll"
    <2>1. e = SetAgentAllCredentials(d, s, f.by)
      BY <1>7 DEF Effect
    <2> QED BY <1>0, <1>7, <2>1, Fields, AgentStatements DEF Rightful
  <1>8. CASE s.st = "setEnabled"
    <2>1. e = SetAgentEnabled(d, s)
      BY <1>8 DEF Effect
    <2> QED BY <1>0, <1>8, <2>1, Fields, AgentStatements DEF Rightful
  <1>9. CASE s.st = "deleteAgent"
    <2>1. e = DeleteAgent(d, s.agent)
      BY <1>9 DEF Effect
    <2> QED BY <1>0, <1>9, <2>1, Fields, DeleteAgentStatement
  <1>10. CASE s.st = "removeDirect"
    <2>1. e = RemoveDirectCredential(d, s)
      BY <1>10 DEF Effect
    <2> QED BY <1>0, <1>10, <2>1, Fields, RemoveStatements
  <1>11. CASE s.st = "assignRole"
    <2>1. e = AssignRoleToAgent(d, s)
      BY <1>11 DEF Effect
    <2> QED BY <1>0, <1>11, <2>1, Fields, RoleStatements
  <1>12. CASE s.st = "removeRole"
    <2>1. e = RemoveRoleFromAgent(d, s)
      BY <1>12 DEF Effect
    <2> QED BY <1>0, <1>12, <2>1, Fields, RemoveStatements
  <1>13. CASE s.st = "createRole"
    <2>1. e = CreateRole(d, s)
      BY <1>13 DEF Effect
    <2> QED BY <1>0, <1>13, <2>1, Fields, RoleStatements
  <1>14. CASE s.st = "addToRole"
    <2>1. e = AddCredentialToRole(d, s)
      BY <1>14 DEF Effect
    <2> QED BY <1>0, <1>14, <2>1, Fields, RoleStatements
  <1>15. CASE s.st = "removeFromRole"
    <2>1. e = RemoveCredentialFromRole(d, s)
      BY <1>15 DEF Effect
    <2> QED BY <1>0, <1>15, <2>1, Fields, RemoveStatements
  <1>16. CASE s.st = "assignApprover"
    <2>1. e = AssignCredentialToApprover(d, s)
      BY <1>16 DEF Effect
    <2> QED BY <1>0, <1>16, <2>1, Fields, AssignApproverStatement
  <1>17. CASE s.st = "removeApprover"
    <2>1. e = RemoveCredentialFromApprover(d, s)
      BY <1>17 DEF Effect
    <2> QED BY <1>0, <1>17, <2>1, Fields, RemoveStatements
  <1>18. CASE s.st = "setCustomer"
    <2>1. e = SetStripeCustomerId(d, s)
      BY <1>18 DEF Effect
    <2> QED BY <1>0, <1>18, <2>1, Fields, TeamStatements
  <1> QED
    BY <1>1, <1>2, <1>3, <1>4, <1>5, <1>6, <1>7, <1>8, <1>9, <1>10, <1>11, <1>12, <1>13, <1>14, <1>15, <1>16,
       <1>17, <1>18, Kinds

(* The number a statement of the handler f makes a credential from.        *)
MadeFrom(f, s) == IF s.st = "createCredential" THEN f.from ELSE 0

\* A statement that is not refused keeps the tables sound, and what the
\* handler needs of it for its own next statements.
LEMMA EffectKeeps ==
    ASSUME NEW d, Sound(d), NEW f, Frame(d, f), f.todo # <<>>, NEW s, s = f.todo[1],
           s.st \notin Reads, ~Refused(d, s), NEW e, e = Effect(d, f, s)
    PROVE  /\ Sound(e) /\ Grows(d, e, MadeFrom(f, s))
           /\ s.st = "claimSetup" =>
                 (\A x \in e.setups : x.id = f.from => ~x.pending) /\ Unused(e, f.from)
           /\ s.st = "createCredential" /\ ~s.gate =>
                 \A m \in AllNames : Passkeyed(d, m, f.from) => Passkeyed(e, m, f.from)
           /\ s.st = "setPolicy" /\ s.passkey => Passkeyed(e, s.name, f.from)
  <1>0. /\ f.by \in Actors /\ f.from \in Nat /\ f.todo \in Seq(Statements) /\ f.todo \in Seq(Right(f.scope, f.by, f.from))
        /\ f.scope \in SUBSET AllNames /\ Numbered(d, f)
    BY DEF Frame, Handlers
  <1>1. s \in Right(f.scope, f.by, f.from)
    <2>1. Len(f.todo) \in Nat /\ 1 \in 1 .. Len(f.todo)
      BY <1>0
    <2> QED BY <1>0, <2>1, ElementOfSeq
  <1>2. s \in Statements /\ Rightful(f.scope, f.by, f.from, s)
    BY <1>1 DEF Right
  <1>3. ASSUME f.from # 0, s.st # "claimSetup" PROVE Owns(d, f) /\ Closed(d, f)
    BY <1>3 DEF Frame, Owning
  <1>4. CASE s.st = "createCredential"
    <2>1. e = CreateCredential(d, s, f.from) /\ d.cred[s.name] = Absent
      BY <1>4 DEF Effect, Refused, GetCredential
    <2>2. s.endUser = OwnerOf(s.name) /\ (s.gate => s.name \notin EndUserNames)
      BY <1>2, <1>4 DEF Rightful
    <2>3. f.from # 0 => /\ f.from < d.next /\ Unused(d, f.from)
                        /\ \A x \in d.states : x.id # f.from
                        /\ \A x \in d.setups : x.id = f.from => ~x.pending
      BY <1>0, <1>3, <1>4 DEF Numbered, Owns
    <2>4. /\ Sound(e) /\ Grows(d, e, f.from)
          /\ \A m \in AllNames : (m # s.name \/ ~s.gate) /\ Passkeyed(d, m, f.from) => Passkeyed(e, m, f.from)
      BY <1>0, <1>2, <1>4, <2>1, <2>2, <2>3, CreateCredentialStatement
    <2> QED BY <1>4, <2>4 DEF MadeFrom
  <1>5. CASE s.st = "setPolicy"
    <2>1. e = SetPolicy(d, s) /\ d.cred[s.name] # Absent
      BY <1>5 DEF Effect, Refused, GetCredential
    <2>2. s.name \in AllNames /\ s.passkey \in BOOLEAN /\ (~s.passkey => s.name \in EndUserNames)
      BY <1>2, <1>5, Fields DEF Rightful
    <2>3. Sound(e) /\ (\A k : Grows(d, e, k)) /\ (s.passkey => \A j \in Nat : Passkeyed(e, s.name, j))
      BY <2>1, <2>2, SetPolicyStatement
    <2> QED BY <1>0, <1>5, <2>3
  <1>6. CASE s.st = "addDirect"
    <2>1. e = AddDirectCredential(d, s, f)
      BY <1>6 DEF Effect
    <2>2. s.agent \in AgentIds /\ s.name \in AllNames /\ InScope(f.scope, f.by, s.name)
      BY <1>2, <1>6, Fields DEF Rightful
    <2>3. ASSUME f.from # 0 PROVE Passkeyed(d, s.name, f.from)
      <3>1. Len(f.todo) \in Nat /\ 1 \in 1 .. Len(f.todo)
        BY <1>0
      <3>2. Passkeyed(d, s.name, f.from) \/ Gates(f.todo, 1)
        BY <1>3, <1>6, <2>3, <3>1 DEF Closed, Access
      <3>3. ~Gates(f.todo, 1)
        BY DEF Gates
      <3> QED BY <3>2, <3>3
    <2>4. Sound(e) /\ \A k : Grows(d, e, k)
      BY <1>0, <2>1, <2>2, <2>3, AddDirectStatement
    <2> QED BY <1>6, <2>4
  <1>7. CASE s.st = "claimSetup"
    <2>1. e = ActivateCredentialSetup(d, s.setup) /\ SetupIsPending(d, s.setup)
      BY <1>7 DEF Effect, Refused
    <2>2. s.setup \in SetupRow /\ s.setup.id = f.from
      BY <1>2, <1>7, Fields DEF Rightful
    <2>3. /\ Sound(e) /\ \A k : Grows(d, e, k)
          /\ \A x \in e.setups : x.id = f.from => ~x.pending
          /\ Unused(e, f.from)
      BY <2>1, <2>2, ClaimStatement
    <2> QED BY <1>7, <2>3
  <1>8. CASE s.st \notin {"createCredential", "setPolicy", "addDirect", "claimSetup"}
    <2>1. Sound(e) /\ \A k : Grows(d, e, k)
      BY <1>0, <1>2, <1>8, PlainEffect
    <2> QED BY <1>8, <2>1
  <1> QED
    BY <1>4, <1>5, <1>6, <1>7, <1>8

\* What was made from nothing yet is behind every gate there is.
LEMMA UnusedPasskeyed ==
    ASSUME NEW d, Sound(d), NEW k \in Nat \ {0}, Unused(d, k), NEW n \in AllNames
    PROVE  Passkeyed(d, n, k)
  <1>1. SUFFICES ASSUME d.cred[n] # Absent, d.cred[n].from = k PROVE FALSE
    BY DEF Passkeyed
  <1>2. <<k, d.cred[n].id>> \in d.made
    BY <1>1 DEF Sound, Bound
  <1> QED
    BY <1>2 DEF Unused

\* The handler after one of its statements.
LEMMA RestFramed ==
    ASSUME NEW d, Sound(d), NEW f, Frame(d, f), f.todo # <<>>, NEW s, s = f.todo[1],
           s.st \notin Reads, ~Refused(d, s), NEW e, e = Effect(d, f, s),
           NEW g, g = [f EXCEPT !.todo = Tail(f.todo)]
    PROVE  Frame(e, g)
  <1>0. /\ f \in Handlers
        /\ f.todo \in Seq(Statements) /\ f.todo \in Seq(Right(f.scope, f.by, f.from))
        /\ Numbered(d, f) /\ f.from \in Nat /\ d \in Tables
    BY DEF Frame, Sound, Handlers
  <1> DEFINE t == f.todo
             u == Tail(t)
  <1>00. t \in Seq(Statements) /\ t # <<>>
    BY <1>0
  <1>1. /\ u \in Seq(Statements) /\ Len(t) \in Nat /\ Len(u) \in Nat /\ Len(t) = Len(u) + 1
        /\ \A i \in 1 .. Len(u) : u[i] = t[i + 1] /\ i + 1 \in 1 .. Len(t) /\ u[i] \in Statements
    BY <1>00, AfterHead
  <1>2. g \in Handlers /\ g.by = f.by /\ g.from = f.from /\ g.scope = f.scope /\ g.todo = u
    BY <1>0, <1>1 DEF Handlers
  <1>3. /\ Sound(e) /\ Grows(d, e, MadeFrom(f, s)) /\ e \in Tables
        /\ s.st = "claimSetup" =>
              (\A x \in e.setups : x.id = f.from => ~x.pending) /\ Unused(e, f.from)
        /\ s.st = "createCredential" /\ ~s.gate =>
              \A m \in AllNames : Passkeyed(d, m, f.from) => Passkeyed(e, m, f.from)
        /\ s.st = "setPolicy" /\ s.passkey => Passkeyed(e, s.name, f.from)
    BY EffectKeeps DEF Sound
  <1>4. u \in Seq(Right(f.scope, f.by, f.from))
    BY <1>0, <1>00, HeadTailProperties
  <1> HIDE DEF u
  <1>5. ASSUME f.from # 0
        PROVE  /\ Lined(u) /\ Secured(u)
               /\ \A i \in 1 .. Len(u) : u[i].st # "claimSetup" /\ (u[i].st = "createCredential" => t[1].st = "claimSetup")
    <2>1. Lined(t) /\ Secured(t)
      BY <1>5 DEF Frame
    <2> QED BY <1>00, <2>1, LinesAfterHead DEF u
  <1>6. Numbered(e, g)
    <2>1. Numbered(e, f)
      BY <1>0, <1>3, NumberedKept
    <2> QED BY <1>2, <2>1 DEF Numbered
  <1>7. ASSUME Owning(g) PROVE Owns(e, g) /\ Closed(e, g)
    <2>00. f.from # 0 /\ f.from \in Nat /\ u # <<>> /\ u[1].st # "claimSetup"
      BY <1>0, <1>2, <1>7 DEF Owning
    <2>0. f.from # 0 /\ f.from \in Nat \ {0} /\ u[1].st # "claimSetup" /\ 1 \in 1 .. Len(u)
      <3>1. Len(u) # 0
        BY <1>1, <2>00, EmptySeq
      <3> QED BY <1>1, <2>00, <3>1
    <2>1. CASE s.st = "claimSetup"
      <3>1. Owns(e, g)
        BY <1>2, <1>3, <2>1 DEF Owns
      <3>2. ASSUME NEW i \in 1 .. Len(u), Access(u[i]) PROVE Passkeyed(e, u[i].name, f.from)
        <4>1. u[i].name \in AllNames
          BY <1>1, <3>2, Fields DEF Access
        <4> QED BY <1>3, <2>0, <2>1, <4>1, UnusedPasskeyed
      <3> QED BY <1>2, <3>1, <3>2 DEF Closed
    <2>2. CASE s.st # "claimSetup"
      <3>1. Owns(d, f) /\ Closed(d, f) /\ Secured(t)
        BY <2>0, <2>2 DEF Frame, Owning
      <3>2. \A x \in e.setups : x.id = f.from => ~x.pending
        BY <1>0, <1>3, <2>0, <3>1, OwnsKept
      <3>3. u[1].st # "createCredential"
        BY <1>5, <2>0, <2>2
      <3>4. Owns(e, g)
        BY <1>2, <3>2, <3>3 DEF Owns
      <3>5. ASSUME NEW i \in 1 .. Len(u), Access(u[i]) PROVE Passkeyed(e, u[i].name, f.from) \/ Gates(u, i)
        <4>0. u[i].name \in AllNames /\ u[i] = t[i + 1] /\ i + 1 \in 1 .. Len(t) /\ 1 \in 1 .. Len(t)
          BY <1>1, <3>5, Fields DEF Access
        <4>1. Passkeyed(d, u[i].name, f.from) \/ Gates(t, i + 1)
          BY <3>1, <3>5, <4>0 DEF Closed
        <4>2. Gates(t, i + 1) => Gates(u, i) \/ (s.st = "setPolicy" /\ s.name = u[i].name /\ s.passkey)
          BY <1>00, <3>5, GatesAfterHead DEF u
        <4>3. CASE s.st = "createCredential"
          <5>1. s.gate => Gates(t, i + 1)
            BY <3>1, <3>5, <4>0, <4>3 DEF Secured
          <5> QED BY <1>3, <4>0, <4>1, <4>2, <4>3, <5>1
        <4>4. CASE s.st # "createCredential"
          <5>1. Grows(d, e, 0)
            BY <1>3, <4>4 DEF MadeFrom
          <5>2. Passkeyed(d, u[i].name, f.from) => Passkeyed(e, u[i].name, f.from)
            BY <2>0, <4>0, <5>1 DEF Grows
          <5> QED BY <1>3, <4>1, <4>2, <5>2
        <4> QED BY <4>3, <4>4
      <3> QED BY <1>2, <3>4, <3>5 DEF Closed
    <2> QED BY <2>1, <2>2
  <1> QED
    BY <1>2, <1>4, <1>5, <1>6, <1>7 DEF Frame

\* The handler after a read: what takes its place gives no access that the
\* read did not stand for.
LEMMA ReadFramed ==
    ASSUME NEW d, Sound(d), NEW f, Frame(d, f), f.todo # <<>>, NEW s, s = f.todo[1], s.st \in Reads,
           NEW g, g = [f EXCEPT !.todo = Expand(d, s) \o Tail(f.todo)]
    PROVE  Frame(d, g)
  <1>0. /\ f \in Handlers
        /\ f.todo \in Seq(Statements) /\ f.todo \in Seq(Right(f.scope, f.by, f.from))
        /\ Numbered(d, f) /\ f.from \in Nat /\ d \in Tables
    BY DEF Frame, Sound, Handlers
  <1> DEFINE t == f.todo
             u == Tail(t)
             X == Expand(d, s)
             v == X \o u
  <1>00. t \in Seq(Statements) /\ t # <<>>
    BY <1>0
  <1>1. /\ u \in Seq(Statements) /\ Len(t) \in Nat /\ Len(u) \in Nat /\ Len(t) = Len(u) + 1
        /\ t[1] \in Statements
        /\ \A i \in 1 .. Len(u) : u[i] = t[i + 1] /\ i + 1 \in 1 .. Len(t) /\ u[i] \in Statements
    BY <1>00, AfterHead
  <1>2. s \in Right(f.scope, f.by, f.from) /\ u \in Seq(Right(f.scope, f.by, f.from)) /\ 1 \in 1 .. Len(t)
    <2>1. 1 \in 1 .. Len(t)
      BY <1>1
    <2> QED BY <1>0, <1>00, <2>1, ElementOfSeq, HeadTailProperties
  <1>3. X \in Seq(Expansion(f.scope, f.by, f.from, s))
    BY <1>0, <1>2, ExpandLists
  <1>4. X \in Seq(Right(f.scope, f.by, f.from))
    BY <1>3, SeqMonotonic DEF Expansion
  <1> HIDE DEF u, X
  <1>5. v \in Seq(Right(f.scope, f.by, f.from)) /\ Len(X) \in Nat /\ Len(v) = Len(X) + Len(u)
    BY <1>1, <1>2, <1>4, ConcatProperties
  <1>6. /\ \A i \in 1 .. Len(X) : v[i] = X[i] /\ X[i] \in Expansion(f.scope, f.by, f.from, s)
        /\ \A i \in 1 .. Len(u) : v[i + Len(X)] = u[i]
    <2>1. \A i \in 1 .. Len(X) : v[i] = X[i]
      BY <1>2, <1>4, ConcatProperties
    <2>2. \A i \in 1 .. Len(X) : X[i] \in Expansion(f.scope, f.by, f.from, s)
      BY <1>3, ElementOfSeq
    <2>3. ASSUME NEW i \in 1 .. Len(u) PROVE v[i + Len(X)] = u[i]
      <3>1. i + Len(X) \in (Len(X) + 1) .. (Len(X) + Len(u)) /\ (i + Len(X)) - Len(X) = i
        BY <1>1, <1>5
      <3> QED BY <1>2, <1>4, <3>1, ConcatProperties
    <2> QED BY <2>1, <2>2, <2>3
  <1>7. v \in Seq(Statements)
    BY <1>5, SeqMonotonic DEF Right
  <1>8. ASSUME NEW i \in 1 .. Len(v)
        PROVE  i \in 1 .. Len(X) \/ \E j \in 1 .. Len(u) : i = j + Len(X)
    <2>1. CASE i <= Len(X)
      BY <1>5, <2>1
    <2>2. CASE i > Len(X)
      <3>1. i - Len(X) \in 1 .. Len(u) /\ i = (i - Len(X)) + Len(X)
        BY <1>1, <1>5, <2>2
      <3> QED BY <3>1
    <2> QED BY <1>5, <2>1, <2>2
  <1> HIDE DEF v
  <1>9. g \in Handlers /\ g.by = f.by /\ g.from = f.from /\ g.scope = f.scope /\ g.todo = v
    BY <1>0, <1>7 DEF v, u, X, Handlers
  <1>10. ASSUME f.from # 0, NEW i \in 1 .. Len(v)
         PROVE  v[i].st # "claimSetup" /\ v[i].st # "createCredential"
    <2>1. \A j \in 1 .. Len(u) : u[j].st # "claimSetup" /\ (u[j].st = "createCredential" => t[1].st = "claimSetup")
      <3>1. Lined(t) /\ Secured(t)
        BY <1>10 DEF Frame
      <3> QED BY <1>00, <3>1, LinesAfterHead DEF u
    <2>2. t[1].st # "claimSetup"
      BY DEF Reads
    <2>3. CASE i \in 1 .. Len(X)
      BY <1>6, <2>3 DEF Expansion
    <2>4. CASE \E j \in 1 .. Len(u) : i = j + Len(X)
      BY <1>6, <2>1, <2>2, <2>4
    <2> QED BY <1>8, <1>10, <2>3, <2>4
  <1>11. f.from # 0 => Lined(v) /\ Secured(v)
    BY <1>10 DEF Lined, Secured
  <1>12. ASSUME Owning(g) PROVE Owns(d, g) /\ Closed(d, g)
    <2>1. f.from # 0 /\ v # <<>>
      BY <1>9, <1>12 DEF Owning
    <2>2. Owning(f)
      BY <2>1 DEF Owning, Reads
    <2>3. Owns(d, f) /\ Closed(d, f)
      BY <2>2 DEF Frame
    <2>4. 1 \in 1 .. Len(v)
      <3>1. Len(v) \in Nat \ {0}
        BY <1>7, <2>1, EmptySeq
      <3> QED BY <3>1
    <2>5. Owns(d, g)
      BY <1>9, <1>10, <2>1, <2>3, <2>4 DEF Owns
    <2>6. ASSUME NEW i \in 1 .. Len(v), Access(v[i])
          PROVE  Passkeyed(d, v[i].name, f.from) \/ Gates(v, i)
      <3>1. CASE i \in 1 .. Len(X)
        <4>1. s.st = "assignAgents" /\ v[i].name = s.name
          BY <1>6, <2>1, <2>6, <3>1 DEF Expansion, Access
        <4>2. Passkeyed(d, s.name, f.from) \/ Gates(t, 1)
          BY <1>2, <2>3, <4>1 DEF Closed, Access
        <4>3. ~Gates(t, 1)
          BY DEF Gates
        <4> QED BY <4>1, <4>2, <4>3
      <3>2. ASSUME NEW j \in 1 .. Len(u), i = j + Len(X)
            PROVE  Passkeyed(d, v[i].name, f.from) \/ Gates(v, i)
        <4>1. v[i] = u[j] /\ u[j] = t[j + 1] /\ j + 1 \in 1 .. Len(t)
          BY <1>1, <1>6, <3>2
        <4>2. Passkeyed(d, v[i].name, f.from) \/ Gates(t, j + 1)
          BY <2>3, <2>6, <4>1 DEF Closed
        <4>3. ASSUME Gates(t, j + 1) PROVE Gates(v, i)
          <5>1. Gates(u, j)
            <6>1. t[1].st # "setPolicy"
              BY DEF Reads
            <6> QED BY <1>00, <4>3, <6>1, GatesAfterHead DEF u
          <5>2. PICK k \in 1 .. j - 1 : u[k].st = "setPolicy" /\ u[k].name = u[j].name /\ u[k].passkey
            BY <5>1 DEF Gates
          <5>3. k \in 1 .. Len(u) /\ k + Len(X) \in 1 .. i - 1
            <6>1. Len(u) \in Nat /\ Len(X) \in Nat /\ j \in Nat /\ j <= Len(u) /\ i = j + Len(X)
              BY <1>1, <1>5, <3>2
            <6>2. k \in Nat /\ 1 <= k /\ k <= j - 1
              BY <6>1
            <6>3. 1 <= k + Len(X) /\ k + Len(X) <= i - 1 /\ k <= Len(u) /\ i \in Nat
              BY <6>1, <6>2
            <6> QED BY <6>1, <6>2, <6>3
          <5>4. v[k + Len(X)] = u[k]
            BY <1>6, <5>3
          <5> QED BY <4>1, <5>2, <5>3, <5>4 DEF Gates
        <4> QED BY <4>2, <4>3
      <3> QED BY <1>8, <2>6, <3>1, <3>2
    <2> QED BY <1>9, <2>5, <2>6 DEF Closed
  <1>13. Numbered(d, g)
    BY <1>0, <1>9 DEF Numbered
  <1> QED
    BY <1>5, <1>9, <1>11, <1>12, <1>13 DEF Frame

\* A handler that is not running owns nothing.
LEMMA IdleFramed ==
    ASSUME NEW d
    PROVE  Frame(d, Idle) /\ ~Owning(Idle)
  <1>1. /\ Idle.by = Nobody /\ Idle.from = 0 /\ Idle.todo = <<>>
        /\ Idle \in Handlers
    BY DEF Idle, Actors, Handlers
  <1>2. Idle.todo \in Seq(Right(Idle.scope, Idle.by, Idle.from))
    BY <1>1
  <1>3. Numbered(d, Idle) /\ ~Owning(Idle)
    BY <1>1 DEF Numbered, Owning
  <1> QED
    BY <1>1, <1>2, <1>3 DEF Frame

-----------------------------------------------------------------------------
(* The steps                                                               *)

\* One handler moves, and perhaps the tables.
LEMMA HandlerMoves ==
    ASSUME Facts, load' = load, NEW c \in Callers, NEW g, call' = [call EXCEPT ![c] = g],
           NEW k, Sound(db'), Grows(db, db', k), Frame(db', g),
           \A b \in Callers \ {c} : Owning(call[b]) => call[b].from # k,
           \A b \in Callers \ {c} : Owning(call[b]) /\ Owning(g) => call[b].from # g.from,
           Paying', Paid(db, load)'
    PROVE  Facts'
  <1>1. DOMAIN call = Callers /\ DOMAIN call' = Callers
    BY DEF Facts
  <1>2. db \in Tables /\ db' \in Tables
    BY DEF Facts, Sound
  <1>3. call'[c] = g /\ \A b \in Callers \ {c} : call'[b] = call[b]
    BY <1>1
  <1>4. \A b \in Callers : Frame(db', call'[b])
    <2>1. ASSUME NEW b \in Callers \ {c} PROVE Frame(db', call[b])
      BY <1>2, <2>1, FrameKept DEF Facts
    <2> QED BY <1>3, <2>1
  <1>5. \A a, b \in Callers : a # b => Apart(call'[a], call'[b])
    BY <1>3 DEF Facts, Apart
  <1>6. load' \in Loads
    BY DEF Facts
  <1> QED
    BY <1>1, <1>4, <1>5, <1>6 DEF Facts

\* The tables move.
LEMMA TablesMove ==
    ASSUME Facts, load' = load, call' = call, Sound(db'), Grows(db, db', 0), Paying', Paid(db, load)'
    PROVE  Facts'
  <1>1. db \in Tables /\ db' \in Tables
    BY DEF Facts, Sound
  <1>2. ASSUME NEW b \in Callers PROVE Frame(db', call[b])
    BY <1>1, <1>2, FrameKept DEF Facts, Owning
  <1> QED
    BY <1>2 DEF Facts

\* The tables do not move.
LEMMA GrowsNot ==
    ASSUME Facts, db' = db
    PROVE  Sound(db') /\ Grows(db, db', 0)
  <1>1. db \in Tables
    BY DEF Facts, Sound
  <1> QED
    BY <1>1, SameKeysGrow DEF Facts, SameKeys

\* Nobody pays and the tier stays.
LEMMA PaidKept ==
    ASSUME Facts, load' = load, stripe' = stripe, db'.tier = db.tier
    PROVE  Paying' /\ Paid(db, load)'
  <1>1. Paying'
    BY DEF Facts, Paying
  <1>2. Paid(db, load)'
    BY DEF Facts, Paid
  <1> QED
    BY <1>1, <1>2

\* A scope is a set of names.
LEMMA ScopeTyped ==
    ASSUME Facts, NEW u
    PROVE  Scope(u) \in SUBSET AllNames
  BY DEF Facts, Sound, Tables, ScopeRow, Scope, ListApproverCredentials

\* A handler that came from no setup and no state begins.
LEMMA StartPlain ==
    ASSUME Facts, NEW c \in Callers, NEW u \in Actors, NEW todo \in Seq(Right(Scope(u), u, 0)),
           Start(c, u, 0, todo), db' = db, Paying', Paid(db, load)'
    PROVE  Facts'
  <1> DEFINE f == [by |-> u, from |-> 0, scope |-> Scope(u), todo |-> todo]
             g == IF todo = <<>> THEN Idle ELSE f
  <1>1. load' = load /\ call' = [call EXCEPT ![c] = g]
    BY DEF Start, Scope
  <1>2. f \in Handlers /\ f.by = u /\ f.from = 0 /\ f.scope = Scope(u) /\ f.todo = todo
    <2>1. todo \in Seq(Statements)
      BY SeqMonotonic DEF Right
    <2> QED BY <2>1, ScopeTyped DEF Handlers
  <1> HIDE DEF f
  <1>3. Frame(db, f) /\ ~Owning(f)
    BY <1>2 DEF Frame, Numbered, Owning
  <1>4. Frame(db', g) /\ ~Owning(g)
    BY <1>3, IdleFramed
  <1> HIDE DEF g
  <1>5. \A b \in Callers : Owning(call[b]) => call[b].from # 0
    BY DEF Owning
  <1> QED
    BY <1>1, <1>4, <1>5, GrowsNot, HandlerMoves

\* A handler ends: it is done, was refused or crashed.
LEMMA HandlerEnds ==
    ASSUME Facts, NEW c \in Callers, call' = [call EXCEPT ![c] = Idle], load' = load, stripe' = stripe,
           NEW k, Sound(db'), Grows(db, db', k), db'.tier = db.tier,
           \A b \in Callers \ {c} : Owning(call[b]) => call[b].from # k
    PROVE  Facts'
  BY IdleFramed, PaidKept, HandlerMoves

\* A handler may crash between two of its statements.
LEMMA CrashFacts ==
    ASSUME Facts, NEW c \in Callers, Crash(c)
    PROVE  Facts'
  <1>1. \A b \in Callers \ {c} : Owning(call[b]) => call[b].from # 0
    BY DEF Owning
  <1> QED
    BY <1>1, GrowsNot, HandlerEnds DEF Crash

\* No statement of a handler changes what the team has paid for.
LEMMA EffectTier ==
    ASSUME NEW d \in Tables, NEW f, NEW s \in Statements, s.st \notin Reads, NEW e, e = Effect(d, f, s)
    PROVE  e.tier = d.tier
  <1>1. CASE s.st \in {"createCredential", "setConfig", "setHosts", "patchHosts", "setValue", "deleteCredential",
                       "setPolicy"}
    BY <1>1 DEF Effect, CreateCredential, UpdateCredentialConfig, SetCredentialAllowedHosts, SetCredentialValue,
                DeleteCredential, SetPolicy, Tables
  <1>2. CASE s.st \in {"createAgent", "setAll", "setEnabled", "deleteAgent", "addDirect", "removeDirect",
                       "assignRole", "removeRole"}
    BY <1>2 DEF Effect, CreateAgent, SetAgentAllCredentials, SetAgentEnabled, DeleteAgent, AddDirectCredential,
                RemoveDirectCredential, AssignRoleToAgent, RemoveRoleFromAgent, Tables
  <1>3. CASE s.st \in {"createRole", "addToRole", "removeFromRole", "assignApprover", "removeApprover",
                       "claimSetup", "setCustomer"}
    BY <1>3 DEF Effect, CreateRole, AddCredentialToRole, RemoveCredentialFromRole, AssignCredentialToApprover,
                RemoveCredentialFromApprover, ActivateCredentialSetup, SetStripeCustomerId, Tables
  <1> QED
    BY <1>1, <1>2, <1>3, Kinds

\* Two handlers do not own what one of them is about to claim or make.
LEMMA StatementApart ==
    ASSUME Facts, NEW c \in Callers, NEW b \in Callers \ {c}, call[c].todo # <<>>, Owning(call[b]),
           NEW s, s = call[c].todo[1], s.st \notin Reads, ~Refused(db, s), call[c].from # 0
    PROVE  call[b].from # call[c].from
  <1>1. Frame(db, call[c]) /\ Frame(db, call[b]) /\ Apart(call[b], call[c])
    BY DEF Facts
  <1>2. CASE s.st # "claimSetup"
    BY <1>1, <1>2 DEF Apart, Owning
  <1>3. CASE s.st = "claimSetup"
    <2>1. PICK x \in db.setups : x.id = s.setup.id /\ x.pending
      BY <1>3 DEF Refused, SetupIsPending
    <2>2. s.setup.id = call[c].from
      <3>1. call[c].todo \in Seq(Right(call[c].scope, call[c].by, call[c].from))
        BY <1>1 DEF Frame
      <3>2. 1 \in 1 .. Len(call[c].todo)
        BY <3>1
      <3>3. s \in Right(call[c].scope, call[c].by, call[c].from)
        BY <3>1, <3>2, ElementOfSeq
      <3> QED BY <1>3, <3>3 DEF Right, Rightful
    <2>3. \A y \in db.setups : y.id = call[b].from => ~y.pending
      BY <1>1 DEF Frame, Owns
    <2> QED BY <2>1, <2>2, <2>3
  <1> QED
    BY <1>2, <1>3

\* A statement of a handler keeps the facts, refused or not.
LEMMA StatementFacts ==
    ASSUME Facts, NEW c \in Callers, RunStatement(c)
    PROVE  Facts'
  <1> DEFINE f == call[c]
             s == Head(f.todo)
             rest == IF Len(f.todo) = 1 THEN Idle ELSE [f EXCEPT !.todo = Tail(@)]
             read == [f EXCEPT !.todo = Expand(db, s) \o Tail(@)]
  <1>1. f.todo # <<>> /\ load' = load /\ stripe' = stripe
    BY DEF RunStatement
  <1>2. Frame(db, f) /\ Sound(db) /\ db \in Tables /\ f.todo \in Seq(Statements)
        /\ f \in Handlers
    BY DEF Facts, Frame, Sound, Handlers
  <1>3. s = f.todo[1] /\ s \in Statements
    BY <1>1, <1>2, AfterHead
  <1>4. \A b \in Callers \ {c} : Owning(call[b]) => call[b].from # 0
    BY DEF Owning
  <1>5. CASE /\ s.st \in Reads
             /\ call' = [call EXCEPT ![c] = IF read.todo = <<>> THEN Idle ELSE read]
             /\ UNCHANGED db
    <2> DEFINE g == IF read.todo = <<>> THEN Idle ELSE read
    <2>1. read = [f EXCEPT !.todo = Expand(db, s) \o Tail(f.todo)] /\ read.from = f.from
      BY <1>2 DEF Handlers
    <2>2. Frame(db, read)
      BY <1>1, <1>2, <1>3, <1>5, <2>1, ReadFramed
    <2>3. Frame(db', g)
      BY <1>5, <2>2, IdleFramed
    <2>4. Owning(g) => Owning(f) /\ g.from = f.from
      BY <1>1, <1>3, <1>5, <2>1, IdleFramed DEF Owning, Reads
    <2>5. \A b \in Callers \ {c} : Owning(call[b]) /\ Owning(g) => call[b].from # g.from
      BY <2>4 DEF Facts, Apart
    <2>6. Paying' /\ Paid(db, load)'
      BY <1>1, <1>5, PaidKept
    <2>7. Sound(db') /\ Grows(db, db', 0) /\ call' = [call EXCEPT ![c] = g]
      BY <1>5, GrowsNot
    <2> HIDE DEF g, s, read
    <2> QED BY <1>1, <1>4, <2>3, <2>5, <2>6, <2>7, HandlerMoves
  <1>6. CASE call' = [call EXCEPT ![c] = Idle] /\ UNCHANGED db
    BY <1>1, <1>4, <1>6, GrowsNot, HandlerEnds
  <1>7. CASE /\ s.st \notin Reads /\ ~Refused(db, s)
             /\ db' = Effect(db, f, s)
             /\ call' = [call EXCEPT ![c] = rest]
    <2>1. Sound(db') /\ Grows(db, db', MadeFrom(f, s))
      BY <1>1, <1>2, <1>3, <1>7, EffectKeeps
    <2>2. db'.tier = db.tier
      BY <1>2, <1>3, <1>7, EffectTier
    <2>3. ASSUME f.from # 0, NEW b \in Callers \ {c}, Owning(call[b]) PROVE call[b].from # f.from
      BY <1>1, <1>3, <1>7, <2>3, StatementApart
    <2>4. \A b \in Callers \ {c} : Owning(call[b]) => call[b].from # MadeFrom(f, s)
      BY <1>4, <2>3 DEF MadeFrom
    <2>5. CASE Len(f.todo) = 1
      <3>1. call' = [call EXCEPT ![c] = Idle]
        BY <1>7, <2>5
      <3> QED BY <1>1, <2>1, <2>2, <2>4, <3>1, HandlerEnds
    <2>6. CASE Len(f.todo) # 1
      <3>1. PICK g : g = [f EXCEPT !.todo = Tail(f.todo)]
        OBVIOUS
      <3>2. call' = [call EXCEPT ![c] = g] /\ g.from = f.from
        BY <1>2, <1>7, <2>6, <3>1
      <3>3. Frame(db', g)
        BY <1>1, <1>2, <1>3, <1>7, <3>1, RestFramed
      <3>4. \A b \in Callers \ {c} : Owning(call[b]) /\ Owning(g) => call[b].from # g.from
        BY <2>3, <3>2 DEF Owning
      <3>5. Paying' /\ Paid(db, load)'
        BY <1>1, <2>2, PaidKept
      <3> HIDE DEF s
      <3> QED BY <1>1, <2>1, <2>4, <3>2, <3>3, <3>4, <3>5, HandlerMoves
    <2> QED BY <2>5, <2>6
  <1> QED
    BY <1>5, <1>6, <1>7 DEF RunStatement

-----------------------------------------------------------------------------
(* The handlers that came from no setup and no state                       *)

\* What requests may be about, and who may make them.
LEMMA AskedAbout ==
    ASSUME Facts
    PROVE  /\ load.names \subseteq AllNames /\ load.who \subseteq AgentIds
           /\ Users \subseteq Actors /\ Apps \subseteq Actors /\ Apps \subseteq AgentIds
           /\ Managers \subseteq Users /\ Approvers \subseteq Users
           /\ \A n \in Names : n \in AllNames /\ OwnerOf(n) = Nobody /\ n \notin EndUserNames
           /\ \A n \in EndUserNames : n \in AllNames /\ OwnerOf(n) = n
  BY LoadAssumption, NameAssumption DEF Facts, Actors, Users, AgentIds, AllNames, OwnerOf

\* A handler begins that leaves the tables and Stripe alone.
LEMMA StartQuiet ==
    ASSUME Facts, NEW c \in Callers, NEW u \in Actors, NEW todo \in Seq(Right(Scope(u), u, 0)),
           Start(c, u, 0, todo), UNCHANGED <<db, stripe>>
    PROVE  Facts'
  <1>1. load' = load
    BY DEF Start
  <1> QED
    BY <1>1, PaidKept, StartPlain

\* A handler of one statement begins.
LEMMA StartOne ==
    ASSUME Facts, NEW c \in Callers, NEW u \in Actors, NEW s \in Right(Scope(u), u, 0),
           Start(c, u, 0, <<s>>), UNCHANGED <<db, stripe>>
    PROVE  Facts'
  <1>1. <<s>> \in Seq(Right(Scope(u), u, 0))
    OBVIOUS
  <1> QED
    BY <1>1, StartQuiet

\* The handlers for credentials begin with what they have checked.
LEMMA CredentialHandlers ==
    ASSUME Facts, NEW c \in Callers, NEW u \in Users, NEW n \in load.names,
           \/ CreateCredentialRequest(c, u, n) \/ PatchCredential(c, u, n) \/ UpdateCredentialSecret(c, u, n)
    PROVE  Facts'
  <1>0. n \in AllNames /\ u \in Actors
    BY AskedAbout
  <1> DEFINE X == Right(Scope(u), u, 0)
  <1>1. ASSUME NEW todo \in Seq(X), Start(c, u, 0, todo), UNCHANGED <<db, stripe>> PROVE Facts'
    BY <1>0, <1>1, StartQuiet
  <1>2. CASE CreateCredentialRequest(c, u, n)
    <2>1. n \in Names /\ OwnerOf(n) = Nobody /\ UNCHANGED <<db, stripe>>
      BY <1>2, AskedAbout DEF CreateCredentialRequest, ValidateCredentialName
    <2> DEFINE direct == NewCredential(n, "direct", "plain", Nobody, Nobody, FALSE)
               sidecar == NewCredential(n, "sidecar", "fields", Nobody, Nobody, FALSE)
    <2>2. direct \in X /\ sidecar \in X
      BY <1>0, <2>1 DEF NewCredential, Right, Rightful, Statements, Values
    <2>3. ApplyAllowedHosts(n) \subseteq X
      BY <1>0 DEF ApplyAllowedHosts, SetHosts, Right, Rightful, Statements, Hosts
    <2>4. \/ \E then \in ApplyAllowedHosts(n) : Start(c, u, 0, <<direct, then>>)
          \/ Start(c, u, 0, <<sidecar>>)
      BY <1>2 DEF CreateCredentialRequest
    <2> HIDE DEF direct, sidecar, X
    <2>5. ASSUME NEW then \in ApplyAllowedHosts(n), Start(c, u, 0, <<direct, then>>) PROVE Facts'
      <3>1. <<direct, then>> \in Seq(X)
        BY <2>2, <2>3
      <3> QED BY <1>1, <2>1, <2>5, <3>1
    <2>6. ASSUME Start(c, u, 0, <<sidecar>>) PROVE Facts'
      <3>1. <<sidecar>> \in Seq(X)
        BY <2>2
      <3> QED BY <1>1, <2>1, <2>6, <3>1
    <2> QED BY <2>4, <2>5, <2>6
  <1>3. CASE PatchCredential(c, u, n)
    <2>1. PICK hosts \in {"any", "listed"}, connector \in {"direct", "sidecar"} :
              Start(c, u, 0, <<[st |-> "patchHosts", name |-> n, hosts |-> hosts],
                               [st |-> "setConfig", name |-> n, connector |-> connector]>>)
      BY <1>3 DEF PatchCredential
    <2> DEFINE a == [st |-> "patchHosts", name |-> n, hosts |-> hosts]
               b == [st |-> "setConfig", name |-> n, connector |-> connector]
    <2>2. a \in X /\ b \in X
      BY <1>0 DEF Right, Rightful, Statements, Hosts
    <2>3. Start(c, u, 0, <<a, b>>) /\ UNCHANGED <<db, stripe>>
      BY <1>3, <2>1 DEF PatchCredential
    <2> HIDE DEF a, b, X
    <2>4. <<a, b>> \in Seq(X)
      BY <2>2
    <2> QED BY <1>1, <2>3, <2>4
  <1>4. CASE UpdateCredentialSecret(c, u, n)
    <2>1. PICK v \in SecretUpdates(n) : Start(c, u, 0, <<[st |-> "setValue", name |-> n, value |-> v]>>)
      BY <1>4 DEF UpdateCredentialSecret
    <2>2. v \in Values
      <3>1. db \in Tables
        BY DEF Facts, Sound
      <3>2. db.cred[n] # Absent
        BY <1>4 DEF UpdateCredentialSecret, GetCredential
      <3>3. GetCredentialValue(db, n) \in Values
        BY <1>0, <3>1, <3>2 DEF GetCredentialValue, GetCredential, Tables, CredentialRow
      <3>4. NormalizeCredentialValue(db.cred[n].connector) \subseteq Values
        BY DEF NormalizeCredentialValue, Values, Providers
      <3> QED BY <3>3, <3>4 DEF SecretUpdates, Values
    <2> DEFINE a == [st |-> "setValue", name |-> n, value |-> v]
    <2>3. a \in X
      BY <1>0, <2>2 DEF Right, Rightful, Statements
    <2>4. Start(c, u, 0, <<a>>) /\ UNCHANGED <<db, stripe>>
      BY <1>4, <2>1 DEF UpdateCredentialSecret
    <2> HIDE DEF a, X
    <2>5. <<a>> \in Seq(X)
      BY <2>3
    <2> QED BY <1>1, <2>4, <2>5
  <1> QED
    BY <1>2, <1>3, <1>4

\* Requests on agents and apps as a whole begin with what they have checked.
LEMMA KeyHandlers ==
    ASSUME Facts, NEW c \in Callers, NEW u \in Users, NEW a \in AgentIds,
           \/ DeleteAgentRequest(c, u, a) \/ EnableAgent(c, u, a) \/ DisableAgent(c, u, a) \/ CreateApp(c, u, a)
    PROVE  Facts'
  <1>0. u \in Actors
    BY AskedAbout
  <1>1. CASE DeleteAgentRequest(c, u, a)
    <2> DEFINE s == [st |-> "deleteAgent", agent |-> a]
    <2>1. s \in Right(Scope(u), u, 0)
      BY DEF Right, Rightful, Statements
    <2>2. Start(c, u, 0, <<s>>) /\ UNCHANGED <<db, stripe>>
      BY <1>1 DEF DeleteAgentRequest
    <2> HIDE DEF s
    <2> QED BY <1>0, <2>1, <2>2, StartOne
  <1>2. CASE EnableAgent(c, u, a)
    <2> DEFINE s == [st |-> "setEnabled", agent |-> a, enabled |-> TRUE]
    <2>1. s \in Right(Scope(u), u, 0)
      BY DEF Right, Rightful, Statements
    <2>2. Start(c, u, 0, <<s>>) /\ UNCHANGED <<db, stripe>>
      BY <1>2 DEF EnableAgent
    <2> HIDE DEF s
    <2> QED BY <1>0, <2>1, <2>2, StartOne
  <1>3. CASE DisableAgent(c, u, a)
    <2> DEFINE s == [st |-> "setEnabled", agent |-> a, enabled |-> FALSE]
    <2>1. s \in Right(Scope(u), u, 0)
      BY DEF Right, Rightful, Statements
    <2>2. Start(c, u, 0, <<s>>) /\ UNCHANGED <<db, stripe>>
      BY <1>3 DEF DisableAgent
    <2> HIDE DEF s
    <2> QED BY <1>0, <2>1, <2>2, StartOne
  <1>4. CASE CreateApp(c, u, a)
    <2> DEFINE s == [st |-> "createAgent", agent |-> a, kind |-> "app", all |-> FALSE, owner |-> Nobody]
    <2>1. s \in Right(Scope(u), u, 0)
      BY DEF Right, Rightful, Statements, Actors
    <2>2. Start(c, u, 0, <<s>>) /\ UNCHANGED <<db, stripe>>
      BY <1>4 DEF CreateApp
    <2> HIDE DEF s
    <2> QED BY <1>0, <2>1, <2>2, StartOne
  <1> QED
    BY <1>1, <1>2, <1>3, <1>4

\* The handlers for the scopes of approvers begin with what they have checked.
LEMMA ScopeHandlers ==
    ASSUME Facts, NEW c \in Callers, NEW u \in Users, NEW v \in Approvers, NEW n \in load.names,
           AssignApproverCredential(c, u, v, n) \/ RemoveApproverCredential(c, u, v, n)
    PROVE  Facts'
  <1>0. u \in Actors /\ n \in AllNames /\ v \in Users
    BY AskedAbout
  <1>1. CASE AssignApproverCredential(c, u, v, n)
    <2> DEFINE s == [st |-> "assignApprover", user |-> v, name |-> n]
    <2>1. s \in Right(Scope(u), u, 0)
      BY <1>0 DEF Right, Rightful, Statements
    <2>2. Start(c, u, 0, <<s>>) /\ UNCHANGED <<db, stripe>>
      BY <1>1 DEF AssignApproverCredential
    <2> HIDE DEF s
    <2> QED BY <1>0, <2>1, <2>2, StartOne
  <1>2. CASE RemoveApproverCredential(c, u, v, n)
    <2> DEFINE s == [st |-> "removeApprover", user |-> v, name |-> n]
    <2>1. s \in Right(Scope(u), u, 0)
      BY <1>0 DEF Right, Rightful, Statements
    <2>2. Start(c, u, 0, <<s>>) /\ UNCHANGED <<db, stripe>>
      BY <1>2 DEF RemoveApproverCredential
    <2> HIDE DEF s
    <2> QED BY <1>0, <2>1, <2>2, StartOne
  <1> QED
    BY <1>1, <1>2

\* The handlers for roles begin with what they have checked.
LEMMA RoleHandlers ==
    ASSUME Facts, NEW c \in Callers, NEW u \in Users, NEW r \in RoleNames, NEW names \in SUBSET load.names,
           CreateRoleRequest(c, u, r, names) \/ UpdateRole(c, u, r, names)
    PROVE  Facts'
  <1>0. u \in Actors /\ names \in SUBSET AllNames
    BY AskedAbout
  <1> DEFINE X == Right(Scope(u), u, 0)
  <1>1. CASE CreateRoleRequest(c, u, r, names)
    <2> DEFINE s == [st |-> "createRole", role |-> r]
    <2>1. s \in X /\ \A n \in names : [st |-> "addToRole", role |-> r, name |-> n] \in X
      BY <1>0 DEF Right, Rightful, Statements
    <2>2. Start(c, u, 0, <<s>> \o AddsToRole(r, names)) /\ UNCHANGED <<db, stripe>>
      BY <1>1 DEF CreateRoleRequest
    <2> HIDE DEF s, X
    <2>3. <<s>> \in Seq(X) /\ AddsToRole(r, names) \in Seq(X)
      BY <1>0, <2>1, RoleLists
    <2>4. <<s>> \o AddsToRole(r, names) \in Seq(X)
      BY <2>3, ConcatProperties
    <2> QED BY <1>0, <2>2, <2>4, StartQuiet DEF X
  <1>2. CASE UpdateRole(c, u, r, names)
    <2> DEFINE s == [st |-> "syncRole", role |-> r, names |-> names]
    <2>1. s \in Right(Scope(u), u, 0)
      BY <1>0 DEF Right, Rightful, Statements
    <2>2. Start(c, u, 0, <<s>>) /\ UNCHANGED <<db, stripe>>
      BY <1>2 DEF UpdateRole
    <2> HIDE DEF s
    <2> QED BY <1>0, <2>1, <2>2, StartOne
  <1> QED
    BY <1>1, <1>2

\* What an approver may name is in its scope.
LEMMA ScopeHolds ==
    ASSUME Facts, NEW u \in Users, NEW names, NEW roles,
           IsManager(u) \/ ValidateApproverAgentScope(u, names, roles)
    PROVE  \A n \in names : InScope(Scope(u), u, n)
  <1>1. CASE IsManager(u)
    BY <1>1, MemberAssumption DEF IsManager, InScope
  <1>2. CASE ValidateApproverAgentScope(u, names, roles)
    BY <1>2 DEF ValidateApproverAgentScope, Scope, InScope
  <1> QED
    BY <1>1, <1>2

\* The handlers of an app begin with what they have checked.
LEMMA AppHandlers ==
    ASSUME Facts, NEW c \in Callers, NEW a \in Apps, NEW n \in load.names,
           AppCreateCredential(c, a, n) \/ AppCreateKey(c, a, n)
    PROVE  Facts'
  <1>0. a \in Actors
    BY AskedAbout
  <1>1. ASSUME NEW connector \in {"direct", "sidecar"}, NEW value \in Values, AppCreate(c, a, n, connector, value)
        PROVE  Facts'
    <2> DEFINE X == Right(Scope(a), a, 0)
               s == NewCredential(n, connector, value, n, a, FALSE)
               p == [st |-> "setPolicy", name |-> n, passkey |-> FALSE]
    <2>1. n \in EndUserNames /\ n \in AllNames /\ OwnerOf(n) = n
      BY <1>1, AskedAbout DEF AppCreate
    <2>2. s \in X /\ p \in X
      BY <1>1, <2>1 DEF NewCredential, Right, Rightful, Statements
    <2>3. Start(c, a, 0, <<s, p>>) /\ UNCHANGED <<db, stripe>>
      BY <1>1 DEF AppCreate
    <2> HIDE DEF s, p, X
    <2>4. <<s, p>> \in Seq(X)
      BY <2>2
    <2> QED BY <1>0, <2>3, <2>4, StartQuiet DEF X
  <1> QED
    BY <1>1 DEF AppCreateCredential, AppCreateKey, Values

\* The handlers for agents begin with what they have checked.
LEMMA AgentHandlers ==
    ASSUME Facts, NEW c \in Callers, NEW u \in Users, NEW a \in load.who, NEW names \in SUBSET load.names,
           NEW roles \in SUBSET RoleNames,
           \/ \E all \in BOOLEAN : CreateAgentRequest(c, u, a, all, names, roles)
           \/ \E all \in {"yes", "no", Keep} : UpdateAgentRequest(c, u, a, all, names, roles)
    PROVE  Facts'
  <1>0. u \in Actors /\ names \in SUBSET AllNames /\ a \in AgentIds
    BY AskedAbout
  <1> DEFINE X == Right(Scope(u), u, 0)
  <1>1. ASSUME NEW all \in BOOLEAN, CreateAgentRequest(c, u, a, all, names, roles) PROVE Facts'
    <2> DEFINE s == [st |-> "createAgent", agent |-> a, kind |-> "agent", all |-> all,
                     owner |-> IF IsManager(u) THEN Nobody ELSE u]
               R == IF IsManager(u) THEN roles ELSE {}
               N == IF all THEN {} ELSE names
    <2>1. IsManager(u) \/ (~all /\ ValidateApproverAgentScope(u, names, roles))
      BY <1>1 DEF CreateAgentRequest
    <2>2. \A n \in names : InScope(Scope(u), u, n)
      BY <2>1, ScopeHolds
    <2>3. s \in X
      BY <1>0, <2>1 DEF Right, Rightful, Statements, IsManager, Actors
    <2>4. \A r \in RoleNames : [st |-> "assignRole", agent |-> a, role |-> r] \in X
      BY <1>0 DEF Right, Rightful, Statements
    <2>5. \A n \in names : [st |-> "addDirect", agent |-> a, name |-> n] \in X
      BY <1>0, <2>2 DEF Right, Rightful, Statements
    <2>6. R \in SUBSET RoleNames /\ N \in SUBSET AllNames /\ N \subseteq names
      BY <1>0
    <2>7. Start(c, u, 0, <<s>> \o AssignsRoles(a, R) \o AddsDirect(a, N)) /\ UNCHANGED <<db, stripe>>
      BY <1>1 DEF CreateAgentRequest
    <2> HIDE DEF s, R, N, X
    <2>8. <<s>> \in Seq(X) /\ AssignsRoles(a, R) \in Seq(X) /\ AddsDirect(a, N) \in Seq(X)
      <3>1. AssignsRoles(a, R) \in Seq(X)
        BY <2>4, <2>6, AgentLists
      <3>2. AddsDirect(a, N) \in Seq(X)
        BY <2>5, <2>6, AgentLists
      <3> QED BY <2>3, <3>1, <3>2
    <2>9. <<s>> \o AssignsRoles(a, R) \o AddsDirect(a, N) \in Seq(X)
      BY <2>8, ConcatProperties
    <2> QED BY <1>0, <2>7, <2>9, StartQuiet DEF X
  <1>2. ASSUME NEW all \in {"yes", "no", Keep}, UpdateAgentRequest(c, u, a, all, names, roles) PROVE Facts'
    <2> DEFINE account == IF all = Keep THEN db.agent[a].all ELSE all = "yes"
               promoted == all = "yes" /\ ~db.agent[a].all
               sa == [st |-> "setAll", agent |-> a, all |-> all = "yes"]
               sp == [st |-> "purge", agent |-> a]
               sd == [st |-> "syncDirect", agent |-> a, names |-> names]
               sr == [st |-> "syncRoles", agent |-> a, roles |-> roles]
               A == IF all = Keep THEN <<>> ELSE <<sa>>
               P == IF promoted THEN <<sp>> ELSE <<>>
               D == IF account THEN <<>> ELSE <<sd>>
               R == IF IsManager(u) THEN <<sr>> ELSE <<>>
    <2>1. IsManager(u) \/ (all = Keep /\ ValidateApproverAgentScope(u, names, roles))
      BY <1>2 DEF UpdateAgentRequest
    <2>2. \A n \in names : InScope(Scope(u), u, n)
      BY <2>1, ScopeHolds
    <2>3. Start(c, u, 0, A \o P \o D \o R) /\ UNCHANGED <<db, stripe>>
      BY <1>2 DEF UpdateAgentRequest
    <2>4. all # Keep => sa \in X
      BY <1>0, <2>1 DEF Right, Rightful, Statements, IsManager
    <2>5. sp \in X /\ sr \in X
      BY <1>0 DEF Right, Rightful, Statements
    <2>6. sd \in X
      BY <1>0, <2>2 DEF Right, Rightful, Statements
    <2> HIDE DEF sa, sp, sd, sr, X, account, promoted
    <2>7. A \in Seq(X) /\ P \in Seq(X) /\ D \in Seq(X) /\ R \in Seq(X)
      BY <2>4, <2>5, <2>6
    <2> HIDE DEF A, P, D, R
    <2>8. A \o P \o D \o R \in Seq(X)
      BY <2>7, ConcatProperties
    <2> QED BY <1>0, <2>3, <2>8, StartQuiet DEF X
  <1> QED
    BY <1>1, <1>2

-----------------------------------------------------------------------------
(* The handlers that run at once                                           *)

\* The step of a request that changes the tables and is done.
LEMMA TablesDone ==
    ASSUME Facts, Unchanged, Sound(db'), Grows(db, db', 0), db'.tier = db.tier
    PROVE  Facts'
  <1>1. load' = load /\ call' = call /\ stripe' = stripe
    BY DEF Unchanged
  <1> QED
    BY <1>1, PaidKept, TablesMove

\* A credential or a role is deleted in one transaction.
LEMMA DeleteHandlers ==
    ASSUME Facts, NEW u, NEW n, NEW r,
           (n \in load.names /\ DeleteCredentialRequest(u, n)) \/ (r \in RoleNames /\ DeleteRoleRequest(u, r))
    PROVE  Facts'
  <1>0. Sound(db) /\ db \in Tables
    BY DEF Facts, Sound
  <1>1. CASE n \in load.names /\ DeleteCredentialRequest(u, n)
    <2>1. n \in AllNames /\ db' = DeleteCredential(db, n) /\ Unchanged
      BY <1>1, AskedAbout DEF DeleteCredentialRequest
    <2>2. Sound(db') /\ Grows(db, db', 0)
      BY <1>0, <2>1, DeleteCredentialStatement
    <2>3. db'.tier = db.tier
      BY <1>0, <2>1 DEF DeleteCredential, Tables
    <2> QED BY <2>1, <2>2, <2>3, TablesDone
  <1>2. CASE r \in RoleNames /\ DeleteRoleRequest(u, r)
    <2>1. db' = DeleteRole(db, r) /\ Unchanged
      BY <1>2 DEF DeleteRoleRequest
    <2>2. PICK s : s = [role |-> r]
      OBVIOUS
    <2>3. s.role = r /\ db' = DeleteRole(db, s.role)
      BY <2>1, <2>2
    <2>4. Sound(db') /\ Grows(db, db', 0)
      BY <1>0, <1>2, <2>3, RoleStatements
    <2>5. db'.tier = db.tier
      BY <1>0, <2>1 DEF DeleteRole, Tables
    <2> QED BY <2>1, <2>4, <2>5, TablesDone
  <1> QED
    BY <1>1, <1>2

\* Proposing a setup is one statement.
LEMMA CreateSetupFacts ==
    ASSUME Facts, NEW u \in Users, NEW n \in load.names, NEW hosts \in {"any", "listed"}, NEW passkey \in BOOLEAN,
           CreateSetup(u, n, hosts, passkey)
    PROVE  Facts'
  <1>0. Sound(db) /\ db \in Tables
    BY DEF Facts, Sound
  <1>1. n \in Names /\ db' = CreateCredentialSetup(db, u, n, hosts, passkey) /\ Unchanged
    BY DEF CreateSetup, ValidateCredentialName
  <1>2. Sound(db') /\ Grows(db, db', 0)
    BY <1>0, <1>1, CreateSetupStatement
  <1>3. db'.tier = db.tier
    BY <1>0, <1>1 DEF CreateCredentialSetup, Tables
  <1> QED
    BY <1>1, <1>2, <1>3, TablesDone

\* A challenge is made, answered or expires.
LEMMA Challenged ==
    ASSUME NEW d, Sound(d), NEW x \in SUBSET (Users \cup Nat), NEW e, e = [d EXCEPT !.stepups = x]
    PROVE  Sound(e) /\ (\A k : Grows(d, e, k)) /\ FewerRows(d, e) /\ e.tier = d.tier
  <1>1. d \in Tables
    BY DEF Sound
  <1>2. e \in Tables /\ FewerRows(d, e) /\ e.tier = d.tier
    BY <1>1 DEF Tables, FewerRows, SameKeys
  <1> QED
    BY <1>2, FewerRowsKeep

\* A member is given a challenge to step up with.
LEMMA ChallengeHandlers ==
    ASSUME Facts, NEW u \in Users, GoogleStartBegin(u) \/ \E s \in db.setups : BeginActivation(u, s)
    PROVE  Facts'
  <1>0. Sound(db) /\ db \in Tables
    BY DEF Facts, Sound
  <1>1. ASSUME NEW k \in Users \cup Nat, db' = [db EXCEPT !.stepups = @ \cup {k}], Unchanged PROVE Facts'
    <2> DEFINE x == db.stepups \cup {k}
    <2>1. x \in SUBSET (Users \cup Nat)
      BY <1>0 DEF Tables
    <2>2. db' = [db EXCEPT !.stepups = x]
      BY <1>1
    <2> HIDE DEF x
    <2> QED BY <1>0, <1>1, <2>1, <2>2, Challenged, TablesDone
  <1>2. CASE GoogleStartBegin(u)
    BY <1>1, <1>2 DEF GoogleStartBegin
  <1>3. ASSUME NEW s \in db.setups, BeginActivation(u, s) PROVE Facts'
    <2>1. s.id \in Users \cup Nat
      BY <1>0, LinkFacts
    <2> QED BY <1>1, <1>3, <2>1 DEF BeginActivation
  <1> QED
    BY <1>2, <1>3

\* Setups and states expire.
LEMMA ExpireFacts ==
    ASSUME Facts, Expire
    PROVE  Facts'
  <1>0. Sound(db) /\ db \in Tables /\ Unchanged
    BY DEF Facts, Sound, Expire
  <1>1. ASSUME NEW x, db' = [db EXCEPT !.setups = @ \ {x}] PROVE Facts'
    <2>1. Sound(db') /\ Grows(db, db', 0)
      BY <1>0, <1>1, RemovedLinks
    <2>2. db'.tier = db.tier
      BY <1>0, <1>1 DEF Tables
    <2> QED BY <1>0, <2>1, <2>2, TablesDone
  <1>2. ASSUME NEW x, db' = [db EXCEPT !.states = @ \ {x}] PROVE Facts'
    <2>1. Sound(db') /\ Grows(db, db', 0)
      BY <1>0, <1>2, RemovedLinks
    <2>2. db'.tier = db.tier
      BY <1>0, <1>2 DEF Tables
    <2> QED BY <1>0, <2>1, <2>2, TablesDone
  <1>3. ASSUME NEW x, db' = [db EXCEPT !.stepups = @ \ {x}] PROVE Facts'
    <2> DEFINE y == db.stepups \ {x}
    <2>1. y \in SUBSET (Users \cup Nat)
      BY <1>0 DEF Tables
    <2>2. db' = [db EXCEPT !.stepups = y]
      BY <1>3
    <2> HIDE DEF y
    <2> QED BY <1>0, <2>1, <2>2, Challenged, TablesDone
  <1> QED
    BY <1>1, <1>2, <1>3 DEF Expire

-----------------------------------------------------------------------------
(* OAuth connections                                                       *)

\* A state that a member begins, for a name that is no end-user's if it is new.
LEMMA CreateStateStatement ==
    ASSUME NEW d, Sound(d), NEW u \in Managers, NEW provider \in Providers, NEW flow \in {"create", "reauthorize"},
           NEW n \in AllNames, flow = "create" => OwnerOf(n) = Nobody, NEW agents \in SUBSET AgentIds,
           NEW e, e = CreateOauthState(d, u, provider, flow, n, agents)
    PROVE  Sound(e) /\ (\A k : Grows(d, e, k)) /\ e.tier = d.tier
  <1>0. d \in Tables /\ d.next \in Nat
    BY DEF Sound, Tables
  <1> DEFINE row == [id |-> d.next, by |-> u, provider |-> provider, flow |-> flow,
                     name |-> n, endUser |-> Nobody, agents |-> agents]
  <1>1. row \in StateRow /\ row.id = d.next /\ row.flow = flow /\ row.endUser = Nobody /\ row.name = n /\ row.by = u
    BY <1>0 DEF StateRow, Users
  <1>2. e = [d EXCEPT !.states = d.states \cup {row}, !.next = d.next + 1]
    BY DEF CreateOauthState
  <1> HIDE DEF row
  <1>3. e.tier = d.tier
    BY <1>0, <1>2 DEF Tables
  <1> QED
    BY <1>1, <1>2, <1>3, StateAdded

\* A state begun by an app is for the name of one of its end-users.
LEMMA CreateScopedStatement ==
    ASSUME NEW d, Sound(d), NEW a \in Apps, NEW provider \in Providers, NEW n \in EndUserNames,
           NEW e, e = CreateOauthStateScoped(d, a, provider, n)
    PROVE  Sound(e) /\ (\A k : Grows(d, e, k)) /\ e.tier = d.tier
  <1>0. d \in Tables /\ d.next \in Nat
    BY DEF Sound, Tables
  <1>00. n \in AllNames /\ OwnerOf(n) = n /\ n # Nobody
    BY NameAssumption DEF AllNames, OwnerOf
  <1> DEFINE row == [id |-> d.next, by |-> a, provider |-> provider, flow |-> "create",
                     name |-> n, endUser |-> n, agents |-> {}]
  <1>1. row \in StateRow /\ row.id = d.next /\ row.endUser = n /\ row.name = n
    BY <1>0, <1>00 DEF StateRow
  <1>2. e = [d EXCEPT !.states = d.states \cup {row}, !.next = d.next + 1]
    BY DEF CreateOauthStateScoped
  <1> HIDE DEF row
  <1>3. e.tier = d.tier
    BY <1>0, <1>2 DEF Tables
  <1> QED
    BY <1>00, <1>1, <1>2, <1>3, StateAdded

\* A change of other rows does not disturb what comes after it.
LEMMA GrowsAfter ==
    ASSUME NEW c, NEW d, NEW e, SameKeys(c, d), NEW k, Grows(d, e, k)
    PROVE  Grows(c, e, k)
  BY DEF SameKeys, Grows, Passkeyed

\* A member begins a connection.
LEMMA ConnectHandlers ==
    ASSUME Facts, NEW u \in Users, NEW n \in load.names,
           \/ \E agents \in SUBSET load.who : GoogleOauthStart(u, n, agents)
           \/ MicrosoftOauthStart(u, n) \/ GoogleOauthReauthorize(u, n) \/ MicrosoftOauthReauthorize(u, n)
    PROVE  Facts'
  <1>0. Sound(db) /\ db \in Tables /\ n \in AllNames /\ "google" \in Providers /\ "microsoft" \in Providers
        /\ {} \in SUBSET AgentIds
    BY AskedAbout DEF Facts, Sound, Providers
  <1>1. ASSUME NEW agents \in SUBSET load.who, GoogleOauthStart(u, n, agents) PROVE Facts'
    <2>1. u \in Managers /\ OwnerOf(n) = Nobody /\ agents \in SUBSET AgentIds /\ Unchanged
      BY <1>1, AskedAbout DEF GoogleOauthStart, MayConnect, IsManager, ValidateCredentialName
    <2>2. CASE agents = {}
      <3>1. db' = CreateOauthState(db, u, "google", "create", n, agents)
        BY <1>1, <2>2 DEF GoogleOauthStart
      <3> QED BY <1>0, <2>1, <3>1, CreateStateStatement, TablesDone
    <2>3. CASE agents # {}
      <3> DEFINE y == db.stepups \ {u}
      <3>1. PICK d : d = [db EXCEPT !.stepups = y]
        OBVIOUS
      <3>2. db' = CreateOauthState(d, u, "google", "create", n, agents)
        BY <1>1, <2>3, <3>1 DEF GoogleOauthStart
      <3>3. y \in SUBSET (Users \cup Nat)
        BY <1>0 DEF Tables
      <3> HIDE DEF y
      <3>4. Sound(d) /\ FewerRows(db, d) /\ d.tier = db.tier
        BY <1>0, <3>1, <3>3, Challenged
      <3>5. SameKeys(db, d)
        BY <1>0, <3>1, <3>4 DEF FewerRows, Tables
      <3>6. Sound(db') /\ Grows(d, db', 0) /\ db'.tier = d.tier
        BY <1>0, <2>1, <3>2, <3>4, CreateStateStatement
      <3>7. Grows(db, db', 0)
        BY <3>5, <3>6, GrowsAfter
      <3> QED BY <2>1, <3>4, <3>6, <3>7, TablesDone
    <2> QED BY <2>2, <2>3
  <1>2. CASE MicrosoftOauthStart(u, n)
    <2>1. u \in Managers /\ OwnerOf(n) = Nobody /\ Unchanged
      BY <1>2, AskedAbout DEF MicrosoftOauthStart, MayConnect, IsManager, ValidateCredentialName
    <2>2. db' = CreateOauthState(db, u, "microsoft", "create", n, {})
      BY <1>2 DEF MicrosoftOauthStart
    <2> QED BY <1>0, <2>1, <2>2, CreateStateStatement, TablesDone
  <1>3. CASE GoogleOauthReauthorize(u, n)
    <2>1. u \in Managers /\ Unchanged /\ db' = CreateOauthState(db, u, "google", "reauthorize", n, {})
      BY <1>3 DEF GoogleOauthReauthorize, IsManager
    <2> QED BY <1>0, <2>1, CreateStateStatement, TablesDone
  <1>4. CASE MicrosoftOauthReauthorize(u, n)
    <2>1. u \in Managers /\ Unchanged /\ db' = CreateOauthState(db, u, "microsoft", "reauthorize", n, {})
      BY <1>4 DEF MicrosoftOauthReauthorize, IsManager
    <2> QED BY <1>0, <2>1, CreateStateStatement, TablesDone
  <1> QED
    BY <1>1, <1>2, <1>3, <1>4

\* An app begins a connection for an end-user.
LEMMA AppConnectHandlers ==
    ASSUME Facts, NEW a \in Apps, NEW n, AppGoogleOauthStart(a, n) \/ AppMicrosoftOauthStart(a, n)
    PROVE  Facts'
  <1>0. Sound(db) /\ n \in EndUserNames /\ Unchanged /\ "google" \in Providers /\ "microsoft" \in Providers
    BY DEF Facts, AppGoogleOauthStart, AppMicrosoftOauthStart, Providers
  <1>1. \/ db' = CreateOauthStateScoped(db, a, "google", n)
        \/ db' = CreateOauthStateScoped(db, a, "microsoft", n)
    BY DEF AppGoogleOauthStart, AppMicrosoftOauthStart
  <1> QED
    BY <1>0, <1>1, CreateScopedStatement, TablesDone

-----------------------------------------------------------------------------
(* What a setup or a state lets a handler begin                            *)

\* A list with one more statement at its end.
LEMMA Appended ==
    ASSUME NEW X, NEW q \in Seq(X), NEW x \in X, NEW r, r = q \o <<x>>
    PROVE  r \in Seq(X) /\ Len(r) = Len(q) + 1 /\ r[Len(r)] = x /\ \A i \in 1 .. Len(q) : r[i] = q[i]
  <1>1. <<x>> \in Seq(X) /\ Len(<<x>>) = 1 /\ Len(q) \in Nat /\ <<x>>[1] = x
    OBVIOUS
  <1> QED
    BY <1>1, ConcatProperties

\* The list of an activation: the claim, the credential, and the gate before
\* the agents.
LEMMA ActivationLines ==
    ASSUME NEW scope, NEW u \in Managers, NEW s \in SetupRow, s.id # 0, s.name \notin EndUserNames,
           NEW agents \in SUBSET AgentIds, NEW t, t = Activation(s, agents)
    PROVE  /\ t \in Seq(Right(scope, u, s.id)) /\ Lined(t) /\ Secured(t)
           /\ t # <<>> /\ t[1].st = "claimSetup"
  <1> DEFINE X == Right(scope, u, s.id)
             claim == [st |-> "claimSetup", setup |-> s]
             new == NewCredential(s.name, "direct", "plain", Nobody, Nobody, s.passkey)
             hosts == SetHosts(s.name, s.hosts)
             policy == [st |-> "setPolicy", name |-> s.name, passkey |-> TRUE]
             assign == [st |-> "assignAgents", name |-> s.name, agents |-> agents]
  <1>1. /\ s.name \in AllNames /\ s.hosts \in Hosts /\ s.passkey \in BOOLEAN /\ OwnerOf(s.name) = Nobody
    BY DEF SetupRow, Hosts, OwnerOf
  <1>2. claim \in X /\ claim.st = "claimSetup"
    BY DEF Right, Rightful, Statements
  <1>3. new \in X /\ new.st = "createCredential" /\ new.gate = s.passkey
    BY <1>1 DEF Right, Rightful, Statements, NewCredential, Values
  <1>4. hosts \in X /\ hosts.st = "setHosts"
    BY <1>1 DEF Right, Rightful, Statements, SetHosts
  <1>5. policy \in X /\ policy.st = "setPolicy" /\ policy.name = s.name /\ policy.passkey
    BY <1>1 DEF Right, Rightful, Statements
  <1>6. assign \in X /\ assign.st = "assignAgents" /\ assign.name = s.name
    BY <1>1 DEF Right, Rightful, Statements
  <1>7. t = <<claim, new>> \o (IF s.hosts = "any" THEN <<>> ELSE <<hosts>>)
            \o (IF s.passkey THEN <<policy>> ELSE <<>>) \o <<assign>>
    BY DEF Activation
  <1> DEFINE q == <<claim, new>>
             q1 == q \o (IF s.hosts = "any" THEN <<>> ELSE <<hosts>>)
             q2 == q1 \o (IF s.passkey THEN <<policy>> ELSE <<>>)
  <1>8. t = q2 \o <<assign>>
    BY <1>7
  <1> HIDE DEF X, claim, new, hosts, policy, assign
  <1>9. q \in Seq(X) /\ Len(q) = 2 /\ q[1] = claim /\ q[2] = new
    BY <1>2, <1>3
  <1> HIDE DEF q
  <1>10. /\ q1 \in Seq(X) /\ Len(q1) \in Nat /\ Len(q1) >= 2 /\ q1[1] = claim /\ q1[2] = new
         /\ \A i \in 1 .. Len(q1) : i > 2 => q1[i] = hosts
    <2>1. CASE s.hosts = "any"
      <3>1. q1 = q
        BY <1>9, <2>1, ConcatEmptySeq
      <3> HIDE DEF q1
      <3>2. Len(q) \in Nat /\ Len(q) >= 2 /\ \A i \in 1 .. Len(q) : ~(i > 2)
        BY <1>9
      <3>3. q1 \in Seq(X) /\ q1[1] = claim /\ q1[2] = new
        BY <1>9, <3>1
      <3> QED BY <3>1, <3>2, <3>3
    <2>2. CASE s.hosts # "any"
      <3>1. q1 = q \o <<hosts>>
        BY <2>2
      <3> HIDE DEF q1
      <3>a. q \in Seq(X) /\ hosts \in X
        BY <1>4, <1>9
      <3>2. q1 \in Seq(X) /\ Len(q1) = Len(q) + 1 /\ q1[Len(q1)] = hosts /\ \A i \in 1 .. Len(q) : q1[i] = q[i]
        BY <3>a, <3>1, Appended
      <3> QED BY <1>9, <3>2
    <2> QED BY <2>1, <2>2
  <1> HIDE DEF q1
  <1>11. /\ q2 \in Seq(X) /\ Len(q2) \in Nat /\ Len(q2) >= 2 /\ q2[1] = claim /\ q2[2] = new
         /\ \A i \in 1 .. Len(q2) : i > 2 => q2[i] \in {hosts, policy}
         /\ s.passkey => q2[Len(q2)] = policy
    <2>1. CASE ~s.passkey
      <3>1. q2 = q1
        BY <1>10, <2>1, ConcatEmptySeq
      <3> HIDE DEF q2
      <3> QED BY <1>10, <2>1, <3>1
    <2>2. CASE s.passkey
      <3>1. q2 = q1 \o <<policy>>
        BY <2>2
      <3> HIDE DEF q2
      <3>2. q2 \in Seq(X) /\ Len(q2) = Len(q1) + 1 /\ q2[Len(q2)] = policy /\ \A i \in 1 .. Len(q1) : q2[i] = q1[i]
        BY <1>5, <1>10, <3>1, Appended
      <3> QED BY <1>10, <3>2
    <2> QED BY <2>1, <2>2
  <1> HIDE DEF q2
  <1>12. /\ t \in Seq(X) /\ Len(t) = Len(q2) + 1 /\ t[Len(t)] = assign /\ \A i \in 1 .. Len(q2) : t[i] = q2[i]
    BY <1>6, <1>8, <1>11, Appended
  <1>13. /\ t[1] = claim /\ t[2] = new
         /\ \A i \in 1 .. Len(t) : i > 2 /\ i # Len(t) => t[i] \in {hosts, policy}
         /\ s.passkey => t[Len(t) - 1] = policy
    BY <1>11, <1>12
  <1>14. Len(t) \in Nat /\ Len(t) >= 3
    BY <1>11, <1>12
  <1>15. \A i \in 1 .. Len(t) : /\ t[i].st = "claimSetup" => i = 1
                                /\ t[i].st = "createCredential" => i = 2
                                /\ Access(t[i]) => i = Len(t)
    <2>1. ASSUME NEW i \in 1 .. Len(t)
          PROVE  \/ t[i] = claim /\ i = 1
                 \/ t[i] = new /\ i = 2
                 \/ t[i] = assign /\ i = Len(t)
                 \/ t[i] \in {hosts, policy}
      <3>1. CASE i = 1
        BY <1>13, <3>1
      <3>2. CASE i = 2
        BY <1>13, <3>2
      <3>3. CASE i = Len(t)
        BY <1>12, <3>3
      <3>4. CASE i # 1 /\ i # 2 /\ i # Len(t)
        <4>1. i > 2
          BY <1>14, <2>1, <3>4
        <4> QED BY <1>13, <3>4, <4>1
      <3> QED BY <3>1, <3>2, <3>3, <3>4
    <2> QED BY <1>2, <1>3, <1>4, <1>5, <1>6, <2>1 DEF Access
  <1>16. Lined(t)
    BY <1>2, <1>13, <1>15 DEF Lined
  <1>17. Secured(t)
    <2>1. s.passkey => Gates(t, Len(t))
      <3>1. Len(t) - 1 \in 1 .. Len(t) - 1
        BY <1>14
      <3> QED BY <1>5, <1>6, <1>12, <1>13, <3>1 DEF Gates
    <2> QED BY <1>3, <1>13, <1>15, <2>1 DEF Secured
  <1>18. t # <<>>
    BY <1>14
  <1> QED
    BY <1>2, <1>12, <1>13, <1>16, <1>17, <1>18 DEF X

\* The list of a callback: nothing to claim, nothing behind a gate.
LEMMA ConnectionLines ==
    ASSUME NEW scope, NEW s \in StateRow, s.flow = "create" => s.endUser = OwnerOf(s.name),
           s.endUser = Nobody => s.by \in Managers, NEW provider \in Providers,
           NEW pinned \in BOOLEAN, NEW stored \in BOOLEAN, NEW t, t = Connection(s, provider, pinned, stored)
    PROVE  /\ t \in Seq(Right(scope, s.by, s.id)) /\ Lined(t) /\ Secured(t)
           /\ t # <<>> => t[1].st # "claimSetup"
  <1> DEFINE X == Right(scope, s.by, s.id)
             Y == {x \in X : x.st \notin {"claimSetup", "createCredential"}}
             new == NewCredential(s.name, "sidecar", "none", s.endUser, Nobody, FALSE)
             value == [st |-> "setValue", name |-> s.name, value |-> provider]
             hosts == SetHosts(s.name, provider)
             delete == [st |-> "deleteCredential", name |-> s.name]
             assign == [st |-> "assignAgents", name |-> s.name, agents |-> s.agents]
             more == stored /\ s.endUser = Nobody /\ s.agents # {}
  <1>1. /\ s.name \in AllNames /\ s.endUser \in AllNames \cup {Nobody} /\ s.agents \in SUBSET AgentIds
        /\ s.flow \in {"create", "reauthorize"} /\ provider \in Hosts /\ provider \in Values
    BY DEF StateRow, Hosts, Values
  <1>2. s.flow = "create" => new \in X
    BY <1>1 DEF Right, Rightful, Statements, NewCredential, Values
  <1>3. new.st = "createCredential" /\ new.gate = FALSE
    BY DEF NewCredential
  <1>4. value \in Y /\ hosts \in Y /\ delete \in Y
    BY <1>1 DEF Right, Rightful, Statements, SetHosts
  <1>5. more => assign \in Y
    BY <1>1 DEF Right, Rightful, Statements
  <1>6. s.flow = "reauthorize" => t = IF stored THEN <<value>> ELSE <<>>
    BY DEF Connection
  <1>7. s.flow = "create" =>
          t = <<new>> \o (IF pinned THEN <<hosts>> ELSE <<>>)
              \o (IF stored THEN <<value>> ELSE <<delete>>) \o (IF more THEN <<assign>> ELSE <<>>)
    BY DEF Connection
  <1> HIDE DEF X, new, value, hosts, delete, assign, more
  <1>8. CASE s.flow = "reauthorize"
    <2>1. t \in Seq(Y)
      <3> HIDE DEF Y
      <3>1. <<value>> \in Seq(Y) /\ <<>> \in Seq(Y)
        BY <1>4
      <3> QED BY <1>6, <1>8, <3>1
    <2>2. \A i \in 1 .. Len(t) : t[i] \in Y
      BY <2>1, ElementOfSeq
    <2>3. t # <<>> => 1 \in 1 .. Len(t)
      BY <2>1
    <2>4. Lined(t) /\ Secured(t) /\ (t # <<>> => t[1].st # "claimSetup")
      BY <2>2, <2>3 DEF Lined, Secured
    <2>5. t \in Seq(X)
      BY <2>1, SeqMonotonic
    <2> QED BY <2>4, <2>5 DEF X
  <1>9. CASE s.flow = "create"
    <2> DEFINE A == IF pinned THEN <<hosts>> ELSE <<>>
               B == IF stored THEN <<value>> ELSE <<delete>>
               C == IF more THEN <<assign>> ELSE <<>>
               r == A \o B \o C
    <2> HIDE DEF Y
    <2>1. A \in Seq(Y) /\ B \in Seq(Y) /\ C \in Seq(Y)
      BY <1>4, <1>5
    <2>2. t = <<new>> \o A \o B \o C
      BY <1>7, <1>9
    <2> HIDE DEF A, B, C
    <2>3. r \in Seq(Y)
      BY <2>1, ConcatProperties
    <2>4. t = <<new>> \o r
      <3>2. <<new>> \in Seq(Y \cup {new}) /\ A \in Seq(Y \cup {new}) /\ B \in Seq(Y \cup {new}) /\ C \in Seq(Y \cup {new})
        BY <2>1, SeqMonotonic
      <3>3. (<<new>> \o A) \o B = <<new>> \o (A \o B)
        BY <3>2, ConcatAssociative
      <3>4. A \o B \in Seq(Y \cup {new})
        BY <3>2, ConcatProperties
      <3>5. (<<new>> \o (A \o B)) \o C = <<new>> \o ((A \o B) \o C)
        BY <3>2, <3>4, ConcatAssociative
      <3> QED BY <2>2, <3>3, <3>5
    <2> HIDE DEF r
    <2>5. /\ Len(r) \in Nat /\ Len(t) = Len(r) + 1 /\ t[1] = new
          /\ \A i \in 1 .. Len(t) : i = 1 \/ (i - 1 \in 1 .. Len(r) /\ t[i] = r[i - 1])
      <3>1. <<new>> \in Seq({new}) /\ Len(<<new>>) = 1 /\ Len(r) \in Nat
        BY <2>3
      <3> QED BY <2>3, <2>4, <3>1, ConcatProperties
    <2>6. \A i \in 1 .. Len(t) : i = 1 \/ t[i].st \notin {"claimSetup", "createCredential"}
      BY <2>3, <2>5, ElementOfSeq DEF Y
    <2>7. t[1].st = "createCredential" /\ ~t[1].gate
      BY <1>3, <2>5
    <2>8. Lined(t) /\ Secured(t)
      BY <2>5, <2>6, <2>7 DEF Lined, Secured
    <2>9. t \in Seq(X)
      <3>1. r \in Seq(X)
        BY <2>3, SeqMonotonic DEF Y
      <3> QED BY <1>2, <1>9, <2>4, <3>1, ConcatProperties
    <2> QED BY <2>7, <2>8, <2>9 DEF X
  <1> QED
    BY <1>1, <1>8, <1>9

\* A setup is activated: the handler begins with its claim still to make.
LEMMA ActivateSetupFacts ==
    ASSUME Facts, NEW c \in Callers, NEW u \in Users, NEW s \in db.setups, NEW agents \in SUBSET load.who,
           ActivateSetup(c, u, s, agents)
    PROVE  Facts'
  <1>0. Sound(db) /\ db \in Tables /\ u \in Managers /\ u \in Actors /\ agents \in SUBSET AgentIds
    BY AskedAbout DEF Facts, Sound, ActivateSetup, IsManager
  <1>1. s \in SetupRow /\ s.id \in Nat /\ s.id # 0 /\ s.id < db.next /\ s.name \notin EndUserNames
    BY <1>0, LinkFacts
  <1> DEFINE y == db.stepups \ {s.id}
             t == Activation(s, agents)
             g == [by |-> u, from |-> s.id, scope |-> Scope(u), todo |-> t]
  <1>2. y \in SUBSET (Users \cup Nat) /\ db' = [db EXCEPT !.stepups = y]
    BY <1>0 DEF Tables, ActivateSetup
  <1>3. load' = load /\ stripe' = stripe /\ call' = [call EXCEPT ![c] = IF t = <<>> THEN Idle ELSE g]
    BY DEF ActivateSetup, Start, Scope
  <1> HIDE DEF y
  <1>4. Sound(db') /\ Grows(db, db', 0) /\ db'.tier = db.tier /\ FewerRows(db, db')
    BY <1>0, <1>2, Challenged
  <1>5. t \in Seq(Right(Scope(u), u, s.id)) /\ Lined(t) /\ Secured(t) /\ t # <<>> /\ t[1].st = "claimSetup"
    BY <1>0, <1>1, ActivationLines
  <1>6. t \in Seq(Statements)
    BY <1>5, SeqMonotonic DEF Right
  <1> HIDE DEF t
  <1>7. g \in Handlers /\ g.by = u /\ g.from = s.id /\ g.scope = Scope(u) /\ g.todo = t
    BY <1>0, <1>1, <1>6, ScopeTyped DEF Handlers
  <1> HIDE DEF g
  <1>8. Numbered(db', g)
    <2>1. db'.next = db.next /\ db'.states = db.states
      BY <1>4 DEF FewerRows, SameKeys
    <2>2. \A x \in db.states : x.id # s.id
      BY <1>0, LinkFacts
    <2> QED BY <1>1, <1>7, <2>1, <2>2 DEF Numbered
  <1>9. ~Owning(g)
    BY <1>5, <1>7 DEF Owning
  <1>10. Frame(db', g)
    BY <1>5, <1>7, <1>8, <1>9 DEF Frame
  <1>11. \A b \in Callers \ {c} : Owning(call[b]) => call[b].from # 0
    BY DEF Owning
  <1>12. Paying' /\ Paid(db, load)'
    BY <1>3, <1>4, PaidKept
  <1>13. call' = [call EXCEPT ![c] = g]
    BY <1>3, <1>5
  <1> QED
    BY <1>3, <1>4, <1>9, <1>10, <1>11, <1>12, <1>13, HandlerMoves

\* The provider calls back: the state is taken as the handler begins.
LEMMA OauthCallbackFacts ==
    ASSUME Facts, NEW c \in Callers, NEW provider \in Providers, NEW s \in db.states,
           OauthCallback(c, provider, s)
    PROVE  Facts'
  <1>0. Sound(db) /\ db \in Tables /\ stripe' = stripe /\ db' = TakeOauthState(db, s)
    BY DEF Facts, Sound, OauthCallback
  <1>1. /\ s \in StateRow /\ s.id \in Nat /\ s.id # 0 /\ s.id < db.next /\ Unused(db, s.id)
        /\ s.flow = "create" => s.endUser = OwnerOf(s.name)
        /\ s.endUser = Nobody => s.by \in Managers
    BY <1>0, LinkFacts
  <1>2. db' = [db EXCEPT !.states = @ \ {s}]
    BY <1>0 DEF TakeOauthState
  <1>3. Sound(db') /\ Grows(db, db', 0)
    <2>1. Sound(db)
      BY <1>0
    <2> QED BY <1>2, <2>1, RemovedLinks
  <1>4. /\ db'.tier = db.tier /\ db'.states = db.states \ {s} /\ db'.next = db.next /\ db'.setups = db.setups
        /\ db'.made = db.made
    BY <1>0, <1>2 DEF Tables
  <1>5. CASE UNCHANGED <<load, call>>
    <2>1. Unchanged
      BY <1>0, <1>5 DEF Unchanged
    <2> QED BY <1>3, <1>4, <2>1, TablesDone
  <1>6. ASSUME NEW pinned \in BOOLEAN, NEW stored \in BOOLEAN,
               Start(c, s.by, s.id, Connection(s, provider, pinned, stored))
        PROVE  Facts'
    <2> DEFINE t == Connection(s, provider, pinned, stored)
               f == [by |-> s.by, from |-> s.id, scope |-> Scope(s.by), todo |-> t]
               g == IF t = <<>> THEN Idle ELSE f
    <2>1. load' = load /\ call' = [call EXCEPT ![c] = g]
      BY <1>6 DEF Start, Scope
    <2>2. t \in Seq(Right(Scope(s.by), s.by, s.id)) /\ Lined(t) /\ Secured(t) /\ (t # <<>> => t[1].st # "claimSetup")
      BY <1>1, ConnectionLines
    <2>3. t \in Seq(Statements) /\ s.by \in Actors
      BY <1>1, <2>2, SeqMonotonic DEF Right, StateRow, Actors
    <2> HIDE DEF t
    <2>4. f \in Handlers /\ f.by = s.by /\ f.from = s.id /\ f.scope = Scope(s.by) /\ f.todo = t
      BY <1>1, <2>3, ScopeTyped DEF Handlers
    <2> HIDE DEF f
    <2>5. Numbered(db', f)
      <3>1. \A x \in db'.states : x.id # s.id
        BY <1>0, <1>4, LinkFacts
      <3> QED BY <1>1, <1>4, <2>4, <3>1 DEF Numbered
    <2>6. Unused(db', s.id)
      BY <1>1, <1>4 DEF Unused
    <2>7. Owns(db', f)
      <3>1. \A x \in db.setups : x.id # s.id
        BY <1>0, LinkFacts
      <3> QED BY <1>4, <2>4, <2>6, <3>1 DEF Owns
    <2>8. Closed(db', f)
      <3>1. ASSUME NEW i \in 1 .. Len(t), Access(t[i]) PROVE Passkeyed(db', t[i].name, s.id)
        <4>1. t[i] \in Statements
          BY <2>3, <3>1, ElementOfSeq
        <4>2. t[i].name \in AllNames
          BY <3>1, <4>1, Fields DEF Access
        <4> QED BY <1>1, <1>3, <2>6, <4>2, UnusedPasskeyed
      <3> QED BY <2>4, <3>1 DEF Closed
    <2>9. Frame(db', f)
      BY <2>2, <2>4, <2>5, <2>7, <2>8 DEF Frame
    <2>10. Frame(db', g)
      BY <2>9, IdleFramed
    <2>11. Owning(g) => g.from = s.id
      BY <2>4, IdleFramed
    <2>12. \A b \in Callers \ {c} : Owning(call[b]) => call[b].from # 0 /\ call[b].from # s.id
      BY DEF Owning, Facts, Frame, Numbered
    <2>13. Paying' /\ Paid(db, load)'
      BY <1>0, <1>4, <2>1, PaidKept
    <2> HIDE DEF g
    <2>14. \A b \in Callers \ {c} : Owning(call[b]) => call[b].from # 0
      BY <2>12
    <2>15. \A b \in Callers \ {c} : Owning(call[b]) /\ Owning(g) => call[b].from # g.from
      BY <2>11, <2>12
    <2> QED BY <1>3, <2>1, <2>10, <2>13, <2>14, <2>15, HandlerMoves
  <1> QED
    BY <1>5, <1>6 DEF OauthCallback

-----------------------------------------------------------------------------
(* Billing                                                                 *)

\* What Stripe holds, by its fields.
LEMMA StripeFields ==
    ASSUME Facts, NEW a, NEW b, NEW p, NEW q,
           stripe' = [customers |-> a, checkouts |-> b, paid |-> p, events |-> q]
    PROVE  stripe'.customers = a /\ stripe'.checkouts = b /\ stripe'.paid = p /\ stripe'.events = q
  OBVIOUS

\* Stripe moves: what was paid for stays, and an event tells of what was.
LEMMA StripeMoves ==
    ASSUME Facts, NEW a, NEW b, NEW p, NEW q,
           stripe' = [customers |-> a, checkouts |-> b, paid |-> p, events |-> q],
           a \subseteq Customers, b \subseteq Plans, p \subseteq Plans, stripe.paid \subseteq p,
           \A e \in q : e \in stripe.events \/ e.type = "ended" \/ \E k \in p : k[2] = e.tier,
           load' = load, db'.tier = db.tier
    PROVE  Paying' /\ Paid(db, load)'
  <1>1. stripe'.customers = a /\ stripe'.checkouts = b /\ stripe'.paid = p /\ stripe'.events = q
    BY StripeFields
  <1>2. ASSUME NEW e \in q, e.type \in {"completed", "updated"} PROVE \E k \in p : k[2] = e.tier
    <2>1. CASE e \in stripe.events
      BY <1>2, <2>1 DEF Facts, Paying
    <2> QED BY <1>2, <2>1
  <1>3. Paying'
    BY <1>1, <1>2 DEF Paying
  <1>4. Paid(db, load)'
    BY <1>1 DEF Facts, Paid
  <1> QED
    BY <1>3, <1>4

\* A step of Stripe alone.
LEMMA StripeFacts ==
    ASSUME Facts, UNCHANGED <<load, db, call>>, Paying', Paid(db, load)'
    PROVE  Facts'
  BY DEF Facts

\* A checkout is paid, a plan is changed, a subscription ends.
LEMMA PayFacts ==
    ASSUME Facts, Pay \/ ChangePlan \/ StopPaying
    PROVE  Facts'
  <1>0. /\ stripe.customers \subseteq Customers /\ stripe.checkouts \subseteq Plans /\ stripe.paid \subseteq Plans
        /\ stripe = [customers |-> stripe.customers, checkouts |-> stripe.checkouts,
                     paid |-> stripe.paid, events |-> stripe.events]
    BY DEF Facts, Paying
  <1>1. UNCHANGED <<load, db, call>> /\ db'.tier = db.tier
    BY DEF Pay, ChangePlan, StopPaying
  <1>2. CASE Pay
    <2>1. PICK k \in stripe.checkouts :
              stripe' = [stripe EXCEPT !.paid = @ \cup {k}, !.checkouts = @ \ {k},
                                       !.events = @ \cup {StripeEvent("completed", k[1], k[2])}]
      BY <1>2 DEF Pay
    <2> DEFINE e == StripeEvent("completed", k[1], k[2])
               b == stripe.checkouts \ {k}
               p == stripe.paid \cup {k}
               q == stripe.events \cup {e}
    <2>2. stripe' = [customers |-> stripe.customers, checkouts |-> b, paid |-> p, events |-> q]
      BY <1>0, <2>1
    <2>3. e.tier = k[2]
      BY DEF StripeEvent
    <2> HIDE DEF e
    <2>4. b \subseteq Plans /\ p \subseteq Plans /\ stripe.paid \subseteq p
      BY <1>0
    <2>5. \A x \in q : x \in stripe.events \/ x.type = "ended" \/ \E j \in p : j[2] = x.tier
      BY <2>3
    <2> HIDE DEF b, p, q
    <2> QED BY <1>0, <1>1, <2>2, <2>4, <2>5, StripeMoves, StripeFacts
  <1>3. CASE ChangePlan
    <2>1. PICK k \in stripe.paid, tier \in {"starter", "pro"} :
              stripe' = [stripe EXCEPT !.paid = @ \cup {<<k[1], tier>>},
                                       !.events = @ \cup {StripeEvent("updated", k[1], tier)}]
      BY <1>3 DEF ChangePlan
    <2> DEFINE e == StripeEvent("updated", k[1], tier)
               j == <<k[1], tier>>
               p == stripe.paid \cup {j}
               q == stripe.events \cup {e}
    <2>2. stripe' = [customers |-> stripe.customers, checkouts |-> stripe.checkouts, paid |-> p, events |-> q]
      BY <1>0, <2>1
    <2>3. e.tier = j[2] /\ j \in Plans
      BY <1>0, <2>1 DEF StripeEvent, Plans
    <2> HIDE DEF e, j
    <2>4. p \subseteq Plans /\ stripe.paid \subseteq p
      BY <1>0, <2>3
    <2>5. \A x \in q : x \in stripe.events \/ x.type = "ended" \/ \E i \in p : i[2] = x.tier
      BY <2>3
    <2> HIDE DEF p, q
    <2> QED BY <1>0, <1>1, <2>2, <2>4, <2>5, StripeMoves, StripeFacts
  <1>4. CASE StopPaying
    <2>1. PICK k \in stripe.paid :
              stripe' = [stripe EXCEPT !.events = @ \cup {StripeEvent("ended", k[1], "free")}]
      BY <1>4 DEF StopPaying
    <2> DEFINE e == StripeEvent("ended", k[1], "free")
               q == stripe.events \cup {e}
    <2>2. stripe' = [customers |-> stripe.customers, checkouts |-> stripe.checkouts, paid |-> stripe.paid, events |-> q]
      BY <1>0, <2>1
    <2>3. e.type = "ended"
      BY DEF StripeEvent
    <2> HIDE DEF e
    <2>4. \A x \in q : x \in stripe.events \/ x.type = "ended"
      BY <2>3
    <2> HIDE DEF q
    <2> QED BY <1>0, <1>1, <2>2, <2>4, StripeMoves, StripeFacts
  <1> QED
    BY <1>2, <1>3, <1>4

\* An event of Stripe is delivered, late or again.
LEMMA WebhookFacts ==
    ASSUME Facts, NEW type, NEW k, NEW tier \in Tiers, StripeWebhook(StripeEvent(type, k, tier))
    PROVE  Facts'
  <1>1. PICK e : e = StripeEvent(type, k, tier)
    OBVIOUS
  <1>2. e.tier = tier /\ StripeWebhook(e)
    BY <1>1 DEF StripeEvent
  <1>3. e \in stripe.events /\ load' = load /\ call' = call /\ stripe' = stripe
    BY <1>2 DEF StripeWebhook, VerifyStripeSignature, Unchanged
  <1>4. \/ e.type = "ended" /\ db' = UpdateTeamTier(db, "free")
        \/ e.type \in {"completed", "updated"} /\ db' = UpdateTeamTier(db, tier)
    BY <1>2 DEF StripeWebhook
  <1>5. Sound(db) /\ db \in Tables /\ "free" \in Tiers
    BY DEF Facts, Sound, Tiers
  <1>6. Sound(db') /\ Grows(db, db', 0)
    BY <1>4, <1>5, TeamStatements
  <1>7. \/ db'.tier = "free"
        \/ e.type \in {"completed", "updated"} /\ db'.tier = tier
    BY <1>4, <1>5 DEF UpdateTeamTier, Tables
  <1>8. Paying'
    BY <1>3 DEF Facts, Paying
  <1>9. Paid(db, load)'
    BY <1>2, <1>3, <1>7 DEF Facts, Paying, Paid
  <1> QED
    BY <1>3, <1>6, <1>8, <1>9, TablesMove

\* A member asks for a checkout.
LEMMA CheckoutFacts ==
    ASSUME Facts, NEW c \in Callers, NEW u \in Users, NEW tier \in {"starter", "pro"}, CreateCheckoutSession(c, u, tier)
    PROVE  Facts'
  <1>0. /\ stripe.customers \subseteq Customers /\ stripe.checkouts \subseteq Plans /\ stripe.paid \subseteq Plans
        /\ stripe = [customers |-> stripe.customers, checkouts |-> stripe.checkouts,
                     paid |-> stripe.paid, events |-> stripe.events]
    BY DEF Facts, Paying
  <1>1. db' = db /\ u \in Actors /\ db \in Tables
    BY AskedAbout DEF CreateCheckoutSession, Facts, Sound
  <1>2. CASE /\ db.customer # Nobody
             /\ stripe' = [stripe EXCEPT !.checkouts = @ \cup {<<db.customer, tier>>}]
             /\ UNCHANGED <<load, call>>
    <2> DEFINE j == <<db.customer, tier>>
               b == stripe.checkouts \cup {j}
    <2>1. j \in Plans
      BY <1>1, <1>2 DEF Plans, Tables
    <2>2. stripe' = [customers |-> stripe.customers, checkouts |-> b, paid |-> stripe.paid, events |-> stripe.events]
      BY <1>0, <1>2
    <2> HIDE DEF j
    <2>3. b \subseteq Plans
      BY <1>0, <2>1
    <2> HIDE DEF b
    <2>4. Paying' /\ Paid(db, load)'
      BY <1>0, <1>1, <1>2, <2>2, <2>3, StripeMoves
    <2> QED BY <1>1, <1>2, <2>4, StripeFacts
  <1>3. ASSUME NEW k \in Customers \ stripe.customers,
               stripe' = [stripe EXCEPT !.customers = @ \cup {k}, !.checkouts = @ \cup {<<k, tier>>}],
               Start(c, u, 0, <<[st |-> "setCustomer", customer |-> k]>>)
        PROVE  Facts'
    <2> DEFINE j == <<k, tier>>
               a == stripe.customers \cup {k}
               b == stripe.checkouts \cup {j}
               s == [st |-> "setCustomer", customer |-> k]
    <2>1. j \in Plans
      BY <1>3 DEF Plans
    <2>2. stripe' = [customers |-> a, checkouts |-> b, paid |-> stripe.paid, events |-> stripe.events]
      BY <1>0, <1>3
    <2>3. s \in Right(Scope(u), u, 0)
      BY <1>3 DEF Right, Rightful, Statements
    <2>4. Start(c, u, 0, <<s>>) /\ load' = load
      BY <1>3 DEF Start
    <2> HIDE DEF j, s
    <2>5. a \subseteq Customers /\ b \subseteq Plans
      BY <1>0, <1>3, <2>1
    <2> HIDE DEF a, b
    <2>6. Paying' /\ Paid(db, load)'
      BY <1>0, <1>1, <2>2, <2>4, <2>5, StripeMoves
    <2>7. <<s>> \in Seq(Right(Scope(u), u, 0))
      BY <2>3
    <2> QED BY <1>1, <2>4, <2>6, <2>7, StartPlain
  <1> QED
    BY <1>2, <1>3 DEF CreateCheckoutSession

-----------------------------------------------------------------------------
(* The invariant and the theorems                                          *)

\* The initial state has every fact.
LEMMA InitFacts ==
    ASSUME Init
    PROVE  Facts
  <1> DEFINE cred == [n \in AllNames |-> InitCredential(n)]
             policy == [n \in AllNames |-> Absent]
             agent == [a \in AgentIds |-> InitAgent(a)]
  <1>1. load \in Loads /\ load.tier \in Tiers
    BY LoadAssumption DEF Init
  <1>2. \A n \in AllNames : InitCredential(n) # Absent =>
            /\ InitCredential(n) \in CredentialRow /\ n \in Names /\ InitCredential(n).endUser = Nobody
            /\ ~InitCredential(n).gate /\ InitCredential(n).from = 0
    BY <1>1, LoadAssumption DEF InitCredential, CredentialRow, Hosts
  <1>3. \A a \in AgentIds : InitAgent(a) # Absent => InitAgent(a) \in AgentRow /\ ~InitAgent(a).all
    BY DEF InitAgent, AgentRow, Actors
  <1>4. /\ cred \in [AllNames -> CredentialRow \cup {Absent}] /\ policy \in [AllNames -> PolicyRow \cup {Absent}]
        /\ agent \in [AgentIds -> AgentRow \cup {Absent}]
    BY <1>2, <1>3
  <1>5. /\ \A n \in AllNames : cred[n] # Absent => n \in Names /\ cred[n].endUser = Nobody /\ ~cred[n].gate /\ cred[n].from = 0
        /\ \A n \in AllNames : policy[n] = Absent
        /\ \A a \in AgentIds : agent[a] # Absent => ~agent[a].all
    BY <1>2, <1>3
  <1>6. db = [cred |-> cred, policy |-> policy, agent |-> agent,
              roles |-> {}, roleCred |-> {}, agentRole |-> {}, direct |-> {}, approver |-> {},
              setups |-> {}, states |-> {}, stepups |-> {},
              tier |-> load.tier, customer |-> Nobody,
              made |-> {}, next |-> 1]
    BY DEF Init
  <1> HIDE DEF cred, policy, agent
  <1>7. db \in Tables
    BY <1>1, <1>4, <1>6 DEF Tables
  <1>8. /\ db.cred = cred /\ db.policy = policy /\ db.agent = agent /\ db.roles = {} /\ db.roleCred = {}
        /\ db.agentRole = {} /\ db.direct = {} /\ db.approver = {} /\ db.setups = {} /\ db.states = {}
        /\ db.made = {} /\ db.next = 1 /\ db.tier = load.tier
    BY <1>6
  <1>9. Keyed(db) /\ Bare(db) /\ Scoped(db) /\ Once(db) /\ Meant(db) /\ Gated(db)
    BY <1>5, <1>8 DEF Keyed, Bare, Scoped, Once, Meant, Gated
  <1>10. Bound(db)
    BY <1>5, <1>8, NameAssumption DEF Bound, OwnerOf
  <1>11. Sound(db)
    BY <1>7, <1>8, <1>9, <1>10 DEF Sound
  <1>12. Paying /\ Paid(db, load)
    BY <1>8 DEF Paying, Paid, Init
  <1>13. DOMAIN call = Callers /\ \A c \in Callers : call[c] = Idle
    BY DEF Init
  <1> QED
    BY <1>1, <1>11, <1>12, <1>13, IdleFramed DEF Facts, Apart

\* Every step keeps the facts.
LEMMA NextFacts ==
    ASSUME Facts, Next
    PROVE  Facts'
  <1>1. ASSUME NEW c \in Callers, RunStatement(c) \/ Crash(c) PROVE Facts'
    BY <1>1, StatementFacts, CrashFacts
  <1>2. ASSUME NEW c \in Callers, NEW u \in Users, NEW n \in load.names,
               \/ CreateCredentialRequest(c, u, n) \/ PatchCredential(c, u, n) \/ UpdateCredentialSecret(c, u, n)
               \/ \E v \in Approvers : AssignApproverCredential(c, u, v, n) \/ RemoveApproverCredential(c, u, v, n)
        PROVE  Facts'
    BY <1>2, CredentialHandlers, ScopeHandlers
  <1>3. ASSUME NEW u \in Users, NEW n \in load.names,
               \/ DeleteCredentialRequest(u, n)
               \/ \E hosts \in {"any", "listed"}, passkey \in BOOLEAN : CreateSetup(u, n, hosts, passkey)
               \/ \E agents \in SUBSET load.who : GoogleOauthStart(u, n, agents)
               \/ MicrosoftOauthStart(u, n) \/ GoogleOauthReauthorize(u, n) \/ MicrosoftOauthReauthorize(u, n)
        PROVE  Facts'
    BY <1>3, DeleteHandlers, CreateSetupFacts, ConnectHandlers
  <1>4. ASSUME NEW c \in Callers, NEW u \in Users, NEW a \in load.who, NEW names \in SUBSET load.names,
               NEW roles \in SUBSET RoleNames,
               \/ \E all \in BOOLEAN : CreateAgentRequest(c, u, a, all, names, roles)
               \/ \E all \in {"yes", "no", Keep} : UpdateAgentRequest(c, u, a, all, names, roles)
        PROVE  Facts'
    BY <1>4, AgentHandlers
  <1>5. ASSUME NEW c \in Callers, NEW u \in Users, NEW a \in load.who,
               DeleteAgentRequest(c, u, a) \/ EnableAgent(c, u, a) \/ DisableAgent(c, u, a)
        PROVE  Facts'
    <2>1. a \in AgentIds
      BY <1>5, AskedAbout
    <2> QED BY <1>5, <2>1, KeyHandlers
  <1>6. ASSUME NEW c \in Callers, NEW u \in Users, NEW r \in RoleNames, NEW names \in SUBSET load.names,
               CreateRoleRequest(c, u, r, names) \/ UpdateRole(c, u, r, names)
        PROVE  Facts'
    BY <1>6, RoleHandlers
  <1>7. ASSUME NEW u \in Users, NEW r \in RoleNames, DeleteRoleRequest(u, r) PROVE Facts'
    BY <1>7, DeleteHandlers
  <1>8. ASSUME NEW u \in Users, GoogleStartBegin(u) \/ \E s \in db.setups : BeginActivation(u, s) PROVE Facts'
    BY <1>8, ChallengeHandlers
  <1>9. ASSUME NEW c \in Callers, NEW u \in Users, NEW s \in db.setups, NEW agents \in SUBSET load.who,
               ActivateSetup(c, u, s, agents)
        PROVE  Facts'
    BY <1>9, ActivateSetupFacts
  <1>10. ASSUME NEW c \in Callers, NEW s \in db.states, GoogleOauthCallback(c, s) \/ MicrosoftOauthCallback(c, s)
         PROVE  Facts'
    <2>1. OauthCallback(c, "google", s) \/ OauthCallback(c, "microsoft", s)
      BY <1>10 DEF GoogleOauthCallback, MicrosoftOauthCallback
    <2>2. "google" \in Providers /\ "microsoft" \in Providers
      BY DEF Providers
    <2> QED BY <1>10, <2>1, <2>2, OauthCallbackFacts
  <1>11. ASSUME NEW c \in Callers, NEW u \in Users, NEW a \in Apps, CreateApp(c, u, a) PROVE Facts'
    <2>1. a \in AgentIds
      BY <1>11, AskedAbout
    <2> QED BY <1>11, <2>1, KeyHandlers
  <1>12. ASSUME NEW a \in Apps, NEW n \in load.names, AppGoogleOauthStart(a, n) \/ AppMicrosoftOauthStart(a, n)
         PROVE  Facts'
    BY <1>12, AppConnectHandlers
  <1>13. ASSUME NEW c \in Callers, NEW a \in Apps, NEW n \in load.names,
                AppCreateCredential(c, a, n) \/ AppCreateKey(c, a, n)
         PROVE  Facts'
    BY <1>13, AppHandlers
  <1>14. ASSUME NEW c \in Callers, NEW u \in Users, NEW tier \in {"starter", "pro"}, CreateCheckoutSession(c, u, tier)
         PROVE  Facts'
    BY <1>14, CheckoutFacts
  <1>15. CASE Pay \/ ChangePlan \/ StopPaying
    BY <1>15, PayFacts
  <1>16. ASSUME NEW type \in {"completed", "updated", "ended"}, NEW k \in Customers, NEW tier \in Tiers,
                StripeWebhook(StripeEvent(type, k, tier))
         PROVE  Facts'
    BY <1>16, WebhookFacts
  <1>17. CASE Expire
    BY <1>17, ExpireFacts
  <1> QED
    BY <1>1, <1>2, <1>3, <1>4, <1>5, <1>6, <1>7, <1>8, <1>9, <1>10, <1>11, <1>12, <1>13, <1>14, <1>15, <1>16, <1>17
       DEF Next

\* A stuttering step keeps the facts.
LEMMA FactsStay ==
    ASSUME Facts, [Next]_vars
    PROVE  Facts'
  <1>1. CASE Next
    BY <1>1, NextFacts
  <1>2. CASE UNCHANGED vars
    BY <1>2 DEF vars, Facts, Paying, Paid
  <1> QED
    BY <1>1, <1>2

\* The three properties follow from the facts.
LEMMA FactsSuffice ==
    ASSUME Facts
    PROVE  NamesAreBound /\ ApproversStayInScope /\ CallbacksAreEarned
  <1>0. Sound(db) /\ db \in Tables
    BY DEF Facts, Sound
  <1>1. TypeOK
    <2>1. db.tier \in Tiers /\ db.customer \in Customers \cup {Nobody} /\ db.roles \subseteq RoleNames
      BY <1>0 DEF Tables
    <2>2. \A n \in ListCredentials(db) : db.cred[n].hosts \in Hosts /\ db.cred[n].value \in Values
      BY <1>0 DEF Tables, ListCredentials, GetCredential, CredentialRow
    <2> QED BY <1>0, <2>1, <2>2 DEF TypeOK, Sound, Keyed
  <1>2. NamesakesStartBare
    BY <1>0 DEF Sound, Bare, Refers, NamesakesStartBare, GetCredential
  <1>3. EndUserNamesAreBound
    BY <1>0 DEF Sound, Bound, OwnerOf, EndUserNamesAreBound, ListCredentials, GetCredential
  <1>4. ApproversStayInScope
    BY <1>0 DEF Sound, Scoped, ApproversStayInScope, ListAgents
  <1>5. OneCredentialEach
    BY <1>0 DEF Sound, Once, OneCredentialEach
  <1>6. GateBeforeAccess
    BY <1>0 DEF Sound, Bare, Refers, Gated, Passkeyed, GateBeforeAccess
  <1>7. PaidTierWasPaid
    BY DEF Facts, Paid, PaidTierWasPaid
  <1> QED
    BY <1>1, <1>2, <1>3, <1>4, <1>5, <1>6, <1>7 DEF NamesAreBound, CallbacksAreEarned

(* The inductive invariant holds of every behaviour.                       *)
THEOREM FactsHold == Spec => []Facts
  <1>1. Init => Facts
    BY InitFacts
  <1>2. Facts /\ [Next]_vars => Facts'
    BY FactsStay
  <1> QED
    BY <1>1, <1>2, PTL DEF Spec

(* A credential made under the name of a deleted one starts bare, a name   *)
(* of an end-user belongs to it, and no row outlives what it refers to     *)
(* (NamesAreBound): whatever the handlers under way were in the middle of  *)
(* when it was deleted, and wherever they crashed.                         *)
THEOREM NamesStayBound == Spec => []NamesAreBound
  <1>1. Facts => NamesAreBound
    BY FactsSuffice
  <1> QED
    BY <1>1, FactsHold, PTL

(* What an agent may use directly was given to it by a manager, or by an   *)
(* approver whose scope named it when its request was checked, and account *)
(* keys are made by managers (ApproversStayInScope): whatever statements   *)
(* of other requests run between the check and the insert.  That the scope *)
(* still named it, and the same credential, when it was attached is not    *)
(* said, and not so.                                                       *)
THEOREM ApproversAreScoped == Spec => []ApproversStayInScope
  <1>1. Facts => ApproversStayInScope
    BY FactsSuffice
  <1> QED
    BY <1>1, FactsHold, PTL

(* A setup and an OAuth state make one credential, the agents of a gated   *)
(* setup come after its gate, and a paid tier was paid for                 *)
(* (CallbacksAreEarned): however often links are followed, whatever is     *)
(* running and in which order Stripe's events arrive.                      *)
THEOREM CallbacksEarned == Spec => []CallbacksAreEarned
  <1>1. Facts => CallbacksAreEarned
    BY FactsSuffice
  <1> QED
    BY <1>1, FactsHold, PTL
===============================================================================
