------------------------------ MODULE Workspace -------------------------------
(***************************************************************************)
(* What the members of a team keep in it: credentials, agents, apps and    *)
(* roles, who may use what, credential setups and OAuth connections that   *)
(* are completed in another request, and the paid tier.  Models the        *)
(* handlers of tap-proxy/src/admin.rs, oauth.rs and app.rs that change     *)
(* these, and the statements of tap-core/src/store.rs they run.            *)
(*                                                                         *)
(* A handler checks and reads, and then runs a list of statements (todo),  *)
(* one at a time: other requests run in between and a crash drops the      *)
(* rest.  Some items of the list are reads: they put the statements that   *)
(* follow from what they read in their own place (Expand).  Rows with an   *)
(* expiry may go at any time.  The fields marked "history" are not columns *)
(* of the table, they record what the properties speak of.                 *)
(***************************************************************************)
EXTENDS Naturals, Sequences, FiniteSets, SequencesExt

CONSTANTS
    Managers, Approvers,   \* members of the team, by role
    Names,                 \* credential names within the charset of the dashboard
    EndUserNames,          \* names of the form eu:{ext}/{name}
    Agents, Apps, RoleNames,
    Customers,             \* identifiers Stripe hands out
    Callers,               \* requests handled at the same time
    Loads,                 \* [ops, names, who, tier, agents, creds, ids]: what is asked for
                           \* in a behaviour, about which credentials and agents, what there
                           \* is at the start, and the bound of the model on the rows made
    Webauthn,              \* is WebAuthn configured?
    StarterAgents, StarterCredentials, \* the limits of the starter tier
    Nobody, Absent

Users == Managers \cup Approvers
AllNames == Names \cup EndUserNames
Providers == {"google", "microsoft"}
Tiers == {"free", "starter", "pro"}
Keep == "keep"     \* a field the request leaves out

(* The rows of credentials, policies and agents, history included.         *)
Hosts == {"any", "listed"} \cup Providers
Values == {"none", "plain", "fields"} \cup Providers
AgentIds == Agents \cup Apps
Actors == Users \cup Apps \cup {Nobody}

CredentialRow ==
    [id : Nat, connector : {"direct", "sidecar"}, hosts : Hosts, value : Values,
     endUser : AllNames \cup {Nobody}, app : Apps \cup {Nobody}, from : Nat, gate : BOOLEAN]
PolicyRow == [id : Nat, passkey : BOOLEAN]
AgentRow ==
    [kind : {"agent", "app"}, owner : Actors, enabled : BOOLEAN, all : BOOLEAN, allBy : Actors]

(* A member has one role, and a colon tells the names of end-users apart.  *)
ASSUME MemberAssumption == Managers \cap Approvers = {}
ASSUME NameAssumption == Names \cap EndUserNames = {} /\ Nobody \notin EndUserNames
ASSUME FiniteAssumption == IsFiniteSet(AllNames) /\ IsFiniteSet(AgentIds) /\ IsFiniteSet(RoleNames)
ASSUME AbsentAssumption == Absent \notin CredentialRow /\ Absent \notin PolicyRow /\ Absent \notin AgentRow

(* The credentials there are at the start were made in the dashboard.      *)
ASSUME LoadAssumption ==
    \A l \in Loads :
        /\ l.names \subseteq AllNames /\ l.who \subseteq AgentIds /\ l.tier \in Tiers
        /\ DOMAIN l.creds \subseteq Names /\ \A n \in DOMAIN l.creds : l.creds[n] \in Values

VARIABLES
    load,   \* the member of Loads this behaviour is about
    db,     \* the database
    call,   \* the handlers under way
    stripe  \* Stripe: customers made, checkouts open, tiers paid for, events sent

vars == <<load, db, call, stripe>>

(* The scope of the member when its request was checked is history.        *)
Idle == [by |-> Nobody, from |-> 0, scope |-> {}, todo |-> <<>>]

-----------------------------------------------------------------------------
(* Statements on credentials                                               *)

GetCredential(d, n) == d.cred[n] # Absent

ListCredentials(d) == {n \in AllNames : GetCredential(d, n)}

(* create_credential_scoped_for_app: the row and the secret in one INSERT. *)
(* The number of the row, the setup or OAuth state it was made from and    *)
(* whether that asked for a passkey (gate) are history.                    *)
CreateCredential(d, s, from) ==
    [d EXCEPT !.cred[s.name] =
                  [id |-> d.next, connector |-> s.connector, hosts |-> "any", value |-> s.value,
                   endUser |-> s.endUser, app |-> s.app, from |-> from, gate |-> s.gate],
              !.made = IF from = 0 THEN @ ELSE @ \cup {<<from, d.next>>},
              !.next = @ + 1]

UpdateCredentialConfig(d, s) ==
    IF GetCredential(d, s.name) THEN [d EXCEPT !.cred[s.name].connector = s.connector] ELSE d

SetCredentialAllowedHosts(d, s) ==
    IF GetCredential(d, s.name) THEN [d EXCEPT !.cred[s.name].hosts = s.hosts] ELSE d

SetCredentialValue(d, s) ==
    IF GetCredential(d, s.name) THEN [d EXCEPT !.cred[s.name].value = s.value] ELSE d

GetCredentialValue(d, n) == IF GetCredential(d, n) THEN d.cred[n].value ELSE "none"

Without(rows, n) == {r \in rows : r.name # n}

(* Faulty variant: the rows of roles stay.                                 *)
DeleteCredentialRow(d, n) ==
    [d EXCEPT !.cred[n] = Absent, !.policy[n] = Absent,
              !.direct = Without(@, n), !.approver = Without(@, n)]

(* delete_credential, with the rows that reference it (ON DELETE CASCADE). *)
DeleteCredential(d, n) ==
    [d EXCEPT !.cred[n] = Absent, !.policy[n] = Absent,
              !.direct = Without(@, n), !.approver = Without(@, n), !.roleCred = Without(@, n)]

(* set_policy fails without the credential.                                *)
SetPolicy(d, s) ==
    IF GetCredential(d, s.name)
    THEN [d EXCEPT !.policy[s.name] = [id |-> d.cred[s.name].id, passkey |-> s.passkey]] ELSE d

-----------------------------------------------------------------------------
(* Statements on agents and roles                                          *)

ListAgents(d) == {a \in AgentIds : d.agent[a] # Absent /\ d.agent[a].kind = "agent"}

(* create_agent, create_agent_owned, create_agent_all_credentials,         *)
(* create_app; who made it an account key is history.                      *)
CreateAgent(d, s, by) ==
    [d EXCEPT !.agent[s.agent] =
        [kind |-> s.kind, owner |-> s.owner, enabled |-> TRUE, all |-> s.all, allBy |-> by]]

SetAgentAllCredentials(d, s, by) ==
    IF d.agent[s.agent] = Absent THEN d
    ELSE [d EXCEPT !.agent[s.agent].all = s.all, !.agent[s.agent].allBy = by]

SetAgentEnabled(d, s) ==
    IF d.agent[s.agent] = Absent THEN d ELSE [d EXCEPT !.agent[s.agent].enabled = s.enabled]

DeleteAgent(d, a) ==
    [d EXCEPT !.agent[a] = Absent,
              !.direct = {r \in @ : r.agent # a}, !.agentRole = {r \in @ : r.agent # a}]

(* add_direct_credential: nothing without the agent or the credential, and *)
(* nothing where there is a row.  By whom, within which scope, from which  *)
(* setup or OAuth state and to which credential of that name are history.  *)
AddDirectCredential(d, s, f) ==
    IF \/ d.agent[s.agent] = Absent \/ ~GetCredential(d, s.name)
       \/ \E r \in d.direct : r.agent = s.agent /\ r.name = s.name
    THEN d
    ELSE [d EXCEPT !.direct = @ \cup {[agent |-> s.agent, name |-> s.name, by |-> f.by,
                                       from |-> f.from, id |-> d.cred[s.name].id,
                                       scope |-> f.scope]}]

RemoveDirectCredential(d, s) ==
    [d EXCEPT !.direct = {r \in @ : r.agent # s.agent \/ r.name # s.name}]

GetAgentDirectCredentials(d, a) == {r.name : r \in {r \in d.direct : r.agent = a}}

AssignRoleToAgent(d, s) ==
    IF d.agent[s.agent] = Absent \/ s.role \notin d.roles THEN d
    ELSE [d EXCEPT !.agentRole = @ \cup {[agent |-> s.agent, role |-> s.role]}]

RemoveRoleFromAgent(d, s) ==
    [d EXCEPT !.agentRole = @ \ {[agent |-> s.agent, role |-> s.role]}]

GetAgentRoles(d, a) == {r.role : r \in {r \in d.agentRole : r.agent = a}}

CreateRole(d, s) == [d EXCEPT !.roles = @ \cup {s.role}]

(* Faulty variant: agents keep the role.                                   *)
DeleteRoleRow(d, r) ==
    [d EXCEPT !.roles = @ \ {r}, !.roleCred = {x \in @ : x.role # r}]

DeleteRole(d, r) ==
    [d EXCEPT !.roles = @ \ {r},
              !.roleCred = {x \in @ : x.role # r}, !.agentRole = {x \in @ : x.role # r}]

AddCredentialToRole(d, s) ==
    IF s.role \notin d.roles \/ ~GetCredential(d, s.name) THEN d
    ELSE [d EXCEPT !.roleCred = @ \cup {[role |-> s.role, name |-> s.name, id |-> d.cred[s.name].id]}]

RemoveCredentialFromRole(d, s) ==
    [d EXCEPT !.roleCred = {r \in @ : r.role # s.role \/ r.name # s.name}]

ListRoleCredentials(d, r) == {x.name : x \in {x \in d.roleCred : x.role = r}}

(* assign_credential_to_approver                                           *)
AssignCredentialToApprover(d, s) ==
    IF ~GetCredential(d, s.name) THEN d
    ELSE [d EXCEPT !.approver = @ \cup {[user |-> s.user, name |-> s.name, id |-> d.cred[s.name].id]}]

RemoveCredentialFromApprover(d, s) ==
    [d EXCEPT !.approver = {r \in @ : r.user # s.user \/ r.name # s.name}]

ListApproverCredentials(d, u) == {r.name : r \in {r \in d.approver : r.user = u}}


-----------------------------------------------------------------------------
(* Statements on setups, OAuth states and the team                         *)

CreateCredentialSetup(d, u, n, hosts, passkey) ==
    [d EXCEPT !.setups = @ \cup {[id |-> d.next, by |-> u, name |-> n, hosts |-> hosts,
                                  passkey |-> passkey, pending |-> TRUE]},
              !.next = @ + 1]

SetupIsPending(d, s) == \E x \in d.setups : x.id = s.id /\ x.pending

(* activate_credential_setup: only the first UPDATE finds it pending.      *)
ActivateCredentialSetup(d, s) ==
    [d EXCEPT !.setups = {IF x.id = s.id THEN [x EXCEPT !.pending = FALSE] ELSE x : x \in @}]

(* create_oauth_state_with_flow                                            *)
CreateOauthState(d, u, provider, flow, n, agents) ==
    [d EXCEPT !.states = @ \cup {[id |-> d.next, by |-> u, provider |-> provider, flow |-> flow,
                                  name |-> n, endUser |-> Nobody, agents |-> agents]},
              !.next = @ + 1]

(* create_oauth_state_scoped                                               *)
CreateOauthStateScoped(d, app, provider, n) ==
    [d EXCEPT !.states = @ \cup {[id |-> d.next, by |-> app, provider |-> provider, flow |-> "create",
                                  name |-> n, endUser |-> n, agents |-> {}]},
              !.next = @ + 1]

(* Faulty variant: the row is read and left to expire.                     *)
PeekOauthState(d, s) == d

(* take_oauth_state: DELETE ... RETURNING.                                 *)
TakeOauthState(d, s) == [d EXCEPT !.states = @ \ {s}]

UpdateTeamTier(d, tier) == [d EXCEPT !.tier = tier]

SetStripeCustomerId(d, s) == [d EXCEPT !.customer = s.customer]

GetTeamByStripeCustomer(d, customer) == d.customer = customer

-----------------------------------------------------------------------------
(* Statements of a handler                                                 *)

(* The statement fails and the handler answers with an error.              *)
Refused(d, s) ==
    CASE s.st = "createCredential" -> GetCredential(d, s.name)
      [] s.st = "createAgent" -> d.agent[s.agent] # Absent
      [] s.st = "createRole" -> s.role \in d.roles
      [] s.st = "patchHosts" -> ~GetCredential(d, s.name)
      [] s.st = "setPolicy" -> ~GetCredential(d, s.name)
      [] s.st = "claimSetup" -> ~SetupIsPending(d, s.setup)
      [] OTHER -> FALSE

Effect(d, f, s) ==
    CASE s.st = "createCredential" -> CreateCredential(d, s, f.from)
      [] s.st = "setConfig" -> UpdateCredentialConfig(d, s)
      [] s.st \in {"setHosts", "patchHosts"} -> SetCredentialAllowedHosts(d, s)
      [] s.st = "setValue" -> SetCredentialValue(d, s)
      [] s.st = "deleteCredential" -> DeleteCredential(d, s.name)
      [] s.st = "setPolicy" -> SetPolicy(d, s)
      [] s.st = "createAgent" -> CreateAgent(d, s, f.by)
      [] s.st = "setAll" -> SetAgentAllCredentials(d, s, f.by)
      [] s.st = "setEnabled" -> SetAgentEnabled(d, s)
      [] s.st = "deleteAgent" -> DeleteAgent(d, s.agent)
      [] s.st = "addDirect" -> AddDirectCredential(d, s, f)
      [] s.st = "removeDirect" -> RemoveDirectCredential(d, s)
      [] s.st = "assignRole" -> AssignRoleToAgent(d, s)
      [] s.st = "removeRole" -> RemoveRoleFromAgent(d, s)
      [] s.st = "createRole" -> CreateRole(d, s)
      [] s.st = "addToRole" -> AddCredentialToRole(d, s)
      [] s.st = "removeFromRole" -> RemoveCredentialFromRole(d, s)
      [] s.st = "assignApprover" -> AssignCredentialToApprover(d, s)
      [] s.st = "removeApprover" -> RemoveCredentialFromApprover(d, s)
      [] s.st = "claimSetup" -> ActivateCredentialSetup(d, s.setup)
      [] s.st = "setCustomer" -> SetStripeCustomerId(d, s)

Each(names, Statement(_)) == SetToSeq({Statement(n) : n \in names})

AddsDirect(a, names) == Each(names, LAMBDA n : [st |-> "addDirect", agent |-> a, name |-> n])
RemovesDirect(a, names) == Each(names, LAMBDA n : [st |-> "removeDirect", agent |-> a, name |-> n])
AssignsRoles(a, roles) == Each(roles, LAMBDA r : [st |-> "assignRole", agent |-> a, role |-> r])
RemovesRoles(a, roles) == Each(roles, LAMBDA r : [st |-> "removeRole", agent |-> a, role |-> r])
AddsToRole(r, names) == Each(names, LAMBDA n : [st |-> "addToRole", role |-> r, name |-> n])
RemovesFromRole(r, names) == Each(names, LAMBDA n : [st |-> "removeFromRole", role |-> r, name |-> n])

(* The sync of handle_update_agent: the additions, then the removals.      *)
SyncDirect(d, s) ==
    LET current == GetAgentDirectCredentials(d, s.agent)
    IN  AddsDirect(s.agent, s.names \ current) \o RemovesDirect(s.agent, current \ s.names)

SyncRoles(d, s) ==
    LET current == GetAgentRoles(d, s.agent)
    IN  AssignsRoles(s.agent, s.roles \ current) \o RemovesRoles(s.agent, current \ s.roles)

(* The sync of handle_update_role: the removals, then the additions.       *)
SyncRoleCredentials(d, s) ==
    LET current == ListRoleCredentials(d, s.role)
    IN  RemovesFromRole(s.role, current \ s.names) \o AddsToRole(s.role, s.names \ current)

(* Of the agents chosen, those of the team (apps are not listed).          *)
AssignAgents(d, s) ==
    Each(s.agents \cap ListAgents(d), LAMBDA a : [st |-> "addDirect", agent |-> a, name |-> s.name])

Reads == {"purge", "syncDirect", "syncRoles", "syncRole", "assignAgents"}

Expand(d, s) ==
    CASE s.st = "purge" -> RemovesDirect(s.agent, GetAgentDirectCredentials(d, s.agent))
      [] s.st = "syncDirect" -> SyncDirect(d, s)
      [] s.st = "syncRoles" -> SyncRoles(d, s)
      [] s.st = "syncRole" -> SyncRoleCredentials(d, s)
      [] s.st = "assignAgents" -> AssignAgents(d, s)

(* One statement of the handler of c.                                      *)
RunStatement(c) ==
    LET f == call[c]
        s == Head(f.todo)
        rest == IF Len(f.todo) = 1 THEN Idle ELSE [f EXCEPT !.todo = Tail(@)]
        read == [f EXCEPT !.todo = Expand(db, s) \o Tail(@)]
    IN  /\ f.todo # <<>>
        /\ \/ /\ s.st \in Reads
              /\ call' = [call EXCEPT ![c] = IF read.todo = <<>> THEN Idle ELSE read]
              /\ UNCHANGED db
           \/ /\ s.st \notin Reads /\ Refused(db, s)
              /\ call' = [call EXCEPT ![c] = Idle]
              /\ UNCHANGED db
           \/ /\ s.st \notin Reads /\ ~Refused(db, s)
              /\ db' = Effect(db, f, s)
              /\ call' = [call EXCEPT ![c] = rest]
        /\ UNCHANGED <<load, stripe>>

-----------------------------------------------------------------------------
(* Handlers                                                                *)

Asked(op) == op \in load.ops
Room == db.next < load.ids

(* The handler has made its checks and has this left to do.                *)
Start(c, u, from, todo) ==
    /\ call[c] = Idle
    /\ call' = [call EXCEPT ![c] =
          IF todo = <<>> THEN Idle
          ELSE [by |-> u, from |-> from, scope |-> ListApproverCredentials(db, u), todo |-> todo]]
    /\ UNCHANGED load

Unchanged == UNCHANGED <<load, call, stripe>>

IsManager(u) == u \in Managers

(* get_tier_limits: only the starter tier has a limit on these.            *)
WithinTier(count, limit) == db.tier = "starter" => count < limit

MoreCredentials == WithinTier(Cardinality(ListCredentials(db)), StarterCredentials)

(* Faulty variant: any name that is not empty.                             *)
AnyCredentialName(n) == TRUE

(* validate_credential_name: no ":" and no "/".                            *)
ValidateCredentialName(n) == n \in Names

NewCredential(n, connector, value, endUser, app, gate) ==
    [st |-> "createCredential", name |-> n, connector |-> connector, value |-> value,
     endUser |-> endUser, app |-> app, gate |-> gate]

SetHosts(n, hosts) == [st |-> "setHosts", name |-> n, hosts |-> hosts]

(* The second write of handle_create_credential: validate_allowed_hosts    *)
(* accepts the list, or the row is taken back.                             *)
ApplyAllowedHosts(n) == {SetHosts(n, "listed"), [st |-> "deleteCredential", name |-> n]}

(* handle_create_credential: the secret and its row, then the hosts; a bad *)
(* list takes the row back.  A signing key or a relative target has none.  *)
CreateCredentialRequest(c, u, n) ==
    /\ Asked("credentials") /\ Room
    /\ IsManager(u) /\ ValidateCredentialName(n) /\ MoreCredentials
    /\ \/ \E then \in ApplyAllowedHosts(n) :
              Start(c, u, 0, <<NewCredential(n, "direct", "plain", Nobody, Nobody, FALSE), then>>)
       \/ Start(c, u, 0, <<NewCredential(n, "sidecar", "fields", Nobody, Nobody, FALSE)>>)
    /\ UNCHANGED <<db, stripe>>

(* handle_patch_credential: the hosts, cleared or set, then the rest.      *)
PatchCredential(c, u, n) ==
    /\ Asked("patch") /\ IsManager(u)
    /\ \E hosts \in {"any", "listed"}, connector \in {"direct", "sidecar"} :
          Start(c, u, 0, <<[st |-> "patchHosts", name |-> n, hosts |-> hosts],
                           [st |-> "setConfig", name |-> n, connector |-> connector]>>)
    /\ UNCHANGED <<db, stripe>>

(* normalize_credential_value: a string stays, an object becomes its JSON, *)
(* and a refresh token for a sidecar is completed to a Google bundle.      *)
NormalizeCredentialValue(connector) ==
    {"plain", "fields"} \cup (IF connector = "sidecar" THEN {"google"} ELSE {})

(* build_credential_secret_update: a value, or a patch of an object; a     *)
(* patched OAuth bundle still is one.                                      *)
SecretUpdates(n) ==
    NormalizeCredentialValue(db.cred[n].connector) \cup
        (CASE GetCredentialValue(db, n) = "none" -> {"fields"}
           [] GetCredentialValue(db, n) = "plain" -> {}
           [] OTHER -> {GetCredentialValue(db, n)})

(* handle_update_credential_secret                                         *)
UpdateCredentialSecret(c, u, n) ==
    /\ Asked("patch") /\ IsManager(u) /\ GetCredential(db, n)
    /\ \E v \in SecretUpdates(n) : Start(c, u, 0, <<[st |-> "setValue", name |-> n, value |-> v]>>)
    /\ UNCHANGED <<db, stripe>>

(* handle_delete_credential                                                *)
DeleteCredentialRequest(u, n) ==
    /\ Asked("delete") /\ IsManager(u) /\ GetCredential(db, n)
    /\ db' = DeleteCredential(db, n)
    /\ Unchanged

-----------------------------------------------------------------------------
(* Agents, apps and roles                                                  *)

(* user_can_access_agent, app_not_found_on_agent_route                     *)
AccessibleAgent(u, a) ==
    /\ db.agent[a] # Absent /\ db.agent[a].kind = "agent"
    /\ IsManager(u) \/ db.agent[a].owner = u

(* Faulty variant: the credentials are not compared.                       *)
ApproverScopeOfRoles(u, names, roles) == roles = {}

(* validate_approver_agent_scope                                           *)
ValidateApproverAgentScope(u, names, roles) ==
    roles = {} /\ names \subseteq ListApproverCredentials(db, u)

(* handle_create_agent: an approver's is its own, within its scope and no  *)
(* account key.                                                            *)
CreateAgentRequest(c, u, a, all, names, roles) ==
    /\ Asked("agents")
    /\ IsManager(u) \/ (~all /\ ValidateApproverAgentScope(u, names, roles))
    /\ WithinTier(Cardinality(ListAgents(db)), StarterAgents)
    /\ Start(c, u, 0, <<[st |-> "createAgent", agent |-> a, kind |-> "agent", all |-> all,
                         owner |-> IF IsManager(u) THEN Nobody ELSE u]>>
                      \o AssignsRoles(a, IF IsManager(u) THEN roles ELSE {})
                      \o AddsDirect(a, IF all THEN {} ELSE names))
    /\ UNCHANGED <<db, stripe>>

(* handle_update_agent: the flag, the purge on promotion, and the sync of  *)
(* the credentials unless the key is, or was when it was read, an account  *)
(* key; a manager also sets the roles.                                     *)
UpdateAgentRequest(c, u, a, all, names, roles) ==
    LET account == IF all = Keep THEN db.agent[a].all ELSE all = "yes"
        promoted == all = "yes" /\ ~db.agent[a].all
    IN  /\ Asked("agents")
        /\ AccessibleAgent(u, a)
        /\ IsManager(u) \/ (all = Keep /\ ValidateApproverAgentScope(u, names, roles))
        /\ Start(c, u, 0,
                 (IF all = Keep THEN <<>> ELSE <<[st |-> "setAll", agent |-> a, all |-> all = "yes"]>>)
                 \o (IF promoted THEN <<[st |-> "purge", agent |-> a]>> ELSE <<>>)
                 \o (IF account THEN <<>> ELSE <<[st |-> "syncDirect", agent |-> a, names |-> names]>>)
                 \o (IF IsManager(u) THEN <<[st |-> "syncRoles", agent |-> a, roles |-> roles]>> ELSE <<>>))
        /\ UNCHANGED <<db, stripe>>

(* handle_delete_agent                                                     *)
DeleteAgentRequest(c, u, a) ==
    /\ Asked("keys") /\ AccessibleAgent(u, a)
    /\ Start(c, u, 0, <<[st |-> "deleteAgent", agent |-> a]>>)
    /\ UNCHANGED <<db, stripe>>

(* handle_enable_agent, handle_disable_agent                               *)
EnableAgent(c, u, a) ==
    /\ Asked("keys") /\ AccessibleAgent(u, a)
    /\ Start(c, u, 0, <<[st |-> "setEnabled", agent |-> a, enabled |-> TRUE]>>)
    /\ UNCHANGED <<db, stripe>>

DisableAgent(c, u, a) ==
    /\ Asked("keys") /\ AccessibleAgent(u, a)
    /\ Start(c, u, 0, <<[st |-> "setEnabled", agent |-> a, enabled |-> FALSE]>>)
    /\ UNCHANGED <<db, stripe>>

(* handle_create_app                                                       *)
CreateApp(c, u, a) ==
    /\ Asked("apps") /\ IsManager(u)
    /\ Start(c, u, 0, <<[st |-> "createAgent", agent |-> a, kind |-> "app", all |-> FALSE, owner |-> Nobody]>>)
    /\ UNCHANGED <<db, stripe>>

(* handle_create_role                                                      *)
CreateRoleRequest(c, u, r, names) ==
    /\ Asked("roles") /\ IsManager(u)
    /\ Start(c, u, 0, <<[st |-> "createRole", role |-> r]>> \o AddsToRole(r, names))
    /\ UNCHANGED <<db, stripe>>

(* handle_update_role                                                      *)
UpdateRole(c, u, r, names) ==
    /\ Asked("roles") /\ IsManager(u)
    /\ Start(c, u, 0, <<[st |-> "syncRole", role |-> r, names |-> names]>>)
    /\ UNCHANGED <<db, stripe>>

(* handle_delete_role                                                      *)
DeleteRoleRequest(u, r) ==
    /\ Asked("roles") /\ IsManager(u) /\ r \in db.roles
    /\ db' = DeleteRole(db, r)
    /\ Unchanged

(* handle_assign_approver_credential                                       *)
AssignApproverCredential(c, u, v, n) ==
    /\ Asked("scopes") /\ IsManager(u) /\ GetCredential(db, n)
    /\ Start(c, u, 0, <<[st |-> "assignApprover", user |-> v, name |-> n]>>)
    /\ UNCHANGED <<db, stripe>>

(* handle_remove_approver_credential                                       *)
RemoveApproverCredential(c, u, v, n) ==
    /\ Asked("scopes") /\ IsManager(u)
    /\ Start(c, u, 0, <<[st |-> "removeApprover", user |-> v, name |-> n]>>)
    /\ UNCHANGED <<db, stripe>>

-----------------------------------------------------------------------------
(* Setups: staged from the command line, activated in the dashboard        *)

(* handle_create_credential_setup                                          *)
CreateSetup(u, n, hosts, passkey) ==
    /\ Asked("setups") /\ Room
    /\ IsManager(u) /\ ValidateCredentialName(n) /\ MoreCredentials
    /\ db' = CreateCredentialSetup(db, u, n, hosts, passkey)
    /\ Unchanged

(* handle_begin_credential_setup_activation: by who staged it.             *)
BeginActivation(u, s) ==
    /\ Asked("setups") /\ Webauthn
    /\ IsManager(u) /\ s.by = u /\ s.pending
    /\ db' = [db EXCEPT !.stepups = @ \cup {s.id}]
    /\ Unchanged

(* Faulty variant: the agents are assigned before the policy is written.   *)
ActivationAssigningFirst(s, agents) ==
    <<[st |-> "claimSetup", setup |-> s],
      NewCredential(s.name, "direct", "plain", Nobody, Nobody, s.passkey)>>
    \o <<[st |-> "assignAgents", name |-> s.name, agents |-> agents]>>
    \o (IF s.hosts = "any" THEN <<>> ELSE <<SetHosts(s.name, s.hosts)>>)
    \o (IF s.passkey THEN <<[st |-> "setPolicy", name |-> s.name, passkey |-> TRUE]>> ELSE <<>>)

(* What handle_activate_credential_setup does after its checks: claim,     *)
(* credential, hosts, policy, agents.                                      *)
Activation(s, agents) ==
    <<[st |-> "claimSetup", setup |-> s],
      NewCredential(s.name, "direct", "plain", Nobody, Nobody, s.passkey)>>
    \o (IF s.hosts = "any" THEN <<>> ELSE <<SetHosts(s.name, s.hosts)>>)
    \o (IF s.passkey THEN <<[st |-> "setPolicy", name |-> s.name, passkey |-> TRUE]>> ELSE <<>>)
    \o <<[st |-> "assignAgents", name |-> s.name, agents |-> agents]>>

(* handle_activate_credential_setup: by who staged it, with the passkey    *)
(* assertion that answers the challenge of this setup.                     *)
ActivateSetup(c, u, s, agents) ==
    /\ Asked("setups")
    /\ IsManager(u) /\ s.by = u /\ s.pending
    /\ Webauthn /\ s.id \in db.stepups
    /\ db' = [db EXCEPT !.stepups = @ \ {s.id}]
    /\ Start(c, u, s.id, Activation(s, agents))
    /\ UNCHANGED stripe

-----------------------------------------------------------------------------
(* OAuth connections: started in the dashboard or by an app, completed by  *)
(* the provider's redirect                                                 *)

(* handle_google_oauth_start_begin: a challenge for the step-up.           *)
GoogleStartBegin(u) ==
    /\ Asked("oauth") /\ Webauthn /\ IsManager(u)
    /\ db' = [db EXCEPT !.stepups = @ \cup {u}]
    /\ Unchanged

MayConnect(u, n) ==
    /\ IsManager(u) /\ ValidateCredentialName(n)
    /\ ~GetCredential(db, n) /\ MoreCredentials

(* handle_google_oauth_start: agents are only taken along with a passkey   *)
(* assertion of the person.                                                *)
GoogleOauthStart(u, n, agents) ==
    /\ Asked("oauth") /\ Room /\ MayConnect(u, n)
    /\ agents # {} => u \in db.stepups
    /\ LET d == IF agents # {} THEN [db EXCEPT !.stepups = @ \ {u}] ELSE db
       IN  db' = CreateOauthState(d, u, "google", "create", n, agents)
    /\ Unchanged

(* handle_microsoft_oauth_start: it takes no agents.                       *)
MicrosoftOauthStart(u, n) ==
    /\ Asked("oauth") /\ Room /\ MayConnect(u, n)
    /\ db' = CreateOauthState(db, u, "microsoft", "create", n, {})
    /\ Unchanged

(* handle_app_google_oauth_start, handle_app_microsoft_oauth_start: by the *)
(* key of an app, for an end-user; no limit of the tier.                   *)
IsApp(a) == db.agent[a] # Absent /\ db.agent[a].kind = "app" /\ db.agent[a].enabled

AppGoogleOauthStart(a, n) ==
    /\ Asked("apps") /\ Room
    /\ IsApp(a) /\ n \in EndUserNames /\ ~GetCredential(db, n)
    /\ db' = CreateOauthStateScoped(db, a, "google", n)
    /\ Unchanged

AppMicrosoftOauthStart(a, n) ==
    /\ Asked("apps") /\ Room
    /\ IsApp(a) /\ n \in EndUserNames /\ ~GetCredential(db, n)
    /\ db' = CreateOauthStateScoped(db, a, "microsoft", n)
    /\ Unchanged

(* handle_google_oauth_reauthorize: of a sidecar that holds a bundle.      *)
GoogleOauthReauthorize(u, n) ==
    /\ Asked("reauthorize") /\ Room /\ IsManager(u)
    /\ GetCredential(db, n) /\ db.cred[n].connector = "sidecar" /\ db.cred[n].value = "google"
    /\ db' = CreateOauthState(db, u, "google", "reauthorize", n, {})
    /\ Unchanged

(* handle_microsoft_oauth_reauthorize: of whatever holds a bundle.         *)
MicrosoftOauthReauthorize(u, n) ==
    /\ Asked("reauthorize") /\ Room /\ IsManager(u)
    /\ GetCredential(db, n) /\ db.cred[n].value = "microsoft"
    /\ db' = CreateOauthState(db, u, "microsoft", "reauthorize", n, {})
    /\ Unchanged

(* What a callback does with the tokens.  A new credential has no secret   *)
(* until its hosts are set, or failed to be (pinned); if the secret cannot *)
(* be stored (stored) the credential is deleted.                           *)
Connection(s, provider, pinned, stored) ==
    LET value == [st |-> "setValue", name |-> s.name, value |-> provider]
    IN  IF s.flow = "reauthorize" THEN IF stored THEN <<value>> ELSE <<>>
        ELSE <<NewCredential(s.name, "sidecar", "none", s.endUser, Nobody, FALSE)>>
             \o (IF pinned THEN <<SetHosts(s.name, provider)>> ELSE <<>>)
             \o (IF stored THEN <<value>> ELSE <<[st |-> "deleteCredential", name |-> s.name]>>)
             \o (IF stored /\ s.endUser = Nobody /\ s.agents # {}
                 THEN <<[st |-> "assignAgents", name |-> s.name, agents |-> s.agents]>> ELSE <<>>)

(* The state is taken before anything else; then the other provider's is   *)
(* refused, the exchange may fail, the grant may be partial.               *)
OauthCallback(c, provider, s) ==
    /\ db' = TakeOauthState(db, s)
    /\ \/ call[c] = Idle /\ UNCHANGED <<load, call>>
       \/ /\ s.provider = provider
          /\ \E pinned, stored \in BOOLEAN : Start(c, s.by, s.id, Connection(s, provider, pinned, stored))
    /\ UNCHANGED stripe

GoogleOauthCallback(c, s) ==
    (Asked("oauth") \/ Asked("apps")) /\ OauthCallback(c, "google", s)

MicrosoftOauthCallback(c, s) ==
    (Asked("oauth") \/ Asked("apps")) /\ OauthCallback(c, "microsoft", s)

(* handle_create_credential and handle_create_key of app.rs: a secret or a *)
(* signing key of an end-user, then the default policy of the app.         *)
AppCreate(c, a, n, connector, value) ==
    /\ Asked("apps") /\ Room
    /\ IsApp(a) /\ n \in EndUserNames
    /\ Start(c, a, 0, <<NewCredential(n, connector, value, n, a, FALSE),
                        [st |-> "setPolicy", name |-> n, passkey |-> FALSE]>>)
    /\ UNCHANGED <<db, stripe>>

AppCreateCredential(c, a, n) == AppCreate(c, a, n, "direct", "plain")
AppCreateKey(c, a, n) == AppCreate(c, a, n, "sidecar", "fields")

-----------------------------------------------------------------------------
(* Billing                                                                 *)

(* handle_create_checkout_session: a customer is made where there is none, *)
(* and stored by a later statement.                                        *)
CreateCheckoutSession(c, u, tier) ==
    /\ Asked("billing") /\ IsManager(u)
    /\ \/ /\ db.customer # Nobody
          /\ call[c] = Idle
          /\ stripe' = [stripe EXCEPT !.checkouts = @ \cup {<<db.customer, tier>>}]
          /\ UNCHANGED <<load, call>>
       \/ /\ db.customer = Nobody
          /\ \E k \in Customers \ stripe.customers :
                /\ stripe' = [stripe EXCEPT !.customers = @ \cup {k}, !.checkouts = @ \cup {<<k, tier>>}]
                /\ Start(c, u, 0, <<[st |-> "setCustomer", customer |-> k]>>)
    /\ UNCHANGED db

(* Stripe (external): the customer pays, changes the plan or stops paying; *)
(* each is told by an event, and what was paid for is history.             *)
StripeEvent(type, customer, tier) == [type |-> type, customer |-> customer, tier |-> tier]

Pay ==
    /\ \E k \in stripe.checkouts :
          stripe' = [stripe EXCEPT !.paid = @ \cup {k}, !.checkouts = @ \ {k},
                                   !.events = @ \cup {StripeEvent("completed", k[1], k[2])}]
    /\ UNCHANGED <<load, db, call>>

ChangePlan ==
    /\ \E k \in stripe.paid, tier \in {"starter", "pro"} :
          stripe' = [stripe EXCEPT !.paid = @ \cup {<<k[1], tier>>},
                                   !.events = @ \cup {StripeEvent("updated", k[1], tier)}]
    /\ UNCHANGED <<load, db, call>>

StopPaying ==
    /\ \E k \in stripe.paid :
          stripe' = [stripe EXCEPT !.events = @ \cup {StripeEvent("ended", k[1], "free")}]
    /\ UNCHANGED <<load, db, call>>

(* Faulty variant: whoever posts an event is believed.                     *)
AnySignature(e) == TRUE

(* verify_stripe_signature: the event is one Stripe sent.                  *)
VerifyStripeSignature(e) == e \in stripe.events

(* handle_stripe_webhook: an event may be delivered late, out of order and *)
(* again; anybody can post to the endpoint.                                *)
StripeWebhook(e) ==
    /\ Asked("billing")
    /\ VerifyStripeSignature(e)
    /\ \/ e.type = "completed" /\ db' = UpdateTeamTier(db, e.tier)
       \/ e.type = "ended" /\ GetTeamByStripeCustomer(db, e.customer) /\ db' = UpdateTeamTier(db, "free")
       \/ e.type = "updated" /\ GetTeamByStripeCustomer(db, e.customer) /\ db' = UpdateTeamTier(db, e.tier)
    /\ Unchanged

-----------------------------------------------------------------------------
(* Time and failure                                                        *)

Expire ==
    /\ \/ \E x \in db.setups : db' = [db EXCEPT !.setups = @ \ {x}]
       \/ \E x \in db.states : db' = [db EXCEPT !.states = @ \ {x}]
       \/ \E x \in db.stepups : db' = [db EXCEPT !.stepups = @ \ {x}]
    /\ Unchanged

Crash(c) ==
    /\ call[c] # Idle
    /\ call' = [call EXCEPT ![c] = Idle]
    /\ UNCHANGED <<load, db, stripe>>

-----------------------------------------------------------------------------

(* A team that has what the load says.                                     *)
InitAgent(a) ==
    IF a \notin load.agents THEN Absent
    ELSE [kind |-> IF a \in Apps THEN "app" ELSE "agent", owner |-> Nobody, enabled |-> TRUE,
          all |-> FALSE, allBy |-> Nobody]

InitCredential(n) ==
    IF n \notin DOMAIN load.creds THEN Absent
    ELSE [id |-> 0, connector |-> IF load.creds[n] \in Providers THEN "sidecar" ELSE "direct",
          hosts |-> "listed", value |-> load.creds[n], endUser |-> Nobody, app |-> Nobody,
          from |-> 0, gate |-> FALSE]

Init ==
    /\ load \in Loads
    /\ call = [c \in Callers |-> Idle]
    /\ stripe = [customers |-> {}, checkouts |-> {}, paid |-> {}, events |-> {}]
    /\ db = [cred |-> [n \in AllNames |-> InitCredential(n)],
             policy |-> [n \in AllNames |-> Absent],
             agent |-> [a \in AgentIds |-> InitAgent(a)],
             roles |-> {}, roleCred |-> {}, agentRole |-> {}, direct |-> {}, approver |-> {},
             setups |-> {}, states |-> {}, stepups |-> {},
             tier |-> load.tier, customer |-> Nobody,
             made |-> {}, next |-> 1]

Next ==
    \/ \E c \in Callers : RunStatement(c) \/ Crash(c)
    \/ \E c \in Callers, u \in Users, n \in load.names :
          \/ CreateCredentialRequest(c, u, n) \/ PatchCredential(c, u, n) \/ UpdateCredentialSecret(c, u, n)
          \/ \E v \in Approvers : AssignApproverCredential(c, u, v, n) \/ RemoveApproverCredential(c, u, v, n)
    \/ \E u \in Users, n \in load.names :
          \/ DeleteCredentialRequest(u, n)
          \/ \E hosts \in {"any", "listed"}, passkey \in BOOLEAN : CreateSetup(u, n, hosts, passkey)
          \/ \E agents \in SUBSET load.who : GoogleOauthStart(u, n, agents)
          \/ MicrosoftOauthStart(u, n) \/ GoogleOauthReauthorize(u, n) \/ MicrosoftOauthReauthorize(u, n)
    \/ \E c \in Callers, u \in Users, a \in load.who, names \in SUBSET load.names, roles \in SUBSET RoleNames :
          \/ \E all \in BOOLEAN : CreateAgentRequest(c, u, a, all, names, roles)
          \/ \E all \in {"yes", "no", Keep} : UpdateAgentRequest(c, u, a, all, names, roles)
    \/ \E c \in Callers, u \in Users, a \in load.who :
          DeleteAgentRequest(c, u, a) \/ EnableAgent(c, u, a) \/ DisableAgent(c, u, a)
    \/ \E c \in Callers, u \in Users, r \in RoleNames, names \in SUBSET load.names :
          CreateRoleRequest(c, u, r, names) \/ UpdateRole(c, u, r, names)
    \/ \E u \in Users, r \in RoleNames : DeleteRoleRequest(u, r)
    \/ \E u \in Users : GoogleStartBegin(u)
    \/ \E u \in Users, s \in db.setups : BeginActivation(u, s)
    \/ \E c \in Callers, u \in Users, s \in db.setups, agents \in SUBSET load.who : ActivateSetup(c, u, s, agents)
    \/ \E c \in Callers, s \in db.states : GoogleOauthCallback(c, s) \/ MicrosoftOauthCallback(c, s)
    \/ \E c \in Callers, u \in Users, a \in Apps : CreateApp(c, u, a)
    \/ \E a \in Apps, n \in load.names : AppGoogleOauthStart(a, n) \/ AppMicrosoftOauthStart(a, n)
    \/ \E c \in Callers, a \in Apps, n \in load.names : AppCreateCredential(c, a, n) \/ AppCreateKey(c, a, n)
    \/ \E c \in Callers, u \in Users, tier \in {"starter", "pro"} : CreateCheckoutSession(c, u, tier)
    \/ Pay \/ ChangePlan \/ StopPaying
    \/ \E type \in {"completed", "updated", "ended"}, k \in Customers, tier \in Tiers :
          StripeWebhook(StripeEvent(type, k, tier))
    \/ Expire

Spec == Init /\ [][Next]_vars

-----------------------------------------------------------------------------
(* Properties                                                              *)

(* The shape of the rows, and the foreign keys of store.rs: agents with a  *)
(* credential or a role, and roles with a credential, exist.               *)
TypeOK ==
    /\ db.tier \in Tiers /\ db.customer \in Customers \cup {Nobody}
    /\ db.roles \subseteq RoleNames
    /\ \A n \in ListCredentials(db) :
          db.cred[n].hosts \in Hosts /\ db.cred[n].value \in Values
    /\ \A r \in db.direct : db.agent[r.agent] # Absent
    /\ \A r \in db.agentRole : db.agent[r.agent] # Absent /\ r.role \in db.roles
    /\ \A r \in db.roleCred : r.role \in db.roles

(* A credential made under the name of a deleted one starts bare: agents,  *)
(* roles, scopes and the policy that name something named that credential, *)
(* not the one before it (ON DELETE CASCADE of store.rs), whatever was     *)
(* under way when it was deleted.                                          *)
NamesakesStartBare ==
    /\ \A r \in db.direct \cup db.roleCred \cup db.approver :
          GetCredential(db, r.name) /\ r.id = db.cred[r.name].id
    /\ \A n \in AllNames : db.policy[n] # Absent => GetCredential(db, n) /\ db.policy[n].id = db.cred[n].id

(* What an agent may use directly was given to it by a manager, or by an   *)
(* approver in whose scope a credential of that name was when its request  *)
(* was checked, and only a manager makes an account key                    *)
(* (validate_approver_agent_scope and the checks around it), whatever else *)
(* was served meanwhile.  What became of that scope, of the credential and *)
(* of the agent since the check is not asked, for the insert compares      *)
(* nothing (handle_create_agent): "Assigned credentials are the only       *)
(* credentials that approver can ... attach to API keys" (team.mdx:29) and *)
(* "Approvers can create keys only for themselves" (proxy-api.mdx:783) do  *)
(* not hold when a manager removes the scope, or somebody makes the        *)
(* credential or the key anew, in between.                                 *)
ApproversStayInScope ==
    /\ \A r \in db.direct : r.by \in Approvers => r.name \in r.scope
    /\ \A a \in ListAgents(db) : db.agent[a].all => db.agent[a].allBy \in Managers

(* A setup or an OAuth state makes one credential, however often and on    *)
(* however many instances its link is followed                             *)
(* (activate_credential_setup, take_oauth_state).                          *)
OneCredentialEach == \A x, y \in db.made : x[1] = y[1] => x = y

(* The agents an activation assigns to the credential it made find the     *)
(* policy that gates it behind a passkey in place                          *)
(* (handle_activate_credential_setup).                                     *)
GateBeforeAccess ==
    \A r \in db.direct :
        LET row == db.cred[r.name] IN
        r.from # 0 /\ r.from = row.from /\ row.gate => db.policy[r.name] # Absent /\ db.policy[r.name].passkey

(* The names of end-user credentials are out of reach of the dashboard:    *)
(* a row under such a name belongs to its end-user, and no other row does  *)
(* (validate_credential_name on every way a member can create one).        *)
EndUserNamesAreBound ==
    \A n \in ListCredentials(db) : db.cred[n].endUser = IF n \in EndUserNames THEN n ELSE Nobody

(* A paid tier was paid for: by a checkout or plan change Stripe told of,  *)
(* whatever the order and the number of deliveries (handle_stripe_webhook).*)
PaidTierWasPaid == db.tier # load.tier /\ db.tier # "free" => \E k \in stripe.paid : k[2] = db.tier

(* A name means one credential at a time: the foreign keys of TypeOK,      *)
(* NamesakesStartBare and EndUserNamesAreBound.                            *)
NamesAreBound == TypeOK /\ NamesakesStartBare /\ EndUserNamesAreBound

(* What comes back from outside counts once and for what it is: links of   *)
(* setups and OAuth states (OneCredentialEach), the gate a setup came with *)
(* (GateBeforeAccess), events of Stripe (PaidTierWasPaid).                 *)
CallbacksAreEarned == OneCredentialEach /\ GateBeforeAccess /\ PaidTierWasPaid
===============================================================================
