------------------------------ MODULE Admission ------------------------------
(***************************************************************************)
(* A request of an agent from its keys to the upstream's answer            *)
(* (handle_forward, with a credential or with placeholders, and            *)
(* handle_sign of tap-proxy/src/proxy.rs), and the relay's heartbeat that  *)
(* some requests depend on (handle_relay_heartbeat).  Every access to the  *)
(* database is a step of its own, so that credentials and policies may be  *)
(* edited, windows end and leases lapse between any two.  How a person     *)
(* decides is ApprovalFlow's subject, and how grants are made that of      *)
(* Grants; here there is only the decision, and the uses that are left.    *)
(***************************************************************************)
EXTENDS Routing

CONSTANTS
    Calls,        \* requests
    Loads,        \* bound of the model: what is stored and what is asked
    WindowLength, \* of the rate limit: one hour
    RelayTtl,     \* a lease without a heartbeat: forty-five seconds
    MaxTime,      \* bound of the model's clock
    Anyone        \* a channel that restricts nobody

ASSUME AdmissionAssumption ==
    /\ WindowLength \in Nat \ {0} /\ RelayTtl \in Nat /\ MaxTime \in Nat
    /\ IsFiniteSet(Calls)

Kinds == {"forward", "legacy", "sign", "relay"}

(* Every row that is stored under a name, sooner or later.                 *)
Stored(l) ==
    {x \in {<<k, l.creds[k]>> : k \in DOMAIN l.creds} \cup {<<e.key, e.cred>> : e \in l.edits} :
        x[2] # NoValue}

IsList(list) == Len(list) \in Nat /\ DOMAIN list = 1 .. Len(list)

(* What is asked and configured is of these shapes; a member has one row   *)
(* of the team, under one address, and is linked as somebody.              *)
ASSUME LoadAssumption ==
    \A l \in Loads :
        /\ l.until \in 0 .. MaxTime /\ l.uses \in Nat
        /\ NoOne \notin DOMAIN l.agents
        /\ \A a \in DOMAIN l.agents :
               /\ l.agents[a].limit \in Nat
               /\ l.agents[a].team \in DOMAIN l.channels \cap DOMAIN l.members
        /\ \A req \in l.requests : req.kind \in Kinds /\ IsList(req.keys) /\ IsList(req.refs)
        /\ \A t \in DOMAIN l.channels : IsList(l.channels[t])
        /\ \A t \in DOMAIN l.members : \A m, n \in l.members[t] :
               /\ m.email = n.email => m = n
               /\ Anyone \notin {m["telegram"], m["matrix"]}
        /\ \A k \in DOMAIN l.policies : k[2] # << >>

(* A credential is stored for a team under a name; the name of an end-     *)
(* user's is prefixed, so that what is under one name is of one owner.  An *)
(* id stands for what is stored under one name, though the same text may   *)
(* be stored under another.  Google's bundles come from Google.            *)
ASSUME StoredAssumption ==
    \A l \in Loads :
        /\ \A k \in DOMAIN l.creds : k = <<k[1], k[2]>>
        /\ \A x \in Stored(l) : Len(x[1][2]) = 1 => x[2].owner = NoOne
        /\ \A x, y \in Stored(l) : x[1] = y[1] => x[2].owner = y[2].owner
        /\ \A x, y \in Stored(l) :
               /\ x[2].value # NoValue /\ y[2].value # NoValue
               /\ x[2].value.id = y[2].value.id
               => x[1] = y[1]
        /\ \A x \in Stored(l) :
               /\ ParsesAs(x[2].value, "google") /\ ~ParsesAs(x[2].value, "microsoft")
               => x[2].value.issuer = "google"

VARIABLES
    load,         \* what is stored and asked in this behaviour
    clock,
    creds,        \* <<team, name>> -> the row of credentials, or NoValue
    policies,     \* <<team, name>> -> the row of policies
    edits,        \* edits a manager has still to make
    uses,         \* uses left of the credentials' one grant
    endUsers,     \* <<team, external id>> known to the end_users table
    counters,     \* agent -> window -> the row of rate_limit_counters
    relays,       \* <<team, name>> -> the row of relay_sessions
    leases,       \* every lease that was granted (history)
    authfile,     \* what the relay server admits, and of when
    calls         \* what each request holds

vars == <<load, clock, creds, policies, edits, uses, endUsers, counters, relays,
          leases, authfile, calls>>

Shared == <<load, clock, creds, policies, edits, uses, endUsers, counters, relays,
            leases, authfile>>

Windows == 0 .. MaxTime \div WindowLength

NoLease == [holder |-> NoOne, beat |-> 0]

Fresh == [at |-> "idle", req |-> NoValue, agents |-> << >>, by |-> NoOne, name |-> << >>,
          configs |-> << >>, held |-> << >>, cred |-> NoValue, value |-> NoValue,
          window |-> 0, counted |-> FALSE, late |-> FALSE, leased |-> FALSE,
          route |-> Route("none", "none", NoHost, NoUrl, {}),
          policy |-> NoPolicy, failed |-> FALSE, reason |-> "none", grant |-> FALSE,
          guard |-> NoValue, asked |-> NoValue, verdict |-> "none", token |-> NoOne,
          sent |-> {}, response |-> NoValue, answer |-> {}, audit |-> "none",
          signed |-> FALSE, live |-> {}, asOf |-> 0]

Init ==
    /\ load \in Loads
    /\ clock = 0
    /\ creds = load.creds
    /\ policies = load.policies
    /\ edits = load.edits
    /\ uses = load.uses
    /\ endUsers = {}
    /\ counters = [a \in DOMAIN load.agents |-> [w \in Windows |-> 0]]
    /\ relays = [k \in DOMAIN load.creds |-> NoLease]
    /\ leases = {}
    /\ authfile = [sessions |-> {}, asOf |-> 0]
    /\ calls = [c \in Calls |-> Fresh]

At(c, stage) == calls[c].at = stage

Takes(c, record) == calls' = [calls EXCEPT ![c] = record]

(* An early return: whatever the answer says, nothing more happens.        *)
Refuse(c) == calls' = [calls EXCEPT ![c].at = "done"]

Kind(c) == calls[c].req.kind

(* Whether a call fails, where the load has such failures.                 *)
May(fault) == {FALSE} \cup {x \in {TRUE} : fault \in load.faults}

-----------------------------------------------------------------------------
(* The environment                                                         *)

Receive(c, req) ==
    /\ At(c, "idle")
    /\ Cardinality({d \in Calls : calls[d].at # "idle"}) < load.calls
    /\ Takes(c, [Fresh EXCEPT !.at = "auth", !.req = req])
    /\ UNCHANGED Shared

(* A credential is replaced by a namesake, or its policy is changed.       *)
Edit(e) ==
    /\ e \in edits
    /\ edits' = edits \ {e}
    /\ creds' = [creds EXCEPT ![e.key] = e.cred]
    /\ policies' = [policies EXCEPT ![e.key] = e.policy]
    /\ UNCHANGED <<load, clock, uses, endUsers, counters, relays, leases, authfile, calls>>

Tick ==
    /\ clock < load.until
    /\ clock' = clock + 1
    /\ UNCHANGED <<load, creds, policies, edits, uses, endUsers, counters, relays,
                   leases, authfile, calls>>

-----------------------------------------------------------------------------
(* Who asks                                                                *)

Valid(key) == key \in DOMAIN load.agents /\ load.agents[key].enabled

(* Every key of the header that is valid; the first is the primary one.    *)
ValidKeys(c) == Sifted(calls[c].req.keys, Valid)

Primary(c) == First(calls[c].agents)
Agent(c) == load.agents[Primary(c)]

AsAgents(c, stage) ==
    Takes(c, [calls[c] EXCEPT !.at = stage, !.agents = ValidKeys(c),
                              !.window = clock \div WindowLength])

(* The bearer of an MCP connection stands for its agent's key.  A header   *)
(* of the X-TAP family that is not known ends the request here.            *)
Authenticate(c) ==
    /\ At(c, "auth") /\ Kind(c) \in {"forward", "legacy"}
    /\ IF DOMAIN ValidKeys(c) = {} \/ calls[c].req.flaw = "header" THEN Refuse(c)
       ELSE AsAgents(c, "count")
    /\ UNCHANGED Shared

(* For a signature the end-user and the body are looked at here as well.   *)
AuthenticateSigner(c) ==
    /\ At(c, "auth") /\ Kind(c) = "sign"
    /\ IF DOMAIN ValidKeys(c) = {} \/ calls[c].req.flaw # "none" THEN Refuse(c)
       ELSE AsAgents(c, "serve")
    /\ UNCHANGED Shared

AuthenticateAgentFromHeaders(c) ==
    /\ At(c, "auth") /\ Kind(c) = "relay"
    /\ IF DOMAIN ValidKeys(c) = {} THEN Refuse(c) ELSE AsAgents(c, "relay_config")
    /\ UNCHANGED Shared

-----------------------------------------------------------------------------
(* The rate limit                                                          *)

(* Faulty variant: every other window is pruned, the next one too.         *)
IncrementKeepingOne(agent, window) ==
    counters' = [counters EXCEPT ![agent] = [w \in Windows |->
        IF w = window THEN @[w] + 1 ELSE 0]]

(* The upsert returns the new count; windows that have passed are pruned.  *)
IncrementRateCounter(agent, window) ==
    counters' = [counters EXCEPT ![agent] = [w \in Windows |->
        IF w = window THEN @[w] + 1 ELSE IF w < window THEN 0 ELSE @[w]]]

CheckRateLimit(count, limit) == count < limit

(* Only POST /forward is counted.  A target is looked for after that, and  *)
(* so is the end-user, whose name may not be blank.                        *)
AfterCount(c) ==
    IF calls[c].req.flaw # "none" THEN "done"
    ELSE IF Kind(c) = "legacy" THEN "parse" ELSE "serve"

RateLimit(c) ==
    LET agent == Primary(c)
        window == calls[c].window
        limit == load.agents[agent].limit
        count == counters[agent][window] + 1
    IN  /\ At(c, "count")
        /\ \/ /\ limit # 0
              /\ IncrementRateCounter(agent, window)
              /\ Takes(c, IF CheckRateLimit(count, limit)
                          THEN [calls[c] EXCEPT !.at = AfterCount(c), !.counted = TRUE,
                                    !.late = \E w \in Windows : w > window /\ counters[agent][w] > 0]
                          ELSE [calls[c] EXCEPT !.at = "done"])
           \/ \* no limit, or the counter failed: the request goes on
              /\ limit = 0 \/ "count" \in load.faults
              /\ Takes(c, [calls[c] EXCEPT !.at = AfterCount(c)])
              /\ UNCHANGED counters
        /\ UNCHANGED <<load, clock, creds, policies, edits, uses, endUsers, relays, leases, authfile>>

-----------------------------------------------------------------------------
(* Which key serves it, and with which credential                          *)

Exists(key) == key \in DOMAIN creds /\ creds[key] # NoValue

(* An account key serves what its own team holds, another what it lists.   *)
MayUse(agent, name) ==
    IF load.agents[agent].all THEN Exists(<<load.agents[agent].team, name>>)
    ELSE name \in load.agents[agent].list

Serves(agent, name, endUser) ==
    IF endUser # NoOne THEN load.agents[agent].app ELSE MayUse(agent, name)

(* The first of the keys that does, or none.                               *)
FirstServing(keys, name, endUser) ==
    LET found == {i \in DOMAIN keys : Serves(keys[i], name, endUser)} IN
        IF found = {} THEN NoOne
        ELSE keys[CHOOSE i \in found : \A j \in found : i <= j]

UpsertEndUser(team, ext) ==
    endUsers' = IF ext = NoOne THEN endUsers ELSE endUsers \cup {<<team, ext>>}

EffectiveName(req) ==
    IF req.endUser = NoOne THEN req.cred ELSE EndUserCredName(req.endUser, req.cred)

ServeWith(c, agent) ==
    IF agent = NoOne THEN Refuse(c) /\ UNCHANGED endUsers
    ELSE /\ UpsertEndUser(load.agents[agent].team, calls[c].req.endUser)
         /\ Takes(c, [calls[c] EXCEPT !.at = "config", !.by = agent,
                                      !.name = EffectiveName(calls[c].req)])

FindServingAgent(c) ==
    /\ At(c, "serve") /\ Kind(c) = "forward"
    /\ ServeWith(c, FirstServing(calls[c].agents, calls[c].req.cred, calls[c].req.endUser))
    /\ UNCHANGED <<load, clock, creds, policies, edits, uses, counters, relays, leases, authfile>>

FindSigningAgent(c) ==
    /\ At(c, "serve") /\ Kind(c) = "sign"
    /\ ServeWith(c, FirstServing(calls[c].agents, calls[c].req.cred, calls[c].req.endUser))
    /\ UNCHANGED <<load, clock, creds, policies, edits, uses, counters, relays, leases, authfile>>

Team(c) == load.agents[calls[c].by].team
Key(c) == <<Team(c), calls[c].name>>

(* Faulty variant: only a request that names an end-user is checked.       *)
OwnerMatchesIfNamed(cred, endUser) == endUser # NoOne => cred.owner = endUser

(* The one equality that separates end-users from each other and from the  *)
(* team.                                                                   *)
OwnerMatches(cred, endUser) == cred.owner = endUser

OwnConfig(c) == Exists(Key(c)) /\ OwnerMatches(creds[Key(c)], calls[c].req.endUser)

ReadConfig(c) ==
    /\ At(c, "config") /\ Kind(c) = "forward"
    /\ IF OwnConfig(c) THEN Takes(c, [calls[c] EXCEPT !.at = "value", !.cred = creds[Key(c)]])
       ELSE Refuse(c)
    /\ UNCHANGED Shared

ReadSigningConfig(c) ==
    /\ At(c, "config") /\ Kind(c) = "sign"
    /\ IF OwnConfig(c) THEN Takes(c, [calls[c] EXCEPT !.at = "value", !.cred = creds[Key(c)]])
       ELSE Refuse(c)
    /\ UNCHANGED Shared

StoredValue(key) == IF Exists(key) THEN creds[key].value ELSE NoValue

UsesRelay(cred) == load.relay /\ cred.connector = "sidecar" /\ cred.base = "telegram"

(* The value, the guard on the target, and the route.                      *)
ReadValue(c) ==
    LET req == calls[c].req
        cred == calls[c].cred
        value == StoredValue(Key(c))
        route == ResolveUnifiedRoute(cred, value, req.target, req.method, req.mode)
    IN  /\ At(c, "value") /\ Kind(c) = "forward"
        /\ IF \/ ~cred.relative /\ ~ValidatePublicTarget(req.target)
              \/ route.error # "none" \/ route.to = NoHost
           THEN Refuse(c)
           ELSE Takes(c, [calls[c] EXCEPT !.at = IF UsesRelay(cred) THEN "relay" ELSE "policy",
                                          !.value = value, !.route = route])
        /\ UNCHANGED Shared

ReadSigningValue(c) ==
    LET value == StoredValue(Key(c)) IN
        /\ At(c, "value") /\ Kind(c) = "sign"
        /\ IF ParsesAs(value, "signing")
           THEN Takes(c, [calls[c] EXCEPT !.at = "policy", !.value = value])
           ELSE Refuse(c)
        /\ UNCHANGED Shared

-----------------------------------------------------------------------------
(* Placeholders                                                            *)

(* What a key may refer to: its list, or all that its team owns.           *)
AgentListingCredentials(agent) ==
    LET a == load.agents[agent] IN
        {k \in DOMAIN creds : /\ k[1] = a.team /\ Exists(k)
                              /\ IF a.all THEN creds[k].owner = NoOne ELSE k[2] \in a.list}

(* One map for all the keys: a later key's team overwrites an earlier's.   *)
ConfigsFor(keys) ==
    LET Lists(i, n) == \E k \in AgentListingCredentials(keys[i]) : k[2] = n
        names == {k[2] : k \in UNION {AgentListingCredentials(keys[i]) : i \in DOMAIN keys}}
        last(n) == CHOOSE i \in DOMAIN keys :
                       Lists(i, n) /\ \A j \in DOMAIN keys : Lists(j, n) => j <= i
    IN  [n \in names |-> creds[<<load.agents[keys[last(n)]].team, n>>]]

CredNames(req) ==
    LET refs == Placeholders(req.refs) IN
        IF DOMAIN refs = {} /\ req.oauth # NoOne THEN <<req.oauth>>
        ELSE [i \in DOMAIN refs |-> refs[i].cred]

ParseRequest(c) ==
    LET configs == ConfigsFor(calls[c].agents) IN
        /\ At(c, "parse")
        /\ IF ParsePlaceholders(Placeholders(calls[c].req.refs), calls[c].req.ctype, configs)
           THEN Takes(c, [calls[c] EXCEPT !.at = "serve", !.configs = configs])
           ELSE Refuse(c)
        /\ UNCHANGED Shared

(* Each name is looked up among the keys in order; the binding of hosts is *)
(* that of the map above.                                                  *)
FindOwningAgents(c) ==
    LET req == calls[c].req
        names == {CredNames(req)[i] : i \in DOMAIN CredNames(req)}
        owner == [n \in names |-> FirstServing(calls[c].agents, n, NoOne)]
        configs == calls[c].configs
    IN  /\ At(c, "serve") /\ Kind(c) = "legacy"
        /\ IF \/ \E n \in names : owner[n] = NoOne
              \/ ~ValidatePublicTarget(req.target)
              \/ \E n \in names \cap DOMAIN configs : ~HostBindingAllows(configs[n], req.target)
           THEN Refuse(c)
           ELSE Takes(c, [calls[c] EXCEPT !.at = "value",
                    !.held = [n \in names |-> <<load.agents[owner[n]].team, n>>]])
        /\ UNCHANGED Shared

ReadValues(c) ==
    LET held == calls[c].held
        names == CredNames(calls[c].req)
    IN  /\ At(c, "value") /\ Kind(c) = "legacy"
        /\ IF \E n \in DOMAIN held : StoredValue(held[n]) = NoValue
           THEN Refuse(c)
           ELSE Takes(c, [calls[c] EXCEPT !.at = "policy",
                    !.name = IF DOMAIN names = {} THEN << >> ELSE First(names),
                    !.held = [n \in DOMAIN held |-> [key |-> held[n], value |-> StoredValue(held[n])]],
                    !.route = Route("none", "direct", calls[c].req.target.host,
                                    calls[c].req.target, {})])
        /\ UNCHANGED Shared

-----------------------------------------------------------------------------
(* The relay                                                               *)

(* Faulty variant: one session for all the end-users of a team.            *)
SessionOfTeam(team, name) == <<team, <<name[Len(name)]>>>>

SessionKey(team, name) == <<team, name>>

Live(lease) == lease.holder # NoOne /\ clock - lease.beat <= RelayTtl

LiveRelayHolder(session) ==
    IF session \in DOMAIN relays /\ Live(relays[session]) THEN relays[session].holder ELSE NoOne

(* A credential of the relay fails closed without one.                     *)
RelayGate(c) ==
    /\ At(c, "relay")
    /\ IF LiveRelayHolder(SessionKey(Team(c), calls[c].name)) # NoOne
       THEN Takes(c, [calls[c] EXCEPT !.at = "policy", !.leased = TRUE, !.asOf = clock])
       ELSE Refuse(c)
    /\ UNCHANGED Shared

(* The heartbeat: who may learn the password of a credential's relay.      *)
RelayConfig(c) ==
    LET req == calls[c].req
        agent == Primary(c)
        a == load.agents[agent]
        name == EffectiveName(req)
        cred == creds[<<a.team, name>>]
    IN  /\ At(c, "relay_config")
        /\ IF /\ Exists(<<a.team, name>>)
              /\ IF req.endUser # NoOne THEN a.app /\ cred.owner = req.endUser
                 ELSE cred.owner = NoOne /\ (a.all \/ req.cred \in a.list)
              /\ UsesRelay(cred)
           THEN Takes(c, [calls[c] EXCEPT !.at = "claim", !.by = agent, !.name = name,
                                          !.cred = cred])
           ELSE Refuse(c)
        /\ UNCHANGED Shared

(* Faulty variant: a lease is taken over as soon as another asks for it.   *)
MayTakeAnyLease(lease, agent) == TRUE

MayTakeLease(lease, agent) ==
    lease.holder \in {NoOne, agent} \/ clock - lease.beat > RelayTtl

ClaimRelaySession(c) ==
    LET session == SessionKey(Team(c), calls[c].name) IN
        /\ At(c, "claim")
        /\ IF MayTakeLease(relays[session], calls[c].by)
           THEN /\ relays' = [relays EXCEPT ![session] = [holder |-> calls[c].by, beat |-> clock]]
                /\ leases' = leases \cup {[session |-> session, holder |-> calls[c].by,
                                           key |-> Key(c), at |-> clock]}
                /\ Takes(c, [calls[c] EXCEPT !.at = "list", !.leased = TRUE])
           ELSE Refuse(c) /\ UNCHANGED <<relays, leases>>
        /\ UNCHANGED <<load, clock, creds, policies, edits, uses, endUsers, counters, authfile>>

(* Faulty variant: sessions that stopped beating are listed too.           *)
ListRelaySessions == {s \in DOMAIN relays : relays[s].holder # NoOne}

ListLiveRelaySessions == {s \in DOMAIN relays : Live(relays[s])}

ListSessions(c) ==
    /\ At(c, "list")
    /\ Takes(c, [calls[c] EXCEPT !.at = "project", !.live = ListLiveRelaySessions,
                                 !.asOf = clock])
    /\ UNCHANGED Shared

(* The file is written anew each time, with what was listed; a failure is  *)
(* left for the next heartbeat.                                            *)
WriteAuthfile(c) ==
    /\ At(c, "project")
    /\ \/ authfile' = [sessions |-> calls[c].live, asOf |-> calls[c].asOf]
       \/ "authfile" \in load.faults /\ UNCHANGED authfile
    /\ Refuse(c)
    /\ UNCHANGED <<load, clock, creds, policies, edits, uses, endUsers, counters, relays, leases>>

-----------------------------------------------------------------------------
(* The policy                                                              *)

PolicyKey(c) ==
    IF Kind(c) # "legacy" THEN Key(c)
    ELSE IF DOMAIN calls[c].held = {} THEN <<Agent(c).team, << >>>>
    ELSE calls[c].held[calls[c].name].key

PolicyOf(key) == IF key \in DOMAIN policies THEN policies[key] ELSE NoPolicy

AfterPolicy(c, call) ==
    IF Kind(c) # "sign" THEN [call EXCEPT !.at = "mode"]
    ELSE LET guard == PreimageGuard(call.value, call.req.payload, call.req.pre) IN
             [call EXCEPT !.guard = guard, !.at = IF guard.error = "none" THEN "ask" ELSE "done"]

(* A lookup that fails is taken for "no policy".                           *)
ReadPolicy(c) ==
    /\ At(c, "policy")
    /\ \/ Takes(c, AfterPolicy(c, [calls[c] EXCEPT !.policy = PolicyOf(PolicyKey(c))]))
       \/ /\ "policy" \in load.faults
          /\ Takes(c, AfterPolicy(c, [calls[c] EXCEPT !.failed = TRUE]))
    /\ UNCHANGED Shared

(* Faulty variant: a URL that must be approved does not stop a grant.      *)
GrantEligibleUnlessPasskey(policy, reason) == ~(policy # NoPolicy /\ policy.passkey)

(* "A grant is an auto-approve rule with a TTL, so it must never override  *)
(* that gate".                                                             *)
GrantEligible(policy, reason) ==
    /\ ~(policy # NoPolicy /\ policy.passkey)
    /\ reason # "require_approval_url"

(* get_team_default_approval_mode fails safe; then the policy is evaluated.*)
Evaluate(c) ==
    /\ At(c, "mode")
    /\ \E noMode \in May("mode") :
           LET call == calls[c]
               mode == IF noMode THEN "gated" ELSE load.modes[PolicyKey(c)[1]]
               reason == EvaluatePolicyWithDefault(call.req.method, call.policy, call.route.shown, mode)
           IN  Takes(c, [call EXCEPT !.reason = reason,
                   !.at = IF reason \in AutoApproveReasons THEN "exchange"
                          ELSE IF GrantEligible(call.policy, reason) THEN "grant" ELSE "ask"])
    /\ UNCHANGED Shared

GrantCovers(c) ==
    /\ load.grant # NoValue /\ load.grant.key = PolicyKey(c)
    /\ calls[c].req.method \in load.grant.methods
    /\ \E p \in load.grant.scope : GrantScopeCoversUrl(calls[c].route.shown, p)

(* Faulty variant: the uses are not counted down to none.                  *)
UsesUnchecked == TRUE

UsesLeft == uses > 0

ClaimGrant(c) ==
    /\ At(c, "grant")
    /\ IF GrantCovers(c) /\ UsesLeft
       THEN /\ uses' = uses - 1
            /\ Takes(c, [calls[c] EXCEPT !.at = "exchange", !.grant = TRUE])
       ELSE Takes(c, [calls[c] EXCEPT !.at = "ask"]) /\ UNCHANGED uses
    /\ UNCHANGED <<load, clock, creds, policies, edits, endUsers, counters, relays, leases, authfile>>

-----------------------------------------------------------------------------
(* Asking a human: the channel and who may answer there                    *)

(* The policy's routing; a policy that says nothing of approvals has none. *)
RowToRouting(row) ==
    IF \/ row = NoPolicy
       \/ /\ row.approvers = {} /\ row.channel = "none" /\ row.place = "none"
          /\ row.matrixApprovers = {} /\ ~row.passkey /\ row.min <= 1
    THEN NoValue
    ELSE [channel |-> row.channel, approvers |-> row.approvers, chat |-> row.place = "chat",
          matrix |-> row.place = "room" \/ row.matrixApprovers # {}, room |-> row.place = "room",
          matrixApprovers |-> row.matrixApprovers]

BlankRouting ==
    [channel |-> "none", approvers |-> {}, chat |-> FALSE, matrix |-> FALSE, room |-> FALSE,
     matrixApprovers |-> {}]

RoomOfTeam(rows) == \E i \in DOMAIN rows : rows[i].enabled /\ rows[i].type = "matrix" /\ rows[i].place

(* What the policy itself asks for, if this deployment has it.             *)
HintedChannel(routing, rows) ==
    IF routing = NoValue THEN "none"
    ELSE IF routing.channel = "dashboard" THEN "dashboard"
    ELSE IF routing.channel \in {"agent_reflected", "app"} THEN "agent_reflected"
    ELSE IF routing.channel = "telegram" /\ "telegram" \in load.wired THEN "telegram"
    ELSE IF /\ routing.channel = "matrix" \/ (routing.channel = "none" /\ routing.matrix)
            /\ "matrix" \in load.wired
            /\ routing.room \/ RoomOfTeam(rows)
    THEN "matrix"
    ELSE IF routing.channel = "none" /\ routing.chat /\ "telegram" \in load.wired THEN "telegram"
    ELSE "none"

(* The first of the team's rows that can be used.                          *)
UsableRows(rows) ==
    {i \in DOMAIN rows :
        /\ rows[i].enabled
        /\ rows[i].type = "telegram" => "telegram" \in load.wired
        /\ rows[i].type = "matrix" => "matrix" \in load.wired /\ rows[i].place}

TeamChannel(rows) ==
    LET usable == UsableRows(rows) IN
        IF usable = {} THEN "agent_reflected"
        ELSE rows[CHOOSE i \in usable : \A j \in usable : i <= j].type

(* Faulty variant: the order of the team's rows decides.                   *)
ResolveByTeamRows(routing, rows) == TeamChannel(rows)

ResolveApprovalChannel(routing, rows) ==
    IF HintedChannel(routing, rows) # "none" THEN HintedChannel(routing, rows)
    ELSE TeamChannel(rows)

ChannelForEndUser(channel, endUser) ==
    IF endUser = NoOne THEN channel ELSE "agent_reflected"

DefaultChat(rows) == \E i \in DOMAIN rows : rows[i].enabled /\ rows[i].type = "telegram" /\ rows[i].place

(* The team's default chat and the room that was found are spliced in.     *)
SplicedRouting(routing, rows, resolved, channel) ==
    LET base == IF routing = NoValue THEN BlankRouting ELSE routing
        chat == channel = "telegram" /\ ~base.chat /\ DefaultChat(rows)
        room == resolved = "matrix" /\ ~base.matrix
    IN  IF routing = NoValue /\ ~chat /\ ~(resolved = "matrix") THEN NoValue
        ELSE [base EXCEPT !.chat = @ \/ chat, !.matrix = @ \/ room]

MayDecide(member, name) == member.role \in {"owner", "admin"} \/ name \in member.assigned

(* Faulty variant: a member the policy names need not be assigned.         *)
NamedMembers(named, team, name) ==
    {m.email : m \in {x \in load.members[team] : named = {} \/ x.email \in named}}

(* The members the policy names, or all, who may decide on the credential. *)
EffectiveApprovers(named, team, name) ==
    IF name = << >> THEN named
    ELSE {m.email : m \in {x \in load.members[team] :
             (named = {} \/ x.email \in named) /\ MayDecide(x, name)}}

(* The ids on the platforms of those who are members and have linked one.  *)
ResolveApprovers(emails, team, platform) ==
    {m[platform] : m \in {x \in load.members[team] : x.email \in emails}} \ {NoOne}

(* Who may answer in the channel: an empty list restricts nobody.          *)
AllowedIn(channel, routing, emails, unread, team) ==
    LET telegram == ResolveApprovers(emails \ unread, team, "telegram")
        matrix == IF routing.matrixApprovers = {}
                  THEN ResolveApprovers(emails \ unread, team, "matrix")
                  ELSE ResolveApprovers(routing.matrixApprovers \ unread, team, "matrix")
        ids == IF channel = "matrix" /\ routing.matrix /\ matrix # {} THEN matrix ELSE telegram
    IN  IF channel \notin {"telegram", "matrix"} \/ ids = {} THEN {Anyone} ELSE ids

(* Members of whom something could not be read.                            *)
Unread(team) ==
    {{}} \cup {u \in SUBSET {m.email : m \in load.members[team]} : "people" \in load.faults}

(* A failed listing of the team's rows means the default channel; a failed *)
(* listing of its members, the policy's list as it stands; and a person    *)
(* whose assignments or linked ids cannot be read is left out.             *)
SendApprovalRequest(c, endUser, shown) ==
    LET call == calls[c]
        team == PolicyKey(c)[1]
        routing == RowToRouting(call.policy)
        named == IF routing = NoValue THEN {} ELSE routing.approvers
    IN  \E noRows \in May("rows"), noMembers \in May("members"), lost \in May("send") :
            LET rows == load.channels[team]
                resolved == IF noRows THEN "agent_reflected"
                            ELSE ResolveApprovalChannel(routing, rows)
                channel == ChannelForEndUser(resolved, endUser)
                spliced == SplicedRouting(routing, rows, resolved, channel)
                emails == IF noMembers THEN named ELSE EffectiveApprovers(named, team, call.name)
            IN  \E unread \in Unread(team) :
                    LET ids == IF spliced = NoValue THEN {Anyone}
                               ELSE AllowedIn(channel, spliced, emails, unread, team)
                    IN  Takes(c, IF lost THEN [call EXCEPT !.at = "done"]
                                 ELSE [call EXCEPT !.at = "wait",
                                         !.asked = [channel |-> channel, ids |-> ids,
                                                    rows |-> ~noRows, members |-> ~noMembers,
                                                    unread |-> unread, shown |-> shown]])

Ask(c) ==
    /\ At(c, "ask") /\ Kind(c) = "forward"
    /\ SendApprovalRequest(c, calls[c].req.endUser, calls[c].route.shown)
    /\ UNCHANGED Shared

(* Faulty variant: without the header nothing is shown.                    *)
DisplayOauthTarget(c) == calls[c].req.oauthTarget

(* display_target: what the header X-OAuth-Target says, wherever the       *)
(* request goes.                                                           *)
DisplayForPlaceholders(c) ==
    IF calls[c].req.oauthTarget # NoUrl THEN calls[c].req.oauthTarget ELSE calls[c].route.shown

(* The placeholder path is never an end-user's.                            *)
AskForPlaceholders(c) ==
    /\ At(c, "ask") /\ Kind(c) = "legacy"
    /\ SendApprovalRequest(c, NoOne, DisplayForPlaceholders(c))
    /\ UNCHANGED Shared

AskToSign(c) ==
    /\ At(c, "ask") /\ Kind(c) = "sign"
    /\ SendApprovalRequest(c, calls[c].req.endUser, NoUrl)
    /\ UNCHANGED Shared

(* What ApprovalFlow shows of wait_for_decision: one verdict, or an error. *)
Verdicts == {"approved", "denied", "timeout", "error"}

Decide(c, verdict) ==
    /\ At(c, "wait") /\ Kind(c) # "sign"
    /\ Takes(c, IF verdict = "approved"
                THEN [calls[c] EXCEPT !.verdict = verdict, !.at = "exchange"]
                ELSE [calls[c] EXCEPT !.verdict = verdict, !.at = "done", !.audit = verdict])
    /\ UNCHANGED Shared

(* Of a signature only a denial is audited here.                           *)
DecideToSign(c, verdict) ==
    /\ At(c, "wait") /\ Kind(c) = "sign"
    /\ Takes(c, [calls[c] EXCEPT !.verdict = verdict,
           !.at = IF verdict = "approved" THEN "sign" ELSE "done",
           !.audit = IF verdict = "denied" THEN verdict ELSE "none"])
    /\ UNCHANGED Shared

-----------------------------------------------------------------------------
(* Using the credential                                                    *)

Values(c) ==
    IF Kind(c) = "legacy" THEN {calls[c].held[n].value : n \in DOMAIN calls[c].held}
    ELSE {calls[c].value} \ {NoValue}

(* Only what follows an approval audits a failed exchange.                 *)
ExchangeToken(c) ==
    LET call == calls[c]
        endpoint == TokenEndpoint(call.route.scheme, call.value)
    IN  /\ At(c, "exchange")
        /\ \E fails \in {FALSE} \cup
                        {x \in {TRUE} : endpoint # NoOne \/ call.route.scheme = "aws"} :
               Takes(c, [call EXCEPT !.token = endpoint,
                   !.at = IF fails THEN "done" ELSE "send",
                   !.audit = IF fails /\ call.verdict = "approved" THEN "approved" ELSE "none"])
        /\ UNCHANGED Shared

PiecesToSend(c) ==
    IF Kind(c) = "legacy"
    THEN Substitute(Placeholders(calls[c].req.refs),
                    [n \in DOMAIN calls[c].held |-> calls[c].held[n].value])
    ELSE calls[c].route.pieces

(* What the upstream may have learnt, and may return, in whichever form.   *)
Learnt(c, sent) ==
    sent \cup UNION {IF <<v.id, NoField>> \in sent THEN PiecesOf(v) ELSE {} : v \in Values(c)}

Responses(c, sent) ==
    LET all == Learnt(c, sent) \X Encodings IN
        [status : {"ok", "unauthorized"}, body : {"text"}, holds : {{}}]
            \cup [status : {"ok"}, body : {"text", "binary", "huge"},
                  holds : {all} \cup {{x} : x \in all}]

(* Faulty variant: the verdict is not noted.                               *)
AuditedWithoutVerdict(c) == "unasked"

AuditedAs(c) == IF calls[c].verdict = "approved" THEN "approved" ELSE "unasked"

(* forward_request; a failure is audited and is all the agent is told.     *)
Send(c) ==
    LET call == calls[c]
        sent == PiecesToSend(c)
        retries == CanRetryWithOauth1(call.route, call.value, call.req.method, call.req.mode)
    IN  /\ At(c, "send")
        /\ \/ Takes(c, [call EXCEPT !.at = "done", !.sent = sent, !.audit = AuditedAs(c)])
           \/ \E r \in Responses(c, sent) :
                  Takes(c, [call EXCEPT !.sent = sent, !.response = r,
                      !.at = IF r.status = "unauthorized" /\ Kind(c) = "forward" /\ retries
                             THEN "retry" ELSE "answer"])
        /\ UNCHANGED Shared

(* The app's token was refused: once more, signed with the account's keys. *)
(* If that fails, the first answer is the answer.                          *)
RetryWithOauth1(c) ==
    /\ At(c, "retry")
    /\ \E r \in {calls[c].response} \cup Responses(c, {}) :
           Takes(c, [calls[c] EXCEPT !.at = "answer", !.response = r])
    /\ UNCHANGED Shared

Answer(c) ==
    /\ At(c, "answer")
    /\ Takes(c, [calls[c] EXCEPT !.at = "done", !.audit = AuditedAs(c),
           !.answer = SanitizeResponse(calls[c].response.body, calls[c].response.holds, Values(c))])
    /\ UNCHANGED Shared

(* The value that was read before the approval signs; only a signature is  *)
(* audited.                                                                *)
SignPayload(c) ==
    /\ At(c, "sign")
    /\ Takes(c, IF Signs(calls[c].value, calls[c].req.payload)
                THEN [calls[c] EXCEPT !.at = "done", !.signed = TRUE, !.audit = "approved"]
                ELSE [calls[c] EXCEPT !.at = "done"])
    /\ UNCHANGED Shared

-----------------------------------------------------------------------------

Next ==
    \/ \E c \in Calls :
           \/ \E req \in load.requests : Receive(c, req)
           \/ Authenticate(c) \/ AuthenticateSigner(c) \/ AuthenticateAgentFromHeaders(c)
           \/ RateLimit(c)
           \/ FindServingAgent(c) \/ FindSigningAgent(c)
           \/ ReadConfig(c) \/ ReadSigningConfig(c) \/ ReadValue(c) \/ ReadSigningValue(c)
           \/ ParseRequest(c) \/ FindOwningAgents(c) \/ ReadValues(c)
           \/ RelayGate(c) \/ RelayConfig(c) \/ ClaimRelaySession(c)
           \/ ListSessions(c) \/ WriteAuthfile(c)
           \/ ReadPolicy(c) \/ Evaluate(c) \/ ClaimGrant(c)
           \/ Ask(c) \/ AskForPlaceholders(c) \/ AskToSign(c)
           \/ \E verdict \in Verdicts : Decide(c, verdict) \/ DecideToSign(c, verdict)
           \/ ExchangeToken(c) \/ Send(c) \/ RetryWithOauth1(c) \/ Answer(c) \/ SignPayload(c)
    \/ \E e \in edits : Edit(e)
    \/ Tick

Spec == Init /\ [][Next]_vars

-----------------------------------------------------------------------------
(* Correctness                                                             *)

Stages ==
    {"idle", "auth", "count", "parse", "serve", "config", "value", "relay", "relay_config",
     "claim", "list", "project", "policy", "mode", "grant", "ask", "wait", "exchange",
     "send", "retry", "answer", "sign", "done"}

(* The shape of the state, and: a request that asks, sends or signs has a  *)
(* valid key, and one for a named credential has the key that serves it.   *)
TypeOK ==
    /\ load \in Loads
    /\ clock \in 0 .. MaxTime
    /\ edits \subseteq load.edits
    /\ uses \in 0 .. load.uses
    /\ \A c \in Calls :
           LET call == calls[c] IN
               /\ call.at \in Stages
               /\ \A i \in DOMAIN call.agents : Valid(call.agents[i])
               /\ call.by # NoOne => call.by \in {call.agents[i] : i \in DOMAIN call.agents}
               /\ call.at \in {"wait", "exchange", "send", "retry", "answer", "sign"} =>
                      DOMAIN call.agents # {} /\ (Kind(c) # "legacy" => call.by # NoOne)

(* The rows a value was ever stored in.                                    *)
RowsWith(id) ==
    {r \in ({load.creds[k] : k \in DOMAIN load.creds} \cup {e.cred : e \in load.edits}) \ {NoValue} :
        r.value # NoValue /\ r.value.id = id}

Used(c) == calls[c].sent # {} \/ calls[c].signed

(* The requests of an agent let through in one window of the clock stay    *)
(* under its limit, whatever instances count them and in whatever order.   *)
(* check_rate_limit refuses the one that reaches it, so that one less than *)
(* the "Max requests per hour" (proxy-api.mdx:803) are served.  Nor do the *)
(* windows roll, as "Limits reset on a rolling 1-hour window"              *)
(* (policies.mdx:75) says: an hour across two of them has room for twice   *)
(* as many.  And a request whose window was pruned before it was counted   *)
(* starts that window again and is not counted here.                       *)
RateLimitHolds ==
    \A agent \in DOMAIN load.agents, w \in Windows :
        LET through == {c \in Calls : /\ calls[c].counted /\ ~calls[c].late
                                      /\ Primary(c) = agent /\ calls[c].window = w}
        IN  through # {} => Cardinality(through) < load.agents[agent].limit

(* A secret goes only where allowed_hosts lets it: for a request whose     *)
(* check of the hosts and whose value come from one row, on the unified    *)
(* and on the placeholder path, after any wait and retry.                  *)
SecretStaysOnItsHosts ==
    \A c \in Calls : \A piece \in calls[c].sent :
        LET call == calls[c]
            checked == IF Kind(c) = "legacy" THEN {call.configs[n] : n \in DOMAIN call.configs}
                       ELSE {call.cred}
        IN  \A row \in checked :
                /\ row.value # NoValue /\ row.value.id = piece[1]
                /\ ~row.relative /\ row.hosts # {} /\ call.route.scheme # "sidecar"
                => \E p \in row.hosts : HostIsAllowed(p, call.route.to)

(* A request uses the secrets of the end-user it asserts, or the team's    *)
(* own when it asserts none, and never those of another: forwarded, put    *)
(* into a placeholder, signed with, or taking the lease of a relay.        *)
IsolationHolds ==
    \A c \in Calls :
        LET call == calls[c]
            endUser == IF Kind(c) = "legacy" THEN NoOne ELSE call.req.endUser
        IN  /\ \A piece \in call.sent : \A row \in RowsWith(piece[1]) : row.owner = endUser
            /\ call.signed => \A row \in RowsWith(call.value.id) : row.owner = endUser
            /\ call.at # "idle" /\ Kind(c) = "relay" /\ call.leased => call.cred.owner = endUser

(* A secret that is used without a human's word was under no gate of the   *)
(* policy that was read for the request: no URL of its                     *)
(* require_approval_urls was the target, a grant did not stand in for its  *)
(* passkey, and a signature never goes without.  That policy is the        *)
(* credential's own, or that of the first placeholder (proxy.rs:2214);     *)
(* "require human approval regardless of broader auto URL or method rules" *)
(* (policies.mdx:25) is not kept for what the policies of the other        *)
(* placeholders say, nor for a policy that could not be read, which counts *)
(* as none (proxy.rs:1375), nor for a target that is a path, which no rule *)
(* matches.                                                                *)
HumanGateHolds ==
    \A c \in Calls :
        LET call == calls[c] IN
            Used(c) /\ call.verdict # "approved" =>
                /\ ~call.signed
                /\ call.policy # NoPolicy /\ call.req.target.host # NoHost =>
                       /\ ~MatchesAny(call.req.target, call.policy.requireUrls)
                       /\ call.grant => ~call.policy.passkey
                /\ call.policy = NoPolicy /\ ~call.failed /\ ~call.grant
                   /\ load.modes[PolicyKey(c)[1]] = "gated" => call.req.method \in {"GET", "HEAD"}

(* A bundle is exchanged with the provider that issued it.                 *)
RefreshStaysWithIssuer ==
    \A c \in Calls : calls[c].token # NoOne => calls[c].token = calls[c].value.issuer

(* Two holders of one relay session are further apart than its ttl.        *)
LeaseIsExclusive ==
    \A l, m \in leases :
        l.session = m.session /\ l.holder # m.holder => l.at - m.at \notin 0 .. RelayTtl

(* What leaves through a relay found the lease of its own credential, and  *)
(* of its own end-user, still beating.                                     *)
EgressNeedsOwnRelay ==
    \A c \in Calls :
        At(c, "done") /\ Kind(c) = "forward" /\ calls[c].sent # {} /\ UsesRelay(calls[c].cred) =>
            \E l \in leases : l.key = Key(c) /\ calls[c].asOf - l.at \in 0 .. RelayTtl

(* The relay server admits sessions that were beating when they were       *)
(* listed, though another heartbeat may have listed more since.            *)
AuthfileFollowsLeases ==
    \A s \in authfile.sessions :
        \E l \in leases : l.session = s /\ authfile.asOf - l.at \in 0 .. RelayTtl

MembersWith(team, platform, id) == {m \in load.members[team] : m[platform] = id}

(* Whom a messaging channel lets decide by name is a member who may decide *)
(* on the credential and whom the policy names, if it names any; or whom   *)
(* it names for Matrix.  A failed listing of the members lets in whom the  *)
(* policy names, though they may not decide.  With nobody to name, or with *)
(* nobody among them who has linked the platform or whose link could be    *)
(* read, the channel restricts no one; where the policy names people, it   *)
(* comes to that only if none of those who may decide has linked Telegram. *)
(* So "Only those eligible people can approve" (policies.mdx:67) is kept   *)
(* but for these cases.                                                    *)
ApproversAreNamed ==
    \A c \in Calls :
        LET call == calls[c]
            team == PolicyKey(c)[1]
            routing == RowToRouting(call.policy)
            named == IF routing = NoValue THEN {} ELSE routing.approvers
        IN  call.at # "idle" /\ call.asked # NoValue =>
                /\ \A id \in call.asked.ids \ {Anyone} :
                       \E m \in MembersWith(team, "telegram", id) \cup MembersWith(team, "matrix", id) :
                           \/ (named = {} \/ m.email \in named)
                              /\ (MayDecide(m, call.name) \/ ~call.asked.members)
                           \/ routing # NoValue /\ m.email \in routing.matrixApprovers
                /\ call.asked.channel \in {"telegram", "matrix"} /\ Anyone \in call.asked.ids
                   /\ named # {} /\ call.asked.members /\ call.asked.unread = {} =>
                       \A m \in load.members[team] :
                           m.email \in named /\ MayDecide(m, call.name) => m["telegram"] = NoOne

(* An end-user's request is announced to nobody in the team.  Another is   *)
(* asked where the policy says, if the deployment has that channel; and no *)
(* team that has a channel is left with what the agent reflects.           *)
AskedWhereConfigured ==
    \A c \in Calls :
        LET call == calls[c]
            routing == RowToRouting(call.policy)
            rows == load.channels[PolicyKey(c)[1]]
            wants == IF routing = NoValue THEN "none" ELSE routing.channel
        IN  call.at # "idle" /\ call.asked # NoValue =>
                IF Kind(c) # "legacy" /\ call.req.endUser # NoOne
                THEN call.asked.channel = "agent_reflected" /\ call.asked.ids = {Anyone}
                ELSE call.asked.rows =>
                       /\ wants \in {"dashboard", "telegram"} \cap (load.wired \cup {"dashboard"})
                              => call.asked.channel = wants
                       /\ wants \notin {"agent_reflected", "app"} /\ UsableRows(rows) # {}
                          /\ (\A i \in DOMAIN rows : rows[i].type # "agent_reflected")
                              => call.asked.channel # "agent_reflected"

(* What is signed was approved, and what the approver saw is what it is    *)
(* the digest of; or the approver was told that nothing could be shown.    *)
SignedIsWhatWasShown ==
    \A c \in Calls :
        LET call == calls[c] IN
            call.signed =>
                /\ call.verdict = "approved"
                /\ \/ call.guard.blind
                   \/ /\ call.req.payload.text = call.guard.shown
                      /\ IsEcdsa(call.value) => call.req.payload.hash \in KnownHashes

(* What is forwarded after a question goes to the host that the person was *)
(* shown, or to the sidecar of the credential, and the target shown is the *)
(* one that was asked for; whatever was edited meanwhile.  A path has no   *)
(* host.  On the placeholder path an agent that sends X-OAuth-Target       *)
(* decides what is shown: "use X-OAuth-Target as the real target URL if    *)
(* present" (proxy.rs:2069), but the request goes to X-TAP-Target.         *)
ForwardedAsShown ==
    \A c \in Calls :
        LET call == calls[c]
            shown == call.asked.shown
        IN  /\ call.sent # {} /\ call.asked # NoValue /\ Kind(c) \in {"forward", "legacy"}
            /\ call.req.target.host # NoHost
            => \/ /\ shown = call.req.target
                  /\ call.route.scheme # "sidecar" => shown.host = call.route.to
               \/ /\ Kind(c) = "legacy" /\ call.req.oauthTarget # NoUrl
                  /\ shown = call.req.oauthTarget

(* No part of a secret that the upstream returns reaches the agent, as it  *)
(* is or encoded.  Bodies over the limit are not read, and what is not     *)
(* text is not looked through for percent-encoding.                        *)
AnswerHidesSecrets ==
    \A c \in Calls :
        LET call == calls[c]
            secrets == UNION {PiecesOf(v) : v \in Values(c)}
        IN  call.at = "done" /\ call.response # NoValue /\ call.response.body # "huge" =>
                \A x \in call.answer : x[1] \in secrets =>
                    call.response.body = "binary" /\ x[2] = "url"

(* A request that is over and used a secret is in the audit log, with the  *)
(* verdict it was used under.                                              *)
UsesAreAudited ==
    \A c \in Calls :
        At(c, "done") /\ Used(c) =>
            calls[c].audit = (IF calls[c].asked = NoValue THEN "unasked" ELSE "approved")

(* A secret stays where it belongs: with the hosts it is bound to, with    *)
(* the provider that issued it, and out of the answer                      *)
(* (SecretStaysOnItsHosts, RefreshStaysWithIssuer, AnswerHidesSecrets).    *)
SecretsStayPut == SecretStaysOnItsHosts /\ RefreshStaysWithIssuer /\ AnswerHidesSecrets

(* A relay serves one holder, its own credential, and only while it beats  *)
(* (LeaseIsExclusive, EgressNeedsOwnRelay, AuthfileFollowsLeases).         *)
RelaysAreOwn == LeaseIsExclusive /\ EgressNeedsOwnRelay /\ AuthfileFollowsLeases

(* The right people are asked in the right place, they see what they       *)
(* decide on, and what follows is on record (TypeOK, ApproversAreNamed,    *)
(* AskedWhereConfigured, ForwardedAsShown, SignedIsWhatWasShown,           *)
(* UsesAreAudited).                                                        *)
ApprovalIsInformed ==
    /\ TypeOK
    /\ ApproversAreNamed /\ AskedWhereConfigured
    /\ ForwardedAsShown /\ SignedIsWhatWasShown /\ UsesAreAudited
=============================================================================
