------------------------------ MODULE AgentCache ------------------------------
(***************************************************************************)
(* How the proxy recognises an agent: authenticate and get_effective_      *)
(* credentials of tap-proxy/src/db_state.rs, their two in-memory caches,   *)
(* and the writes of the dashboard to the agent's row.                     *)
(*                                                                         *)
(* auth_cache maps a key's hash to an agent, or to nobody, and has no      *)
(* expiry; agent_cache holds the agent's row and credentials and expires   *)
(* after cache_ttl.  No lock is held across a query, so queries of several *)
(* requests, the stores of their results and the dashboard's writes        *)
(* interleave.  The module is about one agent and one proxy process; the   *)
(* content of the row and of the credential set is a version number, which *)
(* every write to either raises.  Its names are apart from those of        *)
(* Grants, beside which AccessProofs has the proofs about it.              *)
(***************************************************************************)
EXTENDS Integers

CONSTANTS
    Keys,        \* the API keys that the agent is ever given
    FirstKey,    \* the key it was created with
    Requests,    \* requests being authenticated concurrently
    CacheTtl,    \* TAP_CACHE_TTL_SECS
    DbTimeout,   \* DB_TIMEOUT of one query
    MaxVersion,  \* bound of the model: writes to the agent
    MaxClock,    \* bound of the model: the clock stops here
    Never,       \* not yet superseded
    Nothing      \* no version: a query that found no row, an empty cache

ASSUME KeyAssumption == FirstKey \in Keys
ASSUME TtlAssumption ==
    CacheTtl \in Nat /\ DbTimeout \in Nat /\ MaxVersion \in Nat /\ MaxClock \in Nat
ASSUME MarkAssumption == Never \notin Nat /\ Nothing \notin Nat

VARIABLES
    clock,       \* the clock
    agent,       \* the row of the agents table: [exists, key, version]
    superseded,  \* version -> when a later one replaced it (history)
    issued,      \* the keys handed out so far
    authCache,   \* auth_cache: key -> "unknown", "nobody" or "agent"
    agentCache,  \* agent_cache: [row, creds, fetched]
    requests     \* the state of each request

db == <<agent, superseded, issued>>
agentVars == <<clock, agent, superseded, issued, authCache, agentCache, requests>>

AtRest == [step |-> "idle", key |-> FirstKey, row |-> Nothing, creds |-> Nothing, by |-> 0]

AgentInit ==
    /\ clock = 0
    /\ agent = [exists |-> TRUE, key |-> FirstKey, version |-> 0]
    /\ superseded = [v \in 0 .. MaxVersion |-> Never]
    /\ issued = {FirstKey}
    /\ authCache = [k \in Keys |-> "unknown"]
    /\ agentCache = [row |-> Nothing, creds |-> Nothing, fetched |-> 0]
    /\ requests = [r \in Requests |-> AtRest]

-----------------------------------------------------------------------------
(* The dashboard writes to the database only; no cache is told.            *)

NewVersion ==
    /\ agent.exists /\ agent.version < MaxVersion
    /\ superseded' = [superseded EXCEPT ![agent.version] = clock]

(* Enable, disable, edit the rate limit, assign or remove credentials.     *)
UpdateAgent ==
    /\ NewVersion
    /\ agent' = [agent EXCEPT !.version = @ + 1]
    /\ UNCHANGED <<clock, issued, authCache, agentCache, requests>>

(* The new key is generated at random: nobody has ever presented it.       *)
RotateAgentApiKey(k) ==
    /\ NewVersion
    /\ k \notin issued
    /\ agent' = [agent EXCEPT !.version = @ + 1, !.key = k]
    /\ issued' = issued \cup {k}
    /\ UNCHANGED <<clock, authCache, agentCache, requests>>

DeleteAgent ==
    /\ agent.exists
    /\ superseded' = [superseded EXCEPT ![agent.version] = clock]
    /\ agent' = [agent EXCEPT !.exists = FALSE]
    /\ UNCHANGED <<clock, issued, authCache, agentCache, requests>>

-----------------------------------------------------------------------------
(* Cache lookups                                                           *)

(* Faulty variant: an entry is served whatever its age.                    *)
AlwaysFresh == agentCache.row # Nothing

Fresh == agentCache.row # Nothing /\ clock - agentCache.fetched < CacheTtl

(* The queries of a request that missed must be answered by this time.     *)
Querying(step, k) ==
    [step |-> step, key |-> k, row |-> Nothing, creds |-> Nothing, by |-> clock + 2 * DbTimeout]

Recognised(k, row) ==
    [step |-> "recognised", key |-> k, row |-> row, creds |-> Nothing, by |-> 0]

Answered(creds) ==
    [step |-> "answered", key |-> FirstKey, row |-> Nothing, creds |-> creds, by |-> 0]

Free(r) == requests[r].step \in {"idle", "recognised", "answered"}

(* authenticate, with both read locks held: a hit, a cached "not found",   *)
(* or the queries.                                                         *)
Authenticate(r, k) ==
    /\ Free(r) /\ k \in issued
    /\ requests' = [requests EXCEPT ![r] =
           CASE authCache[k] = "agent" /\ Fresh -> Recognised(k, agentCache.row)
             [] authCache[k] = "nobody"         -> AtRest
             [] OTHER                           -> Querying("finding", k)]
    /\ UNCHANGED <<clock, db, authCache, agentCache>>

(* get_effective_credentials, by the agent's id: for a request recognised  *)
(* by its key earlier, or by an MCP connection, which has no key.          *)
GetEffectiveCredentials(r) ==
    /\ Free(r)
    /\ requests' = [requests EXCEPT ![r] =
           IF Fresh THEN Answered(agentCache.creds) ELSE Querying("listing", FirstKey)]
    /\ UNCHANGED <<clock, db, authCache, agentCache>>

-----------------------------------------------------------------------------
(* Queries of authenticate                                                 *)

AuthenticateAgent(r) ==
    /\ requests[r].step = "finding"
    /\ requests' = [requests EXCEPT ![r] =
           IF agent.exists /\ agent.key = requests[r].key
           THEN [@ EXCEPT !.step = "found", !.row = agent.version]
           ELSE [@ EXCEPT !.step = "missing"]]
    /\ UNCHANGED <<clock, db, authCache, agentCache>>

(* Direct and role credentials; a deleted agent has none.                  *)
GetAgentEffectiveCredentials(r) ==
    /\ requests[r].step \in {"found", "listing"}
    /\ requests' = [requests EXCEPT ![r] =
           [@ EXCEPT !.step = IF requests[r].step = "found" THEN "loaded" ELSE "listed",
                     !.creds = IF agent.exists THEN agent.version ELSE Nothing]]
    /\ UNCHANGED <<clock, db, authCache, agentCache>>

(* Faulty variant: the agent's entry is forgotten.                         *)
StoreKeyOnly(r) ==
    /\ requests[r].step = "loaded"
    /\ authCache' = [authCache EXCEPT ![requests[r].key] = "agent"]
    /\ requests' = [requests EXCEPT ![r] = Recognised(requests[r].key, requests[r].row)]
    /\ UNCHANGED <<clock, db, agentCache>>

(* The write locks are taken in the order auth_cache, agent_cache, with no *)
(* query in between.                                                       *)
StoreAgent(r) ==
    /\ requests[r].step = "loaded"
    /\ authCache' = [authCache EXCEPT ![requests[r].key] = "agent"]
    /\ agentCache' = [row |-> requests[r].row, creds |-> requests[r].creds, fetched |-> clock]
    /\ requests' = [requests EXCEPT ![r] = Recognised(requests[r].key, requests[r].row)]
    /\ UNCHANGED <<clock, db>>

StoreNobody(r) ==
    /\ requests[r].step = "missing"
    /\ authCache' = [authCache EXCEPT ![requests[r].key] = "nobody"]
    /\ requests' = [requests EXCEPT ![r] = AtRest]
    /\ UNCHANGED <<clock, db, agentCache>>

(* The second query of get_effective_credentials reads the row again, by   *)
(* id; without a row nothing is cached.                                    *)
GetAgent(r) ==
    /\ requests[r].step = "listed"
    /\ IF agent.exists
       THEN requests' = [requests EXCEPT ![r] =
                [@ EXCEPT !.step = "reread", !.row = agent.version]]
       ELSE requests' = [requests EXCEPT ![r] = Answered(requests[r].creds)]
    /\ UNCHANGED <<clock, db, authCache, agentCache>>

StoreCredentials(r) ==
    /\ requests[r].step = "reread"
    /\ agentCache' = [row |-> requests[r].row, creds |-> requests[r].creds, fetched |-> clock]
    /\ requests' = [requests EXCEPT ![r] = Answered(requests[r].creds)]
    /\ UNCHANGED <<clock, db, authCache>>

(* Faulty variant: an error is remembered like "not found".                *)
QueryTimesOutAsNobody(r) ==
    /\ ~Free(r)
    /\ authCache' = [authCache EXCEPT ![requests[r].key] = "nobody"]
    /\ requests' = [requests EXCEPT ![r] = AtRest]
    /\ UNCHANGED <<clock, db, agentCache>>

(* with_db_timeout gives up, or the query fails: nothing is cached and the *)
(* request is refused, except that get_effective_credentials can do        *)
(* without its second query.                                               *)
QueryTimesOut(r) ==
    /\ ~Free(r)
    /\ \/ requests' = [requests EXCEPT ![r] = AtRest]
       \/ /\ requests[r].step \in {"listed", "reread"}
          /\ requests' = [requests EXCEPT ![r] = Answered(requests[r].creds)]
    /\ UNCHANGED <<clock, db, authCache, agentCache>>

(* Time does not pass beyond the deadline of a query that is running; an   *)
(* answer is the request's own from then on, and the model forgets it.     *)
ClockTick ==
    /\ clock < MaxClock
    /\ \A r \in Requests : ~Free(r) => clock < requests[r].by
    /\ clock' = clock + 1
    /\ requests' = [r \in Requests |-> IF Free(r) THEN AtRest ELSE requests[r]]
    /\ UNCHANGED <<db, authCache, agentCache>>

Dashboard == UpdateAgent \/ (\E k \in Keys : RotateAgentApiKey(k)) \/ DeleteAgent

Serve(r) ==
    \/ \E k \in Keys : Authenticate(r, k)
    \/ GetEffectiveCredentials(r)
    \/ AuthenticateAgent(r)
    \/ GetAgentEffectiveCredentials(r)
    \/ StoreAgent(r)
    \/ StoreNobody(r)
    \/ GetAgent(r)
    \/ StoreCredentials(r)
    \/ QueryTimesOut(r)

AgentNext == Dashboard \/ (\E r \in Requests : Serve(r)) \/ ClockTick

AgentSpec == AgentInit /\ [][AgentNext]_agentVars

-----------------------------------------------------------------------------
(* Properties                                                              *)

Versions == 0 .. MaxVersion
Steps == {"idle", "recognised", "answered", "finding", "found", "loaded", "missing",
          "listing", "listed", "reread"}

(* The agent's row, the two caches and the requests have the shapes the    *)
(* code gives them, and a key known to be the agent's has the agent's      *)
(* entry beside it.                                                        *)
CacheShape ==
    /\ clock \in 0 .. MaxClock
    /\ agent \in [exists : BOOLEAN, key : Keys, version : Versions]
    /\ superseded \in [Versions -> Nat \cup {Never}]
    /\ issued \subseteq Keys
    /\ authCache \in [Keys -> {"unknown", "nobody", "agent"}]
    /\ agentCache \in [row : Versions \cup {Nothing}, creds : Versions \cup {Nothing},
                       fetched : Nat]
    /\ requests \in [Requests -> [step : Steps, key : Keys, row : Versions \cup {Nothing},
                                  creds : Versions \cup {Nothing}, by : Nat]]
    /\ (\E k \in Keys : authCache[k] = "agent") => agentCache.row # Nothing

(* A version in an answer given now was current at most `age' ago.         *)
YoungerThan(v, age) ==
    v # Nothing /\ superseded[v] # Never => clock - superseded[v] <= age

(* Changes to the agent's row and to its credentials are picked up within  *)
(* the cache TTL plus the time the two queries may take: no request is     *)
(* answered with a row or a credential set that was replaced longer ago    *)
(* than that, however the queries and the stores of concurrent requests    *)
(* interleave.  Of the key a request came with this says nothing: the      *)
(* entries of auth_cache have no age (db_state.rs:98) and lead to an entry *)
(* of agent_cache that requests with the new key refresh, so that a key    *)
(* that was rotated away may be recognised for ever, although the rotation *)
(* is documented as "Old API key invalidated." (admin.rs:2766).            *)
StalenessIsBounded ==
    \A r \in Requests :
        /\ requests[r].step = "recognised" =>
               YoungerThan(requests[r].row, CacheTtl + 2 * DbTimeout)
        /\ requests[r].step = "answered" =>
               YoungerThan(requests[r].creds, CacheTtl + 2 * DbTimeout)

(* The agent's current key is never remembered as unknown, which auth_     *)
(* cache would do for ever: every request that finds it missing was sent   *)
(* with a key that has been retired.                                       *)
CurrentKeyIsNotRefused ==
    agent.exists => /\ authCache[agent.key] # "nobody"
                    /\ \A r \in Requests : requests[r].step = "missing" =>
                           requests[r].key # agent.key

(* The shape of the caches and the age of what they answer, CacheShape and *)
(* StalenessIsBounded, for auth_cache and agent_cache together.            *)
CachesAreFresh == CacheShape /\ StalenessIsBounded
=============================================================================
