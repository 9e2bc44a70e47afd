----------------------------- MODULE PolicyCache -----------------------------
(***************************************************************************)
(* The policy cache of tap-proxy/src/db_state.rs: get_policy, which every  *)
(* request of an agent reads its approval rules through, and invalidate_   *)
(* policy_cache, which the dashboard calls after it has written a policy.  *)
(* The write and the invalidation are two steps, and so are the query and  *)
(* the store of its result; no lock spans either pair.  The policy of one  *)
(* credential is a version number; version 0 is "no policy", which is      *)
(* cached like any other.                                                  *)
(***************************************************************************)
EXTENDS Integers

CONSTANTS
    Readers,     \* requests of agents
    CacheTtl,    \* TAP_CACHE_TTL_SECS
    DbTimeout,   \* DB_TIMEOUT of one query
    MaxVersion,  \* bound of the model: writes of the policy
    MaxTime,     \* bound of the model: the clock stops here
    Never,       \* not yet superseded
    Nothing      \* no entry, no answer

ASSUME TimeAssumption ==
    CacheTtl \in Nat /\ DbTimeout \in Nat /\ MaxVersion \in Nat /\ MaxTime \in Nat
ASSUME MarkAssumption == Never \notin Nat /\ Nothing \notin Nat

VARIABLES
    now,         \* the clock
    policy,      \* the row of the policies table
    superseded,  \* version -> when a later one replaced it (history)
    writing,     \* versions written whose writer has still to invalidate
    cache,       \* policy_cache: [value, fetched]
    readers      \* the requests reading the policy

vars == <<now, policy, superseded, writing, cache, readers>>

Empty == [value |-> Nothing, fetched |-> 0]

Idle == [step |-> "idle", value |-> Nothing, by |-> 0]

Init ==
    /\ now = 0
    /\ policy = 0
    /\ superseded = [v \in 0 .. MaxVersion |-> Never]
    /\ writing = {}
    /\ cache = Empty
    /\ readers = [r \in Readers |-> Idle]

-----------------------------------------------------------------------------
(* The dashboard                                                           *)

SetPolicy ==
    /\ policy < MaxVersion
    /\ policy' = policy + 1
    /\ superseded' = [superseded EXCEPT ![policy] = now]
    /\ writing' = writing \cup {policy + 1}
    /\ UNCHANGED <<now, cache, readers>>

(* The writer is answered as soon as the entry is gone.                    *)
InvalidatePolicyCache(v) ==
    /\ v \in writing
    /\ writing' = writing \ {v}
    /\ cache' = Empty
    /\ UNCHANGED <<now, policy, superseded, readers>>

-----------------------------------------------------------------------------
(* get_policy                                                              *)

(* Faulty variant: an entry is served whatever its age.                    *)
AlwaysFresh == cache.value # Nothing

Fresh == cache.value # Nothing /\ now - cache.fetched < CacheTtl

Free(r) == readers[r].step \in {"idle", "answered"}

GetPolicy(r) ==
    /\ Free(r)
    /\ readers' = [readers EXCEPT ![r] =
           IF Fresh
           THEN [step |-> "answered", value |-> cache.value, by |-> 0]
           ELSE [step |-> "querying", value |-> Nothing, by |-> now + DbTimeout]]
    /\ UNCHANGED <<now, policy, superseded, writing, cache>>

QueryPolicy(r) ==
    /\ readers[r].step = "querying"
    /\ readers' = [readers EXCEPT ![r] =
           [@ EXCEPT !.step = "queried", !.value = policy]]
    /\ UNCHANGED <<now, policy, superseded, writing, cache>>

(* Faulty variant: the entry is stamped with the time it expires.          *)
StorePolicyWithExpiry(r) ==
    /\ readers[r].step = "queried"
    /\ cache' = [value |-> readers[r].value, fetched |-> now + CacheTtl]
    /\ readers' = [readers EXCEPT ![r] = [@ EXCEPT !.step = "answered", !.by = 0]]
    /\ UNCHANGED <<now, policy, superseded, writing>>

(* The entry's age counts from here, not from the query.                   *)
StorePolicy(r) ==
    /\ readers[r].step = "queried"
    /\ cache' = [value |-> readers[r].value, fetched |-> now]
    /\ readers' = [readers EXCEPT ![r] = [@ EXCEPT !.step = "answered", !.by = 0]]
    /\ UNCHANGED <<now, policy, superseded, writing>>

(* with_db_timeout gives up: the caller goes on without a policy and       *)
(* nothing is cached.                                                      *)
QueryTimesOut(r) ==
    /\ ~Free(r)
    /\ readers' = [readers EXCEPT ![r] = Idle]
    /\ UNCHANGED <<now, policy, superseded, writing, cache>>

(* Time does not pass beyond the deadline of a query that is running; an   *)
(* answer is the request's own from then on, and the model forgets it.     *)
Tick ==
    /\ now < MaxTime
    /\ \A r \in Readers : ~Free(r) => now < readers[r].by
    /\ now' = now + 1
    /\ readers' = [r \in Readers |-> IF Free(r) THEN Idle ELSE readers[r]]
    /\ UNCHANGED <<policy, superseded, writing, cache>>

Read(r) == GetPolicy(r) \/ QueryPolicy(r) \/ StorePolicy(r) \/ QueryTimesOut(r)

Next ==
    \/ SetPolicy
    \/ \E v \in writing : InvalidatePolicyCache(v)
    \/ \E r \in Readers : Read(r)
    \/ Tick

Spec == Init /\ [][Next]_vars

-----------------------------------------------------------------------------
(* Properties                                                              *)

Versions == 0 .. MaxVersion

(* The table, the cache and the requests have the shapes the code gives    *)
(* them; an entry was stored in the past and is a version that was written.*)
TypeOK ==
    /\ now \in 0 .. MaxTime
    /\ policy \in Versions /\ writing \subseteq 1 .. policy
    /\ superseded \in [Versions -> Nat \cup {Never}]
    /\ cache \in [value : (0 .. policy) \cup {Nothing}, fetched : 0 .. now]
    /\ readers \in [Readers -> [step : {"idle", "answered", "querying", "queried"},
                                value : (0 .. policy) \cup {Nothing}, by : Nat]]

(* A request is never judged by a policy that was replaced longer ago than *)
(* the cache TTL and one query, whatever queries, stores, writes and       *)
(* invalidations interleave.                                               *)
PolicyStalenessIsBounded ==
    \A r \in Readers : readers[r].step = "answered" =>
        LET v == readers[r].value IN
            superseded[v] # Never => now - superseded[v] <= CacheTtl + DbTimeout
=============================================================================
