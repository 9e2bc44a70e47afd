-------------------------------- MODULE Grants --------------------------------
(***************************************************************************)
(* Time-boxed approval grants: the approval_grants table of                *)
(* tap-core/src/store.rs, the two ways a person creates a grant            *)
(* (tap-proxy/src/admin.rs for an authored one, tap-core/src/grants.rs for *)
(* one derived from a request under review), revocation, and try_claim_    *)
(* grant of tap-proxy/src/proxy.rs, by which a request of an agent that    *)
(* needs approval consumes one use of a grant instead of a human prompt.   *)
(*                                                                         *)
(* Every call of try_claim_grant reads the clock once, selects the live    *)
(* grants of the credential with that reading, and then claims them one by *)
(* one, oldest first, each claim an UPDATE of its own that re-checks the   *)
(* grant: calls, revocations, creations and the clock interleave between   *)
(* those statements.  The module is about one credential of one team.      *)
(***************************************************************************)
EXTENDS Integers, FiniteSets, Sequences

CONSTANTS
    Grants,    \* grant ids, drawn from fresh UUIDs
    Calls,     \* calls of try_claim_grant, one per request of an agent
    Targets,   \* the requests' [method, host, path], path a sequence of segments
    Authored,  \* scopes a manager types: [methods, hosts, paths] with patterns
    Ttls,      \* the ttl_minutes a person asks for
    Caps,      \* the max_uses a person asks for, NoCap when none is given
    NoCap,     \* max_uses IS NULL
    Wild,      \* the segment "*" of a route pattern
    None,      \* no grant, no reviewed request
    MaxTtl,    \* GRANT_MAX_TTL_MINUTES
    MaxTime    \* bound of the model: the clock stops here

ASSUME TimeAssumption == MaxTtl \in Nat /\ MaxTime \in Nat /\ Ttls \subseteq Int
ASSUME CapAssumption == NoCap \notin Int /\ Caps \subseteq Int \cup {NoCap}
ASSUME IdAssumption == None \notin Grants /\ None \notin Targets
ASSUME CallAssumption == IsFiniteSet(Calls)
ASSUME TargetAssumption ==
    \A t \in Targets :
        /\ t = [method |-> t.method, host |-> t.host, path |-> t.path]
        /\ t.path \in Seq({t.path[i] : i \in DOMAIN t.path})

VARIABLES
    now,    \* the clock
    rows,   \* approval_grants: grant id -> row
    calls   \* the state of each try_claim_grant

vars == <<now, rows, calls>>

-----------------------------------------------------------------------------
(* A row of the table.  source is the request the approver reviewed, None  *)
(* for a grant a manager typed: the table does not store it, only the      *)
(* properties read it.                                                     *)

NoRow ==
    [exists |-> FALSE, scope |-> None, created |-> 0, expires |-> 0,
     cap |-> NoCap, uses |-> 0, revoked |-> FALSE, source |-> None]

Row(scope, ttl, cap, source) ==
    [exists |-> TRUE, scope |-> scope, created |-> now, expires |-> now + ttl,
     cap |-> cap, uses |-> 0, revoked |-> FALSE, source |-> source]

(* A call: where it stands, its request, the reading of the clock, the     *)
(* candidates it still has to try and the grant that let it through.       *)
Idle == [step |-> "idle", target |-> None, asOf |-> 0, candidates |-> {}, grant |-> None]

Init ==
    /\ now = 0
    /\ rows = [g \in Grants |-> NoRow]
    /\ calls = [c \in Calls |-> Idle]

-----------------------------------------------------------------------------
(* Scopes.  A pattern without a path covers nothing, whatever its host:    *)
(* the derived scope of a request to "/" is such a pattern.                *)

(* Faulty variant: a prefix of the path is enough, as for the standing     *)
(* auto_approve_urls rules.                                                *)
PathPrefixMatches(pattern, path) ==
    /\ Len(pattern) <= Len(path)
    /\ \A i \in 1 .. Len(pattern) : pattern[i] \in {Wild, path[i]}

PathMatches(pattern, path) ==
    /\ Len(pattern) = Len(path)
    /\ \A i \in 1 .. Len(path) : pattern[i] \in {Wild, path[i]}

GrantCovers(scope, t) ==
    /\ t.method \in scope.methods
    /\ t.host \in scope.hosts
    /\ \E p \in scope.paths : p # << >> /\ PathMatches(p, t.path)

ScopeFromTarget(t) ==
    [methods |-> {t.method}, hosts |-> {t.host}, paths |-> {t.path}]

(* The guardrails on the window and on the number of uses.                 *)
BoundsAllowed(ttl, cap) ==
    /\ ttl \in 1 .. MaxTtl
    /\ cap # NoCap => cap >= 1

(* POST /team/credentials/{name}/grants: a manager types the scope, every  *)
(* pattern of which must name a host and a path.                           *)
CreateGrant(g, scope, ttl, cap) ==
    /\ ~rows[g].exists
    /\ << >> \notin scope.paths
    /\ BoundsAllowed(ttl, cap)
    /\ rows' = [rows EXCEPT ![g] = Row(scope, ttl, cap, None)]
    /\ UNCHANGED <<now, calls>>

(* Approve-with-grant: the scope is derived from the request under review. *)
CreateGrantForRequest(g, t, ttl, cap) ==
    /\ ~rows[g].exists
    /\ BoundsAllowed(ttl, cap)
    /\ rows' = [rows EXCEPT ![g] = Row(ScopeFromTarget(t), ttl, cap, t)]
    /\ UNCHANGED <<now, calls>>

(* One-click kill; the row is kept.                                        *)
RevokeApprovalGrant(g) ==
    /\ rows[g].exists
    /\ rows' = [rows EXCEPT ![g].revoked = TRUE]
    /\ UNCHANGED <<now, calls>>

-----------------------------------------------------------------------------
(* try_claim_grant                                                         *)

UsesLeft(row) == row.cap # NoCap => row.uses < row.cap

(* Faulty variant: the window is not part of the WHERE clauses.            *)
LiveForever(row, asOf) == row.exists /\ ~row.revoked /\ UsesLeft(row)

(* The WHERE clause of the candidate SELECT ...                            *)
Live(row, asOf) ==
    row.exists /\ ~row.revoked /\ row.expires > asOf /\ UsesLeft(row)

(* Faulty variants: the SELECT is trusted and the UPDATE re-checks only    *)
(* the revocation, or only the uses.                                       *)
ClaimHitsSpent(row, asOf) == row.exists /\ ~row.revoked /\ row.expires > asOf

ClaimHitsRevoked(row, asOf) == row.exists /\ row.expires > asOf /\ UsesLeft(row)

(* ... and that of the UPDATE, bound to the same reading of the clock.     *)
ClaimHits(row, asOf) == Live(row, asOf)

(* A request that needs approval reaches the claim: the clock is read.     *)
TryClaimGrant(c, t) ==
    /\ calls[c].step = "idle"
    /\ calls' = [calls EXCEPT ![c] =
                 [@ EXCEPT !.step = "looking", !.target = t, !.asOf = now]]
    /\ UNCHANGED <<now, rows>>

(* The SELECT; the candidates that do not cover the request are skipped by *)
(* the loop without a statement of their own.                              *)
LiveGrants(c) ==
    /\ calls[c].step = "looking"
    /\ LET covering == {g \in Grants : /\ Live(rows[g], calls[c].asOf)
                                       /\ GrantCovers(rows[g].scope, calls[c].target)}
       IN  calls' = [calls EXCEPT ![c] =
                        [@ EXCEPT !.step = "claiming", !.candidates = covering]]
    /\ UNCHANGED <<now, rows>>

(* Faulty variant: the outcome carries no grant id.                        *)
AutoApproveAnonymously(c, g) ==
    calls' = [calls EXCEPT ![c] = [@ EXCEPT !.step = "granted", !.candidates = {}]]

Prompt(c) ==
    calls' = [calls EXCEPT ![c] = [@ EXCEPT !.step = "prompted", !.candidates = {}]]

AutoApprove(c, g) ==
    calls' = [calls EXCEPT ![c] =
                 [@ EXCEPT !.step = "granted", !.candidates = {}, !.grant = g]]

(* ORDER BY created_at ASC; the order of two equal times is not fixed.     *)
Oldest(S) == {g \in S : \A h \in S : rows[g].created <= rows[h].created}

(* One turn of the loop over the candidates.                               *)
ClaimApprovalGrant(c) ==
    /\ calls[c].step = "claiming"
    /\ \E g \in Oldest(calls[c].candidates) :
           IF ClaimHits(rows[g], calls[c].asOf)
           THEN /\ rows' = [rows EXCEPT ![g].uses = @ + 1]
                /\ AutoApprove(c, g)
           ELSE /\ calls' = [calls EXCEPT ![c].candidates = @ \ {g}]
                /\ UNCHANGED rows
    /\ UNCHANGED now

(* The loop ends without a claim: a person is asked.                       *)
CandidatesExhausted(c) ==
    /\ calls[c].step = "claiming"
    /\ calls[c].candidates = {}
    /\ Prompt(c)
    /\ UNCHANGED <<now, rows>>

(* The SELECT or the UPDATE fails: a person is asked.                      *)
ClaimFails(c) ==
    /\ calls[c].step \in {"looking", "claiming"}
    /\ Prompt(c)
    /\ UNCHANGED <<now, rows>>

(* The UPDATE commits and its answer is lost: a use is gone, a person is   *)
(* asked all the same.                                                     *)
ClaimAnswerLost(c) ==
    /\ calls[c].step = "claiming"
    /\ \E g \in Oldest(calls[c].candidates) :
           /\ ClaimHits(rows[g], calls[c].asOf)
           /\ rows' = [rows EXCEPT ![g].uses = @ + 1]
    /\ Prompt(c)
    /\ UNCHANGED now

Tick ==
    /\ now < MaxTime
    /\ now' = now + 1
    /\ UNCHANGED <<rows, calls>>

Author(g) ==
    \E ttl \in Ttls, cap \in Caps :
        \/ \E scope \in Authored : CreateGrant(g, scope, ttl, cap)
        \/ \E t \in Targets : CreateGrantForRequest(g, t, ttl, cap)

Claim(c) ==
    \/ \E t \in Targets : TryClaimGrant(c, t)
    \/ LiveGrants(c)
    \/ ClaimApprovalGrant(c)
    \/ CandidatesExhausted(c)
    \/ ClaimFails(c)
    \/ ClaimAnswerLost(c)

Next ==
    \/ \E g \in Grants : Author(g) \/ RevokeApprovalGrant(g)
    \/ \E c \in Calls : Claim(c)
    \/ Tick

Spec == Init /\ [][Next]_vars

-----------------------------------------------------------------------------
(* Properties                                                              *)

Scopes == Authored \cup {ScopeFromTarget(t) : t \in Targets}

GrantRow ==
    [exists : BOOLEAN, scope : Scopes \cup {None}, created : Nat, expires : Int,
     cap : Caps \cup {NoCap}, uses : Nat, revoked : BOOLEAN, source : Targets \cup {None}]

CallState ==
    [step : {"idle", "looking", "claiming", "granted", "prompted"},
     target : Targets \cup {None}, asOf : Nat, candidates : SUBSET Grants,
     grant : Grants \cup {None}]

(* Every row of approval_grants and every call of try_claim_grant has the  *)
(* shape its code gives it: a candidate is a row of the table, and a       *)
(* request is let through by exactly one grant, whose id the audit entry   *)
(* names.                                                                  *)
TypeOK ==
    /\ now \in Nat
    /\ rows \in [Grants -> GrantRow]
    /\ calls \in [Calls -> CallState]
    /\ \A c \in Calls :
           /\ \A g \in calls[c].candidates : rows[g].exists
           /\ calls[c].step = "granted" <=> calls[c].grant # None

GrantedBy(g) == {c \in Calls : calls[c].grant = g}

(* A grant with max_uses n lets at most n requests through without a       *)
(* person, however many calls hold it as a candidate at once: uses never   *)
(* passes the cap (claim_approval_grant) and every request let through     *)
(* has consumed a use of its own.                                          *)
CapBoundsApprovals ==
    \A g \in Grants : rows[g].exists =>
        /\ Cardinality(GrantedBy(g)) <= rows[g].uses
        /\ rows[g].cap # NoCap => rows[g].uses <= rows[g].cap

(* Once revoke_approval_grant has run, no request is let through by the    *)
(* grant any more, one that had already selected it as a candidate         *)
(* included, and no later statement brings it back.                        *)
RevocationHolds ==
    [][\A g \in Grants : rows[g].exists /\ rows[g].revoked =>
           GrantedBy(g)' = GrantedBy(g) /\ rows'[g] = rows[g]]_vars

(* A request is let through only by a grant whose window was open when     *)
(* try_claim_grant read the clock for it, which both of its statements are *)
(* bound to, and was no longer than the cap that the guardrails put on the *)
(* TTL.  Whether the window is still open when the use is taken is not     *)
(* asked: try_claim_grant says that "a revocation or expiry that lands     *)
(* between candidate SELECT and claim causes a clean miss" (store.rs:5559),*)
(* but compares the expiry with the reading taken before the SELECT, so of *)
(* an expiry the second half does not hold.                                *)
WindowIsRespected ==
    \A c \in Calls : calls[c].step = "granted" =>
        LET row == rows[calls[c].grant] IN
            /\ calls[c].asOf < row.expires
            /\ row.expires <= row.created + MaxTtl

(* A grant minted from a request under review lets through only requests   *)
(* for that same method, host and path, never a deeper path (grant_scope_  *)
(* covers_url against scope_from_target), unless the reviewed path holds   *)
(* the segment that a route pattern reads as a wildcard.                   *)
MintedGrantIsExact ==
    \A c \in Calls : calls[c].step = "granted" =>
        LET source == rows[calls[c].grant].source IN
            \/ source \in {None, calls[c].target}
            \/ \E i \in DOMAIN source.path : source.path[i] = Wild
=============================================================================
