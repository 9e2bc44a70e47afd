-------------------------- MODULE PendingApprovals --------------------------
(***************************************************************************)
(* The table pending_approvals as the whole deployment shares it: every    *)
(* proxy instance, messaging bot and background job may issue any of the   *)
(* statements of ConfigStore on any row at any moment.  There is no other  *)
(* way to change a row, so what holds here holds for every client.         *)
(*                                                                         *)
(* `via` and `claims` are history: on whose word the current row was       *)
(* approved, the team's or which end-user's, and how many grant claims      *)
(* succeeded on it since the row was created.                              *)
(***************************************************************************)
EXTENDS ApprovalRows

CONSTANTS
    Txns,      \* transaction ids
    Ttls,      \* lifetimes the callers of save_pending_approval ask for
    MaxTime    \* bound on the model's clock

ASSUME StoreAssumption == Ttls \subseteq Nat /\ MaxTime \in Nat

VARIABLES
    rows,      \* rows[t]: the row of transaction t
    now,       \* the database clock
    via,       \* history: "none", "team" or an end-user
    claims     \* history: grant claims that succeeded on the current row

vars == <<rows, now, via, claims>>

TypeOK ==
    /\ rows \in [Txns -> Row]
    /\ now \in Nat
    /\ via \in [Txns -> {"none", "team"} \cup EndUsers]
    /\ claims \in [Txns -> Nat]

Init ==
    /\ rows = [t \in Txns |-> AbsentRow]
    /\ now = 0
    /\ via = [t \in Txns |-> "none"]
    /\ claims = [t \in Txns |-> 0]

\* The history a write by `who` leaves: the first approval of a row names it.
ViaAfter(t, r, who) ==
    [via EXCEPT ![t] = IF r.status = "approved" /\ rows[t].status # "approved"
                       THEN who ELSE @]

SavePendingApproval(t, eu, ttl) ==
    /\ rows' = [rows EXCEPT ![t] = SavedRow(@, eu, now + ttl)]
    /\ UNCHANGED <<now, via, claims>>

ResolvePendingApproval(t, status, by) ==
    LET r == ResolvedRow(rows[t], status, by, now)
    IN  /\ rows' = [rows EXCEPT ![t] = r]
        /\ via' = ViaAfter(t, r, "team")
        /\ UNCHANGED <<now, claims>>

ClaimPendingApprovalForGrant(t, by) ==
    LET r == ClaimedRow(rows[t], by)
    IN  /\ rows' = [rows EXCEPT ![t] = r]
        /\ via' = ViaAfter(t, r, "team")
        /\ claims' = [claims EXCEPT ![t] = IF ClaimHits(rows[t]) THEN @ + 1 ELSE @]
        /\ UNCHANGED now

ResolvePendingApprovalAsEndUser(t, status, e, by) ==
    LET r == EndUserResolvedRow(rows[t], status, e, by)
    IN  /\ rows' = [rows EXCEPT ![t] = r]
        /\ via' = ViaAfter(t, r, e)
        /\ UNCHANGED <<now, claims>>

SetPendingApprovalChallenge(t, p) ==
    /\ rows' = [rows EXCEPT ![t] = ChallengedRow(@, p, now)]
    /\ UNCHANGED <<now, via, claims>>

TakePendingApprovalChallenge(t) ==
    /\ rows' = [rows EXCEPT ![t] = ChallengeTakenRow(@, now)]
    /\ UNCHANGED <<now, via, claims>>

SetPendingApprovalMessage(t) ==
    /\ rows' = [rows EXCEPT ![t] = MessageStoredRow(@, now)]
    /\ UNCHANGED <<now, via, claims>>

DeletePendingApproval(t) ==
    /\ rows' = [rows EXCEPT ![t] = AbsentRow]
    /\ via' = [via EXCEPT ![t] = "none"]
    /\ claims' = [claims EXCEPT ![t] = 0]
    /\ UNCHANGED now

CleanupExpiredRows ==
    LET gone == {t \in Txns : Purgeable(rows[t], now)}
    IN  /\ rows' = [t \in Txns |-> IF t \in gone THEN AbsentRow ELSE rows[t]]
        /\ via' = [t \in Txns |-> IF t \in gone THEN "none" ELSE via[t]]
        /\ claims' = [t \in Txns |-> IF t \in gone THEN 0 ELSE claims[t]]
        /\ UNCHANGED now

Tick ==
    /\ now < MaxTime
    /\ now' = now + 1
    /\ UNCHANGED <<rows, via, claims>>

Next ==
    \/ \E t \in Txns :
        \/ \E eu \in EndUsers \cup {NoOne}, ttl \in Ttls : SavePendingApproval(t, eu, ttl)
        \/ \E s \in Decisions, by \in Principals \cup {NoOne} :
              ResolvePendingApproval(t, s, by)
        \/ \E by \in Members : ClaimPendingApprovalForGrant(t, by)
        \/ \E e \in EndUsers, s \in Decisions :
              ResolvePendingApprovalAsEndUser(t, s, e, e)
        \/ \E p \in Principals : SetPendingApprovalChallenge(t, p)
        \/ TakePendingApprovalChallenge(t)
        \/ SetPendingApprovalMessage(t)
        \/ DeletePendingApproval(t)
    \/ CleanupExpiredRows
    \/ Tick

Spec == Init /\ [][Next]_vars

(***************************************************************************)
(* Safety.                                                                 *)
(***************************************************************************)

\* A grant is minted on the strength of claim_pending_approval_for_grant: two
\* concurrent "approve with grant" actions never both succeed on one row,
\* whatever else happens to the row in between.
AtMostOneClaim == \A t \in Txns : claims[t] <= 1

\* A removed row leaves nothing behind: neither its reservation for an end-user
\* nor a challenge is there when the transaction id is written again.
AbsentInv == \A t \in Txns : rows[t].status = "absent" => rows[t] = AbsentRow

\* What makes AtMostOneClaim hold: a claimed row is approved, and a decision is final.
ClaimInv ==
    \A t \in Txns : /\ claims[t] \in {0, 1}
                    /\ claims[t] = 1 => rows[t].status = "approved"

\* The first decision wins: once a row carries a decision no statement gives
\* it another one or reopens it; only removing the row ends the decision.
DecisionIsFinal ==
    [][\A t \in Txns : rows[t].status \in Decisions
         => rows'[t].status \in {rows[t].status, "absent"}]_vars

\* The default-deny gate: a row reserved for an end-user becomes approved only
\* through that very end-user's authenticated approval, not the team's and not
\* another end-user's, and the reservation is not lifted while the row exists.
EndUserGate ==
    [][\A t \in Txns : rows[t].eu # NoOne =>
         /\ rows'[t].status = "approved" /\ rows[t].status # "approved"
              => via'[t] = rows[t].eu
         /\ rows'[t].status # "absent" => rows'[t].eu # NoOne]_vars

\* The audit trail: who resolved a row is never erased from a decided row, by
\* the late save of a request's details or by an anonymous repeat.
ResolverIsKept ==
    [][\A t \in Txns :
         /\ rows[t].status \in Decisions
         /\ rows[t].by # NoOne
         /\ rows'[t].status # "absent"
         => rows'[t].by # NoOne]_vars
=============================================================================
