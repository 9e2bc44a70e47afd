----------------------- MODULE PendingApprovalsProofs -----------------------
(***************************************************************************)
(* Proofs about the shared table pending_approvals, for any number of      *)
(* transactions, members and end-users and any lifetimes.                  *)
(***************************************************************************)
EXTENDS PendingApprovals, TLAPS

(***************************************************************************)
(* The statements of the store, one row at a time.                         *)
(***************************************************************************)

\* Every statement of ConfigStore turns a well-typed row into a well-typed row.
LEMMA RowTypes ==
    ASSUME NEW r \in Row, NEW clock \in Nat
    PROVE  /\ AbsentRow \in Row
           /\ \A eu \in EndUsers \cup {NoOne}, x \in Nat : SavedRow(r, eu, x) \in Row
           /\ \A s \in Decisions, by \in Principals \cup {NoOne} :
                 ResolvedRow(r, s, by, clock) \in Row
           /\ \A by \in Members : ClaimedRow(r, by) \in Row
           /\ \A s \in Decisions, e \in EndUsers : EndUserResolvedRow(r, s, e, e) \in Row
           /\ \A p \in Principals : ChallengedRow(r, p, clock) \in Row
           /\ ChallengeTakenRow(r, clock) \in Row
           /\ MessageStoredRow(r, clock) \in Row
  <1>0. PICK y \in Nat : y = clock + PhantomTtl
    BY RowAssumption
  <1>1. AbsentRow \in Row
    BY DEF AbsentRow, Row, Statuses
  <1>2. ASSUME NEW eu \in EndUsers \cup {NoOne}, NEW x \in Nat
        PROVE  SavedRow(r, eu, x) \in Row
    <2>1. CASE r.status = "absent"
      <3>1. SavedRow(r, eu, x)
              = [status |-> "pending", eu |-> eu, by |-> NoOne, expires |-> x,
                 challenge |-> NoOne, details |-> TRUE, message |-> FALSE]
        BY <2>1 DEF SavedRow, AbsentRow
      <3> QED BY <3>1 DEF Row, Statuses
    <2>2. CASE r.status # "absent"
      <3>1. Coalesce(eu, r.eu) \in EndUsers \cup {NoOne}
        BY DEF Coalesce, Row
      <3> QED BY <2>2, <3>1 DEF SavedRow, Row
    <2> QED BY <2>1, <2>2
  <1>3. ASSUME NEW st \in {"pending"} \cup Decisions, NEW b \in Principals \cup {NoOne}
        PROVE  PhantomRow(st, b, clock) \in Row
    <2>1. PhantomRow(st, b, clock)
            = [status |-> st, eu |-> NoOne, by |-> b, expires |-> y,
               challenge |-> NoOne, details |-> FALSE, message |-> FALSE]
      BY <1>0 DEF PhantomRow
    <2> QED BY <2>1 DEF Row, Statuses
  <1>4. ASSUME NEW s \in Decisions, NEW by \in Principals \cup {NoOne}
        PROVE  ResolvedRow(r, s, by, clock) \in Row
    BY <1>3 DEF ResolvedRow, Coalesce, Row, Statuses
  <1>5. ASSUME NEW by \in Members PROVE ClaimedRow(r, by) \in Row
    BY DEF ClaimedRow, Coalesce, Row, Statuses, Decisions, Principals
  <1>6. ASSUME NEW s \in Decisions, NEW e \in EndUsers
        PROVE  EndUserResolvedRow(r, s, e, e) \in Row
    BY DEF EndUserResolvedRow, Coalesce, Row, Statuses, Principals
  <1>7. ASSUME NEW p \in Principals PROVE ChallengedRow(r, p, clock) \in Row
    <2>1. PhantomRow("pending", NoOne, clock) \in Row
      BY <1>3
    <2>2. [PhantomRow("pending", NoOne, clock) EXCEPT !.challenge = p] \in Row
      BY <2>1 DEF Row
    <2>3. [r EXCEPT !.challenge = p, !.expires = clock + PhantomTtl] \in Row
      <3>1. [r EXCEPT !.challenge = p, !.expires = y] \in Row
        BY DEF Row
      <3> QED BY <1>0, <3>1
    <2> QED BY <2>2, <2>3 DEF ChallengedRow
  <1>8. ChallengeTakenRow(r, clock) \in Row
    BY DEF ChallengeTakenRow, Row
  <1>9. MessageStoredRow(r, clock) \in Row
    <2>1. PhantomRow("pending", NoOne, clock) \in Row
      BY <1>3
    <2>2. \A q \in Row : [q EXCEPT !.message = TRUE] \in Row
      BY DEF Row
    <2> QED BY <2>1, <2>2 DEF MessageStoredRow
  <1> QED BY <1>1, <1>2, <1>4, <1>5, <1>6, <1>7, <1>8, <1>9

(***************************************************************************)
(* What any step of any client does to one row: it leaves it alone,        *)
(* removes it, or is one of the statements above.  Every theorem below     *)
(* argues from this one fact, so each argument is made once per statement. *)
(***************************************************************************)
Statement(t) ==
    \/ \E eu \in EndUsers \cup {NoOne}, x \in Nat :
          rows'[t] = SavedRow(rows[t], eu, x) /\ via'[t] = via[t] /\ claims'[t] = claims[t]
    \/ \E s \in Decisions, by \in Principals \cup {NoOne} :
          /\ rows'[t] = ResolvedRow(rows[t], s, by, now)
          /\ via'[t] \in {via[t], "team"}
          /\ claims'[t] = claims[t]
    \/ \E by \in Members :
          /\ rows'[t] = ClaimedRow(rows[t], by)
          /\ via'[t] \in {via[t], "team"}
          /\ claims'[t] = IF ClaimHits(rows[t]) THEN claims[t] + 1 ELSE claims[t]
    \/ \E e \in EndUsers, s \in Decisions :
          /\ rows'[t] = EndUserResolvedRow(rows[t], s, e, e)
          /\ via'[t] = IF rows'[t].status = "approved" /\ rows[t].status # "approved"
                       THEN e ELSE via[t]
          /\ claims'[t] = claims[t]
    \/ /\ \/ \E p \in Principals : rows'[t] = ChallengedRow(rows[t], p, now)
          \/ rows'[t] = ChallengeTakenRow(rows[t], now)
          \/ rows'[t] = MessageStoredRow(rows[t], now)
       /\ via'[t] = via[t] /\ claims'[t] = claims[t]
    \/ rows'[t] = AbsentRow /\ via'[t] = "none" /\ claims'[t] = 0
    \/ rows'[t] = rows[t] /\ via'[t] = via[t] /\ claims'[t] = claims[t]

\* Every step of the specification is, for each row, one of these statements.
LEMMA StepIsStatement ==
    ASSUME TypeOK, [Next]_vars, NEW t \in Txns
    PROVE  Statement(t)
  <1> USE DEF TypeOK
  <1>1. ASSUME NEW u \in Txns, NEW eu \in EndUsers \cup {NoOne}, NEW ttl \in Ttls,
               SavePendingApproval(u, eu, ttl)
        PROVE  Statement(t)
    <2>1. now + ttl \in Nat
      BY StoreAssumption
    <2>2. CASE u = t
      BY <1>1, <2>1, <2>2 DEF SavePendingApproval, Statement
    <2>3. CASE u # t
      BY <1>1, <2>3 DEF SavePendingApproval, Statement
    <2> QED BY <2>2, <2>3
  <1>2. ASSUME NEW u \in Txns, NEW s \in Decisions, NEW by \in Principals \cup {NoOne},
               ResolvePendingApproval(u, s, by)
        PROVE  Statement(t)
    <2>1. CASE u = t
      BY <1>2, <2>1 DEF ResolvePendingApproval, ViaAfter, Statement
    <2>2. CASE u # t
      BY <1>2, <2>2 DEF ResolvePendingApproval, ViaAfter, Statement
    <2> QED BY <2>1, <2>2
  <1>3. ASSUME NEW u \in Txns, NEW by \in Members, ClaimPendingApprovalForGrant(u, by)
        PROVE  Statement(t)
    <2>1. CASE u = t
      BY <1>3, <2>1 DEF ClaimPendingApprovalForGrant, ViaAfter, Statement
    <2>2. CASE u # t
      BY <1>3, <2>2 DEF ClaimPendingApprovalForGrant, ViaAfter, Statement
    <2> QED BY <2>1, <2>2
  <1>4. ASSUME NEW u \in Txns, NEW e \in EndUsers, NEW s \in Decisions,
               ResolvePendingApprovalAsEndUser(u, s, e, e)
        PROVE  Statement(t)
    <2>1. CASE u = t
      BY <1>4, <2>1 DEF ResolvePendingApprovalAsEndUser, ViaAfter, Statement
    <2>2. CASE u # t
      BY <1>4, <2>2 DEF ResolvePendingApprovalAsEndUser, ViaAfter, Statement
    <2> QED BY <2>1, <2>2
  <1>5. ASSUME NEW u \in Txns, NEW p \in Principals, SetPendingApprovalChallenge(u, p)
        PROVE  Statement(t)
    <2>1. CASE u = t
      BY <1>5, <2>1 DEF SetPendingApprovalChallenge, Statement
    <2>2. CASE u # t
      BY <1>5, <2>2 DEF SetPendingApprovalChallenge, Statement
    <2> QED BY <2>1, <2>2
  <1>6. ASSUME NEW u \in Txns,
               TakePendingApprovalChallenge(u) \/ SetPendingApprovalMessage(u)
        PROVE  Statement(t)
    <2>1. CASE u = t
      BY <1>6, <2>1 DEF TakePendingApprovalChallenge, SetPendingApprovalMessage, Statement
    <2>2. CASE u # t
      BY <1>6, <2>2 DEF TakePendingApprovalChallenge, SetPendingApprovalMessage, Statement
    <2> QED BY <2>1, <2>2
  <1>7. ASSUME NEW u \in Txns, DeletePendingApproval(u)
        PROVE  Statement(t)
    <2>1. CASE u = t
      BY <1>7, <2>1 DEF DeletePendingApproval, Statement
    <2>2. CASE u # t
      BY <1>7, <2>2 DEF DeletePendingApproval, Statement
    <2> QED BY <2>1, <2>2
  <1>8. ASSUME CleanupExpiredRows PROVE Statement(t)
    BY <1>8 DEF CleanupExpiredRows, Statement
  <1>9. ASSUME Tick \/ UNCHANGED vars PROVE Statement(t)
    BY <1>9 DEF Tick, vars, Statement
  <1> QED
    BY <1>1, <1>2, <1>3, <1>4, <1>5, <1>6, <1>7, <1>8, <1>9 DEF Next

\* A statement leaves a well-typed row.
LEMMA StatementTypes ==
    ASSUME NEW t \in Txns, Statement(t), rows[t] \in Row, now \in Nat
    PROVE  rows'[t] \in Row
  BY RowTypes DEF Statement

\* A decided row keeps its decision and its resolver unless it is removed.
LEMMA DecidedRowKept ==
    ASSUME TypeOK, NEW t \in Txns, Statement(t), rows[t].status \in Decisions
    PROVE  \/ rows'[t] = AbsentRow /\ claims'[t] = 0
           \/ /\ rows'[t].status = rows[t].status
              /\ rows[t].by # NoOne => rows'[t].by # NoOne
  <1> DEFINE r == rows[t]
             Kept(q) == q.status = r.status /\ (r.by # NoOne => q.by # NoOne)
  <1>0. r \in Row /\ r.status \notin {"absent", "pending"}
    BY DEF TypeOK, Decisions
  <1>1. \A eu, x : Kept(SavedRow(r, eu, x))
    BY <1>0 DEF SavedRow, Row
  <1>2. \A s, by : Kept(ResolvedRow(r, s, by, now))
    BY <1>0 DEF ResolvedRow, ResolveHits, Coalesce, Row
  <1>3. \A by : ClaimedRow(r, by) = r
    BY <1>0 DEF ClaimedRow, ClaimHits
  <1>4. \A s, e : EndUserResolvedRow(r, s, e, e) = r
    BY <1>0 DEF EndUserResolvedRow, EndUserHits
  <1>5. \A p : ChallengedRow(r, p, now) = r
    BY <1>0 DEF ChallengedRow
  <1>6. ChallengeTakenRow(r, now) = r /\ Kept(MessageStoredRow(r, now))
    <2>1. ChallengeTakenRow(r, now) = r
      BY <1>0 DEF ChallengeTakenRow, ChallengeTakeable, Actionable
    <2>2. MessageStoredRow(r, now) = [r EXCEPT !.message = TRUE]
      BY <1>0 DEF MessageStoredRow
    <2>3. Kept(MessageStoredRow(r, now))
      BY <1>0, <2>2 DEF Row
    <2> QED BY <2>1, <2>3
  <1>7. (rows'[t] = AbsentRow /\ claims'[t] = 0) \/ Kept(rows'[t])
    <2> HIDE DEF Kept
    <2>1. Kept(r)
      BY DEF Kept
    <2> QED BY <1>1, <1>2, <1>3, <1>4, <1>5, <1>6, <2>1 DEF Statement
  <1> QED BY <1>7

(***************************************************************************)
(* The theorems.                                                           *)
(***************************************************************************)

\* A step of any client keeps the types of the table.
LEMMA StepKeepsTypes ==
    ASSUME TypeOK, [Next]_vars
    PROVE  TypeOK'
  <1>1. ASSUME NEW t \in Txns
        PROVE  /\ rows'[t] \in Row
               /\ via'[t] \in ({"none", "team"} \cup EndUsers)
               /\ claims'[t] \in Nat
    <2>1. Statement(t)
      BY StepIsStatement
    <2>2. /\ rows[t] \in Row /\ now \in Nat
          /\ via[t] \in ({"none", "team"} \cup EndUsers) /\ claims[t] \in Nat
      BY DEF TypeOK
    <2>3. rows'[t] \in Row
      BY <2>1, <2>2, StatementTypes
    <2>4. via'[t] \in ({"none", "team"} \cup EndUsers) /\ claims'[t] \in Nat
      BY <2>1, <2>2 DEF Statement
    <2> QED BY <2>3, <2>4
  <1>2. /\ rows' = [t \in Txns |-> rows'[t]]
        /\ via' = [t \in Txns |-> via'[t]]
        /\ claims' = [t \in Txns |-> claims'[t]]
        /\ now' \in Nat
    BY DEF TypeOK, Next, vars, SavePendingApproval, ResolvePendingApproval, ViaAfter,
           ClaimPendingApprovalForGrant, ResolvePendingApprovalAsEndUser,
           SetPendingApprovalChallenge, TakePendingApprovalChallenge,
           SetPendingApprovalMessage, DeletePendingApproval, CleanupExpiredRows, Tick
  <1> QED BY <1>1, <1>2 DEF TypeOK

\* The table, the clock and the history keep their types.
THEOREM TypeCorrect == Spec => []TypeOK
  <1>1. Init => TypeOK
    <2>1. AbsentRow \in Row
      BY DEF AbsentRow, Row, Statuses
    <2> QED BY <2>1 DEF Init, TypeOK
  <1> QED BY <1>1, StepKeepsTypes, PTL DEF Spec

\* At most one grant claim succeeds on a row: the claim moves the row from
\* pending to approved, and nothing makes an approved row pending again.
THEOREM ClaimsAreExclusive == Spec => []AtMostOneClaim
  <1>1. Init => ClaimInv
    BY DEF Init, ClaimInv
  <1>2. TypeOK /\ ClaimInv /\ [Next]_vars => ClaimInv'
    <2> SUFFICES ASSUME TypeOK, ClaimInv, [Next]_vars, NEW t \in Txns
                 PROVE  /\ claims'[t] \in {0, 1}
                        /\ claims'[t] = 1 => rows'[t].status = "approved"
      BY DEF ClaimInv
    <2>1. Statement(t)
      BY StepIsStatement
    <2>2. /\ rows[t] \in Row
          /\ claims[t] \in {0, 1}
          /\ claims[t] = 1 => rows[t].status = "approved"
      BY DEF TypeOK, ClaimInv
    <2>3. CASE rows'[t] = AbsentRow /\ via'[t] = "none" /\ claims'[t] = 0
      BY <2>3
    <2>4. CASE \E by \in Members :
                 /\ rows'[t] = ClaimedRow(rows[t], by)
                 /\ claims'[t] = IF ClaimHits(rows[t]) THEN claims[t] + 1 ELSE claims[t]
      BY <2>2, <2>4 DEF ClaimedRow, ClaimHits, Row
    <2>5. CASE claims'[t] = claims[t] /\ claims[t] = 0
      BY <2>5
    <2>6. CASE claims'[t] = claims[t] /\ claims[t] = 1
      <3>1. rows[t].status \in Decisions
        BY <2>2, <2>6 DEF Decisions
      <3>2. rows'[t].status = rows[t].status
        BY <2>1, <2>6, <3>1, DecidedRowKept
      <3> QED BY <2>2, <2>6, <3>2
    <2>7. claims'[t] = claims[t] => claims[t] = 0 \/ claims[t] = 1
      BY <2>2
    <2> QED BY <2>1, <2>3, <2>4, <2>5, <2>6, <2>7 DEF Statement
  <1>3. ClaimInv => AtMostOneClaim
    BY DEF ClaimInv, AtMostOneClaim
  <1> QED BY <1>1, <1>2, <1>3, TypeCorrect, PTL DEF Spec

\* The first decision on a row is its last.
THEOREM FirstDecisionWins == Spec => DecisionIsFinal
  <1>1. TypeOK /\ [Next]_vars =>
          [\A t \in Txns : rows[t].status \in Decisions
             => rows'[t].status \in {rows[t].status, "absent"}]_vars
    <2> SUFFICES ASSUME TypeOK, [Next]_vars, NEW t \in Txns, rows[t].status \in Decisions
                 PROVE  rows'[t].status \in {rows[t].status, "absent"}
      OBVIOUS
    <2>1. Statement(t) /\ rows[t] \in Row
      BY StepIsStatement DEF TypeOK
    <2>2. AbsentRow.status = "absent"
      BY DEF AbsentRow
    <2> QED BY <2>1, <2>2, DecidedRowKept
  <1> QED BY <1>1, TypeCorrect, PTL DEF Spec, DecisionIsFinal

\* Who resolved a row is never erased while its decision stands.
THEOREM ResolverSurvives == Spec => ResolverIsKept
  <1>1. TypeOK /\ [Next]_vars =>
          [\A t \in Txns :
             /\ rows[t].status \in Decisions
             /\ rows[t].by # NoOne
             /\ rows'[t].status # "absent"
             => rows'[t].by # NoOne]_vars
    <2> SUFFICES ASSUME TypeOK, [Next]_vars, NEW t \in Txns, rows[t].status \in Decisions,
                        rows[t].by # NoOne, rows'[t].status # "absent"
                 PROVE  rows'[t].by # NoOne
      OBVIOUS
    <2>1. Statement(t) /\ rows[t] \in Row
      BY StepIsStatement DEF TypeOK
    <2>2. AbsentRow.status = "absent"
      BY DEF AbsentRow
    <2> QED BY <2>1, <2>2, DecidedRowKept
  <1> QED BY <1>1, TypeCorrect, PTL DEF Spec, ResolverIsKept

\* A transaction without a row carries no leftover of an earlier one.
THEOREM AbsentRowsAreEmpty == Spec => []AbsentInv
  <1>1. Init => AbsentInv
    BY DEF Init, AbsentInv
  <1>2. TypeOK /\ AbsentInv /\ [Next]_vars => AbsentInv'
    <2> SUFFICES ASSUME TypeOK, AbsentInv, [Next]_vars, NEW t \in Txns,
                        rows'[t].status = "absent"
                 PROVE  rows'[t] = AbsentRow
      BY DEF AbsentInv
    <2> DEFINE r == rows[t]
               Good(q) == q.status = "absent" => q = AbsentRow
    <2>1. Statement(t) /\ r \in Row /\ Good(r)
      BY StepIsStatement DEF TypeOK, AbsentInv
    <2>2. \A eu, x : Good(SavedRow(r, eu, x))
      BY <2>1 DEF SavedRow, AbsentRow, Row
    <2>3. \A s \in Decisions : \A by : Good(ResolvedRow(r, s, by, now))
      BY <2>1 DEF ResolvedRow, ResolveHits, PhantomRow, Decisions, Row
    <2>4. \A by : Good(ClaimedRow(r, by))
      BY <2>1 DEF ClaimedRow, Row
    <2>5. \A s \in Decisions : \A e : Good(EndUserResolvedRow(r, s, e, e))
      BY <2>1 DEF EndUserResolvedRow, Decisions, Row
    <2>6. \A p : Good(ChallengedRow(r, p, now))
      BY <2>1 DEF ChallengedRow, PhantomRow, Row
    <2>7. Good(ChallengeTakenRow(r, now)) /\ Good(MessageStoredRow(r, now))
      BY <2>1 DEF ChallengeTakenRow, ChallengeTakeable, Actionable, MessageStoredRow,
                  PhantomRow, Row
    <2>8. Good(rows'[t])
      <3>1. Good(AbsentRow)
        OBVIOUS
      <3> HIDE DEF Good
      <3> QED BY <2>1, <2>2, <2>3, <2>4, <2>5, <2>6, <2>7, <3>1 DEF Statement
    <2> QED BY <2>8
  <1> QED BY <1>1, <1>2, TypeCorrect, PTL DEF Spec

\* A row reserved for an end-user is approved by that end-user or by nobody,
\* whichever of the store's statements its clients use and in whichever order.
THEOREM ReservedRowsAreGated == Spec => EndUserGate
  <1>1. TypeOK /\ AbsentInv /\ [Next]_vars =>
          [\A t \in Txns : rows[t].eu # NoOne =>
             /\ rows'[t].status = "approved" /\ rows[t].status # "approved"
                  => via'[t] = rows[t].eu
             /\ rows'[t].status # "absent" => rows'[t].eu # NoOne]_vars
    <2> SUFFICES ASSUME TypeOK, AbsentInv, [Next]_vars, NEW t \in Txns, rows[t].eu # NoOne
                 PROVE  /\ rows'[t].status = "approved" /\ rows[t].status # "approved"
                             => via'[t] = rows[t].eu
                        /\ rows'[t].status # "absent" => rows'[t].eu # NoOne
      OBVIOUS
    <2> DEFINE r == rows[t]
    <2>1. Statement(t) /\ r \in Row /\ r.status # "absent"
      <3>1. AbsentRow.eu = NoOne
        BY DEF AbsentRow
      <3>2. r \in Row /\ r.status # "absent"
        BY <3>1 DEF TypeOK, AbsentInv
      <3> QED BY <3>2, StepIsStatement
    <2>2. AbsentRow.status = "absent"
      BY DEF AbsentRow
    <2>3. \A eu, x : LET q == SavedRow(r, eu, x)
                     IN  q.status = r.status /\ q.eu # NoOne
      BY <2>1 DEF SavedRow, Coalesce, Row
    <2>4. \A s \in Decisions : \A by : LET q == ResolvedRow(r, s, by, now)
                     IN  q.eu = r.eu /\ (q.status = "approved" => r.status = "approved")
      BY <2>1 DEF ResolvedRow, ResolveHits, Row
    <2>5. \A by : ClaimedRow(r, by) = r
      BY DEF ClaimedRow, ClaimHits
    <2>6. \A s, e : LET q == EndUserResolvedRow(r, s, e, e)
                    IN  q.eu = r.eu /\ (q.status # r.status => e = r.eu)
      BY <2>1 DEF EndUserResolvedRow, EndUserHits, Row
    <2>7. \A p : LET q == ChallengedRow(r, p, now) IN q.eu = r.eu /\ q.status = r.status
      BY <2>1 DEF ChallengedRow, Row
    <2>8. LET q == ChallengeTakenRow(r, now) IN q.eu = r.eu /\ q.status = r.status
      BY <2>1 DEF ChallengeTakenRow, Row
    <2>9. LET q == MessageStoredRow(r, now) IN q.eu = r.eu /\ q.status = r.status
      BY <2>1 DEF MessageStoredRow, Row
    <2> HIDE DEF r
    <2>10. rows[t] = r
      BY DEF r
    <2> QED BY <2>1, <2>2, <2>3, <2>4, <2>5, <2>6, <2>7, <2>8, <2>9, <2>10 DEF Statement
  <1> QED BY <1>1, TypeCorrect, AbsentRowsAreEmpty, PTL DEF Spec, EndUserGate
=============================================================================
