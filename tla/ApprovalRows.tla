---------------------------- MODULE ApprovalRows ----------------------------
(***************************************************************************)
(* One row of the table pending_approvals, and what each SQL statement of  *)
(* ConfigStore (crates/tap-core/src/store.rs) makes of it.  The statements *)
(* are single INSERT ... ON CONFLICT, UPDATE or DELETE statements, so each *)
(* one is atomic: an operator here takes the row before and gives the row  *)
(* after.  A row that does not exist is AbsentRow.                         *)
(*                                                                         *)
(* The columns kept are the ones that decide who may act on the row:       *)
(*   status     'pending', or the decision                                 *)
(*   eu         required_end_user (NoOne when NULL)                        *)
(*   by         resolved_by (NoOne when NULL)                              *)
(*   expires    expires_at, in units of the model's clock                  *)
(*   challenge  whose passkey approval_challenge_json asks for (NoOne when *)
(*              NULL)                                                      *)
(*   details    whether details_json describes a request or is the '{}' an *)
(*              upsert writes when it has to create the row                *)
(*   message    whether the columns of the bot's message are set           *)
(***************************************************************************)
EXTENDS Naturals

CONSTANTS
    EndUsers,    \* external ids of the managed end-users
    Members,     \* team members, who approve for the team
    NoOne,       \* SQL NULL in an identity column
    PhantomTtl   \* lifetime the upserts give a row: 20 minutes

Principals == EndUsers \cup Members

ASSUME RowAssumption ==
    /\ EndUsers \cap Members = {}
    /\ NoOne \notin Principals
    /\ PhantomTtl \in Nat \ {0}

Decisions == {"approved", "denied", "expired"}
Statuses  == {"absent", "pending"} \cup Decisions

Row == [status    : Statuses,
        eu        : EndUsers \cup {NoOne},
        by        : Principals \cup {NoOne},
        expires   : Nat,
        challenge : Principals \cup {NoOne},
        details   : BOOLEAN,
        message   : BOOLEAN]

AbsentRow == [status |-> "absent", eu |-> NoOne, by |-> NoOne, expires |-> 0,
              challenge |-> NoOne, details |-> FALSE, message |-> FALSE]

Coalesce(new, old) == IF new = NoOne THEN old ELSE new

\* The row an upsert creates when it finds none: details '{}', no end-user.
\* (Faulty variant: the lifetime is taken off the clock.)
PhantomRowBackwards(status, by, now) ==
    [status |-> status, eu |-> NoOne, by |-> by, expires |-> now - PhantomTtl,
     challenge |-> NoOne, details |-> FALSE, message |-> FALSE]
PhantomRow(status, by, now) ==
    [status |-> status, eu |-> NoOne, by |-> by, expires |-> now + PhantomTtl,
     challenge |-> NoOne, details |-> FALSE, message |-> FALSE]

(***************************************************************************)
(* Reads.                                                                  *)
(***************************************************************************)

\* get_pending_approval_details: the request may be shown and acted upon.
Actionable(r, now) == r.status = "pending" /\ r.expires > now

(***************************************************************************)
(* Writes.                                                                 *)
(***************************************************************************)

\* Faulty variant: the late save of the details forgets who resolved the row.
SavedRowForgettingResolver(r, eu, expires) ==
    IF r.status = "absent"
    THEN [AbsentRow EXCEPT !.status = "pending", !.eu = eu, !.expires = expires,
                           !.details = TRUE]
    ELSE [r EXCEPT !.details = TRUE, !.by = NoOne, !.expires = expires,
                   !.eu = Coalesce(eu, @)]

\* save_pending_approval_scoped.  A decision that arrived before the row was
\* saved survives the save.
SavedRow(r, eu, expires) ==
    IF r.status = "absent"
    THEN [AbsentRow EXCEPT !.status = "pending", !.eu = eu, !.expires = expires,
                           !.details = TRUE]
    ELSE [r EXCEPT !.details = TRUE,
                   !.by      = IF r.status = "pending" THEN NoOne ELSE @,
                   !.expires = expires,
                   !.eu      = Coalesce(eu, @)]

\* resolve_pending_approval: an upsert that a decided row only lets through
\* when it repeats the decision, and a reserved row only when it denies or
\* expires.  Hits is rows_affected() > 0.  (Faulty variants: without the
\* end-user gate, and without the test of the row's status.)
ResolveHitsAnyone(r, status) == r.status \in {"absent", "pending", status}
ResolveHitsDecided(r, status) == status # "approved" \/ r.eu = NoOne
ResolveHits(r, status) ==
    /\ r.status \in {"absent", "pending", status}
    /\ status # "approved" \/ r.eu = NoOne

ResolvedRow(r, status, by, now) ==
    IF ~ ResolveHits(r, status) THEN r
    ELSE IF r.status = "absent" THEN PhantomRow(status, by, now)
    ELSE [r EXCEPT !.status = status, !.by = Coalesce(by, @)]

\* claim_pending_approval_for_grant: UPDATE only, strictly pending -> approved.
\* (Faulty variant: a repeated claim counts, as a repeated resolution does.)
ClaimHitsAgain(r) == r.status \in {"pending", "approved"} /\ r.eu = NoOne
ClaimHits(r) == r.status = "pending" /\ r.eu = NoOne

ClaimedRow(r, by) ==
    IF ClaimHits(r) THEN [r EXCEPT !.status = "approved", !.by = Coalesce(by, @)]
                    ELSE r

\* resolve_pending_approval_as_end_user: UPDATE only, the row's own end-user.
\* (Faulty variant: without the comparison of required_end_user.)
EndUserHitsAnyone(r, e) == r.status = "pending"
EndUserHits(r, e) == r.status = "pending" /\ r.eu = e

EndUserResolvedRow(r, status, e, by) ==
    IF EndUserHits(r, e) THEN [r EXCEPT !.status = status, !.by = Coalesce(by, @)]
                         ELSE r

\* set_pending_approval_challenge: the upsert also moves the row's expiry.
ChallengedRow(r, p, now) ==
    CASE r.status = "absent"  -> [PhantomRow("pending", NoOne, now) EXCEPT !.challenge = p]
      [] r.status = "pending" -> [r EXCEPT !.challenge = p, !.expires = now + PhantomTtl]
      [] OTHER                -> r

\* take_pending_approval_challenge: a challenge is read once.
ChallengeTakeable(r, now) == Actionable(r, now) /\ r.challenge # NoOne
ChallengeTakenRow(r, now) ==
    IF ChallengeTakeable(r, now) THEN [r EXCEPT !.challenge = NoOne] ELSE r

\* set_pending_approval_telegram_message and set_pending_approval_matrix_data:
\* they create the row when it is absent, and do not ask for its status.
MessageStoredRow(r, now) ==
    LET row == IF r.status = "absent" THEN PhantomRow("pending", NoOne, now) ELSE r
    IN  [row EXCEPT !.message = TRUE]

\* cleanup_expired_rows: decided rows past their expiry.  (Faulty variant: rows
\* claimed for the timeout are forgotten.)
PurgeableByPeople(r, now) == r.status \in {"approved", "denied"} /\ r.expires < now
Purgeable(r, now) == r.status \in Decisions /\ r.expires < now
=============================================================================
