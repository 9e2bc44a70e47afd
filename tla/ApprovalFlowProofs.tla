------------------------- MODULE ApprovalFlowProofs -------------------------
(***************************************************************************)
(* Theorems about ApprovalFlow, for any number of requests, instances,     *)
(* people, thresholds and any lifetimes, checked by TLAPS.                 *)
(*                                                                         *)
(* In this order: every variable keeps its type (TypeInv); the table only  *)
(* moves by the statements of PendingApprovals, so that the theorems of    *)
(* PendingApprovalsProofs hold of it; the inductive invariant FlowInv of a *)
(* request, from which nothing is forwarded unasked, no wake-up is lost    *)
(* and a reserved request needs its end-user; the row the agent polls      *)
(* (PollInv); the default deployment (DefaultInv), in which what people    *)
(* decide is what happens; and the deployment with bots (BotInv), in which *)
(* nothing is forwarded before enough people approved.                     *)
(***************************************************************************)
EXTENDS ApprovalFlow, SequenceTheorems, FiniteSetTheorems, TLAPS

\* The table with the theorems about it.
Table == INSTANCE PendingApprovalsProofs WITH Ttls <- {ApprovalTimeout, PendingTtl}

(***************************************************************************)
(* Types: the steps of the handlers' plans.                                *)
(***************************************************************************)

StepRecords ==
    [do : {"write", "signal", "claim", "mint", "uncache", "challenge", "take", "enduser",
           "forget", "tally", "count", "answer"},
     status : {"approved", "denied", "none"}, by : Principals \cup {NoOne},
     channel : {"telegram", "matrix", "none"}, answers : BOOLEAN]

\* A step principal p may have to do: only an end-user writes as one, only a
\* member claims a row for a grant.
Lawful(p, s) ==
    /\ s \in StepRecords
    /\ s.do \in {"write", "signal"} => s.status \in {"approved", "denied"}
    /\ s.do = "claim" => s.status = "approved" /\ s.by \in Members
    /\ s.do = "enduser" => s.status = "approved" /\ p \in EndUsers

Steps(p) == {s \in StepRecords : Lawful(p, s)}

\* The steps the surfaces put in their plans are lawful.
LEMMA StepKinds ==
    ASSUME NEW p
    PROVE  /\ \A s \in {"approved", "denied"}, by \in Principals \cup {NoOne} : Write(s, by) \in Steps(p)
           /\ \A by \in Members : Claim(by) \in Steps(p)
           /\ \A b \in {"telegram", "matrix"}, s \in {"approved", "denied"} : Signal(b, s) \in Steps(p)
           /\ {Uncache, Mint, Forget, Tally, Count, Answer} \subseteq Steps(p)
           /\ \A d \in {"take", "challenge"}, by \in Principals : Step(d, "none", by) \in Steps(p)
           /\ p \in EndUsers => \A by \in Principals : Step("enduser", "approved", by) \in Steps(p)
  <1> USE DEF Step, Lawful, Steps, StepRecords
  <1>1. \A s \in {"approved", "denied"}, by \in Principals \cup {NoOne} : Write(s, by) \in Steps(p)
    BY DEF Write
  <1>2. \A by \in Members : Claim(by) \in Steps(p)
    BY DEF Claim, Principals
  <1>3. \A b \in {"telegram", "matrix"}, s \in {"approved", "denied"} : Signal(b, s) \in Steps(p)
    BY DEF Signal
  <1>4. {Uncache, Mint, Forget, Tally, Count, Answer} \subseteq Steps(p)
    <2>1. Uncache \in Steps(p) /\ Mint \in Steps(p)
      BY DEF Uncache, Mint
    <2>2. Forget \in Steps(p) /\ Tally \in Steps(p)
      BY DEF Forget, Tally
    <2>3. Count \in Steps(p) /\ Answer \in Steps(p)
      BY DEF Count, Answer
    <2> HIDE DEF Step, Steps
    <2> QED BY <2>1, <2>2, <2>3
  <1>5. \A d \in {"take", "challenge"}, by \in Principals : Step(d, "none", by) \in Steps(p)
    OBVIOUS
  <1>6. p \in EndUsers => \A by \in Principals : Step("enduser", "approved", by) \in Steps(p)
    OBVIOUS
  <1> QED BY <1>1, <1>2, <1>3, <1>4, <1>5, <1>6

\* Silencing a plan (resolve_and_bridge ignores what the bots answer) keeps
\* its steps lawful and their number.
LEMMA SilentPlans ==
    ASSUME NEW p, NEW plan \in Seq(Steps(p))
    PROVE  Silent(plan) \in Seq(Steps(p)) /\ Len(Silent(plan)) = Len(plan)
  <1>1. ASSUME NEW s \in Steps(p)
        PROVE  [s EXCEPT !.answers = FALSE] \in Steps(p)
    <2>1. s \in StepRecords /\ Lawful(p, s)
      BY DEF Steps
    <2>2. [s EXCEPT !.answers = FALSE] \in StepRecords
      BY <2>1 DEF StepRecords
    <2>3. /\ [s EXCEPT !.answers = FALSE].do = s.do
          /\ [s EXCEPT !.answers = FALSE].status = s.status
          /\ [s EXCEPT !.answers = FALSE].by = s.by
      BY <2>1 DEF StepRecords
    <2> QED BY <2>1, <2>2, <2>3 DEF Steps, Lawful
  <1>2. DOMAIN plan = 1..Len(plan) /\ \A k \in 1..Len(plan) : plan[k] \in Steps(p)
    OBVIOUS
  <1> QED BY <1>1, <1>2 DEF Silent

\* The bridge to the configured bots is a lawful plan.
LEMMA Bridges ==
    ASSUME NEW p, NEW s \in {"approved", "denied"}, NEW by \in Principals \cup {NoOne}
    PROVE  Bridge(s, by) \in Seq(Steps(p))
  <1> DEFINE S == Steps(p)
  <1>1. /\ Signal("telegram", s) \in S /\ Signal("matrix", s) \in S
        /\ Write(s, by) \in S /\ Write(s, NoOne) \in S
    BY StepKinds
  <1> HIDE DEF S
  <1>2. TelegramResolve(s, NoOne) \in Seq(S) /\ MatrixResolve(s, by) \in Seq(S)
    BY <1>1 DEF TelegramResolve, MatrixResolve
  <1>3. <<>> \in Seq(S)
    OBVIOUS
  <1>4. Only("telegram", TelegramResolve(s, NoOne)) \in Seq(S) /\ Only("matrix", MatrixResolve(s, by)) \in Seq(S)
    BY <1>2, <1>3 DEF Only
  <1>5. Bridge(s, by) \in Seq(S)
    BY <1>4 DEF Bridge
  <1> QED BY <1>5 DEF S

\* Every plan a member can start is lawful and not empty.
LEMMA PlansAreLawful ==
    ASSUME NEW m \in Members
    PROVE  /\ \A s \in {"approved", "denied"} : DashboardPlan(s, m) \in Seq(Steps(m)) \ {<<>>}
           /\ GrantPlan(m) \in Seq(Steps(m)) \ {<<>>}
           /\ \A b \in {"telegram", "matrix"} : BotGrantPlan(b, m) \in Seq(Steps(m)) \ {<<>>}
           /\ PasskeyPlan(m) \in Seq(Steps(m)) \ {<<>>}
           /\ PasskeyDenyPlan \in Seq(Steps(m)) \ {<<>>}
           /\ <<Step("challenge", "none", m)>> \in Seq(Steps(m)) \ {<<>>}
           /\ \A s \in {"approved", "denied"} : TelegramResolve(s, m) \in Seq(Steps(m)) \ {<<>>}
           /\ \A s \in {"approved", "denied"}, i \in Instances, t \in Txns :
                 MatrixPlan(m, i, t, s) \in Seq(Steps(m)) \ {<<>>}
  <1> DEFINE S == Steps(m)
  <1>0. m \in Principals
    BY DEF Principals
  <1>1. /\ \A s \in {"approved", "denied"} :
              /\ Write(s, m) \in S /\ Write(s, NoOne) \in S
              /\ Signal("telegram", s) \in S /\ Signal("matrix", s) \in S
        /\ Claim(m) \in S
        /\ Uncache \in S /\ Mint \in S /\ Forget \in S /\ Tally \in S /\ Count \in S /\ Answer \in S
        /\ Step("take", "none", m) \in S /\ Step("challenge", "none", m) \in S
    BY <1>0, StepKinds
  <1>2. \A s \in {"approved", "denied"}, by \in {m, NoOne} :
           Bridge(s, by) \in Seq(S) /\ Silent(Bridge(s, by)) \in Seq(S)
    BY <1>0, Bridges, SilentPlans
  <1>3. \A s \in {"approved", "denied"}, by \in {m, NoOne} :
           WebAuthnResolve(s, by) \in Seq(S) /\ Len(WebAuthnResolve(s, by)) = 2
    BY <1>1 DEF WebAuthnResolve
  <1>4. \A x, y \in Seq(S) : x \o y \in Seq(S) /\ Len(x \o y) = Len(x) + Len(y)
    OBVIOUS
  <1>5. \A x \in Seq(S) : Len(x) \in Nat /\ (Len(x) > 0 => x # <<>>)
    OBVIOUS
  <1> HIDE DEF S
  <1>6. \A s \in {"approved", "denied"} : DashboardPlan(s, m) \in Seq(S) \ {<<>>}
    <2> TAKE s \in {"approved", "denied"}
    <2>1. Silent(Bridge(s, IF s = "approved" THEN m ELSE NoOne)) \in Seq(S)
      BY <1>2
    <2> QED BY <2>1, <1>3, <1>4, <1>5 DEF DashboardPlan
  <1>7. GrantPlan(m) \in Seq(S) \ {<<>>}
    <2>1. <<Uncache, Claim(m)>> \in Seq(S) /\ <<Mint>> \in Seq(S) /\ Len(<<Mint>>) = 1
      BY <1>1
    <2> QED BY <2>1, <1>2, <1>4, <1>5 DEF GrantPlan
  <1>8. \A b \in {"telegram", "matrix"} : BotGrantPlan(b, m) \in Seq(S) \ {<<>>}
    <2> SUFFICES ASSUME NEW b \in {"telegram", "matrix"} PROVE BotGrantPlan(b, m) \in Seq(S) \ {<<>>}
      OBVIOUS
    <2>1. <<Claim(m), Signal(b, "approved"), Mint>> \in Seq(S)
          /\ Len(<<Claim(m), Signal(b, "approved"), Mint>>) = 3
      BY <1>1
    <2>2. <<>> \in Seq(S) /\ <<Forget>> \in Seq(S)
      BY <1>1
    <2> QED BY <2>1, <2>2, <1>4, <1>5 DEF BotGrantPlan
  <1>9. PasskeyPlan(m) \in Seq(S) \ {<<>>}
    <2>1. <<Step("take", "none", m)>> \in Seq(S)
      BY <1>1
    <2> QED BY <2>1, <1>2, <1>3, <1>4, <1>5 DEF PasskeyPlan
  <1>10. PasskeyDenyPlan \in Seq(S) \ {<<>>}
    <2>1. <<Answer>> \in Seq(S)
      BY <1>1
    <2> QED BY <2>1, <1>2, <1>3, <1>4, <1>5 DEF PasskeyDenyPlan
  <1>11. <<Step("challenge", "none", m)>> \in Seq(S) \ {<<>>}
    BY <1>1
  <1>12. \A s \in {"approved", "denied"} : TelegramResolve(s, m) \in Seq(S) \ {<<>>}
    BY <1>1 DEF TelegramResolve
  <1>13. ASSUME NEW s \in {"approved", "denied"}, NEW i \in Instances, NEW t \in Txns
         PROVE  MatrixPlan(m, i, t, s) \in Seq(S) \ {<<>>}
    <2>1. MatrixResolve(s, m) \in Seq(S) /\ <<Forget>> \in Seq(S) /\ Len(<<Forget>>) = 1
      BY <1>1 DEF MatrixResolve
    <2>2. <<>> \in Seq(S) /\ <<Tally, Count>> \in Seq(S)
      BY <1>1
    <2> QED BY <2>1, <2>2, <1>4, <1>5 DEF MatrixPlan
  <1> QED BY <1>6, <1>7, <1>8, <1>9, <1>10, <1>11, <1>12, <1>13 DEF S

\* So is every plan of the end-user API.
LEMMA AppPlansAreLawful ==
    ASSUME NEW e \in EndUsers
    PROVE  /\ <<Step("challenge", "none", e)>> \in Seq(Steps(e)) \ {<<>>}
           /\ <<Step("take", "none", e)>> \o EndUserWrite(e) \in Seq(Steps(e)) \ {<<>>}
           /\ EndUserWrite(e) \in Seq(Steps(e)) \ {<<>>}
           /\ WebAuthnResolve("denied", NoOne) \o <<Answer>> \in Seq(Steps(e)) \ {<<>>}
           /\ <<Write("denied", e), Answer>> \in Seq(Steps(e)) \ {<<>>}
  <1> DEFINE S == Steps(e)
  <1>1. /\ Write("denied", e) \in S /\ Write("denied", NoOne) \in S
        /\ Uncache \in S /\ Answer \in S /\ Step("enduser", "approved", e) \in S
        /\ Step("take", "none", e) \in S /\ Step("challenge", "none", e) \in S
    BY StepKinds DEF Principals
  <1> HIDE DEF S
  <1>2. <<Step("challenge", "none", e)>> \in Seq(S) \ {<<>>}
    BY <1>1
  <1>3. EndUserWrite(e) \in Seq(S) \ {<<>>}
    BY <1>1 DEF EndUserWrite
  <1>4. <<Step("take", "none", e)>> \o EndUserWrite(e) \in Seq(S) \ {<<>>}
    BY <1>1 DEF EndUserWrite
  <1>5. WebAuthnResolve("denied", NoOne) \o <<Answer>> \in Seq(S) \ {<<>>}
    BY <1>1 DEF WebAuthnResolve
  <1>6. <<Write("denied", e), Answer>> \in Seq(S) \ {<<>>}
    BY <1>1
  <1> QED BY <1>2, <1>3, <1>4, <1>5, <1>6 DEF S

\* A running handler; phases of a task that presuppose a verdict.
OpType(p) == [inst : Instances, txn : Txns, status : {"approved", "denied", "none"},
              ok : BOOLEAN, todo : Seq(Steps(p)) \ {<<>>}]

OpsOK == /\ ops = [p \in Principals |-> ops[p]]
         /\ \A p \in Principals : ops[p] = Idle \/ ops[p] \in OpType(p)

PhaseOK == \A t \in Txns :
    /\ task[t].pc = "record"   => task[t].verdict \in {"denied", "timeout", "error"}
    /\ task[t].pc = "identify" => task[t].verdict \in {"approved", "denied"}
    /\ task[t].pc = "cleanup"  => task[t].verdict # "none"

TypeInv == TypeOK /\ OpsOK /\ PhaseOK

\* What an action of a person does: it opens a handler, or only counts a vote.
Opening(i, t) ==
    \/ /\ UNCHANGED <<store, async, inflight, task, mem, hist>>
       /\ \E p \in Principals, s \in {"approved", "denied", "none"} :
             \E plan \in Seq(Steps(p)) \ {<<>>} :
             /\ ops[p] = Idle
             /\ ops' = [ops EXCEPT ![p] = [inst |-> i, txn |-> t, status |-> s,
                                           ok |-> FALSE, todo |-> plan]]
    \/ UNCHANGED <<store, async, inflight, task, mem, hist, ops>>

\* Act, whatever the surface, opens a lawful handler for an idle person.
LEMMA ActIsOpening ==
    ASSUME TypeInv, NEW i \in Instances, NEW t \in Txns, Act(i, t)
    PROVE  Opening(i, t)
  <1>0. ASSUME NEW p \in Principals, NEW s \in {"approved", "denied", "none"},
               NEW plan \in Seq(Steps(p)) \ {<<>>}, Start(p, i, t, s, plan)
        PROVE  Opening(i, t)
    BY <1>0 DEF Start, Opening
  <1>1. CASE GrantReactionRefused(i, t)
    BY <1>1 DEF GrantReactionRefused, Opening
  <1>2. ASSUME NEW m \in Members, NEW s \in {"approved", "denied"},
               DashboardResolve(m, i, t, s) \/ TelegramCallback(m, i, t, s) \/ MatrixReaction(m, i, t, s)
        PROVE  Opening(i, t)
    <2>1. m \in Principals /\ s \in {"approved", "denied", "none"}
      BY DEF Principals
    <2>2. /\ DashboardPlan(s, m) \in Seq(Steps(m)) \ {<<>>}
          /\ TelegramResolve(s, m) \in Seq(Steps(m)) \ {<<>>}
          /\ MatrixPlan(m, i, t, s) \in Seq(Steps(m)) \ {<<>>}
      BY PlansAreLawful
    <2>3. \E plan \in Seq(Steps(m)) \ {<<>>} : Start(m, i, t, s, plan)
      BY <1>2, <2>2 DEF DashboardResolve, StartOnPage, TelegramCallback, MatrixReaction
    <2> QED BY <2>1, <2>3, <1>0
  <1>3. ASSUME NEW m \in Members, TelegramPartial(m, i, t) \/ MatrixPartial(m, i, t)
        PROVE  Opening(i, t)
    BY <1>3 DEF TelegramPartial, MatrixPartial, PartialVote, Opening
  <1>4. ASSUME NEW m \in Members,
               \/ ApproveWithGrant(m, i, t) \/ BotGrant(m, i, t)
               \/ ApprovalBegin(m, i, t) \/ ApprovalFinish(m, i, t) \/ ApprovalDeny(m, i, t)
        PROVE  Opening(i, t)
    <2>1. m \in Principals
      BY DEF Principals
    <2>2. /\ GrantPlan(m) \in Seq(Steps(m)) \ {<<>>}
          /\ \A b \in Bots : BotGrantPlan(b, m) \in Seq(Steps(m)) \ {<<>>}
          /\ PasskeyPlan(m) \in Seq(Steps(m)) \ {<<>>}
          /\ PasskeyDenyPlan \in Seq(Steps(m)) \ {<<>>}
          /\ <<Step("challenge", "none", m)>> \in Seq(Steps(m)) \ {<<>>}
      BY PlansAreLawful DEF Bots
    <2>3. \E s \in {"approved", "denied", "none"}, plan \in Seq(Steps(m)) \ {<<>>} :
             Start(m, i, t, s, plan)
      BY <1>4, <2>2 DEF ApproveWithGrant, BotGrant, ApprovalBegin, ApprovalFinish, ApprovalDeny,
                        StartOnPage
    <2> QED BY <2>1, <2>3, <1>0
  <1>5. ASSUME NEW e \in EndUsers,
               \/ AppPasskeyBegin(e, i, t) \/ AppPasskeyFinish(e, i, t)
               \/ AppApprove(e, i, t) \/ AppDeny(e, i, t)
        PROVE  Opening(i, t)
    <2>1. e \in Principals
      BY DEF Principals
    <2>2. /\ <<Step("challenge", "none", e)>> \in Seq(Steps(e)) \ {<<>>}
          /\ <<Step("take", "none", e)>> \o EndUserWrite(e) \in Seq(Steps(e)) \ {<<>>}
          /\ EndUserWrite(e) \in Seq(Steps(e)) \ {<<>>}
          /\ WebAuthnResolve("denied", NoOne) \o <<Answer>> \in Seq(Steps(e)) \ {<<>>}
          /\ <<Write("denied", e), Answer>> \in Seq(Steps(e)) \ {<<>>}
      BY AppPlansAreLawful
    <2>3. \E s \in {"approved", "denied", "none"}, plan \in Seq(Steps(e)) \ {<<>>} :
             Start(e, i, t, s, plan)
      BY <1>5, <2>2 DEF AppPasskeyBegin, AppPasskeyFinish, AppApprove, AppDeny, StartInApp
    <2> QED BY <2>1, <2>3, <1>0
  <1> QED BY <1>1, <1>2, <1>3, <1>4, <1>5 DEF Act

\* The handler at work, its request and the step it is at.
LEMMA RunFacts ==
    ASSUME TypeInv, NEW p \in Principals, ops[p].todo # <<>>
    PROVE  /\ ops[p] \in OpType(p)
           /\ ops[p].txn \in Txns /\ ops[p].inst \in Instances
           /\ Head(ops[p].todo) \in Steps(p)
           /\ Tail(ops[p].todo) \in Seq(Steps(p))
           /\ Len(ops[p].todo) # 1 => Tail(ops[p].todo) # <<>>
  <1>1. ops[p] \in OpType(p)
    BY DEF TypeInv, OpsOK, Idle
  <1>2. ops[p].txn \in Txns /\ ops[p].inst \in Instances /\ ops[p].todo \in Seq(Steps(p)) \ {<<>>}
    BY <1>1 DEF OpType
  <1>3. ASSUME NEW S, NEW x \in Seq(S) \ {<<>>}
        PROVE  /\ Head(x) \in S /\ Tail(x) \in Seq(S)
               /\ Len(x) # 1 => Tail(x) # <<>>
    <2>1. Len(x) \in Nat \ {0} /\ Head(x) \in S /\ Tail(x) \in Seq(S) /\ Len(Tail(x)) = Len(x) - 1
      OBVIOUS
    <2>2. Len(<<>>) = 0
      OBVIOUS
    <2> QED BY <2>1, <2>2
  <1> QED BY <1>1, <1>2, <1>3

StoreMoves == [Store!Next]_(Store!vars)

\* Each statement the flow issues is a step of PendingApprovals.
LEMMA StatementsMove ==
    ASSUME NEW t \in Txns
    PROVE  /\ \A eu \in EndUsers \cup {NoOne}, ttl \in {ApprovalTimeout, PendingTtl} :
                 Store!SavePendingApproval(t, eu, ttl) => StoreMoves
           /\ \A s \in Decisions, by \in Principals \cup {NoOne} :
                 Store!ResolvePendingApproval(t, s, by) => StoreMoves
           /\ \A by \in Members : Store!ClaimPendingApprovalForGrant(t, by) => StoreMoves
           /\ \A e \in EndUsers : Store!ResolvePendingApprovalAsEndUser(t, "approved", e, e) => StoreMoves
           /\ \A p \in Principals : Store!SetPendingApprovalChallenge(t, p) => StoreMoves
           /\ Store!TakePendingApprovalChallenge(t) => StoreMoves
           /\ Store!SetPendingApprovalMessage(t) => StoreMoves
           /\ Store!DeletePendingApproval(t) => StoreMoves
           /\ Store!CleanupExpiredRows => StoreMoves
           /\ Store!Tick => StoreMoves
           /\ UNCHANGED store => StoreMoves
  BY DEF StoreMoves, Store!Next, Store!vars, store, Store!Decisions, Store!Principals, Decisions, Principals

\* Every step of the flow issues at most one statement: the refinement.
LEMMA StepMovesStore ==
    ASSUME TypeInv, [Next]_vars
    PROVE  StoreMoves
  <1> USE DEF TypeInv
  <1>1. ASSUME NEW t \in Txns, Receive(t) PROVE StoreMoves
    <2>1. Store!SavePendingApproval(t, NoOne, PendingTtl) => StoreMoves
      <3>1. NoOne \in EndUsers \cup {NoOne} /\ PendingTtl \in {ApprovalTimeout, PendingTtl}
        OBVIOUS
      <3> QED BY <3>1, StatementsMove
    <2>2. UNCHANGED store => StoreMoves
      BY StatementsMove
    <2>3. Store!SavePendingApproval(t, NoOne, PendingTtl) \/ UNCHANGED store
      BY <1>1 DEF Receive, ReceiveForward
    <2> QED BY <2>1, <2>2, <2>3
  <1>2. ASSUME NEW t \in Txns, Handle(t) PROVE StoreMoves
    <2>1. task[t].eu \in EndUsers \cup {NoOne}
      BY DEF TypeOK, TaskType
    <2>2. CASE SendDashboard(t) \/ SendAgentReflected(t)
      BY <2>1, <2>2, StatementsMove DEF SendDashboard, SendAgentReflected, SelfPersistingSend
    <2>3. CASE RegisterPending(t) \/ DeliverMessage(t) \/ SendFails(t)
      BY <2>3, StatementsMove DEF RegisterPending, DeliverMessage, SendFails
    <2>4. CASE StoreMessage(t)
      BY <2>4, StatementsMove DEF StoreMessage
    <2>5. CASE Queue(t)
      <3>1. NoOne \in EndUsers \cup {NoOne}
        OBVIOUS
      <3> QED BY <2>5, <3>1, StatementsMove DEF Queue
    <2> QED BY <1>2, <2>2, <2>3, <2>4, <2>5 DEF Handle
  <1>3. ASSUME NEW t \in Txns, Wait(t) PROVE StoreMoves
    <2>1. "expired" \in Decisions /\ NoOne \in Principals \cup {NoOne}
      BY DEF Decisions
    <2>2. CASE PollDashboard(t)
      BY <2>2, StatementsMove DEF PollDashboard
    <2>3. CASE ExpireRow(t) \/ TelegramDeadline(t)
      BY <2>1, <2>3, StatementsMove DEF ExpireRow, TelegramDeadline
    <2>4. CASE \/ PollAgentReflected(t) \/ GiveUp(t) \/ ReceiveSignal(t) \/ PollBot(t)
               \/ MatrixDeadline(t) \/ CleanupPendingRequest(t) \/ Identify(t) \/ Forward(t) \/ Record(t)
      BY <2>4, StatementsMove
         DEF PollAgentReflected, GiveUp, ReceiveSignal, PollBot, MatrixDeadline,
             CleanupPendingRequest, Identify, Forward, Record, Finish
    <2> QED BY <1>3, <2>2, <2>3, <2>4 DEF Wait
  <1>4. ASSUME NEW i \in Instances, NEW t \in Txns, Act(i, t) PROVE StoreMoves
    <2>1. Opening(i, t)
      BY <1>4, ActIsOpening
    <2> QED BY <2>1, StatementsMove DEF Opening
  <1>5. ASSUME NEW p \in Principals, Run(p) PROVE StoreMoves
    <2> DEFINE t == ops[p].txn
               w == Head(ops[p].todo)
    <2>1. ops[p].todo # <<>>
      BY <1>5 DEF Run, RunWrite, RunSignal, RunClaim, RunMint, RunUncache, RunChallenge, RunTake,
                  RunEndUser, RunForget, RunTally, RunCount, RunAnswer, Running
    <2>2. t \in Txns /\ w \in Steps(p)
      BY <2>1, RunFacts
    <2>3. CASE RunWrite(p)
      <3>1. w.status \in Decisions /\ w.by \in Principals \cup {NoOne}
        BY <2>2, <2>3 DEF RunWrite, Running, Steps, Lawful, StepRecords, Decisions
      <3> QED BY <2>2, <2>3, <3>1, StatementsMove DEF RunWrite
    <2>4. CASE RunClaim(p)
      <3>1. w.by \in Members
        BY <2>2, <2>4 DEF RunClaim, Running, Steps, Lawful
      <3> QED BY <2>2, <2>4, <3>1, StatementsMove DEF RunClaim
    <2>5. CASE RunEndUser(p)
      <3>1. p \in EndUsers
        BY <2>2, <2>5 DEF RunEndUser, Running, Steps, Lawful
      <3> QED BY <2>2, <2>5, <3>1, StatementsMove DEF RunEndUser
    <2>6. CASE RunChallenge(p) \/ RunTake(p)
      BY <2>2, <2>6, StatementsMove DEF RunChallenge, RunTake
    <2>7. CASE \/ RunSignal(p) \/ RunMint(p) \/ RunUncache(p) \/ RunForget(p)
               \/ RunTally(p) \/ RunCount(p) \/ RunAnswer(p)
      BY <2>2, <2>7, StatementsMove
         DEF RunSignal, RunMint, RunUncache, RunForget, RunTally, RunCount, RunAnswer
    <2> QED BY <1>5, <2>3, <2>4, <2>5, <2>6, <2>7 DEF Run
  <1>6. CASE \E i \in Instances : Crash(i)
    BY <1>6 DEF Crash, StoreMoves, Store!vars, store
  <1>7. CASE CleanupExpiredRows
    BY <1>7 DEF CleanupExpiredRows, StoreMoves, Store!Next
  <1>8. CASE Tick
    BY <1>8 DEF Tick, StoreMoves, Store!Next
  <1>9. CASE UNCHANGED vars
    BY <1>9 DEF vars, store, StoreMoves, Store!vars
  <1> QED BY <1>1, <1>2, <1>3, <1>4, <1>5, <1>6, <1>7, <1>8, <1>9 DEF Next

\* The two instances of the table, with and without its theorems, agree.
LEMMA SameTable ==
    /\ Store!Init <=> Table!Init
    /\ Store!TypeOK <=> Table!TypeOK
    /\ StoreMoves <=> [Table!Next]_(Table!vars)
  <1>1. Store!Init <=> Table!Init
    BY Zenon DEF Store!Init, Table!Init, Store!AbsentRow, Table!AbsentRow
  <1>2. Store!TypeOK <=> Table!TypeOK
    BY Zenon DEF Store!TypeOK, Table!TypeOK, Store!Row, Table!Row, Store!Statuses, Table!Statuses,
                 Store!Principals, Table!Principals, Store!Decisions, Table!Decisions
  <1>3. StoreMoves <=> [Table!Next]_(Table!vars)
    BY Zenon DEF StoreMoves, Store!Next, Table!Next, Store!vars, Table!vars,
      Store!SavePendingApproval, Table!SavePendingApproval,
      Store!ResolvePendingApproval, Table!ResolvePendingApproval, Store!ViaAfter, Table!ViaAfter,
      Store!ClaimPendingApprovalForGrant, Table!ClaimPendingApprovalForGrant,
      Store!ResolvePendingApprovalAsEndUser, Table!ResolvePendingApprovalAsEndUser,
      Store!SetPendingApprovalChallenge, Table!SetPendingApprovalChallenge,
      Store!TakePendingApprovalChallenge, Table!TakePendingApprovalChallenge,
      Store!SetPendingApprovalMessage, Table!SetPendingApprovalMessage,
      Store!DeletePendingApproval, Table!DeletePendingApproval,
      Store!CleanupExpiredRows, Table!CleanupExpiredRows, Store!Tick, Table!Tick,
      Store!SavedRow, Table!SavedRow, Store!ResolvedRow, Table!ResolvedRow,
      Store!ClaimedRow, Table!ClaimedRow, Store!EndUserResolvedRow, Table!EndUserResolvedRow,
      Store!ChallengedRow, Table!ChallengedRow, Store!ChallengeTakenRow, Table!ChallengeTakenRow,
      Store!MessageStoredRow, Table!MessageStoredRow, Store!AbsentRow, Table!AbsentRow,
      Store!PhantomRow, Table!PhantomRow, Store!Coalesce, Table!Coalesce,
      Store!ResolveHits, Table!ResolveHits, Store!ClaimHits, Table!ClaimHits,
      Store!EndUserHits, Table!EndUserHits, Store!Purgeable, Table!Purgeable,
      Store!ChallengeTakeable, Table!ChallengeTakeable, Store!Actionable, Table!Actionable,
      Store!Principals, Table!Principals, Store!Decisions, Table!Decisions
  <1> QED BY <1>1, <1>2, <1>3

\* The table keeps its types, by the theorem about PendingApprovals.
LEMMA TableTypesKept ==
    ASSUME Store!TypeOK, StoreMoves
    PROVE  Store!TypeOK'
  <1>1. {ApprovalTimeout, PendingTtl} \subseteq Nat /\ MaxTime \in Nat
    BY FlowAssumption
  <1>2. Table!TypeOK /\ [Table!Next]_(Table!vars)
    BY SameTable
  <1>3. Table!TypeOK'
    BY Zenon, <1>1, <1>2, Table!StepKeepsTypes, RowAssumption DEF Principals, Table!Principals
  <1>4. Table!TypeOK' => Store!TypeOK'
    BY Zenon DEF Store!TypeOK, Table!TypeOK, Store!Row, Table!Row, Store!Statuses, Table!Statuses,
                 Store!Principals, Table!Principals, Store!Decisions, Table!Decisions
  <1> QED BY <1>3, <1>4

\* A handler's record is replaced by one of the same type.
LEMMA OpsFrame ==
    ASSUME OpsOK, NEW p \in Principals, NEW q, q = Idle \/ q \in OpType(p),
           ops' = [ops EXCEPT ![p] = q]
    PROVE  OpsOK'
  BY DEF OpsOK, OpType

\* A handler that goes on after a step: types, and what it adds to the history.
LEMMA ProceedKeeps ==
    ASSUME TypeInv, NEW p \in Principals, NEW hit \in BOOLEAN, ops[p].todo # <<>>, Proceed(p, hit)
    PROVE  /\ OpsOK'
           /\ hist' \in [Txns -> HistType]
           /\ \A t \in Txns : t # ops[p].txn => hist'[t] = hist[t]
           /\ LET t == ops[p].txn
                  w == Head(ops[p].todo)
              IN  /\ hist'[t].asked = hist[t].asked \cup (IF hit /\ w.status = "approved" THEN {p} ELSE {})
                  /\ hist'[t].minted = (hist[t].minted \/ (w.do = "mint" /\ hit))
                  /\ hist'[t].early = hist[t].early /\ hist'[t].purged = hist[t].purged
                  /\ hist'[t].audit = hist[t].audit
                  /\ hist'[t].auditBy = hist[t].auditBy
                  /\ hist'[t].stored = hist[t].stored
                  /\ hist'[t].told \subseteq hist[t].told \cup {ops[p].status}
                  /\ Len(ops[p].todo) # 1 => hist'[t].told = hist[t].told
                  /\ \/ hist'[t].told = hist[t].told
                     \/ (ops[p].ok \/ (hit /\ w.answers)) /\ InTime(t)
  <1> DEFINE op == ops[p]
             t == op.txn
             ok == op.ok \/ (hit /\ Head(op.todo).answers)
             last == Len(op.todo) = 1
             step == Head(op.todo)
             told == IF last /\ ok /\ op.status \in Decisions /\ InTime(t) THEN {op.status} ELSE {}
             asked == IF hit /\ step.status = "approved" THEN {p} ELSE {}
             rest == [op EXCEPT !.todo = Tail(@), !.ok = ok]
  <1>0. /\ op \in OpType(p) /\ t \in Txns /\ step \in Steps(p)
        /\ Tail(op.todo) \in Seq(Steps(p)) /\ (~ last => Tail(op.todo) # <<>>)
    BY RunFacts
  <1>1. ok \in BOOLEAN
    BY <1>0 DEF OpType, Steps, Lawful, StepRecords
  <1>2. ~ last => rest \in OpType(p)
    BY <1>0, <1>1 DEF OpType
  <1>3. OpsOK'
    <2>1. ops' = [ops EXCEPT ![p] = IF last THEN Idle ELSE rest]
      BY DEF Proceed
    <2>2. (IF last THEN Idle ELSE rest) = Idle \/ (IF last THEN Idle ELSE rest) \in OpType(p)
      BY <1>2
    <2> QED BY <2>1, <2>2, OpsFrame DEF TypeInv
  <1>4. /\ told \in SUBSET Decisions /\ told \subseteq {op.status} /\ (~ last => told = {})
        /\ asked \in SUBSET Principals
        /\ told = {} \/ (ok /\ InTime(t))
    OBVIOUS
  <1>5. PICK c \in BOOLEAN : c = (step.do = "mint" /\ hit)
    OBVIOUS
  <1>6. hist' = [hist EXCEPT ![t].asked = @ \cup asked, ![t].told = @ \cup told,
                             ![t].minted = @ \/ c]
    BY <1>5 DEF Proceed
  <1>7. hist \in [Txns -> HistType]
    BY DEF TypeInv, TypeOK
  <1>8. hist' \in [Txns -> HistType]
    <2> HIDE DEF told, asked, t
    <2>1. /\ hist'[t].asked \in SUBSET Principals /\ hist'[t].told \in SUBSET Decisions
          /\ hist'[t].minted \in BOOLEAN
      BY <1>0, <1>4, <1>6, <1>7 DEF HistType
    <2>2. hist'[t] = [hist[t] EXCEPT !.asked = hist'[t].asked, !.told = hist'[t].told,
                                     !.minted = hist'[t].minted]
      BY <1>0, <1>6, <1>7 DEF HistType
    <2>3. hist'[t] \in HistType
      BY <1>0, <1>7, <2>1, <2>2 DEF HistType
    <2> QED BY <1>0, <1>6, <1>7, <2>3
  <1>9. \A u \in Txns : u # t => hist'[u] = hist[u]
    <2> HIDE DEF told, asked, t
    <2> QED BY <1>0, <1>6, <1>7
  <1>10. hist'[t].asked = hist[t].asked \cup asked /\ hist'[t].told = hist[t].told \cup told
    <2> HIDE DEF told, asked, t
    <2> QED BY <1>0, <1>4, <1>6, <1>7 DEF HistType
  <1>11. /\ hist'[t].minted = (hist[t].minted \/ c)
         /\ hist'[t].early = hist[t].early /\ hist'[t].purged = hist[t].purged
         /\ hist'[t].audit = hist[t].audit /\ hist'[t].auditBy = hist[t].auditBy
         /\ hist'[t].stored = hist[t].stored
    <2> HIDE DEF told, asked, t
    <2> QED BY <1>0, <1>4, <1>6, <1>7 DEF HistType
  <1> HIDE DEF told
  <1> QED BY <1>3, <1>4, <1>5, <1>8, <1>9, <1>10, <1>11

\* A handler that ends with an error keeps the types and the history.
LEMMA AbortKeeps ==
    ASSUME TypeInv, NEW p \in Principals, ops[p].todo # <<>>, Abort(p)
    PROVE  OpsOK' /\ hist' = hist
  <1> DEFINE forgets == \E k \in 2..Len(ops[p].todo) : ops[p].todo[k].do = "forget"
             rest == [ops[p] EXCEPT !.todo = <<Forget>>, !.ok = FALSE]
  <1>1. ops[p] \in OpType(p)
    BY RunFacts
  <1>2. <<Forget>> \in Seq(Steps(p)) \ {<<>>}
    <2>1. Forget \in Steps(p)
      BY StepKinds
    <2> HIDE DEF Forget
    <2> QED BY <2>1
  <1>3. rest \in OpType(p)
    BY <1>1, <1>2 DEF OpType
  <1>4. ops' = [ops EXCEPT ![p] = IF forgets THEN rest ELSE Idle]
    BY DEF Abort
  <1> HIDE DEF rest, forgets
  <1>5. OpsOK'
    BY <1>3, <1>4, OpsFrame DEF TypeInv
  <1> QED BY <1>5 DEF Abort

\* The consequences of TypeInv used everywhere, in this module's own names.
LEMMA RowsTyped ==
    ASSUME TypeInv
    PROVE  /\ rows \in [Txns -> Row] /\ now \in Nat
           /\ task \in [Txns -> TaskType] /\ hist \in [Txns -> HistType]
           /\ ApprovalTimeout \in Nat /\ PendingTtl \in Nat /\ now + ApprovalTimeout \in Nat
  <1>1. now \in Nat /\ rows \in [Txns -> Row]
    BY DEF TypeInv, TypeOK, Store!TypeOK, Store!Row, Row, Store!Statuses, Statuses,
           Store!Decisions, Decisions, Store!Principals, Principals
  <1>2. task \in [Txns -> TaskType] /\ hist \in [Txns -> HistType]
    BY DEF TypeInv, TypeOK
  <1>3. ApprovalTimeout \in Nat /\ PendingTtl \in Nat /\ now + ApprovalTimeout \in Nat
    BY <1>1, FlowAssumption
  <1> QED BY <1>1, <1>2, <1>3

\* Updates of a task's record keep its type.
LEMMA TaskUpdates ==
    ASSUME NEW k \in TaskType, NEW pc \in TaskSteps
    PROVE  /\ \A v \in Verdicts : [k EXCEPT !.verdict = v, !.pc = pc] \in TaskType
           /\ \A d \in Nat : [k EXCEPT !.pc = pc, !.deadline = d] \in TaskType
           /\ \A by \in Principals \cup {NoOne} : [k EXCEPT !.by = by, !.pc = pc] \in TaskType
           /\ \A i \in Instances \cup {NoOne}, eu \in EndUsers \cup {NoOne},
                 ch \in Channels \cup {"agent_reflected", "none"}, n \in Thresholds \cup {1} :
                 [k EXCEPT !.pc = pc, !.home = i, !.eu = eu, !.channel = ch, !.needs = n] \in TaskType
  <1> DEFINE Phases == TaskSteps
             Homes == Instances \cup {NoOne}
             Chs == Channels \cup {"agent_reflected", "none"}
             Eus == EndUsers \cup {NoOne}
             Ns == Thresholds \cup {1}
             Bys == Principals \cup {NoOne}
  <1>0. TaskType = [pc : Phases, home : Homes, channel : Chs, eu : Eus, needs : Ns,
                    deadline : Nat, verdict : Verdicts, by : Bys]
    BY DEF TaskType
  <1> HIDE DEF Phases, Homes, Chs, Eus, Ns, Bys
  <1>p. pc \in Phases
    BY DEF Phases
  <1>1. \A v \in Verdicts : [k EXCEPT !.verdict = v, !.pc = pc] \in TaskType
    BY <1>0, <1>p
  <1>2. \A d \in Nat : [k EXCEPT !.pc = pc, !.deadline = d] \in TaskType
    BY <1>0, <1>p
  <1>3. \A by \in Bys : [k EXCEPT !.by = by, !.pc = pc] \in TaskType
    BY <1>0, <1>p
  <1>4. \A i \in Homes, eu \in Eus, ch \in Chs, n \in Ns :
          [k EXCEPT !.pc = pc, !.home = i, !.eu = eu, !.channel = ch, !.needs = n] \in TaskType
    BY <1>0, <1>p
  <1> QED BY <1>1, <1>2, <1>3, <1>4 DEF Homes, Chs, Eus, Ns, Bys

\* Moving a task to another phase.
LEMMA GotoKeeps ==
    ASSUME TypeInv, NEW t \in Txns, NEW pc \in TaskSteps, Goto(t, pc),
           pc = "record"   => task[t].verdict \in {"denied", "timeout", "error"},
           pc = "identify" => task[t].verdict \in {"approved", "denied"},
           pc = "cleanup"  => task[t].verdict # "none"
    PROVE  /\ task' \in [Txns -> TaskType] /\ PhaseOK'
           /\ \A u \in Txns : u # t => task'[u] = task[u]
           /\ task'[t].pc = pc /\ task'[t].verdict = task[t].verdict
           /\ task'[t].eu = task[t].eu /\ task'[t].channel = task[t].channel
           /\ task'[t].deadline = task[t].deadline /\ task'[t].needs = task[t].needs
           /\ task'[t].home = task[t].home /\ task'[t].by = task[t].by
  <1>1. task \in [Txns -> TaskType]
    BY RowsTyped
  <1>2. \A u \in Txns : u # t => task'[u] = task[u]
    BY <1>1 DEF Goto
  <1>3. /\ task'[t].pc = pc /\ task'[t].verdict = task[t].verdict
        /\ task'[t].eu = task[t].eu /\ task'[t].channel = task[t].channel
        /\ task'[t].deadline = task[t].deadline /\ task'[t].needs = task[t].needs
        /\ task'[t].home = task[t].home /\ task'[t].by = task[t].by
    BY <1>1 DEF Goto, TaskType
  <1>4. task' \in [Txns -> TaskType]
    BY <1>1 DEF Goto, TaskType
  <1>5. PhaseOK'
    BY <1>2, <1>3 DEF TypeInv, PhaseOK
  <1> QED BY <1>2, <1>3, <1>4, <1>5

\* Concluding a wait with a verdict.
LEMMA ConcludeKeeps ==
    ASSUME TypeInv, NEW t \in Txns, NEW v \in Verdicts, NEW pc \in TaskSteps, Conclude(t, v, pc),
           pc = "record"   => v \in {"denied", "timeout", "error"},
           pc = "identify" => v \in {"approved", "denied"},
           pc = "cleanup"  => v # "none"
    PROVE  /\ task' \in [Txns -> TaskType] /\ PhaseOK'
           /\ \A u \in Txns : u # t => task'[u] = task[u]
           /\ task'[t].pc = pc /\ task'[t].verdict = v
           /\ task'[t].eu = task[t].eu /\ task'[t].channel = task[t].channel
           /\ task'[t].deadline = task[t].deadline /\ task'[t].needs = task[t].needs
           /\ task'[t].home = task[t].home /\ task'[t].by = task[t].by
  <1>1. task \in [Txns -> TaskType]
    BY RowsTyped
  <1>2. \A u \in Txns : u # t => task'[u] = task[u]
    BY <1>1 DEF Conclude
  <1>3. /\ task'[t].pc = pc /\ task'[t].verdict = v
        /\ task'[t].eu = task[t].eu /\ task'[t].channel = task[t].channel
        /\ task'[t].deadline = task[t].deadline /\ task'[t].needs = task[t].needs
        /\ task'[t].home = task[t].home /\ task'[t].by = task[t].by
    <2>1. task'[t].pc = pc /\ task'[t].verdict = v
      BY <1>1 DEF Conclude, TaskType
    <2>2. task'[t].eu = task[t].eu /\ task'[t].channel = task[t].channel
      BY <1>1 DEF Conclude, TaskType
    <2>3. task'[t].deadline = task[t].deadline /\ task'[t].needs = task[t].needs
      BY <1>1 DEF Conclude, TaskType
    <2>4. task'[t].home = task[t].home /\ task'[t].by = task[t].by
      BY <1>1 DEF Conclude, TaskType
    <2> QED BY <2>1, <2>2, <2>3, <2>4
  <1>4. task' \in [Txns -> TaskType]
    <2>1. task'[t] = [task[t] EXCEPT !.verdict = v, !.pc = pc]
      BY <1>1 DEF Conclude, TaskType
    <2>2. [task[t] EXCEPT !.verdict = v, !.pc = pc] \in TaskType
      BY <1>1, TaskUpdates
    <2> QED BY <1>1, <2>1, <2>2 DEF Conclude
  <1>5. PhaseOK'
    BY <1>2, <1>3 DEF TypeInv, PhaseOK
  <1> QED BY <1>2, <1>3, <1>4, <1>5

\* Only request t moves.
OthersKept(t) == \A u \in Txns : u # t => task'[u] = task[u]

\* A request is admitted.
LEMMA ReceiveFacts ==
    ASSUME TypeInv, NEW t \in Txns, NEW i \in Instances, NEW c \in Channels,
           NEW eu \in EndUsers \cup {NoOne}, NEW n \in Thresholds, ReceiveForward(t, i, c, eu, n)
    PROVE  /\ task' \in [Txns -> TaskType] /\ PhaseOK' /\ OthersKept(t)
           /\ task'[t].pc = "send" /\ task'[t].home = i /\ task'[t].eu = eu
           /\ task'[t].channel = ChannelFor(c, eu) /\ task'[t].needs = n
           /\ task'[t].verdict = task[t].verdict /\ task'[t].deadline = task[t].deadline
           /\ task'[t].by = task[t].by
  <1> DEFINE ch == ChannelFor(c, eu)
  <1>1. task \in [Txns -> TaskType]
    BY RowsTyped
  <1>2. ch \in Channels \cup {"agent_reflected", "none"}
    BY DEF ChannelFor
  <1>3. task' = [task EXCEPT ![t].pc = "send", ![t].home = i, ![t].eu = eu,
                             ![t].channel = ch, ![t].needs = n]
    BY DEF ReceiveForward
  <1> HIDE DEF ch
  <1>4. task'[t] = [task[t] EXCEPT !.pc = "send", !.home = i, !.eu = eu, !.channel = ch, !.needs = n]
    BY <1>1, <1>3 DEF TaskType
  <1>5. /\ task'[t].pc = "send" /\ task'[t].home = i /\ task'[t].eu = eu
        /\ task'[t].channel = ch /\ task'[t].needs = n
    BY <1>1, <1>4 DEF TaskType
  <1>6. /\ task'[t].verdict = task[t].verdict /\ task'[t].deadline = task[t].deadline
        /\ task'[t].by = task[t].by
    BY <1>1, <1>4 DEF TaskType
  <1>7. task' \in [Txns -> TaskType]
    <2>0. "send" \in TaskSteps /\ i \in Instances \cup {NoOne} /\ n \in Thresholds \cup {1}
      BY DEF TaskSteps
    <2>1. [task[t] EXCEPT !.pc = "send", !.home = i, !.eu = eu, !.channel = ch, !.needs = n] \in TaskType
      BY <1>1, <1>2, <2>0, TaskUpdates
    <2> QED BY <1>1, <1>3, <1>4, <2>1
  <1>8. OthersKept(t)
    BY <1>1, <1>3 DEF OthersKept
  <1>9. PhaseOK'
    BY <1>5, <1>8 DEF OthersKept, TypeInv, PhaseOK
  <1> QED BY <1>5, <1>6, <1>7, <1>8, <1>9 DEF ch

\* The task starts to wait.
LEMMA QueueFacts ==
    ASSUME TypeInv, NEW t \in Txns, Queue(t)
    PROVE  /\ task' \in [Txns -> TaskType] /\ PhaseOK' /\ OthersKept(t)
           /\ task'[t].pc = "waiting" /\ task'[t].deadline = now + ApprovalTimeout
           /\ task'[t].home = task[t].home /\ task'[t].eu = task[t].eu
           /\ task'[t].channel = task[t].channel /\ task'[t].needs = task[t].needs
           /\ task'[t].verdict = task[t].verdict /\ task'[t].by = task[t].by
  <1>1. task \in [Txns -> TaskType]
    BY RowsTyped
  <1>2. PICK d \in Nat : d = now + ApprovalTimeout
    BY RowsTyped
  <1>3. task' = [task EXCEPT ![t].pc = "waiting", ![t].deadline = d]
    BY <1>2 DEF Queue
  <1>4. task'[t] = [task[t] EXCEPT !.pc = "waiting", !.deadline = d]
    BY <1>1, <1>3 DEF TaskType
  <1>5. /\ task'[t].pc = "waiting" /\ task'[t].deadline = d
        /\ task'[t].home = task[t].home /\ task'[t].eu = task[t].eu
    BY <1>1, <1>4 DEF TaskType
  <1>6. /\ task'[t].channel = task[t].channel /\ task'[t].needs = task[t].needs
        /\ task'[t].verdict = task[t].verdict /\ task'[t].by = task[t].by
    BY <1>1, <1>4 DEF TaskType
  <1>7. task' \in [Txns -> TaskType]
    <2>0. "waiting" \in TaskSteps
      BY DEF TaskSteps
    <2>1. [task[t] EXCEPT !.pc = "waiting", !.deadline = d] \in TaskType
      BY <1>1, <1>2, <2>0, TaskUpdates
    <2> QED BY <1>1, <1>3, <1>4, <2>1
  <1>8. OthersKept(t)
    BY <1>1, <1>3 DEF OthersKept
  <1>9. PhaseOK'
    BY <1>5, <1>8 DEF OthersKept, TypeInv, PhaseOK
  <1> QED BY <1>2, <1>5, <1>6, <1>7, <1>8, <1>9

\* The approver is read from the row.
LEMMA IdentifyFacts ==
    ASSUME TypeInv, NEW t \in Txns, Identify(t)
    PROVE  /\ task' \in [Txns -> TaskType] /\ PhaseOK' /\ OthersKept(t)
           /\ task'[t].pc = (IF task[t].verdict = "approved" THEN "forward" ELSE "record")
           /\ task'[t].by = rows[t].by /\ task'[t].deadline = task[t].deadline
           /\ task'[t].home = task[t].home /\ task'[t].eu = task[t].eu
           /\ task'[t].channel = task[t].channel /\ task'[t].needs = task[t].needs
           /\ task'[t].verdict = task[t].verdict
  <1>1. task \in [Txns -> TaskType]
    BY RowsTyped
  <1>2. PICK by \in Principals \cup {NoOne} : by = rows[t].by
    BY RowsTyped DEF Row
  <1>3. PICK pc \in {"forward", "record"} : pc = IF task[t].verdict = "approved" THEN "forward" ELSE "record"
    OBVIOUS
  <1>4. task' = [task EXCEPT ![t].by = by, ![t].pc = pc]
    BY <1>2, <1>3 DEF Identify
  <1>5. task'[t] = [task[t] EXCEPT !.by = by, !.pc = pc]
    BY <1>1, <1>4 DEF TaskType
  <1>6. /\ task'[t].pc = pc /\ task'[t].by = by
        /\ task'[t].home = task[t].home /\ task'[t].eu = task[t].eu
    BY <1>1, <1>5 DEF TaskType
  <1>7. /\ task'[t].channel = task[t].channel /\ task'[t].needs = task[t].needs
        /\ task'[t].verdict = task[t].verdict /\ task'[t].deadline = task[t].deadline
    BY <1>1, <1>5 DEF TaskType
  <1>8. task' \in [Txns -> TaskType]
    <2>0. pc \in TaskSteps
      BY DEF TaskSteps
    <2>1. [task[t] EXCEPT !.by = by, !.pc = pc] \in TaskType
      BY <1>1, <1>2, <2>0, TaskUpdates
    <2> QED BY <1>1, <1>4, <1>5, <2>1
  <1>9. OthersKept(t)
    BY <1>1, <1>4 DEF OthersKept
  <1>10. PhaseOK'
    <2>1. task[t].verdict \in {"approved", "denied"}
      BY DEF Identify, TypeInv, PhaseOK
    <2> QED BY <1>3, <1>6, <1>7, <1>9, <2>1 DEF OthersKept, TypeInv, PhaseOK
  <1> QED BY <1>2, <1>3, <1>6, <1>7, <1>8, <1>9, <1>10

\* The outcome is stored and audited.
LEMMA FinishFacts ==
    ASSUME TypeInv, NEW t \in Txns, NEW s \in AsyncStatuses, Finish(t, s)
    PROVE  /\ task' \in [Txns -> TaskType] /\ PhaseOK' /\ OthersKept(t)
           /\ task'[t].pc = "done" /\ task'[t].verdict = task[t].verdict
           /\ task'[t].eu = task[t].eu /\ task'[t].channel = task[t].channel
           /\ task'[t].deadline = task[t].deadline /\ task'[t].needs = task[t].needs
           /\ hist' \in [Txns -> HistType]
           /\ \A u \in Txns : u # t => hist'[u] = hist[u]
           /\ hist'[t].audit = task[t].verdict /\ hist'[t].auditBy = task[t].by
           /\ hist'[t].stored = (IF async[t].status = "absent" THEN "missed" ELSE "yes")
           /\ hist'[t].asked = hist[t].asked /\ hist'[t].told = hist[t].told
           /\ hist'[t].minted = hist[t].minted /\ hist'[t].early = hist[t].early
           /\ hist'[t].purged = hist[t].purged
           /\ async' \in [Txns -> [status : AsyncStatuses, expires : Nat]]
           /\ \A u \in Txns : async'[u].expires = async[u].expires
  <1>1. /\ task \in [Txns -> TaskType] /\ hist \in [Txns -> HistType]
        /\ async \in [Txns -> [status : AsyncStatuses, expires : Nat]]
    BY DEF TypeInv, TypeOK
  <1>2. Goto(t, "done") /\ "done" \in TaskSteps
    BY DEF Finish, TaskSteps
  <1>3. /\ task' \in [Txns -> TaskType] /\ PhaseOK' /\ OthersKept(t)
        /\ task'[t].pc = "done" /\ task'[t].verdict = task[t].verdict
        /\ task'[t].eu = task[t].eu /\ task'[t].channel = task[t].channel
        /\ task'[t].deadline = task[t].deadline /\ task'[t].needs = task[t].needs
    BY <1>2, GotoKeeps DEF OthersKept
  <1>4. task[t].verdict \in Verdicts /\ task[t].by \in Principals \cup {NoOne}
    BY <1>1 DEF TaskType
  <1>5. PICK v, by, st : /\ v = task[t].verdict /\ by = task[t].by
                         /\ st = IF async[t].status = "absent" THEN "missed" ELSE "yes"
    OBVIOUS
  <1>6. hist' = [hist EXCEPT ![t].audit = v, ![t].auditBy = by, ![t].stored = st]
    BY <1>5 DEF Finish
  <1>7. hist'[t] = [hist[t] EXCEPT !.audit = v, !.auditBy = by, !.stored = st]
    BY <1>1, <1>6 DEF HistType
  <1>8. hist'[t].audit = v /\ hist'[t].auditBy = by /\ hist'[t].stored = st
    BY <1>1, <1>7 DEF HistType
  <1>9. /\ hist'[t].asked = hist[t].asked /\ hist'[t].told = hist[t].told
        /\ hist'[t].minted = hist[t].minted /\ hist'[t].early = hist[t].early
        /\ hist'[t].purged = hist[t].purged
    BY <1>1, <1>7 DEF HistType
  <1>10. hist' \in [Txns -> HistType]
    <2>1. v \in Verdicts /\ by \in Principals \cup {NoOne} /\ st \in {"none", "yes", "missed"}
      BY <1>4, <1>5
    <2>2. PICK h : h = hist[t]
      OBVIOUS
    <2>3. h \in HistType
      BY <1>1, <2>2
    <2>4. [h EXCEPT !.audit = v] \in HistType
      BY <2>1, <2>3 DEF HistType
    <2>5. [[h EXCEPT !.audit = v] EXCEPT !.auditBy = by] \in HistType
      BY <2>1, <2>4 DEF HistType
    <2>6. [[[h EXCEPT !.audit = v] EXCEPT !.auditBy = by] EXCEPT !.stored = st] \in HistType
      BY <2>1, <2>5 DEF HistType
    <2> QED BY <1>1, <1>6, <1>7, <2>2, <2>6
  <1>11. \A u \in Txns : u # t => hist'[u] = hist[u]
    BY <1>1, <1>6
  <1>12. /\ async' \in [Txns -> [status : AsyncStatuses, expires : Nat]]
         /\ \A u \in Txns : async'[u].expires = async[u].expires
    BY <1>1 DEF Finish
  <1> QED BY <1>3, <1>5, <1>8, <1>9, <1>10, <1>11, <1>12

\* What a poll of the row makes of its status.
LEMMA SeenFacts ==
    ASSUME TypeInv, NEW t \in Txns
    PROVE  LET v == Seen(rows[t].status)
           IN  /\ v \in Verdicts
               /\ v = "approved" <=> rows[t].status = "approved"
               /\ v = "denied" <=> rows[t].status = "denied"
               /\ v = "timeout" <=> rows[t].status = "expired"
               /\ v = "error" <=> rows[t].status = "absent"
               /\ v = "none" <=> rows[t].status = "pending"
               /\ v # "none" =>
                    /\ AfterDecision(v) \in {"identify", "record"}
                    /\ (AfterDecision(v) = "record" => v \in {"denied", "timeout", "error"})
                    /\ (AfterDecision(v) = "identify" => v \in {"approved", "denied"})
  <1>1. rows[t].status \in {"absent", "pending", "approved", "denied", "expired"}
    BY RowsTyped DEF Row, Statuses, Decisions
  <1> QED BY <1>1 DEF Seen, Verdicts, AfterDecision

\* Types of the variables beside the table, the tasks and the history.
RestOK ==
    /\ async \in [Txns -> [status : AsyncStatuses, expires : Nat]]
    /\ cache \in [Instances -> SUBSET Txns]
    /\ inflight \in [Instances -> [Txns -> Principals \cup {NoOne}]]
    /\ mem \in [Txns -> {"none", "open", "approved", "denied"}]
    /\ posted \in [Txns -> {"no", "known", "forgotten"}]

FlowOK ==
    /\ RestOK
    /\ task \in [Txns -> TaskType] /\ PhaseOK
    /\ hist \in [Txns -> HistType]
    /\ votes \in [Txns -> VotesType]
    /\ OpsOK

\* The types split into those of the table and those of the flow.
LEMMA TypeInvParts == TypeInv <=> Store!TypeOK /\ FlowOK
  <1>1. OpsOK => \A p \in Principals :
           ops[p] = Idle \/ (ops[p].inst \in Instances /\ ops[p].txn \in Txns /\ ops[p].todo # <<>>)
    BY DEF OpsOK, OpType
  <1> QED BY <1>1 DEF TypeInv, TypeOK, FlowOK, RestOK

\* The request handler keeps the types.
LEMMA HandleKeeps ==
    ASSUME TypeInv, NEW t \in Txns, Receive(t) \/ Handle(t)
    PROVE  FlowOK'
  <1>0. FlowOK /\ RestOK /\ now \in Nat /\ ApprovalTimeout \in Nat /\ now + ApprovalTimeout \in Nat
    BY TypeInvParts, RowsTyped DEF FlowOK
  <1>1. CASE Receive(t)
    <2>1. PICK i \in Instances, c \in Channels, eu \in EndUsers \cup {NoOne}, n \in Thresholds :
             ReceiveForward(t, i, c, eu, n)
      BY <1>1 DEF Receive
    <2>2. task' \in [Txns -> TaskType] /\ PhaseOK'
      BY <2>1, ReceiveFacts
    <2>3. RestOK'
      <3>1. cache' = cache \/ cache' = [cache EXCEPT ![i] = @ \cup {t}]
        BY <2>1 DEF ReceiveForward
      <3>2. UNCHANGED <<async, inflight, mem, posted>>
        BY <2>1 DEF ReceiveForward
      <3> QED BY <1>0, <3>1, <3>2 DEF RestOK
    <2>4. ops' = ops /\ hist' = hist /\ votes' = votes
      BY <2>1 DEF ReceiveForward
    <2>5. OpsOK'
      BY <1>0, <2>4 DEF FlowOK, OpsOK
    <2> QED BY <1>0, <2>2, <2>3, <2>4, <2>5 DEF FlowOK
  <1>2. CASE SendDashboard(t) \/ SendAgentReflected(t)
    <2>1. Goto(t, "queue") /\ "queue" \in TaskSteps
      BY <1>2 DEF SendDashboard, SendAgentReflected, SelfPersistingSend, TaskSteps
    <2>2. task' \in [Txns -> TaskType] /\ PhaseOK'
      BY <2>1, GotoKeeps
    <2>3. PICK e \in BOOLEAN : hist' = [hist EXCEPT ![t].early = e]
      BY <1>2 DEF SendDashboard, SendAgentReflected, SelfPersistingSend
    <2>4. hist' \in [Txns -> HistType]
      BY <1>0, <2>3 DEF FlowOK, HistType
    <2>5. RestOK' /\ OpsOK' /\ votes' = votes
      BY <1>0, <1>2 DEF SendDashboard, SendAgentReflected, SelfPersistingSend, RestOK, FlowOK, OpsOK
    <2> QED BY <1>0, <2>2, <2>4, <2>5 DEF FlowOK
  <1>3. CASE RegisterPending(t) \/ DeliverMessage(t) \/ StoreMessage(t) \/ SendFails(t)
    <2>1. PICK pc \in {"deliver", "store", "queue", "refused"} : Goto(t, pc)
      BY <1>3 DEF RegisterPending, DeliverMessage, StoreMessage, SendFails
    <2>2. task' \in [Txns -> TaskType] /\ PhaseOK'
      BY <2>1, GotoKeeps DEF TaskSteps
    <2>3. /\ mem' \in {mem, [mem EXCEPT ![t] = "open"], [mem EXCEPT ![t] = "none"]}
          /\ posted' \in {posted, [posted EXCEPT ![t] = "known"]}
          /\ UNCHANGED <<async, cache, inflight, ops, votes, hist>>
      BY <1>3 DEF RegisterPending, DeliverMessage, StoreMessage, SendFails
    <2>4. RestOK'
      BY <1>0, <2>3 DEF RestOK
    <2>5. OpsOK'
      BY <1>0, <2>3 DEF FlowOK, OpsOK
    <2> QED BY <1>0, <2>2, <2>3, <2>4, <2>5 DEF FlowOK
  <1>4. CASE Queue(t)
    <2>1. task' \in [Txns -> TaskType] /\ PhaseOK'
      BY <1>4, QueueFacts
    <2>2. async' \in [Txns -> [status : AsyncStatuses, expires : Nat]]
      <3>1. [status |-> "pending", expires |-> now + ApprovalTimeout] \in [status : AsyncStatuses, expires : Nat]
        BY <1>0 DEF AsyncStatuses
      <3> QED BY <1>0, <1>4, <3>1 DEF Queue, RestOK
    <2>3. RestOK' /\ OpsOK' /\ votes' = votes /\ hist' = hist
      BY <1>0, <1>4, <2>2 DEF Queue, RestOK, FlowOK, OpsOK
    <2> QED BY <1>0, <2>1, <2>3 DEF FlowOK
  <1> QED BY <1>1, <1>2, <1>3, <1>4 DEF Handle

\* The background task keeps the types.
LEMMA WaitKeeps ==
    ASSUME TypeInv, NEW t \in Txns, Wait(t)
    PROVE  FlowOK'
  <1>0. FlowOK /\ RestOK /\ PhaseOK /\ task[t] \in TaskType
    BY TypeInvParts DEF FlowOK
  <1> DEFINE Quiet == RestOK' /\ OpsOK' /\ votes' = votes /\ hist' = hist
  <1>1. CASE PollDashboard(t) \/ PollAgentReflected(t) \/ PollBot(t)
    <2>1. PICK v \in Verdicts, pc \in TaskSteps :
             /\ Conclude(t, v, pc)
             /\ pc = "record"   => v \in {"denied", "timeout", "error"}
             /\ pc = "identify" => v \in {"approved", "denied"}
             /\ pc = "cleanup"  => v # "none"
      <3>1. PICK v : v = Seen(rows[t].status)
        OBVIOUS
      <3>2. v \in Verdicts
        BY <3>1, SeenFacts
      <3>3. v # "none" /\ (Conclude(t, v, AfterDecision(v)) \/ Conclude(t, v, "cleanup"))
        BY <1>1, <3>1 DEF PollDashboard, PollAgentReflected, PollBot
      <3>4. \/ AfterDecision(v) = "identify" /\ v \in {"approved", "denied"}
            \/ AfterDecision(v) = "record" /\ v \in {"denied", "timeout", "error"}
        BY <3>2, <3>3 DEF AfterDecision, Verdicts
      <3> QED BY <3>2, <3>3, <3>4 DEF TaskSteps
    <2>2. task' \in [Txns -> TaskType] /\ PhaseOK'
      BY <2>1, ConcludeKeeps
    <2>3. Quiet
      BY <1>0, <1>1 DEF PollDashboard, PollAgentReflected, PollBot, RestOK, FlowOK, OpsOK
    <2> QED BY <1>0, <2>2, <2>3 DEF FlowOK
  <1>2. CASE ExpireRow(t) \/ TelegramDeadline(t) \/ MatrixDeadline(t)
    <2>1. PICK pc \in {"record", "cleanup"} : Conclude(t, "error", pc)
      BY <1>2 DEF ExpireRow, TelegramDeadline, MatrixDeadline
    <2>2. task' \in [Txns -> TaskType] /\ PhaseOK'
      BY <2>1, ConcludeKeeps DEF TaskSteps, Verdicts
    <2>3. Quiet
      BY <1>0, <1>2 DEF ExpireRow, TelegramDeadline, MatrixDeadline, RestOK, FlowOK, OpsOK
    <2> QED BY <1>0, <2>2, <2>3 DEF FlowOK
  <1>3. CASE GiveUp(t)
    <2>1. task' \in [Txns -> TaskType] /\ PhaseOK'
      BY <1>3, GotoKeeps DEF GiveUp, TaskSteps
    <2>2. Quiet
      BY <1>0, <1>3 DEF GiveUp, RestOK, FlowOK, OpsOK
    <2> QED BY <1>0, <2>1, <2>2 DEF FlowOK
  <1>4. CASE ReceiveSignal(t)
    <2>1. mem[t] \in {"approved", "denied"} /\ Conclude(t, mem[t], "identify")
      BY <1>4 DEF ReceiveSignal
    <2>2. task' \in [Txns -> TaskType] /\ PhaseOK'
      BY <2>1, ConcludeKeeps DEF TaskSteps, Verdicts
    <2>3. Quiet
      BY <1>0, <1>4 DEF ReceiveSignal, RestOK, FlowOK, OpsOK
    <2> QED BY <1>0, <2>2, <2>3 DEF FlowOK
  <1>5. CASE CleanupPendingRequest(t)
    <2>1. task[t].verdict \in Verdicts \ {"none"}
      BY <1>0, <1>5 DEF CleanupPendingRequest, PhaseOK, TaskType
    <2>2. PICK pc \in {"identify", "record"} :
             /\ Goto(t, pc)
             /\ pc = "record"   => task[t].verdict \in {"denied", "timeout", "error"}
             /\ pc = "identify" => task[t].verdict \in {"approved", "denied"}
      BY <1>5, <2>1 DEF CleanupPendingRequest, AfterDecision, Verdicts
    <2>3. task' \in [Txns -> TaskType] /\ PhaseOK'
      BY <2>2, GotoKeeps DEF TaskSteps
    <2>4. Quiet
      BY <1>0, <1>5 DEF CleanupPendingRequest, RestOK, FlowOK, OpsOK
    <2> QED BY <1>0, <2>3, <2>4 DEF FlowOK
  <1>6. CASE Identify(t)
    <2>1. task' \in [Txns -> TaskType] /\ PhaseOK'
      BY <1>6, IdentifyFacts
    <2>2. Quiet
      BY <1>0, <1>6 DEF Identify, RestOK, FlowOK, OpsOK
    <2> QED BY <1>0, <2>1, <2>2 DEF FlowOK
  <1>7. CASE Forward(t) \/ Record(t)
    <2>1. PICK s \in AsyncStatuses : Finish(t, s)
      <3>1. CASE Forward(t)
        BY <3>1 DEF Forward, AsyncStatuses
      <3>2. CASE Record(t)
        <4>1. task[t].verdict \in {"denied", "timeout", "error"}
          BY <1>0, <3>2 DEF Record, PhaseOK
        <4> QED BY <3>2, <4>1 DEF Record, OutcomeStatus, AsyncStatuses
      <3> QED BY <1>7, <3>1, <3>2
    <2>2. /\ task' \in [Txns -> TaskType] /\ PhaseOK' /\ hist' \in [Txns -> HistType]
          /\ async' \in [Txns -> [status : AsyncStatuses, expires : Nat]]
      BY <2>1, FinishFacts
    <2>3. RestOK' /\ OpsOK' /\ votes' = votes
      BY <1>0, <2>1, <2>2 DEF Finish, RestOK, FlowOK, OpsOK
    <2> QED BY <1>0, <2>2, <2>3 DEF FlowOK
  <1> QED BY <1>1, <1>2, <1>3, <1>4, <1>5, <1>6, <1>7, Wait(t) DEF Wait

\* A count that goes up by one, and stops at the threshold, is a number.
LEMMA OneMoreTypes ==
    ASSUME TypeInv, NEW t \in Txns, NEW n \in Nat
    PROVE  OneMore(t, n) \in Nat /\ task[t].needs \in Nat \ {0}
  <1>1. task[t].needs \in Thresholds \cup {1}
    BY RowsTyped DEF TaskType
  <1>2. Thresholds \subseteq Nat \ {0}
    BY Zenon, FlowAssumption
  <1>3. task[t].needs \in Nat \ {0}
    <2>1. \A k \in Thresholds \cup {1} : k \in Nat \ {0}
      BY <1>2
    <2> QED BY Zenon, <1>1, <2>1
  <1> QED BY <1>3 DEF OneMore

\* A press of a button: what it does to the counts.
LEMMA VoteFacts ==
    ASSUME TypeInv, NEW i \in Instances, NEW t \in Txns, NEW unc \in BOOLEAN,
           Vote(i, t, "approved", unc)
    PROVE  LET v == votes[t] IN
           /\ votes' \in [Txns -> VotesType]
           /\ \A u \in Txns : u # t => votes'[u] = votes[u]
           /\ votes'[t].cast = OneMore(t, v.cast)
           /\ votes'[t].home = (IF CountsInMemory(i, t) THEN OneMore(t, v.home) ELSE v.home)
           /\ votes'[t].blind = (v.blind \/ (unc /\ ~ CountsInMemory(i, t)))
           /\ votes'[t].row = v.row
  <1>1. votes \in [Txns -> VotesType]
    BY DEF TypeInv, TypeOK
  <1>2. votes[t].cast \in Nat /\ votes[t].home \in Nat /\ votes[t].blind \in BOOLEAN /\ votes[t].row \in Nat
    BY <1>1 DEF VotesType
  <1>3. PICK c \in Nat : c = OneMore(t, votes[t].cast)
    BY <1>2, OneMoreTypes
  <1>4. PICK h \in Nat : h = IF CountsInMemory(i, t) THEN OneMore(t, votes[t].home) ELSE votes[t].home
    BY <1>2, OneMoreTypes
  <1>5. PICK b \in BOOLEAN : b = (votes[t].blind \/ (unc /\ ~ CountsInMemory(i, t)))
    BY <1>2
  <1>6. votes' = [votes EXCEPT ![t].cast = c, ![t].home = h, ![t].blind = b]
    BY <1>3, <1>4, <1>5 DEF Vote
  <1>7. votes'[t] = [votes[t] EXCEPT !.cast = c, !.home = h, !.blind = b]
    BY <1>1, <1>6 DEF VotesType
  <1>8. votes'[t].cast = c /\ votes'[t].home = h /\ votes'[t].blind = b /\ votes'[t].row = votes[t].row
    BY <1>1, <1>7 DEF VotesType
  <1>9. votes' \in [Txns -> VotesType] /\ \A u \in Txns : u # t => votes'[u] = votes[u]
    <2>1. [votes[t] EXCEPT !.cast = c, !.home = h, !.blind = b] \in VotesType
      BY <1>1 DEF VotesType
    <2> QED BY <1>1, <1>6, <1>7, <2>1
  <1> QED BY <1>3, <1>4, <1>5, <1>8, <1>9

\* What people do keeps the types.
LEMMA ActKeeps ==
    ASSUME TypeInv, NEW i \in Instances, NEW t \in Txns, Act(i, t)
    PROVE  FlowOK'
  <1>0. FlowOK /\ RestOK /\ PhaseOK /\ votes \in [Txns -> VotesType]
    BY TypeInvParts DEF FlowOK
  <1>1. Opening(i, t)
    BY ActIsOpening
  <1>2. UNCHANGED <<store, async, inflight, task, mem, hist>>
    BY <1>1 DEF Opening
  <1>3. OpsOK'
    <2>1. CASE ops' = ops
      BY <1>0, <2>1 DEF FlowOK, OpsOK
    <2>2. ASSUME NEW p \in Principals, NEW s \in {"approved", "denied", "none"},
                 NEW plan \in Seq(Steps(p)) \ {<<>>},
                 ops' = [ops EXCEPT ![p] = [inst |-> i, txn |-> t, status |-> s,
                                            ok |-> FALSE, todo |-> plan]]
          PROVE  OpsOK'
      <3>1. [inst |-> i, txn |-> t, status |-> s, ok |-> FALSE, todo |-> plan] \in OpType(p)
        BY DEF OpType
      <3> QED BY <1>0, <2>2, <3>1, OpsFrame DEF FlowOK
    <2> QED BY <1>1, <2>1, <2>2 DEF Opening
  <1>4. /\ cache' = cache \/ cache' = [cache EXCEPT ![i] = @ \cup {t}]
        /\ posted' = posted \/ posted' = [posted EXCEPT ![t] = "forgotten"]
    BY DEF Act, GrantReactionRefused, DashboardResolve, TelegramCallback, MatrixReaction,
           TelegramPartial, MatrixPartial, PartialVote, ApproveWithGrant, BotGrant, ApprovalBegin,
           ApprovalFinish, ApprovalDeny, AppPasskeyBegin, AppPasskeyFinish, AppApprove, AppDeny,
           StartOnPage, StartInApp, Start
  <1>5. RestOK'
    <2>1. cache' \in [Instances -> SUBSET Txns]
      <3>1. cache \in [Instances -> SUBSET Txns]
        BY <1>0 DEF RestOK
      <3> QED BY <1>4, <3>1
    <2>2. posted' \in [Txns -> {"no", "known", "forgotten"}]
      BY <1>0, <1>4 DEF RestOK
    <2>3. async' = async /\ inflight' = inflight /\ mem' = mem
      BY <1>2
    <2> QED BY <1>0, <2>1, <2>2, <2>3 DEF RestOK
  <1>6. votes' \in [Txns -> VotesType]
    <2>0. votes[t].cast \in Nat
      BY <1>0 DEF VotesType
    <2>1. CASE votes' = votes
      BY <1>0, <2>1
    <2>2. ASSUME NEW unc \in BOOLEAN, NEW s \in {"approved", "denied"}, Vote(i, t, s, unc)
          PROVE  votes' \in [Txns -> VotesType]
      <3>1. CASE s = "approved"
        BY <2>2, <3>1, VoteFacts
      <3>2. CASE s # "approved"
        BY <1>0, <2>2, <3>2 DEF Vote
      <3> QED BY <3>1, <3>2
    <2>3. ASSUME NEW s,
                 votes' = [votes EXCEPT ![t].cast = IF s = "approved" THEN OneMore(t, @) ELSE @]
          PROVE  votes' \in [Txns -> VotesType]
      <3>1. PICK c \in Nat : c = IF s = "approved" THEN OneMore(t, votes[t].cast) ELSE votes[t].cast
        BY <2>0, OneMoreTypes
      <3>2. votes' = [votes EXCEPT ![t].cast = c]
        BY <1>0, <2>3, <3>1
      <3> QED BY <1>0, <3>2 DEF VotesType
    <2>4. \/ votes' = votes
          \/ \E unc \in BOOLEAN, s \in {"approved", "denied"} : Vote(i, t, s, unc)
          \/ \E s : votes' = [votes EXCEPT ![t].cast = IF s = "approved" THEN OneMore(t, @) ELSE @]
      BY DEF Act, GrantReactionRefused, DashboardResolve, TelegramCallback, MatrixReaction,
             TelegramPartial, MatrixPartial, PartialVote, ApproveWithGrant, BotGrant, ApprovalBegin,
             ApprovalFinish, ApprovalDeny, AppPasskeyBegin, AppPasskeyFinish, AppApprove, AppDeny,
             StartOnPage, StartInApp
    <2> QED BY <2>1, <2>2, <2>3, <2>4
  <1>7. task' = task /\ hist' = hist /\ PhaseOK'
    BY <1>0, <1>2 DEF PhaseOK
  <1> QED BY <1>0, <1>3, <1>5, <1>6, <1>7 DEF FlowOK

\* A step of a handler: it goes on or ends.
LEMMA RunIsProceed ==
    ASSUME TypeInv, NEW p \in Principals, Run(p)
    PROVE  /\ ops[p].todo # <<>>
           /\ \/ \E hit \in BOOLEAN : Proceed(p, hit)
              \/ Abort(p)
              \/ ops' = [ops EXCEPT ![p] = Idle] /\ hist' = hist
  <1>1. ops[p].todo # <<>>
    BY DEF Run, RunWrite, RunSignal, RunClaim, RunMint, RunUncache, RunChallenge, RunTake,
           RunEndUser, RunForget, RunTally, RunCount, RunAnswer, Running
  <1>2. ResolveHits(rows[ops[p].txn], Head(ops[p].todo).status) \in BOOLEAN
    BY DEF ResolveHits
  <1>3. EndUserHits(rows[ops[p].txn], p) \in BOOLEAN
    BY DEF EndUserHits
  <1>4. CASE RunWrite(p) \/ RunEndUser(p)
    BY <1>1, <1>2, <1>3, <1>4 DEF RunWrite, RunEndUser
  <1>5. CASE RunSignal(p)
    BY <1>1, <1>5 DEF RunSignal
  <1>6. CASE \/ RunClaim(p) \/ RunMint(p) \/ RunUncache(p) \/ RunChallenge(p) \/ RunTake(p)
             \/ RunForget(p) \/ RunTally(p) \/ RunCount(p) \/ RunAnswer(p)
    BY <1>1, <1>6 DEF RunClaim, RunMint, RunUncache, RunChallenge, RunTake, RunForget, RunTally,
                      RunCount, RunAnswer
  <1> QED BY <1>4, <1>5, <1>6 DEF Run

\* The steps of the handlers keep the types.
LEMMA RunKeeps ==
    ASSUME TypeInv, NEW p \in Principals, Run(p)
    PROVE  FlowOK'
  <1> DEFINE t == ops[p].txn
             w == Head(ops[p].todo)
  <1>0. /\ FlowOK /\ RestOK /\ PhaseOK /\ votes \in [Txns -> VotesType]
        /\ hist \in [Txns -> HistType]
    BY TypeInvParts DEF FlowOK
  <1>1. /\ ops[p].todo # <<>> /\ t \in Txns /\ ops[p].inst \in Instances /\ w \in Steps(p)
    BY RunIsProceed, RunFacts
  <1>2. OpsOK' /\ hist' \in [Txns -> HistType]
    <2>1. CASE \E hit \in BOOLEAN : Proceed(p, hit)
      BY <1>1, <2>1, ProceedKeeps
    <2>2. CASE Abort(p)
      BY <1>0, <1>1, <2>2, AbortKeeps
    <2>3. CASE ops' = [ops EXCEPT ![p] = Idle] /\ hist' = hist
      BY <1>0, <2>3, OpsFrame DEF FlowOK
    <2> QED BY <2>1, <2>2, <2>3, RunIsProceed
  <1>3. task' = task /\ async' = async
    BY DEF Run, RunWrite, RunSignal, RunClaim, RunMint, RunUncache, RunChallenge, RunTake,
           RunEndUser, RunForget, RunTally, RunCount, RunAnswer
  <1>4. cache' \in [Instances -> SUBSET Txns]
    <2>1. cache \in [Instances -> SUBSET Txns]
      BY <1>0 DEF RestOK
    <2>2. cache' = cache \/ cache' = [cache EXCEPT ![ops[p].inst] = @ \ {ops[p].txn}]
      BY DEF Run, RunWrite, RunSignal, RunClaim, RunMint, RunUncache, RunChallenge, RunTake,
             RunEndUser, RunForget, RunTally, RunCount, RunAnswer
    <2> QED BY <1>1, <2>1, <2>2
  <1>5. inflight' \in [Instances -> [Txns -> Principals \cup {NoOne}]]
    <2>1. inflight \in [Instances -> [Txns -> Principals \cup {NoOne}]]
      BY <1>0 DEF RestOK
    <2>2. \/ inflight' = inflight
          \/ inflight' = [inflight EXCEPT ![ops[p].inst][t] = p]
          \/ inflight' = [inflight EXCEPT ![ops[p].inst][t] = NoOne]
      BY DEF Run, RunWrite, RunSignal, RunClaim, RunMint, RunUncache, RunChallenge, RunTake,
             RunEndUser, RunForget, RunTally, RunCount, RunAnswer
    <2> HIDE DEF t
    <2> QED BY <1>1, <2>1, <2>2
  <1>6. mem' \in [Txns -> {"none", "open", "approved", "denied"}]
    <2>1. mem \in [Txns -> {"none", "open", "approved", "denied"}]
      BY <1>0 DEF RestOK
    <2>2. CASE RunSignal(p)
      <3>1. w.status \in {"approved", "denied"}
        BY <1>1, <2>2 DEF RunSignal, Running, Steps, Lawful
      <3>2. mem' = mem \/ mem' = [mem EXCEPT ![t] = w.status]
        BY <2>1, <2>2, <1>1 DEF RunSignal
      <3> HIDE DEF t, w
      <3> QED BY <1>1, <2>1, <3>1, <3>2
    <2>3. CASE ~ RunSignal(p)
      BY <2>1, <2>3 DEF Run, RunWrite, RunClaim, RunMint, RunUncache, RunChallenge, RunTake,
                        RunEndUser, RunForget, RunTally, RunCount, RunAnswer
    <2> QED BY <2>2, <2>3
  <1>7. posted' \in [Txns -> {"no", "known", "forgotten"}]
    <2>1. posted \in [Txns -> {"no", "known", "forgotten"}]
      BY <1>0 DEF RestOK
    <2>2. \/ posted' = posted
          \/ posted' = [posted EXCEPT ![t] = IF ops[p].inst = task[t].home THEN "forgotten" ELSE @]
      BY DEF Run, RunWrite, RunSignal, RunClaim, RunMint, RunUncache, RunChallenge, RunTake,
             RunEndUser, RunForget, RunTally, RunCount, RunAnswer
    <2> HIDE DEF t
    <2> QED BY <1>1, <2>1, <2>2
  <1>8. votes' \in [Txns -> VotesType]
    <2>1. \/ votes' = votes
          \/ votes' = [votes EXCEPT ![t].row = IF rows[t].status = "absent" THEN @ ELSE OneMore(t, @)]
          \/ \E fails \in BOOLEAN : votes' = [votes EXCEPT ![t].blind = @ \/ fails]
      BY DEF Run, RunWrite, RunSignal, RunClaim, RunMint, RunUncache, RunChallenge, RunTake,
             RunEndUser, RunForget, RunTally, RunCount, RunAnswer
    <2>2. votes[t].row \in Nat /\ OneMore(t, votes[t].row) \in Nat
      BY <1>0, <1>1, OneMoreTypes DEF VotesType
    <2> HIDE DEF t
    <2>3. CASE votes' = [votes EXCEPT ![t].row = IF rows[t].status = "absent" THEN @ ELSE OneMore(t, @)]
      <3>1. PICK k \in Nat : k = IF rows[t].status = "absent" THEN votes[t].row ELSE OneMore(t, votes[t].row)
        BY <2>2
      <3>2. votes' = [votes EXCEPT ![t].row = k]
        BY <2>3, <3>1, <1>0, <1>1
      <3> QED BY <1>0, <1>1, <3>2 DEF VotesType
    <2>4. CASE \E fails \in BOOLEAN : votes' = [votes EXCEPT ![t].blind = @ \/ fails]
      <3>1. PICK fails \in BOOLEAN : votes' = [votes EXCEPT ![t].blind = @ \/ fails]
        BY <2>4
      <3>2. PICK b \in BOOLEAN : b = (votes[t].blind \/ fails)
        OBVIOUS
      <3>3. votes' = [votes EXCEPT ![t].blind = b]
        BY <1>0, <1>1, <3>1, <3>2
      <3> QED BY <1>0, <1>1, <3>3 DEF VotesType
    <2> QED BY <1>0, <2>1, <2>3, <2>4
  <1>9. RestOK'
    BY <1>0, <1>3, <1>4, <1>5, <1>6, <1>7 DEF RestOK
  <1>10. PhaseOK' /\ task' \in [Txns -> TaskType]
    BY <1>0, <1>3 DEF PhaseOK, FlowOK
  <1> QED BY <1>2, <1>8, <1>9, <1>10 DEF FlowOK

\* A restart keeps the types.
LEMMA CrashKeeps ==
    ASSUME TypeInv, NEW i \in Instances, Crash(i)
    PROVE  FlowOK'
  <1>0. /\ FlowOK /\ RestOK /\ PhaseOK /\ votes \in [Txns -> VotesType] /\ OpsOK
        /\ hist \in [Txns -> HistType] /\ task \in [Txns -> TaskType]
    BY TypeInvParts DEF FlowOK
  <1>1. task' \in [Txns -> TaskType] /\ PhaseOK'
    <2>1. \A t \in Txns : task'[t] = task[t] \/ task'[t] = [task[t] EXCEPT !.pc = "lost"]
      BY DEF Crash
    <2>2. \A t \in Txns : [task[t] EXCEPT !.pc = "lost"] \in TaskType
      BY <1>0 DEF TaskType, TaskSteps
    <2>3. \A t \in Txns : [task[t] EXCEPT !.pc = "lost"].pc = "lost"
      BY <1>0 DEF TaskType
    <2>4. task' = [t \in Txns |-> task'[t]]
      BY DEF Crash
    <2>5. \A t \in Txns : task'[t] \in TaskType
      BY <1>0, <2>1, <2>2
    <2>6. \A t \in Txns : task'[t] = task[t] \/ task'[t].pc = "lost"
      BY <2>1, <2>3
    <2>7. PhaseOK'
      BY <1>0, <2>6 DEF PhaseOK
    <2> QED BY <2>4, <2>5, <2>7
  <1>2. RestOK'
    BY <1>0 DEF Crash, RestOK
  <1>3. votes' \in [Txns -> VotesType]
    <2>1. \A t \in Txns : [votes[t] EXCEPT !.home = 0] \in VotesType
      BY <1>0 DEF VotesType
    <2> QED BY <1>0, <2>1 DEF Crash
  <1>4. OpsOK'
    BY <1>0 DEF Crash, OpsOK
  <1> QED BY <1>0, <1>1, <1>2, <1>3, <1>4 DEF FlowOK, Crash

\* What the background job adds to the history: that a reserved row is gone.
LEMMA PurgeHistory ==
    ASSUME hist \in [Txns -> HistType], CleanupExpiredRows
    PROVE  /\ hist' \in [Txns -> HistType]
           /\ \A t \in Txns :
                 /\ hist'[t].asked = hist[t].asked /\ hist'[t].told = hist[t].told
                 /\ hist'[t].minted = hist[t].minted /\ hist'[t].early = hist[t].early
                 /\ hist'[t].audit = hist[t].audit /\ hist'[t].auditBy = hist[t].auditBy
                 /\ hist'[t].stored = hist[t].stored
                 /\ hist[t].purged => hist'[t].purged
                 /\ rows[t].eu # NoOne /\ rows'[t].status = "absent" /\ task[t].verdict = "none"
                       => hist'[t].purged
  <1> DEFINE gone == {t \in Txns : /\ rows[t].eu # NoOne /\ rows'[t].status = "absent"
                                   /\ task[t].verdict = "none"}
  <1>1. hist' = [t \in Txns |-> [hist[t] EXCEPT !.purged = @ \/ t \in gone]]
    BY DEF CleanupExpiredRows, NotePurges
  <1>2. SUFFICES ASSUME NEW t \in Txns
        PROVE  /\ hist'[t] \in HistType
               /\ hist'[t].asked = hist[t].asked /\ hist'[t].told = hist[t].told
               /\ hist'[t].minted = hist[t].minted /\ hist'[t].early = hist[t].early
               /\ hist'[t].audit = hist[t].audit /\ hist'[t].auditBy = hist[t].auditBy
               /\ hist'[t].stored = hist[t].stored
               /\ hist[t].purged => hist'[t].purged
               /\ t \in gone => hist'[t].purged
    <2> HIDE DEF gone
    <2>1. \A u \in Txns : hist'[u] \in HistType
      BY <1>2
    <2>2. hist' \in [Txns -> HistType]
      BY <1>1, <2>1
    <2>3. \A u \in Txns : /\ rows[u].eu # NoOne /\ rows'[u].status = "absent"
                           /\ task[u].verdict = "none" => u \in gone
      BY DEF gone
    <2> QED BY <1>2, <2>2, <2>3
  <1>3. PICK b \in BOOLEAN : b = (hist[t].purged \/ t \in gone)
    OBVIOUS
  <1> HIDE DEF gone
  <1>4. hist'[t] = [hist[t] EXCEPT !.purged = b] /\ hist[t] \in HistType
    BY <1>1, <1>2, <1>3
  <1>5. /\ hist'[t] \in HistType /\ hist'[t].purged = b
        /\ hist'[t].asked = hist[t].asked /\ hist'[t].told = hist[t].told
        /\ hist'[t].minted = hist[t].minted /\ hist'[t].early = hist[t].early
        /\ hist'[t].audit = hist[t].audit /\ hist'[t].auditBy = hist[t].auditBy
        /\ hist'[t].stored = hist[t].stored
    BY <1>4 DEF HistType
  <1> QED BY <1>3, <1>5

\* Every step keeps the types.
LEMMA TypesKept ==
    ASSUME TypeInv, [Next]_vars
    PROVE  TypeInv'
  <1>0. /\ Store!TypeOK /\ FlowOK /\ RestOK /\ PhaseOK /\ votes \in [Txns -> VotesType] /\ OpsOK
    BY TypeInvParts DEF FlowOK
  <1>1. Store!TypeOK'
    BY <1>0, StepMovesStore, TableTypesKept
  <1>2. FlowOK'
    <2>1. CASE CleanupExpiredRows
      <3>1. votes' \in [Txns -> VotesType]
        <4>1. \A t \in Txns, k \in Nat : [votes[t] EXCEPT !.row = k] \in VotesType
          BY <1>0 DEF VotesType
        <4>2. \A t \in Txns : votes[t].row \in Nat
          BY <1>0 DEF VotesType
        <4>3. \A t \in Txns : (IF rows'[t].status = "absent" THEN 0 ELSE votes[t].row) \in Nat
          BY <4>2
        <4>4. votes' = [t \in Txns |-> [votes[t] EXCEPT !.row = IF rows'[t].status = "absent" THEN 0 ELSE votes[t].row]]
          BY <2>1 DEF CleanupExpiredRows, ForgetCounts
        <4> QED BY <4>1, <4>3, <4>4
      <3>2. RestOK'
        <4>1. async' \in [Txns -> [status : AsyncStatuses, expires : Nat]]
          BY <1>0, <2>1 DEF CleanupExpiredRows, RestOK, AsyncStatuses
        <4>2. UNCHANGED <<cache, inflight, mem, posted>>
          BY <2>1 DEF CleanupExpiredRows
        <4> QED BY <1>0, <4>1, <4>2 DEF RestOK
      <3>3. task' = task /\ ops' = ops
        BY <2>1 DEF CleanupExpiredRows
      <3>4. PhaseOK' /\ OpsOK'
        BY <1>0, <3>3 DEF PhaseOK, OpsOK
      <3>5. hist' \in [Txns -> HistType]
        BY <1>0, <2>1, PurgeHistory DEF FlowOK
      <3> QED BY <1>0, <3>1, <3>2, <3>3, <3>4, <3>5 DEF FlowOK
    <2>2. CASE Tick \/ UNCHANGED vars
      <3>1. UNCHANGED <<async, cache, inflight, task, mem, posted, votes, ops, hist>>
        BY <2>2 DEF Tick, vars
      <3> QED BY <1>0, <3>1 DEF FlowOK, RestOK, PhaseOK, OpsOK
    <2> QED BY <2>1, <2>2, HandleKeeps, WaitKeeps, ActKeeps, RunKeeps, CrashKeeps DEF Next
  <1>3. (Store!TypeOK /\ FlowOK => TypeInv)'
    BY TypeInvParts, PTL
  <1> QED BY <1>1, <1>2, <1>3

\* Type correctness of the whole flow, of the plans the handlers run and of
\* the phases of the task included.
THEOREM FlowTypes == Spec => [](TypeInv /\ TypeOK)
  <1>1. Init => TypeInv
    <2> SUFFICES ASSUME Init PROVE TypeInv
      OBVIOUS
    <2>1. Store!TypeOK
      <3>1. Store!AbsentRow \in Store!Row
        BY DEF Store!AbsentRow, Store!Row, Store!Statuses, Store!Principals
      <3> QED BY <3>1 DEF Init, Store!Init, Store!TypeOK
    <2>2. RestOK
      BY DEF Init, RestOK, AsyncStatuses
    <2>3. task \in [Txns -> TaskType] /\ PhaseOK
      BY DEF Init, TaskType, TaskSteps, Verdicts, PhaseOK
    <2>4. hist \in [Txns -> HistType] /\ votes \in [Txns -> VotesType]
      BY DEF Init, HistType, VotesType, Verdicts
    <2>5. OpsOK
      BY DEF Init, OpsOK
    <2> QED BY <2>1, <2>2, <2>3, <2>4, <2>5, TypeInvParts DEF FlowOK
  <1>2. TypeInv => TypeOK
    BY DEF TypeInv
  <1> QED BY <1>1, <1>2, TypesKept, PTL DEF Spec

\* The refinement: whatever the handlers, tasks, restarts and the background
\* job do, the table pending_approvals only changes by the statements of store.rs
\* that PendingApprovals models, one at a time.
THEOREM FlowUsesTheStore == Spec => StoreSpec
  <1>1. Init => Store!Init
    BY DEF Init
  <1>2. TypeInv /\ [Next]_vars => [Store!Next]_(Store!vars)
    BY StepMovesStore DEF StoreMoves
  <1> QED BY <1>1, <1>2, FlowTypes, PTL DEF Spec, StoreSpec, Store!Spec

\* One statement on one row, in the terms of this module.
Wrote(t, r) == rows' = [rows EXCEPT ![t] = r] /\ now' = now

\* Each statement writes one row.
LEMMA StatementEffects ==
    ASSUME NEW t \in Txns
    PROVE  /\ \A eu, ttl : Store!SavePendingApproval(t, eu, ttl)
                 => Wrote(t, SavedRow(rows[t], eu, now + ttl))
           /\ \A s, by : Store!ResolvePendingApproval(t, s, by)
                 => Wrote(t, ResolvedRow(rows[t], s, by, now))
           /\ \A by : Store!ClaimPendingApprovalForGrant(t, by) => Wrote(t, ClaimedRow(rows[t], by))
           /\ \A s, e, by : Store!ResolvePendingApprovalAsEndUser(t, s, e, by)
                 => Wrote(t, EndUserResolvedRow(rows[t], s, e, by))
           /\ \A p : Store!SetPendingApprovalChallenge(t, p) => Wrote(t, ChallengedRow(rows[t], p, now))
           /\ Store!TakePendingApprovalChallenge(t) => Wrote(t, ChallengeTakenRow(rows[t], now))
           /\ Store!SetPendingApprovalMessage(t) => Wrote(t, MessageStoredRow(rows[t], now))
           /\ Store!DeletePendingApproval(t) => Wrote(t, AbsentRow)
  <1>1. ASSUME NEW eu, NEW ttl, Store!SavePendingApproval(t, eu, ttl)
        PROVE  Wrote(t, SavedRow(rows[t], eu, now + ttl))
    BY <1>1 DEF Wrote, Store!SavePendingApproval, SavedRow, Store!SavedRow, Store!Coalesce, Coalesce,
                AbsentRow, Store!AbsentRow
  <1>2. ASSUME NEW s, NEW by, Store!ResolvePendingApproval(t, s, by)
        PROVE  Wrote(t, ResolvedRow(rows[t], s, by, now))
    BY <1>2 DEF Wrote, Store!ResolvePendingApproval, ResolvedRow, Store!ResolvedRow, Store!Coalesce,
                Coalesce, ResolveHits, Store!ResolveHits, PhantomRow, Store!PhantomRow
  <1>3. ASSUME NEW by, Store!ClaimPendingApprovalForGrant(t, by)
        PROVE  Wrote(t, ClaimedRow(rows[t], by))
    BY <1>3 DEF Wrote, Store!ClaimPendingApprovalForGrant, ClaimedRow, Store!ClaimedRow,
                Store!Coalesce, Coalesce, ClaimHits, Store!ClaimHits
  <1>4. ASSUME NEW s, NEW e, NEW by, Store!ResolvePendingApprovalAsEndUser(t, s, e, by)
        PROVE  Wrote(t, EndUserResolvedRow(rows[t], s, e, by))
    BY <1>4 DEF Wrote, Store!ResolvePendingApprovalAsEndUser, EndUserResolvedRow,
                Store!EndUserResolvedRow, Store!Coalesce, Coalesce, EndUserHits, Store!EndUserHits
  <1>5. ASSUME NEW p, Store!SetPendingApprovalChallenge(t, p)
        PROVE  Wrote(t, ChallengedRow(rows[t], p, now))
    BY <1>5 DEF Wrote, Store!SetPendingApprovalChallenge, ChallengedRow, Store!ChallengedRow,
                PhantomRow, Store!PhantomRow
  <1>6. Store!TakePendingApprovalChallenge(t) => Wrote(t, ChallengeTakenRow(rows[t], now))
    BY DEF Wrote, Store!TakePendingApprovalChallenge, ChallengeTakenRow, Store!ChallengeTakenRow,
           ChallengeTakeable, Store!ChallengeTakeable, Actionable, Store!Actionable
  <1>7. Store!SetPendingApprovalMessage(t) => Wrote(t, MessageStoredRow(rows[t], now))
    BY DEF Wrote, Store!SetPendingApprovalMessage, MessageStoredRow, Store!MessageStoredRow,
           PhantomRow, Store!PhantomRow
  <1>8. Store!DeletePendingApproval(t) => Wrote(t, AbsentRow)
    BY DEF Wrote, Store!DeletePendingApproval, AbsentRow, Store!AbsentRow
  <1> QED BY <1>1, <1>2, <1>3, <1>4, <1>5, <1>6, <1>7, <1>8

\* What each statement may do to the columns the flow's properties read.
LEMMA RowEffects ==
    ASSUME NEW r \in Row, NEW clock \in Nat
    PROVE  /\ \A eu, x : LET q == SavedRow(r, eu, x) IN
                 /\ q.status = (IF r.status = "absent" THEN "pending" ELSE r.status)
                 /\ q.eu = (IF r.status = "absent" THEN eu ELSE Coalesce(eu, r.eu))
                 /\ q.expires = x
                 /\ q.by = (IF r.status \in {"absent", "pending"} THEN NoOne ELSE r.by)
           /\ \A s, by : LET q == ResolvedRow(r, s, by, clock) IN
                 /\ ~ ResolveHits(r, s) => q = r
                 /\ ResolveHits(r, s) =>
                      /\ q.status = s
                      /\ q.eu = (IF r.status = "absent" THEN NoOne ELSE r.eu)
                      /\ q.expires = (IF r.status = "absent" THEN clock + PhantomTtl ELSE r.expires)
                      /\ q.by = (IF r.status = "absent" THEN by ELSE Coalesce(by, r.by))
           /\ \A by : LET q == ClaimedRow(r, by) IN
                 /\ ~ ClaimHits(r) => q = r
                 /\ ClaimHits(r) => /\ q.status = "approved" /\ q.eu = r.eu
                                    /\ q.expires = r.expires /\ q.by = Coalesce(by, r.by)
           /\ \A s, e, by : LET q == EndUserResolvedRow(r, s, e, by) IN
                 /\ ~ EndUserHits(r, e) => q = r
                 /\ EndUserHits(r, e) => /\ q.status = s /\ q.eu = r.eu
                                         /\ q.expires = r.expires /\ q.by = Coalesce(by, r.by)
           /\ \A p : LET q == ChallengedRow(r, p, clock) IN
                 /\ q.status = (IF r.status = "absent" THEN "pending" ELSE r.status)
                 /\ q.eu = (IF r.status = "absent" THEN NoOne ELSE r.eu)
                 /\ q.expires = (IF r.status \in {"absent", "pending"} THEN clock + PhantomTtl ELSE r.expires)
                 /\ q.by = (IF r.status = "absent" THEN NoOne ELSE r.by)
           /\ LET q == ChallengeTakenRow(r, clock) IN
                 q.status = r.status /\ q.eu = r.eu /\ q.expires = r.expires /\ q.by = r.by
           /\ LET q == MessageStoredRow(r, clock) IN
                 /\ q.status = (IF r.status = "absent" THEN "pending" ELSE r.status)
                 /\ q.eu = (IF r.status = "absent" THEN NoOne ELSE r.eu)
                 /\ q.expires = (IF r.status = "absent" THEN clock + PhantomTtl ELSE r.expires)
                 /\ q.by = (IF r.status = "absent" THEN NoOne ELSE r.by)
           /\ AbsentRow.status = "absent" /\ AbsentRow.eu = NoOne /\ AbsentRow.by = NoOne
  <1> USE DEF Row
  <1>1. ASSUME NEW eu, NEW x
        PROVE  LET q == SavedRow(r, eu, x) IN
                 /\ q.status = (IF r.status = "absent" THEN "pending" ELSE r.status)
                 /\ q.eu = (IF r.status = "absent" THEN eu ELSE Coalesce(eu, r.eu))
                 /\ q.expires = x
                 /\ q.by = (IF r.status \in {"absent", "pending"} THEN NoOne ELSE r.by)
    BY DEF SavedRow, AbsentRow
  <1>2. ASSUME NEW s, NEW by
        PROVE  LET q == ResolvedRow(r, s, by, clock) IN
                 /\ ~ ResolveHits(r, s) => q = r
                 /\ ResolveHits(r, s) =>
                      /\ q.status = s
                      /\ q.eu = (IF r.status = "absent" THEN NoOne ELSE r.eu)
                      /\ q.expires = (IF r.status = "absent" THEN clock + PhantomTtl ELSE r.expires)
                      /\ q.by = (IF r.status = "absent" THEN by ELSE Coalesce(by, r.by))
    BY DEF ResolvedRow, PhantomRow
  <1>3. ASSUME NEW by
        PROVE  LET q == ClaimedRow(r, by) IN
                 /\ ~ ClaimHits(r) => q = r
                 /\ ClaimHits(r) => /\ q.status = "approved" /\ q.eu = r.eu
                                    /\ q.expires = r.expires /\ q.by = Coalesce(by, r.by)
    BY DEF ClaimedRow
  <1>4. ASSUME NEW s, NEW e, NEW by
        PROVE  LET q == EndUserResolvedRow(r, s, e, by) IN
                 /\ ~ EndUserHits(r, e) => q = r
                 /\ EndUserHits(r, e) => /\ q.status = s /\ q.eu = r.eu
                                         /\ q.expires = r.expires /\ q.by = Coalesce(by, r.by)
    BY DEF EndUserResolvedRow
  <1>5. ASSUME NEW p
        PROVE  LET q == ChallengedRow(r, p, clock) IN
                 /\ q.status = (IF r.status = "absent" THEN "pending" ELSE r.status)
                 /\ q.eu = (IF r.status = "absent" THEN NoOne ELSE r.eu)
                 /\ q.expires = (IF r.status \in {"absent", "pending"} THEN clock + PhantomTtl ELSE r.expires)
                 /\ q.by = (IF r.status = "absent" THEN NoOne ELSE r.by)
    <2>1. CASE r.status = "absent"
      BY <2>1 DEF ChallengedRow, PhantomRow
    <2>2. CASE r.status = "pending"
      BY <2>2 DEF ChallengedRow
    <2>3. CASE r.status \notin {"absent", "pending"}
      BY <2>3 DEF ChallengedRow
    <2> QED BY <2>1, <2>2, <2>3
  <1>6. LET q == ChallengeTakenRow(r, clock) IN
          q.status = r.status /\ q.eu = r.eu /\ q.expires = r.expires /\ q.by = r.by
    BY DEF ChallengeTakenRow
  <1>7. LET q == MessageStoredRow(r, clock) IN
          /\ q.status = (IF r.status = "absent" THEN "pending" ELSE r.status)
          /\ q.eu = (IF r.status = "absent" THEN NoOne ELSE r.eu)
          /\ q.expires = (IF r.status = "absent" THEN clock + PhantomTtl ELSE r.expires)
          /\ q.by = (IF r.status = "absent" THEN NoOne ELSE r.by)
    BY DEF MessageStoredRow, PhantomRow
  <1>8. AbsentRow.status = "absent" /\ AbsentRow.eu = NoOne /\ AbsentRow.by = NoOne
    BY DEF AbsentRow
  <1> QED BY <1>1, <1>2, <1>3, <1>4, <1>5, <1>6, <1>7, <1>8

(***************************************************************************)
(* The inductive invariant of a request: r its row, k its task, m its      *)
(* oneshot, h its history.                                                 *)
(***************************************************************************)
Undecided == {"idle", "send", "deliver", "store", "queue", "waiting", "expire"}

Consent(r, k, m, h) ==
    r.status = "approved" \/ k.verdict = "approved" \/ m = "approved" => h.asked # {}

Wakeful(k, m) ==
    k.pc \in {"deliver", "store", "queue", "waiting"} /\ k.channel \in Bots => m # "none"

Routed(k, m) ==
    /\ k.eu # NoOne => k.channel = "agent_reflected"
    /\ m # "none" => k.channel \in Bots
    /\ k.pc \in {"deliver", "store", "cleanup"} => k.channel \in Bots
    /\ k.pc \in Undecided => k.verdict = "none"
    /\ k.pc = "idle" => m = "none"

\* Once stamped, the reservation stays for as long as the row does.
Reserved(r, k, h) ==
    k.eu # NoOne /\ ~ h.purged =>
        /\ k.pc \in {"queue", "waiting", "expire"} =>
              /\ r.status # "absent" /\ r.eu = k.eu
              /\ r.status = "approved" /\ ~ h.early => k.eu \in h.asked
        /\ k.verdict = "approved" /\ ~ h.early => k.eu \in h.asked

Good(r, k, m, h) ==
    Consent(r, k, m, h) /\ Wakeful(k, m) /\ Routed(k, m) /\ Reserved(r, k, h)

FlowInv == \A t \in Txns : Good(rows[t], task[t], mem[t], hist[t])

\* The self-persisting channels are no bots.
LEMMA BotsAreBots == "agent_reflected" \notin Bots /\ "dashboard" \notin Bots /\ "none" \notin Bots
  BY DEF Bots

\* Steps that leave a request alone.
Still(t) == rows'[t] = rows[t] /\ task'[t] = task[t] /\ mem'[t] = mem[t] /\ hist'[t] = hist[t]

\* The request handler keeps the invariant.
LEMMA HandleInv ==
    ASSUME TypeInv, FlowInv, NEW t \in Txns, Receive(t) \/ Handle(t)
    PROVE  FlowInv'
  <1>0. /\ rows \in [Txns -> Row] /\ now \in Nat /\ task \in [Txns -> TaskType]
        /\ hist \in [Txns -> HistType] /\ ApprovalTimeout \in Nat /\ PendingTtl \in Nat
        /\ mem \in [Txns -> {"none", "open", "approved", "denied"}]
        /\ ApprovalTimeout < PendingTtl
    BY RowsTyped, FlowAssumption DEF TypeInv, TypeOK
  <1>1. Good(rows[t], task[t], mem[t], hist[t])
    BY DEF FlowInv
  <1> SUFFICES /\ now' = now /\ \A u \in Txns : u # t => Still(u)
               /\ Good(rows'[t], task'[t], mem'[t], hist'[t])
    BY DEF FlowInv, Still
  <1>2. CASE Receive(t)
    <2>1. PICK i \in Instances, c \in Channels, eu \in EndUsers \cup {NoOne}, n \in Thresholds :
             ReceiveForward(t, i, c, eu, n)
      BY <1>2 DEF Receive
    <2>2. /\ OthersKept(t) /\ task'[t].pc = "send" /\ task'[t].eu = eu
          /\ task'[t].channel = ChannelFor(c, eu) /\ task'[t].verdict = task[t].verdict
      BY <2>1, ReceiveFacts
    <2>3. mem' = mem /\ hist' = hist /\ task[t].pc = "idle"
      BY <2>1 DEF ReceiveForward
    <2>4. /\ now' = now /\ \A u \in Txns : u # t => rows'[u] = rows[u]
          /\ rows'[t].status = "approved" => rows[t].status = "approved"
      <3>1. CASE UNCHANGED store
        BY <3>1 DEF store
      <3>2. CASE Store!SavePendingApproval(t, NoOne, PendingTtl)
        <4>1. Wrote(t, SavedRow(rows[t], NoOne, now + PendingTtl))
          BY <3>2, StatementEffects
        <4>2. rows[t] \in Row
          BY <1>0
        <4>3. SavedRow(rows[t], NoOne, now + PendingTtl).status
                = (IF rows[t].status = "absent" THEN "pending" ELSE rows[t].status)
          BY <1>0, <4>2, RowEffects
        <4> QED BY <1>0, <4>1, <4>3 DEF Wrote
      <3> QED BY <2>1, <3>1, <3>2 DEF ReceiveForward
    <2>5. task'[t].verdict = "none" /\ mem[t] = "none"
      BY <1>1, <2>2, <2>3 DEF Good, Routed, Undecided
    <2> QED BY <1>1, <2>2, <2>3, <2>4, <2>5
        DEF Still, OthersKept, ChannelFor, Good, Consent, Wakeful, Routed, Reserved, Undecided
  <1>3. CASE SendDashboard(t) \/ SendAgentReflected(t)
    <2>1. PICK ch \in {"dashboard", "agent_reflected"} : SelfPersistingSend(t, ch)
      BY <1>3 DEF SendDashboard, SendAgentReflected
    <2>2. /\ Goto(t, "queue") /\ task[t].pc = "send" /\ task[t].channel = ch /\ mem' = mem
      BY <2>1 DEF SelfPersistingSend
    <2>3. /\ OthersKept(t) /\ task'[t].pc = "queue" /\ task'[t].eu = task[t].eu
          /\ task'[t].channel = ch /\ task'[t].verdict = task[t].verdict
      BY <2>2, GotoKeeps DEF OthersKept, TaskSteps
    <2>4. PICK e \in BOOLEAN : e = (task[t].eu # NoOne /\ rows[t].status = "approved")
      OBVIOUS
    <2>5. hist' = [hist EXCEPT ![t].early = e]
      BY <2>1, <2>4 DEF SelfPersistingSend
    <2>6. /\ hist'[t].early = e /\ hist'[t].asked = hist[t].asked
          /\ \A u \in Txns : u # t => hist'[u] = hist[u]
      BY <1>0, <2>5 DEF HistType
    <2>7. Wrote(t, SavedRow(rows[t], task[t].eu, now + PendingTtl))
      BY <2>1, StatementEffects DEF SelfPersistingSend
    <2>8. /\ now' = now /\ \A u \in Txns : u # t => rows'[u] = rows[u]
          /\ rows'[t] = SavedRow(rows[t], task[t].eu, now + PendingTtl)
      BY <1>0, <2>7 DEF Wrote
    <2>9. /\ rows'[t].status = (IF rows[t].status = "absent" THEN "pending" ELSE rows[t].status)
          /\ rows'[t].eu = (IF rows[t].status = "absent" THEN task[t].eu
                            ELSE Coalesce(task[t].eu, rows[t].eu))
      <3>1. rows[t] \in Row
        BY <1>0
      <3> QED BY <1>0, <2>8, <3>1, RowEffects
    <2>10. ch \notin Bots
      BY BotsAreBots
    <2>11. rows[t].status \in Statuses
      BY <1>0 DEF Row
    <2>12. Consent(rows'[t], task'[t], mem'[t], hist'[t])
      BY <1>1, <2>2, <2>3, <2>6, <2>9 DEF Good, Consent
    <2>13. Wakeful(task'[t], mem'[t]) /\ Routed(task'[t], mem'[t])
      BY <1>1, <2>2, <2>3, <2>10 DEF Good, Wakeful, Routed, Undecided
    <2>14. Reserved(rows'[t], task'[t], hist'[t])
      <3>1. task'[t].verdict = "none"
        BY <1>1, <2>2, <2>3 DEF Good, Routed, Undecided
      <3>2. ASSUME task[t].eu # NoOne
            PROVE  /\ rows'[t].status # "absent" /\ rows'[t].eu = task[t].eu
                   /\ rows'[t].status = "approved" => hist'[t].early
        BY <2>4, <2>6, <2>9, <3>2 DEF Coalesce
      <3> QED BY <2>3, <3>1, <3>2 DEF Reserved
    <2> QED BY <2>2, <2>3, <2>6, <2>8, <2>12, <2>13, <2>14 DEF Good, Still, OthersKept
  <1>4. CASE RegisterPending(t) \/ DeliverMessage(t) \/ SendFails(t)
    <2>1. PICK pc \in {"deliver", "store", "refused"} :
             /\ Goto(t, pc)
             /\ pc = "deliver" => task[t].pc = "send" /\ task[t].channel \in Bots /\ mem' = [mem EXCEPT ![t] = "open"]
             /\ pc = "store" => task[t].pc = "deliver" /\ mem' = mem
             /\ pc = "refused" => task[t].pc \in {"send", "deliver"} /\ mem' = [mem EXCEPT ![t] = "none"]
      BY <1>4 DEF RegisterPending, DeliverMessage, SendFails
    <2>2. UNCHANGED <<rows, now, hist>>
      BY <1>4 DEF RegisterPending, DeliverMessage, SendFails, store
    <2>3. /\ OthersKept(t) /\ task'[t].pc = pc /\ task'[t].eu = task[t].eu
          /\ task'[t].channel = task[t].channel /\ task'[t].verdict = task[t].verdict
      BY <2>1, GotoKeeps DEF OthersKept, TaskSteps
    <2>4. \A u \in Txns : u # t => Still(u)
      BY <1>0, <2>1, <2>2, <2>3 DEF Still, OthersKept
    <2>5. Consent(rows'[t], task'[t], mem'[t], hist'[t])
      BY <1>0, <1>1, <2>1, <2>2, <2>3 DEF Good, Consent
    <2>6. Wakeful(task'[t], mem'[t]) /\ Routed(task'[t], mem'[t])
      BY <1>0, <1>1, <2>1, <2>3 DEF Good, Wakeful, Routed, Undecided
    <2>7. Reserved(rows'[t], task'[t], hist'[t])
      BY <1>0, <1>1, <2>1, <2>2, <2>3 DEF Good, Routed, Reserved, Undecided
    <2> QED BY <2>2, <2>4, <2>5, <2>6, <2>7 DEF Good
  <1>5. CASE StoreMessage(t)
    <2>1. task[t].pc = "store" /\ Goto(t, "queue") /\ mem' = mem /\ hist' = hist
      BY <1>5 DEF StoreMessage
    <2>2. /\ OthersKept(t) /\ task'[t].pc = "queue" /\ task'[t].eu = task[t].eu
          /\ task'[t].channel = task[t].channel /\ task'[t].verdict = task[t].verdict
      BY <2>1, GotoKeeps DEF OthersKept, TaskSteps
    <2>3. Wrote(t, MessageStoredRow(rows[t], now))
      BY <1>5, StatementEffects DEF StoreMessage
    <2>4. /\ now' = now /\ \A u \in Txns : u # t => rows'[u] = rows[u]
          /\ rows'[t] = MessageStoredRow(rows[t], now)
      BY <1>0, <2>3 DEF Wrote
    <2>5. rows'[t].status = (IF rows[t].status = "absent" THEN "pending" ELSE rows[t].status)
      <3>1. rows[t] \in Row
        BY <1>0
      <3> QED BY <1>0, <2>4, <3>1, RowEffects
    <2>6. task[t].channel \in Bots /\ task[t].eu = NoOne
      BY <1>1, <2>1, BotsAreBots DEF Good, Routed
    <2>7. Consent(rows'[t], task'[t], mem'[t], hist'[t])
      BY <1>1, <2>1, <2>2, <2>5 DEF Good, Consent
    <2>8. Wakeful(task'[t], mem'[t]) /\ Routed(task'[t], mem'[t])
      BY <1>1, <2>1, <2>2, <2>6 DEF Good, Wakeful, Routed, Undecided
    <2>9. Reserved(rows'[t], task'[t], hist'[t])
      BY <2>2, <2>6 DEF Reserved
    <2> QED BY <2>1, <2>2, <2>4, <2>7, <2>8, <2>9 DEF Good, Still, OthersKept
  <1>6. CASE Queue(t)
    <2>1. task[t].pc = "queue" /\ mem' = mem /\ hist' = hist
      BY <1>6 DEF Queue
    <2>2. /\ OthersKept(t) /\ task'[t].pc = "waiting" /\ task'[t].eu = task[t].eu
          /\ task'[t].channel = task[t].channel /\ task'[t].verdict = task[t].verdict
          /\ task'[t].deadline = now + ApprovalTimeout
      BY <1>6, QueueFacts
    <2>3. /\ now' = now /\ \A u \in Txns : u # t => rows'[u] = rows[u]
          /\ rows'[t].status = "approved" => rows[t].status = "approved"
          /\ task[t].channel \notin Bots => rows'[t] = rows[t]
      <3>1. CASE UNCHANGED store
        BY <3>1 DEF store
      <3>2. CASE Store!SavePendingApproval(t, NoOne, ApprovalTimeout) /\ task[t].channel \in Bots
        <4>1. Wrote(t, SavedRow(rows[t], NoOne, now + ApprovalTimeout))
          BY <3>2, StatementEffects
        <4>2. rows[t] \in Row
          BY <1>0
        <4>3. SavedRow(rows[t], NoOne, now + ApprovalTimeout).status
                = (IF rows[t].status = "absent" THEN "pending" ELSE rows[t].status)
          BY <1>0, <4>2, RowEffects
        <4> QED BY <1>0, <3>2, <4>1, <4>3 DEF Wrote
      <3> QED BY <1>6, <3>1, <3>2 DEF Queue
    <2>4. Consent(rows'[t], task'[t], mem'[t], hist'[t])
      BY <1>1, <2>1, <2>2, <2>3 DEF Good, Consent
    <2>5. Wakeful(task'[t], mem'[t]) /\ Routed(task'[t], mem'[t])
      BY <1>1, <2>1, <2>2 DEF Good, Wakeful, Routed, Undecided
    <2>6. Reserved(rows'[t], task'[t], hist'[t])
      BY <1>0, <1>1, <2>1, <2>2, <2>3, BotsAreBots DEF Good, Reserved, Routed
    <2> QED BY <2>1, <2>2, <2>3, <2>4, <2>5, <2>6 DEF Good, Still, OthersKept
  <1> QED BY <1>2, <1>3, <1>4, <1>5, <1>6 DEF Handle

\* A task that stops waiting, and what it does from then on.
LEMMA ConcludingIsGood ==
    ASSUME NEW r, NEW k, NEW m, NEW h, Good(r, k, m, h),
           NEW r2, NEW k2, NEW m2, NEW h2,
           k2.eu = k.eu /\ k2.channel = k.channel,
           k2.pc \in {"cleanup", "identify", "record", "forward", "done"},
           k2.pc = "cleanup" => k.channel \in Bots,
           h2.asked = h.asked /\ h2.early = h.early /\ h2.purged = h.purged,
           r2.status = "approved" => r.status = "approved",
           m2 = m \/ m2 = "none",
           \/ k2.verdict = k.verdict
           \/ k2.verdict # "approved"
           \/ k.pc = "waiting" /\ (r.status = "approved" \/ m = "approved")
    PROVE  Good(r2, k2, m2, h2)
  <1>1. Consent(r2, k2, m2, h2)
    BY DEF Good, Consent
  <1>2. Wakeful(k2, m2) /\ Routed(k2, m2)
    BY DEF Good, Wakeful, Routed, Undecided
  <1>3. Reserved(r2, k2, h2)
    <2>1. m = "approved" => k.eu = NoOne
      BY BotsAreBots DEF Good, Routed
    <2> QED BY <2>1 DEF Good, Reserved
  <1> QED BY <1>1, <1>2, <1>3 DEF Good

\* The background task keeps the invariant.
LEMMA WaitInv ==
    ASSUME TypeInv, FlowInv, NEW t \in Txns, Wait(t)
    PROVE  FlowInv'
  <1>0. /\ rows \in [Txns -> Row] /\ now \in Nat /\ task \in [Txns -> TaskType]
        /\ hist \in [Txns -> HistType] /\ rows[t] \in Row
        /\ mem \in [Txns -> {"none", "open", "approved", "denied"}]
    BY RowsTyped DEF TypeInv, TypeOK
  <1>1. Good(rows[t], task[t], mem[t], hist[t])
    BY DEF FlowInv
  <1> SUFFICES /\ now' = now /\ \A u \in Txns : u # t => Still(u)
               /\ Good(rows'[t], task'[t], mem'[t], hist'[t])
    BY DEF FlowInv, Still
  <1>2. CASE PollDashboard(t) \/ PollAgentReflected(t) \/ PollBot(t)
    <2>1. PICK v \in Verdicts, pc \in {"cleanup", "identify", "record"} :
             /\ v = Seen(rows[t].status) /\ Conclude(t, v, pc) /\ v # "none"
             /\ pc = "cleanup" => task[t].channel \in Bots
             /\ pc = "record"   => v \in {"denied", "timeout", "error"}
             /\ pc = "identify" => v \in {"approved", "denied"}
      <3>1. PICK v : v = Seen(rows[t].status)
        OBVIOUS
      <3>2. v \in Verdicts
        BY <3>1, SeenFacts
      <3>3. /\ v # "none"
            /\ \/ Conclude(t, v, AfterDecision(v))
               \/ Conclude(t, v, "cleanup") /\ task[t].channel \in Bots
        BY <1>2, <3>1 DEF PollDashboard, PollAgentReflected, PollBot
      <3>4. \/ AfterDecision(v) = "identify" /\ v \in {"approved", "denied"}
            \/ AfterDecision(v) = "record" /\ v \in {"denied", "timeout", "error"}
        BY <3>2, <3>3 DEF AfterDecision, Verdicts
      <3> QED BY <3>1, <3>2, <3>3, <3>4
    <2>2. task[t].pc = "waiting" /\ UNCHANGED <<mem, hist>>
      BY <1>2 DEF PollDashboard, PollAgentReflected, PollBot
    <2>3. Wrote(t, AbsentRow) \/ UNCHANGED <<rows, now>>
      BY <1>2, StatementEffects DEF PollDashboard, PollAgentReflected, PollBot, store
    <2>4. /\ now' = now /\ \A u \in Txns : u # t => rows'[u] = rows[u]
          /\ rows'[t].status = "approved" => rows[t].status = "approved"
      BY <1>0, <2>3 DEF Wrote, AbsentRow
    <2>5. pc \in TaskSteps
      BY DEF TaskSteps
    <2>6. /\ OthersKept(t) /\ task'[t].pc = pc /\ task'[t].eu = task[t].eu
          /\ task'[t].channel = task[t].channel /\ task'[t].verdict = v
      BY <2>1, <2>5, ConcludeKeeps DEF OthersKept
    <2>7. v = "approved" => rows[t].status = "approved"
      BY <2>1, SeenFacts
    <2>8. Good(rows'[t], task'[t], mem'[t], hist'[t])
      BY <1>1, <2>1, <2>2, <2>4, <2>6, <2>7, ConcludingIsGood
    <2> QED BY <2>2, <2>4, <2>6, <2>8 DEF Still, OthersKept
  <1>3. CASE GiveUp(t)
    <2>1. /\ task[t].pc = "waiting" /\ Goto(t, "expire") /\ UNCHANGED <<rows, now, mem, hist>>
      BY <1>3 DEF GiveUp, store
    <2>2. /\ OthersKept(t) /\ task'[t].pc = "expire" /\ task'[t].eu = task[t].eu
          /\ task'[t].channel = task[t].channel /\ task'[t].verdict = task[t].verdict
          /\ task'[t].deadline = task[t].deadline
      BY <2>1, GotoKeeps DEF OthersKept, TaskSteps
    <2>3. Consent(rows[t], task'[t], mem[t], hist[t])
      BY <1>1, <2>2 DEF Good, Consent
    <2>4. Wakeful(task'[t], mem[t]) /\ Routed(task'[t], mem[t])
      BY <1>1, <2>1, <2>2 DEF Good, Wakeful, Routed, Undecided
    <2>5. Reserved(rows[t], task'[t], hist[t])
      BY <1>1, <2>1, <2>2 DEF Good, Reserved
    <2> QED BY <2>1, <2>2, <2>3, <2>4, <2>5 DEF Good, Still, OthersKept
  <1>4. CASE ExpireRow(t) \/ TelegramDeadline(t) \/ MatrixDeadline(t)
    <2>1. PICK pc \in {"record", "cleanup"} :
             /\ Conclude(t, "error", pc)
             /\ pc = "cleanup" => task[t].channel \in Bots
      <3>1. ASSUME task[t].channel \in {"telegram", "matrix"} PROVE task[t].channel \in Bots
        <4>1. task[t].channel \in Channels \cup {"agent_reflected", "none"}
          BY <1>0 DEF TaskType
        <4> QED BY <3>1, <4>1 DEF Bots
      <3> QED BY <1>4, <3>1 DEF ExpireRow, TelegramDeadline, MatrixDeadline
    <2>2. UNCHANGED <<mem, hist>>
      BY <1>4 DEF ExpireRow, TelegramDeadline, MatrixDeadline
    <2>3. Wrote(t, ResolvedRow(rows[t], "expired", NoOne, now)) \/ UNCHANGED <<rows, now>>
      BY <1>4, StatementEffects DEF ExpireRow, TelegramDeadline, MatrixDeadline, store
    <2>4. ResolvedRow(rows[t], "expired", NoOne, now).status = "approved" => rows[t].status = "approved"
      <3>1. LET q == ResolvedRow(rows[t], "expired", NoOne, now)
            IN  q = rows[t] \/ q.status = "expired"
        BY <1>0, RowEffects
      <3> QED BY <3>1
    <2>5. /\ now' = now /\ \A u \in Txns : u # t => rows'[u] = rows[u]
          /\ rows'[t].status = "approved" => rows[t].status = "approved"
      BY <1>0, <2>3, <2>4 DEF Wrote
    <2>6. pc \in TaskSteps /\ "error" \in Verdicts
      BY DEF TaskSteps, Verdicts
    <2>7. /\ OthersKept(t) /\ task'[t].pc = pc /\ task'[t].eu = task[t].eu
          /\ task'[t].channel = task[t].channel /\ task'[t].verdict = "error"
      BY <2>1, <2>6, ConcludeKeeps DEF OthersKept
    <2>8. Good(rows'[t], task'[t], mem'[t], hist'[t])
      BY <1>1, <2>1, <2>2, <2>5, <2>7, ConcludingIsGood
    <2> QED BY <2>2, <2>5, <2>7, <2>8 DEF Still, OthersKept
  <1>5. CASE ReceiveSignal(t)
    <2>1. /\ task[t].pc = "waiting" /\ mem[t] \in {"approved", "denied"}
          /\ Conclude(t, mem[t], "identify") /\ mem' = [mem EXCEPT ![t] = "none"]
          /\ UNCHANGED <<rows, now, hist>>
      BY <1>5 DEF ReceiveSignal, store
    <2>2. "identify" \in TaskSteps /\ mem[t] \in Verdicts
      BY <2>1 DEF TaskSteps, Verdicts
    <2>3. /\ OthersKept(t) /\ task'[t].pc = "identify" /\ task'[t].eu = task[t].eu
          /\ task'[t].channel = task[t].channel /\ task'[t].verdict = mem[t]
      BY <2>1, <2>2, ConcludeKeeps DEF OthersKept
    <2>4. mem'[t] = "none" /\ \A u \in Txns : u # t => mem'[u] = mem[u]
      BY <1>0, <2>1
    <2>5. Good(rows'[t], task'[t], mem'[t], hist'[t])
      BY <1>1, <2>1, <2>3, <2>4, ConcludingIsGood
    <2> QED BY <2>1, <2>3, <2>4, <2>5 DEF Still, OthersKept
  <1>6. CASE CleanupPendingRequest(t)
    <2>1. PICK pc \in {"identify", "record"} :
             /\ Goto(t, pc)
             /\ pc = "record"   => task[t].verdict \in {"denied", "timeout", "error"}
             /\ pc = "identify" => task[t].verdict \in {"approved", "denied"}
      <3>1. task[t].verdict \in {"approved", "denied", "timeout", "error"}
        BY <1>0, <1>6 DEF CleanupPendingRequest, TypeInv, PhaseOK, TaskType, Verdicts
      <3> QED BY <1>6, <3>1 DEF CleanupPendingRequest, AfterDecision
    <2>2. mem' = [mem EXCEPT ![t] = "none"] /\ UNCHANGED <<rows, now, hist>>
      BY <1>6 DEF CleanupPendingRequest, store
    <2>3. /\ OthersKept(t) /\ task'[t].pc = pc /\ task'[t].eu = task[t].eu
          /\ task'[t].channel = task[t].channel /\ task'[t].verdict = task[t].verdict
      <3>1. pc \in TaskSteps
        BY DEF TaskSteps
      <3> QED BY <2>1, <3>1, GotoKeeps DEF OthersKept
    <2>4. mem'[t] = "none" /\ \A u \in Txns : u # t => mem'[u] = mem[u]
      BY <1>0, <2>2
    <2>5. Good(rows'[t], task'[t], mem'[t], hist'[t])
      BY <1>1, <2>1, <2>2, <2>3, <2>4, ConcludingIsGood
    <2> QED BY <2>2, <2>3, <2>4, <2>5 DEF Still, OthersKept
  <1>7. CASE Identify(t)
    <2>1. UNCHANGED <<rows, now, mem, hist>>
      BY <1>7 DEF Identify, store
    <2>2. /\ OthersKept(t) /\ task'[t].pc \in {"forward", "record"} /\ task'[t].eu = task[t].eu
          /\ task'[t].channel = task[t].channel /\ task'[t].verdict = task[t].verdict
      BY <1>7, IdentifyFacts
    <2>3. Good(rows'[t], task'[t], mem'[t], hist'[t])
      BY <1>1, <2>1, <2>2, ConcludingIsGood
    <2> QED BY <2>1, <2>2, <2>3 DEF Still, OthersKept
  <1>8. CASE Forward(t) \/ Record(t)
    <2>1. PICK s \in AsyncStatuses : Finish(t, s)
      <3>1. CASE Forward(t)
        BY <3>1 DEF Forward, AsyncStatuses
      <3>2. CASE Record(t)
        <4>1. task[t].verdict \in {"denied", "timeout", "error"}
          BY <3>2 DEF Record, TypeInv, PhaseOK
        <4> QED BY <3>2, <4>1 DEF Record, OutcomeStatus, AsyncStatuses
      <3> QED BY <1>8, <3>1, <3>2
    <2>2. UNCHANGED <<rows, now, mem>>
      BY <2>1 DEF Finish, store
    <2>3. /\ OthersKept(t) /\ task'[t].pc = "done" /\ task'[t].eu = task[t].eu
          /\ task'[t].channel = task[t].channel /\ task'[t].verdict = task[t].verdict
          /\ \A u \in Txns : u # t => hist'[u] = hist[u]
          /\ hist'[t].asked = hist[t].asked /\ hist'[t].early = hist[t].early
          /\ hist'[t].purged = hist[t].purged
      BY <2>1, FinishFacts
    <2>4. Good(rows'[t], task'[t], mem'[t], hist'[t])
      BY <1>1, <2>2, <2>3, ConcludingIsGood
    <2> QED BY <2>2, <2>3, <2>4 DEF Still, OthersKept
  <1> QED BY <1>2, <1>3, <1>4, <1>5, <1>6, <1>7, <1>8 DEF Wait

\* Opening a handler touches no request.
LEMMA ActInv ==
    ASSUME TypeInv, FlowInv, NEW i \in Instances, NEW t \in Txns, Act(i, t)
    PROVE  FlowInv'
  <1>1. UNCHANGED <<rows, now, task, mem, hist>>
    BY ActIsOpening DEF Opening, store
  <1> QED BY <1>1 DEF FlowInv

\* A restart loses the task and its oneshot together.
LEMMA CrashInv ==
    ASSUME TypeInv, FlowInv, NEW i \in Instances, Crash(i)
    PROVE  FlowInv'
  <1>0. task \in [Txns -> TaskType]
    BY RowsTyped
  <1>1. UNCHANGED <<rows, now, hist>>
    BY DEF Crash, store
  <1>2. SUFFICES ASSUME NEW t \in Txns, Good(rows[t], task[t], mem[t], hist[t])
                 PROVE  Good(rows[t], task'[t], mem'[t], hist[t])
    BY <1>1 DEF FlowInv
  <1>3. CASE task[t].home # i
    <2>1. task'[t] = task[t] /\ mem'[t] = mem[t]
      BY <1>3 DEF Crash
    <2> QED BY <1>2, <2>1
  <1>4. CASE task[t].home = i
    <2>1. mem'[t] = "none"
      BY <1>4 DEF Crash
    <2>2. /\ task'[t].pc = IF Live(t) THEN "lost" ELSE task[t].pc
          /\ task'[t].eu = task[t].eu /\ task'[t].channel = task[t].channel
          /\ task'[t].verdict = task[t].verdict
      BY <1>0, <1>4 DEF Crash, TaskType
    <2>3. task'[t].pc \in {"idle", "done", "refused", "lost"} /\ (task'[t].pc = "idle" => task[t].pc = "idle")
      BY <2>2 DEF Live
    <2>4. Consent(rows[t], task'[t], mem'[t], hist[t])
      BY <1>2, <2>1, <2>2 DEF Good, Consent
    <2>5. Wakeful(task'[t], mem'[t]) /\ Routed(task'[t], mem'[t])
      BY <1>2, <2>1, <2>2, <2>3 DEF Good, Wakeful, Routed, Undecided
    <2>6. Reserved(rows[t], task'[t], hist[t])
      BY <1>2, <2>2, <2>3 DEF Good, Reserved
    <2> QED BY <2>4, <2>5, <2>6 DEF Good
  <1> QED BY <1>3, <1>4

\* The background job may remove a reserved row, and the history says so.
LEMMA CleanupInv ==
    ASSUME TypeInv, FlowInv, CleanupExpiredRows
    PROVE  FlowInv'
  <1>0. hist \in [Txns -> HistType]
    BY RowsTyped DEF TypeInv, TypeOK
  <1>1. UNCHANGED <<task, mem>>
    BY DEF CleanupExpiredRows, Store!CleanupExpiredRows
  <1>2. \A t \in Txns : rows'[t] = rows[t] \/ rows'[t].status = "absent"
    BY DEF CleanupExpiredRows, Store!CleanupExpiredRows, Store!AbsentRow
  <1>3. SUFFICES ASSUME NEW t \in Txns, Good(rows[t], task[t], mem[t], hist[t]),
                        rows'[t] = rows[t] \/ rows'[t].status = "absent",
                        hist'[t].asked = hist[t].asked, hist'[t].early = hist[t].early,
                        hist[t].purged => hist'[t].purged,
                        rows[t].eu # NoOne /\ rows'[t].status = "absent" /\ task[t].verdict = "none"
                           => hist'[t].purged
                 PROVE  Good(rows'[t], task[t], mem[t], hist'[t])
    BY <1>0, <1>1, <1>2, PurgeHistory DEF FlowInv
  <1>4. Consent(rows'[t], task[t], mem[t], hist'[t])
    BY <1>3 DEF Good, Consent
  <1>5. Reserved(rows'[t], task[t], hist'[t])
    BY <1>3 DEF Good, Routed, Reserved, Undecided
  <1> QED BY <1>3, <1>4, <1>5 DEF Good

\* The clock is of no concern to the invariant.
LEMMA TickInv ==
    ASSUME TypeInv, FlowInv, Tick
    PROVE  FlowInv'
  <1>1. UNCHANGED <<rows, task, mem, hist>>
    BY DEF Tick, Store!Tick
  <1> QED BY <1>1 DEF FlowInv

\* What a step of a handler may do to a request: consent is recorded where it
\* is given, a oneshot is not lost, and a reserved row stays reserved and is
\* approved by its end-user only.
StepEffect(r, m, h, r2, m2, h2) ==
    /\ h2.early = h.early /\ h2.purged = h.purged /\ h.asked \subseteq h2.asked
    /\ r2.status = "approved" => r.status = "approved" \/ h2.asked # {}
    /\ m2 = "approved" => m = "approved" \/ h2.asked # {}
    /\ m2 = m \/ (m # "none" /\ m2 # "none")
    /\ r.status # "absent" /\ r.eu # NoOne =>
          /\ r2.status # "absent" /\ r2.eu = r.eu
          /\ r2.status = "approved" => r.status = "approved" \/ r.eu \in h2.asked

\* Such a step keeps the invariant of its request.
LEMMA StepEffectIsGood ==
    ASSUME NEW r \in Row, NEW k \in TaskType, NEW m, NEW h \in HistType,
           NEW r2 \in Row, NEW m2, NEW h2 \in HistType,
           Good(r, k, m, h), StepEffect(r, m, h, r2, m2, h2)
    PROVE  Good(r2, k, m2, h2)
  <1>1. Consent(r2, k, m2, h2)
    BY DEF Good, Consent, StepEffect, HistType
  <1>2. Wakeful(k, m2) /\ Routed(k, m2)
    BY DEF Good, Wakeful, Routed, StepEffect
  <1>3. Reserved(r2, k, h2)
    BY DEF Good, Reserved, StepEffect
  <1> QED BY <1>1, <1>2, <1>3 DEF Good

\* What a step of a handler does to the history of its request.
LEMMA RunHistory ==
    ASSUME TypeInv, NEW p \in Principals, Run(p)
    PROVE  LET t == ops[p].txn
               w == Head(ops[p].todo)
           IN  /\ \A u \in Txns : u # t => hist'[u] = hist[u]
               /\ hist'[t].early = hist[t].early /\ hist'[t].stored = hist[t].stored
               /\ hist'[t].purged = hist[t].purged
               /\ hist[t].asked \subseteq hist'[t].asked
               /\ \/ RunWrite(p) /\ ResolveHits(rows[t], w.status)
                  \/ RunSignal(p) /\ mem' # mem
                  \/ RunEndUser(p) /\ EndUserHits(rows[t], p)
                  \/ RunClaim(p) /\ ClaimHits(rows[t])
                  => (w.status = "approved" => p \in hist'[t].asked)
  <1> DEFINE t == ops[p].txn
             w == Head(ops[p].todo)
  <1>1. ops[p].todo # <<>>
    BY RunIsProceed
  <1>2. ASSUME NEW hit \in BOOLEAN, Proceed(p, hit)
        PROVE  /\ \A u \in Txns : u # t => hist'[u] = hist[u]
               /\ hist'[t].early = hist[t].early /\ hist'[t].stored = hist[t].stored
               /\ hist'[t].purged = hist[t].purged
               /\ hist[t].asked \subseteq hist'[t].asked
               /\ hit /\ w.status = "approved" => p \in hist'[t].asked
    BY <1>1, <1>2, ProceedKeeps
  <1>3. ASSUME RunWrite(p), ResolveHits(rows[t], w.status) PROVE Proceed(p, TRUE)
    <2>1. PICK hit : hit = ResolveHits(rows[t], w.status) /\ Proceed(p, hit)
      BY <1>3 DEF RunWrite
    <2>2. hit = TRUE
      BY <1>3, <2>1 DEF ResolveHits
    <2> QED BY <2>1, <2>2
  <1>4. ASSUME RunEndUser(p), EndUserHits(rows[t], p) PROVE Proceed(p, TRUE)
    <2>1. PICK hit : hit = EndUserHits(rows[t], p) /\ Proceed(p, hit)
      BY <1>4 DEF RunEndUser
    <2>2. hit = TRUE
      BY <1>4, <2>1 DEF EndUserHits
    <2> QED BY <2>1, <2>2
  <1>5. ASSUME RunSignal(p), mem' # mem PROVE Proceed(p, TRUE)
    <2> DEFINE hit == w.channel = task[t].channel /\ ops[p].inst = task[t].home /\ mem[t] = "open"
    <2>1. mem' = [mem EXCEPT ![t] = IF hit THEN w.status ELSE @] /\ Proceed(p, hit)
      BY <1>5 DEF RunSignal
    <2>2. mem \in [Txns -> {"none", "open", "approved", "denied"}]
      BY DEF TypeInv, TypeOK
    <2>3. hit
      BY <1>5, <2>1, <2>2
    <2>4. hit = TRUE
      BY <2>3
    <2> QED BY <2>1, <2>4
  <1>6. ASSUME RunClaim(p), ClaimHits(rows[t]) PROVE Proceed(p, TRUE)
    BY <1>6 DEF RunClaim
  <1>7. hist' = hist \/ \E hit \in BOOLEAN : Proceed(p, hit)
    BY <1>1, RunIsProceed, AbortKeeps
  <1>8. /\ \A u \in Txns : u # t => hist'[u] = hist[u]
        /\ hist'[t].early = hist[t].early /\ hist'[t].stored = hist[t].stored
        /\ hist'[t].purged = hist[t].purged
        /\ hist[t].asked \subseteq hist'[t].asked
    BY <1>2, <1>7
  <1>9. Proceed(p, TRUE) /\ w.status = "approved" => p \in hist'[t].asked
    BY <1>2
  <1> QED BY <1>3, <1>4, <1>5, <1>6, <1>8, <1>9

\* The steps of the handlers keep the invariant.
LEMMA RunInv ==
    ASSUME TypeInv, FlowInv, NEW p \in Principals, Run(p), TypeInv'
    PROVE  FlowInv'
  <1> DEFINE t == ops[p].txn
             w == Head(ops[p].todo)
  <1>0. /\ rows \in [Txns -> Row] /\ now \in Nat /\ task \in [Txns -> TaskType]
        /\ hist \in [Txns -> HistType] /\ rows' \in [Txns -> Row] /\ hist' \in [Txns -> HistType]
        /\ mem \in [Txns -> {"none", "open", "approved", "denied"}]
    <2>1. (TypeInv => rows \in [Txns -> Row] /\ hist \in [Txns -> HistType])'
      BY RowsTyped, PTL
    <2> QED BY <2>1, RowsTyped DEF TypeInv, TypeOK
  <1>1. ops[p].todo # <<>> /\ t \in Txns /\ w \in Steps(p)
    BY RunIsProceed, RunFacts
  <1>2. task' = task
    BY DEF Run, RunWrite, RunSignal, RunClaim, RunMint, RunUncache, RunChallenge, RunTake,
           RunEndUser, RunForget, RunTally, RunCount, RunAnswer
  <1>3. /\ \A u \in Txns : u # t => hist'[u] = hist[u]
        /\ hist'[t].early = hist[t].early /\ hist[t].asked \subseteq hist'[t].asked
        /\ hist'[t].purged = hist[t].purged
        /\ \/ RunWrite(p) /\ ResolveHits(rows[t], w.status)
           \/ RunSignal(p) /\ mem' # mem
           \/ RunEndUser(p) /\ EndUserHits(rows[t], p)
           \/ RunClaim(p) /\ ClaimHits(rows[t])
           => (w.status = "approved" => p \in hist'[t].asked)
    BY RunHistory
  <1>4. rows[t] \in Row /\ rows'[t] \in Row /\ hist[t] \in HistType /\ hist'[t] \in HistType
        /\ task[t] \in TaskType
    BY <1>0, <1>1
  <1> HIDE DEF t, w
  <1> SUFFICES /\ now' = now
               /\ \A u \in Txns : u # t => rows'[u] = rows[u] /\ mem'[u] = mem[u]
               /\ StepEffect(rows[t], mem[t], hist[t], rows'[t], mem'[t], hist'[t])
    <2>1. Good(rows[t], task[t], mem[t], hist[t])
      BY <1>1 DEF FlowInv
    <2>2. StepEffect(rows[t], mem[t], hist[t], rows'[t], mem'[t], hist'[t])
             => Good(rows'[t], task[t], mem'[t], hist'[t])
      BY <1>0, <1>4, <2>1, StepEffectIsGood
    <2> QED BY <1>2, <1>3, <2>2 DEF FlowInv
  <1>5. CASE RunWrite(p)
    <2>1. Wrote(t, ResolvedRow(rows[t], w.status, w.by, now)) /\ mem' = mem
      BY <1>1, <1>5, StatementEffects DEF RunWrite, t, w
    <2>2. /\ now' = now /\ rows'[t] = ResolvedRow(rows[t], w.status, w.by, now)
          /\ \A u \in Txns : u # t => rows'[u] = rows[u]
      BY <1>0, <1>1, <2>1 DEF Wrote
    <2>3. \/ rows'[t] = rows[t]
          \/ /\ ResolveHits(rows[t], w.status) /\ rows'[t].status = w.status
             /\ rows[t].status # "absent" =>
                   rows'[t].eu = rows[t].eu /\ rows'[t].expires = rows[t].expires
      BY <1>0, <1>4, <2>2, RowEffects
    <2>4. /\ w.status # "absent"
          /\ ResolveHits(rows[t], w.status) /\ w.status = "approved" => p \in hist'[t].asked
      BY <1>1, <1>3, <1>5 DEF Steps, StepRecords
    <2> QED BY <1>3, <2>1, <2>2, <2>3, <2>4 DEF StepEffect, ResolveHits
  <1>6. CASE RunSignal(p)
    <2>1. UNCHANGED <<rows, now>>
      BY <1>6 DEF RunSignal, store
    <2>2. w.status \in {"approved", "denied"}
      BY <1>1, <1>6 DEF RunSignal, Running, Steps, Lawful, w
    <2>3. mem' = mem \/ (mem' = [mem EXCEPT ![t] = w.status] /\ mem[t] = "open")
      BY <1>0, <1>1, <1>6 DEF RunSignal, t, w
    <2>4. \A u \in Txns : u # t => mem'[u] = mem[u]
      BY <1>0, <1>1, <2>3
    <2>5. mem'[t] = mem[t] \/ (mem[t] = "open" /\ mem'[t] = w.status)
      BY <1>0, <1>1, <2>3
    <2>6. mem'[t] # mem[t] /\ w.status = "approved" => p \in hist'[t].asked
      BY <1>3, <1>6
    <2> QED BY <1>3, <2>1, <2>2, <2>4, <2>5, <2>6 DEF StepEffect
  <1>7. CASE RunClaim(p)
    <2>1. Wrote(t, ClaimedRow(rows[t], w.by)) /\ mem' = mem
      BY <1>1, <1>7, StatementEffects DEF RunClaim, t, w
    <2>2. /\ now' = now /\ rows'[t] = ClaimedRow(rows[t], w.by)
          /\ \A u \in Txns : u # t => rows'[u] = rows[u]
      BY <1>0, <1>1, <2>1 DEF Wrote
    <2>3. \/ rows'[t] = rows[t]
          \/ /\ ClaimHits(rows[t]) /\ rows'[t].status = "approved"
             /\ rows'[t].eu = rows[t].eu /\ rows'[t].expires = rows[t].expires
      BY <1>0, <1>4, <2>2, RowEffects
    <2>4. w.status = "approved"
      BY <1>1, <1>7 DEF RunClaim, Running, Steps, Lawful, w
    <2>5. ClaimHits(rows[t]) => p \in hist'[t].asked /\ rows[t].eu = NoOne
      BY <1>3, <1>7, <2>4 DEF ClaimHits
    <2> QED BY <1>3, <2>1, <2>2, <2>3, <2>5 DEF StepEffect
  <1>8. CASE RunEndUser(p)
    <2>1. Wrote(t, EndUserResolvedRow(rows[t], "approved", p, p)) /\ mem' = mem
      BY <1>1, <1>8, StatementEffects DEF RunEndUser, t
    <2>2. /\ now' = now /\ rows'[t] = EndUserResolvedRow(rows[t], "approved", p, p)
          /\ \A u \in Txns : u # t => rows'[u] = rows[u]
      BY <1>0, <1>1, <2>1 DEF Wrote
    <2>3. \/ rows'[t] = rows[t]
          \/ /\ EndUserHits(rows[t], p) /\ rows'[t].status = "approved"
             /\ rows'[t].eu = rows[t].eu /\ rows'[t].expires = rows[t].expires
      <3>1. PICK r \in Row : r = rows[t]
        BY <1>4
      <3>2. LET q == EndUserResolvedRow(r, "approved", p, p)
            IN  /\ ~ EndUserHits(r, p) => q = r
                /\ EndUserHits(r, p) => q.status = "approved" /\ q.eu = r.eu /\ q.expires = r.expires
        BY <1>0, RowEffects
      <3> QED BY <2>2, <3>1, <3>2
    <2>4. w.status = "approved"
      BY <1>1, <1>8 DEF RunEndUser, Running, Steps, Lawful, w
    <2>5. EndUserHits(rows[t], p) => p \in hist'[t].asked
      BY <1>3, <1>8, <2>4
    <2> QED BY <1>3, <2>1, <2>2, <2>3, <2>5 DEF StepEffect, EndUserHits
  <1>9. CASE RunChallenge(p)
    <2>1. Wrote(t, ChallengedRow(rows[t], p, now)) /\ mem' = mem
      BY <1>1, <1>9, StatementEffects DEF RunChallenge, t
    <2>2. /\ now' = now /\ rows'[t] = ChallengedRow(rows[t], p, now)
          /\ \A u \in Txns : u # t => rows'[u] = rows[u]
      BY <1>0, <1>1, <2>1 DEF Wrote
    <2>3. /\ rows'[t].status = (IF rows[t].status = "absent" THEN "pending" ELSE rows[t].status)
          /\ rows'[t].eu = (IF rows[t].status = "absent" THEN NoOne ELSE rows[t].eu)
          /\ rows'[t].expires = (IF rows[t].status \in {"absent", "pending"} THEN now + PhantomTtl
                                 ELSE rows[t].expires)
      <3>1. PICK r \in Row : r = rows[t]
        BY <1>4
      <3>2. LET q == ChallengedRow(r, p, now)
            IN  /\ q.status = (IF r.status = "absent" THEN "pending" ELSE r.status)
                /\ q.eu = (IF r.status = "absent" THEN NoOne ELSE r.eu)
                /\ q.expires = (IF r.status \in {"absent", "pending"} THEN now + PhantomTtl
                                ELSE r.expires)
        BY <1>0, RowEffects
      <3> QED BY <2>2, <3>1, <3>2
    <2> QED BY <1>3, <2>1, <2>2, <2>3 DEF StepEffect
  <1>10. CASE RunTake(p)
    <2>1. Wrote(t, ChallengeTakenRow(rows[t], now)) /\ mem' = mem
      BY <1>1, <1>10, StatementEffects DEF RunTake, t
    <2>2. /\ now' = now /\ rows'[t] = ChallengeTakenRow(rows[t], now)
          /\ \A u \in Txns : u # t => rows'[u] = rows[u]
      BY <1>0, <1>1, <2>1 DEF Wrote
    <2>3. /\ rows'[t].status = rows[t].status /\ rows'[t].eu = rows[t].eu
          /\ rows'[t].expires = rows[t].expires
      BY <1>0, <1>4, <2>2, RowEffects
    <2> QED BY <1>3, <2>1, <2>2, <2>3 DEF StepEffect
  <1>11. CASE \/ RunMint(p) \/ RunUncache(p) \/ RunForget(p)
              \/ RunTally(p) \/ RunCount(p) \/ RunAnswer(p)
    <2>1. UNCHANGED <<rows, now, mem>>
      BY <1>11 DEF RunMint, RunUncache, RunForget, RunTally, RunCount, RunAnswer, store
    <2> QED BY <1>3, <2>1 DEF StepEffect
  <1> QED BY <1>5, <1>6, <1>7, <1>8, <1>9, <1>10, <1>11 DEF Run

\* Every step keeps the invariant.
LEMMA FlowInvKept ==
    ASSUME TypeInv, FlowInv, [Next]_vars
    PROVE  FlowInv'
  <1>1. TypeInv'
    BY TypesKept
  <1>2. CASE UNCHANGED vars
    BY <1>2 DEF vars, store, FlowInv
  <1> QED BY <1>1, <1>2, HandleInv, WaitInv, ActInv, RunInv, CrashInv, CleanupInv, TickInv DEF Next

\* The inductive invariant of the flow.
LEMMA FlowInvHolds == Spec => []FlowInv
  <1>1. Init => FlowInv
    <2> SUFFICES ASSUME Init, NEW t \in Txns
                 PROVE  Good(rows[t], task[t], mem[t], hist[t])
      BY DEF FlowInv
    <2>1. /\ rows[t].status = "absent" /\ task[t].verdict = "none" /\ mem[t] = "none"
          /\ task[t].pc = "idle" /\ task[t].eu = NoOne
      BY DEF Init, Store!Init, Store!AbsentRow
    <2> QED BY <2>1 DEF Good, Consent, Wakeful, Routed, Reserved
  <1> QED BY <1>1, FlowInvKept, FlowTypes, PTL DEF Spec

\* No request is forwarded unless somebody's approval took effect, in any
\* deployment: not on a timeout, a restart, a lost row or a refused press.  It does
\* not say that nobody denied it: the run DenialStands.
THEOREM NothingForwardedUnasked == Spec => []ForwardNeedsApproval
  <1>1. FlowInv => ForwardNeedsApproval
    BY DEF FlowInv, Good, Consent, ForwardNeedsApproval
  <1> QED BY <1>1, FlowInvHolds, PTL

\* A bot's task that waits has its oneshot registered, in any deployment.
THEOREM WakeupsAreKept == Spec => []NoLostWakeup
  <1>1. FlowInv => NoLostWakeup
    BY DEF FlowInv, Good, Wakeful, NoLostWakeup
  <1> QED BY <1>1, FlowInvHolds, PTL

\* A reserved request is forwarded only on its end-user's approval, for any
\* lifetimes, once its row is reserved and as long as the row is not purged.
THEOREM ReservedForwardsAreEarned == Spec => []ReservedForwardNeedsEndUser
  <1>1. FlowInv => ReservedForwardNeedsEndUser
    BY DEF FlowInv, Good, Reserved, ReservedForwardNeedsEndUser
  <1> QED BY <1>1, FlowInvHolds, PTL

\* What is proved of the table holds in the flow: one claim per row, final
\* decisions, the end-user gate, and the resolver's name.
THEOREM FlowKeepsTheTable ==
    Spec => /\ []Store!AtMostOneClaim
            /\ Store!DecisionIsFinal
            /\ Store!EndUserGate
            /\ Store!ResolverIsKept
  <1>0. {ApprovalTimeout, PendingTtl} \subseteq Nat /\ MaxTime \in Nat
    BY FlowAssumption
  <1>1. Table!Spec => []Table!AtMostOneClaim
    BY Zenon, <1>0, Table!ClaimsAreExclusive, RowAssumption DEF Principals, Table!Principals
  <1>2. Table!Spec => Table!DecisionIsFinal
    BY Zenon, <1>0, Table!FirstDecisionWins, RowAssumption DEF Principals, Table!Principals
  <1>3. Table!Spec => Table!EndUserGate
    BY Zenon, <1>0, Table!ReservedRowsAreGated, RowAssumption DEF Principals, Table!Principals
  <1>4. Table!Spec => Table!ResolverIsKept
    BY Zenon, <1>0, Table!ResolverSurvives, RowAssumption DEF Principals, Table!Principals
  <1>5. Store!Init <=> Table!Init
    BY SameTable
  <1>6. [Store!Next]_(Store!vars) <=> [Table!Next]_(Table!vars)
    BY SameTable DEF StoreMoves
  <1>7. Table!AtMostOneClaim <=> Store!AtMostOneClaim
    BY DEF Table!AtMostOneClaim, Store!AtMostOneClaim
  <1>8. Table!DecisionIsFinal <=> Store!DecisionIsFinal
    <2>1. [\A t \in Txns : rows[t].status \in Table!Decisions
             => rows'[t].status \in {rows[t].status, "absent"}]_(Table!vars)
          <=> [\A t \in Txns : rows[t].status \in Store!Decisions
             => rows'[t].status \in {rows[t].status, "absent"}]_(Store!vars)
      BY DEF Table!Decisions, Store!Decisions, Table!vars, Store!vars
    <2> QED BY <2>1, PTL DEF Table!DecisionIsFinal, Store!DecisionIsFinal
  <1>9. Table!EndUserGate <=> Store!EndUserGate
    <2>1. [\A t \in Txns : rows[t].eu # NoOne =>
             /\ rows'[t].status = "approved" /\ rows[t].status # "approved"
                  => via'[t] = rows[t].eu
             /\ rows'[t].status # "absent" => rows'[t].eu # NoOne]_(Table!vars)
          <=> [\A t \in Txns : rows[t].eu # NoOne =>
             /\ rows'[t].status = "approved" /\ rows[t].status # "approved"
                  => via'[t] = rows[t].eu
             /\ rows'[t].status # "absent" => rows'[t].eu # NoOne]_(Store!vars)
      BY DEF Table!Decisions, Store!Decisions, Table!vars, Store!vars
    <2> QED BY <2>1, PTL DEF Table!EndUserGate, Store!EndUserGate
  <1>10. Table!ResolverIsKept <=> Store!ResolverIsKept
    <2>1. [\A t \in Txns :
             /\ rows[t].status \in Table!Decisions
             /\ rows[t].by # NoOne
             /\ rows'[t].status # "absent"
             => rows'[t].by # NoOne]_(Table!vars)
          <=> [\A t \in Txns :
             /\ rows[t].status \in Store!Decisions
             /\ rows[t].by # NoOne
             /\ rows'[t].status # "absent"
             => rows'[t].by # NoOne]_(Store!vars)
      BY DEF Table!Decisions, Store!Decisions, Table!vars, Store!vars
    <2> QED BY <2>1, PTL DEF Table!ResolverIsKept, Store!ResolverIsKept
  <1> QED BY <1>1, <1>2, <1>3, <1>4, <1>5, <1>6, <1>7, <1>8, <1>9, <1>10, FlowUsesTheStore, PTL
         DEF StoreSpec, Store!Spec, Table!Spec

(***************************************************************************)
(* The row the agent polls.                                                *)
(***************************************************************************)
Late == {"waiting", "expire", "cleanup", "identify", "forward", "record"}

\* From the moment the task waits until it ends, the agent's row is there until
\* the deadline has passed.
Polled(k, a, h, n) ==
    /\ k.pc \in Late => (a.status # "absent" /\ a.expires = k.deadline) \/ k.deadline < n
    /\ h.stored = "missed" => k.deadline < n /\ k.pc = "done"

PollInv == \A t \in Txns : Polled(task[t], async[t], hist[t], now)

\* The task's steps before its outcome leave the agent's row alone.
LEMMA WaitMoves ==
    ASSUME TypeInv, NEW t \in Txns, Wait(t), ~ Forward(t), ~ Record(t)
    PROVE  /\ OthersKept(t) /\ UNCHANGED <<now, async, hist, ops, cache>>
           /\ task[t].pc \in Late /\ task'[t].pc \in Late
           /\ task'[t].deadline = task[t].deadline
  <1>0. task[t].verdict \in Verdicts /\ task[t].pc \in TaskSteps
    BY RowsTyped DEF TaskType
  <1>1. task[t].pc \in Late
    BY DEF Wait, PollDashboard, PollAgentReflected, GiveUp, ExpireRow, ReceiveSignal, PollBot,
           TelegramDeadline, MatrixDeadline, CleanupPendingRequest, Identify, Late
  <1>2. UNCHANGED <<now, async, hist, ops, cache>>
    BY DEF Wait, PollDashboard, PollAgentReflected, GiveUp, ExpireRow, ReceiveSignal, PollBot,
           TelegramDeadline, MatrixDeadline, CleanupPendingRequest, Identify, store,
           Store!DeletePendingApproval, Store!ResolvePendingApproval
  <1>3. CASE PollDashboard(t) \/ PollAgentReflected(t) \/ PollBot(t)
    <2>1. PICK v \in Verdicts, pc \in {"cleanup", "identify", "record"} :
             /\ Conclude(t, v, pc) /\ v # "none"
             /\ pc = "record"   => v \in {"denied", "timeout", "error"}
             /\ pc = "identify" => v \in {"approved", "denied"}
      <3>1. PICK v : v = Seen(rows[t].status)
        OBVIOUS
      <3>2. v \in Verdicts
        BY <3>1, SeenFacts
      <3>3. v # "none" /\ (Conclude(t, v, AfterDecision(v)) \/ Conclude(t, v, "cleanup"))
        BY <1>3, <3>1 DEF PollDashboard, PollAgentReflected, PollBot
      <3>4. \/ AfterDecision(v) = "identify" /\ v \in {"approved", "denied"}
            \/ AfterDecision(v) = "record" /\ v \in {"denied", "timeout", "error"}
        BY <3>2, <3>3 DEF AfterDecision, Verdicts
      <3> QED BY <3>2, <3>3, <3>4
    <2>2. pc \in TaskSteps
      BY DEF TaskSteps
    <2>3. OthersKept(t) /\ task'[t].pc = pc /\ task'[t].deadline = task[t].deadline
      BY <2>1, <2>2, ConcludeKeeps DEF OthersKept
    <2> QED BY <1>1, <1>2, <2>3 DEF Late
  <1>4. CASE GiveUp(t)
    <2>1. Goto(t, "expire") /\ "expire" \in TaskSteps
      BY <1>4 DEF GiveUp, TaskSteps
    <2>2. OthersKept(t) /\ task'[t].pc = "expire" /\ task'[t].deadline = task[t].deadline
      BY <2>1, GotoKeeps DEF OthersKept
    <2> QED BY <1>1, <1>2, <2>2 DEF Late
  <1>5. CASE ExpireRow(t) \/ TelegramDeadline(t) \/ MatrixDeadline(t) \/ ReceiveSignal(t)
    <2>1. PICK v \in Verdicts, pc \in {"record", "cleanup", "identify"} :
             /\ Conclude(t, v, pc) /\ v # "none"
             /\ pc = "record"   => v \in {"denied", "timeout", "error"}
             /\ pc = "identify" => v \in {"approved", "denied"}
      <3>1. "error" \in Verdicts /\ "approved" \in Verdicts /\ "denied" \in Verdicts
        BY DEF Verdicts
      <3>2. CASE ReceiveSignal(t)
        BY <3>1, <3>2 DEF ReceiveSignal
      <3> QED BY <1>5, <3>1, <3>2 DEF ExpireRow, TelegramDeadline, MatrixDeadline
    <2>2. pc \in TaskSteps
      BY DEF TaskSteps
    <2>3. OthersKept(t) /\ task'[t].pc = pc /\ task'[t].deadline = task[t].deadline
      BY <2>1, <2>2, ConcludeKeeps DEF OthersKept
    <2> QED BY <1>1, <1>2, <2>3 DEF Late
  <1>6. CASE CleanupPendingRequest(t)
    <2>1. PICK pc \in {"identify", "record"} :
             /\ Goto(t, pc)
             /\ pc = "record"   => task[t].verdict \in {"denied", "timeout", "error"}
             /\ pc = "identify" => task[t].verdict \in {"approved", "denied"}
      <3>1. task[t].verdict \in {"approved", "denied", "timeout", "error"}
        BY <1>0, <1>6 DEF CleanupPendingRequest, TypeInv, PhaseOK, Verdicts
      <3> QED BY <1>6, <3>1 DEF CleanupPendingRequest, AfterDecision
    <2>2. pc \in TaskSteps
      BY DEF TaskSteps
    <2>3. OthersKept(t) /\ task'[t].pc = pc /\ task'[t].deadline = task[t].deadline
      BY <2>1, <2>2, GotoKeeps DEF OthersKept
    <2> QED BY <1>1, <1>2, <2>3 DEF Late
  <1>7. CASE Identify(t)
    <2>1. /\ OthersKept(t) /\ task'[t].pc \in {"forward", "record"}
          /\ task'[t].deadline = task[t].deadline
      BY <1>7, IdentifyFacts
    <2> QED BY <1>1, <1>2, <2>1 DEF Late
  <1> QED BY <1>3, <1>4, <1>5, <1>6, <1>7 DEF Wait

\* Every step keeps PollInv.
LEMMA PollKept ==
    ASSUME TypeInv, PollInv, [Next]_vars
    PROVE  PollInv'
  <1>0. /\ now \in Nat /\ task \in [Txns -> TaskType] /\ hist \in [Txns -> HistType]
        /\ async \in [Txns -> [status : AsyncStatuses, expires : Nat]]
        /\ \A t \in Txns : task[t].deadline \in Nat
    <2>1. \A k \in TaskType : k.deadline \in Nat
      BY DEF TaskType
    <2> QED BY <2>1, RowsTyped DEF TypeInv, TypeOK
  <1>1. ASSUME NEW t \in Txns, Receive(t)
        PROVE  PollInv'
    <2>1. PICK i \in Instances, c \in Channels, eu \in EndUsers \cup {NoOne}, n \in Thresholds :
             ReceiveForward(t, i, c, eu, n)
      BY <1>1 DEF Receive
    <2>2. OthersKept(t) /\ task'[t].pc = "send"
      BY <2>1, ReceiveFacts
    <2>3. UNCHANGED <<async, hist, now>> /\ task[t].pc = "idle"
      BY <2>1 DEF ReceiveForward, store, Store!SavePendingApproval
    <2> QED BY <2>2, <2>3 DEF PollInv, Polled, OthersKept, Late
  <1>2. ASSUME NEW t \in Txns, Handle(t), ~ Queue(t)
        PROVE  PollInv'
    <2>1. PICK pc \in {"queue", "deliver", "store", "refused"} :
             Goto(t, pc) /\ task[t].pc \in {"send", "deliver", "store"}
      BY <1>2 DEF Handle, SendDashboard, SendAgentReflected, SelfPersistingSend, RegisterPending,
                  DeliverMessage, StoreMessage, SendFails
    <2>2. pc \in TaskSteps
      BY DEF TaskSteps
    <2>3. OthersKept(t) /\ task'[t].pc = pc
      BY <2>1, <2>2, GotoKeeps DEF OthersKept
    <2>4. UNCHANGED <<async, now>>
      BY <1>2 DEF Handle, SendDashboard, SendAgentReflected, SelfPersistingSend, RegisterPending,
                  DeliverMessage, StoreMessage, SendFails, store, Store!SavePendingApproval,
                  Store!SetPendingApprovalMessage
    <2>5. \A u \in Txns : hist'[u].stored = hist[u].stored
      <3>1. CASE SendDashboard(t) \/ SendAgentReflected(t)
        <4>1. PICK e : hist' = [hist EXCEPT ![t].early = e]
          BY <3>1 DEF SendDashboard, SendAgentReflected, SelfPersistingSend
        <4> QED BY <1>0, <4>1 DEF HistType
      <3>2. CASE ~ SendDashboard(t) /\ ~ SendAgentReflected(t)
        BY <1>2, <3>2 DEF Handle, RegisterPending, DeliverMessage, StoreMessage, SendFails
      <3> QED BY <3>1, <3>2
    <2> QED BY <2>1, <2>3, <2>4, <2>5 DEF PollInv, Polled, OthersKept, Late
  <1>3. ASSUME NEW t \in Txns, Queue(t)
        PROVE  PollInv'
    <2>1. OthersKept(t) /\ task'[t].pc = "waiting" /\ task'[t].deadline = now + ApprovalTimeout
      BY <1>3, QueueFacts
    <2>2. UNCHANGED <<hist, now>> /\ task[t].pc = "queue"
      BY <1>3 DEF Queue, store, Store!SavePendingApproval
    <2>3. PICK a : a = [status |-> "pending", expires |-> now + ApprovalTimeout]
      OBVIOUS
    <2>4. async' = [async EXCEPT ![t] = a]
      BY <1>3, <2>3 DEF Queue
    <2>5. async'[t] = a /\ \A u \in Txns : u # t => async'[u] = async[u]
      BY <1>0, <2>4
    <2>6. a.status = "pending" /\ a.expires = now + ApprovalTimeout
      BY <2>3
    <2> QED BY <2>1, <2>2, <2>5, <2>6 DEF PollInv, Polled, OthersKept, Late
  <1>4. ASSUME NEW t \in Txns, Wait(t), ~ Forward(t), ~ Record(t)
        PROVE  PollInv'
    <2>1. /\ OthersKept(t) /\ UNCHANGED <<now, async, hist>>
          /\ task[t].pc \in Late /\ task'[t].pc \in Late
          /\ task'[t].deadline = task[t].deadline
      BY <1>4, WaitMoves
    <2> QED BY <2>1 DEF PollInv, Polled, OthersKept, Late
  <1>5. ASSUME NEW t \in Txns, Forward(t) \/ Record(t)
        PROVE  PollInv'
    <2>1. PICK s \in AsyncStatuses : Finish(t, s) /\ task[t].pc \in Late
      <3>1. CASE Forward(t)
        BY <3>1 DEF Forward, AsyncStatuses, Late
      <3>2. CASE Record(t)
        <4>1. task[t].verdict \in {"denied", "timeout", "error"}
          BY <3>2 DEF Record, TypeInv, PhaseOK
        <4> QED BY <3>2, <4>1 DEF Record, OutcomeStatus, AsyncStatuses, Late
      <3> QED BY <1>5, <3>1, <3>2
    <2>2. /\ OthersKept(t) /\ task'[t].pc = "done" /\ task'[t].deadline = task[t].deadline
          /\ \A u \in Txns : u # t => hist'[u] = hist[u]
          /\ hist'[t].stored = (IF async[t].status = "absent" THEN "missed" ELSE "yes")
      BY <2>1, FinishFacts
    <2>3. now' = now /\ \A u \in Txns : u # t => async'[u] = async[u]
      BY <1>0, <2>1 DEF Finish, store
    <2> QED BY <2>1, <2>2, <2>3 DEF PollInv, Polled, OthersKept, Late
  <1>6. ASSUME NEW i \in Instances, NEW t \in Txns, Act(i, t)
        PROVE  PollInv'
    <2>1. UNCHANGED <<now, task, async, hist>>
      BY <1>6, ActIsOpening DEF Opening, store
    <2> QED BY <2>1 DEF PollInv
  <1>7. ASSUME NEW p \in Principals, Run(p)
        PROVE  PollInv'
    <2>1. task' = task /\ async' = async
      BY <1>7 DEF Run, RunWrite, RunSignal, RunClaim, RunMint, RunUncache, RunChallenge, RunTake,
             RunEndUser, RunForget, RunTally, RunCount, RunAnswer
    <2>2. now' = now
      BY <1>7 DEF Run, RunWrite, RunSignal, RunClaim, RunMint, RunUncache, RunChallenge, RunTake,
             RunEndUser, RunForget, RunTally, RunCount, RunAnswer, store,
             Store!ResolvePendingApproval, Store!ClaimPendingApprovalForGrant,
             Store!SetPendingApprovalChallenge, Store!TakePendingApprovalChallenge,
             Store!ResolvePendingApprovalAsEndUser
    <2>3. \A u \in Txns : hist'[u].stored = hist[u].stored
      BY <1>7, RunHistory
    <2> QED BY <2>1, <2>2, <2>3 DEF PollInv, Polled
  <1>8. ASSUME NEW i \in Instances, Crash(i)
        PROVE  PollInv'
    <2>1. UNCHANGED <<now, async, hist>>
      BY <1>8 DEF Crash, store
    <2>2. \A t \in Txns : \/ task'[t] = task[t]
                          \/ task'[t].pc = "lost" /\ task[t].pc # "done"
      BY <1>0, <1>8 DEF Crash, Live, TaskType
    <2> QED BY <2>1, <2>2 DEF PollInv, Polled, Late
  <1>9. ASSUME CleanupExpiredRows
        PROVE  PollInv'
    <2>1. UNCHANGED <<now, task>>
      BY <1>9 DEF CleanupExpiredRows, Store!CleanupExpiredRows
    <2>2. \A t \in Txns : async'[t] = async[t] \/ async[t].expires < now
      BY <1>9 DEF CleanupExpiredRows
    <2>3. \A t \in Txns : hist'[t].stored = hist[t].stored
      BY <1>9, PurgeHistory DEF TypeInv, TypeOK
    <2> QED BY <2>1, <2>2, <2>3 DEF PollInv, Polled
  <1>10. ASSUME Tick
         PROVE  PollInv'
    <2>1. UNCHANGED <<task, async, hist>> /\ now' = now + 1
      BY <1>10 DEF Tick, Store!Tick
    <2> QED BY <1>0, <2>1 DEF PollInv, Polled
  <1>11. CASE UNCHANGED vars
    BY <1>11 DEF vars, store, PollInv
  <1> QED BY <1>1, <1>2, <1>3, <1>4, <1>5, <1>6, <1>7, <1>8, <1>9, <1>10, <1>11 DEF Next

\* cleanup_expired_rows purges no result the agent could still poll in the
\* approval window, in any deployment.
THEOREM ResultsStayPollable == Spec => []ResultsAreKept
  <1>1. Init => PollInv
    BY DEF Init, PollInv, Polled, Late
  <1>2. TypeInv /\ PollInv => ResultsAreKept
    <2>1. TypeInv => now \in Nat /\ \A t \in Txns : task[t].deadline \in Nat
      BY RowsTyped DEF TaskType
    <2> QED BY <2>1 DEF PollInv, Polled, ResultsAreKept
  <1> QED BY <1>1, <1>2, PollKept, FlowTypes, PTL DEF Spec
(***************************************************************************)
(* The default deployment: requests wait on the agent-reflected channel    *)
(* and people act in the dashboard, with or without a grant.               *)
(***************************************************************************)
DefaultDeployment ==
    /\ Channels \subseteq {"agent_reflected"}
    /\ Surfaces \subseteq {"dashboard", "grant"}
    /\ ApprovalTimeout > 0

Open == {"send", "queue", "waiting"}   \* the row will still be polled

Minting == <<Mint>>   \* the last step of a handler that opens a grant

\* What a dashboard handler has left to do.
DashboardOp(p, op) ==
    \/ /\ op.status \in {"approved", "denied"} /\ ~ op.ok
       /\ \/ op.todo = <<Uncache, Write(op.status, p)>>
          \/ op.todo = <<Write(op.status, p)>>
    \/ /\ op.status = "approved" /\ ~ op.ok
       /\ op.todo = <<Uncache, Claim(p), Mint>> \/ op.todo = <<Claim(p), Mint>>
    \/ op.status = "approved" /\ op.todo = Minting

OpsAreDashboard ==
    \A p \in Principals : ops[p] # Idle =>
        /\ WithWebAuthn /\ task[ops[p].txn].pc # "idle"
        /\ DashboardOp(p, ops[p])

CacheIsOfRequests == \A i \in Instances : \A t \in cache[i] : task[t].pc # "idle"

\* The row while it will still be polled, and while its decision is acted on.
RowLives(r, k, n) ==
    /\ k.pc = "idle" => r.status = "absent"
    /\ k.pc \in {"idle", "send", "queue"} => k.deadline = 0
    /\ k.pc = "send" => r.status # "absent" \/ ~ WithWebAuthn
    /\ k.pc \in {"queue", "waiting", "expire"} => r.status # "absent"
    /\ k.pc \in Open => r.status # "expired"
    /\ k.pc \in {"send", "queue"} /\ r.status # "absent" => n + ApprovalTimeout <= r.expires
    /\ k.pc \in {"waiting", "expire", "identify"} =>
          0 < k.deadline /\ n <= k.deadline /\ k.deadline <= r.expires
    /\ k.pc = "expire" => k.deadline <= n
    /\ k.pc = "identify" => r.status = k.verdict

RowAgrees(r, k, n) ==
    k.verdict # "none" =>
        /\ 0 < k.deadline /\ r.status # "pending"
        /\ n < k.deadline => r.status = k.verdict /\ k.deadline <= r.expires

Told(r, k, h) ==
    /\ h.told \subseteq {"approved", "denied"}
    /\ k.pc = "idle" \/ k.pc = "expire" => h.told = {}
    /\ k.pc \in Open => h.told \subseteq {r.status}
    /\ k.verdict # "none" => h.told \subseteq {k.verdict}

Named(r, k, h) ==
    /\ r.status = "approved" => r.by \in h.asked
    /\ k.pc = "forward" => k.by \in h.asked
    /\ h.audit = "approved" => h.auditBy \in h.asked

\* c: the row was claimed for a grant.
Granted(r, k, c) ==
    c => k.pc # "idle" /\ k.verdict # "denied" /\ (k.pc \in Open => r.status = "approved")

Honoured(r, k, h, n) == RowLives(r, k, n) /\ RowAgrees(r, k, n) /\ Told(r, k, h) /\ Named(r, k, h)

Claimed(t) == hist[t].minted \/ \E p \in Principals : ops[p].txn = t /\ ops[p].todo = Minting

RequestsHonoured ==
    \A t \in Txns : /\ Honoured(rows[t], task[t], hist[t], now)
                    /\ Granted(rows[t], task[t], Claimed(t))

DefaultInv == OpsAreDashboard /\ CacheIsOfRequests /\ RequestsHonoured

\* The fields of the steps of a dashboard handler.
LEMMA StepFields ==
    /\ Uncache.do = "uncache" /\ Uncache.status = "none" /\ Uncache.answers = FALSE
    /\ Mint.do = "mint" /\ Mint.status = "none" /\ Mint.answers = FALSE
    /\ \A by : Claim(by).do = "claim" /\ Claim(by).status = "approved" /\ Claim(by).by = by
    /\ \A s, by : Write(s, by).do = "write" /\ Write(s, by).status = s /\ Write(s, by).by = by
  BY DEF Uncache, Mint, Claim, Write, Step

\* Sequences of up to three elements: their heads.
LEMMA ShortHeads ==
    \A x, y, z : Head(<<x>>) = x /\ Head(<<x, y>>) = x /\ Head(<<x, y, z>>) = x
  OBVIOUS

\* Their lengths.
LEMMA ShortLens ==
    \A x, y, z : Len(<<x>>) = 1 /\ Len(<<x, y>>) = 2 /\ Len(<<x, y, z>>) = 3
  OBVIOUS

\* Their tails.
LEMMA ShortTails ==
    /\ \A x, y : Tail(<<x, y>>) = <<y>>
    /\ \A x, y, z : Tail(<<x, y, z>>) = <<y, z>>
  <1>1. \A x, y : Tail(<<x, y>>) = <<y>>
    OBVIOUS
  <1>2. \A x, y, z : Tail(<<x, y, z>>) = <<y, z>>
    OBVIOUS
  <1> QED BY <1>1, <1>2

\* How the longer ones are put together.
LEMMA ShortConcats ==
    /\ \A x, y : <<x, y>> \o <<>> = <<x, y>>
    /\ \A x, y, z : <<x, y>> \o <<z>> = <<x, y, z>>
  <1>1. ASSUME NEW x, NEW y
        PROVE  <<x, y>> \o <<>> = <<x, y>>
    OBVIOUS
  <1>2. ASSUME NEW x, NEW y, NEW z
        PROVE  <<x, y>> \o <<z>> = <<x, y, z>>
    <2> DEFINE S == {x, y, z}
               l == <<x, y>> \o <<z>>
    <2>1. <<x, y>> \in Seq(S) /\ <<z>> \in Seq(S)
      OBVIOUS
    <2>2. l \in Seq(S) /\ <<x, y, z>> \in Seq(S)
      OBVIOUS
    <2>3. Len(l) = 3 /\ l[1] = x /\ l[2] = y /\ l[3] = z
      BY <2>1
    <2>4. \A k \in 1..3 : l[k] = <<x, y, z>>[k]
      BY <2>3
    <2> QED BY ShortLens, <2>2, <2>3, <2>4, SeqEqual
  <1> QED BY <1>1, <1>2

\* No bot is configured, and nobody acts elsewhere.
LEMMA NoBots ==
    ASSUME DefaultDeployment
    PROVE  /\ Bots = {}
           /\ "bot" \notin Surfaces /\ "passkey" \notin Surfaces /\ "app" \notin Surfaces
  BY DEF DefaultDeployment, Bots

\* Without bots the plans are short.
LEMMA DefaultPlans ==
    ASSUME DefaultDeployment, NEW m \in Members
    PROVE  /\ \A s \in {"approved", "denied"} : DashboardPlan(s, m) = <<Uncache, Write(s, m)>>
           /\ GrantPlan(m) = <<Uncache, Claim(m), Mint>>
  <1>1. \A s, by : Bridge(s, by) = <<>>
    BY NoBots DEF Bridge, Only
  <1>2. Silent(<<>>) = <<>>
    <2>1. <<>> \in Seq(Steps(m)) /\ Len(<<>>) = 0
      OBVIOUS
    <2>2. Silent(<<>>) \in Seq(Steps(m)) /\ Len(Silent(<<>>)) = 0
      BY <2>1, SilentPlans
    <2> QED BY <2>2
  <1>3. \A x, y, z : <<x, y>> \o <<>> = <<x, y>> /\ <<x, y>> \o <<z>> = <<x, y, z>>
    BY ShortConcats
  <1>4. \A s \in {"approved", "denied"} : DashboardPlan(s, m) = <<Uncache, Write(s, m)>>
    BY <1>1, <1>2, <1>3 DEF DashboardPlan, WebAuthnResolve
  <1>5. GrantPlan(m) = <<Uncache, Claim(m), Mint>>
    <2>1. \A x, y : (<<x, y>> \o <<>>) \o <<Mint>> = <<x, y, Mint>>
      BY <1>3
    <2>2. GrantPlan(m) = (<<Uncache, Claim(m)>> \o <<>>) \o <<Mint>>
      BY <1>1, <1>2 DEF GrantPlan
    <2> HIDE DEF Uncache, Claim, Mint
    <2> QED BY <2>1, <2>2
  <1> QED BY <1>4, <1>5

\* What opens a handler in the default deployment.
LEMMA DashboardAct ==
    ASSUME DefaultDeployment, TypeInv, NEW i \in Instances, NEW t \in Txns, Act(i, t)
    PROVE  /\ WithWebAuthn /\ Loadable(i, t)
           /\ cache' = [cache EXCEPT ![i] = @ \cup {t}]
           /\ UNCHANGED <<rows, now, async, task, hist>>
           /\ \E m \in Members : \E op :
                 /\ ops[m] = Idle /\ ops' = [ops EXCEPT ![m] = op]
                 /\ op.txn = t /\ op # Idle /\ op.todo # Minting /\ DashboardOp(m, op)
  <1>1. PICK m \in Members : \/ \E s \in {"approved", "denied"} : DashboardResolve(m, i, t, s)
                             \/ ApproveWithGrant(m, i, t)
    BY NoBots DEF Act, GrantReactionRefused, TelegramCallback, MatrixReaction, TelegramPartial,
           MatrixPartial, TelegramReaches, MatrixReaches, BotGrant, ApprovalBegin, ApprovalFinish,
           ApprovalDeny, AppPasskeyBegin, AppPasskeyFinish, AppApprove, AppDeny, StartInApp
  <1>a. PICK s \in {"approved", "denied"} : \E plan :
           /\ StartOnPage(m, i, t, s, plan)
           /\ \/ plan = <<Uncache, Write(s, m)>>
              \/ s = "approved" /\ plan = <<Uncache, Claim(m), Mint>>
    BY <1>1, DefaultPlans DEF DashboardResolve, ApproveWithGrant
  <1>2. PICK plan :
           /\ StartOnPage(m, i, t, s, plan)
           /\ \/ plan = <<Uncache, Write(s, m)>>
              \/ s = "approved" /\ plan = <<Uncache, Claim(m), Mint>>
    BY <1>a
  <1>3. PICK op : op = [inst |-> i, txn |-> t, status |-> s, ok |-> FALSE, todo |-> plan]
    OBVIOUS
  <1>4. ops[m] = Idle /\ ops' = [ops EXCEPT ![m] = op]
    BY <1>2, <1>3 DEF StartOnPage, Start
  <1>5. op.txn = t /\ op.status = s /\ op.ok = FALSE /\ op.todo = plan
    BY <1>3
  <1>6. op # Idle
    BY <1>5, FlowAssumption DEF Idle
  <1>7. plan # Minting
    <2>1. \A x, y, z : <<x, y>> # <<z>>
      OBVIOUS
    <2>2. \A x, y, z, v : <<x, y, v>> # <<z>>
      OBVIOUS
    <2> QED BY <1>2, <2>1, <2>2 DEF Minting
  <1>8. DashboardOp(m, op)
    BY <1>2, <1>5 DEF DashboardOp
  <1>9. /\ WithWebAuthn /\ Loadable(i, t) /\ cache' = [cache EXCEPT ![i] = @ \cup {t}]
        /\ UNCHANGED <<rows, now, async, task, hist>>
    BY <1>2 DEF StartOnPage, Start, store
  <1> QED BY <1>4, <1>5, <1>6, <1>7, <1>8, <1>9

\* The handler's record after a step.
LEMMA ProceedMoves ==
    ASSUME TypeInv, NEW p \in Principals, NEW hit \in BOOLEAN, ops[p].todo # <<>>, Proceed(p, hit)
    PROVE  /\ \A b \in Principals : b # p => ops'[b] = ops[b]
           /\ Len(ops[p].todo) = 1 => ops'[p] = Idle
           /\ Len(ops[p].todo) # 1 =>
                /\ ops'[p].txn = ops[p].txn /\ ops'[p].status = ops[p].status
                /\ ops'[p].todo = Tail(ops[p].todo)
                /\ ops'[p].ok = (ops[p].ok \/ (hit /\ Head(ops[p].todo).answers))
  <1> DEFINE ok == ops[p].ok \/ (hit /\ Head(ops[p].todo).answers)
  <1>1. PICK q : q = IF Len(ops[p].todo) = 1 THEN Idle
                     ELSE [ops[p] EXCEPT !.todo = Tail(@), !.ok = ok]
    OBVIOUS
  <1>2. ops' = [ops EXCEPT ![p] = q]
    BY <1>1 DEF Proceed
  <1>3. ops[p] \in OpType(p)
    BY RunFacts
  <1> HIDE DEF ok
  <1>4. Len(ops[p].todo) # 1 =>
           /\ q.txn = ops[p].txn /\ q.status = ops[p].status
           /\ q.todo = Tail(ops[p].todo) /\ q.ok = ok
    BY <1>1, <1>3 DEF OpType
  <1>5. ops = [b \in Principals |-> ops[b]]
    BY DEF TypeInv, OpsOK
  <1>6. ops'[p] = q /\ \A b \in Principals : b # p => ops'[b] = ops[b]
    BY <1>2, <1>5
  <1> QED BY <1>1, <1>4, <1>6 DEF ok

\* One dashboard handler moves: the others, and the claims, stay.
LEMMA DashboardOpsMove ==
    ASSUME TypeInv, OpsAreDashboard, NEW p \in Principals, ops[p] # Idle,
           \A b \in Principals : b # p => ops'[b] = ops[b], task' = task,
           ops'[p] = Idle \/ (ops'[p].txn = ops[p].txn /\ DashboardOp(p, ops'[p]))
    PROVE  /\ OpsAreDashboard'
           /\ \A u \in Txns : \A b \in Principals :
                 ops'[b].txn = u /\ ops'[b].todo = Minting =>
                    \/ ops[b].txn = u /\ ops[b].todo = Minting
                    \/ u = ops[p].txn /\ ops'[p].todo = Minting
  <1>3. OpsAreDashboard'
    BY DEF OpsAreDashboard, DashboardOp
  <1>4. Idle.txn = NoOne /\ NoOne \notin Txns
    BY FlowAssumption DEF Idle
  <1> QED BY <1>3, <1>4

\* A decision that hits the row.
LEMMA WriteIsHonoured ==
    ASSUME NEW r \in Row, NEW k \in TaskType, NEW h \in HistType, NEW n \in Nat,
           NEW r2 \in Row, NEW h2 \in HistType, NEW c \in BOOLEAN, NEW s \in {"approved", "denied"},
           Honoured(r, k, h, n), Granted(r, k, c), k.pc # "idle", WithWebAuthn,
           k.pc \in Undecided => k.verdict = "none",
           r.status \in {"absent", "pending", s}, r2.status = s,
           r.status # "absent" => r2.expires = r.expires,
           s = "approved" => r2.by \in h2.asked,
           h.asked \subseteq h2.asked, h2.audit = h.audit, h2.auditBy = h.auditBy,
           \/ h2.told = h.told
           \/ h2.told \subseteq h.told \cup {s} /\ (k.deadline = 0 \/ n < k.deadline)
    PROVE  Honoured(r2, k, h2, n) /\ Granted(r2, k, c)
  <1>0. /\ r.expires \in Nat /\ r2.expires \in Nat /\ k.deadline \in Nat /\ ApprovalTimeout \in Nat
        /\ k.verdict \in Verdicts /\ k.pc \in TaskSteps
    BY FlowAssumption DEF Row, TaskType
  <1>1. /\ RowLives(r, k, n) /\ RowAgrees(r, k, n) /\ Told(r, k, h) /\ Named(r, k, h)
    BY DEF Honoured
  <1>2. RowLives(r2, k, n)
    <2>1. k.pc = "identify" => k.verdict = s
      BY <1>0, <1>1 DEF RowLives, Verdicts
    <2> QED BY <1>0, <1>1, <2>1 DEF RowLives, Open
  <1>3. RowAgrees(r2, k, n)
    BY <1>0, <1>1 DEF RowAgrees, Verdicts
  <1>4. Told(r2, k, h2)
    <2>1. h2.told \subseteq h.told \cup {s}
      OBVIOUS
    <2>2. k.pc = "expire" => h2.told = {}
      BY <1>0, <1>1 DEF Told, RowLives
    <2>3. k.pc \in Open => h2.told \subseteq {s}
      BY <1>1, <2>1 DEF Told, RowLives, Open
    <2>4. k.verdict # "none" => h2.told \subseteq {k.verdict}
      BY <1>0, <1>1, <2>1 DEF Told, RowAgrees, Verdicts
    <2> QED BY <1>1, <2>1, <2>2, <2>3, <2>4 DEF Told
  <1>5. Named(r2, k, h2)
    BY <1>1 DEF Named
  <1>6. Granted(r2, k, c)
    BY <1>1 DEF Granted, RowLives, Open
  <1> QED BY <1>2, <1>3, <1>4, <1>5, <1>6 DEF Honoured

\* A grant's handler answers after its claim.
LEMMA MintIsHonoured ==
    ASSUME NEW r \in Row, NEW k \in TaskType, NEW h \in HistType, NEW n \in Nat, NEW h2 \in HistType,
           Honoured(r, k, h, n), Granted(r, k, TRUE),
           h.asked \subseteq h2.asked, h2.audit = h.audit, h2.auditBy = h.auditBy,
           \/ h2.told = h.told
           \/ h2.told \subseteq h.told \cup {"approved"} /\ (k.deadline = 0 \/ n < k.deadline)
    PROVE  Honoured(r, k, h2, n)
  <1>0. /\ k.deadline \in Nat /\ k.verdict \in Verdicts /\ r.status \in Statuses
    BY DEF Row, TaskType
  <1>1. /\ RowLives(r, k, n) /\ RowAgrees(r, k, n) /\ Told(r, k, h) /\ Named(r, k, h)
    BY DEF Honoured
  <1>2. Told(r, k, h2)
    <2>1. h2.told \subseteq h.told \cup {"approved"}
      OBVIOUS
    <2>2. k.pc = "expire" => h2.told = {}
      BY <1>0, <1>1 DEF Told, RowLives
    <2>3. k.pc # "idle" /\ (k.pc \in Open => h2.told \subseteq {r.status})
      BY <1>1, <2>1 DEF Told, Granted
    <2>4. k.verdict # "none" => h2.told \subseteq {k.verdict}
      BY <1>0, <1>1, <2>1 DEF Told, RowAgrees, Granted, Verdicts, Statuses, Decisions
    <2> QED BY <1>1, <2>1, <2>2, <2>3, <2>4 DEF Told
  <1>3. Named(r, k, h2)
    BY <1>1 DEF Named
  <1> QED BY <1>1, <1>2, <1>3 DEF Honoured

\* What is left to show after a step of a dashboard handler.
LEMMA DefaultAfterRun ==
    ASSUME TypeInv, DefaultInv, NEW p \in Principals, ops[p] # Idle,
           NEW t \in Txns, t = ops[p].txn,
           task' = task, now' = now, CacheIsOfRequests',
           \A b \in Principals : b # p => ops'[b] = ops[b],
           ops'[p] = Idle \/ (ops'[p].txn = t /\ DashboardOp(p, ops'[p])),
           \A u \in Txns : u # t => rows'[u] = rows[u] /\ hist'[u] = hist[u],
           Honoured(rows'[t], task[t], hist'[t], now),
           \/ Granted(rows'[t], task[t], TRUE)
           \/ /\ Granted(rows'[t], task[t], Claimed(t))
              /\ hist'[t].minted => hist[t].minted
              /\ ops'[p].todo # Minting
    PROVE  DefaultInv'
  <1>1. OpsAreDashboard
    BY DEF DefaultInv
  <1>2. OpsAreDashboard'
    BY <1>1, DashboardOpsMove
  <1>3. \A u \in Txns : \A b \in Principals :
            ops'[b].txn = u /\ ops'[b].todo = Minting =>
               \/ ops[b].txn = u /\ ops[b].todo = Minting
               \/ u = t /\ ops'[p].todo = Minting
    BY <1>1, DashboardOpsMove
  <1>4. \A u \in Txns : u # t /\ Claimed(u)' => Claimed(u)
    BY <1>3 DEF Claimed
  <1>5. Granted(rows'[t], task[t], Claimed(t)')
    <2>1. CASE Granted(rows'[t], task[t], TRUE)
      BY <2>1 DEF Granted
    <2>2. CASE /\ Granted(rows'[t], task[t], Claimed(t))
               /\ hist'[t].minted => hist[t].minted
               /\ ops'[p].todo # Minting
      <3>1. Claimed(t)' => Claimed(t)
        BY <1>3, <2>2 DEF Claimed
      <3> QED BY <2>2, <3>1 DEF Granted
    <2> QED BY <2>1, <2>2
  <1>6. ASSUME NEW u \in Txns
        PROVE  Honoured(rows'[u], task[u], hist'[u], now) /\ Granted(rows'[u], task[u], Claimed(u)')
    <2>1. CASE u = t
      BY <1>5, <2>1
    <2>2. CASE u # t
      <3>1. rows'[u] = rows[u] /\ hist'[u] = hist[u]
        BY <2>2
      <3> QED BY <1>4, <2>2, <3>1 DEF DefaultInv, RequestsHonoured, Granted
    <2> QED BY <2>1, <2>2
  <1>7. RequestsHonoured'
    BY <1>6 DEF RequestsHonoured
  <1> QED BY <1>2, <1>7 DEF DefaultInv

\* The steps a dashboard handler takes, and what it has left afterwards.
LEMMA DashboardSteps ==
    ASSUME TypeInv, OpsAreDashboard, NEW p \in Principals, Run(p)
    PROVE  /\ ops[p].todo # <<>> /\ ops[p] # Idle /\ ops[p].txn \in Txns
           /\ \/ /\ RunUncache(p) /\ Head(ops[p].todo).do = "uncache"
                 /\ Head(ops[p].todo).status = "none" /\ Len(ops[p].todo) # 1
                 /\ ~ ops[p].ok /\ Head(ops[p].todo).answers = FALSE
                 /\ \/ /\ Tail(ops[p].todo) = <<Write(ops[p].status, p)>>
                       /\ ops[p].status \in {"approved", "denied"}
                    \/ /\ Tail(ops[p].todo) = <<Claim(p), Mint>>
                       /\ ops[p].status = "approved"
              \/ /\ RunWrite(p) /\ Head(ops[p].todo).do = "write" /\ Head(ops[p].todo).by = p
                 /\ Head(ops[p].todo).status = ops[p].status /\ Len(ops[p].todo) = 1
                 /\ ops[p].status \in {"approved", "denied"} /\ ~ ops[p].ok
              \/ /\ RunClaim(p) /\ Head(ops[p].todo).do = "claim" /\ Head(ops[p].todo).by = p
                 /\ Head(ops[p].todo).status = "approved" /\ ops[p].status = "approved"
                 /\ Len(ops[p].todo) = 2 /\ Tail(ops[p].todo) = Minting
                 /\ \A j \in 2..2 : ops[p].todo[j].do # "forget"
              \/ /\ RunMint(p) /\ Head(ops[p].todo).do = "mint" /\ ops[p].todo = Minting
                 /\ Head(ops[p].todo).status = "none" /\ Len(ops[p].todo) = 1
                 /\ ops[p].status = "approved"
  <1> DEFINE op == ops[p]
             w == Head(op.todo)
  <1>1. op.todo # <<>> /\ op.txn \in Txns
    BY RunIsProceed, RunFacts
  <1>2. op # Idle
    BY <1>1 DEF Idle
  <1>3. DashboardOp(p, op)
    BY <1>2 DEF OpsAreDashboard
  <1>4. /\ w.do = "uncache" => RunUncache(p)
        /\ w.do = "write" => RunWrite(p)
        /\ w.do = "claim" => RunClaim(p)
        /\ w.do = "mint" => RunMint(p)
    BY DEF Run, RunWrite, RunSignal, RunClaim, RunMint, RunUncache, RunChallenge, RunTake,
           RunEndUser, RunForget, RunTally, RunCount, RunAnswer, Running
  <1>5. CASE op.status \in {"approved", "denied"} /\ ~ op.ok /\ op.todo = <<Uncache, Write(op.status, p)>>
    <2>1. w = Uncache /\ Len(op.todo) = 2 /\ Tail(op.todo) = <<Write(op.status, p)>>
      BY <1>5, ShortHeads, ShortLens, ShortTails
    <2> QED BY <1>1, <1>2, <1>4, <1>5, <2>1, StepFields
  <1>6. CASE op.status \in {"approved", "denied"} /\ ~ op.ok /\ op.todo = <<Write(op.status, p)>>
    <2>1. w = Write(op.status, p) /\ Len(op.todo) = 1
      BY <1>6, ShortHeads, ShortLens
    <2> QED BY <1>1, <1>2, <1>4, <1>6, <2>1, StepFields
  <1>7. CASE op.status = "approved" /\ ~ op.ok /\ op.todo = <<Uncache, Claim(p), Mint>>
    <2>1. w = Uncache /\ Len(op.todo) = 3 /\ Tail(op.todo) = <<Claim(p), Mint>>
      BY <1>7, ShortHeads, ShortLens, ShortTails
    <2> QED BY <1>1, <1>2, <1>4, <1>7, <2>1, StepFields
  <1>8. CASE op.status = "approved" /\ op.todo = <<Claim(p), Mint>>
    <2>1. w = Claim(p) /\ Len(op.todo) = 2 /\ Tail(op.todo) = Minting
      BY <1>8, ShortHeads, ShortLens, ShortTails DEF Minting
    <2>2. \A j \in 2..2 : op.todo[j] = Mint
      BY <1>8
    <2>3. \A j \in 2..2 : op.todo[j].do # "forget"
      BY <2>2, StepFields
    <2> QED BY <1>1, <1>2, <1>4, <1>8, <2>1, <2>3, StepFields
  <1>9. CASE op.status = "approved" /\ op.todo = Minting
    <2>1. w = Mint /\ Len(op.todo) = 1
      BY <1>9, ShortHeads, ShortLens DEF Minting
    <2> QED BY <1>1, <1>2, <1>4, <1>9, <2>1, StepFields
  <1> QED BY <1>3, <1>5, <1>6, <1>7, <1>8, <1>9 DEF DashboardOp

\* Handlers only take requests out of the instances' caches.
LEMMA RunKeepsCaches ==
    ASSUME TypeInv, CacheIsOfRequests, NEW p \in Principals, Run(p)
    PROVE  task' = task /\ CacheIsOfRequests'
  <1>1. ops[p] \in OpType(p) /\ cache \in [Instances -> SUBSET Txns]
    BY RunIsProceed, RunFacts DEF TypeInv, TypeOK
  <1>2. PICK t : t = ops[p].txn
    OBVIOUS
  <1>3. cache' = cache \/ cache' = [cache EXCEPT ![ops[p].inst] = @ \ {t}]
    BY <1>2 DEF Run, RunWrite, RunSignal, RunClaim, RunMint, RunUncache, RunChallenge, RunTake,
                RunEndUser, RunForget, RunTally, RunCount, RunAnswer
  <1>4. \A i \in Instances : cache'[i] \subseteq cache[i]
    BY <1>1, <1>3 DEF OpType
  <1>5. task' = task
    BY DEF Run, RunWrite, RunSignal, RunClaim, RunMint, RunUncache, RunChallenge, RunTake,
           RunEndUser, RunForget, RunTally, RunCount, RunAnswer
  <1> QED BY <1>4, <1>5 DEF CacheIsOfRequests

\* What the invariants say of the request a handler works on.
LEMMA HandlerRequest ==
    ASSUME TypeInv, FlowInv, DefaultInv, NEW p \in Principals, ops[p] # Idle,
           NEW t \in Txns, t = ops[p].txn, TypeInv'
    PROVE  /\ rows[t] \in Row /\ rows'[t] \in Row /\ hist[t] \in HistType /\ hist'[t] \in HistType
           /\ task[t] \in TaskType /\ now \in Nat /\ Claimed(t) \in BOOLEAN
           /\ rows \in [Txns -> Row]
           /\ WithWebAuthn /\ task[t].pc # "idle"
           /\ Honoured(rows[t], task[t], hist[t], now) /\ Granted(rows[t], task[t], Claimed(t))
           /\ task[t].pc \in Undecided => task[t].verdict = "none"
  <1>1. (TypeInv => rows \in [Txns -> Row] /\ hist \in [Txns -> HistType])'
    BY RowsTyped, PTL
  <1>2. /\ rows \in [Txns -> Row] /\ now \in Nat /\ task \in [Txns -> TaskType]
        /\ hist \in [Txns -> HistType]
    BY RowsTyped
  <1>3. hist[t].minted \in BOOLEAN
    BY <1>2 DEF HistType
  <1>4. Claimed(t) \in BOOLEAN
    BY <1>3 DEF Claimed
  <1>5. WithWebAuthn /\ task[t].pc # "idle"
    BY DEF DefaultInv, OpsAreDashboard
  <1>6. /\ Honoured(rows[t], task[t], hist[t], now) /\ Granted(rows[t], task[t], Claimed(t))
        /\ task[t].pc \in Undecided => task[t].verdict = "none"
    BY DEF DefaultInv, RequestsHonoured, FlowInv, Good, Routed
  <1> QED BY <1>1, <1>2, <1>4, <1>5, <1>6

\* The request is taken out of the instance's cache.
LEMMA UncacheDefault ==
    ASSUME TypeInv, FlowInv, DefaultInv, NEW p \in Principals, Run(p), TypeInv',
           RunUncache(p), Head(ops[p].todo).do = "uncache", Head(ops[p].todo).status = "none",
           Len(ops[p].todo) # 1, ~ ops[p].ok, Head(ops[p].todo).answers = FALSE,
           \/ /\ Tail(ops[p].todo) = <<Write(ops[p].status, p)>>
              /\ ops[p].status \in {"approved", "denied"}
           \/ Tail(ops[p].todo) = <<Claim(p), Mint>> /\ ops[p].status = "approved"
    PROVE  DefaultInv'
  <1>1. ops[p].todo # <<>> /\ ops[p] # Idle /\ ops[p].txn \in Txns
    BY DashboardSteps DEF DefaultInv
  <1>2. PICK t \in Txns : t = ops[p].txn
    BY <1>1
  <1>3. Proceed(p, FALSE) /\ rows' = rows /\ now' = now
    BY DEF RunUncache, store
  <1>4. /\ Honoured(rows[t], task[t], hist[t], now) /\ Granted(rows[t], task[t], Claimed(t))
    BY <1>1, <1>2, HandlerRequest
  <1>5. /\ \A b \in Principals : b # p => ops'[b] = ops[b]
        /\ ops'[p].txn = t /\ ops'[p].status = ops[p].status /\ ops'[p].todo = Tail(ops[p].todo)
        /\ ops'[p].ok = (ops[p].ok \/ (FALSE /\ Head(ops[p].todo).answers))
    BY <1>1, <1>2, <1>3, ProceedMoves
  <1>6. ops'[p].todo # Minting
    <2>1. Write(ops[p].status, p) # Mint
      BY StepFields
    <2>2. <<Write(ops[p].status, p)>> # Minting /\ <<Claim(p), Mint>> # Minting
      BY <2>1, ShortHeads, ShortLens DEF Minting
    <2> QED BY <1>5, <2>2
  <1>7. DashboardOp(p, ops'[p])
    BY <1>5 DEF DashboardOp
  <1>8. /\ \A u \in Txns : u # t => hist'[u] = hist[u]
        /\ hist'[t].asked = hist[t].asked \cup (IF FALSE /\ Head(ops[p].todo).status = "approved" THEN {p} ELSE {})
        /\ hist'[t].minted = (hist[t].minted \/ (Head(ops[p].todo).do = "mint" /\ FALSE))
        /\ hist'[t].audit = hist[t].audit /\ hist'[t].auditBy = hist[t].auditBy
        /\ hist'[t].told = hist[t].told
    BY <1>1, <1>2, <1>3, ProceedKeeps
  <1>9. hist'[t].asked = hist[t].asked /\ (hist'[t].minted => hist[t].minted)
    BY <1>8
  <1>10. Honoured(rows'[t], task[t], hist'[t], now)
    BY <1>3, <1>4, <1>8, <1>9 DEF Honoured, Told, Named
  <1>11. task' = task /\ CacheIsOfRequests'
    BY RunKeepsCaches DEF DefaultInv
  <1> QED BY <1>1, <1>2, <1>3, <1>4, <1>5, <1>6, <1>7, <1>8, <1>9, <1>10, <1>11, DefaultAfterRun

\* The decision is written; the person is told what the row says.
LEMMA WriteDefault ==
    ASSUME TypeInv, FlowInv, DefaultInv, NEW p \in Principals, Run(p), TypeInv',
           RunWrite(p), Head(ops[p].todo).do = "write", Head(ops[p].todo).by = p,
           Head(ops[p].todo).status = ops[p].status, Len(ops[p].todo) = 1,
           ops[p].status \in {"approved", "denied"}, ~ ops[p].ok
    PROVE  DefaultInv'
  <1>1. ops[p].todo # <<>> /\ ops[p] # Idle /\ ops[p].txn \in Txns
    BY DashboardSteps DEF DefaultInv
  <1>2. PICK t \in Txns, s \in {"approved", "denied"} : t = ops[p].txn /\ s = ops[p].status
    BY <1>1
  <1>3. PICK hit \in BOOLEAN : hit = ResolveHits(rows[t], s) /\ Proceed(p, hit)
    BY <1>2 DEF RunWrite, ResolveHits
  <1>4. Wrote(t, ResolvedRow(rows[t], s, p, now))
    BY <1>1, <1>2, StatementEffects DEF RunWrite
  <1>5. PICK r \in Row, k \in TaskType, h \in HistType, n \in Nat, r2 \in Row, h2 \in HistType :
           r = rows[t] /\ r2 = rows'[t] /\ k = task[t] /\ h = hist[t] /\ h2 = hist'[t] /\ n = now
    BY <1>1, <1>2, HandlerRequest
  <1>6. /\ Claimed(t) \in BOOLEAN /\ WithWebAuthn /\ k.pc # "idle"
        /\ Honoured(r, k, h, n) /\ Granted(r, k, Claimed(t))
        /\ k.pc \in Undecided => k.verdict = "none"
    BY <1>1, <1>2, <1>5, HandlerRequest
  <1>7. /\ now' = now /\ r2 = ResolvedRow(r, s, p, n)
        /\ \A u \in Txns : u # t => rows'[u] = rows[u]
    BY <1>1, <1>2, <1>4, <1>5, HandlerRequest DEF Wrote
  <1>8. ops'[p] = Idle /\ \A b \in Principals : b # p => ops'[b] = ops[b]
    BY <1>1, <1>3, ProceedMoves
  <1>9. Idle.todo # Minting
    BY DEF Idle, Minting
  <1>10. /\ \A u \in Txns : u # t => hist'[u] = hist[u]
         /\ h2.asked = h.asked \cup (IF hit /\ s = "approved" THEN {p} ELSE {})
         /\ h2.minted = (h.minted \/ (Head(ops[p].todo).do = "mint" /\ hit))
         /\ h2.audit = h.audit /\ h2.auditBy = h.auditBy
         /\ h2.told \subseteq h.told \cup {s}
         /\ h2.told = h.told \/ ((ops[p].ok \/ (hit /\ Head(ops[p].todo).answers)) /\ InTime(t))
    BY <1>1, <1>2, <1>3, <1>5, ProceedKeeps
  <1>11. h.asked \subseteq h2.asked /\ (h2.minted => h.minted)
    BY <1>10
  <1>12. \/ h2.told = h.told
         \/ hit /\ h2.told \subseteq h.told \cup {s} /\ (k.deadline = 0 \/ n < k.deadline)
    BY <1>5, <1>10 DEF InTime
  <1>13. Honoured(r2, k, h2, n) /\ Granted(r2, k, Claimed(t))
    <2>1. CASE ~ hit
      <3>1. r2 = r
        BY <1>3, <1>5, <1>7, <2>1, RowEffects
      <3>2. h2.told = h.told
        BY <1>12, <2>1
      <3> QED BY <1>6, <1>10, <1>11, <3>1, <3>2 DEF Honoured, Told, Named
    <2>2. CASE hit
      <3>1. ResolveHits(r, s)
        BY <1>3, <1>5, <2>2
      <3>2. /\ r2.status = s /\ (r.status # "absent" => r2.expires = r.expires)
            /\ r2.by = (IF r.status = "absent" THEN p ELSE Coalesce(p, r.by))
        BY <1>7, <3>1, RowEffects
      <3>3. r2.by = p
        BY <3>2, RowAssumption DEF Coalesce
      <3>4. s = "approved" => r2.by \in h2.asked
        BY <1>10, <2>2, <3>3
      <3>5. r.status \in {"absent", "pending", s}
        BY <3>1 DEF ResolveHits
      <3> QED BY <1>6, <1>10, <1>11, <1>12, <3>2, <3>4, <3>5, WriteIsHonoured
    <2> QED BY <2>1, <2>2
  <1>14. task' = task /\ CacheIsOfRequests'
    BY RunKeepsCaches DEF DefaultInv
  <1>15. /\ Honoured(rows'[t], task[t], hist'[t], now) /\ Granted(rows'[t], task[t], Claimed(t))
         /\ \A u \in Txns : u # t => rows'[u] = rows[u] /\ hist'[u] = hist[u]
         /\ hist'[t].minted => hist[t].minted
    BY <1>5, <1>7, <1>10, <1>11, <1>13
  <1>16. now' = now
    BY <1>7
  <1> QED BY <1>1, <1>2, <1>8, <1>9, <1>14, <1>15, <1>16, DefaultAfterRun

\* The row is claimed for a grant, or the handler stops.
LEMMA ClaimDefault ==
    ASSUME TypeInv, FlowInv, DefaultInv, NEW p \in Principals, Run(p), TypeInv',
           RunClaim(p), Head(ops[p].todo).do = "claim", Head(ops[p].todo).by = p,
           Head(ops[p].todo).status = "approved", ops[p].status = "approved",
           Len(ops[p].todo) = 2, Tail(ops[p].todo) = Minting,
           \A j \in 2..2 : ops[p].todo[j].do # "forget"
    PROVE  DefaultInv'
  <1>1. ops[p].todo # <<>> /\ ops[p] # Idle /\ ops[p].txn \in Txns
    BY DashboardSteps DEF DefaultInv
  <1>2. PICK t \in Txns : t = ops[p].txn
    BY <1>1
  <1>4. Wrote(t, ClaimedRow(rows[t], p))
    BY <1>1, <1>2, StatementEffects DEF RunClaim
  <1>5. PICK r \in Row, k \in TaskType, h \in HistType, n \in Nat, r2 \in Row, h2 \in HistType :
           r = rows[t] /\ r2 = rows'[t] /\ k = task[t] /\ h = hist[t] /\ h2 = hist'[t] /\ n = now
    BY <1>1, <1>2, HandlerRequest
  <1>6. /\ WithWebAuthn /\ k.pc # "idle"
        /\ Honoured(r, k, h, n) /\ Granted(r, k, Claimed(t))
        /\ k.pc \in Undecided => k.verdict = "none"
    BY <1>1, <1>2, <1>5, HandlerRequest
  <1>7. /\ now' = now /\ r2 = ClaimedRow(r, p)
        /\ \A u \in Txns : u # t => rows'[u] = rows[u]
    BY <1>1, <1>2, <1>4, <1>5, HandlerRequest DEF Wrote
  <1>8. task' = task /\ CacheIsOfRequests'
    BY RunKeepsCaches DEF DefaultInv
  <1>9. CASE ~ ClaimHits(r)
    <2>1. Abort(p)
      BY <1>2, <1>5, <1>9 DEF RunClaim
    <2>2. r2 = r
      BY <1>7, <1>9, RowEffects
    <2>3. hist' = hist
      BY <2>1 DEF Abort
    <2>4. ~ \E j \in 2..Len(ops[p].todo) : ops[p].todo[j].do = "forget"
      OBVIOUS
    <2>5. ops' = [ops EXCEPT ![p] = Idle]
      BY <2>1, <2>4 DEF Abort
    <2>6. ops'[p] = Idle /\ \A b \in Principals : b # p => ops'[b] = ops[b]
      BY <2>5 DEF TypeInv, OpsOK
    <2>7. Idle.todo # Minting
      BY DEF Idle, Minting
    <2> QED BY <1>1, <1>2, <1>5, <1>6, <1>7, <1>8, <2>2, <2>3, <2>6, <2>7, DefaultAfterRun
  <1>10. CASE ClaimHits(r)
    <2>1. PICK hit \in BOOLEAN : hit = TRUE /\ Proceed(p, hit)
      BY <1>2, <1>5, <1>10 DEF RunClaim
    <2>2. /\ \A b \in Principals : b # p => ops'[b] = ops[b]
          /\ ops'[p].txn = ops[p].txn /\ ops'[p].status = ops[p].status
          /\ ops'[p].todo = Tail(ops[p].todo)
      <3>1. Len(ops[p].todo) # 1
        OBVIOUS
      <3> QED BY <1>1, <2>1, <3>1, ProceedMoves
    <2>3. DashboardOp(p, ops'[p]) /\ ops'[p].txn = t
      BY <1>2, <2>2 DEF DashboardOp
    <2>4. /\ \A u \in Txns : u # t => hist'[u] = hist[u]
          /\ h2.asked = h.asked \cup {p}
          /\ h2.audit = h.audit /\ h2.auditBy = h.auditBy /\ h2.told = h.told
      <3>1. /\ \A u \in Txns : u # ops[p].txn => hist'[u] = hist[u]
            /\ hist'[ops[p].txn].asked = hist[ops[p].txn].asked
                   \cup (IF hit /\ Head(ops[p].todo).status = "approved" THEN {p} ELSE {})
            /\ hist'[ops[p].txn].audit = hist[ops[p].txn].audit
            /\ hist'[ops[p].txn].auditBy = hist[ops[p].txn].auditBy
            /\ Len(ops[p].todo) # 1 => hist'[ops[p].txn].told = hist[ops[p].txn].told
        BY <1>1, <2>1, ProceedKeeps, Zenon
      <3>2. Len(ops[p].todo) # 1
        OBVIOUS
      <3> QED BY <1>2, <1>5, <2>1, <3>1, <3>2
    <2>5. /\ r2.status = "approved" /\ r2.expires = r.expires
          /\ r2.by = Coalesce(p, r.by) /\ r.status = "pending"
      BY <1>7, <1>10, RowEffects DEF ClaimHits
    <2>6. r2.by \in h2.asked /\ h.asked \subseteq h2.asked
      BY <2>4, <2>5, RowAssumption DEF Coalesce
    <2>7. Granted(r, k, FALSE)
      BY DEF Granted
    <2>8. Honoured(r2, k, h2, n)
      BY <1>6, <2>4, <2>5, <2>6, <2>7, WriteIsHonoured
    <2>9. Granted(r2, k, TRUE)
      <3>1. k.verdict = "none"
        BY <1>6, <2>5 DEF Honoured, RowAgrees
      <3> QED BY <1>6, <2>5, <3>1 DEF Granted
    <2>10. /\ Honoured(rows'[t], task[t], hist'[t], now) /\ Granted(rows'[t], task[t], TRUE)
           /\ \A u \in Txns : u # t => rows'[u] = rows[u] /\ hist'[u] = hist[u]
      BY <1>5, <1>7, <2>4, <2>8, <2>9
    <2> QED BY <1>1, <1>2, <1>7, <1>8, <2>2, <2>3, <2>10, DefaultAfterRun
  <1> QED BY <1>9, <1>10

\* The grant is opened, and the person told.
LEMMA MintDefault ==
    ASSUME TypeInv, FlowInv, DefaultInv, NEW p \in Principals, Run(p), TypeInv',
           RunMint(p), Head(ops[p].todo).do = "mint", ops[p].todo = Minting,
           Head(ops[p].todo).status = "none", Len(ops[p].todo) = 1, ops[p].status = "approved"
    PROVE  DefaultInv'
  <1>1. ops[p].todo # <<>> /\ ops[p] # Idle /\ ops[p].txn \in Txns
    BY DashboardSteps DEF DefaultInv
  <1>2. PICK t \in Txns : t = ops[p].txn
    BY <1>1
  <1>3. PICK made \in BOOLEAN : Proceed(p, made)
    BY DEF RunMint
  <1>4. rows' = rows /\ now' = now
    BY DEF RunMint, store
  <1>5. PICK r \in Row, k \in TaskType, h \in HistType, n \in Nat, h2 \in HistType :
           r = rows[t] /\ k = task[t] /\ h = hist[t] /\ h2 = hist'[t] /\ n = now
    BY <1>1, <1>2, HandlerRequest
  <1>6. Honoured(r, k, h, n) /\ Granted(r, k, Claimed(t))
    BY <1>1, <1>2, <1>5, HandlerRequest
  <1>7. Granted(r, k, TRUE)
    <2>1. Claimed(t)
      BY <1>2 DEF Claimed
    <2> QED BY <1>6, <2>1 DEF Granted
  <1>8. ops'[p] = Idle /\ \A b \in Principals : b # p => ops'[b] = ops[b]
    BY <1>1, <1>3, ProceedMoves
  <1>9. /\ \A u \in Txns : u # t => hist'[u] = hist[u]
        /\ h2.asked = h.asked \cup (IF made /\ Head(ops[p].todo).status = "approved" THEN {p} ELSE {})
        /\ h2.audit = h.audit /\ h2.auditBy = h.auditBy
        /\ h2.told \subseteq h.told \cup {ops[p].status}
        /\ h2.told = h.told \/ ((ops[p].ok \/ (made /\ Head(ops[p].todo).answers)) /\ InTime(t))
    BY <1>1, <1>2, <1>3, <1>5, ProceedKeeps
  <1>10. /\ h.asked \subseteq h2.asked
         /\ \/ h2.told = h.told
            \/ h2.told \subseteq h.told \cup {"approved"} /\ (k.deadline = 0 \/ n < k.deadline)
    BY <1>5, <1>9 DEF InTime
  <1>11. Honoured(r, k, h2, n)
    BY <1>6, <1>7, <1>9, <1>10, MintIsHonoured
  <1>12. task' = task /\ CacheIsOfRequests'
    BY RunKeepsCaches DEF DefaultInv
  <1> QED BY <1>1, <1>2, <1>4, <1>5, <1>7, <1>8, <1>9, <1>11, <1>12, DefaultAfterRun

\* The steps of the handlers keep the invariant.
LEMMA RunDefault ==
    ASSUME TypeInv, FlowInv, DefaultInv, NEW p \in Principals, Run(p), TypeInv'
    PROVE  DefaultInv'
  BY DashboardSteps, UncacheDefault, WriteDefault, ClaimDefault, MintDefault DEF DefaultInv

\* Steps of the request handler and of the task leave the handlers alone.
LEMMA DefaultFrame ==
    ASSUME TypeInv, DefaultInv, NEW t \in Txns, now' = now, ops' = ops, OthersKept(t),
           \A u \in Txns : u # t => rows'[u] = rows[u] /\ hist'[u] = hist[u],
           task'[t].pc # "idle", hist'[t].minted = hist[t].minted,
           \A i \in Instances : cache'[i] \subseteq cache[i] \cup {t},
           Honoured(rows'[t], task'[t], hist'[t], now), Granted(rows'[t], task'[t], Claimed(t))
    PROVE  DefaultInv'
  <1>1. \A u \in Txns : task[u].pc # "idle" => task'[u].pc # "idle"
    BY DEF OthersKept
  <1>2. OpsAreDashboard'
    <2>1. \A p \in Principals : ops[p] # Idle => ops[p].txn \in Txns
      BY DEF TypeInv, TypeOK
    <2> QED BY <1>1, <2>1 DEF DefaultInv, OpsAreDashboard, DashboardOp
  <1>3. CacheIsOfRequests'
    <2>1. cache \in [Instances -> SUBSET Txns]
      BY DEF TypeInv, TypeOK
    <2> QED BY <1>1, <2>1 DEF DefaultInv, CacheIsOfRequests
  <1>4. \A u \in Txns : Claimed(u)' => Claimed(u)
    BY DEF Claimed
  <1>5. \A u \in Txns : Granted(rows'[u], task'[u], Claimed(u))
    BY DEF DefaultInv, RequestsHonoured, OthersKept
  <1>6. \A u \in Txns : Granted(rows'[u], task'[u], Claimed(u)')
    BY <1>4, <1>5 DEF Granted
  <1>7. \A u \in Txns : Honoured(rows'[u], task'[u], hist'[u], now)
    BY DEF DefaultInv, RequestsHonoured, OthersKept
  <1>8. RequestsHonoured'
    BY <1>6, <1>7 DEF RequestsHonoured
  <1> QED BY <1>2, <1>3, <1>8 DEF DefaultInv

\* What the invariants say of a request.
LEMMA RequestFacts ==
    ASSUME TypeInv, FlowInv, DefaultInv, DefaultDeployment, NEW t \in Txns
    PROVE  /\ rows \in [Txns -> Row] /\ rows[t] \in Row /\ task[t] \in TaskType /\ hist[t] \in HistType
           /\ now \in Nat /\ cache \in [Instances -> SUBSET Txns]
           /\ Honoured(rows[t], task[t], hist[t], now) /\ Granted(rows[t], task[t], Claimed(t))
           /\ task[t].channel \in {"agent_reflected", "none"} /\ mem[t] = "none"
           /\ task[t].pc \notin {"deliver", "store", "cleanup"}
           /\ task[t].pc \in Undecided => task[t].verdict = "none"
           /\ ApprovalTimeout \in Nat /\ PendingTtl \in Nat
           /\ 0 < ApprovalTimeout /\ ApprovalTimeout < PendingTtl
  <1>1. /\ rows \in [Txns -> Row] /\ task \in [Txns -> TaskType] /\ hist \in [Txns -> HistType]
        /\ now \in Nat /\ cache \in [Instances -> SUBSET Txns]
    BY RowsTyped DEF TypeInv, TypeOK
  <1>2. Honoured(rows[t], task[t], hist[t], now) /\ Granted(rows[t], task[t], Claimed(t))
    BY DEF DefaultInv, RequestsHonoured
  <1>3. /\ mem[t] # "none" => task[t].channel \in Bots
        /\ task[t].pc \in {"deliver", "store", "cleanup"} => task[t].channel \in Bots
        /\ task[t].pc \in Undecided => task[t].verdict = "none"
    BY DEF FlowInv, Good, Routed
  <1>4. task[t].channel \in {"agent_reflected", "none"}
    BY <1>1 DEF TaskType, DefaultDeployment
  <1>5. /\ ApprovalTimeout \in Nat /\ PendingTtl \in Nat
        /\ 0 < ApprovalTimeout /\ ApprovalTimeout < PendingTtl
    BY FlowAssumption DEF DefaultDeployment
  <1> QED BY <1>1, <1>2, <1>3, <1>4, <1>5, NoBots

\* A request arrives.
LEMMA ReceiveDefault ==
    ASSUME TypeInv, FlowInv, DefaultInv, DefaultDeployment, NEW t \in Txns, Receive(t)
    PROVE  DefaultInv'
  <1>1. PICK i \in Instances, c \in Channels, eu \in EndUsers \cup {NoOne}, m \in Thresholds :
           ReceiveForward(t, i, c, eu, m)
    BY DEF Receive
  <1>2. /\ OthersKept(t) /\ task'[t].pc = "send" /\ task'[t].verdict = task[t].verdict
        /\ task'[t].deadline = task[t].deadline
    BY <1>1, ReceiveFacts
  <1>3. PICK r \in Row, k \in TaskType, h \in HistType, n \in Nat :
           r = rows[t] /\ k = task[t] /\ h = hist[t] /\ n = now
    BY RequestFacts
  <1>4. k.pc = "idle" /\ hist' = hist /\ ops' = ops
    BY <1>1, <1>3 DEF ReceiveForward
  <1>5. Honoured(r, k, h, n) /\ Granted(r, k, Claimed(t)) /\ k.verdict = "none"
    BY <1>3, <1>4, RequestFacts DEF Undecided
  <1>6. \A j \in Instances : cache'[j] \subseteq cache[j] \cup {t}
    BY <1>1, RequestFacts DEF ReceiveForward
  <1>7. r.status = "absent" /\ k.deadline = 0 /\ h.told = {} /\ ~ Claimed(t)
    BY <1>4, <1>5 DEF Honoured, RowLives, Told, Granted
  <1>8. /\ now' = now /\ \A u \in Txns : u # t => rows'[u] = rows[u]
        /\ \/ rows'[t] = r /\ ~ WithWebAuthn
           \/ rows'[t].status = "pending" /\ rows'[t].expires = n + PendingTtl
    <2>1. CASE UNCHANGED store /\ ~ WithWebAuthn
      BY <1>3, <2>1 DEF store
    <2>2. CASE Store!SavePendingApproval(t, NoOne, PendingTtl)
      <3>1. Wrote(t, SavedRow(r, NoOne, n + PendingTtl))
        BY <1>3, <2>2, StatementEffects
      <3>2. now' = now /\ rows' = [rows EXCEPT ![t] = SavedRow(r, NoOne, n + PendingTtl)]
        BY <3>1 DEF Wrote
      <3>3. rows'[t] = SavedRow(r, NoOne, n + PendingTtl) /\ \A u \in Txns : u # t => rows'[u] = rows[u]
        BY <3>2, RequestFacts
      <3>4. rows'[t].status = "pending" /\ rows'[t].expires = n + PendingTtl
        BY <1>7, <3>3, RowEffects
      <3> QED BY <3>2, <3>3, <3>4
    <2> QED BY <1>1, <2>1, <2>2 DEF ReceiveForward
  <1>9. PICK r2, k2 : r2 = rows'[t] /\ k2 = task'[t]
    OBVIOUS
  <1>10. RowLives(r2, k2, n)
    <2>1. /\ ApprovalTimeout \in Nat /\ PendingTtl \in Nat /\ ApprovalTimeout < PendingTtl
      BY RequestFacts
    <2> QED BY <1>2, <1>3, <1>7, <1>8, <1>9, <2>1 DEF RowLives, Open
  <1>11. RowAgrees(r2, k2, n) /\ Told(r2, k2, h) /\ Named(r2, k2, h) /\ Granted(r2, k2, Claimed(t))
    BY <1>2, <1>3, <1>5, <1>7, <1>8, <1>9 DEF RowAgrees, Told, Named, Granted, Honoured
  <1>12. /\ Honoured(rows'[t], task'[t], hist'[t], now) /\ Granted(rows'[t], task'[t], Claimed(t))
         /\ \A u \in Txns : u # t => rows'[u] = rows[u] /\ hist'[u] = hist[u]
         /\ task'[t].pc # "idle" /\ hist'[t].minted = hist[t].minted
    BY <1>2, <1>3, <1>4, <1>8, <1>9, <1>10, <1>11 DEF Honoured
  <1> QED BY <1>2, <1>4, <1>6, <1>8, <1>12, DefaultFrame

\* The request handler keeps the invariant.
LEMMA HandleDefault ==
    ASSUME TypeInv, FlowInv, DefaultInv, DefaultDeployment, NEW t \in Txns, Handle(t)
    PROVE  DefaultInv'
  <1>1. PICK r \in Row, k \in TaskType, h \in HistType, n \in Nat :
           r = rows[t] /\ k = task[t] /\ h = hist[t] /\ n = now
    BY RequestFacts
  <1>2. /\ Honoured(r, k, h, n) /\ Granted(r, k, Claimed(t))
        /\ k.pc \in Undecided => k.verdict = "none"
        /\ k.pc \notin {"deliver", "store"} /\ k.channel \notin Bots
        /\ ApprovalTimeout \in Nat /\ PendingTtl \in Nat
        /\ 0 < ApprovalTimeout /\ ApprovalTimeout < PendingTtl
    BY <1>1, RequestFacts, NoBots
  <1>3. RowLives(r, k, n) /\ RowAgrees(r, k, n) /\ Told(r, k, h) /\ Named(r, k, h)
    BY <1>2 DEF Honoured
  <1>4. PICK r2, k2, h2 : r2 = rows'[t] /\ k2 = task'[t] /\ h2 = hist'[t]
    OBVIOUS
  <1>5. cache' = cache /\ ops' = ops
    BY DEF Handle, SendDashboard, SendAgentReflected, SelfPersistingSend, RegisterPending,
           DeliverMessage, StoreMessage, SendFails, Queue
  <1>6. SUFFICES /\ now' = now /\ OthersKept(t)
                 /\ \A u \in Txns : u # t => rows'[u] = rows[u] /\ hist'[u] = hist[u]
                 /\ k2.pc # "idle" /\ h2.minted = h.minted
                 /\ RowLives(r2, k2, n) /\ RowAgrees(r2, k2, n) /\ Told(r2, k2, h2) /\ Named(r2, k2, h2)
                 /\ Granted(r2, k2, Claimed(t))
    <2>1. \A i \in Instances : cache'[i] \subseteq cache[i] \cup {t}
      BY <1>5
    <2> QED BY <1>1, <1>4, <1>5, <2>1, DefaultFrame DEF Honoured
  <1>7. CASE SendDashboard(t) \/ SendAgentReflected(t)
    <2>1. PICK ch : SelfPersistingSend(t, ch)
      BY <1>7 DEF SendDashboard, SendAgentReflected
    <2>2. Goto(t, "queue") /\ k.pc = "send"
      BY <1>1, <2>1 DEF SelfPersistingSend
    <2>3. /\ OthersKept(t) /\ k2.pc = "queue" /\ k2.verdict = k.verdict /\ k2.deadline = k.deadline
      BY <1>1, <1>4, <2>2, GotoKeeps DEF OthersKept, TaskSteps
    <2>4. PICK e \in BOOLEAN : hist' = [hist EXCEPT ![t].early = e]
      BY <2>1 DEF SelfPersistingSend
    <2>5. hist \in [Txns -> HistType]
      BY RowsTyped
    <2>6. /\ h2.asked = h.asked /\ h2.told = h.told /\ h2.minted = h.minted
          /\ h2.audit = h.audit /\ h2.auditBy = h.auditBy
          /\ \A u \in Txns : u # t => hist'[u] = hist[u]
      BY <1>1, <1>4, <2>4, <2>5 DEF HistType
    <2>7. Wrote(t, SavedRow(r, k.eu, n + PendingTtl))
      BY <1>1, <2>1, StatementEffects DEF SelfPersistingSend
    <2>8. /\ now' = now /\ \A u \in Txns : u # t => rows'[u] = rows[u]
          /\ r2 = SavedRow(r, k.eu, n + PendingTtl)
      BY <1>4, <2>7, RequestFacts DEF Wrote
    <2>9. /\ r2.status = (IF r.status = "absent" THEN "pending" ELSE r.status)
          /\ r2.expires = n + PendingTtl
          /\ r2.by = (IF r.status \in {"absent", "pending"} THEN NoOne ELSE r.by)
      BY <2>8, RowEffects
    <2>10. k.verdict = "none" /\ k.deadline = 0
      BY <1>2, <1>3, <2>2 DEF Undecided, RowLives
    <2>11. r2.status = r.status \/ (r.status = "absent" /\ r2.status = "pending" /\ h.told = {})
      BY <1>3, <2>2, <2>9 DEF Told, Open
    <2>12. RowLives(r2, k2, n)
      <3>1. r.status \in Statuses /\ r.status # "expired"
        BY <1>3, <2>2 DEF Row, RowLives, Open
      <3> QED BY <1>2, <2>3, <2>9, <2>10, <3>1 DEF RowLives, Open
    <2>13. RowAgrees(r2, k2, n) /\ Told(r2, k2, h2)
      BY <1>3, <2>2, <2>3, <2>6, <2>10, <2>11 DEF RowAgrees, Told, Open
    <2>14. Named(r2, k2, h2) /\ Granted(r2, k2, Claimed(t))
      BY <1>2, <1>3, <2>2, <2>3, <2>6, <2>9, <2>10 DEF Named, Granted, Open
    <2> QED BY <2>3, <2>6, <2>8, <2>12, <2>13, <2>14
  <1>8. CASE SendFails(t)
    <2>1. k.pc = "send" /\ Goto(t, "refused")
      BY <1>1, <1>2, <1>8 DEF SendFails
    <2>2. /\ OthersKept(t) /\ k2.pc = "refused" /\ k2.verdict = k.verdict
      BY <1>1, <1>4, <2>1, GotoKeeps DEF OthersKept, TaskSteps
    <2>3. rows' = rows /\ hist' = hist /\ now' = now
      BY <1>8 DEF SendFails, store
    <2>4. k.verdict = "none" /\ r2 = r /\ h2 = h
      BY <1>1, <1>2, <1>4, <2>1, <2>3 DEF Undecided
    <2> QED BY <1>2, <1>3, <2>2, <2>3, <2>4 DEF RowLives, RowAgrees, Told, Named, Granted, Open
  <1>9. CASE Queue(t)
    <2>1. k.pc = "queue" /\ hist' = hist /\ UNCHANGED store
      BY <1>1, <1>2, <1>9 DEF Queue
    <2>2. /\ OthersKept(t) /\ k2.pc = "waiting" /\ k2.verdict = k.verdict
          /\ k2.deadline = n + ApprovalTimeout
      BY <1>1, <1>4, <1>9, QueueFacts
    <2>3. k.verdict = "none" /\ r2 = r /\ h2 = h /\ rows' = rows /\ now' = now
      BY <1>1, <1>2, <1>4, <2>1 DEF Undecided, store
    <2>4. RowLives(r2, k2, n)
      <3>1. r.expires \in Nat
        BY DEF Row
      <3> QED BY <1>2, <1>3, <2>1, <2>2, <2>3, <3>1 DEF RowLives, Open
    <2>5. RowAgrees(r2, k2, n) /\ Told(r2, k2, h2) /\ Named(r2, k2, h2) /\ Granted(r2, k2, Claimed(t))
      BY <1>2, <1>3, <2>1, <2>2, <2>3 DEF RowAgrees, Told, Named, Granted, Open
    <2> QED BY <2>1, <2>2, <2>3, <2>4, <2>5
  <1> QED BY <1>1, <1>2, <1>7, <1>8, <1>9 DEF Handle, RegisterPending, DeliverMessage, StoreMessage

\* The task acts on what the row says and nothing else.
LEMMA WaitDefault ==
    ASSUME TypeInv, FlowInv, DefaultInv, DefaultDeployment, NEW t \in Txns, Wait(t)
    PROVE  DefaultInv'
  <1>1. PICK r \in Row, k \in TaskType, h \in HistType, n \in Nat :
           r = rows[t] /\ k = task[t] /\ h = hist[t] /\ n = now
    BY RequestFacts
  <1>2. /\ Honoured(r, k, h, n) /\ Granted(r, k, Claimed(t))
        /\ k.pc # "cleanup" /\ k.channel \in {"agent_reflected", "none"} /\ mem[t] = "none"
    BY <1>1, RequestFacts
  <1>3. RowLives(r, k, n) /\ RowAgrees(r, k, n) /\ Told(r, k, h) /\ Named(r, k, h)
    BY <1>2 DEF Honoured
  <1>4. PICK r2, k2, h2 : r2 = rows'[t] /\ k2 = task'[t] /\ h2 = hist'[t]
    OBVIOUS
  <1>5. cache' = cache /\ ops' = ops
    BY DEF Wait, PollDashboard, PollAgentReflected, GiveUp, ExpireRow, ReceiveSignal, PollBot,
           TelegramDeadline, MatrixDeadline, CleanupPendingRequest, Identify, Forward, Record, Finish
  <1>6. SUFFICES /\ now' = now /\ OthersKept(t)
                 /\ \A u \in Txns : u # t => rows'[u] = rows[u] /\ hist'[u] = hist[u]
                 /\ k2.pc # "idle" /\ h2.minted = h.minted
                 /\ RowLives(r2, k2, n) /\ RowAgrees(r2, k2, n) /\ Told(r2, k2, h2) /\ Named(r2, k2, h2)
                 /\ Granted(r2, k2, Claimed(t))
    <2>1. \A i \in Instances : cache'[i] \subseteq cache[i] \cup {t}
      BY <1>5
    <2> QED BY <1>1, <1>4, <1>5, <2>1, DefaultFrame DEF Honoured
  <1>7. r.status \in {"absent", "pending", "approved", "denied", "expired"}
        /\ r.expires \in Nat /\ k.deadline \in Nat
    BY DEF Row, Statuses, Decisions, TaskType
  <1>8. \/ PollAgentReflected(t) \/ GiveUp(t) \/ ExpireRow(t)
        \/ Identify(t) \/ Forward(t) \/ Record(t)
    BY <1>1, <1>2, NoBots DEF Wait, PollDashboard, ReceiveSignal, PollBot, TelegramDeadline,
                              MatrixDeadline, CleanupPendingRequest
  <1>9. CASE PollAgentReflected(t)
    <2>1. PICK v : v = Seen(rows[t].status)
      OBVIOUS
    <2>2. k.pc = "waiting" /\ v # "none" /\ Conclude(t, v, AfterDecision(v))
      BY <1>1, <1>9, <2>1 DEF PollAgentReflected
    <2>3. r.status \in {"approved", "denied"} /\ v = r.status
      BY <1>1, <1>3, <1>7, <2>1, <2>2, SeenFacts DEF RowLives, Open
    <2>4. v \in Verdicts /\ AfterDecision(v) = "identify" /\ "identify" \in TaskSteps
      BY <2>3 DEF Verdicts, AfterDecision, TaskSteps
    <2>5. OthersKept(t) /\ k2.pc = "identify" /\ k2.verdict = v /\ k2.deadline = k.deadline
      BY <1>1, <1>4, <2>2, <2>3, <2>4, ConcludeKeeps DEF OthersKept
    <2>6. rows' = rows /\ hist' = hist /\ now' = now
      BY <1>9 DEF PollAgentReflected, store
    <2>7. r2 = r /\ h2 = h
      BY <1>1, <1>4, <2>6
    <2>8. RowLives(r2, k2, n) /\ RowAgrees(r2, k2, n)
      BY <1>3, <1>7, <2>2, <2>3, <2>5, <2>7 DEF RowLives, RowAgrees, Open
    <2>9. Told(r2, k2, h2) /\ Named(r2, k2, h2) /\ Granted(r2, k2, Claimed(t))
      BY <1>2, <1>3, <2>2, <2>3, <2>5, <2>7 DEF Told, Named, Granted, Open
    <2> QED BY <2>5, <2>6, <2>7, <2>8, <2>9
  <1>10. CASE GiveUp(t)
    <2>1. k.pc = "waiting" /\ r.status = "pending" /\ Goto(t, "expire") /\ n >= k.deadline
      BY <1>1, <1>10 DEF GiveUp, Overdue
    <2>2. OthersKept(t) /\ k2.pc = "expire" /\ k2.verdict = k.verdict /\ k2.deadline = k.deadline
      BY <1>1, <1>4, <2>1, GotoKeeps DEF OthersKept, TaskSteps
    <2>3. rows' = rows /\ hist' = hist /\ now' = now
      BY <1>10 DEF GiveUp, store
    <2>4. r2 = r /\ h2 = h
      BY <1>1, <1>4, <2>3
    <2>5. k.verdict = "none"
      BY <1>3, <2>1 DEF RowAgrees
    <2>6. RowLives(r2, k2, n) /\ RowAgrees(r2, k2, n)
      BY <1>3, <1>7, <2>1, <2>2, <2>4, <2>5 DEF RowLives, RowAgrees, Open
    <2>7. Told(r2, k2, h2) /\ Named(r2, k2, h2) /\ Granted(r2, k2, Claimed(t))
      BY <1>2, <1>3, <2>1, <2>2, <2>4, <2>5 DEF Told, Named, Granted, Open
    <2> QED BY <2>2, <2>3, <2>4, <2>6, <2>7
  <1>11. CASE ExpireRow(t)
    <2>1. k.pc = "expire" /\ Conclude(t, "error", "record") /\ hist' = hist
      BY <1>1, <1>11 DEF ExpireRow
    <2>2. "error" \in Verdicts /\ "record" \in TaskSteps
      BY DEF Verdicts, TaskSteps
    <2>3. OthersKept(t) /\ k2.pc = "record" /\ k2.verdict = "error" /\ k2.deadline = k.deadline
      BY <1>1, <1>4, <2>1, <2>2, ConcludeKeeps DEF OthersKept
    <2>4. Wrote(t, ResolvedRow(r, "expired", NoOne, n))
      BY <1>1, <1>11, StatementEffects DEF ExpireRow
    <2>5. /\ now' = now /\ \A u \in Txns : u # t => rows'[u] = rows[u]
          /\ r2 = ResolvedRow(r, "expired", NoOne, n)
      BY <1>4, <2>4, RequestFacts DEF Wrote
    <2>6. /\ ~ ResolveHits(r, "expired") => r2 = r
          /\ ResolveHits(r, "expired") => r2.status = "expired"
      BY <2>5, RowEffects
    <2>7. r2.status # "pending" /\ (r2.status = "approved" => r2 = r)
      BY <2>6 DEF ResolveHits
    <2>8. h2 = h
      BY <1>1, <1>4, <2>1
    <2>9. RowLives(r2, k2, n) /\ RowAgrees(r2, k2, n)
      BY <1>3, <1>7, <2>1, <2>3, <2>7 DEF RowLives, RowAgrees, Open
    <2>10. Told(r2, k2, h2) /\ Named(r2, k2, h2) /\ Granted(r2, k2, Claimed(t))
      BY <1>2, <1>3, <2>1, <2>3, <2>7, <2>8 DEF Told, Named, Granted, Open
    <2> QED BY <2>1, <2>3, <2>5, <2>8, <2>9, <2>10
  <1>12. CASE Identify(t)
    <2>1. k.pc = "identify" /\ rows' = rows /\ hist' = hist /\ now' = now
      BY <1>1, <1>12 DEF Identify, store
    <2>2. /\ OthersKept(t) /\ k2.pc = (IF k.verdict = "approved" THEN "forward" ELSE "record")
          /\ k2.by = r.by /\ k2.deadline = k.deadline /\ k2.verdict = k.verdict
      BY <1>1, <1>4, <1>12, IdentifyFacts
    <2>3. r2 = r /\ h2 = h
      BY <1>1, <1>4, <2>1
    <2>4. RowLives(r2, k2, n) /\ RowAgrees(r2, k2, n)
      BY <1>3, <2>2, <2>3 DEF RowLives, RowAgrees, Open
    <2>5. Told(r2, k2, h2) /\ Granted(r2, k2, Claimed(t))
      BY <1>2, <1>3, <2>2, <2>3 DEF Told, Granted, Open
    <2>6. Named(r2, k2, h2)
      BY <1>3, <2>1, <2>2, <2>3 DEF Named, RowLives
    <2> QED BY <2>1, <2>2, <2>3, <2>4, <2>5, <2>6
  <1>13. CASE Forward(t) \/ Record(t)
    <2>1. PICK s \in AsyncStatuses : Finish(t, s)
      <3>1. k.pc = "record" => k.verdict \in {"denied", "timeout", "error"}
        BY <1>1 DEF TypeInv, PhaseOK
      <3> QED BY <1>1, <1>13, <3>1 DEF Forward, Record, OutcomeStatus, AsyncStatuses
    <2>2. rows' = rows /\ now' = now
      BY <2>1 DEF Finish, store
    <2>3. /\ OthersKept(t) /\ k2.pc = "done" /\ k2.verdict = k.verdict /\ k2.deadline = k.deadline
          /\ \A u \in Txns : u # t => hist'[u] = hist[u]
          /\ h2.audit = k.verdict /\ h2.auditBy = k.by
          /\ h2.asked = h.asked /\ h2.told = h.told /\ h2.minted = h.minted
      BY <1>1, <1>4, <2>1, FinishFacts
    <2>4. k.pc = "forward" \/ (k.pc = "record" /\ k.verdict # "approved")
      BY <1>1, <1>13 DEF Forward, Record, TypeInv, PhaseOK
    <2>5. r2 = r
      BY <1>1, <1>4, <2>2
    <2>6. RowLives(r2, k2, n) /\ RowAgrees(r2, k2, n)
      BY <1>3, <2>3, <2>5 DEF RowLives, RowAgrees, Open
    <2>7. Told(r2, k2, h2) /\ Granted(r2, k2, Claimed(t))
      BY <1>2, <1>3, <2>3, <2>5 DEF Told, Granted, Open
    <2>8. Named(r2, k2, h2)
      BY <1>3, <2>3, <2>4, <2>5 DEF Named
    <2> QED BY <2>2, <2>3, <2>6, <2>7, <2>8
  <1> QED BY <1>8, <1>9, <1>10, <1>11, <1>12, <1>13

\* Only a request that was received can be opened on a page.
LEMMA ActDefault ==
    ASSUME TypeInv, FlowInv, DefaultInv, DefaultDeployment,
           NEW i \in Instances, NEW t \in Txns, Act(i, t)
    PROVE  DefaultInv'
  <1>1. /\ WithWebAuthn /\ Loadable(i, t) /\ cache' = [cache EXCEPT ![i] = @ \cup {t}]
        /\ UNCHANGED <<rows, now, async, task, hist>>
    BY DashboardAct
  <1>a. PICK m \in Members : \E op :
           /\ ops[m] = Idle /\ ops' = [ops EXCEPT ![m] = op]
           /\ op.txn = t /\ op # Idle /\ op.todo # Minting /\ DashboardOp(m, op)
    BY DashboardAct
  <1>2. PICK op :
           /\ ops[m] = Idle /\ ops' = [ops EXCEPT ![m] = op]
           /\ op.txn = t /\ op # Idle /\ op.todo # Minting /\ DashboardOp(m, op)
    BY <1>a
  <1>3. task[t].pc # "idle"
    <2>1. task[t].pc = "idle" => rows[t].status = "absent"
      BY RequestFacts DEF Honoured, RowLives
    <2> QED BY <1>1, <2>1 DEF Loadable, Actionable, DefaultInv, CacheIsOfRequests
  <1>4. m \in Principals /\ ops'[m] = op /\ \A p \in Principals : p # m => ops'[p] = ops[p]
    BY <1>2 DEF TypeInv, OpsOK, Principals
  <1>5. OpsAreDashboard'
    BY <1>1, <1>2, <1>3, <1>4 DEF DefaultInv, OpsAreDashboard, DashboardOp
  <1>6. CacheIsOfRequests'
    BY <1>1, <1>3, RequestFacts DEF DefaultInv, CacheIsOfRequests
  <1>7. \A u \in Txns : Claimed(u)' => Claimed(u)
    BY <1>1, <1>2, <1>4 DEF Claimed
  <1>8. RequestsHonoured'
    BY <1>1, <1>7 DEF DefaultInv, RequestsHonoured, Granted
  <1> QED BY <1>5, <1>6, <1>8 DEF DefaultInv

\* A restart keeps the invariant.
LEMMA CrashDefault ==
    ASSUME TypeInv, FlowInv, DefaultInv, DefaultDeployment, NEW i \in Instances, Crash(i)
    PROVE  DefaultInv'
  <1>1. UNCHANGED <<rows, now, hist>>
    BY DEF Crash, store
  <1>2. task \in [Txns -> TaskType] /\ cache \in [Instances -> SUBSET Txns]
    BY DEF TypeInv, TypeOK
  <1>3. \A t \in Txns :
           /\ \/ task'[t].pc = task[t].pc
              \/ task[t].pc # "idle" /\ task'[t].pc = "lost"
           /\ task'[t].verdict = task[t].verdict /\ task'[t].deadline = task[t].deadline
           /\ task'[t].by = task[t].by
    BY <1>2 DEF Crash, Live, TaskType
  <1>4. \A p \in Principals : ops'[p] = Idle \/ ops'[p] = ops[p]
    BY DEF Crash
  <1>5. OpsAreDashboard'
    <2>1. \A p \in Principals : ops[p] # Idle => ops[p].txn \in Txns
      BY DEF TypeInv, TypeOK
    <2> QED BY <1>3, <1>4, <2>1 DEF DefaultInv, OpsAreDashboard, DashboardOp
  <1>6. CacheIsOfRequests'
    <2>1. \A j \in Instances : cache'[j] \subseteq cache[j]
      BY <1>2 DEF Crash
    <2> QED BY <1>2, <1>3, <2>1 DEF DefaultInv, CacheIsOfRequests
  <1>7. \A t \in Txns : Claimed(t)' => Claimed(t)
    <2>1. Idle.todo # Minting
      BY DEF Idle, Minting
    <2> QED BY <1>1, <1>4, <2>1 DEF Claimed
  <1>8. ASSUME NEW t \in Txns
        PROVE  /\ Honoured(rows[t], task'[t], hist[t], now)
               /\ Granted(rows[t], task'[t], Claimed(t))
    <2>1. PICK r, k, h, n, k2 : r = rows[t] /\ k = task[t] /\ h = hist[t] /\ n = now /\ k2 = task'[t]
      OBVIOUS
    <2>2. Honoured(r, k, h, n) /\ Granted(r, k, Claimed(t))
      BY <2>1 DEF DefaultInv, RequestsHonoured
    <2>3. /\ k2.pc = k.pc \/ (k.pc # "idle" /\ k2.pc = "lost")
          /\ k2.verdict = k.verdict /\ k2.deadline = k.deadline /\ k2.by = k.by
      BY <1>3, <2>1
    <2>4. RowLives(r, k2, n) /\ RowAgrees(r, k2, n)
      BY <2>2, <2>3 DEF Honoured, RowLives, RowAgrees, Open
    <2>5. Told(r, k2, h) /\ Named(r, k2, h) /\ Granted(r, k2, Claimed(t))
      BY <2>2, <2>3 DEF Honoured, Told, Named, Granted, Open
    <2> QED BY <2>1, <2>4, <2>5 DEF Honoured
  <1>9. RequestsHonoured'
    BY <1>1, <1>7, <1>8 DEF RequestsHonoured, Granted
  <1> QED BY <1>5, <1>6, <1>9 DEF DefaultInv

\* No row is purged that will still be read.
LEMMA CleanupDefault ==
    ASSUME TypeInv, FlowInv, DefaultInv, DefaultDeployment, CleanupExpiredRows
    PROVE  DefaultInv'
  <1>1. UNCHANGED <<now, task, ops, cache>>
    BY DEF CleanupExpiredRows, Store!CleanupExpiredRows
  <1>0. \A t \in Txns :
           /\ hist'[t].asked = hist[t].asked /\ hist'[t].told = hist[t].told
           /\ hist'[t].minted = hist[t].minted
           /\ hist'[t].audit = hist[t].audit /\ hist'[t].auditBy = hist[t].auditBy
    BY PurgeHistory DEF TypeInv, TypeOK
  <1>2. \A t \in Txns : \/ rows'[t] = rows[t]
                        \/ /\ rows'[t].status = "absent" /\ rows[t].expires < now
                           /\ rows[t].status # "absent"
    BY DEF CleanupExpiredRows, Store!CleanupExpiredRows, Store!Purgeable, Store!AbsentRow,
           Store!Decisions
  <1>3. ASSUME NEW t \in Txns
        PROVE  /\ Honoured(rows'[t], task[t], hist'[t], now)
               /\ hist'[t].minted = hist[t].minted
               /\ Granted(rows'[t], task[t], Claimed(t))
    <2> SUFFICES /\ Honoured(rows'[t], task[t], hist[t], now)
                 /\ Granted(rows'[t], task[t], Claimed(t))
      BY <1>0 DEF Honoured, Told, Named
    <2>1. PICK r \in Row, k \in TaskType, h \in HistType, n \in Nat :
             r = rows[t] /\ k = task[t] /\ h = hist[t] /\ n = now
      BY RequestFacts
    <2>2. PICK r2 : r2 = rows'[t]
      OBVIOUS
    <2>3. /\ Honoured(r, k, h, n) /\ Granted(r, k, Claimed(t)) /\ ApprovalTimeout \in Nat
      BY <2>1, RequestFacts
    <2>4. CASE r2 = r
      BY <2>1, <2>2, <2>3, <2>4
    <2>5. CASE r2.status = "absent" /\ r.expires < n /\ r.status # "absent"
      <3>1. r.expires \in Nat /\ k.deadline \in Nat
        BY DEF Row, TaskType
      <3>2. RowLives(r, k, n) /\ RowAgrees(r, k, n) /\ Told(r, k, h) /\ Named(r, k, h)
        BY <2>3 DEF Honoured
      <3>3. k.pc \notin {"send", "queue", "waiting", "expire", "identify"}
        BY <2>3, <2>5, <3>1, <3>2 DEF RowLives
      <3>4. RowLives(r2, k, n)
        BY <2>5, <3>2, <3>3 DEF RowLives, Open
      <3>5. RowAgrees(r2, k, n)
        BY <2>5, <3>1, <3>2 DEF RowAgrees
      <3>6. Told(r2, k, h) /\ Named(r2, k, h) /\ Granted(r2, k, Claimed(t))
        BY <2>3, <2>5, <3>2, <3>3 DEF Told, Named, Granted, Open
      <3> QED BY <2>1, <2>2, <3>4, <3>5, <3>6 DEF Honoured
    <2> QED BY <1>2, <2>1, <2>2, <2>4, <2>5
  <1>4. OpsAreDashboard' /\ CacheIsOfRequests'
    BY <1>1 DEF DefaultInv, OpsAreDashboard, DashboardOp, CacheIsOfRequests
  <1>5. \A t \in Txns : Claimed(t)' => Claimed(t)
    BY <1>0, <1>1 DEF Claimed
  <1>6. RequestsHonoured'
    BY <1>1, <1>3, <1>5 DEF RequestsHonoured, Granted
  <1> QED BY <1>4, <1>6 DEF DefaultInv

\* The clock keeps the invariant.
LEMMA TickDefault ==
    ASSUME TypeInv, FlowInv, DefaultInv, DefaultDeployment, Tick
    PROVE  DefaultInv'
  <1>1. UNCHANGED <<rows, task, hist, ops, cache>> /\ now' = now + 1
    BY DEF Tick, Store!Tick
  <1>2. ASSUME NEW t \in Txns
        PROVE  Honoured(rows[t], task[t], hist[t], now + 1)
    <2>1. PICK r \in Row, k \in TaskType, h \in HistType, n \in Nat :
             r = rows[t] /\ k = task[t] /\ h = hist[t] /\ n = now
      BY RequestFacts
    <2>2. Honoured(r, k, h, n)
      BY <2>1, RequestFacts
    <2>3. /\ k.pc \notin {"send", "queue", "expire", "identify"}
          /\ k.pc = "waiting" => ~ (n >= k.deadline)
      BY <2>1 DEF Tick, Prompt, Overdue
    <2>4. r.expires \in Nat /\ k.deadline \in Nat
      BY DEF Row, TaskType
    <2>5. RowLives(r, k, n + 1) /\ RowAgrees(r, k, n + 1)
      BY <2>2, <2>3, <2>4 DEF Honoured, RowLives, RowAgrees, Open
    <2> QED BY <2>1, <2>2, <2>5 DEF Honoured
  <1>3. OpsAreDashboard' /\ CacheIsOfRequests'
    BY <1>1 DEF DefaultInv, OpsAreDashboard, DashboardOp, CacheIsOfRequests
  <1>4. \A t \in Txns : Claimed(t)' => Claimed(t)
    BY <1>1 DEF Claimed
  <1>5. RequestsHonoured'
    BY <1>1, <1>2, <1>4 DEF DefaultInv, RequestsHonoured, Granted
  <1> QED BY <1>3, <1>5 DEF DefaultInv

\* Every step keeps the invariant of the default deployment.
LEMMA DefaultInvKept ==
    ASSUME TypeInv, TypeInv', FlowInv, DefaultInv, DefaultDeployment, [Next]_vars
    PROVE  DefaultInv'
  <1>1. CASE Next
    BY <1>1, ReceiveDefault, HandleDefault, WaitDefault, ActDefault, RunDefault, CrashDefault,
       CleanupDefault, TickDefault DEF Next
  <1>2. CASE UNCHANGED vars
    <2>1. UNCHANGED <<rows, now, task, hist, ops, cache>>
      BY <1>2 DEF vars, store
    <2> QED BY <2>1 DEF DefaultInv, OpsAreDashboard, DashboardOp, CacheIsOfRequests,
                        RequestsHonoured, Claimed
  <1> QED BY <1>1, <1>2

\* The inductive invariant of the default deployment.
LEMMA DefaultInvHolds == DefaultDeployment => (Spec => []DefaultInv)
  <1> SUFFICES ASSUME DefaultDeployment
               PROVE  Spec => []DefaultInv
    OBVIOUS
  <1>1. Init => DefaultInv
    <2> SUFFICES ASSUME Init
                 PROVE  DefaultInv
      OBVIOUS
    <2>1. \A p \in Principals : ops[p] = Idle
      BY DEF Init
    <2>2. OpsAreDashboard /\ CacheIsOfRequests
      BY <2>1 DEF Init, OpsAreDashboard, CacheIsOfRequests
    <2>3. ASSUME NEW t \in Txns
          PROVE  /\ rows[t].status = "absent"
                 /\ task[t].pc = "idle" /\ task[t].deadline = 0 /\ task[t].verdict = "none"
                 /\ hist[t].told = {} /\ hist[t].audit = "none" /\ ~ hist[t].minted
      BY DEF Init, Store!Init, Store!AbsentRow
    <2>4. \A t \in Txns : ~ Claimed(t)
      <3>1. Idle.todo # Minting
        BY DEF Idle, Minting
      <3> QED BY <2>1, <2>3, <3>1 DEF Claimed
    <2>5. RequestsHonoured
      BY <2>3, <2>4 DEF RequestsHonoured, Honoured, RowLives, RowAgrees, Told, Named, Granted, Open
    <2> QED BY <2>2, <2>5 DEF DefaultInv
  <1> QED BY <1>1, DefaultInvKept, FlowInvHolds, FlowTypes, PTL DEF Spec

\* What people decide is what happens and what is recorded: in the default
\* deployment a decision confirmed before the deadline is the one acted on, the
\* audit names somebody who approved, and the result stays pollable.
THEOREM DecisionsHonoured == DefaultDeployment => (Spec => []DecisionsAreHonoured)
  <1>1. DefaultInv => ToldIsHonoured /\ AuditNamesApprover
    BY DEF DefaultInv, RequestsHonoured, Honoured, Told, Named, ToldIsHonoured, AuditNamesApprover
  <1>2. TypeOK /\ ResultsAreKept /\ DefaultInv => DecisionsAreHonoured
    BY <1>1 DEF DecisionsAreHonoured
  <1> QED BY <1>2, DefaultInvHolds, FlowTypes, ResultsStayPollable, PTL

\* In the default deployment no grant comes into existence on top of a
\* denial, although the row is loaded, claimed and the grant created in three steps.
THEOREM GrantsNeedConsent == DefaultDeployment => (Spec => []NoGrantOnDenial)
  <1>1. DefaultInv => NoGrantOnDenial
    BY DEF DefaultInv, RequestsHonoured, Granted, Claimed, NoGrantOnDenial
  <1> QED BY <1>1, DefaultInvHolds, PTL

(***************************************************************************)
(* The bots: people act through Telegram and Matrix only.  Then a request  *)
(* is forwarded only after as many presses as its policy asks for, unless  *)
(* one went through uncounted (ThresholdHolds).  r is a request's row, k   *)
(* its task, m its oneshot, q its message, v its votes, n the clock.       *)
(***************************************************************************)
BotDeployment == Surfaces \subseteq {"bot"}

Asking == {"idle", "send", "deliver", "store", "queue", "waiting"}   \* an approval can still count
Unposted == {"idle", "send", "deliver"}                              \* nobody can react yet

Settled(k, v) == v.blind \/ v.cast >= k.needs

\* A Matrix reaction that comes after a denial is not counted, and has no effect.
Overruled(r, k, m) ==
    k.channel = "matrix" /\ m = "denied" /\ r.status \in {"denied", "expired"}

Supported(r, k, m, v) == Settled(k, v) \/ Overruled(r, k, m)

\* The handlers that have yet to count their reaction in the row.
Tallies(t) ==
    {p \in Principals : ops[p].txn = t /\ ops[p].todo # <<>> /\ Head(ops[p].todo).do = "tally"}

\* Both counters lag behind the presses; what the row lacks, handlers will add.
Counted(k, v, T) ==
    /\ IsFiniteSet(T)
    /\ v.cast < k.needs => v.home <= v.cast /\ v.row + Cardinality(T) <= v.cast

Fresh(r, k, m, q, v) ==
    /\ k.pc = "idle" => r.status = "absent" /\ v = [home |-> 0, row |-> 0, cast |-> 0, blind |-> FALSE]
    /\ k.pc \in {"idle", "send"} => m = "none"
    /\ k.pc \in Unposted => q = "no" /\ ~ r.message

\* A decided row outlives the wait, so that no later write can replace it.
Lasting(r, k, n) ==
    k.channel \in Bots =>
        /\ k.pc \in {"send", "deliver", "store", "queue"} =>
              /\ r.status = "absent" \/ r.expires >= n
              /\ WithWebAuthn => r.status # "absent" /\ r.expires >= n + ApprovalTimeout
        /\ k.pc = "waiting" =>
              r.status # "absent" /\ r.expires >= k.deadline /\ n <= k.deadline

Warranted(r, k, m, q, v) ==
    /\ k.verdict = "approved" => Settled(k, v)
    /\ k.pc \in Asking =>
          /\ r.status = "approved" => Settled(k, v)
          /\ m = "approved" => Settled(k, v)
          /\ m = "denied" /\ k.channel = "matrix" => Supported(r, k, m, v)
          /\ q = "known" /\ k.channel \in Bots => m # "none"

BotRequest(r, k, m, q, v, n) == Fresh(r, k, m, q, v) /\ Lasting(r, k, n) /\ Warranted(r, k, m, q, v)

\* What a bot's handler has left to do for a decision s on channel c.
BotTodo(c, s, todo) ==
    \A j \in 1..Len(todo) :
        /\ todo[j].do \in {"write", "signal", "claim", "mint", "forget", "tally", "count"}
        /\ todo[j].do \in {"write", "signal", "claim"} => todo[j].status = s
        /\ todo[j].do = "tally" => j = 1
        /\ j > 1 /\ todo[j - 1].do = "tally" => todo[j].do = "count"
        /\ j > 1 /\ todo[j].do = "signal" /\ c = "matrix" => todo[j - 1].do \in {"write", "claim"}

BotOp(op, r, k, m, v) ==
    /\ k.channel \in Bots /\ k.pc \notin Unposted
    /\ BotTodo(k.channel, op.status, op.todo)
    /\ k.pc \in Asking =>
          /\ op.status = "approved" /\ Head(op.todo).do \notin {"tally", "count"} => Supported(r, k, m, v)
          /\ op.status = "denied" /\ k.channel = "matrix" /\ Head(op.todo).do = "signal"
                => r.status \in Decisions

OpIsBot(p) ==
    ops[p] # Idle => LET t == ops[p].txn IN BotOp(ops[p], rows[t], task[t], mem[t], votes[t])

BotInv ==
    /\ \A t \in Txns : /\ BotRequest(rows[t], task[t], mem[t], posted[t], votes[t], now)
                       /\ Counted(task[t], votes[t], Tallies(t))
    /\ \A p \in Principals : OpIsBot(p)

\* What a step may do to a request that handlers are working on.
Upholds(r, k, m, v, r2, k2, m2, v2) ==
    /\ k2.channel = k.channel
    /\ k2.pc \in Unposted => k.pc \in Unposted
    /\ k2.pc \in Asking =>
          /\ k.pc \in Asking
          /\ Settled(k, v) => Settled(k2, v2)
          /\ Overruled(r, k, m) => Supported(r2, k2, m2, v2)
          /\ r.status \in Decisions => r2.status \in Decisions

\* A handler that does not move stays as it should be.
LEMMA HandlersUpheld ==
    ASSUME NEW op, NEW r, NEW k, NEW m, NEW v, NEW r2, NEW k2, NEW m2, NEW v2,
           BotOp(op, r, k, m, v), Upholds(r, k, m, v, r2, k2, m2, v2)
    PROVE  BotOp(op, r2, k2, m2, v2)
  <1>1. k2.channel \in Bots /\ k2.pc \notin Unposted /\ BotTodo(k2.channel, op.status, op.todo)
    BY DEF BotOp, Upholds
  <1>2. ASSUME k2.pc \in Asking, op.status = "approved", Head(op.todo).do \notin {"tally", "count"}
        PROVE  Supported(r2, k2, m2, v2)
    <2>1. Supported(r, k, m, v)
      BY <1>2 DEF BotOp, Upholds
    <2> QED BY <1>2, <2>1 DEF Supported, Upholds
  <1>3. ASSUME k2.pc \in Asking, op.status = "denied", k2.channel = "matrix", Head(op.todo).do = "signal"
        PROVE  r2.status \in Decisions
    BY <1>3 DEF BotOp, Upholds
  <1> QED BY <1>1, <1>2, <1>3 DEF BotOp

\* More votes never hurt.
LEMMA VotesGrow ==
    ASSUME NEW r, NEW k, NEW m, NEW q, NEW v, NEW n, NEW v2, BotRequest(r, k, m, q, v, n),
           k.needs \in Nat, v.cast \in Nat, v2.cast \in Nat, v2.cast >= v.cast, v.blind => v2.blind,
           k.pc # "idle"
    PROVE  BotRequest(r, k, m, q, v2, n) /\ Upholds(r, k, m, v, r, k, m, v2)
  <1>1. Settled(k, v) => Settled(k, v2)
    BY DEF Settled
  <1>2. Supported(r, k, m, v) => Supported(r, k, m, v2)
    BY <1>1 DEF Supported
  <1>3. Upholds(r, k, m, v, r, k, m, v2)
    BY <1>1 DEF Upholds, Supported
  <1>4. Warranted(r, k, m, q, v2)
    BY <1>1, <1>2 DEF BotRequest, Warranted
  <1>5. Fresh(r, k, m, q, v2)
    BY DEF BotRequest, Fresh
  <1> QED BY <1>3, <1>4, <1>5 DEF BotRequest

\* Counters that lag behind keep doing so when they lose votes or handlers.
LEMMA CountsShrink ==
    ASSUME NEW k, NEW v, NEW T, NEW k2, NEW v2, NEW T2, Counted(k, v, T), T2 \subseteq T,
           k2.needs = k.needs, k.needs \in Nat,
           v.cast \in Nat, v.row \in Nat, v.home \in Nat, v2.cast \in Nat, v2.row \in Nat, v2.home \in Nat,
           v2.cast >= v.cast, v2.row <= v.row, v2.home <= v.home
    PROVE  Counted(k2, v2, T2)
  <1>1. IsFiniteSet(T) /\ IsFiniteSet(T2) /\ Cardinality(T2) <= Cardinality(T)
    BY FS_Subset DEF Counted
  <1>2. Cardinality(T) \in Nat /\ Cardinality(T2) \in Nat
    BY <1>1, FS_CardinalityType
  <1> QED BY <1>1, <1>2 DEF Counted

\* A press counted in the memory of the instance that posted the message, or not at all.
LEMMA CountsPress ==
    ASSUME NEW k, NEW v, NEW T, NEW v2, Counted(k, v, T), k.needs \in Nat,
           v.cast \in Nat, v.row \in Nat, v.home \in Nat, v2.cast \in Nat,
           v2.cast = (IF v.cast < k.needs THEN v.cast + 1 ELSE v.cast),
           v2.home \in {v.home, v.home + 1}, v2.row = v.row
    PROVE  Counted(k, v2, T)
  <1>1. Cardinality(T) \in Nat
    BY FS_CardinalityType DEF Counted
  <1> QED BY <1>1 DEF Counted

\* A press that a handler will count in the row.
LEMMA CountsReaction ==
    ASSUME NEW k, NEW v, NEW T, NEW v2, NEW p, Counted(k, v, T), k.needs \in Nat,
           v.cast \in Nat, v.row \in Nat, v.home \in Nat, v2.cast \in Nat,
           v2.cast = (IF v.cast < k.needs THEN v.cast + 1 ELSE v.cast),
           v2.home = v.home, v2.row = v.row
    PROVE  Counted(k, v2, T \cup {p})
  <1>1. Cardinality(T) \in Nat /\ IsFiniteSet(T)
    BY FS_CardinalityType DEF Counted
  <1>2. IsFiniteSet(T \cup {p}) /\ Cardinality(T \cup {p}) \in {Cardinality(T), Cardinality(T) + 1}
    BY <1>1, FS_AddElement
  <1> QED BY <1>1, <1>2 DEF Counted

\* A handler counts its reaction in the row.
LEMMA CountsTally ==
    ASSUME NEW k, NEW v, NEW T, NEW v2, NEW p \in T, Counted(k, v, T), k.needs \in Nat,
           v.cast \in Nat, v.row \in Nat, v.home \in Nat,
           v2.cast = v.cast, v2.home = v.home, v2.row \in {v.row, v.row + 1}
    PROVE  Counted(k, v2, T \ {p})
  <1>1. Cardinality(T) \in Nat /\ IsFiniteSet(T)
    BY FS_CardinalityType DEF Counted
  <1>2. IsFiniteSet(T \ {p}) /\ Cardinality(T \ {p}) = Cardinality(T) - 1
    BY <1>1, FS_RemoveElement
  <1> QED BY <1>1, <1>2 DEF Counted

\* What the invariants say of a request.
LEMMA BotFacts ==
    ASSUME TypeInv, FlowInv, BotInv, NEW t \in Txns
    PROVE  /\ rows[t] \in Row /\ rows[t].expires \in Nat /\ now \in Nat
           /\ task[t].needs \in Nat \ {0} /\ task[t].deadline \in Nat /\ task[t].verdict \in Verdicts
           /\ mem[t] \in {"none", "open", "approved", "denied"}
           /\ votes[t].cast \in Nat /\ votes[t].home \in Nat /\ votes[t].row \in Nat
           /\ votes[t].blind \in BOOLEAN
           /\ BotRequest(rows[t], task[t], mem[t], posted[t], votes[t], now)
           /\ Counted(task[t], votes[t], Tallies(t))
           /\ Routed(task[t], mem[t]) /\ Wakeful(task[t], mem[t])
           /\ ApprovalTimeout \in Nat /\ PendingTtl \in Nat /\ ApprovalTimeout < PendingTtl
           /\ PhantomTtl \in Nat
  <1>1. rows[t] \in Row /\ rows[t].expires \in Nat /\ now \in Nat
    BY RowsTyped DEF Row
  <1>2. task[t].deadline \in Nat /\ task[t].verdict \in Verdicts
    BY RowsTyped DEF TaskType
  <1>3. /\ votes[t].cast \in Nat /\ votes[t].home \in Nat /\ votes[t].row \in Nat
        /\ votes[t].blind \in BOOLEAN /\ mem[t] \in {"none", "open", "approved", "denied"}
    BY DEF TypeInv, TypeOK, VotesType
  <1>4. task[t].needs \in Nat \ {0}
    BY <1>3, OneMoreTypes
  <1>5. Routed(task[t], mem[t]) /\ Wakeful(task[t], mem[t])
    BY DEF FlowInv, Good
  <1>6. /\ ApprovalTimeout \in Nat /\ PendingTtl \in Nat /\ ApprovalTimeout < PendingTtl
        /\ PhantomTtl \in Nat
    BY FlowAssumption, RowAssumption
  <1> QED BY <1>1, <1>2, <1>3, <1>4, <1>5, <1>6 DEF BotInv

\* Only request t is touched.
OnlyTouched(t) ==
    \A u \in Txns : u # t => /\ rows'[u] = rows[u] /\ task'[u] = task[u] /\ mem'[u] = mem[u]
                             /\ posted'[u] = posted[u] /\ votes'[u] = votes[u]

\* Only handlers of request t move, and the one that is left is as it should be.
OnlyHandlersOf(t) ==
    \A p \in Principals :
        \/ ops'[p] = ops[p]
        \/ /\ ops[p] = Idle \/ ops[p].txn = t
           /\ \/ ops'[p] = Idle
              \/ ops'[p].txn = t /\ BotOp(ops'[p], rows'[t], task'[t], mem'[t], votes'[t])

UpheldOf(t) == Upholds(rows[t], task[t], mem[t], votes[t], rows'[t], task'[t], mem'[t], votes'[t])

\* What is left to show of a step that touches one request.
LEMMA BotFrame ==
    ASSUME TypeInv, BotInv, NEW t \in Txns, OnlyTouched(t), now' = now, OnlyHandlersOf(t),
           BotRequest(rows'[t], task'[t], mem'[t], posted'[t], votes'[t], now),
           Counted(task'[t], votes'[t], Tallies(t)'),
           UpheldOf(t) \/ task[t].pc \in Unposted
    PROVE  BotInv'
  <1>0. Idle.txn = NoOne /\ NoOne \notin Txns
    BY FlowAssumption DEF Idle
  <1>1. ASSUME NEW u \in Txns, u # t
        PROVE  Tallies(u)' = Tallies(u)
    <2>1. \A p \in Principals : ops'[p] = ops[p] \/ (ops[p].txn # u /\ ops'[p].txn # u)
      BY <1>0, <1>1 DEF OnlyHandlersOf
    <2> QED BY <2>1 DEF Tallies
  <1>2. ASSUME NEW u \in Txns
        PROVE  /\ BotRequest(rows'[u], task'[u], mem'[u], posted'[u], votes'[u], now')
               /\ Counted(task'[u], votes'[u], Tallies(u)')
    <2>1. CASE u = t
      BY <2>1
    <2>2. CASE u # t
      <3>1. /\ rows'[u] = rows[u] /\ task'[u] = task[u] /\ mem'[u] = mem[u]
            /\ posted'[u] = posted[u] /\ votes'[u] = votes[u]
        BY <2>2 DEF OnlyTouched
      <3>2. Tallies(u)' = Tallies(u)
        BY <1>1, <2>2
      <3> QED BY <3>1, <3>2 DEF BotInv
    <2> QED BY <2>1, <2>2
  <1>3. ASSUME NEW p \in Principals, ops'[p] # Idle, NEW u, u = ops'[p].txn
        PROVE  BotOp(ops'[p], rows'[u], task'[u], mem'[u], votes'[u])
    <2>1. CASE ops'[p] = ops[p]
      <3>1. u = ops[p].txn /\ ops[p] # Idle /\ u \in Txns
        BY <1>3, <2>1 DEF TypeInv, TypeOK
      <3>2. BotOp(ops[p], rows[u], task[u], mem[u], votes[u])
        BY <3>1 DEF BotInv, OpIsBot
      <3>3. CASE u # t
        <4>1. rows'[u] = rows[u] /\ task'[u] = task[u] /\ mem'[u] = mem[u] /\ votes'[u] = votes[u]
          BY <3>1, <3>3 DEF OnlyTouched
        <4> QED BY <2>1, <3>2, <4>1
      <3>4. CASE u = t
        <4>1. UpheldOf(t)
          BY <3>2, <3>4 DEF BotOp
        <4>2. BotOp(ops[p], rows'[t], task'[t], mem'[t], votes'[t])
          BY <3>2, <3>4, <4>1, HandlersUpheld DEF UpheldOf
        <4> QED BY <2>1, <3>4, <4>2
      <3> QED BY <3>3, <3>4
    <2>2. CASE ops'[p] # ops[p]
      BY <1>3, <2>2 DEF OnlyHandlersOf
    <2> QED BY <2>1, <2>2
  <1>4. \A p \in Principals : OpIsBot(p)'
    BY <1>3 DEF OpIsBot
  <1> QED BY <1>2, <1>4 DEF BotInv

\* A request arrives.
LEMMA ReceiveBot ==
    ASSUME TypeInv, FlowInv, BotInv, NEW t \in Txns, Receive(t)
    PROVE  BotInv'
  <1>1. PICK i \in Instances, c \in Channels, eu \in EndUsers \cup {NoOne}, n \in Thresholds :
           ReceiveForward(t, i, c, eu, n)
    BY DEF Receive
  <1>2. /\ task[t].pc = "idle" /\ mem' = mem /\ posted' = posted /\ votes' = votes /\ ops' = ops
        /\ IF WithWebAuthn THEN Store!SavePendingApproval(t, NoOne, PendingTtl) ELSE UNCHANGED store
    BY <1>1 DEF ReceiveForward
  <1>3. /\ OthersKept(t) /\ task'[t].pc = "send" /\ task'[t].verdict = task[t].verdict
        /\ task'[t].needs = n
    BY <1>1, ReceiveFacts
  <1>4. now' = now /\ \A u \in Txns : u # t => rows'[u] = rows[u]
    <2>1. rows \in [Txns -> Row]
      BY RowsTyped
    <2>2. (\E r : Wrote(t, r)) \/ UNCHANGED store
      BY <1>2, StatementEffects
    <2> QED BY <2>1, <2>2 DEF Wrote, store
  <1>5. BotRequest(rows[t], task[t], mem[t], posted[t], votes[t], now)
    BY BotFacts
  <1>6. /\ rows[t].status = "absent" /\ votes[t] = [home |-> 0, row |-> 0, cast |-> 0, blind |-> FALSE]
        /\ mem[t] = "none" /\ posted[t] = "no" /\ ~ rows[t].message
    BY <1>2, <1>5 DEF BotRequest, Fresh, Unposted
  <1>7. /\ ~ rows'[t].message /\ rows'[t].status \in {"absent", "pending"}
        /\ rows'[t].status = "absent" \/ rows'[t].expires = now + PendingTtl
        /\ WithWebAuthn => rows'[t].status # "absent"
    <2>0. rows \in [Txns -> Row]
      BY RowsTyped
    <2>1. CASE WithWebAuthn
      <3>1. rows' = [rows EXCEPT ![t] = SavedRow(rows[t], NoOne, now + PendingTtl)]
        BY <1>2, <2>1, StatementEffects DEF Wrote
      <3>2. rows'[t] = SavedRow(rows[t], NoOne, now + PendingTtl)
        BY <2>0, <3>1
      <3> QED BY <1>6, <3>2 DEF SavedRow, AbsentRow
    <2>2. CASE ~ WithWebAuthn
      BY <1>2, <1>6, <2>2 DEF store
    <2> QED BY <2>1, <2>2
  <1>8. task[t].verdict = "none"
    BY <1>2, BotFacts DEF Routed, Undecided
  <1>9. BotRequest(rows'[t], task'[t], mem[t], posted[t], votes[t], now)
    <2>1. Fresh(rows'[t], task'[t], mem[t], posted[t], votes[t])
      BY <1>3, <1>6, <1>7 DEF Fresh
    <2>2. Lasting(rows'[t], task'[t], now)
      BY <1>3, <1>7, BotFacts DEF Lasting
    <2>3. Warranted(rows'[t], task'[t], mem[t], posted[t], votes[t])
      BY <1>3, <1>6, <1>7, <1>8 DEF Warranted
    <2> QED BY <2>1, <2>2, <2>3 DEF BotRequest
  <1>10. Counted(task'[t], votes[t], Tallies(t)')
    <2>1. ASSUME NEW p \in Principals
          PROVE  ops[p].txn # t
      <3>1. CASE ops[p] = Idle
        BY <3>1, FlowAssumption DEF Idle
      <3>2. CASE ops[p] # Idle
        BY <1>2, <3>2 DEF BotInv, OpIsBot, BotOp, Unposted
      <3> QED BY <3>1, <3>2
    <2>2. Tallies(t)' = {}
      BY <1>2, <2>1 DEF Tallies
    <2> QED BY <1>6, <2>2, FS_EmptySet DEF Counted
  <1>11. OnlyTouched(t) /\ OnlyHandlersOf(t)
    BY <1>2, <1>3, <1>4 DEF OnlyTouched, OnlyHandlersOf, OthersKept
  <1>12. mem'[t] = mem[t] /\ posted'[t] = posted[t] /\ votes'[t] = votes[t] /\ task[t].pc \in Unposted
    BY <1>2 DEF Unposted
  <1> QED BY <1>4, <1>9, <1>10, <1>11, <1>12, BotFrame

\* A step of a request's own handler or task: votes and handlers of people stay.
LEMMA OwnStep ==
    ASSUME TypeInv, FlowInv, BotInv, NEW t \in Txns, OthersKept(t), votes' = votes, ops' = ops, now' = now,
           \A u \in Txns : u # t => rows'[u] = rows[u] /\ mem'[u] = mem[u] /\ posted'[u] = posted[u],
           task'[t].needs = task[t].needs, task'[t].channel = task[t].channel, task'[t].pc # "idle",
           BotRequest(rows'[t], task'[t], mem'[t], posted'[t], votes[t], now),
           task'[t].pc \in Unposted => task[t].pc \in Unposted,
           task'[t].pc \in Asking => task[t].pc \in Asking,
           \/ task[t].pc \in Unposted
           \/ task'[t].pc \notin Asking
           \/ mem'[t] = mem[t] /\ (rows[t].status \in Decisions => rows'[t].status = rows[t].status)
    PROVE  BotInv'
  <1>1. OnlyTouched(t) /\ OnlyHandlersOf(t)
    BY DEF OnlyTouched, OnlyHandlersOf, OthersKept
  <1>2. Tallies(t)' = Tallies(t)
    BY DEF Tallies
  <1>3. Counted(task'[t], votes[t], Tallies(t)')
    BY <1>2, BotFacts DEF Counted
  <1>4. UpheldOf(t) \/ task[t].pc \in Unposted
    <2>1. Settled(task[t], votes[t]) => Settled(task'[t], votes'[t])
      BY DEF Settled
    <2>2. CASE task'[t].pc \notin Asking
      BY <2>2 DEF UpheldOf, Upholds
    <2>3. CASE mem'[t] = mem[t] /\ (rows[t].status \in Decisions => rows'[t].status = rows[t].status)
      BY <2>1, <2>3 DEF UpheldOf, Upholds, Supported, Overruled, Decisions
    <2> QED BY <2>2, <2>3
  <1>5. votes'[t] = votes[t]
    OBVIOUS
  <1> QED BY <1>1, <1>3, <1>4, <1>5, BotFrame

\* Sending the request to its channel and queueing it.
LEMMA HandleBot ==
    ASSUME TypeInv, FlowInv, BotInv, NEW t \in Txns, Handle(t)
    PROVE  BotInv'
  <1> DEFINE r == rows[t]
             k == task[t]
  <1>0. /\ rows \in [Txns -> Row] /\ mem \in [Txns -> {"none", "open", "approved", "denied"}]
        /\ posted \in [Txns -> {"no", "known", "forgotten"}]
    BY RowsTyped DEF TypeInv, TypeOK
  <1>1. BotRequest(r, k, mem[t], posted[t], votes[t], now)
    BY BotFacts
  <1>2. Fresh(r, k, mem[t], posted[t], votes[t]) /\ Lasting(r, k, now)
        /\ Warranted(r, k, mem[t], posted[t], votes[t])
    BY <1>1 DEF BotRequest
  <1>3. ASSUME NEW ch \in {"dashboard", "agent_reflected"}, SelfPersistingSend(t, ch)
        PROVE  BotInv'
    <2>1. /\ k.pc = "send" /\ k.channel = ch /\ Goto(t, "queue") /\ "queue" \in TaskSteps
          /\ votes' = votes /\ ops' = ops /\ mem' = mem /\ posted' = posted
          /\ Wrote(t, SavedRow(r, k.eu, now + PendingTtl))
      BY <1>3, StatementEffects DEF SelfPersistingSend, TaskSteps
    <2>2. /\ OthersKept(t) /\ task'[t].pc = "queue" /\ task'[t].verdict = k.verdict
          /\ task'[t].channel = k.channel /\ task'[t].needs = k.needs
      BY <2>1, GotoKeeps DEF OthersKept
    <2>3. /\ rows'[t] = SavedRow(r, k.eu, now + PendingTtl) /\ now' = now
          /\ \A u \in Txns : u # t => rows'[u] = rows[u]
      BY <1>0, <2>1 DEF Wrote
    <2>4. rows'[t].status = (IF r.status = "absent" THEN "pending" ELSE r.status)
      BY <2>3, BotFacts, RowEffects
    <2>5. Warranted(rows'[t], task'[t], mem'[t], posted'[t], votes[t])
      BY <1>2, <2>1, <2>2, <2>4 DEF Warranted, Fresh, Asking, Unposted, Settled
    <2>6. BotRequest(rows'[t], task'[t], mem'[t], posted'[t], votes[t], now)
      BY <2>2, <2>1, <2>5, BotsAreBots DEF BotRequest, Fresh, Lasting, Unposted
    <2> QED BY <2>1, <2>2, <2>3, <2>6, OwnStep DEF Unposted, Asking
  <1>4. CASE RegisterPending(t)
    <2>1. /\ k.pc = "send" /\ Goto(t, "deliver") /\ "deliver" \in TaskSteps
          /\ rows' = rows /\ now' = now /\ votes' = votes /\ ops' = ops /\ posted' = posted
          /\ mem' = [mem EXCEPT ![t] = "open"]
      BY <1>4 DEF RegisterPending, TaskSteps, store
    <2>2. /\ OthersKept(t) /\ task'[t].pc = "deliver" /\ task'[t].verdict = k.verdict
          /\ task'[t].channel = k.channel /\ task'[t].needs = k.needs
      BY <2>1, GotoKeeps DEF OthersKept
    <2>3. mem'[t] = "open" /\ \A u \in Txns : u # t => mem'[u] = mem[u]
      BY <1>0, <2>1
    <2>4. BotRequest(rows'[t], task'[t], mem'[t], posted'[t], votes[t], now)
      <3>1. Fresh(rows'[t], task'[t], mem'[t], posted'[t], votes[t])
        BY <1>2, <2>1, <2>2 DEF Fresh, Unposted
      <3>2. Lasting(rows'[t], task'[t], now)
        BY <1>2, <2>1, <2>2 DEF Lasting
      <3>3. Warranted(rows'[t], task'[t], mem'[t], posted'[t], votes[t])
        BY <1>2, <2>1, <2>2, <2>3 DEF Warranted, Asking, Settled
      <3> QED BY <3>1, <3>2, <3>3 DEF BotRequest
    <2> QED BY <2>1, <2>2, <2>3, <2>4, OwnStep DEF Unposted, Asking
  <1>5. CASE DeliverMessage(t)
    <2>1. /\ k.pc = "deliver" /\ Goto(t, "store") /\ "store" \in TaskSteps
          /\ rows' = rows /\ now' = now /\ votes' = votes /\ ops' = ops /\ mem' = mem
          /\ posted' = [posted EXCEPT ![t] = "known"]
      BY <1>5 DEF DeliverMessage, TaskSteps, store
    <2>2. /\ OthersKept(t) /\ task'[t].pc = "store" /\ task'[t].verdict = k.verdict
          /\ task'[t].channel = k.channel /\ task'[t].needs = k.needs
      BY <2>1, GotoKeeps DEF OthersKept
    <2>3. posted'[t] = "known" /\ \A u \in Txns : u # t => posted'[u] = posted[u]
      BY <1>0, <2>1
    <2>4. k.channel \in Bots => mem[t] # "none"
      BY <2>1, BotFacts DEF Wakeful
    <2>5. BotRequest(rows'[t], task'[t], mem'[t], posted'[t], votes[t], now)
      <3>1. Fresh(rows'[t], task'[t], mem'[t], posted'[t], votes[t])
        BY <2>2 DEF Fresh, Unposted
      <3>2. Lasting(rows'[t], task'[t], now)
        BY <1>2, <2>1, <2>2 DEF Lasting
      <3>3. Warranted(rows'[t], task'[t], mem'[t], posted'[t], votes[t])
        BY <1>2, <2>1, <2>2, <2>3, <2>4 DEF Warranted, Asking, Settled, Supported, Overruled
      <3> QED BY <3>1, <3>2, <3>3 DEF BotRequest
    <2> QED BY <2>1, <2>2, <2>3, <2>5, OwnStep DEF Unposted, Asking
  <1>6. CASE StoreMessage(t)
    <2>1. /\ k.pc = "store" /\ Goto(t, "queue") /\ "queue" \in TaskSteps
          /\ votes' = votes /\ ops' = ops /\ mem' = mem /\ posted' = posted
          /\ Wrote(t, MessageStoredRow(r, now))
      BY <1>6, StatementEffects DEF StoreMessage, TaskSteps
    <2>2. /\ OthersKept(t) /\ task'[t].pc = "queue" /\ task'[t].verdict = k.verdict
          /\ task'[t].channel = k.channel /\ task'[t].needs = k.needs
      BY <2>1, GotoKeeps DEF OthersKept
    <2>3. /\ rows'[t] = MessageStoredRow(r, now) /\ now' = now
          /\ \A u \in Txns : u # t => rows'[u] = rows[u]
      BY <1>0, <2>1 DEF Wrote
    <2>4. /\ rows'[t].status = (IF r.status = "absent" THEN "pending" ELSE r.status)
          /\ rows'[t].expires = (IF r.status = "absent" THEN now + PhantomTtl ELSE r.expires)
      BY <2>3, BotFacts, RowEffects
    <2>5. BotRequest(rows'[t], task'[t], mem'[t], posted'[t], votes[t], now)
      <3>1. Fresh(rows'[t], task'[t], mem'[t], posted'[t], votes[t])
        BY <2>2 DEF Fresh, Unposted
      <3>2. Lasting(rows'[t], task'[t], now)
        BY <1>2, <2>1, <2>2, <2>4, BotFacts DEF Lasting
      <3>3. Warranted(rows'[t], task'[t], mem'[t], posted'[t], votes[t])
        BY <1>2, <2>1, <2>2, <2>4 DEF Warranted, Asking, Settled, Supported, Overruled
      <3> QED BY <3>1, <3>2, <3>3 DEF BotRequest
    <2> QED BY <2>1, <2>2, <2>3, <2>4, <2>5, OwnStep DEF Unposted, Asking, Decisions
  <1>7. CASE SendFails(t)
    <2>1. /\ k.pc \in {"send", "deliver"} /\ Goto(t, "refused") /\ "refused" \in TaskSteps
          /\ rows' = rows /\ now' = now /\ votes' = votes /\ ops' = ops /\ posted' = posted
          /\ mem' = [mem EXCEPT ![t] = "none"]
      BY <1>7 DEF SendFails, TaskSteps, store
    <2>2. /\ OthersKept(t) /\ task'[t].pc = "refused" /\ task'[t].verdict = k.verdict
          /\ task'[t].channel = k.channel /\ task'[t].needs = k.needs
      BY <2>1, GotoKeeps DEF OthersKept
    <2>3. \A u \in Txns : u # t => mem'[u] = mem[u]
      BY <1>0, <2>1
    <2>4. BotRequest(rows'[t], task'[t], mem'[t], posted'[t], votes[t], now)
      BY <1>2, <2>2 DEF BotRequest, Fresh, Lasting, Warranted, Unposted, Asking, Settled
    <2> QED BY <2>1, <2>2, <2>3, <2>4, OwnStep DEF Unposted, Asking
  <1>8. CASE Queue(t)
    <2>1. /\ k.pc = "queue" /\ votes' = votes /\ ops' = ops /\ mem' = mem /\ posted' = posted
          /\ IF ~ WithWebAuthn /\ k.channel \in Bots
             THEN Wrote(t, SavedRow(r, NoOne, now + ApprovalTimeout))
             ELSE rows' = rows /\ now' = now
      BY <1>8, StatementEffects DEF Queue, store
    <2>2. /\ OthersKept(t) /\ task'[t].pc = "waiting" /\ task'[t].verdict = k.verdict
          /\ task'[t].channel = k.channel /\ task'[t].needs = k.needs
          /\ task'[t].deadline = now + ApprovalTimeout
      BY <1>8, QueueFacts
    <2>3. /\ now' = now /\ \A u \in Txns : u # t => rows'[u] = rows[u]
          /\ ~ WithWebAuthn /\ k.channel \in Bots => rows'[t] = SavedRow(r, NoOne, now + ApprovalTimeout)
          /\ WithWebAuthn \/ k.channel \notin Bots => rows'[t] = r
      BY <1>0, <2>1 DEF Wrote
    <2>4. /\ rows'[t].status \in {r.status, IF r.status = "absent" THEN "pending" ELSE r.status}
          /\ k.channel \in Bots => rows'[t].status # "absent" /\ rows'[t].expires >= now + ApprovalTimeout
      <3>1. CASE ~ WithWebAuthn /\ k.channel \in Bots
        <4>1. /\ rows'[t].status = (IF r.status = "absent" THEN "pending" ELSE r.status)
              /\ rows'[t].expires = now + ApprovalTimeout
          BY <2>3, <3>1, BotFacts, RowEffects
        <4> QED BY <4>1, BotFacts
      <3>2. CASE WithWebAuthn \/ k.channel \notin Bots
        BY <1>2, <2>1, <2>3, <3>2 DEF Lasting
      <3> QED BY <3>1, <3>2
    <2>5. BotRequest(rows'[t], task'[t], mem'[t], posted'[t], votes[t], now)
      <3>1. Fresh(rows'[t], task'[t], mem'[t], posted'[t], votes[t])
        BY <2>2 DEF Fresh, Unposted
      <3>2. Lasting(rows'[t], task'[t], now)
        BY <2>2, <2>4, BotFacts DEF Lasting
      <3>3. Warranted(rows'[t], task'[t], mem'[t], posted'[t], votes[t])
        BY <1>2, <2>1, <2>2, <2>4 DEF Warranted, Asking, Settled, Supported, Overruled
      <3> QED BY <3>1, <3>2, <3>3 DEF BotRequest
    <2> QED BY <2>1, <2>2, <2>3, <2>4, <2>5, OwnStep DEF Unposted, Asking, Decisions
  <1> QED BY <1>3, <1>4, <1>5, <1>6, <1>7, <1>8 DEF Handle, SendDashboard, SendAgentReflected

\* The task waits, reads a decision, and acts on it.
LEMMA WaitBot ==
    ASSUME TypeInv, FlowInv, BotInv, NEW t \in Txns, Wait(t)
    PROVE  BotInv'
  <1> DEFINE r == rows[t]
             k == task[t]
             Moved(v) == /\ OthersKept(t) /\ task'[t].pc \in TaskSteps \ Asking /\ task'[t].verdict = v
                         /\ task'[t].channel = k.channel /\ task'[t].needs = k.needs
  <1>0. /\ rows \in [Txns -> Row] /\ mem \in [Txns -> {"none", "open", "approved", "denied"}]
        /\ k.verdict \in Verdicts /\ k.pc \in TaskSteps
    BY RowsTyped DEF TypeInv, TypeOK, TaskType
  <1>1. Warranted(r, k, mem[t], posted[t], votes[t])
    BY BotFacts DEF BotRequest
  <1>2. ASSUME NEW v \in Verdicts, NEW pc \in {"cleanup", "identify", "record"}, Conclude(t, v, pc),
               pc = "record" => v \in {"denied", "timeout", "error"},
               pc = "identify" => v \in {"approved", "denied"}, v # "none"
        PROVE  Moved(v)
    <2>1. pc \in TaskSteps \ Asking
      BY DEF TaskSteps, Asking
    <2> QED BY <1>2, <2>1, ConcludeKeeps DEF OthersKept
  <1>3. ASSUME NEW pc \in {"expire", "identify", "record", "done"}, Goto(t, pc),
               pc = "record" => k.verdict \in {"denied", "timeout", "error"},
               pc = "identify" => k.verdict \in {"approved", "denied"}
        PROVE  Moved(k.verdict)
    <2>1. pc \in TaskSteps \ Asking
      BY DEF TaskSteps, Asking
    <2> QED BY <1>3, <2>1, GotoKeeps DEF OthersKept
  <1>4. /\ votes' = votes /\ ops' = ops /\ posted' = posted /\ now' = now
        /\ \A u \in Txns : u # t => rows'[u] = rows[u] /\ mem'[u] = mem[u]
    <2>1. votes' = votes /\ ops' = ops /\ posted' = posted
      BY DEF Wait, PollDashboard, PollAgentReflected, GiveUp, ExpireRow, ReceiveSignal, PollBot,
             TelegramDeadline, MatrixDeadline, CleanupPendingRequest, Identify, Forward, Record, Finish
    <2>2. mem' = mem \/ mem' = [mem EXCEPT ![t] = "none"]
      BY DEF Wait, PollDashboard, PollAgentReflected, GiveUp, ExpireRow, ReceiveSignal, PollBot,
             TelegramDeadline, MatrixDeadline, CleanupPendingRequest, Identify, Forward, Record, Finish
    <2>3. UNCHANGED store \/ \E q : Wrote(t, q)
      BY StatementEffects
         DEF Wait, PollDashboard, PollAgentReflected, GiveUp, ExpireRow, ReceiveSignal, PollBot,
             TelegramDeadline, MatrixDeadline, CleanupPendingRequest, Identify, Forward, Record, Finish
    <2>4. now' = now /\ \A u \in Txns : u # t => rows'[u] = rows[u]
      BY <1>0, <2>3 DEF Wrote, store
    <2> QED BY <1>0, <2>1, <2>2, <2>4
  <1>5. \E v : Moved(v) /\ (v = "approved" => Settled(k, votes[t]))
    <2>1. CASE PollDashboard(t) \/ PollAgentReflected(t) \/ PollBot(t)
      <3> DEFINE v == Seen(r.status)
      <3>1. k.pc = "waiting" /\ v # "none"
            /\ (Conclude(t, v, AfterDecision(v)) \/ Conclude(t, v, "cleanup"))
        BY <2>1 DEF PollDashboard, PollAgentReflected, PollBot
      <3>2. /\ v \in Verdicts /\ (v = "approved" => r.status = "approved")
            /\ AfterDecision(v) \in {"identify", "record"}
            /\ AfterDecision(v) = "record" => v \in {"denied", "timeout", "error"}
            /\ AfterDecision(v) = "identify" => v \in {"approved", "denied"}
        BY <3>1, SeenFacts
      <3> HIDE DEF v
      <3>3. Moved(v)
        <4> HIDE DEF Moved
        <4> QED BY <1>2, <3>1, <3>2
      <3>4. v = "approved" => Settled(k, votes[t])
        BY <1>1, <3>1, <3>2 DEF Warranted, Asking
      <3> QED BY <3>3, <3>4
    <2>2. CASE ReceiveSignal(t)
      <3>1. k.pc = "waiting" /\ mem[t] \in {"approved", "denied"} /\ Conclude(t, mem[t], "identify")
        BY <2>2 DEF ReceiveSignal
      <3>2. mem[t] \in Verdicts
        BY <3>1 DEF Verdicts
      <3>3. Moved(mem[t])
        <4> HIDE DEF Moved
        <4> QED BY <1>2, <3>1, <3>2
      <3>4. mem[t] = "approved" => Settled(k, votes[t])
        BY <1>1, <3>1 DEF Warranted, Asking
      <3> QED BY <3>3, <3>4
    <2>3. CASE ExpireRow(t) \/ TelegramDeadline(t) \/ MatrixDeadline(t)
      <3>1. Conclude(t, "error", "record") \/ Conclude(t, "error", "cleanup")
        BY <2>3 DEF ExpireRow, TelegramDeadline, MatrixDeadline
      <3>2. "error" \in Verdicts
        BY DEF Verdicts
      <3>3. Moved("error")
        <4> HIDE DEF Moved
        <4> QED BY <1>2, <3>1, <3>2
      <3> QED BY <3>3
    <2>4. CASE GiveUp(t) \/ CleanupPendingRequest(t)
      <3>1. Goto(t, "expire") \/ (k.pc = "cleanup" /\ Goto(t, AfterDecision(k.verdict)))
        BY <2>4 DEF GiveUp, CleanupPendingRequest
      <3>2. k.pc = "cleanup" =>
               /\ AfterDecision(k.verdict) \in {"identify", "record"}
               /\ AfterDecision(k.verdict) = "record" => k.verdict \in {"denied", "timeout", "error"}
               /\ AfterDecision(k.verdict) = "identify" => k.verdict \in {"approved", "denied"}
        <4>1. k.pc = "cleanup" => k.verdict # "none"
          BY DEF TypeInv, PhaseOK
        <4> QED BY <1>0, <4>1 DEF AfterDecision, Verdicts
      <3>3. Moved(k.verdict)
        <4> HIDE DEF Moved
        <4> QED BY <1>3, <3>1, <3>2
      <3> QED BY <1>1, <3>3 DEF Warranted
    <2>5. CASE Identify(t)
      <3>1. Moved(k.verdict)
        BY <2>5, IdentifyFacts DEF TaskSteps, Asking
      <3> QED BY <1>1, <3>1 DEF Warranted
    <2>6. CASE Forward(t) \/ Record(t)
      <3>1. Goto(t, "done")
        BY <2>6 DEF Forward, Record, Finish
      <3>2. Moved(k.verdict)
        <4> HIDE DEF Moved
        <4> QED BY <1>3, <3>1
      <3> QED BY <1>1, <3>2 DEF Warranted
    <2> HIDE DEF Moved
    <2> QED BY <2>1, <2>2, <2>3, <2>4, <2>5, <2>6 DEF Wait
  <1>6. PICK v : Moved(v) /\ (v = "approved" => Settled(k, votes[t]))
    BY <1>5
  <1>7. BotRequest(rows'[t], task'[t], mem'[t], posted'[t], votes[t], now)
    BY <1>6 DEF BotRequest, Fresh, Lasting, Warranted, Unposted, Asking, Settled
  <1>8. task'[t].pc \notin Asking /\ task'[t].pc \notin Unposted /\ task'[t].pc # "idle"
    BY <1>6 DEF Unposted, Asking
  <1> QED BY <1>4, <1>6, <1>7, <1>8, OwnStep

\* An instance restarts.
LEMMA CrashBot ==
    ASSUME TypeInv, FlowInv, BotInv, NEW i \in Instances, Crash(i)
    PROVE  BotInv'
  <1>0. NoOne \notin Txns /\ Idle.txn = NoOne
    BY FlowAssumption DEF Idle
  <1>1. \A p \in Principals : ops'[p] = ops[p] \/ ops'[p] = Idle
    BY DEF Crash
  <1>2. rows' = rows /\ now' = now
    BY DEF Crash, store
  <1>3. ASSUME NEW t \in Txns
        PROVE  /\ BotRequest(rows'[t], task'[t], mem'[t], posted'[t], votes'[t], now')
               /\ Counted(task'[t], votes'[t], Tallies(t)') /\ UpheldOf(t)
    <2> DEFINE r == rows[t]
               k == task[t]
    <2>1. /\ BotRequest(r, k, mem[t], posted[t], votes[t], now) /\ Counted(k, votes[t], Tallies(t))
          /\ votes[t].cast \in Nat /\ votes[t].home \in Nat /\ votes[t].row \in Nat
          /\ k.needs \in Nat
      BY BotFacts
    <2>2. k \in TaskType /\ votes[t] \in VotesType
      BY RowsTyped DEF TypeInv, TypeOK
    <2>3. Tallies(t)' \subseteq Tallies(t)
      BY <1>0, <1>1 DEF Tallies
    <2>4. CASE k.home # i
      <3>1. task'[t] = k /\ mem'[t] = mem[t] /\ posted'[t] = posted[t] /\ votes'[t] = votes[t]
        BY <2>4 DEF Crash
      <3>2. Counted(k, votes[t], Tallies(t)')
        BY <2>1, <2>3, CountsShrink
      <3>3. UpheldOf(t)
        BY <1>2, <3>1 DEF UpheldOf, Upholds, Supported
      <3> QED BY <1>2, <2>1, <3>1, <3>2, <3>3
    <2>5. CASE k.home = i
      <3>1. /\ task'[t] = (IF Live(t) THEN [k EXCEPT !.pc = "lost"] ELSE k)
            /\ mem'[t] = "none" /\ posted'[t] = (IF posted[t] = "known" THEN "forgotten" ELSE posted[t])
            /\ votes'[t] = [votes[t] EXCEPT !.home = 0]
        BY <2>5 DEF Crash
      <3>2. /\ votes'[t].cast = votes[t].cast /\ votes'[t].row = votes[t].row /\ votes'[t].home = 0
            /\ votes'[t].blind = votes[t].blind
        BY <2>2, <3>1 DEF VotesType
      <3>3. /\ task'[t].needs = k.needs /\ task'[t].channel = k.channel /\ task'[t].verdict = k.verdict
            /\ task'[t].pc = (IF Live(t) THEN "lost" ELSE k.pc)
        BY <2>2, <3>1 DEF TaskType
      <3>4. task'[t].pc \in Asking => k.pc = "idle" /\ task'[t].pc = "idle"
        BY <3>3 DEF Live, Asking
      <3>5. Counted(task'[t], votes'[t], Tallies(t)')
        BY <2>1, <2>3, <3>2, <3>3, CountsShrink
      <3>6. Fresh(rows'[t], task'[t], mem'[t], posted'[t], votes'[t])
        <4>1. task'[t].pc \in Unposted => task'[t].pc = "idle" /\ k.pc = "idle"
          BY <3>4 DEF Asking, Unposted
        <4>2. CASE k.pc = "idle"
          <5>1. /\ r.status = "absent" /\ votes[t] = [home |-> 0, row |-> 0, cast |-> 0, blind |-> FALSE]
                /\ posted[t] = "no" /\ ~ r.message
            BY <2>1, <4>2 DEF BotRequest, Fresh, Unposted
          <5>2. votes'[t] = votes[t]
            BY <3>1, <5>1
          <5> QED BY <1>2, <3>1, <5>1, <5>2 DEF Fresh
        <4>3. CASE k.pc # "idle"
          BY <4>1, <4>3 DEF Fresh, Unposted
        <4> QED BY <4>2, <4>3
      <3>7. Lasting(rows'[t], task'[t], now')
        BY <3>4 DEF Lasting, Asking
      <3>8. Warranted(rows'[t], task'[t], mem'[t], posted'[t], votes'[t])
        BY <1>2, <2>1, <3>1, <3>2, <3>3, <3>4 DEF BotRequest, Fresh, Warranted, Settled
      <3>9. UpheldOf(t)
        <4>1. CASE task'[t].pc \notin Asking
          BY <3>3, <4>1 DEF UpheldOf, Upholds, Asking, Unposted
        <4>2. CASE task'[t].pc \in Asking
          <5>1. k.pc = "idle" /\ task'[t].pc = "idle" /\ mem[t] = "none"
            BY <2>1, <3>4, <4>2 DEF BotRequest, Fresh
          <5> QED BY <1>2, <3>2, <3>3, <5>1 DEF UpheldOf, Upholds, Settled, Overruled, Unposted, Asking
        <4> QED BY <4>1, <4>2
      <3> QED BY <3>5, <3>6, <3>7, <3>8, <3>9 DEF BotRequest
    <2> QED BY <2>4, <2>5
  <1>4. ASSUME NEW p \in Principals, ops'[p] # Idle, NEW u, u = ops'[p].txn
        PROVE  BotOp(ops'[p], rows'[u], task'[u], mem'[u], votes'[u])
    <2>1. ops'[p] = ops[p] /\ ops[p] # Idle /\ u \in Txns
      BY <1>1, <1>4 DEF TypeInv, TypeOK
    <2>2. BotOp(ops[p], rows[u], task[u], mem[u], votes[u])
      BY <1>4, <2>1 DEF BotInv, OpIsBot
    <2>3. UpheldOf(u)
      BY <1>3, <2>1
    <2>4. BotOp(ops[p], rows'[u], task'[u], mem'[u], votes'[u])
      BY <2>2, <2>3, HandlersUpheld DEF UpheldOf
    <2> QED BY <2>1, <2>4
  <1>5. \A p \in Principals : OpIsBot(p)'
    BY <1>4 DEF OpIsBot
  <1> QED BY <1>3, <1>5 DEF BotInv

\* The background job: no decision that people still wait on is purged.
LEMMA CleanupBot ==
    ASSUME TypeInv, FlowInv, BotInv, CleanupExpiredRows
    PROVE  BotInv'
  <1>1. UNCHANGED <<now, task, mem, posted, ops>>
    BY DEF CleanupExpiredRows, Store!CleanupExpiredRows
  <1>2. \A t \in Txns : \/ rows'[t] = rows[t]
                        \/ /\ rows'[t].status = "absent" /\ rows'[t].message = FALSE
                           /\ rows[t].status \in Decisions /\ rows[t].expires < now
    BY DEF CleanupExpiredRows, Store!CleanupExpiredRows, Store!Purgeable, Store!AbsentRow,
           Store!Decisions, Decisions
  <1>3. ASSUME NEW t \in Txns
        PROVE  /\ BotRequest(rows'[t], task[t], mem[t], posted[t], votes'[t], now)
               /\ Counted(task[t], votes'[t], Tallies(t)')
               /\ task[t].channel \in Bots => UpheldOf(t)
    <2> DEFINE r == rows[t]
               k == task[t]
    <2>0. /\ BotRequest(r, k, mem[t], posted[t], votes[t], now) /\ Counted(k, votes[t], Tallies(t))
          /\ votes[t].cast \in Nat /\ votes[t].home \in Nat /\ votes[t].row \in Nat
          /\ k.needs \in Nat /\ r.expires \in Nat /\ k.deadline \in Nat /\ now \in Nat
      BY BotFacts
    <2>1. /\ votes'[t].cast = votes[t].cast /\ votes'[t].home = votes[t].home
          /\ votes'[t].blind = votes[t].blind /\ votes'[t].row \in {0, votes[t].row}
          /\ k.pc = "idle" => votes'[t] = votes[t]
      <3>1. votes'[t] = [votes[t] EXCEPT !.row = IF rows'[t].status = "absent" THEN 0 ELSE @]
        BY DEF CleanupExpiredRows, ForgetCounts
      <3>2. votes[t] \in VotesType
        BY DEF TypeInv, TypeOK
      <3>3. PICK z : z = IF rows'[t].status = "absent" THEN 0 ELSE votes[t].row
        OBVIOUS
      <3>4. votes'[t] = [votes[t] EXCEPT !.row = z]
        BY <3>1, <3>2, <3>3 DEF VotesType
      <3>5. k.pc = "idle" => votes[t] = [home |-> 0, row |-> 0, cast |-> 0, blind |-> FALSE]
        BY <2>0 DEF BotRequest, Fresh
      <3>6. k.pc = "idle" => votes'[t] = votes[t]
        BY <3>3, <3>4, <3>5
      <3> QED BY <3>2, <3>3, <3>4, <3>6 DEF VotesType
    <2>2. Settled(k, votes'[t]) <=> Settled(k, votes[t])
      BY <2>1 DEF Settled
    <2>3. Counted(k, votes'[t], Tallies(t)')
      <3>1. Tallies(t)' = Tallies(t)
        BY <1>1 DEF Tallies
      <3> QED BY <2>0, <2>1, <3>1, CountsShrink
    <2>4. k.channel \in Bots /\ k.pc \in Asking => rows'[t] = r
      BY <1>2, <2>0 DEF BotRequest, Lasting, Fresh, Asking, Decisions
    <2>5. Fresh(rows'[t], k, mem[t], posted[t], votes'[t])
      BY <1>2, <2>0, <2>1 DEF BotRequest, Fresh, Decisions
    <2>6. Lasting(rows'[t], k, now)
      BY <2>0, <2>4 DEF BotRequest, Lasting, Asking
    <2>7. Warranted(rows'[t], k, mem[t], posted[t], votes'[t])
      <3>1. k.channel = "matrix" /\ mem[t] = "denied" => k.channel \in Bots
        BY BotFacts DEF Routed
      <3>2. k.channel = "matrix" /\ mem[t] = "denied" /\ k.pc \in Asking =>
               (Supported(r, k, mem[t], votes[t]) => Supported(rows'[t], k, mem[t], votes'[t]))
        BY <2>2, <2>4, <3>1 DEF Supported
      <3>3. rows'[t].status = "approved" => r.status = "approved"
        BY <1>2
      <3> QED BY <2>0, <2>2, <3>2, <3>3 DEF BotRequest, Warranted
    <2>8. k.channel \in Bots => UpheldOf(t)
      <3>1. task'[t] = k /\ mem'[t] = mem[t]
        BY <1>1
      <3> QED BY <2>2, <2>4, <3>1 DEF UpheldOf, Upholds, Supported
    <2> QED BY <2>3, <2>5, <2>6, <2>7, <2>8 DEF BotRequest
  <1>4. ASSUME NEW p \in Principals, ops[p] # Idle, NEW u, u = ops[p].txn
        PROVE  BotOp(ops[p], rows'[u], task'[u], mem'[u], votes'[u])
    <2>1. u \in Txns /\ BotOp(ops[p], rows[u], task[u], mem[u], votes[u])
      BY <1>4 DEF BotInv, OpIsBot, TypeInv, TypeOK
    <2>2. UpheldOf(u)
      BY <1>3, <2>1 DEF BotOp
    <2> QED BY <2>1, <2>2, HandlersUpheld DEF UpheldOf
  <1>5. \A p \in Principals : OpIsBot(p)'
    BY <1>1, <1>4 DEF OpIsBot
  <1> QED BY <1>1, <1>3, <1>5 DEF BotInv

\* The clock does not pass the deadline of a waiting task.
LEMMA TickBot ==
    ASSUME TypeInv, FlowInv, BotInv, Tick
    PROVE  BotInv'
  <1>1. UNCHANGED <<rows, task, mem, posted, votes, ops>> /\ now' = now + 1
    BY DEF Tick, Store!Tick
  <1>2. ASSUME NEW t \in Txns
        PROVE  BotRequest(rows[t], task[t], mem[t], posted[t], votes[t], now + 1)
    <2>1. /\ task[t].pc \notin {"send", "deliver", "store", "queue"}
          /\ task[t].pc = "waiting" => ~ (now >= task[t].deadline)
      BY DEF Tick, Prompt, Overdue
    <2>2. /\ BotRequest(rows[t], task[t], mem[t], posted[t], votes[t], now)
          /\ now \in Nat /\ task[t].deadline \in Nat
      BY BotFacts
    <2>3. Lasting(rows[t], task[t], now + 1)
      BY <2>1, <2>2 DEF BotRequest, Lasting
    <2> QED BY <2>2, <2>3 DEF BotRequest
  <1>3. \A t \in Txns : Tallies(t)' = Tallies(t) /\ Counted(task[t], votes[t], Tallies(t))
    BY <1>1 DEF Tallies, BotInv
  <1>4. \A p \in Principals : OpIsBot(p)'
    BY <1>1 DEF OpIsBot, BotInv
  <1> QED BY <1>1, <1>2, <1>3, <1>4 DEF BotInv

\* The steps of the bots' handlers.
LEMMA BotStepFields ==
    /\ Mint.do = "mint" /\ Forget.do = "forget" /\ Tally.do = "tally" /\ Count.do = "count"
    /\ \A by : Claim(by).do = "claim" /\ Claim(by).status = "approved"
    /\ \A s, by : Write(s, by).do = "write" /\ Write(s, by).status = s
    /\ \A b, s : Signal(b, s).do = "signal" /\ Signal(b, s).status = s
  BY DEF Mint, Forget, Tally, Count, Claim, Write, Signal, Step

\* What the handlers of the bots set out to do.
LEMMA BotPlans ==
    ASSUME NEW m
    PROVE  /\ \A s : BotTodo("telegram", s, TelegramResolve(s, m))
                     /\ Head(TelegramResolve(s, m)).do = "signal"
           /\ \A s : BotTodo("matrix", s, MatrixResolve(s, m) \o <<Forget>>)
                     /\ Head(MatrixResolve(s, m) \o <<Forget>>).do = "write"
           /\ \A s : BotTodo("matrix", s, <<Tally, Count>> \o MatrixResolve(s, m) \o <<Forget>>)
                     /\ Head(<<Tally, Count>> \o MatrixResolve(s, m) \o <<Forget>>).do = "tally"
           /\ \A b \in {"telegram", "matrix"} :
                 BotTodo(b, "approved", BotGrantPlan(b, m)) /\ Head(BotGrantPlan(b, m)).do = "claim"
  <1>0. /\ Mint.do = "mint" /\ Forget.do = "forget" /\ Tally.do = "tally" /\ Count.do = "count"
        /\ \A by : Claim(by).do = "claim" /\ Claim(by).status = "approved"
        /\ \A s, by : Write(s, by).do = "write" /\ Write(s, by).status = s
        /\ \A b, s : Signal(b, s).do = "signal" /\ Signal(b, s).status = s
    BY BotStepFields
  <1>1. ASSUME NEW s
        PROVE  /\ BotTodo("telegram", s, TelegramResolve(s, m))
               /\ Head(TelegramResolve(s, m)).do = "signal"
    <2> HIDE DEF Signal, Write
    <2>1. PICK a, b : a = Signal("telegram", s) /\ b = Write(s, m)
      OBVIOUS
    <2>2. TelegramResolve(s, m) = <<a, b>>
      BY <2>1 DEF TelegramResolve
    <2>3. a.do = "signal" /\ a.status = s /\ b.do = "write" /\ b.status = s
      BY <1>0, <2>1
    <2> QED BY <2>2, <2>3 DEF BotTodo
  <1>2. ASSUME NEW s
        PROVE  /\ BotTodo("matrix", s, MatrixResolve(s, m) \o <<Forget>>)
               /\ Head(MatrixResolve(s, m) \o <<Forget>>).do = "write"
    <2> HIDE DEF Signal, Write, Forget
    <2>1. PICK a, b, c : a = Write(s, m) /\ b = Signal("matrix", s) /\ c = Forget
      OBVIOUS
    <2>2. MatrixResolve(s, m) \o <<Forget>> = <<a, b, c>>
      BY <2>1, ShortConcats DEF MatrixResolve
    <2>3. a.do = "write" /\ a.status = s /\ b.do = "signal" /\ b.status = s /\ c.do = "forget"
      BY <1>0, <2>1
    <2>4. BotTodo("matrix", s, <<a, b, c>>)
      <3>1. \A j \in 1..3 : j = 1 \/ j = 2 \/ j = 3
        OBVIOUS
      <3>2. Len(<<a, b, c>>) = 3 /\ <<a, b, c>>[1] = a /\ <<a, b, c>>[2] = b /\ <<a, b, c>>[3] = c
        OBVIOUS
      <3> QED BY <2>3, <3>1, <3>2 DEF BotTodo
    <2>5. Head(<<a, b, c>>) = a
      OBVIOUS
    <2> QED BY <2>2, <2>3, <2>4, <2>5
  <1>3. ASSUME NEW s
        PROVE  /\ BotTodo("matrix", s, <<Tally, Count>> \o MatrixResolve(s, m) \o <<Forget>>)
               /\ Head(<<Tally, Count>> \o MatrixResolve(s, m) \o <<Forget>>).do = "tally"
    <2> HIDE DEF Signal, Write, Forget, Tally, Count
    <2>1. PICK a, b, c, d, e : /\ a = Tally /\ b = Count
                               /\ c = Write(s, m) /\ d = Signal("matrix", s) /\ e = Forget
      OBVIOUS
    <2>2. PICK x : x = (<<a, b>> \o <<c, d>>) \o <<e>>
      OBVIOUS
    <2>3. <<Tally, Count>> \o MatrixResolve(s, m) \o <<Forget>> = x
      BY <2>1, <2>2 DEF MatrixResolve
    <2>4. Len(x) = 5 /\ x[1] = a /\ x[2] = b /\ x[3] = c /\ x[4] = d /\ x[5] = e /\ Head(x) = a
      <3> DEFINE S == {a, b, c, d, e}
      <3>1. <<a, b>> \in Seq(S) /\ <<c, d>> \in Seq(S) /\ <<e>> \in Seq(S)
        OBVIOUS
      <3>0. \A f, g \in Seq(S) : f \o g \in Seq(S)
        OBVIOUS
      <3>2. PICK y \in Seq(S) : y = <<a, b>> \o <<c, d>>
        BY <3>0, <3>1
      <3>3. Len(y) = 4 /\ y[1] = a /\ y[2] = b /\ y[3] = c /\ y[4] = d
        BY <3>1, <3>2
      <3>4. Len(x) = 5 /\ x[1] = a /\ x[2] = b /\ x[3] = c /\ x[4] = d /\ x[5] = e
        BY <2>2, <3>1, <3>2, <3>3
      <3>5. x \in Seq(S)
        BY <2>2, <3>0, <3>1, <3>2
      <3> QED BY <3>4, <3>5
    <2>5. /\ a.do = "tally" /\ b.do = "count" /\ c.do = "write" /\ c.status = s
          /\ d.do = "signal" /\ d.status = s /\ e.do = "forget"
      BY <1>0, <2>1
    <2>6. BotTodo("matrix", s, x)
      <3>1. \A j \in 1..5 : j = 1 \/ j = 2 \/ j = 3 \/ j = 4 \/ j = 5
        OBVIOUS
      <3> QED BY <2>4, <2>5, <3>1 DEF BotTodo
    <2> QED BY <2>3, <2>4, <2>5, <2>6
  <1>4. ASSUME NEW ch \in {"telegram", "matrix"}
        PROVE  BotTodo(ch, "approved", BotGrantPlan(ch, m)) /\ Head(BotGrantPlan(ch, m)).do = "claim"
    <2> HIDE DEF Signal, Claim, Mint, Forget
    <2>1. PICK a, b, c, d : a = Claim(m) /\ b = Signal(ch, "approved") /\ c = Mint /\ d = Forget
      OBVIOUS
    <2>2. PICK x : x = BotGrantPlan(ch, m)
      OBVIOUS
    <2>3. /\ Len(x) = 3 \/ (Len(x) = 4 /\ x[4] = d)
          /\ x[1] = a /\ x[2] = b /\ x[3] = c /\ Head(x) = a
      <3> DEFINE S == {a, b, c, d}
      <3>1. <<a, b, c>> \in Seq(S) /\ <<d>> \in Seq(S) /\ <<>> \in Seq(S)
        OBVIOUS
      <3>2. PICK y \in {<<d>>, <<>>} : x = <<a, b, c>> \o y
        BY <2>1, <2>2 DEF BotGrantPlan
      <3>0. \A f, g \in Seq(S) : f \o g \in Seq(S)
        OBVIOUS
      <3>3. x \in Seq(S)
        BY <3>0, <3>1, <3>2
      <3>4. /\ Len(x) = 3 \/ (Len(x) = 4 /\ x[4] = d)
            /\ x[1] = a /\ x[2] = b /\ x[3] = c
        BY <3>1, <3>2
      <3> QED BY <3>3, <3>4
    <2>4. /\ a.do = "claim" /\ a.status = "approved" /\ b.do = "signal" /\ b.status = "approved"
          /\ c.do = "mint" /\ d.do = "forget"
      BY <1>0, <2>1
    <2>5. BotTodo(ch, "approved", x)
      <3>1. \A j \in 1..Len(x) : j = 1 \/ j = 2 \/ j = 3 \/ (j = 4 /\ x[4] = d)
        <4>1. \A j \in 1..3 : j = 1 \/ j = 2 \/ j = 3
          OBVIOUS
        <4>2. \A j \in 1..4 : j = 1 \/ j = 2 \/ j = 3 \/ j = 4
          OBVIOUS
        <4>3. CASE Len(x) = 3
          BY <4>1, <4>3
        <4>4. CASE Len(x) = 4 /\ x[4] = d
          BY <4>2, <4>4
        <4> QED BY <2>3, <4>3, <4>4
      <3> QED BY <2>3, <2>4, <3>1 DEF BotTodo
    <2> QED BY <2>2, <2>3, <2>4, <2>5
  <1> QED BY <1>1, <1>2, <1>3, <1>4

\* Where people can press a button or react, the message is out.
LEMMA ReachedIsPosted ==
    ASSUME TypeInv, FlowInv, BotInv, NEW i \in Instances, NEW t \in Txns,
           \/ TelegramReaches(t) \/ MatrixReaches(i, t)
           \/ task[t].channel \in Bots /\ posted[t] # "no"
    PROVE  task[t].channel \in Bots /\ task[t].pc \notin Unposted
  <1>1. task[t].channel \in Channels \cup {"agent_reflected", "none"}
    BY RowsTyped DEF TaskType
  <1>2. task[t].channel \in Bots
    BY <1>1 DEF TelegramReaches, MatrixReaches, Bots
  <1>3. Fresh(rows[t], task[t], mem[t], posted[t], votes[t])
    BY BotFacts DEF BotRequest
  <1> QED BY <1>2, <1>3 DEF Fresh, TelegramReaches, MatrixReaches, MatrixKnows, MatrixMapped

\* The last press of a threshold settles it, and so does one nobody counts.
LEMMA PressSettles ==
    ASSUME TypeInv, FlowInv, BotInv, NEW i \in Instances, NEW t \in Txns, NEW unc \in BOOLEAN,
           Vote(i, t, "approved", unc), ~ IsPartial(i, t, "approved"),
           unc \/ task[t].needs = 1 \/ Enough(t, votes[t].home) \/ CountsInMemory(i, t)
    PROVE  Settled(task[t], votes'[t])
  <1> DEFINE k == task[t]
             v == votes[t]
  <1>1. /\ k.needs \in Nat \ {0} /\ v.cast \in Nat /\ v.home \in Nat /\ v.row \in Nat
        /\ Counted(k, v, Tallies(t))
    BY BotFacts
  <1>2. /\ votes'[t].cast = OneMore(t, v.cast)
        /\ votes'[t].blind = (v.blind \/ (unc /\ ~ CountsInMemory(i, t)))
    BY VoteFacts
  <1>3. v.cast < k.needs => v.home <= v.cast
    BY <1>1 DEF Counted
  <1>4. OneMore(t, v.cast) = (IF v.cast < k.needs THEN v.cast + 1 ELSE v.cast)
        /\ OneMore(t, v.home) = (IF v.home < k.needs THEN v.home + 1 ELSE v.home)
    BY DEF OneMore
  <1>5. CASE CountsInMemory(i, t)
    <2>1. OneMore(t, v.home) >= k.needs /\ ~ (v.home >= k.needs)
      BY <1>1, <1>4, <1>5 DEF IsPartial, Enough, CountsInMemory
    <2> QED BY <1>1, <1>2, <1>3, <1>4, <2>1 DEF Settled
  <1>6. CASE ~ CountsInMemory(i, t) /\ unc
    BY <1>2, <1>6 DEF Settled
  <1>7. CASE k.needs = 1 \/ v.home >= k.needs
    BY <1>1, <1>2, <1>3, <1>4, <1>7 DEF Settled
  <1> QED BY <1>5, <1>6, <1>7 DEF Enough

\* What a press does to the counters.
LEMMA PressCounts ==
    ASSUME TypeInv, FlowInv, BotInv, NEW i \in Instances, NEW t \in Txns, NEW unc \in BOOLEAN,
           Vote(i, t, "approved", unc)
    PROVE  /\ \A u \in Txns : u # t => votes'[u] = votes[u]
           /\ votes'[t].cast \in Nat /\ votes'[t].cast >= votes[t].cast
           /\ votes[t].blind => votes'[t].blind
           /\ Counted(task[t], votes'[t], Tallies(t))
  <1> DEFINE k == task[t]
             v == votes[t]
  <1>1. /\ k.needs \in Nat \ {0} /\ v.cast \in Nat /\ v.home \in Nat /\ v.row \in Nat
        /\ Counted(k, v, Tallies(t))
    BY BotFacts
  <1>2. /\ \A u \in Txns : u # t => votes'[u] = votes[u]
        /\ votes'[t].cast = OneMore(t, v.cast) /\ votes'[t].row = v.row
        /\ votes'[t].home \in {v.home, OneMore(t, v.home)}
        /\ v.blind => votes'[t].blind
    BY VoteFacts
  <1>3. /\ votes'[t].cast = (IF v.cast < k.needs THEN v.cast + 1 ELSE v.cast)
        /\ votes'[t].home \in {v.home, v.home + 1}
    BY <1>2 DEF OneMore
  <1>4. votes'[t].cast \in Nat /\ votes'[t].cast >= v.cast
    BY <1>1, <1>3
  <1>5. Counted(k, votes'[t], Tallies(t))
    BY <1>1, <1>2, <1>3, <1>4, CountsPress
  <1> QED BY <1>2, <1>4, <1>5

\* What is left to show when a person's handler starts.
LEMMA OpeningBot ==
    ASSUME TypeInv, FlowInv, BotInv, NEW t \in Txns, NEW p \in Principals, NEW o,
           ops[p] = Idle, ops' = [ops EXCEPT ![p] = o], o.txn = t, o.todo # <<>>,
           UNCHANGED <<rows, now, task, mem, posted>>,
           task[t].channel \in Bots, task[t].pc \notin Unposted,
           BotTodo(task[t].channel, o.status, o.todo),
           task[t].channel # "matrix" \/ Head(o.todo).do # "signal",
           \A u \in Txns : u # t => votes'[u] = votes[u],
           votes'[t].cast \in Nat, votes'[t].cast >= votes[t].cast, votes[t].blind => votes'[t].blind,
           Counted(task[t], votes'[t], IF Head(o.todo).do = "tally" THEN Tallies(t) \cup {p} ELSE Tallies(t)),
           o.status = "approved" /\ Head(o.todo).do \notin {"tally", "count"} /\ task[t].pc \in Asking
              => Supported(rows[t], task[t], mem[t], votes'[t])
    PROVE  BotInv'
  <1>0. NoOne \notin Txns /\ Idle.txn = NoOne
    BY FlowAssumption DEF Idle
  <1>1. ops'[p] = o /\ \A b \in Principals : b # p => ops'[b] = ops[b]
    BY DEF TypeInv, OpsOK
  <1>2. task[t].pc # "idle"
    BY DEF Unposted
  <1>3. /\ BotRequest(rows[t], task[t], mem[t], posted[t], votes[t], now)
        /\ task[t].needs \in Nat /\ votes[t].cast \in Nat
    BY BotFacts
  <1>4. /\ BotRequest(rows[t], task[t], mem[t], posted[t], votes'[t], now)
        /\ Upholds(rows[t], task[t], mem[t], votes[t], rows[t], task[t], mem[t], votes'[t])
    BY <1>2, <1>3, VotesGrow
  <1>5. BotOp(o, rows[t], task[t], mem[t], votes'[t])
    BY DEF BotOp
  <1>6. Tallies(t)' = IF Head(o.todo).do = "tally" THEN Tallies(t) \cup {p} ELSE Tallies(t)
    <2>1. p \notin Tallies(t)
      BY <1>0 DEF Tallies
    <2>2. \A b \in Principals : b # p => (b \in Tallies(t)' <=> b \in Tallies(t))
      BY <1>1 DEF Tallies
    <2>3. p \in Tallies(t)' <=> Head(o.todo).do = "tally"
      BY <1>1 DEF Tallies
    <2>4. Tallies(t)' \subseteq Principals /\ Tallies(t) \subseteq Principals
      BY DEF Tallies
    <2>5. PICK T, U : T = Tallies(t) /\ U = Tallies(t)'
      OBVIOUS
    <2>6. CASE Head(o.todo).do = "tally"
      <3>1. U = T \cup {p}
        BY <2>2, <2>3, <2>4, <2>5, <2>6
      <3> QED BY <2>5, <2>6, <3>1
    <2>7. CASE Head(o.todo).do # "tally"
      <3>1. \A b \in Principals : b \in U <=> b \in T
        BY <2>1, <2>2, <2>3, <2>5, <2>7
      <3>2. U \subseteq Principals /\ T \subseteq Principals
        BY <2>4, <2>5
      <3>3. U = T
        BY Zenon, <3>1, <3>2
      <3> QED BY <2>5, <2>7, <3>3
    <2> QED BY <2>6, <2>7
  <1>7. /\ rows'[t] = rows[t] /\ task'[t] = task[t] /\ mem'[t] = mem[t] /\ posted'[t] = posted[t]
    OBVIOUS
  <1>8. OnlyTouched(t)
    BY DEF OnlyTouched
  <1>9. OnlyHandlersOf(t)
    BY <1>1, <1>5, <1>7 DEF OnlyHandlersOf
  <1>10. UpheldOf(t)
    BY <1>4, <1>7 DEF UpheldOf
  <1> QED BY <1>4, <1>6, <1>7, <1>8, <1>9, <1>10, BotFrame

\* A record of a handler that starts, and what Start leaves alone.
LEMMA StartsHandler ==
    ASSUME NEW p \in Principals, NEW i, NEW t, NEW s, NEW plan, Start(p, i, t, s, plan)
    PROVE  /\ \E o : /\ ops[p] = Idle /\ ops' = [ops EXCEPT ![p] = o]
                     /\ o.txn = t /\ o.todo = plan /\ o.status = s
           /\ UNCHANGED <<rows, now, task, mem, posted>>
  <1>1. PICK o : o = [inst |-> i, txn |-> t, status |-> s, ok |-> FALSE, todo |-> plan]
    OBVIOUS
  <1>2. o.txn = t /\ o.todo = plan /\ o.status = s
    BY <1>1
  <1> QED BY <1>1, <1>2 DEF Start, store

\* A denial through a bot.
LEMMA DenialBot ==
    ASSUME TypeInv, FlowInv, BotInv, NEW i \in Instances, NEW t \in Txns, NEW m \in Members,
           TelegramCallback(m, i, t, "denied") \/ MatrixReaction(m, i, t, "denied")
    PROVE  BotInv'
  <1>0. m \in Principals
    BY DEF Principals
  <1>1. task[t].channel \in Bots /\ task[t].pc \notin Unposted
    BY ReachedIsPosted DEF TelegramCallback, MatrixReaction
  <1>2. PICK plan : /\ Start(m, i, t, "denied", plan) /\ plan # <<>>
                    /\ BotTodo(task[t].channel, "denied", plan)
                    /\ \/ task[t].channel = "telegram" /\ Head(plan).do = "signal"
                       \/ task[t].channel = "matrix" /\ Head(plan).do = "write"
    <2>1. CASE TelegramCallback(m, i, t, "denied")
      <3>1. TelegramResolve("denied", m) # <<>>
        BY PlansAreLawful
      <3> QED BY <2>1, <3>1, BotPlans DEF TelegramCallback, TelegramReaches
    <2>2. CASE MatrixReaction(m, i, t, "denied")
      <3>1. MatrixPlan(m, i, t, "denied") # <<>>
        BY PlansAreLawful
      <3>2. \A x, y : <<>> \o <<x, y>> = <<x, y>>
        OBVIOUS
      <3>3. MatrixPlan(m, i, t, "denied") = MatrixResolve("denied", m) \o <<Forget>>
        BY <3>2 DEF MatrixPlan, MatrixResolve
      <3>4. /\ BotTodo("matrix", "denied", MatrixPlan(m, i, t, "denied"))
            /\ Head(MatrixPlan(m, i, t, "denied")).do = "write"
        BY <3>3, BotPlans
      <3> QED BY <2>2, <3>1, <3>4 DEF MatrixReaction, MatrixReaches
    <2> QED BY <2>1, <2>2
  <1>3. PICK o : /\ ops[m] = Idle /\ ops' = [ops EXCEPT ![m] = o]
                 /\ o.txn = t /\ o.todo = plan /\ o.status = "denied"
    BY <1>0, <1>2, StartsHandler
  <1>4. UNCHANGED <<rows, now, task, mem, posted>>
    BY <1>0, <1>2, StartsHandler
  <1>5. votes \in [Txns -> VotesType]
    BY DEF TypeInv, TypeOK
  <1>6. votes' = votes
    <2>1. votes' = votes \/ votes' = [votes EXCEPT ![t].cast = @]
      BY DEF TelegramCallback, MatrixReaction, Vote
    <2> QED BY <1>5, <2>1 DEF VotesType
  <1>7. /\ votes[t].cast \in Nat /\ Counted(task[t], votes[t], Tallies(t))
    BY BotFacts
  <1>8. Head(o.todo).do # "tally"
    BY <1>2, <1>3
  <1>9. votes'[t] = votes[t] /\ \A u \in Txns : u # t => votes'[u] = votes[u]
    BY <1>6
  <1>10. votes'[t].cast >= votes[t].cast
    BY <1>7, <1>9
  <1> QED BY <1>0, <1>1, <1>2, <1>3, <1>4, <1>7, <1>8, <1>9, <1>10, OpeningBot

\* A Telegram button that approves.
LEMMA TelegramBot ==
    ASSUME TypeInv, FlowInv, BotInv, NEW i \in Instances, NEW t \in Txns, NEW m \in Members,
           TelegramCallback(m, i, t, "approved")
    PROVE  BotInv'
  <1>0. m \in Principals
    BY DEF Principals
  <1>1. task[t].channel \in Bots /\ task[t].pc \notin Unposted
    BY ReachedIsPosted DEF TelegramCallback
  <1>2. PICK plan : /\ Start(m, i, t, "approved", plan) /\ plan # <<>> /\ task[t].channel = "telegram"
                    /\ BotTodo("telegram", "approved", plan) /\ Head(plan).do = "signal"
    <2>1. TelegramResolve("approved", m) # <<>>
      BY PlansAreLawful
    <2> QED BY <2>1, BotPlans DEF TelegramCallback, TelegramReaches
  <1>3. PICK o : /\ ops[m] = Idle /\ ops' = [ops EXCEPT ![m] = o]
                 /\ o.txn = t /\ o.todo = plan /\ o.status = "approved"
    BY <1>0, <1>2, StartsHandler
  <1>4. UNCHANGED <<rows, now, task, mem, posted>>
    BY <1>0, <1>2, StartsHandler
  <1>5. PICK unc \in BOOLEAN : /\ unc = (task[t].needs > 1 /\ ~ Enough(t, votes[t].home))
                               /\ Vote(i, t, "approved", unc) /\ ~ IsPartial(i, t, "approved")
    BY DEF TelegramCallback
  <1>6. unc \/ task[t].needs = 1 \/ Enough(t, votes[t].home)
    <2>1. task[t].needs \in Nat \ {0}
      BY BotFacts
    <2>2. task[t].needs = 1 \/ task[t].needs > 1
      BY <2>1
    <2> QED BY <1>5, <2>2
  <1>7. Settled(task[t], votes'[t])
    BY <1>5, <1>6, PressSettles
  <1>8. /\ \A u \in Txns : u # t => votes'[u] = votes[u]
        /\ votes'[t].cast \in Nat /\ votes'[t].cast >= votes[t].cast /\ (votes[t].blind => votes'[t].blind)
        /\ Counted(task[t], votes'[t], Tallies(t))
    BY <1>5, PressCounts
  <1>9. Head(o.todo).do # "tally" /\ Supported(rows[t], task[t], mem[t], votes'[t])
    BY <1>2, <1>3, <1>7 DEF Supported
  <1> QED BY <1>0, <1>1, <1>2, <1>3, <1>4, <1>8, <1>9, OpeningBot

\* A Matrix reaction to the instance that posted the message.
LEMMA MappedReactionBot ==
    ASSUME TypeInv, FlowInv, BotInv, NEW i \in Instances, NEW t \in Txns, NEW m \in Members,
           MatrixReaction(m, i, t, "approved"), MatrixMapped(i, t)
    PROVE  BotInv'
  <1>0. m \in Principals
    BY DEF Principals
  <1>1. task[t].channel \in Bots /\ task[t].pc \notin Unposted
    BY ReachedIsPosted DEF MatrixReaction
  <1>2. PICK plan : /\ Start(m, i, t, "approved", plan) /\ plan # <<>> /\ task[t].channel = "matrix"
                    /\ BotTodo("matrix", "approved", plan) /\ Head(plan).do = "write"
    <2>1. MatrixPlan(m, i, t, "approved") # <<>>
      BY PlansAreLawful
    <2>2. \A x, y : <<>> \o <<x, y>> = <<x, y>>
      OBVIOUS
    <2>3. MatrixPlan(m, i, t, "approved") = MatrixResolve("approved", m) \o <<Forget>>
      BY <2>2 DEF MatrixPlan, MatrixResolve
    <2> QED BY <2>1, <2>3, BotPlans DEF MatrixReaction, MatrixReaches
  <1>3. PICK o : /\ ops[m] = Idle /\ ops' = [ops EXCEPT ![m] = o]
                 /\ o.txn = t /\ o.todo = plan /\ o.status = "approved"
    BY <1>0, <1>2, StartsHandler
  <1>4. UNCHANGED <<rows, now, task, mem, posted>>
    BY <1>0, <1>2, StartsHandler
  <1>5. Vote(i, t, "approved", FALSE) /\ ~ IsPartial(i, t, "approved")
    BY DEF MatrixReaction
  <1>6. /\ \A u \in Txns : u # t => votes'[u] = votes[u]
        /\ votes'[t].cast \in Nat /\ votes'[t].cast >= votes[t].cast /\ (votes[t].blind => votes'[t].blind)
        /\ Counted(task[t], votes'[t], Tallies(t))
    BY <1>5, PressCounts
  <1>7. task[t].pc \in Asking => Supported(rows[t], task[t], mem[t], votes'[t])
    <2>1. CASE task[t].needs = 1 \/ Enough(t, votes[t].home) \/ CountsInMemory(i, t)
      <3>1. Settled(task[t], votes'[t])
        BY <1>5, <2>1, PressSettles
      <3> QED BY <3>1 DEF Supported
    <2>2. CASE ~ (task[t].needs = 1 \/ Enough(t, votes[t].home) \/ CountsInMemory(i, t))
      <3>1. task[t].needs > 1 /\ i = task[t].home /\ posted[t] = "known"
        BY <2>2, BotFacts DEF MatrixMapped
      <3>2. mem[t] # "open"
        BY <2>2, <3>1 DEF CountsInMemory
      <3>3. task[t].pc \in Asking => mem[t] \in {"approved", "denied"}
        BY <1>1, <3>1, <3>2, BotFacts DEF BotRequest, Warranted
      <3>4. task[t].pc \in Asking => Supported(rows[t], task[t], mem[t], votes[t])
        BY <1>2, <3>3, BotFacts DEF BotRequest, Warranted, Supported
      <3>5. Settled(task[t], votes[t]) => Settled(task[t], votes'[t])
        BY <1>6, BotFacts DEF Settled
      <3> QED BY <3>4, <3>5 DEF Supported
    <2> QED BY <2>1, <2>2
  <1>8. Head(o.todo).do \notin {"tally", "count", "signal"}
    BY <1>2, <1>3
  <1> QED BY <1>0, <1>1, <1>2, <1>3, <1>4, <1>6, <1>7, <1>8, OpeningBot

\* A Matrix reaction to another instance: it will be counted in the row.
LEMMA UnmappedReactionBot ==
    ASSUME TypeInv, FlowInv, BotInv, NEW i \in Instances, NEW t \in Txns, NEW m \in Members,
           MatrixReaction(m, i, t, "approved"), ~ MatrixMapped(i, t)
    PROVE  BotInv'
  <1> DEFINE k == task[t]
             v == votes[t]
  <1>0. m \in Principals
    BY DEF Principals
  <1>1. k.channel \in Bots /\ k.pc \notin Unposted /\ k.channel = "matrix"
    BY ReachedIsPosted DEF MatrixReaction, MatrixReaches
  <1>2. /\ k.needs \in Nat \ {0} /\ v.cast \in Nat /\ v.home \in Nat /\ v.row \in Nat
        /\ Counted(k, v, Tallies(t)) /\ v \in VotesType
    BY BotFacts DEF TypeInv, TypeOK
  <1>3. /\ \A u \in Txns : u # t => votes'[u] = votes[u]
        /\ votes'[t].cast = (IF v.cast < k.needs THEN v.cast + 1 ELSE v.cast)
        /\ votes'[t].home = v.home /\ votes'[t].row = v.row /\ votes'[t].blind = v.blind
    <2>1. PICK c : c = OneMore(t, v.cast)
      OBVIOUS
    <2>2. votes \in [Txns -> VotesType]
      BY DEF TypeInv, TypeOK
    <2>3. votes' = [votes EXCEPT ![t].cast = c]
      BY <2>1 DEF MatrixReaction
    <2>4. votes'[t] = [v EXCEPT !.cast = c] /\ \A u \in Txns : u # t => votes'[u] = votes[u]
      BY <2>2, <2>3
    <2>5. votes'[t].cast = c /\ votes'[t].home = v.home /\ votes'[t].row = v.row /\ votes'[t].blind = v.blind
      BY <1>2, <2>4 DEF VotesType
    <2> QED BY <2>1, <2>4, <2>5 DEF OneMore
  <1>4. votes'[t].cast \in Nat /\ votes'[t].cast >= v.cast
    BY <1>2, <1>3
  <1>5. /\ Counted(k, votes'[t], Tallies(t)) /\ Counted(k, votes'[t], Tallies(t) \cup {m})
    BY <1>2, <1>3, <1>4, CountsPress, CountsReaction
  <1>6. CASE k.needs > 1
    <2>1. PICK plan : /\ Start(m, i, t, "approved", plan) /\ plan # <<>>
                      /\ BotTodo("matrix", "approved", plan) /\ Head(plan).do = "tally"
      <3>1. MatrixPlan(m, i, t, "approved") # <<>>
        BY PlansAreLawful
      <3>2. MatrixPlan(m, i, t, "approved") = <<Tally, Count>> \o MatrixResolve("approved", m) \o <<Forget>>
        BY <1>6 DEF MatrixPlan
      <3>3. /\ BotTodo("matrix", "approved", MatrixPlan(m, i, t, "approved"))
            /\ Head(MatrixPlan(m, i, t, "approved")).do = "tally"
        BY <3>2, BotPlans
      <3> QED BY <3>1, <3>3 DEF MatrixReaction
    <2>2. PICK o : /\ ops[m] = Idle /\ ops' = [ops EXCEPT ![m] = o]
                   /\ o.txn = t /\ o.todo = plan /\ o.status = "approved"
      BY <1>0, <2>1, StartsHandler
    <2>3. UNCHANGED <<rows, now, task, mem, posted>>
      BY <1>0, <2>1, StartsHandler
    <2>4. Head(o.todo).do = "tally" /\ o.todo # <<>> /\ BotTodo(k.channel, o.status, o.todo)
      BY <1>1, <2>1, <2>2
    <2> QED BY <1>0, <1>1, <1>3, <1>4, <1>5, <2>2, <2>3, <2>4, OpeningBot
  <1>7. CASE ~ (k.needs > 1)
    <2>1. PICK plan : /\ Start(m, i, t, "approved", plan) /\ plan # <<>>
                      /\ BotTodo("matrix", "approved", plan) /\ Head(plan).do = "write"
      <3>1. MatrixPlan(m, i, t, "approved") # <<>>
        BY PlansAreLawful
      <3>2. \A x, y : <<>> \o <<x, y>> = <<x, y>>
        OBVIOUS
      <3>3. MatrixPlan(m, i, t, "approved") = MatrixResolve("approved", m) \o <<Forget>>
        BY <1>7, <3>2 DEF MatrixPlan, MatrixResolve
      <3>4. /\ BotTodo("matrix", "approved", MatrixPlan(m, i, t, "approved"))
            /\ Head(MatrixPlan(m, i, t, "approved")).do = "write"
        BY <3>3, BotPlans
      <3> QED BY <3>1, <3>4 DEF MatrixReaction
    <2>2. PICK o : /\ ops[m] = Idle /\ ops' = [ops EXCEPT ![m] = o]
                   /\ o.txn = t /\ o.todo = plan /\ o.status = "approved"
      BY <1>0, <2>1, StartsHandler
    <2>3. UNCHANGED <<rows, now, task, mem, posted>>
      BY <1>0, <2>1, StartsHandler
    <2>4. Head(o.todo).do = "write" /\ o.todo # <<>> /\ BotTodo(k.channel, o.status, o.todo)
      BY <1>1, <2>1, <2>2
    <2>5. Supported(rows[t], k, mem[t], votes'[t])
      BY <1>2, <1>3, <1>7 DEF Supported, Settled
    <2> QED BY <1>0, <1>1, <1>3, <1>4, <1>5, <2>2, <2>3, <2>4, <2>5, OpeningBot
  <1> QED BY <1>6, <1>7

\* A grant button or reaction.
LEMMA BotGrantBot ==
    ASSUME TypeInv, FlowInv, BotInv, NEW i \in Instances, NEW t \in Txns, NEW m \in Members,
           BotGrant(m, i, t)
    PROVE  BotInv'
  <1>0. m \in Principals
    BY DEF Principals
  <1>1. task[t].channel \in Bots /\ task[t].pc \notin Unposted
    BY ReachedIsPosted DEF BotGrant
  <1>2. PICK plan : /\ Start(m, i, t, "approved", plan) /\ plan # <<>>
                    /\ BotTodo(task[t].channel, "approved", plan) /\ Head(plan).do = "claim"
    <2>1. PICK b \in {"telegram", "matrix"} : b = task[t].channel
      BY <1>1 DEF Bots
    <2>2. /\ BotGrantPlan(b, m) # <<>> /\ BotTodo(b, "approved", BotGrantPlan(b, m))
          /\ Head(BotGrantPlan(b, m)).do = "claim"
      BY PlansAreLawful, BotPlans
    <2> QED BY <2>1, <2>2 DEF BotGrant
  <1>3. PICK o : /\ ops[m] = Idle /\ ops' = [ops EXCEPT ![m] = o]
                 /\ o.txn = t /\ o.todo = plan /\ o.status = "approved"
    BY <1>0, <1>2, StartsHandler
  <1>4. UNCHANGED <<rows, now, task, mem, posted>>
    BY <1>0, <1>2, StartsHandler
  <1>5. Vote(i, t, "approved", FALSE) /\ task[t].needs = 1
    BY DEF BotGrant
  <1>6. ~ IsPartial(i, t, "approved")
    BY <1>5 DEF IsPartial, CountsInMemory
  <1>7. Settled(task[t], votes'[t])
    BY <1>5, <1>6, PressSettles
  <1>8. /\ \A u \in Txns : u # t => votes'[u] = votes[u]
        /\ votes'[t].cast \in Nat /\ votes'[t].cast >= votes[t].cast /\ (votes[t].blind => votes'[t].blind)
        /\ Counted(task[t], votes'[t], Tallies(t))
    BY <1>5, PressCounts
  <1>9. Head(o.todo).do = "claim" /\ Supported(rows[t], task[t], mem[t], votes'[t])
    BY <1>2, <1>3, <1>7 DEF Supported
  <1> QED BY <1>0, <1>1, <1>2, <1>3, <1>4, <1>8, <1>9, OpeningBot

\* A press that is not the last one, and a grant reaction that is refused.
LEMMA PartialBot ==
    ASSUME TypeInv, FlowInv, BotInv, NEW i \in Instances, NEW t \in Txns, NEW m \in Members,
           TelegramPartial(m, i, t) \/ MatrixPartial(m, i, t)
    PROVE  BotInv'
  <1>1. task[t].channel \in Bots /\ task[t].pc \notin Unposted
    BY ReachedIsPosted DEF TelegramPartial, MatrixPartial
  <1>2. /\ Vote(i, t, "approved", FALSE) /\ UNCHANGED <<rows, now, task, mem, posted, ops>>
    BY DEF TelegramPartial, MatrixPartial, PartialVote, store
  <1>3. /\ \A u \in Txns : u # t => votes'[u] = votes[u]
        /\ votes'[t].cast \in Nat /\ votes'[t].cast >= votes[t].cast /\ (votes[t].blind => votes'[t].blind)
        /\ Counted(task[t], votes'[t], Tallies(t))
    BY <1>2, PressCounts
  <1>4. task[t].pc # "idle"
    BY <1>1 DEF Unposted
  <1>5. /\ BotRequest(rows[t], task[t], mem[t], posted[t], votes'[t], now)
        /\ Upholds(rows[t], task[t], mem[t], votes[t], rows[t], task[t], mem[t], votes'[t])
    <2>1. /\ BotRequest(rows[t], task[t], mem[t], posted[t], votes[t], now)
          /\ task[t].needs \in Nat /\ votes[t].cast \in Nat
      BY BotFacts
    <2> QED BY <1>3, <1>4, <2>1, VotesGrow
  <1>6. Tallies(t)' = Tallies(t)
    BY <1>2 DEF Tallies
  <1>7. OnlyTouched(t) /\ OnlyHandlersOf(t)
    BY <1>2, <1>3 DEF OnlyTouched, OnlyHandlersOf
  <1>8. /\ rows'[t] = rows[t] /\ task'[t] = task[t] /\ mem'[t] = mem[t] /\ posted'[t] = posted[t]
        /\ now' = now
    BY <1>2
  <1>9. UpheldOf(t)
    BY <1>5, <1>8 DEF UpheldOf
  <1> QED BY <1>3, <1>5, <1>6, <1>7, <1>8, <1>9, BotFrame

\* What people do through the bots.
LEMMA ActBot ==
    ASSUME TypeInv, FlowInv, BotInv, BotDeployment, NEW i \in Instances, NEW t \in Txns, Act(i, t)
    PROVE  BotInv'
  <1>1. /\ "dashboard" \notin Surfaces /\ "grant" \notin Surfaces /\ "passkey" \notin Surfaces
        /\ "app" \notin Surfaces
    BY DEF BotDeployment
  <1>2. \/ GrantReactionRefused(i, t)
        \/ \E m \in Members :
              \/ \E s \in {"approved", "denied"} : TelegramCallback(m, i, t, s) \/ MatrixReaction(m, i, t, s)
              \/ TelegramPartial(m, i, t) \/ MatrixPartial(m, i, t) \/ BotGrant(m, i, t)
    BY <1>1 DEF Act, DashboardResolve, ApproveWithGrant, ApprovalBegin, ApprovalFinish, ApprovalDeny,
                AppPasskeyBegin, AppPasskeyFinish, AppApprove, AppDeny, StartInApp
  <1>3. CASE GrantReactionRefused(i, t)
    <2>1. /\ posted[t] = "known" /\ posted' = [posted EXCEPT ![t] = "forgotten"]
          /\ UNCHANGED <<rows, now, task, mem, votes, ops>>
      BY <1>3 DEF GrantReactionRefused, store
    <2>2. posted'[t] = "forgotten" /\ \A u \in Txns : u # t => posted'[u] = posted[u]
      BY <2>1 DEF TypeInv, TypeOK
    <2>3. /\ BotRequest(rows[t], task[t], mem[t], posted[t], votes[t], now)
          /\ Counted(task[t], votes[t], Tallies(t))
      BY BotFacts
    <2>4. BotRequest(rows[t], task[t], mem[t], posted'[t], votes[t], now)
      <3>1. task[t].pc \notin Unposted
        BY <2>1, <2>3 DEF BotRequest, Fresh
      <3>2. Fresh(rows[t], task[t], mem[t], posted'[t], votes[t])
        BY <3>1 DEF Fresh, Unposted
      <3>3. Warranted(rows[t], task[t], mem[t], posted'[t], votes[t])
        BY <2>2, <2>3 DEF BotRequest, Warranted
      <3> QED BY <2>3, <3>2, <3>3 DEF BotRequest
    <2>5. Tallies(t)' = Tallies(t)
      BY <2>1 DEF Tallies
    <2>6. OnlyTouched(t) /\ OnlyHandlersOf(t)
      BY <2>1, <2>2 DEF OnlyTouched, OnlyHandlersOf
    <2>7. UpheldOf(t)
      BY <2>1 DEF UpheldOf, Upholds, Supported
    <2>8. rows'[t] = rows[t] /\ task'[t] = task[t] /\ mem'[t] = mem[t] /\ votes'[t] = votes[t] /\ now' = now
      BY <2>1
    <2> QED BY <2>3, <2>4, <2>5, <2>6, <2>7, <2>8, BotFrame
  <1>4. ASSUME NEW m \in Members, NEW s \in {"approved", "denied"},
               TelegramCallback(m, i, t, s) \/ MatrixReaction(m, i, t, s)
        PROVE  BotInv'
    <2>1. CASE s = "denied"
      BY <1>4, <2>1, DenialBot
    <2>2. CASE s = "approved" /\ TelegramCallback(m, i, t, s)
      BY <2>2, TelegramBot
    <2>3. CASE s = "approved" /\ MatrixReaction(m, i, t, s)
      BY <2>3, MappedReactionBot, UnmappedReactionBot
    <2> QED BY <1>4, <2>1, <2>2, <2>3
  <1>5. ASSUME NEW m \in Members, TelegramPartial(m, i, t) \/ MatrixPartial(m, i, t) \/ BotGrant(m, i, t)
        PROVE  BotInv'
    BY <1>5, PartialBot, BotGrantBot
  <1> QED BY <1>2, <1>3, <1>4, <1>5

\* What a handler has left after a step.
LEMMA TodoGoesOn ==
    ASSUME NEW S, NEW todo \in Seq(S) \ {<<>>}, NEW c, NEW s, BotTodo(c, s, todo), Len(todo) # 1
    PROVE  /\ BotTodo(c, s, Tail(todo))
           /\ Head(Tail(todo)).do # "tally"
           /\ Head(todo).do = "tally" => Head(Tail(todo)).do = "count"
           /\ c = "matrix" /\ Head(Tail(todo)).do = "signal" => Head(todo).do \in {"write", "claim"}
  <1>1. /\ Len(todo) \in Nat /\ Len(todo) >= 2 /\ Tail(todo) \in Seq(S) /\ Len(Tail(todo)) = Len(todo) - 1
        /\ Head(todo) = todo[1]
    <2>1. /\ Len(todo) \in Nat \ {0} /\ Tail(todo) \in Seq(S) /\ Len(Tail(todo)) = Len(todo) - 1
      OBVIOUS
    <2>2. Head(todo) = todo[1]
      OBVIOUS
    <2> QED BY <2>1, <2>2
  <1>2. \A j \in 1..Len(Tail(todo)) : Tail(todo)[j] = todo[j + 1]
    OBVIOUS
  <1>3. Head(Tail(todo)) = todo[2]
    BY <1>1, <1>2
  <1>4. 2 \in 1..Len(todo) /\ 2 - 1 = 1
    BY <1>1
  <1>5. /\ Head(Tail(todo)).do # "tally"
        /\ Head(todo).do = "tally" => Head(Tail(todo)).do = "count"
        /\ c = "matrix" /\ Head(Tail(todo)).do = "signal" => Head(todo).do \in {"write", "claim"}
    BY <1>1, <1>3, <1>4 DEF BotTodo
  <1>6. ASSUME NEW j \in 1..Len(Tail(todo))
        PROVE  /\ Tail(todo)[j].do \in {"write", "signal", "claim", "mint", "forget", "tally", "count"}
               /\ Tail(todo)[j].do \in {"write", "signal", "claim"} => Tail(todo)[j].status = s
               /\ Tail(todo)[j].do = "tally" => j = 1
               /\ j > 1 /\ Tail(todo)[j - 1].do = "tally" => Tail(todo)[j].do = "count"
               /\ j > 1 /\ Tail(todo)[j].do = "signal" /\ c = "matrix"
                     => Tail(todo)[j - 1].do \in {"write", "claim"}
    <2>1. j + 1 \in 1..Len(todo) /\ j + 1 > 1 /\ (j + 1) - 1 = j /\ j \in Nat
      BY <1>1
    <2>2. Tail(todo)[j] = todo[j + 1]
      BY <1>2
    <2>3. j > 1 => Tail(todo)[j - 1] = todo[j]
      BY <1>1, <1>2
    <2>4. /\ todo[j + 1].do \in {"write", "signal", "claim", "mint", "forget", "tally", "count"}
          /\ todo[j + 1].do \in {"write", "signal", "claim"} => todo[j + 1].status = s
          /\ todo[j + 1].do # "tally"
          /\ todo[j].do = "tally" => todo[j + 1].do = "count"
          /\ todo[j + 1].do = "signal" /\ c = "matrix" => todo[j].do \in {"write", "claim"}
      BY <2>1 DEF BotTodo
    <2> QED BY <2>2, <2>3, <2>4
  <1>7. BotTodo(c, s, Tail(todo))
    BY <1>6 DEF BotTodo
  <1> QED BY <1>5, <1>7

\* What the invariants say of a bot's handler.
LEMMA BotHandler ==
    ASSUME TypeInv, FlowInv, BotInv, NEW p \in Principals, Run(p)
    PROVE  LET t == ops[p].txn
               w == Head(ops[p].todo)
           IN  /\ t \in Txns /\ ops[p] # Idle /\ ops[p].inst \in Instances
               /\ ops[p].todo \in Seq(Steps(p)) \ {<<>>} /\ w \in Steps(p)
               /\ task[t].channel \in Bots /\ task[t].pc \notin Unposted
               /\ BotTodo(task[t].channel, ops[p].status, ops[p].todo)
               /\ task[t].pc \in Asking /\ ops[p].status = "approved" /\ w.do \notin {"tally", "count"}
                     => Supported(rows[t], task[t], mem[t], votes[t])
               /\ task[t].pc \in Asking /\ ops[p].status = "denied" /\ task[t].channel = "matrix"
                     /\ w.do = "signal" => rows[t].status \in Decisions
               /\ w.do \in {"write", "signal", "claim", "mint", "forget", "tally", "count"}
               /\ w.do \in {"write", "signal", "claim"} => w.status = ops[p].status
               /\ w.do \in {"write", "signal"} => w.status \in {"approved", "denied"}
               /\ w.do = "claim" => w.status = "approved"
  <1> DEFINE t == ops[p].txn
             w == Head(ops[p].todo)
  <1>1. ops[p].todo # <<>>
    BY RunIsProceed
  <1>2. ops[p] \in OpType(p) /\ t \in Txns /\ ops[p].inst \in Instances /\ w \in Steps(p)
    BY <1>1, RunFacts
  <1>3. ops[p] # Idle
    BY <1>1 DEF Idle
  <1>4. BotOp(ops[p], rows[t], task[t], mem[t], votes[t])
    BY <1>3 DEF BotInv, OpIsBot
  <1>5. ops[p].todo \in Seq(Steps(p)) \ {<<>>}
    BY <1>1, <1>2 DEF OpType
  <1>6. w = ops[p].todo[1] /\ 1 \in 1..Len(ops[p].todo)
    <2>1. \A S : \A x \in Seq(S) \ {<<>>} : Head(x) = x[1] /\ 1 \in 1..Len(x)
      OBVIOUS
    <2> QED BY <1>5, <2>1
  <1>7. BotTodo(task[t].channel, ops[p].status, ops[p].todo)
    BY <1>4 DEF BotOp
  <1>8. /\ w.do \in {"write", "signal", "claim", "mint", "forget", "tally", "count"}
        /\ w.do \in {"write", "signal", "claim"} => w.status = ops[p].status
    BY <1>6, <1>7 DEF BotTodo
  <1>9. /\ w.do \in {"write", "signal"} => w.status \in {"approved", "denied"}
        /\ w.do = "claim" => w.status = "approved"
    BY <1>2 DEF Steps, Lawful
  <1> QED BY <1>2, <1>3, <1>4, <1>5, <1>7, <1>8, <1>9 DEF BotOp

\* What a handler's record may become.
HandlerMoves(p) ==
    /\ \A b \in Principals : b # p => ops'[b] = ops[b]
    /\ \/ ops'[p] = Idle
       \/ /\ ops'[p].txn = ops[p].txn /\ ops'[p].status = ops[p].status
          /\ \/ ops'[p].todo = Tail(ops[p].todo) /\ Len(ops[p].todo) # 1
             \/ ops'[p].todo = <<Forget>>

\* A handler that goes on, gives up or ends.
LEMMA HandlerGoesOn ==
    ASSUME TypeInv, NEW p \in Principals, Run(p)
    PROVE  HandlerMoves(p)
  <1>0. ops[p].todo # <<>> /\ ops = [b \in Principals |-> ops[b]]
    BY RunIsProceed DEF TypeInv, OpsOK
  <1>1. ASSUME NEW hit \in BOOLEAN, Proceed(p, hit)
        PROVE  HandlerMoves(p)
    BY <1>0, <1>1, ProceedMoves DEF HandlerMoves
  <1>2. CASE Abort(p)
    <2>1. PICK q : /\ ops' = [ops EXCEPT ![p] = q]
                   /\ q = Idle \/ q = [ops[p] EXCEPT !.todo = <<Forget>>, !.ok = FALSE]
      BY <1>2 DEF Abort
    <2>2. ops[p] \in OpType(p)
      BY <1>0, RunFacts
    <2>3. q = Idle \/ (q.txn = ops[p].txn /\ q.status = ops[p].status /\ q.todo = <<Forget>>)
      <3> HIDE DEF Forget
      <3> QED BY <2>1, <2>2 DEF OpType
    <2>4. ops'[p] = q /\ \A b \in Principals : b # p => ops'[b] = ops[b]
      BY <1>0, <2>1
    <2> QED BY <2>3, <2>4 DEF HandlerMoves
  <1>3. CASE ops' = [ops EXCEPT ![p] = Idle]
    BY <1>0, <1>3 DEF HandlerMoves
  <1> QED BY <1>1, <1>2, <1>3, RunIsProceed

\* What is left to show of a step of a bot's handler.
LEMMA RunFrame ==
    ASSUME TypeInv, FlowInv, BotInv, NEW p \in Principals, Run(p), NEW t, t = ops[p].txn,
           OnlyTouched(t), now' = now, task' = task,
           BotRequest(rows'[t], task[t], mem'[t], posted'[t], votes'[t], now),
           Counted(task[t], votes'[t], Tallies(t) \ {p}),
           Upholds(rows[t], task[t], mem[t], votes[t], rows'[t], task[t], mem'[t], votes'[t]),
           task[t].pc \in Asking /\ ops[p].status = "approved" /\ Head(ops[p].todo).do = "count"
              /\ ops'[p] # Idle
              => Supported(rows'[t], task[t], mem'[t], votes'[t]),
           task[t].pc \in Asking /\ ops[p].status = "denied" /\ Head(ops[p].todo).do = "write"
              => rows'[t].status \in Decisions,
           Head(ops[p].todo).do = "tally"
              => ops'[p] = Idle \/ (ops'[p].todo = Tail(ops[p].todo) /\ Len(ops[p].todo) # 1)
    PROVE  BotInv'
  <1> DEFINE w == Head(ops[p].todo)
             k == task[t]
  <1>1. /\ t \in Txns /\ ops[p].todo \in Seq(Steps(p)) \ {<<>>}
        /\ k.channel \in Bots /\ k.pc \notin Unposted
        /\ BotTodo(k.channel, ops[p].status, ops[p].todo)
        /\ k.pc \in Asking /\ ops[p].status = "approved" /\ w.do \notin {"tally", "count"}
              => Supported(rows[t], k, mem[t], votes[t])
        /\ w.do = "claim" => ops[p].status = "approved"
    BY BotHandler
  <1>2. HandlerMoves(p)
    BY HandlerGoesOn
  <1>3. Idle.txn = NoOne /\ NoOne \notin Txns
    BY FlowAssumption DEF Idle
  <1>4. ASSUME Len(ops[p].todo) # 1
        PROVE  /\ BotTodo(k.channel, ops[p].status, Tail(ops[p].todo))
               /\ Head(Tail(ops[p].todo)).do # "tally"
               /\ w.do = "tally" => Head(Tail(ops[p].todo)).do = "count"
               /\ k.channel = "matrix" /\ Head(Tail(ops[p].todo)).do = "signal" => w.do \in {"write", "claim"}
    BY <1>1, <1>4, TodoGoesOn
  <1>5. BotTodo(k.channel, ops[p].status, <<Forget>>) /\ Head(<<Forget>>).do = "forget"
    <2>1. PICK f : f = Forget /\ f.do = "forget"
      BY BotStepFields
    <2>2. Len(<<f>>) = 1 /\ <<f>>[1] = f /\ Head(<<f>>) = f /\ \A j \in 1..1 : j = 1
      OBVIOUS
    <2>3. BotTodo(k.channel, ops[p].status, <<f>>)
      BY <2>1, <2>2 DEF BotTodo
    <2> QED BY <2>1, <2>2, <2>3
  <1>6. Supported(rows[t], k, mem[t], votes[t]) /\ k.pc \in Asking
           => Supported(rows'[t], k, mem'[t], votes'[t])
    BY DEF Upholds, Supported
  <1>7. ops'[p] # Idle => /\ ops'[p].txn = t /\ Head(ops'[p].todo).do # "tally"
                          /\ BotOp(ops'[p], rows'[t], k, mem'[t], votes'[t])
    <2> SUFFICES ASSUME ops'[p] # Idle
                 PROVE  /\ ops'[p].txn = t /\ Head(ops'[p].todo).do # "tally"
                        /\ BotOp(ops'[p], rows'[t], k, mem'[t], votes'[t])
      OBVIOUS
    <2>1. ops'[p].txn = t /\ ops'[p].status = ops[p].status
      BY <1>2 DEF HandlerMoves
    <2>2. BotTodo(k.channel, ops'[p].status, ops'[p].todo) /\ Head(ops'[p].todo).do # "tally"
      BY <1>2, <1>4, <1>5, <2>1 DEF HandlerMoves
    <2>3. ASSUME k.pc \in Asking, ops'[p].status = "approved", Head(ops'[p].todo).do \notin {"tally", "count"}
          PROVE  Supported(rows'[t], k, mem'[t], votes'[t])
      <3>1. CASE w.do = "count"
        BY <2>1, <2>3, <3>1
      <3>2. CASE w.do \notin {"tally", "count"}
        BY <1>1, <1>6, <2>1, <2>3, <3>2
      <3>3. CASE w.do = "tally"
        <4>1. Head(ops'[p].todo).do = "count"
          BY <1>4, <3>3
        <4> QED BY <2>3, <4>1
      <3> QED BY <3>1, <3>2, <3>3
    <2>4. ASSUME k.pc \in Asking, ops'[p].status = "denied", k.channel = "matrix",
                 Head(ops'[p].todo).do = "signal"
          PROVE  rows'[t].status \in Decisions
      <3>1. w.do \in {"write", "claim"}
        BY <1>2, <1>4, <1>5, <2>4 DEF HandlerMoves
      <3> QED BY <1>1, <2>1, <2>4, <3>1
    <2>5. BotOp(ops'[p], rows'[t], k, mem'[t], votes'[t])
      BY <1>1, <2>2, <2>3, <2>4 DEF BotOp
    <2> QED BY <2>1, <2>2, <2>5
  <1>8. Tallies(t)' = Tallies(t) \ {p}
    <2>1. p \notin Tallies(t)'
      BY <1>1, <1>3, <1>7 DEF Tallies
    <2>2. \A b \in Principals : b # p => (b \in Tallies(t)' <=> b \in Tallies(t))
      BY <1>2 DEF Tallies, HandlerMoves
    <2>3. Tallies(t)' \subseteq Principals /\ Tallies(t) \subseteq Principals
      BY DEF Tallies
    <2>4. PICK T, U : T = Tallies(t) /\ U = Tallies(t)'
      OBVIOUS
    <2>5. p \notin U /\ (\A b \in Principals : b # p => (b \in U <=> b \in T))
          /\ U \subseteq Principals /\ T \subseteq Principals
      BY <2>1, <2>2, <2>3, <2>4
    <2>6. U = T \ {p}
      BY Zenon, <2>5
    <2> QED BY <2>4, <2>6
  <1>9. OnlyHandlersOf(t)
    BY <1>2, <1>7 DEF OnlyHandlersOf, HandlerMoves
  <1>10. UpheldOf(t)
    BY DEF UpheldOf
  <1> QED BY <1>1, <1>8, <1>9, <1>10, BotFrame

\* A handler writes the row: with a decision, once, and an approval only when settled.
LEMMA RowStepBot ==
    ASSUME TypeInv, FlowInv, BotInv, NEW p \in Principals, Run(p), NEW t, t = ops[p].txn, NEW q,
           Wrote(t, q), UNCHANGED <<task, mem, posted, votes>>,
           Head(ops[p].todo).do \notin {"tally", "count"},
           \/ q = rows[t]
           \/ /\ rows[t].status \in {"absent", "pending", q.status} /\ q.status \in {"approved", "denied"}
              /\ q.expires = (IF rows[t].status = "absent" THEN now + PhantomTtl ELSE rows[t].expires)
              /\ q.status = "approved" /\ task[t].pc \in Asking => Settled(task[t], votes[t]),
           task[t].pc \in Asking /\ ops[p].status = "denied" /\ Head(ops[p].todo).do = "write"
              => q.status \in Decisions
    PROVE  BotInv'
  <1> DEFINE r == rows[t]
             k == task[t]
             m == mem[t]
             v == votes[t]
  <1>1. t \in Txns /\ k.pc \notin Unposted /\ k.channel \in Bots
    BY BotHandler
  <1>2. /\ r.expires \in Nat /\ now \in Nat /\ PhantomTtl \in Nat /\ k.needs \in Nat
        /\ v.cast \in Nat /\ v.row \in Nat /\ v.home \in Nat
        /\ BotRequest(r, k, m, posted[t], v, now) /\ Counted(k, v, Tallies(t))
    BY <1>1, BotFacts
  <1>3. rows'[t] = q /\ now' = now /\ OnlyTouched(t)
    <2>1. rows \in [Txns -> Row]
      BY RowsTyped
    <2> QED BY <1>1, <2>1 DEF Wrote, OnlyTouched
  <1>4. r.status \in Decisions => q.status = r.status
    BY DEF Decisions
  <1>5. Fresh(q, k, m, posted[t], v)
    BY <1>1 DEF Fresh, Unposted
  <1>6. Lasting(q, k, now)
    <2>1. Lasting(r, k, now)
      BY <1>2 DEF BotRequest
    <2>2. CASE q = r
      BY <2>1, <2>2
    <2>3. CASE q # r
      <3>1. q.status # "absent"
        BY <2>3
      <3>2. r.status = "absent" => q.expires >= now
        BY <1>2, <2>3
      <3>3. r.status # "absent" => q.expires = r.expires
        BY <2>3
      <3> QED BY <2>1, <3>1, <3>2, <3>3 DEF Lasting
    <2> QED BY <2>2, <2>3
  <1>7. Overruled(r, k, m) => Overruled(q, k, m)
    BY <1>4 DEF Overruled, Decisions
  <1>8. Warranted(q, k, m, posted[t], v)
    <2>1. Warranted(r, k, m, posted[t], v)
      BY <1>2 DEF BotRequest
    <2>2. k.pc \in Asking /\ q.status = "approved" => Settled(k, v)
      BY <2>1 DEF Warranted
    <2> QED BY <1>7, <2>1, <2>2 DEF Warranted, Supported
  <1>9. Upholds(r, k, m, v, q, k, m, v)
    BY <1>4, <1>7 DEF Upholds, Supported
  <1>10. Counted(k, v, Tallies(t) \ {p})
    BY <1>2, CountsShrink
  <1>11. mem'[t] = m /\ posted'[t] = posted[t] /\ votes'[t] = v /\ task' = task
    OBVIOUS
  <1>12. BotRequest(q, k, m, posted[t], v, now)
    BY <1>5, <1>6, <1>8 DEF BotRequest
  <1> HIDE DEF r, k, m, v
  <1>13. /\ BotRequest(rows'[t], task[t], mem'[t], posted'[t], votes'[t], now)
         /\ Counted(task[t], votes'[t], Tallies(t) \ {p})
         /\ Upholds(rows[t], task[t], mem[t], votes[t], rows'[t], task[t], mem'[t], votes'[t])
    BY <1>3, <1>9, <1>10, <1>11, <1>12 DEF r, k, m, v
  <1>14. task[t].pc \in Asking /\ ops[p].status = "approved" /\ Head(ops[p].todo).do = "count"
            /\ ops'[p] # Idle
            => Supported(rows'[t], task[t], mem'[t], votes'[t])
    OBVIOUS
  <1>15. task[t].pc \in Asking /\ ops[p].status = "denied" /\ Head(ops[p].todo).do = "write"
            => rows'[t].status \in Decisions
    BY <1>3
  <1>16. Head(ops[p].todo).do = "tally"
            => ops'[p] = Idle \/ (ops'[p].todo = Tail(ops[p].todo) /\ Len(ops[p].todo) # 1)
    OBVIOUS
  <1>17. task' = task
    OBVIOUS
  <1> QED BY Zenon, <1>3, <1>13, <1>14, <1>15, <1>16, <1>17, RunFrame

\* A handler resolves the row.
LEMMA RunWriteBot ==
    ASSUME TypeInv, FlowInv, BotInv, NEW p \in Principals, RunWrite(p)
    PROVE  BotInv'
  <1> DEFINE t == ops[p].txn
             w == Head(ops[p].todo)
  <1>0. Run(p)
    BY DEF Run
  <1>1. w.do = "write" /\ Store!ResolvePendingApproval(t, w.status, w.by)
        /\ UNCHANGED <<task, mem, posted, votes>>
    BY DEF RunWrite, Running
  <1>2. /\ t \in Txns /\ w.status = ops[p].status /\ w.status \in {"approved", "denied"}
        /\ task[t].pc \in Asking /\ ops[p].status = "approved"
              => Supported(rows[t], task[t], mem[t], votes[t])
    BY <1>0, <1>1, BotHandler
  <1>3. PICK q : q = ResolvedRow(rows[t], w.status, w.by, now) /\ Wrote(t, q)
    BY <1>1, <1>2, StatementEffects
  <1>4. rows[t] \in Row /\ now \in Nat /\ rows[t].status \in Statuses
    BY <1>2, RowsTyped DEF Row
  <1>5. /\ ~ ResolveHits(rows[t], w.status) => q = rows[t]
        /\ ResolveHits(rows[t], w.status) =>
             /\ q.status = w.status
             /\ q.expires = (IF rows[t].status = "absent" THEN now + PhantomTtl ELSE rows[t].expires)
    BY <1>3, <1>4, RowEffects
  <1>6. CASE ResolveHits(rows[t], w.status)
    <2>1. rows[t].status \in {"absent", "pending", w.status}
      BY <1>6 DEF ResolveHits
    <2>2. w.status = "approved" /\ task[t].pc \in Asking => Settled(task[t], votes[t])
      BY <1>2, <2>1 DEF Supported, Overruled
    <2>3. q.status \in Decisions
      BY <1>2, <1>5, <1>6 DEF Decisions
    <2> HIDE DEF t, w
    <2> QED BY <1>0, <1>1, <1>2, <1>3, <1>5, <1>6, <2>1, <2>2, <2>3, RowStepBot DEF t, w
  <1>7. CASE ~ ResolveHits(rows[t], w.status)
    <2>1. ops[p].status = "denied" => q.status \in Decisions
      BY <1>2, <1>4, <1>5, <1>7 DEF ResolveHits, Statuses, Decisions
    <2> QED BY <1>0, <1>1, <1>3, <1>5, <1>7, <2>1, RowStepBot
  <1> QED BY <1>6, <1>7

\* A handler claims the row for a grant.
LEMMA RunClaimBot ==
    ASSUME TypeInv, FlowInv, BotInv, NEW p \in Principals, RunClaim(p)
    PROVE  BotInv'
  <1> DEFINE t == ops[p].txn
             w == Head(ops[p].todo)
  <1>0. Run(p)
    BY DEF Run
  <1>1. w.do = "claim" /\ Store!ClaimPendingApprovalForGrant(t, w.by)
        /\ UNCHANGED <<task, mem, posted, votes>>
    BY DEF RunClaim, Running
  <1>2. /\ t \in Txns /\ ops[p].status = "approved"
        /\ task[t].pc \in Asking => Supported(rows[t], task[t], mem[t], votes[t])
    BY <1>0, <1>1, BotHandler
  <1>3. PICK q : q = ClaimedRow(rows[t], w.by) /\ Wrote(t, q)
    BY <1>1, <1>2, StatementEffects
  <1>4. rows[t] \in Row /\ now \in Nat
    BY <1>2, RowsTyped
  <1>5. /\ ~ ClaimHits(rows[t]) => q = rows[t]
        /\ ClaimHits(rows[t]) => q.status = "approved" /\ q.expires = rows[t].expires
    BY <1>3, <1>4, RowEffects
  <1>6. CASE ClaimHits(rows[t])
    <2>1. rows[t].status = "pending"
      BY <1>6 DEF ClaimHits
    <2>2. task[t].pc \in Asking => Settled(task[t], votes[t])
      BY <1>2, <2>1 DEF Supported, Overruled
    <2> QED BY <1>0, <1>1, <1>2, <1>3, <1>5, <1>6, <2>1, <2>2, RowStepBot
  <1>7. CASE ~ ClaimHits(rows[t])
    BY <1>0, <1>1, <1>2, <1>3, <1>5, <1>7, RowStepBot
  <1> QED BY <1>6, <1>7

\* A step of a handler that leaves the row and the votes alone.
LEMMA WakeStepBot ==
    ASSUME TypeInv, FlowInv, BotInv, NEW p \in Principals, Run(p), NEW t, t = ops[p].txn, NEW m2, NEW q2,
           mem' = [mem EXCEPT ![t] = m2], posted' = [posted EXCEPT ![t] = q2],
           UNCHANGED <<rows, now, task, votes>>,
           Head(ops[p].todo).do \notin {"tally", "count", "write"},
           q2 \in {posted[t], "forgotten"},
           \/ m2 = mem[t]
           \/ /\ mem[t] = "open" /\ m2 \in {"approved", "denied"}
              /\ task[t].pc \in Asking /\ m2 = "approved" => Settled(task[t], votes[t])
              /\ task[t].pc \in Asking /\ m2 = "denied" /\ task[t].channel = "matrix"
                    => rows[t].status \in Decisions
    PROVE  BotInv'
  <1> DEFINE r == rows[t]
             k == task[t]
             m == mem[t]
             v == votes[t]
  <1>1. t \in Txns /\ k.pc \notin Unposted /\ k.channel \in Bots
    BY BotHandler
  <1>2. /\ k.needs \in Nat /\ v.cast \in Nat /\ v.row \in Nat /\ v.home \in Nat
        /\ BotRequest(r, k, m, posted[t], v, now) /\ Counted(k, v, Tallies(t))
    BY <1>1, BotFacts
  <1>3. mem'[t] = m2 /\ posted'[t] = q2 /\ rows'[t] = r /\ votes'[t] = v /\ now' = now /\ task' = task
        /\ OnlyTouched(t)
    <2>1. /\ mem \in [Txns -> {"none", "open", "approved", "denied"}]
          /\ posted \in [Txns -> {"no", "known", "forgotten"}]
      BY DEF TypeInv, TypeOK
    <2> QED BY <1>1, <2>1 DEF OnlyTouched
  <1>4. Fresh(r, k, m2, q2, v)
    BY <1>1 DEF Fresh, Unposted
  <1>5. Warranted(r, k, m2, q2, v)
    <2>1. Warranted(r, k, m, posted[t], v)
      BY <1>2 DEF BotRequest
    <2>2. CASE m2 = m
      BY <2>1, <2>2 DEF Warranted
    <2>3. CASE m2 # m
      <3>1. k.pc \in Asking /\ m2 = "denied" /\ k.channel = "matrix" => Supported(r, k, m2, v)
        BY <2>1, <2>3 DEF Warranted, Supported, Overruled, Decisions
      <3> QED BY <2>1, <2>3, <3>1 DEF Warranted
    <2> QED BY <2>2, <2>3
  <1>6. BotRequest(r, k, m2, q2, v, now)
    BY <1>2, <1>4, <1>5 DEF BotRequest
  <1>7. Upholds(r, k, m, v, r, k, m2, v)
    BY DEF Upholds, Supported, Overruled
  <1>8. Counted(k, v, Tallies(t) \ {p})
    BY <1>2, CountsShrink
  <1> HIDE DEF r, k, m, v
  <1>9. /\ BotRequest(rows'[t], task[t], mem'[t], posted'[t], votes'[t], now)
        /\ Counted(task[t], votes'[t], Tallies(t) \ {p})
        /\ Upholds(rows[t], task[t], mem[t], votes[t], rows'[t], task[t], mem'[t], votes'[t])
    BY <1>3, <1>6, <1>7, <1>8 DEF r, k, m, v
  <1>10. task[t].pc \in Asking /\ ops[p].status = "approved" /\ Head(ops[p].todo).do = "count"
            /\ ops'[p] # Idle
            => Supported(rows'[t], task[t], mem'[t], votes'[t])
    OBVIOUS
  <1>11. task[t].pc \in Asking /\ ops[p].status = "denied" /\ Head(ops[p].todo).do = "write"
            => rows'[t].status \in Decisions
    OBVIOUS
  <1>12. Head(ops[p].todo).do = "tally"
            => ops'[p] = Idle \/ (ops'[p].todo = Tail(ops[p].todo) /\ Len(ops[p].todo) # 1)
    OBVIOUS
  <1> QED BY Zenon, <1>3, <1>9, <1>10, <1>11, <1>12, RunFrame

\* A handler wakes the waiting task, creates the grant or forgets the message.
LEMMA RunWakeBot ==
    ASSUME TypeInv, FlowInv, BotInv, NEW p \in Principals, RunSignal(p) \/ RunMint(p) \/ RunForget(p)
    PROVE  BotInv'
  <1> DEFINE t == ops[p].txn
             w == Head(ops[p].todo)
  <1>0. Run(p)
    BY DEF Run
  <1>1. t \in Txns
    BY <1>0, BotHandler
  <1>2. /\ mem = [mem EXCEPT ![t] = mem[t]] /\ posted = [posted EXCEPT ![t] = posted[t]]
    <2>1. /\ mem \in [Txns -> {"none", "open", "approved", "denied"}]
          /\ posted \in [Txns -> {"no", "known", "forgotten"}]
      BY DEF TypeInv, TypeOK
    <2> QED BY <1>1, <2>1
  <1>3. CASE RunSignal(p)
    <2> DEFINE hit == w.channel = task[t].channel /\ ops[p].inst = task[t].home /\ mem[t] = "open"
    <2>1. /\ w.do = "signal" /\ UNCHANGED <<rows, now, task, votes, posted>>
          /\ mem' = [mem EXCEPT ![t] = IF hit THEN w.status ELSE mem[t]]
      BY <1>1, <1>3 DEF RunSignal, Running, store
    <2>2. /\ w.status = ops[p].status /\ w.status \in {"approved", "denied"}
          /\ task[t].pc \in Asking /\ ops[p].status = "approved"
                => Supported(rows[t], task[t], mem[t], votes[t])
          /\ task[t].pc \in Asking /\ ops[p].status = "denied" /\ task[t].channel = "matrix"
                => rows[t].status \in Decisions
      BY <1>0, <2>1, BotHandler
    <2>3. PICK m2 : m2 = IF hit THEN w.status ELSE mem[t]
      OBVIOUS
    <2>4. \/ m2 = mem[t]
          \/ /\ mem[t] = "open" /\ m2 \in {"approved", "denied"}
             /\ task[t].pc \in Asking /\ m2 = "approved" => Settled(task[t], votes[t])
             /\ task[t].pc \in Asking /\ m2 = "denied" /\ task[t].channel = "matrix"
                   => rows[t].status \in Decisions
      BY <2>2, <2>3 DEF Supported, Overruled
    <2>5. PICK q2 : q2 = posted[t]
      OBVIOUS
    <2>6. mem' = [mem EXCEPT ![t] = m2] /\ posted' = [posted EXCEPT ![t] = q2]
          /\ q2 \in {posted[t], "forgotten"}
      BY <1>2, <2>1, <2>3, <2>5
    <2>7. w.do \notin {"tally", "count", "write"} /\ UNCHANGED <<rows, now, task, votes>>
      BY <2>1
    <2> HIDE DEF hit
    <2> QED BY Zenon, <1>0, <2>4, <2>6, <2>7, WakeStepBot
  <1>4. CASE RunMint(p)
    <2>1. w.do = "mint" /\ UNCHANGED <<rows, now, task, votes, posted, mem>>
      BY <1>4 DEF RunMint, Running, store
    <2>2. PICK m2, q2 : m2 = mem[t] /\ q2 = posted[t]
      OBVIOUS
    <2>3. mem' = [mem EXCEPT ![t] = m2] /\ posted' = [posted EXCEPT ![t] = q2]
          /\ q2 \in {posted[t], "forgotten"}
      BY <1>2, <2>1, <2>2
    <2>4. w.do \notin {"tally", "count", "write"} /\ UNCHANGED <<rows, now, task, votes>>
      BY <2>1
    <2> QED BY Zenon, <1>0, <2>2, <2>3, <2>4, WakeStepBot
  <1>5. CASE RunForget(p)
    <2>1. PICK q2 : q2 = IF ops[p].inst = task[t].home THEN "forgotten" ELSE posted[t]
      OBVIOUS
    <2>2. /\ w.do = "forget" /\ UNCHANGED <<rows, now, task, votes, mem>>
          /\ posted' = [posted EXCEPT ![t] = q2]
      BY <1>1, <1>5, <2>1 DEF RunForget, Running, store
    <2>3. mem' = [mem EXCEPT ![t] = mem[t]] /\ q2 \in {posted[t], "forgotten"}
      BY <1>2, <2>1, <2>2
    <2> QED BY <1>0, <2>2, <2>3, WakeStepBot
  <1> QED BY <1>3, <1>4, <1>5

\* A handler counts a reaction in the row, or reads the count.
LEMMA CountStepBot ==
    ASSUME TypeInv, FlowInv, BotInv, NEW p \in Principals, Run(p), NEW t, t = ops[p].txn, NEW v2,
           votes' = [votes EXCEPT ![t] = v2], UNCHANGED <<rows, now, task, mem, posted>>,
           v2.cast = votes[t].cast, votes[t].blind => v2.blind,
           Counted(task[t], v2, Tallies(t) \ {p}),
           Head(ops[p].todo).do # "write",
           task[t].pc \in Asking /\ Head(ops[p].todo).do = "count" /\ ops'[p] # Idle
              => Settled(task[t], v2),
           Head(ops[p].todo).do = "tally"
              => ops'[p] = Idle \/ (ops'[p].todo = Tail(ops[p].todo) /\ Len(ops[p].todo) # 1)
    PROVE  BotInv'
  <1>1. t \in Txns /\ task[t].pc \notin Unposted
    BY BotHandler
  <1>2. /\ task[t].needs \in Nat /\ votes[t].cast \in Nat /\ task[t].pc # "idle"
        /\ BotRequest(rows[t], task[t], mem[t], posted[t], votes[t], now)
    BY <1>1, BotFacts DEF Unposted
  <1>3. votes'[t] = v2 /\ rows'[t] = rows[t] /\ mem'[t] = mem[t] /\ posted'[t] = posted[t] /\ now' = now
        /\ task' = task /\ OnlyTouched(t)
    <2>1. votes \in [Txns -> VotesType]
      BY DEF TypeInv, TypeOK
    <2> QED BY <1>1, <2>1 DEF OnlyTouched
  <1>4. /\ BotRequest(rows[t], task[t], mem[t], posted[t], v2, now)
        /\ Upholds(rows[t], task[t], mem[t], votes[t], rows[t], task[t], mem[t], v2)
    <2>1. v2.cast \in Nat /\ v2.cast >= votes[t].cast
      BY <1>2
    <2> QED BY <1>2, <2>1, VotesGrow
  <1>5. /\ BotRequest(rows'[t], task[t], mem'[t], posted'[t], votes'[t], now)
        /\ Counted(task[t], votes'[t], Tallies(t) \ {p})
        /\ Upholds(rows[t], task[t], mem[t], votes[t], rows'[t], task[t], mem'[t], votes'[t])
    BY <1>3, <1>4
  <1>6. task[t].pc \in Asking /\ ops[p].status = "approved" /\ Head(ops[p].todo).do = "count"
           /\ ops'[p] # Idle
           => Supported(rows'[t], task[t], mem'[t], votes'[t])
    BY <1>3 DEF Supported
  <1>7. task[t].pc \in Asking /\ ops[p].status = "denied" /\ Head(ops[p].todo).do = "write"
           => rows'[t].status \in Decisions
    OBVIOUS
  <1> QED BY Zenon, <1>3, <1>5, <1>6, <1>7, RunFrame

\* A handler counts its reaction in the row.
LEMMA RunTallyBot ==
    ASSUME TypeInv, FlowInv, BotInv, NEW p \in Principals, RunTally(p)
    PROVE  BotInv'
  <1> DEFINE t == ops[p].txn
             v == votes[t]
             n == IF rows[t].status = "absent" THEN v.row ELSE OneMore(t, v.row)
  <1>0. Run(p)
    BY DEF Run
  <1>1. t \in Txns /\ ops[p].todo # <<>>
    BY <1>0, BotHandler, RunIsProceed
  <1>2. /\ Head(ops[p].todo).do = "tally" /\ Proceed(p, FALSE)
        /\ UNCHANGED <<rows, now, task, mem, posted>>
        /\ votes' = [votes EXCEPT ![t].row = n]
    BY <1>1 DEF RunTally, Running, store
  <1>3. v \in VotesType /\ v.cast \in Nat /\ v.home \in Nat /\ v.row \in Nat /\ task[t].needs \in Nat
        /\ Counted(task[t], v, Tallies(t))
    <2>1. v \in VotesType
      BY <1>1 DEF TypeInv, TypeOK
    <2> QED BY <1>1, <2>1, BotFacts
  <1>4. n \in {v.row, v.row + 1}
    BY <1>3 DEF OneMore
  <1> HIDE DEF n
  <1>5. PICK v2 : v2 = [v EXCEPT !.row = n]
    OBVIOUS
  <1>6. v2.cast = v.cast /\ v2.home = v.home /\ v2.blind = v.blind /\ v2.row = n
    BY <1>3, <1>5 DEF VotesType
  <1>7. votes' = [votes EXCEPT ![t] = v2]
    BY <1>2, <1>5
  <1>8. Counted(task[t], v2, Tallies(t) \ {p})
    <2>1. p \in Tallies(t)
      BY <1>1, <1>2 DEF Tallies
    <2>2. v2.row \in {v.row, v.row + 1}
      BY <1>4, <1>6
    <2> HIDE DEF t, v
    <2> QED BY <1>3, <1>6, <2>1, <2>2, CountsTally
  <1>9. ops'[p] = Idle \/ (ops'[p].todo = Tail(ops[p].todo) /\ Len(ops[p].todo) # 1)
    BY <1>1, <1>2, ProceedMoves
  <1>10. Head(ops[p].todo).do # "write" /\ Head(ops[p].todo).do # "count"
    BY <1>2
  <1>11. v2.cast = votes[t].cast /\ (votes[t].blind => v2.blind)
    BY <1>6
  <1>12. UNCHANGED <<rows, now, task, mem, posted>>
    BY <1>2
  <1> HIDE DEF v
  <1> QED BY Zenon, <1>0, <1>7, <1>8, <1>9, <1>10, <1>11, <1>12, CountStepBot

\* A handler reads the count: it goes on when there are enough, or blindly.
LEMMA RunCountBot ==
    ASSUME TypeInv, FlowInv, BotInv, NEW p \in Principals, RunCount(p)
    PROVE  BotInv'
  <1> DEFINE t == ops[p].txn
             v == votes[t]
  <1>0. Run(p)
    BY DEF Run
  <1>1. t \in Txns /\ ops[p].todo # <<>> /\ ops = [b \in Principals |-> ops[b]]
    BY <1>0, BotHandler, RunIsProceed DEF TypeInv, OpsOK
  <1>2. PICK fails \in {rows[t].status = "absent", TRUE} :
           /\ votes' = [votes EXCEPT ![t].blind = @ \/ fails]
           /\ IF fails \/ Enough(t, v.row) THEN Proceed(p, FALSE)
              ELSE ops' = [ops EXCEPT ![p] = Idle] /\ UNCHANGED hist
    BY DEF RunCount
  <1>3. Head(ops[p].todo).do = "count" /\ UNCHANGED <<rows, now, task, mem, posted>>
    BY DEF RunCount, Running, store
  <1>4. v \in VotesType /\ v.cast \in Nat /\ v.home \in Nat /\ v.row \in Nat /\ task[t].needs \in Nat
        /\ v.blind \in BOOLEAN /\ Counted(task[t], v, Tallies(t))
    <2>1. v \in VotesType
      BY <1>1 DEF TypeInv, TypeOK
    <2> QED BY <1>1, <2>1, BotFacts
  <1>5. PICK v2 : v2 = [v EXCEPT !.blind = v.blind \/ fails]
    OBVIOUS
  <1>6. v2.cast = v.cast /\ v2.home = v.home /\ v2.row = v.row /\ v2.blind = (v.blind \/ fails)
    <2>1. PICK b : b = (v.blind \/ fails)
      OBVIOUS
    <2>2. v2 = [v EXCEPT !.blind = b]
      BY <1>5, <2>1
    <2>3. v2.cast = v.cast /\ v2.home = v.home /\ v2.row = v.row /\ v2.blind = b
      BY <1>4, <2>2 DEF VotesType
    <2> QED BY <2>1, <2>3
  <1>7. votes' = [votes EXCEPT ![t] = v2]
    BY <1>2, <1>5
  <1>8. Counted(task[t], v2, Tallies(t) \ {p})
    <2>1. /\ v2.cast \in Nat /\ v2.home \in Nat /\ v2.row \in Nat
          /\ v2.cast >= v.cast /\ v2.row <= v.row /\ v2.home <= v.home
      BY <1>4, <1>6
    <2>2. Tallies(t) \ {p} \subseteq Tallies(t)
      OBVIOUS
    <2> HIDE DEF t, v
    <2> QED BY <1>4, <2>1, <2>2, CountsShrink
  <1>9. ops'[p] # Idle => Settled(task[t], v2)
    <2>1. ops'[p] # Idle => fails \/ Enough(t, v.row)
      BY <1>1, <1>2
    <2>2. CASE fails
      BY <1>6, <2>2 DEF Settled
    <2>3. CASE Enough(t, v.row)
      <3>1. Cardinality(Tallies(t)) \in Nat
        BY <1>4, FS_CardinalityType DEF Counted
      <3>2. v.cast >= task[t].needs
        BY <1>4, <2>3, <3>1 DEF Counted, Enough
      <3> QED BY <1>6, <3>2 DEF Settled
    <2> QED BY <2>1, <2>2, <2>3
  <1>10. v.blind => v2.blind
    BY <1>6
  <1>11. Head(ops[p].todo).do # "write" /\ Head(ops[p].todo).do # "tally"
    BY <1>3
  <1> QED BY <1>0, <1>3, <1>6, <1>7, <1>8, <1>9, <1>10, <1>11, CountStepBot

\* Every step of a bot's handler.
LEMMA RunBot ==
    ASSUME TypeInv, FlowInv, BotInv, NEW p \in Principals, Run(p)
    PROVE  BotInv'
  <1>1. Head(ops[p].todo).do \in {"write", "signal", "claim", "mint", "forget", "tally", "count"}
    BY BotHandler
  <1>2. ~ (RunUncache(p) \/ RunChallenge(p) \/ RunTake(p) \/ RunEndUser(p) \/ RunAnswer(p))
    BY <1>1 DEF RunUncache, RunChallenge, RunTake, RunEndUser, RunAnswer, Running
  <1> QED BY <1>2, RunWriteBot, RunClaimBot, RunWakeBot, RunTallyBot, RunCountBot DEF Run

\* Every step keeps the invariant of the bots.
LEMMA BotInvKept ==
    ASSUME TypeInv, FlowInv, BotInv, BotDeployment, [Next]_vars
    PROVE  BotInv'
  <1>1. CASE Next
    BY <1>1, ReceiveBot, HandleBot, WaitBot, ActBot, RunBot, CrashBot, CleanupBot, TickBot DEF Next
  <1>2. CASE UNCHANGED vars
    <2>1. UNCHANGED <<rows, now, task, mem, posted, votes, ops>>
      BY <1>2 DEF vars, store
    <2> QED BY <2>1 DEF BotInv, OpIsBot, Tallies
  <1> QED BY <1>1, <1>2

\* The inductive invariant of the bots.
LEMMA BotInvHolds == BotDeployment => (Spec => []BotInv)
  <1> SUFFICES ASSUME BotDeployment
               PROVE  Spec => []BotInv
    OBVIOUS
  <1>1. Init => BotInv
    <2> SUFFICES ASSUME Init
                 PROVE  BotInv
      OBVIOUS
    <2>1. \A p \in Principals : ops[p] = Idle
      BY DEF Init
    <2>2. ASSUME NEW t \in Txns
          PROVE  /\ rows[t].status = "absent" /\ ~ rows[t].message
                 /\ task[t].pc = "idle" /\ task[t].verdict = "none" /\ task[t].channel = "none"
                 /\ mem[t] = "none" /\ posted[t] = "no"
                 /\ votes[t] = [home |-> 0, row |-> 0, cast |-> 0, blind |-> FALSE]
      BY DEF Init, Store!Init, Store!AbsentRow
    <2>3. ASSUME NEW t \in Txns
          PROVE  BotRequest(rows[t], task[t], mem[t], posted[t], votes[t], now)
      <3>1. Fresh(rows[t], task[t], mem[t], posted[t], votes[t])
        BY <2>2 DEF Fresh
      <3>2. Lasting(rows[t], task[t], now) /\ Warranted(rows[t], task[t], mem[t], posted[t], votes[t])
        BY <2>2 DEF Lasting, Warranted
      <3> QED BY <3>1, <3>2 DEF BotRequest
    <2>4. ASSUME NEW t \in Txns
          PROVE  Counted(task[t], votes[t], Tallies(t))
      <3>1. Tallies(t) = {}
        BY <2>1 DEF Tallies, Idle
      <3>2. IsFiniteSet({}) /\ Cardinality({}) = 0
        BY FS_EmptySet
      <3>3. votes[t].home = 0 /\ votes[t].row = 0 /\ votes[t].cast = 0
        BY <2>2
      <3> QED BY <3>1, <3>2, <3>3 DEF Counted
    <2> QED BY <2>1, <2>3, <2>4 DEF BotInv, OpIsBot
  <1> QED BY <1>1, BotInvKept, FlowInvHolds, FlowTypes, PTL DEF Spec

\* A request that needs several approvals is forwarded only after that many
\* presses of a button or reaction, whichever instances count them and in
\* whichever order the handlers run, crash and retry, where people act through
\* the bots: unless an approval went through without being counted at all.
THEOREM ThresholdsAreMet == BotDeployment => (Spec => []ThresholdHolds)
  <1>1. BotInv => ThresholdHolds
    BY DEF BotInv, BotRequest, Warranted, Settled, ThresholdHolds
  <1> QED BY <1>1, BotInvHolds, PTL
=============================================================================
