---------------------------- MODULE ApprovalFlow ----------------------------
(***************************************************************************)
(* One gated request from POST /forward to its outcome, on several proxy   *)
(* instances that share the database.                                      *)
(*                                                                         *)
(* The proxy persists the request, hands it to an approval channel,        *)
(* answers 202 and leaves a background task behind: it waits for a         *)
(* decision, forwards or gives up, and stores what the agent will poll.    *)
(* Meanwhile people decide through the dashboard, a passkey ceremony, a    *)
(* Telegram button, a Matrix reaction or the end-user API.                 *)
(*                                                                         *)
(* Every access to the shared table is one statement of PendingApprovals   *)
(* (Store!...), and every statement is a step of its own: between two      *)
(* steps of a handler or of a task any other actor may run, and the        *)
(* process may crash.  A handler is the list of the steps it has to do.    *)
(***************************************************************************)
EXTENDS ApprovalRows, Sequences

CONSTANTS
    Txns,             \* transaction ids (one request each)
    Instances,        \* proxy processes
    Managers,         \* members whose role may open a grant
    Channels,         \* approval channels the team uses
    Thresholds,       \* values of min_approvals in the policies
    Surfaces,         \* where people act: "dashboard", "grant", "passkey", "bot", "app"
    WithWebAuthn,     \* WEBAUTHN_RP_ID and friends are set
    ApprovalTimeout,  \* TAP_APPROVAL_TIMEOUT_SECS
    PendingTtl,       \* approval timeout plus 600 s
    MaxTime           \* bound on the model's clock

Bots == {"telegram", "matrix"} \cap Channels

ASSUME FlowAssumption ==
    /\ Managers \subseteq Members
    /\ NoOne \notin Instances \cup Txns
    /\ Channels \subseteq {"dashboard", "agent_reflected", "telegram", "matrix"}
    /\ Surfaces \subseteq {"dashboard", "grant", "passkey", "bot", "app"}
    /\ Thresholds \subseteq Nat \ {0}
    /\ WithWebAuthn \in BOOLEAN
    /\ ApprovalTimeout \in Nat /\ PendingTtl \in Nat /\ MaxTime \in Nat
    /\ ApprovalTimeout < PendingTtl

VARIABLES
    rows, now, via, claims,   \* the table pending_approvals (PendingApprovals)
    async,      \* async[t]: the row of async_approvals the agent polls
    cache,      \* cache[i]: WebAuthnState::pending_details of instance i
    inflight,   \* inflight[i][t]: WebAuthnState::approval_challenges
    task,       \* task[t]: the request and its background task
    mem,        \* mem[t]: the oneshot of a bot channel, at the task's instance
    posted,     \* posted[t]: the bot message: "no", "known" to its instance, or "forgotten"
    votes,      \* votes[t]: the approvals counted so far, see VotesType
    ops,        \* ops[p]: the handler principal p has running
    hist        \* hist[t]: history, see HistType

store == <<rows, now, via, claims>>
vars  == <<store, async, cache, inflight, task, mem, posted, votes, ops, hist>>

Store == INSTANCE PendingApprovals WITH Ttls <- {ApprovalTimeout, PendingTtl}

Verdicts == {"none", "approved", "denied", "timeout", "error"}
TaskSteps == {"idle", "send", "deliver", "store", "queue", "waiting", "expire",
              "cleanup", "identify", "forward", "record", "done", "refused", "lost"}
AsyncStatuses == {"absent", "pending", "forwarded", "denied", "timed_out", "error"}

TaskType == [pc : TaskSteps, home : Instances \cup {NoOne},
             channel : Channels \cup {"agent_reflected", "none"},
             eu : EndUsers \cup {NoOne}, needs : Thresholds \cup {1},
             deadline : Nat, verdict : Verdicts, by : Principals \cup {NoOne}]

\* told: decisions that were confirmed to the person who took them before the
\* deadline.  asked: whose approval took effect, on the row or on the oneshot.
\* early: the row carried an approval when the end-user's reservation was stamped
\* on it.  purged: a reserved row was removed while its task waited.
\* audit: the status and approver of the audit entry.  stored: whether the outcome
\* reached the row the agent polls.  minted: a grant was created from the request.
HistType == [told : SUBSET Decisions, asked : SUBSET Principals, early : BOOLEAN,
             purged : BOOLEAN, audit : Verdicts, auditBy : Principals \cup {NoOne},
             stored : {"none", "yes", "missed"}, minted : BOOLEAN]

\* home: the count in the memory of the instance that posted the message.  row:
\* approval_count in the row.  cast: history, the approvals people gave to the
\* bot.  blind: history, one of them went through without being counted.  The
\* numbers stop at the threshold, beyond which nothing tells them apart.
VotesType == [home : Nat, row : Nat, cast : Nat, blind : BOOLEAN]

Idle == [inst |-> NoOne, txn |-> NoOne, status |-> "none", ok |-> FALSE, todo |-> <<>>]

TypeOK ==
    /\ Store!TypeOK
    /\ async \in [Txns -> [status : AsyncStatuses, expires : Nat]]
    /\ cache \in [Instances -> SUBSET Txns]
    /\ inflight \in [Instances -> [Txns -> Principals \cup {NoOne}]]
    /\ task \in [Txns -> TaskType]
    /\ mem \in [Txns -> {"none", "open", "approved", "denied"}]
    /\ posted \in [Txns -> {"no", "known", "forgotten"}]
    /\ votes \in [Txns -> VotesType]
    /\ \A p \in Principals :
         ops[p] = Idle \/ (ops[p].inst \in Instances /\ ops[p].txn \in Txns /\ ops[p].todo # <<>>)
    /\ hist \in [Txns -> HistType]

Init ==
    /\ Store!Init
    /\ async = [t \in Txns |-> [status |-> "absent", expires |-> 0]]
    /\ cache = [i \in Instances |-> {}]
    /\ inflight = [i \in Instances |-> [t \in Txns |-> NoOne]]
    /\ task = [t \in Txns |-> [pc |-> "idle", home |-> NoOne, channel |-> "none",
                               eu |-> NoOne, needs |-> 1, deadline |-> 0, verdict |-> "none",
                               by |-> NoOne]]
    /\ mem = [t \in Txns |-> "none"]
    /\ posted = [t \in Txns |-> "no"]
    /\ votes = [t \in Txns |-> [home |-> 0, row |-> 0, cast |-> 0, blind |-> FALSE]]
    /\ ops = [p \in Principals |-> Idle]
    /\ hist = [t \in Txns |-> [told |-> {}, asked |-> {}, early |-> FALSE,
                               purged |-> FALSE, audit |-> "none", auditBy |-> NoOne, stored |-> "none",
                               minted |-> FALSE]]

Goto(t, pc) == task' = [task EXCEPT ![t].pc = pc]
Conclude(t, verdict, pc) == task' = [task EXCEPT ![t].verdict = verdict, ![t].pc = pc]

(***************************************************************************)
(* The request handler (handle_forward, approval branch).                  *)
(***************************************************************************)

\* End-user requests are always sent to the agent-reflected channel: only the
\* end-user may decide, and no team approver is to be pinged.  (Faulty variant:
\* they go where the team's policy says.)
ChannelAsConfigured(c, eu) == c
ChannelFor(c, eu) == IF eu = NoOne THEN c ELSE "agent_reflected"

\* The request is admitted and needs approval: its channel is chosen and, with
\* WebAuthn configured, set_pending_details caches it and saves its row, not
\* reserved for anyone.  (Bound: early enough for the model's clock to see the
\* row expire.)
ReceiveForward(t, i, c, eu, n) ==
    /\ task[t].pc = "idle"
    /\ now + PendingTtl < MaxTime
    /\ task' = [task EXCEPT ![t].pc = "send", ![t].home = i, ![t].eu = eu,
                            ![t].channel = ChannelFor(c, eu), ![t].needs = n]
    /\ IF WithWebAuthn
       THEN /\ cache' = [cache EXCEPT ![i] = @ \cup {t}]
            /\ Store!SavePendingApproval(t, NoOne, PendingTtl)
       ELSE UNCHANGED <<cache, store>>
    /\ UNCHANGED <<async, inflight, mem, posted, votes, ops, hist>>

\* DashboardChannel and AgentReflectedChannel persist the row themselves, and
\* stamp the end-user the request is reserved for.
SelfPersistingSend(t, channel) ==
    /\ task[t].pc = "send" /\ task[t].channel = channel
    /\ Store!SavePendingApproval(t, task[t].eu, PendingTtl)
    /\ Goto(t, "queue")
    /\ hist' = [hist EXCEPT ![t].early = task[t].eu # NoOne /\ rows[t].status = "approved"]
    /\ UNCHANGED <<async, cache, inflight, mem, posted, votes, ops>>
SendDashboard(t) == SelfPersistingSend(t, "dashboard")
SendAgentReflected(t) == SelfPersistingSend(t, "agent_reflected")

\* TelegramChannel and MatrixChannel register the oneshot before anything is
\* posted, post the message, then store where it is.  (Faulty variant: nothing
\* is registered.)
RegisterNothing(t) ==
    /\ task[t].pc = "send" /\ task[t].channel \in Bots
    /\ Goto(t, "deliver")
    /\ UNCHANGED <<store, async, cache, inflight, mem, posted, votes, ops, hist>>
RegisterPending(t) ==
    /\ task[t].pc = "send" /\ task[t].channel \in Bots
    /\ mem' = [mem EXCEPT ![t] = "open"]
    /\ Goto(t, "deliver")
    /\ UNCHANGED <<store, async, cache, inflight, posted, votes, ops, hist>>

DeliverMessage(t) ==
    /\ task[t].pc = "deliver"
    /\ posted' = [posted EXCEPT ![t] = "known"]
    /\ Goto(t, "store")
    /\ UNCHANGED <<store, async, cache, inflight, mem, votes, ops, hist>>

StoreMessage(t) ==
    /\ task[t].pc = "store"
    /\ Store!SetPendingApprovalMessage(t)
    /\ Goto(t, "queue")
    /\ UNCHANGED <<async, cache, inflight, mem, posted, votes, ops, hist>>

\* The channel could not be reached: the agent gets a 500.  What was saved
\* before stays.
SendFails(t) ==
    /\ task[t].pc \in {"send", "deliver"}
    /\ Goto(t, "refused")
    /\ mem' = [mem EXCEPT ![t] = "none"]
    /\ UNCHANGED <<store, async, cache, inflight, posted, votes, ops, hist>>

\* Without WebAuthn a bot's row gets its details now.  Then the row the agent
\* polls is created, the task spawned, and the agent answered 202.
Queue(t) ==
    /\ task[t].pc = "queue"
    /\ IF ~ WithWebAuthn /\ task[t].channel \in Bots
       THEN Store!SavePendingApproval(t, NoOne, ApprovalTimeout)
       ELSE UNCHANGED store
    /\ async' = [async EXCEPT ![t] = [status |-> "pending", expires |-> now + ApprovalTimeout]]
    /\ task' = [task EXCEPT ![t].pc = "waiting", ![t].deadline = now + ApprovalTimeout]
    /\ UNCHANGED <<cache, inflight, mem, posted, votes, ops, hist>>

(***************************************************************************)
(* wait_for_decision.                                                      *)
(***************************************************************************)

Overdue(t) == now >= task[t].deadline

\* What a poll makes of the status column.  'pending' before the deadline
\* leaves the task waiting.  (Faulty variant: a denial is taken for consent.)
SeenInverted(status) ==
    CASE status \in {"approved", "denied"} -> "approved"
      [] status = "expired" -> "timeout"
      [] status = "absent"  -> "error"
      [] status = "pending" -> "none"
Seen(status) ==
    CASE status = "approved" -> "approved"
      [] status = "denied"   -> "denied"
      [] status = "expired"  -> "timeout"
      [] status = "absent"   -> "error"
      [] status = "pending"  -> "none"

AfterDecision(v) == IF v \in {"approved", "denied"} THEN "identify" ELSE "record"

\* DashboardChannel deletes the row as soon as it has read a decision.
PollDashboard(t) ==
    LET v == Seen(rows[t].status)
    IN  /\ task[t].pc = "waiting" /\ task[t].channel = "dashboard"
        /\ v # "none"
        /\ IF v \in {"approved", "denied"} THEN Store!DeletePendingApproval(t)
                                           ELSE UNCHANGED store
        /\ Conclude(t, v, AfterDecision(v))
        /\ UNCHANGED <<async, cache, inflight, mem, posted, votes, ops, hist>>

PollAgentReflected(t) ==
    LET v == Seen(rows[t].status)
    IN  /\ task[t].pc = "waiting" /\ task[t].channel = "agent_reflected"
        /\ v # "none"
        /\ Conclude(t, v, AfterDecision(v))
        /\ UNCHANGED <<store, async, cache, inflight, mem, posted, votes, ops, hist>>

\* A poll past the deadline still read 'pending': the row is to be claimed for
\* the timeout, which is a second statement; whether it hit is not looked at.
\* (Faulty variants: the deadline is forgotten; the claim has no WHERE.)
NeverGiveUp(t) == FALSE /\ UNCHANGED vars
GiveUp(t) ==
    /\ task[t].pc = "waiting" /\ task[t].channel \notin Bots
    /\ rows[t].status = "pending" /\ Overdue(t)
    /\ Goto(t, "expire")
    /\ UNCHANGED <<store, async, cache, inflight, mem, posted, votes, ops, hist>>

ExpireRowBlindly(t) ==
    /\ task[t].pc = "expire"
    /\ rows' = [rows EXCEPT ![t].status = "expired"]
    /\ Conclude(t, "error", "record")
    /\ UNCHANGED <<now, via, claims, async, cache, inflight, mem, posted, votes, ops, hist>>
ExpireRow(t) ==
    /\ task[t].pc = "expire"
    /\ Store!ResolvePendingApproval(t, "expired", NoOne)
    /\ Conclude(t, "error", "record")
    /\ UNCHANGED <<async, cache, inflight, mem, posted, votes, ops, hist>>

\* The bots' tasks select between the oneshot, a poll of the row and the
\* deadline; which of several ready branches runs is not determined.
ReceiveSignal(t) ==
    /\ task[t].pc = "waiting" /\ mem[t] \in {"approved", "denied"}
    /\ Conclude(t, mem[t], "identify")
    /\ mem' = [mem EXCEPT ![t] = "none"]
    /\ UNCHANGED <<store, async, cache, inflight, posted, votes, ops, hist>>

PollBot(t) ==
    LET v == Seen(rows[t].status)
    IN  /\ task[t].pc = "waiting" /\ task[t].channel \in Bots
        /\ v \in {"approved", "denied", "timeout"}
        /\ Conclude(t, v, "cleanup")
        /\ UNCHANGED <<store, async, cache, inflight, mem, posted, votes, ops, hist>>

TelegramDeadline(t) ==
    /\ task[t].pc = "waiting" /\ task[t].channel = "telegram" /\ Overdue(t)
    /\ Store!ResolvePendingApproval(t, "expired", NoOne)
    /\ Conclude(t, "error", "cleanup")
    /\ UNCHANGED <<async, cache, inflight, mem, posted, votes, ops, hist>>

\* MatrixChannel does not touch the row.
MatrixDeadline(t) ==
    /\ task[t].pc = "waiting" /\ task[t].channel = "matrix" /\ Overdue(t)
    /\ Conclude(t, "error", "cleanup")
    /\ UNCHANGED <<store, async, cache, inflight, mem, posted, votes, ops, hist>>

CleanupPendingRequest(t) ==
    /\ task[t].pc = "cleanup"
    /\ mem' = [mem EXCEPT ![t] = "none"]
    /\ Goto(t, AfterDecision(task[t].verdict))
    /\ UNCHANGED <<store, async, cache, inflight, posted, votes, ops, hist>>

(***************************************************************************)
(* run_unified_async_approval after the wait.                              *)
(***************************************************************************)

\* Who decided is read from the row, for the audit entry.
Identify(t) ==
    /\ task[t].pc = "identify"
    /\ task' = [task EXCEPT ![t].by = rows[t].by,
                            ![t].pc = IF task[t].verdict = "approved" THEN "forward" ELSE "record"]
    /\ UNCHANGED <<store, async, cache, inflight, mem, posted, votes, ops, hist>>

\* resolve_async_approval updates the row if it is still there; the audit entry
\* is written either way.
Finish(t, status) ==
    /\ async' = [async EXCEPT ![t].status = IF @ = "absent" THEN @ ELSE status]
    /\ hist' = [hist EXCEPT ![t].audit = task[t].verdict, ![t].auditBy = task[t].by,
                            ![t].stored = IF async[t].status = "absent" THEN "missed" ELSE "yes"]
    /\ Goto(t, "done")
    /\ UNCHANGED <<store, cache, inflight, mem, posted, votes, ops>>

\* The upstream call (and the token refresh or signing before it) works or fails.
Forward(t) ==
    /\ task[t].pc = "forward"
    /\ \E s \in {"forwarded", "error"} : Finish(t, s)

\* (Faulty variant: the pending row's word is used for the agent's row.)
OutcomeStatusMisspelt(v) == IF v = "denied" THEN "denied" ELSE "expired"
OutcomeStatus(v) == CASE v = "denied"  -> "denied"
                      [] v = "timeout" -> "timed_out"
                      [] v = "error"   -> "error"

Record(t) ==
    /\ task[t].pc = "record"
    /\ Finish(t, OutcomeStatus(task[t].verdict))

(***************************************************************************)
(* Handlers: what each surface does, as a list of steps.  A step that      *)
(* `answers` makes the handler report success when it hits.                *)
(***************************************************************************)

Step(do, status, by) ==
    [do |-> do, status |-> status, by |-> by, channel |-> "none", answers |-> TRUE]
Write(status, by)   == Step("write", status, by)
Claim(by)           == Step("claim", "approved", by)
Signal(bot, status) == [Step("signal", status, NoOne) EXCEPT !.channel = bot]
Uncache             == [Step("uncache", "none", NoOne) EXCEPT !.answers = FALSE]
Mint                == [Step("mint", "none", NoOne) EXCEPT !.answers = FALSE]
Forget              == [Step("forget", "none", NoOne) EXCEPT !.answers = FALSE]
Tally               == [Step("tally", "none", NoOne) EXCEPT !.answers = FALSE]
Count               == [Step("count", "none", NoOne) EXCEPT !.answers = FALSE]
Answer              == Step("answer", "none", NoOne)   \* success is reported regardless
Silent(plan)        == [k \in DOMAIN plan |-> [plan[k] EXCEPT !.answers = FALSE]]
Only(bot, plan)     == IF bot \in Bots THEN plan ELSE <<>>

\* TelegramChannel::resolve_approval_as unblocks the waiter, then writes.
TelegramResolve(status, by) == <<Signal("telegram", status), Write(status, by)>>

\* MatrixChannel::resolve_approval_as writes, then unblocks the waiter,
\* whatever the write did.
MatrixResolve(status, by) == <<Write(status, by), Signal("matrix", status)>>

\* WebAuthnState::resolve_approval_as.  (Faulty variant: the approver is not
\* passed on.)
WebAuthnResolveUnnamed(status, by) == <<Uncache, Write(status, NoOne)>>
WebAuthnResolve(status, by) == <<Uncache, Write(status, by)>>

\* The bots configured beside the dashboard are told too, whether or not they
\* carried the request.
Bridge(status, matrixBy) ==
    Only("telegram", TelegramResolve(status, NoOne)) \o
    Only("matrix", MatrixResolve(status, matrixBy))

\* resolve_and_bridge: the bridge runs even when the row was already decided.
DashboardPlan(status, m) ==
    WebAuthnResolve(status, m) \o
    Silent(Bridge(status, IF status = "approved" THEN m ELSE NoOne))

\* claim_and_bridge_for_grant, then create_approval_grant.
GrantPlan(m) ==
    <<Uncache, Claim(m)>> \o Silent(Bridge("approved", m)) \o <<Mint>>

\* The grant button and the grant reaction.
BotGrantPlan(bot, m) ==
    <<Claim(m), Signal(bot, "approved"), Mint>> \o (IF bot = "matrix" THEN <<Forget>> ELSE <<>>)

\* handle_approval_finish: the bots first, the named write last.
PasskeyPlan(m) ==
    <<Step("take", "none", m)>> \o Bridge("approved", m) \o WebAuthnResolve("approved", m)

\* handle_approval_deny: nobody is named.
PasskeyDenyPlan == Bridge("denied", NoOne) \o WebAuthnResolve("denied", NoOne) \o <<Answer>>

EndUserWrite(e) == <<Uncache, Step("enduser", "approved", e)>>

\* load_pending_details: the instance's copy, which has no expiry, before the row.
Loadable(i, t) == t \in cache[i] \/ (Actionable(rows[t], now) /\ rows[t].details)

Start(p, i, t, status, plan) ==
    /\ ops[p] = Idle
    /\ ops' = [ops EXCEPT ![p] = [inst |-> i, txn |-> t, status |-> status,
                                  ok |-> FALSE, todo |-> plan]]
    /\ UNCHANGED <<store, async, inflight, task, mem, posted, hist>>

\* Session-authenticated handlers of the approval pages load the details first.
StartOnPage(m, i, t, status, plan) ==
    /\ WithWebAuthn /\ Loadable(i, t)
    /\ cache' = [cache EXCEPT ![i] = @ \cup {t}]
    /\ Start(m, i, t, status, plan)
    /\ UNCHANGED votes

DashboardResolve(m, i, t, status) ==
    "dashboard" \in Surfaces /\ StartOnPage(m, i, t, status, DashboardPlan(status, m))

ApproveWithGrant(m, i, t) ==
    /\ "grant" \in Surfaces /\ m \in Managers /\ task[t].eu = NoOne
    /\ StartOnPage(m, i, t, "approved", GrantPlan(m))

ApprovalBegin(m, i, t) ==
    /\ "passkey" \in Surfaces
    /\ StartOnPage(m, i, t, "none", <<Step("challenge", "none", m)>>)

ApprovalFinish(m, i, t) ==
    "passkey" \in Surfaces /\ StartOnPage(m, i, t, "approved", PasskeyPlan(m))

ApprovalDeny(m, i, t) ==
    "passkey" \in Surfaces /\ StartOnPage(m, i, t, "denied", PasskeyDenyPlan)

\* A threshold above one (min_approvals).  (Faulty variant: one vote short.)
AlmostEnough(t, n) == n + 1 >= task[t].needs
Enough(t, n) == n >= task[t].needs

OneMore(t, n) == IF n < task[t].needs THEN n + 1 ELSE n

\* The instance that posted the message counts in memory, next to the oneshot,
\* until the threshold is reached.
CountsInMemory(i, t) ==
    task[t].needs > 1 /\ i = task[t].home /\ mem[t] = "open" /\ ~ Enough(t, votes[t].home)

\* A press that is not the last one the threshold asks for.
IsPartial(i, t, status) ==
    status = "approved" /\ CountsInMemory(i, t) /\ ~ Enough(t, OneMore(t, votes[t].home))

\* Each press counts, also a second one of the same person.  Where nothing is
\* counted in memory the approval goes through, if `uncounted` says so.
Vote(i, t, status, uncounted) ==
    votes' = IF status # "approved" THEN votes
             ELSE [votes EXCEPT ![t].cast = OneMore(t, @),
                                ![t].home = IF CountsInMemory(i, t) THEN OneMore(t, @) ELSE @,
                                ![t].blind = @ \/ (uncounted /\ ~ CountsInMemory(i, t))]

PartialVote(m, i, t) ==
    /\ ops[m] = Idle /\ IsPartial(i, t, "approved")
    /\ Vote(i, t, "approved", FALSE)
    /\ UNCHANGED <<store, async, cache, inflight, task, mem, posted, ops, hist>>

\* A Telegram callback reaches any instance; one that did not post the message
\* does not know of a threshold.
TelegramReaches(t) == "bot" \in Surfaces /\ task[t].channel = "telegram" /\ posted[t] # "no"

TelegramCallback(m, i, t, status) ==
    /\ TelegramReaches(t) /\ ~ IsPartial(i, t, status)
    /\ Start(m, i, t, status, TelegramResolve(status, m))
    /\ Vote(i, t, status, task[t].needs > 1 /\ ~ Enough(t, votes[t].home))
    /\ UNCHANGED cache

TelegramPartial(m, i, t) == TelegramReaches(t) /\ PartialVote(m, i, t)

\* A Matrix reaction: the instance that posted the message does not look at the
\* row; any other one finds the request through the message stored in a pending
\* row, and counts in the row.
MatrixMapped(i, t) == posted[t] = "known" /\ i = task[t].home

MatrixKnows(i, t) ==
    MatrixMapped(i, t) \/ (rows[t].message /\ rows[t].status = "pending")

MatrixPlan(m, i, t, status) ==
    (IF status = "approved" /\ task[t].needs > 1 /\ ~ MatrixMapped(i, t)
     THEN <<Tally, Count>> ELSE <<>>) \o MatrixResolve(status, m) \o <<Forget>>

MatrixReaches(i, t) == "bot" \in Surfaces /\ task[t].channel = "matrix" /\ MatrixKnows(i, t)

MatrixReaction(m, i, t, status) ==
    /\ MatrixReaches(i, t) /\ ~ (MatrixMapped(i, t) /\ IsPartial(i, t, status))
    /\ Start(m, i, t, status, MatrixPlan(m, i, t, status))
    /\ IF MatrixMapped(i, t) THEN Vote(i, t, status, FALSE)
       ELSE votes' = [votes EXCEPT ![t].cast = IF status = "approved" THEN OneMore(t, @) ELSE @]
    /\ UNCHANGED cache

MatrixPartial(m, i, t) ==
    MatrixReaches(i, t) /\ MatrixMapped(i, t) /\ PartialVote(m, i, t)

\* The grant button and reaction check the row before they claim it, and are
\* not for requests that need several approvals.
BotGrant(m, i, t) ==
    /\ "bot" \in Surfaces /\ m \in Managers /\ task[t].channel \in Bots /\ posted[t] # "no"
    /\ task[t].channel = "matrix" => MatrixKnows(i, t)
    /\ task[t].needs = 1
    /\ Actionable(rows[t], now) /\ rows[t].details
    /\ Start(m, i, t, "approved", BotGrantPlan(task[t].channel, m))
    /\ Vote(i, t, "approved", FALSE)
    /\ UNCHANGED cache

\* A grant reaction that is refused still makes the instance forget the message.
GrantReactionRefused(i, t) ==
    /\ "bot" \in Surfaces /\ task[t].channel = "matrix"
    /\ posted[t] = "known" /\ i = task[t].home
    /\ posted' = [posted EXCEPT ![t] = "forgotten"]
    /\ UNCHANGED <<store, async, cache, inflight, task, mem, votes, ops, hist>>

\* The end-user API acts on a transaction of the app's team, whoever it is for.
StartInApp(e, i, t, status, plan) ==
    /\ "app" \in Surfaces /\ async[t].status # "absent"
    /\ Start(e, i, t, status, plan)
    /\ UNCHANGED <<cache, votes>>

AppPasskeyBegin(e, i, t) ==
    WithWebAuthn /\ StartInApp(e, i, t, "none", <<Step("challenge", "none", e)>>)

AppPasskeyFinish(e, i, t) ==
    WithWebAuthn /\ StartInApp(e, i, t, "approved", <<Step("take", "none", e)>> \o EndUserWrite(e))

AppApprove(e, i, t) ==
    /\ task[t].eu = e /\ Actionable(rows[t], now) /\ rows[t].details
    /\ StartInApp(e, i, t, "approved", EndUserWrite(e))

AppDeny(e, i, t) ==
    StartInApp(e, i, t, "denied",
               IF WithWebAuthn THEN WebAuthnResolve("denied", NoOne) \o <<Answer>>
                               ELSE <<Write("denied", e), Answer>>)

(***************************************************************************)
(* The steps of the handlers.                                              *)
(***************************************************************************)

Running(p, do) == ops[p].todo # <<>> /\ Head(ops[p].todo).do = do

InTime(t) == task[t].deadline = 0 \/ now < task[t].deadline

\* The handler goes on after a step; its last step answers the person.
Proceed(p, hit) ==
    LET op    == ops[p]
        t     == op.txn
        ok    == op.ok \/ (hit /\ Head(op.todo).answers)
        last  == Len(op.todo) = 1
        step  == Head(op.todo)
        asked == IF hit /\ step.status = "approved" THEN {p} ELSE {}
        told  == IF last /\ ok /\ op.status \in Decisions /\ InTime(t) THEN {op.status} ELSE {}
    IN  /\ ops' = [ops EXCEPT ![p] = IF last THEN Idle
                                     ELSE [op EXCEPT !.todo = Tail(@), !.ok = ok]]
        /\ hist' = [hist EXCEPT ![t].asked = @ \cup asked, ![t].told = @ \cup told,
                                ![t].minted = @ \/ (step.do = "mint" /\ hit)]

\* The handler ends with an error; a reaction's message is still forgotten.
Abort(p) ==
    LET forgets == \E k \in 2..Len(ops[p].todo) : ops[p].todo[k].do = "forget"
    IN  /\ ops' = [ops EXCEPT ![p] = IF forgets THEN [@ EXCEPT !.todo = <<Forget>>, !.ok = FALSE]
                                     ELSE Idle]
        /\ UNCHANGED hist

RunWrite(p) ==
    LET t == ops[p].txn
        w == Head(ops[p].todo)
    IN  /\ Running(p, "write")
        /\ Store!ResolvePendingApproval(t, w.status, w.by)
        /\ Proceed(p, ResolveHits(rows[t], w.status))
        /\ UNCHANGED <<async, cache, inflight, task, mem, posted, votes>>

\* The waiter is unblocked if this is its instance and nobody was faster.
\* (Faulty variant: any signal reads as an approval.)
RunSignalApproving(p) ==
    LET t   == ops[p].txn
        w   == Head(ops[p].todo)
        hit == w.channel = task[t].channel /\ ops[p].inst = task[t].home /\ mem[t] = "open"
    IN  /\ Running(p, "signal")
        /\ mem' = [mem EXCEPT ![t] = IF hit THEN "approved" ELSE @]
        /\ Proceed(p, hit)
        /\ UNCHANGED <<store, async, cache, inflight, task, posted, votes>>
RunSignal(p) ==
    LET t   == ops[p].txn
        w   == Head(ops[p].todo)
        hit == w.channel = task[t].channel /\ ops[p].inst = task[t].home /\ mem[t] = "open"
    IN  /\ Running(p, "signal")
        /\ mem' = [mem EXCEPT ![t] = IF hit THEN w.status ELSE @]
        /\ Proceed(p, hit)
        /\ UNCHANGED <<store, async, cache, inflight, task, posted, votes>>

\* A grant handler stops when its claim does not hit.  (Faulty variant: it goes
\* on to the grant.)
RunClaimUnchecked(p) ==
    /\ Running(p, "claim")
    /\ Store!ClaimPendingApprovalForGrant(ops[p].txn, Head(ops[p].todo).by)
    /\ Proceed(p, ClaimHits(rows[ops[p].txn]))
    /\ UNCHANGED <<async, cache, inflight, task, mem, posted, votes>>
RunClaim(p) ==
    LET t == ops[p].txn
    IN  /\ Running(p, "claim")
        /\ Store!ClaimPendingApprovalForGrant(t, Head(ops[p].todo).by)
        /\ IF ClaimHits(rows[t]) THEN Proceed(p, TRUE) ELSE Abort(p)
        /\ UNCHANGED <<async, cache, inflight, task, mem, posted, votes>>

\* create_approval_grant: if it fails, the request is approved without a grant.
RunMint(p) ==
    /\ Running(p, "mint")
    /\ \E made \in BOOLEAN : Proceed(p, made)
    /\ UNCHANGED <<store, async, cache, inflight, task, mem, posted, votes>>

RunUncache(p) ==
    /\ Running(p, "uncache")
    /\ cache' = [cache EXCEPT ![ops[p].inst] = @ \ {ops[p].txn}]
    /\ Proceed(p, FALSE)
    /\ UNCHANGED <<store, async, inflight, task, mem, posted, votes>>

\* begin_approval_for_user, begin_approval_for_approver.
RunChallenge(p) ==
    LET t == ops[p].txn
    IN  /\ Running(p, "challenge")
        /\ Store!SetPendingApprovalChallenge(t, p)
        /\ inflight' = [inflight EXCEPT ![ops[p].inst][t] = p]
        /\ Proceed(p, FALSE)
        /\ UNCHANGED <<async, cache, task, mem, posted, votes>>

\* finish_approval_for_user, finish_approval_for_approver: the row's challenge,
\* else the instance's; it is spent whoever it was made for.
RunTake(p) ==
    LET t == ops[p].txn
        i == ops[p].inst
        c == IF ChallengeTakeable(rows[t], now) THEN rows[t].challenge ELSE inflight[i][t]
    IN  /\ Running(p, "take")
        /\ Store!TakePendingApprovalChallenge(t)
        /\ inflight' = [inflight EXCEPT ![i][t] = NoOne]
        /\ IF c = p THEN Proceed(p, FALSE) ELSE Abort(p)
        /\ UNCHANGED <<async, cache, task, mem, posted, votes>>

RunEndUser(p) ==
    LET t == ops[p].txn
    IN  /\ Running(p, "enduser")
        /\ Store!ResolvePendingApprovalAsEndUser(t, "approved", p, p)
        /\ Proceed(p, EndUserHits(rows[t], p))
        /\ UNCHANGED <<async, cache, inflight, task, mem, posted, votes>>

RunForget(p) ==
    LET t == ops[p].txn
    IN  /\ Running(p, "forget")
        /\ posted' = [posted EXCEPT ![t] = IF ops[p].inst = task[t].home THEN "forgotten" ELSE @]
        /\ Proceed(p, FALSE)
        /\ UNCHANGED <<store, async, cache, inflight, task, mem, votes>>

\* increment_pending_approval_count: the UPDATE, then the SELECT of the sum.  A
\* reaction short of the threshold ends there; when the count cannot be read the
\* reaction is taken for the last one.
RunTally(p) ==
    LET t == ops[p].txn
    IN  /\ Running(p, "tally")
        /\ votes' = [votes EXCEPT ![t].row = IF rows[t].status = "absent" THEN @ ELSE OneMore(t, @)]
        /\ Proceed(p, FALSE)
        /\ UNCHANGED <<store, async, cache, inflight, task, mem, posted>>

RunCount(p) ==
    LET t == ops[p].txn
    IN  /\ Running(p, "count")
        /\ \E fails \in {rows[t].status = "absent", TRUE} :
              /\ votes' = [votes EXCEPT ![t].blind = @ \/ fails]
              /\ IF fails \/ Enough(t, votes[t].row) THEN Proceed(p, FALSE)
                 ELSE ops' = [ops EXCEPT ![p] = Idle] /\ UNCHANGED hist
        /\ UNCHANGED <<store, async, cache, inflight, task, mem, posted>>

RunAnswer(p) ==
    /\ Running(p, "answer")
    /\ Proceed(p, TRUE)
    /\ UNCHANGED <<store, async, cache, inflight, task, mem, posted, votes>>

(***************************************************************************)
(* The background job, crashes and the clock.                              *)
(***************************************************************************)

\* A count goes with its row.
ForgetCounts ==
    votes' = [t \in Txns |-> [votes[t] EXCEPT !.row = IF rows'[t].status = "absent" THEN 0 ELSE @]]

\* History: a reserved row goes while its task has not decided.
NotePurges ==
    LET gone == {t \in Txns : /\ rows[t].eu # NoOne /\ rows'[t].status = "absent"
                              /\ task[t].verdict = "none"}
    IN  hist' = [t \in Txns |-> [hist[t] EXCEPT !.purged = @ \/ t \in gone]]

\* cleanup_expired_rows.  (Faulty variants: pending transactions are kept, as
\* pending approvals are; the comparison is off by one.)
CleanupTooEarly ==
    /\ Store!CleanupExpiredRows
    /\ async' = [t \in Txns |-> IF async[t].expires <= now
                                THEN [status |-> "absent", expires |-> 0] ELSE async[t]]
    /\ ForgetCounts /\ NotePurges
    /\ UNCHANGED <<cache, inflight, task, mem, posted, ops>>
CleanupKeepingPending ==
    /\ Store!CleanupExpiredRows
    /\ async' = [t \in Txns |-> IF async[t].expires < now /\ async[t].status # "pending"
                                THEN [status |-> "absent", expires |-> 0] ELSE async[t]]
    /\ ForgetCounts /\ NotePurges
    /\ UNCHANGED <<cache, inflight, task, mem, posted, ops>>
CleanupExpiredRows ==
    /\ Store!CleanupExpiredRows
    /\ async' = [t \in Txns |-> IF async[t].expires < now
                                THEN [status |-> "absent", expires |-> 0] ELSE async[t]]
    /\ ForgetCounts /\ NotePurges
    /\ UNCHANGED <<cache, inflight, task, mem, posted, ops>>

Live(t) == task[t].pc \notin {"idle", "done", "refused", "lost"}

\* An instance restarts: everything it held in memory is gone.
Crash(i) ==
    /\ cache' = [cache EXCEPT ![i] = {}]
    /\ inflight' = [inflight EXCEPT ![i] = [t \in Txns |-> NoOne]]
    /\ task' = [t \in Txns |-> IF task[t].home = i /\ Live(t)
                               THEN [task[t] EXCEPT !.pc = "lost"] ELSE task[t]]
    /\ mem' = [t \in Txns |-> IF task[t].home = i THEN "none" ELSE mem[t]]
    /\ posted' = [t \in Txns |-> IF task[t].home = i /\ posted[t] = "known"
                                 THEN "forgotten" ELSE posted[t]]
    /\ votes' = [t \in Txns |-> IF task[t].home = i THEN [votes[t] EXCEPT !.home = 0] ELSE votes[t]]
    /\ ops' = [p \in Principals |-> IF ops[p].inst = i THEN Idle ELSE ops[p]]
    /\ UNCHANGED <<store, async, hist>>

\* The clock's unit is longer than a poll interval, a statement or the delivery
\* of a message and shorter than a slow upstream call: it waits for a request or
\* a task that is between two of its steps or past its deadline, and for
\* handlers.  It does not wait for people or for the upstream call.
Prompt(t) ==
    /\ task[t].pc \in {"idle", "waiting", "forward", "done", "refused", "lost"}
    /\ task[t].pc = "waiting" => ~ Overdue(t)

Tick ==
    /\ \A t \in Txns : Prompt(t)
    /\ \A p \in Principals : ops[p] = Idle
    /\ Store!Tick
    /\ UNCHANGED <<async, cache, inflight, task, mem, posted, votes, ops, hist>>

(***************************************************************************)
(* The specification.                                                      *)
(***************************************************************************)

Receive(t) ==
    \E i \in Instances, c \in Channels, eu \in EndUsers \cup {NoOne}, n \in Thresholds :
        ReceiveForward(t, i, c, eu, n)

Handle(t) ==
    \/ SendDashboard(t) \/ SendAgentReflected(t)
    \/ RegisterPending(t) \/ DeliverMessage(t) \/ StoreMessage(t)
    \/ SendFails(t) \/ Queue(t)

Wait(t) ==
    \/ PollDashboard(t) \/ PollAgentReflected(t) \/ GiveUp(t) \/ ExpireRow(t)
    \/ ReceiveSignal(t) \/ PollBot(t) \/ TelegramDeadline(t) \/ MatrixDeadline(t)
    \/ CleanupPendingRequest(t) \/ Identify(t) \/ Forward(t) \/ Record(t)

Act(i, t) ==
    \/ GrantReactionRefused(i, t)
    \/ \E m \in Members :
        \/ \E s \in {"approved", "denied"} :
              \/ DashboardResolve(m, i, t, s)
              \/ TelegramCallback(m, i, t, s)
              \/ MatrixReaction(m, i, t, s)
        \/ TelegramPartial(m, i, t) \/ MatrixPartial(m, i, t)
        \/ ApproveWithGrant(m, i, t) \/ BotGrant(m, i, t)
        \/ ApprovalBegin(m, i, t) \/ ApprovalFinish(m, i, t) \/ ApprovalDeny(m, i, t)
    \/ \E e \in EndUsers :
        \/ AppPasskeyBegin(e, i, t) \/ AppPasskeyFinish(e, i, t)
        \/ AppApprove(e, i, t) \/ AppDeny(e, i, t)

Run(p) ==
    \/ RunWrite(p) \/ RunSignal(p) \/ RunClaim(p) \/ RunMint(p) \/ RunUncache(p)
    \/ RunChallenge(p) \/ RunTake(p) \/ RunEndUser(p) \/ RunForget(p)
    \/ RunTally(p) \/ RunCount(p) \/ RunAnswer(p)

Next ==
    \/ \E t \in Txns : Receive(t) \/ Handle(t) \/ Wait(t)
    \/ \E i \in Instances, t \in Txns : Act(i, t)
    \/ \E p \in Principals : Run(p)
    \/ \E i \in Instances : Crash(i)
    \/ CleanupExpiredRows
    \/ Tick

Spec == Init /\ [][Next]_vars

\* A task or handler that can run does run, the clock advances, and the job runs every five
\* minutes.  Nothing is assumed of people, and instances may crash at any time.
FairSpec ==
    /\ Spec
    /\ \A t \in Txns : WF_vars(Handle(t)) /\ WF_vars(Wait(t))
    /\ \A p \in Principals : WF_vars(Run(p))
    /\ WF_vars(CleanupExpiredRows)
    /\ SF_vars(Tick)

(***************************************************************************)
(* Safety.                                                                 *)
(***************************************************************************)

\* Whatever interleaving, restart or race the surfaces produce, the table only
\* changes through the statements of PendingApprovals, so the theorems about
\* that module (one claim, final decisions, the end-user gate) hold here.
StoreSpec == Store!Spec

\* Three properties of the default deployment: the agent-reflected channel, and
\* people who decide in the dashboard, with or without a grant (FlowReflected).
\* Where a row is consumed on a decision, where a bot is signalled past the row,
\* or where a page answers success regardless, they do not hold: see the README.

\* What a person was told is what happens: a decision confirmed before the
\* deadline is the one the waiting task acts on, from whichever instance it
\* was taken and however many people acted.
ToldIsHonoured ==
    \A t \in Txns : task[t].verdict # "none" => hist[t].told \subseteq {task[t].verdict}

\* The audit entry of an approved request names somebody who approved it,
\* although the approver is read from the row by a later statement than the
\* decision.
AuditNamesApprover ==
    \A t \in Txns : hist[t].audit = "approved" => hist[t].auditBy \in hist[t].asked

\* No grant comes into existence on top of a denial, although the request is
\* loaded, the row claimed and the grant created in three steps.
NoGrantOnDenial ==
    \A t \in Txns : hist[t].minted => task[t].verdict # "denied"

\* No request is forwarded unless somebody's approval took effect: a timeout, a
\* restart, a lost row, a refused press or a grant handler that stopped halfway
\* never turns into an approval.  Of denials it says nothing: see DenialStands.
ForwardNeedsApproval ==
    \A t \in Txns : task[t].verdict = "approved" => hist[t].asked # {}

\* A request of a managed end-user is forwarded only on that end-user's approval,
\* whatever the team's surfaces do, if its row was reserved before anybody decided
\* and exists for as long as the task waits.  ApprovalContext::end_user_id promises
\* it without conditions: "only that end-user's own authenticated approval can
\* resolve it" (approval.rs:30).  But the row is saved, and may be approved by the
\* team, before the reservation is stamped on it; and a passkey challenge shortens
\* its life to PhantomTtl, after which an approval by the team inserts a row that
\* is reserved for nobody.
ReservedForwardNeedsEndUser ==
    \A t \in Txns :
        task[t].verdict = "approved" /\ task[t].eu # NoOne
            /\ ~ hist[t].early /\ ~ hist[t].purged
            => task[t].eu \in hist[t].asked

\* cleanup_expired_rows never purges a result the agent could not have polled
\* during the approval window: an outcome finds its row gone only after it.
ResultsAreKept ==
    \A t \in Txns : hist[t].stored = "missed" => now > task[t].deadline

\* What people decide is what happens and what is recorded, on the default channel:
\* TypeOK, ToldIsHonoured, AuditNamesApprover and ResultsAreKept.
DecisionsAreHonoured == TypeOK /\ ToldIsHonoured /\ AuditNamesApprover /\ ResultsAreKept

\* A request that needs several approvals is forwarded only after that many
\* presses of a button or reaction, whoever pressed, although the posting instance
\* counts them in memory and the others in the row by two statements, and people
\* press while others' handlers run: unless an approval went through without being
\* counted, as a callback to another instance (Telegram) and a failed count
\* (Matrix) do.  Policies promise more: min_approvals is the "number of approvers
\* who must approve before the request proceeds" (policies.mdx:71).  Neither the
\* people behind the presses nor the presses that are not counted are compared.
ThresholdHolds ==
    \A t \in Txns :
        task[t].verdict = "approved" /\ ~ votes[t].blind => votes[t].cast >= task[t].needs

\* While a bot's task waits, its oneshot is there: a button pressed between the
\* posting of the message and the wait is not lost.
NoLostWakeup ==
    \A t \in Txns : task[t].pc = "waiting" /\ task[t].channel \in Bots => mem[t] # "none"

(***************************************************************************)
(* What a comment says and the code does not do: the run of this property  *)
(* ends in a violation.                                                    *)
(***************************************************************************)

\* resolve_and_bridge: "a double-submit or a concurrent passkey approval is safe
\* -- the second resolve is a no-op".  A task never takes an approval while the
\* row carries a denial.  The bots' oneshots are signalled past the row.
DenialStands ==
    [][\A t \in Txns : task[t].verdict = "none" /\ rows[t].status = "denied"
         => task'[t].verdict # "approved"]_vars

(***************************************************************************)
(* Liveness.                                                               *)
(***************************************************************************)

\* Every task that waits comes to an end, even if nobody ever decides; only a
\* restart of its instance ends it otherwise.
TaskConcludes ==
    \A t \in Txns : task[t].pc = "waiting" ~> task[t].pc \in {"done", "lost"}

\* No agent polls a pending transaction for ever, restarts included.
PollingEnds ==
    \A t \in Txns : async[t].status = "pending" ~> async[t].status # "pending"

\* How It Works, Trust Model: "Any residual records are purged within minutes by
\* a background cleanup job": this holds of rows that carry a decision.
DecidedRowsArePurged ==
    \A t \in Txns : (rows[t].status \in Decisions /\ rows[t].expires < now)
                       ~> rows[t].status \notin Decisions
=============================================================================
