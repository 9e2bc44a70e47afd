# TAP: a verification development

TAP is a proxy between autonomous agents and the services they call. An agent
never holds a credential: it sends its request to `POST /forward`, naming a
credential, and the proxy decides whether the request may go out, asks a person
when the policy wants one, injects the secret and forwards. Several proxy
processes share one PostgreSQL database, messaging bots run inside each process,
and everything a person does (dashboard, passkey page, Telegram button, Matrix
reaction, end-user API) is an HTTP request or an event that may reach any of
them.

This directory holds TLA+ modules of the parts of that system in which the order
of events matters, TLC configurations that check them on small instances, and
TLAPS proofs of the results that should hold for every instance. `PROJECT.json`
maps every definition to the lines it models and lists the runs, the properties'
mutants, the hazards and the theorems. Source paths below are relative to `src/`.

Contents: 1 inventory, 2 modules and their correspondence with the code, 3 runs,
4 bounds, time and fairness, 5 departures, 6 proofs, 7 what is not modelled,
8 plan.

## 1 Inventory

| Part | State | Operations | Hard because | Correct when |
|---|---|---|---|---|
| `pending_approvals` (`crates/tap-core/src/store.rs`) | one row per request awaiting a person: status, reserved end-user, resolver, expiry, passkey challenge, details, bot message | save, resolve, claim for a grant, resolve as end-user, set/take challenge, set message, delete, cleanup | upserts from any process in any order; a decision may precede the row | one decision per row, one grant claim, the end-user gate, the resolver is not lost |
| `async_approvals` | the row the agent polls | create, resolve, purge | purged by time, filled by a task | every transaction leaves `pending` |
| Approval branch of `handle_forward`, `run_unified_async_approval` (`crates/tap-proxy/src/proxy.rs`) | a background task in one process | persist, send, queue; wait, identify, forward, record | restarts; decisions before the wait begins; deadline against decision | nothing is forwarded unapproved; every task ends |
| Channels (`dashboard_channel.rs`, `agent_reflected_channel.rs`, `tap-bot/src/telegram.rs`, `matrix.rs`) | oneshots and message maps in memory | send, wait, resolve, cleanup | the signal and the row may disagree; events reach other processes | no press is lost; what a person was told happens |
| N-of-M approvals (`telegram.rs`, `matrix.rs`, `store.rs`) | counters in memory and in the row | count an approval | per-process counters | as many presses as the policy asks for |
| Approval pages (`webauthn.rs`), end-user API (`app.rs`) | cached request details, challenges in memory | approve, deny, approve with grant, begin/finish a ceremony | cached details outlive the row; bridges to the bots | the row's own WHERE clause decides, whoever acts |
| Grants (`tap-core/src/grants.rs`, `store.rs`, `proxy.rs::try_claim_grant`) | time-boxed, capped permissions | create, derive from a request, revoke, select, claim | SELECT and UPDATE are separate statements | cap, window, scope and revocation hold |
| Agent cache (`tap-proxy/src/db_state.rs`) | `auth_cache` (no expiry), `agent_cache` (TTL) | authenticate, load credentials; edit, rotate, delete | no lock across queries; two caches with different lifetimes | bounded staleness; the current key is never refused for good |
| Policy cache (`db_state.rs`) | one entry per credential, TTL | read through, write, invalidate | a query may straddle a write and its invalidation | bounded staleness |
| Policy rules (`policy.rs`, `tap-core/src/policy_diff.rs`, `proposals.rs`) | none | evaluate, compare, merge | two merges and one comparison that must agree with the evaluation | nothing loosened is shown as harmless |
| Policy changes (`admin.rs`, `app.rs`) | policies, templates, proposals, staged changes, challenges | set, propose, review, approve, deny, stage, finish | compare-then-write, write-before-claim, claim-before-write | the passkey lock holds; what is written was asked of whom it concerns |
| Accounts (`admin.rs`, `webauthn.rs`, `store.rs`) | users, memberships, invitations, codes, resets, challenges, passkeys, sessions | sign up, log in, register, reset, invite, remove, switch | every handler is several statements | a session stands for what its person proved |
| Workspace (`admin.rs`, `oauth.rs`, `app.rs`) | credentials, agents, roles, scopes, setups, OAuth states, tier | create, edit, delete, assign, activate, connect, pay | names are reused; multi-statement handlers without transactions | scopes and gates hold; links are used once |
| Handshakes (`google_login.rs`, `github_login.rs`, device login, `mcp_auth.rs`, `mcp_internal.rs`, `tap-core/src/mcp_tokens.rs`, `tap-mcp`) | states, continuations, staged links, device rows, codes, token families | begin, call back, confirm, poll, exchange, refresh, disconnect | replayed and delayed requests from several browsers | one outcome per token, for the person and client that asked |
| Admission and routing (`proxy.rs`, `routing.rs`, `placeholder.rs`, `sanitize.rs`, `signing.rs`, `forward.rs`, `relay.rs`) | counters, leases, what a request holds | authenticate, count, look up, decide, ask, exchange, send, sign, answer | a dozen reads at different moments, each with its error branch | a secret goes only where, for whom and on whose word it may |
| Vault and key release, migration, MCP tools, CLI commands, recipes | | | I/O, cryptography or text | not for this method |

How the parts interact. `Admission` is the whole path of a request; it reads the
agent through what `AgentCache` models, the policy through `PolicyCache`, decides by
`PolicyRules`, may consume a use of a grant (`Grants`), and otherwise creates a row
of `pending_approvals` and hands the request to a channel (`ApprovalFlow`). The
channels, pages and APIs act on that row; bots also signal the waiting task through an
in-memory oneshot. The task stores its outcome in `async_approvals`, which the agent
polls; a job every 300 s purges both tables. What Admission finds in the tables is
put there by `Workspace` and `PolicyChanges`, on behalf of people whose sessions
come from `Accounts` and `Handshakes`.

## 2 Modules

| Module | Extends or instantiates | Checked by |
|---|---|---|
| `ApprovalRows`, `PendingApprovals` | | `Tables` |
| `ApprovalFlow` | `ApprovalRows`; instance of `PendingApprovals` | `FlowReflected`, `FlowPages`, `FlowBots`, `FlowLive`, `DenialStands` |
| `Grants` | | `Grants` |
| `AgentCache` | | `Tables` |
| `PolicyCache`, `PolicyRules`, `PolicyChanges` | `PolicyChanges` composes the other two | `PolicyChanges` |
| `Accounts`, `Workspace`, `Handshakes` | | one run each |
| `Routing`, `Admission` | `PolicyRules` | `Admission` |

### ApprovalRows, PendingApprovals

`ApprovalRows` is one row of the table and, for each SQL statement of `ConfigStore`, the row
after it. Each statement is a single INSERT ... ON CONFLICT, UPDATE or DELETE, hence atomic.
Columns that only carry text are reduced to whether they are set (`details`, `message`);
`challenge` is whose passkey is asked for; times are units of the model's clock.
`PendingApprovals` is the table: every statement on any row, at any moment, by anyone. It
promises to every client what the table alone guarantees, and is the abstract specification
that `ApprovalFlow` implements. `via` (on whose word the row was approved: the team's, or
which end-user's) and `claims` are history variables. The counter of N-of-M approvals is
kept in `ApprovalFlow`.

### ApprovalFlow

One gated request on several instances. `rows`, `now`, `via`, `claims` are the
table, changed only through `Store!...`, actions of an INSTANCE of
`PendingApprovals`; `async` is the polled row; `task[t]` the request and its
background task with a program counter; `mem` the bot's oneshot; `posted` the
bot's message; `votes` the counts of approvals in memory and in the row; `cache`
and `inflight` what each process remembers; `ops[p]` the handler a person has
running, as the list of steps it still has to do; `hist` what the properties look
back at.

* Request handler: `ReceiveForward`, `SendDashboard`, `SendAgentReflected`,
  `RegisterPending`, `DeliverMessage`, `StoreMessage`, `SendFails`, `Queue`.
* Waiting task: `PollDashboard`, `PollAgentReflected`, `GiveUp`, `ExpireRow`,
  `ReceiveSignal`, `PollBot`, `TelegramDeadline`, `MatrixDeadline`,
  `CleanupPendingRequest`, then `Identify`, `Forward` or `Record`.
* People: `DashboardResolve`, `ApproveWithGrant`, `ApprovalBegin`,
  `ApprovalFinish`, `ApprovalDeny`, `TelegramCallback`, `MatrixReaction`,
  `BotGrant`, `GrantReactionRefused`, `AppPasskeyBegin`, `AppPasskeyFinish`,
  `AppApprove`, `AppDeny` start a handler; `RunWrite`, `RunSignal`, `RunClaim`,
  `RunMint`, `RunUncache`, `RunChallenge`, `RunTake`, `RunEndUser`, `RunForget`,
  `RunTally`, `RunCount`, `RunAnswer` are its steps, one statement or one change of
  memory each.
* `CleanupExpiredRows`, `Crash`, `Tick`.

The plans (`DashboardPlan`, `GrantPlan`, `PasskeyPlan`, `MatrixPlan`, ...) keep the
order of the calls in the code, which differs between surfaces: Telegram signals the
waiter before it writes, Matrix writes first and signals whatever the write did,
the passkey page bridges to the bots before its own write, the dashboard after.
A request that needs several approvals (`task[t].needs`) is counted in the memory of
the instance that posted its message (`votes[t].home`) or, for Matrix elsewhere, in
the row (`votes[t].row`), by one statement that increments and one that reads;
`votes[t].cast` counts the presses themselves.

Awaits merged into one step, and why nothing is lost: `set_pending_details`
caches and saves (nobody knows the id yet); the dashboard channel's read of a
decision and its delete (a decision is final, so nothing can change the status
in between); the two DELETEs of the cleanup (they touch different tables and
treat rows separately); in `Queue`, the late save of a bot's row and the creation
of the polled row (the agent has no answer yet, and people act on the first only).

### Grants

One credential of one team: `rows` is `approval_grants`, `calls` the concurrent
executions of `try_claim_grant`. `TryClaimGrant` reads the clock, `LiveGrants`
is the candidate SELECT, `ClaimApprovalGrant` one turn of the loop, with
`ClaimFails` and `ClaimAnswerLost` for a failing or unanswered statement.
`CreateGrant` and `CreateGrantForRequest` are the two ways to make one (the
dashboard's and the bots' approve-with-grant share the second; the dashboard
additionally refuses a request to the root path), `RevokeApprovalGrant` ends
one. A route pattern is a sequence of segments in which `Wild` stands for `*`.
That a request may use grants at all is decided in `Admission`.

### AgentCache, PolicyCache

`AgentCache`: `authenticate` and `get_effective_credentials` with their two
caches, statement by statement, against the dashboard's edits, rotations and
deletion. `PolicyCache`: `get_policy`, `set_policy`, `invalidate_policy_cache`.
The content of a row is a version number raised by every write, and
`superseded` remembers when each version was replaced, so that the age of an
answer can be stated. Both are about one process: the caches are per process and
share nothing but the database, so another process is another set of readers.
Abstractions: the one or two queries of a request share one deadline of two
`DB_TIMEOUT`s in `AgentCache`; the several SELECTs behind the effective
credentials are one snapshot; the wait for an in-memory lock takes no time; an
answer belongs to its request and is dropped from the model at the next tick.

### PolicyRules, PolicyChanges

`PolicyRules` has no state: `EvaluatePolicyWithDefault` is the decision of
`policy.rs`, `PermissiveChanges` the comparison of `policy_diff.rs` that both the
passkey lock and the review of a proposal rest on, `BuildMergedPolicyRow` and
`MergedView` the two merges, one for the table and one for the reviewer. A URL is a
host and a sequence of segments.

`PolicyChanges` is every handler that writes the policy of one credential. A handler
(`work[h]`) holds what it has read; its `Plan` is the order of its statements, and
it may be dropped between any two. `rows[v]` is what version `v` of `PolicyCache`
holds and `authors[v]` what the handler that wrote it held, so that properties can
speak of "the version it had read". Readers of the cache run beside the handlers.
`load.webauthn` says whether WebAuthn is configured: where it is not, a proposal is
approved without a ceremony (`ApproveUnasked`) and a staged change cannot be claimed.

### Accounts, Workspace, Handshakes

Three modules of the same build: `db` (in `Handshakes`: `soc`, `dev`, `mcp`) holds
the tables, a SQL statement is an operator from databases to databases with the
name of its method, and a handler is a call that reads and checks in its first step
and runs its further statements one at a time, so that other requests come in
between and a crash drops the rest. Rows with an expiry may disappear at any moment,
which covers every length of every lifetime. Fields marked "history" record what the
properties speak of (which login a session comes from, who gave an agent a
credential and what that member's scope was when the request was checked, which link
made a row).

* `Accounts`: accounts, memberships, invitations, verification codes, resets,
  passkeys, login and registration challenges, sessions.
* `Workspace`: credentials, agents, apps, roles, approvers' scopes, credential
  setups, OAuth states and connections, the tier and Stripe's events. A handler's
  statements are a list (`todo`); items that read put the statements that follow from
  what they read in their place (`Expand`).
* `Handshakes`: login with Google or GitHub, device authorization, the OAuth of MCP
  clients. The three share nothing but people; a behaviour is about one of them.

### Routing, Admission

`Routing` has no state: the choice of a route and of an authentication scheme, the
host binding, the guard on public targets, the placeholder grammar and substitution,
the redaction of responses, the checks on what is signed. A stored value is an id,
the fields it has when it is an object, and the bundles it parses as; a piece of it
is the id and a field. `Admission` is a request (`calls[c]`) with a program counter:
`auth`, `count`, `parse`/`serve`, `config`, `value`, `relay...`, `policy`, `mode`,
`grant`, `ask`, `wait`, `exchange`, `send`, `retry`, `answer` or `sign`, one access to
the database each, while a manager edits the credential or its policy, windows end
and leases lapse. Reads that may fail do so in the loads that name the fault. What an
approver is shown (`asked.shown`) is the route's target, or on the placeholder path the
header `X-OAuth-Target` if there is one (`DisplayForPlaceholders`). How a
person decides is the one step `Decide`, which `ApprovalFlow` details.

### MC modules and proof modules

The `MC` modules add symmetry sets and the inputs: the requests of `Grants`, and the `Loads`
of the larger modules (section 4). `MCTables` joins two small modules in one run.
`PendingApprovalsProofs`, `ApprovalFlowProofs`, `AccessProofs` (about `Grants` and
`AgentCache`), `PolicyChangesProofs`, `AdmissionProofs`, `AccountsProofs`,
`HandshakesProofs` and `WorkspaceProofs` hold the theorems (section 6). The operators marked
"faulty variant" are not used by any specification: each is a plausible mistake in the code,
and replacing the definition below it by the variant makes the property named in
`PROJECT.json` fail.

## 3 Runs

| Run | What it shows |
|---|---|
| `Tables` | Two modules that share nothing, one per behaviour. Any statements on the table in any order, two members, two end-users, each row reserved for one of them or none: `AtMostOneClaim`, `DecisionIsFinal`, `EndUserGate`, `ResolverIsKept`. Two concurrent requests against the agent's caches, edits, a rotation, the deletion: `CachesAreFresh` (`StalenessIsBounded`, `CacheShape`), `CurrentKeyIsNotRefused`. |
| `FlowReflected` | The default deployment (agent-reflected channel, team and end-user requests, decisions in the dashboard with or without a grant) on two instances with two members: `DecisionsAreHonoured` (`ToldIsHonoured`, `AuditNamesApprover`, `ResultsAreKept`, `TypeOK`), `NoGrantOnDenial`, and the refinement `StoreSpec`: the flow is an implementation of `PendingApprovals`. |
| `FlowPages` | Team and end-user requests, dashboard channel and Telegram bot, the passkey page and the end-user API (the dashboard and grants are in `FlowReflected`), rows from upserts living shorter than the window: `ForwardNeedsApproval`, `ReservedForwardNeedsEndUser`. |
| `FlowBots` | Telegram and Matrix without WebAuthn, two instances, two members, two presses needed (one, in `FlowLive`): `ThresholdHolds`, `NoLostWakeup`. |
| `FlowLive` | All four channels, bridged decisions, passkeys, restarts, under `FairSpec`: `TaskConcludes`, `PollingEnds`, `DecidedRowsArePurged`. |
| `Grants` | Two grants, two concurrent calls: `CapBoundsApprovals`, `WindowIsRespected`, `MintedGrantIsExact`, `RevocationHolds`. |
| `PolicyChanges` | Two handlers that change a policy, with and without WebAuthn, and two readers of the cache: the passkey lock (`LockHolds`); `MergesAgree`, that the review is honest (`ReviewIsHonest`), fields left out are kept (`AbsentFieldsAreKept`) and rows can be evaluated (`RowsAreWellFormed`); `ChangesAreEarned`, whose passkey (`StepUpIsOwn`), single use (`ChangeAppliedOnce`), write before claim (`ApprovedWasApplied`) and the flood cap (`ProposalFloodIsBounded`); and `PolicyStalenessIsBounded`. |
| `Accounts` | Two requests at a time of two or three people: `SessionsAreEarned` (`SecondFactor`, `OneSessionPerChallenge`, `SessionTeamWasJoined`, `TypeOK`), `ResetEndsSessions`, `OwnersComeFromOwners`. |
| `Workspace` | Two requests at a time: `NamesAreBound` (`NamesakesStartBare`, `EndUserNamesAreBound`, `TypeOK`), `ApproversStayInScope`, `CallbacksAreEarned` (`OneCredentialEach`, `GateBeforeAccess`, `PaidTierWasPaid`). |
| `Handshakes` | Two requests at a time: `SocialLoginHolds` (`OneLoginPerContinuation`, `LinkNeedsFullLogin`, `SocialSignupOwnsAccount`, `LoginStaysInBrowser`, `TypeOK`) and `IdentityIsNotRepointed`; `DeviceLoginHolds` (`OneSessionPerDeviceCode`, `DeviceBindsFirstConfirmer`, `ConfirmsAreBounded`); `ConnectionsHold` (`ConnectionNeedsOwnPasskey`, `TokensReachTheAskingClient`, `OneFamilyPerLiveCode`, `FamiliesDoNotFork`, `DisconnectHolds`). |
| `Admission` | Up to three requests at a time: `RateLimitHolds`, `IsolationHolds`, `HumanGateHolds`; `SecretsStayPut` (`SecretStaysOnItsHosts`, `RefreshStaysWithIssuer`, `AnswerHidesSecrets`); `RelaysAreOwn` (`LeaseIsExclusive`, `EgressNeedsOwnRelay`, `AuthfileFollowsLeases`); `ApprovalIsInformed` (`ApproversAreNamed`, `AskedWhereConfigured`, `ForwardedAsShown`, `SignedIsWhatWasShown`, `UsesAreAudited`, `TypeOK`). |
| `DenialStands` | Ends in a violation. A Telegram request that one member denies and another approves in the dashboard is forwarded, although `webauthn.rs:1850` says that the second resolve is a no-op. |

A property with parts in brackets is their conjunction: each part has its own
definition and comment in its module, and `PROJECT.json` has a mutant for each. The type
invariants of `PendingApprovals`, `Grants` and `PolicyCache` are proved (section 6)
and not run. Deadlock is checked in the flow runs (the cleanup is always
possible, so this says little there); the others stop when the clock or the tokens have
reached their bound and all calls are done, and say `CHECK_DEADLOCK FALSE`.

Several properties hold only up to a condition they name, because the code gives no
more. Where the repository itself says more than the code does, the property says
less than the text, its comment quotes the text, and section 5 says what happens
instead:

| Property | Excepts | Although |
|---|---|---|
| `ForwardNeedsApproval` | a denial beside the approval | `webauthn.rs:1850`: "the second resolve is a no-op" (run `DenialStands`) |
| `ReservedForwardNeedsEndUser` | a decision before the reservation is stamped; a row purged under the waiting task | `approval.rs:30`: "only that end-user's own authenticated approval can resolve it" |
| `ThresholdHolds` | several presses of one person; an approval that went through uncounted | `docs/pages/policies.mdx:71`: "number of approvers who must approve" |
| `WindowIsRespected` | a grant that expires between SELECT and claim | `store.rs:5559`: "a clean miss" |
| `CachesAreFresh` | the key a request came with | `admin.rs:2766`: "Old API key invalidated." |
| `PolicyStalenessIsBounded` | an old policy that a late query stores after the invalidation, for up to the TTL | `db_state.rs:274`: "so the proxy picks up the change immediately" |
| `ChangesAreEarned` | the passkey of a proposal where there is no WebAuthn; a proposal denied, or approved a second time, while it is written; a staged change that is claimed and lost | `docs/pages/proxy-api.mdx:454`: "approval is passkey-gated"; `store.rs:6729`: "a safe no-op"; `admin.rs:3670`: "a lost claim race ... is safe"; `app.rs:1266`: "already applied or expired" |
| `ApproversStayInScope` | a scope, a credential or an agent that changes between the check and the insert | `docs/pages/team.mdx:29`: "the only credentials that approver can ... attach"; `docs/pages/proxy-api.mdx:783`: "only for themselves" |
| `RateLimitHolds` | an hour across two windows; an increment that came after its window was pruned; one request less than the limit is served | `docs/pages/policies.mdx:75`: "rolling 1-hour window"; `docs/pages/proxy-api.mdx:803`: "Max requests per hour" |
| `HumanGateHolds` | a policy that could not be read; the policies of further placeholders; a target that is a path | `docs/pages/policies.mdx:25`: "require human approval regardless" |
| `ApproversAreNamed` | named approvers of whom none has a linked id, or could be read; a failed listing of the members | `docs/pages/policies.mdx:67`: "Only those eligible people can approve" |
| `ForwardedAsShown` | a placeholder request with `X-OAuth-Target` | `proxy.rs:2069`: "use X-OAuth-Target as the real target URL" |

Other conditions: `LockHolds`, `AbsentFieldsAreKept` and `ReviewIsHonest` are about writers
whose read is still current, `SecondFactor` excepts a person whose last passkey was removed,
`ResetEndsSessions` a login checked before the reset, `PaidTierWasPaid` a late event for a
plan once paid for, `SecretStaysOnItsHosts` a request whose two reads saw different rows,
`DisconnectHolds` an exchange under way at the disconnect.

## 4 Bounds, time and fairness

*Bounds.* `MaxTime` stops the clock; `MaxVersion` bounds writes; the ids in the
configurations bound everything else. One transaction is enough for the flow,
because requests share no state: every column, map entry and oneshot is keyed by
the transaction id and the cleanup treats rows separately. Two members can
contradict each other and race for a grant; two instances let a decision be
taken away from the process that waits for it; a third of either adds another
copy of the same steps. Lifetimes are the smallest that keep the order of the
real ones: the approval window (3600 s by default) is shorter than the row's
lifetime (600 s more), and the 20 minutes of a row created by an upsert (`PhantomTtl`)
do not exceed the window. In `FlowPages`, where a row
must be able to vanish while its task waits, they are less than it (`PhantomTtl = 1`,
`ApprovalTimeout = 2`); elsewhere the two are equal. A request is received early enough for the clock to
pass the row's expiry, so purges do happen. In `Grants`, TTLs below, at and
above the allowed maximum and a cap of 0, 1 and none are asked for. In the
caches the clock runs past the TTL and the longest query.

*Loads.* In `PolicyChanges`, `Accounts`, `Workspace`, `Handshakes` and `Admission`
everything could be asked for at once, which is out of reach. Their constant `Loads`
is a set of records, each saying what is stored at the start, which operations are
asked for and how many tokens, calls or versions there may be; a behaviour chooses
one in `Init` and keeps it. A load puts together operations that share a table and
can disturb each other (a login and a reset; a deletion and an activation; a
disconnect, a refresh and an access), so that pairs that are apart are those that
touch no common row. The loads are in the `MC` modules with a comment each. In
`PolicyChanges` `ProposalCap` stands for 20, in `Handshakes` `MaxConfirm` for the
hourly budget, in `Admission` a limit of 2 for any limit.

*Symmetry.* Members and instances (grants and calls, readers, requests) are
interchangeable; the sets are used in runs of safety properties and of the
refinement, whose formulas do not name them, never with liveness.

*Time in the flow.* The clock's unit is longer than a poll interval (1-2 s), a
statement or a delivery. So `Tick` waits for handlers in progress and for a task
between two of its steps or past its deadline (`Prompt`), but neither for people
nor for the upstream call, which may be slow. A person has one handler running
at a time; two members run two at once. In `Admission` the clock waits for nobody.
`Accounts`, `Workspace` and `Handshakes` have no clock: what may lapse may lapse at
any time.

*Fairness.* `FairSpec` has weak fairness of the request handler, the waiting task,
each handler's steps and the cleanup job (tokio runs ready tasks, and the job's
interval is 300 s), and strong fairness of `Tick`: people may start a handler
again and again, and each one makes the clock wait only for its own few steps.
Nothing is assumed of people, and a crash is possible at any time. `FlowLive`
has one acting person: with two whose handlers overlap for ever the model's clock
would wait for ever, which is a limit of the abstraction of time, not of the code.
The other modules state no liveness: a handler of theirs ends after a fixed number
of statements, and what it leaves behind when it is cut short lapses by itself.

## 5 Departures

What was met while modelling: behaviour that a comment, a document or a name does
not lead one to expect. The models contain it. Where a text of the repository says
otherwise it is quoted; the properties are stated so that they do not claim more than
the code keeps. One of these is a run of its own, `DenialStands`.

*Approval flow*

* `resolve_and_bridge` (`webauthn.rs:1855`) bridges to the bots even when its own write
  did not hit. An approval refused by an already denied row still signals the Telegram
  waiter, and the denied request is forwarded (`webauthn.rs:1850`: "the second resolve is
  a no-op"; run `DenialStands`).
* `set_pending_details` (`proxy.rs:1535`) saves the row of an end-user's request without
  `required_end_user`; the channel stamps it in a later statement. A team decision in
  between approves it (`approval.rs:30`: "only that end-user's own authenticated approval
  can resolve it").
* `DashboardChannel::wait_for_decision` deletes the row once it reads a decision
  (`dashboard_channel.rs:176`); the approver is read from it afterwards, so the
  audit entry names nobody, and a second decision inserts a new decided row and is
  confirmed although the request went the other way.
* `handle_approval_deny` answers success whatever its writes did, so a denial may be
  confirmed for an approved request.
* `set_pending_approval_challenge` (`store.rs:6880`) creates a missing row as
  `pending`. A ceremony begun after a denial was consumed or purged lets a claim for
  a grant succeed. It also moves the expiry of an existing row to 20 minutes, less
  than the default window, so the request leaves the inbox while the task waits.
* The same 20 minutes (`store.rs:6441`, `6880`, `7151`) against the default window of an
  hour (`main.rs:285`) matter to a reserved request. The challenge shortens the row's life;
  a denial then falls on an expired row, which the clean-up may purge before the channel's
  next poll; and a team's write that comes after it finds no row, inserts an approved one
  without `required_end_user`, and the request is forwarded (16 states with `PhantomTtl = 1`
  and `ApprovalTimeout = 3`). `ReservedForwardNeedsEndUser` therefore speaks of rows that
  were not purged under the waiting task, for any lifetimes. That no statement approves a
  row while it is reserved (`EndUserGate`) holds for any lifetimes, too.
* Every channel reports the end of the window as an error, and the polled status is
  `error`; `docs/pages/proxy-api.mdx:211` lists `timed_out`.
* An approval between the last poll and the claim for the timeout stands, although
  the agent was told the request failed (`dashboard_channel.rs:204`).
* The polled row expires with the window (`store.rs:6779`); a late approval with a
  slow upstream call loses its result. `ResultsAreKept` states what does hold.
* Cleanup skips rows that are still pending (`store.rs:6771`): a row whose task died
  with its process, or whose Matrix task timed out, stays for ever.
  `DecidedRowsArePurged` states what does hold.

*Thresholds.* A Telegram instance that did not post the message knows no threshold,
and one press there approves (`docs/pages/policies.mdx:71`: "number of approvers who
must approve"). The same person may vote twice. Matrix counts in memory at home and in
the row elsewhere, and the two are never added. A failed or slow increment counts as
the last vote (`matrix.rs:601`). The dashboard and the passkey page ignore the
threshold. A restart loses the count in memory.

*Grants and caches*

* `try_claim_grant` binds one reading of the clock to the SELECT and all claims, so a grant
  that expires in between is still used (`store.rs:5559`: "a clean miss").
  `WindowIsRespected` is relative to that reading.
* `scope_from_target` (`grants.rs:82`) does not escape a literal `*` segment of the
  reviewed URL. `MintedGrantIsExact` excepts such paths; the run contains one.
* A rotated key keeps working while requests with the new key keep the agent's cache
  entry fresh (`db_state.rs:98`; `admin.rs:2766` answers "Old API key invalidated.").
* A query begun before a policy write stores the old policy after the invalidation
  (`db_state.rs:262`), where it is served for up to the TTL (`db_state.rs:274`: "so the
  proxy picks up the change immediately").

*Policy changes.* The lock's comparison and the write are two statements. An approval writes
the policy before it claims the proposal, so a proposal denied or expired in the meantime is
applied all the same (`store.rs:6729`: "a safe no-op"), and a second approval merges over
its own, older read (`admin.rs:3670`: "a lost claim race ... is safe"). Without WebAuthn it
asks for no passkey (`docs/pages/proxy-api.mdx:454`: "passkey-gated"). A failed read of the
current policy makes the merge start from an empty row. A staged change overwrites a later
tightening, and one that is claimed by a handler that is then dropped is lost, while
`app.rs:1266` says "already applied or expired". Approvers named by a proposal or an app are
not checked to be members. Naming the first approver counts as permissive, while the channel
and the Matrix approvers are not compared at all. Deleting a credential leaves its policy in
the cache.

*Accounts.* Two owners who demote each other leave a team without one. Passkeys are
counted and deleted in two statements (`admin.rs:5584`). Codes and reset tokens are
read and deleted in two statements. A login whose password was checked before a reset
can open a session after it. The session opened to set up a passkey is an ordinary
one. A second invitation lets a removed member rejoin at the next login. Removing a
member revokes no MCP connection.

*Workspace.* An approver's scope is checked before the agent is written and not looked at
again: a credential whose scope was taken back, or another of its name, is attached
(`docs/pages/team.mdx:29`: "the only credentials that approver can ... attach"), and to
whatever agent has the identifier by then (`docs/pages/proxy-api.mdx:783`: "Approvers can
create keys only for themselves"). A secret is stored before its `allowed_hosts`; an
activation stores the credential before the policy that gates it, and `GateBeforeAccess` is
about the agents it assigns. Limits of the tier are checked before the insert. A
reauthorization that outlives its credential writes into the next one of that name, and the
cleanup of a failed callback may delete it. Two concurrent edits of one field of a value
lose one of them. Two checkouts make two customers. A late event of Stripe upgrades again.
`update_role` on a missing role reports success.

*Handshakes.* An identity staged while a login is being finished is linked by that
login. A code that lapses while it is replayed can open a second family, because its
consumed mark is pruned. A rotation whose answer is lost leaves the client without a
token, as a device row claimed by a crashed handler does. The status `denied` of a
device row is never written. A social signup that conflicts at the link leaves a
verified account nobody can reach. A disconnect covers the session's team only, and an
assertion issued before it can still become a family. One assertion yields several
codes.

*Admission.* An agent with limit `n` gets `n - 1` requests an hour through
(`docs/pages/proxy-api.mdx:803`: "Max requests per hour"), but about twice as many in an
hour that two windows of the clock share (`docs/pages/policies.mdx:75`: "rolling 1-hour
window"), and `/sign` is not counted; a failing counter lets the request through, as a
failing policy look-up does (`docs/pages/policies.mdx:25`: "require human approval
regardless"). On the placeholder path only the first credential's policy applies, two keys
that share a name resolve configuration and team differently, and the approver is shown
`X-OAuth-Target` while the request goes to `X-TAP-Target` (`proxy.rs:2069`: "the real target
URL"). A relative target skips the host binding for direct connectors too, and no URL rule
matches it. Configuration and value are two reads, and both may be minutes old when they are
used. Approvers of whom none has a linked id, or whose rows cannot be read, resolve to an
empty list, which means anyone (`docs/pages/policies.mdx:67`: "Only those eligible people
can approve"). `require_preimage` is never stored. Response headers, freshly exchanged
tokens and bodies over 10 MB are not redacted. A signature that times out or fails, an
exchange that fails and a request whose handler is dropped after forwarding leave no audit
entry. Two machines with one key share a relay's lease.

## 6 Proofs

Theorems hold for every value of the constants that satisfies the named
assumptions, which TLC also evaluates in the runs.

**PendingApprovalsProofs** (assumptions `RowAssumption`: members, end-users and NULL are
distinct, the upserts' lifetime is positive; `StoreAssumption`). The lemma `StepIsStatement`
reduces a step of the table to "each row is untouched, replaced by one statement's result,
or removed", and `RowTypes`, `StatementTypes`, `DecidedRowKept` say what a statement does to
one row, so that each theorem argues about a row and not about the table. `TypeCorrect`;
`ClaimsAreExclusive` (`AtMostOneClaim` is not inductive: nothing in it prevents a second
claim. `ClaimInv` adds that a claimed row is approved, and since a claim needs a pending row
and a decision is final, none follows); `FirstDecisionWins`, `ResolverSurvives` and
`ReservedRowsAreGated` (the approver is the very end-user of the row) are action properties
proved from the type invariant; `AbsentRowsAreEmpty` says that a removed row leaves no
reservation behind, which the gate needs for rows that come back.

**ApprovalFlowProofs** (`RowAssumption`, `FlowAssumption`; `PendingApprovalsProofs` as an
instance, `Table`). Everything is for any number of requests, instances, people,
thresholds and any lifetimes.

* `TypeInv` is `TypeOK` with two facts it lacks to be inductive: a handler's list consists
  of steps that its person may do (`OpsOK`: only an end-user writes as one, only a member
  claims), and a task's verdict fits its program counter (`PhaseOK`). `FlowTypes`.
* `FlowUsesTheStore`: every step of every handler, channel and task is a statement of
  `PendingApprovals` or leaves the table alone. The proof goes through the steps once, and
  `FlowKeepsTheTable` then carries the table's four theorems over to the flow.
* `FlowInv` is about the row, the task, the oneshot and the history of one request:
  `Consent` (an approved row, a signalled oneshot and an approved verdict each have
  somebody who approved), `Wakeful` (a bot's task that waits is registered), `Routed` (which
  channels have a oneshot, that an end-user's request is on the agent-reflected one, and that
  an undecided task has no verdict) and `Reserved` (while the task waits, the row of an
  end-user's request is there and reserved, or it was decided early, or purged). The properties speak
  of verdicts only; a verdict comes from a row or a oneshot, so the facts about those are
  what makes them inductive. `NothingForwardedUnasked`, `WakeupsAreKept`,
  `ReservedForwardsAreEarned`; none needs a hypothesis on the lifetimes.
* `PollInv`: the polled row of a task that has not finished is there, with the task's
  deadline, or the deadline has passed. `ResultsStayPollable`.
* `DefaultInv`, under `DefaultDeployment` (the agent-reflected channel, decisions in the
  dashboard with or without a grant, as in the run `FlowReflected`): handlers are the
  dashboard's (`OpsAreDashboard`), what a person is told is what the row says while it can
  still be polled (`Honoured`), and a claimed row is approved until the grant is made
  (`Granted`). `DecisionsHonoured`, `GrantsNeedConsent`. For other deployments both fail,
  for the reasons in section 5.
* `BotInv`, under `BotDeployment` (people act through the bots only, whatever the channels;
  the other surfaces approve without counting, so the hypothesis is needed). A count is
  kept in two places, and neither says how many people pressed. `Counted`: the count in
  memory is at most the presses, and so is the count in the row plus the number of handlers
  that have yet to add theirs (`Tallies`, by cardinality), until the threshold is reached.
  `Warranted`: an approved row, a signalled approval and an approved verdict are `Settled`,
  that is, enough presses or one that was not counted. `BotOp` says the same of a
  handler past its count, with one exception: a Matrix reaction that comes after a denial
  is not counted, and has no effect because the denied row and the denied oneshot stay
  (`Overruled`). That they stay needs that Matrix writes the row before it signals, and
  that the job cannot purge the row during the wait (`Lasting`). `ThresholdsAreMet`.

**AccessProofs**, grants (`TimeAssumption`, `CapAssumption`, `IdAssumption`,
`CallAssumption`; `TargetAssumption`: a target is a method, a host and a sequence of
segments). The inductive invariant `Facts` is `TypeOK` with facts of rows (an id without a
grant has an empty row, a window is at most `MaxTtl`), of calls (the grant of a granted call
exists, and the call's reading of the clock precedes its expiry) and of uses (each grant's
uses are at least the number of calls it let through, by cardinality). A step is authoring,
waiting, or using (`StepKinds`). `CapBoundsApprovals` alone is not inductive: a grant could
be created over an id that already let a call through, which the facts of rows and calls
exclude. From it: `GrantTypes`, `CapIsHonoured`, `WindowHolds`, `RevocationIsFinal`.
`CoverFacts` adds that a minted grant has the scope of the request it comes from and that
every grant that is tried covers the call's request; `MintedGrantsAreExact` then follows
segment by segment.

**AccessProofs**, the agent's caches (`KeyAssumption`, `TtlAssumption`, `MarkAssumption`).
`AgentFacts` is the inductive invariant for the
two caches and the two queries of a request: what it holds was
current when it began, what the cache holds was current two queries before it was
stored. For the keys it adds that every key in use has been issued, which is what makes
a rotated-in key unknown to `auth_cache`. From it: `AgentAgeIsBounded` (`CachesAreFresh`)
and `CurrentKeyIsServed` (`CurrentKeyIsNotRefused`).

**PolicyChangesProofs** (`TimeAssumption`, `MarkAssumption`, `LoadAssumption`;
`HandlerAssumption`: finitely many handlers, at least one, and a cap; `RequestAssumption`:
requests have the fields and types that serde accepts, the stored row is one that can be
evaluated; hypothesis `ViewsAreRows`: `NoPolicy` is not the view of a row).

The cache by itself: `Facts` adds to `TypeOK` that the current version is not
superseded, that the value of a running query was current when the query began at the
earliest, that a cached value was current at most one query before it was stored, and the
same of an answer. From it: `PolicyTypes`, `PolicyAgeIsBounded`. `ChangesUseTheCache`: every
step of a handler is a step of `PolicyCache` or leaves it alone, so `AgeBesideWriters`
carries the staleness bound over to the composition.

The rules by themselves: `LooseningIsReported`: if `PermissiveChanges` lists nothing, the
new row is not `Looser`, which is a statement about requests, people and numbers and not
about lists. `NothingListed` turns the empty list into inclusions; `NothingMoreIsApproved`
follows the rules of `EvaluatePolicyWithDefault` with them, the missing policy apart.
`ReviewTellsAll` says the same of a proposal: what the review computes from one merge
(`MergedView`) and the table gets from another (`BuildMergedPolicyRow`).

The handlers: `PasskeyLockHolds`: `LockHolds`
speaks of versions already written, and is not inductive; `LockFacts` adds what a
handler holds between the comparison and the write: it has passed the statements that
can still change its row, and unless the credential is gone, the lock had nothing
against replacing the version it saw by that row. `NewVersion` is the step in which a
handler's fact becomes a version's, `OneHandlerMoves` all the others, and
`LooseningIsReported` closes the gap from lists to requests. `AppliedWasEarned`:
`EarnedFacts` says what a handler has verified or claimed at each of its statements, that a
staged change that is claimed has one writer, before or after the write but not both, and
that the statements of an approval come in the order that makes an approved proposal a
written one; `FloodFacts` counts the pending proposals and the handlers that may still
insert one together, since the count and the insert are two statements.
`TheMergesAgree`: `MergeFacts` has the rows in `PolicyRows` and, of a handler between its
read and its write, that its row is the merge of its request with the version it read.

**AdmissionProofs** (`RoutingAssumption`, `AdmissionAssumption`; `LoadAssumption`: shapes of
what is asked and configured, agents belong to teams, members have one row under one
address, policies have names; `StoredAssumption`: what is stored under one name has one
owner and an id belongs to one name). For any requests, agents, credentials, members, edits
and lengths of windows and leases.

The state of a request has 29 fields and 32 actions, and a property depends on few of
either. `Moves(c, kinds, from, to, writes)` says of a step which stages a request leaves and
reaches and which fields change; one lemma per action (`...Moves`) establishes it, and most
actions keep most facts by what they do not write. The facts about one request:

* `Shape` and `Blank`: the stage belongs to the kind, and what later stages write is still
  empty. `Gate`: what is evaluated is the request's own target, and a request past the gate
  was approved or satisfies what the property asks of an unasked one. `GateIsKept`.
* `Keys`: the agents are the valid keys, and one of them serves. `TypesHold`.
* `RateFacts`: as many were let through in a window as its counter says, unless a later
  window has begun to be counted, in which case it was pruned and who still comes is late.
  `LimitsHold`; the bound on the set alone says nothing of the counter the next request
  will read.
* `LeaseFacts`, `RelayCall`: a row of `relay_sessions` is the last of the leases of its
  session, and the leases of other holders are further back than the ttl. `RelaysHold`.
* `RowsFacts`, `Own`: a row that was read was stored under its key at some time, and every
  piece of a route belongs to the request's end-user, however the row is edited later.
  `SecretsAreKeptApart`.
* `Fits`, `Spent`: a route obeys the binding of the row it was checked with; what is sent
  obeys it too, because an id that is substituted for a placeholder is stored under one
  name. `SecretsAreKept`.
* `Placed`, `Guarded`, `RightlyAsked`, `Audited`: the policy is that of a team of the
  request's keys, what is to be signed was guarded, a question has the channel and the people
  of the policy, and the audit entry follows the verdict. `ApprovalsAreInformed`, under the
  hypothesis `NoValueIsNoRecord` (the constant for NULL is not the record of a question or of
  a routing), which TLC cannot evaluate since it ranges over all values, and which a model
  value satisfies. That the channel is open to anyone only for want of linked people is
  `AnyoneForWantOfLinks`.

**AccountsProofs** (`NoTeamAssumption`, `FirstAssumption`, `BoundAssumption`,
`LoadAssumption`: whoever is not there at the start owns nothing). For any people, teams,
passkeys and any number of requests under way.

A session is judged long after the handler that opens it made its checks. `Sound` says
what the tables keep to: rows are owned by accounts that exist, whoever has a role joined
the team, an invitation as owner comes from somebody who was owner, a session was opened by the
factor its person had, and a challenge or code with sessions is gone. `Frame` says of a handler between
two statements which of its checks still hold of the tables as they are now, `Apart` that no
two handlers answer one challenge. A statement keeps `Sound` and relates the tables before
and after by `Grows`, which is all that the frames of the other handlers need
(`Spared` for the handlers that may meet on one number); so each statement is looked at
once and never against every other. `SessionsEarned`, `ResetsEndSessions` and
`OwnersMakeOwners` follow. `Passwords` is for `TypeOK` alone: the model's cap on passwords is
checked when a reset is asked for and the counter moves later, so the bound counts the
resets under way.

**HandshakesProofs** (`NoOneAssumption`; `IdentAssumption`: an identity has a provider and
verified addresses; `BoundAssumption`; `LoadAssumption`: stored accounts and connections have
the shape the handlers leave). The same argument three times, once per handshake:

* of the tables: `Social` (a link made by a login is younger than the proof of the first
  factor, an account made by a signup belongs to its identity, a continuation that was
  claimed is gone), `Device` (a code with a session is claimed) and `Connections` (a family
  goes back to a code, a code to a passkey, the tokens of a family form a chain);
* of one handler under way, `SocFrame`, `DevFrame`, `McpFrame`; of two, `SocApart`,
  `DevApart`, `McpApart`: the row each of them has taken is not the other's;
* of a step, `SocGrows`, `DevGrows`, `McpGrows`: what the other handlers' frames survive.

`Under` says that the handlers under way are of the handshake the behaviour is about, so a
handler of one leaves the facts of the other two (`FactsHold`). From it: `SocialLogins`,
`DeviceLogins`, `McpConnections`, and the action property `LinksStay`, which needs the
facts because the insert of a link is a later statement than the look-up that found none.

**WorkspaceProofs** (`MemberAssumption`: a member is a manager or an approver;
`NameAssumption`: names of end-users are apart from the others, since they have a colon;
`FiniteAssumption`: names, agents and roles are finitely many; `AbsentAssumption`: the mark
of a missing row is not a row; `LoadAssumption`: shapes, and what is stored at the start was
made in the dashboard). For any members, names, agents, apps and requests under way.

A handler carries the list of statements it still has to run, and a read puts more of them
in its place (`Expand`). No induction over the list is needed: every statement of the list
belongs to the set `Right` of those that the handler's checks allow, so lists are judged by
the set their members are from (`Listing`, `ListOfEach`, `AfterHead`). The facts:

* of the tables, `Sound`: foreign keys (`Keyed`), what names a credential means the one
  there is now and not a namesake (`Bare`), names belong to their owners (`Bound`), an
  approver's row names what its scope named when the request was checked (`Scoped`), a
  number makes one credential (`Once`), the agents a setup was activated for come after the
  gate it asked for (`Gated`), and states say who asked and for whom (`Meant`);
* of a handler, `Frame`: what is left of its list is rightful, a claim comes first (`Lined`),
  the gate before the agents (`Secured`), and what it has claimed is its own (`Owns`);
  of two, that they never own the same setup or state (`Apart`);
* of a statement, `Grows`: what the frames of all other handlers survive (`FrameKept`). Each
  statement is looked at once, against `Sound` and `Grows`, and never against every other;
* of Stripe, `Paying` and `Paid`: an event tells of a plan that was paid for, so a tier that
  an event sets was, in whatever order events come.

`NamesAreBound` alone is not inductive: a credential can be deleted and its name used again
between the check of a handler and the statement that assigns it, and what makes the new
row right is that a statement looks its credential up again (`Refers`). From `Facts`:
`NamesStayBound`, `ApproversAreScoped`, `CallbacksEarned`.

Only model-checked: liveness (`FlowLive`), which is beyond this prover, and the run that
ends in a violation. `ThresholdHolds` is checked and proved for people who act through the
bots.

## 7 Not modelled

* In the flow: requests with `require_passkey`; database errors inside the handlers (a
  lost process is modelled, a single failing statement is not, except for the channel's
  send, the count of votes, the grant's creation and the upstream call); session trust;
  the checks of a member's role and of a passkey's signature, which are inputs.
* In `Grants`: the deletion of a credential, which cascades to its grants.
* In the caches: the credential and chat-id caches, which have the pattern of
  `PolicyCache` without the invalidation.
* In `Accounts` and `Handshakes`: cooldowns and per-address budgets, hashing, the
  texts and the delivery of mail, the demo mode of `tap-mcp`.
* In `Workspace`: notification channels, push subscriptions, exports and the pages that
  only read.
* In `Admission`: the body of requests and responses beyond the pieces of secrets in it,
  the serialisation of chain transactions for display, signatures and transport. Text
  is abstracted throughout, so the cut of a preview at byte 500 (`proxy.rs:1522`), which
  panics inside a character, is not modelled.
* The parts `PROJECT.json` lists as `not_modelled`: the vault and key release
  (cryptography), the migration (a one-off copy), the MCP tools and most commands of the
  CLI (clients of the HTTP API), recipes and summaries (text).

## 8 Plan

Modelled so far: everything between a request and the wire, and everything that writes
what it reads. Next, in this order:

1. Requests with `require_passkey` in `ApprovalFlow`, and failing statements inside its
   handlers.
2. The credential and chat-id caches beside `AgentCache`, and the cascade of a deleted
   credential to its grants.
