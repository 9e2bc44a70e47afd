---------------------------- MODULE PolicyChanges ----------------------------
(***************************************************************************)
(* Every way in which the policy of one credential changes: a manager in   *)
(* the dashboard, a partner's app for its end-user, a proposal of an agent *)
(* that a manager approves with a passkey, and a loosening that the end-   *)
(* user approves with theirs (tap-proxy/src/admin.rs, app.rs, the          *)
(* statements of tap-core/src/store.rs).  The handlers read, compare and   *)
(* write in separate statements and may be dropped between any two: a      *)
(* handler here is a record of what it holds, and its Plan is the order of *)
(* its statements.  A write bumps the version of PolicyCache, which this   *)
(* module composes with: requests go on reading through the cache.         *)
(***************************************************************************)
EXTENDS PolicyCache, PolicyRules

CONSTANTS
    Handlers,     \* requests under way that change policies
    Managers,     \* workspace managers
    EndUsers,     \* managed end-users
    Strangers,    \* emails outside the team
    Proposals,    \* ids of proposals
    Changes,      \* ids of staged changes
    Loads,        \* bound of the model: what is asked of the handlers
    ProposalCap,  \* 20 pending proposals of an agent
    NoOne

(* The body of a resolution is one of two words.                           *)
ASSUME LoadAssumption == \A l \in Loads : l.decisions \subseteq {"approve", "deny"}

(* An instance serves finitely many requests at a time, and one at least.  *)
ASSUME HandlerAssumption ==
    IsFiniteSet(Handlers) /\ Handlers # {} /\ ProposalCap \in Nat

People == Managers \cup EndUsers

Patterns == [host : Hosts \cup {AnyHost}, path : Seq(Segments)]

(* The fields of a request as they are parsed: any number, any word for a  *)
(* channel.                                                                *)
RequestFields ==
    [autoMethods |-> SUBSET {"GET", "get", "HEAD", "POST", "post"},
     requireMethods |-> SUBSET {"GET", "get", "HEAD", "POST", "post"},
     autoUrls |-> SUBSET Patterns, requireUrls |-> SUBSET Patterns,
     approvers |-> SUBSET (People \cup Strangers), channel |-> STRING,
     place |-> {"none", "place"}, matrixApprovers |-> SUBSET (People \cup Strangers),
     passkey |-> BOOLEAN, min |-> Nat]

(* Rows that the evaluation can read.                                      *)
PolicyRows ==
    [autoMethods : RequestFields.autoMethods, requireMethods : RequestFields.requireMethods,
     autoUrls : RequestFields.autoUrls, requireUrls : RequestFields.requireUrls,
     approvers : RequestFields.approvers,
     channel : {"none", "telegram", "matrix", "dashboard", "agent_reflected", "app"},
     place : RequestFields.place, matrixApprovers : RequestFields.matrixApprovers,
     passkey : RequestFields.passkey, min : Nat \ {0}]

Parses(req, fields) ==
    /\ DOMAIN req \subseteq fields
    /\ \A f \in DOMAIN req : req[f] \in RequestFields[f]

(* The bodies serde accepts: SetPolicyRequest, AppPolicyUpdate, which has  *)
(* no channel and always a passkey flag, and the payload of a proposal.    *)
ASSUME RequestAssumption ==
    /\ NoPolicy \notin PolicyRows
    /\ \A l \in Loads :
           /\ l.first \in PolicyRows \cup {NoPolicy}
           /\ \A req \in l.sets \cup l.templates : Parses(req, DOMAIN EmptyRow)
           /\ \A req \in l.apps :
                  Parses(req, DOMAIN DefaultBaseline) /\ "passkey" \in DOMAIN req
           /\ \A req \in l.payloads : Parses(req, DOMAIN DefaultBaseline)

VARIABLES
    load,         \* what is asked in this behaviour
    rows,         \* version -> the row of the policies table
    authors,      \* version -> what the handler that wrote it held (history)
    exists,       \* the credential has not been deleted
    templates,    \* the rows of one policy template, oldest first
    proposals,    \* the proposals table
    changes,      \* the pending_policy_changes table
    challenges,   \* id -> whose passkeys the open challenge accepts
    work          \* handler -> what it holds

changeVars == <<rows, authors, exists, templates, proposals, changes, challenges, work>>
allVars == <<vars, load, changeVars>>

Rest == [kind |-> "idle", at |-> 0, by |-> NoOne, id |-> NoOne, names |-> {},
         row |-> NoPolicy, read |-> Never, seen |-> Never, key |-> NoOne, version |-> 0]

NoProposal == [status |-> "none", payload |-> << >>, by |-> NoOne, lapsed |-> FALSE]
NoChange == [status |-> "none", row |-> NoPolicy, endUser |-> NoOne, lapsed |-> FALSE]

ChangesInit ==
    /\ Init
    /\ load \in Loads
    /\ rows = [v \in 0 .. MaxVersion |-> IF v = 0 THEN load.first ELSE NoPolicy]
    /\ authors = [v \in 0 .. MaxVersion |-> Rest]
    /\ exists = TRUE
    /\ templates = <<[row |-> load.first, author |-> Rest]>>
    /\ proposals = [p \in Proposals |-> NoProposal]
    /\ changes = [c \in Changes |-> NoChange]
    /\ challenges = [i \in Proposals \cup Changes |-> {}]
    /\ work = [h \in Handlers |-> Rest]

-----------------------------------------------------------------------------
(* The statements, in the order in which each handler makes them           *)

(* Faulty variant: a proposal is claimed before its policy is written.     *)
PlanClaimingFirst(kind) ==
    CASE kind = "set" -> <<"urls", "lock", "write", "invalidate">>
      [] kind = "app" -> <<"urls", "lock", "write", "invalidate">>
      [] kind = "template" -> <<"urls", "write">>
      [] kind = "propose" -> <<"insert">>
      [] kind = "begin" -> <<"challenge">>
      [] kind = "deny" -> <<"claim">>
      [] kind = "approve" -> <<"take", "merge", "lock", "claim", "write", "invalidate">>
      [] kind = "finish" -> <<"take", "claim", "write", "invalidate">>

Plan(kind) ==
    CASE kind = "set" -> <<"urls", "lock", "write", "invalidate">>
      [] kind = "app" -> <<"urls", "lock", "write", "invalidate">>
      [] kind = "template" -> <<"urls", "write">>
      [] kind = "propose" -> <<"insert">>
      [] kind = "begin" -> <<"challenge">>
      [] kind = "deny" -> <<"claim">>
      [] kind = "approve" -> <<"take", "merge", "lock", "write", "invalidate", "claim">>
      [] kind = "finish" -> <<"take", "claim", "write", "invalidate">>

Step(h) == IF work[h].kind = "idle" THEN "idle" ELSE Plan(work[h].kind)[work[h].at]

Onward(w) == IF w.at < Len(Plan(w.kind)) THEN [w EXCEPT !.at = @ + 1] ELSE Rest

Started(kind, by, id, names, row) ==
    [kind |-> kind, at |-> 1, by |-> by, id |-> id, names |-> names, row |-> row,
     read |-> Never, seen |-> Never, key |-> NoOne, version |-> 0]

Begin(h, w) ==
    /\ Step(h) = "idle"
    /\ Cardinality({g \in Handlers : Step(g) # "idle"}) < load.atOnce
    /\ work' = [work EXCEPT ![h] = w]

GoesOn(h) == work' = [work EXCEPT ![h] = Onward(@)]
Ends(h) == work' = [work EXCEPT ![h] = Rest]

Tables == <<rows, authors, exists, templates, proposals, changes, challenges>>

Current == rows[policy]

-----------------------------------------------------------------------------
(* The requests                                                            *)

ValidateApproverEmails(emails) == emails \subseteq Managers

NormalizePolicyApprovalChannel(req) ==
    "channel" \in DOMAIN req =>
        req.channel \in {"none", "telegram", "matrix", "dashboard", "agent_reflected", "app"}

Asked(req, f) == IF f \in DOMAIN req THEN req[f] ELSE {}

SetPolicyRequest(req) ==
    /\ ValidateApproverEmails(Asked(req, "approvers"))
    /\ ValidateApproverEmails(Asked(req, "matrixApprovers"))
    /\ NormalizePolicyApprovalChannel(req)

(* PUT /admin/policies/{name}: a field that is not sent gets its default,  *)
(* except for the URLs that must be approved.                              *)
HandleSetPolicy(h, m, req) ==
    /\ SetPolicyRequest(req)
    /\ Begin(h, Started("set", m, NoOne, DOMAIN req, BuildMergedPolicyRow(req, NoPolicy)))
    /\ UNCHANGED <<vars, load, Tables>>

HandleSetPolicyTemplate(h, m, req) ==
    /\ SetPolicyRequest(req)
    /\ Begin(h, Started("template", m, NoOne, DOMAIN req, BuildMergedPolicyRow(req, NoPolicy)))
    /\ UNCHANGED <<vars, load, Tables>>

(* PUT /app/users/{ext}/credentials/{name}/policy: approvers are taken as  *)
(* they come; without a passkey the approvals are the app's own.           *)
HandleSetEndUserPolicy(h, e, req) ==
    LET row == [BuildMergedPolicyRow(req, NoPolicy) EXCEPT
                   !.channel = IF req.passkey THEN "none" ELSE "app",
                   !.place = "none", !.matrixApprovers = {}]
    IN  /\ load.owner = "end_user"
        /\ Begin(h, Started("app", e, NoOne, DOMAIN req, row))
        /\ UNCHANGED <<vars, load, Tables>>

Pending(r) == r.status = "pending" /\ ~r.lapsed

(* Faulty variant: the cap itself is let through.                          *)
BelowCapOrAtIt(n) == n <= ProposalCap

UnderCap(n) == n < ProposalCap

(* POST /agent/proposals counts, then inserts.                             *)
HandleAgentCreateProposal(h, payload) ==
    /\ ValidatePayload(payload, load.owner)
    /\ UnderCap(Cardinality({p \in Proposals : Pending(proposals[p])}))
    /\ Begin(h, Started("propose", NoOne, NoOne, DOMAIN payload, payload))
    /\ UNCHANGED <<vars, load, Tables>>

(* GET /team/proposals: each with the permissive changes it would make.    *)
HandleListProposals(payload, current) ==
    PermissiveChanges(CurrentView(current), MergedView(payload, CurrentView(current)))

(* Without WebAuthn (load.webauthn) no ceremony begins.                     *)
HandleBeginProposalApproval(h, m, p) ==
    /\ proposals[p].status = "pending" /\ load.webauthn
    /\ Begin(h, Started("begin", m, p, {}, NoPolicy))
    /\ UNCHANGED <<vars, load, Tables>>

(* The body says approve or deny.                                          *)
HandleResolveProposal(h, m, p, decision) ==
    /\ proposals[p].status = "pending"
    /\ Begin(h, Started(decision, m, p, DOMAIN proposals[p].payload, NoPolicy))
    /\ UNCHANGED <<vars, load, Tables>>

HandlePolicyChangePasskeyBegin(h, e, c) ==
    /\ changes[c].status = "pending" /\ changes[c].endUser = e /\ load.webauthn
    /\ Begin(h, Started("begin", e, c, {}, NoPolicy))
    /\ UNCHANGED <<vars, load, Tables>>

(* The row is read whatever its status is; the claim will tell.            *)
HandlePolicyChangePasskeyFinish(h, e, c) ==
    /\ changes[c].status # "none" /\ changes[c].endUser = e /\ load.webauthn
    /\ Begin(h, Started("finish", e, c, {}, changes[c].row))
    /\ UNCHANGED <<vars, load, Tables>>

(* The handler's future is dropped, with its client or with its instance.  *)
Dropped(h) ==
    /\ Step(h) # "idle"
    /\ Ends(h)
    /\ UNCHANGED <<vars, load, Tables>>

-----------------------------------------------------------------------------
(* Their statements                                                        *)

LatestTemplate == templates[Len(templates)].row

UrlsOf(row) == IF row = NoPolicy THEN {} ELSE row.requireUrls

(* get_policy or get_policy_template, when the request names no URLs that  *)
(* must be approved: the ones in force are kept.                           *)
KeepUrls(h) ==
    /\ Step(h) = "urls"
    /\ \/ /\ "requireUrls" \in work[h].names
          /\ GoesOn(h)
       \/ /\ "requireUrls" \notin work[h].names /\ work[h].kind # "template"
          /\ work' = [work EXCEPT ![h] =
                 [Onward(@) EXCEPT !.row.requireUrls = UrlsOf(Current), !.read = policy]]
       \/ /\ "requireUrls" \notin work[h].names /\ work[h].kind = "template"
          /\ work' = [work EXCEPT ![h] =
                 [Onward(@) EXCEPT !.row.requireUrls = UrlsOf(LatestTemplate),
                                   !.read = Len(templates)]]
    /\ UNCHANGED <<vars, load, Tables>>

(* The lock of an end-user's credential, while its policy wants a passkey. *)
EndUserPolicyLock(row) ==
    /\ exists /\ load.owner = "end_user"
    /\ Current # NoPolicy
    /\ Current.passkey
    /\ PermissiveChanges(CurrentView(Current), PolicyViewFromRow(row)) # {}

CheckLock(h) ==
    /\ Step(h) = "lock"
    /\ ~EndUserPolicyLock(work[h].row)
    /\ work' = [work EXCEPT ![h] = [Onward(@) EXCEPT !.seen = policy]]
    /\ UNCHANGED <<vars, load, Tables>>

(* Locked: a manager is refused, an app's change is staged for the end-    *)
(* user's passkey.                                                         *)
RefuseLocked(h) ==
    /\ Step(h) = "lock" /\ work[h].kind # "app"
    /\ EndUserPolicyLock(work[h].row)
    /\ Ends(h)
    /\ UNCHANGED <<vars, load, Tables>>

CreatePendingPolicyChange(c, e, row) ==
    /\ changes[c].status = "none"
    /\ changes' = [changes EXCEPT ![c] =
           [status |-> "pending", row |-> row, endUser |-> e, lapsed |-> FALSE]]

StageChange(h, c) ==
    /\ Step(h) = "lock" /\ work[h].kind = "app"
    /\ EndUserPolicyLock(work[h].row)
    /\ CreatePendingPolicyChange(c, work[h].by, work[h].row)
    /\ Ends(h)
    /\ UNCHANGED <<vars, load, rows, authors, exists, templates, proposals, challenges>>

(* set_policy is one upsert; the foreign key fails it without a credential.*)
SetPolicyRow(h) ==
    /\ SetPolicy
    /\ rows' = [rows EXCEPT ![policy + 1] = work[h].row]
    /\ authors' = [authors EXCEPT ![policy + 1] = work[h]]
    /\ work' = [work EXCEPT ![h] = [Onward(@) EXCEPT !.version = policy + 1]]

WritePolicy(h) ==
    /\ Step(h) = "write" /\ work[h].kind # "template"
    /\ exists
    /\ SetPolicyRow(h)
    /\ UNCHANGED <<load, exists, templates, proposals, changes, challenges>>

WriteFails(h) ==
    /\ Step(h) = "write" /\ work[h].kind # "template"
    /\ ~exists
    /\ Ends(h)
    /\ UNCHANGED <<vars, load, Tables>>

WriteTemplate(h) ==
    /\ Step(h) = "write" /\ work[h].kind = "template"
    /\ Len(templates) <= MaxVersion
    /\ templates' = Append(templates, [row |-> work[h].row, author |-> work[h]])
    /\ Ends(h)
    /\ UNCHANGED <<vars, load, rows, authors, exists, proposals, changes, challenges>>

DeletePolicyTemplate ==
    /\ "template" \in load.deletes /\ Len(templates) <= MaxVersion
    /\ templates' = Append(templates, [row |-> NoPolicy, author |-> Rest])
    /\ UNCHANGED <<vars, load, rows, authors, exists, proposals, changes, challenges, work>>

Invalidate(h) ==
    /\ Step(h) = "invalidate"
    /\ InvalidatePolicyCache(work[h].version)
    /\ GoesOn(h)
    /\ UNCHANGED <<load, Tables>>

(* Deleting the credential takes its policy along; the cache is not told.  *)
DeleteCredential ==
    /\ "credential" \in load.deletes /\ exists
    /\ exists' = FALSE
    /\ SetPolicy
    /\ rows' = [rows EXCEPT ![policy + 1] = NoPolicy]
    /\ UNCHANGED <<load, authors, templates, proposals, changes, challenges, work>>

CreateProposal(h, p) ==
    /\ Step(h) = "insert" /\ p \in load.ids
    /\ proposals[p].status = "none"
    /\ proposals' = [proposals EXCEPT ![p] =
           [status |-> "pending", payload |-> work[h].row, by |-> NoOne, lapsed |-> FALSE]]
    /\ Ends(h)
    /\ UNCHANGED <<vars, load, rows, authors, exists, templates, changes, challenges>>

(* Faulty variant: every passkey of the deployment is offered.             *)
EveryPasskey(person) == People

(* session_approval_passkeys of a manager, approver_passkeys_for of an     *)
(* end-user: a passkey is known here by its owner.                         *)
PasskeysOf(person) == {person}

SetPendingApprovalChallenge(i, keys) == challenges' = [challenges EXCEPT ![i] = keys]

BeginApproval(h) ==
    /\ Step(h) = "challenge"
    /\ SetPendingApprovalChallenge(work[h].id, PasskeysOf(work[h].by))
    /\ Ends(h)
    /\ UNCHANGED <<vars, load, rows, authors, exists, templates, proposals, changes>>

(* The challenge is taken first, whatever the assertion is worth.          *)
FinishApproval(h, key) ==
    /\ Step(h) = "take" /\ (work[h].kind = "approve" => load.webauthn)
    /\ SetPendingApprovalChallenge(work[h].id, {})
    /\ \/ /\ key \in challenges[work[h].id] /\ key \in PasskeysOf(work[h].by)
          /\ work' = [work EXCEPT ![h] = [Onward(@) EXCEPT !.key = key]]
       \/ /\ ~(key \in challenges[work[h].id] /\ key \in PasskeysOf(work[h].by))
          /\ Ends(h)
    /\ UNCHANGED <<vars, load, rows, authors, exists, templates, proposals, changes>>

(* "if let Some(wa)": without WebAuthn a proposal is approved by a request  *)
(* alone.                                                                  *)
ApproveUnasked(h) ==
    /\ Step(h) = "take" /\ work[h].kind = "approve" /\ ~load.webauthn
    /\ GoesOn(h)
    /\ UNCHANGED <<vars, load, Tables>>

(* A failed read of the current policy is taken for "no policy".           *)
MergeProposal(h) ==
    LET payload == proposals[work[h].id].payload IN
        /\ Step(h) = "merge"
        /\ \/ ~exists /\ Ends(h)
           \/ /\ exists
              /\ work' = [work EXCEPT ![h] = [Onward(@) EXCEPT
                     !.row = BuildMergedPolicyRow(payload, Current), !.read = policy]]
           \/ /\ exists /\ load.reads = "may_fail"
              /\ work' = [work EXCEPT ![h] = [Onward(@) EXCEPT
                     !.row = BuildMergedPolicyRow(payload, NoPolicy)]]
        /\ UNCHANGED <<vars, load, Tables>>

(* The UPDATE finds the row only while it is pending and has not expired.  *)
ResolveProposal(h) ==
    LET p == work[h].id
        status == IF work[h].kind = "deny" THEN "denied" ELSE "approved"
    IN  /\ Step(h) = "claim" /\ work[h].kind # "finish"
        /\ proposals' = IF Pending(proposals[p])
                        THEN [proposals EXCEPT ![p].status = status, ![p].by = work[h].by]
                        ELSE proposals
        /\ IF Pending(proposals[p]) THEN GoesOn(h) ELSE Ends(h)
        /\ UNCHANGED <<vars, load, rows, authors, exists, templates, changes, challenges>>

(* Faulty variant: a change that was applied can be claimed again.         *)
ClaimsAnyChange(c, e) == changes[c].endUser = e /\ ~changes[c].lapsed

ClaimsChange(c, e) == Pending(changes[c]) /\ changes[c].endUser = e

ClaimPendingPolicyChange(h) ==
    LET c == work[h].id IN
        /\ Step(h) = "claim" /\ work[h].kind = "finish"
        /\ \/ /\ ClaimsChange(c, work[h].by)
              /\ changes' = [changes EXCEPT ![c].status = "applied"]
              /\ GoesOn(h)
           \/ /\ ~ClaimsChange(c, work[h].by)
              /\ Ends(h)
              /\ UNCHANGED changes
        /\ UNCHANGED <<vars, load, rows, authors, exists, templates, proposals, challenges>>

(* Seven days, fifteen minutes.                                            *)
ProposalLapses(p) ==
    /\ load.lapses /\ Pending(proposals[p])
    /\ proposals' = [proposals EXCEPT ![p].lapsed = TRUE]
    /\ UNCHANGED <<vars, load, rows, authors, exists, templates, changes, challenges, work>>

ChangeLapses(c) ==
    /\ load.lapses /\ Pending(changes[c])
    /\ changes' = [changes EXCEPT ![c].lapsed = TRUE]
    /\ UNCHANGED <<vars, load, rows, authors, exists, templates, proposals, challenges, work>>

-----------------------------------------------------------------------------

Request(h) ==
    \/ \E m \in load.managers, req \in load.sets : HandleSetPolicy(h, m, req)
    \/ \E m \in load.managers, req \in load.templates : HandleSetPolicyTemplate(h, m, req)
    \/ \E e \in EndUsers, req \in load.apps : HandleSetEndUserPolicy(h, e, req)
    \/ \E payload \in load.payloads : HandleAgentCreateProposal(h, payload)
    \/ \E m \in load.managers, p \in Proposals : HandleBeginProposalApproval(h, m, p)
    \/ \E m \in load.managers, p \in Proposals, d \in load.decisions :
           HandleResolveProposal(h, m, p, d)
    \/ \E e \in EndUsers, c \in Changes : HandlePolicyChangePasskeyBegin(h, e, c)
    \/ \E e \in EndUsers, c \in Changes : HandlePolicyChangePasskeyFinish(h, e, c)

Statement(h) ==
    \/ KeepUrls(h)
    \/ CheckLock(h)
    \/ RefuseLocked(h)
    \/ \E c \in Changes : StageChange(h, c)
    \/ WritePolicy(h)
    \/ WriteFails(h)
    \/ WriteTemplate(h)
    \/ Invalidate(h)
    \/ \E p \in Proposals : CreateProposal(h, p)
    \/ BeginApproval(h)
    \/ \E key \in People : FinishApproval(h, key)
    \/ ApproveUnasked(h)
    \/ MergeProposal(h)
    \/ ResolveProposal(h)
    \/ ClaimPendingPolicyChange(h)

(* Requests read through the cache while all this goes on.                 *)
Reads ==
    /\ load.readers
    /\ (\E r \in Readers : Read(r)) \/ Tick
    /\ UNCHANGED <<load, changeVars>>

ChangesNext ==
    \/ \E h \in Handlers : Request(h) \/ Statement(h) \/ Dropped(h)
    \/ DeletePolicyTemplate
    \/ DeleteCredential
    \/ \E p \in Proposals : ProposalLapses(p)
    \/ \E c \in Changes : ChangeLapses(c)
    \/ Reads

ChangesSpec == ChangesInit /\ [][ChangesNext]_allVars

-----------------------------------------------------------------------------
(* Properties                                                              *)

(* What the tables hold is a policy the evaluation can read: at least one  *)
(* approval, a channel that exists, and nothing beyond the last version.   *)
RowsAreWellFormed ==
    /\ \A v \in 0 .. policy : rows[v] \in PolicyRows \cup {NoPolicy}
    /\ \A i \in DOMAIN templates : templates[i].row \in PolicyRows \cup {NoPolicy}
    /\ \A v \in policy + 1 .. MaxVersion : rows[v] = NoPolicy
    /\ \A h \in Handlers :
           Step(h) \in {"write", "lock"} => work[h].row \in PolicyRows

Methods == {"GET", "HEAD", "POST"}

(* The passkey lock of end_user_policy_lock (app.rs:1001): while the       *)
(* policy of an end-user's credential wants a passkey, no write lets       *)
(* through a request that waited for a human, drops the passkey, lowers    *)
(* the number of approvals or admits an approver, unless that end-user     *)
(* has approved it, or another write came between the comparison and the   *)
(* write.                                                                  *)
LockHolds ==
    \A v \in 1 .. policy :
        LET a == authors[v] IN
            /\ load.owner = "end_user"
            /\ rows[v] # NoPolicy /\ rows[v - 1] # NoPolicy
            /\ rows[v - 1].passkey
            /\ Looser(rows[v - 1], rows[v], Methods, load.urls, People \cup Strangers)
            => a.kind = "finish" \/ a.seen # v - 1

(* "An absent field is left UNCHANGED when the change is applied", and a   *)
(* manager's or an app's request that names no require_approval_urls       *)
(* keeps them: true of every write whose handler read the version that it  *)
(* replaces.                                                               *)
AbsentFieldsAreKept ==
    /\ \A v \in 1 .. policy :
           LET a == authors[v] IN
               a.read = v - 1 /\ rows[v - 1] # NoPolicy =>
                   \A f \in IF a.kind = "approve" THEN DOMAIN EmptyRow ELSE {"requireUrls"} :
                       f \notin a.names => rows[v][f] = rows[v - 1][f]
    /\ \A i \in 2 .. Len(templates) :
           LET a == templates[i].author IN
               a.read = i - 1 => templates[i].row.requireUrls = UrlsOf(templates[i - 1].row)

(* Where WebAuthn is configured, a policy is written for a proposal only   *)
(* after a passkey of the very manager who approves it has been verified   *)
(* for that proposal (admin.rs:3546), and everywhere it is written for a   *)
(* staged change only after one of the very end-user the change was staged *)
(* for (app.rs:1250).                                                      *)
StepUpIsOwn ==
    \A v \in 1 .. policy :
        LET a == authors[v] IN
            /\ a.kind = "finish" \/ (a.kind = "approve" /\ load.webauthn) => a.key = a.by
            /\ a.kind = "finish" => a.by = changes[a.id].endUser

(* "Single-use, so a replayed passkey-finish can't apply twice": a staged  *)
(* change is written once at most, and as it was staged.                   *)
ChangeAppliedOnce ==
    \A v, w \in 1 .. policy :
        authors[v].kind = "finish" =>
            /\ rows[v] = changes[authors[v].id].row
            /\ authors[w].kind = "finish" /\ authors[w].id = authors[v].id => v = w

(* A proposal that is marked approved has been written to the policies     *)
(* table, wherever its handler was dropped.                                *)
ApprovedWasApplied ==
    \A p \in Proposals :
        proposals[p].status = "approved" =>
            \E v \in 1 .. policy : authors[v].kind = "approve" /\ authors[v].id = p

(* "A manager sees, at a glance, every way a proposed change loosens       *)
(* enforcement": a proposal that is shown to loosen nothing loosens        *)
(* nothing, though what is shown and what is written are merged by two     *)
(* different functions, if it is applied to the version that was reviewed. *)
ReviewIsHonest ==
    \A v \in 1 .. policy :
        LET a == authors[v]
            payload == proposals[a.id].payload
        IN  /\ a.kind = "approve" /\ a.read = v - 1
            /\ HandleListProposals(payload, rows[v - 1]) = {}
            => ~Looser(rows[v - 1], rows[v], Methods, load.urls, People \cup Strangers)

(* The flood cap: the count and the insert are two statements, so at most  *)
(* one proposal more than the cap allows per other request under way.      *)
ProposalFloodIsBounded ==
    Cardinality({p \in Proposals : Pending(proposals[p])})
        <= ProposalCap + Cardinality(Handlers) - 1

(* Rows can be evaluated, what a request leaves out stays, and a review    *)
(* tells every loosening: RowsAreWellFormed, AbsentFieldsAreKept and       *)
(* ReviewIsHonest, the three things the two merges of admin.rs and         *)
(* proposals.rs have to agree on.                                          *)
MergesAgree == RowsAreWellFormed /\ AbsentFieldsAreKept /\ ReviewIsHonest

(* What is written for others was asked of them: StepUpIsOwn,              *)
(* ChangeAppliedOnce (of staged changes), ApprovedWasApplied, and the      *)
(* queue of handle_propose stays bounded.  Four things that the repository *)
(* says are not asked, for the code does not have them:                    *)
(*   - "approval is passkey-gated" (proxy-api.mdx:454): not on a           *)
(*     deployment without WebAuthn;                                        *)
(*   - "a resolve on another instance is a safe no-op" (store.rs:6729):    *)
(*     the policy is written before the row is claimed, so also for a      *)
(*     proposal that another manager has denied meanwhile;                 *)
(*   - "set_policy is an idempotent upsert so a lost claim race ... is     *)
(*     safe" (admin.rs:3670): the second write of a proposal undoes what   *)
(*     was written between the two;                                        *)
(*   - "This change was already applied or expired" (app.rs:1266): a       *)
(*     staged change is claimed before it is written, so that it may have  *)
(*     been claimed and lost.                                              *)
ChangesAreEarned == StepUpIsOwn /\ ChangeAppliedOnce /\ ApprovedWasApplied /\ ProposalFloodIsBounded
=============================================================================
