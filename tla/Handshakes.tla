------------------------------ MODULE Handshakes ------------------------------
(***************************************************************************)
(* The handshakes that end in a session or a token and that run through a  *)
(* browser: login with Google or GitHub (google_login.rs, github_login.rs),*)
(* the device authorization of the command line (admin.rs, tap-cli), and   *)
(* the OAuth of MCP clients, whose authorization server is tap-mcp and     *)
(* whose tokens the proxy mints (tap-mcp/src/lib.rs, mcp_auth.rs,          *)
(* mcp_internal.rs, mcp_tokens.rs).                                        *)
(*                                                                         *)
(* Each of the three keeps its tables in a record (soc, dev, mcp).  A      *)
(* statement is an operator from such records to such records; a handler   *)
(* is a call with one step per statement that matters, and may be cut      *)
(* short after any of them.  Rows and signed values may lapse at any time. *)
(* Fields marked "history" are not columns.                                *)
(***************************************************************************)
EXTENDS Naturals, FiniteSets

CONSTANTS
    People,      \* people, each with one email address
    NoOne,
    Idents,      \* accounts at the providers
    Provider,    \* Provider[i]: "google" or "github"
    Emails,      \* Emails[i]: whose address i may have as its verified address
    Browsers,
    Teams,
    Parties,     \* MCP clients
    Callers,     \* requests handled at the same time
    MaxConfirm,  \* DEVICE_CONFIRM_MAX_PER_USER_PER_HOUR
    Loads        \* [part, ops, idents, browsers, webauthn, accounts, mcp, windows, tokens]:
                 \* the handshake a behaviour is about, what is asked for and by whom, the
                 \* deployment, the accounts and MCP tables at the start, and the bounds
                 \* of the model on the hours that pass and the tokens issued

ASSUME NoOneAssumption == NoOne \notin People
ASSUME IdentAssumption ==
    /\ Provider \in [Idents -> {"google", "github"}] /\ Emails \in [Idents -> SUBSET People]
    /\ "none" \notin Idents
ASSUME BoundAssumption == MaxConfirm \in Nat

VARIABLES
    load,   \* the member of Loads this behaviour is about
    soc,    \* login with a provider
    dev,    \* device authorization
    mcp,    \* MCP connections
    call    \* the handlers under way

vars == <<load, soc, dev, mcp, call>>

Idle == [op |-> "idle"]

NoConnections ==
    [clients |-> {}, requests |-> {}, challenges |-> {}, assertions |-> {}, codes |-> {}, consumed |-> {},
     families |-> {}, tokens |-> {}, proved |-> {}, acted |-> {},
     agent |-> [u \in People |-> [t \in Teams |-> "none"]], next |-> 1]

(* The rows and signed values of MCP connections.                          *)
RequestRow == [id : Nat, client : Parties, by : Parties]
AssertionRow ==
    [id : Nat, request : RequestRow, subject : People, team : Teams, age : {"fresh", "late", "dead"}]
CodeRow == [id : Nat, assertion : AssertionRow, request : RequestRow, lapsed : BOOLEAN]
FamilyRow ==
    [id : Nat, subject : People, team : Teams, client : Parties, current : Nat,
     status : {"live", "revoked", "expired"}, code : Nat, late : BOOLEAN, request : RequestRow]
TokenRow == [family : Nat, jti : Nat, parent : Nat, client : Parties, party : Parties]

McpTables ==
    [clients : SUBSET Parties, requests : SUBSET RequestRow, challenges : SUBSET [id : Nat, user : People],
     assertions : SUBSET AssertionRow, codes : SUBSET CodeRow, consumed : SUBSET Nat,
     families : SUBSET FamilyRow, tokens : SUBSET TokenRow, proved : SUBSET [user : People, request : RequestRow],
     acted : SUBSET [family : Nat, late : BOOLEAN], agent : [People -> [Teams -> {"none", "scoped", "all"}]],
     next : Nat]

Proved(d, u, request) == [user |-> u, request |-> request] \in d.proved

(* A code that was consumed stays so until it lapses.                      *)
Spent(d, n) == n \in d.consumed \/ \A k \in d.codes : k.id = n => k.lapsed

(* How the tables and what is signed hang together, at any time: every     *)
(* assertion, code and family goes back to a passkey that was used for it, *)
(* and the tokens of a family form one chain, each made from the one that  *)
(* was current.                                                            *)
Traced(d) ==
    /\ \A a \in d.assertions : Proved(d, a.subject, a.request)
    /\ \A k \in d.codes :
          k.id < d.next /\ k.request = k.assertion.request /\ Proved(d, k.assertion.subject, k.request)
    /\ \A j, k \in d.codes : j.id = k.id => j = k

Recorded(d) ==
    /\ \A f \in d.families :
          /\ f.id < d.next /\ f.current < d.next /\ f.code < d.next
          /\ Proved(d, f.subject, f.request) /\ Spent(d, f.code)
    /\ \A f, g \in d.families : f.id = g.id => f = g
    /\ \A f, g \in d.families : f.code = g.code /\ f # g => f.late \/ g.late

Chained(d) ==
    /\ \A tk \in d.tokens :
          /\ tk.parent < tk.jti
          /\ \E f \in d.families : f.id = tk.family /\ f.request.by = tk.party /\ tk.jti <= f.current
    /\ \A x, y \in d.tokens : x.family = y.family /\ x.parent = y.parent => x = y
    /\ \A x \in d.acted : ~x.late /\ \E f \in d.families : f.id = x.family

Connections(d) == d \in McpTables /\ d.next > 0 /\ Traced(d) /\ Recorded(d) /\ Chained(d)

(* Accounts: whatever is verified came about somehow.                      *)
AccountRow ==
    [origin : Idents \cup {"none", "password"}, verified : {"no", "code", "provider"}, keys : BOOLEAN]

Vouched(a) ==
    /\ a.verified # "no" => a.origin # "none"
    /\ a.verified = "provider" => a.origin \in Idents

(* A behaviour starts from tables an earlier one can have left.            *)
ASSUME LoadAssumption ==
    \A l \in Loads :
        /\ l.idents \subseteq Idents /\ l.browsers \subseteq Browsers
        /\ l.accounts \in [People -> AccountRow] /\ \A u \in People : Vouched(l.accounts[u])
        /\ Connections(l.mcp)

Asked(op) == op \in load.ops

Begin(c, f) == call[c] = Idle /\ call' = [call EXCEPT ![c] = f]
Continue(c, f) == call' = [call EXCEPT ![c] = f]
Return(c) == call' = [call EXCEPT ![c] = Idle]

(* Bound of the model: tokens, codes and rows issued in a behaviour.       *)
Room(d) == d.next <= load.tokens

-----------------------------------------------------------------------------
(* Login with a provider: statements                                       *)

NoAccount == [origin |-> "none", verified |-> "no", keys |-> FALSE]

(* create_login_oauth_state: bound to the nonce the browser got as cookie. *)
CreateLoginOauthState(d, p, b) ==
    [d EXCEPT !.states = @ \cup {[id |-> d.next, provider |-> p, browser |-> b]},
              !.cookie[b] = d.next, !.next = @ + 1]

(* take_login_oauth_state                                                  *)
TakeLoginOauthState(d, st) == [d EXCEPT !.states = @ \ {st}]

(* create_login_continuation; where the flow began is history.             *)
CreateLoginContinuation(d, kind, u, i, e, b, began) ==
    [d EXCEPT !.conts = @ \cup {[id |-> d.next, kind |-> kind, user |-> u, ident |-> i,
                                 email |-> e, browser |-> b, began |-> began]},
              !.next = @ + 1]

(* Faulty variant: the continuation is read and left.                      *)
PeekLoginContinuation(d, ct) == d

(* take_login_continuation                                                 *)
TakeLoginContinuation(d, ct) == [d EXCEPT !.conts = @ \ {ct}]

(* create_pending_identity_link: one per person and provider.  Whether a   *)
(* login of the person was just being completed (open) is history.         *)
CreatePendingIdentityLink(d, u, i, open) ==
    [d EXCEPT !.staged = {l \in @ : l.user # u \/ Provider[l.ident] # Provider[i]}
                            \cup {[id |-> d.next, user |-> u, ident |-> i, open |-> open]},
              !.next = @ + 1]

(* take_pending_identity_links: the ones that expired are dropped as well. *)
TakePendingIdentityLinks(d, u) == [d EXCEPT !.staged = {l \in @ : l.user # u}]

(* Faulty variant: the latest link wins.                                   *)
LinkUserIdentityAgain(d, u, i, how, at, open) ==
    [d EXCEPT !.link[i] = [user |-> u, how |-> how, at |-> at, open |-> open]]

(* link_user_identity: a no-op where the identity is linked.  How the link *)
(* came about, and when it was staged, are history.                        *)
LinkUserIdentity(d, u, i, how, at, open) ==
    IF d.link[i].user # NoOne THEN d
    ELSE [d EXCEPT !.link[i] = [user |-> u, how |-> how, at |-> at, open |-> open]]

(* Faulty variant: an account that exists is taken over.                   *)
AdoptUser(d, u) == TRUE

(* Whether create_user_strict inserts the account.                         *)
CreateUserStrict(d, u) == d.acct[u] = NoAccount

(* set_user_email_verified; by what is history.                            *)
SetUserEmailVerified(d, u, by) == [d EXCEPT !.acct[u].verified = by]

-----------------------------------------------------------------------------
(* Login with a provider: handlers                                         *)

Soc == load.part = "social" /\ UNCHANGED <<load, dev, mcp>>

(* handle_google_login_start                                               *)
GoogleLoginStart(b) ==
    /\ Soc /\ Room(soc)
    /\ soc' = CreateLoginOauthState(soc, "google", b)
    /\ UNCHANGED call

(* handle_github_login_start                                               *)
GithubLoginStart(b) ==
    /\ Soc /\ Room(soc)
    /\ soc' = CreateLoginOauthState(soc, "github", b)
    /\ UNCHANGED call

(* Faulty variant: any cookie will do.                                     *)
AnyBrowserBind(d, b, st) == TRUE

(* verify_oauth_browser_bind                                               *)
VerifyOauthBrowserBind(d, b, st) == d.cookie[b] = st.id

ClearCookie(d, b) == [d EXCEPT !.cookie[b] = 0]

(* The part the callbacks share: the state is claimed, whatever follows;   *)
(* then the provider and the cookie are compared.  The exchange of the     *)
(* code may fail, and the address may be unverified.                       *)
LoginCallback(c, p, b, st, i, e) ==
    LET d == ClearCookie(TakeLoginOauthState(soc, st), b) IN
    /\ Soc
    /\ soc' = d
    /\ \/ /\ st.provider = p /\ VerifyOauthBrowserBind(soc, b, st)
          /\ Begin(c, [op |-> "resolve", ident |-> i, email |-> e, browser |-> b, began |-> st.browser])
       \/ UNCHANGED call

(* parse_id_token_claims: the subject and its verified address.            *)
GoogleIdentity(i, e) == Provider[i] = "google" /\ e \in Emails[i]

(* github_user_id, primary_email: the id and its verified primary address. *)
GithubIdentity(i, e) == Provider[i] = "github" /\ e \in Emails[i]

(* handle_google_login_callback                                            *)
GoogleLoginCallback(c, b, st, i, e) ==
    GoogleIdentity(i, e) /\ LoginCallback(c, "google", b, st, i, e)

(* handle_github_login_callback                                            *)
GithubLoginCallback(c, b, st, i, e) ==
    GithubIdentity(i, e) /\ LoginCallback(c, "github", b, st, i, e)

UserHasPasskeys(u) == load.webauthn => soc.acct[u].keys

(* resolve_social_login: a linked identity logs in; an account with the    *)
(* address gets a link staged, if it is verified and has a passkey to      *)
(* prove itself with; no account: signup.                                  *)
ResolveSocialLogin(c) ==
    LET f == call[c]
        linked == soc.link[f.ident].user
        a == soc.acct[f.email]
        completing == \E x \in Callers : call[x].op = "persist" /\ call[x].user = f.email
        issue(kind, u) == Continue(c, [op |-> "issue", kind |-> kind, user |-> u, ident |-> f.ident,
                                       email |-> f.email, browser |-> f.browser, began |-> f.began])
    IN  /\ Soc /\ f.op = "resolve"
        /\ \/ /\ linked # NoOne
              /\ issue("login", linked)
              /\ UNCHANGED soc
           \/ /\ linked = NoOne /\ a # NoAccount
              /\ a.verified # "no" /\ UserHasPasskeys(f.email)
              /\ soc' = CreatePendingIdentityLink(soc, f.email, f.ident, completing)
              /\ issue("login", f.email)
           \/ /\ linked = NoOne /\ a # NoAccount
              /\ a.verified = "no" \/ ~UserHasPasskeys(f.email)
              /\ Return(c)
              /\ UNCHANGED soc
           \/ /\ linked = NoOne /\ a = NoAccount
              /\ issue("signup", NoOne)
              /\ UNCHANGED soc

(* issue_continuation                                                      *)
IssueContinuation(c) ==
    LET f == call[c] IN
    /\ Soc /\ f.op = "issue"
    /\ soc' = CreateLoginContinuation(soc, f.kind, f.user, f.ident, f.email, f.browser, f.began)
    /\ Return(c)

(* handle_social_login_complete: the continuation is claimed.              *)
SocialLoginComplete(c, ct) ==
    /\ Soc
    /\ soc' = TakeLoginContinuation(soc, ct)
    /\ \/ /\ ct.kind = "login" /\ soc.acct[ct.user].verified # "no"
          /\ Begin(c, [op |-> "firstFactor", user |-> ct.user, from |-> ct.id])
       \/ /\ ct.kind = "signup"
          /\ Begin(c, [op |-> "signup", cont |-> ct])

(* complete_social_signup up to the insert.  Where the account appeared    *)
(* meanwhile the flow ends; a missing or bad project name puts the         *)
(* continuation back under its token.                                      *)
CompleteSocialSignup(c) ==
    LET ct == call[c].cont IN
    /\ Soc /\ call[c].op = "signup"
    /\ \/ /\ soc.acct[ct.email] # NoAccount
          /\ UNCHANGED soc /\ Return(c)
       \/ /\ soc.acct[ct.email] = NoAccount
          /\ soc' = [soc EXCEPT !.conts = @ \cup {ct}]
          /\ Return(c)
       \/ /\ soc.acct[ct.email] = NoAccount
          /\ Continue(c, [op |-> "insert", cont |-> ct])
          /\ UNCHANGED soc

(* The strict insert; a conflict ends the flow.                            *)
InsertSocialUser(c) ==
    LET ct == call[c].cont IN
    /\ Soc /\ call[c].op = "insert"
    /\ IF CreateUserStrict(soc, ct.email)
          THEN /\ soc' = [soc EXCEPT !.acct[ct.email].origin = IF @ = "none" THEN ct.ident ELSE @]
               /\ Continue(c, [op |-> "verify", cont |-> ct])
          ELSE Return(c) /\ UNCHANGED soc

VerifySocialUser(c) ==
    LET ct == call[c].cont IN
    /\ Soc /\ call[c].op = "verify"
    /\ soc' = SetUserEmailVerified(soc, ct.email, "provider")
    /\ Continue(c, [op |-> "link", cont |-> ct])

(* The link of the new account; a conflict ends the flow.                  *)
LinkSocialUser(c) ==
    LET ct == call[c].cont
        d == LinkUserIdentity(soc, ct.email, ct.ident, "signup", 0, FALSE)
    IN  /\ Soc /\ call[c].op = "link"
        /\ soc' = d
        /\ IF d.link[ct.ident].user = ct.email
              THEN Continue(c, [op |-> "firstFactor", user |-> ct.email, from |-> ct.id])
              ELSE Return(c)

(* Faulty variant: the first factor makes the staged links permanent.      *)
AfterFirstFactorLinking(c) ==
    Continue(c, [op |-> "persist", user |-> call[c].user])

(* finish_first_factor_login, the part about passkeys: without WebAuthn    *)
(* this is a full login, without a passkey a setup session is opened, with *)
(* one the challenge is sent.                                              *)
AfterFirstFactor(c) ==
    IF load.webauthn THEN Return(c)
    ELSE Continue(c, [op |-> "persist", user |-> call[c].user])

FinishFirstFactorLogin(c) ==
    LET u == call[c].user IN
    /\ Soc /\ call[c].op = "firstFactor"
    /\ soc' = [soc EXCEPT
                  !.passes = @ \cup {[id |-> soc.next, from |-> call[c].from]},
                  !.challenges = IF load.webauthn /\ soc.acct[u].keys THEN @ \cup {u} ELSE @,
                  !.proved[u] = IF load.webauthn THEN @ ELSE soc.next,
                  !.next = @ + 1]
    /\ AfterFirstFactor(c)

(* handle_login_passkey: the answer proves the person, and the staged      *)
(* links are made permanent.                                               *)
LoginPasskey(c, u) ==
    /\ Soc /\ load.webauthn
    /\ soc' = [soc EXCEPT !.challenges = @ \ {u}, !.proved[u] = soc.next, !.next = @ + 1]
    /\ Begin(c, [op |-> "persist", user |-> u])

(* persist_pending_identity_links: the links are taken,                    *)
PersistPendingIdentityLinks(c) ==
    LET u == call[c].user IN
    /\ Soc /\ call[c].op = "persist"
    /\ soc' = TakePendingIdentityLinks(soc, u)
    /\ Continue(c, [op |-> "persistEach", user |-> u, links |-> {l \in soc.staged : l.user = u}])

(* and written one by one.                                                 *)
PersistEach(c) ==
    LET f == call[c] IN
    /\ Soc /\ f.op = "persistEach"
    /\ \/ \E l \in f.links :
             /\ soc' = LinkUserIdentity(soc, f.user, l.ident, "login", l.id, l.open)
             /\ Continue(c, [f EXCEPT !.links = @ \ {l}])
       \/ f.links = {} /\ Return(c) /\ UNCHANGED soc

(* Accounts that come about in other ways (module Accounts): a signup with *)
(* a password, the code sent by mail, a first passkey, a login with the    *)
(* password.                                                               *)
PasswordSignup(u) ==
    /\ Soc /\ Asked("signup") /\ soc.acct[u] = NoAccount
    /\ soc' = [soc EXCEPT !.acct[u].origin = "password"]
    /\ UNCHANGED call

VerifyEmail(u) ==
    /\ Soc /\ soc.acct[u].origin = "password" /\ soc.acct[u].verified = "no"
    /\ soc' = SetUserEmailVerified(soc, u, "code")
    /\ UNCHANGED call

SetupPasskey(u) ==
    /\ Soc /\ load.webauthn /\ soc.acct[u].verified # "no"
    /\ soc' = [soc EXCEPT !.acct[u].keys = TRUE]
    /\ UNCHANGED call

PasswordLogin(c, u) ==
    /\ Soc /\ Asked("password") /\ Room(soc) /\ soc.acct[u].origin = "password" /\ soc.acct[u].verified # "no"
    /\ Begin(c, [op |-> "firstFactor", user |-> u, from |-> 0])
    /\ UNCHANGED soc

SocialExpire ==
    /\ Soc /\ Asked("expire") /\ UNCHANGED call
    /\ \/ \E st \in soc.states : soc' = TakeLoginOauthState(soc, st)
       \/ \E ct \in soc.conts : soc' = [soc EXCEPT !.conts = @ \ {ct}]
       \/ \E l \in soc.staged : soc' = [soc EXCEPT !.staged = @ \ {l}]

-----------------------------------------------------------------------------
(* Device authorization                                                    *)

Dev == load.part = "device" /\ UNCHANGED <<load, soc, mcp>>

(* increment_rate_counter: one statement for the increment and its result. *)
(* A failing counter lets the request pass; that is history (blind).       *)
IncrementRateCounter(d, u) == [d EXCEPT !.count[u] = @ + 1]

(* Faulty variant: one too many.                                           *)
LaxConfirmBudget(n) == n > MaxConfirm + 1

OverConfirmBudget(n) == n > MaxConfirm

(* create_device_authorization; the first to confirm is history.           *)
CreateDeviceAuthorization(d) ==
    [d EXCEPT !.rows = @ \cup {[id |-> d.next, status |-> "pending", user |-> NoOne,
                                team |-> NoOne, first |-> NoOne]},
              !.next = @ + 1]

WithRow(d, r, new) == [d EXCEPT !.rows = (@ \ {r}) \cup {new}]

(* Faulty variant: the person is not stored.                               *)
BoundToNobody(r, u, t) == [r EXCEPT !.status = "approved", !.team = t]

Bound(r, u, t) ==
    [r EXCEPT !.status = "approved", !.user = u, !.team = t, !.first = IF @ = NoOne THEN u ELSE @]

(* Faulty variant: a code that is not claimed can be confirmed again.      *)
ApproveUnclaimed(d, r, u, t) ==
    IF r.status # "claimed" THEN WithRow(d, r, Bound(r, u, t)) ELSE d

(* approve_device_authorization                                            *)
ApproveDeviceAuthorization(d, r, u, t) ==
    IF r.status = "pending" THEN WithRow(d, r, Bound(r, u, t)) ELSE d

(* Faulty variant: the row stays approved.                                 *)
ReadDeviceAuthorization(d, r) == d

(* claim_device_authorization, of an approved row.                         *)
ClaimDeviceAuthorization(d, r) == WithRow(d, r, [r EXCEPT !.status = "claimed"])

(* create_agent_session, a session with the scope of an agent.             *)
CreateAgentSession(d, r) ==
    [d EXCEPT !.sessions = @ \cup {[id |-> d.next, row |-> r.id, user |-> r.user, team |-> r.team,
                                    first |-> r.first]},
              !.next = @ + 1]

(* handle_device_authorize; a refusal by the budget of the caller's        *)
(* address changes nothing here.                                           *)
DeviceAuthorize ==
    /\ Dev /\ Room(dev)
    /\ dev' = CreateDeviceAuthorization(dev)
    /\ UNCHANGED call

(* handle_device_confirm: the attempt is counted, whether the code is      *)
(* right (a row) or wrong (0).                                             *)
DeviceConfirm(c, u, t, code) ==
    LET d == IncrementRateCounter(dev, u) IN
    /\ Dev
    /\ \/ /\ ~OverConfirmBudget(d.count[u])
          /\ dev' = [d EXCEPT !.tried[u] = @ + 1]
          /\ Begin(c, [op |-> "approve", user |-> u, team |-> t, code |-> code])
       \/ /\ OverConfirmBudget(d.count[u]) /\ dev.count[u] = MaxConfirm
          /\ dev' = d
          /\ UNCHANGED call
       \/ /\ ~dev.blind[u]
          /\ dev' = [dev EXCEPT !.blind[u] = TRUE]
          /\ Begin(c, [op |-> "approve", user |-> u, team |-> t, code |-> code])

FinishDeviceConfirm(c) ==
    LET f == call[c] IN
    /\ Dev /\ f.op = "approve"
    /\ \/ \E r \in dev.rows :
             /\ r.id = f.code
             /\ dev' = ApproveDeviceAuthorization(dev, r, f.user, f.team)
       \/ (\A r \in dev.rows : r.id # f.code) /\ UNCHANGED dev
    /\ Return(c)

(* The loop of tap login (cmd_login): the code is polled until it is       *)
(* answered with a session or an error.  The network may repeat a poll.    *)
Polls(r) == r.id \notin dev.ended

(* handle_device_token: an approved row is claimed; a pending one is       *)
(* polled again, any other answer ends the login.                          *)
DeviceToken(c, r) ==
    /\ Dev /\ Polls(r)
    /\ \/ /\ r.status = "approved"
          /\ dev' = ClaimDeviceAuthorization(dev, r)
          /\ Begin(c, [op |-> "session", row |-> r])
       \/ /\ r.status = "claimed"
          /\ dev' = [dev EXCEPT !.ended = @ \cup {r.id}]
          /\ UNCHANGED call

(* The session is created and answered; the answer, or any answer, ends    *)
(* the login.                                                              *)
FinishDeviceToken(c) ==
    /\ Dev /\ call[c].op = "session"
    /\ dev' = [CreateAgentSession(dev, call[c].row) EXCEPT !.ended = @ \cup {call[c].row.id}]
    /\ Return(c)

(* device_rate_window: a new hour, whose counters start over.              *)
NewRateWindow ==
    /\ Dev /\ UNCHANGED call
    /\ dev.windows < load.windows
    /\ dev' = [dev EXCEPT !.count = [u \in People |-> 0], !.tried = [u \in People |-> 0],
                          !.blind = [u \in People |-> FALSE], !.windows = @ + 1]

DeviceExpire(r) ==
    /\ Dev /\ UNCHANGED call
    /\ dev' = [dev EXCEPT !.rows = @ \ {r}]

-----------------------------------------------------------------------------
(* MCP connections: statements                                             *)

Mcp == load.part = "mcp" /\ UNCHANGED <<load, soc, dev>>

(* The fields of a new request, assertion, code or token name its origin:  *)
(* what is signed cannot be changed on its way.                            *)
Issue(d, kind, v) == [d EXCEPT ![kind] = @ \cup {v}, !.next = @ + 1]

(* ensure_mcp_agent: an agent where there is none,                         *)
CreateMcpAgent(d, u, t) == IF d.agent[u][t] = "none" THEN [d EXCEPT !.agent[u][t] = "scoped"] ELSE d

(* then, in a second statement, every credential.                          *)
SetAgentAllCredentials(d, u, t) ==
    IF d.agent[u][t] = "none" THEN d ELSE [d EXCEPT !.agent[u][t] = "all"]

(* The rows consume_code prunes afterwards: those of codes that lapsed.    *)
PruneConsumed(d) == [d EXCEPT !.consumed = {x \in @ : \A k \in d.codes : k.id = x => ~k.lapsed}]

(* Faulty variant: a conflict counts as a success.                         *)
ConsumesAnyCode(d, k) == TRUE

(* Whether consume_code inserts the code.                                  *)
ConsumesCode(d, k) == k.id \notin d.consumed

ConsumeCode(d, k) == PruneConsumed([d EXCEPT !.consumed = @ \cup {k.id}])

CodeOf(d, id) == CHOOSE k \in d.codes : k.id = id
FamilyOf(d, id) == CHOOSE f \in d.families : f.id = id

(* record_family; the code, whether it had lapsed when it was consumed,    *)
(* and the request are history.                                            *)
RecordFamily(d, subject, t, client, k, late) ==
    Issue(d, "families",
          [id |-> d.next, subject |-> subject, team |-> t, client |-> client, current |-> d.next,
           status |-> "live", code |-> k.id, late |-> late, request |-> k.request])

WithFamily(d, f, new) == [d EXCEPT !.families = (@ \ {f}) \cup {new}]

(* Faulty variant: any token of a live family rotates it.                  *)
RotatesAnyToken(f, jti) == f.status = "live"

(* The condition of rotate_family.                                         *)
RotatesFamily(f, jti) == f.status = "live" /\ f.current = jti

RotateFamily(d, f) == WithFamily([d EXCEPT !.next = @ + 1], f, [f EXCEPT !.current = d.next])

(* Faulty variant: only whether there is such a family.                    *)
FamilyExists(f) == f.status # "expired"

(* family_is_active                                                        *)
FamilyIsActive(f) == f.status = "live"

(* revoke_families_for_agent                                               *)
RevokeFamiliesForAgent(d, u, t) ==
    [d EXCEPT !.families = {IF f.subject = u /\ f.team = t THEN [f EXCEPT !.status = "revoked"] ELSE f : f \in @}]

-----------------------------------------------------------------------------
(* MCP connections: the authorization server tap-mcp                       *)

(* register_client                                                         *)
RegisterClient(p) ==
    /\ Mcp /\ Asked("ask")
    /\ mcp' = [mcp EXCEPT !.clients = @ \cup {p}]
    /\ UNCHANGED call

(* validate_authorization_query: a registered client; its redirect address *)
(* comes with it.                                                          *)
ValidateAuthorizationQuery(client) == client \in mcp.clients

(* authorize_page, asked for by p in the name of a client (client ids are  *)
(* no secret), with a challenge whose verifier p knows.                    *)
AuthorizePage(p, client) ==
    /\ Mcp /\ Asked("ask") /\ Room(mcp) /\ ValidateAuthorizationQuery(client)
    /\ mcp' = Issue(mcp, "requests", [id |-> mcp.next, client |-> client, by |-> p])
    /\ UNCHANGED call

(* authorize_callback, issue_authorization_code: the assertion is relayed  *)
(* unverified in a code with a nonce of its own; the code is sent to the   *)
(* client through the browser.                                             *)
AuthorizeCallback(a) ==
    /\ Mcp /\ Asked("authorize") /\ Room(mcp) /\ a.age = "fresh"
    /\ mcp' = Issue(mcp, "codes", [id |-> mcp.next, assertion |-> a, request |-> a.request, lapsed |-> FALSE])
    /\ UNCHANGED call

(* Faulty variant: the verifier is not compared.                           *)
AnyVerifier(p, request) == TRUE

(* valid_pkce_verifier, pkce_s256                                          *)
PkceMatches(p, request) == request.by = p

(* exchange_authorization_code: p presents the code of a client.           *)
ExchangeAuthorizationCode(c, p, k) ==
    /\ Mcp /\ Asked("exchange") /\ Room(mcp)
    /\ ~k.lapsed /\ PkceMatches(p, k.request)
    /\ Begin(c, [op |-> "issueToken", party |-> p, code |-> k])
    /\ UNCHANGED mcp

(* exchange_refresh_token: relayed to the proxy.                           *)
ExchangeRefreshToken(c, client, tk) ==
    /\ Mcp /\ Asked("refresh") /\ Room(mcp)
    /\ Begin(c, [op |-> "refresh", client |-> client, token |-> tk])
    /\ UNCHANGED mcp

-----------------------------------------------------------------------------
(* MCP connections: the proxy                                              *)

(* handle_begin_authorization: a challenge to the person of the session.   *)
BeginAuthorization(u) ==
    /\ Mcp /\ Asked("authorize") /\ Room(mcp)
    /\ mcp' = Issue(mcp, "challenges", [id |-> mcp.next, user |-> u])
    /\ UNCHANGED call

(* Faulty variant: the passkey of anyone will do.                          *)
AnyPasskey(u, ch) == TRUE

(* The comparison of handle_finish_authorization.                          *)
VerifiedUserMatches(u, ch) == ch.user = u

(* handle_finish_authorization in a session of u in t: the challenge is    *)
(* claimed; whose passkey answered it, for which request, is history.      *)
FinishAuthorization(c, u, t, ch, request) ==
    /\ Mcp
    /\ mcp' = [mcp EXCEPT !.challenges = @ \ {ch}, !.proved = @ \cup {[user |-> ch.user, request |-> request]}]
    /\ \/ /\ VerifiedUserMatches(u, ch)
          /\ Begin(c, [op |-> "provision", user |-> u, team |-> t, request |-> request])
       \/ ~VerifiedUserMatches(u, ch) /\ UNCHANGED call

(* handle_login_passkey with the request of an MCP client.                 *)
AuthorizeAtLogin(c, t, ch, request) ==
    /\ Mcp
    /\ mcp' = [mcp EXCEPT !.challenges = @ \ {ch}, !.proved = @ \cup {[user |-> ch.user, request |-> request]}]
    /\ Begin(c, [op |-> "provision", user |-> ch.user, team |-> t, request |-> request])

ProvisionAgent(c) ==
    LET f == call[c] IN
    /\ Mcp /\ f.op = "provision"
    /\ mcp' = CreateMcpAgent(mcp, f.user, f.team)
    /\ Continue(c, [f EXCEPT !.op = "promote"])

(* set_agent_all_credentials, issue_authorization_assertion                *)
IssueAuthorizationAssertion(c) ==
    LET f == call[c] IN
    /\ Mcp /\ f.op = "promote"
    /\ mcp' = Issue(SetAgentAllCredentials(mcp, f.user, f.team), "assertions",
                    [id |-> mcp.next, request |-> f.request, subject |-> f.user, team |-> f.team, age |-> "fresh"])
    /\ Return(c)

(* verify_assertion_for_redemption: it is the proxy's own, and was issued  *)
(* no longer than the window ago.                                          *)
VerifyAssertionForRedemption(a) == \E x \in mcp.assertions : x.id = a.id /\ x.age # "dead"

(* handle_issue_token: the assertion is verified, the agent ensured,       *)
IssueToken(c) ==
    LET f == call[c]
        a == f.code.assertion
    IN  /\ Mcp /\ f.op = "issueToken"
        /\ \/ /\ VerifyAssertionForRedemption(a)
              /\ mcp' = SetAgentAllCredentials(CreateMcpAgent(mcp, a.subject, a.team), a.subject, a.team)
              /\ Continue(c, [f EXCEPT !.op = "consume"])
           \/ ~VerifyAssertionForRedemption(a) /\ Return(c) /\ UNCHANGED mcp

(* the code consumed,                                                      *)
IssueConsume(c) ==
    LET f == call[c] IN
    /\ Mcp /\ f.op = "consume"
    /\ mcp' = ConsumeCode(mcp, f.code)
    /\ IF ConsumesCode(mcp, f.code)
          THEN Continue(c, [op |-> "record", party |-> f.party, code |-> f.code,
                            late |-> CodeOf(mcp, f.code.id).lapsed])
          ELSE Return(c)

(* mint_token_pair: the refresh token and the access token of a family.    *)
(* The token it replaces and who holds it are history.                     *)
MintTokenPair(d, family, jti, parent, client, party) ==
    [d EXCEPT !.tokens = @ \cup {[family |-> family, jti |-> jti, parent |-> parent, client |-> client, party |-> party]}]

(* the family recorded and the first pair minted.                          *)
IssueRecord(c) ==
    LET f == call[c]
        a == f.code.assertion
        d == RecordFamily(mcp, a.subject, a.team, f.code.request.client, f.code, f.late)
    IN  /\ Mcp /\ f.op = "record"
        /\ mcp' = MintTokenPair(d, mcp.next, mcp.next, 0, f.code.request.client, f.party)
        /\ Return(c)

(* verify_refresh_token: the signature, the client and the audience.       *)
VerifyRefreshToken(tk, client) == tk \in mcp.tokens /\ tk.client = client

(* handle_refresh_token: the family is rotated, and a pair minted.         *)
RefreshToken(c) ==
    LET tk == call[c].token
        f == FamilyOf(mcp, tk.family)
        rotates == VerifyRefreshToken(tk, call[c].client) /\ RotatesFamily(f, tk.jti)
    IN  /\ Mcp /\ call[c].op = "refresh"
        /\ \/ /\ rotates
              /\ mcp' = RotateFamily(mcp, f)
              /\ Continue(c, [op |-> "mint", token |-> tk, jti |-> mcp.next])
           \/ ~rotates /\ Return(c) /\ UNCHANGED mcp

FinishRefresh(c) ==
    LET tk == call[c].token IN
    /\ Mcp /\ call[c].op = "mint"
    /\ mcp' = MintTokenPair(mcp, tk.family, call[c].jti, tk.jti, tk.client, tk.party)
    /\ Return(c)

(* verify_mcp_access_token, then resolve_mcp_agent: whether the family is  *)
(* active.  Whether it had been revoked when the request came is history.  *)
VerifyMcpAccessToken(tk) == tk \in mcp.tokens

ResolveMcpAgent(c, tk) ==
    /\ Mcp /\ Asked("act") /\ VerifyMcpAccessToken(tk)
    /\ FamilyIsActive(FamilyOf(mcp, tk.family))
    /\ Begin(c, [op |-> "act", family |-> tk.family, late |-> FamilyOf(mcp, tk.family).status = "revoked"])
    /\ UNCHANGED mcp

(* and whether the agent is there.                                         *)
ActAsAgent(c) ==
    LET f == FamilyOf(mcp, call[c].family) IN
    /\ Mcp /\ call[c].op = "act"
    /\ mcp' = IF mcp.agent[f.subject][f.team] = "none" THEN mcp
              ELSE [mcp EXCEPT !.acted = @ \cup {[family |-> f.id, late |-> call[c].late]}]
    /\ Return(c)

(* handle_mcp_disconnect, in a session of u in t.                          *)
McpDisconnect(u, t) ==
    /\ Mcp /\ Asked("disconnect") /\ UNCHANGED call
    /\ mcp' = RevokeFamiliesForAgent(mcp, u, t)

(* The team edits or deletes the agent like any other (module Workspace).  *)
EditMcpAgent(u, t) ==
    /\ Mcp /\ Asked("agents") /\ UNCHANGED call
    /\ mcp.agent[u][t] # "none"
    /\ \E s \in {"none", "scoped"} : mcp' = [mcp EXCEPT !.agent[u][t] = s]

(* Codes lapse after two minutes, assertions after two minutes for the     *)
(* callback and after ten for their redemption, families after a month.    *)
McpExpire ==
    /\ Mcp /\ Asked("expire") /\ UNCHANGED call
    /\ \/ \E k \in mcp.codes :
             ~k.lapsed /\ mcp' = [mcp EXCEPT !.codes = (@ \ {k}) \cup {[k EXCEPT !.lapsed = TRUE]}]
       \/ \E a \in mcp.assertions :
             /\ a.age = "fresh"
             /\ mcp' = [mcp EXCEPT !.assertions = (@ \ {a}) \cup {[a EXCEPT !.age = "late"]}]
       \/ \E a \in mcp.assertions :
             /\ a.age = "late" /\ \A k \in mcp.codes : k.assertion.id = a.id => k.lapsed
             /\ mcp' = [mcp EXCEPT !.assertions = (@ \ {a}) \cup {[a EXCEPT !.age = "dead"]}]
       \/ \E f \in mcp.families :
             f.status = "live" /\ mcp' = WithFamily(mcp, f, [f EXCEPT !.status = "expired"])

-----------------------------------------------------------------------------
(* A process dies, or an answer does not arrive: the rest of the handler   *)
(* is not run.                                                             *)
Crash(c) == call[c] # Idle /\ Return(c) /\ UNCHANGED <<load, soc, dev, mcp>>

Init ==
    /\ load \in Loads
    /\ call = [c \in Callers |-> Idle]
    /\ soc = [acct |-> load.accounts,
              link |-> [i \in Idents |-> [user |-> NoOne, how |-> "none", at |-> 0, open |-> FALSE]],
              states |-> {}, cookie |-> [b \in Browsers |-> 0], conts |-> {}, staged |-> {},
              challenges |-> {}, passes |-> {}, proved |-> [u \in People |-> 0], next |-> 1]
    /\ dev = [rows |-> {}, sessions |-> {}, ended |-> {}, count |-> [u \in People |-> 0],
              tried |-> [u \in People |-> 0], blind |-> [u \in People |-> FALSE],
              windows |-> 1, next |-> 1]
    /\ mcp = load.mcp

SocialNext ==
    \/ \E b \in load.browsers : GoogleLoginStart(b) \/ GithubLoginStart(b)
    \/ \E u \in People : PasswordSignup(u) \/ VerifyEmail(u) \/ SetupPasskey(u)
    \/ \E c \in Callers :
          \/ \E b \in load.browsers : \E st \in soc.states : \E i \in load.idents : \E e \in People :
                GoogleLoginCallback(c, b, st, i, e) \/ GithubLoginCallback(c, b, st, i, e)
          \/ \E ct \in soc.conts : SocialLoginComplete(c, ct)
          \/ \E u \in soc.challenges : LoginPasskey(c, u)
          \/ \E u \in People : PasswordLogin(c, u)
          \/ ResolveSocialLogin(c) \/ IssueContinuation(c)
          \/ CompleteSocialSignup(c) \/ InsertSocialUser(c) \/ VerifySocialUser(c) \/ LinkSocialUser(c)
          \/ FinishFirstFactorLogin(c)
          \/ PersistPendingIdentityLinks(c) \/ PersistEach(c)
    \/ SocialExpire

DeviceNext ==
    \/ DeviceAuthorize \/ NewRateWindow
    \/ \E r \in dev.rows : DeviceExpire(r)
    \/ \E c \in Callers :
          \/ \E u \in People : \E t \in Teams : \E code \in {0} \cup {r.id : r \in dev.rows} :
                DeviceConfirm(c, u, t, code)
          \/ \E r \in dev.rows : DeviceToken(c, r)
          \/ FinishDeviceConfirm(c) \/ FinishDeviceToken(c)

McpNext ==
    \/ \E p \in Parties : RegisterClient(p) \/ \E q \in Parties : AuthorizePage(p, q)
    \/ \E u \in People : BeginAuthorization(u) \/ \E t \in Teams : McpDisconnect(u, t) \/ EditMcpAgent(u, t)
    \/ \E a \in mcp.assertions : AuthorizeCallback(a)
    \/ \E c \in Callers :
          \/ \E ch \in mcp.challenges : \E r \in mcp.requests : \E t \in Teams :
                \/ AuthorizeAtLogin(c, t, ch, r)
                \/ \E u \in People : FinishAuthorization(c, u, t, ch, r)
          \/ \E p \in Parties : \E k \in mcp.codes : ExchangeAuthorizationCode(c, p, k)
          \/ \E tk \in mcp.tokens :
                ResolveMcpAgent(c, tk) \/ \E q \in mcp.clients : ExchangeRefreshToken(c, q, tk)
          \/ ProvisionAgent(c) \/ IssueAuthorizationAssertion(c)
          \/ IssueToken(c) \/ IssueConsume(c) \/ IssueRecord(c)
          \/ RefreshToken(c) \/ FinishRefresh(c) \/ ActAsAgent(c)
    \/ McpExpire

Next == SocialNext \/ DeviceNext \/ McpNext \/ \E c \in Callers : Crash(c)

Spec == Init /\ [][Next]_vars

-----------------------------------------------------------------------------
(* The tables have their types: accounts keep an origin when verified, a   *)
(* claimed device row has its person, an agent that acts had a family.     *)
TypeOK ==
    /\ load \in Loads
    /\ \A u \in People : soc.acct[u].verified # "no" => soc.acct[u].origin # "none"
    /\ \A r \in dev.rows : (r.status = "pending") = (r.user = NoOne)
    /\ \A f \in mcp.families : f.subject \in People /\ f.team \in Teams /\ f.status \in {"live", "revoked", "expired"}
    /\ \A x \in mcp.acted : \E f \in mcp.families : f.id = x.family

(* A continuation is worth one first factor: presented twice, by a double  *)
(* click or a copied address, it logs in once.                             *)
OneLoginPerContinuation == \A x, y \in soc.passes : x.from = y.from /\ x.from # 0 => x = y

(* An identity is linked to an account it did not create only after that   *)
(* account's person finished a whole login, with the passkey where there   *)
(* is WebAuthn, later than the link was staged or while it was: the        *)
(* address alone never links.                                              *)
LinkNeedsFullLogin ==
    \A i \in Idents :
        LET l == soc.link[i]
        IN  l.how = "login" => soc.proved[l.user] > (IF l.open THEN 0 ELSE l.at)

(* What a provider vouches for never reaches an account somebody signed up *)
(* with a password: an account is verified by a provider, or linked by a   *)
(* signup, only if that signup inserted it.                                *)
SocialSignupOwnsAccount ==
    /\ \A u \in People : soc.acct[u].verified = "provider" => soc.acct[u].origin \in Idents
    /\ \A i \in Idents : soc.link[i].how = "signup" => soc.acct[soc.link[i].user].origin = i

(* A login that was begun in one browser continues in that browser only:   *)
(* a callback address opened elsewhere yields no continuation there.       *)
LoginStaysInBrowser == \A ct \in soc.conts : ct.browser = ct.began

(* An identity that is linked is never pointed at somebody else, however   *)
(* many flows of it are under way.                                         *)
IdentityIsNotRepointed ==
    [][\A i \in Idents : soc.link[i].user # NoOne => soc'.link[i].user = soc.link[i].user]_vars

(* A device code is worth one session, though polls overlap and are        *)
(* repeated.                                                               *)
OneSessionPerDeviceCode == \A s, r \in dev.sessions : s.row = r.row => s = r

(* The session is of the person who confirmed the code first; a later      *)
(* confirmation by somebody else does not change whose it is.              *)
DeviceBindsFirstConfirmer == \A s \in dev.sessions : s.user = s.first

(* Within an hour a person's guesses that reach the table are bounded, on  *)
(* any number of instances, as long as the counter answers.                *)
ConfirmsAreBounded == \A u \in People : dev.tried[u] <= MaxConfirm

(* A connection of a person was authorized with that person's own passkey, *)
(* for that very request, though sessions, challenges and requests can be  *)
(* mixed up at will.                                                       *)
ConnectionNeedsOwnPasskey ==
    \A f \in mcp.families : [user |-> f.subject, request |-> f.request] \in mcp.proved

(* Tokens are handed to the party that asked for the authorization, even   *)
(* if another sees its code.                                               *)
TokensReachTheAskingClient ==
    \A tk \in mcp.tokens : FamilyOf(mcp, tk.family).request.by = tk.party

(* A code opens a second family only if it lapsed while the second         *)
(* exchange was on its way to the proxy.                                   *)
OneFamilyPerLiveCode ==
    \A f, g \in mcp.families : f.code = g.code /\ f # g => f.late \/ g.late

(* A refresh token is rotated once: of two requests with the same token    *)
(* one gets the next pair.                                                 *)
FamiliesDoNotFork ==
    \A x, y \in mcp.tokens : x.family = y.family /\ x.parent = y.parent => x = y

(* After a disconnect no request that comes in is served for a family that *)
(* was open then, though its access token still verifies.                  *)
DisconnectHolds == \A x \in mcp.acted : ~x.late

(* Login with a provider logs in whom it was begun for, once, and links    *)
(* nothing else: TypeOK, OneLoginPerContinuation, LinkNeedsFullLogin,      *)
(* SocialSignupOwnsAccount and LoginStaysInBrowser.                        *)
SocialLoginHolds ==
    /\ TypeOK
    /\ OneLoginPerContinuation /\ LinkNeedsFullLogin
    /\ SocialSignupOwnsAccount /\ LoginStaysInBrowser

(* The device flow of the command line: OneSessionPerDeviceCode, of who    *)
(* confirmed it first (DeviceBindsFirstConfirmer), within the budget       *)
(* (ConfirmsAreBounded).                                                   *)
DeviceLoginHolds == OneSessionPerDeviceCode /\ DeviceBindsFirstConfirmer /\ ConfirmsAreBounded

(* An MCP connection belongs to the person and the client that made it,    *)
(* from the code to the last refresh: ConnectionNeedsOwnPasskey,           *)
(* TokensReachTheAskingClient, OneFamilyPerLiveCode, FamiliesDoNotFork and *)
(* DisconnectHolds.                                                        *)
ConnectionsHold ==
    /\ ConnectionNeedsOwnPasskey /\ TokensReachTheAskingClient
    /\ OneFamilyPerLiveCode /\ FamiliesDoNotFork /\ DisconnectHolds
===============================================================================
