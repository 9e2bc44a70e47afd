------------------------------- MODULE Accounts -------------------------------
(***************************************************************************)
(* People of a TAP deployment: accounts, memberships and invitations,      *)
(* verification codes and password resets, passkeys and sessions.  Models  *)
(* the handlers of tap-proxy/src/admin.rs that serve them, the passkey     *)
(* ceremonies of tap-proxy/src/webauthn.rs they call and the statements of *)
(* tap-core/src/store.rs they run.                                         *)
(*                                                                         *)
(* The database is the record db.  A statement is an operator from         *)
(* databases to databases.  A handler that reads, decides and then writes  *)
(* is a call with one step for each; the calls of other people run in      *)
(* between, and a call may be cut short by a crash after any step.  Rows   *)
(* with an expiry may disappear at any time (Expire): that covers every    *)
(* length of every lifetime.  The fields of a row marked "history" are not *)
(* columns, they record what the properties speak of.                      *)
(***************************************************************************)
EXTENDS Naturals, FiniteSets

CONSTANTS
    Users,       \* people, each with one email address
    Teams,       \* teams there are or may be created
    Founder,     \* the owner of the first team
    Other,       \* who may be a member of it at the start
    FirstTeam,
    Keys,        \* authenticators that can be registered
    Callers,     \* requests handled at the same time
    Loads,       \* [ops, users, webauthn, roles, owns, keys, tokens]: what is asked for in a
                 \* behaviour, by or about whom, on which deployment, who is there at the
                 \* start, and the bound of the model on the tokens issued
    MaxPasswords,\* bound of the model: passwords ever set by one person
    NoTeam       \* no project name in a signup

ASSUME NoTeamAssumption == NoTeam \notin Teams
ASSUME FirstAssumption == Founder \in Users /\ Other \in Users \ {Founder} /\ FirstTeam \in Teams
ASSUME BoundAssumption == MaxPasswords \in Nat \ {0} /\ IsFiniteSet(Callers)

Roles == {"owner", "admin", "approver"}
Managers == {"owner", "admin"}

(* Whoever is not there at the start owns nothing.                         *)
ASSUME LoadAssumption ==
    \A l \in Loads :
        /\ l.users \subseteq Users /\ l.webauthn \in BOOLEAN
        /\ l.roles \subseteq Roles \cup {"none"} /\ l.owns \subseteq Teams \ {FirstTeam}
        /\ "none" \in l.roles => l.owns = {}
        /\ l.keys[1] \subseteq Keys /\ l.keys[2] \subseteq Keys

VARIABLES
    load,   \* the member of Loads this behaviour is about
    db,     \* the database
    call    \* the handlers under way

vars == <<load, db, call>>

Idle == [op |-> "idle"]

-----------------------------------------------------------------------------
(* Statements                                                              *)

MembershipsOf(d, u) == {t \in Teams : d.role[u][t] # "none"}

(* The role takes effect, and is remembered (history).                     *)
WithRole(d, u, t, r) ==
    [d EXCEPT !.role[u][t] = r, !.held[u][t] = @ \cup {r}]

(* add_membership: a no-op where there is a membership.                    *)
AddMembership(d, u, t, r) == IF d.role[u][t] = "none" THEN WithRole(d, u, t, r) ELSE d

DeleteMembership(d, u, t) == [d EXCEPT !.role[u][t] = "none"]

UpdateMemberRole(d, u, t, r) == IF d.role[u][t] = "none" THEN d ELSE WithRole(d, u, t, r)

(* Faulty variant: the insert is left to another request.                  *)
CreateUserElsewhere(d, u) == d

(* create_user: an account that exists is taken over as it is.             *)
CreateUser(d, u) ==
    IF d.user[u].exists THEN d
    ELSE [d EXCEPT !.user[u] = [exists |-> TRUE, verified |-> FALSE, password |-> 1, keys |-> {}]]

SetUserEmailVerified(d, u) == [d EXCEPT !.user[u].verified = TRUE]

UpdateUserPassword(d, u) == [d EXCEPT !.user[u].password = @ + 1]

CreateInvite(d, u, t, r, by) ==
    [d EXCEPT !.invites = @ \cup {[id |-> d.next, user |-> u, team |-> t, role |-> r, by |-> by]},
              !.next = @ + 1]

DeleteInvite(d, i) == [d EXCEPT !.invites = @ \ {i}]

InvitesByEmail(d, u) == {i \in d.invites : i.user = u}

(* consume_pending_invites: the oldest invitation to each team counts,     *)
(* where there is no membership yet; all of them are deleted.              *)
ConsumePendingInvites(d, u) ==
    LET mine(t) == {i \in InvitesByEmail(d, u) : i.team = t}
        oldest(t) == CHOOSE i \in mine(t) : \A j \in mine(t) : i.id <= j.id
        joins(t) == d.role[u][t] = "none" /\ mine(t) # {}
    IN  [d EXCEPT
            !.role[u] = [t \in Teams |-> IF joins(t) THEN oldest(t).role ELSE @[t]],
            !.held[u] = [t \in Teams |-> IF joins(t) THEN @[t] \cup {oldest(t).role} ELSE @[t]],
            !.invites = @ \ InvitesByEmail(d, u)]

CreateEmailVerification(d, u) ==
    [d EXCEPT !.codes = @ \cup {[id |-> d.next, user |-> u]}, !.next = @ + 1]

(* The second and third statement of validate_email_verification.          *)
ConsumeEmailVerification(d, code) ==
    SetUserEmailVerified([d EXCEPT !.codes = @ \ {code}], code.user)

(* create_password_reset outside the cooldown: one row per person.         *)
CreatePasswordReset(d, u) ==
    [d EXCEPT !.resets = {r \in @ : r.user # u} \cup {[id |-> d.next, user |-> u]}, !.next = @ + 1]

(* Faulty variant: the sessions are left.                                  *)
ConsumeResetOnly(d, r) ==
    [d EXCEPT !.resets = @ \ {r}, !.wiped[r.user] = @ + 1]

(* The second and third statement of validate_and_consume_password_reset;  *)
(* how often the sessions of a person were wiped is history.               *)
ConsumePasswordReset(d, r) ==
    [d EXCEPT !.resets = @ \ {r},
              !.sessions = {s \in @ : s.user # r.user},
              !.wiped[r.user] = @ + 1]

(* create_session.  How it came about (by), the token it was opened with   *)
(* (from), whether the person had a passkey when the password was given    *)
(* (hadKeys) and the wipes before it (after) are history.                  *)
CreateSession(d, u, t, by, from, hadKeys) ==
    [d EXCEPT !.sessions = @ \cup {[id |-> d.next, user |-> u, team |-> t, by |-> by,
                                    from |-> from, hadKeys |-> hadKeys, after |-> d.wiped[u]]},
              !.next = @ + 1]

DeleteSession(d, s) == [d EXCEPT !.sessions = {x \in @ : x.id # s.id}]

(* validate_session: the person is a member of the session's team.         *)
ValidateSession(d, s) == s \in d.sessions /\ d.role[s.user][s.team] # "none"

UpdateSessionTeam(d, s, t) ==
    [d EXCEPT !.sessions = {IF x.id = s.id THEN [x EXCEPT !.team = t] ELSE x : x \in @}]

(* set_login_challenge: the challenge holds the passkeys of the moment.    *)
SetLoginChallenge(d, u) ==
    [d EXCEPT !.challenges = @ \cup {[id |-> d.next, user |-> u, keys |-> d.user[u].keys]},
              !.next = @ + 1]

(* Faulty variant: the challenge is read and left.                         *)
PeekLoginChallenge(d, ch) == d

(* take_login_challenge: DELETE ... RETURNING.                             *)
TakeLoginChallenge(d, ch) == [d EXCEPT !.challenges = @ \ {ch}]

(* set_registration_challenge: one for a person.                           *)
SetRegistrationChallenge(d, u) == [d EXCEPT !.enrolling = @ \cup {u}]

(* take_registration_challenge: DELETE ... RETURNING.                      *)
TakeRegistrationChallenge(d, u) == [d EXCEPT !.enrolling = @ \ {u}]

SaveUserPasskey(d, u, k) == [d EXCEPT !.user[u].keys = @ \cup {k}]

(* finish_user_registration: the authenticator is new to the account, as   *)
(* the challenge excluded those it has.                                    *)
FinishUserRegistration(d, u, k) == SaveUserPasskey(TakeRegistrationChallenge(d, u), u, k)

(* delete_user_passkey; that the last one went is history.                 *)
DeleteUserPasskeys(d, u, ks) ==
    [d EXCEPT !.user[u].keys = @ \ ks,
              !.stripped = IF d.user[u].keys \subseteq ks THEN @ \cup {u} ELSE @]

-----------------------------------------------------------------------------
(* Calls                                                                   *)

Asked(op) == op \in load.ops

(* A handler that issues tokens begins only within the bound of the model. *)
Room == db.next < load.tokens

Begin(c, frame) == call[c] = Idle /\ call' = [call EXCEPT ![c] = frame]
Continue(c, frame) == call' = [call EXCEPT ![c] = frame]
Return(c) == Continue(c, Idle)

(* authenticate_user: a valid session of a verified person.                *)
Authenticated(s) == ValidateSession(db, s) /\ db.user[s.user].verified

RoleIn(s) == db.role[s.user][s.team]

-----------------------------------------------------------------------------
(* Signing up and proving the address                                      *)

(* handle_signup: the address is free, and there is a free project name or *)
(* an invitation.                                                          *)
Signup(c, u, t) ==
    /\ Asked("signup") /\ Room
    /\ ~db.user[u].exists
    /\ IF t = NoTeam THEN InvitesByEmail(db, u) # {} ELSE t \notin db.teams
    /\ Begin(c, [op |-> "signup", user |-> u, team |-> t])
    /\ UNCHANGED <<load, db>>

(* The account, its own team, the invitations, and a code; no code where   *)
(* the invitation is gone.  A name taken since fails create_team.          *)
FinishSignup(c) ==
    LET f == call[c]
        own == IF f.team = NoTeam THEN CreateUser(db, f.user)
               ELSE AddMembership([CreateUser(db, f.user) EXCEPT !.teams = @ \cup {f.team}],
                                  f.user, f.team, "owner")
        joined == ConsumePendingInvites(own, f.user)
    IN  /\ f.op = "signup"
        /\ db' = IF f.team \in db.teams THEN db
                 ELSE IF f.team = NoTeam /\ InvitesByEmail(db, f.user) = {} THEN joined
                 ELSE CreateEmailVerification(joined, f.user)
        /\ Return(c)
        /\ UNCHANGED load

ResendVerification(u) ==
    /\ Asked("signup") /\ Room
    /\ db.user[u].exists /\ ~db.user[u].verified
    /\ db' = CreateEmailVerification(db, u)
    /\ UNCHANGED <<load, call>>

(* handle_verify_email: the code is read, consumed by another statement,   *)
(* and a setup session opened where there is a team.                       *)
VerifyEmail(c, code) ==
    /\ Asked("signup") /\ Room
    /\ Begin(c, [op |-> "verify", code |-> code])
    /\ UNCHANGED <<load, db>>

ConsumeCode(c) ==
    /\ call[c].op = "verify"
    /\ db' = ConsumeEmailVerification(db, call[c].code)
    /\ Continue(c, [op |-> "verified", code |-> call[c].code])
    /\ UNCHANGED load

FinishVerifyEmail(c) ==
    LET code == call[c].code IN
    /\ call[c].op = "verified"
    /\ \/ /\ MembershipsOf(db, code.user) = {}
          /\ UNCHANGED db
       \/ \E t \in MembershipsOf(db, code.user) :
              db' = CreateSession(db, code.user, t, "code", code.id, FALSE)
    /\ Return(c)
    /\ UNCHANGED load

-----------------------------------------------------------------------------
(* Signing in                                                              *)

(* handle_login: the password is right and the address verified.           *)
Login(c, u) ==
    /\ Asked("login") /\ Room
    /\ db.user[u].exists /\ db.user[u].verified
    /\ Begin(c, [op |-> "login", user |-> u, hadKeys |-> db.user[u].keys # {}])
    /\ UNCHANGED <<load, db>>

(* Faulty variant: whoever has no challenge pending is sent to setup.      *)
HasPasskeysPending(u) == \E ch \in db.challenges : ch.user = u

(* user_has_passkeys                                                       *)
UserHasPasskeys(u) == db.user[u].keys # {}

(* begin_user_login                                                        *)
BeginUserLogin(d, u) == SetLoginChallenge(d, u)

(* finish_first_factor_login: invitations are accepted, then a session     *)
(* without WebAuthn, a setup session without passkeys, or a challenge.     *)
FinishFirstFactorLogin(c) ==
    LET f == call[c]
        d == ConsumePendingInvites(db, f.user)
    IN  /\ f.op = "login"
        /\ UNCHANGED load
        /\ \/ /\ MembershipsOf(d, f.user) = {}
              /\ db' = d /\ Return(c)
           \/ \E t \in MembershipsOf(d, f.user) :
                 \/ /\ ~load.webauthn
                    /\ db' = CreateSession(d, f.user, t, "password", 0, f.hadKeys)
                    /\ Return(c)
                 \/ /\ load.webauthn /\ ~UserHasPasskeys(f.user)
                    /\ db' = d
                    /\ Continue(c, [op |-> "setup", user |-> f.user, team |-> t, hadKeys |-> f.hadKeys])
                 \/ /\ load.webauthn /\ UserHasPasskeys(f.user)
                    /\ db' = BeginUserLogin(d, f.user)
                    /\ Return(c)

OpenSetupSession(c) ==
    LET f == call[c] IN
    /\ f.op = "setup"
    /\ db' = CreateSession(db, f.user, f.team, "setup", 0, f.hadKeys)
    /\ Return(c)
    /\ UNCHANGED load

(* finish_user_login: one of the passkeys of the challenge answers it; it  *)
(* is gone whether the answer verifies or not.                             *)
LoginPasskey(c, ch) ==
    /\ Asked("login") /\ Room
    /\ \/ Begin(c, [op |-> "passkey", challenge |-> ch])
       \/ UNCHANGED call
    /\ db' = TakeLoginChallenge(db, ch)
    /\ UNCHANGED load

(* handle_login_passkey: into a team of the person's, if there is one.     *)
FinishLoginPasskey(c) ==
    LET ch == call[c].challenge IN
    /\ call[c].op = "passkey"
    /\ \/ /\ ~db.user[ch.user].verified \/ MembershipsOf(db, ch.user) = {}
          /\ UNCHANGED db
       \/ /\ db.user[ch.user].verified
          /\ \E t \in MembershipsOf(db, ch.user) :
                 db' = CreateSession(db, ch.user, t, "passkey", ch.id, TRUE)
    /\ Return(c)
    /\ UNCHANGED load

Logout(s) ==
    /\ Asked("login")
    /\ db' = DeleteSession(db, s)
    /\ UNCHANGED <<load, call>>

-----------------------------------------------------------------------------
(* Passwords                                                               *)

(* handle_forgot_password; within the cooldown nothing happens.            *)
ForgotPassword(u) ==
    /\ Asked("reset") /\ Room
    /\ db.user[u].exists
    /\ db' = CreatePasswordReset(db, u)
    /\ UNCHANGED <<load, call>>

(* handle_reset_password: the token is read, consumed together with the    *)
(* sessions, and the new password written.                                 *)
ResetPassword(c, r) ==
    /\ Asked("reset")
    /\ db.user[r.user].password < MaxPasswords
    /\ Begin(c, [op |-> "reset", token |-> r])
    /\ UNCHANGED <<load, db>>

ConsumeReset(c) ==
    /\ call[c].op = "reset"
    /\ db' = ConsumePasswordReset(db, call[c].token)
    /\ Continue(c, [op |-> "newPassword", user |-> call[c].token.user])
    /\ UNCHANGED load

FinishResetPassword(c) ==
    /\ call[c].op = "newPassword"
    /\ db' = UpdateUserPassword(db, call[c].user)
    /\ Return(c)
    /\ UNCHANGED load

-----------------------------------------------------------------------------
(* Passkeys                                                                *)

(* begin_user_registration                                                 *)
BeginUserRegistration(u) ==
    /\ load.webauthn
    /\ db' = SetRegistrationChallenge(db, u)
    /\ UNCHANGED <<load, call>>

(* handle_setup_passkey_begin takes a session of any kind.                 *)
SetupPasskeyBegin(s) ==
    /\ Asked("passkeys") /\ ValidateSession(db, s)
    /\ BeginUserRegistration(s.user)

(* handle_admin_passkey_register_begin                                     *)
RegisterBegin(s) ==
    /\ Asked("passkeys") /\ Authenticated(s)
    /\ BeginUserRegistration(s.user)

(* handle_setup_passkey_finish: the setup token is deleted.                *)
SetupPasskeyFinish(s, k) ==
    /\ Asked("passkeys") /\ load.webauthn
    /\ ValidateSession(db, s)
    /\ s.user \in db.enrolling
    /\ k \notin UNION {db.user[u].keys : u \in Users}
    /\ db' = DeleteSession(FinishUserRegistration(db, s.user, k), s)
    /\ UNCHANGED <<load, call>>

(* handle_admin_passkey_register_finish                                    *)
RegisterFinish(s, k) ==
    /\ Asked("passkeys") /\ load.webauthn
    /\ Authenticated(s)
    /\ s.user \in db.enrolling
    /\ k \notin UNION {db.user[u].keys : u \in Users}
    /\ db' = FinishUserRegistration(db, s.user, k)
    /\ UNCHANGED <<load, call>>

(* handle_delete_admin_passkey: the keys are counted, then one is deleted. *)
DeletePasskey(c, s, k) ==
    /\ Asked("passkeys")
    /\ Authenticated(s)
    /\ Cardinality(db.user[s.user].keys) > 1
    /\ Begin(c, [op |-> "deleteKey", user |-> s.user, key |-> k])
    /\ UNCHANGED <<load, db>>

FinishDeletePasskey(c) ==
    /\ call[c].op = "deleteKey"
    /\ db' = DeleteUserPasskeys(db, call[c].user, {call[c].key})
    /\ Return(c)
    /\ UNCHANGED load

(* authorize_member_passkey_reset: a manager, of another member, no owner. *)
MayResetPasskeys(s, u) ==
    /\ Authenticated(s) /\ RoleIn(s) \in Managers
    /\ u # s.user
    /\ db.role[u][s.team] \notin {"none", "owner"}

(* handle_reset_member_passkeys_begin: a challenge bound to both.          *)
ResetPasskeysBegin(s, u) ==
    /\ Asked("passkeys") /\ load.webauthn
    /\ MayResetPasskeys(s, u) /\ UserHasPasskeys(s.user)
    /\ db' = [db EXCEPT !.stepups = @ \cup {[by |-> s.user, of |-> u, team |-> s.team]}]
    /\ UNCHANGED <<load, call>>

(* reset_member_passkeys: with WebAuthn, after the manager's assertion.    *)
ResetPasskeys(c, s, u) ==
    LET stepup == [by |-> s.user, of |-> u, team |-> s.team] IN
    /\ Asked("passkeys")
    /\ MayResetPasskeys(s, u)
    /\ load.webauthn => stepup \in db.stepups /\ UserHasPasskeys(s.user)
    /\ db' = [db EXCEPT !.stepups = @ \ {stepup}]
    /\ Begin(c, [op |-> "resetKeys", user |-> u])
    /\ UNCHANGED load

FinishResetPasskeys(c) ==
    LET u == call[c].user IN
    /\ call[c].op = "resetKeys"
    /\ db' = DeleteUserPasskeys(db, u, db.user[u].keys)
    /\ Return(c)
    /\ UNCHANGED load

-----------------------------------------------------------------------------
(* Members                                                                 *)

(* Faulty variant: a manager may invite with any role.                     *)
MayInviteAnyRole(s, r) == RoleIn(s) \in Managers

(* handle_invite_team_member: only an owner invites an owner.              *)
MayInvite(s, r) == RoleIn(s) \in Managers /\ (r = "owner" => RoleIn(s) = "owner")

InviteTeamMember(s, u, r) ==
    /\ Asked("invites") /\ Room
    /\ Authenticated(s) /\ MayInvite(s, r)
    /\ db.role[u][s.team] = "none"
    /\ db' = CreateInvite(db, u, s.team, r, s.user)
    /\ UNCHANGED <<load, call>>

CancelInvite(s, i) ==
    /\ Asked("invites")
    /\ Authenticated(s) /\ RoleIn(s) \in Managers
    /\ i.team = s.team
    /\ db' = DeleteInvite(db, i)
    /\ UNCHANGED <<load, call>>

(* resolve_invite_action                                                   *)
InviteAction(i) ==
    IF db.role[i.user][i.team] # "none" THEN "already_member"
    ELSE IF db.user[i.user].exists THEN "login_to_accept" ELSE "create_account"

(* handle_accept_invite, by the token of the invitation: a member's is     *)
(* deleted; whoever has an account is sent to log in.                      *)
AcceptInvite(c, i) ==
    /\ Asked("invites")
    /\ UNCHANGED load
    /\ \/ /\ InviteAction(i) = "already_member"
          /\ db' = DeleteInvite(db, i)
          /\ UNCHANGED call
       \/ /\ InviteAction(i) = "create_account"
          /\ Begin(c, [op |-> "accept", invite |-> i])
          /\ UNCHANGED db

FinishAcceptInvite(c) ==
    LET i == call[c].invite
        member == AddMembership(CreateUser(db, i.user), i.user, i.team, i.role)
    IN  /\ call[c].op = "accept"
        /\ db' = DeleteInvite(SetUserEmailVerified(member, i.user), i)
        /\ Return(c)
        /\ UNCHANGED load

(* handle_remove_team_member: not oneself and not an owner.                *)
RemoveTeamMember(c, s, u) ==
    /\ Asked("members")
    /\ Authenticated(s) /\ RoleIn(s) \in Managers
    /\ u # s.user
    /\ db.role[u][s.team] \notin {"none", "owner"}
    /\ Begin(c, [op |-> "remove", user |-> u, team |-> s.team])
    /\ UNCHANGED <<load, db>>

FinishRemoveTeamMember(c) ==
    /\ call[c].op = "remove"
    /\ db' = DeleteMembership(db, call[c].user, call[c].team)
    /\ Return(c)
    /\ UNCHANGED load

(* handle_change_member_role: by an owner, of another member.              *)
ChangeMemberRole(c, s, u, r) ==
    /\ Asked("members")
    /\ Authenticated(s) /\ RoleIn(s) = "owner"
    /\ u # s.user
    /\ db.role[u][s.team] # "none"
    /\ Begin(c, [op |-> "role", user |-> u, team |-> s.team, role |-> r, by |-> s.user])
    /\ UNCHANGED <<load, db>>

FinishChangeMemberRole(c) ==
    LET f == call[c] IN
    /\ f.op = "role"
    /\ db' = UpdateMemberRole(db, f.user, f.team, f.role)
    /\ Return(c)
    /\ UNCHANGED load

(* Faulty variant: the session moves to any team.                          *)
AnyTeam(u) == db.teams

(* get_member of handle_switch_team                                        *)
TeamsToSwitchTo(u) == MembershipsOf(db, u)

SwitchTeam(c, s, t) ==
    /\ Asked("members")
    /\ Authenticated(s)
    /\ t \in TeamsToSwitchTo(s.user) \ {s.team}
    /\ Begin(c, [op |-> "switch", session |-> s, team |-> t])
    /\ UNCHANGED <<load, db>>

FinishSwitchTeam(c) ==
    /\ call[c].op = "switch"
    /\ db' = UpdateSessionTeam(db, call[c].session, call[c].team)
    /\ Return(c)
    /\ UNCHANGED load

-----------------------------------------------------------------------------
(* Time and failure                                                        *)

(* Every token and session has a lifetime.                                 *)
Expire ==
    /\ \/ \E x \in db.sessions : db' = DeleteSession(db, x)
       \/ \E x \in db.codes : db' = [db EXCEPT !.codes = @ \ {x}]
       \/ \E x \in db.resets : db' = [db EXCEPT !.resets = @ \ {x}]
       \/ \E x \in db.challenges : db' = [db EXCEPT !.challenges = @ \ {x}]
       \/ \E x \in db.enrolling : db' = [db EXCEPT !.enrolling = @ \ {x}]
       \/ \E x \in db.invites : db' = DeleteInvite(db, x)
       \/ \E x \in db.stepups : db' = [db EXCEPT !.stepups = @ \ {x}]
    /\ UNCHANGED <<load, call>>

(* The instance goes down, or the client does and the handler is dropped.  *)
Crash(c) ==
    /\ call[c] # Idle
    /\ Return(c)
    /\ UNCHANGED <<load, db>>

-----------------------------------------------------------------------------

(* A team with an owner and perhaps another member, who may own others,    *)
(* both signed in; everybody else is a stranger.                           *)
SignedIn(u, t, n) ==
    [id |-> n, user |-> u, team |-> t, by |-> "passkey", from |-> 0, hadKeys |-> TRUE, after |-> 0]

Account(keys) == [exists |-> TRUE, verified |-> TRUE, password |-> 1, keys |-> keys]

InitDb(roleOfOther, owns, keys, otherKeys) ==
    LET isOther == roleOfOther # "none"
        startRole(u, t) == CASE u = Founder /\ t = FirstTeam -> "owner"
                             [] u = Other /\ t = FirstTeam -> roleOfOther
                             [] u = Other /\ t \in owns -> "owner"
                             [] OTHER -> "none"
    IN  [teams |-> {FirstTeam} \cup owns,
         user |-> [u \in Users |-> IF u = Founder THEN Account(keys)
                                   ELSE IF u = Other /\ isOther THEN Account(otherKeys)
                                   ELSE [exists |-> FALSE, verified |-> FALSE, password |-> 0, keys |-> {}]],
         role |-> [u \in Users |-> [t \in Teams |-> startRole(u, t)]],
         held |-> [u \in Users |-> [t \in Teams |-> {startRole(u, t)} \ {"none"}]],
         invites |-> {}, codes |-> {}, resets |-> {}, challenges |-> {}, enrolling |-> {}, stepups |-> {},
         sessions |-> {SignedIn(Founder, FirstTeam, 0)}
                     \cup (IF isOther THEN {SignedIn(Other, FirstTeam, 1)} ELSE {}),
         stripped |-> {}, wiped |-> [u \in Users |-> 0], next |-> 2]

Init ==
    /\ load \in Loads
    /\ call = [c \in Callers |-> Idle]
    /\ \E r \in load.roles : db = InitDb(r, load.owns, load.keys[1], load.keys[2])

Next ==
    \/ \E c \in Callers, u \in load.users, t \in Teams \cup {NoTeam} : Signup(c, u, t)
    \/ \E c \in Callers, u \in load.users : Login(c, u)
    \/ \E u \in load.users : ResendVerification(u) \/ ForgotPassword(u)
    \/ \E c \in Callers, code \in db.codes : VerifyEmail(c, code)
    \/ \E c \in Callers, ch \in db.challenges : LoginPasskey(c, ch)
    \/ \E c \in Callers, r \in db.resets : ResetPassword(c, r)
    \/ \E c \in Callers, i \in db.invites : AcceptInvite(c, i)
    \/ \E c \in Callers :
          \/ FinishSignup(c) \/ ConsumeCode(c) \/ FinishVerifyEmail(c)
          \/ FinishFirstFactorLogin(c) \/ OpenSetupSession(c) \/ FinishLoginPasskey(c)
          \/ ConsumeReset(c) \/ FinishResetPassword(c)
          \/ FinishDeletePasskey(c) \/ FinishResetPasskeys(c)
          \/ FinishAcceptInvite(c) \/ FinishRemoveTeamMember(c) \/ FinishChangeMemberRole(c)
          \/ FinishSwitchTeam(c) \/ Crash(c)
    \/ \E s \in db.sessions :
          \/ Logout(s) \/ SetupPasskeyBegin(s) \/ RegisterBegin(s)
          \/ \E k \in Keys : SetupPasskeyFinish(s, k) \/ RegisterFinish(s, k)
          \/ \E c \in Callers, k \in db.user[s.user].keys : DeletePasskey(c, s, k)
          \/ \E u \in load.users : ResetPasskeysBegin(s, u)
          \/ \E u \in load.users, c \in Callers : ResetPasskeys(c, s, u) \/ RemoveTeamMember(c, s, u)
          \/ \E u \in load.users, r \in Roles : InviteTeamMember(s, u, r)
          \/ \E u \in load.users, r \in Roles, c \in Callers : ChangeMemberRole(c, s, u, r)
          \/ \E i \in db.invites : CancelInvite(s, i)
          \/ \E t \in Teams, c \in Callers : SwitchTeam(c, s, t)
    \/ Expire

Spec == Init /\ [][Next]_vars

-----------------------------------------------------------------------------
(* Properties                                                              *)

(* The shape of the rows, and nothing is issued in the name of someone     *)
(* without an account: sessions, codes, resets, challenges and             *)
(* registrations belong to rows of users (the foreign keys of store.rs).   *)
TypeOK ==
    /\ db.teams \subseteq Teams
    /\ \A u \in Users :
          /\ db.user[u].keys \subseteq Keys /\ db.user[u].password \in 0 .. MaxPasswords + Cardinality(Callers)
          /\ \A t \in Teams : db.role[u][t] \in Roles \cup {"none"}
    /\ \A x \in db.sessions \cup db.codes \cup db.resets \cup db.challenges : db.user[x.user].exists
    /\ \A u \in db.enrolling : db.user[u].exists
    /\ \A u \in Users, t \in Teams : db.role[u][t] # "none" => db.user[u].exists /\ t \in db.teams

(* The password alone opens no session for a person who had a passkey when *)
(* it was given: finish_first_factor_login sends them to the ceremony,     *)
(* unless someone took their last passkey away in the meantime.            *)
SecondFactor ==
    \A s \in db.sessions :
        load.webauthn /\ s.hadKeys /\ s.user \notin db.stripped => s.by \in {"passkey"}

(* A challenge of /login opens one session, however many requests answer   *)
(* it at the same time and on however many instances (take_login_challenge *)
(* deletes the row it returns).                                            *)
OneSessionPerChallenge ==
    \A s, x \in db.sessions : s.by = "passkey" /\ s.from = x.from /\ s.from # 0 => s = x

(* A password reset ends every session opened before it (the last          *)
(* statement of validate_and_consume_password_reset), whoever switched     *)
(* teams or registered passkeys with it in the meantime.                   *)
ResetEndsSessions == \A s \in db.sessions : s.after = db.wiped[s.user]

(* Nobody becomes owner of a team but by an owner: who signed up with it,  *)
(* or an owner's invitation, whenever it is accepted and by which of the   *)
(* three paths, or an owner's change of their role.                        *)
OwnersComeFromOwners ==
    [][\A u \in Users, t \in db.teams :
          db.role[u][t] # "owner" /\ db'.role[u][t] = "owner" =>
              \/ \E i \in db.invites \cup {call[c].invite : c \in {c \in Callers : call[c].op = "accept"}} :
                    i.user = u /\ i.team = t /\ i.role = "owner" /\ "owner" \in db.held[i.by][t]
              \/ \E c \in Callers : call[c].op = "role" /\ call[c].team = t /\ "owner" \in db.held[call[c].by][t]]_vars

(* The active team of a session is one its person is or was a member of:   *)
(* neither signing in nor switching teams leads elsewhere.                 *)
SessionTeamWasJoined == \A s \in db.sessions : db.held[s.user][s.team] # {}

(* A session stands for what its person proved, in a team they joined: the *)
(* foreign keys of TypeOK, SecondFactor, OneSessionPerChallenge and        *)
(* SessionTeamWasJoined, whatever handlers of admin.rs overlap.            *)
SessionsAreEarned == TypeOK /\ SecondFactor /\ OneSessionPerChallenge /\ SessionTeamWasJoined
===============================================================================
