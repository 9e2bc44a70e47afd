---------------------------- MODULE AccountsProofs ----------------------------
(***************************************************************************)
(* Proofs about Accounts, for any people, teams, passkeys and requests.    *)
(*                                                                         *)
(* A session is judged long after the handler that opens it made its       *)
(* checks.  Sound says what the tables keep to; Frame says of a handler    *)
(* under way which of its checks still hold of the tables as they are now. *)
(* A statement keeps Sound and relates the tables before and after by      *)
(* Grows, which is all that the frames of other handlers need.             *)
(***************************************************************************)
EXTENDS Accounts, FiniteSetTheorems, WellFoundedInduction, TLAPS

-----------------------------------------------------------------------------
(* The tables                                                              *)

AccountRow == [exists : BOOLEAN, verified : BOOLEAN, password : Nat, keys : SUBSET Keys]
InviteRow == [id : Nat, user : Users, team : Teams, role : Roles, by : Users]
TokenRow == [id : Nat, user : Users]
ChallengeRow == [id : Nat, user : Users, keys : SUBSET Keys]
SessionRow ==
    [id : Nat, user : Users, team : Teams, by : {"passkey", "code", "password", "setup"},
     from : Nat, hadKeys : BOOLEAN, after : Nat]

Tables ==
    [teams : SUBSET Teams, user : [Users -> AccountRow],
     role : [Users -> [Teams -> Roles \cup {"none"}]], held : [Users -> [Teams -> SUBSET Roles]],
     invites : SUBSET InviteRow, codes : SUBSET TokenRow, resets : SUBSET TokenRow,
     challenges : SUBSET ChallengeRow, enrolling : SUBSET Users,
     stepups : SUBSET [by : Users, of : Users, team : Teams], sessions : SUBSET SessionRow,
     stripped : SUBSET Users, wiped : [Users -> Nat], next : Nat]

(* The foreign keys on users.                                              *)
Owned(d) ==
    /\ \A s \in d.sessions : d.user[s.user].exists
    /\ \A k \in d.codes : d.user[k.user].exists
    /\ \A r \in d.resets : d.user[r.user].exists
    /\ \A ch \in d.challenges : d.user[ch.user].exists
    /\ \A u \in d.enrolling : d.user[u].exists

(* Whoever has no account has no passkey.                                  *)
Keyless(d) == \A u \in Users : d.user[u].exists \/ d.user[u].keys = {}

Joined(d) ==
    \A u \in Users, t \in Teams :
        d.role[u][t] # "none" => d.user[u].exists /\ t \in d.teams /\ d.role[u][t] \in d.held[u][t]

Vouched(d, i) == i.team \in d.teams /\ (i.role = "owner" => "owner" \in d.held[i.by][i.team])

Opened(d, webauthn, s) ==
    /\ d.held[s.user][s.team] # {}
    /\ s.after = d.wiped[s.user]
    /\ s.id < d.next /\ s.from < d.next
    /\ webauthn /\ s.hadKeys /\ s.user \notin d.stripped => s.by = "passkey"

Sessions(d, webauthn) ==
    /\ \A s \in d.sessions : Opened(d, webauthn, s)
    /\ \A s, x \in d.sessions : s.id = x.id => s.user = x.user

(* Nothing was opened yet with the challenge that has this number, and no  *)
(* code has it.                                                            *)
Unused(d, n) ==
    /\ n \in Nat \ {0} /\ n < d.next
    /\ \A s \in d.sessions : s.from # n
    /\ \A k \in d.codes : k.id # n

(* No challenge has, or had, the number of a code.                         *)
CodeOnly(d, n) ==
    /\ n \in Nat \ {0} /\ n < d.next
    /\ \A s \in d.sessions : s.by = "passkey" => s.from # n
    /\ \A ch \in d.challenges : ch.id # n

Once(d) ==
    /\ \A ch \in d.challenges : Unused(d, ch.id)
    /\ \A k \in d.codes : CodeOnly(d, k.id)
    /\ \A x, y \in d.challenges : x.id = y.id => x = y
    /\ \A s, x \in d.sessions : s.by = "passkey" /\ s.from = x.from /\ s.from # 0 => s = x

Sound(d, webauthn) ==
    /\ d \in Tables
    /\ d.next > 0
    /\ Owned(d)
    /\ Keyless(d)
    /\ Joined(d)
    /\ \A i \in d.invites : Vouched(d, i)
    /\ Sessions(d, webauthn)
    /\ Once(d)

-----------------------------------------------------------------------------
(* The handlers under way                                                  *)

Exists(d, u) == u \in Users /\ d.user[u].exists

Verifying(f) == f.op \in {"verify", "verified"}

(* What a handler holds, and what its checks say of the tables now.        *)
Frame(d, webauthn, f) ==
    \/ f.op = "idle"
    \/ f.op = "signup" /\ f.user \in Users /\ f.team \in Teams \cup {NoTeam}
    \/ Verifying(f) /\ f.code \in TokenRow /\ Exists(d, f.code.user) /\ CodeOnly(d, f.code.id)
    \/ /\ f.op = "login" /\ Exists(d, f.user) /\ f.hadKeys \in BOOLEAN
       /\ f.hadKeys /\ f.user \notin d.stripped => d.user[f.user].keys # {}
    \/ /\ f.op = "setup" /\ Exists(d, f.user) /\ f.team \in Teams /\ f.hadKeys \in BOOLEAN
       /\ d.held[f.user][f.team] # {}
       /\ webauthn /\ f.hadKeys => f.user \in d.stripped
    \/ /\ f.op = "passkey" /\ f.challenge \in ChallengeRow
       /\ Exists(d, f.challenge.user) /\ Unused(d, f.challenge.id)
       /\ \A ch \in d.challenges : ch.id # f.challenge.id
    \/ f.op = "reset" /\ f.token \in TokenRow /\ Exists(d, f.token.user)
    \/ f.op = "newPassword" /\ Exists(d, f.user)
    \/ f.op \in {"deleteKey", "resetKeys"} /\ f.user \in Users
    \/ f.op = "accept" /\ f.invite \in InviteRow /\ Vouched(d, f.invite)
    \/ f.op = "remove" /\ f.user \in Users /\ f.team \in Teams
    \/ /\ f.op = "role" /\ f.user \in Users /\ f.team \in Teams /\ f.role \in Roles
       /\ f.by \in Users /\ "owner" \in d.held[f.by][f.team]
    \/ /\ f.op = "switch" /\ f.session \in SessionRow /\ f.team \in Teams
       /\ d.held[f.session.user][f.team] # {}
       /\ f.session.id < d.next
       /\ \A s \in d.sessions : s.id = f.session.id => s.user = f.session.user

(* Two handlers never answer the same challenge, and what one of them      *)
(* answers is not the code of the other.                                   *)
Apart(f, g) ==
    f.op = "passkey" =>
        /\ g.op = "passkey" => g.challenge.id # f.challenge.id
        /\ Verifying(g) => g.code.id # f.challenge.id

Facts ==
    /\ load \in Loads
    /\ Sound(db, load.webauthn)
    /\ DOMAIN call = Callers
    /\ \A c \in Callers : Frame(db, load.webauthn, call[c])
    /\ \A b, c \in Callers : b # c => Apart(call[b], call[c])

(* The passwords of a person and the resets of theirs that are under way.  *)
Resetting(u) ==
    {c \in Callers : \/ call[c].op = "reset" /\ call[c].token.user = u
                     \/ call[c].op = "newPassword" /\ call[c].user = u}

Passwords ==
    \A u \in Users : db.user[u].password + Cardinality(Resetting(u)) <= MaxPasswords + Cardinality(Callers)

-----------------------------------------------------------------------------
(* Statements                                                              *)

(* What a statement leaves true for handlers that do not run it.  A new    *)
(* session was opened in the way b with the token n.                       *)
Grows(d, e, n, b) ==
    /\ \A u \in Users : d.user[u].exists => e.user[u].exists
    /\ d.teams \subseteq e.teams
    /\ \A u \in Users, t \in Teams : d.held[u][t] \subseteq e.held[u][t]
    /\ d.stripped \subseteq e.stripped
    /\ \A u \in Users : u \notin e.stripped /\ d.user[u].keys # {} => e.user[u].keys # {}
    /\ d.next <= e.next
    /\ \A s \in e.sessions :
          \/ \E x \in d.sessions : x.id = s.id /\ x.user = s.user /\ x.from = s.from /\ x.by = s.by
          \/ s.id >= d.next /\ s.from = n /\ s.by = b
    /\ \A k \in e.codes : k \in d.codes \/ k.id >= d.next
    /\ \A ch \in e.challenges : ch \in d.challenges \/ ch.id >= d.next

\* One statement after another.
LEMMA GrowsOn ==
    ASSUME NEW d \in Tables, NEW e \in Tables, NEW g \in Tables, NEW n, NEW b,
           Grows(d, e, n, b), Grows(e, g, n, b)
    PROVE  Grows(d, g, n, b)
  <1>1. \A s \in g.sessions :
          \/ \E x \in d.sessions : x.id = s.id /\ x.user = s.user /\ x.from = s.from /\ x.by = s.by
          \/ s.id >= d.next /\ s.from = n /\ s.by = b
    BY DEF Grows, Tables, SessionRow
  <1>2. /\ \A k \in g.codes : k \in d.codes \/ k.id >= d.next
        /\ \A ch \in g.challenges : ch \in d.challenges \/ ch.id >= d.next
        /\ d.next <= g.next
    BY DEF Grows, Tables, TokenRow, ChallengeRow
  <1>3. /\ \A u \in Users : d.user[u].exists => g.user[u].exists
        /\ d.teams \subseteq g.teams
        /\ \A u \in Users, t \in Teams : d.held[u][t] \subseteq g.held[u][t]
        /\ d.stripped \subseteq g.stripped
        /\ \A u \in Users : u \notin g.stripped /\ d.user[u].keys # {} => g.user[u].keys # {}
    BY DEF Grows
  <1> QED BY <1>1, <1>2, <1>3 DEF Grows

\* The checks of a handler outlive the statements of the others.
LEMMA FrameKept ==
    ASSUME NEW d \in Tables, NEW e \in Tables, NEW webauthn, NEW f, NEW n, NEW b,
           Frame(d, webauthn, f), Grows(d, e, n, b),
           f.op = "passkey" => f.challenge.id # n,
           Verifying(f) /\ b = "passkey" => f.code.id # n
    PROVE  Frame(e, webauthn, f)
  <1>1. CASE f.op \in {"idle", "signup", "deleteKey", "resetKeys", "remove"}
    BY <1>1 DEF Frame, Verifying
  <1>2. CASE Verifying(f)
    <2>1. f.code \in TokenRow /\ Exists(d, f.code.user) /\ CodeOnly(d, f.code.id)
      BY <1>2 DEF Frame, Verifying
    <2>2. Exists(e, f.code.user) /\ f.code.id \in Nat \ {0} /\ f.code.id < d.next
      BY <2>1 DEF Exists, Grows, CodeOnly
    <2>3. \A s \in e.sessions : s.by = "passkey" => s.from # f.code.id
      <3>1. SUFFICES ASSUME NEW s \in e.sessions, s.by = "passkey" PROVE s.from # f.code.id
        OBVIOUS
      <3>2. CASE \E x \in d.sessions : x.from = s.from /\ x.by = s.by
        BY <2>1, <3>1, <3>2 DEF CodeOnly
      <3>3. CASE s.from = n /\ s.by = b
        BY <1>2, <3>1, <3>3
      <3> QED BY <3>2, <3>3 DEF Grows
    <2>4. \A ch \in e.challenges : ch.id # f.code.id
      <3>1. SUFFICES ASSUME NEW ch \in e.challenges PROVE ch.id # f.code.id
        OBVIOUS
      <3>2. CASE ch \in d.challenges
        BY <2>1, <3>2 DEF CodeOnly
      <3>3. CASE ch.id >= d.next
        <4>1. ch.id \in Nat /\ d.next \in Nat
          BY <3>1 DEF Tables, ChallengeRow
        <4> QED BY <2>2, <3>3, <4>1
      <3> QED BY <3>2, <3>3 DEF Grows
    <2>5. d.next <= e.next /\ d.next \in Nat /\ e.next \in Nat
      BY DEF Grows, Tables
    <2>6. CodeOnly(e, f.code.id)
      BY <2>2, <2>3, <2>4, <2>5 DEF CodeOnly
    <2> QED BY <1>2, <2>1, <2>2, <2>6 DEF Frame
  <1>3. CASE f.op = "login"
    BY <1>3 DEF Frame, Verifying, Exists, Grows
  <1>4. CASE f.op = "setup"
    BY <1>4 DEF Frame, Verifying, Exists, Grows
  <1>5. CASE f.op = "passkey"
    <2>1. /\ f.challenge \in ChallengeRow /\ Exists(d, f.challenge.user) /\ Unused(d, f.challenge.id)
          /\ \A ch \in d.challenges : ch.id # f.challenge.id
      BY <1>5 DEF Frame, Verifying
    <2>2. Exists(e, f.challenge.user) /\ f.challenge.id \in Nat \ {0} /\ f.challenge.id < d.next
      BY <2>1 DEF Exists, Grows, Unused
    <2>3. \A s \in e.sessions : s.from # f.challenge.id
      <3>1. SUFFICES ASSUME NEW s \in e.sessions PROVE s.from # f.challenge.id
        OBVIOUS
      <3>2. CASE \E x \in d.sessions : x.from = s.from
        BY <2>1, <3>2 DEF Unused
      <3>3. CASE s.from = n
        BY <1>5, <3>3
      <3> QED BY <3>2, <3>3 DEF Grows
    <2>4. d.next \in Nat /\ e.next \in Nat /\ d.next <= e.next
      BY DEF Grows, Tables
    <2>5. \A k \in e.codes : k.id # f.challenge.id
      <3>1. SUFFICES ASSUME NEW k \in e.codes PROVE k.id # f.challenge.id
        OBVIOUS
      <3>2. CASE k \in d.codes
        BY <2>1, <3>2 DEF Unused
      <3>3. CASE k.id >= d.next
        <4>1. k.id \in Nat
          BY <3>1 DEF Tables, TokenRow
        <4> QED BY <2>2, <2>4, <3>3, <4>1
      <3> QED BY <3>2, <3>3 DEF Grows
    <2>6. \A ch \in e.challenges : ch.id # f.challenge.id
      <3>1. SUFFICES ASSUME NEW ch \in e.challenges PROVE ch.id # f.challenge.id
        OBVIOUS
      <3>2. CASE ch \in d.challenges
        BY <2>1, <3>2
      <3>3. CASE ch.id >= d.next
        <4>1. ch.id \in Nat
          BY <3>1 DEF Tables, ChallengeRow
        <4> QED BY <2>2, <2>4, <3>3, <4>1
      <3> QED BY <3>2, <3>3 DEF Grows
    <2>7. Unused(e, f.challenge.id)
      BY <2>2, <2>3, <2>4, <2>5 DEF Unused
    <2> QED BY <1>5, <2>1, <2>2, <2>6, <2>7 DEF Frame
  <1>6. CASE f.op \in {"reset", "newPassword"}
    BY <1>6 DEF Frame, Verifying, Exists, Grows, TokenRow
  <1>7. CASE f.op = "accept"
    BY <1>7 DEF Frame, Verifying, Vouched, Grows, InviteRow
  <1>8. CASE f.op = "role"
    BY <1>8 DEF Frame, Verifying, Grows
  <1>9. CASE f.op = "switch"
    <2>1. /\ f.session \in SessionRow /\ f.team \in Teams /\ d.held[f.session.user][f.team] # {}
          /\ f.session.id < d.next
          /\ \A s \in d.sessions : s.id = f.session.id => s.user = f.session.user
      BY <1>9 DEF Frame, Verifying
    <2>2. f.session.user \in Users /\ f.session.id \in Nat /\ d.next \in Nat /\ e.next \in Nat
      BY <2>1 DEF SessionRow, Tables
    <2>3. e.held[f.session.user][f.team] # {} /\ f.session.id < e.next
      BY <2>1, <2>2 DEF Grows
    <2>4. \A s \in e.sessions : s.id = f.session.id => s.user = f.session.user
      <3>1. SUFFICES ASSUME NEW s \in e.sessions, s.id = f.session.id PROVE s.user = f.session.user
        OBVIOUS
      <3>2. ~(s.id >= d.next)
        BY <2>1, <2>2, <3>1
      <3>3. \E x \in d.sessions : x.id = s.id /\ x.user = s.user
        BY <3>2 DEF Grows
      <3> QED BY <2>1, <3>1, <3>3
    <2> QED BY <1>9, <2>1, <2>3, <2>4 DEF Frame
  <1> QED BY <1>1, <1>2, <1>3, <1>4, <1>5, <1>6, <1>7, <1>8, <1>9 DEF Frame

(* A statement that opens no session and issues no token: some may go.     *)
Fewer(d, e) ==
    /\ \A u \in Users : d.user[u].exists => e.user[u].exists
    /\ d.teams \subseteq e.teams
    /\ \A u \in Users, t \in Teams : d.held[u][t] \subseteq e.held[u][t]
    /\ d.stripped \subseteq e.stripped
    /\ \A u \in Users : u \notin e.stripped /\ d.user[u].keys # {} => e.user[u].keys # {}
    /\ d.next <= e.next
    /\ e.sessions \subseteq d.sessions /\ e.codes \subseteq d.codes /\ e.challenges \subseteq d.challenges
    /\ \A s \in e.sessions : e.wiped[s.user] = d.wiped[s.user]

LEMMA FewerIsSound ==
    ASSUME NEW d, NEW e \in Tables, NEW webauthn, Sound(d, webauthn), Fewer(d, e),
           \A r \in e.resets : r \in d.resets \/ e.user[r.user].exists,
           \A u \in e.enrolling : u \in d.enrolling \/ e.user[u].exists,
           Joined(e), Keyless(e), \A i \in e.invites : Vouched(e, i)
    PROVE  Sound(e, webauthn) /\ \A n, b : Grows(d, e, n, b)
  <1>0. d \in Tables
    BY DEF Sound
  <1>1. \A n, b : Grows(d, e, n, b)
    BY DEF Grows, Fewer
  <1>2. Owned(e)
    BY <1>0 DEF Owned, Sound, Fewer, Tables, SessionRow, TokenRow, ChallengeRow
  <1>3. Sessions(e, webauthn)
    <2>1. \A s \in e.sessions : Opened(e, webauthn, s)
      <3>1. TAKE s \in e.sessions
      <3>2. s \in d.sessions /\ s \in SessionRow /\ Opened(d, webauthn, s)
        BY <1>0 DEF Sound, Sessions, Fewer, Tables
      <3> QED BY <1>0, <3>2 DEF Opened, Fewer, Tables, SessionRow
    <2> QED BY <2>1 DEF Sessions, Sound, Fewer
  <1>4. Once(e)
    BY <1>0 DEF Once, Unused, CodeOnly, Sound, Fewer, Tables, TokenRow, ChallengeRow
  <1>5. e.next > 0
    BY <1>0 DEF Sound, Fewer, Tables
  <1> QED BY <1>1, <1>2, <1>3, <1>4, <1>5 DEF Sound

\* add_membership, update_member_role: of somebody with an account.
LEMMA RoleStatement ==
    ASSUME NEW d, NEW webauthn, Sound(d, webauthn), NEW u \in Users, NEW t \in d.teams, NEW r \in Roles,
           d.user[u].exists
    PROVE  /\ Sound(WithRole(d, u, t, r), webauthn)
           /\ \A n, b : Grows(d, WithRole(d, u, t, r), n, b)
  <1> DEFINE e == WithRole(d, u, t, r)
  <1>0. d \in Tables /\ t \in Teams
    BY DEF Sound, Tables
  <1>1. e \in Tables
    <2> DEFINE role == [d.role EXCEPT ![u][t] = r]
               held == [d.held EXCEPT ![u][t] = d.held[u][t] \cup {r}]
    <2>1. role \in [Users -> [Teams -> Roles \cup {"none"}]]
      BY <1>0 DEF Tables
    <2>2. held \in [Users -> [Teams -> SUBSET Roles]]
      <3>1. d.held \in [Users -> [Teams -> SUBSET Roles]]
        BY <1>0 DEF Tables
      <3>2. d.held[u][t] \cup {r} \in SUBSET Roles
        BY <1>0, <3>1
      <3> QED BY <1>0, <3>1, <3>2
    <2>3. e = [d EXCEPT !.role = role, !.held = held]
      BY <1>0 DEF WithRole, Tables
    <2> HIDE DEF role, held
    <2> QED BY <1>0, <2>1, <2>2, <2>3 DEF Tables
  <1>2. /\ e.user = d.user /\ e.teams = d.teams /\ e.invites = d.invites /\ e.stripped = d.stripped
        /\ e.next = d.next /\ e.sessions = d.sessions /\ e.codes = d.codes /\ e.challenges = d.challenges
        /\ e.wiped = d.wiped /\ e.resets = d.resets /\ e.enrolling = d.enrolling
        /\ \A v \in Users, x \in Teams :
              /\ e.role[v][x] = IF v = u /\ x = t THEN r ELSE d.role[v][x]
              /\ e.held[v][x] = IF v = u /\ x = t THEN d.held[v][x] \cup {r} ELSE d.held[v][x]
    BY <1>0 DEF WithRole, Tables
  <1> HIDE DEF e
  <1>3. Fewer(d, e) /\ Keyless(e)
    <2>1. \A v \in Users, x \in Teams : d.held[v][x] \subseteq e.held[v][x]
      <3>1. SUFFICES ASSUME NEW v \in Users, NEW x \in Teams PROVE d.held[v][x] \subseteq e.held[v][x]
        OBVIOUS
      <3>2. e.held[v][x] = IF v = u /\ x = t THEN d.held[v][x] \cup {r} ELSE d.held[v][x]
        BY <1>2
      <3> QED BY <3>2
    <2>2. d.next <= e.next
      BY <1>0, <1>2 DEF Tables
    <2> QED BY <1>2, <2>1, <2>2 DEF Fewer, Keyless, Sound
  <1>5. Joined(e)
    <2>1. Joined(d)
      BY DEF Sound
    <2>2. SUFFICES ASSUME NEW v \in Users, NEW x \in Teams, e.role[v][x] # "none"
                   PROVE  e.user[v].exists /\ x \in e.teams /\ e.role[v][x] \in e.held[v][x]
      BY DEF Joined
    <2>3. CASE v = u /\ x = t
      BY <1>2, <2>2, <2>3
    <2>4. CASE ~(v = u /\ x = t)
      BY <1>2, <2>1, <2>2, <2>4 DEF Joined
    <2> QED BY <2>3, <2>4
  <1>4. \A i \in e.invites : Vouched(e, i)
    <2>1. TAKE i \in e.invites
    <2>2. Vouched(d, i) /\ i.by \in Users /\ i.team \in Teams
      BY <1>0, <1>2 DEF Sound, Tables, InviteRow
    <2>3. d.held[i.by][i.team] \subseteq e.held[i.by][i.team] /\ e.teams = d.teams
      BY <1>2, <1>3, <2>2 DEF Fewer
    <2> QED BY <2>2, <2>3 DEF Vouched
  <1> QED BY <1>1, <1>2, <1>3, <1>4, <1>5, FewerIsSound DEF e

\* A membership is added for one person and one team.
LEMMA MembershipRoles ==
    ASSUME NEW d \in Tables, NEW u \in Users, NEW t \in Teams, NEW r, NEW e, e = AddMembership(d, u, t, r)
    PROVE  /\ e.invites = d.invites
           /\ \A v \in Users, x \in Teams :
                 \/ e.role[v][x] = d.role[v][x]
                 \/ v = u /\ x = t /\ e.role[v][x] = r
  <1>1. CASE d.role[u][t] = "none"
    <2>1. e.invites = d.invites /\ e.role = [d.role EXCEPT ![u][t] = r]
      BY <1>1 DEF AddMembership, WithRole, Tables
    <2>2. d.role \in [Users -> [Teams -> Roles \cup {"none"}]]
      BY DEF Tables
    <2> QED BY <2>1, <2>2
  <1>2. CASE d.role[u][t] # "none"
    BY <1>2 DEF AddMembership
  <1> QED BY <1>1, <1>2

LEMMA MembershipStatement ==
    ASSUME NEW d, NEW webauthn, Sound(d, webauthn), NEW u \in Users, NEW t \in d.teams, NEW r \in Roles,
           d.user[u].exists
    PROVE  /\ Sound(AddMembership(d, u, t, r), webauthn)
           /\ \A n, b : Grows(d, AddMembership(d, u, t, r), n, b)
           /\ AddMembership(d, u, t, r).user = d.user
  <1>1. \A n, b : Grows(d, d, n, b)
    BY DEF Grows, Sound, Tables
  <1>2. WithRole(d, u, t, r).user = d.user
    BY DEF WithRole, Sound, Tables
  <1> QED BY <1>1, <1>2, RoleStatement DEF AddMembership

LEMMA UpdateRoleStatement ==
    ASSUME NEW d, NEW webauthn, Sound(d, webauthn), NEW u \in Users, NEW t \in Teams, NEW r \in Roles
    PROVE  /\ Sound(UpdateMemberRole(d, u, t, r), webauthn)
           /\ \A n, b : Grows(d, UpdateMemberRole(d, u, t, r), n, b)
  <1>1. \A n, b : Grows(d, d, n, b)
    BY DEF Grows, Sound, Tables
  <1>2. d.role[u][t] # "none" => d.user[u].exists /\ t \in d.teams
    BY DEF Sound, Joined
  <1> QED BY <1>1, <1>2, RoleStatement DEF UpdateMemberRole

\* delete_membership
LEMMA DeleteMembershipStatement ==
    ASSUME NEW d, NEW webauthn, Sound(d, webauthn), NEW u \in Users, NEW t \in Teams
    PROVE  /\ Sound(DeleteMembership(d, u, t), webauthn)
           /\ \A n, b : Grows(d, DeleteMembership(d, u, t), n, b)
  <1> DEFINE e == DeleteMembership(d, u, t)
  <1>0. d \in Tables
    BY DEF Sound
  <1>1. e \in Tables
    BY <1>0 DEF DeleteMembership, Tables
  <1>2. /\ e.user = d.user /\ e.teams = d.teams /\ e.invites = d.invites /\ e.stripped = d.stripped
        /\ e.next = d.next /\ e.sessions = d.sessions /\ e.codes = d.codes /\ e.challenges = d.challenges
        /\ e.wiped = d.wiped /\ e.resets = d.resets /\ e.enrolling = d.enrolling /\ e.held = d.held
        /\ \A v \in Users, x \in Teams :
              e.role[v][x] = IF v = u /\ x = t THEN "none" ELSE d.role[v][x]
    BY <1>0 DEF DeleteMembership, Tables
  <1> HIDE DEF e
  <1>3. Fewer(d, e) /\ Joined(e) /\ Keyless(e)
    BY <1>0, <1>2 DEF Fewer, Joined, Keyless, Sound, Tables
  <1>4. \A i \in e.invites : Vouched(e, i)
    BY <1>2 DEF Vouched, Sound
  <1> QED BY <1>1, <1>2, <1>3, <1>4, FewerIsSound DEF e

(* The tables apart from the accounts and what is issued to them.          *)
SameOrder(d, e) ==
    /\ e.teams = d.teams /\ e.role = d.role /\ e.held = d.held /\ e.wiped = d.wiped

\* Statements that change neither memberships nor invitations.
LEMMA SameOrderIsSound ==
    ASSUME NEW d, NEW e \in Tables, NEW webauthn, Sound(d, webauthn), SameOrder(d, e),
           e.invites \subseteq d.invites,
           e.sessions \subseteq d.sessions, e.codes \subseteq d.codes, e.challenges \subseteq d.challenges,
           \A r \in e.resets : r \in d.resets \/ e.user[r.user].exists,
           \A u \in e.enrolling : u \in d.enrolling \/ e.user[u].exists,
           \A u \in Users : d.user[u].exists => e.user[u].exists,
           d.stripped \subseteq e.stripped, d.next <= e.next,
           \A u \in Users : u \notin e.stripped /\ d.user[u].keys # {} => e.user[u].keys # {},
           Keyless(e)
    PROVE  Sound(e, webauthn) /\ \A n, b : Grows(d, e, n, b)
  <1>0. d \in Tables
    BY DEF Sound
  <1>1. Fewer(d, e)
    BY DEF Fewer, SameOrder
  <1>2. Joined(e)
    BY DEF Joined, Sound, SameOrder
  <1>3. \A i \in e.invites : Vouched(e, i)
    BY DEF Vouched, Sound, SameOrder
  <1> QED BY <1>1, <1>2, <1>3, FewerIsSound

(* What the statements on accounts leave alone.                            *)
AccountsOnly(d, e) ==
    /\ SameOrder(d, e)
    /\ e.invites = d.invites /\ e.sessions = d.sessions /\ e.codes = d.codes
    /\ e.challenges = d.challenges /\ e.resets = d.resets /\ e.next = d.next /\ e.stepups = d.stepups

\* create_user
LEMMA CreateUserStatement ==
    ASSUME NEW d, NEW webauthn, Sound(d, webauthn), NEW u \in Users
    PROVE  /\ Sound(CreateUser(d, u), webauthn)
           /\ \A n, b : Grows(d, CreateUser(d, u), n, b)
           /\ CreateUser(d, u).user[u].exists
           /\ AccountsOnly(d, CreateUser(d, u))
  <1> DEFINE e == CreateUser(d, u)
  <1>0. d \in Tables
    BY DEF Sound
  <1>1. CASE d.user[u].exists
    BY <1>1 DEF CreateUser, Grows, Sound, Tables, AccountsOnly, SameOrder
  <1>2. CASE ~d.user[u].exists
    <2>1. e \in Tables
      BY <1>0, <1>2 DEF CreateUser, Tables, AccountRow
    <2>2. /\ AccountsOnly(d, e) /\ e.stripped = d.stripped /\ e.enrolling = d.enrolling
          /\ e.user[u].exists
          /\ \A v \in Users : v # u => e.user[v] = d.user[v]
      BY <1>0, <1>2 DEF CreateUser, Tables, AccountsOnly, SameOrder
    <2>3. d.user[u].keys = {} /\ Keyless(e)
      BY <1>2, <2>2 DEF Sound, Keyless
    <2>4. d.next <= e.next
      BY <1>0, <2>2 DEF AccountsOnly, Tables
    <2> HIDE DEF e
    <2>5. Sound(e, webauthn) /\ \A n, b : Grows(d, e, n, b)
      BY <1>2, <2>1, <2>2, <2>3, <2>4, SameOrderIsSound DEF AccountsOnly
    <2> QED BY <2>2, <2>5 DEF e
  <1> QED BY <1>1, <1>2

\* A write to the column of accounts.
LEMMA WriteUser ==
    ASSUME NEW d \in Tables, NEW U \in [Users -> AccountRow]
    PROVE  /\ [d EXCEPT !.user = U] \in Tables
           /\ AccountsOnly(d, [d EXCEPT !.user = U])
           /\ [d EXCEPT !.user = U].stripped = d.stripped
           /\ [d EXCEPT !.user = U].enrolling = d.enrolling
           /\ [d EXCEPT !.user = U].user = U
  BY DEF Tables, AccountsOnly, SameOrder

LEMMA ReadUser ==
    ASSUME NEW d \in Tables, NEW u \in Users
    PROVE  /\ d.user \in [Users -> AccountRow] /\ d.next \in Nat
           /\ d.user[u].exists \in BOOLEAN /\ d.user[u].verified \in BOOLEAN
           /\ d.user[u].password \in Nat /\ d.user[u].keys \subseteq Keys
  <1>1. d.user \in [Users -> AccountRow] /\ d.next \in Nat
    BY DEF Tables
  <1>2. d.user[u] \in AccountRow
    BY <1>1
  <1> QED BY <1>1, <1>2 DEF AccountRow

\* set_user_email_verified, update_user_password
LEMMA AccountStatement ==
    ASSUME NEW d, NEW webauthn, Sound(d, webauthn), NEW u \in Users, NEW e \in Tables,
           AccountsOnly(d, e), e.stripped = d.stripped, e.enrolling = d.enrolling,
           \A v \in Users : e.user[v].exists = d.user[v].exists /\ e.user[v].keys = d.user[v].keys
    PROVE  Sound(e, webauthn) /\ \A n, b : Grows(d, e, n, b)
  <1>1. Keyless(e)
    BY DEF Keyless, Sound
  <1>2. d \in Tables
    BY DEF Sound
  <1>3. d.next <= e.next
    BY <1>2, ReadUser DEF AccountsOnly
  <1> QED BY <1>1, <1>3, SameOrderIsSound DEF AccountsOnly

LEMMA VerifiedStatement ==
    ASSUME NEW d, NEW webauthn, Sound(d, webauthn), NEW u \in Users
    PROVE  /\ Sound(SetUserEmailVerified(d, u), webauthn)
           /\ \A n, b : Grows(d, SetUserEmailVerified(d, u), n, b)
           /\ AccountsOnly(d, SetUserEmailVerified(d, u))
  <1> DEFINE U == [d.user EXCEPT ![u] = [d.user[u] EXCEPT !.verified = TRUE]]
             e == [d EXCEPT !.user = U]
  <1>0. d \in Tables /\ d.user \in [Users -> AccountRow]
    BY ReadUser DEF Sound
  <1>1. U \in [Users -> AccountRow]
    BY <1>0 DEF AccountRow
  <1>2. \A v \in Users : U[v].exists = d.user[v].exists /\ U[v].keys = d.user[v].keys
    BY <1>0 DEF AccountRow
  <1>3. SetUserEmailVerified(d, u) = e
    BY <1>0 DEF SetUserEmailVerified, Tables
  <1> HIDE DEF U
  <1>4. /\ e \in Tables /\ AccountsOnly(d, e) /\ e.stripped = d.stripped /\ e.enrolling = d.enrolling
        /\ e.user = U
    BY <1>0, <1>1, WriteUser
  <1> HIDE DEF e
  <1>5. Sound(e, webauthn) /\ \A n, b : Grows(d, e, n, b)
    BY <1>2, <1>4, AccountStatement
  <1> QED BY <1>3, <1>4, <1>5

LEMMA PasswordStatement ==
    ASSUME NEW d, NEW webauthn, Sound(d, webauthn), NEW u \in Users
    PROVE  /\ Sound(UpdateUserPassword(d, u), webauthn)
           /\ \A n, b : Grows(d, UpdateUserPassword(d, u), n, b)
  <1> DEFINE U == [d.user EXCEPT ![u] = [d.user[u] EXCEPT !.password = @ + 1]]
             e == [d EXCEPT !.user = U]
  <1>0. d \in Tables /\ d.user \in [Users -> AccountRow]
    BY ReadUser DEF Sound
  <1>1. U \in [Users -> AccountRow]
    BY <1>0 DEF AccountRow
  <1>2. \A v \in Users : U[v].exists = d.user[v].exists /\ U[v].keys = d.user[v].keys
    BY <1>0 DEF AccountRow
  <1>3. UpdateUserPassword(d, u) = e
    BY <1>0 DEF UpdateUserPassword, Tables
  <1> HIDE DEF U
  <1>4. /\ e \in Tables /\ AccountsOnly(d, e) /\ e.stripped = d.stripped /\ e.enrolling = d.enrolling
        /\ e.user = U
    BY <1>0, <1>1, WriteUser
  <1> HIDE DEF e
  <1>5. Sound(e, webauthn) /\ \A n, b : Grows(d, e, n, b)
    BY <1>2, <1>4, AccountStatement
  <1> QED BY <1>3, <1>4, <1>5

\* save_user_passkey, of somebody with an account
LEMMA PasskeyStatement ==
    ASSUME NEW d, NEW webauthn, Sound(d, webauthn), NEW u \in Users, NEW k \in Keys, d.user[u].exists
    PROVE  /\ Sound(FinishUserRegistration(d, u, k), webauthn)
           /\ \A n, b : Grows(d, FinishUserRegistration(d, u, k), n, b)
           /\ FinishUserRegistration(d, u, k).role = d.role
  <1> DEFINE U == [d.user EXCEPT ![u] = [d.user[u] EXCEPT !.keys = @ \cup {k}]]
             g == [d EXCEPT !.user = U]
             e == [g EXCEPT !.enrolling = d.enrolling \ {u}]
  <1>0. d \in Tables /\ d.user \in [Users -> AccountRow]
    BY ReadUser DEF Sound
  <1>1. U \in [Users -> AccountRow]
    BY <1>0 DEF AccountRow
  <1>2. \A v \in Users :
           /\ U[v].exists = d.user[v].exists
           /\ U[v].keys = IF v = u THEN d.user[v].keys \cup {k} ELSE d.user[v].keys
    BY <1>0 DEF AccountRow
  <1>3. FinishUserRegistration(d, u, k) = e
    BY <1>0 DEF FinishUserRegistration, SaveUserPasskey, TakeRegistrationChallenge, Tables
  <1> HIDE DEF U
  <1>4. g \in Tables /\ AccountsOnly(d, g) /\ g.stripped = d.stripped /\ g.user = U
    BY <1>0, <1>1, WriteUser
  <1> HIDE DEF g
  <1>5. /\ e \in Tables /\ AccountsOnly(d, e) /\ e.stripped = d.stripped /\ e.user = U
        /\ e.enrolling = d.enrolling \ {u}
    BY <1>0, <1>4 DEF Tables, AccountsOnly, SameOrder
  <1> HIDE DEF e
  <1>6. Keyless(e)
    BY <1>2, <1>5 DEF Keyless, Sound
  <1>7. d.next <= e.next
    BY <1>0, <1>5, ReadUser DEF AccountsOnly
  <1>8. Sound(e, webauthn) /\ \A n, b : Grows(d, e, n, b)
    BY <1>2, <1>5, <1>6, <1>7, SameOrderIsSound DEF AccountsOnly
  <1> QED BY <1>3, <1>5, <1>8 DEF AccountsOnly, SameOrder

\* delete_user_passkey
LEMMA DeletePasskeysStatement ==
    ASSUME NEW d, NEW webauthn, Sound(d, webauthn), NEW u \in Users, NEW ks
    PROVE  /\ Sound(DeleteUserPasskeys(d, u, ks), webauthn)
           /\ \A n, b : Grows(d, DeleteUserPasskeys(d, u, ks), n, b)
           /\ DeleteUserPasskeys(d, u, ks).role = d.role
  <1> DEFINE U == [d.user EXCEPT ![u] = [d.user[u] EXCEPT !.keys = @ \ ks]]
             S == IF d.user[u].keys \subseteq ks THEN d.stripped \cup {u} ELSE d.stripped
             g == [d EXCEPT !.user = U]
             e == [g EXCEPT !.stripped = S]
  <1>0. d \in Tables /\ d.user \in [Users -> AccountRow] /\ d.stripped \subseteq Users
    BY ReadUser DEF Sound, Tables
  <1>1. U \in [Users -> AccountRow] /\ S \subseteq Users
    BY <1>0 DEF AccountRow
  <1>2. \A v \in Users :
           /\ U[v].exists = d.user[v].exists
           /\ U[v].keys = IF v = u THEN d.user[v].keys \ ks ELSE d.user[v].keys
    BY <1>0 DEF AccountRow
  <1>3. DeleteUserPasskeys(d, u, ks) = e
    BY <1>0 DEF DeleteUserPasskeys, Tables
  <1>4. \A v \in Users : v \notin S /\ d.user[v].keys # {} => U[v].keys # {}
    BY <1>2
  <1>5. d.stripped \subseteq S
    OBVIOUS
  <1> HIDE DEF U, S
  <1>6. g \in Tables /\ AccountsOnly(d, g) /\ g.enrolling = d.enrolling /\ g.user = U
    BY <1>0, <1>1, WriteUser
  <1> HIDE DEF g
  <1>7. /\ e \in Tables /\ AccountsOnly(d, e) /\ e.stripped = S /\ e.user = U
        /\ e.enrolling = d.enrolling
    BY <1>1, <1>6 DEF Tables, AccountsOnly, SameOrder
  <1> HIDE DEF e
  <1>8. Keyless(e)
    BY <1>2, <1>7 DEF Keyless, Sound
  <1>9. d.next <= e.next
    BY <1>0, <1>7, ReadUser DEF AccountsOnly
  <1>10. Sound(e, webauthn) /\ \A n, b : Grows(d, e, n, b)
    BY <1>2, <1>4, <1>5, <1>7, <1>8, <1>9, SameOrderIsSound DEF AccountsOnly
  <1> QED BY <1>3, <1>7, <1>10 DEF AccountsOnly, SameOrder

(* Rows that only go, and the challenges that no property speaks of.       *)
RowsOnly(d, e) ==
    /\ SameOrder(d, e)
    /\ e.user = d.user /\ e.stripped = d.stripped /\ e.next = d.next
    /\ e.invites \subseteq d.invites /\ e.sessions \subseteq d.sessions /\ e.codes \subseteq d.codes
    /\ e.challenges \subseteq d.challenges /\ e.resets \subseteq d.resets
    /\ \A u \in e.enrolling : d.user[u].exists

\* Expiry, and the statements that delete rows of tokens.
LEMMA RowsStatement ==
    ASSUME NEW d, NEW webauthn, Sound(d, webauthn), NEW e \in Tables, RowsOnly(d, e)
    PROVE  Sound(e, webauthn) /\ \A n, b : Grows(d, e, n, b)
  <1>1. Keyless(e)
    BY DEF Keyless, Sound, RowsOnly
  <1>2. d.next <= e.next
    BY DEF Sound, RowsOnly, Tables
  <1> QED BY <1>1, <1>2, SameOrderIsSound DEF RowsOnly

\* validate_and_consume_password_reset
LEMMA ResetStatement ==
    ASSUME NEW d, NEW webauthn, Sound(d, webauthn), NEW r \in TokenRow
    PROVE  /\ Sound(ConsumePasswordReset(d, r), webauthn)
           /\ \A n, b : Grows(d, ConsumePasswordReset(d, r), n, b)
           /\ ConsumePasswordReset(d, r).role = d.role
  <1> DEFINE W == [d.wiped EXCEPT ![r.user] = @ + 1]
             S == {s \in d.sessions : s.user # r.user}
             e == [d EXCEPT !.resets = d.resets \ {r}, !.sessions = S, !.wiped = W]
  <1>0. d \in Tables /\ r.user \in Users
    BY DEF Sound, TokenRow
  <1>1. W \in [Users -> Nat] /\ \A u \in Users : u # r.user => W[u] = d.wiped[u]
    BY <1>0 DEF Tables
  <1>2. ConsumePasswordReset(d, r) = e
    BY <1>0 DEF ConsumePasswordReset, Tables
  <1>3. S \subseteq d.sessions /\ \A s \in S : s.user # r.user
    OBVIOUS
  <1> HIDE DEF W, S
  <1>4. /\ e \in Tables
        /\ e.teams = d.teams /\ e.role = d.role /\ e.held = d.held
        /\ e.user = d.user /\ e.stripped = d.stripped /\ e.next = d.next
        /\ e.invites = d.invites /\ e.codes = d.codes /\ e.challenges = d.challenges
        /\ e.resets \subseteq d.resets /\ e.enrolling = d.enrolling
        /\ e.sessions = S /\ e.wiped = W
    BY <1>0, <1>1, <1>3 DEF Tables
  <1> HIDE DEF e
  <1>5. \A s \in e.sessions : e.wiped[s.user] = d.wiped[s.user]
    BY <1>0, <1>1, <1>3, <1>4 DEF Tables, SessionRow
  <1>6. Fewer(d, e)
    BY <1>0, <1>3, <1>4, <1>5, ReadUser DEF Fewer
  <1>7. Joined(e) /\ Keyless(e) /\ \A i \in e.invites : Vouched(e, i)
    BY <1>4 DEF Joined, Keyless, Vouched, Sound
  <1>8. Sound(e, webauthn) /\ \A n, b : Grows(d, e, n, b)
    BY <1>4, <1>6, <1>7, FewerIsSound
  <1> QED BY <1>2, <1>4, <1>8

\* create_invite: by a manager, by an owner where it makes one.
LEMMA InviteStatement ==
    ASSUME NEW d, NEW webauthn, Sound(d, webauthn), NEW u \in Users, NEW t \in d.teams, NEW r \in Roles,
           NEW by \in Users, r = "owner" => "owner" \in d.held[by][t]
    PROVE  /\ Sound(CreateInvite(d, u, t, r, by), webauthn)
           /\ \A n, b : Grows(d, CreateInvite(d, u, t, r, by), n, b)
           /\ CreateInvite(d, u, t, r, by).role = d.role
  <1> DEFINE i == [id |-> d.next, user |-> u, team |-> t, role |-> r, by |-> by]
             I == d.invites \cup {i}
             m == d.next + 1
             e == [d EXCEPT !.invites = I, !.next = m]
  <1>0. d \in Tables /\ t \in Teams /\ d.next \in Nat
    BY DEF Sound, Tables
  <1>1. i \in InviteRow /\ Vouched(d, i)
    BY <1>0 DEF InviteRow, Vouched
  <1>2. CreateInvite(d, u, t, r, by) = e
    BY <1>0 DEF CreateInvite, Tables
  <1> HIDE DEF i
  <1>8. I \subseteq InviteRow /\ m \in Nat /\ d.next <= m /\ \A x \in I : x \in d.invites \/ x = i
    BY <1>0, <1>1 DEF Tables
  <1> HIDE DEF I, m
  <1>3. /\ e \in Tables /\ SameOrder(d, e) /\ e.user = d.user /\ e.stripped = d.stripped
        /\ e.next = m /\ e.invites = I
        /\ e.codes = d.codes /\ e.challenges = d.challenges /\ e.sessions = d.sessions
        /\ e.resets = d.resets /\ e.enrolling = d.enrolling
    BY <1>0, <1>8 DEF Tables, SameOrder
  <1> HIDE DEF e
  <1>4. Fewer(d, e)
    BY <1>0, <1>3, <1>8 DEF Fewer, SameOrder
  <1>5. Joined(e) /\ Keyless(e)
    BY <1>3 DEF Joined, Keyless, Sound, SameOrder
  <1>6. \A x \in e.invites : Vouched(e, x)
    BY <1>1, <1>3, <1>8 DEF Vouched, Sound, SameOrder
  <1>7. Sound(e, webauthn) /\ \A n, b : Grows(d, e, n, b)
    BY <1>3, <1>4, <1>5, <1>6, FewerIsSound
  <1> QED BY <1>2, <1>3, <1>7 DEF SameOrder

(* The oldest invitation of u to t.                                        *)
Mine(d, u, t) == {i \in InvitesByEmail(d, u) : i.team = t}
Oldest(d, u, t) == CHOOSE i \in Mine(d, u, t) : \A j \in Mine(d, u, t) : i.id <= j.id

\* There is one, where there is any.
LEMMA OldestIsMine ==
    ASSUME NEW d \in Tables, NEW u \in Users, NEW t \in Teams, Mine(d, u, t) # {}
    PROVE  Oldest(d, u, t) \in Mine(d, u, t)
  <1> DEFINE N == {i.id : i \in Mine(d, u, t)}
  <1>0. Mine(d, u, t) \subseteq InviteRow
    BY DEF Mine, InvitesByEmail, Tables
  <1>1. N \subseteq Nat /\ N # {}
    BY <1>0 DEF InviteRow
  <1>2. PICK n \in N : \A m \in N : ~(<<m, n>> \in OpToRel(<, Nat))
    <2> HIDE DEF N
    <2> QED BY <1>1, NatLessThanWellFounded, WFMin, Zenon
  <1>3. PICK i \in Mine(d, u, t) : n = i.id
    OBVIOUS
  <1>4. \A j \in Mine(d, u, t) : i.id <= j.id
    <2>1. TAKE j \in Mine(d, u, t)
    <2>2. j.id \in N /\ j.id \in Nat /\ i.id \in Nat
      BY <1>1
    <2>3. ~(j.id < i.id)
      BY <1>2, <1>3, <2>2 DEF OpToRel
    <2> QED BY <2>2, <2>3
  <1> QED BY <1>4 DEF Oldest

\* consume_pending_invites: who joins, and as what.
LEMMA ConsumeInvites ==
    ASSUME NEW d \in Tables, NEW u \in Users
    PROVE  LET e == ConsumePendingInvites(d, u)
           IN  /\ e \in Tables
               /\ e.teams = d.teams /\ e.user = d.user /\ e.wiped = d.wiped /\ e.stripped = d.stripped
               /\ e.next = d.next /\ e.codes = d.codes /\ e.challenges = d.challenges
               /\ e.sessions = d.sessions /\ e.resets = d.resets /\ e.enrolling = d.enrolling
               /\ e.invites \subseteq d.invites
               /\ \A v \in Users, t \in Teams :
                     IF v = u /\ d.role[u][t] = "none" /\ Mine(d, u, t) # {}
                     THEN /\ e.role[v][t] = Oldest(d, u, t).role
                          /\ e.held[v][t] = d.held[v][t] \cup {Oldest(d, u, t).role}
                     ELSE e.role[v][t] = d.role[v][t] /\ e.held[v][t] = d.held[v][t]
  <1> DEFINE joins(t) == d.role[u][t] = "none" /\ Mine(d, u, t) # {}
             R == [t \in Teams |-> IF joins(t) THEN Oldest(d, u, t).role ELSE d.role[u][t]]
             H == [t \in Teams |-> IF joins(t) THEN d.held[u][t] \cup {Oldest(d, u, t).role} ELSE d.held[u][t]]
             role == [d.role EXCEPT ![u] = R]
             held == [d.held EXCEPT ![u] = H]
             e == [d EXCEPT !.role = role, !.held = held, !.invites = d.invites \ InvitesByEmail(d, u)]
  <1>1. /\ d.role \in [Users -> [Teams -> Roles \cup {"none"}]]
        /\ d.held \in [Users -> [Teams -> SUBSET Roles]]
    BY DEF Tables
  <1>2. \A t \in Teams : joins(t) => Oldest(d, u, t).role \in Roles
    <2>1. \A t \in Teams : Mine(d, u, t) \subseteq InviteRow
      BY DEF Mine, InvitesByEmail, Tables
    <2>2. \A i \in InviteRow : i.role \in Roles
      BY DEF InviteRow
    <2> QED BY OldestIsMine, <2>1, <2>2
  <1>3. R \in [Teams -> Roles \cup {"none"}]
    <2>1. \A t \in Teams : R[t] \in Roles \cup {"none"}
      BY <1>1, <1>2
    <2> QED BY <2>1
  <1>4. H \in [Teams -> SUBSET Roles]
    <2>1. \A t \in Teams : d.held[u][t] \in SUBSET Roles
      BY <1>1
    <2>2. \A t \in Teams : H[t] \in SUBSET Roles
      BY <1>2, <2>1
    <2> QED BY <2>2
  <1>5. ConsumePendingInvites(d, u) = e
    BY <1>1 DEF ConsumePendingInvites, Mine, Oldest, InvitesByEmail, Tables
  <1>6. \A v \in Users, t \in Teams :
           IF v = u /\ joins(t)
           THEN role[v][t] = Oldest(d, u, t).role /\ held[v][t] = d.held[v][t] \cup {Oldest(d, u, t).role}
           ELSE role[v][t] = d.role[v][t] /\ held[v][t] = d.held[v][t]
    BY <1>1
  <1>7. role \in [Users -> [Teams -> Roles \cup {"none"}]]
    <2> HIDE DEF R
    <2> QED BY <1>1, <1>3
  <1>8. held \in [Users -> [Teams -> SUBSET Roles]]
    <2> HIDE DEF H
    <2> QED BY <1>1, <1>4
  <1> HIDE DEF role, held
  <1>9. /\ e \in Tables /\ e.role = role /\ e.held = held
        /\ e.teams = d.teams /\ e.user = d.user /\ e.wiped = d.wiped /\ e.stripped = d.stripped
        /\ e.next = d.next /\ e.codes = d.codes /\ e.challenges = d.challenges
        /\ e.sessions = d.sessions /\ e.resets = d.resets /\ e.enrolling = d.enrolling
        /\ e.invites \subseteq d.invites
    BY <1>7, <1>8 DEF Tables
  <1> HIDE DEF e
  <1> QED BY <1>5, <1>6, <1>9

LEMMA InvitesStatement ==
    ASSUME NEW d, NEW webauthn, Sound(d, webauthn), NEW u \in Users, d.user[u].exists
    PROVE  /\ Sound(ConsumePendingInvites(d, u), webauthn)
           /\ \A n, b : Grows(d, ConsumePendingInvites(d, u), n, b)
  <1> DEFINE e == ConsumePendingInvites(d, u)
  <1>0. d \in Tables
    BY DEF Sound
  <1>1. /\ e \in Tables
        /\ e.teams = d.teams /\ e.user = d.user /\ e.wiped = d.wiped /\ e.stripped = d.stripped
        /\ e.next = d.next /\ e.codes = d.codes /\ e.challenges = d.challenges
        /\ e.sessions = d.sessions /\ e.resets = d.resets /\ e.enrolling = d.enrolling
        /\ e.invites \subseteq d.invites
        /\ \A v \in Users, t \in Teams :
              IF v = u /\ d.role[u][t] = "none" /\ Mine(d, u, t) # {}
              THEN /\ e.role[v][t] = Oldest(d, u, t).role
                   /\ e.held[v][t] = d.held[v][t] \cup {Oldest(d, u, t).role}
              ELSE e.role[v][t] = d.role[v][t] /\ e.held[v][t] = d.held[v][t]
    BY <1>0, ConsumeInvites
  <1>2. \A t \in Teams : Mine(d, u, t) # {} => t \in d.teams
    BY DEF Mine, InvitesByEmail, Sound, Vouched
  <1> HIDE DEF e
  <1>3. \A v \in Users, t \in Teams : d.held[v][t] \subseteq e.held[v][t]
    BY <1>1
  <1>4. Fewer(d, e)
    BY <1>0, <1>1, <1>3, ReadUser DEF Fewer
  <1>5. Keyless(e)
    BY <1>1 DEF Keyless, Sound
  <1>6. Joined(e)
    <2>1. Joined(d)
      BY DEF Sound
    <2>2. SUFFICES ASSUME NEW v \in Users, NEW t \in Teams, e.role[v][t] # "none"
                   PROVE  e.user[v].exists /\ t \in e.teams /\ e.role[v][t] \in e.held[v][t]
      BY DEF Joined
    <2>3. CASE v = u /\ d.role[u][t] = "none" /\ Mine(d, u, t) # {}
      BY <1>1, <1>2, <2>3
    <2>4. CASE ~(v = u /\ d.role[u][t] = "none" /\ Mine(d, u, t) # {})
      BY <1>1, <2>1, <2>2, <2>4 DEF Joined
    <2> QED BY <2>3, <2>4
  <1>7. \A i \in e.invites : Vouched(e, i)
    <2>1. TAKE i \in e.invites
    <2>2. Vouched(d, i) /\ i.by \in Users /\ i.team \in Teams
      BY <1>0, <1>1 DEF Sound, Tables, InviteRow
    <2> QED BY <1>1, <1>3, <2>2 DEF Vouched
  <1>8. Sound(e, webauthn) /\ \A n, b : Grows(d, e, n, b)
    BY <1>1, <1>4, <1>5, <1>6, <1>7, FewerIsSound
  <1> QED BY <1>8 DEF e

(* What a statement that issues a token or opens a session leaves alone.   *)
IssueOnly(d, e) ==
    /\ SameOrder(d, e) /\ e.user = d.user /\ e.stripped = d.stripped /\ e.invites = d.invites
    /\ e.resets = d.resets /\ e.enrolling = d.enrolling /\ e.stepups = d.stepups
    /\ e.next = d.next + 1

LEMMA IssueKeeps ==
    ASSUME NEW d, NEW webauthn, Sound(d, webauthn), NEW e, IssueOnly(d, e)
    PROVE  /\ Joined(e) /\ Keyless(e) /\ \A i \in e.invites : Vouched(e, i)
           /\ d.next \in Nat /\ e.next \in Nat /\ e.next > 0 /\ d.next < e.next
           /\ \A s : s.id \in Nat /\ s.from \in Nat /\ Opened(d, webauthn, s) => Opened(e, webauthn, s)
           /\ \A u \in Users : d.user[u].exists = e.user[u].exists
  <1>1. d.next \in Nat
    BY DEF Sound, Tables
  <1>2. Joined(e) /\ Keyless(e) /\ \A i \in e.invites : Vouched(e, i)
    BY DEF Joined, Keyless, Vouched, Sound, IssueOnly, SameOrder
  <1>3. e.next \in Nat /\ e.next > 0 /\ d.next < e.next
    BY <1>1 DEF IssueOnly
  <1>4. \A s : s.id \in Nat /\ s.from \in Nat /\ Opened(d, webauthn, s) => Opened(e, webauthn, s)
    BY <1>1, <1>3 DEF Opened, IssueOnly, SameOrder
  <1> QED BY <1>1, <1>2, <1>3, <1>4 DEF IssueOnly

\* create_email_verification
LEMMA CodeStatement ==
    ASSUME NEW d, NEW webauthn, Sound(d, webauthn), NEW u \in Users, d.user[u].exists
    PROVE  /\ Sound(CreateEmailVerification(d, u), webauthn)
           /\ \A n, b : Grows(d, CreateEmailVerification(d, u), n, b)
           /\ CreateEmailVerification(d, u).role = d.role
  <1> DEFINE k == [id |-> d.next, user |-> u]
             C == d.codes \cup {k}
             m == d.next + 1
             e == [d EXCEPT !.codes = C, !.next = m]
  <1>0. d \in Tables /\ d.next \in Nat /\ d.next > 0
    BY DEF Sound, Tables
  <1>1. k \in TokenRow /\ k.id = d.next /\ k.user = u /\ m \in Nat /\ m = d.next + 1
    BY <1>0 DEF TokenRow
  <1>2. CreateEmailVerification(d, u) = e
    BY <1>0 DEF CreateEmailVerification, Tables
  <1> HIDE DEF k
  <1>3. C \subseteq TokenRow /\ \A x \in C : x \in d.codes \/ x = k
    BY <1>0, <1>1 DEF Tables
  <1> HIDE DEF C, m
  <1>4. /\ e \in Tables /\ IssueOnly(d, e) /\ e.codes = C
        /\ e.sessions = d.sessions /\ e.challenges = d.challenges
    BY <1>0, <1>1, <1>3 DEF Tables, IssueOnly, SameOrder
  <1> HIDE DEF e
  <1>5. /\ Joined(e) /\ Keyless(e) /\ \A i \in e.invites : Vouched(e, i)
        /\ e.next \in Nat /\ e.next > 0 /\ d.next < e.next
        /\ \A s : s.id \in Nat /\ s.from \in Nat /\ Opened(d, webauthn, s) => Opened(e, webauthn, s)
    BY <1>4, IssueKeeps
  <1>6. Owned(e)
    BY <1>1, <1>3, <1>4 DEF Owned, Sound, IssueOnly
  <1>7. Sessions(e, webauthn)
    BY <1>0, <1>4, <1>5 DEF Sessions, Sound, Tables, SessionRow
  <1>8. Once(e)
    <2>1. \A ch \in e.challenges : Unused(e, ch.id)
      BY <1>0, <1>1, <1>3, <1>4, <1>5 DEF Unused, Once, Sound, Tables, ChallengeRow
    <2>2. \A x \in d.codes : CodeOnly(e, x.id)
      BY <1>0, <1>4, <1>5 DEF CodeOnly, Once, Sound, Tables, TokenRow
    <2>3. CodeOnly(e, k.id)
      <3>1. \A s \in d.sessions : s.from \in Nat /\ s.from < d.next
        BY <1>0 DEF Sound, Sessions, Opened, Tables, SessionRow
      <3>2. \A ch \in d.challenges : ch.id \in Nat /\ ch.id < d.next
        BY <1>0 DEF Sound, Once, Unused, Tables, ChallengeRow
      <3> QED BY <1>0, <1>1, <1>4, <1>5, <3>1, <3>2 DEF CodeOnly
    <2> QED BY <1>3, <1>4, <2>1, <2>2, <2>3 DEF Once, Sound
  <1>9. \A n, b : Grows(d, e, n, b)
    BY <1>0, <1>1, <1>3, <1>4, <1>5 DEF Grows, IssueOnly, SameOrder
  <1> QED BY <1>2, <1>4, <1>5, <1>6, <1>7, <1>8, <1>9 DEF Sound, IssueOnly, SameOrder

\* set_login_challenge
LEMMA ChallengeStatement ==
    ASSUME NEW d, NEW webauthn, Sound(d, webauthn), NEW u \in Users, d.user[u].exists
    PROVE  /\ Sound(SetLoginChallenge(d, u), webauthn)
           /\ \A n, b : Grows(d, SetLoginChallenge(d, u), n, b)
           /\ SetLoginChallenge(d, u).role = d.role
  <1> DEFINE k == [id |-> d.next, user |-> u, keys |-> d.user[u].keys]
             C == d.challenges \cup {k}
             m == d.next + 1
             e == [d EXCEPT !.challenges = C, !.next = m]
  <1>0. d \in Tables /\ d.next \in Nat /\ d.next > 0
    BY DEF Sound, Tables
  <1>1. k \in ChallengeRow /\ k.id = d.next /\ k.user = u /\ m \in Nat /\ m = d.next + 1
    BY <1>0, ReadUser DEF ChallengeRow
  <1>2. SetLoginChallenge(d, u) = e
    BY <1>0 DEF SetLoginChallenge, Tables
  <1> HIDE DEF k
  <1>3. C \subseteq ChallengeRow /\ \A x \in C : x \in d.challenges \/ x = k
    BY <1>0, <1>1 DEF Tables
  <1> HIDE DEF C, m
  <1>4. /\ e \in Tables /\ IssueOnly(d, e) /\ e.challenges = C
        /\ e.sessions = d.sessions /\ e.codes = d.codes
    BY <1>0, <1>1, <1>3 DEF Tables, IssueOnly, SameOrder
  <1> HIDE DEF e
  <1>5. /\ Joined(e) /\ Keyless(e) /\ \A i \in e.invites : Vouched(e, i)
        /\ e.next \in Nat /\ e.next > 0 /\ d.next < e.next
        /\ \A s : s.id \in Nat /\ s.from \in Nat /\ Opened(d, webauthn, s) => Opened(e, webauthn, s)
    BY <1>4, IssueKeeps
  <1>6. Owned(e)
    BY <1>1, <1>3, <1>4 DEF Owned, Sound, IssueOnly
  <1>7. Sessions(e, webauthn)
    BY <1>0, <1>4, <1>5 DEF Sessions, Sound, Tables, SessionRow
  <1>8. Once(e)
    <2>1. \A ch \in d.challenges : Unused(e, ch.id) /\ ch.id # k.id
      BY <1>0, <1>1, <1>4, <1>5 DEF Unused, Once, Sound, Tables, ChallengeRow
    <2>2. \A x \in e.codes : CodeOnly(e, x.id)
      BY <1>0, <1>1, <1>3, <1>4, <1>5 DEF CodeOnly, Once, Sound, Tables, TokenRow
    <2>3. Unused(e, k.id)
      <3>1. \A s \in d.sessions : s.from \in Nat /\ s.from < d.next
        BY <1>0 DEF Sound, Sessions, Opened, Tables, SessionRow
      <3>2. \A x \in d.codes : x.id \in Nat /\ x.id < d.next
        BY <1>0 DEF Sound, Once, CodeOnly, Tables, TokenRow
      <3> QED BY <1>0, <1>1, <1>4, <1>5, <3>1, <3>2 DEF Unused
    <2>4. \A x, y \in e.challenges : x.id = y.id => x = y
      BY <1>3, <1>4, <2>1 DEF Once, Sound
    <2> QED BY <1>3, <1>4, <2>1, <2>2, <2>3, <2>4 DEF Once, Sound
  <1>9. \A n, b : Grows(d, e, n, b)
    BY <1>0, <1>1, <1>3, <1>4, <1>5 DEF Grows, IssueOnly, SameOrder
  <1> QED BY <1>2, <1>4, <1>5, <1>6, <1>7, <1>8, <1>9 DEF Sound, IssueOnly, SameOrder

\* create_session: what a handler must have established to open one.
LEMMA SessionStatement ==
    ASSUME NEW d, NEW webauthn, Sound(d, webauthn), NEW u \in Users, d.user[u].exists,
           NEW t \in Teams, d.held[u][t] # {}, NEW hadKeys \in BOOLEAN,
           NEW by \in {"passkey", "code", "password", "setup"}, NEW from \in Nat, from < d.next,
           webauthn /\ hadKeys /\ u \notin d.stripped => by = "passkey",
           \A ch \in d.challenges : ch.id # from,
           by = "passkey" => Unused(d, from), by = "code" => CodeOnly(d, from),
           by \in {"password", "setup"} => from = 0
    PROVE  /\ Sound(CreateSession(d, u, t, by, from, hadKeys), webauthn)
           /\ Grows(d, CreateSession(d, u, t, by, from, hadKeys), from, by)
           /\ CreateSession(d, u, t, by, from, hadKeys).role = d.role
  <1> DEFINE k == [id |-> d.next, user |-> u, team |-> t, by |-> by, from |-> from,
                   hadKeys |-> hadKeys, after |-> d.wiped[u]]
             S == d.sessions \cup {k}
             m == d.next + 1
             e == [d EXCEPT !.sessions = S, !.next = m]
  <1>0. d \in Tables /\ d.next \in Nat /\ d.next > 0 /\ d.wiped[u] \in Nat
    BY DEF Sound, Tables
  <1>1. /\ k \in SessionRow /\ m \in Nat /\ m = d.next + 1
        /\ k.id = d.next /\ k.user = u /\ k.team = t /\ k.by = by /\ k.from = from
        /\ k.hadKeys = hadKeys /\ k.after = d.wiped[u]
    BY <1>0 DEF SessionRow
  <1>2. CreateSession(d, u, t, by, from, hadKeys) = e
    BY <1>0 DEF CreateSession, Tables
  <1> HIDE DEF k
  <1>3. S \subseteq SessionRow /\ k \in S /\ \A x \in S : x \in d.sessions \/ x = k
    BY <1>0, <1>1 DEF Tables
  <1> HIDE DEF S, m
  <1>4. /\ e \in Tables /\ IssueOnly(d, e) /\ e.sessions = S
        /\ e.codes = d.codes /\ e.challenges = d.challenges
    BY <1>0, <1>1, <1>3 DEF Tables, IssueOnly, SameOrder
  <1> HIDE DEF e
  <1>5. /\ Joined(e) /\ Keyless(e) /\ \A i \in e.invites : Vouched(e, i)
        /\ e.next \in Nat /\ e.next > 0 /\ d.next < e.next
        /\ \A s : s.id \in Nat /\ s.from \in Nat /\ Opened(d, webauthn, s) => Opened(e, webauthn, s)
    BY <1>4, IssueKeeps
  <1>6. Owned(e)
    BY <1>1, <1>3, <1>4 DEF Owned, Sound, IssueOnly
  <1>7. Sessions(e, webauthn)
    <2>1. \A s \in d.sessions : Opened(d, webauthn, s) /\ s.id \in Nat /\ s.id < d.next /\ s.from \in Nat
      BY <1>0 DEF Sound, Sessions, Opened, Tables, SessionRow
    <2>2. Opened(e, webauthn, k)
      BY <1>0, <1>1, <1>4, <1>5 DEF Opened, IssueOnly, SameOrder
    <2>3. \A s \in e.sessions : Opened(e, webauthn, s)
      BY <1>3, <1>4, <1>5, <2>1, <2>2
    <2>4. \A s \in d.sessions : s.id # k.id
      BY <1>0, <1>1, <2>1
    <2>5. \A s, x \in e.sessions : s.id = x.id => s.user = x.user
      BY <1>3, <1>4, <2>4 DEF Sound, Sessions
    <2> QED BY <2>3, <2>5 DEF Sessions
  <1>8. Once(e)
    <2>1. \A ch \in e.challenges : Unused(e, ch.id)
      BY <1>0, <1>1, <1>3, <1>4, <1>5 DEF Unused, Once, Sound, Tables, ChallengeRow
    <2>2. \A x \in e.codes : CodeOnly(e, x.id)
      BY <1>0, <1>1, <1>3, <1>4, <1>5 DEF CodeOnly, Unused, Once, Sound, Tables, TokenRow
    <2>3. \A s \in d.sessions :
             s.from = k.from /\ s.from # 0 => s.by # "passkey" /\ k.by # "passkey"
      BY <1>1 DEF Unused, CodeOnly
    <2>4. \A s, x \in e.sessions : s.by = "passkey" /\ s.from = x.from /\ s.from # 0 => s = x
      BY <1>3, <1>4, <2>3 DEF Once, Sound
    <2> QED BY <1>4, <2>1, <2>2, <2>4 DEF Once, Sound
  <1>9. Grows(d, e, from, by)
    BY <1>0, <1>1, <1>3, <1>4, <1>5 DEF Grows, IssueOnly, SameOrder
  <1> QED BY <1>2, <1>4, <1>5, <1>6, <1>7, <1>8, <1>9 DEF Sound, IssueOnly, SameOrder

\* update_session_team: to a team the person joined.
LEMMA SwitchStatement ==
    ASSUME NEW d, NEW webauthn, Sound(d, webauthn), NEW s \in SessionRow, NEW t \in Teams,
           d.held[s.user][t] # {}, \A x \in d.sessions : x.id = s.id => x.user = s.user
    PROVE  /\ Sound(UpdateSessionTeam(d, s, t), webauthn)
           /\ \A n, b : Grows(d, UpdateSessionTeam(d, s, t), n, b)
           /\ UpdateSessionTeam(d, s, t).role = d.role
  <1> DEFINE moved(x) == IF x.id = s.id THEN [x EXCEPT !.team = t] ELSE x
             S == {moved(x) : x \in d.sessions}
             e == [d EXCEPT !.sessions = S]
  <1>0. d \in Tables /\ d.next \in Nat /\ d.sessions \subseteq SessionRow
    BY DEF Sound, Tables
  <1>1. UpdateSessionTeam(d, s, t) = e
    BY <1>0 DEF UpdateSessionTeam, Tables
  <1>2. \A x \in d.sessions :
           /\ moved(x) \in SessionRow
           /\ moved(x).id = x.id /\ moved(x).user = x.user /\ moved(x).by = x.by
           /\ moved(x).from = x.from /\ moved(x).hadKeys = x.hadKeys /\ moved(x).after = x.after
           /\ moved(x).team = IF x.id = s.id THEN t ELSE x.team
    BY <1>0 DEF SessionRow
  <1>3. S \subseteq SessionRow /\ \A y \in S : \E x \in d.sessions : y = moved(x)
    BY <1>2
  <1> HIDE DEF S, moved
  <1>4. /\ e \in Tables /\ SameOrder(d, e) /\ e.user = d.user /\ e.stripped = d.stripped
        /\ e.invites = d.invites /\ e.resets = d.resets /\ e.enrolling = d.enrolling
        /\ e.next = d.next /\ e.sessions = S /\ e.codes = d.codes /\ e.challenges = d.challenges
    BY <1>0, <1>3 DEF Tables, SameOrder
  <1> HIDE DEF e
  <1>5. Joined(e) /\ Keyless(e) /\ \A i \in e.invites : Vouched(e, i)
    BY <1>4 DEF Joined, Keyless, Vouched, Sound, SameOrder
  <1>6. Owned(e)
    BY <1>2, <1>3, <1>4 DEF Owned, Sound
  <1>7. Sessions(e, webauthn)
    <2>1. \A y \in e.sessions : Opened(e, webauthn, y)
      <3>1. TAKE y \in e.sessions
      <3>2. PICK x \in d.sessions : y = moved(x)
        BY <1>3, <1>4
      <3>3. Opened(d, webauthn, x)
        BY DEF Sound, Sessions
      <3> QED BY <1>2, <1>4, <3>2, <3>3 DEF Opened, SameOrder
    <2>2. \A y, z \in e.sessions : y.id = z.id => y.user = z.user
      BY <1>2, <1>3, <1>4 DEF Sound, Sessions
    <2> QED BY <2>1, <2>2 DEF Sessions
  <1>8. Once(e)
    <2>1. /\ \A ch \in e.challenges : Unused(e, ch.id)
          /\ \A k \in e.codes : CodeOnly(e, k.id)
      BY <1>2, <1>3, <1>4 DEF Once, Unused, CodeOnly, Sound
    <2>2. \A y, z \in e.sessions : y.by = "passkey" /\ y.from = z.from /\ y.from # 0 => y = z
      BY <1>2, <1>3, <1>4 DEF Once, Sound
    <2> QED BY <1>4, <2>1, <2>2 DEF Once, Sound
  <1>9. \A n, b : Grows(d, e, n, b)
    <2>1. \A y \in e.sessions :
             \E x \in d.sessions : x.id = y.id /\ x.user = y.user /\ x.from = y.from /\ x.by = y.by
      BY <1>2, <1>3, <1>4
    <2> QED BY <1>0, <1>4, <2>1 DEF Grows, SameOrder
  <1> QED BY <1>1, <1>4, <1>5, <1>6, <1>7, <1>8, <1>9 DEF Sound, SameOrder

-----------------------------------------------------------------------------
(* Handlers                                                                *)

(* The others hold neither the challenge nor the code that a handler holds *)
(* next, nor the one it opened a session with.                             *)
Distinct(c, f, n, b) ==
    \A x \in Callers \ {c} :
        /\ Apart(call[x], f) /\ Apart(f, call[x])
        /\ call[x].op = "passkey" => call[x].challenge.id # n
        /\ Verifying(call[x]) /\ b = "passkey" => call[x].code.id # n

\* A handler runs a statement and goes on, or ends.
LEMMA Handled ==
    ASSUME Facts, NEW c \in Callers, NEW f, NEW n, NEW b, UNCHANGED load,
           Sound(db', load.webauthn), Grows(db, db', n, b),
           call' = [call EXCEPT ![c] = f], Frame(db', load.webauthn, f), Distinct(c, f, n, b)
    PROVE  Facts'
  <1>0. db \in Tables /\ db' \in Tables
    BY DEF Facts, Sound
  <1>1. DOMAIN call' = Callers /\ call'[c] = f /\ \A x \in Callers \ {c} : call'[x] = call[x]
    BY DEF Facts
  <1>2. \A x \in Callers : Frame(db', load.webauthn, call'[x])
    <2>1. TAKE x \in Callers
    <2>2. CASE x = c
      BY <1>1, <2>2
    <2>3. CASE x # c
      <3>1. Frame(db, load.webauthn, call[x])
        BY DEF Facts
      <3>2. Frame(db', load.webauthn, call[x])
        BY <1>0, <2>3, <3>1, FrameKept DEF Distinct
      <3> QED BY <1>1, <2>3, <3>2
    <2> QED BY <2>2, <2>3
  <1>3. \A x, y \in Callers : x # y => Apart(call'[x], call'[y])
    BY <1>1 DEF Facts, Distinct
  <1> QED BY <1>1, <1>2, <1>3 DEF Facts

(* A frame that holds no challenge and no code.                            *)
Plain(f) == f.op # "passkey" /\ ~Verifying(f)

LEMMA HandledPlainly ==
    ASSUME Facts, NEW c \in Callers, NEW f, UNCHANGED load, Sound(db', load.webauthn),
           \A n, b : Grows(db, db', n, b),
           call' = [call EXCEPT ![c] = f], Frame(db', load.webauthn, f), Plain(f)
    PROVE  Facts'
  <1>1. \A x \in Callers :
           /\ Apart(call[x], f) /\ Apart(f, call[x])
           /\ call[x].op = "passkey" => call[x].challenge.id # 0
    <2>1. TAKE x \in Callers
    <2>2. Frame(db, load.webauthn, call[x])
      BY DEF Facts
    <2>3. call[x].op = "passkey" => call[x].challenge.id # 0
      BY <2>2 DEF Frame, Verifying, Unused
    <2> QED BY <2>3 DEF Apart, Plain
  <1>2. Grows(db, db', 0, "none")
    OBVIOUS
  <1>3. Distinct(c, f, 0, "none")
    BY <1>1 DEF Distinct
  <1> QED BY <1>2, <1>3, Handled

\* A request of one statement.
LEMMA HandledAtOnce ==
    ASSUME Facts, UNCHANGED <<load, call>>, Sound(db', load.webauthn), \A n, b : Grows(db, db', n, b)
    PROVE  Facts'
  <1>0. db \in Tables /\ db' \in Tables
    BY DEF Facts, Sound
  <1>1. \A x \in Callers : Frame(db', load.webauthn, call[x])
    <2>1. TAKE x \in Callers
    <2>2. Frame(db, load.webauthn, call[x])
      BY DEF Facts
    <2>3. call[x].op = "passkey" => call[x].challenge.id # 0
      BY <2>2 DEF Frame, Verifying, Unused
    <2>4. Grows(db, db', 0, "none")
      OBVIOUS
    <2> QED BY <1>0, <2>2, <2>3, <2>4, FrameKept
  <1> QED BY <1>1 DEF Facts

\* Nothing is written.
LEMMA NothingWritten ==
    ASSUME Facts, UNCHANGED <<load, db>>
    PROVE  Sound(db', load.webauthn) /\ \A n, b : Grows(db, db', n, b)
  <1>1. db.next \in Nat
    BY DEF Facts, Sound, Tables
  <1> QED BY <1>1 DEF Facts, Grows

LEMMA IdleFrame ==
    ASSUME NEW d, NEW webauthn
    PROVE  Frame(d, webauthn, Idle) /\ Plain(Idle)
  BY DEF Frame, Idle, Plain, Verifying

-----------------------------------------------------------------------------
(* The steps of the handlers                                               *)

\* What a step may use.
LEMMA Reading ==
    ASSUME Facts
    PROVE  /\ Sound(db, load.webauthn) /\ db \in Tables /\ load.users \subseteq Users
           /\ \A c \in Callers : Frame(db, load.webauthn, call[c])
  BY LoadAssumption DEF Facts, Sound

\* A handler reads and decides, and writes nothing.
LEMMA ReadsOnly ==
    ASSUME Facts, NEW c \in Callers, NEW f, UNCHANGED <<load, db>>, call' = [call EXCEPT ![c] = f],
           Frame(db, load.webauthn, f), Plain(f)
    PROVE  Facts'
  <1>1. Sound(db', load.webauthn) /\ \A n, b : Grows(db, db', n, b)
    BY NothingWritten
  <1>2. Frame(db', load.webauthn, f)
    OBVIOUS
  <1> QED BY <1>1, <1>2, HandledPlainly

LEMMA SignupKeeps ==
    ASSUME Facts, NEW c \in Callers, NEW u \in Users, NEW t \in Teams \cup {NoTeam}, Signup(c, u, t)
    PROVE  Facts'
  <1> DEFINE f == [op |-> "signup", user |-> u, team |-> t]
  <1>1. Frame(db, load.webauthn, f) /\ Plain(f)
    BY DEF Frame, Plain, Verifying
  <1>2. call' = [call EXCEPT ![c] = f] /\ UNCHANGED <<load, db>>
    BY DEF Signup, Begin
  <1> QED BY <1>1, <1>2, ReadsOnly

LEMMA LoginKeeps ==
    ASSUME Facts, NEW c \in Callers, NEW u \in Users, Login(c, u)
    PROVE  Facts'
  <1> DEFINE f == [op |-> "login", user |-> u, hadKeys |-> db.user[u].keys # {}]
  <1>1. Frame(db, load.webauthn, f) /\ Plain(f)
    BY DEF Frame, Plain, Verifying, Login, Exists
  <1>2. call' = [call EXCEPT ![c] = f] /\ UNCHANGED <<load, db>>
    BY DEF Login, Begin
  <1> QED BY <1>1, <1>2, ReadsOnly

LEMMA ResetPasswordKeeps ==
    ASSUME Facts, NEW c \in Callers, NEW r \in db.resets, ResetPassword(c, r)
    PROVE  Facts'
  <1> DEFINE f == [op |-> "reset", token |-> r]
  <1>1. r \in TokenRow /\ Exists(db, r.user)
    BY Reading DEF Sound, Owned, Tables, TokenRow, Exists
  <1>2. Frame(db, load.webauthn, f) /\ Plain(f)
    BY <1>1 DEF Frame, Plain, Verifying
  <1>3. call' = [call EXCEPT ![c] = f] /\ UNCHANGED <<load, db>>
    BY DEF ResetPassword, Begin
  <1> QED BY <1>2, <1>3, ReadsOnly

LEMMA DeletePasskeyKeeps ==
    ASSUME Facts, NEW c \in Callers, NEW s \in db.sessions, NEW k, DeletePasskey(c, s, k)
    PROVE  Facts'
  <1> DEFINE f == [op |-> "deleteKey", user |-> s.user, key |-> k]
  <1>1. s.user \in Users
    BY Reading DEF Tables, SessionRow
  <1>2. Frame(db, load.webauthn, f) /\ Plain(f)
    BY <1>1 DEF Frame, Plain, Verifying
  <1>3. call' = [call EXCEPT ![c] = f] /\ UNCHANGED <<load, db>>
    BY DEF DeletePasskey, Begin
  <1> QED BY <1>2, <1>3, ReadsOnly

LEMMA RemoveTeamMemberKeeps ==
    ASSUME Facts, NEW c \in Callers, NEW s \in db.sessions, NEW u \in Users, RemoveTeamMember(c, s, u)
    PROVE  Facts'
  <1> DEFINE f == [op |-> "remove", user |-> u, team |-> s.team]
  <1>1. s.team \in Teams
    BY Reading DEF Tables, SessionRow
  <1>2. Frame(db, load.webauthn, f) /\ Plain(f)
    BY <1>1 DEF Frame, Plain, Verifying
  <1>3. call' = [call EXCEPT ![c] = f] /\ UNCHANGED <<load, db>>
    BY DEF RemoveTeamMember, Begin
  <1> QED BY <1>2, <1>3, ReadsOnly

LEMMA ChangeMemberRoleKeeps ==
    ASSUME Facts, NEW c \in Callers, NEW s \in db.sessions, NEW u \in Users, NEW r \in Roles,
           ChangeMemberRole(c, s, u, r)
    PROVE  Facts'
  <1> DEFINE f == [op |-> "role", user |-> u, team |-> s.team, role |-> r, by |-> s.user]
  <1>1. s.team \in Teams /\ s.user \in Users
    BY Reading DEF Tables, SessionRow
  <1>2. "owner" \in db.held[s.user][s.team]
    BY <1>1, Reading DEF ChangeMemberRole, RoleIn, Sound, Joined
  <1>3. Frame(db, load.webauthn, f) /\ Plain(f)
    BY <1>1, <1>2 DEF Frame, Plain, Verifying
  <1>4. call' = [call EXCEPT ![c] = f] /\ UNCHANGED <<load, db>>
    BY DEF ChangeMemberRole, Begin
  <1> QED BY <1>3, <1>4, ReadsOnly

LEMMA SwitchTeamKeeps ==
    ASSUME Facts, NEW c \in Callers, NEW s \in db.sessions, NEW t \in Teams, SwitchTeam(c, s, t)
    PROVE  Facts'
  <1> DEFINE f == [op |-> "switch", session |-> s, team |-> t]
  <1>1. s \in SessionRow /\ s.user \in Users
    BY Reading DEF Tables, SessionRow
  <1>2. db.role[s.user][t] # "none"
    BY DEF SwitchTeam, TeamsToSwitchTo, MembershipsOf
  <1>3. db.held[s.user][t] # {}
    BY <1>1, <1>2, Reading DEF Sound, Joined
  <1>4. s.id < db.next /\ \A x \in db.sessions : x.id = s.id => x.user = s.user
    BY Reading DEF Sound, Sessions, Opened
  <1>5. Frame(db, load.webauthn, f) /\ Plain(f)
    BY <1>1, <1>3, <1>4 DEF Frame, Plain, Verifying
  <1>6. call' = [call EXCEPT ![c] = f] /\ UNCHANGED <<load, db>>
    BY DEF SwitchTeam, Begin
  <1> QED BY <1>5, <1>6, ReadsOnly

LEMMA CrashKeeps ==
    ASSUME Facts, NEW c \in Callers, Crash(c)
    PROVE  Facts'
  <1>1. call' = [call EXCEPT ![c] = Idle] /\ UNCHANGED <<load, db>>
    BY DEF Crash, Return, Continue
  <1> QED BY <1>1, IdleFrame, ReadsOnly

\* Nobody is about to answer a challenge with the number of a code.
LEMMA VerifyEmailKeeps ==
    ASSUME Facts, NEW c \in Callers, NEW code \in db.codes, VerifyEmail(c, code)
    PROVE  Facts'
  <1> DEFINE f == [op |-> "verify", code |-> code]
  <1>1. code \in TokenRow /\ Exists(db, code.user) /\ CodeOnly(db, code.id)
    BY Reading DEF Sound, Owned, Once, Tables, TokenRow, Exists
  <1>2. Frame(db', load.webauthn, f)
    BY <1>1 DEF Frame, Verifying, VerifyEmail
  <1>3. call' = [call EXCEPT ![c] = f] /\ UNCHANGED <<load, db>>
    BY DEF VerifyEmail, Begin
  <1>4. Distinct(c, f, 0, "none")
    <2>1. SUFFICES ASSUME NEW x \in Callers \ {c}
                   PROVE  /\ Apart(call[x], f) /\ Apart(f, call[x])
                          /\ call[x].op = "passkey" => call[x].challenge.id # 0
      BY DEF Distinct
    <2>2. Frame(db, load.webauthn, call[x])
      BY Reading
    <2>3. call[x].op = "passkey" => call[x].challenge.id # 0 /\ call[x].challenge.id # code.id
      BY <2>2 DEF Frame, Verifying, Unused
    <2> QED BY <2>3 DEF Apart, Verifying
  <1>5. Sound(db', load.webauthn) /\ Grows(db, db', 0, "none")
    BY <1>3, NothingWritten
  <1> QED BY <1>2, <1>3, <1>4, <1>5, Handled

\* A request of one statement that only removes rows of tokens, or starts a registration.
LEMMA RowsAtOnce ==
    ASSUME Facts, UNCHANGED <<load, call>>, db' \in Tables, RowsOnly(db, db')
    PROVE  Facts'
  <1>1. Sound(db, load.webauthn)
    BY Reading
  <1>2. Sound(db', load.webauthn) /\ \A n, b : Grows(db, db', n, b)
    BY <1>1, RowsStatement
  <1> QED BY <1>2, HandledAtOnce

LEMMA ResendVerificationKeeps ==
    ASSUME Facts, NEW u \in Users, ResendVerification(u)
    PROVE  Facts'
  <1>1. Sound(db, load.webauthn)
    BY Reading
  <1>2. db' = CreateEmailVerification(db, u) /\ db.user[u].exists /\ UNCHANGED <<load, call>>
    BY DEF ResendVerification
  <1>3. Sound(db', load.webauthn) /\ \A n, b : Grows(db, db', n, b)
    BY <1>1, <1>2, CodeStatement
  <1> QED BY <1>2, <1>3, HandledAtOnce

LEMMA ForgotPasswordKeeps ==
    ASSUME Facts, NEW u \in Users, ForgotPassword(u)
    PROVE  Facts' /\ db'.role = db.role
  <1>0. Sound(db, load.webauthn) /\ db \in Tables /\ db.next \in Nat /\ db.user[u].exists
    BY Reading DEF ForgotPassword, Tables
  <1> DEFINE R == {r \in db.resets : r.user # u} \cup {[id |-> db.next, user |-> u]}
             after == db.next + 1
  <1>1. after \in Nat /\ db.next <= after /\ R \in SUBSET TokenRow /\ \A r \in R : r \in db.resets \/ r.user = u
    BY <1>0 DEF TokenRow, Tables
  <1>2. db' = [db EXCEPT !.resets = R, !.next = after] /\ UNCHANGED <<load, call>>
    BY <1>0 DEF ForgotPassword, CreatePasswordReset, Tables
  <1> HIDE DEF R, after
  <1>3. /\ db' \in Tables /\ SameOrder(db, db') /\ db'.next = after /\ db'.resets = R
        /\ db'.user = db.user /\ db'.stripped = db.stripped /\ db'.invites = db.invites
        /\ db'.sessions = db.sessions /\ db'.codes = db.codes /\ db'.challenges = db.challenges
        /\ db'.enrolling = db.enrolling
    BY <1>0, <1>1, <1>2 DEF Tables, SameOrder
  <1>4. Keyless(db') /\ db.next <= db'.next
    BY <1>0, <1>1, <1>3 DEF Keyless, Sound
  <1>5. Sound(db', load.webauthn) /\ \A n, b : Grows(db, db', n, b)
    BY <1>0, <1>1, <1>3, <1>4, SameOrderIsSound
  <1> QED BY <1>2, <1>3, <1>5, HandledAtOnce DEF SameOrder

\* The tables with some rows of tokens gone.
LEMMA TokensGone ==
    ASSUME NEW d, NEW webauthn, Sound(d, webauthn)
    PROVE  /\ \A x : LET e == [d EXCEPT !.codes = @ \ {x}] IN e \in Tables /\ RowsOnly(d, e)
           /\ \A x : LET e == [d EXCEPT !.resets = @ \ {x}] IN e \in Tables /\ RowsOnly(d, e)
           /\ \A x : LET e == [d EXCEPT !.challenges = @ \ {x}] IN e \in Tables /\ RowsOnly(d, e)
           /\ \A x : LET e == [d EXCEPT !.enrolling = @ \ {x}] IN e \in Tables /\ RowsOnly(d, e)
           /\ \A x : LET e == [d EXCEPT !.invites = @ \ {x}] IN e \in Tables /\ RowsOnly(d, e)
           /\ \A x : LET e == [d EXCEPT !.stepups = @ \ {x}] IN e \in Tables /\ RowsOnly(d, e)
           /\ \A s : DeleteSession(d, s) \in Tables /\ RowsOnly(d, DeleteSession(d, s))
  <1>0. d \in Tables /\ \A u \in d.enrolling : d.user[u].exists
    BY DEF Sound, Owned
  <1>1. ASSUME NEW x PROVE LET e == [d EXCEPT !.codes = @ \ {x}] IN e \in Tables /\ RowsOnly(d, e)
    BY <1>0 DEF Tables, RowsOnly, SameOrder
  <1>2. ASSUME NEW x PROVE LET e == [d EXCEPT !.resets = @ \ {x}] IN e \in Tables /\ RowsOnly(d, e)
    BY <1>0 DEF Tables, RowsOnly, SameOrder
  <1>3. ASSUME NEW x PROVE LET e == [d EXCEPT !.challenges = @ \ {x}] IN e \in Tables /\ RowsOnly(d, e)
    BY <1>0 DEF Tables, RowsOnly, SameOrder
  <1>4. ASSUME NEW x PROVE LET e == [d EXCEPT !.enrolling = @ \ {x}] IN e \in Tables /\ RowsOnly(d, e)
    BY <1>0 DEF Tables, RowsOnly, SameOrder
  <1>5. ASSUME NEW x PROVE LET e == [d EXCEPT !.invites = @ \ {x}] IN e \in Tables /\ RowsOnly(d, e)
    BY <1>0 DEF Tables, RowsOnly, SameOrder
  <1>6. ASSUME NEW x PROVE LET e == [d EXCEPT !.stepups = @ \ {x}] IN e \in Tables /\ RowsOnly(d, e)
    BY <1>0 DEF Tables, RowsOnly, SameOrder
  <1>7. ASSUME NEW s PROVE DeleteSession(d, s) \in Tables /\ RowsOnly(d, DeleteSession(d, s))
    <2> DEFINE S == {x \in d.sessions : x.id # s.id}
    <2>1. S \subseteq d.sessions /\ DeleteSession(d, s) = [d EXCEPT !.sessions = S]
      BY <1>0 DEF DeleteSession, Tables
    <2> HIDE DEF S
    <2> QED BY <1>0, <2>1 DEF Tables, RowsOnly, SameOrder
  <1> QED BY <1>1, <1>2, <1>3, <1>4, <1>5, <1>6, <1>7

LEMMA LogoutKeeps ==
    ASSUME Facts, NEW s, Logout(s)
    PROVE  Facts' /\ db'.role = db.role
  <1>1. Sound(db, load.webauthn)
    BY Reading
  <1>2. db' \in Tables /\ RowsOnly(db, db') /\ UNCHANGED <<load, call>>
    BY <1>1, TokensGone DEF Logout
  <1> QED BY <1>2, RowsAtOnce DEF RowsOnly, SameOrder

LEMMA ExpireKeeps ==
    ASSUME Facts, Expire
    PROVE  Facts' /\ db'.role = db.role
  <1>1. Sound(db, load.webauthn)
    BY Reading
  <1>2. UNCHANGED <<load, call>>
    BY DEF Expire
  <1>3. db' \in Tables /\ RowsOnly(db, db')
    BY <1>1, TokensGone DEF Expire, DeleteInvite
  <1> QED BY <1>2, <1>3, RowsAtOnce DEF RowsOnly, SameOrder

LEMMA CancelInviteKeeps ==
    ASSUME Facts, NEW s, NEW i, CancelInvite(s, i)
    PROVE  Facts' /\ db'.role = db.role
  <1>1. Sound(db, load.webauthn)
    BY Reading
  <1>2. db' \in Tables /\ RowsOnly(db, db') /\ UNCHANGED <<load, call>>
    BY <1>1, TokensGone DEF CancelInvite, DeleteInvite
  <1> QED BY <1>2, RowsAtOnce DEF RowsOnly, SameOrder

LEMMA InviteTeamMemberKeeps ==
    ASSUME Facts, NEW s \in db.sessions, NEW u \in Users, NEW r \in Roles, InviteTeamMember(s, u, r)
    PROVE  Facts' /\ db'.role = db.role
  <1>1. Sound(db, load.webauthn) /\ s.user \in Users /\ s.team \in Teams
    BY Reading DEF Tables, SessionRow
  <1>2. s.team \in db.teams /\ (r = "owner" => "owner" \in db.held[s.user][s.team])
    BY <1>1 DEF InviteTeamMember, MayInvite, RoleIn, Managers, Sound, Joined
  <1>3. db' = CreateInvite(db, u, s.team, r, s.user) /\ UNCHANGED <<load, call>>
    BY DEF InviteTeamMember
  <1>4. Sound(db', load.webauthn) /\ (\A n, b : Grows(db, db', n, b)) /\ db'.role = db.role
    BY <1>1, <1>2, <1>3, InviteStatement
  <1> QED BY <1>3, <1>4, HandledAtOnce

LEMMA BeginUserRegistrationKeeps ==
    ASSUME Facts, NEW s \in db.sessions, BeginUserRegistration(s.user)
    PROVE  Facts' /\ db'.role = db.role
  <1>1. Sound(db, load.webauthn) /\ db \in Tables /\ s.user \in Users /\ db.user[s.user].exists
    BY Reading DEF Tables, SessionRow, Sound, Owned
  <1>2. db' = [db EXCEPT !.enrolling = @ \cup {s.user}] /\ UNCHANGED <<load, call>>
    BY DEF BeginUserRegistration, SetRegistrationChallenge
  <1>3. \A u \in db.enrolling \cup {s.user} : db.user[u].exists /\ u \in Users
    BY <1>1 DEF Sound, Owned, Tables
  <1>4. db' \in Tables /\ RowsOnly(db, db')
    BY <1>1, <1>2, <1>3 DEF Tables, RowsOnly, SameOrder
  <1> QED BY <1>2, <1>4, RowsAtOnce DEF RowsOnly, SameOrder

LEMMA SetupPasskeyFinishKeeps ==
    ASSUME Facts, NEW s \in db.sessions, NEW k \in Keys, SetupPasskeyFinish(s, k)
    PROVE  Facts' /\ db'.role = db.role
  <1> DEFINE d == FinishUserRegistration(db, s.user, k)
  <1>1. Sound(db, load.webauthn) /\ s.user \in Users /\ db.user[s.user].exists
    BY Reading DEF Tables, SessionRow, Sound, Owned
  <1>2. Sound(d, load.webauthn) /\ (\A n, b : Grows(db, d, n, b)) /\ d.role = db.role
    BY <1>1, PasskeyStatement
  <1>3. db' = DeleteSession(d, s) /\ UNCHANGED <<load, call>>
    BY DEF SetupPasskeyFinish
  <1> HIDE DEF d
  <1>4. db' \in Tables /\ RowsOnly(d, db')
    BY <1>2, <1>3, TokensGone
  <1>5. Sound(db', load.webauthn) /\ \A n, b : Grows(d, db', n, b)
    BY <1>2, <1>4, RowsStatement
  <1>6. \A n, b : Grows(db, db', n, b)
    BY <1>1, <1>2, <1>5, GrowsOn DEF Sound
  <1> QED BY <1>2, <1>3, <1>4, <1>5, <1>6, HandledAtOnce DEF RowsOnly, SameOrder

LEMMA RegisterFinishKeeps ==
    ASSUME Facts, NEW s \in db.sessions, NEW k \in Keys, RegisterFinish(s, k)
    PROVE  Facts' /\ db'.role = db.role
  <1>1. Sound(db, load.webauthn) /\ s.user \in Users /\ db.user[s.user].exists
    BY Reading DEF Tables, SessionRow, Sound, Owned
  <1>2. db' = FinishUserRegistration(db, s.user, k) /\ UNCHANGED <<load, call>>
    BY DEF RegisterFinish
  <1>3. Sound(db', load.webauthn) /\ (\A n, b : Grows(db, db', n, b)) /\ db'.role = db.role
    BY <1>1, <1>2, PasskeyStatement
  <1> QED BY <1>2, <1>3, HandledAtOnce

LEMMA ResetPasskeysBeginKeeps ==
    ASSUME Facts, NEW s \in db.sessions, NEW u \in Users, ResetPasskeysBegin(s, u)
    PROVE  Facts' /\ db'.role = db.role
  <1>1. db \in Tables /\ s.user \in Users /\ s.team \in Teams /\ \A v \in db.enrolling : db.user[v].exists
    BY Reading DEF Tables, SessionRow, Sound, Owned
  <1> DEFINE x == [by |-> s.user, of |-> u, team |-> s.team]
  <1>2. x \in [by : Users, of : Users, team : Teams]
    BY <1>1
  <1>3. db' = [db EXCEPT !.stepups = @ \cup {x}] /\ UNCHANGED <<load, call>>
    BY DEF ResetPasskeysBegin
  <1> HIDE DEF x
  <1>4. db' \in Tables /\ RowsOnly(db, db')
    BY <1>1, <1>2, <1>3 DEF Tables, RowsOnly, SameOrder
  <1> QED BY <1>3, <1>4, RowsAtOnce DEF RowsOnly, SameOrder

LEMMA ResetPasskeysKeeps ==
    ASSUME Facts, NEW c \in Callers, NEW s \in db.sessions, NEW u \in Users, ResetPasskeys(c, s, u)
    PROVE  Facts' /\ db'.role = db.role
  <1> DEFINE f == [op |-> "resetKeys", user |-> u]
  <1>1. Sound(db, load.webauthn)
    BY Reading
  <1>2. db' \in Tables /\ RowsOnly(db, db')
    BY <1>1, TokensGone DEF ResetPasskeys
  <1>3. Sound(db', load.webauthn) /\ \A n, b : Grows(db, db', n, b)
    BY <1>1, <1>2, RowsStatement
  <1>4. Frame(db', load.webauthn, f) /\ Plain(f)
    BY DEF Frame, Plain, Verifying
  <1>5. call' = [call EXCEPT ![c] = f] /\ UNCHANGED load
    BY DEF ResetPasskeys, Begin
  <1> QED BY <1>2, <1>3, <1>4, <1>5, HandledPlainly DEF RowsOnly, SameOrder

LEMMA ConsumeCodeKeeps ==
    ASSUME Facts, NEW c \in Callers, ConsumeCode(c)
    PROVE  Facts' /\ db'.role = db.role
  <1> DEFINE code == call[c].code
             f == [op |-> "verified", code |-> code]
             d == [db EXCEPT !.codes = @ \ {code}]
  <1>1. /\ Sound(db, load.webauthn) /\ Verifying(call[c])
        /\ code \in TokenRow /\ code.user \in Users /\ Frame(db, load.webauthn, f)
    BY Reading DEF ConsumeCode, Frame, Verifying, Exists
  <1>2. db' = SetUserEmailVerified(d, code.user) /\ call' = [call EXCEPT ![c] = f] /\ UNCHANGED load
    BY DEF ConsumeCode, Continue, ConsumeEmailVerification
  <1>3. d \in Tables /\ RowsOnly(db, d)
    BY <1>1, TokensGone
  <1> HIDE DEF d
  <1>4. Sound(d, load.webauthn) /\ \A n, b : Grows(db, d, n, b)
    BY <1>1, <1>3, RowsStatement
  <1>5. Sound(db', load.webauthn) /\ (\A n, b : Grows(d, db', n, b)) /\ AccountsOnly(d, db')
    BY <1>1, <1>2, <1>4, VerifiedStatement
  <1>6. db \in Tables /\ db' \in Tables
    BY <1>1, <1>5 DEF Sound
  <1>7. \A n, b : Grows(db, db', n, b)
    BY <1>3, <1>4, <1>5, <1>6, GrowsOn
  <1>8. Frame(db', load.webauthn, f)
    <2>1. f.op = "verified" /\ f.op # "passkey" /\ Grows(db, db', 0, "none")
      BY <1>7
    <2> HIDE DEF f
    <2> QED BY <1>1, <1>6, <2>1, FrameKept
  <1>9. Distinct(c, f, 0, "none")
    <2>1. SUFFICES ASSUME NEW x \in Callers \ {c}
                   PROVE  /\ Apart(call[x], f) /\ Apart(f, call[x])
                          /\ call[x].op = "passkey" => call[x].challenge.id # 0
      BY DEF Distinct
    <2>2. Frame(db, load.webauthn, call[x]) /\ Apart(call[x], call[c])
      BY DEF Facts
    <2> QED BY <1>1, <2>2 DEF Apart, Frame, Verifying, Unused
  <1>10. Grows(db, db', 0, "none")
    BY <1>7
  <1> HIDE DEF f, code
  <1>11. Facts'
    BY <1>2, <1>5, <1>8, <1>9, <1>10, Handled
  <1> QED BY <1>3, <1>5, <1>11 DEF RowsOnly, AccountsOnly, SameOrder

(* The others hold neither this challenge nor this code.                   *)
Spared(c, n, b) ==
    \A x \in Callers \ {c} :
        /\ call[x].op = "passkey" => call[x].challenge.id # n
        /\ Verifying(call[x]) /\ b = "passkey" => call[x].code.id # n

\* A handler ends with a statement.
LEMMA Ends ==
    ASSUME Facts, NEW c \in Callers, NEW n, NEW b, UNCHANGED load,
           Sound(db', load.webauthn), Grows(db, db', n, b), call' = [call EXCEPT ![c] = Idle], Spared(c, n, b)
    PROVE  Facts'
  <1>1. Distinct(c, Idle, n, b)
    BY DEF Spared, Distinct, Apart, Idle, Verifying
  <1>2. Frame(db', load.webauthn, Idle)
    BY IdleFrame
  <1> QED BY <1>1, <1>2, Handled

LEMMA EndsPlainly ==
    ASSUME Facts, NEW c \in Callers, UNCHANGED load,
           Sound(db', load.webauthn), \A n, b : Grows(db, db', n, b), call' = [call EXCEPT ![c] = Idle]
    PROVE  Facts'
  BY IdleFrame, HandledPlainly

LEMMA FinishVerifyEmailKeeps ==
    ASSUME Facts, NEW c \in Callers, FinishVerifyEmail(c)
    PROVE  Facts' /\ db'.role = db.role
  <1> DEFINE code == call[c].code
  <1>1. /\ Sound(db, load.webauthn) /\ db \in Tables /\ Verifying(call[c])
        /\ code \in TokenRow /\ Exists(db, code.user) /\ CodeOnly(db, code.id)
    BY Reading DEF FinishVerifyEmail, Frame, Verifying
  <1>2. call' = [call EXCEPT ![c] = Idle] /\ UNCHANGED load
    BY DEF FinishVerifyEmail, Return, Continue
  <1>3. CASE UNCHANGED db
    BY <1>2, <1>3, NothingWritten, EndsPlainly
  <1>4. ASSUME NEW t \in MembershipsOf(db, code.user),
               db' = CreateSession(db, code.user, t, "code", code.id, FALSE)
        PROVE  Facts' /\ db'.role = db.role
    <2>1. code.user \in Users /\ db.user[code.user].exists /\ t \in Teams /\ db.held[code.user][t] # {}
      BY <1>1, <1>4 DEF Exists, MembershipsOf, Sound, Joined
    <2>2. code.id \in Nat /\ code.id < db.next /\ \A ch \in db.challenges : ch.id # code.id
      BY <1>1 DEF CodeOnly
    <2>3. Spared(c, code.id, "code")
      BY <1>1 DEF Facts, Apart, Spared
    <2> DEFINE h == FALSE
    <2>5. h \in BOOLEAN /\ ~h /\ db' = CreateSession(db, code.user, t, "code", code.id, h)
      BY <1>4
    <2> HIDE DEF code, h
    <2>4. Sound(db', load.webauthn) /\ Grows(db, db', code.id, "code") /\ db'.role = db.role
      BY <1>1, <2>1, <2>2, <2>5, SessionStatement
    <2> QED BY <1>2, <2>3, <2>4, Ends
  <1> QED BY <1>3, <1>4 DEF FinishVerifyEmail

LEMMA LoginPasskeyKeeps ==
    ASSUME Facts, NEW c \in Callers, NEW ch \in db.challenges, LoginPasskey(c, ch)
    PROVE  Facts' /\ db'.role = db.role
  <1> DEFINE f == [op |-> "passkey", challenge |-> ch]
  <1>1. /\ Sound(db, load.webauthn) /\ db \in Tables
        /\ ch \in ChallengeRow /\ Exists(db, ch.user) /\ Unused(db, ch.id)
    BY Reading DEF Sound, Owned, Once, Tables, ChallengeRow, Exists
  <1>2. db' \in Tables /\ RowsOnly(db, db') /\ db'.challenges = db.challenges \ {ch}
    BY <1>1, TokensGone DEF LoginPasskey, TakeLoginChallenge, Tables
  <1>3. Sound(db', load.webauthn) /\ \A n, b : Grows(db, db', n, b)
    BY <1>1, <1>2, RowsStatement
  <1>4. CASE UNCHANGED call
    BY <1>2, <1>3, <1>4, HandledAtOnce DEF LoginPasskey, RowsOnly, SameOrder
  <1>5. CASE Begin(c, f)
    <2>1. Exists(db', ch.user) /\ Unused(db', ch.id) /\ \A x \in db'.challenges : x.id # ch.id
      BY <1>1, <1>2 DEF RowsOnly, Exists, Unused, Sound, Once
    <2>2. Frame(db', load.webauthn, f)
      BY <1>1, <2>1 DEF Frame
    <2>3. Distinct(c, f, 0, "none")
      <3>1. SUFFICES ASSUME NEW x \in Callers \ {c}
                     PROVE  /\ Apart(call[x], f) /\ Apart(f, call[x])
                            /\ call[x].op = "passkey" => call[x].challenge.id # 0
        BY DEF Distinct
      <3>2. Frame(db, load.webauthn, call[x])
        BY Reading
      <3> QED BY <3>2 DEF Frame, Apart, Verifying, Unused, CodeOnly
    <2>4. Grows(db, db', 0, "none") /\ call' = [call EXCEPT ![c] = f] /\ UNCHANGED load
      BY <1>3, <1>5 DEF Begin, LoginPasskey
    <2> HIDE DEF f
    <2>5. Facts'
      BY <1>3, <2>2, <2>3, <2>4, Handled
    <2> QED BY <1>2, <2>5 DEF RowsOnly, SameOrder
  <1> QED BY <1>4, <1>5 DEF LoginPasskey

LEMMA FinishLoginPasskeyKeeps ==
    ASSUME Facts, NEW c \in Callers, FinishLoginPasskey(c)
    PROVE  Facts' /\ db'.role = db.role
  <1> DEFINE ch == call[c].challenge
  <1>1. /\ Sound(db, load.webauthn) /\ db \in Tables /\ call[c].op = "passkey"
        /\ ch \in ChallengeRow /\ Exists(db, ch.user) /\ Unused(db, ch.id)
        /\ \A x \in db.challenges : x.id # ch.id
    BY Reading DEF FinishLoginPasskey, Frame, Verifying
  <1>2. call' = [call EXCEPT ![c] = Idle] /\ UNCHANGED load
    BY DEF FinishLoginPasskey, Return, Continue
  <1>3. CASE UNCHANGED db
    BY <1>2, <1>3, NothingWritten, EndsPlainly
  <1>4. ASSUME NEW t \in MembershipsOf(db, ch.user),
               db' = CreateSession(db, ch.user, t, "passkey", ch.id, TRUE)
        PROVE  Facts' /\ db'.role = db.role
    <2>1. ch.user \in Users /\ db.user[ch.user].exists /\ t \in Teams /\ db.held[ch.user][t] # {}
      BY <1>1, <1>4 DEF Exists, MembershipsOf, Sound, Joined
    <2>2. ch.id \in Nat /\ ch.id < db.next
      BY <1>1 DEF Unused
    <2>3. Spared(c, ch.id, "passkey")
      BY <1>1 DEF Facts, Apart, Spared
    <2> DEFINE h == TRUE
    <2>5. h \in BOOLEAN /\ db' = CreateSession(db, ch.user, t, "passkey", ch.id, h)
      BY <1>4
    <2> HIDE DEF ch, h
    <2>4. Sound(db', load.webauthn) /\ Grows(db, db', ch.id, "passkey") /\ db'.role = db.role
      BY <1>1, <2>1, <2>2, <2>5, SessionStatement
    <2> QED BY <1>2, <2>3, <2>4, Ends
  <1> QED BY <1>3, <1>4 DEF FinishLoginPasskey

LEMMA OpenSetupSessionKeeps ==
    ASSUME Facts, NEW c \in Callers, OpenSetupSession(c)
    PROVE  Facts' /\ db'.role = db.role
  <1> DEFINE f == call[c]
  <1>1. /\ Sound(db, load.webauthn) /\ db \in Tables
        /\ f.user \in Users /\ db.user[f.user].exists /\ f.team \in Teams /\ f.hadKeys \in BOOLEAN
        /\ db.held[f.user][f.team] # {}
        /\ load.webauthn /\ f.hadKeys => f.user \in db.stripped
    BY Reading DEF OpenSetupSession, Frame, Verifying, Exists
  <1>2. /\ call' = [call EXCEPT ![c] = Idle] /\ UNCHANGED load
        /\ db' = CreateSession(db, f.user, f.team, "setup", 0, f.hadKeys)
    BY DEF OpenSetupSession, Return, Continue
  <1>3. 0 < db.next /\ \A ch \in db.challenges : ch.id # 0
    BY <1>1 DEF Sound, Once, Unused, Tables
  <1> HIDE DEF f
  <1>4. Sound(db', load.webauthn) /\ Grows(db, db', 0, "setup") /\ db'.role = db.role
    BY <1>1, <1>2, <1>3, SessionStatement
  <1>5. Spared(c, 0, "setup")
    BY Reading DEF Frame, Verifying, Unused, Spared
  <1> QED BY <1>2, <1>4, <1>5, Ends

LEMMA ConsumeResetKeeps ==
    ASSUME Facts, NEW c \in Callers, ConsumeReset(c)
    PROVE  Facts' /\ db'.role = db.role
  <1> DEFINE r == call[c].token
             f == [op |-> "newPassword", user |-> r.user]
  <1>1. Sound(db, load.webauthn) /\ r \in TokenRow /\ Exists(db, r.user)
    BY Reading DEF ConsumeReset, Frame, Verifying
  <1>2. db' = ConsumePasswordReset(db, r) /\ call' = [call EXCEPT ![c] = f] /\ UNCHANGED load
    BY DEF ConsumeReset, Continue
  <1>3. Sound(db', load.webauthn) /\ (\A n, b : Grows(db, db', n, b)) /\ db'.role = db.role
    BY <1>1, <1>2, ResetStatement
  <1>4. Frame(db', load.webauthn, f) /\ Plain(f)
    BY <1>1, <1>3 DEF Frame, Plain, Verifying, Exists, Grows
  <1> HIDE DEF f
  <1> QED BY <1>2, <1>3, <1>4, HandledPlainly

LEMMA FinishResetPasswordKeeps ==
    ASSUME Facts, NEW c \in Callers, FinishResetPassword(c)
    PROVE  Facts' /\ db'.role = db.role
  <1>1. Sound(db, load.webauthn) /\ call[c].user \in Users /\ db \in Tables
    BY Reading DEF FinishResetPassword, Frame, Verifying, Exists
  <1>2. /\ db' = UpdateUserPassword(db, call[c].user)
        /\ call' = [call EXCEPT ![c] = Idle] /\ UNCHANGED load
    BY DEF FinishResetPassword, Return, Continue
  <1>3. Sound(db', load.webauthn) /\ (\A n, b : Grows(db, db', n, b)) /\ db'.role = db.role
    BY <1>1, <1>2, PasswordStatement DEF UpdateUserPassword, Tables
  <1> QED BY <1>2, <1>3, EndsPlainly

LEMMA FinishDeletePasskeyKeeps ==
    ASSUME Facts, NEW c \in Callers, FinishDeletePasskey(c)
    PROVE  Facts' /\ db'.role = db.role
  <1>1. Sound(db, load.webauthn) /\ call[c].user \in Users
    BY Reading DEF FinishDeletePasskey, Frame, Verifying
  <1>2. /\ db' = DeleteUserPasskeys(db, call[c].user, {call[c].key})
        /\ call' = [call EXCEPT ![c] = Idle] /\ UNCHANGED load
    BY DEF FinishDeletePasskey, Return, Continue
  <1>3. Sound(db', load.webauthn) /\ (\A n, b : Grows(db, db', n, b)) /\ db'.role = db.role
    BY <1>1, <1>2, DeletePasskeysStatement
  <1> QED BY <1>2, <1>3, EndsPlainly

LEMMA FinishResetPasskeysKeeps ==
    ASSUME Facts, NEW c \in Callers, FinishResetPasskeys(c)
    PROVE  Facts' /\ db'.role = db.role
  <1>1. Sound(db, load.webauthn) /\ call[c].user \in Users
    BY Reading DEF FinishResetPasskeys, Frame, Verifying
  <1>2. /\ db' = DeleteUserPasskeys(db, call[c].user, db.user[call[c].user].keys)
        /\ call' = [call EXCEPT ![c] = Idle] /\ UNCHANGED load
    BY DEF FinishResetPasskeys, Return, Continue
  <1>3. Sound(db', load.webauthn) /\ (\A n, b : Grows(db, db', n, b)) /\ db'.role = db.role
    BY <1>1, <1>2, DeletePasskeysStatement
  <1> QED BY <1>2, <1>3, EndsPlainly

LEMMA FinishSwitchTeamKeeps ==
    ASSUME Facts, NEW c \in Callers, FinishSwitchTeam(c)
    PROVE  Facts' /\ db'.role = db.role
  <1> DEFINE s == call[c].session
             t == call[c].team
  <1>1. /\ Sound(db, load.webauthn) /\ s \in SessionRow /\ t \in Teams /\ db.held[s.user][t] # {}
        /\ \A x \in db.sessions : x.id = s.id => x.user = s.user
    BY Reading DEF FinishSwitchTeam, Frame, Verifying
  <1>2. db' = UpdateSessionTeam(db, s, t) /\ call' = [call EXCEPT ![c] = Idle] /\ UNCHANGED load
    BY DEF FinishSwitchTeam, Return, Continue
  <1> HIDE DEF s, t
  <1>3. Sound(db', load.webauthn) /\ (\A n, b : Grows(db, db', n, b)) /\ db'.role = db.role
    BY <1>1, <1>2, SwitchStatement
  <1> QED BY <1>2, <1>3, EndsPlainly

-----------------------------------------------------------------------------
(* The steps that change memberships                                       *)

(* An owner of u in t on whose word u may become one.                      *)
ByInvite(u, t) ==
    \E i \in db.invites \cup {call[c].invite : c \in {c \in Callers : call[c].op = "accept"}} :
        i.user = u /\ i.team = t /\ i.role = "owner" /\ "owner" \in db.held[i.by][t]

ByChange(t) == \E c \in Callers : call[c].op = "role" /\ call[c].team = t /\ "owner" \in db.held[call[c].by][t]

OwnersStep ==
    \A u \in Users, t \in db.teams :
        db.role[u][t] # "owner" /\ db'.role[u][t] = "owner" => ByInvite(u, t) \/ ByChange(t)

\* Accepted invitations make owners only of those they invite as owners.
LEMMA InvitedOwners ==
    ASSUME NEW d \in Tables, NEW u \in Users, NEW v \in Users, NEW t \in Teams,
           d.role[v][t] # "owner", ConsumePendingInvites(d, u).role[v][t] = "owner"
    PROVE  \E i \in d.invites : i.user = v /\ i.team = t /\ i.role = "owner"
  <1> DEFINE i == Oldest(d, u, t)
  <1>1. v = u /\ Mine(d, u, t) # {} /\ i.role = "owner"
    BY ConsumeInvites
  <1>2. i \in Mine(d, u, t)
    BY <1>1, OldestIsMine
  <1> HIDE DEF i
  <1> QED BY <1>1, <1>2 DEF Mine, InvitesByEmail

\* An invitation of the table is an owner's if it makes an owner.
LEMMA InvitesAreVouched ==
    ASSUME Facts, NEW u, NEW t, NEW i \in db.invites, i.user = u, i.team = t, i.role = "owner"
    PROVE  ByInvite(u, t)
  <1>1. Vouched(db, i)
    BY Reading DEF Sound
  <1> QED BY <1>1 DEF ByInvite, Vouched

\* create_team
LEMMA TeamStatement ==
    ASSUME NEW d, NEW webauthn, Sound(d, webauthn), NEW t \in Teams
    PROVE  LET e == [d EXCEPT !.teams = @ \cup {t}]
           IN  /\ Sound(e, webauthn) /\ \A n, b : Grows(d, e, n, b)
               /\ e.teams = d.teams \cup {t} /\ e.user = d.user /\ e.role = d.role /\ e.invites = d.invites
  <1> DEFINE e == [d EXCEPT !.teams = @ \cup {t}]
  <1>0. d \in Tables /\ d.next <= d.next
    BY DEF Sound, Tables
  <1>1. /\ e \in Tables /\ e.teams = d.teams \cup {t}
        /\ e.user = d.user /\ e.role = d.role /\ e.held = d.held /\ e.wiped = d.wiped
        /\ e.next = d.next /\ e.sessions = d.sessions /\ e.codes = d.codes /\ e.challenges = d.challenges
        /\ e.resets = d.resets /\ e.enrolling = d.enrolling /\ e.invites = d.invites
        /\ e.stripped = d.stripped
    BY <1>0 DEF Tables
  <1> HIDE DEF e
  <1>2. Fewer(d, e) /\ Joined(e) /\ Keyless(e) /\ \A i \in e.invites : Vouched(e, i)
    BY <1>0, <1>1 DEF Fewer, Joined, Keyless, Vouched, Sound
  <1>3. Sound(e, webauthn) /\ \A n, b : Grows(d, e, n, b)
    BY <1>1, <1>2, FewerIsSound
  <1> QED BY <1>1, <1>3 DEF e

\* The account and its own team.
LEMMA OwnTeam ==
    ASSUME NEW d, NEW webauthn, Sound(d, webauthn), NEW u \in Users, NEW t \in Teams, t \notin d.teams
    PROVE  LET e == AddMembership([CreateUser(d, u) EXCEPT !.teams = @ \cup {t}], u, t, "owner")
           IN  /\ Sound(e, webauthn) /\ \A n, b : Grows(d, e, n, b)
               /\ e.user[u].exists /\ e.invites = d.invites
               /\ \A v \in Users, x \in d.teams : e.role[v][x] = d.role[v][x]
  <1> DEFINE d1 == CreateUser(d, u)
             d2 == [d1 EXCEPT !.teams = @ \cup {t}]
             e == AddMembership(d2, u, t, "owner")
  <1>1. /\ Sound(d1, webauthn) /\ \A n, b : Grows(d, d1, n, b)
        /\ d1.user[u].exists /\ d1.role = d.role /\ d1.invites = d.invites
    BY CreateUserStatement DEF AccountsOnly, SameOrder
  <1> HIDE DEF d1
  <1>2. /\ Sound(d2, webauthn) /\ \A n, b : Grows(d1, d2, n, b)
        /\ t \in d2.teams /\ d2.user = d1.user /\ d2.role = d1.role /\ d2.invites = d1.invites
    BY <1>1, TeamStatement
  <1> HIDE DEF d2
  <1>3. /\ Sound(e, webauthn) /\ \A n, b : Grows(d2, e, n, b)
        /\ e.user = d2.user
    <2>1. d2.user[u].exists /\ "owner" \in Roles
      BY <1>1, <1>2 DEF Roles
    <2> QED BY <1>2, <2>1, MembershipStatement
  <1>4. d \in Tables /\ d1 \in Tables /\ d2 \in Tables /\ e \in Tables
    BY <1>1, <1>2, <1>3 DEF Sound
  <1>5. e.invites = d2.invites /\ \A v \in Users, x \in d.teams : e.role[v][x] = d2.role[v][x]
    <2>1. \A x \in d.teams : x \in Teams /\ x # t
      BY <1>4 DEF Tables
    <2> QED BY <1>4, <2>1, MembershipRoles
  <1> HIDE DEF e
  <1>6. \A n, b : Grows(d, d2, n, b)
    BY <1>1, <1>2, <1>4, GrowsOn
  <1>7. \A n, b : Grows(d, e, n, b)
    BY <1>3, <1>4, <1>6, GrowsOn
  <1>8. /\ Sound(e, webauthn) /\ \A n, b : Grows(d, e, n, b)
        /\ e.user[u].exists /\ e.invites = d.invites
        /\ \A v \in Users, x \in d.teams : e.role[v][x] = d.role[v][x]
    BY <1>1, <1>2, <1>3, <1>5, <1>7
  <1> QED BY <1>8, Zenon DEF e, d2, d1

LEMMA FinishSignupKeeps ==
    ASSUME Facts, NEW c \in Callers, FinishSignup(c)
    PROVE  Facts' /\ OwnersStep
  <1> DEFINE u == call[c].user
             t == call[c].team
             own == IF t = NoTeam THEN CreateUser(db, u)
                    ELSE AddMembership([CreateUser(db, u) EXCEPT !.teams = @ \cup {t}], u, t, "owner")
             joined == ConsumePendingInvites(own, u)
  <1>1. /\ Sound(db, load.webauthn) /\ db \in Tables /\ u \in Users /\ t \in Teams \cup {NoTeam}
        /\ db.teams \subseteq Teams
    BY Reading DEF FinishSignup, Frame, Verifying, Tables
  <1>2. call' = [call EXCEPT ![c] = Idle] /\ UNCHANGED load
    BY DEF FinishSignup, Return, Continue
  <1>3. \/ UNCHANGED db
        \/ t \notin db.teams /\ db' = joined
        \/ t \notin db.teams /\ db' = CreateEmailVerification(joined, u)
    BY DEF FinishSignup
  <1>4. CASE UNCHANGED db
    BY <1>2, <1>4, NothingWritten, EndsPlainly DEF OwnersStep
  <1>5. CASE t \notin db.teams /\ ~UNCHANGED db
    <2>1. /\ Sound(own, load.webauthn) /\ \A n, b : Grows(db, own, n, b)
          /\ own.user[u].exists /\ own.invites = db.invites
          /\ \A v \in Users, x \in db.teams : own.role[v][x] = db.role[v][x]
      <3>1. CASE t = NoTeam
        BY <1>1, <3>1, CreateUserStatement DEF AccountsOnly, SameOrder
      <3>2. CASE t # NoTeam
        <4>1. t \in Teams /\ t \notin db.teams
          BY <1>1, <1>5, <3>2
        <4>2. own = AddMembership([CreateUser(db, u) EXCEPT !.teams = @ \cup {t}], u, t, "owner")
          BY <3>2
        <4> HIDE DEF own, u, t
        <4> QED BY <1>1, <4>1, <4>2, OwnTeam
      <3> QED BY <3>1, <3>2
    <2> HIDE DEF own, u, t
    <2>2. Sound(joined, load.webauthn) /\ \A n, b : Grows(own, joined, n, b)
      BY <1>1, <2>1, InvitesStatement
    <2>3. own \in Tables /\ joined \in Tables /\ joined.user = own.user
      BY <1>1, <2>1, <2>2, ConsumeInvites DEF Sound
    <2>4. \A v \in Users, x \in db.teams :
             db.role[v][x] # "owner" /\ joined.role[v][x] = "owner" => ByInvite(v, x)
      BY <1>1, <2>1, <2>3, InvitedOwners, InvitesAreVouched
    <2> HIDE DEF joined
    <2>5. \A n, b : Grows(db, joined, n, b)
      BY <1>1, <2>1, <2>2, <2>3, GrowsOn
    <2>6. CASE db' = joined
      BY <1>2, <2>2, <2>4, <2>5, <2>6, EndsPlainly DEF OwnersStep
    <2>7. CASE db' = CreateEmailVerification(joined, u)
      <3>1. Sound(db', load.webauthn) /\ (\A n, b : Grows(joined, db', n, b)) /\ db'.role = joined.role
        BY <1>1, <2>1, <2>2, <2>3, <2>7, CodeStatement
      <3>2. db' \in Tables
        BY <3>1 DEF Sound
      <3>3. \A n, b : Grows(db, db', n, b)
        BY <1>1, <2>3, <2>5, <3>1, <3>2, GrowsOn
      <3> QED BY <1>2, <2>4, <3>1, <3>3, EndsPlainly DEF OwnersStep
    <2> QED BY <1>3, <1>5, <2>6, <2>7
  <1> QED BY <1>3, <1>4, <1>5

LEMMA FinishFirstFactorLoginKeeps ==
    ASSUME Facts, NEW c \in Callers, FinishFirstFactorLogin(c)
    PROVE  Facts' /\ OwnersStep
  <1> DEFINE f == call[c]
             d == ConsumePendingInvites(db, f.user)
  <1>1. /\ Sound(db, load.webauthn) /\ db \in Tables /\ f.user \in Users /\ db.user[f.user].exists
        /\ f.hadKeys \in BOOLEAN /\ db.teams \subseteq Teams
        /\ f.hadKeys /\ f.user \notin db.stripped => db.user[f.user].keys # {}
    BY Reading DEF FinishFirstFactorLogin, Frame, Verifying, Exists, Tables
  <1>2. Sound(d, load.webauthn) /\ \A n, b : Grows(db, d, n, b)
    BY <1>1, InvitesStatement
  <1>3. d \in Tables /\ d.user = db.user /\ d.stripped = db.stripped
    BY <1>1, ConsumeInvites
  <1>4. \A v \in Users, x \in db.teams :
           db.role[v][x] # "owner" /\ d.role[v][x] = "owner" => ByInvite(v, x)
    BY <1>1, InvitedOwners, InvitesAreVouched
  <1>5. UNCHANGED load
    BY DEF FinishFirstFactorLogin
  <1>6. \/ db' = d /\ Return(c)
        \/ \E t \in MembershipsOf(d, f.user) :
              \/ /\ ~load.webauthn
                 /\ db' = CreateSession(d, f.user, t, "password", 0, f.hadKeys)
                 /\ Return(c)
              \/ /\ load.webauthn /\ ~UserHasPasskeys(f.user)
                 /\ db' = d
                 /\ Continue(c, [op |-> "setup", user |-> f.user, team |-> t, hadKeys |-> f.hadKeys])
              \/ db' = BeginUserLogin(d, f.user) /\ Return(c)
    BY DEF FinishFirstFactorLogin
  <1> HIDE DEF d, f
  <1>7. CASE db' = d /\ Return(c)
    BY <1>2, <1>4, <1>5, <1>7, EndsPlainly DEF OwnersStep, Return, Continue
  <1>8. ASSUME NEW t \in MembershipsOf(d, f.user), ~load.webauthn, Return(c),
               db' = CreateSession(d, f.user, t, "password", 0, f.hadKeys)
        PROVE  Facts' /\ OwnersStep
    <2>1. t \in Teams /\ d.held[f.user][t] # {} /\ d.user[f.user].exists
      BY <1>1, <1>2, <1>3 DEF MembershipsOf, Sound, Joined
    <2>2. 0 < d.next /\ \A ch \in d.challenges : ch.id # 0
      BY <1>2 DEF Sound, Once, Unused, Tables
    <2>3. Sound(db', load.webauthn) /\ Grows(d, db', 0, "password") /\ db'.role = d.role
      BY <1>1, <1>2, <1>8, <2>1, <2>2, SessionStatement
    <2>4. db' \in Tables /\ Grows(db, db', 0, "password")
      <3>1. db' \in Tables /\ Grows(db, d, 0, "password")
        BY <1>2, <2>3 DEF Sound
      <3> QED BY <1>1, <1>3, <2>3, <3>1, GrowsOn
    <2>5. Spared(c, 0, "password")
      BY Reading DEF Frame, Verifying, Unused, Spared
    <2> QED BY <1>4, <1>5, <1>8, <2>3, <2>4, <2>5, Ends DEF OwnersStep, Return, Continue
  <1>9. ASSUME NEW t \in MembershipsOf(d, f.user), load.webauthn, ~UserHasPasskeys(f.user), db' = d,
               Continue(c, [op |-> "setup", user |-> f.user, team |-> t, hadKeys |-> f.hadKeys])
        PROVE  Facts' /\ OwnersStep
    <2> DEFINE g == [op |-> "setup", user |-> f.user, team |-> t, hadKeys |-> f.hadKeys]
    <2>1. t \in Teams /\ d.held[f.user][t] # {} /\ d.user[f.user].exists
      BY <1>1, <1>2, <1>3 DEF MembershipsOf, Sound, Joined
    <2>2. f.hadKeys => f.user \in d.stripped
      BY <1>1, <1>3, <1>9 DEF UserHasPasskeys
    <2>3. Frame(d, load.webauthn, g) /\ Plain(g)
      BY <1>1, <2>1, <2>2 DEF Frame, Plain, Verifying, Exists
    <2>4. call' = [call EXCEPT ![c] = g] /\ db' = d
      BY <1>9 DEF Continue
    <2> HIDE DEF g
    <2> QED BY <1>2, <1>4, <1>5, <2>3, <2>4, HandledPlainly DEF OwnersStep
  <1>10. CASE db' = BeginUserLogin(d, f.user) /\ Return(c)
    <2>1. Sound(db', load.webauthn) /\ (\A n, b : Grows(d, db', n, b)) /\ db'.role = d.role
      BY <1>1, <1>2, <1>3, <1>10, ChallengeStatement DEF BeginUserLogin
    <2>2. db' \in Tables
      BY <2>1 DEF Sound
    <2>3. \A n, b : Grows(db, db', n, b)
      BY <1>1, <1>2, <1>3, <2>1, <2>2, GrowsOn
    <2> QED BY <1>4, <1>5, <1>10, <2>1, <2>3, EndsPlainly DEF OwnersStep, Return, Continue
  <1> QED BY <1>6, <1>7, <1>8, <1>9, <1>10

LEMMA AcceptInviteKeeps ==
    ASSUME Facts, NEW c \in Callers, NEW i \in db.invites, AcceptInvite(c, i)
    PROVE  Facts' /\ db'.role = db.role
  <1> DEFINE f == [op |-> "accept", invite |-> i]
  <1>1. Sound(db, load.webauthn) /\ i \in InviteRow /\ Vouched(db, i)
    BY Reading DEF Sound, Tables
  <1>2. CASE db' = DeleteInvite(db, i) /\ UNCHANGED call
    <2>1. db' \in Tables /\ RowsOnly(db, db') /\ UNCHANGED <<load, call>>
      BY <1>1, <1>2, TokensGone DEF AcceptInvite, DeleteInvite
    <2> QED BY <2>1, RowsAtOnce DEF RowsOnly, SameOrder
  <1>3. CASE Begin(c, f) /\ UNCHANGED db
    <2>1. Frame(db, load.webauthn, f) /\ Plain(f)
      BY <1>1 DEF Frame, Plain, Verifying
    <2>2. call' = [call EXCEPT ![c] = f] /\ UNCHANGED <<load, db>>
      BY <1>3 DEF AcceptInvite, Begin
    <2> HIDE DEF f
    <2> QED BY <2>1, <2>2, ReadsOnly
  <1> QED BY <1>2, <1>3 DEF AcceptInvite

LEMMA FinishAcceptInviteKeeps ==
    ASSUME Facts, NEW c \in Callers, FinishAcceptInvite(c)
    PROVE  Facts' /\ OwnersStep
  <1> DEFINE i == call[c].invite
             d1 == CreateUser(db, i.user)
             d2 == AddMembership(d1, i.user, i.team, i.role)
             d3 == SetUserEmailVerified(d2, i.user)
  <1>1. /\ Sound(db, load.webauthn) /\ db \in Tables /\ i \in InviteRow /\ Vouched(db, i)
        /\ i.user \in Users /\ i.role \in Roles /\ i.team \in db.teams
    BY Reading DEF FinishAcceptInvite, Frame, Verifying, Vouched, InviteRow
  <1>2. db' = DeleteInvite(d3, i) /\ call' = [call EXCEPT ![c] = Idle] /\ UNCHANGED load
    BY DEF FinishAcceptInvite, Return, Continue
  <1>3. ByInvite(i.user, i.team) \/ i.role # "owner"
    BY <1>1 DEF ByInvite, Vouched, FinishAcceptInvite
  <1> HIDE DEF i
  <1>4. /\ Sound(d1, load.webauthn) /\ \A n, b : Grows(db, d1, n, b)
        /\ d1.user[i.user].exists /\ d1.role = db.role /\ d1.teams = db.teams
    BY <1>1, CreateUserStatement DEF AccountsOnly, SameOrder
  <1> HIDE DEF d1
  <1>5. Sound(d2, load.webauthn) /\ \A n, b : Grows(d1, d2, n, b)
    BY <1>1, <1>4, MembershipStatement
  <1>6. d1 \in Tables /\ d2 \in Tables
    BY <1>4, <1>5 DEF Sound
  <1>7. \A v \in Users, x \in Teams :
           \/ d2.role[v][x] = d1.role[v][x]
           \/ v = i.user /\ x = i.team /\ d2.role[v][x] = i.role
    BY <1>1, <1>6, MembershipRoles DEF InviteRow
  <1> HIDE DEF d2
  <1>8. Sound(d3, load.webauthn) /\ (\A n, b : Grows(d2, d3, n, b)) /\ d3.role = d2.role
    BY <1>1, <1>5, VerifiedStatement DEF AccountsOnly, SameOrder
  <1> HIDE DEF d3
  <1>9. db' \in Tables /\ RowsOnly(d3, db') /\ db'.role = d3.role /\ d3 \in Tables
    <2>1. db' = [d3 EXCEPT !.invites = @ \ {i}]
      BY <1>2 DEF DeleteInvite
    <2>2. db' \in Tables /\ RowsOnly(d3, db')
      BY <1>8, <2>1, TokensGone
    <2>3. d3 \in Tables
      BY <1>8 DEF Sound
    <2>4. db'.role = d3.role
      BY <2>1, <2>3 DEF Tables
    <2> QED BY <2>2, <2>3, <2>4
  <1>10. Sound(db', load.webauthn) /\ \A n, b : Grows(d3, db', n, b)
    BY <1>8, <1>9, RowsStatement
  <1>11. \A n, b : Grows(db, d2, n, b)
    BY <1>1, <1>4, <1>5, <1>6, GrowsOn
  <1>12. \A n, b : Grows(db, d3, n, b)
    BY <1>1, <1>6, <1>8, <1>9, <1>11, GrowsOn
  <1>13. \A n, b : Grows(db, db', n, b)
    BY <1>1, <1>9, <1>10, <1>12, GrowsOn
  <1>14. Facts'
    BY <1>2, <1>10, <1>13, EndsPlainly
  <1>15. OwnersStep
    <2>1. SUFFICES ASSUME NEW u \in Users, NEW t \in db.teams, db.role[u][t] # "owner",
                          db'.role[u][t] = "owner"
                   PROVE  ByInvite(u, t)
      BY DEF OwnersStep
    <2>2. t \in Teams
      BY <1>1 DEF Tables
    <2> QED BY <1>3, <1>4, <1>7, <1>8, <1>9, <2>1, <2>2
  <1> QED BY <1>14, <1>15

LEMMA FinishRemoveTeamMemberKeeps ==
    ASSUME Facts, NEW c \in Callers, FinishRemoveTeamMember(c)
    PROVE  Facts' /\ OwnersStep
  <1> DEFINE u == call[c].user
             t == call[c].team
  <1>1. Sound(db, load.webauthn) /\ db \in Tables /\ u \in Users /\ t \in Teams
    BY Reading DEF FinishRemoveTeamMember, Frame, Verifying
  <1>2. db' = DeleteMembership(db, u, t) /\ call' = [call EXCEPT ![c] = Idle] /\ UNCHANGED load
    BY DEF FinishRemoveTeamMember, Return, Continue
  <1> HIDE DEF u, t
  <1>3. Sound(db', load.webauthn) /\ \A n, b : Grows(db, db', n, b)
    BY <1>1, <1>2, DeleteMembershipStatement
  <1>4. \A v \in Users, x \in Teams : db'.role[v][x] \in {db.role[v][x], "none"}
    BY <1>1, <1>2 DEF DeleteMembership, Tables
  <1>5. db.teams \subseteq Teams
    BY <1>1 DEF Tables
  <1>6. OwnersStep
    BY <1>4, <1>5 DEF OwnersStep
  <1> QED BY <1>2, <1>3, <1>6, EndsPlainly

LEMMA FinishChangeMemberRoleKeeps ==
    ASSUME Facts, NEW c \in Callers, FinishChangeMemberRole(c)
    PROVE  Facts' /\ OwnersStep
  <1> DEFINE f == call[c]
  <1>1. /\ Sound(db, load.webauthn) /\ db \in Tables
        /\ f.user \in Users /\ f.team \in Teams /\ f.role \in Roles
        /\ f.op = "role" /\ "owner" \in db.held[f.by][f.team]
    BY Reading DEF FinishChangeMemberRole, Frame, Verifying
  <1>2. /\ db' = UpdateMemberRole(db, f.user, f.team, f.role)
        /\ call' = [call EXCEPT ![c] = Idle] /\ UNCHANGED load
    BY DEF FinishChangeMemberRole, Return, Continue
  <1>3. ByChange(f.team)
    BY <1>1 DEF ByChange
  <1> HIDE DEF f
  <1>4. Sound(db', load.webauthn) /\ \A n, b : Grows(db, db', n, b)
    BY <1>1, <1>2, UpdateRoleStatement
  <1>5. \A v \in Users, x \in Teams : db'.role[v][x] = db.role[v][x] \/ x = f.team
    BY <1>1, <1>2 DEF UpdateMemberRole, WithRole, Tables
  <1>6. OwnersStep
    BY <1>1, <1>3, <1>5 DEF OwnersStep, Tables
  <1> QED BY <1>2, <1>4, <1>6, EndsPlainly

LEMMA SameRoles ==
    ASSUME db'.role = db.role
    PROVE  OwnersStep
  BY DEF OwnersStep

LEMMA SameTables ==
    ASSUME UNCHANGED db
    PROVE  OwnersStep
  BY DEF OwnersStep

\* Every step keeps the facts, and makes owners only on an owner's word.
LEMMA NextKeeps ==
    ASSUME Facts, Next
    PROVE  Facts' /\ OwnersStep
  <1>0. load.users \subseteq Users
    BY Reading
  <1>1. ASSUME NEW c \in Callers, NEW u \in load.users, NEW t \in Teams \cup {NoTeam}, Signup(c, u, t)
        PROVE  Facts' /\ OwnersStep
    BY <1>0, <1>1, SignupKeeps, SameTables DEF Signup
  <1>2. ASSUME NEW c \in Callers, NEW u \in load.users, Login(c, u)
        PROVE  Facts' /\ OwnersStep
    BY <1>0, <1>2, LoginKeeps, SameTables DEF Login
  <1>3. ASSUME NEW u \in load.users, ResendVerification(u)
        PROVE  Facts' /\ OwnersStep
    <2>1. db'.role = db.role
      BY <1>3, Reading DEF ResendVerification, CreateEmailVerification, Tables
    <2> QED BY <1>0, <1>3, <2>1, ResendVerificationKeeps, SameRoles
  <1>4. ASSUME NEW u \in load.users, ForgotPassword(u)
        PROVE  Facts' /\ OwnersStep
    BY <1>0, <1>4, ForgotPasswordKeeps, SameRoles
  <1>5. ASSUME NEW c \in Callers, NEW code \in db.codes, VerifyEmail(c, code)
        PROVE  Facts' /\ OwnersStep
    BY <1>5, VerifyEmailKeeps, SameTables DEF VerifyEmail
  <1>6. ASSUME NEW c \in Callers, NEW ch \in db.challenges, LoginPasskey(c, ch)
        PROVE  Facts' /\ OwnersStep
    BY <1>6, LoginPasskeyKeeps, SameRoles
  <1>7. ASSUME NEW c \in Callers, NEW r \in db.resets, ResetPassword(c, r)
        PROVE  Facts' /\ OwnersStep
    BY <1>7, ResetPasswordKeeps, SameTables DEF ResetPassword
  <1>8. ASSUME NEW c \in Callers, NEW i \in db.invites, AcceptInvite(c, i)
        PROVE  Facts' /\ OwnersStep
    BY <1>8, AcceptInviteKeeps, SameRoles
  <1>9. ASSUME NEW c \in Callers,
               \/ FinishSignup(c) \/ FinishFirstFactorLogin(c) \/ FinishAcceptInvite(c)
               \/ FinishRemoveTeamMember(c) \/ FinishChangeMemberRole(c)
        PROVE  Facts' /\ OwnersStep
    BY <1>9, FinishSignupKeeps, FinishFirstFactorLoginKeeps, FinishAcceptInviteKeeps,
       FinishRemoveTeamMemberKeeps, FinishChangeMemberRoleKeeps
  <1>10. ASSUME NEW c \in Callers,
                \/ ConsumeCode(c) \/ FinishVerifyEmail(c) \/ OpenSetupSession(c) \/ FinishLoginPasskey(c)
                \/ ConsumeReset(c) \/ FinishResetPassword(c) \/ FinishDeletePasskey(c)
                \/ FinishResetPasskeys(c) \/ FinishSwitchTeam(c)
         PROVE  Facts' /\ OwnersStep
    BY <1>10, ConsumeCodeKeeps, FinishVerifyEmailKeeps, OpenSetupSessionKeeps, FinishLoginPasskeyKeeps,
       ConsumeResetKeeps, FinishResetPasswordKeeps, FinishDeletePasskeyKeeps, FinishResetPasskeysKeeps,
       FinishSwitchTeamKeeps, SameRoles
  <1>11. ASSUME NEW c \in Callers, Crash(c)
         PROVE  Facts' /\ OwnersStep
    BY <1>11, CrashKeeps, SameTables DEF Crash
  <1>12. ASSUME NEW s \in db.sessions, Logout(s) \/ SetupPasskeyBegin(s) \/ RegisterBegin(s)
         PROVE  Facts' /\ OwnersStep
    BY <1>12, LogoutKeeps, BeginUserRegistrationKeeps, SameRoles DEF SetupPasskeyBegin, RegisterBegin
  <1>13. ASSUME NEW s \in db.sessions, NEW k \in Keys, SetupPasskeyFinish(s, k) \/ RegisterFinish(s, k)
         PROVE  Facts' /\ OwnersStep
    BY <1>13, SetupPasskeyFinishKeeps, RegisterFinishKeeps, SameRoles
  <1>14. ASSUME NEW s \in db.sessions, NEW c \in Callers, NEW k, DeletePasskey(c, s, k)
         PROVE  Facts' /\ OwnersStep
    BY <1>14, DeletePasskeyKeeps, SameTables DEF DeletePasskey
  <1>15. ASSUME NEW s \in db.sessions, NEW u \in load.users, ResetPasskeysBegin(s, u)
         PROVE  Facts' /\ OwnersStep
    BY <1>0, <1>15, ResetPasskeysBeginKeeps, SameRoles
  <1>16. ASSUME NEW s \in db.sessions, NEW u \in load.users, NEW c \in Callers, ResetPasskeys(c, s, u)
         PROVE  Facts' /\ OwnersStep
    BY <1>0, <1>16, ResetPasskeysKeeps, SameRoles
  <1>17. ASSUME NEW s \in db.sessions, NEW u \in load.users, NEW c \in Callers, RemoveTeamMember(c, s, u)
         PROVE  Facts' /\ OwnersStep
    BY <1>0, <1>17, RemoveTeamMemberKeeps, SameTables DEF RemoveTeamMember
  <1>18. ASSUME NEW s \in db.sessions, NEW u \in load.users, NEW r \in Roles, InviteTeamMember(s, u, r)
         PROVE  Facts' /\ OwnersStep
    BY <1>0, <1>18, InviteTeamMemberKeeps, SameRoles
  <1>19. ASSUME NEW s \in db.sessions, NEW u \in load.users, NEW r \in Roles, NEW c \in Callers,
                ChangeMemberRole(c, s, u, r)
         PROVE  Facts' /\ OwnersStep
    BY <1>0, <1>19, ChangeMemberRoleKeeps, SameTables DEF ChangeMemberRole
  <1>20. ASSUME NEW s \in db.sessions, NEW i \in db.invites, CancelInvite(s, i)
         PROVE  Facts' /\ OwnersStep
    BY <1>20, CancelInviteKeeps, SameRoles
  <1>21. ASSUME NEW s \in db.sessions, NEW t \in Teams, NEW c \in Callers, SwitchTeam(c, s, t)
         PROVE  Facts' /\ OwnersStep
    BY <1>21, SwitchTeamKeeps, SameTables DEF SwitchTeam
  <1>22. CASE Expire
    BY <1>22, ExpireKeeps, SameRoles
  <1> QED BY <1>1, <1>2, <1>3, <1>4, <1>5, <1>6, <1>7, <1>8, <1>9, <1>10, <1>11, <1>12, <1>13, <1>14,
             <1>15, <1>16, <1>17, <1>18, <1>19, <1>20, <1>21, <1>22 DEF Next

-----------------------------------------------------------------------------
(* The start                                                               *)

LEMMA StartIsSound ==
    ASSUME NEW r \in Roles \cup {"none"}, NEW owns \in SUBSET (Teams \ {FirstTeam}),
           NEW keys \in SUBSET Keys, NEW others \in SUBSET Keys, NEW webauthn, r = "none" => owns = {}
    PROVE  Sound(InitDb(r, owns, keys, others), webauthn)
  <1> DEFINE start(u, t) == CASE u = Founder /\ t = FirstTeam -> "owner"
                              [] u = Other /\ t = FirstTeam -> r
                              [] u = Other /\ t \in owns -> "owner"
                              [] OTHER -> "none"
             isOther == r # "none"
             teams == {FirstTeam} \cup owns
             user == [u \in Users |-> IF u = Founder THEN Account(keys)
                                      ELSE IF u = Other /\ isOther THEN Account(others)
                                      ELSE [exists |-> FALSE, verified |-> FALSE, password |-> 0, keys |-> {}]]
             role == [u \in Users |-> [t \in Teams |-> start(u, t)]]
             held == [u \in Users |-> [t \in Teams |-> {start(u, t)} \ {"none"}]]
             sessions == {SignedIn(Founder, FirstTeam, 0)}
                            \cup (IF isOther THEN {SignedIn(Other, FirstTeam, 1)} ELSE {})
             wiped == [u \in Users |-> 0]
             d == InitDb(r, owns, keys, others)
  <1>1. /\ Founder \in Users /\ Other \in Users /\ Other # Founder /\ FirstTeam \in Teams
        /\ teams \subseteq Teams
    BY FirstAssumption
  <1>2. \A u \in Users, t \in Teams : start(u, t) \in Roles \cup {"none"}
    BY DEF Roles
  <1>3. \A u \in Users, t \in Teams :
           start(u, t) # "none" => (u = Founder \/ (u = Other /\ isOther)) /\ t \in teams
    OBVIOUS
  <1>4. start(Founder, FirstTeam) # "none" /\ (isOther => start(Other, FirstTeam) # "none")
    BY <1>1
  <1>5. user \in [Users -> AccountRow]
    BY DEF AccountRow, Account
  <1>6. /\ user[Founder].exists /\ (isOther => user[Other].exists)
        /\ \A u \in Users : user[u].exists \/ user[u].keys = {}
    BY <1>1 DEF Account
  <1> HIDE DEF start
  <1>7. /\ role \in [Users -> [Teams -> Roles \cup {"none"}]]
        /\ \A u \in Users, t \in Teams : role[u][t] = start(u, t)
    BY <1>2
  <1>8. /\ held \in [Users -> [Teams -> SUBSET Roles]]
        /\ \A u \in Users, t \in Teams : held[u][t] = {start(u, t)} \ {"none"}
    <2>1. \A u \in Users, t \in Teams : {start(u, t)} \ {"none"} \in SUBSET Roles
      BY <1>2
    <2> QED BY <2>1
  <1>9. /\ wiped \in [Users -> Nat] /\ \A u \in Users : wiped[u] = 0
        /\ sessions \in SUBSET SessionRow
        /\ \A s \in sessions :
              /\ (s.user = Founder /\ s.id = 0) \/ (s.user = Other /\ s.id = 1 /\ isOther)
              /\ s.team = FirstTeam /\ s.by = "passkey" /\ s.from = 0 /\ s.after = 0
    <2> HIDE DEF isOther
    <2>1. /\ SignedIn(Founder, FirstTeam, 0) \in SessionRow
          /\ SignedIn(Other, FirstTeam, 1) \in SessionRow
      BY <1>1 DEF SignedIn, SessionRow
    <2>2. sessions \subseteq SessionRow
      BY <2>1
    <2>3. ASSUME NEW s \in sessions
          PROVE  /\ (s.user = Founder /\ s.id = 0) \/ (s.user = Other /\ s.id = 1 /\ isOther)
                 /\ s.team = FirstTeam /\ s.by = "passkey" /\ s.from = 0 /\ s.after = 0
      <3>1. s = SignedIn(Founder, FirstTeam, 0) \/ (isOther /\ s = SignedIn(Other, FirstTeam, 1))
        OBVIOUS
      <3>2. CASE s = SignedIn(Founder, FirstTeam, 0)
        BY <3>2 DEF SignedIn
      <3>3. CASE isOther /\ s = SignedIn(Other, FirstTeam, 1)
        BY <3>3 DEF SignedIn
      <3> QED BY <3>1, <3>2, <3>3
    <2> QED BY <2>2, <2>3
  <1>10. d = [teams |-> teams, user |-> user, role |-> role, held |-> held,
              invites |-> {}, codes |-> {}, resets |-> {}, challenges |-> {}, enrolling |-> {},
              stepups |-> {}, sessions |-> sessions, stripped |-> {}, wiped |-> wiped, next |-> 2]
    BY DEF InitDb, start
  <1> HIDE DEF teams, user, role, held, sessions, wiped, d, isOther
  <1>11. d \in Tables
    BY <1>1, <1>5, <1>7, <1>8, <1>9, <1>10 DEF Tables
  <1>12. /\ d.teams = teams /\ d.user = user /\ d.role = role /\ d.held = held /\ d.wiped = wiped
         /\ d.sessions = sessions /\ d.next = 2 /\ d.invites = {} /\ d.codes = {} /\ d.resets = {}
         /\ d.challenges = {} /\ d.enrolling = {}
    BY <1>10
  <1>13. Owned(d) /\ Keyless(d)
    BY <1>6, <1>9, <1>12 DEF Owned, Keyless
  <1>14. Joined(d)
    BY <1>3, <1>6, <1>7, <1>8, <1>12 DEF Joined
  <1>15. Sessions(d, webauthn)
    <2>1. \A s \in sessions : held[s.user][s.team] # {}
      <3>1. held[Founder][FirstTeam] # {} /\ (isOther => held[Other][FirstTeam] # {})
        <4>1. start(Founder, FirstTeam) \in held[Founder][FirstTeam]
          BY <1>1, <1>4, <1>8
        <4>2. isOther => start(Other, FirstTeam) \in held[Other][FirstTeam]
          BY <1>1, <1>4, <1>8
        <4> QED BY <4>1, <4>2
      <3> QED BY <1>9, <3>1
    <2>2. \A s \in sessions : s.id < 2 /\ s.from < 2 /\ s.by = "passkey" /\ wiped[s.user] = s.after
      BY <1>1, <1>9
    <2>3. \A s, x \in sessions : s.id = x.id => s.user = x.user
      BY <1>9
    <2> QED BY <1>12, <2>1, <2>2, <2>3 DEF Sessions, Opened
  <1>16. Once(d)
    BY <1>9, <1>12 DEF Once
  <1>17. Sound(d, webauthn)
    BY <1>11, <1>12, <1>13, <1>14, <1>15, <1>16 DEF Sound
  <1> QED BY <1>17 DEF d

LEMMA InitFacts ==
    ASSUME Init
    PROVE  Facts /\ Passwords
  <1>1. PICK r \in load.roles : db = InitDb(r, load.owns, load.keys[1], load.keys[2])
    BY DEF Init
  <1>2. /\ load \in Loads /\ r \in Roles \cup {"none"} /\ load.owns \in SUBSET (Teams \ {FirstTeam})
        /\ load.keys[1] \in SUBSET Keys /\ load.keys[2] \in SUBSET Keys /\ (r = "none" => load.owns = {})
    BY <1>1, LoadAssumption DEF Init
  <1>3. Sound(db, load.webauthn)
    BY <1>1, <1>2, StartIsSound
  <1>4. DOMAIN call = Callers /\ \A c \in Callers : call[c] = Idle
    BY DEF Init
  <1>5. Facts
    BY <1>2, <1>3, <1>4, IdleFrame DEF Facts, Apart, Idle
  <1>6. \A u \in Users : db.user[u].password \in {0, 1}
    BY <1>1 DEF InitDb, Account
  <1>7. \A u \in Users : Cardinality(Resetting(u)) = 0
    <2>1. \A u \in Users : Resetting(u) = {}
      BY <1>4 DEF Resetting, Idle
    <2> QED BY <2>1, FS_EmptySet
  <1>8. Cardinality(Callers) \in Nat /\ MaxPasswords \in Nat \ {0}
    BY BoundAssumption, FS_CardinalityType
  <1> QED BY <1>5, <1>6, <1>7, <1>8 DEF Passwords

-----------------------------------------------------------------------------
(* Passwords                                                               *)

SamePasswords == \A u \in Users : db'.user[u].password = db.user[u].password

(* No reset is added to those under way.                                   *)
NoReset == \A u \in Users : Resetting(u)' \subseteq Resetting(u)

\* How many resets of a person there are.
LEMMA ResettingIsFinite ==
    ASSUME NEW u
    PROVE  /\ IsFiniteSet(Resetting(u)) /\ Cardinality(Resetting(u)) \in Nat
           /\ Cardinality(Callers) \in Nat /\ Cardinality(Resetting(u)) <= Cardinality(Callers)
  <1>1. Resetting(u) \subseteq Callers
    BY DEF Resetting
  <1> QED BY <1>1, BoundAssumption, FS_Subset, FS_CardinalityType

\* The same, of the next state.
LEMMA ResettingIsFiniteNext ==
    ASSUME NEW u
    PROVE  IsFiniteSet(Resetting(u)') /\ Cardinality(Resetting(u)') \in Nat
  <1>1. Resetting(u)' \subseteq Callers
    BY DEF Resetting
  <1> QED BY <1>1, BoundAssumption, FS_Subset, FS_CardinalityType

LEMMA PasswordsKept ==
    ASSUME Facts, Facts', Passwords, SamePasswords, NoReset
    PROVE  Passwords'
  <1>1. SUFFICES ASSUME NEW u \in Users
                 PROVE  db'.user[u].password + Cardinality(Resetting(u)') <= MaxPasswords + Cardinality(Callers)
    BY DEF Passwords
  <1>2. db.user[u].password + Cardinality(Resetting(u)) <= MaxPasswords + Cardinality(Callers)
    BY DEF Passwords
  <1>3. /\ Cardinality(Resetting(u)) \in Nat /\ Cardinality(Resetting(u)') \in Nat
        /\ Cardinality(Callers) \in Nat /\ IsFiniteSet(Resetting(u))
    BY ResettingIsFinite, ResettingIsFiniteNext
  <1>4. Cardinality(Resetting(u)') <= Cardinality(Resetting(u))
    BY <1>3, FS_Subset DEF NoReset
  <1>5. db.user[u].password \in Nat /\ db'.user[u].password = db.user[u].password
    BY Reading, ReadUser DEF SamePasswords
  <1>6. MaxPasswords \in Nat
    BY BoundAssumption
  <1> QED BY <1>2, <1>3, <1>4, <1>5, <1>6

LEMMA NoResetBegun ==
    ASSUME Facts, NEW c \in Callers, NEW f, call' = [call EXCEPT ![c] = f],
           \/ f.op \notin {"reset", "newPassword"}
           \/ f.op = "newPassword" /\ call[c].op = "reset" /\ f.user = call[c].token.user
    PROVE  NoReset
  <1>1. call'[c] = f /\ \A x \in Callers \ {c} : call'[x] = call[x]
    BY DEF Facts
  <1> QED BY <1>1 DEF NoReset, Resetting

LEMMA NobodyCalls ==
    ASSUME UNCHANGED call
    PROVE  NoReset
  BY DEF NoReset, Resetting

\* A reset begins below the bound of the model.
LEMMA ResetPasswordBound ==
    ASSUME Facts, Facts', Passwords, NEW c \in Callers, NEW r \in db.resets, ResetPassword(c, r)
    PROVE  Passwords'
  <1>1. SUFFICES ASSUME NEW u \in Users
                 PROVE  db'.user[u].password + Cardinality(Resetting(u)') <= MaxPasswords + Cardinality(Callers)
    BY DEF Passwords
  <1>2. /\ UNCHANGED db /\ call' = [call EXCEPT ![c] = [op |-> "reset", token |-> r]]
        /\ db.user[r.user].password < MaxPasswords
    BY DEF ResetPassword, Begin
  <1>3. /\ Cardinality(Resetting(u)') \in Nat /\ Cardinality(Callers) \in Nat /\ MaxPasswords \in Nat
        /\ Cardinality(Resetting(u)) \in Nat /\ IsFiniteSet(Resetting(u))
    BY ResettingIsFinite, ResettingIsFiniteNext, BoundAssumption
  <1>4. db.user[u].password \in Nat
    BY Reading, ReadUser
  <1>5. CASE u = r.user
    <2>1. Resetting(u)' \subseteq Callers
      BY DEF Resetting
    <2>2. Cardinality(Resetting(u)') <= Cardinality(Callers)
      BY <2>1, BoundAssumption, FS_Subset
    <2> QED BY <1>2, <1>3, <1>4, <1>5, <2>2
  <1>6. CASE u # r.user
    <2>1. call'[c] = [op |-> "reset", token |-> r] /\ \A x \in Callers \ {c} : call'[x] = call[x]
      BY <1>2 DEF Facts
    <2>2. Resetting(u)' \subseteq Resetting(u)
      BY <1>6, <2>1 DEF Resetting
    <2>3. Cardinality(Resetting(u)') <= Cardinality(Resetting(u))
      BY <1>3, <2>2, FS_Subset
    <2>4. db.user[u].password + Cardinality(Resetting(u)) <= MaxPasswords + Cardinality(Callers)
      BY DEF Passwords
    <2> QED BY <1>2, <1>3, <1>4, <2>3, <2>4
  <1> QED BY <1>5, <1>6

\* The new password is of a reset that was under way.
LEMMA FinishResetPasswordBound ==
    ASSUME Facts, Facts', Passwords, NEW c \in Callers, FinishResetPassword(c)
    PROVE  Passwords'
  <1>1. SUFFICES ASSUME NEW u \in Users
                 PROVE  db'.user[u].password + Cardinality(Resetting(u)') <= MaxPasswords + Cardinality(Callers)
    BY DEF Passwords
  <1>2. /\ db' = UpdateUserPassword(db, call[c].user) /\ call' = [call EXCEPT ![c] = Idle]
        /\ call[c].op = "newPassword"
    BY DEF FinishResetPassword, Return, Continue
  <1>3. /\ Cardinality(Resetting(u)') \in Nat /\ Cardinality(Callers) \in Nat /\ MaxPasswords \in Nat
        /\ Cardinality(Resetting(u)) \in Nat /\ IsFiniteSet(Resetting(u)) /\ IsFiniteSet(Resetting(u)')
    BY ResettingIsFinite, ResettingIsFiniteNext, BoundAssumption
  <1>4. db.user[u].password \in Nat /\ db \in Tables
    BY Reading, ReadUser
  <1>5. db.user[u].password + Cardinality(Resetting(u)) <= MaxPasswords + Cardinality(Callers)
    BY DEF Passwords
  <1>6. call'[c] = Idle /\ \A x \in Callers \ {c} : call'[x] = call[x]
    BY <1>2 DEF Facts
  <1>7. Resetting(u)' \subseteq Resetting(u)
    BY <1>6 DEF Resetting, Idle
  <1>8. CASE u = call[c].user
    <2>1. db'.user[u].password = db.user[u].password + 1
      BY <1>2, <1>4, <1>8 DEF UpdateUserPassword, Tables
    <2>2. Resetting(u)' # Resetting(u)
      <3>1. c \in Resetting(u) /\ c \notin Resetting(u)'
        BY <1>2, <1>6, <1>8 DEF Resetting, Idle
      <3> QED BY <3>1
    <2>3. Cardinality(Resetting(u)') < Cardinality(Resetting(u))
      BY <1>3, <1>7, <2>2, FS_Subset
    <2> QED BY <1>3, <1>4, <1>5, <2>1, <2>3
  <1>9. CASE u # call[c].user
    <2>1. db'.user[u].password = db.user[u].password
      BY <1>2, <1>4, <1>9 DEF UpdateUserPassword, Tables
    <2>2. Cardinality(Resetting(u)') <= Cardinality(Resetting(u))
      BY <1>3, <1>7, FS_Subset
    <2> QED BY <1>3, <1>4, <1>5, <2>1, <2>2
  <1> QED BY <1>8, <1>9

\* A new account has one password, and no reset.
LEMMA AccountBound ==
    ASSUME Facts, Facts', Passwords, NoReset,
           \A u \in Users : \/ db'.user[u].password = db.user[u].password
                            \/ ~db.user[u].exists /\ db'.user[u].password = 1
    PROVE  Passwords'
  <1>1. SUFFICES ASSUME NEW u \in Users
                 PROVE  db'.user[u].password + Cardinality(Resetting(u)') <= MaxPasswords + Cardinality(Callers)
    BY DEF Passwords
  <1>2. /\ Cardinality(Resetting(u)') \in Nat /\ Cardinality(Callers) \in Nat /\ MaxPasswords \in Nat \ {0}
        /\ Cardinality(Resetting(u)) \in Nat /\ IsFiniteSet(Resetting(u))
    BY ResettingIsFinite, ResettingIsFiniteNext, BoundAssumption
  <1>3. Cardinality(Resetting(u)') <= Cardinality(Resetting(u))
    BY <1>2, FS_Subset DEF NoReset
  <1>4. db.user[u].password + Cardinality(Resetting(u)) <= MaxPasswords + Cardinality(Callers)
    BY DEF Passwords
  <1>5. CASE db'.user[u].password = db.user[u].password
    BY <1>2, <1>3, <1>4, <1>5, Reading, ReadUser
  <1>6. CASE ~db.user[u].exists /\ db'.user[u].password = 1
    <2>1. \A c \in Callers : c \notin Resetting(u)
      BY <1>6, Reading DEF Resetting, Frame, Verifying, Exists
    <2>2. Resetting(u) = {}
      BY <2>1 DEF Resetting
    <2>3. Cardinality(Resetting(u)) = 0
      BY <2>2, FS_EmptySet
    <2> QED BY <1>2, <1>3, <1>6, <2>3
  <1> QED BY <1>5, <1>6

\* Statements that write no account.
LEMMA NoAccountWritten ==
    ASSUME NEW d \in Tables
    PROVE  /\ \A u : CreateEmailVerification(d, u).user = d.user /\ CreatePasswordReset(d, u).user = d.user
           /\ \A u : SetLoginChallenge(d, u).user = d.user /\ SetRegistrationChallenge(d, u).user = d.user
           /\ \A r : ConsumePasswordReset(d, r).user = d.user
           /\ \A s : DeleteSession(d, s).user = d.user
           /\ \A u, t, r, by : CreateInvite(d, u, t, r, by).user = d.user
           /\ \A i : DeleteInvite(d, i).user = d.user
           /\ \A ch : TakeLoginChallenge(d, ch).user = d.user
           /\ \A u, t, by, from, h : CreateSession(d, u, t, by, from, h).user = d.user
           /\ \A s, t : UpdateSessionTeam(d, s, t).user = d.user
           /\ \A u, t : DeleteMembership(d, u, t).user = d.user
           /\ \A u, t, r : AddMembership(d, u, t, r).user = d.user /\ UpdateMemberRole(d, u, t, r).user = d.user
  <1>1. /\ \A u : CreateEmailVerification(d, u).user = d.user /\ CreatePasswordReset(d, u).user = d.user
        /\ \A u : SetLoginChallenge(d, u).user = d.user /\ SetRegistrationChallenge(d, u).user = d.user
    BY DEF Tables, CreateEmailVerification, CreatePasswordReset, SetLoginChallenge, SetRegistrationChallenge
  <1>2. /\ \A r : ConsumePasswordReset(d, r).user = d.user
        /\ \A s : DeleteSession(d, s).user = d.user
        /\ \A u, t, r, by : CreateInvite(d, u, t, r, by).user = d.user
        /\ \A i : DeleteInvite(d, i).user = d.user
        /\ \A ch : TakeLoginChallenge(d, ch).user = d.user
    BY DEF Tables, ConsumePasswordReset, DeleteSession, CreateInvite, DeleteInvite, TakeLoginChallenge
  <1>3. /\ \A u, t, by, from, h : CreateSession(d, u, t, by, from, h).user = d.user
        /\ \A s, t : UpdateSessionTeam(d, s, t).user = d.user
        /\ \A u, t : DeleteMembership(d, u, t).user = d.user
    BY DEF Tables, CreateSession, UpdateSessionTeam, DeleteMembership
  <1>4. \A u, t, r : AddMembership(d, u, t, r).user = d.user /\ UpdateMemberRole(d, u, t, r).user = d.user
    BY DEF Tables, AddMembership, UpdateMemberRole, WithRole
  <1> QED BY <1>1, <1>2, <1>3, <1>4

\* Statements that write an account and leave the password, or give it its first.
LEMMA AccountWritten ==
    ASSUME NEW d \in Tables, NEW u \in Users
    PROVE  /\ \A v \in Users : SetUserEmailVerified(d, u).user[v].password = d.user[v].password
           /\ \A v \in Users : \A k : FinishUserRegistration(d, u, k).user[v].password = d.user[v].password
           /\ \A v \in Users : \A ks : DeleteUserPasskeys(d, u, ks).user[v].password = d.user[v].password
           /\ \A v \in Users : \/ CreateUser(d, u).user[v].password = d.user[v].password
                               \/ ~d.user[v].exists /\ CreateUser(d, u).user[v].password = 1
  <1>1. d.user \in [Users -> AccountRow]
    BY DEF Tables
  <1>2. \A v \in Users : SetUserEmailVerified(d, u).user[v].password = d.user[v].password
    BY <1>1 DEF SetUserEmailVerified, Tables, AccountRow
  <1>3. \A v \in Users : \A k : FinishUserRegistration(d, u, k).user[v].password = d.user[v].password
    BY <1>1 DEF FinishUserRegistration, SaveUserPasskey, TakeRegistrationChallenge, Tables, AccountRow
  <1>4. \A v \in Users : \A ks : DeleteUserPasskeys(d, u, ks).user[v].password = d.user[v].password
    BY <1>1 DEF DeleteUserPasskeys, Tables, AccountRow
  <1>5. \A v \in Users : \/ CreateUser(d, u).user[v].password = d.user[v].password
                         \/ ~d.user[v].exists /\ CreateUser(d, u).user[v].password = 1
    BY <1>1 DEF CreateUser, Tables
  <1> QED BY <1>2, <1>3, <1>4, <1>5

\* The handlers that create accounts.
LEMMA SignupPasswords ==
    ASSUME Facts, NEW c \in Callers, FinishSignup(c), NEW v \in Users
    PROVE  \/ db'.user[v].password = db.user[v].password
           \/ ~db.user[v].exists /\ db'.user[v].password = 1
  <1> DEFINE u == call[c].user
             t == call[c].team
             d == CreateUser(db, u)
             d2 == [d EXCEPT !.teams = @ \cup {t}]
             own == IF t = NoTeam THEN d ELSE AddMembership(d2, u, t, "owner")
             joined == ConsumePendingInvites(own, u)
  <1>1. Sound(db, load.webauthn) /\ db \in Tables /\ u \in Users /\ t \in Teams \cup {NoTeam}
    BY Reading DEF FinishSignup, Frame, Verifying
  <1>2. \/ UNCHANGED db
        \/ t \notin db.teams /\ db' = joined
        \/ t \notin db.teams /\ db' = CreateEmailVerification(joined, u)
    BY DEF FinishSignup
  <1>3. \/ d.user[v].password = db.user[v].password
        \/ ~db.user[v].exists /\ d.user[v].password = 1
    BY <1>1, AccountWritten
  <1>4. CASE t \notin db.teams /\ ~UNCHANGED db
    <2>1. Sound(d, load.webauthn) /\ d \in Tables
      BY <1>1, CreateUserStatement DEF Sound
    <2>2. t # NoTeam => own \in Tables
      <3>1. SUFFICES ASSUME t # NoTeam PROVE own \in Tables
        OBVIOUS
      <3>2. t \in Teams /\ t \notin db.teams
        BY <1>1, <1>4, <3>1
      <3>3. own = AddMembership([CreateUser(db, u) EXCEPT !.teams = @ \cup {t}], u, t, "owner")
        BY <3>1
      <3> HIDE DEF own, u, t
      <3> QED BY <1>1, <3>2, <3>3, OwnTeam DEF Sound
    <2>3. own \in Tables
      BY <2>1, <2>2
    <2>4. t # NoTeam => d2 \in Tables /\ d2.user = d.user
      <3> HIDE DEF d, u, t
      <3> QED BY <1>1, <2>1 DEF Tables
    <2>5. own.user = d.user
      <3> HIDE DEF d, d2, u, t
      <3> QED BY <2>4, NoAccountWritten
    <2> HIDE DEF own, d, u, t
    <2>6. joined \in Tables /\ joined.user = own.user
      BY <1>1, <2>3, ConsumeInvites
    <2> HIDE DEF joined
    <2>7. db'.user = joined.user
      BY <1>2, <1>4, <2>6, NoAccountWritten
    <2> QED BY <1>3, <2>5, <2>6, <2>7
  <1> QED BY <1>2, <1>4

LEMMA AcceptPasswords ==
    ASSUME Facts, NEW c \in Callers, FinishAcceptInvite(c), NEW v \in Users
    PROVE  \/ db'.user[v].password = db.user[v].password
           \/ ~db.user[v].exists /\ db'.user[v].password = 1
  <1> DEFINE i == call[c].invite
             d1 == CreateUser(db, i.user)
             d2 == AddMembership(d1, i.user, i.team, i.role)
             d3 == SetUserEmailVerified(d2, i.user)
  <1>1. /\ Sound(db, load.webauthn) /\ db \in Tables
        /\ i.user \in Users /\ i.role \in Roles /\ i.team \in db.teams
    BY Reading DEF FinishAcceptInvite, Frame, Verifying, Vouched, InviteRow
  <1>2. db' = DeleteInvite(d3, i)
    BY DEF FinishAcceptInvite
  <1> HIDE DEF i
  <1>3. /\ Sound(d1, load.webauthn) /\ d1.user[i.user].exists /\ d1.teams = db.teams
        /\ \/ d1.user[v].password = db.user[v].password
           \/ ~db.user[v].exists /\ d1.user[v].password = 1
    BY <1>1, CreateUserStatement, AccountWritten DEF AccountsOnly, SameOrder
  <1> HIDE DEF d1
  <1>4. Sound(d2, load.webauthn) /\ d2.user = d1.user
    BY <1>1, <1>3, MembershipStatement
  <1> HIDE DEF d2
  <1>5. d3 \in Tables /\ d3.user[v].password = d2.user[v].password
    BY <1>1, <1>4, VerifiedStatement, AccountWritten DEF Sound
  <1> HIDE DEF d3
  <1>6. db'.user = d3.user
    BY <1>2, <1>5, NoAccountWritten
  <1> QED BY <1>3, <1>4, <1>5, <1>6

LEMMA LoginPasswords ==
    ASSUME Facts, NEW c \in Callers, FinishFirstFactorLogin(c)
    PROVE  SamePasswords
  <1> DEFINE d == ConsumePendingInvites(db, call[c].user)
  <1>1. db \in Tables /\ call[c].user \in Users
    BY Reading DEF FinishFirstFactorLogin, Frame, Verifying, Exists
  <1>2. d \in Tables /\ d.user = db.user
    BY <1>1, ConsumeInvites
  <1>3. \/ db' = d
        \/ \E t : db' = CreateSession(d, call[c].user, t, "password", 0, call[c].hadKeys)
        \/ db' = BeginUserLogin(d, call[c].user)
    BY DEF FinishFirstFactorLogin
  <1> HIDE DEF d
  <1> QED BY <1>2, <1>3, NoAccountWritten DEF SamePasswords, BeginUserLogin

\* Every step but the last of a password reset leaves the passwords there are.
LEMMA NextPasswords ==
    ASSUME Facts, Facts', Passwords, Next
    PROVE  Passwords'
  <1>0. db \in Tables /\ Sound(db, load.webauthn)
    BY Reading
  <1>1. ASSUME UNCHANGED call, SamePasswords PROVE Passwords'
    BY <1>1, NobodyCalls, PasswordsKept
  <1>2. ASSUME NEW c \in Callers, NEW f, call' = [call EXCEPT ![c] = f],
               f.op \notin {"reset", "newPassword"}, SamePasswords
        PROVE  Passwords'
    BY <1>2, NoResetBegun, PasswordsKept
  <1>3. UNCHANGED db => SamePasswords
    BY DEF SamePasswords
  <1>4. db'.user = db.user => SamePasswords
    BY DEF SamePasswords
  <1>5. ASSUME NEW c \in Callers, NEW u, NEW t, Signup(c, u, t) PROVE Passwords'
    <2> DEFINE f == [op |-> "signup", user |-> u, team |-> t]
    <2>1. call' = [call EXCEPT ![c] = f] /\ f.op = "signup" /\ UNCHANGED db
      BY <1>5 DEF Signup, Begin
    <2> HIDE DEF f
    <2> QED BY <1>2, <1>3, <2>1
  <1>6. ASSUME NEW c \in Callers, NEW u, Login(c, u) PROVE Passwords'
    <2> DEFINE f == [op |-> "login", user |-> u, hadKeys |-> db.user[u].keys # {}]
    <2>1. call' = [call EXCEPT ![c] = f] /\ f.op = "login" /\ UNCHANGED db
      BY <1>6 DEF Login, Begin
    <2> HIDE DEF f
    <2> QED BY <1>3, <2>1, NoResetBegun, PasswordsKept
  <1>7. ASSUME NEW u, ResendVerification(u) \/ ForgotPassword(u) PROVE Passwords'
    BY <1>0, <1>1, <1>4, <1>7, NoAccountWritten DEF ResendVerification, ForgotPassword
  <1>8. ASSUME NEW c \in Callers, NEW code, VerifyEmail(c, code) PROVE Passwords'
    <2> DEFINE f == [op |-> "verify", code |-> code]
    <2>1. call' = [call EXCEPT ![c] = f] /\ f.op = "verify" /\ UNCHANGED db
      BY <1>8 DEF VerifyEmail, Begin
    <2> HIDE DEF f
    <2> QED BY <1>2, <1>3, <2>1
  <1>9. ASSUME NEW c \in Callers, NEW ch, LoginPasskey(c, ch) PROVE Passwords'
    <2> DEFINE f == [op |-> "passkey", challenge |-> ch]
    <2>1. f.op = "passkey" /\ (UNCHANGED call \/ call' = [call EXCEPT ![c] = f])
      BY <1>9 DEF LoginPasskey, Begin
    <2>2. SamePasswords
      BY <1>0, <1>4, <1>9, NoAccountWritten DEF LoginPasskey
    <2> HIDE DEF f
    <2> QED BY <1>1, <1>2, <2>1, <2>2
  <1>10. ASSUME NEW c \in Callers, NEW i, AcceptInvite(c, i) PROVE Passwords'
    <2> DEFINE f == [op |-> "accept", invite |-> i]
    <2>1. f.op = "accept" /\ (UNCHANGED call \/ call' = [call EXCEPT ![c] = f])
      BY <1>10 DEF AcceptInvite, Begin
    <2>2. SamePasswords
      BY <1>0, <1>3, <1>4, <1>10, NoAccountWritten DEF AcceptInvite
    <2> HIDE DEF f
    <2> QED BY <1>1, <1>2, <2>1, <2>2
  <1>11. ASSUME NEW c \in Callers, call' = [call EXCEPT ![c] = Idle] PROVE NoReset
    <2>1. Idle.op \notin {"reset", "newPassword"}
      BY DEF Idle
    <2> QED BY <1>11, <2>1, NoResetBegun
  <1>12. ASSUME NEW c \in Callers, FinishSignup(c) \/ FinishAcceptInvite(c) PROVE Passwords'
    <2>1. NoReset
      BY <1>11, <1>12 DEF FinishSignup, FinishAcceptInvite, Return, Continue
    <2>2. \A v \in Users : \/ db'.user[v].password = db.user[v].password
                           \/ ~db.user[v].exists /\ db'.user[v].password = 1
      BY <1>12, SignupPasswords, AcceptPasswords
    <2> QED BY <2>1, <2>2, AccountBound
  <1>13. ASSUME NEW c \in Callers, ConsumeCode(c) PROVE Passwords'
    <2> DEFINE code == call[c].code
               f == [op |-> "verified", code |-> code]
               d == [db EXCEPT !.codes = @ \ {code}]
    <2>1. db' = SetUserEmailVerified(d, code.user) /\ call' = [call EXCEPT ![c] = f] /\ f.op = "verified"
      BY <1>13 DEF ConsumeCode, Continue, ConsumeEmailVerification
    <2>2. code.user \in Users
      BY <1>13, Reading DEF ConsumeCode, Frame, Verifying, Exists
    <2>3. d \in Tables /\ d.user = db.user
      BY <1>0, TokensGone DEF RowsOnly
    <2> HIDE DEF d, f, code
    <2>4. SamePasswords
      BY <2>1, <2>2, <2>3, AccountWritten DEF SamePasswords
    <2> QED BY <1>2, <2>1, <2>4
  <1>14. ASSUME NEW c \in Callers, FinishVerifyEmail(c) \/ OpenSetupSession(c) \/ FinishLoginPasskey(c)
         PROVE  Passwords'
    <2>1. NoReset
      BY <1>11, <1>14 DEF FinishVerifyEmail, OpenSetupSession, FinishLoginPasskey, Return, Continue
    <2>2. SamePasswords
      <3>1. \A u, t, by, from, h : CreateSession(db, u, t, by, from, h).user = db.user
        BY <1>0, NoAccountWritten
      <3>2. UNCHANGED db \/ \E u, t, by, from, h : db' = CreateSession(db, u, t, by, from, h)
        BY <1>14, Zenon DEF FinishVerifyEmail, OpenSetupSession, FinishLoginPasskey
      <3> QED BY <1>3, <1>4, <3>1, <3>2
    <2> QED BY <2>1, <2>2, PasswordsKept
  <1>15. ASSUME NEW c \in Callers, FinishFirstFactorLogin(c) PROVE Passwords'
    <2>1. SamePasswords
      BY <1>15, LoginPasswords
    <2>2. CASE Return(c)
      BY <1>11, <2>1, <2>2, PasswordsKept DEF Return, Continue
    <2>3. ASSUME NEW t, Continue(c, [op |-> "setup", user |-> call[c].user, team |-> t, hadKeys |-> call[c].hadKeys])
          PROVE  Passwords'
      <3> DEFINE f == [op |-> "setup", user |-> call[c].user, team |-> t, hadKeys |-> call[c].hadKeys]
      <3>1. call' = [call EXCEPT ![c] = f] /\ f.op = "setup"
        BY <2>3 DEF Continue
      <3> HIDE DEF f
      <3> QED BY <2>1, <3>1, NoResetBegun, PasswordsKept
    <2> QED BY <1>15, <2>2, <2>3 DEF FinishFirstFactorLogin
  <1>16. ASSUME NEW c \in Callers, ConsumeReset(c) PROVE Passwords'
    <2> DEFINE f == [op |-> "newPassword", user |-> call[c].token.user]
    <2>1. /\ call' = [call EXCEPT ![c] = f] /\ f.op = "newPassword" /\ call[c].op = "reset"
          /\ f.user = call[c].token.user
      BY <1>16 DEF ConsumeReset, Continue
    <2>2. SamePasswords
      BY <1>0, <1>4, <1>16, NoAccountWritten DEF ConsumeReset
    <2> HIDE DEF f
    <2> QED BY <2>1, <2>2, NoResetBegun, PasswordsKept
  <1>17. ASSUME NEW c \in Callers, FinishDeletePasskey(c) \/ FinishResetPasskeys(c) PROVE Passwords'
    <2>1. NoReset
      BY <1>11, <1>17 DEF FinishDeletePasskey, FinishResetPasskeys, Return, Continue
    <2>2. call[c].user \in Users
      BY <1>17, Reading DEF FinishDeletePasskey, FinishResetPasskeys, Frame, Verifying
    <2>3. SamePasswords
      BY <1>0, <1>17, <2>2, AccountWritten DEF FinishDeletePasskey, FinishResetPasskeys, SamePasswords
    <2> QED BY <2>1, <2>3, PasswordsKept
  <1>18. ASSUME NEW c \in Callers,
                \/ FinishRemoveTeamMember(c) \/ FinishChangeMemberRole(c) \/ FinishSwitchTeam(c) \/ Crash(c)
         PROVE  Passwords'
    <2>1. NoReset
      BY <1>11, <1>18
      DEF FinishRemoveTeamMember, FinishChangeMemberRole, FinishSwitchTeam, Crash, Return, Continue
    <2>2. SamePasswords
      BY <1>0, <1>3, <1>4, <1>18, NoAccountWritten
      DEF FinishRemoveTeamMember, FinishChangeMemberRole, FinishSwitchTeam, Crash
    <2> QED BY <2>1, <2>2, PasswordsKept
  <1>19. ASSUME NEW s \in db.sessions, Logout(s) \/ SetupPasskeyBegin(s) \/ RegisterBegin(s) PROVE Passwords'
    BY <1>0, <1>1, <1>4, <1>19, NoAccountWritten
    DEF Logout, SetupPasskeyBegin, RegisterBegin, BeginUserRegistration
  <1>20. ASSUME NEW s \in db.sessions, NEW k \in Keys, SetupPasskeyFinish(s, k) \/ RegisterFinish(s, k)
         PROVE  Passwords'
    <2> DEFINE d == FinishUserRegistration(db, s.user, k)
    <2>1. s.user \in Users /\ db.user[s.user].exists
      BY <1>0 DEF Tables, SessionRow, Sound, Owned
    <2>2. d \in Tables /\ \A v \in Users : d.user[v].password = db.user[v].password
      BY <1>0, <2>1, PasskeyStatement, AccountWritten DEF Sound
    <2>3. UNCHANGED call /\ (db' = d \/ db' = DeleteSession(d, s))
      BY <1>20 DEF SetupPasskeyFinish, RegisterFinish
    <2> HIDE DEF d
    <2>4. SamePasswords
      BY <2>2, <2>3, NoAccountWritten DEF SamePasswords
    <2> QED BY <1>1, <2>3, <2>4
  <1>21. ASSUME NEW s, NEW c \in Callers, NEW k, DeletePasskey(c, s, k) PROVE Passwords'
    <2> DEFINE f == [op |-> "deleteKey", user |-> s.user, key |-> k]
    <2>1. call' = [call EXCEPT ![c] = f] /\ f.op = "deleteKey" /\ UNCHANGED db
      BY <1>21 DEF DeletePasskey, Begin
    <2> HIDE DEF f
    <2> QED BY <1>2, <1>3, <2>1
  <1>22. ASSUME NEW s, NEW u, ResetPasskeysBegin(s, u) PROVE Passwords'
    <2>1. UNCHANGED call /\ db'.user = db.user
      BY <1>0, <1>22 DEF ResetPasskeysBegin, Tables
    <2> QED BY <1>1, <1>4, <2>1
  <1>23. ASSUME NEW s, NEW u, NEW c \in Callers, ResetPasskeys(c, s, u) PROVE Passwords'
    <2> DEFINE f == [op |-> "resetKeys", user |-> u]
    <2>1. call' = [call EXCEPT ![c] = f] /\ f.op = "resetKeys" /\ db'.user = db.user
      BY <1>0, <1>23 DEF ResetPasskeys, Begin, Tables
    <2> HIDE DEF f
    <2> QED BY <1>2, <1>4, <2>1
  <1>24. ASSUME NEW s, NEW u, NEW c \in Callers, RemoveTeamMember(c, s, u) PROVE Passwords'
    <2> DEFINE f == [op |-> "remove", user |-> u, team |-> s.team]
    <2>1. call' = [call EXCEPT ![c] = f] /\ f.op = "remove" /\ UNCHANGED db
      BY <1>24 DEF RemoveTeamMember, Begin
    <2> HIDE DEF f
    <2> QED BY <1>2, <1>3, <2>1
  <1>25. ASSUME NEW s, NEW u, NEW r, InviteTeamMember(s, u, r) PROVE Passwords'
    BY <1>0, <1>1, <1>4, <1>25, NoAccountWritten DEF InviteTeamMember
  <1>26. ASSUME NEW s, NEW u, NEW r, NEW c \in Callers, ChangeMemberRole(c, s, u, r) PROVE Passwords'
    <2> DEFINE f == [op |-> "role", user |-> u, team |-> s.team, role |-> r, by |-> s.user]
    <2>1. call' = [call EXCEPT ![c] = f] /\ f.op = "role" /\ UNCHANGED db
      BY <1>26 DEF ChangeMemberRole, Begin
    <2> HIDE DEF f
    <2> QED BY <1>2, <1>3, <2>1
  <1>27. ASSUME NEW s, NEW i, CancelInvite(s, i) PROVE Passwords'
    BY <1>0, <1>1, <1>4, <1>27, NoAccountWritten DEF CancelInvite
  <1>28. ASSUME NEW s, NEW t, NEW c \in Callers, SwitchTeam(c, s, t) PROVE Passwords'
    <2> DEFINE f == [op |-> "switch", session |-> s, team |-> t]
    <2>1. call' = [call EXCEPT ![c] = f] /\ f.op = "switch" /\ UNCHANGED db
      BY <1>28 DEF SwitchTeam, Begin
    <2> HIDE DEF f
    <2> QED BY <1>2, <1>3, <2>1
  <1>29. CASE Expire
    <2>1. UNCHANGED call /\ db'.user = db.user
      BY <1>0, <1>29 DEF Expire, DeleteSession, DeleteInvite, Tables
    <2> QED BY <1>1, <1>4, <2>1
  <1> QED BY <1>5, <1>6, <1>7, <1>8, <1>9, <1>10, <1>12, <1>13, <1>14, <1>15, <1>16, <1>17, <1>18, <1>19,
             <1>20, <1>21, <1>22, <1>23, <1>24, <1>25, <1>26, <1>27, <1>28, <1>29,
             ResetPasswordBound, FinishResetPasswordBound DEF Next

-----------------------------------------------------------------------------
(* The theorems                                                            *)

LEMMA FactsInvariant == Spec => [](Facts /\ Passwords)
  <1>1. Init => Facts /\ Passwords
    BY InitFacts
  <1>2. Facts /\ Passwords /\ [Next]_vars => (Facts /\ Passwords)'
    <2>1. SUFFICES ASSUME Facts, Passwords, [Next]_vars PROVE (Facts /\ Passwords)'
      OBVIOUS
    <2>2. CASE Next
      BY <2>1, <2>2, NextKeeps, NextPasswords
    <2>3. CASE UNCHANGED vars
      BY <2>1, <2>3 DEF vars, Facts, Passwords, Resetting
    <2> QED BY <2>1, <2>2, <2>3
  <1> QED BY <1>1, <1>2, PTL DEF Spec

\* The rows have their shape and their owners, the password alone opens no session for a
\* person with a passkey, a challenge opens one session, and the team of a session was joined
\* (SessionsAreEarned: the handlers of admin.rs, however they overlap and wherever they stop).
THEOREM SessionsEarned == Spec => []SessionsAreEarned
  <1>1. Facts /\ Passwords => SessionsAreEarned
    <2>1. SUFFICES ASSUME Facts, Passwords PROVE SessionsAreEarned
      OBVIOUS
    <2>2. db \in Tables /\ Owned(db) /\ Joined(db) /\ Sessions(db, load.webauthn) /\ Once(db)
      BY <2>1 DEF Facts, Sound
    <2>3. \A u \in Users : db.user[u].password \in 0 .. MaxPasswords + Cardinality(Callers)
      <3>1. TAKE u \in Users
      <3>2. db.user[u].password + Cardinality(Resetting(u)) <= MaxPasswords + Cardinality(Callers)
        BY <2>1 DEF Passwords
      <3> QED BY <2>2, <3>2, ReadUser, ResettingIsFinite, BoundAssumption
    <2>4. TypeOK
      <3>1. db.teams \subseteq Teams /\ \A u \in Users, t \in Teams : db.role[u][t] \in Roles \cup {"none"}
        BY <2>2 DEF Tables
      <3>2. \A u \in Users : db.user[u].keys \subseteq Keys
        BY <2>2, ReadUser
      <3>3. /\ \A x \in db.sessions \cup db.codes \cup db.resets \cup db.challenges : db.user[x.user].exists
            /\ \A u \in db.enrolling : db.user[u].exists
            /\ \A u \in Users, t \in Teams : db.role[u][t] # "none" => db.user[u].exists /\ t \in db.teams
        BY <2>2 DEF Owned, Joined
      <3> QED BY <2>3, <3>1, <3>2, <3>3 DEF TypeOK
    <2>5. SecondFactor /\ SessionTeamWasJoined
      BY <2>2 DEF Sessions, Opened, SecondFactor, SessionTeamWasJoined
    <2>6. OneSessionPerChallenge
      BY <2>2 DEF Once, OneSessionPerChallenge
    <2> QED BY <2>4, <2>5, <2>6 DEF SessionsAreEarned
  <1> QED BY <1>1, FactsInvariant, PTL

\* No session opened before a password reset is left after it (the last statement of
\* validate_and_consume_password_reset), whoever switches teams meanwhile.
THEOREM ResetsEndSessions == Spec => []ResetEndsSessions
  <1>1. Facts => ResetEndsSessions
    BY DEF Facts, Sound, Sessions, Opened, ResetEndsSessions
  <1> QED BY <1>1, FactsInvariant, PTL

\* Nobody becomes owner of a team there is but by an owner's invitation or an owner's change
\* of their role, on each of the paths that accept an invitation.
THEOREM OwnersMakeOwners == Spec => OwnersComeFromOwners
  <1>1. Facts /\ [Next]_vars =>
           [\A u \in Users, t \in db.teams :
               db.role[u][t] # "owner" /\ db'.role[u][t] = "owner" =>
                 \/ \E i \in db.invites \cup {call[c].invite : c \in {c \in Callers : call[c].op = "accept"}} :
                       i.user = u /\ i.team = t /\ i.role = "owner" /\ "owner" \in db.held[i.by][t]
                 \/ \E c \in Callers : call[c].op = "role" /\ call[c].team = t
                                       /\ "owner" \in db.held[call[c].by][t]]_vars
    BY NextKeeps DEF OwnersStep, ByInvite, ByChange
  <1> QED BY <1>1, FactsInvariant, PTL DEF Spec, OwnersComeFromOwners
===============================================================================
