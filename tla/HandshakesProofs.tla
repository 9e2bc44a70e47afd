--------------------------- MODULE HandshakesProofs ---------------------------
(***************************************************************************)
(* Proofs about Handshakes, for any people, accounts at providers,         *)
(* browsers, teams, clients and requests.                                  *)
(*                                                                         *)
(* The three handshakes share nothing but the list of handlers under way.  *)
(* Each has facts about its tables (Social, Device, Connections), about    *)
(* one handler under way (...Frame) and about two (...Apart).  A step      *)
(* keeps the facts about the tables and relates the tables before and      *)
(* after by ...Grows, which is all that the frames of other handlers need. *)
(***************************************************************************)
EXTENDS Handshakes, TLAPS

-----------------------------------------------------------------------------
(* Login with a provider                                                   *)

LinkRow == [user : People \cup {NoOne}, how : {"none", "signup", "login"}, at : Nat, open : BOOLEAN]
StateRow == [id : Nat, provider : {"google", "github"}, browser : Browsers]
ContRow ==
    [id : Nat, kind : {"login", "signup"}, user : People \cup {NoOne}, ident : Idents, email : People,
     browser : Browsers, began : Browsers]
StagedRow == [id : Nat, user : People, ident : Idents, open : BOOLEAN]
PassRow == [id : Nat, from : Nat]

SocTables ==
    [acct : [People -> AccountRow], link : [Idents -> LinkRow], states : SUBSET StateRow,
     cookie : [Browsers -> Nat], conts : SUBSET ContRow, staged : SUBSET StagedRow,
     challenges : SUBSET People, passes : SUBSET PassRow, proved : [People -> Nat], next : Nat]

(* The time a login has to be later than.                                  *)
Since(l) == IF l.open THEN 0 ELSE l.at

(* An identity is linked by its own signup or after a whole login.         *)
Linked(d) ==
    \A i \in Idents :
        /\ d.link[i].how # "none" => d.link[i].user \in People
        /\ d.link[i].how = "signup" => d.acct[d.link[i].user].origin = i
        /\ d.link[i].how = "login" => d.proved[d.link[i].user] > Since(d.link[i])

(* A cookie that fits a state is in the browser where the state was made.  *)
Bounded(d) ==
    /\ \A b \in Browsers : d.cookie[b] < d.next
    /\ \A st \in d.states : st.id < d.next /\ st.id > 0
    /\ \A b \in Browsers : \A st \in d.states : d.cookie[b] = st.id => st.browser = b

(* A continuation was not used and belongs to one flow.                    *)
Unspent(d, n) == n < d.next /\ n > 0 /\ \A p \in d.passes : p.from # n

Continued(d) ==
    /\ \A ct \in d.conts : Unspent(d, ct.id) /\ ct.browser = ct.began /\ (ct.kind = "login" => ct.user \in People)
    /\ \A x, y \in d.conts : x.id = y.id => x = y
    /\ \A p \in d.passes : p.from < d.next
    /\ \A x, y \in d.passes : x.from = y.from /\ x.from # 0 => x = y

Staged(d) ==
    /\ \A l \in d.staged : l.id < d.next /\ (l.open => d.proved[l.user] > 0)
    /\ \A u \in People : d.proved[u] < d.next

Social(d) ==
    /\ d \in SocTables /\ d.next > 0
    /\ \A u \in People : Vouched(d.acct[u])
    /\ Linked(d) /\ Bounded(d) /\ Continued(d) /\ Staged(d)

SigningUp == {"signup", "insert", "verify", "link"}

(* The continuation a handler claimed; 0 where there is none.              *)
Claimed(f) ==
    IF f.op \in SigningUp THEN f.cont.id ELSE IF f.op = "firstFactor" THEN f.from ELSE 0

(* What is claimed is neither used nor there.                              *)
Taken(d, n) == Unspent(d, n) /\ \A ct \in d.conts : ct.id # n

SocFrame(d, f) ==
    /\ f.op = "resolve" => f.ident \in Idents /\ f.email \in People /\ f.browser \in Browsers /\ f.browser = f.began
    /\ f.op = "issue" =>
          /\ f.kind \in {"login", "signup"} /\ f.user \in People \cup {NoOne} /\ f.ident \in Idents
          /\ f.email \in People /\ f.browser \in Browsers /\ f.browser = f.began
          /\ f.kind = "login" => f.user \in People
    /\ f.op \in SigningUp => f.cont \in ContRow /\ f.cont.browser = f.cont.began /\ f.cont.kind = "signup"
                             /\ Taken(d, f.cont.id)
    /\ f.op \in {"verify", "link"} => d.acct[f.cont.email].origin = f.cont.ident
    /\ f.op = "firstFactor" => f.user \in People /\ f.from \in Nat /\ (f.from # 0 => Taken(d, f.from))
    /\ f.op = "persist" =>
          /\ f.user \in People /\ d.proved[f.user] > 0
          /\ \A l \in d.staged : l.user = f.user => l.open \/ l.id < d.proved[f.user]
    /\ f.op = "persistEach" =>
          /\ f.user \in People /\ f.links \subseteq StagedRow
          /\ \A l \in f.links : d.proved[f.user] > (IF l.open THEN 0 ELSE l.id)

(* Two handlers never hold the same continuation.                          *)
SocApart(f, g) == Claimed(f) = Claimed(g) => Claimed(f) = 0

-----------------------------------------------------------------------------
(* Device authorization                                                    *)

DeviceRow ==
    [id : Nat, status : {"pending", "approved", "claimed"}, user : People \cup {NoOne},
     team : Teams \cup {NoOne}, first : People \cup {NoOne}]
DeviceSession ==
    [id : Nat, row : Nat, user : People \cup {NoOne}, team : Teams \cup {NoOne}, first : People \cup {NoOne}]

DevTables ==
    [rows : SUBSET DeviceRow, sessions : SUBSET DeviceSession, ended : SUBSET Nat,
     count : [People -> Nat], tried : [People -> Nat], blind : [People -> BOOLEAN], windows : Nat, next : Nat]

(* No row has this number, unless it is claimed.                           *)
Used(d, n) == n < d.next /\ \A r \in d.rows : r.id = n => r.status = "claimed"

Device(d) ==
    /\ d \in DevTables
    /\ \A r \in d.rows :
          /\ r.id < d.next /\ r.user = r.first
          /\ (r.status = "pending") = (r.user = NoOne)
    /\ \A r, x \in d.rows : r.id = x.id => r = x
    /\ \A s \in d.sessions : Used(d, s.row) /\ s.user = s.first
    /\ \A s, x \in d.sessions : s.row = x.row => s = x
    /\ \A u \in People : d.tried[u] <= d.count[u] /\ d.tried[u] <= MaxConfirm

DevFrame(d, f) ==
    /\ f.op = "approve" => f.user \in People /\ f.team \in Teams
    /\ f.op = "session" =>
          /\ f.row \in DeviceRow /\ f.row.user = f.row.first /\ Used(d, f.row.id)
          /\ \A s \in d.sessions : s.row # f.row.id

(* Two handlers never answer with the same row.                            *)
DevApart(f, g) == f.op = "session" /\ g.op = "session" => f.row.id # g.row.id

-----------------------------------------------------------------------------
(* MCP connections                                                         *)

Exchanging == {"issueToken", "consume", "record"}

McpFrame(d, f) ==
    /\ f.op \in {"provision", "promote"} =>
          f.user \in People /\ f.team \in Teams /\ f.request \in RequestRow /\ Proved(d, f.user, f.request)
    /\ f.op \in Exchanging =>
          /\ f.party \in Parties /\ f.code \in CodeRow /\ f.code.request.by = f.party
          /\ Proved(d, f.code.assertion.subject, f.code.request)
          /\ \E k \in d.codes : k.id = f.code.id
    /\ f.op = "record" =>
          /\ f.late \in BOOLEAN /\ Spent(d, f.code.id)
          /\ \A g \in d.families : g.code = f.code.id => g.late \/ f.late
    /\ f.op = "refresh" => f.token \in d.tokens
    /\ f.op = "mint" =>
          /\ f.token \in d.tokens /\ f.jti \in Nat /\ f.token.jti < f.jti
          /\ \E g \in d.families : g.id = f.token.family /\ f.jti <= g.current
          /\ \A x \in d.tokens : x.family = f.token.family => x.parent # f.token.jti
    /\ f.op = "act" => ~f.late /\ f.late \in BOOLEAN /\ \E g \in d.families : g.id = f.family

(* Two handlers that record the same code, and two that replace the same   *)
(* token.                                                                  *)
McpApart(f, g) ==
    /\ f.op = "record" /\ g.op = "record" /\ f.code.id = g.code.id => f.late \/ g.late
    /\ f.op = "mint" /\ g.op = "mint" /\ f.token.family = g.token.family => f.token.jti # g.token.jti

-----------------------------------------------------------------------------
(* All of them                                                             *)

SocOps == SigningUp \cup {"resolve", "issue", "firstFactor", "persist", "persistEach"}
DevOps == {"approve", "session"}
McpOps == Exchanging \cup {"provision", "promote", "refresh", "mint", "act"}

(* The handlers of a behaviour are those of its handshake.                 *)
OpsOf(part) ==
    {"idle"} \cup (IF part = "social" THEN SocOps
                   ELSE IF part = "device" THEN DevOps
                   ELSE IF part = "mcp" THEN McpOps ELSE {})

SocFacts ==
    /\ Social(soc)
    /\ \A c \in Callers : SocFrame(soc, call[c])
    /\ \A b, c \in Callers : b # c => SocApart(call[b], call[c])

DevFacts ==
    /\ Device(dev)
    /\ \A c \in Callers : DevFrame(dev, call[c])
    /\ \A b, c \in Callers : b # c => DevApart(call[b], call[c])

McpFacts ==
    /\ Connections(mcp)
    /\ \A c \in Callers : McpFrame(mcp, call[c])
    /\ \A b, c \in Callers : b # c => McpApart(call[b], call[c])

Under == load \in Loads /\ DOMAIN call = Callers /\ \A c \in Callers : call[c].op \in OpsOf(load.part)

Facts == Under /\ SocFacts /\ DevFacts /\ McpFacts

-----------------------------------------------------------------------------
(* What a step of one handshake means for the others                       *)

(* A step of c leaves the calls of the others.                             *)
LEMMA Calls ==
    ASSUME DOMAIN call = Callers, NEW c \in Callers, NEW f, call' = [call EXCEPT ![c] = f]
    PROVE  /\ DOMAIN call' = Callers /\ call'[c] = f
           /\ \A b \in Callers : b # c => call'[b] = call[b]
  OBVIOUS

LEMMA Ops ==
    /\ OpsOf("social") = {"idle"} \cup SocOps
    /\ OpsOf("device") = {"idle"} \cup DevOps
    /\ OpsOf("mcp") = {"idle"} \cup McpOps
  BY DEF OpsOf

(* A handler of another handshake holds nothing of this one.               *)
LEMMA NotSocial ==
    ASSUME NEW f, f.op \in {"idle"} \cup DevOps \cup McpOps, NEW d
    PROVE  SocFrame(d, f) /\ Claimed(f) = 0
  BY DEF DevOps, McpOps, Exchanging, SigningUp, SocFrame, Claimed

LEMMA NotDevice ==
    ASSUME NEW f, f.op \in {"idle"} \cup SocOps \cup McpOps, NEW d
    PROVE  DevFrame(d, f) /\ f.op # "session"
  BY DEF SocOps, McpOps, Exchanging, SigningUp, DevFrame

LEMMA NotMcp ==
    ASSUME NEW f, f.op \in {"idle"} \cup SocOps \cup DevOps, NEW d
    PROVE  McpFrame(d, f) /\ f.op # "record" /\ f.op # "mint"
  BY DEF SocOps, DevOps, Exchanging, SigningUp, McpFrame

LEMMA SocUntouched ==
    ASSUME SocFacts, soc' = soc, \A c \in Callers : call'[c].op \in {"idle"} \cup DevOps \cup McpOps
    PROVE  SocFacts'
  <1>1. ASSUME NEW c \in Callers PROVE SocFrame(soc, call'[c]) /\ Claimed(call'[c]) = 0
    BY NotSocial
  <1>2. Social(soc')
    BY DEF SocFacts
  <1>3. \A c \in Callers : SocFrame(soc', call'[c])
    BY <1>1
  <1>4. \A b, c \in Callers : b # c => SocApart(call'[b], call'[c])
    BY <1>1 DEF SocApart
  <1> QED
    BY <1>2, <1>3, <1>4 DEF SocFacts

LEMMA DevUntouched ==
    ASSUME DevFacts, dev' = dev, \A c \in Callers : call'[c].op \in {"idle"} \cup SocOps \cup McpOps
    PROVE  DevFacts'
  <1>1. ASSUME NEW c \in Callers PROVE DevFrame(dev, call'[c]) /\ call'[c].op # "session"
    BY NotDevice
  <1>2. Device(dev')
    BY DEF DevFacts
  <1>3. \A c \in Callers : DevFrame(dev', call'[c])
    BY <1>1
  <1>4. \A b, c \in Callers : b # c => DevApart(call'[b], call'[c])
    BY <1>1 DEF DevApart
  <1> QED
    BY <1>2, <1>3, <1>4 DEF DevFacts

LEMMA McpUntouched ==
    ASSUME McpFacts, mcp' = mcp, \A c \in Callers : call'[c].op \in {"idle"} \cup SocOps \cup DevOps
    PROVE  McpFacts'
  <1>1. ASSUME NEW c \in Callers PROVE McpFrame(mcp, call'[c]) /\ call'[c].op # "record" /\ call'[c].op # "mint"
    BY NotMcp
  <1>2. Connections(mcp')
    BY DEF McpFacts
  <1>3. \A c \in Callers : McpFrame(mcp', call'[c])
    BY <1>1
  <1>4. \A b, c \in Callers : b # c => McpApart(call'[b], call'[c])
    BY <1>1 DEF McpApart
  <1> QED
    BY <1>2, <1>3, <1>4 DEF McpFacts

-----------------------------------------------------------------------------
(* Device authorization: steps                                             *)

(* From d to e by a handler with the frame own: rows are never opened      *)
(* again, and a new session is the one own answers with.                   *)
DevGrows(d, e, own) ==
    /\ \A n \in Nat : Used(d, n) => Used(e, n)
    /\ \A s \in e.sessions : s \in d.sessions \/ (own.op = "session" /\ s.row = own.row.id)

LEMMA DevFrameKept ==
    ASSUME NEW d, NEW e, NEW own, NEW f, DevFrame(d, f), DevGrows(d, e, own), DevApart(f, own)
    PROVE  DevFrame(e, f)
  <1>1. f.op = "approve" => f.user \in People /\ f.team \in Teams
    BY DEF DevFrame
  <1>2. ASSUME f.op = "session"
        PROVE  /\ f.row \in DeviceRow /\ f.row.user = f.row.first /\ Used(e, f.row.id)
               /\ \A s \in e.sessions : s.row # f.row.id
    <2>1. /\ f.row \in DeviceRow /\ f.row.user = f.row.first /\ Used(d, f.row.id)
          /\ \A s \in d.sessions : s.row # f.row.id
      BY <1>2 DEF DevFrame
    <2>2. f.row.id \in Nat
      BY <2>1 DEF DeviceRow
    <2>3. Used(e, f.row.id)
      BY <2>1, <2>2 DEF DevGrows
    <2>4. \A s \in e.sessions : s.row # f.row.id
      BY <1>2, <2>1 DEF DevGrows, DevApart
    <2> QED
      BY <2>1, <2>3, <2>4
  <1> QED
    BY <1>1, <1>2 DEF DevFrame

(* A step of a handler that keeps the tables, and whose next frame is one. *)
LEMMA DevStep ==
    ASSUME Facts, load.part = "device", UNCHANGED <<load, soc, mcp>>,
           NEW c \in Callers, NEW f, f.op \in {"idle"} \cup DevOps, call' = [call EXCEPT ![c] = f],
           Device(dev'), DevGrows(dev, dev', call[c]), DevFrame(dev', f),
           \A b \in Callers : b # c => DevApart(call[b], f)
    PROVE  Facts'
  <1>1. DOMAIN call' = Callers /\ call'[c] = f /\ \A b \in Callers : b # c => call'[b] = call[b]
    BY Calls DEF Facts, Under
  <1>2. \A b \in Callers : call'[b].op \in {"idle"} \cup DevOps
    BY <1>1, Ops DEF Facts, Under
  <1>3. Under'
    BY <1>1, <1>2, Ops DEF Facts, Under
  <1>4. SocFacts'
    BY <1>2, SocUntouched DEF Facts
  <1>5. McpFacts'
    BY <1>2, McpUntouched DEF Facts
  <1>6. ASSUME NEW b \in Callers PROVE DevFrame(dev', call'[b])
    <2>1. CASE b = c
      BY <2>1, <1>1
    <2>2. CASE b # c
      <3>1. DevFrame(dev, call[b]) /\ DevApart(call[b], call[c])
        BY <2>2 DEF Facts, DevFacts
      <3> QED
        BY <3>1, <2>2, <1>1, DevFrameKept
    <2> QED
      BY <2>1, <2>2
  <1>7. ASSUME NEW a \in Callers, NEW b \in Callers, a # b PROVE DevApart(call'[a], call'[b])
    <2>1. CASE a # c /\ b # c
      BY <2>1, <1>7, <1>1 DEF Facts, DevFacts
    <2>2. CASE a # c /\ b = c
      BY <2>2, <1>1
    <2>3. CASE a = c
      BY <2>3, <1>1, <1>7 DEF DevApart
    <2> QED
      BY <2>1, <2>2, <2>3
  <1>8. DevFacts'
    BY <1>6, <1>7 DEF DevFacts
  <1> QED
    BY <1>3, <1>4, <1>5, <1>8 DEF Facts

LEMMA DevApartIdle ==
    ASSUME NEW f, NEW g, g.op \in {"idle", "approve"}
    PROVE  DevApart(f, g)
  BY DEF DevApart

(* A step that is no handler's.                                            *)
LEMMA DevAtOnce ==
    ASSUME Facts, load.part = "device", UNCHANGED <<load, soc, mcp, call>>,
           Device(dev'), DevGrows(dev, dev', Idle)
    PROVE  Facts'
  <1>1. \A b \in Callers : call[b].op \in {"idle"} \cup DevOps
    BY Ops DEF Facts, Under
  <1>2. Under'
    BY DEF Facts, Under
  <1>3. SocFacts' /\ McpFacts'
    BY <1>1, SocUntouched, McpUntouched DEF Facts
  <1>4. ASSUME NEW b \in Callers PROVE DevFrame(dev', call[b])
    <2>1. DevFrame(dev, call[b]) /\ DevApart(call[b], Idle)
      BY DevApartIdle DEF Facts, DevFacts, Idle
    <2> QED
      BY <2>1, DevFrameKept
  <1>5. DevFacts'
    BY <1>4 DEF Facts, DevFacts
  <1> QED
    BY <1>2, <1>3, <1>5 DEF Facts

-----------------------------------------------------------------------------
(* Device authorization: statements                                        *)

(* What leaves rows, sessions and numbers alone.                           *)
LEMMA DevCounters ==
    ASSUME NEW d, NEW e, Device(d), NEW own, e \in DevTables,
           e.rows = d.rows, e.sessions = d.sessions, e.next = d.next,
           \A u \in People : e.tried[u] <= e.count[u] /\ e.tried[u] <= MaxConfirm
    PROVE  Device(e) /\ DevGrows(d, e, own)
  <1>1. \A n \in Nat : Used(d, n) = Used(e, n)
    BY DEF Used
  <1>2. \A s \in d.sessions : s.row \in Nat
    BY DEF Device, DevTables, DeviceSession
  <1>3. Device(e)
    BY <1>1, <1>2 DEF Device
  <1> QED
    BY <1>1, <1>3 DEF DevGrows

LEMMA CreateRow ==
    ASSUME NEW d, Device(d), NEW own
    PROVE  Device(CreateDeviceAuthorization(d)) /\ DevGrows(d, CreateDeviceAuthorization(d), own)
  <1> DEFINE new == [id |-> d.next, status |-> "pending", user |-> NoOne, team |-> NoOne, first |-> NoOne]
             e == CreateDeviceAuthorization(d)
             rs == d.rows \cup {new}
             n1 == d.next + 1
  <1>1. d \in DevTables /\ d.next \in Nat
    BY DEF Device, DevTables
  <1>2. /\ new \in DeviceRow /\ new.id = d.next /\ new.user = new.first
        /\ new.status = "pending" /\ new.user = NoOne
    BY <1>1 DEF DeviceRow
  <1>3. e = [d EXCEPT !.rows = rs, !.next = n1]
    BY DEF CreateDeviceAuthorization
  <1> HIDE DEF new, e
  <1>a. rs \in SUBSET DeviceRow /\ n1 \in Nat
    BY <1>1, <1>2 DEF DevTables
  <1> HIDE DEF rs, n1
  <1>b. /\ e \in DevTables /\ e.rows = rs /\ e.next = n1
        /\ e.sessions = d.sessions /\ e.tried = d.tried /\ e.count = d.count
    BY <1>1, <1>a, <1>3 DEF DevTables
  <1>4. /\ e \in DevTables /\ e.rows = d.rows \cup {new} /\ e.next = d.next + 1
        /\ e.sessions = d.sessions /\ e.tried = d.tried /\ e.count = d.count
    BY <1>b DEF rs, n1
  <1>5. ASSUME NEW n \in Nat, Used(d, n) PROVE Used(e, n)
    BY <1>1, <1>2, <1>4, <1>5 DEF Used
  <1>6. \A r \in d.rows : r.id \in Nat /\ r.id < d.next
    BY DEF Device, DevTables, DeviceRow
  <1>7. \A s \in d.sessions : s.row \in Nat
    BY DEF Device, DevTables, DeviceSession
  <1>8. \A r \in e.rows : r.id < e.next /\ r.user = r.first /\ (r.status = "pending") = (r.user = NoOne)
    <2> SUFFICES ASSUME NEW r \in e.rows
                 PROVE  r.id < e.next /\ r.user = r.first /\ (r.status = "pending") = (r.user = NoOne)
      OBVIOUS
    <2>1. CASE r = new
      BY <2>1, <1>1, <1>2, <1>4
    <2>2. CASE r \in d.rows
      BY <2>2, <1>1, <1>4, <1>6 DEF Device
    <2> QED
      BY <2>1, <2>2, <1>4
  <1>9. \A r, x \in e.rows : r.id = x.id => r = x
    BY <1>1, <1>2, <1>4, <1>6 DEF Device
  <1>10. \A s \in e.sessions : Used(e, s.row) /\ s.user = s.first
    BY <1>4, <1>5, <1>7 DEF Device
  <1>11. Device(e)
    BY <1>4, <1>8, <1>9, <1>10 DEF Device
  <1>12. DevGrows(d, e, own)
    BY <1>4, <1>5 DEF DevGrows
  <1> QED
    BY <1>11, <1>12 DEF e

LEMMA RowUpdate ==
    ASSUME NEW d, Device(d), NEW own, NEW r \in d.rows, NEW new \in DeviceRow,
           new.id = r.id, new.user = new.first, (new.status = "pending") = (new.user = NoOne),
           r.status = "claimed" => new.status = "claimed"
    PROVE  /\ Device(WithRow(d, r, new)) /\ DevGrows(d, WithRow(d, r, new), own)
           /\ WithRow(d, r, new).sessions = d.sessions
           /\ new.status = "claimed" => Used(WithRow(d, r, new), r.id)
  <1> DEFINE e == WithRow(d, r, new)
  <1>1. d \in DevTables /\ d.next \in Nat
    BY DEF Device, DevTables
  <1>2. e = [d EXCEPT !.rows = (@ \ {r}) \cup {new}]
    BY DEF WithRow
  <1> HIDE DEF e
  <1>3. /\ e \in DevTables /\ e.rows = (d.rows \ {r}) \cup {new} /\ e.next = d.next
        /\ e.sessions = d.sessions /\ e.tried = d.tried /\ e.count = d.count
    BY <1>1, <1>2 DEF DevTables
  <1>4. \A x \in d.rows : x.id < d.next /\ (x.id = r.id => x = r)
    BY DEF Device
  <1>5. ASSUME NEW n \in Nat, Used(d, n) PROVE Used(e, n)
    BY <1>3, <1>5 DEF Used
  <1>6. \A s \in d.sessions : s.row \in Nat
    BY DEF Device, DevTables, DeviceSession
  <1>7. \A x \in e.rows : x.id < e.next /\ x.user = x.first /\ (x.status = "pending") = (x.user = NoOne)
    <2> SUFFICES ASSUME NEW x \in e.rows
                 PROVE  x.id < e.next /\ x.user = x.first /\ (x.status = "pending") = (x.user = NoOne)
      OBVIOUS
    <2>1. CASE x = new
      BY <2>1, <1>3, <1>4
    <2>2. CASE x \in d.rows
      BY <2>2, <1>3 DEF Device
    <2> QED
      BY <2>1, <2>2, <1>3
  <1>8. \A y, x \in e.rows : y.id = x.id => y = x
    BY <1>3, <1>4 DEF Device
  <1>9. \A s \in e.sessions : Used(e, s.row) /\ s.user = s.first
    BY <1>3, <1>5, <1>6 DEF Device
  <1>10. Device(e)
    BY <1>3, <1>7, <1>8, <1>9 DEF Device
  <1>11. DevGrows(d, e, own)
    BY <1>3, <1>5 DEF DevGrows
  <1>12. new.status = "claimed" => Used(e, r.id)
    BY <1>3, <1>4 DEF Used
  <1> QED
    BY <1>10, <1>11, <1>12, <1>3 DEF e

-----------------------------------------------------------------------------
(* Device authorization: handlers                                          *)

LEMMA DeviceAuthorizeKeeps ==
    ASSUME Facts, DeviceAuthorize
    PROVE  Facts'
  <1>1. load.part = "device" /\ UNCHANGED <<load, soc, mcp, call>> /\ dev' = CreateDeviceAuthorization(dev)
    BY DEF DeviceAuthorize, Dev
  <1>2. Device(dev') /\ DevGrows(dev, dev', Idle)
    BY <1>1, CreateRow DEF Facts, DevFacts
  <1> QED
    BY <1>1, <1>2, DevAtOnce

LEMMA NewRateWindowKeeps ==
    ASSUME Facts, NewRateWindow
    PROVE  Facts'
  <1>1. load.part = "device" /\ UNCHANGED <<load, soc, mcp, call>>
    BY DEF NewRateWindow, Dev
  <1>2. Device(dev) /\ dev \in DevTables
    BY DEF Facts, DevFacts, Device
  <1> DEFINE zero == [u \in People |-> 0]
             off == [u \in People |-> FALSE]
             w == dev.windows + 1
  <1>a. dev' = [dev EXCEPT !.count = zero, !.tried = zero, !.blind = off, !.windows = w]
    BY DEF NewRateWindow
  <1>b. /\ zero \in [People -> Nat] /\ off \in [People -> BOOLEAN] /\ w \in Nat
        /\ \A u \in People : zero[u] = 0
    BY <1>2 DEF DevTables
  <1> HIDE DEF zero, off, w
  <1>3. /\ dev' \in DevTables /\ dev'.rows = dev.rows /\ dev'.sessions = dev.sessions /\ dev'.next = dev.next
        /\ dev'.tried = zero /\ dev'.count = zero
    BY <1>2, <1>a, <1>b DEF DevTables
  <1>4. Device(dev') /\ DevGrows(dev, dev', Idle)
    BY <1>2, <1>3, <1>b, DevCounters, BoundAssumption
  <1> QED
    BY <1>1, <1>4, DevAtOnce

LEMMA DeviceExpireKeeps ==
    ASSUME Facts, NEW r \in dev.rows, DeviceExpire(r)
    PROVE  Facts'
  <1>1. load.part = "device" /\ UNCHANGED <<load, soc, mcp, call>> /\ dev' = [dev EXCEPT !.rows = @ \ {r}]
    BY DEF DeviceExpire, Dev
  <1>2. Device(dev) /\ dev \in DevTables
    BY DEF Facts, DevFacts, Device
  <1>3. /\ dev' \in DevTables /\ dev'.rows = dev.rows \ {r} /\ dev'.sessions = dev.sessions
        /\ dev'.next = dev.next /\ dev'.tried = dev.tried /\ dev'.count = dev.count
    BY <1>1, <1>2 DEF DevTables
  <1>4. \A n \in Nat : Used(dev, n) => Used(dev', n)
    BY <1>3 DEF Used
  <1>5. \A s \in dev.sessions : s.row \in Nat
    BY <1>2 DEF DevTables, DeviceSession
  <1>6. Device(dev')
    BY <1>2, <1>3, <1>4, <1>5 DEF Device
  <1>7. DevGrows(dev, dev', Idle)
    BY <1>3, <1>4 DEF DevGrows
  <1> QED
    BY <1>1, <1>6, <1>7, DevAtOnce

LEMMA DeviceConfirmKeeps ==
    ASSUME Facts, NEW c \in Callers, NEW u \in People, NEW t \in Teams, NEW code, DeviceConfirm(c, u, t, code)
    PROVE  Facts'
  <1> DEFINE f == [op |-> "approve", user |-> u, team |-> t, code |-> code]
             d == IncrementRateCounter(dev, u)
  <1>1. load.part = "device" /\ UNCHANGED <<load, soc, mcp>>
    BY DEF DeviceConfirm, Dev
  <1>2. Device(dev) /\ dev \in DevTables
    BY DEF Facts, DevFacts, Device
  <1>3. /\ d \in DevTables /\ d.rows = dev.rows /\ d.sessions = dev.sessions /\ d.next = dev.next
        /\ d.tried = dev.tried /\ d.count = [dev.count EXCEPT ![u] = @ + 1]
    BY <1>2 DEF IncrementRateCounter, DevTables
  <1>4. \A x \in People : dev.tried[x] \in Nat /\ dev.count[x] \in Nat /\ dev.tried[x] <= dev.count[x]
                          /\ dev.tried[x] <= MaxConfirm /\ dev.count \in [People -> Nat] /\ dev.tried \in [People -> Nat]
    BY <1>2 DEF Device, DevTables
  <1>5. f.op = "approve" /\ f.op \in {"idle"} \cup DevOps /\ DevFrame(dev', f)
    BY DEF DevOps, DevFrame
  <1>6. \/ ~OverConfirmBudget(d.count[u]) /\ dev' = [d EXCEPT !.tried[u] = @ + 1] /\ Begin(c, f)
        \/ dev' = d /\ UNCHANGED call
        \/ dev' = [dev EXCEPT !.blind[u] = TRUE] /\ Begin(c, f)
    BY DEF DeviceConfirm
  <1> HIDE DEF f, d
  <1>7. \A b \in Callers : b # c => DevApart(call[b], f)
    BY <1>5, DevApartIdle
  <1>8. CASE ~OverConfirmBudget(d.count[u]) /\ dev' = [d EXCEPT !.tried[u] = @ + 1] /\ Begin(c, f)
    <2>1. /\ dev' \in DevTables /\ dev'.rows = dev.rows /\ dev'.sessions = dev.sessions /\ dev'.next = dev.next
          /\ dev'.tried = [dev.tried EXCEPT ![u] = @ + 1] /\ dev'.count = d.count
      BY <1>8, <1>3, <1>4 DEF DevTables
    <2>2. dev.count[u] + 1 <= MaxConfirm
      BY <1>8, <1>3, <1>4, BoundAssumption DEF OverConfirmBudget
    <2>3. \A x \in People : dev'.tried[x] <= dev'.count[x] /\ dev'.tried[x] <= MaxConfirm
      BY <2>1, <2>2, <1>3, <1>4, BoundAssumption
    <2>4. Device(dev') /\ DevGrows(dev, dev', call[c])
      BY <2>1, <2>3, <1>2, DevCounters
    <2> QED
      BY <2>4, <1>1, <1>5, <1>7, <1>8, DevStep DEF Begin
  <1>9. CASE dev' = d /\ UNCHANGED call
    <2>1. \A x \in People : d.tried[x] <= d.count[x] /\ d.tried[x] <= MaxConfirm
      BY <1>3, <1>4, BoundAssumption
    <2>2. Device(dev') /\ DevGrows(dev, dev', Idle)
      BY <2>1, <1>9, <1>2, <1>3, DevCounters
    <2> QED
      BY <2>2, <1>1, <1>9, DevAtOnce
  <1>10. CASE dev' = [dev EXCEPT !.blind[u] = TRUE] /\ Begin(c, f)
    <2>1. /\ dev' \in DevTables /\ dev'.rows = dev.rows /\ dev'.sessions = dev.sessions /\ dev'.next = dev.next
          /\ dev'.tried = dev.tried /\ dev'.count = dev.count
      BY <1>10, <1>2 DEF DevTables
    <2>2. Device(dev') /\ DevGrows(dev, dev', call[c])
      BY <2>1, <1>2, <1>4, DevCounters
    <2> QED
      BY <2>2, <1>1, <1>5, <1>7, <1>10, DevStep DEF Begin
  <1> QED
    BY <1>6, <1>8, <1>9, <1>10

LEMMA DevReturns ==
    ASSUME Facts, load.part = "device", UNCHANGED <<load, soc, mcp>>, NEW c \in Callers, Return(c),
           Device(dev'), DevGrows(dev, dev', call[c])
    PROVE  Facts'
  <1>1. Idle.op = "idle" /\ DevFrame(dev', Idle)
    BY DEF Idle, DevFrame
  <1>2. \A b \in Callers : b # c => DevApart(call[b], Idle)
    BY <1>1, DevApartIdle
  <1> QED
    BY <1>1, <1>2, DevStep DEF Return

LEMMA FinishDeviceConfirmKeeps ==
    ASSUME Facts, NEW c \in Callers, FinishDeviceConfirm(c)
    PROVE  Facts'
  <1> DEFINE f == call[c]
  <1>1. load.part = "device" /\ UNCHANGED <<load, soc, mcp>> /\ Return(c) /\ f.op = "approve"
    BY DEF FinishDeviceConfirm, Dev
  <1>2. Device(dev) /\ f.user \in People /\ f.team \in Teams /\ dev.rows \subseteq DeviceRow
    BY <1>1 DEF Facts, DevFacts, DevFrame, Device, DevTables
  <1>3. Device(dev) /\ DevGrows(dev, dev, f)
    BY <1>2 DEF DevGrows
  <1>4. ASSUME NEW r \in dev.rows, dev' = ApproveDeviceAuthorization(dev, r, f.user, f.team)
        PROVE  Device(dev') /\ DevGrows(dev, dev', f)
    <2>1. CASE r.status # "pending"
      BY <2>1, <1>3, <1>4 DEF ApproveDeviceAuthorization
    <2>2. CASE r.status = "pending"
      <3> DEFINE new == Bound(r, f.user, f.team)
      <3>1. r \in DeviceRow /\ r.user = NoOne /\ r.first = NoOne
        BY <2>2, <1>2 DEF Device
      <3>2. /\ new \in DeviceRow /\ new.id = r.id /\ new.user = f.user /\ new.first = f.user
            /\ new.status = "approved"
        BY <3>1, <1>2 DEF DeviceRow, Bound
      <3>3. dev' = WithRow(dev, r, new)
        BY <2>2, <1>4 DEF ApproveDeviceAuthorization
      <3> HIDE DEF new, f
      <3>4. (new.status = "pending") = (new.user = NoOne)
        BY <3>2, <1>2, NoOneAssumption
      <3> QED
        BY <3>2, <3>3, <3>4, <2>2, <1>2, RowUpdate
    <2> QED
      BY <2>1, <2>2
  <1>5. Device(dev') /\ DevGrows(dev, dev', f)
    BY <1>3, <1>4 DEF FinishDeviceConfirm
  <1> QED
    BY <1>1, <1>5, DevReturns

LEMMA DeviceTokenKeeps ==
    ASSUME Facts, NEW c \in Callers, NEW r \in dev.rows, DeviceToken(c, r)
    PROVE  Facts'
  <1> DEFINE f == [op |-> "session", row |-> r]
  <1>1. load.part = "device" /\ UNCHANGED <<load, soc, mcp>>
    BY DEF DeviceToken, Dev
  <1>2. Device(dev) /\ dev \in DevTables /\ r \in DeviceRow /\ r.user = r.first
    BY DEF Facts, DevFacts, Device, DevTables
  <1>3. \/ r.status = "approved" /\ dev' = ClaimDeviceAuthorization(dev, r) /\ Begin(c, f)
        \/ dev' = [dev EXCEPT !.ended = @ \cup {r.id}] /\ UNCHANGED call
    BY DEF DeviceToken
  <1>4. f.op = "session" /\ f.row = r /\ f.op \in {"idle"} \cup DevOps
    BY DEF DevOps
  <1> HIDE DEF f
  <1>5. CASE r.status = "approved" /\ dev' = ClaimDeviceAuthorization(dev, r) /\ Begin(c, f)
    <2> DEFINE new == [r EXCEPT !.status = "claimed"]
    <2>1. /\ new \in DeviceRow /\ new.id = r.id /\ new.user = r.user /\ new.first = r.first
          /\ new.status = "claimed"
      BY <1>2 DEF DeviceRow
    <2>2. dev' = WithRow(dev, r, new)
      BY <1>5 DEF ClaimDeviceAuthorization
    <2> HIDE DEF new
    <2>3. (new.status = "pending") = (new.user = NoOne)
      <3>1. (r.status = "pending") = (r.user = NoOne)
        BY <1>2 DEF Device
      <3> QED
        BY <3>1, <2>1, <1>5
    <2>4. Device(dev') /\ DevGrows(dev, dev', call[c]) /\ dev'.sessions = dev.sessions /\ Used(dev', r.id)
      BY <2>1, <2>2, <2>3, <1>2, <1>5, RowUpdate
    <2>5. \A s \in dev.sessions : s.row # r.id
      BY <1>2, <1>5 DEF Device, Used
    <2>6. DevFrame(dev', f)
      BY <2>4, <2>5, <1>2, <1>4 DEF DevFrame
    <2>7. ASSUME NEW b \in Callers, b # c PROVE DevApart(call[b], f)
      <3>1. call[b].op = "session" => Used(dev, call[b].row.id)
        BY DEF Facts, DevFacts, DevFrame
      <3> QED
        BY <3>1, <1>4, <1>5 DEF Used, DevApart
    <2> QED
      BY <2>4, <2>6, <2>7, <1>1, <1>4, <1>5, DevStep DEF Begin
  <1>6. CASE dev' = [dev EXCEPT !.ended = @ \cup {r.id}] /\ UNCHANGED call
    <2>1. r.id \in Nat
      BY <1>2 DEF DeviceRow
    <2>2. /\ dev' \in DevTables /\ dev'.rows = dev.rows /\ dev'.sessions = dev.sessions /\ dev'.next = dev.next
          /\ dev'.tried = dev.tried /\ dev'.count = dev.count
      BY <1>6, <1>2, <2>1 DEF DevTables
    <2>3. \A u \in People : dev'.tried[u] <= dev'.count[u] /\ dev'.tried[u] <= MaxConfirm
      BY <2>2, <1>2 DEF Device
    <2>4. Device(dev') /\ DevGrows(dev, dev', Idle)
      BY <2>2, <2>3, <1>2, DevCounters
    <2> QED
      BY <2>4, <1>1, <1>6, DevAtOnce
  <1> QED
    BY <1>3, <1>5, <1>6

LEMMA FinishDeviceTokenKeeps ==
    ASSUME Facts, NEW c \in Callers, FinishDeviceToken(c)
    PROVE  Facts'
  <1> DEFINE f == call[c]
             new == [id |-> dev.next, row |-> f.row.id, user |-> f.row.user, team |-> f.row.team,
                     first |-> f.row.first]
             ss == dev.sessions \cup {new}
             es == dev.ended \cup {f.row.id}
             n1 == dev.next + 1
  <1>1. load.part = "device" /\ UNCHANGED <<load, soc, mcp>> /\ Return(c) /\ f.op = "session"
    BY DEF FinishDeviceToken, Dev
  <1>2. Device(dev) /\ dev \in DevTables /\ DevFrame(dev, f)
    BY DEF Facts, DevFacts, Device
  <1>3. /\ f.row \in DeviceRow /\ f.row.user = f.row.first /\ Used(dev, f.row.id)
        /\ \A s \in dev.sessions : s.row # f.row.id
    BY <1>1, <1>2 DEF DevFrame
  <1>4. new \in DeviceSession /\ new.row = f.row.id /\ new.user = new.first /\ f.row.id \in Nat
    BY <1>2, <1>3 DEF DevTables, DeviceSession, DeviceRow
  <1>5. dev' = [dev EXCEPT !.sessions = ss, !.next = n1, !.ended = es]
    BY <1>2 DEF FinishDeviceToken, CreateAgentSession, DevTables
  <1> HIDE DEF new, f
  <1>a. ss \in SUBSET DeviceSession /\ es \in SUBSET Nat /\ n1 \in Nat
    BY <1>2, <1>4 DEF DevTables
  <1> HIDE DEF ss, es, n1
  <1>b. /\ dev' \in DevTables /\ dev'.rows = dev.rows /\ dev'.sessions = ss
        /\ dev'.next = n1 /\ dev'.tried = dev.tried /\ dev'.count = dev.count
    BY <1>2, <1>a, <1>5 DEF DevTables
  <1>6. /\ dev' \in DevTables /\ dev'.rows = dev.rows /\ dev'.sessions = dev.sessions \cup {new}
        /\ dev'.next = dev.next + 1 /\ dev'.tried = dev.tried /\ dev'.count = dev.count /\ dev.next \in Nat
    BY <1>b, <1>2 DEF DevTables, ss, n1
  <1>7. \A n \in Nat : Used(dev, n) => Used(dev', n)
    BY <1>6 DEF Used
  <1>8. DevGrows(dev, dev', f)
    BY <1>1, <1>4, <1>6, <1>7 DEF DevGrows
  <1>9. \A r \in dev'.rows : r.id < dev'.next /\ r.user = r.first /\ (r.status = "pending") = (r.user = NoOne)
    <2>1. \A r \in dev.rows : r.id \in Nat
      BY <1>2 DEF DevTables, DeviceRow
    <2> QED
      BY <2>1, <1>2, <1>6 DEF Device
  <1>10. \A s \in dev.sessions : s.row \in Nat
    BY <1>2 DEF DevTables, DeviceSession
  <1>11. \A s \in dev'.sessions : Used(dev', s.row) /\ s.user = s.first
    BY <1>2, <1>3, <1>4, <1>6, <1>7, <1>10 DEF Device
  <1>12. \A s, x \in dev'.sessions : s.row = x.row => s = x
    BY <1>2, <1>3, <1>4, <1>6 DEF Device
  <1>13. Device(dev')
    BY <1>2, <1>6, <1>9, <1>11, <1>12 DEF Device
  <1> QED
    BY <1>1, <1>8, <1>13, DevReturns DEF f

-----------------------------------------------------------------------------
(* MCP connections: steps                                                  *)

(* From d to e by a handler with the frame own: nothing is unproved or     *)
(* forgotten, what is spent stays spent, a family keeps its number and     *)
(* goes on; a new family is of the code own exchanges, and a new token of  *)
(* a new family or in place of the one own presented.                      *)
Succeeds(g, h) == h.id = g.id /\ g.current <= h.current

NewFamily(d, own, h) ==
    \/ \E g \in d.families : g.code = h.code /\ g.late = h.late
    \/ own.op = "record" /\ h.code = own.code.id /\ h.late = own.late

NewToken(d, own, x) ==
    \/ x \in d.tokens
    \/ x.family >= d.next
    \/ own.op = "mint" /\ x.family = own.token.family /\ x.parent = own.token.jti

McpGrows(d, e, own) ==
    /\ d.next <= e.next /\ d.proved \subseteq e.proved /\ d.tokens \subseteq e.tokens
    /\ \A k \in d.codes : \E j \in e.codes : j.id = k.id
    /\ \A n \in Nat : n < d.next /\ Spent(d, n) => Spent(e, n)
    /\ \A g \in d.families : \E h \in e.families : Succeeds(g, h)
    /\ \A h \in e.families : NewFamily(d, own, h)
    /\ \A x \in e.tokens : NewToken(d, own, x)

LEMMA McpTypes ==
    ASSUME NEW d, Connections(d)
    PROVE  /\ d \in McpTables /\ d.next \in Nat /\ d.next > 0
           /\ \A k \in d.codes : k \in CodeRow /\ k.id \in Nat /\ k.id < d.next /\ k.lapsed \in BOOLEAN
           /\ \A g \in d.families : /\ g \in FamilyRow /\ g.id \in Nat /\ g.current \in Nat /\ g.code \in Nat
                                    /\ g.id < d.next /\ g.current < d.next /\ g.code < d.next
           /\ \A x \in d.tokens : /\ x \in TokenRow /\ x.family \in Nat /\ x.jti \in Nat /\ x.parent \in Nat
                                  /\ x.parent < x.jti /\ x.family < d.next /\ x.jti < d.next
  <1>1. d \in McpTables /\ d.next \in Nat /\ d.next > 0
    BY DEF Connections, McpTables
  <1>2. \A k \in d.codes : k \in CodeRow /\ k.id \in Nat /\ k.id < d.next /\ k.lapsed \in BOOLEAN
    BY <1>1 DEF Connections, Traced, McpTables, CodeRow
  <1>3. \A g \in d.families : /\ g \in FamilyRow /\ g.id \in Nat /\ g.current \in Nat /\ g.code \in Nat
                              /\ g.id < d.next /\ g.current < d.next /\ g.code < d.next
    BY <1>1 DEF Connections, Recorded, McpTables, FamilyRow
  <1>4. ASSUME NEW x \in d.tokens
        PROVE  /\ x \in TokenRow /\ x.family \in Nat /\ x.jti \in Nat /\ x.parent \in Nat
               /\ x.parent < x.jti /\ x.family < d.next /\ x.jti < d.next
    <2>1. x \in TokenRow /\ x.family \in Nat /\ x.jti \in Nat /\ x.parent \in Nat
      BY <1>1 DEF McpTables, TokenRow
    <2>2. x.parent < x.jti
      BY DEF Connections, Chained
    <2>3. PICK g \in d.families : g.id = x.family /\ x.jti <= g.current
      BY DEF Connections, Chained
    <2> QED
      BY <2>1, <2>2, <2>3, <1>1, <1>3
  <1> QED
    BY <1>1, <1>2, <1>3, <1>4

LEMMA McpFrameKept ==
    ASSUME NEW d, NEW e, NEW own, NEW f, Connections(d), Connections(e),
           McpFrame(d, f), McpGrows(d, e, own), McpApart(f, own)
    PROVE  McpFrame(e, f)
  <1>1. f.op \in {"provision", "promote"} =>
            f.user \in People /\ f.team \in Teams /\ f.request \in RequestRow /\ Proved(e, f.user, f.request)
    BY DEF McpFrame, McpGrows, Proved
  <1>2. ASSUME f.op \in Exchanging
        PROVE  /\ f.party \in Parties /\ f.code \in CodeRow /\ f.code.request.by = f.party
               /\ Proved(e, f.code.assertion.subject, f.code.request)
               /\ \E k \in e.codes : k.id = f.code.id
    <2>1. /\ f.party \in Parties /\ f.code \in CodeRow /\ f.code.request.by = f.party
          /\ Proved(d, f.code.assertion.subject, f.code.request)
          /\ \E k \in d.codes : k.id = f.code.id
      BY <1>2 DEF McpFrame
    <2> QED
      BY <2>1 DEF McpGrows, Proved
  <1>3. ASSUME f.op = "record"
        PROVE  /\ f.late \in BOOLEAN /\ Spent(e, f.code.id)
               /\ \A g \in e.families : g.code = f.code.id => g.late \/ f.late
    <2>1. /\ f.late \in BOOLEAN /\ Spent(d, f.code.id)
          /\ \A g \in d.families : g.code = f.code.id => g.late \/ f.late
      BY <1>3 DEF McpFrame
    <2>2. PICK k \in d.codes : k.id = f.code.id
      BY <1>3 DEF McpFrame, Exchanging
    <2>3. f.code.id \in Nat /\ f.code.id < d.next
      BY <2>2, McpTypes
    <2>4. Spent(e, f.code.id)
      BY <2>1, <2>3 DEF McpGrows
    <2>5. ASSUME NEW h \in e.families, h.code = f.code.id PROVE h.late \/ f.late
      BY <1>3, <2>1, <2>5 DEF McpGrows, NewFamily, McpApart
    <2> QED
      BY <2>1, <2>4, <2>5
  <1>4. f.op = "refresh" => f.token \in e.tokens
    BY DEF McpFrame, McpGrows
  <1>5. ASSUME f.op = "mint"
        PROVE  /\ f.token \in e.tokens /\ f.jti \in Nat /\ f.token.jti < f.jti
               /\ \E g \in e.families : g.id = f.token.family /\ f.jti <= g.current
               /\ \A x \in e.tokens : x.family = f.token.family => x.parent # f.token.jti
    <2>1. /\ f.token \in d.tokens /\ f.jti \in Nat /\ f.token.jti < f.jti
          /\ \A x \in d.tokens : x.family = f.token.family => x.parent # f.token.jti
      BY <1>5 DEF McpFrame
    <2>2. PICK g \in d.families : g.id = f.token.family /\ f.jti <= g.current
      BY <1>5 DEF McpFrame
    <2>3. PICK h \in e.families : h.id = g.id /\ g.current <= h.current
      BY DEF McpGrows, Succeeds
    <2>4. g.current \in Nat /\ h.current \in Nat
      BY McpTypes
    <2>5. f.token \in e.tokens /\ h.id = f.token.family /\ f.jti <= h.current
      BY <2>1, <2>2, <2>3, <2>4 DEF McpGrows
    <2>6. f.token.family \in Nat /\ f.token.family < d.next /\ d.next \in Nat
      BY <2>1, McpTypes
    <2>7. ASSUME NEW x \in e.tokens, x.family = f.token.family PROVE x.parent # f.token.jti
      BY <1>5, <2>1, <2>6, <2>7 DEF McpGrows, NewToken, McpApart
    <2> QED
      BY <2>1, <2>5, <2>7
  <1>6. f.op = "act" => ~f.late /\ f.late \in BOOLEAN /\ \E g \in e.families : g.id = f.family
    BY DEF McpFrame, McpGrows, Succeeds
  <1> QED
    BY <1>1, <1>2, <1>3, <1>4, <1>5, <1>6 DEF McpFrame

LEMMA McpStep ==
    ASSUME Facts, load.part = "mcp", UNCHANGED <<load, soc, dev>>,
           NEW c \in Callers, NEW f, f.op \in {"idle"} \cup McpOps, call' = [call EXCEPT ![c] = f],
           Connections(mcp'), McpGrows(mcp, mcp', call[c]), McpFrame(mcp', f),
           \A b \in Callers : b # c => McpApart(call[b], f)
    PROVE  Facts'
  <1>1. DOMAIN call' = Callers /\ call'[c] = f /\ \A b \in Callers : b # c => call'[b] = call[b]
    BY Calls DEF Facts, Under
  <1>2. \A b \in Callers : call'[b].op \in {"idle"} \cup McpOps
    BY <1>1, Ops DEF Facts, Under
  <1>3. Under'
    BY <1>1, <1>2, Ops DEF Facts, Under
  <1>4. SocFacts'
    BY <1>2, SocUntouched DEF Facts
  <1>5. DevFacts'
    BY <1>2, DevUntouched DEF Facts
  <1>6. ASSUME NEW b \in Callers PROVE McpFrame(mcp', call'[b])
    <2>1. CASE b = c
      BY <2>1, <1>1
    <2>2. CASE b # c
      <3>1. Connections(mcp) /\ McpFrame(mcp, call[b]) /\ McpApart(call[b], call[c])
        BY <2>2 DEF Facts, McpFacts
      <3> QED
        BY <3>1, <2>2, <1>1, McpFrameKept
    <2> QED
      BY <2>1, <2>2
  <1>7. ASSUME NEW a \in Callers, NEW b \in Callers, a # b PROVE McpApart(call'[a], call'[b])
    <2>1. CASE a # c /\ b # c
      BY <2>1, <1>7, <1>1 DEF Facts, McpFacts
    <2>2. CASE a # c /\ b = c
      BY <2>2, <1>1
    <2>3. CASE a = c
      BY <2>3, <1>1, <1>7 DEF McpApart
    <2> QED
      BY <2>1, <2>2, <2>3
  <1>8. McpFacts'
    BY <1>6, <1>7 DEF McpFacts
  <1> QED
    BY <1>3, <1>4, <1>5, <1>8 DEF Facts

(* Only a handler about to record, or about to mint, can conflict.         *)
LEMMA McpApartIdle ==
    ASSUME NEW f, NEW g, g.op \notin {"record", "mint"}
    PROVE  McpApart(f, g)
  BY DEF McpApart

LEMMA McpAtOnce ==
    ASSUME Facts, load.part = "mcp", UNCHANGED <<load, soc, dev, call>>,
           Connections(mcp'), McpGrows(mcp, mcp', Idle)
    PROVE  Facts'
  <1>1. \A b \in Callers : call[b].op \in {"idle"} \cup McpOps
    BY Ops DEF Facts, Under
  <1>2. Under'
    BY DEF Facts, Under
  <1>3. SocFacts' /\ DevFacts'
    BY <1>1, SocUntouched, DevUntouched DEF Facts
  <1>4. ASSUME NEW b \in Callers PROVE McpFrame(mcp', call[b])
    <2>1. Connections(mcp) /\ McpFrame(mcp, call[b]) /\ McpApart(call[b], Idle)
      BY McpApartIdle DEF Facts, McpFacts, Idle
    <2> QED
      BY <2>1, McpFrameKept
  <1>5. McpFacts'
    BY <1>4 DEF Facts, McpFacts
  <1> QED
    BY <1>2, <1>3, <1>5 DEF Facts

LEMMA McpReturns ==
    ASSUME Facts, load.part = "mcp", UNCHANGED <<load, soc, dev>>, NEW c \in Callers, Return(c),
           Connections(mcp'), McpGrows(mcp, mcp', call[c])
    PROVE  Facts'
  <1>1. Idle.op = "idle" /\ McpFrame(mcp', Idle)
    BY DEF Idle, McpFrame, Exchanging
  <1>2. \A b \in Callers : b # c => McpApart(call[b], Idle)
    BY <1>1, McpApartIdle
  <1> QED
    BY <1>1, <1>2, McpStep DEF Return

(* A handler that goes on to neither.                                      *)
LEMMA McpContinues ==
    ASSUME Facts, load.part = "mcp", UNCHANGED <<load, soc, dev>>, NEW c \in Callers,
           NEW f, f.op \in McpOps \ {"record", "mint"}, call' = [call EXCEPT ![c] = f],
           Connections(mcp'), McpGrows(mcp, mcp', call[c]), McpFrame(mcp', f)
    PROVE  Facts'
  <1>1. \A b \in Callers : b # c => McpApart(call[b], f)
    BY McpApartIdle
  <1> QED
    BY <1>1, McpStep

LEMMA McpSame ==
    ASSUME NEW d, Connections(d), NEW own
    PROVE  McpGrows(d, d, own)
  BY McpTypes DEF McpGrows, Succeeds, NewFamily, NewToken

-----------------------------------------------------------------------------
(* MCP connections: statements                                             *)

(* What touches neither codes nor families nor tokens.                     *)
LEMMA QuietStatement ==
    ASSUME NEW d, NEW e, Connections(d), NEW own, e \in McpTables, d.next <= e.next, d.proved \subseteq e.proved,
           e.codes = d.codes, e.consumed = d.consumed, e.families = d.families, e.tokens = d.tokens,
           \A a \in e.assertions : Proved(e, a.subject, a.request),
           \A x \in e.acted : ~x.late /\ \E f \in e.families : f.id = x.family
    PROVE  Connections(e) /\ McpGrows(d, e, own)
  <1>1. /\ d.next \in Nat /\ d.next > 0 /\ e.next \in Nat
        /\ \A k \in d.codes : k.id \in Nat /\ k.id < d.next
        /\ \A g \in d.families : /\ g.id \in Nat /\ g.current \in Nat /\ g.code \in Nat
                                 /\ g.id < d.next /\ g.current < d.next /\ g.code < d.next
    BY McpTypes DEF McpTables
  <1>2. \A n : Spent(e, n) = Spent(d, n)
    BY DEF Spent
  <1>3. \A u, r : Proved(d, u, r) => Proved(e, u, r)
    BY DEF Proved
  <1>4. Traced(e)
    BY <1>1, <1>3 DEF Connections, Traced
  <1>5. Recorded(e)
    BY <1>1, <1>2, <1>3 DEF Connections, Recorded
  <1>6. Chained(e)
    BY DEF Connections, Chained
  <1>7. Connections(e)
    BY <1>1, <1>4, <1>5, <1>6 DEF Connections
  <1>8. McpGrows(d, e, own)
    BY <1>1, <1>2 DEF McpGrows, Succeeds, NewFamily, NewToken
  <1> QED
    BY <1>7, <1>8

(* The assertions and actions of a state of the tables go on to fit.       *)
LEMMA StillFits ==
    ASSUME NEW d, NEW e, Connections(d), d.proved \subseteq e.proved, e.families = d.families,
           e.assertions = d.assertions, e.acted = d.acted
    PROVE  /\ \A a \in e.assertions : Proved(e, a.subject, a.request)
           /\ \A x \in e.acted : ~x.late /\ \E f \in e.families : f.id = x.family
  BY DEF Connections, Traced, Chained, Proved

(* The agent of a connection is written on its own.                        *)
LEMMA AgentStatement ==
    ASSUME NEW d, Connections(d), NEW own, NEW u \in People, NEW t \in Teams,
           NEW s \in {"none", "scoped", "all"}, NEW e, e = [d EXCEPT !.agent[u][t] = s]
    PROVE  Connections(e) /\ McpGrows(d, e, own) /\ e.proved = d.proved /\ e.next = d.next
  <1> DEFINE ag == [d.agent EXCEPT ![u][t] = s]
  <1>1. d \in McpTables /\ d.next \in Nat
    BY McpTypes
  <1>2. e = [d EXCEPT !.agent = ag]
    OBVIOUS
  <1>3. ag \in [People -> [Teams -> {"none", "scoped", "all"}]]
    <2>1. d.agent \in [People -> [Teams -> {"none", "scoped", "all"}]]
      BY <1>1 DEF McpTables
    <2> QED
      BY <2>1
  <1> HIDE DEF ag
  <1>4. /\ e \in McpTables /\ e.next = d.next /\ e.proved = d.proved /\ e.codes = d.codes /\ e.consumed = d.consumed
        /\ e.families = d.families /\ e.tokens = d.tokens /\ e.assertions = d.assertions /\ e.acted = d.acted
    BY <1>1, <1>2, <1>3 DEF McpTables
  <1>5. d.next <= e.next /\ d.proved \subseteq e.proved
    BY <1>1, <1>4
  <1>6. Connections(e) /\ McpGrows(d, e, own)
    BY <1>4, <1>5, StillFits, QuietStatement
  <1> QED
    BY <1>4, <1>6

LEMMA CreateAgent ==
    ASSUME NEW d, Connections(d), NEW own, NEW u \in People, NEW t \in Teams
    PROVE  /\ Connections(CreateMcpAgent(d, u, t)) /\ McpGrows(d, CreateMcpAgent(d, u, t), own)
           /\ CreateMcpAgent(d, u, t).proved = d.proved /\ CreateMcpAgent(d, u, t).next = d.next
  <1>1. CASE d.agent[u][t] = "none"
    BY <1>1, AgentStatement DEF CreateMcpAgent
  <1>2. CASE d.agent[u][t] # "none"
    BY <1>2, McpSame DEF CreateMcpAgent
  <1> QED
    BY <1>1, <1>2

LEMMA PromoteAgent ==
    ASSUME NEW d, Connections(d), NEW own, NEW u \in People, NEW t \in Teams
    PROVE  /\ Connections(SetAgentAllCredentials(d, u, t)) /\ McpGrows(d, SetAgentAllCredentials(d, u, t), own)
           /\ SetAgentAllCredentials(d, u, t).proved = d.proved /\ SetAgentAllCredentials(d, u, t).next = d.next
  <1>1. CASE d.agent[u][t] = "none"
    BY <1>1, McpSame DEF SetAgentAllCredentials
  <1>2. CASE d.agent[u][t] # "none"
    BY <1>2, AgentStatement DEF SetAgentAllCredentials
  <1> QED
    BY <1>1, <1>2

(* Two statements of one step.                                             *)
LEMMA McpGrowsTwice ==
    ASSUME NEW d, NEW e, NEW g, NEW own, Connections(d), Connections(e), Connections(g),
           McpGrows(d, e, own), McpGrows(e, g, own), d.tokens = e.tokens
    PROVE  McpGrows(d, g, own)
  <1>1. d.next \in Nat /\ e.next \in Nat /\ g.next \in Nat
    BY McpTypes
  <1>2. d.next <= e.next /\ e.next <= g.next /\ d.next <= g.next
    BY <1>1 DEF McpGrows
  <1>3. d.proved \subseteq g.proved /\ d.tokens \subseteq g.tokens
    BY DEF McpGrows
  <1>4. \A k \in d.codes : \E j \in g.codes : j.id = k.id
    BY DEF McpGrows
  <1>5. \A n \in Nat : n < d.next /\ Spent(d, n) => Spent(g, n)
    <2> TAKE n \in Nat
    <2> HAVE n < d.next /\ Spent(d, n)
    <2>1. Spent(e, n)
      BY DEF McpGrows
    <2>2. n < e.next
      BY <1>1, <1>2
    <2> QED
      BY <2>1, <2>2 DEF McpGrows
  <1>6. ASSUME NEW x \in d.families PROVE \E y \in g.families : Succeeds(x, y)
    <2>1. PICK y \in e.families : Succeeds(x, y)
      BY DEF McpGrows
    <2>2. PICK z \in g.families : Succeeds(y, z)
      BY DEF McpGrows
    <2>3. x.current \in Nat /\ y.current \in Nat /\ z.current \in Nat
      BY McpTypes
    <2> QED
      BY <2>1, <2>2, <2>3 DEF Succeeds
  <1>7. ASSUME NEW h \in g.families PROVE NewFamily(d, own, h)
    BY DEF McpGrows, NewFamily
  <1>8. ASSUME NEW x \in g.tokens PROVE NewToken(d, own, x)
    <2>1. NewToken(e, own, x)
      BY DEF McpGrows
    <2>2. x.family \in Nat
      BY McpTypes
    <2> QED
      BY <2>1, <2>2, <1>1, <1>2 DEF NewToken
  <1> QED
    BY <1>2, <1>3, <1>4, <1>5, <1>6, <1>7, <1>8 DEF McpGrows

(* ensure_mcp_agent and set_agent_all_credentials leave the tokens.        *)
LEMMA AgentTokens ==
    ASSUME NEW d, Connections(d), NEW u, NEW t
    PROVE  /\ CreateMcpAgent(d, u, t).tokens = d.tokens /\ CreateMcpAgent(d, u, t).codes = d.codes
           /\ SetAgentAllCredentials(d, u, t).tokens = d.tokens /\ SetAgentAllCredentials(d, u, t).codes = d.codes
           /\ SetAgentAllCredentials(d, u, t).families = d.families
           /\ SetAgentAllCredentials(d, u, t).consumed = d.consumed
           /\ SetAgentAllCredentials(d, u, t).assertions = d.assertions
           /\ SetAgentAllCredentials(d, u, t).acted = d.acted
  BY McpTypes DEF CreateMcpAgent, SetAgentAllCredentials, McpTables

LEMMA RequestStatement ==
    ASSUME NEW d, Connections(d), NEW own, NEW r \in RequestRow
    PROVE  Connections(Issue(d, "requests", r)) /\ McpGrows(d, Issue(d, "requests", r), own)
  <1> DEFINE e == Issue(d, "requests", r)
             rs == d.requests \cup {r}
             n == d.next + 1
  <1>1. d \in McpTables /\ d.next \in Nat
    BY McpTypes
  <1>2. e = [d EXCEPT !.requests = rs, !.next = n]
    BY DEF Issue
  <1>3. rs \in SUBSET RequestRow /\ n \in Nat /\ d.next <= n
    BY <1>1 DEF McpTables
  <1> HIDE DEF rs, n, e
  <1>4. /\ e \in McpTables /\ e.next = n /\ e.proved = d.proved /\ e.codes = d.codes /\ e.consumed = d.consumed
        /\ e.families = d.families /\ e.tokens = d.tokens /\ e.assertions = d.assertions /\ e.acted = d.acted
    BY <1>1, <1>2, <1>3 DEF McpTables
  <1>5. Connections(e) /\ McpGrows(d, e, own)
    BY <1>3, <1>4, StillFits, QuietStatement
  <1> QED
    BY <1>5 DEF e

LEMMA ChallengeStatement ==
    ASSUME NEW d, Connections(d), NEW own, NEW ch \in [id : Nat, user : People]
    PROVE  Connections(Issue(d, "challenges", ch)) /\ McpGrows(d, Issue(d, "challenges", ch), own)
  <1> DEFINE e == Issue(d, "challenges", ch)
             cs == d.challenges \cup {ch}
             n == d.next + 1
  <1>1. d \in McpTables /\ d.next \in Nat
    BY McpTypes
  <1>2. e = [d EXCEPT !.challenges = cs, !.next = n]
    BY DEF Issue
  <1>3. cs \in SUBSET [id : Nat, user : People] /\ n \in Nat /\ d.next <= n
    BY <1>1 DEF McpTables
  <1> HIDE DEF cs, n, e
  <1>4. /\ e \in McpTables /\ e.next = n /\ e.proved = d.proved /\ e.codes = d.codes /\ e.consumed = d.consumed
        /\ e.families = d.families /\ e.tokens = d.tokens /\ e.assertions = d.assertions /\ e.acted = d.acted
    BY <1>1, <1>2, <1>3 DEF McpTables
  <1>5. Connections(e) /\ McpGrows(d, e, own)
    BY <1>3, <1>4, StillFits, QuietStatement
  <1> QED
    BY <1>5 DEF e

LEMMA AssertionStatement ==
    ASSUME NEW d, Connections(d), NEW own, NEW a \in AssertionRow, Proved(d, a.subject, a.request)
    PROVE  Connections(Issue(d, "assertions", a)) /\ McpGrows(d, Issue(d, "assertions", a), own)
  <1> DEFINE e == Issue(d, "assertions", a)
             as == d.assertions \cup {a}
             n == d.next + 1
  <1>1. d \in McpTables /\ d.next \in Nat
    BY McpTypes
  <1>2. e = [d EXCEPT !.assertions = as, !.next = n]
    BY DEF Issue
  <1>3. as \in SUBSET AssertionRow /\ n \in Nat /\ d.next <= n
    BY <1>1 DEF McpTables
  <1>4. \A x \in as : Proved(d, x.subject, x.request)
    BY DEF Connections, Traced
  <1> HIDE DEF as, n, e
  <1>5. /\ e \in McpTables /\ e.next = n /\ e.proved = d.proved /\ e.codes = d.codes /\ e.consumed = d.consumed
        /\ e.families = d.families /\ e.tokens = d.tokens /\ e.assertions = as /\ e.acted = d.acted
    BY <1>1, <1>2, <1>3 DEF McpTables
  <1>6. /\ \A x \in e.assertions : Proved(e, x.subject, x.request)
        /\ \A x \in e.acted : ~x.late /\ \E f \in e.families : f.id = x.family
    BY <1>4, <1>5 DEF Connections, Chained, Proved
  <1>7. Connections(e) /\ McpGrows(d, e, own)
    BY <1>3, <1>5, <1>6, QuietStatement
  <1> QED
    BY <1>7 DEF e

(* The passkey of a person is used for a request.                          *)
LEMMA ProofStatement ==
    ASSUME NEW d, Connections(d), NEW own, NEW ch, NEW u \in People, NEW r \in RequestRow, NEW e,
           e = [d EXCEPT !.challenges = @ \ {ch}, !.proved = @ \cup {[user |-> u, request |-> r]}]
    PROVE  Connections(e) /\ McpGrows(d, e, own) /\ Proved(e, u, r)
  <1> DEFINE cs == d.challenges \ {ch}
             ps == d.proved \cup {[user |-> u, request |-> r]}
  <1>1. d \in McpTables /\ d.next \in Nat
    BY McpTypes
  <1>2. e = [d EXCEPT !.challenges = cs, !.proved = ps]
    OBVIOUS
  <1>3. /\ cs \in SUBSET [id : Nat, user : People] /\ ps \in SUBSET [user : People, request : RequestRow]
        /\ d.proved \subseteq ps /\ [user |-> u, request |-> r] \in ps
    BY <1>1 DEF McpTables
  <1> HIDE DEF cs, ps
  <1>4. /\ e \in McpTables /\ e.next = d.next /\ e.proved = ps /\ e.codes = d.codes /\ e.consumed = d.consumed
        /\ e.families = d.families /\ e.tokens = d.tokens /\ e.assertions = d.assertions /\ e.acted = d.acted
    BY <1>1, <1>2, <1>3 DEF McpTables
  <1>5. Connections(e) /\ McpGrows(d, e, own)
    <2>1. d.next <= e.next /\ d.proved \subseteq e.proved
      BY <1>1, <1>3, <1>4
    <2> QED
      BY <2>1, <1>4, StillFits, QuietStatement
  <1> QED
    BY <1>3, <1>4, <1>5 DEF Proved

(* An assertion grows old.                                                 *)
LEMMA AgeStatement ==
    ASSUME NEW d, Connections(d), NEW own, NEW a \in d.assertions, NEW s \in {"fresh", "late", "dead"}, NEW e,
           e = [d EXCEPT !.assertions = (@ \ {a}) \cup {[a EXCEPT !.age = s]}]
    PROVE  Connections(e) /\ McpGrows(d, e, own)
  <1> DEFINE new == [a EXCEPT !.age = s]
             as == (d.assertions \ {a}) \cup {new}
  <1>1. d \in McpTables /\ d.next \in Nat
    BY McpTypes
  <1>2. a \in AssertionRow /\ Proved(d, a.subject, a.request)
    BY <1>1 DEF McpTables, Connections, Traced
  <1>3. new \in AssertionRow /\ new.subject = a.subject /\ new.request = a.request
    BY <1>2 DEF AssertionRow
  <1>4. e = [d EXCEPT !.assertions = as]
    OBVIOUS
  <1> HIDE DEF new
  <1>5. as \in SUBSET AssertionRow /\ \A x \in as : Proved(d, x.subject, x.request)
    BY <1>1, <1>2, <1>3 DEF McpTables, Connections, Traced
  <1> HIDE DEF as
  <1>6. /\ e \in McpTables /\ e.next = d.next /\ e.proved = d.proved /\ e.codes = d.codes /\ e.consumed = d.consumed
        /\ e.families = d.families /\ e.tokens = d.tokens /\ e.assertions = as /\ e.acted = d.acted
    BY <1>1, <1>4, <1>5 DEF McpTables
  <1>7. /\ \A x \in e.assertions : Proved(e, x.subject, x.request)
        /\ \A x \in e.acted : ~x.late /\ \E f \in e.families : f.id = x.family
    BY <1>5, <1>6 DEF Connections, Chained, Proved
  <1>8. d.next <= e.next /\ d.proved \subseteq e.proved
    BY <1>1, <1>6
  <1> QED
    BY <1>6, <1>7, <1>8, QuietStatement

LEMMA CodeStatement ==
    ASSUME NEW d, Connections(d), NEW own, NEW k \in CodeRow, k.id = d.next, k.request = k.assertion.request,
           Proved(d, k.assertion.subject, k.request)
    PROVE  Connections(Issue(d, "codes", k)) /\ McpGrows(d, Issue(d, "codes", k), own)
  <1> DEFINE e == Issue(d, "codes", k)
             ks == d.codes \cup {k}
             n1 == d.next + 1
  <1>1. d \in McpTables /\ d.next \in Nat
    BY McpTypes
  <1>2. e = [d EXCEPT !.codes = ks, !.next = n1]
    BY DEF Issue
  <1>3. ks \in SUBSET CodeRow /\ n1 \in Nat
    BY <1>1 DEF McpTables
  <1> HIDE DEF ks, n1, e
  <1>4. /\ e \in McpTables /\ e.next = n1 /\ e.proved = d.proved /\ e.codes = ks /\ e.consumed = d.consumed
        /\ e.families = d.families /\ e.tokens = d.tokens /\ e.assertions = d.assertions /\ e.acted = d.acted
    BY <1>1, <1>2, <1>3 DEF McpTables
  <1>5. \A j \in d.codes : j.id \in Nat /\ j.id < d.next
    BY McpTypes
  <1>6. \A g \in d.families : /\ g.id \in Nat /\ g.current \in Nat /\ g.code \in Nat
                              /\ g.id < d.next /\ g.current < d.next /\ g.code < d.next
    BY McpTypes
  <1>7. ASSUME NEW n \in Nat, n < d.next, Spent(d, n) PROVE Spent(e, n)
    BY <1>7, <1>1, <1>4 DEF Spent, ks
  <1>8. \A u, r : Proved(d, u, r) => Proved(e, u, r)
    BY <1>4 DEF Proved
  <1>9. Traced(e)
    <2>1. \A a \in e.assertions : Proved(e, a.subject, a.request)
      BY <1>4, <1>8 DEF Connections, Traced
    <2>2. \A j \in e.codes : j.id < e.next /\ j.request = j.assertion.request /\ Proved(e, j.assertion.subject, j.request)
      BY <1>1, <1>4, <1>5, <1>8 DEF Connections, Traced, ks, n1
    <2>3. \A i, j \in e.codes : i.id = j.id => i = j
      BY <1>1, <1>4, <1>5 DEF Connections, Traced, ks
    <2> QED
      BY <2>1, <2>2, <2>3 DEF Traced
  <1>10. Recorded(e)
    <2>1. \A f \in d.families : Proved(d, f.subject, f.request) /\ Spent(d, f.code)
      BY DEF Connections, Recorded
    <2>2. \A f \in e.families : f.id < e.next /\ f.current < e.next /\ f.code < e.next
      BY <1>1, <1>4, <1>6 DEF n1
    <2>3. \A f \in e.families : Proved(e, f.subject, f.request) /\ Spent(e, f.code)
      BY <2>1, <1>4, <1>6, <1>7, <1>8
    <2> QED
      BY <2>2, <2>3, <1>4 DEF Connections, Recorded
  <1>11. Chained(e)
    BY <1>4 DEF Connections, Chained
  <1>12. Connections(e)
    BY <1>1, <1>4, <1>9, <1>10, <1>11 DEF Connections, n1
  <1>13. McpGrows(d, e, own)
    BY <1>1, <1>4, <1>6, <1>7 DEF McpGrows, Succeeds, NewFamily, NewToken, ks, n1
  <1> QED
    BY <1>12, <1>13 DEF e

(* A code lapses, or its nonce is consumed: what was spent stays spent.    *)
LEMMA SpendingStatement ==
    ASSUME NEW d, NEW e, Connections(d), NEW own, e \in McpTables, e.next = d.next, e.proved = d.proved,
           e.families = d.families, e.tokens = d.tokens, e.assertions = d.assertions, e.acted = d.acted,
           Traced(e), \A k \in d.codes : \E j \in e.codes : j.id = k.id,
           \A n \in Nat : Spent(d, n) => Spent(e, n)
    PROVE  Connections(e) /\ McpGrows(d, e, own)
  <1>1. \A g \in d.families : /\ g.id \in Nat /\ g.current \in Nat /\ g.code \in Nat
                              /\ g.id < d.next /\ g.current < d.next /\ g.code < d.next
    BY McpTypes
  <1>2. d.next \in Nat /\ d.next > 0
    BY McpTypes
  <1>3. Recorded(e)
    <2>1. \A f \in d.families : Proved(d, f.subject, f.request) /\ Spent(d, f.code)
      BY DEF Connections, Recorded
    <2>2. \A f \in e.families : Proved(e, f.subject, f.request) /\ Spent(e, f.code)
      BY <2>1, <1>1 DEF Proved
    <2> QED
      BY <2>2, <1>1 DEF Connections, Recorded
  <1>4. Chained(e)
    BY DEF Connections, Chained
  <1>5. Connections(e)
    BY <1>2, <1>3, <1>4 DEF Connections
  <1>6. McpGrows(d, e, own)
    BY <1>1, <1>2 DEF McpGrows, Succeeds, NewFamily, NewToken
  <1> QED
    BY <1>5, <1>6

LEMMA LapseStatement ==
    ASSUME NEW d, Connections(d), NEW own, NEW k \in d.codes, NEW e,
           e = [d EXCEPT !.codes = (@ \ {k}) \cup {[k EXCEPT !.lapsed = TRUE]}]
    PROVE  Connections(e) /\ McpGrows(d, e, own)
  <1> DEFINE new == [k EXCEPT !.lapsed = TRUE]
             ks == (d.codes \ {k}) \cup {new}
  <1>1. d \in McpTables /\ k \in CodeRow
    BY McpTypes
  <1>2. /\ new \in CodeRow /\ new.id = k.id /\ new.lapsed /\ new.request = k.request
        /\ new.assertion = k.assertion
    BY <1>1 DEF CodeRow
  <1>3. e = [d EXCEPT !.codes = ks]
    OBVIOUS
  <1> HIDE DEF new
  <1>4. ks \in SUBSET CodeRow
    BY <1>1, <1>2 DEF McpTables
  <1> HIDE DEF ks
  <1>5. /\ e \in McpTables /\ e.next = d.next /\ e.proved = d.proved /\ e.codes = ks /\ e.consumed = d.consumed
        /\ e.families = d.families /\ e.tokens = d.tokens /\ e.assertions = d.assertions /\ e.acted = d.acted
    BY <1>1, <1>3, <1>4 DEF McpTables
  <1>6. \A n \in Nat : Spent(d, n) => Spent(e, n)
    BY <1>2, <1>5 DEF Spent, ks
  <1>7. Traced(e)
    <2>1. \A a \in e.assertions : Proved(e, a.subject, a.request)
      BY <1>5 DEF Connections, Traced, Proved
    <2>2. \A j \in e.codes : j.id < e.next /\ j.request = j.assertion.request /\ Proved(e, j.assertion.subject, j.request)
      <3> SUFFICES ASSUME NEW j \in e.codes
                   PROVE  j.id < e.next /\ j.request = j.assertion.request /\ Proved(e, j.assertion.subject, j.request)
        OBVIOUS
      <3>1. PICK i \in d.codes : i.id = j.id /\ i.request = j.request /\ i.assertion = j.assertion
        BY <1>2, <1>5 DEF ks
      <3>2. i.id < d.next /\ i.request = i.assertion.request /\ Proved(d, i.assertion.subject, i.request)
        BY DEF Connections, Traced
      <3> QED
        BY <3>1, <3>2, <1>5 DEF Proved
    <2>3. \A i, j \in e.codes : i.id = j.id => i = j
      BY <1>2, <1>5 DEF Connections, Traced, ks
    <2> QED
      BY <2>1, <2>2, <2>3 DEF Traced
  <1>8. \A j \in d.codes : \E i \in e.codes : i.id = j.id
    BY <1>2, <1>5 DEF ks
  <1> QED
    BY <1>5, <1>6, <1>7, <1>8, SpendingStatement

(* consume_code with the pruning that follows it.                          *)
LEMMA ConsumeStatement ==
    ASSUME NEW d, Connections(d), NEW own, NEW k \in CodeRow
    PROVE  /\ Connections(ConsumeCode(d, k)) /\ McpGrows(d, ConsumeCode(d, k), own)
           /\ Spent(ConsumeCode(d, k), k.id) /\ ConsumeCode(d, k).families = d.families
           /\ ConsumeCode(d, k).proved = d.proved /\ ConsumeCode(d, k).codes = d.codes
  <1> DEFINE e == ConsumeCode(d, k)
             all == d.consumed \cup {k.id}
             m == [d EXCEPT !.consumed = all]
             xs == {x \in all : \A j \in d.codes : j.id = x => ~j.lapsed}
  <1>1. d \in McpTables /\ k.id \in Nat
    BY McpTypes DEF CodeRow
  <1>2. all \in SUBSET Nat
    BY <1>1 DEF McpTables
  <1>3. xs \in SUBSET Nat
    BY <1>2
  <1>4. e = PruneConsumed(m)
    BY DEF ConsumeCode
  <1>5. m.codes = d.codes /\ m.consumed = all
    BY <1>1 DEF McpTables
  <1>6. e = [m EXCEPT !.consumed = xs]
    BY <1>4, <1>5 DEF PruneConsumed
  <1>7. e = [d EXCEPT !.consumed = xs]
    BY <1>6, <1>1 DEF McpTables
  <1> HIDE DEF e, m, xs
  <1>8. /\ e \in McpTables /\ e.next = d.next /\ e.proved = d.proved /\ e.codes = d.codes /\ e.consumed = xs
        /\ e.families = d.families /\ e.tokens = d.tokens /\ e.assertions = d.assertions /\ e.acted = d.acted
    BY <1>1, <1>3, <1>7 DEF McpTables
  <1>9. ASSUME NEW n \in Nat, n \in all \/ Spent(d, n) PROVE Spent(e, n)
    <2>1. \A i, j \in d.codes : i.id = j.id => i = j
      BY DEF Connections, Traced
    <2>2. CASE n \in all
      <3>1. CASE \A j \in d.codes : j.id = n => ~j.lapsed
        BY <3>1, <2>2, <1>8 DEF Spent, xs
      <3>2. CASE \E j \in d.codes : j.id = n /\ j.lapsed
        BY <3>2, <2>1, <1>8 DEF Spent
      <3> QED
        BY <3>1, <3>2
    <2>3. CASE \A j \in d.codes : j.id = n => j.lapsed
      BY <2>3, <1>8 DEF Spent
    <2> QED
      BY <2>2, <2>3, <1>9 DEF Spent
  <1>10. Traced(e)
    BY <1>8 DEF Connections, Traced, Proved
  <1>11. \A j \in d.codes : \E i \in e.codes : i.id = j.id
    BY <1>8
  <1>12. \A n \in Nat : Spent(d, n) => Spent(e, n)
    BY <1>9
  <1>13. Connections(e) /\ McpGrows(d, e, own)
    BY <1>8, <1>10, <1>11, <1>12, SpendingStatement
  <1>14. Spent(e, k.id)
    BY <1>1, <1>9
  <1> QED
    BY <1>8, <1>13, <1>14 DEF e

(* A code that is spent and yet not among the consumed ones has lapsed.    *)
LEMMA LateCode ==
    ASSUME NEW d, Connections(d), NEW n, \E k \in d.codes : k.id = n, n \notin d.consumed
    PROVE  CodeOf(d, n).lapsed \in BOOLEAN /\ (Spent(d, n) => CodeOf(d, n).lapsed)
  <1>1. CodeOf(d, n) \in d.codes /\ CodeOf(d, n).id = n
    BY DEF CodeOf
  <1>2. CodeOf(d, n).lapsed \in BOOLEAN
    BY <1>1, McpTypes
  <1> QED
    BY <1>1, <1>2 DEF Spent

(* record_family and the first pair of tokens.                             *)
LEMMA RecordStatement ==
    ASSUME NEW d, Connections(d), NEW own, own.op = "record", McpFrame(d, own)
    PROVE  LET a == own.code.assertion
               r == RecordFamily(d, a.subject, a.team, own.code.request.client, own.code, own.late)
               e == MintTokenPair(r, d.next, d.next, 0, own.code.request.client, own.party)
           IN  Connections(e) /\ McpGrows(d, e, own)
  <1> DEFINE a == own.code.assertion
             fam == [id |-> d.next, subject |-> a.subject, team |-> a.team, client |-> own.code.request.client,
                     current |-> d.next, status |-> "live", code |-> own.code.id, late |-> own.late,
                     request |-> own.code.request]
             tok == [family |-> d.next, jti |-> d.next, parent |-> 0, client |-> own.code.request.client,
                     party |-> own.party]
             r == RecordFamily(d, a.subject, a.team, own.code.request.client, own.code, own.late)
             e == MintTokenPair(r, d.next, d.next, 0, own.code.request.client, own.party)
             fs == d.families \cup {fam}
             ts == d.tokens \cup {tok}
             n1 == d.next + 1
  <1>1. d \in McpTables /\ d.next \in Nat /\ d.next > 0
    BY McpTypes
  <1>2. /\ own.party \in Parties /\ own.code \in CodeRow /\ own.code.request.by = own.party
        /\ Proved(d, own.code.assertion.subject, own.code.request) /\ own.late \in BOOLEAN
        /\ Spent(d, own.code.id) /\ \A g \in d.families : g.code = own.code.id => g.late \/ own.late
    BY DEF McpFrame, Exchanging
  <1>3. PICK k \in d.codes : k.id = own.code.id
    BY DEF McpFrame, Exchanging
  <1>4. own.code.id \in Nat /\ own.code.id < d.next
    BY <1>3, McpTypes
  <1>5. /\ fam \in FamilyRow /\ fam.id = d.next /\ fam.current = d.next /\ fam.code = own.code.id
        /\ fam.late = own.late /\ fam.request = own.code.request /\ fam.subject = own.code.assertion.subject
    BY <1>1, <1>2 DEF FamilyRow, CodeRow, AssertionRow, RequestRow
  <1>6. tok \in TokenRow /\ tok.family = d.next /\ tok.jti = d.next /\ tok.parent = 0 /\ tok.party = own.party
    BY <1>1, <1>2 DEF TokenRow, CodeRow, RequestRow
  <1>7. r = [d EXCEPT !.families = fs, !.next = n1]
    BY DEF RecordFamily, Issue
  <1>8. e = [r EXCEPT !.tokens = @ \cup {tok}]
    BY DEF MintTokenPair
  <1>9. e = [d EXCEPT !.families = fs, !.next = n1, !.tokens = ts]
    BY <1>1, <1>7, <1>8 DEF McpTables
  <1> HIDE DEF e, r, fam, tok
  <1>10. fs \in SUBSET FamilyRow /\ ts \in SUBSET TokenRow /\ n1 \in Nat
    BY <1>1, <1>5, <1>6 DEF McpTables
  <1> HIDE DEF fs, ts, n1
  <1>11. /\ e \in McpTables /\ e.next = n1 /\ e.proved = d.proved /\ e.codes = d.codes /\ e.consumed = d.consumed
         /\ e.families = fs /\ e.tokens = ts /\ e.assertions = d.assertions /\ e.acted = d.acted
    BY <1>1, <1>9, <1>10 DEF McpTables
  <1>12. /\ \A n : Spent(d, n) = Spent(e, n)
         /\ \A u, x : Proved(d, u, x) = Proved(e, u, x)
    BY <1>11 DEF Spent, Proved
  <1>13. Traced(e)
    <2>1. \A j \in d.codes : j.id \in Nat /\ j.id < d.next
      BY McpTypes
    <2> QED
      BY <2>1, <1>1, <1>11, <1>12 DEF Connections, Traced, n1
  <1>14. \A g \in d.families : /\ g.id \in Nat /\ g.current \in Nat /\ g.code \in Nat
                               /\ g.id < d.next /\ g.current < d.next /\ g.code < d.next
    BY McpTypes
  <1>15. Recorded(e)
    <2>1. ASSUME NEW g \in e.families
          PROVE  /\ g.id < e.next /\ g.current < e.next /\ g.code < e.next
                 /\ Proved(e, g.subject, g.request) /\ Spent(e, g.code)
      <3>1. CASE g = fam
        BY <3>1, <1>1, <1>2, <1>4, <1>5, <1>11, <1>12 DEF n1
      <3>2. CASE g \in d.families
        <4>1. Proved(d, g.subject, g.request) /\ Spent(d, g.code)
          BY <3>2 DEF Connections, Recorded
        <4> QED
          BY <4>1, <3>2, <1>1, <1>11, <1>12, <1>14 DEF n1
      <3> QED
        BY <3>1, <3>2, <1>11 DEF fs
    <2>2. \A f, g \in e.families : f.id = g.id => f = g
      BY <1>1, <1>5, <1>11, <1>14 DEF Connections, Recorded, fs
    <2>3. \A f, g \in e.families : f.code = g.code /\ f # g => f.late \/ g.late
      BY <1>2, <1>5, <1>11 DEF Connections, Recorded, fs
    <2> QED
      BY <2>1, <2>2, <2>3 DEF Recorded
  <1>16. \A x \in d.tokens : x.family \in Nat /\ x.family < d.next
    BY McpTypes
  <1>17. Chained(e)
    <2>1. ASSUME NEW x \in e.tokens
          PROVE  x.parent < x.jti /\ \E f \in e.families : f.id = x.family /\ f.request.by = x.party /\ x.jti <= f.current
      <3>1. CASE x = tok
        <4>1. fam \in e.families /\ fam.id = x.family /\ fam.request.by = x.party /\ x.jti <= fam.current
          BY <3>1, <1>1, <1>2, <1>5, <1>6, <1>11 DEF fs
        <4> QED
          BY <4>1, <3>1, <1>1, <1>6
      <3>2. CASE x \in d.tokens
        BY <3>2, <1>11 DEF Connections, Chained, fs
      <3> QED
        BY <3>1, <3>2, <1>11 DEF ts
    <2>2. \A x, y \in e.tokens : x.family = y.family /\ x.parent = y.parent => x = y
      BY <1>1, <1>6, <1>11, <1>16 DEF Connections, Chained, ts
    <2>3. \A x \in e.acted : ~x.late /\ \E f \in e.families : f.id = x.family
      BY <1>11 DEF Connections, Chained, fs
    <2> QED
      BY <2>1, <2>2, <2>3 DEF Chained
  <1>18. Connections(e)
    BY <1>1, <1>11, <1>13, <1>15, <1>17 DEF Connections, n1
  <1>19. McpGrows(d, e, own)
    <2>1. d.next <= e.next /\ d.proved \subseteq e.proved /\ d.tokens \subseteq e.tokens
      BY <1>1, <1>11 DEF n1, ts
    <2>2. \A g \in d.families : \E h \in e.families : Succeeds(g, h)
      BY <1>11, <1>14 DEF Succeeds, fs
    <2>3. \A h \in e.families : NewFamily(d, own, h)
      BY <1>5, <1>11 DEF NewFamily, fs
    <2>4. \A x \in e.tokens : NewToken(d, own, x)
      BY <1>1, <1>6, <1>11 DEF NewToken, ts
    <2> QED
      BY <2>1, <2>2, <2>3, <2>4, <1>11, <1>12 DEF McpGrows
  <1> QED
    BY <1>18, <1>19 DEF e, r, a

(* A family that was written again: what is not its status or current      *)
(* token stays.                                                            *)
Rewritten(g, h) ==
    /\ h.id = g.id /\ h.subject = g.subject /\ h.request = g.request /\ h.code = g.code /\ h.late = g.late
    /\ g.current <= h.current

LEMMA FamilyStatement ==
    ASSUME NEW d, NEW e, Connections(d), NEW own, e \in McpTables, d.next <= e.next, e.proved = d.proved,
           e.codes = d.codes, e.consumed = d.consumed, e.tokens = d.tokens,
           e.assertions = d.assertions, e.acted = d.acted,
           \A g \in d.families : \E h \in e.families : Rewritten(g, h),
           \A h \in e.families : \E g \in d.families : Rewritten(g, h),
           \A h \in e.families : h.current < e.next,
           \A g, h \in e.families : g.id = h.id => g = h
    PROVE  Connections(e) /\ McpGrows(d, e, own)
  <1>1. /\ d.next \in Nat /\ d.next > 0 /\ e.next \in Nat
        /\ \A k \in d.codes : k.id \in Nat /\ k.id < d.next
        /\ \A g \in d.families : /\ g.id \in Nat /\ g.current \in Nat /\ g.code \in Nat
                                 /\ g.id < d.next /\ g.current < d.next /\ g.code < d.next
        /\ \A x \in d.tokens : x.jti \in Nat
    BY McpTypes DEF McpTables
  <1>2. \A h \in e.families : h.current \in Nat /\ h.id \in Nat /\ h.code \in Nat
    BY DEF McpTables, FamilyRow
  <1>3. /\ \A n : Spent(d, n) = Spent(e, n)
        /\ \A u, x : Proved(d, u, x) = Proved(e, u, x)
    BY DEF Spent, Proved
  <1>4. Traced(e)
    BY <1>1, <1>3 DEF Connections, Traced
  <1>5. Recorded(e)
    <2>1. ASSUME NEW h \in e.families
          PROVE  h.id < e.next /\ h.code < e.next /\ Proved(e, h.subject, h.request) /\ Spent(e, h.code)
      <3>1. PICK g \in d.families : Rewritten(g, h)
        OBVIOUS
      <3>2. Proved(d, g.subject, g.request) /\ Spent(d, g.code)
        BY DEF Connections, Recorded
      <3> QED
        BY <3>1, <3>2, <1>1, <1>2, <1>3 DEF Rewritten
    <2>2. ASSUME NEW x \in e.families, NEW y \in e.families, x.code = y.code, x # y PROVE x.late \/ y.late
      <3>1. PICK g \in d.families : Rewritten(g, x)
        OBVIOUS
      <3>2. PICK h \in d.families : Rewritten(h, y)
        OBVIOUS
      <3>3. g # h
        BY <3>1, <3>2, <2>2 DEF Rewritten
      <3>4. g.late \/ h.late
        BY <3>1, <3>2, <3>3, <2>2 DEF Rewritten, Connections, Recorded
      <3> QED
        BY <3>1, <3>2, <3>4 DEF Rewritten
    <2> QED
      BY <2>1, <2>2 DEF Recorded
  <1>6. Chained(e)
    <2>1. ASSUME NEW x \in e.tokens
          PROVE  x.parent < x.jti /\ \E f \in e.families : f.id = x.family /\ f.request.by = x.party /\ x.jti <= f.current
      <3>1. x.parent < x.jti
        BY DEF Connections, Chained
      <3>2. PICK g \in d.families : g.id = x.family /\ g.request.by = x.party /\ x.jti <= g.current
        BY DEF Connections, Chained
      <3>3. PICK h \in e.families : Rewritten(g, h)
        OBVIOUS
      <3> QED
        BY <3>1, <3>2, <3>3, <1>1, <1>2 DEF Rewritten
    <2>2. \A x \in e.acted : ~x.late /\ \E f \in e.families : f.id = x.family
      BY DEF Connections, Chained, Rewritten
    <2> QED
      BY <2>1, <2>2 DEF Connections, Chained
  <1>7. Connections(e)
    BY <1>1, <1>4, <1>5, <1>6 DEF Connections
  <1>8. McpGrows(d, e, own)
    <2>1. \A g \in d.families : \E h \in e.families : Succeeds(g, h)
      BY DEF Rewritten, Succeeds
    <2>2. \A h \in e.families : NewFamily(d, own, h)
      BY DEF Rewritten, NewFamily
    <2>3. \A x \in e.tokens : NewToken(d, own, x)
      BY DEF NewToken
    <2> QED
      BY <2>1, <2>2, <2>3, <1>3 DEF McpGrows
  <1> QED
    BY <1>7, <1>8

(* One family is written again.                                            *)
LEMMA OneFamilyStatement ==
    ASSUME NEW d, NEW e, Connections(d), NEW own, NEW f \in d.families, NEW new \in FamilyRow, NEW n \in Nat,
           d.next <= n, Rewritten(f, new), new.current < n,
           e = [d EXCEPT !.next = n, !.families = (d.families \ {f}) \cup {new}]
    PROVE  Connections(e) /\ McpGrows(d, e, own) /\ e.tokens = d.tokens /\ new \in e.families
  <1> DEFINE fs == (d.families \ {f}) \cup {new}
  <1>1. d \in McpTables /\ d.next \in Nat
    BY McpTypes
  <1>2. fs \in SUBSET FamilyRow
    BY <1>1 DEF McpTables
  <1>3. e = [d EXCEPT !.next = n, !.families = fs]
    OBVIOUS
  <1> HIDE DEF fs
  <1>4. /\ e \in McpTables /\ e.next = n /\ e.proved = d.proved /\ e.codes = d.codes /\ e.consumed = d.consumed
        /\ e.families = fs /\ e.tokens = d.tokens /\ e.assertions = d.assertions /\ e.acted = d.acted
    BY <1>1, <1>2, <1>3 DEF McpTables
  <1>5. \A g \in d.families : /\ g.current \in Nat /\ g.current < d.next
                              /\ g.id = f.id => g = f
    BY McpTypes DEF Connections, Recorded
  <1>6. \A g \in d.families : Rewritten(g, g)
    BY <1>5 DEF Rewritten
  <1>7. \A g \in d.families : \E h \in e.families : Rewritten(g, h)
    BY <1>4, <1>6 DEF fs
  <1>8. \A h \in e.families : \E g \in d.families : Rewritten(g, h)
    BY <1>4, <1>6 DEF fs
  <1>9. \A h \in e.families : h.current < e.next
    BY <1>1, <1>4, <1>5 DEF fs
  <1>10. \A g, h \in e.families : g.id = h.id => g = h
    <2>1. new.id = f.id
      BY DEF Rewritten
    <2> QED
      BY <2>1, <1>4, <1>5 DEF fs, Connections, Recorded
  <1>11. Connections(e) /\ McpGrows(d, e, own)
    BY <1>4, <1>7, <1>8, <1>9, <1>10, FamilyStatement
  <1> QED
    BY <1>4, <1>11 DEF fs

(* revoke_families_for_agent                                               *)
LEMMA RevokeStatement ==
    ASSUME NEW d, Connections(d), NEW own, NEW u, NEW t
    PROVE  Connections(RevokeFamiliesForAgent(d, u, t)) /\ McpGrows(d, RevokeFamiliesForAgent(d, u, t), own)
  <1> DEFINE e == RevokeFamiliesForAgent(d, u, t)
             now(f) == IF f.subject = u /\ f.team = t THEN [f EXCEPT !.status = "revoked"] ELSE f
             fs == {now(f) : f \in d.families}
  <1>1. d \in McpTables /\ d.next \in Nat
    BY McpTypes
  <1>2. \A f \in d.families : f \in FamilyRow /\ f.current \in Nat /\ f.current < d.next
    BY McpTypes
  <1>3. ASSUME NEW f \in d.families PROVE now(f) \in FamilyRow /\ Rewritten(f, now(f)) /\ now(f).current < d.next
    <2>1. CASE f.subject = u /\ f.team = t
      BY <2>1, <1>2 DEF FamilyRow, Rewritten
    <2>2. CASE ~(f.subject = u /\ f.team = t)
      BY <2>2, <1>2 DEF Rewritten
    <2> QED
      BY <2>1, <2>2
  <1>4. e = [d EXCEPT !.families = fs]
    BY DEF RevokeFamiliesForAgent
  <1>5. \A f, g \in d.families : now(f).id = now(g).id => f = g
    BY <1>3 DEF Rewritten, Connections, Recorded
  <1> HIDE DEF now, e
  <1>6. fs \in SUBSET FamilyRow
    BY <1>3
  <1> HIDE DEF fs
  <1>7. /\ e \in McpTables /\ e.next = d.next /\ e.proved = d.proved /\ e.codes = d.codes /\ e.consumed = d.consumed
        /\ e.families = fs /\ e.tokens = d.tokens /\ e.assertions = d.assertions /\ e.acted = d.acted
    BY <1>1, <1>4, <1>6 DEF McpTables
  <1>8. \A g \in d.families : \E h \in e.families : Rewritten(g, h)
    BY <1>3, <1>7 DEF fs
  <1>9. \A h \in e.families : \E g \in d.families : Rewritten(g, h)
    BY <1>3, <1>7 DEF fs
  <1>10. \A h \in e.families : h.current < e.next
    BY <1>3, <1>7 DEF fs
  <1>11. \A g, h \in e.families : g.id = h.id => g = h
    BY <1>5, <1>7 DEF fs
  <1>12. d.next <= e.next
    BY <1>1, <1>7
  <1>13. Connections(e) /\ McpGrows(d, e, own)
    BY <1>7, <1>8, <1>9, <1>10, <1>11, <1>12, FamilyStatement
  <1> QED
    BY <1>13 DEF e

(* The pair of tokens after a rotation.                                    *)
LEMMA MintStatement ==
    ASSUME NEW d, Connections(d), NEW own, own.op = "mint", McpFrame(d, own)
    PROVE  LET tk == own.token
               e == MintTokenPair(d, tk.family, own.jti, tk.jti, tk.client, tk.party)
           IN  Connections(e) /\ McpGrows(d, e, own)
  <1> DEFINE tk == own.token
             new == [family |-> tk.family, jti |-> own.jti, parent |-> tk.jti, client |-> tk.client, party |-> tk.party]
             e == MintTokenPair(d, tk.family, own.jti, tk.jti, tk.client, tk.party)
             ts == d.tokens \cup {new}
  <1>1. d \in McpTables /\ d.next \in Nat /\ d.next > 0
    BY McpTypes
  <1>2. /\ tk \in d.tokens /\ own.jti \in Nat /\ tk.jti < own.jti
        /\ \A x \in d.tokens : x.family = tk.family => x.parent # tk.jti
    BY DEF McpFrame
  <1>3. PICK g \in d.families : g.id = tk.family /\ own.jti <= g.current
    BY DEF McpFrame
  <1>4. PICK h \in d.families : h.id = tk.family /\ h.request.by = tk.party
    BY <1>2 DEF Connections, Chained
  <1>5. g = h
    BY <1>3, <1>4 DEF Connections, Recorded
  <1>6. tk \in TokenRow
    BY <1>2, McpTypes
  <1>7. /\ new \in TokenRow /\ new.family = tk.family /\ new.jti = own.jti /\ new.parent = tk.jti
        /\ new.party = tk.party
    BY <1>2, <1>6 DEF TokenRow
  <1>8. e = [d EXCEPT !.tokens = ts]
    BY DEF MintTokenPair
  <1> HIDE DEF e, new, tk
  <1>9. ts \in SUBSET TokenRow
    BY <1>1, <1>7 DEF McpTables
  <1> HIDE DEF ts
  <1>10. /\ e \in McpTables /\ e.next = d.next /\ e.proved = d.proved /\ e.codes = d.codes /\ e.consumed = d.consumed
         /\ e.families = d.families /\ e.tokens = ts /\ e.assertions = d.assertions /\ e.acted = d.acted
    BY <1>1, <1>8, <1>9 DEF McpTables
  <1>11. /\ \A n : Spent(d, n) = Spent(e, n)
         /\ \A u, x : Proved(d, u, x) = Proved(e, u, x)
    BY <1>10 DEF Spent, Proved
  <1>12. Traced(e) /\ Recorded(e)
    BY <1>10, <1>11 DEF Connections, Traced, Recorded
  <1>13. Chained(e)
    <2>1. ASSUME NEW x \in e.tokens
          PROVE  x.parent < x.jti /\ \E f \in e.families : f.id = x.family /\ f.request.by = x.party /\ x.jti <= f.current
      <3>1. CASE x = new
        BY <3>1, <1>2, <1>3, <1>4, <1>5, <1>7, <1>10
      <3>2. CASE x \in d.tokens
        BY <3>2, <1>10 DEF Connections, Chained
      <3> QED
        BY <3>1, <3>2, <1>10 DEF ts
    <2>2. \A x, y \in e.tokens : x.family = y.family /\ x.parent = y.parent => x = y
      BY <1>2, <1>7, <1>10 DEF Connections, Chained, ts
    <2> QED
      BY <2>1, <2>2, <1>10 DEF Connections, Chained
  <1>14. Connections(e)
    BY <1>1, <1>10, <1>12, <1>13 DEF Connections
  <1>15. McpGrows(d, e, own)
    <2>1. \A x \in e.tokens : NewToken(d, own, x)
      BY <1>7, <1>10 DEF NewToken, ts, tk
    <2>2. \A g2 \in d.families : g2.current \in Nat
      BY McpTypes
    <2>3. \A g2 \in d.families : Succeeds(g2, g2)
      BY <2>2 DEF Succeeds
    <2>4. \A g2 \in d.families : NewFamily(d, own, g2)
      BY DEF NewFamily
    <2>5. d.tokens \subseteq e.tokens /\ d.next <= e.next
      BY <1>1, <1>10 DEF ts
    <2> QED
      BY <2>1, <2>3, <2>4, <2>5, <1>10, <1>11 DEF McpGrows
  <1> QED
    BY <1>14, <1>15 DEF e, tk

-----------------------------------------------------------------------------
(* MCP connections: handlers                                               *)

LEMMA McpHolds ==
    ASSUME Facts
    PROVE  Connections(mcp) /\ mcp \in McpTables /\ \A c \in Callers : McpFrame(mcp, call[c])
  BY McpTypes DEF Facts, McpFacts

LEMMA RegisterClientKeeps ==
    ASSUME Facts, NEW p \in Parties, RegisterClient(p)
    PROVE  Facts'
  <1>1. load.part = "mcp" /\ UNCHANGED <<load, soc, dev, call>>
    BY DEF RegisterClient, Mcp
  <1> DEFINE cs == mcp.clients \cup {p}
  <1>2. mcp' = [mcp EXCEPT !.clients = cs]
    BY DEF RegisterClient
  <1>3. Connections(mcp) /\ mcp \in McpTables /\ cs \in SUBSET Parties /\ mcp.next \in Nat
    BY McpHolds DEF McpTables
  <1> HIDE DEF cs
  <1>4. /\ mcp' \in McpTables /\ mcp'.next = mcp.next /\ mcp'.proved = mcp.proved /\ mcp'.codes = mcp.codes
        /\ mcp'.consumed = mcp.consumed /\ mcp'.families = mcp.families /\ mcp'.tokens = mcp.tokens
        /\ mcp'.assertions = mcp.assertions /\ mcp'.acted = mcp.acted
    BY <1>2, <1>3 DEF McpTables
  <1>5. mcp.next <= mcp'.next /\ mcp.proved \subseteq mcp'.proved
    BY <1>3, <1>4
  <1>6. Connections(mcp') /\ McpGrows(mcp, mcp', Idle)
    BY <1>3, <1>4, <1>5, StillFits, QuietStatement
  <1> QED
    BY <1>1, <1>6, McpAtOnce

LEMMA AuthorizePageKeeps ==
    ASSUME Facts, NEW p \in Parties, NEW q \in Parties, AuthorizePage(p, q)
    PROVE  Facts'
  <1> DEFINE r == [id |-> mcp.next, client |-> q, by |-> p]
  <1>1. load.part = "mcp" /\ UNCHANGED <<load, soc, dev, call>> /\ mcp' = Issue(mcp, "requests", r)
    BY DEF AuthorizePage, Mcp
  <1>2. r \in RequestRow
    BY McpHolds DEF RequestRow, McpTables
  <1> HIDE DEF r
  <1>3. Connections(mcp') /\ McpGrows(mcp, mcp', Idle)
    BY <1>1, <1>2, McpHolds, RequestStatement
  <1> QED
    BY <1>1, <1>3, McpAtOnce

LEMMA BeginAuthorizationKeeps ==
    ASSUME Facts, NEW u \in People, BeginAuthorization(u)
    PROVE  Facts'
  <1> DEFINE ch == [id |-> mcp.next, user |-> u]
  <1>1. load.part = "mcp" /\ UNCHANGED <<load, soc, dev, call>> /\ mcp' = Issue(mcp, "challenges", ch)
    BY DEF BeginAuthorization, Mcp
  <1>2. ch \in [id : Nat, user : People]
    BY McpHolds DEF McpTables
  <1> HIDE DEF ch
  <1>3. Connections(mcp') /\ McpGrows(mcp, mcp', Idle)
    BY <1>1, <1>2, McpHolds, ChallengeStatement
  <1> QED
    BY <1>1, <1>3, McpAtOnce

LEMMA AuthorizeCallbackKeeps ==
    ASSUME Facts, NEW a \in mcp.assertions, AuthorizeCallback(a)
    PROVE  Facts'
  <1> DEFINE k == [id |-> mcp.next, assertion |-> a, request |-> a.request, lapsed |-> FALSE]
  <1>1. load.part = "mcp" /\ UNCHANGED <<load, soc, dev, call>> /\ mcp' = Issue(mcp, "codes", k)
    BY DEF AuthorizeCallback, Mcp
  <1>2. a \in AssertionRow /\ Proved(mcp, a.subject, a.request) /\ mcp.next \in Nat
    BY McpHolds DEF McpTables, Connections, Traced
  <1>3. k \in CodeRow /\ k.id = mcp.next /\ k.assertion = a /\ k.request = a.request
    BY <1>2 DEF CodeRow, AssertionRow
  <1> HIDE DEF k
  <1>4. Connections(mcp') /\ McpGrows(mcp, mcp', Idle)
    BY <1>1, <1>2, <1>3, McpHolds, CodeStatement
  <1> QED
    BY <1>1, <1>4, McpAtOnce

(* A passkey answered a challenge.                                         *)
LEMMA Answered ==
    ASSUME Facts, NEW ch \in mcp.challenges, NEW r \in mcp.requests, NEW own,
           mcp' = [mcp EXCEPT !.challenges = @ \ {ch}, !.proved = @ \cup {[user |-> ch.user, request |-> r]}]
    PROVE  /\ Connections(mcp') /\ McpGrows(mcp, mcp', own) /\ Proved(mcp', ch.user, r)
           /\ ch.user \in People /\ r \in RequestRow
  <1>1. ch.user \in People /\ r \in RequestRow
    BY McpHolds DEF McpTables
  <1> QED
    BY <1>1, McpHolds, ProofStatement

LEMMA Provisioning ==
    ASSUME Facts, load.part = "mcp", UNCHANGED <<load, soc, dev>>, NEW c \in Callers,
           NEW u \in People, NEW t \in Teams, NEW r \in RequestRow, Proved(mcp', u, r),
           Begin(c, [op |-> "provision", user |-> u, team |-> t, request |-> r]),
           Connections(mcp'), McpGrows(mcp, mcp', call[c])
    PROVE  Facts'
  <1> DEFINE f == [op |-> "provision", user |-> u, team |-> t, request |-> r]
  <1>1. f.op \in McpOps \ {"record", "mint"} /\ McpFrame(mcp', f) /\ call' = [call EXCEPT ![c] = f]
    BY DEF McpOps, McpFrame, Exchanging, Begin
  <1> HIDE DEF f
  <1> QED
    BY <1>1, McpContinues

LEMMA FinishAuthorizationKeeps ==
    ASSUME Facts, NEW c \in Callers, NEW u \in People, NEW t \in Teams, NEW ch \in mcp.challenges,
           NEW r \in mcp.requests, FinishAuthorization(c, u, t, ch, r)
    PROVE  Facts'
  <1>1. /\ load.part = "mcp" /\ UNCHANGED <<load, soc, dev>>
        /\ mcp' = [mcp EXCEPT !.challenges = @ \ {ch}, !.proved = @ \cup {[user |-> ch.user, request |-> r]}]
    BY DEF FinishAuthorization, Mcp
  <1>2. CASE UNCHANGED call
    <2>1. Connections(mcp') /\ McpGrows(mcp, mcp', Idle)
      BY <1>1, Answered
    <2> QED
      BY <2>1, <1>1, <1>2, McpAtOnce
  <1>3. CASE VerifiedUserMatches(u, ch) /\ Begin(c, [op |-> "provision", user |-> u, team |-> t, request |-> r])
    <2>1. /\ Connections(mcp') /\ McpGrows(mcp, mcp', call[c]) /\ Proved(mcp', ch.user, r)
          /\ ch.user \in People /\ r \in RequestRow
      BY <1>1, Answered
    <2>2. ch.user = u
      BY <1>3 DEF VerifiedUserMatches
    <2> QED
      BY <2>1, <2>2, <1>1, <1>3, Provisioning
  <1> QED
    BY <1>2, <1>3 DEF FinishAuthorization

LEMMA AuthorizeAtLoginKeeps ==
    ASSUME Facts, NEW c \in Callers, NEW t \in Teams, NEW ch \in mcp.challenges,
           NEW r \in mcp.requests, AuthorizeAtLogin(c, t, ch, r)
    PROVE  Facts'
  <1>1. /\ load.part = "mcp" /\ UNCHANGED <<load, soc, dev>>
        /\ mcp' = [mcp EXCEPT !.challenges = @ \ {ch}, !.proved = @ \cup {[user |-> ch.user, request |-> r]}]
        /\ Begin(c, [op |-> "provision", user |-> ch.user, team |-> t, request |-> r])
    BY DEF AuthorizeAtLogin, Mcp
  <1>2. /\ Connections(mcp') /\ McpGrows(mcp, mcp', call[c]) /\ Proved(mcp', ch.user, r)
        /\ ch.user \in People /\ r \in RequestRow
    BY <1>1, Answered
  <1> QED
    BY <1>1, <1>2, Provisioning

LEMMA ProvisionAgentKeeps ==
    ASSUME Facts, NEW c \in Callers, ProvisionAgent(c)
    PROVE  Facts'
  <1> DEFINE f == call[c]
             g == [f EXCEPT !.op = "promote"]
  <1>1. /\ load.part = "mcp" /\ UNCHANGED <<load, soc, dev>> /\ f.op = "provision"
        /\ mcp' = CreateMcpAgent(mcp, f.user, f.team) /\ Continue(c, g)
    BY DEF ProvisionAgent, Mcp
  <1>2. f.user \in People /\ f.team \in Teams /\ f.request \in RequestRow /\ Proved(mcp, f.user, f.request)
    BY <1>1, McpHolds DEF McpFrame
  <1>3. Connections(mcp') /\ McpGrows(mcp, mcp', f) /\ mcp'.proved = mcp.proved
    BY <1>1, <1>2, McpHolds, CreateAgent
  <1>4. g.user = f.user /\ g.team = f.team /\ g.request = f.request /\ (g.op = "promote" \/ g.op = f.op)
    OBVIOUS
  <1> HIDE DEF f, g
  <1>5. g.op \in McpOps \ {"record", "mint"}
    BY <1>1, <1>4 DEF McpOps
  <1>6. McpFrame(mcp', g)
    BY <1>1, <1>2, <1>3, <1>4 DEF McpFrame, Proved, Exchanging
  <1> QED
    BY <1>1, <1>3, <1>5, <1>6, McpContinues DEF Continue, f

LEMMA IssueAuthorizationAssertionKeeps ==
    ASSUME Facts, NEW c \in Callers, IssueAuthorizationAssertion(c)
    PROVE  Facts'
  <1> DEFINE f == call[c]
             d == SetAgentAllCredentials(mcp, f.user, f.team)
             a == [id |-> mcp.next, request |-> f.request, subject |-> f.user, team |-> f.team, age |-> "fresh"]
  <1>1. /\ load.part = "mcp" /\ UNCHANGED <<load, soc, dev>> /\ f.op = "promote"
        /\ mcp' = Issue(d, "assertions", a) /\ Return(c)
    BY DEF IssueAuthorizationAssertion, Mcp
  <1>2. f.user \in People /\ f.team \in Teams /\ f.request \in RequestRow /\ Proved(mcp, f.user, f.request)
    BY <1>1, McpHolds DEF McpFrame
  <1>3. /\ Connections(d) /\ McpGrows(mcp, d, f) /\ d.proved = mcp.proved /\ d.next = mcp.next
        /\ d.tokens = mcp.tokens
    BY <1>2, McpHolds, PromoteAgent, AgentTokens
  <1>4. a \in AssertionRow /\ a.subject = f.user /\ a.request = f.request
    BY <1>2, McpHolds DEF AssertionRow, McpTables
  <1> HIDE DEF f, d, a
  <1>5. Connections(mcp') /\ McpGrows(d, mcp', f)
    BY <1>1, <1>2, <1>3, <1>4, AssertionStatement DEF Proved
  <1>6. McpGrows(mcp, mcp', f)
    BY <1>3, <1>5, McpHolds, McpGrowsTwice
  <1> QED
    BY <1>1, <1>5, <1>6, McpReturns DEF f

LEMMA ExchangeAuthorizationCodeKeeps ==
    ASSUME Facts, NEW c \in Callers, NEW p \in Parties, NEW k \in mcp.codes, ExchangeAuthorizationCode(c, p, k)
    PROVE  Facts'
  <1> DEFINE f == [op |-> "issueToken", party |-> p, code |-> k]
  <1>1. load.part = "mcp" /\ UNCHANGED <<load, soc, dev, mcp>> /\ Begin(c, f) /\ k.request.by = p
    BY DEF ExchangeAuthorizationCode, Mcp, PkceMatches
  <1>2. k \in CodeRow /\ Proved(mcp, k.assertion.subject, k.request)
    BY McpHolds DEF McpTables, Connections, Traced
  <1>3. f.op = "issueToken" /\ f.party = p /\ f.code = k
    OBVIOUS
  <1> HIDE DEF f
  <1>4. f.op \in McpOps \ {"record", "mint"} /\ McpFrame(mcp', f)
    BY <1>1, <1>2, <1>3 DEF McpOps, McpFrame, Exchanging
  <1>5. Connections(mcp') /\ McpGrows(mcp, mcp', call[c])
    BY <1>1, McpHolds, McpSame
  <1> QED
    BY <1>1, <1>4, <1>5, McpContinues DEF Begin

LEMMA ExchangeRefreshTokenKeeps ==
    ASSUME Facts, NEW c \in Callers, NEW q, NEW tk \in mcp.tokens, ExchangeRefreshToken(c, q, tk)
    PROVE  Facts'
  <1> DEFINE f == [op |-> "refresh", client |-> q, token |-> tk]
  <1>1. load.part = "mcp" /\ UNCHANGED <<load, soc, dev, mcp>> /\ Begin(c, f)
    BY DEF ExchangeRefreshToken, Mcp
  <1>2. f.op \in McpOps \ {"record", "mint"} /\ McpFrame(mcp', f)
    BY <1>1 DEF McpOps, McpFrame, Exchanging
  <1> HIDE DEF f
  <1>3. Connections(mcp') /\ McpGrows(mcp, mcp', call[c])
    BY <1>1, McpHolds, McpSame
  <1> QED
    BY <1>1, <1>2, <1>3, McpContinues DEF Begin

LEMMA IssueTokenKeeps ==
    ASSUME Facts, NEW c \in Callers, IssueToken(c)
    PROVE  Facts'
  <1> DEFINE f == call[c]
             a == f.code.assertion
             d == CreateMcpAgent(mcp, a.subject, a.team)
             g == [f EXCEPT !.op = "consume"]
  <1>1. load.part = "mcp" /\ UNCHANGED <<load, soc, dev>> /\ f.op = "issueToken"
    BY DEF IssueToken, Mcp
  <1>2. \/ mcp' = SetAgentAllCredentials(d, a.subject, a.team) /\ Continue(c, g)
        \/ Return(c) /\ UNCHANGED mcp
    BY DEF IssueToken
  <1>3. /\ f.party \in Parties /\ f.code \in CodeRow /\ f.code.request.by = f.party
        /\ Proved(mcp, f.code.assertion.subject, f.code.request)
        /\ \E k \in mcp.codes : k.id = f.code.id
    BY <1>1, McpHolds DEF McpFrame, Exchanging
  <1>4. a.subject \in People /\ a.team \in Teams
    BY <1>3 DEF CodeRow, AssertionRow
  <1>5. /\ Connections(d) /\ McpGrows(mcp, d, f) /\ d.proved = mcp.proved /\ d.tokens = mcp.tokens
        /\ d.codes = mcp.codes
    BY <1>4, McpHolds, CreateAgent, AgentTokens
  <1>6. g.party = f.party /\ g.code = f.code /\ (g.op = "consume" \/ g.op = f.op)
    OBVIOUS
  <1> HIDE DEF f, d, a, g
  <1>7. CASE mcp' = SetAgentAllCredentials(d, a.subject, a.team) /\ Continue(c, g)
    <2>1. /\ Connections(mcp') /\ McpGrows(d, mcp', f) /\ mcp'.proved = d.proved
          /\ mcp'.codes = mcp.codes
      BY <1>4, <1>5, <1>7, PromoteAgent, AgentTokens
    <2>2. McpGrows(mcp, mcp', f)
      BY <2>1, <1>5, McpHolds, McpGrowsTwice
    <2>3. g.op \in Exchanging /\ g.op \in McpOps \ {"record", "mint"}
      BY <1>1, <1>6 DEF McpOps, Exchanging
    <2>4. McpFrame(mcp', g)
      BY <2>1, <2>3, <1>3, <1>5, <1>6 DEF McpFrame, Exchanging, Proved
    <2> QED
      BY <2>1, <2>2, <2>3, <2>4, <1>1, <1>7, McpContinues DEF Continue, f
  <1>8. CASE Return(c) /\ UNCHANGED mcp
    <2>1. Connections(mcp') /\ McpGrows(mcp, mcp', f)
      BY <1>8, McpHolds, McpSame
    <2> QED
      BY <2>1, <1>1, <1>8, McpReturns DEF f
  <1> QED
    BY <1>2, <1>7, <1>8

LEMMA IssueConsumeKeeps ==
    ASSUME Facts, NEW c \in Callers, IssueConsume(c)
    PROVE  Facts'
  <1> DEFINE f == call[c]
             late == CodeOf(mcp, f.code.id).lapsed
             g == [op |-> "record", party |-> f.party, code |-> f.code, late |-> late]
  <1>1. /\ load.part = "mcp" /\ UNCHANGED <<load, soc, dev>> /\ f.op = "consume"
        /\ mcp' = ConsumeCode(mcp, f.code)
    BY DEF IssueConsume, Mcp
  <1>2. \/ ConsumesCode(mcp, f.code) /\ Continue(c, g)
        \/ Return(c)
    BY DEF IssueConsume
  <1>3. /\ f.party \in Parties /\ f.code \in CodeRow /\ f.code.request.by = f.party
        /\ Proved(mcp, f.code.assertion.subject, f.code.request)
        /\ \E k \in mcp.codes : k.id = f.code.id
    BY <1>1, McpHolds DEF McpFrame, Exchanging
  <1>4. /\ Connections(mcp') /\ McpGrows(mcp, mcp', f) /\ Spent(mcp', f.code.id)
        /\ mcp'.families = mcp.families /\ mcp'.proved = mcp.proved /\ mcp'.codes = mcp.codes
    BY <1>1, <1>3, McpHolds, ConsumeStatement
  <1>5. g.op = "record" /\ g.party = f.party /\ g.code = f.code /\ g.late = late
    OBVIOUS
  <1> HIDE DEF f, g, late
  <1>6. CASE ConsumesCode(mcp, f.code) /\ Continue(c, g)
    <2>1. late \in BOOLEAN /\ (Spent(mcp, f.code.id) => late)
      BY <1>3, <1>6, McpHolds, LateCode DEF ConsumesCode, late
    <2>2. ASSUME NEW h \in mcp'.families, h.code = f.code.id PROVE late
      <3>1. Spent(mcp, h.code)
        BY <1>4, McpHolds DEF Connections, Recorded
      <3> QED
        BY <3>1, <2>1, <2>2
    <2>3. McpFrame(mcp', g)
      BY <1>3, <1>4, <1>5, <2>1, <2>2 DEF McpFrame, Exchanging, Proved
    <2>4. ASSUME NEW b \in Callers, b # c PROVE McpApart(call[b], g)
      <3>1. call[b].op = "record" => Spent(mcp, call[b].code.id)
        BY McpHolds DEF McpFrame
      <3> QED
        BY <3>1, <2>1, <1>5 DEF McpApart
    <2>5. g.op \in {"idle"} \cup McpOps
      BY <1>5 DEF McpOps, Exchanging
    <2> QED
      BY <2>3, <2>4, <2>5, <1>1, <1>4, <1>6, McpStep DEF Continue, f
  <1>7. CASE Return(c)
    BY <1>1, <1>4, <1>7, McpReturns DEF f
  <1> QED
    BY <1>2, <1>6, <1>7

LEMMA IssueRecordKeeps ==
    ASSUME Facts, NEW c \in Callers, IssueRecord(c)
    PROVE  Facts'
  <1> DEFINE f == call[c]
             a == f.code.assertion
             r == RecordFamily(mcp, a.subject, a.team, f.code.request.client, f.code, f.late)
  <1>1. /\ load.part = "mcp" /\ UNCHANGED <<load, soc, dev>> /\ f.op = "record" /\ Return(c)
        /\ mcp' = MintTokenPair(r, mcp.next, mcp.next, 0, f.code.request.client, f.party)
    BY DEF IssueRecord, Mcp
  <1>2. Connections(mcp) /\ McpFrame(mcp, f)
    BY McpHolds
  <1> HIDE DEF f
  <1>3. Connections(mcp') /\ McpGrows(mcp, mcp', f)
    BY <1>1, <1>2, RecordStatement
  <1> QED
    BY <1>1, <1>3, McpReturns DEF f

LEMMA FamilyOfToken ==
    ASSUME NEW d, Connections(d), NEW n, \E g \in d.families : g.id = n
    PROVE  /\ FamilyOf(d, n) \in d.families /\ FamilyOf(d, n).id = n
           /\ \A g \in d.families : g.id = n => g = FamilyOf(d, n)
  <1>1. FamilyOf(d, n) \in d.families /\ FamilyOf(d, n).id = n
    BY DEF FamilyOf
  <1> QED
    BY <1>1 DEF Connections, Recorded

LEMMA RefreshTokenKeeps ==
    ASSUME Facts, NEW c \in Callers, RefreshToken(c)
    PROVE  Facts'
  <1> DEFINE own == call[c]
             tk == own.token
             f == FamilyOf(mcp, tk.family)
             g == [op |-> "mint", token |-> tk, jti |-> mcp.next]
             new == [f EXCEPT !.current = mcp.next]
             n1 == mcp.next + 1
  <1>1. load.part = "mcp" /\ UNCHANGED <<load, soc, dev>> /\ own.op = "refresh"
    BY DEF RefreshToken, Mcp
  <1>2. \/ RotatesFamily(f, tk.jti) /\ mcp' = RotateFamily(mcp, f) /\ Continue(c, g)
        \/ Return(c) /\ UNCHANGED mcp
    BY DEF RefreshToken
  <1>3. Connections(mcp) /\ mcp \in McpTables /\ tk \in mcp.tokens /\ mcp.next \in Nat
    BY <1>1, McpHolds DEF McpFrame, McpTables
  <1>4. CASE RotatesFamily(f, tk.jti) /\ mcp' = RotateFamily(mcp, f) /\ Continue(c, g)
    <2>1. \E h \in mcp.families : h.id = tk.family
      BY <1>3 DEF Connections, Chained
    <2>2. f \in mcp.families /\ f.id = tk.family /\ \A h \in mcp.families : h.id = tk.family => h = f
      BY <2>1, <1>3, FamilyOfToken
    <2>3. f \in FamilyRow /\ f.current \in Nat /\ f.current < mcp.next /\ f.current = tk.jti
      BY <2>2, <1>3, <1>4, McpTypes DEF RotatesFamily
    <2> HIDE DEF f
    <2>4. new \in FamilyRow /\ new.id = f.id /\ new.current = mcp.next /\ Rewritten(f, new)
      BY <2>3, <1>3 DEF FamilyRow, Rewritten
    <2>5. mcp' = [mcp EXCEPT !.next = n1, !.families = (mcp.families \ {f}) \cup {new}]
      BY <1>3, <1>4 DEF RotateFamily, WithFamily, McpTables
    <2> HIDE DEF new
    <2>6. n1 \in Nat /\ mcp.next <= n1 /\ new.current < n1
      BY <2>4, <1>3
    <2> HIDE DEF n1
    <2>7. Connections(mcp') /\ McpGrows(mcp, mcp', own) /\ mcp'.tokens = mcp.tokens /\ new \in mcp'.families
      BY <2>2, <2>4, <2>5, <2>6, <1>3, OneFamilyStatement
    <2>8. g.op = "mint" /\ g.token = tk /\ g.jti = mcp.next
      OBVIOUS
    <2> HIDE DEF g, tk, own
    <2>9. ASSUME NEW x \in mcp.tokens, x.family = tk.family PROVE x.parent # tk.jti
      <3>1. PICK h \in mcp.families : h.id = x.family /\ x.jti <= h.current
        BY <1>3 DEF Connections, Chained
      <3>2. x.jti \in Nat /\ x.parent \in Nat /\ x.parent < x.jti
        BY <1>3, McpTypes
      <3> QED
        BY <3>1, <3>2, <2>2, <2>3, <2>9
    <2>10. McpFrame(mcp', g)
      <3>1. mcp.next <= new.current /\ tk.jti < mcp.next /\ new.id = tk.family
        BY <2>2, <2>3, <2>4, <1>3
      <3> QED
        BY <3>1, <2>7, <2>8, <2>9, <1>3 DEF McpFrame, Exchanging
    <2>11. ASSUME NEW b \in Callers, b # c PROVE McpApart(call[b], g)
      <3>1. CASE call[b].op = "mint" /\ call[b].token.family = tk.family
        <4>1. call[b].token \in mcp.tokens /\ call[b].jti \in Nat /\ call[b].token.jti < call[b].jti
          BY <3>1, McpHolds DEF McpFrame
        <4>2. PICK h \in mcp.families : h.id = call[b].token.family /\ call[b].jti <= h.current
          BY <3>1, McpHolds DEF McpFrame
        <4>3. call[b].token.jti \in Nat
          BY <4>1, <1>3, McpTypes
        <4>4. call[b].token.jti # tk.jti
          BY <4>1, <4>2, <4>3, <3>1, <2>2, <2>3
        <4> QED
          BY <4>4, <3>1, <2>8 DEF McpApart
      <3> QED
        BY <3>1, <2>8 DEF McpApart
    <2>12. g.op \in {"idle"} \cup McpOps
      BY <2>8 DEF McpOps
    <2> QED
      BY <2>7, <2>10, <2>11, <2>12, <1>1, <1>4, McpStep DEF Continue, own
  <1>5. CASE Return(c) /\ UNCHANGED mcp
    <2>1. Connections(mcp') /\ McpGrows(mcp, mcp', own)
      BY <1>3, <1>5, McpSame
    <2> QED
      BY <2>1, <1>1, <1>5, McpReturns
  <1> QED
    BY <1>2, <1>4, <1>5

LEMMA FinishRefreshKeeps ==
    ASSUME Facts, NEW c \in Callers, FinishRefresh(c)
    PROVE  Facts'
  <1> DEFINE f == call[c]
             tk == f.token
  <1>1. /\ load.part = "mcp" /\ UNCHANGED <<load, soc, dev>> /\ f.op = "mint" /\ Return(c)
        /\ mcp' = MintTokenPair(mcp, tk.family, f.jti, tk.jti, tk.client, tk.party)
    BY DEF FinishRefresh, Mcp
  <1>2. Connections(mcp) /\ McpFrame(mcp, f)
    BY McpHolds
  <1> HIDE DEF f
  <1>3. Connections(mcp') /\ McpGrows(mcp, mcp', f)
    BY <1>1, <1>2, MintStatement
  <1> QED
    BY <1>1, <1>3, McpReturns DEF f

LEMMA ResolveMcpAgentKeeps ==
    ASSUME Facts, NEW c \in Callers, NEW tk \in mcp.tokens, ResolveMcpAgent(c, tk)
    PROVE  Facts'
  <1> DEFINE h == FamilyOf(mcp, tk.family)
             late == h.status = "revoked"
             f == [op |-> "act", family |-> tk.family, late |-> late]
  <1>1. load.part = "mcp" /\ UNCHANGED <<load, soc, dev, mcp>> /\ Begin(c, f) /\ h.status = "live"
    BY DEF ResolveMcpAgent, Mcp, FamilyIsActive
  <1>2. \E g \in mcp.families : g.id = tk.family
    BY McpHolds DEF Connections, Chained
  <1>3. f.op = "act" /\ f.family = tk.family /\ f.late = late /\ ~late /\ late \in BOOLEAN
    BY <1>1
  <1> HIDE DEF f, late, h
  <1>4. f.op \in McpOps \ {"record", "mint"} /\ McpFrame(mcp', f)
    BY <1>1, <1>2, <1>3 DEF McpOps, McpFrame, Exchanging
  <1>5. Connections(mcp') /\ McpGrows(mcp, mcp', call[c])
    BY <1>1, McpHolds, McpSame
  <1> QED
    BY <1>1, <1>4, <1>5, McpContinues DEF Begin

LEMMA ActAsAgentKeeps ==
    ASSUME Facts, NEW c \in Callers, ActAsAgent(c)
    PROVE  Facts'
  <1> DEFINE own == call[c]
             f == FamilyOf(mcp, own.family)
             new == [family |-> f.id, late |-> own.late]
             as == mcp.acted \cup {new}
  <1>1. load.part = "mcp" /\ UNCHANGED <<load, soc, dev>> /\ own.op = "act" /\ Return(c)
    BY DEF ActAsAgent, Mcp
  <1>2. mcp' = mcp \/ mcp' = [mcp EXCEPT !.acted = as]
    BY DEF ActAsAgent
  <1>3. /\ Connections(mcp) /\ mcp \in McpTables /\ mcp.next \in Nat /\ ~own.late /\ own.late \in BOOLEAN
        /\ \E g \in mcp.families : g.id = own.family
    BY <1>1, McpHolds DEF McpFrame, McpTables
  <1>4. f \in mcp.families /\ f.id \in Nat
    BY <1>3, FamilyOfToken, McpTypes
  <1>5. new \in [family : Nat, late : BOOLEAN] /\ ~new.late /\ new.family = f.id
    BY <1>3, <1>4
  <1> HIDE DEF f, new, own
  <1>6. /\ as \in SUBSET [family : Nat, late : BOOLEAN]
        /\ \A x \in as : ~x.late /\ \E g \in mcp.families : g.id = x.family
    BY <1>3, <1>4, <1>5 DEF McpTables, Connections, Chained
  <1> HIDE DEF as
  <1>7. CASE mcp' = mcp
    BY <1>1, <1>3, <1>7, McpSame, McpReturns DEF own
  <1>8. CASE mcp' = [mcp EXCEPT !.acted = as]
    <2>1. /\ mcp' \in McpTables /\ mcp'.next = mcp.next /\ mcp'.proved = mcp.proved /\ mcp'.codes = mcp.codes
          /\ mcp'.consumed = mcp.consumed /\ mcp'.families = mcp.families /\ mcp'.tokens = mcp.tokens
          /\ mcp'.assertions = mcp.assertions /\ mcp'.acted = as
      BY <1>3, <1>6, <1>8 DEF McpTables
    <2>2. mcp.next <= mcp'.next /\ mcp.proved \subseteq mcp'.proved
      BY <2>1, <1>3
    <2>3. /\ \A x \in mcp'.assertions : Proved(mcp', x.subject, x.request)
          /\ \A x \in mcp'.acted : ~x.late /\ \E g \in mcp'.families : g.id = x.family
      BY <2>1, <1>3, <1>6 DEF Connections, Traced, Proved
    <2>4. Connections(mcp') /\ McpGrows(mcp, mcp', own)
      BY <2>1, <2>2, <2>3, <1>3, QuietStatement
    <2> QED
      BY <2>4, <1>1, McpReturns DEF own
  <1> QED
    BY <1>2, <1>7, <1>8

LEMMA McpDisconnectKeeps ==
    ASSUME Facts, NEW u \in People, NEW t \in Teams, McpDisconnect(u, t)
    PROVE  Facts'
  <1>1. /\ load.part = "mcp" /\ UNCHANGED <<load, soc, dev, call>>
        /\ mcp' = RevokeFamiliesForAgent(mcp, u, t)
    BY DEF McpDisconnect, Mcp
  <1>2. Connections(mcp') /\ McpGrows(mcp, mcp', Idle)
    BY <1>1, McpHolds, RevokeStatement
  <1> QED
    BY <1>1, <1>2, McpAtOnce

LEMMA EditMcpAgentKeeps ==
    ASSUME Facts, NEW u \in People, NEW t \in Teams, EditMcpAgent(u, t)
    PROVE  Facts'
  <1>1. load.part = "mcp" /\ UNCHANGED <<load, soc, dev, call>>
    BY DEF EditMcpAgent, Mcp
  <1>2. PICK s \in {"none", "scoped"} : mcp' = [mcp EXCEPT !.agent[u][t] = s]
    BY DEF EditMcpAgent
  <1>3. Connections(mcp') /\ McpGrows(mcp, mcp', Idle)
    BY <1>2, McpHolds, AgentStatement
  <1> QED
    BY <1>1, <1>3, McpAtOnce

LEMMA McpExpireKeeps ==
    ASSUME Facts, McpExpire
    PROVE  Facts'
  <1>1. load.part = "mcp" /\ UNCHANGED <<load, soc, dev, call>>
    BY DEF McpExpire, Mcp
  <1>2. Connections(mcp) /\ mcp \in McpTables /\ mcp.next \in Nat
    BY McpHolds DEF McpTables
  <1>3. ASSUME NEW k \in mcp.codes, mcp' = [mcp EXCEPT !.codes = (@ \ {k}) \cup {[k EXCEPT !.lapsed = TRUE]}]
        PROVE  Connections(mcp') /\ McpGrows(mcp, mcp', Idle)
    BY <1>2, <1>3, LapseStatement
  <1>4. ASSUME NEW a \in mcp.assertions, NEW s \in {"fresh", "late", "dead"},
               mcp' = [mcp EXCEPT !.assertions = (@ \ {a}) \cup {[a EXCEPT !.age = s]}]
        PROVE  Connections(mcp') /\ McpGrows(mcp, mcp', Idle)
    BY <1>2, <1>4, AgeStatement
  <1>5. ASSUME NEW f \in mcp.families, mcp' = WithFamily(mcp, f, [f EXCEPT !.status = "expired"])
        PROVE  Connections(mcp') /\ McpGrows(mcp, mcp', Idle)
    <2> DEFINE new == [f EXCEPT !.status = "expired"]
    <2>1. f \in FamilyRow /\ f.current \in Nat /\ f.current < mcp.next
      BY <1>2, McpTypes
    <2>2. new \in FamilyRow /\ new.current = f.current /\ Rewritten(f, new)
      BY <2>1 DEF FamilyRow, Rewritten
    <2>3. mcp' = [mcp EXCEPT !.next = mcp.next, !.families = (mcp.families \ {f}) \cup {new}]
      BY <1>2, <1>5 DEF WithFamily, McpTables
    <2> HIDE DEF new
    <2>4. mcp.next <= mcp.next /\ new.current < mcp.next
      BY <2>1, <2>2, <1>2
    <2> QED
      BY <2>2, <2>3, <2>4, <1>2, OneFamilyStatement
  <1>6. Connections(mcp') /\ McpGrows(mcp, mcp', Idle)
    BY <1>3, <1>4, <1>5 DEF McpExpire
  <1> QED
    BY <1>1, <1>6, McpAtOnce

-----------------------------------------------------------------------------
(* Login with a provider: steps                                            *)

(* From d to e by a handler with the frame own: time and proofs go         *)
(* forward, an account keeps its origin, and a continuation is used or put *)
(* back by the handler that claimed it.                                    *)
NewPass(d, own, p) == p \in d.passes \/ p.from = 0 \/ p.from = Claimed(own)
NewCont(d, own, ct) == ct \in d.conts \/ ct.id >= d.next \/ ct.id = Claimed(own)

Onward(d, e) ==
    /\ d.next <= e.next
    /\ \A u \in People : d.proved[u] <= e.proved[u]
    /\ \A u \in People : d.acct[u].origin # "none" => e.acct[u].origin = d.acct[u].origin

SocGrows(d, e, own) ==
    /\ Onward(d, e)
    /\ \A p \in e.passes : NewPass(d, own, p)
    /\ \A ct \in e.conts : NewCont(d, own, ct)

(* What is staged for somebody whose login f completes is marked so.       *)
Spared(d, e, f) == \A l \in e.staged : l \in d.staged \/ l.open \/ ~(f.op = "persist" /\ f.user = l.user)

LEMMA SocTypes ==
    ASSUME NEW d, Social(d)
    PROVE  /\ d \in SocTables /\ d.next \in Nat /\ d.next > 0
           /\ \A u \in People : d.proved[u] \in Nat /\ d.acct[u] \in AccountRow /\ d.proved[u] < d.next
           /\ \A i \in Idents : d.link[i] \in LinkRow
           /\ \A ct \in d.conts : ct \in ContRow /\ ct.id \in Nat
           /\ \A p \in d.passes : p \in PassRow /\ p.from \in Nat
           /\ \A l \in d.staged : l \in StagedRow /\ l.id \in Nat /\ l.user \in People /\ l.open \in BOOLEAN
           /\ \A st \in d.states : st \in StateRow /\ st.id \in Nat
           /\ \A b \in Browsers : d.cookie[b] \in Nat
  <1>1. d \in SocTables /\ d.next \in Nat /\ d.next > 0
    BY DEF Social, SocTables
  <1>2. /\ \A u \in People : d.proved[u] \in Nat /\ d.acct[u] \in AccountRow
        /\ \A i \in Idents : d.link[i] \in LinkRow
        /\ \A b \in Browsers : d.cookie[b] \in Nat
    BY <1>1 DEF SocTables
  <1>3. \A u \in People : d.proved[u] < d.next
    BY DEF Social, Staged
  <1>4. \A ct \in d.conts : ct \in ContRow /\ ct.id \in Nat
    BY <1>1 DEF SocTables, ContRow
  <1>5. \A p \in d.passes : p \in PassRow /\ p.from \in Nat
    BY <1>1 DEF SocTables, PassRow
  <1>6. \A l \in d.staged : l \in StagedRow /\ l.id \in Nat /\ l.user \in People /\ l.open \in BOOLEAN
    BY <1>1 DEF SocTables, StagedRow
  <1>7. \A st \in d.states : st \in StateRow /\ st.id \in Nat
    BY <1>1 DEF SocTables, StateRow
  <1> QED
    BY <1>1, <1>2, <1>3, <1>4, <1>5, <1>6, <1>7

(* What f claimed is still taken after a step of somebody else.            *)
LEMMA TakenKept ==
    ASSUME NEW d, NEW e, NEW own, NEW f, Social(d), Social(e), SocGrows(d, e, own), SocApart(f, own),
           Claimed(f) \in Nat, Taken(d, Claimed(f))
    PROVE  Taken(e, Claimed(f))
  <1> DEFINE n == Claimed(f)
  <1>1. /\ n \in Nat /\ n < d.next /\ n > 0 /\ (\A p \in d.passes : p.from # n)
        /\ (\A ct \in d.conts : ct.id # n) /\ n # Claimed(own)
    BY DEF Taken, Unspent, SocApart
  <1>2. d.next \in Nat /\ e.next \in Nat /\ d.next <= e.next
    BY SocTypes DEF SocGrows, Onward
  <1>3. \A p \in e.passes : p.from # n
    BY <1>1 DEF SocGrows, NewPass
  <1>4. \A ct \in e.conts : ct.id # n
    <2>1. \A ct \in e.conts : ct.id \in Nat
      BY SocTypes
    <2> QED
      BY <2>1, <1>1, <1>2 DEF SocGrows, NewCont
  <1> QED
    BY <1>1, <1>2, <1>3, <1>4 DEF Taken, Unspent

LEMMA ClaimedTaken ==
    ASSUME NEW d, NEW f, SocFrame(d, f), Claimed(f) # 0
    PROVE  Claimed(f) \in Nat /\ Taken(d, Claimed(f))
  BY DEF Claimed, SocFrame, SigningUp, ContRow

LEMMA SocFrameKept ==
    ASSUME NEW d, NEW e, NEW own, NEW f, Social(d), Social(e), SocFrame(d, f),
           SocGrows(d, e, own), SocApart(f, own), Spared(d, e, f)
    PROVE  SocFrame(e, f)
  <1>1. f.op = "resolve" => f.ident \in Idents /\ f.email \in People /\ f.browser \in Browsers /\ f.browser = f.began
    BY DEF SocFrame
  <1>2. f.op = "issue" =>
          /\ f.kind \in {"login", "signup"} /\ f.user \in People \cup {NoOne} /\ f.ident \in Idents
          /\ f.email \in People /\ f.browser \in Browsers /\ f.browser = f.began
          /\ f.kind = "login" => f.user \in People
    BY DEF SocFrame
  <1>3. ASSUME f.op \in SigningUp
        PROVE  /\ f.cont \in ContRow /\ f.cont.browser = f.cont.began /\ f.cont.kind = "signup"
               /\ Taken(e, f.cont.id)
    <2>1. /\ f.cont \in ContRow /\ f.cont.browser = f.cont.began /\ f.cont.kind = "signup"
          /\ Taken(d, f.cont.id)
      BY <1>3 DEF SocFrame
    <2>2. Claimed(f) = f.cont.id /\ f.cont.id \in Nat
      BY <1>3, <2>1 DEF Claimed, ContRow
    <2>3. Taken(e, f.cont.id)
      BY <2>1, <2>2, TakenKept
    <2> QED
      BY <2>1, <2>3
  <1>4. ASSUME f.op \in {"verify", "link"} PROVE e.acct[f.cont.email].origin = f.cont.ident
    <2>1. f.cont \in ContRow /\ d.acct[f.cont.email].origin = f.cont.ident
      BY <1>4 DEF SocFrame, SigningUp
    <2>2. f.cont.email \in People /\ f.cont.ident \in Idents
      BY <2>1 DEF ContRow
    <2> QED
      BY <2>1, <2>2, IdentAssumption DEF SocGrows, Onward
  <1>5. ASSUME f.op = "firstFactor" PROVE f.user \in People /\ f.from \in Nat /\ (f.from # 0 => Taken(e, f.from))
    <2>1. f.user \in People /\ f.from \in Nat /\ (f.from # 0 => Taken(d, f.from))
      BY <1>5 DEF SocFrame
    <2>2. Claimed(f) = f.from
      BY <1>5 DEF Claimed, SigningUp
    <2> QED
      BY <2>1, <2>2, TakenKept
  <1>6. \A u \in People : d.proved[u] \in Nat /\ e.proved[u] \in Nat /\ d.proved[u] <= e.proved[u]
    BY SocTypes DEF SocGrows, Onward
  <1>7. ASSUME f.op = "persist"
        PROVE  /\ f.user \in People /\ e.proved[f.user] > 0
               /\ \A l \in e.staged : l.user = f.user => l.open \/ l.id < e.proved[f.user]
    <2>1. /\ f.user \in People /\ d.proved[f.user] > 0
          /\ \A l \in d.staged : l.user = f.user => l.open \/ l.id < d.proved[f.user]
      BY <1>7 DEF SocFrame
    <2>2. ASSUME NEW l \in e.staged, l.user = f.user PROVE l.open \/ l.id < e.proved[f.user]
      <3>1. CASE l \in d.staged
        <4>1. l.id \in Nat
          BY <3>1, SocTypes
        <4> QED
          BY <4>1, <3>1, <2>1, <2>2, <1>6
      <3>2. CASE l \notin d.staged
        BY <3>2, <2>2, <1>7 DEF Spared
      <3> QED
        BY <3>1, <3>2
    <2> QED
      BY <2>1, <2>2, <1>6
  <1>8. ASSUME f.op = "persistEach"
        PROVE  /\ f.user \in People /\ f.links \subseteq StagedRow
               /\ \A l \in f.links : e.proved[f.user] > (IF l.open THEN 0 ELSE l.id)
    <2>1. /\ f.user \in People /\ f.links \subseteq StagedRow
          /\ \A l \in f.links : d.proved[f.user] > (IF l.open THEN 0 ELSE l.id)
      BY <1>8 DEF SocFrame
    <2>2. ASSUME NEW l \in f.links PROVE e.proved[f.user] > (IF l.open THEN 0 ELSE l.id)
      <3>1. l.id \in Nat
        BY <2>1 DEF StagedRow
      <3>2. (IF l.open THEN 0 ELSE l.id) \in Nat
        BY <3>1
      <3> QED
        BY <3>2, <2>1, <1>6
    <2> QED
      BY <2>1, <2>2
  <1> QED
    BY <1>1, <1>2, <1>3, <1>4, <1>5, <1>7, <1>8 DEF SocFrame

LEMMA SocStep ==
    ASSUME Facts, load.part = "social", UNCHANGED <<load, dev, mcp>>,
           NEW c \in Callers, NEW f, f.op \in {"idle"} \cup SocOps, call' = [call EXCEPT ![c] = f],
           Social(soc'), SocGrows(soc, soc', call[c]), SocFrame(soc', f),
           \A b \in Callers : b # c => SocApart(call[b], f) /\ Spared(soc, soc', call[b])
    PROVE  Facts'
  <1>1. DOMAIN call' = Callers /\ call'[c] = f /\ \A b \in Callers : b # c => call'[b] = call[b]
    BY Calls DEF Facts, Under
  <1>2. \A b \in Callers : call'[b].op \in {"idle"} \cup SocOps
    BY <1>1, Ops DEF Facts, Under
  <1>3. Under'
    BY <1>1, <1>2, Ops DEF Facts, Under
  <1>4. DevFacts'
    BY <1>2, DevUntouched DEF Facts
  <1>5. McpFacts'
    BY <1>2, McpUntouched DEF Facts
  <1>6. ASSUME NEW b \in Callers PROVE SocFrame(soc', call'[b])
    <2>1. CASE b = c
      BY <2>1, <1>1
    <2>2. CASE b # c
      <3>1. Social(soc) /\ SocFrame(soc, call[b]) /\ SocApart(call[b], call[c]) /\ Spared(soc, soc', call[b])
        BY <2>2 DEF Facts, SocFacts
      <3> QED
        BY <3>1, <2>2, <1>1, SocFrameKept
    <2> QED
      BY <2>1, <2>2
  <1>7. ASSUME NEW a \in Callers, NEW b \in Callers, a # b PROVE SocApart(call'[a], call'[b])
    <2>1. CASE a # c /\ b # c
      BY <2>1, <1>7, <1>1 DEF Facts, SocFacts
    <2>2. CASE a # c /\ b = c
      BY <2>2, <1>1
    <2>3. CASE a = c
      BY <2>3, <1>1, <1>7 DEF SocApart
    <2> QED
      BY <2>1, <2>2, <2>3
  <1>8. SocFacts'
    BY <1>6, <1>7 DEF SocFacts
  <1> QED
    BY <1>3, <1>4, <1>5, <1>8 DEF Facts

LEMMA FewerStaged ==
    ASSUME NEW d, NEW e, e.staged \subseteq d.staged, NEW f
    PROVE  Spared(d, e, f)
  BY DEF Spared

(* A handler that keeps what it claimed, or lets go of it.                 *)
LEMMA SocContinues ==
    ASSUME Facts, load.part = "social", UNCHANGED <<load, dev, mcp>>,
           NEW c \in Callers, NEW f, f.op \in {"idle"} \cup SocOps, call' = [call EXCEPT ![c] = f],
           Social(soc'), SocGrows(soc, soc', call[c]), SocFrame(soc', f), soc'.staged \subseteq soc.staged,
           Claimed(f) = Claimed(call[c]) \/ Claimed(f) = 0
    PROVE  Facts'
  <1>1. ASSUME NEW b \in Callers, b # c PROVE SocApart(call[b], f) /\ Spared(soc, soc', call[b])
    <2>1. SocApart(call[b], call[c])
      BY <1>1 DEF Facts, SocFacts
    <2> QED
      BY <2>1, FewerStaged DEF SocApart
  <1> QED
    BY <1>1, SocStep

LEMMA IdleClaims == Claimed(Idle) = 0 /\ Idle.op = "idle"
  BY DEF Claimed, Idle, SigningUp

LEMMA SocReturns ==
    ASSUME Facts, load.part = "social", UNCHANGED <<load, dev, mcp>>, NEW c \in Callers, Return(c),
           Social(soc'), SocGrows(soc, soc', call[c]), soc'.staged \subseteq soc.staged
    PROVE  Facts'
  <1>1. SocFrame(soc', Idle)
    BY IdleClaims, NotSocial
  <1> QED
    BY <1>1, IdleClaims, SocContinues DEF Return

LEMMA SocAtOnce ==
    ASSUME Facts, load.part = "social", UNCHANGED <<load, dev, mcp, call>>,
           Social(soc'), SocGrows(soc, soc', Idle), soc'.staged \subseteq soc.staged
    PROVE  Facts'
  <1>1. \A b \in Callers : call[b].op \in {"idle"} \cup SocOps
    BY Ops DEF Facts, Under
  <1>2. Under'
    BY DEF Facts, Under
  <1>3. DevFacts' /\ McpFacts'
    BY <1>1, DevUntouched, McpUntouched DEF Facts
  <1>4. ASSUME NEW b \in Callers PROVE SocFrame(soc', call[b])
    <2>1. Social(soc) /\ SocFrame(soc, call[b]) /\ SocApart(call[b], Idle) /\ Spared(soc, soc', call[b])
      BY IdleClaims, FewerStaged DEF Facts, SocFacts, SocApart
    <2> QED
      BY <2>1, SocFrameKept
  <1>5. SocFacts'
    BY <1>4 DEF Facts, SocFacts
  <1> QED
    BY <1>2, <1>3, <1>5 DEF Facts

-----------------------------------------------------------------------------
(* Login with a provider: statements                                       *)

LEMMA LinkedKept ==
    ASSUME NEW d, NEW e, Social(d), e \in SocTables, Onward(d, e), e.link = d.link
    PROVE  Linked(e)
  <1> SUFFICES ASSUME NEW i \in Idents
               PROVE  /\ e.link[i].how # "none" => e.link[i].user \in People
                      /\ e.link[i].how = "signup" => e.acct[e.link[i].user].origin = i
                      /\ e.link[i].how = "login" => e.proved[e.link[i].user] > Since(e.link[i])
    BY DEF Linked
  <1> DEFINE l == d.link[i]
  <1>1. /\ l.how # "none" => l.user \in People
        /\ l.how = "signup" => d.acct[l.user].origin = i
        /\ l.how = "login" => d.proved[l.user] > Since(l)
    BY DEF Social, Linked
  <1>2. l \in LinkRow
    BY SocTypes
  <1>3. Since(l) \in Nat
    BY <1>2 DEF Since, LinkRow
  <1>4. \A u \in People : d.proved[u] \in Nat /\ e.proved[u] \in Nat /\ d.proved[u] <= e.proved[u]
    BY SocTypes DEF SocTables, Onward
  <1> HIDE DEF l
  <1>5. l.how = "signup" => e.acct[l.user].origin = i
    BY <1>1, IdentAssumption DEF Onward
  <1>6. l.how = "login" => e.proved[l.user] > Since(l)
    BY <1>1, <1>3, <1>4
  <1> QED
    BY <1>1, <1>5, <1>6 DEF l

LEMMA BoundedKept ==
    ASSUME NEW d, NEW e, Social(d), e \in SocTables, d.next <= e.next, e.states \subseteq d.states,
           \A b \in Browsers : e.cookie[b] = d.cookie[b] \/ e.cookie[b] = 0
    PROVE  Bounded(e)
  <1>1. d.next \in Nat /\ d.next > 0 /\ e.next \in Nat
    BY SocTypes DEF SocTables
  <1>2. /\ \A b \in Browsers : d.cookie[b] \in Nat /\ d.cookie[b] < d.next
        /\ \A st \in d.states : st.id \in Nat /\ st.id < d.next /\ st.id > 0
        /\ \A b \in Browsers : \A st \in d.states : d.cookie[b] = st.id => st.browser = b
    BY SocTypes DEF Social, Bounded
  <1> QED
    BY <1>1, <1>2 DEF Bounded

LEMMA ContinuedKept ==
    ASSUME NEW d, NEW e, Social(d), e \in SocTables, d.next <= e.next, e.conts \subseteq d.conts, e.passes = d.passes
    PROVE  Continued(e)
  <1>1. d.next \in Nat /\ e.next \in Nat /\ (\A ct \in d.conts : ct.id \in Nat) /\ \A p \in d.passes : p.from \in Nat
    BY SocTypes DEF SocTables
  <1> QED
    BY <1>1 DEF Social, Continued, Unspent

LEMMA StagedKept ==
    ASSUME NEW d, NEW e, Social(d), e \in SocTables, Onward(d, e), e.staged \subseteq d.staged,
           \A u \in People : e.proved[u] < e.next
    PROVE  Staged(e)
  <1>1. d.next \in Nat /\ e.next \in Nat /\ \A l \in d.staged : l.id \in Nat /\ l.user \in People
    BY SocTypes DEF SocTables
  <1>2. \A u \in People : d.proved[u] \in Nat /\ e.proved[u] \in Nat /\ d.proved[u] <= e.proved[u]
    BY SocTypes DEF SocTables, Onward
  <1> QED
    BY <1>1, <1>2 DEF Social, Staged, Onward

LEMMA SameIsOnward ==
    ASSUME NEW d, NEW e, Social(d), d.next <= e.next, e.proved = d.proved, e.acct = d.acct
    PROVE  Onward(d, e)
  BY SocTypes DEF Onward

LEMMA NoneProved ==
    ASSUME NEW d, NEW e, Social(d), e \in SocTables, d.next <= e.next, e.proved = d.proved
    PROVE  \A u \in People : e.proved[u] < e.next
  BY SocTypes DEF SocTables

LEMMA SocGrowsPlainly ==
    ASSUME NEW d, NEW e, NEW own, Onward(d, e), e.passes = d.passes, e.conts \subseteq d.conts
    PROVE  SocGrows(d, e, own)
  BY DEF SocGrows, NewPass, NewCont

(* What touches states, cookies and challenges only, or takes something    *)
(* away.                                                                   *)
LEMMA PlainStatement ==
    ASSUME NEW d, NEW e, NEW own, Social(d), e \in SocTables, e.next = d.next, e.proved = d.proved,
           e.acct = d.acct, e.link = d.link, e.passes = d.passes,
           e.conts \subseteq d.conts, e.staged \subseteq d.staged, e.states \subseteq d.states,
           \A b \in Browsers : e.cookie[b] = d.cookie[b] \/ e.cookie[b] = 0
    PROVE  Social(e) /\ SocGrows(d, e, own)
  <1>1. d.next \in Nat /\ d.next > 0 /\ d.next <= e.next
    BY SocTypes
  <1>2. Onward(d, e) /\ \A u \in People : e.proved[u] < e.next
    BY <1>1, SameIsOnward, NoneProved
  <1>3. Linked(e) /\ Bounded(e) /\ Continued(e) /\ Staged(e)
    BY <1>1, <1>2, LinkedKept, BoundedKept, ContinuedKept, StagedKept
  <1>4. Social(e)
    BY <1>1, <1>3 DEF Social
  <1> QED
    BY <1>2, <1>4, SocGrowsPlainly

(* create_login_oauth_state                                                *)
LEMMA StateStatement ==
    ASSUME NEW d, NEW own, Social(d), NEW p \in {"google", "github"}, NEW b \in Browsers
    PROVE  /\ Social(CreateLoginOauthState(d, p, b)) /\ SocGrows(d, CreateLoginOauthState(d, p, b), own)
           /\ CreateLoginOauthState(d, p, b).staged = d.staged
  <1> DEFINE e == CreateLoginOauthState(d, p, b)
             new == [id |-> d.next, provider |-> p, browser |-> b]
             ss == d.states \cup {new}
             cs == [d.cookie EXCEPT ![b] = d.next]
             n1 == d.next + 1
  <1>1. d \in SocTables /\ d.next \in Nat /\ d.next > 0
    BY SocTypes
  <1>2. new \in StateRow /\ new.id = d.next /\ new.browser = b
    BY <1>1 DEF StateRow
  <1>3. e = [d EXCEPT !.states = ss, !.cookie = cs, !.next = n1]
    BY DEF CreateLoginOauthState
  <1> HIDE DEF new
  <1>4. ss \in SUBSET StateRow /\ cs \in [Browsers -> Nat] /\ n1 \in Nat /\ d.next <= n1
    BY <1>1, <1>2 DEF SocTables
  <1>5. cs[b] = d.next /\ \A x \in Browsers : x # b => cs[x] = d.cookie[x]
    BY <1>1 DEF SocTables
  <1> HIDE DEF e, ss, cs, n1
  <1>6. /\ e \in SocTables /\ e.next = n1 /\ e.states = ss /\ e.cookie = cs /\ e.proved = d.proved
        /\ e.acct = d.acct /\ e.link = d.link /\ e.passes = d.passes /\ e.conts = d.conts /\ e.staged = d.staged
    BY <1>1, <1>3, <1>4 DEF SocTables
  <1>7. Onward(d, e) /\ \A u \in People : e.proved[u] < e.next
    BY <1>4, <1>6, SameIsOnward, NoneProved
  <1>8. Linked(e) /\ Continued(e) /\ Staged(e)
    BY <1>4, <1>6, <1>7, LinkedKept, ContinuedKept, StagedKept
  <1>9. Bounded(e)
    <2>1. /\ \A x \in Browsers : d.cookie[x] \in Nat /\ d.cookie[x] < d.next
          /\ \A st \in d.states : st.id \in Nat /\ st.id < d.next /\ st.id > 0
          /\ \A x \in Browsers : \A st \in d.states : d.cookie[x] = st.id => st.browser = x
      BY SocTypes DEF Social, Bounded
    <2>2. \A x \in Browsers : e.cookie[x] < e.next
      BY <2>1, <1>1, <1>5, <1>6 DEF n1
    <2>3. \A st \in e.states : st.id < e.next /\ st.id > 0
      BY <2>1, <1>1, <1>2, <1>6 DEF n1, ss
    <2>4. ASSUME NEW x \in Browsers, NEW st \in e.states, e.cookie[x] = st.id PROVE st.browser = x
      <3>1. CASE st = new
        BY <3>1, <2>1, <2>4, <1>1, <1>2, <1>5, <1>6
      <3>2. CASE st \in d.states
        BY <3>2, <2>1, <2>4, <1>1, <1>5, <1>6
      <3> QED
        BY <3>1, <3>2, <1>6 DEF ss
    <2> QED
      BY <2>2, <2>3, <2>4 DEF Bounded
  <1>10. Social(e)
    BY <1>1, <1>4, <1>6, <1>8, <1>9 DEF Social
  <1>11. SocGrows(d, e, own)
    BY <1>6, <1>7, SocGrowsPlainly
  <1> QED
    BY <1>6, <1>10, <1>11 DEF e

(* create_login_continuation                                               *)
LEMMA ContStatement ==
    ASSUME NEW d, NEW e, NEW own, Social(d), NEW ct \in ContRow, ct.id = d.next, ct.browser = ct.began,
           ct.kind = "login" => ct.user \in People, e = [d EXCEPT !.conts = @ \cup {ct}, !.next = @ + 1]
    PROVE  Social(e) /\ SocGrows(d, e, own) /\ e.staged = d.staged
  <1> DEFINE cs == d.conts \cup {ct}
             n1 == d.next + 1
  <1>1. d \in SocTables /\ d.next \in Nat /\ d.next > 0
    BY SocTypes
  <1>2. e = [d EXCEPT !.conts = cs, !.next = n1]
    OBVIOUS
  <1>3. cs \in SUBSET ContRow /\ n1 \in Nat /\ d.next <= n1
    BY <1>1 DEF SocTables
  <1> HIDE DEF cs, n1
  <1>4. /\ e \in SocTables /\ e.next = n1 /\ e.states = d.states /\ e.cookie = d.cookie /\ e.proved = d.proved
        /\ e.acct = d.acct /\ e.link = d.link /\ e.passes = d.passes /\ e.conts = cs /\ e.staged = d.staged
    BY <1>1, <1>2, <1>3 DEF SocTables
  <1>5. Onward(d, e) /\ \A u \in People : e.proved[u] < e.next
    BY <1>3, <1>4, SameIsOnward, NoneProved
  <1>6. Linked(e) /\ Bounded(e) /\ Staged(e)
    BY <1>3, <1>4, <1>5, LinkedKept, BoundedKept, StagedKept
  <1>7. Continued(e)
    <2>1. /\ \A x \in d.conts : /\ x.id \in Nat /\ x.id < d.next /\ Unspent(d, x.id) /\ x.browser = x.began
                                /\ x.kind = "login" => x.user \in People
          /\ \A p \in d.passes : p.from \in Nat /\ p.from < d.next
      BY SocTypes DEF Social, Continued, Unspent
    <2>2. Unspent(e, d.next)
      BY <2>1, <1>1, <1>4 DEF Unspent, n1
    <2>3. \A x \in d.conts : Unspent(e, x.id)
      BY <2>1, <1>1, <1>4 DEF Unspent, n1
    <2>4. \A x \in e.conts : Unspent(e, x.id) /\ x.browser = x.began /\ (x.kind = "login" => x.user \in People)
      BY <2>1, <2>2, <2>3, <1>4 DEF cs
    <2>5. \A x, y \in e.conts : x.id = y.id => x = y
      BY <2>1, <1>1, <1>4 DEF cs, Social, Continued
    <2>6. \A p \in e.passes : p.from < e.next
      BY <2>1, <1>1, <1>4 DEF n1
    <2> QED
      BY <2>4, <2>5, <2>6, <1>4 DEF Social, Continued
  <1>8. Social(e)
    BY <1>1, <1>3, <1>4, <1>6, <1>7 DEF Social
  <1>9. SocGrows(d, e, own)
    BY <1>1, <1>4, <1>5 DEF SocGrows, NewPass, NewCont, cs
  <1> QED
    BY <1>4, <1>8, <1>9

(* A claimed continuation is put back.                                     *)
LEMMA PutBackStatement ==
    ASSUME NEW d, NEW e, NEW own, Social(d), NEW ct \in ContRow, ct.browser = ct.began, ct.kind = "signup",
           Taken(d, ct.id), Claimed(own) = ct.id, e = [d EXCEPT !.conts = @ \cup {ct}]
    PROVE  Social(e) /\ SocGrows(d, e, own) /\ e.staged = d.staged
  <1> DEFINE cs == d.conts \cup {ct}
  <1>1. d \in SocTables /\ d.next \in Nat /\ d.next > 0
    BY SocTypes
  <1>2. e = [d EXCEPT !.conts = cs]
    OBVIOUS
  <1>3. cs \in SUBSET ContRow
    BY <1>1 DEF SocTables
  <1> HIDE DEF cs
  <1>4. /\ e \in SocTables /\ e.next = d.next /\ e.states = d.states /\ e.cookie = d.cookie /\ e.proved = d.proved
        /\ e.acct = d.acct /\ e.link = d.link /\ e.passes = d.passes /\ e.conts = cs /\ e.staged = d.staged
    BY <1>1, <1>2, <1>3 DEF SocTables
  <1>5. d.next <= e.next
    BY <1>1, <1>4
  <1>6. Onward(d, e) /\ \A u \in People : e.proved[u] < e.next
    BY <1>4, <1>5, SameIsOnward, NoneProved
  <1>7. Linked(e) /\ Bounded(e) /\ Staged(e)
    BY <1>4, <1>5, <1>6, LinkedKept, BoundedKept, StagedKept
  <1>8. Continued(e)
    <2>1. \A n : Unspent(d, n) = Unspent(e, n)
      BY <1>4 DEF Unspent
    <2>2. \A x \in e.conts : Unspent(e, x.id) /\ x.browser = x.began /\ (x.kind = "login" => x.user \in People)
      BY <2>1, <1>4 DEF Social, Continued, Taken, cs
    <2>3. \A x, y \in e.conts : x.id = y.id => x = y
      BY <1>4 DEF Social, Continued, Taken, cs
    <2> QED
      BY <2>2, <2>3, <1>4 DEF Social, Continued
  <1>9. Social(e)
    BY <1>1, <1>4, <1>7, <1>8 DEF Social
  <1>10. SocGrows(d, e, own)
    BY <1>4, <1>6 DEF SocGrows, NewPass, NewCont, cs
  <1> QED
    BY <1>4, <1>9, <1>10

WriteAccount(d, u, a) == [d EXCEPT !.acct[u] = a]

(* An account is written: its origin, once known, stays.                   *)
LEMMA AccountStatement ==
    ASSUME NEW d, NEW e, NEW own, Social(d), NEW u \in People, NEW a \in AccountRow, Vouched(a),
           d.acct[u].origin # "none" => a.origin = d.acct[u].origin,
           e = WriteAccount(d, u, a)
    PROVE  /\ Social(e) /\ SocGrows(d, e, own) /\ e.staged = d.staged /\ e.acct[u] = a
           /\ e.passes = d.passes /\ e.conts = d.conts /\ e.next = d.next
  <1> DEFINE as == [d.acct EXCEPT ![u] = a]
  <1>1. d \in SocTables /\ d.next \in Nat /\ d.next > 0 /\ d.acct \in [People -> AccountRow]
    BY SocTypes DEF SocTables
  <1>2. e = [d EXCEPT !.acct = as]
    BY DEF WriteAccount
  <1>3. as \in [People -> AccountRow] /\ as[u] = a /\ \A x \in People : x # u => as[x] = d.acct[x]
    BY <1>1
  <1> HIDE DEF as
  <1>4. /\ e \in SocTables /\ e.next = d.next /\ e.states = d.states /\ e.cookie = d.cookie /\ e.proved = d.proved
        /\ e.acct = as /\ e.link = d.link /\ e.passes = d.passes /\ e.conts = d.conts /\ e.staged = d.staged
    BY <1>1, <1>2, <1>3 DEF SocTables
  <1>5. d.next <= e.next
    BY <1>1, <1>4
  <1>6. Onward(d, e)
    <2>1. \A x \in People : d.acct[x].origin # "none" => e.acct[x].origin = d.acct[x].origin
      <3> SUFFICES ASSUME NEW x \in People, d.acct[x].origin # "none"
                   PROVE  e.acct[x].origin = d.acct[x].origin
        OBVIOUS
      <3>1. CASE x = u
        BY <3>1, <1>3, <1>4
      <3>2. CASE x # u
        BY <3>2, <1>3, <1>4
      <3> QED
        BY <3>1, <3>2
    <2>2. \A x \in People : d.proved[x] <= e.proved[x]
      BY <1>4, SocTypes
    <2> QED
      BY <2>1, <2>2, <1>5 DEF Onward
  <1>7. \A x \in People : e.proved[x] < e.next
    BY <1>4, <1>5, NoneProved
  <1>8. Linked(e) /\ Bounded(e) /\ Staged(e) /\ Continued(e)
    BY <1>4, <1>5, <1>6, <1>7, LinkedKept, BoundedKept, StagedKept, ContinuedKept
  <1>9. \A x \in People : Vouched(e.acct[x])
    BY <1>3, <1>4 DEF Social
  <1>10. Social(e)
    BY <1>1, <1>4, <1>8, <1>9 DEF Social
  <1> QED
    BY <1>3, <1>4, <1>6, <1>10, SocGrowsPlainly

ProvedAfter(d, u, open, at) == d.proved[u] > (IF open THEN 0 ELSE at)

(* link_user_identity                                                      *)
LEMMA LinkStatement ==
    ASSUME NEW d, NEW e, NEW own, Social(d), NEW u \in People, NEW i \in Idents, NEW how \in {"signup", "login"},
           NEW at \in Nat, NEW open \in BOOLEAN, e = LinkUserIdentity(d, u, i, how, at, open),
           how = "signup" => d.acct[u].origin = i,
           how = "login" => ProvedAfter(d, u, open, at)
    PROVE  /\ Social(e) /\ SocGrows(d, e, own) /\ e.staged = d.staged
           /\ e.passes = d.passes /\ e.conts = d.conts /\ e.next = d.next /\ e.proved = d.proved
  <1> DEFINE new == [user |-> u, how |-> how, at |-> at, open |-> open]
             ls == [d.link EXCEPT ![i] = new]
  <1>1. d \in SocTables /\ d.next \in Nat /\ d.next > 0 /\ d.link \in [Idents -> LinkRow] /\ d.next <= d.next
    BY SocTypes DEF SocTables
  <1>2. Onward(d, d)
    BY <1>1, SameIsOnward
  <1>3. e = d \/ e = [d EXCEPT !.link = ls]
    BY DEF LinkUserIdentity
  <1>4. /\ new \in LinkRow /\ new.user = u /\ new.how = how
        /\ Since(new) = IF open THEN 0 ELSE at
    BY DEF LinkRow, Since
  <1> HIDE DEF new
  <1>5. ls \in [Idents -> LinkRow] /\ ls[i] = new /\ \A x \in Idents : x # i => ls[x] = d.link[x]
    BY <1>1, <1>4
  <1> HIDE DEF ls
  <1>6. CASE e = d
    BY <1>2, <1>6, SocGrowsPlainly
  <1>7. CASE e = [d EXCEPT !.link = ls]
    <2>1. /\ e \in SocTables /\ e.next = d.next /\ e.states = d.states /\ e.cookie = d.cookie /\ e.proved = d.proved
          /\ e.acct = d.acct /\ e.link = ls /\ e.passes = d.passes /\ e.conts = d.conts /\ e.staged = d.staged
      BY <1>1, <1>5, <1>7 DEF SocTables
    <2>2. d.next <= e.next
      BY <2>1, <1>1
    <2>3. Onward(d, e) /\ \A x \in People : e.proved[x] < e.next
      BY <2>1, <2>2, SameIsOnward, NoneProved
    <2>4. Bounded(e) /\ Staged(e) /\ Continued(e)
      BY <2>1, <2>2, <2>3, BoundedKept, StagedKept, ContinuedKept
    <2>5. ASSUME NEW j \in Idents
          PROVE  /\ e.link[j].how # "none" => e.link[j].user \in People
                 /\ e.link[j].how = "signup" => e.acct[e.link[j].user].origin = j
                 /\ e.link[j].how = "login" => e.proved[e.link[j].user] > Since(e.link[j])
      <3>1. CASE j = i
        BY <3>1, <2>1, <1>4, <1>5 DEF ProvedAfter
      <3>2. CASE j # i
        BY <3>2, <2>1, <1>5 DEF Social, Linked
      <3> QED
        BY <3>1, <3>2
    <2>6. Linked(e)
      BY <2>5 DEF Linked
    <2>7. Social(e)
      BY <2>1, <2>4, <2>6, <1>1 DEF Social
    <2> QED
      BY <2>1, <2>3, <2>7, SocGrowsPlainly
  <1> QED
    BY <1>3, <1>6, <1>7

(* A login is completed at this moment: the person is proved.              *)
LEMMA ProvedStatement ==
    ASSUME NEW d, NEW e, Social(d), e \in SocTables, e.next = d.next + 1, e.acct = d.acct, e.link = d.link,
           e.states = d.states, e.cookie = d.cookie, e.staged = d.staged,
           \A x \in People : e.proved[x] = d.proved[x] \/ e.proved[x] = d.next
    PROVE  /\ Onward(d, e) /\ Linked(e) /\ Bounded(e) /\ Staged(e) /\ e.next > 0
           /\ \A x \in People : Vouched(e.acct[x])
  <1>1. d.next \in Nat /\ d.next > 0 /\ d.next <= e.next /\ e.next > 0
    BY SocTypes
  <1>2. \A x \in People : d.proved[x] \in Nat /\ d.proved[x] < d.next
    BY SocTypes
  <1>3. Onward(d, e)
    BY <1>1, <1>2 DEF Onward
  <1>4. \A x \in People : e.proved[x] < e.next
    BY <1>1, <1>2
  <1> QED
    BY <1>1, <1>3, <1>4, LinkedKept, BoundedKept, StagedKept DEF Social

(* What is staged was staged before.                                       *)
LEMMA ProvedFrame ==
    ASSUME NEW d, NEW e, Social(d), NEW u \in People, e.proved[u] = d.next, e.staged = d.staged, NEW f,
           f.op = "persist", f.user = u
    PROVE  SocFrame(e, f) /\ Claimed(f) = 0 /\ f.op \in {"idle"} \cup SocOps
  <1>1. d.next > 0 /\ \A l \in d.staged : l.id < d.next
    BY SocTypes DEF Social, Staged
  <1> QED
    BY <1>1 DEF SocFrame, SigningUp, Claimed, SocOps

-----------------------------------------------------------------------------
(* Login with a provider: handlers                                         *)

LEMMA SocHolds ==
    ASSUME Facts
    PROVE  /\ Social(soc) /\ soc \in SocTables /\ \A c \in Callers : SocFrame(soc, call[c])
           /\ load.idents \subseteq Idents /\ load.browsers \subseteq Browsers
  BY SocTypes, LoadAssumption DEF Facts, SocFacts, Under

LEMMA SocSame ==
    ASSUME Facts, NEW own
    PROVE  Social(soc) /\ SocGrows(soc, soc, own)
  BY SocHolds, SocTypes, SameIsOnward, SocGrowsPlainly

LEMMA LoginStartKeeps ==
    ASSUME Facts, NEW b \in load.browsers, GoogleLoginStart(b) \/ GithubLoginStart(b)
    PROVE  Facts'
  <1>1. load.part = "social" /\ UNCHANGED <<load, dev, mcp, call>>
    BY DEF GoogleLoginStart, GithubLoginStart, Soc
  <1>2. PICK p \in {"google", "github"} : soc' = CreateLoginOauthState(soc, p, b)
    BY DEF GoogleLoginStart, GithubLoginStart
  <1>3. b \in Browsers /\ Social(soc)
    BY SocHolds
  <1>4. Social(soc') /\ SocGrows(soc, soc', Idle) /\ soc'.staged = soc.staged
    BY <1>2, <1>3, StateStatement
  <1> QED
    BY <1>1, <1>4, SocAtOnce

LEMMA LoginCallbackKeeps ==
    ASSUME Facts, NEW c \in Callers, NEW p, NEW b \in Browsers, NEW st \in soc.states, NEW i \in Idents,
           NEW e \in People, LoginCallback(c, p, b, st, i, e)
    PROVE  Facts'
  <1> DEFINE ss == soc.states \ {st}
             cs == [soc.cookie EXCEPT ![b] = 0]
             f == [op |-> "resolve", ident |-> i, email |-> e, browser |-> b, began |-> st.browser]
  <1>1. load.part = "social" /\ UNCHANGED <<load, dev, mcp>>
    BY DEF LoginCallback, Soc
  <1>2. Social(soc) /\ soc \in SocTables
    BY SocHolds
  <1>3. soc' = [soc EXCEPT !.states = ss, !.cookie = cs]
    BY <1>2 DEF LoginCallback, ClearCookie, TakeLoginOauthState, SocTables
  <1>4. /\ ss \in SUBSET StateRow /\ ss \subseteq soc.states /\ cs \in [Browsers -> Nat]
        /\ \A x \in Browsers : cs[x] = soc.cookie[x] \/ cs[x] = 0
    BY <1>2 DEF SocTables
  <1>5. (soc.cookie[b] = st.id /\ Begin(c, f)) \/ UNCHANGED call
    BY DEF LoginCallback, VerifyOauthBrowserBind
  <1>6. /\ f.op = "resolve" /\ f.ident = i /\ f.email = e /\ f.browser = b /\ f.began = st.browser
    OBVIOUS
  <1> HIDE DEF ss, cs, f
  <1>7. /\ soc' \in SocTables /\ soc'.next = soc.next /\ soc'.proved = soc.proved /\ soc'.acct = soc.acct
        /\ soc'.link = soc.link /\ soc'.passes = soc.passes /\ soc'.conts = soc.conts
        /\ soc'.staged = soc.staged /\ soc'.states = ss /\ soc'.cookie = cs
    BY <1>2, <1>3, <1>4 DEF SocTables
  <1>8. \A own : Social(soc') /\ SocGrows(soc, soc', own)
    BY <1>2, <1>4, <1>7, PlainStatement
  <1>9. CASE UNCHANGED call
    BY <1>1, <1>7, <1>8, <1>9, SocAtOnce
  <1>10. CASE soc.cookie[b] = st.id /\ Begin(c, f)
    <2>1. st.browser = b
      BY <1>2, <1>10 DEF Social, Bounded
    <2>2. f.op \in {"idle"} \cup SocOps /\ SocFrame(soc', f) /\ Claimed(f) = 0
      BY <2>1, <1>6 DEF SocOps, SocFrame, SigningUp, Claimed
    <2> QED
      BY <2>2, <1>1, <1>7, <1>8, <1>10, SocContinues DEF Begin
  <1> QED
    BY <1>5, <1>9, <1>10

(* A continuation is about to be created.                                  *)
LEMMA Issuing ==
    ASSUME Facts, NEW c \in Callers, NEW d, NEW kind \in {"login", "signup"}, NEW u \in People \cup {NoOne},
           call[c].op = "resolve", kind = "login" => u \in People,
           NEW f, f = [op |-> "issue", kind |-> kind, user |-> u, ident |-> call[c].ident,
                       email |-> call[c].email, browser |-> call[c].browser, began |-> call[c].began]
    PROVE  SocFrame(d, f) /\ Claimed(f) = 0 /\ f.op \in {"idle"} \cup SocOps
  <1>1. /\ call[c].ident \in Idents /\ call[c].email \in People /\ call[c].browser \in Browsers
        /\ call[c].browser = call[c].began
    BY SocHolds DEF SocFrame
  <1>2. /\ f.op = "issue" /\ f.kind = kind /\ f.user = u /\ f.ident = call[c].ident
        /\ f.email = call[c].email /\ f.browser = call[c].browser /\ f.began = call[c].began
    OBVIOUS
  <1> QED
    BY <1>1, <1>2 DEF SocFrame, SigningUp, Claimed, SocOps

LEMMA ResolveSocialLoginKeeps ==
    ASSUME Facts, NEW c \in Callers, ResolveSocialLogin(c)
    PROVE  Facts'
  <1> DEFINE f == call[c]
             linked == soc.link[f.ident].user
             completing == \E x \in Callers : call[x].op = "persist" /\ call[x].user = f.email
             issue(kind, u) == [op |-> "issue", kind |-> kind, user |-> u, ident |-> f.ident,
                                email |-> f.email, browser |-> f.browser, began |-> f.began]
  <1>1. load.part = "social" /\ UNCHANGED <<load, dev, mcp>> /\ f.op = "resolve"
    BY DEF ResolveSocialLogin, Soc
  <1>2. /\ Social(soc) /\ soc \in SocTables /\ f.ident \in Idents /\ f.email \in People
    BY <1>1, SocHolds DEF SocFrame
  <1>3. linked \in People \cup {NoOne}
    BY <1>2, SocTypes DEF LinkRow
  <1>4. \/ linked # NoOne /\ Continue(c, issue("login", linked)) /\ UNCHANGED soc
        \/ /\ soc' = CreatePendingIdentityLink(soc, f.email, f.ident, completing)
           /\ Continue(c, issue("login", f.email))
        \/ Return(c) /\ UNCHANGED soc
        \/ Continue(c, issue("signup", NoOne)) /\ UNCHANGED soc
    BY DEF ResolveSocialLogin
  <1>5. CASE linked # NoOne /\ Continue(c, issue("login", linked)) /\ UNCHANGED soc
    <2> DEFINE g == issue("login", linked)
    <2>1. SocFrame(soc', g) /\ Claimed(g) = 0 /\ g.op \in {"idle"} \cup SocOps
      BY <1>1, <1>3, <1>5, Issuing
    <2>2. call' = [call EXCEPT ![c] = g]
      BY <1>5 DEF Continue
    <2> HIDE DEF g
    <2>3. Social(soc') /\ SocGrows(soc, soc', call[c]) /\ soc'.staged \subseteq soc.staged
      BY <1>5, SocSame
    <2> QED
      BY <2>1, <2>2, <2>3, <1>1, SocContinues
  <1>6. CASE Continue(c, issue("signup", NoOne)) /\ UNCHANGED soc
    <2> DEFINE g == issue("signup", NoOne)
    <2>1. SocFrame(soc', g) /\ Claimed(g) = 0 /\ g.op \in {"idle"} \cup SocOps
      BY <1>1, <1>6, Issuing
    <2>2. call' = [call EXCEPT ![c] = g]
      BY <1>6 DEF Continue
    <2> HIDE DEF g
    <2>3. Social(soc') /\ SocGrows(soc, soc', call[c]) /\ soc'.staged \subseteq soc.staged
      BY <1>6, SocSame
    <2> QED
      BY <2>1, <2>2, <2>3, <1>1, SocContinues
  <1>7. CASE Return(c) /\ UNCHANGED soc
    <2>1. Social(soc') /\ SocGrows(soc, soc', call[c]) /\ soc'.staged \subseteq soc.staged
      BY <1>7, SocSame
    <2> QED
      BY <2>1, <1>1, <1>7, SocReturns
  <1>8. CASE /\ soc' = CreatePendingIdentityLink(soc, f.email, f.ident, completing)
             /\ Continue(c, issue("login", f.email))
    <2> DEFINE g == issue("login", f.email)
               new == [id |-> soc.next, user |-> f.email, ident |-> f.ident, open |-> completing]
               ls == {l \in soc.staged : l.user # f.email \/ Provider[l.ident] # Provider[f.ident]} \cup {new}
               n1 == soc.next + 1
    <2>1. SocFrame(soc', g) /\ Claimed(g) = 0 /\ g.op \in {"idle"} \cup SocOps
      BY <1>1, <1>2, Issuing
    <2>2. call' = [call EXCEPT ![c] = g]
      BY <1>8 DEF Continue
    <2> HIDE DEF g
    <2>3. soc' = [soc EXCEPT !.staged = ls, !.next = n1]
      BY <1>8 DEF CreatePendingIdentityLink
    <2>4. completing \in BOOLEAN /\ soc.next \in Nat /\ soc.next > 0
      BY <1>2, SocTypes
    <2>5. completing => soc.proved[f.email] > 0
      BY SocHolds DEF SocFrame
    <2>6. \A b \in Callers : completing \/ ~(call[b].op = "persist" /\ call[b].user = f.email)
      OBVIOUS
    <2> HIDE DEF completing
    <2>7. new \in StagedRow /\ new.id = soc.next /\ new.user = f.email /\ new.open = completing
      BY <2>4, <1>2 DEF StagedRow
    <2> HIDE DEF new
    <2>8. ls \in SUBSET StagedRow /\ n1 \in Nat /\ soc.next <= n1 /\ soc.next < n1
      BY <2>4, <2>7, <1>2 DEF SocTables
    <2>9. \A l \in ls : l \in soc.staged \/ l = new
      OBVIOUS
    <2> HIDE DEF ls, n1
    <2>10. /\ soc' \in SocTables /\ soc'.next = n1 /\ soc'.proved = soc.proved /\ soc'.acct = soc.acct
           /\ soc'.link = soc.link /\ soc'.passes = soc.passes /\ soc'.conts = soc.conts
           /\ soc'.staged = ls /\ soc'.states = soc.states /\ soc'.cookie = soc.cookie
      BY <2>3, <2>8, <1>2 DEF SocTables
    <2>11. Onward(soc, soc') /\ \A u \in People : soc'.proved[u] < soc'.next
      BY <2>8, <2>10, <1>2, SameIsOnward, NoneProved
    <2>12. Linked(soc') /\ Bounded(soc') /\ Continued(soc')
      BY <2>8, <2>10, <2>11, <1>2, LinkedKept, BoundedKept, ContinuedKept
    <2>13. Staged(soc')
      <3>1. \A l \in soc.staged : l.id \in Nat /\ l.id < soc.next /\ (l.open => soc.proved[l.user] > 0)
        BY <1>2, SocTypes DEF Social, Staged
      <3>2. \A l \in soc'.staged : l.id < soc'.next /\ (l.open => soc'.proved[l.user] > 0)
        BY <3>1, <2>4, <2>5, <2>7, <2>8, <2>9, <2>10
      <3> QED
        BY <3>2, <2>11 DEF Staged
    <2>14. Social(soc')
      BY <2>4, <2>8, <2>10, <2>12, <2>13, <1>2 DEF Social
    <2>15. SocGrows(soc, soc', call[c])
      BY <2>10, <2>11, SocGrowsPlainly
    <2>16. ASSUME NEW b \in Callers, b # c PROVE SocApart(call[b], g) /\ Spared(soc, soc', call[b])
      BY <2>1, <2>6, <2>7, <2>9, <2>10 DEF SocApart, Spared
    <2> QED
      BY <2>1, <2>2, <2>14, <2>15, <2>16, <1>1, SocStep
  <1> QED
    BY <1>4, <1>5, <1>6, <1>7, <1>8

LEMMA IssueContinuationKeeps ==
    ASSUME Facts, NEW c \in Callers, IssueContinuation(c)
    PROVE  Facts'
  <1> DEFINE f == call[c]
             ct == [id |-> soc.next, kind |-> f.kind, user |-> f.user, ident |-> f.ident,
                    email |-> f.email, browser |-> f.browser, began |-> f.began]
  <1>1. load.part = "social" /\ UNCHANGED <<load, dev, mcp>> /\ f.op = "issue" /\ Return(c)
    BY DEF IssueContinuation, Soc
  <1>2. soc' = [soc EXCEPT !.conts = @ \cup {ct}, !.next = @ + 1]
    BY DEF IssueContinuation, CreateLoginContinuation
  <1>3. /\ f.kind \in {"login", "signup"} /\ f.user \in People \cup {NoOne} /\ f.ident \in Idents
        /\ f.email \in People /\ f.browser \in Browsers /\ f.browser = f.began
        /\ f.kind = "login" => f.user \in People
    BY <1>1, SocHolds DEF SocFrame
  <1>4. Social(soc) /\ soc.next \in Nat
    BY SocHolds, SocTypes
  <1>5. /\ ct \in ContRow /\ ct.id = soc.next /\ ct.browser = ct.began /\ (ct.kind = "login" => ct.user \in People)
    BY <1>3, <1>4 DEF ContRow
  <1> HIDE DEF f, ct
  <1>6. Social(soc') /\ SocGrows(soc, soc', f) /\ soc'.staged = soc.staged
    BY <1>2, <1>4, <1>5, ContStatement
  <1> QED
    BY <1>1, <1>6, SocReturns DEF f

LEMMA SocialLoginCompleteKeeps ==
    ASSUME Facts, NEW c \in Callers, NEW ct \in soc.conts, SocialLoginComplete(c, ct)
    PROVE  Facts'
  <1> DEFINE cs == soc.conts \ {ct}
             f == [op |-> "firstFactor", user |-> ct.user, from |-> ct.id]
             g == [op |-> "signup", cont |-> ct]
  <1>1. load.part = "social" /\ UNCHANGED <<load, dev, mcp>>
    BY DEF SocialLoginComplete, Soc
  <1>2. soc' = [soc EXCEPT !.conts = cs]
    BY DEF SocialLoginComplete, TakeLoginContinuation
  <1>3. Social(soc) /\ soc \in SocTables /\ ct \in ContRow /\ ct.id \in Nat
    BY SocHolds, SocTypes
  <1>4. cs \in SUBSET ContRow /\ cs \subseteq soc.conts /\ ct \notin cs
    BY <1>3 DEF SocTables
  <1>5. (ct.kind = "login" /\ Begin(c, f)) \/ (ct.kind = "signup" /\ Begin(c, g))
    BY DEF SocialLoginComplete
  <1>6. f.op = "firstFactor" /\ f.user = ct.user /\ f.from = ct.id /\ g.op = "signup" /\ g.cont = ct
    OBVIOUS
  <1> HIDE DEF f, g, cs
  <1>7. /\ soc' \in SocTables /\ soc'.next = soc.next /\ soc'.proved = soc.proved /\ soc'.acct = soc.acct
        /\ soc'.link = soc.link /\ soc'.passes = soc.passes /\ soc'.conts = cs
        /\ soc'.staged = soc.staged /\ soc'.states = soc.states /\ soc'.cookie = soc.cookie
    BY <1>2, <1>3, <1>4 DEF SocTables
  <1>8. Social(soc') /\ SocGrows(soc, soc', call[c])
    BY <1>3, <1>4, <1>7, PlainStatement
  <1>9. /\ Unspent(soc, ct.id) /\ ct.browser = ct.began /\ (ct.kind = "login" => ct.user \in People)
        /\ \A x \in soc.conts : x.id = ct.id => x = ct
    BY <1>3 DEF Social, Continued
  <1>10. Taken(soc', ct.id)
    BY <1>4, <1>7, <1>9 DEF Taken, Unspent
  <1>11. ASSUME NEW b \in Callers PROVE Claimed(call[b]) # ct.id /\ Spared(soc, soc', call[b])
    <2>1. SocFrame(soc, call[b])
      BY SocHolds
    <2>2. Claimed(call[b]) # 0 => Taken(soc, Claimed(call[b]))
      BY <2>1, ClaimedTaken
    <2>3. ct.id # 0
      BY <1>3, <1>9 DEF Unspent
    <2> QED
      BY <2>2, <2>3, <1>7, FewerStaged DEF Taken
  <1>12. CASE ct.kind = "login" /\ Begin(c, f)
    <2>1. f.op \in {"idle"} \cup SocOps /\ SocFrame(soc', f) /\ Claimed(f) = ct.id
      BY <1>3, <1>6, <1>9, <1>10, <1>12 DEF SocOps, SocFrame, SigningUp, Claimed
    <2>2. \A b \in Callers : b # c => SocApart(call[b], f) /\ Spared(soc, soc', call[b])
      BY <2>1, <1>11 DEF SocApart
    <2> QED
      BY <2>1, <2>2, <1>1, <1>8, <1>12, SocStep DEF Begin
  <1>13. CASE ct.kind = "signup" /\ Begin(c, g)
    <2>1. g.op \in {"idle"} \cup SocOps /\ SocFrame(soc', g) /\ Claimed(g) = ct.id
      BY <1>3, <1>6, <1>9, <1>10, <1>13 DEF SocOps, SocFrame, SigningUp, Claimed
    <2>2. \A b \in Callers : b # c => SocApart(call[b], g) /\ Spared(soc, soc', call[b])
      BY <2>1, <1>11 DEF SocApart
    <2> QED
      BY <2>1, <2>2, <1>1, <1>8, <1>13, SocStep DEF Begin
  <1> QED
    BY <1>5, <1>12, <1>13

(* The frame of a signup under way.                                        *)
LEMMA SignupHolds ==
    ASSUME Facts, NEW c \in Callers, call[c].op \in SigningUp
    PROVE  /\ Social(soc) /\ call[c].cont \in ContRow /\ call[c].cont.browser = call[c].cont.began
           /\ call[c].cont.kind = "signup" /\ Taken(soc, call[c].cont.id) /\ Claimed(call[c]) = call[c].cont.id
           /\ call[c].cont.email \in People /\ call[c].cont.ident \in Idents
  BY SocHolds DEF SocFrame, Claimed, ContRow

(* The next step of a signup.                                              *)
LEMMA SignupContinues ==
    ASSUME Facts, load.part = "social", UNCHANGED <<load, dev, mcp>>, NEW c \in Callers, call[c].op \in SigningUp,
           NEW op \in SigningUp, Continue(c, [op |-> op, cont |-> call[c].cont]),
           Social(soc'), SocGrows(soc, soc', call[c]), soc'.staged \subseteq soc.staged,
           soc'.passes = soc.passes, soc'.conts = soc.conts, soc'.next = soc.next,
           op \in {"verify", "link"} => soc'.acct[call[c].cont.email].origin = call[c].cont.ident
    PROVE  Facts'
  <1> DEFINE f == [op |-> op, cont |-> call[c].cont]
  <1>1. call' = [call EXCEPT ![c] = f] /\ f.op = op /\ f.cont = call[c].cont
    BY DEF Continue
  <1> HIDE DEF f
  <1>2. Claimed(f) = Claimed(call[c]) /\ f.op \in {"idle"} \cup SocOps
    BY <1>1 DEF Claimed, SocOps
  <1>3. Taken(soc', call[c].cont.id)
    BY SignupHolds DEF Taken, Unspent
  <1>4. SocFrame(soc', f)
    BY <1>1, <1>3, SignupHolds DEF SocFrame, SigningUp
  <1> QED
    BY <1>1, <1>2, <1>4, SocContinues

LEMMA CompleteSocialSignupKeeps ==
    ASSUME Facts, NEW c \in Callers, CompleteSocialSignup(c)
    PROVE  Facts'
  <1> DEFINE ct == call[c].cont
  <1>1. load.part = "social" /\ UNCHANGED <<load, dev, mcp>> /\ call[c].op = "signup" /\ call[c].op \in SigningUp
    BY DEF CompleteSocialSignup, Soc, SigningUp
  <1>2. \/ UNCHANGED soc /\ Return(c)
        \/ soc' = [soc EXCEPT !.conts = @ \cup {ct}] /\ Return(c)
        \/ Continue(c, [op |-> "insert", cont |-> ct]) /\ UNCHANGED soc
    BY DEF CompleteSocialSignup
  <1>3. CASE UNCHANGED soc /\ Return(c)
    BY <1>1, <1>3, SocSame, SocReturns
  <1>4. CASE soc' = [soc EXCEPT !.conts = @ \cup {ct}] /\ Return(c)
    <2>1. Social(soc') /\ SocGrows(soc, soc', call[c]) /\ soc'.staged = soc.staged
      BY <1>1, <1>4, SignupHolds, PutBackStatement
    <2> QED
      BY <2>1, <1>1, <1>4, SocReturns
  <1>5. CASE Continue(c, [op |-> "insert", cont |-> ct]) /\ UNCHANGED soc
    <2>1. Social(soc') /\ SocGrows(soc, soc', call[c])
      BY <1>5, SocSame
    <2>2. "insert" \in SigningUp /\ "insert" \notin {"verify", "link"}
      BY DEF SigningUp
    <2> QED
      BY <2>1, <2>2, <1>1, <1>5, SignupContinues
  <1> QED
    BY <1>2, <1>3, <1>4, <1>5

LEMMA InsertSocialUserKeeps ==
    ASSUME Facts, NEW c \in Callers, InsertSocialUser(c)
    PROVE  Facts'
  <1> DEFINE ct == call[c].cont
             a == [soc.acct[ct.email] EXCEPT !.origin = IF @ = "none" THEN ct.ident ELSE @]
  <1>1. load.part = "social" /\ UNCHANGED <<load, dev, mcp>> /\ call[c].op = "insert" /\ call[c].op \in SigningUp
    BY DEF InsertSocialUser, Soc, SigningUp
  <1>2. \/ /\ soc.acct[ct.email] = NoAccount /\ soc' = WriteAccount(soc, ct.email, a)
           /\ Continue(c, [op |-> "verify", cont |-> ct])
        \/ Return(c) /\ UNCHANGED soc
    BY DEF InsertSocialUser, CreateUserStrict, WriteAccount
  <1>3. Social(soc) /\ ct.email \in People /\ ct.ident \in Idents
    BY <1>1, SignupHolds
  <1>4. CASE /\ soc.acct[ct.email] = NoAccount /\ soc' = WriteAccount(soc, ct.email, a)
             /\ Continue(c, [op |-> "verify", cont |-> ct])
    <2>1. a \in AccountRow /\ a.origin = ct.ident /\ a.verified = "no"
      <3> DEFINE x == NoAccount
      <3>1. a = [x EXCEPT !.origin = IF x.origin = "none" THEN ct.ident ELSE x.origin]
        BY <1>4
      <3>2. x = [origin |-> "none", verified |-> "no", keys |-> FALSE]
        BY DEF NoAccount
      <3> HIDE DEF a, ct, x
      <3>3. a = [origin |-> ct.ident, verified |-> "no", keys |-> FALSE]
        BY <3>1, <3>2
      <3> QED
        BY <3>3, <1>3 DEF AccountRow, ct
    <2>2. Vouched(a) /\ soc.acct[ct.email].origin = "none"
      BY <2>1, <1>4 DEF Vouched, NoAccount
    <2> HIDE DEF a
    <2>3. /\ Social(soc') /\ SocGrows(soc, soc', call[c]) /\ soc'.staged = soc.staged /\ soc'.acct[ct.email] = a
          /\ soc'.passes = soc.passes /\ soc'.conts = soc.conts /\ soc'.next = soc.next
      BY <2>1, <2>2, <1>3, <1>4, AccountStatement
    <2>4. "verify" \in SigningUp
      BY DEF SigningUp
    <2> QED
      BY <2>1, <2>3, <2>4, <1>1, <1>4, SignupContinues
  <1>5. CASE Return(c) /\ UNCHANGED soc
    BY <1>1, <1>5, SocSame, SocReturns
  <1> QED
    BY <1>2, <1>4, <1>5

LEMMA VerifySocialUserKeeps ==
    ASSUME Facts, NEW c \in Callers, VerifySocialUser(c)
    PROVE  Facts'
  <1> DEFINE ct == call[c].cont
             a == [soc.acct[ct.email] EXCEPT !.verified = "provider"]
  <1>1. /\ load.part = "social" /\ UNCHANGED <<load, dev, mcp>> /\ call[c].op = "verify" /\ call[c].op \in SigningUp
        /\ Continue(c, [op |-> "link", cont |-> ct])
    BY DEF VerifySocialUser, Soc, SigningUp
  <1>2. soc' = WriteAccount(soc, ct.email, a)
    BY DEF VerifySocialUser, SetUserEmailVerified, WriteAccount
  <1>3. Social(soc) /\ ct.email \in People /\ ct.ident \in Idents
    BY <1>1, SignupHolds
  <1>4. soc.acct[ct.email].origin = ct.ident /\ soc.acct[ct.email] \in AccountRow
    BY <1>1, <1>3, SocHolds, SocTypes DEF SocFrame
  <1>5. a \in AccountRow /\ a.origin = ct.ident /\ a.verified = "provider"
    BY <1>4 DEF AccountRow
  <1> HIDE DEF a
  <1>6. Vouched(a)
    BY <1>3, <1>5, IdentAssumption DEF Vouched
  <1>7. /\ Social(soc') /\ SocGrows(soc, soc', call[c]) /\ soc'.staged = soc.staged /\ soc'.acct[ct.email] = a
        /\ soc'.passes = soc.passes /\ soc'.conts = soc.conts /\ soc'.next = soc.next
    BY <1>2, <1>3, <1>4, <1>5, <1>6, AccountStatement
  <1>8. "link" \in SigningUp
    BY DEF SigningUp
  <1> QED
    BY <1>1, <1>5, <1>7, <1>8, SignupContinues

LEMMA LinkSocialUserKeeps ==
    ASSUME Facts, NEW c \in Callers, LinkSocialUser(c)
    PROVE  Facts'
  <1> DEFINE ct == call[c].cont
             how == "signup"
             open == FALSE
             f == [op |-> "firstFactor", user |-> ct.email, from |-> ct.id]
  <1>1. load.part = "social" /\ UNCHANGED <<load, dev, mcp>> /\ call[c].op = "link" /\ call[c].op \in SigningUp
    BY DEF LinkSocialUser, Soc, SigningUp
  <1>2. soc' = LinkUserIdentity(soc, ct.email, ct.ident, how, 0, open)
    BY DEF LinkSocialUser
  <1>3. Continue(c, f) \/ Return(c)
    BY DEF LinkSocialUser
  <1>4. Social(soc) /\ ct.email \in People /\ ct.ident \in Idents /\ Taken(soc, ct.id) /\ Claimed(call[c]) = ct.id
    BY <1>1, SignupHolds
  <1>5. soc.acct[ct.email].origin = ct.ident
    BY <1>1, SocHolds DEF SocFrame
  <1>6. how \in {"signup", "login"} /\ open \in BOOLEAN /\ how # "login" /\ 0 \in Nat
    OBVIOUS
  <1>7. f.op = "firstFactor" /\ f.user = ct.email /\ f.from = ct.id
    OBVIOUS
  <1> HIDE DEF how, open, f
  <1>8. /\ Social(soc') /\ SocGrows(soc, soc', call[c]) /\ soc'.staged = soc.staged
        /\ soc'.passes = soc.passes /\ soc'.conts = soc.conts /\ soc'.next = soc.next
    BY <1>2, <1>4, <1>5, <1>6, LinkStatement
  <1>9. CASE Continue(c, f)
    <2>1. ct.id \in Nat /\ Taken(soc', ct.id)
      BY <1>1, <1>4, <1>8, SignupHolds DEF Taken, Unspent, ContRow
    <2>2. f.op \in {"idle"} \cup SocOps /\ SocFrame(soc', f) /\ Claimed(f) = ct.id
      BY <2>1, <1>4, <1>7 DEF SocOps, SocFrame, SigningUp, Claimed
    <2> QED
      BY <2>2, <1>1, <1>4, <1>8, <1>9, SocContinues DEF Continue
  <1>10. CASE Return(c)
    BY <1>1, <1>8, <1>10, SocReturns
  <1> QED
    BY <1>3, <1>9, <1>10

LEMMA FinishFirstFactorLoginKeeps ==
    ASSUME Facts, NEW c \in Callers, FinishFirstFactorLogin(c)
    PROVE  Facts'
  <1> DEFINE own == call[c]
             u == own.user
             new == [id |-> soc.next, from |-> own.from]
             ps == soc.passes \cup {new}
             hs == IF load.webauthn /\ soc.acct[u].keys THEN soc.challenges \cup {u} ELSE soc.challenges
             pr == [soc.proved EXCEPT ![u] = IF load.webauthn THEN @ ELSE soc.next]
             n1 == soc.next + 1
             f == [op |-> "persist", user |-> u]
  <1>1. load.part = "social" /\ UNCHANGED <<load, dev, mcp>> /\ own.op = "firstFactor"
    BY DEF FinishFirstFactorLogin, Soc
  <1>2. soc' = [soc EXCEPT !.passes = ps, !.challenges = hs, !.proved = pr, !.next = n1]
    BY DEF FinishFirstFactorLogin
  <1>3. (load.webauthn /\ Return(c)) \/ (~load.webauthn /\ Continue(c, f))
    BY DEF FinishFirstFactorLogin, AfterFirstFactor
  <1>4. u \in People /\ own.from \in Nat /\ (own.from # 0 => Taken(soc, own.from))
    BY <1>1, SocHolds DEF SocFrame
  <1>5. Social(soc) /\ soc \in SocTables /\ soc.next \in Nat /\ soc.next > 0
    BY SocHolds, SocTypes
  <1>6. new \in PassRow /\ new.from = own.from
    BY <1>4, <1>5 DEF PassRow
  <1>7. /\ pr \in [People -> Nat] /\ \A x \in People : pr[x] = soc.proved[x] \/ pr[x] = soc.next
        /\ ~load.webauthn => pr[u] = soc.next
    BY <1>4, <1>5 DEF SocTables
  <1>8. hs \in SUBSET People
    BY <1>4, <1>5 DEF SocTables
  <1>9. f.op = "persist" /\ f.user = u /\ Claimed(own) = own.from
    BY <1>1 DEF Claimed, SigningUp
  <1> HIDE DEF new, pr, hs, f, u, own
  <1>10. ps \in SUBSET PassRow /\ n1 \in Nat
    BY <1>5, <1>6 DEF SocTables
  <1> HIDE DEF ps, n1
  <1>11. /\ soc' \in SocTables /\ soc'.next = n1 /\ soc'.proved = pr /\ soc'.acct = soc.acct
         /\ soc'.link = soc.link /\ soc'.passes = ps /\ soc'.conts = soc.conts
         /\ soc'.staged = soc.staged /\ soc'.states = soc.states /\ soc'.cookie = soc.cookie
    BY <1>2, <1>5, <1>7, <1>8, <1>10 DEF SocTables
  <1>12. /\ Onward(soc, soc') /\ Linked(soc') /\ Bounded(soc') /\ Staged(soc') /\ soc'.next > 0
         /\ \A x \in People : Vouched(soc'.acct[x])
    <2>1. soc'.next = soc.next + 1
      BY <1>11 DEF n1
    <2>2. \A x \in People : soc'.proved[x] = soc.proved[x] \/ soc'.proved[x] = soc.next
      BY <1>7, <1>11
    <2> QED
      BY <2>1, <2>2, <1>5, <1>11, ProvedStatement
  <1>13. Continued(soc')
    <2>1. /\ \A x \in soc.conts : /\ x.id \in Nat /\ x.id < soc.next /\ x.id > 0 /\ x.browser = x.began
                                  /\ \A p \in soc.passes : p.from # x.id
                                  /\ x.kind = "login" => x.user \in People
          /\ \A p \in soc.passes : p.from \in Nat /\ p.from < soc.next
      BY <1>5, SocTypes DEF Social, Continued, Unspent
    <2>2. own.from # 0 => /\ own.from < soc.next /\ \A p \in soc.passes : p.from # own.from
                          /\ \A x \in soc.conts : x.id # own.from
      BY <1>4 DEF Taken, Unspent
    <2>3. \A x \in soc.conts : x.id # own.from
      BY <2>1, <2>2
    <2>4. \A x \in soc'.conts : Unspent(soc', x.id)
      BY <2>1, <2>3, <1>5, <1>6, <1>11 DEF Unspent, ps, n1
    <2>5. \A p \in soc'.passes : p.from < soc'.next
      BY <2>1, <2>2, <1>4, <1>5, <1>6, <1>11 DEF ps, n1
    <2>6. \A x, y \in soc'.passes : x.from = y.from /\ x.from # 0 => x = y
      BY <2>2, <1>5, <1>6, <1>11 DEF ps, Social, Continued
    <2>7. \A x, y \in soc'.conts : x.id = y.id => x = y
      BY <1>5, <1>11 DEF Social, Continued
    <2> QED
      BY <2>1, <2>4, <2>5, <2>6, <2>7, <1>11 DEF Continued
  <1>14. Social(soc')
    BY <1>11, <1>12, <1>13 DEF Social
  <1>15. SocGrows(soc, soc', own)
    BY <1>6, <1>9, <1>11, <1>12 DEF SocGrows, NewPass, NewCont, ps
  <1>16. CASE Return(c)
    BY <1>1, <1>11, <1>14, <1>15, <1>16, SocReturns DEF own
  <1>17. CASE ~load.webauthn /\ Continue(c, f)
    <2>1. soc'.proved[u] = soc.next /\ soc'.staged = soc.staged
      BY <1>7, <1>11, <1>17
    <2>2. SocFrame(soc', f) /\ Claimed(f) = 0 /\ f.op \in {"idle"} \cup SocOps
      BY <2>1, <1>4, <1>5, <1>9, ProvedFrame
    <2> QED
      BY <2>2, <1>1, <1>11, <1>14, <1>15, <1>17, SocContinues DEF Continue, own
  <1> QED
    BY <1>3, <1>16, <1>17

LEMMA LoginPasskeyKeeps ==
    ASSUME Facts, NEW c \in Callers, NEW u \in soc.challenges, LoginPasskey(c, u)
    PROVE  Facts'
  <1> DEFINE hs == soc.challenges \ {u}
             pr == [soc.proved EXCEPT ![u] = soc.next]
             n1 == soc.next + 1
             f == [op |-> "persist", user |-> u]
  <1>1. load.part = "social" /\ UNCHANGED <<load, dev, mcp>> /\ Begin(c, f)
    BY DEF LoginPasskey, Soc
  <1>2. soc' = [soc EXCEPT !.challenges = hs, !.proved = pr, !.next = n1]
    BY DEF LoginPasskey
  <1>3. Social(soc) /\ soc \in SocTables /\ soc.next \in Nat /\ soc.next > 0 /\ u \in People
    BY SocHolds, SocTypes DEF SocTables
  <1>4. /\ pr \in [People -> Nat] /\ pr[u] = soc.next /\ \A x \in People : pr[x] = soc.proved[x] \/ pr[x] = soc.next
        /\ hs \in SUBSET People /\ n1 \in Nat
    BY <1>3 DEF SocTables
  <1>5. f.op = "persist" /\ f.user = u
    OBVIOUS
  <1> HIDE DEF hs, pr, n1, f
  <1>6. /\ soc' \in SocTables /\ soc'.next = n1 /\ soc'.proved = pr /\ soc'.acct = soc.acct
        /\ soc'.link = soc.link /\ soc'.passes = soc.passes /\ soc'.conts = soc.conts
        /\ soc'.staged = soc.staged /\ soc'.states = soc.states /\ soc'.cookie = soc.cookie
    BY <1>2, <1>3, <1>4 DEF SocTables
  <1>7. soc'.next = soc.next + 1 /\ soc.next <= soc'.next
    BY <1>3, <1>6 DEF n1
  <1>8. \A x \in People : soc'.proved[x] = soc.proved[x] \/ soc'.proved[x] = soc.next
    BY <1>4, <1>6
  <1>9. /\ Onward(soc, soc') /\ Linked(soc') /\ Bounded(soc') /\ Staged(soc') /\ soc'.next > 0
        /\ \A x \in People : Vouched(soc'.acct[x])
    BY <1>3, <1>6, <1>7, <1>8, ProvedStatement
  <1>10. Continued(soc')
    BY <1>3, <1>6, <1>7, ContinuedKept
  <1>11. Social(soc') /\ SocGrows(soc, soc', call[c])
    BY <1>6, <1>9, <1>10, SocGrowsPlainly DEF Social
  <1>12. SocFrame(soc', f) /\ Claimed(f) = 0 /\ f.op \in {"idle"} \cup SocOps
    BY <1>3, <1>4, <1>5, <1>6, ProvedFrame
  <1> QED
    BY <1>1, <1>6, <1>11, <1>12, SocContinues DEF Begin

LEMMA PersistPendingIdentityLinksKeeps ==
    ASSUME Facts, NEW c \in Callers, PersistPendingIdentityLinks(c)
    PROVE  Facts'
  <1> DEFINE u == call[c].user
             ss == {l \in soc.staged : l.user # u}
             ls == {l \in soc.staged : l.user = u}
             f == [op |-> "persistEach", user |-> u, links |-> ls]
  <1>1. load.part = "social" /\ UNCHANGED <<load, dev, mcp>> /\ call[c].op = "persist" /\ Continue(c, f)
    BY DEF PersistPendingIdentityLinks, Soc
  <1>2. soc' = [soc EXCEPT !.staged = ss]
    BY DEF PersistPendingIdentityLinks, TakePendingIdentityLinks
  <1>3. /\ Social(soc) /\ soc \in SocTables /\ u \in People /\ soc.proved[u] > 0
        /\ \A l \in soc.staged : l.user = u => l.open \/ l.id < soc.proved[u]
    BY <1>1, SocHolds DEF SocFrame
  <1>4. ss \in SUBSET StagedRow /\ ss \subseteq soc.staged /\ ls \subseteq StagedRow
    BY <1>3 DEF SocTables
  <1>5. \A l \in ls : soc.proved[u] > (IF l.open THEN 0 ELSE l.id)
    <2>1. \A l \in soc.staged : l.id \in Nat /\ soc.proved[u] \in Nat
      BY <1>3, SocTypes
    <2> QED
      BY <2>1, <1>3
  <1>6. f.op = "persistEach" /\ f.user = u /\ f.links = ls
    OBVIOUS
  <1> HIDE DEF u, ss, ls, f
  <1>7. /\ soc' \in SocTables /\ soc'.next = soc.next /\ soc'.proved = soc.proved /\ soc'.acct = soc.acct
        /\ soc'.link = soc.link /\ soc'.passes = soc.passes /\ soc'.conts = soc.conts
        /\ soc'.staged = ss /\ soc'.states = soc.states /\ soc'.cookie = soc.cookie
    BY <1>2, <1>3, <1>4 DEF SocTables
  <1>8. Social(soc') /\ SocGrows(soc, soc', call[c])
    BY <1>3, <1>4, <1>7, PlainStatement
  <1>9. f.op \in {"idle"} \cup SocOps /\ SocFrame(soc', f) /\ Claimed(f) = 0
    BY <1>3, <1>4, <1>5, <1>6, <1>7 DEF SocOps, SocFrame, SigningUp, Claimed
  <1> QED
    BY <1>1, <1>4, <1>7, <1>8, <1>9, SocContinues DEF Continue

LEMMA PersistEachKeeps ==
    ASSUME Facts, NEW c \in Callers, PersistEach(c)
    PROVE  Facts'
  <1> DEFINE f == call[c]
             how == "login"
  <1>1. load.part = "social" /\ UNCHANGED <<load, dev, mcp>> /\ f.op = "persistEach"
    BY DEF PersistEach, Soc
  <1>2. /\ Social(soc) /\ f.user \in People /\ f.links \subseteq StagedRow
        /\ \A l \in f.links : soc.proved[f.user] > (IF l.open THEN 0 ELSE l.id)
    BY <1>1, SocHolds DEF SocFrame
  <1>3. CASE Return(c) /\ UNCHANGED soc
    BY <1>1, <1>3, SocSame, SocReturns
  <1>4. ASSUME NEW l \in f.links, soc' = LinkUserIdentity(soc, f.user, l.ident, how, l.id, l.open),
               Continue(c, [f EXCEPT !.links = @ \ {l}])
        PROVE  Facts'
    <2> DEFINE g == [f EXCEPT !.links = @ \ {l}]
    <2>1. l.ident \in Idents /\ l.id \in Nat /\ l.open \in BOOLEAN
      BY <1>2 DEF StagedRow
    <2>2. g.op = f.op /\ g.user = f.user /\ (g.links = f.links \ {l} \/ g.links = f.links)
      OBVIOUS
    <2>3. how \in {"signup", "login"} /\ how # "signup" /\ ProvedAfter(soc, f.user, l.open, l.id)
      BY <1>2 DEF ProvedAfter
    <2> HIDE DEF g, how, f
    <2>4. /\ Social(soc') /\ SocGrows(soc, soc', f) /\ soc'.staged = soc.staged /\ soc'.proved = soc.proved
      BY <2>1, <2>3, <1>2, <1>4, LinkStatement
    <2>5. g.op = "persistEach" /\ g.user = f.user /\ g.links \subseteq f.links
      BY <2>2, <1>1
    <2>6. g.op \in {"idle"} \cup SocOps /\ SocFrame(soc', g) /\ Claimed(g) = 0
      BY <2>4, <2>5, <1>2 DEF SocOps, SocFrame, SigningUp, Claimed
    <2> QED
      BY <2>4, <2>6, <1>1, <1>4, SocContinues DEF Continue, f, g
  <1> QED
    BY <1>3, <1>4 DEF PersistEach

LEMMA PasswordSignupKeeps ==
    ASSUME Facts, NEW u \in People, PasswordSignup(u)
    PROVE  Facts'
  <1> DEFINE x == soc.acct[u]
             a == [x EXCEPT !.origin = "password"]
  <1>1. load.part = "social" /\ UNCHANGED <<load, dev, mcp, call>> /\ x = NoAccount
    BY DEF PasswordSignup, Soc
  <1>2. soc' = WriteAccount(soc, u, a)
    BY DEF PasswordSignup, WriteAccount
  <1>3. Social(soc) /\ x \in AccountRow
    BY SocHolds, SocTypes
  <1>4. x.origin = "none" /\ x.verified = "no"
    BY <1>1 DEF NoAccount
  <1> HIDE DEF x
  <1>5. a \in AccountRow /\ a.origin = "password" /\ a.verified = "no"
    BY <1>3, <1>4 DEF AccountRow
  <1>6. Vouched(a)
    BY <1>5 DEF Vouched
  <1> HIDE DEF a
  <1>7. Social(soc') /\ SocGrows(soc, soc', Idle) /\ soc'.staged = soc.staged
    BY <1>2, <1>3, <1>4, <1>5, <1>6, AccountStatement DEF x
  <1> QED
    BY <1>1, <1>7, SocAtOnce

LEMMA VerifyEmailKeeps ==
    ASSUME Facts, NEW u \in People, VerifyEmail(u)
    PROVE  Facts'
  <1> DEFINE x == soc.acct[u]
             a == [x EXCEPT !.verified = "code"]
  <1>1. load.part = "social" /\ UNCHANGED <<load, dev, mcp, call>> /\ x.origin = "password"
    BY DEF VerifyEmail, Soc
  <1>2. soc' = WriteAccount(soc, u, a)
    BY DEF VerifyEmail, SetUserEmailVerified, WriteAccount
  <1>3. Social(soc) /\ x \in AccountRow
    BY SocHolds, SocTypes
  <1> HIDE DEF x
  <1>4. a \in AccountRow /\ a.origin = x.origin /\ a.verified = "code"
    BY <1>3 DEF AccountRow
  <1>5. Vouched(a)
    BY <1>1, <1>4 DEF Vouched
  <1> HIDE DEF a
  <1>6. Social(soc') /\ SocGrows(soc, soc', Idle) /\ soc'.staged = soc.staged
    BY <1>2, <1>3, <1>4, <1>5, AccountStatement DEF x
  <1> QED
    BY <1>1, <1>6, SocAtOnce

LEMMA SetupPasskeyKeeps ==
    ASSUME Facts, NEW u \in People, SetupPasskey(u)
    PROVE  Facts'
  <1> DEFINE x == soc.acct[u]
             a == [x EXCEPT !.keys = TRUE]
  <1>1. load.part = "social" /\ UNCHANGED <<load, dev, mcp, call>>
    BY DEF SetupPasskey, Soc
  <1>2. soc' = WriteAccount(soc, u, a)
    BY DEF SetupPasskey, WriteAccount
  <1>3. Social(soc) /\ x \in AccountRow /\ Vouched(x)
    BY SocHolds, SocTypes DEF Social
  <1> HIDE DEF x
  <1>4. a \in AccountRow /\ a.origin = x.origin /\ a.verified = x.verified
    BY <1>3 DEF AccountRow
  <1>5. Vouched(a)
    BY <1>3, <1>4 DEF Vouched
  <1> HIDE DEF a
  <1>6. Social(soc') /\ SocGrows(soc, soc', Idle) /\ soc'.staged = soc.staged
    BY <1>2, <1>3, <1>4, <1>5, AccountStatement DEF x
  <1> QED
    BY <1>1, <1>6, SocAtOnce

LEMMA PasswordLoginKeeps ==
    ASSUME Facts, NEW c \in Callers, NEW u \in People, PasswordLogin(c, u)
    PROVE  Facts'
  <1> DEFINE f == [op |-> "firstFactor", user |-> u, from |-> 0]
  <1>1. load.part = "social" /\ UNCHANGED <<load, dev, mcp, soc>> /\ Begin(c, f)
    BY DEF PasswordLogin, Soc
  <1>2. SocFrame(soc', f) /\ Claimed(f) = 0 /\ f.op \in {"idle"} \cup SocOps
    BY DEF SocFrame, SigningUp, Claimed, SocOps
  <1> HIDE DEF f
  <1>3. Social(soc') /\ SocGrows(soc, soc', call[c]) /\ soc'.staged \subseteq soc.staged
    BY <1>1, SocSame
  <1> QED
    BY <1>1, <1>2, <1>3, SocContinues DEF Begin

LEMMA SocialExpireKeeps ==
    ASSUME Facts, SocialExpire
    PROVE  Facts'
  <1>1. load.part = "social" /\ UNCHANGED <<load, dev, mcp, call>>
    BY DEF SocialExpire, Soc
  <1>2. Social(soc) /\ soc \in SocTables
    BY SocHolds
  <1>3. ASSUME NEW ss, NEW cs, NEW ls, ss \subseteq soc.states, cs \subseteq soc.conts, ls \subseteq soc.staged,
               soc' = [soc EXCEPT !.states = ss, !.conts = cs, !.staged = ls]
        PROVE  Facts'
    <2>1. ss \in SUBSET StateRow /\ cs \in SUBSET ContRow /\ ls \in SUBSET StagedRow
      BY <1>2, <1>3 DEF SocTables
    <2>2. /\ soc' \in SocTables /\ soc'.next = soc.next /\ soc'.proved = soc.proved /\ soc'.acct = soc.acct
          /\ soc'.link = soc.link /\ soc'.passes = soc.passes /\ soc'.conts = cs
          /\ soc'.staged = ls /\ soc'.states = ss /\ soc'.cookie = soc.cookie
      BY <2>1, <1>2, <1>3 DEF SocTables
    <2>3. Social(soc') /\ SocGrows(soc, soc', Idle)
      BY <2>2, <1>2, <1>3, PlainStatement
    <2> QED
      BY <2>2, <2>3, <1>1, <1>3, SocAtOnce
  <1>4. ASSUME NEW st \in soc.states, soc' = TakeLoginOauthState(soc, st) PROVE Facts'
    <2>1. soc' = [soc EXCEPT !.states = soc.states \ {st}, !.conts = soc.conts, !.staged = soc.staged]
      BY <1>2, <1>4 DEF TakeLoginOauthState, SocTables
    <2> QED
      BY <2>1, <1>3
  <1>5. ASSUME NEW ct \in soc.conts, soc' = [soc EXCEPT !.conts = @ \ {ct}] PROVE Facts'
    <2>1. soc' = [soc EXCEPT !.states = soc.states, !.conts = soc.conts \ {ct}, !.staged = soc.staged]
      BY <1>2, <1>5 DEF SocTables
    <2> QED
      BY <2>1, <1>3
  <1>6. ASSUME NEW l \in soc.staged, soc' = [soc EXCEPT !.staged = @ \ {l}] PROVE Facts'
    <2>1. soc' = [soc EXCEPT !.states = soc.states, !.conts = soc.conts, !.staged = soc.staged \ {l}]
      BY <1>2, <1>6 DEF SocTables
    <2> QED
      BY <2>1, <1>3
  <1> QED
    BY <1>4, <1>5, <1>6 DEF SocialExpire

-----------------------------------------------------------------------------
(* All steps                                                               *)

LEMMA CrashKeeps ==
    ASSUME Facts, NEW c \in Callers, Crash(c)
    PROVE  Facts'
  <1>1. UNCHANGED <<load, soc, dev, mcp>> /\ call' = [call EXCEPT ![c] = Idle]
    BY DEF Crash, Return
  <1>2. DOMAIN call' = Callers /\ call'[c] = Idle /\ \A b \in Callers : b # c => call'[b] = call[b]
    BY <1>1, Calls DEF Facts, Under
  <1>3. /\ Idle.op = "idle" /\ SocFrame(soc, Idle) /\ DevFrame(dev, Idle) /\ McpFrame(mcp, Idle)
        /\ \A f : SocApart(f, Idle) /\ SocApart(Idle, f) /\ DevApart(f, Idle) /\ DevApart(Idle, f)
                  /\ McpApart(f, Idle) /\ McpApart(Idle, f)
    BY IdleClaims, NotSocial, NotDevice, NotMcp DEF SocApart, DevApart, McpApart
  <1>4. Under'
    BY <1>1, <1>2, <1>3 DEF Facts, Under, OpsOf
  <1>5. SocFacts'
    BY <1>1, <1>2, <1>3 DEF Facts, SocFacts
  <1>6. DevFacts'
    BY <1>1, <1>2, <1>3 DEF Facts, DevFacts
  <1>7. McpFacts'
    BY <1>1, <1>2, <1>3 DEF Facts, McpFacts
  <1> QED
    BY <1>4, <1>5, <1>6, <1>7 DEF Facts

LEMMA SocialNextKeeps ==
    ASSUME Facts, SocialNext
    PROVE  Facts'
  <1>1. CASE \E b \in load.browsers : GoogleLoginStart(b) \/ GithubLoginStart(b)
    BY <1>1, LoginStartKeeps
  <1>2. CASE \E u \in People : PasswordSignup(u) \/ VerifyEmail(u) \/ SetupPasskey(u)
    BY <1>2, PasswordSignupKeeps, VerifyEmailKeeps, SetupPasskeyKeeps
  <1>3. ASSUME NEW c \in Callers, NEW b \in load.browsers, NEW st \in soc.states, NEW i \in load.idents,
               NEW e \in People, GoogleLoginCallback(c, b, st, i, e) \/ GithubLoginCallback(c, b, st, i, e)
        PROVE  Facts'
    <2>1. b \in Browsers /\ i \in Idents
      BY SocHolds
    <2>2. PICK p : LoginCallback(c, p, b, st, i, e)
      BY <1>3 DEF GoogleLoginCallback, GithubLoginCallback
    <2> QED
      BY <2>1, <2>2, LoginCallbackKeeps
  <1>4. ASSUME NEW c \in Callers, NEW ct \in soc.conts, SocialLoginComplete(c, ct) PROVE Facts'
    BY <1>4, SocialLoginCompleteKeeps
  <1>5. ASSUME NEW c \in Callers, NEW u \in soc.challenges, LoginPasskey(c, u) PROVE Facts'
    BY <1>5, LoginPasskeyKeeps
  <1>6. ASSUME NEW c \in Callers, NEW u \in People, PasswordLogin(c, u) PROVE Facts'
    BY <1>6, PasswordLoginKeeps
  <1>7. ASSUME NEW c \in Callers,
               \/ ResolveSocialLogin(c) \/ IssueContinuation(c)
               \/ CompleteSocialSignup(c) \/ InsertSocialUser(c) \/ VerifySocialUser(c) \/ LinkSocialUser(c)
               \/ FinishFirstFactorLogin(c)
               \/ PersistPendingIdentityLinks(c) \/ PersistEach(c)
        PROVE  Facts'
    BY <1>7, ResolveSocialLoginKeeps, IssueContinuationKeeps, CompleteSocialSignupKeeps, InsertSocialUserKeeps,
       VerifySocialUserKeeps, LinkSocialUserKeeps, FinishFirstFactorLoginKeeps,
       PersistPendingIdentityLinksKeeps, PersistEachKeeps
  <1> QED
    BY <1>1, <1>2, <1>3, <1>4, <1>5, <1>6, <1>7, SocialExpireKeeps DEF SocialNext

LEMMA DeviceNextKeeps ==
    ASSUME Facts, DeviceNext
    PROVE  Facts'
  BY DeviceAuthorizeKeeps, NewRateWindowKeeps, DeviceExpireKeeps, DeviceConfirmKeeps, DeviceTokenKeeps,
     FinishDeviceConfirmKeeps, FinishDeviceTokenKeeps DEF DeviceNext

LEMMA McpNextKeeps ==
    ASSUME Facts, McpNext
    PROVE  Facts'
  <1>1. CASE \E p \in Parties : RegisterClient(p) \/ \E q \in Parties : AuthorizePage(p, q)
    BY <1>1, RegisterClientKeeps, AuthorizePageKeeps
  <1>2. CASE \E u \in People : BeginAuthorization(u) \/ \E t \in Teams : McpDisconnect(u, t) \/ EditMcpAgent(u, t)
    BY <1>2, BeginAuthorizationKeeps, McpDisconnectKeeps, EditMcpAgentKeeps
  <1>3. CASE \E a \in mcp.assertions : AuthorizeCallback(a)
    BY <1>3, AuthorizeCallbackKeeps
  <1>4. ASSUME NEW c \in Callers, NEW ch \in mcp.challenges, NEW r \in mcp.requests, NEW t \in Teams,
               AuthorizeAtLogin(c, t, ch, r) \/ \E u \in People : FinishAuthorization(c, u, t, ch, r)
        PROVE  Facts'
    BY <1>4, AuthorizeAtLoginKeeps, FinishAuthorizationKeeps
  <1>5. ASSUME NEW c \in Callers, NEW p \in Parties, NEW k \in mcp.codes, ExchangeAuthorizationCode(c, p, k)
        PROVE  Facts'
    BY <1>5, ExchangeAuthorizationCodeKeeps
  <1>6. ASSUME NEW c \in Callers, NEW tk \in mcp.tokens,
               ResolveMcpAgent(c, tk) \/ \E q \in mcp.clients : ExchangeRefreshToken(c, q, tk)
        PROVE  Facts'
    BY <1>6, ResolveMcpAgentKeeps, ExchangeRefreshTokenKeeps
  <1>7. ASSUME NEW c \in Callers,
               \/ ProvisionAgent(c) \/ IssueAuthorizationAssertion(c)
               \/ IssueToken(c) \/ IssueConsume(c) \/ IssueRecord(c)
               \/ RefreshToken(c) \/ FinishRefresh(c) \/ ActAsAgent(c)
        PROVE  Facts'
    BY <1>7, ProvisionAgentKeeps, IssueAuthorizationAssertionKeeps, IssueTokenKeeps, IssueConsumeKeeps,
       IssueRecordKeeps, RefreshTokenKeeps, FinishRefreshKeeps, ActAsAgentKeeps
  <1> QED
    BY <1>1, <1>2, <1>3, <1>4, <1>5, <1>6, <1>7, McpExpireKeeps DEF McpNext

LEMMA NextKeeps ==
    ASSUME Facts, [Next]_vars
    PROVE  Facts'
  <1>1. CASE UNCHANGED vars
    BY <1>1 DEF vars, Facts, Under, SocFacts, DevFacts, McpFacts
  <1>2. CASE Next
    BY <1>2, SocialNextKeeps, DeviceNextKeeps, McpNextKeeps, CrashKeeps DEF Next
  <1> QED
    BY <1>1, <1>2

LEMMA InitHolds ==
    ASSUME Init
    PROVE  Facts
  <1>1. /\ load \in Loads /\ call = [c \in Callers |-> Idle] /\ mcp = load.mcp
        /\ soc.acct = load.accounts /\ soc.states = {} /\ soc.conts = {} /\ soc.staged = {} /\ soc.passes = {}
        /\ soc.link = [i \in Idents |-> [user |-> NoOne, how |-> "none", at |-> 0, open |-> FALSE]]
        /\ soc.cookie = [b \in Browsers |-> 0] /\ soc.proved = [u \in People |-> 0] /\ soc.next = 1
    BY DEF Init
  <1>2. /\ dev.rows = {} /\ dev.sessions = {} /\ dev.count = [u \in People |-> 0]
        /\ dev.tried = [u \in People |-> 0] /\ dev \in DevTables
    BY DEF Init, DevTables
  <1>3. /\ load.accounts \in [People -> AccountRow] /\ (\A u \in People : Vouched(load.accounts[u]))
        /\ Connections(load.mcp)
    BY <1>1, LoadAssumption
  <1>4. soc \in SocTables
    <2> DEFINE l0 == [user |-> NoOne, how |-> "none", at |-> 0, open |-> FALSE]
               links == [i \in Idents |-> l0]
               cookies == [b \in Browsers |-> 0]
               proofs == [u \in People |-> 0]
    <2>1. l0 \in LinkRow
      BY DEF LinkRow
    <2> HIDE DEF l0
    <2>2. links \in [Idents -> LinkRow] /\ cookies \in [Browsers -> Nat] /\ proofs \in [People -> Nat]
      BY <2>1
    <2>3. soc = [acct |-> load.accounts, link |-> links, states |-> {}, cookie |-> cookies, conts |-> {},
                 staged |-> {}, challenges |-> {}, passes |-> {}, proved |-> proofs, next |-> 1]
      BY DEF Init, l0
    <2> HIDE DEF links, cookies, proofs
    <2> QED
      BY <2>2, <2>3, <1>3 DEF SocTables
  <1>5. Social(soc)
    <2>1. Linked(soc)
      BY <1>1 DEF Linked
    <2>2. Bounded(soc) /\ Continued(soc) /\ Staged(soc)
      BY <1>1 DEF Bounded, Continued, Staged
    <2> QED
      BY <2>1, <2>2, <1>1, <1>3, <1>4 DEF Social
  <1>6. Device(dev)
    BY <1>2, BoundAssumption DEF Device
  <1>7. \A c \in Callers : call[c] = Idle /\ call[c].op = "idle"
    BY <1>1, IdleClaims
  <1>8. Under
    BY <1>1, <1>7 DEF Under, OpsOf
  <1>9. /\ \A c \in Callers : SocFrame(soc, call[c]) /\ Claimed(call[c]) = 0
        /\ \A c \in Callers : DevFrame(dev, call[c]) /\ call[c].op # "session"
        /\ \A c \in Callers : McpFrame(mcp, call[c]) /\ call[c].op # "record" /\ call[c].op # "mint"
    BY <1>7, NotSocial, NotDevice, NotMcp
  <1>10. SocFacts
    BY <1>5, <1>9 DEF SocFacts, SocApart
  <1>11. DevFacts
    BY <1>6, <1>9 DEF DevFacts, DevApart
  <1>12. McpFacts
    BY <1>1, <1>3, <1>9 DEF McpFacts, McpApart
  <1> QED
    BY <1>8, <1>10, <1>11, <1>12 DEF Facts

(* The facts hold in every behaviour.                                      *)
THEOREM FactsHold == Spec => []Facts
  <1>1. Init => Facts
    BY InitHolds
  <1>2. Facts /\ [Next]_vars => Facts'
    BY NextKeeps
  <1> QED
    BY <1>1, <1>2, PTL DEF Spec

-----------------------------------------------------------------------------
(* What the facts say                                                      *)

LEMMA FactsGiveSocial ==
    ASSUME Facts
    PROVE  SocialLoginHolds
  <1>1. Social(soc) /\ Device(dev) /\ Connections(mcp) /\ load \in Loads
    BY DEF Facts, Under, SocFacts, DevFacts, McpFacts
  <1>2. TypeOK
    <2>1. \A u \in People : soc.acct[u].verified # "no" => soc.acct[u].origin # "none"
      BY <1>1 DEF Social, Vouched
    <2>2. \A r \in dev.rows : (r.status = "pending") = (r.user = NoOne)
      BY <1>1 DEF Device
    <2>3. \A f \in mcp.families : f.subject \in People /\ f.team \in Teams /\ f.status \in {"live", "revoked", "expired"}
      <3>1. \A f \in mcp.families : f \in FamilyRow
        BY <1>1, McpTypes
      <3> QED
        BY <3>1 DEF FamilyRow
    <2>4. \A x \in mcp.acted : \E f \in mcp.families : f.id = x.family
      BY <1>1 DEF Connections, Chained
    <2> QED
      BY <2>1, <2>2, <2>3, <2>4, <1>1 DEF TypeOK
  <1>3. OneLoginPerContinuation
    BY <1>1 DEF Social, Continued, OneLoginPerContinuation
  <1>4. LinkNeedsFullLogin
    BY <1>1 DEF Social, Linked, Since, LinkNeedsFullLogin
  <1>5. SocialSignupOwnsAccount
    BY <1>1 DEF Social, Linked, Vouched, SocialSignupOwnsAccount
  <1>6. LoginStaysInBrowser
    BY <1>1 DEF Social, Continued, LoginStaysInBrowser
  <1> QED
    BY <1>2, <1>3, <1>4, <1>5, <1>6 DEF SocialLoginHolds

LEMMA FactsGiveDevice ==
    ASSUME Facts
    PROVE  DeviceLoginHolds
  BY DEF Facts, DevFacts, Device, DeviceLoginHolds, OneSessionPerDeviceCode, DeviceBindsFirstConfirmer,
         ConfirmsAreBounded

LEMMA FactsGiveConnections ==
    ASSUME Facts
    PROVE  ConnectionsHold
  <1>1. Connections(mcp)
    BY DEF Facts, McpFacts
  <1>2. ConnectionNeedsOwnPasskey
    BY <1>1 DEF Connections, Recorded, Proved, ConnectionNeedsOwnPasskey
  <1>3. TokensReachTheAskingClient
    <2> SUFFICES ASSUME NEW tk \in mcp.tokens PROVE FamilyOf(mcp, tk.family).request.by = tk.party
      BY DEF TokensReachTheAskingClient
    <2>1. PICK f \in mcp.families : f.id = tk.family /\ f.request.by = tk.party
      BY <1>1 DEF Connections, Chained
    <2>2. f = FamilyOf(mcp, tk.family)
      BY <2>1, <1>1, FamilyOfToken
    <2> QED
      BY <2>1, <2>2
  <1>4. OneFamilyPerLiveCode /\ FamiliesDoNotFork /\ DisconnectHolds
    BY <1>1 DEF Connections, Recorded, Chained, OneFamilyPerLiveCode, FamiliesDoNotFork, DisconnectHolds
  <1> QED
    BY <1>2, <1>3, <1>4 DEF ConnectionsHold

(* Login with Google or GitHub logs in once per continuation, in the       *)
(* browser where it began, links an identity to an account it did not make *)
(* only after a whole login, and never takes over a password's account.    *)
THEOREM SocialLogins == Spec => []SocialLoginHolds
  BY FactsHold, FactsGiveSocial, PTL

(* The device flow of the command line yields one session per code, of the *)
(* person who confirmed it first, within the budget of guesses.            *)
THEOREM DeviceLogins == Spec => []DeviceLoginHolds
  BY FactsHold, FactsGiveDevice, PTL

(* An MCP connection goes back to the person's own passkey and the asking  *)
(* client, its code opens one family while it lives, the family's tokens   *)
(* form one chain, and nobody acts for it after a disconnect.              *)
THEOREM McpConnections == Spec => []ConnectionsHold
  BY FactsHold, FactsGiveConnections, PTL

-----------------------------------------------------------------------------
(* Links are written once                                                  *)

KeepsLinks(d, e) == \A i \in Idents : d.link[i].user # NoOne => e.link[i].user = d.link[i].user

LEMMA LinkUserIdentityKeepsLinks ==
    ASSUME NEW d \in SocTables, NEW u, NEW i \in Idents, NEW how, NEW at, NEW open
    PROVE  KeepsLinks(d, LinkUserIdentity(d, u, i, how, at, open))
  <1> DEFINE new == [user |-> u, how |-> how, at |-> at, open |-> open]
             e == LinkUserIdentity(d, u, i, how, at, open)
             ls == [d.link EXCEPT ![i] = new]
  <1>1. CASE d.link[i].user # NoOne
    BY <1>1 DEF LinkUserIdentity, KeepsLinks
  <1>2. CASE d.link[i].user = NoOne
    <2>1. e = [d EXCEPT !.link = ls]
      BY <1>2 DEF LinkUserIdentity
    <2>2. \A x \in Idents : x # i => ls[x] = d.link[x]
      BY DEF SocTables
    <2> HIDE DEF ls, e
    <2>3. e.link = ls
      BY <2>1 DEF SocTables
    <2> QED
      BY <2>2, <2>3, <1>2 DEF KeepsLinks, e
  <1> QED
    BY <1>1, <1>2

LEMMA SameLinks ==
    ASSUME NEW d, NEW e, e.link = d.link
    PROVE  KeepsLinks(d, e)
  BY DEF KeepsLinks

(* Handlers that write no link.                                            *)
LEMMA StartsKeepLinks ==
    ASSUME Facts,
           \/ \E b \in load.browsers : GoogleLoginStart(b) \/ GithubLoginStart(b)
           \/ \E u \in People : PasswordSignup(u) \/ VerifyEmail(u) \/ SetupPasskey(u)
           \/ SocialExpire
    PROVE  KeepsLinks(soc, soc')
  <1>1. soc \in SocTables
    BY SocHolds
  <1>2. ASSUME NEW b \in load.browsers, GoogleLoginStart(b) \/ GithubLoginStart(b) PROVE soc'.link = soc.link
    BY <1>1, <1>2 DEF GoogleLoginStart, GithubLoginStart, CreateLoginOauthState, SocTables
  <1>3. ASSUME NEW u \in People, PasswordSignup(u) \/ VerifyEmail(u) \/ SetupPasskey(u) PROVE soc'.link = soc.link
    BY <1>1, <1>3 DEF PasswordSignup, VerifyEmail, SetupPasskey, SetUserEmailVerified, SocTables
  <1>4. ASSUME SocialExpire PROVE soc'.link = soc.link
    BY <1>1, <1>4 DEF SocialExpire, TakeLoginOauthState, SocTables
  <1> QED
    BY <1>2, <1>3, <1>4, SameLinks

LEMMA RequestsKeepLinks ==
    ASSUME Facts, NEW c \in Callers,
           \/ \E b \in load.browsers : \E st \in soc.states : \E i \in load.idents : \E e \in People :
                 GoogleLoginCallback(c, b, st, i, e) \/ GithubLoginCallback(c, b, st, i, e)
           \/ \E ct \in soc.conts : SocialLoginComplete(c, ct)
           \/ \E u \in soc.challenges : LoginPasskey(c, u)
           \/ \E u \in People : PasswordLogin(c, u)
    PROVE  KeepsLinks(soc, soc')
  <1>1. soc \in SocTables
    BY SocHolds
  <1>2. ASSUME NEW b \in load.browsers, NEW st \in soc.states, NEW i \in load.idents, NEW e \in People,
               GoogleLoginCallback(c, b, st, i, e) \/ GithubLoginCallback(c, b, st, i, e)
        PROVE  soc'.link = soc.link
    BY <1>1, <1>2 DEF GoogleLoginCallback, GithubLoginCallback, LoginCallback, ClearCookie, TakeLoginOauthState, SocTables
  <1>3. ASSUME NEW ct \in soc.conts, SocialLoginComplete(c, ct) PROVE soc'.link = soc.link
    BY <1>1, <1>3 DEF SocialLoginComplete, TakeLoginContinuation, SocTables
  <1>4. ASSUME NEW u \in soc.challenges, LoginPasskey(c, u) PROVE soc'.link = soc.link
    BY <1>1, <1>4 DEF LoginPasskey, SocTables
  <1>5. ASSUME NEW u \in People, PasswordLogin(c, u) PROVE soc'.link = soc.link
    BY <1>5 DEF PasswordLogin
  <1> QED
    BY <1>2, <1>3, <1>4, <1>5, SameLinks

LEMMA HandlersKeepLinks ==
    ASSUME Facts, NEW c \in Callers,
           \/ ResolveSocialLogin(c) \/ IssueContinuation(c)
           \/ CompleteSocialSignup(c) \/ InsertSocialUser(c) \/ VerifySocialUser(c)
           \/ FinishFirstFactorLogin(c) \/ PersistPendingIdentityLinks(c)
    PROVE  KeepsLinks(soc, soc')
  <1>1. soc \in SocTables
    BY SocHolds
  <1>2. ASSUME ResolveSocialLogin(c) PROVE soc'.link = soc.link
    BY <1>1, <1>2 DEF ResolveSocialLogin, CreatePendingIdentityLink, SocTables
  <1>3. ASSUME IssueContinuation(c) PROVE soc'.link = soc.link
    BY <1>1, <1>3 DEF IssueContinuation, CreateLoginContinuation, SocTables
  <1>4. ASSUME CompleteSocialSignup(c) \/ InsertSocialUser(c) \/ VerifySocialUser(c) PROVE soc'.link = soc.link
    BY <1>1, <1>4 DEF CompleteSocialSignup, InsertSocialUser, VerifySocialUser, SetUserEmailVerified, SocTables
  <1>5. ASSUME FinishFirstFactorLogin(c) PROVE soc'.link = soc.link
    BY <1>1, <1>5 DEF FinishFirstFactorLogin, SocTables
  <1>6. ASSUME PersistPendingIdentityLinks(c) PROVE soc'.link = soc.link
    BY <1>1, <1>6 DEF PersistPendingIdentityLinks, TakePendingIdentityLinks, SocTables
  <1> QED
    BY <1>2, <1>3, <1>4, <1>5, <1>6, SameLinks

LEMMA LinkersKeepLinks ==
    ASSUME Facts, NEW c \in Callers, LinkSocialUser(c) \/ PersistEach(c)
    PROVE  KeepsLinks(soc, soc')
  <1>1. soc \in SocTables
    BY SocHolds
  <1>2. CASE LinkSocialUser(c)
    <2>1. call[c].op \in SigningUp
      BY <1>2 DEF LinkSocialUser, SigningUp
    <2>2. call[c].cont.ident \in Idents
      BY <2>1, SignupHolds
    <2> QED
      BY <2>2, <1>1, <1>2, LinkUserIdentityKeepsLinks DEF LinkSocialUser
  <1>3. CASE PersistEach(c)
    <2>1. call[c].links \subseteq StagedRow
      BY <1>3, SocHolds DEF PersistEach, SocFrame
    <2>2. \A l \in call[c].links : l.ident \in Idents
      BY <2>1 DEF StagedRow
    <2>3. CASE UNCHANGED soc
      BY <2>3, SameLinks
    <2> QED
      BY <2>2, <2>3, <1>1, <1>3, LinkUserIdentityKeepsLinks DEF PersistEach
  <1> QED
    BY <1>2, <1>3

LEMMA NextKeepsLinks ==
    ASSUME Facts, [Next]_vars
    PROVE  KeepsLinks(soc, soc')
  <1>1. CASE SocialNext
    BY <1>1, StartsKeepLinks, RequestsKeepLinks, HandlersKeepLinks, LinkersKeepLinks DEF SocialNext
  <1>2. CASE DeviceNext
    <2>1. UNCHANGED soc
      BY <1>2 DEF DeviceNext, DeviceAuthorize, NewRateWindow, DeviceExpire, DeviceConfirm, DeviceToken,
                  FinishDeviceConfirm, FinishDeviceToken, Dev
    <2> QED
      BY <2>1, SameLinks
  <1>3. CASE McpNext
    <2>1. UNCHANGED soc
      <3>1. CASE (\E p \in Parties : RegisterClient(p) \/ \E q \in Parties : AuthorizePage(p, q)) \/ McpExpire
        BY <3>1 DEF RegisterClient, AuthorizePage, McpExpire, Mcp
      <3>2. CASE \/ \E a \in mcp.assertions : AuthorizeCallback(a)
                 \/ \E u \in People :
                      BeginAuthorization(u) \/ \E t \in Teams : McpDisconnect(u, t) \/ EditMcpAgent(u, t)
        BY <3>2 DEF BeginAuthorization, McpDisconnect, EditMcpAgent, AuthorizeCallback, Mcp
      <3>3. ASSUME NEW c \in Callers, NEW t, NEW ch, NEW r,
                   AuthorizeAtLogin(c, t, ch, r) \/ \E u \in People : FinishAuthorization(c, u, t, ch, r)
            PROVE  UNCHANGED soc
        BY <3>3 DEF AuthorizeAtLogin, FinishAuthorization, Mcp
      <3>4. ASSUME NEW c \in Callers,
                   \/ \E p \in Parties : \E k \in mcp.codes : ExchangeAuthorizationCode(c, p, k)
                   \/ \E tk \in mcp.tokens :
                        ResolveMcpAgent(c, tk) \/ \E q \in mcp.clients : ExchangeRefreshToken(c, q, tk)
            PROVE  UNCHANGED soc
        BY <3>4 DEF ExchangeAuthorizationCode, ResolveMcpAgent, ExchangeRefreshToken, Mcp
      <3>5. ASSUME NEW c \in Callers,
                   \/ ProvisionAgent(c) \/ IssueAuthorizationAssertion(c)
                   \/ IssueToken(c) \/ IssueConsume(c) \/ IssueRecord(c)
                   \/ RefreshToken(c) \/ FinishRefresh(c) \/ ActAsAgent(c)
            PROVE  UNCHANGED soc
        <4>1. CASE ProvisionAgent(c) \/ IssueAuthorizationAssertion(c) \/ ActAsAgent(c)
          BY <4>1 DEF ProvisionAgent, IssueAuthorizationAssertion, ActAsAgent, Mcp
        <4>2. CASE IssueToken(c) \/ IssueConsume(c) \/ IssueRecord(c)
          BY <4>2 DEF IssueToken, IssueConsume, IssueRecord, Mcp
        <4>3. CASE RefreshToken(c) \/ FinishRefresh(c)
          BY <4>3 DEF RefreshToken, FinishRefresh, Mcp
        <4> QED
          BY <3>5, <4>1, <4>2, <4>3
      <3> QED
        BY <1>3, <3>1, <3>2, <3>3, <3>4, <3>5, Zenon DEF McpNext
    <2> QED
      BY <2>1, SameLinks
  <1>4. CASE \E c \in Callers : Crash(c)
    BY <1>4, SameLinks DEF Crash
  <1>5. CASE UNCHANGED vars
    BY <1>5, SameLinks DEF vars
  <1> QED
    BY <1>1, <1>2, <1>3, <1>4, <1>5 DEF Next

(* An identity that is linked to somebody stays linked to that person, for *)
(* any number of flows and completed logins under way.                     *)
THEOREM LinksStay == Spec => IdentityIsNotRepointed
  <1>1. Facts /\ [Next]_vars =>
            [\A i \in Idents : soc.link[i].user # NoOne => soc'.link[i].user = soc.link[i].user]_vars
    BY NextKeepsLinks DEF KeepsLinks
  <1> QED
    BY <1>1, FactsHold, PTL DEF Spec, IdentityIsNotRepointed
===============================================================================
