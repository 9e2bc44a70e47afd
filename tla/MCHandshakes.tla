----------------------------- MODULE MCHandshakes -----------------------------
EXTENDS Handshakes, TLC

CONSTANTS u1, u2, g1, g2, h1, a1, a2, t1, b1

MCProvider == (g1 :> "google") @@ (g2 :> "google") @@ (h1 :> "github")
MCEmails == (g1 :> {u1, u2}) @@ (g2 :> {u1}) @@ (h1 :> {u1})

New == [u \in People |-> NoAccount]
Members == [u \in People |-> [origin |-> "password", verified |-> "code", keys |-> TRUE]]

(* MCP tables: a client; requests for her, by her and another; a code that *)
(* u1 authorized; a family.                                                *)
Registered == [NoConnections EXCEPT !.clients = {a1}]
Request == [id |-> 1, client |-> a1, by |-> a1]
Asking == [Registered EXCEPT !.requests = {Request, [Request EXCEPT !.by = a2]}, !.next = 2]
Assertion == [id |-> 2, request |-> Request, subject |-> u1, team |-> t1, age |-> "fresh"]
Authorized ==
    [Registered EXCEPT !.requests = {Request}, !.assertions = {Assertion}, !.agent[u1][t1] = "all",
                       !.codes = {[id |-> 3, assertion |-> Assertion, request |-> Request, lapsed |-> FALSE]},
                       !.proved = {[user |-> u1, request |-> Request]}, !.next = 4]
Connected ==
    [Authorized EXCEPT !.codes = {}, !.requests = {}, !.assertions = {}, !.next = 5,
                       !.families = {[id |-> 4, subject |-> u1, team |-> t1, client |-> a1, current |-> 4,
                                      status |-> "live", code |-> 3, late |-> FALSE, request |-> Request]},
                       !.tokens = {[family |-> 4, jti |-> 4, parent |-> 0, client |-> a1, party |-> a1]}]

L(part, ops, idents, browsers, webauthn, accounts, tables, windows, tokens) ==
    [part |-> part, ops |-> ops, idents |-> idents, browsers |-> browsers, webauthn |-> webauthn,
     accounts |-> accounts, mcp |-> tables, windows |-> windows, tokens |-> tokens]

MCLoads ==
    {L("social", {"expire"}, {g1}, {b1}, TRUE, Members, NoConnections, 0, 2),
     L("social", {}, {g2, h1}, {b1}, TRUE, Members, NoConnections, 0, 2),
     L("social", {"password"}, {g2}, {b1}, TRUE, Members, NoConnections, 0, 2),
     L("social", {"password"}, {g1}, {b1}, FALSE, Members, NoConnections, 0, 2),
     L("social", {"signup"}, {g1}, {b1}, TRUE, New, NoConnections, 0, 2),
     L("social", {"expire"}, {h1}, Browsers, TRUE, New, NoConnections, 0, 2),
     L("device", {}, {}, {}, TRUE, New, NoConnections, 2, 1),
     L("mcp", {"ask", "authorize"}, {}, {}, TRUE, New, NoConnections, 0, 2),
     L("mcp", {"authorize", "exchange"}, {}, {}, TRUE, New, Asking, 0, 5),
     L("mcp", {"exchange", "expire"}, {}, {}, TRUE, New, Authorized, 0, 6),
     L("mcp", {"authorize", "exchange", "disconnect", "act"}, {}, {}, TRUE, New, Authorized, 0, 5),
     L("mcp", {"refresh", "act", "disconnect", "agents", "expire"}, {}, {}, TRUE, New, Connected, 0, 7)}

Symmetry == Permutations(Callers)
===============================================================================
