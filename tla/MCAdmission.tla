----------------------------- MODULE MCAdmission ------------------------------
EXTENDS Admission, TLC

CONSTANTS h1, h2, sub, lan

MCUnder == {<<sub, h1>>}

Value(id) == [id |-> id, fields |-> {}, parses |-> {}, issuer |-> NoOne, curve |-> "none"]

Bundle(id, fields, parses, issuer) ==
    [id |-> id, fields |-> fields, parses |-> parses, issuer |-> issuer, curve |-> "none"]

SigningKey(id, curve) ==
    [id |-> id, fields |-> {"key"}, parses |-> {"signing"}, issuer |-> NoOne, curve |-> curve]

Direct(owner, value) ==
    [owner |-> owner, connector |-> "direct", relative |-> FALSE, hosts |-> {}, base |-> "none",
     bindings |-> {}, format |-> "none", body |-> FALSE, types |-> {}, value |-> value]

Sidecar(owner, base, value) == [Direct(owner, value) EXCEPT !.connector = "sidecar", !.base = base]

Key1 == [team |-> "t1", app |-> FALSE, all |-> FALSE, list |-> {<<"c">>}, limit |-> 0, enabled |-> TRUE]

C == <<"t1", <<"c">>>>

Owner == [email |-> "o@t", role |-> "owner", assigned |-> {}, telegram |-> "o", matrix |-> "@o"]
Helper == [email |-> "h@t", role |-> "approver", assigned |-> {<<"c">>}, telegram |-> "h", matrix |-> NoOne]
Other == [email |-> "x@t", role |-> "approver", assigned |-> {}, telegram |-> "x", matrix |-> "@x"]

Request ==
    [kind |-> "forward", keys |-> <<"k1">>, flaw |-> "none", cred |-> <<"c">>, endUser |-> NoOne,
     target |-> [host |-> h1, path |-> <<"a">>], method |-> "GET", mode |-> "auto",
     refs |-> << >>, ctype |-> "json", oauth |-> NoOne, oauthTarget |-> NoUrl,
     payload |-> NoValue, pre |-> NoValue]

To(host) == [Request EXCEPT !.target.host = host]

Ref(cred, field, at, key) == [cred |-> cred, field |-> field, at |-> at, key |-> key]

Legacy(keys, refs) == [Request EXCEPT !.kind = "legacy", !.keys = keys, !.refs = refs]

Sign(payload, pre) == [Request EXCEPT !.kind = "sign", !.payload = payload, !.pre = pre]

Asserts(req, name, endUser) == [req EXCEPT !.keys = <<"app">>, !.cred = name, !.endUser = endUser]

(* A GET of one key for one credential without a policy.                   *)
Base ==
    [agents |-> "k1" :> Key1, creds |-> C :> Direct(NoOne, Value("v")),
     policies |-> C :> NoPolicy, edits |-> {}, uses |-> 0, grant |-> NoValue,
     channels |-> "t1" :> << >> @@ "t2" :> << >>, wired |-> {"telegram", "matrix"},
     members |-> "t1" :> {Owner} @@ "t2" :> {}, modes |-> "t1" :> "gated" @@ "t2" :> "autonomous",
     requests |-> {Request}, faults |-> {}, relay |-> FALSE, until |-> 0, calls |-> 1]

Bound == [Direct(NoOne, Value("v")) EXCEPT !.hosts = {[wild |-> TRUE, host |-> h1]}]
BoundElsewhere == [Direct(NoOne, Value("w")) EXCEPT !.hosts = {[wild |-> FALSE, host |-> h2]}]

Fields == Bundle("m", {"key", "app"}, {}, NoOne)

Creds(rows) == [k \in DOMAIN rows |-> rows[k]]

Policy(changes) == [f \in DOMAIN EmptyRow |-> IF f \in DOMAIN changes THEN changes[f] ELSE EmptyRow[f]]

Url(host, path) == [host |-> host, path |-> path]

Text(t) == [kind |-> "message", hash |-> "none", text |-> t]

Row(type, place) == [type |-> type, enabled |-> TRUE, place |-> place]

One(k, row) == k :> row

(* A limit, at the end of a window. *)
Limited ==
    [Base EXCEPT !.agents = "k1" :> [Key1 EXCEPT !.limit = 2] @@ "off" :> [Key1 EXCEPT !.enabled = FALSE],
        !.requests = {[Request EXCEPT !.flaw = "target"], [Request EXCEPT !.keys = <<"off">>],
                        [Request EXCEPT !.flaw = "header"]},
        !.faults = {"count"}, !.until = 2, !.calls = 3]

(* A secret bound to a host and its subdomains; its namesake, to another. *)
HostBound ==
    [Base EXCEPT !.creds = C :> Bound,
        !.requests = {To(h1), To(sub), To(h2), To(lan), To(NoHost)},
        !.edits = {[key |-> C, cred |-> BoundElsewhere, policy |-> NoPolicy]}]

(* A value of several fields, bound in more ways than one. *)
FieldsAndGaps ==
    [Base EXCEPT !.creds = C :> [Direct(NoOne, Fields) EXCEPT !.format = "fields"],
        !.edits = {[key |-> C, policy |-> NoPolicy, cred |-> [Direct(NoOne, Fields) EXCEPT
                        !.bindings = {[header |-> "x-api-key", field |-> "key"]}]],
                     [key |-> C, policy |-> NoPolicy, cred |-> Direct(NoOne, Fields)],
                     [key |-> C, policy |-> NoPolicy, cred |-> [Direct(NoOne, Fields) EXCEPT
                        !.bindings = {[header |-> "x-api-key", field |-> "gone"]}]],
                     [key |-> C, policy |-> NoPolicy, cred |-> NoValue]}]

(* Placeholders, with the keys of two teams that use one name. *)
TwoKeys ==
    [Base EXCEPT !.agents = "k1" :> Key1 @@ "k2" :> [Key1 EXCEPT !.team = "t2"],
        !.creds = C :> [Bound EXCEPT !.body = TRUE, !.types = {"json"}]
                      @@ <<"t2", <<"c">>>> :> BoundElsewhere,
        !.policies = C :> NoPolicy @@ <<"t2", <<"c">>>> :> NoPolicy,
        !.requests =
              {Legacy(keys, <<Ref(<<"c">>, NoField, "header", "authorization")>>) :
                   keys \in {<<"k1">>, <<"k1", "k2">>}}
              \cup {[Legacy(<<"k1">>, <<Ref(<<"c">>, NoField, "body", key)>>) EXCEPT !.ctype = type] :
                        key \in {"token", "text"}, type \in {"json", "broken_json", "plain"}}
              \cup {[Legacy(<<"k1">>, << >>) EXCEPT !.oauth = cred, !.target.host = host] :
                        cred \in {NoOne, <<"c">>}, host \in {h1, h2, lan}}
              \cup {Legacy(<<"k1">>, <<Ref(<<"c">>, NoField, "header", "x-other")>>)},
        !.edits = {[key |-> C, policy |-> NoPolicy, cred |-> Direct(NoOne, Fields)]}]

(* End-users of an app, and an account key. *)
EndUsersOfAnApp ==
    [Base EXCEPT !.agents = "app" :> [Key1 EXCEPT !.app = TRUE, !.list = {}]
                          @@ "all" :> [Key1 EXCEPT !.all = TRUE, !.list = {}],
        !.creds = C :> Direct(NoOne, Value("v"))
                      @@ <<"t1", <<"e1", "c">>>> :> Direct("e1", Value("v1"))
                      @@ <<"t1", <<"e2", "c">>>> :> Direct("e2", Value("v2"))
                      @@ <<"t1", <<"s">>>> :> Direct(NoOne, SigningKey("s", "ed25519"))
                      @@ <<"t1", <<"e1", "s">>>> :> Direct("e1", SigningKey("s1", "ed25519")),
        !.requests =
              {Asserts(Request, <<"c">>, e) : e \in {NoOne, "e1", "e2", "e3"}}
              \cup {Asserts(Sign(Text("m"), NoValue), <<"s">>, e) : e \in {NoOne, "e1"}}
              \cup {[Request EXCEPT !.keys = <<"all">>, !.cred = n] :
                        n \in {<<"c">>, <<"e1", "c">>, <<"e1", "s">>}}
              \cup {[Sign(Text("m"), NoValue) EXCEPT !.keys = <<"all">>, !.cred = n] :
                        n \in {<<"s">>, <<"e1", "s">>}}
              \cup {[Legacy(<<"all">>, <<Ref(n, NoField, "header", "authorization")>>)
                        EXCEPT !.oauth = n] : n \in {<<"c">>, <<"e1", "c">>}}]

(* Rules on URLs, a grant of one use, and a passkey asked for meanwhile. *)
Gated ==
    [Base EXCEPT !.policies = C :> Policy([autoMethods |-> {"get"},
                                            requireUrls |-> {Url(h1, <<"a">>)},
                                            autoUrls |-> {Url(AnyHost, <<"a">>)}]),
        !.requests = {[Request EXCEPT !.method = m, !.target = t] :
                            m \in {"GET", "POST"}, t \in {Url(h1, <<"a">>), Url(h1, <<"b">>)}},
        !.grant = [key |-> C, methods |-> {"GET", "POST"}, scope |-> {Url(h1, <<"*">>)}],
        !.uses = 1, !.calls = 2, !.faults = {"policy", "mode"},
        !.edits = {[key |-> C, cred |-> Direct(NoOne, Value("v")),
                      policy |-> Policy([passkey |-> TRUE])]}]

(* What a sidecar credential may hold; it is replaced once, too.           *)
Holding(cred) ==
    [Base EXCEPT !.creds = C :> cred,
        !.edits = {[key |-> C, policy |-> NoPolicy,
                    cred |-> Sidecar(NoOne, "none", Bundle("d", {"token"}, {"google"}, "google"))]},
        !.requests = {[Request EXCEPT !.mode = m] : m \in {"auto", "bearer", "oauth1"}}
                     \cup {[To(NoHost) EXCEPT !.target.path = <<"..">>]}]

Bundles ==
    {Sidecar(NoOne, "none", v) : v \in
        {Bundle("g", {"token"}, {"google", "microsoft"}, "contoso"),
         Bundle("x", {"bearer_token", "keys"}, {"bearer", "oauth1"}, NoOne),
         Bundle("o", {"secret"}, {"client_credentials"}, "idp"),
         Bundle("a", {"secret"}, {"aws"}, NoOne)}}
    \cup {[Sidecar(NoOne, "bridge", Fields) EXCEPT !.relative = TRUE]}

(* Heartbeats of two keys for one credential.                              *)
Heartbeats ==
    [Base EXCEPT !.agents = "k1" :> Key1 @@ "k2" :> Key1,
        !.creds = C :> Sidecar(NoOne, "telegram", Value("v")),
        !.requests = {[Request EXCEPT !.kind = "relay", !.keys = <<k>>] : k \in {"k1", "k2"}},
        !.faults = {"authfile"}, !.relay = TRUE, !.until = 3, !.calls = 3]

(* The relays of an end-user and of the team, and what goes through them.  *)
Relayed ==
    [Base EXCEPT !.agents = "k1" :> Key1 @@ "app" :> [Key1 EXCEPT !.app = TRUE, !.list = {}],
        !.creds = C :> Sidecar(NoOne, "telegram", Value("v"))
                    @@ <<"t1", <<"e1", "c">>>> :> Sidecar("e1", "telegram", Value("v1")),
        !.requests = {[Request EXCEPT !.kind = "relay"],
                      Asserts([Request EXCEPT !.kind = "relay"], <<"c">>, "e1"),
                      Asserts(Request, <<"c">>, "e1"), Request},
        !.modes = "t1" :> "autonomous" @@ "t2" :> "gated",
        !.relay = TRUE, !.until = 2, !.calls = 2]

InHeader == Legacy(<<"k1">>, <<Ref(<<"c">>, NoField, "header", "authorization")>>)

(* Policies that choose among the channels of a team.                      *)
Asking(policy) ==
    [Base EXCEPT !.policies = C :> policy,
        !.channels = "t1" :> <<Row("matrix", FALSE), Row("telegram", TRUE), Row("matrix", TRUE)>>
                  @@ "t2" :> << >>,
        !.members = "t1" :> {Owner, Helper, Other} @@ "t2" :> {},
        !.requests = {[Request EXCEPT !.method = "POST"],
                      [InHeader EXCEPT !.method = "POST"],
                      [InHeader EXCEPT !.method = "POST", !.oauthTarget = Url(h2, <<"b">>)]},
        !.faults = {"rows", "members", "people", "send"}]

Choices ==
    {[channel |-> "dashboard"], [channel |-> "matrix"], [channel |-> "app"],
     [channel |-> "telegram", approvers |-> {"x@t"}], [approvers |-> {"h@t", "x@t"}],
     [place |-> "room", matrixApprovers |-> {"x@t"}], [place |-> "chat"]}

(* A deployment without Telegram. *)
FewChannels ==
    [Base EXCEPT !.wired = {"matrix"},
        !.agents = "k1" :> Key1 @@ "app" :> [Key1 EXCEPT !.app = TRUE, !.list = {}],
        !.creds = C :> Direct(NoOne, Value("v"))
                      @@ <<"t1", <<"e1", "c">>>> :> Direct("e1", Value("v1")),
        !.policies = C :> Policy([channel |-> "telegram"])
                      @@ <<"t1", <<"e1", "c">>>> :> Policy([channel |-> "matrix"]),
        !.channels = "t1" :> <<Row("telegram", TRUE), Row("matrix", TRUE)>> @@ "t2" :> << >>,
        !.requests = {Request, Asserts(Request, <<"c">>, "e1")}]

(* What may be signed. *)
Signatures ==
    [Base EXCEPT !.creds = C :> Direct(NoOne, SigningKey("s", "secp256k1")),
        !.edits = {[key |-> C, policy |-> NoPolicy, cred |-> Direct(NoOne, SigningKey("z", "ed25519"))],
                     [key |-> C, policy |-> NoPolicy, cred |-> NoValue]},
        !.requests = {Sign(payload, pre) :
                            payload \in {Digest("sha256", "m"), Digest("sha256", "n"), Text("m")},
                            pre \in {NoValue, [hash |-> "sha256", text |-> "m"],
                                     [hash |-> "md5", text |-> "m"]}}
                       \cup {[Sign(Text("m"), NoValue) EXCEPT !.flaw = "body"], Request}]

(* Two credentials in one request, one of them under a rule. *)
TwoGates ==
    [Base EXCEPT !.agents = "k1" :> [Key1 EXCEPT !.list = {<<"c">>, <<"d">>}],
        !.creds = C :> Direct(NoOne, Value("v")) @@ <<"t1", <<"d">>>> :> Direct(NoOne, Value("w")),
        !.policies = C :> NoPolicy
                  @@ <<"t1", <<"d">>>> :> Policy([autoMethods |-> {"get"}, requireUrls |-> {Url(h1, <<"a">>)}]),
        !.requests = {Legacy(<<"k1">>, <<Ref(x, NoField, "header", "authorization"),
                                         Ref(y, NoField, "header", "x-api-key")>>) :
                          x, y \in {<<"c">>, <<"d">>}}]

(* What is stored and asked for together.                                  *)
MCLoads ==
    {Limited, HostBound, FieldsAndGaps, TwoKeys, TwoGates, EndUsersOfAnApp, Gated, Heartbeats, Relayed,
     FewChannels, Signatures, Asking(NoPolicy)}
        \cup {Holding(cred) : cred \in Bundles}
        \cup {Asking(Policy(choice)) : choice \in Choices}

Symmetry == Permutations(Calls)
===============================================================================
