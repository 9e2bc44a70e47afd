---------------------------- MODULE AdmissionProofs ----------------------------
(***************************************************************************)
(* Proofs about Admission, for any requests, agents, credentials and       *)
(* members.  A step is Moves: which stages one request leaves and reaches, *)
(* and what it writes.  Each property has facts about one request that     *)
(* depend on few of its fields, so that most of the actions keep them by   *)
(* what they do not write.                                                 *)
(***************************************************************************)
EXTENDS Admission, FiniteSetTheorems, WellFoundedInduction, TLAPS

-----------------------------------------------------------------------------
(* Lists with gaps                                                         *)

\* Positions have a first.
LEMMA LeastOne ==
    ASSUME NEW S, S \subseteq Nat, S # {}
    PROVE  \E i \in S : \A j \in S : i <= j
  <1>1. PICK i \in S : \A j \in S : ~(<<j, i>> \in OpToRel(<, Nat))
    BY NatLessThanWellFounded, WFMin, Zenon
  <1>2. \A j \in S : ~(j < i)
    BY <1>1 DEF OpToRel
  <1> QED BY <1>2

\* Bounded positions have a last.
LEMMA GreatestOne ==
    ASSUME NEW n \in Nat, NEW S, S \subseteq 1 .. n, S # {}
    PROVE  \E i \in S : \A j \in S : j <= i
  <1> DEFINE T == {n - i : i \in S}
  <1>1. T \subseteq Nat /\ T # {}
    <2>1. \A i \in S : n - i \in Nat
      OBVIOUS
    <2> QED BY <2>1
  <1>2. PICK t \in T : \A u \in T : t <= u
    <2> HIDE DEF T
    <2> QED BY <1>1, LeastOne
  <1>3. PICK i \in S : t = n - i
    OBVIOUS
  <1>4. \A j \in S : n - i <= n - j
    BY <1>2, <1>3
  <1> QED BY <1>4

\* The first of a list with gaps is one of it.
LEMMA FirstIsOfIt ==
    ASSUME NEW list, DOMAIN list \subseteq Nat, DOMAIN list # {}
    PROVE  \E i \in DOMAIN list : First(list) = list[i]
  <1>1. \E i \in DOMAIN list : \A j \in DOMAIN list : i <= j
    BY LeastOne
  <1> QED BY <1>1 DEF First

-----------------------------------------------------------------------------
(* The shape of a request and what a step writes                           *)

CallFields ==
    {"at", "req", "agents", "by", "name", "configs", "held", "cred", "value", "window",
     "counted", "late", "leased", "route", "policy", "failed", "reason", "grant", "guard",
     "asked", "verdict", "token", "sent", "response", "answer", "audit", "signed", "live", "asOf"}

(* The stages of the four handlers.                                        *)
StagesOf ==
    [forward |-> {"auth", "count", "serve", "config", "value", "relay", "policy", "mode", "grant",
                  "ask", "wait", "exchange", "send", "retry", "answer", "done"},
     legacy  |-> {"auth", "count", "parse", "serve", "value", "policy", "mode", "grant",
                  "ask", "wait", "exchange", "send", "answer", "done"},
     sign    |-> {"auth", "serve", "config", "value", "policy", "ask", "wait", "sign", "done"},
     relay   |-> {"auth", "relay_config", "claim", "list", "project", "done"}]

Shape(w) ==
    /\ DOMAIN w = CallFields
    /\ w.at = "idle" => w = Fresh
    /\ w.at # "idle" => w.req \in load.requests /\ w.at \in StagesOf[w.req.kind]

CallShapes ==
    /\ load \in Loads
    /\ DOMAIN calls = Calls
    /\ \A c \in Calls : Shape(calls[c])

(* A request of one of the kinds goes from one stage to another, and only  *)
(* these fields change.                                                    *)
Moves(c, kinds, from, to, writes) ==
    /\ load' = load /\ DOMAIN calls' = Calls
    /\ \A d \in Calls \ {c} : calls'[d] = calls[d]
    /\ calls[c].at \in from /\ calls[c].req.kind \in kinds
    /\ DOMAIN calls'[c] = CallFields
    /\ calls'[c].at \in to
    /\ \A f \in CallFields \ ({"at"} \cup writes) : calls'[c][f] = calls[c][f]

(* The three outcomes of the counter.                                      *)
Counted(c) ==
    \/ Moves(c, {"forward", "legacy"}, {"count"}, {"done"}, {"counted", "late"})
    \/ Moves(c, {"forward"}, {"count"}, {"serve"}, {"counted", "late"})
    \/ Moves(c, {"legacy"}, {"count"}, {"parse"}, {"counted", "late"})

\* A request that is taken on is a request as it comes.
LEMMA FreshShape == DOMAIN Fresh = CallFields /\ Fresh.at = "idle"
  BY DEF Fresh, CallFields

\* What a step takes is what is there afterwards.
LEMMA Taken ==
    ASSUME CallShapes, NEW c \in Calls, NEW w, Takes(c, w)
    PROVE  /\ calls'[c] = w /\ DOMAIN calls' = Calls
           /\ \A d \in Calls \ {c} : calls'[d] = calls[d]
  BY DEF CallShapes, Takes

\* The kind of a request that has begun, by its stage.
LEMMA KindByStage ==
    ASSUME CallShapes, NEW c \in Calls
    PROVE  /\ DOMAIN calls[c] = CallFields
           /\ calls[c].at # "idle" => calls[c].req.kind \in Kinds
           /\ calls[c].at \in {"mode", "grant", "exchange", "send", "answer", "count"} =>
                  calls[c].req.kind \in {"forward", "legacy"}
           /\ calls[c].at = "parse" => calls[c].req.kind = "legacy"
           /\ calls[c].at \in {"relay", "retry"} => calls[c].req.kind = "forward"
           /\ calls[c].at = "sign" => calls[c].req.kind = "sign"
           /\ calls[c].at \in {"relay_config", "claim", "list", "project"} =>
                  calls[c].req.kind = "relay"
           /\ calls[c].at \in {"policy", "ask", "wait", "serve", "value"} =>
                  calls[c].req.kind \in {"forward", "legacy", "sign"}
  <1>1. Shape(calls[c]) /\ load \in Loads
    BY DEF CallShapes
  <1>2. CASE calls[c].at = "idle"
    BY <1>1, <1>2 DEF Shape
  <1>3. CASE calls[c].at # "idle"
    <2>1. /\ calls[c].req.kind \in {"forward", "legacy", "sign", "relay"}
          /\ calls[c].at \in StagesOf[calls[c].req.kind]
      BY <1>1, <1>3, LoadAssumption DEF Shape, Kinds
    <2>2. CASE calls[c].req.kind = "forward"
      BY <1>1, <2>1, <2>2 DEF Shape, StagesOf, Kinds
    <2>3. CASE calls[c].req.kind = "legacy"
      BY <1>1, <2>1, <2>3 DEF Shape, StagesOf, Kinds
    <2>4. CASE calls[c].req.kind = "sign"
      BY <1>1, <2>1, <2>4 DEF Shape, StagesOf, Kinds
    <2>5. CASE calls[c].req.kind = "relay"
      BY <1>1, <2>1, <2>5 DEF Shape, StagesOf, Kinds
    <2> QED BY <2>1, <2>2, <2>3, <2>4, <2>5
  <1> QED BY <1>2, <1>3

\* The fields by name.
LEMMA FieldNames ==
    /\ {"at", "req", "agents", "by", "name", "configs", "held", "cred", "value", "window"}
           \subseteq CallFields
    /\ {"counted", "late", "leased", "route", "policy", "failed", "reason", "grant", "guard"}
           \subseteq CallFields
    /\ {"asked", "verdict", "token", "sent", "response", "answer", "audit", "signed", "live",
        "asOf"} \subseteq CallFields
  BY DEF CallFields

\* A request that takes what differs from it in these fields moves.
LEMMA TakesMoves ==
    ASSUME CallShapes, NEW c \in Calls, NEW w, Takes(c, w), load' = load,
           NEW kinds, NEW from, NEW to, NEW writes,
           calls[c].at \in from, calls[c].req.kind \in kinds, w.at \in to,
           DOMAIN w = CallFields,
           \A f \in CallFields \ ({"at"} \cup writes) : w[f] = calls[c][f]
    PROVE  Moves(c, kinds, from, to, writes)
  BY Taken DEF Moves

\* A refusal moves a request to its end.
LEMMA RefuseMoves ==
    ASSUME CallShapes, NEW c \in Calls, Refuse(c), load' = load,
           NEW kinds, NEW from, NEW to, NEW writes,
           calls[c].at \in from, calls[c].req.kind \in kinds, "done" \in to
    PROVE  Moves(c, kinds, from, to, writes)
  <1> DEFINE w == [calls[c] EXCEPT !.at = "done"]
  <1>1. Takes(c, w)
    BY DEF Refuse, Takes
  <1>2. /\ DOMAIN w = CallFields /\ w.at = "done"
        /\ \A f \in CallFields \ ({"at"} \cup writes) : w[f] = calls[c][f]
    BY FieldNames, KindByStage
  <1> HIDE DEF w
  <1> QED BY <1>1, <1>2, TakesMoves

\* The keys of a forward are resolved or it is refused.
LEMMA AuthenticateMoves ==
    ASSUME CallShapes, NEW c \in Calls, Authenticate(c)
    PROVE  Moves(c, {"forward", "legacy"}, {"auth"}, {"done", "count"}, {"agents", "window"})
  <1>1. PICK w : /\ Takes(c, w)
                 /\ \/ w = [calls[c] EXCEPT !.at = "done"]
                    \/ w = [calls[c] EXCEPT !.at = "count", !.agents = ValidKeys(c),
                                            !.window = clock \div WindowLength]
    BY DEF Authenticate, Refuse, Takes, AsAgents
  <1>2. /\ load' = load /\ Takes(c, w)
        /\ calls[c].at \in {"auth"} /\ calls[c].req.kind \in {"forward", "legacy"}
    BY <1>1, KindByStage DEF Authenticate, At, Kind, Shared
  <1>3. /\ DOMAIN w = CallFields /\ w.at \in {"done", "count"}
        /\ \A f \in CallFields \ ({"at"} \cup {"agents", "window"}) : w[f] = calls[c][f]
    BY <1>1, FieldNames, KindByStage
  <1> QED BY <1>2, <1>3, TakesMoves

\* The keys of a signature, which is not counted.
LEMMA AuthenticateSignerMoves ==
    ASSUME CallShapes, NEW c \in Calls, AuthenticateSigner(c)
    PROVE  Moves(c, {"sign"}, {"auth"}, {"done", "serve"}, {"agents", "window"})
  <1>1. PICK w : /\ Takes(c, w)
                 /\ \/ w = [calls[c] EXCEPT !.at = "done"]
                    \/ w = [calls[c] EXCEPT !.at = "serve", !.agents = ValidKeys(c),
                                            !.window = clock \div WindowLength]
    BY DEF AuthenticateSigner, Refuse, Takes, AsAgents
  <1>2. /\ load' = load /\ Takes(c, w)
        /\ calls[c].at \in {"auth"} /\ calls[c].req.kind \in {"sign"}
    BY <1>1, KindByStage DEF AuthenticateSigner, At, Kind, Shared
  <1>3. /\ DOMAIN w = CallFields /\ w.at \in {"done", "serve"}
        /\ \A f \in CallFields \ ({"at"} \cup {"agents", "window"}) : w[f] = calls[c][f]
    BY <1>1, FieldNames, KindByStage
  <1> QED BY <1>2, <1>3, TakesMoves

\* The keys of a heartbeat.
LEMMA AuthenticateAgentFromHeadersMoves ==
    ASSUME CallShapes, NEW c \in Calls, AuthenticateAgentFromHeaders(c)
    PROVE  Moves(c, {"relay"}, {"auth"}, {"done", "relay_config"}, {"agents", "window"})
  <1>1. PICK w : /\ Takes(c, w)
                 /\ \/ w = [calls[c] EXCEPT !.at = "done"]
                    \/ w = [calls[c] EXCEPT !.at = "relay_config", !.agents = ValidKeys(c),
                                            !.window = clock \div WindowLength]
    BY DEF AuthenticateAgentFromHeaders, Refuse, Takes, AsAgents
  <1>2. /\ load' = load /\ Takes(c, w)
        /\ calls[c].at \in {"auth"} /\ calls[c].req.kind \in {"relay"}
    BY <1>1, KindByStage DEF AuthenticateAgentFromHeaders, At, Kind, Shared
  <1>3. /\ DOMAIN w = CallFields /\ w.at \in {"done", "relay_config"}
        /\ \A f \in CallFields \ ({"at"} \cup {"agents", "window"}) : w[f] = calls[c][f]
    BY <1>1, FieldNames, KindByStage
  <1> QED BY <1>2, <1>3, TakesMoves

\* The agent that serves the credential is found, and its name settled.
LEMMA FindServingAgentMoves ==
    ASSUME CallShapes, NEW c \in Calls, FindServingAgent(c)
    PROVE  Moves(c, {"forward"}, {"serve"}, {"done", "config"}, {"by", "name"})
  <1>1. PICK w : /\ Takes(c, w)
                 /\ \/ w = [calls[c] EXCEPT !.at = "done"]
                    \/ w = [calls[c] EXCEPT !.at = "config",
                                            !.by = FirstServing(calls[c].agents, calls[c].req.cred,
                                                                calls[c].req.endUser),
                                            !.name = EffectiveName(calls[c].req)]
    BY DEF FindServingAgent, Refuse, Takes, ServeWith
  <1>2. /\ load' = load /\ Takes(c, w)
        /\ calls[c].at \in {"serve"} /\ calls[c].req.kind \in {"forward"}
    BY <1>1, KindByStage DEF FindServingAgent, At, Kind, Shared
  <1>3. /\ DOMAIN w = CallFields /\ w.at \in {"done", "config"}
        /\ \A f \in CallFields \ ({"at"} \cup {"by", "name"}) : w[f] = calls[c][f]
    BY <1>1, FieldNames, KindByStage
  <1> QED BY <1>2, <1>3, TakesMoves

\* The agent that signs is found, and the name settled.
LEMMA FindSigningAgentMoves ==
    ASSUME CallShapes, NEW c \in Calls, FindSigningAgent(c)
    PROVE  Moves(c, {"sign"}, {"serve"}, {"done", "config"}, {"by", "name"})
  <1>1. PICK w : /\ Takes(c, w)
                 /\ \/ w = [calls[c] EXCEPT !.at = "done"]
                    \/ w = [calls[c] EXCEPT !.at = "config",
                                            !.by = FirstServing(calls[c].agents, calls[c].req.cred,
                                                                calls[c].req.endUser),
                                            !.name = EffectiveName(calls[c].req)]
    BY DEF FindSigningAgent, Refuse, Takes, ServeWith
  <1>2. /\ load' = load /\ Takes(c, w)
        /\ calls[c].at \in {"serve"} /\ calls[c].req.kind \in {"sign"}
    BY <1>1, KindByStage DEF FindSigningAgent, At, Kind, Shared
  <1>3. /\ DOMAIN w = CallFields /\ w.at \in {"done", "config"}
        /\ \A f \in CallFields \ ({"at"} \cup {"by", "name"}) : w[f] = calls[c][f]
    BY <1>1, FieldNames, KindByStage
  <1> QED BY <1>2, <1>3, TakesMoves

\* The row of the credential is read.
LEMMA ReadConfigMoves ==
    ASSUME CallShapes, NEW c \in Calls, ReadConfig(c)
    PROVE  Moves(c, {"forward"}, {"config"}, {"done", "value"}, {"cred"})
  <1>1. PICK w : /\ Takes(c, w)
                 /\ \/ w = [calls[c] EXCEPT !.at = "done"]
                    \/ w = [calls[c] EXCEPT !.at = "value", !.cred = creds[Key(c)]]
    BY DEF ReadConfig, Refuse, Takes
  <1>2. /\ load' = load /\ Takes(c, w)
        /\ calls[c].at \in {"config"} /\ calls[c].req.kind \in {"forward"}
    BY <1>1, KindByStage DEF ReadConfig, At, Kind, Shared
  <1>3. /\ DOMAIN w = CallFields /\ w.at \in {"done", "value"}
        /\ \A f \in CallFields \ ({"at"} \cup {"cred"}) : w[f] = calls[c][f]
    BY <1>1, FieldNames, KindByStage
  <1> QED BY <1>2, <1>3, TakesMoves

\* The row of the signing key is read.
LEMMA ReadSigningConfigMoves ==
    ASSUME CallShapes, NEW c \in Calls, ReadSigningConfig(c)
    PROVE  Moves(c, {"sign"}, {"config"}, {"done", "value"}, {"cred"})
  <1>1. PICK w : /\ Takes(c, w)
                 /\ \/ w = [calls[c] EXCEPT !.at = "done"]
                    \/ w = [calls[c] EXCEPT !.at = "value", !.cred = creds[Key(c)]]
    BY DEF ReadSigningConfig, Refuse, Takes
  <1>2. /\ load' = load /\ Takes(c, w)
        /\ calls[c].at \in {"config"} /\ calls[c].req.kind \in {"sign"}
    BY <1>1, KindByStage DEF ReadSigningConfig, At, Kind, Shared
  <1>3. /\ DOMAIN w = CallFields /\ w.at \in {"done", "value"}
        /\ \A f \in CallFields \ ({"at"} \cup {"cred"}) : w[f] = calls[c][f]
    BY <1>1, FieldNames, KindByStage
  <1> QED BY <1>2, <1>3, TakesMoves

\* The value is read and the route built from it.
LEMMA ReadValueMoves ==
    ASSUME CallShapes, NEW c \in Calls, ReadValue(c)
    PROVE  Moves(c, {"forward"}, {"value"}, {"done", "relay", "policy"}, {"value", "route"})
  <1>1. PICK w : /\ Takes(c, w)
                 /\ \/ w = [calls[c] EXCEPT !.at = "done"]
                    \/ w = [calls[c] EXCEPT
                        !.at = IF UsesRelay(calls[c].cred) THEN "relay" ELSE "policy",
                        !.value = StoredValue(Key(c)),
                        !.route = ResolveUnifiedRoute(calls[c].cred, StoredValue(Key(c)),
                                                  calls[c].req.target, calls[c].req.method,
                                                  calls[c].req.mode)]
    BY DEF ReadValue, Refuse, Takes
  <1>2. /\ load' = load /\ Takes(c, w)
        /\ calls[c].at \in {"value"} /\ calls[c].req.kind \in {"forward"}
    BY <1>1, KindByStage DEF ReadValue, At, Kind, Shared
  <1>3. /\ DOMAIN w = CallFields /\ w.at \in {"done", "relay", "policy"}
        /\ \A f \in CallFields \ ({"at"} \cup {"value", "route"}) : w[f] = calls[c][f]
    BY <1>1, FieldNames, KindByStage
  <1> QED BY <1>2, <1>3, TakesMoves

\* The signing key is read.
LEMMA ReadSigningValueMoves ==
    ASSUME CallShapes, NEW c \in Calls, ReadSigningValue(c)
    PROVE  Moves(c, {"sign"}, {"value"}, {"done", "policy"}, {"value"})
  <1>1. PICK w : /\ Takes(c, w)
                 /\ \/ w = [calls[c] EXCEPT !.at = "done"]
                    \/ w = [calls[c] EXCEPT !.at = "policy", !.value = StoredValue(Key(c))]
    BY DEF ReadSigningValue, Refuse, Takes
  <1>2. /\ load' = load /\ Takes(c, w)
        /\ calls[c].at \in {"value"} /\ calls[c].req.kind \in {"sign"}
    BY <1>1, KindByStage DEF ReadSigningValue, At, Kind, Shared
  <1>3. /\ DOMAIN w = CallFields /\ w.at \in {"done", "policy"}
        /\ \A f \in CallFields \ ({"at"} \cup {"value"}) : w[f] = calls[c][f]
    BY <1>1, FieldNames, KindByStage
  <1> QED BY <1>2, <1>3, TakesMoves

\* The configurations that placeholders are checked against are read.
LEMMA ParseRequestMoves ==
    ASSUME CallShapes, NEW c \in Calls, ParseRequest(c)
    PROVE  Moves(c, {"legacy"}, {"parse"}, {"done", "serve"}, {"configs"})
  <1>1. PICK w : /\ Takes(c, w)
                 /\ \/ w = [calls[c] EXCEPT !.at = "done"]
                    \/ w = [calls[c] EXCEPT !.at = "serve", !.configs = ConfigsFor(calls[c].agents)]
    BY DEF ParseRequest, Refuse, Takes
  <1>2. /\ load' = load /\ Takes(c, w)
        /\ calls[c].at \in {"parse"} /\ calls[c].req.kind \in {"legacy"}
    BY <1>1, KindByStage DEF ParseRequest, At, Kind, Shared
  <1>3. /\ DOMAIN w = CallFields /\ w.at \in {"done", "serve"}
        /\ \A f \in CallFields \ ({"at"} \cup {"configs"}) : w[f] = calls[c][f]
    BY <1>1, FieldNames, KindByStage
  <1> QED BY <1>2, <1>3, TakesMoves

\* The owner of each placeholder's credential is found.
LEMMA FindOwningAgentsMoves ==
    ASSUME CallShapes, NEW c \in Calls, FindOwningAgents(c)
    PROVE  Moves(c, {"legacy"}, {"serve"}, {"done", "value"}, {"held"})
  <1>1. PICK w : /\ Takes(c, w)
                 /\ \/ w = [calls[c] EXCEPT !.at = "done"]
                    \/ \E x : w = [calls[c] EXCEPT !.at = "value", !.held = x]
    BY DEF FindOwningAgents, Refuse, Takes
  <1>2. /\ load' = load /\ Takes(c, w)
        /\ calls[c].at \in {"serve"} /\ calls[c].req.kind \in {"legacy"}
    BY <1>1, KindByStage DEF FindOwningAgents, At, Kind, Shared
  <1>3. /\ DOMAIN w = CallFields /\ w.at \in {"done", "value"}
        /\ \A f \in CallFields \ ({"at"} \cup {"held"}) : w[f] = calls[c][f]
    BY <1>1, FieldNames, KindByStage
  <1> QED BY <1>2, <1>3, TakesMoves

\* The values of the placeholders are read.
LEMMA ReadValuesMoves ==
    ASSUME CallShapes, NEW c \in Calls, ReadValues(c)
    PROVE  Moves(c, {"legacy"}, {"value"}, {"done", "policy"}, {"name", "held", "route"})
  <1>1. PICK w : /\ Takes(c, w)
                 /\ \/ w = [calls[c] EXCEPT !.at = "done"]
                    \/ w = [calls[c] EXCEPT !.at = "policy",
                        !.name = IF DOMAIN CredNames(calls[c].req) = {} THEN << >>
                                 ELSE First(CredNames(calls[c].req)),
                        !.held = [n \in DOMAIN calls[c].held |->
                                  [key |-> calls[c].held[n], value |-> StoredValue(calls[c].held[n])]],
                        !.route = Route("none", "direct", calls[c].req.target.host,
                                        calls[c].req.target, {})]
    BY DEF ReadValues, Refuse, Takes
  <1>2. /\ load' = load /\ Takes(c, w)
        /\ calls[c].at \in {"value"} /\ calls[c].req.kind \in {"legacy"}
    BY <1>1, KindByStage DEF ReadValues, At, Kind, Shared
  <1>3. /\ DOMAIN w = CallFields /\ w.at \in {"done", "policy"}
        /\ \A f \in CallFields \ ({"at"} \cup {"name", "held", "route"}) : w[f] = calls[c][f]
    BY <1>1, FieldNames, KindByStage
  <1> QED BY <1>2, <1>3, TakesMoves

\* The lease of the relay is looked up.
LEMMA RelayGateMoves ==
    ASSUME CallShapes, NEW c \in Calls, RelayGate(c)
    PROVE  Moves(c, {"forward"}, {"relay"}, {"done", "policy"}, {"leased", "asOf"})
  <1>1. PICK w : /\ Takes(c, w)
                 /\ \/ w = [calls[c] EXCEPT !.at = "done"]
                    \/ w = [calls[c] EXCEPT !.at = "policy", !.leased = TRUE, !.asOf = clock]
    BY DEF RelayGate, Refuse, Takes
  <1>2. /\ load' = load /\ Takes(c, w)
        /\ calls[c].at \in {"relay"} /\ calls[c].req.kind \in {"forward"}
    BY <1>1, KindByStage DEF RelayGate, At, Kind, Shared
  <1>3. /\ DOMAIN w = CallFields /\ w.at \in {"done", "policy"}
        /\ \A f \in CallFields \ ({"at"} \cup {"leased", "asOf"}) : w[f] = calls[c][f]
    BY <1>1, FieldNames, KindByStage
  <1> QED BY <1>2, <1>3, TakesMoves

\* The relay's credential is read.
LEMMA RelayConfigMoves ==
    ASSUME CallShapes, NEW c \in Calls, RelayConfig(c)
    PROVE  Moves(c, {"relay"}, {"relay_config"}, {"done", "claim"}, {"by", "name", "cred"})
  <1>1. PICK w : /\ Takes(c, w)
                 /\ \/ w = [calls[c] EXCEPT !.at = "done"]
                    \/ w = [calls[c] EXCEPT !.at = "claim", !.by = Primary(c),
                        !.name = EffectiveName(calls[c].req),
                        !.cred = creds[<<load.agents[Primary(c)].team, EffectiveName(calls[c].req)>>]]
    BY DEF RelayConfig, Refuse, Takes
  <1>2. /\ load' = load /\ Takes(c, w)
        /\ calls[c].at \in {"relay_config"} /\ calls[c].req.kind \in {"relay"}
    BY <1>1, KindByStage DEF RelayConfig, At, Kind, Shared
  <1>3. /\ DOMAIN w = CallFields /\ w.at \in {"done", "claim"}
        /\ \A f \in CallFields \ ({"at"} \cup {"by", "name", "cred"}) : w[f] = calls[c][f]
    BY <1>1, FieldNames, KindByStage
  <1> QED BY <1>2, <1>3, TakesMoves

\* The lease is claimed.
LEMMA ClaimRelaySessionMoves ==
    ASSUME CallShapes, NEW c \in Calls, ClaimRelaySession(c)
    PROVE  Moves(c, {"relay"}, {"claim"}, {"done", "list"}, {"leased"})
  <1>1. PICK w : /\ Takes(c, w)
                 /\ \/ w = [calls[c] EXCEPT !.at = "done"]
                    \/ w = [calls[c] EXCEPT !.at = "list", !.leased = TRUE]
    BY DEF ClaimRelaySession, Refuse, Takes
  <1>2. /\ load' = load /\ Takes(c, w)
        /\ calls[c].at \in {"claim"} /\ calls[c].req.kind \in {"relay"}
    BY <1>1, KindByStage DEF ClaimRelaySession, At, Kind, Shared
  <1>3. /\ DOMAIN w = CallFields /\ w.at \in {"done", "list"}
        /\ \A f \in CallFields \ ({"at"} \cup {"leased"}) : w[f] = calls[c][f]
    BY <1>1, FieldNames, KindByStage
  <1> QED BY <1>2, <1>3, TakesMoves

\* The sessions that beat are listed.
LEMMA ListSessionsMoves ==
    ASSUME CallShapes, NEW c \in Calls, ListSessions(c)
    PROVE  Moves(c, {"relay"}, {"list"}, {"project"}, {"live", "asOf"})
  <1>1. PICK w : /\ Takes(c, w)
                 /\ w = [calls[c] EXCEPT !.at = "project", !.live = ListLiveRelaySessions, !.asOf = clock]
    BY DEF ListSessions, Refuse, Takes
  <1>2. /\ load' = load /\ Takes(c, w)
        /\ calls[c].at \in {"list"} /\ calls[c].req.kind \in {"relay"}
    BY <1>1, KindByStage DEF ListSessions, At, Kind, Shared
  <1>3. /\ DOMAIN w = CallFields /\ w.at \in {"project"}
        /\ \A f \in CallFields \ ({"at"} \cup {"live", "asOf"}) : w[f] = calls[c][f]
    BY <1>1, FieldNames, KindByStage
  <1> QED BY <1>2, <1>3, TakesMoves

\* The list is written out.
LEMMA WriteAuthfileMoves ==
    ASSUME CallShapes, NEW c \in Calls, WriteAuthfile(c)
    PROVE  Moves(c, {"relay"}, {"project"}, {"done"}, {})
  <1>1. PICK w : /\ Takes(c, w)
                 /\ w = [calls[c] EXCEPT !.at = "done"]
    BY DEF WriteAuthfile, Refuse, Takes
  <1>2. /\ load' = load /\ Takes(c, w)
        /\ calls[c].at \in {"project"} /\ calls[c].req.kind \in {"relay"}
    BY <1>1, KindByStage DEF WriteAuthfile, At, Kind, Shared
  <1>3. /\ DOMAIN w = CallFields /\ w.at \in {"done"}
        /\ \A f \in CallFields \ ({"at"} \cup {}) : w[f] = calls[c][f]
    BY <1>1, FieldNames, KindByStage
  <1> QED BY <1>2, <1>3, TakesMoves

\* The second attempt takes another answer.
LEMMA RetryWithOauth1Moves ==
    ASSUME CallShapes, NEW c \in Calls, RetryWithOauth1(c)
    PROVE  Moves(c, {"forward"}, {"retry"}, {"answer"}, {"response"})
  <1>1. PICK w : /\ Takes(c, w)
                 /\ \E x : w = [calls[c] EXCEPT !.at = "answer", !.response = x]
    BY DEF RetryWithOauth1, Refuse, Takes
  <1>2. /\ load' = load /\ Takes(c, w)
        /\ calls[c].at \in {"retry"} /\ calls[c].req.kind \in {"forward"}
    BY <1>1, KindByStage DEF RetryWithOauth1, At, Kind, Shared
  <1>3. /\ DOMAIN w = CallFields /\ w.at \in {"answer"}
        /\ \A f \in CallFields \ ({"at"} \cup {"response"}) : w[f] = calls[c][f]
    BY <1>1, FieldNames, KindByStage
  <1> QED BY <1>2, <1>3, TakesMoves

\* The answer is sanitized and audited.
LEMMA AnswerMoves ==
    ASSUME CallShapes, NEW c \in Calls, Answer(c)
    PROVE  Moves(c, {"forward", "legacy"}, {"answer"}, {"done"}, {"audit", "answer"})
  <1>1. PICK w : /\ Takes(c, w)
                 /\ \E x, y : w = [calls[c] EXCEPT !.at = "done", !.audit = x, !.answer = y]
    BY DEF Answer, Refuse, Takes
  <1>2. /\ load' = load /\ Takes(c, w)
        /\ calls[c].at \in {"answer"} /\ calls[c].req.kind \in {"forward", "legacy"}
    BY <1>1, KindByStage DEF Answer, At, Kind, Shared
  <1>3. /\ DOMAIN w = CallFields /\ w.at \in {"done"}
        /\ \A f \in CallFields \ ({"at"} \cup {"audit", "answer"}) : w[f] = calls[c][f]
    BY <1>1, FieldNames, KindByStage
  <1> QED BY <1>2, <1>3, TakesMoves

\* A signature is made and audited, or the payload does not suit the key.
LEMMA SignPayloadMoves ==
    ASSUME CallShapes, NEW c \in Calls, SignPayload(c)
    PROVE  Moves(c, {"sign"}, {"sign"}, {"done"}, {"signed", "audit"})
  <1>1. PICK w : /\ Takes(c, w)
                 /\ \/ w = [calls[c] EXCEPT !.at = "done", !.signed = TRUE, !.audit = "approved"]
                    \/ w = [calls[c] EXCEPT !.at = "done"]
    BY DEF SignPayload, Refuse, Takes
  <1>2. /\ load' = load /\ Takes(c, w)
        /\ calls[c].at \in {"sign"} /\ calls[c].req.kind \in {"sign"}
    BY <1>1, KindByStage DEF SignPayload, At, Kind, Shared
  <1>3. /\ DOMAIN w = CallFields /\ w.at \in {"done"}
        /\ \A f \in CallFields \ ({"at"} \cup {"signed", "audit"}) : w[f] = calls[c][f]
    BY <1>1, FieldNames, KindByStage
  <1> QED BY <1>2, <1>3, TakesMoves

\* A request is taken on: it has nothing yet but its kind.
LEMMA ReceiveMoves ==
    ASSUME CallShapes, NEW c \in Calls, NEW req \in load.requests, Receive(c, req)
    PROVE  /\ load' = load /\ DOMAIN calls' = Calls
           /\ \A d \in Calls \ {c} : calls'[d] = calls[d]
           /\ calls[c] = Fresh /\ calls'[c] = [Fresh EXCEPT !.at = "auth", !.req = req]
           /\ calls'[c].at = "auth" /\ calls'[c].req = req /\ req.kind \in Kinds
           /\ DOMAIN calls'[c] = CallFields
           /\ \A f \in CallFields \ {"at", "req"} : calls'[c][f] = calls[c][f]
  <1> DEFINE w == [Fresh EXCEPT !.at = "auth", !.req = req]
  <1>1. Takes(c, w) /\ load' = load /\ calls[c].at = "idle"
    BY DEF Receive, At, Shared
  <1>2. calls[c] = Fresh /\ req.kind \in Kinds
    BY <1>1, LoadAssumption DEF CallShapes, Shape
  <1>3. /\ w.at = "auth" /\ w.req = req /\ DOMAIN w = CallFields
        /\ \A f \in CallFields \ {"at", "req"} : w[f] = Fresh[f]
    BY FieldNames, FreshShape
  <1>4. w = [Fresh EXCEPT !.at = "auth", !.req = req]
    OBVIOUS
  <1> HIDE DEF w
  <1>5. /\ calls'[c] = w /\ DOMAIN calls' = Calls
        /\ \A d \in Calls \ {c} : calls'[d] = calls[d]
    BY <1>1, Taken
  <1>6. calls'[c] = [Fresh EXCEPT !.at = "auth", !.req = req]
    BY <1>4, <1>5
  <1>7. /\ calls'[c].at = "auth" /\ calls'[c].req = req /\ DOMAIN calls'[c] = CallFields
        /\ \A f \in CallFields \ {"at", "req"} : calls'[c][f] = calls[c][f]
    BY <1>2, <1>3, <1>5
  <1> QED BY <1>1, <1>2, <1>5, <1>6, <1>7

\* The counter refuses a request or sends it where its kind goes next.
LEMMA RateLimitMoves ==
    ASSUME CallShapes, NEW c \in Calls, RateLimit(c)
    PROVE  Counted(c)
  <1>1. PICK w : /\ Takes(c, w)
                 /\ \/ \E x : w = [calls[c] EXCEPT !.at = AfterCount(c), !.counted = TRUE,
                                                          !.late = x]
                    \/ w = [calls[c] EXCEPT !.at = "done"]
                    \/ w = [calls[c] EXCEPT !.at = AfterCount(c)]
    BY DEF RateLimit
  <1>2. /\ load' = load /\ Takes(c, w) /\ calls[c].at \in {"count"}
        /\ calls[c].req.kind \in {"forward", "legacy"}
    BY <1>1, KindByStage DEF RateLimit, At, Shared
  <1>3. AfterCount(c) = "done" \/ (calls[c].req.kind = "legacy" /\ AfterCount(c) = "parse")
            \/ (calls[c].req.kind = "forward" /\ AfterCount(c) = "serve")
    BY <1>2 DEF AfterCount, Kind
  <1>4. /\ DOMAIN w = CallFields
        /\ \A f \in CallFields \ ({"at"} \cup {"counted", "late"}) : w[f] = calls[c][f]
        /\ w.at \in {"done", AfterCount(c)}
    BY <1>1, FieldNames, KindByStage
  <1>5. CASE w.at \in {"done"}
    BY <1>2, <1>4, <1>5, TakesMoves DEF Counted
  <1>6. CASE w.at \in {"serve"} /\ calls[c].req.kind \in {"forward"}
    BY <1>2, <1>4, <1>6, TakesMoves DEF Counted
  <1>7. CASE w.at \in {"parse"} /\ calls[c].req.kind \in {"legacy"}
    BY <1>2, <1>4, <1>7, TakesMoves DEF Counted
  <1> QED BY <1>3, <1>4, <1>5, <1>6, <1>7

(* A policy that was read: what forwards is evaluated, what signs is       *)
(* guarded.                                                                *)
PolicyRead(c) ==
    \/ Moves(c, {"forward", "legacy"}, {"policy"}, {"mode"}, {"policy", "failed"})
    \/ Moves(c, {"sign"}, {"policy"}, {"ask", "done"}, {"policy", "failed", "guard"})

\* Reading the policy.
LEMMA ReadPolicyMoves ==
    ASSUME CallShapes, NEW c \in Calls, ReadPolicy(c)
    PROVE  PolicyRead(c)
  <1>1. PICK v : /\ Takes(c, AfterPolicy(c, v))
                 /\ \/ v = [calls[c] EXCEPT !.policy = PolicyOf(PolicyKey(c))]
                    \/ v = [calls[c] EXCEPT !.failed = TRUE]
    BY DEF ReadPolicy
  <1>2. /\ load' = load /\ calls[c].at \in {"policy"}
        /\ calls[c].req.kind \in {"forward", "legacy", "sign"}
    BY KindByStage DEF ReadPolicy, At, Shared
  <1>3. /\ DOMAIN v = CallFields /\ v.req = calls[c].req
        /\ \A f \in CallFields \ {"policy", "failed"} : v[f] = calls[c][f]
    BY <1>1, FieldNames, KindByStage
  <1> DEFINE w == AfterPolicy(c, v)
  <1>4. CASE calls[c].req.kind \in {"forward", "legacy"}
    <2>1. w = [v EXCEPT !.at = "mode"]
      BY <1>4 DEF AfterPolicy, Kind
    <2> HIDE DEF w
    <2>2. /\ DOMAIN w = CallFields /\ w.at \in {"mode"}
          /\ \A f \in CallFields \ ({"at"} \cup {"policy", "failed"}) : w[f] = calls[c][f]
      BY <1>3, <2>1, FieldNames
    <2>3. Takes(c, w)
      BY <1>1 DEF w
    <2> QED BY <1>2, <1>4, <2>2, <2>3, TakesMoves DEF PolicyRead
  <1>5. CASE calls[c].req.kind \in {"sign"}
    <2>1. PICK g, t : w = [v EXCEPT !.guard = g, !.at = t] /\ t \in {"ask", "done"}
      BY <1>5 DEF AfterPolicy, Kind
    <2> HIDE DEF w
    <2>2. /\ DOMAIN w = CallFields /\ w.at \in {"ask", "done"}
          /\ \A f \in CallFields \ ({"at"} \cup {"policy", "failed", "guard"}) : w[f] = calls[c][f]
      BY <1>3, <2>1, FieldNames
    <2>3. Takes(c, w)
      BY <1>1 DEF w
    <2> QED BY <1>2, <1>5, <2>2, <2>3, TakesMoves DEF PolicyRead
  <1> QED BY <1>2, <1>4, <1>5

\* The policy is evaluated.
LEMMA EvaluateMoves ==
    ASSUME CallShapes, NEW c \in Calls, Evaluate(c)
    PROVE  Moves(c, {"forward", "legacy"}, {"mode"}, {"exchange", "grant", "ask"}, {"reason"})
  <1>1. PICK x, t : /\ Takes(c, [calls[c] EXCEPT !.reason = x, !.at = t])
                    /\ t \in {"exchange", "grant", "ask"}
    BY DEF Evaluate
  <1>2. /\ load' = load /\ calls[c].at \in {"mode"}
        /\ calls[c].req.kind \in {"forward", "legacy"}
    BY KindByStage DEF Evaluate, At, Shared
  <1> DEFINE w == [calls[c] EXCEPT !.reason = x, !.at = t]
  <1>3. /\ DOMAIN w = CallFields /\ w.at \in {"exchange", "grant", "ask"}
        /\ \A f \in CallFields \ ({"at"} \cup {"reason"}) : w[f] = calls[c][f]
    BY <1>1, FieldNames, KindByStage
  <1>4. Takes(c, w)
    BY <1>1
  <1> HIDE DEF w
  <1> QED BY <1>2, <1>3, <1>4, TakesMoves

\* A request for an approval is sent, or cannot be.
LEMMA SendMoves ==
    ASSUME CallShapes, NEW c \in Calls, NEW endUser, NEW shown,
           SendApprovalRequest(c, endUser, shown),
           load' = load, calls[c].at \in {"ask"}, NEW kinds, calls[c].req.kind \in kinds
    PROVE  Moves(c, kinds, {"ask"}, {"done", "wait"}, {"asked"})
  <1> DEFINE team == PolicyKey(c)[1]
             routing == RowToRouting(calls[c].policy)
             named == IF routing = NoValue THEN {} ELSE routing.approvers
             rows == load.channels[team]
             resolved(noRows) == IF noRows THEN "agent_reflected"
                                 ELSE ResolveApprovalChannel(routing, rows)
             channel(noRows) == ChannelForEndUser(resolved(noRows), endUser)
             spliced(noRows) == SplicedRouting(routing, rows, resolved(noRows), channel(noRows))
             emails(noMembers) == IF noMembers THEN named
                                  ELSE EffectiveApprovers(named, team, calls[c].name)
             ids(noRows, noMembers, unread) ==
                 IF spliced(noRows) = NoValue THEN {Anyone}
                 ELSE AllowedIn(channel(noRows), spliced(noRows), emails(noMembers), unread, team)
             asked(noRows, noMembers, unread) ==
                 [channel |-> channel(noRows), ids |-> ids(noRows, noMembers, unread),
                  rows |-> ~noRows, members |-> ~noMembers, unread |-> unread, shown |-> shown]
  <1>0. PICK noRows \in May("rows"), noMembers \in May("members"), lost \in May("send"),
             unread \in Unread(team) :
            Takes(c, IF lost THEN [calls[c] EXCEPT !.at = "done"]
                     ELSE [calls[c] EXCEPT !.at = "wait",
                                           !.asked = asked(noRows, noMembers, unread)])
    BY Zenon DEF SendApprovalRequest
  <1> HIDE DEF asked
  <1>1. PICK w : /\ Takes(c, w)
                 /\ w = [calls[c] EXCEPT !.at = "done"]
                    \/ \E q : w = [calls[c] EXCEPT !.at = "wait", !.asked = q]
    BY <1>0
  <1>2. /\ DOMAIN w = CallFields /\ w.at \in {"done", "wait"}
        /\ \A f \in CallFields \ ({"at"} \cup {"asked"}) : w[f] = calls[c][f]
    BY <1>1, FieldNames, KindByStage
  <1>3. Takes(c, w)
    BY <1>1
  <1> QED BY <1>2, <1>3, TakesMoves

\* Asking, for each of the three handlers.
LEMMA AskMoves ==
    ASSUME CallShapes, NEW c \in Calls
    PROVE  /\ Ask(c) => Moves(c, {"forward"}, {"ask"}, {"done", "wait"}, {"asked"})
           /\ AskForPlaceholders(c) => Moves(c, {"legacy"}, {"ask"}, {"done", "wait"}, {"asked"})
           /\ AskToSign(c) => Moves(c, {"sign"}, {"ask"}, {"done", "wait"}, {"asked"})
  <1>1. ASSUME Ask(c)
        PROVE  Moves(c, {"forward"}, {"ask"}, {"done", "wait"}, {"asked"})
    <2>1. /\ SendApprovalRequest(c, calls[c].req.endUser, calls[c].route.shown) /\ load' = load
          /\ calls[c].at \in {"ask"} /\ calls[c].req.kind \in {"forward"}
      BY <1>1 DEF Ask, At, Kind, Shared
    <2> QED BY <2>1, SendMoves
  <1>2. ASSUME AskForPlaceholders(c)
        PROVE  Moves(c, {"legacy"}, {"ask"}, {"done", "wait"}, {"asked"})
    <2>1. /\ SendApprovalRequest(c, NoOne, DisplayForPlaceholders(c)) /\ load' = load
          /\ calls[c].at \in {"ask"} /\ calls[c].req.kind \in {"legacy"}
      BY <1>2 DEF AskForPlaceholders, At, Kind, Shared
    <2> QED BY <2>1, SendMoves
  <1>3. ASSUME AskToSign(c)
        PROVE  Moves(c, {"sign"}, {"ask"}, {"done", "wait"}, {"asked"})
    <2>1. /\ SendApprovalRequest(c, calls[c].req.endUser, NoUrl) /\ load' = load
          /\ calls[c].at \in {"ask"} /\ calls[c].req.kind \in {"sign"}
      BY <1>3 DEF AskToSign, At, Kind, Shared
    <2> QED BY <2>1, SendMoves
  <1> QED BY <1>1, <1>2, <1>3

(* A verdict: to what was approved, or to the end.                         *)
Decided(c, kind, onward) ==
    \/ /\ Moves(c, kind, {"wait"}, {onward}, {"verdict", "audit"})
       /\ calls'[c].verdict = "approved" /\ calls'[c].audit \in {"none", calls[c].audit}
    \/ /\ Moves(c, kind, {"wait"}, {"done"}, {"verdict", "audit"})
       /\ calls'[c].verdict # "approved"

\* A person decides.
LEMMA DecideMoves ==
    ASSUME CallShapes, NEW c \in Calls, NEW verdict \in Verdicts, Decide(c, verdict)
    PROVE  Decided(c, {"forward", "legacy"}, "exchange")
  <1>1. /\ load' = load /\ calls[c].at \in {"wait"} /\ calls[c].req.kind \in {"forward", "legacy"}
    BY KindByStage DEF Decide, Shared, At, Kind
  <1>2. CASE verdict = "approved"
    <2> DEFINE w == [calls[c] EXCEPT !.verdict = verdict, !.at = "exchange"]
    <2>1. Takes(c, w)
      BY <1>2 DEF Decide
    <2>2. /\ DOMAIN w = CallFields /\ w.at \in {"exchange"} /\ w.verdict = "approved"
          /\ w.audit = calls[c].audit
          /\ \A f \in CallFields \ ({"at"} \cup {"verdict", "audit"}) : w[f] = calls[c][f]
      BY <1>2, FieldNames, KindByStage
    <2> HIDE DEF w
    <2>3. calls'[c] = w
      BY <2>1, Taken
    <2> QED BY <1>1, <2>1, <2>2, <2>3, TakesMoves DEF Decided
  <1>3. CASE verdict # "approved"
    <2> DEFINE w == [calls[c] EXCEPT !.verdict = verdict, !.at = "done", !.audit = verdict]
    <2>1. Takes(c, w)
      BY <1>3 DEF Decide
    <2>2. /\ DOMAIN w = CallFields /\ w.at \in {"done"} /\ w.verdict # "approved"
          /\ \A f \in CallFields \ ({"at"} \cup {"verdict", "audit"}) : w[f] = calls[c][f]
      BY <1>3, FieldNames, KindByStage
    <2> HIDE DEF w
    <2>3. calls'[c] = w
      BY <2>1, Taken
    <2> QED BY <1>1, <2>1, <2>2, <2>3, TakesMoves DEF Decided
  <1> QED BY <1>2, <1>3

\* A person decides on a signature.
LEMMA DecideToSignMoves ==
    ASSUME CallShapes, NEW c \in Calls, NEW verdict \in Verdicts, DecideToSign(c, verdict)
    PROVE  Decided(c, {"sign"}, "sign")
  <1>1. /\ load' = load /\ calls[c].at \in {"wait"} /\ calls[c].req.kind \in {"sign"}
    BY DEF DecideToSign, At, Kind, Shared
  <1> DEFINE a == IF verdict = "denied" THEN verdict ELSE "none"
  <1> DEFINE w == [calls[c] EXCEPT !.verdict = verdict,
                      !.at = IF verdict = "approved" THEN "sign" ELSE "done", !.audit = a]
  <1>2. Takes(c, w)
    BY DEF DecideToSign
  <1>3. CASE verdict = "approved"
    <2>2. /\ DOMAIN w = CallFields /\ w.at \in {"sign"} /\ w.verdict = "approved"
          /\ w.audit = "none"
          /\ \A f \in CallFields \ ({"at"} \cup {"verdict", "audit"}) : w[f] = calls[c][f]
      BY <1>3, FieldNames, KindByStage
    <2> HIDE DEF w
    <2>3. calls'[c] = w
      BY <1>2, Taken
    <2> QED BY <1>1, <1>2, <2>2, <2>3, TakesMoves DEF Decided
  <1>4. CASE verdict # "approved"
    <2>2. /\ DOMAIN w = CallFields /\ w.at \in {"done"} /\ w.verdict # "approved"
          /\ \A f \in CallFields \ ({"at"} \cup {"verdict", "audit"}) : w[f] = calls[c][f]
      BY <1>4, FieldNames, KindByStage
    <2> HIDE DEF w
    <2>3. calls'[c] = w
      BY <1>2, Taken
    <2> QED BY <1>1, <1>2, <2>2, <2>3, TakesMoves DEF Decided
  <1> QED BY <1>3, <1>4


(* A bundle is exchanged for a token, or fails to be.                      *)
Exchanged(c) ==
    /\ Moves(c, {"forward", "legacy"}, {"exchange"}, {"done", "send"}, {"token", "audit"})
    /\ calls'[c].token = TokenEndpoint(calls[c].route.scheme, calls[c].value)
    /\ calls'[c].audit = (IF calls'[c].at = "done" /\ calls[c].verdict = "approved"
                          THEN "approved" ELSE "none")

\* Exchanging a bundle for a token, or failing to.
LEMMA ExchangeMoves ==
    ASSUME CallShapes, NEW c \in Calls, ExchangeToken(c)
    PROVE  Exchanged(c)
  <1> DEFINE e == TokenEndpoint(calls[c].route.scheme, calls[c].value)
             A(fails) == IF fails /\ calls[c].verdict = "approved" THEN "approved" ELSE "none"
             W(fails) == [calls[c] EXCEPT !.token = e, !.at = IF fails THEN "done" ELSE "send",
                                          !.audit = A(fails)]
  <1>1. PICK fails \in BOOLEAN : Takes(c, W(fails))
    BY DEF ExchangeToken
  <1>2. /\ load' = load /\ calls[c].at \in {"exchange"}
        /\ calls[c].req.kind \in {"forward", "legacy"}
    BY KindByStage DEF ExchangeToken, At, Shared
  <1>3. PICK w, t, a : /\ Takes(c, w) /\ w = [calls[c] EXCEPT !.token = e, !.at = t, !.audit = a]
                       /\ t \in {"done", "send"}
                       /\ a = IF t = "done" /\ calls[c].verdict = "approved" THEN "approved" ELSE "none"
    BY <1>1
  <1> HIDE DEF e
  <1>4. /\ DOMAIN w = CallFields /\ w.at \in {"done", "send"} /\ w.at = t
        /\ w.token = e /\ w.audit = a
        /\ \A f \in CallFields \ ({"at"} \cup {"token", "audit"}) : w[f] = calls[c][f]
    BY <1>3, FieldNames, KindByStage
  <1>5. calls'[c] = w /\ Takes(c, w)
    BY <1>3, Taken
  <1>6. Moves(c, {"forward", "legacy"}, {"exchange"}, {"done", "send"}, {"token", "audit"})
    BY <1>2, <1>4, <1>5, TakesMoves
  <1> QED BY <1>3, <1>4, <1>5, <1>6 DEF Exchanged, e

(* A request is sent: its answer comes, is a refusal to try again, or none.*)
Sent(c) ==
    /\ calls'[c].sent = PiecesToSend(c)
    /\ \/ /\ Moves(c, {"forward", "legacy"}, {"send"}, {"done"}, {"sent", "audit"})
          /\ calls'[c].audit = AuditedAs(c)
       \/ /\ Moves(c, {"forward", "legacy"}, {"send"}, {"answer"}, {"sent", "response"})
          /\ calls'[c].response \in Responses(c, PiecesToSend(c))
       \/ /\ Moves(c, {"forward"}, {"send"}, {"retry"}, {"sent", "response"})
          /\ calls'[c].response \in Responses(c, PiecesToSend(c))
          /\ calls'[c].response.status = "unauthorized"

\* Sending.
LEMMA SendingMoves ==
    ASSUME CallShapes, NEW c \in Calls, Send(c)
    PROVE  Sent(c)
  <1> DEFINE sent == PiecesToSend(c)
             R == Responses(c, sent)
             to(r) == IF r.status = "unauthorized" /\ Kind(c) = "forward"
                         /\ CanRetryWithOauth1(calls[c].route, calls[c].value,
                                               calls[c].req.method, calls[c].req.mode)
                      THEN "retry" ELSE "answer"
  <1>1. /\ load' = load /\ calls[c].at \in {"send"}
        /\ calls[c].req.kind \in {"forward", "legacy"}
    BY KindByStage DEF Send, At, Shared
  <1>2. CASE Takes(c, [calls[c] EXCEPT !.at = "done", !.sent = sent, !.audit = AuditedAs(c)])
    <2> DEFINE w == [calls[c] EXCEPT !.at = "done", !.sent = sent, !.audit = AuditedAs(c)]
    <2>1. Takes(c, w)
      BY <1>2
    <2> HIDE DEF sent
    <2>2. /\ DOMAIN w = CallFields /\ w.at \in {"done"} /\ w.sent = sent /\ w.audit = AuditedAs(c)
          /\ \A f \in CallFields \ ({"at"} \cup {"sent", "audit"}) : w[f] = calls[c][f]
      BY FieldNames, KindByStage
    <2> HIDE DEF w
    <2>3. calls'[c] = w
      BY <2>1, Taken
    <2>4. Moves(c, {"forward", "legacy"}, {"send"}, {"done"}, {"sent", "audit"})
      BY <1>1, <2>1, <2>2, TakesMoves
    <2> QED BY <2>2, <2>3, <2>4 DEF Sent, sent
  <1>3. CASE \E r \in R : Takes(c, [calls[c] EXCEPT !.sent = sent, !.response = r, !.at = to(r)])
    <2>1. PICK r \in R : Takes(c, [calls[c] EXCEPT !.sent = sent, !.response = r, !.at = to(r)])
      BY <1>3
    <2>2. \/ to(r) = "answer"
          \/ to(r) = "retry" /\ calls[c].req.kind = "forward" /\ r.status = "unauthorized"
      BY DEF Kind
    <2>3. PICK w, t : /\ Takes(c, w)
                      /\ w = [calls[c] EXCEPT !.sent = sent, !.response = r, !.at = t]
                      /\ \/ t = "answer"
                         \/ t = "retry" /\ calls[c].req.kind = "forward" /\ r.status = "unauthorized"
      <3> HIDE DEF to, sent, R
      <3> QED BY <2>1, <2>2
    <2> HIDE DEF sent, R
    <2>4. /\ DOMAIN w = CallFields /\ w.at = t /\ w.sent = sent /\ w.response = r
          /\ \A f \in CallFields \ ({"at"} \cup {"sent", "response"}) : w[f] = calls[c][f]
      BY <2>3, FieldNames, KindByStage
    <2>5. calls'[c] = w /\ Takes(c, w)
      BY <2>3, Taken
    <2>6. CASE w.at \in {"answer"}
      <3>1. Moves(c, {"forward", "legacy"}, {"send"}, {"answer"}, {"sent", "response"})
        BY <1>1, <2>4, <2>5, <2>6, TakesMoves
      <3> QED BY <3>1, <2>1, <2>4, <2>5 DEF Sent, sent, R
    <2>7. CASE w.at \in {"retry"} /\ calls[c].req.kind \in {"forward"} /\ r.status = "unauthorized"
      <3>1. Moves(c, {"forward"}, {"send"}, {"retry"}, {"sent", "response"})
        BY <1>1, <2>4, <2>5, <2>7, TakesMoves
      <3> QED BY <3>1, <2>1, <2>4, <2>5, <2>7 DEF Sent, sent, R
    <2> QED BY <2>3, <2>4, <2>6, <2>7
  <1> QED BY <1>2, <1>3 DEF Send

(* A grant is used, or there is none to use.                               *)
Claimed(c) ==
    \/ Moves(c, {"forward", "legacy"}, {"grant"}, {"exchange"}, {"grant"}) /\ calls'[c].grant = TRUE
    \/ Moves(c, {"forward", "legacy"}, {"grant"}, {"ask"}, {})

\* Claiming one.
LEMMA ClaimGrantMoves ==
    ASSUME CallShapes, NEW c \in Calls, ClaimGrant(c)
    PROVE  Claimed(c)
  <1>1. /\ load' = load /\ calls[c].at \in {"grant"}
        /\ calls[c].req.kind \in {"forward", "legacy"}
    BY KindByStage DEF ClaimGrant, At
  <1>2. CASE Takes(c, [calls[c] EXCEPT !.at = "exchange", !.grant = TRUE])
    <2> DEFINE w == [calls[c] EXCEPT !.at = "exchange", !.grant = TRUE]
    <2>1. /\ DOMAIN w = CallFields /\ w.at \in {"exchange"} /\ w.grant = TRUE
          /\ \A f \in CallFields \ ({"at"} \cup {"grant"}) : w[f] = calls[c][f]
      BY FieldNames, KindByStage
    <2>2. Takes(c, w)
      BY <1>2
    <2> HIDE DEF w
    <2>3. calls'[c] = w
      BY <2>2, Taken
    <2> QED BY <1>1, <2>1, <2>2, <2>3, TakesMoves DEF Claimed
  <1>3. CASE Takes(c, [calls[c] EXCEPT !.at = "ask"])
    <2> DEFINE w == [calls[c] EXCEPT !.at = "ask"]
    <2>1. /\ DOMAIN w = CallFields /\ w.at \in {"ask"}
          /\ \A f \in CallFields \ ({"at"} \cup {}) : w[f] = calls[c][f]
      BY FieldNames, KindByStage
    <2>2. Takes(c, w)
      BY <1>3
    <2> HIDE DEF w
    <2> QED BY <1>1, <2>1, <2>2, TakesMoves DEF Claimed
  <1> QED BY <1>2, <1>3 DEF ClaimGrant

-----------------------------------------------------------------------------
(* The shapes are kept                                                     *)

\* A request that moves to a stage of its kind keeps its shape.
LEMMA MovesKeepShapes ==
    ASSUME CallShapes, NEW c \in Calls, NEW kinds, NEW from, NEW to, NEW writes,
           Moves(c, kinds, from, to, writes), "req" \notin writes,
           "idle" \notin from, "idle" \notin to, \A k \in kinds : to \subseteq StagesOf[k]
    PROVE  CallShapes'
  <1>1. /\ load' = load /\ load \in Loads /\ DOMAIN calls' = Calls
        /\ \A d \in Calls \ {c} : calls'[d] = calls[d]
    BY DEF CallShapes, Moves
  <1>2. ASSUME NEW d \in Calls PROVE Shape(calls[d])'
    <2>1. CASE d # c
      BY <1>1, <2>1 DEF CallShapes, Shape
    <2>2. CASE d = c
      <3>1. calls'[c].req = calls[c].req /\ calls'[c].at \in to
        BY FieldNames DEF Moves
      <3>2. calls[c].at # "idle" /\ calls'[c].at # "idle" /\ calls[c].req.kind \in kinds
        BY <3>1 DEF Moves
      <3>3. DOMAIN calls'[c] = CallFields /\ calls[c].req \in load.requests
        BY <3>2 DEF CallShapes, Shape, Moves
      <3>4. calls'[c].at \in StagesOf[calls'[c].req.kind]
        BY <3>1, <3>2
      <3> QED BY <1>1, <2>2, <3>1, <3>2, <3>3, <3>4 DEF Shape
    <2> QED BY <2>1, <2>2
  <1> QED BY <1>1, <1>2 DEF CallShapes

\* Initially no request has come.
LEMMA InitShapes == ASSUME Init PROVE CallShapes
  BY FreshShape DEF Init, CallShapes, Shape

\* Every step keeps the shapes.
LEMMA StepsKeepShapes ==
    ASSUME CallShapes, [Next]_vars
    PROVE  CallShapes'
  <1>1. ASSUME NEW c \in Calls, NEW req \in load.requests, Receive(c, req)
        PROVE  CallShapes'
    <2>1. /\ load' = load /\ DOMAIN calls' = Calls /\ load \in Loads
          /\ \A d \in Calls \ {c} : calls'[d] = calls[d]
          /\ calls'[c].at = "auth" /\ calls'[c].req = req /\ req.kind \in Kinds
          /\ DOMAIN calls'[c] = CallFields
      BY <1>1, ReceiveMoves DEF CallShapes
    <2>2. "auth" \in StagesOf[req.kind]
      BY <2>1 DEF Kinds, StagesOf
    <2>3. ASSUME NEW d \in Calls PROVE Shape(calls[d])'
      <3>1. CASE d # c
        BY <2>1, <3>1 DEF CallShapes, Shape
      <3>2. CASE d = c
        BY <2>1, <2>2, <3>2 DEF Shape
      <3> QED BY <3>1, <3>2
    <2> QED BY <2>1, <2>3 DEF CallShapes
  <1>2. ASSUME NEW c \in Calls, Authenticate(c)
        PROVE  CallShapes'
    BY <1>2, AuthenticateMoves, MovesKeepShapes DEF StagesOf
  <1>3. ASSUME NEW c \in Calls, AuthenticateSigner(c)
        PROVE  CallShapes'
    BY <1>3, AuthenticateSignerMoves, MovesKeepShapes DEF StagesOf
  <1>4. ASSUME NEW c \in Calls, AuthenticateAgentFromHeaders(c)
        PROVE  CallShapes'
    BY <1>4, AuthenticateAgentFromHeadersMoves, MovesKeepShapes DEF StagesOf
  <1>5. ASSUME NEW c \in Calls, FindServingAgent(c)
        PROVE  CallShapes'
    BY <1>5, FindServingAgentMoves, MovesKeepShapes DEF StagesOf
  <1>6. ASSUME NEW c \in Calls, FindSigningAgent(c)
        PROVE  CallShapes'
    BY <1>6, FindSigningAgentMoves, MovesKeepShapes DEF StagesOf
  <1>7. ASSUME NEW c \in Calls, ReadConfig(c)
        PROVE  CallShapes'
    BY <1>7, ReadConfigMoves, MovesKeepShapes DEF StagesOf
  <1>8. ASSUME NEW c \in Calls, ReadSigningConfig(c)
        PROVE  CallShapes'
    BY <1>8, ReadSigningConfigMoves, MovesKeepShapes DEF StagesOf
  <1>9. ASSUME NEW c \in Calls, ReadValue(c)
        PROVE  CallShapes'
    BY <1>9, ReadValueMoves, MovesKeepShapes DEF StagesOf
  <1>10. ASSUME NEW c \in Calls, ReadSigningValue(c)
        PROVE  CallShapes'
    BY <1>10, ReadSigningValueMoves, MovesKeepShapes DEF StagesOf
  <1>11. ASSUME NEW c \in Calls, ParseRequest(c)
        PROVE  CallShapes'
    BY <1>11, ParseRequestMoves, MovesKeepShapes DEF StagesOf
  <1>12. ASSUME NEW c \in Calls, FindOwningAgents(c)
        PROVE  CallShapes'
    BY <1>12, FindOwningAgentsMoves, MovesKeepShapes DEF StagesOf
  <1>13. ASSUME NEW c \in Calls, ReadValues(c)
        PROVE  CallShapes'
    BY <1>13, ReadValuesMoves, MovesKeepShapes DEF StagesOf
  <1>14. ASSUME NEW c \in Calls, RelayGate(c)
        PROVE  CallShapes'
    BY <1>14, RelayGateMoves, MovesKeepShapes DEF StagesOf
  <1>15. ASSUME NEW c \in Calls, RelayConfig(c)
        PROVE  CallShapes'
    BY <1>15, RelayConfigMoves, MovesKeepShapes DEF StagesOf
  <1>16. ASSUME NEW c \in Calls, ClaimRelaySession(c)
        PROVE  CallShapes'
    BY <1>16, ClaimRelaySessionMoves, MovesKeepShapes DEF StagesOf
  <1>17. ASSUME NEW c \in Calls, ListSessions(c)
        PROVE  CallShapes'
    BY <1>17, ListSessionsMoves, MovesKeepShapes DEF StagesOf
  <1>18. ASSUME NEW c \in Calls, WriteAuthfile(c)
        PROVE  CallShapes'
    BY <1>18, WriteAuthfileMoves, MovesKeepShapes DEF StagesOf
  <1>19. ASSUME NEW c \in Calls, RetryWithOauth1(c)
        PROVE  CallShapes'
    BY <1>19, RetryWithOauth1Moves, MovesKeepShapes DEF StagesOf
  <1>20. ASSUME NEW c \in Calls, Answer(c)
        PROVE  CallShapes'
    BY <1>20, AnswerMoves, MovesKeepShapes DEF StagesOf
  <1>21. ASSUME NEW c \in Calls, SignPayload(c)
        PROVE  CallShapes'
    BY <1>21, SignPayloadMoves, MovesKeepShapes DEF StagesOf
  <1>22. ASSUME NEW c \in Calls, Evaluate(c)
        PROVE  CallShapes'
    BY <1>22, EvaluateMoves, MovesKeepShapes DEF StagesOf
  <1>23. ASSUME NEW c \in Calls, RateLimit(c)
        PROVE  CallShapes'
    BY <1>23, RateLimitMoves, MovesKeepShapes DEF StagesOf, Counted
  <1>24. ASSUME NEW c \in Calls, ReadPolicy(c)
        PROVE  CallShapes'
    BY <1>24, ReadPolicyMoves, MovesKeepShapes DEF StagesOf, PolicyRead
  <1>25. ASSUME NEW c \in Calls, Ask(c)
        PROVE  CallShapes'
    BY <1>25, AskMoves, MovesKeepShapes DEF StagesOf
  <1>26. ASSUME NEW c \in Calls, AskForPlaceholders(c)
        PROVE  CallShapes'
    BY <1>26, AskMoves, MovesKeepShapes DEF StagesOf
  <1>27. ASSUME NEW c \in Calls, AskToSign(c)
        PROVE  CallShapes'
    BY <1>27, AskMoves, MovesKeepShapes DEF StagesOf
  <1>28. ASSUME NEW c \in Calls, NEW verdict \in Verdicts, Decide(c, verdict)
        PROVE  CallShapes'
    BY <1>28, DecideMoves, MovesKeepShapes DEF StagesOf, Decided
  <1>29. ASSUME NEW c \in Calls, NEW verdict \in Verdicts, DecideToSign(c, verdict)
        PROVE  CallShapes'
    BY <1>29, DecideToSignMoves, MovesKeepShapes DEF StagesOf, Decided
  <1>30. ASSUME NEW c \in Calls, Send(c)
        PROVE  CallShapes'
    BY <1>30, SendingMoves, MovesKeepShapes DEF StagesOf, Sent
  <1>31. ASSUME NEW c \in Calls, ExchangeToken(c)
        PROVE  CallShapes'
    BY <1>31, ExchangeMoves, MovesKeepShapes DEF StagesOf, Exchanged
  <1>32. ASSUME NEW c \in Calls, ClaimGrant(c)
        PROVE  CallShapes'
    <2>1. Claimed(c)
      BY <1>32, ClaimGrantMoves
    <2>2. CASE Moves(c, {"forward", "legacy"}, {"grant"}, {"exchange"}, {"grant"})
      BY <2>2, MovesKeepShapes DEF StagesOf
    <2>3. CASE Moves(c, {"forward", "legacy"}, {"grant"}, {"ask"}, {})
      BY <2>3, MovesKeepShapes DEF StagesOf
    <2> QED BY <2>1, <2>2, <2>3 DEF Claimed
  <1>33. ASSUME load' = load, calls' = calls
        PROVE  CallShapes'
    BY <1>33 DEF CallShapes, Shape
  <1> QED BY <1>1, <1>2, <1>3, <1>4, <1>5, <1>6, <1>7, <1>8, <1>9, <1>10,
           <1>11, <1>12, <1>13, <1>14, <1>15, <1>16, <1>17, <1>18, <1>19,
           <1>20, <1>21, <1>22, <1>23, <1>24, <1>25, <1>26, <1>27, <1>28,
           <1>29, <1>30, <1>31, <1>32, <1>33
          DEF Next, Edit, Tick, vars

-----------------------------------------------------------------------------
(* The steps of one request                                                *)

Early == {"auth", "count", "parse", "serve", "config", "value",
          "relay_config", "claim", "list", "project"}

(* A step that only prepares: nothing is asked, used or signed yet.        *)
Preparing(c) ==
    Moves(c, Kinds, Early, Early \cup {"done"},
          {"agents", "window", "counted", "late", "by", "name", "cred", "configs", "held",
           "leased", "live", "asOf"})

Asking(c) ==
    /\ Moves(c, {"forward", "legacy", "sign"}, {"ask"}, {"done", "wait"}, {"asked"})
    /\ Ask(c) \/ AskForPlaceholders(c) \/ AskToSign(c)

(* Every step of a request.                                                *)
Step(c) ==
    \/ \E req \in load.requests : Receive(c, req)
    \/ Preparing(c)
    \/ ReadValue(c) \/ ReadSigningValue(c) \/ ReadValues(c) \/ RelayGate(c)
    \/ ReadPolicy(c) \/ Evaluate(c) \/ ClaimGrant(c) \/ Asking(c)
    \/ \E verdict \in Verdicts : Decide(c, verdict) \/ DecideToSign(c, verdict)
    \/ ExchangeToken(c) \/ Send(c) \/ RetryWithOauth1(c) \/ Answer(c) \/ SignPayload(c)

\* A move may be said with less precision.
LEMMA Wider ==
    ASSUME NEW c, NEW kinds, NEW from, NEW to, NEW writes, Moves(c, kinds, from, to, writes),
           NEW kinds2, NEW from2, NEW to2, NEW writes2,
           kinds \subseteq kinds2, from \subseteq from2, to \subseteq to2,
           writes \subseteq writes2
    PROVE  Moves(c, kinds2, from2, to2, writes2)
  BY DEF Moves

\* What a move leaves alone, by name.
LEMMA MoveKeeps ==
    ASSUME NEW c, NEW kinds, NEW from, NEW to, NEW writes, Moves(c, kinds, from, to, writes),
           NEW f \in CallFields, f # "at", f \notin writes
    PROVE  calls'[c][f] = calls[c][f]
  BY DEF Moves

\* The steps that only prepare.
LEMMA PreparingSteps ==
    ASSUME CallShapes, NEW c \in Calls,
           \/ Authenticate(c) \/ AuthenticateSigner(c) \/ AuthenticateAgentFromHeaders(c)
           \/ RateLimit(c) \/ FindServingAgent(c) \/ FindSigningAgent(c)
           \/ ReadConfig(c) \/ ReadSigningConfig(c) \/ ParseRequest(c) \/ FindOwningAgents(c)
           \/ RelayConfig(c) \/ ClaimRelaySession(c) \/ ListSessions(c) \/ WriteAuthfile(c)
    PROVE  Preparing(c)
  <1>1. CASE Authenticate(c) \/ AuthenticateSigner(c) \/ AuthenticateAgentFromHeaders(c)
    BY <1>1, AuthenticateMoves, AuthenticateSignerMoves, AuthenticateAgentFromHeadersMoves, Wider
       DEF Preparing, Early, Kinds
  <1>2. CASE RateLimit(c)
    <2>1. Counted(c)
      BY <1>2, RateLimitMoves
    <2> QED BY <2>1, Wider DEF Counted, Preparing, Early, Kinds
  <1>3. CASE FindServingAgent(c) \/ FindSigningAgent(c)
    BY <1>3, FindServingAgentMoves, FindSigningAgentMoves, Wider DEF Preparing, Early, Kinds
  <1>4. CASE ReadConfig(c) \/ ReadSigningConfig(c)
    BY <1>4, ReadConfigMoves, ReadSigningConfigMoves, Wider DEF Preparing, Early, Kinds
  <1>5. CASE ParseRequest(c) \/ FindOwningAgents(c)
    BY <1>5, ParseRequestMoves, FindOwningAgentsMoves, Wider DEF Preparing, Early, Kinds
  <1>6. CASE RelayConfig(c) \/ ClaimRelaySession(c)
    BY <1>6, RelayConfigMoves, ClaimRelaySessionMoves, Wider DEF Preparing, Early, Kinds
  <1>7. CASE ListSessions(c) \/ WriteAuthfile(c)
    BY <1>7, ListSessionsMoves, WriteAuthfileMoves, Wider DEF Preparing, Early, Kinds
  <1> QED BY <1>1, <1>2, <1>3, <1>4, <1>5, <1>6, <1>7

\* The steps that ask.
LEMMA AskingSteps ==
    ASSUME CallShapes, NEW c \in Calls, Ask(c) \/ AskForPlaceholders(c) \/ AskToSign(c)
    PROVE  Asking(c)
  BY AskMoves, Wider DEF Asking

(* The operations of one request, as Next has them.                        *)
Act(c) ==
    \/ \E req \in load.requests : Receive(c, req)
    \/ Authenticate(c) \/ AuthenticateSigner(c) \/ AuthenticateAgentFromHeaders(c)
    \/ RateLimit(c)
    \/ FindServingAgent(c) \/ FindSigningAgent(c)
    \/ ReadConfig(c) \/ ReadSigningConfig(c) \/ ReadValue(c) \/ ReadSigningValue(c)
    \/ ParseRequest(c) \/ FindOwningAgents(c) \/ ReadValues(c)
    \/ RelayGate(c) \/ RelayConfig(c) \/ ClaimRelaySession(c)
    \/ ListSessions(c) \/ WriteAuthfile(c)
    \/ ReadPolicy(c) \/ Evaluate(c) \/ ClaimGrant(c)
    \/ Ask(c) \/ AskForPlaceholders(c) \/ AskToSign(c)
    \/ \E verdict \in Verdicts : Decide(c, verdict) \/ DecideToSign(c, verdict)
    \/ ExchangeToken(c) \/ Send(c) \/ RetryWithOauth1(c) \/ Answer(c) \/ SignPayload(c)

\* An operation of a request is a step of it, and leaves the others alone.
LEMMA ActIsStep ==
    ASSUME CallShapes, NEW c \in Calls, Act(c)
    PROVE  Step(c)
  <1>1. CASE \/ Authenticate(c) \/ AuthenticateSigner(c) \/ AuthenticateAgentFromHeaders(c)
             \/ RateLimit(c) \/ FindServingAgent(c) \/ FindSigningAgent(c)
             \/ ReadConfig(c) \/ ReadSigningConfig(c) \/ ParseRequest(c) \/ FindOwningAgents(c)
             \/ RelayConfig(c) \/ ClaimRelaySession(c) \/ ListSessions(c) \/ WriteAuthfile(c)
    BY <1>1, PreparingSteps DEF Step
  <1>2. CASE Ask(c) \/ AskForPlaceholders(c) \/ AskToSign(c)
    BY <1>2, AskingSteps DEF Step
  <1>3. CASE \/ \E req \in load.requests : Receive(c, req)
             \/ ReadValue(c) \/ ReadSigningValue(c) \/ ReadValues(c) \/ RelayGate(c)
             \/ ReadPolicy(c) \/ Evaluate(c) \/ ClaimGrant(c)
             \/ \E verdict \in Verdicts : Decide(c, verdict) \/ DecideToSign(c, verdict)
             \/ ExchangeToken(c) \/ Send(c) \/ RetryWithOauth1(c) \/ Answer(c) \/ SignPayload(c)
    BY <1>3 DEF Step
  <1> QED BY <1>1, <1>2, <1>3 DEF Act

\* Every step of the whole is an operation of one request, or of none.
LEMMA ActsOrNot ==
    ASSUME [Next]_vars
    PROVE  \/ \E c \in Calls : Act(c)
           \/ load' = load /\ calls' = calls
  <1>1. (\E e \in edits : Edit(e)) \/ Tick \/ UNCHANGED vars => load' = load /\ calls' = calls
    BY DEF Edit, Tick, vars
  <1>2. Next => (\E c \in Calls : Act(c)) \/ (\E e \in edits : Edit(e)) \/ Tick
    BY DEF Next, Act
  <1> QED BY <1>1, <1>2

\* So it is a step of one request, or of none.
LEMMA StepsOfOne ==
    ASSUME CallShapes, [Next]_vars
    PROVE  \/ \E c \in Calls : Step(c)
           \/ load' = load /\ calls' = calls
  BY ActIsStep, ActsOrNot

\* A step of one request leaves the others and the load alone.
LEMMA OthersStay ==
    ASSUME CallShapes, NEW c \in Calls, Step(c)
    PROVE  load' = load /\ \A d \in Calls \ {c} : calls'[d] = calls[d]
  <1>1. CASE \E req \in load.requests : Receive(c, req)
    BY <1>1, ReceiveMoves
  <1>2. CASE Preparing(c) \/ Asking(c)
    BY <1>2 DEF Preparing, Asking, Moves
  <1>3. CASE ReadValue(c) \/ ReadSigningValue(c) \/ ReadValues(c) \/ RelayGate(c)
    BY <1>3, ReadValueMoves, ReadSigningValueMoves, ReadValuesMoves, RelayGateMoves DEF Moves
  <1>4. CASE ReadPolicy(c) \/ Evaluate(c) \/ ClaimGrant(c)
    BY <1>4, ReadPolicyMoves, EvaluateMoves, ClaimGrantMoves DEF Moves, PolicyRead, Claimed
  <1>5. CASE \E verdict \in Verdicts : Decide(c, verdict) \/ DecideToSign(c, verdict)
    BY <1>5, DecideMoves, DecideToSignMoves DEF Moves, Decided
  <1>6. CASE ExchangeToken(c) \/ Send(c) \/ RetryWithOauth1(c) \/ Answer(c) \/ SignPayload(c)
    BY <1>6, ExchangeMoves, SendingMoves, RetryWithOauth1Moves, AnswerMoves, SignPayloadMoves
       DEF Moves, Sent, Exchanged
  <1> QED BY <1>1, <1>2, <1>3, <1>4, <1>5, <1>6 DEF Step

\* What changes a request is an operation of it.
LEMMA OwnStep ==
    ASSUME CallShapes, [Next]_vars, NEW c \in Calls, calls'[c] # calls[c]
    PROVE  Act(c)
  <1>1. PICK d \in Calls : Act(d)
    BY ActsOrNot
  <1>2. \A e \in Calls \ {d} : calls'[e] = calls[e]
    BY <1>1, ActIsStep, OthersStay
  <1> QED BY <1>1, <1>2

(* The policy is read and evaluated, and a grant or a human decides.       *)
Deciding(c) ==
    Moves(c, {"forward", "legacy", "sign"}, {"policy", "mode", "grant", "ask", "wait"},
          {"mode", "grant", "ask", "wait", "exchange", "sign", "done"},
          {"policy", "failed", "guard", "reason", "grant", "asked", "verdict", "audit"})

(* The credential is used upstream.                                        *)
Using(c) ==
    Moves(c, {"forward", "legacy"}, {"exchange", "send", "retry", "answer"},
          {"send", "retry", "answer", "done"}, {"token", "audit", "sent", "response", "answer"})

\* The steps that decide.
LEMMA DecidingSteps ==
    ASSUME CallShapes, NEW c \in Calls,
           \/ ReadPolicy(c) \/ Evaluate(c) \/ ClaimGrant(c)
           \/ Ask(c) \/ AskForPlaceholders(c) \/ AskToSign(c)
           \/ \E verdict \in Verdicts : Decide(c, verdict) \/ DecideToSign(c, verdict)
    PROVE  Deciding(c)
  <1>1. CASE ReadPolicy(c)
    BY <1>1, ReadPolicyMoves, Wider DEF PolicyRead, Deciding
  <1>2. CASE Evaluate(c)
    BY <1>2, EvaluateMoves, Wider DEF Deciding
  <1>3. CASE ClaimGrant(c)
    <2>1. Claimed(c)
      BY <1>3, ClaimGrantMoves
    <2>2. CASE Moves(c, {"forward", "legacy"}, {"grant"}, {"exchange"}, {"grant"})
      BY <2>2, Wider DEF Deciding
    <2>3. CASE Moves(c, {"forward", "legacy"}, {"grant"}, {"ask"}, {})
      BY <2>3, Wider DEF Deciding
    <2> QED BY <2>1, <2>2, <2>3 DEF Claimed
  <1>4. CASE Ask(c) \/ AskForPlaceholders(c) \/ AskToSign(c)
    BY <1>4, AskMoves, Wider DEF Deciding
  <1>5. CASE \E verdict \in Verdicts : Decide(c, verdict) \/ DecideToSign(c, verdict)
    <2>1. Decided(c, {"forward", "legacy"}, "exchange") \/ Decided(c, {"sign"}, "sign")
      BY <1>5, DecideMoves, DecideToSignMoves
    <2> QED BY <2>1, Wider DEF Decided, Deciding
  <1> QED BY <1>1, <1>2, <1>3, <1>4, <1>5

\* The steps that use it.
LEMMA UsingSteps ==
    ASSUME CallShapes, NEW c \in Calls,
           ExchangeToken(c) \/ Send(c) \/ RetryWithOauth1(c) \/ Answer(c)
    PROVE  Using(c)
  <1>1. CASE ExchangeToken(c)
    BY <1>1, ExchangeMoves, Wider DEF Exchanged, Using
  <1>2. CASE Send(c)
    BY <1>2, SendingMoves, Wider DEF Sent, Using
  <1>3. CASE RetryWithOauth1(c)
    BY <1>3, RetryWithOauth1Moves, Wider DEF Using
  <1>4. CASE Answer(c)
    BY <1>4, AnswerMoves, Wider DEF Using
  <1> QED BY <1>1, <1>2, <1>3, <1>4

-----------------------------------------------------------------------------
(* What has not happened yet                                               *)

Blank(c) ==
    /\ calls[c].at \notin {"retry", "answer", "done"} =>
           calls[c].sent = {} /\ calls[c].response = NoValue
    /\ calls[c].at # "done" => calls[c].signed = FALSE /\ calls[c].audit = "none"
    /\ calls[c].at \in Early \cup {"idle", "relay", "policy", "mode", "grant", "ask"} =>
           calls[c].asked = NoValue
    /\ calls[c].at \in Early \cup {"idle", "relay", "policy", "mode", "grant", "ask", "wait"} =>
           calls[c].verdict = "none" /\ calls[c].grant \in BOOLEAN
    /\ calls[c].at \notin {"send", "retry", "answer", "done"} => calls[c].token = NoOne
    /\ calls[c].at \in Early \cup {"idle", "relay", "policy", "mode", "grant"} =>
           calls[c].grant = FALSE
    /\ calls[c].at \in Early \cup {"idle", "relay", "policy"} =>
           calls[c].policy = NoPolicy /\ calls[c].failed = FALSE /\ calls[c].guard = NoValue

\* A request that has not come yet has nothing.
LEMMA FreshIsBlank ==
    ASSUME NEW c, calls[c] = Fresh
    PROVE  Blank(c)
  <1>1. /\ Fresh.sent = {} /\ Fresh.response = NoValue /\ Fresh.signed = FALSE
        /\ Fresh.audit = "none" /\ Fresh.asked = NoValue /\ Fresh.verdict = "none"
        /\ Fresh.token = NoOne /\ Fresh.grant = FALSE /\ Fresh.policy = NoPolicy
        /\ Fresh.failed = FALSE /\ Fresh.guard = NoValue
    BY DEF Fresh
  <1> QED BY <1>1 DEF Blank

\* Its own step.
LEMMA StepKeepsBlank ==
    ASSUME CallShapes, NEW c \in Calls, Blank(c), Step(c)
    PROVE  Blank(c)'
  <1>1. CASE \E req \in load.requests : Receive(c, req)
    <2>1. PICK req \in load.requests : Receive(c, req)
      BY <1>1
    <2>2. /\ calls[c] = Fresh /\ calls'[c].at = "auth"
          /\ \A f \in CallFields \ {"at", "req"} : calls'[c][f] = calls[c][f]
      BY <2>1, ReceiveMoves
    <2>3. calls[c].at = "idle"
      BY <2>2, FreshShape
    <2> QED BY <2>2, <2>3, FieldNames DEF Blank, Early
  <1>2. CASE Preparing(c)
    BY <1>2, FieldNames DEF Preparing, Moves, Blank, Early
  <1>3. CASE ReadValue(c) \/ ReadSigningValue(c) \/ ReadValues(c) \/ RelayGate(c)
    BY <1>3, ReadValueMoves, ReadSigningValueMoves, ReadValuesMoves, RelayGateMoves, FieldNames
       DEF Moves, Blank, Early
  <1>4. CASE ReadPolicy(c)
    BY <1>4, ReadPolicyMoves, FieldNames DEF Moves, PolicyRead, Blank, Early
  <1>5. CASE Evaluate(c)
    BY <1>5, EvaluateMoves, FieldNames DEF Moves, Blank, Early
  <1>6. CASE ClaimGrant(c)
    BY <1>6, ClaimGrantMoves, FieldNames DEF Claimed, Moves, Blank, Early
  <1>7. CASE Asking(c)
    BY <1>7, FieldNames DEF Asking, Moves, Blank, Early
  <1>8. CASE \E verdict \in Verdicts : Decide(c, verdict) \/ DecideToSign(c, verdict)
    <2>1. Decided(c, {"forward", "legacy"}, "exchange") \/ Decided(c, {"sign"}, "sign")
      BY <1>8, DecideMoves, DecideToSignMoves
    <2> QED BY <2>1, FieldNames DEF Decided, Moves, Blank, Early
  <1>9. CASE ExchangeToken(c)
    BY <1>9, ExchangeMoves, FieldNames DEF Exchanged, Moves, Blank, Early
  <1>10. CASE Send(c)
    BY <1>10, SendingMoves, FieldNames DEF Sent, Moves, Blank, Early
  <1>11. CASE RetryWithOauth1(c) \/ Answer(c) \/ SignPayload(c)
    BY <1>11, RetryWithOauth1Moves, AnswerMoves, SignPayloadMoves, FieldNames
       DEF Moves, Blank, Early
  <1> QED BY <1>1, <1>2, <1>3, <1>4, <1>5, <1>6, <1>7, <1>8, <1>9, <1>10, <1>11 DEF Step

\* The shapes and what is blank, together.
LEMMA StepsKeepBlank ==
    ASSUME CallShapes, \A c \in Calls : Blank(c), [Next]_vars
    PROVE  \A c \in Calls : Blank(c)'
  <1>1. CASE \E c \in Calls : Step(c)
    <2>1. PICK c \in Calls : Step(c)
      BY <1>1
    <2>2. Blank(c)'
      BY <2>1, StepKeepsBlank
    <2>3. \A d \in Calls \ {c} : calls'[d] = calls[d]
      BY <2>1, OthersStay
    <2>4. \A d \in Calls \ {c} : Blank(d)'
      BY <2>3 DEF Blank
    <2> QED BY <2>2, <2>4
  <1>2. CASE calls' = calls
    BY <1>2 DEF Blank
  <1> QED BY <1>1, <1>2, StepsOfOne

-----------------------------------------------------------------------------
(* The gate of a human's word                                              *)

Routed == {"relay", "policy", "mode", "grant", "ask", "wait",
           "exchange", "send", "retry", "answer"}

(* A route that is shown as the target and leads there, but for a sidecar. *)
Leads(route, target) ==
    route.shown = target /\ (route.scheme # "sidecar" => route.to = target.host)

(* What the policy is matched with is the target, unless that is a path.   *)
Shown(c) ==
    /\ calls[c].at \in Routed /\ calls[c].req.kind \in {"forward", "legacy"}
    /\ calls[c].req.target.host # NoHost
    => Leads(calls[c].route, calls[c].req.target)

(* What a secret that nobody was asked about has to satisfy.               *)
Unasked(c) ==
    LET call == calls[c] IN
        /\ call.policy # NoPolicy /\ call.req.target.host # NoHost =>
               /\ ~MatchesAny(call.req.target, call.policy.requireUrls)
               /\ call.grant => ~call.policy.passkey
        /\ call.policy = NoPolicy /\ ~call.failed /\ ~call.grant
           /\ load.modes[PolicyKey(c)[1]] = "gated" => call.req.method \in {"GET", "HEAD"}

Gate(c) ==
    LET call == calls[c] IN
        /\ Shown(c)
        /\ call.at = "grant" /\ call.policy # NoPolicy /\ call.req.target.host # NoHost =>
               ~MatchesAny(call.req.target, call.policy.requireUrls) /\ ~call.policy.passkey
        /\ call.at \in {"exchange", "send", "retry", "answer"} =>
               call.verdict = "approved" \/ Unasked(c)
        /\ call.at = "done" /\ call.sent # {} => call.verdict = "approved" \/ Unasked(c)
        /\ call.at = "sign" \/ call.signed = TRUE => call.verdict = "approved"

(* The lookup of a policy goes by what is settled before it.               *)
Settled(c) ==
    /\ load' = load
    /\ \A f \in {"req", "agents", "by", "name", "held"} : calls'[c][f] = calls[c][f]

\* So it stays the same.
LEMMA PolicyKeyStays ==
    ASSUME NEW c, Settled(c)
    PROVE  PolicyKey(c)' = PolicyKey(c)
  <1>1. /\ load' = load /\ calls'[c].req = calls[c].req /\ calls'[c].agents = calls[c].agents
        /\ calls'[c].by = calls[c].by /\ calls'[c].name = calls[c].name
        /\ calls'[c].held = calls[c].held
    BY DEF Settled
  <1> QED BY <1>1 DEF PolicyKey, Kind, Key, Team, Agent, Primary

\* And so does what was found about an unasked request.
LEMMA UnaskedStays ==
    ASSUME NEW c, Settled(c), calls'[c].policy = calls[c].policy,
           calls'[c].grant = calls[c].grant, calls'[c].failed = calls[c].failed,
           Unasked(c)
    PROVE  Unasked(c)'
  <1>1. PolicyKey(c)' = PolicyKey(c)
    BY PolicyKeyStays
  <1>2. calls'[c].req = calls[c].req /\ load' = load
    BY DEF Settled
  <1> QED BY <1>1, <1>2 DEF Unasked

\* A move that writes none of these leaves them as they are.
LEMMA MoveSettles ==
    ASSUME NEW c, NEW kinds, NEW from, NEW to, NEW writes, Moves(c, kinds, from, to, writes),
           writes \cap {"req", "agents", "by", "name", "held"} = {}
    PROVE  Settled(c)
  <1>1. {"req", "agents", "by", "name", "held"} \subseteq CallFields \ ({"at"} \cup writes)
    BY FieldNames
  <1> QED BY <1>1 DEF Moves, Settled

\* The unified route shows the target and leads there.
LEMMA UnifiedShows ==
    ASSUME NEW cred, NEW value, NEW target, NEW method, NEW mode,
           ResolveUnifiedRoute(cred, value, target, method, mode).error = "none",
           target.host # NoHost
    PROVE  Leads(ResolveUnifiedRoute(cred, value, target, method, mode), target)
  BY DEF ResolveUnifiedRoute, Route, DisplayTarget, Leads

\* The steps that route.
LEMMA RoutingShows ==
    ASSUME CallShapes, NEW c \in Calls, ReadValue(c) \/ ReadValues(c)
    PROVE  Shown(c)'
  <1>1. CASE ReadValue(c)
    <2>1. Moves(c, {"forward"}, {"value"}, {"done", "relay", "policy"}, {"value", "route"})
      BY <1>1, ReadValueMoves
    <2> DEFINE r == ResolveUnifiedRoute(calls[c].cred, StoredValue(Key(c)), calls[c].req.target,
                                        calls[c].req.method, calls[c].req.mode)
    <2>2. CASE Refuse(c)
      <3>1. calls'[c].at = "done"
        BY <2>2, KindByStage, FieldNames DEF Refuse, CallShapes
      <3> QED BY <3>1 DEF Shown, Routed
    <2>3. CASE ~Refuse(c)
      <3>1. PICK t : /\ Takes(c, [calls[c] EXCEPT !.at = t, !.value = StoredValue(Key(c)),
                                                  !.route = r])
                     /\ r.error = "none"
        BY <1>1, <2>3 DEF ReadValue
      <3>2. PICK w : Takes(c, w) /\ w = [calls[c] EXCEPT !.at = t, !.value = StoredValue(Key(c)),
                                                          !.route = r]
        BY <3>1
      <3> HIDE DEF r
      <3>3. w.route = r
        BY <3>2, KindByStage, FieldNames
      <3>4. calls'[c].route = r
        BY <3>2, <3>3, Taken
      <3>5. calls[c].req.target.host # NoHost => Leads(r, calls[c].req.target)
        BY <3>1, UnifiedShows DEF r
      <3>6. calls'[c].req = calls[c].req
        BY <2>1, FieldNames DEF Moves
      <3> QED BY <3>4, <3>5, <3>6 DEF Shown
    <2> QED BY <2>2, <2>3
  <1>2. CASE ReadValues(c)
    <2>1. Moves(c, {"legacy"}, {"value"}, {"done", "policy"}, {"name", "held", "route"})
      BY <1>2, ReadValuesMoves
    <2>2. CASE Refuse(c)
      <3>1. calls'[c].at = "done"
        BY <2>2, KindByStage, FieldNames DEF Refuse, CallShapes
      <3> QED BY <3>1 DEF Shown, Routed
    <2>3. CASE ~Refuse(c)
      <3> DEFINE n == IF DOMAIN CredNames(calls[c].req) = {} THEN << >>
                      ELSE First(CredNames(calls[c].req))
                 h == [x \in DOMAIN calls[c].held |->
                          [key |-> calls[c].held[x], value |-> StoredValue(calls[c].held[x])]]
                 r == Route("none", "direct", calls[c].req.target.host, calls[c].req.target, {})
                 w == [calls[c] EXCEPT !.at = "policy", !.name = n, !.held = h, !.route = r]
      <3>1. Takes(c, w)
        BY <1>2, <2>3 DEF ReadValues
      <3>2. Leads(r, calls[c].req.target)
        BY DEF Route, Leads
      <3> HIDE DEF n, h, r
      <3>3. w.route = r
        BY KindByStage, FieldNames
      <3> HIDE DEF w
      <3>5. Leads(calls'[c].route, calls[c].req.target)
        BY <3>1, <3>2, <3>3, Taken
      <3>4. calls'[c].req = calls[c].req
        BY <2>1, FieldNames DEF Moves
      <3> QED BY <3>4, <3>5 DEF Shown
    <2> QED BY <2>2, <2>3
  <1> QED BY <1>1, <1>2

\* What the evaluation finds, it finds of the target.
LEMMA EvaluationGates ==
    ASSUME CallShapes, NEW c \in Calls, Blank(c), Gate(c), Evaluate(c)
    PROVE  Gate(c)'
  <1>1. Moves(c, {"forward", "legacy"}, {"mode"}, {"exchange", "grant", "ask"}, {"reason"})
    BY EvaluateMoves
  <1>2. /\ calls[c].at = "mode" /\ calls[c].req.kind \in {"forward", "legacy"}
        /\ calls'[c].at \in {"exchange", "grant", "ask"}
        /\ calls'[c].policy = calls[c].policy /\ calls'[c].grant = calls[c].grant
        /\ calls'[c].failed = calls[c].failed /\ calls'[c].req = calls[c].req
        /\ calls'[c].route = calls[c].route /\ calls'[c].signed = calls[c].signed
        /\ calls'[c].verdict = calls[c].verdict
    BY <1>1, FieldNames DEF Moves
  <1>3. calls[c].grant = FALSE /\ calls[c].signed = FALSE
    BY <1>2 DEF Blank
  <1>4. Settled(c)
    BY <1>1, MoveSettles
  <1> DEFINE E(mode) == EvaluatePolicyWithDefault(calls[c].req.method, calls[c].policy,
                                                  calls[c].route.shown, mode)
             next(x) == IF x \in AutoApproveReasons THEN "exchange"
                        ELSE IF GrantEligible(calls[c].policy, x) THEN "grant" ELSE "ask"
             team == load.modes[PolicyKey(c)[1]]
  <1>5. PICK mode : /\ mode \in {"gated", team}
                    /\ Takes(c, [calls[c] EXCEPT !.reason = E(mode), !.at = next(E(mode))])
    BY DEF Evaluate, May
  <1>6. calls'[c].at = next(E(mode))
    <2> HIDE DEF next, E
    <2>1. PICK w : Takes(c, w) /\ w = [calls[c] EXCEPT !.reason = E(mode), !.at = next(E(mode))]
      BY <1>5
    <2>2. w.at = next(E(mode))
      BY <2>1, KindByStage, FieldNames
    <2> QED BY <2>1, <2>2, Taken
  <1>7. calls[c].req.target.host # NoHost => Leads(calls[c].route, calls[c].req.target)
    BY <1>2 DEF Gate, Shown, Routed
  <1>8. calls'[c].at \in {"exchange", "grant"} /\ calls[c].policy # NoPolicy =>
            ~MatchesAny(calls[c].route.shown, calls[c].policy.requireUrls)
    BY <1>6 DEF EvaluatePolicyWithDefault, AutoApproveReasons, GrantEligible
  <1>9. calls'[c].at = "grant" /\ calls[c].policy # NoPolicy => ~calls[c].policy.passkey
    BY <1>6 DEF GrantEligible
  <1>10. calls'[c].at = "exchange" /\ calls[c].policy = NoPolicy /\ team = "gated" =>
             calls[c].req.method \in {"GET", "HEAD"}
    BY <1>5, <1>6 DEF EvaluatePolicyWithDefault, AutoApproveReasons, GrantEligible
  <1>11. calls'[c].at = "exchange" => Unasked(c)'
    <2>1. calls'[c].at = "exchange" => Unasked(c)
      BY <1>3, <1>7, <1>8, <1>10 DEF Unasked, Leads
    <2> QED BY <2>1, <1>2, <1>4, UnaskedStays
  <1>12. Shown(c)'
    BY <1>2, <1>7 DEF Shown
  <1> QED BY <1>2, <1>3, <1>7, <1>8, <1>9, <1>11, <1>12 DEF Gate, Leads

\* A step of a request keeps what is found of it.
LEMMA StepKeepsGate ==
    ASSUME CallShapes, NEW c \in Calls, Blank(c), Gate(c), Step(c)
    PROVE  Gate(c)'
  <1>1. CASE \E req \in load.requests : Receive(c, req)
    <2>1. PICK req \in load.requests : Receive(c, req)
      BY <1>1
    <2>2. /\ calls[c] = Fresh /\ calls'[c].at = "auth"
          /\ \A f \in CallFields \ {"at", "req"} : calls'[c][f] = calls[c][f]
      BY <2>1, ReceiveMoves
    <2>3. calls[c].at = "idle"
      BY <2>2, FreshShape
    <2> QED BY <2>2, <2>3, FieldNames DEF Blank, Gate, Shown, Routed, Early
  <1>2. CASE Preparing(c)
    BY <1>2, FieldNames DEF Preparing, Moves, Blank, Gate, Shown, Routed, Early
  <1>3. CASE ReadValue(c) \/ ReadValues(c)
    <2>1. Shown(c)'
      BY <1>3, RoutingShows
    <2> QED BY <1>3, <2>1, ReadValueMoves, ReadValuesMoves, FieldNames DEF Moves, Blank, Gate, Early
  <1>4. CASE ReadSigningValue(c)
    BY <1>4, ReadSigningValueMoves, FieldNames DEF Moves, Blank, Gate, Shown, Early
  <1>5. CASE RelayGate(c)
    BY <1>5, RelayGateMoves, FieldNames DEF Moves, Blank, Gate, Shown, Routed, Early
  <1>6. CASE ReadPolicy(c)
    BY <1>6, ReadPolicyMoves, FieldNames DEF Moves, PolicyRead, Blank, Gate, Shown, Routed, Early
  <1>7. CASE Evaluate(c)
    BY <1>7, EvaluationGates
  <1>8. CASE ClaimGrant(c)
    <2>1. Claimed(c)
      BY <1>8, ClaimGrantMoves
    <2>2. calls'[c].at = "exchange" => Unasked(c)'
      BY <2>1, FieldNames DEF Claimed, Moves, Gate, Unasked
    <2> QED BY <2>1, <2>2, FieldNames DEF Claimed, Moves, Blank, Gate, Shown, Routed, Early
  <1>9. CASE Asking(c)
    BY <1>9, FieldNames DEF Asking, Moves, Blank, Gate, Shown, Routed, Early
  <1>10. CASE \E verdict \in Verdicts : Decide(c, verdict) \/ DecideToSign(c, verdict)
    <2>1. Decided(c, {"forward", "legacy"}, "exchange") \/ Decided(c, {"sign"}, "sign")
      BY <1>10, DecideMoves, DecideToSignMoves
    <2> QED BY <2>1, FieldNames DEF Decided, Moves, Blank, Gate, Shown, Routed, Early
  <1>11. CASE ExchangeToken(c) \/ Send(c) \/ RetryWithOauth1(c) \/ Answer(c)
    <2>1. Using(c)
      BY <1>11, UsingSteps
    <2>2. /\ calls'[c].policy = calls[c].policy /\ calls'[c].grant = calls[c].grant
          /\ calls'[c].failed = calls[c].failed /\ calls'[c].verdict = calls[c].verdict
          /\ calls'[c].route = calls[c].route /\ calls'[c].req = calls[c].req
          /\ calls'[c].signed = calls[c].signed
          /\ calls[c].at \in {"exchange", "send", "retry", "answer"}
          /\ calls'[c].at \in {"send", "retry", "answer", "done"}
      BY <2>1, FieldNames DEF Using, Moves
    <2>3. Settled(c)
      BY <2>1, MoveSettles DEF Using
    <2>4. Unasked(c) => Unasked(c)'
      BY <2>2, <2>3, UnaskedStays
    <2> QED BY <2>2, <2>4 DEF Blank, Gate, Shown, Routed
  <1>12. CASE SignPayload(c)
    BY <1>12, SignPayloadMoves, FieldNames DEF Moves, Blank, Gate, Shown, Routed
  <1> QED BY <1>1, <1>2, <1>3, <1>4, <1>5, <1>6, <1>7, <1>8, <1>9, <1>10, <1>11, <1>12 DEF Step

\* What is found of a request depends on it and on the load only.
LEMMA GateStays ==
    ASSUME NEW c, load' = load, calls'[c] = calls[c], Gate(c)
    PROVE  Gate(c)'
  <1>1. Unasked(c) => Unasked(c)'
    BY UnaskedStays DEF Settled
  <1> QED BY <1>1 DEF Gate, Shown

GateInv == CallShapes /\ \A c \in Calls : Blank(c) /\ Gate(c)

\* The shapes, what is blank and what is found of each request are inductive.
THEOREM GateFactsHold == Spec => []GateInv
  <1>1. ASSUME Init PROVE GateInv
    <2>1. CallShapes
      BY <1>1, InitShapes
    <2>2. ASSUME NEW c \in Calls PROVE Blank(c) /\ Gate(c)
      <3>1. calls[c] = Fresh /\ Fresh.at = "idle" /\ Fresh.signed = FALSE
        BY <1>1 DEF Init, Fresh
      <3> QED BY <3>1, FreshIsBlank DEF Gate, Shown, Routed
    <2> QED BY <2>1, <2>2 DEF GateInv
  <1>2. ASSUME GateInv, [Next]_vars PROVE GateInv'
    <2>1. CallShapes' /\ \A c \in Calls : Blank(c)'
      BY <1>2, StepsKeepShapes, StepsKeepBlank DEF GateInv
    <2>2. ASSUME NEW d \in Calls PROVE Gate(d)'
      <3>1. CASE \E c \in Calls : Step(c)
        <4>1. PICK c \in Calls : Step(c)
          BY <3>1
        <4>2. CASE d = c
          BY <1>2, <4>1, <4>2, StepKeepsGate DEF GateInv
        <4>3. CASE d # c
          BY <1>2, <4>1, <4>3, OthersStay, GateStays DEF GateInv
        <4> QED BY <4>2, <4>3
      <3>2. CASE load' = load /\ calls' = calls
        BY <1>2, <3>2, GateStays DEF GateInv
      <3> QED BY <1>2, <3>1, <3>2, StepsOfOne DEF GateInv
    <2> QED BY <2>1, <2>2 DEF GateInv
  <1> QED BY <1>1, <1>2, PTL DEF Spec

\* A secret that is used without a human's word was under no gate of the policy
\* that was read for the request (evaluate_policy, grant_eligible and claim_grant of
\* the forward paths, and handle_sign, which always asks): nothing is said of a
\* policy that could not be read, of those of further placeholders, or of a path.
THEOREM GateIsKept == Spec => []HumanGateHolds
  <1>1. GateInv => HumanGateHolds
    <2> SUFFICES ASSUME GateInv, NEW c \in Calls, Used(c), calls[c].verdict # "approved"
                 PROVE  ~calls[c].signed /\ Unasked(c)
      BY DEF HumanGateHolds, Unasked
    <2>1. Blank(c) /\ Gate(c)
      BY DEF GateInv
    <2>2. ~calls[c].signed
      BY <2>1 DEF Gate
    <2>3. calls[c].sent # {}
      BY <2>2 DEF Used
    <2> QED BY <2>1, <2>2, <2>3 DEF Blank, Gate
  <1> QED BY <1>1, GateFactsHold, PTL

-----------------------------------------------------------------------------
(* Keys                                                                    *)

(* The stages of a request that has the key it is served with.             *)
Bound == {"config", "value", "relay", "claim", "list", "project", "policy", "mode", "grant",
          "ask", "wait", "exchange", "send", "retry", "answer", "sign"}

Keys(c) ==
    LET call == calls[c] IN
        /\ DOMAIN call.agents \subseteq Nat /\ \E n \in Nat : DOMAIN call.agents \subseteq 1 .. n
        /\ \A i \in DOMAIN call.agents : Valid(call.agents[i])
        /\ call.at \notin {"idle", "auth", "done"} => DOMAIN call.agents # {}
        /\ call.by # NoOne => \E i \in DOMAIN call.agents : call.by = call.agents[i]
        /\ call.at \in Bound /\ call.req.kind # "legacy" => call.by # NoOne
        /\ call.at \in {"idle", "auth"} => call.by = NoOne
        /\ call.window \in Windows

(* The clock and what is counted down.                                     *)
Limits ==
    /\ clock \in 0 .. MaxTime
    /\ uses \in 0 .. load.uses
    /\ edits \subseteq load.edits

\* Windows follow the clock.
LEMMA WindowOfClock ==
    ASSUME NEW t \in 0 .. MaxTime
    PROVE  t \div WindowLength \in Windows
  <1> DEFINE q == t \div WindowLength
             m == MaxTime \div WindowLength
  <1>1. WindowLength \in Nat \ {0} /\ MaxTime \in Nat /\ t \in Nat /\ t <= MaxTime
    BY AdmissionAssumption
  <1>2. /\ q \in Nat /\ m \in Nat
        /\ WindowLength * q <= t /\ MaxTime < WindowLength * m + WindowLength
    BY <1>1
  <1>3. q >= m + 1 => WindowLength * q >= WindowLength * (m + 1)
    <2> HIDE DEF q, m
    <2> QED BY <1>1, <1>2
  <1>4. WindowLength * (m + 1) = WindowLength * m + WindowLength
    <2> HIDE DEF q, m
    <2> QED BY <1>1, <1>2
  <1>5. ~(q >= m + 1)
    <2> HIDE DEF q, m
    <2> QED BY <1>1, <1>2, <1>3, <1>4
  <1>6. q \in 0 .. m
    <2> HIDE DEF q, m
    <2> QED BY <1>2, <1>5
  <1> QED BY <1>6 DEF Windows

\* Most of the steps touch nothing but their own request.
LEMMA SharedSteps ==
    ASSUME [Next]_vars
    PROVE  \/ UNCHANGED Shared
           \/ \E c \in Calls : \/ RateLimit(c) \/ FindServingAgent(c) \/ FindSigningAgent(c)
                              \/ ClaimRelaySession(c) \/ WriteAuthfile(c) \/ ClaimGrant(c)
           \/ \E e \in edits : Edit(e)
           \/ Tick
  <1>1. ASSUME NEW c \in Calls,
               \/ \E req \in load.requests : Receive(c, req)
               \/ Authenticate(c) \/ AuthenticateSigner(c) \/ AuthenticateAgentFromHeaders(c)
               \/ ReadConfig(c) \/ ReadSigningConfig(c) \/ ReadValue(c) \/ ReadSigningValue(c)
               \/ ParseRequest(c) \/ FindOwningAgents(c) \/ ReadValues(c)
               \/ RelayGate(c) \/ RelayConfig(c) \/ ListSessions(c)
        PROVE  UNCHANGED Shared
    BY <1>1 DEF Receive, Authenticate, AuthenticateSigner, AuthenticateAgentFromHeaders,
          ReadConfig, ReadSigningConfig, ReadValue, ReadSigningValue, ParseRequest,
          FindOwningAgents, ReadValues, RelayGate, RelayConfig, ListSessions
  <1>2. ASSUME NEW c \in Calls,
               \/ ReadPolicy(c) \/ Evaluate(c)
               \/ Ask(c) \/ AskForPlaceholders(c) \/ AskToSign(c)
               \/ \E verdict \in Verdicts : Decide(c, verdict) \/ DecideToSign(c, verdict)
               \/ ExchangeToken(c) \/ Send(c) \/ RetryWithOauth1(c) \/ Answer(c) \/ SignPayload(c)
        PROVE  UNCHANGED Shared
    BY <1>2 DEF ReadPolicy, Evaluate, Ask, AskForPlaceholders, AskToSign, Decide, DecideToSign,
          ExchangeToken, Send, RetryWithOauth1, Answer, SignPayload
  <1> QED BY <1>1, <1>2 DEF Next, Shared, vars

\* The limits are kept.
LEMMA StepsKeepLimits ==
    ASSUME load \in Loads, Limits, [Next]_vars
    PROVE  Limits'
  <1>1. load.until \in 0 .. MaxTime /\ load.uses \in Nat /\ MaxTime \in Nat
    BY LoadAssumption, AdmissionAssumption
  <1>2. ASSUME NEW c \in Calls, ClaimGrant(c) PROVE Limits'
    <2>1. load' = load /\ clock' = clock /\ edits' = edits
          /\ (uses' = uses \/ (uses > 0 /\ uses' = uses - 1))
      BY <1>2 DEF ClaimGrant, UsesLeft
    <2> QED BY <1>1, <2>1 DEF Limits
  <1>3. CASE Tick
    BY <1>1, <1>3 DEF Tick, Limits
  <1>4. ASSUME NEW e \in edits, Edit(e) PROVE Limits'
    BY <1>4 DEF Edit, Limits
  <1>5. ASSUME UNCHANGED <<load, clock, uses, edits>> PROVE Limits'
    BY <1>5 DEF Limits
  <1>6. ASSUME NEW c \in Calls,
               \/ RateLimit(c) \/ FindServingAgent(c) \/ FindSigningAgent(c)
               \/ ClaimRelaySession(c) \/ WriteAuthfile(c)
        PROVE  UNCHANGED <<load, clock, uses, edits>>
    BY <1>6 DEF RateLimit, FindServingAgent, FindSigningAgent, ClaimRelaySession, WriteAuthfile
  <1>7. UNCHANGED Shared => UNCHANGED <<load, clock, uses, edits>>
    BY DEF Shared
  <1> QED BY <1>2, <1>3, <1>4, <1>5, <1>6, <1>7, SharedSteps

\* Every key that a request holds is valid.
LEMMA ValidKeysAre ==
    ASSUME CallShapes, NEW c \in Calls, calls[c].at # "idle"
    PROVE  /\ DOMAIN ValidKeys(c) \subseteq Nat /\ \E n \in Nat : DOMAIN ValidKeys(c) \subseteq 1 .. n
           /\ \A i \in DOMAIN ValidKeys(c) : Valid(ValidKeys(c)[i])
  <1>1. IsList(calls[c].req.keys)
    BY LoadAssumption DEF CallShapes, Shape
  <1>2. DOMAIN calls[c].req.keys \subseteq Nat /\ \E n \in Nat : DOMAIN calls[c].req.keys = 1 .. n
    BY <1>1 DEF IsList
  <1> QED BY <1>2 DEF ValidKeys, Sifted

\* The first of a request's keys is an agent.
LEMMA PrimaryIsAgent ==
    ASSUME NEW c \in Calls, Keys(c), DOMAIN calls[c].agents # {}
    PROVE  Primary(c) \in DOMAIN load.agents
           /\ \E i \in DOMAIN calls[c].agents : Primary(c) = calls[c].agents[i]
  <1>1. PICK i \in DOMAIN calls[c].agents : Primary(c) = calls[c].agents[i]
    BY FirstIsOfIt DEF Keys, Primary
  <1> QED BY <1>1 DEF Keys, Valid

\* The key that serves is one of the keys.
LEMMA ServingIsAKey ==
    ASSUME NEW keys, NEW name, NEW endUser, DOMAIN keys \subseteq Nat,
           FirstServing(keys, name, endUser) # NoOne
    PROVE  \E i \in DOMAIN keys : /\ FirstServing(keys, name, endUser) = keys[i]
                                  /\ Serves(keys[i], name, endUser)
  <1> DEFINE found == {i \in DOMAIN keys : Serves(keys[i], name, endUser)}
  <1>1. found # {} /\ found \subseteq Nat
    BY DEF FirstServing
  <1>2. \E i \in found : \A j \in found : i <= j
    <2> HIDE DEF found
    <2> QED BY <1>1, LeastOne
  <1>3. PICK i \in found : i = CHOOSE k \in found : \A j \in found : k <= j
    <2> HIDE DEF found
    <2> QED BY <1>2
  <1>4. FirstServing(keys, name, endUser) = keys[i]
    BY <1>1, <1>3 DEF FirstServing
  <1> QED BY <1>4

\* A request keeps its keys when a step does not look for them.
LEMMA MoveKeepsKeys ==
    ASSUME NEW c, Keys(c), NEW kinds, NEW from, NEW to, NEW writes,
           Moves(c, kinds, from, to, writes),
           writes \cap {"agents", "by", "window", "req"} = {},
           from \cap {"idle", "auth", "done"} = {}, to \cap {"idle", "auth"} = {},
           kinds = {"legacy"} \/ from \subseteq Bound \/ to \cap Bound = {}
    PROVE  Keys(c)'
  <1>1. /\ calls'[c].agents = calls[c].agents /\ calls'[c].by = calls[c].by
        /\ calls'[c].window = calls[c].window /\ calls'[c].req = calls[c].req
        /\ load' = load /\ calls[c].at \in from /\ calls'[c].at \in to
        /\ calls[c].req.kind \in kinds
    BY FieldNames DEF Moves
  <1>2. calls'[c].at \in Bound /\ calls'[c].req.kind # "legacy" => calls[c].at \in Bound
    BY <1>1
  <1>3. calls[c].at \notin {"idle", "auth", "done"} /\ calls'[c].at \notin {"idle", "auth"}
    BY <1>1
  <1>4. \A k : Valid(k)' = Valid(k)
    BY <1>1 DEF Valid
  <1> QED BY <1>1, <1>2, <1>3, <1>4 DEF Keys

\* The steps that look for keys.
LEMMA AuthenticationKeys ==
    ASSUME CallShapes, Limits, NEW c \in Calls, Keys(c),
           Authenticate(c) \/ AuthenticateSigner(c) \/ AuthenticateAgentFromHeaders(c)
    PROVE  Keys(c)'
  <1>1. Moves(c, Kinds, {"auth"}, {"done", "count", "serve", "relay_config"}, {"agents", "window"})
    BY AuthenticateMoves, AuthenticateSignerMoves, AuthenticateAgentFromHeadersMoves, Wider
       DEF Kinds
  <1>2. /\ calls[c].at = "auth" /\ calls'[c].at \in {"done", "count", "serve", "relay_config"}
        /\ calls'[c].by = calls[c].by /\ load' = load
    BY <1>1, FieldNames DEF Moves
  <1>3. calls[c].by = NoOne
    BY <1>2 DEF Keys
  <1>4. \A k : Valid(k)' = Valid(k)
    BY <1>2 DEF Valid
  <1>5. CASE Refuse(c)
    <2>1. /\ calls'[c].at = "done" /\ calls'[c].agents = calls[c].agents
          /\ calls'[c].window = calls[c].window
      BY <1>5, KindByStage, FieldNames DEF Refuse, CallShapes
    <2> QED BY <1>2, <1>3, <1>4, <2>1 DEF Keys, Bound
  <1>6. CASE ~Refuse(c)
    <2>1. PICK t : AsAgents(c, t) /\ DOMAIN ValidKeys(c) # {}
      BY <1>6 DEF Authenticate, AuthenticateSigner, AuthenticateAgentFromHeaders
    <2>2. PICK w : Takes(c, w) /\ w = [calls[c] EXCEPT !.at = t, !.agents = ValidKeys(c),
                                                        !.window = clock \div WindowLength]
      BY <2>1 DEF AsAgents
    <2>3. w.agents = ValidKeys(c) /\ w.window = clock \div WindowLength
      BY <2>2, KindByStage, FieldNames
    <2>4. calls'[c].agents = ValidKeys(c) /\ calls'[c].window = clock \div WindowLength
      BY <2>2, <2>3, Taken
    <2>5. /\ DOMAIN ValidKeys(c) \subseteq Nat /\ \E n \in Nat : DOMAIN ValidKeys(c) \subseteq 1 .. n
          /\ \A i \in DOMAIN ValidKeys(c) : Valid(ValidKeys(c)[i])
      BY <1>2, ValidKeysAre
    <2>6. clock \div WindowLength \in Windows
      BY WindowOfClock DEF Limits
    <2> HIDE DEF Windows
    <2> QED BY <1>2, <1>3, <1>4, <2>1, <2>4, <2>5, <2>6 DEF Keys, Bound
  <1> QED BY <1>5, <1>6

\* The steps that choose one.
LEMMA ServingKeys ==
    ASSUME CallShapes, NEW c \in Calls, Keys(c),
           FindServingAgent(c) \/ FindSigningAgent(c) \/ RelayConfig(c)
    PROVE  Keys(c)'
  <1>1. Moves(c, {"forward", "sign", "relay"}, {"serve", "relay_config"},
              {"done", "config", "claim"}, {"by", "name", "cred"})
    BY FindServingAgentMoves, FindSigningAgentMoves, RelayConfigMoves, Wider
  <1>2. /\ calls[c].at \in {"serve", "relay_config"} /\ calls'[c].at \in {"done", "config", "claim"}
        /\ calls'[c].agents = calls[c].agents /\ calls'[c].window = calls[c].window /\ load' = load
    BY <1>1, FieldNames DEF Moves
  <1>3. \A k : Valid(k)' = Valid(k)
    BY <1>2 DEF Valid
  <1>4. DOMAIN calls[c].agents # {} /\ DOMAIN calls[c].agents \subseteq Nat
    BY <1>2 DEF Keys
  <1>5. NoOne \notin DOMAIN load.agents
    BY LoadAssumption DEF CallShapes
  <1>6. CASE Refuse(c)
    <2>1. calls'[c].at = "done" /\ calls'[c].by = calls[c].by
      BY <1>6, KindByStage, FieldNames DEF Refuse, CallShapes
    <2> QED BY <1>2, <1>3, <2>1 DEF Keys, Bound
  <1>7. ASSUME NEW a, calls'[c].by = a, a # NoOne, \E i \in DOMAIN calls[c].agents : a = calls[c].agents[i]
        PROVE  Keys(c)'
    BY <1>2, <1>3, <1>7 DEF Keys
  <1>8. CASE (FindServingAgent(c) \/ FindSigningAgent(c)) /\ ~Refuse(c)
    <2> DEFINE a == FirstServing(calls[c].agents, calls[c].req.cred, calls[c].req.endUser)
    <2>1. a # NoOne /\ Takes(c, [calls[c] EXCEPT !.at = "config", !.by = a,
                                                 !.name = EffectiveName(calls[c].req)])
      BY <1>8 DEF FindServingAgent, FindSigningAgent, ServeWith
    <2>2. \E i \in DOMAIN calls[c].agents : a = calls[c].agents[i]
      BY <1>4, <2>1, ServingIsAKey
    <2> HIDE DEF a
    <2>3. PICK w : Takes(c, w) /\ w = [calls[c] EXCEPT !.at = "config", !.by = a,
                                                       !.name = EffectiveName(calls[c].req)]
      BY <2>1
    <2>4. w.by = a
      BY <2>3, KindByStage, FieldNames
    <2>5. calls'[c].by = a
      BY <2>3, <2>4, Taken
    <2> QED BY <1>7, <2>1, <2>2, <2>5
  <1>9. CASE RelayConfig(c) /\ ~Refuse(c)
    <2>1. PICK w, n, k : /\ Takes(c, w)
                         /\ w = [calls[c] EXCEPT !.at = "claim", !.by = Primary(c), !.name = n,
                                                 !.cred = k]
      BY <1>9 DEF RelayConfig
    <2>2. w.by = Primary(c)
      BY <2>1, KindByStage, FieldNames
    <2>3. calls'[c].by = Primary(c)
      BY <2>1, <2>2, Taken
    <2>4. Primary(c) # NoOne /\ \E i \in DOMAIN calls[c].agents : Primary(c) = calls[c].agents[i]
      BY <1>4, <1>5, PrimaryIsAgent
    <2> QED BY <1>7, <2>3, <2>4
  <1> QED BY <1>6, <1>8, <1>9

\* A step of a request.
LEMMA StepKeepsKeys ==
    ASSUME CallShapes, Limits, [Next]_vars, NEW c \in Calls, Keys(c), calls'[c] # calls[c]
    PROVE  Keys(c)'
  <1>1. ASSUME NEW req \in load.requests, Receive(c, req)
        PROVE  Keys(c)'
    <2>1. /\ calls[c] = Fresh /\ calls'[c].at = "auth" /\ load' = load
          /\ \A f \in CallFields \ {"at", "req"} : calls'[c][f] = calls[c][f]
      BY <1>1, ReceiveMoves
    <2>2. calls[c].at = "idle"
      BY <2>1, FreshShape
    <2> QED BY <2>1, <2>2, FieldNames DEF Keys, Bound, Valid
  <1>2. CASE Authenticate(c) \/ AuthenticateSigner(c) \/ AuthenticateAgentFromHeaders(c)
    BY <1>2, AuthenticationKeys
  <1>3. CASE FindServingAgent(c) \/ FindSigningAgent(c) \/ RelayConfig(c)
    BY <1>3, ServingKeys
  <1>4. CASE RateLimit(c)
    <2>1. Counted(c)
      BY <1>4, RateLimitMoves
    <2> QED BY <2>1, MoveKeepsKeys DEF Counted, Bound
  <1>5. CASE ReadConfig(c) \/ ReadSigningConfig(c) \/ ReadValue(c) \/ ReadSigningValue(c)
    BY <1>5, ReadConfigMoves, ReadSigningConfigMoves, ReadValueMoves, ReadSigningValueMoves,
       MoveKeepsKeys DEF Bound
  <1>6. CASE ParseRequest(c) \/ FindOwningAgents(c) \/ ReadValues(c)
    BY <1>6, ParseRequestMoves, FindOwningAgentsMoves, ReadValuesMoves, MoveKeepsKeys DEF Bound
  <1>7. CASE RelayGate(c) \/ ClaimRelaySession(c) \/ ListSessions(c) \/ WriteAuthfile(c)
    BY <1>7, RelayGateMoves, ClaimRelaySessionMoves, ListSessionsMoves, WriteAuthfileMoves,
       MoveKeepsKeys DEF Bound
  <1>8. CASE \/ ReadPolicy(c) \/ Evaluate(c) \/ ClaimGrant(c)
             \/ Ask(c) \/ AskForPlaceholders(c) \/ AskToSign(c)
             \/ \E verdict \in Verdicts : Decide(c, verdict) \/ DecideToSign(c, verdict)
    BY <1>8, DecidingSteps, MoveKeepsKeys DEF Deciding, Bound
  <1>9. CASE ExchangeToken(c) \/ Send(c) \/ RetryWithOauth1(c) \/ Answer(c)
    BY <1>9, UsingSteps, MoveKeepsKeys DEF Using, Bound
  <1>10. CASE SignPayload(c)
    BY <1>10, SignPayloadMoves, MoveKeepsKeys DEF Bound
  <1> QED BY OwnStep, <1>1, <1>2, <1>3, <1>4, <1>5, <1>6, <1>7, <1>8, <1>9, <1>10 DEF Act

KeysInv == CallShapes /\ Limits /\ \A c \in Calls : Keys(c)

\* The shapes, the limits and the keys are inductive together.
THEOREM KeysHold == Spec => []KeysInv
  <1>1. ASSUME Init PROVE KeysInv
    <2>1. CallShapes /\ load \in Loads
      BY <1>1, InitShapes DEF CallShapes
    <2>2. Limits
      <3>1. load.uses \in Nat /\ MaxTime \in Nat
        BY <2>1, LoadAssumption, AdmissionAssumption
      <3> QED BY <1>1, <3>1 DEF Init, Limits
    <2>3. ASSUME NEW c \in Calls PROVE Keys(c)
      <3>1. /\ calls[c] = Fresh /\ Fresh.at = "idle" /\ Fresh.by = NoOne /\ Fresh.window = 0
            /\ Fresh.agents = << >>
        BY <1>1 DEF Init, Fresh
      <3>2. 0 \in Windows
        <4>1. 0 \in 0 .. MaxTime
          BY AdmissionAssumption
        <4>2. 0 \div WindowLength = 0
          BY AdmissionAssumption
        <4> QED BY <4>1, <4>2, WindowOfClock
      <3>3. DOMAIN << >> = {} /\ 0 \in Nat
        OBVIOUS
      <3> HIDE DEF Windows
      <3> QED BY <3>1, <3>2, <3>3 DEF Keys, Bound
    <2> QED BY <2>1, <2>2, <2>3 DEF KeysInv
  <1>2. ASSUME KeysInv, [Next]_vars PROVE KeysInv'
    <2>1. CallShapes' /\ Limits'
      BY <1>2, StepsKeepShapes, StepsKeepLimits DEF KeysInv, CallShapes
    <2>2. ASSUME NEW c \in Calls PROVE Keys(c)'
      <3>1. CASE calls'[c] = calls[c]
        <4>1. load' = load
          BY <1>2, ActsOrNot, ActIsStep, OthersStay DEF KeysInv
        <4> QED BY <1>2, <3>1, <4>1 DEF KeysInv, Keys, Valid
      <3>2. CASE calls'[c] # calls[c]
        BY <1>2, <3>2, StepKeepsKeys DEF KeysInv
      <3> QED BY <3>1, <3>2
    <2> QED BY <2>1, <2>2 DEF KeysInv
  <1> QED BY <1>1, <1>2, PTL DEF Spec

\* The type invariant: in particular a request that asks, sends or signs has a
\* valid key, and one for a named credential has the key that serves it.
THEOREM TypesHold == Spec => []TypeOK
  <1>1. KeysInv => TypeOK
    <2> SUFFICES ASSUME KeysInv PROVE TypeOK
      OBVIOUS
    <2>1. load \in Loads /\ Limits
      BY DEF KeysInv, CallShapes
    <2>2. ASSUME NEW c \in Calls PROVE calls[c].at \in Stages
      <3>1. calls[c].at = "idle" \/ calls[c].at \in StagesOf[calls[c].req.kind]
        BY DEF KeysInv, CallShapes, Shape
      <3>2. calls[c].at # "idle" => calls[c].req.kind \in Kinds
        BY KindByStage DEF KeysInv
      <3> QED BY <3>1, <3>2 DEF Kinds, StagesOf, Stages
    <2>3. ASSUME NEW c \in Calls PROVE Keys(c)
      BY DEF KeysInv
    <2> QED BY <2>1, <2>2, <2>3 DEF TypeOK, Limits, Keys, Bound, Kind
  <1> QED BY <1>1, KeysHold, PTL

-----------------------------------------------------------------------------
(* The rate limit                                                          *)

(* Who was let through, as RateLimitHolds counts them.                     *)
Through(a, w) ==
    {c \in Calls : /\ calls[c].counted /\ ~calls[c].late
                   /\ Primary(c) = a /\ calls[c].window = w}

Passed(a, w) == \E v \in Windows : v > w /\ counters[a][v] > 0

RateFacts ==
    /\ counters \in [DOMAIN load.agents -> [Windows -> Nat]]
    /\ \A c \in Calls : calls[c].at \in {"idle", "auth", "count"} => calls[c].counted = FALSE
    /\ \A a \in DOMAIN load.agents, w \in Windows :
           /\ Through(a, w) # {} => Cardinality(Through(a, w)) < load.agents[a].limit
           /\ Cardinality(Through(a, w)) <= counters[a][w] \/ Passed(a, w)

\* Windows are numbers.
LEMMA WindowsAreNumbers == Windows \subseteq Nat
  <1>1. MaxTime \div WindowLength \in Nat
    BY AdmissionAssumption
  <1> QED BY <1>1 DEF Windows

\* Only finitely many are let through.
LEMMA ThroughIsFinite ==
    ASSUME NEW a, NEW w
    PROVE  IsFiniteSet(Through(a, w)) /\ Cardinality(Through(a, w)) \in Nat
  <1>1. Through(a, w) \subseteq Calls /\ IsFiniteSet(Calls)
    BY AdmissionAssumption DEF Through
  <1> QED BY <1>1, FS_Subset, FS_CardinalityType

(* A step that lets nobody through and counts nothing.                     *)
Uncounted ==
    /\ load' = load /\ counters' = counters
    /\ \A c \in Calls :
           \/ /\ calls'[c].counted = calls[c].counted /\ calls'[c].late = calls[c].late
              /\ calls'[c].agents = calls[c].agents /\ calls'[c].window = calls[c].window
              /\ calls'[c].at \in {"idle", "auth", "count"} =>
                     calls[c].at \in {"idle", "auth", "count"}
           \/ /\ calls'[c].counted = FALSE /\ calls[c].counted = FALSE

\* Such a step keeps the facts.
LEMMA UncountedKeeps ==
    ASSUME RateFacts, Uncounted
    PROVE  RateFacts'
  <1>1. \A a, w : Through(a, w)' = Through(a, w)
    BY DEF Through, Uncounted, Primary
  <1>2. \A a, w : Passed(a, w)' = Passed(a, w)
    BY DEF Uncounted, Passed
  <1>3. load' = load /\ counters' = counters
    BY DEF Uncounted
  <1>4. ASSUME NEW c \in Calls, calls'[c].at \in {"idle", "auth", "count"}
        PROVE  calls'[c].counted = FALSE
    BY <1>4 DEF RateFacts, Uncounted
  <1> QED BY <1>1, <1>2, <1>3, <1>4 DEF RateFacts

\* The steps of a request but for the counter.
LEMMA OtherActsUncounted ==
    ASSUME CallShapes, RateFacts, NEW c \in Calls, Act(c), ~RateLimit(c)
    PROVE  \/ /\ calls'[c].counted = calls[c].counted /\ calls'[c].late = calls[c].late
              /\ calls'[c].agents = calls[c].agents /\ calls'[c].window = calls[c].window
              /\ calls'[c].at \in {"idle", "auth", "count"} =>
                     calls[c].at \in {"idle", "auth", "count"}
           \/ /\ calls'[c].counted = FALSE /\ calls[c].counted = FALSE
  <1>0. calls[c].at \in {"idle", "auth", "count"} => calls[c].counted = FALSE
    BY DEF RateFacts
  <1>1. ASSUME NEW req \in load.requests, Receive(c, req)
        PROVE  calls'[c].counted = FALSE /\ calls[c].counted = FALSE
    <2>1. /\ calls[c] = Fresh
          /\ \A f \in CallFields \ {"at", "req"} : calls'[c][f] = calls[c][f]
      BY <1>1, ReceiveMoves
    <2> QED BY <2>1, FieldNames, FreshShape, <1>0
  <1>2. CASE Authenticate(c) \/ AuthenticateSigner(c) \/ AuthenticateAgentFromHeaders(c)
    BY <1>0, <1>2, AuthenticateMoves, AuthenticateSignerMoves, AuthenticateAgentFromHeadersMoves,
       FieldNames DEF Moves
  <1> DEFINE Same == /\ calls'[c].counted = calls[c].counted /\ calls'[c].late = calls[c].late
                     /\ calls'[c].agents = calls[c].agents /\ calls'[c].window = calls[c].window
                     /\ calls'[c].at \notin {"idle", "auth", "count"}
  <1>3. ASSUME NEW kinds, NEW from, NEW to, NEW writes, Moves(c, kinds, from, to, writes),
               to \cap {"idle", "auth", "count"} = {},
               writes \cap {"counted", "late", "agents", "window"} = {}
        PROVE  Same
    BY <1>3, FieldNames DEF Moves
  <1>4. CASE FindServingAgent(c) \/ FindSigningAgent(c) \/ RelayConfig(c)
    <2>1. Same
      <3> HIDE DEF Same
      <3> QED BY <1>3, <1>4, FindServingAgentMoves, FindSigningAgentMoves, RelayConfigMoves
    <2> QED BY <2>1
  <1>5. CASE ReadConfig(c) \/ ReadSigningConfig(c) \/ ReadValue(c) \/ ReadSigningValue(c)
    <2>1. Same
      <3> HIDE DEF Same
      <3> QED BY <1>3, <1>5, ReadConfigMoves, ReadSigningConfigMoves, ReadValueMoves,
                 ReadSigningValueMoves
    <2> QED BY <2>1
  <1>6. CASE ParseRequest(c) \/ FindOwningAgents(c) \/ ReadValues(c)
    <2>1. Same
      <3> HIDE DEF Same
      <3> QED BY <1>3, <1>6, ParseRequestMoves, FindOwningAgentsMoves, ReadValuesMoves
    <2> QED BY <2>1
  <1>7. CASE RelayGate(c) \/ ClaimRelaySession(c) \/ ListSessions(c) \/ WriteAuthfile(c)
    <2>1. Same
      <3> HIDE DEF Same
      <3> QED BY <1>3, <1>7, RelayGateMoves, ClaimRelaySessionMoves, ListSessionsMoves,
                 WriteAuthfileMoves
    <2> QED BY <2>1
  <1>8. CASE \/ ReadPolicy(c) \/ Evaluate(c) \/ ClaimGrant(c)
             \/ Ask(c) \/ AskForPlaceholders(c) \/ AskToSign(c)
             \/ \E verdict \in Verdicts : Decide(c, verdict) \/ DecideToSign(c, verdict)
    <2>1. Same
      <3> HIDE DEF Same
      <3> QED BY <1>3, <1>8, DecidingSteps DEF Deciding
    <2> QED BY <2>1
  <1>9. CASE ExchangeToken(c) \/ Send(c) \/ RetryWithOauth1(c) \/ Answer(c)
    <2>1. Same
      <3> HIDE DEF Same
      <3> QED BY <1>3, <1>9, UsingSteps DEF Using
    <2> QED BY <2>1
  <1>10. CASE SignPayload(c)
    <2>1. Same
      <3> HIDE DEF Same
      <3> QED BY <1>3, <1>10, SignPayloadMoves
    <2> QED BY <2>1
  <1> QED BY <1>1, <1>2, <1>4, <1>5, <1>6, <1>7, <1>8, <1>9, <1>10 DEF Act

(* What the counter's step does, in terms of the facts.                    *)
Counts(c, a, w) ==
    /\ load' = load
    /\ a = Primary(c) /\ a \in DOMAIN load.agents /\ w = calls[c].window /\ w \in Windows
    /\ calls[c].at = "count" /\ calls[c].counted = FALSE
    /\ \A d \in Calls \ {c} : calls'[d] = calls[d]
    /\ calls'[c].agents = calls[c].agents /\ calls'[c].window = calls[c].window
    /\ calls'[c].at \in {"done", "serve", "parse"}
    /\ counters' = [counters EXCEPT ![a] = [v \in Windows |->
           IF v = w THEN counters[a][v] + 1 ELSE IF v < w THEN 0 ELSE counters[a][v]]]
    /\ \/ calls'[c].counted = FALSE
       \/ /\ counters[a][w] + 1 < load.agents[a].limit
          /\ calls'[c].late = Passed(a, w)

\* It either leaves the counters or counts.
LEMMA RateLimitCounts ==
    ASSUME CallShapes, NEW c \in Calls, Keys(c), RateFacts, RateLimit(c)
    PROVE  \/ \E a, w : Counts(c, a, w)
           \/ Uncounted
  <1> DEFINE a == Primary(c)
             w == calls[c].window
  <1>1. Counted(c)
    BY RateLimitMoves
  <1>2. /\ load' = load /\ calls[c].at = "count"
        /\ \A d \in Calls \ {c} : calls'[d] = calls[d]
        /\ calls'[c].agents = calls[c].agents /\ calls'[c].window = calls[c].window
        /\ calls'[c].at \in {"done", "serve", "parse"}
    BY <1>1, FieldNames DEF Counted, Moves
  <1>3. calls[c].counted = FALSE
    BY <1>2 DEF RateFacts
  <1>4. w \in Windows /\ DOMAIN calls[c].agents # {}
    <2> HIDE DEF Windows
    <2> QED BY <1>2 DEF Keys
  <1>5. a \in DOMAIN load.agents
    BY <1>4, PrimaryIsAgent
  <1>6. CASE counters' = counters
    <2>1. CASE calls'[c].counted = FALSE
      BY <1>2, <1>3, <1>6, <2>1 DEF Uncounted
    <2>2. CASE calls'[c].counted # FALSE
      <3>1. counters' = [counters EXCEPT ![a] = [v \in Windows |->
                IF v = w THEN counters[a][v] + 1 ELSE IF v < w THEN 0 ELSE counters[a][v]]]
        <4>1. CASE Takes(c, [calls[c] EXCEPT !.at = AfterCount(c)])
          <5> DEFINE r == [calls[c] EXCEPT !.at = AfterCount(c)]
          <5>1. r.counted = calls[c].counted
            BY KindByStage, FieldNames
          <5>2. calls'[c] = r
            BY <4>1, Taken
          <5> QED BY <1>3, <2>2, <5>1, <5>2
        <4>2. CASE IncrementRateCounter(a, w)
          BY <4>2 DEF IncrementRateCounter
        <4> QED BY <4>1, <4>2 DEF RateLimit
      <3>2. counters[a][w] \in Nat
        BY <1>4, <1>5 DEF RateFacts
      <3>3. counters'[a][w] = counters[a][w] + 1
        BY <1>4, <1>5, <3>1 DEF RateFacts
      <3> QED BY <1>6, <3>2, <3>3
    <2> QED BY <2>1, <2>2
  <1>7. CASE counters' # counters
    <2>1. IncrementRateCounter(a, w)
      BY <1>7 DEF RateLimit
    <2>2. counters' = [counters EXCEPT ![a] = [v \in Windows |->
              IF v = w THEN counters[a][v] + 1 ELSE IF v < w THEN 0 ELSE counters[a][v]]]
      BY <2>1 DEF IncrementRateCounter
    <2> DEFINE late == \E v \in Windows : v > w /\ counters[a][v] > 0
    <2>3. \/ /\ Takes(c, [calls[c] EXCEPT !.at = AfterCount(c), !.counted = TRUE,
                                    !.late = late])
             /\ counters[a][w] + 1 < load.agents[a].limit
          \/ Takes(c, [calls[c] EXCEPT !.at = "done"])
      BY <1>7 DEF RateLimit, CheckRateLimit
    <2> HIDE DEF late
    <2>4. CASE Takes(c, [calls[c] EXCEPT !.at = "done"])
      <3> DEFINE r == [calls[c] EXCEPT !.at = "done"]
      <3>1. r.counted = calls[c].counted
        BY KindByStage, FieldNames
      <3>2. calls'[c] = r
        BY <2>4, Taken
      <3>3. calls'[c].counted = FALSE
        BY <1>3, <3>1, <3>2
      <3> HIDE DEF a, w
      <3>4. Counts(c, a, w)
        BY <1>2, <1>3, <1>4, <1>5, <2>2, <3>3 DEF Counts, a, w
      <3> QED BY <3>4
    <2>5. CASE /\ Takes(c, [calls[c] EXCEPT !.at = AfterCount(c), !.counted = TRUE,
                                    !.late = late])
               /\ counters[a][w] + 1 < load.agents[a].limit
      <3> DEFINE r == [calls[c] EXCEPT !.at = AfterCount(c), !.counted = TRUE,
                                    !.late = late]
      <3>1. r.late = late
        BY KindByStage, FieldNames
      <3>2. calls'[c] = r
        BY <2>5, Taken
      <3>3. calls'[c].late = Passed(a, w)
        BY <3>1, <3>2 DEF late, Passed
      <3> HIDE DEF a, w
      <3>4. Counts(c, a, w)
        BY <1>2, <1>3, <1>4, <1>5, <2>2, <2>5, <3>3 DEF Counts, a, w
      <3> QED BY <3>4
    <2> QED BY <2>3, <2>4, <2>5
  <1> QED BY <1>6, <1>7

\* Counting keeps the facts: what is pruned has passed, and what has passed is
\* not counted any more.
LEMMA CountsKeep ==
    ASSUME load \in Loads, RateFacts, NEW c \in Calls, NEW a, NEW w, Counts(c, a, w)
    PROVE  RateFacts'
  <1> HIDE DEF Windows
  <1>1. /\ load' = load /\ a \in DOMAIN load.agents /\ w \in Windows /\ Windows \subseteq Nat
        /\ counters \in [DOMAIN load.agents -> [Windows -> Nat]]
    BY WindowsAreNumbers DEF Counts, RateFacts
  <1>2. /\ \A b \in DOMAIN load.agents \ {a} : counters'[b] = counters[b]
        /\ counters'[a][w] = counters[a][w] + 1
        /\ \A v \in Windows : v > w => counters'[a][v] = counters[a][v]
        /\ counters' \in [DOMAIN load.agents -> [Windows -> Nat]]
    BY <1>1 DEF Counts
  <1>3. ASSUME NEW d \in Calls, calls'[d].at \in {"idle", "auth", "count"}
        PROVE  calls'[d].counted = FALSE
    BY <1>3 DEF Counts, RateFacts
  <1>4. ASSUME NEW b \in DOMAIN load.agents, NEW v \in Windows, b # a \/ v # w
        PROVE  Through(b, v)' = Through(b, v)
    BY <1>4 DEF Through, Counts, Primary
  <1>5. ASSUME NEW b \in DOMAIN load.agents, NEW v \in Windows, b # a \/ v # w
        PROVE  Cardinality(Through(b, v))' <= counters'[b][v] \/ Passed(b, v)'
    <2>1. Cardinality(Through(b, v)) <= counters[b][v] \/ Passed(b, v)
      BY DEF RateFacts
    <2>2. Through(b, v)' = Through(b, v)
      BY <1>4, <1>5
    <2>3. CASE b # a
      BY <1>1, <1>2, <2>1, <2>2, <2>3 DEF Passed
    <2>4. CASE b = a /\ v < w
      <3>1. w > v /\ counters'[a][w] > 0
        BY <1>1, <1>2, <2>4
      <3> QED BY <1>1, <2>4, <3>1 DEF Passed
    <2>5. CASE b = a /\ v > w
      <3>1. Passed(a, v) => Passed(a, v)'
        BY <1>1, <1>2, <2>5 DEF Passed
      <3> QED BY <1>2, <2>1, <2>2, <2>5, <3>1
    <2> QED BY <1>1, <1>5, <2>3, <2>4, <2>5
  <1>6. Passed(a, w)' = Passed(a, w)
    BY <1>1, <1>2 DEF Passed
  <1>7. /\ Cardinality(Through(a, w)) \in Nat /\ IsFiniteSet(Through(a, w))
        /\ counters[a][w] \in Nat
    BY <1>1, ThroughIsFinite
  <1>8. c \notin Through(a, w) /\ c \in Calls
    BY DEF Through, Counts
  <1>9. \/ Through(a, w)' = Through(a, w)
        \/ /\ Through(a, w)' = Through(a, w) \cup {c} /\ ~Passed(a, w)
           /\ counters[a][w] + 1 < load.agents[a].limit
    <2>1. CASE calls'[c].counted = TRUE /\ ~calls'[c].late
      <3>1. counters[a][w] + 1 < load.agents[a].limit /\ ~Passed(a, w)
        BY <2>1 DEF Counts
      <3>2. Through(a, w)' = Through(a, w) \cup {c}
        BY <2>1 DEF Through, Counts, Primary
      <3> QED BY <3>1, <3>2
    <2>2. CASE ~(calls'[c].counted = TRUE /\ ~calls'[c].late)
      BY <1>8, <2>2 DEF Through, Counts, Primary
    <2> QED BY <2>1, <2>2
  <1>10. /\ Through(a, w)' # {} => Cardinality(Through(a, w)') < load.agents[a].limit
         /\ Cardinality(Through(a, w)') <= counters'[a][w] \/ Passed(a, w)'
    <2>1. CASE Through(a, w)' = Through(a, w)
      BY <1>1, <1>2, <1>6, <1>7, <2>1 DEF RateFacts
    <2>2. CASE /\ Through(a, w)' = Through(a, w) \cup {c} /\ ~Passed(a, w)
               /\ counters[a][w] + 1 < load.agents[a].limit
      <3>1. Cardinality(Through(a, w)') = Cardinality(Through(a, w)) + 1
        BY <1>7, <1>8, <2>2, FS_AddElement
      <3>2. Cardinality(Through(a, w)) <= counters[a][w]
        BY <1>1, <2>2 DEF RateFacts
      <3>3. load.agents[a].limit \in Nat
        BY <1>1, LoadAssumption
      <3> QED BY <1>2, <1>7, <2>2, <3>1, <3>2, <3>3
    <2> QED BY <1>9, <2>1, <2>2
  <1>11. ASSUME NEW b \in DOMAIN load'.agents, NEW v \in Windows
         PROVE  /\ Through(b, v)' # {} => Cardinality(Through(b, v)') < load'.agents[b].limit
                /\ Cardinality(Through(b, v)') <= counters'[b][v] \/ Passed(b, v)'
    <2>1. CASE b = a /\ v = w
      BY <1>1, <1>10, <2>1
    <2>2. CASE b # a \/ v # w
      BY <1>1, <1>4, <1>5, <2>2 DEF RateFacts
    <2> QED BY <2>1, <2>2
  <1> QED BY <1>1, <1>2, <1>3, <1>11 DEF RateFacts

\* Every step keeps them.
LEMMA StepsKeepRates ==
    ASSUME KeysInv, RateFacts, [Next]_vars
    PROVE  RateFacts'
  <1>1. ASSUME NEW c \in Calls, RateLimit(c) PROVE RateFacts'
    <2>1. (\E a, w : Counts(c, a, w)) \/ Uncounted
      BY <1>1, RateLimitCounts DEF KeysInv
    <2>2. load \in Loads
      BY DEF KeysInv, CallShapes
    <2> QED BY <2>1, <2>2, CountsKeep, UncountedKeeps
  <1>2. ASSUME \A c \in Calls : ~RateLimit(c) PROVE RateFacts'
    <2>1. counters' = counters /\ load' = load
      <3>1. \/ UNCHANGED Shared
            \/ \E c \in Calls : \/ FindServingAgent(c) \/ FindSigningAgent(c)
                               \/ ClaimRelaySession(c) \/ WriteAuthfile(c) \/ ClaimGrant(c)
            \/ \E e \in edits : Edit(e)
            \/ Tick
        BY <1>2, SharedSteps
      <3> QED BY <3>1 DEF Shared, FindServingAgent, FindSigningAgent, ClaimRelaySession,
                          WriteAuthfile, ClaimGrant, Edit, Tick
    <2>2. ASSUME NEW c \in Calls, calls'[c] # calls[c]
          PROVE  \/ /\ calls'[c].counted = calls[c].counted /\ calls'[c].late = calls[c].late
                    /\ calls'[c].agents = calls[c].agents /\ calls'[c].window = calls[c].window
                    /\ calls'[c].at \in {"idle", "auth", "count"} =>
                           calls[c].at \in {"idle", "auth", "count"}
                 \/ /\ calls'[c].counted = FALSE /\ calls[c].counted = FALSE
      <3>1. Act(c)
        BY <2>2, OwnStep DEF KeysInv
      <3> QED BY <1>2, <3>1, OtherActsUncounted DEF KeysInv
    <2>3. Uncounted
      BY <2>1, <2>2 DEF Uncounted
    <2> QED BY <2>3, UncountedKeeps
  <1> QED BY <1>1, <1>2

\* The requests of an agent let through in one window of the clock stay under its
\* limit, whatever instances count them (increment_rate_counter, check_rate_limit);
\* but for those whose window was pruned before they were counted, and not for an
\* hour across two windows.
THEOREM LimitsHold == Spec => []RateLimitHolds
  <1>1. ASSUME Init PROVE RateFacts
    <2>1. /\ counters = [a \in DOMAIN load.agents |-> [w \in Windows |-> 0]]
          /\ \A c \in Calls : calls[c] = Fresh
      BY <1>1 DEF Init
    <2>2. Fresh.counted = FALSE
      BY DEF Fresh
    <2>3. \A a, w : Through(a, w) = {}
      BY <2>1, <2>2 DEF Through
    <2>4. Cardinality({}) = 0
      BY FS_EmptySet
    <2> HIDE DEF Windows
    <2>5. counters \in [DOMAIN load.agents -> [Windows -> Nat]]
      BY <2>1
    <2>6. \A a \in DOMAIN load.agents, w \in Windows : counters[a][w] = 0
      BY <2>1
    <2> QED BY <2>1, <2>2, <2>3, <2>4, <2>5, <2>6 DEF RateFacts
  <1>2. KeysInv /\ RateFacts /\ [Next]_vars => RateFacts'
    BY StepsKeepRates
  <1>3. RateFacts => RateLimitHolds
    BY DEF RateFacts, RateLimitHolds, Through
  <1> QED BY <1>1, <1>2, <1>3, KeysHold, PTL DEF Spec

-----------------------------------------------------------------------------
(* Relays                                                                  *)

(* The session had a lease at that time whose last heartbeat was recent.   *)
Beating(s, t) == \E l \in leases : l.session = s /\ l.key = s /\ t - l.at \in 0 .. RelayTtl

LeaseFacts ==
    /\ DOMAIN relays = DOMAIN load.creds /\ DOMAIN creds = DOMAIN load.creds
    /\ \A s \in DOMAIN relays :
           /\ relays[s].beat \in 0 .. clock
           /\ relays[s].holder # NoOne =>
                  \E l \in leases : l.session = s /\ l.key = s /\ l.at = relays[s].beat
    /\ \A l \in leases :
           /\ l.session \in DOMAIN relays /\ l.at \in Nat /\ l.at <= relays[l.session].beat
           /\ relays[l.session].holder # NoOne
           /\ l.holder # relays[l.session].holder => relays[l.session].beat - l.at > RelayTtl
    /\ LeaseIsExclusive
    /\ \A s \in authfile.sessions : Beating(s, authfile.asOf)

Carried == {"policy", "mode", "grant", "ask", "wait", "exchange", "send", "retry", "answer"}

RelayCall(c) ==
    /\ calls[c].at = "claim" => Key(c) \in DOMAIN relays
    /\ calls[c].at = "project" => \A s \in calls[c].live : Beating(s, calls[c].asOf)
    /\ /\ calls[c].req.kind = "forward" /\ UsesRelay(calls[c].cred)
       /\ calls[c].at \in Carried \/ (calls[c].at = "done" /\ calls[c].sent # {})
       => Beating(Key(c), calls[c].asOf)

\* A lease that is granted: nobody else's is recent.
LEMMA ClaimKeepsLeases ==
    ASSUME CallShapes, Limits, NEW c \in Calls, Keys(c), RelayCall(c), LeaseFacts,
           ClaimRelaySession(c)
    PROVE  LeaseFacts' /\ leases \subseteq leases'
  <1> DEFINE s == Key(c)
             h == calls[c].by
  <1>1. calls[c].at = "claim"
    BY DEF ClaimRelaySession, At
  <1>2. s \in DOMAIN relays /\ clock \in Nat /\ RelayTtl \in Nat
    BY <1>1, AdmissionAssumption DEF RelayCall, Limits
  <1>3. h # NoOne
    BY <1>1, KindByStage DEF Keys, Bound
  <1>4. /\ load' = load /\ clock' = clock /\ creds' = creds /\ authfile' = authfile
        /\ s = SessionKey(Team(c), calls[c].name)
    BY DEF ClaimRelaySession, Key, SessionKey
  <1>5. CASE relays' = relays /\ leases' = leases
    BY <1>4, <1>5 DEF LeaseFacts, LeaseIsExclusive, Beating
  <1> HIDE DEF s, h
  <1>6. CASE ~(relays' = relays /\ leases' = leases)
    <2> DEFINE n == [session |-> s, holder |-> h, key |-> s, at |-> clock]
    <2>1. /\ relays' = [relays EXCEPT ![s] = [holder |-> h, beat |-> clock]]
          /\ leases' = leases \cup {n}
          /\ relays[s].holder \in {NoOne, h} \/ clock - relays[s].beat > RelayTtl
      BY <1>4, <1>6 DEF ClaimRelaySession, MayTakeLease, s, h
    <2>2. n.session = s /\ n.holder = h /\ n.key = s /\ n.at = clock
      OBVIOUS
    <2> HIDE DEF n
    <2>3. /\ DOMAIN relays' = DOMAIN relays /\ relays'[s].holder = h /\ relays'[s].beat = clock
          /\ \A r \in DOMAIN relays \ {s} : relays'[r] = relays[r]
      BY <1>2, <2>1
    <2>4. ASSUME NEW m \in leases, m.session = s, m.holder # h
          PROVE  clock - m.at > RelayTtl
      <3>1. /\ m.at \in Nat /\ m.at <= relays[s].beat /\ relays[s].holder # NoOne
            /\ m.holder # relays[s].holder => relays[s].beat - m.at > RelayTtl
            /\ relays[s].beat \in 0 .. clock
        BY <1>2, <2>4 DEF LeaseFacts
      <3> QED BY <1>2, <2>1, <2>4, <3>1
    <2>5. \A m \in leases : m.at \in Nat /\ m.session \in DOMAIN relays
                            /\ m.at <= relays[m.session].beat
      BY DEF LeaseFacts
    <2>6. ASSUME NEW r \in DOMAIN relays'
          PROVE  /\ relays'[r].beat \in 0 .. clock'
                 /\ relays'[r].holder # NoOne =>
                        \E l \in leases' : l.session = r /\ l.key = r /\ l.at = relays'[r].beat
      <3>1. CASE r = s
        BY <1>2, <1>4, <2>1, <2>2, <2>3, <3>1
      <3>2. CASE r # s
        BY <1>4, <2>1, <2>3, <3>2 DEF LeaseFacts
      <3> QED BY <3>1, <3>2
    <2>7. ASSUME NEW l \in leases'
          PROVE  /\ l.session \in DOMAIN relays' /\ l.at \in Nat /\ l.at <= relays'[l.session].beat
                 /\ relays'[l.session].holder # NoOne
                 /\ l.holder # relays'[l.session].holder =>
                        relays'[l.session].beat - l.at > RelayTtl
      <3>1. CASE l = n
        BY <1>2, <1>3, <2>2, <2>3, <3>1
      <3>2. CASE l \in leases /\ l.session # s
        BY <2>3, <3>2 DEF LeaseFacts
      <3>3. CASE l \in leases /\ l.session = s
        <4>1. l.at <= clock
          BY <1>2, <2>5, <3>3 DEF LeaseFacts
        <4> QED BY <1>2, <1>3, <2>3, <2>4, <2>5, <3>3, <4>1
      <3> QED BY <2>1, <3>1, <3>2, <3>3
    <2>8. LeaseIsExclusive'
      <3> SUFFICES ASSUME NEW l \in leases', NEW m \in leases',
                          l.session = m.session, l.holder # m.holder
                   PROVE  l.at - m.at \notin 0 .. RelayTtl
        BY DEF LeaseIsExclusive
      <3>1. CASE l \in leases /\ m \in leases
        BY <3>1 DEF LeaseFacts, LeaseIsExclusive
      <3>2. CASE l = n /\ m \in leases
        <4>1. clock - m.at > RelayTtl /\ m.at \in Nat
          BY <2>2, <2>4, <2>5, <3>2
        <4> QED BY <1>2, <2>2, <3>2, <4>1
      <3>3. CASE l \in leases /\ m = n
        <4>1. clock - l.at > RelayTtl /\ l.at \in Nat
          BY <2>2, <2>4, <2>5, <3>3
        <4> QED BY <1>2, <2>2, <3>3, <4>1
      <3> QED BY <2>1, <3>1, <3>2, <3>3
    <2>9. \A r \in authfile.sessions : Beating(r, authfile.asOf)'
      BY <1>4, <2>1 DEF LeaseFacts, Beating
    <2> QED BY <1>4, <2>1, <2>3, <2>6, <2>7, <2>8, <2>9 DEF LeaseFacts
  <1> QED BY <1>5, <1>6

\* The other steps.
LEMMA StepsKeepLeases ==
    ASSUME CallShapes, Limits, \A c \in Calls : Keys(c) /\ RelayCall(c), LeaseFacts, [Next]_vars
    PROVE  /\ LeaseFacts' /\ leases \subseteq leases'
               /\ DOMAIN relays' = DOMAIN relays /\ load' = load
  <1>1. ASSUME NEW c \in Calls, ClaimRelaySession(c)
        PROVE  /\ LeaseFacts' /\ leases \subseteq leases'
               /\ DOMAIN relays' = DOMAIN relays /\ load' = load
    <2>1. LeaseFacts' /\ leases \subseteq leases' /\ load' = load
      BY <1>1, ClaimKeepsLeases DEF ClaimRelaySession
    <2> QED BY <2>1 DEF LeaseFacts
  <1>2. ASSUME UNCHANGED <<load, clock, relays, leases, authfile>>, DOMAIN creds' = DOMAIN creds
        PROVE  /\ LeaseFacts' /\ leases \subseteq leases'
               /\ DOMAIN relays' = DOMAIN relays /\ load' = load
    BY <1>2 DEF LeaseFacts, LeaseIsExclusive, Beating
  <1>3. CASE Tick
    <2>1. /\ UNCHANGED <<load, creds, relays, leases, authfile>> /\ clock' = clock + 1
          /\ clock \in Nat
      BY <1>3 DEF Tick, Limits
    <2>2. \A s \in DOMAIN relays : relays[s].beat \in 0 .. clock => relays[s].beat \in 0 .. clock'
      BY <2>1
    <2> QED BY <2>1, <2>2 DEF LeaseFacts, LeaseIsExclusive, Beating
  <1>4. ASSUME NEW c \in Calls, WriteAuthfile(c)
        PROVE  /\ LeaseFacts' /\ leases \subseteq leases'
               /\ DOMAIN relays' = DOMAIN relays /\ load' = load
    <2>1. /\ UNCHANGED <<load, clock, creds, relays, leases>>
          /\ \/ authfile' = [sessions |-> calls[c].live, asOf |-> calls[c].asOf]
             \/ authfile' = authfile
      BY <1>4 DEF WriteAuthfile
    <2>2. \A s \in calls[c].live : Beating(s, calls[c].asOf)
      BY <1>4 DEF WriteAuthfile, At, RelayCall
    <2>3. \A s \in authfile'.sessions : Beating(s, authfile'.asOf)
      BY <2>1, <2>2 DEF LeaseFacts
    <2> QED BY <2>1, <2>3 DEF LeaseFacts, LeaseIsExclusive, Beating
  <1>5. ASSUME NEW e \in edits, Edit(e)
        PROVE  UNCHANGED <<load, clock, relays, leases, authfile>> /\ DOMAIN creds' = DOMAIN creds
    BY <1>5 DEF Edit
  <1>6. ASSUME NEW c \in Calls,
               RateLimit(c) \/ FindServingAgent(c) \/ FindSigningAgent(c) \/ ClaimGrant(c)
        PROVE  UNCHANGED <<load, clock, relays, leases, authfile>> /\ DOMAIN creds' = DOMAIN creds
    BY <1>6 DEF RateLimit, FindServingAgent, FindSigningAgent, ClaimGrant
  <1>7. UNCHANGED Shared => UNCHANGED <<load, clock, relays, leases, authfile, creds>>
    BY DEF Shared
  <1> QED BY <1>1, <1>2, <1>3, <1>4, <1>5, <1>6, <1>7, SharedSteps

\* What a request knows of its relay stays true as leases are added.
LEMMA BeatingStays ==
    ASSUME leases \subseteq leases', NEW s, NEW t, Beating(s, t)
    PROVE  Beating(s, t)'
  BY DEF Beating

\* A request that only prepares, or has nothing to do with relays.
LEMMA MoveAwayFromRelays ==
    ASSUME NEW c, Blank(c), NEW kinds, NEW from, NEW to, NEW writes,
           Moves(c, kinds, from, to, writes), {"sent", "req"} \cap writes = {},
           to \cap {"claim", "project"} = {},
           \/ "forward" \notin kinds
           \/ from \cap {"retry", "answer", "done"} = {} /\ to \cap Carried = {}
    PROVE  RelayCall(c)'
  <1>1. /\ calls'[c].sent = calls[c].sent /\ calls'[c].req = calls[c].req
        /\ calls[c].at \in from /\ calls'[c].at \in to /\ calls[c].req.kind \in kinds
    BY FieldNames DEF Moves
  <1>2. calls'[c].at \notin {"claim", "project"}
    BY <1>1
  <1>3. CASE "forward" \notin kinds
    BY <1>1, <1>2, <1>3 DEF RelayCall
  <1>4. CASE from \cap {"retry", "answer", "done"} = {} /\ to \cap Carried = {}
    <2>1. calls[c].sent = {} /\ calls'[c].at \notin Carried
      BY <1>1, <1>4 DEF Blank
    <2> QED BY <1>1, <1>2, <2>1 DEF RelayCall
  <1> QED BY <1>3, <1>4

\* A request that goes on keeps what it knows of its relay.
LEMMA MoveKeepsRelay ==
    ASSUME NEW c, RelayCall(c), leases \subseteq leases', NEW kinds, NEW from, NEW to, NEW writes,
           Moves(c, kinds, from, to, writes),
           {"req", "by", "name", "cred", "asOf"} \cap writes = {},
           to \cap {"claim", "project"} = {}, from \subseteq Carried
    PROVE  RelayCall(c)'
  <1>1. /\ calls'[c].req = calls[c].req /\ calls'[c].by = calls[c].by
        /\ calls'[c].name = calls[c].name /\ calls'[c].cred = calls[c].cred
        /\ calls'[c].asOf = calls[c].asOf
        /\ load' = load /\ calls[c].at \in from /\ calls'[c].at \in to
    BY FieldNames DEF Moves
  <1>2. Key(c)' = Key(c) /\ UsesRelay(calls[c].cred)' = UsesRelay(calls[c].cred)
    BY <1>1 DEF Key, Team, UsesRelay
  <1>3. calls'[c].at \notin {"claim", "project"} /\ calls[c].at \in Carried
    BY <1>1
  <1>4. calls[c].req.kind = "forward" /\ UsesRelay(calls[c].cred) => Beating(Key(c), calls[c].asOf)'
    <2>1. calls[c].req.kind = "forward" /\ UsesRelay(calls[c].cred) =>
              Beating(Key(c), calls[c].asOf)
      BY <1>3 DEF RelayCall
    <2> QED BY <1>1, <1>2, <2>1, BeatingStays DEF Beating
  <1> QED BY <1>1, <1>2, <1>3, <1>4 DEF RelayCall

\* The gate: the lease of the request's own credential is beating now.
LEMMA GateFindsRelay ==
    ASSUME CallShapes, Limits, LeaseFacts, NEW c \in Calls, Blank(c), RelayGate(c)
    PROVE  RelayCall(c)'
  <1>1. Moves(c, {"forward"}, {"relay"}, {"done", "policy"}, {"leased", "asOf"})
    BY RelayGateMoves
  <1>2. CASE Refuse(c)
    <2>1. calls[c].at \in {"relay"} /\ calls[c].req.kind \in {"forward"} /\ load' = load
          /\ "done" \in {"done"}
      BY <1>1 DEF Moves
    <2>2. Moves(c, {"forward"}, {"relay"}, {"done"}, {"asOf"})
      BY <1>2, <2>1, RefuseMoves
    <2> QED BY <2>2, MoveAwayFromRelays DEF Carried
  <1>3. CASE ~Refuse(c)
    <2> DEFINE s == Key(c)
    <2>1. /\ LiveRelayHolder(s) # NoOne /\ UNCHANGED Shared
          /\ Takes(c, [calls[c] EXCEPT !.at = "policy", !.leased = TRUE, !.asOf = clock])
      BY <1>3 DEF RelayGate, SessionKey, Key
    <2>2. s \in DOMAIN relays /\ relays[s].holder # NoOne /\ clock - relays[s].beat <= RelayTtl
      BY <2>1 DEF LiveRelayHolder, Live
    <2>3. clock \in Nat /\ RelayTtl \in Nat /\ relays[s].beat \in 0 .. clock
      BY <2>2, AdmissionAssumption DEF Limits, LeaseFacts
    <2>4. Beating(s, clock)
      <3> HIDE DEF s
      <3>1. PICK l \in leases : l.session = s /\ l.key = s /\ l.at = relays[s].beat
        BY <2>2 DEF LeaseFacts
      <3> QED BY <2>2, <2>3, <3>1 DEF Beating
    <2> DEFINE w == [calls[c] EXCEPT !.at = "policy", !.leased = TRUE, !.asOf = clock]
    <2>5. calls'[c] = w
      BY <2>1, Taken
    <2>6. w.at = "policy" /\ w.asOf = clock
      BY KindByStage, FieldNames
    <2>7. calls'[c].at = "policy" /\ calls'[c].asOf = clock
      BY <2>5, <2>6
    <2>8. /\ calls'[c].req = calls[c].req /\ calls'[c].by = calls[c].by
          /\ calls'[c].name = calls[c].name
      BY <1>1, FieldNames DEF Moves
    <2>9. Key(c)' = s /\ leases' = leases
      BY <2>1, <2>8 DEF Key, Team, Shared
    <2> HIDE DEF s, w
    <2>10. Beating(Key(c), calls[c].asOf)'
      BY <2>4, <2>7, <2>9 DEF Beating
    <2> QED BY <2>7, <2>10 DEF RelayCall
  <1> QED BY <1>2, <1>3

\* A route that does not go through a relay, or has the gate before it.
LEMMA RouteMeetsGate ==
    ASSUME CallShapes, NEW c \in Calls, Blank(c), ReadValue(c)
    PROVE  RelayCall(c)'
  <1>1. Moves(c, {"forward"}, {"value"}, {"done", "relay", "policy"}, {"value", "route"})
    BY ReadValueMoves
  <1>2. /\ calls'[c].cred = calls[c].cred /\ calls'[c].sent = calls[c].sent /\ load' = load
        /\ calls[c].at = "value" /\ calls'[c].at \in {"done", "relay", "policy"}
    BY <1>1, FieldNames DEF Moves
  <1>3. calls[c].sent = {}
    BY <1>2 DEF Blank
  <1>4. UsesRelay(calls[c].cred) => calls'[c].at # "policy"
    <2>1. CASE Refuse(c)
      <3>1. calls'[c].at = "done"
        BY <2>1, KindByStage, FieldNames DEF Refuse, CallShapes
      <3> QED BY <3>1
    <2>2. CASE ~Refuse(c)
      <3> DEFINE r == ResolveUnifiedRoute(calls[c].cred, StoredValue(Key(c)), calls[c].req.target,
                                          calls[c].req.method, calls[c].req.mode)
                 t == IF UsesRelay(calls[c].cred) THEN "relay" ELSE "policy"
                 w == [calls[c] EXCEPT !.at = t, !.value = StoredValue(Key(c)), !.route = r]
      <3>1. Takes(c, w)
        BY <2>2 DEF ReadValue
      <3> HIDE DEF r, t
      <3>2. w.at = t
        BY KindByStage, FieldNames
      <3> HIDE DEF w
      <3>3. calls'[c].at = t
        BY <3>1, <3>2, Taken
      <3> QED BY <3>3 DEF t
    <2> QED BY <2>1, <2>2
  <1>5. UsesRelay(calls[c].cred)' = UsesRelay(calls[c].cred)
    BY <1>2 DEF UsesRelay
  <1> QED BY <1>2, <1>3, <1>4, <1>5 DEF RelayCall, Carried

\* The heartbeat's own steps.
LEMMA HeartbeatSteps ==
    ASSUME CallShapes, Limits, LeaseFacts, NEW c \in Calls, Blank(c), RelayConfig(c) \/ ListSessions(c)
    PROVE  RelayCall(c)'
  <1>1. CASE RelayConfig(c)
    <2>1. Moves(c, {"relay"}, {"relay_config"}, {"done", "claim"}, {"by", "name", "cred"})
      BY <1>1, RelayConfigMoves
    <2>2. /\ calls'[c].req = calls[c].req /\ calls[c].req.kind = "relay" /\ load' = load
          /\ calls'[c].at \in {"done", "claim"}
      BY <2>1, FieldNames DEF Moves
    <2>3. CASE Refuse(c)
      <3>1. calls'[c].at = "done"
        BY <2>3, KindByStage, FieldNames DEF Refuse, CallShapes
      <3> QED BY <2>2, <3>1 DEF RelayCall
    <2>4. CASE ~Refuse(c)
      <3> DEFINE n == EffectiveName(calls[c].req)
                 k == <<load.agents[Primary(c)].team, n>>
                 w == [calls[c] EXCEPT !.at = "claim", !.by = Primary(c), !.name = n, !.cred = creds[k]]
      <3>1. Takes(c, w) /\ Exists(k) /\ relays' = relays
        BY <1>1, <2>4 DEF RelayConfig, Shared
      <3>2. k \in DOMAIN relays
        BY <3>1 DEF Exists, LeaseFacts
      <3>3. w.by = Primary(c) /\ w.name = n
        BY KindByStage, FieldNames
      <3> HIDE DEF w
      <3>4. calls'[c].by = Primary(c) /\ calls'[c].name = n
        BY <3>1, <3>3, Taken
      <3>5. Key(c)' = k
        BY <2>2, <3>4 DEF Key, Team
      <3> QED BY <2>2, <3>1, <3>2, <3>5 DEF RelayCall
    <2> QED BY <2>3, <2>4
  <1>2. CASE ListSessions(c)
    <2>1. Moves(c, {"relay"}, {"list"}, {"project"}, {"live", "asOf"})
      BY <1>2, ListSessionsMoves
    <2>2. /\ calls'[c].req = calls[c].req /\ calls[c].req.kind = "relay"
          /\ calls'[c].at = "project"
      BY <2>1, FieldNames DEF Moves
    <2> DEFINE w == [calls[c] EXCEPT !.at = "project", !.live = ListLiveRelaySessions,
                                     !.asOf = clock]
    <2>3. Takes(c, w) /\ leases' = leases
      BY <1>2 DEF ListSessions, Shared
    <2>4. w.live = ListLiveRelaySessions /\ w.asOf = clock
      BY KindByStage, FieldNames
    <2> HIDE DEF w
    <2>5. calls'[c].live = ListLiveRelaySessions /\ calls'[c].asOf = clock
      BY <2>3, <2>4, Taken
    <2>6. ASSUME NEW s \in ListLiveRelaySessions PROVE Beating(s, clock)
      <3>1. s \in DOMAIN relays /\ relays[s].holder # NoOne /\ clock - relays[s].beat <= RelayTtl
        BY DEF ListLiveRelaySessions, Live
      <3>2. clock \in Nat /\ RelayTtl \in Nat /\ relays[s].beat \in 0 .. clock
        BY <3>1, AdmissionAssumption DEF Limits, LeaseFacts
      <3>3. PICK l \in leases : l.session = s /\ l.key = s /\ l.at = relays[s].beat
        BY <3>1 DEF LeaseFacts
      <3> QED BY <3>1, <3>2, <3>3 DEF Beating
    <2> QED BY <2>2, <2>3, <2>5, <2>6 DEF RelayCall, Beating
  <1> QED BY <1>1, <1>2

\* A step of a request.
LEMMA StepKeepsRelay ==
    ASSUME CallShapes, Limits, LeaseFacts, [Next]_vars, leases \subseteq leases', NEW c \in Calls,
           Blank(c), RelayCall(c), calls'[c] # calls[c]
    PROVE  RelayCall(c)'
  <1>1. ASSUME NEW req \in load.requests, Receive(c, req)
        PROVE  RelayCall(c)'
    <2>1. /\ calls[c] = Fresh /\ calls'[c].at = "auth"
      BY <1>1, ReceiveMoves
    <2> QED BY <2>1 DEF RelayCall, Carried
  <1>2. CASE Authenticate(c) \/ AuthenticateSigner(c) \/ AuthenticateAgentFromHeaders(c)
    BY <1>2, AuthenticateMoves, AuthenticateSignerMoves, AuthenticateAgentFromHeadersMoves,
       MoveAwayFromRelays DEF Carried
  <1>3. CASE RateLimit(c)
    <2>1. Counted(c)
      BY <1>3, RateLimitMoves
    <2> QED BY <2>1, MoveAwayFromRelays DEF Counted, Carried
  <1>4. CASE FindServingAgent(c) \/ FindSigningAgent(c)
    BY <1>4, FindServingAgentMoves, FindSigningAgentMoves, MoveAwayFromRelays DEF Carried
  <1>5. CASE ReadConfig(c) \/ ReadSigningConfig(c)
    BY <1>5, ReadConfigMoves, ReadSigningConfigMoves, MoveAwayFromRelays DEF Carried
  <1>6. CASE ParseRequest(c) \/ FindOwningAgents(c) \/ ReadValues(c) \/ ReadSigningValue(c)
    BY <1>6, ParseRequestMoves, FindOwningAgentsMoves, ReadValuesMoves, ReadSigningValueMoves,
       MoveAwayFromRelays
  <1>7. CASE ClaimRelaySession(c) \/ WriteAuthfile(c)
    BY <1>7, ClaimRelaySessionMoves, WriteAuthfileMoves, MoveAwayFromRelays
  <1>8. CASE RelayGate(c)
    BY <1>8, GateFindsRelay
  <1>9. CASE ReadValue(c)
    BY <1>9, RouteMeetsGate
  <1>10. CASE RelayConfig(c) \/ ListSessions(c)
    BY <1>10, HeartbeatSteps
  <1>11. CASE \/ ReadPolicy(c) \/ Evaluate(c) \/ ClaimGrant(c)
              \/ Ask(c) \/ AskForPlaceholders(c) \/ AskToSign(c)
              \/ \E verdict \in Verdicts : Decide(c, verdict) \/ DecideToSign(c, verdict)
    BY <1>11, DecidingSteps, MoveKeepsRelay DEF Deciding, Carried
  <1>12. CASE ExchangeToken(c) \/ Send(c) \/ RetryWithOauth1(c) \/ Answer(c)
    BY <1>12, UsingSteps, MoveKeepsRelay DEF Using, Carried
  <1>13. CASE SignPayload(c)
    BY <1>13, SignPayloadMoves, MoveAwayFromRelays
  <1> QED BY OwnStep, <1>1, <1>2, <1>3, <1>4, <1>5, <1>6, <1>7, <1>8, <1>9, <1>10, <1>11,
             <1>12, <1>13 DEF Act

RelayInv == LeaseFacts /\ \A c \in Calls : RelayCall(c)

\* A relay serves one holder at a time and its own credential, and what leaves
\* through it or is admitted by it found it beating (claim_relay_session,
\* live_relay_holder, list_live_relay_sessions).
THEOREM RelaysHold == Spec => []RelaysAreOwn
  <1>1. ASSUME Init PROVE RelayInv
    <2>1. /\ load \in Loads /\ clock = 0 /\ creds = load.creds /\ leases = {}
          /\ relays = [k \in DOMAIN load.creds |-> NoLease]
          /\ authfile = [sessions |-> {}, asOf |-> 0]
          /\ \A c \in Calls : calls[c] = Fresh
      BY <1>1 DEF Init
    <2>2. NoLease.holder = NoOne /\ NoLease.beat = 0 /\ Fresh.at = "idle"
      BY DEF NoLease, Fresh
    <2> QED BY <2>1, <2>2 DEF RelayInv, LeaseFacts, LeaseIsExclusive, RelayCall, Carried
  <1>2. ASSUME KeysInv, GateInv, RelayInv, [Next]_vars PROVE RelayInv'
    <2>1. LeaseFacts' /\ leases \subseteq leases' /\ DOMAIN relays' = DOMAIN relays /\ load' = load
      BY <1>2, StepsKeepLeases DEF KeysInv, RelayInv
    <2>2. ASSUME NEW c \in Calls PROVE RelayCall(c)'
      <3>1. CASE calls'[c] = calls[c]
        <4>1. Key(c)' = Key(c) /\ UsesRelay(calls[c].cred)' = UsesRelay(calls[c].cred)
          BY <2>1, <3>1 DEF Key, Team, UsesRelay
        <4>2. \A s, t : Beating(s, t) => Beating(s, t)'
          BY <2>1, BeatingStays
        <4>3. RelayCall(c)
          BY <1>2 DEF RelayInv
        <4> QED BY <2>1, <3>1, <4>1, <4>2, <4>3 DEF RelayCall, Beating
      <3>2. CASE calls'[c] # calls[c]
        BY <1>2, <2>1, <3>2, StepKeepsRelay DEF KeysInv, GateInv, RelayInv
      <3> QED BY <3>1, <3>2
    <2> QED BY <2>1, <2>2 DEF RelayInv
  <1>3. RelayInv => RelaysAreOwn
    BY DEF RelayInv, LeaseFacts, RelayCall, RelaysAreOwn, EgressNeedsOwnRelay,
           AuthfileFollowsLeases, Beating, At, Kind
  <1> QED BY <1>1, <1>2, <1>3, KeysHold, GateFactsHold, PTL DEF Spec

-----------------------------------------------------------------------------
(* Owners                                                                  *)

(* This row is stored under this key, sooner or later.                     *)
StoredAs(k, row) == <<k, row>> \in Stored(load)

(* Every row that a load ever stores this value in is of this owner.       *)
OwnedIn(l, id, owner) ==
    \A r \in ({l.creds[k] : k \in DOMAIN l.creds} \cup {e.cred : e \in l.edits}) \ {NoValue} :
        r.value # NoValue /\ r.value.id = id => r.owner = owner

OwnedBy(id, owner) == OwnedIn(load, id, owner)

EndUserOf(c) == IF calls[c].req.kind = "legacy" THEN NoOne ELSE calls[c].req.endUser

RowsFacts == \A k \in DOMAIN creds : creds[k] # NoValue => StoredAs(k, creds[k])

Held == {"value", "relay", "policy", "mode", "grant", "ask", "wait", "exchange", "send",
         "retry", "answer", "sign"}

(* The row that was checked is the request's own.                          *)
Mine(c) == StoredAs(Key(c), calls[c].cred) /\ calls[c].cred.owner = calls[c].req.endUser

Own(c) ==
    LET call == calls[c] IN
        /\ call.req.kind \in {"forward", "sign"} /\ call.at \in Held => Mine(c)
        /\ call.req.kind = "forward" /\ call.at \in Carried \cup {"relay"} =>
               \A p \in call.route.pieces : OwnedBy(p[1], call.req.endUser)
        /\ call.req.kind = "sign" /\ call.at \in Carried \cup {"sign"} =>
               OwnedBy(call.value.id, call.req.endUser)
        /\ call.req.kind = "legacy" /\ call.at = "value" =>
               \A n \in DOMAIN call.held : call.held[n][2] = n
        /\ call.req.kind = "legacy" /\ call.at \in Carried =>
               \A n \in DOMAIN call.held : Len(n) = 1 => OwnedBy(call.held[n].value.id, NoOne)
        /\ \A p \in call.sent : OwnedBy(p[1], EndUserOf(c))
        /\ call.signed = TRUE => OwnedBy(call.value.id, EndUserOf(c))
        /\ /\ call.at # "idle" /\ call.req.kind = "relay"
           /\ call.leased = TRUE \/ call.at \in {"claim", "list", "project"}
           => call.cred.owner = call.req.endUser
        /\ call.at \in {"idle", "auth", "relay_config"} => call.leased = FALSE

\* What is stored, in these terms: what is under one name is of one owner, and
\* what is of the team has a plain name.
LEMMA StoredRows ==
    ASSUME load \in Loads
    PROVE  /\ \A k, r, s : StoredAs(k, r) /\ StoredAs(k, s) => r.owner = s.owner
           /\ \A k, r : StoredAs(k, r) /\ Len(k[2]) = 1 => r.owner = NoOne
           /\ \A j, k, r, s : /\ StoredAs(j, r) /\ StoredAs(k, s)
                              /\ r.value # NoValue /\ s.value # NoValue /\ r.value.id = s.value.id
                              => j = k
           /\ \A k, r : StoredAs(k, r) /\ ParsesAs(r.value, "google")
                        /\ ~ParsesAs(r.value, "microsoft") => r.value.issuer = "google"
  <1>1. /\ \A x \in Stored(load) : Len(x[1][2]) = 1 => x[2].owner = NoOne
        /\ \A x, y \in Stored(load) : x[1] = y[1] => x[2].owner = y[2].owner
        /\ \A x, y \in Stored(load) :
               /\ x[2].value # NoValue /\ y[2].value # NoValue
               /\ x[2].value.id = y[2].value.id
               => x[1] = y[1]
        /\ \A x \in Stored(load) :
               /\ ParsesAs(x[2].value, "google") /\ ~ParsesAs(x[2].value, "microsoft")
               => x[2].value.issuer = "google"
    BY StoredAssumption
  <1>2. \A k, r : <<k, r>>[1] = k /\ <<k, r>>[2] = r
    OBVIOUS
  <1>3. \A k, r, s : StoredAs(k, r) /\ StoredAs(k, s) => r.owner = s.owner
    BY <1>1, <1>2 DEF StoredAs
  <1>4. \A k, r : StoredAs(k, r) /\ Len(k[2]) = 1 => r.owner = NoOne
    BY <1>1, <1>2 DEF StoredAs
  <1>5. \A j, k, r, s : /\ StoredAs(j, r) /\ StoredAs(k, s)
                        /\ r.value # NoValue /\ s.value # NoValue /\ r.value.id = s.value.id
                        => j = k
    BY <1>1, <1>2 DEF StoredAs
  <1>6. \A k, r : StoredAs(k, r) /\ ParsesAs(r.value, "google")
                  /\ ~ParsesAs(r.value, "microsoft") => r.value.issuer = "google"
    BY <1>1, <1>2 DEF StoredAs
  <1> QED BY <1>3, <1>4, <1>5, <1>6

\* Every row that ever held a value is of the owner of the row it is read from.
LEMMA ValueHasOneOwner ==
    ASSUME load \in Loads, NEW k, NEW r, StoredAs(k, r), r.value # NoValue
    PROVE  OwnedBy(r.value.id, r.owner)
  <1> DEFINE all == ({load.creds[i] : i \in DOMAIN load.creds} \cup {e.cred : e \in load.edits})
                        \ {NoValue}
  <1> SUFFICES ASSUME NEW row \in all, row.value # NoValue, row.value.id = r.value.id
               PROVE  row.owner = r.owner
    BY DEF OwnedBy, OwnedIn
  <1>1. row # NoValue /\ row.value # NoValue /\ row.value.id = r.value.id
    OBVIOUS
  <1>2. PICK j : StoredAs(j, row)
    <2>1. CASE \E i \in DOMAIN load.creds : row = load.creds[i]
      <3>1. PICK i \in DOMAIN load.creds : row = load.creds[i]
        BY <2>1
      <3>2. <<i, load.creds[i]>>[2] # NoValue
        BY <1>1, <3>1
      <3> QED BY <3>1, <3>2 DEF StoredAs, Stored
    <2>2. CASE \E e \in load.edits : row = e.cred
      <3>1. PICK e \in load.edits : row = e.cred
        BY <2>2
      <3>2. <<e.key, e.cred>>[2] # NoValue
        BY <1>1, <3>1
      <3> QED BY <3>1, <3>2 DEF StoredAs, Stored
    <2> QED BY <2>1, <2>2
  <1>3. j = k
    BY <1>1, <1>2, StoredRows
  <1> QED BY <1>2, <1>3, StoredRows

\* What is stored now was stored sooner or later.
LEMMA StepsKeepRows ==
    ASSUME load \in Loads, Limits, RowsFacts, [Next]_vars
    PROVE  RowsFacts' /\ load' = load
  <1>1. ASSUME NEW e \in edits, Edit(e) PROVE RowsFacts' /\ load' = load
    <2>1. /\ load' = load /\ creds' = [creds EXCEPT ![e.key] = e.cred] /\ e \in load.edits
      BY <1>1 DEF Edit, Limits
    <2>2. e.cred # NoValue => StoredAs(e.key, e.cred)
      <3>1. <<e.key, e.cred>>[2] = e.cred
        OBVIOUS
      <3> QED BY <2>1, <3>1 DEF StoredAs, Stored
    <2>3. \A k, r : StoredAs(k, r)' = StoredAs(k, r)
      BY <2>1 DEF StoredAs
    <2>4. ASSUME NEW k \in DOMAIN creds', creds'[k] # NoValue PROVE StoredAs(k, creds'[k])
      <3>1. CASE k = e.key
        BY <2>1, <2>2, <2>4, <3>1
      <3>2. CASE k # e.key
        BY <2>1, <2>4, <3>2 DEF RowsFacts
      <3> QED BY <3>1, <3>2
    <2> QED BY <2>1, <2>3, <2>4 DEF RowsFacts
  <1>2. ASSUME load' = load, creds' = creds PROVE RowsFacts'
    BY <1>2 DEF RowsFacts, StoredAs
  <1>3. ASSUME NEW c \in Calls,
               \/ RateLimit(c) \/ FindServingAgent(c) \/ FindSigningAgent(c)
               \/ ClaimRelaySession(c) \/ WriteAuthfile(c) \/ ClaimGrant(c)
        PROVE  load' = load /\ creds' = creds
    BY <1>3 DEF RateLimit, FindServingAgent, FindSigningAgent, ClaimRelaySession, WriteAuthfile,
          ClaimGrant
  <1>4. UNCHANGED Shared \/ Tick => load' = load /\ creds' = creds
    BY DEF Shared, Tick
  <1> QED BY <1>1, <1>2, <1>3, <1>4, SharedSteps

\* What a route carries is of the value it is made for.
LEMMA RouteCarriesItsValue ==
    ASSUME NEW cred, NEW value, NEW target, NEW method, NEW mode,
           ResolveUnifiedRoute(cred, value, target, method, mode).error = "none",
           NEW p \in ResolveUnifiedRoute(cred, value, target, method, mode).pieces
    PROVE  value # NoValue /\ p[1] = value.id
  <1> DEFINE scheme == IF cred.connector = "direct" THEN "direct"
                       ELSE InlineScheme(value, mode, method)
             R == ResolveUnifiedRoute(cred, value, target, method, mode)
  <1>1. CASE scheme = "direct"
    <2>1. DirectError(cred, value) = "none" /\ R.pieces = DirectPieces(cred, value)
      <3>1. scheme # "sidecar"
        BY <1>1
      <3> QED BY <1>1 DEF ResolveUnifiedRoute, Route
    <2>2. value # NoValue
      BY <2>1 DEF DirectError
    <2> HIDE DEF R, scheme
    <2>3. p \in DirectPieces(cred, value)
      BY <2>1 DEF R
    <2>4. CASE cred.bindings # {}
      <3>1. PICK b \in cred.bindings : p = <<value.id, b.field>>
        BY <2>3, <2>4 DEF DirectPieces, BindingPiece
      <3> QED BY <2>2, <3>1
    <2>5. CASE cred.bindings = {} /\ cred.format = "fields"
      <3>1. PICK f \in value.fields : p = <<value.id, f>>
        BY <2>3, <2>5 DEF DirectPieces
      <3> QED BY <2>2, <3>1
    <2>6. CASE cred.bindings = {} /\ cred.format # "fields"
      BY <2>2, <2>3, <2>6 DEF DirectPieces, WholeOf
    <2> QED BY <2>2, <2>4, <2>5, <2>6
  <1>2. CASE scheme # "direct"
    <2>1. R.pieces = SidecarPieces(value, scheme)
      BY <1>2 DEF ResolveUnifiedRoute, Route
    <2>2. scheme = "bearer" => value # NoValue
      BY DEF InlineScheme, ChosenXMode, ParsesAs
    <2> HIDE DEF scheme
    <2>3. p \in SidecarPieces(value, scheme)
      BY <2>1
    <2>4. CASE scheme = "bearer"
      BY <2>2, <2>3, <2>4 DEF SidecarPieces
    <2>5. CASE scheme = "sidecar"
      BY <2>3, <2>5 DEF SidecarPieces, WholeOf
    <2>6. CASE scheme \notin {"bearer", "sidecar"}
      BY <2>3, <2>6 DEF SidecarPieces
    <2> QED BY <2>4, <2>5, <2>6
  <1> QED BY <1>1, <1>2

\* The fields that tell whose a request's secrets are, when a step leaves them.
LEMMA SameOwner ==
    ASSUME NEW c, NEW kinds, NEW from, NEW to, NEW writes, Moves(c, kinds, from, to, writes),
           "req" \notin writes
    PROVE  /\ load' = load /\ calls[c].at \in from /\ calls'[c].at \in to
           /\ calls[c].req.kind \in kinds /\ calls'[c].req = calls[c].req
           /\ EndUserOf(c)' = EndUserOf(c)
           /\ {"by", "name", "cred"} \cap writes = {} => Mine(c)' = Mine(c)
  <1>1. /\ load' = load /\ calls[c].at \in from /\ calls'[c].at \in to
        /\ calls[c].req.kind \in kinds /\ calls'[c].req = calls[c].req
    BY FieldNames DEF Moves
  <1>2. EndUserOf(c)' = EndUserOf(c)
    BY <1>1 DEF EndUserOf
  <1>3. ASSUME {"by", "name", "cred"} \cap writes = {} PROVE Mine(c)' = Mine(c)
    <2>1. /\ calls'[c].by = calls[c].by /\ calls'[c].name = calls[c].name
          /\ calls'[c].cred = calls[c].cred
      BY <1>3, FieldNames DEF Moves
    <2>2. Key(c)' = Key(c)
      BY <1>1, <2>1 DEF Key, Team
    <2> QED BY <1>1, <2>1, <2>2 DEF Mine, StoredAs
  <1> QED BY <1>1, <1>2, <1>3

\* A request that ends without using anything more.
LEMMA EndKeepsOwn ==
    ASSUME NEW c, Own(c), NEW kinds, NEW from, NEW to, NEW writes,
           Moves(c, kinds, from, to, writes), to \subseteq {"done"}, "idle" \notin from,
           {"req", "sent", "signed", "leased", "cred", "value"} \cap writes = {}
    PROVE  Own(c)'
  <1>1. /\ calls[c].at \in from /\ calls'[c].at = "done" /\ calls'[c].req = calls[c].req
        /\ EndUserOf(c)' = EndUserOf(c)
        /\ load' = load
    BY SameOwner
  <1>2. /\ calls'[c].sent = calls[c].sent /\ calls'[c].signed = calls[c].signed
        /\ calls'[c].leased = calls[c].leased /\ calls'[c].cred = calls[c].cred
        /\ calls'[c].value = calls[c].value
    BY FieldNames DEF Moves
  <1>3. \A p \in calls'[c].sent : OwnedBy(p[1], EndUserOf(c))'
    BY <1>1, <1>2 DEF Own, OwnedBy
  <1>4. calls'[c].signed = TRUE => OwnedBy(calls[c].value.id, EndUserOf(c))'
    BY <1>1, <1>2 DEF Own, OwnedBy
  <1>5. calls[c].at # "idle"
    BY <1>1
  <1>6. calls[c].req.kind = "relay" /\ calls'[c].leased = TRUE => calls[c].cred.owner = calls[c].req.endUser
    BY <1>2, <1>5 DEF Own
  <1> QED BY <1>1, <1>2, <1>3, <1>4, <1>6 DEF Own, Held, Carried

\* A request that has not yet been found a credential.
LEMMA EarlyKeepsOwn ==
    ASSUME NEW c, Own(c), Blank(c), NEW kinds, NEW from, NEW to, NEW writes,
           Moves(c, kinds, from, to, writes),
           to \cap (Held \cup {"claim", "list", "project", "auth", "idle"}) = {},
           from \cap {"idle", "retry", "answer", "done"} = {},
           {"req", "sent", "signed", "leased"} \cap writes = {},
           from \subseteq {"auth"} \/ ("relay" \notin kinds /\ "relay_config" \notin to)
    PROVE  Own(c)'
  <1>1. /\ calls[c].at \in from /\ calls'[c].at \in to /\ calls'[c].req = calls[c].req
        /\ calls[c].req.kind \in kinds
    BY SameOwner
  <1>2. /\ calls'[c].sent = calls[c].sent /\ calls'[c].signed = calls[c].signed
        /\ calls'[c].leased = calls[c].leased
    BY FieldNames DEF Moves
  <1>3. calls[c].sent = {} /\ calls[c].signed = FALSE
    BY <1>1 DEF Blank
  <1>4. calls'[c].at \notin Held \cup {"claim", "list", "project", "auth", "idle"}
    BY <1>1
  <1>5. CASE from \subseteq {"auth"}
    <2>1. calls'[c].leased = FALSE
      BY <1>1, <1>2, <1>5 DEF Own
    <2> QED BY <1>2, <1>3, <1>4, <2>1 DEF Own, Held, Carried
  <1>6. CASE "relay" \notin kinds /\ "relay_config" \notin to
    <2>1. calls'[c].req.kind # "relay" /\ calls'[c].at # "relay_config"
      BY <1>1, <1>6
    <2> QED BY <1>2, <1>3, <1>4, <2>1 DEF Own, Held, Carried
  <1> QED BY <1>5, <1>6

\* A request that is decided on and carried out with what it holds.
LEMMA CarryingKeepsOwn ==
    ASSUME NEW c, Own(c), NEW kinds, NEW from, NEW to, NEW writes,
           Moves(c, kinds, from, to, writes), from \subseteq Carried,
           to \subseteq Carried \cup {"sign", "done"}, "relay" \notin kinds,
           {"req", "by", "name", "cred", "value", "held", "route", "signed", "leased"}
               \cap writes = {},
           \A p \in calls'[c].sent : OwnedBy(p[1], EndUserOf(c))
    PROVE  Own(c)'
  <1>1. /\ calls[c].at \in from /\ calls'[c].at \in to /\ calls'[c].req = calls[c].req
        /\ calls[c].req.kind \in kinds /\ EndUserOf(c)' = EndUserOf(c)
        /\ load' = load
        /\ Mine(c)' = Mine(c)
    BY SameOwner
  <1>2. /\ calls'[c].value = calls[c].value /\ calls'[c].held = calls[c].held
        /\ calls'[c].route = calls[c].route /\ calls'[c].signed = calls[c].signed
        /\ calls'[c].leased = calls[c].leased
    BY FieldNames DEF Moves
  <1>3. calls[c].at \in Carried /\ calls[c].at \in Held /\ calls[c].req.kind # "relay"
    BY <1>1 DEF Carried, Held
  <1>4. /\ calls'[c].at \in Carried \cup {"sign", "done"}
        /\ calls'[c].at \notin {"idle", "auth", "relay_config", "relay", "value"}
    BY <1>1 DEF Carried
  <1>5. \A p \in calls'[c].sent : OwnedBy(p[1], EndUserOf(c))'
    BY <1>1 DEF OwnedBy
  <1>6. calls'[c].signed = TRUE => OwnedBy(calls[c].value.id, EndUserOf(c))'
    BY <1>1, <1>2 DEF Own, OwnedBy
  <1>7. /\ calls[c].req.kind = "forward" =>
               \A p \in calls[c].route.pieces : OwnedBy(p[1], calls[c].req.endUser)'
        /\ calls[c].req.kind = "sign" => OwnedBy(calls[c].value.id, calls[c].req.endUser)'
        /\ calls[c].req.kind = "legacy" =>
               \A n \in DOMAIN calls[c].held :
                   Len(n) = 1 => OwnedBy(calls[c].held[n].value.id, NoOne)'
        /\ calls[c].req.kind \in {"forward", "sign"} => Mine(c)'
    BY <1>1, <1>2, <1>3 DEF Own, OwnedBy
  <1> QED BY <1>1, <1>2, <1>3, <1>4, <1>5, <1>6, <1>7 DEF Own, OwnedBy

\* A heartbeat that goes on with the credential it was found.
LEMMA BeatingKeepsOwn ==
    ASSUME NEW c, Own(c), Blank(c), NEW from, NEW to, NEW writes,
           Moves(c, {"relay"}, from, to, writes), from \subseteq {"claim", "list", "project"},
           to \subseteq {"list", "project", "done"},
           {"req", "sent", "signed", "cred"} \cap writes = {}
    PROVE  Own(c)'
  <1>1. /\ calls[c].at \in from /\ calls'[c].at \in to /\ calls'[c].req = calls[c].req
        /\ calls[c].req.kind = "relay"
    BY SameOwner
  <1>2. /\ calls'[c].sent = calls[c].sent /\ calls'[c].signed = calls[c].signed
        /\ calls'[c].cred = calls[c].cred
    BY FieldNames DEF Moves
  <1>3. calls[c].at \in {"claim", "list", "project"} /\ calls'[c].at \in {"list", "project", "done"}
    BY <1>1
  <1>4. calls[c].sent = {} /\ calls[c].signed = FALSE
    BY <1>3 DEF Blank
  <1>5. calls[c].cred.owner = calls[c].req.endUser
    BY <1>1, <1>3 DEF Own
  <1> QED BY <1>1, <1>2, <1>3, <1>4, <1>5 DEF Own

\* The row that is read and checked is the request's own.
LEMMA ConfigIsOwn ==
    ASSUME CallShapes, RowsFacts, NEW c \in Calls, Own(c), Blank(c),
           ReadConfig(c) \/ ReadSigningConfig(c)
    PROVE  Own(c)'
  <1>1. \/ Moves(c, {"forward"}, {"config"}, {"done", "value"}, {"cred"})
        \/ Moves(c, {"sign"}, {"config"}, {"done", "value"}, {"cred"})
    BY ReadConfigMoves, ReadSigningConfigMoves
  <1>2. PICK kind \in {"forward", "sign"} : Moves(c, {kind}, {"config"}, {"done", "value"}, {"cred"})
    BY <1>1
  <1>3. /\ calls[c].at = "config" /\ calls[c].req.kind = kind /\ calls'[c].req = calls[c].req
        /\ load' = load /\ calls'[c].at \in {"done", "value"}
        /\ calls'[c].by = calls[c].by /\ calls'[c].name = calls[c].name
        /\ calls'[c].sent = calls[c].sent /\ calls'[c].signed = calls[c].signed
        /\ calls'[c].leased = calls[c].leased
    BY <1>2, FieldNames DEF Moves
  <1>4. calls[c].sent = {} /\ calls[c].signed = FALSE
    BY <1>3 DEF Blank
  <1>5. calls'[c].at = "value" => Mine(c)'
    <2>1. CASE Refuse(c)
      <3>1. calls'[c].at = "done"
        BY <2>1, KindByStage, FieldNames DEF Refuse, CallShapes
      <3> QED BY <3>1
    <2>2. CASE ~Refuse(c)
      <3> DEFINE w == [calls[c] EXCEPT !.at = "value", !.cred = creds[Key(c)]]
      <3>1. Takes(c, w) /\ OwnConfig(c)
        BY <2>2 DEF ReadConfig, ReadSigningConfig
      <3>2. w.cred = creds[Key(c)]
        BY KindByStage, FieldNames
      <3> HIDE DEF w
      <3>3. calls'[c].cred = creds[Key(c)]
        BY <3>1, <3>2, Taken
      <3>4. StoredAs(Key(c), creds[Key(c)]) /\ creds[Key(c)].owner = calls[c].req.endUser
        BY <3>1 DEF OwnConfig, Exists, OwnerMatches, RowsFacts
      <3>5. Key(c)' = Key(c)
        BY <1>3 DEF Key, Team
      <3> QED BY <1>3, <3>3, <3>4, <3>5 DEF Mine, StoredAs
    <2> QED BY <2>1, <2>2
  <1> QED BY <1>3, <1>4, <1>5 DEF Own, Carried, Held

\* What is stored under the request's name now is of its end-user.
LEMMA ValueIsOwn ==
    ASSUME CallShapes, RowsFacts, NEW c \in Calls, Mine(c), StoredValue(Key(c)) # NoValue
    PROVE  OwnedBy(StoredValue(Key(c)).id, calls[c].req.endUser)
  <1>1. /\ StoredAs(Key(c), creds[Key(c)]) /\ creds[Key(c)].value = StoredValue(Key(c))
    BY DEF StoredValue, Exists, RowsFacts
  <1>2. load \in Loads
    BY DEF CallShapes
  <1>3. OwnedBy(creds[Key(c)].value.id, creds[Key(c)].owner)
    BY <1>1, <1>2, ValueHasOneOwner
  <1>4. creds[Key(c)].owner = calls[c].req.endUser
    BY <1>1, <1>2, StoredRows DEF Mine
  <1> QED BY <1>1, <1>3, <1>4

\* The route carries what is the request's own.
LEMMA RouteIsOwn ==
    ASSUME CallShapes, RowsFacts, NEW c \in Calls, Own(c), Blank(c), ReadValue(c)
    PROVE  Own(c)'
  <1>1. Moves(c, {"forward"}, {"value"}, {"done", "relay", "policy"}, {"value", "route"})
    BY ReadValueMoves
  <1>2. /\ calls[c].at = "value" /\ calls[c].req.kind = "forward" /\ calls'[c].req = calls[c].req
        /\ load' = load /\ calls'[c].at \in {"done", "relay", "policy"}
        /\ calls'[c].sent = calls[c].sent /\ calls'[c].signed = calls[c].signed
        /\ calls'[c].leased = calls[c].leased
    BY <1>1, FieldNames DEF Moves
  <1>3. Mine(c)' = Mine(c)
    BY <1>1, SameOwner
  <1>4. Mine(c)
    BY <1>2 DEF Own, Held
  <1>5. calls[c].sent = {} /\ calls[c].signed = FALSE
    BY <1>2 DEF Blank
  <1>6. calls'[c].at # "done" =>
            \A p \in calls'[c].route.pieces : OwnedBy(p[1], calls[c].req.endUser)
    <2>1. CASE Refuse(c)
      <3>1. calls'[c].at = "done"
        BY <2>1, KindByStage, FieldNames DEF Refuse, CallShapes
      <3> QED BY <3>1
    <2>2. CASE ~Refuse(c)
      <3> DEFINE v == StoredValue(Key(c))
                 r == ResolveUnifiedRoute(calls[c].cred, v, calls[c].req.target,
                                          calls[c].req.method, calls[c].req.mode)
                 t == IF UsesRelay(calls[c].cred) THEN "relay" ELSE "policy"
                 w == [calls[c] EXCEPT !.at = t, !.value = v, !.route = r]
      <3>1. Takes(c, w) /\ r.error = "none"
        BY <2>2 DEF ReadValue
      <3> HIDE DEF t
      <3>2. w.route = r
        <4> HIDE DEF r
        <4> QED BY KindByStage, FieldNames
      <3>3. calls'[c].route = r
        <4> HIDE DEF r, w
        <4> QED BY <3>1, <3>2, Taken
      <3>4. \A p \in r.pieces : v # NoValue /\ p[1] = v.id
        BY <3>1, RouteCarriesItsValue
      <3> HIDE DEF r, w
      <3>5. v # NoValue => OwnedBy(v.id, calls[c].req.endUser)
        BY <1>4, ValueIsOwn
      <3> QED BY <3>3, <3>4, <3>5
    <2> QED BY <2>1, <2>2
  <1>7. calls'[c].at # "done" =>
            \A p \in calls'[c].route.pieces : OwnedBy(p[1], calls[c].req.endUser)'
    BY <1>2, <1>6 DEF OwnedBy
  <1> QED BY <1>2, <1>3, <1>4, <1>5, <1>7 DEF Own, OwnedBy, Carried, Held

\* So is the key that is to sign.
LEMMA SigningValueIsOwn ==
    ASSUME CallShapes, RowsFacts, NEW c \in Calls, Own(c), Blank(c), ReadSigningValue(c)
    PROVE  Own(c)'
  <1>1. Moves(c, {"sign"}, {"value"}, {"done", "policy"}, {"value"})
    BY ReadSigningValueMoves
  <1>2. /\ calls[c].at = "value" /\ calls[c].req.kind = "sign" /\ calls'[c].req = calls[c].req
        /\ load' = load /\ calls'[c].at \in {"done", "policy"}
        /\ calls'[c].sent = calls[c].sent /\ calls'[c].signed = calls[c].signed
        /\ calls'[c].leased = calls[c].leased
    BY <1>1, FieldNames DEF Moves
  <1>3. Mine(c)' = Mine(c)
    BY <1>1, SameOwner
  <1>4. Mine(c)
    BY <1>2 DEF Own, Held
  <1>5. calls[c].sent = {} /\ calls[c].signed = FALSE
    BY <1>2 DEF Blank
  <1>6. calls'[c].at # "done" => OwnedBy(calls'[c].value.id, calls[c].req.endUser)
    <2>1. CASE Refuse(c)
      <3>1. calls'[c].at = "done"
        BY <2>1, KindByStage, FieldNames DEF Refuse, CallShapes
      <3> QED BY <3>1
    <2>2. CASE ~Refuse(c)
      <3> DEFINE v == StoredValue(Key(c))
                 w == [calls[c] EXCEPT !.at = "policy", !.value = v]
      <3>1. Takes(c, w) /\ v # NoValue
        BY <2>2 DEF ReadSigningValue, ParsesAs
      <3>2. w.value = v
        BY KindByStage, FieldNames
      <3> HIDE DEF w
      <3>3. calls'[c].value = v
        BY <3>1, <3>2, Taken
      <3>4. OwnedBy(v.id, calls[c].req.endUser)
        BY <1>4, <3>1, ValueIsOwn
      <3> QED BY <3>3, <3>4
    <2> QED BY <2>1, <2>2
  <1>7. calls'[c].at # "done" => OwnedBy(calls[c].value.id, calls[c].req.endUser)'
    BY <1>2, <1>6 DEF OwnedBy
  <1> QED BY <1>2, <1>3, <1>4, <1>5, <1>7 DEF Own, OwnedBy, Carried, Held

\* Of what is held for placeholders, what has a plain name is the team's.
LEMMA HeldIsOwn ==
    ASSUME CallShapes, RowsFacts, NEW c \in Calls, Own(c), Blank(c),
           FindOwningAgents(c) \/ ReadValues(c)
    PROVE  Own(c)'
  <1>1. CASE FindOwningAgents(c)
    <2>1. Moves(c, {"legacy"}, {"serve"}, {"done", "value"}, {"held"})
      BY <1>1, FindOwningAgentsMoves
    <2>2. /\ calls[c].at = "serve" /\ calls[c].req.kind = "legacy" /\ calls'[c].req = calls[c].req
          /\ calls'[c].at \in {"done", "value"}
          /\ calls'[c].sent = calls[c].sent /\ calls'[c].signed = calls[c].signed
      BY <2>1, FieldNames DEF Moves
    <2>3. calls[c].sent = {} /\ calls[c].signed = FALSE
      BY <2>2 DEF Blank
    <2>4. calls'[c].at = "value" => \A n \in DOMAIN calls'[c].held : calls'[c].held[n][2] = n
      <3>1. CASE Refuse(c)
        <4>1. calls'[c].at = "done"
          BY <3>1, KindByStage, FieldNames DEF Refuse, CallShapes
        <4> QED BY <4>1
      <3>2. CASE ~Refuse(c)
        <4> DEFINE names == {CredNames(calls[c].req)[i] : i \in DOMAIN CredNames(calls[c].req)}
                   owner == [n \in names |-> FirstServing(calls[c].agents, n, NoOne)]
                   h == [n \in names |-> <<load.agents[owner[n]].team, n>>]
                   w == [calls[c] EXCEPT !.at = "value", !.held = h]
        <4>1. Takes(c, w)
          BY <1>1, <3>2 DEF FindOwningAgents
        <4>2. DOMAIN h = names /\ \A n \in names : h[n][2] = n
          <5> HIDE DEF names, owner
          <5> QED OBVIOUS
        <4> HIDE DEF h
        <4>3. w.held = h
          BY KindByStage, FieldNames
        <4> HIDE DEF w
        <4>4. calls'[c].held = h
          BY <4>1, <4>3, Taken
        <4> QED BY <4>2, <4>4
      <3> QED BY <3>1, <3>2
    <2> QED BY <2>2, <2>3, <2>4 DEF Own, Carried
  <1>2. CASE ReadValues(c)
    <2>1. Moves(c, {"legacy"}, {"value"}, {"done", "policy"}, {"name", "held", "route"})
      BY <1>2, ReadValuesMoves
    <2>2. /\ calls[c].at = "value" /\ calls[c].req.kind = "legacy" /\ calls'[c].req = calls[c].req
          /\ calls'[c].at \in {"done", "policy"} /\ load' = load
          /\ calls'[c].sent = calls[c].sent /\ calls'[c].signed = calls[c].signed
      BY <2>1, FieldNames DEF Moves
    <2>3. calls[c].sent = {} /\ calls[c].signed = FALSE
      BY <2>2 DEF Blank
    <2>4. calls'[c].at # "done" => \A n \in DOMAIN calls'[c].held :
              Len(n) = 1 => OwnedBy(calls'[c].held[n].value.id, NoOne)
      <3>1. CASE Refuse(c)
        <4>1. calls'[c].at = "done"
          BY <3>1, KindByStage, FieldNames DEF Refuse, CallShapes
        <4> QED BY <4>1
      <3>2. CASE ~Refuse(c)
        <4> DEFINE held == calls[c].held
                   h == [n \in DOMAIN held |-> [key |-> held[n], value |-> StoredValue(held[n])]]
        <4>1. PICK m, q : /\ Takes(c, [calls[c] EXCEPT !.at = "policy", !.name = m, !.held = h,
                                                       !.route = q])
                          /\ \A n \in DOMAIN held : StoredValue(held[n]) # NoValue
          BY <1>2, <3>2 DEF ReadValues
        <4>2. DOMAIN h = DOMAIN held /\ \A n \in DOMAIN held : h[n].value = StoredValue(held[n])
          OBVIOUS
        <4> DEFINE w == [calls[c] EXCEPT !.at = "policy", !.name = m, !.held = h, !.route = q]
        <4> HIDE DEF h
        <4>3. w.held = h
          BY KindByStage, FieldNames
        <4>4. calls'[c].held = h
          <5> HIDE DEF w
          <5>1. Takes(c, w)
            BY <4>1 DEF w
          <5> QED BY <4>3, <5>1, Taken
        <4>5. ASSUME NEW n \in DOMAIN held, Len(n) = 1
              PROVE  OwnedBy(StoredValue(held[n]).id, NoOne)
          <5> DEFINE k == held[n]
          <5>1. k[2] = n /\ load \in Loads
            BY <2>2 DEF Own, CallShapes
          <5>2. StoredValue(k) # NoValue
            BY <4>1
          <5>3. StoredAs(k, creds[k]) /\ creds[k].value = StoredValue(k) /\ creds[k].value # NoValue
            <6> HIDE DEF k
            <6> QED BY <5>2 DEF StoredValue, Exists, RowsFacts
          <5>4. creds[k].owner = NoOne
            BY <4>5, <5>1, <5>3, StoredRows
          <5>5. OwnedBy(creds[k].value.id, creds[k].owner)
            <6> HIDE DEF k
            <6> QED BY <5>1, <5>3, ValueHasOneOwner
          <5> QED BY <5>3, <5>4, <5>5
        <4> QED BY <4>2, <4>4, <4>5
      <3> QED BY <3>1, <3>2
    <2>5. calls'[c].at # "done" => \A n \in DOMAIN calls'[c].held :
              Len(n) = 1 => OwnedBy(calls[c].held[n].value.id, NoOne)'
      BY <2>2, <2>4 DEF OwnedBy
    <2> QED BY <2>2, <2>3, <2>5 DEF Own, OwnedBy, Carried, Held
  <1> QED BY <1>1, <1>2

\* The gate of the relay takes nothing of another.
LEMMA GateKeepsOwn ==
    ASSUME CallShapes, NEW c \in Calls, Own(c), Blank(c), RelayGate(c)
    PROVE  Own(c)'
  <1>1. Moves(c, {"forward"}, {"relay"}, {"done", "policy"}, {"leased", "asOf"})
    BY RelayGateMoves
  <1>2. /\ calls[c].at = "relay" /\ calls[c].req.kind = "forward" /\ calls'[c].req = calls[c].req
        /\ load' = load /\ calls'[c].at \in {"done", "policy"}
        /\ calls'[c].sent = calls[c].sent /\ calls'[c].signed = calls[c].signed
        /\ calls'[c].route = calls[c].route
    BY <1>1, FieldNames DEF Moves
  <1>3. Mine(c)' = Mine(c)
    BY <1>1, SameOwner
  <1>4. calls[c].sent = {} /\ calls[c].signed = FALSE
    BY <1>2 DEF Blank
  <1>5. Mine(c) /\ \A p \in calls[c].route.pieces : OwnedBy(p[1], calls[c].req.endUser)
    BY <1>2 DEF Own, Held
  <1>6. \A p \in calls[c].route.pieces : OwnedBy(p[1], calls[c].req.endUser)'
    BY <1>2, <1>5 DEF OwnedBy
  <1> QED BY <1>2, <1>3, <1>4, <1>5, <1>6 DEF Own, OwnedBy, Carried, Held

\* A heartbeat is for the credential of its own end-user.
LEMMA HeartbeatIsOwn ==
    ASSUME CallShapes, NEW c \in Calls, Own(c), Blank(c), RelayConfig(c)
    PROVE  Own(c)'
  <1>1. Moves(c, {"relay"}, {"relay_config"}, {"done", "claim"}, {"by", "name", "cred"})
    BY RelayConfigMoves
  <1>2. /\ calls[c].at = "relay_config" /\ calls[c].req.kind = "relay"
        /\ calls'[c].req = calls[c].req /\ calls'[c].at \in {"done", "claim"}
        /\ calls'[c].sent = calls[c].sent /\ calls'[c].signed = calls[c].signed
        /\ calls'[c].leased = calls[c].leased
    BY <1>1, FieldNames DEF Moves
  <1>3. calls[c].sent = {} /\ calls[c].signed = FALSE /\ calls[c].leased = FALSE
    BY <1>2 DEF Blank, Own
  <1>4. calls'[c].at = "claim" => calls'[c].cred.owner = calls[c].req.endUser
    <2>1. CASE Refuse(c)
      <3>1. calls'[c].at = "done"
        BY <2>1, KindByStage, FieldNames DEF Refuse, CallShapes
      <3> QED BY <3>1
    <2>2. CASE ~Refuse(c)
      <3> DEFINE n == EffectiveName(calls[c].req)
                 k == <<load.agents[Primary(c)].team, n>>
                 w == [calls[c] EXCEPT !.at = "claim", !.by = Primary(c), !.name = n, !.cred = creds[k]]
      <3>1. Takes(c, w) /\ creds[k].owner = calls[c].req.endUser
        BY <2>2 DEF RelayConfig
      <3> HIDE DEF n, k
      <3>2. w.cred = creds[k]
        BY KindByStage, FieldNames
      <3> HIDE DEF w
      <3>3. calls'[c].cred = creds[k]
        BY <3>1, <3>2, Taken
      <3> QED BY <3>1, <3>3
    <2> QED BY <2>1, <2>2
  <1> QED BY <1>2, <1>3, <1>4 DEF Own, Carried, Held

\* What is sent of a request is what its route carries, or what its
\* placeholders name; they have no room for an end-user's.
LEMMA SendingIsOwn ==
    ASSUME NEW c, Own(c), calls[c].at = "send", calls[c].req.kind \in {"forward", "legacy"}
    PROVE  \A p \in PiecesToSend(c) : OwnedBy(p[1], EndUserOf(c))
  <1>1. CASE calls[c].req.kind = "forward"
    BY <1>1 DEF Own, PiecesToSend, EndUserOf, Carried, Kind
  <1>2. CASE calls[c].req.kind = "legacy"
    <2> DEFINE held == calls[c].held
               values == [n \in DOMAIN held |-> held[n].value]
               refs == Placeholders(calls[c].req.refs)
    <2> SUFFICES ASSUME NEW p \in PiecesToSend(c) PROVE OwnedBy(p[1], NoOne)
      BY <1>2 DEF EndUserOf
    <2>1. p \in Substitute(refs, values)
      BY <1>2 DEF PiecesToSend, Kind
    <2>2. \A i \in DOMAIN refs : Len(refs[i].cred) = 1
      BY DEF Placeholders, Sifted, IsPlaceholder
    <2>3. \A n \in DOMAIN held : Len(n) = 1 => OwnedBy(held[n].value.id, NoOne)
      BY <1>2 DEF Own, Carried
    <2>4. DOMAIN values = DOMAIN held /\ \A n \in DOMAIN held : values[n] = held[n].value
      OBVIOUS
    <2> HIDE DEF refs, values, held
    <2>5. PICK i \in DOMAIN refs : p \in SubstituteRef(refs[i], values)
      BY <2>1 DEF Substitute
    <2>6. refs[i].cred \in DOMAIN values /\ p[1] = values[refs[i].cred].id
      BY <2>5 DEF SubstituteRef, WholeOf
    <2> QED BY <2>2, <2>3, <2>4, <2>6
  <1> QED BY <1>1, <1>2

\* A request that is sent.
LEMMA SendKeepsOwn ==
    ASSUME CallShapes, NEW c \in Calls, Own(c), Send(c)
    PROVE  Own(c)'
  <1>1. Sent(c) /\ calls[c].at = "send" /\ calls[c].req.kind \in {"forward", "legacy"}
    BY SendingMoves, KindByStage DEF Send, At
  <1>2. \A p \in calls'[c].sent : OwnedBy(p[1], EndUserOf(c))
    BY <1>1, SendingIsOwn DEF Sent
  <1>3. Using(c)
    BY UsingSteps
  <1> QED BY <1>2, <1>3, CarryingKeepsOwn DEF Using, Carried

\* A request that signs.
LEMMA SigningKeepsOwn ==
    ASSUME CallShapes, NEW c \in Calls, Own(c), Blank(c), SignPayload(c)
    PROVE  Own(c)'
  <1>1. Moves(c, {"sign"}, {"sign"}, {"done"}, {"signed", "audit"})
    BY SignPayloadMoves
  <1>2. /\ calls[c].at = "sign" /\ calls[c].req.kind = "sign" /\ calls'[c].req = calls[c].req
        /\ load' = load /\ calls'[c].at = "done" /\ calls'[c].sent = calls[c].sent
        /\ calls'[c].value = calls[c].value
    BY <1>1, FieldNames DEF Moves
  <1>3. calls[c].sent = {} /\ OwnedBy(calls[c].value.id, EndUserOf(c))
    BY <1>2 DEF Blank, Own, EndUserOf
  <1>4. OwnedBy(calls[c].value.id, EndUserOf(c))'
    BY <1>2, <1>3 DEF OwnedBy, EndUserOf
  <1> QED BY <1>2, <1>3, <1>4 DEF Own, Carried, Held

\* A step of a request.
LEMMA StepKeepsOwn ==
    ASSUME CallShapes, RowsFacts, [Next]_vars, NEW c \in Calls, Own(c), Blank(c),
           calls'[c] # calls[c]
    PROVE  Own(c)'
  <1>1. ASSUME NEW req \in load.requests, Receive(c, req) PROVE Own(c)'
    <2>1. /\ calls[c] = Fresh /\ calls'[c].at = "auth"
          /\ \A f \in CallFields \ {"at", "req"} : calls'[c][f] = calls[c][f]
      BY <1>1, ReceiveMoves
    <2>2. Fresh.sent = {} /\ Fresh.signed = FALSE /\ Fresh.leased = FALSE
      BY DEF Fresh
    <2>3. calls'[c].sent = {} /\ calls'[c].signed = FALSE /\ calls'[c].leased = FALSE
      BY <2>1, <2>2, FieldNames
    <2> QED BY <2>1, <2>3 DEF Own, Carried, Held
  <1>2. CASE Authenticate(c) \/ AuthenticateSigner(c) \/ AuthenticateAgentFromHeaders(c)
    BY <1>2, AuthenticateMoves, AuthenticateSignerMoves, AuthenticateAgentFromHeadersMoves,
       EarlyKeepsOwn DEF Held
  <1>3. CASE RateLimit(c)
    <2>1. Counted(c)
      BY <1>3, RateLimitMoves
    <2> QED BY <2>1, EarlyKeepsOwn DEF Counted, Held
  <1>4. CASE FindServingAgent(c) \/ FindSigningAgent(c) \/ ParseRequest(c)
    BY <1>4, FindServingAgentMoves, FindSigningAgentMoves, ParseRequestMoves, EarlyKeepsOwn
       DEF Held
  <1>5. CASE ReadConfig(c) \/ ReadSigningConfig(c)
    BY <1>5, ConfigIsOwn
  <1>6. CASE ReadValue(c)
    BY <1>6, RouteIsOwn
  <1>7. CASE ReadSigningValue(c)
    BY <1>7, SigningValueIsOwn
  <1>8. CASE FindOwningAgents(c) \/ ReadValues(c)
    BY <1>8, HeldIsOwn
  <1>9. CASE RelayGate(c)
    BY <1>9, GateKeepsOwn
  <1>10. CASE RelayConfig(c)
    BY <1>10, HeartbeatIsOwn
  <1>11. CASE ClaimRelaySession(c) \/ ListSessions(c) \/ WriteAuthfile(c)
    BY <1>11, ClaimRelaySessionMoves, ListSessionsMoves, WriteAuthfileMoves, BeatingKeepsOwn
  <1>12. CASE \/ ReadPolicy(c) \/ Evaluate(c) \/ ClaimGrant(c)
              \/ Ask(c) \/ AskForPlaceholders(c) \/ AskToSign(c)
              \/ \E verdict \in Verdicts : Decide(c, verdict) \/ DecideToSign(c, verdict)
    <2>1. Deciding(c)
      BY <1>12, DecidingSteps
    <2>2. calls'[c].sent = calls[c].sent
      BY <2>1, FieldNames DEF Deciding, Moves
    <2>3. \A p \in calls'[c].sent : OwnedBy(p[1], EndUserOf(c))
      BY <2>2 DEF Own
    <2> QED BY <2>1, <2>3, CarryingKeepsOwn DEF Deciding, Carried
  <1>13. CASE Send(c)
    BY <1>13, SendKeepsOwn
  <1>14. CASE ExchangeToken(c) \/ RetryWithOauth1(c) \/ Answer(c)
    <2>1. Using(c)
      BY <1>14, UsingSteps
    <2>2. calls'[c].sent = calls[c].sent
      BY <1>14, ExchangeMoves, RetryWithOauth1Moves, AnswerMoves, FieldNames DEF Exchanged, Moves
    <2>3. \A p \in calls'[c].sent : OwnedBy(p[1], EndUserOf(c))
      BY <2>2 DEF Own
    <2> QED BY <2>1, <2>3, CarryingKeepsOwn DEF Using, Carried
  <1>15. CASE SignPayload(c)
    BY <1>15, SigningKeepsOwn
  <1> QED BY OwnStep, <1>1, <1>2, <1>3, <1>4, <1>5, <1>6, <1>7, <1>8, <1>9, <1>10, <1>11,
             <1>12, <1>13, <1>14, <1>15 DEF Act

OwnInv == RowsFacts /\ \A c \in Calls : Own(c)

\* The rows that are stored and what each request holds of them are inductive.
THEOREM OwnersHold == Spec => []OwnInv
  <1>1. ASSUME Init PROVE OwnInv
    <2>1. /\ creds = load.creds /\ \A c \in Calls : calls[c] = Fresh
      BY <1>1 DEF Init
    <2>2. RowsFacts
      <3> SUFFICES ASSUME NEW k \in DOMAIN creds, creds[k] # NoValue
                   PROVE  StoredAs(k, creds[k])
        BY DEF RowsFacts
      <3>1. <<k, creds[k]>>[2] = creds[k]
        OBVIOUS
      <3> QED BY <2>1, <3>1 DEF StoredAs, Stored
    <2>3. Fresh.at = "idle" /\ Fresh.sent = {} /\ Fresh.signed = FALSE /\ Fresh.leased = FALSE
      BY DEF Fresh
    <2> QED BY <2>1, <2>2, <2>3 DEF OwnInv, Own, Carried, Held
  <1>2. ASSUME KeysInv, GateInv, OwnInv, [Next]_vars PROVE OwnInv'
    <2>1. RowsFacts' /\ load' = load
      BY <1>2, StepsKeepRows DEF KeysInv, CallShapes, OwnInv
    <2>2. ASSUME NEW c \in Calls PROVE Own(c)'
      <3>1. CASE calls'[c] = calls[c]
        BY <1>2, <2>1, <3>1 DEF OwnInv, Own, OwnedBy, EndUserOf, Mine, StoredAs, Key, Team
      <3>2. CASE calls'[c] # calls[c]
        BY <1>2, <3>2, StepKeepsOwn DEF KeysInv, GateInv, OwnInv
      <3> QED BY <3>1, <3>2
    <2> QED BY <2>1, <2>2 DEF OwnInv
  <1> QED BY <1>1, <1>2, KeysHold, GateFactsHold, PTL DEF Spec

\* A request uses the secrets of the end-user it asserts or the team's own,
\* and never another's: the name it is looked up under, owner_matches and the
\* grammar of placeholders keep them apart, whatever is edited meanwhile.
THEOREM SecretsAreKeptApart == Spec => []IsolationHolds
  <1>1. OwnInv => IsolationHolds
    <2> SUFFICES ASSUME OwnInv, NEW c \in Calls
                 PROVE  /\ \A p \in calls[c].sent : \A row \in RowsWith(p[1]) : row.owner = EndUserOf(c)
                        /\ calls[c].signed =>
                               \A row \in RowsWith(calls[c].value.id) : row.owner = EndUserOf(c)
                        /\ calls[c].at # "idle" /\ calls[c].req.kind = "relay" /\ calls[c].leased =>
                               calls[c].cred.owner = calls[c].req.endUser
      BY DEF IsolationHolds, EndUserOf, Kind
    <2>1. Own(c)
      BY DEF OwnInv
    <2>2. \A id, o : OwnedBy(id, o) => \A row \in RowsWith(id) : row.owner = o
      BY DEF OwnedBy, OwnedIn, RowsWith
    <2> QED BY <2>1, <2>2 DEF Own
  <1> QED BY <1>1, OwnersHold, PTL

-----------------------------------------------------------------------------
(* Where secrets go                                                        *)

(* The route goes to a host that the row allows, if it names any.          *)
BoundTo(row, route) ==
    ~row.relative /\ row.hosts # {} /\ route.scheme # "sidecar" =>
        \E p \in row.hosts : HostIsAllowed(p, route.to)

TeamsOf(l) == {l.agents[a].team : a \in DOMAIN l.agents}

(* What is under a name of the map was stored under that name.             *)
ListedIn(l, configs) ==
    \A n \in DOMAIN configs : \E k : k[2] = n /\ <<k, configs[n]>> \in Stored(l)

FoundIn(l, held) == \A n \in DOMAIN held : held[n][2] = n /\ held[n][1] \in TeamsOf(l)

HeldIn(l, held) ==
    \A n \in DOMAIN held :
        /\ held[n].key[2] = n /\ held[n].key[1] \in TeamsOf(l)
        /\ \E r : /\ <<held[n].key, r>> \in Stored(l)
                  /\ r.value # NoValue /\ r.value = held[n].value

HostsAllow(names, configs, target) ==
    \A n \in names \cap DOMAIN configs : HostBindingAllows(configs[n], target)

(* What each kind of request is to be sent with, and where.                *)
Fits(c) ==
    LET call == calls[c] IN
        /\ call.req.kind = "forward" /\ call.at \in Carried \cup {"relay"} =>
               /\ BoundTo(call.cred, call.route)
               /\ call.route.scheme = "google" => call.value.issuer = "google"
        /\ call.req.kind = "legacy" /\ call.at \in Carried \cup {"serve", "value"} =>
               ListedIn(load, call.configs)
        /\ call.req.kind = "legacy" /\ call.at = "value" =>
               /\ FoundIn(load, call.held)
               /\ HostsAllow(DOMAIN call.held, call.configs, call.req.target)
        /\ call.req.kind = "legacy" /\ call.at \in Carried =>
               /\ HeldIn(load, call.held)
               /\ HostsAllow(DOMAIN call.held, call.configs, call.req.target)
               /\ call.route.scheme = "direct" /\ call.route.to = call.req.target.host

RowsChecked(call) ==
    IF call.req.kind = "legacy" THEN {call.configs[n] : n \in DOMAIN call.configs}
    ELSE {call.cred}

SentWithin(sent, rows, route) ==
    \A p \in sent : \A row \in rows :
        row.value # NoValue /\ row.value.id = p[1] => BoundTo(row, route)

IsAnswer(response) ==
    /\ response.body \in {"text", "binary", "huge"}
    /\ \A x \in response.holds : x = <<x[1], x[2]>> /\ x[2] \in Encodings

ValuesOf(call) ==
    IF call.req.kind = "legacy" THEN {call.held[n].value : n \in DOMAIN call.held}
    ELSE {call.value} \ {NoValue}

SecretsOf(values) == UNION {PiecesOf(v) : v \in values}

Masked(response, answer, secrets) ==
    response # NoValue /\ response.body # "huge" =>
        \A x \in answer : x[1] \in secrets => response.body = "binary" /\ x[2] = "url"

(* What became of them.                                                    *)
Spent(c) ==
    LET call == calls[c] IN
        /\ SentWithin(call.sent, RowsChecked(call), call.route)
        /\ call.token # NoOne => call.token = call.value.issuer
        /\ call.at \in {"retry", "answer"} => IsAnswer(call.response)
        /\ call.at = "done" => Masked(call.response, call.answer, SecretsOf(ValuesOf(call)))

\* A request from which nothing was sent yet.
LEMMA NothingSpent ==
    ASSUME NEW c, Blank(c), NEW kinds, NEW from, NEW to, NEW writes,
           Moves(c, kinds, from, to, writes),
           from \cap {"send", "retry", "answer", "done"} = {},
           to \cap {"retry", "answer"} = {},
           {"sent", "response", "token"} \cap writes = {}
    PROVE  Spent(c)'
  <1>1. /\ calls[c].at \in from /\ calls'[c].at \in to /\ calls'[c].sent = calls[c].sent
        /\ calls'[c].response = calls[c].response /\ calls'[c].token = calls[c].token
    BY FieldNames DEF Moves
  <1>2. calls[c].sent = {} /\ calls[c].response = NoValue /\ calls[c].token = NoOne
    BY <1>1 DEF Blank
  <1>3. calls'[c].at \notin {"retry", "answer"}
    BY <1>1
  <1> QED BY <1>1, <1>2, <1>3 DEF Spent, SentWithin, Masked

\* A request that has nothing to be sent with.
LEMMA NothingFits ==
    ASSUME NEW c, NEW kinds, NEW from, NEW to, NEW writes, Moves(c, kinds, from, to, writes),
           "req" \notin writes,
           "forward" \in kinds => to \cap (Carried \cup {"relay"}) = {},
           "legacy" \in kinds => to \cap (Carried \cup {"serve", "value"}) = {}
    PROVE  Fits(c)'
  <1>1. /\ calls'[c].at \in to /\ calls[c].req.kind \in kinds /\ calls'[c].req = calls[c].req
    BY FieldNames DEF Moves
  <1>2. calls[c].req.kind = "forward" => calls'[c].at \notin Carried \cup {"relay"}
    BY <1>1
  <1>3. calls[c].req.kind = "legacy" => calls'[c].at \notin Carried \cup {"serve", "value"}
    BY <1>1
  <1> QED BY <1>1, <1>2, <1>3 DEF Fits

\* A request keeps what it is to be sent with.
LEMMA FitsStays ==
    ASSUME NEW c, Fits(c), NEW kinds, NEW from, NEW to, NEW writes,
           Moves(c, kinds, from, to, writes), from \subseteq Carried \cup {"relay"},
           "legacy" \in kinds => from \subseteq Carried,
           to \subseteq Carried \cup {"sign", "done"},
           {"req", "cred", "route", "value", "configs", "held"} \cap writes = {}
    PROVE  Fits(c)'
  <1>1. /\ calls[c].at \in from /\ calls'[c].at \in to /\ calls'[c].req = calls[c].req
        /\ load' = load /\ calls'[c].cred = calls[c].cred /\ calls'[c].route = calls[c].route
        /\ calls'[c].value = calls[c].value /\ calls'[c].configs = calls[c].configs
        /\ calls'[c].held = calls[c].held /\ calls[c].req.kind \in kinds
    BY FieldNames DEF Moves
  <1>2. /\ calls[c].at \in Carried \cup {"relay"} /\ calls'[c].at \in Carried \cup {"sign", "done"}
        /\ calls[c].req.kind = "legacy" => calls[c].at \in Carried
    BY <1>1
  <1>3. calls'[c].at # "value" /\ calls'[c].at # "serve"
    BY <1>2 DEF Carried
  <1> QED BY <1>1, <1>2, <1>3 DEF Fits

\* What became of its secrets stays as it is.
LEMMA SpentStays ==
    ASSUME NEW c, Spent(c), NEW kinds, NEW from, NEW to, NEW writes,
           Moves(c, kinds, from, to, writes),
           {"req", "cred", "configs", "route", "value", "sent", "token"} \cap writes = {}
    PROVE  /\ SentWithin(calls'[c].sent, RowsChecked(calls'[c]), calls'[c].route)
           /\ calls'[c].token # NoOne => calls'[c].token = calls'[c].value.issuer
  <1>1. /\ calls'[c].req = calls[c].req /\ calls'[c].cred = calls[c].cred
        /\ calls'[c].configs = calls[c].configs /\ calls'[c].route = calls[c].route
        /\ calls'[c].value = calls[c].value /\ calls'[c].sent = calls[c].sent
        /\ calls'[c].token = calls[c].token
    BY FieldNames DEF Moves
  <1>2. RowsChecked(calls'[c]) = RowsChecked(calls[c])
    BY <1>1 DEF RowsChecked
  <1> QED BY <1>1, <1>2 DEF Spent

\* The route of a credential goes where the credential may.
LEMMA RouteIsBound ==
    ASSUME NEW cred, NEW value, NEW target, NEW method, NEW mode, NEW r,
           r = ResolveUnifiedRoute(cred, value, target, method, mode), r.error = "none"
    PROVE  /\ BoundTo(cred, r)
           /\ r.scheme = "google" => ParsesAs(value, "google") /\ ~ParsesAs(value, "microsoft")
  <1> DEFINE scheme == IF cred.connector = "direct" THEN "direct"
                       ELSE InlineScheme(value, mode, method)
             to == IF scheme = "sidecar" THEN cred.base ELSE target.host
  <1>1. /\ HostBindingAllows(cred, target)
        /\ r.scheme = scheme /\ (scheme # "sidecar" => r.to = target.host)
    <2>1. HostBindingAllows(cred, target)
      BY DEF ResolveUnifiedRoute, Route
    <2>2. CASE scheme = "direct"
      BY <2>1, <2>2 DEF ResolveUnifiedRoute, Route
    <2>3. CASE scheme # "direct"
      BY <2>1, <2>3 DEF ResolveUnifiedRoute, Route
    <2> QED BY <2>2, <2>3
  <1>2. scheme = "google" => ParsesAs(value, "google") /\ ~ParsesAs(value, "microsoft")
    BY DEF InlineScheme, ChosenXMode
  <1> HIDE DEF scheme
  <1>3. BoundTo(cred, r)
    BY <1>1 DEF BoundTo, HostBindingAllows
  <1> QED BY <1>1, <1>2, <1>3

\* A route is made for the row that was checked and the value that was read.
LEMMA RouteFits ==
    ASSUME CallShapes, RowsFacts, NEW c \in Calls, ReadValue(c)
    PROVE  Fits(c)'
  <1>1. Moves(c, {"forward"}, {"value"}, {"done", "relay", "policy"}, {"value", "route"})
    BY ReadValueMoves
  <1>2. /\ calls[c].req.kind = "forward" /\ calls'[c].req = calls[c].req
        /\ calls'[c].at \in {"done", "relay", "policy"} /\ calls'[c].cred = calls[c].cred
    BY <1>1, FieldNames DEF Moves
  <1>3. CASE Refuse(c)
    <2>1. calls'[c].at = "done"
      BY <1>3, KindByStage, FieldNames DEF Refuse, CallShapes
    <2> QED BY <1>2, <2>1 DEF Fits, Carried
  <1>4. CASE ~Refuse(c)
    <2> DEFINE v == StoredValue(Key(c))
               r == ResolveUnifiedRoute(calls[c].cred, v, calls[c].req.target,
                                        calls[c].req.method, calls[c].req.mode)
               t == IF UsesRelay(calls[c].cred) THEN "relay" ELSE "policy"
               w == [calls[c] EXCEPT !.at = t, !.value = v, !.route = r]
    <2>1. Takes(c, w) /\ r.error = "none"
      BY <1>4 DEF ReadValue
    <2> HIDE DEF t
    <2>2. w.route = r /\ w.value = v
      <3> HIDE DEF r, v
      <3> QED BY KindByStage, FieldNames
    <2>3. calls'[c].route = r /\ calls'[c].value = v
      <3> HIDE DEF r, v, w
      <3> QED BY <2>1, <2>2, Taken
    <2>4. /\ BoundTo(calls[c].cred, r)
          /\ r.scheme = "google" => ParsesAs(v, "google") /\ ~ParsesAs(v, "microsoft")
      <3>1. PICK q : q = r
        OBVIOUS
      <3>2. /\ BoundTo(calls[c].cred, q)
            /\ q.scheme = "google" => ParsesAs(v, "google") /\ ~ParsesAs(v, "microsoft")
        <4> HIDE DEF v, w
        <4> QED BY <2>1, <3>1, RouteIsBound
      <3> HIDE DEF r, v, w
      <3> QED BY <3>1, <3>2
    <2> HIDE DEF r, w
    <2>5. ParsesAs(v, "google") /\ ~ParsesAs(v, "microsoft") => v.issuer = "google"
      <3> SUFFICES ASSUME ParsesAs(v, "google"), ~ParsesAs(v, "microsoft")
                   PROVE  v.issuer = "google"
        OBVIOUS
      <3>1. v # NoValue
        BY DEF ParsesAs
      <3>2. StoredAs(Key(c), creds[Key(c)]) /\ creds[Key(c)].value = v
        BY <3>1 DEF StoredValue, Exists, RowsFacts
      <3>3. load \in Loads
        BY DEF CallShapes
      <3> HIDE DEF v
      <3> QED BY <3>2, <3>3, StoredRows
    <2> HIDE DEF v
    <2> QED BY <1>2, <2>3, <2>4, <2>5 DEF Fits
  <1> QED BY <1>3, <1>4

\* The map of credentials of a request's keys holds what is stored.
LEMMA ConfigsAreStored ==
    ASSUME load \in Loads, RowsFacts, DOMAIN creds = DOMAIN load.creds,
           NEW keys, NEW m \in Nat, DOMAIN keys \subseteq 1 .. m
    PROVE  ListedIn(load, ConfigsFor(keys))
  <1> DEFINE Lists(i, n) == \E k \in AgentListingCredentials(keys[i]) : k[2] = n
             names == {k[2] : k \in UNION {AgentListingCredentials(keys[i]) : i \in DOMAIN keys}}
             last(n) == CHOOSE i \in DOMAIN keys :
                            Lists(i, n) /\ \A j \in DOMAIN keys : Lists(j, n) => j <= i
             configs == [n \in names |-> creds[<<load.agents[keys[last(n)]].team, n>>]]
  <1>1. ConfigsFor(keys) = configs
    BY DEF ConfigsFor
  <1>2. DOMAIN configs = names
    OBVIOUS
  <1>3. ASSUME NEW n \in names
        PROVE  \E k : k[2] = n /\ <<k, configs[n]>> \in Stored(load)
    <2> DEFINE S == {i \in DOMAIN keys : Lists(i, n)}
    <2>1. S # {} /\ S \subseteq 1 .. m
      OBVIOUS
    <2>2. \E i \in S : \A j \in S : j <= i
      <3> HIDE DEF S
      <3> QED BY <2>1, GreatestOne
    <2>3. \E i \in DOMAIN keys : Lists(i, n) /\ \A j \in DOMAIN keys : Lists(j, n) => j <= i
      BY <2>2
    <2>4. last(n) \in DOMAIN keys /\ Lists(last(n), n)
      <3> HIDE DEF Lists
      <3> QED BY <2>3
    <2>5. PICK a : a = keys[last(n)]
      OBVIOUS
    <2>6. PICK k \in AgentListingCredentials(a) : k[2] = n
      BY <2>4, <2>5
    <2>7. k \in DOMAIN creds /\ k[1] = load.agents[a].team /\ creds[k] # NoValue
      BY <2>6 DEF AgentListingCredentials, Exists
    <2>8. k = <<k[1], k[2]>>
      BY <2>7, StoredAssumption
    <2>9. k = <<load.agents[a].team, n>>
      BY <2>6, <2>7, <2>8
    <2>10. configs[n] = creds[k]
      <3>1. configs[n] = creds[<<load.agents[keys[last(n)]].team, n>>]
        <4> HIDE DEF last
        <4> QED OBVIOUS
      <3> HIDE DEF configs, last
      <3> QED BY <2>5, <2>9, <3>1
    <2>11. <<k, creds[k]>> \in Stored(load)
      BY <2>7 DEF RowsFacts, StoredAs
    <2> HIDE DEF configs
    <2> QED BY <2>6, <2>10, <2>11
  <1> HIDE DEF names, configs
  <1> QED BY <1>1, <1>2, <1>3 DEF ListedIn

\* So the map is a request's from then on.
LEMMA ParsingFits ==
    ASSUME CallShapes, RowsFacts, DOMAIN creds = DOMAIN load.creds, NEW c \in Calls, Keys(c),
           ParseRequest(c)
    PROVE  Fits(c)'
  <1>1. Moves(c, {"legacy"}, {"parse"}, {"done", "serve"}, {"configs"})
    BY ParseRequestMoves
  <1>2. /\ calls[c].req.kind = "legacy" /\ calls'[c].req = calls[c].req
        /\ calls'[c].at \in {"done", "serve"} /\ load' = load
    BY <1>1, FieldNames DEF Moves
  <1>3. CASE Refuse(c)
    <2>1. calls'[c].at = "done"
      BY <1>3, KindByStage, FieldNames DEF Refuse, CallShapes
    <2> QED BY <1>2, <2>1 DEF Fits, Carried
  <1>4. CASE ~Refuse(c)
    <2> DEFINE g == ConfigsFor(calls[c].agents)
               w == [calls[c] EXCEPT !.at = "serve", !.configs = g]
    <2>1. Takes(c, w)
      BY <1>4 DEF ParseRequest
    <2>2. ListedIn(load, g)
      BY ConfigsAreStored DEF Keys, CallShapes
    <2> HIDE DEF g
    <2>3. w.configs = g
      BY KindByStage, FieldNames
    <2> HIDE DEF w
    <2>4. calls'[c].configs = g
      BY <2>1, <2>3, Taken
    <2> QED BY <1>2, <2>2, <2>4 DEF Fits, Carried
  <1> QED BY <1>3, <1>4

\* Each name is found among the keys, and its hosts allow the target.
LEMMA FindingFits ==
    ASSUME CallShapes, NEW c \in Calls, Keys(c), Fits(c), FindOwningAgents(c)
    PROVE  Fits(c)'
  <1>1. Moves(c, {"legacy"}, {"serve"}, {"done", "value"}, {"held"})
    BY FindOwningAgentsMoves
  <1>2. /\ calls[c].req.kind = "legacy" /\ calls'[c].req = calls[c].req /\ calls[c].at = "serve"
        /\ calls'[c].at \in {"done", "value"} /\ load' = load
        /\ calls'[c].configs = calls[c].configs
    BY <1>1, FieldNames DEF Moves
  <1>3. CASE Refuse(c)
    <2>1. calls'[c].at = "done"
      BY <1>3, KindByStage, FieldNames DEF Refuse, CallShapes
    <2> QED BY <1>2, <2>1 DEF Fits, Carried
  <1>4. CASE ~Refuse(c)
    <2> DEFINE names == {CredNames(calls[c].req)[i] : i \in DOMAIN CredNames(calls[c].req)}
               owner == [n \in names |-> FirstServing(calls[c].agents, n, NoOne)]
               h == [n \in names |-> <<load.agents[owner[n]].team, n>>]
               w == [calls[c] EXCEPT !.at = "value", !.held = h]
    <2>1. /\ Takes(c, w) /\ \A n \in names : owner[n] # NoOne
          /\ \A n \in names \cap DOMAIN calls[c].configs :
                 HostBindingAllows(calls[c].configs[n], calls[c].req.target)
      BY <1>4 DEF FindOwningAgents
    <2>2. ASSUME NEW n \in names PROVE owner[n] \in DOMAIN load.agents
      <3>1. owner[n] = FirstServing(calls[c].agents, n, NoOne)
        <4> HIDE DEF names
        <4> QED OBVIOUS
      <3>2. PICK i \in DOMAIN calls[c].agents : owner[n] = calls[c].agents[i]
        <4>1. owner[n] # NoOne /\ DOMAIN calls[c].agents \subseteq Nat
          BY <2>1 DEF Keys
        <4> HIDE DEF owner, names
        <4> QED BY <3>1, <4>1, ServingIsAKey
      <3> HIDE DEF owner, names
      <3> QED BY <3>2 DEF Keys, Valid
    <2>3. DOMAIN h = names
      OBVIOUS
    <2>4. ASSUME NEW n \in names PROVE h[n][2] = n /\ h[n][1] \in TeamsOf(load)
      <3>1. h[n] = <<load.agents[owner[n]].team, n>>
        <4> HIDE DEF names, owner
        <4> QED OBVIOUS
      <3> HIDE DEF h, names, owner
      <3> QED BY <2>2, <3>1 DEF TeamsOf
    <2> HIDE DEF h, owner, names
    <2>5. w.held = h
      BY KindByStage, FieldNames
    <2> HIDE DEF w
    <2>6. calls'[c].held = h
      BY <2>1, <2>5, Taken
    <2>7. FoundIn(load, h) /\ HostsAllow(DOMAIN h, calls[c].configs, calls[c].req.target)
      BY <2>1, <2>3, <2>4 DEF FoundIn, HostsAllow
    <2>8. ListedIn(load, calls[c].configs)
      BY <1>2 DEF Fits
    <2> QED BY <1>2, <2>6, <2>7, <2>8 DEF Fits, Carried
  <1> QED BY <1>3, <1>4

\* The values that are read are those stored under the names that were found.
LEMMA ReadingFits ==
    ASSUME CallShapes, RowsFacts, NEW c \in Calls, Fits(c), ReadValues(c)
    PROVE  Fits(c)'
  <1>1. Moves(c, {"legacy"}, {"value"}, {"done", "policy"}, {"name", "held", "route"})
    BY ReadValuesMoves
  <1>2. /\ calls[c].req.kind = "legacy" /\ calls'[c].req = calls[c].req /\ calls[c].at = "value"
        /\ calls'[c].at \in {"done", "policy"} /\ load' = load
        /\ calls'[c].configs = calls[c].configs
    BY <1>1, FieldNames DEF Moves
  <1>3. CASE Refuse(c)
    <2>1. calls'[c].at = "done"
      BY <1>3, KindByStage, FieldNames DEF Refuse, CallShapes
    <2> QED BY <1>2, <2>1 DEF Fits, Carried
  <1>4. CASE ~Refuse(c)
    <2> DEFINE held == calls[c].held
               h == [n \in DOMAIN held |-> [key |-> held[n], value |-> StoredValue(held[n])]]
               to == calls[c].req.target
               q == Route("none", "direct", to.host, to, {})
    <2>1. PICK m : /\ Takes(c, [calls[c] EXCEPT !.at = "policy", !.name = m, !.held = h,
                                                !.route = q])
                   /\ \A n \in DOMAIN held : StoredValue(held[n]) # NoValue
      BY <1>4 DEF ReadValues
    <2>2. /\ DOMAIN h = DOMAIN held
          /\ \A n \in DOMAIN held : h[n].key = held[n] /\ h[n].value = StoredValue(held[n])
      OBVIOUS
    <2>3. q.scheme = "direct" /\ q.to = calls[c].req.target.host
      BY DEF Route
    <2> DEFINE w == [calls[c] EXCEPT !.at = "policy", !.name = m, !.held = h, !.route = q]
    <2> HIDE DEF h, q, to
    <2>4. w.held = h /\ w.route = q
      BY KindByStage, FieldNames
    <2>5. calls'[c].held = h /\ calls'[c].route = q
      <3>1. Takes(c, w)
        BY <2>1
      <3> HIDE DEF w
      <3> QED BY <2>4, <3>1, Taken
    <2> HIDE DEF w
    <2>6. /\ FoundIn(load, held) /\ ListedIn(load, calls[c].configs)
          /\ HostsAllow(DOMAIN held, calls[c].configs, calls[c].req.target)
      BY <1>2 DEF Fits
    <2>7. ASSUME NEW n \in DOMAIN held
          PROVE  \E r : /\ <<held[n], r>> \in Stored(load)
                        /\ r.value # NoValue /\ r.value = StoredValue(held[n])
      <3> DEFINE k == held[n]
      <3>1. StoredValue(k) # NoValue
        BY <2>1
      <3> HIDE DEF k
      <3>2. StoredAs(k, creds[k]) /\ creds[k].value = StoredValue(k)
        BY <3>1 DEF StoredValue, Exists, RowsFacts
      <3>3. <<k, creds[k]>> \in Stored(load)
        BY <3>2 DEF StoredAs
      <3> QED BY <3>1, <3>2, <3>3 DEF k
    <2>8. HeldIn(load, h)
      <3> SUFFICES ASSUME NEW n \in DOMAIN held
                   PROVE  /\ h[n].key[2] = n /\ h[n].key[1] \in TeamsOf(load)
                          /\ \E r : /\ <<h[n].key, r>> \in Stored(load)
                                    /\ r.value # NoValue /\ r.value = h[n].value
        BY <2>2 DEF HeldIn
      <3>1. h[n].key = held[n] /\ h[n].value = StoredValue(held[n])
        BY <2>2
      <3>2. held[n][2] = n /\ held[n][1] \in TeamsOf(load)
        BY <2>6 DEF FoundIn
      <3>3. PICK r : /\ <<held[n], r>> \in Stored(load)
                     /\ r.value # NoValue /\ r.value = StoredValue(held[n])
        BY <2>7
      <3> QED BY <3>1, <3>2, <3>3
    <2>9. HostsAllow(DOMAIN h, calls[c].configs, calls[c].req.target)
      BY <2>2, <2>6
    <2> QED BY <1>2, <2>3, <2>5, <2>6, <2>8, <2>9 DEF Fits
  <1> QED BY <1>3, <1>4

\* A bundle is exchanged where it was issued.
LEMMA ExchangeIsSpent ==
    ASSUME CallShapes, NEW c \in Calls, Fits(c), Blank(c), ExchangeToken(c)
    PROVE  Spent(c)'
  <1>1. /\ Exchanged(c)
        /\ Moves(c, {"forward", "legacy"}, {"exchange"}, {"done", "send"}, {"token", "audit"})
    BY ExchangeMoves DEF Exchanged
  <1>2. /\ calls[c].at = "exchange" /\ calls'[c].at \in {"done", "send"}
        /\ calls[c].req.kind \in {"forward", "legacy"} /\ calls'[c].value = calls[c].value
        /\ calls'[c].sent = calls[c].sent /\ calls'[c].response = calls[c].response
    BY <1>1, FieldNames DEF Moves
  <1>3. calls[c].sent = {} /\ calls[c].response = NoValue
    BY <1>2 DEF Blank
  <1>4. calls'[c].token # NoOne => calls'[c].token = calls[c].value.issuer
    <2>1. calls'[c].token = TokenEndpoint(calls[c].route.scheme, calls[c].value)
      BY <1>1 DEF Exchanged
    <2>2. calls[c].route.scheme = "google" => calls[c].value.issuer = "google"
      BY <1>2 DEF Fits, Carried
    <2> QED BY <2>1, <2>2 DEF TokenEndpoint
  <1> QED BY <1>2, <1>3, <1>4 DEF Spent, SentWithin, Masked

\* Any answer has pieces in some encoding.
LEMMA ResponsesAreAnswers ==
    ASSUME NEW c, NEW sent, NEW r \in Responses(c, sent)
    PROVE  IsAnswer(r)
  <1> DEFINE all == Learnt(c, sent) \X Encodings
  <1>1. /\ r.body \in {"text", "binary", "huge"}
        /\ r.holds = {} \/ r.holds = all \/ \E x \in all : r.holds = {x}
    <2> HIDE DEF all
    <2>1. r \in [status : {"ok", "unauthorized"}, body : {"text"}, holds : {{}}]
            \cup [status : {"ok"}, body : {"text", "binary", "huge"},
                  holds : {all} \cup {{x} : x \in all}]
      BY DEF Responses, all
    <2> QED BY <2>1
  <1>2. \A x \in all : x = <<x[1], x[2]>> /\ x[2] \in Encodings
    <2> HIDE DEF Learnt, Encodings
    <2> QED OBVIOUS
  <1> HIDE DEF all
  <1> QED BY <1>1, <1>2 DEF IsAnswer

\* What is sent goes where the rows that were checked allow.
LEMMA SendingIsBound ==
    ASSUME CallShapes, NEW c \in Calls, Fits(c), calls[c].at = "send",
           calls[c].req.kind \in {"forward", "legacy"}
    PROVE  SentWithin(PiecesToSend(c), RowsChecked(calls[c]), calls[c].route)
  <1>1. CASE calls[c].req.kind = "forward"
    BY <1>1 DEF Fits, Carried, SentWithin, RowsChecked
  <1>2. CASE calls[c].req.kind = "legacy"
    <2> DEFINE held == calls[c].held
               configs == calls[c].configs
               values == [n \in DOMAIN held |-> held[n].value]
               refs == Placeholders(calls[c].req.refs)
    <2>1. /\ ListedIn(load, configs) /\ HeldIn(load, held)
          /\ HostsAllow(DOMAIN held, configs, calls[c].req.target)
          /\ calls[c].route.to = calls[c].req.target.host
      BY <1>2 DEF Fits, Carried
    <2> SUFFICES ASSUME NEW p \in PiecesToSend(c), NEW m \in DOMAIN configs,
                        configs[m].value # NoValue, configs[m].value.id = p[1]
                 PROVE  BoundTo(configs[m], calls[c].route)
      BY <1>2 DEF SentWithin, RowsChecked
    <2>2. p \in Substitute(refs, values)
      BY <1>2 DEF PiecesToSend, Kind
    <2>3. DOMAIN values = DOMAIN held /\ \A n \in DOMAIN held : values[n] = held[n].value
      OBVIOUS
    <2> HIDE DEF refs, values, held, configs
    <2>4. PICK i \in DOMAIN refs : p \in SubstituteRef(refs[i], values)
      BY <2>2 DEF Substitute
    <2>5. refs[i].cred \in DOMAIN values /\ p[1] = values[refs[i].cred].id
      BY <2>4 DEF SubstituteRef, WholeOf
    <2>6. PICK n \in DOMAIN held : p[1] = held[n].value.id
      BY <2>3, <2>5
    <2>7. PICK r : /\ <<held[n].key, r>> \in Stored(load) /\ held[n].key[2] = n
                   /\ r.value # NoValue /\ r.value = held[n].value
      BY <2>1 DEF HeldIn
    <2>8. PICK k : k[2] = m /\ <<k, configs[m]>> \in Stored(load)
      BY <2>1 DEF ListedIn
    <2>9. StoredAs(held[n].key, r) /\ StoredAs(k, configs[m]) /\ load \in Loads
      BY <2>7, <2>8 DEF StoredAs, CallShapes
    <2>10. held[n].key = k
      BY <2>6, <2>7, <2>9, StoredRows
    <2>11. m \in DOMAIN held
      BY <2>7, <2>8, <2>10
    <2>12. HostBindingAllows(configs[m], calls[c].req.target)
      BY <2>1, <2>11 DEF HostsAllow
    <2> QED BY <2>1, <2>12 DEF BoundTo, HostBindingAllows
  <1> QED BY <1>1, <1>2

\* So it is when it is sent.
LEMMA SendIsSpent ==
    ASSUME CallShapes, NEW c \in Calls, Fits(c), Spent(c), Blank(c), Send(c)
    PROVE  Spent(c)'
  <1>1. /\ Sent(c) /\ Using(c) /\ calls[c].at = "send" /\ calls[c].req.kind \in {"forward", "legacy"}
    BY SendingMoves, UsingSteps, KindByStage DEF Send, At
  <1>2. /\ calls'[c].req = calls[c].req /\ calls'[c].cred = calls[c].cred
        /\ calls'[c].configs = calls[c].configs /\ calls'[c].route = calls[c].route
        /\ calls'[c].value = calls[c].value
    BY <1>1, FieldNames DEF Using, Moves
  <1>3. SentWithin(calls'[c].sent, RowsChecked(calls'[c]), calls'[c].route)
    <2>1. SentWithin(PiecesToSend(c), RowsChecked(calls[c]), calls[c].route)
      BY <1>1, SendingIsBound
    <2>2. RowsChecked(calls'[c]) = RowsChecked(calls[c])
      BY <1>2 DEF RowsChecked
    <2> QED BY <1>1, <1>2, <2>1, <2>2 DEF Sent
  <1>4. calls'[c].token = calls[c].token
    BY <1>1, FieldNames DEF Sent, Moves
  <1>5. \/ calls'[c].at = "done" /\ calls'[c].response = calls[c].response
        \/ calls'[c].at \in {"answer", "retry"} /\ IsAnswer(calls'[c].response)
    BY <1>1, ResponsesAreAnswers, FieldNames DEF Sent, Moves
  <1>6. calls[c].response = NoValue
    BY <1>1 DEF Blank
  <1> QED BY <1>2, <1>3, <1>4, <1>5, <1>6 DEF Spent, Masked

\* A second attempt.
LEMMA RetryIsSpent ==
    ASSUME CallShapes, NEW c \in Calls, Spent(c), RetryWithOauth1(c)
    PROVE  Spent(c)'
  <1>1. Moves(c, {"forward"}, {"retry"}, {"answer"}, {"response"})
    BY RetryWithOauth1Moves
  <1>2. calls[c].at = "retry" /\ calls'[c].at = "answer"
    BY <1>1 DEF Moves
  <1>3. /\ SentWithin(calls'[c].sent, RowsChecked(calls'[c]), calls'[c].route)
        /\ calls'[c].token # NoOne => calls'[c].token = calls'[c].value.issuer
    BY <1>1, SpentStays
  <1>4. IsAnswer(calls'[c].response)
    <2>1. PICK r \in {calls[c].response} \cup Responses(c, {}) :
              Takes(c, [calls[c] EXCEPT !.at = "answer", !.response = r])
      BY DEF RetryWithOauth1
    <2>2. IsAnswer(r)
      BY <1>2, <2>1, ResponsesAreAnswers DEF Spent
    <2> DEFINE w == [calls[c] EXCEPT !.at = "answer", !.response = r]
    <2>3. w.response = r
      BY KindByStage, FieldNames
    <2>4. Takes(c, w)
      BY <2>1
    <2> HIDE DEF w
    <2>5. calls'[c].response = r
      BY <2>3, <2>4, Taken
    <2> QED BY <2>2, <2>5
  <1> QED BY <1>2, <1>3, <1>4 DEF Spent

\* No piece of the values comes through, as it is or encoded.
LEMMA SanitizingMasks ==
    ASSUME NEW r, IsAnswer(r), NEW values
    PROVE  Masked(r, SanitizeResponse(r.body, r.holds, values), SecretsOf(values))
  <1> DEFINE pieces == SecretsOf(values)
             answer == SanitizeResponse(r.body, r.holds, values)
  <1>1. CASE r.body = "text"
    <2>1. answer = {x \in r.holds : x[1] \notin pieces}
      BY <1>1 DEF SanitizeResponse, SecretsOf, ScrubOne
    <2> HIDE DEF answer, pieces
    <2> QED BY <2>1 DEF Masked, answer, pieces
  <1>2. CASE r.body = "binary"
    <2>1. answer = IF r.holds \cap SecretByteForms(pieces) # {} THEN {} ELSE r.holds
      BY <1>2 DEF SanitizeResponse, SecretsOf
    <2> HIDE DEF answer, pieces
    <2>2. ASSUME NEW x \in answer, x[1] \in pieces PROVE x[2] = "url"
      <3>1. x \in r.holds /\ x \notin SecretByteForms(pieces)
        BY <2>1, <2>2
      <3>2. x = <<x[1], x[2]>> /\ x[2] \in {"raw", "base64", "url"}
        BY <3>1 DEF IsAnswer, Encodings
      <3>3. x[2] \in {"raw", "base64"} => <<x[1], x[2]>> \in pieces \X {"raw", "base64"}
        BY <2>2
      <3> QED BY <3>1, <3>2, <3>3 DEF SecretByteForms
    <2> QED BY <1>2, <2>2 DEF Masked, answer, pieces
  <1>3. CASE r.body = "huge"
    BY <1>3 DEF Masked
  <1> QED BY <1>1, <1>2, <1>3 DEF IsAnswer

\* The answer.
LEMMA AnswerIsSpent ==
    ASSUME CallShapes, NEW c \in Calls, Spent(c), Answer(c)
    PROVE  Spent(c)'
  <1>1. Moves(c, {"forward", "legacy"}, {"answer"}, {"done"}, {"audit", "answer"})
    BY AnswerMoves
  <1>2. /\ calls[c].at = "answer" /\ calls'[c].at = "done" /\ calls'[c].req = calls[c].req
        /\ calls'[c].response = calls[c].response /\ calls'[c].held = calls[c].held
        /\ calls'[c].value = calls[c].value
    BY <1>1, FieldNames DEF Moves
  <1>3. /\ SentWithin(calls'[c].sent, RowsChecked(calls'[c]), calls'[c].route)
        /\ calls'[c].token # NoOne => calls'[c].token = calls'[c].value.issuer
    BY <1>1, SpentStays
  <1> DEFINE a == SanitizeResponse(calls[c].response.body, calls[c].response.holds, Values(c))
             w == [calls[c] EXCEPT !.at = "done", !.audit = AuditedAs(c), !.answer = a]
  <1>4. Takes(c, w)
    BY DEF Answer
  <1>5. Masked(calls[c].response, a, SecretsOf(ValuesOf(calls[c])))
    <2>1. Values(c) = ValuesOf(calls[c])
      BY DEF Values, ValuesOf, Kind
    <2>2. IsAnswer(calls[c].response)
      BY <1>2 DEF Spent
    <2> QED BY <2>1, <2>2, SanitizingMasks
  <1> HIDE DEF a
  <1>6. w.answer = a
    BY KindByStage, FieldNames
  <1> HIDE DEF w
  <1>7. calls'[c].answer = a
    BY <1>4, <1>6, Taken
  <1>8. ValuesOf(calls'[c]) = ValuesOf(calls[c])
    BY <1>2 DEF ValuesOf
  <1> QED BY <1>2, <1>3, <1>5, <1>7, <1>8 DEF Spent

\* A step of a request.
LEMMA StepKeepsPut ==
    ASSUME CallShapes, RowsFacts, DOMAIN creds = DOMAIN load.creds, [Next]_vars, NEW c \in Calls,
           Keys(c), Blank(c), Fits(c), Spent(c), calls'[c] # calls[c]
    PROVE  Fits(c)' /\ Spent(c)'
  <1>1. ASSUME NEW req \in load.requests, Receive(c, req) PROVE Fits(c)' /\ Spent(c)'
    <2>1. /\ calls[c] = Fresh /\ calls'[c].at = "auth"
          /\ \A f \in CallFields \ {"at", "req"} : calls'[c][f] = calls[c][f]
      BY <1>1, ReceiveMoves
    <2>2. Fresh.sent = {} /\ Fresh.token = NoOne
      BY DEF Fresh
    <2>3. calls'[c].sent = {} /\ calls'[c].token = NoOne
      BY <2>1, <2>2, FieldNames
    <2> QED BY <2>1, <2>3 DEF Fits, Spent, SentWithin, Carried
  <1>2. CASE Authenticate(c) \/ AuthenticateSigner(c) \/ AuthenticateAgentFromHeaders(c)
    BY <1>2, AuthenticateMoves, AuthenticateSignerMoves, AuthenticateAgentFromHeadersMoves,
       NothingFits, NothingSpent DEF Carried
  <1>3. CASE RateLimit(c)
    <2>1. Counted(c)
      BY <1>3, RateLimitMoves
    <2> QED BY <2>1, NothingFits, NothingSpent DEF Counted, Carried
  <1>4. CASE FindServingAgent(c) \/ FindSigningAgent(c) \/ ReadConfig(c) \/ ReadSigningConfig(c)
    BY <1>4, FindServingAgentMoves, FindSigningAgentMoves, ReadConfigMoves, ReadSigningConfigMoves,
       NothingFits, NothingSpent DEF Carried
  <1>5. CASE ReadValue(c)
    BY <1>5, RouteFits, ReadValueMoves, NothingSpent
  <1>6. CASE ReadSigningValue(c)
    BY <1>6, ReadSigningValueMoves, NothingFits, NothingSpent
  <1>7. CASE ParseRequest(c)
    BY <1>7, ParsingFits, ParseRequestMoves, NothingSpent
  <1>8. CASE FindOwningAgents(c)
    BY <1>8, FindingFits, FindOwningAgentsMoves, NothingSpent
  <1>9. CASE ReadValues(c)
    BY <1>9, ReadingFits, ReadValuesMoves, NothingSpent
  <1>10. CASE RelayGate(c)
    BY <1>10, RelayGateMoves, FitsStays, NothingSpent DEF Carried
  <1>11. CASE RelayConfig(c) \/ ClaimRelaySession(c) \/ ListSessions(c) \/ WriteAuthfile(c)
    BY <1>11, RelayConfigMoves, ClaimRelaySessionMoves, ListSessionsMoves, WriteAuthfileMoves,
       NothingFits, NothingSpent
  <1>12. CASE \/ ReadPolicy(c) \/ Evaluate(c) \/ ClaimGrant(c)
              \/ Ask(c) \/ AskForPlaceholders(c) \/ AskToSign(c)
              \/ \E verdict \in Verdicts : Decide(c, verdict) \/ DecideToSign(c, verdict)
    BY <1>12, DecidingSteps, FitsStays, NothingSpent DEF Deciding, Carried
  <1>13. CASE ExchangeToken(c) \/ Send(c) \/ RetryWithOauth1(c) \/ Answer(c)
    <2>1. Fits(c)'
      BY <1>13, UsingSteps, FitsStays DEF Using, Carried
    <2>2. Spent(c)'
      BY <1>13, ExchangeIsSpent, SendIsSpent, RetryIsSpent, AnswerIsSpent
    <2> QED BY <2>1, <2>2
  <1>14. CASE SignPayload(c)
    BY <1>14, SignPayloadMoves, NothingFits, NothingSpent
  <1> QED BY OwnStep, <1>1, <1>2, <1>3, <1>4, <1>5, <1>6, <1>7, <1>8, <1>9, <1>10, <1>11,
             <1>12, <1>13, <1>14 DEF Act

\* The credentials that are stored have the names they began with.
LEMMA NamesStay ==
    ASSUME DOMAIN creds = DOMAIN load.creds, DOMAIN policies = DOMAIN load.policies, [Next]_vars
    PROVE  DOMAIN creds' = DOMAIN load'.creds /\ DOMAIN policies' = DOMAIN load'.policies
  <1>1. ASSUME NEW e \in edits, Edit(e)
        PROVE  DOMAIN creds' = DOMAIN load'.creds /\ DOMAIN policies' = DOMAIN load'.policies
    <2>1. /\ load' = load /\ creds' = [creds EXCEPT ![e.key] = e.cred]
          /\ policies' = [policies EXCEPT ![e.key] = e.policy]
      BY <1>1 DEF Edit
    <2> QED BY <2>1
  <1>2. ASSUME NEW c \in Calls,
               \/ RateLimit(c) \/ FindServingAgent(c) \/ FindSigningAgent(c)
               \/ ClaimRelaySession(c) \/ WriteAuthfile(c) \/ ClaimGrant(c)
        PROVE  load' = load /\ creds' = creds /\ policies' = policies
    BY <1>2 DEF RateLimit, FindServingAgent, FindSigningAgent, ClaimRelaySession, WriteAuthfile,
          ClaimGrant
  <1>3. UNCHANGED Shared \/ Tick => load' = load /\ creds' = creds /\ policies' = policies
    BY DEF Shared, Tick
  <1> QED BY <1>1, <1>2, <1>3, SharedSteps

PutInv ==
    /\ DOMAIN creds = DOMAIN load.creds /\ DOMAIN policies = DOMAIN load.policies
    /\ \A c \in Calls : Fits(c) /\ Spent(c)

\* Where each request's secrets may go and have gone is inductive.
THEOREM PlacesHold == Spec => []PutInv
  <1>1. ASSUME Init PROVE PutInv
    <2>1. /\ creds = load.creds /\ policies = load.policies /\ \A c \in Calls : calls[c] = Fresh
      BY <1>1 DEF Init
    <2>2. Fresh.at = "idle" /\ Fresh.sent = {} /\ Fresh.token = NoOne
      BY DEF Fresh
    <2> QED BY <2>1, <2>2 DEF PutInv, Fits, Spent, SentWithin, Carried
  <1>2. ASSUME KeysInv, GateInv, OwnInv, PutInv, [Next]_vars PROVE PutInv'
    <2>1. DOMAIN creds' = DOMAIN load'.creds /\ DOMAIN policies' = DOMAIN load'.policies
      BY <1>2, NamesStay DEF PutInv
    <2>2. load' = load
      BY <1>2, StepsKeepRows DEF KeysInv, CallShapes, OwnInv
    <2>3. ASSUME NEW c \in Calls PROVE Fits(c)' /\ Spent(c)'
      <3>1. CASE calls'[c] = calls[c]
        BY <1>2, <2>2, <3>1 DEF PutInv, Fits, Spent
      <3>2. CASE calls'[c] # calls[c]
        BY <1>2, <3>2, StepKeepsPut DEF KeysInv, GateInv, OwnInv, PutInv
      <3> QED BY <3>1, <3>2
    <2> QED BY <2>1, <2>3 DEF PutInv
  <1> QED BY <1>1, <1>2, KeysHold, GateFactsHold, OwnersHold, PTL DEF Spec

\* A secret stays with the hosts it is bound to (allowed_hosts, on the unified
\* and on the placeholder path), a bundle with the provider that issued it, and
\* no part of either reaches the agent (sanitize_response).
THEOREM SecretsAreKept == Spec => []SecretsStayPut
  <1>1. PutInv => SecretsStayPut
    <2> SUFFICES ASSUME PutInv PROVE SecretsStayPut
      OBVIOUS
    <2>1. \A c \in Calls : Spent(c)
      BY DEF PutInv
    <2>2. SecretStaysOnItsHosts
      BY <2>1 DEF SecretStaysOnItsHosts, Spent, SentWithin, RowsChecked, BoundTo, Kind
    <2>3. RefreshStaysWithIssuer
      BY <2>1 DEF RefreshStaysWithIssuer, Spent
    <2>4. AnswerHidesSecrets
      <3> SUFFICES ASSUME NEW c \in Calls, calls[c].at = "done"
                   PROVE  Masked(calls[c].response, calls[c].answer, UNION {PiecesOf(v) : v \in Values(c)})
        BY DEF AnswerHidesSecrets, Masked
      <3>1. Values(c) = ValuesOf(calls[c])
        BY DEF Values, ValuesOf, Kind
      <3> QED BY <2>1, <3>1 DEF Spent, SecretsOf
    <2> QED BY <2>2, <2>3, <2>4 DEF SecretsStayPut
  <1> QED BY <1>1, PlacesHold, PTL

-----------------------------------------------------------------------------
(* Asking                                                                  *)

NamesOf(req) == {CredNames(req)[i] : i \in DOMAIN CredNames(req)}

(* The name that the policy is looked up under.                            *)
Placed(c) ==
    LET call == calls[c] IN
        /\ call.req.kind = "legacy" /\ call.at = "value" => DOMAIN call.held = NamesOf(call.req)
        /\ call.req.kind = "legacy" /\ call.at \in Carried /\ DOMAIN call.held # {} =>
               call.name \in DOMAIN call.held
        /\ call.at \in {"mode", "grant", "ask"} /\ call.name = << >> => call.policy = NoPolicy

(* What the approver sees is what is signed, if it is anything.            *)
ShownFor(guard, value, payload) ==
    \/ guard.blind
    \/ /\ payload.text = guard.shown
       /\ IsEcdsa(value) => payload.hash \in KnownHashes

Guarded(c) ==
    LET call == calls[c] IN
        /\ call.req.kind = "sign" /\ call.at \in {"ask", "wait", "sign"} =>
               ShownFor(call.guard, call.value, call.req.payload)
        /\ call.signed = TRUE => ShownFor(call.guard, call.value, call.req.payload)

\* The names of the credentials of a request have a first.
LEMMA FirstNameIsOne ==
    ASSUME CallShapes, NEW c \in Calls, calls[c].at # "idle",
           DOMAIN CredNames(calls[c].req) # {}
    PROVE  First(CredNames(calls[c].req)) \in NamesOf(calls[c].req)
  <1>1. IsList(calls[c].req.refs)
    BY LoadAssumption DEF CallShapes, Shape
  <1>2. DOMAIN Placeholders(calls[c].req.refs) \subseteq Nat
    BY <1>1 DEF IsList, Placeholders, Sifted
  <1>3. DOMAIN CredNames(calls[c].req) \subseteq Nat
    <2>1. CASE CredNames(calls[c].req) = <<calls[c].req.oauth>>
      BY <2>1
    <2>2. CASE CredNames(calls[c].req) # <<calls[c].req.oauth>>
      BY <1>2, <2>2 DEF CredNames
    <2> QED BY <2>1, <2>2
  <1>4. PICK i \in DOMAIN CredNames(calls[c].req) :
            First(CredNames(calls[c].req)) = CredNames(calls[c].req)[i]
    BY <1>3, FirstIsOfIt
  <1> QED BY <1>4 DEF NamesOf

\* The policy is that of a team of the request's keys, under its name.
LEMMA KeyIsKnown ==
    ASSUME CallShapes, NEW c \in Calls, Keys(c), Fits(c), Placed(c), calls[c].at \in Carried
    PROVE  /\ PolicyKey(c)[1] \in TeamsOf(load)
           /\ calls[c].name = << >> => PolicyKey(c)[2] = << >>
  <1>1. calls[c].at \in Bound /\ calls[c].at \notin {"idle", "auth", "done"}
    BY DEF Carried, Bound
  <1>2. CASE calls[c].req.kind # "legacy"
    <2>1. calls[c].by \in DOMAIN load.agents
      BY <1>1, <1>2 DEF Keys, Valid
    <2>2. PolicyKey(c) = <<load.agents[calls[c].by].team, calls[c].name>>
      BY <1>2 DEF PolicyKey, Kind, Key, Team
    <2> QED BY <2>1, <2>2 DEF TeamsOf
  <1>3. CASE calls[c].req.kind = "legacy" /\ DOMAIN calls[c].held = {}
    <2>1. Primary(c) \in DOMAIN load.agents
      BY <1>1, PrimaryIsAgent DEF Keys
    <2>2. PolicyKey(c) = <<load.agents[Primary(c)].team, << >>>>
      BY <1>3 DEF PolicyKey, Kind, Agent
    <2> QED BY <2>1, <2>2 DEF TeamsOf
  <1>4. CASE calls[c].req.kind = "legacy" /\ DOMAIN calls[c].held # {}
    <2>1. calls[c].name \in DOMAIN calls[c].held /\ HeldIn(load, calls[c].held)
      BY <1>4 DEF Placed, Fits
    <2>2. PolicyKey(c) = calls[c].held[calls[c].name].key
      BY <1>4 DEF PolicyKey, Kind
    <2> QED BY <2>1, <2>2 DEF HeldIn
  <1> QED BY <1>2, <1>3, <1>4

\* A request that has not come to its policy yet, or has passed it.
LEMMA PlacedAway ==
    ASSUME NEW c, NEW kinds, NEW from, NEW to, NEW writes, Moves(c, kinds, from, to, writes),
           "req" \notin writes, to \cap {"mode", "grant", "ask"} = {},
           "legacy" \in kinds => to \cap (Carried \cup {"value"}) = {}
    PROVE  Placed(c)'
  <1>1. /\ calls'[c].at \in to /\ calls[c].req.kind \in kinds /\ calls'[c].req = calls[c].req
    BY FieldNames DEF Moves
  <1>2. calls'[c].at \notin {"mode", "grant", "ask"}
    BY <1>1
  <1>3. calls[c].req.kind = "legacy" => calls'[c].at \notin Carried \cup {"value"}
    BY <1>1
  <1> QED BY <1>1, <1>2, <1>3 DEF Placed

\* A request goes on under the name it has.
LEMMA PlacedStays ==
    ASSUME NEW c, Placed(c), NEW kinds, NEW from, NEW to, NEW writes,
           Moves(c, kinds, from, to, writes), from \subseteq Carried, "value" \notin to,
           {"req", "name", "held", "policy"} \cap writes = {},
           from \subseteq {"mode", "grant"} \/ to \cap {"mode", "grant", "ask"} = {}
    PROVE  Placed(c)'
  <1>1. /\ calls[c].at \in from /\ calls'[c].at \in to /\ calls'[c].req = calls[c].req
        /\ calls'[c].name = calls[c].name /\ calls'[c].held = calls[c].held
        /\ calls'[c].policy = calls[c].policy
    BY FieldNames DEF Moves
  <1>2. calls[c].at \in Carried /\ calls'[c].at # "value"
    BY <1>1
  <1>3. calls'[c].at \in {"mode", "grant", "ask"} => calls[c].at \in {"mode", "grant"}
    BY <1>1
  <1> QED BY <1>1, <1>2, <1>3 DEF Placed

\* The names that were found, and the first of them.
LEMMA FindingPlaces ==
    ASSUME CallShapes, NEW c \in Calls, Placed(c), FindOwningAgents(c) \/ ReadValues(c)
    PROVE  Placed(c)'
  <1>1. CASE FindOwningAgents(c)
    <2>1. Moves(c, {"legacy"}, {"serve"}, {"done", "value"}, {"held"})
      BY <1>1, FindOwningAgentsMoves
    <2>2. /\ calls'[c].req = calls[c].req /\ calls'[c].at \in {"done", "value"}
      BY <2>1, FieldNames DEF Moves
    <2>3. CASE Refuse(c)
      <3>1. calls'[c].at = "done"
        BY <2>3, KindByStage, FieldNames DEF Refuse, CallShapes
      <3> QED BY <3>1 DEF Placed, Carried
    <2>4. CASE ~Refuse(c)
      <3> DEFINE names == {CredNames(calls[c].req)[i] : i \in DOMAIN CredNames(calls[c].req)}
                 owner == [n \in names |-> FirstServing(calls[c].agents, n, NoOne)]
                 h == [n \in names |-> <<load.agents[owner[n]].team, n>>]
                 w == [calls[c] EXCEPT !.at = "value", !.held = h]
      <3>1. Takes(c, w) /\ names = NamesOf(calls[c].req)
        BY <1>1, <2>4 DEF FindOwningAgents, NamesOf
      <3>2. DOMAIN h = names
        OBVIOUS
      <3> HIDE DEF h, owner, names
      <3>3. w.held = h
        BY KindByStage, FieldNames
      <3> HIDE DEF w
      <3>4. calls'[c].held = h
        BY <3>1, <3>3, Taken
      <3> QED BY <2>2, <3>1, <3>2, <3>4 DEF Placed, Carried
    <2> QED BY <2>3, <2>4
  <1>2. CASE ReadValues(c)
    <2>1. Moves(c, {"legacy"}, {"value"}, {"done", "policy"}, {"name", "held", "route"})
      BY <1>2, ReadValuesMoves
    <2>2. /\ calls'[c].req = calls[c].req /\ calls'[c].at \in {"done", "policy"}
          /\ calls[c].at = "value" /\ calls[c].req.kind = "legacy"
      BY <2>1, FieldNames DEF Moves
    <2>3. CASE Refuse(c)
      <3>1. calls'[c].at = "done"
        BY <2>3, KindByStage, FieldNames DEF Refuse, CallShapes
      <3> QED BY <3>1 DEF Placed, Carried
    <2>4. CASE ~Refuse(c)
      <3> DEFINE n == IF DOMAIN CredNames(calls[c].req) = {} THEN << >>
                      ELSE First(CredNames(calls[c].req))
                 h == [x \in DOMAIN calls[c].held |->
                          [key |-> calls[c].held[x], value |-> StoredValue(calls[c].held[x])]]
                 r == Route("none", "direct", calls[c].req.target.host, calls[c].req.target, {})
                 w == [calls[c] EXCEPT !.at = "policy", !.name = n, !.held = h, !.route = r]
      <3>1. Takes(c, w)
        BY <1>2, <2>4 DEF ReadValues
      <3>2. DOMAIN h = NamesOf(calls[c].req)
        BY <2>2 DEF Placed
      <3>3. NamesOf(calls[c].req) # {} => n \in NamesOf(calls[c].req)
        BY <2>2, FirstNameIsOne DEF NamesOf
      <3> HIDE DEF n, h, r
      <3>4. w.held = h /\ w.name = n
        BY KindByStage, FieldNames
      <3> HIDE DEF w
      <3>5. calls'[c].held = h /\ calls'[c].name = n
        BY <3>1, <3>4, Taken
      <3> QED BY <2>2, <3>2, <3>3, <3>5 DEF Placed
    <2> QED BY <2>3, <2>4
  <1> QED BY <1>1, <1>2

\* What is asked for without a name has no policy; what is signed is guarded.
LEMMA PolicyPlaces ==
    ASSUME CallShapes, DOMAIN policies = DOMAIN load.policies, NEW c \in Calls, Keys(c), Fits(c),
           Placed(c), Blank(c), ReadPolicy(c)
    PROVE  Placed(c)' /\ Guarded(c)'
  <1>1. PolicyRead(c) /\ calls[c].at = "policy"
    BY ReadPolicyMoves DEF ReadPolicy, At
  <1>2. /\ calls'[c].req = calls[c].req /\ calls'[c].name = calls[c].name
        /\ calls'[c].held = calls[c].held /\ calls'[c].value = calls[c].value
        /\ calls'[c].signed = calls[c].signed /\ calls'[c].at \in {"mode", "ask", "done"}
        /\ calls'[c].at = "mode" => calls[c].req.kind # "sign"
    BY <1>1, FieldNames DEF PolicyRead, Moves
  <1>3. PICK v : /\ Takes(c, AfterPolicy(c, v))
                 /\ \/ v = [calls[c] EXCEPT !.policy = PolicyOf(PolicyKey(c))]
                    \/ v = [calls[c] EXCEPT !.failed = TRUE]
    BY DEF ReadPolicy
  <1>4. /\ DOMAIN v = CallFields /\ v.req = calls[c].req /\ v.value = calls[c].value
        /\ v.policy \in {PolicyOf(PolicyKey(c)), calls[c].policy}
    BY <1>3, FieldNames, KindByStage
  <1>5. calls[c].policy = NoPolicy /\ calls[c].signed = FALSE
    BY <1>1 DEF Blank
  <1>6. calls[c].name = << >> => PolicyOf(PolicyKey(c)) = NoPolicy
    <2>1. calls[c].name = << >> => PolicyKey(c)[2] = << >>
      BY <1>1, KeyIsKnown DEF Carried
    <2>2. \A k \in DOMAIN policies : k[2] # << >>
      BY LoadAssumption DEF CallShapes
    <2> QED BY <2>1, <2>2 DEF PolicyOf
  <1> DEFINE w == AfterPolicy(c, v)
             g == PreimageGuard(v.value, v.req.payload, v.req.pre)
  <1>7. CASE calls[c].req.kind = "sign"
    <2>1. w = [v EXCEPT !.guard = g, !.at = IF g.error = "none" THEN "ask" ELSE "done"]
      BY <1>7 DEF AfterPolicy, Kind
    <2>2. g.error = "none" => ShownFor(g, v.value, v.req.payload)
      <3>1. CASE v.req.pre # NoValue
        BY <3>1 DEF PreimageGuard, ShownFor, VerifyPreimage, Digest
      <3>2. CASE v.req.pre = NoValue
        BY <3>2 DEF PreimageGuard, ShownFor
      <3> QED BY <3>1, <3>2
    <2> HIDE DEF g, w
    <2>3. w.guard = g /\ w.policy = v.policy /\ (w.at = "ask" => g.error = "none")
      BY <1>4, <2>1, FieldNames
    <2>4. calls'[c] = w
      BY <1>3, Taken DEF w
    <2>5. Guarded(c)'
      BY <1>2, <1>4, <1>5, <2>2, <2>3, <2>4 DEF Guarded
    <2>6. Placed(c)'
      BY <1>2, <1>4, <1>5, <1>6, <1>7, <2>3, <2>4 DEF Placed
    <2> QED BY <2>5, <2>6
  <1>8. CASE calls[c].req.kind # "sign"
    <2>1. w = [v EXCEPT !.at = "mode"]
      BY <1>8 DEF AfterPolicy, Kind
    <2> HIDE DEF w
    <2>2. w.policy = v.policy /\ w.at = "mode"
      BY <1>4, <2>1, FieldNames
    <2>3. calls'[c] = w
      BY <1>3, Taken DEF w
    <2>4. Guarded(c)'
      BY <1>2, <1>5, <2>2, <2>3 DEF Guarded
    <2>5. Placed(c)'
      BY <1>1, <1>2, <1>4, <1>5, <1>6, <2>2, <2>3 DEF Placed, Carried
    <2> QED BY <2>4, <2>5
  <1> QED BY <1>7, <1>8

(* The constant that stands for no value is neither the record of a        *)
(* question nor that of a routing: a model value, or null, is no record.   *)
NoValueIsNoQuestion ==
    \A channel, ids, rows, members, unread, shown :
        [channel |-> channel, ids |-> ids, rows |-> rows, members |-> members,
         unread |-> unread, shown |-> shown] # NoValue

NoValueIsNoRouting ==
    \A channel, approvers, chat, matrix, room, matrixApprovers :
        [channel |-> channel, approvers |-> approvers, chat |-> chat, matrix |-> matrix,
         room |-> room, matrixApprovers |-> matrixApprovers] # NoValue

NoValueIsNoRecord == NoValueIsNoQuestion /\ NoValueIsNoRouting

(* Whether the policy names the member and the member may decide.          *)
NamedIn(members, asked, policy, name) ==
    LET routing == RowToRouting(policy)
        named == IF routing = NoValue THEN {} ELSE routing.approvers
    IN  /\ \A id \in asked.ids \ {Anyone} :
               \E m \in {x \in members : x["telegram"] = id} \cup {x \in members : x["matrix"] = id} :
                   \/ (named = {} \/ m.email \in named) /\ (MayDecide(m, name) \/ ~asked.members)
                   \/ routing # NoValue /\ m.email \in routing.matrixApprovers
        /\ asked.channel \in {"telegram", "matrix"} /\ Anyone \in asked.ids
           /\ named # {} /\ asked.members /\ asked.unread = {} =>
               \A m \in members :
                   m.email \in named /\ MayDecide(m, name) => m["telegram"] = NoOne

UsableIn(wired, rows) ==
    {i \in DOMAIN rows :
        /\ rows[i].enabled
        /\ rows[i].type = "telegram" => "telegram" \in wired
        /\ rows[i].type = "matrix" => "matrix" \in wired /\ rows[i].place}

(* Whether a channel is the policy's or, failing that, one of the team's.  *)
Suits(wired, rows, routing, channel) ==
    LET wants == IF routing = NoValue THEN "none" ELSE routing.channel IN
        /\ wants \in {"dashboard", "telegram"} \cap (wired \cup {"dashboard"}) => channel = wants
        /\ wants \notin {"agent_reflected", "app"} /\ UsableIn(wired, rows) # {}
           /\ (\A i \in DOMAIN rows : rows[i].type # "agent_reflected")
               => channel # "agent_reflected"

(* Whether it is asked where it should be.                                 *)
PlacedIn(wired, rows, asked, policy, byEndUser) ==
    IF byEndUser THEN asked.channel = "agent_reflected" /\ asked.ids = {Anyone}
    ELSE asked.rows => Suits(wired, rows, RowToRouting(policy), asked.channel)

ByEndUser(c) == calls[c].req.kind # "legacy" /\ calls[c].req.endUser # NoOne

(* Whether the person saw where it goes.                                   *)
Displays(call) ==
    call.req.kind \in {"forward", "legacy"} /\ call.req.target.host # NoHost =>
        /\ call.route.scheme # "sidecar" => call.route.to = call.req.target.host
        /\ \/ call.asked.shown = call.req.target
           \/ /\ call.req.kind = "legacy" /\ call.req.oauthTarget # NoUrl
              /\ call.asked.shown = call.req.oauthTarget

RightlyAsked(c) ==
    LET call == calls[c]
        team == PolicyKey(c)[1]
    IN  call.asked # NoValue =>
            /\ Displays(call)
            /\ NamedIn(load.members[team], call.asked, call.policy, call.name)
            /\ PlacedIn(load.wired, load.channels[team], call.asked, call.policy, ByEndUser(c))

(* Only what has a name has a policy.                                      *)
Ruled(name, policy) == name = << >> => policy = NoPolicy

(* How the ids that may decide follow from the policy.                     *)
Resolves(team, policy, name, noMembers, unread, rows, resolved, channel, routing, spliced,
         emails, ids) ==
    LET named == IF routing = NoValue THEN {} ELSE routing.approvers IN
        /\ team \in TeamsOf(load) /\ Ruled(name, policy) /\ routing = RowToRouting(policy)
        /\ spliced = SplicedRouting(routing, rows, resolved, channel)
        /\ emails = IF noMembers THEN named ELSE EffectiveApprovers(named, team, name)
        /\ ids = IF spliced = NoValue THEN {Anyone}
                 ELSE AllowedIn(channel, spliced, emails, unread, team)

(* Whether the member with an id is one whom the policy names.             *)
Names(members, id, routing, name, noMembers) ==
    LET named == IF routing = NoValue THEN {} ELSE routing.approvers IN
        \E m \in {x \in members : x["telegram"] = id} \cup {x \in members : x["matrix"] = id} :
            \/ (named = {} \/ m.email \in named) /\ (MayDecide(m, name) \/ noMembers)
            \/ routing # NoValue /\ m.email \in routing.matrixApprovers

\* Whom a channel lets decide is named, or anyone.
LEMMA ApproversFollowThePolicy ==
    ASSUME load \in Loads, NEW noMembers \in BOOLEAN, NEW team, NEW policy, NEW name,
           NEW unread, NEW rows, NEW resolved, NEW channel, NEW routing, NEW spliced, NEW emails,
           NEW ids,
           Resolves(team, policy, name, noMembers, unread, rows, resolved, channel, routing,
                    spliced, emails, ids),
           NEW id \in ids, id # Anyone
    PROVE  Names(load.members[team], id, routing, name, noMembers)
  <1> DEFINE named == IF routing = NoValue THEN {} ELSE routing.approvers
  <1> USE DEF Resolves
  <1> DEFINE M == load.members[team]
  <1>1. \A m, n \in M : m.email = n.email => m = n
    <2>1. team \in DOMAIN load.members
      BY LoadAssumption DEF TeamsOf
    <2> QED BY <2>1, LoadAssumption
  <1>2. name = << >> => named = {} /\ routing = NoValue
    BY DEF RowToRouting, Ruled
  <1>3. spliced # NoValue /\ id \in AllowedIn(channel, spliced, emails, unread, team)
    OBVIOUS
  <1>4. spliced.matrixApprovers # {} =>
            routing # NoValue /\ spliced.matrixApprovers = routing.matrixApprovers
    <2>1. CASE routing = NoValue
      BY <1>3, <2>1 DEF SplicedRouting, BlankRouting
    <2>2. CASE routing # NoValue
      <3>1. PICK x, y : spliced = [routing EXCEPT !.chat = x, !.matrix = y]
        BY <1>3, <2>2 DEF SplicedRouting
      <3>2. spliced.matrixApprovers = routing.matrixApprovers
        <4>1. "matrixApprovers" \in DOMAIN routing
          BY <2>2 DEF RowToRouting
        <4> QED BY <3>1, <4>1
      <3> QED BY <2>2, <3>2
    <2> QED BY <2>1, <2>2
  <1>5. \/ id \in ResolveApprovers(emails \ unread, team, "telegram")
        \/ id \in ResolveApprovers(emails \ unread, team, "matrix")
        \/ /\ spliced.matrixApprovers # {}
           /\ id \in ResolveApprovers(spliced.matrixApprovers \ unread, team, "matrix")
    BY <1>3 DEF AllowedIn
  <1>6. ASSUME NEW m \in M, m.email \in emails
        PROVE  (named = {} \/ m.email \in named) /\ (MayDecide(m, name) \/ noMembers)
    <2>1. CASE noMembers
      BY <1>6, <2>1
    <2>2. CASE ~noMembers /\ name = << >>
      BY <1>2, <1>6, <2>2 DEF EffectiveApprovers
    <2>3. CASE ~noMembers /\ name # << >>
      <3>1. PICK x \in M : /\ x.email = m.email /\ MayDecide(x, name)
                           /\ named = {} \/ x.email \in named
        BY <1>6, <2>3 DEF EffectiveApprovers
      <3>2. x = m
        BY <1>1, <3>1
      <3> QED BY <3>1, <3>2
    <2> QED BY <2>1, <2>2, <2>3
  <1>7. CASE id \in ResolveApprovers(emails \ unread, team, "telegram")
    <2>1. PICK m \in M : m["telegram"] = id /\ m.email \in emails
      BY <1>7 DEF ResolveApprovers
    <2> QED BY <1>6, <2>1 DEF Names
  <1>8. CASE id \in ResolveApprovers(emails \ unread, team, "matrix")
    <2>1. PICK m \in M : m["matrix"] = id /\ m.email \in emails
      BY <1>8 DEF ResolveApprovers
    <2> QED BY <1>6, <2>1 DEF Names
  <1>9. CASE /\ spliced.matrixApprovers # {}
             /\ id \in ResolveApprovers(spliced.matrixApprovers \ unread, team, "matrix")
    <2>1. PICK m \in M : m["matrix"] = id /\ m.email \in routing.matrixApprovers
      BY <1>4, <1>9 DEF ResolveApprovers
    <2> QED BY <1>4, <1>9, <2>1 DEF Names
  <1> QED BY <1>5, <1>7, <1>8, <1>9

\* A channel that restricts nobody, though the policy names people and all of it
\* could be read, has nobody eligible who could be named there.
LEMMA AnyoneForWantOfLinks ==
    ASSUME NoValueIsNoRouting, load \in Loads, NEW team, NEW policy, NEW name, NEW rows,
           NEW resolved, NEW channel, NEW routing, NEW spliced, NEW emails, NEW ids,
           Resolves(team, policy, name, FALSE, {}, rows, resolved, channel, routing, spliced,
                    emails, ids),
           channel \in {"telegram", "matrix"}, Anyone \in ids,
           routing # NoValue, routing.approvers # {},
           NEW m \in load.members[team], m.email \in routing.approvers, MayDecide(m, name)
    PROVE  m["telegram"] = NoOne
  <1>1. name # << >>
    BY DEF Resolves, Ruled, RowToRouting
  <1>2. m.email \in emails
    BY <1>1 DEF Resolves, EffectiveApprovers
  <1>3. \A n \in load.members[team] : Anyone \notin {n["telegram"], n["matrix"]}
    <2>1. team \in DOMAIN load.members
      BY LoadAssumption DEF TeamsOf, Resolves
    <2> QED BY <2>1, LoadAssumption
  <1>4. spliced # NoValue
    <2>1. PICK chat, matrix : spliced = [routing EXCEPT !.chat = chat, !.matrix = matrix]
      BY DEF Resolves, SplicedRouting
    <2>2. PICK a, b, x, y, r, t :
              routing = [channel |-> a, approvers |-> b, chat |-> x, matrix |-> y, room |-> r,
                         matrixApprovers |-> t]
      BY DEF Resolves, RowToRouting
    <2>3. spliced = [channel |-> a, approvers |-> b, chat |-> chat, matrix |-> matrix, room |-> r,
                     matrixApprovers |-> t]
      BY <2>1, <2>2
    <2> QED BY <2>3 DEF NoValueIsNoRouting
  <1>5. ResolveApprovers(emails, team, "telegram") = {}
    <2> DEFINE matrix == IF spliced.matrixApprovers = {}
                         THEN ResolveApprovers(emails \ {}, team, "matrix")
                         ELSE ResolveApprovers(spliced.matrixApprovers \ {}, team, "matrix")
    <2>1. /\ Anyone \notin ResolveApprovers(emails, team, "telegram")
          /\ Anyone \notin matrix
      BY <1>3 DEF ResolveApprovers
    <2>2. ids = AllowedIn(channel, spliced, emails, {}, team)
      BY <1>4 DEF Resolves
    <2>3. emails \ {} = emails
      OBVIOUS
    <2> HIDE DEF matrix
    <2> QED BY <2>1, <2>2, <2>3 DEF AllowedIn, matrix
  <1> QED BY <1>2, <1>5 DEF ResolveApprovers

\* The channel that is resolved is the policy's or, failing that, the team's.
LEMMA ChannelFollowsThePolicy ==
    ASSUME load \in Loads, NEW team \in TeamsOf(load), NEW routing
    PROVE  Suits(load.wired, load.channels[team], routing,
                 ResolveApprovalChannel(routing, load.channels[team]))
  <1> DEFINE rows == load.channels[team]
             wants == IF routing = NoValue THEN "none" ELSE routing.channel
  <1>1. wants \in {"dashboard", "telegram"} \cap (load.wired \cup {"dashboard"})
            => ResolveApprovalChannel(routing, rows) = wants
    BY DEF ResolveApprovalChannel, HintedChannel
  <1>2. wants \notin {"agent_reflected", "app"} => HintedChannel(routing, rows) # "agent_reflected"
    BY DEF HintedChannel
  <1>3. ASSUME UsableIn(load.wired, rows) # {},
               \A i \in DOMAIN rows : rows[i].type # "agent_reflected"
        PROVE  TeamChannel(rows) # "agent_reflected"
    <2> DEFINE usable == UsableRows(rows)
    <2>1. usable = UsableIn(load.wired, rows)
      BY DEF UsableRows, UsableIn
    <2>2. usable \subseteq DOMAIN rows /\ DOMAIN rows \subseteq Nat
      <3>1. IsList(rows)
        BY LoadAssumption DEF TeamsOf
      <3> QED BY <3>1 DEF IsList, UsableRows
    <2> HIDE DEF usable
    <2>3. \E i \in usable : \A j \in usable : i <= j
      BY <1>3, <2>1, <2>2, LeastOne
    <2>4. PICK i \in usable : i = CHOOSE k \in usable : \A j \in usable : k <= j
      BY <2>3
    <2>5. TeamChannel(rows) = rows[i].type
      BY <1>3, <2>1, <2>4 DEF TeamChannel, usable
    <2> QED BY <1>3, <2>2, <2>5
  <1> QED BY <1>1, <1>2, <1>3 DEF ResolveApprovalChannel, Suits

\* A question goes to the right people in the right place.
LEMMA AskingIsRight ==
    ASSUME NoValueIsNoRecord, CallShapes, NEW c \in Calls, Keys(c), Fits(c), Placed(c), Blank(c), Gate(c),
           Ask(c) \/ AskForPlaceholders(c) \/ AskToSign(c)
    PROVE  RightlyAsked(c)' /\ (calls'[c].at = "wait" => calls'[c].asked # NoValue)
  <1>1. PICK endUser, shown :
            /\ SendApprovalRequest(c, endUser, shown)
            /\ ByEndUser(c) <=> endUser # NoOne
            /\ calls[c].req.kind = "forward" => shown = calls[c].route.shown
            /\ calls[c].req.kind = "legacy" => shown = DisplayForPlaceholders(c)
    BY DEF Ask, AskForPlaceholders, AskToSign, ByEndUser, Kind
  <1>2. calls[c].at = "ask"
    BY DEF Ask, AskForPlaceholders, AskToSign, At
  <1>3. /\ load' = load
        /\ Moves(c, {"forward", "legacy", "sign"}, {"ask"}, {"done", "wait"}, {"asked"})
    BY AskMoves, Wider DEF Ask, AskForPlaceholders, AskToSign, Shared
  <1>4. /\ PolicyKey(c)[1] \in TeamsOf(load) /\ load \in Loads
        /\ calls[c].name = << >> => calls[c].policy = NoPolicy
    BY <1>2, KeyIsKnown DEF Carried, Placed, CallShapes
  <1>5. /\ PolicyKey(c)' = PolicyKey(c) /\ calls'[c].policy = calls[c].policy
        /\ calls'[c].name = calls[c].name /\ calls'[c].req = calls[c].req
        /\ ByEndUser(c)' = ByEndUser(c)
    <2>1. /\ calls'[c].policy = calls[c].policy /\ calls'[c].name = calls[c].name
          /\ calls'[c].req = calls[c].req /\ Settled(c)
      BY <1>3, FieldNames DEF Moves, Settled
    <2>2. ByEndUser(c)' = ByEndUser(c)
      BY <2>1 DEF ByEndUser
    <2> QED BY <2>1, <2>2, PolicyKeyStays
  <1> DEFINE team == PolicyKey(c)[1]
             policy == calls[c].policy
             routing == RowToRouting(policy)
             named == IF routing = NoValue THEN {} ELSE routing.approvers
             rows == load.channels[team]
             resolved(noRows) == IF noRows THEN "agent_reflected"
                                 ELSE ResolveApprovalChannel(routing, rows)
             channel(noRows) == ChannelForEndUser(resolved(noRows), endUser)
             spliced(noRows) == SplicedRouting(routing, rows, resolved(noRows), channel(noRows))
             emails(noMembers) == IF noMembers THEN named
                                  ELSE EffectiveApprovers(named, team, calls[c].name)
             ids(noRows, noMembers, unread) ==
                 IF spliced(noRows) = NoValue THEN {Anyone}
                 ELSE AllowedIn(channel(noRows), spliced(noRows), emails(noMembers), unread, team)
             asked(noRows, noMembers, unread) ==
                 [channel |-> channel(noRows), ids |-> ids(noRows, noMembers, unread),
                  rows |-> ~noRows, members |-> ~noMembers, unread |-> unread, shown |-> shown]
  <1>6. PICK noRows \in May("rows"), noMembers \in May("members"), lost \in May("send"),
             unread \in Unread(team) :
            Takes(c, IF lost THEN [calls[c] EXCEPT !.at = "done"]
                     ELSE [calls[c] EXCEPT !.at = "wait",
                                           !.asked = asked(noRows, noMembers, unread)])
    BY <1>1, Zenon DEF SendApprovalRequest
  <1> noRows \in BOOLEAN /\ noMembers \in BOOLEAN /\ lost \in BOOLEAN
    BY DEF May
  <1>7. CASE lost
    <2> DEFINE w == [calls[c] EXCEPT !.at = "done"]
    <2>1. Takes(c, w)
      BY <1>6, <1>7
    <2>2. w.asked = calls[c].asked /\ w.at = "done"
      BY KindByStage, FieldNames
    <2> HIDE DEF w
    <2>3. calls'[c].asked = NoValue /\ calls'[c].at = "done"
      BY <1>2, <2>1, <2>2, Taken DEF Blank
    <2> QED BY <2>3 DEF RightlyAsked
  <1>8. CASE ~lost
    <2>1. PICK r : r = resolved(noRows)
      OBVIOUS
    <2>2. PICK h : h = ChannelForEndUser(r, endUser)
      OBVIOUS
    <2>3. PICK s : s = SplicedRouting(routing, rows, r, h)
      OBVIOUS
    <2>4. PICK e : e = IF noMembers THEN named ELSE EffectiveApprovers(named, team, calls[c].name)
      OBVIOUS
    <2>5. PICK i : i = IF s = NoValue THEN {Anyone} ELSE AllowedIn(h, s, e, unread, team)
      OBVIOUS
    <2> DEFINE q == [channel |-> h, ids |-> i, rows |-> ~noRows, members |-> ~noMembers,
                     unread |-> unread, shown |-> shown]
               w == [calls[c] EXCEPT !.at = "wait", !.asked = q]
    <2>6. Takes(c, w)
      BY <1>6, <1>8, <2>1, <2>2, <2>3, <2>4, <2>5
    <2>7. /\ q.channel = h /\ q.ids = i /\ q.rows = ~noRows /\ q.members = ~noMembers
          /\ q.unread = unread /\ q.shown = shown /\ q # NoValue
      BY DEF NoValueIsNoRecord, NoValueIsNoQuestion
    <2> HIDE DEF q
    <2>8. w.asked = q
      BY KindByStage, FieldNames
    <2>9. calls'[c].asked = q
      <3> HIDE DEF w
      <3> QED BY <2>6, <2>8, Taken
    <2> HIDE DEF w
    <2>10. NamedIn(load.members[team], q, policy, calls[c].name)
      <3>1. Resolves(team, policy, calls[c].name, noMembers, unread, rows, r, h, routing, s, e, i)
        BY <1>4, <2>3, <2>4, <2>5 DEF Resolves, Ruled
      <3>2. ASSUME NEW id \in i, id # Anyone
            PROVE  Names(load.members[team], id, routing, calls[c].name, noMembers)
        <4> HIDE DEF team, policy, rows, routing
        <4> QED BY <1>4, <3>1, <3>2, ApproversFollowThePolicy
      <3>3. ASSUME h \in {"telegram", "matrix"}, Anyone \in i, named # {}, ~noMembers, unread = {},
                   NEW m \in load.members[team], m.email \in named, MayDecide(m, calls[c].name)
            PROVE  m["telegram"] = NoOne
        <4>1. routing # NoValue /\ routing.approvers # {} /\ m.email \in routing.approvers
          BY <3>3
        <4>2. Resolves(team, policy, calls[c].name, FALSE, {}, rows, r, h, routing, s, e, i)
          <5> HIDE DEF team, policy, rows, routing
          <5> QED BY <3>1, <3>3
        <4> HIDE DEF team, policy, rows, routing, named
        <4> QED BY <1>4, <3>3, <4>1, <4>2, AnyoneForWantOfLinks DEF NoValueIsNoRecord
      <3> QED BY <2>7, <3>2, <3>3 DEF NamedIn, Names
    <2>11. PlacedIn(load.wired, rows, q, policy, ByEndUser(c))
      <3>1. CASE ByEndUser(c)
        <4>1. h = "agent_reflected"
          BY <1>1, <2>2, <3>1 DEF ChannelForEndUser
        <4>2. i = {Anyone}
          BY <2>5, <4>1 DEF AllowedIn
        <4> QED BY <2>7, <3>1, <4>1, <4>2 DEF PlacedIn
      <3>2. CASE ~ByEndUser(c) /\ ~noRows
        <4>1. h = ResolveApprovalChannel(routing, rows)
          BY <1>1, <2>1, <2>2, <3>2 DEF ChannelForEndUser
        <4>2. Suits(load.wired, rows, routing, ResolveApprovalChannel(routing, rows))
          BY <1>4, ChannelFollowsThePolicy
        <4> HIDE DEF rows
        <4> QED BY <2>7, <3>2, <4>1, <4>2 DEF PlacedIn
      <3>3. CASE ~ByEndUser(c) /\ noRows
        BY <2>7, <3>3 DEF PlacedIn
      <3> QED BY <3>1, <3>2, <3>3
    <2>12. Displays(calls'[c])
      <3>1. /\ calls'[c].req = calls[c].req /\ calls'[c].route = calls[c].route
            /\ calls'[c].asked.shown = shown
        BY <1>3, <2>7, <2>9, FieldNames DEF Moves
      <3>2. calls[c].req.kind \in {"forward", "legacy"} /\ calls[c].req.target.host # NoHost =>
                Leads(calls[c].route, calls[c].req.target)
        BY <1>2 DEF Gate, Shown, Routed
      <3> QED BY <1>1, <3>1, <3>2 DEF Displays, Leads, DisplayForPlaceholders
    <2>13. RightlyAsked(c)'
      <3>1. PICK b : b = ByEndUser(c)
        OBVIOUS
      <3>2. /\ NamedIn(load'.members[PolicyKey(c)'[1]], calls'[c].asked, calls'[c].policy, calls'[c].name)
            /\ PlacedIn(load'.wired, load'.channels[PolicyKey(c)'[1]], calls'[c].asked,
                        calls'[c].policy, b)
        BY <1>3, <1>5, <2>9, <2>10, <2>11, <3>1
      <3> QED BY <1>5, <2>12, <3>1, <3>2 DEF RightlyAsked
    <2> QED BY <2>7, <2>9, <2>13
  <1> QED BY <1>7, <1>8

\* Nobody was asked.
LEMMA NotAsked ==
    ASSUME NEW c, calls'[c].asked = NoValue
    PROVE  RightlyAsked(c)'
  BY DEF RightlyAsked

\* What was asked is as right as it was.
LEMMA AskedStays ==
    ASSUME NEW c, RightlyAsked(c), Settled(c), calls'[c].asked = calls[c].asked,
           calls'[c].policy = calls[c].policy, calls'[c].route = calls[c].route
    PROVE  RightlyAsked(c)'
  <1>1. PolicyKey(c)' = PolicyKey(c)
    BY PolicyKeyStays
  <1>2. calls'[c].req = calls[c].req /\ calls'[c].name = calls[c].name /\ load' = load
    BY DEF Settled
  <1>3. PICK b : b = ByEndUser(c)
    OBVIOUS
  <1>4. ByEndUser(c)' = b
    BY <1>2, <1>3 DEF ByEndUser
  <1>5. Displays(calls[c]) <=> Displays(calls'[c])
    BY <1>2 DEF Displays
  <1> QED BY <1>1, <1>2, <1>3, <1>4, <1>5 DEF RightlyAsked

(* Who was asked, by the stage, and what the log says at the end.          *)
Audited(c) ==
    LET call == calls[c] IN
        /\ call.at \in {"wait", "sign"} => call.asked # NoValue
        /\ call.at \in {"exchange", "send", "retry", "answer"} =>
               (call.verdict = "approved" <=> call.asked # NoValue)
        /\ call.at = "done" /\ (call.sent # {} \/ call.signed = TRUE) =>
               call.audit = (IF call.asked = NoValue THEN "unasked" ELSE "approved")

\* Before a question there is nothing to have been asked or used.
LEMMA NothingAsked ==
    ASSUME NEW c, Blank(c), NEW kinds, NEW from, NEW to, NEW writes,
           Moves(c, kinds, from, to, writes),
           from \subseteq Early \cup {"relay", "policy", "mode", "grant"},
           to \cap {"wait", "sign", "send", "retry", "answer"} = {},
           {"asked", "verdict", "sent", "signed"} \cap writes = {}
    PROVE  RightlyAsked(c)' /\ Audited(c)'
  <1>1. /\ calls[c].at \in from /\ calls'[c].at \in to /\ calls'[c].asked = calls[c].asked
        /\ calls'[c].verdict = calls[c].verdict /\ calls'[c].sent = calls[c].sent
        /\ calls'[c].signed = calls[c].signed
    BY FieldNames DEF Moves
  <1>2. /\ calls[c].at \in Early \cup {"relay", "policy", "mode", "grant"}
        /\ calls'[c].at \notin {"wait", "sign", "send", "retry", "answer"}
    BY <1>1
  <1>3. calls[c].asked = NoValue /\ calls[c].verdict = "none"
    BY <1>2 DEF Blank
  <1>4. calls[c].sent = {} /\ calls[c].signed = FALSE
    BY <1>2 DEF Blank, Early
  <1> QED BY <1>1, <1>2, <1>3, <1>4, NotAsked DEF Audited

\* What has nothing to sign has nothing to show.
LEMMA NothingShown ==
    ASSUME NEW c, Blank(c), NEW kinds, NEW from, NEW to, NEW writes,
           Moves(c, kinds, from, to, writes), "done" \notin from,
           "sign" \in kinds => to \cap {"ask", "wait", "sign"} = {},
           {"req", "signed"} \cap writes = {}
    PROVE  Guarded(c)'
  <1>1. /\ calls[c].at \in from /\ calls'[c].at \in to /\ calls[c].req.kind \in kinds
        /\ calls'[c].req = calls[c].req /\ calls'[c].signed = calls[c].signed
    BY FieldNames DEF Moves
  <1>2. calls'[c].signed = FALSE
    BY <1>1 DEF Blank
  <1>3. calls[c].req.kind = "sign" => calls'[c].at \notin {"ask", "wait", "sign"}
    BY <1>1
  <1> QED BY <1>1, <1>2, <1>3 DEF Guarded

\* What was guarded stays so while a person decides.
LEMMA GuardStays ==
    ASSUME NEW c, Guarded(c), NEW kinds, NEW from, NEW to, NEW writes,
           Moves(c, kinds, from, to, writes), from \subseteq {"ask", "wait"},
           {"req", "signed", "guard", "value"} \cap writes = {}
    PROVE  Guarded(c)'
  <1>1. /\ calls[c].at \in from /\ calls'[c].signed = calls[c].signed
        /\ calls'[c].req = calls[c].req /\ calls'[c].guard = calls[c].guard
        /\ calls'[c].value = calls[c].value
    BY FieldNames DEF Moves
  <1>2. calls[c].at \in {"ask", "wait"}
    BY <1>1
  <1> QED BY <1>1, <1>2 DEF Guarded

\* A request goes on as it was asked.
LEMMA AskedOnward ==
    ASSUME NEW c, RightlyAsked(c), NEW kinds, NEW from, NEW to, NEW writes,
           Moves(c, kinds, from, to, writes),
           {"req", "agents", "by", "name", "held", "asked", "policy", "route"} \cap writes = {}
    PROVE  RightlyAsked(c)'
  <1>1. /\ Settled(c) /\ calls'[c].asked = calls[c].asked /\ calls'[c].policy = calls[c].policy
        /\ calls'[c].route = calls[c].route
    BY FieldNames DEF Moves, Settled
  <1> QED BY <1>1, AskedStays

(* What is known of one request's question.                                *)
Informed(c) == Placed(c) /\ Guarded(c) /\ RightlyAsked(c) /\ Audited(c)

\* A question.
LEMMA AskingInforms ==
    ASSUME NoValueIsNoRecord, CallShapes, NEW c \in Calls, Keys(c), Fits(c), Blank(c), Gate(c),
           Informed(c), Ask(c) \/ AskForPlaceholders(c) \/ AskToSign(c)
    PROVE  Informed(c)'
  <1>1. Moves(c, {"forward", "legacy", "sign"}, {"ask"}, {"done", "wait"}, {"asked"})
    BY AskMoves, Wider
  <1>2. Placed(c)' /\ Guarded(c)'
    BY <1>1, PlacedStays, GuardStays DEF Informed, Carried
  <1>3. RightlyAsked(c)' /\ (calls'[c].at = "wait" => calls'[c].asked # NoValue)
    BY AskingIsRight DEF Informed
  <1>4. /\ calls[c].at = "ask" /\ calls'[c].at \in {"done", "wait"}
        /\ calls'[c].sent = calls[c].sent /\ calls'[c].signed = calls[c].signed
    BY <1>1, FieldNames DEF Moves
  <1>5. calls[c].sent = {} /\ calls[c].signed = FALSE
    BY <1>4 DEF Blank
  <1>6. Audited(c)'
    BY <1>3, <1>4, <1>5 DEF Audited
  <1> QED BY <1>2, <1>3, <1>6 DEF Informed

\* A verdict.
LEMMA DecidingInforms ==
    ASSUME CallShapes, NEW c \in Calls, Blank(c), Informed(c), NEW verdict \in Verdicts,
           Decide(c, verdict) \/ DecideToSign(c, verdict)
    PROVE  Informed(c)'
  <1>1. \/ Decided(c, {"forward", "legacy"}, "exchange")
        \/ Decided(c, {"sign"}, "sign")
    BY DecideMoves, DecideToSignMoves
  <1>2. Moves(c, {"forward", "legacy", "sign"}, {"wait"}, {"exchange", "sign", "done"},
              {"verdict", "audit"})
    BY <1>1, Wider DEF Decided
  <1>3. Placed(c)' /\ Guarded(c)' /\ RightlyAsked(c)'
    BY <1>2, PlacedStays, GuardStays, AskedOnward DEF Informed, Carried
  <1>4. /\ calls[c].at = "wait" /\ calls'[c].asked = calls[c].asked
        /\ calls'[c].at \in {"exchange", "sign", "done"}
        /\ calls'[c].sent = calls[c].sent /\ calls'[c].signed = calls[c].signed
    BY <1>2, FieldNames DEF Moves
  <1>5. calls[c].sent = {} /\ calls[c].signed = FALSE
    BY <1>4 DEF Blank
  <1>6. calls'[c].at \in {"exchange", "sign"} => calls'[c].verdict = "approved"
    BY <1>1 DEF Decided, Moves
  <1>7. Audited(c)'
    BY <1>4, <1>5, <1>6 DEF Audited, Informed
  <1> QED BY <1>3, <1>7 DEF Informed

\* The use upstream.
LEMMA UsingInforms ==
    ASSUME CallShapes, NEW c \in Calls, Blank(c), Informed(c),
           ExchangeToken(c) \/ Send(c) \/ RetryWithOauth1(c) \/ Answer(c)
    PROVE  Informed(c)'
  <1>1. Moves(c, {"forward", "legacy"}, {"exchange", "send", "retry", "answer"},
              {"send", "retry", "answer", "done"},
              {"token", "audit", "sent", "response", "answer"})
    BY UsingSteps DEF Using
  <1>2. Placed(c)' /\ Guarded(c)' /\ RightlyAsked(c)'
    BY <1>1, PlacedStays, NothingShown, AskedOnward DEF Informed, Carried
  <1>3. /\ calls[c].at \in {"exchange", "send", "retry", "answer"}
        /\ calls'[c].at \in {"send", "retry", "answer", "done"}
        /\ calls'[c].asked = calls[c].asked /\ calls'[c].verdict = calls[c].verdict
        /\ calls'[c].signed = calls[c].signed
    BY <1>1, FieldNames DEF Moves
  <1>4. calls[c].signed = FALSE /\ (calls[c].verdict = "approved" <=> calls[c].asked # NoValue)
    BY <1>3 DEF Blank, Informed, Audited
  <1>5. calls'[c].at = "done" => calls'[c].sent = {} \/ calls'[c].audit = AuditedAs(c)
    <2>1. CASE ExchangeToken(c)
      <3>1. calls[c].at = "exchange" /\ calls'[c].sent = calls[c].sent
        BY <2>1, ExchangeMoves, FieldNames DEF Exchanged, Moves
      <3> QED BY <3>1 DEF Blank
    <2>2. CASE Send(c)
      BY <2>2, SendingMoves DEF Sent, Moves
    <2>3. CASE RetryWithOauth1(c)
      BY <2>3, RetryWithOauth1Moves DEF Moves
    <2>4. CASE Answer(c)
      <3> DEFINE a == SanitizeResponse(calls[c].response.body, calls[c].response.holds, Values(c))
                 w == [calls[c] EXCEPT !.at = "done", !.audit = AuditedAs(c), !.answer = a]
      <3>1. Takes(c, w)
        BY <2>4 DEF Answer
      <3> HIDE DEF a
      <3>2. w.audit = AuditedAs(c)
        BY KindByStage, FieldNames
      <3> HIDE DEF w
      <3> QED BY <3>1, <3>2, Taken
    <2> QED BY <2>1, <2>2, <2>3, <2>4
  <1>6. Audited(c)'
    BY <1>3, <1>4, <1>5 DEF Audited, AuditedAs
  <1> QED BY <1>2, <1>6 DEF Informed

\* A signature.
LEMMA SigningInforms ==
    ASSUME CallShapes, NEW c \in Calls, Blank(c), Informed(c), SignPayload(c)
    PROVE  Informed(c)'
  <1>1. Moves(c, {"sign"}, {"sign"}, {"done"}, {"signed", "audit"})
    BY SignPayloadMoves
  <1>2. Placed(c)' /\ RightlyAsked(c)'
    BY <1>1, PlacedAway, AskedOnward DEF Informed
  <1>3. /\ calls[c].at = "sign" /\ calls'[c].at = "done" /\ calls[c].req.kind = "sign"
        /\ calls'[c].req = calls[c].req /\ calls'[c].guard = calls[c].guard
        /\ calls'[c].value = calls[c].value /\ calls'[c].asked = calls[c].asked
        /\ calls'[c].sent = calls[c].sent
    BY <1>1, FieldNames DEF Moves
  <1>4. calls[c].sent = {} /\ calls[c].signed = FALSE
    BY <1>3 DEF Blank
  <1>5. Guarded(c)'
    BY <1>3 DEF Guarded, Informed
  <1>6. calls'[c].signed = TRUE => calls'[c].audit = "approved"
    <2>1. CASE Takes(c, [calls[c] EXCEPT !.at = "done", !.signed = TRUE, !.audit = "approved"])
      <3> DEFINE w == [calls[c] EXCEPT !.at = "done", !.signed = TRUE, !.audit = "approved"]
      <3>1. Takes(c, w)
        BY <2>1
      <3>2. w.audit = "approved"
        BY KindByStage, FieldNames
      <3> HIDE DEF w
      <3> QED BY <3>1, <3>2, Taken
    <2>2. CASE Takes(c, [calls[c] EXCEPT !.at = "done"])
      <3> DEFINE w == [calls[c] EXCEPT !.at = "done"]
      <3>1. Takes(c, w)
        BY <2>2
      <3>2. w.signed = calls[c].signed
        BY KindByStage, FieldNames
      <3> HIDE DEF w
      <3> QED BY <1>4, <3>1, <3>2, Taken
    <2> QED BY <2>1, <2>2 DEF SignPayload
  <1>7. Audited(c)'
    BY <1>3, <1>4, <1>6 DEF Audited, Informed
  <1> QED BY <1>2, <1>5, <1>7 DEF Informed

\* A step of a request.
LEMMA StepKeepsInformed ==
    ASSUME NoValueIsNoRecord, CallShapes, DOMAIN policies = DOMAIN load.policies, [Next]_vars,
           NEW c \in Calls, Keys(c), Fits(c), Blank(c), Gate(c), Informed(c), calls'[c] # calls[c]
    PROVE  Informed(c)'
  <1>1. ASSUME NEW req \in load.requests, Receive(c, req) PROVE Informed(c)'
    <2>1. /\ calls[c] = Fresh /\ calls'[c].at = "auth"
          /\ \A f \in CallFields \ {"at", "req"} : calls'[c][f] = calls[c][f]
      BY <1>1, ReceiveMoves
    <2>2. Fresh.asked = NoValue /\ Fresh.signed = FALSE
      BY DEF Fresh
    <2>3. calls'[c].asked = NoValue /\ calls'[c].signed = FALSE
      BY <2>1, <2>2, FieldNames
    <2> QED BY <2>1, <2>3, NotAsked DEF Informed, Placed, Guarded, Audited, Carried
  <1>2. CASE Authenticate(c) \/ AuthenticateSigner(c) \/ AuthenticateAgentFromHeaders(c)
    <2>1. Moves(c, Kinds, {"auth"}, {"done", "count", "serve", "relay_config"},
                {"agents", "window"})
      BY <1>2, AuthenticateMoves, AuthenticateSignerMoves, AuthenticateAgentFromHeadersMoves, Wider
         DEF Kinds
    <2> QED BY <2>1, PlacedAway, NothingShown, NothingAsked DEF Informed, Carried, Early
  <1>3. CASE RateLimit(c)
    <2>1. Moves(c, Kinds, {"count"}, {"done", "serve", "parse"}, {"counted", "late"})
      BY <1>3, RateLimitMoves, Wider DEF Counted, Kinds
    <2> QED BY <2>1, PlacedAway, NothingShown, NothingAsked DEF Informed, Carried, Early
  <1>4. CASE \/ FindServingAgent(c) \/ FindSigningAgent(c) \/ ReadConfig(c) \/ ReadSigningConfig(c)
             \/ ReadValue(c) \/ ReadSigningValue(c) \/ RelayGate(c)
             \/ RelayConfig(c) \/ ClaimRelaySession(c) \/ ListSessions(c) \/ WriteAuthfile(c)
    <2>1. Moves(c, {"forward", "sign", "relay"},
                {"serve", "config", "value", "relay", "relay_config", "claim", "list", "project"},
                {"config", "value", "relay", "policy", "claim", "list", "project", "done"},
                {"by", "name", "cred", "value", "route", "leased", "asOf", "live"})
      BY <1>4, FindServingAgentMoves, FindSigningAgentMoves, ReadConfigMoves,
         ReadSigningConfigMoves, ReadValueMoves, ReadSigningValueMoves, RelayGateMoves,
         RelayConfigMoves, ClaimRelaySessionMoves, ListSessionsMoves, WriteAuthfileMoves, Wider
    <2> QED BY <2>1, PlacedAway, NothingShown, NothingAsked DEF Informed, Early
  <1>5. CASE ParseRequest(c)
    <2>1. Moves(c, {"legacy"}, {"parse"}, {"done", "serve"}, {"configs"})
      BY <1>5, ParseRequestMoves
    <2> QED BY <2>1, PlacedAway, NothingShown, NothingAsked DEF Informed, Carried, Early
  <1>6. CASE FindOwningAgents(c) \/ ReadValues(c)
    <2>1. Moves(c, {"legacy"}, {"serve", "value"}, {"done", "value", "policy"},
                {"name", "held", "route"})
      BY <1>6, FindOwningAgentsMoves, ReadValuesMoves, Wider
    <2>2. Placed(c)'
      BY <1>6, FindingPlaces DEF Informed
    <2> QED BY <2>1, <2>2, NothingShown, NothingAsked DEF Informed, Early
  <1>7. CASE ReadPolicy(c)
    <2>1. Moves(c, {"forward", "legacy", "sign"}, {"policy"}, {"mode", "ask", "done"},
                {"policy", "failed", "guard"})
      BY <1>7, ReadPolicyMoves, Wider DEF PolicyRead
    <2>2. Placed(c)' /\ Guarded(c)'
      BY <1>7, PolicyPlaces DEF Informed
    <2> QED BY <2>1, <2>2, NothingAsked DEF Informed
  <1>8. CASE Evaluate(c) \/ ClaimGrant(c)
    <2>1. Moves(c, {"forward", "legacy"}, {"mode", "grant"}, {"exchange", "grant", "ask"},
                {"reason", "grant"})
      <3>1. CASE Evaluate(c)
        BY <3>1, EvaluateMoves, Wider
      <3>2. CASE Moves(c, {"forward", "legacy"}, {"grant"}, {"exchange"}, {"grant"})
        BY <3>2, Wider
      <3>3. CASE Moves(c, {"forward", "legacy"}, {"grant"}, {"ask"}, {})
        BY <3>3 DEF Moves
      <3> QED BY <1>8, <3>1, <3>2, <3>3, ClaimGrantMoves DEF Claimed
    <2> QED BY <2>1, PlacedStays, NothingShown, NothingAsked DEF Informed, Carried
  <1>9. CASE Ask(c) \/ AskForPlaceholders(c) \/ AskToSign(c)
    BY <1>9, AskingInforms
  <1>10. CASE \E verdict \in Verdicts : Decide(c, verdict) \/ DecideToSign(c, verdict)
    BY <1>10, DecidingInforms
  <1>11. CASE ExchangeToken(c) \/ Send(c) \/ RetryWithOauth1(c) \/ Answer(c)
    BY <1>11, UsingInforms
  <1>12. CASE SignPayload(c)
    BY <1>12, SigningInforms
  <1> QED BY OwnStep, <1>1, <1>2, <1>3, <1>4, <1>5, <1>6, <1>7, <1>8, <1>9, <1>10, <1>11,
             <1>12 DEF Act

InformedInv == \A c \in Calls : Informed(c)

\* What each request asks, shows and leaves in the log is inductive, beside the
\* facts about keys, verdicts, rows and routes.
THEOREM QuestionsHold ==
    ASSUME NoValueIsNoRecord
    PROVE  Spec => []InformedInv
  <1>1. ASSUME Init PROVE InformedInv
    <2>1. \A c \in Calls : calls[c] = Fresh
      BY <1>1 DEF Init
    <2>2. Fresh.at = "idle" /\ Fresh.asked = NoValue /\ Fresh.signed = FALSE
      BY DEF Fresh
    <2> QED BY <2>1, <2>2 DEF InformedInv, Informed, Placed, Guarded, RightlyAsked, Audited, Carried
  <1>2. ASSUME KeysInv, GateInv, OwnInv, PutInv, InformedInv, [Next]_vars PROVE InformedInv'
    <2>1. load' = load
      BY <1>2, StepsKeepRows DEF KeysInv, CallShapes, OwnInv
    <2>2. ASSUME NEW c \in Calls PROVE Informed(c)'
      <3>1. CASE calls'[c] = calls[c]
        <4>1. Informed(c) /\ Settled(c) /\ RightlyAsked(c)
          BY <1>2, <2>1, <3>1 DEF InformedInv, Informed, Settled
        <4>2. RightlyAsked(c)'
          BY <3>1, <4>1, AskedStays
        <4> QED BY <3>1, <4>1, <4>2 DEF Informed, Placed, Guarded, Audited
      <3>2. CASE calls'[c] # calls[c]
        BY <1>2, <3>2, StepKeepsInformed DEF KeysInv, GateInv, PutInv, InformedInv
      <3> QED BY <3>1, <3>2
    <2> QED BY <2>2 DEF InformedInv
  <1> QED BY <1>1, <1>2, KeysHold, GateFactsHold, OwnersHold, PlacesHold, PTL DEF Spec

\* The ids that may decide in a messaging channel are those of members whom the
\* policy names and who may decide; it restricts nobody only for want of such ids
\* (resolve_approvers, an empty list), and the question is put where the policy or
\* the team wants it (resolve_approval_channel).  What is forwarded after it goes
\* where the person was shown, but for X-OAuth-Target; what is signed was approved
\* and is what was shown (preimage_guard); and what was used is in the audit log
\* under the verdict it was used under.
THEOREM ApprovalsAreInformed ==
    ASSUME NoValueIsNoRecord
    PROVE  Spec => []ApprovalIsInformed
  <1>1. ASSUME TypeOK, GateInv, InformedInv PROVE ApprovalIsInformed
    <2>1. \A c \in Calls : Informed(c) /\ Gate(c) /\ Blank(c)
      BY <1>1 DEF InformedInv, GateInv
    <2>2. ApproversAreNamed
      BY <2>1 DEF ApproversAreNamed, Informed, RightlyAsked, NamedIn, MembersWith
    <2>3. AskedWhereConfigured
      <3>1. \A rows : UsableRows(rows) = UsableIn(load.wired, rows)
        BY DEF UsableRows, UsableIn
      <3> QED BY <2>1, <3>1 DEF AskedWhereConfigured, Informed, RightlyAsked, PlacedIn, Suits,
                                 ByEndUser, Kind
    <2>4. SignedIsWhatWasShown
      BY <2>1 DEF SignedIsWhatWasShown, Informed, Guarded, ShownFor, Gate
    <2>5. UsesAreAudited
      BY <2>1 DEF UsesAreAudited, Informed, Audited, Used, At
    <2>6. ForwardedAsShown
      BY <2>1 DEF ForwardedAsShown, Informed, RightlyAsked, Displays, Kind
    <2> QED BY <1>1, <2>2, <2>3, <2>4, <2>5, <2>6 DEF ApprovalIsInformed
  <1> QED BY <1>1, TypesHold, GateFactsHold, QuestionsHold, PTL
===============================================================================
