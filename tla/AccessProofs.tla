----------------------------- MODULE AccessProofs -----------------------------
(***************************************************************************)
(* Proofs about what lets a request of an agent pass without asking a      *)
(* person: the grants of Grants, and at the end of the module the caches   *)
(* of AgentCache, by which the agent itself is recognised.                 *)
(*                                                                         *)
(* Grants, for any number of grants, of concurrent requests and of         *)
(* targets, any TTL and any cap.                                           *)
(* Facts is the inductive invariant: TypeOK together with what the rows    *)
(* keep of the guardrails they were created under (RowFacts), what a       *)
(* request let through keeps of the grant that let it through (CallFacts), *)
(* and the accounting of uses (UseFacts).  CapBoundsApprovals is not       *)
(* inductive by itself: a grant could be created over an id that a request *)
(* was already let through by, which RowFacts and CallFacts exclude.       *)
(* CoverFacts says of every grant that is tried that it covers the request.*)
(***************************************************************************)
EXTENDS Grants, AgentCache, FiniteSetTheorems, SequenceTheorems, TLAPS

RowFacts ==
    \A g \in Grants :
        /\ ~rows[g].exists => rows[g] = NoRow
        /\ rows[g].exists => rows[g].expires <= rows[g].created + MaxTtl

CallFacts ==
    \A c \in Calls :
        calls[c].grant # None => /\ rows[calls[c].grant].exists
                                 /\ calls[c].asOf < rows[calls[c].grant].expires

(* What a grant that is tried, or was used, covers: the request of the     *)
(* call, and for a minted grant nothing but the request it was minted from.*)
CoverFacts ==
    /\ \A g \in Grants :
           rows[g].exists /\ rows[g].source # None =>
               rows[g].scope = ScopeFromTarget(rows[g].source)
    /\ \A c \in Calls :
           /\ calls[c].step = "idle" => calls[c].candidates = {}
           /\ calls[c].step # "idle" => calls[c].target \in Targets
           /\ \A g \in calls[c].candidates \cup ({calls[c].grant} \ {None}) :
                  GrantCovers(rows[g].scope, calls[c].target)

UseFacts ==
    \A g \in Grants :
        /\ Cardinality(GrantedBy(g)) <= rows[g].uses
        /\ rows[g].cap # NoCap => rows[g].uses <= rows[g].cap

Facts == TypeOK /\ RowFacts /\ CallFacts /\ UseFacts /\ CoverFacts

(***************************************************************************)
(* The effect of a step, seen from one grant and from one call.            *)
(***************************************************************************)
RowCreated(g) ==
    /\ ~rows[g].exists
    /\ \E scope \in Scopes, ttl \in Ttls, cap \in Caps, source \in Targets \cup {None} :
           /\ BoundsAllowed(ttl, cap)
           /\ source # None => scope = ScopeFromTarget(source)
           /\ rows'[g] = Row(scope, ttl, cap, source)

RowUsed(g) ==
    /\ rows[g].exists /\ ~rows[g].revoked /\ UsesLeft(rows[g])
    /\ rows'[g] = [rows[g] EXCEPT !.uses = @ + 1]

(* An action that leaves every call alone and creates or revokes one grant.*)
Authoring ==
    /\ calls' = calls /\ now' = now
    /\ \E g \in Grants :
           /\ \/ RowCreated(g)
              \/ rows[g].exists /\ rows'[g] = [rows[g] EXCEPT !.revoked = TRUE]
           /\ \A h \in Grants \ {g} : rows'[h] = rows[h]
    /\ rows' \in [Grants -> GrantRow]

(* A call keeps its request, and takes up only grants that cover it.       *)
Looking(c) ==
    /\ calls'[c].step = "idle" => calls'[c] = calls[c]
    /\ calls[c].step # "idle" => calls'[c].target = calls[c].target
    /\ calls'[c] = calls[c] \/ calls[c].step # "idle" \/ calls'[c].target \in Targets
    /\ \A g \in calls'[c].candidates :
           g \in calls[c].candidates \/ GrantCovers(rows[g].scope, calls'[c].target)

(* A statement of one call that leaves the table alone and lets no request *)
(* through.                                                                *)
Waiting ==
    /\ rows' = rows /\ now' \in Nat
    /\ calls' \in [Calls -> CallState]
    /\ \A c \in Calls :
           /\ calls'[c].grant = calls[c].grant
           /\ calls[c].grant # None => calls'[c] = calls[c]
           /\ calls'[c].step # "granted" \/ calls'[c] = calls[c]
           /\ \A g \in calls'[c].candidates : rows[g].exists
           /\ Looking(c)

(* A use consumed, and the request let through unless the answer was lost. *)
Using ==
    /\ now' = now
    /\ \E c \in Calls, g \in Grants :
           /\ calls[c].step = "claiming"
           /\ calls[c].asOf < rows[g].expires
           /\ g \in calls[c].candidates
           /\ RowUsed(g)
           /\ rows' = [rows EXCEPT ![g].uses = @ + 1]
           /\ AutoApprove(c, g) \/ Prompt(c)

\* A freshly inserted grant is a row of the table's type.
LEMMA NewRowType ==
    ASSUME now \in Nat, NEW scope \in Scopes, NEW ttl \in Ttls, NEW cap \in Caps,
           NEW source \in Targets \cup {None}
    PROVE  Row(scope, ttl, cap, source) \in GrantRow
  BY TimeAssumption DEF Row, GrantRow

\* Creating a grant, by hand or from a request, and revoking one are authoring.
LEMMA AuthoringSteps ==
    ASSUME TypeOK, NEW g \in Grants, Author(g) \/ RevokeApprovalGrant(g)
    PROVE  Authoring
  <1>1. ASSUME NEW ttl \in Ttls, NEW cap \in Caps, NEW scope \in Authored,
               CreateGrant(g, scope, ttl, cap)
        PROVE  Authoring
    <2>1. scope \in Scopes
      BY DEF Scopes
    <2>2. Row(scope, ttl, cap, None) \in GrantRow
      BY <2>1, NewRowType DEF TypeOK
    <2>3. RowCreated(g) /\ rows' \in [Grants -> GrantRow]
      BY <1>1, <2>1, <2>2 DEF CreateGrant, RowCreated, TypeOK
    <2> QED BY <1>1, <2>3 DEF CreateGrant, Authoring, TypeOK
  <1>2. ASSUME NEW ttl \in Ttls, NEW cap \in Caps, NEW t \in Targets,
               CreateGrantForRequest(g, t, ttl, cap)
        PROVE  Authoring
    <2>1. ScopeFromTarget(t) \in Scopes
      BY DEF Scopes
    <2>2. Row(ScopeFromTarget(t), ttl, cap, t) \in GrantRow
      BY <2>1, NewRowType DEF TypeOK
    <2>3. RowCreated(g) /\ rows' \in [Grants -> GrantRow]
      BY <1>2, <2>1, <2>2 DEF CreateGrantForRequest, RowCreated, TypeOK
    <2> QED BY <1>2, <2>3 DEF CreateGrantForRequest, Authoring, TypeOK
  <1>3. CASE RevokeApprovalGrant(g)
    BY <1>3 DEF RevokeApprovalGrant, Authoring, TypeOK, GrantRow
  <1> QED BY <1>1, <1>2, <1>3 DEF Author

\* Every step of the specification is one of the three.
LEMMA StepKinds ==
    ASSUME TypeOK, [Next]_vars
    PROVE  Authoring \/ Waiting \/ Using
  <1> USE DEF TypeOK, CallState
  <1>1. ASSUME NEW g \in Grants, Author(g) \/ RevokeApprovalGrant(g)
        PROVE  Authoring
    BY <1>1, AuthoringSteps
  <1>2. ASSUME NEW c \in Calls, NEW t \in Targets, TryClaimGrant(c, t)
        PROVE  Waiting
    BY <1>2 DEF TryClaimGrant, Waiting, Looking
  <1>3. ASSUME NEW c \in Calls, LiveGrants(c)
        PROVE  Waiting
    BY <1>3 DEF LiveGrants, Live, Waiting, Looking
  <1>4. ASSUME NEW c \in Calls, ClaimApprovalGrant(c)
        PROVE  Waiting \/ Using
    <2>1. PICK g \in Oldest(calls[c].candidates) :
              IF ClaimHits(rows[g], calls[c].asOf)
              THEN /\ rows' = [rows EXCEPT ![g].uses = @ + 1]
                   /\ AutoApprove(c, g)
              ELSE /\ calls' = [calls EXCEPT ![c].candidates = @ \ {g}]
                   /\ UNCHANGED rows
      BY <1>4 DEF ClaimApprovalGrant
    <2>2. /\ g \in Grants /\ g \in calls[c].candidates
          /\ now' = now /\ calls[c].step = "claiming"
      BY <1>4, <2>1 DEF ClaimApprovalGrant, Oldest
    <2>3. CASE ClaimHits(rows[g], calls[c].asOf)
      BY <2>1, <2>2, <2>3 DEF ClaimHits, Live, Using, RowUsed, GrantRow
    <2>4. CASE ~ClaimHits(rows[g], calls[c].asOf)
      BY <2>1, <2>2, <2>4 DEF Waiting, Looking
    <2> QED BY <2>3, <2>4
  <1>5. ASSUME NEW c \in Calls, CandidatesExhausted(c) \/ ClaimFails(c)
        PROVE  Waiting
    <2>1. /\ calls[c].step \in {"looking", "claiming"}
          /\ rows' = rows /\ now' = now /\ Prompt(c)
      BY <1>5 DEF CandidatesExhausted, ClaimFails
    <2>2. calls[c].grant = None
      BY <2>1
    <2>3. calls'[c] = [calls[c] EXCEPT !.step = "prompted", !.candidates = {}]
      BY <2>1 DEF Prompt
    <2>4. /\ calls' \in [Calls -> CallState]
          /\ \A d \in Calls \ {c} : calls'[d] = calls[d]
      BY <2>1 DEF Prompt
    <2>5. ASSUME NEW d \in Calls
          PROVE  Looking(d)
      <3>1. CASE d = c
        BY <2>1, <2>3, <3>1 DEF Looking
      <3>2. CASE d # c
        <4>1. calls'[d] = calls[d]
          BY <2>4, <3>2
        <4>2. calls[d].step # "idle" \/ calls'[d] = calls[d]
          BY <4>1
        <4> QED BY <4>1, <4>2 DEF Looking
      <3> QED BY <3>1, <3>2
    <2>6. ASSUME NEW d \in Calls
          PROVE  /\ calls'[d].grant = calls[d].grant
                 /\ calls[d].grant # None => calls'[d] = calls[d]
                 /\ calls'[d].step # "granted" \/ calls'[d] = calls[d]
                 /\ \A g \in calls'[d].candidates : rows[g].exists
      <3>1. CASE d = c
        <4>1. calls[c] \in CallState
          OBVIOUS
        <4>2. /\ calls'[c].grant = None /\ calls'[c].step = "prompted"
              /\ calls'[c].candidates = {}
          BY <2>2, <2>3, <4>1
        <4> QED BY <2>2, <3>1, <4>2
      <3>2. CASE d # c
        BY <2>4, <3>2
      <3> QED BY <3>1, <3>2
    <2> QED BY <2>1, <2>4, <2>5, <2>6 DEF Waiting
  <1>6. ASSUME NEW c \in Calls, ClaimAnswerLost(c)
        PROVE  Using
    <2>1. PICK g \in Oldest(calls[c].candidates) :
              /\ ClaimHits(rows[g], calls[c].asOf)
              /\ rows' = [rows EXCEPT ![g].uses = @ + 1]
      BY <1>6 DEF ClaimAnswerLost
    <2>2. /\ g \in Grants /\ g \in calls[c].candidates
          /\ now' = now /\ calls[c].step = "claiming" /\ Prompt(c)
      BY <1>6, <2>1 DEF ClaimAnswerLost, Oldest
    <2> QED BY <2>1, <2>2 DEF ClaimHits, Live, Using, RowUsed, GrantRow
  <1>7. CASE Tick
    BY <1>7 DEF Tick, Waiting, Looking
  <1>8. CASE UNCHANGED vars
    BY <1>8 DEF vars, Waiting, Looking
  <1> QED BY <1>1, <1>2, <1>3, <1>4, <1>5, <1>6, <1>7, <1>8 DEF Next, Claim

\* The initial state has every fact of the invariant.
LEMMA InitFacts == Init => Facts
  <1> SUFFICES ASSUME Init PROVE Facts
    OBVIOUS
  <1>1. TypeOK
    BY IdAssumption DEF Init, TypeOK, NoRow, Idle, GrantRow, CallState
  <1>2. RowFacts /\ CallFacts
    BY DEF Init, RowFacts, CallFacts, NoRow, Idle
  <1>3. ASSUME NEW g \in Grants
        PROVE  GrantedBy(g) = {}
    BY <1>3, IdAssumption DEF Init, GrantedBy, Idle
  <1>4. UseFacts
    BY <1>3, FS_EmptySet DEF Init, UseFacts, NoRow
  <1>5. CoverFacts
    BY DEF Init, CoverFacts, NoRow, Idle
  <1> QED BY <1>1, <1>2, <1>4, <1>5 DEF Facts

\* Creating or revoking a grant keeps the facts: no request holds the new id.
LEMMA AuthoringKeepsFacts ==
    ASSUME Facts, Authoring
    PROVE  Facts'
  <1> USE DEF Facts
  <1>0. PICK g \in Grants :
            /\ \/ RowCreated(g)
               \/ rows[g].exists /\ rows'[g] = [rows[g] EXCEPT !.revoked = TRUE]
            /\ \A h \in Grants \ {g} : rows'[h] = rows[h]
    BY DEF Authoring
  <1>1. /\ rows'[g].exists
        /\ rows'[g].expires <= rows'[g].created + MaxTtl
        /\ rows[g].exists => rows'[g].expires = rows[g].expires
        /\ rows'[g].uses = rows[g].uses
        /\ rows'[g].cap # NoCap => rows'[g].uses <= rows'[g].cap
    <2>1. CASE RowCreated(g)
      <3>1. PICK scope \in Scopes, ttl \in Ttls, cap \in Caps, source \in Targets \cup {None} :
                BoundsAllowed(ttl, cap) /\ rows'[g] = Row(scope, ttl, cap, source)
        BY <2>1 DEF RowCreated
      <3>2. rows[g] = NoRow
        BY <2>1 DEF RowCreated, RowFacts
      <3> QED BY <2>1, <3>1, <3>2, TimeAssumption, CapAssumption
                 DEF RowCreated, BoundsAllowed, Row, NoRow, TypeOK
    <2>2. CASE rows[g].exists /\ rows'[g] = [rows[g] EXCEPT !.revoked = TRUE]
      BY <2>2 DEF RowFacts, UseFacts, TypeOK, GrantRow
    <2> QED BY <1>0, <2>1, <2>2
  <1>2. TypeOK'
    BY <1>0, <1>1 DEF Authoring, TypeOK, CallState
  <1>3. RowFacts'
    BY <1>0, <1>1 DEF RowFacts
  <1>4. CallFacts'
    BY <1>0, <1>1 DEF Authoring, CallFacts, TypeOK, CallState
  <1>5. UseFacts'
    BY <1>0, <1>1 DEF Authoring, UseFacts, GrantedBy
  <1>6. CoverFacts'
    <2>1. /\ rows'[g].source # None => rows'[g].scope = ScopeFromTarget(rows'[g].source)
          /\ rows[g].exists => rows'[g].scope = rows[g].scope
      <3>1. CASE RowCreated(g)
        BY <3>1 DEF RowCreated, Row
      <3>2. CASE rows[g].exists /\ rows'[g] = [rows[g] EXCEPT !.revoked = TRUE]
        BY <3>2 DEF CoverFacts, TypeOK, GrantRow
      <3> QED BY <1>0, <3>1, <3>2
    <2>2. \A h \in Grants : rows[h].exists => rows'[h].scope = rows[h].scope
      BY <1>0, <2>1
    <2>3. \A h \in Grants : rows'[h].exists /\ rows'[h].source # None =>
              rows'[h].scope = ScopeFromTarget(rows'[h].source)
      BY <1>0, <2>1 DEF CoverFacts
    <2>4. ASSUME NEW c \in Calls, NEW h \in calls[c].candidates \cup ({calls[c].grant} \ {None})
          PROVE  GrantCovers(rows'[h].scope, calls[c].target)
      <3>1. h \in Grants /\ rows[h].exists
        BY <2>4 DEF TypeOK, CallState, CallFacts
      <3> QED BY <2>2, <3>1 DEF CoverFacts
    <2> QED BY <2>3, <2>4 DEF CoverFacts, Authoring
  <1> QED BY <1>2, <1>3, <1>4, <1>5, <1>6

\* A step that touches no row and lets no request through keeps the facts.
LEMMA WaitingKeepsFacts ==
    ASSUME Facts, Waiting
    PROVE  Facts'
  <1> USE DEF Facts
  <1>1. TypeOK'
    BY DEF Waiting, TypeOK, CallState
  <1>2. RowFacts' /\ CallFacts'
    BY DEF Waiting, RowFacts, CallFacts
  <1>3. \A g \in Grants : GrantedBy(g)' = GrantedBy(g)
    BY DEF Waiting, GrantedBy
  <1>4. UseFacts'
    BY <1>3 DEF Waiting, UseFacts
  <1>5. CoverFacts'
    <2>1. ASSUME NEW c \in Calls
          PROVE  /\ calls'[c].step = "idle" => calls'[c].candidates = {}
                 /\ calls'[c].step # "idle" => calls'[c].target \in Targets
                 /\ \A g \in calls'[c].candidates \cup ({calls'[c].grant} \ {None}) :
                        GrantCovers(rows[g].scope, calls'[c].target)
      BY <2>1 DEF Waiting, Looking, CoverFacts, TypeOK
    <2> QED BY <2>1 DEF Waiting, CoverFacts
  <1> QED BY <1>1, <1>2, <1>4, <1>5

\* Consuming a use keeps the facts: at most one request is let through by it.
LEMMA UsingKeepsFacts ==
    ASSUME Facts, Using
    PROVE  Facts'
  <1> USE DEF Facts
  <1>0. PICK c \in Calls, g \in Grants :
            /\ calls[c].step = "claiming"
            /\ calls[c].asOf < rows[g].expires
            /\ g \in calls[c].candidates
            /\ RowUsed(g)
            /\ rows' = [rows EXCEPT ![g].uses = @ + 1]
            /\ AutoApprove(c, g) \/ Prompt(c)
    BY DEF Using
  <1>1. /\ rows' \in [Grants -> GrantRow]
        /\ rows'[g] = [rows[g] EXCEPT !.uses = @ + 1]
        /\ \A h \in Grants \ {g} : rows'[h] = rows[h]
        /\ \A h \in Grants : /\ rows'[h].exists = rows[h].exists
                             /\ rows'[h].expires = rows[h].expires
                             /\ rows'[h].created = rows[h].created
                             /\ rows'[h].cap = rows[h].cap
                             /\ rows'[h].scope = rows[h].scope
                             /\ rows'[h].source = rows[h].source
    <2>1. /\ rows' \in [Grants -> GrantRow]
          /\ rows'[g] = [rows[g] EXCEPT !.uses = @ + 1]
          /\ \A h \in Grants \ {g} : rows'[h] = rows[h]
      BY <1>0 DEF TypeOK, GrantRow
    <2>2. rows[g] \in GrantRow
      BY DEF TypeOK
    <2>3. /\ rows'[g].exists = rows[g].exists /\ rows'[g].expires = rows[g].expires
          /\ rows'[g].created = rows[g].created /\ rows'[g].cap = rows[g].cap
          /\ rows'[g].scope = rows[g].scope /\ rows'[g].source = rows[g].source
      BY <2>1, <2>2 DEF GrantRow
    <2> QED BY <2>1, <2>3
  <1>2. calls[c].grant = None
    BY <1>0 DEF TypeOK
  <1>3. /\ calls' \in [Calls -> CallState]
        /\ calls'[c].grant \in {None, g}
        /\ calls'[c].step = "granted" <=> calls'[c].grant # None
        /\ calls'[c].asOf = calls[c].asOf
        /\ calls'[c].candidates = {}
        /\ calls'[c].target = calls[c].target
        /\ calls'[c].step # "idle"
        /\ \A d \in Calls \ {c} : calls'[d] = calls[d]
    <2>1. CASE AutoApprove(c, g)
      BY <2>1, IdAssumption DEF AutoApprove, TypeOK, CallState
    <2>2. CASE Prompt(c)
      <3>1. calls'[c] = [calls[c] EXCEPT !.step = "prompted", !.candidates = {}]
        BY <2>2 DEF Prompt, TypeOK
      <3>2. calls' \in [Calls -> CallState] /\ \A d \in Calls \ {c} : calls'[d] = calls[d]
        BY <2>2 DEF Prompt, TypeOK, CallState
      <3>3. calls[c] \in CallState
        BY DEF TypeOK
      <3> QED BY <1>2, <3>1, <3>2, <3>3 DEF CallState
    <2> QED BY <1>0, <2>1, <2>2
  <1>4. TypeOK'
    <2>1. ASSUME NEW d \in Calls
          PROVE  /\ \A h \in calls'[d].candidates : rows'[h].exists
                 /\ calls'[d].step = "granted" <=> calls'[d].grant # None
      <3>1. CASE d = c
        BY <1>3, <3>1
      <3>2. CASE d # c
        BY <1>1, <1>3, <3>2 DEF TypeOK, CallState
      <3> QED BY <3>1, <3>2
    <2> QED BY <1>1, <1>3, <2>1 DEF Using, TypeOK
  <1>5. RowFacts'
    BY <1>0, <1>1 DEF RowFacts, RowUsed
  <1>6. CallFacts'
    BY <1>0, <1>1, <1>3 DEF CallFacts, RowUsed, TypeOK, CallState
  <1>7. UseFacts'
    <2>1. \A h \in Grants : IsFiniteSet(GrantedBy(h))
      BY CallAssumption, FS_Subset DEF GrantedBy
    <2>2. ASSUME NEW h \in Grants \ {g}
          PROVE  GrantedBy(h)' = GrantedBy(h)
      BY <1>2, <1>3, <2>2, IdAssumption DEF GrantedBy
    <2>3. GrantedBy(g)' \in {GrantedBy(g), GrantedBy(g) \cup {c}}
      BY <1>3, <1>2, IdAssumption DEF GrantedBy
    <2>4. Cardinality(GrantedBy(g)') <= Cardinality(GrantedBy(g)) + 1
      <3>1. Cardinality(GrantedBy(g)) \in Nat
        BY <2>1, FS_CardinalityType
      <3>2. Cardinality(GrantedBy(g) \cup {c}) =
              IF c \in GrantedBy(g) THEN Cardinality(GrantedBy(g))
                                   ELSE Cardinality(GrantedBy(g)) + 1
        <4>1. IsFiniteSet(GrantedBy(g))
          BY <2>1
        <4> QED BY <4>1, FS_AddElement, Zenon
      <3>3. CASE GrantedBy(g)' = GrantedBy(g)
        <4>1. Cardinality(GrantedBy(g)') = Cardinality(GrantedBy(g))
          BY <3>3, Zenon
        <4> QED BY <3>1, <4>1
      <3>4. CASE GrantedBy(g)' = GrantedBy(g) \cup {c}
        <4>1. Cardinality(GrantedBy(g)') = Cardinality(GrantedBy(g) \cup {c})
          BY <3>4, Zenon
        <4> QED BY <3>1, <3>2, <4>1
      <3> QED BY <2>3, <3>3, <3>4
    <2>5. rows[g].uses \in Nat /\ rows'[g].uses = rows[g].uses + 1
      BY <1>1 DEF TypeOK, GrantRow
    <2>6. Cardinality(GrantedBy(g)') <= rows'[g].uses
      <3>1. Cardinality(GrantedBy(g)) \in Nat /\ Cardinality(GrantedBy(g)') \in Nat
        BY <2>1, <2>3, FS_CardinalityType, FS_AddElement
      <3> QED BY <2>4, <2>5, <3>1 DEF UseFacts
    <2>7. rows'[g].cap # NoCap => rows'[g].uses <= rows'[g].cap
      <3>1. rows[g].cap \in Int \cup {NoCap}
        BY CapAssumption DEF TypeOK, GrantRow
      <3> QED BY <1>0, <1>1, <2>5, <3>1 DEF RowUsed, UsesLeft
    <2>8. ASSUME NEW h \in Grants
          PROVE  /\ Cardinality(GrantedBy(h)') <= rows'[h].uses
                 /\ rows'[h].cap # NoCap => rows'[h].uses <= rows'[h].cap
      <3>1. CASE h = g
        BY <2>6, <2>7, <3>1
      <3>2. CASE h # g
        BY <1>1, <2>2, <3>2 DEF UseFacts
      <3> QED BY <3>1, <3>2
    <2> QED BY <2>8 DEF UseFacts
  <1>8. CoverFacts'
    <2>1. GrantCovers(rows[g].scope, calls[c].target) /\ calls[c].target \in Targets
      BY <1>0 DEF CoverFacts
    <2>2. \A d \in Calls : \A h \in calls'[d].candidates \cup ({calls'[d].grant} \ {None}) :
              h \in Grants
      BY <1>4 DEF TypeOK, CallState
    <2>3. ASSUME NEW d \in Calls
          PROVE  /\ calls'[d].step = "idle" => calls'[d].candidates = {}
                 /\ calls'[d].step # "idle" => calls'[d].target \in Targets
                 /\ \A h \in calls'[d].candidates \cup ({calls'[d].grant} \ {None}) :
                        GrantCovers(rows'[h].scope, calls'[d].target)
      <3>1. CASE d = c
        BY <1>1, <1>3, <2>1, <2>2, <3>1
      <3>2. CASE d # c
        BY <1>1, <1>3, <2>2, <3>2 DEF CoverFacts
      <3> QED BY <3>1, <3>2
    <2>4. \A h \in Grants : rows'[h].exists /\ rows'[h].source # None =>
              rows'[h].scope = ScopeFromTarget(rows'[h].source)
      BY <1>1 DEF CoverFacts
    <2> QED BY <2>3, <2>4 DEF CoverFacts
  <1> QED BY <1>4, <1>5, <1>6, <1>7, <1>8

\* The facts hold in every reachable state, for every value of the constants.
THEOREM FactsHold == Spec => []Facts
  <1>1. Init => Facts
    BY InitFacts
  <1>2. Facts /\ [Next]_vars => Facts'
    BY StepKinds, AuthoringKeepsFacts, WaitingKeepsFacts, UsingKeepsFacts DEF Facts
  <1> QED BY <1>1, <1>2, PTL DEF Spec

(***************************************************************************)
(* approval_grants and the calls of try_claim_grant keep their types: every*)
(* request let through is let through by one grant, which it names.        *)
(***************************************************************************)
THEOREM GrantTypes == Spec => []TypeOK
  <1>1. Facts => TypeOK
    BY DEF Facts
  <1> QED BY <1>1, FactsHold, PTL

(***************************************************************************)
(* However many requests race for a grant, it lets through at most as many *)
(* as its max_uses (claim_approval_grant's UPDATE).                        *)
(***************************************************************************)
THEOREM CapIsHonoured == Spec => []CapBoundsApprovals
  <1>1. Facts => CapBoundsApprovals
    BY DEF Facts, UseFacts, CapBoundsApprovals
  <1> QED BY <1>1, FactsHold, PTL

(***************************************************************************)
(* A request is let through only inside the window of its grant, read with *)
(* the call's own clock, and no window exceeds GRANT_MAX_TTL_MINUTES.      *)
(***************************************************************************)
THEOREM WindowHolds == Spec => []WindowIsRespected
  <1>1. Facts => WindowIsRespected
    BY DEF Facts, TypeOK, CallState, RowFacts, CallFacts, WindowIsRespected
  <1> QED BY <1>1, FactsHold, PTL

\* A scope derived from a request covers no other, a wildcard apart.
LEMMA DerivedScopeIsExact ==
    ASSUME NEW s \in Targets, NEW t \in Targets, GrantCovers(ScopeFromTarget(s), t),
           \A i \in DOMAIN s.path : s.path[i] # Wild
    PROVE  s = t
  <1>1. s.method = t.method /\ s.host = t.host /\ PathMatches(s.path, t.path)
    BY DEF GrantCovers, ScopeFromTarget
  <1>2. /\ s.path \in Seq({s.path[i] : i \in DOMAIN s.path})
        /\ t.path \in Seq({t.path[i] : i \in DOMAIN t.path})
    BY TargetAssumption
  <1>3. /\ Len(s.path) = Len(t.path)
        /\ DOMAIN s.path = 1 .. Len(s.path) /\ DOMAIN t.path = 1 .. Len(t.path)
        /\ \A i \in 1 .. Len(s.path) : s.path[i] = t.path[i]
    BY <1>1, <1>2 DEF PathMatches
  <1>4. s.path = t.path
    <2> DEFINE S == {s.path[i] : i \in DOMAIN s.path}
               T == {t.path[i] : i \in DOMAIN t.path}
    <2>1. s.path \in Seq(S) /\ t.path \in Seq(T)
      BY <1>2
    <2> HIDE DEF S, T
    <2>2. s.path \in [1 .. Len(s.path) -> S] /\ t.path \in [1 .. Len(t.path) -> T]
      BY <2>1, LenProperties
    <2> QED BY <1>3, <2>2
  <1>5. /\ s = [method |-> s.method, host |-> s.host, path |-> s.path]
        /\ t = [method |-> t.method, host |-> t.host, path |-> t.path]
    BY TargetAssumption
  <1> QED BY <1>1, <1>4, <1>5

(***************************************************************************)
(* A grant minted from a request under review lets through that request    *)
(* and no other (scope_from_target, grant_scope_covers_url), whatever is   *)
(* created, claimed, revoked or lost meanwhile; a reviewed path with a     *)
(* literal wildcard segment is excepted, as the property says.             *)
(***************************************************************************)
THEOREM MintedGrantsAreExact == Spec => []MintedGrantIsExact
  <1>1. Facts => MintedGrantIsExact
    <2> SUFFICES ASSUME Facts, NEW c \in Calls, calls[c].step = "granted",
                        rows[calls[c].grant].source # None,
                        \A i \in DOMAIN rows[calls[c].grant].source.path :
                            rows[calls[c].grant].source.path[i] # Wild
                 PROVE  rows[calls[c].grant].source = calls[c].target
      BY DEF MintedGrantIsExact
    <2> DEFINE g == calls[c].grant
    <2>1. g \in Grants /\ g # None /\ rows[g].exists /\ rows[g].source \in Targets
      BY DEF Facts, TypeOK, CallState, GrantRow, CallFacts
    <2>2. /\ GrantCovers(ScopeFromTarget(rows[g].source), calls[c].target)
          /\ calls[c].target \in Targets
      BY <2>1 DEF Facts, CoverFacts
    <2> QED BY <2>1, <2>2, DerivedScopeIsExact
  <1> QED BY <1>1, FactsHold, PTL

(***************************************************************************)
(* Nothing is let through by a revoked grant, and no statement brings one  *)
(* back (revoke_approval_grant against claim_approval_grant).              *)
(***************************************************************************)
THEOREM RevocationIsFinal == Spec => RevocationHolds
  <1> DEFINE Kept(g) == rows[g].exists /\ rows[g].revoked =>
                            GrantedBy(g)' = GrantedBy(g) /\ rows'[g] = rows[g]
  <1>1. Facts /\ [Next]_vars => [\A g \in Grants : Kept(g)]_vars
    <2> SUFFICES ASSUME Facts, [Next]_vars, NEW g \in Grants,
                        rows[g].exists, rows[g].revoked
                 PROVE  GrantedBy(g)' = GrantedBy(g) /\ rows'[g] = rows[g]
      OBVIOUS
    <2>0. TypeOK
      BY DEF Facts
    <2>1. CASE Authoring
      <3>1. GrantedBy(g)' = GrantedBy(g)
        BY <2>1 DEF Authoring, GrantedBy
      <3>2. rows'[g] = rows[g]
        <4>1. [rows[g] EXCEPT !.revoked = TRUE] = rows[g]
          BY <2>0 DEF TypeOK, GrantRow
        <4> QED BY <2>1, <4>1 DEF Authoring, RowCreated
      <3> QED BY <3>1, <3>2
    <2>2. CASE Waiting
      BY <2>2 DEF Waiting, GrantedBy
    <2>3. CASE Using
      <3>1. PICK c \in Calls, h \in Grants :
                /\ calls[c].step = "claiming"
                /\ RowUsed(h)
                /\ rows' = [rows EXCEPT ![h].uses = @ + 1]
                /\ AutoApprove(c, h) \/ Prompt(c)
        BY <2>3 DEF Using
      <3>2. h # g
        BY <3>1 DEF RowUsed
      <3>3. calls[c].grant = None
        BY <2>0, <3>1 DEF TypeOK
      <3>4. /\ calls'[c].grant # g
            /\ \A d \in Calls \ {c} : calls'[d] = calls[d]
        <4>1. CASE AutoApprove(c, h)
          BY <2>0, <3>2, <4>1 DEF AutoApprove, TypeOK, CallState
        <4>2. CASE Prompt(c)
          BY <2>0, <3>3, <4>2, IdAssumption DEF Prompt, TypeOK, CallState
        <4> QED BY <3>1, <4>1, <4>2
      <3>5. GrantedBy(g)' = GrantedBy(g)
        BY <3>3, <3>4, IdAssumption DEF GrantedBy
      <3> QED BY <2>0, <3>1, <3>2, <3>5 DEF TypeOK
    <2> QED BY <2>0, <2>1, <2>2, <2>3, StepKinds
  <1> QED BY <1>1, FactsHold, PTL DEF Spec, RevocationHolds

-----------------------------------------------------------------------------
(***************************************************************************)
(* The caches of AgentCache, for any number of requests, keys and writes,  *)
(* and any TTL and query timeout, zero included.                           *)
(*                                                                         *)
(* Neither property is inductive.  The age of an answer is bounded because *)
(* what a request holds was current when its first query was sent, and     *)
(* what the cache holds was current at most two queries before it was      *)
(* stored.  The current key is not refused because a key in use has been   *)
(* issued, and a rotation issues one that was not.                         *)
(***************************************************************************)

Held == Versions \cup {Nothing}

RequestType == [step : Steps, key : Keys, row : Held, creds : Held, by : Nat]

(* What is held was current at time t or later.                            *)
CurrentAt(v, t) == v # Nothing /\ superseded[v] # Never => superseded[v] >= t

Underway(q) == q.step \notin {"idle", "recognised", "answered"}

(* A running request is before its deadline, and what it has read was      *)
(* current when it began; an answer is as old as the bound allows.         *)
RequestAge(q) ==
    /\ Underway(q) =>
           /\ clock <= q.by /\ q.by <= clock + 2 * DbTimeout
           /\ CurrentAt(q.row, q.by - 2 * DbTimeout)
           /\ CurrentAt(q.creds, q.by - 2 * DbTimeout)
    /\ q.step = "recognised" => CurrentAt(q.row, clock - (CacheTtl + 2 * DbTimeout))
    /\ q.step = "answered" => CurrentAt(q.creds, clock - (CacheTtl + 2 * DbTimeout))

(* A request presents a key that was issued, and finds nobody behind it    *)
(* only if it is not the agent's.                                          *)
RequestKey(q) ==
    /\ q.key \in issued
    /\ q.step = "missing" /\ agent.exists => q.key # agent.key

RequestFacts(q) ==
    /\ q \in RequestType
    /\ q.step \in {"found", "loaded", "reread"} => q.row \in Versions
    /\ RequestAge(q)
    /\ RequestKey(q)

(* An entry was stored in the past, of what was current two queries before.*)
CacheFacts(c) ==
    /\ c \in [row : Held, creds : Held, fetched : Nat]
    /\ c.fetched <= clock
    /\ CurrentAt(c.row, c.fetched - 2 * DbTimeout)
    /\ CurrentAt(c.creds, c.fetched - 2 * DbTimeout)

(* A key is remembered only once it was issued, the current one never as   *)
(* nobody's.                                                               *)
KeyFacts(a) ==
    /\ a \in [Keys -> {"unknown", "nobody", "agent"}]
    /\ \A k \in Keys : a[k] # "unknown" => k \in issued
    /\ agent.exists => a[agent.key] # "nobody"

DbFacts ==
    /\ clock \in 0 .. MaxClock
    /\ agent \in [exists : BOOLEAN, key : Keys, version : Versions]
    /\ superseded \in [Versions -> Nat \cup {Never}]
    /\ issued \subseteq Keys /\ agent.key \in issued /\ FirstKey \in issued
    /\ \A v \in Versions : v > agent.version => superseded[v] = Never
    /\ agent.exists => superseded[agent.version] = Never

AgentFacts ==
    /\ DbFacts
    /\ CacheFacts(agentCache)
    /\ KeyFacts(authCache)
    /\ (\E k \in Keys : authCache[k] = "agent") => agentCache.row # Nothing
    /\ requests = [r \in Requests |-> requests[r]]
    /\ \A r \in Requests : RequestFacts(requests[r])

\* A request at rest has nothing to answer for.
LEMMA IdleFacts ==
    ASSUME FirstKey \in issued
    PROVE  RequestFacts(AtRest)
  BY KeyAssumption DEF AtRest, RequestFacts, RequestType, RequestAge, RequestKey, Underway, Steps, Held

\* The initial state has every fact.
LEMMA AgentInitFacts == AgentInit => AgentFacts
  <1> SUFFICES ASSUME AgentInit PROVE AgentFacts
    OBVIOUS
  <1>1. DbFacts
    BY KeyAssumption, TtlAssumption DEF AgentInit, DbFacts, Versions
  <1>2. CacheFacts(agentCache)
    BY DEF AgentInit, CacheFacts, CurrentAt, Held
  <1>3. KeyFacts(authCache)
    BY KeyAssumption DEF AgentInit, KeyFacts
  <1>4. \A r \in Requests : RequestFacts(requests[r])
    BY IdleFacts, <1>1 DEF AgentInit, DbFacts
  <1>5. requests = [r \in Requests |-> requests[r]]
    BY DEF AgentInit
  <1>6. \A k \in Keys : authCache[k] # "agent"
    BY DEF AgentInit
  <1> QED BY <1>1, <1>2, <1>3, <1>4, <1>5, <1>6 DEF AgentFacts

\* A version that was current once stays so, for times that have passed.
LEMMA WritesKeepAges ==
    ASSUME AgentFacts, agent.exists, superseded' = [superseded EXCEPT ![agent.version] = clock],
           NEW v \in Held, NEW t \in Int, t <= clock, CurrentAt(v, t)
    PROVE  CurrentAt(v, t)'
  BY TtlAssumption DEF AgentFacts, DbFacts, CurrentAt, Held, Versions

\* The dashboard's writes keep the facts of the caches and of the requests.
LEMMA WritesKeepCaches ==
    ASSUME AgentFacts, agent.exists, superseded' = [superseded EXCEPT ![agent.version] = clock],
           UNCHANGED <<clock, agentCache, requests>>
    PROVE  /\ CacheFacts(agentCache)'
           /\ \A r \in Requests : RequestAge(requests[r])'
  <1>1. clock \in Nat /\ CacheTtl \in Nat /\ 2 * DbTimeout \in Nat
    BY TtlAssumption DEF AgentFacts, DbFacts
  <1>2. CacheFacts(agentCache)'
    BY <1>1, WritesKeepAges DEF AgentFacts, CacheFacts
  <1>3. ASSUME NEW r \in Requests
        PROVE  RequestAge(requests[r])'
    <2>1. RequestAge(requests[r]) /\ requests[r] \in RequestType /\ requests'[r] = requests[r]
      BY DEF AgentFacts, RequestFacts
    <2> QED BY <1>1, <2>1, WritesKeepAges DEF RequestAge, RequestType, Underway
  <1> QED BY <1>2, <1>3

\* Each write of the dashboard keeps the facts.
LEMMA DashboardKeepsFacts ==
    ASSUME AgentFacts, Dashboard
    PROVE  AgentFacts'
  <1>1. /\ agent.exists /\ superseded' = [superseded EXCEPT ![agent.version] = clock]
        /\ UNCHANGED <<clock, authCache, agentCache, requests>>
    BY DEF Dashboard, UpdateAgent, RotateAgentApiKey, DeleteAgent, NewVersion
  <1>2. CacheFacts(agentCache)' /\ \A r \in Requests : RequestAge(requests[r])'
    BY <1>1, WritesKeepCaches
  <1>3. /\ issued \subseteq issued' /\ issued' \subseteq Keys
        /\ agent'.exists => agent'.key = agent.key \/ agent'.key \notin issued
        /\ agent' \in [exists : BOOLEAN, key : Keys, version : Versions]
        /\ agent'.key \in issued'
    <2>0. /\ agent \in [exists : BOOLEAN, key : Keys, version : Versions]
          /\ issued \subseteq Keys /\ agent.key \in issued
      BY DEF AgentFacts, DbFacts
    <2>1. CASE UpdateAgent
      BY <2>0, <2>1, TtlAssumption DEF UpdateAgent, NewVersion, Versions
    <2>2. ASSUME NEW k \in Keys, RotateAgentApiKey(k)
          PROVE  /\ issued \subseteq issued' /\ issued' \subseteq Keys
                 /\ agent'.exists => agent'.key = agent.key \/ agent'.key \notin issued
                 /\ agent' \in [exists : BOOLEAN, key : Keys, version : Versions]
                 /\ agent'.key \in issued'
      <3>1. /\ agent' = [exists |-> agent.exists, key |-> k, version |-> agent.version + 1]
            /\ agent.version + 1 \in Versions
            /\ issued' = issued \cup {k} /\ k \notin issued
        <4> DEFINE a == [agent EXCEPT !.version = agent.version + 1]
        <4>1. agent' = [a EXCEPT !.key = k]
          BY <2>2 DEF RotateAgentApiKey
        <4>2. a = [exists |-> agent.exists, key |-> agent.key, version |-> agent.version + 1]
          BY <2>0
        <4> HIDE DEF a
        <4>3. agent' = [exists |-> agent.exists, key |-> k, version |-> agent.version + 1]
          BY <4>1, <4>2
        <4>4. /\ agent.version + 1 \in Versions
              /\ issued' = issued \cup {k} /\ k \notin issued
          BY <2>0, <2>2, TtlAssumption DEF RotateAgentApiKey, NewVersion, Versions
        <4> QED BY <4>3, <4>4
      <3> QED BY <2>0, <3>1
    <2>3. CASE DeleteAgent
      BY <2>0, <2>3 DEF DeleteAgent
    <2> QED BY <2>1, <2>2, <2>3 DEF Dashboard
  <1>4. DbFacts'
    <2>1. agent'.exists => agent'.version = agent.version + 1
      BY DEF AgentFacts, DbFacts, Dashboard, UpdateAgent, RotateAgentApiKey, DeleteAgent
    <2>2. ~agent'.exists => agent'.version = agent.version
      BY DEF AgentFacts, DbFacts, Dashboard, UpdateAgent, RotateAgentApiKey, DeleteAgent, NewVersion
    <2> QED BY <1>1, <1>3, <2>1, <2>2, TtlAssumption DEF AgentFacts, DbFacts, Versions
  <1>5. KeyFacts(authCache)'
    BY <1>1, <1>3 DEF AgentFacts, DbFacts, KeyFacts
  <1>6. \A r \in Requests : RequestFacts(requests[r])'
    BY <1>1, <1>2, <1>3
       DEF AgentFacts, DbFacts, RequestFacts, RequestType, RequestKey
  <1> QED BY <1>1, <1>2, <1>4, <1>5, <1>6 DEF AgentFacts

\* A request moves: it holds q, the caches c and a, and the database is left
\* alone.
LEMMA RequestMoves ==
    ASSUME AgentFacts, NEW r \in Requests, NEW q, RequestFacts(q),
           requests' = [requests EXCEPT ![r] = q],
           CacheFacts(agentCache'), KeyFacts(authCache'),
           (\E k \in Keys : authCache'[k] = "agent") => agentCache'.row # Nothing,
           UNCHANGED <<clock, db>>
    PROVE  AgentFacts'
  <1>1. DbFacts' /\ CacheFacts(agentCache)' /\ KeyFacts(authCache)'
    BY DEF AgentFacts, DbFacts, CacheFacts, KeyFacts, CurrentAt, db
  <1>2. \A s \in Requests : requests'[s] = requests[s] \/ requests'[s] = q
    BY DEF AgentFacts
  <1>3. ASSUME NEW x, RequestFacts(x)
        PROVE  RequestFacts(x)'
    BY <1>3 DEF RequestFacts, RequestType, RequestAge, RequestKey, CurrentAt, Underway, db
  <1>4. requests' = [s \in Requests |-> requests'[s]]
    BY DEF AgentFacts
  <1>5. \A s \in Requests : RequestFacts(requests[s])'
    <2> SUFFICES ASSUME NEW s \in Requests PROVE RequestFacts(requests[s])'
      OBVIOUS
    <2>1. RequestFacts(requests'[s])
      BY <1>2 DEF AgentFacts
    <2> QED BY <1>3, <2>1 DEF RequestFacts, RequestType, RequestAge, RequestKey, CurrentAt, Underway, db
  <1> QED BY <1>1, <1>4, <1>5 DEF AgentFacts

\* Cache lookups keep the facts: a hit is as young as the TTL allows.
LEMMA LookupsKeepFacts ==
    ASSUME AgentFacts, NEW r \in Requests,
           (\E k \in Keys : Authenticate(r, k)) \/ GetEffectiveCredentials(r)
    PROVE  AgentFacts'
  <1>1. UNCHANGED <<clock, db, authCache, agentCache>>
    BY DEF Authenticate, GetEffectiveCredentials
  <1>2. ASSUME NEW q, RequestFacts(q), requests' = [requests EXCEPT ![r] = q]
        PROVE  AgentFacts'
    <2>1. CacheFacts(agentCache') /\ KeyFacts(authCache')
      BY <1>1 DEF AgentFacts
    <2> QED BY <1>1, <1>2, <2>1, RequestMoves DEF AgentFacts
  <1>3. /\ clock \in Nat /\ CacheTtl \in Nat /\ 2 * DbTimeout \in Nat /\ issued \subseteq Keys
        /\ FirstKey \in issued
    BY TtlAssumption DEF AgentFacts, DbFacts
  <1>4. ASSUME NEW k \in issued, NEW step \in {"finding", "listing"}
        PROVE  RequestFacts(Querying(step, k))
    <2> DEFINE q == Querying(step, k)
    <2>1. /\ q.step = step /\ q.key = k /\ q.row = Nothing /\ q.creds = Nothing
          /\ q.by = clock + 2 * DbTimeout
      BY DEF Querying
    <2>2. q \in RequestType
      BY <1>3, <1>4 DEF Querying, RequestType, Steps, Held
    <2> HIDE DEF q
    <2>3. RequestAge(q)
      BY <1>3, <1>4, <2>1 DEF RequestAge, CurrentAt
    <2>4. RequestKey(q) /\ q.step \notin {"found", "loaded", "reread"}
      BY <1>4, <2>1 DEF RequestKey
    <2>5. RequestFacts(q)
      BY <2>2, <2>3, <2>4 DEF RequestFacts
    <2> QED BY <2>5 DEF q
  <1>5. ASSUME Fresh
        PROVE  /\ agentCache.row \in Held /\ agentCache.creds \in Held
               /\ CurrentAt(agentCache.row, clock - (CacheTtl + 2 * DbTimeout))
               /\ CurrentAt(agentCache.creds, clock - (CacheTtl + 2 * DbTimeout))
    <2> DEFINE c == agentCache
    <2>1. /\ c.row \in Held /\ c.creds \in Held /\ c.fetched \in Nat /\ clock - c.fetched < CacheTtl
          /\ CurrentAt(c.row, c.fetched - 2 * DbTimeout)
          /\ CurrentAt(c.creds, c.fetched - 2 * DbTimeout)
          /\ superseded \in [Versions -> Nat \cup {Never}]
      BY <1>5 DEF AgentFacts, DbFacts, CacheFacts, Fresh
    <2>2. CurrentAt(c.row, clock - (CacheTtl + 2 * DbTimeout))
      BY <1>3, <2>1 DEF CurrentAt, Held
    <2>3. CurrentAt(c.creds, clock - (CacheTtl + 2 * DbTimeout))
      BY <1>3, <2>1 DEF CurrentAt, Held
    <2> QED BY <2>1, <2>2, <2>3
  <1>6. ASSUME NEW k \in issued, Fresh
        PROVE  RequestFacts(Recognised(k, agentCache.row)) /\ RequestFacts(Answered(agentCache.creds))
    <2>1. RequestFacts(Recognised(k, agentCache.row))
      BY <1>3, <1>5, <1>6 DEF Recognised, RequestFacts, RequestType, RequestAge, RequestKey,
           Underway, Steps, Held
    <2>2. RequestFacts(Answered(agentCache.creds))
      BY <1>3, <1>5, <1>6 DEF Answered, RequestFacts, RequestType, RequestAge, RequestKey,
           Underway, Steps, Held
    <2> QED BY <2>1, <2>2
  <1>7. ASSUME NEW k \in Keys, Authenticate(r, k)
        PROVE  AgentFacts'
    <2>1. k \in issued
      BY <1>7 DEF Authenticate
    <2>2. \/ Fresh /\ requests' = [requests EXCEPT ![r] = Recognised(k, agentCache.row)]
          \/ requests' = [requests EXCEPT ![r] = AtRest]
          \/ requests' = [requests EXCEPT ![r] = Querying("finding", k)]
      BY <1>7 DEF Authenticate
    <2> QED BY <1>2, <1>3, <1>4, <1>6, <2>1, <2>2, IdleFacts
  <1>8. CASE GetEffectiveCredentials(r)
    <2>1. \/ Fresh /\ requests' = [requests EXCEPT ![r] = Answered(agentCache.creds)]
          \/ requests' = [requests EXCEPT ![r] = Querying("listing", FirstKey)]
      BY <1>8 DEF GetEffectiveCredentials
    <2> QED BY <1>2, <1>3, <1>4, <1>6, <2>1
  <1> QED BY <1>7, <1>8

\* What a query reads now was current when the request began.
LEMMA ReadsAreCurrent ==
    ASSUME AgentFacts, NEW t
    PROVE  agent.exists => agent.version \in Versions /\ CurrentAt(agent.version, t)
  BY DEF AgentFacts, DbFacts, CurrentAt

\* The queries keep the facts.
LEMMA QueriesKeepFacts ==
    ASSUME AgentFacts, NEW r \in Requests,
           \/ AuthenticateAgent(r) \/ GetAgentEffectiveCredentials(r) \/ GetAgent(r)
           \/ QueryTimesOut(r)
    PROVE  AgentFacts'
  <1> DEFINE q == requests[r]
  <1>1. UNCHANGED <<clock, db, authCache, agentCache>>
    BY DEF AuthenticateAgent, GetAgentEffectiveCredentials, GetAgent, QueryTimesOut
  <1>2. ASSUME NEW n, RequestFacts(n), requests' = [requests EXCEPT ![r] = n]
        PROVE  AgentFacts'
    <2>1. CacheFacts(agentCache') /\ KeyFacts(authCache')
      BY <1>1 DEF AgentFacts
    <2> QED BY <1>1, <1>2, <2>1, RequestMoves DEF AgentFacts
  <1>3. RequestFacts(q) /\ q \in RequestType
    BY DEF AgentFacts, RequestFacts
  <1>4. /\ clock \in Nat /\ CacheTtl \in Nat /\ 2 * DbTimeout \in Nat /\ issued \subseteq Keys
        /\ FirstKey \in issued
    BY TtlAssumption DEF AgentFacts, DbFacts
  <1>5. CASE AuthenticateAgent(r)
    <2>1. CASE agent.exists /\ agent.key = q.key
      <3> DEFINE n == [step |-> "found", key |-> q.key, row |-> agent.version,
                       creds |-> q.creds, by |-> q.by]
                 a == [q EXCEPT !.step = "found"]
      <3>0. requests' = [requests EXCEPT ![r] = [a EXCEPT !.row = agent.version]]
        BY <1>5, <2>1 DEF AuthenticateAgent
      <3>1. a = [step |-> "found", key |-> q.key, row |-> q.row, creds |-> q.creds, by |-> q.by]
        BY <1>3 DEF RequestType
      <3> HIDE DEF a
      <3>2. requests' = [requests EXCEPT ![r] = n]
        <4>1. [a EXCEPT !.row = agent.version] = n
          BY <3>1
        <4> QED BY <3>0, <4>1
      <3>3. q.step = "finding"
        BY <1>5 DEF AuthenticateAgent
      <3>4. RequestFacts(n)
        BY <1>3, <2>1, <3>3, ReadsAreCurrent
           DEF RequestFacts, RequestType, RequestAge, RequestKey, Underway, Steps, Held
      <3> QED BY <1>2, <3>2, <3>4
    <2>2. CASE ~(agent.exists /\ agent.key = q.key)
      <3> DEFINE n == [step |-> "missing", key |-> q.key, row |-> q.row,
                       creds |-> q.creds, by |-> q.by]
      <3>1. [q EXCEPT !.step = "missing"] = n
        BY <1>3 DEF RequestType
      <3>2. requests' = [requests EXCEPT ![r] = n]
        BY <1>5, <2>2, <3>1 DEF AuthenticateAgent
      <3>3. q.step = "finding"
        BY <1>5 DEF AuthenticateAgent
      <3>4. RequestFacts(n)
        BY <1>3, <2>2, <3>3
           DEF RequestFacts, RequestType, RequestAge, RequestKey, Underway, Steps, Held
      <3> QED BY <1>2, <3>2, <3>4
    <2> QED BY <2>1, <2>2
  <1>6. CASE GetAgentEffectiveCredentials(r)
    <2> DEFINE c == IF agent.exists THEN agent.version ELSE Nothing
               s == IF q.step = "found" THEN "loaded" ELSE "listed"
               n == [step |-> s, key |-> q.key, row |-> q.row, creds |-> c, by |-> q.by]
               a == [q EXCEPT !.step = s]
    <2>0. requests' = [requests EXCEPT ![r] = [a EXCEPT !.creds = c]]
      BY <1>6 DEF GetAgentEffectiveCredentials
    <2>1. a = [step |-> s, key |-> q.key, row |-> q.row, creds |-> q.creds, by |-> q.by]
      BY <1>3 DEF RequestType
    <2> HIDE DEF a
    <2>2. requests' = [requests EXCEPT ![r] = n]
      <3>1. [a EXCEPT !.creds = c] = n
        BY <2>1
      <3> QED BY <2>0, <3>1
    <2>3. (q.step = "found" /\ s = "loaded") \/ (q.step = "listing" /\ s = "listed")
      BY <1>6 DEF GetAgentEffectiveCredentials
    <2>4. c \in Held /\ CurrentAt(c, q.by - 2 * DbTimeout)
      BY ReadsAreCurrent DEF Held, CurrentAt
    <2> HIDE DEF c, s
    <2>5. RequestFacts(n)
      BY <1>3, <2>3, <2>4
         DEF RequestFacts, RequestType, RequestAge, RequestKey, Underway, Steps, Held
    <2> QED BY <1>2, <2>2, <2>5
  <1>7. ASSUME q.step \in {"listed", "reread"}
        PROVE  RequestFacts(Answered(q.creds))
    <2>1. CurrentAt(q.creds, clock - (CacheTtl + 2 * DbTimeout)) /\ q.creds \in Held
      BY <1>3, <1>4, <1>7 DEF RequestFacts, RequestAge, RequestType, Underway, CurrentAt,
           AgentFacts, DbFacts, Held, Versions
    <2> QED BY <1>4, <2>1 DEF Answered, RequestFacts, RequestType, RequestAge, RequestKey,
           Underway, Steps, Held
  <1>8. CASE GetAgent(r)
    <2>1. q.step = "listed"
      BY <1>8 DEF GetAgent
    <2>2. CASE agent.exists
      <3> DEFINE n == [step |-> "reread", key |-> q.key, row |-> agent.version,
                       creds |-> q.creds, by |-> q.by]
                 a == [q EXCEPT !.step = "reread"]
      <3>0. requests' = [requests EXCEPT ![r] = [a EXCEPT !.row = agent.version]]
        BY <1>8, <2>2 DEF GetAgent
      <3>a. a = [step |-> "reread", key |-> q.key, row |-> q.row, creds |-> q.creds, by |-> q.by]
        BY <1>3 DEF RequestType
      <3> HIDE DEF a
      <3>1. requests' = [requests EXCEPT ![r] = n]
        <4>1. [a EXCEPT !.row = agent.version] = n
          BY <3>a
        <4> QED BY <3>0, <4>1
      <3>2. RequestFacts(n)
        BY <1>3, <2>1, <2>2, ReadsAreCurrent
           DEF RequestFacts, RequestType, RequestAge, RequestKey, Underway, Steps, Held
      <3> QED BY <1>2, <3>1, <3>2
    <2>3. CASE ~agent.exists
      BY <1>2, <1>7, <1>8, <2>1, <2>3 DEF GetAgent
    <2> QED BY <2>2, <2>3
  <1>9. CASE QueryTimesOut(r)
    BY <1>2, <1>4, <1>7, <1>9, IdleFacts DEF QueryTimesOut
  <1> QED BY <1>5, <1>6, <1>8, <1>9

\* Storing what was read keeps the facts.
LEMMA StoresKeepFacts ==
    ASSUME AgentFacts, NEW r \in Requests,
           StoreAgent(r) \/ StoreNobody(r) \/ StoreCredentials(r)
    PROVE  AgentFacts'
  <1> DEFINE q == requests[r]
             c == [row |-> q.row, creds |-> q.creds, fetched |-> clock]
  <1>1. UNCHANGED <<clock, db>>
    BY DEF StoreAgent, StoreNobody, StoreCredentials
  <1>2. RequestFacts(q) /\ q \in RequestType /\ q.key \in issued
    BY DEF AgentFacts, RequestFacts, RequestKey
  <1>3. /\ clock \in Nat /\ CacheTtl \in Nat /\ 2 * DbTimeout \in Nat /\ issued \subseteq Keys
        /\ FirstKey \in issued /\ q.key \in Keys
    BY <1>2, TtlAssumption DEF AgentFacts, DbFacts
  <1>4. ASSUME q.step \in {"loaded", "reread"}
        PROVE  /\ CacheFacts(c) /\ q.row # Nothing
               /\ RequestFacts(Recognised(q.key, q.row)) /\ RequestFacts(Answered(q.creds))
    <2>1. /\ q.row \in Versions /\ q.row # Nothing /\ q.creds \in Held /\ q.row \in Held
      BY <1>2, <1>4, MarkAssumption DEF RequestFacts, RequestType, Held, Versions
    <2>2. /\ clock <= q.by /\ q.by <= clock + 2 * DbTimeout /\ q.by \in Nat
          /\ CurrentAt(q.row, q.by - 2 * DbTimeout) /\ CurrentAt(q.creds, q.by - 2 * DbTimeout)
      BY <1>2, <1>4 DEF RequestFacts, RequestType, RequestAge, Underway
    <2>3. superseded \in [Versions -> Nat \cup {Never}]
      BY DEF AgentFacts, DbFacts
    <2>4. /\ CurrentAt(q.row, clock - 2 * DbTimeout) /\ CurrentAt(q.creds, clock - 2 * DbTimeout)
          /\ CurrentAt(q.row, clock - (CacheTtl + 2 * DbTimeout))
          /\ CurrentAt(q.creds, clock - (CacheTtl + 2 * DbTimeout))
      BY <1>3, <2>1, <2>2, <2>3 DEF CurrentAt, Held
    <2>5. CacheFacts(c)
      BY <1>3, <2>1, <2>4 DEF CacheFacts
    <2>6. RequestFacts(Recognised(q.key, q.row))
      BY <1>2, <1>3, <2>1, <2>4 DEF Recognised, RequestFacts, RequestType, RequestAge, RequestKey,
           Underway, Steps, Held
    <2>7. RequestFacts(Answered(q.creds))
      BY <1>3, <2>1, <2>4 DEF Answered, RequestFacts, RequestType, RequestAge, RequestKey,
           Underway, Steps, Held
    <2> QED BY <2>1, <2>5, <2>6, <2>7
  <1>5. CASE StoreAgent(r)
    <2>1. /\ q.step = "loaded" /\ agentCache' = c
          /\ authCache' = [authCache EXCEPT ![q.key] = "agent"]
          /\ requests' = [requests EXCEPT ![r] = Recognised(q.key, q.row)]
      BY <1>5 DEF StoreAgent
    <2>2. KeyFacts(authCache')
      BY <1>2, <1>3, <2>1 DEF AgentFacts, DbFacts, KeyFacts
    <2>3. CacheFacts(agentCache') /\ agentCache'.row # Nothing
      BY <1>4, <2>1
    <2> QED BY <1>1, <1>4, <2>1, <2>2, <2>3, RequestMoves
  <1>6. CASE StoreNobody(r)
    <2>1. /\ q.step = "missing" /\ agentCache' = agentCache
          /\ authCache' = [authCache EXCEPT ![q.key] = "nobody"]
          /\ requests' = [requests EXCEPT ![r] = AtRest]
      BY <1>6 DEF StoreNobody
    <2>2. agent.exists => q.key # agent.key
      BY <1>2, <2>1 DEF RequestFacts, RequestKey
    <2>3. KeyFacts(authCache')
      BY <1>2, <1>3, <2>1, <2>2 DEF AgentFacts, DbFacts, KeyFacts
    <2>4. (\E k \in Keys : authCache'[k] = "agent") => agentCache'.row # Nothing
      BY <1>3, <2>1 DEF AgentFacts, KeyFacts
    <2>5. CacheFacts(agentCache')
      BY <2>1 DEF AgentFacts
    <2> QED BY <1>1, <1>3, <2>1, <2>3, <2>4, <2>5, IdleFacts, RequestMoves
  <1>7. CASE StoreCredentials(r)
    <2>1. /\ q.step = "reread" /\ agentCache' = c /\ authCache' = authCache
          /\ requests' = [requests EXCEPT ![r] = Answered(q.creds)]
      BY <1>7 DEF StoreCredentials
    <2>2. KeyFacts(authCache')
      BY <2>1 DEF AgentFacts
    <2>3. CacheFacts(agentCache') /\ agentCache'.row # Nothing
      BY <1>4, <2>1
    <2> QED BY <1>1, <1>4, <2>1, <2>2, <2>3, RequestMoves
  <1> QED BY <1>5, <1>6, <1>7

\* The passing of time keeps the facts: answers are forgotten with it.
LEMMA ClockKeepsFacts ==
    ASSUME AgentFacts, ClockTick
    PROVE  AgentFacts'
  <1>1. /\ UNCHANGED <<agent, superseded, issued, authCache, agentCache>>
        /\ clock' = clock + 1 /\ clock \in Nat /\ clock' \in 0 .. MaxClock
    BY TtlAssumption DEF ClockTick, db, AgentFacts, DbFacts
  <1>2. DbFacts' /\ CacheFacts(agentCache)' /\ KeyFacts(authCache)'
    BY <1>1 DEF AgentFacts, DbFacts, CacheFacts, KeyFacts, CurrentAt
  <1>3. RequestFacts(AtRest)'
    BY <1>1, KeyAssumption DEF AgentFacts, DbFacts, AtRest, RequestFacts, RequestType, RequestAge,
         RequestKey, Underway, Steps, Held
  <1>4. ASSUME NEW r \in Requests
        PROVE  RequestFacts(requests[r])'
    <2>1. CASE Free(r)
      <3>1. requests'[r] = AtRest
        BY <2>1 DEF ClockTick
      <3> QED BY <1>3, <3>1 DEF RequestFacts, RequestType, RequestAge, RequestKey, Underway, CurrentAt
    <2>2. CASE ~Free(r)
      <3>1. requests'[r] = requests[r] /\ clock < requests[r].by /\ Underway(requests[r])
        BY <2>2 DEF ClockTick, Free, Underway
      <3>2. RequestFacts(requests[r])
        BY DEF AgentFacts
      <3> QED BY <1>1, <3>1, <3>2, TtlAssumption
           DEF RequestFacts, RequestType, RequestAge, RequestKey, CurrentAt, Underway
    <2> QED BY <2>1, <2>2
  <1>5. requests' = [r \in Requests |-> requests'[r]]
    BY DEF ClockTick
  <1> QED BY <1>1, <1>2, <1>4, <1>5 DEF AgentFacts

\* The facts hold in every reachable state, for every value of the constants.
THEOREM AgentFactsHold == AgentSpec => []AgentFacts
  <1>1. AgentFacts /\ UNCHANGED agentVars => AgentFacts'
    BY DEF AgentFacts, DbFacts, CacheFacts, KeyFacts, RequestFacts, RequestType, RequestAge, RequestKey,
         CurrentAt, Underway, agentVars
  <1>2. \A r \in Requests : AgentFacts /\ Serve(r) => AgentFacts'
    BY LookupsKeepFacts, QueriesKeepFacts, StoresKeepFacts DEF Serve
  <1>3. AgentFacts /\ [AgentNext]_agentVars => AgentFacts'
    BY <1>1, <1>2, DashboardKeepsFacts, ClockKeepsFacts DEF AgentNext
  <1> QED BY <1>3, AgentInitFacts, PTL DEF AgentSpec

(***************************************************************************)
(* authenticate and get_effective_credentials answer no request with a row *)
(* or a credential set replaced longer ago than the TTL and two queries,   *)
(* and the caches keep their shapes, for any number of concurrent requests *)
(* and writes.                                                             *)
(***************************************************************************)
THEOREM AgentAgeIsBounded == AgentSpec => []CachesAreFresh
  <1>1. AgentFacts => CacheShape
    BY DEF AgentFacts, DbFacts, CacheFacts, KeyFacts, RequestFacts, RequestType, Held, CacheShape
  <1>2. AgentFacts => StalenessIsBounded
    <2> SUFFICES ASSUME AgentFacts, NEW r \in Requests
                 PROVE  /\ requests[r].step = "recognised" =>
                               YoungerThan(requests[r].row, CacheTtl + 2 * DbTimeout)
                        /\ requests[r].step = "answered" =>
                               YoungerThan(requests[r].creds, CacheTtl + 2 * DbTimeout)
      BY DEF StalenessIsBounded
    <2>1. /\ RequestAge(requests[r]) /\ requests[r] \in RequestType
          /\ clock \in Nat /\ superseded \in [Versions -> Nat \cup {Never}]
          /\ CacheTtl \in Nat /\ 2 * DbTimeout \in Nat
      BY TtlAssumption DEF AgentFacts, RequestFacts, DbFacts
    <2> QED BY <2>1 DEF RequestAge, RequestType, CurrentAt, YoungerThan, Held
  <1> QED BY <1>1, <1>2, AgentFactsHold, PTL DEF CachesAreFresh

(***************************************************************************)
(* auth_cache never remembers the agent's current key as nobody's, however *)
(* rotations interleave with requests that look keys up.                   *)
(***************************************************************************)
THEOREM CurrentKeyIsServed == AgentSpec => []CurrentKeyIsNotRefused
  <1>1. AgentFacts => CurrentKeyIsNotRefused
    BY DEF AgentFacts, KeyFacts, RequestFacts, RequestKey, CurrentKeyIsNotRefused
  <1> QED BY <1>1, AgentFactsHold, PTL
=============================================================================
