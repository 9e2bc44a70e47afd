------------------------- MODULE PolicyChangesProofs -------------------------
(***************************************************************************)
(* Proofs about PolicyCache, PolicyRules and PolicyChanges, which composes *)
(* them, for any number of handlers, people, proposals and requests and    *)
(* any TTL and query timeout, zero included.                               *)
(*                                                                         *)
(* The handlers and the cache compose: what is proved of PolicyCache holds *)
(* beside every writer.  The lock is argued from what a handler that       *)
(* passed the comparison holds, the authority behind a change from what a  *)
(* handler has earned by the statement it is at, the merges from what a    *)
(* handler read and made of it.                                            *)
(***************************************************************************)
EXTENDS PolicyChanges, FiniteSetTheorems, TLAPS

-----------------------------------------------------------------------------
(* The cache of policies                                                   *)
(*                                                                         *)
(* What bounds the age of an answer is not in the answer: it is that a     *)
(* version a request has read, or the cache holds, was still current when  *)
(* its query was sent.  QueryAge and CacheAge say so, relative to the      *)
(* query's deadline and to the entry's time stamp; with them the bound is  *)
(* inductive.                                                              *)

(* A version was current at time t or later.                               *)
CurrentAt(v, t) == superseded[v] # Never => superseded[v] >= t

(* A query is running before its deadline, and its result was current when *)
(* it was sent.                                                            *)
QueryAge ==
    \A r \in Readers :
        /\ readers[r].step \in {"querying", "queried"} =>
               now <= readers[r].by /\ readers[r].by <= now + DbTimeout
        /\ readers[r].step = "queried" =>
               readers[r].value \in Versions /\ CurrentAt(readers[r].value, readers[r].by - DbTimeout)

CacheAge ==
    cache.value # Nothing => CurrentAt(cache.value, cache.fetched - DbTimeout)

AnswerAge ==
    \A r \in Readers : readers[r].step = "answered" =>
        readers[r].value \in Versions /\ CurrentAt(readers[r].value, now - (CacheTtl + DbTimeout))

Reader == [step : {"idle", "answered", "querying", "queried"},
           value : (0 .. policy) \cup {Nothing}, by : Nat]

(* The row and the versions to come have not been replaced.                *)
PolicyIsCurrent == \A v \in policy .. MaxVersion : superseded[v] = Never

Facts == TypeOK /\ PolicyIsCurrent /\ QueryAge /\ CacheAge /\ AnswerAge

\* The initial state has every fact of the invariant.
LEMMA InitFacts == Init => Facts
  <1> SUFFICES ASSUME Init PROVE Facts
    OBVIOUS
  <1>1. TypeOK
    BY TimeAssumption DEF Init, TypeOK, Versions, Empty, Idle
  <1>2. PolicyIsCurrent /\ QueryAge /\ CacheAge /\ AnswerAge
    BY DEF Init, PolicyIsCurrent, QueryAge, CacheAge, AnswerAge, Empty, Idle
  <1> QED BY <1>1, <1>2 DEF Facts

\* Writing a policy keeps the facts: what was current stays current until now.
LEMMA SetPolicyKeepsFacts ==
    ASSUME Facts, SetPolicy
    PROVE  Facts'
  <1> USE TimeAssumption, MarkAssumption DEF Facts, SetPolicy, Versions
  <1>1. TypeOK'
    BY DEF TypeOK
  <1>2. ASSUME NEW v \in Versions, NEW t \in Int, t <= now, CurrentAt(v, t)
        PROVE  CurrentAt(v, t)'
    BY <1>2 DEF CurrentAt, TypeOK
  <1>3. QueryAge'
    BY <1>2 DEF QueryAge, TypeOK
  <1>4. CacheAge'
    BY <1>2 DEF CacheAge, TypeOK
  <1>5. AnswerAge'
    BY <1>2 DEF AnswerAge, TypeOK
  <1>6. PolicyIsCurrent'
    BY DEF PolicyIsCurrent, TypeOK
  <1> QED BY <1>1, <1>3, <1>4, <1>5, <1>6

\* Invalidating the entry keeps the facts.
LEMMA InvalidateKeepsFacts ==
    ASSUME Facts, NEW v \in writing, InvalidatePolicyCache(v)
    PROVE  Facts'
  <1> USE TimeAssumption, MarkAssumption DEF Facts, InvalidatePolicyCache, Versions
  <1>1. TypeOK'
    BY DEF TypeOK, Empty
  <1>2. PolicyIsCurrent' /\ QueryAge' /\ AnswerAge'
    BY DEF PolicyIsCurrent, QueryAge, AnswerAge, CurrentAt
  <1>3. CacheAge'
    BY DEF CacheAge, Empty
  <1> QED BY <1>1, <1>2, <1>3

\* Each step of a request keeps the facts.
LEMMA ReadKeepsFacts ==
    ASSUME Facts, NEW r \in Readers, Read(r)
    PROVE  Facts'
  <1> USE TimeAssumption, MarkAssumption DEF Facts, Versions
  <1>0. /\ UNCHANGED <<now, policy, superseded, writing>>
        /\ \A s \in Readers \ {r} : readers'[s] = readers[s]
    BY DEF Read, GetPolicy, QueryPolicy, StorePolicy, QueryTimesOut, TypeOK
  <1>a. PolicyIsCurrent'
    BY <1>0 DEF PolicyIsCurrent
  <1>1. CASE GetPolicy(r)
    <2>1. CASE Fresh
      <3>1. readers'[r] = [step |-> "answered", value |-> cache.value, by |-> 0]
        BY <1>1, <2>1 DEF GetPolicy, TypeOK
      <3>2. TypeOK'
        BY <1>1, <2>1 DEF GetPolicy, Fresh, TypeOK
      <3>3. CurrentAt(cache.value, now - (CacheTtl + DbTimeout)) /\ cache.value \in Versions
        BY <2>1 DEF Fresh, CacheAge, CurrentAt, TypeOK
      <3>4. QueryAge' /\ CacheAge' /\ AnswerAge'
        BY <1>0, <1>1, <3>1, <3>3 DEF GetPolicy, QueryAge, CacheAge, AnswerAge, CurrentAt
      <3> QED BY <1>a, <3>2, <3>4
    <2>2. CASE ~Fresh
      <3>1. readers'[r] = [step |-> "querying", value |-> Nothing, by |-> now + DbTimeout]
        BY <1>1, <2>2 DEF GetPolicy, TypeOK
      <3>2. TypeOK'
        BY <1>1, <2>2 DEF GetPolicy, TypeOK
      <3>3. QueryAge' /\ CacheAge' /\ AnswerAge'
        BY <1>0, <1>1, <3>1
           DEF GetPolicy, QueryAge, CacheAge, AnswerAge, CurrentAt, TypeOK
      <3> QED BY <1>a, <3>2, <3>3
    <2> QED BY <2>1, <2>2
  <1>2. CASE QueryPolicy(r)
    <2>1. readers'[r] = [readers[r] EXCEPT !.step = "queried", !.value = policy]
      BY <1>2 DEF QueryPolicy, TypeOK
    <2>2. TypeOK'
      <3>1. readers[r] \in Reader /\ policy \in 0 .. policy
        BY DEF TypeOK, Reader
      <3>2. readers'[r] \in Reader
        BY <2>1, <3>1 DEF Reader
      <3>3. readers' = [readers EXCEPT ![r] = readers'[r]]
        BY <1>2, <2>1 DEF QueryPolicy, TypeOK
      <3>4. readers' \in [Readers -> Reader]
        BY <3>2, <3>3 DEF TypeOK, Reader
      <3> QED BY <1>0, <1>2, <3>4 DEF QueryPolicy, TypeOK, Reader
    <2>3. policy \in Versions /\ superseded[policy] = Never
      BY DEF PolicyIsCurrent, TypeOK
    <2>4. /\ readers[r].step = "querying" /\ cache' = cache
          /\ readers'[r].step = "queried" /\ readers'[r].value = policy
          /\ readers'[r].by = readers[r].by
      BY <1>2, <2>1 DEF QueryPolicy, TypeOK
    <2>5. QueryAge' /\ CacheAge' /\ AnswerAge'
      BY <1>0, <2>3, <2>4 DEF QueryAge, CacheAge, AnswerAge, CurrentAt
    <2> QED BY <1>a, <2>2, <2>5
  <1>3. CASE StorePolicy(r)
    <2>1. readers'[r] = [readers[r] EXCEPT !.step = "answered", !.by = 0]
      BY <1>3 DEF StorePolicy, TypeOK
    <2>2. TypeOK'
      <3>1. readers[r] \in Reader /\ readers[r].value \in Versions
        BY <1>3 DEF StorePolicy, TypeOK, Reader, QueryAge
      <3>2. readers'[r] \in Reader
        <4>1. readers'[r] = [step |-> "answered", value |-> readers[r].value, by |-> 0]
          BY <2>1, <3>1 DEF Reader
        <4>2. /\ readers[r].value \in (0 .. policy) \cup {Nothing}
              /\ 0 \in Nat
          BY <3>1 DEF Reader
        <4> QED BY <4>1, <4>2 DEF Reader
      <3>3. readers' = [readers EXCEPT ![r] = readers'[r]]
        BY <1>3, <2>1 DEF StorePolicy, TypeOK
      <3>4. readers' \in [Readers -> Reader]
        BY <3>2, <3>3 DEF TypeOK, Reader
      <3>5. cache' \in [value : (0 .. policy) \cup {Nothing}, fetched : 0 .. now]
        BY <1>3, <3>1 DEF StorePolicy, Reader, TypeOK
      <3> QED BY <1>0, <3>4, <3>5 DEF TypeOK, Reader
    <2>3. QueryAge'
      BY <1>0, <1>3, <2>1 DEF StorePolicy, QueryAge, CurrentAt, TypeOK
    <2>4. CacheAge'
      BY <1>0, <1>3 DEF StorePolicy, QueryAge, CacheAge, CurrentAt, TypeOK
    <2>5. AnswerAge'
      BY <1>0, <1>3, <2>1 DEF StorePolicy, QueryAge, AnswerAge, CurrentAt, TypeOK
    <2> QED BY <1>a, <2>2, <2>3, <2>4, <2>5
  <1>4. CASE QueryTimesOut(r)
    <2>1. readers'[r] = Idle
      BY <1>4 DEF QueryTimesOut, TypeOK
    <2>2. TypeOK'
      BY <1>4 DEF QueryTimesOut, TypeOK, Idle
    <2>3. QueryAge' /\ CacheAge' /\ AnswerAge'
      BY <1>0, <1>4, <2>1 DEF QueryTimesOut, QueryAge, CacheAge, AnswerAge, CurrentAt, Idle
    <2> QED BY <1>a, <2>2, <2>3
  <1> QED BY <1>1, <1>2, <1>3, <1>4 DEF Read

\* The passing of time keeps the facts: answers are forgotten with it.
LEMMA TickKeepsFacts ==
    ASSUME Facts, Tick
    PROVE  Facts'
  <1> USE TimeAssumption, MarkAssumption DEF Facts, Versions
  <1>1. TypeOK'
    BY DEF Tick, TypeOK, Idle
  <1>2. \A r \in Readers : readers'[r] = IF Free(r) THEN Idle ELSE readers[r]
    BY DEF Tick
  <1>3. QueryAge'
    BY <1>2 DEF Tick, Free, QueryAge, CurrentAt, Idle, TypeOK
  <1>4. PolicyIsCurrent' /\ CacheAge'
    BY DEF Tick, PolicyIsCurrent, CacheAge, CurrentAt
  <1>5. AnswerAge'
    BY <1>2 DEF Tick, Free, AnswerAge, Idle
  <1> QED BY <1>1, <1>3, <1>4, <1>5

\* The facts hold in every reachable state, for every value of the constants.
THEOREM FactsHold == Spec => []Facts
  <1>1. Facts /\ UNCHANGED vars => Facts'
    BY DEF Facts, TypeOK, QueryAge, CacheAge, AnswerAge, CurrentAt,
           PolicyIsCurrent, Versions, vars
  <1>2. Facts /\ [Next]_vars => Facts'
    BY <1>1, SetPolicyKeepsFacts, InvalidateKeepsFacts, ReadKeepsFacts, TickKeepsFacts DEF Next
  <1> QED BY <1>2, InitFacts, PTL DEF Spec

(***************************************************************************)
(* The cache only ever holds a version that was written, stamped in the    *)
(* past (get_policy's insert).                                             *)
(***************************************************************************)
THEOREM PolicyTypes == Spec => []TypeOK
  <1>1. Facts => TypeOK
    BY DEF Facts
  <1> QED BY <1>1, FactsHold, PTL

(***************************************************************************)
(* get_policy never judges a request by a policy replaced longer ago than  *)
(* the TTL and one query, for any number of concurrent requests and        *)
(* writers, with the query's result stored long after it was read.         *)
(***************************************************************************)
THEOREM PolicyAgeIsBounded == Spec => []PolicyStalenessIsBounded
  <1>1. Facts => PolicyStalenessIsBounded
    BY TimeAssumption
       DEF Facts, AnswerAge, CurrentAt, PolicyStalenessIsBounded, TypeOK, Versions
  <1> QED BY <1>1, FactsHold, PTL

-----------------------------------------------------------------------------
(* The comparison of policies                                              *)
(*                                                                         *)
(* The comparison of policy_diff.rs is complete: a change that it has      *)
(* nothing to say of loosens nothing.  The comparison looks at lists,      *)
(* and looseness is about requests, people and numbers, so the argument    *)
(* goes through the three rules evaluate_policy lets a request through by. *)

(* What an empty list of permissive changes says of the two views.         *)
NotLooser(o, new) ==
    /\ new.autoMethods \subseteq o.autoMethods
    /\ new.autoUrls \subseteq o.autoUrls
    /\ o.requireUrls \subseteq new.requireUrls
    /\ o.passkey => new.passkey
    /\ ~(new.min < o.min)
    /\ o.approvers # {} => new.approvers # {}
    /\ new.approvers \subseteq o.approvers

\* No permissive change is listed only if every list compares as it should.
LEMMA NothingListed ==
    ASSUME NEW old, NEW new, PermissiveChanges(old, new) = {}
    PROVE  NotLooser(IF old = NoPolicy THEN DefaultBaseline ELSE old, new)
  <1> DEFINE o == IF old = NoPolicy THEN DefaultBaseline ELSE old
             MoreMethods == {"auto_approve_methods"} \X (new.autoMethods \ o.autoMethods)
             Urls == {"auto_approve_urls"} \X (new.autoUrls \ o.autoUrls)
             Overrides == {"require_approval_urls"} \X (o.requireUrls \ new.requireUrls)
             Passkey == {<<"require_passkey", FALSE>> : x \in {y \in {1} : o.passkey /\ ~new.passkey}}
             Number == {<<"min_approvals", new.min>> : x \in {y \in {1} : new.min < o.min}}
             MorePeople == IF o.approvers # {} /\ new.approvers = {}
                       THEN {<<"allowed_approvers", "anyone">>}
                       ELSE {"allowed_approvers"} \X (new.approvers \ o.approvers)
  <1>1. MoreMethods \cup Urls \cup Overrides \cup Passkey \cup Number \cup MorePeople = {}
    BY DEF PermissiveChanges
  <1> HIDE DEF MoreMethods, Urls, Overrides, Passkey, Number, MorePeople, o
  <1>2. MoreMethods = {} /\ Urls = {} /\ Overrides = {} /\ Passkey = {} /\ Number = {} /\ MorePeople = {}
    BY <1>1
  <1>3. ASSUME NEW tag, NEW S, {tag} \X S = {}
        PROVE  \A x : x \notin S
    <2> SUFFICES ASSUME NEW x, x \in S PROVE FALSE
      OBVIOUS
    <2>1. <<tag, x>> \in {tag} \X S
      OBVIOUS
    <2> QED BY <1>3, <2>1
  <1>4. new.autoMethods \subseteq o.autoMethods
    <2>1. \A x : x \notin new.autoMethods \ o.autoMethods
      BY <1>2, <1>3 DEF MoreMethods
    <2> QED BY <2>1
  <1>5. new.autoUrls \subseteq o.autoUrls
    <2>1. \A x : x \notin new.autoUrls \ o.autoUrls
      BY <1>2, <1>3 DEF Urls
    <2> QED BY <2>1
  <1>6. o.requireUrls \subseteq new.requireUrls
    <2>1. \A x : x \notin o.requireUrls \ new.requireUrls
      BY <1>2, <1>3 DEF Overrides
    <2> QED BY <2>1
  <1>7. o.passkey => new.passkey
    BY <1>2 DEF Passkey
  <1>8. ~(new.min < o.min)
    BY <1>2 DEF Number
  <1>9. o.approvers # {} => new.approvers # {}
    BY <1>2 DEF MorePeople
  <1>10. new.approvers \subseteq o.approvers
    <2>1. {"allowed_approvers"} \X (new.approvers \ o.approvers) = {}
      BY <1>2, <1>9 DEF MorePeople
    <2>2. \A x : x \notin new.approvers \ o.approvers
      BY <2>1, <1>3
    <2> QED BY <2>2
  <1>11. NotLooser(o, new)
    BY <1>4, <1>5, <1>6, <1>7, <1>8, <1>9, <1>10 DEF NotLooser
  <1> QED BY <1>11 DEF o

(* No view of a row is taken for a missing policy.                         *)
ViewsAreRows == \A row : PolicyViewFromRow(row) # NoPolicy

\* A listed method of a row is one of its view, in upper case.
LEMMA ListedInView ==
    ASSUME NEW m, NEW row
    PROVE  Listed(m, row.autoMethods) <=> CheckMethod(m) \in PolicyViewFromRow(row).autoMethods
  BY DEF Listed, PolicyViewFromRow, Upper

\* Nothing goes through under new unseen that waited for a human under old.
LEMMA NothingMoreIsApproved ==
    ASSUME ViewsAreRows, NEW old, NEW new, new # NoPolicy, NEW m, NEW u,
           NotLooser(IF old = NoPolicy THEN DefaultBaseline ELSE PolicyViewFromRow(old),
                     PolicyViewFromRow(new)),
           AutoApproved(m, new, u, "gated")
    PROVE  AutoApproved(m, old, u, "gated")
  <1> DEFINE o == IF old = NoPolicy THEN DefaultBaseline ELSE PolicyViewFromRow(old)
             n == PolicyViewFromRow(new)
  <1>1. /\ ~MatchesAny(u, new.requireUrls)
        /\ MatchesAny(u, new.autoUrls) \/ Listed(m, new.autoMethods)
    BY DEF AutoApproved, EvaluatePolicyWithDefault, AutoApproveReasons
  <1>2. /\ n.autoUrls = new.autoUrls /\ n.requireUrls = new.requireUrls
        /\ n.autoUrls \subseteq o.autoUrls /\ o.requireUrls \subseteq n.requireUrls
        /\ n.autoMethods \subseteq o.autoMethods
    BY DEF NotLooser, PolicyViewFromRow
  <1>3. Listed(m, new.autoMethods) => CheckMethod(m) \in o.autoMethods
    BY <1>2, ListedInView
  <1>4. CASE old = NoPolicy
    <2>1. o.autoUrls = {} /\ o.autoMethods = {"GET", "HEAD"}
      BY <1>4 DEF DefaultBaseline
    <2>2. Listed(m, new.autoMethods)
      BY <1>1, <1>2, <2>1 DEF MatchesAny
    <2>3. m \in {"GET", "HEAD"}
      BY <1>3, <2>1, <2>2 DEF CheckMethod
    <2> QED BY <1>4, <2>3 DEF AutoApproved, EvaluatePolicyWithDefault, AutoApproveReasons
  <1>5. CASE old # NoPolicy
    <2>1. o.autoUrls = old.autoUrls /\ o.requireUrls = old.requireUrls
      BY <1>5 DEF PolicyViewFromRow
    <2>2. ~MatchesAny(u, old.requireUrls)
      BY <1>1, <1>2, <2>1 DEF MatchesAny
    <2>3. MatchesAny(u, new.autoUrls) => MatchesAny(u, old.autoUrls)
      BY <1>2, <2>1 DEF MatchesAny
    <2>4. Listed(m, new.autoMethods) => Listed(m, old.autoMethods)
      BY <1>3, <1>5, ListedInView
    <2>5. MatchesAny(u, old.autoUrls) \/ Listed(m, old.autoMethods)
      BY <1>1, <2>3, <2>4
    <2> QED BY <1>5, <2>2, <2>5 DEF AutoApproved, EvaluatePolicyWithDefault, AutoApproveReasons
  <1> QED BY <1>4, <1>5

\* What compares as it should is not looser.
LEMMA NothingLoosened ==
    ASSUME ViewsAreRows, NEW old, NEW new, new # NoPolicy,
           NEW methods, NEW urls, NEW people,
           NotLooser(IF old = NoPolicy THEN DefaultBaseline ELSE PolicyViewFromRow(old),
                     PolicyViewFromRow(new))
    PROVE  ~Looser(old, new, methods, urls, people)
  <1> DEFINE o == IF old = NoPolicy THEN DefaultBaseline ELSE PolicyViewFromRow(old)
             n == PolicyViewFromRow(new)
  <1>1. NotLooser(o, n)
    OBVIOUS
  <1>2. ~ \E m \in methods, u \in urls :
            AutoApproved(m, new, u, "gated") /\ ~AutoApproved(m, old, u, "gated")
    BY <1>1, NothingMoreIsApproved
  <1>3. CASE old = NoPolicy
    BY <1>2, <1>3 DEF Looser, Admits
  <1>4. CASE old # NoPolicy
    <2>1. /\ o.passkey = old.passkey /\ o.min = old.min /\ o.approvers = old.approvers
          /\ n.passkey = new.passkey /\ n.min = new.min /\ n.approvers = new.approvers
      BY <1>4 DEF PolicyViewFromRow
    <2>2. ~(old.passkey /\ ~new.passkey) /\ ~(new.min < old.min)
      BY <1>1, <2>1 DEF NotLooser
    <2>3. \A p \in people : Admits(new, p) => Admits(old, p)
      BY <1>1, <1>4, <2>1 DEF NotLooser, Admits
    <2> QED BY <1>2, <2>2, <2>3 DEF Looser
  <1> QED BY <1>3, <1>4

(***************************************************************************)
(* permissive_changes misses nothing: if it lists no change from one       *)
(* policy, or none, to another, then no request of any method and URL goes *)
(* through that waited before, the passkey stays, the number of approvals  *)
(* does not fall and nobody is admitted who was not.                       *)
(***************************************************************************)
THEOREM LooseningIsReported ==
    ASSUME ViewsAreRows, NEW old, NEW new, new # NoPolicy,
           NEW methods, NEW urls, NEW people,
           PermissiveChanges(CurrentView(old), PolicyViewFromRow(new)) = {}
    PROVE  ~Looser(old, new, methods, urls, people)
  <1> DEFINE o == IF old = NoPolicy THEN DefaultBaseline ELSE PolicyViewFromRow(old)
  <1>1. o = IF CurrentView(old) = NoPolicy THEN DefaultBaseline ELSE CurrentView(old)
    BY DEF CurrentView, ViewsAreRows
  <1>2. NotLooser(o, PolicyViewFromRow(new))
    BY <1>1, NothingListed
  <1> QED BY <1>2, NothingLoosened

-----------------------------------------------------------------------------
(* The two merges                                                          *)

\* The fields of a merged row, one by one.
LEMMA MergedRowFields ==
    ASSUME NEW payload, NEW current
    PROVE  LET row == BuildMergedPolicyRow(payload, current)
               cur == IF current = NoPolicy THEN EmptyRow ELSE current
           IN  /\ DOMAIN row = DOMAIN EmptyRow
               /\ \A f \in DOMAIN EmptyRow \ {"min"} :
                      row[f] = IF f \in DOMAIN payload THEN payload[f] ELSE cur[f]
               /\ row.min = AtLeastOne(IF "min" \in DOMAIN payload THEN payload.min ELSE cur.min)
  <1> DEFINE cur == IF current = NoPolicy THEN EmptyRow ELSE current
             Field(f) == IF f \in DOMAIN payload THEN payload[f] ELSE cur[f]
             row == BuildMergedPolicyRow(payload, current)
  <1>1. row = [f \in DOMAIN EmptyRow |-> IF f = "min" THEN AtLeastOne(Field(f)) ELSE Field(f)]
    BY DEF BuildMergedPolicyRow
  <1>2. "min" \in DOMAIN EmptyRow
    BY DEF EmptyRow
  <1> HIDE DEF row, cur, Field
  <1>3. /\ DOMAIN row = DOMAIN EmptyRow
        /\ \A f \in DOMAIN EmptyRow \ {"min"} : row[f] = Field(f)
        /\ row["min"] = AtLeastOne(Field("min"))
    BY <1>1, <1>2
  <1> QED BY <1>3 DEF row, cur, Field

\* The fields of the view a review compares.
LEMMA MergedViewFields ==
    ASSUME NEW payload, NEW current
    PROVE  LET view == MergedView(payload, current)
               cur == IF current = NoPolicy THEN DefaultBaseline ELSE current
           IN  /\ \A f \in {"autoMethods", "requireMethods"} :
                      view[f] = IF f \in DOMAIN payload THEN Upper(payload[f]) ELSE cur[f]
               /\ \A f \in {"autoUrls", "requireUrls", "passkey", "min", "approvers"} :
                      view[f] = IF f \in DOMAIN payload THEN payload[f] ELSE cur[f]
  <1> DEFINE cur == IF current = NoPolicy THEN DefaultBaseline ELSE current
             Field(f) == IF f \notin DOMAIN payload THEN cur[f]
                         ELSE IF f \in {"autoMethods", "requireMethods"} THEN Upper(payload[f])
                         ELSE payload[f]
             view == MergedView(payload, current)
             Names == DOMAIN DefaultBaseline
  <1>1. view = [f \in Names |-> Field(f)]
    BY DEF MergedView
  <1>2. Names = {"autoMethods", "requireMethods", "autoUrls", "requireUrls", "passkey", "min",
                 "approvers"}
    BY DEF DefaultBaseline
  <1> HIDE DEF view, Names
  <1>3. \A f \in Names : view[f] = Field(f)
    BY <1>1
  <1> QED BY <1>2, <1>3 DEF view

(***************************************************************************)
(* proposals.rs shows a manager what a proposal would loosen from one      *)
(* merge, admin.rs writes another: whatever the first has nothing to say   *)
(* of, the second does not loosen either, with or without a policy in      *)
(* force.                                                                  *)
(***************************************************************************)
THEOREM ReviewTellsAll ==
    ASSUME ViewsAreRows, NEW payload, NEW current, NEW methods, NEW urls, NEW people,
           BuildMergedPolicyRow(payload, current) # NoPolicy,
           current # NoPolicy => current.min \in Nat,
           "min" \in DOMAIN payload => payload.min \in Nat,
           PermissiveChanges(CurrentView(current), MergedView(payload, CurrentView(current))) = {}
    PROVE  ~Looser(current, BuildMergedPolicyRow(payload, current), methods, urls, people)
  <1> DEFINE o == IF current = NoPolicy THEN DefaultBaseline ELSE PolicyViewFromRow(current)
             m == MergedView(payload, CurrentView(current))
             row == BuildMergedPolicyRow(payload, current)
             n == PolicyViewFromRow(row)
             cur == IF current = NoPolicy THEN EmptyRow ELSE current
  <1>1. o = IF CurrentView(current) = NoPolicy THEN DefaultBaseline ELSE CurrentView(current)
    BY DEF CurrentView, ViewsAreRows
  <1>2. NotLooser(o, m)
    BY <1>1, NothingListed
  <1>3. /\ \A f \in {"autoMethods", "requireMethods"} :
               m[f] = IF f \in DOMAIN payload THEN Upper(payload[f]) ELSE o[f]
        /\ \A f \in {"autoUrls", "requireUrls", "passkey", "min", "approvers"} :
               m[f] = IF f \in DOMAIN payload THEN payload[f] ELSE o[f]
    BY <1>1, MergedViewFields
  <1>4. /\ \A f \in DOMAIN EmptyRow \ {"min"} :
               row[f] = IF f \in DOMAIN payload THEN payload[f] ELSE cur[f]
        /\ row.min = AtLeastOne(IF "min" \in DOMAIN payload THEN payload.min ELSE cur.min)
    BY MergedRowFields
  <1>5. /\ n.autoMethods = Upper(row.autoMethods) /\ n.autoUrls = row.autoUrls
        /\ n.requireUrls = row.requireUrls /\ n.passkey = row.passkey
        /\ n.min = row.min /\ n.approvers = row.approvers
    BY DEF PolicyViewFromRow
  <1>6. \A f \in {"autoMethods", "autoUrls", "requireUrls", "passkey", "approvers"} :
            row[f] = IF f \in DOMAIN payload THEN payload[f] ELSE cur[f]
    BY <1>4 DEF EmptyRow
  <1>7. /\ o.autoUrls = cur.autoUrls /\ o.requireUrls = cur.requireUrls
        /\ o.passkey = cur.passkey /\ o.min = cur.min /\ o.approvers = cur.approvers
        /\ Upper(cur.autoMethods) \subseteq o.autoMethods
    <2>1. CASE current = NoPolicy
      <3>1. cur.autoMethods = {} /\ o = DefaultBaseline /\ cur = EmptyRow
        BY <2>1 DEF EmptyRow
      <3>2. Upper(cur.autoMethods) = {}
        BY <3>1 DEF Upper
      <3>3. /\ EmptyRow.autoUrls = DefaultBaseline.autoUrls
            /\ EmptyRow.requireUrls = DefaultBaseline.requireUrls
            /\ EmptyRow.passkey = DefaultBaseline.passkey
            /\ EmptyRow.min = DefaultBaseline.min
            /\ EmptyRow.approvers = DefaultBaseline.approvers
        BY DEF EmptyRow, DefaultBaseline
      <3> HIDE DEF o, cur
      <3> QED BY <3>1, <3>2, <3>3
    <2>2. CASE current # NoPolicy
      BY <2>2 DEF PolicyViewFromRow
    <2> QED BY <2>1, <2>2
  <1> HIDE DEF o, m, row, n, cur
  <1>8. n.autoUrls = m.autoUrls /\ n.requireUrls = m.requireUrls
        /\ n.passkey = m.passkey /\ n.approvers = m.approvers
    BY <1>3, <1>5, <1>6, <1>7
  <1>9. n.autoMethods \subseteq o.autoMethods
    BY <1>2, <1>3, <1>5, <1>6, <1>7 DEF NotLooser
  <1>10. ~(n.min < o.min)
    <2>1. o.min \in Nat /\ cur.min = o.min
      <3>1. EmptyRow.min \in Nat
        BY DEF EmptyRow
      <3>2. cur.min \in Nat
        BY <3>1 DEF cur
      <3> QED BY <1>7, <3>2
    <2>2. n.min = AtLeastOne(m.min) /\ m.min \in Nat
      BY <1>3, <1>4, <1>5, <2>1
    <2>3. ~(m.min < o.min)
      BY <1>2 DEF NotLooser
    <2> QED BY <2>1, <2>2, <2>3 DEF AtLeastOne
  <1>11. NotLooser(o, n)
    BY <1>2, <1>8, <1>9, <1>10 DEF NotLooser
  <1> QED BY <1>11, NothingLoosened DEF o, n, row

-----------------------------------------------------------------------------
(* The cache                                                               *)

\* A statement that writes no policy leaves the cache alone.
LEMMA StatementOnCache ==
    ASSUME NEW h \in Handlers, Request(h) \/ Statement(h) \/ Dropped(h)
    PROVE  [Next]_vars
  <1>1. CASE Request(h)
    BY <1>1 DEF Request, HandleSetPolicy, HandleSetPolicyTemplate, HandleSetEndUserPolicy,
         HandleAgentCreateProposal, HandleBeginProposalApproval, HandleResolveProposal,
         HandlePolicyChangePasskeyBegin, HandlePolicyChangePasskeyFinish
  <1>2. CASE Dropped(h)
    BY <1>2 DEF Dropped
  <1>3. CASE WritePolicy(h)
    BY <1>3 DEF WritePolicy, SetPolicyRow, Next
  <1>4. CASE Invalidate(h)
    BY <1>4 DEF Invalidate, InvalidatePolicyCache, Next
  <1>5. CASE KeepUrls(h) \/ CheckLock(h) \/ RefuseLocked(h) \/ WriteFails(h)
             \/ WriteTemplate(h) \/ BeginApproval(h) \/ ApproveUnasked(h) \/ MergeProposal(h)
             \/ ResolveProposal(h) \/ ClaimPendingPolicyChange(h)
    BY <1>5 DEF KeepUrls, CheckLock, RefuseLocked, WriteFails, WriteTemplate, BeginApproval,
         ApproveUnasked, MergeProposal, ResolveProposal, ClaimPendingPolicyChange
  <1>6. CASE \/ \E c \in Changes : StageChange(h, c)
             \/ \E p \in Proposals : CreateProposal(h, p)
             \/ \E key \in People : FinishApproval(h, key)
    BY <1>6 DEF StageChange, CreateProposal, FinishApproval
  <1> QED BY <1>1, <1>2, <1>3, <1>4, <1>5, <1>6 DEF Statement

(***************************************************************************)
(* The handlers of admin.rs and app.rs use the cache as db_state.rs means  *)
(* it to be used: every behaviour of theirs is one of PolicyCache.         *)
(***************************************************************************)
THEOREM ChangesUseTheCache == ChangesSpec => Spec
  <1>1. ChangesInit => Init
    BY DEF ChangesInit
  <1>2. [ChangesNext]_allVars => [Next]_vars
    <2>1. UNCHANGED allVars => UNCHANGED vars
      BY DEF allVars
    <2>2. Reads => [Next]_vars
      BY DEF Reads, Next
    <2>3. DeleteCredential => [Next]_vars
      BY DEF DeleteCredential, Next
    <2>4. /\ DeletePolicyTemplate => [Next]_vars
          /\ (\E p \in Proposals : ProposalLapses(p)) => [Next]_vars
          /\ (\E c \in Changes : ChangeLapses(c)) => [Next]_vars
      BY DEF DeletePolicyTemplate, ProposalLapses, ChangeLapses
    <2> QED BY <2>1, <2>2, <2>3, <2>4, StatementOnCache DEF ChangesNext
  <1> QED BY <1>1, <1>2, PTL DEF ChangesSpec, Spec

(***************************************************************************)
(* However handlers that write policies and the deletion of the credential *)
(* interleave with requests, get_policy judges none by a policy that was   *)
(* replaced longer ago than the TTL and one query.                         *)
(***************************************************************************)
THEOREM AgeBesideWriters == ChangesSpec => []PolicyStalenessIsBounded
  BY ChangesUseTheCache, PolicyAgeIsBounded, PTL

-----------------------------------------------------------------------------
(* The lock                                                                *)

Kinds == {"set", "app", "template", "propose", "begin", "deny", "approve", "finish"}

(* A handler is a record with these fields and no others.                  *)
IsRecord(w) ==
    w = [kind |-> w.kind, at |-> w.at, by |-> w.by, id |-> w.id, names |-> w.names,
         row |-> w.row, read |-> w.read, seen |-> w.seen, key |-> w.key, version |-> w.version]

(* A busy handler is at one of the statements of its plan.                 *)
Placed(w) ==
    w.kind # "idle" => w.kind \in Kinds /\ w.at \in 1 .. Len(Plan(w.kind))

(* The lock has nothing against replacing old by new.                      *)
Compared(old, new) ==
    load.owner = "end_user" /\ old # NoPolicy /\ old.passkey =>
        PermissiveChanges(CurrentView(old), PolicyViewFromRow(new)) = {}

(* A handler that has compared is past everything that changes its row,    *)
(* and holds a row that the lock let replace the version it looked at.     *)
Cleared(w) ==
    w.seen # Never =>
        /\ w.seen \in 0 .. policy
        /\ (w.kind \in {"set", "app"} /\ w.at >= 3) \/ (w.kind = "approve" /\ w.at >= 4)
        /\ exists => Compared(rows[w.seen], w.row)

HandlerFacts(w) == IsRecord(w) /\ Placed(w) /\ Cleared(w)

(* Whoever wrote a version after comparing with the one before it held     *)
(* what the lock allows.                                                   *)
AuthorFacts(v) ==
    authors[v].seen = v - 1 /\ rows[v] # NoPolicy => Compared(rows[v - 1], rows[v])

LockFacts ==
    /\ policy \in 0 .. MaxVersion
    /\ load \in Loads
    /\ rows = [v \in 0 .. MaxVersion |-> rows[v]]
    /\ authors = [v \in 0 .. MaxVersion |-> authors[v]]
    /\ work = [h \in Handlers |-> work[h]]
    /\ \A h \in Handlers : HandlerFacts(work[h])
    /\ \A v \in 1 .. policy : AuthorFacts(v)

\* A handler at rest has nothing to answer for.
LEMMA RestFacts == HandlerFacts(Rest)
  BY DEF HandlerFacts, IsRecord, Placed, Cleared, Rest

\* A request begins at the first statement, having compared nothing.
LEMMA StartedFacts ==
    ASSUME NEW kind \in Kinds, NEW by, NEW id, NEW names, NEW row
    PROVE  HandlerFacts(Started(kind, by, id, names, row))
  <1>1. 1 \in 1 .. Len(Plan(kind))
    BY DEF Kinds, Plan
  <1> QED BY <1>1 DEF Started, HandlerFacts, IsRecord, Placed, Cleared

\* Where the statements that matter stand in the plans.
LEMMA StepPlaces ==
    ASSUME NEW h \in Handlers, HandlerFacts(work[h])
    PROVE  /\ Step(h) = "lock" => \/ work[h].kind \in {"set", "app"} /\ work[h].at = 2
                                  \/ work[h].kind = "approve" /\ work[h].at = 3
           /\ Step(h) \in {"urls", "merge"} => work[h].seen = Never
           /\ Step(h) # "idle" => work[h].kind # "idle"
           /\ Step(h) \in {"urls", "merge", "lock"} => work[h].at < Len(Plan(work[h].kind))
  <1> DEFINE w == work[h]
  <1>1. CASE w.kind = "idle"
    BY <1>1 DEF Step
  <1>2. CASE w.kind # "idle"
    <2>1. w.kind \in Kinds /\ w.at \in 1 .. Len(Plan(w.kind)) /\ Step(h) = Plan(w.kind)[w.at]
      BY <1>2 DEF HandlerFacts, Placed, Step
    <2>2. CASE w.kind \in {"set", "app"}
      <3>1. Plan(w.kind) = <<"urls", "lock", "write", "invalidate">>
        BY <2>2 DEF Plan
      <3> QED BY <1>2, <2>1, <2>2, <3>1 DEF HandlerFacts, Cleared
    <2>3. CASE w.kind = "template"
      <3>1. Plan(w.kind) = <<"urls", "write">>
        BY <2>3 DEF Plan
      <3>2. w.at \in {1, 2} /\ Len(Plan(w.kind)) = 2
        BY <2>1, <3>1
      <3>3. Step(h) # "lock" /\ Step(h) # "merge" /\ (Step(h) = "urls" => w.at = 1)
        BY <2>1, <3>1, <3>2
      <3>4. w.seen = Never
        BY <2>3 DEF HandlerFacts, Cleared
      <3> QED BY <1>2, <3>2, <3>3, <3>4
    <2>4. CASE w.kind = "approve"
      <3>1. Plan(w.kind) = <<"take", "merge", "lock", "write", "invalidate", "claim">>
        BY <2>4 DEF Plan
      <3>2. w.at \in {1, 2, 3, 4, 5, 6} /\ Len(Plan(w.kind)) = 6
        BY <2>1, <3>1
      <3>3. /\ Step(h) = "lock" => w.at = 3
            /\ Step(h) \in {"urls", "merge"} => w.at = 2
        BY <2>1, <3>1, <3>2
      <3>4. w.at = 2 => w.seen = Never
        BY <2>4 DEF HandlerFacts, Cleared
      <3>5. Step(h) \in {"urls", "merge", "lock"} => w.at < Len(Plan(w.kind))
        BY <3>2, <3>3
      <3> QED BY <1>2, <2>4, <3>3, <3>4, <3>5
    <2>5. CASE w.kind = "finish"
      <3>1. Plan(w.kind) = <<"take", "claim", "write", "invalidate">>
        BY <2>5 DEF Plan
      <3>2. w.at \in {1, 2, 3, 4}
        BY <2>1, <3>1
      <3>3. Step(h) \notin {"lock", "urls", "merge"}
        BY <2>1, <3>1, <3>2
      <3> QED BY <1>2, <3>3
    <2>6. CASE w.kind \in {"propose", "begin", "deny"}
      <3>1. Plan(w.kind) = <<"insert">> \/ Plan(w.kind) = <<"challenge">> \/ Plan(w.kind) = <<"claim">>
        BY <2>6 DEF Plan
      <3> QED BY <1>2, <2>1, <2>6, <3>1
    <2> QED BY <2>1, <2>2, <2>3, <2>4, <2>5, <2>6 DEF Kinds
  <1> QED BY <1>1, <1>2

\* The next statement of a handler, with any key, version or, before the
\* comparison, any row in its hands.
LEMMA OnwardFacts ==
    ASSUME NEW w, HandlerFacts(w), w.kind # "idle", NEW x
    PROVE  /\ HandlerFacts(Onward(w))
           /\ HandlerFacts([Onward(w) EXCEPT !.key = x])
           /\ HandlerFacts([Onward(w) EXCEPT !.version = x])
  <1>1. CASE w.at < Len(Plan(w.kind))
    <2>1. w.kind \in Kinds /\ w.at \in 1 .. Len(Plan(w.kind)) /\ Len(Plan(w.kind)) \in Nat
      BY DEF HandlerFacts, Placed, Kinds, Plan
    <2>2. Onward(w) = [kind |-> w.kind, at |-> w.at + 1, by |-> w.by, id |-> w.id,
                       names |-> w.names, row |-> w.row, read |-> w.read, seen |-> w.seen,
                       key |-> w.key, version |-> w.version]
      BY <1>1 DEF Onward, HandlerFacts, IsRecord
    <2>3. w.at + 1 \in 1 .. Len(Plan(w.kind))
      BY <1>1, <2>1
    <2>4. HandlerFacts(Onward(w))
      BY <2>1, <2>2, <2>3 DEF HandlerFacts, IsRecord, Placed, Cleared
    <2>5. HandlerFacts([Onward(w) EXCEPT !.key = x])
      BY <2>1, <2>2, <2>3 DEF HandlerFacts, IsRecord, Placed, Cleared
    <2>6. HandlerFacts([Onward(w) EXCEPT !.version = x])
      BY <2>1, <2>2, <2>3 DEF HandlerFacts, IsRecord, Placed, Cleared
    <2> QED BY <2>4, <2>5, <2>6
  <1>2. CASE ~(w.at < Len(Plan(w.kind)))
    <2>1. Onward(w) = Rest
      BY <1>2 DEF Onward
    <2>2. HandlerFacts(Onward(w))
      BY <2>1, RestFacts
    <2> DEFINE a == [Onward(w) EXCEPT !.key = x]
               b == [Onward(w) EXCEPT !.version = x]
    <2>3. a = [kind |-> "idle", at |-> 0, by |-> NoOne, id |-> NoOne, names |-> {},
               row |-> NoPolicy, read |-> Never, seen |-> Never, key |-> x, version |-> 0]
      BY <2>1 DEF Rest
    <2>4. b = [kind |-> "idle", at |-> 0, by |-> NoOne, id |-> NoOne, names |-> {},
               row |-> NoPolicy, read |-> Never, seen |-> Never, key |-> NoOne, version |-> x]
      BY <2>1 DEF Rest
    <2> HIDE DEF a, b
    <2>5. HandlerFacts(a) /\ HandlerFacts(b)
      BY <2>3, <2>4 DEF HandlerFacts, IsRecord, Placed, Cleared
    <2> QED BY <2>2, <2>5 DEF a, b
  <1> QED BY <1>1, <1>2

\* Before the comparison a handler may take any row and remember any read.
LEMMA MergedFacts ==
    ASSUME NEW w, HandlerFacts(w), w.kind # "idle", w.at < Len(Plan(w.kind)), w.seen = Never,
           NEW x, NEW y
    PROVE  /\ HandlerFacts([Onward(w) EXCEPT !.row = x])
           /\ HandlerFacts([Onward(w) EXCEPT !.row = x, !.read = y])
  <1>1. w.kind \in Kinds /\ w.at \in 1 .. Len(Plan(w.kind)) /\ Len(Plan(w.kind)) \in Nat
    BY DEF HandlerFacts, Placed, Kinds, Plan
  <1>2. Onward(w) = [kind |-> w.kind, at |-> w.at + 1, by |-> w.by, id |-> w.id,
                     names |-> w.names, row |-> w.row, read |-> w.read, seen |-> w.seen,
                     key |-> w.key, version |-> w.version]
    BY DEF Onward, HandlerFacts, IsRecord
  <1>3. w.at + 1 \in 1 .. Len(Plan(w.kind))
    BY <1>1
  <1> DEFINE a == [Onward(w) EXCEPT !.row = x]
             b == [a EXCEPT !.read = y]
  <1>4. a = [kind |-> w.kind, at |-> w.at + 1, by |-> w.by, id |-> w.id,
             names |-> w.names, row |-> x, read |-> w.read, seen |-> w.seen,
             key |-> w.key, version |-> w.version]
    BY <1>2
  <1> HIDE DEF a
  <1>5. b = [kind |-> w.kind, at |-> w.at + 1, by |-> w.by, id |-> w.id,
             names |-> w.names, row |-> x, read |-> y, seen |-> w.seen,
             key |-> w.key, version |-> w.version]
    BY <1>4
  <1> HIDE DEF b
  <1>6. HandlerFacts(a)
    BY <1>1, <1>3, <1>4 DEF HandlerFacts, IsRecord, Placed, Cleared
  <1>7. HandlerFacts(b)
    BY <1>1, <1>3, <1>5 DEF HandlerFacts, IsRecord, Placed, Cleared
  <1> QED BY <1>6, <1>7 DEF a, b

\* A step that replaces what one handler holds, and writes no policy.
LEMMA OneHandlerMoves ==
    ASSUME LockFacts, NEW h \in Handlers, NEW w, HandlerFacts(w),
           work' = [work EXCEPT ![h] = w],
           UNCHANGED <<policy, load, rows, authors, exists>>
    PROVE  LockFacts'
  <1>1. \A g \in Handlers : work'[g] = work[g] \/ work'[g] = w
    BY DEF LockFacts
  <1>2. \A x : HandlerFacts(x) => HandlerFacts(x)'
    BY DEF HandlerFacts, IsRecord, Placed, Cleared, Compared
  <1>3. \A v : AuthorFacts(v) => AuthorFacts(v)'
    BY DEF AuthorFacts, Compared
  <1> QED BY <1>1, <1>2, <1>3 DEF LockFacts

\* A step that leaves the handlers and the table alone.
LEMMA NoHandlerMoves ==
    ASSUME LockFacts, UNCHANGED <<policy, load, rows, authors, exists, work>>
    PROVE  LockFacts'
  BY DEF LockFacts, HandlerFacts, IsRecord, Placed, Cleared, AuthorFacts, Compared

\* A new version: the versions before it, and whoever looked at one, stay.
LEMMA NewVersion ==
    ASSUME LockFacts, policy < MaxVersion, policy' = policy + 1, UNCHANGED load,
           NEW row, rows' = [rows EXCEPT ![policy + 1] = row],
           NEW a, authors' = [authors EXCEPT ![policy + 1] = a],
           exists' => exists,
           work' = [h \in Handlers |-> work'[h]],
           \A h \in Handlers : work'[h] = work[h] \/ HandlerFacts(work'[h]),
           a.seen = policy /\ row # NoPolicy => Compared(rows[policy], row)
    PROVE  LockFacts'
  <1>1. /\ policy \in 0 .. MaxVersion /\ policy + 1 \in 0 .. MaxVersion
        /\ rows'[policy + 1] = row /\ authors'[policy + 1] = a
        /\ \A v \in 0 .. policy : rows'[v] = rows[v] /\ authors'[v] = authors[v]
    BY TimeAssumption DEF LockFacts
  <1>2. ASSUME NEW w, Cleared(w)
        PROVE  Cleared(w)'
    BY <1>1, <1>2 DEF Cleared, Compared
  <1>3. ASSUME NEW h \in Handlers
        PROVE  HandlerFacts(work[h])'
    <2>1. HandlerFacts(work'[h])
      BY DEF LockFacts
    <2> QED BY <1>2, <2>1 DEF HandlerFacts, IsRecord, Placed
  <1>4. ASSUME NEW v \in 1 .. policy'
        PROVE  AuthorFacts(v)'
    <2>1. CASE v = policy + 1
      BY <1>1, <2>1 DEF AuthorFacts, Compared
    <2>2. CASE v # policy + 1
      <3>1. v \in 1 .. policy /\ v \in 0 .. policy /\ v - 1 \in 0 .. policy
        BY <1>1, <2>2
      <3>2. AuthorFacts(v)
        BY <3>1 DEF LockFacts
      <3> QED BY <1>1, <3>1, <3>2 DEF AuthorFacts, Compared
    <2> QED BY <2>1, <2>2
  <1>5. /\ rows' = [v \in 0 .. MaxVersion |-> rows'[v]]
        /\ authors' = [v \in 0 .. MaxVersion |-> authors'[v]]
    BY DEF LockFacts
  <1> QED BY <1>1, <1>3, <1>4, <1>5 DEF LockFacts

\* The initial state has every fact: nobody has compared or written yet.
LEMMA LockInit == ChangesInit => LockFacts
  <1> SUFFICES ASSUME ChangesInit PROVE LockFacts
    OBVIOUS
  <1>1. \A h \in Handlers : HandlerFacts(work[h])
    BY RestFacts DEF ChangesInit
  <1>2. policy = 0 /\ policy \in 0 .. MaxVersion /\ load \in Loads
    BY TimeAssumption DEF ChangesInit, Init
  <1>3. /\ rows = [v \in 0 .. MaxVersion |-> rows[v]]
        /\ authors = [v \in 0 .. MaxVersion |-> authors[v]]
        /\ work = [h \in Handlers |-> work[h]]
    BY DEF ChangesInit
  <1> QED BY <1>1, <1>2, <1>3 DEF LockFacts

\* A handler that begins keeps the facts.
LEMMA BeginKeepsFacts ==
    ASSUME LockFacts, NEW h \in Handlers, NEW kind \in Kinds,
           NEW by, NEW id, NEW names, NEW row,
           Begin(h, Started(kind, by, id, names, row)), UNCHANGED <<vars, load, Tables>>
    PROVE  LockFacts'
  <1>1. UNCHANGED <<policy, load, rows, authors, exists>>
    BY DEF vars, Tables
  <1>2. work' = [work EXCEPT ![h] = Started(kind, by, id, names, row)]
    BY DEF Begin
  <1> QED BY <1>1, <1>2, StartedFacts, OneHandlerMoves

\* Taking a request keeps the facts.
LEMMA RequestKeepsFacts ==
    ASSUME LockFacts, NEW h \in Handlers, Request(h)
    PROVE  LockFacts'
  <1>0. /\ "set" \in Kinds /\ "app" \in Kinds /\ "template" \in Kinds /\ "propose" \in Kinds
        /\ "begin" \in Kinds /\ "finish" \in Kinds /\ load.decisions \subseteq Kinds
    BY LoadAssumption DEF Kinds, LockFacts
  <1>1. ASSUME NEW m, NEW req, HandleSetPolicy(h, m, req)
        PROVE  LockFacts'
    BY <1>0, <1>1, BeginKeepsFacts DEF HandleSetPolicy
  <1>2. ASSUME NEW m, NEW req, HandleSetPolicyTemplate(h, m, req)
        PROVE  LockFacts'
    BY <1>0, <1>2, BeginKeepsFacts DEF HandleSetPolicyTemplate
  <1>3. ASSUME NEW e, NEW req, HandleSetEndUserPolicy(h, e, req)
        PROVE  LockFacts'
    BY <1>0, <1>3, BeginKeepsFacts DEF HandleSetEndUserPolicy
  <1>4. ASSUME NEW payload, HandleAgentCreateProposal(h, payload)
        PROVE  LockFacts'
    BY <1>0, <1>4, BeginKeepsFacts DEF HandleAgentCreateProposal
  <1>5. ASSUME NEW m, NEW p, HandleBeginProposalApproval(h, m, p)
        PROVE  LockFacts'
    BY <1>0, <1>5, BeginKeepsFacts DEF HandleBeginProposalApproval
  <1>6. ASSUME NEW m, NEW p, NEW d \in load.decisions, HandleResolveProposal(h, m, p, d)
        PROVE  LockFacts'
    BY <1>0, <1>6, BeginKeepsFacts DEF HandleResolveProposal
  <1>7. ASSUME NEW e, NEW c, HandlePolicyChangePasskeyBegin(h, e, c)
        PROVE  LockFacts'
    BY <1>0, <1>7, BeginKeepsFacts DEF HandlePolicyChangePasskeyBegin
  <1>8. ASSUME NEW e, NEW c, HandlePolicyChangePasskeyFinish(h, e, c)
        PROVE  LockFacts'
    BY <1>0, <1>8, BeginKeepsFacts DEF HandlePolicyChangePasskeyFinish
  <1> QED BY <1>1, <1>2, <1>3, <1>4, <1>5, <1>6, <1>7, <1>8 DEF Request

\* Reads, merges and the comparison keep the facts.
LEMMA PreparingKeepsFacts ==
    ASSUME LockFacts, NEW h \in Handlers,
           KeepUrls(h) \/ CheckLock(h) \/ MergeProposal(h)
    PROVE  LockFacts'
  <1> DEFINE w == work[h]
  <1>1. HandlerFacts(w)
    BY DEF LockFacts
  <1>2. UNCHANGED <<policy, load, rows, authors, exists>>
    BY DEF KeepUrls, CheckLock, MergeProposal, vars, Tables
  <1>3. ASSUME KeepUrls(h) \/ MergeProposal(h)
        PROVE  LockFacts'
    <2>1. Step(h) \in {"urls", "merge"}
      BY <1>3 DEF KeepUrls, MergeProposal
    <2>2. w.kind # "idle" /\ w.seen = Never /\ w.at < Len(Plan(w.kind))
      BY <1>1, <2>1, StepPlaces
    <2>3. CASE work' = [work EXCEPT ![h] = Onward(w)] \/ work' = [work EXCEPT ![h] = Rest]
      BY <1>1, <1>2, <2>2, <2>3, RestFacts, OnwardFacts, OneHandlerMoves
    <2>4. ASSUME NEW x, work' = [work EXCEPT ![h] = [Onward(w) EXCEPT !.row = x]]
          PROVE  LockFacts'
      BY <1>1, <1>2, <2>2, <2>4, MergedFacts, OneHandlerMoves
    <2>5. ASSUME NEW x, NEW y,
                 work' = [work EXCEPT ![h] = [Onward(w) EXCEPT !.row = x, !.read = y]]
          PROVE  LockFacts'
      BY <1>1, <1>2, <2>2, <2>5, MergedFacts, OneHandlerMoves
    <2>6. CASE KeepUrls(h)
      BY <2>3, <2>5, <2>6 DEF KeepUrls, GoesOn
    <2>7. CASE MergeProposal(h)
      BY <2>3, <2>4, <2>5, <2>7 DEF MergeProposal, Ends
    <2> QED BY <1>3, <2>6, <2>7
  <1>4. ASSUME CheckLock(h)
        PROVE  LockFacts'
    <2>1. Step(h) = "lock" /\ ~EndUserPolicyLock(w.row)
          /\ work' = [work EXCEPT ![h] = [Onward(w) EXCEPT !.seen = policy]]
      BY <1>4 DEF CheckLock
    <2>2. /\ w.kind # "idle" /\ w.at < Len(Plan(w.kind)) /\ w.at \in Nat
          /\ (w.kind \in {"set", "app"} /\ w.at = 2) \/ (w.kind = "approve" /\ w.at = 3)
      BY <1>1, <2>1, StepPlaces
    <2> DEFINE a == [Onward(w) EXCEPT !.seen = policy]
    <2>0. Onward(w) = [kind |-> w.kind, at |-> w.at + 1, by |-> w.by, id |-> w.id,
                       names |-> w.names, row |-> w.row, read |-> w.read, seen |-> w.seen,
                       key |-> w.key, version |-> w.version]
      BY <1>1, <2>2 DEF Onward, HandlerFacts, IsRecord
    <2>3. a = [kind |-> w.kind, at |-> w.at + 1, by |-> w.by, id |-> w.id,
               names |-> w.names, row |-> w.row, read |-> w.read, seen |-> policy,
               key |-> w.key, version |-> w.version]
      BY <2>0
    <2> HIDE DEF a
    <2>4. exists => Compared(rows[policy], w.row)
      BY <2>1 DEF EndUserPolicyLock, Compared, Current
    <2>5. w.kind \in Kinds /\ Len(Plan(w.kind)) \in Nat
      BY <1>1, <2>2 DEF HandlerFacts, Placed, Kinds, Plan
    <2>6. w.at + 1 \in 1 .. Len(Plan(w.kind)) /\ policy \in 0 .. policy
      BY <2>2, <2>5, TimeAssumption DEF LockFacts
    <2>7. HandlerFacts(a)
      BY <2>2, <2>3, <2>4, <2>5, <2>6 DEF HandlerFacts, IsRecord, Placed, Cleared
    <2>8. work' = [work EXCEPT ![h] = a]
      BY <2>1 DEF a
    <2> QED BY <1>2, <2>7, <2>8, OneHandlerMoves
  <1> QED BY <1>3, <1>4

\* Statements that neither write a policy nor touch the row in hand.
LEMMA PassingKeepsFacts ==
    ASSUME LockFacts, NEW h \in Handlers,
           \/ RefuseLocked(h) \/ WriteFails(h) \/ WriteTemplate(h) \/ Invalidate(h)
           \/ BeginApproval(h) \/ ResolveProposal(h) \/ ClaimPendingPolicyChange(h) \/ Dropped(h)
           \/ ApproveUnasked(h)
           \/ \E c \in Changes : StageChange(h, c)
           \/ \E p \in Proposals : CreateProposal(h, p)
           \/ \E key \in People : FinishApproval(h, key)
    PROVE  LockFacts'
  <1> DEFINE w == work[h]
  <1>1. UNCHANGED <<policy, load, rows, authors, exists>>
    BY DEF RefuseLocked, WriteFails, WriteTemplate, Invalidate, InvalidatePolicyCache,
         BeginApproval, ResolveProposal, ClaimPendingPolicyChange, Dropped, StageChange,
         CreateProposal, FinishApproval, ApproveUnasked, vars, Tables
  <1>2. HandlerFacts(w)
    BY DEF LockFacts
  <1>3. Step(h) # "idle"
    BY DEF RefuseLocked, WriteFails, WriteTemplate, Invalidate, BeginApproval, ResolveProposal,
         ClaimPendingPolicyChange, Dropped, StageChange, CreateProposal, FinishApproval,
         ApproveUnasked
  <1>4. w.kind # "idle"
    BY <1>2, <1>3, StepPlaces
  <1>5. CASE work' = [work EXCEPT ![h] = Rest] \/ work' = [work EXCEPT ![h] = Onward(w)]
    BY <1>1, <1>2, <1>4, <1>5, RestFacts, OnwardFacts, OneHandlerMoves
  <1>6. ASSUME NEW key, work' = [work EXCEPT ![h] = [Onward(w) EXCEPT !.key = key]]
        PROVE  LockFacts'
    BY <1>1, <1>2, <1>4, <1>6, OnwardFacts, OneHandlerMoves
  <1>7. ASSUME NEW key, FinishApproval(h, key)
        PROVE  LockFacts'
    BY <1>5, <1>6, <1>7 DEF FinishApproval, Ends
  <1>8. CASE \/ RefuseLocked(h) \/ WriteFails(h) \/ WriteTemplate(h) \/ Invalidate(h)
             \/ BeginApproval(h) \/ ResolveProposal(h) \/ ClaimPendingPolicyChange(h)
             \/ Dropped(h) \/ ApproveUnasked(h)
    BY <1>5, <1>8 DEF RefuseLocked, WriteFails, WriteTemplate, Invalidate, BeginApproval,
         ResolveProposal, ClaimPendingPolicyChange, Dropped, ApproveUnasked,
         GoesOn, Ends
  <1>9. CASE \/ \E c \in Changes : StageChange(h, c)
             \/ \E p \in Proposals : CreateProposal(h, p)
    BY <1>5, <1>9 DEF StageChange, CreateProposal, Ends
  <1> QED BY <1>7, <1>8, <1>9

\* set_policy keeps the facts: a handler that compared with the version it
\* replaces holds a row the lock had nothing against.
LEMMA WriteKeepsFacts ==
    ASSUME LockFacts, NEW h \in Handlers, WritePolicy(h)
    PROVE  LockFacts'
  <1> DEFINE w == work[h]
             a == [Onward(w) EXCEPT !.version = policy + 1]
  <1>1. /\ Step(h) # "idle" /\ exists /\ exists' = exists /\ UNCHANGED load
        /\ policy < MaxVersion /\ policy' = policy + 1
        /\ rows' = [rows EXCEPT ![policy + 1] = w.row]
        /\ authors' = [authors EXCEPT ![policy + 1] = w]
        /\ work' = [work EXCEPT ![h] = a]
    BY DEF WritePolicy, SetPolicyRow, SetPolicy
  <1>2. HandlerFacts(w)
    BY DEF LockFacts
  <1>3. HandlerFacts(a)
    BY <1>1, <1>2, StepPlaces, OnwardFacts
  <1> HIDE DEF a
  <1>4. /\ work' = [g \in Handlers |-> work'[g]]
        /\ \A g \in Handlers : work'[g] = work[g] \/ HandlerFacts(work'[g])
    BY <1>1, <1>3 DEF LockFacts
  <1>5. policy # Never
    BY TimeAssumption, MarkAssumption DEF LockFacts
  <1>6. w.seen = policy => Compared(rows[policy], w.row)
    BY <1>1, <1>2, <1>5 DEF HandlerFacts, Cleared
  <1> QED BY <1>1, <1>4, <1>6, NewVersion

\* Deleting the credential keeps the facts: nothing is written after it.
LEMMA DeleteKeepsFacts ==
    ASSUME LockFacts, DeleteCredential
    PROVE  LockFacts'
  <1>1. /\ policy < MaxVersion /\ policy' = policy + 1 /\ UNCHANGED load
        /\ rows' = [rows EXCEPT ![policy + 1] = NoPolicy]
        /\ authors' = authors /\ work' = work /\ exists' = FALSE
    BY DEF DeleteCredential, SetPolicy
  <1>2. authors' = [authors EXCEPT ![policy + 1] = authors[policy + 1]]
    BY <1>1 DEF LockFacts
  <1>3. work' = [h \in Handlers |-> work'[h]]
    BY <1>1 DEF LockFacts
  <1> QED BY <1>1, <1>2, <1>3, NewVersion

\* The facts hold in every reachable state.
THEOREM LockFactsHold == ChangesSpec => []LockFacts
  <1>1. LockFacts /\ UNCHANGED allVars => LockFacts'
    BY NoHandlerMoves DEF allVars, changeVars, vars
  <1>2. LockFacts /\ Reads => LockFacts'
    <2>1. Reads => UNCHANGED policy
      BY DEF Reads, Read, GetPolicy, QueryPolicy, StorePolicy, QueryTimesOut, Tick
    <2>2. Reads => UNCHANGED <<load, rows, authors, exists, work>>
      BY DEF Reads, changeVars
    <2> QED BY <2>1, <2>2, NoHandlerMoves
  <1>3. /\ LockFacts /\ DeletePolicyTemplate => LockFacts'
        /\ \A p \in Proposals : LockFacts /\ ProposalLapses(p) => LockFacts'
        /\ \A c \in Changes : LockFacts /\ ChangeLapses(c) => LockFacts'
    BY NoHandlerMoves DEF DeletePolicyTemplate, ProposalLapses, ChangeLapses, vars
  <1>4. \A h \in Handlers : LockFacts /\ Statement(h) => LockFacts'
    BY PreparingKeepsFacts, PassingKeepsFacts, WriteKeepsFacts DEF Statement
  <1>5. \A h \in Handlers : LockFacts /\ Dropped(h) => LockFacts'
    BY PassingKeepsFacts
  <1>6. LockFacts /\ [ChangesNext]_allVars => LockFacts'
    BY <1>1, <1>2, <1>3, <1>4, <1>5, RequestKeepsFacts, DeleteKeepsFacts DEF ChangesNext
  <1> QED BY <1>6, LockInit, PTL DEF ChangesSpec

(***************************************************************************)
(* The passkey lock of end_user_policy_lock holds, for any handlers,       *)
(* people and requests: a version that is looser than a passkey-gated one  *)
(* before it was approved by the end-user, or its writer had compared it   *)
(* with another version than the one it replaced.                          *)
(***************************************************************************)
THEOREM PasskeyLockHolds ==
    ASSUME ViewsAreRows
    PROVE  ChangesSpec => []LockHolds
  <1>1. LockFacts => LockHolds
    <2> SUFFICES ASSUME LockFacts, NEW v \in 1 .. policy, authors[v].seen = v - 1,
                        load.owner = "end_user", rows[v] # NoPolicy, rows[v - 1] # NoPolicy,
                        rows[v - 1].passkey
                 PROVE  ~Looser(rows[v - 1], rows[v], Methods, load.urls, People \cup Strangers)
      BY DEF LockHolds
    <2>1. Compared(rows[v - 1], rows[v])
      BY DEF LockFacts, AuthorFacts
    <2>2. PermissiveChanges(CurrentView(rows[v - 1]), PolicyViewFromRow(rows[v])) = {}
      BY <2>1 DEF Compared
    <2> QED BY <2>2, LooseningIsReported
  <1> QED BY <1>1, LockFactsHold, PTL

-----------------------------------------------------------------------------
(* What is applied was asked for, by whom it concerns                      *)

(* Whose passkey is asked: the end-user's always, the manager's where      *)
(* WebAuthn is configured.                                                 *)
NeedsKey(kind) == kind = "finish" \/ (kind = "approve" /\ load.webauthn)

(* A row of the two tables has these fields and no others.                 *)
IsProposal(r) ==
    r = [status |-> r.status, payload |-> r.payload, by |-> r.by, lapsed |-> r.lapsed]

IsChange(r) ==
    r = [status |-> r.status, row |-> r.row, endUser |-> r.endUser, lapsed |-> r.lapsed]

(* The policy of a proposal has been written.                              *)
WrittenFor(p) == \E v \in 1 .. policy : authors[v].kind = "approve" /\ authors[v].id = p

(* What a handler has earned by the statement it is at.  Past the taking   *)
(* of the challenge it holds a passkey of its own person; one that finishes *)
(* a staged change holds it as it was staged, and past the claim nobody    *)
(* else can claim it; one that has written a proposal has left a version.  *)
Earned(w) ==
    /\ NeedsKey(w.kind) /\ w.at >= 2 => w.key = w.by
    /\ w.kind = "finish" =>
           /\ w.id \in Changes /\ changes[w.id].status # "none"
           /\ w.by = changes[w.id].endUser /\ w.row = changes[w.id].row
           /\ w.at >= 3 => changes[w.id].status = "applied"
    /\ w.kind \in {"approve", "deny"} => w.id \in Proposals
    /\ w.kind = "approve" /\ w.at >= 5 => WrittenFor(w.id)

(* The claim is won and the policy not yet written.                        *)
AtWrite(w) == w.kind = "finish" /\ w.at = 3

(* What the author of a version held when it wrote it.                     *)
AuthorEarned(v) ==
    /\ NeedsKey(authors[v].kind) => authors[v].key = authors[v].by
    /\ authors[v].kind = "finish" =>
           /\ authors[v].id \in Changes /\ changes[authors[v].id].status = "applied"
           /\ authors[v].by = changes[authors[v].id].endUser
           /\ rows[v] = changes[authors[v].id].row

(* Of a claimed change there is one writer, now or before.                 *)
OneWriter ==
    /\ \A g, h \in Handlers :
           AtWrite(work[g]) /\ AtWrite(work[h]) /\ work[g].id = work[h].id => g = h
    /\ \A g \in Handlers, v \in 1 .. policy :
           AtWrite(work[g]) /\ authors[v].kind = "finish" => work[g].id # authors[v].id
    /\ \A v, w \in 1 .. policy :
           authors[v].kind = "finish" /\ authors[w].kind = "finish"
               /\ authors[v].id = authors[w].id => v = w

EarnedFacts ==
    /\ proposals = [p \in Proposals |-> proposals[p]]
    /\ changes = [c \in Changes |-> changes[c]]
    /\ \A p \in Proposals : IsProposal(proposals[p])
    /\ \A c \in Changes : IsChange(changes[c])
    /\ \A h \in Handlers : Earned(work[h])
    /\ \A v \in 1 .. policy : AuthorEarned(v)
    /\ \A v \in policy + 1 .. MaxVersion : authors[v].kind = "idle"
    /\ OneWriter
    /\ \A p \in Proposals : proposals[p].status = "approved" => WrittenFor(p)

(* The next statement of the same handler, with this passkey in hand and   *)
(* the change it finishes as it was.                                       *)
Keyed(w, key, o) ==
    \/ o.kind = "idle"
    \/ /\ o.kind = w.kind /\ o.at = w.at + 1 /\ o.by = w.by /\ o.id = w.id
       /\ o.key = key
       /\ w.kind = "finish" => o.row = w.row

\* What moving on leaves in a handler's hands.
LEMMA OnwardFields ==
    ASSUME NEW w, HandlerFacts(w), w.kind # "idle", NEW x, NEW y
    PROVE  /\ Keyed(w, w.key, Onward(w))
           /\ Keyed(w, w.key, [Onward(w) EXCEPT !.version = x])
           /\ Keyed(w, w.key, [Onward(w) EXCEPT !.seen = x])
           /\ Keyed(w, x, [Onward(w) EXCEPT !.key = x])
           /\ w.kind # "finish" => /\ Keyed(w, w.key, [Onward(w) EXCEPT !.row = x])
                                  /\ Keyed(w, w.key, [Onward(w) EXCEPT !.row = x, !.read = y])
  <1>1. CASE w.at < Len(Plan(w.kind))
    <2>1. Onward(w) = [kind |-> w.kind, at |-> w.at + 1, by |-> w.by, id |-> w.id,
                       names |-> w.names, row |-> w.row, read |-> w.read, seen |-> w.seen,
                       key |-> w.key, version |-> w.version]
      BY <1>1 DEF Onward, HandlerFacts, IsRecord
    <2>2. /\ Keyed(w, w.key, Onward(w))
          /\ Keyed(w, w.key, [Onward(w) EXCEPT !.version = x])
          /\ Keyed(w, w.key, [Onward(w) EXCEPT !.seen = x])
      BY <2>1 DEF Keyed
    <2>3. /\ Keyed(w, x, [Onward(w) EXCEPT !.key = x])
          /\ w.kind # "finish" => Keyed(w, w.key, [Onward(w) EXCEPT !.row = x])
      BY <2>1 DEF Keyed
    <2>4. w.kind # "finish" => Keyed(w, w.key, [Onward(w) EXCEPT !.row = x, !.read = y])
      BY <2>1 DEF Keyed
    <2> QED BY <2>2, <2>3, <2>4
  <1>2. CASE ~(w.at < Len(Plan(w.kind)))
    <2>1. Onward(w) = Rest
      BY <1>2 DEF Onward
    <2> QED BY <2>1 DEF Rest, Keyed
  <1> QED BY <1>1, <1>2

\* Which handlers come to which statements.
LEMMA EarnedPlaces ==
    ASSUME NEW h \in Handlers, HandlerFacts(work[h])
    PROVE  /\ Step(h) # "idle" => work[h].kind # "idle"
           /\ Step(h) = "urls" => work[h].kind \in {"set", "app", "template"}
           /\ Step(h) = "lock" => work[h].kind \in {"set", "app"}
                                  \/ (work[h].kind = "approve" /\ work[h].at = 3)
           /\ Step(h) = "write" => \/ work[h].kind \in {"set", "app", "template"}
                                   \/ work[h].kind = "approve" /\ work[h].at = 4
                                   \/ work[h].kind = "finish" /\ work[h].at = 3
           /\ Step(h) = "take" => work[h].kind \in {"approve", "finish"} /\ work[h].at = 1
           /\ Step(h) = "merge" => work[h].kind = "approve" /\ work[h].at = 2
           /\ Step(h) = "claim" => \/ work[h].kind = "deny" /\ work[h].at = 1
                                   \/ work[h].kind = "approve" /\ work[h].at = 6
                                   \/ work[h].kind = "finish" /\ work[h].at = 2
           /\ Step(h) = "insert" => work[h].kind = "propose"
           /\ Step(h) = "challenge" => work[h].kind = "begin"
           /\ Step(h) = "invalidate" => \/ work[h].kind \in {"set", "app"}
                                        \/ work[h].kind = "approve" /\ work[h].at = 5
                                        \/ work[h].kind = "finish" /\ work[h].at = 4
  <1> DEFINE w == work[h]
  <1>1. CASE w.kind = "idle"
    BY <1>1 DEF Step
  <1>2. CASE w.kind # "idle"
    <2>1. w.kind \in Kinds /\ w.at \in 1 .. Len(Plan(w.kind)) /\ Step(h) = Plan(w.kind)[w.at]
      BY <1>2 DEF HandlerFacts, Placed, Step
    <2>2. CASE w.kind \in {"set", "app"}
      <3>1. Plan(w.kind) = <<"urls", "lock", "write", "invalidate">>
        BY <2>2 DEF Plan
      <3>2. w.at \in {1, 2, 3, 4}
        BY <2>1, <3>1
      <3>3. Step(h) \in {"urls", "lock", "write", "invalidate"}
        BY <2>1, <3>1, <3>2
      <3> QED BY <1>2, <2>2, <3>3
    <2>3. CASE w.kind = "template"
      <3>1. Plan(w.kind) = <<"urls", "write">>
        BY <2>3 DEF Plan
      <3>2. w.at \in {1, 2}
        BY <2>1, <3>1
      <3>3. Step(h) \in {"urls", "write"}
        BY <2>1, <3>1, <3>2
      <3> QED BY <1>2, <2>3, <3>3
    <2>4. CASE w.kind = "approve"
      <3>1. Plan(w.kind) = <<"take", "merge", "lock", "write", "invalidate", "claim">>
        BY <2>4 DEF Plan
      <3>2. w.at \in {1, 2, 3, 4, 5, 6}
        BY <2>1, <3>1
      <3>3. \/ w.at = 1 /\ Step(h) = "take"
            \/ w.at = 2 /\ Step(h) = "merge"
            \/ w.at = 3 /\ Step(h) = "lock"
            \/ w.at = 4 /\ Step(h) = "write"
            \/ w.at = 5 /\ Step(h) = "invalidate"
            \/ w.at = 6 /\ Step(h) = "claim"
        BY <2>1, <3>1, <3>2
      <3> QED BY <1>2, <2>4, <3>3
    <2>5. CASE w.kind = "finish"
      <3>1. Plan(w.kind) = <<"take", "claim", "write", "invalidate">>
        BY <2>5 DEF Plan
      <3>2. w.at \in {1, 2, 3, 4}
        BY <2>1, <3>1
      <3>3. \/ w.at = 1 /\ Step(h) = "take"
            \/ w.at = 2 /\ Step(h) = "claim"
            \/ w.at = 3 /\ Step(h) = "write"
            \/ w.at = 4 /\ Step(h) = "invalidate"
        BY <2>1, <3>1, <3>2
      <3> QED BY <1>2, <2>5, <3>3
    <2>6. CASE w.kind \in {"propose", "begin", "deny"}
      <3>1. \/ w.kind = "propose" /\ Plan(w.kind) = <<"insert">>
            \/ w.kind = "begin" /\ Plan(w.kind) = <<"challenge">>
            \/ w.kind = "deny" /\ Plan(w.kind) = <<"claim">>
        BY <2>6 DEF Plan
      <3>2. w.at = 1
        BY <2>1, <3>1
      <3>3. \/ w.kind = "propose" /\ Step(h) = "insert"
            \/ w.kind = "begin" /\ Step(h) = "challenge"
            \/ w.kind = "deny" /\ Step(h) = "claim"
        BY <2>1, <3>1, <3>2
      <3> QED BY <1>2, <3>2, <3>3
    <2> QED BY <2>1, <2>2, <2>3, <2>4, <2>5, <2>6 DEF Kinds
  <1> QED BY <1>1, <1>2

\* A statement that changes only what one handler holds.
LEMMA OneEarns ==
    ASSUME LockFacts, EarnedFacts, NEW h \in Handlers, NEW x, Earned(x), ~AtWrite(x),
           work' = [work EXCEPT ![h] = x],
           UNCHANGED <<policy, load, rows, authors, proposals, changes>>
    PROVE  EarnedFacts'
  <1>1. /\ \A g \in Handlers : work'[g] = work[g] \/ work'[g] = x
        /\ \A g \in Handlers : AtWrite(work'[g]) => work'[g] = work[g]
    BY DEF LockFacts
  <1>2. \A g \in Handlers : Earned(work[g])'
    BY <1>1 DEF EarnedFacts, Earned, NeedsKey, WrittenFor
  <1>3. OneWriter'
    BY <1>1 DEF EarnedFacts, OneWriter, AtWrite
  <1>4. \A v : AuthorEarned(v) => AuthorEarned(v)'
    BY DEF AuthorEarned, NeedsKey
  <1>5. \A p : WrittenFor(p) => WrittenFor(p)'
    BY DEF WrittenFor
  <1> QED BY <1>2, <1>3, <1>4, <1>5 DEF EarnedFacts, IsProposal, IsChange

\* A handler that ends, or is idle anyway, has nothing to show.
LEMMA IdleEarns ==
    ASSUME NEW x, x.kind \notin {"approve", "finish", "deny"}
    PROVE  Earned(x) /\ ~AtWrite(x)
  BY DEF Earned, NeedsKey, AtWrite

\* A handler that begins.
LEMMA BeginEarns ==
    ASSUME LockFacts, EarnedFacts, NEW h \in Handlers,
           NEW kind, NEW by, NEW id, NEW names, NEW row,
           Begin(h, Started(kind, by, id, names, row)), UNCHANGED <<vars, load, Tables>>,
           kind \in {"approve", "deny"} => id \in Proposals,
           kind = "finish" => /\ id \in Changes /\ changes[id].status # "none"
                              /\ by = changes[id].endUser /\ row = changes[id].row
    PROVE  EarnedFacts'
  <1>1. UNCHANGED <<policy, load, rows, authors, proposals, changes>>
    BY DEF vars, Tables
  <1>2. PICK x : x = Started(kind, by, id, names, row)
    OBVIOUS
  <1>3. x.kind = kind /\ x.at = 1 /\ x.id = id /\ x.by = by /\ x.row = row
    BY <1>2 DEF Started
  <1>4. Earned(x) /\ ~AtWrite(x)
    BY <1>3 DEF Earned, NeedsKey, AtWrite
  <1>5. work' = [work EXCEPT ![h] = x]
    BY <1>2 DEF Begin
  <1> QED BY <1>1, <1>4, <1>5, OneEarns

\* Taking a request.
LEMMA RequestEarns ==
    ASSUME LockFacts, EarnedFacts, NEW h \in Handlers, Request(h)
    PROVE  EarnedFacts'
  <1>0. load.decisions \subseteq {"approve", "deny"}
    BY LoadAssumption DEF LockFacts
  <1>1. ASSUME NEW m, NEW req, HandleSetPolicy(h, m, req) \/ HandleSetPolicyTemplate(h, m, req)
        PROVE  EarnedFacts'
    BY <1>1, BeginEarns DEF HandleSetPolicy, HandleSetPolicyTemplate
  <1>2. ASSUME NEW e, NEW req, HandleSetEndUserPolicy(h, e, req)
        PROVE  EarnedFacts'
    BY <1>2, BeginEarns DEF HandleSetEndUserPolicy
  <1>3. ASSUME NEW payload, HandleAgentCreateProposal(h, payload)
        PROVE  EarnedFacts'
    BY <1>3, BeginEarns DEF HandleAgentCreateProposal
  <1>4. ASSUME NEW m, NEW p, HandleBeginProposalApproval(h, m, p) \/ HandlePolicyChangePasskeyBegin(h, m, p)
        PROVE  EarnedFacts'
    BY <1>4, BeginEarns DEF HandleBeginProposalApproval, HandlePolicyChangePasskeyBegin
  <1>5. ASSUME NEW m, NEW p \in Proposals, NEW d \in load.decisions, HandleResolveProposal(h, m, p, d)
        PROVE  EarnedFacts'
    <2>1. d # "finish"
      BY <1>0
    <2> QED BY <1>5, <2>1, BeginEarns DEF HandleResolveProposal
  <1>6. ASSUME NEW e, NEW c \in Changes, HandlePolicyChangePasskeyFinish(h, e, c)
        PROVE  EarnedFacts'
    BY <1>6, BeginEarns DEF HandlePolicyChangePasskeyFinish
  <1> QED BY <1>1, <1>2, <1>3, <1>4, <1>5, <1>6 DEF Request

\* Statements that leave the tables of the proposals, the changes and the
\* policies alone.
LEMMA PassingEarns ==
    ASSUME LockFacts, EarnedFacts, NEW h \in Handlers,
           \/ KeepUrls(h) \/ CheckLock(h) \/ RefuseLocked(h) \/ WriteFails(h) \/ WriteTemplate(h)
           \/ Invalidate(h) \/ BeginApproval(h) \/ MergeProposal(h) \/ Dropped(h)
           \/ ApproveUnasked(h)
           \/ \E key \in People : FinishApproval(h, key)
    PROVE  EarnedFacts'
  <1>0. PICK w : w = work[h]
    OBVIOUS
  <1>1. HandlerFacts(w) /\ Earned(w)
    BY <1>0 DEF LockFacts, EarnedFacts
  <1>2. UNCHANGED <<policy, load, rows, authors, proposals, changes>>
    BY DEF KeepUrls, CheckLock, RefuseLocked, WriteFails, WriteTemplate, Invalidate,
         InvalidatePolicyCache, BeginApproval, ApproveUnasked, MergeProposal, Dropped, FinishApproval, vars, Tables
  <1>3. Step(h) # "idle" /\ w.kind # "idle"
    <2>1. Step(h) # "idle"
      BY DEF KeepUrls, CheckLock, RefuseLocked, WriteFails, WriteTemplate, Invalidate,
           BeginApproval, ApproveUnasked, MergeProposal, Dropped, FinishApproval
    <2> QED BY <1>0, <1>1, <2>1, EarnedPlaces
  <1>4. ASSUME NEW x, work' = [work EXCEPT ![h] = x], Earned(x), ~AtWrite(x)
        PROVE  EarnedFacts'
    BY <1>2, <1>4, OneEarns
  <1>5. Ends(h) => EarnedFacts'
    <2>1. Earned(Rest) /\ ~AtWrite(Rest)
      BY IdleEarns DEF Rest
    <2> QED BY <1>4, <2>1 DEF Ends
  <1>6. w.at \in Nat
    BY <1>1, <1>3 DEF HandlerFacts, Placed
  <1>7. ASSUME KeepUrls(h)
        PROVE  EarnedFacts'
    <2>1. w.kind \in {"set", "app", "template"}
      BY <1>0, <1>1, <1>7, EarnedPlaces DEF KeepUrls
    <2>2. \/ work' = [work EXCEPT ![h] = Onward(w)]
          \/ \E x, y : work' = [work EXCEPT ![h] = [Onward(w) EXCEPT !.row = x, !.read = y]]
      BY <1>0, <1>7 DEF KeepUrls, GoesOn
    <2>3. ASSUME NEW o, work' = [work EXCEPT ![h] = o], Keyed(w, w.key, o)
          PROVE  EarnedFacts'
      <3>1. o.kind \notin {"approve", "finish", "deny"}
        BY <2>1, <2>3 DEF Keyed
      <3> QED BY <1>4, <2>3, <3>1, IdleEarns
    <2> QED BY <1>1, <1>3, <2>1, <2>2, <2>3, OnwardFields
  <1>8. ASSUME CheckLock(h)
        PROVE  EarnedFacts'
    <2>1. w.kind \in {"set", "app"} \/ (w.kind = "approve" /\ w.at = 3)
      BY <1>0, <1>1, <1>8, EarnedPlaces DEF CheckLock
    <2>2. PICK o : work' = [work EXCEPT ![h] = o] /\ o = [Onward(w) EXCEPT !.seen = policy]
      BY <1>0, <1>8 DEF CheckLock
    <2>3. Keyed(w, w.key, o)
      BY <1>1, <1>3, <2>2, OnwardFields
    <2>4. Earned(o) /\ ~AtWrite(o)
      BY <1>1, <1>6, <2>1, <2>3 DEF Earned, NeedsKey, Keyed, AtWrite
    <2> QED BY <1>4, <2>2, <2>4
  <1>9. ASSUME MergeProposal(h)
        PROVE  EarnedFacts'
    <2>1. w.kind = "approve" /\ w.at = 2
      BY <1>0, <1>1, <1>9, EarnedPlaces DEF MergeProposal
    <2>2. CASE Ends(h)
      BY <1>5, <2>2
    <2>3. ASSUME NEW o, work' = [work EXCEPT ![h] = o], Keyed(w, w.key, o)
          PROVE  EarnedFacts'
      <3>1. Earned(o) /\ ~AtWrite(o)
        BY <1>1, <2>1, <2>3 DEF Earned, NeedsKey, Keyed, AtWrite
      <3> QED BY <1>4, <2>3, <3>1
    <2>4. \/ Ends(h)
          \/ \E x : work' = [work EXCEPT ![h] = [Onward(w) EXCEPT !.row = x]]
          \/ \E x, y : work' = [work EXCEPT ![h] = [Onward(w) EXCEPT !.row = x, !.read = y]]
      BY <1>0, <1>9 DEF MergeProposal
    <2> QED BY <1>1, <1>3, <2>1, <2>2, <2>3, <2>4, OnwardFields
  <1>10. ASSUME Invalidate(h)
         PROVE  EarnedFacts'
    <2>1. \/ w.kind \in {"set", "app"}
          \/ w.kind = "approve" /\ w.at = 5
          \/ w.kind = "finish" /\ w.at = 4
      BY <1>0, <1>1, <1>10, EarnedPlaces DEF Invalidate
    <2>2. PICK o : work' = [work EXCEPT ![h] = o] /\ o = Onward(w)
      BY <1>0, <1>10 DEF Invalidate, GoesOn
    <2>3. Keyed(w, w.key, o)
      BY <1>1, <1>3, <2>2, OnwardFields
    <2>4. Earned(o) /\ ~AtWrite(o)
      BY <1>1, <1>6, <2>1, <2>3 DEF Earned, NeedsKey, Keyed, AtWrite
    <2> QED BY <1>4, <2>2, <2>4
  <1>11. ASSUME NEW key, FinishApproval(h, key)
         PROVE  EarnedFacts'
    <2>1. w.kind \in {"approve", "finish"} /\ w.at = 1
      BY <1>0, <1>1, <1>11, EarnedPlaces DEF FinishApproval
    <2>2. CASE Ends(h)
      BY <1>5, <2>2
    <2>3. CASE ~Ends(h)
      <3>1. PICK o : work' = [work EXCEPT ![h] = o] /\ o = [Onward(w) EXCEPT !.key = key]
        BY <1>0, <1>11, <2>3 DEF FinishApproval
      <3>2. key = w.by
        BY <1>0, <1>11, <2>3 DEF FinishApproval, PasskeysOf
      <3>3. Keyed(w, key, o)
        BY <1>1, <1>3, <3>1, OnwardFields
      <3>4. Earned(o) /\ ~AtWrite(o)
        BY <1>1, <2>1, <3>2, <3>3 DEF Earned, NeedsKey, Keyed, AtWrite
      <3> QED BY <1>4, <3>1, <3>4
    <2> QED BY <2>2, <2>3
  <1>12. ASSUME ApproveUnasked(h)
         PROVE  EarnedFacts'
    <2>1. w.kind = "approve" /\ w.at = 1 /\ ~load.webauthn
      BY <1>0, <1>1, <1>12, EarnedPlaces DEF ApproveUnasked
    <2>2. PICK o : work' = [work EXCEPT ![h] = o] /\ o = Onward(w)
      BY <1>0, <1>12 DEF ApproveUnasked, GoesOn
    <2>3. Keyed(w, w.key, o)
      BY <1>1, <1>3, <2>2, OnwardFields
    <2>4. Earned(o) /\ ~AtWrite(o)
      BY <1>1, <2>1, <2>3 DEF Earned, NeedsKey, Keyed, AtWrite
    <2> QED BY <1>4, <2>2, <2>4
  <1>13. CASE RefuseLocked(h) \/ WriteFails(h) \/ WriteTemplate(h) \/ BeginApproval(h) \/ Dropped(h)
    BY <1>5, <1>13 DEF RefuseLocked, WriteFails, WriteTemplate, BeginApproval, Dropped
  <1> QED BY <1>7, <1>8, <1>9, <1>10, <1>11, <1>12, <1>13

\* Rows of the two tables that are created, or lapse, or are denied: what a
\* handler and an author hold of a change stays.
LEMMA TablesMove ==
    ASSUME LockFacts, EarnedFacts, UNCHANGED <<policy, load, rows, authors>>,
           work' = [g \in Handlers |-> work'[g]],
           \A g \in Handlers : work'[g] = work[g] \/ work'[g].kind \notin {"approve", "finish", "deny"},
           proposals' = [p \in Proposals |-> proposals'[p]],
           changes' = [c \in Changes |-> changes'[c]],
           \A p \in Proposals : IsProposal(proposals'[p]),
           \A c \in Changes : IsChange(changes'[c]),
           \A p \in Proposals : proposals'[p].status = "approved" =>
               proposals[p].status = "approved" \/ WrittenFor(p),
           \A c \in Changes : changes[c].status # "none" =>
               /\ changes'[c].status = changes[c].status
               /\ changes'[c].row = changes[c].row /\ changes'[c].endUser = changes[c].endUser
    PROVE  EarnedFacts'
  <1>1. \A g \in Handlers : AtWrite(work'[g]) => work'[g] = work[g]
    BY DEF AtWrite
  <1>2. \A w : Earned(w) => Earned(w)'
    BY DEF Earned, NeedsKey, WrittenFor
  <1>3. \A g \in Handlers : Earned(work'[g])
    BY IdleEarns DEF EarnedFacts
  <1>4. \A g \in Handlers : Earned(work[g])'
    <2> SUFFICES ASSUME NEW g \in Handlers PROVE Earned(work[g])'
      OBVIOUS
    <2>1. PICK w : w = work'[g]
      OBVIOUS
    <2>2. Earned(w) /\ (Earned(w) => Earned(w)')
      BY <1>2, <1>3, <2>1
    <2> QED BY <2>1, <2>2 DEF Earned, NeedsKey, WrittenFor
  <1>5. OneWriter'
    BY <1>1 DEF EarnedFacts, OneWriter, AtWrite
  <1>6. \A v \in 1 .. policy : AuthorEarned(v)'
    BY DEF EarnedFacts, AuthorEarned, NeedsKey
  <1>7. \A p \in Proposals : proposals'[p].status = "approved" => WrittenFor(p)
    BY DEF EarnedFacts
  <1>8. \A p \in Proposals : proposals'[p].status = "approved" => WrittenFor(p)'
    BY <1>7 DEF WrittenFor
  <1> QED BY <1>4, <1>5, <1>6, <1>8 DEF EarnedFacts, IsProposal, IsChange

\* A change is staged, a proposal made, denied or approved, or a row lapses.
LEMMA RowEarns ==
    ASSUME LockFacts, EarnedFacts,
           \/ \E h \in Handlers, c \in Changes : StageChange(h, c)
           \/ \E h \in Handlers, p \in Proposals : CreateProposal(h, p)
           \/ \E h \in Handlers : ResolveProposal(h)
           \/ \E p \in Proposals : ProposalLapses(p)
           \/ \E c \in Changes : ChangeLapses(c)
    PROVE  EarnedFacts'
  <1>1. UNCHANGED <<policy, load, rows, authors>>
    BY DEF StageChange, CreateProposal, ResolveProposal, ProposalLapses, ChangeLapses, vars
  <1>2. /\ work = [g \in Handlers |-> work[g]] /\ proposals = [p \in Proposals |-> proposals[p]]
        /\ changes = [c \in Changes |-> changes[c]]
        /\ \A p \in Proposals : IsProposal(proposals[p])
        /\ \A c \in Changes : IsChange(changes[c])
    BY DEF LockFacts, EarnedFacts
  <1>3. ASSUME NEW h \in Handlers, NEW c \in Changes, StageChange(h, c)
        PROVE  EarnedFacts'
    <2>1. /\ work' = [work EXCEPT ![h] = Rest] /\ proposals' = proposals
          /\ changes[c].status = "none"
          /\ changes' = [changes EXCEPT ![c] = [status |-> "pending", row |-> work[h].row,
                                                endUser |-> work[h].by, lapsed |-> FALSE]]
      BY <1>3 DEF StageChange, CreatePendingPolicyChange, Ends
    <2>2. /\ work' = [g \in Handlers |-> work'[g]]
          /\ \A g \in Handlers : work'[g] = work[g] \/ work'[g].kind \notin {"approve", "finish", "deny"}
      BY <1>2, <2>1 DEF Rest
    <2>3. /\ changes' = [d \in Changes |-> changes'[d]]
          /\ \A d \in Changes : d # c => changes'[d] = changes[d]
          /\ IsChange(changes'[c])
      BY <1>2, <2>1 DEF IsChange
    <2>4. \A d \in Changes : IsChange(changes'[d])
      BY <1>2, <2>3
    <2> QED BY <1>1, <1>2, <2>1, <2>2, <2>3, <2>4, TablesMove
  <1>4. ASSUME NEW h \in Handlers, NEW p \in Proposals, CreateProposal(h, p)
        PROVE  EarnedFacts'
    <2>1. /\ work' = [work EXCEPT ![h] = Rest] /\ changes' = changes
          /\ proposals' = [proposals EXCEPT ![p] = [status |-> "pending", payload |-> work[h].row,
                                                    by |-> NoOne, lapsed |-> FALSE]]
      BY <1>4 DEF CreateProposal, Ends
    <2>2. /\ work' = [g \in Handlers |-> work'[g]]
          /\ \A g \in Handlers : work'[g] = work[g] \/ work'[g].kind \notin {"approve", "finish", "deny"}
      BY <1>2, <2>1 DEF Rest
    <2>3. /\ proposals' = [q \in Proposals |-> proposals'[q]]
          /\ \A q \in Proposals : q # p => proposals'[q] = proposals[q]
          /\ IsProposal(proposals'[p]) /\ proposals'[p].status = "pending"
      BY <1>2, <2>1 DEF IsProposal
    <2>4. \A q \in Proposals : IsProposal(proposals'[q])
      BY <1>2, <2>3
    <2> QED BY <1>1, <1>2, <2>1, <2>2, <2>3, <2>4, TablesMove
  <1>5. ASSUME NEW p \in Proposals, ProposalLapses(p)
        PROVE  EarnedFacts'
    <2>1. /\ work' = work /\ changes' = changes
          /\ proposals' = [proposals EXCEPT ![p] = [@ EXCEPT !.lapsed = TRUE]]
      BY <1>5 DEF ProposalLapses
    <2>2. /\ proposals' = [q \in Proposals |-> proposals'[q]]
          /\ \A q \in Proposals : q # p => proposals'[q] = proposals[q]
          /\ proposals'[p] = [proposals[p] EXCEPT !.lapsed = TRUE]
      BY <1>2, <2>1
    <2>3. IsProposal(proposals'[p]) /\ proposals'[p].status = proposals[p].status
      BY <1>2, <2>2 DEF IsProposal
    <2>4. \A q \in Proposals : IsProposal(proposals'[q])
      BY <1>2, <2>2, <2>3
    <2> QED BY <1>1, <1>2, <2>1, <2>2, <2>3, <2>4, TablesMove
  <1>6. ASSUME NEW c \in Changes, ChangeLapses(c)
        PROVE  EarnedFacts'
    <2>1. /\ work' = work /\ proposals' = proposals
          /\ changes' = [changes EXCEPT ![c] = [@ EXCEPT !.lapsed = TRUE]]
      BY <1>6 DEF ChangeLapses
    <2>2. /\ changes' = [d \in Changes |-> changes'[d]]
          /\ \A d \in Changes : d # c => changes'[d] = changes[d]
          /\ changes'[c] = [changes[c] EXCEPT !.lapsed = TRUE]
      BY <1>2, <2>1
    <2>3. /\ IsChange(changes'[c]) /\ changes'[c].status = changes[c].status
          /\ changes'[c].row = changes[c].row /\ changes'[c].endUser = changes[c].endUser
      BY <1>2, <2>2 DEF IsChange
    <2>4. \A d \in Changes : IsChange(changes'[d])
      BY <1>2, <2>2, <2>3
    <2> QED BY <1>1, <1>2, <2>1, <2>2, <2>3, <2>4, TablesMove
  <1>7. ASSUME NEW h \in Handlers, ResolveProposal(h)
        PROVE  EarnedFacts'
    <2>0. PICK w : w = work[h]
      OBVIOUS
    <2>1. HandlerFacts(w) /\ Earned(w)
      BY <2>0 DEF LockFacts, EarnedFacts
    <2>2. /\ w.kind # "idle" /\ w.id \in Proposals
          /\ (w.kind = "deny" /\ w.at = 1) \/ (w.kind = "approve" /\ w.at = 6)
      <3>1. Step(h) = "claim" /\ w.kind # "finish"
        BY <1>7, <2>0 DEF ResolveProposal
      <3>2. (w.kind = "deny" /\ w.at = 1) \/ (w.kind = "approve" /\ w.at = 6)
        BY <2>0, <2>1, <3>1, EarnedPlaces
      <3> QED BY <2>1, <3>2 DEF Earned, NeedsKey
    <2>3. PICK s : /\ s = IF w.kind = "deny" THEN "denied" ELSE "approved"
                   /\ \/ proposals' = proposals
                      \/ proposals' = [proposals EXCEPT ![w.id].status = s, ![w.id].by = w.by]
      BY <1>7, <2>0 DEF ResolveProposal
    <2>4. s = "approved" => WrittenFor(w.id)
      BY <2>1, <2>2, <2>3 DEF Earned, NeedsKey
    <2>5. /\ changes' = changes
          /\ work' = [work EXCEPT ![h] = Onward(w)] \/ work' = [work EXCEPT ![h] = Rest]
      BY <1>7, <2>0 DEF ResolveProposal, GoesOn, Ends
    <2>6. Onward(w) = Rest
      <3>1. Len(Plan(w.kind)) = w.at
        BY <2>2 DEF Plan
      <3> QED BY <2>2, <3>1 DEF Onward
    <2>7. /\ work' = [g \in Handlers |-> work'[g]]
          /\ \A g \in Handlers : work'[g] = work[g] \/ work'[g].kind \notin {"approve", "finish", "deny"}
      BY <1>2, <2>5, <2>6 DEF Rest
    <2>8. /\ proposals' = [q \in Proposals |-> proposals'[q]]
          /\ \A q \in Proposals : q # w.id => proposals'[q] = proposals[q]
          /\ \/ proposals'[w.id] = proposals[w.id]
             \/ proposals'[w.id] = [proposals[w.id] EXCEPT !.status = s, !.by = w.by]
      BY <1>2, <2>2, <2>3
    <2>9. IsProposal(proposals'[w.id]) /\ proposals'[w.id].status \in {proposals[w.id].status, s}
      BY <1>2, <2>2, <2>8 DEF IsProposal
    <2>10. \A q \in Proposals : IsProposal(proposals'[q])
      BY <1>2, <2>8, <2>9
    <2>11. \A q \in Proposals : proposals'[q].status = "approved" =>
               proposals[q].status = "approved" \/ WrittenFor(q)
      BY <2>4, <2>8, <2>9
    <2> QED BY <1>1, <1>2, <2>5, <2>7, <2>8, <2>10, <2>11, TablesMove
  <1> QED BY <1>3, <1>4, <1>5, <1>6, <1>7

\* claim_pending_policy_change: whoever finds the row pending is alone to.
LEMMA ClaimEarns ==
    ASSUME LockFacts, EarnedFacts, NEW h \in Handlers, ClaimPendingPolicyChange(h)
    PROVE  EarnedFacts'
  <1>0. PICK w : w = work[h]
    OBVIOUS
  <1>1. /\ HandlerFacts(w) /\ Earned(w)
        /\ work = [g \in Handlers |-> work[g]] /\ changes = [c \in Changes |-> changes[c]]
        /\ \A c \in Changes : IsChange(changes[c])
    BY <1>0 DEF LockFacts, EarnedFacts
  <1>2. w.kind = "finish" /\ w.at = 2 /\ w.id \in Changes
    <2>1. Step(h) = "claim" /\ w.kind = "finish"
      BY <1>0 DEF ClaimPendingPolicyChange
    <2> QED BY <1>0, <1>1, <2>1, EarnedPlaces DEF Earned, NeedsKey
  <1>3. UNCHANGED <<policy, load, rows, authors, proposals>>
    BY DEF ClaimPendingPolicyChange, vars
  <1>4. CASE Ends(h) /\ UNCHANGED changes
    <2>1. Earned(Rest) /\ ~AtWrite(Rest)
      BY IdleEarns DEF Rest
    <2> QED BY <1>3, <1>4, <2>1, OneEarns DEF Ends
  <1>5. CASE ~(Ends(h) /\ UNCHANGED changes)
    <2>1. /\ changes[w.id].status = "pending"
          /\ changes' = [changes EXCEPT ![w.id] = [@ EXCEPT !.status = "applied"]]
          /\ work' = [work EXCEPT ![h] = Onward(w)]
      BY <1>0, <1>5 DEF ClaimPendingPolicyChange, ClaimsChange, Pending, GoesOn
    <2>2. PICK o : o = Onward(w)
      OBVIOUS
    <2>3. o.kind = "finish" /\ o.at = 3 /\ o.by = w.by /\ o.id = w.id /\ o.key = w.key /\ o.row = w.row
      <3>1. Len(Plan(w.kind)) = 4
        BY <1>2 DEF Plan
      <3>0. \A i, k \in Nat : i = 2 /\ k = 4 => i < k /\ i + 1 = 3
        OBVIOUS
      <3>2. w.at < Len(Plan(w.kind)) /\ w.at + 1 = 3
        <4>1. w.at \in Nat /\ Len(Plan(w.kind)) \in Nat /\ w.at = 2
          BY <1>2, <3>1
        <4> QED BY <3>0, <3>1, <4>1
      <3>3. Onward(w) = [kind |-> w.kind, at |-> w.at + 1, by |-> w.by, id |-> w.id,
                         names |-> w.names, row |-> w.row, read |-> w.read, seen |-> w.seen,
                         key |-> w.key, version |-> w.version]
        BY <1>1, <3>2 DEF Onward, HandlerFacts, IsRecord
      <3> QED BY <1>2, <2>2, <3>2, <3>3
    <2>4. /\ changes' = [c \in Changes |-> changes'[c]]
          /\ \A c \in Changes : c # w.id => changes'[c] = changes[c]
          /\ changes'[w.id] = [changes[w.id] EXCEPT !.status = "applied"]
      BY <1>1, <1>2, <2>1
    <2>5. /\ IsChange(changes'[w.id]) /\ changes'[w.id].status = "applied"
          /\ changes'[w.id].row = changes[w.id].row /\ changes'[w.id].endUser = changes[w.id].endUser
      BY <1>1, <1>2, <2>4 DEF IsChange
    <2>6. \A c \in Changes : IsChange(changes'[c])
      BY <1>1, <2>4, <2>5
    <2>7. work'[h] = o /\ \A g \in Handlers : g # h => work'[g] = work[g]
      BY <1>1, <2>1, <2>2
    <2>8. \A g \in Handlers : Earned(work[g]) /\ (AtWrite(work[g]) => work[g].id # w.id)
      BY <2>1 DEF EarnedFacts, Earned, NeedsKey, AtWrite
    <2>9. \A x : Earned(x) => Earned(x)'
      <3>1. \A c \in Changes : /\ changes'[c].row = changes[c].row
                               /\ changes'[c].endUser = changes[c].endUser
                               /\ changes'[c].status \in {changes[c].status, "applied"}
        BY <2>4, <2>5
      <3>2. \A p : WrittenFor(p) => WrittenFor(p)'
        BY <1>3 DEF WrittenFor
      <3> QED BY <1>3, <3>1, <3>2 DEF Earned, NeedsKey
    <2>10. Earned(o)'
      BY <1>1, <1>2, <2>3, <2>5 DEF Earned, NeedsKey
    <2>11. \A g \in Handlers : Earned(work[g])'
      <3> SUFFICES ASSUME NEW g \in Handlers PROVE Earned(work[g])'
        OBVIOUS
      <3>1. PICK x : x = work'[g]
        OBVIOUS
      <3>2. Earned(x)'
        BY <2>7, <2>8, <2>9, <2>10, <3>1
      <3> QED BY <3>1, <3>2 DEF Earned, NeedsKey, WrittenFor
    <2>12. \A v \in 1 .. policy : AuthorEarned(v)' /\ (authors[v].kind = "finish" => authors[v].id # w.id)
      BY <1>3, <2>1, <2>4, <2>5 DEF EarnedFacts, AuthorEarned, NeedsKey
    <2>13. OneWriter'
      BY <1>3, <2>3, <2>7, <2>8, <2>12 DEF EarnedFacts, OneWriter, AtWrite
    <2>14. \A p : WrittenFor(p) => WrittenFor(p)'
      BY <1>3 DEF WrittenFor
    <2> QED BY <1>3, <2>4, <2>6, <2>11, <2>12, <2>13, <2>14 DEF EarnedFacts, IsProposal, IsChange
  <1> QED BY <1>4, <1>5

\* set_policy: what the handler holds becomes what the author held.
LEMMA WriteEarns ==
    ASSUME LockFacts, EarnedFacts, NEW h \in Handlers, WritePolicy(h)
    PROVE  EarnedFacts'
  <1>0. PICK w : w = work[h]
    OBVIOUS
  <1>1. PICK n : n = policy + 1
    OBVIOUS
  <1>2. /\ HandlerFacts(w) /\ Earned(w) /\ work = [g \in Handlers |-> work[g]]
        /\ policy \in 0 .. MaxVersion
        /\ rows = [v \in 0 .. MaxVersion |-> rows[v]]
        /\ authors = [v \in 0 .. MaxVersion |-> authors[v]]
    BY <1>0 DEF LockFacts, EarnedFacts
  <1>3. /\ policy < MaxVersion /\ policy' = n
        /\ rows' = [rows EXCEPT ![n] = w.row] /\ authors' = [authors EXCEPT ![n] = w]
        /\ work' = [work EXCEPT ![h] = [Onward(w) EXCEPT !.version = n]]
        /\ proposals' = proposals /\ changes' = changes /\ load' = load
        /\ Step(h) = "write" /\ w.kind # "template"
    BY <1>0, <1>1 DEF WritePolicy, SetPolicyRow, SetPolicy
  <1>4. /\ w.kind # "idle"
        /\ \/ w.kind \in {"set", "app"}
           \/ w.kind = "approve" /\ w.at = 4
           \/ w.kind = "finish" /\ w.at = 3
    BY <1>0, <1>2, <1>3, EarnedPlaces
  <1>5. /\ n \in 1 .. MaxVersion /\ policy' = n
        /\ rows'[n] = w.row /\ authors'[n] = w
        /\ \A v \in 1 .. policy : v \in 0 .. MaxVersion /\ rows'[v] = rows[v] /\ authors'[v] = authors[v]
        /\ \A v \in 1 .. n : v \in 1 .. policy \/ v = n
        /\ \A v \in n + 1 .. MaxVersion : v \in policy + 1 .. MaxVersion /\ authors'[v] = authors[v]
    BY <1>1, <1>2, <1>3, TimeAssumption
  <1>6. PICK o : o = [Onward(w) EXCEPT !.version = n]
    OBVIOUS
  <1>7. Keyed(w, w.key, o)
    BY <1>2, <1>4, <1>6, OnwardFields
  <1>8. work'[h] = o /\ \A g \in Handlers : g # h => work'[g] = work[g]
    BY <1>2, <1>3, <1>6
  <1>9. \A p : WrittenFor(p) => WrittenFor(p)'
    <2>0. \A v \in 1 .. policy : v \in 1 .. n
      BY <1>1, <1>2, TimeAssumption
    <2>1. \A v \in 1 .. policy : v \in 1 .. n /\ authors'[v] = authors[v]
      BY <1>5, <2>0
    <2> QED BY <1>5, <2>1 DEF WrittenFor
  <1>10. w.kind = "approve" => WrittenFor(w.id)'
    BY <1>5 DEF WrittenFor
  <1>11. \A x : Earned(x) => Earned(x)'
    BY <1>3, <1>9 DEF Earned, NeedsKey
  <1>12. Earned(o)' /\ ~AtWrite(o)
    BY <1>2, <1>3, <1>4, <1>7, <1>10 DEF Earned, NeedsKey, Keyed, AtWrite
  <1>13. \A g \in Handlers : Earned(work[g])'
    <2> SUFFICES ASSUME NEW g \in Handlers PROVE Earned(work[g])'
      OBVIOUS
    <2>1. PICK x : x = work'[g]
      OBVIOUS
    <2>2. Earned(x)'
      BY <1>8, <1>11, <1>12, <2>1 DEF EarnedFacts
    <2> QED BY <2>1, <2>2 DEF Earned, NeedsKey, WrittenFor
  <1>14. \A v \in 1 .. n : AuthorEarned(v)'
    <2> SUFFICES ASSUME NEW v \in 1 .. n PROVE AuthorEarned(v)'
      OBVIOUS
    <2>1. CASE v = n
      BY <1>2, <1>3, <1>4, <1>5, <2>1 DEF AuthorEarned, Earned, NeedsKey
    <2>2. CASE v \in 1 .. policy
      BY <1>3, <1>5, <2>2 DEF AuthorEarned, NeedsKey, EarnedFacts
    <2> QED BY <1>5, <2>1, <2>2
  <1>15. \A v \in 1 .. policy : AtWrite(w) /\ authors[v].kind = "finish" => authors[v].id # w.id
    BY <1>0 DEF EarnedFacts, OneWriter
  <1>16. w.kind = "finish" => AtWrite(w)
    BY <1>4 DEF AtWrite
  <1>17. OneWriter'
    <2>1. \A g, k \in Handlers : AtWrite(work'[g]) /\ AtWrite(work'[k]) /\ work'[g].id = work'[k].id => g = k
      BY <1>8, <1>12 DEF EarnedFacts, OneWriter
    <2>2. ASSUME NEW g \in Handlers, NEW v \in 1 .. n, AtWrite(work'[g]), authors'[v].kind = "finish"
          PROVE  work'[g].id # authors'[v].id
      <3>1. g # h /\ work'[g] = work[g]
        BY <1>8, <1>12, <2>2
      <3>2. CASE v = n
        <4>1. authors'[v] = w /\ AtWrite(w)
          BY <1>5, <1>16, <2>2, <3>2
        <4> QED BY <1>0, <2>2, <3>1, <4>1 DEF EarnedFacts, OneWriter
      <3>3. CASE v \in 1 .. policy
        BY <1>5, <2>2, <3>1, <3>3 DEF EarnedFacts, OneWriter
      <3> QED BY <1>5, <3>2, <3>3
    <2>3. ASSUME NEW v \in 1 .. n, NEW u \in 1 .. n, authors'[v].kind = "finish",
                 authors'[u].kind = "finish", authors'[v].id = authors'[u].id
          PROVE  v = u
      <3>1. CASE v = n /\ u \in 1 .. policy
        BY <1>5, <1>15, <1>16, <2>3, <3>1
      <3>2. CASE u = n /\ v \in 1 .. policy
        BY <1>5, <1>15, <1>16, <2>3, <3>2
      <3>3. CASE u \in 1 .. policy /\ v \in 1 .. policy
        BY <1>5, <2>3, <3>3 DEF EarnedFacts, OneWriter
      <3> QED BY <1>5, <3>1, <3>2, <3>3
    <2> QED BY <1>5, <2>1, <2>2, <2>3 DEF OneWriter, AtWrite
  <1>18. \A v \in n + 1 .. MaxVersion : authors'[v].kind = "idle"
    BY <1>5 DEF EarnedFacts
  <1> QED BY <1>3, <1>9, <1>13, <1>14, <1>17, <1>18 DEF EarnedFacts, IsProposal, IsChange

\* The credential is deleted: a version that nobody has written.
LEMMA DeleteEarns ==
    ASSUME LockFacts, EarnedFacts, DeleteCredential
    PROVE  EarnedFacts'
  <1>1. PICK n : n = policy + 1
    OBVIOUS
  <1>2. /\ policy \in 0 .. MaxVersion /\ rows = [v \in 0 .. MaxVersion |-> rows[v]]
    BY DEF LockFacts
  <1>3. /\ policy < MaxVersion /\ policy' = n
        /\ rows' = [rows EXCEPT ![n] = NoPolicy]
        /\ UNCHANGED <<load, authors, work, proposals, changes>>
    BY <1>1 DEF DeleteCredential, SetPolicy
  <1>4. /\ n \in policy + 1 .. MaxVersion
        /\ \A v \in 1 .. policy : v \in 0 .. MaxVersion /\ rows'[v] = rows[v]
        /\ \A v \in 1 .. n : v \in 1 .. policy \/ v = n
        /\ \A v \in n + 1 .. MaxVersion : v \in policy + 1 .. MaxVersion
    BY <1>1, <1>2, <1>3, TimeAssumption
  <1>5. authors[n].kind = "idle"
    BY <1>4 DEF EarnedFacts
  <1>6. \A p : WrittenFor(p) => WrittenFor(p)'
    BY <1>1, <1>2, <1>3, <1>4, TimeAssumption DEF WrittenFor
  <1>7. \A g \in Handlers : Earned(work[g])'
    BY <1>3, <1>6 DEF EarnedFacts, Earned, NeedsKey
  <1>8. \A v \in 1 .. n : AuthorEarned(v)'
    BY <1>3, <1>4, <1>5 DEF EarnedFacts, AuthorEarned, NeedsKey
  <1>9. OneWriter'
    BY <1>3, <1>4, <1>5 DEF EarnedFacts, OneWriter, AtWrite
  <1> QED BY <1>3, <1>4, <1>6, <1>7, <1>8, <1>9 DEF EarnedFacts, IsProposal, IsChange

\* A step that leaves the handlers and the three tables alone.
LEMMA NothingEarned ==
    ASSUME EarnedFacts, UNCHANGED <<policy, load, rows, authors, work, proposals, changes>>
    PROVE  EarnedFacts'
  BY DEF EarnedFacts, Earned, NeedsKey, AuthorEarned, OneWriter, AtWrite, WrittenFor, IsProposal, IsChange

\* What the handlers and the authors have earned holds in every reachable state.
THEOREM EarnedFactsHold == ChangesSpec => []EarnedFacts
  <1>1. ChangesInit => EarnedFacts
    <2> SUFFICES ASSUME ChangesInit PROVE EarnedFacts
      OBVIOUS
    <2>1. policy = 0 /\ \A v : v \notin 1 .. policy
      BY DEF ChangesInit, Init
    <2>2. \A h \in Handlers : Earned(work[h]) /\ ~AtWrite(work[h])
      BY IdleEarns DEF ChangesInit, Rest
    <2>3. /\ proposals = [p \in Proposals |-> proposals[p]]
          /\ \A p \in Proposals : IsProposal(proposals[p]) /\ proposals[p].status = "none"
      BY DEF ChangesInit, NoProposal, IsProposal
    <2>4. /\ changes = [c \in Changes |-> changes[c]]
          /\ \A c \in Changes : IsChange(changes[c])
      BY DEF ChangesInit, NoChange, IsChange
    <2>5. \A v \in policy + 1 .. MaxVersion : authors[v].kind = "idle"
      BY <2>1 DEF ChangesInit, Rest
    <2> QED BY <2>1, <2>2, <2>3, <2>4, <2>5 DEF EarnedFacts, OneWriter
  <1>2. LockFacts /\ EarnedFacts /\ [ChangesNext]_allVars => EarnedFacts'
    <2> SUFFICES ASSUME LockFacts, EarnedFacts, [ChangesNext]_allVars PROVE EarnedFacts'
      OBVIOUS
    <2>1. CASE UNCHANGED allVars
      BY <2>1, NothingEarned DEF allVars, changeVars, vars
    <2>2. CASE Reads
      <3>1. UNCHANGED policy
        BY <2>2 DEF Reads, Read, GetPolicy, QueryPolicy, StorePolicy, QueryTimesOut, Tick
      <3>2. UNCHANGED <<load, rows, authors, work, proposals, changes>>
        BY <2>2 DEF Reads, changeVars
      <3> QED BY <3>1, <3>2, NothingEarned
    <2>3. CASE DeletePolicyTemplate
      BY <2>3, NothingEarned DEF DeletePolicyTemplate, vars
    <2>4. CASE (\E p \in Proposals : ProposalLapses(p)) \/ (\E c \in Changes : ChangeLapses(c))
      BY <2>4, RowEarns
    <2>5. ASSUME NEW h \in Handlers, Statement(h) \/ Dropped(h)
          PROVE  EarnedFacts'
      BY <2>5, PassingEarns, RowEarns, ClaimEarns, WriteEarns DEF Statement
    <2> QED BY <2>1, <2>2, <2>3, <2>4, <2>5, RequestEarns, DeleteEarns DEF ChangesNext
  <1> QED BY <1>1, <1>2, LockFactsHold, PTL DEF ChangesSpec

(* Bounded floods: every request that found the queue below the cap may    *)
(* still insert, so what is pending and what may come are counted          *)
(* together.                                                               *)
PendingSet == {p \in Proposals : Pending(proposals[p])}
Proposing == {h \in Handlers : work[h].kind = "propose"}

FloodFacts ==
    /\ IsFiniteSet(PendingSet)
    /\ Cardinality(PendingSet) + Cardinality(Proposing) <= ProposalCap + Cardinality(Handlers) - 1

\* Finite sets: counted by numbers, and a part is not more than the whole.
LEMMA ProposingIsCounted ==
    /\ Cardinality(Handlers) \in Nat /\ Cardinality(Handlers) >= 1
    /\ IsFiniteSet(Proposing) /\ Cardinality(Proposing) \in Nat
    /\ Cardinality(Proposing) <= Cardinality(Handlers)
  <1>1. IsFiniteSet(Handlers) /\ Handlers # {} /\ Proposing \subseteq Handlers
    BY HandlerAssumption DEF Proposing
  <1>2. Cardinality(Handlers) \in Nat /\ Cardinality(Handlers) # 0
    BY <1>1, FS_CardinalityType, FS_EmptySet
  <1>3. IsFiniteSet(Proposing) /\ Cardinality(Proposing) <= Cardinality(Handlers)
    BY <1>1, FS_Subset
  <1>4. Cardinality(Proposing) \in Nat
    BY <1>3, FS_CardinalityType
  <1> QED BY <1>2, <1>3, <1>4

\* Nothing is inserted and no request to propose begins.
LEMMA FloodEbbs ==
    ASSUME FloodFacts, PendingSet' \subseteq PendingSet, Proposing' \subseteq Proposing
    PROVE  FloodFacts'
  <1>1. IsFiniteSet(PendingSet)' /\ Cardinality(PendingSet)' <= Cardinality(PendingSet)
    BY FS_Subset DEF FloodFacts
  <1>2. Cardinality(Proposing)' <= Cardinality(Proposing) /\ Cardinality(Proposing)' \in Nat
    BY ProposingIsCounted, FS_Subset, FS_CardinalityType
  <1>3. /\ Cardinality(PendingSet) \in Nat /\ Cardinality(PendingSet)' \in Nat
        /\ Cardinality(Proposing) \in Nat /\ Cardinality(Handlers) \in Nat /\ ProposalCap \in Nat
    BY <1>1, ProposingIsCounted, HandlerAssumption, FS_CardinalityType DEF FloodFacts
  <1> QED BY <1>1, <1>2, <1>3 DEF FloodFacts

\* Counting below the cap, a request to propose begins.
LEMMA FloodRises ==
    ASSUME FloodFacts, NEW h \in Handlers, NEW payload, HandleAgentCreateProposal(h, payload)
    PROVE  FloodFacts'
  <1>1. PendingSet' = PendingSet /\ IsFiniteSet(PendingSet) /\ UnderCap(Cardinality(PendingSet))
    BY DEF HandleAgentCreateProposal, Tables, PendingSet, Pending, FloodFacts
  <1>2. Cardinality(PendingSet) \in Nat /\ Cardinality(PendingSet) <= ProposalCap - 1
        /\ ProposalCap \in Nat
    BY <1>1, HandlerAssumption, FS_CardinalityType DEF UnderCap
  <1>3. (Cardinality(Proposing) \in Nat /\ Cardinality(Proposing) <= Cardinality(Handlers))'
    BY ProposingIsCounted, PTL
  <1>4. Cardinality(Handlers) \in Nat
    BY ProposingIsCounted
  <1> QED BY <1>1, <1>2, <1>3, <1>4 DEF FloodFacts

\* The insert: one more is pending, one less may come.
LEMMA FloodMoves ==
    ASSUME LockFacts, EarnedFacts, FloodFacts, NEW h \in Handlers, NEW p \in Proposals,
           CreateProposal(h, p)
    PROVE  FloodFacts'
  <1>1. /\ work' = [work EXCEPT ![h] = Rest]
        /\ proposals' = [proposals EXCEPT ![p] = [status |-> "pending", payload |-> work[h].row,
                                                  by |-> NoOne, lapsed |-> FALSE]]
        /\ Step(h) = "insert" /\ proposals[p].status = "none"
    BY DEF CreateProposal, Ends
  <1>2. /\ work = [g \in Handlers |-> work[g]] /\ HandlerFacts(work[h])
        /\ proposals = [q \in Proposals |-> proposals[q]]
    BY DEF LockFacts, EarnedFacts
  <1>3. work[h].kind = "propose"
    BY <1>1, <1>2, EarnedPlaces
  <1>4. PendingSet' = PendingSet \cup {p} /\ p \notin PendingSet
    <2>1. \A q \in Proposals : q # p => proposals'[q] = proposals[q]
      BY <1>1, <1>2
    <2>2. proposals'[p].status = "pending" /\ proposals'[p].lapsed = FALSE
      BY <1>1, <1>2
    <2> QED BY <1>1, <2>1, <2>2 DEF PendingSet, Pending
  <1>5. Proposing' = Proposing \ {h} /\ h \in Proposing
    <2>1. \A g \in Handlers : g # h => work'[g] = work[g]
      BY <1>1, <1>2
    <2>2. work'[h].kind = "idle"
      BY <1>1, <1>2 DEF Rest
    <2> QED BY <1>3, <2>1, <2>2 DEF Proposing
  <1>6. /\ IsFiniteSet(PendingSet \cup {p})
        /\ Cardinality(PendingSet \cup {p}) = Cardinality(PendingSet) + 1
        /\ Cardinality(PendingSet) \in Nat
    BY <1>4, FS_AddElement, FS_CardinalityType DEF FloodFacts
  <1>7. /\ Cardinality(Proposing \ {h}) = Cardinality(Proposing) - 1
        /\ Cardinality(Proposing) \in Nat /\ Cardinality(Handlers) \in Nat /\ ProposalCap \in Nat
    BY <1>5, ProposingIsCounted, HandlerAssumption, FS_RemoveElement
  <1>8. /\ IsFiniteSet(PendingSet') /\ Cardinality(PendingSet') = Cardinality(PendingSet) + 1
        /\ Cardinality(Proposing') = Cardinality(Proposing) - 1
    BY <1>4, <1>5, <1>6, <1>7
  <1> QED BY <1>6, <1>7, <1>8 DEF FloodFacts

\* A step of a handler that neither starts a proposal nor inserts one.
LEMMA FloodPasses ==
    ASSUME LockFacts, FloodFacts, NEW h \in Handlers, NEW x,
           x.kind = "propose" => work[h].kind = "propose",
           work' = [work EXCEPT ![h] = x], PendingSet' \subseteq PendingSet
    PROVE  FloodFacts'
  <1>1. \A g \in Handlers : work'[g] = work[g] \/ (g = h /\ work'[g] = x)
    BY DEF LockFacts
  <1>2. Proposing' \subseteq Proposing
    BY <1>1 DEF Proposing
  <1> QED BY <1>2, FloodEbbs

\* The rows of the queue only leave it: they are resolved or lapse.
LEMMA QueueShrinks ==
    ASSUME EarnedFacts, NEW p \in Proposals, NEW r, proposals' = [proposals EXCEPT ![p] = r],
           Pending(r) => Pending(proposals[p])
    PROVE  PendingSet' \subseteq PendingSet
  <1>1. \A q \in Proposals : proposals'[q] = proposals[q] \/ (q = p /\ proposals'[q] = r)
    BY DEF EarnedFacts
  <1> QED BY <1>1 DEF PendingSet, Pending

\* A request that is not a proposal.
LEMMA FloodBegins ==
    ASSUME LockFacts, FloodFacts, NEW h \in Handlers, NEW kind, NEW by, NEW id, NEW names, NEW row,
           kind # "propose", Begin(h, Started(kind, by, id, names, row)), UNCHANGED <<vars, load, Tables>>
    PROVE  FloodFacts'
  <1>1. PICK x : x = Started(kind, by, id, names, row)
    OBVIOUS
  <1>2. x.kind # "propose"
    BY <1>1 DEF Started
  <1>3. work' = [work EXCEPT ![h] = x]
    BY <1>1 DEF Begin
  <1>4. PendingSet' \subseteq PendingSet
    BY DEF Tables, PendingSet, Pending
  <1> QED BY <1>2, <1>3, <1>4, FloodPasses

\* Taking a request.
LEMMA FloodRequest ==
    ASSUME LockFacts, FloodFacts, NEW h \in Handlers, Request(h)
    PROVE  FloodFacts'
  <1>0. load.decisions \subseteq {"approve", "deny"}
    BY LoadAssumption DEF LockFacts
  <1>1. ASSUME NEW m, NEW req, HandleSetPolicy(h, m, req) \/ HandleSetPolicyTemplate(h, m, req)
        PROVE  FloodFacts'
    BY <1>1, FloodBegins DEF HandleSetPolicy, HandleSetPolicyTemplate
  <1>2. ASSUME NEW e, NEW req, HandleSetEndUserPolicy(h, e, req)
        PROVE  FloodFacts'
    BY <1>2, FloodBegins DEF HandleSetEndUserPolicy
  <1>3. ASSUME NEW m, NEW p, HandleBeginProposalApproval(h, m, p) \/ HandlePolicyChangePasskeyBegin(h, m, p)
        PROVE  FloodFacts'
    BY <1>3, FloodBegins DEF HandleBeginProposalApproval, HandlePolicyChangePasskeyBegin
  <1>4. ASSUME NEW m, NEW p, NEW d \in load.decisions, HandleResolveProposal(h, m, p, d)
        PROVE  FloodFacts'
    <2>1. d # "propose"
      BY <1>0
    <2> QED BY <1>4, <2>1, FloodBegins DEF HandleResolveProposal
  <1>5. ASSUME NEW e, NEW c, HandlePolicyChangePasskeyFinish(h, e, c)
        PROVE  FloodFacts'
    BY <1>5, FloodBegins DEF HandlePolicyChangePasskeyFinish
  <1> QED BY <1>1, <1>2, <1>3, <1>4, <1>5, FloodRises DEF Request

\* The statements of a handler.
LEMMA FloodStatement ==
    ASSUME LockFacts, EarnedFacts, FloodFacts, NEW h \in Handlers, Statement(h) \/ Dropped(h)
    PROVE  FloodFacts'
  <1>0. PICK w : w = work[h]
    OBVIOUS
  <1>1. HandlerFacts(w) /\ Earned(w)
    BY <1>0 DEF LockFacts, EarnedFacts
  <1>2. CASE \E p \in Proposals : CreateProposal(h, p)
    BY <1>2, FloodMoves
  <1>3. CASE ~ \E p \in Proposals : CreateProposal(h, p)
    <2>1. Step(h) # "idle"
      BY <1>3 DEF Statement, KeepUrls, CheckLock, RefuseLocked, StageChange, WritePolicy, WriteFails,
           WriteTemplate, Invalidate, BeginApproval, FinishApproval, ApproveUnasked, MergeProposal, ResolveProposal,
           ClaimPendingPolicyChange, Dropped
    <2>2. w.kind # "idle"
      BY <1>0, <1>1, <2>1, EarnedPlaces
    <2>3. PendingSet' \subseteq PendingSet
      <3>1. CASE proposals' = proposals
        BY <3>1 DEF PendingSet, Pending
      <3>2. CASE proposals' # proposals
        <4>1. ResolveProposal(h) /\ Pending(proposals[w.id])
              /\ \E s : proposals' = [proposals EXCEPT ![w.id].status = s, ![w.id].by = w.by]
          <5>1. ResolveProposal(h)
            BY <1>3, <3>2 DEF Statement, KeepUrls, CheckLock, RefuseLocked, StageChange, WritePolicy,
                 WriteFails, WriteTemplate, Invalidate, BeginApproval, FinishApproval, ApproveUnasked, MergeProposal,
                 ClaimPendingPolicyChange, Dropped, Tables
          <5> QED BY <1>0, <3>2, <5>1 DEF ResolveProposal
        <4>2. w.id \in Proposals
          BY <1>0, <1>1, <4>1, EarnedPlaces DEF ResolveProposal, Earned
        <4>3. PICK r : proposals' = [proposals EXCEPT ![w.id] = r]
          BY <4>1
        <4> QED BY <4>1, <4>2, <4>3, QueueShrinks
      <3> QED BY <3>1, <3>2
    <2>4. ASSUME NEW o, work' = [work EXCEPT ![h] = o], o.kind \in {"idle", w.kind}
          PROVE  FloodFacts'
      BY <1>0, <2>3, <2>4, FloodPasses
    <2>5. ASSUME NEW o, NEW key, work' = [work EXCEPT ![h] = o], Keyed(w, key, o)
          PROVE  FloodFacts'
      BY <2>4, <2>5 DEF Keyed
    <2>6. Ends(h) => FloodFacts'
      BY <2>4 DEF Ends, Rest
    <2>7. GoesOn(h) => FloodFacts'
      BY <1>0, <1>1, <2>2, <2>5, OnwardFields DEF GoesOn
    <2>8. CASE KeepUrls(h)
      <3>1. \/ GoesOn(h)
            \/ \E x, y : work' = [work EXCEPT ![h] = [Onward(w) EXCEPT !.row = x, !.read = y]]
        BY <1>0, <2>8 DEF KeepUrls
      <3>2. w.kind # "finish"
        BY <1>0, <1>1, <2>8, EarnedPlaces DEF KeepUrls
      <3> QED BY <1>1, <2>2, <2>5, <2>7, <3>1, <3>2, OnwardFields
    <2>9. CASE MergeProposal(h)
      <3>1. \/ Ends(h)
            \/ \E x : work' = [work EXCEPT ![h] = [Onward(w) EXCEPT !.row = x]]
            \/ \E x, y : work' = [work EXCEPT ![h] = [Onward(w) EXCEPT !.row = x, !.read = y]]
        BY <1>0, <2>9 DEF MergeProposal
      <3>2. w.kind # "finish"
        BY <1>0, <1>1, <2>9, EarnedPlaces DEF MergeProposal
      <3> QED BY <1>1, <2>2, <2>5, <2>6, <3>1, <3>2, OnwardFields
    <2>10. CASE CheckLock(h)
      <3>1. work' = [work EXCEPT ![h] = [Onward(w) EXCEPT !.seen = policy]]
        BY <1>0, <2>10 DEF CheckLock
      <3> QED BY <1>1, <2>2, <2>5, <3>1, OnwardFields
    <2>11. CASE WritePolicy(h)
      <3>1. work' = [work EXCEPT ![h] = [Onward(w) EXCEPT !.version = policy + 1]]
        BY <1>0, <2>11 DEF WritePolicy, SetPolicyRow
      <3> QED BY <1>1, <2>2, <2>5, <3>1, OnwardFields
    <2>12. ASSUME NEW key, FinishApproval(h, key)
           PROVE  FloodFacts'
      <3>1. Ends(h) \/ work' = [work EXCEPT ![h] = [Onward(w) EXCEPT !.key = key]]
        BY <1>0, <2>12 DEF FinishApproval
      <3> QED BY <1>1, <2>2, <2>5, <2>6, <3>1, OnwardFields
    <2>13. CASE \/ RefuseLocked(h) \/ WriteFails(h) \/ WriteTemplate(h) \/ Invalidate(h)
                \/ BeginApproval(h) \/ ResolveProposal(h) \/ ClaimPendingPolicyChange(h)
                \/ Dropped(h) \/ ApproveUnasked(h) \/ \E c \in Changes : StageChange(h, c)
      BY <2>6, <2>7, <2>13 DEF RefuseLocked, WriteFails, WriteTemplate, Invalidate, BeginApproval,
           ResolveProposal, ClaimPendingPolicyChange, Dropped, ApproveUnasked, StageChange
    <2> QED BY <1>3, <2>8, <2>9, <2>10, <2>11, <2>12, <2>13 DEF Statement
  <1> QED BY <1>2, <1>3

\* The count holds in every reachable state.
THEOREM FloodFactsHold == ChangesSpec => []FloodFacts
  <1>1. ChangesInit => FloodFacts
    <2> SUFFICES ASSUME ChangesInit PROVE FloodFacts
      OBVIOUS
    <2>1. PendingSet = {} /\ Proposing = {}
      BY DEF ChangesInit, PendingSet, Proposing, Pending, NoProposal, Rest
    <2>2. /\ IsFiniteSet(PendingSet) /\ Cardinality(PendingSet) = 0 /\ Cardinality(Proposing) = 0
      BY <2>1, FS_EmptySet
    <2>3. Cardinality(Handlers) \in Nat /\ Cardinality(Handlers) >= 1 /\ ProposalCap \in Nat
      BY ProposingIsCounted, HandlerAssumption
    <2> QED BY <2>2, <2>3 DEF FloodFacts
  <1>2. LockFacts /\ EarnedFacts /\ FloodFacts /\ [ChangesNext]_allVars => FloodFacts'
    <2> SUFFICES ASSUME LockFacts, EarnedFacts, FloodFacts, [ChangesNext]_allVars
                 PROVE  FloodFacts'
      OBVIOUS
    <2>1. CASE UNCHANGED <<work, proposals>>
      <3>1. PendingSet' \subseteq PendingSet /\ Proposing' \subseteq Proposing
        BY <2>1 DEF PendingSet, Proposing, Pending
      <3> QED BY <3>1, FloodEbbs
    <2>2. CASE \/ UNCHANGED allVars \/ Reads \/ DeletePolicyTemplate \/ DeleteCredential
               \/ \E c \in Changes : ChangeLapses(c)
      <3>1. UNCHANGED <<work, proposals>>
        BY <2>2 DEF allVars, changeVars, Reads, DeletePolicyTemplate, DeleteCredential, ChangeLapses
      <3> QED BY <2>1, <3>1
    <2>3. ASSUME NEW p \in Proposals, ProposalLapses(p)
          PROVE  FloodFacts'
      <3>1. /\ work' = work /\ Pending(proposals[p])
            /\ \E r : proposals' = [proposals EXCEPT ![p] = r]
        BY <2>3 DEF ProposalLapses
      <3>2. PendingSet' \subseteq PendingSet
        BY <3>1, QueueShrinks
      <3>3. Proposing' \subseteq Proposing
        BY <3>1 DEF Proposing
      <3> QED BY <3>2, <3>3, FloodEbbs
    <2> QED BY <2>2, <2>3, FloodRequest, FloodStatement DEF ChangesNext
  <1> QED BY <1>1, <1>2, LockFactsHold, EarnedFactsHold, PTL DEF ChangesSpec

(***************************************************************************)
(* Whatever handlers interleave, are dropped, replayed or raced by a       *)
(* deletion: a policy is written for a staged change only with the passkey *)
(* of the end-user it was staged for, and for a proposal, where WebAuthn is *)
(* configured, only with that of the manager who approves it; a staged     *)
(* change is written at most once and as it was staged, a proposal marked  *)
(* approved has been written, and an agent's queue outgrows its cap by no  *)
(* more than the other requests under way.                                 *)
(***************************************************************************)
THEOREM AppliedWasEarned == ChangesSpec => []ChangesAreEarned
  <1>1. LockFacts /\ EarnedFacts /\ FloodFacts => ChangesAreEarned
    <2> SUFFICES ASSUME LockFacts, EarnedFacts, FloodFacts PROVE ChangesAreEarned
      OBVIOUS
    <2>1. StepUpIsOwn
      BY DEF StepUpIsOwn, EarnedFacts, AuthorEarned, NeedsKey
    <2>2. ChangeAppliedOnce
      BY DEF ChangeAppliedOnce, EarnedFacts, AuthorEarned, OneWriter
    <2>3. ApprovedWasApplied
      BY DEF ApprovedWasApplied, EarnedFacts, WrittenFor
    <2>4. ProposalFloodIsBounded
      <3>1. /\ Cardinality(PendingSet) \in Nat /\ Cardinality(Proposing) \in Nat
            /\ Cardinality(Handlers) \in Nat /\ ProposalCap \in Nat
        BY ProposingIsCounted, HandlerAssumption, FS_CardinalityType DEF FloodFacts
      <3>2. Cardinality(PendingSet) <= ProposalCap + Cardinality(Handlers) - 1
        BY <3>1 DEF FloodFacts
      <3> QED BY <3>2 DEF ProposalFloodIsBounded, PendingSet
    <2> QED BY <2>1, <2>2, <2>3, <2>4 DEF ChangesAreEarned
  <1> QED BY <1>1, LockFactsHold, EarnedFactsHold, FloodFactsHold, PTL

-----------------------------------------------------------------------------
(* The merges                                                              *)

\* A function on the fields of a row, each of its type, is a policy row.
LEMMA RowIsTyped ==
    ASSUME NEW row, row = [f \in DOMAIN EmptyRow |-> row[f]],
           row.autoMethods \in RequestFields.autoMethods,
           row.requireMethods \in RequestFields.requireMethods,
           row.autoUrls \in RequestFields.autoUrls, row.requireUrls \in RequestFields.requireUrls,
           row.approvers \in RequestFields.approvers,
           row.channel \in {"none", "telegram", "matrix", "dashboard", "agent_reflected", "app"},
           row.place \in RequestFields.place,
           row.matrixApprovers \in RequestFields.matrixApprovers,
           row.passkey \in RequestFields.passkey, row.min \in Nat \ {0}
    PROVE  row \in PolicyRows
  <1>1. DOMAIN EmptyRow = {"autoMethods", "requireMethods", "autoUrls", "requireUrls", "approvers",
                           "channel", "place", "matrixApprovers", "passkey", "min"}
    BY DEF EmptyRow
  <1>2. row = [f \in {"autoMethods", "requireMethods", "autoUrls", "requireUrls", "approvers",
                      "channel", "place", "matrixApprovers", "passkey", "min"} |-> row[f]]
    BY <1>1
  <1>3. row = [autoMethods |-> row.autoMethods, requireMethods |-> row.requireMethods,
               autoUrls |-> row.autoUrls, requireUrls |-> row.requireUrls,
               approvers |-> row.approvers, channel |-> row.channel, place |-> row.place,
               matrixApprovers |-> row.matrixApprovers, passkey |-> row.passkey, min |-> row.min]
    BY <1>2
  <1> QED BY <1>3 DEF PolicyRows

\* The fields of a policy row.
LEMMA RowFields ==
    ASSUME NEW row \in PolicyRows
    PROVE  /\ row = [f \in DOMAIN EmptyRow |-> row[f]]
           /\ row.autoMethods \in RequestFields.autoMethods
           /\ row.requireMethods \in RequestFields.requireMethods
           /\ row.autoUrls \in RequestFields.autoUrls /\ row.requireUrls \in RequestFields.requireUrls
           /\ row.approvers \in RequestFields.approvers
           /\ row.channel \in {"none", "telegram", "matrix", "dashboard", "agent_reflected", "app"}
           /\ row.place \in RequestFields.place
           /\ row.matrixApprovers \in RequestFields.matrixApprovers
           /\ row.passkey \in RequestFields.passkey /\ row.min \in Nat \ {0}
  <1>1. DOMAIN EmptyRow = {"autoMethods", "requireMethods", "autoUrls", "requireUrls", "approvers",
                           "channel", "place", "matrixApprovers", "passkey", "min"}
    BY DEF EmptyRow
  <1>2. row = [f \in DOMAIN row |-> row[f]] /\ DOMAIN row = DOMAIN EmptyRow
    BY <1>1 DEF PolicyRows
  <1> QED BY <1>2 DEF PolicyRows

\* What a missing policy lends is of the types of a row.
LEMMA EmptyRowTyped == EmptyRow \in PolicyRows
  <1>1. /\ EmptyRow.autoMethods \in RequestFields.autoMethods
        /\ EmptyRow.requireMethods \in RequestFields.requireMethods
        /\ EmptyRow.autoUrls \in RequestFields.autoUrls
        /\ EmptyRow.requireUrls \in RequestFields.requireUrls
        /\ EmptyRow.approvers \in RequestFields.approvers
        /\ EmptyRow.place \in RequestFields.place
        /\ EmptyRow.matrixApprovers \in RequestFields.matrixApprovers
        /\ EmptyRow.passkey \in RequestFields.passkey
    BY DEF EmptyRow, RequestFields
  <1>2. EmptyRow.channel = "none" /\ EmptyRow.min = 1 /\ EmptyRow = [f \in DOMAIN EmptyRow |-> EmptyRow[f]]
    BY DEF EmptyRow
  <1> QED BY <1>1, <1>2, RowIsTyped

\* build_merged_policy_row makes a row that can be evaluated.
LEMMA MergedRowTyped ==
    ASSUME NEW req, NEW current \in PolicyRows \cup {NoPolicy}, Parses(req, DOMAIN EmptyRow),
           NormalizePolicyApprovalChannel(req)
    PROVE  BuildMergedPolicyRow(req, current) \in PolicyRows
  <1>1. PICK cur : cur = IF current = NoPolicy THEN EmptyRow ELSE current
    OBVIOUS
  <1>2. cur \in PolicyRows
    BY <1>1, EmptyRowTyped
  <1>3. PICK row : row = BuildMergedPolicyRow(req, current)
    OBVIOUS
  <1>4. /\ DOMAIN row = DOMAIN EmptyRow
        /\ \A f \in DOMAIN EmptyRow \ {"min"} : row[f] = IF f \in DOMAIN req THEN req[f] ELSE cur[f]
        /\ row.min = AtLeastOne(IF "min" \in DOMAIN req THEN req.min ELSE cur.min)
    BY <1>1, <1>3, MergedRowFields
  <1>5. row = [f \in DOMAIN EmptyRow |-> row[f]]
    BY <1>3 DEF BuildMergedPolicyRow
  <1>6. DOMAIN EmptyRow = {"autoMethods", "requireMethods", "autoUrls", "requireUrls", "approvers",
                           "channel", "place", "matrixApprovers", "passkey", "min"}
    BY DEF EmptyRow
  <1>7. \A f \in DOMAIN req : req[f] \in RequestFields[f]
    BY DEF Parses
  <1>8. \A f \in {"autoMethods", "requireMethods", "autoUrls", "requireUrls", "approvers",
                  "place", "matrixApprovers", "passkey"} : row[f] \in RequestFields[f]
    <2>1. \A f \in {"autoMethods", "requireMethods", "autoUrls", "requireUrls", "approvers",
                    "place", "matrixApprovers", "passkey"} : cur[f] \in RequestFields[f]
      BY <1>2, RowFields
    <2> QED BY <1>4, <1>6, <1>7, <2>1
  <1>9. row.channel \in {"none", "telegram", "matrix", "dashboard", "agent_reflected", "app"}
    <2>1. row.channel = IF "channel" \in DOMAIN req THEN req.channel ELSE cur.channel
      BY <1>4, <1>6
    <2> QED BY <1>2, <2>1, RowFields DEF NormalizePolicyApprovalChannel
  <1>10. row.min \in Nat \ {0}
    <2>1. cur.min \in Nat
      BY <1>2, RowFields
    <2>2. "min" \in DOMAIN req => req.min \in Nat
      BY <1>7 DEF RequestFields
    <2> QED BY <1>4, <2>1, <2>2 DEF AtLeastOne
  <1>11. row \in PolicyRows
    BY <1>5, <1>8, <1>9, <1>10, RowIsTyped
  <1> QED BY <1>3, <1>11

\* The URLs that must be approved, of a row or of none.
LEMMA UrlsTyped ==
    ASSUME NEW row \in PolicyRows \cup {NoPolicy}
    PROVE  UrlsOf(row) \in RequestFields.requireUrls
  <1>1. {} \in RequestFields.requireUrls
    BY DEF RequestFields
  <1> QED BY <1>1, RowFields DEF UrlsOf

\* Keeping the URLs in force keeps a row a row.
LEMMA UrlsKept ==
    ASSUME NEW row \in PolicyRows, NEW urls \in RequestFields.requireUrls
    PROVE  /\ [row EXCEPT !.requireUrls = urls] \in PolicyRows
           /\ [row EXCEPT !.requireUrls = urls].requireUrls = urls
  <1> DEFINE T == RequestFields.requireUrls
  <1> HIDE DEF T
  <1>1. urls \in T /\ PolicyRows = [autoMethods : RequestFields.autoMethods,
            requireMethods : RequestFields.requireMethods,
            autoUrls : RequestFields.autoUrls, requireUrls : T, approvers : RequestFields.approvers,
            channel : {"none", "telegram", "matrix", "dashboard", "agent_reflected", "app"},
            place : RequestFields.place, matrixApprovers : RequestFields.matrixApprovers,
            passkey : RequestFields.passkey, min : Nat \ {0}]
    BY DEF PolicyRows, T
  <1> QED BY <1>1

\* The app's row: its channel and no place to ask in.
LEMMA AppRowTyped ==
    ASSUME NEW row \in PolicyRows, NEW channel \in {"none", "app"}
    PROVE  [row EXCEPT !.channel = channel, !.place = "none", !.matrixApprovers = {}] \in PolicyRows
  <1>1. "none" \in RequestFields.place /\ {} \in RequestFields.matrixApprovers
    BY DEF RequestFields
  <1>2. [row EXCEPT !.channel = channel] \in PolicyRows
    BY DEF PolicyRows
  <1>3. [[row EXCEPT !.channel = channel] EXCEPT !.place = "none"] \in PolicyRows
    BY <1>1, <1>2 DEF PolicyRows
  <1>4. [[[row EXCEPT !.channel = channel] EXCEPT !.place = "none"] EXCEPT !.matrixApprovers = {}]
            \in PolicyRows
    BY <1>1, <1>3 DEF PolicyRows
  <1> QED BY <1>4
(* What a handler holds of the rows it has read and merged.                *)
Merged(w) ==
    /\ w.kind \in {"set", "app", "template", "finish"} => w.row \in PolicyRows
    /\ w.kind = "approve" /\ w.at >= 3 => w.row \in PolicyRows
    /\ w.kind = "propose" => w.row \in load.payloads
    /\ w.kind = "approve" =>
           /\ w.id \in Proposals /\ proposals[w.id].status # "none"
           /\ w.names = DOMAIN proposals[w.id].payload
    /\ w.kind \in {"set", "app"} /\ w.read # Never =>
           w.read \in 0 .. policy /\ w.row.requireUrls = UrlsOf(rows[w.read])
    /\ w.kind = "template" /\ w.read # Never =>
           w.read \in 1 .. Len(templates) /\ w.row.requireUrls = UrlsOf(templates[w.read].row)
    /\ w.kind = "approve" /\ w.read # Never =>
           /\ w.at >= 3 /\ w.read \in 0 .. policy
           /\ w.row = BuildMergedPolicyRow(proposals[w.id].payload, rows[w.read])
    /\ w.kind = "finish" => w.read = Never

(* What the author of a version had made of the one before it.             *)
AuthorMerged(v) ==
    /\ authors[v].read = v - 1 /\ authors[v].kind = "approve" =>
           /\ authors[v].id \in Proposals /\ proposals[authors[v].id].status # "none"
           /\ authors[v].names = DOMAIN proposals[authors[v].id].payload
           /\ rows[v] = BuildMergedPolicyRow(proposals[authors[v].id].payload, rows[v - 1])
    /\ authors[v].read = v - 1 /\ authors[v].kind # "approve" =>
           rows[v].requireUrls = UrlsOf(rows[v - 1])

TemplateMerged(i) ==
    templates[i].author.read = i - 1 =>
        templates[i].row.requireUrls = UrlsOf(templates[i - 1].row)

MergeFacts ==
    /\ \A v \in 0 .. MaxVersion :
           rows[v] \in PolicyRows \cup {NoPolicy} /\ (v > policy => rows[v] = NoPolicy)
    /\ \E S : templates \in Seq(S)
    /\ \A i \in 1 .. Len(templates) : templates[i].row \in PolicyRows \cup {NoPolicy}
    /\ Len(templates) >= 1
    /\ \A i \in 2 .. Len(templates) : TemplateMerged(i)
    /\ \A c \in Changes : changes[c].status # "none" => changes[c].row \in PolicyRows
    /\ \A p \in Proposals : proposals[p].status # "none" => proposals[p].payload \in load.payloads
    /\ \A h \in Handlers : Merged(work[h])
    /\ \A v \in 1 .. policy : AuthorMerged(v)
    /\ \A v \in policy + 1 .. MaxVersion : authors[v].read = Never

\* What moving on leaves in a handler's hands, its row and its reading.
Holding(w, o, row, read) ==
    \/ o.kind = "idle"
    \/ /\ o.kind = w.kind /\ o.at = w.at + 1 /\ o.id = w.id /\ o.names = w.names
       /\ o.row = row /\ o.read = read

\* Moving on holds what the statement left, whatever else it notes.
LEMMA OnwardHolds ==
    ASSUME NEW w, HandlerFacts(w), w.kind # "idle", NEW x, NEW y
    PROVE  /\ Holding(w, Onward(w), w.row, w.read)
           /\ Holding(w, [Onward(w) EXCEPT !.version = x], w.row, w.read)
           /\ Holding(w, [Onward(w) EXCEPT !.seen = x], w.row, w.read)
           /\ Holding(w, [Onward(w) EXCEPT !.key = x], w.row, w.read)
           /\ Holding(w, [Onward(w) EXCEPT !.row = x], x, w.read)
           /\ Holding(w, [Onward(w) EXCEPT !.row = x, !.read = y], x, y)
  <1>1. CASE w.at < Len(Plan(w.kind))
    <2>1. Onward(w) = [kind |-> w.kind, at |-> w.at + 1, by |-> w.by, id |-> w.id,
                       names |-> w.names, row |-> w.row, read |-> w.read, seen |-> w.seen,
                       key |-> w.key, version |-> w.version]
      BY <1>1 DEF Onward, HandlerFacts, IsRecord
    <2>2. /\ Holding(w, Onward(w), w.row, w.read)
          /\ Holding(w, [Onward(w) EXCEPT !.version = x], w.row, w.read)
          /\ Holding(w, [Onward(w) EXCEPT !.seen = x], w.row, w.read)
      BY <2>1 DEF Holding
    <2>3. /\ Holding(w, [Onward(w) EXCEPT !.key = x], w.row, w.read)
          /\ Holding(w, [Onward(w) EXCEPT !.row = x], x, w.read)
      BY <2>1 DEF Holding
    <2>4. Holding(w, [Onward(w) EXCEPT !.row = x, !.read = y], x, y)
      BY <2>1 DEF Holding
    <2> QED BY <2>2, <2>3, <2>4
  <1>2. CASE ~(w.at < Len(Plan(w.kind)))
    <2>1. Onward(w) = Rest
      BY <1>2 DEF Onward
    <2> QED BY <2>1 DEF Rest, Holding
  <1> QED BY <1>1, <1>2

(* The tables only grow: versions and templates stay as they were written, *)
(* and a proposal as it was made.                                          *)
Grows ==
    /\ load' = load
    /\ policy \in Nat /\ policy' \in {policy, policy + 1}
    /\ \A v \in 0 .. policy : rows'[v] = rows[v] /\ authors'[v] = authors[v]
    /\ Len(templates) \in Nat /\ Len(templates') \in {Len(templates), Len(templates) + 1}
    /\ \A i \in 1 .. Len(templates) : templates'[i] = templates[i]
    /\ \A p \in Proposals : proposals[p].status # "none" =>
           proposals'[p].status # "none" /\ proposals'[p].payload = proposals[p].payload

\* What was read or written before stays so.
LEMMA GrowthKeeps ==
    ASSUME Grows
    PROVE  /\ \A w : Merged(w) => Merged(w)'
           /\ \A v \in 1 .. policy : AuthorMerged(v) => AuthorMerged(v)'
           /\ \A i \in 2 .. Len(templates) : TemplateMerged(i) => TemplateMerged(i)'
  <1>1. ASSUME NEW w, Merged(w)
        PROVE  Merged(w)'
    <2>1. w.kind = "propose" => w.row \in load'.payloads
      BY <1>1 DEF Merged, Grows
    <2>2. w.kind = "approve" => /\ w.id \in Proposals /\ proposals'[w.id].status # "none"
                                /\ proposals'[w.id].payload = proposals[w.id].payload
      BY <1>1 DEF Merged, Grows
    <2>3. \A v \in 0 .. policy : v \in 0 .. policy' /\ rows'[v] = rows[v]
      BY DEF Grows
    <2>4. \A i \in 1 .. Len(templates) : i \in 1 .. Len(templates') /\ templates'[i] = templates[i]
      BY DEF Grows
    <2> QED BY <1>1, <2>1, <2>2, <2>3, <2>4 DEF Merged
  <1>2. ASSUME NEW v \in 1 .. policy, AuthorMerged(v)
        PROVE  AuthorMerged(v)'
    <2>1. /\ rows'[v] = rows[v] /\ rows'[v - 1] = rows[v - 1] /\ authors'[v] = authors[v]
      BY DEF Grows
    <2> QED BY <1>2, <2>1 DEF AuthorMerged, Grows
  <1>3. ASSUME NEW i \in 2 .. Len(templates), TemplateMerged(i)
        PROVE  TemplateMerged(i)'
    <2>1. templates'[i] = templates[i] /\ templates'[i - 1] = templates[i - 1]
      BY DEF Grows
    <2> QED BY <1>3, <2>1 DEF TemplateMerged
  <1> QED BY <1>1, <1>2, <1>3

\* Handlers that stay, or hold what they may hold.
LEMMA HandlersMerge ==
    ASSUME MergeFacts, Grows,
           \A g \in Handlers : work'[g] = work[g] \/ Merged(work'[g])
    PROVE  \A g \in Handlers : Merged(work[g])'
  <1> SUFFICES ASSUME NEW g \in Handlers PROVE Merged(work[g])'
    OBVIOUS
  <1>1. PICK x : x = work'[g]
    OBVIOUS
  <1>2. Merged(x)
    BY <1>1 DEF MergeFacts
  <1>3. Merged(x)'
    BY <1>2, GrowthKeeps
  <1> QED BY <1>1, <1>3 DEF Merged

\* A step that writes neither a policy nor a template.
LEMMA TablesMerge ==
    ASSUME LockFacts, MergeFacts, UNCHANGED <<policy, load, rows, authors, templates>>,
           \A g \in Handlers : work'[g] = work[g] \/ Merged(work'[g]),
           \A c \in Changes : changes'[c].status # "none" => changes'[c].row \in PolicyRows,
           \A p \in Proposals : proposals[p].status # "none" =>
               proposals'[p].status # "none" /\ proposals'[p].payload = proposals[p].payload,
           \A p \in Proposals : proposals'[p].status # "none" => proposals'[p].payload \in load.payloads
    PROVE  MergeFacts'
  <1>1. PICK S : templates \in Seq(S)
    BY DEF MergeFacts
  <1>2. Len(templates) \in Nat /\ policy \in Nat
    BY <1>1, TimeAssumption DEF LockFacts
  <1>3. Grows
    BY <1>2 DEF Grows
  <1>4. /\ \A g \in Handlers : Merged(work[g])'
        /\ \A v \in 1 .. policy : AuthorMerged(v)'
        /\ \A i \in 2 .. Len(templates) : TemplateMerged(i)'
    BY <1>3, HandlersMerge, GrowthKeeps DEF MergeFacts
  <1>5. \E T : templates' \in Seq(T)
    BY <1>1
  <1> QED BY <1>4, <1>5 DEF MergeFacts

\* A step that changes only what one handler holds.
LEMMA OneMerges ==
    ASSUME LockFacts, MergeFacts, NEW h \in Handlers, NEW x, Merged(x),
           work' = [work EXCEPT ![h] = x],
           UNCHANGED <<policy, load, rows, authors, templates, proposals, changes>>
    PROVE  MergeFacts'
  <1>1. \A g \in Handlers : work'[g] = work[g] \/ Merged(work'[g])
    BY DEF LockFacts
  <1>2. /\ \A c \in Changes : changes'[c].status # "none" => changes'[c].row \in PolicyRows
        /\ \A p \in Proposals : proposals'[p].status # "none" => proposals'[p].payload \in load.payloads
    BY DEF MergeFacts
  <1> QED BY <1>1, <1>2, TablesMerge

\* A handler that is idle, begins an approval or denies holds nothing.
LEMMA NothingMerged ==
    ASSUME NEW x, x.kind \in {"idle", "begin", "deny"}
    PROVE  Merged(x)
  BY DEF Merged

\* A handler that begins.
LEMMA BeginMerges ==
    ASSUME LockFacts, MergeFacts, NEW h \in Handlers,
           NEW kind, NEW by, NEW id, NEW names, NEW row,
           Begin(h, Started(kind, by, id, names, row)), UNCHANGED <<vars, load, Tables>>,
           kind \in {"set", "app", "template", "finish"} => row \in PolicyRows,
           kind = "propose" => row \in load.payloads,
           kind = "approve" => /\ id \in Proposals /\ proposals[id].status # "none"
                               /\ names = DOMAIN proposals[id].payload
    PROVE  MergeFacts'
  <1>1. UNCHANGED <<policy, load, rows, authors, templates, proposals, changes>>
    BY DEF vars, Tables
  <1>2. PICK x : x = Started(kind, by, id, names, row)
    OBVIOUS
  <1>3. /\ x.kind = kind /\ x.at = 1 /\ x.id = id /\ x.names = names /\ x.row = row
        /\ x.read = Never
    BY <1>2 DEF Started
  <1>4. Merged(x)
    BY <1>3 DEF Merged
  <1>5. work' = [work EXCEPT ![h] = x]
    BY <1>2 DEF Begin
  <1> QED BY <1>1, <1>4, <1>5, OneMerges

\* Taking a request: serde and the validations have typed its body.
LEMMA RequestMerges ==
    ASSUME LockFacts, EarnedFacts, MergeFacts, NEW h \in Handlers, Request(h)
    PROVE  MergeFacts'
  <1>0. /\ load.decisions \subseteq {"approve", "deny"}
        /\ \A req \in load.sets \cup load.templates : Parses(req, DOMAIN EmptyRow)
        /\ \A req \in load.apps : Parses(req, DOMAIN DefaultBaseline) /\ "passkey" \in DOMAIN req
    BY LoadAssumption, RequestAssumption DEF LockFacts
  <1>1. ASSUME NEW m, NEW req \in load.sets \cup load.templates,
               HandleSetPolicy(h, m, req) \/ HandleSetPolicyTemplate(h, m, req)
        PROVE  MergeFacts'
    <2>1. NormalizePolicyApprovalChannel(req)
      BY <1>1 DEF HandleSetPolicy, HandleSetPolicyTemplate, SetPolicyRequest
    <2>2. BuildMergedPolicyRow(req, NoPolicy) \in PolicyRows
      BY <1>0, <2>1, MergedRowTyped
    <2> QED BY <1>1, <2>2, BeginMerges DEF HandleSetPolicy, HandleSetPolicyTemplate
  <1>2. ASSUME NEW e, NEW req \in load.apps, HandleSetEndUserPolicy(h, e, req)
        PROVE  MergeFacts'
    <2>1. Parses(req, DOMAIN EmptyRow) /\ NormalizePolicyApprovalChannel(req)
      <3>1. DOMAIN DefaultBaseline \subseteq DOMAIN EmptyRow /\ "channel" \notin DOMAIN DefaultBaseline
        BY DEF DefaultBaseline, EmptyRow
      <3> QED BY <1>0, <3>1 DEF Parses, NormalizePolicyApprovalChannel
    <2>2. PICK row : row = BuildMergedPolicyRow(req, NoPolicy)
      OBVIOUS
    <2>3. row \in PolicyRows
      BY <2>1, <2>2, MergedRowTyped
    <2>4. PICK channel \in {"none", "app"} : channel = IF req.passkey THEN "none" ELSE "app"
      OBVIOUS
    <2>5. PICK r : r = [row EXCEPT !.channel = channel, !.place = "none", !.matrixApprovers = {}]
      OBVIOUS
    <2>6. r \in PolicyRows
      BY <2>3, <2>5, AppRowTyped
    <2>7. Begin(h, Started("app", e, NoOne, DOMAIN req, r)) /\ UNCHANGED <<vars, load, Tables>>
      BY <1>2, <2>2, <2>4, <2>5 DEF HandleSetEndUserPolicy
    <2> QED BY <2>6, <2>7, BeginMerges
  <1>3. ASSUME NEW payload \in load.payloads, HandleAgentCreateProposal(h, payload)
        PROVE  MergeFacts'
    BY <1>3, BeginMerges DEF HandleAgentCreateProposal
  <1>4. ASSUME NEW m, NEW p, HandleBeginProposalApproval(h, m, p) \/ HandlePolicyChangePasskeyBegin(h, m, p)
        PROVE  MergeFacts'
    BY <1>4, BeginMerges DEF HandleBeginProposalApproval, HandlePolicyChangePasskeyBegin
  <1>5. ASSUME NEW m, NEW p \in Proposals, NEW d \in load.decisions, HandleResolveProposal(h, m, p, d)
        PROVE  MergeFacts'
    <2>1. d \in {"approve", "deny"}
      BY <1>0
    <2>2. proposals[p].status # "none"
      BY <1>5 DEF HandleResolveProposal
    <2> QED BY <1>5, <2>1, <2>2, BeginMerges DEF HandleResolveProposal
  <1>6. ASSUME NEW e, NEW c \in Changes, HandlePolicyChangePasskeyFinish(h, e, c)
        PROVE  MergeFacts'
    <2>1. changes[c].row \in PolicyRows
      BY <1>6 DEF HandlePolicyChangePasskeyFinish, MergeFacts
    <2> QED BY <1>6, <2>1, BeginMerges DEF HandlePolicyChangePasskeyFinish
  <1> QED BY <1>1, <1>2, <1>3, <1>4, <1>5, <1>6 DEF Request

\* Statements that leave every table alone: the reads and the merge take
\* what is in force, the rest moves on with what it has.
LEMMA PassingMerges ==
    ASSUME LockFacts, EarnedFacts, MergeFacts, NEW h \in Handlers,
           \/ KeepUrls(h) \/ CheckLock(h) \/ RefuseLocked(h) \/ WriteFails(h)
           \/ Invalidate(h) \/ BeginApproval(h) \/ MergeProposal(h) \/ Dropped(h)
           \/ ApproveUnasked(h)
           \/ \E key \in People : FinishApproval(h, key)
    PROVE  MergeFacts'
  <1>0. PICK w : w = work[h]
    OBVIOUS
  <1>1. HandlerFacts(w) /\ Merged(w) /\ policy \in 0 .. MaxVersion /\ policy \in Nat
    BY <1>0, TimeAssumption DEF LockFacts, MergeFacts
  <1>2. UNCHANGED <<policy, load, rows, authors, templates, proposals, changes>>
    BY DEF KeepUrls, CheckLock, RefuseLocked, WriteFails, Invalidate,
         InvalidatePolicyCache, BeginApproval, ApproveUnasked, MergeProposal, Dropped, FinishApproval, vars, Tables
  <1>3. Step(h) # "idle" /\ w.kind # "idle"
    <2>1. Step(h) # "idle"
      BY DEF KeepUrls, CheckLock, RefuseLocked, WriteFails, Invalidate,
           BeginApproval, ApproveUnasked, MergeProposal, Dropped, FinishApproval
    <2> QED BY <1>0, <1>1, <2>1, EarnedPlaces
  <1>4. ASSUME NEW x, work' = [work EXCEPT ![h] = x], Merged(x)
        PROVE  MergeFacts'
    BY <1>2, <1>4, OneMerges
  <1>5. Ends(h) => MergeFacts'
    <2>1. Merged(Rest)
      BY NothingMerged DEF Rest
    <2> QED BY <1>4, <2>1 DEF Ends
  <1>6. w.at \in Nat
    BY <1>1, <1>3 DEF HandlerFacts, Placed
  <1>7. ASSUME NEW o, Holding(w, o, w.row, w.read), work' = [work EXCEPT ![h] = o],
               w.kind = "approve" => w.at # 2
        PROVE  MergeFacts'
    <2>1. Merged(o)
      <3>1. CASE o.kind = "idle"
        BY <3>1, NothingMerged
      <3>2. CASE o.kind # "idle"
        <4>1. /\ o.kind = w.kind /\ o.at = w.at + 1 /\ o.id = w.id /\ o.names = w.names
              /\ o.row = w.row /\ o.read = w.read
          BY <1>7, <3>2 DEF Holding
        <4>2. w.kind = "approve" /\ o.at >= 3 => w.at >= 3
          BY <1>6, <1>7, <4>1
        <4>3. w.at >= 3 => o.at >= 3
          BY <1>6, <4>1
        <4> QED BY <1>1, <4>1, <4>2, <4>3 DEF Merged
      <3> QED BY <3>1, <3>2
    <2> QED BY <1>4, <1>7, <2>1
  <1>8. ASSUME KeepUrls(h)
        PROVE  MergeFacts'
    <2>1. w.kind \in {"set", "app", "template"} /\ w.at < Len(Plan(w.kind)) /\ w.row \in PolicyRows
      BY <1>0, <1>1, <1>8, EarnedPlaces, StepPlaces DEF KeepUrls, Merged
    <2>2. Onward(w).row = w.row
      <3>1. Onward(w) = [w EXCEPT !.at = w.at + 1]
        BY <2>1 DEF Onward
      <3> QED BY <1>1, <3>1 DEF HandlerFacts, IsRecord
    <2>3. CASE GoesOn(h)
      <3>1. work' = [work EXCEPT ![h] = Onward(w)]
        BY <1>0, <2>3 DEF GoesOn
      <3> QED BY <1>1, <1>3, <1>7, <2>1, <3>1, OnwardHolds
    <2>4. ASSUME NEW urls, NEW read, urls \in RequestFields.requireUrls,
                 w.kind \in {"set", "app"} => read \in 0 .. policy /\ urls = UrlsOf(rows[read]),
                 w.kind = "template" =>
                     read \in 1 .. Len(templates) /\ urls = UrlsOf(templates[read].row),
                 work' = [work EXCEPT ![h] =
                             [Onward(w) EXCEPT !.row = [w.row EXCEPT !.requireUrls = urls],
                                               !.read = read]]
          PROVE  MergeFacts'
      <3>1. PICK row : row = [w.row EXCEPT !.requireUrls = urls]
        OBVIOUS
      <3>2. row \in PolicyRows /\ row.requireUrls = urls
        BY <2>1, <2>4, <3>1, UrlsKept
      <3>3. PICK o : o = [Onward(w) EXCEPT !.row = row, !.read = read]
        OBVIOUS
      <3>4. Holding(w, o, row, read)
        BY <1>1, <1>3, <3>3, OnwardHolds
      <3>5. Merged(o)
        <4>1. CASE o.kind = "idle"
          BY <4>1, NothingMerged
        <4>2. CASE o.kind # "idle"
          <5>1. o.kind = w.kind /\ o.row = row /\ o.read = read
            BY <3>4, <4>2 DEF Holding
          <5> QED BY <2>1, <2>4, <3>2, <5>1 DEF Merged
        <4> QED BY <4>1, <4>2
      <3>6. work' = [work EXCEPT ![h] = o]
        BY <2>4, <3>1, <3>3
      <3> QED BY <1>4, <3>5, <3>6
    <2>5. CASE w.kind # "template" /\ ~GoesOn(h)
      <3>1. work' = [work EXCEPT ![h] = [Onward(w) EXCEPT
                        !.row = [w.row EXCEPT !.requireUrls = UrlsOf(rows[policy])], !.read = policy]]
        BY <1>0, <1>8, <2>2, <2>5 DEF KeepUrls, Current
      <3>2. UrlsOf(rows[policy]) \in RequestFields.requireUrls
        BY <1>1, UrlsTyped DEF MergeFacts
      <3>3. policy \in 0 .. policy
        BY <1>1
      <3> QED BY <2>4, <2>5, <3>1, <3>2, <3>3
    <2>6. CASE w.kind = "template" /\ ~GoesOn(h)
      <3>0. PICK n : n = Len(templates)
        OBVIOUS
      <3>1. work' = [work EXCEPT ![h] = [Onward(w) EXCEPT
                        !.row = [w.row EXCEPT !.requireUrls = UrlsOf(templates[n].row)], !.read = n]]
        BY <1>0, <1>8, <2>2, <2>6, <3>0 DEF KeepUrls, LatestTemplate
      <3>2. n \in 1 .. Len(templates)
        <4>1. PICK S : templates \in Seq(S)
          BY DEF MergeFacts
        <4>2. Len(templates) \in Nat /\ Len(templates) >= 1
          BY <4>1 DEF MergeFacts
        <4> QED BY <3>0, <4>2
      <3>3. UrlsOf(templates[n].row) \in RequestFields.requireUrls
        BY <3>2, UrlsTyped DEF MergeFacts
      <3> QED BY <2>4, <2>6, <3>1, <3>2, <3>3
    <2> QED BY <2>3, <2>5, <2>6
  <1>9. ASSUME MergeProposal(h)
        PROVE  MergeFacts'
    <2>1. w.kind = "approve" /\ w.at = 2 /\ w.read = Never
      BY <1>0, <1>1, <1>9, EarnedPlaces DEF MergeProposal, Merged
    <2>2. PICK payload : payload = proposals[w.id].payload
      OBVIOUS
    <2>3. /\ w.id \in Proposals /\ proposals[w.id].status # "none"
          /\ w.names = DOMAIN proposals[w.id].payload /\ payload \in load.payloads
      BY <1>1, <2>1, <2>2 DEF Merged, MergeFacts
    <2>4. Parses(payload, DOMAIN EmptyRow) /\ NormalizePolicyApprovalChannel(payload)
      <3>1. DOMAIN DefaultBaseline \subseteq DOMAIN EmptyRow /\ "channel" \notin DOMAIN DefaultBaseline
        BY DEF DefaultBaseline, EmptyRow
      <3>2. Parses(payload, DOMAIN DefaultBaseline)
        BY <2>3, RequestAssumption DEF LockFacts
      <3> QED BY <3>1, <3>2 DEF Parses, NormalizePolicyApprovalChannel
    <2>5. ASSUME NEW o, NEW row \in PolicyRows, NEW read, Holding(w, o, row, read),
                 read # Never => read \in 0 .. policy /\ row = BuildMergedPolicyRow(payload, rows[read]),
                 work' = [work EXCEPT ![h] = o]
          PROVE  MergeFacts'
      <3>1. Merged(o)
        <4>1. CASE o.kind = "idle"
          BY <4>1, NothingMerged
        <4>2. CASE o.kind # "idle"
          <5>1. /\ o.kind = "approve" /\ o.at = 3 /\ o.row = row /\ o.read = read
                /\ o.id = w.id /\ o.names = w.names
            BY <2>1, <2>5, <4>2 DEF Holding
          <5> QED BY <2>2, <2>3, <2>5, <5>1 DEF Merged
        <4> QED BY <4>1, <4>2
      <3> QED BY <1>4, <2>5, <3>1
    <2>6. /\ BuildMergedPolicyRow(payload, rows[policy]) \in PolicyRows
          /\ BuildMergedPolicyRow(payload, NoPolicy) \in PolicyRows
      BY <1>1, <2>4, MergedRowTyped DEF MergeFacts
    <2>7. CASE Ends(h)
      BY <1>5, <2>7
    <2>8. CASE work' = [work EXCEPT ![h] = [Onward(w) EXCEPT
                   !.row = BuildMergedPolicyRow(payload, Current), !.read = policy]]
      <3>1. PICK row : row = BuildMergedPolicyRow(payload, rows[policy])
        OBVIOUS
      <3>2. PICK o : o = [Onward(w) EXCEPT !.row = row, !.read = policy]
        OBVIOUS
      <3>3. Holding(w, o, row, policy) /\ work' = [work EXCEPT ![h] = o]
        BY <1>1, <1>3, <2>8, <3>1, <3>2, OnwardHolds DEF Current
      <3>4. row \in PolicyRows /\ policy \in 0 .. policy
        BY <1>1, <2>6, <3>1
      <3> QED BY <2>5, <3>1, <3>3, <3>4
    <2>9. CASE work' = [work EXCEPT ![h] = [Onward(w) EXCEPT
                   !.row = BuildMergedPolicyRow(payload, NoPolicy)]]
      <3>1. PICK row : row = BuildMergedPolicyRow(payload, NoPolicy)
        OBVIOUS
      <3>2. PICK o : o = [Onward(w) EXCEPT !.row = row]
        OBVIOUS
      <3>3. Holding(w, o, row, Never) /\ work' = [work EXCEPT ![h] = o]
        BY <1>1, <1>3, <2>1, <2>9, <3>1, <3>2, OnwardHolds
      <3>4. row \in PolicyRows
        BY <2>6, <3>1
      <3> QED BY <2>5, <3>3, <3>4
    <2> QED BY <1>0, <1>9, <2>2, <2>7, <2>8, <2>9 DEF MergeProposal
  <1>10. ASSUME CheckLock(h)
         PROVE  MergeFacts'
    <2>1. /\ work' = [work EXCEPT ![h] = [Onward(w) EXCEPT !.seen = policy]]
          /\ w.kind = "approve" => w.at # 2
      BY <1>0, <1>1, <1>10, EarnedPlaces DEF CheckLock
    <2> QED BY <1>1, <1>3, <1>7, <2>1, OnwardHolds
  <1>11. ASSUME Invalidate(h)
         PROVE  MergeFacts'
    <2>1. work' = [work EXCEPT ![h] = Onward(w)] /\ (w.kind = "approve" => w.at # 2)
      BY <1>0, <1>1, <1>11, EarnedPlaces DEF Invalidate, GoesOn
    <2> QED BY <1>1, <1>3, <1>7, <2>1, OnwardHolds
  <1>12. ASSUME NEW key, FinishApproval(h, key)
         PROVE  MergeFacts'
    <2>1. /\ Ends(h) \/ work' = [work EXCEPT ![h] = [Onward(w) EXCEPT !.key = key]]
          /\ w.at # 2
      BY <1>0, <1>1, <1>12, EarnedPlaces DEF FinishApproval
    <2> QED BY <1>1, <1>3, <1>5, <1>7, <2>1, OnwardHolds
  <1>13. ASSUME ApproveUnasked(h)
         PROVE  MergeFacts'
    <2>1. work' = [work EXCEPT ![h] = Onward(w)] /\ w.at # 2
      BY <1>0, <1>1, <1>13, EarnedPlaces DEF ApproveUnasked, GoesOn
    <2> QED BY <1>1, <1>3, <1>7, <2>1, OnwardHolds
  <1>14. CASE RefuseLocked(h) \/ WriteFails(h) \/ BeginApproval(h) \/ Dropped(h)
    BY <1>5, <1>14 DEF RefuseLocked, WriteFails, BeginApproval, Dropped
  <1> QED BY <1>8, <1>9, <1>10, <1>11, <1>12, <1>13, <1>14

\* Rows that are staged, proposed, resolved, claimed, or lapse.
LEMMA RowMerges ==
    ASSUME LockFacts, EarnedFacts, MergeFacts,
           \/ \E h \in Handlers, c \in Changes : StageChange(h, c)
           \/ \E h \in Handlers, p \in Proposals : CreateProposal(h, p)
           \/ \E h \in Handlers : ResolveProposal(h)
           \/ \E h \in Handlers : ClaimPendingPolicyChange(h)
           \/ \E p \in Proposals : ProposalLapses(p)
           \/ \E c \in Changes : ChangeLapses(c)
    PROVE  MergeFacts'
  <1>1. UNCHANGED <<policy, load, rows, authors, templates>>
    BY DEF StageChange, CreateProposal, ResolveProposal, ClaimPendingPolicyChange,
         ProposalLapses, ChangeLapses, vars
  <1>2. /\ work = [g \in Handlers |-> work[g]] /\ proposals = [p \in Proposals |-> proposals[p]]
        /\ changes = [c \in Changes |-> changes[c]]
        /\ \A p \in Proposals : IsProposal(proposals[p])
        /\ \A c \in Changes : IsChange(changes[c])
    BY DEF LockFacts, EarnedFacts
  <1>3. /\ \A c \in Changes : changes[c].status # "none" => changes[c].row \in PolicyRows
        /\ \A p \in Proposals : proposals[p].status # "none" => proposals[p].payload \in load.payloads
    BY DEF MergeFacts
  <1>4. Merged(Rest)
    BY NothingMerged DEF Rest
  <1>5. ASSUME NEW h \in Handlers, NEW c \in Changes, StageChange(h, c)
        PROVE  MergeFacts'
    <2>1. /\ work' = [work EXCEPT ![h] = Rest] /\ proposals' = proposals
          /\ changes' = [changes EXCEPT ![c] = [status |-> "pending", row |-> work[h].row,
                                                endUser |-> work[h].by, lapsed |-> FALSE]]
      BY <1>5 DEF StageChange, CreatePendingPolicyChange, Ends
    <2>2. \A g \in Handlers : work'[g] = work[g] \/ Merged(work'[g])
      BY <1>2, <1>4, <2>1
    <2>3. work[h].row \in PolicyRows
      BY <1>5 DEF StageChange, MergeFacts, Merged
    <2>4. \A d \in Changes : changes'[d] = changes[d] \/ changes'[d].row = work[h].row
      BY <1>2, <2>1
    <2>5. \A d \in Changes : changes'[d].status # "none" => changes'[d].row \in PolicyRows
      BY <1>3, <2>3, <2>4
    <2> QED BY <1>1, <1>3, <2>1, <2>2, <2>5, TablesMerge
  <1>6. ASSUME NEW h \in Handlers, NEW p \in Proposals, CreateProposal(h, p)
        PROVE  MergeFacts'
    <2>1. /\ work' = [work EXCEPT ![h] = Rest] /\ changes' = changes
          /\ Step(h) = "insert" /\ proposals[p].status = "none"
          /\ proposals' = [proposals EXCEPT ![p] = [status |-> "pending", payload |-> work[h].row,
                                                    by |-> NoOne, lapsed |-> FALSE]]
      BY <1>6 DEF CreateProposal, Ends
    <2>2. \A g \in Handlers : work'[g] = work[g] \/ Merged(work'[g])
      BY <1>2, <1>4, <2>1
    <2>3. work[h].row \in load.payloads
      <3>1. HandlerFacts(work[h]) /\ Merged(work[h])
        BY DEF LockFacts, MergeFacts
      <3> QED BY <2>1, <3>1, EarnedPlaces DEF Merged
    <2>4. /\ \A q \in Proposals : q # p => proposals'[q] = proposals[q]
          /\ proposals'[p].payload = work[h].row
      BY <1>2, <2>1
    <2>5. \A q \in Proposals : proposals[q].status # "none" => proposals'[q] = proposals[q]
      BY <2>1, <2>4
    <2>6. \A q \in Proposals : proposals'[q].status # "none" => proposals'[q].payload \in load.payloads
      BY <1>3, <2>3, <2>4
    <2> QED BY <1>1, <1>3, <2>1, <2>2, <2>5, <2>6, TablesMerge
  <1>7. ASSUME NEW p \in Proposals, NEW r, proposals[p].status # "none", r.status # "none",
               r.payload = proposals[p].payload,
               proposals' = [proposals EXCEPT ![p] = r], changes' = changes,
               \A g \in Handlers : work'[g] = work[g] \/ Merged(work'[g])
        PROVE  MergeFacts'
    <2>1. \A q \in Proposals : proposals'[q] = proposals[q] \/ (q = p /\ proposals'[q] = r)
      BY <1>2, <1>7
    <2>2. \A q \in Proposals : proposals[q].status # "none" =>
              proposals'[q].status # "none" /\ proposals'[q].payload = proposals[q].payload
      BY <1>7, <2>1
    <2>3. \A q \in Proposals : proposals'[q].status # "none" => proposals'[q].payload \in load.payloads
      BY <1>3, <1>7, <2>1
    <2> QED BY <1>1, <1>3, <1>7, <2>2, <2>3, TablesMerge
  <1>8. ASSUME NEW c \in Changes, NEW r, changes[c].status # "none", r.row = changes[c].row,
               changes' = [changes EXCEPT ![c] = r], proposals' = proposals,
               \A g \in Handlers : work'[g] = work[g] \/ Merged(work'[g])
        PROVE  MergeFacts'
    <2>1. \A d \in Changes : changes'[d] = changes[d] \/ (d = c /\ changes'[d] = r)
      BY <1>2, <1>8
    <2>2. \A d \in Changes : changes'[d].status # "none" => changes'[d].row \in PolicyRows
      BY <1>3, <1>8, <2>1
    <2> QED BY <1>1, <1>3, <1>8, <2>2, TablesMerge
  <1>9. ASSUME NEW p \in Proposals, ProposalLapses(p)
        PROVE  MergeFacts'
    <2>1. /\ work' = work /\ changes' = changes /\ proposals[p].status = "pending"
          /\ proposals' = [proposals EXCEPT ![p] = [proposals[p] EXCEPT !.lapsed = TRUE]]
      BY <1>9 DEF ProposalLapses, Pending
    <2>2. PICK r : r = [proposals[p] EXCEPT !.lapsed = TRUE]
      OBVIOUS
    <2>3. r.status = "pending" /\ r.payload = proposals[p].payload
      BY <1>2, <2>1, <2>2 DEF IsProposal
    <2> QED BY <1>7, <2>1, <2>2, <2>3
  <1>10. ASSUME NEW c \in Changes, ChangeLapses(c)
         PROVE  MergeFacts'
    <2>1. /\ work' = work /\ proposals' = proposals /\ changes[c].status = "pending"
          /\ changes' = [changes EXCEPT ![c] = [changes[c] EXCEPT !.lapsed = TRUE]]
      BY <1>10 DEF ChangeLapses, Pending
    <2>2. PICK r : r = [changes[c] EXCEPT !.lapsed = TRUE]
      OBVIOUS
    <2>3. r.row = changes[c].row
      BY <1>2, <2>2 DEF IsChange
    <2> QED BY <1>8, <2>1, <2>2, <2>3
  <1>11. ASSUME NEW h \in Handlers, ResolveProposal(h)
         PROVE  MergeFacts'
    <2>0. PICK w : w = work[h]
      OBVIOUS
    <2>1. HandlerFacts(w) /\ Earned(w)
      BY <2>0 DEF LockFacts, EarnedFacts
    <2>2. (w.kind = "deny" /\ w.at = 1) \/ (w.kind = "approve" /\ w.at = 6)
      BY <1>11, <2>0, <2>1, EarnedPlaces DEF ResolveProposal
    <2>3. Onward(w) = Rest /\ w.id \in Proposals
      <3>1. Len(Plan(w.kind)) = w.at
        BY <2>2 DEF Plan
      <3> QED BY <2>1, <2>2, <3>1 DEF Onward, Earned
    <2>4. work' = [work EXCEPT ![h] = Rest]
      BY <1>11, <2>0, <2>3 DEF ResolveProposal, GoesOn, Ends
    <2>5. \A g \in Handlers : work'[g] = work[g] \/ Merged(work'[g])
      BY <1>2, <1>4, <2>4
    <2>6. changes' = changes
      BY <1>11 DEF ResolveProposal
    <2>7. CASE proposals' = proposals
      BY <1>1, <1>3, <2>5, <2>6, <2>7, TablesMerge
    <2>8. CASE proposals' # proposals
      <3>1. PICK s : /\ s \in {"denied", "approved"} /\ Pending(proposals[w.id])
                     /\ proposals' = [proposals EXCEPT ![w.id].status = s, ![w.id].by = w.by]
        BY <1>11, <2>0, <2>8 DEF ResolveProposal
      <3>2. PICK r : r = [proposals[w.id] EXCEPT !.status = s, !.by = w.by]
        OBVIOUS
      <3>3. r.status = s /\ r.payload = proposals[w.id].payload
        BY <1>2, <2>3, <3>2 DEF IsProposal
      <3>4. proposals' = [proposals EXCEPT ![w.id] = r]
        BY <1>2, <2>3, <3>1, <3>2
      <3> QED BY <1>7, <2>3, <2>5, <2>6, <3>1, <3>3, <3>4 DEF Pending
    <2> QED BY <2>7, <2>8
  <1>12. ASSUME NEW h \in Handlers, ClaimPendingPolicyChange(h)
         PROVE  MergeFacts'
    <2>0. PICK w : w = work[h]
      OBVIOUS
    <2>1. HandlerFacts(w) /\ Earned(w) /\ Merged(w)
      BY <2>0 DEF LockFacts, EarnedFacts, MergeFacts
    <2>2. w.kind = "finish" /\ w.at = 2 /\ w.id \in Changes
      BY <1>12, <2>0, <2>1, EarnedPlaces DEF ClaimPendingPolicyChange, Earned
    <2>3. Merged(Onward(w))
      <3>1. Holding(w, Onward(w), w.row, w.read)
        BY <2>1, <2>2, OnwardHolds
      <3>2. PICK o : o = Onward(w)
        OBVIOUS
      <3>3. o.kind = "idle" \/ (o.kind = "finish" /\ o.row = w.row /\ o.read = w.read)
        BY <2>2, <3>1, <3>2 DEF Holding
      <3>4. Merged(o)
        BY <2>1, <2>2, <3>3 DEF Merged
      <3> QED BY <3>2, <3>4
    <2>4. work' = [work EXCEPT ![h] = Rest] \/ work' = [work EXCEPT ![h] = Onward(w)]
      BY <1>12, <2>0 DEF ClaimPendingPolicyChange, GoesOn, Ends
    <2>5. \A g \in Handlers : work'[g] = work[g] \/ Merged(work'[g])
      BY <1>2, <1>4, <2>3, <2>4
    <2>6. proposals' = proposals
      BY <1>12 DEF ClaimPendingPolicyChange
    <2>7. CASE changes' = changes
      BY <1>1, <1>3, <2>5, <2>6, <2>7, TablesMerge
    <2>8. CASE changes' # changes
      <3>1. /\ changes[w.id].status = "pending"
            /\ changes' = [changes EXCEPT ![w.id] = [changes[w.id] EXCEPT !.status = "applied"]]
        BY <1>12, <2>0, <2>8 DEF ClaimPendingPolicyChange, ClaimsChange, Pending
      <3>2. PICK r : r = [changes[w.id] EXCEPT !.status = "applied"]
        OBVIOUS
      <3>3. r.row = changes[w.id].row
        BY <1>2, <2>2, <3>2 DEF IsChange
      <3> QED BY <1>8, <2>2, <2>5, <2>6, <3>1, <3>2, <3>3
    <2> QED BY <2>7, <2>8
  <1> QED BY <1>5, <1>6, <1>9, <1>10, <1>11, <1>12

\* A new version, written or left by a deletion.
LEMMA VersionMerges ==
    ASSUME LockFacts, MergeFacts, policy < MaxVersion, NEW n, n = policy + 1, policy' = n,
           NEW row \in PolicyRows \cup {NoPolicy}, rows' = [rows EXCEPT ![n] = row],
           \A v \in (0 .. MaxVersion) \ {n} : authors'[v] = authors[v],
           UNCHANGED <<load, templates, proposals, changes>>,
           \A g \in Handlers : work'[g] = work[g] \/ Merged(work'[g]),
           AuthorMerged(n)'
    PROVE  MergeFacts'
  <1>1. PICK S : templates \in Seq(S)
    BY DEF MergeFacts
  <1>2. Len(templates) \in Nat /\ policy \in Nat /\ n \in 0 .. MaxVersion /\ MaxVersion \in Nat
    BY <1>1, TimeAssumption DEF LockFacts
  <1>3. /\ \A v \in 0 .. policy : v \in (0 .. MaxVersion) \ {n}
        /\ \A v \in n + 1 .. MaxVersion : v \in (0 .. MaxVersion) \ {n} /\ v \in policy + 1 .. MaxVersion
        /\ \A v \in 1 .. n : v \in 1 .. policy \/ v = n
        /\ \A v \in 0 .. MaxVersion : v > n => v > policy
    BY <1>2
  <1>4. rows'[n] = row /\ \A v \in (0 .. MaxVersion) \ {n} : rows'[v] = rows[v]
    BY <1>2 DEF LockFacts
  <1>5. Grows
    BY <1>2, <1>3, <1>4 DEF Grows
  <1>6. \A g \in Handlers : Merged(work[g])'
    BY <1>5, HandlersMerge
  <1>7. \A v \in 1 .. n : AuthorMerged(v)'
    BY <1>3, <1>5, GrowthKeeps DEF MergeFacts
  <1>8. \A i \in 2 .. Len(templates) : TemplateMerged(i)'
    BY <1>5, GrowthKeeps DEF MergeFacts
  <1>9. \A v \in 0 .. MaxVersion :
            rows'[v] \in PolicyRows \cup {NoPolicy} /\ (v > n => rows'[v] = NoPolicy)
    <2> SUFFICES ASSUME NEW v \in 0 .. MaxVersion
                 PROVE  rows'[v] \in PolicyRows \cup {NoPolicy} /\ (v > n => rows'[v] = NoPolicy)
      OBVIOUS
    <2>1. CASE v = n
      BY <1>2, <1>4, <2>1
    <2>2. CASE v # n
      BY <1>3, <1>4, <2>2 DEF MergeFacts
    <2> QED BY <2>1, <2>2
  <1>10. \A v \in n + 1 .. MaxVersion : authors'[v].read = Never
    BY <1>3 DEF MergeFacts
  <1>11. \E T : templates' \in Seq(T)
    BY <1>1
  <1> QED BY <1>6, <1>7, <1>8, <1>9, <1>10, <1>11 DEF MergeFacts

\* set_policy: the version before the new one is the one a handler may have
\* merged with.
LEMMA WriteMerges ==
    ASSUME LockFacts, EarnedFacts, MergeFacts, NEW h \in Handlers, WritePolicy(h)
    PROVE  MergeFacts'
  <1>0. PICK w, n : w = work[h] /\ n = policy + 1
    OBVIOUS
  <1>1. /\ HandlerFacts(w) /\ Merged(w) /\ policy \in 0 .. MaxVersion /\ policy \in Nat
        /\ rows = [v \in 0 .. MaxVersion |-> rows[v]] /\ authors = [v \in 0 .. MaxVersion |-> authors[v]]
        /\ work = [g \in Handlers |-> work[g]]
    BY <1>0, TimeAssumption DEF LockFacts, MergeFacts
  <1>2. /\ policy < MaxVersion /\ policy' = n
        /\ rows' = [rows EXCEPT ![n] = w.row] /\ authors' = [authors EXCEPT ![n] = w]
        /\ work' = [work EXCEPT ![h] = [Onward(w) EXCEPT !.version = n]]
        /\ UNCHANGED <<load, templates, proposals, changes>>
        /\ Step(h) = "write" /\ w.kind # "template"
    BY <1>0 DEF WritePolicy, SetPolicyRow, SetPolicy
  <1>3. /\ w.kind # "idle"
        /\ \/ w.kind \in {"set", "app"}
           \/ w.kind = "approve" /\ w.at = 4
           \/ w.kind = "finish" /\ w.at = 3
    BY <1>0, <1>1, <1>2, EarnedPlaces
  <1>4. w.row \in PolicyRows
    BY <1>1, <1>3 DEF Merged
  <1>5. /\ n \in 0 .. MaxVersion /\ rows'[n] = w.row /\ authors'[n] = w /\ n - 1 = policy
        /\ rows'[n - 1] = rows[policy] /\ policy # Never
        /\ \A v \in (0 .. MaxVersion) \ {n} : authors'[v] = authors[v]
    BY <1>0, <1>1, <1>2, TimeAssumption, MarkAssumption
  <1>6. AuthorMerged(n)'
    <2>1. CASE w.kind = "approve"
      BY <1>1, <1>2, <1>5, <2>1 DEF AuthorMerged, Merged
    <2>2. CASE w.kind \in {"set", "app", "finish"}
      BY <1>1, <1>2, <1>5, <2>2 DEF AuthorMerged, Merged
    <2> QED BY <1>3, <2>1, <2>2
  <1>7. \A g \in Handlers : work'[g] = work[g] \/ Merged(work'[g])
    <2>1. PICK o : o = [Onward(w) EXCEPT !.version = n]
      OBVIOUS
    <2>2. Holding(w, o, w.row, w.read)
      BY <1>1, <1>3, <2>1, OnwardHolds
    <2>3. Merged(o)
      <3>1. CASE o.kind = "idle"
        BY <3>1, NothingMerged
      <3>2. CASE o.kind # "idle"
        <4>1. /\ o.kind = w.kind /\ o.at = w.at + 1 /\ o.id = w.id /\ o.names = w.names
              /\ o.row = w.row /\ o.read = w.read
          BY <2>2, <3>2 DEF Holding
        <4>2. w.kind = "approve" => o.at >= 3 /\ w.at >= 3
          BY <1>3, <4>1
        <4> QED BY <1>1, <4>1, <4>2 DEF Merged
      <3> QED BY <3>1, <3>2
    <2> QED BY <1>1, <1>2, <2>1, <2>3
  <1>8. w.row \in PolicyRows \cup {NoPolicy}
    BY <1>4
  <1> QED BY <1>0, <1>2, <1>5, <1>6, <1>7, <1>8, VersionMerges

\* The credential is deleted: the version has no author who read anything.
LEMMA DeleteMerges ==
    ASSUME LockFacts, MergeFacts, DeleteCredential
    PROVE  MergeFacts'
  <1>0. PICK n : n = policy + 1
    OBVIOUS
  <1>1. /\ policy < MaxVersion /\ policy' = n /\ rows' = [rows EXCEPT ![n] = NoPolicy]
        /\ UNCHANGED <<load, templates, proposals, changes, authors, work>>
    BY <1>0 DEF DeleteCredential, SetPolicy
  <1>2. n \in policy + 1 .. MaxVersion /\ n - 1 \in Nat
    BY <1>0, <1>1, TimeAssumption DEF LockFacts
  <1>3. AuthorMerged(n)'
    <2>1. authors'[n].read = Never
      BY <1>1, <1>2 DEF MergeFacts
    <2> QED BY <1>2, <2>1, MarkAssumption DEF AuthorMerged
  <1>4. NoPolicy \in PolicyRows \cup {NoPolicy}
    OBVIOUS
  <1> QED BY <1>0, <1>1, <1>3, <1>4, VersionMerges

\* A template is written, or its deletion leaves none in force.
LEMMA TemplateMerges ==
    ASSUME LockFacts, MergeFacts, NEW row \in PolicyRows \cup {NoPolicy}, NEW author,
           templates' = Append(templates, [row |-> row, author |-> author]),
           UNCHANGED <<policy, load, rows, authors, proposals, changes>>,
           \A g \in Handlers : work'[g] = work[g] \/ Merged(work'[g]),
           author.read = Len(templates) => row.requireUrls = UrlsOf(templates[Len(templates)].row)
    PROVE  MergeFacts'
  <1>1. PICK S : templates \in Seq(S)
    BY DEF MergeFacts
  <1>2. PICK x : x = [row |-> row, author |-> author]
    OBVIOUS
  <1>3. PICK n : n = Len(templates)
    OBVIOUS
  <1>4. templates \in Seq(S \cup {x}) /\ x \in S \cup {x}
    BY <1>1
  <1>5. /\ templates' \in Seq(S \cup {x}) /\ n \in Nat /\ Len(templates') = n + 1
        /\ \A i \in 1 .. n : templates'[i] = templates[i]
        /\ templates'[n + 1] = x
    BY <1>2, <1>3, <1>4
  <1>6. Grows
    BY <1>3, <1>5, TimeAssumption DEF Grows, LockFacts
  <1>7. /\ \A g \in Handlers : Merged(work[g])'
        /\ \A v \in 1 .. policy : AuthorMerged(v)'
    BY <1>6, HandlersMerge, GrowthKeeps DEF MergeFacts
  <1>8. \A i \in 1 .. n + 1 : i \in 1 .. n \/ i = n + 1
    BY <1>5
  <1>9. \A i \in 1 .. n + 1 : templates'[i].row \in PolicyRows \cup {NoPolicy}
    BY <1>2, <1>3, <1>5, <1>8 DEF MergeFacts
  <1>10. \A i \in 2 .. n + 1 : TemplateMerged(i)'
    <2> SUFFICES ASSUME NEW i \in 2 .. n + 1 PROVE TemplateMerged(i)'
      OBVIOUS
    <2>1. CASE i \in 2 .. n
      BY <1>3, <1>6, <2>1, GrowthKeeps DEF MergeFacts
    <2>2. CASE i = n + 1
      <3>1. i - 1 = n /\ n \in 1 .. n
        BY <1>5, <2>2
      <3>2. templates'[i].author = author /\ templates'[i].row = row /\ templates'[i - 1] = templates[n]
        BY <1>2, <1>5, <2>2, <3>1
      <3> QED BY <1>3, <3>1, <3>2 DEF TemplateMerged
    <2> QED BY <1>5, <2>1, <2>2
  <1>11. \E T : templates' \in Seq(T)
    BY <1>5
  <1>12. Len(templates') >= 1
    BY <1>5
  <1> QED BY <1>5, <1>7, <1>9, <1>10, <1>11, <1>12 DEF MergeFacts

\* What merged holds, holds in every reachable state.
THEOREM MergeFactsHold == ChangesSpec => []MergeFacts
  <1>1. ChangesInit => MergeFacts
    <2> SUFFICES ASSUME ChangesInit PROVE MergeFacts
      OBVIOUS
    <2>1. /\ policy = 0 /\ load \in Loads /\ load.first \in PolicyRows \cup {NoPolicy}
          /\ \A v : v \notin 1 .. policy
      BY RequestAssumption DEF ChangesInit, Init
    <2>2. \A h \in Handlers : Merged(work[h])
      BY NothingMerged DEF ChangesInit, Rest
    <2>3. \A v \in 0 .. MaxVersion :
              rows[v] \in PolicyRows \cup {NoPolicy} /\ (v > policy => rows[v] = NoPolicy)
      BY <2>1 DEF ChangesInit
    <2>4. PICK x : x = [row |-> load.first, author |-> Rest]
      OBVIOUS
    <2>5. templates = <<x>>
      BY <2>4 DEF ChangesInit
    <2>6. templates \in Seq({x}) /\ Len(templates) = 1 /\ templates[1] = x
      BY <2>5
    <2>7. /\ \E S : templates \in Seq(S)
          /\ \A i \in 1 .. Len(templates) : templates[i].row \in PolicyRows \cup {NoPolicy}
          /\ Len(templates) >= 1 /\ \A i : i \notin 2 .. Len(templates)
      BY <2>1, <2>4, <2>6
    <2>8. /\ \A c \in Changes : changes[c].status = "none"
          /\ \A p \in Proposals : proposals[p].status = "none"
      BY DEF ChangesInit, NoChange, NoProposal
    <2>9. \A v \in policy + 1 .. MaxVersion : authors[v].read = Never
      BY <2>1 DEF ChangesInit, Rest
    <2> QED BY <2>1, <2>2, <2>3, <2>7, <2>8, <2>9 DEF MergeFacts
  <1>2. LockFacts /\ EarnedFacts /\ MergeFacts /\ [ChangesNext]_allVars => MergeFacts'
    <2> SUFFICES ASSUME LockFacts, EarnedFacts, MergeFacts, [ChangesNext]_allVars
                 PROVE  MergeFacts'
      OBVIOUS
    <2>1. CASE UNCHANGED <<policy, load, rows, authors, templates, proposals, changes, work>>
      BY <2>1, TablesMerge DEF MergeFacts
    <2>2. CASE UNCHANGED allVars
      BY <2>1, <2>2 DEF allVars, changeVars, vars
    <2>3. CASE Reads
      <3>1. UNCHANGED policy
        BY <2>3 DEF Reads, Read, GetPolicy, QueryPolicy, StorePolicy, QueryTimesOut, Tick
      <3>2. UNCHANGED <<load, rows, authors, templates, work, proposals, changes>>
        BY <2>3 DEF Reads, changeVars
      <3> QED BY <2>1, <3>1, <3>2
    <2>4. CASE DeletePolicyTemplate
      <3>1. /\ templates' = Append(templates, [row |-> NoPolicy, author |-> Rest])
            /\ UNCHANGED <<policy, load, rows, authors, proposals, changes, work>>
        BY <2>4 DEF DeletePolicyTemplate, vars
      <3>2. Rest.read # Len(templates)
        <4>1. PICK S : templates \in Seq(S)
          BY DEF MergeFacts
        <4> QED BY <4>1, MarkAssumption DEF Rest
      <3>3. NoPolicy \in PolicyRows \cup {NoPolicy}
        OBVIOUS
      <3> QED BY <3>1, <3>2, <3>3, TemplateMerges
    <2>5. ASSUME NEW h \in Handlers, WriteTemplate(h)
          PROVE  MergeFacts'
      <3>0. PICK w : w = work[h]
        OBVIOUS
      <3>1. /\ templates' = Append(templates, [row |-> w.row, author |-> w])
            /\ UNCHANGED <<policy, load, rows, authors, proposals, changes>>
            /\ w.kind = "template" /\ work' = [work EXCEPT ![h] = Rest]
        BY <2>5, <3>0 DEF WriteTemplate, Ends, vars
      <3>2. Merged(w) /\ w.row \in PolicyRows \cup {NoPolicy} /\ Merged(Rest)
        BY <3>0, <3>1, NothingMerged DEF MergeFacts, Merged, Rest
      <3>3. \A g \in Handlers : work'[g] = work[g] \/ Merged(work'[g])
        BY <3>1, <3>2 DEF LockFacts
      <3>4. w.read = Len(templates) => w.row.requireUrls = UrlsOf(templates[Len(templates)].row)
        <4>1. PICK S : templates \in Seq(S)
          BY DEF MergeFacts
        <4>2. Len(templates) # Never
          BY <4>1, MarkAssumption
        <4> QED BY <3>1, <3>2, <4>2 DEF Merged
      <3> QED BY <3>1, <3>2, <3>3, <3>4, TemplateMerges
    <2>6. CASE (\E p \in Proposals : ProposalLapses(p)) \/ (\E c \in Changes : ChangeLapses(c))
      BY <2>6, RowMerges
    <2>7. ASSUME NEW h \in Handlers, Statement(h) \/ Dropped(h)
          PROVE  MergeFacts'
      BY <2>5, <2>7, PassingMerges, RowMerges, WriteMerges DEF Statement
    <2> QED BY <2>2, <2>3, <2>4, <2>6, <2>7, RequestMerges, DeleteMerges DEF ChangesNext
  <1> QED BY <1>1, <1>2, LockFactsHold, EarnedFactsHold, PTL DEF ChangesSpec

(***************************************************************************)
(* The two merges of admin.rs and proposals.rs agree, for any requests and *)
(* any interleaving: every row that can be read can be evaluated, a field  *)
(* that a request leaves out keeps the value it had in the version the     *)
(* handler read, and a proposal that is shown to loosen nothing loosens    *)
(* nothing when it is applied to the version that was reviewed.            *)
(***************************************************************************)
THEOREM TheMergesAgree ==
    ASSUME ViewsAreRows
    PROVE  ChangesSpec => []MergesAgree
  <1>1. LockFacts /\ MergeFacts => MergesAgree
    <2> SUFFICES ASSUME LockFacts, MergeFacts PROVE MergesAgree
      OBVIOUS
    <2>0. PICK S : templates \in Seq(S)
      BY DEF MergeFacts
    <2>1. /\ policy \in Nat /\ policy <= MaxVersion /\ MaxVersion \in Nat
          /\ Len(templates) \in Nat /\ DOMAIN templates = 1 .. Len(templates)
      BY <2>0, TimeAssumption DEF LockFacts
    <2>2. RowsAreWellFormed
      <3>1. /\ \A v \in 0 .. policy : v \in 0 .. MaxVersion
            /\ \A v \in policy + 1 .. MaxVersion : v \in 0 .. MaxVersion /\ v > policy
        BY <2>1
      <3>2. \A h \in Handlers : Step(h) \in {"write", "lock"} => work[h].row \in PolicyRows
        <4> SUFFICES ASSUME NEW h \in Handlers, Step(h) \in {"write", "lock"}
                     PROVE  work[h].row \in PolicyRows
          OBVIOUS
        <4>1. HandlerFacts(work[h]) /\ Merged(work[h])
          BY DEF LockFacts, MergeFacts
        <4>2. \/ work[h].kind \in {"set", "app", "template", "finish"}
              \/ work[h].kind = "approve" /\ work[h].at >= 3
          BY <4>1, EarnedPlaces
        <4> QED BY <4>1, <4>2 DEF Merged
      <3> QED BY <2>1, <3>1, <3>2 DEF RowsAreWellFormed, MergeFacts
    <2>3. \A v \in 1 .. policy : /\ v - 1 \in 0 .. MaxVersion /\ v \in 0 .. MaxVersion
                                 /\ AuthorMerged(v)
                                 /\ rows[v - 1] \in PolicyRows \cup {NoPolicy}
      BY <2>1 DEF MergeFacts
    <2>4. AbsentFieldsAreKept
      <3>1. ASSUME NEW v \in 1 .. policy, authors[v].read = v - 1, rows[v - 1] # NoPolicy,
                   NEW f \in IF authors[v].kind = "approve" THEN DOMAIN EmptyRow ELSE {"requireUrls"},
                   f \notin authors[v].names
            PROVE  rows[v][f] = rows[v - 1][f]
        <4>1. CASE authors[v].kind # "approve"
          <5>1. f = "requireUrls" /\ rows[v].requireUrls = UrlsOf(rows[v - 1])
            BY <2>3, <3>1, <4>1 DEF AuthorMerged
          <5> QED BY <3>1, <5>1 DEF UrlsOf
        <4>2. CASE authors[v].kind = "approve"
          <5>1. PICK payload, cur : /\ payload = proposals[authors[v].id].payload
                                    /\ cur = rows[v - 1]
            OBVIOUS
          <5>2. /\ f \in DOMAIN EmptyRow /\ f \notin DOMAIN payload
                /\ rows[v] = BuildMergedPolicyRow(payload, cur) /\ cur # NoPolicy
                /\ cur \in PolicyRows
            BY <2>3, <3>1, <4>2, <5>1 DEF AuthorMerged
          <5>3. CASE f = "min"
            <6>1. rows[v].min = AtLeastOne(cur.min)
              BY <5>2, <5>3, MergedRowFields
            <6>2. cur.min \in Nat \ {0}
              BY <5>2, RowFields
            <6>3. AtLeastOne(cur.min) = cur.min
              BY <6>2 DEF AtLeastOne
            <6> QED BY <5>1, <5>3, <6>1, <6>3
          <5>4. CASE f # "min"
            BY <5>1, <5>2, <5>4, MergedRowFields
          <5> QED BY <5>3, <5>4
        <4> QED BY <4>1, <4>2
      <3>2. \A i \in 2 .. Len(templates) : TemplateMerged(i)
        BY DEF MergeFacts
      <3> QED BY <3>1, <3>2 DEF AbsentFieldsAreKept, TemplateMerged
    <2>5. ReviewIsHonest
      <3> SUFFICES ASSUME NEW v \in 1 .. policy, authors[v].kind = "approve",
                          authors[v].read = v - 1,
                          HandleListProposals(proposals[authors[v].id].payload, rows[v - 1]) = {}
                   PROVE  ~Looser(rows[v - 1], rows[v], Methods, load.urls, People \cup Strangers)
        BY DEF ReviewIsHonest
      <3>1. PICK payload, cur : payload = proposals[authors[v].id].payload /\ cur = rows[v - 1]
        OBVIOUS
      <3>2. /\ rows[v] = BuildMergedPolicyRow(payload, cur) /\ payload \in load.payloads
            /\ cur \in PolicyRows \cup {NoPolicy}
        BY <2>3, <3>1 DEF AuthorMerged, MergeFacts
      <3>3. Parses(payload, DOMAIN DefaultBaseline)
        BY <3>2, RequestAssumption DEF LockFacts
      <3>4. "min" \in DOMAIN payload => payload.min \in Nat
        <4>1. RequestFields.min = Nat
          BY DEF RequestFields
        <4> QED BY <3>3, <4>1 DEF Parses
      <3>5. cur # NoPolicy => cur.min \in Nat
        BY <3>2, RowFields
      <3>6. BuildMergedPolicyRow(payload, cur) # NoPolicy
        <4>1. DOMAIN DefaultBaseline \subseteq DOMAIN EmptyRow /\ "channel" \notin DOMAIN DefaultBaseline
          BY DEF DefaultBaseline, EmptyRow
        <4>2. Parses(payload, DOMAIN EmptyRow) /\ NormalizePolicyApprovalChannel(payload)
          BY <3>3, <4>1 DEF Parses, NormalizePolicyApprovalChannel
        <4>3. BuildMergedPolicyRow(payload, cur) \in PolicyRows
          BY <3>2, <4>2, MergedRowTyped
        <4> QED BY <4>3, RequestAssumption
      <3>7. PermissiveChanges(CurrentView(cur), MergedView(payload, CurrentView(cur))) = {}
        BY <3>1 DEF HandleListProposals
      <3>8. ~Looser(cur, BuildMergedPolicyRow(payload, cur), Methods, load.urls, People \cup Strangers)
        BY <3>4, <3>5, <3>6, <3>7, ReviewTellsAll
      <3> QED BY <3>1, <3>2, <3>8
    <2> QED BY <2>2, <2>4, <2>5 DEF MergesAgree
  <1> QED BY <1>1, LockFactsHold, MergeFactsHold, PTL
==============================================================================
