----------------------------- MODULE PolicyRules -----------------------------
(***************************************************************************)
(* The rules of a credential's policy and what may be said of two of them: *)
(* tap-proxy/src/policy.rs decides whether a request needs a human,        *)
(* tap-core/src/policy_diff.rs lists the ways in which one policy is more  *)
(* permissive than another, tap-proxy/src/proposals.rs and admin.rs merge  *)
(* a proposed change with the policy in force.  Nothing here has state.    *)
(*                                                                         *)
(* A URL is a host and the segments of its path after the leading slash;   *)
(* the path "/" is the one empty segment.  A pattern is the same, with     *)
(* AnyHost for a pattern that begins with a slash and no segments at all   *)
(* for one that names only a host.                                         *)
(***************************************************************************)
EXTENDS Integers, Sequences, FiniteSets

CONSTANTS
    NoPolicy,     \* the credential has no row in the policies table
    NoUrl,        \* there is no target to match, or it does not parse
    AnyHost,      \* a pattern that begins with "/"
    Hosts,        \* host names
    Segments      \* segments of a path; "" is the root's

-----------------------------------------------------------------------------
(* URL patterns                                                            *)

PathSegmentsMatch(path, pattern, exact) ==
    /\ IF exact THEN Len(pattern) = Len(path) ELSE Len(pattern) <= Len(path)
    /\ \A i \in 1 .. Len(pattern) :
           IF pattern[i] = "*" THEN path[i] # "" ELSE pattern[i] = path[i]

(* A host with a wildcard in it never matches, for no URL has that host.   *)
UrlMatchesPolicyPattern(url, p) ==
    /\ url # NoUrl
    /\ p.host = AnyHost \/ p.host = url.host
    /\ p.path = << >> => p.host # AnyHost
    /\ p.path # << >> => PathSegmentsMatch(url.path, p.path, FALSE)

(* The same for the scope of a grant: the whole path, and never none.      *)
GrantScopeCoversUrl(url, p) ==
    /\ url # NoUrl
    /\ p.host = AnyHost \/ p.host = url.host
    /\ p.path # << >>
    /\ PathSegmentsMatch(url.path, p.path, TRUE)

-----------------------------------------------------------------------------
(* evaluate_policy                                                         *)

(* Policies are typed by people: a method may be written in either case.   *)
UpperCase(m) ==
    IF m = "get" THEN "GET" ELSE IF m = "post" THEN "POST" ELSE m

(* HEAD follows the rules for GET.                                         *)
CheckMethod(m) == IF m = "HEAD" THEN "GET" ELSE m

Listed(m, methods) == \E x \in methods : UpperCase(x) = CheckMethod(m)

MatchesAny(url, patterns) == \E p \in patterns : UrlMatchesPolicyPattern(url, p)

(* The reason of the decision, in the order in which the rules are tried.  *)
EvaluatePolicyWithDefault(method, row, url, teamDefault) ==
    IF row = NoPolicy
    THEN IF teamDefault = "autonomous" THEN "team_autonomous_default"
         ELSE IF method \in {"GET", "HEAD"} THEN "team_gated_default_safe_method"
         ELSE "team_gated_default_unsafe_method"
    ELSE IF MatchesAny(url, row.requireUrls) THEN "require_approval_url"
    ELSE IF MatchesAny(url, row.autoUrls) THEN "auto_approve_url"
    ELSE IF Listed(method, row.autoMethods) THEN "auto_approve_method"
    ELSE IF Listed(method, row.requireMethods) THEN "require_approval_method"
    ELSE "require_approval_default"

AutoApproveReasons ==
    {"team_autonomous_default", "team_gated_default_safe_method",
     "auto_approve_url", "auto_approve_method"}

AutoApproved(method, row, url, teamDefault) ==
    EvaluatePolicyWithDefault(method, row, url, teamDefault) \in AutoApproveReasons

-----------------------------------------------------------------------------
(* permissive_changes                                                      *)

Upper(methods) == {UpperCase(m) : m \in methods}

(* The implicit policy of a credential that has none.                      *)
DefaultBaseline ==
    [autoMethods |-> {"GET", "HEAD"}, requireMethods |-> {}, autoUrls |-> {},
     requireUrls |-> {}, passkey |-> FALSE, min |-> 1, approvers |-> {}]

PolicyViewFromRow(row) ==
    [autoMethods |-> Upper(row.autoMethods), requireMethods |-> Upper(row.requireMethods),
     autoUrls |-> row.autoUrls, requireUrls |-> row.requireUrls,
     passkey |-> row.passkey, min |-> row.min, approvers |-> row.approvers]

CurrentView(row) == IF row = NoPolicy THEN NoPolicy ELSE PolicyViewFromRow(row)

(* Faulty variant: a safety override that is removed is not reported.      *)
PermissiveExceptOverrides(old, new) ==
    LET o == IF old = NoPolicy THEN DefaultBaseline ELSE old IN
        ({"auto_approve_methods"} \X (new.autoMethods \ o.autoMethods))
            \cup ({"auto_approve_urls"} \X (new.autoUrls \ o.autoUrls))
            \cup {<<"require_passkey", FALSE>> : x \in {y \in {1} : o.passkey /\ ~new.passkey}}
            \cup {<<"min_approvals", new.min>> : x \in {y \in {1} : new.min < o.min}}
            \cup (IF o.approvers # {} /\ new.approvers = {}
                  THEN {<<"allowed_approvers", "anyone">>}
                  ELSE {"allowed_approvers"} \X (new.approvers \ o.approvers))

(* Every way in which new is more permissive than old, as field and item.  *)
PermissiveChanges(old, new) ==
    LET o == IF old = NoPolicy THEN DefaultBaseline ELSE old IN
        ({"auto_approve_methods"} \X (new.autoMethods \ o.autoMethods))
            \cup ({"auto_approve_urls"} \X (new.autoUrls \ o.autoUrls))
            \cup ({"require_approval_urls"} \X (o.requireUrls \ new.requireUrls))
            \cup {<<"require_passkey", FALSE>> : x \in {y \in {1} : o.passkey /\ ~new.passkey}}
            \cup {<<"min_approvals", new.min>> : x \in {y \in {1} : new.min < o.min}}
            \cup (IF o.approvers # {} /\ new.approvers = {}
                  THEN {<<"allowed_approvers", "anyone">>}
                  ELSE {"allowed_approvers"} \X (new.approvers \ o.approvers))

-----------------------------------------------------------------------------
(* Merging a proposed change: a payload is a function on the fields it     *)
(* names.                                                                  *)

(* What a missing policy lends to a merged row.                            *)
EmptyRow ==
    [autoMethods |-> {}, requireMethods |-> {}, autoUrls |-> {}, requireUrls |-> {},
     approvers |-> {}, channel |-> "none", place |-> "none", matrixApprovers |-> {},
     passkey |-> FALSE, min |-> 1]

(* Faulty variant: the number is taken as it comes.                        *)
AsGiven(n) == n

AtLeastOne(n) == IF n < 1 THEN 1 ELSE n

(* Faulty variant: a field the payload leaves out falls back to its        *)
(* default.                                                                *)
BuildRowAnew(payload, current) ==
    [f \in DOMAIN EmptyRow |->
        IF f = "min" THEN AtLeastOne(IF f \in DOMAIN payload THEN payload[f] ELSE 1)
        ELSE IF f \in DOMAIN payload THEN payload[f] ELSE EmptyRow[f]]

BuildMergedPolicyRow(payload, current) ==
    LET cur == IF current = NoPolicy THEN EmptyRow ELSE current
        Field(f) == IF f \in DOMAIN payload THEN payload[f] ELSE cur[f]
    IN  [f \in DOMAIN EmptyRow |-> IF f = "min" THEN AtLeastOne(Field(f)) ELSE Field(f)]

(* Faulty variant: the review looks at the lists of methods only.          *)
MergedMethods(payload, current) ==
    LET cur == IF current = NoPolicy THEN DefaultBaseline ELSE current IN
        [f \in DOMAIN DefaultBaseline |->
            IF f \in DOMAIN payload /\ f \in {"autoMethods", "requireMethods"}
            THEN Upper(payload[f]) ELSE cur[f]]

(* What the review surface compares with the policy in force.              *)
MergedView(payload, current) ==
    LET cur == IF current = NoPolicy THEN DefaultBaseline ELSE current IN
        [f \in DOMAIN DefaultBaseline |->
            IF f \notin DOMAIN payload THEN cur[f]
            ELSE IF f \in {"autoMethods", "requireMethods"} THEN Upper(payload[f])
            ELSE payload[f]]

(* validate: an end-user's credential is out of reach of proposals.        *)
ValidatePayload(payload, owner) ==
    /\ owner # "end_user"
    /\ "min" \in DOMAIN payload => payload.min # 0

-----------------------------------------------------------------------------
(* What permissiveness means                                               *)

(* Who may decide a request under a policy; no list admits everyone.       *)
Admits(row, person) ==
    row = NoPolicy \/ row.approvers = {} \/ person \in row.approvers

(* A request that waited for a human under old goes through unseen under   *)
(* new, or what counts as a decision is weaker.                            *)
Looser(old, new, methods, urls, people) ==
    \/ \E m \in methods, u \in urls :
           AutoApproved(m, new, u, "gated") /\ ~AutoApproved(m, old, u, "gated")
    \/ old # NoPolicy /\ old.passkey /\ ~new.passkey
    \/ old # NoPolicy /\ new.min < old.min
    \/ \E p \in people : Admits(new, p) /\ ~Admits(old, p)
=============================================================================
