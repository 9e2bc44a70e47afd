------------------------------- MODULE Routing -------------------------------
(***************************************************************************)
(* What a request may carry, and where to: the routes of                   *)
(* tap-proxy/src/routing.rs, the placeholders of placeholder.rs, the       *)
(* target guard of forward.rs, the redaction of sanitize.rs and the checks *)
(* of signing.rs.  Nothing here has state.                                 *)
(*                                                                         *)
(* A stored value is known by an id, by its fields when it is a JSON       *)
(* object, and by the bundles it parses as (a Microsoft bundle also parses *)
(* as a Google one).  A piece of it is the id with one of its fields, or   *)
(* with NoField for the value as it is stored.  The name of a credential   *)
(* is a sequence: an end-user's is prefixed with the end-user.             *)
(***************************************************************************)
EXTENDS PolicyRules

CONSTANTS
    NoOne,        \* no person, agent or end-user
    NoField,      \* the whole of a stored value
    NoHost,       \* a target that is only a path
    NoValue,      \* the credential has no stored value
    Under,        \* <<host, domain>>: host is a subdomain of domain
    InternalHosts \* hosts that are, or resolve to, internal addresses

ASSUME RoutingAssumption ==
    /\ Under \subseteq Hosts \X Hosts
    /\ InternalHosts \subseteq Hosts
    /\ NoHost \notin Hosts

-----------------------------------------------------------------------------
(* Lists with gaps: what is kept of a list stays at its position.          *)

Sifted(list, Test(_)) == [i \in {j \in DOMAIN list : Test(list[j])} |-> list[i]]

First(list) == list[CHOOSE i \in DOMAIN list : \A j \in DOMAIN list : i <= j]

-----------------------------------------------------------------------------
(* Names and targets                                                       *)

EndUserCredName(ext, name) == <<ext>> \o name

(* validate_public_target: a path has no host to check and is refused.     *)
ValidatePublicTarget(target) == target.host \in Hosts \ InternalHosts

(* "*.example.com" covers the domain itself as well.                       *)
HostIsAllowed(pattern, host) ==
    host = pattern.host \/ (pattern.wild /\ <<host, pattern.host>> \in Under)

(* Faulty variant: a credential that is bound may be sent anywhere.        *)
NoHostBinding(cred, target) == TRUE

(* No list binds nothing; a relative target's host is the operator's.      *)
HostBindingAllows(cred, target) ==
    \/ cred.relative \/ cred.hosts = {}
    \/ target.host # NoHost /\ \E p \in cred.hosts : HostIsAllowed(p, target.host)

-----------------------------------------------------------------------------
(* resolve_unified_route                                                   *)

IsObject(value) == value # NoValue /\ value.fields # {}

ParsesAs(value, bundle) == value # NoValue /\ bundle \in value.parses

MethodIsReadLike(method) == method \in {"GET", "HEAD", "OPTIONS"}

(* Credentials for X hold an app's token, an account's keys, or both.      *)
ChosenXMode(value, mode, method) ==
    LET bearer == ParsesAs(value, "bearer")
        oauth1 == ParsesAs(value, "oauth1")
    IN  CASE mode = "bearer" -> IF bearer THEN "bearer" ELSE "config_error"
          [] mode = "oauth1" -> IF oauth1 THEN "oauth1" ELSE "config_error"
          [] OTHER -> IF bearer /\ (~oauth1 \/ MethodIsReadLike(method)) THEN "bearer"
                      ELSE IF oauth1 THEN "oauth1" ELSE "none"

(* Faulty variant: the Google parser, which is satisfied with less, comes  *)
(* first.                                                                  *)
InlineGoogleFirst(value, mode, method) ==
    IF ParsesAs(value, "google") THEN "google"
    ELSE IF ParsesAs(value, "microsoft") THEN "microsoft"
    ELSE IF ChosenXMode(value, mode, method) # "none" THEN ChosenXMode(value, mode, method)
    ELSE IF ParsesAs(value, "aws") THEN "aws"
    ELSE IF ParsesAs(value, "client_credentials") THEN "client_credentials"
    ELSE "sidecar"

(* How a sidecar's credential is used: the first bundle it parses as.      *)
InlineScheme(value, mode, method) ==
    IF ParsesAs(value, "microsoft") THEN "microsoft"
    ELSE IF ParsesAs(value, "google") THEN "google"
    ELSE IF ChosenXMode(value, mode, method) # "none" THEN ChosenXMode(value, mode, method)
    ELSE IF ParsesAs(value, "aws") THEN "aws"
    ELSE IF ParsesAs(value, "client_credentials") THEN "client_credentials"
    ELSE "sidecar"

(* Where a scheme that exchanges the stored bundle for a token sends it.   *)
TokenEndpoint(scheme, value) ==
    CASE scheme = "google" -> "google"
      [] scheme \in {"microsoft", "client_credentials"} -> value.issuer
      [] OTHER -> NoOne

WholeOf(value) == IF value = NoValue THEN {} ELSE {<<value.id, NoField>>}

PiecesOf(value) ==
    WholeOf(value) \cup (IF value = NoValue THEN {} ELSE {value.id} \X value.fields)

(* substitute_credential_value: a binding names a field, or {value}.       *)
BindingPiece(value, b) == <<value.id, b.field>>

BindingIsFilled(value, b) == b.field = NoField \/ b.field \in value.fields

DirectError(cred, value) ==
    IF value = NoValue THEN "credential_value_missing"
    ELSE IF cred.bindings = {} /\ cred.format = "none" /\ IsObject(value)
    THEN "multi_secret_unbound"
    ELSE IF \E b \in cred.bindings : ~BindingIsFilled(value, b) THEN "credential_field_missing"
    ELSE "none"

DirectPieces(cred, value) ==
    IF cred.bindings # {} THEN {BindingPiece(value, b) : b \in cred.bindings}
    ELSE IF cred.format = "fields" THEN {value.id} \X value.fields
    ELSE WholeOf(value)

SidecarError(cred, target, scheme) ==
    CASE scheme = "config_error" -> "config_error"
      [] scheme = "sidecar" /\ cred.base = "none" -> "config_error"
      [] scheme = "sidecar" /\ cred.relative /\ \E i \in DOMAIN target.path : target.path[i] = ".."
             -> "path_traversal"
      [] OTHER -> "none"

(* A signature or a fresh token travels, but for X's app token and for     *)
(* what a sidecar gets.                                                    *)
SidecarPieces(value, scheme) ==
    CASE scheme = "bearer" -> {<<value.id, "bearer_token">>}
      [] scheme = "sidecar" -> WholeOf(value)
      [] OTHER -> {}

Route(error, scheme, to, shown, pieces) ==
    [error |-> error, scheme |-> scheme, to |-> to, shown |-> shown, pieces |-> pieces]

(* What is shown, and matched with the policy, does not parse as a URL     *)
(* when the target is a path.                                              *)
DisplayTarget(target) == IF target.host = NoHost THEN NoUrl ELSE target

ResolveUnifiedRoute(cred, value, target, method, mode) ==
    LET scheme == IF cred.connector = "direct" THEN "direct"
                  ELSE InlineScheme(value, mode, method)
        error == IF ParsesAs(value, "signing") THEN "signing_credential"
                 ELSE IF ~HostBindingAllows(cred, target) THEN "host_not_allowed"
                 ELSE IF scheme = "direct" THEN DirectError(cred, value)
                 ELSE SidecarError(cred, target, scheme)
    IN  IF error # "none" THEN Route(error, scheme, NoHost, NoUrl, {})
        ELSE IF scheme = "direct"
        THEN Route(error, scheme, target.host, DisplayTarget(target), DirectPieces(cred, value))
        ELSE Route(error, scheme, IF scheme = "sidecar" THEN cred.base ELSE target.host,
                   DisplayTarget(target), SidecarPieces(value, scheme))

(* x_auto_bearer_can_retry_with_oauth1, on a refusal of whatever bearer    *)
(* token was sent; a direct credential is taken to be sent as one.         *)
CanRetryWithOauth1(route, value, method, mode) ==
    /\ mode = "auto"
    /\ route.scheme \in {"direct", "bearer", "google", "microsoft", "client_credentials"}
    /\ MethodIsReadLike(method) /\ ParsesAs(value, "oauth1")

-----------------------------------------------------------------------------
(* Placeholders: a reference names a credential, perhaps a field of it,    *)
(* and stands in a header or under a key of the body.                      *)

(* The grammar of a name has no room for an end-user's prefix: such a      *)
(* reference is no placeholder and is left in the text.                    *)
IsPlaceholder(r) == Len(r.cred) = 1

Placeholders(refs) == Sifted(refs, IsPlaceholder)

AllowedAuthHeaders == {"authorization", "x-api-key"}
AllowedAuthBodyKeys == {"token"}

AllowedHeaderForCredential(configs, r) ==
    IF r.cred \in DOMAIN configs /\ configs[r.cred].bindings # {}
    THEN \E b \in configs[r.cred].bindings : b.header = r.key
    ELSE r.key \in AllowedAuthHeaders

(* A body that does not parse, or whose type cannot be looked into, cannot *)
(* be validated.                                                           *)
ValidateBodyPlaceholderPosition(r, ctype) ==
    ctype \in {"json", "form"} /\ r.key \in AllowedAuthBodyKeys

ContentTypeOf(ctype) == IF ctype = "broken_json" THEN "json" ELSE ctype

ParsePlaceholders(refs, ctype, configs) ==
    \A i \in DOMAIN refs :
        LET r == refs[i] IN
            IF r.at = "header"
            THEN r.field # NoField \/ AllowedHeaderForCredential(configs, r)
            ELSE /\ r.cred \in DOMAIN configs /\ configs[r.cred].body
                 /\ ContentTypeOf(ctype) \in configs[r.cred].types
                 /\ ValidateBodyPlaceholderPosition(r, ctype)

(* A reference that cannot be resolved is left as it was written.          *)
SubstituteRef(r, values) ==
    IF r.cred \notin DOMAIN values THEN {}
    ELSE IF r.field # NoField
    THEN IF r.field \in values[r.cred].fields THEN {<<values[r.cred].id, r.field>>} ELSE {}
    ELSE IF IsObject(values[r.cred]) THEN {} ELSE WholeOf(values[r.cred])

Substitute(refs, values) == UNION {SubstituteRef(refs[i], values) : i \in DOMAIN refs}

-----------------------------------------------------------------------------
(* sanitize_response: an upstream may return any piece it was sent, as it  *)
(* is, in base64 or percent-encoded.                                       *)

Encodings == {"raw", "base64", "url"}

ScrubOne(holds, pieces) == {x \in holds : x[1] \notin pieces}

SecretByteForms(pieces) == pieces \X {"raw", "base64"}

(* Faulty variant: the fields of an object are not looked for.             *)
SanitizeWhole(body, holds, values) ==
    LET pieces == UNION {WholeOf(v) : v \in values} IN
        CASE body = "huge" -> holds
          [] body = "binary" -> IF holds \cap SecretByteForms(pieces) # {} THEN {} ELSE holds
          [] body = "text" -> ScrubOne(holds, pieces)

(* Over ten megabytes the body is passed on unread; what is not text is    *)
(* withheld as a whole.                                                    *)
SanitizeResponse(body, holds, values) ==
    LET pieces == UNION {PiecesOf(v) : v \in values} IN
        CASE body = "huge" -> holds
          [] body = "binary" -> IF holds \cap SecretByteForms(pieces) # {} THEN {} ELSE holds
          [] body = "text" -> ScrubOne(holds, pieces)

-----------------------------------------------------------------------------
(* Signing: a payload is the digest of a text, or a message.               *)

Digest(hash, text) == [kind |-> "digest", hash |-> hash, text |-> text]

KnownHashes == {"keccak256", "sha256"}

VerifyPreimage(pre, payload) ==
    pre.hash \in KnownHashes /\ payload = Digest(pre.hash, pre.text)

IsEcdsa(value) == value.curve # "ed25519"

(* Faulty variant: the text that comes with a digest is shown untested.    *)
TakesAnyPreimage(value, payload, pre) ==
    CASE pre # NoValue /\ ~IsEcdsa(value) -> [error |-> "no_digest", blind |-> FALSE, shown |-> NoValue]
      [] pre # NoValue -> [error |-> "none", blind |-> FALSE, shown |-> pre.text]
      [] pre = NoValue /\ IsEcdsa(value) -> [error |-> "none", blind |-> TRUE, shown |-> NoValue]
      [] OTHER -> [error |-> "none", blind |-> FALSE, shown |-> payload.text]

(* The guard against blind signing.  Nothing stores require_preimage yet   *)
(* (row_to_policy_config), so a digest without its text is only flagged.   *)
PreimageGuard(value, payload, pre) ==
    IF pre # NoValue /\ ~IsEcdsa(value)
    THEN [error |-> "no_digest", blind |-> FALSE, shown |-> NoValue]
    ELSE IF pre # NoValue /\ ~VerifyPreimage(pre, payload)
    THEN [error |-> "mismatch", blind |-> FALSE, shown |-> NoValue]
    ELSE IF pre # NoValue THEN [error |-> "none", blind |-> FALSE, shown |-> pre.text]
    ELSE IF IsEcdsa(value) THEN [error |-> "none", blind |-> TRUE, shown |-> NoValue]
    ELSE [error |-> "none", blind |-> FALSE, shown |-> payload.text]

(* The curves of ECDSA sign thirty-two bytes and nothing else.             *)
Signs(value, payload) == IsEcdsa(value) => payload.kind = "digest"
=============================================================================
