----------------------------- MODULE Authorizer -----------------------------
(***************************************************************************)
(* What a request is allowed: the Lambda authorizer (handler.py) decides   *)
(* on its headers, and AuthExtension (auth.py) on the operation from the   *)
(* scopes the authorizer put into the request context.  Both keep no state *)
(* but the authorizer's environment, env: the set COGNITO_CLIENT_ID holds  *)
(* (empty when it is not set) and LEGACY_API_KEY.                          *)
(* A request is [apiKey, scheme, key, token, claimed]: the x-api-key       *)
(* header, the scheme of Authorization with the key or token after it, and *)
(* the scopes of an X-Auth-Scopes header.                                  *)
(***************************************************************************)
EXTENDS Naturals

Read == "toshi/read"
Write == "toshi/write"
Admin == "aws.cognito.signin.user.admin"
NoKey == ""
Unauthorized == [effect |-> "none", scopes |-> {}]
Allow(scopes) == [effect |-> "Allow", scopes |-> scopes]

\* validate_legacy_api_key; mutant: an unset key matches an empty one.
AnyEqualKey(e, key) == key = e.legacyKey
ValidKey(e, key) == e.legacyKey # NoKey /\ key = e.legacyKey

\* Scopes of a token from a password login come from the user's groups.
GroupScopes(groups) ==
    (IF groups \intersect {"toshi-readers", "toshi-writers"} # {} THEN {Read} ELSE {})
        \union (IF "toshi-writers" \in groups THEN {Write} ELSE {})
TokenScopes(t) ==
    IF Admin \in t.scopes /\ GroupScopes(t.groups) # {}
    THEN GroupScopes(t.groups) ELSE t.scopes

\* validate_cognito_token: signature and issuer, expiry, use, client.
ValidToken(e, t) ==
    /\ t.genuine
    /\ t.left > 0
    /\ t.use = "access"
    /\ e.allowlist # {} => t.client \in e.allowlist

KeyContext(e, key) ==
    IF ValidKey(e, key) THEN Allow({Read, Write}) ELSE Unauthorized

\* handler: an x-api-key header is the only thing looked at when it is there.
Context(e, request) ==
    IF request.apiKey # NoKey THEN KeyContext(e, request.apiKey)
    ELSE CASE request.scheme = "apikey" -> KeyContext(e, request.key)
           [] request.scheme = "bearer" /\ ValidToken(e, request.token) ->
                Allow(TokenScopes(request.token))
           [] OTHER -> Unauthorized

\* _extract_auth_context: the headers count only where no authorizer ran.
ScopesOf(context, request) ==
    IF context # Unauthorized THEN context.scopes ELSE request.claimed

\* AuthExtension.on_execute.
Executes(operation, scopes) ==
    /\ Read \in scopes
    /\ operation = "mutation" => Write \in scopes

\* The gateway answers 401 itself when the authorizer raises.
Served(e, request, operation) ==
    LET context == Context(e, request)
    IN  context # Unauthorized /\ Executes(operation, ScopesOf(context, request))

\* The request of a client with a token.
Bearing(t) ==
    [apiKey |-> NoKey, scheme |-> "bearer", key |-> NoKey, token |-> t, claimed |-> {}]
=============================================================================
