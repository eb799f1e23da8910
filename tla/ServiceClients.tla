--------------------------- MODULE ServiceClients ---------------------------
(***************************************************************************)
(* What the clients of ORCID and of KBase auth make of a response: the     *)
(* value that the service goes on with, or the JSON-RPC error it answers.  *)
(* An exception that none of them turns into an error of its own is        *)
(* answered as "Internal error" by the JSON-RPC server.                    *)
(***************************************************************************)
EXTENDS Naturals, Outcomes

CONSTANT None   \* null

InternalError == Raise("InternalError")
UpstreamError == Raise("UpstreamError")
ORCIDNotAuthorized == Raise("ORCIDNotAuthorized")

(* No response: aiohttp raises, a ClientError or a TimeoutError.           *)
Lost(e) == [lost |-> e]
IsLost(r) == "lost" \in DOMAIN r

ClientError == {"ClientConnectionError", "ClientPayloadError"}
Losses == {Lost(e) : e \in ClientError \cup {"TimeoutError"}}

(* A body is told apart by what the clients look for in it.                *)
Response(s, t, b) == [status |-> s, type |-> t, body |-> b]

Json(kind) == [kind |-> kind]          \* the expected object, or another one
Coded(key, c) == [kind |-> key, code |-> c]    \* "error", "error-code", "appcode"
InBulk(b) == [kind |-> "bulk", error |-> b]

Unparsable == {"text", "empty"}
Validated(b) == IF b.kind = "expected" THEN Good(b) ELSE InternalError

-----------------------------------------------------------------------------
(* ORCID's error codes (orcid_api_error_codes.py), by category.  The rest  *)
(* are bad requests, ORCID's own errors, or codes that are not listed.     *)

NotAuthorizedCodes == {9002, 9003, 9052}

InsufficientAuthorizationCodes ==
    {9004, 9005, 9010, 9013, 9014, 9015, 9017, 9018, 9035, 9038, 9039}

NotFoundCodes == {9007, 9011, 9016, 9027, 9028, 9029, 9034, 9041, 9044}

orcid_api_error_to_json_rpc_error(code) ==
    CASE code \in NotAuthorizedCodes -> ORCIDNotAuthorized
      [] code \in InsufficientAuthorizationCodes -> Raise("ORCIDInsufficientAuthorization")
      [] code \in NotFoundCodes -> Raise("ORCIDNotFound")
      [] OTHER -> UpstreamError

OAuthBearerErrorType == {"invalid_request", "invalid_token", "insufficient_scope"}

orcid_oauth_bearer_to_json_rpc_error(e) ==
    CASE e = "invalid_token" -> ORCIDNotAuthorized
      [] e = "insufficient_scope" -> Raise("ORCIDInsufficientAuthorization")
      [] OTHER -> UpstreamError

extract_error(b) ==
    CASE b.kind = "error" /\ b.code \in OAuthBearerErrorType ->
            orcid_oauth_bearer_to_json_rpc_error(b.code)
      [] b.kind = "error" /\ b.code \notin OAuthBearerErrorType -> InternalError
      [] b.kind = "error-code" -> orcid_api_error_to_json_rpc_error(b.code)
      [] OTHER -> UpstreamError

ORCID_API_CONTENT_TYPE == "application/vnd.orcid+json"

(* A bulk request answers 200 with its error inside.                       *)
handle_json_response(r) ==
    CASE IsLost(r) -> InternalError
      [] ~IsLost(r) /\ \/ r.type # ORCID_API_CONTENT_TYPE
                       \/ r.body.kind \in Unparsable -> UpstreamError
      [] OTHER ->
            IF r.status # 200 THEN extract_error(r.body)
            ELSE IF r.body.kind = "bulk" THEN extract_error(r.body.error)
            ELSE Validated(r.body)

(* The two calls of works.py that do not go through it.                    *)
PostWorks(r) ==
    CASE IsLost(r) -> IF r.lost \in ClientError THEN UpstreamError ELSE InternalError
      [] ~IsLost(r) /\ (r.status >= 400 \/ r.type = "text/html") -> UpstreamError
      [] OTHER -> Validated(r.body)

DeleteWork(r) ==
    CASE IsLost(r) -> InternalError
      [] ~IsLost(r) /\ r.status = 204 -> Good(r.body)
      [] OTHER -> UpstreamError

-----------------------------------------------------------------------------
(* The OAuth service (orcid_oauth_api.py).                                 *)

OAuthAPIErrorType ==
    {"invalid_request", "invalid_client", "invalid_grant", "unauthorized_client",
     "unsupported_grant_type", "invalid_scope"}

orcid_oauth_api_to_json_rpc_error(e) ==
    IF e \in {"invalid_grant", "unauthorized_client"} THEN ORCIDNotAuthorized ELSE UpstreamError

ORCID_OAUTH_API_CONTENT_TYPE == "application/json"

refresh_token(r) ==
    CASE IsLost(r) -> InternalError
      [] ~IsLost(r) /\ r.type # ORCID_OAUTH_API_CONTENT_TYPE -> Raise("ContentTypeError")
      [] OTHER ->
            IF r.body.kind \in Unparsable THEN Raise("JSONDecodeError")
            ELSE IF r.status = 200 THEN Validated(r.body)
            ELSE IF r.body.kind # "error" THEN UpstreamError
            ELSE IF r.body.code \in OAuthAPIErrorType
                 THEN orcid_oauth_api_to_json_rpc_error(r.body.code)
                 ELSE InternalError

-----------------------------------------------------------------------------
(* KBase auth (kbase_auth.py), for a JSON-RPC method.  An AuthError that   *)
(* is not one of the first three is an OtherAuthError.                     *)

auth_error_to_jsonrpc_error(e) ==
    CASE e = "AuthorizationRequiredAuthError" -> Raise("AuthorizationRequired")
      [] e = "ContentTypeAuthError" -> Raise("ContentTypeError")
      [] e = "JSONDecodeAuthError" -> Raise("JSONDecodeError")
      [] OTHER -> UpstreamError

(* An empty body is None, without an "ok" or an appcode to look at.        *)
get_token_info(r) ==
    CASE IsLost(r) ->
            IF r.lost = "ClientConnectionError" THEN auth_error_to_jsonrpc_error("OtherAuthError")
            ELSE InternalError
      [] ~IsLost(r) /\ r.type # "application/json" ->
            auth_error_to_jsonrpc_error("ContentTypeAuthError")
      [] OTHER ->
            IF r.body.kind = "text" THEN auth_error_to_jsonrpc_error("JSONDecodeAuthError")
            ELSE IF r.status < 400 THEN Validated(r.body)
            ELSE IF r.body.kind # "appcode" THEN InternalError
            ELSE auth_error_to_jsonrpc_error(
                    IF r.body.code = 10020 THEN "AuthorizationRequiredAuthError"
                    ELSE "OtherAuthError")

ensure_authorization2(authorization, r) ==
    IF authorization = None THEN Raise("AuthorizationRequired") ELSE get_token_info(r)
=============================================================================
