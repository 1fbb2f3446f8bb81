---------------------------- MODULE ModelGateway ----------------------------
(***************************************************************************)
(* One call of an external Brain: the request and its checks                *)
(* (external_brain/contracts.py), the HTTP exchange of                      *)
(* transports/openai_compatible.py, the reading of the answer by            *)
(* providers/minimax.py and the checks of gateway.py.  Pure operators, used *)
(* by PaidBrain.                                                            *)
(*                                                                          *)
(* Abstracted: an answer is its HTTP status (0: none arrived), the vendor's *)
(* own code in base_resp, what its body holds, the tokens it reports and    *)
(* whether its sections are those that the operation asks for.              *)
(***************************************************************************)
EXTENDS Naturals

Statuses == {"SUCCESS", "AUTH_ERROR", "RATE_LIMITED", "TIMEOUT", "UNAVAILABLE", "INVALID_RESPONSE", "FAILED"}

HttpCodes  == {0, 200, 400, 403, 408, 429, 503}
BodyShapes == {"timeout", "other_error", "not_json", "no_choices", "truncated", "empty", "reasoning", "text"}
TokenUses  == {"absent", "as_counted", "different", "over_limit"}

\* What the transport can hand over: an exception of the HTTP library becomes
\* an answer without a status, text that is no JSON has no base_resp.
WellFormed(a) ==
  /\ (a.http = 0) <=> (a.body \in {"timeout", "other_error"})
  /\ a.body \in {"timeout", "other_error", "not_json"} => a.base = "none" /\ a.tokens = "absent"
  /\ a.body # "text" => ~a.sections

TransportStatus(a) == IF a.body = "timeout" THEN "TIMEOUT" ELSE "UNAVAILABLE"

BaseStatus(base) ==
  CASE base = "auth"        -> "AUTH_ERROR"
    [] base = "rate"        -> "RATE_LIMITED"
    [] base = "timeout"     -> "TIMEOUT"
    [] base = "unavailable" -> "UNAVAILABLE"
    [] OTHER                -> "FAILED"

HttpStatus(http) ==
  CASE http \in {401, 403} -> "AUTH_ERROR"
    [] http = 429          -> "RATE_LIMITED"
    [] http \in {408, 504} -> "TIMEOUT"
    [] http >= 500         -> "UNAVAILABLE"
    [] OTHER               -> "FAILED"

BodyStatus(a) == IF a.body = "text" THEN "SUCCESS" ELSE "INVALID_RESPONSE"

\* MiniMaxOpenAIProvider.invoke: the vendor's code counts before the HTTP one.
ProviderStatus(a) ==
  IF a.http = 0 THEN TransportStatus(a)
  ELSE IF a.base \notin {"none", "zero"} THEN BaseStatus(a.base)
  ELSE IF a.http # 200 THEN HttpStatus(a.http)
  ELSE BodyStatus(a)

\* ModelGateway.invoke: an answer that belongs to another request, or lacks
\* the sections of its artifact, is an invalid response.  request_id and
\* task_id are those of the request by construction, so only the structure
\* can differ.
GatewayStatus(a) ==
  IF ProviderStatus(a) = "SUCCESS" /\ ~a.sections THEN "INVALID_RESPONSE" ELSE ProviderStatus(a)
=============================================================================
