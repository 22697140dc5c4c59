----------------------------- MODULE Providers -----------------------------
(***************************************************************************)
(* What becomes of one provider call: an answer, a temporary error, which a   *)
(* run is retried for, a permanent one, which is the result of a case, or any *)
(* other exception, which fails the whole run.                               *)
(***************************************************************************)
EXTENDS Naturals

CONSTANT MaxInputChars   \* llm_max_input_chars

ASSUME ProvidersAssumption == MaxInputChars \in Nat

Outcomes == {"answer", "temporary", "permanent", "other"}

(***************************************************************************)
(* What the Gemini endpoint does: an HTTP error with its code; "tornError",   *)
(* an HTTP error whose body breaks off; no connection or none in time; a      *)
(* connection that breaks off inside the body; a body that is no JSON, no     *)
(* object, without candidates, or whose token counts are null; and a          *)
(* candidate: a call of the inspection tool, a diagnosis, or anything else.   *)
(***************************************************************************)
Codes == {400, 401, 403, 404, 408, 409, 413, 429, 500, 503}

Candidates == {"call", "diagnosis", "text"}

Replies ==
  [kind : {"http"}, code : Codes] \union
  [kind : {"tornError", "timeout", "unreachable", "reset", "garbled", "notObject",
           "noCandidate", "nullUsage"} \union Candidates, code : {200}]

TemporaryCode(code) == code \in {408, 409, 429} \/ code >= 500

\* _provider_http_error reads the body of an HTTP error, and nothing catches what
\* breaks off there.
ErrorBodyTorn(reply) == reply.kind = "tornError"

\* GeminiClient._send
Send(reply) ==
  CASE reply.kind = "http" -> IF TemporaryCode(reply.code) THEN "temporary" ELSE "permanent"
    [] reply.kind \in {"timeout", "unreachable", "garbled", "notObject"} -> "temporary"
    [] ErrorBodyTorn(reply) \/ reply.kind = "reset" -> "other"
    [] OTHER -> "answer"

\* GeminiClient.generate
Generate(reply) ==
  CASE Send(reply) # "answer" -> Send(reply)
    [] reply.kind = "noCandidate" -> "permanent"
    [] reply.kind = "nullUsage" -> "other"
    [] OTHER -> "answer"

\* GeminiProvider.evaluate: a prompt and input that are too long are never sent.
GeminiOutcome(call) ==
  IF call.chars > MaxInputChars THEN "permanent" ELSE Generate(call.reply)

\* MockProvider.evaluate: the behaviour of the case stands before the one of the
\* run, also when it is null; a latency that is no number raises.
MockOutcome(call) ==
  LET behavior == IF call.caseBehavior = "absent" THEN call.runBehavior
                                                  ELSE call.caseBehavior
  IN CASE behavior = "temporary_error" -> "temporary"
       [] behavior = "permanent_error" -> "permanent"
       [] OTHER -> IF call.badLatency THEN "other" ELSE "answer"

\* get_provider, once per run: there is no other provider, and Gemini only when it
\* is configured.
Unavailable(call) ==
  CASE call.provider = "mock" -> FALSE
    [] call.provider = "gemini" -> ~call.configured
    [] OTHER -> TRUE

\* What all calls of a run have in common.
RunPart(call) ==
  CASE call.provider = "mock" -> <<"mock", call.runBehavior>>
    [] call.provider = "gemini" -> <<"gemini", call.configured>>
    [] OTHER -> <<call.provider>>

\* The call of an available provider.
ProviderOutcome(call) ==
  IF call.provider = "mock" THEN MockOutcome(call) ELSE GeminiOutcome(call)

=============================================================================
