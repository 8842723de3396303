----------------------------- MODULE ChatRequest -----------------------------
(***************************************************************************)
(* One POST /v1/chat/completions, from its body to the last byte of its    *)
(* answer: the handler in router/app.py, the choice of a provider in       *)
(* router/policies.py and the call of the provider in router/providers.    *)
(* The client, who may leave at any time, and the provider, who may fail   *)
(* in every way the network allows, are actors of their own.               *)
(*                                                                         *)
(* Left out: what messages and answers say, and the inside of the tool     *)
(* loop (module ToolLoop), of which only the errors it ends with remain.   *)
(* A request the handler gives up with an uncaught exception is "dropped": *)
(* the thread ends and closes the connection without an answer.            *)
(***************************************************************************)
EXTENDS Integers, FiniteSets

CONSTANTS
  Requests,      \* the requests a client may send
  Configs,       \* the settings the router may be started with
  Statuses,      \* HTTP statuses of providers that urllib takes for errors
  Payloads,      \* bodies of their error answers
  Unavailable,   \* error types that end with "_unavailable"
  MaxToolSteps,  \* rounds of the tool loop that may ask for tools
  StreamLength,  \* bound: units of data a provider streams
  ReadSize,      \* units upstream.read waits for (1024 bytes)
  NoAnswer

VARIABLES
  at,        \* where the handler is
  request,
  config,    \* enabled routes and the settings of the providers
  client,    \* "waiting" or "gone"
  answer,    \* status and type of what was written to the client
  rounds,    \* answers of the model that asked for tools
  sent,      \* units the provider has streamed
  relayed,   \* units written to the client
  over,      \* the provider has ended its stream properly
  \* History, not in the program:
  reached,   \* providers and "tools", once the request has reached them
  failure    \* how the provider has failed

vars == <<at, request, config, client, answer, rounds, sent, relayed, over,
          reached, failure>>

stream == <<sent, relayed, over>>

------------------------------------------------------------------------------
\* The error types of the checks of one field each, in the order of
\* validate_chat_request_payload; a list of messages can fail in several ways.
FieldTypes == <<"invalid_route", "invalid_request_field", "invalid_stream",
                "invalid_model", "invalid_allowed_tools", "invalid_tool_call">>

MessageTypes == {"invalid_messages", "invalid_message", "invalid_role",
                 "unsupported_role", "invalid_content", "unsupported_content"}

DefectTypes == {FieldTypes[k] : k \in 1..6} \cup MessageTypes

\* "null" is a route field that is there and null.
Routes == {"auto", "local", "reasoning", "heavy", "null"}

Bodies == {"object", "not_object", "not_json", "unreadable"}

\* The model a request names: the provider's default, a name, or a name that is
\* no part of a URL.
Models == {"default", "named", "odd"}

Request == [body : Bodies, defects : SUBSET DefectTypes,
            tool : BOOLEAN, stream : BOOLEAN, route : Routes, model : Models]

Providers == {"local_vllm", "gemini_fallback", "openai_responses"}

Settings == {"local_vllm_base_url", "local_vllm_default_model",
             "gemini_base_url", "gemini_api_key", "gemini_default_model",
             "openai_responses_base_url", "openai_models_base_url",
             "openai_api_key", "openai_text_model", "openai_reasoning_model",
             "openai_tools_model"}

\* A setting is missing or empty, white space only, the example's, not to be
\* used in a request, or sound.
Values == {"none", "blank", "placeholder", "odd", "sound"}

Config == [enabled : SUBSET {"reasoning", "heavy"}, value : [Settings -> Values]]

\* _is_blank
Given(c, s) == c.value[s] \notin {"none", "blank"}

GeminiSettings == {"gemini_base_url", "gemini_api_key", "gemini_default_model"}

OpenAISettings == {"openai_responses_base_url", "openai_models_base_url",
                   "openai_api_key", "openai_reasoning_model"}

\* Fault: the model of another slot is asked for.
ValidateOtherSlot(c) ==
  /\ Given(c, "local_vllm_base_url") /\ Given(c, "local_vllm_default_model")
  /\ "reasoning" \in c.enabled =>
       /\ \A s \in GeminiSettings : Given(c, s)
       /\ c.value["gemini_default_model"] # "placeholder"
  /\ "heavy" \in c.enabled =>
       \A s \in (OpenAISettings \ {"openai_reasoning_model"})
                  \cup {"openai_text_model"} : Given(c, s)

\* validate_config: with any other configuration the router does not start.
ValidConfig(c) ==
  /\ Given(c, "local_vllm_base_url") /\ Given(c, "local_vllm_default_model")
  /\ "reasoning" \in c.enabled =>
       /\ \A s \in GeminiSettings : Given(c, s)
       /\ c.value["gemini_default_model"] # "placeholder"
  /\ "heavy" \in c.enabled => \A s \in OpenAISettings : Given(c, s)

\* type "none": the body names no error type; text: it has a message.
Payload == [type : STRING, text : BOOLEAN]

ASSUME ChatConstants ==
  /\ Requests \subseteq Request
  /\ Configs \subseteq Config
  /\ Statuses \subseteq (100..999) \ (200..299)
  /\ Payloads \subseteq Payload
  /\ Unavailable \cap {"streaming_not_supported", "timeout",
                      "upstream_non_json"} = {}
  /\ MaxToolSteps \in Nat
  /\ StreamLength \in Nat
  /\ ReadSize \in Nat \ {0}

\* PUBLIC_PROVIDER_ERROR_TYPES, and the types of _classify_provider_error_type
PublicTypes == {"invalid_messages", "invalid_message", "invalid_role",
                "invalid_model_tool_call", "unsupported_role",
                "missing_user_content", "unsupported_content",
                "streaming_not_supported"}

StableTypes == {"provider_error", "provider_unavailable", "upstream_bad_response",
                "auth_error", "rate_limited", "timeout", "streaming_not_supported"}

AnswerTypes ==
  {"answer", "stream", "invalid_json", "invalid_request", "route_unavailable",
   "tool_not_allowed", "tool_not_found", "tool_timeout", "tool_execution_failed",
   "max_tool_steps_exceeded", "tool_loop_repeated_call_detected"}
    \cup DefectTypes \cup PublicTypes \cup StableTypes

AnswerRecord == [status : Nat, type : AnswerTypes]

ASSUME NoAnswerOK == NoAnswer \notin AnswerRecord

Places == {"read", "validate", "tool", "select", "call", "await", "loop",
           "head", "relay", "done"}

Failures == {"none", "refused", "timeout", "unreachable", "bad_response",
             "no_request"}

TypeOK == /\ at \in Places
          /\ request \in Requests
          /\ config \in Configs
          /\ client \in {"waiting", "gone"}
          /\ answer \in AnswerRecord \cup {NoAnswer}
          /\ rounds \in 0..MaxToolSteps
          /\ sent \in 0..StreamLength
          /\ relayed \in 0..sent
          /\ over \in BOOLEAN
          /\ reached \subseteq Providers \cup {"tools"}
          /\ failure \in Failures

Init == /\ at = "read"
        /\ request \in Requests
        /\ config \in Configs /\ ValidConfig(config)
        /\ client = "waiting"
        /\ answer = NoAnswer
        /\ rounds = 0
        /\ sent = 0 /\ relayed = 0 /\ over = FALSE
        /\ reached = {}
        /\ failure = "none"

Answer(s, t) == at' = "done" /\ answer' = [status |-> s, type |-> t]

Drop == at' = "done" /\ UNCHANGED answer

Goto(where) == at' = where /\ UNCHANGED answer

------------------------------------------------------------------------------
(* _read_json_body and validate_chat_request_payload                       *)

\* A body that is not UTF-8, or a Content-Length that is no number, raises.
ReadBody ==
  /\ at = "read"
  /\ \/ request.body = "object" /\ Goto("validate")
     \/ request.body = "not_object" /\ Answer(400, "invalid_request")
     \/ request.body = "not_json" /\ Answer(400, "invalid_json")
     \/ request.body = "unreadable" /\ Drop
  /\ UNCHANGED <<request, config, client, rounds, stream, reached, failure>>

\* Fault: a streamed tool call passes.
OwnDefects == request.defects

\* What is wrong with the request: tool calls are not streamed.
Defects == request.defects \cup
             IF request.tool /\ request.stream THEN {"invalid_tool_call"} ELSE {}

\* The first check that fails names the type.
FirstDefect(t) ==
  /\ t \in Defects
  /\ \/ \E k \in 1..6 : /\ t = FieldTypes[k]
                        /\ \A j \in 1..(k - 1) : FieldTypes[j] \notin Defects
     \/ Defects \subseteq MessageTypes

Refuse(t) ==
  /\ at = "validate"
  /\ FirstDefect(t)
  /\ Answer(400, t)
  /\ UNCHANGED <<request, config, client, rounds, stream, reached, failure>>

Accept ==
  /\ at = "validate"
  /\ Defects = {}
  /\ Goto(IF request.tool THEN "tool" ELSE "select")
  /\ UNCHANGED <<request, config, client, rounds, stream, reached, failure>>

------------------------------------------------------------------------------
(* execute_tool_call: no provider is asked.                                *)

\* The statuses ToolLoopEngine._run_tool_call gives its errors.
ToolErrors == {[status |-> 403, type |-> "tool_not_allowed"],
               [status |-> 404, type |-> "tool_not_found"],
               [status |-> 504, type |-> "tool_timeout"],
               [status |-> 500, type |-> "tool_execution_failed"]}

ExecuteToolCall ==
  /\ at = "tool"
  /\ \E a \in ToolErrors \cup {[status |-> 200, type |-> "answer"]} :
       Answer(a.status, a.type)
  /\ reached' = reached \cup {"tools"}
  /\ UNCHANGED <<request, config, client, rounds, stream, failure>>

------------------------------------------------------------------------------
(* select_provider                                                         *)

RouteEnabled ==
  \/ request.route \in {"auto", "local"}
  \/ request.route \in config.enabled

ProviderForRoute ==
  IF request.route \in {"auto", "local"} THEN "local_vllm"
  ELSE IF request.route = "reasoning" THEN "gemini_fallback"
  ELSE "openai_responses"

\* Fault: a route that is not enabled is served all the same.
SelectAnyway ==
  /\ at = "select"
  /\ IF request.route = "null" THEN Answer(400, "invalid_route")
     ELSE Goto("call")
  /\ UNCHANGED <<request, config, client, rounds, stream, reached, failure>>

SelectProvider ==
  /\ at = "select"
  /\ IF request.route = "null" THEN Answer(400, "invalid_route")
     ELSE IF ~RouteEnabled THEN Answer(503, "route_unavailable")
     ELSE Goto("call")
  /\ UNCHANGED <<request, config, client, rounds, stream, reached, failure>>

------------------------------------------------------------------------------
(* normalize_provider_error                                                *)

\* _classify_provider_error_type
TypeOfStatus(s) ==
  IF s \in {401, 403} THEN "auth_error"
  ELSE IF s = 429 THEN "rate_limited"
  ELSE IF s \in {408, 504} THEN "timeout"
  ELSE IF s >= 500 THEN "provider_unavailable"
  ELSE "provider_error"

Classify(s, t) ==
  IF t \in {"streaming_not_supported", "timeout"} THEN t
  ELSE IF t = "upstream_non_json" THEN "upstream_bad_response"
  ELSE IF t \in Unavailable THEN "provider_unavailable"
  ELSE TypeOfStatus(s)

\* Fault: the provider's own type is handed on.
HandOn(s, p) == IF p.type # "none" THEN p.type ELSE TypeOfStatus(s)

Normalize(s, p) ==
  IF p.type \in PublicTypes /\ p.text THEN p.type ELSE Classify(s, p.type)

\* A ProviderError with status s and payload p, answered.
ProviderError(s, p, f) ==
  /\ Answer(s, Normalize(s, p))
  /\ failure' = f
  /\ UNCHANGED <<request, config, client, rounds, stream, reached>>

------------------------------------------------------------------------------
(* provider.generate and provider.stream_chat_completions: request_json    *)
(* and request_stream                                                      *)

NotConfiguredType ==
  IF ProviderForRoute = "gemini_fallback"
  THEN "gemini_fallback_not_configured" ELSE "openai_responses_not_configured"

StreamingNotSupported ==
  /\ at = "call"
  /\ request.stream
  /\ ProviderForRoute # "local_vllm"
  /\ ProviderError(501, [type |-> "streaming_not_supported", text |-> TRUE], "none")

\* What the adapter itself asks for, in every call: "not self.api_key or ...".
Has(s) == config.value[s] # "none"

\* The setting with the default model of provider_slot_for_route("heavy").
SlotModel == "openai_reasoning_model"

Configured ==
  CASE ProviderForRoute = "local_vllm" -> TRUE
    [] ProviderForRoute = "gemini_fallback" ->
         Has("gemini_api_key") /\ Has("gemini_default_model")
    [] ProviderForRoute = "openai_responses" ->
         Has("openai_api_key") /\ (request.model # "default" \/ Has(SlotModel))

\* The settings that go into the URL or a header of the call.
RequestParts ==
  CASE ProviderForRoute = "local_vllm" -> {"local_vllm_base_url"}
    [] ProviderForRoute = "gemini_fallback" ->
         {"gemini_base_url", "gemini_api_key"}
           \cup IF request.model = "default" THEN {"gemini_default_model"} ELSE {}
    [] ProviderForRoute = "openai_responses" ->
         {"openai_responses_base_url", "openai_api_key"}

\* Gemini's URL has the name of the model in it.
RequestIsOdd ==
  \/ \E s \in RequestParts : config.value[s] = "odd"
  \/ ProviderForRoute = "gemini_fallback" /\ request.model = "odd"

CallProvider ==
  /\ at = "call"
  /\ ProviderForRoute = "local_vllm" \/ ~request.stream
  /\ ~(Configured /\ RequestIsOdd)
  /\ IF Configured
     THEN /\ Goto("await")
          /\ reached' = reached \cup {ProviderForRoute}
          /\ UNCHANGED <<request, config, client, rounds, stream, failure>>
     ELSE ProviderError(501, [type |-> NotConfiguredType, text |-> TRUE], "none")

\* urllib makes no request of it: an InvalidURL is an HTTPException, which nothing
\* catches; a ValueError (no scheme, a line break in a header) is taken for one of
\* request_messages_from_payload, unless the answer was to be streamed; a URLError
\* is one of the provider.
MakesNoRequest ==
  /\ at = "call"
  /\ ProviderForRoute = "local_vllm" \/ ~request.stream
  /\ Configured /\ RequestIsOdd
  /\ \/ Drop
     \/ ~request.stream /\ Answer(400, "invalid_messages")
     \/ Answer(502, "provider_unavailable")
  /\ failure' = "no_request"
  /\ UNCHANGED <<request, config, client, rounds, stream, reached>>

\* An HTTPError whose body can be read; redirections are among them that urllib
\* does not follow (304, 307 and 308 of a POST, any without a Location).
Refuses(s, p) == at = "await" /\ ProviderError(s, p, "refused")

TimesOut ==
  /\ at = "await"
  /\ ProviderError(504, [type |-> "timeout", text |-> TRUE], "timeout")

\* The connection is refused or lost before the headers of the answer.
Unreachable ==
  /\ at = "await"
  /\ Answer(502, "provider_unavailable")
  /\ failure' = "unreachable"
  /\ UNCHANGED <<request, config, client, rounds, stream, reached>>

\* An http.client.HTTPException (a malformed status line, a body shorter than
\* announced) is neither a URLError nor an OSError: nothing catches it.
BreaksProtocol ==
  /\ at = "await"
  /\ Drop
  /\ failure' = "bad_response"
  /\ UNCHANGED <<request, config, client, rounds, stream, reached>>

\* exc.read() runs in the handler of the HTTPError, where the other handlers
\* of the same try do not catch its TimeoutError.
ErrorBodyStalls ==
  /\ at = "await"
  /\ Drop
  /\ failure' = "timeout"
  /\ UNCHANGED <<request, config, client, rounds, stream, reached>>

\* Status 200 with a body that is not JSON: _decode_json makes an error payload
\* of it, which the parser takes for an empty final answer.
AnswersWithoutJson ==
  /\ at = "await"
  /\ ~request.stream
  /\ Answer(200, "answer")
  /\ failure' = "bad_response"
  /\ UNCHANGED <<request, config, client, rounds, stream, reached>>

------------------------------------------------------------------------------
(* The tool loop, seen from chat_completions                               *)

AnswersFinally ==
  /\ at = "await"
  /\ ~request.stream
  /\ Answer(200, "answer")
  /\ UNCHANGED <<request, config, client, rounds, stream, reached, failure>>

AsksForTools ==
  /\ at = "await"
  /\ ~request.stream
  /\ Goto("loop")
  /\ UNCHANGED <<request, config, client, rounds, stream, reached, failure>>

\* Plans that are not run, answered before any of their calls; a duplicate call
\* id comes as a ValueError.
PlanErrors == {[status |-> 409, type |-> "max_tool_steps_exceeded"],
               [status |-> 409, type |-> "tool_loop_repeated_call_detected"],
               [status |-> 502, type |-> "invalid_model_tool_call"],
               [status |-> 400, type |-> "invalid_messages"]}

RejectPlan ==
  /\ at = "loop"
  /\ \E a \in PlanErrors : Answer(a.status, a.type)
  /\ UNCHANGED <<request, config, client, rounds, stream, reached, failure>>

ToolFails ==
  /\ at = "loop"
  /\ \E a \in ToolErrors : Answer(a.status, a.type)
  /\ reached' = reached \cup {"tools"}
  /\ UNCHANGED <<request, config, client, rounds, stream, failure>>

\* Fault: rounds cost nothing.
AskAgainForFree ==
  /\ at = "loop"
  /\ rounds < MaxToolSteps
  /\ Goto("call")
  /\ reached' = reached \cup {"tools"}
  /\ UNCHANGED <<request, config, client, stream, failure, rounds>>

\* A plan has at least one call, and calls are counted (ToolLoop!StepBudget).
AskAgain ==
  /\ at = "loop"
  /\ rounds < MaxToolSteps
  /\ Goto("call")
  /\ rounds' = rounds + 1
  /\ reached' = reached \cup {"tools"}
  /\ UNCHANGED <<request, config, client, stream, failure>>

------------------------------------------------------------------------------
(* _write_stream_response and _iter_upstream_chunks                        *)

OpensStream ==
  /\ at = "await"
  /\ request.stream
  /\ Goto("head")
  /\ UNCHANGED <<request, config, client, rounds, stream, reached, failure>>

SendHead ==
  /\ at = "head"
  /\ at' = "relay"
  /\ answer' = [status |-> 200, type |-> "stream"]
  /\ UNCHANGED <<request, config, client, rounds, stream, reached, failure>>

\* Outside the try: a BrokenPipeError ends the thread.
HeadFails ==
  /\ at = "head"
  /\ client = "gone"
  /\ Drop
  /\ UNCHANGED <<request, config, client, rounds, stream, reached, failure>>

DataArrives ==
  /\ at = "relay"
  /\ ~over
  /\ sent < StreamLength
  /\ sent' = sent + 1
  /\ UNCHANGED <<at, request, config, client, answer, rounds, relayed, over,
                 reached, failure>>

StreamEnds ==
  /\ at = "relay"
  /\ ~over
  /\ over' = TRUE
  /\ UNCHANGED <<at, request, config, client, answer, rounds, sent, relayed,
                 reached, failure>>

Held == sent - relayed

\* upstream.read(1024) returns: a whole chunk, or what is left at the end.
ReadReturns == Held >= ReadSize \/ (over /\ Held > 0)

Forward ==
  /\ at = "relay"
  /\ ReadReturns
  /\ relayed' = relayed + IF Held < ReadSize THEN Held ELSE ReadSize
  /\ UNCHANGED <<at, request, config, client, answer, rounds, sent, over,
                 reached, failure>>

\* BrokenPipeError and ConnectionResetError end the relay.
ForwardFails ==
  /\ at = "relay"
  /\ ReadReturns
  /\ client = "gone"
  /\ Drop
  /\ UNCHANGED <<request, config, client, rounds, stream, reached, failure>>

\* Fault: the end of the stream cuts off what has been read.
CutOff ==
  /\ at = "relay"
  /\ over
  /\ Drop
  /\ UNCHANGED <<request, config, client, rounds, stream, reached, failure>>

EndOfStream ==
  /\ at = "relay"
  /\ over
  /\ Held = 0
  /\ Drop
  /\ UNCHANGED <<request, config, client, rounds, stream, reached, failure>>

\* upstream.read raises, and what it had gathered is lost with it: a timeout is
\* caught like a client that has left, an IncompleteRead is not caught at all.
StreamBreaksOff(f) ==
  /\ at = "relay"
  /\ ~over
  /\ ~ReadReturns
  /\ f \in {"timeout", "bad_response"}
  /\ Drop
  /\ failure' = f
  /\ UNCHANGED <<request, config, client, rounds, stream, reached>>

------------------------------------------------------------------------------
ClientLeaves ==
  /\ at # "done"
  /\ client = "waiting"
  /\ client' = "gone"
  /\ UNCHANGED <<at, request, config, answer, rounds, stream, reached, failure>>

Edge == ReadBody \/ (\E t \in DefectTypes : Refuse(t)) \/ Accept

Provide ==
  \/ StreamingNotSupported \/ CallProvider \/ MakesNoRequest
  \/ \E s \in Statuses, p \in Payloads : Refuses(s, p)
  \/ TimesOut \/ Unreachable \/ BreaksProtocol \/ ErrorBodyStalls
  \/ AnswersWithoutJson \/ AnswersFinally \/ AsksForTools \/ OpensStream

Loop == RejectPlan \/ ToolFails \/ AskAgain

Relay ==
  \/ SendHead \/ HeadFails \/ DataArrives \/ StreamEnds
  \/ Forward \/ ForwardFails \/ EndOfStream
  \/ \E f \in Failures : StreamBreaksOff(f)

Handle == Edge \/ ExecuteToolCall \/ SelectProvider \/ Provide \/ Loop \/ Relay

Next == Handle \/ ClientLeaves

Spec == Init /\ [][Next]_vars

\* The handler is a thread of its own; a silent provider times out; the client
\* reads what it is sent or leaves.  Nothing makes a client leave.
FairSpec == Spec /\ WF_vars(Handle)

------------------------------------------------------------------------------
(* Properties.                                                             *)

\* "Semantisch kaputte oder mehrdeutige Requests werden mit konsistenten
\* 4xx-Antworten abgelehnt" (README.md:326): a request with a defect reaches
\* neither a provider nor a tool, and is answered with one of its defects.
DefectsAreRefused ==
  request.defects # {} \/ (request.tool /\ request.stream) =>
    /\ reached = {}
    /\ at = "done" /\ request.body = "object" =>
         /\ answer.status = 400
         /\ answer.type \in request.defects \cup {"invalid_tool_call"}

\* "... antwortet der Router mit einem expliziten Fehler statt still auf einen
\* anderen Provider zu wechseln" (README.md:303): over all rounds of a request,
\* the only provider it reaches is the one its route names, and only if that
\* route is enabled.
NoSilentSwitch ==
  /\ "local_vllm" \in reached => request.route \in {"auto", "local"}
  /\ "gemini_fallback" \in reached =>
       /\ request.route = "reasoning"
       /\ "reasoning" \in config.enabled
  /\ "openai_responses" \in reached =>
       /\ request.route = "heavy"
       /\ "heavy" \in config.enabled

\* validate_config, run once before the server starts, asks for all that the
\* adapters ask for in every call, each by a list and a test of its own: no
\* request to an enabled route, with or without a model, is answered that its
\* provider is not configured.
EnabledIsConfigured ==
  answer # NoAnswer /\ failure = "none" /\ answer.status = 501 =>
    answer.type = "streaming_not_supported"

\* "Frontends sehen dadurch keine rohen Upstream-Fehlerstrukturen, sondern
\* stabile Typen" (README.md:331): whatever a provider puts into its error, an
\* error answered because of it has a type of that list or of the router's own
\* (providers/base.py:17).  Its status is the provider's, whatever that is.
StableErrors ==
  /\ failure # "none"
  /\ answer # NoAnswer
  /\ answer.type \notin {"answer", "stream"}
  => answer.type \in StableTypes \cup PublicTypes

\* A stream that its provider has ended properly, and whose client has stayed,
\* is relayed to its last unit, also when that is no whole chunk.
WholeStream ==
  /\ at = "done" /\ failure = "none" /\ client = "waiting"
  /\ answer # NoAnswer /\ answer.type = "stream"
  => over /\ relayed = sent

\* The inductive strengthening: what each place has already excluded.
IInv ==
  /\ TypeOK
  /\ ValidConfig(config)
  /\ at \notin {"relay", "done"} => answer = NoAnswer
  /\ at = "relay" => answer = [status |-> 200, type |-> "stream"]
  /\ at # "done" => failure = "none"
  /\ at \in {"read", "validate"} => reached = {}
  /\ at \notin {"read", "validate", "done"} => Defects = {}
  /\ at \notin {"read", "done"} => request.body = "object"
  /\ at \in {"call", "await", "loop", "head", "relay"} =>
       RouteEnabled /\ request.route # "null"
  /\ DefectsAreRefused
  /\ NoSilentSwitch
  /\ EnabledIsConfigured
  /\ StableErrors
  /\ WholeStream

\* Every request comes to an end: no way to fail leaves the handler waiting.
RequestFinishes == <>(at = "done")

\* "Providerbedingte Fehler werden an der Router-Grenze normalisiert"
\* (README.md:331), a list that has upstream_bad_response, and timeouts are
\* visible "als konsistenter 504-Fehler" (README.md:341): a client who waits for
\* the answer gets to know that the provider has failed.
FailuresAreReported ==
  at = "done" /\ failure \notin {"none", "no_request"} /\ client = "waiting" =>
    answer # NoAnswer /\ answer.type \notin {"answer", "stream"}

==============================================================================
