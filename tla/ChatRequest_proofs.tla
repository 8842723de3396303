-------------------------- MODULE ChatRequest_proofs --------------------------
(***************************************************************************)
(* Proofs about ChatRequest, for any requests, error statuses and error    *)
(* bodies, any number of tool rounds and any length of a stream.           *)
(***************************************************************************)
EXTENDS ChatRequest, TLAPS

\* The classification of an error has one of the router's own types, whatever
\* the provider's status and body.
LEMMA NormalizeStable ==
  ASSUME NEW s \in Nat, NEW p
  PROVE  Normalize(s, p) \in StableTypes \cup PublicTypes
<1>1. TypeOfStatus(s) \in StableTypes
  BY DEF TypeOfStatus, StableTypes
<1>2. Classify(s, p.type) \in StableTypes
  BY <1>1 DEF Classify, StableTypes
<1> QED BY <1>2 DEF Normalize

\* No error the router answers is taken for an answer or a stream.
LEMMA DefectsAreErrors ==
  \A t \in DefectTypes : t \notin {"answer", "stream"}
<1>1. \A k \in 1..6 : FieldTypes[k] \notin {"answer", "stream"}
  BY DEF FieldTypes
<1>2. \A t \in MessageTypes : t \notin {"answer", "stream"}
  BY DEF MessageTypes
<1> QED BY <1>1, <1>2 DEF DefectTypes

------------------------------------------------------------------------------
LEMMA TypeInit == Init => TypeOK
<1> SUFFICES ASSUME Init PROVE TypeOK
  OBVIOUS
<1>1. rounds \in 0..MaxToolSteps /\ sent \in 0..StreamLength /\ relayed \in 0..sent
  BY ChatConstants DEF Init
<1>2. reached \subseteq Providers \cup {"tools"} /\ failure \in Failures
  BY DEF Init, Failures
<1> QED BY <1>1, <1>2 DEF Init, TypeOK, Places

LEMMA TypeStep == TypeOK /\ [Next]_vars => TypeOK'
<1> SUFFICES ASSUME TypeOK, [Next]_vars PROVE TypeOK'
  OBVIOUS
<1> USE DEF TypeOK, Places, Failures
<1>1. CASE Edge
  <2>1. CASE ReadBody
    BY <2>1 DEF ReadBody, Answer, Drop, Goto, AnswerRecord, AnswerTypes, stream
  <2>2. CASE \E t \in DefectTypes : Refuse(t)
    BY <2>2 DEF Refuse, Answer, AnswerRecord, AnswerTypes, stream
  <2>3. CASE Accept
    BY <2>3 DEF Accept, Goto, stream
  <2> QED BY <1>1, <2>1, <2>2, <2>3 DEF Edge
<1>2. CASE ExecuteToolCall
  BY <1>2 DEF ExecuteToolCall, ToolErrors, Answer, AnswerRecord, AnswerTypes, stream
<1>3. CASE SelectProvider
  <2>1. "invalid_route" \in DefectTypes
    BY DEF DefectTypes, FieldTypes
  <2> QED BY <1>3, <2>1 DEF SelectProvider, Answer, Goto, AnswerRecord, AnswerTypes, stream
<1>4. CASE Provide
  <2>1. ASSUME NEW s \in Nat, NEW q, NEW f \in Failures, ProviderError(s, q, f),
               at = "call" \/ at = "await"
        PROVE  TypeOK'
    BY <2>1, NormalizeStable DEF ProviderError, Answer, AnswerRecord, AnswerTypes, stream
  <2>3. CASE StreamingNotSupported
    BY <2>1, <2>3 DEF StreamingNotSupported
  <2>4. CASE CallProvider
    <3>1. CASE Configured
      <4>1. /\ Goto("await")
            /\ reached' = reached \cup {ProviderForRoute}
            /\ UNCHANGED <<request, config, client, rounds, stream, failure>>
        BY <2>4, <3>1 DEF CallProvider
      <4>2. ProviderForRoute \in Providers
        BY DEF ProviderForRoute, Providers
      <4> QED BY <4>1, <4>2 DEF Goto, stream
    <3>2. CASE ~Configured
      <4>1. at = "call" /\ \E q : ProviderError(501, q, "none")
        BY <2>4, <3>2 DEF CallProvider
      <4>2. 501 \in Nat /\ "none" \in Failures
        OBVIOUS
      <4> QED BY ONLY <2>1, <4>1, <4>2
    <3> QED BY <3>1, <3>2
  <2>5. ASSUME NEW s \in Statuses, NEW q \in Payloads, Refuses(s, q)
        PROVE  TypeOK'
    BY <2>1, <2>5, ChatConstants DEF Refuses
  <2>6. CASE TimesOut
    BY <2>1, <2>6 DEF TimesOut
  <2>7. CASE Unreachable
    BY <2>7 DEF Unreachable, Answer, AnswerRecord, AnswerTypes, StableTypes, stream
  <2>8. CASE BreaksProtocol \/ ErrorBodyStalls
    BY <2>8 DEF BreaksProtocol, ErrorBodyStalls, Drop, stream
  <2>9. CASE AnswersWithoutJson \/ AnswersFinally
    BY <2>9 DEF AnswersWithoutJson, AnswersFinally, Answer, AnswerRecord, AnswerTypes,
                stream
  <2>10. CASE AsksForTools \/ OpensStream
    BY <2>10 DEF AsksForTools, OpensStream, Goto, stream
  <2>11. CASE MakesNoRequest
    BY <2>11 DEF MakesNoRequest, Answer, Drop, AnswerRecord, AnswerTypes, PublicTypes,
                 StableTypes, stream
  <2> QED BY <1>4, <2>3, <2>4, <2>5, <2>6, <2>7, <2>8, <2>9, <2>10, <2>11 DEF Provide
<1>5. CASE Loop
  <2>1. CASE RejectPlan
    BY <2>1 DEF RejectPlan, PlanErrors, Answer, AnswerRecord, AnswerTypes, PublicTypes,
                stream
  <2>2. CASE ToolFails
    BY <2>2 DEF ToolFails, ToolErrors, Answer, AnswerRecord, AnswerTypes, stream
  <2>3. CASE AskAgain
    BY <2>3, ChatConstants DEF AskAgain, Goto, stream
  <2> QED BY <1>5, <2>1, <2>2, <2>3 DEF Loop
<1>6. CASE Relay
  <2>1. CASE SendHead
    BY <2>1 DEF SendHead, AnswerRecord, AnswerTypes, stream
  <2>2. CASE HeadFails \/ ForwardFails \/ EndOfStream
    BY <2>2 DEF HeadFails, ForwardFails, EndOfStream, Drop, stream
  <2>3. CASE DataArrives
    BY <2>3, ChatConstants DEF DataArrives
  <2>4. CASE StreamEnds
    BY <2>4 DEF StreamEnds
  <2>5. CASE Forward
    BY <2>5, ChatConstants DEF Forward, ReadReturns, Held
  <2>6. CASE \E f \in Failures : StreamBreaksOff(f)
    BY <2>6 DEF StreamBreaksOff, Drop, stream
  <2> QED BY <1>6, <2>1, <2>2, <2>3, <2>4, <2>5, <2>6 DEF Relay
<1>7. CASE ClientLeaves
  BY <1>7 DEF ClientLeaves, stream
<1>8. CASE UNCHANGED vars
  BY <1>8 DEF vars
<1> QED BY <1>1, <1>2, <1>3, <1>4, <1>5, <1>6, <1>7, <1>8 DEF Next, Handle

\* The variables of a request keep their types, whatever provider and client do.
THEOREM TypeCorrect == Spec => []TypeOK
<1> QED BY TypeInit, TypeStep, PTL DEF Spec

------------------------------------------------------------------------------
\* The adapter of an enabled route has what it asks for: by the two lists.
LEMMA EnabledHasAll ==
  ASSUME ValidConfig(config), RouteEnabled,
         request.route \in Routes \ {"null"}
  PROVE  Configured
<1>1. \A s : Given(config, s) => Has(s)
  BY DEF Given, Has
<1>2. CASE request.route \in {"auto", "local"}
  BY <1>2 DEF Configured, ProviderForRoute
<1>3. CASE request.route = "reasoning"
  <2>1. Given(config, "gemini_api_key") /\ Given(config, "gemini_default_model")
    BY <1>3 DEF RouteEnabled, ValidConfig, GeminiSettings
  <2>2. Has("gemini_api_key") /\ Has("gemini_default_model")
    BY <1>1, <2>1
  <2>3. ProviderForRoute = "gemini_fallback"
    BY <1>3 DEF ProviderForRoute
  <2> QED BY <2>2, <2>3 DEF Configured
<1>4. CASE request.route = "heavy"
  <2>1. Given(config, "openai_api_key") /\ Given(config, SlotModel)
    BY <1>4 DEF RouteEnabled, ValidConfig, OpenAISettings, SlotModel
  <2>2. Has("openai_api_key") /\ Has(SlotModel)
    BY <1>1, <2>1
  <2>3. ProviderForRoute = "openai_responses"
    BY <1>4 DEF ProviderForRoute
  <2> QED BY <2>2, <2>3 DEF Configured
<1> QED BY <1>2, <1>3, <1>4 DEF Routes

LEMMA InvInit == Init => IInv
<1> SUFFICES ASSUME Init PROVE IInv
  OBVIOUS
<1>1. TypeOK
  BY TypeInit
<1> QED BY <1>1 DEF Init, IInv, DefectsAreRefused, NoSilentSwitch, EnabledIsConfigured,
                    StableErrors, WholeStream

LEMMA InvStep == IInv /\ [Next]_vars => IInv'
<1> SUFFICES ASSUME IInv, [Next]_vars PROVE IInv'
  OBVIOUS
<1>0. TypeOK /\ TypeOK'
  BY TypeStep DEF IInv
<1> USE <1>0, NoAnswerOK DEF IInv, DefectsAreRefused, NoSilentSwitch,
        EnabledIsConfigured, StableErrors, WholeStream, Defects, RouteEnabled
<1>1. CASE ReadBody
  BY <1>1 DEF ReadBody, Answer, Drop, Goto, stream
<1>2. ASSUME NEW t \in DefectTypes, Refuse(t) PROVE IInv'
  BY <1>2, DefectsAreErrors DEF Refuse, FirstDefect, Answer, stream
<1>3. CASE Accept
  BY <1>3 DEF Accept, Goto, stream
<1>4. CASE ExecuteToolCall
  BY <1>4 DEF ExecuteToolCall, ToolErrors, Answer, stream
<1>5. CASE SelectProvider
  BY <1>5 DEF SelectProvider, Answer, Goto, stream
<1>6. CASE Provide
  <2>1. ASSUME NEW s \in Nat, NEW q, NEW f \in Failures, ProviderError(s, q, f),
               at = "call" \/ at = "await",
               f = "none" => Normalize(s, q) = "streaming_not_supported"
        PROVE  IInv'
    <3>1. Normalize(s, q) \in StableTypes \cup PublicTypes
      BY NormalizeStable
    <3>2. Normalize(s, q) \notin {"answer", "stream"}
      BY <3>1 DEF StableTypes, PublicTypes
    <3> QED BY <2>1, <3>1, <3>2 DEF ProviderError, Answer, stream
  <2>3. CASE StreamingNotSupported
    <3>1. PICK s \in Nat : s = 501
      OBVIOUS
    <3>2. PICK q : /\ q = [type |-> "streaming_not_supported", text |-> TRUE]
                  /\ ProviderError(s, q, "none")
      BY <2>3, <3>1 DEF StreamingNotSupported
    <3>3. Normalize(s, q) = "streaming_not_supported"
      BY <3>2 DEF Normalize, PublicTypes
    <3>4. at = "call" /\ "none" \in Failures
      BY <2>3 DEF StreamingNotSupported, Failures
    <3> QED BY ONLY <2>1, <3>2, <3>3, <3>4, Zenon
  <2>4. CASE CallProvider
    <3>1. request.route \in Routes \ {"null"}
      BY <2>4, ChatConstants DEF CallProvider, TypeOK, Request
    <3>2. request.route # "null" /\ RouteEnabled /\ ValidConfig(config)
      BY <2>4 DEF CallProvider
    <3>3. Configured
      BY ONLY <3>1, <3>2, EnabledHasAll, Zenon
    <3> QED BY <2>4, <3>1, <3>3 DEF CallProvider, Goto, ProviderForRoute, Routes, stream
  <2>5. ASSUME NEW s \in Statuses, NEW q \in Payloads, Refuses(s, q)
        PROVE  IInv'
    <3>1. s \in Nat /\ "refused" \in Failures
      BY ChatConstants DEF Failures
    <3>2. ProviderError(s, q, "refused") /\ at = "await"
      BY <2>5 DEF Refuses
    <3>3. "refused" = "none" => Normalize(s, q) = "streaming_not_supported"
      OBVIOUS
    <3> QED BY ONLY <2>1, <3>1, <3>2, <3>3, Zenon
  <2>6. CASE TimesOut
    <3>1. PICK s \in Nat : s = 504
      OBVIOUS
    <3>2. PICK q : ProviderError(s, q, "timeout")
      BY <2>6, <3>1 DEF TimesOut
    <3>3. "timeout" = "none" => Normalize(s, q) = "streaming_not_supported"
      OBVIOUS
    <3>4. at = "await" /\ "timeout" \in Failures
      BY <2>6 DEF TimesOut, Failures
    <3> QED BY ONLY <2>1, <3>2, <3>3, <3>4, Zenon
  <2>7. CASE Unreachable
    BY <2>7 DEF Unreachable, Answer, StableTypes, stream
  <2>8. CASE BreaksProtocol \/ ErrorBodyStalls
    BY <2>8 DEF BreaksProtocol, ErrorBodyStalls, Drop, stream
  <2>9. CASE AnswersWithoutJson \/ AnswersFinally
    BY <2>9 DEF AnswersWithoutJson, AnswersFinally, Answer, stream
  <2>10. CASE AsksForTools \/ OpensStream
    BY <2>10 DEF AsksForTools, OpensStream, Goto, stream
  <2>11. CASE MakesNoRequest
    BY <2>11 DEF MakesNoRequest, Answer, Drop, PublicTypes, StableTypes, stream
  <2> QED BY <1>6, <2>3, <2>4, <2>5, <2>6, <2>7, <2>8, <2>9, <2>10, <2>11 DEF Provide
<1>7. CASE RejectPlan
  BY <1>7 DEF RejectPlan, PlanErrors, Answer, stream
<1>8. CASE ToolFails
  BY <1>8 DEF ToolFails, ToolErrors, Answer, stream
<1>9. CASE AskAgain
  BY <1>9 DEF AskAgain, Goto, stream
<1>10. CASE Relay
  <2>1. CASE SendHead
    BY <2>1 DEF SendHead, stream
  <2>2. CASE HeadFails \/ ForwardFails
    BY <2>2 DEF HeadFails, ForwardFails, Drop, stream
  <2>3. CASE DataArrives \/ StreamEnds \/ Forward
    BY <2>3 DEF DataArrives, StreamEnds, Forward
  <2>4. CASE EndOfStream
    BY <2>4 DEF EndOfStream, Held, Drop, stream, TypeOK
  <2>5. CASE \E f \in Failures : StreamBreaksOff(f)
    BY <2>5 DEF StreamBreaksOff, Drop, stream
  <2> QED BY <1>10, <2>1, <2>2, <2>3, <2>4, <2>5 DEF Relay
<1>11. CASE ClientLeaves
  BY <1>11 DEF ClientLeaves, stream
<1>12. CASE UNCHANGED vars
  BY <1>12 DEF vars
<1> QED BY <1>1, <1>2, <1>3, <1>4, <1>5, <1>6, <1>7, <1>8, <1>9, <1>10, <1>11, <1>12
        DEF Next, Handle, Edge, Loop

\* Where the handler is tells what it has already excluded.
THEOREM Inductive == Spec => []IInv
<1> QED BY InvInit, InvStep, PTL DEF Spec

\* A defective request reaches no provider and no tool, and is answered 400 with
\* one of its defects.
THEOREM DefectsRefused == Spec => []DefectsAreRefused
<1>1. IInv => DefectsAreRefused
  BY DEF IInv
<1> QED BY <1>1, Inductive, PTL

\* A request reaches no provider but the one of its route, when that is enabled.
THEOREM NeverSwitched == Spec => []NoSilentSwitch
<1>1. IInv => NoSilentSwitch
  BY DEF IInv
<1> QED BY <1>1, Inductive, PTL

\* What validate_config accepts has all that the adapter of an enabled route asks
\* for, whatever the settings and whether or not the request names a model.
THEOREM AlwaysConfigured == Spec => []EnabledIsConfigured
<1>1. IInv => EnabledIsConfigured
  BY DEF IInv
<1> QED BY <1>1, Inductive, PTL

\* An error of a provider is answered with a type of the contract, for any status
\* but one of success and any body of the provider.
THEOREM ErrorsAreStable == Spec => []StableErrors
<1>1. IInv => StableErrors
  BY DEF IInv
<1> QED BY <1>1, Inductive, PTL

\* A stream of any length, read in chunks of any size, reaches a client who stays
\* to its last unit.
THEOREM StreamIsWhole == Spec => []WholeStream
<1>1. IInv => WholeStream
  BY DEF IInv
<1> QED BY <1>1, Inductive, PTL

------------------------------------------------------------------------------
(* Requests come to an end.                                                *)

\* What is left while a stream is relayed: for every unit to come its arrival and
\* at most one read of it, for every unit held at most one read.
RelayLeft == 2 * (StreamLength - sent) + (sent - relayed) + (IF over THEN 0 ELSE 1)

\* The steps the handler can still take, and the departure of its client.
HandlerLeft ==
  LET round == 3 * (MaxToolSteps - rounds) + 2 * StreamLength
  IN  [done |-> 0, relay |-> 1 + RelayLeft, head |-> 3 + 2 * StreamLength,
       tool |-> 1, loop |-> 4 + round, await |-> 5 + round, call |-> 6 + round,
       select |-> 7 + round, validate |-> 8 + round, read |-> 9 + round][at]

ClientLeft == IF client = "waiting" THEN 1 ELSE 0

StepsLeft == ClientLeft + HandlerLeft

\* Every step of handler, provider and client leaves the request fewer to take.
RequestShrinks == [][StepsLeft' < StepsLeft]_vars

\* What the handler has left at place p: m rounds, and d or x units, are to come.
LeftAt(p, m, d, x, v) ==
  /\ p = "done" => v = 0
  /\ p = "relay" => v = 1 + x
  /\ p = "head" => v = 3 + d
  /\ p = "tool" => v = 1
  /\ p = "loop" => v = 4 + (3 * m + d)
  /\ p = "await" => v = 5 + (3 * m + d)
  /\ p = "call" => v = 6 + (3 * m + d)
  /\ p = "select" => v = 7 + (3 * m + d)
  /\ p = "validate" => v = 8 + (3 * m + d)
  /\ p = "read" => v = 9 + (3 * m + d)

LEMMA StepsLeftIs ==
  /\ StepsLeft = ClientLeft + HandlerLeft
  /\ LeftAt(at, MaxToolSteps - rounds, 2 * StreamLength, RelayLeft, HandlerLeft)
<1>1. StepsLeft = ClientLeft + HandlerLeft
  BY DEF StepsLeft
<1>2. LeftAt(at, MaxToolSteps - rounds, 2 * StreamLength, RelayLeft, HandlerLeft)
  BY DEF LeftAt, HandlerLeft
<1> QED
  BY <1>1, <1>2

\* A place other than "done" has at least one step left, and none has too many.
LEMMA LeftAtBounds ==
  ASSUME NEW p \in Places, NEW n \in Nat, NEW l \in Nat, NEW m \in 0 .. n,
         NEW x \in 0 .. (2 * l + 1), NEW v, LeftAt(p, m, 2 * l, x, v)
  PROVE  /\ v \in 0 .. (3 * n + 2 * l + 9)
         /\ p # "done" => 0 < v
<1>1. PICK d : d = 2 * l
  OBVIOUS
<1>2. CASE p = "done"
  <2>1. v = 0
    BY <1>2 DEF LeftAt
  <2> QED
    BY <1>2, <2>1
<1>3. CASE p # "done"
  <2>1. v = 1 + x \/ v = 3 + d \/ v = 1 \/ \E c \in 4 .. 9 : v = c + (3 * m + d)
    BY <1>1, <1>3 DEF LeftAt, Places
  <2>2. v \in 1 .. (3 * n + 2 * l + 9)
    BY ONLY l \in Nat, n \in Nat, m \in 0 .. n, x \in 0 .. (2 * l + 1), <1>1, <2>1
  <2> QED
    BY <2>2
<1> QED
  BY <1>2, <1>3

\* Every step moves the handler on, takes or brings a unit, or is the client's leave.
LEMMA StepsMove ==
  ASSUME TypeOK, Next
  PROVE  \/ /\ client' = client
            /\ \/ at # "done" /\ at' = "done"
               \/ /\ rounds' = rounds
                  /\ \/ at = "read" /\ at' = "validate"
                     \/ at = "validate" /\ at' \in {"tool", "select"}
                     \/ at = "select" /\ at' = "call"
                     \/ at = "call" /\ at' = "await"
                     \/ at = "await" /\ at' \in {"loop", "head"}
                     \/ at = "head" /\ at' = "relay"
               \/ /\ at = "loop" /\ at' = "call"
                  /\ rounds < MaxToolSteps /\ rounds' = rounds + 1
               \/ /\ at = "relay" /\ at' = "relay"
                  /\ \/ sent' = sent + 1 /\ relayed' = relayed /\ over' = over
                     \/ ~over /\ over' /\ sent' = sent /\ relayed' = relayed
                     \/ /\ sent' = sent /\ over' = over
                        /\ relayed < relayed'
         \/ /\ client = "waiting" /\ client' = "gone"
            /\ UNCHANGED <<at, rounds, sent, relayed, over>>
<1> USE DEF Answer, Drop, Goto, stream
<1>1. CASE Edge
  BY <1>1 DEF Edge, ReadBody, Refuse, Accept
<1>2. CASE ExecuteToolCall \/ SelectProvider
  BY <1>2 DEF ExecuteToolCall, SelectProvider
<1>3. CASE Provide
  <2>1. CASE StreamingNotSupported \/ CallProvider \/ TimesOut
               \/ \E s \in Statuses, q \in Payloads : Refuses(s, q)
    BY <2>1 DEF StreamingNotSupported, CallProvider, TimesOut, Refuses, ProviderError
  <2>2. CASE \/ MakesNoRequest \/ Unreachable \/ BreaksProtocol \/ ErrorBodyStalls
             \/ AnswersWithoutJson \/ AnswersFinally \/ AsksForTools \/ OpensStream
    BY <2>2 DEF MakesNoRequest, Unreachable, BreaksProtocol, ErrorBodyStalls, AnswersWithoutJson,
                AnswersFinally, AsksForTools, OpensStream
  <2> QED
    BY <1>3, <2>1, <2>2 DEF Provide
<1>4. CASE Loop
  BY <1>4 DEF Loop, RejectPlan, ToolFails, AskAgain
<1>5. CASE Relay
  <2>1. CASE SendHead \/ HeadFails \/ StreamEnds \/ DataArrives
    BY <2>1 DEF SendHead, HeadFails, StreamEnds, DataArrives
  <2>2. CASE Forward
    <3>1. PICK h : h = IF Held < ReadSize THEN Held ELSE ReadSize
      OBVIOUS
    <3>2. sent \in Nat /\ relayed \in Nat /\ ReadSize \in Nat \ {0}
      BY ChatConstants DEF TypeOK
    <3>3. relayed' = relayed + h /\ h \in Nat \ {0}
      BY <2>2, <3>1, <3>2 DEF Forward, ReadReturns, Held
    <3>4. relayed < relayed'
      BY ONLY <3>2, <3>3
    <3> QED
      BY <2>2, <3>4 DEF Forward
  <2>3. CASE ForwardFails \/ EndOfStream \/ \E f \in Failures : StreamBreaksOff(f)
    BY <2>3 DEF ForwardFails, EndOfStream, StreamBreaksOff
  <2> QED
    BY <1>5, <2>1, <2>2, <2>3 DEF Relay
<1>6. CASE ClientLeaves
  BY <1>6 DEF ClientLeaves
<1> QED
  BY <1>1, <1>2, <1>3, <1>4, <1>5, <1>6 DEF Next, Handle

\* The parts of the measure, from the variables they are computed from.
LEMMA Measure ==
  ASSUME NEW u \in 0 .. StreamLength, NEW r \in 0 .. u, NEW b \in BOOLEAN,
         NEW q \in 0 .. MaxToolSteps, NEW p \in Places, NEW m, NEW x, NEW v,
         m = MaxToolSteps - q,
         x = 2 * (StreamLength - u) + (u - r) + (IF b THEN 0 ELSE 1),
         LeftAt(p, m, 2 * StreamLength, x, v)
  PROVE  /\ m \in 0 .. MaxToolSteps /\ x \in 0 .. (2 * StreamLength + 1)
         /\ v \in 0 .. (3 * MaxToolSteps + 2 * StreamLength + 9)
         /\ p # "done" => 0 < v
<1>1. PICK l, n : l = StreamLength /\ n = MaxToolSteps
  OBVIOUS
<1>2. PICK o \in 0 .. 1 : o = IF b THEN 0 ELSE 1
  OBVIOUS
<1>3. /\ l \in Nat /\ n \in Nat /\ u \in 0 .. l /\ r \in 0 .. u /\ q \in 0 .. n
      /\ m = n - q /\ x = 2 * (l - u) + (u - r) + o
  BY <1>1, <1>2, ChatConstants
<1>4. x \in 0 .. (2 * l + 1) /\ m \in 0 .. n
  BY ONLY <1>3, o \in 0 .. 1
<1>5. LeftAt(p, m, 2 * l, x, v)
  BY <1>1
<1>6. v \in 0 .. (3 * n + 2 * l + 9) /\ (p # "done" => 0 < v)
  BY <1>3, <1>4, <1>5, LeftAtBounds
<1> QED
  BY <1>1, <1>4, <1>6

LEMMA ShrinkStep ==
  ASSUME TypeOK, TypeOK', Next
  PROVE  StepsLeft' < StepsLeft
<1>1. PICK l, n : l = StreamLength /\ n = MaxToolSteps
  OBVIOUS
<1>2. PICK m, x, v, c : /\ m = n - rounds /\ v = HandlerLeft /\ c = ClientLeft
                       /\ x = 2 * (l - sent) + (sent - relayed)
                                + (IF over THEN 0 ELSE 1)
  OBVIOUS
<1>3. PICK k, y, w, e : /\ k = n - rounds' /\ w = HandlerLeft' /\ e = ClientLeft'
                       /\ y = 2 * (l - sent') + (sent' - relayed')
                                + (IF over' THEN 0 ELSE 1)
  OBVIOUS
<1>4. LeftAt(at, m, 2 * l, x, v) /\ StepsLeft = c + v
  BY <1>1, <1>2, StepsLeftIs DEF RelayLeft
<1>5. LeftAt(at', k, 2 * l, y, w) /\ StepsLeft' = e + w
  BY <1>1, <1>3 DEF LeftAt, HandlerLeft, RelayLeft, StepsLeft, ClientLeft
<1>6. /\ l \in Nat /\ n \in Nat /\ m \in 0 .. n /\ x \in 0 .. (2 * l + 1)
      /\ v \in Nat /\ (at # "done" => 0 < v)
  <2>1. PICK u, r, b, q, p :
          u = sent /\ r = relayed /\ b = over /\ q = rounds /\ p = at
    OBVIOUS
  <2>2. /\ u \in 0 .. l /\ r \in 0 .. u /\ b \in BOOLEAN /\ q \in 0 .. n /\ p \in Places
        /\ m = n - q /\ x = 2 * (l - u) + (u - r) + (IF b THEN 0 ELSE 1)
        /\ LeftAt(p, m, 2 * l, x, v)
    BY <1>1, <1>2, <1>4, <2>1 DEF TypeOK
  <2>3. /\ m \in 0 .. n /\ x \in 0 .. (2 * l + 1)
        /\ v \in 0 .. (3 * n + 2 * l + 9) /\ (p # "done" => 0 < v)
    BY <1>1, <2>2, Measure
  <2> QED
    BY <1>1, <2>1, <2>3, ChatConstants
<1>7. /\ k \in 0 .. n /\ y \in 0 .. (2 * l + 1)
      /\ w \in Nat /\ (at' # "done" => 0 < w)
  <2>1. PICK u, r, b, q, p :
          u = sent' /\ r = relayed' /\ b = over' /\ q = rounds' /\ p = at'
    OBVIOUS
  <2>2. /\ u \in 0 .. l /\ r \in 0 .. u /\ b \in BOOLEAN /\ q \in 0 .. n /\ p \in Places
        /\ k = n - q /\ y = 2 * (l - u) + (u - r) + (IF b THEN 0 ELSE 1)
        /\ LeftAt(p, k, 2 * l, y, w)
    BY <1>1, <1>3, <1>5, <2>1 DEF TypeOK
  <2>3. /\ k \in 0 .. n /\ y \in 0 .. (2 * l + 1)
        /\ w \in 0 .. (3 * n + 2 * l + 9) /\ (p # "done" => 0 < w)
    BY <1>1, <2>2, Measure
  <2> QED
    BY <1>1, <2>1, <2>3, ChatConstants
<1>8. /\ c \in 0 .. 1 /\ e \in 0 .. 1
      /\ client' = client => e = c
      /\ client = "waiting" /\ client' = "gone" => c = 1 /\ e = 0
  BY <1>2, <1>3 DEF ClientLeft
<1>9. /\ rounds' = rounds => k = m
      /\ rounds' = rounds + 1 => k + 1 = m
  <2>1. PICK q, h : q = rounds /\ h = rounds'
    OBVIOUS
  <2>2. q \in 0 .. n /\ h \in 0 .. n /\ m = n - q /\ k = n - h
    BY <1>1, <1>2, <1>3, <2>1 DEF TypeOK
  <2>3. (h = q => k = m) /\ (h = q + 1 => k + 1 = m)
    BY ONLY <1>6, <2>2
  <2> QED
    BY <2>1, <2>3
<1>10. CASE client' = client
  <2>1. e = c
    BY <1>8, <1>10
  <2>2. CASE at # "done" /\ at' = "done"
    <3>1. w = 0
      BY <1>5, <2>2 DEF LeftAt
    <3>2. w < v
      BY <1>6, <2>2, <3>1
    <3> QED
      BY <1>4, <1>5, <1>6, <1>7, <1>8, <2>1, <3>2
  <2>3. CASE ~(at # "done" /\ at' = "done") /\ ~(at = "relay" /\ at' = "relay")
    <3>0. PICK d : d = 2 * l
      OBVIOUS
    <3>1. \/ k = m /\ v = 9 + (3 * m + d) /\ w = 8 + (3 * k + d)
          \/ k = m /\ v = 8 + (3 * m + d) /\ w = 1
          \/ k = m /\ v = 8 + (3 * m + d) /\ w = 7 + (3 * k + d)
          \/ k = m /\ v = 7 + (3 * m + d) /\ w = 6 + (3 * k + d)
          \/ k = m /\ v = 6 + (3 * m + d) /\ w = 5 + (3 * k + d)
          \/ k = m /\ v = 5 + (3 * m + d) /\ w = 4 + (3 * k + d)
          \/ k = m /\ v = 5 + (3 * m + d) /\ w = 3 + d
          \/ k = m /\ v = 3 + d /\ w = 1 + y
          \/ k + 1 = m /\ v = 4 + (3 * m + d) /\ w = 6 + (3 * k + d)
      <4>1. LeftAt(at, m, d, x, v) /\ LeftAt(at', k, d, y, w)
        BY <1>4, <1>5, <3>0
      <4>2. client # "waiting" \/ client' # "gone"
        BY <1>10
      <4> QED
        BY <1>9, <2>3, <4>1, <4>2, StepsMove DEF LeftAt
    <3>2. w < v
      BY ONLY <1>6, <1>7, <3>0, <3>1
    <3> QED
      BY <1>4, <1>5, <1>6, <1>7, <1>8, <2>1, <3>2
  <2>4. CASE at = "relay" /\ at' = "relay"
    <3>1. v = 1 + x /\ w = 1 + y
      BY <1>4, <1>5, <2>4 DEF LeftAt
    <3>2. PICK a, b, g, h, o, z :
                /\ a = sent /\ b = sent' /\ g = relayed /\ h = relayed'
                /\ o = (IF over THEN 0 ELSE 1) /\ z = (IF over' THEN 0 ELSE 1)
      OBVIOUS
    <3>3. /\ x = 2 * (l - a) + (a - g) + o /\ y = 2 * (l - b) + (b - h) + z
          /\ o \in 0 .. 1 /\ z \in 0 .. 1
          /\ a \in 0 .. l /\ b \in 0 .. l /\ g \in 0 .. a /\ h \in 0 .. b
      BY <1>1, <1>2, <1>3, <3>2 DEF TypeOK
    <3>4. \/ b = a + 1 /\ h = g /\ z = o
          \/ o = 1 /\ z = 0 /\ b = a /\ h = g
          \/ b = a /\ z = o /\ g < h
      BY <1>10, <2>4, <3>2, StepsMove
    <3>5. y < x
      BY ONLY <1>6, <3>3, <3>4
    <3>6. w < v
      BY ONLY <1>6, <1>7, <3>1, <3>5
    <3> QED
      BY <1>4, <1>5, <1>6, <1>7, <1>8, <2>1, <3>6
  <2> QED
    BY <2>2, <2>3, <2>4
<1>11. CASE client' # client
  <2>1. /\ client = "waiting" /\ client' = "gone"
        /\ UNCHANGED <<at, rounds, sent, relayed, over>>
    BY <1>11, StepsMove
  <2>2. c = 1 /\ e = 0
    BY <1>8, <2>1
  <2>3. w = v
    BY <1>2, <1>3, <2>1 DEF HandlerLeft, RelayLeft
  <2> QED
    BY <1>4, <1>5, <1>6, <2>2, <2>3
<1> QED
  BY <1>10, <1>11

\* A request takes at most three steps for every round of tools, two for every unit
\* of its stream, and ten: whatever the provider does and whenever the client leaves,
\* every step of it brings the request nearer to its end.
THEOREM RequestsAreFinite ==
  Spec => /\ RequestShrinks
          /\ [](StepsLeft \in 0 .. (3 * MaxToolSteps + 2 * StreamLength + 10))
<1>1. TypeOK /\ TypeOK' /\ [Next]_vars => [StepsLeft' < StepsLeft]_vars
  BY ShrinkStep
<1>2. TypeOK => StepsLeft \in 0 .. (3 * MaxToolSteps + 2 * StreamLength + 10)
  <2> SUFFICES ASSUME TypeOK
               PROVE  StepsLeft \in 0 .. (3 * MaxToolSteps + 2 * StreamLength + 10)
    OBVIOUS
  <2>0. PICK u, r, b, q, p :
          u = sent /\ r = relayed /\ b = over /\ q = rounds /\ p = at
    OBVIOUS
  <2>1. PICK l, n, m, x, v, c :
          /\ l = StreamLength /\ n = MaxToolSteps
          /\ m = n - q /\ v = HandlerLeft /\ c = ClientLeft
          /\ x = 2 * (l - u) + (u - r) + (IF b THEN 0 ELSE 1)
    OBVIOUS
  <2>2. LeftAt(p, m, 2 * l, x, v) /\ StepsLeft = c + v
    BY <2>0, <2>1, StepsLeftIs DEF RelayLeft
  <2>3. l \in Nat /\ n \in Nat /\ v \in 0 .. (3 * n + 2 * l + 9)
    <3>1. /\ u \in 0 .. l /\ r \in 0 .. u /\ b \in BOOLEAN /\ q \in 0 .. n
          /\ p \in Places
      BY <2>0, <2>1 DEF TypeOK
    <3>2. v \in 0 .. (3 * n + 2 * l + 9)
      BY <2>1, <2>2, <3>1, Measure
    <3> QED
      BY <2>1, <3>2, ChatConstants
  <2>4. c \in 0 .. 1
    BY <2>1 DEF ClientLeft
  <2>5. c + v \in 0 .. (3 * n + 2 * l + 10)
    BY ONLY <2>3, <2>4
  <2> QED
    BY <2>1, <2>2, <2>5
<1> QED
  BY <1>1, <1>2, TypeCorrect, PTL DEF Spec, RequestShrinks
==============================================================================
