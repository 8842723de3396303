-------------------------- MODULE ProviderTranscript --------------------------
(***************************************************************************)
(* What a provider is sent in every round of the tool loop.                *)
(*                                                                         *)
(* The client's messages become turns once (GenerationRequest in           *)
(* router/normalization.py); every round turns the turns back into         *)
(* messages (turns_to_messages in router/conversation.py), and an adapter  *)
(* turns the messages into the payload of its service: chat messages for   *)
(* vLLM, input items for the OpenAI Responses API.  Gemini is offered no   *)
(* tools and its answers hold no calls, so it gets the client's messages.  *)
(*                                                                         *)
(* Texts and arguments are left out.                                       *)
(***************************************************************************)
EXTENDS TurnHistory

CONSTANT RequestMessages  \* the messages a client may send

VARIABLE request          \* the GenerationRequest of the client

------------------------------------------------------------------------------
(* NormalizedMessage: the ids of its tool calls, or of the call it answers. *)

UserMessage == [role |-> "user"]
AssistantMessage(ids) == [role |-> "assistant", calls |-> ids]
ToolMessage(id) == [role |-> "tool", id |-> id]

\* message_to_turns.  The router takes no calls and no results from a client.
MessageTurn(message) ==
  IF message.role = "user" THEN UserTurn ELSE AssistantTurn("reasoning")

TurnsOf(messages) == [i \in DOMAIN messages |-> MessageTurn(messages[i])]

ASSUME RequestMessagesOK ==
  /\ RequestMessages \subseteq Seq({UserMessage, AssistantMessage(<<>>)})
  /\ RequestTurns = {TurnsOf(ms) : ms \in RequestMessages}

------------------------------------------------------------------------------
(* turns_to_messages                                                       *)

\* State of the loop: the messages so far, pending_assistant if there is one.
Start == [sent |-> <<>>, pending |-> <<>>]

Flush(s) == [sent |-> s.sent \o s.pending, pending |-> <<>>]

\* Fault: an assistant turn that waits is forgotten when another one comes.
KeepAssistantUnflushed(s) == [s EXCEPT !.pending = <<AssistantMessage(<<>>)>>]

KeepAssistant(s) == [Flush(s) EXCEPT !.pending = <<AssistantMessage(<<>>)>>]

\* A call joins the assistant message that waits for the calls behind it.
KeepCall(s, id) ==
  [s EXCEPT !.pending =
     IF @ = <<>> THEN <<AssistantMessage(<<id>>)>>
                 ELSE <<AssistantMessage(Append(@[1].calls, id))>>]

Say(s, message) == [Flush(s) EXCEPT !.sent = Append(@, message)]

KeepTurn(s, turn) ==
  IF turn.type = "call" THEN KeepCall(s, turn.call.id)
  ELSE IF turn.type = "assistant" THEN KeepAssistant(s)
  ELSE IF turn.type = "user" THEN Say(s, UserMessage)
  ELSE IF turn.type = "result" THEN Say(s, ToolMessage(turn.id))
  ELSE Flush(s)

Kept(ts) ==
  LET kept[n \in 0..Len(ts)] ==
        IF n = 0 THEN Start ELSE KeepTurn(kept[n - 1], ts[n])
  IN  kept[Len(ts)]

Messages(ts) == Flush(Kept(ts)).sent

------------------------------------------------------------------------------
(* GenerationRequest                                                       *)

NotKept == <<>>

\* from_messages keeps the messages as they came (_provider_messages).
FromMessages(messages) == [turns |-> TurnsOf(messages), kept |-> messages]

ToProviderMessages(r) == IF r.kept # NotKept THEN r.kept ELSE Messages(r.turns)

\* Fault: the request keeps the messages it came with.
CurrentRequestStale(ts) == [request EXCEPT !.turns = ts]

\* The request of a round: dataclasses.replace copies every field that is not
\* named, so the kept messages have to be.
CurrentRequest(ts) == [request EXCEPT !.turns = ts, !.kept = NotKept]

Sent(ts) == ToProviderMessages(CurrentRequest(ts))

TranscriptInit ==
  /\ Init
  /\ request \in {FromMessages(ms) : ms \in RequestMessages}
  /\ turns = request.turns

TranscriptNext == Next /\ UNCHANGED request

TranscriptSpec == TranscriptInit /\ [][TranscriptNext]_<<vars, request>>

FairTranscriptSpec == TranscriptSpec /\ WF_<<vars, request>>(TranscriptNext)

------------------------------------------------------------------------------
(* _build_responses_input                                                  *)

Text == [kind |-> "text"]
CallItem(id) == [kind |-> "call", id |-> id]
OutputItem(id) == [kind |-> "output", id |-> id]

\* The items of a message; an assistant message that only calls has no text.
Items(message, silent) ==
  IF message.role = "tool" THEN <<OutputItem(message.id)>>
  ELSE IF message.role = "assistant" /\ message.calls # <<>>
  THEN (IF silent THEN <<>> ELSE <<Text>>)
         \o [i \in DOMAIN message.calls |-> CallItem(message.calls[i])]
  ELSE <<Text>>

ResponsesInput(messages, silent) ==
  Seqs!FlattenSeq([i \in DOMAIN messages |-> Items(messages[i], silent)])

------------------------------------------------------------------------------
(* Properties.                                                             *)

\* Chat messages: behind an assistant message are the results of its calls,
\* and a result is nowhere else.
ChatIsPaired(messages) ==
  /\ \A p \in DOMAIN messages : messages[p].role = "assistant" =>
       LET ids == messages[p].calls IN
         /\ p + Len(ids) <= Len(messages)
         /\ \A k \in DOMAIN ids : messages[p + k] = ToolMessage(ids[k])
  /\ \A p \in DOMAIN messages : messages[p].role = "tool" =>
       \E q \in 1..(p - 1) :
         messages[q].role = "assistant" /\ p - q <= Len(messages[q].calls)

\* How many calls of an id wait for their output after the first n items.
Open(items, id, n) ==
  Cardinality({p \in 1..n : items[p] = CallItem(id)})
    - Cardinality({p \in 1..n : items[p] = OutputItem(id)})

\* Input items: an output answers a call before it, no id stands for two calls
\* that wait for their output, and in the end those of the ids wait.
ItemsLeave(items, ids) ==
  \A id \in Ids :
    /\ \A n \in DOMAIN items : Open(items, id, n) \in 0..1
    /\ Open(items, id, Len(items)) = IF id \in ids THEN 1 ELSE 0

\* The results among the first n messages.
ToolMessages(messages, n) == {p \in 1..n : messages[p].role = "tool"}

\* The results among the messages are those of the ids, in their order.
ResultsAre(messages, ids) ==
  /\ Cardinality(ToolMessages(messages, Len(messages))) = Len(ids)
  /\ \A p \in ToolMessages(messages, Len(messages)) :
       messages[p].id = ids[Cardinality(ToolMessages(messages, p))]

ServedIds == [i \in DOMAIN served |-> served[i].call.id]

\* The payload of every round tells the whole story of the request and only
\* that: it starts with the client's messages as they came, holds one result
\* for each call that was served, in their order, and pairs calls and results
\* the way both services demand, with ids that come back in every round and
\* answers without text.
PairedTranscript ==
  at = "generate" =>
    LET messages == Sent(turns) IN
      /\ Seqs!IsPrefix(request.kept, messages)
      /\ ResultsAre(messages, ServedIds)
      /\ ChatIsPaired(messages)
      /\ \A silent \in BOOLEAN : ItemsLeave(ResponsesInput(messages, silent), {})

\* What a provider has seen is never taken back: each round's messages are an
\* extension of those of the rounds before, two assistant messages in a row and
\* final turns included.
TranscriptGrows == [][Seqs!IsPrefix(Sent(turns), Sent(turns'))]_<<vars, request>>

------------------------------------------------------------------------------
(* The inductive strengthening, message by message.                        *)

Message == {UserMessage} \cup [role : {"assistant"}, calls : Seq(Ids)]
                         \cup [role : {"tool"}, id : Ids]

\* Chat messages behind which the results of the waiting calls have to come:
\* those of the last assistant message, or none.
ChatLeaves(messages, waiting) ==
  /\ \A p \in DOMAIN messages : messages[p].role = "assistant" =>
       LET ids == messages[p].calls IN
         /\ p + Len(ids) <= Len(messages) + Len(waiting)
         /\ \A k \in DOMAIN ids :
              IF p + k <= Len(messages) THEN messages[p + k] = ToolMessage(ids[k])
              ELSE ids[k] = waiting[p + k - Len(messages)]
  /\ \A p \in DOMAIN messages : messages[p].role = "tool" =>
       \E q \in 1..(p - 1) :
         messages[q].role = "assistant" /\ p - q <= Len(messages[q].calls)
  /\ waiting # <<>> =>
       \E q \in DOMAIN messages :
         /\ messages[q].role = "assistant"
         /\ q + Len(messages[q].calls) = Len(messages) + Len(waiting)

\* The messages tell of the calls that were served and those that wait.
Story(messages, done, waiting) ==
  /\ messages \in Seq(Message)
  /\ ResultsAre(messages, done)
  /\ ChatLeaves(messages, waiting)
  /\ \A silent \in BOOLEAN :
       ItemsLeave(ResponsesInput(messages, silent),
                  {waiting[k] : k \in DOMAIN waiting})

WaitingIds == [k \in DOMAIN Waiting |-> Waiting[k].id]

TranscriptInv ==
  /\ request \in {FromMessages(ms) : ms \in RequestMessages}
  /\ at # "done" => /\ Seqs!IsPrefix(request.kept, Messages(turns))
                    /\ Story(Messages(turns), ServedIds, WaitingIds)
==============================================================================
