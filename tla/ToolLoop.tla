------------------------------- MODULE ToolLoop -------------------------------
(***************************************************************************)
(* ToolLoopEngine.run (router/tool_loop.py) for one chat request, with the *)
(* parser of provider output (router/provider_output/parser.py), the       *)
(* orchestrator and the policy it calls for every tool (orchestrator.py,   *)
(* policy.py), and the endpoint that turns its exceptions into an answer   *)
(* (chat_completions in router/app.py).                                    *)
(*                                                                         *)
(* The loop asks the model, checks the plan of the answer as a whole,      *)
(* executes its calls one by one, and asks again.  Each request has its    *)
(* own loop; other requests reach it only through the tool registry and    *)
(* the MCP server states, so an MCP tool may be missing from the registry, *)
(* or its server not ready, at any call.                                   *)
(*                                                                         *)
(* The model's answers are the members of Proposals; contents, argument    *)
(* values, metadata and error texts are left out.                          *)
(***************************************************************************)
EXTENDS ExecutionPlan

CONSTANTS
  Proposals,        \* sequences of calls a model may answer with
  NativeTools,      \* tools registered when the router starts
  McpTools,         \* tools an MCP server may publish
  EnabledByDefault, \* ToolSpec.enabled_by_default
  MaxToolSteps,     \* INFRA_AI_MAX_TOOL_STEPS
  RepeatWindow,     \* _REPEATED_CALL_WINDOW
  Allowlists,       \* values of allowed_tools in a request
  Unrestricted,     \* ... and its absence
  RequestTurns      \* the conversations a request may start with

------------------------------------------------------------------------------
(* The turns of a conversation (ConversationTurn and its subclasses).      *)

UserTurn == [type |-> "user"]
AssistantTurn(phase) == [type |-> "assistant", phase |-> phase]
CallTurn(c) == [type |-> "call", call |-> c]
ResultTurn(id, r) == [type |-> "result", id |-> id, result |-> r]
FinalTurn == [type |-> "final"]

Phases == {"reasoning", "tool_plan", "finalization"}

Turn == {UserTurn, FinalTurn}
          \cup {AssistantTurn(phase) : phase \in Phases}
          \cup {CallTurn(c) : c \in Call}
          \cup [type : {"result"}, id : Ids, result : Results]

CallTurns(calls) == [i \in DOMAIN calls |-> CallTurn(calls[i])]

ASSUME LoopConstantsOK ==
  /\ Proposals \subseteq Seq(Call) \ {<<>>}
  /\ NativeTools \subseteq Tools
  /\ McpTools \subseteq Tools \ NativeTools
  /\ EnabledByDefault \subseteq NativeTools     \* app.py:107, mcp.py:402
  /\ MaxToolSteps \in Nat \ {0}                 \* app.py:1147
  /\ RepeatWindow \in Nat \ {0, 1}              \* tool_loop.py:51
  /\ Allowlists \subseteq SUBSET Tools
  /\ Unrestricted \notin Allowlists
  /\ RequestTurns \subseteq Seq(Turn)

\* A client cannot send calls or results: roles are system, user and assistant,
\* and request_messages_from_payload reads nothing but contents, of which
\* message_to_turns makes user turns and assistant turns that reason.
ASSUME ClientsSendTexts ==
  \A ts \in RequestTurns : \A i \in DOMAIN ts :
    ts[i] \in {UserTurn, AssistantTurn("reasoning")}

VARIABLES
  at,         \* where the loop is
  allowed,    \* allowed_tools of the request
  turns,      \* the conversation so far
  plan,       \* steps[-1].plan
  steps,      \* how many answers of the model the request has parsed
  toolSteps,  \* tool_steps
  recent,     \* recent_call_signatures
  outcome,    \* what the client is answered
  \* History, not in the program:
  started,    \* the calls whose executor was started, with their step
  served      \* the calls whose result went into the conversation

vars ==
  <<at, allowed, turns, plan, steps, toolSteps, recent, outcome, started, served>>

Places == {"generate", "check", "run", "execute", "done"}

Outcomes ==
  {"none", "answer", "provider_error", "invalid_messages",
   "invalid_model_tool_call", "max_tool_steps_exceeded",
   "tool_loop_repeated_call_detected", "tool_not_allowed", "tool_not_found",
   "tool_timeout", "tool_execution_failed"}

Event == [step : Nat, call : Call]

TypeOK == /\ at \in Places
          /\ allowed \in Allowlists \cup {Unrestricted}
          /\ turns \in Seq(Turn)
          /\ plan \in Seq(Node)
          /\ steps \in Nat
          /\ toolSteps \in Nat
          /\ recent \in Seq(Tools \X Arguments)
          /\ outcome \in Outcomes
          /\ started \in Seq(Event)
          /\ served \in Seq(Event)

Init == /\ at = "generate"
        /\ allowed \in Allowlists \cup {Unrestricted}
        /\ turns \in RequestTurns
        /\ plan = <<>>
        /\ steps = 0
        /\ toolSteps = 0
        /\ recent = <<>>
        /\ outcome = "none"
        /\ started = <<>>
        /\ served = <<>>

\* An exception or the final answer ends the request.
End(o) == at' = "done" /\ outcome' = o

Bookkeeping == <<steps, toolSteps, recent, started, served>>

------------------------------------------------------------------------------
(* provider.generate and parse_provider_step                               *)

\* The provider fails, or it answers with something that is not a tool call:
\* no id, no name, no argument object, a malformed dependency list.
ProviderFails ==
  /\ at = "generate"
  /\ End("provider_error")
  /\ UNCHANGED <<allowed, turns, plan, Bookkeeping>>

MalformedCall ==
  /\ at = "generate"
  /\ End("invalid_model_tool_call")
  /\ UNCHANGED <<allowed, turns, plan, Bookkeeping>>

\* No tool calls: the answer of the model is the answer to the client.
FinalAnswer ==
  /\ at = "generate"
  /\ End("answer")
  /\ turns' = turns \o <<AssistantTurn("finalization"), FinalTurn>>
  /\ plan' = <<>>
  /\ steps' = steps + 1
  /\ UNCHANGED <<allowed, toolSteps, recent, started, served>>

\* append_node raises an ExecutionPlanValidationError where the parser does
\* not convert it; chat_completions takes the ValueError for one of the
\* request's messages.
DuplicateCallId(calls) ==
  /\ at = "generate"
  /\ DuplicateId(calls)
  /\ End("invalid_messages")
  /\ UNCHANGED <<allowed, turns, plan, Bookkeeping>>

\* The parser converts the other plan errors.
UnknownDependency(calls) ==
  /\ at = "generate"
  /\ ~DuplicateId(calls)
  /\ ~DeclaredInOrder(calls)
  /\ End("invalid_model_tool_call")
  /\ UNCHANGED <<allowed, turns, plan, Bookkeeping>>

ParsePlan(calls) ==
  /\ at = "generate"
  /\ ~DuplicateId(calls)
  /\ DeclaredInOrder(calls)
  /\ at' = "check"
  /\ turns' = (turns \o <<AssistantTurn("tool_plan")>>) \o CallTurns(calls)
  /\ plan' = Materialize(calls)
  /\ steps' = steps + 1
  /\ UNCHANGED <<allowed, toolSteps, recent, outcome, started, served>>

------------------------------------------------------------------------------
(* The checks a plan has to pass as a whole before any of its calls runs.  *)

Exceeds == toolSteps + Cardinality(Planned(plan)) > MaxToolSteps

SignatureAt(i) == Signature(plan[i].call)

\* A planned call repeats one of the last RepeatWindow executed calls, or an
\* earlier call of the same plan.
Repeats ==
  \E i \in Planned(plan) :
    \/ \E j \in DOMAIN recent : recent[j] = SignatureAt(i)
    \/ \E j \in 1..(i - 1) : SignatureAt(j) = SignatureAt(i)

CheckPlan ==
  /\ at = "check"
  /\ IF Exceeds THEN End("max_tool_steps_exceeded")
     ELSE IF Repeats THEN End("tool_loop_repeated_call_detected")
     ELSE IF ~CanMakeProgress(plan) THEN End("invalid_model_tool_call")
     ELSE at' = "run" /\ UNCHANGED outcome
  /\ UNCHANGED <<allowed, turns, plan, Bookkeeping>>

------------------------------------------------------------------------------
(* _run_tool_call, ToolOrchestrator.run and ToolPolicy.check for the next  *)
(* executable node.                                                        *)

NextCall(c) == \E i \in NextExecutable(plan) : plan[i].call = c

Permitted(c) == ~(allowed # Unrestricted /\ c.tool \notin allowed)

Known(c) == c.tool \in NativeTools \cup McpTools

\* ToolPolicy.check but for the state of an MCP server.  The router configures
\* no risk levels and always has a workspace (app.py:107, 114).
PolicyAllows(c) ==
  /\ \/ c.tool \in EnabledByDefault
     \/ allowed # Unrestricted /\ c.tool \in allowed
  /\ toolSteps < MaxToolSteps

NotPermitted(c) ==
  /\ at = "run"
  /\ NextCall(c)
  /\ ~Permitted(c)
  /\ End("tool_not_allowed")
  /\ UNCHANGED <<allowed, turns, plan, Bookkeeping>>

\* No such tool, or an MCP tool whose server has withdrawn it.
ToolNotFound(c) ==
  /\ at = "run"
  /\ NextCall(c)
  /\ Permitted(c)
  /\ c.tool \notin NativeTools
  /\ End("tool_not_found")
  /\ UNCHANGED <<allowed, turns, plan, Bookkeeping>>

\* The policy denies the call, or the MCP server of the tool is not ready.
PolicyDenies(c) ==
  /\ at = "run"
  /\ NextCall(c)
  /\ Permitted(c)
  /\ Known(c)
  /\ ~PolicyAllows(c) \/ c.tool \in McpTools
  /\ End("tool_not_allowed")
  /\ UNCHANGED <<allowed, turns, plan, Bookkeeping>>

\* Fault: the slice of a full window drops all of it.
NothingLeft(s, n) == IF Len(s) < n THEN s ELSE <<>>

\* s[-n:]
LastN(s, n) == IF Len(s) <= n THEN s ELSE SubSeq(s, Len(s) - n + 1, Len(s))

\* Fault: served calls are not counted.
ServeUncounted(c, r) ==
  /\ at' = "run"
  /\ recent' = Append(LastN(recent, RepeatWindow - 1), Signature(c))
  /\ turns' = Append(turns, ResultTurn(c.id, r))
  /\ plan' = ApplyResult(plan, c.id, r)
  /\ served' = Append(served, [step |-> steps, call |-> c])
  /\ UNCHANGED <<allowed, steps, outcome, toolSteps>>

\* tool_steps, the window of signatures, the turn and the node, all at once.
Serve(c, r) ==
  /\ at' = "run"
  /\ toolSteps' = toolSteps + 1
  /\ recent' = Append(LastN(recent, RepeatWindow - 1), Signature(c))
  /\ turns' = Append(turns, ResultTurn(c.id, r))
  /\ plan' = ApplyResult(plan, c.id, r)
  /\ served' = Append(served, [step |-> steps, call |-> c])
  /\ UNCHANGED <<allowed, steps, outcome>>

\* The arguments violate the schema: a result the model can recover from.
InvalidArguments(c) ==
  /\ at = "run"
  /\ NextCall(c)
  /\ Permitted(c)
  /\ Known(c)
  /\ PolicyAllows(c)
  /\ Serve(c, "invalid_arguments")
  /\ UNCHANGED started

StartTool(c) ==
  /\ at = "run"
  /\ NextCall(c)
  /\ Permitted(c)
  /\ Known(c)
  /\ PolicyAllows(c)
  /\ at' = "execute"
  /\ started' = Append(started, [step |-> steps, call |-> c])
  /\ UNCHANGED <<allowed, turns, plan, steps, toolSteps, recent, outcome, served>>

ToolReturns(c, r) ==
  /\ at = "execute"
  /\ NextCall(c)
  /\ r \in {"ok", "failed"}
  /\ Serve(c, r)
  /\ UNCHANGED started

\* Fault: a timeout is noted in the plan only, and the loop goes on.
TimeoutPassedOver ==
  /\ at = "execute"
  /\ at' = "run"
  /\ \E i \in NextExecutable(plan) : plan' = ApplyResult(plan, plan[i].call.id, "failed")
  /\ UNCHANGED <<allowed, turns, outcome, Bookkeeping>>

ToolTimesOut ==
  /\ at = "execute"
  /\ End("tool_timeout")
  /\ UNCHANGED <<allowed, turns, plan, Bookkeeping>>

ToolRaises ==
  /\ at = "execute"
  /\ End("tool_execution_failed")
  /\ UNCHANGED <<allowed, turns, plan, Bookkeeping>>

\* Faults: the model is asked again after every call, or never once the budget
\* is used up.
FinishEarly ==
  /\ at = "run"
  /\ at' = "generate"
  /\ UNCHANGED <<allowed, turns, plan, outcome, Bookkeeping>>

FinishWithinBudget ==
  /\ at = "run"
  /\ Planned(plan) = {}
  /\ toolSteps < MaxToolSteps
  /\ at' = "generate"
  /\ UNCHANGED <<allowed, turns, plan, outcome, Bookkeeping>>

\* Nothing executable is left: ask the model again, unless calls are blocked.
FinishPlan ==
  /\ at = "run"
  /\ NextExecutable(plan) = {}
  /\ IF Planned(plan) = {}
     THEN at' = "generate" /\ UNCHANGED outcome
     ELSE End("invalid_model_tool_call")
  /\ UNCHANGED <<allowed, turns, plan, Bookkeeping>>

------------------------------------------------------------------------------
Generate ==
  \/ ProviderFails
  \/ MalformedCall
  \/ FinalAnswer
  \/ \E calls \in Proposals :
       DuplicateCallId(calls) \/ UnknownDependency(calls) \/ ParsePlan(calls)

RunCall ==
  \E c \in {plan[i].call : i \in DOMAIN plan} :
    \/ NotPermitted(c)
    \/ ToolNotFound(c)
    \/ PolicyDenies(c)
    \/ InvalidArguments(c)
    \/ StartTool(c)
    \/ \E r \in Results : ToolReturns(c, r)

Next == Generate \/ CheckPlan \/ RunCall \/ ToolTimesOut \/ ToolRaises \/ FinishPlan

Spec == Init /\ [][Next]_vars

------------------------------------------------------------------------------
(* Properties.                                                             *)

\* "Tool execution must remain bounded via max_tool_steps"
\* (docs/architecture-rules.md:69-71): no request starts more executors than
\* that, the one that times out or raises included; and the model is asked for
\* no more answers than that, but for the last one: each has cost a tool step.
StepBudget == /\ Len(started) <= MaxToolSteps
              /\ toolSteps <= MaxToolSteps
              /\ steps <= toolSteps + 1

\* The check of a whole plan against the budget (tool_loop.py:96) leaves
\* nothing to the policy's own limit (policy.py:59), which would answer 403
\* after some of the plan's calls have already run.
PolicyLimitUnreached ==
  at = "run" /\ NextExecutable(plan) # {} => toolSteps < MaxToolSteps

\* A plan the parser accepted can always go on: the branches for plans that
\* cannot make progress (tool_loop.py:118) or that end with blocked nodes
\* (tool_loop.py:151) are never taken.
PlansMakeProgress == at \in {"check", "run"} => CanMakeProgress(plan)

\* The validation of a materialised plan (conversation.py:383) would succeed
\* at every stage of its execution, and so can never raise.
PlanStaysValid == ValidPlan(plan)

\* An executor starts only when every call its call declares as a dependency
\* has put its result into the conversation, in the same step.
DependenciesFirst ==
  \A i \in DOMAIN started : \A d \in started[i].call.deps :
    \E j \in DOMAIN served : /\ served[j].step = started[i].step
                            /\ served[j].call.id = d

\* No call of a plan is started twice.
StartedOnce ==
  \A i, j \in DOMAIN started :
    /\ started[i].step = started[j].step
    /\ started[i].call.id = started[j].call.id
    => i = j

\* "Small detection of repeated identical tool calls without progress"
\* (docs/tools.md:67): an executed call never equals one of the RepeatWindow
\* calls executed before it, whether they belong to the same plan or not.
NoRepeatInWindow ==
  \A i, j \in DOMAIN served :
    i < j /\ j - i <= RepeatWindow =>
      Signature(served[i].call) # Signature(served[j].call)

\* A call that has been started, and may have had its effect, is never passed over in
\* silence: its result goes into the conversation, or it is the last one and the client
\* is told that it failed.  A request may well end with half of a plan executed: a
\* later call that is unknown, not allowed, late or failing (tool_loop.py:132) drops
\* the results of the calls before it together with the conversation.
NoStartIsLost ==
  \A i \in DOMAIN started :
    \/ \E j \in DOMAIN served : served[j] = started[i]
    \/ /\ i = Len(started)
       /\ at = "execute" \/ outcome \in {"tool_timeout", "tool_execution_failed"}

\* Whenever the model is asked again, each of its calls has exactly one result
\* behind it in the conversation, before the next answer of the model.
ResultsOf(ts, p) ==
  {q \in (p + 1)..Len(ts) :
     /\ ts[q].type = "result"
     /\ ts[q].id = ts[p].call.id
     /\ \A m \in p..q : ts[m].type # "assistant"}

EveryCallHasItsResult ==
  at = "generate" =>
    \A p \in DOMAIN turns :
      turns[p].type = "call" => Cardinality(ResultsOf(turns, p)) = 1

\* The router's error contract (docs/tools.md:118) has invalid_model_tool_call
\* for calls of the model it cannot use; the client's messages are valid here
\* and are never blamed for them.
ModelErrorsAreNotTheClients == outcome # "invalid_messages"

\* Providers answer or time out (providers/base.py), and so do executors; the
\* rest of the loop is straight-line code.
FairSpec == Spec /\ WF_vars(Next)

\* Every request comes to an end, however many calls the model goes on asking
\* for (the loop of tool_loop.py:81 has no other bound than the budget).
RequestEnds == <>(at = "done")

\* Why it does: what a request has still to do, counted in steps of the loop.  A
\* call is five of them at most: it is served, and the plan it ends makes room
\* for another, which is asked for, checked, begun and executed.
StepsLeft ==
  5 * (MaxToolSteps - toolSteps)
    + (IF at = "done" THEN 0
       ELSE IF at = "execute" THEN 1
       ELSE IF at = "generate" THEN 4
       ELSE IF at = "check" THEN 3
       ELSE IF Progress(plan) = 0 THEN 2 ELSE 5)

\* Every step of the loop leaves it less to do.  A round that served no call
\* would not: the plan of an answer that asks for tools is never empty, and no
\* plan that is accepted is given up before its first call.
LoopShrinks == [][StepsLeft' < StepsLeft]_vars

\* The inductive strengthening: where the loop is fixes how far the plan has
\* got and what is left of the budget, the end of the history is the completed
\* part of the plan, and recent is the end of the history.
LoopInv ==
  /\ at = "check" => plan # <<>> /\ Progress(plan) = 0
  /\ at = "generate" => Planned(plan) = {}
  /\ at = "execute" => Planned(plan) # {}
  /\ toolSteps = Len(served)
  /\ toolSteps <= MaxToolSteps
  /\ at \in {"run", "execute"} =>
       toolSteps + Cardinality(Planned(plan)) <= MaxToolSteps
  /\ outcome # "none" <=> at = "done"
  /\ outcome \in {"max_tool_steps_exceeded", "tool_loop_repeated_call_detected"}
       => Progress(plan) = 0
  /\ outcome \in {"invalid_model_tool_call", "invalid_messages"}
       => Planned(plan) = {}
  /\ Len(started) <= IF at = "done" THEN MaxToolSteps
                     ELSE IF at = "execute" THEN toolSteps + 1 ELSE toolSteps

HistoryInv ==
  /\ Progress(plan) <= Len(served)
  /\ \A i \in 1..Progress(plan) :
       served[Len(served) - Progress(plan) + i]
         = [step |-> steps, call |-> plan[i].call]

WindowInv ==
  /\ Len(recent) = IF Len(served) < RepeatWindow THEN Len(served) ELSE RepeatWindow
  /\ \A i \in DOMAIN recent :
       recent[i] = Signature(served[Len(served) - Len(recent) + i].call)
  /\ at \in {"run", "execute"} =>
       /\ \A i, j \in DOMAIN plan : i < j => SignatureAt(i) # SignatureAt(j)
       /\ \A i \in DOMAIN plan, j \in DOMAIN served :
            /\ j <= Len(served) - Progress(plan)
            /\ j > Len(served) - Progress(plan) - RepeatWindow
            => Signature(served[j].call) # SignatureAt(i)

IInv == /\ TypeOK
        /\ SequentialPlan(plan)
        /\ LoopInv
        /\ HistoryInv
        /\ WindowInv
        /\ NoRepeatInWindow
        /\ DependenciesFirst

\* Why each answer costs a step: a plan is begun with a call to run, and the
\* model is asked again only when one of them has been served.
RoundsInv ==
  /\ at \in {"run", "execute"} => plan # <<>>
  /\ steps <= toolSteps + 1
  /\ \/ at = "generate"
     \/ at \in {"run", "execute"} /\ Progress(plan) > 0
     => steps <= toolSteps

\* Why no call starts twice: the calls started in a step are among those that
\* are done or being executed.
Begun == Progress(plan) + (IF at \in {"execute", "done"} THEN 1 ELSE 0)

StartedInv ==
  /\ \A i \in DOMAIN started :
       /\ started[i].step <= steps
       /\ started[i].step = steps =>
            \E k \in DOMAIN plan : k <= Begun /\ plan[k].call = started[i].call
  /\ StartedOnce

\* Why no start is lost: the executor at work is the last one started, and its call is
\* the one the plan has to serve next.
ExecutingInv ==
  /\ NoStartIsLost
  /\ at = "execute" =>
       /\ Len(started) > 0
       /\ started[Len(started)] = [step |-> steps, call |-> plan[Progress(plan) + 1].call]

\* Why every call has one result: the conversation is what came before the last
\* answer of the model, where it holds already, the answer at b, its calls and
\* the results of those that are done.
TurnsSplit(b) ==
  /\ b \in Nat
  /\ plan # <<>> => b > 0 /\ turns[b].type = "assistant"
  /\ \A k \in DOMAIN plan : turns[b + k] = CallTurn(plan[k].call)
  /\ \A k \in 1..Progress(plan) :
       /\ turns[b + Len(plan) + k].type = "result"
       /\ turns[b + Len(plan) + k].id = plan[k].call.id
  /\ \A p \in 1..b :
       turns[p].type = "call" => Cardinality(ResultsOf(turns, p)) = 1

TurnsInv == at # "done" => TurnsSplit(Len(turns) - Len(plan) - Progress(plan))

\* The first-come-first-served queue the plans amount to.
Waiting ==
  [i \in 1..Cardinality(Planned(plan)) |->
     plan[Cardinality(Completed(plan)) + i].call]

Queue == INSTANCE ToolQueue
           WITH QueuedCall <- Call,
                Budget <- MaxToolSteps,
                mode <- IF at \in {"generate", "check"} THEN "asking"
                        ELSE IF at = "done" THEN "stopped" ELSE "serving",
                queue <- IF at \in {"run", "execute"} THEN Waiting ELSE <<>>,
                log <- [i \in DOMAIN served |-> served[i].call]

\* Plans, dependencies and strategy amount to a queue of calls with a budget.
ImplementsQueue == Queue!Spec
==============================================================================
