----------------------------- MODULE TurnHistory -----------------------------
(***************************************************************************)
(* The compatibility path of router/conversation.py that rebuilds steps    *)
(* and plans from the turns of a conversation (execution_steps_from_turns),*)
(* and reads the answer to the client off the last of them                 *)
(* (turns_to_generation).  The tool loop keeps its own steps; what the     *)
(* client receives is what this path makes of the turns.                   *)
(***************************************************************************)
EXTENDS ToolLoop

Seqs == INSTANCE SequencesExt

\* ExecutionStep: the phases of its assistant turns, its plan, its final turn.
EmptyStep == [phases |-> {}, plan |-> <<>>, final |-> FALSE]

\* ExecutionStep.primary_assistant_turn, by the phase of the turn
Primary(step) ==
  IF "finalization" \in step.phases THEN "finalization"
  ELSE IF "tool_plan" \in step.phases THEN "tool_plan"
  ELSE "reasoning"

HasResult(step) == \E i \in DOMAIN step.plan : step.plan[i].result # "none"

\* State of the loop over the turns: the steps, whether current_step is set,
\* and whether a validation has raised.
Nothing == [list |-> <<>>, open |-> FALSE, raised |-> FALSE]

LastStep(h) == h.list[Len(h.list)]

SetLast(h, step) == [h EXCEPT !.list[Len(h.list)] = step]

NewStep(h) == [h EXCEPT !.list = Append(@, EmptyStep), !.open = TRUE]

\* Fault: a step takes assistant turns even after results.
TakeAssistantAlways(h, turn) ==
  LET g == IF h.open /\ ~LastStep(h).final THEN h ELSE NewStep(h)
  IN  SetLast(g, [LastStep(g) EXCEPT !.phases = @ \cup {turn.phase}])

\* An assistant turn opens a step unless the current one can still take it.
TakeAssistant(h, turn) ==
  LET g == IF h.open /\ ~LastStep(h).final /\ ~HasResult(LastStep(h))
           THEN h ELSE NewStep(h)
  IN  SetLast(g, [LastStep(g) EXCEPT !.phases = @ \cup {turn.phase}])

\* _append_tool_call_to_step
TakeCall(h, turn) ==
  LET old == LastStep(h)
      node == [call     |-> turn.call,
               strategy |-> IF old.plan = <<>> THEN {}
                            ELSE {old.plan[Len(old.plan)].call.id},
               status   |-> "planned",
               result   |-> "none"]
      new == Append(old.plan, node)
  IN  IF ValidPlan(new) THEN SetLast(h, [old EXCEPT !.plan = new])
                        ELSE [h EXCEPT !.raised = TRUE]

TakeResult(h, turn) ==
  SetLast(h, [LastStep(h) EXCEPT !.plan = ApplyResult(@, turn.id, turn.result)])

TakeFinal(h) == SetLast(h, [LastStep(h) EXCEPT !.final = TRUE])

TakeTurn(h, turn) ==
  IF turn.type = "assistant" THEN TakeAssistant(h, turn)
  ELSE IF ~h.open THEN h
  ELSE IF turn.type = "call" THEN TakeCall(h, turn)
  ELSE IF turn.type = "result" THEN TakeResult(h, turn)
  ELSE IF turn.type = "final" THEN TakeFinal(h)
  ELSE [h EXCEPT !.open = FALSE]

\* execution_steps_from_turns
Rebuilt(ts) ==
  LET h[n \in 0..Len(ts)] == IF n = 0 THEN Nothing ELSE TakeTurn(h[n - 1], ts[n])
  IN  h[Len(ts)]

------------------------------------------------------------------------------
\* "orchestration truth now comes primarily from parser-produced step state
\* and explicit plan transitions"; the turns are a "compatibility and recovery
\* path" (docs/architecture.md:68).  The two never disagree: at
\* any moment the steps rebuilt from the turns end in the step the loop is
\* working on, with the same plan and the same progress, and no validation
\* raises (turns_to_generation runs outside the try of app.py:243).
RebuildAgrees ==
  steps > 0 =>
    LET h == Rebuilt(turns) IN
      /\ ~h.raised
      /\ h.list # <<>>
      /\ LastStep(h).plan = plan
      /\ LastStep(h).final <=> outcome = "answer"
      /\ Primary(LastStep(h)) =
           IF outcome = "answer" THEN "finalization" ELSE "tool_plan"

\* The inductive strengthening.
StepType == [phases : SUBSET Phases, plan : Seq(Node), final : BOOLEAN]

HistoryType == [list : Seq(StepType), open : BOOLEAN, raised : BOOLEAN]

\* A step that holds nothing but texts of the client.
Clean(step) == step.plan = <<>> /\ ~step.final /\ step.phases \subseteq {"reasoning"}

RebuildInv ==
  LET h == Rebuilt(turns) IN
    /\ h \in HistoryType /\ ~h.raised
    /\ steps = 0 => /\ outcome # "answer" /\ plan = <<>>
                    /\ h.open => h.list # <<>> /\ Clean(LastStep(h))
    /\ steps > 0 =>
         /\ h.open /\ h.list # <<>>
         /\ LastStep(h).plan = plan
         /\ LastStep(h).final <=> outcome = "answer"
         /\ IF outcome = "answer" THEN "finalization" \in LastStep(h).phases
            ELSE /\ plan # <<>>
                 /\ "tool_plan" \in LastStep(h).phases
                 /\ "finalization" \notin LastStep(h).phases
==============================================================================
