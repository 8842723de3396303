---------------------------- MODULE ExecutionPlan ----------------------------
(***************************************************************************)
(* The execution plan of one provider step (router/conversation.py).       *)
(*                                                                         *)
(* The tool calls a model asks for in one answer become the nodes of a     *)
(* plan.  A node waits for the calls it declares as dependencies and, the  *)
(* strategy being SEQUENTIAL, for the node before it.                      *)
(*                                                                         *)
(* Contents, argument values and metadata are left out.  A dependency is   *)
(* the id the parser keeps after stripping blanks (parser.py:357).         *)
(***************************************************************************)
EXTENDS Integers, Sequences, FiniteSets

CONSTANTS
  Ids,        \* tool call ids a model may use
  Tools,      \* tool names a model may use
  Arguments   \* argument objects, equal when their sorted JSON texts are

\* ToolCallTurn, with its declared_dependency_call_ids
Call == [id : Ids, tool : Tools, args : Arguments, deps : SUBSET Ids]

\* _tool_call_signature
Signature(c) == <<c.tool, c.args>>

\* ToolResultTurn: what the executor returned, or the schema violation the
\* model is told about.
Results == {"ok", "failed", "invalid_arguments"}

\* ExecutionPlanNode
Node == [call     : Call,
         strategy : SUBSET Ids,
         status   : {"planned", "completed"},
         result   : Results \cup {"none"}]

------------------------------------------------------------------------------
(* Building a plan from the calls of a step.                               *)

\* DeclaredPlanSpec.append_node refuses a second node with the same id.
DuplicateId(calls) ==
  \E i, j \in DOMAIN calls : i # j /\ calls[i].id = calls[j].id

\* Fault: a dependency may be any call of the step.
DeclaredAnywhere(calls) ==
  \A i \in DOMAIN calls : \A d \in calls[i].deps :
    \E j \in DOMAIN calls : calls[j].id = d

\* validate_declared_plan_spec: a call depends on calls before it only, so
\* neither on itself, nor on an unknown call, nor on a cycle.
DeclaredInOrder(calls) ==
  \A i \in DOMAIN calls : \A d \in calls[i].deps :
    \E j \in 1..(i - 1) : calls[j].id = d

\* materialize_execution_plan_from_declared_plan_spec: declared nodes first,
\* then the dependencies of the sequential strategy.
Materialize(calls) ==
  [i \in DOMAIN calls |->
     [call     |-> calls[i],
      strategy |-> IF i = 1 THEN {} ELSE {calls[i - 1].id},
      status   |-> "planned",
      result   |-> "none"]]

------------------------------------------------------------------------------
(* Progress of a plan.                                                     *)

\* planned_plan_nodes, by position
Planned(plan) == {i \in DOMAIN plan : plan[i].status = "planned"}

Completed(plan) == {i \in DOMAIN plan : plan[i].status = "completed"}

CompletedIds(plan) == {plan[i].call.id : i \in Completed(plan)}

Dependencies(node) == node.call.deps \cup node.strategy

\* is_plan_node_executable
IsExecutable(plan, i) ==
  /\ plan[i].status = "planned"
  /\ Dependencies(plan[i]) \subseteq CompletedIds(plan)

\* Fault: dependencies and order are ignored.
AnyPlanned(plan) == Planned(plan)

\* compute_executable_plan_nodes: the sequential strategy stops at the first.
NextExecutable(plan) ==
  {i \in DOMAIN plan :
     /\ IsExecutable(plan, i)
     /\ \A j \in 1..(i - 1) : ~IsExecutable(plan, j)}

\* can_execution_plan_make_progress
CanMakeProgress(plan) == Planned(plan) = {} \/ NextExecutable(plan) # {}

\* Faults: the node keeps its status; nodes that have a result take another.
ResultWithoutStatus(plan, id, r) ==
  [i \in DOMAIN plan |->
     IF plan[i].call.id = id THEN [plan[i] EXCEPT !.result = r] ELSE plan[i]]

\* apply_tool_result_to_plan: every node with that id and no result yet.
ApplyResult(plan, id, r) ==
  [i \in DOMAIN plan |->
     IF plan[i].call.id = id /\ plan[i].result = "none"
     THEN [plan[i] EXCEPT !.result = r, !.status = "completed"]
     ELSE plan[i]]

------------------------------------------------------------------------------
\* validate_execution_plan: distinct ids, a result exactly on completed nodes,
\* known dependencies, no node that waits for itself, no cycle.
ValidPlan(plan) ==
  /\ \A i, j \in DOMAIN plan : plan[i].call.id = plan[j].call.id => i = j
  /\ \A i \in DOMAIN plan :
       /\ plan[i].status = "completed" <=> plan[i].result # "none"
       /\ plan[i].call.id \notin Dependencies(plan[i])
       /\ Dependencies(plan[i]) \subseteq {plan[j].call.id : j \in DOMAIN plan}
  /\ \A S \in (SUBSET DOMAIN plan) \ {{}} :
       \E i \in S : \A j \in S : plan[j].call.id \notin Dependencies(plan[i])

\* How many calls are done.
Progress(plan) == Cardinality(Completed(plan))

\* What every plan of the sequential strategy looks like: each node waits for
\* the node before it and for declared calls before it, and the nodes are
\* completed from the first to the last.
SequentialPlan(plan) ==
  /\ \A i, j \in DOMAIN plan : plan[i].call.id = plan[j].call.id => i = j
  /\ \A i \in DOMAIN plan :
       /\ plan[i].strategy = IF i = 1 THEN {} ELSE {plan[i - 1].call.id}
       /\ \A d \in plan[i].call.deps :
            \E j \in 1..(i - 1) : plan[j].call.id = d
       /\ plan[i].status = "completed" <=> plan[i].result # "none"
  /\ Completed(plan) = 1..Progress(plan)
==============================================================================
