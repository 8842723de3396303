------------------------------ MODULE ToolQueue ------------------------------
(***************************************************************************)
(* What a tool loop promises about the calls of a model, without plans,    *)
(* dependencies or errors: the calls of one answer wait in a queue and are *)
(* served one at a time, first come first served; the model is asked again *)
(* only when all of them are served; and no more calls are ever accepted   *)
(* than the budget has left.  The loop may give up at any moment.          *)
(*                                                                         *)
(* ToolLoop implements this specification.                                 *)
(***************************************************************************)
EXTENDS Integers, Sequences

CONSTANTS QueuedCall,  \* the calls a model can ask for
          Budget       \* how many calls a request may make

VARIABLES mode,        \* "asking" the model, "serving" its calls, or "stopped"
          queue,       \* the accepted calls not served yet
          log          \* the calls served so far

queueVars == <<mode, queue, log>>

Init == /\ mode = "asking"
        /\ queue = <<>>
        /\ log = <<>>

Accept == /\ mode = "asking"
          /\ mode' = "serving"
          /\ queue' \in Seq(QueuedCall) \ {<<>>}
          /\ Len(log) + Len(queue') <= Budget
          /\ UNCHANGED log

Serve == /\ mode = "serving"
         /\ queue # <<>>
         /\ queue' = Tail(queue)
         /\ log' = Append(log, Head(queue))
         /\ UNCHANGED mode

Resume == /\ mode = "serving"
          /\ queue = <<>>
          /\ mode' = "asking"
          /\ UNCHANGED <<queue, log>>

Stop == /\ mode # "stopped"
        /\ mode' = "stopped"
        /\ queue' = <<>>
        /\ UNCHANGED log

Next == Accept \/ Serve \/ Resume \/ Stop

Spec == Init /\ [][Next]_queueVars
==============================================================================
