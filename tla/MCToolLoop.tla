----------------------------- MODULE MCToolLoop -----------------------------
(* Instances of ToolLoop for TLC. *)
EXTENDS ToolLoop, TLC

CONSTANTS a, b, c, echo, read, remote, lost

\* A call without dependencies, and one that waits for another call.
Ask(i, x, v) == [id |-> i, tool |-> x, args |-> v, deps |-> {}]
After(i, x, v, d) == [id |-> i, tool |-> x, args |-> v, deps |-> {d}]

\* One or two calls: repeated ids, repeated signatures, dependencies that are
\* met, unknown or on the call itself, tools of every kind.
MCCalls == {Ask(a, echo, 1), Ask(b, echo, 1), Ask(b, read, 1), Ask(a, remote, 1),
            Ask(a, lost, 1), After(b, echo, 2, a), After(c, echo, 3, b),
            After(a, echo, 2, a)}

MCProposals ==
  {<<x>> : x \in MCCalls} \cup (MCCalls \X MCCalls)
    \cup {<<Ask(a, echo, 1), Ask(b, echo, 2), After(c, read, 1, a)>>,
          <<Ask(a, echo, 2), After(b, echo, 3, a), After(c, read, 1, a)>>,
          <<Ask(a, echo, 1), Ask(b, echo, 2), Ask(c, echo, 3),
            Ask(a, echo, 4)>>}

MCAllowlists == {{echo, read}, {echo, read, remote, lost}}

\* A conversation starts with what the client sent.
MCRequestTurns == {<<UserTurn>>, <<UserTurn, AssistantTurn("reasoning")>>}
=============================================================================
