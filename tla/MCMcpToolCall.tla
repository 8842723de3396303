---------------------------- MODULE MCMcpToolCall ----------------------------
(* Instances of McpToolCall for TLC. *)
EXTENDS MCMcpControlPlane, McpToolCall

CONSTANT c1

\* Each server may list one tool, or none; nobody ever lists x2.
MCOneTool == [s \in Servers |-> SUBSET {x1}]

\* The client allows the tools that are listed at times; the model may ask for
\* any.
MCAllowed == [c \in Requests |-> {<<s, x1>> : s \in Servers}]
==============================================================================
