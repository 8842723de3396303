---------------------------- MODULE ToolDirectory ----------------------------
(***************************************************************************)
(* What a client of the router may rely on about MCP tools, without any of *)
(* the router's machinery: which servers are ready, and which of their     *)
(* tools are listed as callable.                                           *)
(*                                                                         *)
(*   - a tool is listed only while its server is ready;                    *)
(*   - a server becomes ready with nothing listed, so no tool of an        *)
(*     earlier publication is mistaken for one of the new publication;     *)
(*   - a server that stops being ready may still have tools listed, and    *)
(*     they can only be withdrawn.                                         *)
(*                                                                         *)
(* McpControlPlane implements this specification when every MCP server is  *)
(* administered by one client at a time.                                   *)
(***************************************************************************)
CONSTANTS Servers,  \* MCP servers
          Names     \* names under which tools can be listed

VARIABLES ready,    \* the servers that are ready
          listed    \* listed[s]: the names listed for server s

dirVars == <<ready, listed>>

Init == /\ ready = {}
        /\ listed = [s \in Servers |-> {}]

GoReady(s) == /\ s \notin ready
              /\ listed[s] = {}
              /\ ready' = ready \cup {s}
              /\ UNCHANGED listed

GoDark(s) == /\ s \in ready
             /\ ready' = ready \ {s}
             /\ UNCHANGED listed

List(s, n) == /\ s \in ready
              /\ listed' = [listed EXCEPT ![s] = @ \cup {n}]
              /\ UNCHANGED ready

Withdraw(s, n) == /\ n \in listed[s]
                  /\ listed' = [listed EXCEPT ![s] = @ \ {n}]
                  /\ UNCHANGED ready

Next == \E s \in Servers :
          \/ GoReady(s)
          \/ GoDark(s)
          \/ \E n \in Names : List(s, n) \/ Withdraw(s, n)

Spec == Init /\ [][Next]_dirVars
==============================================================================
