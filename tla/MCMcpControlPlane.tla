-------------------------- MODULE MCMcpControlPlane --------------------------
(* Instances of McpControlPlane for TLC. *)
EXTENDS McpControlPlane, TLC

CONSTANTS s1, s2, x1, x2, t1, t2

\* Every tool has a name of its own.
MCNames == Servers \X Tools
MCRegName == [s \in Servers |-> [x \in Tools |-> <<s, x>>]]

\* The slugs of the two servers normalise to the same segment.
MCSharedNames == Tools
MCSharedRegName == [s \in Servers |-> [x \in Tools |-> x]]

\* The names of all tools normalise to the same one.
MCOneName == {x1}
MCOneRegName == [s \in Servers |-> [x \in Tools |-> x1]]

\* Either server may list anything, or nothing at all.
MCDiscoverable == [s \in Servers |-> SUBSET Tools]

\* One administrator per server, both working at once.
MCOnePerServer == (t1 :> {s1}) @@ (t2 :> {s2})

\* One administrator for all servers.
MCOneForAll == [t \in Threads |-> Servers]
==============================================================================
