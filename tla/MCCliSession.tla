----------------------------- MODULE MCCliSession -----------------------------
(* Instance of CliSession for TLC. *)
EXTENDS CliSession

CONSTANTS s1, s2, x1, x2, t1, t2

\* Every tool has a name of its own.
MCNames == Servers \X Tools
MCRegName == [s \in Servers |-> [x \in Tools |-> <<s, x>>]]

\* A server may list anything, or nothing at all.
MCDiscoverable == [s \in Servers |-> SUBSET Tools]

\* Any thread serves any server.
MCAssigned == [t \in Threads |-> Servers]
==============================================================================
