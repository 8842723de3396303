-------------------------- MODULE MCRouterLifecycle --------------------------
(* Instances of RouterLifecycle for TLC. *)
EXTENDS RouterLifecycle

CONSTANTS t1, t2, p1, p2, p3

\* Between the start of the process and the pid file that names it.
MCUnnamed == {"truncate", "write"}

\* Scripts run to their end.
MCEverywhere == Places
==============================================================================
