--------------------------- MODULE RouterLifecycle ---------------------------
(***************************************************************************)
(* scripts/start.sh and scripts/stop.sh: the router process, the pid file  *)
(* that names it, its port and vLLM.  The scripts run from terminals and   *)
(* may be interrupted; routers fail to start, crash, and leave their pid   *)
(* to other programs.  Routers are also started by hand (README.md:100),   *)
(* and any program may hold the router's port and answer there, badly, or  *)
(* never.                                                                  *)
(*                                                                         *)
(* A step of a script is one command; the test for the pid file and the    *)
(* cat that follows it are one.  Left out: the checks of the Python        *)
(* environment and the GPU, which end start.sh before it has any effect,   *)
(* the cat of a pid file just found to name a router (start.sh:230), and   *)
(* the CLI, which replaces the script at its end.  docker compose returns, *)
(* and brings vLLM up and down.                                            *)
(***************************************************************************)
EXTENDS Integers, FiniteSets

CONSTANTS
  Terminals,   \* where scripts are run, one at a time
  Pids,        \* process ids
  Attempts,    \* INFRA_AI_ROUTER_READY_RETRIES, INFRA_AI_VLLM_READY_RETRIES
  Unbroken,    \* places where scripts are not interrupted
  NoFile, Empty, None

ASSUME LifecycleConstants ==
  /\ Attempts \in Nat \ {0}
  /\ NoFile \notin Pids
  /\ Empty \notin Pids \cup {NoFile}
  /\ None \notin Pids

VARIABLES
  pidfile,  \* content of router.pid
  proc,     \* what runs under each pid
  port,     \* the process that listens on the router's port
  vllm,     \* "down", "starting" or "up"
  script,   \* script[t]: place, pid and attempts of the script of terminal t
  last      \* how the last script ended

vars == <<pidfile, proc, port, vllm, script, last>>

Places == {"idle", "check", "inspect", "remove", "spawn", "truncate", "write",
           "wait_vllm", "probe", "examine",
           "stop_check", "stop_inspect", "kill", "stop_remove", "down"}

\* "router": started by start.sh; "byhand": the same program, started by hand;
\* "dying": one of them, after SIGTERM.  "other" and "alien" are other programs of
\* this and of another user; nothing runs under a "free" pid.
ProcState == {"free", "router", "byhand", "dying", "other", "alien"}

Foreign == {"other", "alien"}

ScriptRecord ==
  [at : Places, pid : Pids \cup {Empty, None}, tries : 0..(Attempts - 1)]

Script == {s \in ScriptRecord : s.at \in {"truncate", "write"} => s.pid \in Pids}

Idle == [at |-> "idle", pid |-> None, tries |-> 0]

Endings == {"none", "ready", "stopped", "refused", "failed", "interrupted"}

TypeOK == /\ pidfile \in Pids \cup {NoFile, Empty}
          /\ proc \in [Pids -> ProcState]
          /\ port \in Pids \cup {None}
          /\ vllm \in {"down", "starting", "up"}
          /\ script \in [Terminals -> Script]
          /\ last \in Endings

Init == /\ pidfile = NoFile
        /\ proc = [p \in Pids |-> "free"]
        /\ port = None
        /\ vllm = "down"
        /\ script = [t \in Terminals |-> Idle]
        /\ last = "none"

------------------------------------------------------------------------------
(* Processes.                                                              *)

\* The routers the scripts have started.
Live == {p \in Pids : proc[p] = "router"}

Become(p, state) ==
  /\ proc' = [proc EXCEPT ![p] = state]
  /\ UNCHANGED <<pidfile, vllm, script, last>>

\* RouterHTTPServer binds and listens in its constructor; any other program may
\* listen on the port, too.
Bind(p) ==
  /\ proc[p] \in {"router", "byhand"} \cup Foreign
  /\ port = None
  /\ port' = p
  /\ UNCHANGED <<pidfile, proc, vllm, script, last>>

\* A process ends, and no longer listens.
Ends(p) == Become(p, "free") /\ port' = IF port = p THEN None ELSE port

BindFails(p) ==
  /\ proc[p] \in {"router", "byhand"}
  /\ port \notin {None, p}
  /\ Ends(p)

\* An invalid configuration, an exception, a user, the kernel.
Crash(p) == proc[p] \in {"router", "byhand"} /\ Ends(p)

Dies(p) == proc[p] = "dying" /\ Ends(p)

OtherExits(p) == proc[p] \in Foreign /\ Ends(p)

\* stop.sh is about to signal the pid: it is not given to another process just then.
Targeted(p) == \E t \in Terminals : script[t].at = "kill" /\ script[t].pid = p

\* Bound: there is a pid for every script at work.
PidsLeft == Cardinality({p \in Pids : proc[p] = "free"})
              > Cardinality({t \in Terminals : script[t].at # "idle"})

\* Somebody starts a router by hand, or another program gets a pid, a pid that was
\* a router's before or is still in the pid file.
StartsElsewhere(p, what) ==
  /\ proc[p] = "free"
  /\ PidsLeft
  /\ ~Targeted(p)
  /\ Become(p, what)
  /\ UNCHANGED port

VllmComesUp ==
  /\ vllm = "starting"
  /\ vllm' = "up"
  /\ UNCHANGED <<pidfile, proc, port, script, last>>

\* The container restarts (docker-compose.yml:5).
VllmCrashes ==
  /\ vllm = "up"
  /\ vllm' = "starting"
  /\ UNCHANGED <<pidfile, proc, port, script, last>>

\* is_router_process: the pid runs, and its command line names router.app.
IsRouter(p) == p \in Pids /\ proc[p] \in {"router", "byhand", "dying"}

\* kill -0: it fails for the programs of other users, too.
Runs(p) == p \in Pids /\ proc[p] \notin {"free", "alien"}

------------------------------------------------------------------------------
(* Both scripts.                                                           *)

At(t, where) == script[t].at = where

Goto(t, where) == script' = [script EXCEPT ![t].at = where]

End(t, how) == script' = [script EXCEPT ![t] = Idle] /\ last' = how

\* cat "${PID_FILE}"
Read(t, where) == script' = [script EXCEPT ![t].at = where, ![t].pid = pidfile]

Interrupt(t) ==
  /\ script[t].at \notin Unbroken \cup {"idle"}
  /\ End(t, "interrupted")
  /\ UNCHANGED <<pidfile, proc, port, vllm>>

\* Fault: attempts are not counted.
RetryForever(t, where) == Goto(t, where) /\ UNCHANGED last

\* Another attempt, or none: the script ends with an error.
Retry(t, where) ==
  IF script[t].tries + 1 < Attempts
  THEN /\ script' = [script EXCEPT ![t].at = where, ![t].tries = @ + 1]
       /\ UNCHANGED last
  ELSE End(t, "failed")

------------------------------------------------------------------------------
(* start.sh                                                                *)

\* docker compose up -d; if it fails, the script ends without an effect.
ComposeUp(t) ==
  /\ At(t, "idle")
  /\ PidsLeft
  /\ Goto(t, "check")
  /\ vllm' = IF vllm = "down" THEN "starting" ELSE vllm
  /\ UNCHANGED <<pidfile, proc, port, last>>

CheckPidFile(t) ==
  /\ At(t, "check")
  /\ IF pidfile = NoFile THEN Goto(t, "spawn") ELSE Read(t, "inspect")
  /\ UNCHANGED <<pidfile, proc, port, vllm, last>>

Reuses(t) ==
  /\ At(t, "inspect")
  /\ IsRouter(script[t].pid)
  /\ Goto(t, "wait_vllm")
  /\ UNCHANGED <<pidfile, proc, port, vllm, last>>

RefusesToStart(t) ==
  /\ At(t, "inspect")
  /\ ~IsRouter(script[t].pid)
  /\ Runs(script[t].pid)
  /\ End(t, "refused")
  /\ UNCHANGED <<pidfile, proc, port, vllm>>

\* Fault: whatever it names, the pid file counts as stale.
FindsAnyStale(t) ==
  /\ At(t, "inspect")
  /\ Goto(t, "remove")
  /\ UNCHANGED <<pidfile, proc, port, vllm, last>>

FindsStale(t) ==
  /\ At(t, "inspect")
  /\ ~Runs(script[t].pid)
  /\ Goto(t, "remove")
  /\ UNCHANGED <<pidfile, proc, port, vllm, last>>

RemoveStale(t) ==
  /\ At(t, "remove")
  /\ pidfile' = NoFile
  /\ Goto(t, "spawn")
  /\ UNCHANGED <<proc, port, vllm, last>>

Spawn(t, p) ==
  /\ At(t, "spawn")
  /\ proc[p] = "free"
  /\ ~Targeted(p)
  /\ proc' = [proc EXCEPT ![p] = "router"]
  /\ script' = [script EXCEPT ![t].at = "truncate", ![t].pid = p]
  /\ UNCHANGED <<pidfile, port, vllm, last>>

\* The redirection empties the file before echo writes to it.
Truncate(t) ==
  /\ At(t, "truncate")
  /\ pidfile' = Empty
  /\ Goto(t, "write")
  /\ UNCHANGED <<proc, port, vllm, last>>

WritePid(t) ==
  /\ At(t, "write")
  /\ pidfile' = script[t].pid
  /\ Goto(t, "wait_vllm")
  /\ UNCHANGED <<proc, port, vllm, last>>

\* curl of vLLM's /models, which fails unless vLLM is up and answers well.
WaitForVllm(t) ==
  /\ At(t, "wait_vllm")
  /\ \/ /\ vllm = "up"
        /\ script' = [script EXCEPT ![t].at = "probe", ![t].tries = 0]
        /\ UNCHANGED last
     \/ Retry(t, "wait_vllm")
  /\ UNCHANGED <<pidfile, proc, port, vllm>>

\* curl of /healthz: whoever listens on the port answers, a router always well.
ProbeSucceeds(t) ==
  /\ At(t, "probe")
  /\ port \in Pids
  /\ proc[port] # "dying"
  /\ End(t, "ready")
  /\ UNCHANGED <<pidfile, proc, port, vllm>>

ProbeFails(t) ==
  /\ At(t, "probe")
  /\ port \in Pids => proc[port] \in {"dying"} \cup Foreign
  /\ Goto(t, "examine")
  /\ UNCHANGED <<pidfile, proc, port, vllm, last>>

ExaminePidFile(t) ==
  /\ At(t, "examine")
  /\ IF pidfile # NoFile /\ ~IsRouter(pidfile)
     THEN End(t, "failed")
     ELSE Retry(t, "probe")
  /\ UNCHANGED <<pidfile, proc, port, vllm>>

------------------------------------------------------------------------------
(* stop.sh                                                                 *)

BeginStop(t) ==
  /\ At(t, "idle")
  /\ Goto(t, "stop_check")
  /\ UNCHANGED <<pidfile, proc, port, vllm, last>>

StopChecksPidFile(t) ==
  /\ At(t, "stop_check")
  /\ IF pidfile = NoFile THEN Goto(t, "down") ELSE Read(t, "stop_inspect")
  /\ UNCHANGED <<pidfile, proc, port, vllm, last>>

\* Fault: the pid in the file is believed.
KillWhateverRuns(t) ==
  /\ At(t, "stop_inspect")
  /\ Goto(t, IF Runs(script[t].pid) THEN "kill" ELSE "stop_remove")
  /\ UNCHANGED <<pidfile, proc, port, vllm, last>>

StopInspects(t) ==
  /\ At(t, "stop_inspect")
  /\ Goto(t, IF IsRouter(script[t].pid) THEN "kill" ELSE "stop_remove")
  /\ UNCHANGED <<pidfile, proc, port, vllm, last>>

\* Fault: no signal is sent.
KillNothing(t) ==
  /\ At(t, "kill")
  /\ Goto(t, "stop_remove")
  /\ UNCHANGED <<pidfile, proc, port, vllm, last>>

\* Under set -e a kill that finds no process ends the script.
Kill(t) ==
  /\ At(t, "kill")
  /\ IF Runs(script[t].pid)
     THEN /\ proc' = [proc EXCEPT ![script[t].pid] = "dying"]
          /\ Goto(t, "stop_remove")
          /\ UNCHANGED last
     ELSE End(t, "failed") /\ UNCHANGED proc
  /\ UNCHANGED <<pidfile, port, vllm>>

StopRemoves(t) ==
  /\ At(t, "stop_remove")
  /\ pidfile' = NoFile
  /\ Goto(t, "down")
  /\ UNCHANGED <<proc, port, vllm, last>>

ComposeDown(t) ==
  /\ At(t, "down")
  /\ vllm' = "down"
  /\ End(t, "stopped")
  /\ UNCHANGED <<pidfile, proc, port>>

------------------------------------------------------------------------------
Start(t) ==
  \/ CheckPidFile(t) \/ Reuses(t) \/ RefusesToStart(t) \/ FindsStale(t)
  \/ RemoveStale(t) \/ (\E p \in Pids : Spawn(t, p)) \/ Truncate(t) \/ WritePid(t)
  \/ WaitForVllm(t) \/ ProbeSucceeds(t) \/ ProbeFails(t)
  \/ ExaminePidFile(t)

Stop(t) == StopChecksPidFile(t) \/ StopInspects(t) \/ Kill(t) \/ StopRemoves(t)
             \/ ComposeDown(t)

Process(p) ==
  \/ Bind(p) \/ BindFails(p) \/ Crash(p) \/ Dies(p) \/ OtherExits(p)
  \/ \E what \in {"byhand"} \cup Foreign : StartsElsewhere(p, what)

Next ==
  \/ \E t \in Terminals :
       ComposeUp(t) \/ BeginStop(t) \/ Start(t) \/ Stop(t) \/ Interrupt(t)
  \/ \E p \in Pids : Process(p)
  \/ VllmComesUp \/ VllmCrashes

Spec == Init /\ [][Next]_vars

\* curl has no time limit (start.sh:109, 142): it may wait for ever for whoever has
\* accepted its connection.
Hangs(t) == \/ At(t, "wait_vllm") /\ vllm = "up"
            \/ At(t, "probe") /\ port # None

\* The commands of a script follow each other, unless curl waits; it returns when its
\* peer goes away, even if another one comes in its place.  Nobody has to run a
\* script, and no process has to do anything.
FairSpec ==
  Spec /\ \A t \in Terminals : SF_vars((Start(t) \/ Stop(t)) /\ ~Hangs(t))

------------------------------------------------------------------------------
(* Properties.                                                             *)

Quiet == \A t \in Terminals : At(t, "idle")

\* While a router started by start.sh runs, no other one is started: the pid file is
\* checked "bevor es einen zweiten Start blockiert" (README.md:125).
SecondStartIsBlocked == Cardinality(Live) <= 1

\* "Die Router-PID liegt stabil unter `~/.ai/run/router.pid`" (README.md:125): once no
\* script is at work, the pid file names the router start.sh has started.
PidIsStable == Quiet => Live \subseteq {pidfile}

\* start.sh never starts a second router, and between scripts stop.sh can find the one
\* that runs, whatever routers are started by hand and whoever has the port.
OneNamedRouter == SecondStartIsBlocked /\ PidIsStable

\* When stop.sh ends properly, no router of start.sh's is left and nothing in the pid
\* file can keep start.sh from starting one, however routers crashed and pids were
\* reused.
StoppedMeansStopped ==
  last = "stopped" /\ Quiet => pidfile = NoFile /\ Live = {}

\* Scripts are run one at a time, and are not interrupted before the pid file
\* names the router they have started.
OneAtATime == /\ \A t, u \in Terminals : t = u
              /\ {"truncate", "write"} \subseteq Unbroken

\* The inductive strengthening: the place of the script tells whether a router can
\* be running, and which.
ScriptInv(t) ==
  /\ At(t, "truncate") \/ At(t, "write") =>
       Live \subseteq {script[t].pid}
  /\ ~At(t, "truncate") /\ ~At(t, "write") => Live \subseteq {pidfile}
  /\ At(t, "inspect") \/ At(t, "stop_inspect") \/ At(t, "kill") =>
       script[t].pid = pidfile
  /\ At(t, "remove") \/ At(t, "spawn") \/ At(t, "stop_remove") \/ At(t, "down") =>
       Live = {}
  /\ At(t, "down") => pidfile = NoFile
  /\ At(t, "idle") /\ last = "stopped" => pidfile = NoFile /\ Live = {}

IInv == /\ TypeOK
        /\ Terminals = {} => Live = {} /\ last = "none"
        /\ \A t \in Terminals : ScriptInv(t)

\* "das Script prueft ausserdem, ob diese PID wirklich zu router.app gehoert"
\* (README.md:125): no script ever signals another program.
SparesOthers ==
  [][\A p \in Pids : proc[p] \in Foreign => proc'[p] # "dying"]_vars

\* Every script comes to an end, unless from some moment on vLLM or a process on the
\* router's port has accepted its connection and never answers.
ScriptsEnd == \A t \in Terminals : []<>At(t, "idle") \/ <>[]Hangs(t)
==============================================================================
