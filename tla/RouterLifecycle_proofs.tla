------------------------ MODULE RouterLifecycle_proofs ------------------------
(***************************************************************************)
(* Proofs about RouterLifecycle, for any pids and any number of attempts,  *)
(* mostly while scripts run one at a time (OneAtATime).                    *)
(***************************************************************************)
EXTENDS RouterLifecycle, FiniteSetTheorems, TLAPS

LEMMA TypeInit == Init => TypeOK
BY LifecycleConstants DEF Init, TypeOK, ProcState, Script, ScriptRecord, Places, Idle, Endings

\* The places where a script need not know a process.
Elsewhere == Places \ {"truncate", "write"}

\* The auxiliary steps of a script keep its type.
LEMMA ScriptSteps ==
  ASSUME TypeOK, NEW t \in Terminals
  PROVE  /\ \A w \in Elsewhere : Goto(t, w) => script' \in [Terminals -> Script]
         /\ \A w \in Elsewhere : Read(t, w) /\ pidfile # NoFile =>
              script' \in [Terminals -> Script]
         /\ \A h \in Endings : End(t, h) =>
              /\ script' \in [Terminals -> Script]
              /\ last' \in Endings
         /\ \A w \in Elsewhere : Retry(t, w) =>
              /\ script' \in [Terminals -> Script]
              /\ last' \in Endings
<1>1. Idle \in Script
  BY LifecycleConstants DEF Idle, Script, ScriptRecord, Places
<1>2. script[t].tries \in 0..(Attempts - 1)
  BY DEF TypeOK, Script, ScriptRecord
<1>3. script[t].tries + 1 < Attempts => script[t].tries + 1 \in 0..(Attempts - 1)
  BY <1>2, LifecycleConstants
<1>4. "failed" \in Endings
  BY DEF Endings
<1> QED BY <1>1, <1>3, <1>4 DEF TypeOK, Goto, Read, End, Retry, Script, ScriptRecord, Elsewhere

LEMMA TypeStep == TypeOK /\ [Next]_vars => TypeOK'
<1> SUFFICES ASSUME TypeOK, [Next]_vars PROVE TypeOK'
  OBVIOUS
<1>1. ASSUME NEW t \in Terminals, ComposeUp(t) \/ BeginStop(t) PROVE TypeOK'
  BY <1>1, ScriptSteps DEF ComposeUp, BeginStop, TypeOK, Places, Elsewhere
<1>2. ASSUME NEW t \in Terminals, Start(t) PROVE TypeOK'
  <2>1. CASE CheckPidFile(t)
    BY <2>1, ScriptSteps DEF CheckPidFile, TypeOK, Places, Elsewhere
  <2>2. CASE Reuses(t) \/ FindsStale(t)
    BY <2>2, ScriptSteps DEF Reuses, FindsStale, TypeOK, Places, Elsewhere
  <2>3. CASE RefusesToStart(t)
    BY <2>3, ScriptSteps DEF RefusesToStart, TypeOK, Endings
  <2>4. CASE RemoveStale(t)
    BY <2>4, ScriptSteps DEF RemoveStale, TypeOK, Places, Elsewhere
  <2>5. ASSUME NEW p \in Pids, Spawn(t, p) PROVE TypeOK'
    <3>1. script[t] \in ScriptRecord /\ p \in Pids
      BY DEF TypeOK, Script
    <3>2. PICK e : e = [script[t] EXCEPT !.at = "truncate", !.pid = p]
      OBVIOUS
    <3>3. e \in ScriptRecord /\ e.pid \in Pids
      BY <3>1, <3>2 DEF ScriptRecord, Places
    <3>4. e \in Script
      BY <3>3 DEF Script
    <3>5. script' = [script EXCEPT ![t] = e]
      BY <2>5, <3>2 DEF Spawn
    <3>6. script' \in [Terminals -> Script]
      BY <3>4, <3>5 DEF TypeOK
    <3>7. proc' \in [Pids -> ProcState]
      BY <2>5 DEF Spawn, TypeOK, ProcState
    <3> QED BY <2>5, <3>6, <3>7 DEF Spawn, TypeOK
  <2>6. CASE Truncate(t)
    BY <2>6 DEF Truncate, Goto, At, TypeOK, Script, ScriptRecord, Places
  <2>7. CASE WritePid(t)
    <3>1. script[t].pid \in Pids
      BY <2>7 DEF WritePid, At, TypeOK, Script
    <3> QED BY <2>7, <3>1, ScriptSteps DEF WritePid, TypeOK, Places, Elsewhere
  <2>8. CASE WaitForVllm(t)
    <3>1. 0 \in 0..(Attempts - 1)
      BY LifecycleConstants
    <3>2. CASE script' = [script EXCEPT ![t].at = "probe", ![t].tries = 0] /\ UNCHANGED last
      <4>1. script[t] \in ScriptRecord
        BY DEF TypeOK, Script
      <4>2. PICK e : e = [script[t] EXCEPT !.at = "probe", !.tries = 0]
        OBVIOUS
      <4>3. e \in ScriptRecord /\ e.at = "probe"
        BY <3>1, <4>1, <4>2 DEF ScriptRecord, Places
      <4>4. e \in Script
        BY <4>3 DEF Script
      <4>5. script' = [script EXCEPT ![t] = e]
        BY <3>2, <4>2
      <4>6. script' \in [Terminals -> Script] /\ last' = last
        BY <3>2, <4>4, <4>5 DEF TypeOK
      <4> QED BY <2>8, <4>6 DEF WaitForVllm, TypeOK
    <3>3. CASE Retry(t, "wait_vllm")
      BY <2>8, <3>3, ScriptSteps DEF WaitForVllm, TypeOK, Places, Elsewhere
    <3> QED BY <2>8, <3>2, <3>3 DEF WaitForVllm
  <2>9. CASE ProbeSucceeds(t)
    BY <2>9, ScriptSteps DEF ProbeSucceeds, TypeOK, Endings
  <2>10. CASE ProbeFails(t)
    BY <2>10, ScriptSteps DEF ProbeFails, TypeOK, Places, Elsewhere
  <2>11. CASE ExaminePidFile(t)
    BY <2>11, ScriptSteps DEF ExaminePidFile, TypeOK, Places, Elsewhere, Endings
  <2> QED BY <1>2, <2>1, <2>2, <2>3, <2>4, <2>5, <2>6, <2>7, <2>8, <2>9, <2>10, <2>11
          DEF Start
<1>3. ASSUME NEW t \in Terminals, Stop(t) PROVE TypeOK'
  <2>1. CASE StopChecksPidFile(t)
    BY <2>1, ScriptSteps DEF StopChecksPidFile, TypeOK, Places, Elsewhere
  <2>2. CASE StopInspects(t)
    BY <2>2, ScriptSteps DEF StopInspects, TypeOK, Places, Elsewhere
  <2>3. CASE Kill(t)
    BY <2>3, ScriptSteps DEF Kill, TypeOK, Places, Elsewhere, Endings, ProcState
  <2>4. CASE StopRemoves(t)
    BY <2>4, ScriptSteps DEF StopRemoves, TypeOK, Places, Elsewhere
  <2>5. CASE ComposeDown(t)
    BY <2>5, ScriptSteps DEF ComposeDown, TypeOK, Endings
  <2> QED BY <1>3, <2>1, <2>2, <2>3, <2>4, <2>5 DEF Stop
<1>4. ASSUME NEW t \in Terminals, Interrupt(t) PROVE TypeOK'
  BY <1>4, ScriptSteps DEF Interrupt, TypeOK, Endings
<1>5. ASSUME NEW p \in Pids, Process(p) PROVE TypeOK'
  <2>1. CASE Bind(p)
    BY <2>1 DEF Bind, TypeOK
  <2>2. CASE Ends(p)
    BY <2>2 DEF Ends, Become, TypeOK, ProcState
  <2>3. ASSUME NEW what \in {"byhand"} \cup Foreign, StartsElsewhere(p, what)
        PROVE  TypeOK'
    BY <2>3 DEF StartsElsewhere, Become, TypeOK, ProcState, Foreign
  <2> QED
    BY <1>5, <2>1, <2>2, <2>3 DEF Process, BindFails, Crash, Dies, OtherExits
<1>6. CASE VllmComesUp \/ VllmCrashes
  BY <1>6 DEF VllmComesUp, VllmCrashes, TypeOK
<1>7. CASE UNCHANGED vars
  BY <1>7 DEF vars, TypeOK
<1> QED BY <1>1, <1>2, <1>3, <1>4, <1>5, <1>6, <1>7 DEF Next

\* Pid file, processes and scripts keep their types, also while scripts overlap
\* and are interrupted.
THEOREM TypeCorrect == Spec => []TypeOK
<1> QED BY TypeInit, TypeStep, PTL DEF Spec

------------------------------------------------------------------------------
LEMMA InvInit == Init => IInv
BY TypeInit DEF Init, IInv, ScriptInv, Live, At, Idle

\* A step of a process is no start of a router by a script.
LEMMA ProcessStep ==
  ASSUME NEW p \in Pids, Process(p), TypeOK
  PROVE  Live' \subseteq Live /\ UNCHANGED <<pidfile, vllm, script, last>>
<1>1. CASE Bind(p)
  BY <1>1 DEF Bind, Live
<1>2. CASE Ends(p)
  BY <1>2 DEF Ends, Become, Live, TypeOK
<1>3. ASSUME NEW what \in {"byhand"} \cup Foreign, StartsElsewhere(p, what)
      PROVE  Live' \subseteq Live /\ UNCHANGED <<pidfile, vllm, script, last>>
  BY <1>3 DEF StartsElsewhere, Become, Live, TypeOK, Foreign
<1> QED
  BY <1>1, <1>2, <1>3 DEF Process, BindFails, Crash, Dies, OtherExits

\* A step of the only script, in turn for each of its commands.
LEMMA ScriptStep ==
  ASSUME OneAtATime, IInv, NEW t \in Terminals,
         \/ ComposeUp(t) \/ BeginStop(t) \/ Start(t) \/ Stop(t) \/ Interrupt(t)
  PROVE  ScriptInv(t)'
<1> USE DEF IInv, ScriptInv, At
<1>0. TypeOK /\ ScriptInv(t)
  OBVIOUS
<1>d. script[t] \in ScriptRecord /\ script \in [Terminals -> Script]
  BY <1>0 DEF TypeOK, Script
<1>a. \A w : Goto(t, w) => script'[t].at = w /\ script'[t].pid = script[t].pid
  BY <1>d DEF Goto, ScriptRecord
<1>b. \A h : End(t, h) => script'[t].at = "idle" /\ last' = h
  BY <1>0 DEF End, Idle, TypeOK
<1>c. \A w : Read(t, w) => script'[t].at = w /\ script'[t].pid = pidfile
  BY <1>0 DEF Read, TypeOK, Script, ScriptRecord
<1>e. \A w : Retry(t, w) =>
        \/ script'[t].at = w
        \/ script'[t].at = "idle" /\ last' = "failed"
  BY <1>0, <1>b, <1>d DEF Retry, TypeOK, ScriptRecord
<1>f. proc' = proc => Live' = Live
  BY DEF Live
<1>1. CASE ComposeUp(t) \/ BeginStop(t)
  BY <1>1, <1>0, <1>a, <1>f DEF ComposeUp, BeginStop
<1>2. CASE CheckPidFile(t)
  <2>1. Live \subseteq {pidfile}
    BY <1>2, <1>0 DEF CheckPidFile
  <2>2. CASE pidfile = NoFile
    <3>1. Live = {}
      BY <2>1, <2>2, LifecycleConstants DEF Live
    <3> QED BY <1>2, <2>1, <2>2, <3>1, <1>a, <1>f DEF CheckPidFile
  <2>3. CASE pidfile # NoFile
    BY <1>2, <2>1, <2>3, <1>c, <1>f DEF CheckPidFile
  <2> QED BY <2>2, <2>3
<1>3. CASE Reuses(t)
  BY <1>3, <1>0, <1>a, <1>f DEF Reuses
<1>4. CASE RefusesToStart(t)
  BY <1>4, <1>0, <1>b, <1>f DEF RefusesToStart
<1>5. CASE FindsStale(t)
  <2>1. Live = {}
    BY <1>5, <1>0 DEF FindsStale, Runs, Live
  <2> QED BY <1>5, <2>1, <1>a, <1>f DEF FindsStale
<1>6. CASE RemoveStale(t)
  BY <1>6, <1>0, <1>a, <1>f DEF RemoveStale
<1>7. ASSUME NEW p \in Pids, Spawn(t, p) PROVE ScriptInv(t)'
  <2>1. Live = {}
    BY <1>7, <1>0 DEF Spawn
  <2>2. Live' \subseteq {p}
    BY <1>7, <2>1, <1>0 DEF Spawn, Live, TypeOK
  <2>3. script'[t].at = "truncate" /\ script'[t].pid = p
    BY <1>7, <1>0 DEF Spawn, TypeOK
  <2> QED BY <2>2, <2>3
<1>8. CASE Truncate(t)
  BY <1>8, <1>0, <1>a, <1>f DEF Truncate
<1>9. CASE WritePid(t)
  BY <1>9, <1>0, <1>a, <1>f DEF WritePid
<1>10. CASE WaitForVllm(t)
  <2>1. Live' = Live /\ Live \subseteq {pidfile} /\ pidfile' = pidfile
    BY <1>10, <1>0, <1>f DEF WaitForVllm
  <2>2. \/ script'[t].at \in {"wait_vllm", "probe"}
        \/ script'[t].at = "idle" /\ last' = "failed"
    BY <1>10, <1>0, <1>d, <1>e DEF WaitForVllm, TypeOK, ScriptRecord
  <2> QED BY <2>1, <2>2
<1>11. CASE ProbeSucceeds(t)
  BY <1>11, <1>0, <1>b, <1>f DEF ProbeSucceeds
<1>12. CASE ProbeFails(t)
  BY <1>12, <1>0, <1>a, <1>f DEF ProbeFails
<1>13. CASE ExaminePidFile(t)
  <2>1. Live' = Live /\ Live \subseteq {pidfile} /\ pidfile' = pidfile
    BY <1>13, <1>0, <1>f DEF ExaminePidFile
  <2>2. \/ script'[t].at = "probe"
        \/ script'[t].at = "idle" /\ last' = "failed"
    BY <1>13, <1>b, <1>e DEF ExaminePidFile
  <2> QED BY <2>1, <2>2
<1>14. CASE StopChecksPidFile(t)
  <2>1. Live \subseteq {pidfile}
    BY <1>14, <1>0 DEF StopChecksPidFile
  <2>2. CASE pidfile = NoFile
    <3>1. Live = {}
      BY <2>1, <2>2, LifecycleConstants DEF Live
    <3> QED BY <1>14, <2>1, <2>2, <3>1, <1>a, <1>f
            DEF StopChecksPidFile
  <2>3. CASE pidfile # NoFile
    BY <1>14, <2>1, <2>3, <1>c, <1>f DEF StopChecksPidFile
  <2> QED BY <2>2, <2>3
<1>15. CASE StopInspects(t)
  <2>1. Live' = Live /\ Live \subseteq {pidfile} /\ pidfile' = pidfile
    BY <1>15, <1>0, <1>f DEF StopInspects
  <2>2. CASE IsRouter(script[t].pid)
    BY <1>15, <1>0, <2>1, <2>2, <1>a, <1>f DEF StopInspects
  <2>3. CASE ~IsRouter(script[t].pid)
    <3>1. Live = {}
      BY <1>15, <1>0, <2>3 DEF StopInspects, IsRouter, Live
    <3> QED BY <1>15, <2>1, <2>3, <3>1, <1>a, <1>f DEF StopInspects
  <2> QED BY <2>2, <2>3
<1>16. CASE Kill(t)
  <2>1. Live \subseteq {script[t].pid} /\ script[t].pid = pidfile
    BY <1>16, <1>0 DEF Kill
  <2>2. CASE Runs(script[t].pid)
    <3>1. Live' = {}
      BY <1>16, <1>0, <2>1, <2>2 DEF Kill, Runs, Live, TypeOK
    <3> QED BY <1>16, <2>2, <3>1, <1>a, <1>f DEF Kill
  <2>3. CASE ~Runs(script[t].pid)
    BY <1>16, <2>1, <2>3, <1>b, <1>f DEF Kill
  <2> QED BY <2>2, <2>3
<1>17. CASE StopRemoves(t)
  BY <1>17, <1>0, <1>a, <1>f DEF StopRemoves
<1>18. CASE ComposeDown(t)
  BY <1>18, <1>0, <1>b, <1>f DEF ComposeDown
<1>19. CASE Interrupt(t)
  BY <1>19, <1>0, <1>b, <1>f DEF Interrupt, OneAtATime
<1> QED BY <1>1, <1>2, <1>3, <1>4, <1>5, <1>6, <1>7, <1>8, <1>9, <1>10, <1>11, <1>12,
           <1>13, <1>14, <1>15, <1>16, <1>17, <1>18, <1>19 DEF Start, Stop

LEMMA InvStep ==
  ASSUME OneAtATime, IInv, [Next]_vars
  PROVE  IInv'
<1>0. TypeOK /\ TypeOK'
  BY TypeStep DEF IInv
<1>1. ASSUME NEW t \in Terminals,
             ComposeUp(t) \/ BeginStop(t) \/ Start(t) \/ Stop(t) \/ Interrupt(t)
      PROVE  IInv'
  <2>1. ScriptInv(t)'
    BY <1>0, <1>1, ScriptStep DEF IInv
  <2>2. \A u \in Terminals : u = t
    BY DEF OneAtATime
  <2> QED BY <1>0, <2>1, <2>2 DEF IInv
<1>2. ASSUME Live' \subseteq Live, UNCHANGED <<pidfile, script, last>>
      PROVE  IInv'
  BY <1>0, <1>2 DEF IInv, ScriptInv, At
<1>3. ASSUME NEW p \in Pids, Process(p) PROVE IInv'
  BY <1>0, <1>2, <1>3, ProcessStep
<1>4. CASE VllmComesUp \/ VllmCrashes \/ UNCHANGED vars
  BY <1>2, <1>4 DEF VllmComesUp, VllmCrashes, vars, Live
<1> QED BY <1>1, <1>3, <1>4 DEF Next

\* The place of the script tells whether a router can run, and which.
THEOREM Inductive == ASSUME OneAtATime PROVE Spec => []IInv
<1> QED BY InvInit, InvStep, PTL DEF Spec

\* There is never a second router of start.sh's, and one that runs between two scripts
\* is the one stop.sh will find in the pid file.
THEOREM RouterIsNamed == ASSUME OneAtATime PROVE Spec => []OneNamedRouter
<1>1. IInv => OneNamedRouter
  <2> SUFFICES ASSUME IInv PROVE OneNamedRouter
    OBVIOUS
  <2>1. \E x : Live \subseteq {x}
    BY DEF IInv, ScriptInv
  <2>2. PICK x : Live \subseteq {x}
    BY <2>1
  <2>3. Live = {} \/ Live = {x}
    BY <2>2
  <2>4. Cardinality(Live) <= 1
    <3>1. Cardinality({}) = 0 /\ Cardinality({x}) = 1
      BY FS_EmptySet, FS_Singleton
    <3> QED BY ONLY <2>3, <3>1
  <2>5. ASSUME Quiet PROVE Live \subseteq {pidfile}
    BY <2>5 DEF Quiet, IInv, ScriptInv, At
  <2> QED BY <2>4, <2>5 DEF OneNamedRouter, SecondStartIsBlocked, PidIsStable
<1> QED BY <1>1, Inductive, PTL

\* After stop.sh no router is left and the pid file is gone.
THEOREM StopIsFinal == ASSUME OneAtATime PROVE Spec => []StoppedMeansStopped
<1>1. IInv => StoppedMeansStopped
  BY DEF IInv, ScriptInv, StoppedMeansStopped, Quiet
<1> QED BY <1>1, Inductive, PTL

------------------------------------------------------------------------------
(* No script signals another program, whatever overlaps.                   *)

\* A script about to send a signal has seen a router, and its pid is not reused
\* just then.
Examined(t) == At(t, "kill") => \A p \in Pids : p = script[t].pid => proc[p] \notin Foreign

KillInv == TypeOK /\ \A t \in Terminals : Examined(t)

\* Another program gets a pid only by StartsElsewhere.
LEMMA NewProgram ==
  ASSUME TypeOK, [Next]_vars, NEW p \in Pids, proc'[p] \in Foreign
  PROVE  proc[p] \in Foreign \/ (UNCHANGED script /\ ~Targeted(p))
<1> USE DEF TypeOK, Foreign
<1>1. ASSUME NEW t \in Terminals, Start(t) PROVE proc[p] \in Foreign
  BY <1>1 DEF Start, CheckPidFile, Reuses, RefusesToStart, FindsStale, RemoveStale, Spawn,
     Truncate, WritePid, WaitForVllm, ProbeSucceeds, ProbeFails, ExaminePidFile
<1>2. ASSUME NEW t \in Terminals, Stop(t) PROVE proc[p] \in Foreign
  BY <1>2 DEF Stop, StopChecksPidFile, StopInspects, Kill, StopRemoves, ComposeDown
<1>3. ASSUME NEW t \in Terminals, ComposeUp(t) \/ BeginStop(t) \/ Interrupt(t)
      PROVE  proc[p] \in Foreign
  BY <1>3 DEF ComposeUp, BeginStop, Interrupt
<1>4. ASSUME NEW q \in Pids, Process(q)
      PROVE  proc[p] \in Foreign \/ (UNCHANGED script /\ ~Targeted(p))
  BY <1>4 DEF Process, Bind, BindFails, Crash, Dies, OtherExits, StartsElsewhere, Ends,
     Become
<1>5. CASE VllmComesUp \/ VllmCrashes \/ UNCHANGED vars
  BY <1>5 DEF VllmComesUp, VllmCrashes, vars
<1> QED BY <1>1, <1>2, <1>3, <1>4, <1>5 DEF Next

\* A script comes to Kill only from StopInspects.
LEMMA ReachesKill ==
  ASSUME TypeOK, [Next]_vars, NEW t \in Terminals, At(t, "kill")'
  PROVE  \/ At(t, "kill") /\ script'[t] = script[t]
         \/ IsRouter(script[t].pid) /\ script'[t].pid = script[t].pid /\ proc' = proc
<1> USE DEF TypeOK, At
<1>0. script[t] \in ScriptRecord /\ script \in [Terminals -> Script]
  BY DEF Script
<1>1. ASSUME NEW u \in Terminals, u # t,
             ComposeUp(u) \/ BeginStop(u) \/ Start(u) \/ Stop(u) \/ Interrupt(u)
      PROVE  script'[t] = script[t]
  <2>1. CASE ComposeUp(u) \/ BeginStop(u) \/ Interrupt(u)
    BY <1>1, <2>1 DEF ComposeUp, BeginStop, Interrupt, Goto, End
  <2>2. CASE Start(u)
    BY <1>1, <2>2 DEF Start, CheckPidFile, Reuses, RefusesToStart, FindsStale,
       RemoveStale, Spawn, Truncate, WritePid, WaitForVllm, ProbeSucceeds, ProbeFails,
       ExaminePidFile, Goto, End, Read, Retry
  <2>3. CASE Stop(u)
    BY <1>1, <2>3 DEF Stop, StopChecksPidFile, StopInspects, Kill, StopRemoves,
       ComposeDown, Goto, End, Read
  <2> QED BY <1>1, <2>1, <2>2, <2>3
<1>2. CASE ComposeUp(t) \/ BeginStop(t) \/ Interrupt(t)
  BY <1>0, <1>2 DEF ComposeUp, BeginStop, Interrupt, Goto, End, Idle, ScriptRecord
<1>3. CASE Start(t)
  BY <1>0, <1>3 DEF Start, CheckPidFile, Reuses, RefusesToStart, FindsStale, RemoveStale,
     Spawn, Truncate, WritePid, WaitForVllm, ProbeSucceeds, ProbeFails, ExaminePidFile,
     Goto, End, Idle, Read, Retry, ScriptRecord
<1>4. CASE Stop(t)
  BY <1>0, <1>4 DEF Stop, StopChecksPidFile, StopInspects, Kill, StopRemoves, ComposeDown,
     Goto, End, Idle, Read, ScriptRecord
<1>5. CASE UNCHANGED script
  BY <1>5
<1>6. ASSUME NEW p \in Pids, Process(p) PROVE UNCHANGED script
  BY <1>6 DEF Process, Bind, BindFails, Crash, Dies, OtherExits, StartsElsewhere, Ends,
     Become
<1> QED BY <1>1, <1>2, <1>3, <1>4, <1>5, <1>6 DEF Next, VllmComesUp, VllmCrashes, vars

LEMMA KillStep == KillInv /\ [Next]_vars => KillInv'
<1> SUFFICES ASSUME KillInv, [Next]_vars PROVE KillInv'
  OBVIOUS
<1>1. TypeOK /\ TypeOK'
  BY TypeStep DEF KillInv
<1>2. ASSUME NEW t \in Terminals, At(t, "kill")', NEW p \in Pids, p = script'[t].pid
      PROVE  proc'[p] \notin Foreign
  <2> SUFFICES ASSUME proc'[p] \in Foreign PROVE FALSE
    OBVIOUS
  <2>1. proc[p] \in Foreign \/ (UNCHANGED script /\ ~Targeted(p))
    BY <1>1, NewProgram
  <2>2. \/ At(t, "kill") /\ script'[t] = script[t]
        \/ IsRouter(script[t].pid) /\ script'[t].pid = script[t].pid /\ proc' = proc
    BY <1>1, <1>2, ReachesKill
  <2>3. CASE At(t, "kill") /\ script'[t] = script[t]
    BY <1>2, <2>1, <2>3 DEF KillInv, Examined, Targeted, At
  <2>4. CASE IsRouter(script[t].pid) /\ script'[t].pid = script[t].pid /\ proc' = proc
    BY <1>2, <2>4 DEF IsRouter, Foreign
  <2> QED BY <2>2, <2>3, <2>4
<1> QED BY <1>1, <1>2 DEF KillInv, Examined

\* However scripts overlap, crash into each other's work and are interrupted, and
\* whoever gets the pids of dead routers: no other program is ever signalled.
THEOREM OthersAreSpared == Spec => SparesOthers
<1>1. Init => KillInv
  BY TypeInit DEF Init, KillInv, Examined, At, Idle
<1>2. ASSUME KillInv, [Next]_vars, NEW p \in Pids, proc[p] \in Foreign
      PROVE  proc'[p] # "dying"
  <2> USE <1>2 DEF KillInv, TypeOK, Foreign
  <2>1. ASSUME NEW t \in Terminals, Kill(t) PROVE proc'[p] # "dying"
    BY <2>1 DEF Kill, Examined, At
  <2>2. ASSUME NEW t \in Terminals, ComposeUp(t) \/ BeginStop(t) \/ Interrupt(t) \/ Start(t)
        PROVE  proc'[p] # "dying"
    BY <2>2 DEF ComposeUp, BeginStop, Interrupt, Start, CheckPidFile, Reuses,
       RefusesToStart, FindsStale, RemoveStale, Spawn, Truncate, WritePid, WaitForVllm,
       ProbeSucceeds, ProbeFails, ExaminePidFile
  <2>3. ASSUME NEW t \in Terminals,
               StopChecksPidFile(t) \/ StopInspects(t) \/ StopRemoves(t) \/ ComposeDown(t)
        PROVE  proc'[p] # "dying"
    BY <2>3 DEF StopChecksPidFile, StopInspects, StopRemoves, ComposeDown
  <2>4. ASSUME NEW q \in Pids, Process(q) PROVE proc'[p] # "dying"
    BY <2>4 DEF Process, Bind, BindFails, Crash, Dies, OtherExits, StartsElsewhere, Ends,
       Become
  <2>5. CASE VllmComesUp \/ VllmCrashes \/ UNCHANGED vars
    BY <2>5 DEF VllmComesUp, VllmCrashes, vars
  <2> QED BY <2>1, <2>2, <2>3, <2>4, <2>5 DEF Next, Stop
<1>3. KillInv /\ [Next]_vars =>
        [\A p \in Pids : proc[p] \in Foreign => proc'[p] # "dying"]_vars
  BY <1>2
<1> QED BY <1>1, <1>3, KillStep, PTL DEF Spec, SparesOthers

------------------------------------------------------------------------------
(* The commands of a script are finite, however scripts overlap.           *)

\* The commands a script at place s.at can still run: two for every probe of
\* /healthz that is left, one for every look at vLLM.
ScriptLeft(s) ==
  LET left == Attempts - s.tries
  IN  [idle |-> 0,
       down |-> 1, stop_remove |-> 2, kill |-> 3, stop_inspect |-> 4, stop_check |-> 5,
       examine |-> 2 * left - 1, probe |-> 2 * left, wait_vllm |-> 2 * Attempts + left,
       write |-> 3 * Attempts + 1, truncate |-> 3 * Attempts + 2,
       spawn |-> 3 * Attempts + 3, remove |-> 3 * Attempts + 4,
       inspect |-> 3 * Attempts + 5, check |-> 3 * Attempts + 6][s.at]

\* A command of a script leaves it fewer to run; nobody else moves a script.
ScriptsShrink ==
  [][\A t \in Terminals :
       ~At(t, "idle") =>
         IF Start(t) \/ Stop(t) \/ Interrupt(t)
         THEN ScriptLeft(script'[t]) < ScriptLeft(script[t])
         ELSE script'[t] = script[t]]_vars

\* What is left at place p after b of a attempts.
LeftAt(p, a, b, v) ==
  /\ p = "idle" => v = 0
  /\ p = "down" => v = 1
  /\ p = "stop_remove" => v = 2
  /\ p = "kill" => v = 3
  /\ p = "stop_inspect" => v = 4
  /\ p = "stop_check" => v = 5
  /\ p = "examine" => v = 2 * (a - b) - 1
  /\ p = "probe" => v = 2 * (a - b)
  /\ p = "wait_vllm" => v = 2 * a + (a - b)
  /\ p = "write" => v = 3 * a + 1
  /\ p = "truncate" => v = 3 * a + 2
  /\ p = "spawn" => v = 3 * a + 3
  /\ p = "remove" => v = 3 * a + 4
  /\ p = "inspect" => v = 3 * a + 5
  /\ p = "check" => v = 3 * a + 6

LEMMA ScriptLeftIs == \A s : LeftAt(s.at, Attempts, s.tries, ScriptLeft(s))
BY DEF ScriptLeft, LeftAt

\* At most three commands for every attempt, and six; none once it has ended.
LEMMA ScriptBounded ==
  ASSUME NEW s \in ScriptRecord
  PROVE  /\ ScriptLeft(s) \in 0 .. (3 * Attempts + 6)
         /\ s.at # "idle" => ScriptLeft(s) # 0
<1>1. PICK a, b, v : a = Attempts /\ b = s.tries /\ v = ScriptLeft(s)
  OBVIOUS
<1>2. a \in Nat \ {0} /\ b \in 0 .. (a - 1)
  BY <1>1, LifecycleConstants DEF ScriptRecord
<1>3. s.at \in Places
  BY DEF ScriptRecord
<1>4. CASE s.at = "idle"
  BY <1>1, <1>2, <1>4, ScriptLeftIs DEF LeftAt
<1>5. CASE s.at # "idle"
  <2>0. LeftAt(s.at, a, b, v)
    BY <1>1, ScriptLeftIs
  <2>1. \/ v \in 1 .. 5
        \/ v = 2 * (a - b) - 1 \/ v = 2 * (a - b) \/ v = 2 * a + (a - b)
        \/ \E c \in 1 .. 6 : v = 3 * a + c
    BY <1>3, <1>5, <2>0 DEF Places, LeftAt
  <2>2. v \in 1 .. (3 * a + 6)
    BY ONLY <1>2, <2>1
  <2> QED
    BY <1>1, <1>2, <2>2
<1> QED
  BY <1>4, <1>5

\* A command leaves the script fewer commands to run.
LEMMA ScriptShrinks ==
  ASSUME TypeOK, NEW t \in Terminals, Start(t) \/ Stop(t) \/ Interrupt(t)
  PROVE  ~At(t, "idle") /\ ScriptLeft(script'[t]) < ScriptLeft(script[t])
<1> USE DEF At
<1>1. PICK s : s = script[t]
  OBVIOUS
<1>2. PICK k : k = script'[t]
  OBVIOUS
<1>3. PICK a, b, e : a = Attempts /\ b = s.tries /\ e = k.tries
  OBVIOUS
<1>4. /\ s \in ScriptRecord /\ script \in [Terminals -> Script]
      /\ a \in Nat \ {0} /\ b \in 0 .. (a - 1)
  BY <1>1, <1>3, LifecycleConstants DEF TypeOK, Script, ScriptRecord
<1>5. \A w : Goto(t, w) => k.at = w /\ e = b
  BY <1>1, <1>2, <1>3, <1>4 DEF Goto, ScriptRecord
<1>6. \A h : End(t, h) => k.at = "idle"
  BY <1>1, <1>2, <1>4 DEF End, Idle
<1>7. \A w : Read(t, w) => k.at = w /\ e = b
  BY <1>1, <1>2, <1>3, <1>4 DEF Read, ScriptRecord
<1>8. \A w : Retry(t, w) => k.at = "idle" \/ (k.at = w /\ e = b + 1)
  BY <1>1, <1>2, <1>3, <1>4, <1>6 DEF Retry, ScriptRecord
<1> DEFINE On(p, q) == s.at = p /\ k.at = q /\ e = b
           Again(p, q) == s.at = p /\ k.at = q /\ e = b + 1
           IsOver == s.at \in Places \ {"idle"} /\ k.at = "idle"
           Moves == \/ IsOver
                    \/ On("check", "inspect") \/ On("check", "spawn")
                    \/ On("inspect", "wait_vllm") \/ On("inspect", "remove")
                    \/ On("remove", "spawn") \/ On("spawn", "truncate")
                    \/ On("truncate", "write") \/ On("write", "wait_vllm")
                    \/ s.at = "wait_vllm" /\ k.at = "probe" /\ e = 0
                    \/ Again("wait_vllm", "wait_vllm")
                    \/ On("probe", "examine") \/ Again("examine", "probe")
                    \/ On("stop_check", "stop_inspect") \/ On("stop_check", "down")
                    \/ On("stop_inspect", "kill") \/ On("stop_inspect", "stop_remove")
                    \/ On("kill", "stop_remove") \/ On("stop_remove", "down")
<1>9. ASSUME Start(t) PROVE Moves
  <2>1. CASE CheckPidFile(t)
    BY <1>1, <1>5, <1>7, <2>1 DEF CheckPidFile
  <2>2. CASE Reuses(t) \/ FindsStale(t)
    BY <1>1, <1>5, <2>2 DEF Reuses, FindsStale
  <2>3. CASE RefusesToStart(t)
    BY <1>1, <1>6, <2>3 DEF RefusesToStart, Places
  <2>4. CASE RemoveStale(t) \/ Truncate(t) \/ WritePid(t) \/ ProbeFails(t)
    BY <1>1, <1>5, <2>4 DEF RemoveStale, Truncate, WritePid, ProbeFails
  <2>5. ASSUME NEW p \in Pids, Spawn(t, p) PROVE Moves
    BY <1>1, <1>2, <1>3, <1>4, <2>5 DEF Spawn, ScriptRecord
  <2>6. CASE WaitForVllm(t)
    <3>1. CASE script' = [script EXCEPT ![t].at = "probe", ![t].tries = 0]
      BY <1>1, <1>2, <1>3, <1>4, <2>6, <3>1 DEF WaitForVllm, ScriptRecord
    <3>2. CASE Retry(t, "wait_vllm")
      BY <1>1, <1>8, <2>6, <3>2 DEF WaitForVllm, Places
    <3> QED
      BY <2>6, <3>1, <3>2 DEF WaitForVllm
  <2>7. CASE ProbeSucceeds(t)
    BY <1>1, <1>6, <2>7 DEF ProbeSucceeds, Places
  <2>8. CASE ExaminePidFile(t)
    BY <1>1, <1>6, <1>8, <2>8 DEF ExaminePidFile, Places
  <2> HIDE DEF Moves
  <2> QED
    BY <1>9, <2>1, <2>2, <2>3, <2>4, <2>5, <2>6, <2>7, <2>8 DEF Start
<1>10. ASSUME Stop(t) PROVE Moves
  <2>1. CASE StopChecksPidFile(t)
    BY <1>1, <1>5, <1>7, <2>1 DEF StopChecksPidFile
  <2>2. CASE StopInspects(t) \/ StopRemoves(t)
    BY <1>1, <1>5, <2>2 DEF StopInspects, StopRemoves
  <2>3. CASE Kill(t)
    BY <1>1, <1>5, <1>6, <2>3 DEF Kill, Places
  <2>4. CASE ComposeDown(t)
    BY <1>1, <1>6, <2>4 DEF ComposeDown, Places
  <2> HIDE DEF Moves
  <2> QED
    BY <1>10, <2>1, <2>2, <2>3, <2>4 DEF Stop
<1>11. ASSUME Interrupt(t) PROVE Moves
  BY <1>1, <1>4, <1>6, <1>11 DEF Interrupt, ScriptRecord
<1>12. Moves
  <2> HIDE DEF Moves
  <2> QED
    BY <1>9, <1>10, <1>11
<1>13. s.at # "idle"
  BY <1>12
<1>14. PICK v, w : v = ScriptLeft(s) /\ w = ScriptLeft(k)
  OBVIOUS
<1>15. LeftAt(s.at, a, b, v) /\ LeftAt(k.at, a, e, w)
  BY <1>3, <1>14, ScriptLeftIs
<1>16. CASE IsOver
  <2>1. v \in 0 .. (3 * a + 6) /\ v # 0
    BY <1>1, <1>3, <1>4, <1>13, <1>14, ScriptBounded
  <2>2. w = 0
    BY <1>16, <1>15 DEF LeftAt
  <2>3. w < v
    BY ONLY <1>4, <2>1, <2>2
  <2> QED
    BY <1>1, <1>2, <1>13, <1>14, <2>3
<1>17. CASE ~IsOver
  <2>1. \/ v = 3 * a + 6 /\ w = 3 * a + 5
        \/ v = 3 * a + 6 /\ w = 3 * a + 3
        \/ v = 3 * a + 5 /\ w = 2 * a + (a - b)
        \/ v = 3 * a + 5 /\ w = 3 * a + 4
        \/ v = 3 * a + 4 /\ w = 3 * a + 3
        \/ v = 3 * a + 3 /\ w = 3 * a + 2
        \/ v = 3 * a + 2 /\ w = 3 * a + 1
        \/ v = 3 * a + 1 /\ w = 2 * a + (a - b)
        \/ v = 2 * a + (a - b) /\ w = 2 * (a - 0)
        \/ v = 2 * a + (a - b) /\ w = 2 * a + (a - (b + 1))
        \/ v = 2 * (a - b) /\ w = 2 * (a - b) - 1
        \/ v = 2 * (a - b) - 1 /\ w = 2 * (a - (b + 1))
        \/ v = 5 /\ w \in {4, 1}
        \/ v = 4 /\ w \in {3, 2}
        \/ v = 3 /\ w = 2
        \/ v = 2 /\ w = 1
    BY <1>12, <1>17, <1>15 DEF LeftAt
  <2>2. w < v
    BY ONLY <1>4, <2>1
  <2> QED
    BY <1>1, <1>2, <1>13, <1>14, <2>2
<1> QED
  BY <1>16, <1>17

\* A command of one script leaves the others where they are.
LEMMA OthersWait ==
  ASSUME NEW t \in Terminals, script \in [Terminals -> Script], Next,
         ~(Start(t) \/ Stop(t) \/ Interrupt(t)), ~At(t, "idle")
  PROVE  script'[t] = script[t]
<1>1. ASSUME NEW u \in Terminals, ComposeUp(u) \/ BeginStop(u) PROVE script'[t] = script[t]
  BY <1>1 DEF ComposeUp, BeginStop, Goto, At
<1>2. ASSUME NEW u \in Terminals, Start(u), u # t PROVE script'[t] = script[t]
  BY <1>2 DEF Start, CheckPidFile, Reuses, RefusesToStart, FindsStale, RemoveStale,
     Spawn, Truncate, WritePid, WaitForVllm, ProbeSucceeds, ProbeFails, ExaminePidFile,
     Goto, End, Read, Retry
<1>3. ASSUME NEW u \in Terminals, Stop(u) \/ Interrupt(u), u # t
      PROVE  script'[t] = script[t]
  BY <1>3 DEF Stop, StopChecksPidFile, StopInspects, Kill, StopRemoves, ComposeDown,
     Interrupt, Goto, End, Read
<1>4. ASSUME NEW p \in Pids, Process(p) PROVE script'[t] = script[t]
  BY <1>4 DEF Process, Bind, BindFails, Crash, Dies, OtherExits, StartsElsewhere, Ends,
     Become
<1>5. CASE VllmComesUp \/ VllmCrashes
  BY <1>5 DEF VllmComesUp, VllmCrashes
<1> QED
  BY <1>1, <1>2, <1>3, <1>4, <1>5 DEF Next

\* However scripts overlap and are interrupted, and whatever routers, other programs and
\* vLLM do: every command that returns brings a script nearer to its end, and a script
\* runs at most three commands for every attempt it is granted, and six.
THEOREM ScriptsAreFinite ==
  Spec => /\ ScriptsShrink
          /\ [](\A t \in Terminals : ScriptLeft(script[t]) \in 0 .. (3 * Attempts + 6))
<1>1. ASSUME TypeOK, Next, NEW t \in Terminals, ~At(t, "idle")
      PROVE  IF Start(t) \/ Stop(t) \/ Interrupt(t)
             THEN ScriptLeft(script'[t]) < ScriptLeft(script[t])
             ELSE script'[t] = script[t]
  <2>1. CASE Start(t) \/ Stop(t) \/ Interrupt(t)
    BY <1>1, <2>1, ScriptShrinks
  <2>2. CASE ~(Start(t) \/ Stop(t) \/ Interrupt(t))
    <3>1. script \in [Terminals -> Script]
      BY <1>1 DEF TypeOK
    <3>2. script'[t] = script[t]
      BY <1>1, <2>2, <3>1, OthersWait
    <3> QED
      BY <2>2, <3>2
  <2> QED
    BY <2>1, <2>2
<1>2. TypeOK /\ [Next]_vars =>
        [\A t \in Terminals :
           ~At(t, "idle") =>
             IF Start(t) \/ Stop(t) \/ Interrupt(t)
             THEN ScriptLeft(script'[t]) < ScriptLeft(script[t])
             ELSE script'[t] = script[t]]_vars
  BY <1>1
<1>3. ASSUME TypeOK, NEW t \in Terminals
      PROVE  ScriptLeft(script[t]) \in 0 .. (3 * Attempts + 6)
  BY <1>3, ScriptBounded DEF TypeOK, Script
<1>4. TypeOK => \A t \in Terminals : ScriptLeft(script[t]) \in 0 .. (3 * Attempts + 6)
  BY <1>3
<1> QED
  BY <1>2, <1>4, TypeCorrect, PTL DEF Spec, ScriptsShrink
==============================================================================
