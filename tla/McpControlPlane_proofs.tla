----------------------- MODULE McpControlPlane_proofs -----------------------
(***************************************************************************)
(* Proofs about McpControlPlane, for every set of servers, tools, names    *)
(* and threads.  Type correctness needs no hypothesis.  The other theorems *)
(* assume Serialised (no two threads administer the same server) and       *)
(* CollisionFree (tools are registered under names of their own).          *)
(*                                                                         *)
(* A step of thread t on server s reads and writes only what belongs to s  *)
(* (StepFrame).  So a step has to be examined for its own thread and its   *)
(* own server only; Frame carries the invariants of the others over.       *)
(*                                                                         *)
(* That requests come to an end (RequestsShrink) is proved at the end, and *)
(* without any of this, for requests that overlap and names that collide.  *)
(***************************************************************************)
EXTENDS McpControlPlane, FiniteSetTheorems, TLAPS

(***************************************************************************)
(* Type correctness.                                                       *)
(***************************************************************************)

LEMMA AnsweredType ==
  ASSUME NEW r \in Replies
  PROVE  Answered(r) \in Job
BY ConstantsOK DEF Answered, Job, JobRecord, Steps, Ops, NotInstalled, Installation, Status

LEMMA RequestedType ==
  ASSUME NEW o \in Ops, NEW s \in Servers, NEW w \in Steps \ {"idle"},
         NEW i \in Installation
  PROVE  Requested(o, s, w, i) \in Job
BY ConstantsOK DEF Requested, Job, JobRecord, Replies

LEMMA NotInstalledType == NotInstalled \in Installation
BY DEF NotInstalled, Installation, Status

LEMMA NamesOfType ==
  ASSUME NEW s \in Servers, NEW T \in SUBSET Tools
  PROVE  NamesOf(s, T) \in SUBSET Names
BY ConstantsOK DEF NamesOf

LEMMA TypeInit == Init => TypeOK
<1> SUFFICES ASSUME Init PROVE TypeOK
  OBVIOUS
<1>1. "none" \in Replies
  BY DEF Replies
<1> QED
  BY <1>1, AnsweredType, NotInstalledType, ConstantsOK DEF Init, TypeOK

LEMMA TypeStep ==
  ASSUME TypeOK, [Next]_vars
  PROVE  TypeOK'
<1> USE DEF TypeOK, Goto
<1>0. {"none", "ok", "refused", "not_found", "catalog_error",
       "registry_error"} = Replies
  BY DEF Replies
<1>1. CASE UNCHANGED vars
  BY <1>1 DEF vars
<1>2. ASSUME NEW t \in Threads, Request(t)
      PROVE  TypeOK'
  <2>1. CASE InstallRefused(t)
    BY <2>1, <1>0, AnsweredType DEF InstallRefused
  <2>2. ASSUME NEW s \in Servers, Install(t, s)
        PROVE  TypeOK'
    <3>1. Requested("install", s, "unpublish_read", NotInstalled) \in Job
      BY RequestedType, NotInstalledType DEF Ops, Steps
    <3> QED
      BY <2>2, <3>1 DEF Install
  <2>3. ASSUME NEW s \in Servers, UnknownServer(t, s)
        PROVE  TypeOK'
    BY <2>3, <1>0, AnsweredType DEF UnknownServer
  <2>4. ASSUME NEW s \in Servers, Enable(t, s)
        PROVE  TypeOK'
    <3>1. Requested("enable", s, "discover", installations[s]) \in Job
      BY RequestedType DEF Ops, Steps
    <3> QED
      BY <2>4, <3>1 DEF Enable
  <2>5. ASSUME NEW s \in Servers, Disable(t, s)
        PROVE  TypeOK'
    <3>1. Requested("disable", s, "unpublish_read", installations[s]) \in Job
      BY RequestedType DEF Ops, Steps
    <3> QED
      BY <2>5, <3>1 DEF Disable
  <2> QED
    BY <1>2, <2>1, <2>2, <2>3, <2>4, <2>5 DEF Request
<1>3. ASSUME NEW t \in Threads, Work(t)
      PROVE  TypeOK'
  <2>0. /\ job[t] \in Job
        /\ job[t].at # "idle" => job[t].server \in Servers
    BY DEF Job, JobRecord
  <2>1. CASE CatalogFails(t)
    BY <2>1, <1>0, AnsweredType DEF CatalogFails
  <2>2. ASSUME NEW T \in SUBSET Tools, Discover(t, T)
        PROVE  TypeOK'
    BY <2>2, <2>0 DEF Discover, Job, JobRecord, Ops, Steps
  <2>3. CASE StoreFailed(t)
    BY <2>3, <2>0 DEF StoreFailed, Job, JobRecord, Installation, Steps, Status
  <2>4. CASE UnpublishRead(t)
    BY <2>4, <2>0, ConstantsOK DEF UnpublishRead, Job, JobRecord, Installation, Steps
  <2>5. ASSUME NEW n \in Names, SkipName(t, n)
        PROVE  TypeOK'
    BY <2>5, <2>0 DEF SkipName, Job, JobRecord
  <2>6. ASSUME NEW n \in Names, FoundName(t, n)
        PROVE  TypeOK'
    BY <2>6, <2>0 DEF FoundName, Job, JobRecord, Steps
  <2>7. CASE UnregisterTest(t)
    <3>1. Answered("registry_error") \in Job
      BY <1>0, AnsweredType
    <3>2. [job[t] EXCEPT !.at = "delete"] \in Job
      BY <2>7, <2>0 DEF UnregisterTest, Job, JobRecord, Steps
    <3> QED
      BY <2>7, <3>1, <3>2 DEF UnregisterTest
  <2>8. CASE UnregisterDelete(t)
    <3>1. Answered(IF job[t].op = "install" THEN "registry_error"
                                            ELSE "not_found") \in Job
      BY <1>0, AnsweredType
    <3>2. [job[t] EXCEPT !.todo = @ \ {job[t].name}, !.name = None,
                         !.at = "unpublish"] \in Job
      BY <2>8, <2>0 DEF UnregisterDelete, Job, JobRecord, Steps
    <3>3. job' \in [Threads -> Job]
      BY <2>8, <3>1, <3>2 DEF UnregisterDelete
    <3> QED
      BY <2>8, <3>3 DEF UnregisterDelete
  <2>9. CASE UnpublishDone(t)
    <3>1. Answered("ok") \in Job
      BY <1>0, AnsweredType
    <3>2. [job[t] EXCEPT !.at = "store"] \in Job
      BY <2>9, <2>0 DEF UnpublishDone, Job, JobRecord, Steps
    <3> QED
      BY <2>9, <3>1, <3>2 DEF UnpublishDone
  <2>10. CASE StoreInstalled(t)
    BY <2>10, <1>0, AnsweredType DEF StoreInstalled, Installation, Status
  <2>11. CASE StoreDisabled(t)
    <3>1. [job[t].seen EXCEPT !.status = "disabled", !.enabled = FALSE,
                              !.published = {}] \in Installation
      BY <2>0 DEF Job, JobRecord, Installation, Status
    <3> QED
      BY <2>11, <3>1, <1>0, AnsweredType DEF StoreDisabled
  <2>12. CASE StoreReady(t)
    <3>1. job[t].server \in Servers => NamesOf(job[t].server, job[t].found) \in SUBSET Names
      BY <2>0, NamesOfType DEF Job, JobRecord
    <3>2. job[t].server \in Servers =>
            [job[t].seen EXCEPT !.status = "ready", !.enabled = TRUE,
                                !.published = NamesOf(job[t].server, job[t].found)]
              \in Installation
      BY <2>0, <3>1 DEF Job, JobRecord, Installation, Status
    <3>3. [job[t] EXCEPT !.at = "publish"] \in Job
      BY <2>12, <2>0 DEF StoreReady, Job, JobRecord, Steps
    <3>4. installations' \in [Servers -> Installation]
      BY <2>12, <3>2 DEF StoreReady
    <3> QED
      BY <2>12, <3>3, <3>4 DEF StoreReady
  <2>13. ASSUME NEW x \in Tools, RegisterTest(t, x)
         PROVE  TypeOK'
    <3>1. Answered("registry_error") \in Job
      BY <1>0, AnsweredType
    <3>2. job[t].at = "publish" => RegName[job[t].server][x] \in Names
      BY <2>0, ConstantsOK
    <3>3. [job[t] EXCEPT !.found = @ \ {x}, !.at = "register",
                         !.name = RegName[job[t].server][x]] \in Job
      BY <2>13, <3>2, <2>0 DEF RegisterTest, Job, JobRecord, Steps
    <3> QED
      BY <2>13, <3>1, <3>3 DEF RegisterTest
  <2>14. CASE RegisterSet(t)
    BY <2>14, <2>0 DEF RegisterSet, Job, JobRecord, Steps
  <2>15. CASE PublishDone(t)
    BY <2>15, <1>0, AnsweredType DEF PublishDone
  <2> QED
    BY <1>3, <2>1, <2>2, <2>3, <2>4, <2>5, <2>6, <2>7, <2>8, <2>9, <2>10,
       <2>11, <2>12, <2>13, <2>14, <2>15 DEF Work, Unpublish, Publish
<1> QED
  BY <1>1, <1>2, <1>3 DEF Next

\* Every variable keeps its type, whatever the threads do: the shared
\* dictionaries hold installations and bindings, each thread a job.
THEOREM TypeCorrect == Spec => []TypeOK
<1>1. Init => TypeOK
  BY TypeInit
<1>2. TypeOK /\ [Next]_vars => TypeOK'
  BY TypeStep
<1>3. QED
  BY <1>1, <1>2, PTL DEF Spec

(***************************************************************************)
(* What a step of one thread leaves alone.                                 *)
(***************************************************************************)

\* Thread t takes a step on behalf of server s.
StepFrame(t, s) ==
  /\ s \in Assigned[t]
  /\ job[t].server \in {s, None}
  /\ job'[t].server \in {s, None}
  /\ \A t2 \in Threads \ {t} : job'[t2] = job[t2]
  /\ \A s2 \in Servers \ {s} : installations'[s2] = installations[s2]
  /\ \A n \in Names : entries'[n] # entries[n] =>
                         n \in OwnNames(s) /\ entries'[n] \in {s, None}

LEMMA DisjointNames ==
  ASSUME CollisionFree, NEW s1 \in Servers, NEW s2 \in Servers, s1 # s2
  PROVE  OwnNames(s1) \cap OwnNames(s2) = {}
BY DEF CollisionFree, OwnNames, NamesOf

\* The invariants of the other threads and of the other servers survive.
LEMMA Frame ==
  ASSUME CollisionFree, Serialised, IInv, TypeOK',
         NEW t \in Threads, NEW s \in Servers,
         StepFrame(t, s), ServerInv(s)', ThreadInv(t)'
  PROVE  IInv'
<1>1. ASSUME NEW s2 \in Servers \ {s}
      PROVE  /\ Owned(s2)' = Owned(s2)
             /\ installations'[s2] = installations[s2]
             /\ \A n \in OwnNames(s2) : n \in Names => entries'[n] = entries[n]
  <2>1. OwnNames(s) \cap OwnNames(s2) = {}
    BY DisjointNames
  <2>2. \A n \in OwnNames(s2) : n \in Names => entries'[n] = entries[n]
    BY <2>1 DEF StepFrame
  <2>3. \A n \in Names : entries[n] = s2 => n \in OwnNames(s2)
    BY DEF IInv, ServerInv, Owned
  <2>4. \A n \in Names : entries'[n] = s2 <=> entries[n] = s2
    BY <2>2, <2>3, ConstantsOK DEF StepFrame
  <2> QED
    BY <2>2, <2>4 DEF Owned, StepFrame
<1>2. ASSUME NEW s2 \in Servers \ {s}
      PROVE  ServerInv(s2)'
  <2>1. Busy(s2)' <=> Busy(s2)
    BY ConstantsOK DEF Busy, StepFrame
  <2> QED
    BY <1>1, <2>1 DEF IInv, ServerInv, Mirrored, Ready
<1>3. ASSUME NEW t2 \in Threads \ {t}
      PROVE  ThreadInv(t2)'
  <2>1. job'[t2] = job[t2] /\ ThreadInv(t2) /\ job[t2] \in Job
    BY DEF StepFrame, IInv, TypeOK
  <2>2. CASE job[t2].server = None
    BY <2>1, <2>2 DEF ThreadInv, Job
  <2>3. CASE job[t2].server # None
    <3>1. PICK s2 \in Servers \ {s} : s2 = job[t2].server
      BY <2>1, <2>3 DEF ThreadInv, Job, JobRecord, Serialised, StepFrame
    <3>2. /\ Owned(s2)' = Owned(s2)
          /\ installations'[s2] = installations[s2]
          /\ \A n \in OwnNames(s2) : n \in Names => entries'[n] = entries[n]
      BY <1>1, <3>1
    <3>3. Ready(s2)' <=> Ready(s2)
      BY <3>2 DEF Ready
    <3>4. Mirrored(s2)' <=> Mirrored(s2)
      BY <3>2, <3>3 DEF Mirrored
    <3>5. \A x \in Tools : RegName[s2][x] \in Names
                          /\ entries'[RegName[s2][x]] = entries[RegName[s2][x]]
      BY <3>1, <3>2, ConstantsOK DEF OwnNames, NamesOf
    <3>6. job[t2].at \in {"unregister", "delete"} =>
            entries'[job[t2].name] = entries[job[t2].name]
      BY <2>1, <3>1, <3>2, NamesOfType DEF ThreadInv, OwnNames
    <3>7. job[t2].at = "register" =>
            entries'[job[t2].name] = entries[job[t2].name]
      BY <2>1, <3>1, <3>5 DEF ThreadInv
    <3>8. job[t2].found \subseteq Tools
      BY <2>1 DEF Job, JobRecord
    <3> QED
      BY <2>1, <2>3, <3>1, <3>2, <3>3, <3>4, <3>5, <3>6, <3>7, <3>8
      DEF ThreadInv, OwnNames, NamesOf
  <2> QED
    BY <2>2, <2>3
<1> QED
  BY <1>2, <1>3 DEF IInv

(***************************************************************************)
(* Every step preserves the inductive invariant.                           *)
(***************************************************************************)

LEMMA InductiveInit == Init => IInv
<1> SUFFICES ASSUME Init PROVE IInv
  OBVIOUS
<1>1. TypeOK
  BY TypeInit
<1>2. ASSUME NEW s \in Servers PROVE ServerInv(s)
  BY ConstantsOK DEF Init, ServerInv, Owned, Mirrored, Ready, NotInstalled
<1>3. ASSUME NEW t \in Threads PROVE ThreadInv(t)
  BY DEF Init, ThreadInv, Answered
<1> QED
  BY <1>1, <1>2, <1>3 DEF IInv

\* A thread that accepts a request changes nothing but its own job.
LEMMA RequestStep ==
  ASSUME CollisionFree, Serialised, IInv, TypeOK',
         NEW t \in Threads, Request(t)
  PROVE  IInv'
<1> USE DEF Goto
<1>1. /\ job[t] \in Job /\ job \in [Threads -> Job]
      /\ UNCHANGED <<installations, entries>>
      /\ job[t].at = "idle" /\ job[t].server = None
  BY DEF Request, InstallRefused, Install, UnknownServer, Enable, Disable,
         IInv, TypeOK, Job
<1>2. ASSUME NEW s \in Servers,
             s \in Assigned[t],
             \A t2 \in Threads \ {t} : job'[t2] = job[t2],
             job'[t].server \in {s, None},
             ThreadInv(t)'
      PROVE  IInv'
  <2>1. StepFrame(t, s)
    BY <1>1, <1>2 DEF StepFrame
  <2>2. Busy(s) => Busy(s)'
    BY <1>1, <1>2, ConstantsOK DEF Busy
  <2>3. ServerInv(s)'
    BY <1>1, <2>2 DEF IInv, ServerInv, Mirrored, Owned, Ready, OwnNames, NamesOf
  <2> QED
    BY <1>2, <2>1, <2>3, Frame
<1>3. CASE InstallRefused(t)
  <2>1. \A t2 \in Threads : job'[t2].server = job[t2].server
    BY <1>1, <1>3 DEF InstallRefused, Answered
  <2>2. \A s \in Servers : ServerInv(s)'
    BY <1>1, <2>1 DEF IInv, ServerInv, Mirrored, Owned, Ready, OwnNames, NamesOf, Busy
  <2>3. ThreadInv(t)'
    BY <1>1, <1>3 DEF InstallRefused, Answered, ThreadInv
  <2>4. ASSUME NEW t2 \in Threads \ {t} PROVE ThreadInv(t2)'
    <3>1. job'[t2] = job[t2] /\ ThreadInv(t2)
      BY <1>1, <1>3 DEF InstallRefused, IInv
    <3> QED
      BY <1>1, <3>1 DEF ThreadInv, Mirrored, Owned, Ready, OwnNames, NamesOf
  <2> QED
    BY <2>2, <2>3, <2>4 DEF IInv
<1>4. ASSUME NEW s \in Servers, Install(t, s) PROVE IInv'
  BY <1>1, <1>2, <1>4, ConstantsOK DEF Install, Requested, ThreadInv
<1>5. ASSUME NEW s \in Servers, UnknownServer(t, s) PROVE IInv'
  BY <1>1, <1>2, <1>5 DEF UnknownServer, Answered, ThreadInv
<1>6. ASSUME NEW s \in Servers, Disable(t, s) PROVE IInv'
  BY <1>1, <1>2, <1>6 DEF Disable, Requested, ThreadInv
<1>7. ASSUME NEW s \in Servers, Enable(t, s) PROVE IInv'
  <2>1. CASE Busy(s)
    <3>1. PICK t2 \in Threads : job[t2].server = s
      BY <2>1 DEF Busy
    <3>2. t2 # t /\ s \in Assigned[t] /\ s \in Assigned[t2]
      BY <1>1, <1>7, <3>1, ConstantsOK DEF Enable, IInv, ThreadInv
    <3> QED
      BY <3>2 DEF Serialised
  <2>2. CASE ~Busy(s)
    <3>1. Mirrored(s)'
      BY <1>1, <2>2 DEF IInv, ServerInv, Mirrored, Owned, Ready
    <3>2. ThreadInv(t)'
      BY <1>1, <1>7, <3>1 DEF Enable, Requested, ThreadInv
    <3> QED
      BY <1>1, <1>2, <1>7, <3>2 DEF Enable, Requested
  <2> QED
    BY <2>1, <2>2
<1> QED
  BY <1>3, <1>4, <1>5, <1>6, <1>7 DEF Request

\* A thread at work on server s reads and writes what belongs to s only, and
\* leaves s mirrored when it answers.
LEMMA WorkStep ==
  ASSUME CollisionFree, Serialised, IInv, TypeOK',
         NEW t \in Threads, Work(t)
  PROVE  IInv'
<1> USE DEF Goto
<1>1. /\ job \in [Threads -> Job] /\ job[t] \in Job
      /\ installations \in [Servers -> Installation]
      /\ entries \in [Names -> Servers \cup {None}]
      /\ job[t].at # "idle"
  BY DEF Work, CatalogFails, Discover, StoreFailed, Unpublish, UnpublishRead,
         SkipName, FoundName, UnregisterTest, UnregisterDelete, UnpublishDone,
         StoreInstalled, StoreDisabled, StoreReady, Publish, RegisterTest,
         RegisterSet, PublishDone, IInv, TypeOK
<1>2. PICK s \in Servers : s = job[t].server
  BY <1>1 DEF Job, JobRecord
<1>3. /\ ThreadInv(t) /\ ServerInv(s)
      /\ s \in Assigned[t] /\ s # None /\ job[t].reply # "registry_error"
  BY <1>2, ConstantsOK DEF IInv, ThreadInv
<1>4. \A n \in Names : entries[n] # None /\ n \in OwnNames(s) => entries[n] = s
  <2> SUFFICES ASSUME NEW n \in Names, entries[n] # None, n \in OwnNames(s),
                      entries[n] # s
               PROVE  FALSE
    OBVIOUS
  <2>1. entries[n] \in Servers /\ n \in OwnNames(entries[n])
    BY <1>1 DEF IInv, ServerInv, Owned
  <2> QED
    BY <2>1, DisjointNames
\* It is enough to show what the step does to its own thread and server.
<1>5. ASSUME job'[t].server \in {s, None},
             \A t2 \in Threads \ {t} : job'[t2] = job[t2],
             \A s2 \in Servers \ {s} : installations'[s2] = installations[s2],
             \A n \in Names : entries'[n] # entries[n] =>
                               n \in OwnNames(s) /\ entries'[n] \in {s, None},
             installations'[s].published \subseteq OwnNames(s),
             Owned(s)' \subseteq installations'[s].published,
             job'[t].server = None => Mirrored(s)',
             ThreadInv(t)'
      PROVE  IInv'
  <2>1. StepFrame(t, s)
    BY <1>2, <1>3, <1>5 DEF StepFrame
  <2>2. job'[t].server = s => Busy(s)'
    BY DEF Busy
  <2>3. ServerInv(s)'
    BY <1>5, <2>2 DEF ServerInv, OwnNames, NamesOf
  <2> QED
    BY <1>5, <2>1, <2>3, Frame
\* Steps that end the request, with nothing changed but the job.
<1>6. ASSUME NEW r, r # "registry_error", Mirrored(s),
             UNCHANGED <<installations, entries>>,
             job' = [job EXCEPT ![t] = Answered(r)]
      PROVE  IInv'
  <2>1. /\ Owned(s)' = Owned(s) /\ Mirrored(s)'
    BY <1>6 DEF Owned, Mirrored, Ready
  <2>2. job'[t] = Answered(r)
    BY <1>1, <1>6
  <2>3. ThreadInv(t)'
    BY <1>6, <2>2 DEF ThreadInv, Answered
  <2> QED
    BY <1>1, <1>3, <1>5, <1>6, <2>1, <2>2, <2>3 DEF Answered, ServerInv
\* Steps that go on, with nothing changed but the job.
<1>7. ASSUME NEW j, j.server = s, UNCHANGED <<installations, entries>>,
             job' = [job EXCEPT ![t] = j], ThreadInv(t)'
      PROVE  IInv'
  <2>1. Owned(s)' = Owned(s)
    BY <1>7 DEF Owned
  <2> QED
    BY <1>1, <1>2, <1>3, <1>5, <1>7, <2>1 DEF ServerInv
<1>8. CASE CatalogFails(t)
  BY <1>2, <1>3, <1>6, <1>8 DEF CatalogFails, ThreadInv
<1>9. ASSUME NEW T \in SUBSET Tools, Discover(t, T) PROVE IInv'
  <2>1. ThreadInv(t)'
    BY <1>1, <1>2, <1>3, <1>9
    DEF Discover, ThreadInv, Job, JobRecord, Mirrored, Ready, Owned
  <2> QED
    BY <1>1, <1>2, <1>7, <1>9, <2>1 DEF Discover, Job, JobRecord
<1>10. CASE StoreFailed(t)
  <2>1. /\ job[t].seen = installations[s]
        /\ installations' = [installations EXCEPT ![s] =
             [installations[s] EXCEPT !.status = "error", !.enabled = FALSE]]
    BY <1>2, <1>3, <1>10 DEF StoreFailed, ThreadInv
  <2>2. /\ installations'[s].published = installations[s].published
        /\ ~Ready(s)'
    BY <1>1, <2>1 DEF Ready, Installation
  <2>3. Owned(s)' = Owned(s) /\ UNCHANGED entries
    BY <1>10 DEF StoreFailed, Owned
  <2>4. /\ job'[t] = [job[t] EXCEPT !.at = "unpublish_read"]
        /\ \A t2 \in Threads \ {t} : job'[t2] = job[t2]
    BY <1>1, <1>10 DEF StoreFailed
  <2>5. /\ job'[t].at = "unpublish_read" /\ job'[t].server = s
        /\ job'[t].reply # "registry_error"
    BY <1>1, <1>2, <1>3, <2>4 DEF Job, JobRecord
  <2>6. ThreadInv(t)'
    BY <1>3, <2>2, <2>5 DEF ThreadInv
  <2> QED
    BY <1>1, <1>3, <1>5, <2>1, <2>2, <2>3, <2>4, <2>5, <2>6 DEF ServerInv
<1>11. CASE UnpublishRead(t)
  <2>1. ThreadInv(t)'
    BY <1>1, <1>2, <1>3, <1>11
    DEF UnpublishRead, ThreadInv, ServerInv, Job, JobRecord, Ready, Owned,
        OwnNames, NamesOf
  <2> QED
    BY <1>1, <1>2, <1>7, <1>11, <2>1 DEF UnpublishRead, Job, JobRecord
<1>12. ASSUME NEW n \in Names, SkipName(t, n) PROVE IInv'
  <2>1. n \notin Owned(s)
    BY <1>3, <1>12 DEF SkipName, Owned
  <2>2. ThreadInv(t)'
    BY <1>1, <1>2, <1>3, <1>12, <2>1
    DEF SkipName, ThreadInv, Job, JobRecord, Ready, Owned, OwnNames, NamesOf
  <2> QED
    BY <1>1, <1>2, <1>7, <1>12, <2>2 DEF SkipName, Job, JobRecord
<1>13. ASSUME NEW n \in Names, FoundName(t, n) PROVE IInv'
  <2>1. entries[n] = s
    BY <1>2, <1>3, <1>4, <1>13 DEF FoundName, ThreadInv
  <2>2. ThreadInv(t)'
    BY <1>1, <1>2, <1>3, <1>13, <2>1
    DEF FoundName, ThreadInv, Job, JobRecord, Ready, Owned, OwnNames, NamesOf
  <2> QED
    BY <1>1, <1>2, <1>7, <1>13, <2>2 DEF FoundName, Job, JobRecord
<1>14. CASE UnregisterTest(t)
  <2>1. entries[job[t].name] # None
    BY <1>2, <1>3, <1>14 DEF UnregisterTest, ThreadInv
  <2>2. job' = [job EXCEPT ![t] = [job[t] EXCEPT !.at = "delete"]]
    BY <1>14, <2>1 DEF UnregisterTest
  <2>3. ThreadInv(t)'
    BY <1>1, <1>2, <1>3, <1>14, <2>2
    DEF UnregisterTest, ThreadInv, Job, JobRecord, Ready, Owned, OwnNames, NamesOf
  <2> QED
    BY <1>1, <1>2, <1>7, <1>14, <2>2, <2>3 DEF UnregisterTest, Job, JobRecord
<1>15. CASE UnregisterDelete(t)
  <2>1. PICK n \in Names : n = job[t].name
    BY <1>2, <1>3, <1>15, NamesOfType DEF UnregisterDelete, ThreadInv, OwnNames
  <2>2. /\ entries[n] = s /\ n \in job[t].todo
        /\ job[t].todo \subseteq OwnNames(s)
        /\ Owned(s) \subseteq job[t].todo
    BY <1>2, <1>3, <1>15, <2>1 DEF UnregisterDelete, ThreadInv
  <2>3. /\ entries' = [entries EXCEPT ![n] = None]
        /\ UNCHANGED installations
        /\ job' = [job EXCEPT ![t] =
              [job[t] EXCEPT !.todo = @ \ {n}, !.name = None, !.at = "unpublish"]]
    BY <1>3, <1>15, <2>1, <2>2 DEF UnregisterDelete
  <2>4. Owned(s)' = Owned(s) \ {n}
    BY <1>1, <1>3, <2>3 DEF Owned
  <2>5. /\ job'[t].server = s /\ job'[t].at = "unpublish"
        /\ job'[t].todo = job[t].todo \ {n}
        /\ job'[t].op = job[t].op /\ job'[t].reply = job[t].reply
    BY <1>1, <1>2, <2>3 DEF Job, JobRecord
  <2>6. Ready(s)' <=> Ready(s)
    BY <2>3 DEF Ready
  <2>7. ThreadInv(t)'
    <3>1. job[t].at = "delete"
      BY <1>15 DEF UnregisterDelete
    <3>2. OwnNames(s)' = OwnNames(s)
      BY DEF OwnNames, NamesOf
    <3>3. Owned(s)' \subseteq job'[t].todo /\ job'[t].todo \subseteq OwnNames(s)'
      BY <2>2, <2>4, <2>5, <3>2
    <3> QED
      BY <1>2, <1>3, <2>5, <2>6, <3>1, <3>3 DEF ThreadInv
  <2> QED
    BY <1>1, <1>3, <1>5, <2>2, <2>3, <2>4, <2>5, <2>7 DEF ServerInv
<1>16. CASE UnpublishDone(t)
  <2>1. Owned(s) = {}
    BY <1>2, <1>3, <1>16 DEF UnpublishDone, ThreadInv
  <2>2. CASE job[t].op = "enable_failed"
    <3>1. Mirrored(s)
      BY <1>2, <1>3, <1>16, <2>1, <2>2 DEF UnpublishDone, ThreadInv, Mirrored
    <3> QED
      BY <1>6, <1>16, <2>2, <3>1 DEF UnpublishDone
  <2>3. CASE job[t].op # "enable_failed"
    <3>1. job' = [job EXCEPT ![t] = [job[t] EXCEPT !.at = "store"]]
      BY <1>16, <2>3 DEF UnpublishDone
    <3>2. ThreadInv(t)'
      BY <1>1, <1>2, <1>3, <1>16, <2>1, <3>1
      DEF UnpublishDone, ThreadInv, Job, JobRecord, Owned
    <3> QED
      BY <1>1, <1>2, <1>7, <1>16, <3>1, <3>2 DEF UnpublishDone, Job, JobRecord
  <2> QED
    BY <2>2, <2>3
\* The steps below answer after a store that leaves s without tools.
<1>17. ASSUME NEW i \in Installation, Owned(s) = {}, UNCHANGED entries,
              i.published = {} \/ i.status # "ready",
              i.published \subseteq OwnNames(s),
              installations' = [installations EXCEPT ![s] = i],
              job' = [job EXCEPT ![t] = Answered("ok")]
       PROVE  IInv'
  <2>1. Owned(s)' = {} /\ installations'[s] = i
    BY <1>1, <1>17 DEF Owned
  <2>2. Mirrored(s)'
    BY <1>17, <2>1 DEF Mirrored, Ready
  <2>3. job'[t] = Answered("ok")
    BY <1>1, <1>17
  <2>4. ThreadInv(t)'
    BY <2>3 DEF ThreadInv, Answered
  <2> QED
    BY <1>1, <1>5, <1>17, <2>1, <2>2, <2>3, <2>4 DEF Answered
<1>18. CASE StoreInstalled(t)
  <2>1. Owned(s) = {}
    BY <1>2, <1>3, <1>18 DEF StoreInstalled, ThreadInv
  <2>2. [status |-> "installed", enabled |-> FALSE, published |-> {}]
          \in Installation
    BY DEF Installation, Status
  <2> QED
    BY <1>2, <1>17, <1>18, <2>1, <2>2 DEF StoreInstalled
<1>19. CASE StoreDisabled(t)
  <2>1. Owned(s) = {}
    BY <1>2, <1>3, <1>19 DEF StoreDisabled, ThreadInv
  <2>2. PICK i \in Installation :
          i = [job[t].seen EXCEPT !.status = "disabled", !.enabled = FALSE,
                                  !.published = {}]
    BY <1>1 DEF Job, JobRecord, Installation, Status
  <2>3. i.published = {}
    BY <1>1, <2>2 DEF Job, JobRecord, Installation
  <2> QED
    BY <1>2, <1>17, <1>19, <2>1, <2>2, <2>3 DEF StoreDisabled
<1>20. CASE StoreReady(t)
  <2>1. Owned(s) = {} /\ job[t].found \subseteq Tools
    BY <1>1, <1>2, <1>3, <1>20 DEF StoreReady, ThreadInv, Job, JobRecord
  <2>2. /\ installations'[s].published = NamesOf(s, job[t].found)
        /\ installations'[s].status = "ready"
        /\ \A s2 \in Servers \ {s} : installations'[s2] = installations[s2]
    BY <1>1, <1>2, <1>20 DEF StoreReady, Job, JobRecord, Installation
  <2>3. Owned(s)' = {} /\ UNCHANGED entries
    BY <1>20, <2>1 DEF StoreReady, Owned
  <2>4. /\ job'[t].server = s /\ job'[t].at = "publish"
        /\ job'[t].found = job[t].found /\ job'[t].reply = job[t].reply
        /\ \A t2 \in Threads \ {t} : job'[t2] = job[t2]
    BY <1>1, <1>2, <1>20 DEF StoreReady, Job, JobRecord
  <2>5. NamesOf(s, job[t].found) \subseteq OwnNames(s)
    BY <2>1 DEF OwnNames, NamesOf
  <2>6. \A x \in job[t].found : entries[RegName[s][x]] = None
    BY <1>4, <2>1, ConstantsOK DEF OwnNames, NamesOf, Owned
  <2>7. ThreadInv(t)'
    BY <1>3, <2>2, <2>3, <2>4, <2>6 DEF ThreadInv, Ready, NamesOf
  <2> QED
    BY <1>3, <1>5, <2>2, <2>3, <2>4, <2>5, <2>7
<1>21. ASSUME NEW x \in Tools, RegisterTest(t, x) PROVE IInv'
  <2>1. PICK n \in Names : n = RegName[s][x]
    BY ConstantsOK
  <2>2. /\ job[t].at = "publish" /\ x \in job[t].found
        /\ job[t].found \subseteq Tools
    BY <1>1, <1>21 DEF RegisterTest, Job, JobRecord
  <2>3. /\ entries[n] = None /\ Ready(s)
        /\ \A y \in job[t].found : entries[RegName[s][y]] = None
        /\ installations[s].published = Owned(s) \cup NamesOf(s, job[t].found)
    BY <1>2, <1>3, <2>1, <2>2 DEF ThreadInv
  <2>4. UNCHANGED <<installations, entries>>
    BY <1>21 DEF RegisterTest
  <2>5. job' = [job EXCEPT ![t] = [job[t] EXCEPT !.found = @ \ {x},
                                     !.at = "register", !.name = n]]
    BY <1>2, <1>21, <2>1, <2>3 DEF RegisterTest
  <2>6. /\ job'[t].server = s /\ job'[t].at = "register"
        /\ job'[t].found = job[t].found \ {x} /\ job'[t].name = n
        /\ job'[t].reply = job[t].reply
    BY <1>1, <1>2, <2>5 DEF Job, JobRecord
  <2>7. NamesOf(s, job[t].found) = NamesOf(s, job[t].found \ {x}) \cup {n}
    BY <2>1, <2>2 DEF NamesOf
  <2>8. Owned(s)' = Owned(s) /\ (Ready(s)' <=> Ready(s))
    BY <2>4 DEF Owned, Ready
  <2>9. ThreadInv(t)'
    BY <1>3, <2>1, <2>2, <2>3, <2>4, <2>6, <2>7, <2>8 DEF ThreadInv, NamesOf
  <2> QED
    BY <1>1, <1>2, <1>7, <2>4, <2>5, <2>9 DEF Job, JobRecord
<1>22. CASE RegisterSet(t)
  <2>1. PICK x \in Tools \ job[t].found : job[t].name = RegName[s][x]
    BY <1>2, <1>3, <1>22 DEF RegisterSet, ThreadInv
  <2>2. PICK n \in Names : n = RegName[s][x]
    BY ConstantsOK
  <2>3. /\ job[t].at = "register" /\ job[t].name = n
        /\ job[t].found \subseteq Tools
    BY <1>1, <1>22, <2>1, <2>2 DEF RegisterSet, Job, JobRecord
  <2>4. /\ entries[n] = None /\ Ready(s) /\ n \in OwnNames(s)
        /\ \A y \in job[t].found : entries[RegName[s][y]] = None
        /\ installations[s].published
             = Owned(s) \cup NamesOf(s, job[t].found) \cup {n}
    BY <1>2, <1>3, <2>2, <2>3 DEF ThreadInv, OwnNames, NamesOf
  <2>5. /\ entries' = [entries EXCEPT ![n] = s]
        /\ UNCHANGED installations
        /\ job' = [job EXCEPT ![t] =
                     [job[t] EXCEPT !.name = None, !.at = "publish"]]
    BY <1>2, <1>22, <2>3 DEF RegisterSet
  <2>6. Owned(s)' = Owned(s) \cup {n} /\ (Ready(s)' <=> Ready(s))
    BY <1>1, <2>5 DEF Owned, Ready
  <2>7. /\ job'[t].server = s /\ job'[t].at = "publish"
        /\ job'[t].found = job[t].found /\ job'[t].reply = job[t].reply
        /\ \A t2 \in Threads \ {t} : job'[t2] = job[t2]
    BY <1>1, <1>2, <2>5 DEF Job, JobRecord
  <2>8. \A y \in job[t].found : RegName[s][y] # n
    BY <2>1, <2>2, <2>3 DEF CollisionFree
  <2>9. \A y \in job[t].found : entries'[RegName[s][y]] = None
    BY <1>1, <2>3, <2>4, <2>5, <2>8, ConstantsOK
  <2>10. installations'[s].published
           = Owned(s)' \cup NamesOf(s, job[t].found)
    BY <2>4, <2>5, <2>6
  <2>11. ThreadInv(t)'
    BY <1>3, <2>4, <2>6, <2>7, <2>9, <2>10 DEF ThreadInv, NamesOf
  <2> QED
    BY <1>1, <1>3, <1>5, <2>4, <2>5, <2>6, <2>7, <2>10, <2>11 DEF ServerInv
<1>23. CASE PublishDone(t)
  <2>1. Mirrored(s)
    BY <1>2, <1>3, <1>23 DEF PublishDone, ThreadInv, Mirrored, NamesOf
  <2> QED
    BY <1>6, <1>23, <2>1 DEF PublishDone
<1> QED
  BY <1>8, <1>9, <1>10, <1>11, <1>12, <1>13, <1>14, <1>15, <1>16, <1>18,
     <1>19, <1>20, <1>21, <1>22, <1>23 DEF Work, Unpublish, Publish

LEMMA InductiveStep ==
  ASSUME CollisionFree, Serialised, IInv, [Next]_vars
  PROVE  IInv'
<1>1. TypeOK'
  BY TypeStep DEF IInv
<1>2. CASE UNCHANGED vars
  BY <1>2 DEF vars, IInv, TypeOK, ServerInv, ThreadInv, Owned, Mirrored, Ready,
              Busy
<1>3. CASE Next
  BY <1>1, <1>3, RequestStep, WorkStep DEF Next
<1> QED
  BY <1>2, <1>3

(***************************************************************************)
(* The theorems of the control plane.                                      *)
(***************************************************************************)

\* The inductive invariant holds when every server has one client at a time
\* and normalisation keeps tool names apart.
THEOREM Inductive ==
  ASSUME CollisionFree, Serialised
  PROVE  Spec => []IInv
<1>1. Init => IInv
  BY InductiveInit
<1>2. IInv /\ [Next]_vars => IInv'
  BY InductiveStep
<1> QED
  BY <1>1, <1>2, PTL DEF Spec

\* Under the same hypotheses, between requests the registry holds exactly the
\* published tools of the ready servers (_publish, _unpublish).
THEOREM RegistryCorrect ==
  ASSUME CollisionFree, Serialised
  PROVE  Spec => []RegistryMirrorsReadyServers
<1>1. IInv => RegistryMirrorsReadyServers
  BY DEF IInv, ServerInv, Mirrored, RegistryMirrorsReadyServers
<1> QED
  BY <1>1, Inductive, PTL

\* Under the same hypotheses, no registered tool is ever out of reach of the
\* next _unpublish of its server.
THEOREM NothingOrphaned ==
  ASSUME CollisionFree, Serialised
  PROVE  Spec => []NoOrphanedTool
<1>1. IInv => NoOrphanedTool
  BY DEF IInv, ServerInv, NoOrphanedTool
<1> QED
  BY <1>1, Inductive, PTL

\* Under the same hypotheses, the registry never raises on behalf of the
\* control plane.
THEOREM NeverRaises ==
  ASSUME CollisionFree, Serialised
  PROVE  Spec => []RegistryNeverRaises
<1>1. IInv => RegistryNeverRaises
  <2> SUFFICES ASSUME IInv, NEW t \in Threads
               PROVE  /\ job[t].at \in {"unregister", "delete"} =>
                           entries[job[t].name] # None
                      /\ job[t].at = "register" => entries[job[t].name] = None
                      /\ job[t].reply # "registry_error"
    BY DEF RegistryNeverRaises
  <2>1. job[t].at \in {"unregister", "delete"} => job[t].server \in Servers
    BY DEF IInv, TypeOK, Job, JobRecord
  <2> QED
    BY <2>1, ConstantsOK DEF IInv, ThreadInv
<1> QED
  BY <1>1, Inductive, PTL

\* Under the same hypotheses, a request binds and unbinds names of its own
\* server only: it never withdraws a tool another server has published.
THEOREM OwnToolsOnly ==
  ASSUME CollisionFree, Serialised
  PROVE  Spec => TouchesOwnTools
<1> DEFINE Touches ==
      \A n \in Names :
        entries'[n] # entries[n] =>
          \E t \in Threads : /\ job[t] # job'[t]
                             /\ job[t].server \in {entries[n], entries'[n]}
                             /\ {entries[n], entries'[n]} \subseteq
                                  {job[t].server, None}
<1>1. ASSUME IInv, [Next]_vars PROVE [Touches]_vars
  <2> SUFFICES ASSUME NEW n \in Names, entries'[n] # entries[n]
               PROVE  \E t \in Threads :
                        /\ job[t] # job'[t]
                        /\ job[t].server \in {entries[n], entries'[n]}
                        /\ {entries[n], entries'[n]} \subseteq
                             {job[t].server, None}
    OBVIOUS
  <2>1. PICK t \in Threads : UnregisterDelete(t) \/ RegisterSet(t)
    BY <1>1 DEF Next, Request, InstallRefused, Install, UnknownServer, Enable,
                Disable, Work, CatalogFails, Discover, StoreFailed, Unpublish,
                UnpublishRead, SkipName, FoundName, UnregisterTest,
                UnpublishDone, StoreInstalled, StoreDisabled, StoreReady,
                Publish, RegisterTest, PublishDone, vars
  <2>2. /\ ThreadInv(t) /\ job[t] \in Job /\ job \in [Threads -> Job]
        /\ entries \in [Names -> Servers \cup {None}]
    BY <1>1 DEF IInv, TypeOK
  <2>3. job[t] # job'[t]
    <3>1. CASE UnregisterDelete(t)
      <4>1. entries[job[t].name] # None
        BY <2>2, <3>1, ConstantsOK DEF UnregisterDelete, Goto, ThreadInv, Job, JobRecord
      <4> QED
        BY <2>2, <3>1, <4>1 DEF UnregisterDelete, Goto, Job, JobRecord
    <3>2. CASE RegisterSet(t)
      BY <2>2, <3>2 DEF RegisterSet, Goto, Job, JobRecord
    <3> QED
      BY <2>1, <3>1, <3>2
  <2>4. CASE UnregisterDelete(t)
    <3>1. n = job[t].name /\ entries[n] = job[t].server /\ entries'[n] = None
      BY <2>2, <2>4 DEF UnregisterDelete, Goto, ThreadInv
    <3> QED
      BY <2>3, <3>1
  <2>5. CASE RegisterSet(t)
    <3>1. n = job[t].name /\ entries[n] = None /\ entries'[n] = job[t].server
      BY <2>2, <2>5 DEF RegisterSet, Goto, ThreadInv
    <3> QED
      BY <2>3, <3>1
  <2> QED
    BY <2>1, <2>4, <2>5
<1> QED
  BY <1>1, Inductive, PTL DEF Spec, TouchesOwnTools

(***************************************************************************)
(* The control plane implements ToolDirectory.                             *)
(***************************************************************************)

LEMMA DirectoryInit == Init => Directory!Init
BY ConstantsOK DEF Init, Directory!Init, Ready, Owned, NotInstalled

\* What a step does to the directory, from what it does to the dictionaries.
LEMMA DirectoryStutters ==
  ASSUME UNCHANGED <<installations, entries>>
  PROVE  UNCHANGED Directory!dirVars
BY DEF Directory!dirVars, Ready, Owned

LEMMA DirectoryStep ==
  ASSUME CollisionFree, Serialised, IInv, [Next]_vars
  PROVE  [Directory!Next]_(Directory!dirVars)
<1> USE DEF Goto
<1>1. CASE UNCHANGED vars
  BY <1>1, DirectoryStutters DEF vars
<1>2. ASSUME NEW t \in Threads, Request(t)
      PROVE  [Directory!Next]_(Directory!dirVars)
  BY <1>2, DirectoryStutters
  DEF Request, InstallRefused, Install, UnknownServer, Enable, Disable
<1>3. ASSUME NEW t \in Threads, Work(t)
      PROVE  [Directory!Next]_(Directory!dirVars)
  <2>1. /\ job[t] \in Job /\ ThreadInv(t)
        /\ installations \in [Servers -> Installation]
        /\ entries \in [Names -> Servers \cup {None}]
    BY DEF IInv, TypeOK
  \* A store into the installations, with the registry as it is.
  <2>2. ASSUME NEW s \in Servers, NEW i, UNCHANGED entries,
               installations' = [installations EXCEPT ![s] = i],
               i.status = "ready" => Owned(s) = {}
        PROVE  [Directory!Next]_(Directory!dirVars)
    <3>1. /\ installations'[s] = i
          /\ \A s2 \in Servers \ {s} : installations'[s2] = installations[s2]
      BY <2>1, <2>2
    <3>2. [s2 \in Servers |-> Owned(s2)]' = [s2 \in Servers |-> Owned(s2)]
      BY <2>2 DEF Owned
    <3>3. CASE i.status = "ready"
      <4>1. {s2 \in Servers : Ready(s2)}' = {s2 \in Servers : Ready(s2)} \cup {s}
        BY <3>1, <3>3 DEF Ready
      <4> QED
        BY <2>2, <3>2, <3>3, <4>1
        DEF Directory!Next, Directory!GoReady, Directory!dirVars
    <3>4. CASE i.status # "ready"
      <4>1. {s2 \in Servers : Ready(s2)}' = {s2 \in Servers : Ready(s2)} \ {s}
        BY <3>1, <3>4 DEF Ready
      <4> QED
        BY <3>2, <4>1 DEF Directory!Next, Directory!GoDark, Directory!dirVars
    <3> QED
      BY <3>3, <3>4
  <2>3. CASE \/ CatalogFails(t) \/ UnpublishRead(t) \/ UnregisterTest(t)
             \/ UnpublishDone(t) \/ PublishDone(t)
             \/ \E T \in SUBSET Tools : Discover(t, T)
             \/ \E n \in Names : SkipName(t, n) \/ FoundName(t, n)
             \/ \E x \in Tools : RegisterTest(t, x)
    BY <2>3, DirectoryStutters
    DEF CatalogFails, UnpublishRead, UnregisterTest, UnpublishDone,
        PublishDone, Discover, SkipName, FoundName, RegisterTest
  <2>4. ASSUME job[t].at # "idle"
        PROVE  job[t].server \in Servers /\ job[t].seen \in Installation
    BY <2>1, <2>4 DEF Job, JobRecord
  <2>5. CASE StoreFailed(t)
    <3>1. PICK i : i = [job[t].seen EXCEPT !.status = "error", !.enabled = FALSE]
      OBVIOUS
    <3>2. i.status # "ready"
      BY <2>4, <2>5, <3>1 DEF StoreFailed, Installation
    <3> QED
      BY <2>2, <2>4, <2>5, <3>1, <3>2 DEF StoreFailed
  <2>6. CASE StoreInstalled(t)
    BY <2>2, <2>4, <2>6 DEF StoreInstalled
  <2>7. CASE StoreDisabled(t)
    <3>1. PICK i : i = [job[t].seen EXCEPT !.status = "disabled",
                          !.enabled = FALSE, !.published = {}]
      OBVIOUS
    <3>2. i.status # "ready"
      BY <2>4, <2>7, <3>1 DEF StoreDisabled, Installation
    <3> QED
      BY <2>2, <2>4, <2>7, <3>1, <3>2 DEF StoreDisabled
  <2>8. CASE StoreReady(t)
    <3>1. Owned(job[t].server) = {}
      BY <2>1, <2>4, <2>8 DEF StoreReady, ThreadInv
    <3> QED
      BY <2>2, <2>4, <2>8, <3>1 DEF StoreReady
  <2>9. CASE UnregisterDelete(t)
    <3>1. PICK s \in Servers, n \in Names :
            s = job[t].server /\ n = job[t].name /\ entries[n] = s
      BY <2>1, <2>4, <2>9, ConstantsOK, NamesOfType
      DEF UnregisterDelete, ThreadInv, OwnNames
    <3>2. entries' = [entries EXCEPT ![n] = None] /\ UNCHANGED installations
      BY <2>9, <3>1 DEF UnregisterDelete
    <3>3. /\ Owned(s)' = Owned(s) \ {n}
          /\ \A s2 \in Servers \ {s} : Owned(s2)' = Owned(s2)
      BY <2>1, <3>1, <3>2, ConstantsOK DEF Owned
    <3>4. {s2 \in Servers : Ready(s2)}' = {s2 \in Servers : Ready(s2)}
      BY <3>2 DEF Ready
    <3>5. [s2 \in Servers |-> Owned(s2)]'
            = [[s2 \in Servers |-> Owned(s2)] EXCEPT ![s] = @ \ {n}]
      BY <3>3
    <3>6. Directory!Withdraw(s, n)
      BY <3>1, <3>4, <3>5 DEF Directory!Withdraw, Owned
    <3> QED
      BY <3>6 DEF Directory!Next
  <2>10. CASE RegisterSet(t)
    <3>1. PICK s \in Servers :
            s = job[t].server /\ Ready(s) /\ entries[job[t].name] = None
      BY <2>1, <2>4, <2>10, ConstantsOK DEF RegisterSet, ThreadInv
    <3>2. PICK n \in Names : n = job[t].name
      BY <2>1, <2>4, <2>10, ConstantsOK DEF RegisterSet, ThreadInv
    <3>3. entries' = [entries EXCEPT ![n] = s] /\ UNCHANGED installations
      BY <2>10, <3>1, <3>2 DEF RegisterSet
    <3>4. /\ Owned(s)' = Owned(s) \cup {n}
          /\ \A s2 \in Servers \ {s} : Owned(s2)' = Owned(s2)
      BY <2>1, <3>1, <3>2, <3>3, ConstantsOK DEF Owned
    <3>5. {s2 \in Servers : Ready(s2)}' = {s2 \in Servers : Ready(s2)}
      BY <3>3 DEF Ready
    <3>6. [s2 \in Servers |-> Owned(s2)]'
            = [[s2 \in Servers |-> Owned(s2)] EXCEPT ![s] = @ \cup {n}]
      BY <3>4
    <3>7. Directory!List(s, n)
      BY <3>1, <3>5, <3>6 DEF Directory!List
    <3> QED
      BY <3>7 DEF Directory!Next
  <2> QED
    BY <1>3, <2>3, <2>5, <2>6, <2>7, <2>8, <2>9, <2>10
    DEF Work, Unpublish, Publish
<1> QED
  BY <1>1, <1>2, <1>3 DEF Next

\* When every server has one client at a time and names do not collide, the
\* control plane keeps the promise of ToolDirectory: a tool is listed only for
\* a ready server, and a publication starts from an empty listing.
THEOREM DirectoryImplemented ==
  ASSUME CollisionFree, Serialised
  PROVE  Spec => ImplementsDirectory
<1>1. Init => Directory!Init
  BY DirectoryInit
<1>2. IInv /\ [Next]_vars => [Directory!Next]_(Directory!dirVars)
  BY DirectoryStep
<1> QED
  BY <1>1, <1>2, Inductive, PTL
  DEF Spec, ImplementsDirectory, Directory!Spec

(***************************************************************************)
(* Requests come to an end, however they overlap.                          *)
(***************************************************************************)

\* A server has no more names of its own than the catalog has tools.
LEMMA OwnNamesFinite ==
  ASSUME NEW s \in Servers, NEW N \in SUBSET OwnNames(s)
  PROVE  /\ IsFiniteSet(N)
         /\ Cardinality(N) \in Nat /\ Cardinality(Tools) \in Nat
         /\ Cardinality(N) <= Cardinality(Tools)
<1>1. PICK f : f = [x \in Tools |-> RegName[s][x]]
  OBVIOUS
<1>2. PICK O : O = OwnNames(s)
  OBVIOUS
<1>3. O = {f[x] : x \in Tools} /\ f \in [Tools -> O]
  BY <1>1, <1>2 DEF OwnNames, NamesOf
<1>4. f \in Surjection(Tools, O)
  BY <1>3 DEF Surjection
<1>5. IsFiniteSet(O) /\ Cardinality(O) <= Cardinality(Tools)
  BY <1>4, CatalogFinite, FS_Surjection
<1>6. IsFiniteSet(N) /\ Cardinality(N) <= Cardinality(O)
  BY <1>2, <1>5, FS_Subset
<1>7. /\ Cardinality(N) \in Nat /\ Cardinality(O) \in Nat
      /\ Cardinality(Tools) \in Nat
  BY <1>5, <1>6, CatalogFinite, FS_CardinalityType
<1> QED
  BY <1>5, <1>6, <1>7

\* What a server has published, and what a request has read of it or has still
\* to visit, are names of that server.
WorkInv ==
  /\ \A s \in Servers : installations[s].published \subseteq OwnNames(s)
  /\ \A t \in Threads : job[t].at # "idle" =>
       /\ job[t].seen.published \subseteq OwnNames(job[t].server)
       /\ job[t].todo \subseteq OwnNames(job[t].server)
       /\ job[t].at \in {"unregister", "delete"} => job[t].name \in job[t].todo

LEMMA WorkInvStep ==
  ASSUME TypeOK, WorkInv, [Next]_vars
  PROVE  WorkInv'
<1> USE DEF Goto
<1>0. /\ installations \in [Servers -> Installation] /\ job \in [Threads -> Job]
      /\ \A s \in Servers : installations[s].published \subseteq OwnNames(s)
  BY DEF TypeOK, WorkInv
<1>1. \A s : OwnNames(s)' = OwnNames(s)
  BY DEF OwnNames, NamesOf
<1>2. CASE UNCHANGED vars
  BY <1>1, <1>2 DEF vars, WorkInv
\* A step that changes the job of t, and the installation of its server at most.
<1>3. ASSUME NEW t \in Threads,
             \A u \in Threads \ {t} : job'[u] = job[u],
             \A s \in Servers : installations'[s].published \subseteq OwnNames(s),
             job'[t].at # "idle" =>
               /\ job'[t].seen.published \subseteq OwnNames(job'[t].server)
               /\ job'[t].todo \subseteq OwnNames(job'[t].server)
               /\ job'[t].at \in {"unregister", "delete"} =>
                    job'[t].name \in job'[t].todo
      PROVE  WorkInv'
  BY <1>1, <1>3 DEF WorkInv
<1>4. ASSUME NEW t \in Threads, NEW j, job' = [job EXCEPT ![t] = j],
             UNCHANGED installations,
             j.at # "idle" =>
               /\ j.seen.published \subseteq OwnNames(j.server)
               /\ j.todo \subseteq OwnNames(j.server)
               /\ j.at \in {"unregister", "delete"} => j.name \in j.todo
      PROVE  WorkInv'
  BY <1>0, <1>3, <1>4
<1>5. ASSUME NEW t \in Threads, Request(t) PROVE WorkInv'
  <2>1. CASE InstallRefused(t)
    BY <1>4, <2>1 DEF InstallRefused, Answered
  <2>2. ASSUME NEW s \in Servers,
               Install(t, s) \/ UnknownServer(t, s) \/ Enable(t, s) \/ Disable(t, s)
        PROVE  WorkInv'
    <3>1. NotInstalled.published = {}
      BY DEF NotInstalled
    <3>2. CASE Install(t, s)
      BY <1>4, <3>1, <3>2 DEF Install, Requested
    <3>3. CASE UnknownServer(t, s)
      BY <1>4, <3>3 DEF UnknownServer, Answered
    <3>4. CASE Enable(t, s)
      BY <1>0, <1>4, <3>4 DEF Enable, Requested
    <3>5. CASE Disable(t, s)
      BY <1>0, <1>4, <3>5 DEF Disable, Requested
    <3> QED
      BY <2>2, <3>2, <3>3, <3>4, <3>5
  <2> QED
    BY <1>5, <2>1, <2>2 DEF Request
<1>6. ASSUME NEW t \in Threads, Work(t) PROVE WorkInv'
  <2>1. /\ job[t] \in JobRecord
        /\ job[t].at # "idle" =>
             /\ job[t].server \in Servers
             /\ job[t].seen.published \subseteq OwnNames(job[t].server)
             /\ job[t].todo \subseteq OwnNames(job[t].server)
             /\ job[t].at \in {"unregister", "delete"} => job[t].name \in job[t].todo
    BY <1>0 DEF WorkInv, Job, JobRecord
  <2>2. CASE CatalogFails(t)
    BY <1>4, <2>2 DEF CatalogFails, Answered
  <2>3. ASSUME NEW T \in SUBSET Tools, Discover(t, T) PROVE WorkInv'
    <3>1. PICK o : o = IF T = {} THEN "enable_failed" ELSE "enable"
      OBVIOUS
    <3>4. PICK a : a = IF T = {} THEN "store_failed" ELSE "unpublish_read"
      OBVIOUS
    <3>5. /\ a \in {"store_failed", "unpublish_read"}
          /\ job' = [job EXCEPT ![t] = [job[t] EXCEPT !.found = T, !.op = o,
                                                      !.at = a]]
          /\ job[t].at # "idle" /\ UNCHANGED installations
      BY <2>3, <3>1, <3>4 DEF Discover
    <3>2. PICK j : j = [job[t] EXCEPT !.found = T, !.op = o, !.at = a]
      OBVIOUS
    <3>3. /\ j.seen = job[t].seen /\ j.todo = job[t].todo
          /\ j.server = job[t].server /\ j.at = a
      BY <2>1, <3>2 DEF JobRecord
    <3> QED
      BY <1>4, <2>1, <3>2, <3>3, <3>5
  <2>4. CASE StoreFailed(t)
    <3>1. job[t].at # "idle" /\ job' = [job EXCEPT ![t] = [job[t] EXCEPT !.at = "unpublish_read"]]
      BY <2>4 DEF StoreFailed
    <3>2. \A s \in Servers : installations'[s].published \subseteq OwnNames(s)
      BY <1>0, <2>1, <2>4, <3>1 DEF StoreFailed, JobRecord, Installation
    <3> QED
      BY <1>0, <1>3, <2>1, <3>1, <3>2 DEF JobRecord
  <2>5. CASE UnpublishRead(t)
    BY <1>0, <1>4, <2>1, <2>5 DEF UnpublishRead, JobRecord
  <2>6. ASSUME NEW n \in Names, SkipName(t, n) PROVE WorkInv'
    BY <1>4, <2>1, <2>6 DEF SkipName, JobRecord
  <2>7. ASSUME NEW n \in Names, FoundName(t, n) PROVE WorkInv'
    BY <1>4, <2>1, <2>7 DEF FoundName, JobRecord
  <2>8. CASE UnregisterTest(t)
    BY <1>4, <2>1, <2>8 DEF UnregisterTest, Answered, JobRecord
  <2>9. CASE UnregisterDelete(t)
    <3>1. CASE entries[job[t].name] = None
      <4>1. PICK r : job' = [job EXCEPT ![t] = Answered(r)]
        BY <2>9, <3>1 DEF UnregisterDelete
      <4>2. UNCHANGED installations
        BY <2>9 DEF UnregisterDelete
      <4> QED
        BY <1>4, <4>1, <4>2 DEF Answered
    <3>2. CASE entries[job[t].name] # None
      BY <1>4, <2>1, <2>9, <3>2 DEF UnregisterDelete, JobRecord
    <3> QED
      BY <3>1, <3>2
  <2>10. CASE UnpublishDone(t)
    BY <1>4, <2>1, <2>10 DEF UnpublishDone, Answered, JobRecord
  <2>11. CASE StoreInstalled(t) \/ StoreDisabled(t)
    <3>1. /\ job' = [job EXCEPT ![t] = Answered("ok")]
          /\ job[t].at # "idle"
      BY <2>11 DEF StoreInstalled, StoreDisabled
    <3>2. PICK i : /\ i.published = {}
                   /\ installations' = [installations EXCEPT ![job[t].server] = i]
      <4>1. CASE StoreInstalled(t)
        BY <4>1 DEF StoreInstalled
      <4>2. CASE StoreDisabled(t)
        <5>1. PICK i : i = [job[t].seen EXCEPT !.status = "disabled",
                                               !.enabled = FALSE, !.published = {}]
          OBVIOUS
        <5>2. i.published = {}
          BY <2>1, <5>1 DEF JobRecord, Installation
        <5> QED
          BY <4>2, <5>1, <5>2 DEF StoreDisabled
      <4> QED
        BY <2>11, <4>1, <4>2
    <3>3. \A s \in Servers : installations'[s].published \in {installations[s].published, {}}
      BY <1>0, <3>2
    <3> QED
      BY <1>0, <1>3, <3>1, <3>3 DEF Answered
  <2>12. CASE StoreReady(t)
    <3>1. job[t].at # "idle" /\ job' = [job EXCEPT ![t] = [job[t] EXCEPT !.at = "publish"]]
      BY <2>12 DEF StoreReady
    <3>2. NamesOf(job[t].server, job[t].found) \subseteq OwnNames(job[t].server)
      BY <2>1 DEF OwnNames, NamesOf, JobRecord
    <3>3. \A s \in Servers : installations'[s].published \subseteq OwnNames(s)
      BY <1>0, <2>1, <2>12, <3>2 DEF StoreReady, JobRecord, Installation
    <3> QED
      BY <1>0, <1>3, <2>1, <3>1, <3>3 DEF JobRecord
  <2>13. ASSUME NEW x \in Tools, RegisterTest(t, x) PROVE WorkInv'
    BY <1>4, <2>1, <2>13 DEF RegisterTest, Answered, JobRecord
  <2>14. CASE RegisterSet(t)
    BY <1>4, <2>1, <2>14 DEF RegisterSet, JobRecord
  <2>15. CASE PublishDone(t)
    BY <1>4, <2>15 DEF PublishDone, Answered
  <2> QED
    BY <1>6, <2>2, <2>3, <2>4, <2>5, <2>6, <2>7, <2>8, <2>9, <2>10, <2>11, <2>12,
       <2>13, <2>14, <2>15
    DEF Work, Unpublish, Publish
<1> QED
  BY <1>2, <1>5, <1>6 DEF Next

LEMMA WorkInvHolds == Spec => [](TypeOK /\ WorkInv)
<1>1. Init => WorkInv
  BY DEF Init, WorkInv, NotInstalled, Answered
<1>2. TypeOK /\ WorkInv /\ [Next]_vars => WorkInv'
  BY WorkInvStep
<1> QED
  BY <1>1, <1>2, TypeCorrect, PTL DEF Spec

\* The sets a busy thread loops over are finite, and no larger than the catalog.
LEMMA WorkCounts ==
  ASSUME TypeOK, WorkInv, NEW t \in Threads, job[t].at # "idle"
  PROVE  /\ job[t] \in JobRecord /\ job[t].server \in Servers
         /\ IsFiniteSet(job[t].todo) /\ IsFiniteSet(job[t].found)
         /\ Cardinality(Tools) \in Nat
         /\ Cardinality(job[t].todo) \in Nat
         /\ Cardinality(job[t].found) \in Nat
         /\ Cardinality(job[t].todo) <= Cardinality(Tools)
         /\ Cardinality(job[t].found) <= Cardinality(Tools)
<1>1. /\ job[t] \in JobRecord /\ job[t].server \in Servers
      /\ job[t].todo \in SUBSET OwnNames(job[t].server)
      /\ job[t].found \in SUBSET Tools
  BY DEF TypeOK, WorkInv, Job, JobRecord
<1>2. /\ IsFiniteSet(job[t].found)
      /\ Cardinality(job[t].found) <= Cardinality(Tools)
  BY <1>1, CatalogFinite, FS_Subset
<1>3. Cardinality(job[t].found) \in Nat
  BY <1>2, FS_CardinalityType
<1> QED
  BY <1>1, <1>2, <1>3, OwnNamesFinite

\* What is left for a job, from its place and the sizes of its two sets.
LEMMA WorkLeftIs ==
  ASSUME NEW j
  PROVE  /\ j.at = "discover" =>
              WorkLeft(j) = 8 + 3 * Cardinality(Tools) + 2 * Cardinality(Tools)
         /\ j.at = "store_failed" =>
              WorkLeft(j) = 7 + 3 * Cardinality(Tools) + 2 * Cardinality(j.found)
         /\ j.at = "unpublish_read" =>
              WorkLeft(j) = 6 + 3 * Cardinality(Tools) + 2 * Cardinality(j.found)
         /\ j.at = "unpublish" =>
              WorkLeft(j) = 5 + 3 * Cardinality(j.todo) + 2 * Cardinality(j.found)
         /\ j.at = "unregister" =>
              WorkLeft(j) = 4 + 3 * Cardinality(j.todo) + 2 * Cardinality(j.found)
         /\ j.at = "delete" =>
              WorkLeft(j) = 3 + 3 * Cardinality(j.todo) + 2 * Cardinality(j.found)
         /\ j.at \in {"store", "register"} =>
              WorkLeft(j) = 2 + 3 * Cardinality(j.todo) + 2 * Cardinality(j.found)
         /\ j.at = "publish" =>
              WorkLeft(j) = 1 + 3 * Cardinality(j.todo) + 2 * Cardinality(j.found)
         /\ j.at = "idle" =>
              WorkLeft(j) = 0 + 3 * Cardinality(j.todo) + 2 * Cardinality(j.found)
BY DEF WorkLeft, Phase

LEMMA AnsweredLeft ==
  ASSUME NEW r PROVE WorkLeft(Answered(r)) = 0
<1>1. PICK j : j = Answered(r)
  OBVIOUS
<1>2. j.at = "idle" /\ j.todo = {} /\ j.found = {}
  BY <1>1 DEF Answered
<1>3. Cardinality({}) = 0
  BY FS_EmptySet
<1>4. Cardinality(j.todo) = 0 /\ Cardinality(j.found) = 0
  BY <1>2, <1>3
<1>5. WorkLeft(j) = 0 + 3 * 0 + 2 * 0
  BY <1>2, <1>4, WorkLeftIs
<1> QED
  BY <1>1, <1>5

\* Each step is one Goto: from idle for a request, from another place for work.
LEMMA RequestGoes ==
  ASSUME NEW t, Request(t) PROVE \E j : Goto(t, "idle", j)
BY DEF Request, InstallRefused, Install, UnknownServer, Enable, Disable

LEMMA WorkGoes ==
  ASSUME NEW t, Work(t) PROVE \E where, j : where # "idle" /\ Goto(t, where, j)
<1> DEFINE Goes == \E where, j : where # "idle" /\ Goto(t, where, j)
<1>1. ASSUME NEW where, NEW j, where # "idle", Goto(t, where, j) PROVE Goes
  BY <1>1
<1> HIDE DEF Goes
<1>2. CatalogFails(t) => Goes
  BY <1>1 DEF CatalogFails
<1>3. StoreFailed(t) => Goes
  BY <1>1 DEF StoreFailed
<1>4. UnpublishRead(t) => Goes
  BY <1>1 DEF UnpublishRead
<1>5. UnregisterTest(t) => Goes
  BY <1>1 DEF UnregisterTest
<1>6. UnregisterDelete(t) => Goes
  BY <1>1 DEF UnregisterDelete
<1>7. UnpublishDone(t) => Goes
  BY <1>1 DEF UnpublishDone
<1>8. StoreInstalled(t) => Goes
  BY <1>1 DEF StoreInstalled
<1>9. StoreDisabled(t) => Goes
  BY <1>1 DEF StoreDisabled
<1>10. StoreReady(t) => Goes
  BY <1>1 DEF StoreReady
<1>11. RegisterSet(t) => Goes
  BY <1>1 DEF RegisterSet
<1>12. PublishDone(t) => Goes
  BY <1>1 DEF PublishDone
<1>13. ASSUME NEW T \in SUBSET Tools, Discover(t, T) PROVE Goes
  BY <1>1, <1>13 DEF Discover
<1>14. ASSUME NEW n \in Names, SkipName(t, n) PROVE Goes
  BY <1>1, <1>14 DEF SkipName
<1>15. ASSUME NEW n \in Names, FoundName(t, n) PROVE Goes
  BY <1>1, <1>15 DEF FoundName
<1>16. ASSUME NEW x \in Tools, RegisterTest(t, x) PROVE Goes
  BY <1>1, <1>16 DEF RegisterTest
<1>17. Goes
  BY <1>2, <1>3, <1>4, <1>5, <1>6, <1>7, <1>8, <1>9, <1>10,
     <1>11, <1>12, <1>13, <1>14, <1>15, <1>16
  DEF Work, Unpublish, Publish
<1> QED
  BY <1>17 DEF Goes

\* Every step of a thread's own leaves it less to do.
LEMMA WorkShrinks ==
  ASSUME TypeOK, WorkInv, NEW t \in Threads, Work(t)
  PROVE  job[t].at # "idle" /\ WorkLeft(job'[t]) < WorkLeft(job[t])
<1> USE DEF Goto
<1>1. job[t].at # "idle"
  BY WorkGoes
<1> SUFFICES WorkLeft(job'[t]) < WorkLeft(job[t])
  BY <1>1
<1>2. PICK j : j = job[t]
  OBVIOUS
<1>3. PICK c, n, f : /\ c = Cardinality(Tools) /\ n = Cardinality(j.todo)
                     /\ f = Cardinality(j.found)
  OBVIOUS
<1>4. /\ j \in JobRecord /\ j.server \in Servers
      /\ IsFiniteSet(j.todo) /\ IsFiniteSet(j.found)
      /\ c \in Nat /\ n \in Nat /\ f \in Nat /\ n <= c /\ f <= c
  BY <1>1, <1>2, <1>3, WorkCounts
<1>5. job \in [Threads -> Job] /\ installations \in [Servers -> Installation]
  BY DEF TypeOK
\* A step to a job k, whose work left is w, from one whose work left is v.
<1>6. ASSUME NEW k, NEW v \in Nat, NEW w \in Nat, job' = [job EXCEPT ![t] = k],
             WorkLeft(j) = v, WorkLeft(k) = w, w < v
      PROVE  WorkLeft(job'[t]) < WorkLeft(job[t])
  BY <1>2, <1>5, <1>6
<1>7. j.at \in Steps \ {"idle"}
  BY <1>1, <1>2, <1>4 DEF JobRecord
<1>8. ASSUME NEW r, job' = [job EXCEPT ![t] = Answered(r)]
      PROVE  WorkLeft(job'[t]) < WorkLeft(job[t])
  <2>1. WorkLeft(Answered(r)) = 0
    BY AnsweredLeft
  <2>2. j.at \in {"discover", "store_failed", "unpublish_read", "unpublish",
                 "unregister", "delete", "store", "register", "publish"}
    BY <1>7 DEF Steps
  <2>3. PICK p \in 1 .. 8, a \in {c, n}, e \in {c, f} :
               WorkLeft(j) = p + 3 * a + 2 * e
    BY <1>3, <2>2, WorkLeftIs
  <2>4. PICK v : v = p + 3 * a + 2 * e
    OBVIOUS
  <2>5. v \in Nat /\ 0 < v
    BY ONLY <1>4, c \in Nat, n \in Nat, f \in Nat, <2>3, <2>4
  <2>6. PICK k, w : k = Answered(r) /\ w = 0
    OBVIOUS
  <2>7. w \in Nat /\ w < v
    BY <2>5, <2>6
  <2>8. job' = [job EXCEPT ![t] = k] /\ WorkLeft(j) = v /\ WorkLeft(k) = w
    BY <1>8, <2>1, <2>3, <2>4, <2>6
  <2> QED
    BY <1>6, <2>5, <2>7, <2>8
<1>9. CASE CatalogFails(t)
  BY <1>8, <1>9 DEF CatalogFails
<1>10. ASSUME NEW T \in SUBSET Tools, Discover(t, T)
       PROVE  WorkLeft(job'[t]) < WorkLeft(job[t])
  <2>1. PICK o : o = IF T = {} THEN "enable_failed" ELSE "enable"
    OBVIOUS
  <2>2. PICK a : a = IF T = {} THEN "store_failed" ELSE "unpublish_read"
    OBVIOUS
  <2>3. /\ j.at = "discover" /\ a \in {"store_failed", "unpublish_read"}
        /\ job' = [job EXCEPT ![t] = [j EXCEPT !.found = T, !.op = o, !.at = a]]
    BY <1>2, <1>10, <2>1, <2>2 DEF Discover
  <2>4. PICK k : k = [j EXCEPT !.found = T, !.op = o, !.at = a]
    OBVIOUS
  <2>5. k.found = T /\ k.at = a
    BY <1>4, <2>4 DEF JobRecord
  <2>6. PICK d : d = Cardinality(T)
    OBVIOUS
  <2>7. d \in Nat /\ d <= c
    BY <1>3, <2>6, CatalogFinite, FS_Subset, FS_CardinalityType
  <2>8. \/ WorkLeft(k) = 7 + 3 * c + 2 * d
        \/ WorkLeft(k) = 6 + 3 * c + 2 * d
    BY <1>3, <2>3, <2>5, <2>6, WorkLeftIs
  <2>9. WorkLeft(j) = 8 + 3 * c + 2 * c
    BY <1>3, <2>3, WorkLeftIs
  <2>10. /\ 7 + 3 * c + 2 * d \in Nat /\ 6 + 3 * c + 2 * d \in Nat
         /\ 8 + 3 * c + 2 * c \in Nat
         /\ 7 + 3 * c + 2 * d < 8 + 3 * c + 2 * c
         /\ 6 + 3 * c + 2 * d < 8 + 3 * c + 2 * c
    BY ONLY <1>4, <2>7, c \in Nat
  <2> QED
    BY <1>6, <2>3, <2>4, <2>8, <2>9, <2>10
\* A step that keeps both sets and moves on to a later place.
<1> DEFINE Later(p, q) == \/ p = "store_failed" /\ q = "unpublish_read"
                          \/ p = "unpublish" /\ q \in {"unregister", "store"}
                          \/ p = "unregister" /\ q = "delete"
                          \/ p = "store" /\ q = "publish"
                          \/ p = "register" /\ q = "publish"
<1> HIDE DEF Later
<1>11. ASSUME NEW k, job' = [job EXCEPT ![t] = k], k.todo = j.todo, k.found = j.found,
              Later(j.at, k.at)
       PROVE  WorkLeft(job'[t]) < WorkLeft(job[t])
  <2>1. PICK w : w = WorkLeft(k)
    OBVIOUS
  <2>2. PICK v : v = WorkLeft(j)
    OBVIOUS
  <2>3. \/ v = 7 + 3 * c + 2 * f /\ w = 6 + 3 * c + 2 * f
        \/ v = 5 + 3 * n + 2 * f /\ w = 4 + 3 * n + 2 * f
        \/ v = 5 + 3 * n + 2 * f /\ w = 2 + 3 * n + 2 * f
        \/ v = 4 + 3 * n + 2 * f /\ w = 3 + 3 * n + 2 * f
        \/ v = 2 + 3 * n + 2 * f /\ w = 1 + 3 * n + 2 * f
    BY <1>3, <1>11, <2>1, <2>2, WorkLeftIs DEF Later
  <2>4. v \in Nat /\ w \in Nat /\ w < v
    BY ONLY <1>4, c \in Nat, n \in Nat, f \in Nat, <2>3
  <2> QED
    BY <1>6, <1>11, <2>1, <2>2, <2>4
<1>12. CASE StoreFailed(t)
  <2>1. PICK k : k = [j EXCEPT !.at = "unpublish_read"]
    OBVIOUS
  <2>2. k.todo = j.todo /\ k.found = j.found /\ k.at = "unpublish_read"
    BY <1>4, <2>1 DEF JobRecord
  <2>3. j.at = "store_failed" /\ job' = [job EXCEPT ![t] = k]
    BY <1>2, <1>12, <2>1 DEF StoreFailed
  <2>4. Later(j.at, k.at)
    BY <2>2, <2>3 DEF Later
  <2> QED
    BY <1>11, <2>2, <2>3, <2>4
<1>13. CASE UnpublishRead(t)
  <2>1. PICK P : P = installations[j.server].published
    OBVIOUS
  <2>2. PICK k : k = [j EXCEPT !.todo = P, !.at = "unpublish"]
    OBVIOUS
  <2>3. k.todo = P /\ k.found = j.found /\ k.at = "unpublish"
    BY <1>4, <2>2 DEF JobRecord
  <2>4. j.at = "unpublish_read" /\ job' = [job EXCEPT ![t] = k]
    BY <1>2, <1>13, <2>1, <2>2 DEF UnpublishRead
  <2>5. P \in SUBSET OwnNames(j.server)
    BY <1>4, <2>1 DEF WorkInv
  <2>6. PICK d : d = Cardinality(P)
    OBVIOUS
  <2>7. d \in Nat /\ d <= c
    BY <1>3, <1>4, <2>5, <2>6, OwnNamesFinite
  <2>8. PICK v, w : v = WorkLeft(j) /\ w = WorkLeft(k)
    OBVIOUS
  <2>9. v = 6 + 3 * c + 2 * f /\ w = 5 + 3 * d + 2 * f
    BY <1>3, <2>3, <2>4, <2>6, <2>8, WorkLeftIs
  <2>10. v \in Nat /\ w \in Nat /\ w < v
    BY ONLY <1>4, c \in Nat, f \in Nat, <2>7, <2>9
  <2> QED
    BY <1>6, <2>4, <2>8, <2>10
\* A step that takes a name off the names still to visit.
<1>14. ASSUME NEW k, NEW m, m \in j.todo, job' = [job EXCEPT ![t] = k],
              k.todo = j.todo \ {m}, k.found = j.found, k.at = "unpublish",
              j.at \in {"unpublish", "delete"}
       PROVE  WorkLeft(job'[t]) < WorkLeft(job[t])
  <2>0. PICK D : D = j.todo
    OBVIOUS
  <2>1. Cardinality(D \ {m}) = n - 1
    BY <1>3, <1>4, <1>14, <2>0, FS_RemoveElement
  <2>2. n # 0
    BY <1>3, <1>4, <1>14, <2>0, FS_EmptySet
  <2>3. PICK d \in Nat : d = Cardinality(k.todo) /\ n = d + 1
    <3>1. n - 1 \in Nat /\ n = (n - 1) + 1
      BY ONLY <1>4, n \in Nat, <2>2
    <3> QED
      BY <1>14, <2>0, <2>1, <3>1
  <2>4. PICK w : w = WorkLeft(k)
    OBVIOUS
  <2>5. PICK v : v = WorkLeft(j)
    OBVIOUS
  <2>6. w = 5 + 3 * d + 2 * f /\ v \in {5 + 3 * n + 2 * f, 3 + 3 * n + 2 * f}
    BY <1>3, <1>14, <2>3, <2>4, <2>5, WorkLeftIs
  <2>7. v \in Nat /\ w \in Nat /\ w < v
    BY ONLY <1>4, f \in Nat, n \in Nat, d \in Nat, <2>3, <2>6
  <2> QED
    BY <1>6, <1>14, <2>4, <2>5, <2>7
<1>15. ASSUME NEW m \in Names, SkipName(t, m)
       PROVE  WorkLeft(job'[t]) < WorkLeft(job[t])
  <2>1. PICK k : k = [j EXCEPT !.todo = j.todo \ {m}]
    OBVIOUS
  <2>2. k.todo = j.todo \ {m} /\ k.found = j.found /\ k.at = j.at
    BY <1>4, <2>1 DEF JobRecord
  <2>3. j.at = "unpublish" /\ m \in j.todo /\ job' = [job EXCEPT ![t] = k]
    BY <1>2, <1>15, <2>1 DEF SkipName
  <2>4. k.at = "unpublish" /\ j.at \in {"unpublish", "delete"}
    BY <2>2, <2>3
  <2> QED
    BY <1>14, <2>2, <2>3, <2>4
<1>16. ASSUME NEW m \in Names, FoundName(t, m)
       PROVE  WorkLeft(job'[t]) < WorkLeft(job[t])
  <2>1. PICK k : k = [j EXCEPT !.name = m, !.at = "unregister"]
    OBVIOUS
  <2>2. k.todo = j.todo /\ k.found = j.found /\ k.at = "unregister"
    BY <1>4, <2>1 DEF JobRecord
  <2>3. j.at = "unpublish" /\ job' = [job EXCEPT ![t] = k]
    BY <1>2, <1>16, <2>1 DEF FoundName
  <2>4. Later(j.at, k.at)
    BY <2>2, <2>3 DEF Later
  <2> QED
    BY <1>11, <2>2, <2>3, <2>4
<1>17. CASE UnregisterTest(t)
  <2>1. CASE entries[job[t].name] = None
    BY <1>8, <1>17, <2>1 DEF UnregisterTest
  <2>2. CASE entries[job[t].name] # None
    <3>1. PICK k : k = [j EXCEPT !.at = "delete"]
      OBVIOUS
    <3>2. k.todo = j.todo /\ k.found = j.found /\ k.at = "delete"
      BY <1>4, <3>1 DEF JobRecord
    <3>3. j.at = "unregister" /\ job' = [job EXCEPT ![t] = k]
      BY <1>2, <1>17, <2>2, <3>1 DEF UnregisterTest
    <3>4. Later(j.at, k.at)
      BY <3>2, <3>3 DEF Later
    <3> QED
      BY <1>11, <3>2, <3>3, <3>4
  <2> QED
    BY <2>1, <2>2
<1>18. CASE UnregisterDelete(t)
  <2>1. CASE entries[job[t].name] = None
    <3>1. PICK r : job' = [job EXCEPT ![t] = Answered(r)]
      BY <1>18, <2>1 DEF UnregisterDelete
    <3> QED
      BY <1>8, <3>1
  <2>2. CASE entries[job[t].name] # None
    <3>1. PICK k : k = [j EXCEPT !.todo = j.todo \ {j.name}, !.name = None,
                                 !.at = "unpublish"]
      OBVIOUS
    <3>2. k.todo = j.todo \ {j.name} /\ k.found = j.found /\ k.at = "unpublish"
      BY <1>4, <3>1 DEF JobRecord
    <3>3. j.at = "delete" /\ job' = [job EXCEPT ![t] = k]
      BY <1>2, <1>18, <2>2, <3>1 DEF UnregisterDelete
    <3>4. j.name \in j.todo
      BY <1>1, <1>2, <3>3 DEF WorkInv
    <3>5. j.at \in {"unpublish", "delete"}
      BY <3>3
    <3> QED
      BY <1>14, <3>2, <3>3, <3>4, <3>5
  <2> QED
    BY <2>1, <2>2
<1>19. CASE UnpublishDone(t)
  <2>1. CASE job[t].op = "enable_failed"
    BY <1>8, <1>19, <2>1 DEF UnpublishDone
  <2>2. CASE job[t].op # "enable_failed"
    <3>1. PICK k : k = [j EXCEPT !.at = "store"]
      OBVIOUS
    <3>2. k.todo = j.todo /\ k.found = j.found /\ k.at = "store"
      BY <1>4, <3>1 DEF JobRecord
    <3>3. j.at = "unpublish" /\ job' = [job EXCEPT ![t] = k]
      BY <1>2, <1>19, <2>2, <3>1 DEF UnpublishDone
    <3>4. Later(j.at, k.at)
      BY <3>2, <3>3 DEF Later
    <3> QED
      BY <1>11, <3>2, <3>3, <3>4
  <2> QED
    BY <2>1, <2>2
<1>20. CASE StoreInstalled(t) \/ StoreDisabled(t)
  BY <1>8, <1>20 DEF StoreInstalled, StoreDisabled
<1>21. CASE StoreReady(t)
  <2>1. PICK k : k = [j EXCEPT !.at = "publish"]
    OBVIOUS
  <2>2. k.todo = j.todo /\ k.found = j.found /\ k.at = "publish"
    BY <1>4, <2>1 DEF JobRecord
  <2>3. j.at = "store" /\ job' = [job EXCEPT ![t] = k]
    BY <1>2, <1>21, <2>1 DEF StoreReady
  <2>4. Later(j.at, k.at)
    BY <2>2, <2>3 DEF Later
  <2> QED
    BY <1>11, <2>2, <2>3, <2>4
<1>22. ASSUME NEW x \in Tools, RegisterTest(t, x)
       PROVE  WorkLeft(job'[t]) < WorkLeft(job[t])
  <2>1. PICK m : m = RegName[job[t].server][x]
    OBVIOUS
  <2>2. CASE entries[m] # None
    <3>1. job' = [job EXCEPT ![t] = Answered("registry_error")]
      BY <1>22, <2>1, <2>2 DEF RegisterTest
    <3> QED
      BY <1>8, <3>1
  <2>3. CASE entries[m] = None
    <3>1. PICK k : k = [j EXCEPT !.found = j.found \ {x}, !.at = "register", !.name = m]
      OBVIOUS
    <3>2. k.todo = j.todo /\ k.found = j.found \ {x} /\ k.at = "register"
      BY <1>4, <3>1 DEF JobRecord
    <3>3. j.at = "publish" /\ x \in j.found /\ job' = [job EXCEPT ![t] = k]
      BY <1>2, <1>22, <2>1, <2>3, <3>1 DEF RegisterTest
    <3>0. PICK F : F = j.found
      OBVIOUS
    <3>4. Cardinality(F \ {x}) = f - 1 /\ f # 0
      <4>1. IsFiniteSet(F) /\ x \in F /\ f = Cardinality(F)
        BY <1>3, <1>4, <3>0, <3>3
      <4>2. Cardinality(F \ {x}) = f - 1
        BY <4>1, FS_RemoveElement
      <4>3. f # 0
        BY <4>1, FS_EmptySet
      <4> QED
        BY <4>2, <4>3
    <3>5. PICK d \in Nat : d = Cardinality(k.found) /\ f = d + 1
      <4>1. f - 1 \in Nat /\ f = (f - 1) + 1
        BY ONLY <1>4, f \in Nat, <3>4
      <4> QED
        BY <3>0, <3>2, <3>4, <4>1
    <3>6. PICK v, w : v = WorkLeft(j) /\ w = WorkLeft(k)
      OBVIOUS
    <3>7. v = 1 + 3 * n + 2 * f /\ w = 2 + 3 * n + 2 * d
      BY <1>3, <3>2, <3>3, <3>5, <3>6, WorkLeftIs
    <3>8. v \in Nat /\ w \in Nat /\ w < v
      <4>1. n \in Nat /\ f \in Nat /\ f = d + 1
        BY <1>4, <3>5
      <4> QED
        BY ONLY d \in Nat, <4>1, <3>7
    <3> QED
      BY <1>6, <3>3, <3>6, <3>8
  <2> QED
    BY <2>2, <2>3
<1>23. CASE RegisterSet(t)
  <2>1. PICK k : k = [j EXCEPT !.name = None, !.at = "publish"]
    OBVIOUS
  <2>2. k.todo = j.todo /\ k.found = j.found /\ k.at = "publish"
    BY <1>4, <2>1 DEF JobRecord
  <2>3. j.at = "register" /\ job' = [job EXCEPT ![t] = k]
    BY <1>2, <1>23, <2>1 DEF RegisterSet
  <2>4. Later(j.at, k.at)
    BY <2>2, <2>3 DEF Later
  <2> QED
    BY <1>11, <2>2, <2>3, <2>4
<1>24. CASE PublishDone(t)
  BY <1>8, <1>24 DEF PublishDone
<1> QED
  BY <1>1, <1>9, <1>10, <1>12, <1>13, <1>15, <1>16, <1>17, <1>18, <1>19, <1>20,
     <1>21, <1>22, <1>23, <1>24
  DEF Work, Unpublish, Publish

\* A step is a step of one thread, which leaves the jobs of the others alone; an
\* idle thread is the only one that takes a request.
LEMMA OthersStand ==
  ASSUME NEW t \in Threads, job \in [Threads -> Job], Next, ~Work(t),
         job[t].at # "idle"
  PROVE  job'[t] = job[t]
<1>1. PICK u \in Threads : Request(u) \/ Work(u)
  BY DEF Next
<1>2. ASSUME NEW where, NEW j, Goto(u, where, j), u # t
      PROVE  job'[t] = job[t]
  BY <1>2 DEF Goto
<1>3. CASE Request(u)
  <2>1. PICK j : Goto(u, "idle", j)
    BY <1>3, RequestGoes
  <2>2. u # t
    BY <2>1 DEF Goto
  <2> QED
    BY <1>2, <2>1, <2>2
<1>4. CASE Work(u)
  <2>1. PICK where, j : Goto(u, where, j)
    BY <1>4, WorkGoes
  <2> QED
    BY <1>2, <1>4, <2>1
<1> QED
  BY <1>1, <1>3, <1>4

\* However many requests overlap, and whatever names collide, every step of a
\* request brings it nearer to its answer, and at no moment are more than eight
\* steps and five for every tool of the catalog left.
THEOREM RequestsComeToAnEnd ==
  Spec => /\ RequestsShrink
          /\ [](\A t \in Threads : job[t].at # "idle" =>
                  WorkLeft(job[t]) \in 1 .. 5 * Cardinality(Tools) + 8)
<1>1. TypeOK /\ WorkInv /\ [Next]_vars =>
        [\A t \in Threads :
           job[t].at # "idle" =>
             IF Work(t) THEN WorkLeft(job'[t]) < WorkLeft(job[t])
                        ELSE job'[t] = job[t]]_vars
  <2> SUFFICES ASSUME TypeOK, WorkInv, Next, NEW t \in Threads, job[t].at # "idle"
               PROVE  IF Work(t) THEN WorkLeft(job'[t]) < WorkLeft(job[t])
                                 ELSE job'[t] = job[t]
    OBVIOUS
  <2>1. CASE Work(t)
    BY <2>1, WorkShrinks
  <2>2. CASE ~Work(t)
    BY <2>2, OthersStand DEF TypeOK
  <2> QED
    BY <2>1, <2>2
<1>2. TypeOK /\ WorkInv =>
        \A t \in Threads : job[t].at # "idle" =>
          WorkLeft(job[t]) \in 1 .. 5 * Cardinality(Tools) + 8
  <2> SUFFICES ASSUME TypeOK, WorkInv, NEW t \in Threads, job[t].at # "idle"
               PROVE  WorkLeft(job[t]) \in 1 .. 5 * Cardinality(Tools) + 8
    OBVIOUS
  <2>1. PICK j : j = job[t]
    OBVIOUS
  <2>2. PICK c, n, f : /\ c = Cardinality(Tools) /\ n = Cardinality(j.todo)
                       /\ f = Cardinality(j.found)
    OBVIOUS
  <2>3. /\ j \in JobRecord
        /\ c \in Nat /\ n \in Nat /\ f \in Nat /\ n <= c /\ f <= c
    BY <2>1, <2>2, WorkCounts
  <2>4. j.at \in {"discover", "store_failed", "unpublish_read", "unpublish",
                 "unregister", "delete", "store", "register", "publish"}
    BY <2>1, <2>3 DEF JobRecord, Steps
  <2>5. PICK p, a, b : /\ WorkLeft(j) = p + 3 * a + 2 * b
                       /\ p \in 1 .. 8 /\ a \in {c, n} /\ b \in {c, f}
    BY <2>2, <2>4, WorkLeftIs
  <2>6. p + 3 * a + 2 * b \in 1 .. 5 * c + 8
    BY ONLY <2>3, c \in Nat, n \in Nat, f \in Nat, n <= c, f <= c, <2>5
  <2> QED
    BY <2>1, <2>2, <2>5, <2>6
<1> QED
  BY <1>1, <1>2, WorkInvHolds, PTL DEF Spec, RequestsShrink
==============================================================================
