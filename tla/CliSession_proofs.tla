-------------------------- MODULE CliSession_proofs --------------------------
(***************************************************************************)
(* Proofs about CliSession, for every set of servers, tools, names and     *)
(* threads, with or without collisions of names, and for any number of     *)
(* requests the client has given up.                                       *)
(*                                                                         *)
(* A session is one more user of the control plane: its steps are steps of *)
(* McpControlPlane or leave the dictionaries alone.  What the user is told *)
(* stays true because a server whose status is known is worked on by       *)
(* nobody but the thread the session waits for.                            *)
(***************************************************************************)
EXTENDS CliSession, McpControlPlane_proofs

(***************************************************************************)
(* A step of a request thread.                                             *)
(***************************************************************************)

\* What it leaves alone.
WorkFrame(t) ==
  /\ job[t].server \in Servers
  /\ job'[t].server \in {job[t].server, None}
  /\ \A u \in Threads \ {t} : job'[u] = job[u]
  /\ \A s \in Servers \ {job[t].server} : installations'[s] = installations[s]
  /\ \A n \in Names : entries'[n] # entries[n] =>
       \/ entries'[n] = None
       \/ entries'[n] = job[t].server /\ job[t].at = "register"

\* How far it brings the operation o = job[t].op; i and k are the status of
\* the server before and after it.
Progress(t, o, i, k) ==
  \/ /\ job[t].at = "discover"
     /\ k = i
     /\ \/ job'[t].at = "idle" /\ job'[t].reply = "catalog_error"
        \/ job'[t].at = "store_failed" /\ job'[t].op = "enable_failed"
        \/ job'[t].at = "unpublish_read" /\ job'[t].op = "enable"
  \/ /\ job[t].at = "store_failed"
     /\ job'[t].at = "unpublish_read" /\ job'[t].op = o
     /\ k = "error"
  \/ /\ job[t].at \in Withdrawing
     /\ k = i
     /\ \/ job'[t].at \in Withdrawing /\ job'[t].op = o
        \/ job'[t].at = "store" /\ job'[t].op = o
        \/ /\ job'[t].at = "idle"
           /\ job'[t].reply \in {"registry_error", "not_found"}
        \/ job'[t].at = "idle" /\ job'[t].reply = "ok" /\ o = "enable_failed"
  \/ /\ job[t].at = "store"
     /\ \/ /\ o = "install" /\ k = "installed"
           /\ job'[t].at = "idle" /\ job'[t].reply = "ok"
        \/ /\ o = "disable" /\ k = "disabled"
           /\ job'[t].at = "idle" /\ job'[t].reply = "ok"
        \/ o = "enable" /\ k = "ready" /\ job'[t].at = "publish"
             /\ job'[t].op = o
  \/ /\ job[t].at \in {"publish", "register"}
     /\ k = i
     /\ \/ job'[t].at \in {"publish", "register"} /\ job'[t].op = o
        \/ /\ job'[t].at = "idle"
           /\ job'[t].reply \in {"registry_error", "ok"}

LEMMA WorkSteps ==
  ASSUME TypeOK, NEW t \in Threads, Work(t)
  PROVE  /\ WorkFrame(t)
         /\ Progress(t, job[t].op, installations[job[t].server].status,
                     installations'[job[t].server].status)
<1> USE DEF Goto
<1>1. /\ job \in [Threads -> Job] /\ job[t] \in Job
      /\ installations \in [Servers -> Installation]
      /\ entries \in [Names -> Servers \cup {None}]
      /\ job[t].at # "idle"
  BY DEF Work, CatalogFails, Discover, StoreFailed, Unpublish, UnpublishRead,
         SkipName, FoundName, UnregisterTest, UnregisterDelete, UnpublishDone,
         StoreInstalled, StoreDisabled, StoreReady, Publish, RegisterTest,
         RegisterSet, PublishDone, TypeOK
<1>2. job[t].server \in Servers
  BY <1>1 DEF Job, JobRecord
<1> DEFINE Goal == /\ WorkFrame(t)
                   /\ Progress(t, job[t].op, installations[job[t].server].status,
                               installations'[job[t].server].status)
\* Steps that end the request, with nothing changed but the job.
<1>3. ASSUME NEW r, UNCHANGED <<installations, entries>>,
             job' = [job EXCEPT ![t] = Answered(r)]
      PROVE  WorkFrame(t) /\ job'[t].at = "idle" /\ job'[t].reply = r
  BY <1>1, <1>2, <1>3 DEF WorkFrame, Answered
\* Steps that go on, with nothing changed but the job.
<1>4. ASSUME NEW j, j.server = job[t].server,
             UNCHANGED <<installations, entries>>,
             job' = [job EXCEPT ![t] = j]
      PROVE  WorkFrame(t) /\ job'[t] = j
  BY <1>1, <1>2, <1>4 DEF WorkFrame
<1>5. CASE CatalogFails(t)
  BY <1>3, <1>5 DEF CatalogFails, Progress
<1>6. ASSUME NEW T \in SUBSET Tools, Discover(t, T) PROVE Goal
  BY <1>1, <1>4, <1>6 DEF Discover, Progress, Job, JobRecord
<1>7. CASE StoreFailed(t)
  BY <1>1, <1>2, <1>7
  DEF StoreFailed, WorkFrame, Progress, Job, JobRecord, Installation
<1>8. CASE UnpublishRead(t)
  BY <1>1, <1>4, <1>8 DEF UnpublishRead, Progress, Withdrawing, Job, JobRecord
<1>9. ASSUME NEW n \in Names, SkipName(t, n) PROVE Goal
  BY <1>1, <1>4, <1>9 DEF SkipName, Progress, Withdrawing, Job, JobRecord
<1>10. ASSUME NEW n \in Names, FoundName(t, n) PROVE Goal
  BY <1>1, <1>4, <1>10 DEF FoundName, Progress, Withdrawing, Job, JobRecord
<1>11. CASE UnregisterTest(t)
  <2>1. CASE entries[job[t].name] = None
    BY <1>3, <1>11, <2>1 DEF UnregisterTest, Progress, Withdrawing
  <2>2. CASE entries[job[t].name] # None
    BY <1>1, <1>4, <1>11, <2>2
    DEF UnregisterTest, Progress, Withdrawing, Job, JobRecord
  <2> QED
    BY <2>1, <2>2
<1>12. CASE UnregisterDelete(t)
  <2>1. WorkFrame(t) /\ job[t].at = "delete" /\ UNCHANGED installations
    BY <1>1, <1>2, <1>12
    DEF UnregisterDelete, WorkFrame, Job, JobRecord, Answered
  <2>2. CASE entries[job[t].name] = None
    BY <1>1, <1>12, <2>1, <2>2
    DEF UnregisterDelete, Progress, Withdrawing, Answered
  <2>3. CASE entries[job[t].name] # None
    BY <1>1, <1>12, <2>1, <2>3
    DEF UnregisterDelete, Progress, Withdrawing, Job, JobRecord
  <2> QED
    BY <2>2, <2>3, <2>1
<1>13. CASE UnpublishDone(t)
  <2>1. CASE job[t].op = "enable_failed"
    BY <1>3, <1>13, <2>1 DEF UnpublishDone, Progress, Withdrawing
  <2>2. CASE job[t].op # "enable_failed"
    BY <1>1, <1>4, <1>13, <2>2
    DEF UnpublishDone, Progress, Withdrawing, Job, JobRecord
  <2> QED
    BY <2>1, <2>2
<1>14. CASE StoreInstalled(t)
  <2>1. WorkFrame(t)
    BY <1>1, <1>2, <1>14 DEF StoreInstalled, WorkFrame, Answered
  <2>2. installations'[job[t].server].status = "installed"
    BY <1>1, <1>2, <1>14 DEF StoreInstalled
  <2> QED
    BY <1>1, <1>14, <2>1, <2>2 DEF StoreInstalled, Progress, Answered
<1>15. CASE StoreDisabled(t)
  <2>1. WorkFrame(t)
    BY <1>1, <1>2, <1>15 DEF StoreDisabled, WorkFrame, Answered
  <2>2. installations'[job[t].server].status = "disabled"
    BY <1>1, <1>2, <1>15 DEF StoreDisabled, Job, JobRecord, Installation
  <2> QED
    BY <1>1, <1>15, <2>1, <2>2 DEF StoreDisabled, Progress, Answered
<1>16. CASE StoreReady(t)
  <2>1. WorkFrame(t)
    BY <1>1, <1>2, <1>16 DEF StoreReady, WorkFrame, Job, JobRecord
  <2>2. installations'[job[t].server].status = "ready"
    BY <1>1, <1>2, <1>16 DEF StoreReady, Job, JobRecord, Installation
  <2> QED
    BY <1>1, <1>16, <2>1, <2>2 DEF StoreReady, Progress, Job, JobRecord
<1>17. ASSUME NEW x \in Tools, RegisterTest(t, x) PROVE Goal
  <2>1. CASE entries[RegName[job[t].server][x]] # None
    BY <1>3, <1>17, <2>1 DEF RegisterTest, Progress
  <2>2. CASE entries[RegName[job[t].server][x]] = None
    BY <1>1, <1>4, <1>17, <2>2 DEF RegisterTest, Progress, Job, JobRecord
  <2> QED
    BY <2>1, <2>2
<1>18. CASE RegisterSet(t)
  BY <1>1, <1>2, <1>18 DEF RegisterSet, WorkFrame, Progress, Job, JobRecord
<1>19. CASE PublishDone(t)
  BY <1>3, <1>19 DEF PublishDone, Progress
<1> QED
  BY <1>5, <1>6, <1>7, <1>8, <1>9, <1>10, <1>11, <1>12, <1>13, <1>14, <1>15,
     <1>16, <1>17, <1>18, <1>19 DEF Work, Unpublish, Publish

(***************************************************************************)
(* The steps of a session.                                                 *)
(***************************************************************************)

\* The user or the client moves on while nothing is waited for.
Quiet ==
  /\ ~Waiting /\ ~Waiting'
  /\ session' \in Session
  /\ session'.at \in {"confirm", "enable_now"} => session'.server \in Servers
  /\ UNCHANGED <<vars, consent>>
  /\ \A s \in Servers :
       \/ told'[s] = told[s]
       \/ told'[s] = IF Busy(s) THEN "unknown" ELSE installations[s].status
  /\ told' \in [Servers -> Shown]

\* The session posts operation o on server s to thread t.
Posted(t, s, o) ==
  /\ s \in Servers /\ o \in Operations
  /\ ~Waiting /\ Waiting'
  /\ session' \in Session
  /\ session'.server = s /\ session'.thread = t /\ session'.beside = {u \in Threads : job[u].server = s}
  /\ UNCHANGED <<told, installations, entries>>
  /\ consent' = [consent EXCEPT ![s] = @ \cup {o}]
  /\ job[t].at = "idle" /\ job[t].server = None
  /\ \A u \in Threads \ {t} : job'[u] = job[u]
  /\ \/ /\ job'[t].server = None /\ job'[t].at = "idle"
        /\ job'[t].reply = "refused"
     \/ /\ job'[t].server = s /\ job'[t].op = o
        /\ job'[t].at = IF o = "enable" THEN "discover" ELSE "unpublish_read"
        /\ o # "install" => installations[s].status # "absent"

\* An answer is heard, or given up.
Heard ==
  /\ Waiting /\ ~Waiting'
  /\ session' \in Session
  /\ session'.at \in {"confirm", "enable_now"} =>
       session'.server = session.server
  /\ UNCHANGED <<vars, consent>>
  /\ told' \in [Servers -> Shown]
  /\ \A s \in Servers \ {session.server} : told'[s] = told[s]
  /\ \/ told'[session.server] = "unknown"
     \/ /\ session.beside = {}
        /\ job[session.thread].at = "idle"
        /\ \/ /\ job[session.thread].reply = "ok"
              /\ told'[session.server] = session.answer
           \/ /\ job[session.thread].reply \in {"refused", "catalog_error"}
              /\ told'[session.server] = told[session.server]

LEMMA ClosedType == Closed \in Session
BY DEF Closed, Session, Places

LEMMA MoveType ==
  ASSUME NEW p \in Places \ {"wait", "confirm", "enable_now"},
         NEW w \in Places \ {"wait"}, Move(w, p)
  PROVE  /\ ~Waiting /\ ~Waiting' /\ session' \in Session
         /\ session'.at \notin {"confirm", "enable_now"}
BY DEF Move, Waiting, Closed, Session, Places

LEMMA QuietMove ==
  ASSUME CliTypeOK, NEW p \in Places \ {"wait", "confirm", "enable_now"},
         NEW w \in Places \ {"wait"}, Move(w, p),
         UNCHANGED <<told, consent, vars>>
  PROVE  Quiet
BY MoveType DEF Quiet, CliTypeOK

LEMMA DialogSteps ==
  ASSUME CliTypeOK, Dialog \/ ChatEnds
  PROVE  Quiet
<1>1. Places = {"closed", "tools", "menu", "servers", "pick", "confirm", "wait",
                "enable_now", "prompt", "chat"}
  BY DEF Places
<1>2. CASE Open
  BY <1>1, <1>2, QuietMove DEF Open
<1>3. CASE SelectTools \/ Back \/ Leave \/ Ask \/ ListFails \/ PickNone
  BY <1>1, <1>3, QuietMove
  DEF SelectTools, Back, Leave, Ask, ListFails, PickNone
<1>4. CASE SetUp
  BY <1>1, <1>4, QuietMove DEF SetUp
<1>5. CASE ChatEnds
  BY <1>1, <1>5, QuietMove DEF ChatEnds
<1>6. ASSUME NEW s \in Servers, PickToInstall(s) PROVE Quiet
  BY <1>1, <1>6 DEF PickToInstall, Quiet, Waiting, CliTypeOK, Session
<1>7. ASSUME NEW o \in Operations, ShowServers(o) PROVE Quiet
  <2>1. /\ ~Waiting /\ ~Waiting' /\ session' \in Session
        /\ session'.at = "pick"
    BY <1>1, <1>7 DEF ShowServers, Waiting, CliTypeOK, Session
  <2>2. told' \in [Servers -> Shown]
    BY <1>7 DEF ShowServers, CliTypeOK, TypeOK, Installation, Shown
  <2> QED
    BY <1>7, <2>1, <2>2 DEF ShowServers, Quiet
<1>8. ASSUME NEW a \in Replied,
             Decline("confirm", a) \/ Decline("enable_now", a)
      PROVE  Quiet
  BY <1>1, <1>8, QuietMove DEF Decline
<1> QED
  BY <1>2, <1>3, <1>4, <1>5, <1>6, <1>7, <1>8 DEF Dialog

LEMMA SendSteps ==
  ASSUME CliTypeOK, Placed, NEW t \in Threads, Send(t)
  PROVE  \E s \in Servers, o \in Operations : Posted(t, s, o)
<1>1. ASSUME NEW s \in Servers, NEW o \in Operations, Post(t, s, o), ~Waiting,
             Agree(s, o)
      PROVE  Posted(t, s, o)
  <2>1. /\ session' \in Session /\ Waiting'
        /\ session'.server = s /\ session'.thread = t
        /\ session'.beside = {u \in Threads : job[u].server = s}
    <3>1. "wait" \in Places /\ o \in Operations \cup {"none"}
      BY <1>1 DEF Places
    <3>2. session \in Session
      BY DEF CliTypeOK
    <3> QED
      BY <1>1, <3>1, <3>2 DEF Post, Session, Waiting
  <2>2. job \in [Threads -> Job] /\ job[t] \in Job
    BY DEF CliTypeOK, TypeOK
  <2>3. CASE o = "install" /\ InstallRefused(t)
    BY <1>1, <2>1, <2>2, <2>3
    DEF Post, InstallRefused, Goto, Answered, Posted, Agree, Job
  <2>4. CASE o = "install" /\ Install(t, s)
    BY <1>1, <2>1, <2>2, <2>4
    DEF Post, Install, Goto, Requested, Posted, Agree, Job
  <2>5. CASE o = "enable" /\ Enable(t, s)
    BY <1>1, <2>1, <2>2, <2>5
    DEF Post, Enable, Goto, Requested, Posted, Agree, Job
  <2>6. CASE o = "disable" /\ Disable(t, s)
    BY <1>1, <2>1, <2>2, <2>6
    DEF Post, Disable, Goto, Requested, Posted, Agree, Job
  <2> QED
    BY <1>1, <2>3, <2>4, <2>5, <2>6 DEF Post
<1>2. ASSUME NEW s \in Servers, PickToToggle(s, t)
      PROVE  \E o \in Operations : Posted(t, s, o)
  <2>1. session.op \in Operations
    BY <1>2 DEF PickToToggle, Operations
  <2>2. ~Waiting /\ Post(t, s, session.op) /\ Agree(s, session.op)
    BY <1>2 DEF PickToToggle, Waiting
  <2> QED
    BY <1>1, <2>1, <2>2
<1>3. ASSUME NEW a \in Replied, NEW w \in {"confirm", "enable_now"},
             NEW o \in Operations, Decide(w, o, a, t)
      PROVE  Posted(t, session.server, o) /\ session.server \in Servers
  BY <1>1, <1>3 DEF Decide, Consented, Agreed, Waiting, Placed
<1> QED
  BY <1>2, <1>3 DEF Send, Operations

LEMMA HearSteps ==
  ASSUME CliInv, Hear \/ GiveUp
  PROVE  Heard
<1>1. /\ session.server \in Servers /\ session \in Session
      /\ told \in [Servers -> Shown]
      /\ installations[session.server].status \in Status
  BY DEF CliInv, CliTypeOK, TypeOK, Installation, Placed, Hear, HearDone,
         HearError, GiveUp, Served, Waiting
<1>2. CASE GiveUp
  <2>1. told' \in [Servers -> Shown]
    BY <1>1, <1>2 DEF GiveUp, Tell, Shown
  <2> QED
    BY <1>1, <1>2, <2>1, ClosedType DEF GiveUp, Heard, Tell, Waiting, Closed
<1>3. CASE HearError
  <2>1. told' \in [Servers -> Shown]
    BY <1>1, <1>3 DEF HearError, Tell, Shown
  <2> QED
    BY <1>1, <1>3, <2>1, ClosedType
    DEF HearError, Heard, Tell, Waiting, Served, Closed
<1>4. CASE HearDone
  <2>1. session.beside = {} => session.answer \in Status
    BY <1>1, <1>4 DEF HearDone, Served, CliInv, AnswerInv
  <2>2. told' \in [Servers -> Shown]
    BY <1>1, <1>4, <2>1 DEF HearDone, Tell, Shown
  <2>3. session' \in Session /\ ~Waiting'
        /\ (session'.at = "enable_now" => session'.server = session.server)
        /\ session'.at # "confirm"
    <3>1. session.server \in Servers \cup {None}
      BY <1>1 DEF Session
    <3>2. PICK w \in {"enable_now", "servers"}, s \in Servers \cup {None} :
            /\ session' = [Closed EXCEPT !.at = w, !.server = s]
            /\ w = "enable_now" => s = session.server
      BY <1>4, <3>1 DEF HearDone
    <3>3. /\ session'.at = w /\ session'.server = s
          /\ session' = [at |-> w, op |-> "none", server |-> s,
                         thread |-> None, beside |-> {}, answer |-> "none"]
      BY <3>2 DEF Closed
    <3>4. session' \in Session
      BY <3>2, <3>3 DEF Session, Places
    <3> QED
      BY <3>2, <3>3, <3>4 DEF Waiting
  <2> QED
    BY <1>1, <1>4, <2>2, <2>3 DEF HearDone, Heard, Tell, Waiting, Served
<1> QED
  BY <1>2, <1>3, <1>4 DEF Hear

(***************************************************************************)
(* A session is a user of the control plane.                               *)
(***************************************************************************)

LEMMA PostIsRequest ==
  ASSUME NEW t \in Threads, NEW s, NEW o, Post(t, s, o)
  PROVE  Request(t)
<1>1. Assigned[t] \subseteq Servers
  BY ConstantsOK
<1> QED
  BY <1>1 DEF Post, Request, Install, Enable, Disable

LEMMA CliIsNext ==
  ASSUME [CliNext]_allVars
  PROVE  [Next]_vars
<1>1. ASSUME NEW t \in Threads, Send(t) PROVE Request(t)
  BY <1>1, PostIsRequest DEF Send, PickToToggle, Decide
<1>2. ASSUME Dialog \/ Hear \/ ChatEnds \/ GiveUp PROVE UNCHANGED vars
  BY <1>2 DEF Dialog, Hear, ChatEnds, GiveUp, Open, SelectTools, SetUp, Back,
     Leave, Ask, ListFails, PickNone, PickToInstall, ShowServers, Decline,
     HearDone, HearError
<1>3. ASSUME NEW t \in Threads, Serve(t) PROVE Work(t)
  BY <1>3 DEF Serve
<1> QED
  BY <1>1, <1>2, <1>3 DEF CliNext, Next, allVars

\* Whatever the user does, the client is one more user of the control plane:
\* it sends install, enable and disable requests and nothing else changes the
\* dictionaries (mcp_manager.py:237), so what is proved of every behaviour of
\* McpControlPlane holds of this system.
THEOREM SessionUsesControlPlane == CliSpec => Spec
<1>1. CliInit => Init
  BY DEF CliInit
<1>2. [CliNext]_allVars => [Next]_vars
  BY CliIsNext
<1> QED
  BY <1>1, <1>2, PTL DEF CliSpec, Spec

(***************************************************************************)
(* The inductive invariant.                                                *)
(***************************************************************************)

LEMMA CliInvInit == CliInit => CliInv
<1> SUFFICES ASSUME CliInit PROVE CliInv
  OBVIOUS
<1>1. TypeOK
  BY TypeInit DEF CliInit
<1>2. CliTypeOK
  BY <1>1, ClosedType DEF CliInit, CliTypeOK, Shown, Status
<1>3. Placed /\ ~Waiting
  BY DEF CliInit, Placed, Waiting, Closed
<1>4. SettledInv
  BY ConstantsOK
  DEF CliInit, Init, SettledInv, Busy, Answered, NotInstalled
<1>5. NothingWithoutConsent
  BY ConstantsOK
  DEF CliInit, Init, NothingWithoutConsent, Owned, NotInstalled
<1>6. \A t \in Threads : ConsentInv(t)
  BY DEF CliInit, Init, ConsentInv, Answered
<1> QED
  BY <1>2, <1>3, <1>4, <1>5, <1>6 DEF CliInv

LEMMA QuietKeeps ==
  ASSUME CliInv, Quiet, TypeOK'
  PROVE  CliInv'
<1>1. UNCHANGED <<installations, entries, job, consent>>
  BY DEF Quiet, vars
<1>2. CliTypeOK'
  BY <1>1 DEF Quiet, CliInv, CliTypeOK
<1>3. Placed' /\ ~Waiting'
  BY DEF Quiet, Placed, Waiting
<1>4. SettledInv'
  BY <1>1 DEF Quiet, CliInv, SettledInv, Busy
<1>5. NothingWithoutConsent'
  BY <1>1 DEF CliInv, NothingWithoutConsent, Owned
<1>6. \A t \in Threads : ConsentInv(t)'
  BY <1>1 DEF CliInv, ConsentInv
<1> QED
  BY <1>2, <1>3, <1>4, <1>5, <1>6 DEF CliInv

LEMMA HearKeeps ==
  ASSUME CliInv, Heard, TypeOK'
  PROVE  CliInv'
<1>1. UNCHANGED <<installations, entries, job, consent>>
  BY DEF Heard, vars
<1>2. CliTypeOK'
  BY <1>1 DEF Heard, CliInv, CliTypeOK
<1>3. Placed' /\ ~Waiting'
  <2>1. Waiting /\ session.server \in Servers
    BY DEF Heard, CliInv, Placed, Waiting
  <2>2. session'.at \in {"confirm", "enable_now"} => session'.server \in Servers
    BY <2>1 DEF Heard
  <2>3. ~Waiting'
    BY DEF Heard
  <2> QED
    BY <2>2, <2>3 DEF Placed, Waiting
<1>4. ASSUME NEW s \in Servers, told'[s] # "unknown"
      PROVE  ~Busy(s) /\ told'[s] = installations[s].status
  <2>1. CASE s # session.server
    BY <1>4, <2>1 DEF Heard, CliInv, SettledInv
  <2>2. CASE s = session.server
    <3>1. /\ session.thread \in Threads
          /\ AnswerInv(s, session.thread, installations[s].status)
          /\ job[session.thread].at = "idle"
      BY <1>4, <2>2 DEF Heard, CliInv, Placed
    <3>2. job[session.thread].server = None
      BY <3>1 DEF CliInv, CliTypeOK, TypeOK, Job
    <3>3. ~Busy(s)
      BY <3>1, <3>2, ConstantsOK DEF AnswerInv, Busy
    <3>4. told'[s] = installations[s].status
      BY <1>4, <2>2, <3>1 DEF Heard, AnswerInv
    <3> QED
      BY <3>3, <3>4
  <2> QED
    BY <2>1, <2>2
<1>5. SettledInv'
  BY <1>1, <1>4 DEF SettledInv, Busy
<1>6. NothingWithoutConsent'
  BY <1>1 DEF CliInv, NothingWithoutConsent, Owned
<1>7. \A t \in Threads : ConsentInv(t)'
  BY <1>1 DEF CliInv, ConsentInv
<1> QED
  BY <1>2, <1>3, <1>5, <1>6, <1>7 DEF CliInv

LEMMA SendKeeps ==
  ASSUME CliInv, TypeOK', NEW t \in Threads, NEW s \in Servers,
         NEW o \in Operations, Posted(t, s, o)
  PROVE  CliInv'
<1>1. UNCHANGED <<told, installations, entries>>
  BY DEF Posted
<1>2. consent \in [Servers -> SUBSET Operations]
  BY DEF CliInv, CliTypeOK
<1>3. CliTypeOK'
  BY <1>1, <1>2 DEF Posted, CliInv, CliTypeOK
<1>4. Placed'
  BY DEF Posted, Placed
<1>5. ASSUME NEW u \in Threads, NEW v \in Servers, job'[u].server = v
      PROVE  v = s \/ job[u].server = v
  BY <1>5, ConstantsOK DEF Posted
<1>6. SettledInv'
  BY <1>1, <1>5 DEF Posted, CliInv, SettledInv, Busy
<1>7. session'.beside = {} => AnswerInv(s, t, installations[s].status)'
  <2> SUFFICES ASSUME session'.beside = {}
               PROVE  AnswerInv(s, t, installations[s].status)'
    OBVIOUS
  <2>1. \A u \in Threads : job[u].server # s
    BY DEF Posted
  <2>2. told[s] \in {"unknown", installations[s].status}
    BY DEF Posted, CliInv, SettledInv
  <2>3. \A u \in Threads \ {t} : job'[u].server # s
    BY <2>1 DEF Posted
  <2>4. CASE job'[t].at = "idle"
    BY <1>1, <2>2, <2>3, <2>4 DEF Posted, AnswerInv, Withdrawing
  <2>5. CASE job'[t].at # "idle"
    <3>1. job'[t].server = s /\ job'[t].op = o
          /\ job'[t].at \in {"discover", "unpublish_read"}
      BY <2>5 DEF Posted
    <3>2. o # "enable_failed"
      BY DEF Operations
    <3> QED
      BY <1>1, <2>2, <2>3, <3>1, <3>2 DEF AnswerInv
  <2> QED
    BY <2>4, <2>5
<1>8. NothingWithoutConsent'
  BY <1>1, <1>2 DEF Posted, CliInv, NothingWithoutConsent, Owned
<1>9. ASSUME NEW u \in Threads PROVE ConsentInv(u)'
  <2>1. CASE u # t
    <3>1. job[u] \in Job
      BY DEF CliInv, CliTypeOK, TypeOK
    <3>2. job'[u] = job[u] /\ ConsentInv(u)
      BY <2>1 DEF Posted, CliInv
    <3>3. job[u].server \in Servers \cup {None}
      BY <3>1 DEF Job, JobRecord
    <3> QED
      BY <1>2, <3>2, <3>3 DEF Posted, ConsentInv
  <2>2. CASE u = t /\ job'[t].server # None
    <3>1. /\ job'[t].server = s /\ job'[t].op = o
          /\ job'[t].at \in {"discover", "unpublish_read"}
          /\ job'[t].at = "discover" => o = "enable"
          /\ o # "install" => installations[s].status # "absent"
      BY <2>2 DEF Posted
    <3>2. o \in consent'[s] /\ "install" \in consent'[s]
      BY <1>2, <3>1 DEF Posted, CliInv, NothingWithoutConsent
    <3> QED
      BY <2>2, <3>1, <3>2 DEF ConsentInv, Operations
  <2>3. CASE u = t /\ job'[t].server = None
    BY <2>3 DEF ConsentInv
  <2> QED
    BY <2>1, <2>2, <2>3
<1> QED
  BY <1>3, <1>4, <1>6, <1>7, <1>8, <1>9 DEF CliInv, Posted

LEMMA ServeKeeps ==
  ASSUME CliInv, TypeOK', NEW t \in Threads, Serve(t)
  PROVE  CliInv'
<1>1. /\ TypeOK /\ Work(t) /\ UNCHANGED <<told, consent>>
      /\ consent \in [Servers -> SUBSET Operations]
      /\ entries \in [Names -> Servers \cup {None}]
  BY DEF Serve, CliInv, CliTypeOK, TypeOK
<1>0. PICK v \in Servers : v = job[t].server
  BY <1>1, WorkSteps DEF WorkFrame
<1> DEFINE i == installations[v].status
           k == installations'[v].status
<1>2. WorkFrame(t) /\ Progress(t, job[t].op, i, k)
  BY <1>0, <1>1, WorkSteps
<1>3. job[t].server = v /\ v # None /\ ConsentInv(t)
  BY <1>0, ConstantsOK DEF CliInv
<1>4. /\ session'.at = session.at /\ session'.server = session.server
      /\ session'.thread = session.thread /\ session'.beside = session.beside
      /\ session' \in Session
      /\ session'.answer = IF session.thread = t /\ job'[t].reply = "ok"
                           THEN StatusReturned(job[t].op) ELSE session.answer
  BY DEF Serve, CliInv, CliTypeOK, Session, StatusReturned, Status
<1>5. CliTypeOK'
  BY <1>1, <1>4 DEF CliInv, CliTypeOK
<1>6. Placed' /\ (Waiting' <=> Waiting)
  BY <1>4 DEF CliInv, Placed, Waiting
<1>7. ASSUME NEW s \in Servers, Busy(s)' PROVE Busy(s)
  <2>1. PICK u \in Threads : job'[u].server = s
    BY <1>7 DEF Busy
  <2>2. job[u].server = s
    BY <1>2, <1>3, <2>1, ConstantsOK DEF WorkFrame
  <2> QED
    BY <2>2 DEF Busy
<1>8. \A s \in Servers \ {v} : installations'[s] = installations[s]
  BY <1>2, <1>3 DEF WorkFrame
<1>9. Busy(v)
  BY <1>3 DEF Busy
<1>10. SettledInv'
  BY <1>1, <1>4, <1>6, <1>7, <1>8, <1>9 DEF CliInv, SettledInv
<1>11. ASSUME Waiting, session.beside = {}
       PROVE  AnswerInv(session.server, session.thread,
                        installations[session.server].status)'
  <2> DEFINE s == session.server
             w == session.thread
  <2>1. /\ AnswerInv(s, w, installations[s].status)
        /\ s \in Servers /\ w \in Threads
    BY <1>11 DEF CliInv, Placed, Waiting
  <2>2. CASE t # w
    <3>1. v # s
      BY <1>3, <2>1, <2>2 DEF AnswerInv
    <3>2. /\ job'[w] = job[w] /\ installations'[s] = installations[s]
          /\ session'.answer = session.answer
      BY <1>2, <1>3, <1>4, <2>1, <2>2, <3>1 DEF WorkFrame
    <3>3. \A u \in Threads \ {w} : job'[u].server # s
      BY <1>2, <1>3, <2>1, <3>1, ConstantsOK DEF WorkFrame, AnswerInv
    <3> QED
      BY <1>1, <1>4, <2>1, <3>2, <3>3 DEF AnswerInv
  <2>3. CASE t = w
    <3>1. v = s
      BY <1>3, <2>1, <2>3 DEF AnswerInv
    <3>2. /\ \A u \in Threads \ {w} : job'[u].server # s
          /\ job'[w].server \in {s, None}
      BY <1>2, <1>3, <2>1, <2>3, <3>1 DEF WorkFrame, AnswerInv
    <3>3. /\ job[w].at = "discover" => told[s] \in {"unknown", i}
          /\ job[w].at = "store_failed" => job[w].op = "enable_failed"
          /\ job[w].at \in Withdrawing /\ job[w].op = "enable_failed" =>
               i = "error"
          /\ job[w].at \in {"publish", "register"} =>
               i = "ready" /\ job[w].op = "enable"
      BY <2>1, <3>1 DEF AnswerInv
    <3>4. /\ StatusReturned("install") = "installed"
          /\ StatusReturned("disable") = "disabled"
          /\ StatusReturned("enable") = "ready"
          /\ StatusReturned("enable_failed") = "error"
      BY Zenon DEF StatusReturned
    <3>5. job'[w].reply = "ok" => session'.answer = StatusReturned(job[w].op)
      BY <1>4, <2>3
    <3>6. /\ told'[s] = told[s]
          /\ Progress(w, job[w].op, i, k)
      BY <1>1, <1>2, <2>3
    <3>7. /\ job'[w].at = "discover" => told[s] \in {"unknown", k}
          /\ job'[w].at = "store_failed" => job'[w].op = "enable_failed"
          /\ job'[w].at \in Withdrawing /\ job'[w].op = "enable_failed" =>
               k = "error"
          /\ job'[w].at \in {"publish", "register"} =>
               k = "ready" /\ job'[w].op = "enable"
          /\ job'[w].at = "idle" =>
               /\ job'[w].reply = "ok" => StatusReturned(job[w].op) = k
               /\ job'[w].reply \in {"refused", "catalog_error"} =>
                    told[s] \in {"unknown", k}
      BY <3>3, <3>4, <3>6 DEF Progress, Withdrawing
    <3> QED
      BY <1>4, <3>1, <3>2, <3>5, <3>6, <3>7 DEF AnswerInv
  <2> QED
    BY <2>2, <2>3
<1>12. NothingWithoutConsent'
  <2>1. ASSUME NEW s \in Servers, NEW n \in Names, entries'[n] = s
        PROVE  entries[n] = s \/ (s = v /\ job[t].at = "register")
    BY <1>2, <1>3, <2>1, ConstantsOK DEF WorkFrame
  <2>2. /\ \A s \in Servers \ {v} : Owned(s)' \subseteq Owned(s)
        /\ Owned(v)' \subseteq Owned(v) \/ job[t].at = "register"
    BY <1>3, <2>1 DEF Owned
  <2>3. /\ "install" \in consent[v]
        /\ Owned(v)' # {} => "enable" \in consent[v]
    BY <1>3, <2>2 DEF ConsentInv, CliInv, NothingWithoutConsent
  <2>4. /\ k = "ready" => "enable" \in consent[v]
        /\ k = "disabled" => "disable" \in consent[v]
    BY <1>2, <1>3 DEF Progress, ConsentInv, CliInv, NothingWithoutConsent
  <2>5. ASSUME NEW s \in Servers
        PROVE  /\ installations'[s].status # "absent" =>
                    "install" \in consent'[s]
               /\ installations'[s].status = "ready" \/ Owned(s)' # {} =>
                    "enable" \in consent'[s]
               /\ installations'[s].status = "disabled" =>
                    "disable" \in consent'[s]
    <3>1. CASE s = v
      BY <1>1, <2>3, <2>4, <3>1
    <3>2. CASE s # v
      <4>1. /\ installations'[s] = installations[s]
            /\ Owned(s)' \subseteq Owned(s) /\ consent' = consent
        BY <1>1, <1>8, <2>2, <3>2
      <4> QED
        BY <4>1 DEF CliInv, NothingWithoutConsent
    <3> QED
      BY <3>1, <3>2
  <2> QED
    BY <2>5 DEF NothingWithoutConsent
<1>13. ASSUME NEW u \in Threads PROVE ConsentInv(u)'
  <2>1. CASE u # t
    BY <1>1, <1>2, <2>1 DEF WorkFrame, CliInv, ConsentInv
  <2>2. CASE u = t /\ job'[t].server # None
    <3>1. job'[t].server = v
      BY <1>2, <1>3, <2>2 DEF WorkFrame
    <3>2. job'[t].at # "idle"
      BY <2>2 DEF TypeOK, Job
    <3>3. /\ job'[t].op \in {"enable", "enable_failed"} =>
               "enable" \in consent[v]
          /\ job'[t].op = "disable" => "disable" \in consent[v]
          /\ job'[t].at \in {"discover", "publish", "register"} =>
               job'[t].op = "enable"
      BY <1>2, <1>3, <3>2 DEF Progress, ConsentInv, Withdrawing
    <3> QED
      BY <1>1, <1>3, <2>2, <3>1, <3>3 DEF ConsentInv
  <2>3. CASE u = t /\ job'[t].server = None
    BY <2>3 DEF ConsentInv
  <2> QED
    BY <2>1, <2>2, <2>3
<1> QED
  BY <1>4, <1>5, <1>6, <1>10, <1>11, <1>12, <1>13 DEF CliInv

LEMMA CliInvStep ==
  ASSUME CliInv, [CliNext]_allVars
  PROVE  CliInv'
<1>1. TypeOK'
  BY CliIsNext, TypeStep DEF CliInv, CliTypeOK
<1>2. CliTypeOK /\ Placed
  BY DEF CliInv
<1>3. CASE UNCHANGED allVars
  BY <1>3
  DEF allVars, vars, cliVars, CliInv, CliTypeOK, TypeOK, Placed, Waiting,
      SettledInv, Busy, AnswerInv, NothingWithoutConsent, Owned, ConsentInv
<1>4. CASE Dialog \/ ChatEnds
  BY <1>1, <1>2, <1>4, DialogSteps, QuietKeeps
<1>5. CASE Hear \/ GiveUp
  BY <1>1, <1>5, HearSteps, HearKeeps
<1>6. ASSUME NEW t \in Threads, Send(t) PROVE CliInv'
  BY <1>1, <1>2, <1>6, SendSteps, SendKeeps
<1>7. ASSUME NEW t \in Threads, Serve(t) PROVE CliInv'
  BY <1>1, <1>7, ServeKeeps
<1> QED
  BY <1>3, <1>4, <1>5, <1>6, <1>7 DEF CliNext

(***************************************************************************)
(* Theorems.                                                               *)
(***************************************************************************)

\* The inductive invariant of a session and the router it administers.
THEOREM CliInductive == CliSpec => []CliInv
<1>1. CliInit => CliInv
  BY CliInvInit
<1>2. CliInv /\ [CliNext]_allVars => CliInv'
  BY CliInvStep
<1> QED
  BY <1>1, <1>2, PTL DEF CliSpec

\* Every variable of the client keeps its type.
THEOREM CliTypeCorrect == CliSpec => []CliTypeOK
<1>1. CliInv => CliTypeOK
  BY DEF CliInv
<1> QED
  BY <1>1, CliInductive, PTL

\* The status the user has been shown is the status of the server, unless the
\* client has given up a request that was changing it (mcp_manager.py:136,
\* 168, 184).
THEOREM ToldIsTrue == CliSpec => []ToldTheTruth
<1>1. CliInv => ToldTheTruth
  BY DEF CliInv, SettledInv, ToldTheTruth
<1> QED
  BY <1>1, CliInductive, PTL

\* No server is installed, enabled or disabled, and no tool of it registered,
\* unless the user has agreed (mcp_manager.py:154, 174), also when threads of
\* requests that were given up are still at work.
THEOREM ConsentIsAsked == CliSpec => []NothingWithoutConsent
<1>1. CliInv => NothingWithoutConsent
  BY DEF CliInv
<1> QED
  BY <1>1, CliInductive, PTL
==============================================================================
