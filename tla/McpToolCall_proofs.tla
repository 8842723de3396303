-------------------------- MODULE McpToolCall_proofs --------------------------
(***************************************************************************)
(* Proofs about McpToolCall, for every set of servers, tools, names,       *)
(* threads and requests.                                                   *)
(*                                                                         *)
(* That a tool runs on a server that was ready needs no serialised         *)
(* clients: a name without collisions is only ever bound to the server it  *)
(* is made from, so the spec and the executor agree however late the       *)
(* second is read.  That the offer stays exact and that refusals have a    *)
(* cause rest on the invariant of the control plane, IInv: a server nobody *)
(* works on mirrors its installation, and a step of another server's       *)
(* administrator leaves its installation and its names alone.              *)
(***************************************************************************)
EXTENDS McpToolCall, McpControlPlane_proofs

\* The observer's view of one step.
LEMMA AdminIsNext == AdminStep => [Next]_vars /\ UNCHANGED call
BY DEF AdminStep

LEMMA CallKeepsPlane == CallStep => UNCHANGED vars
BY DEF CallStep

LEMMA SystemIsNext == [SystemNext]_sysVars => [Next]_vars
BY DEF SystemNext, AdminStep, CallStep, sysVars, vars

\* Whatever is offered and called, tool calls only read the dictionaries of the
\* control plane, so what is proved of every behaviour of McpControlPlane holds
\* beside them.
THEOREM CallsLeaveControlPlane == SystemSpec => Spec
<1>1. SystemInit => Init
  BY DEF SystemInit
<1>2. [SystemNext]_sysVars => [Next]_vars
  BY SystemIsNext
<1> QED
  BY <1>1, <1>2, PTL DEF SystemSpec, Spec

(***************************************************************************)
(* Type correctness.                                                       *)
(***************************************************************************)

LEMMA EndedType ==
  ASSUME NEW r \in CallReplies
  PROVE  Ended(r) \in Call
BY DEF Ended, Call, CallRecord, NoSpecs

LEMMA Replied ==
  /\ "none" \in CallReplies /\ "answer" \in CallReplies
  /\ "tool_not_allowed" \in CallReplies /\ "tool_not_found" \in CallReplies
  /\ "tool_error" \in CallReplies
BY DEF CallReplies

LEMMA CallTypeInit == SystemInit => CallTypeOK
BY EndedType, Replied DEF SystemInit, CallTypeOK

LEMMA CalledType ==
  ASSUME NEW c \in Requests, NEW n \in Names, NEW r \in Call
  PROVE  Called(c, n, r) \in Call
<1>1. CASE n \in Allowed[c]
  BY <1>1 DEF Called, Call, CallRecord
<1>2. CASE n \notin Allowed[c]
  BY EndedType, Replied, <1>2 DEF Called
<1> QED
  BY <1>1, <1>2

LEMMA ResumedType ==
  ASSUME NEW c \in Requests, call[c] \in Call
  PROVE  Resumed(c) \in Call
<1>1. CASE call[c].direct
  BY EndedType, Replied, <1>1 DEF Resumed
<1>2. CASE ~call[c].direct
  BY <1>2 DEF Resumed, Call, CallRecord
<1> QED
  BY <1>1, <1>2

\* Proceed(c) replaces the record of c and no other.
LEMMA ProceedType ==
  ASSUME TypeOK, CallTypeOK, NEW c \in Requests, Proceed(c)
  PROVE  \E r \in Call : call' = [call EXCEPT ![c] = r]
<1> USE DEF Step
<1>1. /\ call \in [Requests -> Call] /\ call[c] \in Call
      /\ entries \in [Names -> Servers \cup {None}]
  BY DEF CallTypeOK, TypeOK
<1>2. \A r \in CallReplies : Ended(r) \in Call
  BY EndedType
<1>3. CASE BeginChat(c)
  <2>1. [Ended("none") EXCEPT !.at = "filter", !.listed = entries] \in Call
    BY <1>1, <1>2, Replied DEF Call, CallRecord
  <2> QED
    BY <1>3, <2>1 DEF BeginChat
<1>4. ASSUME NEW n \in Names, Offer(c, n)
      PROVE  \E r \in Call : call' = [call EXCEPT ![c] = r]
  <2>1. [call[c] EXCEPT !.listed[n] = None, !.offered = @ \cup {n}] \in Call
    BY <1>1, <1>4 DEF Call, CallRecord
  <2> QED
    BY <1>4, <2>1 DEF Offer
<1>5. ASSUME NEW n \in Names, Withhold(c, n)
      PROVE  \E r \in Call : call' = [call EXCEPT ![c] = r]
  <2>1. [call[c] EXCEPT !.listed[n] = None] \in Call
    BY <1>1, <1>5 DEF Call, CallRecord
  <2> QED
    BY <1>5, <2>1 DEF Withhold
<1>6. CASE AskModel(c)
  <2>1. [call[c] EXCEPT !.at = "model"] \in Call
    BY <1>1 DEF Call, CallRecord
  <2> QED
    BY <1>6, <2>1 DEF AskModel
<1>7. ASSUME NEW n \in Names, ModelCalls(c, n)
      PROVE  \E r \in Call : call' = [call EXCEPT ![c] = r]
  BY <1>1, CalledType, <1>7 DEF ModelCalls
<1>8. ASSUME NEW n \in Names, DirectCall(c, n)
      PROVE  \E r \in Call : call' = [call EXCEPT ![c] = r]
  <2>1. [Ended("none") EXCEPT !.direct = TRUE] \in Call
    BY EndedType, Replied DEF Ended, Call, CallRecord
  <2> QED
    BY CalledType, <1>8, <2>1 DEF DirectCall
<1>9. CASE GetSpec(c)
  <2>1. entries[call[c].name] \in Servers \cup {None}
    BY <1>1, <1>9 DEF GetSpec, Call
  <2>2. [call[c] EXCEPT !.spec = entries[call[c].name], !.at = "executor"]
          \in Call
    BY <1>1, <1>9, <2>1 DEF GetSpec, Call, CallRecord
  <2> QED
    BY <1>2, Replied, <1>9, <2>2 DEF GetSpec
<1>10. CASE GetExecutor(c)
  <2>1. entries[call[c].name] \in Servers \cup {None}
    BY <1>1, <1>10 DEF GetExecutor, Call
  <2>2. [call[c] EXCEPT !.executor = entries[call[c].name], !.at = "policy"]
          \in Call
    BY <1>1, <1>10, <2>1 DEF GetExecutor, Call, CallRecord
  <2> QED
    BY <1>2, Replied, <1>10, <2>2 DEF GetExecutor
<1>11. CASE CheckPolicy(c)
  <2>1. [call[c] EXCEPT !.at = "validate"] \in Call
    BY <1>1, <1>11 DEF CheckPolicy, Call, CallRecord
  <2> QED
    BY <1>2, Replied, <1>11, <2>1 DEF CheckPolicy
<1>12. CASE ValidArguments(c)
  <2>1. [call[c] EXCEPT !.at = "run"] \in Call
    BY <1>1, <1>12 DEF ValidArguments, Call, CallRecord
  <2> QED
    BY <1>12, <2>1 DEF ValidArguments
<1>13. CASE InvalidArguments(c) \/ ExecutorReturns(c)
  BY <1>1, ResumedType, <1>13 DEF InvalidArguments, ExecutorReturns
<1>14. CASE ModelAnswers(c) \/ ExecutorFails(c)
  BY <1>2, Replied, <1>14 DEF ModelAnswers, ExecutorFails
<1> QED
  BY <1>3, <1>4, <1>5, <1>6, <1>7, <1>8, <1>9, <1>10, <1>11, <1>12, <1>13,
     <1>14 DEF Proceed

LEMMA CallTypeStep ==
  ASSUME TypeOK, CallTypeOK, [SystemNext]_sysVars
  PROVE  CallTypeOK'
<1>1. CASE UNCHANGED sysVars
  BY <1>1 DEF sysVars, CallTypeOK
<1>2. CASE SystemNext
  <2>1. call' \in [Requests -> Call]
    <3>1. CASE AdminStep
      BY <3>1 DEF AdminStep, CallTypeOK
    <3>2. CASE CallStep
      <4>1. PICK c \in Requests : Proceed(c)
        BY <3>2 DEF CallStep
      <4> QED
        BY <4>1, ProceedType DEF CallTypeOK
    <3> QED
      BY <1>2, <3>1, <3>2 DEF SystemNext
  <2>2. Observe
    BY <1>2 DEF SystemNext, AdminStep, CallStep
  <2> QED
    BY <2>1, <2>2 DEF Observe, CallTypeOK
<1> QED
  BY <1>1, <1>2

LEMMA SystemTypes == SystemSpec => [](TypeOK /\ CallTypeOK)
<1>1. SystemInit => TypeOK /\ CallTypeOK
  BY CallTypeInit, TypeInit DEF SystemInit
<1>2. TypeOK /\ CallTypeOK /\ [SystemNext]_sysVars => TypeOK' /\ CallTypeOK'
  BY CallTypeStep, TypeStep, SystemIsNext
<1> QED
  BY <1>1, <1>2, PTL DEF SystemSpec

\* Every variable of the composition keeps its type: a request that looks a
\* tool up has a name to look up.
THEOREM CallTypeCorrect == SystemSpec => []CallTypeOK
BY SystemTypes, PTL

(***************************************************************************)
(* What one step shows request d.                                          *)
(***************************************************************************)

LEMMA Observed ==
  ASSUME TypeOK, CallTypeOK, [SystemNext]_sysVars, NEW d \in Requests
  PROVE  /\ \/ call'[d] = call[d]
            \/ /\ Proceed(d) /\ UNCHANGED vars
               /\ InToolCall(call'[d]) =>
                    \A s \in Servers : Ready(s) => s \in wasReady'[d]
         /\ InToolCall(call'[d]) => wasReady[d] \subseteq wasReady'[d]
         /\ call'[d].at # "idle" =>
              /\ disturbed[d] \subseteq disturbed'[d]
              /\ \A s \in Servers \ disturbed'[d] :
                   ~Busy(s)' \/ UNCHANGED sysVars
<1>1. CASE UNCHANGED sysVars
  BY <1>1 DEF sysVars
<1>2. CASE SystemNext
  <2>1. Observe
    BY <1>2 DEF SystemNext, AdminStep, CallStep
  <2>2. /\ InToolCall(call'[d]) =>
             wasReady'[d] = wasReady[d] \cup {s \in Servers : Ready(s)'}
        /\ call'[d].at # "idle" =>
             disturbed'[d] = disturbed[d] \cup {s \in Servers : Busy(s)'}
    BY <2>1 DEF Observe
  <2>3. CASE AdminStep
    BY <2>2, <2>3 DEF AdminStep
  <2>4. CASE CallStep
    <3>1. PICK c \in Requests : Proceed(c) /\ UNCHANGED vars
      BY <2>4 DEF CallStep
    <3>2. \A s \in Servers : Ready(s)' <=> Ready(s)
      BY <3>1 DEF Ready, vars
    <3>3. CASE c = d
      BY <2>2, <3>1, <3>2, <3>3
    <3>4. CASE c # d
      <4>1. call'[d] = call[d]
        BY <3>1, <3>4, ProceedType DEF CallTypeOK
      <4> QED
        BY <2>2, <4>1
    <3> QED
      BY <3>3, <3>4
  <2> QED
    BY <1>2, <2>3, <2>4 DEF SystemNext
<1> QED
  BY <1>1, <1>2

(***************************************************************************)
(* A tool runs on a server that was ready.                                 *)
(***************************************************************************)

LEMMA BoundStep ==
  ASSUME TypeOK, BoundToMaker, [Next]_vars
  PROVE  BoundToMaker'
<1> USE DEF TypeOK, BoundToMaker, Goto
<1>1. CASE UNCHANGED vars
  BY <1>1 DEF vars, OwnNames, NamesOf
<1>2. ASSUME NEW t \in Threads, UNCHANGED entries,
             \A u \in Threads \ {t} : job'[u] = job[u],
             job'[t].at # "register"
      PROVE  BoundToMaker'
  BY <1>2 DEF OwnNames, NamesOf
<1>3. ASSUME NEW t \in Threads, Request(t) PROVE BoundToMaker'
  BY <1>2, <1>3 DEF Request, InstallRefused, Install, UnknownServer, Enable,
                    Disable, Answered, Requested
<1>4. ASSUME NEW t \in Threads, Work(t) PROVE BoundToMaker'
  <2>1. job[t] \in Job /\ (job[t].at # "idle" => job[t].server \in Servers)
    BY DEF Job, JobRecord
  <2>2. ASSUME NEW n \in Names, SkipName(t, n) \/ FoundName(t, n)
        PROVE  BoundToMaker'
    <3>1. UNCHANGED entries /\ \A u \in Threads \ {t} : job'[u] = job[u]
      BY <2>2 DEF SkipName, FoundName
    <3>2. \/ job'[t] = [job[t] EXCEPT !.todo = @ \ {n}]
          \/ job'[t] = [job[t] EXCEPT !.name = n, !.at = "unregister"]
      BY <2>1, <2>2 DEF SkipName, FoundName
    <3>3. job'[t].at # "register"
      BY <2>1, <2>2, <3>2 DEF SkipName, FoundName, Job, JobRecord
    <3> QED
      BY <1>2, <3>1, <3>3
  <2>3. ASSUME NEW T \in SUBSET Tools, Discover(t, T) PROVE BoundToMaker'
    BY <1>2, <2>1, <2>3 DEF Discover, Job, JobRecord
  <2>4. CASE \/ CatalogFails(t) \/ StoreFailed(t) \/ UnpublishRead(t)
             \/ UnregisterTest(t) \/ UnpublishDone(t) \/ StoreInstalled(t)
             \/ StoreDisabled(t) \/ StoreReady(t) \/ PublishDone(t)
    <3>1. UNCHANGED entries /\ \A u \in Threads \ {t} : job'[u] = job[u]
      BY <2>4
      DEF CatalogFails, StoreFailed, UnpublishRead, UnregisterTest,
          UnpublishDone, StoreInstalled, StoreDisabled, StoreReady, PublishDone
    <3>2. CASE CatalogFails(t)
      BY <1>2, <2>1, <3>1, <3>2 DEF CatalogFails, Answered
    <3>5. CASE StoreFailed(t)
      BY <1>2, <2>1, <3>1, <3>5 DEF StoreFailed, Job, JobRecord
    <3>6. CASE UnpublishRead(t)
      BY <1>2, <2>1, <3>1, <3>6 DEF UnpublishRead, Job, JobRecord
    <3>3. CASE UnregisterTest(t) \/ UnpublishDone(t) \/ PublishDone(t)
      <4>1. /\ Answered("ok").at # "register"
            /\ Answered("registry_error").at # "register"
            /\ [job[t] EXCEPT !.at = "delete"].at # "register"
            /\ [job[t] EXCEPT !.at = "store"].at # "register"
        BY <2>1 DEF Answered, Job, JobRecord
      <4>2. \/ job'[t] = Answered("ok")
            \/ job'[t] = Answered("registry_error")
            \/ job'[t] = [job[t] EXCEPT !.at = "delete"]
            \/ job'[t] = [job[t] EXCEPT !.at = "store"]
        BY <3>3 DEF UnregisterTest, UnpublishDone, PublishDone
      <4> QED
        BY <1>2, <3>1, <4>1, <4>2
    <3>4. CASE StoreInstalled(t) \/ StoreDisabled(t) \/ StoreReady(t)
      BY <1>2, <2>1, <3>1, <3>4
      DEF StoreInstalled, StoreDisabled, StoreReady, Answered, Job, JobRecord
    <3> QED
      BY <2>4, <3>2, <3>3, <3>4, <3>5, <3>6
  <2>5. CASE UnregisterDelete(t)
    <3>1. job'[t].at # "register" /\ \A u \in Threads \ {t} : job'[u] = job[u]
      BY <2>1, <2>5 DEF UnregisterDelete, Answered, Job, JobRecord
    <3>2. \A n \in Names : entries'[n] \in {entries[n], None}
      BY <2>5 DEF UnregisterDelete
    <3> QED
      BY <3>1, <3>2 DEF OwnNames, NamesOf
  <2>6. ASSUME NEW x \in Tools, RegisterTest(t, x) PROVE BoundToMaker'
    <3>1. CASE entries[RegName[job[t].server][x]] # None
      BY <1>2, <2>6, <3>1 DEF RegisterTest, Answered
    <3>2. CASE entries[RegName[job[t].server][x]] = None
      <4>1. job'[t].name = RegName[job[t].server][x]
            /\ job'[t].server = job[t].server
        BY <2>1, <2>6, <3>2 DEF RegisterTest, Job, JobRecord
      <4>2. UNCHANGED entries /\ \A u \in Threads \ {t} : job'[u] = job[u]
        BY <2>6 DEF RegisterTest
      <4>3. x \in Tools /\ job[t].server \in Servers
        BY <2>1, <2>6 DEF RegisterTest
      <4>4. RegName[job[t].server][x] \in OwnNames(job[t].server)
        BY <4>3 DEF OwnNames, NamesOf
      <4>5. \A z \in Servers : OwnNames(z)' = OwnNames(z)
        BY DEF OwnNames, NamesOf
      <4> QED
        BY <4>1, <4>2, <4>4, <4>5
    <3> QED
      BY <3>1, <3>2
  <2>7. CASE RegisterSet(t)
    <3>1. job'[t].at # "register" /\ \A u \in Threads \ {t} : job'[u] = job[u]
      BY <2>1, <2>7 DEF RegisterSet, Job, JobRecord
    <3>2. \A n \in Names : entries'[n] # entries[n] =>
                             n = job[t].name /\ entries'[n] = job[t].server
      BY <2>7 DEF RegisterSet
    <3> QED
      BY <2>7, <3>1, <3>2 DEF RegisterSet, OwnNames, NamesOf
  <2> QED
    BY <1>4, <2>2, <2>3, <2>4, <2>5, <2>6, <2>7 DEF Work, Unpublish, Publish
<1> QED
  BY <1>1, <1>3, <1>4 DEF Next

LEMMA LookupStep ==
  ASSUME CollisionFree, TypeOK, CallTypeOK, BoundToMaker,
         [SystemNext]_sysVars, NEW c \in Requests, LookupInv(c)
  PROVE  LookupInv(c)'
<1> USE DEF Step, LookupInv, InToolCall
<1>1. /\ call[c] \in Call /\ call \in [Requests -> Call]
      /\ entries \in [Names -> Servers \cup {None}]
  BY DEF CallTypeOK, TypeOK
<1>2. CASE call'[c] = call[c]
  <2>1. InToolCall(call[c]) => wasReady[c] \subseteq wasReady'[c]
    BY <1>2, Observed
  <2> QED
    BY <1>2, <2>1 DEF OwnNames, NamesOf
<1>3. CASE Proceed(c) /\ UNCHANGED vars
  <2>0. InToolCall(call'[c]) => wasReady[c] \subseteq wasReady'[c]
    BY Observed
  <2>1. ASSUME ~InToolCall(call'[c]) PROVE LookupInv(c)'
    BY <2>1
  <2>2. CASE \/ BeginChat(c) \/ AskModel(c) \/ ModelAnswers(c)
             \/ InvalidArguments(c) \/ ExecutorReturns(c) \/ ExecutorFails(c)
    <3>1. CASE BeginChat(c) \/ ModelAnswers(c) \/ ExecutorFails(c)
      <4>1. /\ Ended("answer").at = "idle" /\ Ended("tool_error").at = "idle"
            /\ [Ended("none") EXCEPT !.at = "filter",
                                     !.listed = entries].at = "filter"
        BY DEF Ended
      <4>2. \/ call'[c] = Ended("answer") \/ call'[c] = Ended("tool_error")
            \/ call'[c] = [Ended("none") EXCEPT !.at = "filter",
                                                !.listed = entries]
        BY <1>1, <3>1 DEF BeginChat, ModelAnswers, ExecutorFails
      <4> QED
        BY <2>1, <4>1, <4>2
    <3>2. CASE AskModel(c)
      <4>1. call'[c].at = "model"
        BY <1>1, <3>2 DEF AskModel, Call, CallRecord
      <4> QED
        BY <2>1, <4>1
    <3>3. CASE InvalidArguments(c) \/ ExecutorReturns(c)
      <4>1. call'[c] = Resumed(c)
        BY <1>1, <3>3 DEF InvalidArguments, ExecutorReturns
      <4>2. Resumed(c).at \in {"idle", "model"}
        BY <1>1 DEF Resumed, Ended, Call, CallRecord
      <4> QED
        BY <2>1, <4>1, <4>2
    <3> QED
      BY <2>2, <3>1, <3>2, <3>3
  <2>3. ASSUME NEW n \in Names, Offer(c, n) \/ Withhold(c, n)
        PROVE  LookupInv(c)'
    <3>1. call'[c].at = "filter"
      BY <1>1, <2>3 DEF Offer, Withhold, Call, CallRecord
    <3> QED
      BY <2>1, <3>1
  <2>8. ASSUME NEW n \in Names, ModelCalls(c, n) \/ DirectCall(c, n)
        PROVE  LookupInv(c)'
    <3>1. [Ended("none") EXCEPT !.direct = TRUE] \in Call
      BY EndedType, Replied DEF Ended, Call, CallRecord
    <3>2. \E r \in Call : call'[c] = Called(c, n, r)
      BY <1>1, <2>8, <3>1 DEF ModelCalls, DirectCall
    <3>3. \A r \in Call : Called(c, n, r).at \in {"spec", "idle"}
      BY DEF Called, Ended, Call, CallRecord
    <3> QED
      BY <2>1, <3>2, <3>3
  <2>4. CASE GetSpec(c)
    <3>1. CASE entries[call[c].name] = None
      BY <1>1, <2>1, <2>4, <3>1 DEF GetSpec, Ended
    <3>2. CASE entries[call[c].name] # None
      <4>1. call[c].name \in Names /\ entries[call[c].name] \in Servers
        BY <1>1, <2>4, <3>2 DEF GetSpec, Call
      <4>2. /\ call'[c].spec = entries[call[c].name]
            /\ call'[c].name = call[c].name /\ call'[c].at = "executor"
        BY <1>1, <2>4, <3>2 DEF GetSpec, Call, CallRecord
      <4>3. call[c].name \in OwnNames(entries[call[c].name])
        BY <3>2, <4>1 DEF BoundToMaker
      <4> QED
        BY <4>1, <4>2, <4>3 DEF OwnNames, NamesOf
    <3> QED
      BY <3>1, <3>2
  <2>5. CASE GetExecutor(c)
    <3>1. CASE entries[call[c].name] = None
      BY <1>1, <2>1, <2>5, <3>1 DEF GetExecutor, Ended
    <3>2. CASE entries[call[c].name] # None
      <4>1. call[c].name \in Names /\ entries[call[c].name] \in Servers
        BY <1>1, <2>5, <3>2 DEF GetExecutor, Call
      <4>2. /\ call'[c].executor = entries[call[c].name]
            /\ call'[c].spec = call[c].spec
            /\ call'[c].name = call[c].name /\ call'[c].at = "policy"
        BY <1>1, <2>5, <3>2 DEF GetExecutor, Call, CallRecord
      <4>3. call[c].name \in OwnNames(entries[call[c].name])
        BY <3>2, <4>1 DEF BoundToMaker
      <4>4. call[c].spec \in Servers /\ call[c].name \in OwnNames(call[c].spec)
        BY <2>5 DEF GetExecutor
      <4>5. call[c].spec = entries[call[c].name]
        BY <4>1, <4>3, <4>4, DisjointNames
      <4> QED
        BY <4>2, <4>4, <4>5 DEF OwnNames, NamesOf
    <3> QED
      BY <3>1, <3>2
  <2>6. CASE CheckPolicy(c)
    <3>1. CASE ~PolicyAdmits(call[c].spec)
      BY <1>1, <2>1, <2>6, <3>1 DEF CheckPolicy, Ended
    <3>2. CASE PolicyAdmits(call[c].spec)
      <4>1. /\ call'[c].executor = call[c].executor
            /\ call'[c].spec = call[c].spec
            /\ call'[c].name = call[c].name /\ call'[c].at = "validate"
        BY <1>1, <2>6, <3>2 DEF CheckPolicy, Call, CallRecord
      <4>2. /\ call[c].spec \in Servers /\ call[c].executor = call[c].spec
            /\ call[c].name \in OwnNames(call[c].spec)
        BY <2>6 DEF CheckPolicy
      <4>3. call'[c] # call[c]
        BY <2>6, <4>1 DEF CheckPolicy
      <4>4. call[c].spec \in wasReady'[c]
        BY <3>2, <4>1, <4>2, <4>3, Observed DEF PolicyAdmits
      <4> QED
        BY <4>1, <4>2, <4>4 DEF OwnNames, NamesOf
    <3> QED
      BY <3>1, <3>2
  <2>7. CASE ValidArguments(c)
    <3>1. /\ call'[c].executor = call[c].executor
          /\ call'[c].spec = call[c].spec
          /\ call'[c].name = call[c].name /\ call'[c].at = "run"
          /\ call[c].at = "validate"
      BY <1>1, <2>7 DEF ValidArguments, Call, CallRecord
    <3> QED
      BY <2>0, <3>1 DEF OwnNames, NamesOf
  <2> QED
    BY <1>3, <2>2, <2>3, <2>4, <2>5, <2>6, <2>7, <2>8 DEF Proceed
<1> QED
  BY <1>2, <1>3, Observed

\* If names do not collide, the tool that runs belongs to a server that was
\* ready at some moment since the call was looked up, whatever the threads of
\* the control plane did between the three reads of the orchestrator.
THEOREM ToolsRunOnReadyServers ==
  ASSUME CollisionFree
  PROVE  SystemSpec => []RunsOnlyReadyServers
<1> DEFINE Inv == /\ TypeOK /\ CallTypeOK /\ BoundToMaker
                  /\ \A c \in Requests : LookupInv(c)
<1>1. SystemInit => Inv
  <2> SUFFICES ASSUME SystemInit PROVE Inv
    OBVIOUS
  <2>1. BoundToMaker
    BY DEF SystemInit, Init, BoundToMaker, Answered
  <2>2. \A c \in Requests : LookupInv(c)
    BY DEF SystemInit, LookupInv, Ended
  <2> QED
    BY <2>1, <2>2, CallTypeInit, TypeInit DEF SystemInit
<1>2. Inv /\ [SystemNext]_sysVars => Inv'
  BY CallTypeStep, TypeStep, SystemIsNext, BoundStep, LookupStep
<1>3. Inv => RunsOnlyReadyServers
  BY DEF LookupInv, RunsOnlyReadyServers
<1> QED
  BY <1>1, <1>2, <1>3, PTL DEF SystemSpec

(***************************************************************************)
(* The offer of an undisturbed server.                                     *)
(***************************************************************************)

\* Only a thread that works on a server changes its installation, and what it
\* stores as ready is enabled.
LEMMA Undisturbed ==
  ASSUME TypeOK, [Next]_vars, NEW s \in Servers
  PROVE  \/ installations'[s] = installations[s]
         \/ Busy(s) /\ (Ready(s)' => installations'[s].enabled)
<1> USE DEF TypeOK, Goto
<1>1. CASE UNCHANGED vars
  BY <1>1 DEF vars
<1>2. ASSUME NEW t \in Threads, Request(t), installations' # installations
      PROVE  FALSE
  BY <1>2 DEF Request, InstallRefused, Install, UnknownServer, Enable, Disable
<1>3. ASSUME NEW t \in Threads, Work(t), installations' # installations
      PROVE  \/ installations'[s] = installations[s]
             \/ Busy(s) /\ (Ready(s)' => installations'[s].enabled)
  <2>1. \/ StoreFailed(t) \/ StoreInstalled(t) \/ StoreDisabled(t)
        \/ StoreReady(t)
    BY <1>3
    DEF Work, CatalogFails, Discover, Unpublish, UnpublishRead, SkipName,
        FoundName, UnregisterTest, UnregisterDelete, UnpublishDone, Publish,
        RegisterTest, RegisterSet, PublishDone
  <2>2. job[t].server \in Servers /\ job[t].seen \in Installation
    BY <2>1 DEF StoreFailed, StoreInstalled, StoreDisabled, StoreReady, Job,
                JobRecord
  <2>3. PICK i : installations' = [installations EXCEPT ![job[t].server] = i]
    BY <2>1 DEF StoreFailed, StoreInstalled, StoreDisabled, StoreReady
  <2>4. CASE s # job[t].server
    BY <2>3, <2>4
  <2>5. CASE s = job[t].server
    <3>1. Busy(s)
      BY <2>5 DEF Busy
    <3>2. installations'[s].status = "ready" => installations'[s].enabled
      <4>1. CASE StoreFailed(t)
        BY <2>2, <2>5, <4>1 DEF StoreFailed, Installation
      <4>2. CASE StoreInstalled(t)
        BY <2>2, <2>5, <4>2 DEF StoreInstalled
      <4>3. CASE StoreDisabled(t)
        BY <2>2, <2>5, <4>3 DEF StoreDisabled, Installation
      <4>4. CASE StoreReady(t)
        BY <2>2, <2>5, <4>4 DEF StoreReady, Installation
      <4> QED
        BY <2>1, <4>1, <4>2, <4>3, <4>4
    <3> QED
      BY <3>1, <3>2 DEF Ready
  <2> QED
    BY <2>4, <2>5
<1> QED
  BY <1>1, <1>2, <1>3 DEF Next

\* What the last conjunct of OfferInv(c) says of tool n of server s.
Exact(c, s, n) ==
  IF call[c].listed[n] = None
  THEN n \in call[c].offered <=>
         Ready(s) /\ n \in installations[s].published /\ n \in Allowed[c]
  ELSE /\ call[c].listed[n] = s
       /\ n \notin call[c].offered
       /\ Ready(s) /\ n \in installations[s].published

LEMMA OwnNamesType ==
  ASSUME NEW s \in Servers PROVE OwnNames(s) \subseteq Names
BY NamesOfType DEF OwnNames

\* A server nobody works on has exactly its published tools bound to it.
LEMMA BoundIfPublished ==
  ASSUME CollisionFree, IInv, NEW s \in Servers, ~Busy(s), NEW n \in OwnNames(s)
  PROVE  /\ entries[n] = s <=> Ready(s) /\ n \in installations[s].published
         /\ entries[n] # None => entries[n] = s
<1>1. n \in Names /\ s # None
  BY OwnNamesType, ConstantsOK
<1>2. Mirrored(s)
  BY DEF IInv, ServerInv
<1>3. entries[n] # None => entries[n] = s
  <2>1. ASSUME entries[n] # None PROVE entries[n] = s
    <3>1. entries[n] \in Servers /\ n \in OwnNames(entries[n])
      BY <1>1, <2>1 DEF IInv, TypeOK, ServerInv, Owned
    <3> QED
      BY <3>1, DisjointNames
  <2> QED
    BY <2>1
<1> QED
  BY <1>1, <1>2, <1>3 DEF Mirrored, Owned

LEMMA OfferStep ==
  ASSUME CollisionFree, IInv, CallInv, [SystemNext]_sysVars,
         NEW c \in Requests
  PROVE  OfferInv(c)'
<1> USE DEF Step
<1>1. /\ TypeOK /\ CallTypeOK /\ OfferInv(c) /\ LookupInv(c)
      /\ call[c] \in Call /\ call \in [Requests -> Call]
  BY DEF CallInv, CallTypeOK, IInv
<1>2. CASE call'[c] = call[c]
  <2>1. ASSUME call[c].at # "idle", NEW s \in Servers \ disturbed'[c]
        PROVE  s \notin disturbed[c] /\ ~Busy(s)'
    <3>1. s \notin disturbed[c] /\ (~Busy(s)' \/ UNCHANGED sysVars)
      BY <1>1, <1>2, <2>1, Observed
    <3>2. ~Busy(s)
      BY <1>1, <2>1, <3>1 DEF OfferInv
    <3>3. UNCHANGED sysVars => (Busy(s)' <=> Busy(s))
      BY DEF sysVars, Busy
    <3> QED
      BY <3>1, <3>2, <3>3
  <2>2. ASSUME call[c].at # "idle", ~call[c].direct,
               NEW s \in Servers \ disturbed'[c], NEW n \in OwnNames(s)
        PROVE  Exact(c, s, n)'
    <3>1. s \notin disturbed[c] /\ ~Busy(s)
      BY <1>1, <2>1, <2>2 DEF OfferInv
    <3>2. Exact(c, s, n)
      BY <1>1, <2>2, <3>1 DEF OfferInv, Exact
    <3>3. installations'[s] = installations[s]
      BY <1>1, <3>1, Undisturbed, SystemIsNext
    <3> QED
      BY <1>2, <3>2, <3>3 DEF Exact, Ready
  <2> QED
    BY <1>1, <1>2, <2>1, <2>2 DEF OfferInv, Exact, OwnNames, NamesOf
<1>3. CASE Proceed(c) /\ UNCHANGED vars /\ call'[c] # call[c]
  <2>1. \A s \in Servers : /\ Busy(s)' <=> Busy(s)
                           /\ Ready(s)' <=> Ready(s)
                           /\ OwnNames(s)' = OwnNames(s)
    BY <1>3 DEF Busy, Ready, vars, OwnNames, NamesOf
  <2>2. UNCHANGED installations
    BY <1>3 DEF vars
  <2>3. ASSUME call'[c].at # "idle", NEW s \in Servers \ disturbed'[c]
        PROVE  s \notin disturbed[c] /\ ~Busy(s)
    BY <1>1, <1>3, <2>1, <2>3, Observed DEF sysVars
  \* A request that has ended.
  <2>4. ASSUME NEW r, call'[c] = Ended(r)
        PROVE  OfferInv(c)'
    <3>1. call'[c].at = "idle" /\ call'[c].direct = FALSE
      BY <2>4 DEF Ended
    <3> QED
      BY <3>1 DEF OfferInv
  \* A request that goes on with the offer it has.
  <2>5. ASSUME call[c].at # "idle", call'[c].reply = call[c].reply,
               call'[c].at # "filter",
               call'[c].at = "model" => /\ call'[c].name = None
                                        /\ ~call[c].direct,
               call'[c].listed = call[c].listed, call[c].listed = NoSpecs,
               call'[c].offered = call[c].offered,
               call'[c].direct = call[c].direct
        PROVE  OfferInv(c)'
    <3>1. ASSUME ~call[c].direct, call'[c].at # "idle",
                 NEW s \in Servers \ disturbed'[c], NEW n \in OwnNames(s)
          PROVE  Exact(c, s, n)'
      <4>1. Exact(c, s, n)
        BY <1>1, <2>3, <2>5, <3>1 DEF OfferInv, Exact
      <4> QED
        BY <2>1, <2>2, <2>5, <4>1 DEF Exact
    <3> QED
      BY <1>1, <2>1, <2>3, <2>5, <3>1 DEF OfferInv, Exact
  <2>6. CASE BeginChat(c)
    <3>1. /\ call'[c].at = "filter" /\ call'[c].listed = entries
          /\ call'[c].offered = {} /\ ~call'[c].direct
          /\ call'[c].reply = "none" /\ call'[c].name = None
      BY <1>1, <2>6 DEF BeginChat, Ended
    <3>2. ASSUME NEW s \in Servers \ disturbed'[c], NEW n \in OwnNames(s)
          PROVE  Exact(c, s, n)'
      <4>1. ~Busy(s)
        BY <2>3, <3>1, <3>2
      <4>2. /\ entries[n] = s <=> Ready(s) /\ n \in installations[s].published
            /\ entries[n] # None => entries[n] = s
        BY <3>2, <4>1, BoundIfPublished
      <4> QED
        BY <2>1, <2>2, <3>1, <4>2, ConstantsOK DEF Exact
    <3> QED
      BY <2>1, <2>3, <3>1, <3>2 DEF OfferInv, Exact
  <2>7. ASSUME NEW m \in Names, Offer(c, m) \/ Withhold(c, m)
        PROVE  OfferInv(c)'
    <3>0. /\ call[c].at = "filter" /\ ~call[c].direct
          /\ call[c].name = None
      BY <1>1, <2>7 DEF Offer, Withhold, OfferInv
    <3>1. /\ call'[c].at = "filter" /\ call'[c].reply = call[c].reply
          /\ call'[c].direct = call[c].direct
          /\ call'[c].name = call[c].name
          /\ call'[c].listed[m] = None
          /\ \A n \in Names \ {m} : call'[c].listed[n] = call[c].listed[n]
      <4>1. CASE Offer(c, m)
        BY <1>1, <3>0, <4>1 DEF Offer, Call, CallRecord
      <4>2. CASE Withhold(c, m)
        BY <1>1, <3>0, <4>2 DEF Withhold, Call, CallRecord
      <4> QED
        BY <2>7, <4>1, <4>2
    <3>2. /\ Offer(c, m) => call'[c].offered = call[c].offered \cup {m}
          /\ Withhold(c, m) => call'[c].offered = call[c].offered
      BY <1>1 DEF Offer, Withhold, Call, CallRecord
    <3>3. ASSUME NEW s \in Servers \ disturbed'[c], NEW n \in OwnNames(s)
          PROVE  Exact(c, s, n)'
      <4>1. n \in Names
        BY OwnNamesType
      <4>2. s \notin disturbed[c]
        BY <2>3, <3>1, <3>3
      <4>3. Exact(c, s, n)
        BY <1>1, <3>0, <3>3, <4>2 DEF OfferInv, Exact
      <4>4. CASE n # m
        <5>1. call'[c].listed[n] = call[c].listed[n]
          BY <3>1, <4>1, <4>4
        <5>2. n \in call'[c].offered <=> n \in call[c].offered
          BY <2>7, <3>2, <4>4
        <5> QED
          BY <2>1, <2>2, <4>3, <5>1, <5>2 DEF Exact
      <4>5. CASE n = m
        <5>1. /\ call[c].listed[m] = s /\ n \notin call[c].offered
              /\ Ready(s) /\ n \in installations[s].published
          BY <2>7, <4>3, <4>5 DEF Exact, Offer, Withhold
        <5>2. PolicyAdmits(s)
          BY <1>1, <5>1 DEF PolicyAdmits, CallInv, Ready
        <5>3. CASE Offer(c, m)
          <6>1. n \in Allowed[c]
            BY <4>5, <5>3 DEF Offer
          <6> QED
            BY <2>1, <2>2, <3>1, <3>2, <4>5, <5>1, <5>3, <6>1 DEF Exact
        <5>4. CASE Withhold(c, m)
          <6>1. n \notin Allowed[c]
            BY <4>5, <5>1, <5>2, <5>4 DEF Withhold
          <6> QED
            BY <2>1, <2>2, <3>1, <3>2, <4>5, <5>1, <5>4, <6>1 DEF Exact
        <5> QED
          BY <2>7, <5>3, <5>4
      <4> QED
        BY <4>4, <4>5
    <3> QED
      BY <1>1, <2>1, <2>3, <3>0, <3>1, <3>3 DEF OfferInv, Exact
  <2>8. CASE AskModel(c)
    <3>1. /\ call[c].at = "filter" /\ call[c].listed = NoSpecs
          /\ call'[c] = [call[c] EXCEPT !.at = "model"]
      BY <1>1, <2>8 DEF AskModel
    <3>2. ~call[c].direct
      BY <1>1, <3>1 DEF OfferInv
    <3>3. /\ call'[c].name = call[c].name /\ call[c].name = None
          /\ call'[c].at = "model" /\ call'[c].reply = call[c].reply
          /\ call'[c].listed = call[c].listed
          /\ call'[c].offered = call[c].offered
          /\ call'[c].direct = call[c].direct
      BY <1>1, <3>1 DEF OfferInv, Call, CallRecord
    <3> QED
      BY <2>5, <3>1, <3>2, <3>3
  <2>9. ASSUME NEW n \in Names, ModelCalls(c, n)
        PROVE  OfferInv(c)'
    <3>1. CASE n \notin Allowed[c]
      BY <1>1, <2>4, <2>9, <3>1 DEF ModelCalls, Called
    <3>2. CASE n \in Allowed[c]
      <4>1. /\ call[c].at = "model"
            /\ call'[c] = [call[c] EXCEPT !.at = "spec", !.name = n]
        BY <1>1, <2>9, <3>2 DEF ModelCalls, Called
      <4>2. call[c].listed = NoSpecs
        BY <1>1, <4>1 DEF OfferInv
      <4> QED
        BY <1>1, <2>5, <4>1, <4>2 DEF Call, CallRecord
    <3> QED
      BY <3>1, <3>2
  <2>10. ASSUME NEW n \in Names, DirectCall(c, n)
         PROVE  OfferInv(c)'
    <3>1. CASE n \notin Allowed[c]
      BY <1>1, <2>4, <2>10, <3>1 DEF DirectCall, Called
    <3>2. CASE n \in Allowed[c]
      <4>1. call'[c] = [[Ended("none") EXCEPT !.direct = TRUE]
                          EXCEPT !.at = "spec", !.name = n]
        BY <1>1, <2>10, <3>2 DEF DirectCall, Called
      <4>2. /\ call'[c].at = "spec" /\ call'[c].direct
            /\ call'[c].reply = "none" /\ call'[c].listed = NoSpecs
            /\ call'[c].offered = {}
        BY <4>1 DEF Ended
      <4> QED
        BY <2>1, <2>3, <4>2 DEF OfferInv
    <3> QED
      BY <3>1, <3>2
  <2>11. CASE ModelAnswers(c) \/ ExecutorFails(c)
    BY <1>1, <2>4, <2>11 DEF ModelAnswers, ExecutorFails
  <2>12. ASSUME call[c].at \notin {"idle", "filter"},
                call'[c].at \notin {"idle", "filter", "model"},
                call'[c].reply = call[c].reply,
                call'[c].listed = call[c].listed,
                call'[c].offered = call[c].offered,
                call'[c].direct = call[c].direct
         PROVE  OfferInv(c)'
    <3>1. call[c].listed = NoSpecs
      BY <1>1, <2>12 DEF OfferInv
    <3> QED
      BY <2>5, <2>12, <3>1
  <2>13. CASE GetSpec(c)
    <3>1. \/ call'[c] = Ended("tool_not_found")
          \/ call'[c] = [call[c] EXCEPT !.spec = entries[call[c].name],
                                        !.at = "executor"]
      BY <1>1, <2>13 DEF GetSpec
    <3> QED
      BY <1>1, <2>4, <2>12, <2>13, <3>1 DEF GetSpec, Call, CallRecord
  <2>14. CASE GetExecutor(c)
    <3>1. \/ call'[c] = Ended("tool_not_found")
          \/ call'[c] = [call[c] EXCEPT !.executor = entries[call[c].name],
                                        !.at = "policy"]
      BY <1>1, <2>14 DEF GetExecutor
    <3> QED
      BY <1>1, <2>4, <2>12, <2>14, <3>1 DEF GetExecutor, Call, CallRecord
  <2>15. CASE CheckPolicy(c)
    <3>1. \/ call'[c] = Ended("tool_not_allowed")
          \/ call'[c] = [call[c] EXCEPT !.at = "validate"]
      BY <1>1, <2>15 DEF CheckPolicy
    <3> QED
      BY <1>1, <2>4, <2>12, <2>15, <3>1 DEF CheckPolicy, Call, CallRecord
  <2>16. CASE ValidArguments(c)
    <3>1. /\ call[c].at = "validate"
          /\ call'[c] = [call[c] EXCEPT !.at = "run"]
      BY <1>1, <2>16 DEF ValidArguments
    <3> QED
      BY <1>1, <2>12, <3>1 DEF Call, CallRecord
  <2>17. CASE InvalidArguments(c) \/ ExecutorReturns(c)
    <3>1. /\ call[c].at \in {"validate", "run"} /\ call'[c] = Resumed(c)
          /\ call[c].listed = NoSpecs
      BY <1>1, <2>17 DEF InvalidArguments, ExecutorReturns, OfferInv
    <3>2. CASE call[c].direct
      BY <2>4, <3>1, <3>2 DEF Resumed
    <3>3. CASE ~call[c].direct
      <4>1. call'[c] = [call[c] EXCEPT !.at = "model", !.name = None,
                                       !.spec = None, !.executor = None]
        BY <3>1, <3>3 DEF Resumed
      <4> QED
        BY <1>1, <2>5, <3>1, <3>3, <4>1 DEF Call, CallRecord
    <3> QED
      BY <3>2, <3>3
  <2> QED
    BY <1>3, <2>6, <2>7, <2>8, <2>9, <2>10, <2>11, <2>13, <2>14, <2>15, <2>16,
       <2>17 DEF Proceed
<1> QED
  BY <1>1, <1>2, <1>3, Observed

(***************************************************************************)
(* The inductive invariant of the composition.                             *)
(***************************************************************************)

LEMMA CallInductive ==
  ASSUME CollisionFree, Serialised
  PROVE  SystemSpec => [](IInv /\ CallInv)
<1>1. SystemInit => IInv /\ CallInv
  <2> SUFFICES ASSUME SystemInit PROVE IInv /\ CallInv
    OBVIOUS
  <2>1. BoundToMaker
    BY DEF SystemInit, Init, BoundToMaker, Answered
  <2>2. \A s \in Servers : Ready(s) => installations[s].enabled
    BY DEF SystemInit, Init, Ready, NotInstalled
  <2>3. \A c \in Requests : LookupInv(c) /\ OfferInv(c)
    BY DEF SystemInit, LookupInv, OfferInv, Ended
  <2> QED
    BY <2>1, <2>2, <2>3, CallTypeInit, InductiveInit DEF SystemInit, CallInv
<1>2. IInv /\ CallInv /\ [SystemNext]_sysVars => IInv' /\ CallInv'
  <2> SUFFICES ASSUME IInv, CallInv, [SystemNext]_sysVars
               PROVE  IInv' /\ CallInv'
    OBVIOUS
  <2>1. TypeOK /\ CallTypeOK /\ [Next]_vars
    BY SystemIsNext DEF IInv, CallInv
  <2>2. IInv'
    BY <2>1, InductiveStep
  <2>3. \A s \in Servers : Ready(s)' => installations'[s].enabled
    BY <2>1, Undisturbed DEF CallInv, Ready
  <2> QED
    BY <2>1, <2>2, <2>3, CallTypeStep, BoundStep, LookupStep, OfferStep
    DEF CallInv
<1> QED
  BY <1>1, <1>2, PTL DEF SystemSpec

\* For serialised clients and names without collisions, what a request has
\* read of the dictionaries is bound to them by CallInv at every moment.
THEOREM CallInvariant ==
  ASSUME CollisionFree, Serialised
  PROVE  SystemSpec => []CallInv
BY CallInductive, PTL

\* Under the same hypotheses the tools a model was offered stay exactly those
\* its client allows and a server has published, as long as nobody
\* administers that server.
THEOREM OffersStayCurrent ==
  ASSUME CollisionFree, Serialised
  PROVE  SystemSpec => []OfferIsCurrent
<1>1. ASSUME IInv, CallInv PROVE OfferIsCurrent
  <2> SUFFICES ASSUME NEW c \in Requests, call[c].at \notin {"idle", "filter"},
                      ~call[c].direct, NEW s \in Servers \ disturbed[c]
               PROVE  call[c].offered \cap OwnNames(s)
                        = IF Ready(s)
                          THEN installations[s].published \cap Allowed[c]
                          ELSE {}
    BY DEF OfferIsCurrent
  <2>1. \A n \in OwnNames(s) :
          n \in call[c].offered <=>
            Ready(s) /\ n \in installations[s].published /\ n \in Allowed[c]
    BY <1>1, OwnNamesType DEF CallInv, OfferInv, NoSpecs
  <2>2. /\ installations[s].published \subseteq OwnNames(s)
        /\ call[c].offered \subseteq Names
    BY <1>1 DEF IInv, ServerInv, CallInv, CallTypeOK, Call, CallRecord
  <2> QED
    BY <2>1, <2>2
<1> QED
  BY <1>1, CallInductive, PTL

\* A call that is refused although its tool was offered: its server has been
\* administered since the request began.
LEMMA RefusalStep ==
  ASSUME CollisionFree, IInv, CallInv, [SystemNext]_sysVars,
         NEW c \in Requests, call[c].at # "idle", call'[c].reply \in Refusals,
         NEW s \in Servers, call[c].name \in call[c].offered \cap OwnNames(s)
  PROVE  s \in disturbed[c]
<1> SUFFICES ASSUME s \notin disturbed[c] PROVE FALSE
  OBVIOUS
<1> USE DEF Step
<1>1. /\ TypeOK /\ CallTypeOK /\ OfferInv(c) /\ LookupInv(c)
      /\ call[c] \in Call /\ call \in [Requests -> Call]
  BY DEF CallInv, CallTypeOK, IInv
<1>2. /\ call[c].reply = "none" /\ ~call[c].direct /\ ~Busy(s)
      /\ call[c].name \in Names /\ call[c].name # None
  BY <1>1, OwnNamesType, ConstantsOK DEF OfferInv
<1>3. call[c].at \notin {"filter", "model"} /\ call[c].listed = NoSpecs
  BY <1>1, <1>2 DEF OfferInv
<1>4. Proceed(c)
  <2>1. call'[c] # call[c]
    BY <1>2 DEF Refusals
  <2> QED
    BY <1>1, <2>1, Observed
<1>5. Ready(s) /\ call[c].name \in installations[s].published
  BY <1>1, <1>2, <1>3 DEF OfferInv, NoSpecs
<1>6. entries[call[c].name] = s
  BY <1>2, <1>5, BoundIfPublished
<1>7. PolicyAdmits(s)
  BY <1>5 DEF PolicyAdmits, CallInv, Ready
<1>8. entries[call[c].name] # None
  BY <1>6, ConstantsOK
<1>9. CASE GetSpec(c)
  BY <1>1, <1>2, <1>8, <1>9 DEF GetSpec, Refusals, Call, CallRecord
<1>10. CASE GetExecutor(c)
  BY <1>1, <1>2, <1>8, <1>10 DEF GetExecutor, Refusals, Call, CallRecord
<1>11. CASE CheckPolicy(c)
  <2>1. /\ call[c].spec \in Servers
        /\ call[c].name \in OwnNames(call[c].spec)
    BY <1>1, <1>11 DEF CheckPolicy, LookupInv
  <2>2. call[c].spec = s
    BY <2>1, DisjointNames
  <2> QED
    BY <1>1, <1>2, <1>7, <1>11, <2>2 DEF CheckPolicy, Refusals, Call, CallRecord
<1>12. CASE ValidArguments(c)
  BY <1>1, <1>2, <1>12 DEF ValidArguments, Refusals, Call, CallRecord
<1>13. CASE InvalidArguments(c) \/ ExecutorReturns(c)
  <2>1. call'[c] = [call[c] EXCEPT !.at = "model", !.name = None,
                                   !.spec = None, !.executor = None]
    BY <1>1, <1>2, <1>13 DEF InvalidArguments, ExecutorReturns, Resumed
  <2> QED
    BY <1>1, <1>2, <2>1 DEF Refusals, Call, CallRecord
<1>14. CASE ExecutorFails(c)
  BY <1>1, <1>14 DEF ExecutorFails, Ended, Refusals
<1>15. ASSUME NEW n \in Names,
              \/ Offer(c, n) \/ Withhold(c, n)
              \/ ModelCalls(c, n) \/ DirectCall(c, n)
       PROVE  FALSE
  BY <1>3, <1>15 DEF Offer, Withhold, ModelCalls, DirectCall
<1>16. CASE BeginChat(c) \/ AskModel(c) \/ ModelAnswers(c)
  BY <1>3, <1>16 DEF BeginChat, AskModel, ModelAnswers
<1> QED
  BY <1>4, <1>9, <1>10, <1>11, <1>12, <1>13, <1>14, <1>15, <1>16 DEF Proceed

\* Under the same hypotheses a call of an offered tool is refused only after
\* its server has been administered.
THEOREM RefusalsAreCaused ==
  ASSUME CollisionFree, Serialised
  PROVE  SystemSpec => RefusalsHaveACause
<1>1. IInv /\ CallInv /\ [SystemNext]_sysVars =>
        [\A c \in Requests :
           call[c].at # "idle" /\ call'[c].reply \in Refusals =>
             \A s \in Servers :
               Sole(s) /\ call[c].name \in call[c].offered \cap OwnNames(s) =>
                 s \in disturbed[c]]_sysVars
  BY RefusalStep
<1> QED
  BY <1>1, CallInductive, PTL DEF SystemSpec, RefusalsHaveACause
==============================================================================
