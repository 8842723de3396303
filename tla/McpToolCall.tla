----------------------------- MODULE McpToolCall -----------------------------
(***************************************************************************)
(* Tool calls beside the MCP control plane: what a chat request, or the    *)
(* debug path "tool_call" of router/app.py, reads of the dictionaries that *)
(* the threads of McpControlPlane change.                                  *)
(*                                                                         *)
(*   - _resolve_request_tools (app.py:374) lists the specs of the registry *)
(*     once and asks the policy about each of them: this is what the model *)
(*     is offered;                                                         *)
(*   - for every call of the model ToolOrchestrator.run                    *)
(*     (tools/orchestrator.py:27) reads the spec, then the executor, then  *)
(*     the policy reads the state of the server the spec is bound to, and  *)
(*     then the executor runs.                                             *)
(*                                                                         *)
(* Each of these reads is a step of its own, so each may be out of date    *)
(* when the next one happens.  How the loop orders the calls of a plan and *)
(* counts them is ToolLoop's matter: here a request calls tools until it   *)
(* is answered.  Native tools, which nobody registers or withdraws while   *)
(* the router runs, are left out.                                          *)
(***************************************************************************)
EXTENDS McpControlPlane

CONSTANTS
  Requests,   \* request threads that call tools
  Allowed     \* Allowed[c]: the MCP tools in allowed_tools of request c

ASSUME RequestsOK == Allowed \in [Requests -> SUBSET Names]

VARIABLES
  call,       \* call[c]: where request c is, and its locals
  \* History, not in the program:
  disturbed,  \* disturbed[c]: servers administered since request c began
  wasReady    \* wasReady[c]: servers ready at some moment of c's tool call

sysVars == <<installations, entries, job, call, disturbed, wasReady>>

CallReplies == {"none", "answer", "tool_not_allowed", "tool_not_found",
                "tool_error"}

CallRecord ==
  [at : {"idle", "filter", "model", "executor", "spec", "policy", "validate",
         "run"},
   direct : BOOLEAN,                         \* the debug path
   listed : [Names -> Servers \cup {None}],  \* specs not yet filtered
   offered : SUBSET Names,                   \* request.tools
   name : Names \cup {None},                 \* the tool being called
   spec : Servers \cup {None},               \* spec.mcp_binding.server_id
   executor : Servers \cup {None},           \* the server the executor invokes
   reply : CallReplies]

Call == {r \in CallRecord :
           r.at \in {"spec", "executor", "policy", "validate", "run"} =>
             r.name \in Names}

NoSpecs == [n \in Names |-> None]

Ended(r) ==
  [at |-> "idle", direct |-> FALSE, listed |-> NoSpecs, offered |-> {},
   name |-> None, spec |-> None, executor |-> None, reply |-> r]

CallTypeOK == /\ call \in [Requests -> Call]
              /\ disturbed \in [Requests -> SUBSET Servers]
              /\ wasReady \in [Requests -> SUBSET Servers]

SystemInit == /\ Init
              /\ call = [c \in Requests |-> Ended("none")]
              /\ disturbed = [c \in Requests |-> {}]
              /\ wasReady = [c \in Requests |-> {}]

\* Request c, at step "where", continues with record r.
Step(c, where, r) == /\ call[c].at = where
                     /\ call' = [call EXCEPT ![c] = r]

------------------------------------------------------------------------------
(* _resolve_request_tools: what the model is offered.                      *)

\* list_specs: all entries at one moment.
BeginChat(c) ==
  Step(c, "idle", [Ended("none") EXCEPT !.at = "filter", !.listed = entries])

\* Fault: the server need only be installed.
PolicyAdmitsInstalled(s) == installations[s].status # "absent"

\* ToolPolicy.check of a tool bound to server s that the client allows.
PolicyAdmits(s) == /\ installations[s].status # "absent"
                   /\ installations[s].enabled
                   /\ Ready(s)

Offer(c, n) ==
  /\ call[c].listed[n] # None
  /\ n \in Allowed[c]
  /\ PolicyAdmits(call[c].listed[n])
  /\ Step(c, "filter", [call[c] EXCEPT !.listed[n] = None,
                                       !.offered = @ \cup {n}])

\* Not in allowed_tools, or denied by the policy.
Withhold(c, n) ==
  /\ call[c].listed[n] # None
  /\ ~(n \in Allowed[c] /\ PolicyAdmits(call[c].listed[n]))
  /\ Step(c, "filter", [call[c] EXCEPT !.listed[n] = None])

AskModel(c) ==
  /\ call[c].listed = NoSpecs
  /\ Step(c, "filter", [call[c] EXCEPT !.at = "model"])

------------------------------------------------------------------------------
(* _run_tool_call and ToolOrchestrator.run.                                *)

\* The check of allowed_tools; what was offered is not looked at.
Called(c, n, r) ==
  IF n \in Allowed[c] THEN [r EXCEPT !.at = "spec", !.name = n]
                      ELSE Ended("tool_not_allowed")

ModelCalls(c, n) == Step(c, "model", Called(c, n, call[c]))

DirectCall(c, n) ==
  Step(c, "idle", Called(c, n, [Ended("none") EXCEPT !.direct = TRUE]))

\* The final answer, an error of the provider or of the loop's own checks.
ModelAnswers(c) == Step(c, "model", Ended("answer"))

GetSpec(c) ==
  Step(c, "spec",
       IF entries[call[c].name] = None THEN Ended("tool_not_found")
       ELSE [call[c] EXCEPT !.spec = entries[call[c].name], !.at = "executor"])

GetExecutor(c) ==
  Step(c, "executor",
       IF entries[call[c].name] = None THEN Ended("tool_not_found")
       ELSE [call[c] EXCEPT !.executor = entries[call[c].name],
                            !.at = "policy"])

CheckPolicy(c) ==
  Step(c, "policy",
       IF PolicyAdmits(call[c].spec) THEN [call[c] EXCEPT !.at = "validate"]
                                     ELSE Ended("tool_not_allowed"))

ValidArguments(c) == Step(c, "validate", [call[c] EXCEPT !.at = "run"])

\* A result goes back to the model, or to the client of the debug path.
Resumed(c) ==
  IF call[c].direct THEN Ended("answer")
  ELSE [call[c] EXCEPT !.at = "model", !.name = None, !.spec = None,
                       !.executor = None]

InvalidArguments(c) == Step(c, "validate", Resumed(c))

\* McpManagedToolExecutor.execute
ExecutorReturns(c) == Step(c, "run", Resumed(c))

\* A timeout or an exception of the executor.
ExecutorFails(c) == Step(c, "run", Ended("tool_error"))

------------------------------------------------------------------------------
Proceed(c) ==
  \/ BeginChat(c)
  \/ \E n \in Names :
       Offer(c, n) \/ Withhold(c, n) \/ ModelCalls(c, n) \/ DirectCall(c, n)
  \/ AskModel(c)
  \/ ModelAnswers(c)
  \/ GetSpec(c)
  \/ GetExecutor(c)
  \/ CheckPolicy(c)
  \/ ValidArguments(c)
  \/ InvalidArguments(c)
  \/ ExecutorReturns(c)
  \/ ExecutorFails(c)

InToolCall(r) == r.at \in {"executor", "policy", "validate", "run"}

\* The history variables follow every step of the system.
Observe ==
  /\ disturbed' =
       [c \in Requests |->
          IF call'[c].at = "idle" THEN {}
          ELSE disturbed[c] \cup {s \in Servers : Busy(s)'}]
  /\ wasReady' =
       [c \in Requests |->
          IF InToolCall(call'[c])
          THEN wasReady[c] \cup {s \in Servers : Ready(s)'}
          ELSE {}]

AdminStep == Next /\ UNCHANGED call /\ Observe

CallStep == (\E c \in Requests : Proceed(c)) /\ UNCHANGED vars /\ Observe

SystemNext == AdminStep \/ CallStep

SystemSpec == SystemInit /\ [][SystemNext]_sysVars

------------------------------------------------------------------------------
(* Properties.                                                             *)

\* Server s has at most one administrator.
Sole(s) ==
  \A t1, t2 \in Threads : s \in Assigned[t1] \cap Assigned[t2] => t1 = t2

\* "Policy and schema validation before the tool is executed"
\* (docs/tools.md:66), although the spec, the executor and the state of the
\* server are read one after the other: the server whose tool runs was ready
\* at some moment since the call was looked up, however often it and others
\* were installed, enabled and disabled in between.
RunsOnlyReadyServers ==
  \A c \in Requests : call[c].at = "run" => call[c].executor \in wasReady[c]

\* While nobody administers a server, what the model was offered of its tools
\* stays exact for the whole request (app.py:393): all the server has
\* published and the client allows, and nothing of a server that is not ready.
OfferIsCurrent ==
  \A c \in Requests :
    call[c].at \notin {"idle", "filter"} /\ ~call[c].direct =>
      \A s \in Servers \ disturbed[c] :
        Sole(s) => call[c].offered \cap OwnNames(s)
                     = IF Ready(s) THEN installations[s].published \cap Allowed[c]
                                   ELSE {}

\* A call of an offered tool is refused ("tool_not_found", "tool_not_allowed")
\* only if somebody has administered its server since the request began.
Refusals == {"tool_not_found", "tool_not_allowed"}

RefusalsHaveACause ==
  [][\A c \in Requests :
       call[c].at # "idle" /\ call'[c].reply \in Refusals =>
         \A s \in Servers :
           Sole(s) /\ call[c].name \in call[c].offered \cap OwnNames(s) =>
             s \in disturbed[c]]_sysVars

------------------------------------------------------------------------------
(* The inductive strengthening.                                            *)

\* A name is bound, or about to be bound, to the server it is made from; this
\* needs no serialised clients.
BoundToMaker ==
  /\ \A n \in Names : entries[n] # None => n \in OwnNames(entries[n])
  /\ \A t \in Threads :
       job[t].at = "register" => job[t].name \in OwnNames(job[t].server)

\* What a call has read, and may still rely on.
LookupInv(c) ==
  /\ call[c].at \in {"executor", "policy", "validate", "run"} =>
       /\ call[c].spec \in Servers
       /\ call[c].name \in OwnNames(call[c].spec)
  /\ call[c].at \in {"policy", "validate", "run"} =>
       call[c].executor = call[c].spec
  /\ call[c].at \in {"validate", "run"} => call[c].spec \in wasReady[c]

\* Nobody works on an undisturbed server.  A tool of it that the filter has
\* still to look at is bound to it; one that the filter has seen is offered
\* if it is published and allowed.
OfferInv(c) ==
  /\ call[c].at \in {"filter", "model"} => call[c].name = None
  /\ call[c].at # "idle" => call[c].reply = "none"
  /\ call[c].at \in {"filter", "model"} => ~call[c].direct
  /\ call[c].at \notin {"idle", "filter"} => call[c].listed = NoSpecs
  /\ call[c].direct => call[c].offered = {}
  /\ call[c].at # "idle" => \A s \in Servers \ disturbed[c] : ~Busy(s)
  /\ call[c].at # "idle" /\ ~call[c].direct =>
       \A s \in Servers \ disturbed[c] : \A n \in OwnNames(s) :
         IF call[c].listed[n] = None
         THEN n \in call[c].offered <=>
                Ready(s) /\ n \in installations[s].published /\ n \in Allowed[c]
         ELSE /\ call[c].listed[n] = s
              /\ n \notin call[c].offered
              /\ Ready(s) /\ n \in installations[s].published

CallInv == /\ CallTypeOK
           /\ BoundToMaker
           /\ \A s \in Servers : Ready(s) => installations[s].enabled
           /\ \A c \in Requests : LookupInv(c) /\ OfferInv(c)
==============================================================================
