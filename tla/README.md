# infra-ai in TLA+

A verification project for the infra-ai router: TLA+ modules of its parts, TLC
configurations that check them on small instances, and TLAPS proofs of the properties
that matter most. Paths and line numbers refer to the repository (`src/`).

* [The system](#the-system): components, state, interaction, what is hard
* [Modules](#modules): how state and actions correspond to the code
* [Runs](#runs): what each checks, bounds, fairness
* [Proofs](#proofs): what holds for every value of the constants
* [Where code and documents differ](#where-code-and-documents-differ)
* [Not modelled](#not-modelled) and [what could come next](#what-could-come-next)

## The system

The router is one Python process. `ThreadingHTTPServer` gives every request a thread; the
threads share a few dictionaries, and there are no locks.

| Component | State | Operations | Interacts with |
|---|---|---|---|
| HTTP front end (`router/app.py`) | none of its own; one request per thread | read and validate a body, choose a provider, run the tool loop or relay a stream, answer | everything below |
| Routing (`router/policies.py`) | configuration, fixed at start | route to provider, disabled routes | front end |
| Provider adapters (`router/providers/`) | none | call an upstream with a timeout, classify its errors, stream | upstream APIs, parser |
| Parser (`router/provider_output/`) | none | an upstream answer to a plan, a final answer or an error | execution plan |
| Conversation and plans (`router/conversation.py`) | turns, steps and the current plan of one request | validate, materialise and advance a plan; rebuild steps from turns | tool loop, adapters |
| Tool loop (`router/tool_loop.py`) | turns, budget, window of recent calls | ask the model, check its plan, run the calls | adapters, orchestrator |
| Policy and orchestrator (`router/tools/policy.py`, `orchestrator.py`) | none | permit a call, validate its arguments, run it with a timeout | registry, MCP manager |
| Tool registry (`router/tools/registry.py`) | shared dictionary of tools | has, register, unregister, look up | MCP manager, orchestrator |
| MCP control plane (`router/tools/mcp.py`) | shared dictionary of installations | install, enable (with discovery over HTTP), disable | registry |
| Start and stop scripts (`scripts/`) | pid file, processes, the port, vLLM | start, wait, stop | the operating system, docker compose |
| Core tools (`router/tools/core_tools.py`) | none; they read the workspace | read a text, list a directory, git status, git diff, each within a limit | orchestrator, file system, git |
| Command line client (`cli/`) | one terminal session: its place in the dialogs, what it has shown | choose tools, administer MCP servers, chat | front end, MCP endpoints |
| Example tools, bootstrap and health scripts, vLLM | none of their own | see [Not modelled](#not-modelled) | |

What makes these parts hard to get right, and what correctness means for each:

* *Control plane*: requests for one server overlap, and discovery takes time between the
  reading and the storing of an installation. The registry has to mirror the ready servers,
  no tool may be left behind that nobody will withdraw, and no request may raise or hang.
* *Tool loop*: budget, repeat window, dependencies and strategy are checked in several places
  that have to agree over several answers of a model that may ask for anything. The loop has
  no bound of its own.
* *Chat request*: the provider can fail in every phase, the client can leave in every phase;
  errors have to be classified, streams relayed to the last byte.
* *Tool calls beside the control plane*: the offer to the model, the spec, the executor and the
  state of the server are four reads of what other threads are changing. Nothing may run that
  was not ready, and a refusal needs a cause.
* *What providers are sent*: the conversation is rebuilt from turns in every round. Both
  services refuse a call without its result or a result without its call.
* *Core tools*: a byte limit cuts characters, entries come and go while they are listed; the
  flags and counts in the answer have to be exact nevertheless, and an exception of the
  operating system ends the whole request of the client (`tool_execution_failed`): it must
  have a cause in what the call has to touch.
* *Command line client*: it gives up after 120 seconds and never says so; the thread it leaves
  behind works on beside the next session. What the user was shown has to be true, and
  nothing may be done without a yes.
* *Scripts*: they can be interrupted at every command, routers crash, process ids are reused,
  routers are also started by hand, and anybody can answer on the port, or never answer.

`PROJECT.json` lists the single hazards with their lines under `hazards`.

## Modules

| Module | Models | Abstract specification / composition |
|---|---|---|
| `McpControlPlane` | MCP manager and registry under concurrent requests | implements `ToolDirectory` |
| `McpToolCall` | requests that offer and call MCP tools beside the control plane | composes with `McpControlPlane` |
| `CliSession` | a terminal session and the router it administers | composes with `McpControlPlane` |
| `ExecutionPlan` | plans as pure operators: validation, materialisation, progress | used by `ToolLoop`, `TurnHistory` |
| `ToolLoop` | `ToolLoopEngine.run` with parser, policy and orchestrator as it meets them | implements `ToolQueue` |
| `TurnHistory` | `execution_steps_from_turns`, compared with the running loop | extends `ToolLoop` |
| `ProviderTranscript` | the messages and items a provider is sent in every round | extends `TurnHistory` |
| `CoreTools` | the four core tools, access by access, beside an editor | |
| `ChatRequest` | one `POST /v1/chat/completions` with client and provider | takes the tool loop's outcomes and its budget as given |
| `RouterLifecycle` | `start.sh`, `stop.sh`, pid file, processes | |
| `MC...` | instances for TLC | |
| `..._proofs` | theorems and proofs | |

A few modules hold operators with the comment "Fault": a definition as a plausible bug would
have it (a guard dropped, a boundary shifted, an order swapped). No specification uses them.
Each is there to be put in the place of the definition that follows it, upon which TLC finds
the property violated that `mutants` in `PROJECT.json` names: this shows that the property
depends on the code being right.

### McpControlPlane

`installations[s]` and `entries[n]` are the two shared dictionaries. `job[t]` is what a
thread has in its local variables: its place, its server, the installation it has `seen`,
the tools it has `found`, the names it has yet to withdraw. Every access to a dictionary is
one action, because another thread may run between any two: `register` is `RegisterTest`
and `RegisterSet`, `_unpublish` is `UnpublishRead`, `SkipName`/`FoundName`,
`UnregisterTest`, `UnregisterDelete`, `UnpublishDone`. A failing discovery is
`CatalogFails` or a `Discover` that finds nothing, which stores the error and withdraws
afterwards. `Assigned` says which servers the clients of a thread administer; `RegName` is the
normalisation of tool names, which may map tools of two servers to one name.

`ToolDirectory` is the promise: a server becomes ready with nothing listed, tools are added only
while it is ready, and one that is no longer ready can only have its tools withdrawn.

### McpToolCall

`call[c]` is the place of a request and what it has read: the specs it has `listed`, the tools it
has `offered`, the name, spec and executor of the tool it calls. `BeginChat`, `Offer` and
`Withhold` are `_resolve_request_tools`; `GetSpec`, `GetExecutor`, `CheckPolicy` and
`ValidArguments` or `InvalidArguments` are the lines of `ToolOrchestrator.run`, one read each.
`DirectCall` is the debug path. All steps of `McpControlPlane` go on in between. `disturbed` and
`wasReady` are history variables. How a plan orders and counts its calls is left to `ToolLoop`.

### CliSession

`session` is the place in the dialogs of `mcp_manager.py`; `wait` is a `POST` whose request thread
is one of `McpControlPlane`'s. `Serve(t)` is a step of such a thread, `HearDone` and `HearError`
read its answer, `GiveUp` is the client's timeout or an interrupt, after which the thread
belongs to nobody. `told` and `consent` are history variables: what the user has been shown of
each server (`unknown` if a request that was given up was still changing it), and what
they have agreed to.

### CoreTools

`tree` is the workspace: one directory whose entries are files, links, directories or absent. A
text is a sequence of kinds of bytes: `A` a whole character, `L2` and `L3` leading bytes, `C` a
continuation; `Decoded` says where decoding stops and why, `IsText` what a text is, byte by byte and
without decoding. Every access to the file system is a step, and
`Edit` may come between any two. git is external: it prints any of some outputs, or fails.

`host` is what the operating system refuses the router: to look at a path (`unseen`), to open a
file or to list a directory (`unread`), to run git at all. An access that is not `Granted` raises
(`AccessRefused`): `open` at `core_tools.py:46`, `is_file` and `is_dir` (41, 97, 373-375), `iterdir`
(353), `stat` (366), `subprocess.run` (461). So does a path that does not resolve (392, a NUL or a
loop of links, `ResolveRaises`, with the `pathlib` of Python 3.11, which the repository's CI uses). All of them reach `tool_loop.py:255`. Permissions may change in the
middle of a call like everything else.

Assumptions: a workspace root is configured and there; a name too long for the file system is
one that may not be looked at.

### ExecutionPlan, ToolLoop, TurnHistory, ProviderTranscript

A plan is a sequence of nodes with call, strategy dependency, status and result. Argument
objects are values, equal when their sorted JSON is. `ToolLoop` has one action per way an
answer of the model can be taken (`ProviderFails`, `MalformedCall`, `FinalAnswer`,
`DuplicateCallId`, `UnknownDependency`, `ParsePlan`), one for every check of a plan (`Exceeds`,
`Repeats`, then `CheckPlan`), and one for every outcome of a call, from `NotPermitted` to
`ToolRaises`. `at` is the place in the loop: `generate`, `check`, `run`, `execute`, `done`.
`started`, `served` and `steps` are history variables.

`ToolQueue` is the abstract view: an accepted plan is a queue of calls, served from its head,
with a budget that the log of served calls never exceeds.

`TurnHistory` translates the reconstruction of steps from the flat list of turns, which the
adapters use, as a recursive function over turns.

`ProviderTranscript` adds the `GenerationRequest` of the client with the messages it keeps.
`CurrentRequest` is the copy a round makes of it, `Messages` is `turns_to_messages` with its
pending assistant message, `ResponsesInput` what the adapter of the Responses API makes of the
messages. The chat form of vLLM is the messages themselves.

### ChatRequest

`at` follows the handler: `read`, `validate`, then `tool` or `select`, `call`, `await`,
`loop` and `head`, `relay`, `done`. A request is a record of what the handler tells apart: the
kind of its body, the *set* of its defects (the type of error each check would answer),
whether it is a tool call, a stream, its route, and whether it names a model. Everything a
provider can do is an action: it refuses with any status that `urllib` raises as an `HTTPError`
(everything but 2xx; redirections that are followed are part of the provider's answer) and any
error body, times out, cannot be reached, breaks the protocol, lets the body of its error stall,
answers without JSON, finally, or with tool calls.

`config` has a value for each of eleven settings. `ValidConfig` is the list of `validate_config`,
setting by setting; `Configured` is what the adapter of the route asks for in every call, by its
own list and test (`gemini_fallback.py:43`, `responses.py:62`), the model of the slot included.
A setting can be there and be of no use in a request, a URL without a scheme for
instance: then `MakesNoRequest` says what becomes of the exception.

A stream is counted in units; `Forward` relays what `read(1024)` returns. "Dropped"
means the thread ends with an uncaught exception and the connection closes. `reached` and
`failure` are history variables.

### RouterLifecycle

`script[t]` is where the script of a terminal stands, one place per command; the redirection
of `echo` is two (`Truncate`, `WritePid`). `proc[p]` is what runs under a pid: a router of
`start.sh`'s, one started by hand (`README.md:100-112` of the repository), either of them dying
after `SIGTERM`, or another program of this or of another user (`kill -0` fails for the latter).
`port` is the process that listens on the router's port: any of them may. A router that finds
the port taken dies. `curl` succeeds if a router listens, or whatever else answers there; it fails if
nobody does, or somebody answers badly; and it may never return (`Hangs`). An interrupt ends a script
anywhere outside `Unbroken`.

Assumptions: between the examination of a pid and the signal to it (`stop.sh:23-24`) the pid does
not go to another process (`Targeted`), at any other time it may; other programs do not have
`router.app` in their command lines; a router that was sent `SIGTERM` does not serve any more;
docker compose returns, brings vLLM down when it is asked to, and up at some time or never.

## Runs

They take about ten minutes together, `CliSession` the longest with two to three; the states are the distinct states TLC finds.

| Run | Question | Instance | States |
|---|---|---|---|
| `McpSerialised` | With one administrator per server and distinct names: does the registry mirror the ready servers in every interleaving, does no registry call raise, does nobody touch another server's tools, is every step of a request one less to come, is `ToolDirectory` implemented? | 2 servers, 2 tools each, 2 threads; each discovery finds any subset | 213,444 |
| `McpOverlap` (violated) | Are tools registered only for ready servers? | 2 threads on 1 server with 1 tool | |
| `McpCollision` (violated) | Are the tools of a ready server registered? | 1 thread, 2 servers whose tools share a name | |
| `McpToolCall` | Does only what was ready run, is the offer exact while nobody disturbs it, has every refusal a cause? | 1 request, 2 threads with a server each, 1 tool each that is listed at times | 1,582,049 |
| `CliSession` | Is the user told the truth, asked before everything, and answered at last, also after giving up? | 1 terminal, 1 server with 1 tool, 2 request threads | 613,461 |
| `ToolLoop` | Do budget, window, dependencies, plan checks and history hold for whatever the model answers, do steps and messages rebuilt from the turns tell what happened, does a request end, and is every step of it one less to come? | budget 3, window 2; all plans of up to two of eight calls and three longer ones; two allowlists; two lists of client messages | 216,068 |
| `ToolLoopBlame` (violated) | Are errors of the model never reported as errors of the client? | as `ToolLoop` | |
| `CoreTools` | Are texts cut at characters, lists exact, counts right, and has every exception a cause? | all texts of up to 3 bytes and five longer ones, limits 0 to 4 and the default, 4 entries, seven kinds of host | 750,548 |
| `ChatRequest` | Are defects refused, is the right provider asked and is it configured, are errors stable, streams whole, and does every request end? | requests of every kind, one setting of eleven at a time missing, blank, a placeholder or useless, one status per class and a 3xx, payloads of every kind, 5 units of stream, 2 per read, 3 rounds | 287,868 |
| `ChatFailures` (violated) | Does a waiting client always hear of a failure of the provider? | as `ChatRequest` | |
| `RouterLifecycle` | One named router of `start.sh`'s, stopping really stops, others are spared, scripts end unless `curl` never returns? | 1 terminal, 3 pids, 2 attempts, interrupts everywhere but before the router is named | 141,336 |
| `RouterTwoStarts` (violated) | Does the pid file block a second start? | 2 terminals, 3 pids, no interrupts | |

### Why the bounds are enough

* Two threads and two servers give every pair of overlapping accesses; code that handles
  a third thread or server differently does not exist. Two tools per server let a loop be
  interrupted in its middle. Discovery that finds any subset makes publications shrink, grow
  and vanish.
* `McpToolCall`: a request reads for itself, so a second one would add nothing to the first.
  One tool per server suffices, since each read is of one name; two servers make a
  disturbance of one an event the other must not notice.
* `CliSession`: one server, because a session administers one at a time and the threads of
  different servers are independent (`McpSerialised`); two threads, so that one that was given
  up works beside the one that is waited for, and their races over the same dictionary
  entries happen: a `KeyError`, a tool left in the registry, an answer that is overtaken.
* `CoreTools`: a character has at most three bytes in the model; texts of up to three bytes, valid or
  not, with limits on both sides of every boundary, meet every case of the decoder, and longer
  texts continue beyond the cut. Of four entries one is hidden, one a file or what an editor makes
  of it, one a link to it, one a link out of the workspace.
* The budget of 3 lies above the window of 2 and below the longest plan of 4, so that budget
  and window both bind, within a plan and across plans. The calls repeat ids and signatures,
  depend on earlier, unknown and their own ids, and name tools of every kind, unknown ones
  included.
* Five units at two per read give full chunks and a partial one at the end. The defects come
  one at a time, and in pairs where two checks of different or of the same field compete.
* Three pids allow a start after a crash whose pid is with another program, and a further one;
  two attempts are the first and the last.

The counters are bounded by the code (budget, attempts), except `StreamLength` in
`ChatRequest` and the number of router starts in `RouterLifecycle` (`PidsLeft`), which are
bounds of the model.

### Fairness

* `McpControlPlane`: weak fairness of each thread's work. The operating system schedules every
  thread, and a call of the catalog has a timeout (`mcp.py:455`). Nobody has to send requests.
* `ToolLoop`: weak fairness of the next step. Providers and executors answer or time out;
  the rest is straight-line code. The model may go on asking for calls for ever, and the
  property is that the request ends nevertheless.
  The run's specification `FairTranscriptSpec` says the same with the client's request beside it.
* `CliSession` (`FairCliSpec`): weak fairness of each request thread, as in `McpControlPlane`, of
  reading an answer that has been written, and of a chat, which is answered or times out
  (`cli/main.py:82-130`). The user need not answer any question, and nothing forces the client
  to give up: `SessionReturns` holds without that. It includes that every request is answered,
  also one that was given up.
* `ChatRequest`: weak fairness of the handler with its provider. A silent provider times out
  at each read. A client need not leave, but if it stays it sends its body and reads what it is
  sent: the server's sockets have no timeout.
* `RouterLifecycle`: strong fairness of each script's next command, as long as it is no `curl`
  that waits (`Hangs`): `start.sh:109` and `142` have no `--max-time`, so that a `curl` whose
  connection has been accepted may wait for ever. It returns if its peer goes away, even if another one
  comes in its place, which is why the fairness is strong. docker compose returns. Routers, vLLM
  and other programs need not do anything, and nobody has to run a script. `ScriptsEnd` says what is
  left: a script ends, or from some moment on it waits for an answer that never comes.

The runs of terminating systems say `CHECK_DEADLOCK FALSE`: an answered request has no further
step.

## Proofs

TLAPS checks these for every value of the constants that meets the assumptions of the
modules.

**Control plane** (`McpControlPlane_proofs`). Type correctness and termination (below) hold without
conditions. The rest assumes `CollisionFree` (distinct tools have distinct registry names) and `Serialised`
(no two threads administer one server); the runs `McpOverlap` and `McpCollision` show that
neither can be dropped. `RegistryMirrorsReadyServers` speaks of servers nobody works on and is
not inductive: `IInv` adds what a thread at each place knows, above all that the names it has
yet to withdraw contain all tools its server still has, that nothing of its server is left when
it stores a new installation, and that the stored names are the published ones and those still
to come while it publishes. From it follow `RegistryCorrect`, `NothingOrphaned`,
`NeverRaises`, `OwnToolsOnly` and `DirectoryImplemented`, the refinement.

**Plans and tool loop** (`ToolLoop_proofs`). `SequentialIsValid`: a plan
of the sequential strategy, of any length and at any stage, satisfies `validate_execution_plan`,
its acyclicity included. `IInv` of `ToolLoop` says that plans are sequential, that what is left of a plan fits
the budget (`LoopInv`), that the end of the history is the completed part of the plan
(`HistoryInv`) and that the window is the end of the history, while the calls of the plan
differ from each other and from the window they were checked against (`WindowInv`). From it
follow the budget, the idle policy limit, progress and validity of plans, dependencies, absence
of repeats, and the refinement of `ToolQueue`. `ExecutingInv` adds which call is at work, and gives
`StartsAreAccounted`: a call that has been started is in the conversation with its result, or is the last
one and the request ends with its timeout or its error. A plan may well be left half executed: by a
later call that is unknown or not allowed, times out or raises.

`BudgetKept` also says that the model is asked at most once more than executors have been started,
which is what `ChatRequest` takes for granted when it bounds its rounds. That is an invariant of its own
(`RoundsInv`): every round but the present one has started a call.

**What the loop leaves behind** (`ToolLoop_proofs`, at its end). `CallsStartOnce` and
`ResultsAreComplete` speak of histories, of which `IInv` says nothing. `StartedInv` ties the started
calls of the present plan to its progress. `TurnsInv` splits the conversation: a part in which
every call has its result, then the last answer with the calls of the plan, then the results
of those that are done; a new answer closes the split and opens the next. The proof needs
`ClientsSendTexts`, which the code grants: `request_messages_from_payload`
(`normalization.py:133`) makes messages of role and text only, and `message_to_turns` makes of
these nothing but user turns and assistant turns that reason.

**What is rebuilt from the turns** (`ProviderTranscript_proofs`). Steps and messages are recursive
functions over the turns; the loop only ever appends turns, so what counts is what one more turn
does (`RebuiltAppend`, `KeptAppend`). An answer appends several at once: the calls of its plan,
by an induction of their own. `RebuildInv` says which phase the last rebuilt step is in, that it
has the plan of the loop, and that no validation has raised; `RebuildAgrees` alone is not
inductive, since it does not say that the step is open for the next call or result.
`TranscriptInv` says that the messages are a story: the client's texts, then answers with calls
and their results in the order they were served, and at its end the calls of the plan that
still wait for theirs (`WaitingIds`). From these follow `RebuiltStepsAgree`, `StoriesAreWhole` (for
chat messages and for both forms of Responses items: a story closes every call it opens,
also when ids come back) and `TranscriptsGrow`. `TranscriptsLeaveLoop`: what is
sent changes nothing of the loop, so the theorems on the loop hold beside it.

**Core tools** (`CoreTools_proofs`). `TypeOK` says what a call has in its variables at each stage.
`FoundInv` says that, as long as nobody has changed the workspace, what a call has tested still
holds, and that a listing has its count, the entries it has finished are the first of those
due, with their types and sizes, and those to do are the rest. From it follow `ListingsAreExact` and
`RaisesAreExcused`, for any workspace and any permissions: an undisturbed call raises for a path that
does not resolve, for an access refused to its own path or to an entry it has to list, or for a git
that cannot be run, and for nothing else. The order of names is by how many come before each (`Ranks`). `TextsAreCut`
is an induction over the bytes of a text from its end (`DecodingStops`): decoding stops behind whole
characters, and why it stops tells what the next byte is. `InvalidIsNoText` and `CutIsExact`
turn that into the promise about limits. It assumes `DiffsAreTexts`: `_run_git` decodes the output of git
with replacement (`core_tools.py:468`), and the executor encodes what that gives.
`StatusesAddUp` counts the lines of three kinds, for which `CoreToolsOK` says what
`git status --porcelain` prints: `?` comes only in pairs, and no line is two blanks.

Induction is not cited from the library, whose theorems take an operator as parameter. `SetInduction` is
proved for sets instead, from the fact that `<` on the naturals is well-founded.

**Tool calls beside the control plane** (`McpToolCall_proofs`). `CallsLeaveControlPlane`: tool calls only
read, so the theorems on the control plane hold beside them. `ToolsRunOnReadyServers` assumes only
`CollisionFree`: a name is bound, or about to be bound, to the server it is made from
(`BoundToMaker`), so spec and executor are of one server however often its entry is withdrawn and
made anew in between, and the policy has seen it ready. `OffersStayCurrent` and
`RefusalsAreCaused` assume `Serialised` as well and rest on the invariant of the control plane: if
nobody works on a server, its entries are its published names.

**Terminal session** (`CliSession_proofs`). `SessionUsesControlPlane`: a session is a behaviour of the
control plane, so what is proved of that without conditions holds here. `CliInv` says that a server
whose status the user knows is worked on by nobody but the thread the session waits for, and
what that thread will answer is what it stores (`AnswerInv`); it makes no assumption on names,
and the threads may all administer any server. From it follow `ToldIsTrue` and
`ConsentIsAsked`.

**Chat request** (`ChatRequest_proofs`). `IInv` says what each place has already excluded: no
defect after `validate`, no disabled route after `select`, no answer before `relay`. From it
follow refusal of defects, provider choice, the stability of error types (for any status outside
200..299 and any payload; the status itself is the provider's, 3xx included, and is not normalised) and
the wholeness of streams (for any length and read size). `AlwaysConfigured` compares two lists:
`EnabledHasAll` shows that what `validate_config` asks of each setting implies what the adapter of the
route asks for, for any values of the settings.

**Router lifecycle** (`RouterLifecycle_proofs`). Type correctness and termination (below) hold for
any number of terminals. The rest assumes `OneAtATime`: one script at a time, not interrupted between the
start of a router and the writing of its pid. `IInv` says which routers can be running at each
place: none before `Spawn`, the script's own until the pid is written, the one of the pid file
everywhere else. It speaks of the routers the scripts have started; others may be started by hand
and have the port. From it follow `RouterIsNamed` and `StopIsFinal`. The run `RouterTwoStarts` shows
that scripts must not overlap. Nor can the other half of the assumption be dropped: an interrupt between
`start.sh:224` and 226 leaves a router that no pid file names.
`OthersAreSpared` needs no such assumption: `KillInv`, that a script about to send a signal
has seen a router whose pid cannot have gone to another program, holds however scripts overlap.

**Termination.** The loops of this code are bounded by what they consume: budget, names to withdraw,
attempts, units of a stream. Four theorems give a measure each, a natural number which every step makes
smaller. None has a condition on the environment: models, catalogs, providers, routers and other
threads do what they like.

* `RequestsAreFinite` (`ToolLoop_proofs`): `StepsLeft` starts at `5 * MaxToolSteps + 4`. The outer loop has no
  bound of its own (`tool_loop.py:81`), so that the theorem needs `IInv` and `RoundsInv`: no accepted plan is
  given up before its first call, and each call costs budget.
* `RequestsComeToAnEnd` (`McpControlPlane_proofs`): `WorkLeft`, at most `5 * Cardinality(Tools) + 8`, with
  several threads on one server and colliding names as well. `WorkInv` says that
  all names stored, read or still to be withdrawn are names of the server they stand for, of which there
  are no more than tools; `CatalogFinite` is the assumption that a
  catalog has finitely many tools.
* `ScriptsAreFinite` (`RouterLifecycle_proofs`): `ScriptLeft`, at most `3 * Attempts + 6`, for overlapping and
  interrupted scripts. It counts the commands that return.
* `RequestsAreFinite` (`ChatRequest_proofs`): `StepsLeft`, at most `3 * MaxToolSteps + 2 * StreamLength + 10`.

Only model-checked: the liveness properties themselves (`RequestEnds`, `RequestFinishes`, `ScriptsEnd`,
`SessionReturns`). What the measures leave to TLC is that a step is always possible until the end is reached
(`ENABLED`) and that fairness makes it happen, which the prover does not handle; and what a
session and its request threads do for each other (`SessionReturns`). Every other property of the
passing runs is a theorem. The proofs say nothing about the five disagreements below, which
are traces TLC finds.

## Where code and documents differ

Five runs are expected to violate a property that a document states; `findings` in
`PROJECT.json` quotes the lines.

* `McpOverlap`: `enable_server` reads, discovers and stores without a lock; an overlapping
  request for the same server leaves tools registered while the server is not ready.
* `McpCollision`: registry names are normalised, so tools of two servers can share one. The
  second server becomes `ready` before the registration fails, and stays so.
* `ToolLoopBlame`: two calls of one answer with the same id raise a plain `ValueError` outside
  the parser's conversion; the client is told its messages are invalid.
* `ChatFailures`: `http.client.HTTPException` is caught by nobody and the connection closes
  without an answer (the shortest trace). So does a stalled body of an error; a 200 without JSON
  becomes an empty answer; and a timeout within a stream ends it as if it were complete.
* `RouterTwoStarts`: the pid file is written only after the router has been started, so that two
  starts can both pass the test. One router loses the port, and the pid file may name that one:
  `stop.sh` then finds nothing to stop.

Four things are in the model and contradict no property of it, but a reader of the documents may not
expect them:

* What `start.sh` announces as ready need not be its own router: `curl` (`start.sh:109`) is answered by
  whoever has the port, for instance a router started by hand, while the pid file names one that
  has just lost the port (`Bind`, `ProbeSucceeds`).
* Ended between the start of the router (224) and the end of `echo` (226), `start.sh` leaves a router
  that no pid file names (`Interrupt`, excluded by `Unbroken`).
* `validate_config` asks whether settings are blank, no more. A base URL without a scheme or a key with
  a line break passes, and the first request fails on it, as `invalid_messages` of the client
  (`app.py:256`) or without an answer (`MakesNoRequest`).
* A provider's error is passed on with its own status, also if that is a 3xx (`Refuses`).

## Not modelled

* *Contents*: messages, tool arguments, JSON shapes of the three provider families, the texts of the
  payloads the adapters build, how an upstream's answer is normalised. The properties need
  only what the code decides with them. Gemini is offered no tools, so it always gets the client's
  messages.
* *Risk levels* of tools, which the router never configures, and the details of argument
  schemas (a violation is the outcome `InvalidArguments`).
* *Read-only endpoints*: health, capabilities, models, catalog listings; loading the configuration.
* *Core tools*: the branch line of git status, the number of context lines, and what a listed
  subdirectory holds.
* *Example tools* have no state; they are native tools of `ToolLoop`, by their outcomes.
* *Command line client*: which tools are ticked, and how answers and streams are rendered.
* `bootstrap.sh`, `healthcheck.sh`, vLLM's own scripts: straight-line commands.
* *Time*: a timeout is an outcome that may occur. Timeouts hold for single reads, so an
  upstream that trickles bytes can exceed them; and `asyncio.wait_for` cannot interrupt a
  tool that runs synchronously.
* *Half-executed plans*: when a later call of a plan is unknown, not allowed, late or raises, the results of
  the earlier ones are dropped with the request (`tool_loop.py:132`, 208, 232, 250, 255). The model does
  so too; the code promises nothing about it, so no property forbids it.

## What could come next

1. The normalisation of upstream answers (`providers/`, `provider_output/parser.py`) as operators from
   abstract JSON to turns, with the parser's error cases for each family.
2. The composition of `ToolLoop` and `McpToolCall`: a plan whose later calls meet another
   registry than its first. `McpToolCall` covers each call; the plan adds no further read.
