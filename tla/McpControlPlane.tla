--------------------------- MODULE McpControlPlane ---------------------------
(***************************************************************************)
(* The MCP control plane of the router: McpServerManager                   *)
(* (router/tools/mcp.py) and the ToolRegistry it publishes tools to        *)
(* (router/tools/registry.py).                                             *)
(*                                                                         *)
(* The router is a ThreadingHTTPServer (router/app.py:533): every          *)
(* install/enable/disable request runs in a thread of its own and no lock  *)
(* guards the two dictionaries the threads share.  A step of this module   *)
(* is one access to a shared dictionary, or one call of the catalog over   *)
(* the network; threads interleave between steps.                          *)
(*                                                                         *)
(* Descriptions, input schemas, risk levels and error texts are left out.  *)
(* _registry_tool_name (mcp.py:549), which lowercases and squeezes the     *)
(* slug and the tool name, is the function RegName: it need not be         *)
(* injective.  The loops over discovered_tools and published_tool_names    *)
(* visit their elements in any order.                                      *)
(***************************************************************************)
EXTENDS Naturals, FiniteSets

CONSTANTS
  Servers,        \* server ids of the catalog
  Tools,          \* tools the catalog can list for a server
  Names,          \* names tools are registered under
  RegName,        \* RegName[s][x]: registered name of tool x of server s
  Discoverable,   \* Discoverable[s]: the tool sets a discovery of s may find
  Threads,        \* request threads of the control plane
  Assigned,       \* Assigned[t]: the servers the client behind t administers
  None            \* no server, no name

ASSUME ConstantsOK ==
  /\ RegName \in [Servers -> [Tools -> Names]]
  /\ Discoverable \in [Servers -> SUBSET SUBSET Tools]
  /\ Assigned \in [Threads -> SUBSET Servers]
  /\ None \notin Servers
  /\ None \notin Names

\* A catalog lists finitely many tools.
ASSUME CatalogFinite == IsFiniteSet(Tools)

VARIABLES
  installations,  \* McpServerManager._installations
  entries,        \* ToolRegistry._entries: name -> the server it is bound to
  job             \* job[t]: the request thread t works on, and its locals

vars == <<installations, entries, job>>

------------------------------------------------------------------------------
Status == {"absent", "installed", "ready", "disabled", "error"}

\* McpServerInstallation; status "absent" stands for a missing dictionary key.
Installation == [status : Status, enabled : BOOLEAN, published : SUBSET Names]

NotInstalled == [status |-> "absent", enabled |-> FALSE, published |-> {}]

Ops == {"none", "install", "enable", "enable_failed", "disable"}

Steps == {"idle", "discover", "store_failed", "unpublish_read", "unpublish",
          "unregister", "delete", "store", "publish", "register"}

\* "registry_error": a ToolRegistryError, answered 502; "not_found": a
\* KeyError, answered 404; "refused": the request had no effect at all.
Replies == {"none", "ok", "refused", "not_found", "catalog_error",
            "registry_error"}

JobRecord ==
  [at : Steps, op : Ops, server : Servers \cup {None},
   seen : Installation,        \* the local variable installation
   found : SUBSET Tools,       \* discovered tools not yet published
   todo : SUBSET Names,        \* names _unpublish has still to visit
   name : Names \cup {None},   \* the name passed to the registry
   reply : Replies]            \* what the last request was answered

Job == {j \in JobRecord : j.at = "idle" <=> j.server = None}

Answered(r) ==
  [at |-> "idle", op |-> "none", server |-> None, seen |-> NotInstalled,
   found |-> {}, todo |-> {}, name |-> None, reply |-> r]

Requested(o, s, where, i) ==
  [at |-> where, op |-> o, server |-> s, seen |-> i,
   found |-> {}, todo |-> {}, name |-> None, reply |-> "none"]

TypeOK == /\ installations \in [Servers -> Installation]
          /\ entries \in [Names -> Servers \cup {None}]
          /\ job \in [Threads -> Job]

Init == /\ installations = [s \in Servers |-> NotInstalled]
        /\ entries = [n \in Names |-> None]
        /\ job = [t \in Threads |-> Answered("none")]

\* Thread t, at step "where", continues with job j.
Goto(t, where, j) == /\ job[t].at = where
                     /\ job' = [job EXCEPT ![t] = j]

NamesOf(s, T) == {RegName[s][x] : x \in T}

------------------------------------------------------------------------------
(* install_server: resolve the definition in the catalog, withdraw what is *)
(* published, store a fresh installation.                                  *)

\* No confirmation, an unknown server or source, or no answer of the catalog.
InstallRefused(t) ==
  /\ Goto(t, "idle", Answered("refused"))
  /\ UNCHANGED <<installations, entries>>

Install(t, s) ==
  /\ s \in Assigned[t]
  /\ Goto(t, "idle", Requested("install", s, "unpublish_read", NotInstalled))
  /\ UNCHANGED <<installations, entries>>

------------------------------------------------------------------------------
(* enable_server: read the installation, discover its tools in the         *)
(* catalog, withdraw the old publication, store, publish the new one.      *)

UnknownServer(t, s) ==
  /\ s \in Assigned[t]
  /\ installations[s].status = "absent"
  /\ Goto(t, "idle", Answered("not_found"))
  /\ UNCHANGED <<installations, entries>>

Enable(t, s) ==
  /\ s \in Assigned[t]
  /\ installations[s].status # "absent"
  /\ Goto(t, "idle", Requested("enable", s, "discover", installations[s]))
  /\ UNCHANGED <<installations, entries>>

\* discover_tools raises an McpCatalogError: nothing changes.
CatalogFails(t) ==
  /\ Goto(t, "discover", Answered("catalog_error"))
  /\ UNCHANGED <<installations, entries>>

Discover(t, T) ==
  /\ job[t].at = "discover"
  /\ T \in Discoverable[job[t].server]
  /\ Goto(t, "discover",
          [job[t] EXCEPT !.found = T,
                         !.op = IF T = {} THEN "enable_failed" ELSE "enable",
                         !.at = IF T = {} THEN "store_failed"
                                          ELSE "unpublish_read"])
  /\ UNCHANGED <<installations, entries>>

\* No tools: the error state is stored first, keeping published_tool_names,
\* and the old publication is withdrawn after it.
StoreFailed(t) ==
  /\ Goto(t, "store_failed", [job[t] EXCEPT !.at = "unpublish_read"])
  /\ installations' =
       [installations EXCEPT ![job[t].server] =
          [job[t].seen EXCEPT !.status = "error", !.enabled = FALSE]]
  /\ UNCHANGED entries

------------------------------------------------------------------------------
(* disable_server: read the installation, withdraw, store.                 *)

Disable(t, s) ==
  /\ s \in Assigned[t]
  /\ installations[s].status # "absent"
  /\ Goto(t, "idle",
          Requested("disable", s, "unpublish_read", installations[s]))
  /\ UNCHANGED <<installations, entries>>

------------------------------------------------------------------------------
(* _unpublish and ToolRegistry.unregister.                                 *)

\* Fault: nothing is withdrawn.
UnpublishNothing(t) ==
  /\ Goto(t, "unpublish_read", [job[t] EXCEPT !.todo = {}, !.at = "unpublish"])
  /\ UNCHANGED <<installations, entries>>

\* The installation stored now, not the one the operation read before.
UnpublishRead(t) ==
  /\ Goto(t, "unpublish_read",
          [job[t] EXCEPT !.todo = installations[job[t].server].published,
                         !.at = "unpublish"])
  /\ UNCHANGED <<installations, entries>>

\* Fault: the loop visits a missing name again.
SkipNameAgain(t, n) ==
  /\ n \in job[t].todo
  /\ entries[n] = None
  /\ Goto(t, "unpublish", job[t])
  /\ UNCHANGED <<installations, entries>>

\* registry.has(n) is false
SkipName(t, n) ==
  /\ n \in job[t].todo
  /\ entries[n] = None
  /\ Goto(t, "unpublish", [job[t] EXCEPT !.todo = @ \ {n}])
  /\ UNCHANGED <<installations, entries>>

\* registry.has(n) is true
FoundName(t, n) ==
  /\ n \in job[t].todo
  /\ entries[n] # None
  /\ Goto(t, "unpublish", [job[t] EXCEPT !.name = n, !.at = "unregister"])
  /\ UNCHANGED <<installations, entries>>

\* The membership test of unregister: ToolNotFoundError if it fails.
UnregisterTest(t) ==
  /\ Goto(t, "unregister",
          IF entries[job[t].name] = None
          THEN Answered("registry_error")
          ELSE [job[t] EXCEPT !.at = "delete"])
  /\ UNCHANGED <<installations, entries>>

\* Fault: a name that was withdrawn is still to be visited.
UnregisterDeleteKeeps(t) ==
  /\ Goto(t, "delete",
          IF entries[job[t].name] = None
          THEN Answered(IF job[t].op = "install" THEN "registry_error"
                                                 ELSE "not_found")
          ELSE [job[t] EXCEPT !.name = None, !.at = "unpublish"])
  /\ entries' = [entries EXCEPT ![job[t].name] = None]
  /\ UNCHANGED installations

\* del self._entries[name]: a KeyError if the entry has gone since the test.
UnregisterDelete(t) ==
  /\ Goto(t, "delete",
          IF entries[job[t].name] = None
          THEN Answered(IF job[t].op = "install" THEN "registry_error"
                                                 ELSE "not_found")
          ELSE [job[t] EXCEPT !.todo = @ \ {job[t].name}, !.name = None,
                              !.at = "unpublish"])
  /\ entries' = [entries EXCEPT ![job[t].name] = None]
  /\ UNCHANGED installations

\* Fault: the loop ends before all names are withdrawn.
UnpublishAbandoned(t) ==
  /\ Goto(t, "unpublish",
          IF job[t].op = "enable_failed"
          THEN Answered("ok")
          ELSE [job[t] EXCEPT !.at = "store"])
  /\ UNCHANGED <<installations, entries>>

UnpublishDone(t) ==
  /\ job[t].todo = {}
  /\ Goto(t, "unpublish",
          IF job[t].op = "enable_failed"
          THEN Answered("ok")
          ELSE [job[t] EXCEPT !.at = "store"])
  /\ UNCHANGED <<installations, entries>>

------------------------------------------------------------------------------
(* The stores that end install_server and disable_server, and the one      *)
(* enable_server publishes after.                                          *)

StoreInstalled(t) ==
  /\ job[t].op = "install"
  /\ Goto(t, "store", Answered("ok"))
  /\ installations' =
       [installations EXCEPT ![job[t].server] =
          [status |-> "installed", enabled |-> FALSE, published |-> {}]]
  /\ UNCHANGED entries

StoreDisabled(t) ==
  /\ job[t].op = "disable"
  /\ Goto(t, "store", Answered("ok"))
  /\ installations' =
       [installations EXCEPT ![job[t].server] =
          [job[t].seen EXCEPT !.status = "disabled", !.enabled = FALSE,
                              !.published = {}]]
  /\ UNCHANGED entries

\* Fault: the names to publish are stored only after the publication.
StoreReadyUnnamed(t) ==
  /\ job[t].op = "enable"
  /\ Goto(t, "store", [job[t] EXCEPT !.at = "publish"])
  /\ installations' =
       [installations EXCEPT ![job[t].server] =
          [job[t].seen EXCEPT !.status = "ready", !.enabled = TRUE,
                              !.published = {}]]
  /\ UNCHANGED entries

StoreReady(t) ==
  /\ job[t].op = "enable"
  /\ Goto(t, "store", [job[t] EXCEPT !.at = "publish"])
  /\ installations' =
       [installations EXCEPT ![job[t].server] =
          [job[t].seen EXCEPT !.status = "ready", !.enabled = TRUE,
                              !.published = NamesOf(job[t].server,
                                                    job[t].found)]]
  /\ UNCHANGED entries

------------------------------------------------------------------------------
(* _publish and ToolRegistry.register.                                     *)

\* The membership test of register: ToolAlreadyRegisteredError ends the
\* request with the installation already stored as ready.
RegisterTest(t, x) ==
  /\ x \in job[t].found
  /\ Goto(t, "publish",
          IF entries[RegName[job[t].server][x]] # None
          THEN Answered("registry_error")
          ELSE [job[t] EXCEPT !.found = @ \ {x}, !.at = "register",
                              !.name = RegName[job[t].server][x]])
  /\ UNCHANGED <<installations, entries>>

\* Fault: the tools of any server are bound to the one enabled last.
RegisterForAll(t) ==
  /\ Goto(t, "register", [job[t] EXCEPT !.name = None, !.at = "publish"])
  /\ entries' = [n \in Names |-> IF n = job[t].name \/ entries[n] # None
                                 THEN job[t].server ELSE None]
  /\ UNCHANGED installations

RegisterSet(t) ==
  /\ Goto(t, "register", [job[t] EXCEPT !.name = None, !.at = "publish"])
  /\ entries' = [entries EXCEPT ![job[t].name] = job[t].server]
  /\ UNCHANGED installations

PublishDone(t) ==
  /\ job[t].found = {}
  /\ Goto(t, "publish", Answered("ok"))
  /\ UNCHANGED <<installations, entries>>

------------------------------------------------------------------------------
Request(t) ==
  \/ InstallRefused(t)
  \/ \E s \in Servers :
       Install(t, s) \/ UnknownServer(t, s) \/ Enable(t, s) \/ Disable(t, s)

Unpublish(t) ==
  \/ UnpublishRead(t)
  \/ \E n \in Names : SkipName(t, n) \/ FoundName(t, n)
  \/ UnregisterTest(t)
  \/ UnregisterDelete(t)
  \/ UnpublishDone(t)

Publish(t) ==
  \/ \E x \in Tools : RegisterTest(t, x)
  \/ RegisterSet(t)
  \/ PublishDone(t)

Work(t) ==
  \/ CatalogFails(t)
  \/ \E T \in SUBSET Tools : Discover(t, T)
  \/ StoreFailed(t)
  \/ Unpublish(t)
  \/ StoreInstalled(t) \/ StoreDisabled(t) \/ StoreReady(t)
  \/ Publish(t)

Next == \E t \in Threads : Request(t) \/ Work(t)

Spec == Init /\ [][Next]_vars

------------------------------------------------------------------------------
(* Properties.                                                             *)

Busy(s) == \E t \in Threads : job[t].server = s

Owned(s) == {n \in Names : entries[n] = s}

Ready(s) == installations[s].status = "ready"

\* Distinct tools are registered under distinct names.
CollisionFree ==
  \A s1, s2 \in Servers, x1, x2 \in Tools :
    RegName[s1][x1] = RegName[s2][x2] => s1 = s2 /\ x1 = x2

\* No two threads administer the same server.
Serialised ==
  \A t1, t2 \in Threads : t1 # t2 => Assigned[t1] \cap Assigned[t2] = {}

\* Once no request works on a server, the registry holds exactly the tools
\* the server published if it is ready, and none of its tools otherwise
\* (the mirror of ready MCP servers that _publish and _unpublish maintain).
RegistryMirrorsReadyServers ==
  \A s \in Servers :
    ~Busy(s) => Owned(s) = IF Ready(s) THEN installations[s].published ELSE {}

\* At every moment a registered MCP tool is among the published names of its
\* server's installation: the next _unpublish will find and remove it.
NoOrphanedTool == \A s \in Servers : Owned(s) \subseteq installations[s].published

\* The registry never raises ToolAlreadyRegisteredError or ToolNotFoundError
\* on behalf of the control plane, and no KeyError of a racing deletion turns
\* an installed server into an unknown one (the 404 of an absent server is
\* answered by UnknownServer before any work starts).
RegistryNeverRaises ==
  \A t \in Threads :
    /\ job[t].at \in {"unregister", "delete"} => entries[job[t].name] # None
    /\ job[t].at = "register" => entries[job[t].name] = None
    /\ job[t].reply # "registry_error"

\* A request withdraws or publishes tools of its own server only.
TouchesOwnTools ==
  [][\A n \in Names :
       entries'[n] # entries[n] =>
         \E t \in Threads : /\ job[t] # job'[t]
                            /\ job[t].server \in {entries[n], entries'[n]}
                            /\ {entries[n], entries'[n]} \subseteq
                                 {job[t].server, None}]_vars

\* What a thread with job j has still to do for its request, counted in steps: up
\* to three for every name to withdraw, up to two for every tool to publish.
Phase ==
  [idle |-> 0, publish |-> 1, register |-> 2, store |-> 2, delete |-> 3,
   unregister |-> 4, unpublish |-> 5, unpublish_read |-> 6,
   store_failed |-> 7, discover |-> 8]

WorkLeft(j) ==
  Phase[j.at]
    + 3 * (IF j.at \in {"discover", "store_failed", "unpublish_read"}
           THEN Cardinality(Tools) ELSE Cardinality(j.todo))
    + 2 * (IF j.at = "discover" THEN Cardinality(Tools) ELSE Cardinality(j.found))

\* Every step of a thread leaves it less to do, and other threads never give it
\* more, whatever they do to the dictionaries its loops read: neither the loop
\* over published names (mcp.py:423) nor that over discovered tools (mcp.py:441)
\* visits anything twice.
RequestsShrink ==
  [][\A t \in Threads :
       job[t].at # "idle" =>
         IF Work(t) THEN WorkLeft(job'[t]) < WorkLeft(job[t])
                    ELSE job'[t] = job[t]]_vars

\* The inductive strengthening, for serialised clients and names without
\* collisions.  A server nobody works on mirrors its installation; a thread
\* that works on a server knows how far the withdrawal or the publication of
\* its tools has got.
OwnNames(s) == NamesOf(s, Tools)

Mirrored(s) ==
  Owned(s) = IF Ready(s) THEN installations[s].published ELSE {}

ServerInv(s) ==
  /\ installations[s].published \subseteq OwnNames(s)
  /\ Owned(s) \subseteq installations[s].published
  /\ ~Busy(s) => Mirrored(s)

ThreadInv(t) ==
  /\ job[t].server # None => job[t].server \in Assigned[t]
  /\ job[t].reply # "registry_error"
  /\ job[t].at \in {"discover", "store_failed"} =>
       job[t].seen = installations[job[t].server] /\ Mirrored(job[t].server)
  /\ /\ job[t].op = "enable_failed"
     /\ job[t].at \in {"unpublish_read", "unpublish", "unregister", "delete"}
     => ~Ready(job[t].server)
  /\ job[t].at = "store_failed" => job[t].op = "enable_failed"
  /\ job[t].at \in {"unpublish", "unregister", "delete"} =>
       /\ Owned(job[t].server) \subseteq job[t].todo
       /\ job[t].todo \subseteq OwnNames(job[t].server)
  /\ job[t].at \in {"unregister", "delete"} =>
       job[t].name \in job[t].todo /\ entries[job[t].name] = job[t].server
  /\ job[t].at = "store" => Owned(job[t].server) = {}
  /\ job[t].at \in {"publish", "register"} =>
       /\ Ready(job[t].server)
       /\ \A x \in job[t].found : entries[RegName[job[t].server][x]] = None
       /\ installations[job[t].server].published
            = Owned(job[t].server) \cup NamesOf(job[t].server, job[t].found)
                \cup (IF job[t].at = "register" THEN {job[t].name} ELSE {})
  /\ job[t].at = "register" =>
       /\ entries[job[t].name] = None
       /\ \E x \in Tools \ job[t].found :
            job[t].name = RegName[job[t].server][x]

IInv == /\ TypeOK
        /\ \A s \in Servers : ServerInv(s)
        /\ \A t \in Threads : ThreadInv(t)

\* docs/tools.md:46 "only after successful discovery and ready state do MCP
\* tools appear as normal tools in the ToolRegistry": when no request is being
\* worked on, every registered MCP tool belongs to a ready server.
RegisteredOnlyWhenReady ==
  (\A s \in Servers : ~Busy(s)) =>
    \A s \in Servers : Owned(s) # {} => Ready(s)

\* docs/tools.md:157 "normal tool plane for discovered MCP tools as soon as a
\* server is ready": when no request is being worked on, the tools a ready
\* server published are registered, and bound to that server.
ReadyToolsAreRegistered ==
  (\A s \in Servers : ~Busy(s)) =>
    \A s \in Servers : Ready(s) => installations[s].published \subseteq Owned(s)

\* Threads keep running: the operating system schedules every thread, and a
\* call of the catalog returns or times out (mcp.py:455).
FairSpec == Spec /\ \A t \in Threads : WF_vars(Work(t))

\* Every request is answered, whatever other threads do to the dictionaries
\* its loops read (the loops of _unpublish and _publish end).
EveryRequestAnswered ==
  \A t \in Threads : job[t].at # "idle" ~> job[t].at = "idle"

Directory == INSTANCE ToolDirectory
               WITH ready <- {s \in Servers : Ready(s)},
                    listed <- [s \in Servers |-> Owned(s)]

\* The control plane keeps the promise of ToolDirectory.
ImplementsDirectory == Directory!Spec
==============================================================================
