------------------------------ MODULE CliSession ------------------------------
(***************************************************************************)
(* A terminal session of the command line client (cli/main.py,             *)
(* cli/mcp_manager.py, cli/tool_selector.py) and the control plane of the  *)
(* router it administers (McpControlPlane).                                *)
(*                                                                         *)
(* The client asks one request at a time and waits at most 120 seconds; it *)
(* never tells the router that it has given up, so the request thread      *)
(* works on, beside whatever the next session asks for.                    *)
(*                                                                         *)
(* Any idle thread of the pool Threads serves a request, from the moment   *)
(* it is sent.  Which tools the user ticks, what a prompt says and the     *)
(* texts of the answers are left out: McpToolCall starts from any list of  *)
(* allowed tools.  A dialog that is asked again after a cancelled answer   *)
(* is a step that changes nothing and is left out.                         *)
(***************************************************************************)
EXTENDS McpControlPlane

ASSUME AnyThreadServes == \A t \in Threads : Assigned[t] = Servers

VARIABLES
  session,  \* where the client stands, and the locals of its dialogs
  told,     \* told[s]: the status the user has last been shown for server s
  consent   \* consent[s]: the operations on s the user has agreed to

cliVars == <<session, told, consent>>
allVars == <<vars, cliVars>>

------------------------------------------------------------------------------
Operations == {"install", "enable", "disable"}

\* tools: select_tools; menu: configure_session; servers: _manage_mcp_servers;
\* pick: _select_server; confirm, enable_now: the two questions of
\* _install_selected_server; wait: a POST of _request_json; prompt: the loop
\* of run_interactive; chat: _run_request.
Places == {"closed", "tools", "menu", "servers", "pick", "confirm", "wait",
           "enable_now", "prompt", "chat"}

\* "unknown": never shown, or shown while a request the client had given up
\* was still changing the server.
Shown == Status \cup {"unknown"}

Session ==
  [at : Places,
   op : Operations \cup {"none"},        \* what the dialog is about
   server : Servers \cup {None},
   thread : Threads \cup {None},         \* the thread that serves the request
   beside : SUBSET Threads,              \* threads left at work on the server
   answer : Status \cup {"none"}]        \* status in the body of the response

Closed == [at |-> "closed", op |-> "none", server |-> None,
           thread |-> None, beside |-> {}, answer |-> "none"]

CliTypeOK == /\ TypeOK
             /\ session \in Session
             /\ told \in [Servers -> Shown]
             /\ consent \in [Servers -> SUBSET Operations]

CliInit == /\ Init
           /\ session = Closed
           /\ told = [s \in Servers |-> "absent"]
           /\ consent = [s \in Servers |-> {}]

\* The session at place "where" moves on, its dialog forgotten.
Move(where, to) ==
  /\ session.at = where
  /\ session' = [Closed EXCEPT !.at = to]

Agree(s, o) == consent' = [consent EXCEPT ![s] = @ \cup {o}]

\* The user is shown status i for server s, which may be changing.
Tell(s, steady, i) ==
  told' = [told EXCEPT ![s] = IF steady THEN i ELSE "unknown"]

------------------------------------------------------------------------------
(* main, run_interactive and configure_session.                            *)

\* With a terminal the session starts with the choice of tools; without one
\* configure_session returns at once and no server can be administered.
Open ==
  /\ \E place \in {"tools", "prompt"} : Move("closed", place)
  /\ UNCHANGED <<told, consent, vars>>

\* select_tools always returns a list: an empty one if the router cannot be
\* reached or the user cancels.
SelectTools ==
  /\ Move("tools", "menu")
  /\ UNCHANGED <<told, consent, vars>>

\* Cancelling the menu starts the chat.
SetUp ==
  /\ \E place \in {"tools", "servers", "prompt"} : Move("menu", place)
  /\ UNCHANGED <<told, consent, vars>>

Ask ==
  /\ Move("prompt", "chat")
  /\ UNCHANGED <<told, consent, vars>>

Leave ==
  /\ Move("prompt", "closed")
  /\ UNCHANGED <<told, consent, vars>>

\* Back to the loop, or the end of the client: it was started for one prompt,
\* or the answer is an HTTP error (SystemExit, also in the loop).
ChatEnds ==
  /\ \E place \in {"prompt", "closed"} : Move("chat", place)
  /\ UNCHANGED <<told, consent, vars>>
------------------------------------------------------------------------------
(* The dialogs of mcp_manager.py.                                          *)

Back ==
  /\ Move("servers", "menu")
  /\ UNCHANGED <<told, consent, vars>>

\* The catalog lists every server, /mcp/servers the installed ones.
Offered(o) ==
  {s \in Servers : o # "install" => installations[s].status # "absent"}

\* The list is fetched and its titles show the status of every server.
ShowServers(o) ==
  /\ session.at = "servers"
  /\ Offered(o) # {}
  /\ session' = [session EXCEPT !.at = "pick", !.op = o]
  /\ told' = [s \in Servers |->
                IF s \notin Offered(o) THEN told[s]
                ELSE IF Busy(s) THEN "unknown" ELSE installations[s].status]
  /\ UNCHANGED <<consent, vars>>

\* The catalog cannot be read, or the router has gone.
ListFails ==
  /\ Move("servers", "closed")
  /\ UNCHANGED <<told, consent, vars>>

\* Cancelled; asked again in _manage_mcp_servers.
PickNone ==
  /\ Move("pick", "servers")
  /\ UNCHANGED <<told, consent, vars>>

\* An installation is asked for again.
PickToInstall(s) ==
  /\ session.at = "pick"
  /\ session.op = "install"
  /\ session' = [session EXCEPT !.at = "confirm", !.server = s]
  /\ UNCHANGED <<told, consent, vars>>

\* The session posts operation o on server s; thread t takes it.
Post(t, s, o) ==
  /\ session' = [session EXCEPT !.at = "wait", !.op = o, !.server = s,
                                !.thread = t,
                                !.beside = {u \in Threads : job[u].server = s}]
  /\ \/ o = "install" /\ (Install(t, s) \/ InstallRefused(t))
     \/ o = "enable" /\ Enable(t, s)
     \/ o = "disable" /\ Disable(t, s)
  /\ UNCHANGED told

PickToToggle(s, t) ==
  /\ session.at = "pick"
  /\ session.op \in {"enable", "disable"}
  /\ s \in Offered(session.op)
  /\ Post(t, s, session.op)
  /\ Agree(s, session.op)

\* questionary.confirm returns None when it is cancelled.
Replied == {"yes", "no", "cancelled"}

\* Fault: whatever is not a no.
AgreedUnlessNo(a) == a # "no"

\* "confirmed is not True" and "enable_now is not True"
Agreed(a) == a = "yes"

\* What the user has agreed to by answer a.
Consented(s, o, a) ==
  IF a = "yes" THEN Agree(s, o) ELSE UNCHANGED consent

Decide(where, o, a, t) ==
  /\ session.at = where
  /\ Agreed(a)
  /\ Post(t, session.server, o)
  /\ Consented(session.server, o, a)

Decline(where, a) ==
  /\ ~Agreed(a)
  /\ Move(where, "servers")
  /\ UNCHANGED <<told, consent, vars>>

------------------------------------------------------------------------------
(* The answer.                                                             *)

\* Fault: the status that was asked for.
StatusAskedFor(o) ==
  CASE o = "install" -> "installed"
    [] o = "disable" -> "disabled"
    [] OTHER -> "ready"

\* The status of the installation the operation returns: the record it has
\* stored, not the one in the dictionary by now.
StatusReturned(o) ==
  CASE o = "install" -> "installed"
    [] o = "disable" -> "disabled"
    [] o = "enable" -> "ready"
    [] OTHER -> "error"

\* A step of a request thread; the last one of the thread the session waits
\* for writes the response.
Serve(t) ==
  /\ Work(t)
  /\ session' =
       IF session.thread = t /\ job'[t].reply = "ok"
       THEN [session EXCEPT !.answer = StatusReturned(job[t].op)]
       ELSE session
  /\ UNCHANGED <<told, consent>>

Waiting == session.at = "wait"

Served == Waiting /\ job[session.thread].at = "idle"

\* The status is printed; an installation is followed by a second question.
HearDone ==
  /\ Served
  /\ job[session.thread].reply = "ok"
  /\ session' = [Closed EXCEPT
       !.at = IF session.op = "install" THEN "enable_now" ELSE "servers",
       !.server = IF session.op = "install" THEN session.server ELSE None]
  /\ Tell(session.server, session.beside = {}, session.answer)
  /\ UNCHANGED <<consent, vars>>

\* Any other answer is an HTTP error: SystemExit.  The text of a 502 or 404
\* is the only sign that the operation has stopped half way.
HearError ==
  /\ Served
  /\ job[session.thread].reply # "ok"
  /\ session' = Closed
  /\ Tell(session.server,
          session.beside = {} /\ job[session.thread].reply \in
                                   {"refused", "catalog_error"},
          told[session.server])
  /\ UNCHANGED <<consent, vars>>

\* No answer within 120 seconds, or the user interrupts: the client ends and
\* the router thread works on.
GiveUp ==
  /\ Waiting
  /\ session' = Closed
  /\ Tell(session.server, FALSE, "unknown")
  /\ UNCHANGED <<consent, vars>>

------------------------------------------------------------------------------
Dialog ==
  \/ Open \/ SelectTools \/ SetUp \/ Back \/ Leave \/ Ask
  \/ ListFails
  \/ PickNone
  \/ \E s \in Servers : PickToInstall(s)
  \/ \E o \in Operations : ShowServers(o)
  \/ \E a \in Replied : Decline("confirm", a) \/ Decline("enable_now", a)

Hear == HearDone \/ HearError

Send(t) ==
  \/ \E s \in Servers : PickToToggle(s, t)
  \/ \E a \in Replied : \/ Decide("confirm", "install", a, t)
                        \/ Decide("enable_now", "enable", a, t)

CliNext ==
  \/ Dialog \/ Hear \/ ChatEnds \/ GiveUp
  \/ \E t \in Threads : Send(t) \/ Serve(t)

CliSpec == CliInit /\ [][CliNext]_allVars

\* The router keeps running its threads (every call of the catalog ends after
\* at most 30 seconds of silence, mcp.py:455), an answer that has been written
\* is read, and a chat is answered or times out.  The user need not do
\* anything, and nothing forces the client to give up.
FairCliSpec ==
  /\ CliSpec
  /\ WF_allVars(Hear)
  /\ WF_allVars(ChatEnds)
  /\ \A t \in Threads : WF_allVars(Serve(t))

------------------------------------------------------------------------------
(* Properties.                                                             *)

\* What the user has been shown of a server, in a list or in the answer to
\* the last operation, and also when that operation was answered with an
\* error, is its status, unless the client has given up a request that was
\* changing the server: the payload of an answer is the record the operation
\* has stored (app.py:471), and a refusal or an error of the catalog means that
\* nothing has changed.
ToldTheTruth ==
  \A s \in Servers :
    told[s] # "unknown" /\ ~(Waiting /\ session.server = s) =>
      told[s] = installations[s].status

\* Nothing is installed, enabled or disabled unless the user has agreed to
\* it: a cancelled question is a no (mcp_manager.py:154, 174), and no thread
\* changes another server than the one it was sent for.
NothingWithoutConsent ==
  \A s \in Servers :
    /\ installations[s].status # "absent" => "install" \in consent[s]
    /\ installations[s].status = "ready" \/ Owned(s) # {} =>
         "enable" \in consent[s]
    /\ installations[s].status = "disabled" => "disable" \in consent[s]

\* The inductive strengthening of the two.  A server whose status the user
\* knows is worked on by nobody but the thread the session waits for, and what
\* that thread will answer is what it stores.
Placed ==
  /\ session.at \in {"confirm", "enable_now", "wait"} =>
       session.server \in Servers
  /\ Waiting => session.thread \in Threads

SettledInv ==
  \A s \in Servers :
    told[s] # "unknown" /\ ~(Waiting /\ session.server = s) =>
      ~Busy(s) /\ told[s] = installations[s].status

Withdrawing == {"unpublish_read", "unpublish", "unregister", "delete"}

\* Thread t works alone on server s for the session; i is the status stored.
AnswerInv(s, t, i) ==
  /\ \A u \in Threads \ {t} : job[u].server # s
  /\ job[t].server \in {s, None}
  /\ job[t].at = "discover" => told[s] \in {"unknown", i}
  /\ job[t].at = "store_failed" => job[t].op = "enable_failed"
  /\ job[t].at \in Withdrawing /\ job[t].op = "enable_failed" => i = "error"
  /\ job[t].at \in {"publish", "register"} =>
       i = "ready" /\ job[t].op = "enable"
  /\ job[t].at = "idle" =>
       /\ job[t].reply = "ok" => session.answer = i
       /\ job[t].reply \in {"refused", "catalog_error"} =>
            told[s] \in {"unknown", i}

ConsentInv(t) ==
  LET s == job[t].server IN
  s # None =>
    /\ "install" \in consent[s]
    /\ job[t].op \in {"enable", "enable_failed"} => "enable" \in consent[s]
    /\ job[t].op = "disable" => "disable" \in consent[s]
    /\ job[t].at \in {"discover", "publish", "register"} => job[t].op = "enable"

CliInv ==
  /\ CliTypeOK
  /\ Placed
  /\ SettledInv
  /\ Waiting /\ session.beside = {} =>
       AnswerInv(session.server, session.thread,
                 installations[session.server].status)
  /\ NothingWithoutConsent
  /\ \A t \in Threads : ConsentInv(t)

\* A session that waits goes on, without giving up, whatever a request it gave
\* up before is still doing to the dictionaries; and that request ends too.
SessionReturns ==
  /\ Waiting \/ session.at = "chat" ~> ~Waiting /\ session.at # "chat"
  /\ EveryRequestAnswered
==============================================================================
