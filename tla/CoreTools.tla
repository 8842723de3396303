------------------------------- MODULE CoreTools -------------------------------
(***************************************************************************)
(* The core tools of the router (router/tools/core_tools.py): reading a    *)
(* text file, listing a directory, git status and git diff, each bounded   *)
(* by an argument.                                                         *)
(*                                                                         *)
(* The tools run beside whoever edits the workspace.  A step is one access *)
(* to the file system; between two of them a file may be written, removed  *)
(* or replaced.  git is external: a step of its own that answers something *)
(* or does not answer in time.  What the host refuses the router, whatever *)
(* is there, is part of the workspace and may change with it.              *)
(*                                                                         *)
(* The workspace is one directory whose entries are numbered in the order  *)
(* of their names; a listed subdirectory stands for all of them, and what  *)
(* is in it is left out.  A text is a sequence of kinds of bytes.  An      *)
(* entry that is a link at some time is never a file or a directory.       *)
(***************************************************************************)
EXTENDS Integers, SequencesExt

CONSTANTS
  Entries,     \* the names of the workspace: natural numbers, in their order
  Hidden,      \* the names that start with a dot
  Target,      \* Target[n]: what n points to when it is a link
  Workspaces,  \* what a call may find: the entries, and what the host refuses
  Edits,       \* Edits[n]: what an editor may leave at n
  Hosts,       \* what the host may come to refuse
  Statuses,    \* the lines git status may print, the branch line left out
  Diffs,       \* the texts git diff may print
  Outside,     \* a file outside the workspace
  Root,        \* the path "."
  Blank,       \* a path argument that is not a non-blank string
  Unresolvable,  \* a path whose links form a loop, or with a NUL in it
  Unset,       \* an argument the call does not give
  Default,     \* the limit if the call gives none
  Maximum      \* the largest limit a call may give

Bytes == {"A", "L2", "L3", "C"}

Node == [kind : {"absent", "directory", "link", "file"}, text : Seq(Bytes)]

\* What may be found at n.
Place(n) == {x \in Node : x.kind = "link" => n \in DOMAIN Target}

Paths == Entries \cup {Root, Outside}

\* What the host refuses the router: to look at some names, to open some files
\* and directories, and to run git.
Host == [unseen : SUBSET Paths, unread : SUBSET Paths, git : BOOLEAN]

\* A line of git status: what has changed in the index and in the work tree, by
\* its letters.  "??" is a file git does not track; "  " is never printed.
StatusLine ==
  {line \in [x : {" ", "?", "M", "A", "D", "R", "C", "T", "U"},
            y : {" ", "?", "M", "A", "D", "R", "C", "T", "U"}] :
     /\ line.x = "?" <=> line.y = "?"
     /\ ~(line.x = " " /\ line.y = " ")}

ASSUME CoreToolsOK ==
  /\ Entries \subseteq Nat /\ IsFiniteSet(Entries) /\ Hidden \subseteq Entries
  /\ Root \notin Entries /\ Outside \notin Entries /\ Root # Outside
  /\ {Blank, Unresolvable} \cap Paths = {} /\ Blank # Unresolvable
  /\ Unset \notin Nat
  /\ DOMAIN Target \subseteq Entries
  /\ \A n \in DOMAIN Target :
       Target[n] \in (Entries \ DOMAIN Target) \cup {Outside}
  /\ Workspaces \subseteq [tree : [Entries -> Node], host : Host]
  /\ \A w \in Workspaces : \A n \in Entries : w.tree[n] \in Place(n)
  /\ Hosts \subseteq Host
  /\ \A n \in Entries : Edits[n] \subseteq Place(n)
  /\ Statuses \subseteq Seq(StatusLine)
  /\ Default \in Nat /\ Maximum \in Nat /\ 1 <= Default /\ Default <= Maximum

VARIABLES
  tree,      \* tree[n]: what is found at n
  host,      \* what the host refuses the router
  call,      \* the call being worked on: its step, arguments and locals
  reply,     \* the ToolResult, or the way the call failed
  \* History, not in the program:
  changed    \* whether the workspace has changed since the call began

vars == <<tree, host, call, reply, changed>>

------------------------------------------------------------------------------
Nothing   == [kind |-> "absent", text |-> <<>>]
Directory == [kind |-> "directory", text |-> <<>>]
Link      == [kind |-> "link", text |-> <<>>]
File(s)   == [kind |-> "file", text |-> s]

\* A path with its links followed.
Followed(p) ==
  IF p \in Entries /\ tree[p].kind = "link" THEN Target[p] ELSE p

Found(p) == CASE Followed(p) = Root    -> Directory
              [] Followed(p) = Outside -> File(<<"A">>)
              [] OTHER                 -> tree[Followed(p)]

IsFile(p) == Found(p).kind = "file"
IsDirectory(p) == Found(p).kind = "directory"
IsLink(p) == p \in Entries /\ tree[p].kind = "link"

\* The host lets the router stat p, links followed, and open or list it.
Sees(p) == {p, Followed(p)} \cap host.unseen = {}
Opens(p) == Sees(p) /\ Followed(p) \notin host.unread

\* s[:k]
First(s, k) == SubSeq(s, 1, Min({k, Len(s)}))

------------------------------------------------------------------------------
(* UTF-8, by kinds of bytes: "A" stands alone, "L2" and "L3" lead a        *)
(* character of two and of three bytes, "C" continues one.                 *)

Width == [A |-> 1, L2 |-> 2, L3 |-> 3]

\* The bytes s are whole characters: every byte that continues one belongs to
\* a leading byte, and every leading byte has all that continue it.
IsText(s) ==
  \A i \in 1..Len(s) :
    IF s[i] = "C"
    THEN \E j \in 1..i - 1 : s[j] # "C" /\ i < j + Width[s[j]]
    ELSE \A j \in i + 1..i + Width[s[i]] - 1 : j <= Len(s) /\ s[j] = "C"

\* The output of git is text when it gets here: _run_git decodes it and replaces
\* what is not UTF-8, and the executor encodes it again.
ASSUME DiffsAreTexts == \A s \in Diffs : s \in Seq(Bytes) /\ IsText(s)

\* The last byte of the character that byte i leads, and the bytes of it that do
\* not continue it.
LastByte(s, i) == i + Width[s[i]] - 1

Broken(s, i) == {j \in i + 1..LastByte(s, i) : j <= Len(s) /\ s[j] # "C"}

\* bytes.decode: where decoding s stops, and why.
Stop(i, why) == [at |-> i - 1, why |-> why]

Decoded(s) ==
  LET From[i \in 1..Len(s) + 1] ==
        IF i = Len(s) + 1 THEN Stop(i, "end")
        ELSE IF s[i] = "C" \/ Broken(s, i) # {} THEN Stop(i, "invalid")
        ELSE IF LastByte(s, i) > Len(s) THEN Stop(i, "unexpected end")
        ELSE From[LastByte(s, i) + 1]
  IN From[1]

\* Fault: the probe reads no byte beyond the limit.
CutWithoutProbe(s, limit) ==
  LET raw == First(s, limit)
      d == Decoded(raw)
  IN [why |-> d.why, text |-> First(raw, d.at),
      truncated |-> d.why = "unexpected end"]

\* What is kept of the bytes s: at most limit of them, without the start of a
\* character whose end is missing.
Cut(s, limit) ==
  LET probe == First(s, limit + 1)
      d == Decoded(First(probe, limit))
  IN [why |-> d.why,
      text |-> First(probe, d.at),
      truncated |-> Len(probe) > limit \/ d.why = "unexpected end"]

------------------------------------------------------------------------------
NoReply == [outcome |-> "none"]
Failure(code) == [outcome |-> code]

Idle == [at |-> "idle"]

Init == /\ \E w \in Workspaces : tree = w.tree /\ host = w.host
        /\ call = Idle
        /\ reply = NoReply
        /\ changed = FALSE

Answer(r) == call' = Idle /\ reply' = r /\ UNCHANGED <<tree, host, changed>>

Goto(c) == call' = c /\ UNCHANGED <<tree, host, reply, changed>>

Begin(c) == call = Idle /\ reply = NoReply /\ Goto(c)

Refuse(code) == call = Idle /\ reply = NoReply /\ Answer(Failure(code))

\* The result goes back to the tool loop; the tool may be called again.
Deliver == /\ reply # NoReply
           /\ reply' = NoReply
           /\ changed' = FALSE
           /\ UNCHANGED <<tree, host, call>>

Limits == (0..Maximum + 1) \cup {Unset}

\* _read_positive_int
Limit(v) == IF v = Unset THEN Default ELSE v
LimitOK(v) == Limit(v) \in 1..Maximum

\* _resolve_workspace_path: a link the router may not look at is not followed.
Resolved(p) == IF p \in host.unseen THEN p ELSE Followed(p)

PathOK(p) == p \notin {Blank, Unresolvable} /\ Resolved(p) # Outside

PathBad(p) == p = Blank \/ (p # Unresolvable /\ Resolved(p) = Outside)

\* An exception that is no wrong argument leaves the tool: where it came from.
Raised(c) == [outcome |-> "raised", by |-> c]

\* Path.resolve raises a ValueError or a RuntimeError.
ResolveRaises(v, p) ==
  /\ LimitOK(v) /\ p = Unresolvable
  /\ call = Idle /\ reply = NoReply
  /\ Answer(Raised([at |-> "resolve"]))

\* The workspace changes while a call is being worked on.
Change(n, x) ==
  /\ call # Idle
  /\ x \in Edits[n] \ {tree[n]}
  /\ tree' = [tree EXCEPT ![n] = x]
  /\ changed' = TRUE
  /\ UNCHANGED <<host, call, reply>>

ChangeHost(h) ==
  /\ call # Idle
  /\ h # host /\ host' = h
  /\ changed' = TRUE
  /\ UNCHANGED <<tree, call, reply>>

\* The next access of the call is one the host grants: to the path itself, to
\* the next entry of a listing, as a name or with its link followed, or to git.
Granted ==
  CASE call.at \in {"read", "list"} -> Sees(call.path)
    [] call.at \in {"open", "scan"} -> Opens(call.path)
    [] call.at = "entries" -> call.todo # <<>> => Head(call.todo) \notin host.unseen
    [] call.at \in {"is_dir", "is_file", "size", "stat"} -> Sees(Head(call.todo))
    [] call.at \in {"status", "diff"} -> host.git
    [] OTHER -> TRUE

\* Any other access raises an OSError, in whatever workspace.
AccessRefused == ~Granted /\ Answer(Raised(call))

------------------------------------------------------------------------------
(* filesystem.read                                                         *)

ReadRefused(v, p) == (~LimitOK(v) \/ PathBad(p)) /\ Refuse("invalid")

Read(v, p) ==
  /\ LimitOK(v) /\ PathOK(p)
  /\ Begin([at |-> "read", path |-> Resolved(p), limit |-> Limit(v)])

ReadTest ==
  /\ call.at = "read" /\ Granted
  /\ IF IsFile(call.path) THEN Goto([call EXCEPT !.at = "open"])
                          ELSE Answer(Failure("invalid"))

\* open and one read of limit + 1 bytes; an OSError too if the file has gone.
ReadOpen ==
  /\ call.at = "open" /\ Granted
  /\ LET kept == Cut(Found(call.path).text, call.limit)
     IN Answer(IF ~IsFile(call.path) THEN Raised(call)
               ELSE IF kept.why = "invalid"
                    THEN [outcome |-> "not_text", path |-> call.path]
                    ELSE [outcome |-> "read", path |-> call.path,
                          limit |-> call.limit, text |-> kept.text,
                          truncated |-> kept.truncated])

------------------------------------------------------------------------------
(* filesystem.list                                                         *)

ListRefused(v, p) == (~LimitOK(v) \/ PathBad(p)) /\ Refuse("invalid")

List(v, p, hidden) ==
  /\ LimitOK(v) /\ PathOK(p)
  /\ Begin([at |-> "list", path |-> Resolved(p), limit |-> Limit(v),
            hidden |-> hidden])

ListTest ==
  /\ call.at = "list" /\ Granted
  /\ IF IsDirectory(call.path) THEN Goto([call EXCEPT !.at = "scan"])
                               ELSE Answer(Failure("invalid"))

\* The names in S, in their order: the i-th has i - 1 of them before it.
Before(S, n) == {m \in S : m < n}

Sorted(S) ==
  [i \in 1..Cardinality(S) |-> CHOOSE n \in S : Cardinality(Before(S, n)) = i - 1]

\* _list_directory_entries
Present(path, hidden) ==
  IF path # Root THEN {}
  ELSE {n \in Entries : tree[n].kind # "absent" /\ (hidden \/ n \notin Hidden)}

Listed(c) == [outcome |-> "list", path |-> c.path, limit |-> c.limit,
              hidden |-> c.hidden, entries |-> c.done, count |-> c.count,
              truncated |-> c.count > c.limit]

\* Fault: hidden names are filtered after the list was cut.
ListScanThenFilter ==
  /\ call.at = "scan" /\ Granted
  /\ LET all == Sorted(Present(call.path, TRUE))
         cut == First(all, call.limit)
     IN IF ~IsDirectory(call.path) THEN Answer(Raised(call))
        ELSE Goto([at |-> "entries", path |-> call.path, limit |-> call.limit,
                   hidden |-> call.hidden, count |-> Len(all), done |-> <<>>,
                   todo |-> SelectSeq(cut, LAMBDA n : n \notin Hidden
                                                      \/ call.hidden)])

ListScan ==
  /\ call.at = "scan" /\ Granted
  /\ LET all == Sorted(Present(call.path, call.hidden))
     IN IF ~IsDirectory(call.path) THEN Answer(Raised(call))
        ELSE Goto([at |-> "entries", path |-> call.path, limit |-> call.limit,
                   hidden |-> call.hidden, count |-> Len(all), done |-> <<>>,
                   todo |-> First(all, call.limit)])

\* _filesystem_entry_payload: the tests of _entry_type, the test before the
\* size, and the size itself, one access each.
Entry == Head(call.todo)

Typed(type) ==
  [call EXCEPT !.at = "size",
               !.done = Append(@, [name |-> Entry, type |-> type, size |-> Unset])]

TestLink ==
  /\ call.at = "entries" /\ call.todo # <<>> /\ Granted
  /\ Goto(IF IsLink(Entry) THEN Typed("symlink")
                           ELSE [call EXCEPT !.at = "is_dir"])

TestDirectory ==
  /\ call.at = "is_dir" /\ Granted
  /\ Goto(IF IsDirectory(Entry) THEN Typed("directory")
                                ELSE [call EXCEPT !.at = "is_file"])

TestFile ==
  /\ call.at = "is_file" /\ Granted
  /\ Goto(Typed(IF IsFile(Entry) THEN "file" ELSE "other"))

NextEntry(c) == [c EXCEPT !.at = "entries", !.todo = Tail(@)]

\* Fault: the size is read of every entry.
EntrySizeOfAll ==
  /\ call.at = "size" /\ Granted
  /\ Goto([call EXCEPT !.at = "stat"])

EntrySizeTest ==
  /\ call.at = "size" /\ Granted
  /\ Goto(IF IsFile(Entry) THEN [call EXCEPT !.at = "stat"]
                           ELSE NextEntry(call))

\* entry.stat(): a FileNotFoundError if it has gone since the test.
EntryStat ==
  /\ call.at = "stat" /\ Granted
  /\ IF Found(Entry).kind = "absent" THEN Answer(Raised(call))
     ELSE Goto([NextEntry(call) EXCEPT
                  !.done[Len(call.done)].size = Len(Found(Entry).text)])

ListDone == call.at = "entries" /\ call.todo = <<>> /\ Answer(Listed(call))

------------------------------------------------------------------------------
(* git.status and git.diff.  git may fail, or be killed at the timeout.    *)

GitFails(code) ==
  call.at \in {"status", "diff"} /\ Granted /\ Answer(Failure(code))

StatusRefused(v) == ~LimitOK(v) /\ Refuse("invalid")

Status(v) == LimitOK(v) /\ Begin([at |-> "status", limit |-> Limit(v)])

\* _parse_git_status_line: x is the state in the index, y in the work tree.
Parsed(line) == [staged |-> line.x \notin {" ", "?"},
                 unstaged |-> line.y \notin {" ", "?"},
                 untracked |-> line.x = "?" /\ line.y = "?"]

CountOf(entries, Test(_)) ==
  Cardinality({i \in DOMAIN entries : Test(entries[i])})

\* Fault: only the entries that are returned are counted.
StatusAnswerReturned(lines) ==
  /\ call.at = "status" /\ Granted
  /\ LET entries == [i \in 1..Len(lines) |-> Parsed(lines[i])]
         returned == First(entries, call.limit)
     IN Answer([outcome |-> "status", lines |-> lines, returned |-> returned,
                count |-> Len(entries), truncated |-> Len(entries) > call.limit,
                clean |-> entries = <<>>,
                staged |-> CountOf(returned, LAMBDA e : e.staged),
                unstaged |-> CountOf(returned, LAMBDA e : e.unstaged),
                untracked |-> CountOf(returned, LAMBDA e : e.untracked)])

StatusAnswer(lines) ==
  /\ call.at = "status" /\ Granted
  /\ LET entries == [i \in 1..Len(lines) |-> Parsed(lines[i])]
     IN Answer([outcome |-> "status", lines |-> lines,
                returned |-> First(entries, call.limit),
                count |-> Len(entries), truncated |-> Len(entries) > call.limit,
                clean |-> entries = <<>>,
                staged |-> CountOf(entries, LAMBDA e : e.staged),
                unstaged |-> CountOf(entries, LAMBDA e : e.unstaged),
                untracked |-> CountOf(entries, LAMBDA e : e.untracked)])

DiffRefused(v, p) == (~LimitOK(v) \/ (p # Unset /\ PathBad(p))) /\ Refuse("invalid")

Diff(v, p) ==
  /\ LimitOK(v) /\ (p = Unset \/ PathOK(p))
  /\ Begin([at |-> "diff", limit |-> Limit(v),
            path |-> IF p = Unset THEN Root ELSE Resolved(p)])

DiffAnswer(s) ==
  /\ call.at = "diff" /\ Granted
  /\ LET kept == Cut(s, call.limit)
     IN Answer([outcome |-> "diff", of |-> s, limit |-> call.limit,
                path |-> call.path, replaced |-> kept.why = "invalid",
                text |-> kept.text, truncated |-> kept.truncated])

------------------------------------------------------------------------------
Arguments == Paths \cup {Blank, Unresolvable}

ReadStep ==
  \/ \E v \in Limits, p \in Arguments : ReadRefused(v, p) \/ Read(v, p)
  \/ ReadTest
  \/ ReadOpen

ListStep ==
  \/ \E v \in Limits, p \in Arguments :
       \/ ListRefused(v, p)
       \/ \E hidden \in BOOLEAN : List(v, p, hidden)
  \/ ListTest
  \/ ListScan
  \/ TestLink \/ TestDirectory \/ TestFile
  \/ EntrySizeTest
  \/ EntryStat
  \/ ListDone

GitStep ==
  \/ \E code \in {"tool_timeout", "git_failed"} : GitFails(code)
  \/ \E v \in Limits : StatusRefused(v) \/ Status(v)
  \/ \E lines \in Statuses : StatusAnswer(lines)
  \/ \E v \in Limits, p \in Arguments \cup {Unset} :
       DiffRefused(v, p) \/ Diff(v, p)
  \/ \E s \in Diffs : DiffAnswer(s)

Raise == AccessRefused \/ \E v \in Limits, p \in Arguments : ResolveRaises(v, p)

Edit == \/ \E n \in Entries : \E x \in Edits[n] : Change(n, x)
        \/ \E h \in Hosts : ChangeHost(h)

Next == ReadStep \/ ListStep \/ GitStep \/ Raise \/ Deliver \/ Edit

Spec == Init /\ [][Next]_vars

------------------------------------------------------------------------------
(* Properties.                                                             *)

\* Of the bytes s, text is the longest run of whole characters of at most
\* "limit" bytes; truncated tells whether anything is missing.
CutAtCharacter(s, limit, text, truncated) ==
  /\ IsPrefix(text, s) /\ IsText(text) /\ Len(text) <= limit
  /\ \A k \in Len(text) + 1..Len(s) :
       IsText(SubSeq(s, 1, k)) => k > limit
  /\ truncated <=> text # s

\* "max_bytes cutting mid-UTF-8 sequence must return the largest valid prefix,
\* not fail" (tests/test_core_tools.py:266), for every text and every limit, in
\* filesystem.read and in git.diff; a text is never refused for its bytes, the
\* flag "truncated" is exact, whatever the file holds, and the branch the code
\* calls unreachable (core_tools.py:249) is not reached.
TextsAreCutAtCharacters ==
  /\ reply.outcome = "read" =>
       CutAtCharacter(Found(reply.path).text, reply.limit, reply.text,
                      reply.truncated)
  /\ reply.outcome = "not_text" => ~IsText(Found(reply.path).text)
  /\ reply.outcome = "diff" =>
       /\ ~reply.replaced
       /\ CutAtCharacter(reply.of, reply.limit, reply.text, reply.truncated)

\* An entry as it is found in the workspace.
TypeOf(n) == IF IsLink(n) THEN "symlink" ELSE Found(n).kind
SizeOf(n) == IF IsFile(n) THEN Len(Found(n).text) ELSE Unset

Exact(e) == e.type = TypeOf(e.name) /\ e.size = SizeOf(e.name)

NamesOf(entries) == [i \in DOMAIN entries |-> entries[i].name]

\* The answer r of a listing is what the directory holds.
ExactListing(r) ==
  LET visible == Present(r.path, r.hidden)
      names == NamesOf(r.entries)
      given == Range(names)
  IN /\ r.count = Cardinality(visible)
     /\ Len(names) = IF r.count > r.limit THEN r.limit ELSE r.count
     /\ r.truncated <=> given # visible
     /\ given \subseteq visible
     /\ \A i, j \in DOMAIN names : i < j => names[i] < names[j]
     /\ \A n \in visible \ given : \A m \in given : m < n
     /\ \A i \in DOMAIN r.entries : Exact(r.entries[i])

\* If nobody changes the workspace during the call, filesystem.list answers
\* the visible entries in their order up to the limit, each with its type and,
\* if it leads to a file, that file's size, and counts all of them.
ListIsExact == reply.outcome = "list" /\ ~changed => ExactListing(reply)

\* The names a listing has to give.
Due(c) == First(Sorted(Present(c.path, c.hidden)), c.limit)

\* What the host refuses, or what the argument is, that explains why the call c
\* raised: the path cannot be resolved, git cannot be run, the path itself may
\* not be opened, or one of the entries to be listed may not be looked at.
Cause(c) ==
  \/ c.at = "resolve"
  \/ c.at \in {"status", "diff"} /\ ~host.git
  \/ c.at \in {"read", "open", "list", "scan"} /\ ~Opens(c.path)
  \/ c.at \in {"entries", "is_dir", "is_file", "size", "stat"}
     /\ \E i \in 1..Len(Due(c)) : ~Sees(Due(c)[i])

\* An exception that leaves a tool ends the whole request of the client (500,
\* tool_execution_failed, tool_loop.py:255), where a wrong argument only goes
\* back to the model.  In a workspace nobody changes under the call, a tool
\* raises for a cause of its own call alone: an entry that leads nowhere, that
\* may only not be opened, that is hidden or beyond the limit ends no listing.
RaisesHaveACause == reply.outcome = "raised" /\ ~changed => Cause(reply.by)

\* git.status counts every entry, also those the limit leaves out: each is
\* staged, unstaged or untracked, and the work tree is clean if none is.
StatusAddsUp ==
  reply.outcome = "status" =>
    /\ reply.count = Len(reply.lines)
    /\ reply.clean <=> reply.staged + reply.unstaged + reply.untracked = 0
    /\ reply.staged + reply.untracked <= reply.count
    /\ reply.unstaged + reply.untracked <= reply.count
    /\ reply.count <= reply.staged + reply.unstaged + reply.untracked
    /\ Len(reply.returned) <= reply.count
    /\ reply.truncated <=> Len(reply.returned) < reply.count

------------------------------------------------------------------------------
(* The inductive strengthening, access by access.                          *)

EntryType == [name : Entries, type : {"symlink", "directory", "file", "other"},
              size : Nat \cup {Unset}]

ListStages == {"entries", "is_dir", "is_file", "size", "stat"}

Inside == Entries \cup {Root}

CallType ==
  {Idle} \cup [at : {"read", "open"}, path : Inside, limit : 1..Maximum]
         \cup [at : {"list", "scan"}, path : Inside, limit : 1..Maximum,
               hidden : BOOLEAN]
         \cup [at : ListStages, path : Inside, limit : 1..Maximum, hidden : BOOLEAN,
               count : Nat, done : Seq(EntryType), todo : Seq(Entries)]
         \cup [at : {"status"}, limit : 1..Maximum]
         \cup [at : {"diff"}, limit : 1..Maximum, path : Inside]

TypeOK ==
  /\ tree \in [Entries -> Node] /\ \A n \in Entries : tree[n] \in Place(n)
  /\ host \in Host
  /\ call \in CallType
  /\ call.at \in ListStages \ {"entries"} => call.todo # <<>>
  /\ call.at \in {"size", "stat"} => call.done # <<>>
  /\ call # Idle => reply = NoReply
  /\ changed \in BOOLEAN

\* How many of them it has given in full.
Finished(c) == IF c.at \in {"size", "stat"} THEN Len(c.done) - 1 ELSE Len(c.done)

ListingInv(c) ==
  /\ c.count = Cardinality(Present(c.path, c.hidden))
  /\ Len(Due(c)) = Finished(c) + Len(c.todo)
  /\ \A i \in 1..Finished(c) : c.done[i].name = Due(c)[i] /\ Exact(c.done[i])
  /\ \A i \in 1..Len(c.todo) : c.todo[i] = Due(c)[Finished(c) + i]
  /\ c.at \in {"is_dir", "is_file"} => ~IsLink(Head(c.todo))
  /\ c.at = "is_file" => ~IsDirectory(Head(c.todo))
  /\ c.at \in {"size", "stat"} =>
       LET e == c.done[Len(c.done)]
       IN e.name = Head(c.todo) /\ e.type = TypeOf(e.name) /\ e.size = Unset
  /\ c.at = "stat" => IsFile(Head(c.todo))

\* What a call has found is still there if nobody has changed the workspace.
FoundInv ==
  ~changed =>
    /\ call.at = "open" => IsFile(call.path)
    /\ call.at = "scan" => IsDirectory(call.path)
    /\ call.at \in ListStages => ListingInv(call)
==============================================================================
