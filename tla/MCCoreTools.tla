------------------------------ MODULE MCCoreTools ------------------------------
(* Instances of CoreTools for TLC. *)
EXTENDS CoreTools, TLC

\* All sequences of up to k bytes.
UpTo(k) == UNION {[1..i -> Bytes] : i \in 0..k}

MCEntries == 1..4

\* 3 can be a link to 2, 4 one out of the workspace.
MCTarget == (3 :> 2) @@ (4 :> Outside)

\* Any three bytes, and some longer texts.
MCBytes == UpTo(3) \cup {<<"L3", "C", "C", "A">>, <<"A", "L3", "C", "C">>,
                         <<"A", "A", "L2", "C">>, <<"L2", "C", "L3", "C">>,
                         <<"A", "A", "A", "A", "A">>}

\* File 2 may hold any of them; a hidden file comes before it.
MCTrees ==
  {(1 :> File(<<"A">>)) @@ (2 :> File(t)) @@ (3 :> Link) @@ (4 :> Link) :
     t \in MCBytes}

\* The host refuses nothing; or to open file 2 and to run git; or to list the
\* directory; or to look at what link 4 leads to, at link 3, at the hidden file,
\* or at anything.
Open == [unseen |-> {}, unread |-> {}, git |-> TRUE]

NoFile2 == [unseen |-> {}, unread |-> {2}, git |-> FALSE]

MCRefusals == {NoFile2, [Open EXCEPT !.unread = {Root}]}
              \cup {[Open EXCEPT !.unseen = S] :
                       S \in {{Outside}, {3}, {1}, 1..4 \cup {Root}}}

\* All texts where nothing is refused, and one where something is.
MCWorkspaces ==
  {[tree |-> t, host |-> Open] : t \in MCTrees}
    \cup {[tree |-> t, host |-> h] :
             t \in {u \in MCTrees : u[2].text = <<"A", "L2", "C">>}, h \in MCRefusals}

MCHosts == {NoFile2}

\* Files come, go and change their size, one becomes a directory, a link goes.
MCEdits == (1 :> {Nothing})
             @@ (2 :> {Nothing, Directory, File(<<"A">>)})
             @@ (3 :> {Nothing, Link}) @@ (4 :> {Link})

MCLines == {[x |-> "?", y |-> "?"], [x |-> " ", y |-> "M"],
            [x |-> "M", y |-> "M"]}

MCStatuses == UNION {[1..i -> MCLines] : i \in {0, 1, 3}}

\* git's output is decoded and encoded again: it is text.
MCDiffs == {s \in UpTo(3) \cup {<<"A", "L3", "C", "C">>} : IsText(s)}
==============================================================================
