--------------------------- MODULE CoreTools_proofs ---------------------------
(***************************************************************************)
(* Proofs about the core tools, for every workspace, every editor of it    *)
(* and every output of git.                                                *)
(*                                                                         *)
(* TypeOK bounds a call by its stage, FoundInv says what the accesses of a *)
(* call so far have found if nobody has changed the workspace: the entries *)
(* done are the first of those due, with their types and sizes, and the    *)
(* entries left are the others.  What is kept of a text is an induction    *)
(* over its bytes from the last to the first (DecodingStops): Decoded      *)
(* stops behind whole characters, and at one that is broken or whose end   *)
(* is missing.                                                             *)
(***************************************************************************)
EXTENDS CoreTools, FiniteSetTheorems, SequenceTheorems, WellFoundedInduction, TLAPS

(***************************************************************************)
(* Types.                                                                  *)
(***************************************************************************)

LEMMA FoundType ==
  ASSUME tree \in [Entries -> Node], \A n \in Entries : tree[n] \in Place(n),
         NEW p \in Inside
  PROVE  Found(p) \in Node
<1>1. CASE Followed(p) = Root
  <2>1. <<>> \in Seq(Bytes)
    BY EmptySeq
  <2>2. Found(p) = Directory
    <3>1. Root # Outside
      BY CoreToolsOK
    <3> QED
      BY <1>1, <3>1 DEF Found
  <2> QED
    BY <2>1, <2>2 DEF Directory, Node
<1>2. CASE Followed(p) = Outside
  <2>1. <<"A">> \in Seq(Bytes)
    <3>1. "A" \in Bytes /\ <<>> \in Seq(Bytes)
      BY EmptySeq DEF Bytes
    <3>2. Append(<<>>, "A") \in Seq(Bytes)
      BY <3>1, AppendProperties
    <3> QED
      BY <3>2
  <2>2. Outside # Root
    BY CoreToolsOK
  <2>3. Found(p) = File(<<"A">>)
    BY <1>2, <2>2 DEF Found
  <2> QED
    BY <2>1, <2>3 DEF File, Node
<1>3. CASE Followed(p) \notin {Root, Outside}
  <2>1. Followed(p) \in Entries
    <3>1. p \in Entries => (tree[p].kind = "link" => p \in DOMAIN Target)
      BY DEF Place
    <3>2. \A n \in DOMAIN Target : Target[n] \in Entries \cup {Outside}
      BY CoreToolsOK
    <3> QED
      BY <1>3, <3>1, <3>2 DEF Followed, Inside
  <2>2. Found(p) = tree[Followed(p)]
    BY <1>3 DEF Found
  <2> QED
    BY <2>1, <2>2
<1> QED
  BY <1>1, <1>2, <1>3

LEMMA ResolvedInside ==
  ASSUME tree \in [Entries -> Node], \A n \in Entries : tree[n] \in Place(n),
         NEW p \in Arguments, PathOK(p)
  PROVE  Resolved(p) \in Inside
<1>1. p \in Entries => (tree[p].kind = "link" => p \in DOMAIN Target)
  BY DEF Place
<1>2. \A n \in DOMAIN Target : Target[n] \in Entries \cup {Outside}
  BY CoreToolsOK
<1> QED
  BY <1>1, <1>2 DEF Followed, Resolved, Inside, Paths, Arguments, PathOK

LEMMA LimitType ==
  ASSUME NEW v \in Limits, LimitOK(v)
  PROVE  Limit(v) \in 1..Maximum
BY DEF LimitOK

\* The first k of a sequence.
LEMMA FirstType ==
  ASSUME NEW S, NEW s \in Seq(S), NEW k \in Nat
  PROVE  /\ First(s, k) \in Seq(S)
         /\ Len(First(s, k)) = IF k <= Len(s) THEN k ELSE Len(s)
         /\ Len(First(s, k)) \in 0..Len(s) /\ Len(First(s, k)) <= k
         /\ \A i \in 1..Len(First(s, k)) : First(s, k)[i] = s[i]
         /\ First(s, k) = SubSeq(s, 1, Len(First(s, k)))
<1>1. PICK m \in Nat : m = Len(s) /\ DOMAIN s = 1..m
  BY LenProperties
<1>2. PICK n \in Nat : n = IF k <= m THEN k ELSE m
  BY <1>1
<1>3. Min({k, Len(s)}) = n
  <2>1. PICK T : T = {k, m}
    OBVIOUS
  <2>2. n \in T /\ \A y \in T : n <= y
    BY <1>2, <2>1
  <2>3. \A x \in T : (\A y \in T : x <= y) => x = n
    BY <1>2, <2>1
  <2>4. (CHOOSE x \in T : \A y \in T : x <= y) = n
    BY <2>2, <2>3
  <2> QED
    BY <1>1, <2>1, <2>4 DEF Min
<1>4. First(s, k) = SubSeq(s, 1, n)
  BY <1>3 DEF First
<1>5. 1 \in 1..(m + 1) /\ n \in (1 - 1)..m
  BY <1>2
<1>6. /\ SubSeq(s, 1, n) \in Seq(S)
      /\ Len(SubSeq(s, 1, n)) = IF 1 <= n THEN n - 1 + 1 ELSE 0
      /\ \A i \in 1..(n - 1 + 1) : SubSeq(s, 1, n)[i] = s[1 + i - 1]
  <2>1. \A i \in 1..n : s[i] \in S
    BY <1>1, <1>2, ElementOfSeq
  <2> QED
    BY <1>1, <1>2, <2>1, SubSeqProperties
<1> QED
  BY <1>1, <1>2, <1>4, <1>6

Reading == [at : {"read", "open"}, path : Inside, limit : 1..Maximum]

Scanning == [at : {"list", "scan"}, path : Inside, limit : 1..Maximum, hidden : BOOLEAN]

Listing == [at : ListStages, path : Inside, limit : 1..Maximum, hidden : BOOLEAN,
            count : Nat, done : Seq(EntryType), todo : Seq(Entries)]

Running == [at : {"status"}, limit : 1..Maximum]

Diffing == [at : {"diff"}, limit : 1..Maximum, path : Inside]

LEMMA CallKinds ==
  ASSUME NEW c \in CallType
  PROVE  /\ c.at \in {"read", "open"} => c \in Reading
         /\ c.at \in {"list", "scan"} => c \in Scanning
         /\ c.at \in ListStages => c \in Listing
         /\ c.at = "status" => c \in Running
         /\ c.at = "diff" => c \in Diffing
<1>1. c \in {Idle} \cup Reading \cup Scanning \cup Listing \cup Running \cup Diffing
  BY DEF CallType, Reading, Scanning, Listing, Running, Diffing
<1>2. CASE c = Idle
  BY <1>2 DEF Idle, ListStages
<1>3. CASE c \in Reading
  BY <1>3 DEF Reading, ListStages
<1>4. CASE c \in Scanning
  BY <1>4 DEF Scanning, ListStages
<1>5. CASE c \in Listing
  BY <1>5 DEF Listing, ListStages
<1>6. CASE c \in Running
  BY <1>6 DEF Running, ListStages
<1>7. CASE c \in Diffing
  BY <1>7 DEF Diffing, ListStages
<1> QED
  BY <1>1, <1>2, <1>3, <1>4, <1>5, <1>6, <1>7

LEMMA KindsAreCalls ==
  /\ Idle \in CallType
  /\ Reading \subseteq CallType /\ Scanning \subseteq CallType
  /\ Listing \subseteq CallType /\ Running \subseteq CallType
  /\ Diffing \subseteq CallType
BY DEF CallType, Reading, Scanning, Listing, Running, Diffing

\* What a call that is not in the middle of an entry leaves to be shown.
LEMMA GotoType ==
  ASSUME TypeOK, NEW c \in CallType, Goto(c), call # Idle \/ reply = NoReply,
         c.at \in ListStages \ {"entries"} => c.todo # <<>>,
         c.at \in {"size", "stat"} => c.done # <<>>
  PROVE  TypeOK'
<1>1. call' = c /\ UNCHANGED <<tree, host, reply, changed>>
  BY DEF Goto
<1>2. reply = NoReply
  BY DEF TypeOK
<1> QED
  BY <1>1, <1>2 DEF TypeOK

LEMMA AnswerType ==
  ASSUME TypeOK, NEW r, Answer(r)
  PROVE  TypeOK'
<1>1. call' = Idle /\ UNCHANGED <<tree, host, changed>>
  BY DEF Answer
<1>2. Idle.at = "idle" /\ Idle \in CallType
  BY KindsAreCalls DEF Idle
<1> QED
  BY <1>1, <1>2 DEF TypeOK, ListStages

LEMMA EntryInTodo ==
  ASSUME TypeOK, call \in Listing, call.todo # <<>>
  PROVE  /\ Entry \in Entries /\ Tail(call.todo) \in Seq(Entries)
         /\ Entry = call.todo[1]
<1>1. call.todo \in Seq(Entries)
  BY DEF Listing
<1> QED
  BY <1>1, HeadTailProperties DEF Entry

\* The name of a type that an entry gets.
LEMMA TypedType ==
  ASSUME TypeOK, call \in Listing, call.todo # <<>>,
         NEW type \in {"symlink", "directory", "file", "other"}
  PROVE  LET e == [name |-> Entry, type |-> type, size |-> Unset]
             c == Typed(type)
         IN  /\ e \in EntryType
             /\ c \in Listing /\ c.at = "size" /\ c.path = call.path
             /\ c.limit = call.limit /\ c.hidden = call.hidden
             /\ c.count = call.count /\ c.todo = call.todo
             /\ c.done = Append(call.done, e) /\ c.done # <<>>
             /\ Len(c.done) = Len(call.done) + 1 /\ Len(call.done) \in Nat
             /\ c.done[Len(call.done) + 1] = e
             /\ \A i \in 1..Len(call.done) : c.done[i] = call.done[i]
<1>1. PICK e : e = [name |-> Entry, type |-> type, size |-> Unset]
  OBVIOUS
<1>2. e \in EntryType
  BY <1>1, EntryInTodo DEF EntryType
<1>3. PICK d : d = Append(call.done, e)
  OBVIOUS
<1>4. call.done \in Seq(EntryType)
  BY DEF Listing
<1>5. /\ d \in Seq(EntryType) /\ Len(d) = Len(call.done) + 1
      /\ \A i \in 1..Len(call.done) : d[i] = call.done[i]
      /\ d[Len(call.done) + 1] = e
  BY <1>2, <1>3, <1>4, AppendProperties
<1>6. PICK c : c = Typed(type)
  OBVIOUS
<1>7. c = [call EXCEPT !.at = "size", !.done = d]
  BY <1>1, <1>3, <1>6 DEF Typed
<1>8. /\ c \in Listing /\ c.at = "size" /\ c.path = call.path
      /\ c.limit = call.limit /\ c.hidden = call.hidden
      /\ c.count = call.count /\ c.todo = call.todo /\ c.done = d
  BY <1>5, <1>7 DEF Listing, ListStages
<1>9. d # <<>> /\ Len(call.done) \in Nat
  BY <1>4, <1>5, EmptySeq, LenProperties
<1> QED
  BY <1>1, <1>2, <1>3, <1>5, <1>6, <1>8, <1>9

LEMMA NextEntryType ==
  ASSUME TypeOK, call \in Listing, call.todo # <<>>
  PROVE  LET c == NextEntry(call)
         IN  /\ c \in Listing /\ c.at = "entries" /\ c.path = call.path
             /\ c.limit = call.limit /\ c.hidden = call.hidden
             /\ c.count = call.count /\ c.done = call.done
             /\ c.todo = Tail(call.todo)
<1>1. Tail(call.todo) \in Seq(Entries)
  BY EntryInTodo
<1> QED
  BY <1>1 DEF NextEntry, Listing, ListStages

\* The size that the last entry gets.
Measured(size) == [NextEntry(call) EXCEPT !.done[Len(call.done)].size = size]

LEMMA MeasuredType ==
  ASSUME TypeOK, call \in Listing, call.todo # <<>>, call.done # <<>>,
         NEW size \in Nat
  PROVE  LET c == Measured(size)
             k == Len(call.done)
         IN  /\ c \in Listing /\ c.at = "entries" /\ c.path = call.path
             /\ c.limit = call.limit /\ c.hidden = call.hidden
             /\ c.count = call.count /\ c.todo = Tail(call.todo)
             /\ k \in Nat \ {0} /\ Len(c.done) = k
             /\ \A i \in 1..(k - 1) : c.done[i] = call.done[i]
             /\ c.done[k].name = call.done[k].name
             /\ c.done[k].type = call.done[k].type /\ c.done[k].size = size
<1>1. PICK x : x = NextEntry(call)
  OBVIOUS
<1>2. /\ x \in Listing /\ x.at = "entries" /\ x.path = call.path
      /\ x.limit = call.limit /\ x.hidden = call.hidden
      /\ x.count = call.count /\ x.done = call.done
      /\ x.todo = Tail(call.todo)
  BY <1>1, NextEntryType
<1>3. PICK d : d = call.done
  OBVIOUS
<1>4. d \in Seq(EntryType)
  BY <1>3 DEF Listing
<1>5. PICK k \in Nat : k = Len(d) /\ k # 0 /\ DOMAIN d = 1..k
  BY <1>3, <1>4, EmptySeq, LenProperties
<1>6. PICK e : e = [d[k] EXCEPT !.size = size]
  OBVIOUS
<1>7. k \in 1..k /\ d[k] \in EntryType
  BY <1>4, <1>5, ElementOfSeq
<1>8. e \in EntryType /\ e.name = d[k].name /\ e.type = d[k].type /\ e.size = size
  BY <1>6, <1>7 DEF EntryType
<1>9. PICK f : f = [d EXCEPT ![k] = e]
  OBVIOUS
<1>10. f \in Seq(EntryType) /\ Len(f) = k
       /\ \A i \in 1..k : f[i] = IF i = k THEN e ELSE d[i]
  <2>1. \A i \in 1..k : d[i] \in EntryType
    BY <1>4, <1>5, ElementOfSeq
  <2>2. /\ DOMAIN f = 1..k /\ \A i \in 1..k : f[i] = IF i = k THEN e ELSE d[i]
        /\ f = [i \in 1..k |-> f[i]]
    BY <1>5, <1>9
  <2>3. f \in [1..k -> EntryType]
    BY <1>8, <2>1, <2>2
  <2>4. f \in Seq(EntryType)
    BY <2>3, SeqDef
  <2>5. Len(f) \in Nat /\ DOMAIN f = 1..Len(f)
    BY <2>4, LenProperties
  <2>6. Len(f) = k
    BY <2>2, <2>5
  <2> QED
    BY <2>2, <2>4, <2>6
<1>11. PICK c : c = Measured(size)
  OBVIOUS
<1>12. c = [x EXCEPT !.done = f]
  <2>1. c = [x EXCEPT !.done = [x.done EXCEPT ![k] = [x.done[k] EXCEPT !.size = size]]]
    BY <1>1, <1>3, <1>5, <1>11, Zenon DEF Measured
  <2> QED
    BY <1>2, <1>3, <1>6, <1>9, <2>1
<1>13. /\ c \in Listing /\ c.at = "entries" /\ c.path = x.path
       /\ c.limit = x.limit /\ c.hidden = x.hidden
       /\ c.count = x.count /\ c.todo = x.todo /\ c.done = f
  BY <1>2, <1>10, <1>12 DEF Listing
<1>14. \A i \in 1..(k - 1) : i \in 1..k /\ i # k
  BY <1>5
<1> QED
  BY <1>2, <1>3, <1>5, <1>7, <1>8, <1>10, <1>11, <1>13, <1>14

(***************************************************************************)
(* The order of names.                                                     *)
(***************************************************************************)

\* As many names come before a name as its place says.
LEMMA Ranks ==
  ASSUME NEW S \in SUBSET Entries
  PROVE  /\ IsFiniteSet(S) /\ Cardinality(S) \in Nat
         /\ \A n \in S : Cardinality(Before(S, n)) \in 0..(Cardinality(S) - 1)
         /\ \A m, n \in S :
              m < n <=> Cardinality(Before(S, m)) < Cardinality(Before(S, n))
         /\ \A k \in 0..(Cardinality(S) - 1) : \E n \in S : Cardinality(Before(S, n)) = k
<1>1. IsFiniteSet(S) /\ S \subseteq Nat
  BY CoreToolsOK, FS_Subset
<1>2. PICK N \in Nat : N = Cardinality(S)
  BY <1>1, FS_CardinalityType
<1>3. ASSUME NEW n \in S
      PROVE  IsFiniteSet(Before(S, n)) /\ Cardinality(Before(S, n)) \in 0..(N - 1)
  <2>1. Before(S, n) \in SUBSET S /\ Before(S, n) # S
    <3>1. ~(n < n)
      BY <1>1
    <3> QED
      BY <3>1 DEF Before
  <2>2. /\ IsFiniteSet(Before(S, n)) /\ Cardinality(Before(S, n)) <= N
        /\ Cardinality(Before(S, n)) # N
    BY <1>1, <1>2, <2>1, FS_Subset
  <2>3. Cardinality(Before(S, n)) \in Nat
    BY <2>2, FS_CardinalityType
  <2> QED
    BY <2>2, <2>3
<1>4. ASSUME NEW m \in S, NEW n \in S, m < n
      PROVE  Cardinality(Before(S, m)) < Cardinality(Before(S, n))
  <2>1. Before(S, m) \in SUBSET Before(S, n) /\ Before(S, m) # Before(S, n)
    <3>1. m \in Before(S, n) /\ m \notin Before(S, m)
      BY <1>1, <1>4 DEF Before
    <3>2. \A k \in S : k < m => k < n
      BY <1>1, <1>4
    <3> QED
      BY <3>1, <3>2 DEF Before
  <2>2. /\ Cardinality(Before(S, m)) <= Cardinality(Before(S, n))
        /\ Cardinality(Before(S, m)) # Cardinality(Before(S, n))
    BY <1>3, <2>1, FS_Subset
  <2> QED
    BY <1>3, <2>2
<1>5. ASSUME NEW m \in S, NEW n \in S,
             Cardinality(Before(S, m)) < Cardinality(Before(S, n))
      PROVE  m < n
  <2>1. CASE m = n
    BY <1>3, <1>5, <2>1
  <2>2. CASE n < m
    BY <1>3, <1>4, <1>5, <2>2
  <2> QED
    BY <1>1, <2>1, <2>2
<1>6. PICK r : r = [n \in S |-> Cardinality(Before(S, n))]
  OBVIOUS
<1>7. r \in Injection(S, 0..(N - 1))
  <2>1. r \in [S -> 0..(N - 1)]
    BY <1>3, <1>6
  <2>2. \A m, n \in S : r[m] = r[n] => m = n
    <3> SUFFICES ASSUME NEW m \in S, NEW n \in S, r[m] = r[n], m # n
                 PROVE  FALSE
      OBVIOUS
    <3>1. m < n \/ n < m
      BY <1>1
    <3> QED
      BY <1>3, <1>4, <1>6, <3>1
  <2> QED
    BY <2>1, <2>2 DEF Injection, IsInjective
<1>8. IsFiniteSet(0..(N - 1)) /\ Cardinality(0..(N - 1)) = N
  BY FS_Interval
<1>9. r \in Surjection(S, 0..(N - 1))
  BY <1>2, <1>7, <1>8, FS_Injection
<1>10. \A k \in 0..(N - 1) : \E n \in S : r[n] = k
  BY <1>9 DEF Surjection
<1> QED
  BY <1>1, <1>2, <1>3, <1>4, <1>5, <1>6, <1>10

\* Every name of S stands once in its order, behind all that come before it.
LEMMA SortedOrder ==
  ASSUME NEW S \in SUBSET Entries
  PROVE  /\ Cardinality(S) \in Nat
         /\ Sorted(S) \in Seq(S) /\ Sorted(S) \in Seq(Entries)
         /\ Len(Sorted(S)) = Cardinality(S)
         /\ \A i \in 1..Cardinality(S) :
              Sorted(S)[i] \in S /\ Cardinality(Before(S, Sorted(S)[i])) = i - 1
         /\ \A i, j \in 1..Cardinality(S) : i < j => Sorted(S)[i] < Sorted(S)[j]
         /\ \A n \in S : \E i \in 1..Cardinality(S) : Sorted(S)[i] = n
<1>1. PICK N \in Nat : N = Cardinality(S)
  BY Ranks
<1>2. PICK q : q = Sorted(S)
  OBVIOUS
<1>3. /\ q = [i \in 1..N |->
                CHOOSE n \in S : Cardinality(Before(S, n)) = i - 1]
  BY <1>1, <1>2 DEF Sorted
<1>4. ASSUME NEW i \in 1..N
      PROVE  q[i] \in S /\ Cardinality(Before(S, q[i])) = i - 1
  <2>1. i - 1 \in 0..(N - 1)
    BY <1>1
  <2>2. \E n \in S : Cardinality(Before(S, n)) = i - 1
    BY <1>1, <2>1, Ranks
  <2>3. q[i] = CHOOSE n \in S : Cardinality(Before(S, n)) = i - 1
    BY <1>3
  <2> QED
    BY <2>2, <2>3
<1>5. q \in [1..N -> S]
  BY <1>3, <1>4
<1>6. q \in Seq(S) /\ Len(q) = N
  <2>1. q \in Seq(S)
    BY <1>5, SeqDef
  <2>2. PICK m \in Nat : m = Len(q) /\ DOMAIN q = 1..m
    BY <2>1, LenProperties
  <2>3. 1..m = 1..N
    BY <1>5, <2>2
  <2>4. m = N
    BY <2>3
  <2> QED
    BY <2>1, <2>2, <2>4
<1>7. q \in Seq(Entries)
  <2>1. q \in [1..N -> Entries]
    BY <1>5
  <2> QED
    BY <2>1, SeqDef
<1>8. ASSUME NEW i \in 1..N, NEW j \in 1..N, i < j
      PROVE  q[i] < q[j]
  <2>1. i - 1 < j - 1
    BY <1>8
  <2>2. /\ q[i] \in S /\ q[j] \in S
        /\ Cardinality(Before(S, q[i])) < Cardinality(Before(S, q[j]))
    BY <1>4, <2>1
  <2> QED
    BY <2>2, Ranks
<1>9. ASSUME NEW n \in S
      PROVE  \E i \in 1..N : q[i] = n
  <2>1. PICK k \in 0..(N - 1) : k = Cardinality(Before(S, n))
    BY <1>1, Ranks
  <2>2. k + 1 \in 1..N /\ k + 1 - 1 = k
    OBVIOUS
  <2>3. q[k + 1] \in S /\ Cardinality(Before(S, q[k + 1])) = k
    BY <1>4, <2>2
  <2>4. n \in Nat /\ q[k + 1] \in Nat
    BY <2>3, CoreToolsOK
  <2>5. ~(n < q[k + 1]) /\ ~(q[k + 1] < n)
    <3>1. ~(k < k)
      OBVIOUS
    <3> QED
      BY <2>1, <2>3, <3>1, Ranks
  <2>6. n = q[k + 1]
    BY <2>4, <2>5
  <2> QED
    BY <2>2, <2>6
<1> QED
  BY <1>1, <1>2, <1>4, <1>6, <1>7, <1>8, <1>9

LEMMA TypeInit == Init => TypeOK
<1> SUFFICES ASSUME Init PROVE TypeOK
  OBVIOUS
<1>1. call = Idle /\ reply = NoReply /\ changed = FALSE
  BY DEF Init
<1>2. /\ tree \in [Entries -> Node] /\ \A n \in Entries : tree[n] \in Place(n)
      /\ host \in Host
  <2>1. PICK w \in Workspaces : tree = w.tree /\ host = w.host
    BY DEF Init
  <2>2. /\ w \in [tree : [Entries -> Node], host : Host]
        /\ \A n \in Entries : w.tree[n] \in Place(n)
    BY CoreToolsOK
  <2> QED
    BY <2>1, <2>2
<1>3. call.at = "idle" /\ call \in CallType
  BY <1>1, KindsAreCalls DEF Idle
<1> QED
  BY <1>1, <1>2, <1>3 DEF TypeOK, ListStages

LEMMA ReadTypes ==
  ASSUME TypeOK, ReadStep
  PROVE  TypeOK'
<1>1. ASSUME NEW code, Refuse(code)
      PROVE  TypeOK'
  BY <1>1, AnswerType DEF Refuse
<1>2. ASSUME NEW v \in Limits, NEW p \in Arguments, Read(v, p)
      PROVE  TypeOK'
  <2>1. PICK c : c = [at |-> "read", path |-> Resolved(p), limit |-> Limit(v)]
    OBVIOUS
  <2>2. LimitOK(v) /\ PathOK(p) /\ reply = NoReply /\ Goto(c)
    BY <1>2, <2>1 DEF Read, Begin
  <2>3. c \in Reading /\ c.at = "read"
    BY <2>1, <2>2, LimitType, ResolvedInside DEF Reading, TypeOK
  <2> QED
    BY <2>2, <2>3, GotoType, KindsAreCalls DEF ListStages
<1>3. CASE ReadTest
  <2>1. PICK c : c = [call EXCEPT !.at = "open"]
    OBVIOUS
  <2>2. call.at = "read" /\ call \in Reading
    BY <1>3, CallKinds DEF ReadTest, TypeOK
  <2>3. c \in Reading /\ c.at = "open" /\ call # Idle
    BY <2>1, <2>2 DEF Reading, Idle
  <2>4. Goto(c) \/ \E r : Answer(r)
    BY <1>3, <2>1 DEF ReadTest
  <2> QED
    BY <2>3, <2>4, GotoType, AnswerType, KindsAreCalls DEF ListStages
<1>4. CASE ReadOpen
  <2>1. \E r : Answer(r)
    BY <1>4 DEF ReadOpen
  <2> QED
    BY <2>1, AnswerType
<1> QED
  BY <1>1, <1>2, <1>3, <1>4 DEF ReadStep, ReadRefused

LEMMA GitTypes ==
  ASSUME TypeOK, GitStep
  PROVE  TypeOK'
<1>1. ASSUME NEW code, GitFails(code)
      PROVE  TypeOK'
  BY <1>1, AnswerType DEF GitFails
<1>2. ASSUME NEW v \in Limits, StatusRefused(v) \/ Status(v)
      PROVE  TypeOK'
  <2>1. CASE StatusRefused(v)
    BY <2>1, AnswerType DEF StatusRefused, Refuse
  <2>2. CASE Status(v)
    <3>1. PICK c : c = [at |-> "status", limit |-> Limit(v)]
      OBVIOUS
    <3>2. LimitOK(v) /\ reply = NoReply /\ Goto(c)
      BY <2>2, <3>1 DEF Status, Begin
    <3>3. c \in Running /\ c.at = "status"
      BY <3>1, <3>2, LimitType DEF Running
    <3> QED
      BY <3>2, <3>3, GotoType, KindsAreCalls DEF ListStages
  <2> QED
    BY <1>2, <2>1, <2>2
<1>3. ASSUME NEW lines \in Statuses, StatusAnswer(lines)
      PROVE  TypeOK'
  <2>1. \E r : Answer(r)
    BY <1>3 DEF StatusAnswer
  <2> QED
    BY <2>1, AnswerType
<1>4. ASSUME NEW v \in Limits, NEW p \in Arguments \cup {Unset},
             DiffRefused(v, p) \/ Diff(v, p)
      PROVE  TypeOK'
  <2>1. CASE DiffRefused(v, p)
    BY <2>1, AnswerType DEF DiffRefused, Refuse
  <2>2. CASE Diff(v, p)
    <3>1. PICK d : d = IF p = Unset THEN Root ELSE Resolved(p)
      OBVIOUS
    <3>2. PICK c : c = [at |-> "diff", limit |-> Limit(v), path |-> d]
      OBVIOUS
    <3>3. LimitOK(v) /\ (p = Unset \/ PathOK(p)) /\ reply = NoReply /\ Goto(c)
      BY <2>2, <3>1, <3>2 DEF Diff, Begin
    <3>4. d \in Inside
      BY <3>1, <3>3, ResolvedInside DEF TypeOK, Inside
    <3>5. c \in Diffing /\ c.at = "diff"
      BY <3>2, <3>3, <3>4, LimitType DEF Diffing
    <3> QED
      BY <3>3, <3>5, GotoType, KindsAreCalls DEF ListStages
  <2> QED
    BY <1>4, <2>1, <2>2
<1>5. ASSUME NEW s \in Diffs, DiffAnswer(s)
      PROVE  TypeOK'
  <2>1. \E r : Answer(r)
    BY <1>5 DEF DiffAnswer
  <2> QED
    BY <2>1, AnswerType
<1> QED
  BY <1>1, <1>2, <1>3, <1>4, <1>5 DEF GitStep

\* The listing that a directory starts.
LEMMA ScannedType ==
  ASSUME TypeOK, call \in Scanning,
         NEW all, all = Sorted(Present(call.path, call.hidden)), all \in Seq(Entries),
         NEW c, c = [at |-> "entries", path |-> call.path, limit |-> call.limit,
                     hidden |-> call.hidden, count |-> Len(all), done |-> <<>>,
                     todo |-> First(all, call.limit)]
  PROVE  c \in Listing
<1>1. First(all, call.limit) \in Seq(Entries)
  BY FirstType DEF Scanning
<1>2. Len(all) \in Nat /\ <<>> \in Seq(EntryType)
  BY LenProperties, EmptySeq
<1> QED
  BY <1>1, <1>2 DEF Scanning, Listing, ListStages

LEMMA ListTypes ==
  ASSUME TypeOK, ListStep
  PROVE  TypeOK'
<1>1. ASSUME NEW code, Refuse(code)
      PROVE  TypeOK'
  BY <1>1, AnswerType DEF Refuse
<1>2. ASSUME NEW v \in Limits, NEW p \in Arguments, NEW hidden \in BOOLEAN,
             List(v, p, hidden)
      PROVE  TypeOK'
  <2>1. PICK c : c = [at |-> "list", path |-> Resolved(p), limit |-> Limit(v),
                      hidden |-> hidden]
    OBVIOUS
  <2>2. LimitOK(v) /\ PathOK(p) /\ reply = NoReply /\ Goto(c)
    BY <1>2, <2>1 DEF List, Begin
  <2>3. c \in Scanning /\ c.at = "list"
    BY <2>1, <2>2, LimitType, ResolvedInside DEF Scanning, TypeOK
  <2> QED
    BY <2>2, <2>3, GotoType, KindsAreCalls DEF ListStages
<1>3. CASE ListTest
  <2>1. PICK c : c = [call EXCEPT !.at = "scan"]
    OBVIOUS
  <2>2. call.at = "list" /\ call \in Scanning
    BY <1>3, CallKinds DEF ListTest, TypeOK
  <2>3. c \in Scanning /\ c.at = "scan" /\ call # Idle
    BY <2>1, <2>2 DEF Scanning, Idle
  <2>4. Goto(c) \/ \E r : Answer(r)
    BY <1>3, <2>1 DEF ListTest
  <2> QED
    BY <2>3, <2>4, GotoType, AnswerType, KindsAreCalls DEF ListStages
<1>4. CASE ListScan
  <2>1. call.at = "scan" /\ call \in Scanning /\ call # Idle
    BY <1>4, CallKinds DEF ListScan, TypeOK, Idle
  <2>2. PICK all : all = Sorted(Present(call.path, call.hidden))
    OBVIOUS
  <2>3. PICK c : c = [at |-> "entries", path |-> call.path, limit |-> call.limit,
                      hidden |-> call.hidden, count |-> Len(all), done |-> <<>>,
                      todo |-> First(all, call.limit)]
    OBVIOUS
  <2>4. Goto(c) \/ \E r : Answer(r)
    BY <1>4, <2>2, <2>3 DEF ListScan
  <2>5. Present(call.path, call.hidden) \subseteq Entries
    BY DEF Present
  <2>6. all \in Seq(Entries)
    BY <2>2, <2>5, SortedOrder
  <2>7. c \in Listing /\ c.at = "entries"
    BY <2>1, <2>2, <2>3, <2>6, ScannedType
  <2> QED
    BY <2>1, <2>4, <2>7, GotoType, AnswerType, KindsAreCalls
<1>5. ASSUME call.at \in ListStages, call.todo # <<>>,
             NEW type \in {"symlink", "directory", "file", "other"}, Goto(Typed(type))
      PROVE  TypeOK'
  <2>1. call \in Listing /\ call # Idle
    BY <1>5, CallKinds DEF TypeOK, Idle, ListStages
  <2>2. /\ Typed(type) \in Listing /\ Typed(type).at = "size"
        /\ Typed(type).todo # <<>> /\ Typed(type).done # <<>>
    BY <1>5, <2>1, TypedType
  <2> QED
    BY <1>5, <2>1, <2>2, GotoType, KindsAreCalls
<1>6. ASSUME call.at \in ListStages, call.todo # <<>>,
             NEW at \in {"is_dir", "is_file"}, Goto([call EXCEPT !.at = at])
      PROVE  TypeOK'
  <2>1. call \in Listing /\ call # Idle
    BY <1>6, CallKinds DEF TypeOK, Idle, ListStages
  <2>2. PICK c : c = [call EXCEPT !.at = at]
    OBVIOUS
  <2>3. c \in Listing /\ c.at = at /\ c.todo # <<>>
    BY <1>6, <2>1, <2>2 DEF Listing, ListStages
  <2> QED
    BY <1>6, <2>1, <2>2, <2>3, GotoType, KindsAreCalls
<1>7. CASE TestLink
  <2>1. call.at \in ListStages /\ call.todo # <<>>
    BY <1>7 DEF TestLink, ListStages
  <2>2. Goto(Typed("symlink")) \/ Goto([call EXCEPT !.at = "is_dir"])
    BY <1>7 DEF TestLink
  <2> QED
    BY <1>5, <1>6, <2>1, <2>2
<1>8. CASE TestDirectory
  <2>1. call.at \in ListStages /\ call.todo # <<>>
    BY <1>8 DEF TestDirectory, ListStages, TypeOK
  <2>2. Goto(Typed("directory")) \/ Goto([call EXCEPT !.at = "is_file"])
    BY <1>8 DEF TestDirectory
  <2> QED
    BY <1>5, <1>6, <2>1, <2>2
<1>9. CASE TestFile
  <2>1. call.at \in ListStages /\ call.todo # <<>>
    BY <1>9 DEF TestFile, ListStages, TypeOK
  <2>2. Goto(Typed("file")) \/ Goto(Typed("other"))
    BY <1>9 DEF TestFile
  <2> QED
    BY <1>5, <2>1, <2>2
<1>10. ASSUME call.at \in {"size", "stat"}
       PROVE  call \in Listing /\ call # Idle /\ call.todo # <<>> /\ call.done # <<>>
  BY <1>10, CallKinds DEF TypeOK, Idle, ListStages
<1>11. CASE EntrySizeTest
  <2>1. call.at = "size"
    BY <1>11 DEF EntrySizeTest
  <2>2. PICK c : c = [call EXCEPT !.at = "stat"]
    OBVIOUS
  <2>3. c \in Listing /\ c.at = "stat" /\ c.todo # <<>> /\ c.done # <<>>
    BY <1>10, <2>1, <2>2 DEF Listing, ListStages
  <2>4. NextEntry(call) \in Listing /\ NextEntry(call).at = "entries"
    BY <1>10, <2>1, NextEntryType
  <2>5. Goto(c) \/ Goto(NextEntry(call))
    BY <1>11, <2>2 DEF EntrySizeTest
  <2>6. CASE Goto(c)
    BY <1>10, <2>1, <2>3, <2>6, GotoType, KindsAreCalls
  <2>7. CASE Goto(NextEntry(call))
    BY <1>10, <2>1, <2>4, <2>7, GotoType, KindsAreCalls
  <2> QED
    BY <2>5, <2>6, <2>7
<1>12. CASE EntryStat
  <2>1. call.at = "stat"
    BY <1>12 DEF EntryStat
  <2>2. PICK size : size = Len(Found(Entry).text)
    OBVIOUS
  <2>3. PICK c : c = Measured(size)
    OBVIOUS
  <2>4. Goto(c) \/ \E r : Answer(r)
    BY <1>12, <2>2, <2>3 DEF EntryStat, Measured
  <2>5. size \in Nat
    <3>1. Entry \in Inside
      BY <1>10, <2>1, EntryInTodo DEF Inside
    <3>2. Found(Entry) \in Node
      BY <3>1, FoundType DEF TypeOK
    <3>3. Found(Entry).text \in Seq(Bytes)
      BY <3>2 DEF Node
    <3> QED
      BY <2>2, <3>3, LenProperties
  <2>6. c \in Listing /\ c.at = "entries"
    BY <1>10, <2>1, <2>3, <2>5, MeasuredType
  <2> QED
    BY <1>10, <2>1, <2>4, <2>6, GotoType, AnswerType, KindsAreCalls
<1>13. CASE ListDone
  BY <1>13, AnswerType DEF ListDone
<1> QED
  BY <1>1, <1>2, <1>3, <1>4, <1>7, <1>8, <1>9, <1>11, <1>12, <1>13
     DEF ListStep, ListRefused

LEMMA TypeStep ==
  ASSUME TypeOK, [Next]_vars
  PROVE  TypeOK'
<1>1. CASE Deliver
  <2>1. reply' = NoReply /\ changed' = FALSE /\ UNCHANGED <<tree, host, call>>
    BY <1>1 DEF Deliver
  <2> QED
    BY <2>1 DEF TypeOK
<1>2. ASSUME NEW n \in Entries, NEW x \in Edits[n], Change(n, x)
      PROVE  TypeOK'
  <2>1. /\ tree' = [tree EXCEPT ![n] = x] /\ changed' = TRUE
        /\ UNCHANGED <<host, call, reply>>
    BY <1>2 DEF Change
  <2>2. x \in Place(n) /\ x \in Node
    BY CoreToolsOK DEF Place
  <2>3. tree' \in [Entries -> Node] /\ \A m \in Entries : tree'[m] \in Place(m)
    BY <2>1, <2>2 DEF TypeOK
  <2> QED
    BY <2>1, <2>3 DEF TypeOK
<1>3. CASE UNCHANGED vars
  BY <1>3 DEF vars, TypeOK
<1>4. ASSUME NEW h \in Hosts, ChangeHost(h)
      PROVE  TypeOK'
  <2>1. host' = h /\ changed' = TRUE /\ UNCHANGED <<tree, call, reply>>
    BY <1>4 DEF ChangeHost
  <2>2. h \in Host
    BY CoreToolsOK
  <2> QED
    BY <2>1, <2>2 DEF TypeOK
<1>5. CASE Raise
  BY <1>5, AnswerType DEF Raise, AccessRefused, ResolveRaises
<1> QED
  BY <1>1, <1>2, <1>3, <1>4, <1>5, ReadTypes, ListTypes, GitTypes DEF Next, Edit

\* A call that works has no reply yet, an entry that is looked at is one of the
\* names left, and one that is measured has been given its type.
THEOREM TypeCorrect == Spec => []TypeOK
<1>1. Init => TypeOK
  BY TypeInit
<1>2. TypeOK /\ [Next]_vars => TypeOK'
  BY TypeStep
<1> QED
  BY <1>1, <1>2, PTL DEF Spec

(***************************************************************************)
(* Answers.                                                                *)
(***************************************************************************)

\* What a step does to the reply, and where a reply comes from.
LEMMA Answers ==
  ASSUME TypeOK, [Next]_vars
  PROVE  \/ UNCHANGED vars
         \/ reply' = NoReply
         \/ /\ call # Idle \/ reply = NoReply
            /\ \E code \in {"invalid", "tool_timeout", "git_failed"} :
                 Answer(Failure(code))
         \/ call # Idle /\ (ReadOpen \/ ListScan \/ EntryStat \/ ListDone)
         \/ call # Idle /\ \E lines \in Statuses : StatusAnswer(lines)
         \/ call # Idle /\ \E s \in Diffs : DiffAnswer(s)
         \/ Raise
<1>1. \A c : Goto(c) => reply' = reply
  BY DEF Goto
<1>2. call # Idle => reply = NoReply
  BY DEF TypeOK
<1>3. \A c : Begin(c) => reply' = NoReply
  BY DEF Begin, Goto
<1>4. \A code : Refuse(code) => reply = NoReply /\ Answer(Failure(code))
  BY DEF Refuse
<1>5. call.at # "idle" => call # Idle
  BY DEF Idle
<1>6. ASSUME NEW v, NEW p,
             ReadRefused(v, p) \/ ListRefused(v, p) \/ DiffRefused(v, p)
             \/ StatusRefused(v)
      PROVE  reply = NoReply /\ Answer(Failure("invalid"))
  BY <1>4, <1>6 DEF ReadRefused, ListRefused, DiffRefused, StatusRefused
<1>7. ASSUME NEW v, NEW p, NEW hidden,
             Read(v, p) \/ List(v, p, hidden) \/ Diff(v, p) \/ Status(v)
      PROVE  reply' = NoReply
  BY <1>3, <1>7 DEF Read, List, Diff, Status
<1>8. ASSUME ReadTest \/ ListTest
      PROVE  \/ reply' = NoReply
             \/ call # Idle /\ Answer(Failure("invalid"))
  BY <1>1, <1>2, <1>5, <1>8 DEF ReadTest, ListTest
<1>9. ASSUME TestLink \/ TestDirectory \/ TestFile \/ EntrySizeTest
      PROVE  reply' = NoReply
  BY <1>1, <1>2, <1>5, <1>9 DEF TestLink, TestDirectory, TestFile, EntrySizeTest
<1>10. ASSUME ReadOpen \/ ListScan \/ EntryStat \/ ListDone
       PROVE  call # Idle
  BY <1>5, <1>10 DEF ReadOpen, ListScan, EntryStat, ListDone
<1>11. ASSUME NEW x, StatusAnswer(x) \/ DiffAnswer(x)
       PROVE  call # Idle
  BY <1>5, <1>11 DEF StatusAnswer, DiffAnswer
<1>12. ASSUME NEW code, GitFails(code)
       PROVE  call # Idle /\ Answer(Failure(code))
  BY <1>5, <1>12 DEF GitFails
<1>13. Deliver => reply' = NoReply
  BY DEF Deliver
<1>14. Edit => reply' = NoReply
  BY <1>2 DEF Edit, Change, ChangeHost
<1>15. CASE ReadStep
  BY <1>6, <1>7, <1>8, <1>10, <1>15 DEF ReadStep
<1>16. CASE ListStep
  BY <1>6, <1>7, <1>8, <1>9, <1>10, <1>16 DEF ListStep
<1>17. CASE GitStep
  BY <1>6, <1>7, <1>11, <1>12, <1>17 DEF GitStep
<1> QED
  BY <1>13, <1>14, <1>15, <1>16, <1>17 DEF Next

\* The reply to an access that the host refuses and to a path that cannot be
\* resolved.
LEMMA RaiseReply ==
  ASSUME Raise
  PROVE  reply'.outcome = "raised" /\ UNCHANGED <<tree, host, changed>>
BY DEF Raise, AccessRefused, ResolveRaises, Answer, Raised

(***************************************************************************)
(* git status.                                                             *)
(***************************************************************************)

LEMMA ParsedKinds ==
  ASSUME NEW line
  PROVE  /\ Parsed(line).staged = (line.x \notin {" ", "?"})
         /\ Parsed(line).unstaged = (line.y \notin {" ", "?"})
         /\ Parsed(line).untracked = (line.x = "?" /\ line.y = "?")
BY DEF Parsed

ParsedLines(lines) == [i \in 1..Len(lines) |-> Parsed(lines[i])]

Staged(entries) == {i \in DOMAIN entries : entries[i].staged}
Unstaged(entries) == {i \in DOMAIN entries : entries[i].unstaged}
Untracked(entries) == {i \in DOMAIN entries : entries[i].untracked}

\* Every line is counted, as untracked or as one or both of the others.
LEMMA StatusSums ==
  ASSUME NEW lines \in Seq(StatusLine), NEW limit \in Nat,
         NEW entries, entries = ParsedLines(lines)
  PROVE  \E n, s, u, t \in Nat :
           /\ n = Len(entries) /\ n = Len(lines)
           /\ s = Cardinality(Staged(entries)) /\ u = Cardinality(Unstaged(entries))
           /\ t = Cardinality(Untracked(entries))
           /\ entries = <<>> <=> s + u + t = 0
           /\ s + t <= n /\ u + t <= n /\ n <= s + u + t
           /\ Len(First(entries, limit)) <= n
           /\ n > limit <=> Len(First(entries, limit)) < n
<1> DEFINE S == Staged(entries)
           U == Unstaged(entries)
           T == Untracked(entries)
           returned == First(entries, limit)
<1> HIDE DEF S, U, T, returned
<1>1. PICK n \in Nat : n = Len(lines) /\ DOMAIN lines = 1..n
  BY LenProperties
<1>2. PICK R : R = {Parsed(lines[i]) : i \in 1..n}
  OBVIOUS
<1>3. entries \in [1..n -> R]
  BY <1>1, <1>2 DEF ParsedLines
<1>4. entries \in Seq(R)
  BY <1>3, SeqDef
<1>5. Len(entries) = n /\ DOMAIN entries = 1..n
  <2>1. PICK m \in Nat : m = Len(entries) /\ DOMAIN entries = 1..m
    BY <1>4, LenProperties
  <2>2. 1..m = 1..n
    BY <1>3, <2>1
  <2>3. m = n
    BY <2>2
  <2> QED
    BY <2>1, <2>3
<1>6. ASSUME NEW i \in 1..n
      PROVE  /\ entries[i].staged \/ entries[i].unstaged \/ entries[i].untracked
             /\ ~(entries[i].staged /\ entries[i].untracked)
             /\ ~(entries[i].unstaged /\ entries[i].untracked)
  <2>1. lines[i] \in StatusLine
    BY <1>1, ElementOfSeq
  <2>2. PICK line : line = lines[i]
    OBVIOUS
  <2>3. /\ line.x = "?" <=> line.y = "?"
        /\ ~(line.x = " " /\ line.y = " ")
    BY <2>1, <2>2 DEF StatusLine
  <2>4. entries[i] = Parsed(line)
    BY <1>1, <2>2 DEF ParsedLines
  <2>5. /\ entries[i].staged <=> line.x \notin {" ", "?"}
        /\ entries[i].unstaged <=> line.y \notin {" ", "?"}
        /\ entries[i].untracked <=> line.x = "?" /\ line.y = "?"
    <3>1. entries[i].staged = (line.x \notin {" ", "?"})
      BY <2>4, ParsedKinds, Zenon
    <3>2. entries[i].unstaged = (line.y \notin {" ", "?"})
      BY <2>4, ParsedKinds, Zenon
    <3>3. entries[i].untracked = (line.x = "?" /\ line.y = "?")
      BY <2>4, ParsedKinds, Zenon
    <3> QED
      BY <3>1, <3>2, <3>3, Zenon
  <2> QED
    BY <2>3, <2>5
<1>7. S \cup U \cup T = 1..n /\ S \cap T = {} /\ U \cap T = {}
  BY <1>5, <1>6 DEF S, U, T, Staged, Unstaged, Untracked
<1>8. IsFiniteSet(1..n) /\ Cardinality(1..n) = n
  BY FS_Interval
<1>9. IsFiniteSet(S) /\ IsFiniteSet(U) /\ IsFiniteSet(T) /\ IsFiniteSet(S \cup U)
  <2>1. S \in SUBSET (1..n) /\ U \in SUBSET (1..n) /\ T \in SUBSET (1..n)
    BY <1>7
  <2>2. IsFiniteSet(S) /\ IsFiniteSet(U) /\ IsFiniteSet(T)
    BY <1>8, <2>1, FS_Subset
  <2> QED
    BY <2>2, FS_Union
<1>10. PICK s \in Nat, u \in Nat, t \in Nat :
         s = Cardinality(S) /\ u = Cardinality(U) /\ t = Cardinality(T)
  BY <1>9, FS_CardinalityType
<1>11. Cardinality({}) = 0
  BY FS_EmptySet
<1>12. s + t <= n
  <2>1. PICK V : V = S \cup T
    OBVIOUS
  <2>2. Cardinality(S \cap T) = 0
    BY <1>7, <1>11
  <2>3. Cardinality(V) = s + t
    <3>1. Cardinality(V) = Cardinality(S) + Cardinality(T) - Cardinality(S \cap T)
      BY <1>9, <2>1, FS_Union
    <3> QED
      BY <1>10, <2>2, <3>1
  <2>4. V \in SUBSET (1..n)
    BY <1>7, <2>1
  <2>5. Cardinality(V) <= Cardinality(1..n)
    BY <1>8, <2>4, FS_Subset
  <2> QED
    BY <1>8, <2>3, <2>5
<1>13. u + t <= n
  <2>1. PICK V : V = U \cup T
    OBVIOUS
  <2>2. Cardinality(U \cap T) = 0
    BY <1>7, <1>11
  <2>3. Cardinality(V) = u + t
    <3>1. Cardinality(V) = Cardinality(U) + Cardinality(T) - Cardinality(U \cap T)
      BY <1>9, <2>1, FS_Union
    <3> QED
      BY <1>10, <2>2, <3>1
  <2>4. V \in SUBSET (1..n)
    BY <1>7, <2>1
  <2>5. Cardinality(V) <= Cardinality(1..n)
    BY <1>8, <2>4, FS_Subset
  <2> QED
    BY <1>8, <2>3, <2>5
<1>14. n <= s + u + t
  <2>1. PICK V : V = S \cup U
    OBVIOUS
  <2>2. IsFiniteSet(V) /\ IsFiniteSet(S \cap U) /\ IsFiniteSet(V \cap T)
    BY <1>9, <2>1, FS_Intersection
  <2>3. PICK a \in Nat, b \in Nat, c \in Nat :
          a = Cardinality(V) /\ b = Cardinality(S \cap U) /\ c = Cardinality(V \cap T)
    BY <2>2, FS_CardinalityType
  <2>4. Cardinality(V) = Cardinality(S) + Cardinality(U) - Cardinality(S \cap U)
    BY <1>9, <2>1, FS_Union
  <2>5. Cardinality(V \cup T) = Cardinality(V) + Cardinality(T) - Cardinality(V \cap T)
    BY <1>9, <2>2, FS_Union
  <2>6. V \cup T = 1..n
    BY <1>7, <2>1
  <2>7. a = s + u - b
    BY <1>10, <2>3, <2>4
  <2>8. n = a + t - c
    BY <1>8, <1>10, <2>3, <2>5, <2>6
  <2> QED
    BY <2>7, <2>8
<1>15. entries = <<>> <=> n = 0
  BY <1>4, <1>5, EmptySeq
<1>16. entries = <<>> <=> s + u + t = 0
  BY <1>12, <1>13, <1>14, <1>15
<1>17. Len(returned) <= n /\ (n > limit <=> Len(returned) < n)
  <2>1. PICK q : q = entries
    OBVIOUS
  <2>2. q \in Seq(R) /\ Len(q) = n
    BY <1>4, <1>5, <2>1
  <2>3. Len(First(q, limit)) = IF limit <= Len(q) THEN limit ELSE Len(q)
    BY <2>2, FirstType
  <2>4. returned = First(q, limit)
    BY <2>1 DEF returned
  <2> QED
    BY <2>2, <2>3, <2>4
<1> QED
  BY <1>1, <1>5, <1>10, <1>12, <1>13, <1>14, <1>16, <1>17 DEF S, U, T, returned

LEMMA StatusStep ==
  ASSUME TypeOK, StatusAddsUp, [Next]_vars
  PROVE  StatusAddsUp'
<1>1. CASE UNCHANGED vars
  BY <1>1 DEF vars, StatusAddsUp
<1>2. ASSUME reply'.outcome # "status" PROVE StatusAddsUp'
  BY <1>2 DEF StatusAddsUp
<1>3. CASE reply' = NoReply
  BY <1>2, <1>3 DEF NoReply
<1>4. ASSUME NEW code \in {"invalid", "tool_timeout", "git_failed"},
             Answer(Failure(code))
      PROVE  StatusAddsUp'
  BY <1>2, <1>4 DEF Answer, Failure
<1>5. CASE ReadOpen
  BY <1>1, <1>2, <1>5 DEF ReadOpen, Answer, Raised
<1>6. CASE call # Idle /\ (ListScan \/ EntryStat \/ ListDone)
  <2>1. reply = NoReply
    BY <1>6 DEF TypeOK
  <2> QED
    BY <1>2, <1>6, <2>1
    DEF ListScan, EntryStat, ListDone, Answer, Goto, Raised, Listed, NoReply
<1>7. ASSUME NEW lines \in Statuses, StatusAnswer(lines)
      PROVE  StatusAddsUp'
  <2>1. PICK entries : entries = ParsedLines(lines)
    OBVIOUS
  <2>2. reply' = [outcome |-> "status", lines |-> lines,
                  returned |-> First(entries, call.limit),
                  count |-> Len(entries), truncated |-> Len(entries) > call.limit,
                  clean |-> entries = <<>>, staged |-> Cardinality(Staged(entries)),
                  unstaged |-> Cardinality(Unstaged(entries)),
                  untracked |-> Cardinality(Untracked(entries))]
    BY <1>7, <2>1
       DEF StatusAnswer, Answer, CountOf, ParsedLines, Staged, Unstaged, Untracked
  <2>3. call.limit \in Nat
    <3>1. call \in Running
      BY <1>7, CallKinds DEF StatusAnswer, TypeOK
    <3> QED
      BY <3>1 DEF Running
  <2>4. lines \in Seq(StatusLine)
    BY CoreToolsOK
  <2>5. PICK k \in Nat : k = call.limit
    BY <2>3, Zenon
  <2>6. PICK n, s, u, t \in Nat :
          /\ n = Len(entries) /\ n = Len(lines)
          /\ s = Cardinality(Staged(entries)) /\ u = Cardinality(Unstaged(entries))
          /\ t = Cardinality(Untracked(entries))
          /\ entries = <<>> <=> s + u + t = 0
          /\ s + t <= n /\ u + t <= n /\ n <= s + u + t
          /\ Len(First(entries, k)) <= n
          /\ n > k <=> Len(First(entries, k)) < n
    BY <2>1, <2>4, StatusSums
  <2>7. PICK r : r = First(entries, k)
    OBVIOUS
  <2>8. reply' = [outcome |-> "status", lines |-> lines, returned |-> r,
                  count |-> n, truncated |-> n > k, clean |-> entries = <<>>,
                  staged |-> s, unstaged |-> u, untracked |-> t]
    BY <2>2, <2>5, <2>6, <2>7
  <2>9. /\ n = Len(lines)
        /\ entries = <<>> <=> s + u + t = 0
        /\ s + t <= n /\ u + t <= n /\ n <= s + u + t
        /\ Len(r) <= n
        /\ n > k <=> Len(r) < n
    BY <2>6, <2>7
  <2>10. /\ reply'.count = n /\ reply'.lines = lines /\ reply'.returned = r
         /\ reply'.clean = (entries = <<>>) /\ reply'.truncated = (n > k)
         /\ reply'.staged = s /\ reply'.unstaged = u /\ reply'.untracked = t
    BY <2>8
  <2> QED
    BY <2>9, <2>10 DEF StatusAddsUp
<1>8. ASSUME NEW s \in Diffs, DiffAnswer(s)
      PROVE  StatusAddsUp'
  BY <1>2, <1>8 DEF DiffAnswer, Answer
<1>9. CASE Raise
  BY <1>2, <1>9, RaiseReply
<1> QED
  BY <1>1, <1>3, <1>4, <1>5, <1>6, <1>7, <1>8, <1>9, Answers

\* Whatever git prints and whatever the limit is, git.status counts every entry
\* as staged, unstaged or untracked, and calls the work tree clean if it counts
\* none.
THEOREM StatusesAddUp == Spec => []StatusAddsUp
<1>1. Init => StatusAddsUp
  BY DEF Init, StatusAddsUp, NoReply
<1>2. TypeOK /\ StatusAddsUp /\ [Next]_vars => StatusAddsUp'
  BY StatusStep
<1> QED
  BY <1>1, <1>2, TypeCorrect, PTL DEF Spec

(***************************************************************************)
(* What a call has found.                                                  *)
(***************************************************************************)

\* What is found does not change with anything but the workspace.
LEMMA SameTree ==
  ASSUME UNCHANGED tree, NEW p
  PROVE  /\ Found(p)' = Found(p) /\ IsFile(p)' = IsFile(p)
         /\ IsDirectory(p)' = IsDirectory(p) /\ IsLink(p)' = IsLink(p)
         /\ TypeOf(p)' = TypeOf(p) /\ SizeOf(p)' = SizeOf(p)
         /\ \A hidden : Present(p, hidden)' = Present(p, hidden)
<1>1. Found(p)' = Found(p)
  BY DEF Found, Followed
<1>2. IsFile(p)' = IsFile(p) /\ IsDirectory(p)' = IsDirectory(p)
  BY <1>1 DEF IsFile, IsDirectory
<1>3. IsLink(p)' = IsLink(p)
  BY DEF IsLink
<1>4. TypeOf(p)' = TypeOf(p) /\ SizeOf(p)' = SizeOf(p)
  BY <1>1, <1>2, <1>3 DEF TypeOf, SizeOf
<1>5. \A hidden : Present(p, hidden)' = Present(p, hidden)
  BY DEF Present
<1> QED
  BY <1>1, <1>2, <1>3, <1>4, <1>5

LEMMA SameListing ==
  ASSUME UNCHANGED tree, NEW c
  PROVE  /\ Due(c)' = Due(c) /\ Finished(c)' = Finished(c)
         /\ \A e : Exact(e)' = Exact(e)
         /\ ListingInv(c)' = ListingInv(c)
<1>1. Due(c)' = Due(c)
  BY SameTree DEF Due
<1>2. \A e : Exact(e)' = Exact(e)
  BY SameTree DEF Exact
<1>3. Present(c.path, c.hidden)' = Present(c.path, c.hidden)
  BY SameTree
<1>4. /\ IsLink(Head(c.todo))' = IsLink(Head(c.todo))
      /\ IsDirectory(Head(c.todo))' = IsDirectory(Head(c.todo))
      /\ IsFile(Head(c.todo))' = IsFile(Head(c.todo))
  BY SameTree
<1>5. \A n : TypeOf(n)' = TypeOf(n)
  BY SameTree
<1>6. Finished(c)' = Finished(c)
  BY DEF Finished
<1>7. ListingInv(c)' = ListingInv(c)
  BY <1>1, <1>2, <1>3, <1>4, <1>5, <1>6 DEF ListingInv
<1> QED
  BY <1>1, <1>2, <1>6, <1>7

LEMMA FoundAfter ==
  ASSUME NEW c, call' = c, UNCHANGED <<tree, changed>>,
         ~changed => /\ c.at = "open" => IsFile(c.path)
                     /\ c.at = "scan" => IsDirectory(c.path)
                     /\ c.at \in ListStages => ListingInv(c)
  PROVE  FoundInv'
<1>1. ListingInv(c)' = ListingInv(c)
  BY SameListing
<1>2. IsFile(c.path)' = IsFile(c.path) /\ IsDirectory(c.path)' = IsDirectory(c.path)
  BY SameTree
<1> QED
  BY <1>1, <1>2 DEF FoundInv

LEMMA FoundAnswer ==
  ASSUME NEW r, Answer(r)
  PROVE  FoundInv'
<1>1. call' = Idle /\ UNCHANGED <<tree, changed>>
  BY DEF Answer
<1> QED
  BY <1>1, FoundAfter DEF Idle, ListStages

\* An entry that is looked at is in the directory.
LEMMA EntryPresent ==
  ASSUME TypeOK, call \in Listing, call.todo # <<>>, ListingInv(call)
  PROVE  /\ Entry \in Present(call.path, call.hidden)
         /\ Entry \in Entries /\ tree[Entry].kind # "absent"
         /\ \E i \in 1..Len(Due(call)) : Due(call)[i] = Entry
<1>1. PICK S \in SUBSET Entries : S = Present(call.path, call.hidden)
  BY DEF Present
<1>2. PICK q : q = Sorted(S)
  OBVIOUS
<1>3. q \in Seq(S)
  BY <1>2, SortedOrder
<1>4. call.limit \in Nat /\ call.todo \in Seq(Entries)
  BY DEF Listing
<1>5. PICK d : d = Due(call)
  OBVIOUS
<1>6. d \in Seq(S)
  BY <1>1, <1>2, <1>3, <1>4, <1>5, FirstType DEF Due
<1>7. PICK k : k = Finished(call)
  OBVIOUS
<1>8. PICK m \in Nat : m = Len(call.todo) /\ m # 0
  BY <1>4, EmptySeq, LenProperties
<1>9. PICK n \in Nat : n = Len(d) /\ \A i \in 1..n : d[i] \in S
  BY <1>6, LenProperties, ElementOfSeq
<1>10. k \in Nat
  <2>1. call.done \in Seq(EntryType)
    BY DEF Listing
  <2>2. Len(call.done) \in Nat /\ (call.at \in {"size", "stat"} => Len(call.done) # 0)
    BY <2>1, EmptySeq, LenProperties DEF TypeOK
  <2> QED
    BY <1>7, <2>2 DEF Finished
<1>11. n = k + m /\ call.todo[1] = d[k + 1]
  <2>1. 1 \in 1..m
    BY <1>8
  <2>2. /\ Len(d) = k + Len(call.todo)
        /\ \A i \in 1..Len(call.todo) : call.todo[i] = d[k + i]
    BY <1>5, <1>7 DEF ListingInv
  <2> QED
    BY <1>8, <1>9, <2>1, <2>2
<1>12. k + 1 \in 1..n
  BY <1>8, <1>10, <1>11
<1>13. Entry \in S
  BY <1>9, <1>11, <1>12, EntryInTodo
<1>14. \A x \in S : x \in Entries /\ tree[x].kind # "absent"
  BY <1>1 DEF Present
<1>15. k + 1 \in 1..Len(Due(call)) /\ Due(call)[k + 1] = Entry
  BY <1>5, <1>9, <1>11, <1>12, EntryInTodo
<1> QED
  BY <1>1, <1>13, <1>14, <1>15

\* The listing begins with the first names of the directory.
LEMMA ScanListing ==
  ASSUME TypeOK, call \in Scanning,
         NEW all, all = Sorted(Present(call.path, call.hidden)),
         NEW c, c = [at |-> "entries", path |-> call.path, limit |-> call.limit,
                     hidden |-> call.hidden, count |-> Len(all), done |-> <<>>,
                     todo |-> First(all, call.limit)]
  PROVE  ListingInv(c)
<1>1. PICK S \in SUBSET Entries : S = Present(call.path, call.hidden)
  BY DEF Present
<1>2. c.count = Cardinality(S)
  BY <1>1, SortedOrder
<1>3. Due(c) = c.todo
  BY DEF Due
<1>4. Finished(c) = 0 /\ c.at = "entries"
  <2>1. Len(<<>>) = 0
    BY EmptySeq
  <2> QED
    BY <2>1 DEF Finished
<1>5. PICK n \in Nat : n = Len(c.todo)
  <2>1. all \in Seq(Entries)
    BY <1>1, SortedOrder
  <2>2. call.limit \in Nat
    BY DEF Scanning
  <2>3. First(all, call.limit) \in Seq(Entries)
    BY <2>1, <2>2, FirstType
  <2> QED
    BY <2>3, LenProperties
<1>6. \A i \in 1..n : 0 + i = i
  OBVIOUS
<1> QED
  BY <1>1, <1>2, <1>3, <1>4, <1>5, <1>6 DEF ListingInv

\* An entry whose type is known.
LEMMA TypedListing ==
  ASSUME TypeOK, call \in Listing, call.todo # <<>>, ListingInv(call),
         call.at \in {"entries", "is_dir", "is_file"},
         NEW type \in {"symlink", "directory", "file", "other"}, type = TypeOf(Entry)
  PROVE  ListingInv(Typed(type))
<1>1. PICK e : e = [name |-> Entry, type |-> type, size |-> Unset]
  OBVIOUS
<1>2. PICK c : c = Typed(type)
  OBVIOUS
<1>3. /\ c \in Listing /\ c.at = "size" /\ c.path = call.path
      /\ c.limit = call.limit /\ c.hidden = call.hidden
      /\ c.count = call.count /\ c.todo = call.todo
      /\ Len(c.done) = Len(call.done) + 1 /\ Len(call.done) \in Nat
      /\ c.done[Len(call.done) + 1] = e
      /\ \A i \in 1..Len(call.done) : c.done[i] = call.done[i]
  BY <1>1, <1>2, TypedType
<1>4. Finished(c) = Finished(call) /\ Finished(call) = Len(call.done)
  BY <1>3 DEF Finished
<1>5. Due(c) = Due(call)
  BY <1>3 DEF Due
<1>6. /\ c.count = Cardinality(Present(c.path, c.hidden))
      /\ Len(Due(c)) = Finished(c) + Len(c.todo)
      /\ \A i \in 1..Len(c.todo) : c.todo[i] = Due(c)[Finished(c) + i]
  BY <1>3, <1>4, <1>5 DEF ListingInv
<1>7. \A i \in 1..Finished(c) : c.done[i].name = Due(c)[i] /\ Exact(c.done[i])
  BY <1>3, <1>4, <1>5 DEF ListingInv
<1>8. /\ c.done[Len(c.done)] = e /\ e.name = Head(c.todo)
      /\ e.type = TypeOf(e.name) /\ e.size = Unset
  BY <1>1, <1>3 DEF Entry
<1> QED
  BY <1>2, <1>3, <1>6, <1>7, <1>8 DEF ListingInv

\* An entry that is not yet typed.
LEMMA UntypedListing ==
  ASSUME TypeOK, call \in Listing, ListingInv(call),
         call.at \in {"entries", "is_dir", "is_file"}, NEW at \in {"is_dir", "is_file"},
         ~IsLink(Entry), at = "is_file" => ~IsDirectory(Entry)
  PROVE  ListingInv([call EXCEPT !.at = at])
<1>1. PICK c : c = [call EXCEPT !.at = at]
  OBVIOUS
<1>2. /\ c.at = at /\ c.path = call.path /\ c.limit = call.limit
      /\ c.hidden = call.hidden /\ c.count = call.count
      /\ c.todo = call.todo /\ c.done = call.done
  BY <1>1 DEF Listing
<1>3. Finished(c) = Finished(call) /\ Due(c) = Due(call)
  BY <1>2 DEF Finished, Due
<1> QED
  BY <1>1, <1>2, <1>3 DEF ListingInv, Entry

\* The entry that is listed in full.
LEMMA NextListing ==
  ASSUME TypeOK, call \in Listing, call.todo # <<>>, call.done # <<>>, ListingInv(call),
         call.at \in {"size", "stat"}, NEW c \in Listing,
         c.at = "entries", c.path = call.path, c.limit = call.limit,
         c.hidden = call.hidden, c.count = call.count, c.todo = Tail(call.todo),
         Len(c.done) = Len(call.done),
         \A i \in 1..(Len(call.done) - 1) : c.done[i] = call.done[i],
         c.done[Len(call.done)].name = Entry, Exact(c.done[Len(call.done)])
  PROVE  ListingInv(c)
<1>1. call.done \in Seq(EntryType) /\ call.todo \in Seq(Entries)
  BY DEF Listing
<1>2. PICK k \in Nat : k = Len(call.done) /\ k # 0 /\ k - 1 \in Nat
  BY <1>1, EmptySeq, LenProperties
<1>3. PICK m \in Nat : /\ m = Len(call.todo) /\ m # 0 /\ Len(Tail(call.todo)) = m - 1
                       /\ \A i \in 1..(m - 1) : Tail(call.todo)[i] = call.todo[i + 1]
  <2>1. PICK t : t = call.todo
    OBVIOUS
  <2>2. t \in Seq(Entries) /\ t # <<>>
    BY <1>1, <2>1
  <2>3. PICK m \in Nat : m = Len(t) /\ m # 0
    BY <2>2, EmptySeq, LenProperties
  <2>4. Len(Tail(t)) = m - 1 /\ \A i \in 1..(m - 1) : Tail(t)[i] = t[i + 1]
    BY <2>2, <2>3, HeadTailProperties
  <2> QED
    BY <2>1, <2>3, <2>4
<1>4. Finished(call) = k - 1 /\ Finished(c) = k
  BY <1>2 DEF Finished
<1>5. PICK d : d = Due(call) /\ d = Due(c)
  BY DEF Due
<1>6. /\ Len(d) = (k - 1) + m
      /\ \A i \in 1..(k - 1) : call.done[i].name = d[i] /\ Exact(call.done[i])
      /\ \A i \in 1..m : call.todo[i] = d[(k - 1) + i]
      /\ call.count = Cardinality(Present(call.path, call.hidden))
  BY <1>3, <1>4, <1>5 DEF ListingInv
<1>7. Len(Due(c)) = Finished(c) + Len(c.todo)
  <2>1. Len(c.todo) = m - 1
    BY <1>3
  <2>2. (k - 1) + m = k + (m - 1)
    OBVIOUS
  <2> QED
    BY <1>4, <1>5, <1>6, <2>1, <2>2, Zenon
<1>8. \A i \in 1..(m - 1) : c.todo[i] = d[k + i]
  <2> SUFFICES ASSUME NEW i \in 1..(m - 1) PROVE c.todo[i] = d[k + i]
    OBVIOUS
  <2>1. i + 1 \in 1..m /\ (k - 1) + (i + 1) = k + i
    OBVIOUS
  <2> QED
    BY <1>3, <1>6, <2>1
<1>9. Entry = d[k]
  <2>1. 1 \in 1..m /\ (k - 1) + 1 = k
    BY <1>2, <1>3
  <2>2. Entry = call.todo[1]
    BY EntryInTodo
  <2> QED
    BY <1>6, <2>1, <2>2
<1>10. \A i \in 1..k : c.done[i].name = d[i] /\ Exact(c.done[i])
  <2>1. \A i \in 1..k : i \in 1..(k - 1) \/ i = k
    BY <1>2
  <2>2. \A i \in 1..(k - 1) : c.done[i].name = d[i] /\ Exact(c.done[i])
    BY <1>2, <1>6
  <2>3. c.done[k].name = d[k] /\ Exact(c.done[k])
    BY <1>2, <1>9
  <2> QED
    BY <2>1, <2>2, <2>3
<1> QED
  BY <1>3, <1>4, <1>5, <1>6, <1>7, <1>8, <1>10 DEF ListingInv

\* What is known of an entry that is neither a link nor a directory.
LEMMA EntryIsFile ==
  ASSUME TypeOK, call \in Listing, call.todo # <<>>, ListingInv(call),
         ~IsLink(Entry), ~IsDirectory(Entry)
  PROVE  IsFile(Entry)
<1>1. Entry \in Entries /\ tree[Entry].kind # "absent"
  BY EntryPresent
<1>2. tree[Entry].kind # "link"
  BY <1>1 DEF IsLink
<1>3. Followed(Entry) = Entry
  BY <1>2 DEF Followed
<1>4. Entry # Root /\ Entry # Outside
  BY <1>1, CoreToolsOK
<1>5. Found(Entry) = tree[Entry]
  BY <1>3, <1>4 DEF Found
<1>6. tree[Entry] \in Node
  BY <1>1 DEF TypeOK
<1> QED
  BY <1>1, <1>2, <1>5, <1>6 DEF IsFile, IsDirectory, Node

LEMMA FoundList ==
  ASSUME TypeOK, FoundInv, ListStep
  PROVE  FoundInv'
<1>1. ASSUME NEW code, Refuse(code)
      PROVE  FoundInv'
  BY <1>1, FoundAnswer DEF Refuse
<1>2. ASSUME NEW v, NEW p, NEW hidden, List(v, p, hidden)
      PROVE  FoundInv'
  <2>1. PICK c : c = [at |-> "list", path |-> Resolved(p), limit |-> Limit(v),
                      hidden |-> hidden]
    OBVIOUS
  <2>2. Goto(c) /\ c.at = "list"
    BY <1>2, <2>1 DEF List, Begin
  <2> QED
    BY <2>2, FoundAfter DEF Goto, ListStages
<1>3. CASE ListTest
  <2>1. CASE IsDirectory(call.path)
    <3>1. PICK c : c = [call EXCEPT !.at = "scan"]
      OBVIOUS
    <3>2. call \in Scanning
      BY <1>3, CallKinds DEF ListTest, TypeOK
    <3>3. Goto(c) /\ c.at = "scan" /\ c.path = call.path
      BY <1>3, <2>1, <3>1, <3>2 DEF ListTest, Scanning
    <3> QED
      BY <2>1, <3>3, FoundAfter DEF Goto, ListStages
  <2>2. CASE ~IsDirectory(call.path)
    BY <1>3, <2>2, FoundAnswer DEF ListTest
  <2> QED
    BY <2>1, <2>2
<1>4. CASE ListScan
  <2>1. call.at = "scan" /\ call \in Scanning
    BY <1>4, CallKinds DEF ListScan, TypeOK
  <2>2. PICK all : all = Sorted(Present(call.path, call.hidden))
    OBVIOUS
  <2>3. PICK c : c = [at |-> "entries", path |-> call.path, limit |-> call.limit,
                      hidden |-> call.hidden, count |-> Len(all), done |-> <<>>,
                      todo |-> First(all, call.limit)]
    OBVIOUS
  <2>4. Goto(c) \/ \E r : Answer(r)
    BY <1>4, <2>2, <2>3 DEF ListScan
  <2>5. ListingInv(c) /\ c.at = "entries"
    BY <2>1, <2>2, <2>3, ScanListing
  <2>6. CASE Goto(c)
    BY <2>5, <2>6, FoundAfter DEF Goto
  <2> QED
    BY <2>4, <2>6, FoundAnswer
<1>5. ASSUME call.at \in ListStages
      PROVE  call \in Listing /\ (~changed => ListingInv(call))
  BY <1>5, CallKinds DEF TypeOK, FoundInv
<1>6. ASSUME call.at \in {"entries", "is_dir", "is_file"}, call.todo # <<>>,
             NEW type \in {"symlink", "directory", "file", "other"},
             Goto(Typed(type)), ~changed => type = TypeOf(Entry)
      PROVE  FoundInv'
  <2>1. call \in Listing /\ (~changed => ListingInv(call))
    BY <1>5, <1>6 DEF ListStages
  <2>2. PICK c : c = Typed(type)
    OBVIOUS
  <2>3. c.at = "size"
    BY <1>6, <2>1, <2>2, TypedType
  <2>4. ~changed => ListingInv(c)
    BY <1>6, <2>1, <2>2, TypedListing
  <2>5. call' = c /\ UNCHANGED <<tree, changed>>
    BY <1>6, <2>2 DEF Goto
  <2> QED
    BY <2>3, <2>4, <2>5, FoundAfter
<1>7. ASSUME call.at \in {"entries", "is_dir", "is_file"}, call.todo # <<>>,
             NEW at \in {"is_dir", "is_file"}, Goto([call EXCEPT !.at = at]),
             ~IsLink(Entry) \/ changed,
             at = "is_file" => ~IsDirectory(Entry) \/ changed
      PROVE  FoundInv'
  <2>1. call \in Listing /\ (~changed => ListingInv(call))
    BY <1>5, <1>7 DEF ListStages
  <2>2. PICK c : c = [call EXCEPT !.at = at]
    OBVIOUS
  <2>3. c.at = at
    BY <2>1, <2>2 DEF Listing
  <2>4. ~changed => ListingInv(c)
    BY <1>7, <2>1, <2>2, UntypedListing
  <2>5. call' = c /\ UNCHANGED <<tree, changed>>
    BY <1>7, <2>2 DEF Goto
  <2> QED
    BY <2>3, <2>4, <2>5, FoundAfter
<1>8. CASE TestLink
  <2>1. call.at = "entries" /\ call.todo # <<>>
    BY <1>8 DEF TestLink
  <2>2. CASE IsLink(Entry)
    <3>1. TypeOf(Entry) = "symlink" /\ Goto(Typed("symlink"))
      BY <1>8, <2>2 DEF TestLink, TypeOf
    <3> QED
      BY <1>6, <2>1, <3>1
  <2>3. CASE ~IsLink(Entry)
    <3>1. Goto([call EXCEPT !.at = "is_dir"])
      BY <1>8, <2>3 DEF TestLink
    <3> QED
      BY <1>7, <2>1, <2>3, <3>1
  <2> QED
    BY <2>2, <2>3
<1>9. CASE TestDirectory
  <2>1. call.at = "is_dir" /\ call.todo # <<>>
    BY <1>9 DEF TestDirectory, TypeOK, ListStages
  <2>2. ~changed => ~IsLink(Entry)
    BY <1>5, <2>1 DEF ListingInv, Entry, ListStages
  <2>3. CASE IsDirectory(Entry)
    <3>1. Goto(Typed("directory"))
      BY <1>9, <2>3 DEF TestDirectory
    <3>2. ~changed => TypeOf(Entry) = "directory"
      BY <2>2, <2>3 DEF TypeOf, IsDirectory
    <3> QED
      BY <1>6, <2>1, <3>1, <3>2
  <2>4. CASE ~IsDirectory(Entry)
    <3>1. Goto([call EXCEPT !.at = "is_file"])
      BY <1>9, <2>4 DEF TestDirectory
    <3> QED
      BY <1>7, <2>1, <2>2, <2>4, <3>1
  <2> QED
    BY <2>3, <2>4
<1>10. CASE TestFile
  <2>1. call.at = "is_file" /\ call.todo # <<>>
    BY <1>10 DEF TestFile, TypeOK, ListStages
  <2>2. PICK type : type = IF IsFile(Entry) THEN "file" ELSE "other"
    OBVIOUS
  <2>3. Goto(Typed(type)) /\ type \in {"symlink", "directory", "file", "other"}
    BY <1>10, <2>2 DEF TestFile
  <2>4. ASSUME ~changed PROVE type = TypeOf(Entry)
    <3>1. call \in Listing /\ ListingInv(call)
      BY <1>5, <2>1, <2>4 DEF ListStages
    <3>2. ~IsLink(Entry) /\ ~IsDirectory(Entry)
      BY <2>1, <3>1 DEF ListingInv, Entry
    <3>3. IsFile(Entry)
      BY <2>1, <3>1, <3>2, EntryIsFile
    <3> QED
      BY <2>2, <3>2, <3>3 DEF TypeOf, IsFile
  <2> QED
    BY <1>6, <2>1, <2>3, <2>4
<1>11. ASSUME call.at \in {"size", "stat"}
       PROVE  /\ call \in Listing /\ (~changed => ListingInv(call))
              /\ call.todo # <<>> /\ call.done # <<>> /\ call.done \in Seq(EntryType)
              /\ Len(call.done) \in Nat
  <2>1. call \in Listing /\ (~changed => ListingInv(call))
    BY <1>5, <1>11 DEF ListStages
  <2>2. call.done \in Seq(EntryType)
    BY <2>1 DEF Listing
  <2> QED
    BY <1>11, <2>1, <2>2, LenProperties DEF TypeOK, ListStages
<1>12. ASSUME call.at \in {"size", "stat"}, ~changed
       PROVE  LET e == call.done[Len(call.done)]
              IN  e.name = Entry /\ e.type = TypeOf(Entry) /\ e.size = Unset
  BY <1>11, <1>12 DEF ListingInv, Entry
<1>13. CASE EntrySizeTest
  <2>1. call.at = "size"
    BY <1>13 DEF EntrySizeTest
  <2>2. CASE IsFile(Entry)
    <3>1. PICK c : c = [call EXCEPT !.at = "stat"]
      OBVIOUS
    <3>2. call' = c /\ UNCHANGED <<tree, changed>>
      BY <1>13, <2>2, <3>1 DEF EntrySizeTest, Goto
    <3>3. /\ c.at = "stat" /\ c.path = call.path /\ c.limit = call.limit
          /\ c.hidden = call.hidden /\ c.count = call.count
          /\ c.todo = call.todo /\ c.done = call.done
      BY <1>11, <2>1, <3>1 DEF Listing
    <3>4. Finished(c) = Finished(call) /\ Due(c) = Due(call)
      BY <2>1, <3>3 DEF Finished, Due
    <3>5. ASSUME ~changed PROVE ListingInv(c)
      <4>1. ListingInv(call)
        BY <1>11, <2>1, <3>5
      <4> QED
        BY <2>1, <2>2, <3>3, <3>4, <4>1 DEF ListingInv, Entry
    <3> QED
      BY <3>2, <3>3, <3>5, FoundAfter
  <2>3. CASE ~IsFile(Entry)
    <3>1. PICK c : c = NextEntry(call)
      OBVIOUS
    <3>2. call' = c /\ UNCHANGED <<tree, changed>>
      BY <1>13, <2>3, <3>1 DEF EntrySizeTest, Goto
    <3>3. /\ c \in Listing /\ c.at = "entries" /\ c.path = call.path
          /\ c.limit = call.limit /\ c.hidden = call.hidden
          /\ c.count = call.count /\ c.done = call.done /\ c.todo = Tail(call.todo)
      BY <1>11, <2>1, <3>1, NextEntryType
    <3>4. ASSUME ~changed PROVE ListingInv(c)
      <4>1. ListingInv(call)
        BY <1>11, <2>1, <3>4
      <4>2. c.done[Len(call.done)].name = Entry /\ Exact(c.done[Len(call.done)])
        BY <1>12, <2>1, <2>3, <3>3, <3>4 DEF Exact, SizeOf
      <4> QED
        BY <1>11, <2>1, <3>3, <4>1, <4>2, NextListing
    <3> QED
      BY <3>2, <3>3, <3>4, FoundAfter
  <2> QED
    BY <2>2, <2>3
<1>14. CASE EntryStat
  <2>1. call.at = "stat"
    BY <1>14 DEF EntryStat
  <2>2. CASE Found(Entry).kind = "absent"
    BY <1>14, <2>2, FoundAnswer DEF EntryStat
  <2>3. CASE Found(Entry).kind # "absent"
    <3>1. PICK size : size = Len(Found(Entry).text)
      OBVIOUS
    <3>2. size \in Nat
      <4>1. Entry \in Inside
        BY <1>11, <2>1, EntryInTodo DEF Inside
      <4>2. Found(Entry) \in Node
        BY <4>1, FoundType DEF TypeOK
      <4>3. Found(Entry).text \in Seq(Bytes)
        BY <4>2 DEF Node
      <4> QED
        BY <3>1, <4>3, LenProperties
    <3>3. PICK c : c = Measured(size)
      OBVIOUS
    <3>4. call' = c /\ UNCHANGED <<tree, changed>>
      BY <1>14, <2>3, <3>1, <3>3 DEF EntryStat, Goto, Measured
    <3>5. PICK k : k = Len(call.done)
      OBVIOUS
    <3>6. /\ c \in Listing /\ c.at = "entries" /\ c.path = call.path
          /\ c.limit = call.limit /\ c.hidden = call.hidden
          /\ c.count = call.count /\ c.todo = Tail(call.todo)
          /\ Len(c.done) = k
          /\ \A i \in 1..(k - 1) : c.done[i] = call.done[i]
          /\ c.done[k].name = call.done[k].name
          /\ c.done[k].type = call.done[k].type /\ c.done[k].size = size
      BY <1>11, <2>1, <3>2, <3>3, <3>5, MeasuredType
    <3>7. ASSUME ~changed PROVE ListingInv(c)
      <4>1. ListingInv(call)
        BY <1>11, <2>1, <3>7
      <4>2. IsFile(Entry)
        BY <2>1, <4>1 DEF ListingInv, Entry
      <4>3. SizeOf(Entry) = size
        BY <3>1, <4>2 DEF SizeOf
      <4>4. call.done[k].name = Entry /\ call.done[k].type = TypeOf(Entry)
        BY <1>12, <2>1, <3>5, <3>7
      <4>5. c.done[k].name = Entry /\ Exact(c.done[k])
        BY <3>6, <4>3, <4>4 DEF Exact
      <4> QED
        BY <1>11, <2>1, <3>5, <3>6, <4>1, <4>5, NextListing
    <3> QED
      BY <3>4, <3>6, <3>7, FoundAfter
  <2> QED
    BY <2>2, <2>3
<1>15. CASE ListDone
  BY <1>15, FoundAnswer DEF ListDone
<1> QED
  BY <1>1, <1>2, <1>3, <1>4, <1>8, <1>9, <1>10, <1>13, <1>14, <1>15
     DEF ListStep, ListRefused

LEMMA FoundStep ==
  ASSUME TypeOK, FoundInv, [Next]_vars
  PROVE  FoundInv'
<1>1. ASSUME NEW c, Begin(c), c.at \in {"read", "status", "diff"}
      PROVE  FoundInv'
  BY <1>1, FoundAfter DEF Begin, Goto, ListStages
<1>2. ASSUME NEW code, Refuse(code)
      PROVE  FoundInv'
  BY <1>2, FoundAnswer DEF Refuse
<1>3. ASSUME NEW v, NEW p, Read(v, p)
      PROVE  FoundInv'
  BY <1>1, <1>3 DEF Read
<1>4. CASE ReadTest
  <2>1. CASE IsFile(call.path)
    <3>1. PICK c : c = [call EXCEPT !.at = "open"]
      OBVIOUS
    <3>2. call \in Reading
      BY <1>4, CallKinds DEF ReadTest, TypeOK
    <3>3. Goto(c) /\ c.at = "open" /\ c.path = call.path
      BY <1>4, <2>1, <3>1, <3>2 DEF ReadTest, Reading
    <3> QED
      BY <2>1, <3>3, FoundAfter DEF Goto, ListStages
  <2>2. CASE ~IsFile(call.path)
    BY <1>4, <2>2, FoundAnswer DEF ReadTest
  <2> QED
    BY <2>1, <2>2
<1>5. CASE ReadOpen
  <2>1. \E r : Answer(r)
    BY <1>5 DEF ReadOpen
  <2> QED
    BY <2>1, FoundAnswer
<1>6. CASE ReadStep
  BY <1>2, <1>3, <1>4, <1>5, <1>6 DEF ReadStep, ReadRefused
<1>7. ASSUME NEW v, NEW p, StatusRefused(v) \/ DiffRefused(v, p)
      PROVE  FoundInv'
  BY <1>2, <1>7 DEF StatusRefused, DiffRefused
<1>8. ASSUME NEW v, NEW p, Status(v) \/ Diff(v, p)
      PROVE  FoundInv'
  BY <1>1, <1>8 DEF Status, Diff
<1>9. ASSUME NEW x, GitFails(x) \/ StatusAnswer(x) \/ DiffAnswer(x)
      PROVE  FoundInv'
  <2>1. \E r : Answer(r)
    BY <1>9 DEF GitFails, StatusAnswer, DiffAnswer
  <2> QED
    BY <2>1, FoundAnswer
<1>10. CASE GitStep
  BY <1>7, <1>8, <1>9, <1>10 DEF GitStep
<1>11. CASE Deliver
  <2>1. call = Idle /\ call' = Idle
    BY <1>11 DEF Deliver, TypeOK
  <2> QED
    BY <2>1 DEF FoundInv, Idle, ListStages
<1>12. CASE Edit
  BY <1>12 DEF Edit, Change, ChangeHost, FoundInv
<1>13. CASE UNCHANGED vars
  <2>1. PICK c : c = call
    OBVIOUS
  <2>2. call' = c /\ UNCHANGED <<tree, changed>>
    BY <1>13, <2>1 DEF vars
  <2>3. ~changed => /\ c.at = "open" => IsFile(c.path)
                    /\ c.at = "scan" => IsDirectory(c.path)
                    /\ c.at \in ListStages => ListingInv(c)
    BY <2>1 DEF FoundInv
  <2> QED
    BY <2>2, <2>3, FoundAfter
<1>14. CASE Raise
  BY <1>14, FoundAnswer DEF Raise, AccessRefused, ResolveRaises
<1> QED
  BY <1>6, <1>10, <1>11, <1>12, <1>13, <1>14, FoundList DEF Next

\* What a listing has told of its entries stays true of them, and what an access
\* has found stays there, as long as nobody changes the workspace.
THEOREM FoundStays == Spec => [](TypeOK /\ FoundInv)
<1>1. Init => TypeOK /\ FoundInv
  BY TypeInit DEF Init, FoundInv, Idle, ListStages
<1>2. TypeOK /\ FoundInv /\ [Next]_vars => TypeOK' /\ FoundInv'
  BY TypeStep, FoundStep
<1> QED
  BY <1>1, <1>2, PTL DEF Spec

\* Why a call raised changes with nothing but the workspace.
LEMMA SameCause ==
  ASSUME UNCHANGED <<tree, host>>, NEW c
  PROVE  Cause(c)' = Cause(c)
<1>1. Due(c)' = Due(c)
  BY SameListing
<1>2. \A p : Sees(p)' = Sees(p) /\ Opens(p)' = Opens(p)
  BY DEF Sees, Opens, Followed
<1> QED
  BY <1>1, <1>2 DEF Cause

\* A refused access has a cause of its own call.
LEMMA RefusedHasCause ==
  ASSUME TypeOK, FoundInv, ~changed, ~Granted
  PROVE  Cause(call)
<1>1. CASE call.at = "read" \/ call.at = "list"
  BY <1>1 DEF Granted, Cause, Opens
<1>2. CASE call.at = "open" \/ call.at = "scan"
  BY <1>2 DEF Granted, Cause
<1>3. CASE call.at = "status" \/ call.at = "diff"
  BY <1>3 DEF Granted, Cause
<1>4. CASE call.at \in ListStages
  <2>1. call \in Listing /\ ListingInv(call)
    BY <1>4, CallKinds DEF TypeOK, FoundInv
  <2>2. call.todo # <<>>
    BY <1>4 DEF TypeOK, Granted, ListStages
  <2>3. PICK i \in 1..Len(Due(call)) : Due(call)[i] = Head(call.todo)
    BY <2>1, <2>2, EntryPresent DEF Entry
  <2>4. ~Sees(Head(call.todo))
    BY <1>4, <2>2 DEF Granted, Sees, ListStages
  <2>5. ~Sees(Due(call)[i])
    BY <2>3, <2>4
  <2> QED
    BY <1>4, <2>5 DEF Cause, ListStages
<1>5. CASE call = Idle
  BY <1>5 DEF Granted, Idle
<1> QED
  BY <1>1, <1>2, <1>3, <1>4, <1>5
     DEF TypeOK, CallType, ListStages

\* Whatever the host refuses, and whatever is read, listed or asked of git: if
\* nobody changes the workspace under a call, it raises an exception only for a
\* path that cannot be resolved, for a git that cannot be run, and for accesses
\* refused to its own path or to the entries it has to list.
THEOREM RaisesAreExcused == Spec => []RaisesHaveACause
<1>1. Init => RaisesHaveACause
  BY DEF Init, RaisesHaveACause, NoReply
<1>2. TypeOK /\ FoundInv /\ RaisesHaveACause /\ [Next]_vars => RaisesHaveACause'
  <2> SUFFICES ASSUME TypeOK, FoundInv, RaisesHaveACause, [Next]_vars,
                      reply'.outcome = "raised", ~changed'
               PROVE  RaisesHaveACause'
    BY DEF RaisesHaveACause
  <2>1. CASE UNCHANGED vars
    <3>1. PICK r : r = reply.by
      OBVIOUS
    <3>2. UNCHANGED <<tree, host, reply, changed>>
      BY <2>1 DEF vars
    <3>3. Cause(r)
      BY <3>1, <3>2 DEF RaisesHaveACause
    <3>4. Cause(r)' /\ reply'.by = r
      BY <3>1, <3>2, <3>3, SameCause
    <3> QED
      BY <3>4 DEF RaisesHaveACause
  <2>2. CASE reply' = NoReply
    BY <2>2 DEF NoReply
  <2>3. ASSUME NEW code \in {"invalid", "tool_timeout", "git_failed"},
               Answer(Failure(code))
        PROVE  FALSE
    BY <2>3 DEF Answer, Failure
  <2>4. ASSUME call # Idle, \E c : Goto(c)
        PROVE  FALSE
    <3>1. reply' = NoReply
      BY <2>4 DEF Goto, TypeOK
    <3> QED
      BY <3>1 DEF NoReply
  <2>5. CASE ReadOpen
    <3>1. call.at = "open" /\ changed' = changed
      BY <2>5 DEF ReadOpen, Answer
    <3>2. CASE IsFile(call.path)
      <4>1. PICK kept : kept = Cut(Found(call.path).text, call.limit)
        OBVIOUS
      <4>2. reply' = CASE kept.why = "invalid" ->
                            [outcome |-> "not_text", path |-> call.path]
                       [] OTHER -> [outcome |-> "read", path |-> call.path,
                                    limit |-> call.limit, text |-> kept.text,
                                    truncated |-> kept.truncated]
        BY <2>5, <3>2, <4>1 DEF ReadOpen, Answer
      <4> QED
        BY <4>2
    <3>3. CASE ~IsFile(call.path)
      BY <3>1, <3>3 DEF FoundInv
    <3> QED
      BY <3>2, <3>3
  <2>6. CASE call # Idle /\ ListScan
    <3>1. call.at = "scan"
      BY <2>6 DEF ListScan
    <3>2. CASE IsDirectory(call.path)
      <4>1. \E c : Goto(c)
        BY <2>6, <3>2 DEF ListScan
      <4> QED
        BY <2>4, <2>6, <4>1
    <3>3. CASE ~IsDirectory(call.path)
      <4>1. changed' = changed
        BY <2>6, <3>3 DEF ListScan, Answer
      <4> QED
        BY <3>1, <3>3, <4>1 DEF FoundInv
    <3> QED
      BY <3>2, <3>3
  <2>7. CASE call # Idle /\ EntryStat
    <3>1. call.at = "stat"
      BY <2>7 DEF EntryStat
    <3>2. CASE Found(Entry).kind # "absent"
      <4>1. \E c : Goto(c)
        BY <2>7, <3>2 DEF EntryStat
      <4> QED
        BY <2>4, <2>7, <4>1
    <3>3. CASE Found(Entry).kind = "absent"
      <4>1. changed' = changed
        BY <2>7, <3>3 DEF EntryStat, Answer
      <4>2. ~changed => IsFile(Entry)
        BY <3>1 DEF FoundInv, ListingInv, ListStages, Entry
      <4>3. ~IsFile(Entry)
        BY <3>3 DEF IsFile
      <4> QED
        BY <4>1, <4>2, <4>3 DEF TypeOK
    <3> QED
      BY <3>2, <3>3
  <2>8. CASE ListDone
    BY <2>8 DEF ListDone, Answer, Listed
  <2>9. ASSUME NEW x, StatusAnswer(x) \/ DiffAnswer(x)
        PROVE  FALSE
    BY <2>9 DEF StatusAnswer, DiffAnswer, Answer
  <2>10. CASE AccessRefused
    <3>1. PICK c : c = call
      OBVIOUS
    <3>2. reply' = Raised(c) /\ UNCHANGED <<tree, host, changed>> /\ ~Granted
      BY <2>10, <3>1 DEF AccessRefused, Answer
    <3>3. Cause(c) /\ reply'.by = c
      BY <3>1, <3>2, RefusedHasCause DEF Raised
    <3>4. Cause(c)'
      BY <3>2, <3>3, SameCause
    <3> QED
      BY <3>3, <3>4 DEF RaisesHaveACause
  <2>11. ASSUME NEW v, NEW p, ResolveRaises(v, p)
         PROVE  RaisesHaveACause'
    <3>1. PICK c : c = [at |-> "resolve"]
      OBVIOUS
    <3>2. reply' = Raised(c)
      BY <2>11, <3>1 DEF ResolveRaises, Answer
    <3>3. reply'.by = c /\ c.at = "resolve"
      BY <3>1, <3>2 DEF Raised
    <3>4. Cause(c)'
      BY <3>3 DEF Cause
    <3> QED
      BY <3>3, <3>4 DEF RaisesHaveACause
  <2> QED
    BY <2>1, <2>2, <2>3, <2>5, <2>6, <2>7, <2>8, <2>9, <2>10, <2>11, Answers DEF Raise
<1> QED
  BY <1>1, <1>2, FoundStays, PTL DEF Spec

\* A listing without a change on its way holds the first names of the directory.
LEMMA DoneIsExact ==
  ASSUME TypeOK, call \in Listing, ListingInv(call),
         call.at = "entries", call.todo = <<>>
  PROVE  ExactListing(Listed(call))
<1>1. PICK S \in SUBSET Entries : S = Present(call.path, call.hidden)
  BY DEF Present
<1>2. PICK q : q = Sorted(S)
  OBVIOUS
<1>3. PICK N \in Nat :
        /\ N = Cardinality(S) /\ N = Len(q) /\ q \in Seq(S)
        /\ \A i \in 1..N : q[i] \in S
        /\ \A i, j \in 1..N : i < j => q[i] < q[j]
        /\ \A n \in S : \E i \in 1..N : q[i] = n
  BY <1>2, SortedOrder
<1>4. PICK l \in Nat : l = call.limit
  BY DEF Listing
<1>5. PICK d : d = Due(call)
  OBVIOUS
<1>6. d = First(q, l)
  BY <1>1, <1>2, <1>4, <1>5 DEF Due
<1>7. PICK k \in Nat : /\ k = Len(d) /\ k = IF l <= N THEN l ELSE N
                       /\ k <= N /\ \A i \in 1..k : d[i] = q[i]
  <2>1. /\ Len(d) = IF l <= Len(q) THEN l ELSE Len(q)
        /\ Len(d) \in 0..Len(q) /\ \A i \in 1..Len(d) : d[i] = q[i]
    BY <1>3, <1>6, FirstType
  <2> QED
    BY <1>3, <2>1
<1>8. PICK e : e = call.done
  OBVIOUS
<1>9. Len(e) = k /\ DOMAIN e = 1..k
  <2>1. e \in Seq(EntryType)
    BY <1>8 DEF Listing
  <2>2. Len(e) \in Nat /\ DOMAIN e = 1..Len(e)
    BY <2>1, LenProperties
  <2>3. Finished(call) = Len(e)
    BY <1>8 DEF Finished
  <2>4. Len(call.todo) = 0
    BY EmptySeq
  <2>5. k = Len(e) + 0
    BY <1>5, <1>7, <2>3, <2>4 DEF ListingInv
  <2> QED
    BY <2>2, <2>5
<1>10. /\ call.count = N
       /\ \A i \in 1..k : e[i].name = d[i] /\ Exact(e[i])
  <2>1. Finished(call) = k
    BY <1>8, <1>9 DEF Finished
  <2> QED
    BY <1>1, <1>3, <1>5, <1>8, <2>1 DEF ListingInv
<1>11. PICK names : names = NamesOf(e)
  OBVIOUS
<1>12. DOMAIN names = 1..k /\ \A i \in 1..k : names[i] = q[i] /\ i \in 1..N
  BY <1>7, <1>9, <1>10, <1>11 DEF NamesOf
<1>13. Len(names) = k
  <2>1. names \in [1..k -> S]
    BY <1>3, <1>9, <1>11, <1>12 DEF NamesOf
  <2>2. names \in Seq(S)
    BY <2>1, SeqDef
  <2>3. PICK m \in Nat : m = Len(names) /\ DOMAIN names = 1..m
    BY <2>2, LenProperties
  <2>4. 1..m = 1..k
    BY <1>12, <2>3
  <2>5. m = k
    BY <2>4
  <2> QED
    BY <2>3, <2>5
<1>14. PICK given : /\ given = Range(names)
                    /\ given = {names[i] : i \in DOMAIN names}
  BY DEF Range
<1>15. given \subseteq S
  BY <1>3, <1>12, <1>14
<1>16. \A i, j \in 1..k : i < j => names[i] < names[j]
  BY <1>3, <1>12
<1>17. ASSUME NEW n \in S \ given, NEW m \in given
       PROVE  m < n
  <2>1. PICK i \in 1..k : m = q[i]
    BY <1>12, <1>14
  <2>2. PICK j \in 1..N : n = q[j]
    BY <1>3
  <2>3. j \notin 1..k
    BY <1>12, <1>14, <2>2
  <2>4. i < j /\ i \in 1..N
    BY <1>7, <2>3
  <2> QED
    BY <1>3, <2>1, <2>2, <2>4
<1>18. N > l <=> given # S
  <2>1. CASE N > l
    <3>1. k = l /\ l + 1 \in 1..N
      BY <1>7, <2>1
    <3>2. \A i \in 1..k : q[i] # q[l + 1]
      <4> SUFFICES ASSUME NEW i \in 1..k PROVE q[i] # q[l + 1]
        OBVIOUS
      <4>1. i < l + 1 /\ i \in 1..N
        BY <1>7, <3>1
      <4>2. q[i] < q[l + 1] /\ q[i] \in S /\ q[l + 1] \in S
        BY <1>3, <3>1, <4>1
      <4>3. q[i] \in Nat
        BY <4>2, CoreToolsOK
      <4> QED
        BY <4>2, <4>3
    <3>3. q[l + 1] \notin given
      BY <1>12, <1>14, <3>2
    <3>4. q[l + 1] \in S
      BY <1>3, <3>1
    <3> QED
      BY <2>1, <3>3, <3>4
  <2>2. CASE ~(N > l)
    <3>1. k = N
      BY <1>7, <2>2
    <3>2. S \subseteq given
      BY <1>3, <1>12, <1>14, <3>1
    <3> QED
      BY <1>15, <2>2, <3>2
  <2> QED
    BY <2>1, <2>2
<1>19. PICK r : r = Listed(call)
  OBVIOUS
<1>20. /\ r.path = call.path /\ r.hidden = call.hidden /\ r.limit = l
       /\ r.entries = e /\ r.count = N /\ r.truncated = (N > l)
  BY <1>4, <1>8, <1>10, <1>19 DEF Listed
<1>21. k = IF N > l THEN l ELSE N
  BY <1>7
<1>22. names = NamesOf(r.entries)
  BY <1>11, <1>20
<1>23. S = Present(r.path, r.hidden)
  BY <1>1, <1>20
<1>24. r.count = Cardinality(S) /\ (r.truncated <=> given # S)
  BY <1>3, <1>18, <1>20
<1>25. Len(names) = IF r.count > r.limit THEN r.limit ELSE r.count
  BY <1>13, <1>20, <1>21
<1>26. \A i, j \in DOMAIN names : i < j => names[i] < names[j]
  BY <1>12, <1>16
<1>27. \A i \in DOMAIN r.entries : Exact(r.entries[i])
  BY <1>9, <1>10, <1>20
<1>28. \A n \in S \ given : \A m \in given : m < n
  BY <1>17
<1>29. ExactListing(r)
  BY <1>14, <1>15, <1>22, <1>23, <1>24, <1>25, <1>26, <1>27, <1>28
     DEF ExactListing
<1> QED
  BY <1>19, <1>29

LEMMA SameAnswer ==
  ASSUME UNCHANGED tree, NEW r
  PROVE  ExactListing(r)' = ExactListing(r)
<1>1. Present(r.path, r.hidden)' = Present(r.path, r.hidden)
  BY SameTree
<1>2. \A e : Exact(e)' = Exact(e)
  BY SameListing
<1> QED
  BY <1>1, <1>2 DEF ExactListing

\* If nobody changes the workspace during the call, filesystem.list answers the
\* first names of the directory with their types and sizes, in every directory.
THEOREM ListingsAreExact == Spec => []ListIsExact
<1>1. Init => ListIsExact
  BY DEF Init, ListIsExact, NoReply
<1>2. TypeOK /\ FoundInv /\ ListIsExact /\ [Next]_vars => ListIsExact'
  <2> SUFFICES ASSUME TypeOK, FoundInv, ListIsExact, [Next]_vars
               PROVE  ListIsExact'
    OBVIOUS
  <2>1. ASSUME reply'.outcome # "list" PROVE ListIsExact'
    BY <2>1 DEF ListIsExact
  <2>2. CASE UNCHANGED vars
    <3>1. PICK r : r = reply
      OBVIOUS
    <3>2. ExactListing(r)' = ExactListing(r)
      BY <2>2, SameAnswer DEF vars
    <3>3. reply' = r /\ changed' = changed
      BY <2>2, <3>1 DEF vars
    <3> QED
      BY <3>1, <3>2, <3>3 DEF ListIsExact
  <2>3. CASE reply' = NoReply
    BY <2>1, <2>3 DEF NoReply
  <2>4. ASSUME NEW code \in {"invalid", "tool_timeout", "git_failed"},
               Answer(Failure(code))
        PROVE  ListIsExact'
    BY <2>1, <2>4 DEF Answer, Failure
  <2>5. CASE ReadOpen
    BY <2>1, <2>5 DEF ReadOpen, Answer, Raised
  <2>6. CASE call # Idle /\ (ListScan \/ EntryStat)
    <3>1. reply = NoReply
      BY <2>6 DEF TypeOK
    <3> QED
      BY <2>1, <2>6, <3>1 DEF ListScan, EntryStat, Answer, Goto, Raised, NoReply
  <2>7. CASE ListDone
    <3>1. PICK r : r = Listed(call)
      OBVIOUS
    <3>2. /\ call.at = "entries" /\ call.todo = <<>> /\ reply' = r
          /\ UNCHANGED <<tree, changed>>
      BY <2>7, <3>1 DEF ListDone, Answer
    <3>3. call \in Listing /\ (~changed => ListingInv(call))
      BY <3>2, CallKinds DEF TypeOK, FoundInv, ListStages
    <3>4. ~changed => ExactListing(r)
      BY <3>1, <3>2, <3>3, DoneIsExact
    <3>5. ExactListing(r)' = ExactListing(r)
      BY <3>2, SameAnswer
    <3> QED
      BY <3>2, <3>4, <3>5 DEF ListIsExact
  <2>8. ASSUME NEW x, StatusAnswer(x) \/ DiffAnswer(x)
        PROVE  ListIsExact'
    BY <2>1, <2>8 DEF StatusAnswer, DiffAnswer, Answer
  <2>9. CASE Raise
    BY <2>1, <2>9, RaiseReply
  <2> QED
    BY <2>2, <2>3, <2>4, <2>5, <2>6, <2>7, <2>8, <2>9, Answers
<1> QED
  BY <1>1, <1>2, FoundStays, PTL DEF Spec

(***************************************************************************)
(* Decoding.                                                               *)
(***************************************************************************)

LEMMA LeastNatural ==
  ASSUME NEW T, T \subseteq Nat, T # {}
  PROVE  \E m \in T : \A k \in T : m <= k
<1>1. PICK m \in T : \A k \in T : ~(<<k, m>> \in OpToRel(<, Nat))
  BY WFMin, NatLessThanWellFounded
<1>2. \A k \in T : ~(k < m)
  BY <1>1 DEF OpToRel
<1>3. \A k \in T : k \in Nat /\ m \in Nat
  OBVIOUS
<1>4. \A k \in T : m <= k
  BY <1>2, <1>3
<1> QED
  BY <1>4

\* Induction up to n, for a set.
LEMMA SetInduction ==
  ASSUME NEW T, NEW n \in Nat, 0 \in T,
         \A k \in 0..(n - 1) : k \in T => k + 1 \in T
  PROVE  n \in T /\ \A k \in 0..n : k \in T
<1> SUFFICES ASSUME NEW k \in 0..n, k \notin T PROVE FALSE
  <2>1. n \in 0..n
    OBVIOUS
  <2> QED
    BY <2>1
<1>1. PICK m \in (0..n) \ T : \A j \in (0..n) \ T : m <= j
  <2>1. (0..n) \ T \subseteq Nat /\ (0..n) \ T # {}
    OBVIOUS
  <2> QED
    BY <2>1, LeastNatural
<1>2. m - 1 \in 0..(n - 1) /\ m - 1 + 1 = m /\ m - 1 \in 0..n /\ ~(m <= m - 1)
  BY <1>1
<1>3. m - 1 \in T
  BY <1>1, <1>2
<1> QED
  BY <1>1, <1>2, <1>3

\* Where decoding from byte i stops, if f tells it for the bytes behind.
StopFrom(f, s, i) ==
  IF i = Len(s) + 1 THEN Stop(i, "end")
  ELSE IF s[i] = "C" \/ Broken(s, i) # {} THEN Stop(i, "invalid")
  ELSE IF LastByte(s, i) > Len(s) THEN Stop(i, "unexpected end")
  ELSE f[LastByte(s, i) + 1]

IsDecoding(f, s) == f = [i \in 1..Len(s) + 1 |-> StopFrom(f, s, i)]

LEMMA LeadingWidth ==
  ASSUME NEW s \in Seq(Bytes), NEW i \in 1..Len(s), s[i] # "C"
  PROVE  Width[s[i]] \in 1..3 /\ LastByte(s, i) \in i..(i + 2)
<1>1. PICK n \in Nat : n = Len(s)
  BY LenProperties
<1>2. PICK b : b = s[i]
  OBVIOUS
<1>3. b \in {"A", "L2", "L3"}
  <2>1. s[i] \in Bytes
    BY ElementOfSeq
  <2> QED
    BY <1>2, <2>1 DEF Bytes
<1>4. Width["A"] = 1 /\ Width["L2"] = 2 /\ Width["L3"] = 3
  BY DEF Width
<1>5. Width[b] \in 1..3
  BY <1>3, <1>4
<1>6. i \in Nat
  BY <1>1
<1>7. LastByte(s, i) = i + Width[b] - 1
  BY <1>2 DEF LastByte
<1> QED
  BY <1>2, <1>5, <1>6, <1>7

\* Where decoding stops depends on the bytes behind only.
LEMMA SameStop ==
  ASSUME NEW s \in Seq(Bytes), NEW i \in 1..(Len(s) + 1), NEW f, NEW g,
         \A j \in (i + 1)..(Len(s) + 1) : f[j] = g[j]
  PROVE  StopFrom(f, s, i) = StopFrom(g, s, i)
<1>1. PICK n \in Nat : n = Len(s)
  BY LenProperties
<1>2. CASE i = n + 1 \/ s[i] = "C" \/ Broken(s, i) # {} \/ LastByte(s, i) > n
  BY <1>1, <1>2 DEF StopFrom
<1>3. CASE i # n + 1 /\ s[i] # "C" /\ ~(Broken(s, i) # {}) /\ ~(LastByte(s, i) > n)
  <2>1. i \in 1..n
    BY <1>1, <1>3
  <2>2. LastByte(s, i) \in i..(i + 2)
    BY <1>1, <1>3, <2>1, LeadingWidth
  <2>3. LastByte(s, i) + 1 \in (i + 1)..(n + 1)
    BY <1>3, <2>1, <2>2
  <2>4. f[LastByte(s, i) + 1] = g[LastByte(s, i) + 1]
    BY <1>1, <2>3
  <2> QED
    BY <1>1, <1>3, <2>4 DEF StopFrom
<1> QED
  BY <1>2, <1>3

LEMMA DecodingExists ==
  ASSUME NEW s \in Seq(Bytes)
  PROVE  \E f : IsDecoding(f, s)
<1>1. PICK n \in Nat : n = Len(s)
  BY LenProperties
<1> DEFINE Tells(f, i) == f[i] = StopFrom(f, s, i)
           T == {m \in 0..n : \E f : /\ DOMAIN f = 1..n + 1
                                     /\ \A i \in (n + 1 - m)..(n + 1) : Tells(f, i)}
<1>2. 0 \in T
  <2>1. PICK f : f = [i \in 1..n + 1 |-> Stop(n + 1, "end")]
    OBVIOUS
  <2>2. DOMAIN f = 1..n + 1 /\ n + 1 \in 1..n + 1 /\ f[n + 1] = Stop(n + 1, "end")
    BY <2>1
  <2>3. Tells(f, n + 1)
    BY <1>1, <2>2 DEF StopFrom
  <2>4. \A i \in (n + 1 - 0)..(n + 1) : i = n + 1
    OBVIOUS
  <2>5. \A i \in (n + 1 - 0)..(n + 1) : Tells(f, i)
    BY <2>3, <2>4
  <2>6. 0 \in 0..n
    OBVIOUS
  <2> QED
    BY <2>2, <2>5, <2>6
<1>3. ASSUME NEW k \in 0..(n - 1), k \in T
      PROVE  k + 1 \in T
  <2>1. PICK f : /\ DOMAIN f = 1..n + 1
                 /\ \A i \in (n + 1 - k)..(n + 1) : Tells(f, i)
    BY <1>3
  <2>2. PICK p \in 1..n : p = n - k
    OBVIOUS
  <2>3. PICK g : g = [i \in 1..n + 1 |-> IF i = p THEN StopFrom(f, s, p) ELSE f[i]]
    OBVIOUS
  <2>4. DOMAIN g = 1..n + 1 /\ \A j \in (p + 1)..(n + 1) : g[j] = f[j]
    BY <2>2, <2>3
  <2>5. g[p] = StopFrom(f, s, p)
    BY <2>2, <2>3
  <2>6. ASSUME NEW i \in p..(n + 1)
        PROVE  StopFrom(g, s, i) = StopFrom(f, s, i)
    <3>1. i \in 1..(Len(s) + 1)
      BY <1>1, <2>2
    <3>2. \A j \in (i + 1)..(Len(s) + 1) : j \in (p + 1)..(n + 1)
      BY <1>1, <2>2
    <3>3. \A j \in (i + 1)..(Len(s) + 1) : g[j] = f[j]
      BY <2>4, <3>2
    <3> QED
      BY <3>1, <3>3, SameStop
  <2>7. ASSUME NEW i \in p..(n + 1)
        PROVE  Tells(g, i)
    <3>1. CASE i = p
      BY <2>5, <2>6, <3>1
    <3>2. CASE i # p
      <4>1. i \in (p + 1)..(n + 1) /\ i \in (n + 1 - k)..(n + 1)
        BY <2>2, <3>2
      <4>2. g[i] = f[i] /\ f[i] = StopFrom(f, s, i)
        BY <2>1, <2>4, <4>1
      <4> QED
        BY <2>6, <4>2
    <3> QED
      BY <3>1, <3>2
  <2>8. k + 1 \in 0..n /\ n + 1 - (k + 1) = p
    BY <2>2
  <2> QED
    BY <2>4, <2>7, <2>8
<1>4. n \in T
  <2> HIDE DEF T
  <2> QED
    BY <1>2, <1>3, SetInduction
<1>5. PICK f : DOMAIN f = 1..n + 1 /\ \A i \in (n + 1 - n)..(n + 1) : Tells(f, i)
  BY <1>4
<1>6. PICK g : g = [i \in 1..n + 1 |-> f[i]]
  OBVIOUS
<1>7. ASSUME NEW i \in 1..n + 1
      PROVE  g[i] = StopFrom(g, s, i)
  <2>1. i \in (n + 1 - n)..(n + 1)
    OBVIOUS
  <2>2. f[i] = StopFrom(f, s, i) /\ g[i] = f[i]
    BY <1>5, <1>6, <2>1
  <2>3. i \in 1..(Len(s) + 1) /\ \A j \in (i + 1)..(Len(s) + 1) : j \in 1..n + 1
    BY <1>1
  <2>4. \A j \in (i + 1)..(Len(s) + 1) : f[j] = g[j]
    BY <1>6, <2>3
  <2>5. StopFrom(f, s, i) = StopFrom(g, s, i)
    BY <2>3, <2>4, SameStop
  <2> QED
    BY <2>2, <2>5
<1>8. g = [i \in 1..Len(s) + 1 |-> StopFrom(g, s, i)]
  BY <1>1, <1>6, <1>7
<1> QED
  BY <1>8 DEF IsDecoding

LEMMA DecodedIs ==
  ASSUME NEW s \in Seq(Bytes)
  PROVE  \E f : IsDecoding(f, s) /\ Decoded(s) = f[1]
<1>1. PICK f : f = CHOOSE g : IsDecoding(g, s)
  OBVIOUS
<1>2. IsDecoding(f, s)
  BY <1>1, DecodingExists
<1>3. Decoded(s) = f[1]
  BY <1>1 DEF Decoded, IsDecoding, StopFrom
<1> QED
  BY <1>2, <1>3

\* The bytes from i to a are whole characters.
Whole(s, i, a) ==
  \A k \in i..a :
    IF s[k] = "C" THEN \E j \in i..(k - 1) : s[j] # "C" /\ k <= LastByte(s, j)
    ELSE \A j \in (k + 1)..LastByte(s, k) : j <= a /\ s[j] = "C"

\* What it means that decoding s from byte i stops at d.
StopsAt(d, s, i) ==
  /\ d.at \in (i - 1)..Len(s) /\ d.why \in {"end", "invalid", "unexpected end"}
  /\ Whole(s, i, d.at)
  /\ d.why = "end" => d.at = Len(s)
  /\ d.why = "invalid" =>
       d.at < Len(s) /\ (s[d.at + 1] = "C" \/ Broken(s, d.at + 1) # {})
  /\ d.why = "unexpected end" =>
       d.at < Len(s) /\ s[d.at + 1] # "C" /\ LastByte(s, d.at + 1) > Len(s)

\* One more character in front of whole ones.
LEMMA CharacterAhead ==
  ASSUME NEW s \in Seq(Bytes), NEW i \in 1..Len(s), s[i] # "C", Broken(s, i) = {},
         LastByte(s, i) <= Len(s), NEW d, StopsAt(d, s, LastByte(s, i) + 1)
  PROVE  StopsAt(d, s, i)
<1>1. PICK n \in Nat : n = Len(s)
  BY LenProperties
<1>2. PICK l \in i..(i + 2) : l = LastByte(s, i) /\ l <= n
  BY <1>1, LeadingWidth
<1>3. i \in Nat \ {0}
  BY <1>1
<1>4. PICK a : a = d.at
  OBVIOUS
<1>5. a \in l..n /\ Whole(s, l + 1, a)
  <2>1. PICK m : m = l + 1
    OBVIOUS
  <2>2. StopsAt(d, s, m)
    BY <1>2, <2>1
  <2>3. d.at \in (m - 1)..Len(s) /\ Whole(s, m, d.at)
    BY <2>2 DEF StopsAt
  <2>4. m - 1 = l
    BY <1>2, <1>3, <2>1
  <2> QED
    BY <1>1, <1>4, <2>1, <2>3, <2>4
<1>6. \A j \in (i + 1)..l : s[j] = "C" /\ j <= a
  <2>1. \A j \in (i + 1)..l : j <= Len(s) => s[j] = "C"
    BY <1>2 DEF Broken
  <2> QED
    BY <1>1, <1>2, <1>3, <1>5, <2>1
<1>7. ASSUME NEW k \in i..a
      PROVE  IF s[k] = "C"
             THEN \E j \in i..(k - 1) : s[j] # "C" /\ k <= LastByte(s, j)
             ELSE \A j \in (k + 1)..LastByte(s, k) : j <= a /\ s[j] = "C"
  <2>1. CASE k = i
    BY <1>2, <1>6, <2>1
  <2>2. CASE k \in (i + 1)..l
    <3>1. s[k] = "C" /\ i \in i..(k - 1) /\ k <= LastByte(s, i)
      BY <1>2, <1>3, <1>6, <2>2
    <3> QED
      BY <3>1
  <2>3. CASE k \in (l + 1)..a
    <3>1. IF s[k] = "C"
          THEN \E j \in (l + 1)..(k - 1) : s[j] # "C" /\ k <= LastByte(s, j)
          ELSE \A j \in (k + 1)..LastByte(s, k) : j <= a /\ s[j] = "C"
      BY <1>5, <2>3 DEF Whole
    <3>2. \A j \in (l + 1)..(k - 1) : j \in i..(k - 1)
      BY <1>2, <1>3
    <3> QED
      BY <3>1, <3>2
  <2> QED
    BY <1>2, <1>3, <1>5, <2>1, <2>2, <2>3
<1>8. Whole(s, i, a)
  BY <1>7 DEF Whole
<1>9. a \in (i - 1)..n
  BY <1>2, <1>3, <1>5
<1> QED
  BY <1>1, <1>4, <1>8, <1>9 DEF StopsAt

LEMMA DecodingStops ==
  ASSUME NEW s \in Seq(Bytes), NEW f, IsDecoding(f, s)
  PROVE  StopsAt(f[1], s, 1)
<1>1. PICK n \in Nat : n = Len(s)
  BY LenProperties
<1>2. \A i \in 1..(n + 1) : f[i] = StopFrom(f, s, i)
  BY <1>1 DEF IsDecoding
<1>3. \A i \in 1..(n + 1) : Whole(s, i, i - 1)
  BY DEF Whole
<1>4. StopsAt(f[n + 1], s, n + 1)
  <2>1. n + 1 \in 1..(n + 1)
    OBVIOUS
  <2>2. PICK d : d = f[n + 1]
    OBVIOUS
  <2>3. d = Stop(n + 1, "end")
    BY <1>1, <1>2, <2>1, <2>2 DEF StopFrom
  <2>4. d.at = n /\ d.why = "end"
    BY <2>3 DEF Stop
  <2>5. Whole(s, n + 1, n)
    <3>1. n + 1 - 1 = n
      OBVIOUS
    <3> QED
      BY <1>3, <2>1, <3>1
  <2> QED
    BY <1>1, <2>2, <2>4, <2>5 DEF StopsAt
<1>5. ASSUME NEW p \in 1..n, \A i \in (p + 1)..(n + 1) : StopsAt(f[i], s, i)
      PROVE  StopsAt(f[p], s, p)
  <2>1. p \in 1..(n + 1) /\ p # n + 1 /\ p \in 1..Len(s)
    BY <1>1
  <2>2. PICK d : d = f[p]
    OBVIOUS
  <2>3. d = StopFrom(f, s, p)
    BY <1>2, <2>1, <2>2
  <2>4. Whole(s, p, p - 1) /\ p - 1 + 1 = p
    BY <1>3, <2>1
  <2>5. CASE s[p] = "C" \/ Broken(s, p) # {}
    <3>1. d = Stop(p, "invalid")
      BY <1>1, <2>1, <2>3, <2>5 DEF StopFrom
    <3>2. d.at = p - 1 /\ d.why = "invalid"
      BY <3>1 DEF Stop
    <3> QED
      BY <1>1, <2>2, <2>4, <2>5, <3>2 DEF StopsAt
  <2>6. CASE s[p] # "C" /\ Broken(s, p) = {} /\ LastByte(s, p) > n
    <3>1. d = Stop(p, "unexpected end")
      BY <1>1, <2>1, <2>3, <2>6 DEF StopFrom
    <3>2. d.at = p - 1 /\ d.why = "unexpected end"
      BY <3>1 DEF Stop
    <3>3. d.at \in (p - 1)..n /\ d.at < n /\ d.at + 1 = p
      <4>1. p - 1 \in (p - 1)..n /\ p - 1 < n /\ p - 1 + 1 = p
        BY <1>1
      <4> QED
        BY <3>2, <4>1
    <3>4. Whole(s, p, d.at) /\ s[d.at + 1] # "C" /\ LastByte(s, d.at + 1) > Len(s)
      BY <1>1, <2>4, <2>6, <3>2, <3>3
    <3>5. StopsAt(d, s, p)
      BY <1>1, <3>2, <3>3, <3>4 DEF StopsAt
    <3> QED
      BY <2>2, <3>5
  <2>7. CASE s[p] # "C" /\ Broken(s, p) = {} /\ ~(LastByte(s, p) > n)
    <3>1. d = f[LastByte(s, p) + 1]
      BY <1>1, <2>1, <2>3, <2>7 DEF StopFrom
    <3>2. LastByte(s, p) \in p..(p + 2)
      BY <2>1, <2>7, LeadingWidth
    <3>3. LastByte(s, p) + 1 \in (p + 1)..(n + 1) /\ LastByte(s, p) <= n
      BY <2>7, <3>2
    <3>4. StopsAt(d, s, LastByte(s, p) + 1)
      BY <1>5, <3>1, <3>3
    <3> QED
      BY <1>1, <2>1, <2>2, <2>7, <3>3, <3>4, CharacterAhead
  <2> QED
    BY <2>5, <2>6, <2>7
<1> DEFINE T == {m \in 0..n : \A i \in (n + 1 - m)..(n + 1) : StopsAt(f[i], s, i)}
<1>6. 0 \in T
  <2>1. \A i \in (n + 1 - 0)..(n + 1) : i = n + 1
    OBVIOUS
  <2> QED
    BY <1>4, <2>1
<1>7. ASSUME NEW k \in 0..(n - 1), k \in T
      PROVE  k + 1 \in T
  <2>1. PICK p \in 1..n : p = n - k
    OBVIOUS
  <2>2. \A i \in (p + 1)..(n + 1) : StopsAt(f[i], s, i)
    BY <1>7, <2>1
  <2>3. StopsAt(f[p], s, p)
    BY <1>5, <2>2
  <2>4. \A i \in p..(n + 1) : i = p \/ i \in (p + 1)..(n + 1)
    OBVIOUS
  <2>5. n + 1 - (k + 1) = p /\ k + 1 \in 0..n
    BY <2>1
  <2> QED
    BY <2>2, <2>3, <2>4, <2>5
<1>8. n \in T
  <2> HIDE DEF T
  <2> QED
    BY <1>6, <1>7, SetInduction
<1>9. 1 \in (n + 1 - n)..(n + 1)
  OBVIOUS
<1> QED
  BY <1>8, <1>9

(***************************************************************************)
(* Texts.                                                                  *)
(***************************************************************************)

\* The bytes up to a, by their positions.
LEMMA PrefixType ==
  ASSUME NEW s \in Seq(Bytes), NEW a \in 0..Len(s)
  PROVE  /\ SubSeq(s, 1, a) \in Seq(Bytes) /\ Len(SubSeq(s, 1, a)) = a
         /\ \A i \in 1..a : SubSeq(s, 1, a)[i] = s[i]
<1>1. PICK n \in Nat : n = Len(s)
  BY LenProperties
<1>2. a \in Nat /\ a <= n /\ 1 - 1 + 1 = 1
  BY <1>1
<1> QED
  BY <1>1, <1>2, SubSeqProperties

LEMMA WholeIsText ==
  ASSUME NEW s \in Seq(Bytes), NEW a \in 0..Len(s), Whole(s, 1, a)
  PROVE  IsText(SubSeq(s, 1, a))
<1>1. PICK n \in Nat : n = Len(s)
  BY LenProperties
<1>2. PICK t : t = SubSeq(s, 1, a)
  OBVIOUS
<1>3. t \in Seq(Bytes) /\ Len(t) = a /\ \A i \in 1..a : t[i] = s[i]
  BY <1>2, PrefixType
<1>4. a \in Nat /\ a <= n
  BY <1>1
<1>5. ASSUME NEW i \in 1..a, t[i] = "C"
      PROVE  \E j \in 1..i - 1 : t[j] # "C" /\ i < j + Width[t[j]]
  <2>1. s[i] = "C"
    BY <1>3, <1>5
  <2>2. PICK j \in 1..(i - 1) : s[j] # "C" /\ i <= LastByte(s, j)
    BY <2>1 DEF Whole
  <2>3. j \in 1..a /\ j \in 1..Len(s) /\ t[j] = s[j]
    BY <1>1, <1>3, <1>4
  <2>4. Width[s[j]] \in 1..3
    BY <2>2, <2>3, LeadingWidth
  <2>5. PICK w \in 1..3 : w = Width[s[j]]
    BY <2>4
  <2>6. i <= j + w - 1
    BY <2>2, <2>5 DEF LastByte
  <2>7. i < j + w
    BY <2>3, <2>6
  <2> QED
    BY <2>2, <2>3, <2>5, <2>7
<1>6. ASSUME NEW i \in 1..a, t[i] # "C", NEW j \in i + 1..i + Width[t[i]] - 1
      PROVE  j <= a /\ t[j] = "C"
  <2>1. s[i] = t[i]
    BY <1>3
  <2>2. j \in (i + 1)..LastByte(s, i)
    BY <2>1 DEF LastByte
  <2>3. j <= a /\ s[j] = "C"
    BY <1>6, <2>1, <2>2 DEF Whole
  <2>4. j \in 1..a
    BY <1>4, <2>2, <2>3
  <2> QED
    BY <1>3, <2>3, <2>4
<1> QED
  BY <1>2, <1>3, <1>5, <1>6 DEF IsText

\* A character whose end is missing is no text.
LEMMA EndIsMissing ==
  ASSUME NEW s \in Seq(Bytes), NEW k \in 1..Len(s), NEW p \in 1..k,
         s[p] # "C", LastByte(s, p) > k
  PROVE  ~IsText(SubSeq(s, 1, k))
<1> SUFFICES ASSUME IsText(SubSeq(s, 1, k)) PROVE FALSE
  OBVIOUS
<1>1. PICK n \in Nat : n = Len(s)
  BY LenProperties
<1>2. PICK t : t = SubSeq(s, 1, k)
  OBVIOUS
<1>3. k \in 0..Len(s)
  BY <1>1
<1>4. Len(t) = k /\ t[p] = s[p]
  BY <1>2, <1>3, PrefixType
<1>5. PICK w \in 1..3 : w = Width[s[p]]
  <2>1. p \in 1..Len(s)
    BY <1>1
  <2> QED
    BY <2>1, LeadingWidth
<1>6. p + w - 1 > k
  BY <1>5 DEF LastByte
<1>7. \A j \in p + 1..p + w - 1 : j <= k
  BY <1>2, <1>4, <1>5 DEF IsText
<1>8. p + w - 1 \in p + 1..p + w - 1
  BY <1>1, <1>6
<1> QED
  BY <1>1, <1>6, <1>7, <1>8

\* The start of s looks like s.
LEMMA SameStart ==
  ASSUME NEW s \in Seq(Bytes), NEW m \in 0..Len(s), NEW r \in Seq(Bytes),
         r = SubSeq(s, 1, m)
  PROVE  /\ Len(r) = m
         /\ \A i \in 1..m : r[i] = s[i] /\ LastByte(r, i) = LastByte(s, i)
         /\ \A a \in 0..m : SubSeq(r, 1, a) = SubSeq(s, 1, a)
<1>1. PICK n \in Nat : n = Len(s)
  BY LenProperties
<1>2. Len(r) = m /\ \A i \in 1..m : r[i] = s[i]
  BY PrefixType
<1>3. \A i \in 1..m : LastByte(r, i) = LastByte(s, i)
  BY <1>2 DEF LastByte
<1>4. ASSUME NEW a \in 0..m
      PROVE  SubSeq(r, 1, a) = SubSeq(s, 1, a)
  <2>1. a \in 0..Len(r) /\ a \in 0..Len(s) /\ \A i \in 1..a : i \in 1..m
    BY <1>1, <1>2
  <2>2. PICK u \in Seq(Bytes) : u = SubSeq(r, 1, a) /\ Len(u) = a
                                /\ \A i \in 1..a : u[i] = r[i]
    BY <2>1, PrefixType
  <2>3. PICK v \in Seq(Bytes) : v = SubSeq(s, 1, a) /\ Len(v) = a
                                /\ \A i \in 1..a : v[i] = s[i]
    BY <2>1, PrefixType
  <2>4. Len(u) = Len(v) /\ \A i \in 1..Len(u) : u[i] = v[i]
    BY <1>2, <2>1, <2>2, <2>3
  <2>5. u = v
    BY <2>4, SeqEqual
  <2> QED
    BY <2>2, <2>3, <2>5
<1> QED
  BY <1>2, <1>3, <1>4

\* Bytes that do not decode, other than for a missing end, are no text.
LEMMA InvalidIsNoText ==
  ASSUME NEW s \in Seq(Bytes), NEW m \in 0..Len(s), NEW r \in Seq(Bytes),
         r = SubSeq(s, 1, m), NEW d, StopsAt(d, r, 1), d.why = "invalid"
  PROVE  ~IsText(s)
<1> SUFFICES ASSUME IsText(s) PROVE FALSE
  OBVIOUS
<1>1. PICK n \in Nat : n = Len(s)
  BY LenProperties
<1>2. Len(r) = m /\ \A i \in 1..m : r[i] = s[i] /\ LastByte(r, i) = LastByte(s, i)
  BY SameStart
<1>3. m \in Nat /\ m <= n
  BY <1>1
<1>4. PICK a : a = d.at
  OBVIOUS
<1>5. /\ a \in (1 - 1)..m /\ a < m /\ Whole(r, 1, a)
      /\ r[a + 1] = "C" \/ Broken(r, a + 1) # {}
  BY <1>2, <1>4 DEF StopsAt
<1>6. PICK p \in 1..m : p = a + 1 /\ a \in Nat
  BY <1>3, <1>5
<1>7. p \in 1..Len(s) /\ r[p] = s[p]
  BY <1>1, <1>2, <1>3
<1>8. CASE s[p] = "C"
  <2>1. PICK j \in 1..p - 1 : s[j] # "C" /\ p < j + Width[s[j]]
    BY <1>7, <1>8 DEF IsText
  <2>2. j \in 1..a /\ j \in 1..m /\ j \in 1..Len(s)
    BY <1>1, <1>3, <1>6
  <2>3. PICK w \in 1..3 : w = Width[s[j]]
    BY <2>1, <2>2, LeadingWidth
  <2>4. p \in (j + 1)..(j + w - 1)
    BY <1>6, <2>1, <2>2, <2>3
  <2>5. LastByte(r, j) = j + w - 1 /\ r[j] # "C"
    BY <1>2, <2>1, <2>2, <2>3 DEF LastByte
  <2>6. \A i \in (j + 1)..LastByte(r, j) : i <= a
    BY <1>5, <2>2, <2>5 DEF Whole
  <2>7. p <= a
    BY <2>4, <2>5, <2>6
  <2> QED
    BY <1>6, <2>7
<1>9. CASE s[p] # "C"
  <2>1. PICK j \in p + 1..LastByte(r, p) : j <= Len(r) /\ r[j] # "C"
    BY <1>5, <1>6, <1>7, <1>9 DEF Broken
  <2>2. j \in p + 1..p + Width[s[p]] - 1
    BY <1>2, <2>1 DEF LastByte
  <2>3. s[j] = "C"
    BY <1>7, <1>9, <2>2 DEF IsText
  <2>4. j \in 1..m
    BY <1>2, <1>6, <2>1
  <2> QED
    BY <1>2, <2>1, <2>3, <2>4
<1> QED
  BY <1>8, <1>9

\* What Cut keeps, and why it stops: r are the bytes it decodes, m of them, and
\* decoding them stops at d.
CutFacts(s, limit, m, r, d) ==
  /\ m \in 0..Len(s) /\ r \in Seq(Bytes) /\ StopsAt(d, r, 1)
  /\ Cut(s, limit).why = d.why
  /\ Cut(s, limit).text = SubSeq(s, 1, d.at)
  /\ Cut(s, limit).truncated <=> Len(s) > limit \/ d.why = "unexpected end"

LEMMA CutStops ==
  ASSUME NEW s \in Seq(Bytes), NEW limit \in Nat,
         NEW m, m = (IF limit <= Len(s) THEN limit ELSE Len(s)),
         NEW r, r = SubSeq(s, 1, m), NEW d, d = Decoded(r)
  PROVE  CutFacts(s, limit, m, r, d)
<1>1. PICK n \in Nat : n = Len(s)
  BY LenProperties
<1>2. limit + 1 \in Nat
  OBVIOUS
<1>3. PICK probe : probe = First(s, limit + 1)
  OBVIOUS
<1>4. PICK l \in 0..n : l = (IF limit + 1 <= n THEN limit + 1 ELSE n)
  BY <1>1
<1>5. probe \in Seq(Bytes) /\ Len(probe) = l /\ probe = SubSeq(s, 1, l)
  <2>1. /\ First(s, limit + 1) \in Seq(Bytes)
        /\ Len(First(s, limit + 1)) = IF limit + 1 <= Len(s) THEN limit + 1 ELSE Len(s)
        /\ First(s, limit + 1) = SubSeq(s, 1, Len(First(s, limit + 1)))
    BY <1>2, FirstType
  <2> QED
    BY <1>1, <1>3, <1>4, <2>1
<1>6. m \in 0..n /\ m = (IF limit <= n THEN limit ELSE n)
  BY <1>1
<1>7. m <= l /\ m \in 0..l /\ m = (IF limit <= l THEN limit ELSE l) /\ m \in 0..Len(s)
      /\ l \in 0..Len(s)
  <2>1. PICK k \in 0..n : k = m /\ k = (IF limit <= n THEN limit ELSE n)
    BY <1>6
  <2>2. k <= l /\ k \in 0..l /\ k = (IF limit <= l THEN limit ELSE l)
    BY <1>1, <1>4, <2>1
  <2> QED
    BY <1>1, <1>4, <2>1, <2>2
<1>8. \A a \in 0..l : SubSeq(probe, 1, a) = SubSeq(s, 1, a)
  BY <1>5, <1>7, SameStart
<1>9. r \in Seq(Bytes) /\ Len(r) = m
  BY <1>7, PrefixType
<1>10. r = First(probe, limit)
  <2>1. /\ First(probe, limit) \in Seq(Bytes)
        /\ Len(First(probe, limit)) = IF limit <= Len(probe) THEN limit ELSE Len(probe)
        /\ First(probe, limit) = SubSeq(probe, 1, Len(First(probe, limit)))
    <3>1. probe \in Seq(Bytes)
      BY <1>5
    <3> QED
      BY <3>1, FirstType
  <2> QED
    BY <1>5, <1>7, <1>8, <2>1
<1>11. StopsAt(d, r, 1)
  <2>1. PICK f : IsDecoding(f, r) /\ Decoded(r) = f[1]
    BY <1>9, DecodedIs
  <2> QED
    BY <1>9, <2>1, DecodingStops
<1>12. d.at \in 0..m /\ d.at \in Nat /\ d.at <= l
  <2>1. d.at \in (1 - 1)..m
    BY <1>9, <1>11 DEF StopsAt
  <2> QED
    BY <1>6, <1>7, <2>1
<1>13. First(probe, d.at) = SubSeq(s, 1, d.at)
  <2>1. PICK a \in 0..l : a = d.at /\ a \in Nat
    BY <1>12
  <2>2. /\ Len(First(probe, a)) = IF a <= Len(probe) THEN a ELSE Len(probe)
        /\ First(probe, a) = SubSeq(probe, 1, Len(First(probe, a)))
    <3>1. probe \in Seq(Bytes) /\ a \in Nat
      BY <1>5, <2>1
    <3> QED
      BY <3>1, FirstType
  <2>3. First(probe, a) = SubSeq(probe, 1, a)
    BY <1>5, <2>1, <2>2
  <2> QED
    BY <1>8, <2>1, <2>3
<1>14. Cut(s, limit) = [why |-> d.why, text |-> First(probe, d.at),
                        truncated |-> Len(probe) > limit \/ d.why = "unexpected end"]
  BY <1>3, <1>10 DEF Cut
<1>15. Len(probe) > limit <=> Len(s) > limit
  BY <1>1, <1>4, <1>5
<1>16. /\ Cut(s, limit).why = d.why
       /\ Cut(s, limit).text = SubSeq(s, 1, d.at)
       /\ Cut(s, limit).truncated <=> Len(s) > limit \/ d.why = "unexpected end"
  <2>1. /\ Cut(s, limit).why = d.why /\ Cut(s, limit).text = First(probe, d.at)
        /\ Cut(s, limit).truncated <=> (Len(probe) > limit \/ d.why = "unexpected end")
    <3>1. PICK z \in BOOLEAN : z = (Len(probe) > limit \/ d.why = "unexpected end")
      OBVIOUS
    <3>2. PICK x : x = d.why
      OBVIOUS
    <3>3. PICK y : y = First(probe, d.at)
      OBVIOUS
    <3>4. PICK c : c = Cut(s, limit)
      OBVIOUS
    <3>5. c = [why |-> x, text |-> y, truncated |-> z]
      BY <1>14, <3>1, <3>2, <3>3, <3>4
    <3>6. c.why = x /\ c.text = y /\ c.truncated = z
      BY <3>5
    <3> QED
      BY <3>1, <3>2, <3>3, <3>4, <3>6, Zenon
  <2> QED
    BY <1>13, <1>15, <2>1, Zenon
<1> QED
  BY <1>7, <1>9, <1>11, <1>16, Zenon DEF CutFacts

\* What Cut keeps is cut at a character, or the bytes are no text.
LEMMA CutIsExact ==
  ASSUME NEW s \in Seq(Bytes), NEW limit \in Nat,
         NEW kept, kept = Cut(s, limit)
  PROVE  /\ kept.why = "invalid" => ~IsText(s)
         /\ kept.why # "invalid" => CutAtCharacter(s, limit, kept.text, kept.truncated)
<1>1. PICK n \in Nat : n = Len(s)
  BY LenProperties
<1>2. PICK m : m = (IF limit <= Len(s) THEN limit ELSE Len(s))
  OBVIOUS
<1>3. PICK r : r = SubSeq(s, 1, m)
  OBVIOUS
<1>4. PICK d : d = Decoded(r)
  OBVIOUS
<1>5. CutFacts(s, limit, m, r, d)
  BY <1>2, <1>3, <1>4, CutStops
<1>6. m \in 0..Len(s) /\ r \in Seq(Bytes)
  BY <1>5, Zenon DEF CutFacts
<1>7. StopsAt(d, r, 1)
  BY <1>5, Zenon DEF CutFacts
<1>8. kept.why = d.why /\ kept.text = SubSeq(s, 1, d.at)
  BY <1>5, Zenon DEF CutFacts
<1>9. kept.truncated <=> Len(s) > limit \/ d.why = "unexpected end"
  BY <1>5, Zenon DEF CutFacts
<1>10. d.why = "invalid" => ~IsText(s)
  BY <1>3, <1>6, <1>7, InvalidIsNoText
<1>11. SUFFICES ASSUME d.why # "invalid"
               PROVE  CutAtCharacter(s, limit, kept.text, kept.truncated)
  BY <1>10, <1>8, Zenon
<1>12. m \in Nat /\ m <= n /\ m <= limit /\ (Len(s) > limit <=> m # n)
  <2>1. m = (IF limit <= n THEN limit ELSE n)
    BY <1>1, <1>2
  <2> QED
    BY <1>1, <2>1
<1>13. Len(r) = m /\ \A i \in 1..m : r[i] = s[i] /\ LastByte(r, i) = LastByte(s, i)
  BY <1>3, <1>6, SameStart
<1>14. PICK a \in 0..m : a = d.at
  <2>1. d.at \in (1 - 1)..m
    BY <1>13, <1>7 DEF StopsAt
  <2> QED
    BY <2>1
<1>15. Whole(r, 1, a) /\ d.why \in {"end", "unexpected end"}
  BY <1>11, <1>14, <1>7 DEF StopsAt
<1>16. a \in Nat /\ a <= m /\ a \in 0..Len(s) /\ a \in 0..Len(r)
  BY <1>1, <1>12, <1>13
<1>17. PICK t : t = kept.text
  OBVIOUS
<1>18. t = SubSeq(s, 1, a) /\ Len(t) = a /\ t = SubSeq(r, 1, a)
  <2>1. SubSeq(r, 1, a) = SubSeq(s, 1, a)
    BY <1>3, <1>14, <1>6, SameStart
  <2>2. Len(SubSeq(s, 1, a)) = a
    BY <1>16, PrefixType
  <2> QED
    BY <1>14, <1>17, <1>8, <2>1, <2>2
<1>19. IsText(t)
  BY <1>15, <1>16, <1>18, <1>6, WholeIsText
<1>20. IsPrefix(t, s)
  <2>1. SubSeq(t, 1, a) = t
    <3>1. t \in Seq(Bytes)
      BY <1>16, <1>18, PrefixType
    <3> QED
      BY <1>18, <3>1, SubSeqFull
  <2> QED
    BY <1>1, <1>12, <1>16, <1>18, <2>1 DEF IsPrefix
<1>21. t = s <=> a = n
  <2>1. SubSeq(s, 1, n) = s
    BY <1>1, SubSeqFull
  <2> QED
    BY <1>1, <1>18, <2>1
<1>22. CASE d.why = "end"
  <2>1. a = m
    BY <1>13, <1>14, <1>22, <1>7 DEF StopsAt
  <2>2. kept.truncated <=> t # s
    <3>1. kept.truncated <=> Len(s) > limit
      BY <1>22, <1>9, Zenon
    <3>2. Len(s) > limit <=> a # n
      BY <1>12, <2>1
    <3> QED
      BY <1>21, <3>1, <3>2, Zenon
  <2>3. \A k \in Len(t) + 1..Len(s) : k > limit
    <3>1. m = (IF limit <= n THEN limit ELSE n)
      BY <1>1, <1>2
    <3> QED
      BY <1>1, <1>18, <2>1, <3>1
  <2>4. Len(t) <= limit
    BY <1>12, <1>18, <2>1
  <2> QED
    BY <1>17, <1>19, <1>20, <2>2, <2>3, <2>4 DEF CutAtCharacter
<1>23. CASE d.why = "unexpected end"
  <2>1. a < m /\ r[a + 1] # "C" /\ LastByte(r, a + 1) > m
    BY <1>13, <1>14, <1>23, <1>7 DEF StopsAt
  <2>2. PICK p \in 1..m : p = a + 1
    BY <1>12, <1>16, <2>1
  <2>3. s[p] # "C" /\ LastByte(s, p) > m
    BY <1>13, <2>1, <2>2
  <2>4. kept.truncated <=> t # s
    <3>1. a # n
      BY <1>12, <1>16, <2>1
    <3> QED
      BY <1>21, <1>23, <1>9, <3>1, Zenon
  <2>5. ASSUME NEW k \in Len(t) + 1..Len(s), k <= limit
        PROVE  ~IsText(SubSeq(s, 1, k))
    <3>1. k \in 1..Len(s) /\ p \in 1..k /\ k <= m
      <4>1. m = (IF limit <= n THEN limit ELSE n)
        BY <1>1, <1>2
      <4>2. k \in a + 1..n
        BY <1>1, <1>18
      <4> QED
        BY <1>1, <1>16, <2>2, <2>5, <4>1, <4>2
    <3>2. LastByte(s, p) \in Int
      <4>1. p \in 1..Len(s)
        BY <1>1, <1>12
      <4>2. LastByte(s, p) \in p..(p + 2)
        BY <2>3, <4>1, LeadingWidth
      <4> QED
        BY <4>2
    <3>3. LastByte(s, p) > k
      BY <1>12, <2>3, <3>1, <3>2
    <3> QED
      BY <2>3, <3>1, <3>3, EndIsMissing
  <2>6. \A k \in Len(t) + 1..Len(s) : IsText(SubSeq(s, 1, k)) => k > limit
    <3>1. \A k \in Len(t) + 1..Len(s) : k \in Int
      BY <1>1, <1>16, <1>18
    <3> QED
      BY <2>5, <3>1
  <2>7. Len(t) <= limit
    BY <1>12, <1>16, <1>18
  <2> QED
    BY <1>17, <1>19, <1>20, <2>4, <2>6, <2>7 DEF CutAtCharacter
<1> QED
  BY <1>15, <1>22, <1>23

\* TextsAreCutAtCharacters, of an answer r.
TextIsRight(r) ==
  /\ r.outcome = "read" =>
       CutAtCharacter(Found(r.path).text, r.limit, r.text, r.truncated)
  /\ r.outcome = "not_text" => ~IsText(Found(r.path).text)
  /\ r.outcome = "diff" =>
       ~r.replaced /\ CutAtCharacter(r.of, r.limit, r.text, r.truncated)

LEMMA ReadIsRight ==
  ASSUME TypeOK, ReadOpen, reply'.outcome # "raised"
  PROVE  TextIsRight(reply')
<1>1. call \in Reading /\ call.at = "open"
  <2>1. call \in CallType
    BY DEF TypeOK
  <2>2. call.at = "open"
    BY DEF ReadOpen
  <2> QED
    BY <2>1, <2>2, CallKinds
<1>2. PICK p \in Inside, limit \in Nat : p = call.path /\ limit = call.limit
  BY <1>1, CoreToolsOK DEF Reading
<1>3. Found(p) \in Node
  BY FoundType DEF TypeOK
<1>4. PICK s \in Seq(Bytes) : s = Found(p).text
  BY <1>3 DEF Node
<1>5. PICK kept : kept = Cut(s, limit)
  OBVIOUS
<1>6. PICK why, text, truncated :
        why = kept.why /\ text = kept.text /\ truncated = kept.truncated
  OBVIOUS
<1>7. /\ why = "invalid" => ~IsText(s)
      /\ why # "invalid" => CutAtCharacter(s, limit, text, truncated)
  BY <1>5, <1>6, CutIsExact
<1>8. PICK r : r = reply'
  OBVIOUS
<1>9. r = IF ~IsFile(p) THEN Raised(call)
          ELSE IF why = "invalid" THEN [outcome |-> "not_text", path |-> p]
               ELSE [outcome |-> "read", path |-> p, limit |-> limit,
                     text |-> text, truncated |-> truncated]
  BY <1>2, <1>4, <1>5, <1>6, <1>8 DEF ReadOpen, Answer
<1>10. IsFile(p)
  <2> SUFFICES ASSUME ~IsFile(p) PROVE FALSE
    OBVIOUS
  <2>1. r = Raised(call)
    BY <1>9
  <2> QED
    BY <1>8, <2>1 DEF Raised
<1>11. CASE why = "invalid"
  <2>1. r = [outcome |-> "not_text", path |-> p]
    BY <1>9, <1>10, <1>11
  <2>2. r.outcome = "not_text" /\ r.path = p
    BY <2>1
  <2> QED
    BY <1>4, <1>7, <1>8, <1>11, <2>2 DEF TextIsRight
<1>12. CASE why # "invalid"
  <2>1. r = [outcome |-> "read", path |-> p, limit |-> limit, text |-> text,
             truncated |-> truncated]
    BY <1>9, <1>10, <1>12
  <2>2. /\ r.outcome = "read" /\ r.path = p /\ r.limit = limit /\ r.text = text
        /\ r.truncated = truncated
    BY <2>1
  <2>3. CutAtCharacter(Found(r.path).text, r.limit, r.text, r.truncated)
    BY <1>4, <1>7, <1>12, <2>2
  <2> QED
    BY <1>8, <2>2, <2>3 DEF TextIsRight
<1> QED
  BY <1>11, <1>12

LEMMA DiffIsRight ==
  ASSUME TypeOK, NEW s \in Diffs, DiffAnswer(s)
  PROVE  TextIsRight(reply')
<1>1. call \in Diffing
  <2>1. call \in CallType
    BY DEF TypeOK
  <2>2. call.at = "diff"
    BY DEF DiffAnswer
  <2> QED
    BY <2>1, <2>2, CallKinds
<1>2. PICK limit \in Nat : limit = call.limit
  BY <1>1, CoreToolsOK DEF Diffing
<1>3. s \in Seq(Bytes) /\ IsText(s)
  BY DiffsAreTexts
<1>4. PICK kept : kept = Cut(s, limit)
  OBVIOUS
<1>5. PICK why, text, truncated, p :
        why = kept.why /\ text = kept.text /\ truncated = kept.truncated /\ p = call.path
  OBVIOUS
<1>6. why # "invalid" /\ CutAtCharacter(s, limit, text, truncated)
  BY <1>3, <1>4, <1>5, CutIsExact
<1>7. PICK r : r = reply'
  OBVIOUS
<1>8. PICK replaced \in BOOLEAN : replaced = (why = "invalid")
  OBVIOUS
<1>9. r = [outcome |-> "diff", of |-> s, limit |-> limit, path |-> p,
           replaced |-> replaced, text |-> text, truncated |-> truncated]
  BY <1>2, <1>4, <1>5, <1>7, <1>8 DEF DiffAnswer, Answer
<1>10. /\ r.outcome = "diff" /\ r.of = s /\ r.limit = limit /\ r.text = text
       /\ r.truncated = truncated /\ r.replaced = replaced
  BY <1>9
<1>11. ~r.replaced /\ CutAtCharacter(r.of, r.limit, r.text, r.truncated)
  BY <1>6, <1>8, <1>10
<1> QED
  BY <1>7, <1>10, <1>11 DEF TextIsRight

\* Every text a tool answers is the longest run of whole characters within its
\* limit, for every text and every limit; only bytes that are no text are refused,
\* and the replacing decoder of git.diff is never reached.
THEOREM TextsAreCut == Spec => []TextsAreCutAtCharacters
<1>1. Init => TextsAreCutAtCharacters
  BY DEF Init, TextsAreCutAtCharacters, NoReply
<1>2. TypeOK /\ TextsAreCutAtCharacters /\ [Next]_vars => TextsAreCutAtCharacters'
  <2> SUFFICES ASSUME TypeOK, TextsAreCutAtCharacters, [Next]_vars
               PROVE  TextsAreCutAtCharacters'
    OBVIOUS
  <2>1. ASSUME reply'.outcome \notin {"read", "not_text", "diff"}
        PROVE  TextsAreCutAtCharacters'
    BY <2>1 DEF TextsAreCutAtCharacters
  <2>2. ASSUME UNCHANGED tree, TextIsRight(reply')
        PROVE  TextsAreCutAtCharacters'
    <3>1. PICK r : r = reply'
      OBVIOUS
    <3>2. Found(r.path)' = Found(r.path)
      BY <2>2, SameTree
    <3> QED
      BY <2>2, <3>1, <3>2 DEF TextsAreCutAtCharacters, TextIsRight
  <2>3. CASE UNCHANGED vars
    <3>1. reply' = reply /\ UNCHANGED tree
      BY <2>3 DEF vars
    <3>2. TextIsRight(reply)
      BY DEF TextsAreCutAtCharacters, TextIsRight
    <3> QED
      BY <2>2, <3>1, <3>2
  <2>4. CASE reply' = NoReply
    BY <2>1, <2>4 DEF NoReply
  <2>5. ASSUME NEW code \in {"invalid", "tool_timeout", "git_failed"},
               Answer(Failure(code))
        PROVE  TextsAreCutAtCharacters'
    BY <2>1, <2>5 DEF Answer, Failure
  <2>6. CASE ReadOpen
    <3>1. UNCHANGED tree
      BY <2>6 DEF ReadOpen, Answer
    <3>2. CASE reply'.outcome = "raised"
      BY <2>1, <3>2
    <3> QED
      BY <2>2, <2>6, <3>1, <3>2, ReadIsRight
  <2>7. CASE call # Idle /\ (ListScan \/ EntryStat \/ ListDone)
    <3>1. reply = NoReply
      BY <2>7 DEF TypeOK
    <3> QED
      BY <2>1, <2>7, <3>1 DEF ListScan, EntryStat, ListDone, Listed, Answer, Goto,
                              Raised, NoReply
  <2>8. ASSUME NEW x, StatusAnswer(x)
        PROVE  TextsAreCutAtCharacters'
    BY <2>1, <2>8 DEF StatusAnswer, Answer
  <2>9. ASSUME NEW s \in Diffs, DiffAnswer(s)
        PROVE  TextsAreCutAtCharacters'
    <3>1. UNCHANGED tree
      BY <2>9 DEF DiffAnswer, Answer
    <3> QED
      BY <2>2, <2>9, <3>1, DiffIsRight
  <2>10. CASE Raise
    BY <2>1, <2>10, RaiseReply
  <2> QED
    BY <2>3, <2>4, <2>5, <2>6, <2>7, <2>8, <2>9, <2>10, Answers
<1> QED
  BY <1>1, <1>2, TypeCorrect, PTL DEF Spec
===============================================================================
