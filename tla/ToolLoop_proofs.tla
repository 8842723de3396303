--------------------------- MODULE ToolLoop_proofs ---------------------------
(***************************************************************************)
(* Proofs about ToolLoop and the plans of ExecutionPlan, for every set of  *)
(* ids, proposals, tools and allowlists and every budget.                  *)
(*                                                                         *)
(* Plans first: a materialised plan is a sequential plan without progress, *)
(* its first planned node is the only executable one, a result for that    *)
(* node moves the progress on by one, and a sequential plan passes the     *)
(* validation of conversation.py at every stage.                           *)
(*                                                                         *)
(* Then the loop.  Most steps only end the request.  The steps that matter *)
(* are ParsePlan (a new plan), CheckPlan (which compares the plan with the *)
(* budget and the window), StartTool and the two that serve a call;        *)
(* ServedStep says once what serving does to the plan, the history and the *)
(* window.                                                                 *)
(*                                                                         *)
(* Last, what the loop leaves behind: every call is started once, and      *)
(* every call in the conversation has its result.  StartedInv ties the     *)
(* history of started calls to the progress of the plan, TurnsInv the      *)
(* turns.                                                                  *)
(***************************************************************************)
EXTENDS ToolLoop, SequenceTheorems, FiniteSetTheorems, WellFoundedInduction,
        TLAPS

(***************************************************************************)
(* Execution plans.                                                        *)
(***************************************************************************)

\* A function on 1..n is a sequence of length n.
LEMMA FunctionIsSeq ==
  ASSUME NEW S, NEW n \in Nat, NEW f \in [1..n -> S]
  PROVE  f \in Seq(S) /\ Len(f) = n /\ DOMAIN f = 1..n
<1>1. f \in Seq(S)
  BY SeqDef
<1>2. DOMAIN f = 1..n /\ DOMAIN f = 1..Len(f) /\ Len(f) \in Nat
  BY <1>1, LenProperties
<1>3. Len(f) = n
  BY <1>2
<1> QED
  BY <1>1, <1>2, <1>3

\* SequentialPlan at a position.
LEMMA AtPosition ==
  ASSUME NEW p \in Seq(Node), SequentialPlan(p), NEW i \in 1..Len(p)
  PROVE  /\ p[i] \in Node
         /\ \A j \in 1..Len(p) : p[i].call.id = p[j].call.id => i = j
         /\ i = 1 => p[i].strategy = {}
         /\ i # 1 => i - 1 \in 1..Len(p) /\ p[i].strategy = {p[i - 1].call.id}
         /\ \A d \in p[i].call.deps :
              \E j \in 1..Len(p) : j < i /\ p[j].call.id = d
         /\ p[i].status = "completed" <=> p[i].result # "none"
<1>1. Len(p) \in Nat /\ DOMAIN p = 1..Len(p) /\ p[i] \in Node
  BY LenProperties, ElementOfSeq
<1>2. i \in DOMAIN p
  BY <1>1
<1>3. ASSUME NEW j \in 1..Len(p), p[i].call.id = p[j].call.id
      PROVE  i = j
  <2>1. j \in DOMAIN p
    BY <1>1
  <2> QED
    BY <1>2, <1>3, <2>1 DEF SequentialPlan
<1>4. /\ p[i].strategy = IF i = 1 THEN {} ELSE {p[i - 1].call.id}
      /\ p[i].status = "completed" <=> p[i].result # "none"
  BY <1>2 DEF SequentialPlan
<1>5. ASSUME NEW d \in p[i].call.deps
      PROVE  \E j \in 1..Len(p) : j < i /\ p[j].call.id = d
  <2>1. PICK j \in 1..(i - 1) : p[j].call.id = d
    BY <1>2 DEF SequentialPlan
  <2>2. j \in 1..Len(p) /\ j < i
    BY <1>1
  <2> QED
    BY <2>1, <2>2
<1>6. i # 1 => i - 1 \in 1..Len(p)
  BY <1>1
<1> QED
  BY <1>1, <1>3, <1>4, <1>5, <1>6

\* Progress splits a plan in a completed and a planned part.
LEMMA ProgressSplits ==
  ASSUME NEW p \in Seq(Node), SequentialPlan(p)
  PROVE  /\ Progress(p) \in 0..Len(p)
         /\ Completed(p) = 1..Progress(p)
         /\ Planned(p) = (Progress(p) + 1)..Len(p)
         /\ Cardinality(Planned(p)) = Len(p) - Progress(p)
<1>1. /\ Len(p) \in Nat /\ DOMAIN p = 1..Len(p)
      /\ \A i \in 1..Len(p) : p[i] \in Node
  BY LenProperties, ElementOfSeq
<1>2. IsFiniteSet(1..Len(p))
  BY <1>1, FS_Interval
<1>3. Completed(p) \subseteq 1..Len(p)
  BY <1>1 DEF Completed
<1>4. Progress(p) \in Nat
  BY <1>2, <1>3, FS_Subset, FS_CardinalityType DEF Progress
<1>5. Completed(p) = 1..Progress(p)
  BY DEF SequentialPlan
<1>6. Progress(p) <= Len(p)
  BY <1>1, <1>3, <1>4, <1>5
<1>7. Planned(p) = (1..Len(p)) \ Completed(p)
  BY <1>1 DEF Planned, Completed, Node
<1>8. Planned(p) = (Progress(p) + 1)..Len(p)
  BY <1>1, <1>4, <1>5, <1>6, <1>7
<1>9. Cardinality(Planned(p)) = Len(p) - Progress(p)
  BY <1>1, <1>4, <1>6, <1>8, FS_Interval
<1> QED
  BY <1>1, <1>4, <1>5, <1>6, <1>8, <1>9

\* The first planned node is executable and no other node is.
LEMMA HeadIsNext ==
  ASSUME NEW p \in Seq(Node), SequentialPlan(p)
  PROVE  NextExecutable(p) =
           IF Progress(p) < Len(p) THEN {Progress(p) + 1} ELSE {}
<1>1. Len(p) \in Nat /\ DOMAIN p = 1..Len(p)
  BY LenProperties
<1>2. PICK k \in 0..Len(p) : k = Progress(p)
  BY ProgressSplits
<1>3. Completed(p) = 1..k /\ Planned(p) = (k + 1)..Len(p)
  BY <1>2, ProgressSplits
<1>4. CompletedIds(p) = {p[i].call.id : i \in 1..k}
  BY <1>3 DEF CompletedIds
<1>5. ASSUME NEW i \in 1..Len(p), IsExecutable(p, i)
      PROVE  i = k + 1
  <2>1. i \in Planned(p)
    BY <1>1, <1>5 DEF IsExecutable, Planned
  <2>2. i \in (k + 1)..Len(p)
    BY <1>3, <2>1
  <2>3. CASE i > k + 1
    <3>1. i # 1 /\ i - 1 \in 1..Len(p) /\ i - 1 > k
      BY <1>1, <1>2, <2>3
    <3>2. p[i].strategy = {p[i - 1].call.id}
      BY <3>1, AtPosition
    <3>3. p[i - 1].call.id \in CompletedIds(p)
      BY <1>5, <3>2 DEF IsExecutable, Dependencies
    <3>4. PICK j \in 1..k : p[j].call.id = p[i - 1].call.id
      BY <1>4, <3>3
    <3>5. j \in 1..Len(p) /\ j # i - 1
      BY <1>1, <1>2, <3>1
    <3> QED
      BY <3>1, <3>4, <3>5, AtPosition
  <2> QED
    BY <1>1, <1>2, <2>2, <2>3
<1>6. ASSUME k < Len(p)
      PROVE  IsExecutable(p, k + 1)
  <2>1. k + 1 \in 1..Len(p) /\ k + 1 \in Planned(p)
    BY <1>1, <1>2, <1>3, <1>6
  <2>2. ASSUME NEW d \in p[k + 1].call.deps
        PROVE  d \in CompletedIds(p)
    <3>1. PICK j \in 1..Len(p) : j < k + 1 /\ p[j].call.id = d
      BY <2>1, AtPosition
    <3>2. j \in 1..k
      BY <1>1, <1>2, <3>1
    <3> QED
      BY <1>4, <3>1, <3>2
  <2>3. p[k + 1].strategy \subseteq CompletedIds(p)
    <3>1. CASE k = 0
      BY <2>1, <3>1, AtPosition
    <3>2. CASE k # 0
      <4>1. k \in 1..k /\ (k + 1) - 1 = k /\ k + 1 # 1
        BY <1>2, <3>2
      <4>2. p[k + 1].strategy = {p[k].call.id}
        BY <2>1, <4>1, AtPosition
      <4> QED
        BY <1>4, <4>1, <4>2
    <3> QED
      BY <3>1, <3>2
  <2> QED
    BY <2>1, <2>2, <2>3 DEF IsExecutable, Dependencies, Planned
<1>7. CASE k < Len(p)
  <2>1. k + 1 \in 1..Len(p)
    BY <1>1, <1>2, <1>7
  <2>2. ASSUME NEW j \in 1..((k + 1) - 1)
        PROVE  ~IsExecutable(p, j)
    <3>1. j \in 1..Len(p) /\ j # k + 1
      BY <1>1, <1>2
    <3> QED
      BY <1>5, <3>1
  <2>3. k + 1 \in NextExecutable(p)
    BY <1>1, <1>6, <1>7, <2>1, <2>2 DEF NextExecutable
  <2>4. \A i \in NextExecutable(p) : i = k + 1
    BY <1>1, <1>5 DEF NextExecutable
  <2> QED
    BY <1>2, <1>7, <2>3, <2>4
<1>8. CASE ~(k < Len(p))
  <2>1. ASSUME NEW i \in NextExecutable(p) PROVE FALSE
    <3>1. i \in 1..Len(p) /\ i = k + 1
      BY <1>1, <1>5 DEF NextExecutable
    <3> QED
      BY <1>1, <1>2, <1>8, <3>1
  <2> QED
    BY <1>2, <1>8, <2>1
<1> QED
  BY <1>7, <1>8

\* A result for the first planned node completes that node and no other.
LEMMA ResultMovesOn ==
  ASSUME NEW p \in Seq(Node), SequentialPlan(p),
         Progress(p) < Len(p), NEW r \in Results
  PROVE  LET q == ApplyResult(p, p[Progress(p) + 1].call.id, r)
         IN  /\ q \in Seq(Node)
             /\ Len(q) = Len(p)
             /\ \A i \in 1..Len(p) : q[i].call = p[i].call
             /\ SequentialPlan(q)
             /\ Progress(q) = Progress(p) + 1
<1>1. /\ Len(p) \in Nat /\ DOMAIN p = 1..Len(p)
      /\ \A i \in 1..Len(p) : p[i] \in Node
  BY LenProperties, ElementOfSeq
<1>2. /\ Progress(p) \in 0..Len(p) /\ Completed(p) = 1..Progress(p)
      /\ Planned(p) = (Progress(p) + 1)..Len(p)
  BY ProgressSplits
<1>3. PICK k \in 1..Len(p) : k = Progress(p) + 1
  BY <1>1, <1>2
<1>4. p[k].status = "planned" /\ p[k].result = "none"
  <2>1. k \in Planned(p)
    BY <1>1, <1>2, <1>3
  <2>2. p[k].status = "planned"
    BY <2>1 DEF Planned
  <2> QED
    BY <2>2, AtPosition DEF Node
<1>5. PICK q : q = ApplyResult(p, p[k].call.id, r)
  OBVIOUS
<1>6. q = [i \in 1..Len(p) |->
             IF i = k THEN [p[i] EXCEPT !.result = r, !.status = "completed"]
                      ELSE p[i]]
  <2>1. \A i \in 1..Len(p) :
          (p[i].call.id = p[k].call.id /\ p[i].result = "none") <=> i = k
    BY <1>4, AtPosition
  <2> QED
    BY <1>1, <1>5, <2>1 DEF ApplyResult
<1>7. \A i \in 1..Len(p) :
        /\ q[i] \in Node
        /\ q[i].call = p[i].call
        /\ q[i].strategy = p[i].strategy
        /\ i # k => q[i] = p[i]
        /\ i = k => q[i].status = "completed" /\ q[i].result = r
  BY <1>1, <1>6 DEF Node
<1>8. q \in Seq(Node) /\ Len(q) = Len(p) /\ DOMAIN q = 1..Len(p)
  <2>1. q \in [1..Len(p) -> Node]
    BY <1>6, <1>7
  <2> QED
    BY <1>1, <2>1, FunctionIsSeq
<1>9. Completed(q) = 1..k
  <2>1. \A i \in 1..Len(p) : p[i].status = "completed" <=> i < k
    BY <1>1, <1>2, <1>3 DEF Completed
  <2>2. \A i \in 1..Len(p) : q[i].status = "completed" <=> i <= k
    BY <1>1, <1>7, <2>1
  <2> QED
    BY <1>1, <1>8, <2>2 DEF Completed
<1>10. Progress(q) = k
  BY <1>9, FS_Interval DEF Progress
<1>11. \A i \in 1..Len(p) : q[i].status = "completed" <=> q[i].result # "none"
  <2> SUFFICES ASSUME NEW i \in 1..Len(p)
               PROVE  q[i].status = "completed" <=> q[i].result # "none"
    OBVIOUS
  <2>1. CASE i = k
    BY <1>7, <2>1 DEF Results
  <2>2. CASE i # k
    BY <1>7, <2>2, AtPosition
  <2> QED
    BY <2>1, <2>2
<1>12. SequentialPlan(q)
  <2>1. \A i, j \in 1..Len(p) : q[i].call.id = q[j].call.id => i = j
    BY <1>7, AtPosition
  <2>2. ASSUME NEW i \in 1..Len(p)
        PROVE  q[i].strategy = IF i = 1 THEN {} ELSE {q[i - 1].call.id}
    <3>1. CASE i = 1
      BY <1>7, <3>1, AtPosition
    <3>2. CASE i # 1
      <4>1. i - 1 \in 1..Len(p) /\ p[i].strategy = {p[i - 1].call.id}
        BY <3>2, AtPosition
      <4>2. q[i - 1].call = p[i - 1].call /\ q[i].strategy = p[i].strategy
        BY <1>7, <4>1
      <4> QED
        BY <3>2, <4>1, <4>2
    <3> QED
      BY <3>1, <3>2
  <2>3. ASSUME NEW i \in 1..Len(p), NEW d \in q[i].call.deps
        PROVE  \E j \in 1..(i - 1) : q[j].call.id = d
    <3>1. d \in p[i].call.deps
      BY <1>7
    <3>2. PICK j \in 1..Len(p) : j < i /\ p[j].call.id = d
      BY <3>1, AtPosition
    <3>3. j \in 1..(i - 1) /\ q[j].call = p[j].call
      BY <1>1, <1>7, <3>2
    <3> QED
      BY <3>2, <3>3
  <2> QED
    BY <1>8, <1>9, <1>10, <1>11, <2>1, <2>2, <2>3, Zenon DEF SequentialPlan
<1> QED
  BY <1>3, <1>5, <1>7, <1>8, <1>10, <1>12

\* A plan is materialised without progress and in the order of its calls.
LEMMA MaterializedPlan ==
  ASSUME NEW calls \in Seq(Call), ~DuplicateId(calls), DeclaredInOrder(calls)
  PROVE  LET p == Materialize(calls)
         IN  /\ p \in Seq(Node)
             /\ Len(p) = Len(calls)
             /\ \A i \in 1..Len(calls) : p[i].call = calls[i]
             /\ SequentialPlan(p)
             /\ Progress(p) = 0
<1>1. /\ Len(calls) \in Nat /\ DOMAIN calls = 1..Len(calls)
      /\ \A i \in 1..Len(calls) : calls[i] \in Call
  BY LenProperties, ElementOfSeq
<1>2. PICK p : p = Materialize(calls)
  OBVIOUS
<1>3. \A i \in 1..Len(calls) :
        /\ p[i].call = calls[i]
        /\ p[i].strategy = IF i = 1 THEN {} ELSE {calls[i - 1].id}
        /\ p[i].status = "planned"
        /\ p[i].result = "none"
  BY <1>1, <1>2 DEF Materialize
<1>4. p \in [1..Len(calls) -> Node]
  <2>1. ASSUME NEW i \in 1..Len(calls)
        PROVE  [call |-> calls[i],
                strategy |-> IF i = 1 THEN {} ELSE {calls[i - 1].id},
                status |-> "planned", result |-> "none"] \in Node
    <3>1. (IF i = 1 THEN {} ELSE {calls[i - 1].id}) \in SUBSET Ids
      BY <1>1 DEF Call
    <3> QED
      BY <1>1, <3>1 DEF Node
  <2> QED
    BY <1>1, <1>2, <2>1 DEF Materialize
<1>5. p \in Seq(Node) /\ Len(p) = Len(calls) /\ DOMAIN p = 1..Len(calls)
  BY <1>1, <1>4, FunctionIsSeq
<1>6. Completed(p) = {}
  BY <1>3, <1>5 DEF Completed
<1>7. Progress(p) = 0 /\ Completed(p) = 1..Progress(p)
  BY <1>6, FS_EmptySet DEF Progress
<1>8. SequentialPlan(p)
  <2>1. \A i, j \in 1..Len(calls) : p[i].call.id = p[j].call.id => i = j
    <3> SUFFICES ASSUME NEW i \in 1..Len(calls), NEW j \in 1..Len(calls),
                        p[i].call.id = p[j].call.id
                 PROVE  i = j
      OBVIOUS
    <3>1. i \in DOMAIN calls /\ j \in DOMAIN calls
      BY <1>1
    <3>2. calls[i].id = calls[j].id
      BY <1>3
    <3> QED
      BY <3>1, <3>2 DEF DuplicateId
  <2>2. \A i \in 1..Len(calls) :
          p[i].strategy = IF i = 1 THEN {} ELSE {p[i - 1].call.id}
    <3> SUFFICES ASSUME NEW i \in 1..Len(calls), i # 1
                 PROVE  p[i].strategy = {p[i - 1].call.id}
      BY <1>3
    <3>1. PICK j \in 1..Len(calls) : j = i - 1
      BY <1>1
    <3>2. p[j].call = calls[j] /\ p[i].strategy = {calls[j].id}
      BY <1>3, <3>1
    <3> QED
      BY <3>1, <3>2
  <2>3. ASSUME NEW i \in 1..Len(calls), NEW d \in p[i].call.deps
        PROVE  \E j \in 1..(i - 1) : p[j].call.id = d
    <3>0. i \in DOMAIN calls /\ d \in calls[i].deps
      BY <1>1, <1>3
    <3>1. PICK j \in 1..(i - 1) : calls[j].id = d
      BY <3>0 DEF DeclaredInOrder
    <3>2. j \in 1..Len(calls)
      BY <1>1
    <3> QED
      BY <1>3, <3>1, <3>2
  <2>4. \A i \in 1..Len(calls) : p[i].status = "completed" <=> p[i].result # "none"
    BY <1>3
  <2> QED
    BY <1>5, <1>7, <2>1, <2>2, <2>3, <2>4 DEF SequentialPlan
<1> QED
  BY <1>2, <1>3, <1>5, <1>7, <1>8

\* A sequential plan passes validate_execution_plan: every plan that
\* materialize_execution_plan_from_declared_plan_spec builds, and every stage
\* of its execution.
THEOREM SequentialIsValid ==
  ASSUME NEW p \in Seq(Node), SequentialPlan(p)
  PROVE  ValidPlan(p)
<1>1. /\ Len(p) \in Nat /\ DOMAIN p = 1..Len(p)
      /\ \A i \in 1..Len(p) : p[i] \in Node
  BY LenProperties, ElementOfSeq
\* Dependencies point backwards.
<1>2. ASSUME NEW i \in 1..Len(p), NEW d \in Dependencies(p[i])
      PROVE  \E j \in 1..Len(p) : j < i /\ p[j].call.id = d
  <2>1. CASE d \in p[i].call.deps
    BY <2>1, AtPosition
  <2>2. CASE d \in p[i].strategy
    <3>1. i # 1
      BY <2>2, AtPosition
    <3>2. i - 1 \in 1..Len(p) /\ d = p[i - 1].call.id
      BY <2>2, <3>1, AtPosition
    <3>3. i - 1 < i
      BY <1>1
    <3> QED
      BY <3>2, <3>3
  <2> QED
    BY <1>2, <2>1, <2>2 DEF Dependencies
<1>3. ASSUME NEW i \in 1..Len(p), NEW j \in 1..Len(p), i <= j
      PROVE  p[j].call.id \notin Dependencies(p[i])
  <2> SUFFICES ASSUME p[j].call.id \in Dependencies(p[i]) PROVE FALSE
    OBVIOUS
  <2>1. PICK m \in 1..Len(p) : m < i /\ p[m].call.id = p[j].call.id
    BY <1>2
  <2>2. m = j
    BY <2>1, AtPosition
  <2> QED
    BY <1>1, <1>3, <2>1, <2>2
<1>4. ASSUME NEW S \in (SUBSET DOMAIN p) \ {{}}
      PROVE  \E i \in S : \A j \in S : p[j].call.id \notin Dependencies(p[i])
  <2>1. S \subseteq Nat /\ S # {}
    BY <1>1
  <2>2. PICK i \in S : \A j \in S : ~(<<j, i>> \in OpToRel(<, Nat))
    BY <2>1, WFMin, NatLessThanWellFounded
  <2>3. \A j \in S : ~(j < i)
    BY <2>1, <2>2 DEF OpToRel
  <2>4. \A j \in S : i <= j
    BY <2>1, <2>3
  <2> QED
    BY <1>1, <1>3, <2>4
<1>5. \A i \in 1..Len(p) :
        Dependencies(p[i]) \subseteq {p[j].call.id : j \in 1..Len(p)}
  BY <1>2
<1>6. \A i \in 1..Len(p) : p[i].call.id \notin Dependencies(p[i])
  BY <1>1, <1>3
<1>7. \A i \in 1..Len(p) : p[i].status = "completed" <=> p[i].result # "none"
  BY AtPosition
<1>8. \A i, j \in 1..Len(p) : p[i].call.id = p[j].call.id => i = j
  BY AtPosition
<1> QED
  BY <1>1, <1>4, <1>5, <1>6, <1>7, <1>8, Zenon DEF ValidPlan

(***************************************************************************)
(* Type correctness.                                                       *)
(***************************************************************************)

\* s[-n:] has at most n elements, the last ones of s in their order.
LEMMA LastNProperties ==
  ASSUME NEW S, NEW s \in Seq(S), NEW n \in Nat
  PROVE  /\ LastN(s, n) \in Seq(S)
         /\ Len(LastN(s, n)) = IF Len(s) <= n THEN Len(s) ELSE n
         /\ \A i \in 1..Len(LastN(s, n)) :
              LastN(s, n)[i] = s[Len(s) - Len(LastN(s, n)) + i]
<1>1. Len(s) \in Nat /\ \A i \in 1..Len(s) : s[i] \in S
  BY LenProperties, ElementOfSeq
<1>2. CASE Len(s) <= n
  <2>1. LastN(s, n) = s
    BY <1>2 DEF LastN
  <2>2. \A i \in 1..Len(s) : Len(s) - Len(s) + i = i
    BY <1>1
  <2> QED
    BY <1>2, <2>1, <2>2
<1>3. CASE ~(Len(s) <= n)
  <2>0. Len(s) - n + 1 \in 1..(Len(s) + 1)
    BY <1>1, <1>3
  <2>1. PICK m \in 1..(Len(s) + 1) : m = Len(s) - n + 1
    BY <2>0, Zenon
  <2>2. LastN(s, n) = SubSeq(s, m, Len(s))
    BY <1>3, <2>1 DEF LastN
  <2>3. \A i \in m..Len(s) : s[i] \in S
    BY <1>1, <2>1
  <2>4. /\ SubSeq(s, m, Len(s)) \in Seq(S)
        /\ Len(SubSeq(s, m, Len(s))) = Len(s) - m + 1
        /\ \A i \in 1..(Len(s) - m + 1) : SubSeq(s, m, Len(s))[i] = s[m + i - 1]
    BY <1>1, <2>1, <2>3, SubSeqProperties
  <2>5. Len(s) - m + 1 = n /\ \A i \in 1..n : m + i - 1 = Len(s) - n + i
    BY <1>1, <2>1
  <2> QED
    BY <1>3, <2>2, <2>4, <2>5
<1> QED
  BY <1>2, <1>3

LEMMA AppliedType ==
  ASSUME NEW p \in Seq(Node), NEW id, NEW r \in Results
  PROVE  ApplyResult(p, id, r) \in Seq(Node)
<1>1. /\ Len(p) \in Nat /\ DOMAIN p = 1..Len(p)
      /\ \A i \in 1..Len(p) : p[i] \in Node
  BY LenProperties, ElementOfSeq
<1>2. ApplyResult(p, id, r) \in [1..Len(p) -> Node]
  BY <1>1 DEF ApplyResult, Node
<1> QED
  BY <1>1, <1>2, FunctionIsSeq

LEMMA CallTurnsType ==
  ASSUME NEW calls \in Seq(Call)
  PROVE  CallTurns(calls) \in Seq(Turn)
<1>1. /\ Len(calls) \in Nat /\ DOMAIN calls = 1..Len(calls)
      /\ \A i \in 1..Len(calls) : calls[i] \in Call
  BY LenProperties, ElementOfSeq
<1>2. CallTurns(calls) \in [1..Len(calls) -> Turn]
  BY <1>1 DEF CallTurns, Turn
<1> QED
  BY <1>1, <1>2, FunctionIsSeq

\* The elements of a concatenation, by their place in its parts.
LEMMA ConcatAt ==
  ASSUME NEW S, NEW s \in Seq(S), NEW t \in Seq(S)
  PROVE  /\ s \o t \in Seq(S) /\ Len(s \o t) = Len(s) + Len(t)
         /\ \A i \in 1..Len(s) : (s \o t)[i] = s[i]
         /\ \A k \in 1..Len(t) : (s \o t)[Len(s) + k] = t[k]
<1>1. Len(s) \in Nat /\ Len(t) \in Nat
  BY LenProperties
<1>2. s \o t \in Seq(S) /\ Len(s \o t) = Len(s) + Len(t)
  BY ConcatProperties
<1>3. ASSUME NEW i \in 1..Len(s)
      PROVE  (s \o t)[i] = s[i]
  <2>1. i \in 1..(Len(s) + Len(t)) /\ i <= Len(s)
    BY <1>1
  <2> QED
    BY <2>1, ConcatProperties
<1>4. ASSUME NEW k \in 1..Len(t)
      PROVE  (s \o t)[Len(s) + k] = t[k]
  <2>1. /\ Len(s) + k \in 1..(Len(s) + Len(t))
        /\ ~(Len(s) + k <= Len(s)) /\ Len(s) + k - Len(s) = k
    BY <1>1
  <2> QED
    BY <2>1, ConcatProperties
<1> QED
  BY <1>2, <1>3, <1>4

\* Where the turns of a new answer lie.
LEMMA ParsedTurns ==
  ASSUME NEW ts \in Seq(Turn), NEW calls \in Seq(Call)
  PROVE  LET us == (ts \o <<AssistantTurn("tool_plan")>>) \o CallTurns(calls)
         IN  /\ us \in Seq(Turn) /\ Len(us) = (Len(ts) + 1) + Len(calls)
             /\ \A i \in 1..Len(ts) : us[i] = ts[i]
             /\ us[Len(ts) + 1] = AssistantTurn("tool_plan")
             /\ \A k \in 1..Len(calls) :
                  us[(Len(ts) + 1) + k] = CallTurn(calls[k])
<1>1. PICK n \in Nat : n = Len(calls) /\ DOMAIN calls = 1..n
  BY LenProperties
<1>2. PICK l \in Nat : l = Len(ts)
  BY LenProperties
<1>3. PICK head : head = ts \o <<AssistantTurn("tool_plan")>>
  OBVIOUS
<1>4. /\ head \in Seq(Turn) /\ Len(head) = l + 1
      /\ \A i \in 1..l : head[i] = ts[i]
      /\ head[l + 1] = AssistantTurn("tool_plan")
  <2>1. <<AssistantTurn("tool_plan")>> \in Seq(Turn)
    BY DEF Turn, Phases
  <2>2. /\ Len(<<AssistantTurn("tool_plan")>>) = 1
        /\ <<AssistantTurn("tool_plan")>>[1] = AssistantTurn("tool_plan")
    OBVIOUS
  <2> QED
    BY <1>2, <1>3, <2>1, <2>2, ConcatProperties
<1>5. PICK tail : tail = CallTurns(calls)
  OBVIOUS
<1>6. /\ tail \in Seq(Turn) /\ Len(tail) = n
      /\ \A k \in 1..n : tail[k] = CallTurn(calls[k])
  <2>1. tail \in Seq(Turn)
    BY <1>5, CallTurnsType
  <2>2. DOMAIN tail = 1..n
    BY <1>1, <1>5 DEF CallTurns
  <2>3. Len(tail) = n
    BY <1>1, <2>1, <2>2, LenProperties
  <2> QED
    BY <1>1, <1>5, <2>1, <2>3 DEF CallTurns
<1>7. PICK us : us = head \o tail
  OBVIOUS
<1>8. /\ head \o tail \in Seq(Turn) /\ Len(head \o tail) = Len(head) + Len(tail)
      /\ \A i \in 1..Len(head) : (head \o tail)[i] = head[i]
      /\ \A k \in 1..Len(tail) : (head \o tail)[Len(head) + k] = tail[k]
  <2>1. head \in Seq(Turn) /\ tail \in Seq(Turn)
    BY <1>4, <1>6
  <2> QED
    BY <2>1, ConcatAt
<1>9. /\ us \in Seq(Turn) /\ Len(us) = (l + 1) + n
      /\ \A i \in 1..(l + 1) : us[i] = head[i]
      /\ \A k \in 1..n : us[(l + 1) + k] = tail[k]
  BY <1>4, <1>6, <1>7, <1>8, Zenon
<1>10. (\A i \in 1..l : i \in 1..(l + 1)) /\ l + 1 \in 1..(l + 1)
  OBVIOUS
<1>11. /\ \A i \in 1..l : us[i] = ts[i]
       /\ us[l + 1] = AssistantTurn("tool_plan")
       /\ \A k \in 1..n : us[(l + 1) + k] = CallTurn(calls[k])
  BY <1>4, <1>6, <1>9, <1>10, Zenon
<1> QED
  BY <1>1, <1>2, <1>3, <1>5, <1>7, <1>9, <1>11, Zenon

LEMMA SignatureType ==
  ASSUME NEW c \in Call
  PROVE  Signature(c) \in Tools \X Arguments
BY DEF Call, Signature

LEMMA PlanCallType ==
  ASSUME NEW p \in Seq(Node), NEW i \in DOMAIN p
  PROVE  p[i].call \in Call
<1>1. p[i] \in Node
  BY LenProperties, ElementOfSeq
<1> QED
  BY <1>1 DEF Node

LEMMA TypeInit == Init => TypeOK
<1> SUFFICES ASSUME Init PROVE TypeOK
  OBVIOUS
<1>1. <<>> \in Seq(Node) /\ <<>> \in Seq(Tools \X Arguments) /\ <<>> \in Seq(Event)
  BY EmptySeq
<1> QED
  BY <1>1, LoopConstantsOK DEF Init, TypeOK, Places, Outcomes

LEMMA TypeEnd ==
  ASSUME TypeOK, NEW o \in Outcomes, End(o),
         UNCHANGED <<allowed, turns, plan, Bookkeeping>>
  PROVE  TypeOK'
BY DEF TypeOK, End, Bookkeeping, Places

LEMMA TypeServe ==
  ASSUME TypeOK, NEW c \in Call, NEW r \in Results, Serve(c, r),
         UNCHANGED started
  PROVE  TypeOK'
<1>1. ResultTurn(c.id, r) \in Turn
  BY DEF ResultTurn, Turn, Call
<1>2. turns' \in Seq(Turn)
  BY <1>1, AppendProperties DEF TypeOK, Serve
<1>3. plan' \in Seq(Node)
  BY AppliedType DEF TypeOK, Serve
<1>4. RepeatWindow - 1 \in Nat
  BY LoopConstantsOK
<1>5. recent' \in Seq(Tools \X Arguments)
  BY <1>4, LastNProperties, SignatureType, AppendProperties DEF TypeOK, Serve
<1>6. [step |-> steps, call |-> c] \in Event
  BY DEF TypeOK, Event
<1>7. served' \in Seq(Event)
  BY <1>6, AppendProperties DEF TypeOK, Serve
<1> QED
  BY <1>2, <1>3, <1>5, <1>7 DEF TypeOK, Serve, Places

LEMMA TypeStep ==
  ASSUME TypeOK, [Next]_vars
  PROVE  TypeOK'
<1>0. {"answer", "provider_error", "invalid_messages",
       "invalid_model_tool_call", "max_tool_steps_exceeded",
       "tool_loop_repeated_call_detected", "tool_not_allowed",
       "tool_not_found", "tool_timeout", "tool_execution_failed"} \subseteq Outcomes
  BY DEF Outcomes
<1>1. CASE UNCHANGED vars
  BY <1>1 DEF vars, TypeOK
<1>2. CASE ProviderFails \/ MalformedCall
  BY <1>0, <1>2, TypeEnd DEF ProviderFails, MalformedCall
<1>3. CASE FinalAnswer
  <2>1. <<AssistantTurn("finalization"), FinalTurn>> \in Seq(Turn)
    BY DEF Turn, Phases
  <2>2. turns' \in Seq(Turn)
    BY <1>3, <2>1, ConcatProperties DEF FinalAnswer, TypeOK
  <2>3. plan' \in Seq(Node)
    BY <1>3, EmptySeq DEF FinalAnswer
  <2> QED
    BY <1>0, <1>3, <2>2, <2>3 DEF FinalAnswer, End, TypeOK, Places
<1>4. ASSUME NEW calls \in Proposals,
             DuplicateCallId(calls) \/ UnknownDependency(calls)
      PROVE  TypeOK'
  BY <1>0, <1>4, TypeEnd DEF DuplicateCallId, UnknownDependency
<1>5. ASSUME NEW calls \in Proposals, ParsePlan(calls)
      PROVE  TypeOK'
  <2>1. calls \in Seq(Call)
    BY LoopConstantsOK
  <2>2. <<AssistantTurn("tool_plan")>> \in Seq(Turn)
    BY DEF Turn, Phases
  <2>3. turns' \in Seq(Turn)
    BY <1>5, <2>1, <2>2, CallTurnsType, ConcatProperties DEF ParsePlan, TypeOK
  <2>4. plan' \in Seq(Node)
    BY <1>5, <2>1, MaterializedPlan DEF ParsePlan
  <2> QED
    BY <1>5, <2>3, <2>4 DEF ParsePlan, TypeOK, Places
<1>6. CASE CheckPlan
  <2>1. CASE UNCHANGED outcome
    BY <1>6, <2>1 DEF CheckPlan, TypeOK, Bookkeeping, End, Places
  <2>2. CASE \E o \in Outcomes : End(o)
    BY <1>6, <2>2, TypeEnd DEF CheckPlan
  <2> QED
    BY <1>0, <1>6, <2>1, <2>2 DEF CheckPlan
<1>7. ASSUME NEW c \in {plan[i].call : i \in DOMAIN plan},
             NotPermitted(c) \/ ToolNotFound(c) \/ PolicyDenies(c)
      PROVE  TypeOK'
  BY <1>0, <1>7, TypeEnd DEF NotPermitted, ToolNotFound, PolicyDenies
<1>8. ASSUME NEW c \in {plan[i].call : i \in DOMAIN plan}
      PROVE  c \in Call
  BY <1>8, PlanCallType DEF TypeOK
<1>9. ASSUME NEW c \in {plan[i].call : i \in DOMAIN plan}, StartTool(c)
      PROVE  TypeOK'
  <2>1. [step |-> steps, call |-> c] \in Event
    BY <1>8 DEF TypeOK, Event
  <2>2. started' \in Seq(Event)
    BY <1>9, <2>1, AppendProperties DEF StartTool, TypeOK
  <2> QED
    BY <1>9, <2>2 DEF StartTool, TypeOK, Places
<1>10. ASSUME NEW c \in {plan[i].call : i \in DOMAIN plan},
              InvalidArguments(c) \/ \E r \in Results : ToolReturns(c, r)
       PROVE  TypeOK'
  <2>1. PICK r \in Results : Serve(c, r) /\ UNCHANGED started
    BY <1>10 DEF InvalidArguments, ToolReturns, Results
  <2> QED
    BY <1>8, <2>1, TypeServe
<1>11. CASE ToolTimesOut \/ ToolRaises
  BY <1>0, <1>11, TypeEnd DEF ToolTimesOut, ToolRaises
<1>12. CASE FinishPlan
  <2>1. CASE UNCHANGED outcome
    BY <1>12, <2>1 DEF FinishPlan, TypeOK, Bookkeeping, End, Places
  <2>2. CASE \E o \in Outcomes : End(o)
    BY <1>12, <2>2, TypeEnd DEF FinishPlan
  <2> QED
    BY <1>0, <1>12, <2>1, <2>2 DEF FinishPlan
<1> QED
  BY <1>1, <1>2, <1>3, <1>4, <1>5, <1>6, <1>7, <1>9, <1>10, <1>11, <1>12
  DEF Next, Generate, RunCall

\* The loop's state keeps its types, whatever the model asks for.
THEOREM TypeCorrect == Spec => []TypeOK
<1>1. Init => TypeOK
  BY TypeInit
<1>2. TypeOK /\ [Next]_vars => TypeOK'
  BY TypeStep
<1> QED
  BY <1>1, <1>2, PTL DEF Spec

(***************************************************************************)
(* The inductive invariant.                                                *)
(***************************************************************************)

LEMMA PlanFacts ==
  ASSUME TypeOK, SequentialPlan(plan)
  PROVE  /\ Len(plan) \in Nat /\ DOMAIN plan = 1..Len(plan)
         /\ Progress(plan) \in 0..Len(plan)
         /\ Completed(plan) = 1..Progress(plan)
         /\ Planned(plan) = (Progress(plan) + 1)..Len(plan)
         /\ Cardinality(Planned(plan)) = Len(plan) - Progress(plan)
         /\ Cardinality(Completed(plan)) = Progress(plan)
         /\ NextExecutable(plan) =
              IF Progress(plan) < Len(plan) THEN {Progress(plan) + 1} ELSE {}
         /\ Planned(plan) = {} <=> Progress(plan) = Len(plan)
         /\ CanMakeProgress(plan)
<1>1. Len(plan) \in Nat /\ DOMAIN plan = 1..Len(plan)
  BY LenProperties DEF TypeOK
<1>2. /\ Progress(plan) \in 0..Len(plan)
      /\ Completed(plan) = 1..Progress(plan)
      /\ Planned(plan) = (Progress(plan) + 1)..Len(plan)
      /\ Cardinality(Planned(plan)) = Len(plan) - Progress(plan)
  BY ProgressSplits DEF TypeOK
<1>3. NextExecutable(plan) =
        IF Progress(plan) < Len(plan) THEN {Progress(plan) + 1} ELSE {}
  BY HeadIsNext DEF TypeOK
<1>4. Planned(plan) = {} <=> Progress(plan) = Len(plan)
  <2>1. CASE Progress(plan) = Len(plan)
    BY <1>1, <1>2, <2>1
  <2>2. CASE Progress(plan) # Len(plan)
    <3>1. Len(plan) \in (Progress(plan) + 1)..Len(plan)
      BY <1>1, <1>2, <2>2
    <3> QED
      BY <1>2, <2>2, <3>1, Zenon
  <2> QED
    BY <2>1, <2>2
<1>5. CanMakeProgress(plan)
  <2>1. CASE Progress(plan) < Len(plan)
    BY <1>3, <2>1 DEF CanMakeProgress
  <2>2. CASE ~(Progress(plan) < Len(plan))
    <3>1. Progress(plan) = Len(plan)
      BY <1>1, <1>2, <2>2
    <3> QED
      BY <1>4, <3>1 DEF CanMakeProgress
  <2> QED
    BY <2>1, <2>2
<1> QED
  BY <1>1, <1>2, <1>3, <1>4, <1>5 DEF Progress

\* The next call is the call of the first planned node.
LEMMA NextCallFacts ==
  ASSUME TypeOK, SequentialPlan(plan), NEW c, NextCall(c)
  PROVE  /\ Progress(plan) + 1 \in 1..Len(plan)
         /\ c = plan[Progress(plan) + 1].call
         /\ c \in Call
         /\ Planned(plan) # {}
<1>1. PICK i \in NextExecutable(plan) : plan[i].call = c
  BY DEF NextCall
<1>2. i = Progress(plan) + 1 /\ Progress(plan) < Len(plan)
  BY <1>1, PlanFacts
<1>3. Progress(plan) + 1 \in 1..Len(plan)
  BY <1>2, PlanFacts
<1> QED
  BY <1>1, <1>2, <1>3, PlanFacts, PlanCallType DEF TypeOK

LEMMA InitIInv == Init => IInv
<1> SUFFICES ASSUME Init PROVE IInv
  OBVIOUS
<1>1. TypeOK
  BY TypeInit
<1>2. plan = <<>> /\ served = <<>> /\ started = <<>> /\ recent = <<>>
  BY DEF Init
<1>3. DOMAIN plan = {} /\ DOMAIN served = {} /\ DOMAIN started = {} /\ DOMAIN recent = {}
  BY <1>2
<1>4. /\ Len(plan) = 0 /\ Len(served) = 0 /\ Len(started) = 0 /\ Len(recent) = 0
  BY <1>2
<1>5. Completed(plan) = {} /\ Planned(plan) = {}
  BY <1>3 DEF Completed, Planned
<1>6. Progress(plan) = 0
  BY <1>5, FS_EmptySet DEF Progress
<1>7. SequentialPlan(plan)
  BY <1>3, <1>5, <1>6 DEF SequentialPlan
<1>8. LoopInv
  BY <1>4, <1>5, <1>6, LoopConstantsOK DEF LoopInv, Init
<1>9. HistoryInv
  BY <1>4, <1>6 DEF HistoryInv
<1>10. WindowInv
  BY <1>3, <1>4, LoopConstantsOK DEF WindowInv, Init
<1> QED
  BY <1>1, <1>3, <1>7, <1>8, <1>9, <1>10
  DEF IInv, NoRepeatInWindow, DependenciesFirst

\* A step that only ends the request keeps the invariant.
LEMMA EndStep ==
  ASSUME IInv, TypeOK', NEW o, End(o), o # "none", at # "done",
         UNCHANGED <<allowed, turns, plan, Bookkeeping>>,
         o \in {"max_tool_steps_exceeded", "tool_loop_repeated_call_detected"}
           => Progress(plan) = 0,
         o \in {"invalid_model_tool_call", "invalid_messages"}
           => Planned(plan) = {}
  PROVE  IInv'
<1>1. /\ UNCHANGED <<plan, steps, toolSteps, recent, started, served>>
      /\ at' = "done" /\ outcome' = o
  BY DEF End, Bookkeeping
<1>2. TypeOK /\ SequentialPlan(plan) /\ LoopInv /\ HistoryInv /\ WindowInv
  BY DEF IInv
<1>3. SequentialPlan(plan)'
  BY <1>1, <1>2
<1>4. LoopInv'
  <2>1. Len(started) <= MaxToolSteps
    <3>1. Len(started) \in Nat /\ toolSteps \in Nat /\ MaxToolSteps \in Nat
      BY <1>2, LenProperties, LoopConstantsOK DEF TypeOK
    <3>2. CASE at = "execute"
      <4>1. Cardinality(Planned(plan)) \in Nat \ {0}
        BY <1>2, <3>2, PlanFacts DEF LoopInv
      <4> QED
        BY <1>2, <3>1, <3>2, <4>1 DEF LoopInv
    <3>3. CASE at # "execute"
      BY <1>2, <3>1, <3>3 DEF LoopInv
    <3> QED
      BY <3>2, <3>3
  <2> QED
    BY <1>1, <1>2, <2>1 DEF LoopInv
<1>5. HistoryInv'
  BY <1>1, <1>2 DEF HistoryInv
<1>6. WindowInv'
  BY <1>1, <1>2 DEF WindowInv
<1>7. NoRepeatInWindow' /\ DependenciesFirst'
  BY <1>1 DEF IInv, NoRepeatInWindow, DependenciesFirst
<1> QED
  BY <1>3, <1>4, <1>5, <1>6, <1>7 DEF IInv

LEMMA FinalAnswerStep ==
  ASSUME IInv, TypeOK', FinalAnswer
  PROVE  IInv'
<1>1. TypeOK /\ SequentialPlan(plan) /\ LoopInv /\ HistoryInv /\ WindowInv
  BY DEF IInv
<1>2. /\ at = "generate" /\ at' = "done" /\ outcome' = "answer" /\ plan' = <<>>
      /\ UNCHANGED <<toolSteps, recent, started, served>>
  BY DEF FinalAnswer, End
<1>3. DOMAIN plan' = {} /\ Len(plan') = 0
  BY <1>2
<1>4. Completed(plan') = {} /\ Planned(plan') = {}
  BY <1>3 DEF Completed, Planned
<1>5. Progress(plan') = 0
  BY <1>4, FS_EmptySet DEF Progress
<1>6. SequentialPlan(plan')
  BY <1>3, <1>4, <1>5 DEF SequentialPlan
<1>7. Len(started) \in Nat /\ Len(served) \in Nat /\ toolSteps \in Nat /\ MaxToolSteps \in Nat
  BY <1>1, LenProperties, LoopConstantsOK DEF TypeOK
<1>8. LoopInv'
  BY <1>1, <1>2, <1>4, <1>5, <1>7 DEF LoopInv
<1>9. HistoryInv'
  BY <1>2, <1>5, <1>7 DEF HistoryInv
<1>10. WindowInv'
  BY <1>1, <1>2 DEF WindowInv
<1>11. NoRepeatInWindow' /\ DependenciesFirst'
  BY <1>2 DEF IInv, NoRepeatInWindow, DependenciesFirst
<1> QED
  BY <1>6, <1>8, <1>9, <1>10, <1>11 DEF IInv

LEMMA ParsePlanStep ==
  ASSUME IInv, TypeOK', NEW calls \in Proposals, ParsePlan(calls)
  PROVE  IInv'
<1>1. TypeOK /\ SequentialPlan(plan) /\ LoopInv /\ HistoryInv /\ WindowInv
  BY DEF IInv
<1>2. /\ at = "generate" /\ at' = "check" /\ plan' = Materialize(calls)
      /\ UNCHANGED <<toolSteps, recent, outcome, started, served>>
  BY DEF ParsePlan
<1>3. calls \in Seq(Call) /\ calls # <<>> /\ ~DuplicateId(calls) /\ DeclaredInOrder(calls)
  BY LoopConstantsOK DEF ParsePlan
<1>4. /\ SequentialPlan(plan') /\ Progress(plan') = 0 /\ Len(plan') = Len(calls)
  BY <1>2, <1>3, MaterializedPlan
<1>5. plan' # <<>>
  BY <1>3, <1>4, EmptySeq
<1>6. Len(started) \in Nat /\ Len(served) \in Nat /\ toolSteps \in Nat /\ MaxToolSteps \in Nat
  BY <1>1, LenProperties, LoopConstantsOK DEF TypeOK
<1>7. LoopInv'
  <2>1. outcome = "none"
    BY <1>1, <1>2 DEF LoopInv
  <2> QED
    BY <1>1, <1>2, <1>4, <1>5, <1>6, <2>1 DEF LoopInv
<1>8. HistoryInv'
  BY <1>2, <1>4, <1>6 DEF HistoryInv
<1>9. WindowInv'
  BY <1>1, <1>2 DEF WindowInv
<1>10. NoRepeatInWindow' /\ DependenciesFirst'
  BY <1>2 DEF IInv, NoRepeatInWindow, DependenciesFirst
<1> QED
  BY <1>4, <1>7, <1>8, <1>9, <1>10 DEF IInv

\* The check of the budget and of the window makes the plan's calls fit both.
LEMMA CheckedStep ==
  ASSUME IInv, TypeOK', at = "check", ~Exceeds, ~Repeats, at' = "run",
         UNCHANGED <<allowed, turns, plan, outcome, Bookkeeping>>
  PROVE  IInv'
<1>1. TypeOK /\ SequentialPlan(plan) /\ LoopInv /\ HistoryInv /\ WindowInv
  BY DEF IInv
<1>2. UNCHANGED <<plan, steps, toolSteps, recent, outcome, started, served>>
  BY DEF Bookkeeping
<1>3. Progress(plan) = 0 /\ Planned(plan) = DOMAIN plan /\ DOMAIN plan = 1..Len(plan)
  BY <1>1, PlanFacts DEF LoopInv
<1>4. /\ Len(served) \in Nat /\ toolSteps \in Nat /\ MaxToolSteps \in Nat
      /\ Len(recent) \in Nat /\ DOMAIN recent = 1..Len(recent)
      /\ DOMAIN served = 1..Len(served) /\ RepeatWindow \in Nat
      /\ Cardinality(Planned(plan)) \in Nat
      /\ Len(plan) \in Nat
  BY <1>1, <1>3, LenProperties, LoopConstantsOK, PlanFacts DEF TypeOK
<1>5. LoopInv'
  BY <1>1, <1>2, <1>4 DEF LoopInv, Exceeds
<1>6. HistoryInv'
  BY <1>1, <1>2 DEF HistoryInv
<1>7. WindowInv'
  <2>1. ASSUME NEW i \in DOMAIN plan, NEW j \in DOMAIN plan, i < j
        PROVE  SignatureAt(i) # SignatureAt(j)
    <3>1. i \in 1..(j - 1)
      BY <1>3, <1>4, <2>1
    <3> QED
      BY <1>3, <3>1 DEF Repeats
  <2>2. ASSUME NEW i \in DOMAIN plan, NEW j \in DOMAIN served,
               j > Len(served) - Progress(plan) - RepeatWindow
        PROVE  Signature(served[j].call) # SignatureAt(i)
    <3>1. j - (Len(served) - Len(recent)) \in 1..Len(recent)
      BY <1>1, <1>3, <1>4, <2>2 DEF WindowInv
    <3>2. PICK m \in DOMAIN recent : m = j - (Len(served) - Len(recent))
      BY <1>4, <3>1, Zenon
    <3>3. Len(served) - Len(recent) + m = j
      BY <1>4, <3>2
    <3>4. recent[m] = Signature(served[j].call)
      BY <1>1, <3>3 DEF WindowInv
    <3> QED
      BY <1>3, <3>4 DEF Repeats
  <2>3. /\ \A i, j \in DOMAIN plan : i < j => SignatureAt(i) # SignatureAt(j)
        /\ \A i \in DOMAIN plan, j \in DOMAIN served :
             /\ j <= Len(served) - Progress(plan)
             /\ j > Len(served) - Progress(plan) - RepeatWindow
             => Signature(served[j].call) # SignatureAt(i)
    BY <2>1, <2>2
  <2> QED
    BY <1>1, <1>2, <2>3 DEF WindowInv, SignatureAt
<1>8. NoRepeatInWindow' /\ DependenciesFirst'
  BY <1>2 DEF IInv, NoRepeatInWindow, DependenciesFirst
<1> QED
  BY <1>1, <1>2, <1>5, <1>6, <1>7, <1>8 DEF IInv

\* A call starts after the results of the calls before it in its plan, which
\* are the last ones of the history.
LEMMA StartStep ==
  ASSUME IInv, TypeOK', NEW c, StartTool(c)
  PROVE  IInv'
<1>1. TypeOK /\ SequentialPlan(plan) /\ LoopInv /\ HistoryInv /\ WindowInv
      /\ DependenciesFirst
  BY DEF IInv
<1>2. /\ at = "run" /\ NextCall(c) /\ at' = "execute"
      /\ started' = Append(started, [step |-> steps, call |-> c])
      /\ UNCHANGED <<plan, steps, toolSteps, recent, outcome, served>>
  BY DEF StartTool
<1>3. PICK k \in 1..Len(plan) : k = Progress(plan) + 1
  BY <1>1, <1>2, NextCallFacts, Zenon
<1>4. c = plan[k].call /\ c \in Call /\ Planned(plan) # {}
  BY <1>1, <1>2, <1>3, NextCallFacts
<1>5. /\ Len(started) \in Nat /\ DOMAIN started = 1..Len(started)
      /\ Len(served) \in Nat /\ DOMAIN served = 1..Len(served)
      /\ toolSteps \in Nat /\ Progress(plan) \in Nat /\ Len(plan) \in Nat
  BY <1>1, LenProperties, PlanFacts DEF TypeOK
<1>6. [step |-> steps, call |-> c] \in Event
  BY <1>1, <1>4 DEF TypeOK, Event
<1>7. /\ Len(started') = Len(started) + 1
      /\ DOMAIN started' = 1..(Len(started) + 1)
      /\ \A i \in 1..Len(started) : started'[i] = started[i]
      /\ started'[Len(started) + 1] = [step |-> steps, call |-> c]
  <2>1. started \in Seq(Event)
    BY <1>1 DEF TypeOK
  <2>2. /\ started' \in Seq(Event)
        /\ Len(started') = Len(started) + 1
        /\ \A i \in 1..Len(started) : started'[i] = started[i]
        /\ started'[Len(started) + 1] = [step |-> steps, call |-> c]
    BY <1>2, <1>6, <2>1, AppendProperties
  <2> QED
    BY <2>2, LenProperties
<1>8. LoopInv'
  BY <1>1, <1>2, <1>4, <1>5, <1>7 DEF LoopInv
<1>9. HistoryInv' /\ WindowInv'
  BY <1>1, <1>2 DEF HistoryInv, WindowInv, SignatureAt
<1>10. DependenciesFirst'
  <2> SUFFICES ASSUME NEW i \in 1..(Len(started) + 1),
                      NEW d \in started'[i].call.deps
               PROVE  \E j \in DOMAIN served : /\ served[j].step = started'[i].step
                                              /\ served[j].call.id = d
    BY <1>2, <1>7 DEF DependenciesFirst
  <2>1. CASE i \in 1..Len(started)
    BY <1>1, <1>5, <1>7, <2>1 DEF DependenciesFirst
  <2>2. CASE i = Len(started) + 1
    <3>1. started'[i] = [step |-> steps, call |-> plan[k].call]
      BY <1>4, <1>7, <2>2
    <3>2. d \in plan[k].call.deps
      BY <3>1
    <3>3. PICK m \in 1..Len(plan) : m < k /\ plan[m].call.id = d
      BY <1>1, <3>2, AtPosition DEF TypeOK
    <3>4. m \in 1..Progress(plan)
      BY <1>3, <1>5, <3>3
    <3>5. /\ Len(served) - Progress(plan) + m \in 1..Len(served)
          /\ served[Len(served) - Progress(plan) + m]
               = [step |-> steps, call |-> plan[m].call]
      BY <1>1, <1>5, <3>4 DEF HistoryInv
    <3>6. PICK j \in DOMAIN served : j = Len(served) - Progress(plan) + m
      BY <1>5, <3>5, Zenon
    <3>7. served[j].step = started'[i].step /\ served[j].call.id = d
      BY <3>1, <3>3, <3>5, <3>6
    <3> QED
      BY <3>7
  <2> QED
    BY <1>5, <2>1, <2>2
<1>11. NoRepeatInWindow'
  BY <1>2 DEF IInv, NoRepeatInWindow
<1> QED
  BY <1>1, <1>2, <1>8, <1>9, <1>10, <1>11 DEF IInv

\* What serving the next call does to the plan, the history and the window.
LEMMA ServedStep ==
  ASSUME IInv, NEW c, NextCall(c), NEW r \in Results, Serve(c, r)
  PROVE  /\ c = plan[Progress(plan) + 1].call
         /\ Progress(plan) < Len(plan)
         /\ SequentialPlan(plan')
         /\ Len(plan') = Len(plan) /\ DOMAIN plan' = DOMAIN plan
         /\ \A i \in DOMAIN plan : plan'[i].call = plan[i].call
         /\ Progress(plan') = Progress(plan) + 1
         /\ Len(served') = Len(served) + 1
         /\ DOMAIN served' = 1..(Len(served) + 1)
         /\ \A i \in 1..Len(served) : served'[i] = served[i]
         /\ served'[Len(served) + 1] = [step |-> steps, call |-> c]
<1>1. TypeOK /\ SequentialPlan(plan)
  BY DEF IInv
<1>2. /\ Progress(plan) + 1 \in 1..Len(plan)
      /\ c = plan[Progress(plan) + 1].call /\ c \in Call
  BY <1>1, NextCallFacts
<1>3. Len(plan) \in Nat /\ DOMAIN plan = 1..Len(plan) /\ Progress(plan) \in Nat
  BY <1>1, PlanFacts
<1>4. Progress(plan) < Len(plan)
  BY <1>2, <1>3
<1>5. plan' = ApplyResult(plan, plan[Progress(plan) + 1].call.id, r)
  BY <1>2 DEF Serve
<1>6. /\ plan' \in Seq(Node) /\ Len(plan') = Len(plan)
      /\ \A i \in 1..Len(plan) : plan'[i].call = plan[i].call
      /\ SequentialPlan(plan')
      /\ Progress(plan') = Progress(plan) + 1
  BY <1>1, <1>4, <1>5, ResultMovesOn DEF TypeOK
<1>7. DOMAIN plan' = DOMAIN plan
  BY <1>3, <1>6, LenProperties
<1>8. [step |-> steps, call |-> c] \in Event
  BY <1>1, <1>2 DEF TypeOK, Event
<1>9. served \in Seq(Event) /\ served' = Append(served, [step |-> steps, call |-> c])
  BY <1>1 DEF TypeOK, Serve
<1>10. /\ served' \in Seq(Event)
       /\ Len(served') = Len(served) + 1
       /\ \A i \in 1..Len(served) : served'[i] = served[i]
       /\ served'[Len(served) + 1] = [step |-> steps, call |-> c]
  BY <1>8, <1>9, AppendProperties
<1>11. DOMAIN served' = 1..(Len(served) + 1)
  BY <1>10, LenProperties
<1> QED
  BY <1>2, <1>3, <1>4, <1>6, <1>7, <1>10, <1>11

LEMMA ServeHistory ==
  ASSUME IInv, NEW c, NextCall(c), NEW r \in Results, Serve(c, r)
  PROVE  HistoryInv'
<1>0. /\ c = plan[Progress(plan) + 1].call
      /\ Progress(plan) < Len(plan)
      /\ DOMAIN plan' = DOMAIN plan
      /\ \A i \in DOMAIN plan : plan'[i].call = plan[i].call
      /\ Progress(plan') = Progress(plan) + 1
      /\ Len(served') = Len(served) + 1
      /\ DOMAIN served' = 1..(Len(served) + 1)
      /\ \A i \in 1..Len(served) : served'[i] = served[i]
      /\ served'[Len(served) + 1] = [step |-> steps, call |-> c]
  BY ServedStep
<1>1. HistoryInv
  BY DEF IInv
<1>2. /\ Progress(plan) \in Nat /\ Len(plan) \in Nat /\ Len(served) \in Nat
      /\ DOMAIN plan = 1..Len(plan)
  BY PlanFacts, LenProperties DEF IInv, TypeOK
<1>3. steps' = steps
  BY DEF Serve
<1>4. Progress(plan') <= Len(served')
  BY <1>1, <1>2, <1>0 DEF HistoryInv
<1>5. ASSUME NEW i \in 1..Progress(plan')
      PROVE  served'[Len(served') - Progress(plan') + i]
               = [step |-> steps, call |-> plan'[i].call]
  <2>1. /\ Len(served') - Progress(plan') + i = Len(served) - Progress(plan) + i
        /\ i \in 1..(Progress(plan) + 1)
    BY <1>2, <1>0
  <2>2. i \in DOMAIN plan /\ plan'[i].call = plan[i].call
    BY <1>2, <2>1, <1>0
  <2>3. CASE i \in 1..Progress(plan)
    <3>1. Len(served) - Progress(plan) + i \in 1..Len(served)
      BY <1>1, <1>2, <2>3 DEF HistoryInv
    <3>2. served[Len(served) - Progress(plan) + i]
            = [step |-> steps, call |-> plan[i].call]
      BY <1>1, <2>3 DEF HistoryInv
    <3> QED
      BY <2>1, <2>2, <3>1, <3>2, <1>0
  <2>4. CASE i = Progress(plan) + 1
    <3>1. Len(served) - Progress(plan) + i = Len(served) + 1
      BY <1>2, <2>4
    <3> QED
      BY <2>1, <2>2, <2>4, <3>1, <1>0
  <2> QED
    BY <1>2, <2>1, <2>3, <2>4
<1> QED
  BY <1>3, <1>4, <1>5 DEF HistoryInv

LEMMA ServeWindow ==
  ASSUME IInv, NEW c, NextCall(c), NEW r \in Results, Serve(c, r),
         at \in {"run", "execute"}
  PROVE  WindowInv'
<1>0. /\ c = plan[Progress(plan) + 1].call
      /\ Progress(plan) < Len(plan)
      /\ DOMAIN plan' = DOMAIN plan
      /\ \A i \in DOMAIN plan : plan'[i].call = plan[i].call
      /\ Progress(plan') = Progress(plan) + 1
      /\ Len(served') = Len(served) + 1
      /\ DOMAIN served' = 1..(Len(served) + 1)
      /\ \A i \in 1..Len(served) : served'[i] = served[i]
      /\ served'[Len(served) + 1] = [step |-> steps, call |-> c]
  BY ServedStep
<1>1. TypeOK /\ SequentialPlan(plan) /\ WindowInv
  BY DEF IInv
<1>2. /\ Progress(plan) \in Nat /\ Len(plan) \in Nat /\ Len(served) \in Nat
      /\ DOMAIN plan = 1..Len(plan) /\ DOMAIN served = 1..Len(served)
      /\ Len(recent) \in Nat /\ DOMAIN recent = 1..Len(recent)
      /\ RepeatWindow \in Nat \ {0, 1} /\ RepeatWindow - 1 \in Nat
      /\ recent \in Seq(Tools \X Arguments)
  BY <1>1, PlanFacts, LenProperties, LoopConstantsOK DEF TypeOK
<1>3. PICK w : w = LastN(recent, RepeatWindow - 1)
  OBVIOUS
<1>4. /\ w \in Seq(Tools \X Arguments)
      /\ Len(w) = IF Len(recent) <= RepeatWindow - 1 THEN Len(recent) ELSE RepeatWindow - 1
      /\ \A i \in 1..Len(w) : w[i] = recent[Len(recent) - Len(w) + i]
  <2>1. PICK n \in Nat : n = RepeatWindow - 1
    BY <1>2, Zenon
  <2>2. PICK S : S = Tools \X Arguments
    OBVIOUS
  <2>3. recent \in Seq(S)
    BY <1>2, <2>2, Zenon
  <2>4. /\ LastN(recent, n) \in Seq(S)
        /\ Len(LastN(recent, n)) = IF Len(recent) <= n THEN Len(recent) ELSE n
        /\ \A i \in 1..Len(LastN(recent, n)) :
             LastN(recent, n)[i] = recent[Len(recent) - Len(LastN(recent, n)) + i]
    BY <2>3, LastNProperties, Zenon
  <2>5. w = LastN(recent, n)
    BY <1>3, <2>1, Zenon
  <2> QED
    BY <2>1, <2>2, <2>4, <2>5, Zenon
<1>5. Len(w) \in Nat /\ Len(w) <= Len(recent)
  BY <1>2, <1>4
<1>6. /\ recent' \in Seq(Tools \X Arguments)
      /\ Len(recent') = Len(w) + 1
      /\ \A i \in 1..Len(w) : recent'[i] = w[i]
      /\ recent'[Len(w) + 1] = Signature(c)
  BY <1>1, <1>3, <1>4, NextCallFacts, SignatureType, AppendProperties DEF Serve
<1>7. DOMAIN recent' = 1..(Len(w) + 1)
  BY <1>6, LenProperties
<1>8. Len(recent') = IF Len(served') < RepeatWindow THEN Len(served') ELSE RepeatWindow
  <2>1. Len(served') = Len(served) + 1
    BY <1>0
  <2>2. Len(recent) = IF Len(served) < RepeatWindow THEN Len(served) ELSE RepeatWindow
    BY <1>1 DEF WindowInv
  <2> QED
    BY <1>2, <1>4, <1>6, <2>1, <2>2
<1>9. ASSUME NEW i \in 1..(Len(w) + 1)
      PROVE  recent'[i] = Signature(served'[Len(served') - Len(recent') + i].call)
  <2>1. Len(served') - Len(recent') + i = Len(served) - Len(w) + i
    BY <1>2, <1>5, <1>6, <1>0
  <2>2. CASE i \in 1..Len(w)
    <3>1. PICK m \in 1..Len(recent) : m = Len(recent) - Len(w) + i
      <4>1. Len(recent) - Len(w) + i \in 1..Len(recent)
        BY <1>2, <1>5, <2>2
      <4> QED
        BY <4>1, Zenon
    <3>2. recent'[i] = recent[m]
      BY <1>4, <1>6, <2>2, <3>1
    <3>3. recent[m] = Signature(served[Len(served) - Len(recent) + m].call)
      BY <1>1, <1>2 DEF WindowInv
    <3>4. Len(served) - Len(recent) + m = Len(served) - Len(w) + i
      BY <1>2, <1>5, <3>1
    <3>5. Len(served) - Len(w) + i \in 1..Len(served)
      BY <1>1, <1>2, <1>5, <2>2 DEF WindowInv
    <3>6. served'[Len(served) - Len(w) + i] = served[Len(served) - Len(w) + i]
      BY <3>5, <1>0
    <3> QED
      BY <2>1, <3>2, <3>3, <3>4, <3>6
  <2>3. CASE i = Len(w) + 1
    <3>1. Len(served) - Len(w) + i = Len(served) + 1
      BY <1>2, <1>5, <2>3
    <3>2. served'[Len(served) + 1] = [step |-> steps, call |-> c]
      BY <1>0
    <3> QED
      BY <1>6, <2>1, <2>3, <3>1, <3>2
  <2> QED
    BY <1>5, <2>2, <2>3
<1>10. ASSUME NEW i \in DOMAIN plan, NEW j \in DOMAIN plan, i < j
       PROVE  Signature(plan'[i].call) # Signature(plan'[j].call)
  BY <1>0, <1>1, <1>10 DEF WindowInv, SignatureAt
<1>11. ASSUME NEW i \in DOMAIN plan, NEW j \in 1..(Len(served) + 1),
              j <= Len(served') - Progress(plan'),
              j > Len(served') - Progress(plan') - RepeatWindow
       PROVE  Signature(served'[j].call) # Signature(plan'[i].call)
  <2>1. /\ j \in 1..Len(served)
        /\ j <= Len(served) - Progress(plan)
        /\ j > Len(served) - Progress(plan) - RepeatWindow
    BY <1>0, <1>2, <1>11
  <2>2. Signature(served[j].call) # Signature(plan[i].call)
    BY <1>1, <1>2, <2>1 DEF WindowInv, SignatureAt
  <2> QED
    BY <1>0, <2>1, <2>2
<1> QED
  BY <1>0, <1>7, <1>8, <1>9, <1>6, <1>10, <1>11 DEF WindowInv, SignatureAt

LEMMA ServeRepeats ==
  ASSUME IInv, NEW c, NextCall(c), NEW r \in Results, Serve(c, r),
         at \in {"run", "execute"}
  PROVE  NoRepeatInWindow'
<1>0. /\ c = plan[Progress(plan) + 1].call
      /\ Progress(plan) < Len(plan)
      /\ Len(served') = Len(served) + 1
      /\ DOMAIN served' = 1..(Len(served) + 1)
      /\ \A i \in 1..Len(served) : served'[i] = served[i]
      /\ served'[Len(served) + 1] = [step |-> steps, call |-> c]
  BY ServedStep
<1>1. TypeOK /\ SequentialPlan(plan) /\ WindowInv /\ HistoryInv /\ NoRepeatInWindow
  BY DEF IInv
<1>2. /\ Progress(plan) \in Nat /\ Len(plan) \in Nat /\ Len(served) \in Nat
      /\ DOMAIN plan = 1..Len(plan) /\ DOMAIN served = 1..Len(served)
      /\ RepeatWindow \in Nat
  BY <1>1, PlanFacts, LenProperties, LoopConstantsOK DEF TypeOK
<1>3. PICK k \in 1..Len(plan) : k = Progress(plan) + 1
  BY <1>0, <1>2
<1>4. SignatureAt(k) = Signature(c)
  BY <1>0, <1>3 DEF SignatureAt
<1>5. ASSUME NEW i \in 1..Len(served), Len(served) + 1 - i <= RepeatWindow
      PROVE  Signature(served[i].call) # Signature(c)
  <2>1. CASE i <= Len(served) - Progress(plan)
    <3>1. i > Len(served) - Progress(plan) - RepeatWindow
      BY <1>2, <1>5
    <3> QED
      BY <1>1, <1>2, <1>4, <2>1, <3>1 DEF WindowInv
  <2>2. CASE ~(i <= Len(served) - Progress(plan))
    <3>1. i - (Len(served) - Progress(plan)) \in 1..Progress(plan)
      BY <1>2, <2>2
    <3>2. PICK m \in 1..Progress(plan) : m = i - (Len(served) - Progress(plan))
      BY <3>1, Zenon
    <3>3. Len(served) - Progress(plan) + m = i
      BY <1>2, <3>2
    <3>4. served[i] = [step |-> steps, call |-> plan[m].call]
      <4>1. served[Len(served) - Progress(plan) + m]
              = [step |-> steps, call |-> plan[m].call]
        BY <1>1 DEF HistoryInv
      <4> QED
        BY <3>3, <4>1
    <3>5. m \in DOMAIN plan /\ k \in DOMAIN plan /\ m < k
      BY <1>0, <1>2, <1>3
    <3> QED
      BY <1>1, <1>4, <3>4, <3>5 DEF WindowInv, SignatureAt
  <2> QED
    BY <2>1, <2>2
<1>6. ASSUME NEW i \in 1..(Len(served) + 1), NEW j \in 1..(Len(served) + 1),
             i < j, j - i <= RepeatWindow
      PROVE  Signature(served'[i].call) # Signature(served'[j].call)
  <2>1. i \in 1..Len(served) /\ served'[i] = served[i]
    BY <1>0, <1>2, <1>6
  <2>2. CASE j \in 1..Len(served)
    BY <1>0, <1>1, <1>2, <1>6, <2>1, <2>2 DEF NoRepeatInWindow
  <2>3. CASE j = Len(served) + 1
    BY <1>0, <1>5, <1>6, <2>1, <2>3
  <2> QED
    BY <1>2, <2>2, <2>3
<1> QED
  BY <1>0, <1>6 DEF NoRepeatInWindow

LEMMA ServeStep ==
  ASSUME IInv, TypeOK', NEW c, NextCall(c), NEW r \in Results, Serve(c, r),
         at \in {"run", "execute"}, UNCHANGED started
  PROVE  IInv'
<1>1. TypeOK /\ SequentialPlan(plan) /\ LoopInv /\ DependenciesFirst
  BY DEF IInv
<1>2. /\ SequentialPlan(plan') /\ Len(plan') = Len(plan)
      /\ Progress(plan) < Len(plan) /\ Progress(plan') = Progress(plan) + 1
      /\ Len(served') = Len(served) + 1
      /\ DOMAIN served' = 1..(Len(served) + 1)
      /\ \A i \in 1..Len(served) : served'[i] = served[i]
  BY ServedStep
<1>3. /\ Progress(plan) \in Nat /\ Len(plan) \in Nat /\ Len(served) \in Nat
      /\ toolSteps \in Nat /\ MaxToolSteps \in Nat /\ DOMAIN served = 1..Len(served)
      /\ Len(started) \in Nat
      /\ Cardinality(Planned(plan)) = Len(plan) - Progress(plan)
  BY <1>1, PlanFacts, LenProperties, LoopConstantsOK DEF TypeOK
<1>4. Cardinality(Planned(plan')) = Len(plan') - Progress(plan')
  BY <1>2, ProgressSplits DEF TypeOK
<1>5. at' = "run" /\ toolSteps' = toolSteps + 1 /\ outcome' = outcome
  BY DEF Serve
<1>6. LoopInv'
  <2>1. outcome = "none"
    BY <1>1 DEF LoopInv
  <2>2. toolSteps + (Len(plan) - Progress(plan)) <= MaxToolSteps
    BY <1>1, <1>3 DEF LoopInv
  <2>3. toolSteps' + Cardinality(Planned(plan')) <= MaxToolSteps
    BY <1>2, <1>3, <1>4, <1>5, <2>2
  <2>4. toolSteps' <= MaxToolSteps
    BY <1>2, <1>3, <1>5, <2>2
  <2>5. toolSteps' = Len(served')
    BY <1>1, <1>2, <1>5 DEF LoopInv
  <2>6. Len(started) <= toolSteps + 1
    BY <1>1, <1>3 DEF LoopInv
  <2> QED
    BY <1>5, <2>1, <2>3, <2>4, <2>5, <2>6 DEF LoopInv
<1>7. DependenciesFirst'
  BY <1>1, <1>2, <1>3 DEF DependenciesFirst
<1> QED
  BY <1>2, <1>6, <1>7, ServeHistory, ServeWindow, ServeRepeats DEF IInv

LEMMA InvStep ==
  ASSUME IInv, [Next]_vars
  PROVE  IInv'
<1>0. TypeOK /\ SequentialPlan(plan) /\ LoopInv
  BY DEF IInv
<1>1. TypeOK'
  BY <1>0, TypeStep
<1>2. CASE UNCHANGED vars
  <2>1. UNCHANGED <<at, plan, steps, toolSteps, recent, outcome, started, served>>
    BY <1>2 DEF vars
  <2>2. SequentialPlan(plan)' /\ LoopInv'
    BY <1>0, <2>1 DEF LoopInv
  <2>3. HistoryInv'
    BY <2>1 DEF IInv, HistoryInv
  <2>4. WindowInv'
    BY <2>1 DEF IInv, WindowInv, SignatureAt
  <2>5. NoRepeatInWindow' /\ DependenciesFirst'
    BY <2>1 DEF IInv, NoRepeatInWindow, DependenciesFirst
  <2> QED
    BY <1>1, <2>2, <2>3, <2>4, <2>5 DEF IInv
<1>3. CASE ProviderFails
  BY <1>1, <1>3, EndStep DEF ProviderFails
<1>4. CASE MalformedCall
  <2>1. Planned(plan) = {}
    BY <1>0, <1>4 DEF MalformedCall, LoopInv
  <2> QED
    BY <1>1, <1>4, <2>1, EndStep DEF MalformedCall
<1>5. CASE FinalAnswer
  BY <1>1, <1>5, FinalAnswerStep
<1>6. ASSUME NEW calls \in Proposals,
             DuplicateCallId(calls) \/ UnknownDependency(calls)
      PROVE  IInv'
  <2>1. Planned(plan) = {}
    BY <1>0, <1>6 DEF DuplicateCallId, UnknownDependency, LoopInv
  <2>2. CASE DuplicateCallId(calls)
    BY <1>1, <2>1, <2>2, EndStep DEF DuplicateCallId
  <2>3. CASE UnknownDependency(calls)
    BY <1>1, <2>1, <2>3, EndStep DEF UnknownDependency
  <2> QED
    BY <1>6, <2>2, <2>3
<1>7. ASSUME NEW calls \in Proposals, ParsePlan(calls)
      PROVE  IInv'
  BY <1>1, <1>7, ParsePlanStep
<1>8. CASE CheckPlan
  <2>1. at = "check" /\ UNCHANGED <<allowed, turns, plan, Bookkeeping>>
    BY <1>8 DEF CheckPlan
  <2>2. Progress(plan) = 0
    BY <1>0, <2>1 DEF LoopInv
  <2>3. CASE End("max_tool_steps_exceeded")
    BY <1>1, <2>1, <2>2, <2>3, EndStep
  <2>4. CASE End("tool_loop_repeated_call_detected")
    BY <1>1, <2>1, <2>2, <2>4, EndStep
  <2>5. CASE ~Exceeds /\ ~Repeats /\ at' = "run" /\ UNCHANGED outcome
    BY <1>1, <2>1, <2>5, CheckedStep
  <2> QED
    BY <1>0, <1>8, <2>3, <2>4, <2>5, PlanFacts DEF CheckPlan
<1>9. ASSUME NEW c, NotPermitted(c)
      PROVE  IInv'
  BY <1>1, <1>9, EndStep DEF NotPermitted
<1>10. ASSUME NEW c, ToolNotFound(c)
       PROVE  IInv'
  BY <1>1, <1>10, EndStep DEF ToolNotFound
<1>11. ASSUME NEW c, PolicyDenies(c)
       PROVE  IInv'
  BY <1>1, <1>11, EndStep DEF PolicyDenies
<1>12. ASSUME NEW c, StartTool(c)
       PROVE  IInv'
  BY <1>1, <1>12, StartStep
<1>13. ASSUME NEW c, InvalidArguments(c) \/ \E r \in Results : ToolReturns(c, r)
       PROVE  IInv'
  <2>1. PICK r \in Results : /\ Serve(c, r) /\ NextCall(c) /\ UNCHANGED started
                             /\ at \in {"run", "execute"}
    BY <1>13 DEF InvalidArguments, ToolReturns, Results
  <2> QED
    BY <1>1, <2>1, ServeStep
<1>14. CASE ToolTimesOut
  BY <1>1, <1>14, EndStep DEF ToolTimesOut
<1>15. CASE ToolRaises
  BY <1>1, <1>15, EndStep DEF ToolRaises
<1>16. CASE FinishPlan
  <2>1. /\ at = "run" /\ NextExecutable(plan) = {}
        /\ UNCHANGED <<plan, steps, toolSteps, recent, started, served>>
    BY <1>16 DEF FinishPlan, Bookkeeping
  <2>2. Planned(plan) = {}
    BY <1>0, <2>1, PlanFacts DEF CanMakeProgress
  <2>3. at' = "generate" /\ outcome' = outcome
    BY <1>16, <2>2 DEF FinishPlan
  <2>4. LoopInv'
    BY <1>0, <2>1, <2>2, <2>3 DEF LoopInv
  <2>5. HistoryInv' /\ WindowInv'
    BY <2>1, <2>3 DEF IInv, HistoryInv, WindowInv, SignatureAt
  <2> QED
    BY <1>0, <1>1, <2>1, <2>4, <2>5 DEF IInv, NoRepeatInWindow, DependenciesFirst
<1> QED
  BY <1>2, <1>3, <1>4, <1>5, <1>6, <1>7, <1>8, <1>9, <1>10, <1>11, <1>12,
     <1>13, <1>14, <1>15, <1>16
  DEF Next, Generate, RunCall

\* Where the loop is, how far its plan has got, what its budget has left and
\* what its window remembers belong together at all times.
THEOREM Inductive == Spec => []IInv
<1>1. Init => IInv
  BY InitIInv
<1>2. IInv /\ [Next]_vars => IInv'
  BY InvStep
<1> QED
  BY <1>1, <1>2, PTL DEF Spec

(***************************************************************************)
(* Each answer of the model costs a tool step, and each step of the loop   *)
(* leaves it less to do.                                                   *)
(***************************************************************************)

\* The steps of a request, by where they lead and what they count.
LEMMA LoopSteps ==
  ASSUME IInv, [Next]_vars
  PROVE  \/ UNCHANGED vars
         \/ /\ at # "done" /\ at' = "done" /\ toolSteps' = toolSteps
            /\ steps' = steps \/ (at = "generate" /\ steps' = steps + 1)
         \/ /\ at = "generate" /\ at' = "check"
            /\ toolSteps' = toolSteps /\ steps' = steps + 1
         \/ /\ at = "check" /\ at' = "run" /\ UNCHANGED <<plan, toolSteps, steps>>
         \/ /\ at = "run" /\ at' = "generate" /\ Progress(plan) = Len(plan)
            /\ UNCHANGED <<plan, toolSteps, steps>>
         \/ /\ at = "run" /\ at' = "execute" /\ UNCHANGED <<plan, toolSteps, steps>>
         \/ /\ at \in {"run", "execute"} /\ at' = "run"
            /\ toolSteps' = toolSteps + 1 /\ steps' = steps
            /\ Progress(plan') = Progress(plan) + 1
<1>0. TypeOK /\ SequentialPlan(plan)
  BY DEF IInv
<1>1. CASE UNCHANGED vars
  BY <1>1
<1>2. CASE ProviderFails \/ MalformedCall \/ ToolTimesOut \/ ToolRaises
  BY <1>2 DEF ProviderFails, MalformedCall, ToolTimesOut, ToolRaises, End, Bookkeeping
<1>3. CASE FinalAnswer
  BY <1>3 DEF FinalAnswer, End
<1>4. ASSUME NEW calls \in Proposals,
             DuplicateCallId(calls) \/ UnknownDependency(calls)
      PROVE  at # "done" /\ at' = "done" /\ toolSteps' = toolSteps /\ steps' = steps
  BY <1>4 DEF DuplicateCallId, UnknownDependency, End, Bookkeeping
<1>5. ASSUME NEW calls \in Proposals, ParsePlan(calls)
      PROVE  /\ at = "generate" /\ at' = "check"
             /\ toolSteps' = toolSteps /\ steps' = steps + 1
  BY <1>5 DEF ParsePlan
<1>6. CASE CheckPlan
  BY <1>6 DEF CheckPlan, End, Bookkeeping
<1>7. ASSUME NEW c, NotPermitted(c) \/ ToolNotFound(c) \/ PolicyDenies(c)
      PROVE  at # "done" /\ at' = "done" /\ toolSteps' = toolSteps /\ steps' = steps
  BY <1>7 DEF NotPermitted, ToolNotFound, PolicyDenies, End, Bookkeeping
<1>8. ASSUME NEW c, StartTool(c)
      PROVE  at = "run" /\ at' = "execute" /\ UNCHANGED <<plan, toolSteps, steps>>
  BY <1>8 DEF StartTool
<1>9. ASSUME NEW c, InvalidArguments(c) \/ \E r \in Results : ToolReturns(c, r)
      PROVE  /\ at \in {"run", "execute"} /\ at' = "run"
             /\ toolSteps' = toolSteps + 1 /\ steps' = steps
             /\ Progress(plan') = Progress(plan) + 1
  <2>1. PICK r \in Results : Serve(c, r) /\ NextCall(c) /\ at \in {"run", "execute"}
    BY <1>9 DEF InvalidArguments, ToolReturns, Results
  <2>2. Progress(plan') = Progress(plan) + 1
    BY <2>1, ServedStep
  <2> QED
    BY <2>1, <2>2 DEF Serve
<1>10. CASE FinishPlan
  <2>1. Planned(plan) = {} <=> Progress(plan) = Len(plan)
    BY <1>0, PlanFacts
  <2> QED
    BY <1>10, <2>1 DEF FinishPlan, End, Bookkeeping
<1> QED
  BY <1>1, <1>2, <1>3, <1>4, <1>5, <1>6, <1>7, <1>8, <1>9, <1>10
  DEF Next, Generate, RunCall

LEMMA RoundsInit == Init => RoundsInv
<1> SUFFICES ASSUME Init PROVE RoundsInv
  OBVIOUS
<1>1. at = "generate" /\ steps = 0 /\ toolSteps = 0
  BY DEF Init
<1> QED
  BY <1>1 DEF RoundsInv

LEMMA RoundsStep ==
  ASSUME IInv, IInv', RoundsInv, [Next]_vars
  PROVE  RoundsInv'
<1>1. /\ steps \in Nat /\ toolSteps \in Nat
      /\ Progress(plan) \in Nat /\ Len(plan) \in Nat
      /\ at = "check" => plan # <<>> /\ Progress(plan) = 0
  BY PlanFacts DEF IInv, TypeOK, LoopInv
<1>2. CASE UNCHANGED vars
  BY <1>2 DEF vars, RoundsInv
<1>3. CASE /\ at # "done" /\ at' = "done" /\ toolSteps' = toolSteps
           /\ steps' = steps \/ (at = "generate" /\ steps' = steps + 1)
  BY <1>1, <1>3 DEF RoundsInv
<1>4. CASE /\ at = "generate" /\ at' = "check"
           /\ toolSteps' = toolSteps /\ steps' = steps + 1
  BY <1>1, <1>4 DEF RoundsInv
<1>5. CASE at = "check" /\ at' = "run" /\ UNCHANGED <<plan, toolSteps, steps>>
  BY <1>1, <1>5 DEF RoundsInv
<1>6. CASE /\ at = "run" /\ at' = "generate" /\ Progress(plan) = Len(plan)
           /\ UNCHANGED <<plan, toolSteps, steps>>
  <2>1. Len(plan) # 0
    BY <1>6, EmptySeq DEF RoundsInv, IInv, TypeOK
  <2>2. Progress(plan) > 0
    BY <1>1, <1>6, <2>1
  <2> QED
    BY <1>1, <1>6, <2>2 DEF RoundsInv
<1>7. CASE at = "run" /\ at' = "execute" /\ UNCHANGED <<plan, toolSteps, steps>>
  BY <1>7 DEF RoundsInv
<1>8. CASE /\ at \in {"run", "execute"} /\ at' = "run"
           /\ toolSteps' = toolSteps + 1 /\ steps' = steps
           /\ Progress(plan') = Progress(plan) + 1
  <2>1. plan' # <<>>
    <3>1. Progress(plan') <= Len(plan') /\ Len(plan') \in Nat /\ Progress(plan') \in Nat
      <4>1. TypeOK' /\ SequentialPlan(plan')
        BY DEF IInv
      <4>2. plan' \in Seq(Node)
        BY <4>1 DEF TypeOK
      <4> QED
        BY <4>1, <4>2, ProgressSplits, LenProperties DEF Progress
    <3>2. Len(plan') # 0
      BY <1>1, <1>8, <3>1
    <3> QED
      BY <3>2, EmptySeq
  <2>2. steps' <= toolSteps'
    BY <1>1, <1>8 DEF RoundsInv
  <2> QED
    BY <1>1, <1>8, <2>1, <2>2 DEF RoundsInv
<1> QED
  BY <1>2, <1>3, <1>4, <1>5, <1>6, <1>7, <1>8, LoopSteps

LEMMA RoundsKept == Spec => []RoundsInv
<1>1. Init => RoundsInv
  BY RoundsInit
<1>2. IInv /\ IInv' /\ RoundsInv /\ [Next]_vars => RoundsInv'
  BY RoundsStep
<1> QED
  BY <1>1, <1>2, Inductive, PTL DEF Spec

\* What is left to do is a number, and a step makes it smaller.
LEMMA StepsLeftNat ==
  ASSUME IInv
  PROVE  StepsLeft \in Nat
<1>1. toolSteps \in Nat /\ MaxToolSteps \in Nat /\ toolSteps <= MaxToolSteps
  BY LoopConstantsOK DEF IInv, TypeOK, LoopInv
<1>2. PICK k \in {0, 1, 2, 3, 4, 5} : StepsLeft = 5 * (MaxToolSteps - toolSteps) + k
  BY DEF StepsLeft
<1> QED
  BY <1>1, <1>2

LEMMA ShrinkStep ==
  ASSUME IInv, IInv', RoundsInv, Next, ~UNCHANGED vars
  PROVE  StepsLeft' < StepsLeft
<1>1. PICK x \in Nat : x = MaxToolSteps - toolSteps
  <2>1. toolSteps \in Nat /\ MaxToolSteps \in Nat /\ toolSteps <= MaxToolSteps
    BY LoopConstantsOK DEF IInv, TypeOK, LoopInv
  <2> QED
    BY ONLY <2>1
<1>2. /\ Progress(plan) \in Nat /\ at \in Places /\ MaxToolSteps \in Nat
      /\ toolSteps \in Nat
      /\ at = "check" => Progress(plan) = 0
  BY PlanFacts, LoopConstantsOK DEF IInv, TypeOK, LoopInv
<1>3. StepsLeft = 5 * x + (IF at = "done" THEN 0
                           ELSE IF at = "execute" THEN 1
                           ELSE IF at = "generate" THEN 4
                           ELSE IF at = "check" THEN 3
                           ELSE IF Progress(plan) = 0 THEN 2 ELSE 5)
  BY <1>1 DEF StepsLeft
<1>4. ASSUME toolSteps' = toolSteps
      PROVE  StepsLeft' = 5 * x + (IF at' = "done" THEN 0
                                   ELSE IF at' = "execute" THEN 1
                                   ELSE IF at' = "generate" THEN 4
                                   ELSE IF at' = "check" THEN 3
                                   ELSE IF Progress(plan') = 0 THEN 2 ELSE 5)
  BY <1>1, <1>4 DEF StepsLeft
<1>5. CASE at # "done" /\ at' = "done" /\ toolSteps' = toolSteps
  BY <1>3, <1>4, <1>5
<1>6. CASE at = "generate" /\ at' = "check" /\ toolSteps' = toolSteps
  BY <1>3, <1>4, <1>6
<1>7. CASE at = "check" /\ at' = "run" /\ UNCHANGED <<plan, toolSteps, steps>>
  BY <1>2, <1>3, <1>4, <1>7
<1>8. CASE /\ at = "run" /\ at' = "generate" /\ Progress(plan) = Len(plan)
           /\ UNCHANGED <<plan, toolSteps, steps>>
  <2>1. Len(plan) # 0
    BY <1>8, EmptySeq DEF RoundsInv, IInv, TypeOK
  <2> QED
    BY <1>3, <1>4, <1>8, <2>1
<1>9. CASE at = "run" /\ at' = "execute" /\ UNCHANGED <<plan, toolSteps, steps>>
  BY <1>3, <1>4, <1>9
<1>10. CASE /\ at \in {"run", "execute"} /\ at' = "run"
            /\ toolSteps' = toolSteps + 1 /\ steps' = steps
            /\ Progress(plan') = Progress(plan) + 1
  <2>1. Progress(plan') # 0
    BY <1>2, <1>10
  <2>2. StepsLeft' = 5 * (MaxToolSteps - toolSteps') + 5
    BY <1>10, <2>1 DEF StepsLeft
  <2>3. 5 * (MaxToolSteps - toolSteps') + 5 = 5 * x
    BY <1>1, <1>2, <1>10
  <2> QED
    BY <1>3, <1>10, <2>2, <2>3
<1> QED
  BY <1>5, <1>6, <1>7, <1>8, <1>9, <1>10, LoopSteps

\* A request is answered within 5 * MaxToolSteps + 4 steps of its loop, whatever
\* the model answers: that is what is left at the start, each step leaves less,
\* and there is no less than nothing.
THEOREM RequestsAreFinite ==
  Spec => /\ LoopShrinks
          /\ [](StepsLeft \in Nat)
          /\ (StepsLeft = 5 * MaxToolSteps + 4)
<1>1. IInv /\ IInv' /\ RoundsInv /\ [Next]_vars => [StepsLeft' < StepsLeft]_vars
  BY ShrinkStep
<1>2. IInv => StepsLeft \in Nat
  BY StepsLeftNat
<1>3. Init => StepsLeft = 5 * MaxToolSteps + 4
  BY LoopConstantsOK DEF Init, StepsLeft
<1> QED
  BY <1>1, <1>2, <1>3, Inductive, RoundsKept, PTL DEF Spec, LoopShrinks

(***************************************************************************)
(* What follows from it.                                                   *)
(***************************************************************************)

\* No request starts more executors than its budget allows, or asks the model
\* for more than one answer beyond it.
THEOREM BudgetKept == Spec => []StepBudget
<1>1. ASSUME IInv, RoundsInv PROVE StepBudget
  <2>1. TypeOK /\ SequentialPlan(plan) /\ LoopInv
    BY <1>1 DEF IInv
  <2>2. Len(started) \in Nat /\ toolSteps \in Nat /\ MaxToolSteps \in Nat
    BY <2>1, LenProperties, LoopConstantsOK DEF TypeOK
  <2>3. CASE at = "execute"
    <3>1. Cardinality(Planned(plan)) \in Nat \ {0}
      BY <2>1, <2>3, PlanFacts DEF LoopInv
    <3> QED
      BY <1>1, <2>1, <2>2, <2>3, <3>1 DEF LoopInv, RoundsInv, StepBudget
  <2>4. CASE at # "execute"
    BY <1>1, <2>1, <2>2, <2>4 DEF LoopInv, RoundsInv, StepBudget
  <2> QED
    BY <2>3, <2>4
<1> QED
  BY <1>1, Inductive, RoundsKept, PTL

\* The policy's own step limit is never what stops a request.
THEOREM PolicyLimitIdle == Spec => []PolicyLimitUnreached
<1>1. ASSUME IInv, at = "run", NextExecutable(plan) # {}
      PROVE  toolSteps < MaxToolSteps
  <2>1. TypeOK /\ SequentialPlan(plan) /\ LoopInv
    BY <1>1 DEF IInv
  <2>2. Cardinality(Planned(plan)) \in Nat \ {0}
    BY <1>1, <2>1, PlanFacts
  <2>3. toolSteps \in Nat /\ MaxToolSteps \in Nat
    BY <2>1, LoopConstantsOK DEF TypeOK
  <2> QED
    BY <1>1, <2>1, <2>2, <2>3 DEF LoopInv
<1>2. IInv => PolicyLimitUnreached
  BY <1>1 DEF PolicyLimitUnreached
<1> QED
  BY <1>2, Inductive, PTL

\* No accepted plan can get stuck: the dependencies and the strategy never
\* wait for each other.
THEOREM NoPlanIsStuck == Spec => []PlansMakeProgress
<1>1. IInv => PlansMakeProgress
  BY PlanFacts DEF IInv, PlansMakeProgress
<1> QED
  BY <1>1, Inductive, PTL

\* The validation of plans can never raise while a plan is executed.
THEOREM PlansAreValid == Spec => []PlanStaysValid
<1>1. IInv => PlanStaysValid
  BY SequentialIsValid DEF IInv, TypeOK, PlanStaysValid
<1> QED
  BY <1>1, Inductive, PTL

\* A call starts after the results of the calls it declares as dependencies.
THEOREM DependenciesServedFirst == Spec => []DependenciesFirst
<1>1. IInv => DependenciesFirst
  BY DEF IInv
<1> QED
  BY <1>1, Inductive, PTL

\* No executed call repeats one of the RepeatWindow calls before it.
THEOREM NoRepeats == Spec => []NoRepeatInWindow
<1>1. IInv => NoRepeatInWindow
  BY DEF IInv
<1> QED
  BY <1>1, Inductive, PTL

(***************************************************************************)
(* The loop implements the queue.                                          *)
(***************************************************************************)

\* The waiting calls of a plan, as a sequence.
LEMMA WaitingCalls ==
  ASSUME NEW p \in Seq(Node), SequentialPlan(p)
  PROVE  LET w == [i \in 1..Cardinality(Planned(p)) |->
                     p[Cardinality(Completed(p)) + i].call]
         IN  /\ w \in Seq(Call)
             /\ Len(w) = Len(p) - Progress(p)
             /\ \A i \in 1..(Len(p) - Progress(p)) : w[i] = p[Progress(p) + i].call
<1>1. PICK n \in Nat : n = Len(p) - Progress(p)
  <2>1. Len(p) - Progress(p) \in Nat
    BY ProgressSplits, LenProperties
  <2> QED
    BY <2>1, Zenon
<1>2. /\ Len(p) \in Nat /\ Progress(p) \in Nat /\ DOMAIN p = 1..Len(p)
      /\ Cardinality(Planned(p)) = n /\ Cardinality(Completed(p)) = Progress(p)
  BY <1>1, ProgressSplits, LenProperties DEF Progress
<1>3. PICK w : w = [i \in 1..n |-> p[Progress(p) + i].call]
  OBVIOUS
<1>4. ASSUME NEW i \in 1..n
      PROVE  p[Progress(p) + i].call \in Call
  <2>1. Progress(p) + i \in DOMAIN p
    BY <1>1, <1>2
  <2> QED
    BY <2>1, PlanCallType
<1>5. w \in [1..n -> Call]
  BY <1>3, <1>4
<1>6. w \in Seq(Call) /\ Len(w) = n
  BY <1>5, FunctionIsSeq
<1> QED
  BY <1>1, <1>2, <1>3, <1>6

\* The calls of a history, as a sequence.
LEMMA ServedCalls ==
  ASSUME NEW s \in Seq(Event)
  PROVE  LET l == [i \in DOMAIN s |-> s[i].call]
         IN  l \in Seq(Call) /\ Len(l) = Len(s) /\ DOMAIN l = 1..Len(s)
<1>1. Len(s) \in Nat /\ DOMAIN s = 1..Len(s)
  BY LenProperties
<1>2. ASSUME NEW i \in 1..Len(s)
      PROVE  s[i].call \in Call
  <2>1. s[i] \in Event
    BY ElementOfSeq
  <2> QED
    BY <2>1 DEF Event
<1>3. [i \in DOMAIN s |-> s[i].call] \in [1..Len(s) -> Call]
  BY <1>1, <1>2
<1> QED
  BY <1>1, <1>3, FunctionIsSeq

LEMMA QueueInit == Init => Queue!Init
<1> SUFFICES ASSUME Init PROVE Queue!Init
  OBVIOUS
<1>1. at = "generate" /\ served = <<>> /\ DOMAIN served = {}
  BY DEF Init
<1>2. [i \in DOMAIN served |-> served[i].call] = <<>>
  BY <1>1
<1> QED
  BY <1>1, <1>2 DEF Queue!Init

LEMMA QueueStep ==
  ASSUME IInv, IInv', [Next]_vars
  PROVE  [Queue!Next]_(Queue!queueVars)
<1> DEFINE mode == IF at \in {"generate", "check"} THEN "asking"
                   ELSE IF at = "done" THEN "stopped" ELSE "serving"
           queue == IF at \in {"run", "execute"} THEN Waiting ELSE <<>>
           log == [i \in DOMAIN served |-> served[i].call]
<1>0. /\ TypeOK /\ SequentialPlan(plan) /\ LoopInv
      /\ TypeOK' /\ SequentialPlan(plan')
  BY DEF IInv
<1>1. CASE UNCHANGED vars
  BY <1>1 DEF vars, Queue!queueVars, Waiting
\* Steps that end the request.
<1>2. ASSUME NEW o, End(o), at # "done", UNCHANGED served
      PROVE  Queue!Stop
  BY <1>2 DEF End, Queue!Stop
<1>3. CASE ProviderFails \/ MalformedCall \/ FinalAnswer \/ ToolTimesOut \/ ToolRaises
  <2>1. Queue!Stop
    BY <1>2, <1>3 DEF ProviderFails, MalformedCall, FinalAnswer, ToolTimesOut,
                      ToolRaises, Bookkeeping
  <2> QED
    BY <2>1 DEF Queue!Next
<1>4. ASSUME NEW calls \in Proposals,
             DuplicateCallId(calls) \/ UnknownDependency(calls)
      PROVE  Queue!Stop
  BY <1>2, <1>4 DEF DuplicateCallId, UnknownDependency, Bookkeeping
<1>5. ASSUME NEW c, NotPermitted(c) \/ ToolNotFound(c) \/ PolicyDenies(c)
      PROVE  Queue!Stop
  BY <1>2, <1>5 DEF NotPermitted, ToolNotFound, PolicyDenies, Bookkeeping
<1>6. ASSUME NEW calls \in Proposals, ParsePlan(calls)
      PROVE  UNCHANGED Queue!queueVars
  BY <1>6 DEF ParsePlan, Queue!queueVars
<1>7. CASE CheckPlan
  <2>1. at = "check" /\ UNCHANGED <<plan, toolSteps, served>>
    BY <1>7 DEF CheckPlan, Bookkeeping
  <2>2. CASE \E o : End(o)
    BY <1>2, <2>1, <2>2 DEF Queue!Next
  <2>3. CASE ~Exceeds /\ at' = "run"
    <3>1. /\ Len(plan) \in Nat \ {0} /\ Progress(plan) = 0
          /\ Cardinality(Planned(plan)) = Len(plan)
      <4>1. plan # <<>> /\ Progress(plan) = 0
        BY <1>0, <2>1 DEF LoopInv
      <4>2. Len(plan) \in Nat \ {0}
        BY <1>0, <4>1, EmptySeq DEF TypeOK
      <4> QED
        BY <1>0, <4>1, <4>2, PlanFacts
    <3>2. Waiting \in Seq(Call) /\ Len(Waiting) = Len(plan)
      <4>1. Waiting \in Seq(Call) /\ Len(Waiting) = Len(plan) - Progress(plan)
        BY <1>0, WaitingCalls DEF Waiting, TypeOK
      <4> QED
        BY <3>1, <4>1
    <3>3. Waiting # <<>>
      BY <3>1, <3>2, EmptySeq
    <3>4. queue' = Waiting
      BY <2>1, <2>3 DEF Waiting
    <3>5. Len(log) = toolSteps
      BY <1>0, ServedCalls DEF TypeOK, LoopInv
    <3>6. Len(log) + Len(queue') <= MaxToolSteps
      BY <1>0, <2>3, <3>1, <3>2, <3>4, <3>5, LoopConstantsOK DEF Exceeds, TypeOK
    <3>7. mode = "asking" /\ mode' = "serving" /\ log' = log
      BY <2>1, <2>3
    <3>8. Queue!Accept
      BY <3>2, <3>3, <3>4, <3>6, <3>7 DEF Queue!Accept
    <3> QED
      BY <3>8 DEF Queue!Next
  <2> QED
    BY <1>0, <1>7, <2>2, <2>3, PlanFacts DEF CheckPlan
<1>8. ASSUME NEW c, StartTool(c)
      PROVE  UNCHANGED Queue!queueVars
  BY <1>8 DEF StartTool, Queue!queueVars, Waiting
<1>9. ASSUME NEW c, InvalidArguments(c) \/ \E r \in Results : ToolReturns(c, r)
      PROVE  Queue!Serve
  <2>1. PICK r \in Results : /\ Serve(c, r) /\ NextCall(c) /\ UNCHANGED started
                             /\ at \in {"run", "execute"}
    BY <1>9 DEF InvalidArguments, ToolReturns, Results
  <2>2. /\ c = plan[Progress(plan) + 1].call
        /\ Progress(plan) < Len(plan)
        /\ Len(plan') = Len(plan) /\ DOMAIN plan' = DOMAIN plan
        /\ \A i \in DOMAIN plan : plan'[i].call = plan[i].call
        /\ Progress(plan') = Progress(plan) + 1
        /\ Len(served') = Len(served) + 1
        /\ DOMAIN served' = 1..(Len(served) + 1)
        /\ \A i \in 1..Len(served) : served'[i] = served[i]
        /\ served'[Len(served) + 1] = [step |-> steps, call |-> c]
    BY <2>1, ServedStep
  <2>3. /\ Len(plan) \in Nat /\ Progress(plan) \in Nat /\ DOMAIN plan = 1..Len(plan)
        /\ Len(served) \in Nat /\ DOMAIN served = 1..Len(served)
    BY <1>0, PlanFacts, LenProperties DEF TypeOK
  <2>4. at' = "run" /\ mode = "serving" /\ mode' = "serving"
    BY <2>1 DEF Serve
  <2>5. PICK q : /\ q \in Seq(Call) /\ q = queue
                 /\ Len(q) = Len(plan) - Progress(plan)
                 /\ \A i \in 1..(Len(plan) - Progress(plan)) :
                      q[i] = plan[Progress(plan) + i].call
    BY <1>0, <2>1, WaitingCalls DEF Waiting, TypeOK
  <2>6. PICK s : /\ s \in Seq(Call) /\ s = queue'
                 /\ Len(s) = Len(plan') - Progress(plan')
                 /\ \A i \in 1..(Len(plan') - Progress(plan')) :
                      s[i] = plan'[Progress(plan') + i].call
    BY <1>0, <2>4, WaitingCalls DEF Waiting, TypeOK
  <2>7. q # <<>> /\ Len(q) >= 1
    BY <2>2, <2>3, <2>5, EmptySeq
  <2>8. Head(q) = c
    <3>1. Head(q) = q[1]
      BY <2>7
    <3> QED
      BY <2>2, <2>3, <2>5, <2>7, <3>1
  <2>9. s = Tail(q)
    <3>1. /\ Tail(q) \in Seq(Call) /\ Len(Tail(q)) = Len(q) - 1
          /\ \A i \in 1..Len(Tail(q)) : Tail(q)[i] = q[i + 1]
      BY <2>5, <2>7, HeadTailProperties
    <3>2. Len(s) = Len(Tail(q)) /\ Len(s) \in Nat
      BY <2>2, <2>3, <2>5, <2>6, <3>1
    <3>3. ASSUME NEW i \in 1..Len(s)
          PROVE  s[i] = Tail(q)[i]
      <4>1. /\ i + 1 \in 1..(Len(plan) - Progress(plan))
            /\ Progress(plan) + 1 + i \in DOMAIN plan
            /\ Progress(plan) + (i + 1) = Progress(plan) + 1 + i
        BY <2>2, <2>3, <2>6, <3>2
      <4>2. s[i] = plan[Progress(plan) + 1 + i].call
        BY <2>2, <2>6, <4>1
      <4>3. Tail(q)[i] = q[i + 1]
        BY <3>1, <3>2
      <4> QED
        BY <2>5, <4>1, <4>2, <4>3
    <3> QED
      BY <2>6, <3>1, <3>2, <3>3, SeqEqual
  <2>10. log' = Append(log, c)
    <3>1. log \in Seq(Call) /\ Len(log) = Len(served) /\ DOMAIN log = 1..Len(served)
      BY <1>0, ServedCalls DEF TypeOK
    <3>2. c \in Call
      BY <1>0, <2>1, NextCallFacts
    <3>3. PICK a : a = Append(log, c)
      OBVIOUS
    <3>4. /\ a \in Seq(Call) /\ Len(a) = Len(served) + 1
          /\ \A i \in 1..Len(served) : a[i] = log[i]
          /\ a[Len(served) + 1] = c
      BY <3>1, <3>2, <3>3, AppendProperties
    <3>5. /\ a \in [1..(Len(served) + 1) -> Call]
      BY <3>4, LenProperties
    <3>6. \A i \in 1..(Len(served) + 1) : a[i] = served'[i].call
      <4> SUFFICES ASSUME NEW i \in 1..(Len(served) + 1)
                   PROVE  a[i] = served'[i].call
        OBVIOUS
      <4>1. CASE i \in 1..Len(served)
        BY <2>2, <2>3, <3>4, <4>1
      <4>2. CASE i = Len(served) + 1
        BY <2>2, <3>4, <4>2
      <4> QED
        BY <2>3, <4>1, <4>2
    <3>7. log' = [i \in 1..(Len(served) + 1) |-> served'[i].call]
      BY <2>2
    <3> QED
      BY <3>3, <3>5, <3>6, <3>7
  <2> QED
    BY <2>4, <2>5, <2>6, <2>7, <2>8, <2>9, <2>10 DEF Queue!Serve
<1>10. CASE FinishPlan
  <2>1. /\ at = "run" /\ NextExecutable(plan) = {} /\ UNCHANGED served
    BY <1>10 DEF FinishPlan, Bookkeeping
  <2>2. Planned(plan) = {}
    BY <1>0, <2>1, PlanFacts DEF CanMakeProgress
  <2>3. at' = "generate"
    BY <1>10, <2>2 DEF FinishPlan
  <2>4. Waiting = <<>>
    <3>1. Len(plan) - Progress(plan) = 0
      BY <1>0, <2>2, PlanFacts
    <3>2. Waiting \in Seq(Call) /\ Len(Waiting) = 0
      BY <1>0, <3>1, WaitingCalls DEF Waiting, TypeOK
    <3> QED
      BY <3>2, EmptySeq
  <2>5. Queue!Resume
    BY <2>1, <2>3, <2>4 DEF Queue!Resume
  <2> QED
    BY <2>5 DEF Queue!Next
<1> QED
  BY <1>1, <1>3, <1>4, <1>5, <1>6, <1>7, <1>8, <1>9, <1>10
  DEF Next, Generate, RunCall, Queue!Next

\* The tool loop keeps the promise of ToolQueue: the calls of an answer are
\* served first come first served, all of them before the model is asked
\* again, and never more than the budget has left.
THEOREM QueueImplemented == Spec => ImplementsQueue
<1>1. Init => Queue!Init
  BY QueueInit
<1>2. IInv /\ IInv' /\ [Next]_vars => [Queue!Next]_(Queue!queueVars)
  BY QueueStep
<1> QED
  BY <1>1, <1>2, Inductive, PTL DEF Spec, ImplementsQueue, Queue!Spec

(***************************************************************************)
(* What the loop leaves behind.                                            *)
(***************************************************************************)

\* The steps of a request, by what they do to its plan.
LEMMA StepKinds ==
  ASSUME IInv, [Next]_vars
  PROVE  \/ UNCHANGED vars
         \/ /\ at # "done"
            /\ UNCHANGED <<turns, plan, steps, served, started>> /\ outcome' # "answer"
            /\ at' = "done" \/ (at \in {"check", "run"} /\ at' \in {"run", "generate"})
         \/ FinalAnswer
         \/ \E calls \in Proposals : ParsePlan(calls)
         \/ \E c \in Call : StartTool(c)
         \/ \E c \in Call : \E r \in Results :
              /\ at \in {"run", "execute"} /\ NextCall(c) /\ Serve(c, r)
              /\ UNCHANGED started
<1>0. at # "done" => outcome = "none"
  BY DEF IInv, LoopInv
<1>1. CASE UNCHANGED vars
  BY <1>1
<1>2. CASE ProviderFails \/ MalformedCall \/ ToolTimesOut \/ ToolRaises
  BY <1>2 DEF ProviderFails, MalformedCall, ToolTimesOut, ToolRaises, End, Bookkeeping
<1>3. CASE FinalAnswer
  BY <1>3
<1>4. ASSUME NEW calls \in Proposals,
             DuplicateCallId(calls) \/ UnknownDependency(calls)
      PROVE  /\ at # "done" /\ at' = "done" /\ outcome' # "answer"
             /\ UNCHANGED <<turns, plan, steps, served, started>>
  BY <1>4 DEF DuplicateCallId, UnknownDependency, End, Bookkeeping
<1>5. ASSUME NEW calls \in Proposals, ParsePlan(calls)
      PROVE  \E cs \in Proposals : ParsePlan(cs)
  BY <1>5
<1>6. CASE CheckPlan
  BY <1>0, <1>6 DEF CheckPlan, End, Bookkeeping
<1>7. ASSUME NEW c \in {plan[i].call : i \in DOMAIN plan},
             NotPermitted(c) \/ ToolNotFound(c) \/ PolicyDenies(c)
      PROVE  /\ at # "done" /\ at' = "done" /\ outcome' # "answer"
             /\ UNCHANGED <<turns, plan, steps, served, started>>
  BY <1>7 DEF NotPermitted, ToolNotFound, PolicyDenies, End, Bookkeeping
<1>8. ASSUME NEW c \in {plan[i].call : i \in DOMAIN plan}
      PROVE  c \in Call
  BY <1>8, PlanCallType DEF IInv, TypeOK
<1>9. ASSUME NEW c \in {plan[i].call : i \in DOMAIN plan},
             InvalidArguments(c) \/ \E r \in Results : ToolReturns(c, r)
      PROVE  \E r \in Results : /\ at \in {"run", "execute"} /\ NextCall(c)
                                /\ Serve(c, r) /\ UNCHANGED started
  BY <1>9 DEF InvalidArguments, ToolReturns, Results
<1>10. CASE FinishPlan
  BY <1>0, <1>10 DEF FinishPlan, End, Bookkeeping
<1> QED
  BY <1>1, <1>2, <1>3, <1>4, <1>5, <1>6, <1>7, <1>8, <1>9, <1>10
  DEF Next, Generate, RunCall

(***************************************************************************)
(* No call of a plan is started twice.                                     *)
(***************************************************************************)

LEMMA StartedInit == Init => StartedInv
BY DEF Init, StartedInv, StartedOnce

\* A new plan starts with no call of it begun.
LEMMA StartedNewPlan ==
  ASSUME IInv, StartedInv, steps' = steps + 1, UNCHANGED started
  PROVE  StartedInv'
<1>1. steps \in Nat
  BY DEF IInv, TypeOK
<1>2. ASSUME NEW i \in DOMAIN started
      PROVE  started[i].step <= steps /\ started[i].step \in Nat
  <2>1. started[i] \in Event
    BY LenProperties, ElementOfSeq DEF IInv, TypeOK
  <2> QED
    BY <2>1 DEF StartedInv, Event
<1>3. \A i \in DOMAIN started : started[i].step <= steps' /\ started[i].step # steps'
  BY <1>1, <1>2
<1>4. StartedOnce'
  BY DEF StartedInv, StartedOnce
<1> QED
  BY <1>3, <1>4 DEF StartedInv

LEMMA StartedStart ==
  ASSUME IInv, StartedInv, NEW c \in Call, StartTool(c)
  PROVE  StartedInv'
<1>1. /\ at = "run" /\ at' = "execute" /\ NextCall(c)
      /\ started' = Append(started, [step |-> steps, call |-> c])
      /\ UNCHANGED <<plan, steps>>
  BY DEF StartTool
<1>2. TypeOK /\ SequentialPlan(plan)
  BY DEF IInv
<1>3. /\ Progress(plan) \in Nat /\ DOMAIN plan = 1..Len(plan) /\ Len(plan) \in Nat
      /\ Progress(plan) + 1 \in DOMAIN plan
      /\ c = plan[Progress(plan) + 1].call
  BY <1>1, <1>2, PlanFacts, NextCallFacts
<1>4. [step |-> steps, call |-> c] \in Event
  BY <1>2 DEF TypeOK, Event
<1>5. PICK n \in Nat : n = Len(started) /\ DOMAIN started = 1..n
  BY <1>2, LenProperties DEF TypeOK
<1>6. /\ DOMAIN started' = 1..(n + 1)
      /\ \A i \in 1..n : started'[i] = started[i]
      /\ started'[n + 1] = [step |-> steps, call |-> c]
  BY <1>1, <1>2, <1>4, <1>5, AppendProperties, LenProperties DEF TypeOK
<1>7. Begun = Progress(plan) /\ Begun' = Progress(plan) + 1
  BY <1>1, <1>3 DEF Begun
\* The calls begun before are other calls of the plan.
<1>8. ASSUME NEW i \in 1..n, started[i].step = steps
      PROVE  started[i].call.id # c.id
  <2>1. PICK k \in DOMAIN plan : k <= Progress(plan) /\ plan[k].call = started[i].call
    BY <1>5, <1>7, <1>8 DEF StartedInv
  <2>2. k # Progress(plan) + 1
    BY <1>3, <2>1
  <2>3. plan[k].call.id # plan[Progress(plan) + 1].call.id
    BY <1>2, <1>3, <2>2 DEF SequentialPlan
  <2> QED
    BY <1>3, <2>1, <2>3
<1>9. ASSUME NEW i \in DOMAIN started'
      PROVE  /\ started'[i].step <= steps'
             /\ started'[i].step = steps' =>
                  \E k \in DOMAIN plan' : k <= Begun' /\ plan'[k].call = started'[i].call
  <2>1. CASE i = n + 1
    <3>1. started'[i].step = steps /\ started'[i].call = c
      BY <1>6, <2>1
    <3>2. steps <= steps
      BY <1>2 DEF TypeOK
    <3> QED
      BY <1>1, <1>3, <1>7, <3>1, <3>2
  <2>2. CASE i \in 1..n
    <3>1. started'[i] = started[i]
      BY <1>6, <2>2
    <3>2. started[i].step <= steps
      BY <1>5, <2>2 DEF StartedInv
    <3>3. ASSUME started[i].step = steps
          PROVE  \E k \in DOMAIN plan : k <= Begun' /\ plan[k].call = started[i].call
      <4>1. PICK k \in DOMAIN plan : k <= Progress(plan) /\ plan[k].call = started[i].call
        BY <1>5, <1>7, <2>2, <3>3 DEF StartedInv
      <4>2. k <= Begun'
        BY <1>3, <1>7, <4>1
      <4> QED
        BY <4>1, <4>2
    <3> QED
      BY <1>1, <3>1, <3>2, <3>3
  <2> QED
    BY <1>5, <1>6, <2>1, <2>2
<1>10. StartedOnce'
  <2> SUFFICES ASSUME NEW i \in 1..(n + 1), NEW j \in 1..(n + 1),
                      started'[i].step = started'[j].step,
                      started'[i].call.id = started'[j].call.id
               PROVE  i = j
    BY <1>6 DEF StartedOnce
  <2>1. CASE i \in 1..n /\ j \in 1..n
    BY <1>5, <1>6, <2>1 DEF StartedInv, StartedOnce
  <2>2. CASE i \in 1..n /\ j = n + 1
    BY <1>6, <1>8, <2>2
  <2>3. CASE i = n + 1 /\ j \in 1..n
    BY <1>6, <1>8, <2>3
  <2>4. CASE i = n + 1 /\ j = n + 1
    BY <2>4
  <2> QED
    BY <1>5, <2>1, <2>2, <2>3, <2>4
<1> QED
  BY <1>9, <1>10 DEF StartedInv

LEMMA StartedStep ==
  ASSUME IInv, StartedInv, [Next]_vars
  PROVE  StartedInv'
<1>0. TypeOK /\ SequentialPlan(plan)
  BY DEF IInv
<1>1. Progress(plan) \in Nat /\ DOMAIN plan = 1..Len(plan) /\ Len(plan) \in Nat
  BY <1>0, PlanFacts
\* Steps that keep the plan's calls and let no fewer of them have begun.
<1>2. ASSUME UNCHANGED <<steps, started>>, DOMAIN plan' = DOMAIN plan,
             \A k \in DOMAIN plan : plan'[k].call = plan[k].call,
             \A k \in DOMAIN plan : k <= Begun => k <= Begun'
      PROVE  StartedInv'
  <2>1. StartedOnce'
    BY <1>2 DEF StartedInv, StartedOnce
  <2> QED
    BY <1>2, <2>1 DEF StartedInv
<1>3. CASE UNCHANGED vars
  BY <1>2, <1>3 DEF vars, Begun
<1>4. CASE /\ UNCHANGED <<turns, plan, steps, started>> /\ at # "done"
           /\ at' = "done" \/ (at \in {"check", "run"} /\ at' \in {"run", "generate"})
  <2>1. CASE at' = "done"
    <3>1. Begun' = Progress(plan) + 1 /\ Begun \in {Progress(plan), Progress(plan) + 1}
      BY <1>1, <1>4, <2>1 DEF Begun
    <3>2. \A k \in DOMAIN plan : k <= Begun => k <= Begun'
      BY <1>1, <3>1
    <3> QED
      BY <1>2, <1>4, <3>2
  <2>2. CASE at \in {"check", "run"} /\ at' \in {"run", "generate"}
    <3>1. Begun' = Begun
      BY <1>4, <2>2 DEF Begun
    <3> QED
      BY <1>2, <1>4, <3>1
  <2> QED
    BY <1>4, <2>1, <2>2
<1>5. CASE FinalAnswer
  BY <1>5, StartedNewPlan DEF FinalAnswer
<1>6. ASSUME NEW calls \in Proposals, ParsePlan(calls)
      PROVE  StartedInv'
  BY <1>6, StartedNewPlan DEF ParsePlan
<1>7. ASSUME NEW c \in Call, StartTool(c)
      PROVE  StartedInv'
  BY <1>7, StartedStart
<1>8. ASSUME NEW c \in Call, NEW r \in Results, at \in {"run", "execute"},
             NextCall(c), Serve(c, r), UNCHANGED started
      PROVE  StartedInv'
  <2>1. /\ DOMAIN plan' = DOMAIN plan
        /\ \A i \in DOMAIN plan : plan'[i].call = plan[i].call
        /\ Progress(plan') = Progress(plan) + 1
    BY <1>8, ServedStep
  <2>2. at' = "run" /\ steps' = steps
    BY <1>8 DEF Serve
  <2>3. Begun' = Progress(plan) + 1 /\ Begun \in {Progress(plan), Progress(plan) + 1}
    BY <1>1, <1>8, <2>1, <2>2 DEF Begun
  <2>4. \A k \in DOMAIN plan : k <= Begun => k <= Begun'
    BY <1>1, <2>3
  <2> QED
    BY <1>2, <1>8, <2>1, <2>2, <2>4
<1> QED
  BY <1>3, <1>4, <1>5, <1>6, <1>7, <1>8, StepKinds

\* However plans repeat ids and tools, an executor runs at most once for a call.
THEOREM CallsStartOnce == Spec => []StartedOnce
<1>1. Init => StartedInv
  BY StartedInit
<1>2. IInv /\ StartedInv /\ [Next]_vars => StartedInv'
  BY StartedStep
<1>3. StartedInv => StartedOnce
  BY DEF StartedInv
<1> QED
  BY <1>1, <1>2, <1>3, Inductive, PTL DEF Spec

(***************************************************************************)
(* No call that was started is lost.                                       *)
(***************************************************************************)

\* While an executor is at work, nothing but its end moves the loop.
LEMMA ExecutorEnds ==
  ASSUME IInv, [Next]_vars, at = "execute"
  PROVE  \/ UNCHANGED vars
         \/ ToolTimesOut \/ ToolRaises
         \/ \E c \in Call : \E r \in Results : ToolReturns(c, r)
<1>1. ~Generate
  BY DEF Generate, ProviderFails, MalformedCall, FinalAnswer, DuplicateCallId,
     UnknownDependency, ParsePlan
<1>2. ~CheckPlan /\ ~FinishPlan
  BY DEF CheckPlan, FinishPlan
<1>3. ASSUME RunCall
      PROVE  \E c \in Call : \E r \in Results : ToolReturns(c, r)
  <2>1. PICK c \in {plan[i].call : i \in DOMAIN plan} : \E r \in Results : ToolReturns(c, r)
    BY <1>3 DEF RunCall, NotPermitted, ToolNotFound, PolicyDenies, InvalidArguments, StartTool
  <2>2. c \in Call
    BY <2>1, PlanCallType DEF IInv, TypeOK
  <2> QED
    BY <2>1, <2>2
<1> QED
  BY <1>1, <1>2, <1>3 DEF Next

\* A request that has ended stays as it is.
LEMMA DoneStays ==
  ASSUME [Next]_vars, at = "done"
  PROVE  UNCHANGED vars
<1>1. ~Generate
  BY DEF Generate, ProviderFails, MalformedCall, FinalAnswer, DuplicateCallId,
     UnknownDependency, ParsePlan
<1>2. ~RunCall
  BY DEF RunCall, NotPermitted, ToolNotFound, PolicyDenies, InvalidArguments, StartTool,
     ToolReturns
<1> QED
  BY <1>1, <1>2 DEF Next, CheckPlan, ToolTimesOut, ToolRaises, FinishPlan

\* What has been served stays served.
LEMMA ServedStays ==
  ASSUME IInv, NEW c \in Call, NEW r \in Results, Serve(c, r)
  PROVE  /\ \A j \in DOMAIN served : j \in DOMAIN served' /\ served'[j] = served[j]
         /\ \E j \in DOMAIN served' : served'[j] = [step |-> steps, call |-> c]
<1>1. served \in Seq(Event) /\ [step |-> steps, call |-> c] \in Event
  BY DEF IInv, TypeOK, Event
<1>2. PICK n \in Nat : n = Len(served) /\ DOMAIN served = 1..n
  BY <1>1, LenProperties
<1>3. served' = Append(served, [step |-> steps, call |-> c])
  BY DEF Serve
<1>4. /\ DOMAIN served' = 1..(n + 1)
      /\ \A i \in 1..n : served'[i] = served[i]
      /\ served'[n + 1] = [step |-> steps, call |-> c]
  BY <1>1, <1>2, <1>3, AppendProperties, LenProperties
<1>5. n + 1 \in 1..(n + 1) /\ \A i \in 1..n : i \in 1..(n + 1)
  BY <1>2
<1> QED
  BY <1>2, <1>4, <1>5

LEMMA ExecutingStart ==
  ASSUME IInv, ExecutingInv, NEW c \in Call, StartTool(c)
  PROVE  ExecutingInv'
<1>1. /\ at = "run" /\ at' = "execute" /\ NextCall(c)
      /\ started' = Append(started, [step |-> steps, call |-> c])
      /\ UNCHANGED <<plan, steps, served>>
  BY DEF StartTool
<1>2. TypeOK /\ SequentialPlan(plan) /\ outcome = "none"
  BY <1>1 DEF IInv, LoopInv
<1>3. c = plan[Progress(plan) + 1].call
  BY <1>1, <1>2, NextCallFacts
<1>4. [step |-> steps, call |-> c] \in Event
  BY <1>2 DEF TypeOK, Event
<1>5. PICK n \in Nat : n = Len(started) /\ DOMAIN started = 1..n
  BY <1>2, LenProperties DEF TypeOK
<1>6. /\ DOMAIN started' = 1..(n + 1) /\ Len(started') = n + 1
      /\ \A i \in 1..n : started'[i] = started[i]
      /\ started'[n + 1] = [step |-> steps, call |-> c]
  BY <1>1, <1>2, <1>4, <1>5, AppendProperties, LenProperties DEF TypeOK
<1>7. ASSUME NEW i \in 1..n
      PROVE  \E j \in DOMAIN served' : served'[j] = started'[i]
  BY <1>1, <1>2, <1>5, <1>6, <1>7 DEF ExecutingInv, NoStartIsLost
<1>8. \A i \in 1..(n + 1) : i \in 1..n \/ i = n + 1
  BY <1>5
<1>9. NoStartIsLost'
  BY <1>1, <1>6, <1>7, <1>8 DEF NoStartIsLost
<1>10. n + 1 > 0
  BY <1>5
<1> QED
  BY <1>1, <1>3, <1>6, <1>9, <1>10 DEF ExecutingInv

LEMMA ExecutingStep ==
  ASSUME IInv, ExecutingInv, [Next]_vars
  PROVE  ExecutingInv'
<1>0. TypeOK /\ SequentialPlan(plan) /\ (outcome # "none" <=> at = "done")
  BY DEF IInv, LoopInv
<1>1. CASE UNCHANGED vars
  BY <1>1 DEF vars, ExecutingInv, NoStartIsLost
<1>2. CASE at = "execute" /\ (ToolTimesOut \/ ToolRaises)
  <2>1. /\ at' = "done" /\ outcome' \in {"tool_timeout", "tool_execution_failed"}
        /\ UNCHANGED <<started, served>>
    BY <1>2 DEF ToolTimesOut, ToolRaises, End, Bookkeeping
  <2> QED
    BY <2>1 DEF ExecutingInv, NoStartIsLost
<1>3. ASSUME at = "execute", NEW c \in Call, NEW r \in Results, ToolReturns(c, r)
      PROVE  ExecutingInv'
  <2>1. Serve(c, r) /\ NextCall(c) /\ UNCHANGED started /\ at' = "run"
    BY <1>3 DEF ToolReturns, Serve
  <2>2. c = plan[Progress(plan) + 1].call
    BY <1>0, <2>1, NextCallFacts
  <2>3. /\ \A j \in DOMAIN served : j \in DOMAIN served' /\ served'[j] = served[j]
        /\ \E j \in DOMAIN served' : served'[j] = [step |-> steps, call |-> c]
    BY <2>1, ServedStays
  <2>4. started[Len(started)] = [step |-> steps, call |-> c]
    BY <1>3, <2>2 DEF ExecutingInv
  <2>5. ASSUME NEW i \in DOMAIN started
        PROVE  \E j \in DOMAIN served' : served'[j] = started[i]
    <3>1. CASE i = Len(started)
      BY <2>3, <2>4, <3>1
    <3>2. CASE i # Len(started)
      BY <2>3, <3>2 DEF ExecutingInv, NoStartIsLost
    <3> QED
      BY <3>1, <3>2
  <2> QED
    BY <2>1, <2>5 DEF ExecutingInv, NoStartIsLost
<1>4. ASSUME at # "execute", at # "done"
      PROVE  ExecutingInv'
  <2>0. \A i \in DOMAIN started : \E j \in DOMAIN served : served[j] = started[i]
    BY <1>0, <1>4 DEF ExecutingInv, NoStartIsLost
  <2>1. ASSUME UNCHANGED <<started, served>>, at' # "execute"
        PROVE  ExecutingInv'
    BY <2>0, <2>1 DEF ExecutingInv, NoStartIsLost
  <2>2. CASE /\ UNCHANGED <<turns, plan, steps, served, started>>
             /\ at' = "done" \/ (at \in {"check", "run"} /\ at' \in {"run", "generate"})
    BY <2>1, <2>2
  <2>3. CASE FinalAnswer
    BY <2>1, <2>3 DEF FinalAnswer, End
  <2>4. ASSUME NEW calls \in Proposals, ParsePlan(calls)
        PROVE  ExecutingInv'
    BY <2>1, <2>4 DEF ParsePlan
  <2>5. ASSUME NEW c \in Call, StartTool(c)
        PROVE  ExecutingInv'
    BY <2>5, ExecutingStart
  <2>6. ASSUME NEW c \in Call, NEW r \in Results, Serve(c, r), UNCHANGED started
        PROVE  ExecutingInv'
    <3>1. \A j \in DOMAIN served : j \in DOMAIN served' /\ served'[j] = served[j]
      BY <2>6, ServedStays
    <3>2. at' = "run"
      BY <2>6 DEF Serve
    <3>3. \A i \in DOMAIN started : \E j \in DOMAIN served' : served'[j] = started[i]
      BY <2>0, <3>1
    <3> QED
      BY <2>6, <3>2, <3>3 DEF ExecutingInv, NoStartIsLost
  <2> QED
    BY <1>1, <2>2, <2>3, <2>4, <2>5, <2>6, StepKinds
<1>5. CASE at = "done"
  BY <1>1, <1>5, DoneStays
<1> QED
  BY <1>1, <1>2, <1>3, <1>4, <1>5, ExecutorEnds

\* A call that was started has its result in the conversation, or the client is told
\* that it failed.
THEOREM StartsAreAccounted == Spec => []NoStartIsLost
<1>1. Init => ExecutingInv
  BY DEF Init, ExecutingInv, NoStartIsLost
<1>2. IInv /\ ExecutingInv /\ [Next]_vars => ExecutingInv'
  BY ExecutingStep
<1>3. ExecutingInv => NoStartIsLost
  BY DEF ExecutingInv
<1> QED
  BY <1>1, <1>2, <1>3, Inductive, PTL DEF Spec

(***************************************************************************)
(* Every call has exactly one result behind it.                            *)
(***************************************************************************)

\* The results of the call at p among the first n turns.
ResultsWithin(ts, n, p) ==
  {q \in (p + 1)..n : /\ ts[q].type = "result"
                      /\ ts[q].id = ts[p].call.id
                      /\ \A m \in p..q : ts[m].type # "assistant"}

\* The results of a call lie before the next turn of the assistant.
LEMMA ResultsBefore ==
  ASSUME NEW ts \in Seq(Turn), NEW n \in Nat, n <= Len(ts),
         n = Len(ts) \/ ts[n + 1].type = "assistant", NEW p \in 1..n
  PROVE  ResultsOf(ts, p) = ResultsWithin(ts, n, p)
<1>1. Len(ts) \in Nat
  BY LenProperties
<1>2. ASSUME NEW q \in ResultsOf(ts, p)
      PROVE  q \in (p + 1)..n
  <2>1. q \in (p + 1)..Len(ts) /\ \A m \in p..q : ts[m].type # "assistant"
    BY <1>2 DEF ResultsOf
  <2>2. ASSUME ~(q <= n) PROVE FALSE
    <3>1. n + 1 \in p..q /\ n # Len(ts)
      BY <1>1, <2>1, <2>2
    <3> QED
      BY <2>1, <3>1
  <2> QED
    BY <1>1, <2>1, <2>2
<1>3. \A q \in (p + 1)..n : q \in (p + 1)..Len(ts)
  BY <1>1
<1> QED
  BY <1>2, <1>3 DEF ResultsOf, ResultsWithin

\* Turns behind that point change nothing.
LEMMA SameResults ==
  ASSUME NEW ts \in Seq(Turn), NEW us \in Seq(Turn), NEW n \in Nat,
         n <= Len(ts), n = Len(ts) \/ ts[n + 1].type = "assistant",
         n <= Len(us), n = Len(us) \/ us[n + 1].type = "assistant",
         \A i \in 1..n : us[i] = ts[i], NEW p \in 1..n
  PROVE  ResultsOf(us, p) = ResultsOf(ts, p)
<1>1. ASSUME NEW q \in (p + 1)..n
      PROVE  /\ us[q] = ts[q] /\ us[p] = ts[p]
             /\ \A m \in p..q : us[m] = ts[m]
  <2>1. q \in 1..n /\ \A m \in p..q : m \in 1..n
    OBVIOUS
  <2> QED
    BY <2>1
<1>2. ResultsWithin(us, n, p) = ResultsWithin(ts, n, p)
  BY <1>1 DEF ResultsWithin
<1>3. ResultsOf(ts, p) = ResultsWithin(ts, n, p)
  BY ResultsBefore
<1>4. ResultsOf(us, p) = ResultsWithin(us, n, p)
  BY ResultsBefore
<1> QED
  BY <1>2, <1>3, <1>4

LEMMA Offset ==
  ASSUME NEW b \in Nat, NEW n \in Nat, NEW p \in (b + 1)..(b + n)
  PROVE  \E k \in 1..n : p = b + k
<1>1. p - b \in 1..n /\ p = b + (p - b)
  OBVIOUS
<1> QED
  BY <1>1

LEMMA ResultBehindCall ==
  ASSUME NEW b \in Nat, NEW n \in Nat, NEW k \in 1..n
  PROVE  /\ (b + n) + k \in (b + k + 1)..(b + n + n)
         /\ \A m \in (b + k)..((b + n) + k) : m \in (b + 1)..(b + n + n)
OBVIOUS

LEMMA SplitFacts ==
  ASSUME IInv, NEW b, TurnsSplit(b), b = Len(turns) - Len(plan) - Progress(plan)
  PROVE  /\ b \in Nat /\ Len(turns) \in Nat /\ DOMAIN turns = 1..Len(turns)
         /\ Len(plan) \in Nat /\ DOMAIN plan = 1..Len(plan)
         /\ Progress(plan) \in 0..Len(plan)
         /\ Len(turns) = b + Len(plan) + Progress(plan)
<1>1. /\ Len(turns) \in Nat /\ DOMAIN turns = 1..Len(turns)
      /\ Len(plan) \in Nat /\ DOMAIN plan = 1..Len(plan)
      /\ Progress(plan) \in 0..Len(plan)
  BY PlanFacts, LenProperties DEF IInv, TypeOK
<1> QED
  BY <1>1 DEF TurnsSplit

\* Once all calls of the plan are done, its calls have their results, too.
LEMMA CallsAnswered ==
  ASSUME IInv, NEW b, TurnsSplit(b), b = Len(turns) - Len(plan) - Progress(plan),
         Progress(plan) = Len(plan), NEW p \in DOMAIN turns, turns[p].type = "call"
  PROVE  Cardinality(ResultsOf(turns, p)) = 1
<1>1. PICK n : n = Len(plan)
  OBVIOUS
<1>2. /\ b \in Nat /\ n \in Nat /\ Len(turns) = (b + n) + n
      /\ DOMAIN turns = 1..Len(turns) /\ DOMAIN plan = 1..n
  BY <1>1, SplitFacts
<1>3. /\ \A k \in 1..n : turns[b + k] = CallTurn(plan[k].call)
      /\ \A k \in 1..n : /\ turns[(b + n) + k].type = "result"
                         /\ turns[(b + n) + k].id = plan[k].call.id
  BY <1>1, <1>2 DEF TurnsSplit
<1>4. ASSUME NEW k \in 1..n
      PROVE  turns[b + k].type = "call" /\ turns[b + k].call = plan[k].call
  <2>1. turns[b + k] = CallTurn(plan[k].call)
    BY <1>3
  <2> QED
    BY <2>1 DEF CallTurn
<1>5. \A m \in (b + 1)..(b + n) : \E k \in 1..n : m = b + k
  BY <1>2, Offset
<1>6. \A m \in (b + n + 1)..(b + n + n) : \E k \in 1..n : m = (b + n) + k
  <2>1. b + n \in Nat
    BY <1>2
  <2> QED
    BY <1>2, <2>1, Offset
<1>7. \A m \in (b + 1)..(b + n + n) :
        m \in (b + 1)..(b + n) \/ m \in (b + n + 1)..(b + n + n)
  BY <1>2
<1>8. p \in 1..b \/ p \in (b + 1)..(b + n) \/ p \in (b + n + 1)..(b + n + n)
  BY <1>2
<1>9. CASE p \in 1..b
  BY <1>9 DEF TurnsSplit
<1>10. CASE p \in (b + 1)..(b + n)
  <2>1. PICK k \in 1..n : p = b + k
    BY <1>5, <1>10
  <2>2. PICK r : r = (b + n) + k
    OBVIOUS
  <2>3. r \in (p + 1)..Len(turns) /\ \A m \in p..r : m \in (b + 1)..(b + n + n)
    BY <1>2, <2>1, <2>2, ResultBehindCall
  <2>4. turns[p].call = plan[k].call
    BY <1>4, <2>1
  <2>5. ASSUME NEW m \in (b + 1)..(b + n + n)
        PROVE  turns[m].type # "assistant"
    BY <1>3, <1>4, <1>5, <1>6, <1>7
  <2>6. r \in ResultsOf(turns, p)
    <3>1. turns[r].type = "result" /\ turns[r].id = turns[p].call.id
      BY <1>3, <2>2, <2>4
    <3> QED
      BY <2>3, <2>5, <3>1 DEF ResultsOf
  <2>7. ASSUME NEW q \in ResultsOf(turns, p)
        PROVE  q = r
    <3>1. /\ q \in (p + 1)..Len(turns) /\ turns[q].type = "result"
          /\ turns[q].id = plan[k].call.id
      BY <2>4, <2>7 DEF ResultsOf
    <3>2. q \in (b + 1)..(b + n + n)
      <4>1. /\ k \in 1..n /\ p = b + k /\ q \in (p + 1)..Len(turns)
            /\ b \in Nat /\ n \in Nat /\ Len(turns) = (b + n) + n
        BY <1>2, <2>1, <3>1, Zenon
      <4> QED
        BY ONLY <4>1
    <3>3. q \notin (b + 1)..(b + n)
      BY <1>4, <1>5, <3>1
    <3>4. PICK j \in 1..n : q = (b + n) + j
      BY <1>6, <1>7, <3>2, <3>3
    <3>5. plan[j].call.id = plan[k].call.id
      BY <1>3, <3>1, <3>4
    <3>6. j = k
      BY <1>2, <3>5 DEF IInv, SequentialPlan
    <3> QED
      BY <2>2, <3>4, <3>6
  <2>8. ResultsOf(turns, p) = {r}
    BY <2>6, <2>7
  <2> QED
    BY <2>8, FS_Singleton
<1>11. CASE p \in (b + n + 1)..(b + n + n)
  BY <1>3, <1>6, <1>11
<1> QED
  BY <1>8, <1>9, <1>10, <1>11

\* The turns a request starts with hold no calls.
LEMMA TurnsInit == Init => TurnsInv
<1> SUFFICES ASSUME Init PROVE TurnsSplit(Len(turns) - Len(plan) - Progress(plan))
  BY DEF TurnsInv
<1>1. IInv /\ plan = <<>> /\ turns \in RequestTurns
  BY InitIInv DEF Init
<1>2. Len(plan) = 0 /\ DOMAIN plan = {}
  BY <1>1
<1>3. Progress(plan) = 0 /\ Len(turns) \in Nat /\ DOMAIN turns = 1..Len(turns)
  BY <1>1, <1>2, PlanFacts, LenProperties DEF IInv, TypeOK
<1>4. PICK b : b = Len(turns) - Len(plan) - Progress(plan)
  OBVIOUS
<1>5. b = Len(turns)
  BY <1>2, <1>3, <1>4
<1>6. \A p \in 1..b : turns[p].type # "call"
  BY <1>1, <1>3, <1>5, ClientsSendTexts DEF UserTurn, AssistantTurn
<1>7. TurnsSplit(b)
  BY <1>1, <1>2, <1>3, <1>5, <1>6 DEF TurnsSplit
<1> QED
  BY <1>4, <1>7

\* A new answer of the model: the conversation so far, its turn, its calls.
LEMMA TurnsParse ==
  ASSUME IInv, IInv', TurnsInv, NEW calls \in Proposals, ParsePlan(calls)
  PROVE  TurnsInv'
<1>1. /\ at = "generate" /\ at' = "check" /\ plan' = Materialize(calls)
      /\ turns' = (turns \o <<AssistantTurn("tool_plan")>>) \o CallTurns(calls)
      /\ ~DuplicateId(calls) /\ DeclaredInOrder(calls)
  BY DEF ParsePlan
<1>2. calls \in Seq(Call) /\ turns \in Seq(Turn) /\ turns' \in Seq(Turn)
  BY LoopConstantsOK DEF IInv, TypeOK
<1>3. PICK n \in Nat : n = Len(calls) /\ DOMAIN calls = 1..n
  BY <1>2, LenProperties
<1>4. PICK l \in Nat : l = Len(turns) /\ DOMAIN turns = 1..l
  BY <1>2, LenProperties
<1>5. /\ Len(plan') = n /\ Progress(plan') = 0 /\ DOMAIN plan' = 1..n
      /\ \A k \in 1..n : plan'[k].call = calls[k]
  <2>1. /\ plan' \in Seq(Node) /\ Len(plan') = n /\ Progress(plan') = 0
        /\ \A k \in 1..n : plan'[k].call = calls[k]
    BY <1>1, <1>2, <1>3, MaterializedPlan
  <2> QED
    BY <2>1, LenProperties
<1>6. /\ Len(turns') = (l + 1) + n
      /\ \A k \in 1..n : turns'[(l + 1) + k] = CallTurn(calls[k])
      /\ \A i \in 1..l : turns'[i] = turns[i]
      /\ turns'[l + 1] = AssistantTurn("tool_plan")
  BY <1>1, <1>2, <1>3, <1>4, ParsedTurns, Zenon
<1>7. turns'[l + 1].type = "assistant"
  BY <1>6 DEF AssistantTurn
<1>8. Progress(plan) = Len(plan)
  BY <1>1, PlanFacts DEF IInv, LoopInv
<1>9. TurnsSplit(Len(turns) - Len(plan) - Progress(plan))
  BY <1>1 DEF TurnsInv
<1>10. ASSUME NEW p \in 1..l, turns[p].type = "call"
       PROVE  Cardinality(ResultsOf(turns', p)) = 1
  <2>1. PICK b : b = Len(turns) - Len(plan) - Progress(plan)
    OBVIOUS
  <2>2. Cardinality(ResultsOf(turns, p)) = 1
    BY <1>4, <1>8, <1>9, <1>10, <2>1, CallsAnswered
  <2>3. ResultsOf(turns', p) = ResultsOf(turns, p)
    <3>1. l <= Len(turns) /\ l <= Len(turns')
      BY <1>3, <1>4, <1>6
    <3> QED
      BY <1>2, <1>4, <1>6, <1>7, <3>1, SameResults
  <2> QED
    BY <2>2, <2>3
<1>11. ASSUME NEW p \in 1..(l + 1), turns'[p].type = "call"
       PROVE  Cardinality(ResultsOf(turns', p)) = 1
  <2>1. p # l + 1
    BY <1>7, <1>11
  <2>2. p \in 1..l
    BY <1>4, <2>1
  <2> QED
    BY <1>6, <1>10, <1>11, <2>2
<1>12. Len(turns') - Len(plan') - Progress(plan') = l + 1
  BY <1>3, <1>4, <1>5, <1>6
<1>13. PICK b \in Nat : b = l + 1
  BY <1>4
<1>14. \A k \in DOMAIN plan' : turns'[b + k] = CallTurn(plan'[k].call)
  BY <1>5, <1>6, <1>13
<1>15. /\ \A k \in 1..Progress(plan') : FALSE
       /\ b > 0
  BY <1>4, <1>5, <1>13
<1>16. TurnsSplit(b)'
  BY <1>7, <1>11, <1>13, <1>14, <1>15 DEF TurnsSplit
<1> QED
  BY <1>12, <1>13, <1>16 DEF TurnsInv

\* A result goes behind the results that are there.
LEMMA TurnsServe ==
  ASSUME IInv, IInv', TurnsInv, NEW c \in Call, NEW r \in Results,
         at \in {"run", "execute"}, NextCall(c), Serve(c, r)
  PROVE  TurnsInv'
<1>1. PICK b : b = Len(turns) - Len(plan) - Progress(plan)
  OBVIOUS
<1>2. TurnsSplit(b)
  BY <1>1 DEF TurnsInv
<1>3. PICK n : n = Len(plan)
  OBVIOUS
<1>4. PICK k : k = Progress(plan)
  OBVIOUS
<1>5. /\ c = plan[k + 1].call /\ k < n
      /\ Len(plan') = n /\ DOMAIN plan' = DOMAIN plan
      /\ \A i \in DOMAIN plan : plan'[i].call = plan[i].call
      /\ Progress(plan') = k + 1
  BY <1>3, <1>4, ServedStep
<1>6. /\ b \in Nat /\ n \in Nat /\ DOMAIN plan = 1..n /\ k \in 0..n
      /\ Len(turns) = b + n + k /\ Len(turns) \in Nat
  BY <1>1, <1>2, <1>3, <1>4, SplitFacts
<1>7. turns' = Append(turns, ResultTurn(c.id, r))
  BY DEF Serve
<1>8. turns \in Seq(Turn) /\ turns' \in Seq(Turn) /\ ResultTurn(c.id, r) \in Turn
  BY DEF IInv, TypeOK, ResultTurn, Turn, Call
<1>9. /\ Len(turns') = b + n + k + 1
      /\ \A i \in 1..(b + n + k) : turns'[i] = turns[i]
      /\ turns'[b + n + k + 1] = ResultTurn(c.id, r)
  BY <1>6, <1>7, <1>8, AppendProperties
<1>10. plan # <<>> /\ plan' # <<>>
  BY <1>5, <1>6
<1>11. b > 0 /\ turns[b].type = "assistant" /\ turns'[b].type = "assistant"
  <2>1. b > 0 /\ turns[b].type = "assistant"
    BY <1>2, <1>10 DEF TurnsSplit
  <2>2. b \in 1..(b + n + k)
    BY <1>6, <2>1
  <2> QED
    BY <1>9, <2>1, <2>2
<1>12. ASSUME NEW i \in DOMAIN plan'
       PROVE  turns'[b + i] = CallTurn(plan'[i].call)
  <2>1. b + i \in 1..(b + n + k) /\ i \in DOMAIN plan
    BY <1>5, <1>6, <1>12
  <2>2. turns[b + i] = CallTurn(plan[i].call)
    BY <1>2, <2>1 DEF TurnsSplit
  <2> QED
    BY <1>5, <1>9, <2>1, <2>2
<1>13. ASSUME NEW i \in 1..(k + 1)
       PROVE  /\ turns'[b + n + i].type = "result"
              /\ turns'[b + n + i].id = plan'[i].call.id
  <2>1. i \in DOMAIN plan /\ plan'[i].call = plan[i].call
    <3>1. i \in 1..n
      BY <1>5, <1>6
    <3> QED
      BY <1>5, <1>6, <3>1
  <2>2. CASE i \in 1..k
    <3>1. b + n + i \in 1..(b + n + k)
      BY <1>6, <2>2
    <3>2. turns[b + n + i].type = "result" /\ turns[b + n + i].id = plan[i].call.id
      BY <1>2, <1>3, <1>4, <2>2 DEF TurnsSplit
    <3> QED
      BY <1>9, <2>1, <3>1, <3>2
  <2>3. CASE i = k + 1
    <3>1. b + n + i = b + n + k + 1
      BY <1>6, <2>3
    <3>2. turns'[b + n + i] = ResultTurn(c.id, r)
      BY <1>9, <3>1
    <3> QED
      BY <1>5, <2>1, <2>3, <3>2 DEF ResultTurn
  <2> QED
    BY <1>6, <2>2, <2>3
<1>14. ASSUME NEW p \in 1..b, turns'[p].type = "call"
       PROVE  Cardinality(ResultsOf(turns', p)) = 1
  <2>1. PICK m \in Nat : m = b - 1
    BY <1>6, <1>11
  <2>2. /\ m + 1 = b /\ m <= Len(turns) /\ m <= Len(turns')
        /\ \A i \in 1..m : i \in 1..(b + n + k)
    BY <1>6, <1>9, <2>1
  <2>3. p # b
    BY <1>11, <1>14
  <2>4. p \in 1..m /\ p \in 1..(b + n + k)
    BY <1>6, <2>1, <2>2, <2>3
  <2>5. turns[p].type = "call"
    BY <1>9, <1>14, <2>4
  <2>6. Cardinality(ResultsOf(turns, p)) = 1
    BY <1>2, <2>5 DEF TurnsSplit
  <2>7. \A i \in 1..m : turns'[i] = turns[i]
    BY <1>9, <2>2
  <2>8. ResultsOf(turns', p) = ResultsOf(turns, p)
    BY <1>8, <1>11, <2>2, <2>4, <2>7, SameResults
  <2> QED
    BY <2>6, <2>8
<1>15. Len(turns') - Len(plan') - Progress(plan') = b
  BY <1>5, <1>6, <1>9
<1>16. TurnsSplit(b)'
  BY <1>5, <1>6, <1>11, <1>12, <1>13, <1>14 DEF TurnsSplit
<1> QED
  BY <1>15, <1>16 DEF TurnsInv

LEMMA TurnsStep ==
  ASSUME IInv, IInv', TurnsInv, [Next]_vars
  PROVE  TurnsInv'
<1>1. CASE UNCHANGED vars
  BY <1>1 DEF vars, TurnsInv, TurnsSplit
<1>2. CASE at # "done" /\ UNCHANGED <<turns, plan, steps, started>>
  BY <1>2 DEF TurnsInv, TurnsSplit
<1>3. CASE FinalAnswer
  BY <1>3 DEF FinalAnswer, End, TurnsInv
<1>4. ASSUME NEW calls \in Proposals, ParsePlan(calls)
      PROVE  TurnsInv'
  BY <1>4, TurnsParse
<1>5. ASSUME NEW c \in Call, StartTool(c)
      PROVE  TurnsInv'
  BY <1>5 DEF StartTool, TurnsInv, TurnsSplit
<1>6. ASSUME NEW c \in Call, NEW r \in Results, at \in {"run", "execute"},
             NextCall(c), Serve(c, r)
      PROVE  TurnsInv'
  BY <1>6, TurnsServe
<1> QED
  BY <1>1, <1>2, <1>3, <1>4, <1>5, <1>6, StepKinds

\* Whenever the model is asked, each of its calls has exactly one result behind
\* it, before its next answer, whatever ids come back in later answers.
THEOREM ResultsAreComplete == Spec => []EveryCallHasItsResult
<1>1. Init => TurnsInv
  BY TurnsInit
<1>2. IInv /\ IInv' /\ TurnsInv /\ [Next]_vars => TurnsInv'
  BY TurnsStep
<1>3. ASSUME IInv, TurnsInv PROVE EveryCallHasItsResult
  <2> SUFFICES ASSUME at = "generate", NEW p \in DOMAIN turns, turns[p].type = "call"
               PROVE  Cardinality(ResultsOf(turns, p)) = 1
    BY DEF EveryCallHasItsResult
  <2>1. PICK b : b = Len(turns) - Len(plan) - Progress(plan)
    OBVIOUS
  <2>2. TurnsSplit(b)
    BY <1>3, <2>1 DEF TurnsInv
  <2>3. Progress(plan) = Len(plan)
    BY <1>3, PlanFacts DEF IInv, LoopInv
  <2> QED
    BY <1>3, <2>1, <2>2, <2>3, CallsAnswered
<1> QED
  BY <1>1, <1>2, <1>3, Inductive, PTL DEF Spec
==============================================================================
