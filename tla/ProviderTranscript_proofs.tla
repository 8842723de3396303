---------------------- MODULE ProviderTranscript_proofs ----------------------
(***************************************************************************)
(* Proofs about what is made of the turns of a conversation: the steps     *)
(* that TurnHistory rebuilds from them and the messages that a provider is *)
(* sent.                                                                   *)
(*                                                                         *)
(* Both are recursive functions over the turns.  What such a function      *)
(* makes of a conversation with one more turn is one more application of   *)
(* its step (RebuiltAppend, KeptAppend), which is all that most steps of   *)
(* the loop need; an answer with calls is an induction over its calls      *)
(* (SetInduction).  RebuildInv and TranscriptInv then follow the loop      *)
(* action by action.                                                       *)
(***************************************************************************)
EXTENDS ToolLoop_proofs, ProviderTranscript

(***************************************************************************)
(* Induction.                                                              *)
(***************************************************************************)

LEMMA LeastNatural ==
  ASSUME NEW T, T \subseteq Nat, T # {}
  PROVE  \E m \in T : \A k \in T : m <= k
<1>1. PICK m \in T : \A k \in T : ~(<<k, m>> \in OpToRel(<, Nat))
  BY WFMin, NatLessThanWellFounded
<1>2. \A k \in T : ~(k < m)
  BY <1>1 DEF OpToRel
<1>3. \A k \in T : k \in Nat /\ m \in Nat
  OBVIOUS
<1>4. \A k \in T : m <= k
  BY <1>2, <1>3
<1> QED
  BY <1>4

\* Induction up to n, for a set.
LEMMA SetInduction ==
  ASSUME NEW T, NEW n \in Nat, 0 \in T,
         \A k \in 0..(n - 1) : k \in T => k + 1 \in T
  PROVE  n \in T /\ \A k \in 0..n : k \in T
<1> SUFFICES ASSUME NEW k \in 0..n, k \notin T PROVE FALSE
  <2>1. n \in 0..n
    OBVIOUS
  <2> QED
    BY <2>1
<1>1. PICK m \in (0..n) \ T : \A j \in (0..n) \ T : m <= j
  <2>1. (0..n) \ T \subseteq Nat /\ (0..n) \ T # {}
    OBVIOUS
  <2> QED
    BY <2>1, LeastNatural
<1>2. m - 1 \in 0..(n - 1) /\ m - 1 + 1 = m /\ m - 1 \in 0..n /\ ~(m <= m - 1)
  BY <1>1
<1>3. m - 1 \in T
  BY <1>1, <1>2
<1> QED
  BY <1>1, <1>2, <1>3

(***************************************************************************)
(* Rebuilt steps.                                                          *)
(***************************************************************************)

IsHistory(h, ts) ==
  h = [n \in 0..Len(ts) |-> IF n = 0 THEN Nothing ELSE TakeTurn(h[n - 1], ts[n])]

LEMMA HistoryExists ==
  ASSUME NEW ts, Len(ts) \in Nat
  PROVE  \E h : IsHistory(h, ts)
<1> DEFINE Upto(h, m) == h = [n \in 0..m |->
                    IF n = 0 THEN Nothing ELSE TakeTurn(h[n - 1], ts[n])]
           T == {m \in 0..Len(ts) : \E h : Upto(h, m)}
<1>1. 0 \in T
  <2>1. Upto([n \in 0..0 |-> Nothing], 0)
    OBVIOUS
  <2>2. 0 \in 0..Len(ts)
    OBVIOUS
  <2> QED
    BY <2>1, <2>2
<1>2. ASSUME NEW k \in 0..(Len(ts) - 1), k \in T
      PROVE  k + 1 \in T
  <2>1. PICK h : Upto(h, k)
    BY <1>2
  <2>2. PICK g : g = [n \in 0..(k + 1) |->
                        IF n = k + 1 THEN TakeTurn(h[k], ts[k + 1]) ELSE h[n]]
    OBVIOUS
  <2>3. Upto(g, k + 1)
    <3>1. ASSUME NEW n \in 0..(k + 1)
          PROVE  g[n] = IF n = 0 THEN Nothing ELSE TakeTurn(g[n - 1], ts[n])
      <4>1. CASE n = k + 1
        <5>1. n # 0 /\ n - 1 = k /\ k \in 0..(k + 1) /\ k # k + 1
          BY <4>1
        <5> QED
          BY <2>2, <4>1, <5>1
      <4>2. CASE n = 0
        BY <2>1, <2>2, <4>2
      <4>3. CASE n # k + 1 /\ n # 0
        <5>1. n \in 0..k /\ n - 1 \in 0..(k + 1) /\ n - 1 # k + 1
          BY <4>3
        <5>2. h[n] = TakeTurn(h[n - 1], ts[n])
          BY <2>1, <4>3, <5>1
        <5> QED
          BY <2>2, <4>3, <5>1, <5>2
      <4> QED
        BY <4>1, <4>2, <4>3
    <3> QED
      BY <2>2, <3>1
  <2>4. k + 1 \in 0..Len(ts)
    OBVIOUS
  <2> QED
    BY <2>3, <2>4
<1> HIDE DEF T
<1>3. Len(ts) \in T
  BY <1>1, <1>2, SetInduction
<1>4. PICK h : Upto(h, Len(ts))
  BY <1>3 DEF T
<1> QED
  BY <1>4 DEF IsHistory

LEMMA RebuiltBy ==
  ASSUME NEW ts, Len(ts) \in Nat
  PROVE  \E h : IsHistory(h, ts) /\ Rebuilt(ts) = h[Len(ts)]
<1>1. Rebuilt(ts) = (CHOOSE h : IsHistory(h, ts))[Len(ts)]
  BY DEF Rebuilt, IsHistory
<1>2. IsHistory(CHOOSE h : IsHistory(h, ts), ts)
  BY HistoryExists
<1> QED
  BY <1>1, <1>2

LEMMA RebuiltEmpty == Rebuilt(<<>>) = Nothing
<1>1. PICK h : IsHistory(h, <<>>) /\ Rebuilt(<<>>) = h[0]
  BY RebuiltBy
<1> QED
  BY <1>1 DEF IsHistory

\* The first turns of a conversation make the same history, whatever follows.
LEMMA HistoryPrefix ==
  ASSUME NEW ts, NEW us, NEW h, Len(ts) \in Nat, Len(us) \in Nat,
         Len(ts) <= Len(us), \A i \in 1..Len(ts) : us[i] = ts[i],
         IsHistory(h, us)
  PROVE  h[Len(ts)] = Rebuilt(ts)
<1>1. PICK n \in Nat : n = Len(ts)
  OBVIOUS
<1>2. PICK g : IsHistory(g, ts) /\ Rebuilt(ts) = g[n]
  BY <1>1, RebuiltBy
<1>3. \A k \in 0..n : g[k] = IF k = 0 THEN Nothing ELSE TakeTurn(g[k - 1], ts[k])
  BY <1>1, <1>2 DEF IsHistory
<1>4. \A k \in 0..n : h[k] = IF k = 0 THEN Nothing ELSE TakeTurn(h[k - 1], us[k])
  <2>1. \A k \in 0..n : k \in 0..Len(us)
    BY <1>1
  <2> QED
    BY <2>1 DEF IsHistory
<1> DEFINE T == {k \in 0..n : g[k] = h[k]}
<1>5. 0 \in T
  BY <1>3, <1>4
<1>6. ASSUME NEW k \in 0..(n - 1), k \in T
      PROVE  k + 1 \in T
  <2>1. k + 1 \in 0..n /\ k + 1 \in 1..n /\ k + 1 # 0 /\ (k + 1) - 1 = k
    OBVIOUS
  <2>2. h[k + 1] = TakeTurn(h[k], us[k + 1]) /\ g[k + 1] = TakeTurn(g[k], ts[k + 1])
    BY <1>3, <1>4, <2>1
  <2> QED
    BY <1>1, <1>6, <2>1, <2>2
<1> HIDE DEF T
<1>7. n \in T
  BY <1>5, <1>6, SetInduction
<1> QED
  BY <1>1, <1>2, <1>7 DEF T

LEMMA RebuiltAppend ==
  ASSUME NEW S, NEW ts \in Seq(S), NEW t \in S
  PROVE  Rebuilt(Append(ts, t)) = TakeTurn(Rebuilt(ts), t)
<1>1. PICK n \in Nat : n = Len(ts)
  BY LenProperties
<1>2. PICK us : us = Append(ts, t)
  OBVIOUS
<1>3. /\ Len(us) = n + 1 /\ us[n + 1] = t /\ \A i \in 1..n : us[i] = ts[i]
      /\ n + 1 \in Nat /\ n <= n + 1
  BY <1>1, <1>2, AppendProperties
<1>4. PICK h : IsHistory(h, us) /\ Rebuilt(us) = h[n + 1]
  BY <1>3, RebuiltBy
<1>5. h[n] = Rebuilt(ts)
  BY <1>1, <1>3, <1>4, HistoryPrefix
<1>6. h[n + 1] = TakeTurn(h[n], t)
  <2>1. n + 1 \in 0..(n + 1) /\ n + 1 # 0 /\ (n + 1) - 1 = n
    OBVIOUS
  <2> QED
    BY <1>3, <1>4, <2>1 DEF IsHistory
<1> QED
  BY <1>2, <1>4, <1>5, <1>6

\* A step is current and nothing was refused.
Going(h) == h \in HistoryType /\ ~h.raised /\ h.open /\ h.list # <<>>

LEMMA LastStepType ==
  ASSUME NEW h \in HistoryType, h.list # <<>>
  PROVE  LastStep(h) \in StepType /\ Len(h.list) \in 1..Len(h.list)
<1>1. h.list \in Seq(StepType)
  BY DEF HistoryType
<1>2. Len(h.list) \in 1..Len(h.list)
  <2>1. Len(h.list) \in Nat \ {0}
    BY <1>1, EmptySeq
  <2> QED
    BY <2>1
<1> QED
  BY <1>1, <1>2, ElementOfSeq DEF LastStep

LEMMA LastIsSet ==
  ASSUME NEW h, Going(h), NEW step \in StepType
  PROVE  Going(SetLast(h, step)) /\ LastStep(SetLast(h, step)) = step
<1>1. h \in HistoryType /\ h.list \in Seq(StepType) /\ Len(h.list) \in 1..Len(h.list)
  BY LastStepType DEF Going, HistoryType
<1>2. PICK l : l = [h.list EXCEPT ![Len(h.list)] = step]
  OBVIOUS
<1>3. l \in Seq(StepType) /\ Len(l) = Len(h.list) /\ l[Len(l)] = step
  BY <1>1, <1>2, ExceptSeq
<1>4. l # <<>>
  BY <1>1, <1>3
<1>5. SetLast(h, step) = [h EXCEPT !.list = l]
  BY <1>1, <1>2 DEF SetLast, HistoryType
<1> QED
  BY <1>1, <1>3, <1>4, <1>5 DEF Going, HistoryType, LastStep

LEMMA StepIsNew ==
  ASSUME NEW h \in HistoryType, ~h.raised
  PROVE  Going(NewStep(h)) /\ LastStep(NewStep(h)) = EmptyStep
<1>1. h.list \in Seq(StepType)
  BY DEF HistoryType
<1>2. EmptyStep \in StepType
  BY DEF EmptyStep, StepType
<1>3. PICK l : l = Append(h.list, EmptyStep)
  OBVIOUS
<1>4. l \in Seq(StepType) /\ l # <<>> /\ l[Len(l)] = EmptyStep
  BY <1>1, <1>2, <1>3, AppendProperties
<1>5. NewStep(h) = [h EXCEPT !.list = l, !.open = TRUE]
  BY <1>3 DEF NewStep
<1> QED
  BY <1>4, <1>5 DEF Going, HistoryType, LastStep

\* An answer of the model or a text of the client goes into a step of its own,
\* or to the texts before it.
LEMMA AssistantOpens ==
  ASSUME NEW h \in HistoryType, ~h.raised, NEW phase \in Phases,
         h.open => /\ h.list # <<>>
                   /\ \/ Clean(LastStep(h)) \/ HasResult(LastStep(h))
                      \/ LastStep(h).final
  PROVE  LET g == TakeTurn(h, AssistantTurn(phase))
         IN  /\ Going(g)
             /\ LastStep(g).plan = <<>>
             /\ ~LastStep(g).final
             /\ phase \in LastStep(g).phases
             /\ LastStep(g).phases \subseteq {"reasoning", phase}
<1>1. PICK f : f = IF h.open /\ ~LastStep(h).final /\ ~HasResult(LastStep(h))
                   THEN h ELSE NewStep(h)
  OBVIOUS
<1>2. Going(f) /\ Clean(LastStep(f))
  <2>1. CASE h.open /\ ~LastStep(h).final /\ ~HasResult(LastStep(h))
    BY <1>1, <2>1 DEF Going
  <2>2. CASE ~(h.open /\ ~LastStep(h).final /\ ~HasResult(LastStep(h)))
    BY <1>1, <2>2, StepIsNew DEF Clean, EmptyStep
  <2> QED
    BY <2>1, <2>2
<1>3. PICK step : step = [LastStep(f) EXCEPT !.phases = @ \cup {phase}]
  OBVIOUS
<1>4. LastStep(f) \in StepType
  BY <1>2, LastStepType DEF Going
<1>5. /\ step \in StepType /\ step.plan = <<>> /\ ~step.final
      /\ phase \in step.phases /\ step.phases \subseteq {"reasoning", phase}
  BY <1>2, <1>3, <1>4 DEF StepType, Clean
<1>6. TakeTurn(h, AssistantTurn(phase)) = SetLast(f, step)
  BY <1>1, <1>3 DEF TakeTurn, TakeAssistant, AssistantTurn
<1> QED
  BY <1>2, <1>5, <1>6, LastIsSet

\* What the turns of the client leave behind.
LEMMA RequestHistory ==
  ASSUME NEW ts \in RequestTurns
  PROVE  /\ Rebuilt(ts) \in HistoryType /\ ~Rebuilt(ts).raised
         /\ Rebuilt(ts).open => /\ Rebuilt(ts).list # <<>>
                                /\ Clean(LastStep(Rebuilt(ts)))
<1> DEFINE P(h) == /\ h \in HistoryType /\ ~h.raised
                   /\ h.open => h.list # <<>> /\ Clean(LastStep(h))
<1>1. PICK n \in Nat : n = Len(ts) /\ DOMAIN ts = 1..n
  BY LenProperties, LoopConstantsOK
<1>2. PICK h : IsHistory(h, ts) /\ Rebuilt(ts) = h[n]
  BY <1>1, RebuiltBy
<1>3. \A k \in 0..n : h[k] = IF k = 0 THEN Nothing ELSE TakeTurn(h[k - 1], ts[k])
  BY <1>1, <1>2 DEF IsHistory
<1> DEFINE T == {k \in 0..n : P(h[k])}
<1>4. 0 \in T
  <2>1. Nothing \in HistoryType /\ ~Nothing.raised /\ ~Nothing.open
    <3>1. <<>> \in Seq(StepType)
      BY EmptySeq
    <3> QED
      BY <3>1 DEF Nothing, HistoryType
  <2> QED
    BY <1>3, <2>1
<1>5. ASSUME NEW k \in 0..(n - 1), k \in T
      PROVE  k + 1 \in T
  <2>1. k + 1 \in 0..n /\ k + 1 \in 1..n /\ k + 1 # 0 /\ (k + 1) - 1 = k
    OBVIOUS
  <2>2. h[k + 1] = TakeTurn(h[k], ts[k + 1])
    BY <1>3, <2>1
  <2>3. P(h[k])
    BY <1>5
  <2>4. CASE ts[k + 1] = AssistantTurn("reasoning")
    <3>1. "reasoning" \in Phases
      BY DEF Phases
    <3>2. /\ Going(h[k + 1]) /\ LastStep(h[k + 1]).plan = <<>>
          /\ ~LastStep(h[k + 1]).final
          /\ LastStep(h[k + 1]).phases \subseteq {"reasoning", "reasoning"}
      BY <2>2, <2>3, <2>4, <3>1, AssistantOpens
    <3>3. P(h[k + 1])
      BY <3>2 DEF Going, Clean
    <3> QED
      BY <2>1, <3>3
  <2>5. CASE ts[k + 1] = UserTurn
    <3>1. h[k + 1] = h[k] \/ h[k + 1] = [h[k] EXCEPT !.open = FALSE]
      BY <2>2, <2>5 DEF TakeTurn, UserTurn
    <3>2. P(h[k + 1])
      BY <2>3, <3>1 DEF HistoryType
    <3> QED
      BY <2>1, <3>2
  <2> QED
    BY <1>1, <2>1, <2>4, <2>5, ClientsSendTexts
<1> HIDE DEF T
<1>6. n \in T
  BY <1>4, <1>5, SetInduction
<1> QED
  BY <1>2, <1>6 DEF T

(***************************************************************************)
(* The steps rebuilt from the turns agree with the steps of the loop.      *)
(***************************************************************************)

\* The first k calls of an answer.
FirstCalls(calls, k) == SubSeq(calls, 1, k)

LEMMA MaterializedNode ==
  ASSUME NEW calls, NEW i \in DOMAIN calls
  PROVE  Materialize(calls)[i] =
           [call     |-> calls[i],
            strategy |-> IF i = 1 THEN {} ELSE {calls[i - 1].id},
            status   |-> "planned",
            result   |-> "none"]
BY DEF Materialize

LEMMA MaterializedCall ==
  ASSUME NEW calls, NEW i \in DOMAIN calls
  PROVE  Materialize(calls)[i].call = calls[i]
BY DEF Materialize

LEMMA FirstCallsPlan ==
  ASSUME NEW calls \in Seq(Call), ~DuplicateId(calls), DeclaredInOrder(calls),
         NEW k \in 0..Len(calls)
  PROVE  LET p == Materialize(FirstCalls(calls, k)) IN
           /\ p \in Seq(Node) /\ Len(p) = k /\ ValidPlan(p)
           /\ \A i \in 1..k : p[i] = Materialize(calls)[i]
<1>1. Len(calls) \in Nat /\ DOMAIN calls = 1..Len(calls)
  BY LenProperties
<1>2. PICK cs : cs = FirstCalls(calls, k)
  OBVIOUS
<1>3. cs \in Seq(Call) /\ Len(cs) = k /\ \A i \in 1..k : cs[i] = calls[i]
  <2>1. \A i \in 1..k : calls[i] \in Call
    <3>1. \A i \in 1..k : i \in 1..Len(calls)
      BY <1>1
    <3> QED
      BY <3>1, ElementOfSeq
  <2>2. /\ cs \in Seq(Call) /\ Len(cs) = IF 1 <= k THEN k - 1 + 1 ELSE 0
        /\ \A i \in 1..(k - 1 + 1) : cs[i] = calls[1 + i - 1]
    BY <1>1, <1>2, <2>1, SubSeqProperties DEF FirstCalls
  <2> QED
    BY <1>1, <2>2
<1>4. DOMAIN cs = 1..k
  BY <1>3, LenProperties
<1>5. \A i \in 1..k : i \in DOMAIN calls
  BY <1>1
<1>6. ~DuplicateId(cs)
  BY <1>3, <1>4, <1>5 DEF DuplicateId
<1>7. DeclaredInOrder(cs)
  <2> SUFFICES ASSUME NEW i \in 1..k, NEW d \in calls[i].deps
               PROVE  \E j \in 1..(i - 1) : cs[j].id = d
    BY <1>3, <1>4 DEF DeclaredInOrder
  <2>1. PICK j \in 1..(i - 1) : calls[j].id = d
    BY <1>5 DEF DeclaredInOrder
  <2>2. j \in 1..k
    BY <1>1
  <2> QED
    BY <1>3, <2>1, <2>2
<1>8. PICK p : p = Materialize(cs)
  OBVIOUS
<1>9. p \in Seq(Node) /\ Len(p) = k /\ SequentialPlan(p)
  BY <1>3, <1>6, <1>7, <1>8, MaterializedPlan
<1>10. ValidPlan(p)
  BY <1>9, SequentialIsValid
<1>11. ASSUME NEW i \in 1..k
       PROVE  p[i] = Materialize(calls)[i]
  <2>1. i # 1 => i - 1 \in 1..k
    BY <1>1
  <2>2. /\ cs[i] = calls[i]
        /\ i # 1 => cs[i - 1] = calls[i - 1]
        /\ i \in DOMAIN cs /\ i \in DOMAIN calls
    BY <1>3, <1>4, <1>5, <2>1
  <2>3. (IF i = 1 THEN {} ELSE {cs[i - 1].id})
          = (IF i = 1 THEN {} ELSE {calls[i - 1].id})
    BY <2>2
  <2>4. PICK before : before = IF i = 1 THEN {} ELSE {calls[i - 1].id}
    OBVIOUS
  <2>5. Materialize(calls)[i] = [call |-> calls[i], strategy |-> before,
                                 status |-> "planned", result |-> "none"]
    BY <2>2, <2>4, MaterializedNode, Zenon
  <2>6. Materialize(cs)[i] = [call |-> cs[i], strategy |-> before,
                              status |-> "planned", result |-> "none"]
    BY <2>2, <2>3, <2>4, MaterializedNode, Zenon
  <2> QED
    BY <1>8, <2>2, <2>5, <2>6
<1> QED
  BY <1>2, <1>8, <1>9, <1>10, <1>11

\* _append_tool_call_to_step adds the next node the parser has planned.
LEMMA CallJoins ==
  ASSUME NEW calls \in Seq(Call), ~DuplicateId(calls), DeclaredInOrder(calls),
         NEW k \in 0..(Len(calls) - 1), NEW h, Going(h),
         LastStep(h).plan = Materialize(FirstCalls(calls, k))
  PROVE  LET g == TakeTurn(h, CallTurn(calls[k + 1])) IN
           /\ Going(g)
           /\ LastStep(g).plan = Materialize(FirstCalls(calls, k + 1))
           /\ LastStep(g).final = LastStep(h).final
           /\ LastStep(g).phases = LastStep(h).phases
<1>1. Len(calls) \in Nat /\ DOMAIN calls = 1..Len(calls)
  BY LenProperties
<1>2. k \in 0..Len(calls) /\ k + 1 \in 0..Len(calls) /\ k + 1 \in 1..Len(calls) /\ k \in Nat
  BY <1>1
<1>3. PICK p : p = Materialize(FirstCalls(calls, k))
  OBVIOUS
<1>4. PICK q : q = Materialize(FirstCalls(calls, k + 1))
  OBVIOUS
<1>5. /\ p \in Seq(Node) /\ Len(p) = k
      /\ \A i \in 1..k : p[i] = Materialize(calls)[i]
  BY <1>2, <1>3, FirstCallsPlan
<1>6. /\ q \in Seq(Node) /\ Len(q) = k + 1 /\ ValidPlan(q)
      /\ \A i \in 1..(k + 1) : q[i] = Materialize(calls)[i]
  BY <1>2, <1>4, FirstCallsPlan
<1>7. PICK node : node =
        [call     |-> calls[k + 1],
         strategy |-> IF p = <<>> THEN {} ELSE {p[Len(p)].call.id},
         status   |-> "planned", result |-> "none"]
  OBVIOUS
<1>8. node = q[k + 1]
  <2>1. q[k + 1] = Materialize(calls)[k + 1]
    BY <1>2, <1>6
  <2>2. p = <<>> <=> k = 0
    BY <1>5, EmptySeq
  <2>3. CASE k = 0
    <3>1. k + 1 = 1
      BY <2>3
    <3>2. Materialize(calls)[1] = [call |-> calls[1], strategy |-> {},
                                   status |-> "planned", result |-> "none"]
      BY <1>1, <1>2, <3>1, MaterializedNode
    <3> QED
      BY <1>7, <2>1, <2>2, <2>3, <3>1, <3>2
  <2>4. CASE k # 0
    <3>1. k \in 1..k /\ k \in 1..Len(calls) /\ (k + 1) - 1 = k /\ k + 1 # 1
      BY <1>1, <1>2, <2>4
    <3>2. p[k].call = calls[k]
      <4>1. p[k] = Materialize(calls)[k]
        BY <1>5, <3>1
      <4> QED
        BY <1>1, <3>1, <4>1, MaterializedCall
    <3>3. q[k + 1] = [call |-> calls[k + 1], strategy |-> {calls[k].id},
                      status |-> "planned", result |-> "none"]
      BY <1>1, <1>2, <2>1, <3>1, MaterializedNode
    <3>4. p # <<>> /\ p[Len(p)].call.id = calls[k].id
      BY <1>5, <2>2, <2>4, <3>2
    <3> QED
      BY <1>7, <3>3, <3>4
  <2> QED
    BY <2>3, <2>4
<1>9. node \in Node
  BY <1>2, <1>6, <1>8, ElementOfSeq
<1>10. Append(p, node) = q
  <2>1. PICK a : a = Append(p, node)
    OBVIOUS
  <2>2. /\ a \in Seq(Node) /\ Len(a) = k + 1 /\ a[k + 1] = node
        /\ \A i \in 1..k : a[i] = p[i]
    BY <1>5, <1>9, <2>1, AppendProperties
  <2>3. ASSUME NEW i \in 1..(k + 1)
        PROVE  a[i] = q[i]
    <3>1. i \in 1..k \/ i = k + 1
      BY <1>2
    <3> QED
      BY <1>5, <1>6, <1>8, <2>2, <3>1
  <2> QED
    BY <1>6, <2>1, <2>2, <2>3, SeqEqual
<1>11. LastStep(h) \in StepType
  BY LastStepType DEF Going
<1>12. PICK step : step = [LastStep(h) EXCEPT !.plan = q]
  OBVIOUS
<1>13. step \in StepType /\ step.plan = q
       /\ step.final = LastStep(h).final /\ step.phases = LastStep(h).phases
  BY <1>6, <1>11, <1>12 DEF StepType
<1>14. TakeTurn(h, CallTurn(calls[k + 1])) = SetLast(h, step)
  <2>1. TakeTurn(h, CallTurn(calls[k + 1])) = TakeCall(h, CallTurn(calls[k + 1]))
    BY DEF TakeTurn, CallTurn, Going
  <2>2. CallTurn(calls[k + 1]).call = calls[k + 1]
    BY DEF CallTurn
  <2>3. Append(LastStep(h).plan, node) = q
    BY <1>3, <1>10
  <2> QED
    BY <1>3, <1>6, <1>7, <1>12, <2>1, <2>2, <2>3 DEF TakeCall
<1> QED
  BY <1>4, <1>13, <1>14, LastIsSet

\* The history that an answer with calls makes of the turns before it.
LEMMA ParsedHistory ==
  ASSUME NEW ts \in Seq(Turn), NEW calls \in Seq(Call),
         ~DuplicateId(calls), DeclaredInOrder(calls), NEW us,
         us = (ts \o <<AssistantTurn("tool_plan")>>) \o CallTurns(calls),
         Rebuilt(ts) \in HistoryType, ~Rebuilt(ts).raised,
         Rebuilt(ts).open => /\ Rebuilt(ts).list # <<>>
                             /\ \/ Clean(LastStep(Rebuilt(ts)))
                                \/ HasResult(LastStep(Rebuilt(ts)))
                                \/ LastStep(Rebuilt(ts)).final
  PROVE  /\ Going(Rebuilt(us))
         /\ LastStep(Rebuilt(us)).plan = Materialize(calls)
         /\ ~LastStep(Rebuilt(us)).final
         /\ "tool_plan" \in LastStep(Rebuilt(us)).phases
         /\ LastStep(Rebuilt(us)).phases \subseteq {"reasoning", "tool_plan"}
<1>1. PICK n \in Nat : n = Len(calls) /\ DOMAIN calls = 1..n
  BY LenProperties
<1>2. PICK l \in Nat : l = Len(ts)
  BY LenProperties
<1>3. PICK m \in Nat : m = l + 1
  OBVIOUS
<1>4. /\ us \in Seq(Turn) /\ Len(us) = m + n
      /\ \A i \in 1..l : us[i] = ts[i]
      /\ us[m] = AssistantTurn("tool_plan")
      /\ \A k \in 1..n : us[m + k] = CallTurn(calls[k])
  <2>1. m = Len(ts) + 1
    BY <1>2, <1>3
  <2>2. /\ us \in Seq(Turn) /\ Len(us) = (Len(ts) + 1) + Len(calls)
        /\ \A i \in 1..Len(ts) : us[i] = ts[i]
        /\ us[Len(ts) + 1] = AssistantTurn("tool_plan")
        /\ \A k \in 1..Len(calls) : us[(Len(ts) + 1) + k] = CallTurn(calls[k])
    BY ParsedTurns, Zenon
  <2> QED
    BY <1>1, <1>2, <2>1, <2>2, Zenon
<1>5. PICK h : IsHistory(h, us) /\ Rebuilt(us) = h[m + n]
  <2>1. m + n \in Nat
    OBVIOUS
  <2> QED
    BY <1>4, <2>1, RebuiltBy
<1>6. \A k \in 0..(m + n) :
        h[k] = IF k = 0 THEN Nothing ELSE TakeTurn(h[k - 1], us[k])
  BY <1>4, <1>5 DEF IsHistory
<1>7. h[l] = Rebuilt(ts)
  <2>1. l <= m + n /\ m + n \in Nat
    BY <1>3
  <2> QED
    BY <1>2, <1>4, <1>5, <2>1, HistoryPrefix
<1> DEFINE P(g, k) == /\ Going(g)
                      /\ LastStep(g).plan = Materialize(FirstCalls(calls, k))
                      /\ ~LastStep(g).final
                      /\ "tool_plan" \in LastStep(g).phases
                      /\ LastStep(g).phases \subseteq {"reasoning", "tool_plan"}
           T == {k \in 0..n : P(h[m + k], k)}
<1>8. 0 \in T
  <2>1. h[m] = TakeTurn(h[l], AssistantTurn("tool_plan"))
    <3>1. m \in 0..(m + n) /\ m # 0 /\ m - 1 = l
      BY <1>3
    <3> QED
      BY <1>4, <1>6, <3>1
  <2>2. "tool_plan" \in Phases
    BY DEF Phases
  <2>3. /\ Going(h[m]) /\ LastStep(h[m]).plan = <<>> /\ ~LastStep(h[m]).final
        /\ "tool_plan" \in LastStep(h[m]).phases
        /\ LastStep(h[m]).phases \subseteq {"reasoning", "tool_plan"}
    BY <1>7, <2>1, <2>2, AssistantOpens
  <2>4. Materialize(FirstCalls(calls, 0)) = <<>>
    <3>1. 0 \in 0..Len(calls)
      BY <1>1
    <3> QED
      BY <3>1, FirstCallsPlan, EmptySeq
  <2>5. m + 0 = m /\ 0 \in 0..n
    OBVIOUS
  <2> QED
    BY <2>3, <2>4, <2>5
<1>9. ASSUME NEW k \in 0..(n - 1), k \in T
      PROVE  k + 1 \in T
  <2>1. /\ m + (k + 1) \in 0..(m + n) /\ m + (k + 1) # 0
        /\ (m + (k + 1)) - 1 = m + k
        /\ k + 1 \in 1..n /\ k + 1 \in 0..n /\ k \in 0..(Len(calls) - 1)
    BY <1>1
  <2>2. h[m + (k + 1)] = TakeTurn(h[m + k], CallTurn(calls[k + 1]))
    BY <1>4, <1>6, <2>1
  <2>3. P(h[m + k], k)
    BY <1>9
  <2>4. P(h[m + (k + 1)], k + 1)
    BY <2>1, <2>2, <2>3, CallJoins
  <2> QED
    BY <2>1, <2>4
<1> HIDE DEF T
<1>10. n \in T
  BY <1>8, <1>9, SetInduction
<1>11. P(Rebuilt(us), n)
  BY <1>5, <1>10 DEF T
<1>12. FirstCalls(calls, n) = calls
  BY <1>1, SubSeqFull DEF FirstCalls
<1> QED
  BY <1>11, <1>12

LEMMA RebuildInit == Init => RebuildInv
<1> SUFFICES ASSUME Init PROVE RebuildInv
  OBVIOUS
<1>1. turns \in RequestTurns /\ steps = 0 /\ outcome = "none" /\ plan = <<>>
  BY DEF Init
<1> QED
  BY <1>1, RequestHistory DEF RebuildInv

\* The model is asked when the step is complete, or before there is one.
LEMMA ReadyForAnswer ==
  ASSUME IInv, RebuildInv, at = "generate"
  PROVE  LET h == Rebuilt(turns) IN
           /\ h \in HistoryType /\ ~h.raised
           /\ h.open => /\ h.list # <<>>
                        /\ \/ Clean(LastStep(h)) \/ HasResult(LastStep(h))
                           \/ LastStep(h).final
<1>1. PICK h : h = Rebuilt(turns)
  OBVIOUS
<1>2. /\ h \in HistoryType /\ ~h.raised
      /\ steps = 0 => (h.open => h.list # <<>> /\ Clean(LastStep(h)))
      /\ steps > 0 => /\ h.list # <<>> /\ LastStep(h).plan = plan
                      /\ outcome # "answer" => plan # <<>>
  BY <1>1 DEF RebuildInv
<1>3. ASSUME steps > 0
      PROVE  HasResult(LastStep(h))
  <2>1. outcome # "answer" /\ Planned(plan) = {}
    BY DEF IInv, LoopInv
  <2>2. plan \in Seq(Node) /\ plan # <<>> /\ SequentialPlan(plan)
    BY <1>2, <1>3, <2>1 DEF IInv, TypeOK
  <2>3. Len(plan) \in Nat \ {0} /\ DOMAIN plan = 1..Len(plan)
    BY <2>2, EmptySeq, LenProperties
  <2>4. 1 \in DOMAIN plan /\ 1 \in 1..Len(plan)
    BY <2>3
  <2>5. plan[1].status # "planned" /\ plan[1] \in Node
    BY <2>1, <2>2, <2>4, ElementOfSeq DEF Planned
  <2>6. plan[1].status = "completed"
    BY <2>5 DEF Node
  <2>7. plan[1].result # "none"
    BY <2>2, <2>4, <2>6 DEF SequentialPlan
  <2> QED
    BY <1>2, <1>3, <2>4, <2>7 DEF HasResult
<1>4. steps = 0 \/ steps > 0
  BY DEF IInv, TypeOK
<1> QED
  BY <1>1, <1>2, <1>3, <1>4

LEMMA RebuildParse ==
  ASSUME IInv, RebuildInv, NEW calls \in Proposals, ParsePlan(calls)
  PROVE  RebuildInv'
<1>1. /\ at = "generate" /\ plan' = Materialize(calls) /\ steps' = steps + 1
      /\ turns' = (turns \o <<AssistantTurn("tool_plan")>>) \o CallTurns(calls)
      /\ ~DuplicateId(calls) /\ DeclaredInOrder(calls) /\ outcome' = outcome
  BY DEF ParsePlan
<1>2. calls \in Seq(Call) /\ calls # <<>> /\ turns \in Seq(Turn) /\ steps \in Nat
  BY LoopConstantsOK DEF IInv, TypeOK
<1>3. outcome # "answer"
  BY <1>1 DEF IInv, LoopInv
<1>4. /\ Going(Rebuilt(turns'))
      /\ LastStep(Rebuilt(turns')).plan = plan'
      /\ ~LastStep(Rebuilt(turns')).final
      /\ "tool_plan" \in LastStep(Rebuilt(turns')).phases
      /\ LastStep(Rebuilt(turns')).phases \subseteq {"reasoning", "tool_plan"}
  BY <1>1, <1>2, ReadyForAnswer, ParsedHistory
<1>5. plan' # <<>>
  BY <1>1, <1>2, MaterializedPlan, EmptySeq
<1>6. steps' > 0 /\ steps' # 0
  BY <1>1, <1>2
<1> QED
  BY <1>1, <1>3, <1>4, <1>5, <1>6 DEF RebuildInv, Going

LEMMA RebuildAnswer ==
  ASSUME IInv, RebuildInv, FinalAnswer
  PROVE  RebuildInv'
<1>1. /\ at = "generate" /\ plan' = <<>> /\ steps' = steps + 1
      /\ turns' = turns \o <<AssistantTurn("finalization"), FinalTurn>>
      /\ outcome' = "answer"
  BY DEF FinalAnswer, End
<1>2. turns \in Seq(Turn) /\ steps \in Nat
  BY DEF IInv, TypeOK
<1>3. AssistantTurn("finalization") \in Turn /\ FinalTurn \in Turn
  BY DEF Turn, Phases
<1>4. PICK ts : ts = Append(turns, AssistantTurn("finalization"))
  OBVIOUS
<1>5. ts \in Seq(Turn) /\ turns' = Append(ts, FinalTurn)
  <2>1. ts \in Seq(Turn)
    BY <1>2, <1>3, <1>4, AppendProperties
  <2>2. turns' = Append(ts, FinalTurn)
    BY <1>1, <1>2, <1>3, <1>4
  <2> QED
    BY <2>1, <2>2
<1>6. PICK g : g = Rebuilt(ts)
  OBVIOUS
<1>7. /\ Going(g) /\ LastStep(g).plan = <<>>
      /\ "finalization" \in LastStep(g).phases
  <2>1. "finalization" \in Phases
    BY DEF Phases
  <2>2. g = TakeTurn(Rebuilt(turns), AssistantTurn("finalization"))
    BY <1>2, <1>3, <1>4, <1>6, RebuiltAppend
  <2> QED
    BY <1>1, <2>1, <2>2, ReadyForAnswer, AssistantOpens
<1>8. Rebuilt(turns') = SetLast(g, [LastStep(g) EXCEPT !.final = TRUE])
  <2>1. Rebuilt(turns') = TakeTurn(g, FinalTurn)
    BY <1>3, <1>5, <1>6, RebuiltAppend
  <2> QED
    BY <1>7, <2>1 DEF TakeTurn, TakeFinal, FinalTurn, Going
<1>9. PICK step : step = [LastStep(g) EXCEPT !.final = TRUE]
  OBVIOUS
<1>10. /\ step \in StepType /\ step.plan = <<>> /\ step.final
       /\ "finalization" \in step.phases
  <2>1. LastStep(g) \in StepType
    BY <1>7, LastStepType DEF Going
  <2> QED
    BY <1>7, <1>9, <2>1 DEF StepType
<1>11. Going(Rebuilt(turns')) /\ LastStep(Rebuilt(turns')) = step
  BY <1>7, <1>8, <1>9, <1>10, LastIsSet
<1>12. steps' > 0 /\ steps' # 0
  BY <1>1, <1>2
<1> QED
  BY <1>1, <1>10, <1>11, <1>12 DEF RebuildInv, Going

LEMMA RebuildServe ==
  ASSUME IInv, RebuildInv, NEW c \in Call, NEW r \in Results,
         at \in {"run", "execute"}, NextCall(c), Serve(c, r)
  PROVE  RebuildInv'
<1>1. /\ turns' = Append(turns, ResultTurn(c.id, r))
      /\ plan' = ApplyResult(plan, c.id, r)
      /\ UNCHANGED <<steps, outcome>>
  BY DEF Serve
<1>2. turns \in Seq(Turn) /\ steps \in Nat /\ plan \in Seq(Node)
  BY DEF IInv, TypeOK
<1>3. plan # <<>> /\ plan' # <<>> /\ plan' \in Seq(Node)
  <2>1. Len(plan') = Len(plan) /\ Progress(plan) < Len(plan)
    BY ServedStep
  <2>2. Len(plan) # 0
    BY <2>1, PlanFacts DEF IInv
  <2>3. plan' \in Seq(Node)
    BY <1>1, <1>2, AppliedType
  <2> QED
    BY <1>2, <2>1, <2>2, <2>3, EmptySeq
<1>4. steps > 0 /\ steps # 0 /\ outcome # "answer"
  <2>1. outcome = "none"
    BY DEF IInv, LoopInv
  <2> QED
    BY <1>2, <1>3, <2>1 DEF RebuildInv
<1>5. PICK h : h = Rebuilt(turns)
  OBVIOUS
<1>6. /\ Going(h) /\ LastStep(h).plan = plan /\ ~LastStep(h).final
      /\ "tool_plan" \in LastStep(h).phases
      /\ "finalization" \notin LastStep(h).phases
  BY <1>4, <1>5 DEF RebuildInv, Going
<1>7. PICK step : step = [LastStep(h) EXCEPT !.plan = plan']
  OBVIOUS
<1>8. /\ step \in StepType /\ step.plan = plan' /\ ~step.final
      /\ step.phases = LastStep(h).phases
  <2>1. LastStep(h) \in StepType
    BY <1>6, LastStepType DEF Going
  <2> QED
    BY <1>3, <1>6, <1>7, <2>1 DEF StepType
<1>9. Rebuilt(turns') = SetLast(h, step)
  <2>1. ResultTurn(c.id, r) \in Turn
    BY DEF ResultTurn, Turn, Call
  <2>2. Rebuilt(turns') = TakeTurn(h, ResultTurn(c.id, r))
    BY <1>1, <1>2, <1>5, <2>1, RebuiltAppend
  <2>3. TakeTurn(h, ResultTurn(c.id, r)) = TakeResult(h, ResultTurn(c.id, r))
    BY <1>6 DEF TakeTurn, ResultTurn, Going
  <2>4. ResultTurn(c.id, r).id = c.id /\ ResultTurn(c.id, r).result = r
    BY DEF ResultTurn
  <2>5. [LastStep(h) EXCEPT !.plan = ApplyResult(@, c.id, r)] = step
    BY <1>1, <1>6, <1>7
  <2> QED
    BY <2>2, <2>3, <2>4, <2>5 DEF TakeResult
<1>10. Going(Rebuilt(turns')) /\ LastStep(Rebuilt(turns')) = step
  BY <1>6, <1>8, <1>9, LastIsSet
<1> QED
  BY <1>1, <1>3, <1>4, <1>6, <1>8, <1>10 DEF RebuildInv, Going

LEMMA RebuildStep ==
  ASSUME IInv, RebuildInv, [Next]_vars
  PROVE  RebuildInv'
<1>1. CASE UNCHANGED vars
  BY <1>1 DEF vars, RebuildInv
<1>2. CASE /\ at # "done" /\ UNCHANGED <<turns, plan, steps>> /\ outcome' # "answer"
  <2>1. outcome # "answer"
    BY <1>2 DEF IInv, LoopInv
  <2> QED
    BY <1>2, <2>1 DEF RebuildInv
<1>3. CASE FinalAnswer
  BY <1>3, RebuildAnswer
<1>4. ASSUME NEW calls \in Proposals, ParsePlan(calls)
      PROVE  RebuildInv'
  BY <1>4, RebuildParse
<1>5. ASSUME NEW c \in Call, StartTool(c)
      PROVE  RebuildInv'
  BY <1>5 DEF StartTool, RebuildInv
<1>6. ASSUME NEW c \in Call, NEW r \in Results, at \in {"run", "execute"},
             NextCall(c), Serve(c, r)
      PROVE  RebuildInv'
  BY <1>6, RebuildServe
<1> QED
  BY <1>1, <1>2, <1>3, <1>4, <1>5, <1>6, StepKinds

\* Whatever plans a model asks for, the steps that turns_to_generation rebuilds
\* from the turns end in the plan and the progress of the loop, and rebuilding
\* them raises nothing.
THEOREM RebuiltStepsAgree == Spec => []RebuildAgrees
<1>1. Init => RebuildInv
  BY RebuildInit
<1>2. IInv /\ RebuildInv /\ [Next]_vars => RebuildInv'
  BY RebuildStep
<1>3. RebuildInv => RebuildAgrees
  BY DEF RebuildInv, RebuildAgrees, Primary
<1> QED
  BY <1>1, <1>2, <1>3, Inductive, PTL DEF Spec

(***************************************************************************)
(* The messages that a conversation becomes.                               *)
(***************************************************************************)

IsKept(f, ts) ==
  f = [n \in 0..Len(ts) |-> IF n = 0 THEN Start ELSE KeepTurn(f[n - 1], ts[n])]

LEMMA KeptExists ==
  ASSUME NEW ts, Len(ts) \in Nat
  PROVE  \E f : IsKept(f, ts)
<1> DEFINE Upto(f, m) == f = [n \in 0..m |->
                    IF n = 0 THEN Start ELSE KeepTurn(f[n - 1], ts[n])]
           T == {m \in 0..Len(ts) : \E f : Upto(f, m)}
<1>1. 0 \in T
  <2>1. Upto([n \in 0..0 |-> Start], 0)
    OBVIOUS
  <2>2. 0 \in 0..Len(ts)
    OBVIOUS
  <2> QED
    BY <2>1, <2>2
<1>2. ASSUME NEW k \in 0..(Len(ts) - 1), k \in T
      PROVE  k + 1 \in T
  <2>1. PICK f : Upto(f, k)
    BY <1>2
  <2>2. PICK g : g = [n \in 0..(k + 1) |->
                        IF n = k + 1 THEN KeepTurn(f[k], ts[k + 1]) ELSE f[n]]
    OBVIOUS
  <2>3. Upto(g, k + 1)
    <3>1. ASSUME NEW n \in 0..(k + 1)
          PROVE  g[n] = IF n = 0 THEN Start ELSE KeepTurn(g[n - 1], ts[n])
      <4>1. CASE n = k + 1
        <5>1. n # 0 /\ n - 1 = k /\ k \in 0..(k + 1) /\ k # k + 1
          BY <4>1
        <5> QED
          BY <2>2, <4>1, <5>1
      <4>2. CASE n = 0
        BY <2>1, <2>2, <4>2
      <4>3. CASE n # k + 1 /\ n # 0
        <5>1. n \in 0..k /\ n - 1 \in 0..(k + 1) /\ n - 1 # k + 1
          BY <4>3
        <5>2. f[n] = KeepTurn(f[n - 1], ts[n])
          BY <2>1, <4>3, <5>1
        <5> QED
          BY <2>2, <4>3, <5>1, <5>2
      <4> QED
        BY <4>1, <4>2, <4>3
    <3> QED
      BY <2>2, <3>1
  <2>4. k + 1 \in 0..Len(ts)
    OBVIOUS
  <2> QED
    BY <2>3, <2>4
<1> HIDE DEF T
<1>3. Len(ts) \in T
  BY <1>1, <1>2, SetInduction
<1>4. PICK f : Upto(f, Len(ts))
  BY <1>3 DEF T
<1> QED
  BY <1>4 DEF IsKept

LEMMA KeptBy ==
  ASSUME NEW ts, Len(ts) \in Nat
  PROVE  \E f : IsKept(f, ts) /\ Kept(ts) = f[Len(ts)]
<1>1. Kept(ts) = (CHOOSE f : IsKept(f, ts))[Len(ts)]
  BY DEF Kept, IsKept
<1>2. IsKept(CHOOSE f : IsKept(f, ts), ts)
  BY KeptExists
<1> QED
  BY <1>1, <1>2

\* The first turns of a conversation become the same, whatever follows.
LEMMA KeptPrefix ==
  ASSUME NEW ts, NEW us, NEW f, Len(ts) \in Nat, Len(us) \in Nat,
         Len(ts) <= Len(us), \A i \in 1..Len(ts) : us[i] = ts[i],
         IsKept(f, us)
  PROVE  f[Len(ts)] = Kept(ts)
<1>1. PICK n \in Nat : n = Len(ts)
  OBVIOUS
<1>2. PICK g : IsKept(g, ts) /\ Kept(ts) = g[n]
  BY <1>1, KeptBy
<1>3. \A k \in 0..n : g[k] = IF k = 0 THEN Start ELSE KeepTurn(g[k - 1], ts[k])
  BY <1>1, <1>2 DEF IsKept
<1>4. \A k \in 0..n : f[k] = IF k = 0 THEN Start ELSE KeepTurn(f[k - 1], us[k])
  <2>1. \A k \in 0..n : k \in 0..Len(us)
    BY <1>1
  <2> QED
    BY <2>1 DEF IsKept
<1> DEFINE T == {k \in 0..n : g[k] = f[k]}
<1>5. 0 \in T
  BY <1>3, <1>4
<1>6. ASSUME NEW k \in 0..(n - 1), k \in T
      PROVE  k + 1 \in T
  <2>1. k + 1 \in 0..n /\ k + 1 \in 1..n /\ k + 1 # 0 /\ (k + 1) - 1 = k
    OBVIOUS
  <2>2. f[k + 1] = KeepTurn(f[k], us[k + 1]) /\ g[k + 1] = KeepTurn(g[k], ts[k + 1])
    BY <1>3, <1>4, <2>1
  <2> QED
    BY <1>1, <1>6, <2>1, <2>2
<1> HIDE DEF T
<1>7. n \in T
  BY <1>5, <1>6, SetInduction
<1> QED
  BY <1>1, <1>2, <1>7 DEF T

LEMMA KeptAppend ==
  ASSUME NEW S, NEW ts \in Seq(S), NEW t \in S
  PROVE  Kept(Append(ts, t)) = KeepTurn(Kept(ts), t)
<1>1. PICK n \in Nat : n = Len(ts)
  BY LenProperties
<1>2. PICK us : us = Append(ts, t)
  OBVIOUS
<1>3. /\ Len(us) = n + 1 /\ us[n + 1] = t /\ \A i \in 1..n : us[i] = ts[i]
      /\ n + 1 \in Nat /\ n <= n + 1
  BY <1>1, <1>2, AppendProperties
<1>4. PICK f : IsKept(f, us) /\ Kept(us) = f[n + 1]
  BY <1>3, KeptBy
<1>5. f[n] = Kept(ts)
  BY <1>1, <1>3, <1>4, KeptPrefix
<1>6. f[n + 1] = KeepTurn(f[n], t)
  <2>1. n + 1 \in 0..(n + 1) /\ n + 1 # 0 /\ (n + 1) - 1 = n
    OBVIOUS
  <2> QED
    BY <1>3, <1>4, <2>1 DEF IsKept
<1> QED
  BY <1>2, <1>4, <1>5, <1>6

\* What an assistant message that waits for more calls can look like.
Pending == {<<>>} \cup {<<AssistantMessage(ids)>> : ids \in Seq(Ids)}

KeptType == [sent : Seq(Message), pending : Pending]

LEMMA MessageTypes ==
  /\ UserMessage \in Message
  /\ \A ids \in Seq(Ids) : AssistantMessage(ids) \in Message
  /\ \A id \in Ids : ToolMessage(id) \in Message
  /\ AssistantMessage(<<>>) \in Message
<1>1. <<>> \in Seq(Ids)
  BY EmptySeq
<1>2. /\ UserMessage \in Message
      /\ \A ids \in Seq(Ids) : AssistantMessage(ids) \in Message
      /\ \A id \in Ids : ToolMessage(id) \in Message
  BY DEF Message, UserMessage, AssistantMessage, ToolMessage
<1> QED
  BY <1>1, <1>2

\* The messages, whether an assistant message waits or not.
LEMMA FlushSent ==
  ASSUME NEW s \in KeptType
  PROVE  /\ s.sent \in Seq(Message) /\ s.pending \in Seq(Message)
         /\ Flush(s) \in KeptType /\ Flush(s).pending = <<>>
         /\ Flush(s).sent = s.sent \o s.pending
         /\ Flush(Flush(s)).sent = Flush(s).sent
<1>1. s.sent \in Seq(Message) /\ s.pending \in Seq(Message)
  <2>1. \A ids \in Seq(Ids) : <<AssistantMessage(ids)>> \in Seq(Message)
    BY MessageTypes
  <2>2. <<>> \in Seq(Message)
    BY EmptySeq
  <2> QED
    BY <2>1, <2>2 DEF KeptType, Pending
<1>2. PICK all : all = s.sent \o s.pending
  OBVIOUS
<1>3. all \in Seq(Message)
  BY <1>1, <1>2, ConcatProperties
<1>4. Flush(s) = [sent |-> all, pending |-> <<>>]
  BY <1>2 DEF Flush
<1>5. Flush(s) \in KeptType
  BY <1>3, <1>4 DEF KeptType, Pending
<1>6. all \o <<>> = all
  BY <1>3, ConcatEmptySeq
<1> QED
  BY <1>1, <1>2, <1>4, <1>5, <1>6 DEF Flush

\* Every turn but a call and a final turn is a message of its own.
TurnMessage(turn) ==
  IF turn.type = "user" THEN UserMessage
  ELSE IF turn.type = "result" THEN ToolMessage(turn.id)
  ELSE AssistantMessage(<<>>)

LEMMA KeepText ==
  ASSUME NEW s \in KeptType, NEW turn \in Turn,
         turn.type \in {"user", "result", "assistant"}
  PROVE  /\ KeepTurn(s, turn) \in KeptType
         /\ TurnMessage(turn) \in Message
         /\ Flush(KeepTurn(s, turn)).sent = Append(Flush(s).sent, TurnMessage(turn))
<1>1. PICK g : g = Flush(s)
  OBVIOUS
<1>2. /\ g \in KeptType /\ g.pending = <<>> /\ g.sent \in Seq(Message)
  BY <1>1, FlushSent
<1>3. TurnMessage(turn) \in Message
  <2>1. turn.type = "result" => turn.id \in Ids
    BY DEF Turn, UserTurn, FinalTurn, AssistantTurn, CallTurn
  <2> QED
    BY <2>1, MessageTypes DEF TurnMessage
<1>4. PICK more : more = Append(g.sent, TurnMessage(turn))
  OBVIOUS
<1>5. more \in Seq(Message)
  BY <1>2, <1>3, <1>4, AppendProperties
<1>6. CASE turn.type \in {"user", "result"}
  <2>1. KeepTurn(s, turn) = Say(s, TurnMessage(turn))
    BY <1>6 DEF KeepTurn, TurnMessage
  <2>2. Say(s, TurnMessage(turn)) = [g EXCEPT !.sent = more]
    BY <1>1, <1>4 DEF Say
  <2>3. KeepTurn(s, turn) = [sent |-> more, pending |-> <<>>]
    BY <1>2, <2>1, <2>2 DEF KeptType
  <2>4. KeepTurn(s, turn) \in KeptType
    BY <1>5, <2>3 DEF KeptType, Pending
  <2>5. Flush(KeepTurn(s, turn)).sent = more \o <<>>
    BY <2>3 DEF Flush
  <2>6. more \o <<>> = more
    BY <1>5, ConcatEmptySeq
  <2> QED
    BY <1>1, <1>3, <1>4, <2>4, <2>5, <2>6
<1>7. CASE turn.type = "assistant"
  <2>1. KeepTurn(s, turn) = [g EXCEPT !.pending = <<AssistantMessage(<<>>)>>]
    BY <1>1, <1>7 DEF KeepTurn, KeepAssistant
  <2>2. KeepTurn(s, turn) = [sent |-> g.sent, pending |-> <<AssistantMessage(<<>>)>>]
    BY <1>2, <2>1 DEF KeptType
  <2>3. <<>> \in Seq(Ids)
    BY EmptySeq
  <2>4. <<AssistantMessage(<<>>)>> \in Pending
    BY <2>3 DEF Pending
  <2>5. KeepTurn(s, turn) \in KeptType
    BY <1>2, <2>2, <2>4 DEF KeptType
  <2>6. Flush(KeepTurn(s, turn)).sent = g.sent \o <<AssistantMessage(<<>>)>>
    BY <2>2 DEF Flush
  <2>7. TurnMessage(turn) = AssistantMessage(<<>>)
    BY <1>7 DEF TurnMessage
  <2>8. g.sent \o <<AssistantMessage(<<>>)>> = more
    BY <1>2, <1>3, <1>4, <2>7, AppendIsConcat
  <2> QED
    BY <1>1, <1>3, <1>4, <2>5, <2>6, <2>8
<1> QED
  BY <1>6, <1>7

LEMMA KeepFinal ==
  ASSUME NEW s \in KeptType
  PROVE  /\ KeepTurn(s, FinalTurn) \in KeptType
         /\ Flush(KeepTurn(s, FinalTurn)).sent = Flush(s).sent
<1>1. KeepTurn(s, FinalTurn) = Flush(s)
  BY DEF KeepTurn, FinalTurn
<1> QED
  BY <1>1, FlushSent

\* A call joins the assistant message that waits.
LEMMA KeepJoins ==
  ASSUME NEW s \in KeptType, NEW ids \in Seq(Ids), NEW c \in Call,
         s.pending = <<AssistantMessage(ids)>>
  PROVE  KeepTurn(s, CallTurn(c)) =
           [sent |-> s.sent, pending |-> <<AssistantMessage(Append(ids, c.id))>>]
<1>1. KeepTurn(s, CallTurn(c)) = KeepCall(s, c.id)
  BY DEF KeepTurn, CallTurn
<1>2. s.pending # <<>> /\ s.pending[1].calls = ids
  BY DEF AssistantMessage
<1> QED
  BY <1>1, <1>2 DEF KeepCall, KeptType

LEMMA KeepCalls ==
  ASSUME NEW s \in KeptType, NEW c \in Call
  PROVE  KeepTurn(s, CallTurn(c)) \in KeptType
<1>1. c.id \in Ids
  BY DEF Call
<1>2. CASE s.pending = <<>>
  <2>1. KeepTurn(s, CallTurn(c)) =
          [sent |-> s.sent, pending |-> <<AssistantMessage(<<c.id>>)>>]
    BY <1>2 DEF KeepTurn, CallTurn, KeepCall, KeptType
  <2>2. <<c.id>> \in Seq(Ids)
    BY <1>1
  <2>3. <<AssistantMessage(<<c.id>>)>> \in Pending
    BY <2>2 DEF Pending
  <2> QED
    BY <2>1, <2>3 DEF KeptType
<1>3. ASSUME NEW ids \in Seq(Ids), s.pending = <<AssistantMessage(ids)>>
      PROVE  KeepTurn(s, CallTurn(c)) \in KeptType
  <2>1. Append(ids, c.id) \in Seq(Ids)
    BY <1>1, AppendProperties
  <2>2. KeepTurn(s, CallTurn(c)) =
          [sent |-> s.sent, pending |-> <<AssistantMessage(Append(ids, c.id))>>]
    BY <1>3, KeepJoins
  <2>3. <<AssistantMessage(Append(ids, c.id))>> \in Pending
    BY <2>1 DEF Pending
  <2> QED
    BY <2>2, <2>3 DEF KeptType
<1> QED
  BY <1>2, <1>3 DEF KeptType, Pending

LEMMA KeepType ==
  ASSUME NEW s \in KeptType, NEW turn \in Turn
  PROVE  KeepTurn(s, turn) \in KeptType
<1>1. CASE turn.type \in {"user", "result", "assistant"}
  BY <1>1, KeepText
<1>2. CASE turn = FinalTurn
  BY <1>2, KeepFinal
<1>3. ASSUME NEW c \in Call, turn = CallTurn(c)
      PROVE  KeepTurn(s, turn) \in KeptType
  BY <1>3, KeepCalls
<1> QED
  BY <1>1, <1>2, <1>3 DEF Turn, UserTurn, AssistantTurn

LEMMA KeptIsTyped ==
  ASSUME NEW ts \in Seq(Turn)
  PROVE  Kept(ts) \in KeptType /\ Messages(ts) \in Seq(Message)
<1>1. PICK n \in Nat : n = Len(ts)
  BY LenProperties
<1>2. PICK f : IsKept(f, ts) /\ Kept(ts) = f[n]
  BY <1>1, KeptBy
<1>3. \A k \in 0..n : f[k] = IF k = 0 THEN Start ELSE KeepTurn(f[k - 1], ts[k])
  BY <1>1, <1>2 DEF IsKept
<1> DEFINE T == {k \in 0..n : f[k] \in KeptType}
<1>4. 0 \in T
  <2>1. <<>> \in Seq(Message)
    BY EmptySeq
  <2>2. Start \in KeptType
    BY <2>1 DEF Start, KeptType, Pending
  <2> QED
    BY <1>3, <2>2
<1>5. ASSUME NEW k \in 0..(n - 1), k \in T
      PROVE  k + 1 \in T
  <2>1. k + 1 \in 0..n /\ k + 1 \in 1..n /\ k + 1 # 0 /\ (k + 1) - 1 = k
    OBVIOUS
  <2>2. ts[k + 1] \in Turn
    BY <1>1, <2>1, ElementOfSeq
  <2>3. f[k + 1] = KeepTurn(f[k], ts[k + 1])
    BY <1>3, <2>1
  <2> QED
    BY <1>5, <2>1, <2>2, <2>3, KeepType
<1> HIDE DEF T
<1>6. n \in T
  BY <1>4, <1>5, SetInduction
<1>7. Kept(ts) \in KeptType
  BY <1>2, <1>6 DEF T
<1>8. Flush(Kept(ts)).sent \in Seq(Message)
  BY <1>7, FlushSent DEF KeptType
<1> QED
  BY <1>7, <1>8 DEF Messages

\* A text of either side or a result is one more message.
LEMMA MessagesAppend ==
  ASSUME NEW ts \in Seq(Turn), NEW turn \in Turn,
         turn.type \in {"user", "result", "assistant"}
  PROVE  /\ Messages(Append(ts, turn)) = Append(Messages(ts), TurnMessage(turn))
         /\ TurnMessage(turn) \in Message
BY KeptIsTyped, KeptAppend, KeepText DEF Messages

LEMMA MessagesFinal ==
  ASSUME NEW ts \in Seq(Turn)
  PROVE  Messages(Append(ts, FinalTurn)) = Messages(ts)
<1>1. FinalTurn \in Turn
  BY DEF Turn
<1> QED
  BY <1>1, KeptIsTyped, KeptAppend, KeepFinal DEF Messages

FirstIds(calls, k) == [i \in 1..k |-> calls[i].id]

LEMMA FirstIdsGrow ==
  ASSUME NEW calls \in Seq(Call), NEW k \in 0..Len(calls)
  PROVE  /\ FirstIds(calls, k) \in Seq(Ids) /\ Len(FirstIds(calls, k)) = k
         /\ \A i \in 1..k : FirstIds(calls, k)[i] = calls[i].id
         /\ k < Len(calls) =>
              Append(FirstIds(calls, k), calls[k + 1].id) = FirstIds(calls, k + 1)
<1>1. Len(calls) \in Nat /\ k \in Nat
  BY LenProperties
<1>2. \A i \in 1..Len(calls) : calls[i].id \in Ids
  <2>1. \A i \in 1..Len(calls) : calls[i] \in Call
    BY ElementOfSeq
  <2> QED
    BY <2>1 DEF Call
<1>3. ASSUME NEW j \in 0..Len(calls)
      PROVE  /\ FirstIds(calls, j) \in Seq(Ids) /\ Len(FirstIds(calls, j)) = j
             /\ \A i \in 1..j : FirstIds(calls, j)[i] = calls[i].id
  <2>1. \A i \in 1..j : calls[i].id \in Ids
    <3>1. \A i \in 1..j : i \in 1..Len(calls)
      BY <1>1
    <3> QED
      BY <1>2, <3>1
  <2>2. FirstIds(calls, j) \in [1..j -> Ids] /\ j \in Nat
    BY <1>1, <2>1 DEF FirstIds
  <2>3. FirstIds(calls, j) \in Seq(Ids) /\ Len(FirstIds(calls, j)) = j
    BY <2>2, FunctionIsSeq
  <2> QED
    BY <2>3 DEF FirstIds
<1>4. ASSUME k < Len(calls)
      PROVE  Append(FirstIds(calls, k), calls[k + 1].id) = FirstIds(calls, k + 1)
  <2>1. k + 1 \in 0..Len(calls) /\ k + 1 \in 1..Len(calls)
    BY <1>1, <1>4
  <2>2. PICK s : s = FirstIds(calls, k)
    OBVIOUS
  <2>3. s \in Seq(Ids) /\ Len(s) = k /\ \A i \in 1..k : s[i] = calls[i].id
    BY <1>3, <2>2
  <2>4. PICK t : t = FirstIds(calls, k + 1)
    OBVIOUS
  <2>5. t \in Seq(Ids) /\ Len(t) = k + 1 /\ \A i \in 1..(k + 1) : t[i] = calls[i].id
    BY <1>3, <2>1, <2>4
  <2>6. PICK a : a = Append(s, calls[k + 1].id)
    OBVIOUS
  <2>7. /\ a \in Seq(Ids) /\ Len(a) = k + 1 /\ a[k + 1] = calls[k + 1].id
        /\ \A i \in 1..k : a[i] = s[i]
    BY <1>2, <2>1, <2>3, <2>6, AppendProperties
  <2>8. \A i \in 1..(k + 1) : i \in 1..k \/ i = k + 1
    BY <1>1
  <2>9. \A i \in 1..(k + 1) : a[i] = t[i]
    BY <2>3, <2>5, <2>7, <2>8
  <2>10. a = t
    BY <2>5, <2>7, <2>9, SeqEqual
  <2> QED
    BY <2>2, <2>4, <2>6, <2>10
<1> QED
  BY <1>3, <1>4

\* An answer with calls is one more message, with all of its calls.
LEMMA MessagesParsed ==
  ASSUME NEW ts \in Seq(Turn), NEW calls \in Seq(Call), NEW us,
         us = (ts \o <<AssistantTurn("tool_plan")>>) \o CallTurns(calls)
  PROVE  Messages(us) =
           Append(Messages(ts), AssistantMessage(FirstIds(calls, Len(calls))))
<1>1. PICK n \in Nat : n = Len(calls) /\ DOMAIN calls = 1..n
  BY LenProperties
<1>2. PICK l \in Nat : l = Len(ts)
  BY LenProperties
<1>3. PICK m \in Nat : m = l + 1
  OBVIOUS
<1>4. /\ us \in Seq(Turn) /\ Len(us) = m + n
      /\ \A i \in 1..l : us[i] = ts[i]
      /\ us[m] = AssistantTurn("tool_plan")
      /\ \A k \in 1..n : us[m + k] = CallTurn(calls[k])
  <2>1. m = Len(ts) + 1
    BY <1>2, <1>3
  <2>2. /\ us \in Seq(Turn) /\ Len(us) = (Len(ts) + 1) + Len(calls)
        /\ \A i \in 1..Len(ts) : us[i] = ts[i]
        /\ us[Len(ts) + 1] = AssistantTurn("tool_plan")
        /\ \A k \in 1..Len(calls) : us[(Len(ts) + 1) + k] = CallTurn(calls[k])
    BY ParsedTurns, Zenon
  <2> QED
    BY <1>1, <1>2, <2>1, <2>2, Zenon
<1>5. PICK f : IsKept(f, us) /\ Kept(us) = f[m + n]
  <2>1. m + n \in Nat
    OBVIOUS
  <2> QED
    BY <1>4, <2>1, KeptBy
<1>6. \A k \in 0..(m + n) :
        f[k] = IF k = 0 THEN Start ELSE KeepTurn(f[k - 1], us[k])
  BY <1>4, <1>5 DEF IsKept
<1>7. f[l] = Kept(ts)
  <2>1. l <= m + n /\ m + n \in Nat
    BY <1>3
  <2> QED
    BY <1>2, <1>4, <1>5, <2>1, KeptPrefix
<1>8. Kept(ts) \in KeptType /\ Messages(ts) \in Seq(Message)
  BY KeptIsTyped
<1> DEFINE Waits(k) == [sent    |-> Messages(ts),
                        pending |-> <<AssistantMessage(FirstIds(calls, k))>>]
           T == {k \in 0..n : f[m + k] = Waits(k)}
<1>9. \A k \in 0..n : Waits(k) \in KeptType
  <2> SUFFICES ASSUME NEW k \in 0..n PROVE Waits(k) \in KeptType
    OBVIOUS
  <2>1. FirstIds(calls, k) \in Seq(Ids)
    BY <1>1, FirstIdsGrow
  <2>2. <<AssistantMessage(FirstIds(calls, k))>> \in Pending
    BY <2>1 DEF Pending
  <2> QED
    BY <1>8, <2>2 DEF KeptType
<1>10. 0 \in T
  <2>1. f[m] = KeepTurn(Kept(ts), AssistantTurn("tool_plan"))
    <3>1. m \in 0..(m + n) /\ m # 0 /\ m - 1 = l
      BY <1>3
    <3> QED
      BY <1>4, <1>6, <1>7, <3>1
  <2>2. f[m] = [Flush(Kept(ts)) EXCEPT !.pending = <<AssistantMessage(<<>>)>>]
    BY <2>1 DEF KeepTurn, AssistantTurn, KeepAssistant
  <2>3. Flush(Kept(ts)) \in KeptType /\ Flush(Kept(ts)).sent = Messages(ts)
    BY <1>8, FlushSent DEF Messages
  <2>4. f[m] = [sent |-> Messages(ts), pending |-> <<AssistantMessage(<<>>)>>]
    BY <2>2, <2>3 DEF KeptType
  <2>5. FirstIds(calls, 0) = <<>>
    BY DEF FirstIds
  <2>6. m + 0 = m /\ 0 \in 0..n
    OBVIOUS
  <2> QED
    BY <2>4, <2>5, <2>6
<1>11. ASSUME NEW k \in 0..(n - 1), k \in T
       PROVE  k + 1 \in T
  <2>1. /\ m + (k + 1) \in 0..(m + n) /\ m + (k + 1) # 0
        /\ (m + (k + 1)) - 1 = m + k
        /\ k + 1 \in 1..n /\ k + 1 \in 0..n /\ k \in 0..n
        /\ k \in 0..Len(calls) /\ k < Len(calls)
    BY <1>1
  <2>2. f[m + (k + 1)] = KeepTurn(Waits(k), CallTurn(calls[k + 1]))
    BY <1>4, <1>6, <1>11, <2>1
  <2>3. calls[k + 1] \in Call /\ FirstIds(calls, k) \in Seq(Ids)
    BY <1>1, <2>1, ElementOfSeq, FirstIdsGrow
  <2>4. KeepTurn(Waits(k), CallTurn(calls[k + 1])) =
          [sent |-> Messages(ts), pending |->
             <<AssistantMessage(Append(FirstIds(calls, k), calls[k + 1].id))>>]
    <3>1. PICK s : s = Waits(k)
      OBVIOUS
    <3>2. /\ s \in KeptType /\ s.sent = Messages(ts)
          /\ s.pending = <<AssistantMessage(FirstIds(calls, k))>>
      BY <1>9, <2>1, <3>1
    <3>3. KeepTurn(s, CallTurn(calls[k + 1])) =
            [sent |-> s.sent, pending |->
               <<AssistantMessage(Append(FirstIds(calls, k), calls[k + 1].id))>>]
      BY <2>3, <3>2, KeepJoins
    <3> QED
      BY <3>1, <3>2, <3>3, Zenon
  <2>5. Append(FirstIds(calls, k), calls[k + 1].id) = FirstIds(calls, k + 1)
    BY <2>1, FirstIdsGrow
  <2> QED
    BY <2>1, <2>2, <2>4, <2>5
<1> HIDE DEF T
<1>12. n \in T
  BY <1>10, <1>11, SetInduction
<1>13. Kept(us) = Waits(n)
  <2>1. f[m + n] = Waits(n)
    BY <1>12 DEF T
  <2> QED
    BY <1>5, <2>1
<1>14. Messages(us) =
         Messages(ts) \o <<AssistantMessage(FirstIds(calls, n))>>
  <2>1. Messages(us) = Kept(us).sent \o Kept(us).pending
    BY DEF Messages, Flush
  <2>2. /\ Waits(n).sent = Messages(ts)
        /\ Waits(n).pending = <<AssistantMessage(FirstIds(calls, n))>>
    OBVIOUS
  <2> HIDE DEF Waits
  <2> QED
    BY <1>13, <2>1, <2>2, Zenon
<1>15. AssistantMessage(FirstIds(calls, n)) \in Message
  <2>1. FirstIds(calls, n) \in Seq(Ids)
    BY <1>1, FirstIdsGrow
  <2> QED
    BY <2>1, MessageTypes
<1> QED
  BY <1>1, <1>8, <1>14, <1>15, AppendIsConcat

(***************************************************************************)
(* The input items that messages become.                                   *)
(***************************************************************************)

IsFlat(f, ss) ==
  f = [i \in 1..Len(ss) |-> IF i = 1 THEN ss[i] ELSE f[i - 1] \o ss[i]]

LEMMA FlatExists ==
  ASSUME NEW ss, Len(ss) \in Nat
  PROVE  \E f : IsFlat(f, ss)
<1> DEFINE Upto(f, m) == f = [i \in 1..m |->
                                IF i = 1 THEN ss[i] ELSE f[i - 1] \o ss[i]]
           T == {m \in 0..Len(ss) : \E f : Upto(f, m)}
<1>1. 0 \in T
  <2>1. PICK f : f = [i \in 1..0 |-> ss[i]]
    OBVIOUS
  <2>2. Upto(f, 0)
    BY <2>1
  <2>3. 0 \in 0..Len(ss)
    OBVIOUS
  <2> QED
    BY <2>2, <2>3
<1>2. ASSUME NEW k \in 0..(Len(ss) - 1), k \in T
      PROVE  k + 1 \in T
  <2>1. PICK f : Upto(f, k)
    BY <1>2
  <2>2. PICK g : g = [i \in 1..(k + 1) |->
                        IF i = k + 1
                        THEN IF i = 1 THEN ss[i] ELSE f[k] \o ss[k + 1]
                        ELSE f[i]]
    OBVIOUS
  <2>3. Upto(g, k + 1)
    <3>1. ASSUME NEW i \in 1..(k + 1)
          PROVE  g[i] = IF i = 1 THEN ss[i] ELSE g[i - 1] \o ss[i]
      <4>1. CASE i = k + 1 /\ i # 1
        <5>1. i - 1 = k /\ k \in 1..(k + 1) /\ k # k + 1
          BY <4>1
        <5>2. g[i] = f[k] \o ss[k + 1]
          BY <2>2, <4>1
        <5>3. g[k] = f[k]
          BY <2>2, <5>1
        <5> QED
          BY <4>1, <5>1, <5>2, <5>3
      <4>2. CASE i = 1 /\ i = k + 1
        BY <2>2, <4>2
      <4>3. CASE i = 1 /\ i # k + 1
        <5>1. i \in 1..k
          BY <4>3
        <5> QED
          BY <2>1, <2>2, <4>3, <5>1
      <4>4. CASE i # k + 1 /\ i # 1
        <5>1. i \in 1..k /\ i - 1 \in 1..(k + 1) /\ i - 1 # k + 1
          BY <4>4
        <5>2. f[i] = f[i - 1] \o ss[i]
          BY <2>1, <4>4, <5>1
        <5>3. g[i] = f[i] /\ g[i - 1] = f[i - 1]
          BY <2>2, <4>4, <5>1
        <5> QED
          BY <4>4, <5>2, <5>3
      <4> QED
        BY <4>1, <4>2, <4>3, <4>4
    <3> QED
      BY <2>2, <3>1
  <2>4. k + 1 \in 0..Len(ss)
    OBVIOUS
  <2> QED
    BY <2>3, <2>4
<1> HIDE DEF T
<1>3. Len(ss) \in T
  BY <1>1, <1>2, SetInduction
<1>4. PICK f : Upto(f, Len(ss))
  BY <1>3 DEF T
<1> QED
  BY <1>4 DEF IsFlat

LEMMA FlatBy ==
  ASSUME NEW ss, Len(ss) \in Nat, Len(ss) # 0
  PROVE  \E f : IsFlat(f, ss) /\ Seqs!FlattenSeq(ss) = f[Len(ss)]
<1>1. Seqs!FlattenSeq(ss) = (CHOOSE f : IsFlat(f, ss))[Len(ss)]
  BY DEF Seqs!FlattenSeq, IsFlat
<1>2. IsFlat(CHOOSE f : IsFlat(f, ss), ss)
  BY FlatExists
<1> QED
  BY <1>1, <1>2

LEMMA FlatPrefix ==
  ASSUME NEW ss, NEW us, NEW f, Len(ss) \in Nat \ {0}, Len(us) \in Nat,
         Len(ss) <= Len(us), \A i \in 1..Len(ss) : us[i] = ss[i],
         IsFlat(f, us)
  PROVE  f[Len(ss)] = Seqs!FlattenSeq(ss)
<1>1. PICK n \in Nat : n = Len(ss) /\ n # 0
  OBVIOUS
<1>2. PICK g : IsFlat(g, ss) /\ Seqs!FlattenSeq(ss) = g[n]
  BY <1>1, FlatBy
<1>3. \A k \in 1..n : g[k] = IF k = 1 THEN ss[k] ELSE g[k - 1] \o ss[k]
  BY <1>1, <1>2 DEF IsFlat
<1>4. \A k \in 1..n : f[k] = IF k = 1 THEN us[k] ELSE f[k - 1] \o us[k]
  <2>1. \A k \in 1..n : k \in 1..Len(us)
    BY <1>1
  <2> QED
    BY <2>1 DEF IsFlat
<1> DEFINE T == {0} \cup {k \in 1..n : g[k] = f[k]}
<1>5. 0 \in T
  OBVIOUS
<1>6. ASSUME NEW k \in 0..(n - 1), k \in T
      PROVE  k + 1 \in T
  <2>1. k + 1 \in 1..n /\ (k + 1) - 1 = k /\ us[k + 1] = ss[k + 1]
    BY <1>1
  <2>2. CASE k = 0
    BY <1>3, <1>4, <2>1, <2>2
  <2>3. CASE k # 0
    <3>1. f[k] = g[k] /\ k + 1 # 1
      BY <1>6, <2>3
    <3>2. g[k + 1] = g[k] \o ss[k + 1] /\ f[k + 1] = f[k] \o us[k + 1]
      BY <1>3, <1>4, <2>1, <3>1
    <3> QED
      BY <2>1, <3>1, <3>2
  <2> QED
    BY <2>2, <2>3
<1> HIDE DEF T
<1>7. n \in T
  BY <1>5, <1>6, SetInduction
<1> QED
  BY <1>1, <1>2, <1>7 DEF T

LEMMA FlattenAppend ==
  ASSUME NEW S, NEW ss \in Seq(Seq(S)), NEW s \in Seq(S),
         Seqs!FlattenSeq(ss) \in Seq(S)
  PROVE  /\ Seqs!FlattenSeq(Append(ss, s)) = Seqs!FlattenSeq(ss) \o s
         /\ Seqs!FlattenSeq(Append(ss, s)) \in Seq(S)
<1>1. PICK n \in Nat : n = Len(ss)
  BY LenProperties
<1>2. PICK us : us = Append(ss, s)
  OBVIOUS
<1>3. /\ Len(us) = n + 1 /\ us[n + 1] = s /\ \A i \in 1..n : us[i] = ss[i]
      /\ n + 1 \in Nat /\ n <= n + 1 /\ n + 1 # 0
  BY <1>1, <1>2, AppendProperties
<1>4. PICK f : IsFlat(f, us) /\ Seqs!FlattenSeq(us) = f[n + 1]
  BY <1>3, FlatBy
<1>5. f[n + 1] = IF n + 1 = 1 THEN us[n + 1] ELSE f[n] \o us[n + 1]
  <2>1. n + 1 \in 1..(n + 1) /\ (n + 1) - 1 = n
    OBVIOUS
  <2> QED
    BY <1>3, <1>4, <2>1 DEF IsFlat
<1>6. CASE n = 0
  <2>1. ss = <<>>
    BY <1>1, <1>6, EmptySeq
  <2>2. Seqs!FlattenSeq(ss) = <<>>
    <3>1. Len(ss) = 0
      BY <1>1, <1>6
    <3>2. Seqs!FlattenSeq(ss) = ss
      BY <3>1 DEF Seqs!FlattenSeq
    <3> QED
      BY <2>1, <3>2, Zenon
  <2>3. <<>> \o s = s
    BY ConcatEmptySeq
  <2> QED
    <3>1. f[n + 1] = s
      BY <1>3, <1>5, <1>6
    <3>2. Seqs!FlattenSeq(us) = s
      BY <1>4, <3>1
    <3>3. Seqs!FlattenSeq(ss) \o s = s
      BY <2>2, <2>3
    <3> QED
      BY <1>2, <3>2, <3>3
<1>7. CASE n # 0
  <2>1. f[n] = Seqs!FlattenSeq(ss)
    BY <1>1, <1>3, <1>4, <1>7, FlatPrefix
  <2>2. f[n + 1] = f[n] \o us[n + 1]
    <3>1. n + 1 # 1
      BY <1>7
    <3> QED
      BY <1>5, <3>1, Zenon
  <2>3. Seqs!FlattenSeq(us) = Seqs!FlattenSeq(ss) \o s
    BY <1>3, <1>4, <2>1, <2>2
  <2>4. Seqs!FlattenSeq(ss) \o s \in Seq(S)
    BY ConcatProperties
  <2> QED
    BY <1>2, <2>3, <2>4
<1> QED
  BY <1>6, <1>7

Item == {Text} \cup [kind : {"call", "output"}, id : Ids]

LEMMA ItemTypes ==
  /\ Text \in Item
  /\ \A id \in Ids : CallItem(id) \in Item /\ OutputItem(id) \in Item
BY DEF Item, Text, CallItem, OutputItem

LEMMA ItemsType ==
  ASSUME NEW m \in Message, NEW silent \in BOOLEAN
  PROVE  Items(m, silent) \in Seq(Item)
<1>1. CASE m = UserMessage
  <2>1. Items(m, silent) = <<Text>>
    BY <1>1 DEF Items, UserMessage
  <2> QED
    BY <2>1, ItemTypes
<1>2. ASSUME NEW id \in Ids, m = ToolMessage(id)
      PROVE  Items(m, silent) \in Seq(Item)
  <2>1. Items(m, silent) = <<OutputItem(id)>>
    BY <1>2 DEF Items, ToolMessage
  <2> QED
    BY <2>1, ItemTypes
<1>3. ASSUME NEW ids \in Seq(Ids), m = AssistantMessage(ids)
      PROVE  Items(m, silent) \in Seq(Item)
  <2>1. m.role = "assistant" /\ m.calls = ids
    BY <1>3 DEF AssistantMessage
  <2>2. CASE ids = <<>>
    <3>1. Items(m, silent) = <<Text>>
      BY <2>1, <2>2 DEF Items
    <3> QED
      BY <3>1, ItemTypes
  <2>3. CASE ids # <<>>
    <3>1. PICK calls : calls = [i \in DOMAIN ids |-> CallItem(ids[i])]
      OBVIOUS
    <3>2. PICK text : text = IF silent THEN <<>> ELSE <<Text>>
      OBVIOUS
    <3>3. Items(m, silent) = text \o calls
      BY <2>1, <2>3, <3>1, <3>2 DEF Items
    <3>4. text \in Seq(Item)
      BY <3>2, ItemTypes, EmptySeq
    <3>5. calls \in Seq(Item)
      <4>1. Len(ids) \in Nat /\ DOMAIN ids = 1..Len(ids)
        BY LenProperties
      <4>2. \A i \in 1..Len(ids) : CallItem(ids[i]) \in Item
        BY ElementOfSeq, ItemTypes
      <4>3. calls \in [1..Len(ids) -> Item]
        BY <3>1, <4>1, <4>2
      <4> QED
        BY <4>1, <4>3, FunctionIsSeq
    <3> QED
      BY <3>3, <3>4, <3>5, ConcatProperties
  <2> QED
    BY <2>2, <2>3
<1>4. \/ m = UserMessage \/ \E ids \in Seq(Ids) : m = AssistantMessage(ids)
      \/ \E id \in Ids : m = ToolMessage(id)
  BY DEF Message, AssistantMessage, ToolMessage
<1> QED
  BY <1>1, <1>2, <1>3, <1>4

\* The items of one more message come behind those of the others.
LEMMA InputAppend ==
  ASSUME NEW ms \in Seq(Message), NEW m \in Message, NEW silent \in BOOLEAN,
         ResponsesInput(ms, silent) \in Seq(Item)
  PROVE  /\ ResponsesInput(Append(ms, m), silent)
              = ResponsesInput(ms, silent) \o Items(m, silent)
         /\ ResponsesInput(Append(ms, m), silent) \in Seq(Item)
<1>1. PICK n \in Nat : n = Len(ms) /\ DOMAIN ms = 1..n
  BY LenProperties
<1>2. PICK us : us = Append(ms, m)
  OBVIOUS
<1>3. /\ us \in Seq(Message) /\ Len(us) = n + 1 /\ us[n + 1] = m
      /\ \A i \in 1..n : us[i] = ms[i]
  BY <1>1, <1>2, AppendProperties
<1>4. DOMAIN us = 1..(n + 1)
  BY <1>3, LenProperties
<1>5. PICK ss : ss = [i \in 1..n |-> Items(ms[i], silent)]
  OBVIOUS
<1>6. PICK ts : ts = [i \in 1..(n + 1) |-> Items(us[i], silent)]
  OBVIOUS
<1>7. ss \in Seq(Seq(Item)) /\ Len(ss) = n
  <2>1. \A i \in 1..n : Items(ms[i], silent) \in Seq(Item)
    BY <1>1, ElementOfSeq, ItemsType
  <2>2. ss \in [1..n -> Seq(Item)]
    BY <1>5, <2>1
  <2> QED
    BY <2>2, FunctionIsSeq
<1>8. ts \in Seq(Seq(Item)) /\ Len(ts) = n + 1
  <2>1. \A i \in 1..(n + 1) : Items(us[i], silent) \in Seq(Item)
    BY <1>3, ElementOfSeq, ItemsType
  <2>2. ts \in [1..(n + 1) -> Seq(Item)] /\ n + 1 \in Nat
    BY <1>6, <2>1
  <2> QED
    BY <2>2, FunctionIsSeq
<1>9. PICK items : items = Items(m, silent)
  OBVIOUS
<1>10. items \in Seq(Item)
  BY <1>9, ItemsType
<1>11. ts = Append(ss, items)
  <2>1. PICK a : a = Append(ss, items)
    OBVIOUS
  <2>2. /\ a \in Seq(Seq(Item)) /\ Len(a) = n + 1 /\ a[n + 1] = items
        /\ \A i \in 1..n : a[i] = ss[i]
    BY <1>7, <1>10, <2>1, AppendProperties
  <2>3. ASSUME NEW i \in 1..(n + 1)
        PROVE  a[i] = ts[i]
    <3>1. ts[i] = Items(us[i], silent)
      BY <1>6
    <3>2. CASE i \in 1..n
      BY <1>3, <1>5, <2>2, <3>1, <3>2
    <3>3. CASE i = n + 1
      BY <1>3, <1>9, <2>2, <3>1, <3>3
    <3> QED
      BY <3>2, <3>3
  <2> QED
    BY <1>8, <2>1, <2>2, <2>3, SeqEqual
<1>12. ResponsesInput(ms, silent) = Seqs!FlattenSeq(ss)
  BY <1>1, <1>5 DEF ResponsesInput
<1>13. ResponsesInput(us, silent) = Seqs!FlattenSeq(ts)
  BY <1>4, <1>6 DEF ResponsesInput
<1> QED
  BY <1>2, <1>7, <1>9, <1>10, <1>11, <1>12, <1>13, FlattenAppend

(***************************************************************************)
(* One more message of a story.                                            *)
(***************************************************************************)

LEMMA CountStep ==
  ASSUME NEW P, NEW n \in Nat
  PROVE  LET Upto(k) == {p \in 1..k : p \in P} IN
           /\ IsFiniteSet(Upto(n)) /\ Cardinality(Upto(n)) \in Nat
           /\ n + 1 \in P => Cardinality(Upto(n + 1)) = Cardinality(Upto(n)) + 1
           /\ n + 1 \notin P => Upto(n + 1) = Upto(n)
<1> DEFINE Upto(k) == {p \in 1..k : p \in P}
<1>1. IsFiniteSet(1..n)
  BY FS_Interval
<1>2. IsFiniteSet(Upto(n))
  BY <1>1, FS_Subset
<1>3. n + 1 \notin Upto(n)
  OBVIOUS
<1>4. n + 1 \in P => Upto(n + 1) = Upto(n) \cup {n + 1}
  OBVIOUS
<1>5. n + 1 \notin P => Upto(n + 1) = Upto(n)
  OBVIOUS
<1> HIDE DEF Upto
<1>6. Cardinality(Upto(n)) \in Nat
  BY <1>2, FS_CardinalityType
<1>7. Cardinality(Upto(n) \cup {n + 1}) = Cardinality(Upto(n)) + 1
  BY <1>2, <1>3, FS_AddElement
<1> QED
  BY <1>2, <1>4, <1>5, <1>6, <1>7 DEF Upto

\* How many calls of an id wait changes with calls and outputs of that id only.
LEMMA OpenAppend ==
  ASSUME NEW items \in Seq(Item), NEW x \in Item, NEW id \in Ids
  PROVE  LET more == Append(items, x)
             n == Len(items)
         IN  /\ \A k \in 0..n : Open(more, id, k) = Open(items, id, k)
             /\ Open(items, id, n) \in Int
             /\ Open(more, id, n + 1) = Open(items, id, n)
                  + (IF x = CallItem(id) THEN 1 ELSE 0)
                  - (IF x = OutputItem(id) THEN 1 ELSE 0)
<1>1. PICK n \in Nat : n = Len(items)
  BY LenProperties
<1>2. PICK more : more = Append(items, x)
  OBVIOUS
<1>3. more[n + 1] = x /\ \A i \in 1..n : more[i] = items[i]
  BY <1>1, <1>2, AppendProperties
<1> DEFINE At(s, y, k) == {p \in 1..k : s[p] = y}
<1>4. ASSUME NEW y, NEW k \in 0..n
      PROVE  At(more, y, k) = At(items, y, k)
  <2>1. \A p \in 1..k : p \in 1..n
    BY <1>1
  <2> QED
    BY <1>3, <2>1
<1>5. ASSUME NEW y
      PROVE  /\ Cardinality(At(items, y, n)) \in Nat
             /\ Cardinality(At(more, y, n + 1)) =
                  Cardinality(At(items, y, n)) + (IF x = y THEN 1 ELSE 0)
  <2>1. PICK P : P = {p \in 1..(n + 1) : more[p] = y}
    OBVIOUS
  <2>2. At(more, y, n + 1) = {p \in 1..(n + 1) : p \in P}
    BY <2>1
  <2>3. At(items, y, n) = {p \in 1..n : p \in P}
    <3>1. \A p \in 1..n : p \in 1..(n + 1)
      OBVIOUS
    <3> QED
      BY <1>3, <2>1, <3>1
  <2>4. n + 1 \in P <=> x = y
    <3>1. n + 1 \in 1..(n + 1)
      OBVIOUS
    <3> QED
      BY <1>3, <2>1, <3>1
  <2>5. /\ Cardinality({p \in 1..n : p \in P}) \in Nat
        /\ n + 1 \in P => Cardinality({p \in 1..(n + 1) : p \in P})
                            = Cardinality({p \in 1..n : p \in P}) + 1
        /\ n + 1 \notin P => {p \in 1..(n + 1) : p \in P} = {p \in 1..n : p \in P}
    BY CountStep
  <2>6. PICK old : old = At(items, y, n)
    OBVIOUS
  <2>7. PICK new : new = At(more, y, n + 1)
    OBVIOUS
  <2>8. /\ Cardinality(old) \in Nat
        /\ x = y => Cardinality(new) = Cardinality(old) + 1
        /\ x # y => new = old
    BY <2>2, <2>3, <2>4, <2>5, <2>6, <2>7
  <2>9. Cardinality(new) = Cardinality(old) + (IF x = y THEN 1 ELSE 0)
    BY <2>8
  <2> QED
    BY <2>6, <2>7, <2>8, <2>9
<1>6. ASSUME NEW s, NEW k
      PROVE  Open(s, id, k) = Cardinality(At(s, CallItem(id), k))
                                - Cardinality(At(s, OutputItem(id), k))
  BY DEF Open
<1> HIDE DEF At
<1>7. \A k \in 0..n : Open(more, id, k) = Open(items, id, k)
  BY <1>4, <1>6
<1>8. PICK c \in Nat : c = Cardinality(At(items, CallItem(id), n))
  BY <1>5
<1>9. PICK o \in Nat : o = Cardinality(At(items, OutputItem(id), n))
  BY <1>5
<1>10. Open(items, id, n) = c - o
  BY <1>6, <1>8, <1>9
<1>11. Open(more, id, n + 1) = (c + (IF x = CallItem(id) THEN 1 ELSE 0))
                                 - (o + (IF x = OutputItem(id) THEN 1 ELSE 0))
  BY <1>5, <1>6, <1>8, <1>9
<1>12. Open(more, id, n + 1) = (c - o) + (IF x = CallItem(id) THEN 1 ELSE 0)
                                 - (IF x = OutputItem(id) THEN 1 ELSE 0)
  BY <1>11
<1>13. c - o \in Int
  OBVIOUS
<1> QED
  BY <1>1, <1>2, <1>7, <1>10, <1>12, <1>13

LEMMA LeaveAppend ==
  ASSUME NEW items \in Seq(Item), NEW x \in Item, NEW ids, NEW left,
         ItemsLeave(items, ids),
         \A id \in Ids : (IF id \in left THEN 1 ELSE 0) =
                           (IF id \in ids THEN 1 ELSE 0)
                             + (IF x = CallItem(id) THEN 1 ELSE 0)
                             - (IF x = OutputItem(id) THEN 1 ELSE 0)
  PROVE  ItemsLeave(Append(items, x), left)
<1>1. PICK n \in Nat : n = Len(items) /\ DOMAIN items = 1..n
  BY LenProperties
<1>2. PICK more : more = Append(items, x)
  OBVIOUS
<1>3. more \in Seq(Item) /\ Len(more) = n + 1
  BY <1>1, <1>2, AppendProperties
<1>4. DOMAIN more = 1..(n + 1)
  BY <1>3, LenProperties
<1>5. ASSUME NEW id \in Ids
      PROVE  /\ \A k \in DOMAIN more : Open(more, id, k) \in 0..1
             /\ Open(more, id, Len(more)) = IF id \in left THEN 1 ELSE 0
  <2>1. /\ \A k \in 1..n : Open(items, id, k) \in 0..1
        /\ Open(items, id, n) = IF id \in ids THEN 1 ELSE 0
    BY <1>1 DEF ItemsLeave
  <2>2. /\ \A k \in 0..n : Open(more, id, k) = Open(items, id, k)
        /\ Open(more, id, n + 1) = Open(items, id, n)
             + (IF x = CallItem(id) THEN 1 ELSE 0)
             - (IF x = OutputItem(id) THEN 1 ELSE 0)
    BY <1>1, <1>2, OpenAppend
  <2>3. Open(more, id, n + 1) = IF id \in left THEN 1 ELSE 0
    BY <2>1, <2>2
  <2>4. \A k \in 1..n : Open(more, id, k) \in 0..1
    <3>1. \A k \in 1..n : k \in 0..n
      OBVIOUS
    <3> QED
      BY <2>1, <2>2, <3>1
  <2>5. \A k \in 1..(n + 1) : k \in 1..n \/ k = n + 1
    OBVIOUS
  <2>6. Open(more, id, n + 1) \in 0..1
    BY <2>3
  <2> QED
    BY <1>3, <1>4, <2>3, <2>4, <2>5, <2>6
<1> QED
  BY <1>2, <1>5 DEF ItemsLeave

LEMMA LeaveText ==
  ASSUME NEW items \in Seq(Item), NEW ids, ItemsLeave(items, ids)
  PROVE  ItemsLeave(Append(items, Text), ids)
<1>1. \A id \in Ids : Text # CallItem(id) /\ Text # OutputItem(id)
  BY DEF Text, CallItem, OutputItem
<1>2. \A id \in Ids : (IF id \in ids THEN 1 ELSE 0) =
                        (IF id \in ids THEN 1 ELSE 0)
                          + (IF Text = CallItem(id) THEN 1 ELSE 0)
                          - (IF Text = OutputItem(id) THEN 1 ELSE 0)
  BY <1>1
<1> QED
  BY <1>2, ItemTypes, LeaveAppend

LEMMA LeaveCall ==
  ASSUME NEW items \in Seq(Item), NEW ids, ItemsLeave(items, ids),
         NEW new \in Ids \ ids
  PROVE  ItemsLeave(Append(items, CallItem(new)), ids \cup {new})
<1>1. \A id \in Ids : /\ CallItem(new) = CallItem(id) <=> id = new
                      /\ CallItem(new) # OutputItem(id)
  BY DEF CallItem, OutputItem
<1>2. \A id \in Ids : (IF id \in ids \cup {new} THEN 1 ELSE 0) =
                        (IF id \in ids THEN 1 ELSE 0)
                          + (IF CallItem(new) = CallItem(id) THEN 1 ELSE 0)
                          - (IF CallItem(new) = OutputItem(id) THEN 1 ELSE 0)
  BY <1>1
<1> QED
  BY <1>2, ItemTypes, LeaveAppend

LEMMA LeaveOutput ==
  ASSUME NEW items \in Seq(Item), NEW ids, ItemsLeave(items, ids),
         NEW old \in Ids, old \in ids
  PROVE  ItemsLeave(Append(items, OutputItem(old)), ids \ {old})
<1>1. \A id \in Ids : /\ OutputItem(old) = OutputItem(id) <=> id = old
                      /\ OutputItem(old) # CallItem(id)
  BY DEF CallItem, OutputItem
<1>2. \A id \in Ids : (IF id \in ids \ {old} THEN 1 ELSE 0) =
                        (IF id \in ids THEN 1 ELSE 0)
                          + (IF OutputItem(old) = CallItem(id) THEN 1 ELSE 0)
                          - (IF OutputItem(old) = OutputItem(id) THEN 1 ELSE 0)
  BY <1>1
<1> QED
  BY <1>2, ItemTypes, LeaveAppend

LEMMA SubSeqGrows ==
  ASSUME NEW S, NEW s \in Seq(S), NEW k \in 0..(Len(s) - 1)
  PROVE  /\ SubSeq(s, 1, k) \in Seq(S)
         /\ SubSeq(s, 1, k + 1) = Append(SubSeq(s, 1, k), s[k + 1])
<1>1. Len(s) \in Nat /\ k \in Nat
  BY LenProperties
<1>2. \A i \in 1..Len(s) : s[i] \in S
  BY ElementOfSeq
<1>3. SubSeq(s, 1, k) \in Seq(S)
  <2>1. \A i \in 1..k : s[i] \in S
    BY <1>1, <1>2
  <2> QED
    BY <1>1, <2>1, SubSeqProperties
<1>4. 1 \in 1..Len(s) /\ k + 1 \in 1..Len(s) /\ (k + 1) - 1 = k
  BY <1>1
<1>5. SubSeq(s, 1, k + 1) = SubSeq(s, 1, k) \o <<s[k + 1]>>
  BY <1>4, SubSeqRecursiveSecond
<1>6. SubSeq(s, 1, k) \o <<s[k + 1]>> = Append(SubSeq(s, 1, k), s[k + 1])
  BY <1>2, <1>3, <1>4, AppendIsConcat
<1> QED
  BY <1>3, <1>5, <1>6

\* The calls of an answer wait, one behind the other.
LEMMA LeaveCalls ==
  ASSUME NEW items \in Seq(Item), ItemsLeave(items, {}), NEW ids \in Seq(Ids),
         \A i, j \in DOMAIN ids : ids[i] = ids[j] => i = j
  PROVE  ItemsLeave(items \o [i \in DOMAIN ids |-> CallItem(ids[i])],
                    {ids[i] : i \in DOMAIN ids})
<1>1. PICK n \in Nat : n = Len(ids) /\ DOMAIN ids = 1..n
  BY LenProperties
<1>2. PICK l \in Nat : l = Len(items)
  BY LenProperties
<1>3. PICK calls : calls = [i \in DOMAIN ids |-> CallItem(ids[i])]
  OBVIOUS
<1>4. \A i \in 1..n : ids[i] \in Ids /\ CallItem(ids[i]) \in Item
  BY <1>1, ElementOfSeq, ItemTypes
<1>5. calls \in Seq(Item) /\ Len(calls) = n
  <2>1. calls \in [1..n -> Item]
    BY <1>1, <1>3, <1>4
  <2> QED
    BY <2>1, FunctionIsSeq
<1>6. PICK all : all = items \o calls
  OBVIOUS
<1>7. /\ all \in Seq(Item) /\ Len(all) = l + n
      /\ \A i \in 1..l : all[i] = items[i]
      /\ \A k \in 1..n : all[l + k] = calls[k]
  <2>1. /\ items \o calls \in Seq(Item) /\ Len(items \o calls) = Len(items) + Len(calls)
        /\ \A i \in 1..Len(items) : (items \o calls)[i] = items[i]
        /\ \A k \in 1..Len(calls) : (items \o calls)[Len(items) + k] = calls[k]
    <3>1. items \in Seq(Item) /\ calls \in Seq(Item)
      BY <1>5
    <3> QED
      BY <3>1, ConcatAt
  <2> QED
    BY <1>2, <1>5, <1>6, <2>1, Zenon
<1> DEFINE Some(k) == {ids[i] : i \in 1..k}
           T == {k \in 0..n : ItemsLeave(SubSeq(all, 1, l + k), Some(k))}
<1>8. 0 \in T
  <2>1. SubSeq(all, 1, l) = items
    <3>1. \A i \in 1..l : all[i] \in Item
      BY <1>2, <1>7, ElementOfSeq
    <3>2. PICK s : s = SubSeq(all, 1, l)
      OBVIOUS
    <3>3. /\ s \in Seq(Item) /\ Len(s) = IF 1 <= l THEN l - 1 + 1 ELSE 0
          /\ \A i \in 1..(l - 1 + 1) : s[i] = all[1 + i - 1]
      BY <3>1, <3>2, SubSeqProperties
    <3>4. s \in Seq(Item) /\ Len(s) = l /\ \A i \in 1..l : s[i] = items[i]
      BY <1>7, <3>3
    <3> QED
      BY <1>2, <3>2, <3>4, SeqEqual
  <2>2. Some(0) = {} /\ l + 0 = l /\ 0 \in 0..n
    OBVIOUS
  <2> QED
    BY <2>1, <2>2
<1>9. ASSUME NEW k \in 0..(n - 1), k \in T
      PROVE  k + 1 \in T
  <2>1. /\ l + k \in 0..(Len(all) - 1) /\ l + (k + 1) = (l + k) + 1
        /\ k + 1 \in 1..n /\ k + 1 \in 0..n /\ k \in Nat
    BY <1>7
  <2>2. all[(l + k) + 1] = CallItem(ids[k + 1])
    BY <1>1, <1>3, <1>7, <2>1
  <2>3. /\ SubSeq(all, 1, l + k) \in Seq(Item)
        /\ SubSeq(all, 1, l + (k + 1)) =
             Append(SubSeq(all, 1, l + k), CallItem(ids[k + 1]))
    BY <1>7, <2>1, <2>2, SubSeqGrows
  <2>4. ids[k + 1] \in Ids \ Some(k)
    <3>1. \A i \in 1..k : i \in 1..n /\ i # k + 1
      BY <2>1
    <3> QED
      BY <1>1, <1>4, <2>1, <3>1
  <2>5. Some(k + 1) = Some(k) \cup {ids[k + 1]}
    <3>1. \A i \in 1..(k + 1) : i \in 1..k \/ i = k + 1
      BY <2>1
    <3>2. k + 1 \in 1..(k + 1) /\ \A i \in 1..k : i \in 1..(k + 1)
      BY <2>1
    <3> QED
      BY <3>1, <3>2
  <2>6. ItemsLeave(SubSeq(all, 1, l + k), Some(k))
    BY <1>9
  <2> HIDE DEF Some
  <2>7. ItemsLeave(SubSeq(all, 1, l + (k + 1)), Some(k + 1))
    <3>1. PICK cur : cur = SubSeq(all, 1, l + k)
      OBVIOUS
    <3>2. PICK some : some = Some(k)
      OBVIOUS
    <3>3. PICK new : new = ids[k + 1]
      OBVIOUS
    <3>4. cur \in Seq(Item) /\ ItemsLeave(cur, some) /\ new \in Ids \ some
      BY <2>3, <2>4, <2>6, <3>1, <3>2, <3>3
    <3>5. ItemsLeave(Append(cur, CallItem(new)), some \cup {new})
      BY <3>4, LeaveCall
    <3> QED
      BY <2>3, <2>5, <3>1, <3>2, <3>3, <3>5
  <2> QED
    BY <2>1, <2>7
<1> HIDE DEF T
<1>10. n \in T
  BY <1>8, <1>9, SetInduction
<1>11. ItemsLeave(SubSeq(all, 1, l + n), Some(n))
  BY <1>10 DEF T
<1>12. SubSeq(all, 1, l + n) = all
  BY <1>7, SubSeqFull
<1> QED
  BY <1>1, <1>3, <1>6, <1>11, <1>12

\* The results among more messages.
LEMMA ToolsAppend ==
  ASSUME NEW ms \in Seq(Message), NEW m \in Message
  PROVE  LET more == Append(ms, m)
             n == Len(ms)
         IN  /\ Len(more) = n + 1
             /\ \A p \in 0..n : ToolMessages(more, p) = ToolMessages(ms, p)
             /\ Cardinality(ToolMessages(ms, n)) \in Nat
             /\ m.role = "tool" =>
                  /\ ToolMessages(more, n + 1) = ToolMessages(ms, n) \cup {n + 1}
                  /\ Cardinality(ToolMessages(more, n + 1))
                       = Cardinality(ToolMessages(ms, n)) + 1
             /\ m.role # "tool" => ToolMessages(more, n + 1) = ToolMessages(ms, n)
<1>1. PICK n \in Nat : n = Len(ms)
  BY LenProperties
<1>2. PICK more : more = Append(ms, m)
  OBVIOUS
<1>3. Len(more) = n + 1 /\ more[n + 1] = m /\ \A i \in 1..n : more[i] = ms[i]
  BY <1>1, <1>2, AppendProperties
<1>4. ASSUME NEW p \in 0..n
      PROVE  ToolMessages(more, p) = ToolMessages(ms, p)
  <2>1. \A q \in 1..p : q \in 1..n
    BY <1>1
  <2> QED
    BY <1>3, <2>1 DEF ToolMessages
<1>5. m.role = "tool" => ToolMessages(more, n + 1) = ToolMessages(ms, n) \cup {n + 1}
  <2>1. \A q \in 1..(n + 1) : q \in 1..n \/ q = n + 1
    OBVIOUS
  <2>2. n + 1 \in 1..(n + 1) /\ \A q \in 1..n : q \in 1..(n + 1)
    OBVIOUS
  <2> QED
    BY <1>3, <2>1, <2>2 DEF ToolMessages
<1>6. m.role # "tool" => ToolMessages(more, n + 1) = ToolMessages(ms, n)
  <2>1. \A q \in 1..(n + 1) : q \in 1..n \/ q = n + 1
    OBVIOUS
  <2>2. \A q \in 1..n : q \in 1..(n + 1)
    OBVIOUS
  <2> QED
    BY <1>3, <2>1, <2>2 DEF ToolMessages
<1>7. IsFiniteSet(ToolMessages(ms, n)) /\ n + 1 \notin ToolMessages(ms, n)
  <2>1. IsFiniteSet(1..n)
    BY FS_Interval
  <2> QED
    BY <2>1, FS_Subset DEF ToolMessages
<1>8. /\ Cardinality(ToolMessages(ms, n)) \in Nat
      /\ Cardinality(ToolMessages(ms, n) \cup {n + 1})
           = Cardinality(ToolMessages(ms, n)) + 1
  BY <1>7, FS_CardinalityType, FS_AddElement
<1> QED
  BY <1>1, <1>2, <1>3, <1>4, <1>5, <1>6, <1>8

LEMMA SameResultsWithout ==
  ASSUME NEW ms \in Seq(Message), NEW m \in Message, m.role # "tool",
         NEW done, ResultsAre(ms, done)
  PROVE  ResultsAre(Append(ms, m), done)
<1>1. PICK n \in Nat : n = Len(ms)
  BY LenProperties
<1>2. PICK more : more = Append(ms, m)
  OBVIOUS
<1>3. /\ Len(more) = n + 1 /\ ToolMessages(more, n + 1) = ToolMessages(ms, n)
      /\ \A p \in 0..n : ToolMessages(more, p) = ToolMessages(ms, p)
  BY <1>1, <1>2, ToolsAppend
<1>4. \A i \in 1..n : more[i] = ms[i]
  BY <1>1, <1>2, AppendProperties
<1>5. \A p \in ToolMessages(ms, n) : p \in 1..n /\ p \in 0..n
  BY DEF ToolMessages
<1>6. ASSUME NEW p \in ToolMessages(ms, n)
      PROVE  more[p].id = done[Cardinality(ToolMessages(more, p))]
  BY <1>1, <1>3, <1>4, <1>5 DEF ResultsAre
<1> QED
  BY <1>1, <1>2, <1>3, <1>6 DEF ResultsAre

LEMMA ResultJoins ==
  ASSUME NEW ms \in Seq(Message), NEW id \in Ids, NEW done \in Seq(Ids),
         ResultsAre(ms, done)
  PROVE  ResultsAre(Append(ms, ToolMessage(id)), Append(done, id))
<1>1. PICK n \in Nat : n = Len(ms)
  BY LenProperties
<1>2. PICK more : more = Append(ms, ToolMessage(id))
  OBVIOUS
<1>3. PICK d : d = Append(done, id)
  OBVIOUS
<1>4. ToolMessage(id) \in Message /\ ToolMessage(id).role = "tool"
      /\ ToolMessage(id).id = id
  BY MessageTypes DEF ToolMessage
<1>5. PICK c \in Nat : c = Cardinality(ToolMessages(ms, n))
  <2>1. Cardinality(ToolMessages(ms, n)) \in Nat
    BY <1>1, <1>4, ToolsAppend
  <2> QED
    BY <2>1
<1>6. /\ Len(more) = n + 1 /\ ToolMessages(more, n + 1) = ToolMessages(ms, n) \cup {n + 1}
      /\ Cardinality(ToolMessages(more, n + 1)) = c + 1
      /\ \A p \in 0..n : ToolMessages(more, p) = ToolMessages(ms, p)
  BY <1>1, <1>2, <1>4, <1>5, ToolsAppend
<1>7. more[n + 1] = ToolMessage(id) /\ \A i \in 1..n : more[i] = ms[i]
  BY <1>1, <1>2, <1>4, AppendProperties
<1>8. Len(d) = c + 1 /\ d[c + 1] = id /\ \A i \in 1..c : d[i] = done[i]
  <2>1. Len(done) = c
    BY <1>1, <1>5 DEF ResultsAre
  <2> QED
    BY <1>3, <2>1, AppendProperties
<1>9. ASSUME NEW p \in ToolMessages(ms, n)
      PROVE  more[p].id = d[Cardinality(ToolMessages(more, p))]
  <2>1. p \in 1..n /\ p \in 0..n
    BY DEF ToolMessages
  <2>2. PICK k : k = Cardinality(ToolMessages(ms, p))
    OBVIOUS
  <2>3. ms[p].id = done[k]
    BY <1>1, <2>2 DEF ResultsAre
  <2>4. k \in 1..c
    <3>1. IsFiniteSet(ToolMessages(ms, n))
      <4>1. IsFiniteSet(1..n)
        BY FS_Interval
      <4> QED
        BY <4>1, FS_Subset DEF ToolMessages
    <3>2. ToolMessages(ms, p) \subseteq ToolMessages(ms, n)
      BY <2>1 DEF ToolMessages
    <3>3. IsFiniteSet(ToolMessages(ms, p)) /\ k \in Nat /\ k <= c
      BY <1>5, <2>2, <3>1, <3>2, FS_Subset, FS_CardinalityType
    <3>4. p \in ToolMessages(ms, p)
      BY <2>1 DEF ToolMessages
    <3>5. k # 0
      BY <2>2, <3>3, <3>4, FS_EmptySet
    <3> QED
      BY <3>3, <3>5
  <2>5. Cardinality(ToolMessages(more, p)) = k
    BY <1>6, <2>1, <2>2
  <2> QED
    BY <1>7, <1>8, <2>1, <2>3, <2>4, <2>5
<1>10. more[n + 1].id = d[Cardinality(ToolMessages(more, n + 1))]
  BY <1>4, <1>6, <1>7, <1>8
<1>11. \A p \in ToolMessages(more, n + 1) :
         more[p].id = d[Cardinality(ToolMessages(more, p))]
  BY <1>6, <1>9, <1>10
<1>12. Cardinality(ToolMessages(more, Len(more))) = Len(d)
  BY <1>6, <1>8
<1> QED
  BY <1>2, <1>3, <1>6, <1>11, <1>12 DEF ResultsAre

\* How one more message changes which results have to come.
Moves(m, w, v) ==
  \/ m = UserMessage /\ w = <<>> /\ v = <<>>
  \/ m = AssistantMessage(v) /\ w = <<>>
  \/ /\ w # <<>> /\ m = ToolMessage(w[1])
     /\ Len(v) = Len(w) - 1 /\ \A j \in 1..Len(v) : v[j] = w[j + 1]

LEMMA ChatAppend ==
  ASSUME NEW ms \in Seq(Message), NEW m \in Message,
         NEW w \in Seq(Ids), NEW v \in Seq(Ids), Moves(m, w, v), ChatLeaves(ms, w)
  PROVE  ChatLeaves(Append(ms, m), v)
<1>1. PICK n \in Nat : n = Len(ms) /\ DOMAIN ms = 1..n
  BY LenProperties
<1>2. PICK more : more = Append(ms, m)
  OBVIOUS
<1>3. /\ more \in Seq(Message) /\ Len(more) = n + 1 /\ more[n + 1] = m
      /\ \A i \in 1..n : more[i] = ms[i]
  BY <1>1, <1>2, AppendProperties
<1>4. DOMAIN more = 1..(n + 1)
  BY <1>3, LenProperties
<1>5. PICK x \in Nat : x = Len(w) /\ (w = <<>> <=> x = 0)
  BY EmptySeq, LenProperties
<1>6. PICK y \in Nat : y = Len(v) /\ (v = <<>> <=> y = 0)
  BY EmptySeq, LenProperties
<1>7. /\ m.role = "assistant" => m.calls = v /\ x = 0
      /\ m.role = "tool" => /\ x # 0 /\ y = x - 1 /\ m = ToolMessage(w[1])
                            /\ \A j \in 1..y : v[j] = w[j + 1]
      /\ m.role \notin {"assistant", "tool"} => x = 0 /\ y = 0
  BY <1>5, <1>6 DEF Moves, UserMessage, AssistantMessage, ToolMessage
<1>8. x # 0 => m.role = "tool"
  BY <1>7
<1>9. ASSUME NEW p \in 1..n, ms[p].role = "assistant"
      PROVE  /\ ms[p].calls \in Seq(Ids)
             /\ p + Len(ms[p].calls) <= n + x
             /\ \A k \in 1..Len(ms[p].calls) :
                  IF p + k <= n THEN ms[p + k] = ToolMessage(ms[p].calls[k])
                  ELSE ms[p].calls[k] = w[p + k - n]
  <2>1. PICK ids : ids = ms[p].calls
    OBVIOUS
  <2>2. ids \in Seq(Ids)
    <3>1. ms[p] \in Message
      BY <1>1, ElementOfSeq
    <3> QED
      BY <1>9, <2>1, <3>1 DEF Message, UserMessage
  <2>3. DOMAIN ids = 1..Len(ids)
    BY <2>2, LenProperties
  <2> QED
    BY <1>1, <1>5, <1>9, <2>1, <2>2, <2>3 DEF ChatLeaves
<1>10. ASSUME NEW p \in 1..(n + 1), more[p].role = "assistant"
       PROVE  /\ p + Len(more[p].calls) <= n + 1 + y
              /\ \A k \in DOMAIN more[p].calls :
                   IF p + k <= n + 1 THEN more[p + k] = ToolMessage(more[p].calls[k])
                   ELSE more[p].calls[k] = v[p + k - (n + 1)]
  <2>1. CASE p = n + 1
    <3>1. more[p].calls = v
      BY <1>3, <1>7, <1>10, <2>1
    <3>2. DOMAIN v = 1..y
      BY <1>6, LenProperties
    <3>3. \A k \in 1..y : ~(p + k <= n + 1) /\ p + k - (n + 1) = k
      BY <2>1
    <3> QED
      BY <1>6, <2>1, <3>1, <3>2, <3>3
  <2>2. CASE p # n + 1
    <3>1. p \in 1..n /\ more[p] = ms[p] /\ ms[p].role = "assistant"
      BY <1>3, <1>10, <2>2
    <3>2. PICK ids : ids = ms[p].calls
      OBVIOUS
    <3>3. ids \in Seq(Ids)
      BY <1>9, <3>1, <3>2
    <3>4. Len(ids) \in Nat /\ DOMAIN ids = 1..Len(ids)
      BY <3>3, LenProperties
    <3>5. /\ p + Len(ids) <= n + x
          /\ \A k \in 1..Len(ids) :
               IF p + k <= n THEN ms[p + k] = ToolMessage(ids[k])
               ELSE ids[k] = w[p + k - n]
      BY <1>9, <3>1, <3>2
    <3>6. x <= y + 1
      BY <1>7, <1>8
    <3>7. ASSUME NEW k \in 1..Len(ids)
          PROVE  IF p + k <= n + 1 THEN more[p + k] = ToolMessage(ids[k])
                 ELSE ids[k] = v[p + k - (n + 1)]
      <4>1. CASE p + k <= n
        <5>1. p + k \in 1..n /\ p + k <= n + 1
          BY <3>1, <4>1
        <5>2. ms[p + k] = ToolMessage(ids[k])
          BY <3>5, <4>1
        <5>3. more[p + k] = ms[p + k]
          BY <1>3, <5>1
        <5> QED
          BY <5>1, <5>2, <5>3
      <4>2. CASE p + k = n + 1
        <5>1. ~(p + k <= n) /\ p + k - n = 1 /\ x # 0
          BY <3>1, <3>4, <3>5, <4>2
        <5>2. ids[k] = w[1] /\ m = ToolMessage(w[1])
          BY <1>7, <1>8, <3>5, <5>1
        <5> QED
          BY <1>3, <4>2, <5>2
      <4>3. CASE ~(p + k <= n + 1)
        <5>1. /\ ~(p + k <= n) /\ x # 0 /\ p + k - (n + 1) \in 1..(x - 1)
              /\ (p + k - (n + 1)) + 1 = p + k - n
          BY <3>1, <3>4, <3>5, <4>3
        <5>2. ids[k] = w[p + k - n]
          BY <3>5, <5>1
        <5>3. y = x - 1 /\ \A j \in 1..y : v[j] = w[j + 1]
          BY <1>7, <1>8, <5>1
        <5> QED
          BY <4>3, <5>1, <5>2, <5>3
      <4> QED
        BY <4>1, <4>2, <4>3
    <3>8. p + Len(ids) <= n + 1 + y
      BY <3>4, <3>5, <3>6
    <3> QED
      BY <3>1, <3>2, <3>4, <3>7, <3>8
  <2> QED
    BY <2>1, <2>2
<1>11. x # 0 => \E q \in 1..n : /\ ms[q].role = "assistant"
                                /\ q + Len(ms[q].calls) = n + x
  BY <1>1, <1>5 DEF ChatLeaves
<1>12. ASSUME NEW p \in 1..(n + 1), more[p].role = "tool"
       PROVE  \E q \in 1..(p - 1) :
                more[q].role = "assistant" /\ p - q <= Len(more[q].calls)
  <2>1. CASE p = n + 1
    <3>1. x # 0
      BY <1>3, <1>7, <1>12, <2>1
    <3>2. PICK q \in 1..n : ms[q].role = "assistant" /\ q + Len(ms[q].calls) = n + x
      BY <1>11, <3>1
    <3>3. Len(ms[q].calls) \in Nat
      BY <1>9, <3>2, LenProperties
    <3>4. q \in 1..(p - 1) /\ p - q <= Len(ms[q].calls)
      BY <2>1, <3>1, <3>2, <3>3
    <3> QED
      BY <1>3, <3>2, <3>4
  <2>2. CASE p # n + 1
    <3>1. p \in 1..n /\ ms[p].role = "tool"
      BY <1>3, <1>12, <2>2
    <3>2. PICK q \in 1..(p - 1) :
            ms[q].role = "assistant" /\ p - q <= Len(ms[q].calls)
      BY <1>1, <3>1 DEF ChatLeaves
    <3>3. q \in 1..n
      BY <3>1
    <3> QED
      BY <1>3, <3>2, <3>3
  <2> QED
    BY <2>1, <2>2
<1>13. ASSUME v # <<>>
       PROVE  \E q \in 1..(n + 1) : /\ more[q].role = "assistant"
                                    /\ q + Len(more[q].calls) = n + 1 + y
  <2>1. CASE m.role = "assistant"
    <3>1. n + 1 \in 1..(n + 1) /\ more[n + 1].calls = v
      BY <1>3, <1>7, <2>1
    <3> QED
      BY <1>3, <1>6, <2>1, <3>1
  <2>2. CASE m.role # "assistant"
    <3>1. m.role = "tool" /\ x # 0 /\ y = x - 1
      BY <1>6, <1>7, <1>13, <2>2
    <3>2. PICK q \in 1..n : ms[q].role = "assistant" /\ q + Len(ms[q].calls) = n + x
      BY <1>11, <3>1
    <3>3. q \in 1..(n + 1) /\ more[q] = ms[q] /\ n + x = n + 1 + y
      BY <1>3, <3>1
    <3> QED
      BY <3>2, <3>3
  <2> QED
    BY <2>1, <2>2
<1>14. \A p \in DOMAIN more : more[p].role = "assistant" =>
         /\ p + Len(more[p].calls) <= Len(more) + Len(v)
         /\ \A k \in DOMAIN more[p].calls :
              IF p + k <= Len(more) THEN more[p + k] = ToolMessage(more[p].calls[k])
              ELSE more[p].calls[k] = v[p + k - Len(more)]
  BY <1>3, <1>4, <1>6, <1>10
<1>15. \A p \in DOMAIN more : more[p].role = "tool" =>
         \E q \in 1..(p - 1) :
           more[q].role = "assistant" /\ p - q <= Len(more[q].calls)
  BY <1>4, <1>12
<1>16. v # <<>> =>
         \E q \in DOMAIN more :
           /\ more[q].role = "assistant"
           /\ q + Len(more[q].calls) = Len(more) + Len(v)
  BY <1>3, <1>4, <1>6, <1>13
<1> QED
  BY <1>2, <1>14, <1>15, <1>16, Zenon DEF ChatLeaves

LEMMA InputType ==
  ASSUME NEW ms \in Seq(Message), NEW silent \in BOOLEAN
  PROVE  ResponsesInput(ms, silent) \in Seq(Item)
<1>1. PICK n \in Nat : n = Len(ms)
  BY LenProperties
<1> DEFINE T == {k \in 0..n : ResponsesInput(SubSeq(ms, 1, k), silent) \in Seq(Item)}
<1>2. 0 \in T
  <2>1. SubSeq(ms, 1, 0) = <<>>
    BY SubSeqEmpty
  <2>2. ResponsesInput(<<>>, silent) = <<>>
    <3>1. [i \in DOMAIN <<>> |-> Items(<<>>[i], silent)] = <<>>
      OBVIOUS
    <3>2. Seqs!FlattenSeq(<<>>) = <<>>
      BY DEF Seqs!FlattenSeq
    <3> QED
      BY <3>1, <3>2 DEF ResponsesInput
  <2>3. <<>> \in Seq(Item)
    BY EmptySeq
  <2>4. ResponsesInput(SubSeq(ms, 1, 0), silent) \in Seq(Item)
    BY <2>1, <2>2, <2>3, Zenon
  <2> QED
    BY <2>4
<1>3. ASSUME NEW k \in 0..(n - 1), k \in T
      PROVE  k + 1 \in T
  <2>1. k \in 0..(Len(ms) - 1) /\ k + 1 \in 1..Len(ms) /\ k + 1 \in 0..n
    BY <1>1
  <2>2. /\ SubSeq(ms, 1, k) \in Seq(Message)
        /\ SubSeq(ms, 1, k + 1) = Append(SubSeq(ms, 1, k), ms[k + 1])
    BY <2>1, SubSeqGrows
  <2>3. ms[k + 1] \in Message
    BY <2>1, ElementOfSeq
  <2>4. ResponsesInput(SubSeq(ms, 1, k), silent) \in Seq(Item)
    BY <1>3
  <2>5. ResponsesInput(Append(SubSeq(ms, 1, k), ms[k + 1]), silent) \in Seq(Item)
    BY <2>2, <2>3, <2>4, InputAppend
  <2> QED
    BY <2>1, <2>2, <2>5
<1> HIDE DEF T
<1>4. n \in T
  BY <1>2, <1>3, SetInduction
<1>5. SubSeq(ms, 1, n) = ms
  BY <1>1, SubSeqFull
<1> QED
  BY <1>4, <1>5 DEF T

\* An answer in words, or a message of the client.
LEMMA StoryText ==
  ASSUME NEW ms, NEW done, Story(ms, done, <<>>),
         NEW m \in {UserMessage, AssistantMessage(<<>>)}
  PROVE  Story(Append(ms, m), done, <<>>)
<1>1. /\ ms \in Seq(Message) /\ ResultsAre(ms, done) /\ ChatLeaves(ms, <<>>)
      /\ \A silent \in BOOLEAN : ItemsLeave(ResponsesInput(ms, silent), {})
  BY DEF Story
<1>2. m \in Message /\ m.role # "tool"
  BY MessageTypes DEF UserMessage, AssistantMessage
<1>3. Append(ms, m) \in Seq(Message)
  BY <1>1, <1>2, AppendProperties
<1>4. ResultsAre(Append(ms, m), done)
  BY <1>1, <1>2, SameResultsWithout
<1>5. ChatLeaves(Append(ms, m), <<>>)
  <2>1. PICK none : none = <<>>
    OBVIOUS
  <2>2. none \in Seq(Ids) /\ Moves(m, none, none)
    BY <2>1, EmptySeq DEF Moves
  <2>3. ChatLeaves(Append(ms, m), none)
    BY <1>1, <1>2, <2>1, <2>2, ChatAppend
  <2> QED
    BY <2>1, <2>3
<1>6. ASSUME NEW silent \in BOOLEAN
      PROVE  ItemsLeave(ResponsesInput(Append(ms, m), silent), {})
  <2>1. PICK items : items = ResponsesInput(ms, silent)
    OBVIOUS
  <2>2. items \in Seq(Item) /\ ItemsLeave(items, {})
    BY <1>1, <2>1, InputType
  <2>3. ResponsesInput(Append(ms, m), silent) = items \o Items(m, silent)
    BY <1>1, <1>2, <2>1, <2>2, InputAppend
  <2>4. Items(m, silent) = <<Text>>
    BY DEF Items, UserMessage, AssistantMessage
  <2>5. items \o <<Text>> = Append(items, Text)
    BY <2>2, ItemTypes, AppendIsConcat
  <2>6. ItemsLeave(Append(items, Text), {})
    BY <2>2, LeaveText
  <2> QED
    BY <2>3, <2>4, <2>5, <2>6, Zenon
<1>7. {<<>>[k] : k \in DOMAIN <<>>} = {}
  OBVIOUS
<1> QED
  BY <1>3, <1>4, <1>5, <1>6, <1>7, Zenon DEF Story

\* An answer with calls.
LEMMA StoryCalls ==
  ASSUME NEW ms, NEW done, Story(ms, done, <<>>),
         NEW ids \in Seq(Ids), ids # <<>>,
         \A i, j \in DOMAIN ids : ids[i] = ids[j] => i = j
  PROVE  Story(Append(ms, AssistantMessage(ids)), done, ids)
<1>1. /\ ms \in Seq(Message) /\ ResultsAre(ms, done) /\ ChatLeaves(ms, <<>>)
      /\ \A silent \in BOOLEAN : ItemsLeave(ResponsesInput(ms, silent), {})
  BY DEF Story
<1>2. PICK m : m = AssistantMessage(ids)
  OBVIOUS
<1>3. m \in Message /\ m.role = "assistant" /\ m.role # "tool" /\ m.calls = ids
  BY <1>2, MessageTypes DEF AssistantMessage
<1>4. Append(ms, m) \in Seq(Message)
  BY <1>1, <1>3, AppendProperties
<1>5. ResultsAre(Append(ms, m), done)
  BY <1>1, <1>3, SameResultsWithout
<1>6. ChatLeaves(Append(ms, m), ids)
  <2>1. PICK none : none = <<>>
    OBVIOUS
  <2>2. none \in Seq(Ids) /\ Moves(m, none, ids)
    BY <1>2, <2>1, EmptySeq DEF Moves
  <2> QED
    BY <1>1, <1>3, <2>1, <2>2, ChatAppend
<1>7. ASSUME NEW silent \in BOOLEAN
      PROVE  ItemsLeave(ResponsesInput(Append(ms, m), silent),
                        {ids[k] : k \in DOMAIN ids})
  <2>1. PICK items : items = ResponsesInput(ms, silent)
    OBVIOUS
  <2>2. items \in Seq(Item) /\ ItemsLeave(items, {})
    BY <1>1, <2>1, InputType
  <2>3. ResponsesInput(Append(ms, m), silent) = items \o Items(m, silent)
    BY <1>1, <1>3, <2>1, <2>2, InputAppend
  <2>4. PICK text : text = IF silent THEN <<>> ELSE <<Text>>
    OBVIOUS
  <2>5. PICK calls : calls = [k \in DOMAIN ids |-> CallItem(ids[k])]
    OBVIOUS
  <2>6. Items(m, silent) = text \o calls
    BY <1>3, <2>4, <2>5 DEF Items
  <2>7. text \in Seq(Item)
    BY <2>4, ItemTypes, EmptySeq
  <2>8. calls \in Seq(Item)
    <3>1. Len(ids) \in Nat /\ DOMAIN ids = 1..Len(ids)
      BY LenProperties
    <3>2. \A i \in 1..Len(ids) : CallItem(ids[i]) \in Item
      BY ElementOfSeq, ItemTypes
    <3>3. calls \in [1..Len(ids) -> Item]
      BY <2>5, <3>1, <3>2
    <3> QED
      BY <3>1, <3>3, FunctionIsSeq
  <2>9. PICK start : start = items \o text
    OBVIOUS
  <2>10. items \o (text \o calls) = start \o calls
    <3>1. items \in Seq(Item) /\ text \in Seq(Item) /\ calls \in Seq(Item)
      BY <2>2, <2>7, <2>8, Zenon
    <3>2. items \o (text \o calls) = (items \o text) \o calls
      BY <3>1, ConcatAssociative
    <3> QED
      BY <2>9, <3>2, Zenon
  <2>11. start \in Seq(Item) /\ ItemsLeave(start, {})
    <3>1. CASE silent
      <4>1. start = items
        BY <2>2, <2>4, <2>9, <3>1, ConcatEmptySeq
      <4> QED
        BY <2>2, <4>1
    <3>2. CASE ~silent
      <4>1. start = Append(items, Text)
        BY <2>2, <2>4, <2>9, <3>2, ItemTypes, AppendIsConcat
      <4>2. Append(items, Text) \in Seq(Item)
        BY <2>2, ItemTypes, AppendProperties
      <4> QED
        BY <2>2, <4>1, <4>2, LeaveText
    <3> QED
      BY <3>1, <3>2
  <2>12. ItemsLeave(start \o calls, {ids[k] : k \in DOMAIN ids})
    BY <2>5, <2>11, LeaveCalls, Zenon
  <2> QED
    BY <2>3, <2>6, <2>10, <2>12, Zenon
<1> QED
  BY <1>2, <1>4, <1>5, <1>6, <1>7, Zenon DEF Story

\* The result of the first call that waits.
LEMMA StoryResult ==
  ASSUME NEW ms, NEW done \in Seq(Ids), NEW w \in Seq(Ids), w # <<>>,
         \A i, j \in DOMAIN w : w[i] = w[j] => i = j,
         NEW v \in Seq(Ids), Len(v) = Len(w) - 1,
         \A j \in 1..Len(v) : v[j] = w[j + 1],
         Story(ms, done, w)
  PROVE  Story(Append(ms, ToolMessage(w[1])), Append(done, w[1]), v)
<1> DEFINE IdsOf(s) == {s[k] : k \in DOMAIN s}
<1>1. /\ ms \in Seq(Message) /\ ResultsAre(ms, done) /\ ChatLeaves(ms, w)
      /\ \A silent \in BOOLEAN : ItemsLeave(ResponsesInput(ms, silent), IdsOf(w))
  BY Zenon DEF Story
<1>2. PICK n \in Nat : n = Len(w) /\ DOMAIN w = 1..n /\ n # 0
  BY EmptySeq, LenProperties
<1>3. PICK id : id = w[1]
  OBVIOUS
<1>4. id \in Ids
  <2>1. 1 \in 1..Len(w)
    BY <1>2
  <2> QED
    BY <1>3, <2>1, ElementOfSeq
<1>5. PICK m : m = ToolMessage(id)
  OBVIOUS
<1>6. m \in Message /\ m.role = "tool" /\ m.id = id
  BY <1>4, <1>5, MessageTypes DEF ToolMessage
<1>7. Append(ms, m) \in Seq(Message)
  BY <1>1, <1>6, AppendProperties
<1>8. ResultsAre(Append(ms, m), Append(done, id))
  BY <1>1, <1>4, <1>5, ResultJoins
<1>9. ChatLeaves(Append(ms, m), v)
  <2>1. Moves(m, w, v)
    BY <1>3, <1>5 DEF Moves
  <2> QED
    BY <1>1, <1>6, <2>1, ChatAppend
<1>10. IdsOf(v) = IdsOf(w) \ {id}
  <2>1. Len(v) = n - 1 /\ DOMAIN v = 1..(n - 1) /\ \A j \in 1..(n - 1) : v[j] = w[j + 1]
    BY <1>2, LenProperties
  <2>2. ASSUME NEW k \in 1..(n - 1)
        PROVE  v[k] \in IdsOf(w) \ {id}
    <3>1. k + 1 \in 1..n /\ 1 \in 1..n /\ k + 1 # 1
      BY <1>2
    <3> QED
      BY <1>2, <1>3, <2>1, <3>1
  <2>3. ASSUME NEW k \in 1..n, w[k] # id
        PROVE  w[k] \in IdsOf(v)
    <3>1. k # 1
      BY <1>3, <2>3
    <3>2. k - 1 \in 1..(n - 1) /\ (k - 1) + 1 = k
      BY <1>2, <3>1
    <3> QED
      BY <2>1, <3>2
  <2>4. /\ IdsOf(v) = {v[k] : k \in 1..(n - 1)}
        /\ IdsOf(w) = {w[k] : k \in 1..n}
    BY <1>2, <2>1
  <2> HIDE DEF IdsOf
  <2>5. ASSUME NEW x \in IdsOf(v)
        PROVE  x \in IdsOf(w) \ {id}
    <3>1. PICK k \in 1..(n - 1) : x = v[k]
      BY <2>4
    <3> QED
      BY <2>2, <3>1
  <2>6. ASSUME NEW x \in IdsOf(w) \ {id}
        PROVE  x \in IdsOf(v)
    <3>1. PICK k \in 1..n : x = w[k]
      BY <2>4
    <3> QED
      BY <2>3, <3>1
  <2> QED
    BY <2>5, <2>6
<1>11. id \in IdsOf(w)
  <2>1. 1 \in DOMAIN w
    BY <1>2
  <2> QED
    BY <1>3, <2>1
<1> HIDE DEF IdsOf
<1>12. ASSUME NEW silent \in BOOLEAN
       PROVE  ItemsLeave(ResponsesInput(Append(ms, m), silent), IdsOf(v))
  <2>1. PICK items : items = ResponsesInput(ms, silent)
    OBVIOUS
  <2>2. items \in Seq(Item) /\ ItemsLeave(items, IdsOf(w))
    BY <1>1, <2>1, InputType
  <2>3. ResponsesInput(Append(ms, m), silent) = items \o Items(m, silent)
    BY <1>1, <1>6, <2>1, <2>2, InputAppend
  <2>4. Items(m, silent) = <<OutputItem(id)>>
    BY <1>6 DEF Items
  <2>5. items \o <<OutputItem(id)>> = Append(items, OutputItem(id))
    BY <1>4, <2>2, ItemTypes, AppendIsConcat
  <2>6. ItemsLeave(Append(items, OutputItem(id)), IdsOf(w) \ {id})
    BY <1>4, <1>11, <2>2, LeaveOutput
  <2> QED
    BY <1>10, <2>3, <2>4, <2>5, <2>6, Zenon
<1> QED
  BY <1>3, <1>5, <1>7, <1>8, <1>9, <1>12, Zenon DEF Story, IdsOf

(***************************************************************************)
(* The story of a request.                                                 *)
(***************************************************************************)

LEMMA StoryStart == Story(<<>>, <<>>, <<>>)
<1>1. <<>> \in Seq(Message) /\ Len(<<>>) = 0 /\ DOMAIN <<>> = {}
  BY EmptySeq
<1>2. ResultsAre(<<>>, <<>>)
  <2>1. ToolMessages(<<>>, 0) = {}
    BY DEF ToolMessages
  <2>2. Cardinality({}) = 0
    BY FS_EmptySet
  <2> QED
    BY <1>1, <2>1, <2>2 DEF ResultsAre
<1>3. ChatLeaves(<<>>, <<>>)
  BY <1>1 DEF ChatLeaves
<1>4. ASSUME NEW silent \in BOOLEAN
      PROVE  ItemsLeave(ResponsesInput(<<>>, silent), {})
  <2>1. [i \in DOMAIN <<>> |-> Items(<<>>[i], silent)] = <<>>
    OBVIOUS
  <2>2. Seqs!FlattenSeq(<<>>) = <<>>
    BY DEF Seqs!FlattenSeq
  <2>3. ResponsesInput(<<>>, silent) = <<>>
    BY <2>1, <2>2 DEF ResponsesInput
  <2>4. ASSUME NEW id \in Ids
        PROVE  Open(<<>>, id, 0) = 0
    <3>1. /\ {p \in 1..0 : <<>>[p] = CallItem(id)} = {}
          /\ {p \in 1..0 : <<>>[p] = OutputItem(id)} = {}
      OBVIOUS
    <3>2. Cardinality({}) = 0
      BY FS_EmptySet
    <3> QED
      BY <3>1, <3>2 DEF Open
  <2>5. ItemsLeave(<<>>, {})
    BY <1>1, <2>4 DEF ItemsLeave
  <2> QED
    BY <2>3, <2>5
<1>5. {<<>>[k] : k \in DOMAIN <<>>} = {}
  OBVIOUS
<1> QED
  BY <1>1, <1>2, <1>3, <1>4, <1>5, Zenon DEF Story

\* The messages of a client become turns and the same messages again.
LEMMA RequestStory ==
  ASSUME NEW ms \in RequestMessages
  PROVE  Messages(TurnsOf(ms)) = ms /\ Story(ms, <<>>, <<>>)
<1>1. PICK C : C = {UserMessage, AssistantMessage(<<>>)}
  OBVIOUS
<1>2. ms \in Seq(C) /\ TurnsOf(ms) \in RequestTurns
  BY <1>1, RequestMessagesOK
<1>3. PICK n \in Nat : n = Len(ms) /\ DOMAIN ms = 1..n
  BY <1>2, LenProperties
<1>4. PICK ts : ts = TurnsOf(ms)
  OBVIOUS
<1>5. ts \in Seq(Turn) /\ Len(ts) = n /\ \A i \in 1..n : ts[i] = MessageTurn(ms[i])
  <2>1. ts \in Seq(Turn)
    BY <1>2, <1>4, LoopConstantsOK
  <2>2. DOMAIN ts = 1..n
    BY <1>3, <1>4 DEF TurnsOf
  <2>3. Len(ts) = n
    BY <2>1, <2>2, LenProperties
  <2> QED
    BY <1>3, <1>4, <2>1, <2>3 DEF TurnsOf
<1>6. PICK f : IsKept(f, ts) /\ Kept(ts) = f[n]
  BY <1>5, KeptBy
<1>7. \A k \in 0..n : f[k] = IF k = 0 THEN Start ELSE KeepTurn(f[k - 1], ts[k])
  BY <1>5, <1>6 DEF IsKept
<1> DEFINE P(s, k) == /\ s \in KeptType /\ Flush(s).sent = SubSeq(ms, 1, k)
                      /\ Story(SubSeq(ms, 1, k), <<>>, <<>>)
           T == {k \in 0..n : P(f[k], k)}
<1>8. 0 \in T
  <2>1. SubSeq(ms, 1, 0) = <<>>
    BY SubSeqEmpty
  <2>2. Start \in KeptType /\ Flush(Start).sent = <<>>
    <3>1. <<>> \in Seq(Message) /\ <<>> \o <<>> = <<>>
      BY EmptySeq, ConcatEmptySeq
    <3>2. Start \in KeptType
      BY <3>1 DEF Start, KeptType, Pending
    <3> QED
      BY <3>1, <3>2 DEF Start, Flush
  <2>3. f[0] = Start
    BY <1>7
  <2>4. P(f[0], 0)
    BY <2>1, <2>2, <2>3, StoryStart, Zenon
  <2> QED
    BY <2>4
<1>9. ASSUME NEW k \in 0..(n - 1), k \in T
      PROVE  k + 1 \in T
  <2>1. /\ k + 1 \in 0..n /\ k + 1 \in 1..n /\ k + 1 # 0 /\ (k + 1) - 1 = k
        /\ k \in 0..(Len(ms) - 1)
    BY <1>3
  <2>2. PICK m : m = ms[k + 1]
    OBVIOUS
  <2>3. m \in {UserMessage, AssistantMessage(<<>>)}
    BY <1>1, <1>2, <1>3, <2>1, <2>2, ElementOfSeq
  <2>4. SubSeq(ms, 1, k + 1) = Append(SubSeq(ms, 1, k), m)
    BY <1>2, <2>1, <2>2, SubSeqGrows
  <2>5. P(f[k], k)
    BY <1>9
  <2>6. Story(Append(SubSeq(ms, 1, k), m), <<>>, <<>>)
    BY <2>3, <2>5, StoryText
  <2>7. f[k + 1] = KeepTurn(f[k], MessageTurn(m))
    BY <1>5, <1>7, <2>1, <2>2
  <2>8. /\ MessageTurn(m) \in Turn /\ TurnMessage(MessageTurn(m)) = m
        /\ MessageTurn(m).type \in {"user", "result", "assistant"}
    BY <2>3 DEF MessageTurn, Turn, UserTurn, AssistantTurn, Phases, TurnMessage,
                UserMessage, AssistantMessage
  <2>9. /\ f[k + 1] \in KeptType
        /\ Flush(f[k + 1]).sent = Append(SubSeq(ms, 1, k), m)
    BY <2>5, <2>7, <2>8, KeepText
  <2>10. P(f[k + 1], k + 1)
    BY <2>4, <2>6, <2>9, Zenon
  <2> QED
    BY <2>1, <2>10
<1> HIDE DEF T
<1>10. n \in T
  BY <1>8, <1>9, SetInduction
<1>11. P(f[n], n)
  BY <1>10 DEF T
<1>12. SubSeq(ms, 1, n) = ms
  BY <1>2, <1>3, SubSeqFull
<1> QED
  BY <1>4, <1>6, <1>11, <1>12, Zenon DEF Messages

LEMMA PrefixAppend ==
  ASSUME NEW S, NEW t \in Seq(S)
  PROVE  /\ Seqs!IsPrefix(t, t)
         /\ \A s \in Seq(S), x \in S :
              Seqs!IsPrefix(s, t) => Seqs!IsPrefix(s, Append(t, x))
<1>1. Seqs!IsPrefix(t, t)
  <2>1. Len(t) \in Nat
    BY LenProperties
  <2> QED
    BY <2>1 DEF Seqs!IsPrefix
<1>2. ASSUME NEW s \in Seq(S), NEW x \in S, Seqs!IsPrefix(s, t)
      PROVE  Seqs!IsPrefix(s, Append(t, x))
  <2>1. PICK n \in Nat : n = Len(s)
    BY LenProperties
  <2>2. PICK l \in Nat : l = Len(t)
    BY LenProperties
  <2>3. n <= l /\ SubSeq(s, 1, n) = SubSeq(t, 1, n)
    BY <1>2, <2>1, <2>2 DEF Seqs!IsPrefix
  <2>4. PICK u : u = Append(t, x)
    OBVIOUS
  <2>5. u \in Seq(S) /\ Len(u) = l + 1 /\ \A i \in 1..l : u[i] = t[i]
    BY <2>2, <2>4, AppendProperties
  <2>6. \A i \in 1..n : i \in 1..l
    BY <2>3
  <2>7. \A i \in 1..n : t[i] \in S /\ u[i] = t[i]
    BY <2>2, <2>5, <2>6, ElementOfSeq
  <2>8. PICK a : a = SubSeq(t, 1, n)
    OBVIOUS
  <2>9. PICK b : b = SubSeq(u, 1, n)
    OBVIOUS
  <2>10. /\ a \in Seq(S) /\ Len(a) = (IF 1 <= n THEN n - 1 + 1 ELSE 0)
         /\ \A i \in 1..(n - 1 + 1) : a[i] = t[1 + i - 1]
    BY <2>7, <2>8, SubSeqProperties
  <2>11. /\ b \in Seq(S) /\ Len(b) = (IF 1 <= n THEN n - 1 + 1 ELSE 0)
         /\ \A i \in 1..(n - 1 + 1) : b[i] = u[1 + i - 1]
    BY <2>7, <2>9, SubSeqProperties
  <2>12. Len(a) = n /\ Len(b) = n /\ \A i \in 1..n : a[i] = b[i]
    BY <2>7, <2>10, <2>11
  <2>13. a = b
    BY <2>10, <2>11, <2>12, SeqEqual
  <2>14. n <= l + 1
    BY <2>3
  <2> QED
    BY <2>1, <2>3, <2>4, <2>5, <2>8, <2>9, <2>13, <2>14 DEF Seqs!IsPrefix
<1> QED
  BY <1>1, <1>2

(***************************************************************************)
(* What one step of the loop tells.                                        *)
(***************************************************************************)

\* The waiting ids of a plan: those of the calls without a result.
WaitingOf(p) == [i \in 1..Cardinality(Planned(p)) |->
                   p[Cardinality(Completed(p)) + i].call]

IdsOf(calls) == [k \in DOMAIN calls |-> calls[k].id]

LEMMA WaitingIdFacts ==
  ASSUME NEW p \in Seq(Node), SequentialPlan(p), NEW w, w = IdsOf(WaitingOf(p))
  PROVE  /\ w \in Seq(Ids) /\ Len(w) = Len(p) - Progress(p)
         /\ DOMAIN w = 1..(Len(p) - Progress(p))
         /\ \A i \in 1..(Len(p) - Progress(p)) : w[i] = p[Progress(p) + i].call.id
         /\ \A i, j \in DOMAIN w : w[i] = w[j] => i = j
<1>1. PICK c : c = WaitingOf(p)
  OBVIOUS
<1>2. /\ c \in Seq(Call) /\ Len(c) = Len(p) - Progress(p)
      /\ \A i \in 1..(Len(p) - Progress(p)) : c[i] = p[Progress(p) + i].call
  BY <1>1, WaitingCalls DEF WaitingOf
<1>3. PICK n \in Nat : n = Len(p) - Progress(p) /\ DOMAIN c = 1..n
  BY <1>2, LenProperties
<1>4. w = [k \in 1..n |-> c[k].id]
  BY <1>1, <1>3 DEF IdsOf
<1>5. \A k \in 1..n : c[k].id \in Ids
  <2>1. \A k \in 1..n : c[k] \in Call
    BY <1>2, <1>3, ElementOfSeq
  <2> QED
    BY <2>1 DEF Call
<1>6. w \in [1..n -> Ids]
  BY <1>4, <1>5
<1>7. w \in Seq(Ids) /\ Len(w) = n /\ DOMAIN w = 1..n
  BY <1>6, FunctionIsSeq
<1>8. \A i \in 1..n : w[i] = p[Progress(p) + i].call.id
  BY <1>2, <1>3, <1>4
<1>9. PICK k \in Nat : k = Progress(p) /\ DOMAIN p = 1..(k + n)
  BY <1>3, ProgressSplits, LenProperties
<1>10. \A i, j \in DOMAIN p : p[i].call.id = p[j].call.id => i = j
  BY DEF SequentialPlan
<1>11. ASSUME NEW i \in 1..n, NEW j \in 1..n, w[i] = w[j]
       PROVE  i = j
  <2>1. k + i \in DOMAIN p /\ k + j \in DOMAIN p
    BY <1>9
  <2>2. p[k + i].call.id = p[k + j].call.id
    BY <1>8, <1>9, <1>11
  <2>3. k + i = k + j
    BY <1>10, <2>1, <2>2
  <2> QED
    BY <2>3
<1> QED
  BY <1>3, <1>7, <1>8, <1>11

LEMMA WaitingIdsNow ==
  ASSUME TypeOK, SequentialPlan(plan)
  PROVE  /\ WaitingIds \in Seq(Ids) /\ Len(WaitingIds) = Len(plan) - Progress(plan)
         /\ DOMAIN WaitingIds = 1..(Len(plan) - Progress(plan))
         /\ \A i \in 1..(Len(plan) - Progress(plan)) :
              WaitingIds[i] = plan[Progress(plan) + i].call.id
         /\ \A i, j \in DOMAIN WaitingIds : WaitingIds[i] = WaitingIds[j] => i = j
<1>1. WaitingIds = IdsOf(WaitingOf(plan))
  BY DEF WaitingIds, Waiting, IdsOf, WaitingOf
<1>2. plan \in Seq(Node)
  BY DEF TypeOK
<1>3. PICK w : w = WaitingIds
  OBVIOUS
<1>4. w = IdsOf(WaitingOf(plan))
  BY <1>1, <1>3
<1> QED
  BY <1>2, <1>3, <1>4, WaitingIdFacts

LEMMA WaitingIdsNext ==
  ASSUME TypeOK', SequentialPlan(plan')
  PROVE  /\ WaitingIds' \in Seq(Ids) /\ Len(WaitingIds') = Len(plan') - Progress(plan')
         /\ DOMAIN WaitingIds' = 1..(Len(plan') - Progress(plan'))
         /\ \A i \in 1..(Len(plan') - Progress(plan')) :
              WaitingIds'[i] = plan'[Progress(plan') + i].call.id
         /\ \A i, j \in DOMAIN WaitingIds' : WaitingIds'[i] = WaitingIds'[j] => i = j
<1>1. WaitingIds' = IdsOf(WaitingOf(plan'))
  BY DEF WaitingIds, Waiting, IdsOf, WaitingOf
<1>2. plan' \in Seq(Node)
  BY DEF TypeOK
<1>3. PICK w : w = WaitingIds'
  OBVIOUS
<1>4. w = IdsOf(WaitingOf(plan'))
  BY <1>1, <1>3
<1> QED
  BY <1>2, <1>3, <1>4, WaitingIdFacts

\* The request of a later round holds no messages of its own.
LEMMA SentMessages ==
  ASSUME request \in {FromMessages(ms) : ms \in RequestMessages}
  PROVE  \A ts : Sent(ts) = Messages(ts)
<1>1. PICK ms \in RequestMessages : request = FromMessages(ms)
  OBVIOUS
<1>2. ASSUME NEW ts
      PROVE  Sent(ts) = Messages(ts)
  <2>1. PICK r : r = CurrentRequest(ts)
    OBVIOUS
  <2>2. request = [turns |-> TurnsOf(ms), kept |-> ms]
    BY <1>1 DEF FromMessages
  <2>3. r = [request EXCEPT !.turns = ts, !.kept = NotKept]
    BY <2>1 DEF CurrentRequest
  <2>4. r.turns = ts /\ r.kept = NotKept
    BY <2>2, <2>3
  <2> QED
    BY <2>1, <2>4 DEF Sent, ToProviderMessages
<1> QED
  BY <1>2

LEMMA TranscriptStarts == TranscriptInit => TranscriptInv
<1> SUFFICES ASSUME TranscriptInit PROVE TranscriptInv
  OBVIOUS
<1>1. /\ Init /\ turns = request.turns
      /\ request \in {FromMessages(ms) : ms \in RequestMessages}
  BY DEF TranscriptInit
<1>2. PICK ms \in RequestMessages : request = FromMessages(ms)
  BY <1>1
<1>3. turns = TurnsOf(ms) /\ request.kept = ms
  BY <1>1, <1>2 DEF FromMessages
<1>4. Messages(turns) = ms /\ Story(ms, <<>>, <<>>)
  BY <1>3, RequestStory
<1>5. ServedIds = <<>>
  BY <1>1 DEF ServedIds, Init
<1>6. WaitingIds = <<>>
  <2>1. IInv /\ plan = <<>>
    BY <1>1, InitIInv DEF Init
  <2>2. WaitingIds \in Seq(Ids) /\ DOMAIN WaitingIds = 1..(Len(plan) - Progress(plan))
        /\ Len(WaitingIds) = Len(plan) - Progress(plan)
    BY <2>1, WaitingIdsNow DEF IInv
  <2>3. Len(plan) = 0
    BY <2>1
  <2>4. Progress(plan) = 0
    BY <2>1, <2>3, PlanFacts DEF IInv
  <2>5. Len(WaitingIds) = 0
    BY <2>2, <2>3, <2>4
  <2> QED
    BY <2>2, <2>5, EmptySeq
<1>7. Seqs!IsPrefix(ms, ms)
  BY RequestMessagesOK, PrefixAppend
<1> QED
  BY <1>1, <1>3, <1>4, <1>5, <1>6, <1>7 DEF TranscriptInv

\* Every step of the loop sends the provider at most one more message.
LEMMA MessagesStep ==
  ASSUME IInv, [Next]_vars
  PROVE  \/ Messages(turns') = Messages(turns)
         \/ \E m \in Message : Messages(turns') = Append(Messages(turns), m)
<1>1. turns \in Seq(Turn)
  BY DEF IInv, TypeOK
<1>2. CASE turns' = turns
  BY <1>2
<1>3. CASE FinalAnswer
  <2>1. AssistantTurn("finalization") \in Turn /\ FinalTurn \in Turn
        /\ AssistantTurn("finalization").type = "assistant"
    BY DEF Turn, Phases, AssistantTurn
  <2>2. PICK ts : ts = Append(turns, AssistantTurn("finalization"))
    OBVIOUS
  <2>3. ts \in Seq(Turn) /\ turns' = Append(ts, FinalTurn)
    <3>1. ts \in Seq(Turn)
      BY <1>1, <2>1, <2>2, AppendProperties
    <3>2. turns' = turns \o <<AssistantTurn("finalization"), FinalTurn>>
      BY <1>3 DEF FinalAnswer
    <3>3. turns' = Append(ts, FinalTurn)
      BY <1>1, <2>1, <2>2, <3>2
    <3> QED
      BY <3>1, <3>3
  <2>4. Messages(turns') = Messages(ts)
    BY <2>3, MessagesFinal
  <2> QED
    BY <1>1, <2>1, <2>2, <2>4, MessagesAppend
<1>4. ASSUME NEW calls \in Proposals, ParsePlan(calls)
      PROVE  \E m \in Message : Messages(turns') = Append(Messages(turns), m)
  <2>1. calls \in Seq(Call)
    BY LoopConstantsOK
  <2>2. turns' = (turns \o <<AssistantTurn("tool_plan")>>) \o CallTurns(calls)
    BY <1>4 DEF ParsePlan
  <2>3. AssistantMessage(FirstIds(calls, Len(calls))) \in Message
    <3>1. Len(calls) \in 0..Len(calls)
      BY <2>1, LenProperties
    <3> QED
      BY <2>1, <3>1, FirstIdsGrow, MessageTypes
  <2> QED
    BY <1>1, <2>1, <2>2, <2>3, MessagesParsed
<1>5. ASSUME NEW c \in Call, StartTool(c)
      PROVE  turns' = turns
  BY <1>5 DEF StartTool
<1>6. ASSUME NEW c \in Call, NEW r \in Results, Serve(c, r)
      PROVE  \E m \in Message : Messages(turns') = Append(Messages(turns), m)
  <2>1. turns' = Append(turns, ResultTurn(c.id, r))
    BY <1>6 DEF Serve
  <2>2. ResultTurn(c.id, r) \in Turn /\ ResultTurn(c.id, r).type = "result"
    BY DEF ResultTurn, Turn, Call
  <2> QED
    BY <1>1, <2>1, <2>2, MessagesAppend
<1>7. UNCHANGED vars => turns' = turns
  BY DEF vars
<1> QED
  BY <1>2, <1>3, <1>4, <1>5, <1>6, <1>7, StepKinds

LEMMA TranscriptParse ==
  ASSUME IInv, IInv', TranscriptInv, UNCHANGED request,
         NEW calls \in Proposals, ParsePlan(calls)
  PROVE  Story(Messages(turns'), ServedIds', WaitingIds')
<1>1. /\ at = "generate" /\ plan' = Materialize(calls) /\ served' = served
      /\ turns' = (turns \o <<AssistantTurn("tool_plan")>>) \o CallTurns(calls)
      /\ ~DuplicateId(calls) /\ DeclaredInOrder(calls)
  BY DEF ParsePlan
<1>2. calls \in Seq(Call) /\ calls # <<>> /\ turns \in Seq(Turn)
  BY LoopConstantsOK DEF IInv, TypeOK
<1>3. PICK n \in Nat : n = Len(calls) /\ n # 0 /\ n \in 0..Len(calls)
  BY <1>2, EmptySeq, LenProperties
<1>4. PICK ids : ids = FirstIds(calls, n)
  OBVIOUS
<1>5. ids \in Seq(Ids) /\ Len(ids) = n /\ \A i \in 1..n : ids[i] = calls[i].id
  BY <1>2, <1>3, <1>4, FirstIdsGrow
<1>6. WaitingIds = <<>>
  <2>1. Planned(plan) = {} /\ TypeOK /\ SequentialPlan(plan)
    BY <1>1 DEF IInv, LoopInv
  <2>2. Progress(plan) = Len(plan) /\ Len(plan) \in Nat
    BY <2>1, PlanFacts
  <2>3. WaitingIds \in Seq(Ids) /\ Len(WaitingIds) = Len(plan) - Progress(plan)
    BY <2>1, WaitingIdsNow
  <2>4. Len(WaitingIds) = 0
    BY <2>2, <2>3
  <2> QED
    BY <2>3, <2>4, EmptySeq
<1>7. WaitingIds' = ids /\ \A i, j \in DOMAIN ids : ids[i] = ids[j] => i = j
  <2>1. /\ Len(plan') = n /\ Progress(plan') = 0
        /\ \A i \in 1..n : plan'[i].call = calls[i]
    BY <1>1, <1>2, <1>3, MaterializedPlan
  <2>2. TypeOK' /\ SequentialPlan(plan')
    BY DEF IInv
  <2>3. PICK w : w = WaitingIds'
    OBVIOUS
  <2>4. /\ w \in Seq(Ids) /\ Len(w) = n
        /\ \A i \in 1..n : w[i] = plan'[i].call.id
        /\ \A i, j \in DOMAIN w : w[i] = w[j] => i = j
    BY <2>1, <2>2, <2>3, WaitingIdsNext
  <2>5. \A i \in 1..n : w[i] = ids[i]
    BY <1>5, <2>1, <2>4
  <2>6. w = ids
    BY <1>5, <2>4, <2>5, SeqEqual
  <2> QED
    BY <2>3, <2>4, <2>6
<1>8. ids # <<>>
  BY <1>3, <1>5
<1>9. Story(Messages(turns), ServedIds, <<>>)
  BY <1>1, <1>6 DEF TranscriptInv
<1>10. Story(Append(Messages(turns), AssistantMessage(ids)), ServedIds, ids)
  BY <1>5, <1>7, <1>8, <1>9, StoryCalls
<1>11. Messages(turns') = Append(Messages(turns), AssistantMessage(ids))
  BY <1>1, <1>2, <1>3, <1>4, MessagesParsed
<1>12. ServedIds' = ServedIds
  BY <1>1 DEF ServedIds
<1> QED
  BY <1>7, <1>10, <1>11, <1>12, Zenon

LEMMA TranscriptServe ==
  ASSUME IInv, IInv', TranscriptInv, NEW c \in Call, NEW r \in Results,
         at \in {"run", "execute"}, NextCall(c), Serve(c, r)
  PROVE  Story(Messages(turns'), ServedIds', WaitingIds')
<1>1. turns' = Append(turns, ResultTurn(c.id, r)) /\ turns \in Seq(Turn)
  BY DEF Serve, IInv, TypeOK
<1>2. PICK n \in Nat : n = Len(plan)
  BY PlanFacts DEF IInv
<1>3. PICK k \in Nat : k = Progress(plan) /\ k < n
  <2>1. TypeOK /\ SequentialPlan(plan)
    BY DEF IInv
  <2>2. Progress(plan) \in Nat
    BY <1>2, <2>1, PlanFacts
  <2>3. Progress(plan) < Len(plan)
    BY ServedStep
  <2> QED
    BY <1>2, <2>2, <2>3
<1>4. /\ c = plan[k + 1].call /\ Len(plan') = n /\ Progress(plan') = k + 1
      /\ \A i \in DOMAIN plan : plan'[i].call = plan[i].call
  BY <1>2, <1>3, ServedStep
<1>5. DOMAIN plan = 1..n
  BY <1>2, PlanFacts DEF IInv
<1>6. PICK w : w = WaitingIds
  OBVIOUS
<1>7. PICK v : v = WaitingIds'
  OBVIOUS
<1>8. /\ w \in Seq(Ids) /\ Len(w) = n - k
      /\ \A i \in 1..(n - k) : w[i] = plan[k + i].call.id
      /\ \A i, j \in DOMAIN w : w[i] = w[j] => i = j
  BY <1>2, <1>3, <1>6, WaitingIdsNow DEF IInv
<1>9. /\ v \in Seq(Ids) /\ Len(v) = n - (k + 1)
      /\ \A i \in 1..(n - (k + 1)) : v[i] = plan'[(k + 1) + i].call.id
  BY <1>4, <1>7, WaitingIdsNext DEF IInv
<1>10. w # <<>> /\ w[1] = c.id
  <2>1. 1 \in 1..(n - k)
    BY <1>3
  <2>2. Len(w) # 0
    BY <1>3, <1>8
  <2> QED
    BY <1>4, <1>8, <2>1, <2>2
<1>11. Len(v) = Len(w) - 1 /\ \A j \in 1..Len(v) : v[j] = w[j + 1]
  <2>1. ASSUME NEW j \in 1..(n - (k + 1))
        PROVE  v[j] = w[j + 1]
    <3>1. /\ j + 1 \in 1..(n - k) /\ k + (j + 1) = (k + 1) + j
          /\ (k + 1) + j \in 1..n
      BY <1>3
    <3>2. v[j] = plan'[(k + 1) + j].call.id
      BY <1>9
    <3>3. plan'[(k + 1) + j].call = plan[(k + 1) + j].call
      BY <1>4, <1>5, <3>1
    <3>4. w[j + 1] = plan[k + (j + 1)].call.id
      BY <1>8, <3>1
    <3> QED
      BY <3>1, <3>2, <3>3, <3>4
  <2> QED
    BY <1>8, <1>9, <2>1
<1>12. ServedIds \in Seq(Ids) /\ ServedIds' = Append(ServedIds, c.id)
  <2>1. PICK m \in Nat : m = Len(served) /\ DOMAIN served = 1..m
    BY LenProperties DEF IInv, TypeOK
  <2>2. /\ DOMAIN served' = 1..(m + 1) /\ \A i \in 1..m : served'[i] = served[i]
        /\ served'[m + 1] = [step |-> steps, call |-> c]
    BY <2>1, ServedStep
  <2>3. \A i \in 1..m : served[i].call.id \in Ids
    <3>1. \A i \in 1..m : served[i] \in Event
      BY <2>1, ElementOfSeq DEF IInv, TypeOK
    <3>2. \A e \in Event : e.call.id \in Ids
      BY DEF Event, Call
    <3> QED
      BY <3>1, <3>2
  <2>4. PICK old : old = [i \in 1..m |-> served[i].call.id]
    OBVIOUS
  <2>5. PICK new : new = [i \in 1..(m + 1) |-> served'[i].call.id]
    OBVIOUS
  <2>6. old \in [1..m -> Ids]
    BY <2>3, <2>4
  <2>7. old \in Seq(Ids) /\ Len(old) = m
    BY <2>6, FunctionIsSeq
  <2>8. c.id \in Ids
    BY DEF Call
  <2>9. \A i \in 1..(m + 1) : new[i] = IF i = m + 1 THEN c.id ELSE old[i]
    <3>1. \A i \in 1..m : i # m + 1 /\ i \in 1..(m + 1)
      OBVIOUS
    <3>2. \A i \in 1..(m + 1) : i \in 1..m \/ i = m + 1
      OBVIOUS
    <3>3. \A i \in 1..m : new[i] = old[i]
      BY <2>2, <2>4, <2>5, <3>1
    <3>4. new[m + 1] = c.id
      <4>1. m + 1 \in 1..(m + 1)
        OBVIOUS
      <4>2. new[m + 1] = served'[m + 1].call.id
        BY <2>5, <4>1
      <4> QED
        BY <2>2, <4>2
    <3> QED
      BY <3>1, <3>2, <3>3, <3>4
  <2>10. new \in [1..(m + 1) -> Ids] /\ m + 1 \in Nat
    BY <2>5, <2>6, <2>8, <2>9
  <2>11. new \in Seq(Ids) /\ Len(new) = m + 1
    BY <2>10, FunctionIsSeq
  <2>12. PICK a : a = Append(old, c.id)
    OBVIOUS
  <2>13. /\ a \in Seq(Ids) /\ Len(a) = m + 1 /\ a[m + 1] = c.id
         /\ \A i \in 1..m : a[i] = old[i]
    BY <2>7, <2>8, <2>12, AppendProperties
  <2>14. \A i \in 1..(m + 1) : a[i] = new[i]
    BY <2>9, <2>13
  <2>15. a = new
    BY <2>11, <2>13, <2>14, SeqEqual
  <2>16. ServedIds = old /\ ServedIds' = new
    BY <2>1, <2>2, <2>4, <2>5 DEF ServedIds
  <2> QED
    BY <2>7, <2>12, <2>15, <2>16
<1>13. Story(Messages(turns), ServedIds, w)
  BY <1>6 DEF TranscriptInv
<1>14. Story(Append(Messages(turns), ToolMessage(w[1])), Append(ServedIds, w[1]), v)
  BY <1>8, <1>9, <1>10, <1>11, <1>12, <1>13, StoryResult
<1>15. Messages(turns') = Append(Messages(turns), ToolMessage(c.id))
  <2>1. ResultTurn(c.id, r) \in Turn
    BY DEF ResultTurn, Turn, Call
  <2>2. /\ ResultTurn(c.id, r).type = "result"
        /\ TurnMessage(ResultTurn(c.id, r)) = ToolMessage(c.id)
    BY DEF ResultTurn, TurnMessage
  <2> QED
    BY <1>1, <2>1, <2>2, MessagesAppend
<1> QED
  BY <1>7, <1>10, <1>12, <1>14, <1>15

LEMMA KeptStays ==
  ASSUME IInv, TranscriptInv, at # "done", UNCHANGED request, [Next]_vars
  PROVE  Seqs!IsPrefix(request.kept, Messages(turns'))
<1>1. PICK ms \in RequestMessages : request = FromMessages(ms)
  BY DEF TranscriptInv
<1>2. request.kept \in Seq(Message)
  <2>1. request.kept = ms
    BY <1>1 DEF FromMessages
  <2>2. ms \in Seq(Message)
    BY RequestStory DEF Story
  <2> QED
    BY <2>1, <2>2
<1>3. Messages(turns) \in Seq(Message) /\ Seqs!IsPrefix(request.kept, Messages(turns))
  BY DEF TranscriptInv, Story
<1>4. CASE Messages(turns') = Messages(turns)
  BY <1>3, <1>4
<1>5. CASE \E m \in Message : Messages(turns') = Append(Messages(turns), m)
  BY <1>2, <1>3, <1>5, PrefixAppend
<1> QED
  BY <1>4, <1>5, MessagesStep

LEMMA TranscriptStep ==
  ASSUME IInv, IInv', TranscriptInv, UNCHANGED request, [Next]_vars
  PROVE  TranscriptInv'
<1>1. SUFFICES ASSUME at' # "done"
               PROVE  Story(Messages(turns'), ServedIds', WaitingIds')
  <2>1. at' # "done" => at # "done"
    <3>1. CASE UNCHANGED vars
      BY <3>1 DEF vars
    <3>2. CASE FinalAnswer
      BY <3>2 DEF FinalAnswer
    <3>3. ASSUME NEW calls \in Proposals, ParsePlan(calls)
          PROVE  at # "done"
      BY <3>3 DEF ParsePlan
    <3>4. ASSUME NEW c \in Call, StartTool(c)
          PROVE  at # "done"
      BY <3>4 DEF StartTool
    <3> QED
      BY <3>1, <3>2, <3>3, <3>4, StepKinds
  <2>2. request' \in {FromMessages(ms) : ms \in RequestMessages}
    BY DEF TranscriptInv
  <2>3. at' # "done" => Seqs!IsPrefix(request'.kept, Messages(turns'))
    BY <2>1, KeptStays
  <2> QED
    BY <2>2, <2>3 DEF TranscriptInv
<1>2. ASSUME at # "done", UNCHANGED <<turns, plan, served>>
      PROVE  Story(Messages(turns'), ServedIds', WaitingIds')
  <2>1. ServedIds' = ServedIds /\ WaitingIds' = WaitingIds
    BY <1>2 DEF ServedIds, WaitingIds, Waiting
  <2>2. Story(Messages(turns), ServedIds, WaitingIds)
    BY <1>2 DEF TranscriptInv
  <2> QED
    BY <1>2, <2>1, <2>2
<1>3. CASE UNCHANGED vars
  <2>1. at # "done" /\ UNCHANGED <<turns, plan, served>>
    BY <1>1, <1>3 DEF vars
  <2> QED
    BY <1>2, <2>1
<1>4. CASE FinalAnswer
  <2>1. at' = "done"
    BY <1>4 DEF FinalAnswer, End
  <2> QED
    BY <1>1, <2>1
<1>5. ASSUME NEW calls \in Proposals, ParsePlan(calls)
      PROVE  Story(Messages(turns'), ServedIds', WaitingIds')
  BY <1>5, TranscriptParse
<1>6. ASSUME NEW c \in Call, StartTool(c)
      PROVE  Story(Messages(turns'), ServedIds', WaitingIds')
  <2>1. at # "done" /\ UNCHANGED <<turns, plan, served>>
    BY <1>6 DEF StartTool
  <2> QED
    BY <1>2, <2>1
<1>7. ASSUME NEW c \in Call, NEW r \in Results, at \in {"run", "execute"},
             NextCall(c), Serve(c, r)
      PROVE  Story(Messages(turns'), ServedIds', WaitingIds')
  BY <1>7, TranscriptServe
<1> QED
  BY <1>2, <1>3, <1>4, <1>5, <1>6, <1>7, StepKinds

\* Between rounds no call waits: the story leaves nothing open.
LEMMA StoryIsPaired ==
  ASSUME IInv, TranscriptInv
  PROVE  PairedTranscript
<1> SUFFICES ASSUME at = "generate" PROVE PairedTranscript
  BY DEF PairedTranscript
<1>1. PICK ms : ms = Messages(turns)
  OBVIOUS
<1>2. WaitingIds = <<>>
  <2>1. Planned(plan) = {} /\ TypeOK /\ SequentialPlan(plan)
    BY DEF IInv, LoopInv
  <2>2. Progress(plan) = Len(plan) /\ Len(plan) \in Nat
    BY <2>1, PlanFacts
  <2>3. WaitingIds \in Seq(Ids) /\ Len(WaitingIds) = Len(plan) - Progress(plan)
    BY <2>1, WaitingIdsNow
  <2>4. Len(WaitingIds) = 0
    BY <2>2, <2>3
  <2> QED
    BY <2>3, <2>4, EmptySeq
<1>3. Seqs!IsPrefix(request.kept, ms) /\ Story(ms, ServedIds, <<>>)
  BY <1>1, <1>2 DEF TranscriptInv
<1>4. ms \in Seq(Message) /\ ResultsAre(ms, ServedIds) /\ ChatLeaves(ms, <<>>)
  BY <1>3 DEF Story
<1>5. PICK n \in Nat : n = Len(ms) /\ DOMAIN ms = 1..n
  BY <1>4, LenProperties
<1>6. ChatIsPaired(ms)
  <2>1. ASSUME NEW p \in 1..n, ms[p].role = "assistant"
        PROVE  /\ p + Len(ms[p].calls) <= n
               /\ \A k \in DOMAIN ms[p].calls : ms[p + k] = ToolMessage(ms[p].calls[k])
    <3>1. PICK ids : ids = ms[p].calls
      OBVIOUS
    <3>2. ids \in Seq(Ids)
      <4>1. ms[p] \in Message
        BY <1>4, <1>5, ElementOfSeq
      <4> QED
        BY <2>1, <3>1, <4>1 DEF Message, UserMessage
    <3>3. PICK l \in Nat : l = Len(ids) /\ DOMAIN ids = 1..l
      BY <3>2, LenProperties
    <3>4. /\ p + Len(ids) <= Len(ms) + Len(<<>>)
          /\ \A k \in DOMAIN ids :
               IF p + k <= Len(ms) THEN ms[p + k] = ToolMessage(ids[k])
               ELSE ids[k] = <<>>[p + k - Len(ms)]
      BY <1>4, <1>5, <2>1, <3>1 DEF ChatLeaves
    <3>5. p + l <= n
      BY <1>5, <3>3, <3>4
    <3>6. \A k \in 1..l : p + k <= n
      BY <3>5
    <3> QED
      BY <1>5, <3>1, <3>3, <3>4, <3>5, <3>6
  <2>2. \A p \in DOMAIN ms : ms[p].role = "tool" =>
          \E q \in 1..(p - 1) :
            ms[q].role = "assistant" /\ p - q <= Len(ms[q].calls)
    BY <1>4 DEF ChatLeaves
  <2> QED
    BY <1>5, <2>1, <2>2 DEF ChatIsPaired
<1>7. \A silent \in BOOLEAN : ItemsLeave(ResponsesInput(ms, silent), {})
  <2>1. {<<>>[k] : k \in DOMAIN <<>>} = {}
    OBVIOUS
  <2> QED
    BY <1>3, <2>1 DEF Story
<1>8. Sent(turns) = ms
  BY <1>1, SentMessages DEF TranscriptInv
<1> QED
  BY <1>3, <1>4, <1>6, <1>7, <1>8 DEF PairedTranscript

\* What a provider is sent is read from the turns and changes nothing of the
\* loop, so every theorem on the loop holds beside it.
THEOREM TranscriptsLeaveLoop == TranscriptSpec => Spec
<1>1. TranscriptInit => Init
  BY DEF TranscriptInit
<1>2. [TranscriptNext]_<<vars, request>> => [Next]_vars
  BY DEF TranscriptNext
<1> QED
  BY <1>1, <1>2, PTL DEF TranscriptSpec, Spec

\* Every round sends the provider the client's messages as they came, then the
\* whole story of the request: one result for each call that was served, in
\* their order, calls and results paired the way chat messages and Responses
\* items demand, whatever ids a model reuses and whether it speaks or is silent.
THEOREM StoriesAreWhole == TranscriptSpec => []PairedTranscript
<1>1. TranscriptInit => IInv /\ TranscriptInv
  BY TranscriptStarts, InitIInv DEF TranscriptInit
<1>2. IInv /\ TranscriptInv /\ [TranscriptNext]_<<vars, request>>
        => IInv' /\ TranscriptInv'
  <2> SUFFICES ASSUME IInv, TranscriptInv, [TranscriptNext]_<<vars, request>>
               PROVE  IInv' /\ TranscriptInv'
    OBVIOUS
  <2>1. [Next]_vars /\ UNCHANGED request
    BY DEF TranscriptNext
  <2>2. IInv'
    BY <2>1, InvStep
  <2> QED
    BY <2>1, <2>2, TranscriptStep
<1>3. IInv /\ TranscriptInv => PairedTranscript
  BY StoryIsPaired
<1> QED
  BY <1>1, <1>2, <1>3, PTL DEF TranscriptSpec

\* What a provider has seen is never taken back: the messages of a round extend
\* those of every round before, whatever plans and answers the model gives.
THEOREM TranscriptsGrow == TranscriptSpec => TranscriptGrows
<1>1. TranscriptInit => IInv /\ TranscriptInv
  BY TranscriptStarts, InitIInv DEF TranscriptInit
<1>2. IInv /\ TranscriptInv /\ [TranscriptNext]_<<vars, request>>
        => /\ IInv' /\ TranscriptInv'
           /\ [Seqs!IsPrefix(Sent(turns), Sent(turns'))]_<<vars, request>>
  <2> SUFFICES ASSUME IInv, TranscriptInv, [TranscriptNext]_<<vars, request>>
               PROVE  /\ IInv' /\ TranscriptInv'
                      /\ [Seqs!IsPrefix(Sent(turns), Sent(turns'))]_<<vars, request>>
    OBVIOUS
  <2>1. [Next]_vars /\ UNCHANGED request
    BY DEF TranscriptNext
  <2>2. IInv'
    BY <2>1, InvStep
  <2>3. TranscriptInv'
    BY <2>1, <2>2, TranscriptStep
  <2>4. ASSUME TranscriptNext
        PROVE  Seqs!IsPrefix(Sent(turns), Sent(turns'))
    <3>1. Sent(turns) = Messages(turns) /\ Sent(turns') = Messages(turns')
      BY SentMessages DEF TranscriptInv
    <3>2. Messages(turns) \in Seq(Message)
      BY KeptIsTyped DEF IInv, TypeOK
    <3>3. Seqs!IsPrefix(Messages(turns), Messages(turns'))
      <4>1. Seqs!IsPrefix(Messages(turns), Messages(turns))
        BY <3>2, PrefixAppend
      <4> QED
        BY <2>1, <3>2, <4>1, MessagesStep, PrefixAppend
    <3> QED
      BY <3>1, <3>3
  <2> QED
    BY <2>2, <2>3, <2>4
<1> QED
  BY <1>1, <1>2, PTL DEF TranscriptSpec, TranscriptGrows
==============================================================================
