----------------------------- MODULE EngineProofs -----------------------------
(***************************************************************************)
(* Proofs about the LLM side: the usage ledger of TaskEntry, the calls of  *)
(* LLMCalls and the pipeline of Editor with its editors, gates and saved   *)
(* advice, for any tasks, stages, resumes and answers.  The bookings hold  *)
(* the cap because they cover the tasks that are still to make their call. *)
(* A call has observed what its attempts add up to because every frame     *)
(* that is left has told of its own.  What is offered is grounded because  *)
(* every list a step may still write is, also the one a rewrite request    *)
(* has read.                                                               *)
(***************************************************************************)
EXTENDS TaskEntry, LLMCalls, Editor, FiniteSetTheorems, SequenceTheorems, WellFoundedInduction, TLAPS

-----------------------------------------------------------------------------
(* Selecting from a sequence *)

\* Induction over a set of numbers.
LEMMA CountedInduction ==
  ASSUME NEW n \in Nat, NEW P, 0 \in P, \A k \in 0 .. n : k \in P /\ k < n => k + 1 \in P
  PROVE  \A k \in 0 .. n : k \in P
<1> DEFINE T == {k \in 0 .. n : k \notin P}
<1>1. SUFFICES ASSUME T # {} PROVE FALSE
  OBVIOUS
<1>2. T \subseteq Nat
  OBVIOUS
<1>3. PICK x \in T : \A y \in T : ~ (<<y, x>> \in OpToRel(<, Nat))
  BY <1>1, <1>2, NatLessThanWellFounded, WFMin, Zenon
<1>4. \A y \in T : ~ (y < x)
  BY <1>2, <1>3 DEF OpToRel
<1>5. x \in 0 .. n /\ x \notin P /\ x # 0
  BY <1>3
<1>6. PICK k \in 0 .. n : x = k + 1 /\ k < n /\ k < x
  <2>1. x - 1 \in 0 .. n /\ x = (x - 1) + 1 /\ x - 1 < n /\ x - 1 < x
    BY <1>5
  <2> QED
    BY <2>1
<1>7. k \in P
  BY <1>4, <1>6
<1> QED
  BY <1>5, <1>6, <1>7

\* What is computed in n steps: x0 first, then F of the step and of what was there.
StaysIn(n, X, F) == \A k \in 1 .. n : \A x \in X : F[k][x] \in X
Computes(g, n, X, x0, F) ==
  g \in [0 .. n -> X] /\ g = [k \in 0 .. n |-> IF k = 0 THEN x0 ELSE F[k][g[k - 1]]]

\* A function computed step by step within X exists.
LEMMA StepsExist ==
  ASSUME NEW n \in Nat, NEW X, NEW x0 \in X, NEW F, StaysIn(n, X, F)
  PROVE  \E g : Computes(g, n, X, x0, F)
<1> DEFINE Goes(g, m) == g[0] = x0 /\ \A k \in 1 .. m : g[k] = F[k][g[k - 1]]
           P == {m \in 0 .. n : \E g \in [0 .. m -> X] : Goes(g, m)}
<1>1. 0 \in P
  <2>1. PICK g : g = [k \in 0 .. 0 |-> x0]
    OBVIOUS
  <2>2. g \in [0 .. 0 -> X] /\ Goes(g, 0)
    BY <2>1
  <2> QED
    BY <2>2
<1>2. ASSUME NEW m \in 0 .. n, m \in P, m < n PROVE m + 1 \in P
  <2>1. PICK g \in [0 .. m -> X] : Goes(g, m)
    BY <1>2
  <2>2. PICK x \in X : x = F[m + 1][g[m]]
    BY <1>2 DEF StaysIn
  <2>3. PICK h : h = [k \in 0 .. m + 1 |-> IF k = m + 1 THEN x ELSE g[k]]
    OBVIOUS
  <2>4. h \in [0 .. m + 1 -> X] /\ h[0] = x0
    BY <2>1, <2>3
  <2>5. \A k \in 1 .. m + 1 : h[k] = F[k][h[k - 1]]
    <3> SUFFICES ASSUME NEW k \in 1 .. m + 1 PROVE h[k] = F[k][h[k - 1]]
      OBVIOUS
    <3>1. CASE k = m + 1
      BY <2>2, <2>3, <3>1
    <3>2. CASE k # m + 1
      BY <2>1, <2>3, <3>2
    <3> QED
      BY <3>1, <3>2
  <2> QED
    BY <1>2, <2>4, <2>5
<1>3. n \in P
  <2> HIDE DEF P
  <2> QED
    BY <1>1, <1>2, CountedInduction
<1>4. PICK g \in [0 .. n -> X] : Goes(g, n)
  BY <1>3
<1>5. g = [k \in 0 .. n |-> IF k = 0 THEN x0 ELSE F[k][g[k - 1]]]
  BY <1>4
<1> QED
  BY <1>5 DEF Computes

\* The selection is computed by such steps.
LEMMA WhereSteps ==
  ASSUME NEW S, NEW s \in Seq(S), NEW T
  PROVE  \E g : /\ \A n \in 0 .. Len(s) : g[n] = IF n = 0 THEN <<>>
                                                 ELSE IF s[n] \in T THEN Append(g[n - 1], s[n]) ELSE g[n - 1]
                /\ Where(s, T) = g[Len(s)]
<1> DEFINE Kept(g) == g = [n \in 0 .. Len(s) |-> IF n = 0 THEN <<>>
                             ELSE IF s[n] \in T THEN Append(g[n - 1], s[n]) ELSE g[n - 1]]
           F == [k \in 1 .. Len(s) |-> [x \in Seq(S) |-> IF s[k] \in T THEN Append(x, s[k]) ELSE x]]
<1>1. PICK l \in Nat : l = Len(s)
  OBVIOUS
<1>2. \A k \in 1 .. l : \A x \in Seq(S) : F[k][x] = (IF s[k] \in T THEN Append(x, s[k]) ELSE x)
  BY <1>1
<1>x. \A k \in 1 .. l : \A x \in Seq(S) : F[k][x] \in Seq(S)
  BY <1>1, <1>2
<1>3. PICK g \in [0 .. l -> Seq(S)] : g = [k \in 0 .. l |-> IF k = 0 THEN <<>> ELSE F[k][g[k - 1]]]
  <2> HIDE DEF F
  <2>1. <<>> \in Seq(S)
    OBVIOUS
  <2>2. StaysIn(l, Seq(S), F)
    BY <1>x DEF StaysIn
  <2>3. \E g : Computes(g, l, Seq(S), <<>>, F)
    BY <2>1, <2>2, StepsExist
  <2> QED
    BY <2>3 DEF Computes
<1>4. \A k \in 0 .. l : k # 0 => k \in 1 .. l /\ k - 1 \in 0 .. l /\ g[k - 1] \in Seq(S)
  <2> HIDE DEF F
  <2>1. \A k \in 0 .. l : k # 0 => k \in 1 .. l /\ k - 1 \in 0 .. l
    OBVIOUS
  <2> QED
    BY <1>3, <2>1
<1>5. Kept(g)
  <2> HIDE DEF F
  <2>1. \A k \in 0 .. l : g[k] = IF k = 0 THEN <<>> ELSE IF s[k] \in T THEN Append(g[k - 1], s[k]) ELSE g[k - 1]
    BY <1>2, <1>3, <1>4
  <2>2. g = [k \in 0 .. l |-> g[k]]
    BY <1>3
  <2> QED
    BY <1>1, <2>1, <2>2
<1>6. Kept(CHOOSE h : Kept(h))
  <2> HIDE DEF Kept
  <2> QED
    BY <1>5
<1>7. Where(s, T) = (CHOOSE h : Kept(h))[Len(s)]
  BY DEF Where
<1>8. PICK h : Kept(h) /\ Where(s, T) = h[Len(s)]
  <2> HIDE DEF Kept
  <2> QED
    BY <1>6, <1>7
<1>9. \A n \in 0 .. Len(s) : h[n] = IF n = 0 THEN <<>> ELSE IF s[n] \in T THEN Append(h[n - 1], s[n]) ELSE h[n - 1]
  BY <1>8
<1> QED
  BY <1>8, <1>9

\* The selection has the elements of the sequence that are in the set, and no others.
LEMMA WhereSelects ==
  ASSUME NEW S, NEW s \in Seq(S), NEW T
  PROVE  /\ Where(s, T) \in Seq(S \cap T)
         /\ Len(Where(s, T)) <= Len(s)
         /\ \A k \in 1 .. Len(s) : s[k] \in T => \E j \in 1 .. Len(Where(s, T)) : Where(s, T)[j] = s[k]
         /\ \A j \in 1 .. Len(Where(s, T)) : \E k \in 1 .. Len(s) : Where(s, T)[j] = s[k]
<1>1. PICK g : /\ \A n \in 0 .. Len(s) : g[n] = IF n = 0 THEN <<>>
                                                ELSE IF s[n] \in T THEN Append(g[n - 1], s[n]) ELSE g[n - 1]
               /\ Where(s, T) = g[Len(s)]
  BY WhereSteps
<1>2. PICK l \in Nat : l = Len(s)
  OBVIOUS
<1> DEFINE Fits(n) == /\ g[n] \in Seq(S \cap T) /\ Len(g[n]) <= n
                      /\ \A k \in 1 .. n : s[k] \in T => \E j \in 1 .. Len(g[n]) : g[n][j] = s[k]
                      /\ \A j \in 1 .. Len(g[n]) : \E k \in 1 .. n : g[n][j] = s[k]
           P == {n \in 0 .. l : Fits(n)}
<1>3. 0 \in P
  <2>1. PICK e : e = g[0] /\ e = <<>>
    BY <1>1, <1>2
  <2>2. e \in Seq(S \cap T) /\ Len(e) = 0 /\ 1 .. 0 = {}
    BY <2>1
  <2>3. Fits(0)
    BY <2>1, <2>2
  <2> QED
    BY <2>3
<1>4. ASSUME NEW n \in 0 .. l, n \in P, n < l PROVE n + 1 \in P
  <2>1. n + 1 \in 1 .. l /\ n + 1 # 0 /\ (n + 1) - 1 = n /\ s[n + 1] \in S
    BY <1>2, <1>4
  <2>2. PICK x : x = g[n]
    OBVIOUS
  <2>3. PICK y : y = g[n + 1] /\ y = IF s[n + 1] \in T THEN Append(x, s[n + 1]) ELSE x
    <3>1. n + 1 \in 0 .. Len(s)
      BY <1>2, <2>1
    <3>2. g[n + 1] = IF s[n + 1] \in T THEN Append(g[n], s[n + 1]) ELSE g[n]
      BY <1>1, <2>1, <3>1
    <3> QED
      BY <2>2, <3>2
  <2>4. PICK m \in Nat : m = Len(x)
    BY <1>4, <2>2
  <2>5. /\ x \in Seq(S \cap T) /\ m <= n
        /\ \A k \in 1 .. n : s[k] \in T => \E j \in 1 .. m : x[j] = s[k]
        /\ \A j \in 1 .. m : \E k \in 1 .. n : x[j] = s[k]
    BY <1>4, <2>2, <2>4
  <2>6. \A k \in 1 .. n + 1 : k = n + 1 \/ k \in 1 .. n
    OBVIOUS
  <2>7. CASE s[n + 1] \in T
    <3>1. PICK e : e = s[n + 1] /\ e \in S \cap T /\ y = Append(x, e)
      BY <2>1, <2>3, <2>7
    <3>2. y \in Seq(S \cap T) /\ Len(y) = m + 1 /\ y[m + 1] = e /\ \A j \in 1 .. m : y[j] = x[j]
      BY <2>4, <2>5, <3>1
    <3>3. \A j \in 1 .. m + 1 : j = m + 1 \/ j \in 1 .. m
      OBVIOUS
    <3>4. m + 1 \in 1 .. m + 1 /\ (\A j \in 1 .. m : j \in 1 .. m + 1) /\ n + 1 \in 1 .. n + 1 /\ \A k \in 1 .. n : k \in 1 .. n + 1
      OBVIOUS
    <3>5. \A k \in 1 .. n + 1 : s[k] \in T => \E j \in 1 .. m + 1 : y[j] = s[k]
      BY <2>5, <2>6, <3>1, <3>2, <3>4
    <3>6. \A j \in 1 .. m + 1 : \E k \in 1 .. n + 1 : y[j] = s[k]
      BY <2>5, <3>1, <3>2, <3>3, <3>4
    <3>7. m + 1 <= n + 1
      BY <2>5
    <3>8. Fits(n + 1)
      BY <2>3, <3>2, <3>5, <3>6, <3>7
    <3> QED
      BY <2>1, <3>8
  <2>8. CASE s[n + 1] \notin T
    <3>1. y = x
      BY <2>3, <2>8
    <3>2. \A k \in 1 .. n + 1 : s[k] \in T => \E j \in 1 .. m : x[j] = s[k]
      BY <2>5, <2>6, <2>8
    <3>3. \A j \in 1 .. m : \E k \in 1 .. n + 1 : x[j] = s[k]
      BY <2>5
    <3>4. Fits(n + 1)
      BY <2>3, <2>4, <2>5, <3>1, <3>2, <3>3
    <3> QED
      BY <2>1, <3>4
  <2> QED
    BY <2>7, <2>8
<1>5. l \in P
  <2> HIDE DEF P
  <2> QED
    <3>1. \A n \in 0 .. l : n \in P /\ n < l => n + 1 \in P
      BY <1>4
    <3>2. \A n \in 0 .. l : n \in P
      BY <1>3, <3>1, CountedInduction
    <3> QED
      BY <3>2
<1>6. Fits(l)
  BY <1>5
<1> QED
  BY <1>1, <1>2, <1>6

\* A selection is of elements of the sequence that are in the set, and no longer than it.
LEMMA WhereIn ==
  ASSUME NEW S, NEW s \in Seq(S), NEW T
  PROVE  /\ Where(s, T) \in Seq(S) /\ Len(Where(s, T)) <= Len(s)
         /\ \A j \in DOMAIN Where(s, T) : Where(s, T)[j] \in S /\ Where(s, T)[j] \in T
<1>1. PICK w : w = Where(s, T)
  OBVIOUS
<1>2. w \in Seq(S \cap T) /\ Len(w) <= Len(s)
  BY <1>1, WhereSelects
<1>3. w \in Seq(S) /\ \A j \in DOMAIN w : w[j] \in S \cap T
  BY <1>2
<1> QED
  BY <1>1, <1>2, <1>3

\* A sequence with one element replaced.
LEMMA ReplacedAt ==
  ASSUME NEW S, NEW s \in Seq(S), NEW n \in DOMAIN s, NEW u \in S
  PROVE  /\ [s EXCEPT ![n] = u] \in Seq(S) /\ DOMAIN [s EXCEPT ![n] = u] = DOMAIN s
         /\ \A k \in DOMAIN s : [s EXCEPT ![n] = u][k] = IF k = n THEN u ELSE s[k]
<1>1. n \in 1 .. Len(s)
  OBVIOUS
<1>2. [s EXCEPT ![n] = u] \in Seq(S)
  BY <1>1, ExceptSeq
<1> QED
  BY <1>2

\* What is left when an element is removed was there before.
LEMMA RemovedAt ==
  ASSUME NEW S, NEW s \in Seq(S), NEW n \in DOMAIN s
  PROVE  /\ RemoveAt(s, n) \in Seq(S)
         /\ \A k \in DOMAIN RemoveAt(s, n) : \E j \in DOMAIN s : RemoveAt(s, n)[k] = s[j]
<1>1. PICK l \in Nat : l = Len(s) /\ DOMAIN s = 1 .. l
  OBVIOUS
<1>2. n \in 1 .. l /\ n - 1 \in Nat /\ l - n \in Nat
  BY <1>1
<1>3. PICK left : left = SubSeq(s, 1, n - 1)
  OBVIOUS
<1>4. PICK right : right = SubSeq(s, n + 1, l)
  OBVIOUS
<1>5. left \in Seq(S) /\ Len(left) = n - 1 /\ \A k \in 1 .. n - 1 : left[k] = s[k]
  BY <1>1, <1>2, <1>3
<1>6. right \in Seq(S) /\ Len(right) = l - n /\ \A k \in 1 .. l - n : right[k] = s[n + k]
  BY <1>1, <1>2, <1>4
<1>7. RemoveAt(s, n) = left \o right
  BY <1>1, <1>3, <1>4 DEF RemoveAt
<1>8. PICK m \in Nat : m = n - 1
  BY <1>2
<1>9. PICK q \in Nat : q = l - n
  BY <1>2
<1>10. PICK e \in Seq(S) : e = left \o right
  BY <1>5, <1>6, ConcatProperties
<1>11. Len(e) = m + q /\ \A k \in 1 .. m + q : e[k] = IF k <= m THEN left[k] ELSE right[k - m]
  BY <1>5, <1>6, <1>8, <1>9, <1>10, ConcatProperties
<1>12. ASSUME NEW k \in 1 .. m + q PROVE \E j \in 1 .. l : e[k] = s[j]
  <2>1. CASE k <= m
    <3>1. k \in 1 .. n - 1 /\ k \in 1 .. l
      BY <1>2, <1>8, <2>1
    <3> QED
      BY <1>5, <1>11, <2>1, <3>1
  <2>2. CASE ~ (k <= m)
    <3>a. k - m \in Nat /\ k - m <= q /\ 1 <= k - m
      BY <2>2
    <3>1. PICK i \in Nat : i = k - m /\ i <= q /\ 1 <= i
      BY <3>a
    <3>2. i \in 1 .. l - n
      BY <1>9, <3>1
    <3>3. n + i \in 1 .. l
      <4>1. n \in Nat /\ 1 <= n
        BY <1>2
      <4>2. i <= l - n
        BY <1>9, <3>1
      <4> QED
        BY <3>1, <4>1, <4>2
    <3>4. e[k] = right[i]
      BY <1>11, <2>2, <3>1
    <3> QED
      BY <1>6, <3>2, <3>3, <3>4
  <2> QED
    BY <2>1, <2>2
<1>13. DOMAIN e = 1 .. m + q
  BY <1>11
<1> QED
  BY <1>1, <1>7, <1>10, <1>12, <1>13

\* A nonempty set of numbers has a least one.
LEMMA LeastIsIn == ASSUME NEW S \in SUBSET Nat, S # {} PROVE Min(S) \in S
<1>1. PICK x \in S : \A y \in S : ~ (<<y, x>> \in OpToRel(<, Nat))
  BY NatLessThanWellFounded, WFMin, Zenon
<1>a. \A y \in S : ~ (y < x)
  BY <1>1 DEF OpToRel
<1>b. \A y \in S : x \in Nat /\ y \in Nat
  OBVIOUS
<1>2. \A y \in S : x =< y
  BY <1>a, <1>b
<1> QED
  BY <1>2 DEF Min

-----------------------------------------------------------------------------
(* The usage ledger: the inductive invariant *)

USE TaskAssumption

\* Only tasks with a run of their own go through these stages.
StagesFit ==
  \A t \in Tasks :
    taskStage[t] \in {"booked", "admitted", "queued", "ending", "unused", "closing"} => t \in Queued

\* Before its start a task has made no call, and none has it when it is found unused.
UncalledStages ==
  SameDayNoRestart =>
    \A t \in Tasks : taskStage[t] \in {"out", "booked", "admitted", "queued", "unused"} => made[t] = 0

\* The calls of a run are among those of the tenant since it started.
UsageCovers ==
  SameDayNoRestart =>
    \A t \in Queued : taskStage[t] \in {"running", "ending"} => before[t] + made[t] <= callsToday

\* The tasks that hold a booking for a call they may still make, or give back.
Open == {t \in Tasks : /\ taskStage[t] \in {"booked", "admitted", "queued", "running", "ending", "unused"}
                       /\ made[t] = 0}

OneCallEach == \A t \in Tasks : made[t] <= 1

\* Every open task has a booking, and bookings and calls are within the cap.
BookingsCover ==
  SameDayNoRestart /\ OneCallEach =>
    /\ Cardinality(Open) <= reserves
    /\ callsToday + reserves <= Cap

TaskInv == TaskTypeOK /\ StagesFit /\ UncalledStages /\ UsageCovers /\ BookingsCover

\* The open tasks can be counted.
LEMMA OpenIsFinite == IsFiniteSet(Open) /\ Cardinality(Open) \in Nat
<1>1. Open \subseteq Tasks
  BY DEF Open
<1> QED
  BY <1>1, FS_Subset, FS_CardinalityType

\* Creation ranks are numbers.
LEMMA RanksAreNumbers == Cardinality({u \in Tasks : rank[u] > 0}) \in Nat
<1>1. {u \in Tasks : rank[u] > 0} \subseteq Tasks
  OBVIOUS
<1> QED
  BY <1>1, FS_Subset, FS_CardinalityType

-----------------------------------------------------------------------------
(* What the steps of one task do *)

TaskStep(t) ==
  \/ Book(t) \/ CheckStreak(t) \/ Enqueue(t) \/ Cancel(t) \/ Start(t)
  \/ Call(t) \/ FinishRun(t) \/ FinishDirect(t) \/ TimeOut(t)
  \/ CompareUsage(t) \/ ReturnSlot(t) \/ DropPayload(t)

\* Types, and the stages of tasks that are not queued.
LEMMA TypesKept ==
  ASSUME TaskTypeOK, StagesFit, [TaskNext]_taskVars
  PROVE  TaskTypeOK' /\ StagesFit'
<1> USE DEF TaskTypeOK, StagesFit, Tasks, TaskStages, Goto, ledger, runTable, clocks
<1>1. ASSUME NEW t \in Tasks, Book(t)
      PROVE  TaskTypeOK' /\ StagesFit'
  BY <1>1 DEF Book, ReserveCall
<1>2. ASSUME NEW t \in Tasks, CheckStreak(t)
      PROVE  TaskTypeOK' /\ StagesFit'
  BY <1>2 DEF CheckStreak
<1>3. ASSUME NEW t \in Tasks, Enqueue(t)
      PROVE  TaskTypeOK' /\ StagesFit'
  <2>1. t \in Queued
    BY <1>3 DEF Enqueue
  <2>2. rank' \in [Tasks -> Nat]
    BY <1>3, RanksAreNumbers DEF Enqueue
  <2> QED
    BY <1>3, <2>1, <2>2 DEF Enqueue
<1>4. ASSUME NEW t \in Tasks, Cancel(t) \/ Start(t)
      PROVE  TaskTypeOK' /\ StagesFit'
  BY <1>4 DEF Cancel, Start
<1>5. ASSUME NEW t \in Tasks, Call(t)
      PROVE  TaskTypeOK' /\ StagesFit'
  BY <1>5 DEF Call, RecordCall, Consumed
<1>6. ASSUME NEW t \in Tasks, FinishRun(t) \/ FinishDirect(t) \/ TimeOut(t)
      PROVE  TaskTypeOK' /\ StagesFit'
  BY <1>6 DEF FinishRun, FinishDirect, TimeOut
<1>7. ASSUME NEW t \in Tasks, CompareUsage(t) \/ ReturnSlot(t) \/ DropPayload(t)
      PROVE  TaskTypeOK' /\ StagesFit'
  BY <1>7 DEF CompareUsage, ReturnSlot, DropPayload, ReleaseCall, Consumed
<1>8. CASE NextDay
  BY <1>8 DEF NextDay, NewRow
<1>9. CASE Restart
  BY <1>9 DEF Restart
<1>10. CASE UNCHANGED taskVars
  BY <1>10 DEF taskVars
<1> QED
  BY <1>1, <1>2, <1>3, <1>4, <1>5, <1>6, <1>7, <1>8, <1>9, <1>10 DEF TaskNext

\* A run that the release finds unused has made no call.
LEMMA UsageKept ==
  ASSUME TaskTypeOK, StagesFit, UncalledStages, UsageCovers, NEW t \in Tasks, TaskStep(t)
  PROVE  UncalledStages' /\ UsageCovers'
<1> USE DEF TaskTypeOK, StagesFit, UncalledStages, UsageCovers, Tasks, TaskStages, SameDayNoRestart,
            Goto, ledger, runTable, clocks
<1>1. CASE Book(t)
  BY <1>1 DEF Book, ReserveCall
<1>2. CASE CheckStreak(t) \/ Enqueue(t) \/ Cancel(t)
  BY <1>2 DEF CheckStreak, Enqueue, Cancel
<1>3. CASE Start(t)
  BY <1>3 DEF Start
<1>4. CASE Call(t)
  BY <1>4 DEF Call, RecordCall
<1>5. CASE FinishRun(t) \/ FinishDirect(t) \/ TimeOut(t)
  BY <1>5 DEF FinishRun, FinishDirect, TimeOut
<1>6. CASE CompareUsage(t)
  BY <1>6 DEF CompareUsage
<1>7. CASE ReturnSlot(t) \/ DropPayload(t)
  BY <1>7 DEF ReturnSlot, DropPayload, ReleaseCall
<1> QED
  BY <1>1, <1>2, <1>3, <1>4, <1>5, <1>6, <1>7 DEF TaskStep

\* A booking for every task that is still to call, and no more than the cap.
LEMMA BookingsKept ==
  ASSUME TaskInv, NEW t \in Tasks, TaskStep(t)
  PROVE  BookingsCover'
<1> SUFFICES ASSUME SameDayNoRestart', OneCallEach'
             PROVE  /\ Cardinality(Open') <= reserves'
                    /\ callsToday' + reserves' <= Cap
  BY DEF BookingsCover
<1> USE DEF TaskInv, TaskTypeOK, Tasks, SameDayNoRestart, OneCallEach, Goto, ledger, runTable, clocks
<1>a. SameDayNoRestart /\ OneCallEach
  BY DEF TaskStep, Book, CheckStreak, Enqueue, Cancel, Start, Call, FinishRun, FinishDirect,
         TimeOut, CompareUsage, ReturnSlot, DropPayload
<1>b. Cardinality(Open) <= reserves /\ callsToday + reserves <= Cap
  BY <1>a DEF BookingsCover
<1>1. CASE Book(t)
  <2>1. Open' = Open \cup {t} /\ t \notin Open
    BY <1>1, <1>a DEF Book, Open, UncalledStages
  <2>2. Cardinality(Open') = Cardinality(Open) + 1
    BY <2>1, OpenIsFinite, FS_AddElement
  <2> QED
    BY <1>1, <1>b, <2>2, OpenIsFinite DEF Book, ReserveCall
<1>2. CASE Call(t)
  <2>1. made[t] = 0
    BY <1>2 DEF Call
  <2>2. t \in Open /\ Open' = Open \ {t}
    BY <1>2, <2>1 DEF Call, Open
  <2>3. Cardinality(Open') = Cardinality(Open) - 1
    BY <2>2, OpenIsFinite, FS_RemoveElement
  <2>4. Cardinality(Open') \in Nat
    BY <2>2, OpenIsFinite, FS_RemoveElement, FS_CardinalityType
  <2> QED
    BY <1>2, <1>b, <2>3, <2>4, OpenIsFinite DEF Call, RecordCall, Consumed
<1>3. CASE ReturnSlot(t)
  <2>1. t \in Open /\ Open' = Open \ {t}
    BY <1>3, <1>a DEF ReturnSlot, Open, UncalledStages
  <2>2. Cardinality(Open') = Cardinality(Open) - 1
    BY <2>1, OpenIsFinite, FS_RemoveElement
  <2>3. Cardinality(Open') \in Nat
    BY <2>1, OpenIsFinite, FS_RemoveElement, FS_CardinalityType
  <2> QED
    BY <1>3, <1>b, <2>2, <2>3, OpenIsFinite DEF ReturnSlot, ReleaseCall, Consumed
<1>4. ASSUME Open' \subseteq Open, UNCHANGED ledger
      PROVE  Cardinality(Open') <= reserves' /\ callsToday' + reserves' <= Cap
  <2>1. Cardinality(Open') <= Cardinality(Open) /\ Cardinality(Open') \in Nat
    BY <1>4, OpenIsFinite, FS_Subset, FS_CardinalityType
  <2> QED
    BY <1>4, <1>b, <2>1, OpenIsFinite
<1>5. CASE CheckStreak(t) \/ Enqueue(t) \/ Cancel(t) \/ Start(t)
  <2>1. Open' \subseteq Open
    BY <1>5 DEF CheckStreak, Enqueue, Cancel, Start, Open
  <2> QED
    BY <1>4, <1>5, <2>1 DEF CheckStreak, Enqueue, Cancel, Start
<1>6. CASE FinishRun(t) \/ FinishDirect(t) \/ TimeOut(t) \/ CompareUsage(t) \/ DropPayload(t)
  <2>1. Open' \subseteq Open
    BY <1>6 DEF FinishRun, FinishDirect, TimeOut, CompareUsage, DropPayload, Open
  <2> QED
    BY <1>4, <1>6, <2>1 DEF FinishRun, FinishDirect, TimeOut, CompareUsage, DropPayload
<1> QED
  BY <1>1, <1>2, <1>3, <1>5, <1>6 DEF TaskStep

\* No task has started, so that none is open.
LEMMA TaskStarts == ASSUME TaskInit PROVE TaskInv
<1>1. Open = {}
  BY DEF TaskInit, Open
<1>2. Cardinality(Open) = 0
  BY <1>1, FS_EmptySet
<1> QED
  BY <1>2 DEF TaskInit, TaskInv, TaskTypeOK, TaskStages, StagesFit, UncalledStages, UsageCovers,
              BookingsCover, Tasks

\* Days and restarts end what the bookings are held to.
LEMMA TasksKeep == ASSUME TaskInv, [TaskNext]_taskVars PROVE TaskInv'
<1>1. TaskTypeOK' /\ StagesFit'
  BY TypesKept DEF TaskInv
<1>2. ASSUME NEW t \in Tasks, TaskStep(t)
      PROVE  UncalledStages' /\ UsageCovers' /\ BookingsCover'
  BY <1>2, UsageKept, BookingsKept DEF TaskInv
<1>3. CASE NextDay \/ Restart
  <2>1. ~SameDayNoRestart'
    BY <1>3 DEF NextDay, Restart, SameDayNoRestart, TaskInv, TaskTypeOK, clocks
  <2> QED
    BY <1>1, <2>1 DEF TaskInv, UncalledStages, UsageCovers, BookingsCover
<1>4. CASE UNCHANGED taskVars
  <2>1. Open' = Open
    BY <1>4 DEF Open, taskVars
  <2> QED
    BY <1>1, <1>4, <2>1 DEF TaskInv, UncalledStages, UsageCovers, BookingsCover, SameDayNoRestart,
                            OneCallEach, taskVars
<1> QED
  BY <1>1, <1>2, <1>3, <1>4 DEF TaskNext, TaskStep, TaskInv

-----------------------------------------------------------------------------
(* The usage ledger: theorems *)

\* The ledger of cost_guard.py and llm_usage.py under any number of tasks: every task that
\* has yet to call has its booking, and calls and bookings are within the cap.
THEOREM LedgerInvariance == TaskSpec => []TaskInv
<1>1. TaskInit => TaskInv
  BY TaskStarts
<1>2. TaskInv /\ [TaskNext]_taskVars => TaskInv'
  BY TasksKeep
<1> QED
  BY <1>1, <1>2, PTL DEF TaskSpec

\* The variables keep their types.
THEOREM TaskTypes == TaskSpec => []TaskTypeOK
<1>1. TaskInv => TaskTypeOK
  BY DEF TaskInv
<1> QED
  BY <1>1, LedgerInvariance, PTL

\* Any number of tasks that enter at once hold any daily cap (cost_guard.py:61-83), as long
\* as each makes the one call it booked.
THEOREM CapIsHeld == TaskSpec => []BookingsHoldTheCap
<1>1. TaskInv => BookingsHoldTheCap
  BY DEF TaskInv, BookingsCover, BookingsHoldTheCap, OneCallEach
<1> QED
  BY <1>1, LedgerInvariance, PTL

HIDE TaskAssumption

-----------------------------------------------------------------------------
(* Calls: what the records of a call add up to *)

Attempts(seq) == FoldLeft(LAMBDA n, r : n + r.attempts, 0, seq)

\* Function h computes the fold on every set of positions of seq, all of which are D.
SumsUp(h, D, seq) ==
  h = [s \in SUBSET D |-> IF s = {} THEN 0 ELSE h[s \ {Max(s)}] + seq[Max(s)].attempts]

\* A fold over a sequence is computed by a function on the sets of its positions.
LEMMA AttemptsFold ==
  ASSUME NEW seq, NEW D, D = DOMAIN seq,
         \E g : SumsUp(g, D, seq)
  PROVE  \E g : /\ SumsUp(g, D, seq)
                /\ Attempts(seq) = g[D]
<1> DEFINE F == CHOOSE iter : iter = [s \in SUBSET DOMAIN seq |->
        IF s = {} THEN 0 ELSE iter[s \ {Max(s)}] + seq[Max(s)].attempts]
<1>1. Attempts(seq) = F[DOMAIN seq]
  BY DEF Attempts, FoldLeft, MapThenFoldSet
<1>2. F = [s \in SUBSET DOMAIN seq |->
        IF s = {} THEN 0 ELSE F[s \ {Max(s)}] + seq[Max(s)].attempts]
  BY Zenon DEF SumsUp
<1> QED
  BY <1>1, <1>2 DEF SumsUp

\* The last of at most two positions.
LEMMA LargestOfTwo == Max({1}) = 1 /\ Max({2}) = 2 /\ Max({1, 2}) = 2
BY DEF Max

\* What no, one and two records add up to.
LEMMA NoneAttempted == ASSUME NEW q, DOMAIN q = {} PROVE Attempts(q) = 0
<1>0. PICK D : D = DOMAIN q /\ D = {} /\ SUBSET D = {D}
  OBVIOUS
<1>1. PICK g : g = [s \in SUBSET D |-> 0]
  OBVIOUS
<1>2. SumsUp(g, D, q)
  BY <1>0, <1>1 DEF SumsUp
<1>e. \E h : SumsUp(h, D, q)
  BY <1>2, Zenon
<1>d. D = DOMAIN q
  BY <1>0
<1>3. PICK h : /\ SumsUp(h, D, q)
               /\ Attempts(q) = h[D]
  BY <1>d, <1>e, AttemptsFold, Zenon
<1> QED
  BY <1>0, <1>3 DEF SumsUp

\* One record adds up to its own attempts.
LEMMA OnceAttempted ==
  ASSUME NEW q, NEW a \in Nat, DOMAIN q = {1}, q[1].attempts = a
  PROVE  Attempts(q) = a
<1>1. PICK g : g = [s \in SUBSET {1} |-> IF s = {} THEN 0 ELSE a]
  OBVIOUS
<1>2. \A s \in SUBSET {1} : s = {} \/ (s = {1} /\ s \ {Max(s)} = {} /\ Max(s) = 1)
  BY LargestOfTwo
<1>3. g[{}] = 0 /\ g[{1}] = a /\ 0 + a = a
  BY <1>1
<1>4. ASSUME NEW s \in SUBSET {1}
      PROVE  g[s] = IF s = {} THEN 0 ELSE g[s \ {Max(s)}] + q[Max(s)].attempts
  BY <1>2, <1>3
<1>5. SumsUp(g, {1}, q)
  BY <1>1, <1>4 DEF SumsUp
<1>6. PICK h : /\ SumsUp(h, {1}, q)
               /\ Attempts(q) = h[{1}]
  BY <1>5, AttemptsFold
<1>7. h[{}] = 0
  BY <1>6 DEF SumsUp
<1>8. h[{1}] = h[{1} \ {Max({1})}] + q[Max({1})].attempts
  BY <1>6 DEF SumsUp
<1>9. h[{1}] = h[{}] + q[1].attempts
  BY <1>8, <1>2, LargestOfTwo
<1> QED
  BY <1>3, <1>6, <1>7, <1>9

\* Two records add up to the attempts of both.
LEMMA TwiceAttempted ==
  ASSUME NEW q, NEW a \in Nat, NEW b \in Nat, DOMAIN q = {1, 2}, q[1].attempts = a, q[2].attempts = b
  PROVE  Attempts(q) = a + b
<1>2. PICK g : g = [s \in SUBSET {1, 2} |-> (IF 1 \in s THEN a ELSE 0) + (IF 2 \in s THEN b ELSE 0)]
  OBVIOUS
<1>3. \A s \in SUBSET {1, 2} : s = {} \/ s = {1} \/ s = {2} \/ s = {1, 2}
  OBVIOUS
<1>4. {1} \ {1} = {} /\ {2} \ {2} = {} /\ {1, 2} \ {2} = {1}
  OBVIOUS
<1>5. g[{}] = 0 /\ g[{1}] = a /\ g[{2}] = b /\ g[{1, 2}] = a + b /\ 0 + a = a /\ 0 + b = b
  BY <1>2
<1>6. ASSUME NEW s \in SUBSET {1, 2}
      PROVE  g[s] = IF s = {} THEN 0 ELSE g[s \ {Max(s)}] + q[Max(s)].attempts
  <2>1. CASE s = {}
    BY <2>1, <1>5
  <2>2. CASE s = {1}
    <3>1. g[s \ {Max(s)}] = 0 /\ q[Max(s)].attempts = a /\ s # {}
      BY <2>2, <1>4, <1>5, LargestOfTwo
    <3> QED
      BY <2>2, <3>1, <1>5
  <2>3. CASE s = {2}
    <3>1. g[s \ {Max(s)}] = 0 /\ q[Max(s)].attempts = b /\ s # {}
      BY <2>3, <1>4, <1>5, LargestOfTwo
    <3> QED
      BY <2>3, <3>1, <1>5
  <2>4. CASE s = {1, 2}
    <3>1. g[s \ {Max(s)}] = a /\ q[Max(s)].attempts = b /\ s # {}
      BY <2>4, <1>4, <1>5, LargestOfTwo
    <3> QED
      BY <2>4, <3>1, <1>5
  <2> QED
    BY <1>3, <2>1, <2>2, <2>3, <2>4
<1>7. SumsUp(g, {1, 2}, q)
  BY <1>2, <1>6 DEF SumsUp
<1>8. PICK h : /\ SumsUp(h, {1, 2}, q)
               /\ Attempts(q) = h[{1, 2}]
  BY <1>7, AttemptsFold
<1>9. h[{}] = 0
  BY <1>8 DEF SumsUp
<1>10. h[{1}] = h[{1} \ {Max({1})}] + q[Max({1})].attempts
  BY <1>8 DEF SumsUp
<1>11. h[{1, 2}] = h[{1, 2} \ {Max({1, 2})}] + q[Max({1, 2})].attempts
  BY <1>8 DEF SumsUp
<1>12. h[{1}] = h[{}] + a /\ h[{1, 2}] = h[{1}] + b
  BY <1>4, <1>10, <1>11, LargestOfTwo
<1> QED
  BY <1>8, <1>9, <1>12

\* A sequence of two.
LEMMA PairIs == ASSUME NEW S, NEW f \in S, NEW g \in S, NEW x \in Seq(S), Len(x) = 2, x[1] = f, x[2] = g
                PROVE  x = <<f, g>>
OBVIOUS

\* A second record after the first.
LEMMA SingleAppended == ASSUME NEW S, NEW f \in S, NEW g \in S, NEW q \in Seq(S), q = <<f>>, NEW x, x = Append(q, g)
                        PROVE  x \in Seq(S) /\ Len(x) = 2 /\ x[1] = f /\ x[2] = g
OBVIOUS

\* The frame of the fallback on top of that of the schema mode.
LEMMA AppendToOne == ASSUME NEW S, NEW f \in S, NEW g \in S PROVE Append(<<f>>, g) = <<f, g>>
<1>1. <<f>> \in Seq(S)
  OBVIOUS
<1>2. PICK q, x : q = <<f>> /\ x = Append(q, g)
  OBVIOUS
<1>3. q \in Seq(S)
  BY <1>1, <1>2
<1>4. x \in Seq(S) /\ Len(x) = 2 /\ x[1] = f /\ x[2] = g
  BY <1>2, <1>3, SingleAppended
<1>5. x = <<f, g>>
  BY <1>4, PairIs, Zenon
<1> QED
  BY <1>2, <1>5

USE LLMAssumption

Frames  == [mode : Modes, attempt : 0 .. MaxRetries, budget : 0 .. TokenCap]
Record  == [attempts : Nat, status : {"ok", "failed"}]

\* A call in progress: the method it entered, or the provider's schema mode and its fallback;
\* n requests have been sent.
InCall(fs, n) ==
  \/ \E f \in Frames : fs = <<f>> /\ n = f.attempt
  \/ \E f \in Frames : \E g \in Frames :
       fs = <<f, g>> /\ f.mode = "provider" /\ g.mode = "json_mode" /\ n = f.attempt + 1 + g.attempt

\* A call that is over after n requests, with what is recorded of it.
Told(obs, n, out) ==
  \/ obs = <<>> /\ n = 0
  \/ \E q \in Record : obs = <<q>> /\ n = q.attempts /\ (out = "ok" <=> q.status = "ok")
  \/ \E q \in Record : \E r \in Record :
       /\ obs = <<q, r>> /\ n = q.attempts + r.attempts
       /\ r.status = "failed" /\ (out = "ok" <=> q.status = "ok")

StageFits(fs, st, out, cl, ps, obs) ==
  /\ st \in {"start", "calling", "putting", "done"}
  /\ ps \in [sent : 0 .. 2 * (MaxRetries + 1), closed : {0}]
  /\ st = "start" => fs = <<>> /\ obs = <<>> /\ ps.sent = 0 /\ cl = "open"
  /\ st = "calling" => InCall(fs, ps.sent) /\ obs = <<>> /\ cl = "open"
  /\ st \in {"putting", "done"} => fs = <<>> /\ Told(obs, ps.sent, out)

CacheFits ==
  /\ DOMAIN cached = {KeyOf(s) : s \in Stages}
  /\ \A k \in DOMAIN cached : cached[k] = Uncached \/ KeyOf(cached[k]) = k

Shapes ==
  /\ setup \in [Stages -> [entry : Methods, short : BOOLEAN, timed : BOOLEAN]]
  /\ DOMAIN frames = Stages /\ DOMAIN step = Stages /\ DOMAIN outcome = Stages
  /\ DOMAIN client = Stages /\ DOMAIN posts = Stages /\ DOMAIN observed = Stages

FitsAt(s) == StageFits(frames[s], step[s], outcome[s], client[s], posts[s], observed[s])

LLMInv == CacheFits /\ Shapes /\ \A s \in Stages : FitsAt(s)

-----------------------------------------------------------------------------

\* No call has been made at first.
LEMMA LLMStart == ASSUME LLMInit PROVE LLMInv
<1>1. CacheFits /\ Shapes
  BY DEF LLMInit, CacheFits, Shapes
<1>2. ASSUME NEW s \in Stages PROVE FitsAt(s)
  BY DEF LLMInit, FitsAt, StageFits
<1> QED
  BY <1>1, <1>2 DEF LLMInv

\* A new frame has made no attempt.
LEMMA FrameTyped == ASSUME NEW m \in Modes PROVE Frame(m) \in Frames /\ Frame(m).attempt = 0 /\ Frame(m).mode = m
BY DEF Frame, Frames

\* One more attempt with the same budget or a larger one.
LEMMA NextAttempt ==
  ASSUME NEW f \in Frames, f.attempt # MaxRetries, NEW g, g = f \/ g = Doubled(f)
  PROVE  LET h == [g EXCEPT !.attempt = @ + 1]
         IN  h \in Frames /\ h.attempt = f.attempt + 1 /\ h.mode = f.mode
<1>1. f.budget \in 0 .. TokenCap /\ f.attempt \in 0 .. MaxRetries
  BY DEF Frames
<1>2. PICK b : b = IF 2 * f.budget < TokenCap THEN 2 * f.budget ELSE TokenCap
  OBVIOUS
<1>3. b \in 0 .. TokenCap
  BY <1>1, <1>2
<1>4. Doubled(f) = [f EXCEPT !.budget = b]
  BY <1>2 DEF Doubled
<1>5. g \in Frames /\ g.attempt = f.attempt /\ g.mode = f.mode
  BY <1>3, <1>4 DEF Frames
<1>6. PICK a \in 0 .. MaxRetries : a = f.attempt + 1
  BY <1>1
<1>7. [g EXCEPT !.attempt = a] \in Frames /\ [g EXCEPT !.attempt = a].attempt = a /\ [g EXCEPT !.attempt = a].mode = g.mode
  BY <1>5 DEF Frames
<1> QED
  BY <1>5, <1>6, <1>7

\* What one answer makes of a call.
Retried(s)  == ~LastTry(s) /\ (Again(s, Top(s)) \/ Again(s, Doubled(Top(s))))
FellBack(s) == Top(s).mode = "provider" /\ FallBack(s)
Ended(s)    == Succeed(s) \/ \E code : code # "ok" /\ Fail(s, code)

\* What an answer does: it ends the call, has it retried, or has the schema mode fall back on the JSON mode.
LEMMA AnswerKinds ==
  ASSUME NEW s \in Stages, NEW reply \in Replies, Post(s, reply)
  PROVE  Ended(s) \/ (reply # "deadline" /\ (Retried(s) \/ FellBack(s)))
<1> USE DEF Objects, Unparsed, Empties, CutOff, HttpFails, Valid, Replies
<1>1. OnHttp(s, reply) => Ended(s) \/ Retried(s)
  BY DEF OnHttp, Ended, Retried
<1>2. Transport(s, reply) => Ended(s) \/ (reply # "deadline" /\ Retried(s))
  BY DEF Transport, RetriesTransport, Ended, Retried
<1>3. ParseCode(reply) # "ok"
  BY DEF ParseCode
<1>4. chat_json(s, reply) => Ended(s) \/ (reply # "deadline" /\ Retried(s))
  BY <1>1, <1>2, <1>3 DEF chat_json, Ended, Retried
<1>5. Top(s).mode = "provider" /\ _chat_structured_provider(s, reply)
        => Ended(s) \/ (reply # "deadline" /\ (Retried(s) \/ FellBack(s)))
  BY <1>1, <1>2 DEF _chat_structured_provider, Ended, Retried, FellBack
<1>6. _chat_structured_json_mode(s, reply) => Ended(s) \/ (reply # "deadline" /\ Retried(s))
  BY <1>1, <1>2, <1>3 DEF _chat_structured_json_mode, Ended, Retried
<1>7. stream_chat_json(s, reply) => Ended(s)
  BY <1>3 DEF stream_chat_json, Ended
<1> QED
  BY <1>4, <1>5, <1>6, <1>7 DEF Post

\* What is recorded of a call that ends.
LEMMA RecordsTold ==
  ASSUME NEW s \in Stages, NEW n \in Nat, InCall(frames[s], n), NEW status \in {"ok", "failed"},
         NEW out, out = "ok" <=> status = "ok"
  PROVE  Told(<<>> \o Records(s, status), n + 1, out)
<1>1. CASE \E f \in Frames : frames[s] = <<f>> /\ n = f.attempt
  <2>1. PICK f \in Frames : frames[s] = <<f>> /\ n = f.attempt
    BY <1>1
  <2>2. PICK q : q = [attempts |-> f.attempt + 1, status |-> status]
    OBVIOUS
  <2>3. q \in Record /\ q.attempts = n + 1 /\ q.status = status
    BY <2>1, <2>2 DEF Record, Frames
  <2>4. Reverse(frames[s]) = <<f>>
    BY <2>1 DEF Reverse
  <2>5. Records(s, status) = <<q>>
    BY <2>2, <2>4 DEF Records
  <2>6. <<>> \o <<q>> = <<q>>
    OBVIOUS
  <2> QED
    BY <2>3, <2>5, <2>6 DEF Told
<1>2. CASE \E f \in Frames : \E g \in Frames :
       frames[s] = <<f, g>> /\ f.mode = "provider" /\ g.mode = "json_mode" /\ n = f.attempt + 1 + g.attempt
  <2>1. PICK f \in Frames : \E g \in Frames : frames[s] = <<f, g>> /\ n = f.attempt + 1 + g.attempt
    BY <1>2
  <2>2. PICK g \in Frames : frames[s] = <<f, g>> /\ n = f.attempt + 1 + g.attempt
    BY <2>1
  <2>3. PICK q : q = [attempts |-> g.attempt + 1, status |-> status]
    OBVIOUS
  <2>4. PICK r : r = [attempts |-> f.attempt + 1, status |-> "failed"]
    OBVIOUS
  <2>5. q \in Record /\ r \in Record /\ n + 1 = q.attempts + r.attempts /\ q.status = status /\ r.status = "failed"
    BY <2>2, <2>3, <2>4 DEF Record, Frames
  <2>6. Reverse(frames[s]) = <<g, f>>
    BY <2>2 DEF Reverse
  <2>7. Records(s, status) = <<q, r>>
    BY <2>3, <2>4, <2>6 DEF Records
  <2>8. <<>> \o <<q, r>> = <<q, r>>
    OBVIOUS
  <2> QED
    BY <2>5, <2>7, <2>8 DEF Told
<1> QED
  BY <1>1, <1>2 DEF InCall

\* An answer changes nothing of the other calls.
LEMMA OthersStay ==
  ASSUME Shapes, NEW s \in Stages, NEW reply \in Replies, Post(s, reply)
  PROVE  /\ Shapes' /\ UNCHANGED cached
         /\ \A u \in Stages : u # s /\ FitsAt(u) => FitsAt(u)'
<1>1. Ended(s) \/ Retried(s) \/ FellBack(s)
  BY AnswerKinds
<1>2. /\ UNCHANGED <<cached, setup>>
      /\ posts' = [posts EXCEPT ![s].sent = @ + 1, ![s].closed = IF client[s] = "open" THEN @ ELSE @ + 1]
      /\ client' = [client EXCEPT ![s] = IF reply = "deadline" THEN "closed" ELSE @]
  BY DEF Post
<1>3. /\ DOMAIN frames' = Stages /\ DOMAIN step' = Stages /\ DOMAIN outcome' = Stages /\ DOMAIN observed' = Stages
      /\ \A u \in Stages : u # s => /\ frames'[u] = frames[u] /\ step'[u] = step[u] /\ outcome'[u] = outcome[u]
                                    /\ observed'[u] = observed[u]
  BY <1>1 DEF Ended, Retried, FellBack, Succeed, Fail, Again, FallBack, _observe_llm_call, Shapes
<1>4. \A u \in Stages : u # s => posts'[u] = posts[u] /\ client'[u] = client[u]
  BY <1>2 DEF Shapes
<1> QED
  BY <1>2, <1>3, <1>4 DEF Shapes, FitsAt

\* Whatever a request is answered, its call keeps count.
LEMMA PostKeeps ==
  ASSUME LLMInv, NEW s \in Stages, NEW reply \in Replies, Post(s, reply)
  PROVE  LLMInv'
<1> USE DEF LLMInv
<1>1. /\ step[s] = "calling" /\ posts[s] \in [sent : 0 .. 2 * (MaxRetries + 1), closed : {0}]
      /\ InCall(frames[s], posts[s].sent) /\ observed[s] = <<>> /\ client[s] = "open"
  BY DEF Post, FitsAt, StageFits
<1>2. PICK n \in Nat : n = posts[s].sent /\ n + 1 <= 2 * (MaxRetries + 1)
  BY <1>1 DEF InCall, Frames
<1>3. posts'[s] = [posts[s] EXCEPT !.sent = n + 1]
  BY <1>1, <1>2 DEF Post, Shapes
<1>4. posts'[s] \in [sent : 0 .. 2 * (MaxRetries + 1), closed : {0}] /\ posts'[s].sent = n + 1
  BY <1>1, <1>2, <1>3
<1>5. FitsAt(s)'
  <2>1. CASE Ended(s)
    <3>1. PICK status \in {"ok", "failed"} :
            /\ _observe_llm_call(s, status) /\ frames'[s] = <<>> /\ step'[s] \in {"putting", "done"}
            /\ outcome'[s] = "ok" <=> status = "ok"
      BY <2>1 DEF Ended, Succeed, Fail, Shapes
    <3>2. observed'[s] = <<>> \o Records(s, status)
      BY <1>1, <3>1 DEF _observe_llm_call, Shapes
    <3>3. Told(observed'[s], n + 1, outcome'[s])
      BY <1>1, <1>2, <3>1, <3>2, RecordsTold
    <3> QED
      BY <1>4, <3>1, <3>3 DEF FitsAt, StageFits
  <2>2. ASSUME reply # "deadline", Retried(s) \/ FellBack(s) PROVE FitsAt(s)'
    <3>1. client'[s] = "open" /\ step'[s] = "calling" /\ observed'[s] = <<>>
      BY <1>1, <2>2 DEF Retried, FellBack, Again, FallBack, Post, Shapes
    <3>2. InCall(frames'[s], n + 1)
      <4>1. CASE Retried(s)
        <5>1. PICK g : (g = Top(s) \/ g = Doubled(Top(s)))
                 /\ frames'[s] = [frames[s] EXCEPT ![Len(frames[s])] = [g EXCEPT !.attempt = @ + 1]]
          BY <4>1 DEF Retried, Again, Shapes
        <5>2. PICK h : h = [g EXCEPT !.attempt = @ + 1]
          OBVIOUS
        <5>3. CASE \E f \in Frames : frames[s] = <<f>> /\ n = f.attempt
          <6>1. PICK f \in Frames : frames[s] = <<f>> /\ n = f.attempt
            BY <5>3
          <6>2. Top(s) = f /\ f.attempt # MaxRetries
            BY <6>1, <4>1 DEF Top, Last, Retried, LastTry
          <6>3. h \in Frames /\ h.attempt = n + 1
            BY <5>1, <5>2, <6>1, <6>2, NextAttempt
          <6>4. frames'[s] = <<h>>
            BY <5>1, <5>2, <6>1
          <6> QED
            BY <6>3, <6>4 DEF InCall
        <5>4. CASE \E f \in Frames : \E e \in Frames :
                 frames[s] = <<f, e>> /\ f.mode = "provider" /\ e.mode = "json_mode" /\ n = f.attempt + 1 + e.attempt
          <6>1. PICK f \in Frames : \E e \in Frames :
                 frames[s] = <<f, e>> /\ f.mode = "provider" /\ e.mode = "json_mode" /\ n = f.attempt + 1 + e.attempt
            BY <5>4
          <6>2. PICK e \in Frames :
                 frames[s] = <<f, e>> /\ f.mode = "provider" /\ e.mode = "json_mode" /\ n = f.attempt + 1 + e.attempt
            BY <6>1
          <6>3. Top(s) = e /\ e.attempt # MaxRetries
            BY <6>2, <4>1 DEF Top, Last, Retried, LastTry
          <6>4. h \in Frames /\ h.attempt = e.attempt + 1 /\ h.mode = "json_mode"
            BY <5>1, <5>2, <6>2, <6>3, NextAttempt
          <6>5. frames'[s] = <<f, h>>
            BY <5>1, <5>2, <6>2
          <6>6. n + 1 = f.attempt + 1 + h.attempt
            BY <6>2, <6>4 DEF Frames
          <6> QED
            BY <6>2, <6>4, <6>5, <6>6 DEF InCall
        <5> QED
          BY <1>1, <1>2, <5>3, <5>4 DEF InCall
      <4>2. CASE FellBack(s)
        <5>1. PICK f \in Frames : frames[s] = <<f>> /\ n = f.attempt /\ f.mode = "provider"
          <6>1. CASE \E f \in Frames : frames[s] = <<f>> /\ n = f.attempt
            BY <4>2, <6>1 DEF FellBack, Top, Last
          <6>2. CASE \E f \in Frames : \E e \in Frames : frames[s] = <<f, e>> /\ e.mode = "json_mode"
            BY <4>2, <6>2 DEF FellBack, Top, Last
          <6> QED
            BY <1>1, <1>2, <6>1, <6>2 DEF InCall
        <5>2. frames'[s] = Append(<<f>>, Frame("json_mode"))
          BY <4>2, <5>1 DEF FellBack, FallBack, Shapes
        <5>3. PICK g \in Frames : g = Frame("json_mode") /\ g.attempt = 0 /\ g.mode = "json_mode"
          BY FrameTyped DEF Modes
        <5>4. frames'[s] = <<f, g>>
          <6>1. frames'[s] = Append(<<f>>, g)
            BY <5>2, <5>3
          <6> QED
            BY <6>1, AppendToOne
        <5>5. n + 1 = f.attempt + 1 + g.attempt
          BY <5>1, <5>3
        <5> QED
          BY <5>1, <5>3, <5>4, <5>5 DEF InCall
      <4> QED
        BY <2>2, <4>1, <4>2
    <3> QED
      BY <1>4, <3>1, <3>2 DEF FitsAt, StageFits
  <2> QED
    BY <2>1, <2>2, AnswerKinds
<1> QED
  BY <1>5, OthersStay DEF CacheFits

\* Every step of every call keeps the invariant.
LEMMA LLMKeep == ASSUME LLMInv, [LLMNext]_llmVars PROVE LLMInv'
<1> USE DEF LLMInv
<1>1. ASSUME NEW s \in Stages, CacheGet(s) PROVE LLMInv'
  <2>1. Shapes' /\ UNCHANGED <<cached, client, posts, observed>>
        /\ \A u \in Stages : u # s => frames'[u] = frames[u] /\ step'[u] = step[u] /\ outcome'[u] = outcome[u]
    BY <1>1 DEF CacheGet, Shapes
  <2>2. step[s] = "start" /\ frames[s] = <<>> /\ observed[s] = <<>> /\ posts[s].sent = 0 /\ client[s] = "open"
    BY <1>1 DEF CacheGet, FitsAt, StageFits
  <2>3. FitsAt(s)'
    <3>1. CASE Hit(s)
      <4>1. step'[s] = "done" /\ frames'[s] = <<>>
        BY <1>1, <2>2, <3>1 DEF CacheGet, Shapes
      <4> QED
        BY <2>1, <2>2, <4>1 DEF FitsAt, StageFits, Told
    <3>2. CASE ~Hit(s)
      <4>1. step'[s] = "calling" /\ frames'[s] = <<Frame(setup[s].entry)>>
        BY <1>1, <3>2 DEF CacheGet, Shapes
      <4>2. InCall(frames'[s], 0)
        BY <4>1, FrameTyped DEF Shapes, InCall
      <4> QED
        BY <2>1, <2>2, <4>1, <4>2 DEF FitsAt, StageFits
    <3> QED
      BY <3>1, <3>2
  <2> QED
    BY <2>1, <2>3 DEF FitsAt, CacheFits
<1>2. ASSUME NEW s \in Stages, CachePut(s) PROVE LLMInv'
  <2>1. Shapes' /\ UNCHANGED <<frames, outcome, client, posts, observed>>
        /\ \A u \in Stages : u # s => step'[u] = step[u]
    BY <1>2 DEF CachePut, Shapes
  <2>2. step[s] = "putting" /\ step'[s] = "done"
    BY <1>2 DEF CachePut, Shapes
  <2>3. CacheFits'
    BY <1>2 DEF CachePut, CacheFits
  <2> QED
    BY <2>1, <2>2, <2>3 DEF FitsAt, StageFits
<1>3. ASSUME NEW k \in DOMAIN cached, CacheExpire(k) PROVE LLMInv'
  BY <1>3 DEF CacheExpire, CacheFits, Shapes, FitsAt
<1>4. CASE UNCHANGED llmVars
  BY <1>4 DEF llmVars, CacheFits, Shapes, FitsAt
<1> QED
  BY <1>1, <1>2, <1>3, <1>4, PostKeeps DEF LLMNext

-----------------------------------------------------------------------------

\* The invariant holds of any calls, however their requests are answered (engine/llm.py).
THEOREM LLMInvariance == LLMSpec => []LLMInv
BY LLMStart, LLMKeep, PTL DEF LLMSpec

\* The variables keep their types; what a cache entry holds was computed for its key.
THEOREM LLMTypes == LLMSpec => []LLMTypeOK
<1>1. LLMInv => LLMTypeOK
  <2> SUFFICES ASSUME LLMInv PROVE LLMTypeOK
    OBVIOUS
  <2>1. ASSUME NEW s \in Stages
        PROVE /\ Len(frames[s]) <= 2 /\ (step[s] = "calling") = (frames[s] # <<>>)
              /\ \A k \in DOMAIN frames[s] : frames[s][k].attempt <= MaxRetries /\ frames[s][k].budget <= TokenCap
              /\ posts[s].sent <= 2 * (MaxRetries + 1)
    <3>1. StageFits(frames[s], step[s], outcome[s], client[s], posts[s], observed[s])
      BY DEF LLMInv, FitsAt
    <3>2. CASE step[s] # "calling"
      BY <3>1, <3>2 DEF StageFits
    <3>3. CASE step[s] = "calling"
      <4>1. CASE \E f \in Frames : frames[s] = <<f>>
        BY <3>1, <3>3, <4>1 DEF StageFits, Frames
      <4>2. CASE \E f \in Frames : \E g \in Frames : frames[s] = <<f, g>>
        BY <3>1, <3>3, <4>2 DEF StageFits, Frames
      <4> QED
        BY <3>1, <3>3, <4>1, <4>2 DEF StageFits, InCall
    <3> QED
      BY <3>2, <3>3
  <2> QED
    BY <2>1 DEF LLMTypeOK, LLMInv, CacheFits
<1> QED
  BY <1>1, LLMInvariance, PTL

\* However the requests are answered, none is sent through a client that its deadline has closed
\* (_post_with_deadline, engine/llm.py:433-489).
THEOREM DeadlinesEnd == LLMSpec => []DeadlineEndsTheCall
<1>1. LLMInv => DeadlineEndsTheCall
  BY DEF LLMInv, FitsAt, StageFits, DeadlineEndsTheCall
<1> QED
  BY <1>1, LLMInvariance, PTL

\* What a call that is over has recorded adds up to the requests it sent, for any number of retries and
\* across the fallback (engine/llm.py:505-1038).
THEOREM AccountsAdd == LLMSpec => []CallsAreAccounted
<1>1. LLMInv => CallsAreAccounted
  <2> SUFFICES ASSUME LLMInv, NEW s \in Stages, frames[s] = <<>>
               PROVE  /\ posts[s].sent = Attempts(observed[s])
                      /\ posts[s].sent > 0 =>
                           (outcome[s] = "ok")
                             = (Cardinality({k \in DOMAIN observed[s] : observed[s][k].status = "ok"}) = 1)
    BY DEF CallsAreAccounted, Attempts
  <2>1. StageFits(frames[s], step[s], outcome[s], client[s], posts[s], observed[s])
    BY DEF LLMInv, FitsAt
  <2>2. Told(observed[s], posts[s].sent, outcome[s])
    BY <2>1 DEF StageFits, Told, InCall
  <2>3. CASE observed[s] = <<>> /\ posts[s].sent = 0
    <3>1. DOMAIN observed[s] = {}
      BY <2>3
    <3> QED
      BY <2>3, <3>1, NoneAttempted
  <2>4. CASE \E q \in Record : observed[s] = <<q>> /\ posts[s].sent = q.attempts
                               /\ (outcome[s] = "ok" <=> q.status = "ok")
    <3>1. PICK q \in Record : observed[s] = <<q>> /\ posts[s].sent = q.attempts
                               /\ (outcome[s] = "ok" <=> q.status = "ok")
      BY <2>4
    <3>2. Attempts(observed[s]) = q.attempts
      <4>1. q.attempts \in Nat /\ DOMAIN observed[s] = {1} /\ observed[s][1] = q
        BY <3>1 DEF Record
      <4> QED
        BY <4>1, OnceAttempted
    <3>3. {k \in DOMAIN observed[s] : observed[s][k].status = "ok"} = IF q.status = "ok" THEN {1} ELSE {}
      BY <3>1
    <3> DEFINE O == {k \in DOMAIN observed[s] : observed[s][k].status = "ok"}
    <3>a. Cardinality({}) = 0 /\ Cardinality({1}) = 1
      BY FS_EmptySet, FS_Singleton
    <3>b. (q.status = "ok") <=> (Cardinality(O) = 1)
      <4>1. CASE q.status = "ok"
        <5>1. O = {1}
          BY <3>3, <4>1
        <5> QED
          BY <3>a, <4>1, <5>1
      <4>2. CASE q.status # "ok"
        <5>1. O = {}
          BY <3>3, <4>2
        <5>2. Cardinality(O) = 0
          BY <3>a, <5>1
        <5> QED
          BY <4>2, <5>2
      <4> QED
        BY <4>1, <4>2
    <3>c. (outcome[s] = "ok") = (Cardinality(O) = 1)
      BY <3>b, <3>1
    <3> QED
      BY <3>c, <3>1, <3>2
  <2>5. CASE \E q \in Record : \E r \in Record :
               /\ observed[s] = <<q, r>> /\ posts[s].sent = q.attempts + r.attempts
               /\ r.status = "failed" /\ (outcome[s] = "ok" <=> q.status = "ok")
    <3>1. PICK q \in Record : \E r \in Record :
               /\ observed[s] = <<q, r>> /\ posts[s].sent = q.attempts + r.attempts
               /\ r.status = "failed" /\ (outcome[s] = "ok" <=> q.status = "ok")
      BY <2>5
    <3>2. PICK r \in Record :
               /\ observed[s] = <<q, r>> /\ posts[s].sent = q.attempts + r.attempts
               /\ r.status = "failed" /\ (outcome[s] = "ok" <=> q.status = "ok")
      BY <3>1
    <3>3. Attempts(observed[s]) = q.attempts + r.attempts
      <4>1. /\ q.attempts \in Nat /\ r.attempts \in Nat
            /\ DOMAIN observed[s] = {1, 2} /\ observed[s][1] = q /\ observed[s][2] = r
        BY <3>2 DEF Record
      <4> QED
        BY <4>1, TwiceAttempted
    <3>4. {k \in DOMAIN observed[s] : observed[s][k].status = "ok"} = IF q.status = "ok" THEN {1} ELSE {}
      BY <3>2
    <3> DEFINE O == {k \in DOMAIN observed[s] : observed[s][k].status = "ok"}
    <3>a. Cardinality({}) = 0 /\ Cardinality({1}) = 1
      BY FS_EmptySet, FS_Singleton
    <3>b. (q.status = "ok") <=> (Cardinality(O) = 1)
      <4>1. CASE q.status = "ok"
        <5>1. O = {1}
          BY <3>4, <4>1
        <5> QED
          BY <3>a, <4>1, <5>1
      <4>2. CASE q.status # "ok"
        <5>1. O = {}
          BY <3>4, <4>2
        <5>2. Cardinality(O) = 0
          BY <3>a, <5>1
        <5> QED
          BY <4>2, <5>2
      <4> QED
        BY <4>1, <4>2
    <3>c. (outcome[s] = "ok") = (Cardinality(O) = 1)
      BY <3>b, <3>2
    <3> QED
      BY <3>c, <3>2, <3>3
  <2> QED
    BY <2>2, <2>3, <2>4, <2>5 DEF Told
<1> QED
  BY <1>1, LLMInvariance, PTL

HIDE LLMAssumption

-----------------------------------------------------------------------------
(* The pipeline: the inductive invariant *)

Diffs == [id : Nat, section : Sections, type : {"add", "modify", "remove"}, span : {"line", "section"},
          original : Texts, proposed : Texts,
          state : {"verified", "missing", "pending_review", "fabricated"}]

Products == [by : {"none", "whole", "bullets"}, sections : Seq(Units), diffs : Seq(Diffs),
             invalid : Seq(Diffs), noSafe : BOOLEAN, degraded : BOOLEAN]

Advices == [status : {"running", "succeeded", "failed"},
            reason : {"none", "no_safe_rewrite", "model_failed", "no_gap"},
            diffs : Seq(Diffs), invalid : Seq(Diffs), usable : Nat, draft : Seq(Units)]

AskSteps == [step : {"start", "done"}] \cup
            [step : {"asked"}, diff : Diffs, diffs : Seq(Diffs), invalid : Seq(Diffs)]

Phases == {"diagnose", "both", "bothFailing", "profile", "gap", "edit", "whole", "map", "derive",
           "evaluate", "persist", "saved", "failed"}

\* What a rewrite of bullet i is: of that bullet, and unsupported by it only when marked so.
RewriteFits(i, d) ==
  /\ d \in Diffs /\ d.id = i /\ d.original = doc[i].text /\ d.span = "line" /\ d.type = "modify"
  /\ d.state # "fabricated" => d.proposed.says \subseteq d.original.says

EditorTyped ==
  /\ doc \in Docs /\ plan \in Plans /\ phase \in Phases
  /\ DOMAIN rewrites \subseteq Bullets /\ \A i \in DOMAIN rewrites : RewriteFits(i, rewrites[i])
  /\ product \in Products /\ advice \in Advices
  /\ held \in Seq(Diffs) \cup {Gone} /\ asks \in [Rewriters -> AskSteps]

\* What is still empty, and that the bullet editor has a bullet.
PhasesFit ==
  /\ phase \in {"diagnose", "both", "bothFailing", "profile", "gap", "edit", "map", "whole"} =>
       product.by = "none" /\ product.diffs = <<>> /\ product.invalid = <<>>
  /\ phase # "saved" =>
       /\ advice.diffs = <<>> /\ advice.usable = 0 /\ held = Gone
       /\ accepted = [draft |-> <<>>, used |-> {}]
       /\ \A c \in Rewriters : asks[c].step = "start"
  /\ phase = "map" => Bullets # {}

Allowed == DocSays \cup _gap_support_text
Grounded(d) == d.span = "line" => d.proposed.says \subseteq Allowed \cup d.original.says
AllGrounded(s) == \A k \in DOMAIN s : Grounded(s[k])

\* Every list of usable diffs is grounded, also the one a rewrite request has read.
ListsGrounded ==
  /\ AllGrounded(product.diffs) /\ AllGrounded(advice.diffs)
  /\ held # Gone => AllGrounded(held)
  /\ \A c \in Rewriters : asks[c].step = "asked" => AllGrounded(asks[c].diffs)

DraftGrounded ==
  (\A d \in accepted.used : d.span = "line" /\ d.type # "add") =>
    \A i \in DOMAIN accepted.draft : accepted.draft[i].text.says \subseteq Allowed

UsableCounts == advice.usable \in 0 .. Len(product.diffs)

EditorInv ==
  EditorTyped /\ PhasesFit /\ ListsGrounded /\ DraftGrounded /\ UsableCounts /\ RefusedKeepsItsWords

USE EditorAssumption

-----------------------------------------------------------------------------

\* The empty text says nothing.
LEMMA NoTextTyped == NoText \in Texts /\ NoText.says = {}
BY DEF NoText, Texts

\* The units of a resume, their texts and what they say.
LEMMA DocTyped ==
  ASSUME doc \in Docs
  PROVE  /\ doc \in Seq(Units) /\ DOMAIN doc \subseteq Nat /\ DOMAIN doc = 1 .. Len(doc) /\ Len(doc) \in Nat
         /\ Bullets \subseteq DOMAIN doc
         /\ \A i \in DOMAIN doc : doc[i] \in Units /\ doc[i].text \in Texts /\ doc[i].section \in Sections
                                  /\ doc[i].text.says \subseteq Terms /\ doc[i].text.says \subseteq DocSays
<1>1. doc \in Seq(Units)
  OBVIOUS
<1>2. \A i \in DOMAIN doc : doc[i] \in Units
  BY <1>1
<1> QED
  BY <1>1, <1>2 DEF Units, Texts, Bullets, DocSays

\* At first nothing is offered.
LEMMA EditorStarts == ASSUME EditorInit PROVE EditorInv
<1>1. product \in Products /\ product.by = "none" /\ product.diffs = <<>> /\ product.invalid = <<>>
  BY DEF EditorInit, Products
<1>2. advice \in Advices /\ advice.diffs = <<>> /\ advice.usable = 0
  BY DEF EditorInit, Advices
<1>3. asks \in [Rewriters -> AskSteps] /\ \A c \in Rewriters : asks[c].step = "start"
  BY DEF EditorInit, AskSteps
<1>4. DOMAIN rewrites = {} /\ Len(product.diffs) = 0 /\ DOMAIN product.diffs = {}
  BY <1>1 DEF EditorInit
<1>5. EditorTyped
  BY <1>1, <1>2, <1>3, <1>4 DEF EditorInit, EditorTyped, Phases
<1>6. PhasesFit
  BY <1>1, <1>2, <1>3 DEF EditorInit, PhasesFit
<1>7. ListsGrounded
  BY <1>1, <1>2, <1>3, <1>4 DEF EditorInit, ListsGrounded, AllGrounded
<1>8. DraftGrounded
  <2>1. accepted.draft = <<>>
    BY DEF EditorInit
  <2> QED
    BY <2>1 DEF DraftGrounded
<1>9. UsableCounts /\ RefusedKeepsItsWords
  BY <1>1, <1>2, <1>4 DEF UsableCounts, RefusedKeepsItsWords
<1> QED
  BY <1>5, <1>6, <1>7, <1>8, <1>9 DEF EditorInv

\* What the definitions of doc and gap say does not change when these do not.
LEMMA SameAllowed ==
  ASSUME UNCHANGED <<doc, gap>>
  PROVE  /\ Bullets' = Bullets /\ DocSays' = DocSays /\ Allowed' = Allowed
         /\ \A d : Grounded(d)' <=> Grounded(d)
         /\ \A s : AllGrounded(s)' <=> AllGrounded(s)
         /\ \A i, d : RewriteFits(i, d)' <=> RewriteFits(i, d)
BY DEF Bullets, DocSays, Allowed, Grounded, AllGrounded, RewriteFits, _gap_support_text, KeptSupported,
       Anchored

-----------------------------------------------------------------------------
\* The stages before the editor
LEMMA EarlyKeep ==
  ASSUME EditorInv, Diagnose \/ Profile \/ AnalyzeGaps \/ StartEditor \/ (\E s \in {"diagnose", "profile"} : PoolTask(s))
  PROVE  EditorInv'
<1>1. /\ UNCHANGED <<doc, plan, rewrites, verdict, advice, held, asks, accepted>>
      /\ phase \in {"diagnose", "both", "bothFailing", "profile", "gap", "edit"} /\ phase' \in Phases \ {"saved"}
  BY DEF Diagnose, Profile, AnalyzeGaps, StartEditor, PoolTask, Phases
<1>2. \/ UNCHANGED product
      \/ /\ product' = [product EXCEPT !.noSafe = TRUE] /\ phase' = "derive"
  BY DEF Diagnose, Profile, AnalyzeGaps, StartEditor, PoolTask
<1>3. product.by = "none" /\ product.diffs = <<>> /\ product.invalid = <<>> /\ product \in Products
  BY <1>1 DEF EditorInv, PhasesFit, EditorTyped
<1>4. product'.by = "none" /\ product'.diffs = <<>> /\ product'.invalid = <<>> /\ product' \in Products
  BY <1>2, <1>3 DEF Products
<1>5. phase' = "map" => Bullets # {}
  BY DEF Diagnose, Profile, AnalyzeGaps, StartEditor, PoolTask
<1>6. Bullets' = Bullets /\ \A i, d : RewriteFits(i, d)' <=> RewriteFits(i, d)
  BY <1>1 DEF Bullets, RewriteFits
<1>7. EditorTyped'
  BY <1>1, <1>4, <1>6 DEF EditorInv, EditorTyped
<1>8. PhasesFit'
  BY <1>1, <1>4, <1>5, <1>6 DEF EditorInv, PhasesFit
<1>9. advice'.diffs = <<>> /\ held' = Gone /\ accepted'.draft = <<>> /\ advice'.usable = 0
      /\ \A c \in Rewriters : asks'[c].step = "start"
  BY <1>1 DEF EditorInv, PhasesFit
<1>10. ListsGrounded'
  BY <1>4, <1>9 DEF ListsGrounded, AllGrounded
<1>11. DraftGrounded'
  BY <1>9 DEF DraftGrounded
<1>12. UsableCounts' /\ RefusedKeepsItsWords'
  BY <1>4, <1>9 DEF UsableCounts, RefusedKeepsItsWords
<1> QED
  BY <1>7, <1>8, <1>10, <1>11, <1>12 DEF EditorInv

-----------------------------------------------------------------------------
\* The whole-document editor
LEMMA ParsedFits ==
  ASSUME doc \in Docs, NEW k \in Nat, NEW item \in Items,
         item.quote = "close" => item.at \in DOMAIN doc
  PROVE  parse_diff_with_provenance(k, item) \in Diffs
<1>1. PICK found : found = IF item.quote # "absent" \/ item.type = "add" \/ item.original = NoText
                           THEN item.quote ELSE IF InDoc(item.original) THEN "found" ELSE "lost"
  OBVIOUS
<1>2. PICK original : original = IF found = "close" /\ item.type # "add" THEN doc[item.at].text ELSE item.original
  OBVIOUS
<1>3. PICK state : state = IF found \in {"found", "close"} THEN "verified"
                           ELSE IF found = "lost" \/ (item.type = "add" /\ item.original = NoText) THEN "missing"
                           ELSE "pending_review"
  OBVIOUS
<1>4. parse_diff_with_provenance(k, item) =
        [id |-> k, section |-> item.section, type |-> item.type, span |-> "line", original |-> original,
         proposed |-> item.proposed, state |-> state]
  BY <1>1, <1>2, <1>3, Zenon DEF parse_diff_with_provenance
<1>5. /\ item.section \in Sections /\ item.type \in {"add", "modify", "remove"} /\ item.original \in Texts
      /\ item.proposed \in Texts /\ item.quote \in {"found", "close", "lost", "absent"}
  BY DEF Items
<1>6. found = "close" => item.at \in DOMAIN doc
  BY <1>1, <1>5
<1>7. original \in Texts
  BY <1>2, <1>5, <1>6, DocTyped
<1>8. state \in {"verified", "missing", "pending_review"}
  BY <1>3
<1> QED
  BY <1>4, <1>5, <1>7, <1>8 DEF Diffs

\* A blocked diff is a diff.
LEMMA BlockedFits == \A d \in Diffs : Blocked(d) \in Diffs
BY DEF Blocked, Diffs

\* A diff whose content passes is grounded.
LEMMA PassesGrounded ==
  ASSUME doc \in Docs, NEW d \in Diffs, ContentPasses(d)
  PROVE  Grounded(d)
<1>1. CASE d.proposed = NoText
  BY <1>1, NoTextTyped DEF Grounded
<1>2. CASE ~_unsupported_content(d.proposed, DocSays \union d.original.says \union _gap_support_text)
  BY <1>2 DEF _unsupported_content, Grounded, Allowed
<1> QED
  BY <1>1, <1>2 DEF ContentPasses

\* A sequence made element by element.
LEMMA MapIn ==
  ASSUME NEW S, NEW s \in Seq(S), NEW G, NEW D, \A k \in DOMAIN s : G[k] \in D
  PROVE  [k \in DOMAIN s |-> G[k]] \in Seq(D)
<1>1. PICK l \in Nat : l = Len(s) /\ DOMAIN s = 1 .. l
  OBVIOUS
<1> QED
  BY <1>1

\* What the gates of the whole-document editor let through is grounded (gate_diff_items, tailor.py:640-702).
LEMMA GateKeeps ==
  ASSUME doc \in Docs, NEW items \in Seq(Items),
         \A k \in DOMAIN items : items[k].quote = "close" => items[k].at \in DOMAIN doc
  PROVE  /\ gate_diff_items(items).diffs \in Seq(Diffs) /\ AllGrounded(gate_diff_items(items).diffs)
         /\ gate_diff_items(items).invalid \in Seq(Diffs)
<1> DEFINE parsed == [k \in DOMAIN items |-> parse_diff_with_provenance(k, items[k])]
           empty(d) == d.type = "add" /\ d.original = NoText
           passes(d) == ~empty(d) /\ ContentPasses(d) /\ (d.state = "verified" \/ ~plan.strict)
           refused(d) == ~passes(d) \/ d.state # "verified"
           marked == [k \in DOMAIN parsed |-> IF empty(parsed[k]) \/ ContentPasses(parsed[k])
                                              THEN parsed[k] ELSE Blocked(parsed[k])]
           grown(d) == _skills_entry_growth(d) \/ _missing_keyword_violation(d)
           A == {x \in {parsed[k] : k \in DOMAIN parsed} : passes(x)}
           through == Where(parsed, A)
           B == {x \in {through[k] : k \in DOMAIN through} : ~grown(x)}
           C == {x \in {through[k] : k \in DOMAIN through} : grown(x)}
           M == {x \in {marked[k] : k \in DOMAIN marked} : refused(parsed[x.id])}
           tail == Where(through, C)
<1>1. PICK l \in Nat : l = Len(items) /\ DOMAIN items = 1 .. l
  OBVIOUS
<1>2. \A k \in 1 .. l : parse_diff_with_provenance(k, items[k]) \in Diffs
  <2>1. \A k \in 1 .. l : k \in Nat /\ items[k] \in Items /\ (items[k].quote = "close" => items[k].at \in DOMAIN doc)
    BY <1>1
  <2> QED
    BY <2>1, ParsedFits
<1>3. parsed \in Seq(Diffs) /\ DOMAIN parsed = 1 .. l /\ \A k \in 1 .. l : parsed[k] \in Diffs
  BY <1>1, <1>2
<1>4. marked \in Seq(Diffs)
  <2> HIDE DEF parsed, empty
  <2>1. \A k \in 1 .. l : (IF empty(parsed[k]) \/ ContentPasses(parsed[k]) THEN parsed[k] ELSE Blocked(parsed[k])) \in Diffs
    BY <1>3, BlockedFits
  <2> QED
    BY <1>3, <2>1
<1>5. through \in Seq(Diffs) /\ \A j \in DOMAIN through : through[j] \in Diffs /\ through[j] \in A
  <2> HIDE DEF parsed, A
  <2> QED
    BY <1>3, WhereIn
<1>6. \A j \in DOMAIN through : Grounded(through[j])
  <2>1. \A x \in A : ContentPasses(x)
    OBVIOUS
  <2> HIDE DEF through, A
  <2> QED
    BY <1>5, <2>1, PassesGrounded
<1>7. Where(through, B) \in Seq(Diffs) /\ \A j \in DOMAIN Where(through, B) : Where(through, B)[j] \in B
  <2> HIDE DEF through, B
  <2> QED
    BY <1>5, WhereIn
<1>8. AllGrounded(Where(through, B))
  <2>1. \A x \in B : Grounded(x)
    <3> HIDE DEF through, grown
    <3> QED
      BY <1>6
  <2> HIDE DEF through, B
  <2> QED
    BY <1>7, <2>1 DEF AllGrounded
<1>9. tail \in Seq(Diffs) /\ \A j \in DOMAIN tail : tail[j] \in Diffs
  <2> HIDE DEF through, C
  <2> QED
    BY <1>5, WhereIn
<1>10. [k \in DOMAIN tail |-> Blocked(tail[k])] \in Seq(Diffs)
  <2> HIDE DEF tail
  <2> QED
    BY <1>9, BlockedFits
<1>11. Where(marked, M) \in Seq(Diffs)
  <2> HIDE DEF marked, M
  <2> QED
    BY <1>4, WhereIn
<1>12. gate_diff_items(items) =
         [diffs |-> Where(through, B),
          invalid |-> Where(marked, M) \o [k \in DOMAIN tail |-> Blocked(tail[k])]]
  BY Zenon DEF gate_diff_items, Select
<1> HIDE DEF through, B, marked, M, tail
<1>13. Where(marked, M) \o [k \in DOMAIN tail |-> Blocked(tail[k])] \in Seq(Diffs)
  BY <1>10, <1>11
<1> QED
  BY <1>7, <1>8, <1>12, <1>13

\* A step of the run that changes what is produced and nothing that is saved.
LEMMA ProduceKeep ==
  ASSUME EditorInv, UNCHANGED <<doc, plan, gap, rewrites, advice, held, asks, accepted>>,
         phase # "saved", phase' \in {"whole", "derive", "evaluate", "persist", "failed"},
         product' \in Products, AllGrounded(product'.diffs), RefusedKeepsItsWords',
         phase' = "whole" => product'.by = "none" /\ product'.diffs = <<>> /\ product'.invalid = <<>>
  PROVE  EditorInv'
<1>1. /\ Bullets' = Bullets /\ \A i, d : RewriteFits(i, d)' <=> RewriteFits(i, d)
      /\ \A s : AllGrounded(s)' <=> AllGrounded(s)
  BY SameAllowed
<1>2. EditorTyped'
  BY <1>1 DEF EditorInv, EditorTyped, Phases
<1>3. PhasesFit'
  BY <1>1 DEF EditorInv, PhasesFit
<1>4. AllGrounded(product.diffs)'
  BY <1>1
<1>5. advice'.diffs = <<>> /\ held' = Gone /\ accepted'.draft = <<>> /\ advice'.usable = 0
      /\ \A c \in Rewriters : asks'[c].step = "start"
  BY DEF EditorInv, PhasesFit
<1>6. AllGrounded(advice.diffs)'
  BY <1>5 DEF AllGrounded
<1>7. ListsGrounded'
  BY <1>4, <1>5, <1>6 DEF ListsGrounded
<1>8. DraftGrounded'
  BY <1>5 DEF DraftGrounded
<1>9. UsableCounts'
  <2>1. product'.diffs \in Seq(Diffs)
    BY DEF Products
  <2>2. Len(product'.diffs) \in Nat
    BY <2>1
  <2> QED
    BY <1>5, <2>2 DEF UsableCounts
<1> QED
  BY <1>2, <1>3, <1>7, <1>8, <1>9 DEF EditorInv

\* The whole-document editor keeps the invariant.
LEMMA TailorKeep == ASSUME EditorInv, tailor_resume PROVE EditorInv'
<1>1. /\ UNCHANGED <<doc, plan, gap, rewrites, advice, held, asks, accepted>>
      /\ phase = "whole" /\ phase' \in {"derive", "failed"}
  BY DEF tailor_resume
<1>2. product.by = "none" /\ product.diffs = <<>> /\ product.invalid = <<>> /\ product \in Products /\ doc \in Docs
  BY <1>1 DEF EditorInv, PhasesFit, EditorTyped
<1>3. CASE \E answer \in Answers :
             product' = [product EXCEPT !.by = "whole", !.sections = answer.sections,
                                        !.diffs = gate_diff_items(answer.items).diffs,
                                        !.invalid = gate_diff_items(answer.items).invalid]
  <2>1. PICK answer \in Answers :
             product' = [product EXCEPT !.by = "whole", !.sections = answer.sections,
                                        !.diffs = gate_diff_items(answer.items).diffs,
                                        !.invalid = gate_diff_items(answer.items).invalid]
    BY <1>3
  <2>2. /\ answer.items \in Seq(Items) /\ answer.sections \in Seq(Units)
        /\ \A k \in DOMAIN answer.items : answer.items[k].quote = "close" => answer.items[k].at \in DOMAIN doc
    BY <1>2, <2>1
  <2>3. PICK diffs \in Seq(Diffs), invalid \in Seq(Diffs) :
          gate_diff_items(answer.items).diffs = diffs /\ gate_diff_items(answer.items).invalid = invalid
          /\ AllGrounded(diffs)
    BY <1>2, <2>2, GateKeeps
  <2>4. product' = [product EXCEPT !.by = "whole", !.sections = answer.sections, !.diffs = diffs, !.invalid = invalid]
    BY <2>1, <2>3
  <2>5. product' \in Products /\ product'.by = "whole" /\ product'.diffs = diffs
    BY <1>2, <2>2, <2>3, <2>4 DEF Products
  <2>6. RefusedKeepsItsWords'
    BY <2>5 DEF RefusedKeepsItsWords
  <2> QED
    BY <1>1, <2>3, <2>5, <2>6, ProduceKeep
<1>4. CASE product' = product \/ product' = [product EXCEPT !.noSafe = TRUE]
           \/ product' = [product EXCEPT !.degraded = TRUE]
  <2>1. product' \in Products /\ product'.by = "none" /\ product'.diffs = <<>> /\ product'.invalid = <<>>
    BY <1>2, <1>4 DEF Products
  <2>2. RefusedKeepsItsWords' /\ AllGrounded(product'.diffs)
    BY <2>1 DEF RefusedKeepsItsWords, AllGrounded
  <2> QED
    BY <1>1, <2>1, <2>2, ProduceKeep
<1> QED
  BY <1>3, <1>4 DEF tailor_resume

-----------------------------------------------------------------------------
\* The bullet editor
LEMMA RewrittenFits ==
  ASSUME NEW original \in Texts, NEW section \in Sections, NEW proposed \in Texts
  PROVE  LET d == Rewritten(original, section, proposed) IN
         /\ d \in Diffs /\ d.id = 0 /\ d.original = original /\ d.span = "line" /\ d.type = "modify"
         /\ d.state \in {"verified", "fabricated"}
         /\ d.state # "fabricated" => d.proposed.says \subseteq d.original.says
BY DEF Rewritten, Diffs, _unsupported_content

\* Only bullets are rewritten, also when it is the first one for want of a related one.
LEMMA TargetsIn == ASSUME doc \in Docs, Bullets # {} PROVE Targets \subseteq Bullets
<1>1. Bullets \in SUBSET Nat
  BY DocTyped
<1> DEFINE T == {s \in {Preferred[k] : k \in DOMAIN Preferred} : \E i \in Bullets : doc[i].section = s}
           names == Where(Preferred, T)
           S == IF names = <<>> THEN Bullets ELSE {i \in Bullets : doc[i].section = names[1]}
<1>2. names \in Seq(Sections) /\ \A j \in DOMAIN names : names[j] \in T
  <2> HIDE DEF T
  <2> QED
    BY WhereIn
<1>3. names # <<>> => 1 \in DOMAIN names
  <2> HIDE DEF names
  <2> QED
    BY <1>2
<1>4. S # {} /\ S \subseteq Bullets
  <2> HIDE DEF names
  <2> QED
    BY <1>2, <1>3
<1>5. Min(S) \in S
  <2> HIDE DEF S
  <2> QED
    BY <1>1, <1>4, LeastIsIn
<1>6. FirstBullet = Min(S)
  BY DEF FirstBullet, Select
<1> HIDE DEF S
<1> QED
  BY <1>4, <1>5, <1>6 DEF Targets

\* A bullet's rewrite keeps the invariant, in whatever order the pool makes them.
LEMMA RewriteKeep == ASSUME EditorInv, NEW i \in DOMAIN doc, _try_rewrite_bullet(i) PROVE EditorInv'
<1>1. /\ UNCHANGED <<doc, plan, phase, gap, product, advice, held, asks, accepted>> /\ phase = "map"
      /\ i \in Workable
  BY DEF _try_rewrite_bullet
<1>2. doc \in Docs /\ Bullets # {}
  BY <1>1 DEF EditorInv, EditorTyped, PhasesFit
<1>3. i \in Bullets /\ doc[i].text \in Texts /\ doc[i].section \in Sections /\ i \in Nat
  BY <1>1, <1>2, TargetsIn, DocTyped DEF Workable, Pending
<1>4. PICK proposed \in Texts :
        rewrites' = [k \in DOMAIN rewrites \union {i} |->
                       IF k = i THEN [Rewritten(doc[i].text, doc[i].section, proposed) EXCEPT !.id = i]
                                ELSE rewrites[k]]
  BY NoTextTyped DEF _try_rewrite_bullet
<1>5. PICK d : d = [Rewritten(doc[i].text, doc[i].section, proposed) EXCEPT !.id = i]
  OBVIOUS
<1>6. RewriteFits(i, d)
  <2>1. PICK r \in Diffs : r = Rewritten(doc[i].text, doc[i].section, proposed)
          /\ r.original = doc[i].text /\ r.span = "line" /\ r.type = "modify"
          /\ (r.state # "fabricated" => r.proposed.says \subseteq r.original.says)
    BY <1>3, RewrittenFits
  <2>2. d = [r EXCEPT !.id = i]
    BY <1>5, <2>1
  <2> QED
    BY <1>3, <2>1, <2>2 DEF Diffs, RewriteFits
<1>7. DOMAIN rewrites' = DOMAIN rewrites \cup {i}
      /\ \A k \in DOMAIN rewrites' : rewrites'[k] = IF k = i THEN d ELSE rewrites[k]
  BY <1>4, <1>5
<1>8. Bullets' = Bullets /\ \A k, x : RewriteFits(k, x)' <=> RewriteFits(k, x)
  BY <1>1 DEF Bullets, RewriteFits
<1>9. \A k \in DOMAIN rewrites' : RewriteFits(k, rewrites'[k])
  BY <1>6, <1>7 DEF EditorInv, EditorTyped
<1>10. DOMAIN rewrites' \subseteq Bullets'
  BY <1>3, <1>7, <1>8 DEF EditorInv, EditorTyped
<1>11. \A k \in DOMAIN rewrites' : RewriteFits(k, rewrites[k])'
  BY <1>8, <1>9
<1>12. EditorTyped'
  BY <1>1, <1>10, <1>11 DEF EditorInv, EditorTyped
<1>13. PhasesFit'
  BY <1>1, <1>8 DEF EditorInv, PhasesFit
<1>14. ListsGrounded' /\ DraftGrounded' /\ UsableCounts' /\ RefusedKeepsItsWords'
  BY <1>1, <1>8 DEF EditorInv, ListsGrounded, DraftGrounded, UsableCounts, RefusedKeepsItsWords, AllGrounded,
                    Grounded, Allowed, DocSays, _gap_support_text, KeptSupported, Anchored, Listed
<1> QED
  BY <1>12, <1>13, <1>14 DEF EditorInv

\* A refused rewrite is a diff with the bullet's id.
LEMMA RefusedFits == \A d \in Diffs : RefusedRewrite(d) \in Diffs /\ RefusedRewrite(d).id = d.id
<1> SUFFICES ASSUME NEW d \in Diffs PROVE RefusedRewrite(d) \in Diffs /\ RefusedRewrite(d).id = d.id
  OBVIOUS
<1>1. PICK state \in {"missing", "fabricated"} : state = IF d.proposed = NoText THEN "missing" ELSE "fabricated"
  OBVIOUS
<1>2. RefusedRewrite(d) = [d EXCEPT !.state = state]
  BY <1>1 DEF RefusedRewrite
<1> QED
  BY <1>2 DEF Diffs

\* A unit of the reassembled draft is the bullet's own text, or an unrefused rewrite of it.
LEMMA ReduceKeep == ASSUME EditorInv, Reduce PROVE EditorInv'
<1> DEFINE order == Where([i \in DOMAIN doc |-> i], Targets)
           done == [k \in DOMAIN order |-> rewrites[order[k]]]
           U == {x \in {done[k] : k \in DOMAIN done} : UsableRewrite(x)}
           R == {x \in {done[k] : k \in DOMAIN done} : ~UsableRewrite(x)}
           usable == Where(done, U)
           refused == Where(done, R)
           sections == [i \in DOMAIN doc |-> [doc[i] EXCEPT !.text = SectionUnit(i, ToSet(usable))]]
           invalid == [k \in DOMAIN refused |-> RefusedRewrite(refused[k])]
<1>1. /\ UNCHANGED <<doc, plan, gap, rewrites, advice, held, asks, accepted>>
      /\ phase = "map" /\ Pending = {} /\ phase' \in {"whole", "derive"}
  BY DEF Reduce
<1>2. /\ product.by = "none" /\ product.diffs = <<>> /\ product.invalid = <<>> /\ product \in Products
      /\ doc \in Docs /\ Bullets # {} /\ DOMAIN rewrites \subseteq Bullets
      /\ \A i \in DOMAIN rewrites : RewriteFits(i, rewrites[i])
  BY <1>1 DEF EditorInv, PhasesFit, EditorTyped
<1>3. Targets \subseteq DOMAIN rewrites
  BY <1>1 DEF Pending
<1>4. order \in Seq(Nat) /\ \A j \in DOMAIN order : order[j] \in Targets
  <2>1. [i \in DOMAIN doc |-> i] \in Seq(Nat)
    <3>1. PICK l \in Nat : l = Len(doc) /\ DOMAIN doc = 1 .. l
      BY <1>2, DocTyped
    <3> QED
      BY <3>1
  <2> QED
    BY <2>1, WhereIn
<1>5. /\ done \in Seq(Diffs)
      /\ \A k \in DOMAIN done : \E i \in DOMAIN rewrites : done[k] = rewrites[i] /\ RewriteFits(i, done[k])
  <2> HIDE DEF order
  <2>1. PICK l \in Nat : l = Len(order) /\ DOMAIN order = 1 .. l
    BY <1>4
  <2>2. \A k \in 1 .. l : order[k] \in DOMAIN rewrites /\ RewriteFits(order[k], rewrites[order[k]])
                          /\ rewrites[order[k]] \in Diffs
    BY <1>2, <1>3, <1>4, <2>1 DEF RewriteFits
  <2> QED
    BY <2>1, <2>2
<1> DEFINE IsDone(x) == \E i \in DOMAIN rewrites : x = rewrites[i] /\ RewriteFits(i, x)
<1>6. usable \in Seq(Diffs) /\ \A j \in DOMAIN usable : UsableRewrite(usable[j]) /\ IsDone(usable[j])
  <2>1. \A x \in U : UsableRewrite(x) /\ IsDone(x)
    <3> HIDE DEF done
    <3> QED
      BY <1>5
  <2> HIDE DEF done, U, IsDone
  <2> QED
    BY <1>5, <2>1, WhereIn
<1>7. refused \in Seq(Diffs) /\ \A j \in DOMAIN refused : ~UsableRewrite(refused[j]) /\ IsDone(refused[j])
  <2>1. \A x \in R : ~UsableRewrite(x) /\ IsDone(x)
    <3> HIDE DEF done
    <3> QED
      BY <1>5
  <2> HIDE DEF done, R, IsDone
  <2> QED
    BY <1>5, <2>1, WhereIn
<1>8. \/ phase' = "whole" /\ product' = product
      \/ phase' = "derive" /\ product' = [product EXCEPT !.by = "bullets", !.sections = sections,
                                                         !.diffs = usable, !.invalid = invalid]
  BY Zenon DEF Reduce, Select
<1> HIDE DEF order, done, U, R, usable, refused
<1>9. invalid \in Seq(Diffs)
  BY <1>7, RefusedFits
<1>10. \A i \in DOMAIN doc : SectionUnit(i, ToSet(usable)) \in Texts
  <2> SUFFICES ASSUME NEW i \in DOMAIN doc PROVE SectionUnit(i, ToSet(usable)) \in Texts
    OBVIOUS
  <2>1. CASE i \in Bullets /\ \E d \in ToSet(usable) : d.original = doc[i].text
    <3>1. PICK j \in DOMAIN usable : usable[j].original = doc[i].text
      BY <2>1 DEF ToSet
    <3>2. PICK k \in DOMAIN rewrites : RewriteFits(k, usable[j])
      BY <1>6, <3>1
    <3>3. doc[k].text = doc[i].text
      BY <3>1, <3>2 DEF RewriteFits
    <3> DEFINE S == {n \in DOMAIN rewrites : doc[n].text = doc[i].text}
    <3>4. S \in SUBSET Nat /\ S # {} /\ S \subseteq DOMAIN rewrites
      BY <1>2, <3>2, <3>3, DocTyped
    <3>5. Min(S) \in DOMAIN rewrites
      <4> HIDE DEF S
      <4> QED
        BY <3>4, LeastIsIn
    <3>6. SectionUnit(i, ToSet(usable)) = rewrites[Min(S)].proposed
      BY <2>1 DEF SectionUnit
    <3> HIDE DEF S
    <3> QED
      BY <1>2, <3>5, <3>6 DEF RewriteFits, Diffs
  <2>2. CASE ~ (i \in Bullets /\ \E d \in ToSet(usable) : d.original = doc[i].text)
    BY <1>2, <2>2, DocTyped DEF SectionUnit
  <2> QED
    BY <2>1, <2>2
<1>11. sections \in Seq(Units)
  <2>1. PICK l \in Nat : l = Len(doc) /\ DOMAIN doc = 1 .. l
    BY <1>2, DocTyped
  <2>2. \A i \in 1 .. l : [doc[i] EXCEPT !.text = SectionUnit(i, ToSet(usable))] \in Units
    BY <1>2, <1>10, <2>1, DocTyped DEF Units
  <2> QED
    BY <2>1, <2>2
<1>12. \A i \in DOMAIN doc : sections[i].text = SectionUnit(i, ToSet(usable))
  <2>1. \A i \in DOMAIN doc : doc[i] \in Units
    BY <1>2, DocTyped
  <2> QED
    BY <2>1 DEF Units
<1>13. AllGrounded(usable)
  <2>1. \A j \in DOMAIN usable : usable[j].proposed.says \subseteq usable[j].original.says
    BY <1>6 DEF RewriteFits, UsableRewrite
  <2> QED
    BY <2>1 DEF AllGrounded, Grounded
<1> DEFINE Apart == \A i, k \in Bullets : doc[i].text = doc[k].text => i = k
<1>14. ASSUME Apart, NEW j \in DOMAIN refused
       PROVE  refused[j].id \in DOMAIN doc /\ sections[refused[j].id].text = doc[refused[j].id].text
  <2>1. PICK i \in DOMAIN rewrites : refused[j] = rewrites[i] /\ RewriteFits(i, refused[j])
    BY <1>7, <1>14
  <2>2. ~ \E d \in ToSet(usable) : d.original = doc[i].text
    <3> SUFFICES ASSUME NEW n \in DOMAIN usable, usable[n].original = doc[i].text PROVE FALSE
      BY DEF ToSet
    <3>1. PICK k \in DOMAIN rewrites : usable[n] = rewrites[k] /\ RewriteFits(k, usable[n])
      BY <1>6
    <3>2. doc[k].text = doc[i].text
      BY <3>1 DEF RewriteFits
    <3>3. k = i
      BY <1>2, <1>14, <2>1, <3>1, <3>2
    <3> QED
      BY <1>6, <1>7, <1>14, <2>1, <3>1, <3>3
  <2>3. i \in DOMAIN doc /\ refused[j].id = i
    BY <1>2, <2>1, DocTyped DEF RewriteFits
  <2>4. SectionUnit(i, ToSet(usable)) = doc[i].text
    BY <2>2 DEF SectionUnit
  <2> HIDE DEF sections
  <2> QED
    BY <1>12, <2>3, <2>4
<1>15. CASE phase' = "whole" /\ product' = product
  <2>1. RefusedKeepsItsWords' /\ AllGrounded(product'.diffs)
    BY <1>2, <1>15 DEF RefusedKeepsItsWords, AllGrounded
  <2> QED
    BY <1>1, <1>2, <1>15, <2>1, ProduceKeep
<1>16. CASE phase' = "derive" /\ product' = [product EXCEPT !.by = "bullets", !.sections = sections,
                                                         !.diffs = usable, !.invalid = invalid]
  <2>1. DOMAIN invalid = DOMAIN refused /\ \A j \in DOMAIN refused : invalid[j].id = refused[j].id
    <3>1. \A j \in DOMAIN refused : refused[j] \in Diffs
      BY <1>7
    <3> QED
      BY <3>1, RefusedFits
  <2> HIDE DEF sections, invalid
  <2>2. product' \in Products /\ product'.sections = sections /\ product'.diffs = usable /\ product'.invalid = invalid
    BY <1>2, <1>6, <1>9, <1>11, <1>16 DEF Products
  <2>3. RefusedKeepsItsWords'
    <3>1. Apart => \A j \in DOMAIN invalid : sections[invalid[j].id].text = doc[invalid[j].id].text
      BY <1>14, <2>1
    <3>2. Bullets' = Bullets /\ doc' = doc
      BY <1>1 DEF Bullets
    <3> QED
      BY <2>2, <3>1, <3>2 DEF RefusedKeepsItsWords, Listed
  <2> QED
    BY <1>1, <1>13, <1>16, <2>2, <2>3, ProduceKeep
<1> QED
  BY <1>8, <1>15, <1>16

-----------------------------------------------------------------------------
\* From the editor's result to the saved row
LEMMA SectionTyped == ASSUME doc \in Docs, NEW s PROVE SectionText(s) \in Texts
<1> DEFINE units == {i \in DOMAIN doc : doc[i].section = s}
<1>1. IsFiniteSet(DOMAIN doc)
  <2>1. PICK l \in Nat : DOMAIN doc = 1 .. l
    BY DocTyped
  <2>2. 1 \in Int /\ l \in Int
    OBVIOUS
  <2>3. IsFiniteSet(1 .. l)
    BY <2>2, FS_Interval
  <2> QED
    BY <2>1, <2>3
<1>2. IsFiniteSet(units)
  BY <1>1, FS_Subset
<1>3. Cardinality(units) \in Nat
  BY <1>2, FS_CardinalityType
<1>4. (UNION {doc[i].text.says : i \in units}) \in SUBSET Terms
  BY DocTyped
<1>5. SectionText(s) = [says |-> UNION {doc[i].text.says : i \in units}, entries |-> Cardinality(units)]
  BY DEF SectionText
<1> HIDE DEF units
<1> QED
  BY <1>3, <1>4, <1>5 DEF Texts

\* The diffs derived from changed sections keep the invariant; none of them is offered line by line.
LEMMA DeriveKeep == ASSUME EditorInv, Derive PROVE EditorInv'
<1> DEFINE T == {u \in {product.sections[k] : k \in DOMAIN product.sections} :
                   /\ \E i \in DOMAIN doc : doc[i].section = u.section
                   /\ u.text \notin {NoText, SectionText(u.section)}}
           changed == Where(product.sections, T)
           derived == [k \in DOMAIN changed |->
             [id |-> k, section |-> changed[k].section, type |-> "modify", span |-> "section",
              original |-> SectionText(changed[k].section), proposed |-> changed[k].text,
              state |-> "verified"]]
<1>1. /\ UNCHANGED <<doc, plan, gap, rewrites, advice, held, asks, accepted>>
      /\ phase = "derive" /\ phase' \in {"evaluate", "persist"}
      /\ product' = [product EXCEPT !.diffs = derive_section_diffs]
  BY DEF Derive
<1>2. product \in Products /\ doc \in Docs /\ AllGrounded(product.diffs) /\ RefusedKeepsItsWords
  BY DEF EditorInv, EditorTyped, ListsGrounded
<1>3. product.sections \in Seq(Units)
  BY <1>2 DEF Products
<1>4. changed \in Seq(Units)
  <2> HIDE DEF T
  <2> QED
    BY <1>3, WhereIn
<1>5. derived \in Seq(Diffs) /\ AllGrounded(derived)
  <2> HIDE DEF changed
  <2>1. PICK l \in Nat : l = Len(changed) /\ DOMAIN changed = 1 .. l
    BY <1>4
  <2>2. \A k \in 1 .. l : changed[k] \in Units /\ k \in Nat /\ SectionText(changed[k].section) \in Texts
    BY <1>2, <1>4, <2>1, SectionTyped
  <2>3. \A k \in 1 .. l : [id |-> k, section |-> changed[k].section, type |-> "modify", span |-> "section",
              original |-> SectionText(changed[k].section), proposed |-> changed[k].text,
              state |-> "verified"] \in Diffs
    BY <2>2 DEF Diffs, Units
  <2>4. derived \in Seq(Diffs)
    BY <2>1, <2>3
  <2>5. \A k \in DOMAIN derived : derived[k].span = "section"
    BY <2>1
  <2> QED
    BY <2>4, <2>5 DEF AllGrounded, Grounded
<1>6. derive_section_diffs = IF product.diffs # <<>> \/ product.invalid # <<>> THEN product.diffs ELSE derived
  BY Zenon DEF derive_section_diffs, Select
<1> HIDE DEF derived
<1>7. derive_section_diffs \in Seq(Diffs) /\ AllGrounded(derive_section_diffs)
  BY <1>2, <1>5, <1>6 DEF Products
<1>8. /\ product' \in Products /\ product'.diffs = derive_section_diffs /\ product'.by = product.by
      /\ product'.sections = product.sections /\ product'.invalid = product.invalid
  BY <1>1, <1>2, <1>7 DEF Products
<1>9. RefusedKeepsItsWords'
  BY <1>1, <1>2, <1>8 DEF RefusedKeepsItsWords, Bullets, Listed
<1> QED
  BY <1>1, <1>7, <1>8, <1>9, ProduceKeep

\* The evaluator changes nothing that is offered.
LEMMA EvaluateKeep == ASSUME EditorInv, Evaluate PROVE EditorInv'
<1>1. UNCHANGED <<doc, plan, gap, rewrites, product, advice, held, asks, accepted>>
      /\ phase = "evaluate" /\ phase' = "persist"
  BY DEF Evaluate
<1>2. product' \in Products /\ AllGrounded(product'.diffs)
  BY <1>1 DEF EditorInv, EditorTyped, ListsGrounded
<1>3. RefusedKeepsItsWords'
  BY <1>1 DEF EditorInv, RefusedKeepsItsWords, Bullets, Listed
<1> QED
  BY <1>1, <1>2, <1>3, ProduceKeep

\* What the run keeps and what it blocks.
LEMMA SplitKeeps ==
  ASSUME product \in Products, AllGrounded(product.diffs)
  PROVE  /\ split_verified_diffs.kept \in Seq(Diffs) /\ AllGrounded(split_verified_diffs.kept)
         /\ Len(split_verified_diffs.kept) \in 0 .. Len(product.diffs)
         /\ split_verified_diffs.invalid \in Seq(Diffs)
<1> DEFINE named(d) == /\ verdict # NoVerdict
                       /\ d.id \in verdict \/ verdict = {}
           keeps(d) == ~named(d) /\ ~is_noop_diff(d)
           K == {x \in {product.diffs[k] : k \in DOMAIN product.diffs} : keeps(x)}
           N == {x \in {product.diffs[k] : k \in DOMAIN product.diffs} : named(x)}
           O == {x \in {product.diffs[k] : k \in DOMAIN product.diffs} : ~named(x) /\ is_noop_diff(x)}
           blocked == Where(product.diffs, N)
<1>1. product.diffs \in Seq(Diffs) /\ product.invalid \in Seq(Diffs)
  BY DEF Products
<1>2. PICK kept : kept = Where(product.diffs, K)
  OBVIOUS
<1>3. kept \in Seq(Diffs) /\ Len(kept) <= Len(product.diffs) /\ \A j \in DOMAIN kept : kept[j] \in K
  <2> HIDE DEF K
  <2> QED
    BY <1>1, <1>2, WhereIn
<1>4. AllGrounded(kept)
  <2>1. \A x \in K : Grounded(x)
    BY DEF AllGrounded
  <2> HIDE DEF K
  <2> QED
    BY <1>3, <2>1 DEF AllGrounded
<1>5. blocked \in Seq(Diffs)
  <2> HIDE DEF N
  <2> QED
    BY <1>1, WhereIn
<1>6. [k \in DOMAIN blocked |-> Blocked(blocked[k])] \in Seq(Diffs)
  <2> HIDE DEF blocked
  <2> QED
    BY <1>5, BlockedFits
<1>7. Where(product.diffs, O) \in Seq(Diffs)
  <2> HIDE DEF O
  <2> QED
    BY <1>1, WhereIn
<1>8. split_verified_diffs =
        [kept |-> Where(product.diffs, K),
         invalid |-> product.invalid \o Where(product.diffs, O) \o [k \in DOMAIN blocked |-> Blocked(blocked[k])]]
  BY Zenon DEF split_verified_diffs, Select
<1> HIDE DEF blocked, K, O
<1>9. product.invalid \o Where(product.diffs, O) \o [k \in DOMAIN blocked |-> Blocked(blocked[k])] \in Seq(Diffs)
  BY <1>1, <1>6, <1>7
<1>10. Len(kept) \in 0 .. Len(product.diffs)
  BY <1>1, <1>3
<1> QED
  BY <1>2, <1>3, <1>4, <1>8, <1>9, <1>10

\* What is saved is part of what was produced.
LEMMA PersistKeep == ASSUME EditorInv, persist_alignment PROVE EditorInv'
<1>1. /\ UNCHANGED <<doc, plan, gap, rewrites, product, asks, accepted>>
      /\ phase = "persist" /\ phase' = "saved"
  BY DEF persist_alignment
<1>2. /\ product \in Products /\ AllGrounded(product.diffs) /\ accepted.draft = <<>>
      /\ \A c \in Rewriters : asks[c].step = "start"
  BY <1>1 DEF EditorInv, EditorTyped, ListsGrounded, PhasesFit
<1>3. PICK kept \in Seq(Diffs) : kept = split_verified_diffs.kept /\ AllGrounded(kept)
                                 /\ Len(kept) \in 0 .. Len(product.diffs)
  BY <1>2, SplitKeeps
<1>4. PICK invalid \in Seq(Diffs) : invalid = split_verified_diffs.invalid
  BY <1>2, SplitKeeps
<1>5. PICK status \in {"succeeded", "failed"}, reason \in {"none", "no_safe_rewrite", "model_failed", "no_gap"} :
        resolve_alignment_outcome.status = status /\ resolve_alignment_outcome.reason = reason
  BY DEF resolve_alignment_outcome
<1>6. advice' = [status |-> status, reason |-> reason, diffs |-> kept, invalid |-> invalid,
                 usable |-> Len(kept), draft |-> product.sections]
  BY <1>3, <1>4, <1>5 DEF persist_alignment
<1>7. held' = kept
  BY <1>3 DEF persist_alignment
<1>8. product.sections \in Seq(Units) /\ product.diffs \in Seq(Diffs)
  BY <1>2 DEF Products
<1>9. advice' \in Advices /\ advice'.diffs = kept /\ advice'.usable = Len(kept)
  BY <1>3, <1>4, <1>5, <1>6, <1>8 DEF Advices
<1>10. /\ Bullets' = Bullets /\ \A i, d : RewriteFits(i, d)' <=> RewriteFits(i, d)
       /\ \A s : AllGrounded(s)' <=> AllGrounded(s)
  BY <1>1, SameAllowed
<1>11. EditorTyped'
  BY <1>1, <1>3, <1>7, <1>9, <1>10 DEF EditorInv, EditorTyped, Phases
<1>12. PhasesFit'
  BY <1>1 DEF PhasesFit
<1>13. AllGrounded(product.diffs)' /\ AllGrounded(advice.diffs)' /\ AllGrounded(held)'
  BY <1>1, <1>2, <1>3, <1>7, <1>9, <1>10
<1>14. ListsGrounded'
  BY <1>1, <1>2, <1>13 DEF ListsGrounded
<1>15. DraftGrounded'
  <2>1. accepted'.draft = <<>>
    BY <1>1, <1>2
  <2> QED
    BY <2>1 DEF DraftGrounded
<1>16. UsableCounts'
  BY <1>1, <1>3, <1>9 DEF UsableCounts
<1>17. RefusedKeepsItsWords'
  BY <1>1 DEF EditorInv, RefusedKeepsItsWords, Bullets, Listed
<1> QED
  BY <1>11, <1>12, <1>14, <1>15, <1>16, <1>17 DEF EditorInv

-----------------------------------------------------------------------------
\* What the user does with the saved advice
LEMMA UserKeep ==
  ASSUME EditorInv, UNCHANGED <<doc, plan, phase, gap, rewrites, product>>, phase = "saved",
         advice' \in Advices, AllGrounded(advice'.diffs), advice'.usable = advice.usable,
         held' \in {held, Gone}, asks' \in [Rewriters -> AskSteps],
         \A c \in Rewriters : asks'[c].step = "asked" => AllGrounded(asks'[c].diffs),
         DraftGrounded'
  PROVE  EditorInv'
<1>1. /\ Bullets' = Bullets /\ \A i, d : RewriteFits(i, d)' <=> RewriteFits(i, d)
      /\ \A s : AllGrounded(s)' <=> AllGrounded(s)
  BY SameAllowed
<1>2. EditorTyped'
  BY <1>1 DEF EditorInv, EditorTyped
<1>3. PhasesFit'
  BY DEF PhasesFit
<1>4. AllGrounded(product.diffs)' /\ AllGrounded(advice.diffs)' /\ (held' # Gone => AllGrounded(held)')
  BY <1>1 DEF EditorInv, ListsGrounded
<1>5. \A c \in Rewriters : asks'[c].step = "asked" => AllGrounded(asks[c].diffs)'
  BY <1>1
<1>6. ListsGrounded'
  BY <1>4, <1>5 DEF ListsGrounded
<1>7. UsableCounts'
  BY DEF EditorInv, UsableCounts
<1>8. RefusedKeepsItsWords'
  BY DEF EditorInv, RefusedKeepsItsWords, Bullets, Listed
<1> QED
  BY <1>2, <1>3, <1>6, <1>7, <1>8 DEF EditorInv

\* An accepted draft is grounded as long as it, the resume and the gap report stay.
LEMMA DraftStays ==
  ASSUME EditorInv, UNCHANGED <<doc, gap, accepted>>
  PROVE  DraftGrounded'
BY SameAllowed DEF EditorInv, DraftGrounded

\* The registry may forget the run.
LEMMA ExpireKeep == ASSUME EditorInv, ResultExpires PROVE EditorInv'
<1>1. UNCHANGED <<doc, plan, phase, gap, rewrites, product, advice, asks, accepted>> /\ phase = "saved" /\ held' = Gone
  BY DEF ResultExpires
<1>2. /\ advice' \in Advices /\ AllGrounded(advice'.diffs) /\ asks' \in [Rewriters -> AskSteps]
      /\ \A c \in Rewriters : asks'[c].step = "asked" => AllGrounded(asks'[c].diffs)
  BY <1>1 DEF EditorInv, EditorTyped, ListsGrounded
<1> QED
  BY <1>1, <1>2, DraftStays, UserKeep

\* A rewrite request reads grounded lists.
LEMMA AskKeep == ASSUME EditorInv, NEW c \in Rewriters, AskRewrite(c) PROVE EditorInv'
<1>1. UNCHANGED <<doc, plan, phase, gap, rewrites, product, advice, held, accepted>> /\ phase = "saved"
  BY DEF AskRewrite
<1>2. /\ advice \in Advices /\ AllGrounded(advice.diffs) /\ asks \in [Rewriters -> AskSteps]
      /\ \A x \in Rewriters : asks[x].step = "asked" => AllGrounded(asks[x].diffs)
  BY <1>1 DEF EditorInv, EditorTyped, ListsGrounded
<1>3. PICK d \in ToSet(advice.diffs \o advice.invalid) :
        asks' = [asks EXCEPT ![c] = [step |-> "asked", diff |-> d, diffs |-> advice.diffs, invalid |-> advice.invalid]]
  BY DEF AskRewrite
<1>4. advice.diffs \in Seq(Diffs) /\ advice.invalid \in Seq(Diffs)
  BY <1>2 DEF Advices
<1>5. d \in Diffs
  <2>1. advice.diffs \o advice.invalid \in Seq(Diffs)
    BY <1>4
  <2>2. \A k \in DOMAIN (advice.diffs \o advice.invalid) : (advice.diffs \o advice.invalid)[k] \in Diffs
    <3>1. PICK s \in Seq(Diffs) : s = advice.diffs \o advice.invalid
      BY <2>1
    <3>2. \A k \in DOMAIN s : s[k] \in Diffs
      OBVIOUS
    <3> QED
      BY <3>1, <3>2
  <2> QED
    BY <2>2 DEF ToSet
<1> DEFINE read == [step |-> "asked", diff |-> d, diffs |-> advice.diffs, invalid |-> advice.invalid]
<1>r. read \in AskSteps /\ read.diffs = advice.diffs
  BY <1>4, <1>5 DEF AskSteps
<1>6. PICK ask \in AskSteps : asks' = [asks EXCEPT ![c] = ask] /\ ask.diffs = advice.diffs
  BY <1>3, <1>r
<1>7. asks' \in [Rewriters -> AskSteps] /\ \A x \in Rewriters : asks'[x] = IF x = c THEN ask ELSE asks[x]
  BY <1>2, <1>6
<1>8. \A x \in Rewriters : asks'[x].step = "asked" => AllGrounded(asks'[x].diffs)
  BY <1>2, <1>6, <1>7
<1> QED
  BY <1>1, <1>2, <1>7, <1>8, DraftStays, UserKeep

\* A rewrite that is asked for is listed as usable only when the original supports it.
LEMMA AnswerKeep == ASSUME EditorInv, NEW c \in Rewriters, AnswerRewrite(c) PROVE EditorInv'
<1>1. /\ UNCHANGED <<doc, plan, phase, gap, rewrites, product, held, accepted>> /\ asks[c].step = "asked"
      /\ asks' = [asks EXCEPT ![c] = [step |-> "done"]]
  BY DEF AnswerRewrite
<1>2. phase = "saved"
  BY <1>1 DEF EditorInv, PhasesFit
<1>3. /\ advice \in Advices /\ AllGrounded(advice.diffs) /\ asks \in [Rewriters -> AskSteps]
      /\ \A x \in Rewriters : asks[x].step = "asked" => AllGrounded(asks[x].diffs)
  BY <1>1 DEF EditorInv, EditorTyped, ListsGrounded
<1>4. asks' \in [Rewriters -> AskSteps] /\ \A x \in Rewriters : asks'[x].step = "asked" => AllGrounded(asks'[x].diffs)
  <2>1. PICK ask \in AskSteps : ask.step = "done" /\ asks' = [asks EXCEPT ![c] = ask]
    <3>1. [step |-> "done"] \in AskSteps
      BY DEF AskSteps
    <3> QED
      BY <1>1, <3>1
  <2>2. \A x \in Rewriters : asks'[x] = IF x = c THEN ask ELSE asks[x]
    BY <1>3, <2>1
  <2> QED
    BY <1>3, <2>1, <2>2
<1>5. CASE UNCHANGED advice
  BY <1>1, <1>2, <1>3, <1>4, <1>5, DraftStays, UserKeep
<1> DEFINE old == asks[c].diff
           new(p) == [Rewritten(old.original, old.section, p) EXCEPT !.id = old.id, !.type = old.type, !.span = old.span]
           O(s) == {x \in {s[k] : k \in DOMAIN s} : x.id # old.id}
           others(s) == Where(s, O(s))
           listed == \E k \in DOMAIN asks[c].diffs : asks[c].diffs[k].id = old.id
           swapped(n) == [k \in DOMAIN asks[c].diffs |-> IF asks[c].diffs[k].id = old.id THEN n ELSE asks[c].diffs[k]]
<1>6. CASE \E p \in Proposals :
         advice' = [advice EXCEPT
           !.diffs = CASE new(p).state # "verified" -> others(asks[c].diffs)
                       [] new(p).state = "verified" /\ listed -> swapped(new(p))
                       [] OTHER -> Append(asks[c].diffs, new(p)),
           !.invalid = others(asks[c].invalid) \o (IF new(p).state = "verified" THEN <<>> ELSE <<new(p)>>)]
  <2>1. PICK p \in Proposals :
         advice' = [advice EXCEPT
           !.diffs = CASE new(p).state # "verified" -> others(asks[c].diffs)
                       [] new(p).state = "verified" /\ listed -> swapped(new(p))
                       [] OTHER -> Append(asks[c].diffs, new(p)),
           !.invalid = others(asks[c].invalid) \o (IF new(p).state = "verified" THEN <<>> ELSE <<new(p)>>)]
    BY <1>6
  <2>2. /\ old \in Diffs /\ asks[c].diffs \in Seq(Diffs) /\ asks[c].invalid \in Seq(Diffs) /\ AllGrounded(asks[c].diffs)
        /\ p \in Texts
    BY <1>1, <1>3 DEF AskSteps
  <2>3. PICK d \in Diffs : d = new(p) /\ (d.state = "verified" => Grounded(d))
    <3>1. old.original \in Texts /\ old.section \in Sections
      BY <2>2 DEF Diffs
    <3>2. PICK r \in Diffs : r = Rewritten(old.original, old.section, p)
             /\ (r.state # "fabricated" => r.proposed.says \subseteq r.original.says)
      BY <2>2, <3>1, RewrittenFits
    <3>3. new(p) = [r EXCEPT !.id = old.id, !.type = old.type, !.span = old.span]
      BY <3>2
    <3> HIDE DEF new, old
    <3>4. new(p) \in Diffs /\ new(p).state = r.state /\ new(p).proposed = r.proposed /\ new(p).original = r.original
      BY <2>2, <3>2, <3>3 DEF Diffs
    <3>5. new(p).state = "verified" => Grounded(new(p))
      BY <3>2, <3>4 DEF Grounded
    <3> QED
      BY <3>4, <3>5
  <2>4. ASSUME NEW s \in Seq(Diffs) PROVE others(s) \in Seq(Diffs) /\ \A j \in DOMAIN others(s) : others(s)[j] \in O(s)
    <3> HIDE DEF O
    <3> QED
      BY WhereIn
  <2>5. AllGrounded(others(asks[c].diffs))
    <3>1. \A x \in O(asks[c].diffs) : Grounded(x)
      BY <2>2 DEF AllGrounded
    <3> HIDE DEF O, others
    <3> QED
      BY <2>2, <2>4, <3>1 DEF AllGrounded
  <2>6. swapped(d) \in Seq(Diffs) /\ (d.state = "verified" => AllGrounded(swapped(d)))
    <3>1. PICK l \in Nat : l = Len(asks[c].diffs) /\ DOMAIN asks[c].diffs = 1 .. l
      BY <2>2
    <3>2. \A k \in 1 .. l : asks[c].diffs[k] \in Diffs
      BY <2>2, <3>1
    <3> HIDE DEF old
    <3> QED
      BY <2>2, <2>3, <3>1, <3>2 DEF AllGrounded
  <2>7. Append(asks[c].diffs, d) \in Seq(Diffs) /\ (d.state = "verified" => AllGrounded(Append(asks[c].diffs, d)))
    <3>1. PICK s \in Seq(Diffs) : s = asks[c].diffs /\ AllGrounded(s)
      BY <2>2
    <3>a. Append(s, d) \in Seq(Diffs)
      BY <2>3, <3>1
    <3>2. PICK t \in Seq(Diffs) : t = Append(s, d)
      BY <3>a
    <3>3. \A k \in DOMAIN t : t[k] = d \/ (k \in DOMAIN s /\ t[k] = s[k])
      BY <3>1, <3>2
    <3> QED
      BY <2>3, <3>1, <3>2, <3>3 DEF AllGrounded
  <2>o. others(asks[c].diffs) \in Seq(Diffs) /\ others(asks[c].invalid) \in Seq(Diffs)
    BY <2>2, <2>4
  <2> HIDE DEF old, new, O, others, listed, swapped
  <2>p. PICK kept \in Seq(Diffs), left \in Seq(Diffs) :
          kept = others(asks[c].diffs) /\ left = others(asks[c].invalid) /\ AllGrounded(kept)
    BY <2>5, <2>o
  <2>8. PICK diffs \in Seq(Diffs) : AllGrounded(diffs) /\
          diffs = CASE new(p).state # "verified" -> others(asks[c].diffs)
                    [] new(p).state = "verified" /\ listed -> swapped(new(p))
                    [] OTHER -> Append(asks[c].diffs, new(p))
    <3>1. CASE d.state # "verified"
      <4>1. new(p).state # "verified"
        BY <2>3, <3>1
      <4>2. kept = CASE new(p).state # "verified" -> kept
                     [] new(p).state = "verified" /\ listed -> swapped(new(p))
                     [] OTHER -> Append(asks[c].diffs, new(p))
        BY <4>1
      <4> QED
        BY <2>p, <4>2
    <3>2. CASE d.state = "verified" /\ listed
      BY <2>3, <2>6, <3>2
    <3>3. CASE d.state = "verified" /\ ~listed
      BY <2>3, <2>7, <3>3
    <3> QED
      BY <3>1, <3>2, <3>3
  <2>9. PICK invalid \in Seq(Diffs) :
          invalid = others(asks[c].invalid) \o (IF new(p).state = "verified" THEN <<>> ELSE <<new(p)>>)
    <3>1. (IF new(p).state = "verified" THEN <<>> ELSE <<new(p)>>) \in Seq(Diffs)
      BY <2>3
    <3>2. PICK last \in Seq(Diffs) : last = IF new(p).state = "verified" THEN <<>> ELSE <<new(p)>>
      BY <3>1
    <3>3. left \o last \in Seq(Diffs)
      BY <2>p, <3>2
    <3> QED
      BY <2>p, <3>2, <3>3
  <2>10. advice' = [advice EXCEPT !.diffs = diffs, !.invalid = invalid]
    BY <2>1, <2>8, <2>9, Zenon
  <2>11. advice' \in Advices /\ advice'.diffs = diffs /\ advice'.usable = advice.usable
    BY <1>3, <2>10 DEF Advices
  <2> QED
    BY <1>1, <1>2, <1>4, <2>8, <2>11, DraftStays, UserKeep
<1> QED
  BY <1>5, <1>6, Zenon DEF AnswerRewrite, Select

\* The drafts that say only what is allowed.
Drafts == {draft \in Seq(Units) : \A k \in DOMAIN draft : draft[k].text.says \subseteq Allowed}

\* One accepted change or removal of a line keeps a draft within what is allowed.
LEMMA ApplyKeeps ==
  ASSUME NEW draft \in Drafts, NEW d \in Diffs, Grounded(d), d.span = "line", d.type # "add"
  PROVE  _apply_diffs(draft, d) \in Drafts
<1> DEFINE at == Min(Occurrence(d, draft))
<1>1. draft \in Seq(Units) /\ \A k \in DOMAIN draft : draft[k] \in Units /\ draft[k].text.says \subseteq Allowed
  BY DEF Drafts
<1>2. PICK l \in Nat : l = Len(draft) /\ DOMAIN draft = 1 .. l
  BY <1>1
<1>3. ASSUME Occurs(d, draft) PROVE at \in DOMAIN draft /\ draft[at].text = d.original
  <2>1. Occurrence(d, draft) = {i \in DOMAIN draft : draft[i].text = d.original} /\ Occurrence(d, draft) # {}
    BY <1>3 DEF Occurrence, Occurs
  <2>2. Occurrence(d, draft) \in SUBSET Nat
    BY <1>2, <2>1
  <2>3. at \in Occurrence(d, draft)
    BY <2>1, <2>2, LeastIsIn
  <2> QED
    BY <2>1, <2>3
<1>4. CASE d.type = "modify" /\ d.proposed # NoText /\ Occurs(d, draft)
  <2>1. _apply_diffs(draft, d) = [draft EXCEPT ![at].text = d.proposed]
    BY <1>4 DEF _apply_diffs
  <2>2. PICK n \in 1 .. l : n = at /\ draft[n].text = d.original
    BY <1>2, <1>3, <1>4
  <2>3. d.proposed.says \subseteq Allowed
    BY <1>1, <1>2, <2>2 DEF Grounded
  <2>a. PICK v \in Units : v = draft[n]
    BY <1>1, <1>2
  <2>b. d.proposed \in Texts
    BY DEF Diffs
  <2>c. [v EXCEPT !.text = d.proposed] \in Units /\ [v EXCEPT !.text = d.proposed].text = d.proposed
    BY <2>b DEF Units
  <2>4. PICK u \in Units : u = [draft[n] EXCEPT !.text = d.proposed] /\ u.text = d.proposed
    BY <2>a, <2>c
  <2>5. [draft EXCEPT ![n].text = d.proposed] = [draft EXCEPT ![n] = u]
    BY <2>4
  <2>6. PICK e : e = [draft EXCEPT ![n] = u]
    OBVIOUS
  <2>7. e \in Seq(Units) /\ DOMAIN e = DOMAIN draft /\ \A k \in DOMAIN draft : e[k] = IF k = n THEN u ELSE draft[k]
    BY <1>1, <1>2, <2>2, <2>4, <2>6, ReplacedAt
  <2>8. e \in Drafts
    BY <1>1, <2>3, <2>4, <2>7 DEF Drafts
  <2> QED
    BY <2>1, <2>2, <2>5, <2>6, <2>8
<1>5. CASE d.type = "remove" /\ Occurs(d, draft)
  <2>1. _apply_diffs(draft, d) = RemoveAt(draft, at)
    BY <1>5 DEF _apply_diffs
  <2>2. at \in DOMAIN draft
    BY <1>3, <1>5
  <2> HIDE DEF at
  <2>3. PICK e : e = RemoveAt(draft, at)
    OBVIOUS
  <2>4. e \in Seq(Units) /\ \A k \in DOMAIN e : \E j \in DOMAIN draft : e[k] = draft[j]
    BY <1>1, <2>2, <2>3, RemovedAt
  <2>5. e \in Drafts
    BY <1>1, <2>4 DEF Drafts
  <2> QED
    BY <2>1, <2>3, <2>5
<1>6. CASE ~ (d.type = "modify" /\ d.proposed # NoText /\ Occurs(d, draft)) /\ ~ (d.type = "remove" /\ Occurs(d, draft))
  BY <1>6 DEF _apply_diffs
<1> QED
  BY <1>4, <1>5, <1>6 DEF Diffs

\* Accepting any choice of the diffs keeps the invariant.
LEMMA AcceptKeep == ASSUME EditorInv, accept_workbench_diffs PROVE EditorInv'
<1>1. UNCHANGED <<doc, plan, phase, gap, rewrites, product, advice, held, asks>> /\ phase = "saved"
  BY DEF accept_workbench_diffs
<1>2. /\ doc \in Docs /\ advice \in Advices /\ AllGrounded(advice.diffs) /\ asks \in [Rewriters -> AskSteps]
      /\ \A x \in Rewriters : asks[x].step = "asked" => AllGrounded(asks[x].diffs)
      /\ held \in Seq(Diffs) \cup {Gone} /\ (held # Gone => AllGrounded(held))
  BY <1>1 DEF EditorInv, EditorTyped, ListsGrounded
<1>3. PICK diffs \in {IF held # Gone THEN held ELSE advice.diffs} : \E chosen \in SUBSET DOMAIN diffs :
        LET drafted[n \in 0 .. Len(diffs)] ==
              IF n = 0 THEN doc
              ELSE IF n \in chosen THEN _apply_diffs(drafted[n - 1], diffs[n]) ELSE drafted[n - 1]
        IN  accepted' = [draft |-> drafted[Len(diffs)], used |-> {diffs[k] : k \in chosen}]
  BY Zenon DEF accept_workbench_diffs
<1>4. diffs \in Seq(Diffs) /\ AllGrounded(diffs)
  BY <1>2, <1>3 DEF Advices
<1> DEFINE Kept(h, chosen) ==
             h = [n \in 0 .. Len(diffs) |->
                    IF n = 0 THEN doc ELSE IF n \in chosen THEN _apply_diffs(h[n - 1], diffs[n]) ELSE h[n - 1]]
<1>5. PICK chosen \in SUBSET DOMAIN diffs :
        accepted' = [draft |-> (CHOOSE h : Kept(h, chosen))[Len(diffs)], used |-> {diffs[k] : k \in chosen}]
  BY <1>3, Zenon
<1>6. ASSUME \A d \in accepted'.used : d.span = "line" /\ d.type # "add"
      PROVE  accepted'.draft \in Drafts
  <2> DEFINE F == [k \in 1 .. Len(diffs) |-> [x \in Drafts |-> IF k \in chosen THEN _apply_diffs(x, diffs[k]) ELSE x]]
  <2>1. PICK l \in Nat : l = Len(diffs) /\ DOMAIN diffs = 1 .. l
    BY <1>4
  <2>2. \A k \in chosen : k \in DOMAIN diffs /\ diffs[k] \in Diffs /\ Grounded(diffs[k])
                          /\ diffs[k].span = "line" /\ diffs[k].type # "add"
    BY <1>4, <1>5, <1>6 DEF AllGrounded
  <2>3. \A k \in 1 .. l : \A x \in Drafts : F[k][x] = (IF k \in chosen THEN _apply_diffs(x, diffs[k]) ELSE x)
    BY <2>1
  <2>4. \A k \in 1 .. l : \A x \in Drafts : F[k][x] \in Drafts
    <3> SUFFICES ASSUME NEW k \in 1 .. l, NEW x \in Drafts
                 PROVE  (IF k \in chosen THEN _apply_diffs(x, diffs[k]) ELSE x) \in Drafts
      <4> HIDE DEF F
      <4> QED
        BY <2>3
    <3> QED
      BY <2>2, ApplyKeeps
  <2>5. doc \in Drafts
    BY <1>2, DocTyped DEF Drafts, Allowed
  <2>6. PICK g \in [0 .. l -> Drafts] : g = [k \in 0 .. l |-> IF k = 0 THEN doc ELSE F[k][g[k - 1]]]
    <3> HIDE DEF F
    <3>1. StaysIn(l, Drafts, F)
      BY <2>4 DEF StaysIn
    <3>2. \E g : Computes(g, l, Drafts, doc, F)
      BY <2>5, <3>1, StepsExist
    <3> QED
      BY <3>2 DEF Computes
  <2>7. \A k \in 0 .. l : k # 0 => k \in 1 .. l /\ k - 1 \in 0 .. l /\ g[k - 1] \in Drafts
    <3> HIDE DEF F
    <3>1. \A k \in 0 .. l : k # 0 => k \in 1 .. l /\ k - 1 \in 0 .. l
      OBVIOUS
    <3> QED
      BY <2>6, <3>1
  <2>8. Kept(g, chosen)
    <3> HIDE DEF F
    <3>1. \A k \in 0 .. l : g[k] = IF k = 0 THEN doc ELSE IF k \in chosen THEN _apply_diffs(g[k - 1], diffs[k]) ELSE g[k - 1]
      BY <2>3, <2>6, <2>7
    <3>2. g = [k \in 0 .. l |-> g[k]]
      BY <2>6
    <3> QED
      BY <2>1, <3>1, <3>2
  <2>9. PICK h : h = CHOOSE x : Kept(x, chosen)
    OBVIOUS
  <2>10. Kept(h, chosen)
    <3> HIDE DEF Kept
    <3> QED
      BY <2>8, <2>9
  <2> DEFINE P == {k \in 0 .. l : h[k] \in Drafts}
  <2>11. 0 \in P
    BY <2>1, <2>5, <2>10
  <2>12. ASSUME NEW k \in 0 .. l, k \in P, k < l PROVE k + 1 \in P
    <3>1. k + 1 \in 1 .. l /\ k + 1 \in 0 .. Len(diffs) /\ k + 1 # 0 /\ (k + 1) - 1 = k
      BY <2>1, <2>12
    <3>2. h[k + 1] = IF k + 1 \in chosen THEN _apply_diffs(h[k], diffs[k + 1]) ELSE h[k]
      BY <2>10, <3>1
    <3>3. h[k] \in Drafts
      BY <2>12
    <3>4. h[k + 1] \in Drafts
      BY <2>2, <3>2, <3>3, ApplyKeeps
    <3> QED
      BY <3>1, <3>4
  <2>13. l \in P
    <3> HIDE DEF P
    <3>1. \A k \in 0 .. l : k \in P /\ k < l => k + 1 \in P
      BY <2>12
    <3>2. \A k \in 0 .. l : k \in P
      BY <2>11, <3>1, CountedInduction
    <3> QED
      BY <3>2
  <2>14. accepted'.draft = h[l]
    <3> HIDE DEF Kept
    <3> QED
      BY <1>5, <2>1, <2>9
  <2> QED
    BY <2>13, <2>14
<1>7. DraftGrounded'
  <2>1. Allowed' = Allowed
    BY <1>1, SameAllowed
  <2> QED
    BY <1>6, <2>1 DEF DraftGrounded, Drafts
<1> QED
  BY <1>1, <1>2, <1>7, UserKeep

-----------------------------------------------------------------------------

\* Every step of the pipeline and of its users keeps the invariant.
LEMMA EditorKeep == ASSUME EditorInv, [EditorNext]_edVars PROVE EditorInv'
<1>1. CASE UNCHANGED edVars
  <2>1. UNCHANGED <<doc, plan, phase, gap, rewrites, product, advice, held, asks, accepted>>
    BY <1>1 DEF edVars
  <2>2. /\ Bullets' = Bullets /\ \A i, d : RewriteFits(i, d)' <=> RewriteFits(i, d)
        /\ Allowed' = Allowed /\ \A s : AllGrounded(s)' <=> AllGrounded(s)
    BY <2>1, SameAllowed
  <2>3. EditorTyped'
    BY <2>1, <2>2 DEF EditorInv, EditorTyped
  <2>4. PhasesFit'
    BY <2>1, <2>2 DEF EditorInv, PhasesFit
  <2>5. AllGrounded(product.diffs)' /\ AllGrounded(advice.diffs)' /\ (held' # Gone => AllGrounded(held)')
        /\ \A c \in Rewriters : asks'[c].step = "asked" => AllGrounded(asks[c].diffs)'
    BY <2>1, <2>2 DEF EditorInv, ListsGrounded
  <2>6. ListsGrounded'
    BY <2>5 DEF ListsGrounded
  <2>7. DraftGrounded' /\ UsableCounts' /\ RefusedKeepsItsWords'
    BY <2>1, <2>2, DraftStays DEF EditorInv, UsableCounts, RefusedKeepsItsWords, Listed
  <2> QED
    BY <2>3, <2>4, <2>6, <2>7 DEF EditorInv
<1>2. CASE Diagnose \/ Profile \/ AnalyzeGaps \/ StartEditor \/ \E s \in {"diagnose", "profile"} : PoolTask(s)
  BY <1>2, EarlyKeep
<1>3. CASE EditorNext
  BY <1>2, <1>3, TailorKeep, RewriteKeep, ReduceKeep, DeriveKeep, EvaluateKeep, PersistKeep, ExpireKeep, AskKeep,
     AnswerKeep, AcceptKeep DEF EditorNext
<1> QED
  BY <1>1, <1>3

\* The invariant holds of any resume, gap report, answers and rewrite requests.
THEOREM EditorInvariance == EditorSpec => []EditorInv
<1>1. EditorInit => EditorInv
  BY EditorStarts
<1>2. EditorInv /\ [EditorNext]_edVars => EditorInv'
  BY EditorKeep
<1> QED
  BY <1>1, <1>2, PTL DEF EditorSpec

\* The variables keep their types; the row counts no more usable diffs than were produced.
THEOREM EditorTypes == EditorSpec => []EditorTypeOK
<1>1. EditorInv => EditorTypeOK
  BY DEF EditorInv, EditorTyped, EditorTypeOK, UsableCounts, Phases, Advices
<1> QED
  BY <1>1, EditorInvariance, PTL

\* For any resume whose bullets differ and any rewrites, in the order the pool makes them: a bullet whose
\* rewrite was refused keeps its words in the reassembled sections (tailor_resume_map_reduce, tailor.py:1403-1487).
THEOREM WordsAreKept == EditorSpec => []RefusedKeepsItsWords
<1>1. EditorInv => RefusedKeepsItsWords
  BY DEF EditorInv
<1> QED
  BY <1>1, EditorInvariance, PTL

\* For any resume, gap report, answers, rewrites and evaluations: whatever is offered line by line says
\* only what the resume, the located directions or its own original say, and so does a draft of accepted
\* changes and removals (tailor.py, alignment_rules.py, alignment_writer.py and the
\* rewrite and accept endpoints of routers/jobs.py).
THEOREM GroundedAdvice == EditorSpec => []AdviceIsGrounded
<1>1. EditorInv => AdviceIsGrounded
  <2> SUFFICES ASSUME EditorInv PROVE AdviceIsGrounded
    OBVIOUS
  <2>1. \A d \in Listed(advice.diffs) \union (IF held = Gone THEN {} ELSE Listed(held)) : Grounded(d)
    BY DEF EditorInv, ListsGrounded, AllGrounded, Listed
  <2> QED
    BY <2>1 DEF EditorInv, DraftGrounded, AdviceIsGrounded, Grounded, Allowed
<1> QED
  BY <1>1, EditorInvariance, PTL

\* Every provider call is metered under the run's tenant, also those of the pools, whose tasks run in a copy
\* of the context (engine/__init__.py:143-212, tailor.py:1390).
THEOREM CallsMetered == EditorSpec => []CallsAreMetered
<1>1. EditorInit => CallsAreMetered
  BY DEF EditorInit, CallsAreMetered
<1>2. CallsAreMetered /\ [EditorNext]_edVars => CallsAreMetered'
  <2> SUFFICES ASSUME CallsAreMetered, [EditorNext]_edVars PROVE calls' = calls \/ \E s : Calling(s, RunTenant)
    BY DEF CallsAreMetered, Calling
  <2>1. CASE Diagnose \/ Profile \/ AnalyzeGaps \/ StartEditor \/ \E s \in {"diagnose", "profile"} : PoolTask(s)
    BY <2>1 DEF Diagnose, Profile, AnalyzeGaps, StartEditor, PoolTask, CopiedContext
  <2>2. CASE tailor_resume \/ Reduce \/ \E i \in DOMAIN doc : _try_rewrite_bullet(i)
    BY <2>2 DEF tailor_resume, Reduce, _try_rewrite_bullet, CopiedContext
  <2>3. CASE Derive \/ Evaluate \/ persist_alignment \/ ResultExpires \/ accept_workbench_diffs
    BY <2>3 DEF Derive, Evaluate, persist_alignment, ResultExpires, accept_workbench_diffs
  <2>4. CASE \E c \in Rewriters : AskRewrite(c) \/ AnswerRewrite(c)
    BY <2>4 DEF AskRewrite, AnswerRewrite
  <2>5. CASE UNCHANGED edVars
    BY <2>5 DEF edVars
  <2> QED
    BY <2>1, <2>2, <2>3, <2>4, <2>5 DEF EditorNext
<1> QED
  BY <1>1, <1>2, PTL DEF EditorSpec
=============================================================================
