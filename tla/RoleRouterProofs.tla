-------------------------- MODULE RoleRouterProofs --------------------------
(***************************************************************************)
(* Proofs about RoleRouter, for any number of nodes, roles and calls.      *)
(***************************************************************************)
EXTENDS RoleRouter, FiniteSetTheorems, TLAPS

\* An id not given out has no row and no failures.
UnbornIsBlank == \A n \in Nodes : born[n] = 0 => n \notin nodes /\ fails[n] = 0

StoreOK == NodesTypeOK /\ BreakerIsExact /\ UnbornIsBlank

\* Where a call has made no attempt yet, only the primary one, or works
\* through its candidates.
Resolving == {"idle", "look", "unbind", "list", "aim"}
OnPrimary == Resolving \cup {"try", "report", "fall"}
OnQueue   == {"next", "retry", "tell"}

\* The only node a call has tried before its fallback is its primary.
PrimaryTried(c) ==
  /\ at[c] \in Resolving => primary[c] = NoNode
  /\ at[c] \in OnPrimary => tried[c] = {primary[c]} \ {NoNode}

\* A call has a node in hand where it reports an outcome.
PickIsNode(c) == at[c] \in {"try", "report", "retry", "tell"} => pick[c] \in Nodes

\* The node a call aims at or tries served at some moment since it began.
PickServed(c) ==
  /\ at[c] \in {"aim", "try", "retry"} => pick[c] \in Nodes \ since[c].off
  /\ at[c] \in Trying => pick[c] \notin since[c].cold

\* The candidates left are new, served when they were listed, and with the
\* nodes tried make up every node that was usable all along.
QueueFits(c) ==
  at[c] \in OnQueue =>
    /\ queue[c] \cap tried[c] = {}
    /\ queue[c] \cap (since[c].off \cup since[c].cold) = {}
    /\ since[c].up \subseteq tried[c] \cup queue[c]

FailedIsExhausted(c) == at[c] = "failed" => since[c].up \subseteq tried[c]

CallInv(c) == /\ PrimaryTried(c) /\ PickServed(c)
              /\ QueueFits(c)    /\ FailedIsExhausted(c)

IInv == /\ TypeOK
        /\ StoreOK
        /\ \A c \in Calls : CallInv(c) /\ PickIsNode(c)

USE NodesAssumption, RouterAssumption

-----------------------------------------------------------------------------
(* Type correctness *)

\* The next creation rank is a number.
LEMMA RankIsNat ==
  Cardinality({m \in Nodes : born[m] > 0}) \in Nat
<1>1. {m \in Nodes : born[m] > 0} \subseteq Nodes
  OBVIOUS
<1>2. IsFiniteSet({m \in Nodes : born[m] > 0})
  BY <1>1, FS_Subset
<1> QED BY <1>2, FS_CardinalityType

\* The history of a call shrinks while it runs, and to what is so now.
LEMMA Tracked ==
  ASSUME Track, NEW c \in Calls, at'[c] # "idle"
  PROVE  /\ since'[c].up   = since[c].up   \cap (Usable' \ cooled')
         /\ since'[c].off  = since[c].off  \cap ((Nodes \ nodes') \cup disabled')
         /\ since'[c].cold = since[c].cold \cap cooled'
BY DEF Track

\* Track keeps the type of the history.
LEMMA TrackType ==
  ASSUME TypeOK, Track
  PROVE  since' \in [Calls -> [up : SUBSET Nodes, off : SUBSET Nodes, cold : SUBSET Nodes]]
<1> DEFINE Kept(c) ==
      IF at'[c] = "idle" THEN Untouched
      ELSE [up   |-> since[c].up   \cap (Usable' \ cooled'),
            off  |-> since[c].off  \cap ((Nodes \ nodes') \cup disabled'),
            cold |-> since[c].cold \cap cooled']
<1>1. ASSUME NEW c \in Calls
      PROVE  Kept(c) \in [up : SUBSET Nodes, off : SUBSET Nodes, cold : SUBSET Nodes]
  BY DEF TypeOK, Untouched
<1>2. since' = [c \in Calls |-> Kept(c)]
  BY DEF Track
<1> HIDE DEF Kept
<1> QED BY <1>1, <1>2

-----------------------------------------------------------------------------
(* The node store: types and the breaker, operation by operation *)

LEMMA FailureKeeps ==
  ASSUME StoreOK, NEW n \in Nodes, CountFailure(n), UNCHANGED <<nodes, born, active, binding>>
  PROVE  StoreOK'
BY DEF StoreOK, NodesTypeOK, BreakerIsExact, UnbornIsBlank, CountFailure

LEMMA SuccessKeeps ==
  ASSUME StoreOK, NEW n \in Nodes, CountSuccess(n), UNCHANGED <<nodes, born, active, binding>>
  PROVE  StoreOK'
BY DEF StoreOK, NodesTypeOK, BreakerIsExact, UnbornIsBlank, CountSuccess

LEMMA CreateKeeps ==
  ASSUME StoreOK, NEW n \in Nodes, NEW b \in BOOLEAN, CreateNode(n, b)
  PROVE  StoreOK'
<1> DEFINE rank == 1 + Cardinality({m \in Nodes : born[m] > 0})
<1>1. rank \in Nat /\ rank # 0
  BY RankIsNat
<1>2. born' = [born EXCEPT ![n] = rank]
  BY DEF CreateNode
<1> HIDE DEF rank
<1>3. /\ born[n] = 0 /\ nodes' = nodes \cup {n}
      /\ active' \in SUBSET nodes' /\ UNCHANGED <<fails, disabled, binding>>
  BY DEF CreateNode, breaker, StoreOK, NodesTypeOK
<1> QED
  BY <1>1, <1>2, <1>3 DEF StoreOK, NodesTypeOK, BreakerIsExact, UnbornIsBlank

LEMMA AdminKeeps ==
  ASSUME StoreOK, NEW n \in Nodes, NEW b \in BOOLEAN,
         WriteNode(n, b) \/ ActivateNode(n) \/ DeleteNode(n)
  PROVE  StoreOK'
<1>1. CASE WriteNode(n, b)
  BY <1>1 DEF StoreOK, NodesTypeOK, BreakerIsExact, UnbornIsBlank, WriteNode, breaker
<1>2. CASE ActivateNode(n)
  BY <1>2 DEF StoreOK, NodesTypeOK, BreakerIsExact, UnbornIsBlank, ActivateNode
<1>3. CASE DeleteNode(n)
  BY <1>3 DEF StoreOK, NodesTypeOK, BreakerIsExact, UnbornIsBlank, DeleteNode, IsOldest
<1> QED BY <1>1, <1>2, <1>3

LEMMA OutcomeKeeps ==
  ASSUME StoreOK, NEW n \in Nodes, NEW v, Outcome(n, v) PROVE StoreOK'
<1>1. CASE CountFailure(n)
  BY <1>1, FailureKeeps DEF Outcome
<1>2. CASE CountSuccess(n)
  BY <1>2, SuccessKeeps DEF Outcome
<1>3. CASE UNCHANGED breaker
  BY <1>3 DEF Outcome, breaker, StoreOK, NodesTypeOK, BreakerIsExact, UnbornIsBlank
<1> QED BY <1>1, <1>2, <1>3 DEF Outcome

LEMMA HealthKeeps ==
  ASSUME StoreOK, NEW n \in Nodes, RecordHealth(n) PROVE StoreOK'
BY FailureKeeps, SuccessKeeps DEF RecordHealth

LEMMA StoreStutters ==
  ASSUME StoreOK, UNCHANGED nodeVars PROVE StoreOK'
BY DEF StoreOK, nodeVars, NodesTypeOK, BreakerIsExact, UnbornIsBlank

-----------------------------------------------------------------------------
(* What one step does to the calls *)

CallFrame(c) == UNCHANGED <<at[c], pick[c], primary[c], queue[c], tried[c]>>

\* A call keeps its invariant while somebody else takes the step.
LEMMA Bystander ==
  ASSUME Track, NEW c \in Calls, CallInv(c), CallFrame(c)
  PROVE  CallInv(c)'
<1>1. CASE at[c] = "idle"
  BY <1>1 DEF CallFrame, CallInv, PrimaryTried, PickServed, QueueFits,
         FailedIsExhausted, Resolving, OnPrimary, OnQueue, Trying
<1>2. CASE at[c] # "idle"
  <2>1. /\ since'[c].up \subseteq since[c].up
        /\ since'[c].off \subseteq since[c].off
        /\ since'[c].cold \subseteq since[c].cold
    BY <1>2, Tracked DEF CallFrame
  <2>2. PrimaryTried(c)' /\ FailedIsExhausted(c)'
    BY <2>1 DEF CallFrame, CallInv, PrimaryTried, FailedIsExhausted, Resolving, OnPrimary
  <2>3. PickServed(c)'
    BY <2>1 DEF CallFrame, CallInv, PickServed, Trying
  <2>4. QueueFits(c)'
    BY <2>1 DEF CallFrame, CallInv, QueueFits, OnQueue
  <2> QED BY <2>2, <2>3, <2>4 DEF CallInv
<1> QED BY <1>1, <1>2

\* The variables of the calls change for at most one call.
OnlyOf(c) == \A d \in Calls \ {c} : CallFrame(d)

LEMMA StepIsLocal ==
  ASSUME TypeOK, NEW c \in Calls, CallStep(c)
  PROVE  OnlyOf(c) /\ Track
<1> USE DEF OnlyOf, CallFrame, TypeOK, MoveTo, Start, callVars
<1>1. CASE Begin(c) \/ LookUp(c) \/ Unbind(c) \/ List(c)
  BY <1>1 DEF Begin, LookUp, Unbind, List
<1>2. CASE Aim(c) \/ Answer(c) \/ Report(c)
  BY <1>2 DEF Aim, Answer, Report
<1>3. CASE Fall(c) \/ NextCandidate(c) \/ AnswerFallback(c) \/ Tell(c)
  BY <1>3 DEF Fall, NextCandidate, AnswerFallback, Tell
<1> QED BY <1>1, <1>2, <1>3 DEF CallStep

\* What a node is to a call that has just read it as serving.
LEMMA ServingIsNotOff ==
  ASSUME Track, NEW c \in Calls, at'[c] # "idle", NEW n, n \in nodes' \ disabled'
  PROVE  n \notin since'[c].off
BY Tracked

\* Resolving the node of a role.
LEMMA ResolveKeeps ==
  ASSUME IInv, NEW c \in Calls, Begin(c) \/ LookUp(c) \/ Unbind(c) \/ List(c)
  PROVE  CallInv(c)'
<1> USE DEF MoveTo
<1>1. at[c] \in Resolving /\ at'[c] \in Resolving \cup {"fall"} /\ at'[c] # "idle"
  BY DEF IInv, TypeOK, Begin, LookUp, Unbind, List, Resolving
<1>2. /\ Track /\ UNCHANGED <<primary, tried>>
  BY DEF Begin, LookUp, Unbind, List
<1>3. PrimaryTried(c)'
  BY <1>1, <1>2 DEF IInv, CallInv, PrimaryTried, Resolving, OnPrimary
<1>4. at'[c] = "aim" => pick'[c] \in nodes' \ disabled' /\ pick'[c] \in Nodes
  <2>1. CASE Begin(c)
    BY <2>1 DEF Begin, IInv, TypeOK
  <2>2. CASE LookUp(c)
    BY <2>2 DEF LookUp, IInv, TypeOK, NodesTypeOK, nodeVars
  <2>3. CASE Unbind(c)
    BY <2>3 DEF Unbind, IInv, TypeOK
  <2>4. CASE List(c)
    BY <2>4 DEF List, IInv, TypeOK, NodesTypeOK, nodeVars, Usable
  <2> QED BY <2>1, <2>2, <2>3, <2>4
<1>5. PickServed(c)'
  BY <1>1, <1>2, <1>4, ServingIsNotOff DEF PickServed, Trying, Resolving
<1>6. QueueFits(c)' /\ FailedIsExhausted(c)'
  BY <1>1 DEF QueueFits, FailedIsExhausted, Resolving, OnQueue
<1> QED BY <1>3, <1>5, <1>6 DEF CallInv

\* The primary attempt.
LEMMA AimKeeps ==
  ASSUME IInv, NEW c \in Calls, Aim(c)
  PROVE  CallInv(c)'
<1> USE DEF MoveTo, Start
<1>1. /\ Track /\ at[c] = "aim" /\ at'[c] \in {"try", "fall"}
      /\ cooled' = cooled
  BY DEF Aim, IInv, TypeOK
<1>2. primary[c] = NoNode /\ tried[c] = {} /\ pick[c] \in Nodes \ since[c].off
  BY <1>1 DEF IInv, CallInv, PrimaryTried, PickServed, Resolving, OnPrimary
<1>3. PrimaryTried(c)'
  BY <1>1, <1>2 DEF Aim, IInv, TypeOK, PrimaryTried, Resolving, OnPrimary
<1>4. at'[c] = "try" => pick'[c] = pick[c] /\ pick[c] \notin cooled'
  BY <1>1 DEF Aim, IInv, TypeOK
<1>5. PickServed(c)'
  BY <1>1, <1>2, <1>4, Tracked DEF PickServed, Trying
<1>6. QueueFits(c)' /\ FailedIsExhausted(c)'
  BY <1>1 DEF QueueFits, FailedIsExhausted, OnQueue
<1> QED BY <1>3, <1>5, <1>6 DEF CallInv

LEMMA AnswerKeeps ==
  ASSUME IInv, NEW c \in Calls, Answer(c) \/ Report(c)
  PROVE  CallInv(c)'
<1> USE DEF MoveTo
<1>1. /\ at[c] \in {"try", "report"} /\ at'[c] \in {"report", "fall", "answered"}
      /\ UNCHANGED <<primary, tried>>
  BY DEF Answer, Report, IInv, TypeOK
<1> QED
  BY <1>1 DEF IInv, CallInv, PrimaryTried, PickServed, QueueFits, FailedIsExhausted,
     Resolving, OnPrimary, OnQueue, Trying

\* Listing the candidates.
LEMMA FallKeeps ==
  ASSUME IInv, NEW c \in Calls, Fall(c)
  PROVE  CallInv(c)'
<1> USE DEF MoveTo
<1>1. /\ Track /\ at[c] = "fall" /\ at'[c] \in {"failed", "next"}
      /\ UNCHANGED <<nodeVars, cooled, primary, tried>>
  BY DEF Fall, IInv, TypeOK
<1>2. tried[c] = {primary[c]} \ {NoNode}
  BY <1>1 DEF IInv, CallInv, PrimaryTried, OnPrimary
<1>3. /\ queue'[c] = Usable \ (cooled \cup {primary[c]})
      /\ at'[c] = "failed" => queue'[c] = {}
  BY DEF Fall, IInv, TypeOK
<1>4. Usable' = Usable /\ Usable \subseteq nodes \ disabled /\ NoNode \notin Usable
  BY <1>1 DEF Usable, nodeVars, IInv, TypeOK, NodesTypeOK
<1>5. /\ since'[c].up \subseteq Usable \ cooled
      /\ queue'[c] \cap (since'[c].off \cup since'[c].cold) = {}
  BY <1>1, <1>3, <1>4, Tracked DEF nodeVars
<1>6. since'[c].up \subseteq tried[c] \cup queue'[c] /\ queue'[c] \cap tried[c] = {}
  BY <1>2, <1>3, <1>4, <1>5
<1> QED
  BY <1>1, <1>3, <1>5, <1>6 DEF CallInv, PrimaryTried, PickServed, QueueFits,
     FailedIsExhausted, Resolving, OnPrimary, OnQueue, Trying

\* Taking the next candidate.
LEMMA NextKeeps ==
  ASSUME IInv, NEW c \in Calls, NextCandidate(c)
  PROVE  CallInv(c)'
<1> USE DEF MoveTo, Start
<1>1. /\ Track /\ at[c] = "next" /\ at'[c] \in {"failed", "retry"}
  BY DEF NextCandidate, IInv, TypeOK
<1>2. /\ queue[c] \cap tried[c] = {}
      /\ queue[c] \cap (since[c].off \cup since[c].cold) = {}
      /\ since[c].up \subseteq tried[c] \cup queue[c]
  BY <1>1 DEF IInv, CallInv, QueueFits, OnQueue
<1>3. /\ since'[c].up \subseteq since[c].up
      /\ since'[c].off \subseteq since[c].off
      /\ since'[c].cold \subseteq since[c].cold
  BY <1>1, Tracked
<1>4. CASE at'[c] = "failed"
  <2>1. queue[c] = {} /\ tried' = tried
    BY <1>4 DEF NextCandidate, IInv, TypeOK
  <2> QED
    BY <1>2, <1>3, <1>4, <2>1 DEF CallInv, PrimaryTried, PickServed, QueueFits,
       FailedIsExhausted, Resolving, OnPrimary, OnQueue, Trying
<1>5. CASE at'[c] = "retry"
  <2>1. PICK n \in queue[c] : /\ pick'[c] = n
                              /\ tried'[c] = tried[c] \cup {n}
                              /\ queue'[c] = queue[c] \ {n}
    BY <1>5 DEF NextCandidate, IInv, TypeOK
  <2>2. n \in Nodes
    BY <2>1 DEF IInv, TypeOK
  <2> QED
    BY <1>2, <1>3, <1>5, <2>1, <2>2 DEF CallInv, PrimaryTried, PickServed, QueueFits,
       FailedIsExhausted, Resolving, OnPrimary, OnQueue, Trying
<1> QED BY <1>1, <1>4, <1>5

LEMMA TellKeeps ==
  ASSUME IInv, NEW c \in Calls, AnswerFallback(c) \/ Tell(c)
  PROVE  CallInv(c)'
<1> USE DEF MoveTo
<1>1. /\ Track /\ at[c] \in {"retry", "tell"} /\ at'[c] \in {"tell", "next", "answered"}
      /\ UNCHANGED <<queue, tried>>
  BY DEF AnswerFallback, Tell, IInv, TypeOK
<1>2. /\ since'[c].up \subseteq since[c].up
      /\ since'[c].off \subseteq since[c].off
      /\ since'[c].cold \subseteq since[c].cold
  BY <1>1, Tracked
<1> QED
  BY <1>1, <1>2 DEF IInv, CallInv, PrimaryTried, PickServed, QueueFits,
     FailedIsExhausted, Resolving, OnPrimary, OnQueue, Trying

-----------------------------------------------------------------------------
(* Types and store under a step of a call *)

LEMMA CallStoreKeeps ==
  ASSUME IInv, NEW c \in Calls, CallStep(c)
  PROVE  StoreOK'
<1>1. CASE Unbind(c)
  <2>1. CallRole[c] \in Roles
    OBVIOUS
  <2> QED
    BY <1>1, <2>1 DEF Unbind, IInv, StoreOK, NodesTypeOK, BreakerIsExact,
       UnbornIsBlank, DeleteBindings, breaker
<1>2. CASE Report(c) \/ Tell(c)
  BY <1>2, OutcomeKeeps DEF Report, Tell, PickIsNode, IInv
<1>3. CASE UNCHANGED nodeVars
  BY <1>3, StoreStutters DEF IInv
<1> QED
  BY <1>1, <1>2, <1>3 DEF CallStep, Begin, LookUp, List, Aim, Answer, Fall,
     NextCandidate, AnswerFallback

LEMMA CallTypes ==
  ASSUME IInv, NEW c \in Calls, CallStep(c)
  PROVE  TypeOK' /\ PickIsNode(c)'
<1>1. NodesTypeOK'
  BY CallStoreKeeps DEF StoreOK
<1>2. since' \in [Calls -> [up : SUBSET Nodes, off : SUBSET Nodes, cold : SUBSET Nodes]]
  BY StepIsLocal, TrackType DEF IInv
<1>3. Usable \subseteq Nodes /\ binding \in [Roles -> Nodes \cup {NoNode}]
  BY DEF Usable, IInv, TypeOK, NodesTypeOK
<1>4. at[c] = "aim" => pick[c] \in Nodes
  BY DEF IInv, CallInv, PickServed
<1> USE DEF MoveTo, Start, IInv, TypeOK, PickIsNode, Places, adminVars
<1>5. CASE Begin(c) \/ LookUp(c) \/ Unbind(c) \/ List(c)
  <2>1. at' \in [Calls -> Places] /\ pick' \in [Calls -> Nodes \cup {NoNode}]
    BY <1>3, <1>5 DEF Begin, LookUp, Unbind, List
  <2> QED
    BY <1>1, <1>2, <1>5, <2>1 DEF Begin, LookUp, Unbind, List
<1>6. CASE Aim(c)
  <2>1. /\ at' \in [Calls -> Places]
        /\ pick' \in [Calls -> Nodes \cup {NoNode}]
        /\ at'[c] = "try" => pick'[c] = pick[c]
    BY <1>6 DEF Aim
  <2>2. primary' \in [Calls -> Nodes \cup {NoNode}]
    BY <1>6 DEF Aim
  <2>3. tried' \in [Calls -> SUBSET Nodes]
    BY <1>4, <1>6 DEF Aim
  <2>4. at[c] = "aim" /\ at'[c] \in {"try", "fall"}
        /\ UNCHANGED <<queue, verdict, error, cooled, editing, seeding, edits, probes>>
    BY <1>6 DEF Aim
  <2> QED BY <1>1, <1>2, <1>4, <2>1, <2>2, <2>3, <2>4
<1>7. CASE Answer(c)
  BY <1>1, <1>2, <1>7 DEF Answer
<1>8. CASE Report(c)
  BY <1>1, <1>2, <1>8 DEF Report
<1>9. CASE Fall(c)
  BY <1>1, <1>2, <1>3, <1>9 DEF Fall
<1>10. CASE NextCandidate(c)
  <2>1. /\ at' \in [Calls -> Places] /\ at'[c] \in {"failed", "retry"}
        /\ pick' \in [Calls -> Nodes \cup {NoNode}]
        /\ at'[c] = "retry" => pick'[c] \in Nodes
    <3>1. CASE queue[c] = {} /\ MoveTo(c, "failed") /\ UNCHANGED <<pick, queue, tried>>
      BY <3>1
    <3>2. CASE \E n \in queue[c] : MoveTo(c, "retry") /\ Start(c, n)
      <4>1. PICK n \in queue[c] : MoveTo(c, "retry") /\ Start(c, n)
        BY <3>2
      <4>2. n \in Nodes
        BY <4>1
      <4> QED BY <4>1, <4>2
    <3> QED BY <3>1, <3>2, <1>10 DEF NextCandidate
  <2>2. queue' \in [Calls -> SUBSET Nodes]
    BY <1>10 DEF NextCandidate
  <2>3. tried' \in [Calls -> SUBSET Nodes]
    BY <1>10 DEF NextCandidate
  <2>4. UNCHANGED <<primary, verdict, error, cooled, editing, seeding, edits, probes>>
    BY <1>10 DEF NextCandidate
  <2> QED BY <1>1, <1>2, <2>1, <2>2, <2>3, <2>4
<1>11. CASE AnswerFallback(c)
  BY <1>1, <1>2, <1>11 DEF AnswerFallback
<1>12. CASE Tell(c)
  BY <1>1, <1>2, <1>12 DEF Tell
<1> QED
  BY <1>5, <1>6, <1>7, <1>8, <1>9, <1>10, <1>11, <1>12 DEF CallStep

-----------------------------------------------------------------------------
(* Cooldowns and administration *)

LEMMA AdminStep ==
  ASSUME IInv, (\E n \in Nodes : CoolDownEnds(n)) \/ Admin
  PROVE  TypeOK' /\ StoreOK' /\ Track /\ UNCHANGED callVars
<1> USE DEF adminVars
<1>1. /\ Track /\ UNCHANGED callVars
      /\ editing' \in SUBSET [node : Nodes, on : BOOLEAN]
      /\ seeding' \in 0 .. MaxSeeds /\ edits' \in 0 .. MaxEdits /\ probes' \in 0 .. MaxProbes
      /\ cooled' \in SUBSET Nodes
  <2> USE DEF IInv, TypeOK, Edit
  <2>1. CASE \E n \in Nodes : CoolDownEnds(n)
    BY <2>1 DEF CoolDownEnds
  <2>2. CASE SeedCount
    BY <2>2 DEF SeedCount
  <2>3. CASE \E n \in Nodes : CreateLLMNode(n) \/ SeedDefault(n)
    <3>1. PICK n \in Nodes : CreateLLMNode(n) \/ SeedDefault(n)
      BY <2>3
    <3>2. CASE CreateLLMNode(n)
      BY <3>2 DEF CreateLLMNode
    <3>3. CASE SeedDefault(n)
      <4>1. seeding' \in 0 .. MaxSeeds
        BY <3>3 DEF SeedDefault
      <4> QED BY <3>3, <4>1 DEF SeedDefault
    <3> QED BY <3>1, <3>2, <3>3
  <2>4. CASE \E n \in Nodes : ReadForUpdate(n)
    BY <2>4 DEF ReadForUpdate
  <2>5. CASE \E n \in Nodes : ActivateLLMNode(n) \/ DeleteLLMNode(n) \/ Probe(n)
    BY <2>5 DEF ActivateLLMNode, DeleteLLMNode, Probe
  <2>6. CASE \E e \in editing : WriteUpdate(e)
    BY <2>6 DEF WriteUpdate
  <2>7. CASE \E r \in Roles, n \in Nodes : Bind(r, n)
    BY <2>7 DEF Bind
  <2>8. CASE \E R \in {{r} : r \in Roles} \cup {Roles} : ClearBindings(R)
    BY <2>8 DEF ClearBindings
  <2> QED
    BY <2>1, <2>2, <2>3, <2>4, <2>5, <2>6, <2>7, <2>8 DEF Admin
<1>2. StoreOK'
  <2> USE DEF IInv
  <2>1. CASE UNCHANGED nodeVars
    BY <2>1, StoreStutters
  <2>2. ASSUME NEW n \in Nodes, CreateLLMNode(n) \/ SeedDefault(n)
        PROVE  StoreOK'
    BY <2>2, CreateKeeps DEF CreateLLMNode, SeedDefault
  <2>3. ASSUME NEW n \in Nodes, ActivateLLMNode(n) \/ DeleteLLMNode(n)
        PROVE  StoreOK'
    BY <2>3, AdminKeeps DEF ActivateLLMNode, DeleteLLMNode
  <2>4. ASSUME NEW e \in editing, WriteUpdate(e)
        PROVE  StoreOK'
    <3>1. e.node \in Nodes /\ e.on \in BOOLEAN
      BY DEF TypeOK
    <3> QED BY <2>4, <3>1, AdminKeeps DEF WriteUpdate
  <2>5. ASSUME NEW r \in Roles, NEW n \in Nodes, Bind(r, n)
        PROVE  StoreOK'
    <3>1. SetBinding(r, n)
      BY <2>5 DEF Bind
    <3> QED
      BY <3>1 DEF StoreOK, NodesTypeOK, BreakerIsExact, UnbornIsBlank, SetBinding, breaker
  <2>6. ASSUME NEW R \in {{r} : r \in Roles} \cup {Roles}, ClearBindings(R)
        PROVE  StoreOK'
    <3>1. DeleteBindings(R)
      BY <2>6 DEF ClearBindings
    <3> QED
      BY <3>1 DEF StoreOK, NodesTypeOK, BreakerIsExact, UnbornIsBlank, DeleteBindings, breaker
  <2>7. ASSUME NEW n \in Nodes, Probe(n)
        PROVE  StoreOK'
    BY <2>7, HealthKeeps DEF Probe
  <2> QED
    BY <2>1, <2>2, <2>3, <2>4, <2>5, <2>6, <2>7
       DEF Admin, CoolDownEnds, SeedCount, ReadForUpdate
<1>3. TypeOK'
  BY <1>1, <1>2, TrackType DEF IInv, TypeOK, callVars, StoreOK
<1> QED BY <1>1, <1>2, <1>3

-----------------------------------------------------------------------------
(* The inductive invariant *)

LEMMA InitHolds == Init => IInv
<1> SUFFICES ASSUME Init PROVE IInv
  OBVIOUS
<1>1. Cardinality(Standing) \in Nat
  BY FS_Subset, FS_CardinalityType
<1>2. NodesTypeOK
  BY <1>1 DEF Init, NodesInit, NodesTypeOK
<1>3. StoreOK
  BY <1>2 DEF Init, NodesInit, StoreOK, BreakerIsExact, UnbornIsBlank
<1>4. TypeOK
  BY <1>2 DEF Init, TypeOK, Places, Untouched
<1>5. \A c \in Calls : CallInv(c) /\ PickIsNode(c)
  BY DEF Init, CallInv, PickIsNode, PrimaryTried, PickServed, QueueFits,
     FailedIsExhausted, Resolving, OnPrimary, OnQueue, Trying
<1> QED BY <1>3, <1>4, <1>5 DEF IInv

LEMMA StepHolds == IInv /\ [Next]_vars => IInv'
<1> SUFFICES ASSUME IInv, [Next]_vars PROVE IInv'
  OBVIOUS
<1>1. ASSUME NEW c \in Calls, CallStep(c)
      PROVE  IInv'
  <2>1. CallInv(c)'
    BY <1>1, ResolveKeeps, AimKeeps, AnswerKeeps, FallKeeps, NextKeeps, TellKeeps
       DEF CallStep
  <2>2. ASSUME NEW d \in Calls \ {c}
        PROVE  CallInv(d)' /\ PickIsNode(d)'
    <3>1. Track /\ CallFrame(d)
      BY <1>1, StepIsLocal DEF IInv, OnlyOf
    <3> QED
      BY <3>1, Bystander DEF IInv, CallFrame, PickIsNode
  <2> QED
    BY <1>1, <2>1, <2>2, CallTypes, CallStoreKeeps DEF IInv
<1>2. CASE (\E n \in Nodes : CoolDownEnds(n)) \/ Admin
  <2>1. TypeOK' /\ StoreOK' /\ Track /\ UNCHANGED callVars
    BY <1>2, AdminStep
  <2>2. \A c \in Calls : CallFrame(c)
    BY <2>1 DEF CallFrame, callVars
  <2> QED
    BY <2>1, <2>2, Bystander DEF IInv, CallFrame, PickIsNode
<1>3. CASE UNCHANGED vars
  BY <1>3 DEF vars, nodeVars, callVars, adminVars, IInv, TypeOK, StoreOK,
     NodesTypeOK, BreakerIsExact, UnbornIsBlank, CallInv, PickIsNode, PrimaryTried,
     PickServed, QueueFits, FailedIsExhausted
<1> QED BY <1>1, <1>2, <1>3 DEF Next

\* The inductive invariant of the router and the node store.
THEOREM RouterInvariance == Spec => []IInv
BY InitHolds, StepHolds, PTL DEF Spec

\* Every variable keeps its type, for any number of nodes, roles and calls.
THEOREM RouterTypes == Spec => []TypeOK
<1>1. IInv => TypeOK
  BY DEF IInv
<1> QED BY <1>1, RouterInvariance, PTL

\* _breaker_update, record_node_health, activate_node: the breaker is open
\* exactly when the counter is at the threshold.
THEOREM BreakerExact == Spec => []BreakerIsExact
<1>1. IInv => BreakerIsExact
  BY DEF IInv, StoreOK
<1> QED BY <1>1, RouterInvariance, PTL

\* A call that fails has tried every node that was usable all the time it ran.
THEOREM Exhaustive == Spec => []FailoverIsExhaustive
<1>1. IInv => FailoverIsExhaustive
  BY DEF IInv, CallInv, FailedIsExhausted, FailoverIsExhaustive
<1> QED BY <1>1, RouterInvariance, PTL

\* No attempt on a node that was out of service all the time the call ran.
THEOREM Serving == Spec => []OnlyServingNodes
<1>1. IInv => OnlyServingNodes
  BY DEF IInv, CallInv, PickServed, QueueFits, OnlyServingNodes, Trying
<1> QED BY <1>1, RouterInvariance, PTL

\* No call aims at one node twice.
THEOREM NeverTwice == Spec => NoNodeTwice
<1>1. ASSUME IInv, [Next]_vars, NEW c \in Calls, Attempts(c)
      PROVE  pick'[c] \notin tried[c]
  <2>1. at'[c] # at[c]
    BY <1>1 DEF Attempts
  <2>2. CallStep(c)
    <3>1. ~ UNCHANGED vars /\ ~ UNCHANGED callVars
      BY <2>1 DEF vars, callVars
    <3>2. ~ ((\E n \in Nodes : CoolDownEnds(n)) \/ Admin)
      BY <1>1, <3>1, AdminStep
    <3>3. PICK d \in Calls : CallStep(d)
      BY <1>1, <3>1, <3>2 DEF Next
    <3>4. d = c
      BY <1>1, <2>1, <3>3, StepIsLocal DEF IInv, OnlyOf, CallFrame
    <3> QED BY <3>3, <3>4
  <2>3. Aim(c) \/ NextCandidate(c)
    BY <1>1, <2>2 DEF CallStep, Attempts, Trying, IInv, TypeOK, MoveTo, Begin, LookUp,
       Unbind, List, Answer, Report, Fall, AnswerFallback, Tell
  <2>4. CASE Aim(c)
    BY <1>1, <2>4 DEF Aim, IInv, CallInv, PrimaryTried, Resolving, OnPrimary
  <2>5. CASE NextCandidate(c)
    <3>1. queue[c] \cap tried[c] = {}
      BY <1>1, <2>5 DEF NextCandidate, IInv, CallInv, QueueFits, OnQueue
    <3>2. pick'[c] \in queue[c]
      BY <1>1, <2>5 DEF NextCandidate, Attempts, Trying, IInv, TypeOK, MoveTo, Start
    <3> QED BY <3>1, <3>2
  <2> QED BY <2>3, <2>4, <2>5
<1>2. IInv /\ [Next]_vars => (\A c \in Calls : Attempts(c) => pick'[c] \notin tried[c])
  BY <1>1
<1> QED
  BY <1>2, RouterInvariance, PTL DEF Spec, NoNodeTwice

\* delete_node: a tenant keeps an active node, unless an update takes it away.
THEOREM LastActive == Spec => LastActiveStays
<1>1. ASSUME IInv, [Next]_vars, active # {}, active' = {}
      PROVE  nodes' = {} \/ editing' # editing
  <2>1. ASSUME NEW n \in Nodes, DeleteLLMNode(n)
        PROVE  nodes' = {}
    BY <1>1, <2>1 DEF DeleteLLMNode, DeleteNode
  <2>2. ASSUME NEW e \in editing, WriteUpdate(e)
        PROVE  editing' # editing
    BY <2>2 DEF WriteUpdate
  <2>3. UNCHANGED active \/ active \subseteq active'
        \/ (\E n \in Nodes : DeleteLLMNode(n)) \/ (\E e \in editing : WriteUpdate(e))
    <3>1. CASE UNCHANGED vars
      BY <3>1 DEF vars, nodeVars
    <3>2. CASE \E c \in Calls : CallStep(c)
      BY <3>2 DEF CallStep, Begin, LookUp, Unbind, List, Aim, Answer, Report, Fall,
         NextCandidate, AnswerFallback, Tell, nodeVars, Outcome, DeleteBindings
    <3>3. CASE \E n \in Nodes : CoolDownEnds(n)
      BY <3>3 DEF CoolDownEnds, nodeVars
    <3>4. CASE Admin
      BY <3>4 DEF Admin, SeedCount, CreateLLMNode, SeedDefault, CreateNode,
         ReadForUpdate, ActivateLLMNode, ActivateNode, Probe, RecordHealth, Bind,
         SetBinding, ClearBindings, DeleteBindings, nodeVars
    <3> QED BY <1>1, <3>1, <3>2, <3>3, <3>4 DEF Next
  <2> QED BY <1>1, <2>1, <2>2, <2>3
<1>2. IInv /\ [Next]_vars => (active # {} /\ active' = {} => nodes' = {} \/ editing' # editing)
  BY <1>1
<1> QED
  BY <1>2, RouterInvariance, PTL DEF Spec, LastActiveStays
=============================================================================
