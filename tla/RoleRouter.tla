----------------------------- MODULE RoleRouter -----------------------------
(***************************************************************************)
(* LLM calls on behalf of pipeline roles (engine/role_router.py): a        *)
(* primary attempt on the node of the role, then one on every other usable *)
(* node, with the breaker of LLMNodes fed by every outcome and a cooldown  *)
(* in memory for nodes that timed out.  Calls of several runs, sessions    *)
(* and parallel stages are out together, while the tenant's nodes are      *)
(* administered (api/routers/nodes.py, api/routers/settings.py).           *)
(*                                                                         *)
(* A step is one call on the node store, one attempt on a node, or one     *)
(* look at the cooldowns.                                                  *)
(***************************************************************************)
EXTENDS LLMNodes

CONSTANTS
  Calls,       \* calls of call_with_role
  CallRole,    \* call -> its role
  MaxEdits,    \* bound: administrative operations other than creation
  MaxProbes,   \* bound: connection tests
  MaxSeeds     \* bound: requests seeding at the same time

ASSUME RouterAssumption ==
  /\ CallRole \in [Calls -> Roles]
  /\ MaxEdits \in Nat /\ MaxProbes \in Nat /\ MaxSeeds \in Nat

VARIABLES
  at,       \* call -> where it is
  pick,     \* call -> the node it looks at or tries, or NoNode
  primary,  \* call -> the node of its primary attempt, or NoNode
  queue,    \* call -> fallback candidates still to be tried
  verdict,  \* call -> how the last attempt ended
  error,    \* calls whose meta carries an error
  cooled,   \* nodes in _NODE_COOLDOWN
  tried,    \* history: call -> nodes it tried
  since,    \* history: call -> nodes up, off or cold ever since it began
  editing,  \* updates between their read and their write
  seeding,  \* requests that found no node and are about to create one
  edits, probes

callVars  == <<at, pick, primary, queue, verdict, error, tried>>
adminVars == <<editing, seeding, edits, probes>>
vars == <<nodeVars, callVars, cooled, since, adminVars>>

Places == {"idle",    \* not begun
           "look",    \* get_node(the bound node)
           "unbind",  \* delete_role_binding
           "list",    \* get_usable_nodes, for the primary
           "aim",     \* is the primary cooled down?
           "try",     \* the primary attempt
           "report",  \* breaker update after it
           "fall",    \* get_usable_nodes, for the fallback
           "next",    \* take the next candidate
           "retry",   \* a fallback attempt
           "tell",    \* breaker update after it
           "answered", "failed"}

Trying == {"try", "retry"}
Ended  == {"answered", "failed"}

TypeOK ==
  /\ NodesTypeOK
  /\ at      \in [Calls -> Places]
  /\ pick    \in [Calls -> Nodes \cup {NoNode}]
  /\ primary \in [Calls -> Nodes \cup {NoNode}]
  /\ queue   \in [Calls -> SUBSET Nodes]
  /\ verdict \in [Calls -> {"none", "ok", "timeout", "counted", "soft"}]
  /\ error   \in SUBSET Calls
  /\ cooled  \in SUBSET Nodes
  /\ tried   \in [Calls -> SUBSET Nodes]
  /\ since   \in [Calls -> [up : SUBSET Nodes, off : SUBSET Nodes, cold : SUBSET Nodes]]
  /\ editing \in SUBSET [node : Nodes, on : BOOLEAN]
  /\ seeding \in 0 .. MaxSeeds
  /\ edits \in 0 .. MaxEdits /\ probes \in 0 .. MaxProbes

Untouched == [up |-> Nodes, off |-> Nodes, cold |-> Nodes]

Init ==
  /\ NodesInit
  /\ at      = [c \in Calls |-> "idle"]
  /\ pick    = [c \in Calls |-> NoNode]
  /\ primary = [c \in Calls |-> NoNode]
  /\ queue   = [c \in Calls |-> {}]
  /\ verdict = [c \in Calls |-> "none"]
  /\ error   = {}
  /\ cooled  = {}
  /\ tried   = [c \in Calls |-> {}]
  /\ since   = [c \in Calls |-> Untouched]
  /\ editing = {}
  /\ seeding = 0
  /\ edits   = 0 /\ probes = 0

\* History: what has been so ever since a call began.  Part of every action.
Track ==
  since' = [c \in Calls |->
              IF at'[c] = "idle" THEN Untouched
              ELSE [up   |-> since[c].up   \cap (Usable' \ cooled'),
                    off  |-> since[c].off  \cap ((Nodes \ nodes') \cup disabled'),
                    cold |-> since[c].cold \cap cooled']]

-----------------------------------------------------------------------------
(* resolve_node_for_role, one store call at a time *)

MoveTo(c, p) == at' = [at EXCEPT ![c] = p]

\* get_role_binding
Begin(c) ==
  /\ at[c] = "idle"
  /\ LET bound == binding[CallRole[c]] IN
       /\ pick' = [pick EXCEPT ![c] = bound]
       /\ MoveTo(c, IF bound = NoNode THEN "list" ELSE "look")
  /\ UNCHANGED <<nodeVars, primary, queue, verdict, error, tried, cooled, adminVars>>
  /\ Track

\* A bound node serves its role even when it is not active.
LookUp(c) ==
  /\ at[c] = "look"
  /\ MoveTo(c, IF pick[c] \notin nodes THEN "unbind"
               ELSE IF pick[c] \in disabled THEN "list" ELSE "aim")
  /\ UNCHANGED <<nodeVars, pick, primary, queue, verdict, error, tried, cooled, adminVars>>
  /\ Track

\* Mutant of Unbind: the role is resolved afresh and the row is left alone.
UnbindRetries(c) ==
  /\ at[c] = "unbind"
  /\ MoveTo(c, "idle")
  /\ UNCHANGED <<nodeVars, pick, primary, queue, verdict, error, tried, cooled, adminVars>>
  /\ Track

\* The row of the role goes, whichever node it names by now.
Unbind(c) ==
  /\ at[c] = "unbind"
  /\ DeleteBindings({CallRole[c]})
  /\ MoveTo(c, "list")
  /\ UNCHANGED <<pick, primary, queue, verdict, error, tried, cooled, adminVars>>
  /\ Track

List(c) ==
  /\ at[c] = "list"
  /\ \/ /\ Usable = {}
        /\ pick' = [pick EXCEPT ![c] = NoNode]
        /\ MoveTo(c, "fall")
     \/ \E n \in Usable : /\ IsPick(CallRole[c], n, Usable)
                          /\ pick' = [pick EXCEPT ![c] = n]
                          /\ MoveTo(c, "aim")
  /\ UNCHANGED <<nodeVars, primary, queue, verdict, error, tried, cooled, adminVars>>
  /\ Track

-----------------------------------------------------------------------------
(* call_with_role: the primary attempt *)

Start(c, n) == /\ pick' = [pick EXCEPT ![c] = n]
               /\ tried' = [tried EXCEPT ![c] = @ \cup {n}]

\* A cooled-down node is no primary, and no candidate is barred on its account.
Aim(c) ==
  /\ at[c] = "aim"
  /\ IF pick[c] \in cooled
     THEN MoveTo(c, "fall") /\ UNCHANGED <<pick, primary, tried>>
     ELSE /\ MoveTo(c, "try")
          /\ Start(c, pick[c])
          /\ primary' = [primary EXCEPT ![c] = pick[c]]
  /\ UNCHANGED <<nodeVars, queue, verdict, error, cooled, adminVars>>
  /\ Track

\* The attempt ends, after the client's own retries: with a result, with a
\* timeout or an exception nobody expected (both cool the node down), with
\* another code the breaker counts, or with one it does not.
Answer(c) ==
  /\ at[c] = "try"
  /\ \E v \in {"ok", "timeout", "counted", "soft"} :
       /\ verdict' = [verdict EXCEPT ![c] = v]
       /\ cooled' = IF v = "timeout" THEN cooled \cup {pick[c]} ELSE cooled
  /\ MoveTo(c, "report")
  /\ UNCHANGED <<nodeVars, pick, primary, queue, error, tried, adminVars>>
  /\ Track

\* _report_call_outcome; a write that fails is swallowed.
Outcome(n, v) ==
  /\ \/ v = "ok" /\ CountSuccess(n)
     \/ v \in {"timeout", "counted"} /\ CountFailure(n)
     \/ UNCHANGED breaker
  /\ UNCHANGED <<nodes, born, active, binding>>

Report(c) ==
  /\ at[c] = "report"
  /\ Outcome(pick[c], verdict[c])
  /\ IF verdict[c] = "ok"
     THEN MoveTo(c, "answered") /\ UNCHANGED error
     ELSE MoveTo(c, "fall") /\ error' = error \cup {c}
  /\ UNCHANGED <<pick, primary, queue, verdict, tried, cooled, adminVars>>
  /\ Track

-----------------------------------------------------------------------------
(* call_with_role: the fallback *)

\* Mutant of Fall: the primary is a candidate for its own fallback.
FallOntoPrimary(c) ==
  /\ at[c] = "fall"
  /\ queue' = [queue EXCEPT ![c] = Usable \ cooled]
  /\ IF queue'[c] = {} THEN MoveTo(c, "failed") /\ error' = error \cup {c}
                       ELSE MoveTo(c, "next") /\ UNCHANGED error
  /\ UNCHANGED <<nodeVars, pick, primary, verdict, tried, cooled, adminVars>>
  /\ Track

\* Mutant of Fall: the single fallback node there was before failover.
FallOnce(c) ==
  /\ at[c] = "fall"
  /\ LET S == Usable \ (cooled \cup {primary[c]}) IN
       queue' = [queue EXCEPT ![c] = {n \in S : IsFirst(n, S)}]
  /\ IF queue'[c] = {} THEN MoveTo(c, "failed") /\ error' = error \cup {c}
                       ELSE MoveTo(c, "next") /\ UNCHANGED error
  /\ UNCHANGED <<nodeVars, pick, primary, verdict, tried, cooled, adminVars>>
  /\ Track

\* _fallback_candidates: listed once, and not looked at again.
Fall(c) ==
  /\ at[c] = "fall"
  /\ queue' = [queue EXCEPT ![c] = Usable \ (cooled \cup {primary[c]})]
  /\ IF queue'[c] = {} THEN MoveTo(c, "failed") /\ error' = error \cup {c}
                       ELSE MoveTo(c, "next") /\ UNCHANGED error
  /\ UNCHANGED <<nodeVars, pick, primary, verdict, tried, cooled, adminVars>>
  /\ Track

\* The candidates in the order get_usable_nodes gave them; none left raises the
\* last error.
NextCandidate(c) ==
  /\ at[c] = "next"
  /\ \/ /\ queue[c] = {}
        /\ MoveTo(c, "failed")
        /\ UNCHANGED <<pick, queue, tried>>
     \/ \E n \in queue[c] : /\ IsFirst(n, queue[c])
                            /\ MoveTo(c, "retry")
                            /\ Start(c, n)
                            /\ queue' = [queue EXCEPT ![c] = @ \ {n}]
  /\ UNCHANGED <<nodeVars, primary, verdict, error, cooled, adminVars>>
  /\ Track

\* Nothing cools down here, not even on a timeout.
AnswerFallback(c) ==
  /\ at[c] = "retry"
  /\ \E v \in {"ok", "timeout", "counted", "soft"} : verdict' = [verdict EXCEPT ![c] = v]
  /\ MoveTo(c, "tell")
  /\ UNCHANGED <<nodeVars, pick, primary, queue, error, tried, cooled, adminVars>>
  /\ Track

\* An error of an earlier attempt stays in meta when a fallback succeeds.
Tell(c) ==
  /\ at[c] = "tell"
  /\ Outcome(pick[c], verdict[c])
  /\ IF verdict[c] = "ok"
     THEN MoveTo(c, "answered") /\ UNCHANGED error
     ELSE MoveTo(c, "next") /\ error' = error \cup {c}
  /\ UNCHANGED <<pick, primary, queue, verdict, tried, cooled, adminVars>>
  /\ Track

CallStep(c) ==
  \/ Begin(c) \/ LookUp(c) \/ Unbind(c) \/ List(c)
  \/ Aim(c) \/ Answer(c) \/ Report(c)
  \/ Fall(c) \/ NextCandidate(c) \/ AnswerFallback(c) \/ Tell(c)

\* Sixty seconds after the timeout.
CoolDownEnds(n) ==
  /\ n \in cooled
  /\ cooled' = cooled \ {n}
  /\ UNCHANGED <<nodeVars, callVars, adminVars>>
  /\ Track

-----------------------------------------------------------------------------
(* Administration *)

CreateLLMNode(n) ==
  /\ CreateNode(n, FALSE)
  /\ UNCHANGED <<callVars, cooled, adminVars>>
  /\ Track

\* _seed_default_node counts the nodes ...
SeedCount ==
  /\ nodes = {} /\ seeding < MaxSeeds
  /\ seeding' = seeding + 1
  /\ UNCHANGED <<nodeVars, callVars, cooled, editing, edits, probes>>
  /\ Track

\* ... and then creates one, whatever has happened meanwhile.
SeedDefault(n) ==
  /\ seeding > 0
  /\ CreateNode(n, TRUE)
  /\ seeding' = seeding - 1
  /\ UNCHANGED <<callVars, cooled, editing, edits, probes>>
  /\ Track

Edit ==
  /\ edits < MaxEdits
  /\ edits' = edits + 1
  /\ UNCHANGED <<callVars, cooled, seeding, probes>>
  /\ Track

\* update_node reads the row, and later writes every field back: is_active as
\* the request asks, or as it was read, which comes to any of the two.  (Two
\* updates alike count as one.)
ReadForUpdate(n) ==
  /\ n \in nodes
  /\ \E on \in BOOLEAN : editing' = editing \cup {[node |-> n, on |-> on]}
  /\ UNCHANGED nodeVars
  /\ Edit

WriteUpdate(e) ==
  /\ WriteNode(e.node, e.on)
  /\ editing' = editing \ {e}
  /\ UNCHANGED <<callVars, cooled, seeding, edits, probes>>
  /\ Track

ActivateLLMNode(n) == ActivateNode(n) /\ Edit /\ UNCHANGED editing

DeleteLLMNode(n) == DeleteNode(n) /\ Edit /\ UNCHANGED editing

\* update_role_bindings and apply_role_preset, one role at a time.
Bind(r, n) == SetBinding(r, n) /\ Edit /\ UNCHANGED editing

\* One role, or all of them by the unified preset.
ClearBindings(R) == DeleteBindings(R) /\ Edit /\ UNCHANGED editing

\* _probe_and_record of a node read before; it may be gone by now.
Probe(n) ==
  /\ born[n] > 0
  /\ probes < MaxProbes
  /\ RecordHealth(n)
  /\ probes' = probes + 1
  /\ UNCHANGED <<callVars, cooled, editing, seeding, edits>>
  /\ Track

Admin ==
  \/ SeedCount
  \/ \E n \in Nodes : \/ CreateLLMNode(n) \/ SeedDefault(n)
                      \/ ReadForUpdate(n) \/ ActivateLLMNode(n) \/ DeleteLLMNode(n)
                      \/ Probe(n)
  \/ \E e \in editing : WriteUpdate(e)
  \/ \E r \in Roles, n \in Nodes : Bind(r, n)
  \/ \E R \in {{r} : r \in Roles} \cup {Roles} : ClearBindings(R)

Next ==
  \/ \E c \in Calls : CallStep(c)
  \/ \E n \in Nodes : CoolDownEnds(n)
  \/ Admin

Spec == Init /\ [][Next]_vars

\* A call runs in a thread of its own, a store call returns, and an attempt is
\* bounded by the client's timeout and deadline.
CallFairness ==
  \A c \in Calls : WF_vars(CallStep(c) /\ at[c] # "idle")

FairSpec == Spec /\ CallFairness

-----------------------------------------------------------------------------
(* Properties *)

\* An attempt begins in this step.
Attempts(c) == at[c] \notin Trying /\ at'[c] \in Trying

\* No call aims at the same node twice, however bindings, cooldowns and the list
\* of nodes change between its primary attempt and its fallback.
NoNodeTwice ==
  [][\A c \in Calls : Attempts(c) => pick'[c] \notin tried[c]]_vars

\* A call that fails has tried every node that was usable, and out of cooldown,
\* all the time it ran.
FailoverIsExhaustive ==
  \A c \in Calls : at[c] = "failed" => since[c].up \subseteq tried[c]

\* No attempt is made on a node that was deleted, switched off by the breaker or
\* cooled down all the time the call ran: what a call knows may be stale, never
\* older than the call.
OnlyServingNodes ==
  \A c \in Calls :
    at[c] \in Trying => pick[c] \notin since[c].off \cup since[c].cold

\* A tenant loses its last active node by an update that switches it off, or with
\* its last node; deleting the active one promotes another.
LastActiveStays ==
  [][active # {} /\ active' = {} => nodes' = {} \/ editing' # editing]_vars

\* Every call that begins ends, with an answer or an error.
CallsEnd == \A c \in Calls : at[c] # "idle" ~> at[c] \in Ended

-----------------------------------------------------------------------------
(* A statement of the repository that the code does not keep *)

\* role_router.py:341, of meta: "error: error message (if both attempts failed)".
ErrorMeansFailed == \A c \in error : at[c] # "answered"

=============================================================================
