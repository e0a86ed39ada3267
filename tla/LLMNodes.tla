------------------------------ MODULE LLMNodes ------------------------------
(***************************************************************************)
(* The LLM nodes of one tenant (engine/llm_nodes.py): which exist, which   *)
(* are active, the breaker that disables a failing node, and the bindings  *)
(* of pipeline roles to nodes.  Every operator below is one call on the    *)
(* store, which is atomic; only an update reads in one call and writes in  *)
(* another.  Names, keys, models and latencies are data.                   *)
(***************************************************************************)
EXTENDS Naturals, FiniteSets

CONSTANTS
  Nodes,      \* node ids, each given out at most once
  Local,      \* the nodes served by this machine
  Standing,   \* the nodes, all active, of the store the process starts on
  Roles,      \* pipeline roles
  Quality,    \* _QUALITY_SENSITIVE_ROLES
  Threshold,  \* BREAKER_THRESHOLD
  NoNode

ASSUME NodesAssumption ==
  /\ Local \subseteq Nodes /\ Standing \subseteq Nodes /\ NoNode \notin Nodes
  /\ IsFiniteSet(Nodes)
  /\ Quality \subseteq Roles
  /\ Threshold \in Nat \ {0}

VARIABLES
  nodes,     \* the rows of llm_nodes
  born,      \* node -> creation rank; 0 for an id not given out yet
  active,    \* is_active
  fails,     \* node -> consecutive_failures
  disabled,  \* auto_disabled
  binding    \* role -> node_id of its llm_role_assignments row, or NoNode

nodeVars == <<nodes, born, active, fails, disabled, binding>>
breaker  == <<fails, disabled>>

NodesTypeOK ==
  /\ nodes    \in SUBSET Nodes
  /\ born     \in [Nodes -> Nat]
  /\ active   \in SUBSET nodes
  /\ fails    \in [Nodes -> Nat]
  /\ disabled \in SUBSET nodes
  /\ binding  \in [Roles -> Nodes \cup {NoNode}]

NodesInit ==
  /\ nodes    = Standing
  /\ born     \in [Nodes -> 0 .. Cardinality(Standing)]
  /\ \A n \in Nodes : born[n] = 0 <=> n \notin Standing
  /\ \A m, n \in Standing : born[m] = born[n] => m = n
  /\ active   = Standing
  /\ fails    = [n \in Nodes |-> 0]
  /\ disabled = {}
  /\ binding  = [r \in Roles |-> NoNode]

-----------------------------------------------------------------------------
(* Reads *)

\* get_usable_nodes, as a set; get_active_node and the settings pages ignore
\* the breaker.
Usable == active \ disabled

\* Local nodes first, then the oldest.
Precedes(m, n) ==
  \/ m \in Local /\ n \notin Local
  \/ (m \in Local <=> n \in Local) /\ born[m] < born[n]
IsFirst(n, S)  == n \in S /\ \A m \in S \ {n} : Precedes(n, m)
IsOldest(n, S) == n \in S /\ \A m \in S \ {n} : born[n] < born[m]

\* resolve_node_for_role, when no binding decides.
IsPick(r, n, S) ==
  IF r \in Quality /\ S \ Local # {} THEN IsFirst(n, S \ Local) ELSE IsFirst(n, S)

-----------------------------------------------------------------------------
(* The breaker: _breaker_update; a deleted node has no row to update *)

CountFailure(n) ==
  /\ fails' = IF n \in nodes THEN [fails EXCEPT ![n] = @ + 1] ELSE fails
  /\ disabled' = IF n \in nodes /\ fails[n] + 1 >= Threshold
                 THEN disabled \cup {n} ELSE disabled

CountSuccess(n) ==
  /\ fails' = IF n \in nodes THEN [fails EXCEPT ![n] = 0] ELSE fails
  /\ disabled' = disabled \ {n}

-----------------------------------------------------------------------------
(* Administration *)

\* create_node: the first node is active, later ones when that is asked for.
CreateNode(n, activate) ==
  /\ born[n] = 0
  /\ born' = [born EXCEPT ![n] = 1 + Cardinality({m \in Nodes : born[m] > 0})]
  /\ nodes' = nodes \cup {n}
  /\ active' = IF nodes = {} \/ activate THEN active \cup {n} ELSE active
  /\ UNCHANGED <<breaker, binding>>

\* The write half of update_node; a deleted node has no row to update.
WriteNode(n, on) ==
  /\ active' = IF n \notin nodes THEN active
               ELSE IF on THEN active \cup {n} ELSE active \ {n}
  /\ UNCHANGED <<nodes, born, breaker, binding>>

\* Mutant of ActivateNode: the counter is forgotten.
ActivateUncleared(n) ==
  /\ n \in nodes
  /\ active' = active \cup {n}
  /\ disabled' = disabled \ {n}
  /\ UNCHANGED <<nodes, born, fails, binding>>

ActivateNode(n) ==
  /\ n \in nodes
  /\ active' = active \cup {n}
  /\ fails' = [fails EXCEPT ![n] = 0]
  /\ disabled' = disabled \ {n}
  /\ UNCHANGED <<nodes, born, binding>>

\* Mutant of DeleteNode: the breaker flag outlives the row.
DeleteFlagged(n) ==
  /\ n \in nodes
  /\ nodes' = nodes \ {n}
  /\ active' = active \ {n}
  /\ UNCHANGED <<born, breaker, binding>>

\* delete_node: when it was active, the oldest remaining node becomes active,
\* whatever the breaker says of it.  Bindings to it stay behind.
DeleteNode(n) ==
  /\ n \in nodes
  /\ nodes' = nodes \ {n}
  /\ IF n \in active /\ nodes' # {}
     THEN \E m \in nodes' : /\ IsOldest(m, nodes')
                            /\ active' = (active \ {n}) \cup {m}
     ELSE active' = active \ {n}
  /\ disabled' = disabled \ {n}
  /\ UNCHANGED <<born, fails, binding>>

\* record_node_health: "test connection" and "test all".  A transient status
\* only moves the badge.
RecordHealth(n) ==
  /\ CountSuccess(n) \/ CountFailure(n)
  /\ UNCHANGED <<nodes, born, active, binding>>

SetBinding(r, n) ==
  /\ n \in nodes
  /\ binding' = [binding EXCEPT ![r] = n]
  /\ UNCHANGED <<nodes, born, active, breaker>>

\* delete_role_binding for one role, clear_role_bindings for all.
DeleteBindings(R) ==
  /\ binding' = [r \in Roles |-> IF r \in R THEN NoNode ELSE binding[r]]
  /\ UNCHANGED <<nodes, born, active, breaker>>

-----------------------------------------------------------------------------
(* Properties *)

\* The breaker is open exactly when the counter stands at the threshold or
\* above, through failures, successes, probes, activation and deletion.
BreakerIsExact == \A n \in nodes : n \in disabled <=> fails[n] >= Threshold

=============================================================================
