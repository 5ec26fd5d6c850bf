--------------------------- MODULE WorkflowRules ---------------------------
(***************************************************************************)
(* The operators of WorkflowGraph on every acyclic graph, from every       *)
(* statuses.  A step gives the workflow the statuses that one of the       *)
(* operators computes, so that their results are inputs in turn.  Where    *)
(* the code sorts, filters and slices arrays, the arrays are compared with *)
(* the sets of WorkflowGraph.                                              *)
(***************************************************************************)
EXTENDS Integers, FiniteSets, Sequences

CONSTANTS
  Nodes, Order, Executable,   \* as in WorkflowGraph
  MaxLimit,                   \* maxParallelism is 1..MaxLimit
  SomeStatus                  \* the statuses of the nodes at the start

VARIABLES edges, st, limit

G == INSTANCE WorkflowGraph WITH Edges <- edges

vars == <<edges, st, limit>>

ASSUME RulesAssumption ==
  /\ IsFiniteSet(Nodes)
  /\ Order \in [Nodes -> Int]
  /\ \A m, n \in Nodes : Order[m] = Order[n] => m = n
  /\ Executable \subseteq Nodes
  /\ MaxLimit \in Nat
  /\ SomeStatus \subseteq G!NodeStatus

-----------------------------------------------------------------------------

\* validateWorkflow refuses cycles: every non-empty set of nodes has a member
\* with no predecessor inside the set.
Acyclic(E) ==
  \A S \in SUBSET Nodes :
    S # {} => \E n \in S : \A m \in S : <<m, n>> \notin E

Init ==
  /\ edges \in {E \in SUBSET (Nodes \X Nodes) : Acyclic(E)}
  /\ st \in [Nodes -> SomeStatus]
  /\ limit \in 1..MaxLimit

AdmitStep == st' = G!Admit(st, limit) /\ UNCHANGED <<edges, limit>>
RecalculateStep == st' = G!Recalculate(st, limit) /\ UNCHANGED <<edges, limit>>
RollbackStep ==
  \E n \in Nodes : /\ st[n] \notin {"pending", "ready"}
                   /\ st' = G!RolledBack(st, limit, n)
                   /\ UNCHANGED <<edges, limit>>

Next == AdmitStep \/ RecalculateStep \/ RollbackStep

Spec == Init /\ [][Next]_vars

-----------------------------------------------------------------------------
(* The arrays of the code, where WorkflowGraph has sets.                   *)

\* The members of S in workflow order: sorted, and filtered before or after.
Sorted(S) ==
  {q \in [1..Cardinality(S) -> S] :
     \A i, j \in 1..Cardinality(S) : i < j => Order[q[i]] < Order[q[j]]}

\* What getReadyNodeIds lets through: the predecessors are collected per edge.
ReadyPerEdge ==
  {n \in Nodes : /\ st[n] \in {"pending", "ready"}
                 /\ \A e \in edges : e[2] = n => st[e[1]] \in {"completed", "skipped"}}

\* Mutant of StableReadyIds: the slots already taken are not deducted.
StableReadyIdsUpToLimit(active, candidates) ==
  active \o SubSeq(candidates, 1, IF limit < Len(candidates) THEN limit
                                  ELSE Len(candidates))

\* getStableReadyNodeIds: the active nodes, then a slice of the candidates.
StableReadyIds(active, candidates) ==
  LET slots == IF limit > Len(active) THEN limit - Len(active) ELSE 0
  IN  IF slots = 0
      THEN active
      ELSE active \o SubSeq(candidates, 1,
                            IF slots < Len(candidates) THEN slots ELSE Len(candidates))

-----------------------------------------------------------------------------

(* getStableReadyNodeIds returns, without repetition, exactly the set      *)
(* StableReady: the active nodes whatever the limit, then the first ready  *)
(* candidates that fit (domain/workflow.ts:733-753 and 772-790).           *)
StableReadyIsTheSlice ==
  \A active \in Sorted(G!Active(st)), candidates \in Sorted(ReadyPerEdge \ G!Active(st)) :
    LET ids == StableReadyIds(active, candidates)
    IN  /\ {ids[i] : i \in 1..Len(ids)} = G!StableReady(st, limit)
        /\ \A i, j \in 1..Len(ids) : ids[i] = ids[j] => i = j

(* The law of admission, at this workflow (domain/workflow.ts:296-319 and  *)
(* 772-790).                                                               *)
AdmitFillsTheSlots == G!AdmitFillsTheSlots(st, limit)

(* The law of the projection, at this workflow                             *)
(* (domain/workflow.ts:818-870).                                           *)
ProjectionShowsWork == G!ProjectionShowsWork(st)

=============================================================================
