--------------------------- MODULE WorkflowGraph ---------------------------
(***************************************************************************)
(* The pure scheduling rules of a requirement's workflow: which nodes are  *)
(* ready, which of them the parallelism limit admits, what the execution   *)
(* shows for a given workflow, and what a rollback touches.                *)
(* Source: domain/workflow.ts, domain/workflow-execution.ts,               *)
(* domain/node-run.ts, domain/workflow-rollback.ts.                        *)
(*                                                                         *)
(* A workflow is a function st \in [Nodes -> NodeStatus] over a fixed      *)
(* graph.  A node's position is Order[n]: compareWorkflowNodes breaks ties *)
(* by id, so the positions are distinct.                                   *)
(***************************************************************************)
EXTENDS Integers, FiniteSets

CONSTANTS
  Nodes,        \* ids of the requirement's workflow nodes
  Edges,        \* pairs <<source, target>>
  Order,        \* the nodes' positions
  Executable    \* nodes of type ai_generate or tool that have an executor

Preds(n) == {m \in Nodes : <<m, n>> \in Edges}

ASSUME GraphAssumption ==
  /\ IsFiniteSet(Nodes)
  /\ Edges \subseteq Nodes \X Nodes
  /\ Order \in [Nodes -> Int]
  /\ \A m, n \in Nodes : Order[m] = Order[n] => m = n
  /\ Executable \subseteq Nodes

\* validateWorkflow refuses cycles: every non-empty set of nodes has a member
\* with no predecessor inside the set.
ASSUME AcyclicAssumption ==
  \A S \in SUBSET Nodes : S # {} => \E n \in S : Preds(n) \cap S = {}

-----------------------------------------------------------------------------

NodeStatus == {"pending", "ready", "running", "waiting_user", "blocked",
               "paused", "completed", "failed", "skipped", "cancelled",
               "interrupted"}

ExecutionStatus == {"created", "running", "waiting_user", "paused",
                    "completed", "failed", "cancelled", "interrupted"}

\* ACTIVE_NODE_STATUSES: the statuses that occupy a parallelism slot.
ActiveStatus == {"ready", "running", "waiting_user", "paused", "blocked",
                 "interrupted"}

\* EDITABLE_NODE_STATUSES: the statuses whose topology may still be edited.
EditableStatus == {"pending", "ready"}

DoneStatus == {"completed", "skipped"}

\* allowedTransitions of domain/node-run.ts, which guards nodes and node runs,
\* as the set of pairs <<from, to>>.
NodeTransitions ==
  ({"pending"} \X {"ready", "skipped", "cancelled"}) \cup
  ({"ready"} \X {"running", "paused", "completed", "failed", "skipped", "cancelled"}) \cup
  {<<"running", "waiting_user">>, <<"waiting_user", "running">>} \cup
  ({"running", "waiting_user"} \X
     {"blocked", "paused", "completed", "failed", "cancelled", "interrupted"}) \cup
  ({"blocked"} \X
     {"ready", "running", "paused", "failed", "cancelled", "interrupted"}) \cup
  ({"paused"} \X {"ready", "cancelled"}) \cup
  ({"failed", "interrupted"} \X {"running", "cancelled"}) \cup
  {<<"cancelled", "running">>}

\* Mutant of CanMove: the transition table is not consulted.
CanMoveAnywhere(from, to) == from # to

CanMove(from, to) == <<from, to>> \in NodeTransitions

\* allowedTransitions of domain/workflow-execution.ts.
ExecutionTransitions ==
  ({"created"} \X {"running", "failed", "cancelled"}) \cup
  {<<"running", "waiting_user">>, <<"waiting_user", "running">>} \cup
  ({"running", "waiting_user"} \X
     {"paused", "completed", "failed", "cancelled", "interrupted"}) \cup
  ({"paused", "failed", "interrupted"} \X {"running", "cancelled"}) \cup
  {<<"cancelled", "running">>}

-----------------------------------------------------------------------------

Active(st) == {n \in Nodes : st[n] \in ActiveStatus}

AllDone(st) == \A n \in Nodes : st[n] \in DoneStatus

\* Mutant of ReadyNodes: one completed predecessor is enough.
ReadyAfterAny(st) ==
  {n \in Nodes : /\ st[n] \in EditableStatus
                 /\ Preds(n) # {} => \E m \in Preds(n) : st[m] \in DoneStatus}

\* getReadyNodeIds, as a set.
ReadyNodes(st) ==
  {n \in Nodes : /\ st[n] \in EditableStatus
                 /\ \A m \in Preds(n) : st[m] \in DoneStatus}

\* Mutant of FirstK: one too many.
FirstKAndOne(S, k) ==
  {n \in S : Cardinality({m \in S : Order[m] < Order[n]}) <= k}

\* The members of S with fewer than k members of S before them.
FirstK(S, k) == {n \in S : Cardinality({m \in S : Order[m] < Order[n]}) < k}

\* Mutant of StableReady: started nodes do not count against the limit.
StableReadyPerReady(st, limit) ==
  LET free == limit - Cardinality({n \in Nodes : st[n] = "ready"})
  IN  Active(st) \cup FirstK(ReadyNodes(st) \ Active(st), free)

\* getStableReadyNodeIds: the active nodes keep their slots, the free slots go
\* to the first ready nodes in workflow order.
StableReady(st, limit) ==
  LET free == limit - Cardinality(Active(st))
  IN  Active(st) \cup FirstK(ReadyNodes(st) \ Active(st), free)

\* The nodes a change leaves admitted: pending becomes ready
\* (the second half of WorkflowRuntime.finishNode, completeNode and skipNode).
Admit(st, limit) ==
  [n \in Nodes |->
     IF st[n] = "pending" /\ n \in StableReady(st, limit) THEN "ready" ELSE st[n]]

\* recalculateEditableNodeStatuses: after a topology edit the slots are given
\* out again from scratch among the nodes that have not started.
Recalculate(st, limit) ==
  LET blank == [n \in Nodes |->
                  IF st[n] \in EditableStatus THEN "pending" ELSE st[n]]
  IN  Admit(blank, limit)

\* instantiateRequirementWorkflow: maxParallelism starts at 1.
InstantiatedStatus == Admit([n \in Nodes |-> "pending"], 1)

\* Mutant of Projection: pending nodes that are ready are not looked at.
ProjectionOfStarted(st) ==
  LET some(S) == \E n \in Nodes : st[n] \in S
  IN  CASE AllDone(st) -> "completed"
        [] ~AllDone(st) /\ some({"ready", "running"}) -> "running"
        [] OTHER -> IF some({"waiting_user", "blocked"}) THEN "waiting_user"
                    ELSE IF some({"paused"}) THEN "paused" ELSE "failed"

\* getWorkflowExecutionProjection(...).status.
Projection(st) ==
  LET some(S) == \E n \in Nodes : st[n] \in S
  IN  IF AllDone(st) THEN "completed"
      ELSE IF \/ some({"ready", "running"})
              \/ \E n \in ReadyNodes(st) : st[n] = "pending" THEN "running"
      ELSE IF some({"waiting_user", "blocked"}) THEN "waiting_user"
      ELSE IF /\ Active(st) # {}
              /\ \A n \in Active(st) : st[n] = "paused" THEN "paused"
      ELSE IF some({"interrupted"}) THEN "interrupted"
      ELSE "failed"

\* The nodes reachable from a rollback target, the target included: the least
\* set that contains it and is closed under edges (the worklist of
\* planWorkflowRollback).
Affected(target) ==
  {n \in Nodes :
     \A S \in SUBSET Nodes :
       (/\ target \in S
        /\ \A e \in Edges : e[1] \in S => e[2] \in S) => n \in S}

\* planWorkflowRollback: the statuses after a rollback to the target.
RolledBack(st, limit, target) ==
  LET kept == {n \in Active(st) : n \notin Affected(target)}
  IN  [n \in Nodes |->
         CASE n \notin Affected(target) -> st[n]
           [] n = target /\ Cardinality(kept) < limit -> "ready"
           [] OTHER -> "pending"]

-----------------------------------------------------------------------------
(* What the rules promise of a workflow.                                   *)

(* Admitting a second time changes nothing: a transaction that recomputes  *)
(* readiness leaves no slot for the next one to fill, and never exceeds    *)
(* the limit unless the nodes already started did; so does the recount     *)
(* after a topology edit (domain/workflow.ts:296-319 and 772-790).         *)
AdmitFillsTheSlots(st, limit) ==
  \A after \in {Admit(st, limit), Recalculate(st, limit)} :
    LET count   == Cardinality(Active(after))
        started == Cardinality({n \in Active(st) : st[n] # "ready"})
    IN  /\ Admit(after, limit) = after
        /\ count < limit => \A n \in ReadyNodes(after) : after[n] = "ready"
        /\ after = Admit(st, limit)
             => count <= limit \/ count = Cardinality(Active(st))
        /\ after = Recalculate(st, limit)
             => count <= limit \/ count = started

(* The execution is shown running whenever a node can still be started or  *)
(* admitted: the projection never hides work that the worker would take    *)
(* (domain/workflow.ts:818-870).                                           *)
ProjectionShowsWork(st) ==
  /\ (\E n \in Nodes : st[n] \in {"ready", "running"})
       => Projection(st) = "running"
  /\ ReadyNodes(st) # {} => Projection(st) = "running"
  /\ Projection(st) = "paused"
       => \A n \in Nodes : st[n] \in ActiveStatus => st[n] = "paused"
  /\ Projection(st) = "failed"
       => Active(st) = {} /\ ~AllDone(st)

=============================================================================
