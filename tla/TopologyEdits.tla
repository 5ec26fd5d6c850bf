---------------------------- MODULE TopologyEdits ----------------------------
(***************************************************************************)
(* The user's edits of a workflow that is under way: ManageRequirement-    *)
(* WorkflowUseCase (insert, remove) and WorkflowRuntime (updateEdge,       *)
(* reorder), between starts and ends of its nodes.                         *)
(*                                                                         *)
(* An edit changes the workflow, with the statuses of its nodes, and       *)
(* leaves the execution and all node runs but the inserted one as they     *)
(* are; each node has one run here, its first.  Edges are pairs, which the *)
(* schema keeps unique.  updateNode changes only content.                  *)
(***************************************************************************)
EXTENDS Integers, FiniteSets

CONSTANTS
  NodeIds,        \* ids nodes may have
  Template,       \* the template's nodes and their positions
  TemplateEdges,
  Skippable,      \* nodes whose configuration allows skipping
  Limit,          \* maxParallelism
  MaxEdits,       \* bound on edits
  NoNode          \* no anchor

ASSUME TopologyAssumption ==
  /\ DOMAIN Template \subseteq NodeIds /\ NoNode \notin NodeIds
  /\ TemplateEdges \subseteq (DOMAIN Template) \X (DOMAIN Template)
  /\ Limit \in Nat \ {0} /\ MaxEdits \in Nat

VARIABLES
  order,    \* RequirementWorkflow.nodes: the position of each node, from 0
  edges,    \* RequirementWorkflow.edges
  node,     \* the status of each node
  run,      \* the status of each node's NodeRun
  exec,     \* WorkflowExecution.status
  edits,    \* the number of edits so far
  edited    \* what kinds of edits there have been

vars == <<order, edges, node, run, exec, edits, edited>>

Present == DOMAIN order

\* The scheduling rules on a workflow with these positions and edges.
Graph(pos, E) == INSTANCE WorkflowGraph
  WITH Nodes <- DOMAIN pos, Edges <- E, Order <- pos, Executable <- {}
Now == INSTANCE WorkflowGraph
  WITH Nodes <- Present, Edges <- edges, Order <- order, Executable <- {}

\* validateWorkflow: edges between nodes that exist, and no cycle (so that
\* there is a terminal node).
Valid(nodes, E) ==
  /\ E \subseteq nodes \X nodes
  /\ \A S \in SUBSET nodes :
       S # {} => \E n \in S : \A m \in S : <<m, n>> \notin E

\* The positions a workflow can give its nodes.
Positions(nodes) ==
  {pos \in [nodes -> 0..(Cardinality(nodes) - 1)] :
     \A m, n \in nodes : pos[m] = pos[n] => m = n}

\* A template numbers its nodes when it is saved, and a workflow is validated
\* when it is instantiated from one.
ASSUME TemplateAssumption ==
  /\ IsFiniteSet(DOMAIN Template)
  /\ Template \in Positions(DOMAIN Template)
  /\ Valid(DOMAIN Template, TemplateEdges)

\* assertTopologyMutable and assertNodeEditable on the workflow, and
\* StartedNodeProtection on the node runs.
Mutable(n) ==
  /\ n \in Present
  /\ node[n] \in Now!EditableStatus
  /\ run[n] \in {"pending", "ready"}

\* Mutant of ExecutionIsActive: any that was not cancelled is taken.
ExecutionIsThere == exec # "cancelled"

\* getActiveByRequirement.
ExecutionIsActive == exec \notin {"completed", "cancelled"}

\* The history: an edit may put a node ahead of a ready one, or move readiness.
Edited(kinds) ==
  edits < MaxEdits /\ edits' = edits + 1 /\ edited' = edited \cup kinds

-----------------------------------------------------------------------------
(* The edits.                                                              *)

\* The edges once x stands after one anchor and before the other.
Between(x, after, before) ==
  (edges \ {<<after, before>>}) \cup {<<after, x>>, <<x, before>>}

Anchored(E) == {e \in E : NoNode \notin {e[1], e[2]}}

\* The position of the new node: in front of the second anchor, behind the
\* first, or last.
Place(after, before) ==
  IF before # NoNode THEN order[before]
  ELSE IF after # NoNode THEN order[after] + 1
  ELSE Cardinality(Present)

\* Mutant of WithNode: the nodes behind the new one stay where they are.
WithNodeUnmoved(x, k) ==
  [n \in Present \cup {x} |-> IF n = x THEN k ELSE order[n]]

\* Where the nodes stand once x stands at k: those from there on move up.
WithNode(x, k) ==
  [n \in Present \cup {x} |-> IF n = x THEN k
                             ELSE IF order[n] >= k THEN order[n] + 1 ELSE order[n]]

\* insertNode.  The statuses of the other nodes are not computed anew.
InsertNode(x, after, before) ==
  LET E == Anchored(Between(x, after, before))
  IN  /\ ExecutionIsActive
      /\ x \notin Present
      /\ \A n \in {after, before} \ {NoNode} : Mutable(n)
      /\ Valid(Present \cup {x}, E)
      /\ Edited({"ahead" : n \in {m \in Present : m = before /\ node[m] = "ready"}})
      /\ order' = WithNode(x, Place(after, before))
      /\ edges' = E
      /\ node' = [n \in Present \cup {x} |-> IF n = x THEN "pending" ELSE node[n]]
      /\ run' = [n \in Present \cup {x} |-> IF n = x THEN "pending" ELSE run[n]]
      /\ UNCHANGED exec

\* Mutant of Reconnected: what came before the node and what came after it
\* are left unconnected.
ReconnectedNot(n) == {e \in edges : n \notin {e[1], e[2]}}

\* What came before the node comes before what came after it.
Reconnected(n) ==
  {e \in edges : n \notin {e[1], e[2]}}
    \cup (Now!Preds(n) \X {m \in Present : <<n, m>> \in edges})

\* removeNode.  All node runs of the node are deleted with it.
RemoveNode(n) ==
  LET rest == Present \ {n}
  IN  /\ ExecutionIsActive
      /\ Mutable(n) /\ node[n] = "pending"
      /\ Valid(rest, Reconnected(n))
      /\ Edited({})
      /\ order' = [m \in rest |-> IF order[m] > order[n] THEN order[m] - 1 ELSE order[m]]
      /\ edges' = Reconnected(n)
      /\ node' = [m \in rest |-> node[m]]
      /\ run' = [m \in rest |-> run[m]]
      /\ UNCHANGED exec

\* Mutant of Rescheduled: the edit leaves the statuses as they are.
RescheduledNot(pos, E) == node

\* recalculateEditableNodeStatuses.  The node runs do not follow.
Rescheduled(pos, E) == Graph(pos, E)!Recalculate(node, Limit)

\* updateEdge.
UpdateEdge(e, f) ==
  LET E == (edges \ {e}) \cup {f}
  IN  /\ e \in edges /\ f \notin edges
      /\ \A n \in {e[1], e[2], f[1], f[2]} : Mutable(n)
      /\ Valid(Present, E)
      /\ Edited({"moved"})
      /\ edges' = E
      /\ node' = Rescheduled(order, E)
      /\ UNCHANGED <<order, run, exec>>

\* reorder: only nodes that have not started change their positions.
Reorder(pos) ==
  /\ pos # order
  /\ \A n \in Present : pos[n] # order[n] => Mutable(n)
  /\ Edited({"moved"})
  /\ order' = pos
  /\ node' = Rescheduled(pos, edges)
  /\ UNCHANGED <<edges, run, exec>>

-----------------------------------------------------------------------------
(* The transactions on nodes, as in NodeExecution.                         *)

\* updateExecution.
ExecAccepts(to) ==
  IF exec = to THEN exec = "running" ELSE <<exec, to>> \in Now!ExecutionTransitions

\* reserveNode.
ReserveNode(n) ==
  /\ run[n] \in {"ready", "failed"} /\ Now!CanMove(node[n], "running")
  /\ node' = [node EXCEPT ![n] = "running"]
  /\ run' = [run EXCEPT ![n] = "running"]
  /\ ExecAccepts(Now!Projection(node')) /\ exec' = Now!Projection(node')
  /\ UNCHANGED <<order, edges, edits, edited>>

\* Mutant of Activated: the node runs of the admitted nodes are left behind.
ActivatedNone(n, s, st) == [run EXCEPT ![n] = s]

\* activateReadyNodeRuns.
Activated(n, s, st) ==
  [m \in Present |-> IF m = n THEN s
                     ELSE IF node[m] = "pending" /\ st[m] = "ready" THEN "ready"
                     ELSE run[m]]

\* The end of a node: the free slot is given away.
End(n, s) ==
  LET st == Now!Admit([node EXCEPT ![n] = s], Limit)
  IN  /\ Now!CanMove(node[n], s)
      /\ \A m \in Present : node[m] = "pending" /\ st[m] = "ready"
                              => run[m] \in {"pending", "ready"}
      /\ node' = st
      /\ run' = Activated(n, s, st)
      /\ exec' = Now!Projection(st)
      /\ UNCHANGED <<order, edges, edits, edited>>

CompleteNode(n) ==
  /\ run[n] \in {"ready", "running"}
  /\ End(n, "completed") /\ ExecAccepts(exec')

FinishNode(n) ==
  /\ run[n] \in {"ready", "running"}
  /\ End(n, "failed") /\ ExecAccepts(exec')

\* Skipping the last open node of an execution that never ran takes it through
\* running first.
SkipNode(n) ==
  /\ n \in Skippable /\ run[n] \in {"pending", "ready"}
  /\ End(n, "skipped")
  /\ ExecAccepts(exec') \/ (exec = "created" /\ exec' = "completed")

-----------------------------------------------------------------------------

Init ==
  /\ order = Template /\ edges = TemplateEdges
  /\ node = Graph(Template, TemplateEdges)!InstantiatedStatus
  /\ run = node
  /\ exec = "created"
  /\ edits = 0 /\ edited = {}

Edit ==
  \/ \E x \in NodeIds, a, b \in Present \cup {NoNode} : InsertNode(x, a, b)
  \/ \E n \in Present : RemoveNode(n)
  \/ \E e \in edges, f \in Present \X Present : UpdateEdge(e, f)
  \/ \E pos \in Positions(Present) : Reorder(pos)

Work ==
  \E n \in Present : ReserveNode(n) \/ CompleteNode(n) \/ FinishNode(n) \/ SkipNode(n)

Next == Edit \/ Work

Spec == Init /\ [][Next]_vars

-----------------------------------------------------------------------------

(* The workflow is a valid graph, and nodes and runs are those present.    *)
TypeOK ==
  /\ Present \subseteq NodeIds /\ order \in Positions(Present)
  /\ Valid(Present, edges)
  /\ node \in [Present -> Now!NodeStatus] /\ run \in [Present -> Now!NodeStatus]
  /\ exec \in Now!ExecutionStatus
  /\ edits \in 0..MaxEdits /\ edited \subseteq {"ahead", "moved"}

(* An execution is completed exactly when no node is left open, although   *)
(* no edit looks at the execution's status again: not the removal of an    *)
(* open node, nor an edge that makes one wait                              *)
(* (manage-requirement-workflow.ts:46-131).                                *)
CompletedTogether == exec = "completed" <=> Now!AllDone(node)

(* Unless a node was put in front of one that was ready, every node that   *)
(* is admitted or beyond has its predecessors done, whatever was inserted, *)
(* removed, reconnected and reordered under way.                           *)
DependencyOrder ==
  "ahead" \notin edited =>
    \A e \in edges :
      node[e[2]] \notin {"pending", "skipped"} => node[e[1]] \in Now!DoneStatus

(* Insertions and removals never strand a workflow: one that is not        *)
(* completed has a node that is running or that can be started             *)
(* (manage-requirement-workflow.ts:46-129).  Reconnecting and reordering   *)
(* can: the statuses they compute anew are not those of the node runs.     *)
SomethingCanStart ==
  "moved" \notin edited =>
    \/ exec = "completed"
    \/ \E n \in Present :
         \/ run[n] = "running"
         \/ run[n] \in {"ready", "failed"} /\ Now!CanMove(node[n], "running")

\* What comes before n, directly or not.
Before(E, n) ==
  {m \in NodeIds : \A S \in SUBSET NodeIds :
     (n \in S /\ \A e \in E : e[2] \in S => e[1] \in S) => m \in S} \ {n}

(* An insertion or a removal never takes away what comes before what among *)
(* the nodes that stay, and a removal adds nothing                         *)
(* (domain/workflow.test.ts:245 and 274 for one node between two).         *)
PrecedenceIsKept ==
  [][Present' # Present =>
       \A n \in Present \cap Present' :
         /\ Before(edges, n) \cap Present' \subseteq Before(edges', n)
         /\ Present' \subseteq Present => Before(edges', n) \subseteq Before(edges, n)]_vars

=============================================================================
