---------------------------- MODULE RollbackPlan ----------------------------
(***************************************************************************)
(* The workflows of WorkflowRules with planWorkflowRollback as it runs: a  *)
(* worklist that visits the target and what its edges lead to, the plan    *)
(* made of what it has visited, and the statuses written from the plan.    *)
(* Everywhere else a rollback is RolledBack of WorkflowGraph, which names  *)
(* the result and not the way; here the way is shown to lead there.        *)
(***************************************************************************)
EXTENDS WorkflowRules

CONSTANT
  NoTarget    \* no rollback is being planned

VARIABLES
  target,     \* targetNodeId
  affected,   \* the nodes visited so far
  remaining   \* the stack of nodes still to be visited

planVars == <<edges, st, limit, target, affected, remaining>>

ASSUME PlanAssumption == NoTarget \notin Nodes

-----------------------------------------------------------------------------

\* Mutant of Successors: an edge replaces what the map holds for its source.
SuccessorsByLastEdge(n) ==
  {m \in Nodes : /\ <<n, m>> \in edges
                 /\ \A k \in Nodes : <<n, k>> \in edges => Order[k] <= Order[m]}

Successors(n) == {m \in Nodes : <<n, m>> \in edges}

\* The arrays that hold the members of S, in the order of whatever was iterated.
Arrays(S) ==
  {q \in [1..Cardinality(S) -> S] : \A m \in S : \E i \in 1..Cardinality(S) : q[i] = m}

Top  == remaining[Len(remaining)]
Rest == SubSeq(remaining, 1, Len(remaining) - 1)

Idle == target = NoTarget

Begin(n) ==
  /\ Idle /\ st[n] \notin {"pending", "ready"}
  /\ target' = n /\ affected' = {} /\ remaining' = <<n>>
  /\ UNCHANGED vars

\* A node that was pushed over a second edge before it was visited.
Discard ==
  /\ remaining # <<>> /\ Top \in affected
  /\ remaining' = Rest
  /\ UNCHANGED <<vars, target, affected>>

Visit ==
  /\ remaining # <<>> /\ Top \notin affected
  /\ affected' = affected \cup {Top}
  /\ \E next \in Arrays(Successors(Top)) : remaining' = Rest \o next
  /\ UNCHANGED <<vars, target>>

\* The statuses after the rollback: what is retained keeps its own, and the
\* target is ready if the retained nodes leave it a slot.
Planned ==
  LET occupied == Cardinality({n \in Nodes : n \notin affected /\ st[n] \in G!ActiveStatus})
  IN  [n \in Nodes |-> IF n \notin affected THEN st[n]
                       ELSE IF n = target /\ occupied < limit THEN "ready"
                       ELSE "pending"]

Write ==
  /\ ~Idle /\ remaining = <<>>
  /\ st' = Planned
  /\ target' = NoTarget /\ affected' = {}
  /\ UNCHANGED <<edges, limit, remaining>>

\* Planning and writing are one transaction: nothing else comes in between.
Otherwise ==
  /\ Idle /\ (AdmitStep \/ RecalculateStep)
  /\ UNCHANGED <<target, affected, remaining>>

PlanInit == Init /\ target = NoTarget /\ affected = {} /\ remaining = <<>>

PlanNext == (\E n \in Nodes : Begin(n)) \/ Discard \/ Visit \/ Write \/ Otherwise

PlanSpec == PlanInit /\ [][PlanNext]_planVars

-----------------------------------------------------------------------------

(* When the worklist is empty it has visited the least set that contains   *)
(* the target and is closed under edges, over however many paths a node    *)
(* was reached, and the plan is the rollback that the other modules take   *)
(* the transaction to write (domain/workflow-rollback.ts:50-96).           *)
PlanIsTheRollback ==
  ~Idle /\ remaining = <<>> => /\ affected = G!Affected(target)
                               /\ Planned = G!RolledBack(st, limit, target)

=============================================================================
