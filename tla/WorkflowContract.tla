-------------------------- MODULE WorkflowContract --------------------------
(***************************************************************************)
(* What a requirement's workflow promises, without saying how: nodes are   *)
(* opened only when everything before them is done, work that is done is   *)
(* not reopened by advancing, one step closes at most one node and opens   *)
(* in the same step the nodes that take the slot, and the requirement is   *)
(* finished in the step that closes the last node.  A rollback may undo    *)
(* work, together with all that follows it.                                *)
(***************************************************************************)
EXTENDS Integers, FiniteSets

CONSTANTS Nodes, Edges

VARIABLES
  stage,     \* waiting, open or done, for each node
  finished   \* is the requirement completed?

vars == <<stage, finished>>

Before(n) == {m \in Nodes : <<m, n>> \in Edges}

MayOpen(st, n) == \A m \in Before(n) : st[m] = "done"

Init ==
  /\ stage \in [Nodes -> {"waiting", "open"}]
  /\ \A n \in Nodes : stage[n] = "open" => Before(n) = {}
  /\ finished = FALSE

\* A node is closed when its work is completed, or skipped before it opens.
Advance ==
  /\ stage' \in [Nodes -> {"waiting", "open", "done"}]
  /\ \A n \in Nodes :
       \/ stage'[n] = stage[n]
       \/ stage'[n] = "done"
       \/ stage[n] = "waiting" /\ stage'[n] = "open" /\ MayOpen(stage', n)
  /\ \A m, n \in Nodes :
       stage[m] # "done" /\ stage'[m] = "done" /\
       stage[n] # "done" /\ stage'[n] = "done" => m = n
  /\ finished' = (\A n \in Nodes : stage'[n] = "done")

Spec == Init /\ [][Advance]_vars

\* Work is undone together with everything after it; one node may be opened
\* again at once.  (Only a rollback does this.)
Reopen ==
  \E S \in SUBSET Nodes : \E n \in S :
    /\ \A e \in Edges : e[1] \in S => e[2] \in S
    /\ stage' \in [Nodes -> {"waiting", "open", "done"}]
    /\ \A m \in Nodes : stage'[m] = IF m \notin S THEN stage[m]
                                   ELSE IF m = n THEN stage'[n] ELSE "waiting"
    /\ stage'[n] = "waiting" \/ (stage'[n] = "open" /\ MayOpen(stage', n))
    /\ finished' = FALSE

=============================================================================
