-------------------------- MODULE MCWorkflowGraph --------------------------
(***************************************************************************)
(* A small instance of RollbackPlan, and with it of WorkflowRules, for TLC *)
(***************************************************************************)
EXTENDS RollbackPlan

\* Node ids are integers here, so that a node is its own position.
MCOrder == [n \in Nodes |-> n]

=============================================================================
