------------------------- MODULE MCWorkflowRollback -------------------------
(***************************************************************************)
(* Small instances of WorkflowRollback for TLC.                            *)
(***************************************************************************)
EXTENDS WorkflowRollback, TLC

CONSTANTS a, b

OneNode == {a}
NoEdges == {}

\* An AI step and the human step after it.
ChainNodes == {a, b}
ChainEdges == {<<a, b>>}

MCOrder == [n \in Nodes |-> IF n = a THEN 1 ELSE 2]

MCRetryLimit == [n \in Nodes |-> IF n \in Executable THEN MaxAttempt ELSE 1]

=============================================================================
