-------------------------- MODULE MCWorkflowEngine --------------------------
(***************************************************************************)
(* Small instances of WorkflowEngine for TLC.                              *)
(***************************************************************************)
EXTENDS WorkflowEngine, TLC

CONSTANTS a, b, c

\* One AI node: every interleaving of two executions of it.
OneNode == {a}
NoEdges == {}

\* A human step and the AI step after it.
ChainNodes == {a, b}
ChainEdges == {<<a, b>>}

\* Two branches and their join.
JoinNodes == {a, b, c}
JoinEdges == {<<a, c>>, <<b, c>>}

MCOrder == [n \in Nodes |-> CASE n = a -> 1 [] n = b -> 2 [] OTHER -> 3]

\* Executable nodes may be retried as often as MaxAttempt lets them.
MCRetryLimit == [n \in Nodes |-> IF n \in Executable THEN MaxAttempt ELSE 1]

=============================================================================
