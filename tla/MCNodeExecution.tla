-------------------------- MODULE MCNodeExecution --------------------------
(***************************************************************************)
(* Small instances of NodeExecution for TLC.                               *)
(***************************************************************************)
EXTENDS NodeExecution, TLC

CONSTANTS a, b, c, d

\* A diamond: a, then b and c in parallel, then the human node d.
MCNodes      == {a, b, c, d}
MCEdges      == {<<a, b>>, <<a, c>>, <<b, d>>, <<c, d>>}
MCOrder      == (a :> 1) @@ (b :> 2) @@ (c :> 3) @@ (d :> 4)
MCExecutable == {a, b, c}
MCSkippable  == {c, d}
\* Only b may be retried: one node with a history is enough to meet retries
\* in every state of the others.
MCRetryLimit == [n \in Nodes |-> IF n = b THEN 2 ELSE 1]

=============================================================================
