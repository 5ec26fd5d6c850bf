--------------------------- MODULE MCTopologyEdits ---------------------------
(***************************************************************************)
(* Small instances of TopologyEdits for TLC.                               *)
(***************************************************************************)
EXTENDS TopologyEdits, TLC

CONSTANTS a, b, c, x

\* A chain of two nodes and one that is independent; x may be inserted.
MCTemplate == (a :> 0) @@ (b :> 1) @@ (c :> 2)
MCEdges == {<<a, b>>}

=============================================================================
