-------------------------- MODULE MCKnowledgeIndex --------------------------
(***************************************************************************)
(* Small instances of KnowledgeIndex for TLC.                              *)
(***************************************************************************)
EXTENDS KnowledgeIndex

MCRevisions == [n \in Notes |-> 2]

=============================================================================
