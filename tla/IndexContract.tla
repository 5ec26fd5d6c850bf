---------------------------- MODULE IndexContract ----------------------------
(***************************************************************************)
(* What the knowledge index promises to a search: for each note it shows   *)
(* one revision, or nothing yet.  What is shown changes only to the        *)
(* revision the note has at that moment; a failed attempt, a crash or a    *)
(* restart takes nothing away.  An archived note is hidden for good.       *)
(***************************************************************************)
EXTENDS Integers

CONSTANTS Notes

VARIABLES
  revision,   \* the note's revision, 0 before it is written
  archived,   \* archived notes
  shown       \* the revision a search finds, 0 for none

vars == <<revision, archived, shown>>

Init ==
  /\ revision = [n \in Notes |-> 0]
  /\ archived = {}
  /\ shown = [n \in Notes |-> 0]

Write(n) ==
  /\ n \notin archived
  /\ revision' = [revision EXCEPT ![n] = @ + 1]
  /\ UNCHANGED <<archived, shown>>

Publish(n) ==
  /\ n \notin archived /\ revision[n] > 0
  /\ shown' = [shown EXCEPT ![n] = revision[n]]
  /\ UNCHANGED <<revision, archived>>

Archive(n) ==
  /\ n \notin archived /\ revision[n] > 0
  /\ revision' = [revision EXCEPT ![n] = @ + 1]
  /\ archived' = archived \cup {n}
  /\ shown' = [shown EXCEPT ![n] = 0]

Next == \E n \in Notes : Write(n) \/ Publish(n) \/ Archive(n)

Spec == Init /\ [][Next]_vars

=============================================================================
