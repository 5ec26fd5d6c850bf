---------------------------- MODULE MCSchedules ----------------------------
(***************************************************************************)
(* Small instances of Schedules for TLC.                                   *)
(***************************************************************************)
EXTENDS Schedules

MCCrons == {{1, 3}}

=============================================================================
