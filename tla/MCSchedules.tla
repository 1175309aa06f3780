----------------------------- MODULE MCSchedules -----------------------------
(***************************************************************************)
(* Schedules for TLC: its jobs, schedules and workers.                     *)
(***************************************************************************)
EXTENDS Schedules

CONSTANTS j1, j2, j3, s1, s2, w1
=============================================================================
