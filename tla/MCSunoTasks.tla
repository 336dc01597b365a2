----------------------------- MODULE MCSunoTasks -----------------------------
(***************************************************************************)
(* Small instances of SunoTasks.                                           *)
(***************************************************************************)
EXTENDS SunoTasks

CONSTANTS r1, r2
=============================================================================
