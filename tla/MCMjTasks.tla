------------------------------ MODULE MCMjTasks ------------------------------
(***************************************************************************)
(* Small instances of MjTasks: two tasks, on two channels.                 *)
(***************************************************************************)
EXTENDS MjTasks, TLC

CONSTANTS t1, t2, c1, c2

TwoChannels == [t \in Tasks |-> IF t = t1 THEN c1 ELSE c2]
MixedTasks == [t \in Tasks |-> IF t = t1 THEN "normal" ELSE "swap"]
=============================================================================
