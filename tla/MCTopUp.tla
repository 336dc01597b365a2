------------------------------- MODULE MCTopUp -------------------------------
(***************************************************************************)
(* Small instances of TopUp: two orders, notified several times, on one    *)
(* server.                                                                 *)
(***************************************************************************)
EXTENDS TopUp, TLC

CONSTANTS o1, o2, n1, n2, n3, m1

MCOrderOf == [n \in Notifications |-> IF n \in {n1, n2} THEN o1 ELSE o2]
OneServer == [n \in Notifications |-> m1]
=============================================================================
