---------------------------- MODULE MCRedemption ----------------------------
(***************************************************************************)
(* Small instances of Redemption: one gift code or one normal code, and    *)
(* users who try it, one of them twice.                                    *)
(***************************************************************************)
EXTENDS Redemption, TLC

CONSTANTS u1, u2, u3, q1, q2, q3, q4, q5, q6, q7, gift, once

MCGift    == {q1, q2, q3, q4}
MCOnce    == {q5, q6, q7}
MCWaves   == {MCGift, MCOnce}
MCUserOf  == (q1 :> u1) @@ (q2 :> u1) @@ (q3 :> u2) @@ (q4 :> u3) @@ (q5 :> u1) @@ (q6 :> u1) @@ (q7 :> u2)
MCOfUser  == [q \in Requests |-> MCUserOf[q]]
MCOfCode  == [q \in Requests |-> IF q \in MCOnce THEN once ELSE gift]
TwoUses   == [c \in Codes |-> 2]
=============================================================================
