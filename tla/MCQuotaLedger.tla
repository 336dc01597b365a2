--------------------------- MODULE MCQuotaLedger ---------------------------
(***************************************************************************)
(* Small instances of QuotaLedger.                                         *)
(***************************************************************************)
EXTENDS QuotaLedger, TLC

CONSTANTS u1, u2, t1, t2, t3, r1, r2, r3

\* u1 is poor and has a limited token t1 and an unlimited token t2; u2 and
\* his limited token t3 are rich enough to be trusted with small requests.
MCUsers      == {u1, u2}
MCTokens     == {t1, t2, t3}
MCOwnerOf    == (t1 :> u1) @@ (t2 :> u1) @@ (t3 :> u2)
MCUserQuota  == (u1 :> 5) @@ (u2 :> 400)
MCTokenQuota == (t1 :> 2) @@ (t2 :> 0) @@ (t3 :> 300)

\* r1 and r2 contend for t1; r3 uses t3, is trusted, and pays afterwards.
Contend   == [r \in Requests |-> IF r = r3 THEN t3 ELSE t1]
\* r1 and r2 share only the user; r3 as before.
Apart     == [r \in Requests |-> IF r = r1 THEN t1 ELSE IF r = r2 THEN t2 ELSE t3]
MCReserve == [r \in Requests |-> IF r = r3 THEN 3 ELSE 2]
=============================================================================
