----------------------------- MODULE MCRealtime -----------------------------
(***************************************************************************)
(* A small instance of Realtime.                                           *)
(***************************************************************************)
EXTENDS Realtime

Base == [kind |-> "realtime", priced |-> FALSE, unlimited |-> FALSE, mangled |-> FALSE,
         reserve |-> 2, price |-> 2, quota |-> 5, remain |-> 5,
         retries |-> 0, events |-> 1, others |-> 0, faults |-> 0]

\* A session with little quota while others spend; one that is dialled twice; a
\* trusted user and a statement that fails; an unlimited token; a model with a
\* price; a key that TrimLeft mangles; and an image the token cannot pay.
MCRequests ==
    {[Base EXCEPT !.events = 2, !.others = 1],
     [Base EXCEPT !.retries = 1],
     [Base EXCEPT !.quota = 201, !.remain = 201, !.faults = 1],
     [Base EXCEPT !.unlimited = TRUE, !.remain = 0],
     [Base EXCEPT !.priced = TRUE],
     [Base EXCEPT !.mangled = TRUE],
     [Base EXCEPT !.kind = "image", !.remain = 1, !.retries = 1, !.others = 1, !.faults = 1]}
=============================================================================
