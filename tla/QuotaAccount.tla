---------------------------- MODULE QuotaAccount ----------------------------
(***************************************************************************)
(* What the billing code promises of one kind of account (the users'       *)
(* quota, or the tokens' remain_quota), with nothing said of how it does   *)
(* it: every attempt to serve a request owns one claim on one account; the *)
(* claim may be opened once with a reservation and is closed once, at the  *)
(* final price or at nothing; an account moves only with its claims.       *)
(***************************************************************************)
EXTENDS Integers, FiniteSetsExt

CONSTANTS Accounts,      \* the accounts (user ids, or token ids)
          Claims,        \* one claim per attempt to serve a request
          AccountOf,     \* the account a claim is made on
          Funds0         \* the quota each account starts with

VARIABLES funds,         \* what each account still has
          claim,         \* what each claim currently takes from its account
          phase          \* "open" (nothing reserved yet), "held" or "closed"

vars == <<funds, claim, phase>>

Init == /\ funds = Funds0
        /\ claim = [c \in Claims |-> 0]
        /\ phase = [c \in Claims |-> "open"]

\* Make claim c worth n from now on: its account moves by the difference.
Reprice(c, n) ==
    /\ claim' = [claim EXCEPT ![c] = n]
    /\ funds' = [funds EXCEPT ![AccountOf[c]] = @ + claim[c] - n]

\* preConsumeQuota: the expected price is reserved.
Hold(c) == /\ phase[c] = "open"
           /\ phase' = [phase EXCEPT ![c] = "held"]
           /\ claim'[c] \in Nat /\ Reprice(c, claim'[c])

\* postConsumeQuota: the claim ends at the price of the answer.
Settle(c) == /\ phase[c] = "held"
             /\ phase' = [phase EXCEPT ![c] = "closed"]
             /\ claim'[c] \in Nat /\ Reprice(c, claim'[c])

\* A rejected attempt, or returnPreConsumedQuota: the claim ends at nothing.
Release(c) == /\ phase[c] \in {"open", "held"}
              /\ phase' = [phase EXCEPT ![c] = "closed"]
              /\ Reprice(c, 0)

Next == \E c \in Claims : Hold(c) \/ Settle(c) \/ Release(c)

Spec == Init /\ [][Next]_vars

-----------------------------------------------------------------------------
\* At every moment an account is short of its initial quota by exactly what
\* the attempts made on it reserve or have been charged.
Conserved ==
    \A a \in Accounts :
        funds[a] + MapThenSumSet(LAMBDA c : claim[c],
                                 {c \in Claims : AccountOf[c] = a}) = Funds0[a]
=============================================================================
