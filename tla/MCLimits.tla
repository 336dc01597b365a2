------------------------------ MODULE MCLimits ------------------------------
(* Two requests at a time, and each kind of limiter in each store: one and two *)
(* a window, with and without a smaller limit on successes, windows shorter    *)
(* and longer than the store remembers; and notifications, two of them.        *)
EXTENDS Limits, TLC

CONSTANTS a, b

MCClients == {a, b}
MCConfigs ==
  {[of |-> "address", redis |-> r, total |-> x[1], success |-> 0, period |-> x[2]] :
      r \in BOOLEAN, x \in {<<1, 2>>, <<2, 2>>, <<2, 3>>}}
  \cup {[of |-> o, redis |-> r, total |-> t, success |-> 1, period |-> 2] :
      o \in {"user", "token"}, r \in BOOLEAN, t \in {0, 2}}
  \cup {[of |-> "note", redis |-> r, total |-> 2, success |-> 0, period |-> 2] : r \in BOOLEAN}

Symmetry == Permutations(MCClients)
=============================================================================
