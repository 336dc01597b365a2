----------------------------- MODULE MCAccounts -----------------------------
(* The super administrator, a user with a token, and an id to be given out.    *)
EXTENDS Accounts

CONSTANTS root, user, late, key

MCUsers == {root, user, late}
MCOwner == [x \in {key} |-> user]
MCRow(x) ==
  IF x = late THEN NoRow
  ELSE [NoRow EXCEPT !.there = "live", !.role = IF x = root THEN Super ELSE Common]
\* The user has a token with one unit, the same token spent, or none yet.
MCToken(there, q) == [NoToken EXCEPT !.there = there, !.remain = q]
MCStart(there, q) ==
  [row |-> [x \in MCUsers |-> IF x = user THEN [MCRow(x) EXCEPT !.quota = q, !.aff = 1, !.checked = q = 1]
                              ELSE MCRow(x)],
   tok |-> [x \in {key} |-> MCToken(there, q)]]
MCStarts == {MCStart("live", 0), MCStart("live", 1), MCStart("none", 0)}
=============================================================================
