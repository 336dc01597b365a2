---------------------------- MODULE MCIdentity ------------------------------
(* Two browsers, before the set-up, after it, and with a user besides root who *)
(* has come by two providers.                                                  *)
EXTENDS Identity, TLC

CONSTANTS b1, b2, n1, n2

MCPeople == [p \in Providers |-> IF p = "github" THEN {1, 2} ELSE {1}]

Root(mail) == [NoRow EXCEPT !.there = "live", !.root = TRUE, !.name = Named("root"),
                            !.mail = mail]
Ann == [NoRow EXCEPT !.there = "live", !.name = [of |-> "github", n |-> 2],
                     !.ext = [p \in Providers |-> IF p \in {"github", "oidc"} THEN 1 ELSE 0]]
Table(rows) == [u \in Users |-> IF u \in DOMAIN rows THEN rows[u] ELSE NoRow]
MCTables == {Table(<< >>), Table(<<Root("none")>>), Table(<<Root("this"), Ann>>)}

Swaps(x, y) == {[v \in {x, y} |-> v], [v \in {x, y} |-> IF v = x THEN y ELSE x]}
MCSymmetry == {f @@ g : f \in Swaps(b1, b2), g \in Swaps(n1, n2)}
=============================================================================
