----------------------------- MODULE Redemption -----------------------------
(***************************************************************************)
(* Redeeming codes: model.Redeem under its Redis lock, with the            *)
(* administrator's edits, deletions and bulk actions running beside it.    *)
(*                                                                         *)
(* A request is one call of Redeem.  Its transaction reads the code (the   *)
(* FOR UPDATE of gorm v1 is not known to gorm v2, so the row is not        *)
(* locked), decides on what it read, and writes everything at its commit,  *)
(* the code's row as a whole.                                              *)
(***************************************************************************)
EXTENDS Integers, FiniteSets

CONSTANTS
    Requests, Codes, Users,
    Waves,               \* the sets of requests that may come together
    CodeOf, UserOf,      \* the code and the user of a request
    Gifts,               \* codes with is_gift
    MaxUses,             \* max_uses of a code; -1 is unlimited
    NoOne,               \* not a request
    Admin,               \* the administrator actions of the instance
    Editable,            \* codes the administrator of the instance edits
    MaxAdmin,            \* bound: administrator actions
    MaxOutlived,         \* bound: locks that expire while their request runs
    MaxFaults            \* bound: crashes and failing transactions

ASSUME RedemptionAssumption ==
    /\ CodeOf \in [Requests -> Codes]
    /\ UserOf \in [Requests -> Users]
    /\ Gifts \subseteq Codes
    /\ Waves \subseteq SUBSET Requests
    /\ MaxUses \in [Codes -> Nat \cup {-1}]
    /\ NoOne \notin Requests
    /\ IsFiniteSet(Users)
    /\ Admin \subseteq {"edit", "status", "disable", "delete", "purge"}
    /\ Editable \subseteq Codes
    /\ MaxAdmin \in Nat /\ MaxOutlived \in Nat /\ MaxFaults \in Nat

Statuses == {"enabled", "disabled", "used"}
Rows == [status : Statuses, usedCount : Nat, deleted : BOOLEAN]

VARIABLES
    row,        \* table redemptions
    logs,       \* table redemption_logs
    grants,     \* how often a code's quota was added to a user
    rebates,    \* how often that user's inviter got his share
    lock,       \* "rloc:" keys in Redis; that of whom is not stored there
    pc, seen,   \* each request's progress and the row it has read
    edited,     \* codes an administrator has open, as he read them
    faults, outlived, adminOps  \* counted against their bounds

locals == <<pc, seen>>
tables == <<row, logs, grants, rebates>>
counts == <<faults, outlived, adminOps>>
vars == <<tables, lock, locals, edited, counts>>

Stages == {"start", "read", "count", "commit", "rebate", "unlock", "done", "crashed"}
Inside == {"read", "count", "commit", "rebate", "unlock"}

\* A row with its status changed, and a row softly deleted.
WithStatus(r, s) == [status |-> s, usedCount |-> r.usedCount, deleted |-> r.deleted]
Deleted(r) == [status |-> r.status, usedCount |-> r.usedCount, deleted |-> TRUE]

Closed == [status |-> "disabled", usedCount |-> 0, deleted |-> TRUE]

TypeOK ==
    /\ row \in [Codes -> Rows]
    /\ logs \subseteq Codes \X Users
    /\ grants \in [Codes \X Users -> Nat]
    /\ rebates \in [Codes \X Users -> Nat]
    /\ lock \in [Codes -> Requests \cup {NoOne}]
    /\ pc \in [Requests -> Stages]
    /\ seen \in [Requests -> Rows]
    /\ edited \in [Codes -> Rows]
    /\ faults \in Nat /\ outlived \in Nat /\ adminOps \in Nat

Init ==
    /\ row = [c \in Codes |-> [status |-> "enabled", usedCount |-> 0, deleted |-> FALSE]]
    /\ logs = {}
    /\ grants = [x \in Codes \X Users |-> 0]
    /\ rebates = [x \in Codes \X Users |-> 0]
    /\ lock = [c \in Codes |-> NoOne]
    /\ \E W \in Waves : pc = [q \in Requests |-> IF q \in W THEN "start" ELSE "done"]
    /\ seen = [q \in Requests |-> Closed]
    /\ edited = [c \in Codes |-> Closed]
    /\ faults = 0 /\ outlived = 0 /\ adminOps = 0

Goto(q, stage) == pc' = [pc EXCEPT ![q] = stage]
Claim(q) == <<CodeOf[q], UserOf[q]>>

-----------------------------------------------------------------------------
(***************************************************************************)
(* Redeem.                                                                 *)
(***************************************************************************)
\* Mutant: the key is set although it is there.
SetLock(q) ==
    /\ pc[q] = "start"
    /\ lock' = [lock EXCEPT ![CodeOf[q]] = q]
    /\ Goto(q, "read")
    /\ UNCHANGED <<tables, seen, edited, counts>>

\* SetNX: whoever finds the key is sent away, as on an error of Redis.
AcquireLock(q) ==
    /\ pc[q] = "start"
    /\ \/ /\ lock[CodeOf[q]] = NoOne
          /\ lock' = [lock EXCEPT ![CodeOf[q]] = q]
          /\ Goto(q, "read")
       \/ Goto(q, "done") /\ UNCHANGED lock
    /\ UNCHANGED <<tables, seen, edited, counts>>

UsedUp(c, r) == MaxUses[c] # -1 /\ r.usedCount >= MaxUses[c]

\* The row is read and judged: it must exist, be valid now (the clock is
\* left open), and be enabled or, for a gift code, have uses left.
ReadCode(q) ==
    LET c == CodeOf[q]
        r == row[c]
    IN  /\ pc[q] = "read"
        /\ seen' = [seen EXCEPT ![q] = r]
        /\ \/ Goto(q, "unlock")                 \* not yet valid, or expired
           \/ /\ r.deleted \/ IF c \in Gifts THEN UsedUp(c, r) ELSE r.status # "enabled"
              /\ Goto(q, "unlock")
           \/ /\ ~r.deleted
              /\ c \notin Gifts /\ r.status = "enabled"
              /\ Goto(q, "commit")
           \/ /\ ~r.deleted
              /\ c \in Gifts /\ ~UsedUp(c, r)
              /\ Goto(q, "count")
        /\ UNCHANGED <<tables, lock, edited, counts>>

\* Mutant: the log is not consulted.
CountNothing(q) ==
    /\ pc[q] = "count"
    /\ Goto(q, "commit")
    /\ UNCHANGED <<tables, lock, seen, edited, counts>>

\* A gift code is granted once to a user.
CountUses(q) ==
    /\ pc[q] = "count"
    /\ Goto(q, IF Claim(q) \in logs THEN "unlock" ELSE "commit")
    /\ UNCHANGED <<tables, lock, seen, edited, counts>>

\* The row a request saves: what it read, with its use noted.
Noted(c, r) ==
    LET n == IF c \in Gifts THEN r.usedCount + 1 ELSE r.usedCount
        spent == c \notin Gifts \/ (MaxUses[c] # -1 /\ n >= MaxUses[c])
    IN  [status |-> IF spent THEN "used" ELSE r.status, usedCount |-> n, deleted |-> r.deleted]

\* The transaction credits the user, logs a gift code's use, and saves the
\* code.  Save updates the row by its id; if the row has been deleted it
\* inserts it, and by its ON CONFLICT clause that undoes the deletion.
Commit(q) ==
    LET c == CodeOf[q]
    IN  /\ pc[q] = "commit"
        /\ \/ /\ grants' = [grants EXCEPT ![Claim(q)] = @ + 1]
              /\ logs' = IF c \in Gifts THEN logs \cup {Claim(q)} ELSE logs
              /\ row' = [row EXCEPT ![c] = Noted(c, seen[q])]
              /\ Goto(q, "rebate")
              /\ UNCHANGED <<rebates, faults>>
           \/ /\ faults < MaxFaults              \* the transaction fails
              /\ faults' = faults + 1
              /\ Goto(q, "unlock")
              /\ UNCHANGED tables
        /\ UNCHANGED <<lock, seen, edited, outlived, adminOps>>

\* Mutant: the rebate is paid in a loop that runs once too often.
RebateTwice(q) ==
    /\ pc[q] = "rebate"
    /\ rebates' = [rebates EXCEPT ![Claim(q)] = @ + 2]
    /\ Goto(q, "unlock")
    /\ UNCHANGED <<row, logs, grants, lock, seen, edited, counts>>

\* ProcessRebate, outside the transaction; its error is only logged.
PayRebate(q) ==
    /\ pc[q] = "rebate"
    /\ \/ /\ rebates' = [rebates EXCEPT ![Claim(q)] = @ + 1]
          /\ UNCHANGED faults
       \/ /\ faults < MaxFaults
          /\ faults' = faults + 1
          /\ UNCHANGED rebates
    /\ Goto(q, "unlock")
    /\ UNCHANGED <<row, logs, grants, lock, seen, edited, outlived, adminOps>>

\* The deferred Del removes the key, whoever set it.
ReleaseLock(q) ==
    /\ pc[q] = "unlock"
    /\ lock' = [lock EXCEPT ![CodeOf[q]] = NoOne]
    /\ Goto(q, "done")
    /\ UNCHANGED <<tables, seen, edited, counts>>

\* The server dies; an open transaction is rolled back, the key stays.
Crash(q) ==
    /\ pc[q] \in Inside
    /\ faults < MaxFaults
    /\ faults' = faults + 1
    /\ Goto(q, "crashed")
    /\ UNCHANGED <<tables, lock, seen, edited, outlived, adminOps>>

\* Mutant: the key is set without an expiry.
LockStays(c) == FALSE /\ lock[c] # NoOne /\ UNCHANGED vars

\* Redis drops a key ten seconds after it was set: that of a request that
\* died, or (MaxOutlived times) that of one that is still running.
LockExpires(c) ==
    /\ lock[c] # NoOne
    /\ lock' = [lock EXCEPT ![c] = NoOne]
    /\ \/ pc[lock[c]] \notin Inside /\ UNCHANGED outlived
       \/ outlived < MaxOutlived /\ outlived' = outlived + 1
    /\ UNCHANGED <<tables, locals, edited, faults, adminOps>>

-----------------------------------------------------------------------------
(***************************************************************************)
(* The administrator.                                                      *)
(***************************************************************************)
AdminOp(kind) == /\ kind \in Admin
                 /\ adminOps < MaxAdmin
                 /\ adminOps' = adminOps + 1
                 /\ UNCHANGED <<logs, grants, rebates, lock, locals, faults, outlived>>

\* UpdateRedemption reads the code ...
OpenCode(c) ==
    /\ c \in Editable
    /\ AdminOp("edit") \/ AdminOp("status")
    /\ ~row[c].deleted
    /\ edited' = [edited EXCEPT ![c] = row[c]]
    /\ UNCHANGED row

\* ... and writes name, status and quota back: the status it read, or with
\* status_only the one the administrator chose.
SaveCode(c) ==
    /\ ~edited[c].deleted
    /\ \E status \in (IF "edit" \in Admin THEN {edited[c].status} ELSE {})
                        \cup (IF "status" \in Admin THEN {"enabled", "disabled"} ELSE {}) :
          row' = IF row[c].deleted THEN row ELSE [row EXCEPT ![c] = WithStatus(@, status)]
    /\ edited' = [edited EXCEPT ![c] = Closed]
    /\ UNCHANGED <<logs, grants, rebates, lock, locals, counts>>

\* BatchDisableRedemptions.
DisableCodes(S) ==
    /\ AdminOp("disable")
    /\ row' = [c \in Codes |-> IF c \in S /\ ~row[c].deleted
                               THEN WithStatus(row[c], "disabled") ELSE row[c]]
    /\ UNCHANGED edited

\* DeleteRedemptionById, DeleteRedemptionsByName: soft deletion.
DeleteCodes(S) ==
    /\ AdminOp("delete")
    /\ row' = [c \in Codes |-> IF c \in S THEN Deleted(row[c]) ELSE row[c]]
    /\ UNCHANGED edited

\* DeleteDisabledRedemptions: disabled and used codes.
PurgeCodes ==
    /\ AdminOp("purge")
    /\ row' = [c \in Codes |-> IF row[c].status # "enabled" THEN Deleted(row[c]) ELSE row[c]]
    /\ UNCHANGED edited

-----------------------------------------------------------------------------
Redeem(q) == \/ AcquireLock(q) \/ ReadCode(q) \/ CountUses(q) \/ Commit(q)
             \/ PayRebate(q) \/ ReleaseLock(q)

Administer == \/ \E c \in Codes : OpenCode(c) \/ SaveCode(c)
              \/ \E S \in SUBSET Codes : DisableCodes(S) \/ DeleteCodes(S)
              \/ PurgeCodes

Next == \/ \E q \in Requests : Redeem(q) \/ Crash(q)
        \/ \E c \in Codes : LockExpires(c)
        \/ Administer

Spec == Init /\ [][Next]_vars

\* A request's goroutine runs on unless it dies, and Redis expires keys.
Fairness == /\ \A q \in Requests : WF_vars(Redeem(q))
            /\ \A c \in Codes : WF_vars(LockExpires(c))

FairSpec == Spec /\ Fairness

-----------------------------------------------------------------------------
(***************************************************************************)
(* Properties.                                                             *)
(***************************************************************************)
Granted(c) == {u \in Users : grants[<<c, u>>] > 0}

\* README: a gift code is "once per user, globally".
GiftOncePerUser == \A c \in Gifts, u \in Users : grants[<<c, u>>] <= 1

\* README: "the total number of uses can be controlled": no more users than
\* max_uses ever get a gift code's quota.
GiftUsesBounded ==
    \A c \in Gifts : MaxUses[c] # -1 => Cardinality(Granted(c)) <= MaxUses[c]

\* A normal code pays one user, once (redemption.Status and the lock).
CodeOnce ==
    \A c \in Codes \ Gifts : /\ Cardinality(Granted(c)) <= 1
                             /\ \A u \in Users : grants[<<c, u>>] <= 1

\* The table tells what happened: used_count of a gift code is the number of
\* its users in the log, and the log names exactly those who were paid.
UsesRecorded ==
    \A c \in Gifts : /\ {u \in Users : <<c, u>> \in logs} = Granted(c)
                     /\ row[c].usedCount = Cardinality(Granted(c))

\* A gift code pays as often as it may, and its records tell whom
\* (model/redemption.go, Redeem).
GiftsHold == GiftOncePerUser /\ GiftUsesBounded /\ UsesRecorded

\* While no lock outlives its ten seconds, Redeem works on a code for one
\* request at a time.
OneInside ==
    \A q, p \in Requests : /\ q # p /\ CodeOf[q] = CodeOf[p]
                           /\ pc[q] \in Inside /\ pc[p] \in Inside
                           => outlived > 0

\* An inviter is paid for a redemption at most once, and when all requests
\* have come to their end without a fault, for each.
RebatesFollowGrants ==
    /\ \A x \in Codes \X Users : rebates[x] <= grants[x]
    /\ (\A q \in Requests : pc[q] \notin Inside) /\ faults = 0 => rebates = grants

\* Every request ends, and a code is never blocked for good, although a
\* server may die holding its lock.
CodesUnblocked ==
    /\ <>(\A q \in Requests : pc[q] \in {"done", "crashed"})
    /\ \A c \in Codes : []<>(lock[c] = NoOne)
=============================================================================
