--------------------------- MODULE PaymentsProofs ---------------------------
(***************************************************************************)
(* Theorems about the two ways quota is bought.                            *)
(*                                                                         *)
(* Redemption, when no lock outlives its ten seconds, for any codes,       *)
(* users, requests, crashes and administrator actions:                     *)
(*   GiftsAlwaysHold      a gift code keeps its limits, and its counter    *)
(*                        and log record who was paid.                     *)
(*   RebatesAreOwedOnce   an inviter is paid once at most for a grant, and *)
(*                        once if nothing has failed.                      *)
(*   UneditedCodesPayOnce, NormalCodesPayOnce                              *)
(*                        a normal code pays one user, once, unless an     *)
(*                        administrator saves it.                          *)
(* TopUp, when every notification of an order reaches the same server, for *)
(* any orders, notifications, failures and crashes:                        *)
(*   OrdersCreditedOnce   an order is credited once at most.               *)
(*   PaidOrdersStay       its status does not change after that.           *)
(*   OrdersSettle         when all is over and nothing has failed, the     *)
(*                        successful orders are those that were credited,  *)
(*                        and the inviter got his share of each.           *)
(***************************************************************************)
EXTENDS Redemption, TopUp, FiniteSetTheorems, TLAPS

USE RedemptionAssumption

Logged(c) == {u \in Users : <<c, u>> \in logs}

\* Whoever works on a code holds its lock; what he has read of its uses is
\* still so, and they were not used up.
Exclusive ==
    \A q \in Requests : pc[q] \in Inside => lock[CodeOf[q]] = q

StillTrue ==
    \A q \in Requests : CodeOf[q] \in Gifts /\ pc[q] \in {"count", "commit"} =>
        /\ seen[q].usedCount = row[CodeOf[q]].usedCount
        /\ ~UsedUp(CodeOf[q], seen[q])
        /\ pc[q] = "commit" => Claim(q) \notin logs

\* The log, the counter and the grants of a gift code agree.
Agree ==
    \A c \in Gifts :
        /\ \A u \in Users : /\ <<c, u>> \in logs => grants[<<c, u>>] = 1
                            /\ <<c, u>> \notin logs => grants[<<c, u>>] = 0
        /\ row[c].usedCount = Cardinality(Logged(c))
        /\ MaxUses[c] # -1 => row[c].usedCount <= MaxUses[c]

IInv == TypeOK /\ outlived = 0 /\ Exclusive /\ StillTrue /\ Agree

\* The initial state satisfies the invariant.
LEMMA InitInvariant == Init => IInv
<1> SUFFICES ASSUME Init PROVE IInv
  OBVIOUS
<1>1. TypeOK
  BY DEF Init, TypeOK, Rows, Statuses, Stages, Closed
<1>2. Exclusive /\ StillTrue /\ outlived = 0
  BY DEF Init, Exclusive, StillTrue, Inside
<1>3. \A c \in Codes : Logged(c) = {}
  BY DEF Init, Logged
<1>4. ASSUME NEW c \in Gifts
      PROVE  /\ \A u \in Users : <<c, u>> \notin logs /\ grants[<<c, u>>] = 0
             /\ row[c].usedCount = 0
             /\ MaxUses[c] # -1 => 0 <= MaxUses[c]
  <2>1. c \in Codes /\ MaxUses[c] \in Nat \cup {-1}
    OBVIOUS
  <2> QED
    BY <2>1 DEF Init
<1>5. Agree
  <2>1. \A c \in Gifts : Cardinality(Logged(c)) = 0
    BY <1>3, FS_EmptySet
  <2> QED
    BY <1>4, <2>1 DEF Agree
<1> QED
  BY <1>1, <1>2, <1>5 DEF IInv

\* Every request names a code and a user, and may be inside.
LEMMA ClaimType ==
    ASSUME NEW q \in Requests
    PROVE  /\ CodeOf[q] \in Codes /\ UserOf[q] \in Users
           /\ Claim(q) \in Codes \X Users
BY DEF Claim

\* Agree speaks of three tables only.
LEMMA AgreeUnchanged ==
    ASSUME Agree, UNCHANGED <<row, logs, grants>>
    PROVE  Agree'
<1>1. \A c \in Gifts : Logged(c)' = Logged(c)
  BY DEF Logged
<1> QED
  BY <1>1 DEF Agree

\* Steps of Redeem other than Commit leave tables a gift code's limits depend
\* on alone.
LEMMA WaitingKeepsInvariant ==
    ASSUME IInv, NEW q \in Requests,
           AcquireLock(q) \/ PayRebate(q) \/ ReleaseLock(q) \/ Crash(q)
    PROVE  IInv'
<1> USE ClaimType DEF IInv
<1>1. TypeOK'
  <2>1. CASE AcquireLock(q)
    <3>1. lock' \in [Codes -> Requests \cup {NoOne}] /\ pc' \in [Requests -> Stages]
      BY <2>1 DEF TypeOK, Stages, AcquireLock, Goto
    <3>2. UNCHANGED <<row, logs, grants, rebates, seen, edited, faults, outlived, adminOps>>
      BY <2>1 DEF AcquireLock, tables, counts
    <3> QED
      BY <3>1, <3>2 DEF TypeOK
  <2>2. CASE PayRebate(q)
    BY <2>2 DEF TypeOK, Stages, PayRebate, Goto
  <2>3. CASE ReleaseLock(q)
    BY <2>3 DEF TypeOK, Stages, ReleaseLock, Goto, tables, counts
  <2>4. CASE Crash(q)
    BY <2>4 DEF TypeOK, Stages, Crash, Goto, tables
  <2> QED
    BY <2>1, <2>2, <2>3, <2>4
<1>2. Exclusive'
  BY DEF TypeOK, Exclusive, Inside, AcquireLock, PayRebate, ReleaseLock, Crash, Goto
<1>3. StillTrue'
  BY DEF TypeOK, StillTrue, UsedUp, Claim, AcquireLock, PayRebate, ReleaseLock, Crash, Goto, tables
<1>4. Agree' /\ outlived' = 0
  BY AgreeUnchanged DEF AcquireLock, PayRebate, ReleaseLock, Crash, tables, counts
<1> QED
  BY <1>1, <1>2, <1>3, <1>4

\* Reading the code and the log keeps the invariant.
LEMMA ReadingKeepsInvariant ==
    ASSUME IInv, NEW q \in Requests, ReadCode(q) \/ CountUses(q)
    PROVE  IInv'
<1> USE ClaimType DEF IInv
<1>1. /\ UNCHANGED <<row, logs, grants, rebates, lock, edited, faults, outlived, adminOps>>
      /\ pc \in [Requests -> Stages] /\ seen \in [Requests -> Rows] /\ row \in [Codes -> Rows]
      /\ pc[q] \in {"read", "count"}
  BY DEF ReadCode, CountUses, TypeOK, tables, counts
<1>2. /\ pc' \in [Requests -> Stages] /\ seen' \in [Requests -> Rows]
      /\ pc'[q] \in Inside
      /\ \A p \in Requests \ {q} : pc'[p] = pc[p] /\ seen'[p] = seen[p]
  <2>1. PICK stage \in {"unlock", "commit", "count"} : Goto(q, stage)
    BY DEF ReadCode, CountUses
  <2>2. \/ UNCHANGED seen
        \/ row[CodeOf[q]] \in Rows /\ seen' = [seen EXCEPT ![q] = row[CodeOf[q]]]
    BY <1>1 DEF ReadCode, CountUses
  <2>3. stage \in Stages \cap Inside
    BY DEF Stages, Inside
  <2> QED
    BY <1>1, <2>1, <2>2, <2>3 DEF Goto
<1>3. TypeOK'
  BY <1>1, <1>2 DEF TypeOK
<1>4. Exclusive'
  BY <1>1, <1>2 DEF Exclusive, Inside
<1>5. CodeOf[q] \in Gifts /\ pc'[q] \in {"count", "commit"} =>
        /\ seen'[q].usedCount = row[CodeOf[q]].usedCount
        /\ ~UsedUp(CodeOf[q], seen'[q])
        /\ pc'[q] = "commit" => Claim(q) \notin logs
  <2>1. CASE ReadCode(q)
    BY <1>1, <2>1 DEF ReadCode, Goto
  <2>2. CASE CountUses(q)
    BY <1>1, <2>2 DEF CountUses, Goto, StillTrue
  <2> QED
    BY <2>1, <2>2
<1>6. StillTrue'
  BY <1>1, <1>2, <1>5 DEF StillTrue, UsedUp, Claim
<1>7. Agree' /\ outlived' = 0
  BY <1>1, AgreeUnchanged
<1> QED
  BY <1>3, <1>4, <1>6, <1>7

\* The commit: it alone writes the tables.
LEMMA CommitKeepsInvariant ==
    ASSUME IInv, NEW q \in Requests, Commit(q)
    PROVE  IInv'
<1> USE ClaimType DEF IInv
<1> DEFINE c == CodeOf[q]
           u == UserOf[q]
<1>1. /\ pc \in [Requests -> Stages] /\ row \in [Codes -> Rows] /\ seen \in [Requests -> Rows]
      /\ grants \in [Codes \X Users -> Nat] /\ pc[q] = "commit" /\ lock[c] = q
  BY DEF TypeOK, Commit, Exclusive, Inside
<1>2. CASE UNCHANGED tables
  <2>1. TypeOK'
    BY <1>1, <1>2 DEF TypeOK, Commit, Goto, Stages, tables
  <2>2. Exclusive' /\ StillTrue'
    BY <1>1, <1>2 DEF Exclusive, StillTrue, Inside, UsedUp, Claim, Commit, Goto, tables
  <2>3. Agree' /\ outlived' = 0
    BY <1>2, AgreeUnchanged DEF Commit, tables
  <2> QED
    BY <2>1, <2>2, <2>3
<1>3. CASE /\ grants' = [grants EXCEPT ![Claim(q)] = @ + 1]
           /\ logs' = IF c \in Gifts THEN logs \cup {Claim(q)} ELSE logs
           /\ row' = [row EXCEPT ![c] = Noted(c, seen[q])]
           /\ Goto(q, "rebate")
           /\ UNCHANGED <<rebates, lock, seen, edited, faults, outlived, adminOps>>
  <2>1. Noted(c, seen[q]) \in Rows
    BY <1>1 DEF Noted, Rows, Statuses
  <2>2. TypeOK'
    BY <1>1, <1>3, <2>1 DEF TypeOK, Goto, Stages
  <2>3. Exclusive'
    BY <1>1, <1>3 DEF Exclusive, Inside, Goto
  <2>4. \A p \in Requests : pc[p] \in {"count", "commit"} /\ p # q => CodeOf[p] # c
    BY <1>1 DEF Exclusive, Inside
  <2>5. ASSUME NEW p \in Requests, CodeOf[p] \in Gifts, pc'[p] \in {"count", "commit"}
        PROVE  /\ seen'[p].usedCount = row'[CodeOf[p]].usedCount
               /\ ~UsedUp(CodeOf[p], seen'[p])
               /\ pc'[p] = "commit" => Claim(p) \notin logs'
    <3>1. p # q /\ pc[p] = pc'[p] /\ CodeOf[p] # c
      BY <1>1, <1>3, <2>4, <2>5 DEF Goto
    <3>2. row'[CodeOf[p]] = row[CodeOf[p]] /\ (Claim(p) \in logs' <=> Claim(p) \in logs)
      BY <1>1, <1>3, <3>1 DEF Claim
    <3> QED
      BY <1>3, <2>5, <3>1, <3>2 DEF StillTrue
  <2>6. StillTrue'
    BY <2>5 DEF StillTrue, UsedUp, Claim
  <2>7. ASSUME NEW d \in Gifts
        PROVE  /\ \A v \in Users : /\ <<d, v>> \in logs' => grants'[<<d, v>>] = 1
                                   /\ <<d, v>> \notin logs' => grants'[<<d, v>>] = 0
               /\ row'[d].usedCount = Cardinality(Logged(d)')
               /\ MaxUses[d] # -1 => row'[d].usedCount <= MaxUses[d]
    <3>1. d \in Codes
      OBVIOUS
    <3>2. CASE d # c
      <4>1. /\ row'[d] = row[d]
            /\ \A v \in Users : /\ grants'[<<d, v>>] = grants[<<d, v>>]
                                /\ <<d, v>> \in logs' <=> <<d, v>> \in logs
        BY <1>1, <1>3, <3>1, <3>2 DEF Claim
      <4>2. Logged(d)' = Logged(d)
        BY <4>1 DEF Logged
      <4> QED
        BY <4>1, <4>2 DEF Agree
    <3>3. CASE d = c
      <4>1. /\ seen[q].usedCount = row[c].usedCount /\ ~UsedUp(c, seen[q])
            /\ <<c, u>> \notin logs
        BY <1>1, <3>3 DEF StillTrue, Claim
      <4>2. row'[c].usedCount = row[c].usedCount + 1
        BY <1>1, <1>3, <3>1, <3>3, <4>1 DEF Noted, Rows
      <4>3. Logged(c)' = Logged(c) \cup {u} /\ u \notin Logged(c)
        BY <1>3, <3>3, <4>1 DEF Logged, Claim
      <4>4. IsFiniteSet(Logged(c))
        BY FS_Subset DEF Logged
      <4>5. Cardinality(Logged(c)') = Cardinality(Logged(c)) + 1
        BY <4>3, <4>4, FS_AddElement
      <4>6. \A v \in Users : /\ <<c, v>> \in logs' => grants'[<<c, v>>] = 1
                             /\ <<c, v>> \notin logs' => grants'[<<c, v>>] = 0
        BY <1>1, <1>3, <3>3, <4>1 DEF Agree, Claim
      <4>7. MaxUses[c] # -1 => row'[c].usedCount <= MaxUses[c]
        <5>1. row[c].usedCount \in Nat /\ MaxUses[c] \in Nat \cup {-1}
          BY <1>1 DEF Rows
        <5> QED
          BY <4>1, <4>2, <5>1 DEF UsedUp
      <4>8. row[c].usedCount = Cardinality(Logged(c))
        BY <3>3 DEF Agree
      <4> QED
        BY <3>3, <4>2, <4>5, <4>6, <4>7, <4>8
    <3> QED
      BY <3>2, <3>3
  <2>8. Agree'
    BY <2>7 DEF Agree
  <2> QED
    BY <1>3, <2>2, <2>3, <2>6, <2>8
<1> QED
  BY <1>2, <1>3 DEF Commit, tables

\* Redis and the administrator: a lock expires only after its request, and no
\* administrator action touches used_count or the log.
LEMMA OutsideKeepsInvariant ==
    ASSUME MaxOutlived = 0, IInv, Administer \/ \E c \in Codes : LockExpires(c)
    PROVE  IInv'
<1> USE DEF IInv
<1>1. CASE \E c \in Codes : LockExpires(c)
  <2> PICK c \in Codes : LockExpires(c)
    BY <1>1
  <2>1. /\ pc[lock[c]] \notin Inside /\ lock[c] \in Requests
        /\ lock' = [lock EXCEPT ![c] = NoOne]
        /\ UNCHANGED <<row, logs, grants, rebates, pc, seen, edited, faults, outlived, adminOps>>
    BY DEF LockExpires, TypeOK, tables, locals
  <2>2. TypeOK' /\ outlived' = 0
    BY <2>1 DEF TypeOK
  <2>3. Exclusive'
    BY <2>1, ClaimType DEF Exclusive, TypeOK
  <2>4. StillTrue' /\ Agree'
    BY <2>1, AgreeUnchanged DEF StillTrue, UsedUp, Claim
  <2> QED
    BY <2>2, <2>3, <2>4
<1>2. CASE Administer
  <2>1. /\ UNCHANGED <<logs, grants, rebates, lock, pc, seen, faults, outlived>>
        /\ adminOps' \in Nat
        /\ row' \in [Codes -> Rows] /\ edited' \in [Codes -> Rows]
        /\ \A c \in Codes : row'[c].usedCount = row[c].usedCount
    <3>1. /\ row \in [Codes -> Rows] /\ edited \in [Codes -> Rows] /\ adminOps \in Nat
          /\ Closed \in Rows
      BY DEF TypeOK, Closed, Rows, Statuses
    <3>2. CASE \E c \in Codes : OpenCode(c)
      BY <3>1, <3>2 DEF OpenCode, AdminOp, locals
    <3>3. CASE \E c \in Codes : SaveCode(c)
      <4> PICK c \in Codes : SaveCode(c)
        BY <3>3
      <4>1. PICK s \in Statuses :
               row' = IF row[c].deleted THEN row ELSE [row EXCEPT ![c] = WithStatus(@, s)]
        BY <3>1 DEF SaveCode, Rows, Statuses
      <4> QED
        BY <3>1, <4>1 DEF SaveCode, WithStatus, Rows, locals, counts
    <3>4. CASE \E S \in SUBSET Codes : DisableCodes(S)
      BY <3>1, <3>4 DEF DisableCodes, WithStatus, AdminOp, Rows, Statuses, locals
    <3>5. CASE \E S \in SUBSET Codes : DeleteCodes(S)
      BY <3>1, <3>5 DEF DeleteCodes, Deleted, AdminOp, Rows, locals
    <3>6. CASE PurgeCodes
      BY <3>1, <3>6 DEF PurgeCodes, Deleted, AdminOp, Rows, locals
    <3> QED
      BY <1>2, <3>2, <3>3, <3>4, <3>5, <3>6 DEF Administer
  <2>2. TypeOK' /\ outlived' = 0
    BY <2>1 DEF TypeOK
  <2>3. Exclusive' /\ StillTrue'
    BY <2>1, ClaimType DEF Exclusive, StillTrue, UsedUp, Claim
  <2>4. Agree'
    <3>1. \A c \in Gifts : Logged(c)' = Logged(c)
      BY <2>1 DEF Logged
    <3> QED
      BY <2>1, <3>1 DEF Agree
  <2> QED
    BY <2>2, <2>3, <2>4
<1> QED
  BY <1>1, <1>2

\* The invariant holds in every reachable state.
THEOREM Invariance ==
    ASSUME MaxOutlived = 0
    PROVE  Spec => []IInv
<1>1. Init => IInv
  BY InitInvariant
<1>2. IInv /\ [Next]_vars => IInv'
  <2> SUFFICES ASSUME IInv, [Next]_vars PROVE IInv'
    OBVIOUS
  <2>1. CASE \E q \in Requests : Redeem(q) \/ Crash(q)
    BY <2>1, WaitingKeepsInvariant, ReadingKeepsInvariant, CommitKeepsInvariant DEF Redeem
  <2>2. CASE Administer \/ \E c \in Codes : LockExpires(c)
    BY <2>2, OutsideKeepsInvariant
  <2>3. CASE UNCHANGED vars
    <3>1. UNCHANGED <<row, logs, grants, rebates, lock, pc, seen, edited, faults, outlived,
                      adminOps>>
      BY <2>3 DEF vars, tables, locals, counts
    <3>2. TypeOK' /\ Exclusive' /\ outlived' = 0
      BY <3>1 DEF IInv, TypeOK, Exclusive
    <3>3. StillTrue' /\ Agree'
      BY <3>1, AgreeUnchanged DEF IInv, StillTrue, UsedUp, Claim
    <3> QED
      BY <3>2, <3>3 DEF IInv
  <2> QED
    BY <2>1, <2>2, <2>3 DEF Next
<1> QED
  BY <1>1, <1>2, PTL DEF Spec

\* Every grant has its line in the log.
LEMMA GrantedAreLogged ==
    ASSUME IInv, NEW c \in Gifts
    PROVE  Granted(c) = Logged(c)
<1>0. \A u \in Users : /\ <<c, u>> \in logs => grants[<<c, u>>] = 1
                       /\ <<c, u>> \notin logs => grants[<<c, u>>] = 0
  BY DEF IInv, Agree
<1>1. ASSUME NEW u \in Users
      PROVE  grants[<<c, u>>] > 0 <=> <<c, u>> \in logs
  <2>1. CASE <<c, u>> \in logs
    BY <1>0, <2>1
  <2>2. CASE <<c, u>> \notin logs
    BY <1>0, <2>2
  <2> QED
    BY <2>1, <2>2
<1> QED
  BY <1>1 DEF Granted, Logged

\* While no lock outlives its ten seconds, a gift code is granted to a user
\* at most once, whatever crashes and whatever the administrator does.
THEOREM GrantedOncePerUser ==
    ASSUME MaxOutlived = 0
    PROVE  Spec => []GiftOncePerUser
<1>1. IInv => GiftOncePerUser
  <2> SUFFICES ASSUME IInv, NEW c \in Gifts, NEW u \in Users
               PROVE  grants[<<c, u>>] <= 1
    BY DEF GiftOncePerUser
  <2>1. grants[<<c, u>>] = 0 \/ grants[<<c, u>>] = 1
    BY DEF IInv, Agree
  <2> QED
    BY <2>1
<1> QED
  BY <1>1, Invariance, PTL

\* ... its max_uses is never exceeded ...
THEOREM GrantedWithinUses ==
    ASSUME MaxOutlived = 0
    PROVE  Spec => []GiftUsesBounded
<1>1. IInv => GiftUsesBounded
  <2> SUFFICES ASSUME IInv, NEW c \in Gifts, MaxUses[c] # -1
               PROVE  Cardinality(Granted(c)) <= MaxUses[c]
    BY DEF GiftUsesBounded
  <2>1. Granted(c) = Logged(c)
    BY GrantedAreLogged
  <2> QED
    BY <2>1 DEF IInv, Agree
<1> QED
  BY <1>1, Invariance, PTL

\* ... and its counter and log record exactly who was paid.
THEOREM UsesAreRecorded ==
    ASSUME MaxOutlived = 0
    PROVE  Spec => []UsesRecorded
<1>1. IInv => UsesRecorded
  <2> SUFFICES ASSUME IInv, NEW c \in Gifts
               PROVE  Logged(c) = Granted(c) /\ row[c].usedCount = Cardinality(Granted(c))
    BY DEF UsesRecorded, Logged
  <2>1. Granted(c) = Logged(c)
    BY GrantedAreLogged
  <2> QED
    BY <2>1 DEF IInv, Agree
<1> QED
  BY <1>1, Invariance, PTL

\* All three together: gift codes pay as often as they may, as recorded.
THEOREM GiftsAlwaysHold ==
    ASSUME MaxOutlived = 0
    PROVE  Spec => []GiftsHold
<1>1. Spec => []GiftOncePerUser
  BY GrantedOncePerUser
<1>2. Spec => []GiftUsesBounded
  BY GrantedWithinUses
<1>3. Spec => []UsesRecorded
  BY UsesAreRecorded
<1>4. GiftOncePerUser /\ GiftUsesBounded /\ UsesRecorded => GiftsHold
  BY DEF GiftsHold
<1> QED
  BY <1>1, <1>2, <1>3, <1>4, PTL

(***************************************************************************)
(* The inviter's share: it is paid after the grant, by the request that    *)
(* made the grant, and no request of another claim of the code is inside.  *)
(***************************************************************************)
Owed(x) == \E q \in Requests : pc[q] = "rebate" /\ Claim(q) = x

RebatesDue ==
    \A x \in Codes \X Users :
        /\ rebates[x] <= grants[x]
        /\ Owed(x) => rebates[x] < grants[x]
        /\ faults = 0 => rebates[x] = grants[x] \/ (Owed(x) /\ grants[x] = rebates[x] + 1)

\* The steps that make no grant and pay no rebate.
LEMMA OtherStepsOweNothing ==
    ASSUME TypeOK, RebatesDue,
           \/ \E q \in Requests : AcquireLock(q) \/ ReadCode(q) \/ CountUses(q) \/ ReleaseLock(q)
           \/ \E c \in Codes : LockExpires(c)
           \/ Administer
           \/ UNCHANGED vars
    PROVE  RebatesDue'
<1>1. UNCHANGED <<grants, rebates, faults>>
  BY DEF AcquireLock, ReadCode, CountUses, ReleaseLock, LockExpires, Administer, OpenCode,
         SaveCode, DisableCodes, DeleteCodes, PurgeCodes, AdminOp, vars, tables, counts
<1>2. \A p \in Requests : pc'[p] = "rebate" <=> pc[p] = "rebate"
  <2>1. CASE \E q \in Requests : AcquireLock(q) \/ ReadCode(q) \/ CountUses(q) \/ ReleaseLock(q)
    BY <2>1 DEF TypeOK, AcquireLock, ReadCode, CountUses, ReleaseLock, Goto
  <2>2. CASE ~\E q \in Requests : AcquireLock(q) \/ ReadCode(q) \/ CountUses(q) \/ ReleaseLock(q)
    <3>1. UNCHANGED pc
      BY <2>2 DEF LockExpires, Administer, OpenCode, SaveCode, DisableCodes, DeleteCodes,
                  PurgeCodes, AdminOp, vars, locals
    <3> QED
      BY <3>1
  <2> QED
    BY <2>1, <2>2
<1>3. \A x \in Codes \X Users : Owed(x)' <=> Owed(x)
  BY <1>2 DEF Owed, Claim
<1> QED
  BY <1>1, <1>3 DEF RebatesDue

\* A grant is owed from its commit on.
LEMMA CommitOwesRebate ==
    ASSUME IInv, RebatesDue, NEW q \in Requests, Commit(q)
    PROVE  RebatesDue'
<1> USE ClaimType DEF IInv
<1> DEFINE y == Claim(q)
<1>1. /\ \A p \in Requests \ {q} : pc'[p] = pc[p]
      /\ pc[q] = "commit" /\ UNCHANGED rebates /\ faults \in Nat
      /\ grants \in [Codes \X Users -> Nat] /\ rebates \in [Codes \X Users -> Nat]
  BY DEF TypeOK, Commit, Goto, tables
<1>2. ~Owed(y)
  BY <1>1 DEF Exclusive, Inside, Owed, Claim
<1>3. \A x \in Codes \X Users : x # y => (Owed(x)' <=> Owed(x))
  BY <1>1 DEF Owed, Claim
<1>4. CASE /\ faults' = faults + 1 /\ Goto(q, "unlock") /\ UNCHANGED tables
  <2>1. ~Owed(y)' /\ faults' # 0 /\ UNCHANGED grants
    BY <1>1, <1>2, <1>4 DEF TypeOK, Goto, Owed, Claim, tables
  <2> QED
    BY <1>1, <1>3, <2>1 DEF RebatesDue
<1>5. CASE /\ grants' = [grants EXCEPT ![y] = @ + 1]
           /\ Goto(q, "rebate") /\ UNCHANGED faults
  <2>1. /\ Owed(y)' /\ grants'[y] = grants[y] + 1
        /\ \A x \in Codes \X Users : x # y => grants'[x] = grants[x]
    BY <1>1, <1>5 DEF TypeOK, Goto, Owed, Claim
  <2>2. ASSUME NEW x \in Codes \X Users
        PROVE  /\ rebates'[x] <= grants'[x]
               /\ Owed(x)' => rebates'[x] < grants'[x]
               /\ faults' = 0 => \/ rebates'[x] = grants'[x]
                                 \/ Owed(x)' /\ grants'[x] = rebates'[x] + 1
    <3>1. CASE x = y
      BY <1>1, <1>2, <1>5, <2>1, <3>1 DEF RebatesDue
    <3>2. CASE x # y
      BY <1>1, <1>3, <1>5, <2>1, <3>2 DEF RebatesDue
    <3> QED
      BY <3>1, <3>2
  <2> QED
    BY <2>2 DEF RebatesDue
<1> QED
  BY <1>4, <1>5 DEF Commit

\* The share is paid once for the grant it is owed for.
LEMMA RebateSettlesGrant ==
    ASSUME IInv, RebatesDue, NEW q \in Requests, PayRebate(q)
    PROVE  RebatesDue'
<1> USE ClaimType DEF IInv
<1> DEFINE y == Claim(q)
<1>1. /\ \A p \in Requests \ {q} : pc'[p] = pc[p]
      /\ pc[q] = "rebate" /\ pc'[q] = "unlock" /\ UNCHANGED grants /\ faults \in Nat
      /\ grants \in [Codes \X Users -> Nat] /\ rebates \in [Codes \X Users -> Nat]
  BY DEF TypeOK, PayRebate, Goto
<1>2. Owed(y) /\ ~Owed(y)'
  BY <1>1 DEF Exclusive, Inside, Owed, Claim
<1>3. \A x \in Codes \X Users : x # y => (Owed(x)' <=> Owed(x))
  BY <1>1 DEF Owed, Claim
<1>4. /\ \A x \in Codes \X Users : x # y => rebates'[x] = rebates[x]
      /\ \/ rebates'[y] = rebates[y] + 1 /\ faults' = faults
         \/ rebates'[y] = rebates[y] /\ faults' = faults + 1
  BY <1>1 DEF PayRebate
<1>5. ASSUME NEW x \in Codes \X Users
      PROVE  /\ rebates'[x] <= grants'[x]
             /\ Owed(x)' => rebates'[x] < grants'[x]
             /\ faults' = 0 => \/ rebates'[x] = grants'[x]
                               \/ Owed(x)' /\ grants'[x] = rebates'[x] + 1
  <2>1. CASE x = y
    BY <1>1, <1>2, <1>4, <2>1 DEF RebatesDue
  <2>2. CASE x # y
    BY <1>1, <1>3, <1>4, <2>2 DEF RebatesDue
  <2> QED
    BY <2>1, <2>2
<1> QED
  BY <1>5 DEF RebatesDue

\* A request that dies pays nothing any more.
LEMMA CrashOwesNothing ==
    ASSUME TypeOK, RebatesDue, NEW q \in Requests, Crash(q)
    PROVE  RebatesDue'
<1>1. /\ UNCHANGED <<grants, rebates>> /\ faults' # 0
      /\ \A p \in Requests : pc'[p] = "rebate" => pc[p] = "rebate"
  BY DEF TypeOK, Crash, Goto, tables
<1>2. \A x \in Codes \X Users : Owed(x)' => Owed(x)
  BY <1>1 DEF Owed, Claim
<1> QED
  BY <1>1, <1>2 DEF RebatesDue

\* While no lock outlives its ten seconds an inviter is paid at most once for
\* a grant, and once when everything has ended without a fault.
THEOREM RebatesAreOwedOnce ==
    ASSUME MaxOutlived = 0
    PROVE  Spec => []RebatesFollowGrants
<1>1. Init => RebatesDue
  BY DEF Init, RebatesDue, Owed
<1>2. IInv /\ RebatesDue /\ [Next]_vars => RebatesDue'
  BY OtherStepsOweNothing, CommitOwesRebate, RebateSettlesGrant, CrashOwesNothing
     DEF IInv, Next, Redeem
<1>3. IInv /\ RebatesDue => RebatesFollowGrants
  <2> SUFFICES ASSUME IInv, RebatesDue
               PROVE  /\ \A x \in Codes \X Users : rebates[x] <= grants[x]
                      /\ (\A q \in Requests : pc[q] \notin Inside) /\ faults = 0
                            => rebates = grants
    BY DEF RebatesFollowGrants
  <2>1. ASSUME \A q \in Requests : pc[q] \notin Inside, faults = 0
        PROVE  \A x \in Codes \X Users : rebates[x] = grants[x]
    BY <2>1 DEF RebatesDue, Owed, Inside
  <2>2. grants \in [Codes \X Users -> Nat] /\ rebates \in [Codes \X Users -> Nat]
    BY DEF IInv, TypeOK
  <2> QED
    BY <2>1, <2>2 DEF RebatesDue
<1> QED
  BY <1>1, <1>2, <1>3, Invariance, PTL DEF Spec

(***************************************************************************)
(* Normal codes.  An administrator who saves a code he opened while it was *)
(* enabled makes it payable again, so these are the codes he leaves alone; *)
(* he may disable, delete and purge them.                                  *)
(***************************************************************************)
Unedited == Codes \ (Gifts \cup Editable)

\* Nothing of a normal code was granted yet.
Unspent(c) == \A u \in Users : grants[<<c, u>>] = 0

\* A normal code that paid somebody is not enabled, and a request that is
\* about to pay from one is the first.
SpentOnce ==
    \A c \in Unedited :
        /\ edited[c].deleted
        /\ \/ Unspent(c)
           \/ /\ row[c].status # "enabled"
              /\ \E u \in Users : \A v \in Users :
                    grants[<<c, v>>] = IF v = u THEN 1 ELSE 0
        /\ \A q \in Requests : CodeOf[q] = c =>
                    pc[q] # "count" /\ (pc[q] = "commit" => Unspent(c))

\* A request that reads a normal code goes on only while it is unspent.
LEMMA ReadingFindsUnspent ==
    ASSUME IInv, SpentOnce, NEW q \in Requests, ReadCode(q) \/ CountUses(q)
    PROVE  SpentOnce'
<1> USE ClaimType DEF IInv, Unedited
<1>1. /\ UNCHANGED <<row, grants, edited>>
      /\ \A p \in Requests \ {q} : pc'[p] = pc[p]
  BY DEF TypeOK, ReadCode, CountUses, Goto, tables
<1>2. \A c \in Codes : Unspent(c)' <=> Unspent(c)
  BY <1>1 DEF Unspent
<1>3. CASE ReadCode(q)
  <2>1. CodeOf[q] \notin Gifts => /\ pc'[q] # "count"
                                  /\ pc'[q] = "commit" => row[CodeOf[q]].status = "enabled"
    BY <1>3 DEF TypeOK, ReadCode, Goto
  <2> QED
    BY <1>1, <1>2, <2>1 DEF SpentOnce
<1>4. CASE CountUses(q)
  <2>1. CodeOf[q] \notin Unedited
    BY <1>4 DEF CountUses, SpentOnce
  <2> QED
    BY <1>1, <1>2, <2>1 DEF SpentOnce
<1> QED
  BY <1>3, <1>4

\* A normal code is spent by the first commit.
LEMMA CommitSpendsOnce ==
    ASSUME IInv, SpentOnce, NEW q \in Requests, Commit(q)
    PROVE  SpentOnce'
<1> USE ClaimType DEF IInv, Unedited
<1> DEFINE d == CodeOf[q]
<1>1. /\ UNCHANGED edited /\ pc[q] = "commit"
      /\ pc'[q] \in {"rebate", "unlock"}
      /\ \A p \in Requests \ {q} : pc'[p] = pc[p]
  BY DEF TypeOK, Commit, Goto
<1>2. CASE UNCHANGED tables
  <2>1. \A c \in Codes : (Unspent(c)' <=> Unspent(c)) /\ row' = row /\ grants' = grants
    BY <1>2 DEF Unspent, tables
  <2> QED
    BY <1>1, <2>1 DEF SpentOnce
<1>3. CASE /\ grants' = [grants EXCEPT ![Claim(q)] = @ + 1]
           /\ row' = [row EXCEPT ![d] = Noted(d, seen[q])]
  <2>1. grants \in [Codes \X Users -> Nat] /\ row \in [Codes -> Rows]
    BY DEF TypeOK
  <2>2. ASSUME NEW c \in Unedited, c # d
        PROVE  /\ row'[c] = row[c] /\ (Unspent(c)' <=> Unspent(c))
               /\ \A v \in Users : grants'[<<c, v>>] = grants[<<c, v>>]
    BY <1>3, <2>1, <2>2 DEF Claim, Unspent
  <2>3. ASSUME d \in Unedited
        PROVE  /\ row'[d].status # "enabled"
               /\ \A v \in Users : grants'[<<d, v>>] = IF v = UserOf[q] THEN 1 ELSE 0
    <3>1. \A v \in Users : grants[<<d, v>>] = 0
      BY <1>1, <2>3 DEF SpentOnce, Unspent
    <3>2. row'[d].status = "used"
      BY <1>3, <2>1, <2>3 DEF Noted
    <3> QED
      BY <1>3, <2>1, <3>1, <3>2 DEF Claim
  <2>4. \A p \in Requests : CodeOf[p] = d => pc'[p] \notin {"count", "commit"}
    BY <1>1 DEF Exclusive, Inside
  <2>5. ASSUME NEW c \in Unedited
        PROVE  /\ edited'[c].deleted
               /\ \/ Unspent(c)'
                  \/ /\ row'[c].status # "enabled"
                     /\ \E u \in Users : \A v \in Users :
                           grants'[<<c, v>>] = IF v = u THEN 1 ELSE 0
               /\ \A p \in Requests : CodeOf[p] = c =>
                    pc'[p] # "count" /\ (pc'[p] = "commit" => Unspent(c)')
    <3>1. CASE c = d
      BY <1>1, <2>3, <2>4, <3>1 DEF SpentOnce
    <3>2. CASE c # d
      BY <1>1, <2>2, <3>2 DEF SpentOnce
    <3> QED
      BY <3>1, <3>2
  <2> QED
    BY <2>5 DEF SpentOnce
<1> QED
  BY <1>2, <1>3 DEF Commit, tables

\* The steps of a request that neither read nor write a code, and Redis.
LEMMA WaitingSpendsNothing ==
    ASSUME TypeOK, SpentOnce,
           \/ \E q \in Requests : AcquireLock(q) \/ PayRebate(q) \/ ReleaseLock(q) \/ Crash(q)
           \/ \E c \in Codes : LockExpires(c)
           \/ UNCHANGED vars
    PROVE  SpentOnce'
<1> USE DEF Unedited
<1>1. UNCHANGED <<row, grants, edited>>
  BY DEF AcquireLock, PayRebate, ReleaseLock, Crash, LockExpires, vars, tables
<1>2. \A p \in Requests : pc'[p] \in {"count", "commit"} => pc'[p] = pc[p]
  BY DEF TypeOK, AcquireLock, PayRebate, ReleaseLock, Crash, LockExpires, Goto, vars, locals
<1>3. \A c \in Codes : Unspent(c)' <=> Unspent(c)
  BY <1>1 DEF Unspent
<1> QED
  BY <1>1, <1>2, <1>3 DEF SpentOnce

\* An administrator enables no code he does not edit.
LEMMA AdministratorSpendsNothing ==
    ASSUME TypeOK, SpentOnce, Administer
    PROVE  SpentOnce'
<1> USE DEF Unedited
<1>1. UNCHANGED <<grants, pc>>
  BY DEF Administer, OpenCode, SaveCode, DisableCodes, DeleteCodes, PurgeCodes, AdminOp, locals
<1>2. ASSUME NEW c \in Unedited
      PROVE  /\ edited'[c].deleted
             /\ row'[c].status = "enabled" => row[c].status = "enabled"
  <2>1. row \in [Codes -> Rows] /\ edited \in [Codes -> Rows] /\ edited[c].deleted
    BY DEF TypeOK, SpentOnce
  <2>2. CASE \E d \in Codes : OpenCode(d)
    BY <2>1, <2>2 DEF OpenCode
  <2>3. CASE \E d \in Codes : SaveCode(d)
    <3> PICK d \in Codes : SaveCode(d)
      BY <2>3
    <3>1. d # c
      BY <2>1 DEF SaveCode
    <3>2. row'[c] = row[c]
      BY <2>1, <3>1 DEF SaveCode
    <3>3. edited'[c] = edited[c]
      BY <2>1, <3>1 DEF SaveCode
    <3> QED
      BY <2>1, <3>2, <3>3
  <2>4. CASE \E S \in SUBSET Codes : DisableCodes(S)
    BY <2>1, <2>4 DEF DisableCodes, WithStatus
  <2>5. CASE \E S \in SUBSET Codes : DeleteCodes(S)
    BY <2>1, <2>5 DEF DeleteCodes, Deleted
  <2>6. CASE PurgeCodes
    BY <2>1, <2>6 DEF PurgeCodes, Deleted
  <2> QED
    BY <2>2, <2>3, <2>4, <2>5, <2>6 DEF Administer
<1>3. \A c \in Codes : Unspent(c)' <=> Unspent(c)
  BY <1>1 DEF Unspent
<1> QED
  BY <1>1, <1>2, <1>3 DEF SpentOnce

\* A normal code that no administrator edits pays one user, once, while no
\* lock outlives its ten seconds.
THEOREM UneditedCodesPayOnce ==
    ASSUME MaxOutlived = 0
    PROVE  Spec => [](\A c \in Unedited : /\ Cardinality(Granted(c)) <= 1
                                          /\ \A u \in Users : grants[<<c, u>>] <= 1)
<1>1. Init => SpentOnce
  BY DEF Init, SpentOnce, Unspent, Closed, Unedited
<1>2. IInv /\ SpentOnce /\ [Next]_vars => SpentOnce'
  BY ReadingFindsUnspent, CommitSpendsOnce, WaitingSpendsNothing, AdministratorSpendsNothing
     DEF IInv, Next, Redeem
<1>3. SpentOnce => \A c \in Unedited : /\ Cardinality(Granted(c)) <= 1
                                       /\ \A u \in Users : grants[<<c, u>>] <= 1
  <2> SUFFICES ASSUME SpentOnce, NEW c \in Unedited
               PROVE  /\ Cardinality(Granted(c)) <= 1
                      /\ \A u \in Users : grants[<<c, u>>] <= 1
    OBVIOUS
  <2>1. CASE Unspent(c)
    <3>1. Granted(c) = {}
      BY <2>1 DEF Granted, Unspent
    <3> QED
      BY <2>1, <3>1, FS_EmptySet DEF Unspent
  <2>2. CASE \E u \in Users : \A v \in Users : grants[<<c, v>>] = IF v = u THEN 1 ELSE 0
    <3>1. PICK u \in Users : \A v \in Users : grants[<<c, v>>] = IF v = u THEN 1 ELSE 0
      BY <2>2
    <3>2. \A v \in Users : grants[<<c, v>>] > 0 <=> v = u
      BY <3>1
    <3>3. Granted(c) = {u}
      BY <3>2 DEF Granted
    <3>4. Cardinality({u}) = 1
      BY FS_Singleton
    <3> QED
      BY <3>1, <3>3, <3>4
  <2> QED
    BY <2>1, <2>2 DEF SpentOnce
<1> QED
  BY <1>1, <1>2, <1>3, Invariance, PTL DEF Spec

\* ... and so does every normal code when only gift codes are edited.
THEOREM NormalCodesPayOnce ==
    ASSUME MaxOutlived = 0, Editable \subseteq Gifts
    PROVE  Spec => []CodeOnce
<1>1. Unedited = Codes \ Gifts
  BY DEF Unedited
<1>2. (\A c \in Unedited : /\ Cardinality(Granted(c)) <= 1
                           /\ \A u \in Users : grants[<<c, u>>] <= 1)
         => CodeOnce
  BY <1>1 DEF CodeOnce
<1> QED
  BY <1>2, UneditedCodesPayOnce, PTL

-----------------------------------------------------------------------------
(***************************************************************************)
(* Online top-up.                                                          *)
(***************************************************************************)
USE TopUpAssumption

OneServerPerOrder ==
    \A n, k \in Notifications : OrderOf[n] = OrderOf[k] => NodeOf[n] = NodeOf[k]

\* A handler past LockOrder holds its order's mutex.
Locked ==
    \A n \in Notifications : handler[n] \in Holding => mutex[NodeOf[n]][OrderOf[n]] = n

\* What a handler has read of its order and written to it is still so, and
\* nobody else has credited it.
StillUnpaid ==
    \A n \in Notifications :
        /\ handler[n] = "update" => status[OrderOf[n]] = "pending"
        /\ handler[n] = "credit" => status[OrderOf[n]] = "success" /\ credited[OrderOf[n]] = 0

\* Only a successful order was credited, and once.
PaidIfSuccess ==
    \A o \in Orders : /\ credited[o] \in {0, 1}
                      /\ status[o] # "success" => credited[o] = 0

TopUpInv == TopUpTypeOK /\ Locked /\ StillUnpaid /\ PaidIfSuccess

\* Where a notification goes.
LEMMA RoutingType ==
    ASSUME NEW n \in Notifications
    PROVE  OrderOf[n] \in Orders /\ NodeOf[n] \in Nodes
OBVIOUS

\* At most one handler of an order is past LockOrder.
LEMMA HoldersAreAlone ==
    ASSUME OneServerPerOrder, Locked, NEW n \in Notifications,
           NEW k \in Notifications,
           handler[n] \in Holding, handler[k] \in Holding, OrderOf[n] = OrderOf[k]
    PROVE  n = k
BY DEF OneServerPerOrder, Locked

\* The initial state satisfies the invariant.
LEMMA TopUpInitInvariant == TopUpInit => TopUpInv
BY DEF TopUpInit, TopUpInv, TopUpTypeOK, HandlerStages, Holding, Locked, StillUnpaid,
       PaidIfSuccess

\* Every step of a handler keeps the types.
LEMMA EpayNotifyKeepsTypes ==
    ASSUME TopUpTypeOK, NEW n \in Notifications, EpayNotify(n)
    PROVE  TopUpTypeOK'
<1>1. handler' \in [Notifications -> HandlerStages] /\ handler[n] \in HandlerStages
  <2>1. PICK stage \in HandlerStages : Proceed(n, stage)
    BY DEF EpayNotify, Receive, LoadLock, CreateLock, LockOrder,
           ReadOrder, UpdateOrder,
           CreditUser, PayInviter, UnlockOrder, HandlerStages
  <2> QED
    BY <2>1 DEF TopUpTypeOK, Proceed
<1>2. /\ OrderOf[n] \in Orders /\ NodeOf[n] \in Nodes
      /\ MaxFailures \in Nat
  OBVIOUS
<1>3. CASE Receive(n) \/ LoadLock(n)
  BY <1>1, <1>3 DEF TopUpTypeOK, Receive, LoadLock, orderTables, locks
<1>4. CASE CreateLock(n)
  BY <1>1, <1>2, <1>4 DEF TopUpTypeOK, CreateLock, orderTables
<1>5. CASE LockOrder(n)
  BY <1>1, <1>2, <1>5 DEF TopUpTypeOK, LockOrder, orderTables
<1>6. CASE UnlockOrder(n)
  BY <1>1, <1>2, <1>6 DEF TopUpTypeOK, UnlockOrder, orderTables
<1>7. failures' \in 0..MaxFailures
  <2>1. UNCHANGED failures \/ (failures < MaxFailures /\ failures' = failures + 1)
    BY DEF EpayNotify, Receive, LoadLock, CreateLock, LockOrder, ReadOrder, UpdateOrder,
           CreditUser, PayInviter, UnlockOrder, Fails
  <2>2. failures \in 0..MaxFailures
    BY DEF TopUpTypeOK
  <2> QED
    BY <1>2, <2>1, <2>2
<1>8. CASE ReadOrder(n) \/ UpdateOrder(n) \/ CreditUser(n) \/ PayInviter(n)
  <2> DEFINE o == OrderOf[n]
  <2>1. /\ status' \in {status, [status EXCEPT ![o] = "success"]}
        /\ credited' \in {credited, [credited EXCEPT ![o] = @ + 1]}
        /\ rebated' \in {rebated, [rebated EXCEPT ![o] = @ + 1]}
        /\ UNCHANGED locks
    BY <1>8 DEF ReadOrder, UpdateOrder, CreditUser, PayInviter, Fails, orderTables
  <2>2. /\ status' \in [Orders -> {"absent", "pending", "success"}]
        /\ credited' \in [Orders -> Nat]
        /\ rebated' \in [Orders -> Nat]
    <3>1. /\ status \in [Orders -> {"absent", "pending", "success"}]
          /\ credited \in [Orders -> Nat]
          /\ rebated \in [Orders -> Nat]
      BY DEF TopUpTypeOK
    <3>2. [credited EXCEPT ![o] = @ + 1] \in [Orders -> Nat]
      BY <1>2, <3>1
    <3>3. [rebated EXCEPT ![o] = @ + 1] \in [Orders -> Nat]
      BY <1>2, <3>1
    <3>4. [status EXCEPT ![o] = "success"] \in [Orders -> {"absent", "pending", "success"}]
      BY <1>2, <3>1
    <3> QED
      BY <2>1, <3>1, <3>2, <3>3, <3>4
  <2> QED
    BY <1>1, <1>7, <2>1, <2>2 DEF TopUpTypeOK, locks
<1> QED
  BY <1>3, <1>4, <1>5, <1>6, <1>8 DEF EpayNotify

\* A new order, a notification on its way to the mutex.
LEMMA OutsideKeepsTopUpInv ==
    ASSUME TopUpInv,
           \/ \E o \in Orders : RequestEpay(o)
           \/ \E n \in Notifications : Receive(n) \/ LoadLock(n) \/ CreateLock(n)
    PROVE  TopUpInv'
<1> USE DEF TopUpInv
<1>1. CASE \E o \in Orders : RequestEpay(o)
  <2> PICK o \in Orders : RequestEpay(o)
    BY <1>1
  <2>1. TopUpTypeOK' /\ Locked'
    BY DEF TopUpTypeOK, Locked, RequestEpay, locks
  <2>2. StillUnpaid' /\ PaidIfSuccess'
    BY DEF TopUpTypeOK, StillUnpaid, PaidIfSuccess, RequestEpay
  <2> QED
    BY <2>1, <2>2
<1>2. CASE \E n \in Notifications : Receive(n) \/ LoadLock(n) \/ CreateLock(n)
  <2> PICK n \in Notifications : Receive(n) \/ LoadLock(n) \/ CreateLock(n)
    BY <1>2
  <2>1. TopUpTypeOK'
    BY EpayNotifyKeepsTypes DEF EpayNotify
  <2>2. /\ UNCHANGED <<status, credited, mutex>>
        /\ \A k \in Notifications : handler'[k] \in Holding => handler'[k] = handler[k]
    BY DEF TopUpTypeOK, Receive, LoadLock, CreateLock, Proceed, Holding,
           orderTables, locks
  <2>3. Locked' /\ StillUnpaid' /\ PaidIfSuccess'
    BY <2>2 DEF Locked, StillUnpaid, PaidIfSuccess, Holding
  <2> QED
    BY <2>1, <2>3
<1> QED
  BY <1>1, <1>2

\* The mutex is taken and given back.
LEMMA LockingKeepsInvariant ==
    ASSUME OneServerPerOrder, TopUpInv, NEW n \in Notifications,
           LockOrder(n) \/ UnlockOrder(n)
    PROVE  TopUpInv'
<1> USE RoutingType DEF TopUpInv
<1>1. TopUpTypeOK'
  BY EpayNotifyKeepsTypes DEF EpayNotify
<1>2. StillUnpaid' /\ PaidIfSuccess'
  BY DEF TopUpTypeOK, StillUnpaid, PaidIfSuccess, LockOrder, UnlockOrder, Proceed,
         orderTables
<1>3. ASSUME NEW k \in Notifications, handler'[k] \in Holding
      PROVE  mutex'[NodeOf[k]][OrderOf[k]] = k
  <2>1. CASE k = n
    BY <1>3, <2>1 DEF TopUpTypeOK, LockOrder, UnlockOrder, Proceed, Holding
  <2>2. CASE k # n
    <3>1. handler[k] \in Holding /\ mutex[NodeOf[k]][OrderOf[k]] = k
      BY <1>3, <2>2 DEF TopUpTypeOK, Locked, LockOrder, UnlockOrder, Proceed
    <3>2. mutex[NodeOf[n]][OrderOf[n]] # k
      BY <2>2 DEF Locked, LockOrder, UnlockOrder, Holding
    <3>3. NodeOf[k] # NodeOf[n] \/ OrderOf[k] # OrderOf[n]
      BY <3>1, <3>2
    <3> QED
      BY <3>1, <3>3 DEF TopUpTypeOK, LockOrder, UnlockOrder
  <2> QED
    BY <2>1, <2>2
<1>4. Locked'
  BY <1>3 DEF Locked
<1> QED
  BY <1>1, <1>2, <1>4

\* Under the mutex.
LEMMA HandlingKeepsInvariant ==
    ASSUME OneServerPerOrder, TopUpInv, NEW n \in Notifications,
           ReadOrder(n) \/ UpdateOrder(n) \/ CreditUser(n) \/ PayInviter(n)
    PROVE  TopUpInv'
<1> USE RoutingType DEF TopUpInv
<1>1. TopUpTypeOK'
  BY EpayNotifyKeepsTypes DEF EpayNotify
<1>2. handler[n] \in Holding /\ UNCHANGED mutex
  BY DEF ReadOrder, UpdateOrder, CreditUser, PayInviter, Holding, locks
<1>3. \A k \in Notifications \ {n} : handler'[k] = handler[k]
  <2>1. PICK stage \in HandlerStages : Proceed(n, stage)
    BY DEF ReadOrder, UpdateOrder, CreditUser, PayInviter, HandlerStages
  <2> QED
    BY <2>1 DEF TopUpTypeOK, Proceed
<1>4. Locked'
  BY <1>2, <1>3 DEF Locked
<1>5. \A o \in Orders \ {OrderOf[n]} : status'[o] = status[o] /\ credited'[o] = credited[o]
  BY DEF TopUpTypeOK, ReadOrder, UpdateOrder, CreditUser, PayInviter,
         Fails, orderTables
<1>6. /\ handler'[n] = "update" => status'[OrderOf[n]] = "pending"
      /\ handler'[n] = "credit" => status'[OrderOf[n]] = "success" /\ credited'[OrderOf[n]] = 0
  BY DEF TopUpTypeOK, StillUnpaid, PaidIfSuccess, ReadOrder, UpdateOrder,
         CreditUser, PayInviter,
         Proceed, orderTables
<1>7. StillUnpaid'
  <2> SUFFICES ASSUME NEW k \in Notifications, k # n, handler'[k] \in {"update", "credit"}
               PROVE  /\ handler'[k] = "update" => status'[OrderOf[k]] = "pending"
                      /\ handler'[k] = "credit" => /\ status'[OrderOf[k]] = "success"
                                              /\ credited'[OrderOf[k]] = 0
    BY <1>6 DEF StillUnpaid
  <2>1. handler[k] = handler'[k] /\ handler[k] \in Holding
    BY <1>3 DEF Holding
  <2>2. OrderOf[k] # OrderOf[n]
    BY <1>2, <2>1, HoldersAreAlone
  <2> QED
    BY <1>5, <2>1, <2>2 DEF StillUnpaid
<1>8. PaidIfSuccess'
  <2>1. /\ credited'[OrderOf[n]] \in {0, 1}
        /\ status'[OrderOf[n]] # "success" => credited'[OrderOf[n]] = 0
    BY DEF TopUpTypeOK, StillUnpaid, PaidIfSuccess, ReadOrder, UpdateOrder,
           CreditUser, PayInviter,
           Fails, orderTables
  <2> QED
    BY <1>5, <2>1 DEF PaidIfSuccess
<1> QED
  BY <1>1, <1>4, <1>7, <1>8

\* A crash stops handlers and frees their mutexes; the tables stay.
LEMMA CrashKeepsInvariant ==
    ASSUME TopUpInv, NEW m \in Nodes, CrashNode(m)
    PROVE  TopUpInv'
<1> USE RoutingType DEF TopUpInv
<1>1. TopUpTypeOK'
  BY DEF TopUpTypeOK, CrashNode, HandlerStages, orderTables
<1>2. \A k \in Notifications :
          handler'[k] \in Holding => handler'[k] = handler[k] /\ NodeOf[k] # m
  BY DEF TopUpTypeOK, CrashNode, Holding, Resting
<1>3. Locked'
  BY <1>2 DEF TopUpTypeOK, Locked, CrashNode
<1>4. StillUnpaid' /\ PaidIfSuccess'
  BY <1>2 DEF StillUnpaid, PaidIfSuccess, CrashNode, Holding, orderTables
<1> QED
  BY <1>1, <1>3, <1>4

\* Every step keeps the invariant.
LEMMA StepKeepsInvariant ==
    ASSUME OneServerPerOrder, TopUpInv, [TopUpNext]_topUpVars
    PROVE  TopUpInv'
<1>1. CASE \/ \E o \in Orders : RequestEpay(o)
           \/ \E n \in Notifications : Receive(n) \/ LoadLock(n) \/ CreateLock(n)
  BY <1>1, OutsideKeepsTopUpInv
<1>2. CASE \E n \in Notifications : LockOrder(n) \/ UnlockOrder(n)
  BY <1>2, LockingKeepsInvariant
<1>3. CASE \E n \in Notifications : \/ ReadOrder(n) \/ UpdateOrder(n)
                                     \/ CreditUser(n) \/ PayInviter(n)
  BY <1>3, HandlingKeepsInvariant
<1>4. CASE \E m \in Nodes : CrashNode(m)
  BY <1>4, CrashKeepsInvariant
<1>5. CASE UNCHANGED topUpVars
  BY <1>5 DEF TopUpInv, TopUpTypeOK, Locked, StillUnpaid, PaidIfSuccess, topUpVars, orderTables,
              locks
<1> QED
  BY <1>1, <1>2, <1>3, <1>4, <1>5 DEF TopUpNext, EpayNotify

\* The invariant holds in every reachable state.
THEOREM TopUpInvariance ==
    ASSUME OneServerPerOrder
    PROVE  TopUpSpec => []TopUpInv
BY TopUpInitInvariant, StepKeepsInvariant, PTL DEF TopUpSpec

\* However often and however concurrently the provider notifies, an order is
\* credited once at most.
THEOREM OrdersCreditedOnce ==
    ASSUME OneServerPerOrder
    PROVE  TopUpSpec => []CreditedOnce
<1>1. TopUpInv => CreditedOnce
  BY DEF TopUpInv, PaidIfSuccess, CreditedOnce
<1> QED
  BY <1>1, TopUpInvariance, PTL

\* A credited order never changes its status again.
THEOREM PaidOrdersStay ==
    ASSUME OneServerPerOrder
    PROVE  TopUpSpec => PaidForGood
<1>1. TopUpInv /\ [TopUpNext]_topUpVars =>
        [\A o \in Orders : credited[o] > 0 => status'[o] = status[o]]_topUpVars
  <2> SUFFICES ASSUME TopUpInv, TopUpNext, NEW o \in Orders, credited[o] > 0
               PROVE  status'[o] = status[o]
    OBVIOUS
  <2>1. status[o] = "success"
    BY DEF TopUpInv, PaidIfSuccess
  <2>2. CASE \E p \in Orders : RequestEpay(p)
    BY <2>1, <2>2 DEF TopUpInv, TopUpTypeOK, RequestEpay
  <2>3. CASE \E n \in Notifications : UpdateOrder(n)
    BY <2>1, <2>3, RoutingType DEF TopUpInv, TopUpTypeOK, UpdateOrder, Fails, orderTables
  <2>4. CASE \E n \in Notifications : EpayNotify(n) /\ ~UpdateOrder(n)
    BY <2>4 DEF EpayNotify, Receive, LoadLock, CreateLock, LockOrder,
                ReadOrder, CreditUser,
                PayInviter, UnlockOrder, Fails, orderTables
  <2>5. CASE \E m \in Nodes : CrashNode(m)
    BY <2>5 DEF CrashNode, orderTables
  <2> QED
    BY <2>2, <2>3, <2>4, <2>5 DEF TopUpNext
<1> QED
  BY <1>1, TopUpInvariance, PTL DEF TopUpSpec, PaidForGood

(***************************************************************************)
(* What is left to pay: a successful order that was not credited, or whose *)
(* inviter got nothing yet, is in the hands of a handler, as long as no    *)
(* statement has failed and no server has died.                            *)
(***************************************************************************)
\* The inviter is paid after the user, and at most once for every credit.
RebateFollows ==
    /\ \A o \in Orders : rebated[o] <= credited[o]
    /\ \A n \in Notifications :
          handler[n] = "rebate" => credited[OrderOf[n]] = 1 /\ rebated[OrderOf[n]] = 0

\* Somebody who handles the order is at this stage.
InHand(o, stage) == \E n \in Notifications : OrderOf[n] = o /\ handler[n] = stage

PaidOrInHand ==
    failures = 0 =>
        \A o \in Orders : /\ status[o] = "success" => credited[o] = 1 \/ InHand(o, "credit")
                          /\ rebated[o] = credited[o] \/ InHand(o, "rebate")

DueInv == TopUpInv /\ RebateFollows /\ PaidOrInHand

\* The steps of EpayNotify that read or write neither the order nor the users,
\* and the creation of an order, neither enter nor leave the two paying stages.
LEMMA OtherStepsPayNothing ==
    ASSUME DueInv,
           \/ \E o \in Orders : RequestEpay(o)
           \/ \E n \in Notifications : \/ Receive(n) \/ LoadLock(n) \/ CreateLock(n)
                                       \/ LockOrder(n) \/ ReadOrder(n) \/ UnlockOrder(n)
    PROVE  (RebateFollows /\ PaidOrInHand)'
<1> USE RoutingType DEF DueInv, TopUpInv
<1>1. UNCHANGED <<credited, rebated>>
  BY DEF RequestEpay, Receive, LoadLock, CreateLock, LockOrder,
         ReadOrder, UnlockOrder,
         Fails, orderTables
<1>2. \A k \in Notifications, stage \in {"credit",
"rebate"} : handler'[k] = stage <=> handler[k] = stage
  <2>1. CASE \E o \in Orders : RequestEpay(o)
    BY <2>1 DEF RequestEpay
  <2>2. CASE \E n \in Notifications : Receive(n) \/ LoadLock(n) \/ CreateLock(n)
    BY <2>2 DEF TopUpTypeOK, Receive, LoadLock, CreateLock, Proceed
  <2>3. CASE \E n \in Notifications : LockOrder(n) \/ ReadOrder(n) \/ UnlockOrder(n)
    BY <2>3 DEF TopUpTypeOK, LockOrder, ReadOrder, UnlockOrder, Proceed
  <2> QED
    BY <2>1, <2>2, <2>3
<1>3. \A o \in Orders : status'[o] = "success" => status[o] = "success"
  BY DEF TopUpTypeOK, RequestEpay, Receive, LoadLock, CreateLock,
         LockOrder, ReadOrder,
         UnlockOrder, Fails, orderTables
<1>4. failures' = 0 => failures = 0
  <2>1. failures \in Nat
    BY DEF TopUpTypeOK
  <2>2. failures' = failures \/ failures' = failures + 1
    BY DEF RequestEpay, Receive, LoadLock, CreateLock, LockOrder,
           ReadOrder, UnlockOrder, Fails
  <2> QED
    BY <2>1, <2>2
<1>5. RebateFollows'
  BY <1>1, <1>2 DEF RebateFollows
<1>6. PaidOrInHand'
  BY <1>1, <1>2, <1>3, <1>4 DEF PaidOrInHand, InHand
<1> QED
  BY <1>5, <1>6

\* The order is marked successful and its handler goes on to credit it.
LEMMA UpdateLeavesItInHand ==
    ASSUME OneServerPerOrder, DueInv, NEW n \in Notifications,
           UpdateOrder(n)
    PROVE  (RebateFollows /\ PaidOrInHand)'
<1> USE RoutingType DEF DueInv, TopUpInv
<1>1. /\ UNCHANGED <<credited, rebated>>
      /\ \A k \in Notifications \ {n} : handler'[k] = handler[k]
      /\ handler[n] = "update" /\ handler'[n] \in {"credit", "unlock"}
      /\ \A o \in Orders \ {OrderOf[n]} : status'[o] = status[o]
  BY DEF TopUpTypeOK, UpdateOrder, Fails, orderTables, Proceed
<1>2. RebateFollows'
  BY <1>1 DEF RebateFollows
<1>3. ASSUME failures' = 0 PROVE failures = 0 /\ handler'[n] = "credit"
  BY <1>3 DEF TopUpTypeOK, UpdateOrder, Fails, Proceed
<1>4. PaidOrInHand'
  BY <1>1, <1>3 DEF PaidOrInHand, InHand
<1> QED
  BY <1>2, <1>4

\* The user is credited, and the inviter's share becomes due.
LEMMA CreditLeavesTheRebateInHand ==
    ASSUME OneServerPerOrder, DueInv, NEW n \in Notifications,
           CreditUser(n)
    PROVE  (RebateFollows /\ PaidOrInHand)'
<1> USE RoutingType DEF DueInv, TopUpInv
<1> DEFINE o == OrderOf[n]
<1>1. /\ UNCHANGED <<status, rebated>>
      /\ \A k \in Notifications \ {n} : handler'[k] = handler[k]
      /\ handler[n] = "credit"
      /\ \A p \in Orders \ {o} : credited'[p] = credited[p]
      /\ \/ credited'[o] = 1 /\ handler'[n] = "rebate"
         \/ credited'[o] = 0 /\ handler'[n] = "unlock"
      /\ credited[o] = 0
  BY DEF TopUpTypeOK, StillUnpaid, CreditUser, Fails, orderTables, Proceed
<1>2. rebated[o] = 0
  BY <1>1 DEF RebateFollows, TopUpTypeOK
<1>3. \A k \in Notifications : handler[k] = "rebate" => OrderOf[k] # o
  BY <1>1 DEF RebateFollows
<1>4. RebateFollows'
  <2>1. \A p \in Orders : rebated'[p] <= credited'[p]
    BY <1>1, <1>2 DEF RebateFollows
  <2>2. ASSUME NEW k \in Notifications, handler'[k] = "rebate"
        PROVE  credited'[OrderOf[k]] = 1 /\ rebated'[OrderOf[k]] = 0
    <3>1. CASE k = n
      BY <1>1, <1>2, <2>2, <3>1
    <3>2. CASE k # n
      <4>1. handler[k] = "rebate" /\ OrderOf[k] \in Orders \ {o}
        BY <1>1, <1>3, <2>2, <3>2
      <4> QED
        BY <1>1, <4>1 DEF RebateFollows
    <3> QED
      BY <3>1, <3>2
  <2> QED
    BY <2>1, <2>2 DEF RebateFollows
<1>5. ASSUME failures' = 0 PROVE failures = 0 /\ handler'[n] = "rebate" /\ credited'[o] = 1
  BY <1>1, <1>5 DEF TopUpTypeOK, CreditUser, Fails, Proceed
<1>6. PaidOrInHand'
  <2> SUFFICES ASSUME failures' = 0, NEW p \in Orders
               PROVE  /\ status'[p] = "success" => credited'[p] = 1 \/ InHand(p, "credit")'
                      /\ rebated'[p] = credited'[p] \/ InHand(p, "rebate")'
    BY DEF PaidOrInHand
  <2>1. CASE p = o
    BY <1>5, <2>1 DEF InHand
  <2>2. CASE p # o
    BY <1>1, <1>5, <2>2 DEF PaidOrInHand, InHand
  <2> QED
    BY <2>1, <2>2
<1> QED
  BY <1>4, <1>6

\* The inviter's share is paid by the one handler that owes it.
LEMMA RebateIsPaidOnce ==
    ASSUME OneServerPerOrder, DueInv, NEW n \in Notifications,
           PayInviter(n)
    PROVE  (RebateFollows /\ PaidOrInHand)'
<1> USE RoutingType DEF DueInv, TopUpInv
<1> DEFINE o == OrderOf[n]
<1>1. /\ UNCHANGED <<status, credited>>
      /\ \A k \in Notifications \ {n} : handler'[k] = handler[k]
      /\ handler[n] = "rebate" /\ handler'[n] = "unlock"
      /\ \A p \in Orders \ {o} : rebated'[p] = rebated[p]
      /\ rebated'[o] \in {0, 1}
      /\ credited[o] = 1 /\ rebated[o] = 0
  BY DEF TopUpTypeOK, RebateFollows, PayInviter, Fails, orderTables, Proceed
<1>2. \A k \in Notifications \ {n} : handler[k] \in Holding => OrderOf[k] # o
  BY <1>1, HoldersAreAlone DEF Holding
<1>3. RebateFollows'
  <2>1. ASSUME NEW p \in Orders PROVE rebated'[p] <= credited'[p]
    <3>1. CASE p = o
      BY <1>1, <3>1
    <3>2. CASE p # o
      BY <1>1, <3>2 DEF RebateFollows
    <3> QED
      BY <3>1, <3>2
  <2>2. ASSUME NEW k \in Notifications, handler'[k] = "rebate"
        PROVE  credited'[OrderOf[k]] = 1 /\ rebated'[OrderOf[k]] = 0
    <3>1. k # n /\ handler[k] = "rebate"
      BY <1>1, <2>2
    <3>2. OrderOf[k] \in Orders \ {o}
      BY <1>2, <3>1 DEF Holding
    <3> QED
      BY <1>1, <3>1, <3>2 DEF RebateFollows
  <2> QED
    BY <2>1, <2>2 DEF RebateFollows
<1>4. ASSUME failures' = 0 PROVE failures = 0 /\ rebated'[o] = 1
  BY <1>1, <1>4 DEF TopUpTypeOK, PayInviter, Fails
<1>5. PaidOrInHand'
  <2> SUFFICES ASSUME failures' = 0, NEW p \in Orders
               PROVE  /\ status'[p] = "success" => credited'[p] = 1 \/ InHand(p, "credit")'
                      /\ rebated'[p] = credited'[p] \/ InHand(p, "rebate")'
    BY DEF PaidOrInHand
  <2>1. CASE p = o
    BY <1>1, <1>4, <2>1
  <2>2. CASE p # o
    BY <1>1, <1>4, <2>2 DEF PaidOrInHand, InHand
  <2> QED
    BY <2>1, <2>2
<1> QED
  BY <1>3, <1>5

\* Every step keeps what is due in somebody's hands.
LEMMA StepKeepsWhatIsDue ==
    ASSUME OneServerPerOrder, DueInv, [TopUpNext]_topUpVars
    PROVE  DueInv'
<1>1. TopUpInv'
  BY StepKeepsInvariant DEF DueInv
<1>2. CASE \/ \E o \in Orders : RequestEpay(o)
           \/ \E n \in Notifications : \/ Receive(n) \/ LoadLock(n) \/ CreateLock(n)
                                       \/ LockOrder(n) \/ ReadOrder(n) \/ UnlockOrder(n)
  BY <1>1, <1>2, OtherStepsPayNothing DEF DueInv
<1>3. CASE \E n \in Notifications : UpdateOrder(n)
  BY <1>1, <1>3, UpdateLeavesItInHand DEF DueInv
<1>4. CASE \E n \in Notifications : CreditUser(n)
  BY <1>1, <1>4, CreditLeavesTheRebateInHand DEF DueInv
<1>5. CASE \E n \in Notifications : PayInviter(n)
  BY <1>1, <1>5, RebateIsPaidOnce DEF DueInv
<1>6. CASE \E m \in Nodes : CrashNode(m)
  <2>1. /\ UNCHANGED orderTables /\ failures' # 0
        /\ \A k \in Notifications : handler'[k] = "rebate" => handler[k] = "rebate"
    BY <1>6 DEF DueInv, TopUpInv, TopUpTypeOK, CrashNode
  <2>2. RebateFollows' /\ PaidOrInHand'
    BY <2>1 DEF DueInv, RebateFollows, PaidOrInHand, orderTables
  <2> QED
    BY <1>1, <2>2 DEF DueInv
<1>7. CASE UNCHANGED topUpVars
  BY <1>1, <1>7 DEF DueInv, RebateFollows, PaidOrInHand, InHand, topUpVars, orderTables, locks
<1> QED
  BY <1>2, <1>3, <1>4, <1>5, <1>6, <1>7 DEF TopUpNext, EpayNotify

\* What is due is in somebody's hands in every reachable state.
THEOREM DueInvariance ==
    ASSUME OneServerPerOrder
    PROVE  TopUpSpec => []DueInv
<1>1. TopUpInit => DueInv
  BY TopUpInitInvariant DEF TopUpInit, DueInv, RebateFollows, PaidOrInHand
<1> QED
  BY <1>1, StepKeepsWhatIsDue, PTL DEF TopUpSpec

\* When no handler runs and nothing has failed, the successful orders are
\* those that were credited, and the inviter got his share of each.
THEOREM OrdersSettle ==
    ASSUME OneServerPerOrder
    PROVE  TopUpSpec => []SettledOrders
<1>1. DueInv => SettledOrders
  BY DEF DueInv, TopUpInv, PaidIfSuccess, PaidOrInHand, InHand, SettledOrders, Resting
<1> QED
  BY <1>1, DueInvariance, PTL
=============================================================================
