--------------------------- MODULE SunoTasksProofs ---------------------------
(***************************************************************************)
(* Theorems about SunoTasks: for any requests, retries, failing statements *)
(* and restarts a request is charged once at most, for a task that is      *)
(* recorded, and every fault makes the poller pay back once more at most.  *)
(* Without faults every failure that is recorded is paid back.             *)
(***************************************************************************)
EXTENDS SunoTasks, TLAPS

USE SunoAssumption

\* Only the attempt that ends a request leaves a row, and only there is
\* something charged, once, as the last step.
IsLast(r, i) == row[<<r, i>>].there => i = attempt[r] /\ pc[r] \in {"charge", "end"}
IsCharged(r, i) ==
    \/ charged[<<r, i>>] = 0
    \/ (charged[<<r, i>>] = 1 /\ row[<<r, i>>].there /\ pc[r] = "end")
OneAttempt == \A r \in Requests : \A i \in Attempts : IsLast(r, i) /\ IsCharged(r, i)

ChargeIsDue == \A r \in Requests : pc[r] = "charge" => row[Current(r)].there

DoneAreThere == \A t \in Tasks : row[t].done => row[t].there

IsOpen(t) == row[t].there /\ ~row[t].done

\* What the poller still has to ask about or to bring up to date is unfinished.
AskedAreOpen ==
    /\ poll.stage = "mark" => \A t \in DOMAIN poll.memory : IsOpen(t)
    /\ poll.stage = "fetch" => \A t \in Asked : IsOpen(t)
    /\ \A t \in DOMAIN poll.items : IsOpen(t)
    /\ poll.stage # "items" => DOMAIN poll.items = {}

OneItem == \A t, u \in poll.item : t = u

\* The refund that no fault explains is that of a finished task, or of the
\* one whose row is being saved.
Settled(t) == row[t].done \/ (t \in poll.item /\ IsFailure(poll.items[t]))

RefundsExplained ==
    \A t \in Tasks : refunded[t] <= faults \/ (Settled(t) /\ refunded[t] <= faults + 1)

IInv == /\ TypeOK /\ OneAttempt /\ ChargeIsDue /\ DoneAreThere
        /\ AskedAreOpen /\ OneItem /\ RefundsExplained

\* A task that was not inserted is neither there nor done.
LEMMA NoRowType == NoRow \in Rows /\ ~NoRow.there /\ ~NoRow.done
BY DEF NoRow, Rows

\* The poller at rest.
LEMMA AsleepType ==
    /\ IsPoll(Asleep) /\ Asleep.stage = "asleep" /\ Asleep.item = {}
    /\ DOMAIN Asleep.items = {} /\ DOMAIN Asleep.memory = {}
    /\ DOMAIN Asleep = {"stage", "memory", "items", "stray", "err", "item"}
BY DEF IsPoll, Asleep, Nothing

\* The initial state satisfies the invariant.
LEMMA InitInvariant == Init => IInv
<1> SUFFICES ASSUME Init PROVE IInv
  OBVIOUS
<1>1. TypeOK
  BY NoRowType, AsleepType DEF Init, TypeOK, Attempts
<1>2. OneAttempt /\ ChargeIsDue /\ DoneAreThere
  BY NoRowType DEF Init, OneAttempt, IsLast, IsCharged, ChargeIsDue, DoneAreThere, Current, Tasks, Attempts
<1>3. AskedAreOpen /\ OneItem /\ RefundsExplained
  BY AsleepType DEF Init, AskedAreOpen, IsOpen, OneItem, RefundsExplained
<1> QED
  BY <1>1, <1>2, <1>3 DEF IInv

\* An action that leaves the poller alone keeps its part of the invariant when
\* no task becomes finished, or unfinished, and faults do not get fewer.
LEMMA PollerUntouched ==
    ASSUME IInv, TypeOK', UNCHANGED <<poll, refunded>>, faults' >= faults,
           \A t \in Tasks : row'[t].done = row[t].done /\ (row[t].there => row'[t].there)
    PROVE  (AskedAreOpen /\ OneItem /\ RefundsExplained)'
<1> USE DEF IInv
<1>1. /\ DOMAIN poll.memory \subseteq Tasks /\ DOMAIN poll.items \subseteq Tasks
      /\ Asked \subseteq Tasks
  BY DEF TypeOK, IsPoll, Asked
<1>2. AskedAreOpen'
  BY <1>1 DEF AskedAreOpen, IsOpen, Asked
<1>3. OneItem'
  BY DEF OneItem
<1>4. RefundsExplained'
  BY DEF RefundsExplained, Settled, IsFailure, TypeOK
<1> QED
  BY <1>2, <1>3, <1>4

\* The attempt a request is at is a task.
LEMMA CurrentType == ASSUME TypeOK, NEW r \in Requests PROVE Current(r) \in Tasks
BY DEF TypeOK, Current, Tasks

\* A retry or an end of the request.
LEMMA RetryType ==
    ASSUME TypeOK, NEW r \in Requests, Retry(r)
    PROVE  /\ pc' \in [Requests -> {"submit", "insert", "charge", "end"}]
           /\ attempt' \in [Requests -> Attempts]
           /\ pc'[r] \in {"submit", "end"}
           /\ \A q \in Requests \ {r} : pc'[q] = pc[q] /\ attempt'[q] = attempt[q]
BY DEF TypeOK, Retry, Attempts

\* A step that only moves a request without a row leaves the books as they are.
LEMMA MoveKeepsAttempts ==
    ASSUME IInv, NEW r \in Requests, UNCHANGED <<row, charged>>,
           \A i \in Attempts : ~row[<<r, i>>].there,
           pc'[r] # "charge",
           \A q \in Requests \ {r} : pc'[q] = pc[q] /\ attempt'[q] = attempt[q]
    PROVE  (OneAttempt /\ ChargeIsDue /\ DoneAreThere)'
<1> USE DEF IInv
<1>1. OneAttempt'
  <2> SUFFICES ASSUME NEW q \in Requests, NEW i \in Attempts
               PROVE  IsLast(q, i)' /\ IsCharged(q, i)'
    BY DEF OneAttempt
  <2>1. IsLast(q, i) /\ IsCharged(q, i)
    BY DEF OneAttempt
  <2>2. CASE q = r
    BY <2>1, <2>2 DEF IsLast, IsCharged
  <2>3. CASE q # r
    BY <2>1, <2>3 DEF IsLast, IsCharged
  <2> QED
    BY <2>2, <2>3
<1>2. ChargeIsDue'
  BY DEF ChargeIsDue, Current
<1>3. DoneAreThere'
  BY DEF DoneAreThere
<1> QED
  BY <1>1, <1>2, <1>3

\* Submitting, accepted or refused, writes no row.
LEMMA SubmitKeepsInvariant ==
    ASSUME IInv, NEW r \in Requests, Submit(r)
    PROVE  IInv'
<1> USE DEF IInv
<1>1. UNCHANGED <<row, charged, refunded, poll, faults, strays>>
  BY DEF Submit, books, counts
<1>2. /\ pc' \in [Requests -> {"submit", "insert", "charge", "end"}]
      /\ attempt' \in [Requests -> Attempts]
      /\ pc'[r] # "charge"
      /\ \A q \in Requests \ {r} : pc'[q] = pc[q] /\ attempt'[q] = attempt[q]
  <2>1. CASE Retry(r)
    BY <2>1, RetryType
  <2>2. CASE ~Retry(r)
    BY <2>2 DEF Submit, TypeOK
  <2> QED
    BY <2>1, <2>2
<1>3. TypeOK'
  <2>1. job' \in [Tasks -> {"none", "IN_PROGRESS", "SUCCESS", "FAILURE"}]
    BY DEF Submit, TypeOK
  <2>2. named' \in [Requests -> BOOLEAN]
    BY DEF Submit, TypeOK
  <2> QED
    BY <1>1, <1>2, <2>1, <2>2 DEF TypeOK
<1>4. \A i \in Attempts : ~row[<<r, i>>].there
  BY DEF Submit, OneAttempt, IsLast, IsCharged
<1>5. (OneAttempt /\ ChargeIsDue /\ DoneAreThere)'
  BY <1>1, <1>2, <1>4, MoveKeepsAttempts
<1>6. (AskedAreOpen /\ OneItem /\ RefundsExplained)'
  BY <1>1, <1>3, PollerUntouched DEF TypeOK
<1> QED
  BY <1>3, <1>5, <1>6

\* The row a request inserts is its only one.
LEMMA InsertKeepsInvariant ==
    ASSUME IInv, NEW r \in Requests, Insert(r)
    PROVE  IInv'
<1> USE DEF IInv
<1>1. \A i \in Attempts : ~row[<<r, i>>].there /\ charged[<<r, i>>] = 0
  BY DEF Insert, OneAttempt, IsLast, IsCharged
<1>2. Current(r) \in Tasks /\ ~row[Current(r)].there /\ ~row[Current(r)].done
  BY <1>1, CurrentType DEF DoneAreThere, Current, TypeOK
<1>3. CASE Fails /\ Retry(r)
  <2>1. /\ UNCHANGED <<row, charged, refunded, strays, named, job, poll>>
        /\ faults \in Nat /\ faults' = faults + 1 /\ faults' <= MaxFaults
       
    BY <1>2, <1>3 DEF Fails, Insert, books, TypeOK
  <2>2. TypeOK'
    BY <1>3, <2>1, RetryType DEF TypeOK
  <2>3. (OneAttempt /\ ChargeIsDue /\ DoneAreThere)'
    BY <1>1, <1>3, <2>1, RetryType, MoveKeepsAttempts
  <2>4. (AskedAreOpen /\ OneItem /\ RefundsExplained)'
    BY <2>1, <2>2, PollerUntouched
  <2> QED
    BY <2>2, <2>3, <2>4
<1>4. CASE ~(Fails /\ Retry(r))
  <2> DEFINE new == [there |-> TRUE, named |-> named[r], done |-> FALSE, status |-> "", reason |-> FALSE]
  <2>1. /\ row' = [row EXCEPT ![Current(r)] = new]
        /\ pc[r] = "insert" /\ pc' = [pc EXCEPT ![r] = "charge"]
        /\ UNCHANGED <<attempt, charged, refunded, faults, strays, named, job, poll>>
    BY <1>4 DEF Insert, counts, NoRow
  <2>2. new \in Rows
    BY DEF Rows, TypeOK
  <2>3. TypeOK'
    BY <1>2, <2>1, <2>2 DEF TypeOK
  <2>4. \A t \in Tasks : row'[t].done = row[t].done /\ (row[t].there => row'[t].there)
    BY <1>2, <2>1 DEF TypeOK, Rows
  <2>5. OneAttempt'
    <3> SUFFICES ASSUME NEW q \in Requests, NEW i \in Attempts
                 PROVE  IsLast(q, i)' /\ IsCharged(q, i)'
      BY DEF OneAttempt
    <3>1. <<q, i>> \in Tasks
      BY DEF Tasks
    <3>2. CASE q = r
      <4>1. charged[<<q, i>>] = 0 /\ pc'[q] = "charge"
        BY <1>1, <2>1, <3>2 DEF TypeOK
      <4>2. row'[<<q, i>>].there => i = attempt[q]
        BY <1>1, <2>1, <3>1, <3>2 DEF TypeOK, Current
      <4> QED
        BY <4>1, <4>2, <2>1 DEF IsLast, IsCharged
    <3>3. CASE q # r
      <4>1. <<q, i>> # Current(r)
        BY <3>3 DEF Current
      <4>2. row'[<<q, i>>] = row[<<q, i>>] /\ pc'[q] = pc[q]
        BY <2>1, <3>1, <3>3, <4>1 DEF TypeOK
      <4> QED
        BY <4>2, <2>1 DEF OneAttempt, IsLast, IsCharged
    <3> QED
      BY <3>2, <3>3
  <2>6. ChargeIsDue'
    <3> SUFFICES ASSUME NEW q \in Requests, pc'[q] = "charge"
                 PROVE  row'[<<q, attempt[q]>>].there
      BY <2>1 DEF ChargeIsDue, Current
    <3>1. <<q, attempt[q]>> \in Tasks
      BY DEF Tasks, TypeOK
    <3> QED
      BY <2>1, <3>1 DEF ChargeIsDue, Current, TypeOK
  <2>7. DoneAreThere'
    BY <1>2, <2>1, <2>4 DEF DoneAreThere, TypeOK
  <2>8. (AskedAreOpen /\ OneItem /\ RefundsExplained)'
    <3>1. faults' >= faults
      <4>1. faults' = faults
        BY <2>1
      <4>2. faults \in 0..MaxFaults
        BY DEF TypeOK
      <4> QED
        BY <4>1, <4>2
    <3> QED
      BY <2>1, <2>3, <2>4, <3>1, PollerUntouched
  <2> QED
    BY <2>3, <2>5, <2>6, <2>7, <2>8
<1> QED
  BY <1>3, <1>4

\* The charge comes last, and is for the row that was inserted.
LEMMA ChargeKeepsInvariant ==
    ASSUME IInv, NEW r \in Requests, Charge(r)
    PROVE  IInv'
<1> USE DEF IInv
<1>1. Current(r) \in Tasks /\ row[Current(r)].there
  BY CurrentType DEF Charge, ChargeIsDue
<1>2. /\ pc[r] = "charge" /\ pc' = [pc EXCEPT ![r] = "end"]
      /\ UNCHANGED <<row, refunded, attempt, named, job, poll>>
      /\ charged' = charged \/ charged' = [charged EXCEPT ![Current(r)] = @ + 1]
      /\ faults' \in 0..MaxFaults /\ faults' >= faults
      /\ strays' = strays
  <2>1. CASE Fails
    BY <1>1, <2>1 DEF Charge, Fails, books, TypeOK
  <2>2. CASE ~Fails
    BY <1>1, <2>2 DEF Charge, counts, TypeOK
  <2> QED
    BY <2>1, <2>2
<1>3. TypeOK'
  BY <1>1, <1>2 DEF TypeOK
<1>4. OneAttempt'
  <2> SUFFICES ASSUME NEW q \in Requests, NEW i \in Attempts
               PROVE  IsLast(q, i)' /\ IsCharged(q, i)'
    BY DEF OneAttempt
  <2>1. <<q, i>> \in Tasks
    BY DEF Tasks
  <2>2. CASE q = r
    <3>1. charged[<<q, i>>] = 0 /\ pc'[q] = "end"
      BY <1>2, <2>2 DEF OneAttempt, IsLast, IsCharged, TypeOK
    <3>2. charged'[<<q, i>>] = 0 \/ (charged'[<<q, i>>] = 1 /\ <<q, i>> = Current(r))
      BY <1>1, <1>2, <2>1, <3>1 DEF TypeOK
    <3> QED
      BY <1>1, <1>2, <2>2, <3>1, <3>2 DEF OneAttempt, IsLast, IsCharged, Current, TypeOK
  <2>3. CASE q # r
    <3>1. <<q, i>> # Current(r)
      BY <2>3 DEF Current
    <3>2. charged'[<<q, i>>] = charged[<<q, i>>] /\ pc'[q] = pc[q]
      BY <1>2, <2>1, <2>3, <3>1 DEF TypeOK
    <3> QED
      BY <1>2, <3>2 DEF OneAttempt, IsLast, IsCharged
  <2> QED
    BY <2>2, <2>3
<1>5. ChargeIsDue' /\ DoneAreThere'
  BY <1>2 DEF ChargeIsDue, DoneAreThere, Current, TypeOK
<1>6. (AskedAreOpen /\ OneItem /\ RefundsExplained)'
  BY <1>2, <1>3, PollerUntouched
<1> QED
  BY <1>3, <1>4, <1>5, <1>6

\* A job that ends changes nothing here.
LEMMA JobEndsKeepsInvariant ==
    ASSUME IInv, NEW t \in Tasks, JobEnds(t)
    PROVE  IInv'
<1> USE DEF IInv
<1>1. /\ UNCHANGED <<row, charged, refunded, pc, attempt, named, poll, faults, strays>>
      /\ job' \in [Tasks -> {"none", "IN_PROGRESS", "SUCCESS", "FAILURE"}]
  BY DEF JobEnds, books, request, counts, TypeOK
<1>2. TypeOK'
  BY <1>1 DEF TypeOK
<1>3. OneAttempt' /\ ChargeIsDue' /\ DoneAreThere'
  BY <1>1 DEF OneAttempt, IsLast, IsCharged, ChargeIsDue, DoneAreThere, Current
<1>4. faults' >= faults
  BY <1>1 DEF TypeOK
<1>5. (AskedAreOpen /\ OneItem /\ RefundsExplained)'
  BY <1>1, <1>2, <1>4, PollerUntouched
<1> QED
  BY <1>2, <1>3, <1>5

-----------------------------------------------------------------------------
\* The poller never takes a row away, nor does it touch requests or charges.
LEMMA PollerKeepsAttempts ==
    ASSUME IInv, UNCHANGED <<charged, pc, attempt>>,
           \A t \in Tasks : row'[t].there = row[t].there,
           \A t \in Tasks : row'[t].done => row'[t].there
    PROVE  (OneAttempt /\ ChargeIsDue /\ DoneAreThere)'
<1> USE DEF IInv
<1>1. OneAttempt'
  <2> SUFFICES ASSUME NEW q \in Requests, NEW i \in Attempts
               PROVE  IsLast(q, i)' /\ IsCharged(q, i)'
    BY DEF OneAttempt
  <2>1. IsLast(q, i) /\ IsCharged(q, i) /\ <<q, i>> \in Tasks
    BY DEF OneAttempt, Tasks
  <2> QED
    BY <2>1 DEF IsLast, IsCharged
<1>2. ChargeIsDue'
  BY CurrentType DEF ChargeIsDue, Current
<1>3. DoneAreThere'
  BY DEF DoneAreThere
<1> QED
  BY <1>1, <1>2, <1>3

\* What restricting a function to a set gives.
LEMMA RestrictType ==
    ASSUME NEW f, NEW S
    PROVE  /\ DOMAIN Restrict(f, S) = S
           /\ \A x \in S : Restrict(f, S)[x] = f[x]
BY DEF Restrict

\* Bringing a poll's record up to date.
LEMMA PollFields ==
    ASSUME TypeOK
    PROVE  /\ DOMAIN poll = {"stage", "memory", "items", "stray", "err", "item"}
           /\ DOMAIN poll.memory \subseteq Tasks /\ DOMAIN poll.items \subseteq Tasks
           /\ poll.item \subseteq DOMAIN poll.items
           /\ Asked \subseteq DOMAIN poll.memory /\ Unnamed \subseteq DOMAIN poll.memory
           /\ poll.stage \in {"asleep", "mark", "fetch", "items", "dead"}
BY AsleepType DEF TypeOK, IsPoll, Asked, Unnamed

\* A poller that goes to sleep has nothing in hand.
LEMMA SleepKeepsPoll ==
    ASSUME IInv, poll' = Asleep \/ poll' = [Asleep EXCEPT !.stage = "dead"],
           refunded' = refunded,
           \A t \in Tasks : row[t].done => row'[t].done,
           faults' \in Nat, faults' >= faults, poll.item = {} \/ faults' > faults
    PROVE  IsPoll(poll)' /\ (AskedAreOpen /\ OneItem /\ RefundsExplained)'
<1> USE DEF IInv
<1>1. /\ poll'.stage \in {"asleep", "dead"} /\ poll'.item = {}
      /\ DOMAIN poll'.items = {} /\ DOMAIN poll'.memory = {}
      /\ DOMAIN poll' = DOMAIN Asleep /\ poll'.stray \in BOOLEAN /\ poll'.err \in BOOLEAN
  BY AsleepType DEF IsPoll
<1>2. IsPoll(poll)'
  BY <1>1 DEF IsPoll
<1>3. AskedAreOpen' /\ OneItem'
  BY <1>1 DEF AskedAreOpen, IsOpen, OneItem
<1>4. RefundsExplained'
  <2> SUFFICES ASSUME NEW t \in Tasks
               PROVE  (refunded[t] <= faults \/ (Settled(t) /\ refunded[t] <= faults + 1))'
    BY DEF RefundsExplained
  <2>1. /\ refunded[t] <= faults \/ (Settled(t) /\ refunded[t] <= faults + 1)
        /\ refunded[t] \in Nat /\ faults \in Nat
    BY DEF RefundsExplained, TypeOK
  <2>2. CASE faults' > faults
    BY <2>1, <2>2
  <2>3. CASE poll.item = {}
    <3>1. Settled(t) => Settled(t)'
      BY <2>3 DEF Settled
    <3> QED
      BY <2>1, <3>1
  <2> QED
    BY <2>2, <2>3
<1> QED
  BY <1>2, <1>3, <1>4

\* What is left of TypeOK when the poller has moved.
LEMMA PollerType ==
    ASSUME IInv, IsPoll(poll)', UNCHANGED <<charged, request, job>>,
           row' \in [Tasks -> Rows], refunded' \in [Tasks -> Nat],
           faults' \in 0..MaxFaults, strays' \in 0..MaxStrays
    PROVE  TypeOK'
BY DEF IInv, TypeOK, request

\* A poller that asks, with nothing in hand, leaves the refunds alone.
LEMMA AskKeepsRefunds ==
    ASSUME IInv, UNCHANGED <<refunded>>, poll.item = {}, poll'.item = {},
           faults' \in Nat, faults' >= faults,
           \A t \in Tasks : row[t].done => row'[t].done
    PROVE  OneItem' /\ RefundsExplained'
<1> USE DEF IInv
<1>1. OneItem'
  BY DEF OneItem
<1>2. RefundsExplained'
  <2> SUFFICES ASSUME NEW t \in Tasks
               PROVE  (refunded[t] <= faults \/ (Settled(t) /\ refunded[t] <= faults + 1))'
    BY DEF RefundsExplained
  <2>1. /\ refunded[t] <= faults \/ (Settled(t) /\ refunded[t] <= faults + 1)
        /\ refunded[t] \in Nat /\ faults \in Nat
    BY DEF RefundsExplained, TypeOK
  <2>2. Settled(t) => Settled(t)'
    BY DEF Settled
  <2> QED
    BY <2>1, <2>2
<1> QED
  BY <1>1, <1>2

\* The types the steps below need.
LEMMA StepTypes == ASSUME TypeOK PROVE faults \in Nat /\ strays \in Nat /\ \A t \in Tasks : row[t] \in Rows
BY DEF TypeOK

\* Nothing is in hand before the items are there.
LEMMA NothingInHand == ASSUME IInv, poll.stage # "items" PROVE poll.item = {}
BY PollFields DEF IInv, AskedAreOpen, IsOpen

\* A poll starts with the unfinished tasks.
LEMMA PollStartKeepsInvariant == ASSUME IInv, PollStart PROVE IInv'
<1> USE DEF IInv
<1> DEFINE unfinished == {t \in Tasks : row[t].there /\ ~row[t].done}
<1>1. /\ UNCHANGED <<row, charged, refunded, request, job, faults, strays>>
      /\ poll.stage = "asleep"
      /\ poll' = [Asleep EXCEPT !.stage = "mark", !.memory = Restrict(row, unfinished)]
  BY DEF PollStart, books, counts
<1>2. /\ DOMAIN poll' = DOMAIN Asleep /\ poll'.stage = "mark" /\ poll'.item = {}
      /\ poll'.memory = Restrict(row, unfinished)
      /\ DOMAIN poll'.items = {} /\ poll'.stray \in BOOLEAN /\ poll'.err \in BOOLEAN
  BY <1>1, AsleepType DEF IsPoll
<1>3. /\ DOMAIN poll'.memory = unfinished
      /\ \A t \in unfinished : poll'.memory[t] = row[t]
  BY <1>2, RestrictType
<1>4. IsPoll(poll)'
  <2>1. DOMAIN (poll'.memory) \subseteq Tasks
    BY <1>3
  <2>2. \A t \in DOMAIN (poll'.memory) : poll'.memory[t] \in Rows
    BY <1>3, StepTypes
  <2> QED
    BY <1>2, <2>1, <2>2 DEF IsPoll
<1>5. TypeOK'
  BY <1>1, <1>4, PollerType DEF TypeOK
<1>6. (OneAttempt /\ ChargeIsDue /\ DoneAreThere)'
  BY <1>1, PollerKeepsAttempts DEF request, DoneAreThere
<1>7. AskedAreOpen'
  BY <1>1, <1>2, <1>3 DEF AskedAreOpen, IsOpen
<1>8. OneItem' /\ RefundsExplained'
  <2>1. faults' \in Nat /\ faults' >= faults
    BY <1>1, StepTypes
  <2> QED
    BY <1>1, <1>2, <2>1, NothingInHand, AskKeepsRefunds
<1> QED
  BY <1>5, <1>6, <1>7, <1>8

\* Finishing tasks in bulk.
LEMMA BulkFailedType ==
    ASSUME IInv, NEW S, NEW reason \in BOOLEAN
    PROVE  /\ BulkFailed(S, reason) \in [Tasks -> Rows]
           /\ \A t \in Tasks : /\ BulkFailed(S, reason)[t].there = row[t].there
                               /\ row[t].done => BulkFailed(S, reason)[t].done
                               /\ BulkFailed(S, reason)[t].done => row[t].there
                               /\ t \notin S => BulkFailed(S, reason)[t] = row[t]
<1> USE DEF IInv
<1> DEFINE new(t) == [there |-> TRUE, named |-> row[t].named, done |-> TRUE, status |-> "FAILURE",
                      reason |-> row[t].reason \/ reason]
<1>1. \A t \in Tasks : new(t) \in Rows /\ new(t).there = TRUE /\ new(t).done = TRUE
  BY StepTypes DEF Rows
<1>2. \A t \in Tasks : BulkFailed(S, reason)[t] = IF t \in S /\ row[t].there THEN new(t) ELSE row[t]
  BY DEF BulkFailed
<1>3. \A t \in Tasks : row[t] \in Rows /\ row[t].there \in BOOLEAN /\ (row[t].done => row[t].there)
  BY StepTypes DEF Rows, DoneAreThere
<1> HIDE DEF new
<1>4. \A t \in Tasks : BulkFailed(S, reason)[t] \in Rows
  BY <1>1, <1>2, <1>3
<1>5. BulkFailed(S, reason) \in [Tasks -> Rows]
  BY <1>4 DEF BulkFailed
<1> QED
  BY <1>1, <1>2, <1>3, <1>5

\* Failing the tasks without an id leaves the others unfinished.
LEMMA MarkUnnamedKeepsInvariant == ASSUME IInv, MarkUnnamed PROVE IInv'
<1> USE DEF IInv
<1>1. /\ UNCHANGED <<charged, refunded, request, job>> /\ strays' = strays
      /\ poll.stage = "mark"
      /\ poll' = IF Asked = {} THEN Asleep ELSE [poll EXCEPT !.stage = "fetch"]
      /\ row' = BulkFailed(Unnamed, FALSE) \/ row' = row
      /\ faults' \in 0..MaxFaults /\ faults' >= faults
  <2>1. CASE Unnamed # {} /\ Fails
    BY <2>1, PollFields DEF MarkUnnamed, Fails, books, TypeOK
  <2>2. CASE row' = BulkFailed(Unnamed, FALSE) /\ UNCHANGED <<charged, refunded, counts>>
    <3>1. faults' = faults /\ strays' = strays
      BY <2>2 DEF counts
    <3> QED
      BY <2>2, <3>1, StepTypes DEF MarkUnnamed, TypeOK
  <2> QED
    BY <2>1, <2>2 DEF MarkUnnamed
<1>2. /\ row' \in [Tasks -> Rows]
      /\ \A t \in Tasks : /\ row'[t].there = row[t].there
                          /\ row[t].done => row'[t].done
                          /\ row'[t].done => row'[t].there
                          /\ t \notin Unnamed => row'[t] = row[t]
  <2>1. CASE row' = BulkFailed(Unnamed, FALSE)
    BY <2>1, BulkFailedType
  <2>2. CASE row' = row
    BY <2>2 DEF TypeOK, DoneAreThere
  <2> QED
    BY <1>1, <2>1, <2>2
<1>3. /\ faults' \in Nat /\ faults' \in 0..MaxFaults /\ faults' >= faults
      /\ refunded' = refunded /\ charged' = charged /\ UNCHANGED request /\ job' = job
      /\ strays' = strays
  BY <1>1
<1>4. poll.item = {} /\ DOMAIN poll.items = {}
  BY <1>1, NothingInHand DEF AskedAreOpen, IsOpen
<1>5. IsPoll(poll)' /\ (AskedAreOpen /\ OneItem /\ RefundsExplained)'
  <2>1. CASE Asked = {}
    <3>1. poll' = Asleep
      BY <1>1, <2>1
    <3> QED
      BY <1>2, <1>3, <1>4, <3>1, SleepKeepsPoll
  <2>2. CASE Asked # {}
    <3>1. /\ DOMAIN poll' = DOMAIN poll /\ poll'.stage = "fetch" /\ poll'.memory = poll.memory
          /\ poll'.items = poll.items /\ poll'.item = poll.item
          /\ poll'.stray = poll.stray /\ poll'.err = poll.err
      BY <1>1, <2>2, PollFields
    <3>2. IsPoll(poll)'
      BY <3>1 DEF IsPoll, TypeOK
    <3>3. Asked' = Asked
      BY <3>1 DEF Asked
    <3>4. \A t \in Asked : t \in Tasks /\ t \notin Unnamed /\ IsOpen(t)
      BY <1>1, PollFields DEF AskedAreOpen, IsOpen, Unnamed
    <3>5. AskedAreOpen'
      <4>1. poll'.stage = "fetch" /\ DOMAIN (poll'.items) = {}
        BY <1>4, <3>1
      <4>2. \A t \in Asked' : IsOpen(t)'
        BY <1>2, <3>3, <3>4 DEF IsOpen
      <4> QED
        BY <4>1, <4>2 DEF AskedAreOpen, IsOpen
    <3>6. OneItem' /\ RefundsExplained'
      <4>1. poll'.item = {}
        BY <1>4, <3>1
      <4> QED
        BY <1>2, <1>3, <1>4, <4>1, AskKeepsRefunds
    <3> QED
      BY <3>2, <3>5, <3>6
  <2> QED
    BY <2>1, <2>2
<1>6. TypeOK'
  <2>1. refunded' \in [Tasks -> Nat] /\ strays' \in 0..MaxStrays
    BY <1>3 DEF TypeOK
  <2>2. IsPoll(poll)' /\ row' \in [Tasks -> Rows] /\ UNCHANGED <<charged, request, job>>
    BY <1>2, <1>3, <1>5
  <2> QED
    BY <1>3, <2>1, <2>2, PollerType
<1>7. (OneAttempt /\ ChargeIsDue /\ DoneAreThere)'
  BY <1>1, <1>2, PollerKeepsAttempts DEF request
<1> QED
  BY <1>5, <1>6, <1>7

\* A poll without an answer ends, whether or not it fails its tasks.
LEMMA NoAnswerKeepsInvariant == ASSUME IInv, NoAnswer PROVE IInv'
<1> USE DEF IInv
<1>1. /\ charged' = charged /\ refunded' = refunded /\ UNCHANGED request /\ job' = job
      /\ poll.stage = "fetch" /\ poll' = Asleep
      /\ row' = BulkFailed(Asked, TRUE) \/ row' = row
      /\ faults' \in 0..MaxFaults /\ faults' \in Nat /\ faults' >= faults
      /\ strays' = strays
  <2>1. CASE UNCHANGED <<books, counts>>
    <3>1. row' = row /\ charged' = charged /\ refunded' = refunded
      BY <2>1 DEF books
    <3>2. faults' = faults /\ strays' = strays
      BY <2>1 DEF counts
    <3> QED
      BY <3>1, <3>2, StepTypes DEF NoAnswer, TypeOK
  <2>2. CASE /\ faults + strays < MaxFaults /\ faults' = faults + 1 /\ row' = BulkFailed(Asked, TRUE)
             /\ UNCHANGED <<charged, refunded, strays>>
    <3>1. Asked \subseteq Tasks
      BY PollFields
    <3> QED
      BY <2>2, <3>1, StepTypes DEF NoAnswer, TypeOK
  <2> QED
    BY <2>1, <2>2 DEF NoAnswer
<1>2. /\ row' \in [Tasks -> Rows]
      /\ \A t \in Tasks : /\ row'[t].there = row[t].there
                          /\ row[t].done => row'[t].done
                          /\ row'[t].done => row'[t].there
  <2>1. CASE row' = BulkFailed(Asked, TRUE)
    BY <2>1, BulkFailedType
  <2>2. CASE row' = row
    BY <2>2 DEF TypeOK, DoneAreThere
  <2> QED
    BY <1>1, <2>1, <2>2
<1>3. IsPoll(poll)' /\ (AskedAreOpen /\ OneItem /\ RefundsExplained)'
  <2>1. poll.item = {}
    BY <1>1, NothingInHand
  <2> QED
    BY <1>1, <1>2, <2>1, SleepKeepsPoll
<1>4. TypeOK'
  BY <1>1, <1>2, <1>3, PollerType DEF TypeOK
<1>5. (OneAttempt /\ ChargeIsDue /\ DoneAreThere)'
  BY <1>1, <1>2, PollerKeepsAttempts DEF request
<1> QED
  BY <1>3, <1>4, <1>5

\* The items of an answer are of unfinished tasks.
LEMMA AnswerKeepsInvariant == ASSUME IInv, NEW L \in SUBSET Tasks, Answer(L) PROVE IInv'
<1> USE DEF IInv
<1>1. PICK items \in [L -> Items], stray \in BOOLEAN :
        /\ poll.stage = "fetch" /\ L \subseteq Asked
        /\ stray => faults + strays < MaxStrays
        /\ strays' = IF stray THEN strays + 1 ELSE strays
        /\ poll' = [poll EXCEPT !.stage = "items", !.items = items, !.stray = stray]
        /\ UNCHANGED <<books, request, job, faults>>
  BY DEF Answer
<1>2. /\ DOMAIN poll' = DOMAIN poll /\ poll'.stage = "items" /\ poll'.memory = poll.memory
      /\ poll'.items = items /\ poll'.stray = stray /\ poll'.err = poll.err /\ poll'.item = {}
      /\ poll.item = {}
  BY <1>1, PollFields, NothingInHand
<1>3. /\ row' = row /\ charged' = charged /\ refunded' = refunded /\ UNCHANGED request
      /\ job' = job /\ faults' = faults
  BY <1>1 DEF books
<1>4. IsPoll(poll)'
  <2>1. DOMAIN (poll'.items) = L /\ \A t \in L : poll'.items[t] \in Items
    BY <1>2
  <2> QED
    BY <1>2, <2>1 DEF IsPoll, TypeOK
<1>5. strays' \in 0..MaxStrays
  BY <1>1 DEF TypeOK
<1>6. TypeOK'
  BY <1>3, <1>4, <1>5, PollerType DEF TypeOK
<1>7. (OneAttempt /\ ChargeIsDue /\ DoneAreThere)'
  BY <1>3, PollerKeepsAttempts DEF request, DoneAreThere
<1>8. AskedAreOpen'
  <2>1. \A t \in DOMAIN (poll'.items) : IsOpen(t)'
    BY <1>1, <1>2, <1>3 DEF AskedAreOpen, IsOpen
  <2> QED
    BY <1>2, <2>1 DEF AskedAreOpen, IsOpen
<1>9. OneItem' /\ RefundsExplained'
  BY <1>2, <1>3, StepTypes, AskKeepsRefunds
<1> QED
  BY <1>6, <1>7, <1>8, <1>9

\* The poller loses its goroutine, or is through with an answer.
LEMMA StopKeepsInvariant == ASSUME IInv, Panic \/ PollEnd PROVE IInv'
<1> USE DEF IInv
<1>1. /\ poll' = Asleep \/ poll' = [Asleep EXCEPT !.stage = "dead"]
      /\ poll.item = {}
      /\ UNCHANGED <<books, request, job, counts>>
  BY DEF Panic, PollEnd
<1>2. /\ row' = row /\ charged' = charged /\ refunded' = refunded /\ UNCHANGED request
      /\ job' = job /\ faults' = faults /\ strays' = strays
  BY <1>1 DEF books, counts
<1>3. IsPoll(poll)' /\ (AskedAreOpen /\ OneItem /\ RefundsExplained)'
  BY <1>1, <1>2, StepTypes, SleepKeepsPoll
<1>4. TypeOK'
  BY <1>2, <1>3, PollerType DEF TypeOK
<1>5. (OneAttempt /\ ChargeIsDue /\ DoneAreThere)'
  BY <1>2, PollerKeepsAttempts DEF request, DoneAreThere
<1> QED
  BY <1>3, <1>4, <1>5

\* What is paid back is in hand until its row is saved.
LEMMA PayItemKeepsInvariant == ASSUME IInv, NEW t \in Tasks, PayItem(t) PROVE IInv'
<1> USE DEF IInv
<1>1. poll.stage = "items" /\ t \in DOMAIN poll.items /\ poll.item = {}
  BY DEF PayItem
<1>2. row' = row /\ charged' = charged /\ UNCHANGED request /\ job' = job /\ strays' = strays
  BY DEF PayItem, Fails, books, counts
<1>3. CASE /\ poll' = [poll EXCEPT !.items = Restrict(@, DOMAIN @ \ {t})]
           /\ UNCHANGED <<books, counts>>
  <2>1. /\ DOMAIN poll' = DOMAIN poll /\ poll'.stage = poll.stage /\ poll'.memory = poll.memory
        /\ poll'.items = Restrict(poll.items, DOMAIN poll.items \ {t})
        /\ poll'.stray = poll.stray /\ poll'.err = poll.err /\ poll'.item = {}
    BY <1>1, <1>3, PollFields
  <2>2. refunded' = refunded /\ faults' = faults
    BY <1>3 DEF books, counts
  <2>3. /\ DOMAIN (poll'.items) = DOMAIN poll.items \ {t}
        /\ \A u \in DOMAIN (poll'.items) : poll'.items[u] = poll.items[u]
    BY <2>1, RestrictType
  <2>4. IsPoll(poll)'
    BY <2>1, <2>3 DEF IsPoll, TypeOK
  <2>5. TypeOK'
    BY <1>2, <2>2, <2>4, PollerType DEF TypeOK
  <2>6. (OneAttempt /\ ChargeIsDue /\ DoneAreThere)'
    BY <1>2, PollerKeepsAttempts DEF request, DoneAreThere
  <2>7. AskedAreOpen'
    BY <1>1, <1>2, <2>1, <2>3 DEF AskedAreOpen, IsOpen
  <2>8. OneItem' /\ RefundsExplained'
    BY <1>1, <1>2, <2>1, <2>2, StepTypes, AskKeepsRefunds
  <2> QED
    BY <2>5, <2>6, <2>7, <2>8
<1>4. CASE /\ poll' = [poll EXCEPT !.item = {t}]
           /\ \/ UNCHANGED <<books, counts>>
              \/ /\ IsFailure(poll.items[t])
                 /\ \/ /\ refunded' = [refunded EXCEPT ![t] = @ + 1]
                       /\ UNCHANGED <<row, charged, counts>>
                    \/ Fails
  <2>1. /\ DOMAIN poll' = DOMAIN poll /\ poll'.stage = poll.stage /\ poll'.memory = poll.memory
        /\ poll'.items = poll.items
        /\ poll'.stray = poll.stray /\ poll'.err = poll.err /\ poll'.item = {t}
    BY <1>4, PollFields
  <2>2. /\ faults' \in 0..MaxFaults /\ faults' \in Nat /\ faults' >= faults
        /\ \/ refunded' = refunded
           \/ refunded' = [refunded EXCEPT ![t] = @ + 1] /\ IsFailure(poll.items[t])
    <3>1. CASE UNCHANGED <<books, counts>>
      BY <3>1, StepTypes DEF books, counts, TypeOK
    <3>2. CASE IsFailure(poll.items[t]) /\ refunded' = [refunded EXCEPT ![t] = @ + 1] /\ UNCHANGED counts
      BY <3>2, StepTypes DEF counts, TypeOK
    <3>3. CASE Fails
      BY <3>3, StepTypes DEF Fails, books, TypeOK
    <3> QED
      BY <1>4, <3>1, <3>2, <3>3
  <2>3. IsPoll(poll)'
    BY <1>1, <2>1 DEF IsPoll, TypeOK
  <2>4. refunded' \in [Tasks -> Nat]
    BY <2>2 DEF TypeOK
  <2>5. TypeOK'
    BY <1>2, <2>2, <2>3, <2>4, PollerType DEF TypeOK
  <2>6. (OneAttempt /\ ChargeIsDue /\ DoneAreThere)'
    BY <1>2, PollerKeepsAttempts DEF request, DoneAreThere
  <2>7. AskedAreOpen' /\ OneItem'
    BY <1>1, <1>2, <2>1 DEF AskedAreOpen, IsOpen, OneItem
  <2>8. RefundsExplained'
    <3> SUFFICES ASSUME NEW u \in Tasks
                 PROVE  (refunded[u] <= faults \/ (Settled(u) /\ refunded[u] <= faults + 1))'
      BY DEF RefundsExplained
    <3>1. /\ refunded[u] <= faults \/ (Settled(u) /\ refunded[u] <= faults + 1)
          /\ refunded[u] \in Nat /\ faults \in Nat
      BY DEF RefundsExplained, TypeOK
    <3>2. Settled(u) => Settled(u)'
      BY <1>1, <1>2 DEF Settled
    <3>3. CASE refunded'[u] = refunded[u]
      BY <2>2, <3>1, <3>2, <3>3
    <3>4. CASE refunded'[u] # refunded[u]
      <4>1. u = t /\ refunded'[t] = refunded[t] + 1 /\ IsFailure(poll.items[t])
        BY <2>2, <3>4 DEF TypeOK
      <4>2. ~Settled(t)
        BY <1>1 DEF Settled, AskedAreOpen, IsOpen
      <4>3. Settled(t)'
        BY <2>1, <4>1 DEF Settled
      <4> QED
        BY <2>2, <3>1, <4>1, <4>2, <4>3
    <3> QED
      BY <3>3, <3>4
  <2> QED
    BY <2>5, <2>6, <2>7, <2>8
<1> QED
  BY <1>3, <1>4 DEF PayItem

\* The row in hand is finished, or its failing save is a fault.
LEMMA SaveItemKeepsInvariant == ASSUME IInv, NEW t \in Tasks, SaveItem(t) PROVE IInv'
<1> USE DEF IInv
<1>1. PICK err \in BOOLEAN :
        /\ IF err THEN Fails
           ELSE row' = [row EXCEPT ![t] = Updated(t)] /\ UNCHANGED <<charged, refunded, counts>>
        /\ poll' = [poll EXCEPT !.items = Restrict(@, DOMAIN @ \ {t}), !.item = {}, !.err = err]
  BY DEF SaveItem
<1>2. /\ UNCHANGED request /\ job' = job
      /\ t \in poll.item /\ t \in DOMAIN poll.items /\ IsOpen(t)
      /\ poll.stage = "items"
  BY PollFields DEF SaveItem, AskedAreOpen, IsOpen
<1>3. /\ DOMAIN poll' = DOMAIN poll /\ poll'.stage = poll.stage /\ poll'.memory = poll.memory
      /\ poll'.items = Restrict(poll.items, DOMAIN poll.items \ {t})
      /\ poll'.stray = poll.stray /\ poll'.err = err /\ poll'.item = {}
  BY <1>1, PollFields
<1>4. /\ DOMAIN (poll'.items) = DOMAIN poll.items \ {t}
      /\ \A u \in DOMAIN (poll'.items) : poll'.items[u] = poll.items[u]
  BY <1>3, RestrictType
<1>5. IsPoll(poll)'
  BY <1>3, <1>4 DEF IsPoll, TypeOK
<1>6. \A u \in Tasks : u # t => ~(u \in poll.item)
  BY <1>2 DEF OneItem
<1>7. CASE err
  <2>1. /\ row' = row /\ charged' = charged /\ refunded' = refunded /\ strays' = strays
        /\ faults' = faults + 1 /\ faults' \in 0..MaxFaults
    BY <1>1, <1>7, StepTypes DEF Fails, books, TypeOK
  <2>2. TypeOK'
    BY <1>2, <1>5, <2>1, PollerType DEF TypeOK
  <2>3. (OneAttempt /\ ChargeIsDue /\ DoneAreThere)'
    BY <1>2, <2>1, PollerKeepsAttempts DEF request, DoneAreThere
  <2>4. AskedAreOpen' /\ OneItem'
    BY <1>2, <1>3, <1>4, <2>1 DEF AskedAreOpen, IsOpen, OneItem
  <2>5. RefundsExplained'
    BY <2>1 DEF RefundsExplained, TypeOK
  <2> QED
    BY <2>2, <2>3, <2>4, <2>5
<1>8. CASE ~err
  <2> DEFINE item == poll.items[t]
             new == [there |-> TRUE, named |-> TRUE, status |-> item.status,
                     done |-> poll.memory[t].done \/ IsFailure(item) \/ item.status = "SUCCESS",
                     reason |-> poll.memory[t].reason \/ item.reason]
  <2>1. /\ row' = [row EXCEPT ![t] = new] /\ charged' = charged /\ refunded' = refunded
        /\ UNCHANGED counts
    BY <1>1, <1>8 DEF Updated
  <2>2. faults' = faults /\ strays' = strays
    BY <2>1 DEF counts
  <2>3. item \in Items
    BY <1>2 DEF TypeOK, IsPoll
  <2>4. new \in Rows /\ new.there = TRUE /\ (IsFailure(item) => new.done)
    BY <2>3 DEF Rows, Items, IsFailure
  <2> HIDE DEF new
  <2>5. row[t].there = TRUE /\ row[t].done = FALSE
    BY <1>2, StepTypes DEF IsOpen, Rows
  <2>6. row' \in [Tasks -> Rows]
    BY <2>1, <2>4 DEF TypeOK
  <2>7. \A u \in Tasks : row'[u] = IF u = t THEN new ELSE row[u]
    BY <2>1 DEF TypeOK
  <2>8. TypeOK'
    BY <1>2, <1>5, <2>1, <2>2, <2>6, PollerType DEF TypeOK
  <2>9. (OneAttempt /\ ChargeIsDue /\ DoneAreThere)'
    <3>1. \A u \in Tasks : row'[u].there = row[u].there
      BY <2>4, <2>5, <2>7
    <3>2. \A u \in Tasks : row'[u].done => row'[u].there
      BY <2>4, <2>7 DEF DoneAreThere
    <3> QED
      BY <1>2, <2>1, <3>1, <3>2, PollerKeepsAttempts DEF request
  <2>10. AskedAreOpen' /\ OneItem'
    <3>1. \A u \in DOMAIN (poll'.items) : IsOpen(u)'
      BY <1>4, <2>7, PollFields DEF AskedAreOpen, IsOpen
    <3> QED
      BY <1>2, <1>3, <3>1 DEF AskedAreOpen, OneItem
  <2>11. RefundsExplained'
    <3> SUFFICES ASSUME NEW u \in Tasks
                 PROVE  (refunded[u] <= faults \/ (Settled(u) /\ refunded[u] <= faults + 1))'
      BY DEF RefundsExplained
    <3>1. refunded[u] <= faults \/ (Settled(u) /\ refunded[u] <= faults + 1)
      BY DEF RefundsExplained
    <3>2. Settled(u) => Settled(u)'
      <4>1. CASE u = t
        BY <2>4, <2>5, <2>7, <4>1 DEF Settled
      <4>2. CASE u # t
        BY <1>6, <2>7, <4>2 DEF Settled
      <4> QED
        BY <4>1, <4>2
    <3> QED
      BY <2>1, <2>2, <3>1, <3>2
  <2> QED
    BY <2>8, <2>9, <2>10, <2>11
<1> QED
  BY <1>7, <1>8

\* A restart is a fault that explains a refund in hand.
LEMMA RestartKeepsInvariant == ASSUME IInv, Restart PROVE IInv'
<1> USE DEF IInv
<1>1. /\ row' = row /\ charged' = charged /\ refunded' = refunded
      /\ attempt' = attempt /\ named' = named /\ job' = job
      /\ strays' = strays /\ faults' \in 0..MaxFaults /\ faults' = faults + 1
      /\ pc' = [r \in Requests |-> "end"] /\ poll' = Asleep
     
  BY StepTypes DEF Restart, Fails, books, TypeOK
<1>2. IsPoll(poll)' /\ (AskedAreOpen /\ OneItem /\ RefundsExplained)'
  BY <1>1, StepTypes, SleepKeepsPoll
<1>3. TypeOK'
  BY <1>1, <1>2 DEF TypeOK
<1>4. OneAttempt'
  <2> SUFFICES ASSUME NEW q \in Requests, NEW i \in Attempts
               PROVE  IsLast(q, i)' /\ IsCharged(q, i)'
    BY DEF OneAttempt
  <2> QED
    BY <1>1 DEF OneAttempt, IsLast, IsCharged
<1>5. ChargeIsDue' /\ DoneAreThere'
  BY <1>1 DEF ChargeIsDue, DoneAreThere
<1> QED
  BY <1>2, <1>3, <1>4, <1>5

-----------------------------------------------------------------------------
\* Every step keeps the invariant.
LEMMA NextKeepsInvariant == ASSUME IInv, [Next]_vars PROVE IInv'
<1>1. CASE UpdateTaskBulk
  <2>1. CASE \E L \in SUBSET Tasks : Answer(L)
    BY <2>1, AnswerKeepsInvariant
  <2>2. CASE \E t \in Tasks : PayItem(t) \/ SaveItem(t)
    BY <2>2, PayItemKeepsInvariant, SaveItemKeepsInvariant
  <2> QED
    BY <1>1, <2>1, <2>2, PollStartKeepsInvariant, MarkUnnamedKeepsInvariant,
       NoAnswerKeepsInvariant, StopKeepsInvariant DEF UpdateTaskBulk
<1>2. CASE \E r \in Requests : RelayTask(r)
  BY <1>2, SubmitKeepsInvariant, InsertKeepsInvariant, ChargeKeepsInvariant DEF RelayTask
<1>3. CASE \E t \in Tasks : JobEnds(t)
  BY <1>3, JobEndsKeepsInvariant
<1>4. CASE Restart
  BY <1>4, RestartKeepsInvariant
<1>5. CASE UNCHANGED vars
  <2>1. /\ UNCHANGED <<row, charged, refunded, job, pc, attempt, named, poll>>
        /\ UNCHANGED <<faults, strays>>
    BY <1>5 DEF vars, books, request, counts
  <2> QED
    BY <2>1 DEF IInv, TypeOK, OneAttempt, IsLast, IsCharged, ChargeIsDue, DoneAreThere,
                AskedAreOpen, IsOpen, OneItem, RefundsExplained, Settled, Asked, Current
<1> QED
  BY <1>1, <1>2, <1>3, <1>4, <1>5 DEF Next

\* The invariant holds in every state.
THEOREM Invariance == Spec => []IInv
BY InitInvariant, NextKeepsInvariant, PTL DEF Spec

\* However often a request is tried, on whatever channels, it is charged for
\* one attempt at most (RelayTask's loop and the deferred charge).
THEOREM RequestsChargedOnce == Spec => []ChargedOnce
<1>1. IInv => ChargedOnce
  <2> SUFFICES ASSUME IInv, NEW r \in Requests, NEW i \in Attempts, NEW j \in Attempts
               PROVE  charged[<<r, i>>] + charged[<<r, j>>] <= IF i = j THEN 2 ELSE 1
    BY DEF ChargedOnce
  <2> QED
    BY DEF IInv, OneAttempt, IsLast, IsCharged
<1> QED
  BY <1>1, Invariance, PTL

\* A charge is always for a task the poller will find, so that a failure of
\* it can be paid back.
THEOREM ChargesAreRecorded == Spec => []ChargedAreRecorded
<1>1. IInv => ChargedAreRecorded
  <2> SUFFICES ASSUME IInv, NEW r \in Requests, NEW i \in Attempts, charged[<<r, i>>] > 0
               PROVE  row[<<r, i>>].there
    BY DEF ChargedAreRecorded, Tasks
  <2> QED
    BY DEF IInv, OneAttempt, IsCharged
<1> QED
  BY <1>1, Invariance, PTL

\* Every failing statement or restart makes updateSunoTaskAll pay a task back
\* once more, at most.
THEOREM RefundsBounded == Spec => []RefundsFollowFaults
<1>1. IInv => RefundsFollowFaults
  BY DEF IInv, RefundsExplained, RefundsFollowFaults, TypeOK
<1> QED
  BY <1>1, Invariance, PTL
-----------------------------------------------------------------------------
(***************************************************************************)
(* While nothing fails, every failure is paid back.                        *)
(***************************************************************************)
Failed(r) == r.status = "FAILURE" \/ r.reason

\* A task that is not done has not failed, in the table and in memory, and the
\* poller's copies are fresh while it marks.
Fresh ==
    /\ \A t \in Tasks : ~row[t].done => ~Failed(row[t])
    /\ \A t \in DOMAIN poll.memory : ~poll.memory[t].done /\ ~poll.memory[t].reason
    /\ poll.stage = "mark" => \A t \in DOMAIN poll.memory : row[t] = poll.memory[t]
    /\ DOMAIN poll.items \subseteq DOMAIN poll.memory

\* Without a fault no error is carried over to the next item, a failure in hand
\* was paid back, and so was what is recorded.
PaidBackOrInHand ==
    faults = 0 =>
        /\ ~poll.err
        /\ \A t \in poll.item : IsFailure(poll.items[t]) => refunded[t] = 1
        /\ \A t \in Tasks : row[t].done /\ row[t].named /\ Failed(row[t]) => refunded[t] = 1

JInv == IInv /\ Fresh /\ PaidBackOrInHand
\* What each step is to keep.
Later == Fresh' /\ PaidBackOrInHand'

\* What leaves table, poller and refunds alone.
LEMMA UntouchedPays ==
    ASSUME JInv, UNCHANGED <<row, poll, refunded>>, faults' = faults \/ faults' # 0
    PROVE  Later
BY DEF JInv, Later, Fresh, PaidBackOrInHand

\* A request records a task that is not done, and pays nothing back.
LEMMA RequestPays ==
    ASSUME JInv, NEW r \in Requests, RelayTask(r)
    PROVE  Later
<1> USE DEF JInv, IInv
<1>1. faults' = faults \/ faults' # 0
  <2>1. CASE Fails
    BY <2>1, StepTypes DEF Fails
  <2>2. CASE ~Fails
    BY <2>2 DEF RelayTask, Submit, Insert, Charge, counts
  <2> QED
    BY <2>1, <2>2
<1>2. CASE row' = row
  <2>1. UNCHANGED <<poll, refunded>>
    BY DEF RelayTask, Submit, Insert, Charge, Fails, books
  <2> QED
    BY <1>1, <1>2, <2>1, UntouchedPays
<1>3. CASE row' # row
  <2> DEFINE new == [NoRow EXCEPT !.there = TRUE, !.named = named[r]]
  <2>1. /\ row' = [row EXCEPT ![Current(r)] = new] /\ pc[r] = "insert"
        /\ UNCHANGED <<poll, refunded, faults>>
    BY <1>3 DEF RelayTask, Submit, Insert, Charge, Fails, books, counts
  <2>2. Current(r) \in Tasks /\ ~row[Current(r)].there
    BY <2>1, CurrentType DEF OneAttempt, IsLast, Current, TypeOK
  <2>3. ~Failed(new) /\ ~new.done
    BY DEF NoRow, Failed
  <2> HIDE DEF new
  <2>4. \A t \in Tasks : row'[t] = row[t] \/ (t = Current(r) /\ row'[t] = new)
    BY <2>1 DEF TypeOK
  <2>5. poll.stage = "mark" => Current(r) \notin DOMAIN poll.memory
    BY <2>2 DEF AskedAreOpen, IsOpen
  <2>6. Fresh'
    BY <2>1, <2>3, <2>4, <2>5, PollFields DEF Fresh, Failed
  <2>7. PaidBackOrInHand'
    BY <2>1, <2>3, <2>4 DEF PaidBackOrInHand, Failed
  <2> QED
    BY <2>6, <2>7 DEF Later
<1> QED
  BY <1>2, <1>3

\* A poll's copies are those of tasks that are not done; one that ends has none.
LEMMA StartPays ==
    ASSUME JInv, PollStart \/ Panic \/ PollEnd
    PROVE  Later
<1> USE DEF JInv, IInv
<1>1. UNCHANGED <<row, refunded, faults>>
  BY DEF PollStart, Panic, PollEnd, books, counts
<1>2. poll'.item = {} /\ poll'.err = FALSE /\ DOMAIN (poll'.items) = {}
  <2>1. \/ poll' = Asleep \/ poll' = [Asleep EXCEPT !.stage = "dead"]
        \/ \E m : poll' = [Asleep EXCEPT !.stage = "mark", !.memory = m]
    BY DEF PollStart, Panic, PollEnd
  <2>2. Asleep.err = FALSE
    BY DEF Asleep
  <2> QED
    BY <2>1, <2>2, AsleepType
<1>3. PaidBackOrInHand'
  BY <1>1, <1>2 DEF PaidBackOrInHand
<1>4. CASE PollStart
  <2> DEFINE unfinished == {t \in Tasks : row[t].there /\ ~row[t].done}
  <2>1. poll'.memory = Restrict(row, unfinished)
    BY <1>4, AsleepType DEF PollStart
  <2>2. /\ DOMAIN (poll'.memory) = unfinished
        /\ \A t \in unfinished : poll'.memory[t] = row[t]
    BY <2>1, RestrictType
  <2>3. Fresh'
    BY <1>1, <1>2, <2>2 DEF Fresh, Failed
  <2> QED
    BY <1>3, <2>3 DEF Later
<1>5. CASE Panic \/ PollEnd
  <2>1. DOMAIN (poll'.memory) = {}
    BY <1>5, AsleepType DEF Panic, PollEnd
  <2>2. poll'.stage # "mark"
    BY <1>5, AsleepType DEF Panic, PollEnd
  <2> QED
    BY <1>1, <1>2, <1>3, <1>5, <2>1, <2>2 DEF Later, Fresh, Failed
<1> QED
  BY <1>4, <1>5

\* A channel that is gone is a fault.
LEMMA NoAnswerIsFault ==
    ASSUME TypeOK, NoAnswer
    PROVE  \/ row' = row /\ faults' = faults
           \/ row' = BulkFailed(Asked, TRUE) /\ faults' # 0
<1>1. faults \in Nat
  BY StepTypes
<1>2. CASE UNCHANGED <<books, counts>>
  BY <1>2 DEF books, counts
<1>3. CASE row' = BulkFailed(Asked, TRUE) /\ faults' = faults + 1
  <2>1. faults' # 0
    BY <1>1, <1>3
  <2> QED
    BY <1>3, <2>1
<1> QED
  BY <1>2, <1>3 DEF NoAnswer

\* Tasks marked for want of an id have none; without an answer tasks fail only
\* when their channel is gone, which is a fault.
LEMMA BulkPays ==
    ASSUME JInv, MarkUnnamed \/ NoAnswer
    PROVE  Later
<1> USE DEF JInv, IInv
<1>1. poll.item = {} /\ refunded' = refunded /\ (faults' = faults \/ faults' # 0)
  <2>1. poll.item = {} /\ refunded' = refunded
    BY NothingInHand DEF MarkUnnamed, NoAnswer, Fails, books
  <2>2. CASE Fails
    BY <2>1, <2>2, StepTypes DEF Fails
  <2>3. CASE MarkUnnamed /\ ~Fails
    BY <2>1, <2>3 DEF MarkUnnamed, counts
  <2>4. CASE NoAnswer
    BY <2>1, <2>4, NoAnswerIsFault
  <2> QED
    BY <2>2, <2>3, <2>4
<1>2. PICK S \in SUBSET Tasks, reason \in BOOLEAN :
        /\ row' = row \/ row' = BulkFailed(S, reason)
        /\ row' = row \/ faults' # 0 \/ (S = Unnamed /\ poll.stage = "mark")
  <2>1. Asked \in SUBSET Tasks /\ Unnamed \in SUBSET Tasks
    BY PollFields
  <2>2. CASE MarkUnnamed
    <3>1. row' = row \/ row' = BulkFailed(Unnamed, FALSE)
      BY <2>2 DEF MarkUnnamed, Fails, books
    <3>2. poll.stage = "mark"
      BY <2>2 DEF MarkUnnamed
    <3> QED
      BY <2>1, <3>1, <3>2
  <2>3. CASE NoAnswer
    BY <2>1, <2>3, NoAnswerIsFault
  <2> QED
    BY <2>2, <2>3
<1>3. /\ poll'.item = {} /\ poll'.err \in {poll.err, FALSE} /\ poll'.stage # "mark"
      /\ DOMAIN (poll'.memory) = {} \/ poll'.memory = poll.memory
      /\ DOMAIN (poll'.items) = {}
  <2>0. poll.stage # "items"
    BY DEF MarkUnnamed, NoAnswer
  <2>1. CASE poll' = Asleep
    BY <2>1, AsleepType DEF Asleep
  <2>2. CASE poll' = [poll EXCEPT !.stage = "fetch"]
    <3>1. DOMAIN poll.items = {}
      BY <2>2, <2>0 DEF AskedAreOpen
    <3> QED
      BY <1>1, <2>2, <3>1, PollFields
  <2> QED
    BY <2>1, <2>2 DEF MarkUnnamed, NoAnswer
<1>4. \A t \in Tasks :
        \/ row'[t] = row[t]
        \/ t \in S /\ row[t].there /\ row'[t].done /\ row'[t].named = row[t].named
  <2>1. CASE row' = row
    BY <2>1
  <2>2. CASE row' = BulkFailed(S, reason)
    BY <2>2 DEF BulkFailed
  <2> QED
    BY <1>2, <2>1, <2>2
<1>5. Fresh'
  BY <1>3, <1>4 DEF Fresh, Failed
<1>6. ASSUME poll.stage = "mark", NEW t \in Unnamed PROVE ~row[t].named
  BY <1>6 DEF Fresh, Unnamed, Asked
<1>7. PaidBackOrInHand'
  BY <1>1, <1>2, <1>3, <1>4, <1>6 DEF PaidBackOrInHand, Failed
<1> QED
  BY <1>5, <1>7 DEF Later

\* An answer writes nothing.
LEMMA AnswerPays ==
    ASSUME JInv, NEW L \in SUBSET Tasks, Answer(L)
    PROVE  Later
<1> USE DEF JInv, IInv
<1>1. UNCHANGED <<row, refunded, faults>> /\ poll.stage = "fetch" /\ L \subseteq DOMAIN poll.memory
  BY PollFields DEF Answer, books
<1>2. PICK items \in [L -> Items], stray \in BOOLEAN :
        poll' = [poll EXCEPT !.stage = "items", !.items = items, !.stray = stray]
  BY DEF Answer
<1>3. /\ poll'.memory = poll.memory /\ poll'.stage = "items" /\ poll'.err = poll.err
      /\ poll'.item = {} /\ DOMAIN (poll'.items) \subseteq DOMAIN poll.memory
  BY <1>1, <1>2, PollFields, NothingInHand
<1> QED
  BY <1>1, <1>3 DEF Later, Fresh, Failed, PaidBackOrInHand

\* A failure that is taken in hand is paid back, or paying it back is the fault.
LEMMA PayItemPays ==
    ASSUME JInv, NEW t \in Tasks, PayItem(t)
    PROVE  Later
<1> USE DEF JInv, IInv
<1>1. /\ poll.stage = "items" /\ t \in DOMAIN poll.items /\ poll.item = {} /\ row' = row
      /\ IsOpen(t)
  BY DEF PayItem, Fails, books, AskedAreOpen, IsOpen
<1>2. /\ poll'.memory = poll.memory /\ poll'.stage = "items" /\ poll'.err = poll.err
      /\ DOMAIN (poll'.items) \subseteq DOMAIN poll.items
      /\ \/ poll'.item = {} /\ refunded' = refunded /\ faults' = faults
         \/ poll'.item = {t} /\ poll'.items = poll.items
  <2>1. CASE /\ poll' = [poll EXCEPT !.items = Restrict(@, DOMAIN @ \ {t})]
             /\ UNCHANGED <<books, counts>>
    BY <1>1, <2>1, PollFields, RestrictType DEF books, counts
  <2>2. CASE poll' = [poll EXCEPT !.item = {t}]
    BY <1>1, <2>2, PollFields
  <2> QED
    BY <2>1, <2>2 DEF PayItem
<1>3. Fresh'
  BY <1>1, <1>2 DEF Fresh, Failed
<1>4. CASE faults' # 0
  BY <1>3, <1>4 DEF Later, PaidBackOrInHand
<1>5. CASE faults' = 0
  <2>1. faults = 0 /\ ~Fails
    BY <1>5, StepTypes DEF PayItem, Fails, counts
  <2>2. ~poll.err /\ refunded[t] = 0
    <3>1. ~poll.err
      BY <2>1 DEF PaidBackOrInHand
    <3>2. ~Settled(t)
      BY <1>1 DEF Settled, IsOpen
    <3>3. refunded[t] \in Nat /\ refunded[t] <= 0
      BY <2>1, <3>2 DEF RefundsExplained, TypeOK
    <3> QED
      BY <3>1, <3>3
  <2>3. \/ refunded' = refunded /\ (poll'.item = {t} => ~IsFailure(poll.items[t]))
        \/ refunded' = [refunded EXCEPT ![t] = @ + 1]
    <3>1. CASE poll'.item = {t} /\ UNCHANGED books
      <4>1. ~(poll' = [poll EXCEPT !.items = Restrict(@, DOMAIN @ \ {t})])
        BY <1>1, <3>1, PollFields
      <4>2. refunded' # [refunded EXCEPT ![t] = @ + 1]
        BY <2>2, <3>1 DEF books, TypeOK
      <4> QED
        BY <2>1, <2>2, <3>1, <4>1, <4>2 DEF PayItem, books
    <3> QED
      BY <1>2, <2>1, <3>1 DEF PayItem, books
  <2>4. refunded'[t] = 1 \/ (poll'.item = {t} => ~IsFailure(poll.items[t]))
    BY <2>2, <2>3 DEF TypeOK
  <2>5. \A u \in Tasks : u # t => refunded'[u] = refunded[u]
    BY <2>3 DEF TypeOK
  <2>6. PaidBackOrInHand'
    BY <1>1, <1>2, <2>1, <2>2, <2>4, <2>5 DEF PaidBackOrInHand, IsOpen
  <2> QED
    BY <1>3, <2>6 DEF Later
<1> QED
  BY <1>4, <1>5

\* The failure that is saved is the one in hand.
LEMMA SaveItemPays ==
    ASSUME JInv, NEW t \in Tasks, SaveItem(t)
    PROVE  Later
<1> USE DEF JInv, IInv
<1>1. PICK err \in BOOLEAN :
        /\ IF err THEN Fails
           ELSE row' = [row EXCEPT ![t] = Updated(t)] /\ UNCHANGED <<charged, refunded, counts>>
        /\ poll' = [poll EXCEPT !.items = Restrict(@, DOMAIN @ \ {t}), !.item = {}, !.err = err]
  BY DEF SaveItem
<1>2. /\ poll'.stage = poll.stage /\ poll'.memory = poll.memory /\ poll'.err = err
      /\ poll'.item = {} /\ t \in poll.item /\ poll.stage = "items"
      /\ DOMAIN (poll'.items) \subseteq DOMAIN poll.items
  <2>1. t \in poll.item /\ poll.stage = "items"
    BY PollFields DEF SaveItem, AskedAreOpen
  <2>2. poll'.items = Restrict(poll.items, DOMAIN poll.items \ {t})
    BY <1>1, PollFields
  <2>3. DOMAIN (poll'.items) \subseteq DOMAIN poll.items
    BY <2>2, RestrictType
  <2> QED
    BY <1>1, <2>1, <2>3, PollFields
<1>3. CASE err
  <2>1. row' = row /\ faults' # 0
    BY <1>1, <1>3, StepTypes DEF Fails, books
  <2> QED
    BY <1>2, <2>1 DEF Later, Fresh, Failed, PaidBackOrInHand
<1>4. CASE ~err
  <2>1. /\ row' = [row EXCEPT ![t] = Updated(t)] /\ UNCHANGED <<refunded, faults>>
    BY <1>1, <1>4 DEF counts
  <2>2. t \in DOMAIN poll.items /\ poll.items[t] \in Items
    BY <1>2, PollFields DEF TypeOK, IsPoll
  <2>3. t \in DOMAIN poll.memory /\ ~poll.memory[t].reason
    BY <2>2 DEF Fresh
  <2>4. /\ Failed(Updated(t)) => IsFailure(poll.items[t])
        /\ ~Updated(t).done => ~IsFailure(poll.items[t])
    BY <2>2, <2>3 DEF Updated, Failed, IsFailure, Items
  <2>5. \A u \in Tasks : row'[u] = IF u = t THEN Updated(t) ELSE row[u]
    BY <2>1 DEF TypeOK
  <2>6. Fresh'
    BY <1>2, <2>4, <2>5 DEF Fresh, Failed
  <2>7. PaidBackOrInHand'
    BY <1>2, <1>4, <2>1, <2>4, <2>5 DEF PaidBackOrInHand, Failed
  <2> QED
    BY <2>6, <2>7 DEF Later
<1> QED
  BY <1>3, <1>4

\* Every step pays back what it records as failed.
LEMMA NextPays == ASSUME JInv, [Next]_vars PROVE JInv'
<1>1. Later
  <2>1. CASE UpdateTaskBulk
    BY <2>1, StartPays, BulkPays, AnswerPays, PayItemPays, SaveItemPays DEF UpdateTaskBulk
  <2>2. CASE \E r \in Requests : RelayTask(r)
    BY <2>2, RequestPays
  <2>3. CASE \E t \in Tasks : JobEnds(t)
    <3>1. UNCHANGED <<row, poll, refunded, faults>>
      BY <2>3 DEF JobEnds, books, counts
    <3> QED
      BY <3>1, UntouchedPays
  <2>4. CASE Restart
    <3>1. row' = row /\ poll' = Asleep /\ faults' # 0
      BY <2>4, StepTypes DEF Restart, Fails, books, JInv, IInv
    <3> QED
      BY <3>1, AsleepType DEF JInv, Later, Fresh, Failed, PaidBackOrInHand
  <2>5. CASE UNCHANGED vars
    <3>1. UNCHANGED <<row, poll, refunded, faults>>
      BY <2>5 DEF vars, books, counts
    <3> QED
      BY <3>1, UntouchedPays
  <2> QED
    BY <2>1, <2>2, <2>3, <2>4, <2>5 DEF Next
<1> QED
  BY <1>1, NextKeepsInvariant DEF JInv, Later

\* Without failing statements every task with an id that is recorded as failed
\* was paid back when the poller sleeps, although it is paid back before its row
\* is saved and err goes from one item to the next.
THEOREM FailuresArePaidBack == Spec => []FailuresPaidBack
<1>1. Init => JInv
  <2> SUFFICES ASSUME Init PROVE JInv
    OBVIOUS
  <2>1. Fresh /\ PaidBackOrInHand
    BY AsleepType DEF Init, Fresh, PaidBackOrInHand, NoRow, Failed, Asleep
  <2> QED
    BY <2>1, InitInvariant DEF JInv
<1>2. JInv => FailuresPaidBack
  BY DEF JInv, PaidBackOrInHand, FailuresPaidBack, Failed
<1> QED
  BY <1>1, <1>2, NextPays, PTL DEF Spec
=============================================================================
