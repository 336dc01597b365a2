---------------------------- MODULE MjTasksProofs ----------------------------
(***************************************************************************)
(* Theorems about MjTasks when upstreams do not notify: for any tasks,     *)
(* failures, restarts and answers a failed task is paid back once at most, *)
(* and stays as it is; without failing statements it is paid back.         *)
(***************************************************************************)
EXTENDS MjTasks, TLAPS

USE MjAssumption

\* A task is recorded by its own request alone.
RecordedOnce ==
    \A t \in Tasks : pc[t] \in {"start", "insert"} => ~row[t].there

\* A task was paid back once at most, and then it is recorded as failed.
PaidBackOnce ==
    \A t \in Tasks :
        \/ refunded[t] = 0
        \/ /\ refunded[t] = 1 /\ row[t].there
           /\ row[t].report.done /\ row[t].report.status = "FAILURE"

\* The tasks the poller has still to ask about or to bring up to date were
\* not paid back, and are in its memory.
Waiting == poll.todo \cup DOMAIN poll.items

WaitingAreUnpaid ==
    /\ poll.todo \cap DOMAIN poll.items = {}
    /\ \A t \in Waiting : refunded[t] = 0 /\ row[t].there
    /\ Waiting \subseteq DOMAIN poll.memory
    /\ \A t \in DOMAIN poll.memory : poll.memory[t].there

\* Nor was the one it is about to pay back.
RefundIsDue ==
    \A t \in poll.refund :
        /\ t \notin Waiting
        /\ refunded[t] = 0 /\ row[t].there
        /\ row[t].report.done /\ row[t].report.status = "FAILURE"

\* An item with a reason is a failure.
ReasonsAreFailures ==
    \A t \in DOMAIN poll.items : poll.items[t].reason # "" => poll.items[t].status = "FAILURE"

IInv == /\ TypeOK /\ notices = 0 /\ RecordedOnce /\ PaidBackOnce
        /\ WaitingAreUnpaid /\ RefundIsDue /\ ReasonsAreFailures

\* The poller at rest.
LEMMA AsleepType ==
    /\ Asleep \in Polls
    /\ DOMAIN Asleep.items = {} /\ DOMAIN Asleep.memory = {}
    /\ Asleep.todo = {} /\ Asleep.refund = {}
<1>1. Nothing \in [{} -> Rows] /\ Nothing \in [{} -> Reports] /\ DOMAIN Nothing = {}
  BY DEF Nothing
<1>2. {} \in SUBSET Tasks
  OBVIOUS
<1> QED
  BY <1>1, <1>2 DEF Asleep, Polls

\* What the poller and the answers start from is well typed.
LEMMA NoPlanType == NoRow \in Rows /\ Started \in Reports /\ Succeeded \in Reports
BY DEF NoRow, Started, Succeeded, Rows, Reports

\* The initial state satisfies the invariant.
LEMMA InitInvariant == Init => IInv
<1> SUFFICES ASSUME Init PROVE IInv
  OBVIOUS
<1>1. TypeOK
  BY AsleepType, NoPlanType DEF Init, TypeOK, NoPlan
<1>2. notices = 0 /\ RecordedOnce /\ PaidBackOnce
  BY DEF Init, RecordedOnce, PaidBackOnce, NoRow
<1>3. WaitingAreUnpaid /\ RefundIsDue /\ ReasonsAreFailures
  BY AsleepType DEF Init, WaitingAreUnpaid, RefundIsDue, ReasonsAreFailures, Waiting
<1> QED
  BY <1>1, <1>2, <1>3 DEF IInv

\* The poller's memory and the upstream's answer are functions on tasks.
LEMMA PollType ==
    ASSUME TypeOK
    PROVE  /\ poll.memory \in [DOMAIN poll.memory -> Rows] /\ DOMAIN poll.memory \subseteq Tasks
           /\ poll.items \in [DOMAIN poll.items -> Reports] /\ DOMAIN poll.items \subseteq Tasks
           /\ poll.todo \subseteq Tasks /\ poll.refund \subseteq Tasks
           /\ poll.stage \in {"asleep", "mark", "fetch", "items", "dead"} /\ poll.stray \in BOOLEAN
BY DEF TypeOK, Polls

\* What the upstream's answer makes of a task that is submitted.
LEMMA SubmittedPlan ==
    ASSUME NEW t \in Tasks, Submit(t)
    PROVE  \E code : \E ok \in BOOLEAN, named \in BOOLEAN, over \in BOOLEAN :
             /\ plan' = [plan EXCEPT ![t] = [row |-> NewRow(t, code, named, over),
                                            consumeQuota |-> ConsumesQuota(t, code, ok)]]
             /\ job' = [job EXCEPT ![t] = IF code = Refused THEN "none"
                                          ELSE IF over THEN "SUCCESS" ELSE "running"]
BY DEF Submit

\* Submitting a task records what is not there and pays nothing back.
LEMMA SubmitKeepsInvariant ==
    ASSUME IInv, NEW t \in Tasks, RelayMidjourneySubmit(t)
    PROVE  IInv'
<1> USE DEF IInv
<1>1. /\ UNCHANGED <<refunded, late, poll, notices>>
      /\ \/ row' = row
         \/ row' = [row EXCEPT ![t] = plan[t].row] /\ ~row[t].there
  <2>1. CASE Submit(t)
    <3>1. UNCHANGED <<books, late, poll, counts>>
      BY <2>1 DEF Submit
    <3> QED
      BY <3>1 DEF books, counts
  <2>3. CASE Charge(t)
    <3>1. UNCHANGED <<row, refunded, plan, world, poll>> /\ notices' = notices
      BY <2>3 DEF Charge, Fails, Fault, books, counts
    <3> QED
      BY <3>1 DEF world
  <2>2. CASE Insert(t)
    BY <2>2 DEF RecordedOnce, Insert, Fails, Fault, books, world, counts
  <2> QED
    BY <2>1, <2>2, <2>3 DEF RelayMidjourneySubmit
<1>2. TypeOK'
  <2>1. CASE Submit(t)
    <3> PICK code : \E ok \in BOOLEAN, named \in BOOLEAN, over \in BOOLEAN :
           /\ plan' = [plan EXCEPT ![t] = [row |-> NewRow(t, code, named, over),
                                          consumeQuota |-> ConsumesQuota(t, code, ok)]]
           /\ job' = [job EXCEPT ![t] = IF code = Refused THEN "none"
                                        ELSE IF over THEN "SUCCESS" ELSE "running"]
      BY <2>1, SubmittedPlan
    <3> PICK ok \in BOOLEAN, named \in BOOLEAN, over \in BOOLEAN :
           /\ plan' = [plan EXCEPT ![t] = [row |-> NewRow(t, code, named, over),
                                          consumeQuota |-> ConsumesQuota(t, code, ok)]]
           /\ job' = [job EXCEPT ![t] = IF code = Refused THEN "none"
                                        ELSE IF over THEN "SUCCESS" ELSE "running"]
      OBVIOUS
    <3>1. NewRow(t, code, named, over) \in Rows
      BY NoPlanType DEF NewRow, Rows, Reports
    <3>2. ConsumesQuota(t, code, ok) \in BOOLEAN
      BY DEF ConsumesQuota
    <3>3. [row |-> NewRow(t, code, named, over), consumeQuota |-> ConsumesQuota(t, code, ok)]
            \in [row : Rows, consumeQuota : BOOLEAN]
      BY <3>1, <3>2
    <3>4. plan' \in [Tasks -> [row : Rows, consumeQuota : BOOLEAN]]
      BY <3>3 DEF TypeOK
    <3>5. job' \in [Tasks -> {"none", "running", "SUCCESS", "FAILURE"}]
      BY DEF TypeOK
    <3>6. pc' \in [Tasks -> {"start", "insert", "charge", "end"}]
      BY <2>1 DEF TypeOK, Submit
    <3> QED
      BY <2>1, <3>4, <3>5, <3>6 DEF TypeOK, Submit, books, counts
  <2>2. CASE Insert(t)
    BY <2>2 DEF TypeOK, Insert, Fails, Fault, books, world, counts
  <2>3. CASE Charge(t)
    BY <2>3 DEF TypeOK, Charge, Fails, Fault, books, world, counts
  <2> QED
    BY <2>1, <2>2, <2>3 DEF RelayMidjourneySubmit
<1>3. RecordedOnce'
  <2> USE DEF TypeOK, RecordedOnce
  <2>1. CASE Submit(t)
    BY <2>1 DEF Submit, books
  <2>2. CASE Insert(t)
    BY <2>2 DEF Insert, Fails, books
  <2>3. CASE Charge(t)
    BY <2>3 DEF Charge, Fails, books
  <2> QED
    BY <2>1, <2>2, <2>3 DEF RelayMidjourneySubmit
<1>4. \A u \in Tasks : row[u].there => row'[u] = row[u]
  BY <1>1 DEF TypeOK
<1>5. PaidBackOnce' /\ WaitingAreUnpaid' /\ RefundIsDue' /\ ReasonsAreFailures'
  <2>1. PaidBackOnce'
    BY <1>1, <1>4 DEF PaidBackOnce
  <2>2. WaitingAreUnpaid' /\ ReasonsAreFailures'
    BY <1>1, <1>4, PollType DEF WaitingAreUnpaid, ReasonsAreFailures, Waiting
  <2>3. RefundIsDue'
    BY <1>1, <1>4, PollType DEF RefundIsDue, Waiting
  <2> QED
    BY <2>1, <2>2, <2>3
<1> QED
  BY <1>1, <1>2, <1>3, <1>5
\* A poll begins with tasks that are not done, so not paid back.
LEMMA StartKeepsInvariant ==
    ASSUME IInv, PollStart \/ Panic \/ NextChannel
    PROVE  IInv'
<1> USE DEF IInv
<1>1. CASE PollStart
  <2> DEFINE unfinished == {t \in Tasks : row[t].there /\ ~row[t].report.done}
             memory == Restrict(row, unfinished)
             todo == {t \in unfinished : row[t].named}
  <2>1. /\ memory \in [unfinished -> Rows] /\ DOMAIN memory = unfinished
        /\ \A t \in unfinished : memory[t] = row[t]
    BY DEF TypeOK, Restrict
  <2>2. /\ poll' = [Asleep EXCEPT !.stage = "mark", !.memory = memory, !.todo = todo]
        /\ UNCHANGED <<books, request, world, counts>>
    BY <1>1 DEF PollStart
  <2>3. /\ \A t \in unfinished : refunded[t] = 0 /\ row[t].there
        /\ unfinished \in SUBSET Tasks /\ todo \subseteq unfinished
    BY DEF PaidBackOnce
  <2> HIDE DEF unfinished, memory, todo
  <2>4. memory \in UNION {[S -> Rows] : S \in SUBSET Tasks}
    BY <2>1, <2>3
  <2>5. poll' \in Polls
    BY <2>2, <2>3, <2>4, AsleepType DEF Polls
  <2>6. /\ poll'.memory = memory /\ poll'.todo = todo /\ DOMAIN (poll'.items) = {}
        /\ poll'.refund = {}
    BY <2>2, AsleepType DEF Polls
  <2>7. TypeOK' /\ RecordedOnce' /\ PaidBackOnce' /\ notices' = 0
    BY <2>2, <2>5 DEF TypeOK, RecordedOnce, PaidBackOnce, books, request, world, counts
  <2>8. WaitingAreUnpaid' /\ RefundIsDue' /\ ReasonsAreFailures'
    <3>1. poll'.todo \cup DOMAIN (poll'.items) = todo /\ UNCHANGED <<row, refunded>>
      BY <2>2, <2>6 DEF books
    <3>2. WaitingAreUnpaid'
      BY <2>1, <2>3, <2>6, <3>1 DEF WaitingAreUnpaid, Waiting
    <3> QED
      BY <2>6, <3>1, <3>2 DEF RefundIsDue, ReasonsAreFailures
  <2> QED
    BY <2>7, <2>8
<1>2. CASE Panic \/ NextChannel
  <2>1. /\ UNCHANGED <<books, request, world, counts>>
        /\ \/ poll' = [Asleep EXCEPT !.stage = "dead"] \/ poll' = Asleep
           \/ poll' = [poll EXCEPT !.stage = "fetch"]
    BY <1>2 DEF Panic, NextChannel
  <2>2. poll' \in Polls
    <3>1. poll \in Polls
      BY DEF TypeOK
    <3> HIDE DEF IInv
    <3>2. CASE poll' = [Asleep EXCEPT !.stage = "dead"] \/ poll' = Asleep
      BY <3>2, AsleepType DEF Polls
    <3>3. CASE poll' = [poll EXCEPT !.stage = "fetch"]
      BY <3>1, <3>3 DEF Polls
    <3> QED
      BY <2>1, <3>2, <3>3
  <2>3. \/ poll'.todo = {} /\ DOMAIN (poll'.items) = {} /\ DOMAIN (poll'.memory) = {} /\ poll'.refund = {}
        \/ UNCHANGED <<poll.todo, poll.items, poll.memory, poll.refund>>
    BY <2>1, AsleepType DEF TypeOK, Polls
  <2>4. TypeOK' /\ RecordedOnce' /\ PaidBackOnce' /\ notices' = 0
    BY <2>1, <2>2 DEF TypeOK, RecordedOnce, PaidBackOnce, books, request, world, counts
  <2>5. UNCHANGED <<row, refunded>>
    BY <2>1 DEF books
  <2>6. WaitingAreUnpaid' /\ RefundIsDue' /\ ReasonsAreFailures'
    BY <2>3, <2>5 DEF WaitingAreUnpaid, RefundIsDue, ReasonsAreFailures, Waiting
  <2> QED
    BY <2>4, <2>6
<1> QED
  BY <1>1, <1>2

\* A bulk update fails rows and leaves the others alone.
LEMMA BulkFailedRows ==
    ASSUME TypeOK, NEW S, NEW reason \in {"", "channel"}
    PROVE  /\ BulkFailed(S, reason) \in [Tasks -> Rows]
           /\ \A t \in Tasks :
                 \/ BulkFailed(S, reason)[t] = row[t]
                 \/ /\ row[t].there /\ BulkFailed(S, reason)[t].there
                    /\ BulkFailed(S, reason)[t].report.done
                    /\ BulkFailed(S, reason)[t].report.status = "FAILURE"
<1>1. ASSUME NEW t \in Tasks
      PROVE  WithReport(row[t], [done |-> TRUE, status |-> "FAILURE",
                 reason |-> IF reason = "" THEN row[t].report.reason ELSE reason]) \in Rows
  BY DEF TypeOK, WithReport, Rows, Reports
<1> QED
  BY <1>1 DEF BulkFailed, TypeOK, WithReport

\* Bulk updates fail tasks the poller is done with.
LEMMA BulkKeepsInvariant ==
    ASSUME IInv, MarkUnnamed \/ \E c \in Channels : NoAnswer(c)
    PROVE  IInv'
<1> USE DEF IInv
<1>0. /\ UNCHANGED <<charged, refunded, request, world, notices>>
      /\ faults' \in 0..MaxFaults /\ strays' = strays
  <2>1. CASE MarkUnnamed
    <3>1. /\ UNCHANGED <<charged, refunded, request, world>>
          /\ UNCHANGED counts \/ Fault
      BY <2>1 DEF MarkUnnamed, Fails, books
    <3> QED
      BY <3>1 DEF TypeOK, Fault, counts
  <2>2. CASE \E c \in Channels : NoAnswer(c)
    BY <2>2 DEF TypeOK, NoAnswer, Fault, books, counts
  <2> QED
    BY <2>1, <2>2
<1>1. \/ row' = row
      \/ \E S : row' = BulkFailed(S, "") \/ row' = BulkFailed(S, "channel")
  <2>1. CASE MarkUnnamed
    BY <2>1 DEF MarkUnnamed, Fails, books
  <2>2. CASE \E c \in Channels : NoAnswer(c)
    BY <2>2 DEF NoAnswer, books
  <2> QED
    BY <2>1, <2>2
<1>2. /\ row' \in [Tasks -> Rows]
      /\ \A t \in Tasks : \/ row'[t] = row[t]
                          \/ /\ row[t].there /\ row'[t].there
                             /\ row'[t].report.done /\ row'[t].report.status = "FAILURE"
  <2>1. CASE row' = row
    BY <2>1 DEF TypeOK
  <2>2. CASE \E S : row' = BulkFailed(S, "")
    <3> PICK S : row' = BulkFailed(S, "")
      BY <2>2
    <3> QED
      BY BulkFailedRows
  <2>3. CASE \E S : row' = BulkFailed(S, "channel")
    <3> PICK S : row' = BulkFailed(S, "channel")
      BY <2>3
    <3> QED
      BY BulkFailedRows
  <2> QED
    BY <1>1, <2>1, <2>2, <2>3
<1>3. \/ poll' = Asleep
      \/ poll' = [poll EXCEPT !.stage = "fetch"]
      \/ \E c \in Channels : poll' = [poll EXCEPT !.todo = poll.todo \ OfChannel(c)]
  <2>1. CASE MarkUnnamed
    BY <2>1 DEF MarkUnnamed
  <2>2. CASE \E c \in Channels : NoAnswer(c)
    BY <2>2 DEF NoAnswer
  <2> QED
    BY <2>1, <2>2
<1>4. poll' \in Polls
  <2>1. poll \in Polls
    BY DEF TypeOK
  <2>2. ASSUME NEW c \in Channels, poll' = [poll EXCEPT !.todo = poll.todo \ OfChannel(c)]
        PROVE  poll' \in Polls
    BY <2>1, <2>2 DEF Polls
  <2>3. CASE poll' = [poll EXCEPT !.stage = "fetch"]
    BY <2>1, <2>3 DEF Polls
  <2> QED
    BY <1>3, <2>2, <2>3, AsleepType
<1>5. \/ poll'.todo = {} /\ DOMAIN (poll'.items) = {} /\ DOMAIN (poll'.memory) = {} /\ poll'.refund = {}
      \/ UNCHANGED <<poll.items, poll.memory, poll.refund>> /\ poll'.todo \subseteq poll.todo
  <2>1. poll \in Polls
    BY DEF TypeOK
  <2>2. CASE poll' = Asleep
    BY <2>2, AsleepType
  <2>3. CASE poll' = [poll EXCEPT !.stage = "fetch"]
    BY <2>1, <2>3 DEF Polls
  <2>4. ASSUME NEW c \in Channels, poll' = [poll EXCEPT !.todo = poll.todo \ OfChannel(c)]
        PROVE  UNCHANGED <<poll.items, poll.memory, poll.refund>> /\ poll'.todo \subseteq poll.todo
    BY <2>1, <2>4 DEF Polls
  <2> QED
    BY <1>3, <2>2, <2>3, <2>4
<1>6. TypeOK'
  BY <1>0, <1>2, <1>4 DEF TypeOK, request, world
<1>7. RecordedOnce' /\ PaidBackOnce' /\ notices' = 0
  BY <1>0, <1>2 DEF RecordedOnce, PaidBackOnce, request
<1>8. WaitingAreUnpaid' /\ RefundIsDue' /\ ReasonsAreFailures'
  <2>1. CASE DOMAIN (poll'.items) = {} /\ poll'.todo = {} /\ DOMAIN (poll'.memory) = {} /\ poll'.refund = {}
    BY <2>1 DEF WaitingAreUnpaid, RefundIsDue, ReasonsAreFailures, Waiting
  <2>2. CASE UNCHANGED <<poll.items, poll.memory, poll.refund>> /\ poll'.todo \subseteq poll.todo
    BY <1>0, <1>2, <2>2, PollType DEF WaitingAreUnpaid, RefundIsDue, ReasonsAreFailures, Waiting
  <2> QED
    BY <1>5, <2>1, <2>2
<1> QED
  BY <1>6, <1>7, <1>8

\* An upstream reports a reason with a failure only.
LEMMA ReportType ==
    ASSUME NEW state
    PROVE  /\ Report(state) \subseteq Reports
           /\ \A r \in Report(state) : r.reason # "" => r.status = "FAILURE"
<1>1. CASE state = "SUCCESS"
  BY <1>1 DEF Report, Succeeded, Reports
<1>2. CASE state = "FAILURE"
  <2>1. "FAILURE" # "SUCCESS"
    OBVIOUS
  <2>2. Report(state) = {[done |-> d, status |-> "FAILURE", reason |-> "upstream"] : d \in BOOLEAN}
    BY <1>2, <2>1 DEF Report
  <2>3. ASSUME NEW r \in Report(state)
        PROVE  r \in Reports /\ r.status = "FAILURE"
    <3> PICK d \in BOOLEAN : r = [done |-> d, status |-> "FAILURE", reason |-> "upstream"]
      BY <2>2, Zenon
    <3> QED
      BY DEF Reports
  <2> QED
    BY <2>3
<1>3. CASE state # "SUCCESS" /\ state # "FAILURE"
  <2>1. Report(state) = {Started} /\ Started.reason = ""
    BY <1>3 DEF Report, Started
  <2> QED
    BY <2>1, NoPlanType
<1> QED
  BY <1>1, <1>2, <1>3

\* An answer moves tasks from those to ask about to those to bring up to date.
LEMMA AnswerKeepsInvariant ==
    ASSUME IInv, NEW c \in Channels, NEW L \in SUBSET Tasks, Answer(c, L)
    PROVE  IInv'
<1> USE DEF IInv
<1>1. PICK items \in [L -> UNION {Report(job[t]) : t \in L}] :
         /\ \A t \in L : items[t] \in Report(job[t])
         /\ \/ /\ poll' = [poll EXCEPT !.stage = "items", !.todo = poll.todo \ OfChannel(c),
                                       !.items = items]
               /\ UNCHANGED counts
            \/ /\ faults + strays + notices < MaxStrays /\ strays' = strays + 1
               /\ poll' = [poll EXCEPT !.stage = "items", !.todo = poll.todo \ OfChannel(c),
                                       !.items = items, !.stray = TRUE]
               /\ UNCHANGED <<faults, notices>>
  BY DEF Answer
<1>2. /\ UNCHANGED <<books, request, world>> /\ poll.stage = "fetch"
      /\ L \subseteq OfChannel(c) /\ OfChannel(c) \subseteq poll.todo
  BY DEF Answer, Known, OfChannel
<1>3. /\ items \in [L -> Reports]
      /\ \A t \in L : items[t].reason # "" => items[t].status = "FAILURE"
  BY <1>1, ReportType
<1>4. items \in UNION {[S -> Reports] : S \in SUBSET Tasks}
  BY <1>3
<1>5. poll \in Polls
  BY DEF TypeOK
<1>6. poll' \in Polls
  <2>1. /\ poll.memory \in UNION {[S -> Rows] : S \in SUBSET Tasks}
        /\ poll.todo \ OfChannel(c) \in SUBSET Tasks
    BY <1>5 DEF Polls
  <2> DEFINE Memories == UNION {[S -> Rows] : S \in SUBSET Tasks}
             Items == UNION {[S -> Reports] : S \in SUBSET Tasks}
  <2>2. items \in Items /\ poll.memory \in Memories
    BY <1>4, <2>1
  <2>3. Polls = [stage : {"asleep", "mark", "fetch", "items", "dead"}, memory : Memories,
                 todo : SUBSET Tasks, items : Items, stray : BOOLEAN, refund : SUBSET Tasks]
    BY DEF Polls
  <2> HIDE DEF Memories, Items
  <2>4. CASE poll' = [poll EXCEPT !.stage = "items", !.todo = poll.todo \ OfChannel(c),
                                  !.items = items]
    BY <1>5, <2>1, <2>2, <2>3, <2>4
  <2>5. CASE poll' = [poll EXCEPT !.stage = "items", !.todo = poll.todo \ OfChannel(c),
                                  !.items = items, !.stray = TRUE]
    BY <1>5, <2>1, <2>2, <2>3, <2>5
  <2> QED
    BY <1>1, <2>4, <2>5
<1>7. /\ poll'.todo = poll.todo \ OfChannel(c) /\ poll'.items = items
      /\ poll'.memory = poll.memory /\ poll'.refund = poll.refund
  BY <1>1, <1>5 DEF Polls
<1>8. strays' \in 0..MaxStrays /\ faults' = faults /\ notices' = notices
  BY <1>1 DEF TypeOK, counts
<1>9. TypeOK' /\ RecordedOnce' /\ PaidBackOnce'
  BY <1>2, <1>6, <1>8 DEF TypeOK, RecordedOnce, PaidBackOnce, books, request, world
<1>10. DOMAIN items = L /\ UNCHANGED <<row, refunded>>
  BY <1>2, <1>3 DEF books
<1>11. WaitingAreUnpaid' /\ RefundIsDue' /\ ReasonsAreFailures'
  BY <1>2, <1>3, <1>7, <1>10 DEF WaitingAreUnpaid, RefundIsDue, ReasonsAreFailures, Waiting
<1> QED
  BY <1>8, <1>9, <1>11

\* An item judged by the clock is a report, and a failure if it has a reason.
LEMMA JudgedType ==
    ASSUME IInv, NEW t \in DOMAIN poll.items
    PROVE  /\ Judged(t) \in Reports
           /\ IsFailure(Judged(t)) => Judged(t).status = "FAILURE"
<1>1. poll.items[t] \in Reports
  BY PollType DEF IInv
<1>2. poll.items[t].reason # "" => poll.items[t].status = "FAILURE"
  BY DEF IInv, ReasonsAreFailures
<1> QED
  BY <1>1, <1>2 DEF Judged, IsFailure, Reports

\* A saved failure becomes the refund that is due.
LEMMA SaveKeepsInvariant ==
    ASSUME IInv, NEW t \in Tasks, SaveItem(t)
    PROVE  IInv'
<1> USE DEF IInv
<1> DEFINE item == Judged(t)
           report == [done |-> item.done \/ IsFailure(item),
                      status |-> item.status, reason |-> item.reason]
           rest == DOMAIN poll.items \ {t}
<1>1. t \in DOMAIN poll.items /\ poll.refund = {} /\ UNCHANGED <<request, world>>
  BY DEF SaveItem
<1>2. /\ item \in Reports /\ poll.memory[t] \in Rows /\ poll.memory[t].there
      /\ IsFailure(item) \in BOOLEAN
      /\ IsFailure(item) => item.status = "FAILURE"
  BY <1>1, JudgedType, PollType DEF WaitingAreUnpaid, Waiting, IsFailure
<1>3. /\ WithReport(poll.memory[t], report) \in Rows
      /\ WithReport(poll.memory[t], report).there
      /\ IsFailure(item) => /\ WithReport(poll.memory[t], report).report.done
                            /\ WithReport(poll.memory[t], report).report.status = "FAILURE"
  <2>1. report \in Reports
    BY <1>2 DEF Reports
  <2>2. IsFailure(item) => report.done /\ report.status = "FAILURE"
    BY <1>2
  <2> HIDE DEF report
  <2> QED
    BY <1>2, <2>1, <2>2 DEF WithReport, Rows
<1>4. PICK due \in {{}, {t}} :
         /\ poll' = [poll EXCEPT !.items = Restrict(poll.items, rest), !.refund = due]
         /\ UNCHANGED <<charged, refunded, notices, strays>> /\ faults' \in 0..MaxFaults
         /\ \/ due = {} /\ row' = row
            \/ /\ row' = [row EXCEPT ![t] = WithReport(poll.memory[t], report)]
               /\ due = {t} => IsFailure(item)
  <2>1. CASE UNCHANGED <<books, counts>> /\ poll' = [poll EXCEPT !.items = Restrict(poll.items, rest), !.refund = {}]
    BY <2>1 DEF TypeOK, books, counts
  <2>2. CASE /\ row' = [row EXCEPT ![t] = WithReport(poll.memory[t], report)]
             /\ poll' = [poll EXCEPT !.items = Restrict(poll.items, rest),
                                     !.refund = IF IsFailure(item) THEN {t} ELSE {}]
             /\ UNCHANGED <<charged, refunded, counts>>
    BY <2>2 DEF TypeOK, counts
  <2>3. CASE Fails /\ poll' = [poll EXCEPT !.items = Restrict(poll.items, rest), !.refund = {}]
    BY <2>3 DEF TypeOK, Fails, Fault, books
  <2> QED
    BY <2>1, <2>2, <2>3 DEF SaveItem
<1> HIDE DEF report, item
<1>5. /\ Restrict(poll.items, rest) \in [rest -> Reports] /\ rest \in SUBSET Tasks
      /\ \A u \in rest : Restrict(poll.items, rest)[u] = poll.items[u]
  BY PollType DEF Restrict
<1>6. poll \in Polls
  BY DEF TypeOK
<1>7. poll' \in Polls
  <2> DEFINE Memories == UNION {[S -> Rows] : S \in SUBSET Tasks}
             Items == UNION {[S -> Reports] : S \in SUBSET Tasks}
  <2>1. Restrict(poll.items, rest) \in Items /\ due \in SUBSET Tasks
    BY <1>5
  <2>2. Polls = [stage : {"asleep", "mark", "fetch", "items", "dead"}, memory : Memories,
                 todo : SUBSET Tasks, items : Items, stray : BOOLEAN, refund : SUBSET Tasks]
    BY DEF Polls
  <2> HIDE DEF Memories, Items
  <2> QED
    BY <1>4, <1>6, <2>1, <2>2
<1>8. /\ poll'.todo = poll.todo /\ poll'.memory = poll.memory /\ poll'.refund = due
      /\ poll'.items = Restrict(poll.items, rest) /\ DOMAIN (poll'.items) = rest
  BY <1>4, <1>5, <1>6 DEF Polls
<1>9. row' \in [Tasks -> Rows] /\ \A u \in Tasks \ {t} : row'[u] = row[u]
  BY <1>3, <1>4 DEF TypeOK
<1>10. row[t].there /\ refunded[t] = 0 /\ t \notin poll.todo
  BY <1>1 DEF WaitingAreUnpaid, Waiting
<1>11. /\ row'[t].there
       /\ due = {t} => row'[t].report.done /\ row'[t].report.status = "FAILURE"
  BY <1>3, <1>4, <1>10 DEF TypeOK
<1>12. TypeOK' /\ notices' = 0
  BY <1>1, <1>4, <1>7, <1>9 DEF TypeOK, request, world
<1>13. RecordedOnce' /\ PaidBackOnce'
  BY <1>1, <1>4, <1>9, <1>10 DEF RecordedOnce, PaidBackOnce, request
<1>14. WaitingAreUnpaid'
  <2>1. Waiting' = poll.todo \cup rest /\ Waiting' \subseteq Waiting
    BY <1>8 DEF Waiting
  <2>2. t \notin Waiting'
    BY <1>10, <2>1
  <2>3. poll'.todo \cap DOMAIN (poll'.items) = {}
    BY <1>8 DEF WaitingAreUnpaid
  <2>4. \A u \in Waiting' : refunded'[u] = 0 /\ row'[u].there
    BY <1>4, <1>9, <2>1, <2>2, PollType DEF WaitingAreUnpaid, Waiting
  <2>5. /\ Waiting' \subseteq DOMAIN (poll'.memory)
        /\ \A u \in DOMAIN (poll'.memory) : poll'.memory[u].there
    BY <1>8, <2>1 DEF WaitingAreUnpaid
  <2> QED
    BY <2>3, <2>4, <2>5 DEF WaitingAreUnpaid
<1>15. RefundIsDue'
  BY <1>4, <1>8, <1>10, <1>11 DEF RefundIsDue, Waiting
<1>16. ReasonsAreFailures'
  BY <1>5, <1>8 DEF ReasonsAreFailures
<1> QED
  BY <1>12, <1>13, <1>14, <1>15, <1>16

\* Paying back what is due.
LEMMA RefundKeepsInvariant ==
    ASSUME IInv, NEW t \in Tasks, Refund(t)
    PROVE  IInv'
<1> USE DEF IInv
<1>1. /\ t \in poll.refund /\ poll' = [poll EXCEPT !.refund = {}]
      /\ UNCHANGED <<row, charged, request, world, notices, strays>> /\ faults' \in 0..MaxFaults
      /\ refunded' = refunded \/ refunded' = [refunded EXCEPT ![t] = @ + 1]
  BY DEF TypeOK, Refund, Fails, Fault, books, counts
<1>2. poll \in Polls
  BY DEF TypeOK
<1>3. poll' \in Polls
  BY <1>1, <1>2 DEF Polls
<1>4. poll'.refund = {} /\ UNCHANGED <<poll.todo, poll.memory, poll.items>>
  BY <1>1, <1>2 DEF Polls
<1>5. /\ refunded[t] = 0 /\ t \notin Waiting /\ row[t].there
      /\ row[t].report.done /\ row[t].report.status = "FAILURE"
  BY <1>1 DEF RefundIsDue
<1>6. /\ refunded' \in [Tasks -> Nat] /\ refunded'[t] \in {0, 1}
      /\ \A u \in Tasks \ {t} : refunded'[u] = refunded[u]
  BY <1>1, <1>5 DEF TypeOK
<1>7. TypeOK' /\ notices' = 0
  BY <1>1, <1>3, <1>6 DEF TypeOK, request, world
<1>8. RecordedOnce' /\ PaidBackOnce'
  BY <1>1, <1>5, <1>6 DEF RecordedOnce, PaidBackOnce, request
<1>9. WaitingAreUnpaid'
  BY <1>1, <1>4, <1>5, <1>6, PollType DEF WaitingAreUnpaid, Waiting
<1>10. RefundIsDue' /\ ReasonsAreFailures'
  BY <1>4 DEF RefundIsDue, ReasonsAreFailures
<1> QED
  BY <1>7, <1>8, <1>9, <1>10

\* The upstream, the clock and a restart leave the books alone.
LEMMA WorldKeepsInvariant ==
    ASSUME IInv, Restart \/ \E t \in Tasks : JobEnds(t) \/ HourPasses(t)
    PROVE  IInv'
<1> USE DEF IInv
<1>1. CASE Restart
  <2>1. /\ UNCHANGED <<books, plan, world, notices, strays>> /\ faults' \in 0..MaxFaults
        /\ poll' = Asleep
        /\ pc' = [t \in Tasks |-> IF pc[t] \in {"insert", "charge"} THEN "end" ELSE pc[t]]
    BY <1>1 DEF TypeOK, Restart, Fails, Fault
  <2>2. TypeOK' /\ notices' = 0
    BY <2>1, AsleepType DEF TypeOK, books, world
  <2>3. RecordedOnce' /\ PaidBackOnce'
    BY <2>1 DEF RecordedOnce, PaidBackOnce, books
  <2>4. WaitingAreUnpaid' /\ RefundIsDue' /\ ReasonsAreFailures'
    BY <2>1, AsleepType DEF WaitingAreUnpaid, RefundIsDue, ReasonsAreFailures, Waiting
  <2> QED
    BY <2>2, <2>3, <2>4
<1>2. CASE \E t \in Tasks : JobEnds(t) \/ HourPasses(t)
  <2>1. UNCHANGED <<books, request, poll, counts>>
    BY <1>2 DEF JobEnds, HourPasses
  <2>2. /\ job' \in [Tasks -> {"none", "running", "SUCCESS", "FAILURE"}]
        /\ late' \subseteq Tasks
    BY <1>2 DEF TypeOK, JobEnds, HourPasses
  <2>3. TypeOK' /\ notices' = 0 /\ RecordedOnce' /\ PaidBackOnce'
    BY <2>1, <2>2 DEF TypeOK, RecordedOnce, PaidBackOnce, books, request, counts
  <2>4. WaitingAreUnpaid' /\ RefundIsDue' /\ ReasonsAreFailures'
    BY <2>1 DEF WaitingAreUnpaid, RefundIsDue, ReasonsAreFailures, Waiting, books
  <2> QED
    BY <2>3, <2>4
<1> QED
  BY <1>1, <1>2

\* Every step but a notification keeps the invariant.
LEMMA StepKeepsInvariant ==
    ASSUME IInv, [Next]_vars, notices' = 0
    PROVE  IInv'
<1>1. CASE UpdateMidjourneyTaskBulk
  BY <1>1, StartKeepsInvariant, BulkKeepsInvariant, AnswerKeepsInvariant, SaveKeepsInvariant,
     RefundKeepsInvariant DEF UpdateMidjourneyTaskBulk
<1>2. CASE \E t \in Tasks : RelayMidjourneySubmit(t)
  BY <1>2, SubmitKeepsInvariant
<1>3. CASE \E t \in Tasks : Notify(t)
  BY <1>3 DEF Notify, IInv
<1>4. CASE Restart \/ \E t \in Tasks : JobEnds(t) \/ HourPasses(t)
  BY <1>4, WorldKeepsInvariant
<1>5. CASE UNCHANGED vars
  <2>1. UNCHANGED <<row, charged, refunded, pc, plan, job, late, poll, faults, notices, strays>>
    BY <1>5 DEF vars, books, request, world, counts
  <2> QED
    BY <2>1 DEF IInv, TypeOK, RecordedOnce, PaidBackOnce, WaitingAreUnpaid, RefundIsDue,
                ReasonsAreFailures, Waiting
<1> QED
  BY <1>1, <1>2, <1>3, <1>4, <1>5 DEF Next

\* Only a notification is counted as one.
LEMMA OnlyNotifyCounts ==
    ASSUME [Next]_vars, notices \in Nat
    PROVE  notices' \in Nat /\ (notices' = 0 => notices = 0)
<1>1. CASE UpdateMidjourneyTaskBulk
  <2>1. notices' = notices
    BY <1>1 DEF UpdateMidjourneyTaskBulk, PollStart, MarkUnnamed, NextChannel, Panic, NoAnswer,
                Answer, SaveItem, Refund, Fails, Fault, counts
  <2> QED
    BY <2>1
<1>2. CASE \E t \in Tasks : RelayMidjourneySubmit(t) \/ JobEnds(t) \/ HourPasses(t)
  BY <1>2 DEF RelayMidjourneySubmit, Submit, Insert, Charge, JobEnds, HourPasses, Fails, Fault, counts
<1>3. CASE \E t \in Tasks : Notify(t)
  BY <1>3 DEF Notify
<1>4. CASE Restart \/ UNCHANGED vars
  BY <1>4 DEF Restart, Fails, Fault, vars, counts
<1> QED
  BY <1>1, <1>2, <1>3, <1>4 DEF Next

\* Until the first notification the invariant holds.
Quiet == notices \in Nat /\ (notices = 0 => IInv)

\* Quiet holds in every reachable state.
THEOREM Invariance == Spec => []Quiet
<1>1. Init => Quiet
  BY InitInvariant DEF Quiet, Init
<1>2. Quiet /\ [Next]_vars => Quiet'
  BY StepKeepsInvariant, OnlyNotifyCounts DEF Quiet
<1> QED
  BY <1>1, <1>2, PTL DEF Spec

\* However often a failure is reported and wherever the server stops, a task
\* is paid back once at most before a notification comes.
THEOREM TasksPaidBackOnce == Spec => []RefundedOnce
<1>1. Quiet => RefundedOnce
  <2> SUFFICES ASSUME Quiet, notices = 0, NEW t \in Tasks PROVE refunded[t] <= 1
    BY DEF RefundedOnce
  <2>1. refunded[t] = 0 \/ refunded[t] = 1
    BY DEF Quiet, IInv, PaidBackOnce
  <2> QED
    BY <2>1
<1> QED
  BY <1>1, Invariance, PTL

\* What was paid back stays recorded as a failure that is done.
THEOREM PaidBackAreFailures == Spec => []RefundsAreFailures
<1>1. Quiet => RefundsAreFailures
  BY DEF Quiet, IInv, PaidBackOnce, RefundsAreFailures
<1> QED
  BY <1>1, Invariance, PTL

-----------------------------------------------------------------------------
(***************************************************************************)
(* Tasks that are done: they stay as they are, and a failure is paid back. *)
(***************************************************************************)
Open(t) == row[t].there /\ ~row[t].report.done

\* What the poller has still to mark, to ask about or to bring up to date is
\* not done, and it pays one task back at a time.
HandsAreOpen ==
    /\ \A t \in Waiting : Open(t)
    /\ poll.stage = "mark" => \A t \in DOMAIN poll.memory : Open(t)
    /\ poll.stage # "items" => DOMAIN poll.items = {} /\ poll.refund = {}
    /\ \A t, u \in poll.refund : t = u

\* A task that is not done has no reason of failure but a refusal, nor has one
\* that is still to be recorded.
NoReason(r) == r.report.reason \in {"", "refused"}
ReasonsCome ==
    \A t \in Tasks : /\ NoReason(plan[t].row)
                     /\ pc[t] = "insert" => plan[t].row.there
                     /\ ~row[t].report.done => NoReason(row[t])
                     /\ row[t].report.done => row[t].there

\* Without a fault a failure is paid back, or the poller is about to do so.
PaidBackOrDue ==
    faults = 0 =>
        \A t \in Tasks :
            row[t].report.done /\ row[t].report.reason \in {"upstream", "late"} =>
                refunded[t] = 1 \/ t \in poll.refund

JInv == IInv /\ HandsAreOpen /\ ReasonsCome /\ PaidBackOrDue
QuietJ == notices = 0 => JInv

\* What each step is to keep, and what it may not touch.
Later == HandsAreOpen' /\ ReasonsCome' /\ PaidBackOrDue'
Kept == \A t \in Tasks : row[t].report.done => row'[t] = row[t]

\* Submitting writes a row that is not there, and no failure but a refusal.
LEMMA SubmitKeepsDone ==
    ASSUME JInv, NEW t \in Tasks, RelayMidjourneySubmit(t)
    PROVE  Later /\ Kept
<1> USE DEF JInv, IInv
<1>1. /\ UNCHANGED <<refunded, poll>>
      /\ faults' = faults \/ (row' = row /\ faults' # 0)
      /\ \/ row' = row
         \/ row' = [row EXCEPT ![t] = plan[t].row] /\ ~row[t].there
  BY DEF TypeOK, RecordedOnce, RelayMidjourneySubmit, Submit, Insert, Charge, Fails, Fault,
         books, world, counts
<1>2. \A u \in Tasks : /\ NoReason(plan'[u].row)
                       /\ pc'[u] = "insert" => plan'[u].row.there
  <2>1. CASE Submit(t)
    <3> PICK code : \E ok \in BOOLEAN, named \in BOOLEAN, over \in BOOLEAN :
           plan' = [plan EXCEPT ![t] = [row |-> NewRow(t, code, named, over),
                                        consumeQuota |-> ConsumesQuota(t, code, ok)]]
      BY <2>1, SubmittedPlan
    <3> PICK ok \in BOOLEAN, named \in BOOLEAN, over \in BOOLEAN :
           plan' = [plan EXCEPT ![t] = [row |-> NewRow(t, code, named, over),
                                        consumeQuota |-> ConsumesQuota(t, code, ok)]]
      OBVIOUS
    <3>1. NoReason(NewRow(t, code, named, over)) /\ NewRow(t, code, named, over).there
      BY DEF NewRow, NoReason, Started, Succeeded
    <3>2. plan'[t].row = NewRow(t, code, named, over)
      BY DEF TypeOK
    <3>3. \A u \in Tasks \ {t} : plan'[u] = plan[u] /\ pc'[u] = pc[u]
      BY <2>1 DEF TypeOK, Submit
    <3> QED
      BY <3>1, <3>2, <3>3 DEF ReasonsCome
  <2>2. CASE Insert(t) \/ Charge(t)
    <3>1. plan' = plan /\ \A u \in Tasks : pc'[u] = "insert" => pc[u] = "insert"
      BY <2>2 DEF Insert, Charge, TypeOK
    <3> QED
      BY <3>1 DEF ReasonsCome
  <2> QED
    BY <2>1, <2>2 DEF RelayMidjourneySubmit
<1>3. \A u \in Tasks : \/ row'[u] = row[u]
                       \/ u = t /\ ~row[t].there /\ row'[t] = plan[t].row
  BY <1>1 DEF TypeOK
<1>4. row' = row \/ plan[t].row.there
  BY DEF ReasonsCome, RelayMidjourneySubmit, Submit, Insert, Charge, Fails, books
<1>5. Kept
  BY <1>3 DEF Kept, ReasonsCome
<1>6. HandsAreOpen'
  BY <1>1, <1>3, PollType DEF HandsAreOpen, Waiting, Open
<1>7. ReasonsCome'
  BY <1>2, <1>3, <1>4 DEF ReasonsCome, NoReason
<1>8. PaidBackOrDue'
  BY <1>1, <1>3 DEF PaidBackOrDue, ReasonsCome, NoReason
<1> QED
  BY <1>5, <1>6, <1>7, <1>8 DEF Later

\* A poll begins with tasks that are not done; a poller that stops has none.
LEMMA StartKeepsDone ==
    ASSUME JInv, PollStart \/ Panic \/ NextChannel
    PROVE  Later /\ Kept
<1> USE DEF JInv, IInv
<1>1. UNCHANGED <<row, refunded, plan, pc, faults>>
  BY DEF PollStart, Panic, NextChannel, books, request, counts
<1>2. ReasonsCome' /\ Kept
  BY <1>1 DEF ReasonsCome, NoReason, Kept
<1>3. poll.refund = {}
  BY DEF HandsAreOpen, PollStart, Panic, NextChannel
<1>4. PaidBackOrDue'
  BY <1>1, <1>3 DEF PaidBackOrDue
<1>5. HandsAreOpen'
  <2>1. CASE PollStart
    <3> DEFINE unfinished == {t \in Tasks : row[t].there /\ ~row[t].report.done}
    <3>1. /\ poll'.stage = "mark" /\ poll'.memory = Restrict(row, unfinished)
          /\ poll'.todo \subseteq unfinished /\ DOMAIN (poll'.items) = {} /\ poll'.refund = {}
      BY <2>1, AsleepType DEF PollStart, Polls
    <3>2. DOMAIN (poll'.memory) = unfinished
      BY <3>1 DEF Restrict
    <3>3. \A t \in unfinished : Open(t)'
      BY <1>1 DEF Open
    <3> QED
      BY <3>1, <3>2, <3>3 DEF HandsAreOpen, Waiting
  <2>2. CASE Panic \/ NextChannel
    <3>1. \/ poll' = [Asleep EXCEPT !.stage = "dead"] \/ poll' = Asleep
          \/ poll' = [poll EXCEPT !.stage = "fetch"] /\ DOMAIN poll.items = {}
      BY <2>2 DEF Panic, NextChannel
    <3>2. /\ poll'.stage # "mark" /\ DOMAIN (poll'.items) = {} /\ poll'.refund = {}
          /\ poll'.todo \subseteq poll.todo
      BY <1>3, <3>1, AsleepType DEF TypeOK, Polls, Asleep
    <3> QED
      BY <1>1, <3>2 DEF HandsAreOpen, Waiting, Open
  <2> QED
    BY <2>1, <2>2
<1> QED
  BY <1>2, <1>4, <1>5 DEF Later

\* Bulk updates reach tasks that are not done, and leave the others alone.
LEMMA BulkKeepsDone ==
    ASSUME JInv, MarkUnnamed \/ \E c \in Channels : NoAnswer(c)
    PROVE  Later /\ Kept
<1> USE DEF JInv, IInv
<1>1. PICK S \in SUBSET Tasks, reason \in {"", "channel"} :
        /\ row' = row \/ row' = BulkFailed(S, reason)
        /\ \A t \in S : Open(t) /\ t \notin Waiting'
        /\ faults' = faults \/ faults' # 0
        /\ row' = row \/ reason = "" \/ faults' # 0
  <2>1. CASE MarkUnnamed
    <3>1. poll' = IF poll.todo = {} THEN Asleep ELSE [poll EXCEPT !.stage = "fetch"]
      BY <2>1 DEF MarkUnnamed
    <3>2. Waiting' \subseteq poll.todo
      BY <2>1, <3>1, AsleepType DEF TypeOK, Polls, Waiting, MarkUnnamed, HandsAreOpen
    <3>3. DOMAIN poll.memory \ poll.todo \in SUBSET Tasks
      BY PollType
    <3>4. \A t \in DOMAIN poll.memory \ poll.todo : Open(t) /\ t \notin Waiting'
      BY <2>1, <3>2 DEF MarkUnnamed, HandsAreOpen
    <3>5. /\ row' = row \/ row' = BulkFailed(DOMAIN poll.memory \ poll.todo, "")
          /\ faults' = faults \/ faults' # 0
      <4>1. CASE Fails
        BY <4>1 DEF Fails, Fault, TypeOK, books
      <4>2. CASE ~Fails
        BY <2>1, <4>2 DEF MarkUnnamed, counts
      <4> QED
        BY <4>1, <4>2
    <3> QED
      BY <3>3, <3>4, <3>5
  <2>2. ASSUME NEW c \in Channels, NoAnswer(c)
        PROVE \E S \in SUBSET Tasks :
                /\ row' = row \/ (row' = BulkFailed(S, "channel") /\ faults' # 0)
                /\ \A t \in S : Open(t) /\ t \notin Waiting'
                /\ faults' = faults \/ faults' # 0
    <3>1. poll' = IF poll.todo \ OfChannel(c) = {} THEN Asleep
                  ELSE [poll EXCEPT !.todo = poll.todo \ OfChannel(c)]
      BY <2>2 DEF NoAnswer
    <3>2. Waiting' \subseteq poll.todo \ OfChannel(c)
      BY <2>2, <3>1, AsleepType DEF TypeOK, Polls, Waiting, NoAnswer, HandsAreOpen
    <3>3. OfChannel(c) \in SUBSET Tasks /\ OfChannel(c) \subseteq Waiting
      BY PollType DEF OfChannel, Waiting
    <3>4. \A t \in OfChannel(c) : Open(t) /\ t \notin Waiting'
      BY <3>2, <3>3 DEF HandsAreOpen
    <3>5. /\ row' = row \/ (row' = BulkFailed(OfChannel(c), "channel") /\ faults' # 0)
          /\ faults' = faults \/ faults' # 0
      BY <2>2 DEF NoAnswer, Fault, TypeOK, books, counts
    <3> QED
      BY <3>3, <3>4, <3>5
  <2> QED
    BY <2>1, <2>2
<1>2. /\ UNCHANGED <<refunded, plan, pc>>
      /\ poll.refund = {} /\ poll'.refund = {} /\ DOMAIN (poll'.items) = {}
      /\ poll'.stage # "mark" /\ Waiting' \subseteq Waiting
  <2>1. poll.refund = {} /\ DOMAIN poll.items = {} /\ UNCHANGED <<refunded, plan, pc>>
    BY DEF HandsAreOpen, MarkUnnamed, NoAnswer, Fails, books, request
  <2>2. CASE poll' = Asleep
    BY <2>1, <2>2, AsleepType DEF Asleep, Waiting
  <2>3. CASE MarkUnnamed /\ poll' # Asleep
    <3>1. poll' = [poll EXCEPT !.stage = "fetch"]
      BY <2>3 DEF MarkUnnamed
    <3> QED
      BY <2>1, <3>1 DEF TypeOK, Polls, Waiting
  <2>4. ASSUME NEW c \in Channels, NoAnswer(c), poll' # Asleep
        PROVE  /\ poll'.refund = {} /\ DOMAIN (poll'.items) = {}
               /\ poll'.stage # "mark" /\ Waiting' \subseteq Waiting
    <3>1. poll' = [poll EXCEPT !.todo = poll.todo \ OfChannel(c)] /\ poll.stage = "fetch"
      BY <2>4 DEF NoAnswer
    <3> QED
      BY <2>1, <3>1 DEF TypeOK, Polls, Waiting
  <2> QED
    BY <2>1, <2>2, <2>3, <2>4
<1>3. \A t \in Tasks :
        \/ row'[t] = row[t]
        \/ /\ t \in S /\ row'[t].there /\ row'[t].report.done
           /\ reason = "" => row'[t].report.reason = row[t].report.reason
  <2>1. CASE row' = row
    BY <2>1
  <2>2. CASE row' = BulkFailed(S, reason)
    BY <2>2 DEF BulkFailed, WithReport, Open
  <2> QED
    BY <1>1, <2>1, <2>2
<1>4. Kept
  BY <1>1, <1>3 DEF Kept, Open
<1>5. HandsAreOpen'
  BY <1>1, <1>2, <1>3, PollType DEF HandsAreOpen, Open, Waiting
<1>6. ReasonsCome'
  BY <1>2, <1>3 DEF ReasonsCome, NoReason
<1>7. PaidBackOrDue'
  BY <1>1, <1>2, <1>3 DEF PaidBackOrDue, ReasonsCome, NoReason, Open
<1> QED
  BY <1>4, <1>5, <1>6, <1>7 DEF Later

\* An answer writes nothing.
LEMMA AnswerKeepsDone ==
    ASSUME JInv, NEW c \in Channels, NEW L \in SUBSET Tasks, Answer(c, L)
    PROVE  Later /\ Kept
<1> USE DEF JInv, IInv
<1>1. /\ UNCHANGED <<row, refunded, plan, pc, faults>> /\ poll.stage = "fetch" /\ L \subseteq poll.todo
  BY DEF Answer, Known, OfChannel, books, request, counts
<1>2. PICK items \in [L -> UNION {Report(job[t]) : t \in L}] :
        \/ poll' = [poll EXCEPT !.stage = "items", !.todo = poll.todo \ OfChannel(c),
                                !.items = items]
        \/ poll' = [poll EXCEPT !.stage = "items", !.todo = poll.todo \ OfChannel(c),
                                !.items = items, !.stray = TRUE]
  BY DEF Answer
<1>3. /\ poll'.stage = "items" /\ poll'.todo \subseteq poll.todo /\ poll'.items = items
      /\ poll'.refund = {} /\ poll.refund = {}
  <2>1. poll.refund = {} /\ poll \in Polls
    BY <1>1 DEF TypeOK, HandsAreOpen
  <2>2. DOMAIN poll = {"stage", "memory", "todo", "items", "stray", "refund"}
    BY <2>1 DEF Polls
  <2>3. poll.todo \ OfChannel(c) \subseteq poll.todo
    OBVIOUS
  <2> HIDE DEF JInv, IInv
  <2>4. CASE poll' = [poll EXCEPT !.stage = "items", !.todo = poll.todo \ OfChannel(c),
                                  !.items = items]
    BY <2>1, <2>2, <2>3, <2>4
  <2>5. CASE poll' = [poll EXCEPT !.stage = "items", !.todo = poll.todo \ OfChannel(c),
                                  !.items = items, !.stray = TRUE]
    BY <2>1, <2>2, <2>3, <2>5
  <2> QED
    BY <1>2, <2>4, <2>5
<1>4. Waiting' \subseteq Waiting
  BY <1>1, <1>3 DEF Waiting
<1>5. HandsAreOpen'
  BY <1>1, <1>3, <1>4 DEF HandsAreOpen, Open
<1>6. ReasonsCome' /\ PaidBackOrDue' /\ Kept
  BY <1>1, <1>3 DEF ReasonsCome, NoReason, PaidBackOrDue, Kept
<1> QED
  BY <1>5, <1>6 DEF Later

\* A task that is saved was not done, and a failure is due to be paid back.
LEMMA SaveKeepsDone ==
    ASSUME JInv, NEW t \in Tasks, SaveItem(t)
    PROVE  Later /\ Kept
<1> USE DEF JInv, IInv
<1> DEFINE item == Judged(t)
           report == [done |-> item.done \/ IsFailure(item),
                      status |-> item.status, reason |-> item.reason]
           rest == DOMAIN poll.items \ {t}
<1>1. /\ t \in DOMAIN poll.items /\ poll.stage = "items" /\ poll.refund = {}
      /\ UNCHANGED <<refunded, plan, pc>>
  BY DEF SaveItem, Fails, books, request
<1>2. /\ poll.memory[t].there /\ Open(t)
      /\ item.reason # "" => IsFailure(item)
  <2>1. item \in Reports /\ (item.reason # "" => item.status = "FAILURE")
    BY <1>1, PollType DEF Judged, ReasonsAreFailures, Reports
  <2> QED
    BY <1>1, <2>1 DEF WaitingAreUnpaid, HandsAreOpen, Waiting, IsFailure, Reports
<1>3. PICK due \in {{}, {t}} :
         /\ poll' = [poll EXCEPT !.items = Restrict(poll.items, rest), !.refund = due]
         /\ faults' = faults \/ faults' # 0
         /\ \/ row' = row /\ (due = {} \/ faults' # 0)
            \/ /\ row' = [row EXCEPT ![t] = WithReport(poll.memory[t], report)]
               /\ due = IF IsFailure(item) THEN {t} ELSE {}
  <2>1. CASE UNCHANGED <<books, counts>> /\ poll' = [poll EXCEPT !.items = Restrict(poll.items, rest), !.refund = {}]
    BY <2>1 DEF books, counts
  <2>2. CASE /\ row' = [row EXCEPT ![t] = WithReport(poll.memory[t], report)]
             /\ poll' = [poll EXCEPT !.items = Restrict(poll.items, rest),
                                     !.refund = IF IsFailure(item) THEN {t} ELSE {}]
             /\ UNCHANGED <<charged, refunded, counts>>
    BY <2>2 DEF counts
  <2>3. CASE Fails /\ poll' = [poll EXCEPT !.items = Restrict(poll.items, rest), !.refund = {}]
    BY <2>3 DEF TypeOK, Fails, Fault, books
  <2> QED
    BY <2>1, <2>2, <2>3 DEF SaveItem
<1>4. /\ WithReport(poll.memory[t], report).there
      /\ WithReport(poll.memory[t], report).report.done \/ ~IsFailure(item)
      /\ WithReport(poll.memory[t], report).report.reason = item.reason
  BY <1>2 DEF WithReport
<1> HIDE DEF report, item
<1>5. /\ poll'.stage = "items" /\ poll'.todo = poll.todo /\ poll'.memory = poll.memory
      /\ DOMAIN (poll'.items) = rest /\ poll'.refund = due
  BY <1>1, <1>3 DEF TypeOK, Polls, Restrict
<1>6. \A u \in Tasks : row'[u] = IF row' # row /\ u = t THEN WithReport(poll.memory[t], report) ELSE row[u]
  BY <1>3 DEF TypeOK
<1>7. t \notin Waiting' /\ Waiting' \subseteq Waiting
  BY <1>1, <1>5 DEF WaitingAreUnpaid, Waiting
<1>8. Kept
  BY <1>2, <1>6 DEF Kept, Open
<1>9. HandsAreOpen'
  BY <1>5, <1>6, <1>7, PollType DEF HandsAreOpen, Open, Waiting
<1>10. ReasonsCome'
  BY <1>1, <1>2, <1>4, <1>6 DEF ReasonsCome, NoReason
<1>11. PaidBackOrDue'
  BY <1>1, <1>2, <1>3, <1>4, <1>5, <1>6 DEF PaidBackOrDue, Open
<1> QED
  BY <1>8, <1>9, <1>10, <1>11 DEF Later

\* The failure that is due is paid back, or a fault accounts for it.
LEMMA RefundKeepsDone ==
    ASSUME JInv, NEW t \in Tasks, Refund(t)
    PROVE  Later /\ Kept
<1> USE DEF JInv, IInv
<1>1. /\ t \in poll.refund /\ UNCHANGED <<row, plan, pc>>
      /\ poll' = [poll EXCEPT !.refund = {}]
      /\ \/ refunded' = [refunded EXCEPT ![t] = @ + 1] /\ faults' = faults
         \/ faults' # 0
  BY DEF TypeOK, Refund, Fails, Fault, books, request, counts
<1>2. /\ poll'.refund = {}
      /\ UNCHANGED <<poll.stage, poll.todo, poll.memory, poll.items>>
  BY <1>1 DEF TypeOK, Polls
<1>3. HandsAreOpen'
  BY <1>1, <1>2 DEF HandsAreOpen, Waiting, Open
<1>4. ReasonsCome' /\ Kept
  BY <1>1 DEF ReasonsCome, NoReason, Kept
<1>5. poll.refund = {t} /\ refunded[t] = 0
  BY <1>1 DEF HandsAreOpen, RefundIsDue
<1>6. PaidBackOrDue'
  BY <1>1, <1>2, <1>5 DEF PaidBackOrDue, TypeOK
<1> QED
  BY <1>3, <1>4, <1>6 DEF Later

\* The upstream and the clock write nothing; a restart is a fault.
LEMMA WorldKeepsDone ==
    ASSUME JInv, Restart \/ \E t \in Tasks : JobEnds(t) \/ HourPasses(t)
    PROVE  Later /\ Kept
<1> USE DEF JInv, IInv
<1>1. CASE Restart
  <2>1. /\ UNCHANGED <<row, refunded, plan>> /\ faults' # 0 /\ poll' = Asleep
        /\ \A t \in Tasks : pc'[t] # "insert" \/ pc[t] = "insert"
    BY <1>1 DEF TypeOK, Restart, Fails, Fault, books
  <2>2. HandsAreOpen'
    BY <2>1, AsleepType DEF HandsAreOpen, Waiting, Asleep
  <2>3. ReasonsCome' /\ PaidBackOrDue' /\ Kept
    BY <2>1 DEF ReasonsCome, NoReason, PaidBackOrDue, Kept
  <2> QED
    BY <2>2, <2>3 DEF Later
<1>2. CASE \E t \in Tasks : JobEnds(t) \/ HourPasses(t)
  <2>1. UNCHANGED <<row, refunded, plan, pc, poll, faults>>
    BY <1>2 DEF JobEnds, HourPasses, books, request, counts
  <2>2. HandsAreOpen' /\ ReasonsCome' /\ PaidBackOrDue' /\ Kept
    BY <2>1 DEF HandsAreOpen, Waiting, Open, ReasonsCome, NoReason, PaidBackOrDue, Kept
  <2> QED
    BY <2>2 DEF Later
<1> QED
  BY <1>1, <1>2

\* Every step but a notification keeps what is done, and pays back failures.
LEMMA StepKeepsDone ==
    ASSUME JInv, [Next]_vars, notices' = 0
    PROVE  JInv' /\ Kept
<1>1. Later /\ Kept
  <2>1. CASE UpdateMidjourneyTaskBulk
    BY <2>1, StartKeepsDone, BulkKeepsDone, AnswerKeepsDone, SaveKeepsDone,
       RefundKeepsDone DEF UpdateMidjourneyTaskBulk
  <2>2. CASE \E t \in Tasks : RelayMidjourneySubmit(t)
    BY <2>2, SubmitKeepsDone
  <2>3. CASE \E t \in Tasks : Notify(t)
    BY <2>3 DEF Notify, JInv, IInv
  <2>4. CASE Restart \/ \E t \in Tasks : JobEnds(t) \/ HourPasses(t)
    BY <2>4, WorldKeepsDone
  <2>5. CASE UNCHANGED vars
    <3>1. UNCHANGED <<row, refunded, pc, plan, poll, faults>>
      BY <2>5 DEF vars, books, request, counts
    <3> QED
      BY <3>1 DEF JInv, Later, HandsAreOpen, Waiting, Open, ReasonsCome, NoReason, PaidBackOrDue, Kept
  <2> QED
    BY <2>1, <2>2, <2>3, <2>4, <2>5 DEF Next
<1> QED
  BY <1>1, StepKeepsInvariant DEF JInv, Later

\* Nothing is recorded at first.
LEMMA InitDone == Init => JInv
<1> SUFFICES ASSUME Init PROVE JInv
  OBVIOUS
<1>1. HandsAreOpen
  BY AsleepType DEF Init, HandsAreOpen, Waiting, Asleep
<1>2. ReasonsCome /\ PaidBackOrDue
  BY DEF Init, ReasonsCome, NoReason, PaidBackOrDue, NoRow, NoPlan, Started
<1> QED
  BY <1>1, <1>2, InitInvariant DEF JInv

\* Until the first notification what is done and what is due agree.
QuietDone == notices \in Nat /\ (notices = 0 => JInv)

\* QuietDone holds in every reachable state.
THEOREM DoneInvariance == Spec => []QuietDone
<1>1. Init => QuietDone
  BY InitDone DEF QuietDone, Init
<1>2. QuietDone /\ [Next]_vars => QuietDone'
  BY StepKeepsDone, OnlyNotifyCounts DEF QuietDone
<1> QED
  BY <1>1, <1>2, PTL DEF Spec

\* While nothing fails and nobody notifies, every task recorded as failed on the
\* upstream's word or for its age was paid back when the poller sleeps.
THEOREM FailuresArePaidBack == Spec => []FailuresPaidBack
<1>1. QuietDone => FailuresPaidBack
  <2> SUFFICES ASSUME QuietDone, faults = 0, notices = 0, poll.stage = "asleep", NEW t \in Tasks,
                      row[t].report.done, row[t].report.reason \in {"upstream", "late"}
               PROVE  refunded[t] = 1
    BY DEF FailuresPaidBack
  <2> QED
    BY DEF QuietDone, JInv, PaidBackOrDue, HandsAreOpen
<1> QED
  BY <1>1, DoneInvariance, PTL

\* Before the first notification no step, of a poller with an old copy of the
\* row, of a late answer, of a request or of a restart, touches a task that is
\* done.
THEOREM DoneStaysDone == Spec => DoneForGood
<1>1. QuietDone /\ [Next]_vars
        => [notices' = 0 => \A t \in Tasks : row[t].report.done => row'[t] = row[t]]_vars
  BY StepKeepsDone, OnlyNotifyCounts DEF QuietDone, Kept
<1> QED
  BY <1>1, DoneInvariance, PTL DEF Spec, DoneForGood
=============================================================================
