------------------------------- MODULE MjTasks -------------------------------
(***************************************************************************)
(* Midjourney tasks: RelayMidjourneySubmit and RelaySwapFace record a task *)
(* and charge for it, one polling goroutine asks the upstreams about the   *)
(* unfinished ones and pays failed ones back, and an upstream may also     *)
(* notify the server of a task's state.                                    *)
(***************************************************************************)
EXTENDS Integers, FiniteSets, Functions

CONSTANTS
    Tasks, Channels,
    ChannelOf,     \* the channel that took a task
    KindOf,        \* "normal", "swap" (RelaySwapFace), or "free" (INPAINT, CUSTOM_ZOOM)
    MaxFaults,     \* bound: failing statements, lost channels, restarts
    MaxNotices,    \* bound: notifications
    MaxStrays      \* bound: answers that list a task nobody asked about

ASSUME MjAssumption ==
    /\ ChannelOf \in [Tasks -> Channels]
    /\ KindOf \in [Tasks -> {"normal", "swap", "free"}]
    /\ MaxFaults \in Nat /\ MaxNotices \in Nat /\ MaxStrays \in Nat

VARIABLES
    row,         \* midjourneys; the row of a task that is not recorded is NoRow
    charged,     \* how often a task was paid for
    refunded,    \* how often it was paid back
    job,         \* the job at the upstream
    late,        \* tasks submitted more than an hour ago
    pc, plan,    \* each submitting request: its step, and what it will record and charge
    poll,        \* the polling goroutine
    faults, notices, strays

books == <<row, charged, refunded>>
request == <<pc, plan>>
world == <<job, late>>
counts == <<faults, notices, strays>>
vars == <<books, request, world, poll, counts>>

\* The columns the code decides on. "done" is a progress of 100%.
Reports == [done : BOOLEAN, status : {"", "SUCCESS", "FAILURE"},
            reason : {"", "refused", "upstream", "late", "channel"}]
Rows == [there : BOOLEAN, named : BOOLEAN, report : Reports]
Started == [done |-> FALSE, status |-> "", reason |-> ""]
Succeeded == [done |-> TRUE, status |-> "SUCCESS", reason |-> ""]
WithReport(r, report) == [there |-> r.there, named |-> r.named, report |-> report]
NoRow == [there |-> FALSE, named |-> FALSE, report |-> Started]
NoPlan == [row |-> NoRow, consumeQuota |-> FALSE]

Nothing == [t \in {} |-> NoRow]
Asleep == [stage |-> "asleep", memory |-> Nothing, todo |-> {}, items |-> Nothing,
           stray |-> FALSE, refund |-> {}]
Polls == [stage : {"asleep", "mark", "fetch", "items", "dead"},
          memory : UNION {[S -> Rows] : S \in SUBSET Tasks},
          todo : SUBSET Tasks,                                  \* not asked about yet
          items : UNION {[S -> Reports] : S \in SUBSET Tasks},  \* not applied yet
          stray : BOOLEAN, refund : SUBSET Tasks]

TypeOK ==
    /\ row \in [Tasks -> Rows]
    /\ charged \in [Tasks -> Nat] /\ refunded \in [Tasks -> Nat]
    /\ job \in [Tasks -> {"none", "running", "SUCCESS", "FAILURE"}]
    /\ late \subseteq Tasks
    /\ pc \in [Tasks -> {"start", "insert", "charge", "end"}]
    /\ plan \in [Tasks -> [row : Rows, consumeQuota : BOOLEAN]]
    /\ poll \in Polls
    /\ faults \in 0..MaxFaults /\ notices \in 0..MaxNotices /\ strays \in 0..MaxStrays

Init ==
    /\ row = [t \in Tasks |-> NoRow]
    /\ charged = [t \in Tasks |-> 0] /\ refunded = [t \in Tasks |-> 0]
    /\ job = [t \in Tasks |-> "none"] /\ late = {}
    /\ pc = [t \in Tasks |-> "start"] /\ plan = [t \in Tasks |-> NoPlan]
    /\ poll = Asleep
    /\ faults = 0 /\ notices = 0 /\ strays = 0

\* One more failure; what failed changes nothing in the database.
Fault == faults + strays + notices < MaxFaults /\ faults' = faults + 1 /\ UNCHANGED <<notices, strays>>
Fails == Fault /\ UNCHANGED books

Refused == 24   \* the answer's code, one of those that refuse a task

\* What an upstream says of a job.
Report(state) ==
    IF state = "SUCCESS" THEN {Succeeded}
    ELSE IF state = "FAILURE"
    THEN {[done |-> d, status |-> "FAILURE", reason |-> "upstream"] : d \in BOOLEAN}
    ELSE {Started}

-----------------------------------------------------------------------------
(***************************************************************************)
(* The upstream and the clock.                                             *)
(***************************************************************************)
JobEnds(t) ==
    /\ job[t] = "running"
    /\ \E state \in {"SUCCESS", "FAILURE"} : job' = [job EXCEPT ![t] = state]
    /\ UNCHANGED <<books, request, late, poll, counts>>

HourPasses(t) ==
    /\ row[t].there /\ ~row[t].report.done /\ t \notin late
    /\ late' = late \cup {t}
    /\ UNCHANGED <<books, request, job, poll, counts>>

(***************************************************************************)
(* Submitting.                                                             *)
(***************************************************************************)
\* What is recorded after the upstream's answer: 1 is accepted, 21 known
\* already, 22 queued, any other code refused.  A task that is over at once
\* has been uploaded, or is known with its result.
NewRow(t, code, named, over) ==
    [there |-> TRUE, named |-> named,
     report |-> IF over THEN Succeeded
                ELSE IF code = Refused /\ KindOf[t] # "swap"
                THEN [done |-> FALSE, status |-> "", reason |-> "refused"]
                ELSE Started]

ConsumesQuota(t, code, ok) ==
    IF KindOf[t] = "normal" THEN ok /\ code # Refused
    ELSE KindOf[t] = "swap" /\ ok /\ code = 1

\* The upstream answers, with HTTP 200 or without.
Submit(t) ==
    /\ pc[t] = "start"
    /\ \E code \in {1, 21, 22, Refused}, ok, named, over \in BOOLEAN :
         /\ code # Refused => named
         /\ over => code \in {1, 21} /\ KindOf[t] = "normal"
         /\ plan' = [plan EXCEPT ![t] = [row |-> NewRow(t, code, named, over),
                                        consumeQuota |-> ConsumesQuota(t, code, ok)]]
         /\ job' = [job EXCEPT ![t] = IF code = Refused THEN "none"
                                      ELSE IF over THEN "SUCCESS" ELSE "running"]
    /\ pc' = [pc EXCEPT ![t] = "insert"]
    /\ UNCHANGED <<books, late, poll, counts>>

\* A failed Insert returns an error, and the deferred charge follows all the same.
Insert(t) ==
    /\ pc[t] = "insert"
    /\ \/ row' = [row EXCEPT ![t] = plan[t].row] /\ UNCHANGED <<charged, refunded, counts>>
       \/ Fails
    /\ pc' = [pc EXCEPT ![t] = "charge"]
    /\ UNCHANGED <<plan, world, poll>>

Charge(t) ==
    /\ pc[t] = "charge"
    /\ \/ /\ charged' = [charged EXCEPT ![t] = IF plan[t].consumeQuota THEN @ + 1 ELSE @]
          /\ UNCHANGED <<row, refunded, counts>>
       \/ plan[t].consumeQuota /\ Fails
    /\ pc' = [pc EXCEPT ![t] = "end"]
    /\ UNCHANGED <<plan, world, poll>>

(***************************************************************************)
(* Polling: UpdateMidjourneyTaskBulk.                                      *)
(***************************************************************************)
\* Mutant: every task is asked about, finished or not.
PollAll ==
    /\ poll.stage = "asleep"
    /\ \E t \in Tasks : row[t].there
    /\ LET memory == Restrict(row, {t \in Tasks : row[t].there})
       IN  poll' = [Asleep EXCEPT !.stage = "mark", !.memory = memory,
                                  !.todo = {t \in DOMAIN memory : memory[t].named}]
    /\ UNCHANGED <<books, request, world, counts>>

\* Every fifteen seconds: the unfinished tasks, read into memory.
PollStart ==
    LET unfinished == {t \in Tasks : row[t].there /\ ~row[t].report.done}
    IN  /\ poll.stage = "asleep"
        /\ unfinished # {}
        /\ poll' = [Asleep EXCEPT !.stage = "mark", !.memory = Restrict(row, unfinished),
                                  !.todo = {t \in unfinished : row[t].named}]
        /\ UNCHANGED <<books, request, world, counts>>

\* The rows of S with the bulk update's status and progress.
BulkFailed(S, reason) ==
    [t \in Tasks |->
        IF t \in S /\ row[t].there
        THEN WithReport(row[t], [done |-> TRUE, status |-> "FAILURE",
                 reason |-> IF reason = "" THEN row[t].report.reason ELSE reason])
        ELSE row[t]]

\* Tasks without an id at the upstream have failed; the loop ends here when
\* there are no others.
MarkUnnamed ==
    LET unnamed == DOMAIN poll.memory \ poll.todo
    IN  /\ poll.stage = "mark"
        /\ \/ row' = BulkFailed(unnamed, "") /\ UNCHANGED <<charged, refunded, counts>>
           \/ unnamed # {} /\ Fails
        /\ poll' = IF poll.todo = {} THEN Asleep ELSE [poll EXCEPT !.stage = "fetch"]
        /\ UNCHANGED <<request, world>>

OfChannel(c) == {t \in poll.todo : ChannelOf[t] = c}

Known(c) == {t \in OfChannel(c) : job[t] # "none"}

\* The upstream of channel c lists the tasks of L, and perhaps a stranger.  That
\* it lists no task twice is an assumption on the upstream: the loop over its
\* items would take the second one for news of a task it has finished.
Answer(c, L) ==
    /\ poll.stage = "fetch" /\ OfChannel(c) # {}
    /\ L \subseteq Known(c)
    /\ \E items \in [L -> UNION {Report(job[t]) : t \in L}] :
         /\ \A t \in L : items[t] \in Report(job[t])
         /\ \/ /\ poll' = [poll EXCEPT !.stage = "items", !.todo = @ \ OfChannel(c),
                                       !.items = items]
               /\ UNCHANGED counts
            \/ /\ faults + strays + notices < MaxStrays /\ strays' = strays + 1
               /\ poll' = [poll EXCEPT !.stage = "items", !.todo = @ \ OfChannel(c),
                                       !.items = items, !.stray = TRUE]
               /\ UNCHANGED <<faults, notices>>
    /\ UNCHANGED <<books, request, world>>

\* The upstream cannot be reached, or the channel is gone.
NoAnswer(c) ==
    /\ poll.stage = "fetch" /\ OfChannel(c) # {}
    /\ \/ UNCHANGED <<books, counts>>
       \/ /\ Fault
          /\ row' = BulkFailed(OfChannel(c), "channel")
          /\ UNCHANGED <<charged, refunded>>
    /\ poll' = LET rest == poll.todo \ OfChannel(c)
               IN  IF rest = {} THEN Asleep ELSE [poll EXCEPT !.todo = rest]
    /\ UNCHANGED <<request, world>>

\* Mutant: the hour is never checked.
JudgedByUpstream(t) == poll.items[t]

\* An hour after its submission a task that is not done counts as failed.
Judged(t) ==
    LET item == poll.items[t]
    IN  IF t \in late /\ ~poll.memory[t].report.done
        THEN [done |-> item.done, status |-> "FAILURE", reason |-> "late"]
        ELSE item

\* A failure is recorded with a progress of 100%.
IsFailure(item) == \/ ~item.done /\ item.reason # ""
                   \/ item.done /\ item.status = "FAILURE"

\* One item: nothing new (checkMjTaskNeedUpdate), or the row as it is in
\* memory is brought up to date and saved; a failure is then paid back.
SaveItem(t) ==
    LET item == Judged(t)
        fresh == WithReport(poll.memory[t],
                            [done |-> item.done \/ IsFailure(item),
                             status |-> item.status, reason |-> item.reason])
        Proceed(refund) ==
            poll' = [poll EXCEPT !.items = Restrict(@, DOMAIN @ \ {t}), !.refund = refund]
    IN  /\ poll.stage = "items" /\ t \in DOMAIN poll.items /\ poll.refund = {}
        /\ \/ /\ item = poll.memory[t].report /\ ~(~item.done /\ item.reason # "")
              /\ Proceed({})
              /\ UNCHANGED <<books, counts>>
           \/ /\ row' = [row EXCEPT ![t] = fresh]
              /\ Proceed(IF IsFailure(item) THEN {t} ELSE {})
              /\ UNCHANGED <<charged, refunded, counts>>
           \/ Fails /\ Proceed({})
        /\ UNCHANGED <<request, world>>

\* Mutant: only what was charged is paid back.
RefundIfCharged(t) ==
    /\ t \in poll.refund
    /\ refunded' = [refunded EXCEPT ![t] = IF charged[t] > 0 THEN @ + 1 ELSE @]
    /\ poll' = [poll EXCEPT !.refund = {}]
    /\ UNCHANGED <<row, charged, counts, request, world>>

\* IncreaseUserQuota; an error is only logged.
Refund(t) ==
    /\ t \in poll.refund
    /\ \/ refunded' = [refunded EXCEPT ![t] = @ + 1] /\ UNCHANGED <<row, charged, counts>>
       \/ Fails
    /\ poll' = [poll EXCEPT !.refund = {}]
    /\ UNCHANGED <<request, world>>

\* An item nobody asked for: the map has no task for it, and the nil pointer
\* ends the goroutine, which is not started again.
Panic ==
    /\ poll.stage = "items" /\ poll.stray /\ poll.refund = {}
    /\ poll' = [Asleep EXCEPT !.stage = "dead"]
    /\ UNCHANGED <<books, request, world, counts>>

NextChannel ==
    /\ poll.stage = "items" /\ DOMAIN poll.items = {} /\ poll.refund = {} /\ ~poll.stray
    /\ poll' = IF poll.todo = {} THEN Asleep ELSE [poll EXCEPT !.stage = "fetch"]
    /\ UNCHANGED <<books, request, world, counts>>

(***************************************************************************)
(* RelayMidjourneyNotify: a state the job has, or has had, overwrites the  *)
(* row.                                                                    *)
(***************************************************************************)
Notify(t) ==
    /\ faults + strays + notices < MaxNotices /\ notices' = notices + 1
    /\ row[t].there /\ row[t].named /\ job[t] # "none"
    /\ \E report \in Report("running") \cup Report(job[t]) :
          row' = [row EXCEPT ![t].report = report]
    /\ UNCHANGED <<charged, refunded, request, world, poll, faults, strays>>

\* The server stops and starts again.
Restart ==
    /\ Fails
    /\ pc' = [t \in Tasks |-> IF pc[t] \in {"insert", "charge"} THEN "end" ELSE pc[t]]
    /\ poll' = Asleep
    /\ UNCHANGED <<plan, world>>

-----------------------------------------------------------------------------
RelayMidjourneySubmit(t) == Submit(t) \/ Insert(t) \/ Charge(t)

UpdateMidjourneyTaskBulk ==
    \/ PollStart \/ MarkUnnamed \/ NextChannel \/ Panic
    \/ \E c \in Channels : NoAnswer(c) \/ \E L \in SUBSET Tasks : Answer(c, L)
    \/ \E t \in Tasks : SaveItem(t) \/ Refund(t)

Next == \/ UpdateMidjourneyTaskBulk
        \/ \E t \in Tasks : \/ RelayMidjourneySubmit(t) \/ Notify(t)
                            \/ JobEnds(t) \/ HourPasses(t)
        \/ Restart

Spec == Init /\ [][Next]_vars

\* The goroutine runs on, and an upstream that is asked again and again
\* answers in full at some time.
Fairness ==
    /\ WF_vars(UpdateMidjourneyTaskBulk)
    /\ \A c \in Channels : SF_vars(Answer(c, Known(c)))

FairSpec == Spec /\ Fairness

-----------------------------------------------------------------------------
(***************************************************************************)
(* Properties.                                                             *)
(***************************************************************************)
\* However often a failed task is reported, and wherever the server stops, it
\* is paid back once at most (a notification may open a finished task again).
RefundedOnce == notices = 0 => \A t \in Tasks : refunded[t] <= 1

\* What was paid back is recorded as failed and no longer asked about.
RefundsAreFailures ==
    notices = 0 =>
        \A t \in Tasks : refunded[t] > 0 => row[t].report.done /\ row[t].report.status = "FAILURE"

\* While nothing fails, every task recorded as failed on the upstream's word
\* or for its age has been paid back when the poller sleeps.
FailuresPaidBack ==
    faults = 0 /\ notices = 0 /\ poll.stage = "asleep" =>
        \A t \in Tasks :
            row[t].report.done /\ row[t].report.reason \in {"upstream", "late"} =>
                refunded[t] = 1

\* A task that is done stays as it is: neither the poller's old copy of its
\* row nor a late answer brings it back.
DoneForGood ==
    [][notices' = 0 => \A t \in Tasks : row[t].report.done => row'[t] = row[t]]_vars

\* A job its upstream knows does not stay open for ever: the upstream reports
\* its end, or its hour is over, whatever failed before, unless a stranger in
\* an answer ended the poller.
KnownTasksEnd ==
    \A t \in Tasks :
        t \in late /\ job[t] # "none" ~> row[t].report.done \/ poll.stage = "dead"
=============================================================================
