------------------------------ MODULE SunoTasks ------------------------------
(***************************************************************************)
(* Suno tasks: RelayTask submits a request, on another channel when a      *)
(* channel fails, RelayTaskSubmit records the accepted task and charges    *)
(* for it, and UpdateTaskBulk polls the upstreams and pays failures back   *)
(* before it saves them.                                                   *)
(***************************************************************************)
EXTENDS Integers, FiniteSets, Functions

CONSTANTS
    Requests,
    Specific,      \* those that name their channel, which is tried once
    RetryTimes,    \* common.RetryTimes
    MaxFaults,     \* bound: failing statements, lost channels, restarts
    MaxStrays      \* bound: answers that list a task nobody asked about

ASSUME SunoAssumption ==
    RetryTimes \in Nat /\ MaxFaults \in Nat /\ MaxStrays \in Nat

\* Every attempt to submit a request is a task of its own at the upstream.
Attempts == 0..RetryTimes
Tasks == Requests \X Attempts

VARIABLES
    row,         \* the tasks table
    charged, refunded,
    job,         \* the job at the upstream
    pc, attempt, \* each request's step and attempt
    named,       \* whether the answer to the attempt gave an id
    poll,        \* the polling goroutine
    faults, strays

books == <<row, charged, refunded>>
request == <<pc, attempt, named>>
counts == <<faults, strays>>
vars == <<books, request, job, poll, counts>>

Rows == [there : BOOLEAN, named : BOOLEAN, done : BOOLEAN,
         status : {"", "IN_PROGRESS", "SUCCESS", "FAILURE"}, reason : BOOLEAN]
NoRow == [there |-> FALSE, named |-> FALSE, done |-> FALSE, status |-> "", reason |-> FALSE]
Items == [status : {"IN_PROGRESS", "SUCCESS", "FAILURE"}, reason : BOOLEAN]

\* "err" is updateSunoTaskAll's variable, which keeps what the item before left.
Nothing == [t \in {} |-> NoRow]
Asleep == [stage |-> "asleep", memory |-> Nothing, items |-> Nothing, stray |-> FALSE,
           err |-> FALSE, item |-> {}]
IsPoll(p) ==
    /\ DOMAIN p = DOMAIN Asleep
    /\ p.stage \in {"asleep", "mark", "fetch", "items", "dead"}
    /\ DOMAIN p.memory \subseteq Tasks /\ \A t \in DOMAIN p.memory : p.memory[t] \in Rows
    /\ DOMAIN p.items \subseteq Tasks /\ \A t \in DOMAIN p.items : p.items[t] \in Items
    /\ p.stray \in BOOLEAN /\ p.err \in BOOLEAN
    /\ p.item \subseteq DOMAIN p.items    \* the item whose row is still to be saved

TypeOK ==
    /\ row \in [Tasks -> Rows]
    /\ charged \in [Tasks -> Nat] /\ refunded \in [Tasks -> Nat]
    /\ job \in [Tasks -> {"none", "IN_PROGRESS", "SUCCESS", "FAILURE"}]
    /\ pc \in [Requests -> {"submit", "insert", "charge", "end"}]
    /\ attempt \in [Requests -> Attempts] /\ named \in [Requests -> BOOLEAN]
    /\ IsPoll(poll)
    /\ faults \in 0..MaxFaults /\ strays \in 0..MaxStrays

Init ==
    /\ row = [t \in Tasks |-> NoRow]
    /\ charged = [t \in Tasks |-> 0] /\ refunded = [t \in Tasks |-> 0]
    /\ job = [t \in Tasks |-> "none"]
    /\ pc = [r \in Requests |-> "submit"]
    /\ attempt = [r \in Requests |-> 0] /\ named = [r \in Requests |-> FALSE]
    /\ poll = Asleep
    /\ faults = 0 /\ strays = 0

\* A statement fails, or the server stops.
Fails == faults + strays < MaxFaults /\ faults' = faults + 1 /\ UNCHANGED <<books, strays>>

-----------------------------------------------------------------------------
(***************************************************************************)
(* Submitting.                                                             *)
(***************************************************************************)
Current(r) == <<r, attempt[r]>>

\* After an error another channel is tried, unless the error or the number of
\* attempts forbids it.
Retry(r) ==
    \/ pc' = [pc EXCEPT ![r] = "end"] /\ UNCHANGED attempt
    \/ /\ attempt[r] < RetryTimes
       /\ r \notin Specific
       /\ attempt' = [attempt EXCEPT ![r] = @ + 1]
       /\ pc' = [pc EXCEPT ![r] = "submit"]

\* The upstream refuses, or accepts and (as a rule) names the task.
Submit(r) ==
    /\ pc[r] = "submit"
    /\ \/ Retry(r) /\ UNCHANGED <<job, named>>
       \/ /\ \E name \in BOOLEAN : named' = [named EXCEPT ![r] = name]
          /\ job' = [job EXCEPT ![Current(r)] = "IN_PROGRESS"]
          /\ pc' = [pc EXCEPT ![r] = "insert"]
          /\ UNCHANGED attempt
    /\ UNCHANGED <<books, poll, counts>>

\* A failed insert is an error like the others, with the client answered and
\* the upstream at work; only an insert that succeeds is charged.
Insert(r) ==
    /\ pc[r] = "insert"
    /\ \/ /\ row' = [row EXCEPT ![Current(r)] =
                 [NoRow EXCEPT !.there = TRUE, !.named = named[r]]]
          /\ pc' = [pc EXCEPT ![r] = "charge"]
          /\ UNCHANGED <<attempt, charged, refunded, counts>>
       \/ Fails /\ Retry(r)
    /\ UNCHANGED <<named, job, poll>>

\* Mutant: the charge reports an error and the request is tried again.
ChargeOrRetry(r) ==
    /\ pc[r] = "charge"
    /\ charged' = [charged EXCEPT ![Current(r)] = @ + 1]
    /\ Retry(r)
    /\ UNCHANGED <<row, refunded, named, job, poll, counts>>

\* PostConsumeQuota, deferred; an error is only logged.
Charge(r) ==
    /\ pc[r] = "charge"
    /\ \/ /\ charged' = [charged EXCEPT ![Current(r)] = @ + 1]
          /\ UNCHANGED <<row, refunded, counts>>
       \/ Fails
    /\ pc' = [pc EXCEPT ![r] = "end"]
    /\ UNCHANGED <<attempt, named, job, poll>>

JobEnds(t) ==
    /\ job[t] = "IN_PROGRESS"
    /\ \E status \in {"SUCCESS", "FAILURE"} : job' = [job EXCEPT ![t] = status]
    /\ UNCHANGED <<books, request, poll, counts>>

(***************************************************************************)
(* Polling: UpdateTaskBulk and updateSunoTaskAll.                          *)
(***************************************************************************)
PollStart ==
    LET unfinished == {t \in Tasks : row[t].there /\ ~row[t].done}
    IN  /\ poll.stage = "asleep"
        /\ unfinished # {}
        /\ poll' = [Asleep EXCEPT !.stage = "mark", !.memory = Restrict(row, unfinished)]
        /\ UNCHANGED <<books, request, job, counts>>

\* The tasks in memory with an id at the upstream, and those without.
Asked == {t \in DOMAIN poll.memory : poll.memory[t].named}
Unnamed == DOMAIN poll.memory \ Asked

BulkFailed(S, reason) ==
    [t \in Tasks |->
        IF t \in S /\ row[t].there
        THEN [there |-> TRUE, named |-> row[t].named, done |-> TRUE, status |-> "FAILURE",
              reason |-> row[t].reason \/ reason]
        ELSE row[t]]

MarkUnnamed ==
    /\ poll.stage = "mark"
    /\ \/ row' = BulkFailed(Unnamed, FALSE) /\ UNCHANGED <<charged, refunded, counts>>
       \/ Unnamed # {} /\ Fails
    /\ poll' = IF Asked = {} THEN Asleep ELSE [poll EXCEPT !.stage = "fetch"]
    /\ UNCHANGED <<request, job>>

\* What the upstream says of a job: a failure has a status, a reason or both.
Report(state) ==
    IF state = "FAILURE"
    THEN {i \in Items : i.status = "FAILURE" \/ (i.status = "IN_PROGRESS" /\ i.reason)}
    ELSE {i \in Items : i.status = state /\ ~i.reason}

\* The upstream lists the tasks of L, and perhaps a stranger; that it lists none
\* of them twice is an assumption on the upstream, which the code does not check.
Answer(L) ==
    /\ poll.stage = "fetch" /\ L \subseteq Asked
    /\ \E items \in [L -> Items], stray \in BOOLEAN :
         /\ \A t \in L : items[t] \in Report(job[t])
         /\ stray => faults + strays < MaxStrays
         /\ strays' = IF stray THEN strays + 1 ELSE strays
         /\ poll' = [poll EXCEPT !.stage = "items", !.items = items, !.stray = stray]
    /\ UNCHANGED <<books, request, job, faults>>

\* The upstream cannot be reached or answers with an error, or the channel is gone.
NoAnswer ==
    /\ poll.stage = "fetch"
    /\ \/ UNCHANGED <<books, counts>>
       \/ /\ faults + strays < MaxFaults /\ faults' = faults + 1
          /\ row' = BulkFailed(Asked, TRUE)
          /\ UNCHANGED <<charged, refunded, strays>>
    /\ poll' = Asleep
    /\ UNCHANGED <<request, job>>

IsFailure(item) == item.reason \/ item.status = "FAILURE"

\* The row in memory brought up to date.
Updated(t) ==
    LET item == poll.items[t]
    IN  [there |-> TRUE, named |-> TRUE, status |-> item.status,
         done |-> poll.memory[t].done \/ IsFailure(item) \/ item.status = "SUCCESS",
         reason |-> poll.memory[t].reason \/ item.reason]

\* Mutant: only a task with a reason is paid back.
PayIfReason(t) ==
    /\ poll.stage = "items" /\ t \in DOMAIN poll.items /\ poll.item = {}
    /\ refunded' = [refunded EXCEPT ![t] = IF poll.items[t].reason THEN @ + 1 ELSE @]
    /\ poll' = [poll EXCEPT !.item = {t}]
    /\ UNCHANGED <<row, charged, counts, request, job>>

\* One item: nothing new (checkTaskNeedUpdate), or a failure is paid back,
\* unless err is still set from the item before.
PayItem(t) ==
    LET item == poll.items[t]
        Proceed == poll' = [poll EXCEPT !.item = {t}]
    IN  /\ poll.stage = "items" /\ t \in DOMAIN poll.items /\ poll.item = {}
        /\ \/ /\ Updated(t) = poll.memory[t]
              /\ poll' = [poll EXCEPT !.items = Restrict(@, DOMAIN @ \ {t})]
              /\ UNCHANGED <<books, counts>>
           \/ /\ ~IsFailure(item) \/ poll.err
              /\ Proceed /\ UNCHANGED <<books, counts>>
           \/ /\ IsFailure(item) /\ ~poll.err
              /\ \/ /\ refunded' = [refunded EXCEPT ![t] = @ + 1]
                    /\ UNCHANGED <<row, charged, counts>>
                 \/ Fails
              /\ Proceed
        /\ UNCHANGED <<request, job>>

\* Mutant: a success is saved with the progress it had.
SaveUnfinished(t) ==
    /\ t \in poll.item
    /\ row' = [row EXCEPT ![t] = [Updated(t) EXCEPT !.done = IsFailure(poll.items[t])]]
    /\ poll' = [poll EXCEPT !.items = Restrict(@, DOMAIN @ \ {t}), !.item = {}, !.err = FALSE]
    /\ UNCHANGED <<charged, refunded, counts, request, job>>

\* Mutant: a task is finished by its status alone, whatever its reason.
SaveByStatus(t) ==
    /\ t \in poll.item
    /\ row' = [row EXCEPT ![t] = [Updated(t) EXCEPT !.done = poll.items[t].status # "IN_PROGRESS"]]
    /\ poll' = [poll EXCEPT !.items = Restrict(@, DOMAIN @ \ {t}), !.item = {}, !.err = FALSE]
    /\ UNCHANGED <<charged, refunded, counts, request, job>>

\* task.Update; its error stays in err for the item after.
SaveItem(t) ==
    /\ t \in poll.item
    /\ \E err \in BOOLEAN :
         /\ IF err THEN Fails
            ELSE row' = [row EXCEPT ![t] = Updated(t)] /\ UNCHANGED <<charged, refunded, counts>>
         /\ poll' = [poll EXCEPT !.items = Restrict(@, DOMAIN @ \ {t}), !.item = {}, !.err = err]
    /\ UNCHANGED <<request, job>>

\* An item nobody asked for has no task in the map: the nil pointer ends the
\* goroutine.
Panic ==
    /\ poll.stage = "items" /\ poll.stray /\ poll.item = {}
    /\ poll' = [Asleep EXCEPT !.stage = "dead"]
    /\ UNCHANGED <<books, request, job, counts>>

PollEnd ==
    /\ poll.stage = "items" /\ DOMAIN poll.items = {} /\ poll.item = {} /\ ~poll.stray
    /\ poll' = Asleep
    /\ UNCHANGED <<books, request, job, counts>>

\* The server stops and starts again.
Restart ==
    /\ Fails
    /\ pc' = [r \in Requests |-> "end"]
    /\ poll' = Asleep
    /\ UNCHANGED <<attempt, named, job>>

-----------------------------------------------------------------------------
RelayTask(r) == Submit(r) \/ Insert(r) \/ Charge(r)

UpdateTaskBulk ==
    \/ PollStart \/ MarkUnnamed \/ NoAnswer \/ Panic \/ PollEnd
    \/ \E L \in SUBSET Tasks : Answer(L)
    \/ \E t \in Tasks : PayItem(t) \/ SaveItem(t)

Next == \/ UpdateTaskBulk
        \/ \E r \in Requests : RelayTask(r)
        \/ \E t \in Tasks : JobEnds(t)
        \/ Restart

Spec == Init /\ [][Next]_vars

\* The goroutine runs on, an upstream that is asked again and again answers in
\* full at some time, and a job ends.
Fairness ==
    /\ WF_vars(UpdateTaskBulk)
    /\ SF_vars(Answer(Asked))
    /\ \A t \in Tasks : WF_vars(JobEnds(t))

FairSpec == Spec /\ Fairness

-----------------------------------------------------------------------------
(***************************************************************************)
(* Properties.                                                             *)
(***************************************************************************)
\* Whatever the number of attempts, a request is charged once at most.
ChargedOnce ==
    \A r \in Requests : \A i, j \in Attempts :
        charged[<<r, i>>] + charged[<<r, j>>] <= IF i = j THEN 2 ELSE 1

\* Nothing is charged that the poller would not find: what was charged has a
\* row.
ChargedAreRecorded == \A t \in Tasks : charged[t] > 0 => row[t].there

\* Each failing statement or restart makes the poller pay a task back once
\* more, at most; without one a task is paid back once at most.
RefundsFollowFaults == \A t \in Tasks : refunded[t] <= 1 + faults

\* While nothing fails, every named task recorded as failed has been paid back
\* when the poller sleeps.
FailuresPaidBack ==
    faults = 0 /\ poll.stage = "asleep" =>
        \A t \in Tasks :
            row[t].done /\ row[t].named /\ (row[t].status = "FAILURE" \/ row[t].reason) =>
                refunded[t] = 1

\* Every recorded task is finished in the end.
TasksEnd == \A t \in Tasks : row[t].there ~> row[t].done \/ poll.stage = "dead"
=============================================================================
