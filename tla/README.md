# Veloera: a TLA+ model of a gateway's accounts, channels and answers

Veloera (`src/`, Go) is a gateway between clients that speak the APIs of OpenAI, Claude,
Midjourney or Suno and the channels that serve them. Users pay with *quota*, an integer kept
in `users.quota`, and present *tokens*, which have a `remain_quota` of their own. What can
go wrong in it, and is hard to reach with a test, is nearly always a matter of order: a
reservation that is lost in a retry, a code that is redeemed twice, a failed task that is
paid back twice or never, a stale row that is written over what requests have used, a
channel that comes back from a cache, a stream whose last line is billed and not sent. The
modules here model these paths as the code takes them, one action per database statement,
lock operation, line or upstream answer, TLC checks them on small instances, and TLAPS proves
the most important results for every instance.

Contents: [inventory](#inventory), [plan](#plan), [modules](#the-modules),
[runs](#the-runs), [fairness](#fairness), [proofs](#the-proofs),
[where the code differs](#where-the-code-differs-from-what-it-says),
[what is left out](#what-is-not-modelled).

## Inventory

| component | its state | its operations | where | modelled in |
|---|---|---|---|---|
| request billing | `users.quota`, `users.used_quota`, `tokens.remain_quota`, `tokens.status`; batch stores in memory | TokenAuth, reserve, retry, settle, return, batch update | `middleware/auth.go`, `controller/relay.go`, `relay/relay-text.go` and its sisters, `service/quota.go`, `model/utils.go` | QuotaLedger |
| realtime, images, audio | as request billing; three goroutines' usages | reserve, pay per answer; check, then pay | `relay/websocket.go`, `relay/relay-image.go`, `relay/channel/openai/relay-openai.go` | Realtime, QuotaLedger |
| redemption codes | `redemptions`, `redemption_logs`, a Redis key per code | redeem, rebate, and the administrator's edit, disable, delete, purge | `model/redemption.go`, `controller/redemption.go` | Redemption |
| online top-up | `top_ups`, a mutex per order in memory | RequestEpay, EpayNotify | `controller/topup.go`, `model/topup.go` | TopUp |
| Midjourney tasks | `midjourneys`; the poller's copy of unfinished rows | submit, swap face, poll, notify | `relay/relay-mj.go`, `controller/midjourney.go` | MjTasks |
| Suno tasks | `tasks`; the poller's copy | submit with retries, poll | `relay/relay_task.go`, `controller/task.go`, `model/task.go` | SunoTasks |
| user rows, token administration | `users`, `tokens` | check-in, affiliate transfer, edit, promote, delete, invite | `model/user.go`, `controller/user.go`, `controller/token.go` | Accounts |
| Redis caches | hashes of users and tokens with a time to live | fill, increment, set a field, invalidate | `model/*_cache.go`, `common/redis.go` | Accounts |
| channels, distributor | `channels`, `abilities`, two maps in memory, the prefix cache, a lock, a flag | select, disable, enable, test all, balances, tags, sync | `model/channel.go`, `model/ability.go`, `model/cache.go`, `middleware/distributor.go`, `controller/channel*.go` | Channels |
| authentication | sessions, external identities in `users`, mailed codes, `setups` | login, register, OAuth callbacks and bindings, codes, set-up | `controller/*.go` of the providers, `common/verification.go`, `controller/setup.go` | Identity |
| rate limits, notification limits | queues of times and counters, in memory or Redis | request, expire; notify | `common/rate-limit.go`, `middleware/*rate-limit.go`, `service/notify-limit.go` | Limits |
| streams and adaptors' answers | a scanner, a handler, channels between them; the chunks sent and the usage | scan, convert, hold back, count, end, time out | `relay/helper`, `relay/channel/*`, `service/convert.go` | Streams |
| adaptors' requests, prices, options, logs, pages | none, or configuration | conversions, arithmetic, I/O | `relay/channel`, `setting`, `web` | not modelled |

How they meet:

- A relayed request passes the rate limits and TokenAuth, is given a channel by the
  distributor, and enters the retry loop of `controller.Relay`. Each turn of the loop
  reserves quota (`preConsumeQuota`), asks the upstream, and either settles
  (`postConsumeQuota`) what the adaptor's handler has counted, or hands the return of the
  reservation to a goroutine pool (`returnPreConsumedQuota`), which runs beside the next turn.
  An error may disable the channel, and the next turn asks the distributor again.
- Every change of quota by requests, refunds and orders is an SQL increment, directly or
  through the batch stores (`BATCH_UPDATE_ENABLED`). Check-in, affiliate transfers and edits
  of users and tokens write whole rows instead.
- Tasks are recorded by the submitting request and finished by one polling goroutine
  per kind, started by the master node; Midjourney upstreams may also call back.
- The payment provider repeats its notification until it hears "success".

What is hard, and what makes each part correct:

| component | hard because | correct when |
|---|---|---|
| request billing | checks and decrements are separate statements; the refund of one attempt races the next; any statement may fail; batched deltas are in three places | what users lose is what they used; users and tokens lose the same; one answer is paid per request; every reservation ends |
| realtime, images | readers of both sides and the handler share three usages without a lock; a charge may fail in the middle of a session | what is passed on was charged, the books close, no goroutine stays behind |
| redemption | read, decide, write over four statements, kept apart by a Redis key that lives ten seconds; crashes leave the key | once per user, `max_uses` users at most, `used_count` and the log exact, no code blocked for good |
| top-up | repeated and concurrent notifications; mutexes created on demand; a crash between marking and paying | one credit per order, nothing credited that is not marked, handlers end |
| Midjourney, Suno | the poller decides on rows read before a network call; save and refund are two statements; one goroutine for all | a failure is paid back once, a finished task stays finished, known tasks end |
| users and tokens | whole rows are written that were read earlier; Redis is filled by goroutines | rows are as ordered and paid, the super administrator stands, Redis lets in whom the tables let in |
| channels | requests, tests, balances, the administrator and the sync write two tables and three caches | both tables agree, what an administrator disabled stays so, the caches follow the table |
| authentication | look, then write, over several queries, and often the whole of a row read earlier; deleted rows count for some checks | one account per identity, one root, a reset link works once |
| limits | lists read before and written after a request, their expiry set in a command of its own; counters without a lock | no more pass than the limit and those under way at once allow |
| streams | a scanner, a timeout and a handler; the last line is treated apart; every upstream counts differently | the marks in what is sent are in order, delivered text is billed, everything ends |

The hazards, each at its line and with the properties that watch it, are the list
"hazards" of `PROJECT.json`.

## Plan

In order of importance; all of it is written.

1. `QuotaLedger` over the abstract `QuotaAccount`: request billing.
2. `Redemption`. 3. `TopUp`. 4. `MjTasks`. 5. `SunoTasks`.
6. `Channels`: tables, caches, automatic disabling, tests, the distributor's choice.
7. `Accounts`: whole-row writes beside increments, and the Redis hashes over the rows.
8. `Identity`: callbacks, bindings, codes, registration and set-up.
9. `Limits`: all limiters in both stores, against recorded histories.
10. `Streams`: the scanner and every adaptor's answer, to the chunk and the token.
11. `Realtime`: sessions and images, the requests that pay beside a reservation.

The theorems follow the same order, and all of them are proved.

## The modules

State and actions carry the source's names; `PROJECT.json` "map" gives the lines of
every definition.

**QuotaAccount** is what billing promises, with no code in it: accounts with funds, and
claims that are open, then held, then closed. `Hold` takes the amount, `Settle` closes
the claim at its price and moves only the difference, `Release` gives the whole back.
`Conserved` is its invariant.

**QuotaLedger** is the code. A process is one *attempt* (a request and a turn of the retry loop),
so the goroutine that returns a reservation is simply the rest of its attempt. `balance` is the
database, `store` and `taken` are `batchUpdateStores` and the store being applied. Actions follow
the statements: `TokenAuth`, `MarkExhausted`; `CheckUserQuota`, `CheckTokenQuota`,
`DecreaseToken`, `DecreaseUser` (preConsumeQuota, with the trusted case of a hundredfold quota);
`UpstreamAnswers`, `UpstreamError`, `ClaudeLocalError`; `UpdateUsedQuota`, `SettleUser`,
`SettleToken`; `RefundUser`, `RefundToken`; `TakeStore`, `ApplyTaken`. Every SQL statement may
fail (`MaxFaults` bounds how many do; `lost` is what a failed batch update dropped). `ReturnError`
is the end of a handler and `shouldRetry` together. The handlers for chat, Claude, embeddings,
rerank, responses and audio differ for billing only in `ClaudeLocalError`. `UserAccounts` and
`TokenAccounts` are the refinement mappings to `QuotaAccount`.

**Redemption**: `Redeem` as `AcquireLock` (SetNX), `ReadCode`, `CountUses`, `Commit` (the
transaction's writes take effect together), `PayRebate` (after the commit) and
`ReleaseLock`, which deletes whatever key is there, as the code does. `LockExpires` is
Redis; while its holder still works it counts as *outlived* (`MaxOutlived`).
`Crash` ends a request anywhere. The administrator's `OpenCode`/`SaveCode`
(UpdateRedemption reads, then writes), `DisableCodes`, `DeleteCodes`, `PurgeCodes` run
beside it. The inviter every user is given makes the rebate observable. A behaviour is
about one of `Waves`, the sets of requests that come together; an edit of a normal code is
left out (`Editable`; see the hazard at `model/redemption.go:226`).

**TopUp**: `EpayNotify` as `Receive`, the double-checked `LoadLock`/`CreateLock` under
`createLock`, `LockOrder` (which waits for the order's mutex while it still holds
`createLock`), `ReadOrder`, `UpdateOrder`, `CreditUser`, `PayInviter`, `UnlockOrder`. Servers
(`Nodes`) have their own locks and share the tables; `CrashNode` stops one.

**MjTasks**: a task is submitted (`Submit` chooses the upstream's answer code, `Insert`,
then the deferred `Charge`), and the poller is a record with the rows it read
(`memory`), the tasks not asked about yet and the items not applied. `SaveItem` writes
the whole row from memory, as gorm's Save does, and `Refund` follows. `Panic` is the nil map
entry for an item nobody asked about. `Notify` is RelayMidjourneyNotify.

**SunoTasks** likewise, but a task is one attempt of `RelayTask`'s retry loop, and
`PayItem` comes *before* `SaveItem`, which is the order of `updateSunoTaskAll`; `err`
of that function is shared by the items of an answer, and so it is in the model. Of both
pollers it is assumed that an upstream lists no task twice in one answer: the loops over the
items (`controller/midjourney.go:119`, `controller/task.go:143`) would take the second item for news of
a task that the first may have finished and paid back.

**Realtime**: one behaviour is one session or one image. `Check`, `TakeToken`, `TakeUser`
are the reservation, `Dial` the retry loop, `ReturnUser`/`ReturnToken` the goroutine that gives a
reservation back. `ClientRead`/`ClientAdd` and `TargetDelta`, `TargetDone`, `TargetPaid` are
the two readers over `usage` and `heap` (every localUsage made so far: a reader may still
hold an old one), `preConsumeUsage` is the five steps `ReadSum` to `PayToken`, which the
target's reader and the handler (`Select`, `FlushUsage`, `FlushLocal`, `Post`) both call, and
`errs` is errChan with its room for `ErrSize`. `CheckImage` to `TokenImage` are ImageHelper.

**Channels**: a channel's row, its abilities (one row, since every statement writes all
alike), the copies in memory, the prefix cache, `channelStatusLock`, `testAllChannelsRunning`.
Processes are a request with its retries, the ban it may cause, the tester, the balance
update, the administrator and the sync; each takes a step per statement, lock or answer.
`UpdateChannelStatusById` is shared by the four that call it.

**Accounts**: rows of users and tokens, and the hashes in Redis. A handler reads a row into
`st[p].copy` and writes it back (gorm's `Save` all of it, `Updates` with a struct what is not
zero); charges are increments. Goroutines that follow with Redis are members of `tasks` and may
be late or lost. `due`, `ordered` and `paid` are histories of what the rows should say; a row
that was written while a copy of it was out becomes `suspect`, and one that was written otherwise
than Redis is told, or while something older was on its way there, becomes `stale` until its hash
expires. `Writes` keeps both.

**Identity**: sessions, external identities and one address in the rows of users, mailed codes by
purpose, the set-up. A callback is `GitHubOAuth` and its four sisters, then `Check`, `Fill`,
`Insert`, or for a binding `FillUserById` and `Update`, one query each. A row may be bound anew,
which frees what it held. Whoever changes a row has read it before and writes the copy: `Update`
every column that is not empty in it (a binding, a setting, the administrator), `Save` every one
(a check-in). GenerateAccessToken and GetAffCode do what `UpdateUserSetting` does; inviteUser
(`model/user.go:257`) saves as a check-in does and has no action of its own;
TransferAffQuotaToQuota reads the row again in its transaction. `contested` records what two
requests had checked at once, `restored` what a row got back by being written from an older copy.
Names and roles do not change here, and nobody is erased.

**Limits**: a configuration says which limiter and which store. In memory a `Request` is one step
under the mutex and `ClearExpiredItems` the cleaning goroutine; with Redis each of LLEN, LINDEX,
LPUSH, LTRIM, EXPIRE is a step, so that a list may end between a push and the expiry meant for it,
and a list without an expiry stays. A command is assumed to act in the second that its caller saw,
and not to fail. `passed` is the history.

**Streams**: one behaviour is one answer. `reader` and `waiter` are the scanner's goroutine
and the handler with its timer (`Scanned` providers), a goroutine that hands over on an
unbuffered channel (`Channelled`), or one loop (`Looped`); `HandleData` and `StreamEnd` lead to
what each provider does with a line and at the end. A line is named for what it carries;
chunks written to the client are named likewise, with block numbers in Claude's format.
`billed` is what the handler returns for billing. What is counted of a chat is a set of
positions among its lines (`Counted`), so that counts are cardinalities.

The **MC** modules only name constants. The **Proofs** modules hold the theorems.

Common abstractions: prices and amounts are members of small sets; texts, times other
than those a limit or a deadline is about, and columns nothing is decided on are left
out. Save of gorm v1.25 updates by primary key and inserts when the row is gone.

## The runs

| run | instance | properties | states |
|---|---|---|---|
| `ledger_batch` | 2 requests of one user, batching, one failing statement, fair | `SettledBooks`, `EventuallySettled`, `UsersImplementAccount`, `TokensImplementAccount` | 95,832 |
| `ledger_faults` | ClaudeHelper and another request that contend for a limited token, and the playground; one retry, two failing statements | `SettledFairly`, `SettledTokens`, `ServedOnce` | 771,702 |
| `redeem` | a gift code of 2 uses and 4 requests of 3 users, or a normal code and 3 requests of 2; any one administrator action, one fault, fair | `GiftsHold`, `RebatesFollowGrants`, `CodeOnce`, `CodesUnblocked` | 301,926 |
| `topup_server` | 2 orders, 3 notifications, 2 faults, one server, fair | `CreditedOnce`, `SettledOrders`, `PaidForGood`, `NotificationsEnd` | 7,370 |
| `mj_poll` | 2 tasks on 2 channels, one fault, one notification, one stray item, fair | `RefundedOnce`, `FailuresPaidBack`, `DoneForGood`, `KnownTasksEnd` | 441,506 |
| `suno_poll` | 2 requests of 2 attempts, one fault, one stray item, fair | `ChargedOnce`, `RefundsFollowFaults`, `FailuresPaidBack`, `TasksEnd` | 283,694 |
| `channels` | 2 channels of one tag, or one and an id to be added; with and without the memory cache; any two jobs or failures beside the sync, fair | `AbilitiesAgree`, `OwnersAlive`, `ManualStays`, `CacheFollowsTable` | 210,486 |
| `accounts` | the super administrator, a user with or without a token, an id to be given out; with and without Redis; any two jobs | `RowsAsOrdered`, `RootStands`, `CachesAgree` | 493,401 |
| `identity` | 2 browsers, 5 providers, 4 rows, 2 names, SQLite or not; an empty table, a root user, or a root with the address and a user with two identities, anyone logged in; any three requests or restarts | `OneAccountPerPerson`, `OneRoot`, `ResetOnce` | 2,528,747 |
| `limits` | every limiter in both stores, limits of 2 and 1 (by address also with a window longer than the expiry), two clients, 5 requests, times 0 to 4 | `LimitsHold`, `RefusedAtLimit` | 2,916,420 |
| `streams` | 14 streaming providers, 22 whole answers, 2 pseudo-streams, clients of both formats; 3 or 4 lines, fair | `MarksInOrder`, `DeliveredIsBilled`, `StreamsEnd` | 274,109 |
| `realtime` | 6 sessions (two answers while others spend, a second dial, a failing statement, an unlimited token, a price, a mangled key) and an image, fair | `SessionsPaid`, `SessionsEnd` | 930,202 |

Each property has a mutant of the code's definitions that breaks it in its run
(`PROJECT.json` "mutants"); the mutated operators stand before the ones they
replace and are marked "Mutant".

Why the bounds are enough. *Two requests* of one user reach every interleaving of check and
decrement, and with trusted quota the path without a reservation. *One retry* lets a refund race
the next attempt, and further turns of the loop repeat the same steps; `ledger_batch` has no retry
and no request of ClaudeHelper's, which are `ledger_faults`' matter, and that one has no batching.
*Prices* {0, 2, 3} lie below, at and above the reservation 2. *One fault* is a failure at every
statement in turn; the bounds in the properties are linear in `faults`, and `ledger_faults`,
`topup_server` and the proofs take more. *Two tasks* suffice because tasks meet only in the
poller's answer, where one item's outcome may affect the next; two channels make one poll ask
twice. A gift code of two uses and three users has a last use to contend for, and one user tries
twice. The administrator's single action may fall between any two steps. *Two jobs* (`channels`,
`accounts`) meet in every order of their statements, beside the sync or the goroutines of Redis,
which cost nothing; a job of the administrator may be half done when the other begins and ends.
*Three requests* (`identity`) are a code sent, a use of it and one in between, or two callbacks
around a deletion, or a binding of a session that was there from the start and two other writes of
its row. A *limit of two* has room, one place and none left; ticks suffice for a window to pass
and another to begin, and for the store to forget. *Three lines* hold every pair of kinds and a
last line after them; four are used where blocks and tags follow each other (OpenAI's format for
both clients). A session's *two answers* are one that is charged while the next is counted.

Deadlock is not checked: every instance may come to its end, or its poller waits.

## Fairness

- `QuotaLedger`: each attempt runs on. A goroutine is never descheduled for good, and an
  upstream ends in an answer or an error; with the default `RELAY_TIMEOUT` of 0 that is an
  assumption on the upstream or the client. The batch updater's loop
  (`InitBatchUpdater`) never ends, and an error in it is only logged.
- `Redemption`: a request that holds or wants the key runs on unless it crashes, and
  Redis expires a key (`SetNX` with ten seconds).
- `TopUp`: a handler that can lock does so in the end: Go's mutex hands over to a waiter
  of more than a millisecond (starvation mode), which is strong fairness of `LockOrder`
  and of `CreateLock`, whose guard is that nobody holds `createLock`.
- `Channels`: the sync's loop has no end but a panic, which `up` records, and the prefix
  cache's hour passes. Nothing is asked of the others, who may stop anywhere.
- `Streams`: the goroutines run and the timer of a scanned stream fires; an upstream owes
  neither a line nor an end, but a body the handler has closed ends.
- `Realtime`: every goroutine runs on, and reading from a connection that was closed fails;
  client and upstream owe nothing.
- `Accounts`, `Identity` and `Limits` state safety only.
- `MjTasks`, `SunoTasks`: the polling goroutine, started in `main.go:114-121`, runs on, and an
  upstream asked again and again answers in full at some time (strong fairness of
  `Answer`); for Suno a job also ends. Nothing in the code bounds a Suno job, so without
  that its task would be polled for ever. A Midjourney task has its hour instead.
  A stray item ends the goroutine for good, and the properties end with it.

## The proofs

`tlapm` checks every theorem for all values of the constants allowed by the modules' named
assumptions; the only others are those in the statements, given below. Every property that the
runs check and that is not about liveness is stated by a theorem. Each proof has the same shape:
an invariant, that TLC checked first, holds at the start, every action keeps it, and it implies
the property.

**QuotaLedgerProofs.** `TypeCorrect`: `TypeOK`, with any faults and batching or not.
`RequestServedOnce`: `ServedOnce` is inductive with the types: an attempt leaves
"idle" only when its predecessor has moved to a failed or refunding stage, and no step
leaves these for another.

`UsersRefineAccount`, `TokensRefineAccount`: each action maps to one `Hold`, `Settle` or `Release`
of `QuotaAccount` or to a stutter, because `Funds` adds the row, the store, what the updater has
taken and what it has dropped; `TakeStore` and `ApplyTaken` only move quota between them. They
assume that no statement fails, or that the batch updater is on (then every write that fails is
one of the updater's, and goes to `lost`), and `ClaudeRequests = {}`: a failed statement beside
the request, or a reservation that is kept, closes a claim whose amount is not given back. The
tokens also need to know that a request of the playground is never at a step of its token
(`Billed`). `UsersAreConserved`: hence, at every moment, a user is short of exactly what the
attempts have reserved or were charged.

`BooksSettleFairly`, `BooksSettle`, `TokensSettle`: any faults, with batching or not; `BooksSettle`
alone without ClaudeHelper's requests. Requests, prices and tokens are finite and there is a
request. "Settled" is reached by a run that may be half way through many attempts, so the
invariants give each attempt, by its stage, what it has taken and neither returned nor recorded
yet (`Due`; with what ClaudeHelper has kept, `Kept`), and how far its token's charges are ahead of
its user's (`TokenDue`), and say that user, recorded use and tokens differ by the sums of these up
to `MaxDisplaced` for every failed statement. That the model's `MapThenSumSet` is the sum one expects
(it changes with one summand, it is zero of zeros, it respects bounds) follows from the
well-founded order of the finite sets in the library.

**PaymentsProofs**, of `Redemption` for `MaxOutlived = 0`. `GrantedOncePerUser`, `GrantedWithinUses`,
`UsesAreRecorded`, and `GiftsAlwaysHold` with all three: the invariant says that a request between
`AcquireLock` and `ReleaseLock` owns its code's key, hence that it is alone, hence that what it
read of the row and the log is still true when it commits. Administrator actions write the row
without the key; the invariant therefore says of a gift code only what they preserve.
`RebatesAreOwedOnce`: what is paid to inviters lags behind the grants by the one rebate that the
request inside has still to pay. `UneditedCodesPayOnce`: a normal code that has paid is used, and
a request that is about to pay from one is the first. A code that an administrator saves is
excepted, since one opened while it was enabled is enabled again (`model/redemption.go:226`);
`NormalCodesPayOnce` is `CodeOnce` where only gift codes are edited, as in the run.

And of `TopUp`, when all notifications of an order reach one server (its variables and
actions have names of their own, so that one module can speak of both). `OrdersCreditedOnce`,
`PaidOrdersStay`: a handler between lock and unlock holds the one mutex the map has for its
order, an order that was credited is not "pending", and only a pending order that was read
under the mutex is credited. `OrdersSettle`: without faults a successful order was credited or
a handler is about to credit it, and the rebate lags behind by one handler likewise.

**MjTasksProofs**, before the first notification. `TasksPaidBackOnce`, `PaidBackAreFailures`: a
task was paid back, or is about to be, only when its row is a finished failure; what the poller
still has waiting, to ask about or to apply, was not paid back, although its memory may be
old; and a task is inserted once, so no row of a finished task comes back.
`FailuresArePaidBack`: without faults a recorded failure was paid back or its refund is due.
`DoneStaysDone` is the same argument read as a step: what the poller writes is of a task it has
in hand, and those are open.

**SunoTasksProofs.** `RequestsChargedOnce`, `ChargesAreRecorded`, `RefundsBounded`, without
any assumption, faults included. A request has one row at most, from its last
attempt, since only a failed insert is retried. A task that was paid back is finished,
or its save is still to come, or a fault has happened for it: each refund beyond
the first uses up a fault. `FailuresArePaidBack`: without faults `err` is never set, so that every
item that fails is paid back before it is saved.

**ChannelsProofs**, with no assumption. `OwnersAliveAlways`: the invariant tells the processes
apart by where they are, and by nothing else. With the memory cache an update past the lock is
the one the lock names, and an update anywhere else is not; the flag of the tests is set only
while the tester is on its way, or after it has given up (`stuck`). One lemma says what a walk
outside of the lock keeps, and each of the five jobs is shown to walk, to take or to return.
`TypesHold`: `TypeOK` with what each process has in hand at each place. `ManualStaysAlways`: a test
or a balance update changes the status only of a channel it has seen enabled or automatically
disabled, and a settled channel is none of those. `AbilitiesAgreeAlways`:
a channel that no job is at has both rows alike; for one that is being written the invariant
says which half is done (`Half`), by where its one job stands, and a second job makes it suspect.

**AccountsProofs.** `RootStandsAlways`: a guard against touching the super administrator is worth
nothing to a handler that writes back a copy it has read earlier, so the invariant says of every
copy of that row that is out, where it will be saved or updated from, that it is still the super
administrator's, and that nobody is about to delete it. `RowsStayAsOrdered`: the invariant says
what every process relies on of the row or the token it has a copy of, as long as that is not
suspect: who saves a whole row has it as it is, but for the transfers and the one check-in that
were saved meanwhile from equal copies (`Same`, `PaidOn`); who updates only what is not zero has
in every column that is not ordered what the row has (`Untouched`); who removes a row from Redis
has deleted it. `CachesAgreeAlways`: what Redis says when nothing is on its way is what arrived
last, so the invariant `Heard` says of everything on its way, of a user or token that is not
stale, that it agrees with the row (`Agreed`): each fill that waits, the copy that an Update has
read and the one it is about to send. A writer that changes who is let in finds nothing older on
its way, or else the key is stale; and it will be heard itself, so that a hash that disagrees
meanwhile is not the last word (`Turns`). Of a key that was stale nothing old is left when its
hash expires, or it stays stale. The tables start as `AccountsAssumption` says: with a super
administrator, and with no check-in of a row that does not exist.

**EdgeProofs**, of `Identity`. `OneRootAlways`, `ResetOnceAlways`, `OneAccountAlways`: as long as
nothing was contested, one request at most has checked and not yet acted, and what it has found is
still true; a copy that is written over a row it no longer agrees with gives that row an identity
that was not checked for, which is then noted as restored, so that an identity that is neither has
the holders it was bound to. A mailed code has the number of the mail, so that none comes back;
one that has changed a password is not in the map any more, or whoever used it is about to delete
it. Of a person the invariant counts the rows that the provider's check counts, deleted ones too
except for OIDC.

And of `Streams`, for every adaptor, either format, any number of lines in any order and any
moment at which upstream or client goes; of the requests it is assumed only that each comes from a
relay that answers in that way (`RequestsAssumption`). `AnswersAreMarked`, `DeliveriesAreBilled`:
neither property is inductive, since it speaks of the chunks alone, and what is written next
depends on the handler's locals. The invariant, `StreamsInv`, ties the two together. `InOrder`:
the flags of `sendStreamData` say which tags have been sent, and a text may follow an opened tag
only with the closing one between (`TagsKept`); the kind and number in Claude's conversion say
which block is open, and a conversion that has ended writes no more deltas (`BlocksKept`). `Over`:
nobody writes [DONE] before the end, and whoever ends a goroutine of his own has it last.
`ChatCounted` makes up for the line that is held back: texts written, with that of the held line,
are no more than the texts among the lines noted, and these no more than what was generated;
`TextCounted` says the same of the handlers that count text, `UseCovers` that a usage that was
reported covers all that was generated. From the first it follows at the end that what is counted
covers what is written, whether the last line is sent, swallowed as a usage, or converted.
`Machinery` is what the others need of who waits for whom: a reader that is done reads no more,
and a handler that did not come back early has its reader's last line. The lemmas have three
layers: what each of the line handlers does (`Writes`, `Steps`, `Keeps`), put together per
upstream in `LineHas`; what each end does (`IsEnding`); and per action that the parts of the
invariant move accordingly. The proof had a say in the model: it could not choose between two
overlapping arms of `SendStreamData`, which the model had decided in an order of its own; the arms
now exclude each other as the code's early returns do.

**RelayProofs**, of `Limits`. `LimitsAreKept`: for every limiter, any number of clients, any
limits, clock and history of requests, with no assumption but that the store keeps a key for the
window (the premise of `LimitsHold`). The queue and the history of what passed are compared from
their ends: the *j*th entry from the end of the queue is no earlier than the *j*th of what passed
recently (`Covers`), so that a full queue whose oldest entry has left the window proves that the
requests that passed long enough ago have left it too (`Spaced`, `RecentAtMost`). In memory the
two are the same lists, cut at one end. With Redis a request stands at up to four places between
the LLEN that let it through and the LPUSH that records it, and the invariant charges each of them
to the slack of `Most`, which is one per other client. A list that ends between a push and its
EXPIRE takes the records of the clients that are between the two; so the queue covers only a last
part of the history, what has passed `Since` the list began, and what passed before it, as far as
it is recent, is one request of each client at most (`Lost`). That is the other slack of `Most`;
and while any of it is recent nothing on the list is old, so that no request passes on the
strength of an old entry, and the two never add up to more. `Keeps` puts this together with the
expiry: when it comes, all that has passed is old but for the clients that have yet to set it.
Then no window holds more than `Most` (`SpacedWindow`, a bijection between a window's requests and
their positions). `RefusedOnlyAtLimit`: a count, stored or loaded, is of notifications that were
sent, unless as many as the limit were: an increment may be lost, but none is made up.

And of `Realtime`: `SessionsArePaid`, for any requests (reservation, price, quotas, retries, length of
the session, other requests of the user and failing statements). Its invariant, `SessionInv`, says of
every moment what `SessionsPaid` says only of the end. `Standing`: who bills, at which stage,
and what is reserved; the reader of the target waits for its own charge. `AnswerKept`: the answer in
hand is in what is being charged until it is in what was; it needs no more, so that half of the
property survives faults and races. `BooksKept`: without faults what the user has lost is what the
session holds (`Held`), what is on its way back (`Back`), and what was charged; the token's loss is
the same but for the charges that have taken from the user only (`Unpaid`). `Apart`: without a race
one charge is under way at a time and it is of what `usage` or the last localUsage holds now. From this
`CountedKept`: what was charged, with what is still to be charged (`Leftover`, by the stage and the
two bills), was counted, or is the one unit that nothing costs; and `SumKept`, the same of
`sumUsage`, which becomes `used`. Each action is first shown to do to the histories and to the bills
what it does (the `Effect` lemmas), then to keep each part.

Only model-checked: everything about liveness and ENABLED, which are out of the prover's reach
(`EventuallySettled`, `CodesUnblocked`, `NotificationsEnd`, `KnownTasksEnd`, `TasksEnd`,
`CacheFollowsTable`, `StreamsEnd`, `SessionsEnd`).

## Where the code differs from what it says

All runs pass: what the code does against its own words, or surely not on purpose, was seen while
modelling and is excepted by the properties or kept out by the bounds, in each case as
described here.

Quota and orders:

- ClaudeHelper returns local errors without setting the variable its deferred refund tests
  (`relay/claude_handler.go:73`), so the reservation is lost, and lost again with every retry
  (`ledger_faults` bounds that loss; with `ClaudeRequests` not empty `SettledBooks` fails).
- A token is marked exhausted when its quota is only reserved, and stays so when the
  reservation returns (`model/token.go:105` says "we can make sure the token is exhausted").
- A Redeem slower than the ten seconds of its key lets the same user in again (with
  `MaxOutlived = 1` `GiftsHold` fails); the row lock it asks for is gorm v1's option, without
  effect in v2.
- A disabled gift code is still granted: the gift branch never looks at the status
  (`model/redemption.go:190`), and the row saved afterwards carries the status read before.
- Two servers credit one order twice: `orderLocks` is one process's (`controller/topup.go:154`;
  excluded by giving all notifications to one node).

Tasks:

- Midjourney notifications (the properties end with the first): a failure that is
  notified is never paid back, and a late one reopens a failed task, which is then paid back
  twice (`relay/relay-mj.go:93`).
- A Midjourney task that cost nothing is paid back when it fails (`relay/relay-mj.go:544`).
- The hour of a Midjourney task is checked only for tasks the upstream lists
  (`controller/midjourney.go:121`), so one refused with an id stays open for ever.
- An item the poller did not ask for is a nil pointer and ends the polling goroutine
  (`controller/midjourney.go:121`, `controller/task.go:144`).
- A Suno failure whose row cannot be saved is paid back again by the next poll
  (`controller/task.go:162`), and that failed save makes the next failed item lose its refund,
  because the refund is skipped on the shared `err` (`controller/task.go:157`).

Sessions and images (`Realtime`):

- A session's reservation is neither settled nor returned when it succeeds, although
  `service/quota.go:175-178` says that it may have to be: a user who is not trusted pays it beside
  all charges, and one who is trusted pays nothing for a model with a price, since
  `PreWssConsumeQuota` returns at once. `SessionsPaid` does not call that right: of a session it
  says that user and token lose the charges and at most the reservation, which a code that
  returned it would satisfy too.
- The handler's last charge races with the target's reader, so an answer may be charged twice,
  or charged and not recorded; the readers' additions to localUsage overwrite one another
  (`seen.raced`). After a refused charge sumUsage counts the same tokens twice, so
  `used_quota` exceeds what was paid (`seen.failed`).
- `strings.TrimLeft(TokenKey, "sk-")` strips any leading s, k and -, so every charge of a key that
  begins with one of them fails (`service/quota.go:86`).
- An image is judged against the user's quota only; an error of GetUserQuota is ignored where the
  price is 0; without a price the check is on a price computed from the ratio and the bill
  on the number of images as tokens.

Rows and caches (`Accounts`, `Channels`, `Identity`):

- A row of a user or token that two handlers have in hand, or that a request is charged on
  while a form is open, loses one of the changes (`suspect`).
- A row that is written back undoes what others changed in it since it was read: a binding, a
  setting or the administrator's edit writes every column that is not empty
  (`model/user.go:384-386`), a check-in, a transfer and inviteUser all of them
  (`model/user.go:895-944`). An account can so get back an identity that it has given up and that
  another account has bound meanwhile, and a deleted user can be inserted again with the
  identities that somebody else has registered with: two accounts for one person, and no two
  callbacks were at it at once (`restored`).
- ManageUser's "delete" removes the user's hash from Redis and then goes on to Update
  (`controller/user.go:854`, `:895`), which finds no row to write and sends the deleted user's
  copy to Redis: the user is let in until the hash expires. Token.Update likewise sends the copy
  of a token that was deleted meanwhile (`model/token.go:178-187`). HardDelete and the whole-row
  Saves tell Redis nothing, a word that is lost is not repeated, and a reader's fill
  (`model/user_cache.go:83`) that is slow may arrive after the news of a change (`stale`).
- `testAllChannels` keeps `testAllChannelsRunning` for good after an error
  (`controller/channel-test.go:262`; `stuck`).
- A batch that sets a channel's tag leaves its abilities the old one, and a later edit by tag
  passes them over.
- Two callbacks, or two set-ups, that have both checked make two accounts, or two roots
  (`contested`); a reset link opened twice at once changes the password twice.
- EmailBind binds an address without looking whether a user has it, because "we have used
  verification code to check it" (`controller/user.go:938`): but a code sent before the address
  was registered still verifies afterwards, since nothing consumes it.

Limits:

- In memory a limit of 0 lets one request pass in a window, in Redis it means none. The second
  key of the limiter by user counts failures as well; that by token counts a success twice.
- A request over the user's total in Redis is refused and yet goes on and is recorded
  (`middleware/model-rate-limit.go:91`). By address the list is trimmed late, and what is in it
  beyond the limit lets as many pass again. A window longer than the expiry is forgotten.
- EXPIRE is a command of its own after LPUSH and LTRIM (`middleware/rate-limit.go:32-33`,
  `:59-61`, `model-rate-limit.go:69-71`, `token-rate-limit.go:53-55`), so a list whose old expiry
  ends between them takes the requests just recorded with it: with the requests that pass
  together, a window may hold up to `2 * Crowd - 1` more than the limit.

Streams:

- What a Claude client of an upstream in OpenAI's format is sent it cannot always read, and
  `MarksInOrder` does not claim that it can. The last line may go out as it came, a chunk in
  OpenAI's format (`relay-openai.go:172`); the first line's content is spent on `message_start`,
  of which a short stream sends two and a stream that begins otherwise none; `message_stop` is
  missing when the last line has the finish reason or only a usage; a tool's block is opened while
  another is open, and an end is sent of a block that was never opened
  (`service/convert.go:294-304`). What the code does keep is checked: every delta is in the block
  opened last, blocks only move on, and nothing comes behind `message_stop`.
- OpenaiHandler bills nothing for an answer of tools only, or embeddings, that has no usage; a
  chat line that does not parse ends the count; Gemini, Baidu, Zhipu and Xunfei streams that are cut
  before their usage bill the prompt at most, a Claude client's what `message_start` said
  (`Counting` and `Knows` in `DeliveredIsBilled`).
- After a timeout the scanner's dataHandler may write behind `[DONE]` and count into a usage
  that is being billed. An opened `<think>` stays open if no content follows.
- Dify swaps CountTextToken's arguments; awsHandler drops an error of the body; xAIHandler
  returns nothing for a body it cannot read; a client that goes leaves the sender of an
  unbuffered channel waiting for good.

## What is not modelled

- Prices: floating-point ratios, chosen from a set instead. The truncation of order amounts.
- Conversions of requests, options, dashboards, logs, pages, and how a notification is sent.
- Redis as a cache of quota beside the ledger: `QuotaLedger` reads rows, `Accounts` has the
  hashes with charges of one unit.
- The process dying with deltas in the batch stores: they are lost, and the code promises
  nothing else.
- Two pollers at once: `docker-compose.yml:20` asks for `NODE_TYPE=slave` on all servers
  but one. The limit of 500 tasks per poll (`controller/task.go:29`), which that many tasks
  without an end would exhaust.
- Midjourney: two rows with one id (answer code 21), quota 0, image forwarding. Suno: several
  channels.
- Channels: weights, keys and columns other than status and tag; the fetching of model lists.
- Streams: pings and the heartbeat of a pseudo-stream, the rerank handler of common_handler, the
  embeddings of Ollama, what texts and images say. Authentication: Turnstile, Telegram's
  signature, the exchange with a provider.
