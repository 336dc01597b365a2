------------------------------- MODULE Limits -------------------------------
(* The rate limits of a Veloera server: by address (middleware/rate-limit.go), *)
(* by user and model request (model-rate-limit.go), by token                   *)
(* (token-rate-limit.go), in memory (common/rate-limit.go) or in Redis; and    *)
(* the limit on notifications (service/notify-limit.go).                       *)
(*                                                                             *)
(* Requests of one key are made by several clients at once.  The in-memory     *)
(* limiter has a mutex; with Redis, every command is a step of its own, and a  *)
(* notification in memory loads and stores without a lock.                     *)
(*                                                                             *)
(* Names that other modules have too carry this one's, so that one module can  *)
(* hold the proofs about it and about another.                                 *)
EXTENDS Naturals, Sequences, FiniteSets

CONSTANTS Clients,        \* requests that may be under way at once
          Configs,        \* limits that may be configured: see Config below
          Expiry,         \* RateLimitKeyExpirationDuration, in ticks
          MaxTime,        \* ticks of the clock
          MaxRequests     \* requests and notifications

(* A limiter: what it limits, where it counts, the limits on requests (or      *)
(* notifications) and on successes (0: none), and the window, in ticks.        *)
Config == [of : {"address", "user", "token", "note"}, redis : BOOLEAN, total : Nat, success : Nat,
           period : Nat \ {0}]

ASSUME LimitsAssumption ==
  /\ IsFiniteSet(Clients) /\ Clients # {}
  /\ Configs \subseteq Config
  /\ Expiry \in Nat \ {0}
  /\ MaxTime \in Nat /\ MaxRequests \in Nat

VARIABLES conf,       \* the limiter, as configured at the start
          now,        \* the clock
          list,       \* the times kept under each key, oldest first
          there,      \* keys that exist, in memory
          ttl,        \* when Redis will drop a key (0: never)
          st,         \* where each client's request is
          notes,      \* the count of notifications of the hour
          requests,   \* requests and notifications so far
          passed,     \* history: when each key let a request pass
          notified    \* history: notifications sent in the hour

limitsVars == <<conf, now, list, there, ttl, st, notes, requests, passed, notified>>

Keys == {"total", "check", "success"}
Ticks == 0..MaxTime
Idle == [pc |-> "idle", seen |-> 0]

LimitsInit ==
  /\ conf \in Configs
  /\ now = 0
  /\ list = [k \in Keys |-> <<>>]
  /\ there = {}
  /\ ttl = [k \in Keys |-> 0]
  /\ st = [c \in Clients |-> Idle]
  /\ notes = 0
  /\ requests = 0
  /\ passed = [k \in Keys |-> <<>>]
  /\ notified = 0

-----------------------------------------------------------------------------
(* What the actions are made of.                                               *)

IsAt(c, pc) == st[c].pc = pc
MoveTo(c, pc) == st' = [st EXCEPT ![c].pc = pc]
Count(key) == passed' = [passed EXCEPT ![key] = Append(@, now)]
Job(c) == IsAt(c, "idle") /\ requests < MaxRequests /\ requests' = requests + 1
Notifying == <<notes, notified>>
Stored == <<list, there, ttl>>

Maximum(key) == IF key = "total" THEN conf.total ELSE conf.success

(* By address there is one limit, on requests.  Redis drops what nobody has    *)
(* touched for the expiry; by user, for the window.                            *)
AfterTotal == IF conf.of = "address" THEN "idle" ELSE "success"
Life == IF conf.of = "user" THEN conf.period ELSE Expiry

-----------------------------------------------------------------------------
(* InMemoryRateLimiter: a key that is not there is made, and lets its first    *)
(* request pass whatever the limit.                                            *)

Passes(key, max) == \/ key \notin there
                    \/ Len(list[key]) < max
                    \/ now - Head(list[key]) >= conf.period

(* Mutant: the oldest request is not forgotten when a new one replaces it.     *)
KeepOldest(key, max) ==
  IF key \notin there THEN <<now>>
  ELSE IF Len(list[key]) < max THEN Append(list[key], now)
  ELSE SubSeq(list[key], 1, Len(list[key]) - 1) \o <<now>>

Queued(key, max) ==
  IF key \notin there THEN <<now>>
  ELSE IF Len(list[key]) < max THEN Append(list[key], now)
  ELSE Append(Tail(list[key]), now)

(* Request, under the mutex: whether it passes is the caller's next step.      *)
Request(key, ok, c, yes, no) ==
  LET max == Maximum(key) IN
  /\ ok = Passes(key, max)
  /\ IF ok THEN /\ list' = [list EXCEPT ![key] = Queued(key, max)]
                /\ there' = there \cup {key}
                /\ Count(key)
           ELSE UNCHANGED <<list, there, passed>>
  /\ MoveTo(c, IF ok THEN yes ELSE no)
  /\ UNCHANGED ttl

(* clearExpiredItems: what nobody has used for longer than the expiry goes.    *)
ClearExpiredItems ==
  LET old == {k \in there : now - list[k][Len(list[k])] > Expiry} IN
  /\ ~conf.redis /\ old # {}
  /\ there' = there \ old
  /\ list' = [k \in Keys |-> IF k \in old THEN <<>> ELSE list[k]]
  /\ UNCHANGED <<conf, now, ttl, st, requests, passed, Notifying>>

(* The limiters by address, user and token start alike; those by user and by   *)
(* token have no limit on requests where it is 0.                              *)
MemoryTotal(c) ==
  /\ Job(c) /\ conf.of # "note" /\ ~conf.redis
  /\ IF conf.total = 0 /\ conf.of # "address"
     THEN MoveTo(c, AfterTotal) /\ UNCHANGED <<Stored, passed>>
     ELSE \E ok \in BOOLEAN : Request("total", ok, c, AfterTotal, "idle")
  /\ UNCHANGED <<conf, now, Notifying>>

(* The limit on successes: by user a second key stands in for the check, by    *)
(* token the key itself, which then counts a success twice.                    *)
CheckKey == IF conf.of = "user" THEN "check" ELSE "success"

MemorySuccess(c) ==
  /\ IsAt(c, "success") /\ ~conf.redis
  /\ \E ok \in BOOLEAN : Request(CheckKey, ok, c, "serve", "idle")
  /\ UNCHANGED <<conf, now, requests, Notifying>>

(* The request is served, for as long as it takes, and may fail.               *)
Fail(c) ==
  /\ IsAt(c, "serve")
  /\ MoveTo(c, "idle")
  /\ UNCHANGED <<conf, now, Stored, requests, passed, Notifying>>

(* A success is recorded; what Request says then is not looked at.             *)
MemoryRecord(c) ==
  /\ IsAt(c, "serve") /\ ~conf.redis
  /\ \E ok \in BOOLEAN : Request("success", ok, c, "idle", "idle")
  /\ UNCHANGED <<conf, now, requests, Notifying>>

-----------------------------------------------------------------------------
(* With Redis: the length, the oldest, the push, the trim and the expiry are   *)
(* commands of their own, which do not fail and act in the second whose time   *)
(* they are given.  Only where there is a limit, for users and tokens.         *)

CheckRedisRateLimit(c, key, yes, no, look) ==
  IF Maximum(key) = 0 /\ conf.of # "address" THEN MoveTo(c, yes)
  ELSE IF Len(list[key]) < Maximum(key) THEN MoveTo(c, yes)
  ELSE MoveTo(c, look)

(* A list that expired between the two commands has no oldest, which is an     *)
(* error.                                                                      *)
Oldest(c, key, yes, no) ==
  MoveTo(c, IF list[key] = <<>> THEN "idle"
            ELSE IF now - Head(list[key]) < conf.period THEN no ELSE yes)

RedisTotal(c) ==
  /\ Job(c) /\ conf.of # "note" /\ conf.redis
  /\ CheckRedisRateLimit(c, "total", IF conf.of = "address" THEN "push" ELSE "success", "idle", "oldest")
  /\ UNCHANGED <<conf, now, Stored, passed, Notifying>>

(* A refusal keeps the list alive.  By user, a request over the limit is       *)
(* refused and yet goes on to the next check and is recorded: the handler does *)
(* not return.                                                                 *)
RedisTotalOldest(c) ==
  /\ IsAt(c, "oldest")
  /\ Oldest(c, "total", IF conf.of = "address" THEN "push and trim" ELSE "success",
            IF conf.of = "user" THEN "keep refused" ELSE "keep")
  /\ UNCHANGED <<conf, now, Stored, requests, passed, Notifying>>

RedisSuccess(c) ==
  /\ conf.redis
  /\ \/ /\ IsAt(c, "success")
        /\ CheckRedisRateLimit(c, "success", "push", "idle", "success oldest")
     \/ /\ IsAt(c, "refused")
        /\ CheckRedisRateLimit(c, "success", "record refused", "idle", "refused oldest")
  /\ UNCHANGED <<conf, now, Stored, requests, passed, Notifying>>

RedisSuccessOldest(c) ==
  /\ \/ IsAt(c, "success oldest") /\ Oldest(c, "success", "push", "keep success")
     \/ IsAt(c, "refused oldest") /\ Oldest(c, "success", "record refused", "keep success")
  /\ UNCHANGED <<conf, now, Stored, requests, passed, Notifying>>

(* A push adds to the list and leaves its expiry as it is: a list that was not *)
(* there has none.                                                             *)
LPush(key) == list' = [list EXCEPT ![key] = Append(@, now)] /\ UNCHANGED <<there, ttl>>
Trimmed(key) == LET q == list[key]  n == Len(q) - Maximum(key)
                IN IF n > 0 THEN SubSeq(q, n + 1, Len(q)) ELSE q

(* Push, trim, expire.  By address, a list that is not full is not trimmed.    *)
RecordRequest(c) ==
  /\ \/ IsAt(c, "push") \/ IsAt(c, "push and trim") \/ IsAt(c, "record refused")
  /\ IF conf.total = 0 /\ conf.of # "address" THEN MoveTo(c, "serve") /\ UNCHANGED Stored
     ELSE /\ LPush("total")
          /\ MoveTo(c, CASE IsAt(c, "record refused") -> "trim refused"
                       [] conf.of = "address" /\ IsAt(c, "push") -> "expire"
                       [] OTHER -> "trim")
  /\ IF IsAt(c, "record refused") THEN UNCHANGED passed ELSE Count("total")
  /\ UNCHANGED <<conf, now, requests, Notifying>>

TrimRequests(c) ==
  /\ \/ IsAt(c, "trim") /\ MoveTo(c, "expire")
     \/ IsAt(c, "trim refused") /\ MoveTo(c, "expire refused")
  /\ list' = [list EXCEPT !["total"] = Trimmed("total")]
  /\ UNCHANGED <<conf, now, there, ttl, requests, passed, Notifying>>

RecordSuccess(c) ==
  /\ IsAt(c, "serve") /\ conf.redis
  /\ Count("success")
  /\ IF conf.success = 0 THEN UNCHANGED Stored /\ MoveTo(c, "idle")
                         ELSE LPush("success") /\ MoveTo(c, "trim success")
  /\ UNCHANGED <<conf, now, requests, Notifying>>

TrimSuccesses(c) ==
  /\ IsAt(c, "trim success")
  /\ list' = [list EXCEPT !["success"] = Trimmed("success")]
  /\ MoveTo(c, "expire success")
  /\ UNCHANGED <<conf, now, there, ttl, requests, passed, Notifying>>

(* The expiry is set last, on a list that may have expired since the push.     *)
Expire(key) == ttl' = [ttl EXCEPT ![key] = IF list[key] = <<>> THEN @ ELSE now + Life]

ExpireRequests(c) ==
  /\ \/ IsAt(c, "expire") /\ MoveTo(c, IF conf.of = "address" THEN "idle" ELSE "serve")
     \/ IsAt(c, "expire refused") /\ MoveTo(c, "idle")
     \/ IsAt(c, "keep") /\ MoveTo(c, "idle")
     \/ IsAt(c, "keep refused") /\ MoveTo(c, "refused")
  /\ Expire("total")
  /\ UNCHANGED <<conf, now, list, there, requests, passed, Notifying>>

ExpireSuccesses(c) ==
  /\ IsAt(c, "expire success") \/ IsAt(c, "keep success")
  /\ Expire("success")
  /\ MoveTo(c, "idle")
  /\ UNCHANGED <<conf, now, list, there, requests, passed, Notifying>>

(* A second passes, and with it the time of what Redis keeps.                  *)
Tick ==
  LET over == {k \in Keys : conf.redis /\ ttl[k] # 0 /\ ttl[k] <= now + 1} IN
  /\ now < MaxTime
  /\ now' = now + 1
  /\ list' = [k \in Keys |-> IF k \in over THEN <<>> ELSE list[k]]
  /\ ttl' = [k \in Keys |-> IF k \in over THEN 0 ELSE ttl[k]]
  /\ UNCHANGED <<conf, there, st, requests, passed, Notifying>>

-----------------------------------------------------------------------------
(* Notifications of one user and type, within the hour.                        *)

(* Mutant: the count is compared as if this notification were in it.           *)
OneLess(count) == count + 1 < conf.total
Allowed(count) == count < conf.total

(* Without Redis the count is loaded ...                                       *)
CheckNotificationLimit(c) ==
  /\ Job(c) /\ conf.of = "note"
  /\ st' = [st EXCEPT ![c] = [pc |-> IF conf.redis THEN "redis note" ELSE "note", seen |-> notes]]
  /\ UNCHANGED <<conf, now, Stored, passed, Notifying>>

Sent(c, ok) == /\ notified' = IF ok THEN notified + 1 ELSE notified
               /\ st' = [st EXCEPT ![c] = Idle]

(* ... and stored, one more than it was; ...                                   *)
CheckMemoryLimit(c) ==
  /\ IsAt(c, "note")
  /\ notes' = st[c].seen + 1
  /\ Sent(c, Allowed(st[c].seen))
  /\ UNCHANGED <<conf, now, Stored, requests, passed>>

(* ... with Redis it is set to one if there was none, or incremented.          *)
CheckRedisLimit(c) ==
  /\ IsAt(c, "redis note")
  /\ IF st[c].seen = 0 THEN notes' = 1 /\ Sent(c, TRUE)
     ELSE IF Allowed(st[c].seen) THEN notes' = notes + 1 /\ Sent(c, TRUE)
     ELSE UNCHANGED notes /\ Sent(c, FALSE)
  /\ UNCHANGED <<conf, now, Stored, requests, passed>>

-----------------------------------------------------------------------------

InMemory(c) == MemoryTotal(c) \/ MemorySuccess(c) \/ MemoryRecord(c)
InRedis(c) ==
  \/ RedisTotal(c) \/ RedisTotalOldest(c) \/ RedisSuccess(c) \/ RedisSuccessOldest(c)
  \/ RecordRequest(c) \/ TrimRequests(c) \/ ExpireRequests(c)
  \/ RecordSuccess(c) \/ TrimSuccesses(c) \/ ExpireSuccesses(c)
Notification(c) == CheckNotificationLimit(c) \/ CheckMemoryLimit(c) \/ CheckRedisLimit(c)

LimitsNext ==
  \/ \E c \in Clients : InMemory(c) \/ InRedis(c) \/ Fail(c) \/ Notification(c)
  \/ ClearExpiredItems
  \/ Tick

LimitsSpec == LimitsInit /\ [][LimitsNext]_limitsVars

-----------------------------------------------------------------------------
Crowd == Cardinality(Clients)

Places == {"idle", "success", "serve", "oldest", "push", "push and trim", "trim", "refused",
           "success oldest", "refused oldest", "record refused", "trim refused", "trim success",
           "expire", "expire refused", "expire success", "keep", "keep refused", "keep success",
           "note", "redis note"}

TypeOK ==
  /\ conf \in Configs /\ now \in Ticks
  /\ list \in [Keys -> Seq(Nat)] /\ passed \in [Keys -> Seq(Nat)]
  /\ there \subseteq Keys /\ ttl \in [Keys -> Nat]
  /\ st \in [Clients -> [pc : Places, seen : Nat]]
  /\ requests \in 0..MaxRequests
  /\ notes \in Nat /\ notified \in Nat

(* In no window of the period does a key let more requests pass than its limit,*)
(* in memory exactly (a limit of 0, where it is looked at, lets one pass), with*)
(* Redis up to as many more as may stand between the check and the record, and *)
(* once more as many as may have recorded and not set the expiry, whose records*)
(* go with a list that expires before they do.  For windows the store keeps.   *)
Window(key, t) ==
  Cardinality({i \in DOMAIN passed[key] : passed[key][i] \in t..(t + conf.period - 1)})
Most(key) == IF conf.redis THEN Maximum(key) + 2 * Crowd - 1
             ELSE IF Maximum(key) = 0 THEN 1 ELSE Maximum(key)
LimitsHold ==
  conf.period <= Expiry =>
    \A key \in Keys, t \in Ticks :
      (conf.redis => Maximum(key) > 0) => Window(key, t) <= Most(key)

(* A notification is refused only once as many as the limit have been sent,    *)
(* whatever counts are lost between load and store.                            *)
RefusedAtLimit ==
  [][\A c \in Clients : IsAt(c, "note") \/ IsAt(c, "redis note") =>
       (st'[c] = Idle /\ notified' = notified => notified >= conf.total)]_limitsVars
=============================================================================
