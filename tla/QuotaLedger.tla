---------------------------- MODULE QuotaLedger ----------------------------
(***************************************************************************)
(* The billing of relayed requests: TokenAuth, preConsumeQuota, the relay  *)
(* handlers and the retry loop of controller.Relay, postConsumeQuota and   *)
(* returnPreConsumedQuota, down to the SQL statements and the batch        *)
(* updater that may stand between them and the database.                   *)
(*                                                                         *)
(* Every attempt to serve a request (one turn of the retry loop) is a      *)
(* process; the goroutine that returns its reservation is the end of the   *)
(* same process, so it runs beside the next attempt.  Redis is off: reads  *)
(* of a quota go to the database.                                          *)
(***************************************************************************)
EXTENDS Integers, FiniteSets, FiniteSetsExt

CONSTANTS
    Users, Tokens, Requests,
    OwnerOf,             \* the user of a token
    TokenOf,             \* the token a request presents
    Unlimited,           \* tokens with unlimited_quota
    Playground,          \* requests of the playground: no token is billed
    ClaudeRequests,      \* requests served by ClaudeHelper
    Reserve,             \* ShouldPreConsumedQuota of a request
    Prices,              \* what an answer may cost
    UserQuota0,          \* initial users.quota
    TokenQuota0,         \* initial tokens.remain_quota
    RetryTimes,          \* common.RetryTimes
    BatchUpdateEnabled,  \* common.BatchUpdateEnabled
    MaxFaults            \* bound: how many SQL statements may fail

ASSUME LedgerAssumption ==
    /\ OwnerOf \in [Tokens -> Users]
    /\ TokenOf \in [Requests -> Tokens]
    /\ Unlimited \subseteq Tokens
    /\ Playground \subseteq Requests
    /\ ClaudeRequests \subseteq Requests
    /\ Reserve \in [Requests -> Nat]
    /\ Prices \subseteq Nat
    /\ UserQuota0 \in [Users -> Int]
    /\ TokenQuota0 \in [Tokens -> Int]
    /\ RetryTimes \in Nat
    /\ BatchUpdateEnabled \in BOOLEAN
    /\ MaxFaults \in Nat

Attempts == Requests \X (0..RetryTimes)

UserOf(a)  == OwnerOf[TokenOf[a[1]]]
\* The database columns billing writes, one account per column and row.
UserQuota(u)  == <<"UserQuota", u>>        \* users.quota
TokenQuota(t) == <<"TokenQuota", t>>       \* tokens.remain_quota
UsedQuota(u)  == <<"UsedQuota", u>>        \* users.used_quota
Accounts == {UserQuota(u) : u \in Users} \cup {TokenQuota(t) : t \in Tokens}
                \cup {UsedQuota(u) : u \in Users}

\* The order in which batchUpdate visits its stores.
StoreTypes == <<"UserQuota", "TokenQuota", "UsedQuota">>

VARIABLES
    balance,   \* the database
    store,     \* batchUpdateStores: the deltas not yet picked up
    taken,     \* the store batchUpdate swapped out and is applying
    lost,      \* history: what failed batch updates have dropped
    turn,      \* the store batchUpdate visits next
    status,    \* tokens.status
    tokenSeen, \* "token_quota" of the gin context, read by TokenAuth
    pc,        \* where each attempt stands
    pre,       \* preConsumedQuota of each attempt
    price,     \* the final quota of each attempt
    faults     \* SQL statements that failed so far

ledger == <<balance, store, taken, lost, turn>>
vars == <<balance, store, taken, lost, turn, status, tokenSeen, pc, pre, price, faults>>

Stages == {"idle", "auth", "exhaust", "check", "tokenRead", "tokenDec", "userDec",
           "upstream", "stats", "settleUser", "settleToken", "done",
           "refundUser", "refundToken", "failed"}
Ended  == {"idle", "done", "failed"}

TypeOK ==
    /\ balance \in [Accounts -> Int]
    /\ store \in [Accounts -> Int]
    /\ taken \in [Accounts -> Int]
    /\ lost \in [Accounts -> Int]
    /\ turn \in 1..3
    /\ status \in [Tokens -> {"enabled", "exhausted"}]
    /\ tokenSeen \in [Requests -> Int]
    /\ pc \in [Attempts -> Stages]
    /\ pre \in [Attempts -> Nat]
    /\ price \in [Attempts -> Nat]
    /\ faults \in 0..MaxFaults

Init ==
    /\ balance = [x \in Accounts |->
                    IF x[1] = "UserQuota" THEN UserQuota0[x[2]]
                    ELSE IF x[1] = "TokenQuota" THEN TokenQuota0[x[2]] ELSE 0]
    /\ store = [x \in Accounts |-> 0]
    /\ taken = [x \in Accounts |-> 0]
    /\ lost = [x \in Accounts |-> 0]
    /\ turn = 1
    /\ status = [t \in Tokens |-> "enabled"]
    /\ tokenSeen = [r \in Requests |-> 0]
    /\ pc = [a \in Attempts |-> IF a[2] # 0 THEN "idle"
                                ELSE IF a[1] \in Playground THEN "check" ELSE "auth"]
    /\ pre = [a \in Attempts |-> 0]
    /\ price = [a \in Attempts |-> 0]
    /\ faults = 0

-----------------------------------------------------------------------------
(***************************************************************************)
(* The four ways quota reaches the database.                               *)
(***************************************************************************)

\* IncreaseUserQuota, DecreaseUserQuota, IncreaseTokenQuota,
\* DecreaseTokenQuota and UpdateUserUsedQuotaAndRequestCount: the delta goes
\* to the batch store, or straight into the row.
Apply(x, delta) ==
    /\ IF BatchUpdateEnabled
       THEN store' = [store EXCEPT ![x] = @ + delta] /\ UNCHANGED balance
       ELSE balance' = [balance EXCEPT ![x] = @ + delta] /\ UNCHANGED store
    /\ UNCHANGED <<taken, lost, turn, faults>>

\* A statement fails and changes nothing.
SqlFails == /\ faults < MaxFaults
            /\ faults' = faults + 1
            /\ UNCHANGED ledger

\* The same for a write, which only a disabled batch updater does at once.
WriteFails == ~BatchUpdateEnabled /\ SqlFails

\* A read, or a step that touches no row.
NoWrite == UNCHANGED <<ledger, faults>>

Goto(a, stage) == pc' = [pc EXCEPT ![a] = stage]

\* The handler of attempt a returns an error, and Relay either stops or
\* starts the next turn of its loop: shouldRetry looks at the status code, a
\* local error is never retried, and getChannel may find no channel.
ReturnError(a, stage, local) ==
    \/ Goto(a, stage)
    \/ /\ a[2] < RetryTimes
       /\ ~local
       /\ pc' = [pc EXCEPT ![a] = stage, ![<<a[1], a[2] + 1>>] = "check"]

\* An error of preConsumeQuota is a local error; ClaudeErrorToOpenAIError
\* does not carry the flag over.
Reject(a) == ReturnError(a, "failed", a[1] \notin ClaudeRequests)

-----------------------------------------------------------------------------
(***************************************************************************)
(* middleware.TokenAuth and model.ValidateUserToken.                       *)
(***************************************************************************)
TokenAuth(a) ==
    LET t == TokenOf[a[1]]
        remain == balance[TokenQuota(t)]
    IN  /\ pc[a] = "auth"
        /\ \/ SqlFails /\ Goto(a, "failed") /\ UNCHANGED tokenSeen
           \/ /\ status[t] = "exhausted"
              /\ Goto(a, "failed")
              /\ NoWrite /\ UNCHANGED tokenSeen
           \/ /\ status[t] = "enabled"
              /\ t \notin Unlimited
              /\ remain <= 0
              /\ Goto(a, "exhaust")
              /\ NoWrite /\ UNCHANGED tokenSeen
           \/ /\ status[t] = "enabled"
              /\ t \in Unlimited \/ remain > 0
              /\ tokenSeen' = [tokenSeen EXCEPT ![a[1]] =
                                  IF t \in Unlimited THEN @ ELSE remain]
              /\ Goto(a, "check")
              /\ NoWrite
        /\ UNCHANGED <<status, pre, price>>

\* Mutant: the exhausted branch writes the wrong status.
MarkExpired(a) ==
    /\ pc[a] = "exhaust"
    /\ status' = [status EXCEPT ![TokenOf[a[1]]] = "expired"]
    /\ Goto(a, "failed") /\ NoWrite /\ UNCHANGED <<tokenSeen, pre, price>>

\* token.Status = TokenStatusExhausted; SelectUpdate writes only the status.
MarkExhausted(a) ==
    /\ pc[a] = "exhaust"
    /\ \/ /\ status' = [status EXCEPT ![TokenOf[a[1]]] = "exhausted"]
          /\ NoWrite
       \/ SqlFails /\ UNCHANGED status
    /\ Goto(a, "failed")
    /\ UNCHANGED <<tokenSeen, pre, price>>

(***************************************************************************)
(* preConsumeQuota: the user's quota is read and judged ...                *)
(***************************************************************************)
\* Whoever has 100 times the price, user and token, pays only afterwards.
Trusted(a, quota) ==
    /\ quota > 100 * Reserve[a[1]]
    /\ \/ a[1] \notin Playground /\ TokenOf[a[1]] \in Unlimited
       \/ tokenSeen[a[1]] > 100 * Reserve[a[1]]

QuotaSuffices(quota, need) == quota > 0 /\ quota - need >= 0

CheckUserQuota(a) ==
    LET quota == balance[UserQuota(UserOf(a))]
        need  == Reserve[a[1]]
        hold  == IF Trusted(a, quota) THEN 0 ELSE need
    IN  /\ pc[a] = "check"
        /\ \/ SqlFails /\ Reject(a) /\ UNCHANGED pre
           \/ ~QuotaSuffices(quota, need) /\ Reject(a) /\ NoWrite /\ UNCHANGED pre
           \/ /\ QuotaSuffices(quota, need)
              /\ pre' = [pre EXCEPT ![a] = hold]
              /\ Goto(a, IF hold = 0 THEN "upstream"
                         ELSE IF a[1] \in Playground THEN "userDec" ELSE "tokenRead")
              /\ NoWrite
        /\ UNCHANGED <<status, tokenSeen, price>>

\* ... PreConsumeTokenQuota reads the token's remain_quota ...
CheckTokenQuota(a) ==
    LET t == TokenOf[a[1]]
        short == t \notin Unlimited /\ balance[TokenQuota(t)] < pre[a]
    IN  /\ pc[a] = "tokenRead"
        /\ \/ SqlFails /\ Reject(a)
           \/ short /\ Reject(a) /\ NoWrite
           \/ ~short /\ Goto(a, "tokenDec") /\ NoWrite
        /\ UNCHANGED <<status, tokenSeen, pre, price>>

\* ... and takes the reservation from it ...
DecreaseToken(a) ==
    /\ pc[a] = "tokenDec"
    /\ \/ Apply(TokenQuota(TokenOf[a[1]]), -pre[a]) /\ Goto(a, "userDec")
       \/ WriteFails /\ Reject(a)
    /\ UNCHANGED <<status, tokenSeen, pre, price>>

\* ... and the user pays it.  When this statement fails nothing gives the
\* token its quota back: the deferred return is not registered yet.
DecreaseUser(a) ==
    /\ pc[a] = "userDec"
    /\ \/ Apply(UserQuota(UserOf(a)), -pre[a]) /\ Goto(a, "upstream")
       \/ WriteFails /\ Reject(a)
    /\ UNCHANGED <<status, tokenSeen, pre, price>>

-----------------------------------------------------------------------------
(***************************************************************************)
(* The handler talks to the upstream.                                      *)
(***************************************************************************)
\* Mutant: an answered attempt may still be retried (the client is gone).
AnswersAndRetries(a) ==
    /\ pc[a] = "upstream"
    /\ \E p \in Prices : price' = [price EXCEPT ![a] = p]
    /\ ReturnError(a, "stats", FALSE)
    /\ NoWrite /\ UNCHANGED <<status, tokenSeen, pre>>

UpstreamAnswers(a) ==
    /\ pc[a] = "upstream"
    /\ \E p \in Prices : price' = [price EXCEPT ![a] = p]
    /\ Goto(a, "stats")
    /\ NoWrite
    /\ UNCHANGED <<status, tokenSeen, pre>>

\* Every error return of the handler leaves openaiErr set, so the deferred
\* function starts returnPreConsumedQuota in the goroutine pool.
UpstreamError(a) ==
    /\ pc[a] = "upstream"
    /\ \E local \in BOOLEAN :
          ReturnError(a, IF pre[a] = 0 THEN "failed" ELSE "refundUser", local)
    /\ NoWrite
    /\ UNCHANGED <<status, tokenSeen, pre, price>>

\* ClaudeHelper returns a ClaudeErrorWrapperLocal (no adaptor, conversion,
\* marshalling or DoRequest failed) without setting openaiErr: its deferred
\* function finds nil and returns nothing.
ClaudeLocalError(a) ==
    /\ pc[a] = "upstream"
    /\ a[1] \in ClaudeRequests
    /\ ReturnError(a, "failed", FALSE)
    /\ NoWrite
    /\ UNCHANGED <<status, tokenSeen, pre, price>>

(***************************************************************************)
(* postConsumeQuota (PostClaudeConsumeQuota and PostAudioConsumeQuota take *)
(* the same steps): statistics first, then the difference to the           *)
(* reservation, to the user and then to the token.                         *)
(***************************************************************************)
UpdateUsedQuota(a) ==
    /\ pc[a] = "stats"
    /\ \/ Apply(UsedQuota(UserOf(a)), price[a])
       \/ WriteFails                       \* only logged
    /\ Goto(a, IF price[a] = pre[a] THEN "done" ELSE "settleUser")
    /\ UNCHANGED <<status, tokenSeen, pre, price>>

\* Mutant: the price is charged on top of the reservation.
SettleFullPrice(a) ==
    /\ pc[a] = "settleUser"
    /\ Apply(UserQuota(UserOf(a)), -price[a])
    /\ Goto(a, IF a[1] \in Playground THEN "done" ELSE "settleToken")
    /\ UNCHANGED <<status, tokenSeen, pre, price>>

\* PostConsumeQuota(quotaDelta) on the user; an error ends it.
SettleUser(a) ==
    /\ pc[a] = "settleUser"
    /\ \/ /\ Apply(UserQuota(UserOf(a)), pre[a] - price[a])
          /\ Goto(a, IF a[1] \in Playground THEN "done" ELSE "settleToken")
       \/ WriteFails /\ Goto(a, "done")
    /\ UNCHANGED <<status, tokenSeen, pre, price>>

SettleToken(a) ==
    /\ pc[a] = "settleToken"
    /\ \/ Apply(TokenQuota(TokenOf[a[1]]), pre[a] - price[a])
       \/ WriteFails
    /\ Goto(a, "done")
    /\ UNCHANGED <<status, tokenSeen, pre, price>>

(***************************************************************************)
(* returnPreConsumedQuota, in the goroutine pool:                          *)
(* PostConsumeQuota(-preConsumedQuota).                                    *)
(***************************************************************************)
\* Mutant: the reservation is returned to the user and not to the token.
RefundUserOnly(a) ==
    /\ pc[a] = "refundUser"
    /\ Apply(UserQuota(UserOf(a)), pre[a])
    /\ Goto(a, "failed")
    /\ UNCHANGED <<status, tokenSeen, pre, price>>

RefundUser(a) ==
    /\ pc[a] = "refundUser"
    /\ \/ /\ Apply(UserQuota(UserOf(a)), pre[a])
          /\ Goto(a, IF a[1] \in Playground THEN "failed" ELSE "refundToken")
       \/ WriteFails /\ Goto(a, "failed")
    /\ UNCHANGED <<status, tokenSeen, pre, price>>

RefundToken(a) ==
    /\ pc[a] = "refundToken"
    /\ \/ Apply(TokenQuota(TokenOf[a[1]]), pre[a])
       \/ WriteFails
    /\ Goto(a, "failed")
    /\ UNCHANGED <<status, tokenSeen, pre, price>>

-----------------------------------------------------------------------------
(***************************************************************************)
(* batchUpdate: each store in turn is swapped for an empty one under its   *)
(* lock and then applied entry by entry.                                   *)
(***************************************************************************)
OfType(i) == {x \in Accounts : x[1] = StoreTypes[i]}

\* Mutant: visiting one store empties them all.
TakeStoreDropsOthers ==
    /\ BatchUpdateEnabled
    /\ \A x \in Accounts : taken[x] = 0
    /\ taken' = [x \in Accounts |-> IF x \in OfType(turn) THEN store[x] ELSE 0]
    /\ store' = [x \in Accounts |-> 0]
    /\ turn' = (turn % 3) + 1
    /\ UNCHANGED <<balance, lost, status, tokenSeen, pc, pre, price, faults>>

\* Mutant: the loop over the stores stops one short.
TakeStoreSkipsLast ==
    /\ BatchUpdateEnabled
    /\ \A x \in Accounts : taken[x] = 0
    /\ taken' = [x \in Accounts |-> IF x \in OfType(turn) THEN store[x] ELSE 0]
    /\ store' = [x \in Accounts |-> IF x \in OfType(turn) THEN 0 ELSE store[x]]
    /\ turn' = (turn % 2) + 1
    /\ UNCHANGED <<balance, lost, status, tokenSeen, pc, pre, price, faults>>

TakeStore ==
    /\ BatchUpdateEnabled
    /\ \A x \in Accounts : taken[x] = 0
    /\ taken' = [x \in Accounts |-> IF x \in OfType(turn) THEN store[x] ELSE 0]
    /\ store' = [x \in Accounts |-> IF x \in OfType(turn) THEN 0 ELSE store[x]]
    /\ turn' = (turn % 3) + 1
    /\ UNCHANGED <<balance, lost, status, tokenSeen, pc, pre, price, faults>>

\* increaseUserQuota, increaseTokenQuota or updateUserUsedQuota of one entry.
\* A failure is logged and the entry is gone.
ApplyTaken(x) ==
    /\ taken[x] # 0
    /\ taken' = [taken EXCEPT ![x] = 0]
    /\ \/ /\ balance' = [balance EXCEPT ![x] = @ + taken[x]]
          /\ UNCHANGED <<lost, faults>>
       \/ /\ faults < MaxFaults
          /\ faults' = faults + 1
          /\ lost' = [lost EXCEPT ![x] = @ + taken[x]]
          /\ UNCHANGED balance
    /\ UNCHANGED <<store, turn, status, tokenSeen, pc, pre, price>>

-----------------------------------------------------------------------------
Step(a) == \/ TokenAuth(a) \/ MarkExhausted(a)
           \/ CheckUserQuota(a) \/ CheckTokenQuota(a)
           \/ DecreaseToken(a) \/ DecreaseUser(a)
           \/ UpstreamAnswers(a) \/ UpstreamError(a) \/ ClaudeLocalError(a)
           \/ UpdateUsedQuota(a) \/ SettleUser(a) \/ SettleToken(a)
           \/ RefundUser(a) \/ RefundToken(a)

Updater == TakeStore \/ \E x \in Accounts : ApplyTaken(x)

Next == (\E a \in Attempts : Step(a)) \/ Updater

Spec == Init /\ [][Next]_vars

\* A handler's goroutine runs on (the upstream answers or the client's
\* timeout ends the call), the pool runs what was handed to it, and the
\* updater's loop never ends.
Fairness == /\ \A a \in Attempts : WF_vars(Step(a))
            /\ WF_vars(TakeStore)
            /\ \A x \in Accounts : WF_vars(ApplyTaken(x))

FairSpec == Spec /\ Fairness

-----------------------------------------------------------------------------
(***************************************************************************)
(* Properties.                                                             *)
(***************************************************************************)
\* Quota of an account wherever it is: in its row, in the batch store, in the
\* store the updater is applying, or in an update that failed.
Funds(x) == balance[x] + store[x] + taken[x] + lost[x]

\* Every attempt has ended, every goroutine of the pool has run, and the
\* updater has nothing left.
Settled == /\ \A a \in Attempts : pc[a] \in Ended
           /\ \A x \in Accounts : store[x] = 0 /\ taken[x] = 0

\* The most that one failed statement can displace: one reservation or one
\* price.  What a failed batch update drops is known, and counted apart.
MaxDisplaced == Max({Reserve[r] : r \in Requests} \cup Prices)
Gap(n) == IF n < 0 THEN -n ELSE n

\* What is left of a user's initial quota beyond what users.used_quota admits.
Surplus(u) == Funds(UserQuota(u)) + Funds(UsedQuota(u)) - UserQuota0[u]

\* When all is settled a user's books balance: what is gone from users.quota
\* is what users.used_quota says was used, unless a SQL statement failed, and
\* then the difference is bounded by the number of failures.
\* (preConsumeQuota, returnPreConsumedQuota and postConsumeQuota over retries,
\* and the batch updater.)
SettledBooks ==
    Settled => \A u \in Users : Gap(Surplus(u)) <= faults * MaxDisplaced

\* Nobody gains by an error path: when all is settled no user has more left
\* than his usage allows, whichever handler served him.
SettledNoGain ==
    Settled => \A u \in Users : Surplus(u) <= faults * MaxDisplaced

\* ... and nobody loses by one, but for ClaudeHelper's local errors, which keep
\* the reservation of the attempt that failed.
SettledLossBounded ==
    Settled => \A u \in Users :
        -Surplus(u) <= faults * MaxDisplaced
            + MapThenSumSet(LAMBDA a : pre[a],
                            {a \in Attempts : /\ UserOf(a) = u /\ pc[a] = "failed"
                                              /\ a[1] \in ClaudeRequests})

\* Nobody gains or loses more than that by the way his requests ended.
SettledFairly == SettledNoGain /\ SettledLossBounded

\* When all is settled the tokens of a user have lost what the user has lost
\* (playground requests, which bill no token, apart), unless a SQL statement
\* failed: a reservation is returned to both or to neither.
SettledTokens ==
    Settled => \A u \in Users :
        (\A r \in Playground : OwnerOf[TokenOf[r]] # u) =>
            Gap((UserQuota0[u] - Funds(UserQuota(u)))
                - MapThenSumSet(LAMBDA t : TokenQuota0[t] - Funds(TokenQuota(t)),
                                {t \in Tokens : OwnerOf[t] = u}))
                <= faults * MaxDisplaced

\* A request is billed once: once an attempt has an answer no other attempt
\* begins, and the next attempt begins only when the one before has failed.
ServedOnce ==
    \A r \in Requests : \A i, j \in 0..RetryTimes :
        i < j /\ pc[<<r, j>>] # "idle"
            => pc[<<r, i>>] \in {"refundUser", "refundToken", "failed"}

\* Every request ends and its reservation is back where it came from, also in
\* the database when updates are batched.
EventuallySettled == <>[](\A a \in Attempts : pc[a] \in Ended) /\ []<>Settled

-----------------------------------------------------------------------------
(***************************************************************************)
(* The ledger seen as claims on accounts, once for the users and once for  *)
(* the tokens.                                                             *)
(***************************************************************************)
UserFunds  == [u \in Users |-> Funds(UserQuota(u))]
TokenFunds == [t \in Tokens |-> Funds(TokenQuota(t))]

UserPhase == [a \in Attempts |->
    IF pc[a] \in {"upstream", "stats", "settleUser", "refundUser"} THEN "held"
    ELSE IF pc[a] \in {"settleToken", "refundToken", "done", "failed"} THEN "closed"
    ELSE "open"]
UserClaim == [a \in Attempts |->
    IF UserPhase[a] = "held" THEN pre[a]
    ELSE IF pc[a] \in {"settleToken", "done"} THEN price[a] ELSE 0]

TokenPhase == [a \in Attempts |->
    IF pc[a] \in {"userDec", "upstream", "stats", "settleUser", "settleToken",
                  "refundUser", "refundToken"} THEN "held"
    ELSE IF pc[a] \in {"done", "failed"} THEN "closed" ELSE "open"]
TokenClaim == [a \in Attempts |->
    IF a[1] \in Playground THEN 0
    ELSE IF TokenPhase[a] = "held" THEN pre[a]
    ELSE IF pc[a] = "done" THEN price[a] ELSE 0]

UserAccounts == INSTANCE QuotaAccount WITH
    Accounts <- Users, Claims <- Attempts,
    AccountOf <- [a \in Attempts |-> UserOf(a)], Funds0 <- UserQuota0,
    funds <- UserFunds, claim <- UserClaim, phase <- UserPhase

TokenAccounts == INSTANCE QuotaAccount WITH
    Accounts <- Tokens, Claims <- Attempts,
    AccountOf <- [a \in Attempts |-> TokenOf[a[1]]], Funds0 <- TokenQuota0,
    funds <- TokenFunds, claim <- TokenClaim, phase <- TokenPhase

\* The ledger bills users as QuotaAccount says: reserve once, close once,
\* and the batch updater is invisible.
UsersImplementAccount == UserAccounts!Spec

\* The same for the tokens.
TokensImplementAccount == TokenAccounts!Spec

\* At every moment what is missing from a user's account is exactly what the
\* attempts hold or were charged.
UsersConserved == UserAccounts!Conserved
=============================================================================
