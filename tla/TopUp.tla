-------------------------------- MODULE TopUp --------------------------------
(***************************************************************************)
(* Online top-up: RequestEpay creates a pending order, the payment         *)
(* provider notifies until it hears "success" and may notify twice, and    *)
(* EpayNotify credits the user under LockOrder, a lock that lives in one   *)
(* server process.                                                         *)
(***************************************************************************)
EXTENDS Integers, FiniteSets

CONSTANTS
    Orders, Nodes,
    Notifications,       \* deliveries of the provider's callback
    OrderOf, NodeOf,     \* the order a delivery is about, the server it reaches
    Nobody,              \* not a notification
    MaxFailures          \* bound: failing statements and crashes

ASSUME TopUpAssumption ==
    /\ OrderOf \in [Notifications -> Orders]
    /\ NodeOf \in [Notifications -> Nodes]
    /\ Nobody \notin Notifications
    /\ MaxFailures \in Nat

VARIABLES
    status,      \* top_ups.status; "absent" before the order is inserted
    credited,    \* how often an order's quota was added to its user
    rebated,     \* how often the user's inviter got his share of it
    registered,  \* orderLocks of each node: the orders that have a mutex
    createLock,  \* createLock of each node and who holds it
    mutex,       \* the orders' mutexes of each node and who holds them
    handler,     \* where each notification's handler is
    failures

orderTables == <<status, credited, rebated>>
locks == <<registered, createLock, mutex>>
topUpVars == <<orderTables, locks, handler, failures>>

HandlerStages == {"sent", "load", "create", "lock", "read", "update", "credit", "rebate",
                  "unlock", "done", "crashed"}
Holding == {"read", "update", "credit", "rebate", "unlock"}
Resting == {"sent", "done", "crashed"}

TopUpTypeOK ==
    /\ status \in [Orders -> {"absent", "pending", "success"}]
    /\ credited \in [Orders -> Nat]
    /\ rebated \in [Orders -> Nat]
    /\ registered \in [Nodes -> SUBSET Orders]
    /\ createLock \in [Nodes -> Notifications \cup {Nobody}]
    /\ mutex \in [Nodes -> [Orders -> Notifications \cup {Nobody}]]
    /\ handler \in [Notifications -> HandlerStages]
    /\ failures \in 0..MaxFailures

TopUpInit ==
    /\ status = [o \in Orders |-> "absent"]
    /\ credited = [o \in Orders |-> 0]
    /\ rebated = [o \in Orders |-> 0]
    /\ registered = [m \in Nodes |-> {}]
    /\ createLock = [m \in Nodes |-> Nobody]
    /\ mutex = [m \in Nodes |-> [o \in Orders |-> Nobody]]
    /\ handler = [n \in Notifications |-> "sent"]
    /\ failures = 0

Proceed(n, stage) == handler' = [handler EXCEPT ![n] = stage]

\* A statement fails (GetTopUpByTradeNo then answers "no such order").
Fails == failures < MaxFailures /\ failures' = failures + 1 /\ UNCHANGED orderTables

-----------------------------------------------------------------------------
\* RequestEpay inserts the order before the client learns where to pay.
RequestEpay(o) ==
    /\ status[o] = "absent"
    /\ status' = [status EXCEPT ![o] = "pending"]
    /\ UNCHANGED <<credited, rebated, locks, handler, failures>>

\* EpayNotify answers the provider, then goes on only with a verified
\* notification of a successful trade.
Receive(n) ==
    /\ handler[n] = "sent"
    /\ status[OrderOf[n]] # "absent"
    /\ Proceed(n, "load") \/ Proceed(n, "done")
    /\ UNCHANGED <<orderTables, locks, failures>>

(***************************************************************************)
(* LockOrder.                                                              *)
(***************************************************************************)
\* Mutant: a caller that finds no mutex goes on without one.
LoadOrSkip(n) ==
    /\ handler[n] = "load"
    /\ Proceed(n, IF OrderOf[n] \in registered[NodeOf[n]] THEN "lock" ELSE "read")
    /\ registered' = [registered EXCEPT ![NodeOf[n]] = @ \cup {OrderOf[n]}]
    /\ UNCHANGED <<orderTables, createLock, mutex, failures>>

\* orderLocks.Load.
LoadLock(n) ==
    /\ handler[n] = "load"
    /\ Proceed(n, IF OrderOf[n] \in registered[NodeOf[n]] THEN "lock" ELSE "create")
    /\ UNCHANGED <<orderTables, locks, failures>>

\* createLock.Lock, a second Load, and the Store; createLock stays held until
\* LockOrder returns.
CreateLock(n) ==
    /\ handler[n] = "create"
    /\ createLock[NodeOf[n]] = Nobody
    /\ createLock' = [createLock EXCEPT ![NodeOf[n]] = n]
    /\ registered' = [registered EXCEPT ![NodeOf[n]] = @ \cup {OrderOf[n]}]
    /\ Proceed(n, "lock")
    /\ UNCHANGED <<orderTables, mutex, failures>>

\* The order's mutex; returning lets go of createLock.
LockOrder(n) ==
    LET m == NodeOf[n]
    IN  /\ handler[n] = "lock"
        /\ mutex[m][OrderOf[n]] = Nobody
        /\ mutex' = [mutex EXCEPT ![m][OrderOf[n]] = n]
        /\ createLock' = [createLock EXCEPT ![m] = IF @ = n THEN Nobody ELSE @]
        /\ Proceed(n, "read")
        /\ UNCHANGED <<orderTables, registered, failures>>

(***************************************************************************)
(* The rest of EpayNotify, under the order's mutex.                        *)
(***************************************************************************)
ReadOrder(n) ==
    /\ handler[n] = "read"
    /\ \/ /\ Proceed(n, IF status[OrderOf[n]] = "pending" THEN "update" ELSE "unlock")
          /\ UNCHANGED <<orderTables, failures>>
       \/ Fails /\ Proceed(n, "unlock")
    /\ UNCHANGED locks

UpdateOrder(n) ==
    /\ handler[n] = "update"
    /\ \/ /\ status' = [status EXCEPT ![OrderOf[n]] = "success"]
          /\ Proceed(n, "credit")
          /\ UNCHANGED <<credited, rebated, failures>>
       \/ Fails /\ Proceed(n, "unlock")
    /\ UNCHANGED locks

\* Mutant: the order is put back when crediting reports an error.
CreditOrReopen(n) ==
    /\ handler[n] = "credit"
    /\ credited' = [credited EXCEPT ![OrderOf[n]] = @ + 1]
    /\ \/ Proceed(n, "rebate") /\ UNCHANGED status
       \/ Proceed(n, "unlock") /\ status' = [status EXCEPT ![OrderOf[n]] = "pending"]
    /\ UNCHANGED <<rebated, locks, failures>>

\* IncreaseUserQuota, past the batch updater.
CreditUser(n) ==
    /\ handler[n] = "credit"
    /\ \/ /\ credited' = [credited EXCEPT ![OrderOf[n]] = @ + 1]
          /\ Proceed(n, "rebate")
          /\ UNCHANGED <<status, rebated, failures>>
       \/ Fails /\ Proceed(n, "unlock")
    /\ UNCHANGED locks

\* ProcessRebate; an error is only logged.
PayInviter(n) ==
    /\ handler[n] = "rebate"
    /\ \/ /\ rebated' = [rebated EXCEPT ![OrderOf[n]] = @ + 1]
          /\ UNCHANGED <<status, credited, failures>>
       \/ Fails
    /\ Proceed(n, "unlock")
    /\ UNCHANGED locks

\* Mutant: an early return leaves the mutex locked.
UnlockIfPaid(n) ==
    /\ handler[n] = "unlock"
    /\ mutex' = [mutex EXCEPT ![NodeOf[n]][OrderOf[n]] =
                    IF credited[OrderOf[n]] = 0 THEN @ ELSE Nobody]
    /\ Proceed(n, "done")
    /\ UNCHANGED <<orderTables, registered, createLock, failures>>

\* UnlockOrder, deferred.
UnlockOrder(n) ==
    /\ handler[n] = "unlock"
    /\ mutex' = [mutex EXCEPT ![NodeOf[n]][OrderOf[n]] = Nobody]
    /\ Proceed(n, "done")
    /\ UNCHANGED <<orderTables, registered, createLock, failures>>

\* A server dies with all its handlers and locks, and comes back empty.
CrashNode(m) ==
    /\ failures < MaxFailures
    /\ failures' = failures + 1
    /\ \E n \in Notifications : NodeOf[n] = m /\ handler[n] \notin Resting
    /\ handler' = [n \in Notifications |->
                IF NodeOf[n] = m /\ handler[n] \notin Resting THEN "crashed" ELSE handler[n]]
    /\ registered' = [registered EXCEPT ![m] = {}]
    /\ createLock' = [createLock EXCEPT ![m] = Nobody]
    /\ mutex' = [mutex EXCEPT ![m] = [o \in Orders |-> Nobody]]
    /\ UNCHANGED orderTables

-----------------------------------------------------------------------------
EpayNotify(n) == \/ Receive(n) \/ LoadLock(n) \/ CreateLock(n) \/ LockOrder(n)
                 \/ ReadOrder(n) \/ UpdateOrder(n) \/ CreditUser(n) \/ PayInviter(n)
                 \/ UnlockOrder(n)

TopUpNext ==
    \/ \E o \in Orders : RequestEpay(o)
    \/ \E n \in Notifications : EpayNotify(n)
    \/ \E m \in Nodes : CrashNode(m)

TopUpSpec == TopUpInit /\ [][TopUpNext]_topUpVars

\* A handler that has begun runs on; a blocked Lock is granted in the end
\* (Go's mutexes hand over to a waiter that has starved for a millisecond).
TopUpFairness == \A n \in Notifications :
                /\ WF_topUpVars(handler[n] # "sent" /\ EpayNotify(n))
                /\ SF_topUpVars(CreateLock(n)) /\ SF_topUpVars(LockOrder(n))

FairTopUpSpec == TopUpSpec /\ TopUpFairness

-----------------------------------------------------------------------------
(***************************************************************************)
(* Properties.                                                             *)
(***************************************************************************)
\* However often and however concurrently the provider notifies, and wherever
\* the server dies, an order's quota is added once at most.
CreditedOnce == \A o \in Orders : credited[o] <= 1

\* When no handler runs and nothing has failed, the orders marked successful
\* are those that were credited and whose inviter got his share.
SettledOrders ==
    (\A n \in Notifications : handler[n] \in Resting) /\ failures = 0 =>
        \A o \in Orders : /\ status[o] = "success" <=> credited[o] = 1
                          /\ rebated[o] = credited[o]

\* An order that was credited never goes back to a state in which the next
\* notification would credit it again.
PaidForGood ==
    [][\A o \in Orders : credited[o] > 0 => status'[o] = status[o]]_topUpVars

\* Holding createLock while waiting for an order's mutex blocks the first
\* notifications of other orders, but never for good: every handler that has
\* begun comes to its end.
NotificationsEnd ==
    \A n \in Notifications : handler[n] = "load" ~> handler[n] \in {"done", "crashed"}
=============================================================================
