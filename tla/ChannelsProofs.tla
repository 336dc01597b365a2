--------------------------- MODULE ChannelsProofs ---------------------------
(***************************************************************************)
(* The channels of a server, for any number of channels, tags, retries and *)
(* events:                                                                 *)
(*   OwnersAliveAlways    channelStatusLock and testAllChannelsRunning are *)
(*                        never left behind; with the memory cache at most *)
(*                        one status update is past the lock.              *)
(*   TypesHold            the types, with what every process has in hand.  *)
(*   ManualStaysAlways    nothing but the administrator enables a channel  *)
(*                        he has disabled, once it is settled.             *)
(*   AbilitiesAgreeAlways the tables `channels` and `abilities` agree but  *)
(*                        where the code lets two jobs at a channel.       *)
(* The first needs to know only who may hold what, by where he is; the     *)
(* last rests on the other two and on what a job half way through a        *)
(* channel has made of it.                                                 *)
(***************************************************************************)
EXTENDS Channels, TLAPS

\* Where an update has taken the lock, if there is one to take.
Inside == StatusSteps \ {"status"}

\* Every process is somewhere.
Shaped ==
  /\ DOMAIN st = Processes
  /\ \A p \in Processes : "pc" \in DOMAIN st[p]
  /\ memory \in BOOLEAN

LockHeld == lock # None => lock \in Processes /\ st[lock].pc \in Inside
Guarded == memory => \A p \in Processes : st[p].pc \in Inside => lock = p
TestAlive == running => stuck \/ st["tester"].pc \in StatusSteps \cup {"next"}
Inv == Shaped /\ LockHeld /\ Guarded /\ TestAlive

(***************************************************************************)
(* Places.                                                                 *)
(***************************************************************************)

\* l is somewhere outside of the lock.
Outside(l) == "pc" \in DOMAIN l /\ l.pc \notin Inside

\* A change of the place, or of anything else, leaves a place.
LEMMA Moved ==
    ASSUME NEW l, "pc" \in DOMAIN l, NEW x
    PROVE  LET m == [l EXCEPT !.pc = x] IN "pc" \in DOMAIN m /\ m.pc = x
OBVIOUS

\* The local variables every job starts from are those of an idle process.
LEMMA IdleOutside == "pc" \in DOMAIN Idle /\ Idle.pc = "idle" /\ Outside(Idle)
BY DEF Idle, Outside, Inside, StatusSteps

\* A step of p changes the place of p alone.
LEMMA Stepped ==
    ASSUME Shaped, NEW p \in Processes, NEW m, "pc" \in DOMAIN m, Become(p, m), UNCHANGED memory
    PROVE  Shaped' /\ st'[p] = m /\ \A q \in Processes \ {p} : st'[q] = st[q]
BY DEF Shaped, Become

\* Nothing happens to lock and flag where nobody moves.
LEMMA Still ==
    ASSUME Inv, UNCHANGED <<memory, lock, running, stuck, st>>
    PROVE  Inv'
BY DEF Inv, Shaped, LockHeld, Guarded, TestAlive

\* A step of p that has nothing to do with the lock or the flag.
Walks(p) ==
  /\ UNCHANGED <<memory, lock, running, stuck>>
  /\ \/ UNCHANGED st
     \/ Outside(st[p]) /\ \E m : Outside(m) /\ Become(p, m)

\* A process other than the tester walks about outside of the lock.
LEMMA Elsewhere ==
    ASSUME Inv, NEW p \in Processes \ {"tester"}, Walks(p)
    PROVE  Inv'
<1>1. CASE UNCHANGED st
  BY <1>1, Still DEF Walks
<1>2. ASSUME Outside(st[p]), NEW m, Outside(m), Become(p, m)
      PROVE  Inv'
  <2>0. UNCHANGED <<memory, lock, running, stuck>>
    BY DEF Walks
  <2>1. Shaped' /\ st'[p] = m /\ \A q \in Processes \ {p} : st'[q] = st[q]
    BY <1>2, <2>0, Stepped DEF Inv, Outside
  <2>2. LockHeld'
    BY <1>2, <2>0, <2>1 DEF Inv, LockHeld, Outside
  <2>3. Guarded'
    BY <1>2, <2>0, <2>1 DEF Inv, Guarded, Outside
  <2>4. TestAlive'
    BY <2>0, <2>1 DEF Inv, TestAlive, Processes
  <2> QED
    BY <2>1, <2>2, <2>3, <2>4 DEF Inv
<1> QED
  BY <1>1, <1>2 DEF Walks

\* The tester calls, or goes on with his list.
LEMMA Testing ==
    ASSUME Inv, NEW m, Outside(st["tester"]), "pc" \in DOMAIN m, m.pc \in {"status", "next"},
           Become("tester", m), UNCHANGED <<memory, lock>>
    PROVE  Inv'
<1>0. "tester" \in Processes
  BY DEF Processes
<1>1. Shaped' /\ st'["tester"] = m /\ \A q \in Processes \ {"tester"} : st'[q] = st[q]
  BY <1>0, Stepped DEF Inv
<1>2. m.pc \notin Inside /\ m.pc \in StatusSteps \cup {"next"}
  BY DEF Inside, StatusSteps
<1>3. LockHeld'
  BY <1>0, <1>1, <1>2 DEF Inv, LockHeld, Outside
<1>4. Guarded'
  BY <1>0, <1>1, <1>2 DEF Inv, Guarded, Outside
<1>5. TestAlive'
  BY <1>1, <1>2 DEF TestAlive
<1> QED
  BY <1>1, <1>3, <1>4, <1>5 DEF Inv

(***************************************************************************)
(* UpdateChannelStatusById.                                                *)
(***************************************************************************)

\* An update that has the lock, or needs none, goes on.
LEMMA GoesOn ==
    ASSUME Inv, NEW p \in Processes, st[p].pc \in Inside, NEW m, "pc" \in DOMAIN m, m.pc \in Inside,
           Become(p, m), UNCHANGED <<memory, lock, running, stuck>>
    PROVE  Inv'
<1>1. Shaped' /\ st'[p] = m /\ \A q \in Processes \ {p} : st'[q] = st[q]
  BY Stepped DEF Inv
<1>2. LockHeld'
  BY <1>1 DEF Inv, LockHeld
<1>3. Guarded'
  BY <1>1 DEF Inv, Guarded
<1>4. TestAlive'
  BY <1>1 DEF Inv, TestAlive, Inside, Processes
<1> QED
  BY <1>1, <1>2, <1>3, <1>4 DEF Inv

\* An update returns: the lock is free again if it was his, and the tester
\* goes on with his list.
LEMMA Returns ==
    ASSUME Inv, NEW p \in Processes, st[p].pc \in StatusSteps, Return(p),
           UNCHANGED <<memory, running, stuck>>
    PROVE  Inv'
<1>1. "pc" \in DOMAIN Returned(p) /\ Returned(p).pc \in {"next", "idle"}
  BY IdleOutside DEF Returned, Inv, Shaped
<1>2. p = "tester" => Returned(p).pc = "next"
  BY DEF Returned, Inv, Shaped
<1>3. Returned(p).pc \notin Inside
  BY <1>1 DEF Inside, StatusSteps
<1>4. Become(p, Returned(p)) /\ lock' = IF lock = p THEN None ELSE lock
  BY DEF Return
<1>5. Shaped' /\ st'[p] = Returned(p) /\ \A q \in Processes \ {p} : st'[q] = st[q]
  BY <1>1, <1>4, Stepped DEF Inv
<1>6. LockHeld'
  BY <1>4, <1>5 DEF Inv, LockHeld
<1>7. Guarded'
  BY <1>3, <1>4, <1>5 DEF Inv, Guarded
<1>8. TestAlive'
  BY <1>2, <1>5 DEF Inv, TestAlive, Processes
<1> QED
  BY <1>5, <1>6, <1>7, <1>8 DEF Inv

\* The lock is taken by nobody who is inside already.
LEMMA StatusLockInv ==
    ASSUME Inv, NEW p \in Processes, StatusLock(p)
    PROVE  Inv'
<1>1. st[p].pc = "status" /\ (memory => lock = None) /\ UNCHANGED <<memory, running, stuck>>
  BY DEF StatusLock, At
<1>2. CASE Return(p)
  BY <1>1, <1>2, Returns DEF StatusSteps
<1>3. CASE /\ lock' = IF memory THEN p ELSE lock
           /\ Become(p, [st[p] EXCEPT !.pc = "ability"])
  <2> DEFINE m == [st[p] EXCEPT !.pc = "ability"]
  <2>1. "pc" \in DOMAIN m /\ m.pc = "ability"
    BY Moved DEF Inv, Shaped
  <2>2. m.pc \in Inside /\ st[p].pc \notin Inside
    BY <1>1, <2>1 DEF Inside, StatusSteps
  <2> HIDE DEF m
  <2>3. Shaped' /\ st'[p] = m /\ \A q \in Processes \ {p} : st'[q] = st[q]
    BY <1>1, <1>3, <2>1, Stepped DEF Inv, m
  <2>4. LockHeld'
    BY <1>1, <1>3, <2>2, <2>3 DEF Inv, LockHeld
  <2>5. Guarded'
    <3> SUFFICES ASSUME memory', NEW q \in Processes, st'[q].pc \in Inside PROVE lock' = q
      BY DEF Guarded
    <3>1. CASE q = p
      BY <1>1, <1>3, <3>1
    <3>2. CASE q # p
      <4>1. lock = q /\ lock = None
        BY <1>1, <2>3, <3>2 DEF Inv, Guarded
      <4> QED
        BY <4>1, ChannelsAssumption
    <3> QED
      BY <3>1, <3>2
  <2>6. TestAlive'
    BY <1>1, <2>2, <2>3 DEF Inv, TestAlive, Inside, Processes
  <2> QED
    BY <2>3, <2>4, <2>5, <2>6 DEF Inv
<1> QED
  BY <1>2, <1>3 DEF StatusLock

\* Each statement of the update goes on to the next one or returns.
LEMMA StatementsInv ==
    ASSUME Inv, NEW p \in Processes,
           UpdateAbilityStatus(p) \/ ReadChannel(p) \/ UpdateStatus(p) \/ SaveChannel(p)
    PROVE  Inv'
<1>0. st[p].pc \in Inside /\ st[p].pc \in StatusSteps
  BY DEF UpdateAbilityStatus, ReadChannel, UpdateStatus, SaveChannel, At, Inside, StatusSteps
<1>1. UNCHANGED <<memory, running, stuck>>
  BY DEF UpdateAbilityStatus, ReadChannel, UpdateStatus, SaveChannel
<1>2. CASE Return(p)
  BY <1>0, <1>1, <1>2, Returns
<1>3. CASE lock' = lock /\ Become(p, [st[p] EXCEPT !.pc = "read"])
  BY <1>0, <1>1, <1>3, Moved, GoesOn DEF Inv, Shaped, Inside, StatusSteps
<1>4. CASE lock' = lock /\ Become(p, [st[p] EXCEPT !.pc = "update"])
  BY <1>0, <1>1, <1>4, Moved, GoesOn DEF Inv, Shaped, Inside, StatusSteps
<1>5. CASE lock' = lock /\ Become(p, [st[p] EXCEPT !.copy = row[st[p].ch],
                 !.pc = IF row[st[p].ch].status = "none" THEN "update" ELSE "save"])
  <2> DEFINE m == [st[p] EXCEPT !.copy = row[st[p].ch],
                                !.pc = IF row[st[p].ch].status = "none" THEN "update" ELSE "save"]
  <2>1. "pc" \in DOMAIN m /\ m.pc \in Inside
    BY DEF Inv, Shaped, Inside, StatusSteps
  <2> QED
    BY <1>0, <1>1, <1>5, <2>1, GoesOn
<1> QED
  BY <1>2, <1>3, <1>4, <1>5 DEF UpdateAbilityStatus, ReadChannel, UpdateStatus, SaveChannel

\* The whole of UpdateChannelStatusById.
LEMMA StatusInv ==
    ASSUME Inv, NEW p \in Processes, UpdateChannelStatusById(p)
    PROVE  Inv'
BY StatusLockInv, StatementsInv DEF UpdateChannelStatusById

(***************************************************************************)
(* The tests of all channels.                                              *)
(***************************************************************************)

\* testAllChannels: the list is read, or it is not and the flag stays.
LEMMA TestAllChannelsInv ==
    ASSUME Inv, TestAllChannels
    PROVE  Inv'
<1>1. st["tester"].pc = "idle" /\ UNCHANGED <<memory, lock>>
  BY DEF TestAllChannels, Job, At
<1>2. CASE Become("tester", Listed)
  <2>1. "pc" \in DOMAIN Listed /\ Listed.pc = "next"
    BY IdleOutside DEF Listed
  <2>2. Outside(st["tester"])
    BY <1>1 DEF Inv, Shaped, Outside, Inside, StatusSteps, Processes
  <2> QED
    BY <1>1, <1>2, <2>1, <2>2, Testing
<1>3. CASE UNCHANGED st /\ stuck' = TRUE
  BY <1>1, <1>3 DEF Inv, Shaped, LockHeld, Guarded, TestAlive
<1> QED
  BY <1>2, <1>3 DEF TestAllChannels

\* testChannel: the tester calls UpdateChannelStatusById or goes on.
LEMMA TestChannelInv ==
    ASSUME Inv, TestChannel
    PROVE  Inv'
<1>1. /\ st["tester"].pc = "next" /\ "pc" \in DOMAIN st["tester"] /\ Outside(st["tester"])
      /\ UNCHANGED <<memory, lock, running, stuck>>
  BY DEF TestChannel, At, Locals, Inv, Shaped, Outside, Inside, StatusSteps, Processes
<1>2. PICK c \in st["tester"].list, to \in {"auto", "enabled"} :
        LET rest == [st["tester"] EXCEPT !.list = @ \ {c}]
        IN \/ Become("tester", Call("tester", rest, c, to))
           \/ Become("tester", rest)
  BY DEF TestChannel
<1> DEFINE rest == [st["tester"] EXCEPT !.list = @ \ {c}]
<1>3. "pc" \in DOMAIN rest /\ rest.pc = "next"
  BY <1>1
<1>4. "pc" \in DOMAIN Call("tester", rest, c, to) /\ Call("tester", rest, c, to).pc = "status"
  BY <1>3 DEF Call
<1> QED
  BY <1>1, <1>2, <1>3, <1>4, Testing

\* The end of the tests gives the flag back.
LEMMA TestsDoneInv ==
    ASSUME Inv, TestsDone
    PROVE  Inv'
<1>1. /\ st["tester"].pc = "next" /\ Become("tester", Idle) /\ running' = FALSE
      /\ UNCHANGED <<memory, lock>>
  BY DEF TestsDone, At
<1>2. "tester" \in Processes /\ Outside(st["tester"])
  BY <1>1 DEF Inv, Shaped, Outside, Inside, StatusSteps, Processes
<1>3. Shaped' /\ st'["tester"] = Idle /\ \A q \in Processes \ {"tester"} : st'[q] = st[q]
  BY <1>1, <1>2, IdleOutside, Stepped DEF Inv
<1>4. LockHeld'
  BY <1>1, <1>2, <1>3 DEF Inv, LockHeld, Outside
<1>5. Guarded'
  BY <1>1, <1>3, IdleOutside DEF Inv, Guarded, Outside
<1> QED
  BY <1>1, <1>3, <1>4, <1>5 DEF Inv, TestAlive

(***************************************************************************)
(* Requests, balances, the administrator and the sync.                     *)
(***************************************************************************)

\* What a walker is on his way to.
LEMMA Ways ==
    /\ \A c : Outside(Using(c))
    /\ \A l : l \notin Inside => Outside(Admin(l)) /\ Admin(l).pc = l
    /\ Outside(Refresh) /\ Outside(Listed) /\ Outside(Idle)
<1>1. \A l : "pc" \in DOMAIN [Idle EXCEPT !.pc = l] /\ [Idle EXCEPT !.pc = l].pc = l
  BY IdleOutside, Moved
<1>2. ASSUME NEW c PROVE Outside(Using(c))
  BY IdleOutside DEF Using, Outside, Inside, StatusSteps
<1>3. Outside(Listed)
  BY IdleOutside DEF Listed, Outside, Inside, StatusSteps
<1> QED
  BY <1>1, <1>2, <1>3, IdleOutside DEF Admin, Refresh, Outside, Inside, StatusSteps

\* The request, but for an upstream that refuses, never meets the lock.
LEMMA RequestWalks ==
    ASSUME Inv, Distribute \/ DistributeByPrefix \/ Answered \/ StorePrefixes("request")
    PROVE  Inv'
<1>0. "request" \in Processes \ {"tester"} /\ "pc" \in DOMAIN st["request"]
  BY DEF Processes, Inv, Shaped
<1>1. Outside(st["request"]) /\ UNCHANGED <<memory, lock, running, stuck>>
  BY <1>0 DEF Distribute, DistributeByPrefix, Answered, StorePrefixes, Job, At, Outside, Inside,
              StatusSteps, Locals
<1>2. CASE Distribute \/ Answered
  BY <1>0, <1>1, <1>2, Ways, Elsewhere DEF Distribute, Answered, Walks
<1>3. CASE DistributeByPrefix
  <2>1. Outside([Idle EXCEPT !.pc = "store", !.seen = row])
    BY IdleOutside DEF Outside, Inside, StatusSteps
  <2> QED
    BY <1>0, <1>1, <1>3, <2>1, Ways, Elsewhere DEF DistributeByPrefix, Walks
<1>4. CASE StorePrefixes("request")
  BY <1>0, <1>1, <1>4, Ways, Elsewhere DEF StorePrefixes, Walks
<1> QED
  BY <1>2, <1>3, <1>4

\* A refusal moves the request and may set the goroutine that disables off.
LEMMA RefusedInv ==
    ASSUME Inv, Refused
    PROVE  Inv'
<1>1. /\ st["request"].pc = "using" /\ UNCHANGED <<memory, lock, running, stuck>>
      /\ "request" \in Processes /\ "ban" \in Processes /\ "tester" \in Processes
  BY DEF Refused, At, Processes
<1> DEFINE c == st["request"].ch
           call == Call("ban", Idle, c, "auto")
           after == {Idle} \cup (IF turn < RetryTimes THEN {Using(d) : d \in Chosen(turn + 1)} ELSE {})
<1>2. PICK ban \in BOOLEAN, next \in after :
        /\ ban => c \in AutoBan /\ st["ban"].pc = "idle"
        /\ st' = [st EXCEPT !["request"] = next, !["ban"] = IF ban THEN call ELSE @]
  BY Zenon DEF Refused
<1>3. Outside(next)
  BY Ways
<1>4. Outside(call)
  BY IdleOutside DEF Call, Outside, Inside, StatusSteps
<1> HIDE DEF call, after
<1>5. /\ DOMAIN st' = Processes /\ st'["request"] = next
      /\ ban => st'["ban"] = call
      /\ ~ban => st'["ban"] = st["ban"]
      /\ \A q \in Processes \ {"request", "ban"} : st'[q] = st[q]
  <2>1. "request" \in DOMAIN st /\ "ban" \in DOMAIN st /\ DOMAIN st = Processes
    BY <1>1 DEF Inv, Shaped
  <2> QED
    BY <1>2, <2>1
<1>6. Shaped'
  BY <1>1, <1>3, <1>4, <1>5 DEF Inv, Shaped, Outside
<1>7. \A q \in Processes : \/ st'[q] = st[q]
                           \/ st[q].pc \notin Inside /\ st'[q].pc \notin Inside
  <2> SUFFICES ASSUME NEW q \in Processes
               PROVE  \/ st'[q] = st[q]
                      \/ st[q].pc \notin Inside /\ st'[q].pc \notin Inside
    OBVIOUS
  <2>1. "using" \notin Inside /\ "idle" \notin Inside
    BY DEF Inside, StatusSteps
  <2>2. CASE q = "request"
    BY <1>1, <1>3, <1>5, <2>1, <2>2 DEF Outside
  <2>3. CASE q = "ban" /\ ban
    <3>1. st["ban"].pc = "idle" /\ st'["ban"] = call
      BY <1>2, <1>5, <2>3, Zenon
    <3> QED
      BY <1>4, <2>1, <2>3, <3>1 DEF Outside
  <2>4. CASE q = "ban" /\ ~ban
    <3>1. st'["ban"] = st["ban"]
      BY <1>5, <2>4, Zenon
    <3> QED
      BY <2>4, <3>1
  <2>5. CASE q \notin {"request", "ban"}
    BY <1>5, <2>5
  <2> QED
    BY <2>2, <2>3, <2>4, <2>5
<1>8. LockHeld'
  BY <1>1, <1>7 DEF Inv, LockHeld
<1>9. Guarded'
  BY <1>1, <1>7 DEF Inv, Guarded
<1>10. TestAlive'
  BY <1>1, <1>5 DEF Inv, TestAlive
<1> QED
  BY <1>6, <1>8, <1>9, <1>10 DEF Inv

\* The balance update calls UpdateChannelStatusById or goes on.
LEMMA BalancesInv ==
    ASSUME Inv, UpdateAllChannelsBalance \/ UpdateChannelBalance
    PROVE  Inv'
<1>0. "balance" \in Processes \ {"tester"} /\ "pc" \in DOMAIN st["balance"]
  BY DEF Processes, Inv, Shaped
<1>1. Outside(st["balance"]) /\ UNCHANGED <<memory, lock, running, stuck>>
  BY <1>0 DEF UpdateAllChannelsBalance, UpdateChannelBalance, Job, At, Outside, Inside, StatusSteps, Locals
<1>2. CASE UpdateAllChannelsBalance
  BY <1>0, <1>1, <1>2, Ways, Elsewhere DEF UpdateAllChannelsBalance, Walks
<1>3. CASE UpdateChannelBalance
  <2>1. ASSUME NEW c PROVE Outside([st["balance"] EXCEPT !.list = @ \ {c}])
    BY <1>0, <1>1 DEF Outside
  <2>2. ASSUME NEW c PROVE Outside(Call("balance", [st["balance"] EXCEPT !.list = @ \ {c}], c, "auto"))
    BY <1>0 DEF Outside, Call, Inside, StatusSteps
  <2> QED
    BY <1>0, <1>1, <1>3, <2>1, <2>2, Ways, Elsewhere DEF UpdateChannelBalance, Walks
<1> QED
  BY <1>2, <1>3

\* InitChannelCache touches no lock, and may only end the server.
LEMMA CacheInv ==
    ASSUME Inv, NEW p \in {"admin", "syncer"}, InitChannelCache(p)
    PROVE  Inv'
<1>0. p \in Processes \ {"tester"} /\ "pc" \in DOMAIN st[p]
  BY DEF Processes, Inv, Shaped
<1>1. Outside(st[p]) /\ UNCHANGED <<memory, lock, running, stuck>>
  BY <1>0 DEF InitChannelCache, SyncChannels, SyncGroups, At, Outside, Inside, StatusSteps, Locals, NoChange
<1>2. /\ Outside([Idle EXCEPT !.pc = "groups", !.seen = row])
      /\ Outside([Idle EXCEPT !.pc = "groups"])
  BY IdleOutside DEF Outside, Inside, StatusSteps
<1> QED
  BY <1>0, <1>1, <1>2, Ways, Elsewhere DEF InitChannelCache, SyncChannels, SyncGroups, Walks

\* The handlers of the administrator that start at once, and those that go on.
Starting == \/ AddChannel \/ UpdateChannel \/ DeleteChannel \/ DeleteChannelBatch
            \/ DeleteDisabledChannel \/ SwitchTag \/ EditTag \/ BatchSetChannelTag \/ FixAbility
Going == \/ AddAbilities \/ Reread \/ UpdateAbilities \/ DeleteAbilities
         \/ UpdateAbilityStatusByTag \/ UpdateAbilityByTag \/ GetChannelsByTag
         \/ PruneAbilities \/ MissingAbilities \/ RebuildListed
         \/ RefreshPrefixChannelsCache \/ StorePrefixes("admin")

\* An administrator who is on his way to l has something in hand.
LEMMA AdminWays ==
    ASSUME NEW l, l \notin Inside, NEW x
    PROVE  /\ Outside([Admin(l) EXCEPT !.ch = x])
           /\ Outside([Admin(l) EXCEPT !.seen = x])
           /\ Outside([Admin(l) EXCEPT !.list = x])
           /\ \A y : /\ Outside([Admin(l) EXCEPT !.ch = x, !.copy = y])
                    /\ Outside([Admin(l) EXCEPT !.list = x, !.seen = y])
                    /\ \A z : /\ Outside([Admin(l) EXCEPT !.tag = x, !.to = y, !.list = z])
                             /\ Outside([Admin(l) EXCEPT !.tag = x, !.copy.tag = y, !.list = z])
BY Ways DEF Outside

\* What the administrator starts is outside of the lock.
LEMMA StartingInv ==
    ASSUME Inv, Starting
    PROVE  Inv'
<1>0. "admin" \in Processes \ {"tester"} /\ "pc" \in DOMAIN st["admin"]
  BY DEF Processes, Inv, Shaped
<1>1. Outside(st["admin"]) /\ UNCHANGED <<memory, lock, running, stuck>>
  BY <1>0 DEF Starting, AddChannel, UpdateChannel, DeleteChannel, DeleteChannelBatch,
              DeleteDisabledChannel, SwitchTag, EditTag, BatchSetChannelTag, FixAbility,
              Job, At, Outside, Inside, StatusSteps, NoChange, Locals
<1>2. \A l \in {"insert", "reread", "unlink", "switch", "retag", "relist", "prune"} : l \notin Inside
  BY DEF Inside, StatusSteps
<1>3. CASE DeleteChannelBatch \/ DeleteDisabledChannel \/ BatchSetChannelTag
  BY <1>0, <1>1, <1>3, Elsewhere DEF DeleteChannelBatch, DeleteDisabledChannel, BatchSetChannelTag, Walks
<1>4. CASE AddChannel
  BY <1>0, <1>1, <1>2, <1>4, AdminWays, Elsewhere DEF AddChannel, Walks
<1>5. CASE UpdateChannel
  BY <1>0, <1>1, <1>2, <1>5, AdminWays, Elsewhere DEF UpdateChannel, Walks
<1>6. CASE DeleteChannel
  BY <1>0, <1>1, <1>2, <1>6, AdminWays, Elsewhere DEF DeleteChannel, Walks
<1>7. CASE SwitchTag
  BY <1>0, <1>1, <1>2, <1>7, AdminWays, Elsewhere DEF SwitchTag, Walks
<1>8. CASE EditTag
  BY <1>0, <1>1, <1>2, <1>8, AdminWays, Elsewhere DEF EditTag, Walks
<1>9. CASE FixAbility
  BY <1>0, <1>1, <1>2, <1>9, AdminWays, Elsewhere DEF FixAbility, Walks
<1> QED
  BY <1>3, <1>4, <1>5, <1>6, <1>7, <1>8, <1>9 DEF Starting

\* What the administrator has in hand never meets the lock.
LEMMA GoingInv ==
    ASSUME Inv, Going
    PROVE  Inv'
<1>0. "admin" \in Processes \ {"tester"} /\ "pc" \in DOMAIN st["admin"]
  BY DEF Processes, Inv, Shaped
<1>1. Outside(st["admin"]) /\ UNCHANGED <<memory, lock, running, stuck>>
  BY <1>0 DEF Going, AddAbilities, Reread, UpdateAbilities, DeleteAbilities,
              UpdateAbilityStatusByTag, UpdateAbilityByTag, GetChannelsByTag, PruneAbilities,
              MissingAbilities, RebuildListed, RefreshPrefixChannelsCache, StorePrefixes,
              At, Outside, Inside, StatusSteps, NoChange, Locals
<1>2. \A l \in {"edit", "fix", "sync", "store"} : l \notin Inside
  BY DEF Inside, StatusSteps
<1>3. CASE AddAbilities \/ UpdateAbilities \/ DeleteAbilities \/ UpdateAbilityStatusByTag
           \/ UpdateAbilityByTag \/ StorePrefixes("admin")
  BY <1>0, <1>1, <1>3, Ways, Elsewhere
     DEF AddAbilities, UpdateAbilities, DeleteAbilities, UpdateAbilityStatusByTag,
         UpdateAbilityByTag, StorePrefixes, Walks
<1>4. CASE Reread
  <2>1. ASSUME NEW r PROVE Outside([st["admin"] EXCEPT !.pc = "rebuild", !.copy = r])
    BY <1>0 DEF Outside, Inside, StatusSteps
  <2>2. \E r : Become("admin", [st["admin"] EXCEPT !.pc = "rebuild", !.copy = r])
    BY <1>4 DEF Reread
  <2> QED
    BY <1>0, <1>1, <2>1, <2>2, Elsewhere DEF Walks
<1>5. CASE GetChannelsByTag
  BY <1>0, <1>1, <1>2, <1>5, Ways, AdminWays, Elsewhere DEF GetChannelsByTag, Walks
<1>6. CASE PruneAbilities
  <2>1. Outside([st["admin"] EXCEPT !.pc = "missing"])
    BY <1>0 DEF Outside, Inside, StatusSteps
  <2> QED
    BY <1>0, <1>1, <1>6, <2>1, Ways, Elsewhere DEF PruneAbilities, Walks
<1>7. CASE MissingAbilities
  BY <1>0, <1>1, <1>2, <1>7, AdminWays, Elsewhere DEF MissingAbilities, Walks
<1>8. CASE RebuildListed
  <2>1. ASSUME NEW c PROVE Outside([st["admin"] EXCEPT !.list = @ \ {c}])
    BY <1>0, <1>1 DEF Outside
  <2> QED
    BY <1>0, <1>1, <1>2, <1>8, <2>1, Ways, Elsewhere DEF RebuildListed, Walks
<1>9. CASE RefreshPrefixChannelsCache
  BY <1>0, <1>1, <1>2, <1>9, AdminWays, Elsewhere DEF RefreshPrefixChannelsCache, Walks
<1> QED
  BY <1>3, <1>4, <1>5, <1>6, <1>7, <1>8, <1>9 DEF Going

(***************************************************************************)
(* The theorems.                                                           *)
(***************************************************************************)

\* At the start nobody has the lock or the flag.
LEMMA InitInv == Init => Inv
BY ChannelsAssumption, IdleOutside
   DEF Init, Inv, Shaped, LockHeld, Guarded, TestAlive, Inside, StatusSteps

\* Every step keeps lock and flag with one who will give them back.
LEMMA NextInv == Inv /\ [Next]_vars => Inv'
<1> SUFFICES ASSUME Inv, [Next]_vars PROVE Inv'
  OBVIOUS
<1>0. "ban" \in Processes /\ "tester" \in Processes /\ "balance" \in Processes
  BY DEF Processes
<1>1. CASE Request
  BY <1>1, RequestWalks, RefusedInv DEF Request
<1>2. CASE UpdateChannelStatusById("ban")
  BY <1>0, <1>2, StatusInv
<1>3. CASE TestAll
  BY <1>0, <1>3, StatusInv, TestAllChannelsInv, TestChannelInv, TestsDoneInv DEF TestAll
<1>4. CASE UpdateBalances
  BY <1>0, <1>4, StatusInv, BalancesInv DEF UpdateBalances
<1>5. CASE Administer
  BY <1>5, StartingInv, GoingInv, CacheInv DEF Administer, Starting, Going
<1>6. CASE InitChannelCache("syncer")
  BY <1>6, CacheInv
<1>7. CASE PrefixesExpire
  BY <1>7, Still DEF PrefixesExpire, Locals
<1>8. CASE UNCHANGED vars
  BY <1>8, Still DEF vars
<1> QED
  BY <1>1, <1>2, <1>3, <1>4, <1>5, <1>6, <1>7, <1>8 DEF Next

\* The invariant is inductive.
THEOREM InvHolds == Spec => []Inv
BY InitInv, NextInv, PTL DEF Spec

\* channelStatusLock is only ever held by an update that is about to return, and
\* with the memory cache only its holder is past it; testAllChannelsRunning is
\* only set while a test goes on, unless its list could not be read.
THEOREM OwnersAliveAlways == Spec => []OwnersAlive
<1>1. Inv => OwnersAlive
  BY DEF Inv, LockHeld, Guarded, TestAlive, OwnersAlive, Inside
<1> QED
  BY <1>1, InvHolds, PTL

(***************************************************************************)
(* Types.  What a process has in hand is of its type, a process that works *)
(* on a channel names one, and a test or a balance update that calls       *)
(* UpdateChannelStatusById has read its channel enabled or automatically   *)
(* disabled: never one the administrator had disabled.                     *)
(***************************************************************************)
Callers == {"ban", "tester", "balance"}

Fits(p, l) ==
  /\ l \in Hands
  /\ l.pc \in StatusSteps \cup RowSteps \cup {"using"} => l.ch \in Channels
  /\ l.pc \in StatusSteps => p \in Callers
  /\ l.pc \in RowSteps \cup ListSteps => p = "admin"
  /\ l.pc \in StatusSteps /\ p # "ban" => l.seen[l.ch].status \in {"enabled", "auto"}

InHand == st \in [Processes -> Hands] /\ \A p \in Processes : Fits(p, st[p])
TablesOK == row \in [Channels -> Rows] /\ ability \in [Channels -> Rows]
RestOK ==
  /\ memory \in BOOLEAN /\ running \in BOOLEAN /\ up \in BOOLEAN /\ stuck \in BOOLEAN
  /\ cached \in [Channels -> Statuses \cup {"none"}]
  /\ prefixed \in [there : BOOLEAN, set : SUBSET Channels]
  /\ ids \subseteq Channels
  /\ lock \in Processes \cup {None}
  /\ turn \in 0 .. RetryTimes
  /\ events \in 0 .. MaxEvents
  /\ suspect \subseteq Channels
Typed == InHand /\ TablesOK /\ RestOK

\* TypeOK in three parts.
LEMMA TypedIsTypeOK == Typed => TypeOK
BY DEF Typed, InHand, Fits, TablesOK, RestOK, TypeOK

\* The places by name.
LEMMA Names ==
    /\ StatusSteps = {"status", "ability", "read", "update", "save"}
    /\ RowSteps = {"insert", "reread", "rebuild", "unlink"}
    /\ ListSteps = {"switch", "retag", "relist", "prune", "missing", "fix", "edit"}
    /\ Places = StatusSteps \cup RowSteps \cup ListSteps
                  \cup {"idle", "using", "next", "refresh", "store", "sync", "groups"}
    /\ Processes = {"admin", "request", "ban", "tester", "balance", "syncer"}
    /\ Callers \subseteq Processes
BY DEF StatusSteps, RowSteps, ListSteps, Places, Processes, Callers

\* An empty row, and an idle process.
LEMMA BlankTyped == BlankRow \in Rows /\ BlankRow.status = "none" /\ Blank \in [Channels -> Rows]
<1>1. (CHOOSE t \in Tags : TRUE) \in Tags
  BY ChannelsAssumption
<1>2. BlankRow \in Rows /\ BlankRow.status = "none"
  BY <1>1 DEF BlankRow, Rows
<1> QED
  BY <1>2 DEF Blank

\* An idle process has nothing in hand.
LEMMA IdleFits == Idle \in Hands /\ Idle.pc = "idle" /\ \A p : Fits(p, Idle)
<1>1. Idle \in Hands /\ Idle.pc = "idle"
  BY BlankTyped, Names DEF Idle, Hands, Statuses, Rows
<1> QED
  BY <1>1, Names DEF Fits

\* Wherever nobody works on a channel, anybody may be.
LEMMA FreePlace ==
    ASSUME NEW l \in Hands, l.pc \in {"idle", "next", "refresh", "store", "sync", "groups"}, NEW p
    PROVE  Fits(p, l)
BY Names DEF Fits

\* A step of p that leaves it with m in hand.
LEMMA Takes ==
    ASSUME InHand, NEW p \in Processes, NEW m, Become(p, m), Fits(p, m)
    PROVE  InHand'
<1>1. st' = [st EXCEPT ![p] = m] /\ m \in Hands
  BY DEF Become, Fits
<1>2. st' \in [Processes -> Hands] /\ st'[p] = m /\ \A q \in Processes \ {p} : st'[q] = st[q]
  BY <1>1 DEF InHand
<1> QED
  BY <1>2 DEF InHand

(***************************************************************************)
(* What is in hand after each step.                                        *)
(***************************************************************************)

\* UpdateChannelStatusById goes on with what it has, or returns.
LEMMA StatusTakes ==
    ASSUME Typed, NEW p \in Callers, UpdateChannelStatusById(p)
    PROVE  InHand'
<1> DEFINE l == st[p]
<1>1. Fits(p, l) /\ l \in Hands /\ p \in Processes /\ l.pc \in StatusSteps
  BY Names DEF Typed, InHand, Fits, UpdateChannelStatusById, StatusLock, UpdateAbilityStatus,
               ReadChannel, UpdateStatus, SaveChannel, At
<1>2. row[l.ch] \in Rows
  BY <1>1 DEF Fits, Typed, TablesOK
<1>3. Fits(p, Returned(p))
  <2>1. [l EXCEPT !.pc = "next", !.ch = None, !.copy = BlankRow] \in Hands
    BY <1>1, BlankTyped, Names DEF Hands
  <2>2. [l EXCEPT !.pc = "next", !.ch = None, !.copy = BlankRow].pc = "next"
    BY <1>1 DEF Hands
  <2> QED
    BY <2>1, <2>2, FreePlace, IdleFits DEF Returned
<1>4. ASSUME NEW pc \in StatusSteps PROVE Fits(p, [l EXCEPT !.pc = pc])
  <2>1. LET m == [l EXCEPT !.pc = pc]
        IN m \in Hands /\ m.pc = pc /\ m.ch = l.ch /\ m.seen = l.seen
    BY <1>1, Names DEF Hands
  <2> QED
    BY <1>1, <2>1, Names DEF Fits
<1>5. ASSUME NEW pc \in StatusSteps PROVE Fits(p, [l EXCEPT !.copy = row[l.ch], !.pc = pc])
  <2>1. LET m == [l EXCEPT !.copy = row[l.ch], !.pc = pc]
        IN m \in Hands /\ m.pc = pc /\ m.ch = l.ch /\ m.seen = l.seen
    BY <1>1, <1>2, Names DEF Hands
  <2> QED
    BY <1>1, <2>1, Names DEF Fits
<1> HIDE DEF l
<1>6. \/ Become(p, Returned(p))
      \/ \E pc \in StatusSteps : Become(p, [l EXCEPT !.pc = pc])
      \/ \E pc \in StatusSteps : Become(p, [l EXCEPT !.copy = row[l.ch], !.pc = pc])
  BY Names DEF UpdateChannelStatusById, StatusLock, UpdateAbilityStatus, ReadChannel,
               UpdateStatus, SaveChannel, Return, l
<1> QED
  BY <1>1, <1>3, <1>4, <1>5, <1>6, Takes DEF Typed

\* A call names its channel, and its caller has read it so.
LEMMA CallFits ==
    ASSUME NEW p \in Callers, NEW l \in Hands, NEW c \in Channels, NEW to \in {"auto", "enabled"},
           p # "ban" => l.seen[c].status \in {"enabled", "auto"}
    PROVE  Fits(p, Call(p, l, c, to)) /\ Call(p, l, c, to).pc = "status"
<1>1. LET m == Call(p, l, c, to)
      IN m \in Hands /\ m.pc = "status" /\ m.ch = c /\ m.seen = l.seen
  BY Names DEF Hands, Call, Statuses
<1> QED
  BY <1>1, Names DEF Fits

\* A request is with a channel, on its way to the prefix cache, or done.
LEMMA UsingFits ==
    ASSUME NEW c \in Channels
    PROVE  Fits("request", Using(c))
<1>1. Using(c) \in Hands /\ Using(c).pc = "using" /\ Using(c).ch = c
  BY IdleFits, Names DEF Using, Hands
<1> QED
  BY <1>1, Names DEF Fits

\* A request goes on with a channel, and what it sets off is about that channel.
LEMMA RequestTakes ==
    ASSUME Typed, Request
    PROVE  InHand'
<1>1. "request" \in Processes /\ "ban" \in Processes /\ "ban" \in Callers
  BY Names DEF Callers
<1>2. CASE Distribute \/ Answered
  BY <1>1, <1>2, Takes, UsingFits, IdleFits
     DEF Typed, Distribute, Answered, Chosen, OfTurn, Usable, EnabledIn
<1>3. CASE DistributeByPrefix
  <2>1. LET m == [Idle EXCEPT !.pc = "store", !.seen = row] IN m \in Hands /\ m.pc = "store"
    BY IdleFits, Names DEF Hands, Typed, TablesOK
  <2>2. Fits("request", [Idle EXCEPT !.pc = "store", !.seen = row])
    BY <2>1, FreePlace
  <2>3. prefixed.set \subseteq Channels
    BY DEF Typed, RestOK
  <2> QED
    BY <1>1, <1>3, <2>2, <2>3, Takes, UsingFits DEF Typed, DistributeByPrefix
<1>4. CASE StorePrefixes("request")
  <2>1. prefixed'.set \subseteq Channels
    BY <1>4 DEF StorePrefixes, EnabledIn
  <2> QED
    BY <1>1, <1>4, <2>1, Takes, UsingFits, IdleFits DEF Typed, StorePrefixes
<1>5. CASE Refused
  <2> DEFINE c == st["request"].ch
             call == Call("ban", Idle, c, "auto")
             after == {Idle} \cup (IF turn < RetryTimes THEN {Using(d) : d \in Chosen(turn + 1)} ELSE {})
  <2>1. PICK ban \in BOOLEAN, next \in after :
          st' = [st EXCEPT !["request"] = next, !["ban"] = IF ban THEN call ELSE @]
    BY <1>5, Zenon DEF Refused
  <2>2. Fits("request", next)
    <3>1. Chosen(turn + 1) \subseteq Channels
      BY DEF Chosen, OfTurn, Usable
    <3> QED
      BY <3>1, UsingFits, IdleFits
  <2>3. c \in Channels
    BY <1>1, <1>5 DEF Refused, At, Typed, InHand, Fits
  <2>4. Fits("ban", call)
    BY <1>1, <2>3, CallFits, IdleFits
  <2> HIDE DEF call, after
  <2>5. next \in Hands /\ call \in Hands /\ InHand
    BY <2>2, <2>4 DEF Typed, Fits
  <2>6. /\ st' \in [Processes -> Hands] /\ st'["request"] = next
        /\ st'["ban"] = call \/ st'["ban"] = st["ban"]
        /\ \A q \in Processes \ {"request", "ban"} : st'[q] = st[q]
    BY <1>1, <2>1, <2>5 DEF InHand
  <2> QED
    BY <2>2, <2>4, <2>5, <2>6 DEF InHand
<1> QED
  BY <1>2, <1>3, <1>4, <1>5 DEF Request

\* testAllChannels and updateAllChannelsBalance go through what they have read.
LEMMA ListedFits ==
    ASSUME Typed
    PROVE  \A p : Fits(p, Listed)
<1>1. Listed \in Hands /\ Listed.pc = "next"
  BY IdleFits, Names DEF Listed, Hands, Typed, TablesOK, In
<1> QED
  BY <1>1, FreePlace

\* Tests and balance updates call for channels they have read so.
LEMMA TestersTake ==
    ASSUME Typed, \/ TestAllChannels \/ TestChannel \/ TestsDone
                  \/ UpdateAllChannelsBalance \/ UpdateChannelBalance
    PROVE  InHand'
<1>1. "tester" \in Processes /\ "balance" \in Processes /\ {"tester", "balance"} \subseteq Callers
  BY Names DEF Callers
<1>2. CASE TestAllChannels
  BY <1>1, <1>2, Takes, ListedFits DEF TestAllChannels, Typed, InHand
<1>3. CASE TestsDone
  BY <1>1, <1>3, Takes, IdleFits DEF TestsDone, Typed
<1>4. CASE UpdateAllChannelsBalance
  BY <1>1, <1>4, Takes, ListedFits DEF UpdateAllChannelsBalance, Typed
<1>5. ASSUME NEW p \in {"tester", "balance"}, NEW c \in st[p].list, st[p].pc = "next"
      PROVE  LET rest == [st[p] EXCEPT !.list = @ \ {c}]
             IN /\ Fits(p, rest)
                /\ \A to \in {"auto", "enabled"} :
                      st[p].seen[c].status \in {"enabled", "auto"} => Fits(p, Call(p, rest, c, to))
  <2> DEFINE rest == [st[p] EXCEPT !.list = @ \ {c}]
  <2>1. st[p] \in Hands /\ c \in Channels
    BY <1>1 DEF Typed, InHand, Fits, Hands
  <2>2. rest \in Hands /\ rest.pc = "next" /\ rest.seen = st[p].seen
    BY <1>5, <2>1 DEF Hands
  <2> HIDE DEF rest
  <2>3. Fits(p, rest)
    BY <2>2, FreePlace
  <2>4. ASSUME NEW to \in {"auto", "enabled"}, st[p].seen[c].status \in {"enabled", "auto"}
        PROVE  Fits(p, Call(p, rest, c, to))
    BY <1>1, <2>1, <2>2, <2>4, CallFits
  <2> QED
    BY <2>3, <2>4 DEF rest
<1>6. CASE TestChannel
  <2>1. PICK c \in st["tester"].list :
           LET rest == [st["tester"] EXCEPT !.list = @ \ {c}]
           IN \/ Become("tester", rest)
              \/ \E to \in {"auto", "enabled"} :
                    /\ st["tester"].seen[c].status \in {"enabled", "auto"}
                    /\ Become("tester", Call("tester", rest, c, to))
    BY <1>6 DEF TestChannel, ShouldEnableChannel
  <2>2. st["tester"].pc = "next"
    BY <1>6 DEF TestChannel, At
  <2> QED
    BY <1>1, <1>5, <2>1, <2>2, Takes DEF Typed
<1>7. CASE UpdateChannelBalance
  <2>1. st["balance"].pc = "next"
    BY <1>7 DEF UpdateChannelBalance, At
  <2>2. \/ Become("balance", Idle)
        \/ \E c \in st["balance"].list :
           LET rest == [st["balance"] EXCEPT !.list = @ \ {c}]
           IN \/ Become("balance", rest)
              \/ /\ st["balance"].seen[c].status \in {"enabled", "auto"}
                 /\ Become("balance", Call("balance", rest, c, "auto"))
    BY <1>7 DEF UpdateChannelBalance
  <2> QED
    BY <1>1, <1>5, <2>1, <2>2, Takes, IdleFits DEF Typed
<1> QED
  BY <1>2, <1>3, <1>4, <1>6, <1>7

\* What the administrator may have in hand.
LEMMA AdminFits ==
    ASSUME NEW l \in Hands, l.pc \notin StatusSteps, l.pc \in RowSteps \cup {"using"} => l.ch \in Channels
    PROVE  Fits("admin", l)
BY DEF Fits

\* An administrator on his way to l.
LEMMA AdminHands ==
    ASSUME NEW l \in Places
    PROVE  /\ Admin(l) \in Hands /\ Admin(l).pc = l /\ Admin(l).list = {}
           /\ Admin(l).copy \in Rows
<1>1. Admin(l) \in Hands /\ Admin(l).pc = l /\ Admin(l).list = {}
  BY IdleFits DEF Admin, Hands, Idle
<1> QED
  BY <1>1 DEF Hands

\* An administrator at work on a row.
LEMMA RowFits ==
    ASSUME NEW l \in RowSteps, NEW c \in Channels, NEW r \in Rows
    PROVE  /\ LET m == [Admin(l) EXCEPT !.ch = c, !.copy = r]
              IN Fits("admin", m) /\ m.pc = l /\ m.ch = c /\ m.copy = r
           /\ LET m == [Admin(l) EXCEPT !.ch = c]
              IN Fits("admin", m) /\ m.pc = l /\ m.ch = c
<1> DEFINE m == [Admin(l) EXCEPT !.ch = c, !.copy = r]
           n == [Admin(l) EXCEPT !.ch = c]
<1>1. l \in Places /\ l \notin StatusSteps
  BY Names
<1>2. /\ m \in Hands /\ m.pc = l /\ m.ch = c /\ m.copy = r
      /\ n \in Hands /\ n.pc = l /\ n.ch = c
  <2> DEFINE a == Admin(l)
  <2>1. a \in Hands /\ a.pc = l
    BY <1>1, AdminHands
  <2> HIDE DEF a
  <2>2. LET k == [a EXCEPT !.ch = c, !.copy = r] IN k \in Hands /\ k.pc = l /\ k.ch = c /\ k.copy = r
    BY <2>1 DEF Hands
  <2>3. LET k == [a EXCEPT !.ch = c] IN k \in Hands /\ k.pc = l /\ k.ch = c
    BY <2>1 DEF Hands
  <2> QED
    BY <2>2, <2>3 DEF a
<1> HIDE DEF m, n
<1>3. Fits("admin", m) /\ Fits("admin", n)
  BY <1>1, <1>2, AdminFits
<1> QED
  BY <1>2, <1>3 DEF m, n

\* An administrator at work on a list, or on none.
LEMMA ListFits ==
    ASSUME NEW l \in ListSteps \cup {"refresh", "store", "sync"},
           NEW S \in SUBSET Channels, NEW seen \in [Channels -> Rows]
    PROVE  /\ Fits("admin", Admin(l)) /\ Admin(l).pc = l
           /\ LET m == [Admin(l) EXCEPT !.list = S]
              IN Fits("admin", m) /\ m.pc = l /\ m.list = S
           /\ LET m == [Admin(l) EXCEPT !.seen = seen]
              IN Fits("admin", m) /\ m.pc = l
           /\ LET m == [Admin(l) EXCEPT !.list = S, !.seen = seen]
              IN Fits("admin", m) /\ m.pc = l /\ m.list = S /\ m.seen = seen
<1> DEFINE m == [Admin(l) EXCEPT !.list = S]
           n == [Admin(l) EXCEPT !.seen = seen]
           k == [Admin(l) EXCEPT !.list = S, !.seen = seen]
<1>1. l \in Places /\ l \notin StatusSteps /\ l \notin RowSteps \cup {"using"}
  BY Names
<1>2. /\ m \in Hands /\ m.pc = l /\ m.list = S /\ n \in Hands /\ n.pc = l
      /\ k \in Hands /\ k.pc = l /\ k.list = S /\ k.seen = seen
      /\ Admin(l) \in Hands /\ Admin(l).pc = l
  <2> DEFINE a == Admin(l)
  <2>1. a \in Hands /\ a.pc = l
    BY <1>1, AdminHands
  <2> HIDE DEF a
  <2>2. LET h == [a EXCEPT !.list = S] IN h \in Hands /\ h.pc = l /\ h.list = S
    BY <2>1 DEF Hands
  <2>3. LET h == [a EXCEPT !.seen = seen] IN h \in Hands /\ h.pc = l
    BY <2>1 DEF Hands
  <2>4. LET h == [a EXCEPT !.list = S, !.seen = seen]
        IN h \in Hands /\ h.pc = l /\ h.list = S /\ h.seen = seen
    BY <2>1 DEF Hands
  <2> QED
    BY <2>1, <2>2, <2>3, <2>4 DEF a
<1> HIDE DEF m, n, k
<1>3. Fits("admin", m) /\ Fits("admin", n) /\ Fits("admin", k) /\ Fits("admin", Admin(l))
  BY <1>1, <1>2, AdminFits
<1> QED
  BY <1>2, <1>3 DEF m, n, k

\* An administrator at work on the channels of a tag.
LEMMA TagFits ==
    ASSUME NEW l \in ListSteps, NEW t \in Tags, NEW u \in Tags, NEW to \in Statuses,
           NEW S \in SUBSET Channels
    PROVE  /\ LET m == [Admin(l) EXCEPT !.tag = t, !.to = to, !.list = S]
              IN Fits("admin", m) /\ m.pc = l /\ m.tag = t /\ m.to = to /\ m.list = S
           /\ LET m == [Admin(l) EXCEPT !.tag = t, !.copy.tag = u, !.list = S]
              IN Fits("admin", m) /\ m.pc = l /\ m.tag = t /\ m.copy.tag = u /\ m.list = S
<1> DEFINE m == [Admin(l) EXCEPT !.tag = t, !.to = to, !.list = S]
           n == [Admin(l) EXCEPT !.tag = t, !.copy.tag = u, !.list = S]
<1>1. l \in Places /\ l \notin StatusSteps /\ l \notin RowSteps \cup {"using"}
  BY Names
<1>2. /\ m \in Hands /\ m.pc = l /\ m.tag = t /\ m.to = to /\ m.list = S
      /\ n \in Hands /\ n.pc = l /\ n.tag = t /\ n.copy.tag = u /\ n.list = S
  <2> DEFINE a == Admin(l)
  <2>1. a \in Hands /\ a.pc = l /\ a.copy \in Rows
    BY <1>1, AdminHands
  <2>4. [a.copy EXCEPT !.tag = u] \in Rows /\ [a.copy EXCEPT !.tag = u].tag = u
    BY <2>1 DEF Rows
  <2> HIDE DEF a
  <2>2. LET k == [a EXCEPT !.tag = t, !.to = to, !.list = S]
        IN k \in Hands /\ k.pc = l /\ k.tag = t /\ k.to = to /\ k.list = S
    BY <2>1 DEF Hands
  <2>3. LET k == [a EXCEPT !.tag = t, !.copy.tag = u, !.list = S]
        IN k \in Hands /\ k.pc = l /\ k.tag = t /\ k.copy.tag = u /\ k.list = S
    BY <2>1, <2>4 DEF Hands
  <2> QED
    BY <2>2, <2>3 DEF a
<1> HIDE DEF m, n
<1>3. Fits("admin", m) /\ Fits("admin", n)
  BY <1>1, <1>2, AdminFits
<1> QED
  BY <1>2, <1>3 DEF m, n

\* What the administrator starts with.
LEMMA StartingTakes ==
    ASSUME Typed, Starting
    PROVE  InHand'
<1>1. "admin" \in Processes /\ \A t : Tagged(t) \subseteq Channels
  BY Names DEF Tagged, In
<1>2. row \in [Channels -> Rows] /\ In(row) \subseteq Channels
  BY DEF Typed, TablesOK, In
<1>3. {"insert", "reread", "unlink"} \subseteq RowSteps
  BY Names
<1>4. {"switch", "retag", "relist", "prune"} \subseteq ListSteps
  BY Names
<1>5. CASE DeleteChannelBatch \/ DeleteDisabledChannel \/ BatchSetChannelTag
  BY <1>5 DEF DeleteChannelBatch, DeleteDisabledChannel, BatchSetChannelTag, Typed, InHand
<1>6. CASE AddChannel
  <2>1. PICK c \in Channels, t \in Tags :
           LET r == [status |-> "enabled", tag |-> t]
           IN Become("admin", [Admin("insert") EXCEPT !.ch = c, !.copy = r])
    BY <1>6 DEF AddChannel
  <2>2. [status |-> "enabled", tag |-> t] \in Rows
    BY DEF Rows, Statuses
  <2>3. Fits("admin", [Admin("insert") EXCEPT !.ch = c, !.copy = [status |-> "enabled", tag |-> t]])
    BY <1>3, <2>2, RowFits
  <2> QED
    BY <1>1, <2>1, <2>3, Takes DEF Typed
<1>7. CASE UpdateChannel
  <2>1. PICK c \in In(row), s \in Statuses :
           /\ row' = [row EXCEPT ![c].status = s]
           /\ Become("admin", [Admin("reread") EXCEPT !.ch = c, !.copy = row'[c]])
    BY <1>7 DEF UpdateChannel
  <2>2. row'[c] \in Rows /\ c \in Channels
    BY <1>2, <2>1 DEF Rows
  <2>3. Fits("admin", [Admin("reread") EXCEPT !.ch = c, !.copy = row'[c]])
    BY <1>3, <2>2, RowFits
  <2> QED
    BY <1>1, <2>1, <2>3, Takes DEF Typed
<1>8. CASE DeleteChannel
  <2>1. PICK c \in Channels : Become("admin", [Admin("unlink") EXCEPT !.ch = c])
    BY <1>2, <1>8 DEF DeleteChannel
  <2>2. Fits("admin", [Admin("unlink") EXCEPT !.ch = c])
    BY <1>3, BlankTyped, RowFits
  <2> QED
    BY <1>1, <2>1, <2>2, Takes DEF Typed
<1>9. CASE SwitchTag
  <2>1. PICK t \in Tags, s \in Statuses :
           Become("admin", [Admin("switch") EXCEPT !.tag = t, !.to = s, !.list = Tagged(t)])
    BY <1>9 DEF SwitchTag, Statuses
  <2>2. Fits("admin", [Admin("switch") EXCEPT !.tag = t, !.to = s, !.list = Tagged(t)])
    BY <1>1, <1>4, BlankTyped, TagFits
  <2> QED
    BY <1>1, <2>1, <2>2, Takes DEF Typed
<1>10. CASE EditTag
  <2>1. PICK t \in Tags, u \in Tags, again \in BOOLEAN :
           Become("admin", [Admin(IF again THEN "relist" ELSE "retag") EXCEPT
                              !.tag = t, !.copy.tag = u, !.list = Tagged(t)])
    BY <1>10 DEF EditTag
  <2>2. \A l \in {"retag", "relist"} :
           Fits("admin", [Admin(l) EXCEPT !.tag = t, !.copy.tag = u, !.list = Tagged(t)])
    <3>1. "auto" \in Statuses
      BY DEF Statuses
    <3> TAKE l \in {"retag", "relist"}
    <3>2. l \in ListSteps /\ Tagged(t) \in SUBSET Channels
      BY <1>1, <1>4
    <3> QED
      BY <3>1, <3>2, TagFits
  <2> QED
    BY <1>1, <2>1, <2>2, Takes DEF Typed
<1>11. CASE FixAbility
  <2>1. Fits("admin", [Admin("prune") EXCEPT !.list = In(row)])
    BY <1>2, <1>4, ListFits
  <2> QED
    BY <1>1, <1>11, <2>1, Takes DEF Typed, FixAbility
<1> QED
  BY <1>5, <1>6, <1>7, <1>8, <1>9, <1>10, <1>11 DEF Starting

\* What the administrator goes on with.
LEMMA GoingTakes ==
    ASSUME Typed, Going
    PROVE  InHand'
<1> DEFINE l == st["admin"]
<1>1. "admin" \in Processes /\ Fits("admin", l) /\ l \in Hands
  BY Names DEF Typed, InHand, Fits
<1>2. row \in [Channels -> Rows] /\ In(row) \subseteq Channels /\ \A t : Tagged(t) \subseteq Channels
  BY DEF Typed, TablesOK, In, Tagged
<1>3. {"edit", "fix"} \subseteq ListSteps /\ Blank \in [Channels -> Rows]
  BY Names, BlankTyped
<1>4. Fits("admin", Refresh) /\ Fits("admin", Idle)
  <2>1. Refresh = Admin("refresh")
    BY DEF Refresh, Admin
  <2> QED
    BY <1>3, <2>1, ListFits, IdleFits
<1>5. CASE AddAbilities \/ UpdateAbilities \/ DeleteAbilities \/ UpdateAbilityStatusByTag
           \/ UpdateAbilityByTag
  BY <1>1, <1>4, <1>5, Takes
     DEF AddAbilities, UpdateAbilities, DeleteAbilities, UpdateAbilityStatusByTag,
         UpdateAbilityByTag, Typed
<1>6. CASE StorePrefixes("admin")
  BY <1>1, <1>4, <1>6, Takes DEF StorePrefixes, Typed
<1>7. CASE Reread
  <2> DEFINE r == IF l.ch \in In(row) THEN row[l.ch] ELSE l.copy
             m == [l EXCEPT !.pc = "rebuild", !.copy = r]
  <2>1. Become("admin", m)
    BY <1>7 DEF Reread
  <2>2. r \in Rows
    BY <1>1, <1>2 DEF Hands
  <2> HIDE DEF r
  <2>3. m \in Hands /\ m.pc = "rebuild" /\ m.ch = l.ch
    BY <1>1, <2>2, Names DEF Hands
  <2>4. l.ch \in Channels
    BY <1>1, <1>7, Names DEF Fits, Reread, At
  <2> HIDE DEF m
  <2>5. Fits("admin", m)
    BY <2>3, <2>4, AdminFits, Names
  <2> QED
    BY <1>1, <2>1, <2>5, Takes DEF Typed
<1>8. CASE GetChannelsByTag
  <2>1. Fits("admin", [Admin("edit") EXCEPT !.list = Tagged(l.copy.tag), !.seen = row])
    BY <1>2, <1>3, ListFits
  <2> QED
    BY <1>1, <1>4, <1>8, <2>1, Takes DEF GetChannelsByTag, Typed
<1>9. CASE PruneAbilities
  <2>1. LET m == [l EXCEPT !.pc = "missing"] IN m \in Hands /\ m.pc = "missing"
    BY <1>1, Names DEF Hands
  <2>2. Fits("admin", [l EXCEPT !.pc = "missing"])
    <3> DEFINE m == [l EXCEPT !.pc = "missing"]
    <3>1. m \in Hands /\ m.pc = "missing"
      BY <2>1
    <3> HIDE DEF m
    <3>2. Fits("admin", m)
      BY <3>1, Names, AdminFits
    <3> QED
      BY <3>2 DEF m
  <2> QED
    BY <1>1, <1>4, <1>9, <2>2, Takes DEF PruneAbilities, Typed
<1>10. CASE MissingAbilities
  <2>1. Fits("admin", [Admin("fix") EXCEPT !.list = In(row) \ In(ability), !.seen = row])
    BY <1>2, <1>3, ListFits
  <2> QED
    BY <1>1, <1>10, <2>1, Takes DEF MissingAbilities, Typed
<1>11. CASE RebuildListed
  <2>1. ASSUME NEW c PROVE Fits("admin", [l EXCEPT !.list = @ \ {c}])
    <3> DEFINE m == [l EXCEPT !.list = @ \ {c}]
    <3>1. m \in Hands /\ m.pc = l.pc
      BY <1>1 DEF Hands
    <3>2. l.pc \in {"edit", "fix"}
      BY <1>11 DEF RebuildListed, At
    <3> HIDE DEF m, l
    <3>3. Fits("admin", m)
      BY <3>1, <3>2, Names, AdminFits
    <3> QED
      BY <3>3 DEF m, l
  <2>2. Fits("admin", Admin("sync"))
    BY <1>3, ListFits
  <2> QED
    BY <1>1, <1>4, <1>11, <2>1, <2>2, Takes DEF RebuildListed, Typed
<1>12. CASE RefreshPrefixChannelsCache
  <2>1. Fits("admin", [Admin("store") EXCEPT !.seen = row])
    BY <1>2, <1>3, ListFits
  <2> QED
    BY <1>1, <1>12, <2>1, Takes DEF RefreshPrefixChannelsCache, Typed
<1> QED
  BY <1>5, <1>6, <1>7, <1>8, <1>9, <1>10, <1>11, <1>12 DEF Going

\* A sync holds the rows it has read, or none.
LEMMA CacheTakes ==
    ASSUME Typed, NEW p \in {"admin", "syncer"}, InitChannelCache(p)
    PROVE  InHand'
<1>1. p \in Processes /\ row \in [Channels -> Rows]
  BY Names DEF Typed, TablesOK
<1>2. /\ LET m == [Idle EXCEPT !.pc = "groups", !.seen = row] IN m \in Hands /\ m.pc = "groups"
      /\ LET m == [Idle EXCEPT !.pc = "groups"] IN m \in Hands /\ m.pc = "groups"
  BY <1>1, IdleFits, Names DEF Hands
<1>3. Fits(p, [Idle EXCEPT !.pc = "groups", !.seen = row]) /\ Fits(p, [Idle EXCEPT !.pc = "groups"])
  BY <1>2, FreePlace
<1> QED
  BY <1>1, <1>3, IdleFits, Takes DEF InitChannelCache, SyncChannels, SyncGroups, Typed

(***************************************************************************)
(* The tables and the rest after each step.                                *)
(***************************************************************************)

\* Channels become suspect, and no one else.
LEMMA SuspectTyped ==
    ASSUME suspect \subseteq Channels, NEW S \in SUBSET Channels, Suspect(S)
    PROVE  suspect' \subseteq Channels
BY DEF Suspect, Overlap

\* An event is counted up to its bound.
LEMMA EventTyped ==
    ASSUME events \in 0 .. MaxEvents, UNCHANGED events \/ Event
    PROVE  events' \in 0 .. MaxEvents
BY ChannelsAssumption DEF Event

\* The rows and abilities the operators make are rows.
LEMMA RowsTyped ==
    ASSUME TablesOK
    PROVE  /\ \A r \in Rows : AbilityOf(r) \in Rows
           /\ \A S \in SUBSET Channels, table \in [Channels -> Rows] : Rebuilt(S, table) \in [Channels -> Rows]
           /\ \A S \in SUBSET Channels : Unlinked(S) \in [Channels -> Rows] /\ Deleted(S) \in [Channels -> Rows]
           /\ \A r \in Rows, s \in Statuses : [r EXCEPT !.status = s] \in Rows
           /\ \A r \in Rows, t \in Tags : [r EXCEPT !.tag = t] \in Rows
           /\ \A table : In(table) \subseteq Channels /\ EnabledIn(table) \subseteq Channels
           /\ \A t : Tagged(t) \subseteq Channels
<1>1. \A r \in Rows : AbilityOf(r) \in Rows
  BY DEF AbilityOf, Rows, Statuses
<1>2. /\ \A r \in Rows, s \in Statuses : [r EXCEPT !.status = s] \in Rows
      /\ \A r \in Rows, t \in Tags : [r EXCEPT !.tag = t] \in Rows
  BY DEF Rows
<1> QED
  BY <1>1, <1>2, BlankTyped DEF TablesOK, Rebuilt, Unlinked, Deleted, In, EnabledIn, Tagged

\* The memory cache holds statuses.
LEMMA CopiesTyped == \A table : Copies(table) \in [Channels -> Statuses \cup {"none"}]
BY DEF Copies, Statuses

\* A status update writes statuses, and takes or returns the lock.
LEMMA StatusTables ==
    ASSUME Typed, NEW p \in Callers, UpdateChannelStatusById(p)
    PROVE  TablesOK' /\ RestOK'
<1> DEFINE l == st[p]
<1>1. l \in Hands /\ p \in Processes /\ l.pc \in StatusSteps /\ l.ch \in Channels /\ l.to \in Statuses
  <2>1. l \in Hands /\ p \in Processes /\ l.pc \in StatusSteps /\ Fits(p, l)
    BY Names DEF Typed, InHand, Fits, UpdateChannelStatusById, StatusLock, UpdateAbilityStatus,
                 ReadChannel, UpdateStatus, SaveChannel, At
  <2> QED
    BY <2>1 DEF Hands, Fits
<1>2. TablesOK /\ RestOK /\ l.copy \in Rows /\ row[l.ch] \in Rows /\ ability[l.ch] \in Rows
  BY <1>1 DEF Typed, TablesOK, Hands
<1>3. events' \in 0 .. MaxEvents
  BY <1>2, EventTyped DEF UpdateChannelStatusById, StatusLock, UpdateAbilityStatus,
                 ReadChannel, UpdateStatus, SaveChannel, RestOK, Works, Fails
<1>4. suspect' \subseteq Channels
  BY <1>1, <1>2, SuspectTyped DEF UpdateChannelStatusById, StatusLock, UpdateAbilityStatus,
                 ReadChannel, UpdateStatus, SaveChannel, RestOK
<1>5. lock' \in Processes \cup {None}
  BY <1>1, <1>2 DEF UpdateChannelStatusById, StatusLock, UpdateAbilityStatus,
                 ReadChannel, UpdateStatus, SaveChannel, Return, RestOK
<1>6. cached' \in [Channels -> Statuses \cup {"none"}]
  BY <1>1, <1>2 DEF UpdateChannelStatusById, StatusLock, UpdateAbilityStatus,
                 ReadChannel, UpdateStatus, SaveChannel, RestOK, Caches
<1>7. UNCHANGED <<memory, running, turn, up, stuck, ids, prefixed>>
  BY DEF UpdateChannelStatusById, StatusLock, UpdateAbilityStatus, ReadChannel, UpdateStatus,
         SaveChannel, Tables, Caches
<1>8. RestOK'
  BY <1>2, <1>3, <1>4, <1>5, <1>6, <1>7 DEF RestOK
<1>9. row' \in [Channels -> Rows]
  <2>1. CASE UNCHANGED row
    BY <1>2, <2>1 DEF TablesOK
  <2>2. CASE row' = [row EXCEPT ![l.ch].status = IF @ = "none" THEN @ ELSE l.to]
    <3>1. [row[l.ch] EXCEPT !.status = IF @ = "none" THEN @ ELSE l.to] \in Rows
      BY <1>1, <1>2 DEF Rows
    <3> QED
      BY <1>2, <2>2, <3>1 DEF TablesOK
  <2>3. CASE row' = [row EXCEPT ![l.ch] = [l.copy EXCEPT !.status = l.to]]
    <3>1. [l.copy EXCEPT !.status = l.to] \in Rows
      BY <1>1, <1>2 DEF Rows
    <3> QED
      BY <1>2, <2>3, <3>1 DEF TablesOK
  <2> QED
    BY <2>1, <2>2, <2>3 DEF UpdateChannelStatusById, StatusLock, UpdateAbilityStatus,
                 ReadChannel, UpdateStatus, SaveChannel, Tables
<1>10. ability' \in [Channels -> Rows]
  <2>1. CASE UNCHANGED ability
    BY <1>2, <2>1 DEF TablesOK
  <2>2. CASE ability' = [ability EXCEPT ![l.ch].status =
             IF @ = "none" THEN @ ELSE IF l.to = "enabled" THEN "enabled" ELSE "manual"]
    <3>1. [ability[l.ch] EXCEPT !.status =
             IF @ = "none" THEN @ ELSE IF l.to = "enabled" THEN "enabled" ELSE "manual"] \in Rows
      BY <1>1, <1>2 DEF Rows, Statuses
    <3> QED
      BY <1>2, <2>2, <3>1 DEF TablesOK
  <2> QED
    BY <2>1, <2>2 DEF UpdateChannelStatusById, StatusLock, UpdateAbilityStatus,
                 ReadChannel, UpdateStatus, SaveChannel, Tables
<1> QED
  BY <1>8, <1>9, <1>10 DEF TablesOK

\* A request counts its turns, and may store the prefixes it has read.
LEMMA RequestTables ==
    ASSUME Typed, Request
    PROVE  TablesOK' /\ RestOK'
<1>1. TablesOK /\ RestOK
  BY DEF Typed
<1>2. UNCHANGED <<memory, lock, running, up, stuck, Tables, cached>>
  BY DEF Request, Distribute, DistributeByPrefix, Answered, Refused, StorePrefixes, Locals, Caches
<1>3. events' \in 0 .. MaxEvents
  BY <1>1, EventTyped DEF Request, Distribute, DistributeByPrefix, Answered, Refused, StorePrefixes,
                          Job, Works, RestOK
<1>4. suspect' \subseteq Channels
  BY <1>1, SuspectTyped DEF Request, Distribute, DistributeByPrefix, Answered, Refused, StorePrefixes,
                            RestOK
<1>5. prefixed' \in [there : BOOLEAN, set : SUBSET Channels]
  <2>1. CASE StorePrefixes("request")
    <3>1. EnabledIn(st["request"].seen) \in SUBSET Channels
      BY DEF EnabledIn
    <3>2. prefixed' = [there |-> TRUE, set |-> EnabledIn(st["request"].seen)]
      BY <2>1 DEF StorePrefixes
    <3> QED
      BY <3>1, <3>2
  <2>2. CASE Distribute \/ DistributeByPrefix \/ Answered \/ Refused
    BY <1>1, <2>2 DEF Distribute, DistributeByPrefix, Answered, Refused, RestOK, Caches
  <2> QED
    BY <2>1, <2>2 DEF Request
<1>6. turn' \in 0 .. RetryTimes
  <2>1. turn \in 0 .. RetryTimes /\ RetryTimes \in Nat
    BY <1>1, ChannelsAssumption DEF RestOK
  <2>2. CASE Distribute \/ DistributeByPrefix \/ Answered \/ StorePrefixes("request")
    BY <2>1, <2>2 DEF Distribute, DistributeByPrefix, Answered, StorePrefixes, Locals
  <2>3. CASE Refused
    <3>1. "request" \in DOMAIN st /\ "ban" \in DOMAIN st
      BY Names DEF Typed, InHand
    <3>2. st'["request"] # Idle => turn < RetryTimes
      <4> DEFINE call == Call("ban", Idle, st["request"].ch, "auto")
                 more == IF turn < RetryTimes THEN {Using(d) : d \in Chosen(turn + 1)} ELSE {}
      <4>1. PICK ban \in BOOLEAN, next \in {Idle} \cup more :
               st' = [st EXCEPT !["request"] = next, !["ban"] = IF ban THEN call ELSE @]
        BY <2>3, Zenon DEF Refused
      <4>2. st'["request"] = next
        BY <3>1, <4>1
      <4> QED
        BY <4>2
    <3>3. turn' = IF st'["request"] = Idle THEN 0 ELSE turn + 1
      BY <2>3 DEF Refused
    <3> QED
      BY <2>1, <3>2, <3>3
  <2> QED
    BY <2>2, <2>3 DEF Request
<1> QED
  BY <1>1, <1>2, <1>3, <1>4, <1>5, <1>6 DEF TablesOK, RestOK, Tables

\* Tests and balance updates move themselves and their flags.
LEMMA TestersTables ==
    ASSUME Typed, \/ TestAllChannels \/ TestChannel \/ TestsDone
                  \/ UpdateAllChannelsBalance \/ UpdateChannelBalance
    PROVE  TablesOK' /\ RestOK'
<1>1. TablesOK /\ RestOK
  BY DEF Typed
<1>2. UNCHANGED <<memory, lock, turn, up, Tables, Caches>> /\ running' \in BOOLEAN /\ stuck' \in BOOLEAN
  BY <1>1 DEF TestAllChannels, TestChannel, TestsDone, UpdateAllChannelsBalance, UpdateChannelBalance,
              Locals, RestOK
<1>3. events' \in 0 .. MaxEvents
  BY <1>1, EventTyped DEF TestAllChannels, TestChannel, TestsDone, UpdateAllChannelsBalance,
                          UpdateChannelBalance, Job, Works, RestOK
<1>4. suspect' \subseteq Channels
  BY <1>1, SuspectTyped DEF TestAllChannels, TestChannel, TestsDone, UpdateAllChannelsBalance,
                            UpdateChannelBalance, RestOK
<1> QED
  BY <1>1, <1>2, <1>3, <1>4 DEF TablesOK, RestOK, Tables, Caches

\* What the administrator starts writes rows.
LEMMA StartingTables ==
    ASSUME Typed, Starting
    PROVE  TablesOK' /\ RestOK'
<1>1. TablesOK /\ RestOK
  BY DEF Typed
<1>2. UNCHANGED <<memory, lock, running, turn, up, stuck, cached, prefixed>>
  BY DEF Starting, AddChannel, UpdateChannel, DeleteChannel, DeleteChannelBatch,
         DeleteDisabledChannel, SwitchTag, EditTag, BatchSetChannelTag, FixAbility,
         NoChange, Locals, Caches
<1>3. events' \in 0 .. MaxEvents
  BY <1>1, EventTyped DEF Starting, AddChannel, UpdateChannel, DeleteChannel, DeleteChannelBatch,
         DeleteDisabledChannel, SwitchTag, EditTag, BatchSetChannelTag, FixAbility, Job, RestOK
<1>4. suspect' \subseteq Channels
  <2>1. In(row) \subseteq Channels
    BY DEF In
  <2>2. CASE DeleteChannelBatch \/ DeleteDisabledChannel \/ BatchSetChannelTag
    BY <1>1, <2>1, <2>2 DEF DeleteChannelBatch, DeleteDisabledChannel, BatchSetChannelTag, RestOK
  <2>3. CASE \/ AddChannel \/ UpdateChannel \/ DeleteChannel \/ SwitchTag \/ EditTag \/ FixAbility
    BY <1>1, <2>3, SuspectTyped DEF AddChannel, UpdateChannel, DeleteChannel, SwitchTag, EditTag,
                                    FixAbility, RestOK
  <2> QED
    BY <2>2, <2>3 DEF Starting
<1>5. ids' \subseteq Channels
  BY <1>1 DEF Starting, AddChannel, UpdateChannel, DeleteChannel, DeleteChannelBatch,
         DeleteDisabledChannel, SwitchTag, EditTag, BatchSetChannelTag, FixAbility, Tables, RestOK
<1>6. row' \in [Channels -> Rows] /\ ability' \in [Channels -> Rows]
  <2>0. row \in [Channels -> Rows] /\ ability \in [Channels -> Rows] /\ In(row) \subseteq Channels
    BY <1>1 DEF TablesOK, In
  <2>1. CASE AddChannel
    <3>1. \A t \in Tags : [status |-> "enabled", tag |-> t] \in Rows
      BY DEF Rows, Statuses
    <3> QED
      BY <2>0, <2>1, <3>1 DEF AddChannel
  <2>2. CASE UpdateChannel
    <3>1. \A c \in Channels, s \in Statuses : [row[c] EXCEPT !.status = s] \in Rows
      BY <1>1, <2>0, RowsTyped
    <3> QED
      BY <2>0, <2>2, <3>1 DEF UpdateChannel
  <2>3. CASE DeleteChannel \/ DeleteChannelBatch \/ DeleteDisabledChannel \/ FixAbility
    <3>1. UNCHANGED row \/ \E S \in SUBSET Channels : row' = Deleted(S)
      BY <2>0, <2>3 DEF DeleteChannel, DeleteChannelBatch, DeleteDisabledChannel, FixAbility, Tables
    <3>2. UNCHANGED ability \/ \E S \in SUBSET Channels : ability' = Unlinked(S)
      BY <2>0, <2>3 DEF DeleteChannel, DeleteChannelBatch, DeleteDisabledChannel, FixAbility, Tables
    <3> QED
      BY <1>1, <2>0, <3>1, <3>2, RowsTyped
  <2>4. CASE SwitchTag
    <3>1. PICK t \in Tags, s \in {"enabled", "manual"} :
             row' = [c \in Channels |-> IF c \in Tagged(t) THEN [row[c] EXCEPT !.status = s] ELSE row[c]]
      BY <2>4 DEF SwitchTag
    <3>2. \A c \in Channels : [row[c] EXCEPT !.status = s] \in Rows
      BY <2>0 DEF Rows, Statuses
    <3> QED
      BY <2>0, <2>4, <3>1, <3>2 DEF SwitchTag
  <2>5. CASE EditTag
    <3>1. PICK t \in Tags, u \in Tags :
             row' = [c \in Channels |-> IF c \in Tagged(t) THEN [row[c] EXCEPT !.tag = u] ELSE row[c]]
      BY <2>5 DEF EditTag
    <3>2. \A c \in Channels : [row[c] EXCEPT !.tag = u] \in Rows
      BY <2>0 DEF Rows
    <3> QED
      BY <2>0, <2>5, <3>1, <3>2 DEF EditTag
  <2>6. CASE BatchSetChannelTag
    <3>1. PICK S \in SUBSET In(row), t \in Tags :
             /\ row' = [c \in Channels |-> IF c \in S THEN [row[c] EXCEPT !.tag = t] ELSE row[c]]
             /\ ability' = Rebuilt(S, row)
      BY <2>6 DEF BatchSetChannelTag
    <3>2. \A c \in Channels : [row[c] EXCEPT !.tag = t] \in Rows
      BY <2>0 DEF Rows
    <3>3. S \in SUBSET Channels
      BY <2>0
    <3>4. Rebuilt(S, row) \in [Channels -> Rows]
      BY <1>1, <2>0, <3>3, RowsTyped
    <3> QED
      BY <2>0, <3>1, <3>2, <3>4
  <2> QED
    BY <2>1, <2>2, <2>3, <2>4, <2>5, <2>6 DEF Starting
<1> QED
  BY <1>1, <1>2, <1>3, <1>4, <1>5, <1>6 DEF TablesOK, RestOK

\* What the administrator goes on with writes abilities.
LEMMA GoingTables ==
    ASSUME Typed, Going
    PROVE  TablesOK' /\ RestOK'
<1> DEFINE l == st["admin"]
<1>1. TablesOK /\ RestOK /\ l \in Hands /\ Fits("admin", l)
  BY Names DEF Typed, InHand
<1>2. UNCHANGED <<memory, lock, running, turn, up, stuck, cached, row, ids>>
  BY DEF Going, AddAbilities, Reread, UpdateAbilities, DeleteAbilities, UpdateAbilityStatusByTag,
         UpdateAbilityByTag, GetChannelsByTag, PruneAbilities, MissingAbilities, RebuildListed,
         RefreshPrefixChannelsCache, StorePrefixes, NoChange, Locals, Caches, Tables
<1>3. events' \in 0 .. MaxEvents
  BY <1>1, EventTyped DEF Going, AddAbilities, Reread, UpdateAbilities, DeleteAbilities,
         UpdateAbilityStatusByTag, UpdateAbilityByTag, GetChannelsByTag, PruneAbilities,
         MissingAbilities, RebuildListed, RefreshPrefixChannelsCache, StorePrefixes,
         Works, Fails, RestOK
<1>4. suspect' \subseteq Channels
  <2>1. \E S : /\ Suspect(S)
               /\ S = {} \/ (S = {l.ch} /\ l.pc \in RowSteps) \/ S = l.list
                  \/ \E c \in l.list : S = {c}
    BY Names DEF Going, AddAbilities, Reread, UpdateAbilities, DeleteAbilities, UpdateAbilityStatusByTag,
         UpdateAbilityByTag, GetChannelsByTag, PruneAbilities, MissingAbilities, RebuildListed,
         RefreshPrefixChannelsCache, StorePrefixes, At
  <2>2. l.list \subseteq Channels /\ (l.pc \in RowSteps => l.ch \in Channels)
    BY <1>1 DEF Fits, Hands
  <2> QED
    BY <1>1, <2>1, <2>2, SuspectTyped DEF RestOK
<1>5. prefixed' \in [there : BOOLEAN, set : SUBSET Channels]
  <2>1. CASE StorePrefixes("admin")
    <3>1. EnabledIn(l.seen) \in SUBSET Channels
      BY DEF EnabledIn
    <3>2. prefixed' = [there |-> TRUE, set |-> EnabledIn(l.seen)]
      BY <2>1 DEF StorePrefixes
    <3> QED
      BY <3>1, <3>2
  <2>2. CASE ~StorePrefixes("admin")
    BY <1>1, <2>2 DEF Going, AddAbilities, Reread, UpdateAbilities, DeleteAbilities,
         UpdateAbilityStatusByTag, UpdateAbilityByTag, GetChannelsByTag, PruneAbilities, MissingAbilities,
         RebuildListed, RefreshPrefixChannelsCache, NoChange, Caches, RestOK
  <2> QED
    BY <2>1, <2>2
<1>6. ability' \in [Channels -> Rows]
  <2>0. ability \in [Channels -> Rows] /\ l.copy \in Rows /\ l.to \in Statuses /\ l.list \subseteq Channels
        /\ l.seen \in [Channels -> Rows]
    BY <1>1 DEF TablesOK, Hands
  <2>1. CASE UNCHANGED ability
    BY <2>0, <2>1
  <2>2. CASE ability' = [ability EXCEPT ![l.ch] = AbilityOf(l.copy)]
    BY <1>1, <2>0, <2>2, RowsTyped
  <2>3. CASE \E S \in SUBSET Channels : ability' = Unlinked(S)
    BY <1>1, <2>3, RowsTyped
  <2>4. CASE \E c \in l.list : ability' = Rebuilt({c}, l.seen)
    <3>1. PICK c \in l.list : ability' = Rebuilt({c}, l.seen)
      BY <2>4
    <3>2. {c} \in SUBSET Channels
      BY <2>0
    <3> QED
      BY <1>1, <2>0, <3>1, <3>2, RowsTyped
  <2>5. CASE ability' = [c \in Channels |-> IF c \in In(ability) /\ ability[c].tag = l.tag
                                            THEN [ability[c] EXCEPT !.status = l.to] ELSE ability[c]]
    <3>1. \A c \in Channels : [ability[c] EXCEPT !.status = l.to] \in Rows
      BY <2>0 DEF Rows
    <3> QED
      BY <2>0, <2>5, <3>1
  <2>6. CASE ability' = [c \in Channels |-> IF c \in In(ability) /\ ability[c].tag = l.tag
                                            THEN [ability[c] EXCEPT !.tag = l.copy.tag] ELSE ability[c]]
    <3>1. \A c \in Channels : [ability[c] EXCEPT !.tag = l.copy.tag] \in Rows
      BY <2>0 DEF Rows
    <3> QED
      BY <2>0, <2>6, <3>1
  <2>7. CASE AddAbilities \/ UpdateAbilities
    BY <2>1, <2>2, <2>7 DEF AddAbilities, UpdateAbilities
  <2>8. CASE DeleteAbilities
    <3>1. l.ch \in Channels
      BY <1>1, <2>8, Names DEF DeleteAbilities, At, Fits
    <3> QED
      BY <2>1, <2>3, <2>8, <3>1 DEF DeleteAbilities
  <2>9. CASE UpdateAbilityStatusByTag \/ UpdateAbilityByTag
    BY <2>1, <2>5, <2>6, <2>9 DEF UpdateAbilityStatusByTag, UpdateAbilityByTag
  <2>10. CASE PruneAbilities \/ RebuildListed
    BY <2>1, <2>3, <2>4, <2>10 DEF PruneAbilities, RebuildListed
  <2>11. CASE Reread \/ GetChannelsByTag \/ MissingAbilities \/ RefreshPrefixChannelsCache
              \/ StorePrefixes("admin")
    BY <2>1, <2>11 DEF Reread, GetChannelsByTag, MissingAbilities, RefreshPrefixChannelsCache,
                       StorePrefixes, Tables
  <2> QED
    BY <2>7, <2>8, <2>9, <2>10, <2>11 DEF Going
<1> QED
  BY <1>1, <1>2, <1>3, <1>4, <1>5, <1>6 DEF TablesOK, RestOK

\* A sync writes copies, and the prefixes expire.
LEMMA CacheTables ==
    ASSUME Typed, InitChannelCache("admin") \/ InitChannelCache("syncer") \/ PrefixesExpire
    PROVE  TablesOK' /\ RestOK'
<1>1. TablesOK /\ RestOK
  BY DEF Typed
<1>2. CASE PrefixesExpire
  <2>1. [there |-> FALSE, set |-> {}] \in [there : BOOLEAN, set : SUBSET Channels]
    OBVIOUS
  <2> QED
    BY <1>1, <1>2, <2>1 DEF PrefixesExpire, Locals, Tables, TablesOK, RestOK
<1>3. ASSUME NEW p \in {"admin", "syncer"}, SyncChannels(p)
      PROVE  TablesOK' /\ RestOK'
  BY <1>1, <1>3, EventTyped, SuspectTyped
     DEF SyncChannels, Works, Fails, NoChange, Locals, Tables, Caches, TablesOK, RestOK
<1>4. ASSUME NEW p \in {"admin", "syncer"}, SyncGroups(p)
      PROVE  TablesOK' /\ RestOK'
  <2>1. cached' \in [Channels -> Statuses \cup {"none"}] /\ up' \in BOOLEAN
    BY <1>1, <1>4, CopiesTyped DEF SyncGroups, RestOK
  <2>2. events' \in 0 .. MaxEvents
    BY <1>1, <1>4, EventTyped DEF SyncGroups, Works, Fails, RestOK
  <2> QED
    BY <1>1, <1>4, <2>1, <2>2, SuspectTyped DEF SyncGroups, Tables, TablesOK, RestOK
<1> QED
  BY <1>2, <1>3, <1>4 DEF InitChannelCache

\* The start is of its types.
LEMMA InitTyped == Init => Typed
<1> SUFFICES ASSUME Init PROVE Typed
  OBVIOUS
<1>1. row \in [Channels -> Rows]
  BY ChannelsAssumption DEF Init
<1>2. \A c \in Channels : AbilityOf(row[c]) \in Rows
  BY <1>1 DEF AbilityOf, Rows, Statuses
<1>3. TablesOK
  BY <1>1, <1>2, BlankTyped DEF Init, TablesOK
<1>4. InHand
  BY IdleFits DEF Init, InHand
<1>5. RestOK
  <2>1. In(row) \subseteq Channels
    BY DEF In
  <2>2. prefixed \in [there : BOOLEAN, set : SUBSET Channels]
    BY DEF Init
  <2>3. cached \in [Channels -> Statuses \cup {"none"}]
    BY CopiesTyped DEF Init
  <2>4. memory \in BOOLEAN /\ 0 \in 0 .. RetryTimes /\ 0 \in 0 .. MaxEvents
    BY ChannelsAssumption DEF Init
  <2> QED
    BY <2>1, <2>2, <2>3, <2>4 DEF Init, RestOK
<1> QED
  BY <1>3, <1>4, <1>5 DEF Typed

\* Every step keeps the types.
LEMMA NextTyped == Typed /\ [Next]_vars => Typed'
<1> SUFFICES ASSUME Typed, [Next]_vars PROVE Typed'
  OBVIOUS
<1>1. CASE Request
  BY <1>1, RequestTakes, RequestTables DEF Typed
<1>2. CASE \E p \in Callers : UpdateChannelStatusById(p)
  BY <1>2, StatusTakes, StatusTables DEF Typed
<1>3. CASE \/ TestAllChannels \/ TestChannel \/ TestsDone
           \/ UpdateAllChannelsBalance \/ UpdateChannelBalance
  BY <1>3, TestersTake, TestersTables DEF Typed
<1>4. CASE Starting
  BY <1>4, StartingTakes, StartingTables DEF Typed
<1>5. CASE Going
  BY <1>5, GoingTakes, GoingTables DEF Typed
<1>6. CASE InitChannelCache("admin") \/ InitChannelCache("syncer")
  BY <1>6, CacheTakes, CacheTables DEF Typed
<1>7. CASE PrefixesExpire
  <2>1. InHand'
    BY <1>7 DEF PrefixesExpire, Typed, InHand
  <2> QED
    BY <1>7, <2>1, CacheTables DEF Typed
<1>8. CASE UNCHANGED vars
  BY <1>8 DEF vars, Typed, InHand, TablesOK, RestOK
<1> QED
  BY <1>1, <1>2, <1>3, <1>4, <1>5, <1>6, <1>7, <1>8
     DEF Next, TestAll, UpdateBalances, Administer, Starting, Going, Callers

\* The types are inductive.
THEOREM TypedHolds == Spec => []Typed
BY InitTyped, NextTyped, PTL DEF Spec

\* Rows, abilities, caches, lock and flags, and what every process has in hand,
\* are of their types in every state the server reaches.
THEOREM TypesHold == Spec => []TypeOK
BY TypedIsTypeOK, TypedHolds, PTL

(***************************************************************************)
(* Manually disabled channels.                                             *)
(***************************************************************************)

\* Only a status update and what the administrator starts write rows.
LEMMA RowsStay ==
    ASSUME \/ Request \/ TestAllChannels \/ TestChannel \/ TestsDone
           \/ UpdateAllChannelsBalance \/ UpdateChannelBalance \/ Going
           \/ InitChannelCache("admin") \/ InitChannelCache("syncer") \/ PrefixesExpire
    PROVE  UNCHANGED row
<1>1. CASE Request
  BY <1>1 DEF Request, Distribute, DistributeByPrefix, Answered, Refused, StorePrefixes, Tables
<1>2. CASE TestAllChannels \/ TestChannel \/ TestsDone \/ UpdateAllChannelsBalance \/ UpdateChannelBalance
  BY <1>2 DEF TestAllChannels, TestChannel, TestsDone, UpdateAllChannelsBalance,
              UpdateChannelBalance, Tables
<1>3. CASE Going
  BY <1>3 DEF Going, AddAbilities, Reread, UpdateAbilities, DeleteAbilities, UpdateAbilityStatusByTag,
         UpdateAbilityByTag, GetChannelsByTag, PruneAbilities, MissingAbilities, RebuildListed,
         RefreshPrefixChannelsCache, StorePrefixes, Tables
<1>4. CASE InitChannelCache("admin") \/ InitChannelCache("syncer") \/ PrefixesExpire
  BY <1>4 DEF InitChannelCache, SyncChannels, SyncGroups, PrefixesExpire, Tables
<1> QED
  BY <1>1, <1>2, <1>3, <1>4

\* What the administrator starts and has to go on with shows where he is.
LEMMA Started ==
    ASSUME Typed, \/ AddChannel \/ UpdateChannel \/ DeleteChannel \/ SwitchTag \/ EditTag
    PROVE  st["admin"].pc = "idle" /\ st'["admin"].pc # "idle"
<1>1. st["admin"].pc = "idle" /\ "admin" \in DOMAIN st
  BY Names DEF AddChannel, UpdateChannel, DeleteChannel, SwitchTag, EditTag, Job, At, Typed, InHand
<1>2. ASSUME NEW m, Become("admin", m) PROVE st'["admin"] = m
  BY <1>1, <1>2 DEF Become
<1>3. \A l \in {"insert", "reread", "unlink", "switch", "retag", "relist"} :
         "pc" \in DOMAIN Admin(l) /\ Admin(l).pc = l /\ l # "idle"
  BY IdleOutside DEF Admin
<1>4. CASE AddChannel
  <2>1. PICK c, r : Become("admin", [Admin("insert") EXCEPT !.ch = c, !.copy = r])
    BY <1>4 DEF AddChannel
  <2> QED
    BY <1>1, <1>2, <1>3, <2>1
<1>8. CASE UpdateChannel
  <2>1. PICK c, r : Become("admin", [Admin("reread") EXCEPT !.ch = c, !.copy = r])
    BY <1>8 DEF UpdateChannel
  <2> QED
    BY <1>1, <1>2, <1>3, <2>1
<1>5. CASE DeleteChannel
  <2>1. PICK c : Become("admin", [Admin("unlink") EXCEPT !.ch = c])
    BY <1>5 DEF DeleteChannel
  <2> QED
    BY <1>1, <1>2, <1>3, <2>1
<1>6. CASE SwitchTag
  <2>1. PICK t, s, S : Become("admin", [Admin("switch") EXCEPT !.tag = t, !.to = s, !.list = S])
    BY <1>6 DEF SwitchTag
  <2> QED
    BY <1>1, <1>2, <1>3, <2>1
<1>7. CASE EditTag
  <2>1. PICK t \in Tags, u \in Tags, again \in BOOLEAN :
           Become("admin", [Admin(IF again THEN "relist" ELSE "retag") EXCEPT
                              !.tag = t, !.copy.tag = u, !.list = Tagged(t)])
    BY <1>7 DEF EditTag
  <2> QED
    BY <1>1, <1>2, <1>3, <2>1
<1> QED
  BY <1>4, <1>5, <1>6, <1>7, <1>8

\* A settled channel is left alone by every step but the administrator's.
LEMMA SettledStays ==
    ASSUME Typed, Next, NEW c \in Channels, Settled(c), st["admin"] = st'["admin"]
    PROVE  row'[c].status \in {"manual", "none"}
<1>1. row \in [Channels -> Rows] /\ row[c].status = "manual" /\ row[c] \in Rows
  BY DEF Typed, TablesOK, Settled
<1>2. CASE UNCHANGED row
  BY <1>1, <1>2
<1>3. ASSUME NEW p \in Callers, UpdateChannelStatusById(p)
      PROVE  row'[c].status \in {"manual", "none"}
  <2>1. st[p].pc \in StatusSteps /\ p \in Processes
    BY <1>3, Names DEF UpdateChannelStatusById, StatusLock, UpdateAbilityStatus, ReadChannel,
                       UpdateStatus, SaveChannel, At
  <2>2. st[p].ch # c
    <3>1. CASE p = "ban"
      BY <3>1 DEF Settled
    <3>2. CASE p # "ban"
      <4>1. st[p].seen[st[p].ch].status \in {"enabled", "auto"}
        BY <2>1, <3>2 DEF Typed, InHand, Fits
      <4>2. st[p].seen[c].status \in {"manual", "none"}
        BY <2>1 DEF Settled
      <4> QED
        BY <4>1, <4>2
    <3> QED
      BY <3>1, <3>2
  <2>3. row'[c] = row[c]
    BY <1>1, <1>3, <2>2 DEF UpdateChannelStatusById, StatusLock, UpdateAbilityStatus, ReadChannel,
                       UpdateStatus, SaveChannel, Tables
  <2> QED
    BY <1>1, <2>3
<1>4. CASE AddChannel \/ UpdateChannel \/ DeleteChannel \/ SwitchTag \/ EditTag
  BY <1>4, Started
<1>5. CASE DeleteChannelBatch \/ DeleteDisabledChannel
  <2>1. PICK S : row' = Deleted(S)
    BY <1>5 DEF DeleteChannelBatch, DeleteDisabledChannel
  <2> QED
    BY <1>1, <2>1, BlankTyped DEF Deleted
<1>6. CASE BatchSetChannelTag
  <2>1. PICK S, t : row' = [d \in Channels |-> IF d \in S THEN [row[d] EXCEPT !.tag = t] ELSE row[d]]
    BY <1>6 DEF BatchSetChannelTag
  <2>2. row'[c] = row[c] \/ row'[c] = [row[c] EXCEPT !.tag = t]
    BY <2>1
  <2> QED
    BY <1>1, <2>2 DEF Rows
<1>7. CASE FixAbility
  BY <1>2, <1>7 DEF FixAbility, Tables
<1> QED
  BY <1>2, <1>3, <1>4, <1>5, <1>6, <1>7, RowsStay
     DEF Next, TestAll, UpdateBalances, Administer, Starting, Going, Callers

\* A channel that the administrator has disabled, that no cache offers, no request
\* is with and nothing holds an older row of, is enabled again by nobody else: no
\* test, no balance update and no request that comes later makes it serve again.
THEOREM ManualStaysAlways == Spec => ManualStays
<1>1. Typed /\ [Next]_vars
        => [\A c \in Channels : Settled(c) /\ st["admin"] = st'["admin"]
                                  => row'[c].status \in {"manual", "none"}]_vars
  BY SettledStays
<1> QED
  BY <1>1, TypedHolds, PTL DEF Spec, ManualStays

(***************************************************************************)
(* The two tables.  A channel that is not suspect has one job at work on   *)
(* it, or status updates that wait for the one at the lock.  Half says     *)
(* what a job half way through a channel has made of it, which is what its *)
(* next statements rest on; Others what a job that goes by the tag, or by  *)
(* the missing rows, leaves alone; and whenever no job has yet written one *)
(* of the tables without the other, they say the same (Good).              *)
(***************************************************************************)

\* Jobs that have not written anything yet, or nothing of consequence.
Quiet == {"status", "ability", "prune", "missing"}

There(r) == r.status # "none"
Match(r, a, s) == There(a) /\ a.tag = r.tag /\ (a.status = "enabled" <=> s = "enabled")
Good(r, a) == There(r) => Match(r, a, r.status)

Half(l, c, r, a) ==
  /\ l.pc \in {"read", "update"} => (There(r) => Match(r, a, l.to))
  /\ l.pc = "save" => There(r) /\ l.copy = r /\ Match(r, a, l.to)
  /\ l.pc \in {"insert", "reread", "rebuild"} => There(r) /\ l.copy = r
  /\ l.pc = "unlink" => ~There(r)
  /\ l.pc = "switch" => There(r) /\ r.tag = l.tag /\ r.status = l.to /\ There(a) /\ a.tag = l.tag
  /\ l.pc = "retag" => /\ There(r) /\ r.tag = l.copy.tag /\ There(a) /\ a.tag = l.tag
                       /\ a.status = "enabled" <=> r.status = "enabled"
  /\ l.pc = "relist" => There(r) /\ r.tag = l.copy.tag
  /\ l.pc \in {"edit", "fix"} => There(r) /\ l.seen[c] = r

Others(l, r) ==
  /\ l.pc \in {"switch", "retag"} => (There(r) => r.tag # l.tag)
  /\ l.pc = "prune" => ~There(r)

Consistent(c) ==
  /\ (\A p \in Processes : c \in Writes(st[p]) => st[p].pc \in Quiet) => Good(row[c], ability[c])
  /\ \A p \in Processes : c \in Writes(st[p]) => Half(st[p], c, row[c], ability[c])
  /\ c \notin Writes(st["admin"]) => Others(st["admin"], row[c])

Apart == Overlap(st) \subseteq suspect
Agree == \A c \in Channels \ suspect : Consistent(c)
Before == Typed /\ Inv /\ Apart /\ Agree

\* A step of p puts m in its hand, and leaves the others what they have.
LEMMA Holds ==
    ASSUME Typed, NEW p \in Processes, NEW m, Become(p, m)
    PROVE  st'[p] = m /\ \A q \in Processes \ {p} : st'[q] = st[q]
BY DEF Typed, InHand, Become

\* A suspect stays one, and two jobs at one channel make it one.
LEMMA ApartStays ==
    ASSUME Before, Next
    PROVE  Apart' /\ suspect \subseteq suspect'
<1>1. Apart
  BY DEF Before
<1>2. UNCHANGED memory
  BY DEF Next, Request, Distribute, DistributeByPrefix, Answered, Refused, StorePrefixes, TestAll,
         TestAllChannels, TestChannel, TestsDone, UpdateBalances, UpdateAllChannelsBalance,
         UpdateChannelBalance, UpdateChannelStatusById, StatusLock, UpdateAbilityStatus, ReadChannel,
         UpdateStatus, SaveChannel, Administer, AddChannel, AddAbilities, UpdateChannel, Reread,
         UpdateAbilities, DeleteChannel, DeleteAbilities, DeleteChannelBatch, DeleteDisabledChannel,
         SwitchTag, UpdateAbilityStatusByTag, EditTag, UpdateAbilityByTag, GetChannelsByTag,
         BatchSetChannelTag, FixAbility, PruneAbilities, MissingAbilities, RebuildListed,
         RefreshPrefixChannelsCache, InitChannelCache, SyncChannels, SyncGroups, PrefixesExpire,
         NoChange, Locals
<1>3. (\E S : Suspect(S)) \/ (UNCHANGED st /\ suspect \subseteq suspect')
  BY DEF Next, Request, Distribute, DistributeByPrefix, Answered, Refused, StorePrefixes, TestAll,
         TestAllChannels, TestChannel, TestsDone, UpdateBalances, UpdateAllChannelsBalance,
         UpdateChannelBalance, UpdateChannelStatusById, StatusLock, UpdateAbilityStatus, ReadChannel,
         UpdateStatus, SaveChannel, Administer, AddChannel, AddAbilities, UpdateChannel, Reread,
         UpdateAbilities, DeleteChannel, DeleteAbilities, DeleteChannelBatch, DeleteDisabledChannel,
         SwitchTag, UpdateAbilityStatusByTag, EditTag, UpdateAbilityByTag, GetChannelsByTag,
         BatchSetChannelTag, FixAbility, PruneAbilities, MissingAbilities, RebuildListed,
         RefreshPrefixChannelsCache, InitChannelCache, SyncChannels, SyncGroups, PrefixesExpire
<1>4. ASSUME NEW S, Suspect(S) PROVE Apart' /\ suspect \subseteq suspect'
  BY <1>2, <1>4 DEF Suspect, Apart, Overlap
<1>5. CASE UNCHANGED st /\ suspect \subseteq suspect'
  BY <1>1, <1>2, <1>5 DEF Apart, Overlap
<1> QED
  BY <1>3, <1>4, <1>5

\* Two at a channel that is not suspect are status updates, with the memory cache.
LEMMA Only ==
    ASSUME NEW now, NEW c \in Channels \ Overlap(now),
           NEW p \in Processes, NEW q \in Processes \ {p},
           c \in Writes(now[p]), c \in Writes(now[q])
    PROVE  memory /\ now[p].pc \in StatusSteps /\ now[q].pc \in StatusSteps
BY DEF Overlap

\* Only status updates work beside the administrator, and he writes no status.
LEMMA Workers ==
    ASSUME Typed, NEW q \in Processes, NEW c, c \in Writes(st[q])
    PROVE  /\ q # "admin" => st[q].pc \in StatusSteps
           /\ q = "admin" => st[q].pc \in RowSteps \cup ListSteps /\ st[q].pc \notin StatusSteps
<1>1. Fits(q, st[q])
  BY DEF Typed, InHand
<1>2. st[q].pc \in StatusSteps \cup RowSteps \cup ListSteps
  BY DEF Writes
<1>3. "admin" \notin Callers
  BY DEF Callers
<1> QED
  BY <1>1, <1>2, <1>3 DEF Fits

\* With one job past the lock, or with the administrator, others only wait.
LEMMA Alone ==
    ASSUME Before, NEW c \in Channels \ suspect, NEW p \in Processes, c \in Writes(st[p]),
           st[p].pc \in Inside \/ p = "admin"
    PROVE  \A q \in Processes \ {p} : c \in Writes(st[q]) => st[q].pc = "status" /\ p # "admin"
<1> SUFFICES ASSUME NEW q \in Processes \ {p}, c \in Writes(st[q])
             PROVE  st[q].pc = "status" /\ p # "admin"
  OBVIOUS
<1>1. memory /\ st[p].pc \in StatusSteps /\ st[q].pc \in StatusSteps
  BY Only DEF Before, Apart
<1>2. p # "admin"
  BY <1>1, Workers DEF Before
<1>3. st[q].pc \notin Inside
  BY <1>1, <1>2, ChannelsAssumption DEF Before, Inv, Guarded
<1> QED
  BY <1>1, <1>2, <1>3 DEF Inside

\* Nobody is at a channel that the administrator comes to, unless it becomes suspect.
LEMMA Comes ==
    ASSUME Before, Apart', UNCHANGED memory, suspect \subseteq suspect',
           NEW c \in Channels \ suspect', c \notin Writes(st["admin"]), c \in Writes(st'["admin"]),
           st'["admin"].pc \notin StatusSteps,
           \A q \in Processes \ {"admin"} : st'[q] = st[q]
    PROVE  /\ \A q \in Processes : c \notin Writes(st[q])
           /\ Good(row[c], ability[c])
<1>1. "admin" \in Processes /\ Consistent(c)
  BY Names DEF Before, Agree
<1>2. c \notin Overlap(st')
  BY DEF Apart, Overlap
<1>3. ASSUME NEW q \in Processes \ {"admin"} PROVE c \notin Writes(st[q])
  BY <1>1, <1>2, Only
<1>4. \A q \in Processes : c \notin Writes(st[q])
  BY <1>3
<1> QED
  BY <1>1, <1>4 DEF Consistent

\* What a step must see to at a channel whose rows it leaves alone.
Passes(p, c) ==
  \/ st'[p] = st[p]
  \/ /\ c \in Writes(st'[p]) => Half(st'[p], c, row[c], ability[c])
     /\ c \in Writes(st[p]) /\ st[p].pc \notin Quiet
          => Good(row[c], ability[c]) \/ (c \in Writes(st'[p]) /\ st'[p].pc \notin Quiet)
     /\ p = "admin" /\ c \notin Writes(st'[p]) => Others(st'[p], row[c])

\* A channel whose rows nobody writes stays as it is.
LEMMA Kept ==
    ASSUME NEW c, Consistent(c), row'[c] = row[c], ability'[c] = ability[c],
           \A p \in Processes : Passes(p, c)
    PROVE  Consistent(c)'
<1> DEFINE r == row[c]
           a == ability[c]
<1>1. ASSUME \A p \in Processes : c \in Writes(st'[p]) => st'[p].pc \in Quiet
      PROVE  Good(r, a)
  <2>1. CASE \A p \in Processes : c \in Writes(st[p]) => st[p].pc \in Quiet
    BY <2>1 DEF Consistent
  <2>2. ASSUME NEW p \in Processes, c \in Writes(st[p]), st[p].pc \notin Quiet
        PROVE  Good(r, a)
    <3>1. st'[p] # st[p] /\ Passes(p, c)
      BY <1>1, <2>2
    <3> QED
      BY <1>1, <2>2, <3>1 DEF Passes
  <2> QED
    BY <2>1, <2>2
<1>2. ASSUME NEW p \in Processes, c \in Writes(st'[p])
      PROVE  Half(st'[p], c, r, a)
  BY <1>2 DEF Passes, Consistent
<1>3. ASSUME c \notin Writes(st'["admin"])
      PROVE  Others(st'["admin"], r)
  BY <1>3, Names DEF Passes, Consistent
<1>4. row'[c] = r /\ ability'[c] = a
  OBVIOUS
<1> HIDE DEF r, a
<1> QED
  BY <1>1, <1>2, <1>3, <1>4 DEF Consistent

\* A channel that p alone writes is as p leaves it.
LEMMA Changed ==
    ASSUME NEW c, NEW p \in Processes,
           \A q \in Processes \ {p} : st'[q] = st[q] /\ (c \in Writes(st[q]) => st[q].pc = "status"),
           c \in Writes(st'[p]) => Half(st'[p], c, row'[c], ability'[c]),
           Good(row'[c], ability'[c]) \/ (c \in Writes(st'[p]) /\ st'[p].pc \notin Quiet),
           c \notin Writes(st'["admin"]) => Others(st'["admin"], row'[c])
    PROVE  Consistent(c)'
<1>1. ASSUME NEW q \in Processes, c \in Writes(st'[q])
      PROVE  Half(st'[q], c, row'[c], ability'[c])
  <2>1. CASE q = p
    BY <1>1, <2>1
  <2>2. CASE q # p
    <3>1. st'[q].pc = "status"
      BY <1>1, <2>2
    <3> QED
      BY <3>1 DEF Half
  <2> QED
    BY <2>1, <2>2
<1> QED
  BY <1>1 DEF Consistent

\* Where there is no row, the abilities are nobody's business: those that are
\* under way there, without the administrator, change no row that is gone.
LEMMA Bare ==
    ASSUME Typed, NEW c, Consistent(c), ~There(row[c]), row'[c] = row[c],
           \A q \in Processes \ {"admin"} : st'[q] = st[q],
           c \notin Writes(st'["admin"]), Others(st'["admin"], row[c])
    PROVE  Consistent(c)'
<1> DEFINE r == row[c]
           a == ability'[c]
<1>1. Good(r, a)
  BY DEF Good
<1>2. ASSUME NEW q \in Processes, c \in Writes(st'[q])
      PROVE  Half(st'[q], c, r, a)
  <2>1. q # "admin" /\ st'[q] = st[q] /\ c \in Writes(st[q])
    BY <1>2
  <2>2. st[q].pc \in {"status", "ability", "read", "update", "save"}
    BY <2>1, Workers, Names
  <2>3. Half(st[q], c, r, ability[c])
    BY <2>1 DEF Consistent
  <2> QED
    BY <2>1, <2>2, <2>3 DEF Half
<1>3. row'[c] = r
  OBVIOUS
<1> QED
  BY <1>1, <1>2, <1>3 DEF Consistent

\* A job that is at no channel before, and after at none or about to begin with one,
\* leaves every channel as it is.
LEMMA Idles ==
    ASSUME NEW c, Consistent(c), row'[c] = row[c], ability'[c] = ability[c],
           \A p \in Processes :
              \/ st'[p] = st[p]
              \/ /\ c \notin Writes(st[p]) \/ st[p].pc \in Quiet
                 /\ c \notin Writes(st'[p]) \/ st'[p].pc \in {"status", "ability"}
                 /\ p = "admin" => c \notin Writes(st'[p])
                                   /\ st'[p].pc \notin {"switch", "retag", "prune"}
    PROVE  Consistent(c)'
<1>1. ASSUME NEW p \in Processes PROVE Passes(p, c)
  BY DEF Passes, Half, Others
<1> QED
  BY <1>1, Kept

\* Places where nothing is written.
LEMMA Nothing ==
    ASSUME NEW l, l.pc \in {"idle", "using", "next", "refresh", "store", "sync", "groups"}
    PROVE  Writes(l) = {} /\ l.pc \notin {"switch", "retag", "prune"}
BY Names DEF Writes

\* At the start the abilities follow the rows.
LEMMA InitAgrees == Init => Apart /\ Agree
<1> SUFFICES ASSUME Init PROVE Apart /\ Agree
  OBVIOUS
<1>1. \A p \in Processes : st[p].pc = "idle" /\ Writes(st[p]) = {}
  BY IdleFits, Nothing DEF Init
<1>2. Apart
  BY <1>1 DEF Apart, Overlap
<1>3. ASSUME NEW c \in Channels PROVE Consistent(c)
  <2>1. Good(row[c], ability[c])
    <3>1. CASE c \in In(row)
      <4>1. ability[c] = AbilityOf(row[c])
        BY <3>1 DEF Init
      <4> QED
        BY <4>1 DEF Good, Match, There, AbilityOf
    <3>2. CASE c \notin In(row)
      BY <3>2 DEF Good, There, In
    <3> QED
      BY <3>1, <3>2
  <2> QED
    BY <1>1, <2>1, Names DEF Consistent, Others
<1> QED
  BY <1>2, <1>3 DEF Agree

(***************************************************************************)
(* Requests, tests, balances and syncs, up to the call.                    *)
(***************************************************************************)

\* Requests and what refuses them only ever set an update off.
LEMMA RequestAgrees ==
    ASSUME Before, Request, NEW c \in Channels, Consistent(c)
    PROVE  Consistent(c)'
<1>1. UNCHANGED <<row, ability>> /\ Typed
  BY DEF Request, Distribute, DistributeByPrefix, Answered, Refused, StorePrefixes, Tables, Before
<1>2. /\ "request" \in Processes /\ "ban" \in Processes
      /\ st["request"].pc \in {"idle", "using", "store"}
  BY Names DEF Request, Distribute, DistributeByPrefix, Answered, Refused, StorePrefixes, Job, At
<1>3. /\ \A q \in Processes \ {"request", "ban"} : st'[q] = st[q]
      /\ st'["request"].pc \in {"idle", "using", "store"}
      /\ st'["ban"] = st["ban"] \/ (st["ban"].pc = "idle" /\ st'["ban"].pc = "status")
  <2>1. \A d : Using(d).pc = "using"
    BY IdleFits DEF Using, Hands
  <2>2. [Idle EXCEPT !.pc = "store", !.seen = row].pc = "store"
    BY IdleFits DEF Hands
  <2>3. CASE ~Refused
    <3>1. PICK m : Become("request", m) /\ m.pc \in {"idle", "using", "store"}
      BY <2>1, <2>2, <2>3, IdleFits DEF Request, Distribute, DistributeByPrefix, Answered, StorePrefixes
    <3> QED
      BY <1>1, <1>2, <3>1, Holds
  <2>4. CASE Refused
    <3> DEFINE call == Call("ban", Idle, st["request"].ch, "auto")
               after == {Idle} \cup (IF turn < RetryTimes THEN {Using(d) : d \in Chosen(turn + 1)} ELSE {})
    <3>1. PICK ban \in BOOLEAN, next \in after :
            /\ ban => st["ban"].pc = "idle"
            /\ st' = [st EXCEPT !["request"] = next, !["ban"] = IF ban THEN call ELSE @]
      BY <2>4, Zenon DEF Refused
    <3>2. next.pc \in {"idle", "using", "store"} /\ call.pc = "status"
      <4>1. call.pc = "status"
        BY IdleFits DEF Call, Hands
      <4> QED
        BY <2>1, <4>1, IdleFits
    <3> HIDE DEF call, after
    <3>3. st'["request"] = next /\ \A q \in Processes \ {"request", "ban"} : st'[q] = st[q]
      BY <1>1, <1>2, <3>1 DEF Typed, InHand
    <3>4. st'["ban"] = IF ban THEN call ELSE st["ban"]
      BY <1>1, <1>2, <3>1 DEF Typed, InHand
    <3> QED
      BY <3>1, <3>2, <3>3, <3>4
  <2> QED
    BY <2>3, <2>4
<1>4. Writes(st["request"]) = {} /\ Writes(st'["request"]) = {}
  BY <1>2, <1>3, Nothing
<1>5. st["ban"].pc = "idle" => Writes(st["ban"]) = {}
  BY Nothing
<1>6. "admin" \notin {"request", "ban"}
  OBVIOUS
<1> QED
  BY <1>1, <1>3, <1>4, <1>5, <1>6, Idles

\* So do tests and balance updates.
LEMMA TestersAgree ==
    ASSUME Before, \/ TestAllChannels \/ TestChannel \/ TestsDone
                   \/ UpdateAllChannelsBalance \/ UpdateChannelBalance,
           NEW c \in Channels, Consistent(c)
    PROVE  Consistent(c)'
<1>1. UNCHANGED <<row, ability>> /\ Typed
  BY DEF TestAllChannels, TestChannel, TestsDone, UpdateAllChannelsBalance, UpdateChannelBalance,
         Tables, Before
<1>2. PICK p \in {"tester", "balance"} :
        /\ st[p].pc \in {"idle", "next"}
        /\ UNCHANGED st \/ \E m : Become(p, m) /\ m.pc \in {"idle", "next", "status"}
  <2>1. Listed.pc = "next" /\ Idle.pc = "idle"
    BY IdleFits DEF Listed, Hands
  <2>2. ASSUME NEW p \in {"tester", "balance"}, st[p].pc = "next", NEW d, NEW to
        PROVE  LET rest == [st[p] EXCEPT !.list = @ \ {d}]
               IN rest.pc = "next" /\ Call(p, rest, d, to).pc = "status"
    <3>1. st[p] \in Hands
      BY <1>1, Names DEF Typed, InHand
    <3> QED
      BY <2>2, <3>1 DEF Call, Hands
  <2>3. CASE TestAllChannels \/ TestsDone
    BY <2>1, <2>3 DEF TestAllChannels, TestsDone, Job, At
  <2>4. CASE TestChannel
    <3>1. PICK d, to : LET rest == [st["tester"] EXCEPT !.list = @ \ {d}]
                       IN Become("tester", Call("tester", rest, d, to)) \/ Become("tester", rest)
      BY <2>4 DEF TestChannel
    <3> QED
      BY <2>2, <2>4, <3>1 DEF TestChannel, At
  <2>5. CASE UpdateAllChannelsBalance
    BY <2>1, <2>5 DEF UpdateAllChannelsBalance, Job, At
  <2>6. CASE UpdateChannelBalance
    <3>1. CASE Become("balance", Idle)
      BY <2>1, <2>6, <3>1 DEF UpdateChannelBalance, At
    <3>2. ASSUME NEW d, LET rest == [st["balance"] EXCEPT !.list = @ \ {d}]
                        IN Become("balance", Call("balance", rest, d, "auto")) \/ Become("balance", rest)
          PROVE  \E m : Become("balance", m) /\ m.pc \in {"idle", "next", "status"}
      BY <2>2, <2>6, <3>2 DEF UpdateChannelBalance, At
    <3> QED
      BY <2>6, <3>1, <3>2 DEF UpdateChannelBalance, At
  <2> QED
    BY <2>3, <2>4, <2>5, <2>6
<1>3. p \in Processes /\ Writes(st[p]) = {} /\ p # "admin"
  BY <1>2, Names, Nothing
<1>4. /\ \A q \in Processes \ {p} : st'[q] = st[q]
      /\ st'[p] = st[p] \/ st'[p].pc \in {"idle", "next", "status"}
  BY <1>1, <1>2, <1>3, Holds
<1>5. st'[p].pc \in {"idle", "next"} => Writes(st'[p]) = {}
  BY Nothing
<1> QED
  BY <1>1, <1>3, <1>4, <1>5, Idles

\* A sync writes no table.
LEMMA CacheAgrees ==
    ASSUME Before, InitChannelCache("admin") \/ InitChannelCache("syncer") \/ PrefixesExpire,
           NEW c \in Channels, Consistent(c)
    PROVE  Consistent(c)'
<1>1. UNCHANGED <<row, ability>> /\ Typed
  BY DEF InitChannelCache, SyncChannels, SyncGroups, PrefixesExpire, Tables, Before
<1>2. CASE PrefixesExpire
  BY <1>1, <1>2, Idles DEF PrefixesExpire
<1>3. ASSUME NEW p \in {"admin", "syncer"}, InitChannelCache(p)
      PROVE  Consistent(c)'
  <2>1. /\ [Idle EXCEPT !.pc = "groups", !.seen = row].pc = "groups"
        /\ [Idle EXCEPT !.pc = "groups"].pc = "groups" /\ Idle.pc = "idle"
    BY IdleFits DEF Hands
  <2>2. PICK m : Become(p, m) /\ m.pc \in {"idle", "groups"}
    BY <1>3, <2>1 DEF InitChannelCache, SyncChannels, SyncGroups
  <2>3. p \in Processes /\ st[p].pc \in {"idle", "sync", "groups"}
    BY <1>3, Names DEF InitChannelCache, SyncChannels, SyncGroups, At
  <2>4. st'[p].pc \in {"idle", "groups"} /\ \A q \in Processes \ {p} : st'[q] = st[q]
    BY <1>1, <2>2, <2>3, Holds
  <2>5. Writes(st[p]) = {} /\ Writes(st'[p]) = {} /\ st'[p].pc \notin {"switch", "retag", "prune"}
    BY <2>3, <2>4, Nothing
  <2> QED
    BY <1>1, <2>4, <2>5, Idles
<1> QED
  BY <1>2, <1>3

(***************************************************************************)
(* UpdateChannelStatusById.                                                *)
(***************************************************************************)

\* An update that works on a channel and returns, or goes on at the same one.
LEMMA StatusMoves ==
    ASSUME Typed, NEW p \in Callers, UpdateChannelStatusById(p)
    PROVE  /\ p \in Processes /\ p # "admin" /\ st[p].pc \in StatusSteps /\ st[p].ch \in Channels
           /\ Writes(st[p]) = {st[p].ch} /\ st[p].to \in Statuses /\ st[p].copy \in Rows
           /\ \A q \in Processes \ {p} : st'[q] = st[q]
           /\ Writes(Returned(p)) = {}
           /\ \/ st'[p] = Returned(p)
              \/ st'[p].pc \in StatusSteps /\ st'[p].ch = st[p].ch /\ st'[p].to = st[p].to
                 /\ Writes(st'[p]) = {st[p].ch}
<1> DEFINE l == st[p]
<1>1. l.pc \in StatusSteps
  BY Names DEF UpdateChannelStatusById, StatusLock, UpdateAbilityStatus, ReadChannel,
               UpdateStatus, SaveChannel, At
<1>2. p \in Processes /\ p # "admin" /\ l \in Hands /\ Fits(p, l)
  BY Names DEF Callers, Typed, InHand
<1>3. l.ch \in Channels /\ Writes(l) = {l.ch} /\ l.to \in Statuses /\ l.copy \in Rows
  BY <1>1, <1>2 DEF Fits, Writes, Hands
<1>4. Returned(p).pc \in {"idle", "next"}
  BY <1>2, IdleFits DEF Returned, Hands
<1>5. Writes(Returned(p)) = {}
  BY <1>4, Nothing
<1>6. ASSUME NEW pc \in StatusSteps
      PROVE  /\ LET m == [l EXCEPT !.pc = pc] IN m.pc = pc /\ m.ch = l.ch /\ m.to = l.to
             /\ LET m == [l EXCEPT !.copy = row[l.ch], !.pc = pc] IN m.pc = pc /\ m.ch = l.ch /\ m.to = l.to
  BY <1>2 DEF Hands
<1>7. PICK m : /\ Become(p, m)
               /\ m = Returned(p) \/ (m.pc \in StatusSteps /\ m.ch = l.ch /\ m.to = l.to)
  <2>1. \/ Become(p, Returned(p))
        \/ \E pc \in StatusSteps : Become(p, [l EXCEPT !.pc = pc])
        \/ \E pc \in StatusSteps : Become(p, [l EXCEPT !.copy = row[l.ch], !.pc = pc])
    BY Names DEF UpdateChannelStatusById, StatusLock, UpdateAbilityStatus, ReadChannel,
                 UpdateStatus, SaveChannel, Return
  <2>2. CASE Become(p, Returned(p))
    BY <2>2
  <2>3. ASSUME NEW pc \in StatusSteps, Become(p, [l EXCEPT !.pc = pc])
        PROVE  \E m : /\ Become(p, m)
                      /\ m = Returned(p) \/ (m.pc \in StatusSteps /\ m.ch = l.ch /\ m.to = l.to)
    <3> DEFINE m == [l EXCEPT !.pc = pc]
    <3>1. m.pc = pc /\ m.ch = l.ch /\ m.to = l.to
      BY <1>6
    <3>2. Become(p, m)
      BY <2>3
    <3> HIDE DEF m
    <3> QED
      BY <3>1, <3>2
  <2>4. ASSUME NEW pc \in StatusSteps, Become(p, [l EXCEPT !.copy = row[l.ch], !.pc = pc])
        PROVE  \E m : /\ Become(p, m)
                      /\ m = Returned(p) \/ (m.pc \in StatusSteps /\ m.ch = l.ch /\ m.to = l.to)
    <3> DEFINE m == [l EXCEPT !.copy = row[l.ch], !.pc = pc]
    <3>1. m.pc = pc /\ m.ch = l.ch /\ m.to = l.to
      BY <1>6
    <3>2. Become(p, m)
      BY <2>4
    <3> HIDE DEF m
    <3> QED
      BY <3>1, <3>2
  <2> QED
    BY <2>1, <2>2, <2>3, <2>4
<1>8. st'[p] = m /\ \A q \in Processes \ {p} : st'[q] = st[q]
  BY <1>2, <1>7, Holds
<1>9. m.pc \in StatusSteps => Writes(m) = {m.ch}
  BY DEF Writes
<1> QED
  BY <1>1, <1>2, <1>3, <1>5, <1>7, <1>8, <1>9

\* A status update leaves the channels it is not about alone.
LEMMA StatusElsewhere ==
    ASSUME Before, NEW p \in Callers, UpdateChannelStatusById(p),
           NEW c \in Channels, c # st[p].ch, Consistent(c)
    PROVE  Consistent(c)'
<1>1. /\ p \in Processes /\ p # "admin" /\ c \notin Writes(st[p]) /\ c \notin Writes(st'[p])
      /\ \A q \in Processes \ {p} : st'[q] = st[q]
  BY StatusMoves DEF Before
<1>2. row'[c] = row[c] /\ ability'[c] = ability[c]
  BY DEF UpdateChannelStatusById, StatusLock, UpdateAbilityStatus, ReadChannel, UpdateStatus,
         SaveChannel, Tables, Before, Typed, TablesOK
<1> QED
  BY <1>1, <1>2, Idles

\* Its own channel it changes in both tables, one after the other.
LEMMA StatusAgrees ==
    ASSUME Before, NEW p \in Callers, UpdateChannelStatusById(p),
           NEW c \in Channels \ suspect', c \notin suspect, c = st[p].ch, Consistent(c)
    PROVE  Consistent(c)'
<1> DEFINE l == st[p]
           r == row[c]
           a == ability[c]
<1>1. /\ p \in Processes /\ p # "admin" /\ l.pc \in StatusSteps /\ l.to \in Statuses /\ l.copy \in Rows
      /\ Writes(l) = {c} /\ \A q \in Processes \ {p} : st'[q] = st[q]
      /\ Writes(Returned(p)) = {}
      /\ \/ st'[p] = Returned(p)
         \/ st'[p].pc \in StatusSteps /\ st'[p].ch = c /\ st'[p].to = l.to /\ Writes(st'[p]) = {c}
  BY StatusMoves DEF Before
<1>2. r \in Rows /\ a \in Rows /\ row \in [Channels -> Rows] /\ ability \in [Channels -> Rows]
  BY DEF Before, Typed, TablesOK
<1>3. l.pc # "status" => \A q \in Processes \ {p} : c \in Writes(st[q]) => st[q].pc = "status"
  BY <1>1, Alone DEF Inside
<1>4. Half(l, c, r, a) /\ Others(st["admin"], r)
  <2>1. c \notin Writes(st["admin"])
    <3>1. ASSUME c \in Writes(st["admin"]) PROVE FALSE
      BY <1>1, <3>1, Names, Alone
    <3> QED
      BY <3>1
  <2> QED
    BY <1>1, <2>1 DEF Consistent
<1>5. st'["admin"] = st["admin"]
  BY <1>1, Names
<1>6. CASE StatusLock(p)
  <2>1. l.pc = "status" /\ row' = row /\ ability' = ability
    BY <1>6 DEF StatusLock, At, Tables
  <2>2. Writes(st'[p]) = {} \/ st'[p].pc = "ability"
    <3>1. \/ Become(p, Returned(p)) \/ Become(p, [l EXCEPT !.pc = "ability"])
      BY <1>6 DEF StatusLock, Return
    <3>2. [l EXCEPT !.pc = "ability"].pc = "ability"
      BY <1>1 DEF Before, Typed, InHand, Hands
    <3> QED
      BY <1>1, <3>1, <3>2, Holds DEF Before
  <2> QED
    BY <1>1, <2>1, <2>2, Idles DEF Quiet
<1>7. CASE UpdateAbilityStatus(p)
  <2>1. l.pc = "ability" /\ row' = row
    BY <1>7 DEF UpdateAbilityStatus, At
  <2>2. /\ ability' = [ability EXCEPT ![c].status =
             IF @ = "none" THEN @ ELSE IF l.to = "enabled" THEN "enabled" ELSE "manual"]
        /\ Become(p, [l EXCEPT !.pc = "read"])
    BY <1>7 DEF UpdateAbilityStatus, Suspect
  <2>3. st'[p].pc = "read" /\ st'[p].to = l.to
    <3>1. LET m == [l EXCEPT !.pc = "read"] IN m.pc = "read" /\ m.to = l.to
      BY <1>1 DEF Before, Typed, InHand, Hands
    <3> QED
      BY <1>1, <2>2, <3>1, Holds DEF Before
  <2>4. Good(r, a)
    <3>1. \A q \in Processes : c \in Writes(st[q]) => st[q].pc \in Quiet
      BY <1>3, <2>1 DEF Quiet
    <3> QED
      BY <3>1 DEF Consistent
  <2>5. /\ ability'[c].tag = a.tag
        /\ ability'[c].status = IF a.status = "none" THEN a.status
                                ELSE IF l.to = "enabled" THEN "enabled" ELSE "manual"
    BY <1>2, <2>2 DEF Rows
  <2>6. Half(st'[p], c, r, ability'[c])
    BY <2>3, <2>4, <2>5 DEF Half, Good, Match, There
  <2>7. Writes(st'[p]) = {c} /\ st'[p].pc \notin Quiet
    <3>1. st'[p] # Returned(p) \/ Writes(st'[p]) = {c}
      <4>1. Writes(st'[p]) = {st'[p].ch}
        BY <2>3, Names DEF Writes
      <4> QED
        BY <1>1, <4>1
    <3> QED
      BY <1>1, <2>3, <3>1 DEF Quiet
  <2> HIDE DEF l
  <2> QED
    BY <1>1, <1>3, <1>4, <1>5, <2>1, <2>6, <2>7, Changed DEF l
<1>8. CASE ReadChannel(p)
  <2>1. l.pc = "read" /\ row' = row /\ ability' = ability
    BY <1>8 DEF ReadChannel, At, Tables
  <2>2. There(r) => Match(r, a, l.to)
    BY <1>4, <2>1 DEF Half
  <2>3. CASE r.status = l.to /\ st'[p] = Returned(p)
    <3>1. Good(r, a) /\ Writes(st'[p]) = {}
      BY <1>1, <2>2, <2>3 DEF Good
    <3>2. \A q \in Processes : Passes(q, c)
      BY <1>1, <3>1 DEF Passes
    <3> QED
      BY <2>1, <3>2, Kept
  <2>4. CASE st'[p].pc = "update" /\ st'[p].to = l.to
    <3>1. Half(st'[p], c, r, a) /\ st'[p].pc \notin Quiet
      BY <2>2, <2>4 DEF Half, Quiet
    <3>2. Writes(st'[p]) = {c}
      <4>1. Writes(st'[p]) = {st'[p].ch}
        BY <2>4, Names DEF Writes
      <4> QED
        BY <1>1, <4>1
    <3>3. \A q \in Processes : Passes(q, c)
      BY <1>1, <3>1, <3>2 DEF Passes
    <3> QED
      BY <2>1, <3>3, Kept
  <2>5. CASE st'[p].pc = "save" /\ st'[p].to = l.to /\ st'[p].copy = r /\ There(r)
    <3>1. Half(st'[p], c, r, a) /\ st'[p].pc \notin Quiet
      BY <2>2, <2>5 DEF Half, Quiet
    <3>2. Writes(st'[p]) = {c}
      <4>1. Writes(st'[p]) = {st'[p].ch}
        BY <2>5, Names DEF Writes
      <4> QED
        BY <1>1, <4>1
    <3>3. \A q \in Processes : Passes(q, c)
      BY <1>1, <3>1, <3>2 DEF Passes
    <3> QED
      BY <2>1, <3>3, Kept
  <2>6. \/ r.status = l.to /\ Become(p, Returned(p))
        \/ Become(p, [l EXCEPT !.copy = r, !.pc = IF r.status = "none" THEN "update" ELSE "save"])
        \/ Become(p, [l EXCEPT !.pc = "update"])
    BY <1>8 DEF ReadChannel, Return
  <2>7. /\ LET m == [l EXCEPT !.pc = "update"] IN m.pc = "update" /\ m.to = l.to
        /\ LET m == [l EXCEPT !.copy = r, !.pc = IF r.status = "none" THEN "update" ELSE "save"]
           IN m.pc = (IF r.status = "none" THEN "update" ELSE "save") /\ m.to = l.to /\ m.copy = r
    BY <1>1 DEF Before, Typed, InHand, Hands
  <2>8. \A m : Become(p, m) => st'[p] = m
    BY <1>1, Holds DEF Before
  <2> QED
    BY <2>3, <2>4, <2>5, <2>6, <2>7, <2>8 DEF There
<1>9. CASE UpdateStatus(p)
  <2>1. l.pc = "update" /\ ability' = ability /\ st'[p] = Returned(p)
    <3>1. Become(p, Returned(p))
      BY <1>9 DEF UpdateStatus, Return
    <3> QED
      BY <1>1, <1>9, <3>1, Holds DEF UpdateStatus, At, Before
  <2>2. row' = [row EXCEPT ![c].status = IF @ = "none" THEN @ ELSE l.to]
    BY <1>9 DEF UpdateStatus, Suspect
  <2>3. row'[c].tag = r.tag /\ row'[c].status = IF r.status = "none" THEN r.status ELSE l.to
    BY <1>2, <2>2 DEF Rows
  <2>4. There(r) => Match(r, a, l.to)
    BY <1>4, <2>1 DEF Half
  <2>5. Good(row'[c], a) /\ Others(st["admin"], row'[c])
    BY <1>4, <2>3, <2>4 DEF Good, Match, There, Others
  <2>6. Writes(st'[p]) = {}
    BY <1>1, <2>1
  <2> HIDE DEF l
  <2> QED
    BY <1>1, <1>3, <1>5, <2>1, <2>5, <2>6, Changed DEF l
<1>10. CASE SaveChannel(p)
  <2>1. l.pc = "save" /\ ability' = ability /\ st'[p] = Returned(p)
    <3>1. Become(p, Returned(p))
      BY <1>10 DEF SaveChannel, Return
    <3> QED
      BY <1>1, <1>10, <3>1, Holds DEF SaveChannel, At, Before
  <2>2. row' = [row EXCEPT ![c] = [l.copy EXCEPT !.status = l.to]]
    BY <1>10 DEF SaveChannel, Suspect
  <2>3. There(r) /\ l.copy = r /\ Match(r, a, l.to)
    BY <1>4, <2>1 DEF Half
  <2>4. row'[c].tag = r.tag /\ row'[c].status = l.to
    BY <1>2, <2>2, <2>3 DEF Rows
  <2>5. Good(row'[c], a) /\ Others(st["admin"], row'[c])
    BY <1>4, <2>3, <2>4 DEF Good, Match, There, Others
  <2>6. Writes(st'[p]) = {}
    BY <1>1, <2>1
  <2> HIDE DEF l
  <2> QED
    BY <1>1, <1>3, <1>5, <2>1, <2>5, <2>6, Changed DEF l
<1> QED
  BY <1>6, <1>7, <1>8, <1>9, <1>10 DEF UpdateChannelStatusById

(***************************************************************************)
(* What the administrator starts.                                          *)
(***************************************************************************)

\* The administrator comes with m: others stay, and nobody is at the channels of m
\* that are not suspect for it.
LEMMA Begins ==
    ASSUME Before, Apart', UNCHANGED memory, suspect \subseteq suspect',
           st["admin"].pc = "idle", NEW m, Become("admin", m), m.pc \in RowSteps \cup ListSteps,
           NEW c \in Channels \ suspect'
    PROVE  /\ st'["admin"] = m /\ \A q \in Processes \ {"admin"} : st'[q] = st[q]
           /\ c \notin Writes(st["admin"])
           /\ c \in Writes(m) => Good(row[c], ability[c]) /\ \A q \in Processes : c \notin Writes(st[q])
<1>1. st'["admin"] = m /\ \A q \in Processes \ {"admin"} : st'[q] = st[q]
  BY Names, Holds DEF Before
<1>2. Writes(st["admin"]) = {} /\ m.pc \notin StatusSteps
  BY Names, Nothing
<1> QED
  BY <1>1, <1>2, Comes

\* A handler that starts is at its channel alone, or leaves it alone.
LEMMA StartingConsistent ==
    ASSUME Before, Apart', UNCHANGED memory, suspect \subseteq suspect',
           st["admin"].pc = "idle", NEW m, Become("admin", m), m.pc \in RowSteps \cup ListSteps,
           NEW c \in Channels \ suspect',
           c \in Writes(m) => \/ m.pc \notin Quiet /\ Half(m, c, row'[c], ability'[c])
                              \/ m.pc = "prune" /\ row'[c] = row[c] /\ ability'[c] = ability[c],
           c \notin Writes(m) => Others(m, row[c]) /\ row'[c] = row[c] /\ ability'[c] = ability[c]
    PROVE  Consistent(c)'
<1>1. /\ st'["admin"] = m /\ \A q \in Processes \ {"admin"} : st'[q] = st[q]
      /\ c \notin Writes(st["admin"]) /\ "admin" \in Processes
      /\ c \in Writes(m) => Good(row[c], ability[c]) /\ \A q \in Processes : c \notin Writes(st[q])
  BY Names, Begins
<1>2. Consistent(c)
  BY DEF Before, Agree
<1>3. CASE c \notin Writes(m)
  <2>1. \A q \in Processes : Passes(q, c)
    BY <1>1, <1>3 DEF Passes
  <2> QED
    BY <1>2, <1>3, <2>1, Kept
<1>4. CASE c \in Writes(m) /\ m.pc \notin Quiet /\ Half(m, c, row'[c], ability'[c])
  BY <1>1, <1>4, Changed
<1>5. CASE c \in Writes(m) /\ m.pc = "prune" /\ row'[c] = row[c] /\ ability'[c] = ability[c]
  <2>1. Half(m, c, row[c], ability[c])
    BY <1>5 DEF Half
  <2>2. \A q \in Processes : Passes(q, c)
    BY <1>1, <1>5, <2>1 DEF Passes
  <2> QED
    BY <1>2, <1>5, <2>2, Kept
<1> QED
  BY <1>3, <1>4, <1>5

\* A handler that is done at once, in the two tables of channels nobody is at.
LEMMA AtOnce ==
    ASSUME Before, UNCHANGED st, st["admin"].pc = "idle", NEW c \in Channels, Consistent(c),
           \/ row'[c] = row[c] /\ ability'[c] = ability[c]
           \/ Good(row'[c], ability'[c]) /\ c \notin Busy
    PROVE  Consistent(c)'
<1>1. CASE row'[c] = row[c] /\ ability'[c] = ability[c]
  BY <1>1, Idles
<1>2. CASE Good(row'[c], ability'[c]) /\ c \notin Busy
  <2>1. \A q \in Processes : c \notin Writes(st[q]) /\ st'[q] = st[q]
    BY <1>2 DEF Busy
  <2>2. Others(st'["admin"], row'[c])
    BY DEF Others
  <2>3. "admin" \in Processes
    BY Names
  <2> QED
    BY <1>2, <2>1, <2>2, <2>3, Changed
<1> QED
  BY <1>1, <1>2

\* Insert, Update and Delete write the row of the channel they go on with.
LEMMA RowStarts ==
    ASSUME Before, Apart', UNCHANGED memory, suspect \subseteq suspect',
           AddChannel \/ UpdateChannel \/ DeleteChannel, NEW c \in Channels \ suspect'
    PROVE  Consistent(c)'
<1>1. st["admin"].pc = "idle" /\ ability' = ability /\ row \in [Channels -> Rows]
  BY DEF AddChannel, UpdateChannel, DeleteChannel, Job, At, Before, Typed, TablesOK
<1>2. {"insert", "reread", "unlink"} \subseteq RowSteps /\ {"insert", "reread", "unlink"} \cap Quiet = {}
  BY Names DEF Quiet
<1>3. CASE AddChannel
  <2> DEFINE r(t) == [status |-> "enabled", tag |-> t]
  <2>1. PICK d \in Channels, t \in Tags :
          /\ row' = [row EXCEPT ![d] = r(t)]
          /\ Become("admin", [Admin("insert") EXCEPT !.ch = d, !.copy = r(t)])
    BY <1>3 DEF AddChannel
  <2> DEFINE m == [Admin("insert") EXCEPT !.ch = d, !.copy = r(t)]
  <2>2. r(t) \in Rows /\ There(r(t))
    BY DEF Rows, Statuses, There
  <2>3. m.pc = "insert" /\ m.ch = d /\ m.copy = r(t)
    <3>1. Admin("insert") \in Hands /\ Admin("insert").pc = "insert"
      BY AdminHands, Names
    <3> HIDE DEF r
    <3> QED
      BY <3>1 DEF Hands
  <2>4. Writes(m) = {d}
    BY <1>2, <2>3 DEF Writes
  <2>5. Become("admin", m)
    BY <2>1
  <2>6. row'[d] = r(t) /\ (c # d => row'[c] = row[c])
    BY <1>1, <2>1
  <2> HIDE DEF m, r
  <2>7. c \in Writes(m) => Half(m, c, row'[c], ability'[c])
    BY <2>2, <2>3, <2>4, <2>6 DEF Half
  <2>8. c \notin Writes(m) => Others(m, row[c]) /\ row'[c] = row[c] /\ ability'[c] = ability[c]
    BY <1>1, <2>3, <2>4, <2>6 DEF Others
  <2> QED
    BY <1>1, <1>2, <2>3, <2>5, <2>7, <2>8, StartingConsistent
<1>4. CASE UpdateChannel
  <2>1. PICK d \in In(row), s \in Statuses :
          /\ row' = [row EXCEPT ![d].status = s]
          /\ Become("admin", [Admin("reread") EXCEPT !.ch = d, !.copy = row'[d]])
    BY <1>4 DEF UpdateChannel
  <2> DEFINE m == [Admin("reread") EXCEPT !.ch = d, !.copy = row'[d]]
  <2>2. row'[d] \in Rows /\ There(row'[d]) /\ d \in Channels /\ (c # d => row'[c] = row[c])
    BY <1>1, <2>1 DEF Rows, Statuses, There, In
  <2>3. m.pc = "reread" /\ m.ch = d /\ m.copy = row'[d]
    <3>1. Admin("reread") \in Hands /\ Admin("reread").pc = "reread"
      BY AdminHands, Names
    <3> QED
      BY <3>1 DEF Hands
  <2>4. Writes(m) = {d}
    BY <1>2, <2>3 DEF Writes
  <2>5. Become("admin", m)
    BY <2>1
  <2> HIDE DEF m
  <2>7. c \in Writes(m) => Half(m, c, row'[c], ability'[c])
    BY <2>2, <2>3, <2>4 DEF Half
  <2>8. c \notin Writes(m) => Others(m, row[c]) /\ row'[c] = row[c] /\ ability'[c] = ability[c]
    BY <1>1, <2>2, <2>3, <2>4 DEF Others
  <2> QED
    BY <1>1, <1>2, <2>3, <2>5, <2>7, <2>8, StartingConsistent
<1>5. CASE DeleteChannel
  <2>1. PICK d \in In(row) : /\ row' = Deleted({d})
                             /\ Become("admin", [Admin("unlink") EXCEPT !.ch = d])
    BY <1>5 DEF DeleteChannel
  <2> DEFINE m == [Admin("unlink") EXCEPT !.ch = d]
  <2>2. d \in Channels /\ ~There(row'[d]) /\ (c # d => row'[c] = row[c])
    BY <2>1, BlankTyped DEF In, Deleted, There
  <2>3. m.pc = "unlink" /\ m.ch = d
    BY <1>2, <2>2, RowFits, BlankTyped
  <2>4. Writes(m) = {d}
    BY <1>2, <2>3 DEF Writes
  <2>5. Become("admin", m)
    BY <2>1
  <2> HIDE DEF m
  <2>7. c \in Writes(m) => Half(m, c, row'[c], ability'[c])
    BY <2>2, <2>3, <2>4 DEF Half
  <2>8. c \notin Writes(m) => Others(m, row[c]) /\ row'[c] = row[c] /\ ability'[c] = ability[c]
    BY <1>1, <2>2, <2>3, <2>4 DEF Others
  <2> QED
    BY <1>1, <1>2, <2>3, <2>5, <2>7, <2>8, StartingConsistent
<1> QED
  BY <1>3, <1>4, <1>5

\* The switch and the edit of a tag write the rows of the tag, and go on with them.
LEMMA TagStarts ==
    ASSUME Before, Apart', UNCHANGED memory, suspect \subseteq suspect',
           SwitchTag \/ EditTag, NEW c \in Channels \ suspect'
    PROVE  Consistent(c)'
<1>1. st["admin"].pc = "idle" /\ ability' = ability /\ row \in [Channels -> Rows] /\ row[c] \in Rows
  BY DEF SwitchTag, EditTag, Job, At, Before, Typed, TablesOK
<1>2. {"switch", "retag", "relist"} \subseteq ListSteps /\ {"switch", "retag", "relist"} \cap Quiet = {}
  BY Names DEF Quiet
<1>3. \A t : Tagged(t) \in SUBSET Channels /\ (c \in Tagged(t) <=> There(row[c]) /\ row[c].tag = t)
  BY DEF Tagged, In, There
<1>4. \A m : m.pc \in {"switch", "retag", "relist"} => Writes(m) = m.list
  BY Names DEF Writes
<1>5. CASE SwitchTag
  <2>1. PICK t \in Tags, s \in {"enabled", "manual"} :
          /\ row' = [d \in Channels |-> IF d \in Tagged(t) THEN [row[d] EXCEPT !.status = s] ELSE row[d]]
          /\ Become("admin", [Admin("switch") EXCEPT !.tag = t, !.to = s, !.list = Tagged(t)])
    BY <1>5 DEF SwitchTag
  <2> DEFINE m == [Admin("switch") EXCEPT !.tag = t, !.to = s, !.list = Tagged(t)]
  <2>2. m.pc = "switch" /\ m.tag = t /\ m.to = s /\ m.list = Tagged(t)
    <3>1. Admin("switch") \in Hands /\ Admin("switch").pc = "switch"
      BY AdminHands, Names
    <3> QED
      BY <3>1 DEF Hands
  <2>3. Become("admin", m)
    BY <2>1
  <2> HIDE DEF m
  <2>4. Writes(m) = Tagged(t)
    BY <1>4, <2>2
  <2>5. /\ c \in Tagged(t) => row'[c].tag = t /\ row'[c].status = s
        /\ c \notin Tagged(t) => row'[c] = row[c]
    <3>1. [row[c] EXCEPT !.status = s].tag = row[c].tag /\ [row[c] EXCEPT !.status = s].status = s
      BY <1>1 DEF Rows
    <3> QED
      BY <1>3, <2>1, <3>1
  <2>6. c \in Tagged(t) => Good(row[c], ability[c])
    BY <1>1, <1>2, <2>2, <2>3, <2>4, Begins
  <2>7. c \in Writes(m) => Half(m, c, row'[c], ability'[c])
    BY <1>1, <1>3, <2>2, <2>4, <2>5, <2>6 DEF Half, Good, Match, There
  <2>8. c \notin Writes(m) => Others(m, row[c]) /\ row'[c] = row[c] /\ ability'[c] = ability[c]
    BY <1>1, <1>3, <2>2, <2>4, <2>5 DEF Others
  <2> QED
    BY <1>1, <1>2, <2>2, <2>3, <2>7, <2>8, StartingConsistent
<1>6. CASE EditTag
  <2>1. PICK t \in Tags, u \in Tags, k \in {"retag", "relist"} :
          /\ row' = [d \in Channels |-> IF d \in Tagged(t) THEN [row[d] EXCEPT !.tag = u] ELSE row[d]]
          /\ Become("admin", [Admin(k) EXCEPT !.tag = t, !.copy.tag = u, !.list = Tagged(t)])
    <3>1. PICK t \in Tags, u \in Tags, again \in BOOLEAN :
          /\ row' = [d \in Channels |-> IF d \in Tagged(t) THEN [row[d] EXCEPT !.tag = u] ELSE row[d]]
          /\ Become("admin", [Admin(IF again THEN "relist" ELSE "retag") EXCEPT
                                !.tag = t, !.copy.tag = u, !.list = Tagged(t)])
      BY <1>6 DEF EditTag
    <3>2. CASE again
      BY <3>1, <3>2
    <3>3. CASE ~again
      BY <3>1, <3>3
    <3> QED
      BY <3>2, <3>3
  <2> DEFINE m == [Admin(k) EXCEPT !.tag = t, !.copy.tag = u, !.list = Tagged(t)]
  <2>2. m.pc = k /\ m.tag = t /\ m.copy.tag = u /\ m.list = Tagged(t)
    <3>1. Admin(k) \in Hands /\ Admin(k).pc = k
      BY AdminHands, Names
    <3>2. [Admin(k).copy EXCEPT !.tag = u].tag = u
      BY <3>1 DEF Hands, Rows
    <3> QED
      BY <3>1, <3>2 DEF Hands
  <2>3. Become("admin", m)
    BY <2>1
  <2> HIDE DEF m
  <2>4. Writes(m) = Tagged(t)
    BY <1>4, <2>2
  <2>5. /\ c \in Tagged(t) => row'[c].tag = u /\ row'[c].status = row[c].status
        /\ c \notin Tagged(t) => row'[c] = row[c]
    <3>1. [row[c] EXCEPT !.tag = u].tag = u /\ [row[c] EXCEPT !.tag = u].status = row[c].status
      BY <1>1 DEF Rows
    <3> QED
      BY <1>3, <2>1, <3>1
  <2>6. c \in Tagged(t) => Good(row[c], ability[c])
    BY <1>1, <1>2, <2>2, <2>3, <2>4, Begins
  <2>7. c \in Writes(m) => Half(m, c, row'[c], ability'[c])
    BY <1>1, <1>3, <2>2, <2>4, <2>5, <2>6 DEF Half, Good, Match, There
  <2>8. c \notin Writes(m) => Others(m, row[c]) /\ row'[c] = row[c] /\ ability'[c] = ability[c]
    BY <1>1, <1>3, <2>2, <2>4, <2>5 DEF Others
  <2> QED
    BY <1>1, <1>2, <2>2, <2>3, <2>7, <2>8, StartingConsistent
<1> QED
  BY <1>5, <1>6

\* FixAbility begins with what it will not prune; the other handlers are done at once.
LEMMA OthersStart ==
    ASSUME Before, Apart', UNCHANGED memory, suspect \subseteq suspect',
           FixAbility \/ DeleteChannelBatch \/ DeleteDisabledChannel \/ BatchSetChannelTag,
           NEW c \in Channels \ suspect'
    PROVE  Consistent(c)'
<1>1. /\ st["admin"].pc = "idle" /\ row \in [Channels -> Rows] /\ row[c] \in Rows
      /\ ability \in [Channels -> Rows] /\ In(row) \in SUBSET Channels
  BY DEF FixAbility, DeleteChannelBatch, DeleteDisabledChannel, BatchSetChannelTag, Job, At,
         Before, Typed, TablesOK, In
<1>2. Consistent(c)
  BY DEF Before, Agree
<1>3. CASE FixAbility
  <2> DEFINE m == [Admin("prune") EXCEPT !.list = In(row)]
  <2>1. Become("admin", m) /\ row' = row /\ ability' = ability
    BY <1>3 DEF FixAbility, Tables
  <2>2. m.pc = "prune" /\ m.list = In(row)
    BY DEF Admin, Idle
  <2> HIDE DEF m
  <2>3. Writes(m) = In(row) /\ m.pc \in ListSteps
    BY <2>2, Names DEF Writes
  <2>4. c \notin Writes(m) => Others(m, row[c])
    BY <2>2, <2>3 DEF Others, There, In
  <2> QED
    BY <1>1, <2>1, <2>2, <2>3, <2>4, StartingConsistent
<1>4. CASE DeleteChannelBatch
  <2>1. PICK S \in SUBSET In(row) : /\ row' = Deleted(S) /\ ability' = Unlinked(S)
                                    /\ suspect' = suspect \cup (S \cap Busy)
    BY <1>4 DEF DeleteChannelBatch
  <2>2. c \notin S => row'[c] = row[c] /\ ability'[c] = ability[c]
    BY <2>1 DEF Deleted, Unlinked
  <2>3. c \in S => Good(row'[c], ability'[c]) /\ c \notin Busy
    BY <2>1, BlankTyped DEF Deleted, Good, There
  <2> QED
    BY <1>1, <1>2, <1>4, <2>2, <2>3, AtOnce DEF DeleteChannelBatch
<1>5. CASE DeleteDisabledChannel
  <2>1. PICK S \in SUBSET In(row) : /\ row' = Deleted(S) /\ ability' = ability
                                    /\ suspect' = suspect \cup (S \cap Busy)
    BY <1>5 DEF DeleteDisabledChannel
  <2>2. c \notin S => row'[c] = row[c] /\ ability'[c] = ability[c]
    BY <2>1 DEF Deleted
  <2>3. c \in S => Good(row'[c], ability'[c]) /\ c \notin Busy
    BY <2>1, BlankTyped DEF Deleted, Good, There
  <2> QED
    BY <1>1, <1>2, <1>5, <2>2, <2>3, AtOnce DEF DeleteDisabledChannel
<1>6. CASE BatchSetChannelTag
  <2>1. PICK S \in SUBSET In(row), t \in Tags :
          /\ row' = [d \in Channels |-> IF d \in S THEN [row[d] EXCEPT !.tag = t] ELSE row[d]]
          /\ ability' = Rebuilt(S, row)
          /\ suspect' = suspect \cup {d \in S : row[d].tag # t \/ d \in Busy}
    BY <1>6 DEF BatchSetChannelTag
  <2>2. c \notin S => row'[c] = row[c] /\ ability'[c] = ability[c]
    BY <2>1 DEF Rebuilt
  <2>3. ASSUME c \in S PROVE Good(row'[c], ability'[c]) /\ c \notin Busy
    <3>1. row[c].tag = t /\ c \notin Busy
      BY <2>1, <2>3
    <3>2. row'[c].tag = row[c].tag /\ row'[c].status = row[c].status
      <4>1. [row[c] EXCEPT !.tag = t].tag = t /\ [row[c] EXCEPT !.tag = t].status = row[c].status
        BY <1>1 DEF Rows
      <4> QED
        BY <2>1, <2>3, <3>1, <4>1
    <3>3. ability'[c] = AbilityOf(row[c])
      BY <2>1, <2>3 DEF Rebuilt
    <3> QED
      BY <3>1, <3>2, <3>3 DEF Good, Match, There, AbilityOf
  <2> QED
    BY <1>1, <1>2, <1>6, <2>2, <2>3, AtOnce DEF BatchSetChannelTag
<1> QED
  BY <1>3, <1>4, <1>5, <1>6

(***************************************************************************)
(* What the administrator goes on with.                                    *)
(***************************************************************************)

\* The administrator goes on: others stay, and nobody but a status update that
\* waits for the lock is at his channels.
LEMMA GoesAlong ==
    ASSUME Before, NEW m, Become("admin", m), NEW c \in Channels \ suspect
    PROVE  /\ "admin" \in Processes /\ st'["admin"] = m
           /\ \A q \in Processes \ {"admin"} : st'[q] = st[q]
           /\ c \in Writes(st["admin"]) => /\ \A q \in Processes \ {"admin"} : c \notin Writes(st[q])
                                           /\ Half(st["admin"], c, row[c], ability[c])
           /\ c \notin Writes(st["admin"]) => Others(st["admin"], row[c])
<1>1. "admin" \in Processes /\ Consistent(c)
  BY Names DEF Before, Agree
<1>2. st'["admin"] = m /\ \A q \in Processes \ {"admin"} : st'[q] = st[q]
  BY <1>1, Holds DEF Before
<1>3. ASSUME c \in Writes(st["admin"]), NEW q \in Processes \ {"admin"} PROVE c \notin Writes(st[q])
  BY <1>1, <1>3, Alone
<1> QED
  BY <1>1, <1>2, <1>3 DEF Consistent

\* A step that leaves the tables of c alone, and his work at c half done or not begun.
LEMMA GoesPast ==
    ASSUME Before, NEW m, Become("admin", m), NEW c \in Channels \ suspect,
           row'[c] = row[c], ability'[c] = ability[c],
           c \in Writes(m) => Half(m, c, row[c], ability[c]),
           c \in Writes(st["admin"]) /\ st["admin"].pc \notin Quiet
             => Good(row[c], ability[c]) \/ (c \in Writes(m) /\ m.pc \notin Quiet),
           c \notin Writes(m) => Others(m, row[c])
    PROVE  Consistent(c)'
<1>1. st'["admin"] = m /\ \A q \in Processes \ {"admin"} : st'[q] = st[q]
  BY GoesAlong
<1>2. \A q \in Processes : Passes(q, c)
  BY <1>1 DEF Passes
<1>3. Consistent(c)
  BY DEF Before, Agree
<1> QED
  BY <1>2, <1>3, Kept

\* A step that writes the abilities of one of his channels.
LEMMA GoesThrough ==
    ASSUME Before, NEW m, Become("admin", m), NEW c \in Channels \ suspect,
           c \in Writes(st["admin"]), c \notin Writes(m), m.pc \notin {"switch", "retag", "prune"},
           Good(row'[c], ability'[c])
    PROVE  Consistent(c)'
<1>1. /\ "admin" \in Processes /\ st'["admin"] = m
      /\ \A q \in Processes \ {"admin"} : st'[q] = st[q] /\ c \notin Writes(st[q])
  BY GoesAlong
<1>2. Others(m, row'[c])
  BY DEF Others
<1> QED
  BY <1>1, <1>2, Changed

\* A step of his that may write abilities where there is no row.
LEMMA GoesBare ==
    ASSUME Before, NEW m, Become("admin", m), NEW c \in Channels \ suspect, ~There(row[c]),
           row'[c] = row[c], c \notin Writes(m), m.pc \notin {"switch", "retag"}
    PROVE  Consistent(c)'
<1>1. st'["admin"] = m /\ \A q \in Processes \ {"admin"} : st'[q] = st[q]
  BY GoesAlong
<1>2. Consistent(c) /\ Typed
  BY DEF Before, Agree
<1>3. Others(m, row[c])
  BY DEF Others
<1> QED
  BY <1>1, <1>2, <1>3, Bare

\* The abilities of a row that agree with it have its tag: those of another tag are
\* left alone by what the administrator does to the tag.
LEMMA OtherTag ==
    ASSUME Before, NEW c \in Channels \ suspect, c \notin Writes(st["admin"]),
           There(row[c]), There(ability[c])
    PROVE  ability[c].tag = row[c].tag
<1>1. Consistent(c)
  BY DEF Before, Agree
<1>2. CASE \A p \in Processes : c \in Writes(st[p]) => st[p].pc \in Quiet
  BY <1>1, <1>2 DEF Consistent, Good, Match
<1>3. ASSUME NEW p \in Processes, c \in Writes(st[p]), st[p].pc \notin Quiet
      PROVE  ability[c].tag = row[c].tag
  <2>1. st[p].pc \in {"read", "update", "save"}
    BY <1>3, Workers, Names DEF Before, Quiet
  <2>2. Half(st[p], c, row[c], ability[c])
    BY <1>1, <1>3 DEF Consistent
  <2> QED
    BY <2>1, <2>2 DEF Half, Match
<1> QED
  BY <1>2, <1>3

\* The abilities of the one row in hand are written from the copy, or taken away.
LEMMA RowGoes ==
    ASSUME Before, AddAbilities \/ UpdateAbilities \/ DeleteAbilities \/ Reread,
           NEW c \in Channels \ suspect', c \notin suspect
    PROVE  Consistent(c)'
<1> DEFINE l == st["admin"]
           r == row[c]
           a == ability[c]
<1>1. /\ l \in Hands /\ l.pc \in {"insert", "rebuild", "unlink", "reread"} /\ Writes(l) = {l.ch}
      /\ l.ch \in Channels /\ row' = row /\ ability \in [Channels -> Rows] /\ row \in [Channels -> Rows]
      /\ Fits("admin", l)
  <2>1. l \in Hands /\ Fits("admin", l) /\ ability \in [Channels -> Rows] /\ row \in [Channels -> Rows]
    BY Names DEF Before, Typed, InHand, TablesOK
  <2>2. l.pc \in {"insert", "rebuild", "unlink", "reread"} /\ row' = row
    BY DEF AddAbilities, UpdateAbilities, DeleteAbilities, Reread, At, Tables
  <2>3. l.pc \in RowSteps
    BY <2>2, Names
  <2> QED
    BY <2>1, <2>2, <2>3 DEF Writes, Fits
<1>2. c = l.ch => Half(l, c, r, a)
  <2>1. Consistent(c) /\ "admin" \in Processes
    BY Names DEF Before, Agree
  <2>2. c = l.ch => c \in Writes(l)
    BY <1>1
  <2> HIDE DEF r, a
  <2> QED
    BY <2>1, <2>2 DEF Consistent, r, a
<1>3. Writes(Idle) = {} /\ Idle.pc = "idle" /\ Writes(Refresh) = {} /\ Refresh.pc = "refresh"
  <2>1. Refresh.pc = "refresh"
    BY IdleFits DEF Refresh, Hands
  <2> QED
    BY <2>1, IdleFits, Nothing
<1>4. ASSUME NEW m \in {Idle, Refresh}, Become("admin", m), c # l.ch, ability'[c] = ability[c]
      PROVE  Consistent(c)'
  BY <1>1, <1>3, <1>4, GoesPast DEF Others
<1>5. ASSUME NEW m \in {Idle, Refresh}, Become("admin", m), c = l.ch, Good(r, ability'[c])
      PROVE  Consistent(c)'
  BY <1>1, <1>3, <1>5, GoesThrough
<1>6. CASE AddAbilities \/ UpdateAbilities
  <2>1. l.pc \in {"insert", "rebuild"}
    BY <1>6 DEF AddAbilities, UpdateAbilities, At
  <2>2. CASE ability' = [ability EXCEPT ![l.ch] = AbilityOf(l.copy)] /\ Become("admin", Refresh)
    <3>1. CASE c = l.ch
      <4>1. There(r) /\ l.copy = r /\ ability'[c] = AbilityOf(r)
        BY <1>1, <1>2, <2>1, <2>2, <3>1 DEF Half
      <4>2. Good(r, ability'[c])
        BY <4>1 DEF Good, Match, There, AbilityOf
      <4> QED
        BY <1>5, <2>2, <3>1, <4>2
    <3>2. CASE c # l.ch
      BY <1>1, <1>4, <2>2, <3>2
    <3> QED
      BY <3>1, <3>2
  <2>3. CASE UNCHANGED ability /\ Become("admin", Idle) /\ Suspect({l.ch})
    <3>1. c # l.ch
      BY <2>3 DEF Suspect
    <3> QED
      BY <1>4, <2>3, <3>1
  <2> QED
    BY <1>6, <2>2, <2>3 DEF AddAbilities, UpdateAbilities
<1>7. CASE DeleteAbilities
  <2>1. l.pc = "unlink" /\ Become("admin", Idle)
    BY <1>7 DEF DeleteAbilities, At
  <2>2. CASE ability' = Unlinked({l.ch})
    <3>1. c = l.ch => Good(r, ability'[c])
      BY <1>2, <2>1 DEF Half, Good
    <3>2. c # l.ch => ability'[c] = ability[c]
      BY <2>2 DEF Unlinked
    <3> QED
      BY <1>4, <1>5, <2>1, <3>1, <3>2
  <2>3. CASE UNCHANGED ability /\ Suspect({l.ch})
    <3>1. c # l.ch
      BY <2>3 DEF Suspect
    <3> QED
      BY <1>4, <2>1, <2>3, <3>1
  <2> QED
    BY <1>7, <2>2, <2>3 DEF DeleteAbilities
<1>8. CASE Reread
  <2> DEFINE x == IF l.ch \in In(row) THEN row[l.ch] ELSE l.copy
             m == [l EXCEPT !.pc = "rebuild", !.copy = x]
  <2>1. Become("admin", m) /\ ability' = ability /\ l.pc = "reread"
    BY <1>8 DEF Reread, At, Tables
  <2>2. m.pc = "rebuild" /\ m.ch = l.ch /\ m.copy = x
    BY <1>1 DEF Hands
  <2> HIDE DEF m
  <2>3. Writes(m) = {l.ch} /\ m.pc \notin Quiet
    BY <2>2, Names DEF Writes, Quiet
  <2>4. c = l.ch => Half(m, c, r, a)
    <3>1. c = l.ch => There(r) /\ x = r
      BY <1>1, <1>2, <2>1 DEF Half, There, In
    <3> QED
      BY <2>2, <3>1 DEF Half
  <2>5. c # l.ch => Others(m, r)
    BY <2>2 DEF Others
  <2> HIDE DEF l
  <2> QED
    BY <1>1, <2>1, <2>3, <2>4, <2>5, GoesPast DEF l
<1> QED
  BY <1>6, <1>7, <1>8

\* What he does to a tag is done to the abilities of its rows, and to no other's.
LEMMA TagGoes ==
    ASSUME Before, UpdateAbilityStatusByTag \/ UpdateAbilityByTag \/ GetChannelsByTag,
           NEW c \in Channels \ suspect', c \notin suspect
    PROVE  Consistent(c)'
<1> DEFINE l == st["admin"]
           r == row[c]
           a == ability[c]
<1>1. /\ l \in Hands /\ l.pc \in {"switch", "retag", "relist"} /\ Writes(l) = l.list
      /\ row' = row /\ r \in Rows /\ a \in Rows /\ row \in [Channels -> Rows]
  <2>1. l \in Hands /\ r \in Rows /\ a \in Rows /\ row \in [Channels -> Rows]
    BY Names DEF Before, Typed, InHand, TablesOK
  <2>2. l.pc \in {"switch", "retag", "relist"} /\ row' = row
    BY DEF UpdateAbilityStatusByTag, UpdateAbilityByTag, GetChannelsByTag, At, Tables
  <2> QED
    BY <2>1, <2>2, Names DEF Writes
<1>2. /\ c \in l.list => Half(l, c, r, a)
      /\ c \notin l.list => Others(l, r)
  <2>1. Consistent(c) /\ "admin" \in Processes
    BY Names DEF Before, Agree
  <2> QED
    BY <1>1, <2>1 DEF Consistent
<1>3. Writes(Idle) = {} /\ Idle.pc = "idle" /\ Writes(Refresh) = {} /\ Refresh.pc = "refresh"
  <2>1. Refresh.pc = "refresh"
    BY IdleFits DEF Refresh, Hands
  <2> QED
    BY <2>1, IdleFits, Nothing
<1>4. ASSUME NEW m \in {Idle, Refresh}, Become("admin", m), c \notin l.list,
             ability'[c] = a \/ (l.pc \in {"switch", "retag"} /\ There(a) /\ a.tag = l.tag)
      PROVE  Consistent(c)'
  <2>1. CASE ability'[c] = a
    BY <1>1, <1>3, <1>4, <2>1, GoesPast DEF Others
  <2>2. CASE l.pc \in {"switch", "retag"} /\ There(a) /\ a.tag = l.tag
    <3>1. ~There(r)
      BY <1>1, <1>2, <1>4, <2>2, OtherTag DEF Others
    <3> QED
      BY <1>1, <1>3, <1>4, <3>1, GoesBare
  <2> QED
    BY <1>4, <2>1, <2>2
<1>5. ASSUME NEW m \in {Idle, Refresh}, Become("admin", m), c \in l.list, Good(r, ability'[c])
      PROVE  Consistent(c)'
  BY <1>1, <1>3, <1>5, GoesThrough
<1>6. ASSUME Become("admin", Idle), UNCHANGED ability, Suspect(l.list)
      PROVE  Consistent(c)'
  <2>1. c \notin l.list
    BY <1>6 DEF Suspect
  <2> QED
    BY <1>4, <1>6, <2>1
<1>7. CASE UpdateAbilityStatusByTag
  <2>1. l.pc = "switch" /\ l.to \in Statuses
    BY <1>1, <1>7 DEF UpdateAbilityStatusByTag, At, Hands
  <2>2. CASE /\ ability' = [d \in Channels |-> IF d \in In(ability) /\ ability[d].tag = l.tag
                                               THEN [ability[d] EXCEPT !.status = l.to] ELSE ability[d]]
             /\ Become("admin", Refresh)
    <3>1. ability'[c] = IF There(a) /\ a.tag = l.tag THEN [a EXCEPT !.status = l.to] ELSE a
      BY <2>2 DEF In, There
    <3>2. ASSUME c \in l.list PROVE Good(r, ability'[c])
      <4>1. r.tag = l.tag /\ r.status = l.to /\ There(a) /\ a.tag = l.tag
        BY <1>2, <2>1, <3>2 DEF Half
      <4>2. ability'[c].status = l.to /\ ability'[c].tag = a.tag
        BY <1>1, <3>1, <4>1 DEF Rows
      <4> QED
        BY <2>1, <4>1, <4>2 DEF Good, Match, There, Statuses
    <3> QED
      BY <1>4, <1>5, <2>1, <2>2, <3>1, <3>2
  <2> QED
    BY <1>6, <1>7, <2>2 DEF UpdateAbilityStatusByTag
<1>8. CASE UpdateAbilityByTag
  <2>1. l.pc = "retag" /\ Become("admin", Idle)
    BY <1>8 DEF UpdateAbilityByTag, At
  <2>2. CASE ability' = [d \in Channels |-> IF d \in In(ability) /\ ability[d].tag = l.tag
                                            THEN [ability[d] EXCEPT !.tag = l.copy.tag] ELSE ability[d]]
    <3>1. ability'[c] = IF There(a) /\ a.tag = l.tag THEN [a EXCEPT !.tag = l.copy.tag] ELSE a
      BY <2>2 DEF In, There
    <3>2. ASSUME c \in l.list PROVE Good(r, ability'[c])
      <4>1. /\ r.tag = l.copy.tag /\ There(a) /\ a.tag = l.tag
            /\ a.status = "enabled" <=> r.status = "enabled"
        BY <1>2, <2>1, <3>2 DEF Half
      <4>2. ability'[c].status = a.status /\ ability'[c].tag = l.copy.tag
        BY <1>1, <3>1, <4>1 DEF Rows
      <4> QED
        BY <4>1, <4>2 DEF Good, Match, There
    <3> QED
      BY <1>4, <1>5, <2>1, <3>1, <3>2
  <2> QED
    BY <1>6, <1>8, <2>1, <2>2 DEF UpdateAbilityByTag
<1>9. CASE GetChannelsByTag
  <2> DEFINE found == Tagged(l.copy.tag)
             m == [Admin("edit") EXCEPT !.list = found, !.seen = row]
  <2>1. l.pc = "relist" /\ ability' = ability
    BY <1>9 DEF GetChannelsByTag, At, Tables
  <2>2. CASE Become("admin", m)
    <3>1. m.pc = "edit" /\ m.list = found /\ m.seen = row
      <4>1. Admin("edit") \in Hands /\ Admin("edit").pc = "edit"
        BY AdminHands, Names
      <4> QED
        BY <4>1 DEF Hands
    <3> HIDE DEF m
    <3>2. Writes(m) = found /\ m.pc \notin Quiet
      BY <3>1, Names DEF Writes, Quiet
    <3>3. c \in found <=> There(r) /\ r.tag = l.copy.tag
      BY DEF Tagged, In, There
    <3>4. c \in found => Half(m, c, r, a)
      BY <3>1, <3>3 DEF Half
    <3>5. Others(m, r)
      BY <3>1 DEF Others
    <3>6. c \in l.list => c \in found
      BY <1>2, <2>1, <3>3 DEF Half
    <3> HIDE DEF found, l
    <3> QED
      BY <1>1, <2>1, <2>2, <3>2, <3>4, <3>5, <3>6, GoesPast DEF l
  <2> QED
    BY <1>6, <1>9, <2>1, <2>2 DEF GetChannelsByTag
<1> QED
  BY <1>7, <1>8, <1>9

\* FixAbility, and the edit of a tag that rebuilds, write the abilities of the rows
\* they have read, and of no row that is there and has its own.
LEMMA FixGoes ==
    ASSUME Before, PruneAbilities \/ MissingAbilities \/ RebuildListed,
           NEW c \in Channels \ suspect', c \notin suspect
    PROVE  Consistent(c)'
<1> DEFINE l == st["admin"]
           r == row[c]
           a == ability[c]
<1>1. /\ l \in Hands /\ l.pc \in {"prune", "missing", "edit", "fix"} /\ Writes(l) = l.list
      /\ row' = row /\ row \in [Channels -> Rows]
  <2>1. l \in Hands /\ row \in [Channels -> Rows]
    BY Names DEF Before, Typed, InHand, TablesOK
  <2>2. l.pc \in {"prune", "missing", "edit", "fix"} /\ row' = row
    BY DEF PruneAbilities, MissingAbilities, RebuildListed, At, Tables
  <2> QED
    BY <2>1, <2>2, Names DEF Writes
<1>2. /\ c \in l.list => Half(l, c, r, a)
      /\ c \notin l.list => Others(l, r)
  <2>1. Consistent(c) /\ "admin" \in Processes
    BY Names DEF Before, Agree
  <2> QED
    BY <1>1, <2>1 DEF Consistent
<1>3. Writes(Idle) = {} /\ Idle.pc = "idle"
  BY IdleFits, Nothing
<1>4. CASE PruneAbilities
  <2>1. l.pc = "prune"
    BY <1>4 DEF PruneAbilities, At
  <2>2. CASE ability' = ability /\ Become("admin", Idle)
    BY <1>1, <1>3, <2>1, <2>2, GoesPast DEF Others, Quiet
  <2>3. CASE ability' = Unlinked(Channels \ l.list) /\ Become("admin", [l EXCEPT !.pc = "missing"])
    <3> DEFINE m == [l EXCEPT !.pc = "missing"]
    <3>1. m.pc = "missing" /\ m.list = l.list
      BY <1>1 DEF Hands
    <3>2. Become("admin", m)
      BY <2>3
    <3> HIDE DEF m
    <3>3. Writes(m) = l.list
      BY <3>1, Names DEF Writes
    <3>4. CASE c \in l.list
      <4>1. ability'[c] = a
        BY <2>3, <3>4 DEF Unlinked
      <4>2. Half(m, c, r, a) /\ Others(m, r)
        BY <3>1 DEF Half, Others
      <4> QED
        BY <1>1, <2>1, <3>2, <3>3, <3>4, <4>1, <4>2, GoesPast DEF Quiet
    <3>5. CASE c \notin l.list
      <4>1. ~There(r)
        BY <1>2, <2>1, <3>5 DEF Others
      <4> QED
        BY <1>1, <3>1, <3>2, <3>3, <3>5, <4>1, GoesBare
    <3> QED
      BY <3>4, <3>5
  <2> QED
    BY <1>4, <2>2, <2>3 DEF PruneAbilities
<1>5. CASE MissingAbilities
  <2> DEFINE found == In(row) \ In(ability)
             m == [Admin("fix") EXCEPT !.list = found, !.seen = row]
  <2>1. l.pc = "missing" /\ ability' = ability /\ Become("admin", m)
    BY <1>5 DEF MissingAbilities, At, Tables
  <2>2. m.pc = "fix" /\ m.list = found /\ m.seen = row
    <3>1. Admin("fix") \in Hands /\ Admin("fix").pc = "fix"
      BY AdminHands, Names
    <3> QED
      BY <3>1 DEF Hands
  <2> HIDE DEF m
  <2>3. Writes(m) = found
    BY <2>2, Names DEF Writes
  <2>4. c \in found => Half(m, c, r, a)
    BY <2>2 DEF Half, There, In
  <2>5. Others(m, r)
    BY <2>2 DEF Others
  <2> HIDE DEF found
  <2> QED
    BY <1>1, <2>1, <2>3, <2>4, <2>5, GoesPast DEF Quiet
<1>6. CASE RebuildListed
  <2>1. l.pc \in {"edit", "fix"} /\ l.pc \notin Quiet
    BY <1>6 DEF RebuildListed, At, Quiet
  <2>2. ASSUME NEW d \in l.list, Become("admin", [l EXCEPT !.list = @ \ {d}]),
               \/ ability' = Rebuilt({d}, l.seen)
               \/ UNCHANGED ability /\ Suspect({d})
        PROVE  Consistent(c)'
    <3> DEFINE m == [l EXCEPT !.list = @ \ {d}]
    <3>1. m.pc = l.pc /\ m.list = l.list \ {d} /\ m.seen = l.seen
      BY <1>1 DEF Hands
    <3>2. Become("admin", m)
      BY <2>2
    <3> HIDE DEF m
    <3>3. Writes(m) = l.list \ {d} /\ m.pc \notin Quiet /\ m.pc \in {"edit", "fix"}
      BY <2>1, <3>1, Names DEF Writes
    <3>4. CASE c = d
      <4>1. ability' = Rebuilt({d}, l.seen)
        BY <2>2, <3>4 DEF Suspect
      <4>2. ability'[c] = AbilityOf(l.seen[c])
        BY <3>4, <4>1 DEF Rebuilt
      <4>3. l.seen[c] = r
        BY <1>2, <2>1, <2>2, <3>4 DEF Half
      <4>4. Good(r, ability'[c])
        BY <4>2, <4>3 DEF Good, Match, There, AbilityOf
      <4> HIDE DEF l
      <4> QED
        BY <1>1, <2>2, <3>2, <3>3, <3>4, <4>4, GoesThrough DEF l
    <3>5. CASE c # d
      <4>1. ability'[c] = a
        BY <2>2, <3>5 DEF Rebuilt
      <4>2. c \in l.list => Half(m, c, r, a)
        BY <1>2, <2>1, <3>1, <3>3 DEF Half
      <4>3. Others(m, r)
        BY <3>3 DEF Others
      <4> HIDE DEF l
      <4> QED
        BY <1>1, <3>2, <3>3, <3>5, <4>1, <4>2, <4>3, GoesPast DEF l
    <3> QED
      BY <3>4, <3>5
  <2>3. ASSUME l.list = {}, UNCHANGED ability, Become("admin", IF l.pc = "fix" THEN Admin("sync") ELSE Idle)
        PROVE  Consistent(c)'
    <3>1. Admin("sync").pc = "sync"
      BY AdminHands, Names
    <3>2. Writes(Admin("sync")) = {}
      BY <3>1, Nothing
    <3>3. ASSUME NEW m \in {Admin("sync"), Idle}, Become("admin", m)
          PROVE  Consistent(c)'
      BY <1>1, <1>3, <2>3, <3>1, <3>2, <3>3, GoesPast DEF Others
    <3> QED
      BY <2>3, <3>3
  <2> QED
    BY <1>6, <2>2, <2>3 DEF RebuildListed
<1> QED
  BY <1>4, <1>5, <1>6

\* The refresh of the prefix cache writes no table.
LEMMA RefreshGoes ==
    ASSUME Before, RefreshPrefixChannelsCache \/ StorePrefixes("admin"),
           NEW c \in Channels \ suspect
    PROVE  Consistent(c)'
<1>1. row' = row /\ ability' = ability /\ st["admin"].pc \in {"refresh", "store"}
  BY DEF RefreshPrefixChannelsCache, StorePrefixes, Tables, At
<1>2. PICK m : Become("admin", m) /\ m.pc \in {"store", "idle"}
  <2>1. [Admin("store") EXCEPT !.seen = row].pc = "store"
    <3>1. Admin("store") \in Hands /\ Admin("store").pc = "store"
      BY AdminHands, Names
    <3> QED
      BY <3>1 DEF Hands
  <2> QED
    BY <2>1, IdleFits DEF RefreshPrefixChannelsCache, StorePrefixes
<1>3. Writes(m) = {} /\ Writes(st["admin"]) = {} /\ Others(m, row[c])
  BY <1>1, <1>2, Nothing DEF Others
<1> QED
  BY <1>1, <1>2, <1>3, GoesPast

(***************************************************************************)
(* The theorem.                                                            *)
(***************************************************************************)

\* Every step keeps the tables of the channels that are not suspect in agreement.
LEMMA NextAgrees == Before /\ [Next]_vars => Apart' /\ Agree'
<1> SUFFICES ASSUME Before, [Next]_vars PROVE Apart' /\ Agree'
  OBVIOUS
<1>1. CASE UNCHANGED vars
  <2>1. Apart' /\ suspect' = suspect
    BY <1>1 DEF Before, Apart, Overlap, vars
  <2>2. ASSUME NEW c \in Channels \ suspect' PROVE Consistent(c)'
    BY <1>1, <2>1, <2>2, Idles DEF Before, Agree, vars
  <2> QED
    BY <2>1, <2>2 DEF Agree
<1>2. CASE Next
  <2>1. Apart' /\ suspect \subseteq suspect'
    BY <1>2, ApartStays
  <2>2. ASSUME NEW c \in Channels \ suspect' PROVE Consistent(c)'
    <3>1. c \in Channels /\ c \notin suspect /\ Consistent(c)
      BY <2>1 DEF Before, Agree
    <3>2. CASE Request
      BY <3>1, <3>2, RequestAgrees
    <3>3. ASSUME NEW p \in Callers, UpdateChannelStatusById(p) PROVE Consistent(c)'
      BY <3>1, <3>3, StatusElsewhere, StatusAgrees
    <3>4. CASE \/ TestAllChannels \/ TestChannel \/ TestsDone
               \/ UpdateAllChannelsBalance \/ UpdateChannelBalance
      BY <3>1, <3>4, TestersAgree
    <3>5. CASE InitChannelCache("admin") \/ InitChannelCache("syncer") \/ PrefixesExpire
      BY <3>1, <3>5, CacheAgrees
    <3>6. CASE Starting
      <4>1. UNCHANGED memory
        BY <3>6 DEF Starting, AddChannel, UpdateChannel, DeleteChannel, DeleteChannelBatch,
                    DeleteDisabledChannel, SwitchTag, EditTag, BatchSetChannelTag, FixAbility,
                    NoChange, Locals
      <4> QED
        BY <2>1, <3>6, <4>1, RowStarts, TagStarts, OthersStart DEF Starting
    <3>7. CASE Going
      BY <3>1, <3>7, RowGoes, TagGoes, FixGoes, RefreshGoes DEF Going
    <3> QED
      BY <1>2, <3>2, <3>3, <3>4, <3>5, <3>6, <3>7
         DEF Next, TestAll, UpdateBalances, Administer, Starting, Going, Callers
  <2> QED
    BY <2>1, <2>2 DEF Agree
<1> QED
  BY <1>1, <1>2

\* The tables `channels` and `abilities` say the same of every channel, unless one of
\* its statements failed, two jobs wrote it at once or a batch left it an old tag:
\* with the memory cache two status updates never do, whatever they meet.
THEOREM AbilitiesAgreeAlways == Spec => []AbilitiesAgree
<1>1. Apart /\ Agree => AbilitiesAgree
  <2> SUFFICES ASSUME Agree, NEW c \in In(row) \ (suspect \cup Busy)
               PROVE  (ability[c].status = "enabled") = (row[c].status = "enabled")
    BY DEF AbilitiesAgree
  <2>1. c \in Channels \ suspect /\ There(row[c])
    BY DEF In, There
  <2>2. \A p \in Processes : c \notin Writes(st[p])
    BY DEF Busy
  <2> QED
    BY <2>1, <2>2 DEF Agree, Consistent, Good, Match
<1>2. Typed /\ Inv /\ Apart /\ Agree /\ [Next]_vars => Apart' /\ Agree'
  BY NextAgrees DEF Before
<1> QED
  BY <1>1, <1>2, InitAgrees, TypedHolds, InvHolds, PTL DEF Spec
=============================================================================
