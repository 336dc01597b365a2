------------------------------ MODULE Channels ------------------------------
(* The channels of a Veloera server: the rows of the tables `channels` and     *)
(* `abilities`, the two maps of model/cache.go, the prefix cache of            *)
(* middleware/distributor.go, and everything that changes them: requests whose *)
(* upstream refuses, the test of all channels, the balance update, the         *)
(* administrator, and the periodic sync.                                       *)
(*                                                                             *)
(* A channel serves one model in the one group, so its abilities are one row:  *)
(* each statement of the code writes all of a channel's abilities alike.  A    *)
(* process takes one step per statement, critical section or upstream answer.  *)
EXTENDS Naturals, FiniteSets

CONSTANTS Channels,       \* ids of the table
          None,           \* no channel
          PriorityOf,     \* channels.priority
          AutoBan,        \* the channels with auto_ban = 1
          Tags,           \* values of channels.tag
          Starts,         \* what the table may hold at the start
          Modes,          \* values of common.MemoryCacheEnabled
          RetryTimes,     \* common.RetryTimes
          MaxEvents       \* bound on jobs other than the sync, and on statements
                          \* that fail, together

Processes == {"admin", "request", "ban", "tester", "balance", "syncer"}
Statuses == {"enabled", "manual", "auto"}
Rows == [status : Statuses \cup {"none"}, tag : Tags]

ASSUME ChannelsAssumption ==
  /\ None \notin Channels \cup Processes
  /\ Tags # {}
  /\ Modes \subseteq BOOLEAN
  /\ Starts \subseteq [Channels -> Rows]
  /\ PriorityOf \in [Channels -> Nat]
  /\ RetryTimes \in Nat /\ MaxEvents \in Nat

VARIABLES memory,    \* common.MemoryCacheEnabled
          row,       \* table channels, status "none" where there is no row
          ability,   \* table abilities
          cached,    \* channelsIDM and group2model2channels: status of a copy
          prefixed,  \* prefixChannelsCache of the group, if it is there
          ids,       \* ids the table has given out
          lock,      \* holder of channelStatusLock
          running,   \* testAllChannelsRunning
          st,        \* where each process is, and its local variables
          turn,      \* the request's turn of the retry loop
          up,        \* FALSE when a panic has ended the server
          events,    \* jobs started and statements failed so far
          stuck,     \* history: a listing of testAllChannels failed
          suspect    \* history: channels two jobs wrote at once, one by half, or
                     \* whose abilities kept an old tag

vars == <<memory, row, ability, cached, prefixed, ids, lock, running, st, turn, up,
          events, stuck, suspect>>

BlankRow == [status |-> "none", tag |-> CHOOSE t \in Tags : TRUE]
Blank == [c \in Channels |-> BlankRow]
Idle == [pc |-> "idle", ch |-> None, to |-> "enabled", tag |-> BlankRow.tag,
         list |-> {}, seen |-> Blank, copy |-> BlankRow]

In(table) == {c \in Channels : table[c].status # "none"}
EnabledIn(table) == {c \in Channels : table[c].status = "enabled"}
Tagged(t) == {c \in In(row) : row[c].tag = t}
AbilityOf(r) == [status |-> IF r.status = "enabled" THEN "enabled" ELSE "manual", tag |-> r.tag]

(* Mutant: disabled channels are cached like the others.                       *)
CopiesAll(table) == [c \in Channels |-> IF c \in In(table) THEN "enabled" ELSE "none"]

(* The maps InitChannelCache builds from the rows it has read.                 *)
Copies(table) == [c \in Channels |-> IF c \in EnabledIn(table) THEN "enabled" ELSE "none"]

Init ==
  /\ memory \in Modes
  /\ row \in Starts
  /\ ability = [c \in Channels |-> IF c \in In(row) THEN AbilityOf(row[c]) ELSE BlankRow]
  /\ cached = IF memory THEN Copies(row) ELSE Copies(Blank)
  /\ prefixed = [there |-> FALSE, set |-> {}]
  /\ ids = In(row)
  /\ lock = None
  /\ running = FALSE
  /\ st = [p \in Processes |-> Idle]
  /\ turn = 0
  /\ up = TRUE
  /\ events = 0
  /\ stuck = FALSE
  /\ suspect = {}

-----------------------------------------------------------------------------
(* What the actions are made of.                                               *)

At(p, pc) == up /\ st[p].pc = pc
Become(p, new) == st' = [st EXCEPT ![p] = new]
Event == events < MaxEvents /\ events' = events + 1
Job(p) == At(p, "idle") /\ Event

(* A statement of a job works, or it fails and leaves the channels S half done. *)
Works == UNCHANGED events
Fails == Event

Locals == <<memory, lock, running, turn, up, stuck>>
Tables == <<row, ability, ids>>
Caches == <<cached, prefixed>>

(* The channels that a job is changing, from what its process has in hand.     *)
StatusSteps == {"status", "ability", "read", "update", "save"}
RowSteps == {"insert", "reread", "rebuild", "unlink"}
ListSteps == {"switch", "retag", "relist", "prune", "missing", "fix", "edit"}
Writes(job) == IF job.pc \in StatusSteps \cup RowSteps THEN {job.ch}
               ELSE IF job.pc \in ListSteps THEN job.list ELSE {}

(* Two jobs at one channel.  Status updates of one server take turns at        *)
(* channelStatusLock, but only when the memory cache is on.                    *)
Overlap(now) == {c \in Channels : \E p, q \in Processes :
                   /\ p # q
                   /\ c \in Writes(now[p]) \cap Writes(now[q])
                   /\ ~(memory /\ {now[p].pc, now[q].pc} \subseteq StatusSteps)}
Suspect(half) == suspect' = suspect \cup half \cup Overlap(st')
Busy == UNION {Writes(st[p]) : p \in Processes}

-----------------------------------------------------------------------------
(* UpdateChannelStatusById, called by p for the channel st[p].ch.              *)

Call(p, l, c, to) == [l EXCEPT !.pc = "status", !.ch = c, !.to = to]

(* The rest of a job after the call: testers go on with their list.            *)
Returned(p) == IF p \in {"tester", "balance"}
               THEN [st[p] EXCEPT !.pc = "next", !.ch = None, !.copy = BlankRow]
               ELSE Idle

Return(p) == /\ Become(p, Returned(p))
             /\ lock' = IF lock = p THEN None ELSE lock

(* Mutant: the status lock is not taken.                                       *)
StatusNoLock(p) ==
  /\ At(p, "status")
  /\ Become(p, [st[p] EXCEPT !.pc = "ability"])
  /\ Works /\ Suspect({})
  /\ UNCHANGED <<Locals, Tables, Caches>>

(* The copy in the cache is marked as well, which nothing that selects heeds.  *)
StatusLock(p) ==
  /\ At(p, "status")
  /\ memory => lock = None
  /\ LET c == st[p].ch
         known == cached[c] = st[p].to \/ (cached[c] = "none" /\ st[p].to # "enabled")
     IN IF memory /\ known
        THEN Return(p) /\ UNCHANGED cached
        ELSE /\ lock' = IF memory THEN p ELSE lock
             /\ cached' = IF memory /\ cached[c] # "none"
                          THEN [cached EXCEPT ![c] = st[p].to] ELSE cached
             /\ Become(p, [st[p] EXCEPT !.pc = "ability"])
  /\ Works /\ Suspect({})
  /\ UNCHANGED <<memory, running, turn, up, stuck, Tables, prefixed>>

UpdateAbilityStatus(p) ==
  LET c == st[p].ch IN
  /\ At(p, "ability")
  /\ \/ /\ Works
        /\ ability' = [ability EXCEPT ![c].status =
             IF @ = "none" THEN @ ELSE IF st[p].to = "enabled" THEN "enabled" ELSE "manual"]
        /\ Become(p, [st[p] EXCEPT !.pc = "read"])
        /\ lock' = lock
        /\ Suspect({})
     \/ Fails /\ Return(p) /\ UNCHANGED ability /\ Suspect({c})
  /\ UNCHANGED <<memory, running, turn, up, stuck, row, ids, Caches>>

ReadChannel(p) ==
  LET c == st[p].ch IN
  /\ At(p, "read")
  /\ \/ /\ Works
        /\ IF row[c].status = st[p].to
           THEN Return(p)
           ELSE /\ Become(p, [st[p] EXCEPT !.copy = row[c],
                                           !.pc = IF row[c].status = "none" THEN "update" ELSE "save"])
                /\ lock' = lock
     \/ Fails /\ Become(p, [st[p] EXCEPT !.pc = "update"]) /\ lock' = lock
  /\ Suspect({})
  /\ UNCHANGED <<memory, running, turn, up, stuck, Tables, Caches>>

(* Without a copy the status alone is written, where there is a row.           *)
UpdateStatus(p) ==
  LET c == st[p].ch IN
  /\ At(p, "update")
  /\ Return(p)
  /\ \/ /\ Works /\ Suspect({})
        /\ row' = [row EXCEPT ![c].status = IF @ = "none" THEN @ ELSE st[p].to]
     \/ Fails /\ Suspect({c}) /\ UNCHANGED row
  /\ UNCHANGED <<memory, running, turn, up, stuck, ability, ids, Caches>>

(* Save writes the whole copy, and inserts it again where the row is gone.     *)
SaveChannel(p) ==
  LET c == st[p].ch IN
  /\ At(p, "save")
  /\ Return(p)
  /\ \/ /\ Works /\ Suspect({})
        /\ row' = [row EXCEPT ![c] = [st[p].copy EXCEPT !.status = st[p].to]]
     \/ Fails /\ Suspect({c}) /\ UNCHANGED row
  /\ UNCHANGED <<memory, running, turn, up, stuck, ability, ids, Caches>>

UpdateChannelStatusById(p) ==
  \/ StatusLock(p) \/ UpdateAbilityStatus(p)
  \/ ReadChannel(p) \/ UpdateStatus(p) \/ SaveChannel(p)

-----------------------------------------------------------------------------
(* Requests: the distributor, the retry loop, and what an error does.          *)

(* The candidates of the retry-th highest priority, of the lowest after that.  *)
OfTurn(S, n) ==
  LET levels == {PriorityOf[c] : c \in S}
      above(l) == Cardinality({k \in levels : k > l})
  IN {c \in S : LET l == PriorityOf[c]
                IN above(l) = n \/ (n >= Cardinality(levels) /\ above(l) = Cardinality(levels) - 1)}

(* CacheGetRandomSatisfiedChannel looks at no status: a copy that is marked    *)
(* disabled stays in group2model2channels.  Without the cache the abilities    *)
(* decide, and a row that is gone is an error.                                 *)
Usable == IF memory THEN {c \in Channels : cached[c] # "none"}
          ELSE {c \in Channels : ability[c].status = "enabled"}
Chosen(n) == {c \in OfTurn(Usable, n) : memory \/ c \in In(row)}

Using(c) == [Idle EXCEPT !.pc = "using", !.ch = c]

(* Distribute: any channel of the first turn, or one named by the token.       *)
Distribute ==
  /\ Job("request")
  /\ \/ \E c \in Chosen(0) : Become("request", Using(c)) /\ turn' = 0
     \/ \E c \in EnabledIn(row) : Become("request", Using(c)) /\ turn' = RetryTimes
  /\ Suspect({})
  /\ UNCHANGED <<memory, lock, running, up, stuck, Tables, Caches>>

(* ... or one of the prefix cache, which is first read again if it is not there. *)
DistributeByPrefix ==
  /\ Job("request")
  /\ turn' = 0
  /\ IF prefixed.there
     THEN \E c \in prefixed.set : Become("request", Using(c))
     ELSE Become("request", [Idle EXCEPT !.pc = "store", !.seen = row])
  /\ Suspect({})
  /\ UNCHANGED <<memory, lock, running, up, stuck, Tables, Caches>>

(* refreshPrefixChannelsCache: what was read replaces the map.                 *)
StorePrefixes(p) ==
  /\ At(p, "store")
  /\ prefixed' = [there |-> TRUE, set |-> EnabledIn(st[p].seen)]
  /\ IF p = "request" /\ prefixed'.set # {}
     THEN \E c \in prefixed'.set : Become(p, Using(c))
     ELSE Become(p, Idle)
  /\ Works /\ Suspect({})
  /\ UNCHANGED <<Locals, Tables, cached>>

(* The hour of prefixChannelsCacheExpiry.                                      *)
PrefixesExpire ==
  /\ up /\ prefixed.there
  /\ prefixed' = [there |-> FALSE, set |-> {}]
  /\ UNCHANGED <<Locals, Tables, cached, st, events, suspect>>

Answered ==
  /\ At("request", "using")
  /\ Become("request", Idle)
  /\ turn' = 0
  /\ Works /\ Suspect({})
  /\ UNCHANGED <<memory, lock, running, up, stuck, Tables, Caches>>

(* An error the upstream may be disabled for starts processChannelError beside *)
(* the next turn.  One such goroutine waits at a time.                         *)
Refused ==
  LET c == st["request"].ch IN
  /\ At("request", "using")
  /\ \E ban \in BOOLEAN, next \in {Idle} \cup (IF turn < RetryTimes
                                               THEN {Using(d) : d \in Chosen(turn + 1)} ELSE {}) :
       /\ ban => c \in AutoBan /\ st["ban"].pc = "idle"
       /\ st' = [st EXCEPT !["request"] = next,
                           !["ban"] = IF ban THEN Call("ban", Idle, c, "auto") ELSE @]
  /\ turn' = IF st'["request"] = Idle THEN 0 ELSE turn + 1
  /\ Works /\ Suspect({})
  /\ UNCHANGED <<memory, lock, running, up, stuck, Tables, Caches>>

-----------------------------------------------------------------------------
(* testAllChannels and updateAllChannelsBalance: a list of rows, read once.    *)

Listed == [Idle EXCEPT !.pc = "next", !.list = In(row), !.seen = row]

TestAllChannels ==
  /\ Job("tester") /\ ~running
  /\ running' = TRUE
  /\ \/ Become("tester", Listed) /\ UNCHANGED stuck
     \/ UNCHANGED st /\ stuck' = TRUE
  /\ Suspect({})
  /\ UNCHANGED <<memory, lock, turn, up, Tables, Caches>>

(* What testChannel returns: no error, one the channel may be disabled for (a   *)
(* slow answer counts as one), or another.                                     *)
TestOutcomes == {"ok", "refused", "error"}

(* Mutant: a channel that answers is enabled whatever it was disabled for.     *)
EnableAny(outcome, status) == outcome = "ok"

ShouldEnableChannel(outcome, status) == outcome = "ok" /\ status = "auto"

TestChannel ==
  /\ At("tester", "next")
  /\ \E c \in st["tester"].list, outcome \in TestOutcomes :
       LET status == st["tester"].seen[c].status
           rest == [st["tester"] EXCEPT !.list = @ \ {c}]
       IN Become("tester",
            IF status = "enabled" /\ outcome = "refused" /\ c \in AutoBan
            THEN Call("tester", rest, c, "auto")
            ELSE IF status # "enabled" /\ ShouldEnableChannel(outcome, status)
                 THEN Call("tester", rest, c, "enabled") ELSE rest)
  /\ Works /\ Suspect({})
  /\ UNCHANGED <<Locals, Tables, Caches>>

(* Mutant: the end of the tests does not reset testAllChannelsRunning.         *)
TestsForget ==
  /\ At("tester", "next") /\ st["tester"].list = {}
  /\ Become("tester", Idle)
  /\ Works /\ Suspect({})
  /\ UNCHANGED <<Locals, Tables, Caches>>

TestsDone ==
  /\ At("tester", "next") /\ st["tester"].list = {}
  /\ Become("tester", Idle)
  /\ running' = FALSE
  /\ Works /\ Suspect({})
  /\ UNCHANGED <<memory, lock, turn, up, stuck, Tables, Caches>>

UpdateAllChannelsBalance ==
  /\ Job("balance")
  /\ Become("balance", Listed)
  /\ Suspect({})
  /\ UNCHANGED <<Locals, Tables, Caches>>

(* What updateChannelBalance returns.  For most types of channel it is an error. *)
Balances == {"left", "spent", "error"}

(* A balance used up disables the channel, whatever its auto_ban.              *)
UpdateChannelBalance ==
  /\ At("balance", "next")
  /\ \/ \E c \in st["balance"].list, balance \in Balances :
          LET rest == [st["balance"] EXCEPT !.list = @ \ {c}]
          IN Become("balance", IF balance = "spent" /\ st["balance"].seen[c].status = "enabled"
                               THEN Call("balance", rest, c, "auto") ELSE rest)
     \/ st["balance"].list = {} /\ Become("balance", Idle)
  /\ Works /\ Suspect({})
  /\ UNCHANGED <<Locals, Tables, Caches>>

-----------------------------------------------------------------------------
(* The administrator, one handler at a time.                                   *)

Admin(l) == [Idle EXCEPT !.pc = l]
Refresh == [Idle EXCEPT !.pc = "refresh"]
Rebuilt(S, table) == [c \in Channels |-> IF c \in S THEN AbilityOf(table[c]) ELSE ability[c]]
Unlinked(S) == [c \in Channels |-> IF c \in S THEN BlankRow ELSE ability[c]]
Deleted(S) == [c \in Channels |-> IF c \in S THEN BlankRow ELSE row[c]]
NoChange == UNCHANGED <<Locals, Caches>>

(* Insert: a row, then its abilities.                                          *)
AddChannel ==
  /\ Job("admin")
  /\ \E c \in Channels \ ids, t \in Tags :
       LET r == [status |-> "enabled", tag |-> t]
       IN /\ row' = [row EXCEPT ![c] = r]
          /\ ids' = ids \cup {c}
          /\ Become("admin", [Admin("insert") EXCEPT !.ch = c, !.copy = r])
  /\ Suspect({})
  /\ UNCHANGED ability /\ NoChange

AddAbilities ==
  LET l == st["admin"] IN
  /\ At("admin", "insert")
  /\ \/ /\ Works /\ ability' = [ability EXCEPT ![l.ch] = AbilityOf(l.copy)]
        /\ Become("admin", Refresh) /\ Suspect({})
     \/ Fails /\ UNCHANGED ability /\ Become("admin", Idle) /\ Suspect({l.ch})
  /\ UNCHANGED <<row, ids>> /\ NoChange

(* Update: the form's status, then the row again, then its abilities in a      *)
(* transaction of their own.                                                   *)
UpdateChannel ==
  /\ Job("admin")
  /\ \E c \in In(row), s \in Statuses :
       /\ row' = [row EXCEPT ![c].status = s]
       /\ Become("admin", [Admin("reread") EXCEPT !.ch = c, !.copy = row'[c]])
  /\ Suspect({})
  /\ UNCHANGED <<ability, ids>> /\ NoChange

Reread ==
  LET l == st["admin"] IN
  /\ At("admin", "reread")
  /\ Become("admin", [l EXCEPT !.pc = "rebuild",
                               !.copy = IF l.ch \in In(row) THEN row[l.ch] ELSE @])
  /\ Works /\ Suspect({})
  /\ UNCHANGED Tables /\ NoChange

UpdateAbilities ==
  LET l == st["admin"] IN
  /\ At("admin", "rebuild")
  /\ \/ /\ Works /\ ability' = [ability EXCEPT ![l.ch] = AbilityOf(l.copy)]
        /\ Become("admin", Refresh) /\ Suspect({})
     \/ Fails /\ UNCHANGED ability /\ Become("admin", Idle) /\ Suspect({l.ch})
  /\ UNCHANGED <<row, ids>> /\ NoChange

DeleteChannel ==
  /\ Job("admin")
  /\ \E c \in In(row) : /\ row' = Deleted({c})
                        /\ Become("admin", [Admin("unlink") EXCEPT !.ch = c])
  /\ Suspect({})
  /\ UNCHANGED <<ability, ids>> /\ NoChange

DeleteAbilities ==
  LET l == st["admin"] IN
  /\ At("admin", "unlink")
  /\ Become("admin", Idle)
  /\ \/ Works /\ ability' = Unlinked({l.ch}) /\ Suspect({})
     \/ Fails /\ UNCHANGED ability /\ Suspect({l.ch})
  /\ UNCHANGED <<row, ids>> /\ NoChange

DeleteChannelBatch ==
  /\ Job("admin")
  /\ \E S \in SUBSET In(row) \ {{}} :
       /\ row' = Deleted(S) /\ ability' = Unlinked(S)
       /\ suspect' = suspect \cup (S \cap Busy)
  /\ UNCHANGED <<st, ids>> /\ NoChange

DeleteDisabledChannel ==
  /\ Job("admin")
  /\ LET S == In(row) \ EnabledIn(row)
     IN row' = Deleted(S) /\ suspect' = suspect \cup (S \cap Busy)
  /\ UNCHANGED <<st, ability, ids>> /\ NoChange

(* EnableChannelByTag, DisableChannelByTag: the rows of a tag, the abilities   *)
(* of the tag, and the prefix cache again.                                     *)
SwitchTag ==
  /\ Job("admin")
  /\ \E t \in Tags, s \in {"enabled", "manual"} :
       /\ row' = [c \in Channels |-> IF c \in Tagged(t) THEN [row[c] EXCEPT !.status = s] ELSE row[c]]
       /\ Become("admin", [Admin("switch") EXCEPT !.tag = t, !.to = s, !.list = Tagged(t)])
  /\ Suspect({})
  /\ UNCHANGED <<ability, ids>> /\ NoChange

UpdateAbilityStatusByTag ==
  LET l == st["admin"] IN
  /\ At("admin", "switch")
  /\ \/ /\ Works
        /\ ability' = [c \in Channels |-> IF c \in In(ability) /\ ability[c].tag = l.tag
                                          THEN [ability[c] EXCEPT !.status = l.to] ELSE ability[c]]
        /\ Become("admin", Refresh) /\ Suspect({})
     \/ Fails /\ UNCHANGED ability /\ Become("admin", Idle) /\ Suspect(l.list)
  /\ UNCHANGED <<row, ids>> /\ NoChange

(* EditChannelByTag: the rows get the new tag; their abilities get it too, or  *)
(* are rebuilt when models or groups were edited as well.                      *)
EditTag ==
  /\ Job("admin")
  /\ \E t, u \in Tags, again \in BOOLEAN :
       /\ row' = [c \in Channels |-> IF c \in Tagged(t) THEN [row[c] EXCEPT !.tag = u] ELSE row[c]]
       /\ Become("admin", [Admin(IF again THEN "relist" ELSE "retag") EXCEPT
                            !.tag = t, !.copy.tag = u, !.list = Tagged(t)])
  /\ Suspect({})
  /\ UNCHANGED <<ability, ids>> /\ NoChange

UpdateAbilityByTag ==
  LET l == st["admin"] IN
  /\ At("admin", "retag")
  /\ Become("admin", Idle)
  /\ \/ /\ Works /\ Suspect({})
        /\ ability' = [c \in Channels |-> IF c \in In(ability) /\ ability[c].tag = l.tag
                                          THEN [ability[c] EXCEPT !.tag = l.copy.tag] ELSE ability[c]]
     \/ Fails /\ UNCHANGED ability /\ Suspect(l.list)
  /\ UNCHANGED <<row, ids>> /\ NoChange

GetChannelsByTag ==
  LET l == st["admin"]  found == Tagged(l.copy.tag) IN
  /\ At("admin", "relist")
  /\ \/ Works /\ Become("admin", [Admin("edit") EXCEPT !.list = found, !.seen = row]) /\ Suspect({})
     \/ Fails /\ Become("admin", Idle) /\ Suspect(l.list)
  /\ UNCHANGED Tables /\ NoChange

(* BatchSetChannelTag: within one transaction, but the rows the abilities are  *)
(* rebuilt from are read outside it, with the old tag.                         *)
BatchSetChannelTag ==
  /\ Job("admin")
  /\ \E S \in SUBSET In(row) \ {{}}, t \in Tags :
       /\ row' = [c \in Channels |-> IF c \in S THEN [row[c] EXCEPT !.tag = t] ELSE row[c]]
       /\ ability' = Rebuilt(S, row)
       /\ suspect' = suspect \cup {c \in S : row[c].tag # t \/ c \in Busy}
  /\ UNCHANGED <<st, ids>> /\ NoChange

(* FixAbility: abilities without a row go, rows without abilities get theirs,  *)
(* and the cache is built again.                                               *)
FixAbility ==
  /\ Job("admin")
  /\ Become("admin", [Admin("prune") EXCEPT !.list = In(row)])
  /\ Suspect({})
  /\ UNCHANGED Tables /\ NoChange

PruneAbilities ==
  LET l == st["admin"] IN
  /\ At("admin", "prune")
  /\ \/ Works /\ ability' = Unlinked(Channels \ l.list) /\ Become("admin", [l EXCEPT !.pc = "missing"])
     \/ Fails /\ UNCHANGED ability /\ Become("admin", Idle)
  /\ Suspect({})
  /\ UNCHANGED <<row, ids>> /\ NoChange

MissingAbilities ==
  /\ At("admin", "missing")
  /\ Become("admin", [Admin("fix") EXCEPT !.list = In(row) \ In(ability), !.seen = row])
  /\ Works /\ Suspect({})
  /\ UNCHANGED Tables /\ NoChange

RebuildListed ==
  LET l == st["admin"] IN
  /\ At("admin", "edit") \/ At("admin", "fix")
  /\ \/ \E c \in l.list : /\ Become("admin", [l EXCEPT !.list = @ \ {c}])
                          /\ \/ Works /\ ability' = Rebuilt({c}, l.seen) /\ Suspect({})
                             \/ Fails /\ UNCHANGED ability /\ Suspect({c})
     \/ /\ l.list = {} /\ UNCHANGED ability
        /\ Become("admin", IF l.pc = "fix" THEN Admin("sync") ELSE Idle)
        /\ Works /\ Suspect({})
  /\ UNCHANGED <<row, ids>> /\ NoChange

RefreshPrefixChannelsCache ==
  /\ At("admin", "refresh")
  /\ Become("admin", [Admin("store") EXCEPT !.seen = row])
  /\ Works /\ Suspect({})
  /\ UNCHANGED Tables /\ NoChange

-----------------------------------------------------------------------------
(* InitChannelCache, by the sync of SyncChannelCache or by FixAbility.         *)

(* An error of the query is not looked at: no row is read then.                *)
SyncChannels(p) ==
  /\ \/ p = "syncer" /\ memory /\ At(p, "idle")
     \/ p = "admin" /\ At(p, "sync")
  /\ \/ Works /\ Become(p, [Idle EXCEPT !.pc = "groups", !.seen = row])
     \/ Fails /\ Become(p, [Idle EXCEPT !.pc = "groups"])
  /\ Suspect({})
  /\ UNCHANGED Tables /\ NoChange

(* A group without any ability has no map, and an enabled channel of it is     *)
(* then written to a nil map.                                                  *)
SyncGroups(p) ==
  /\ At(p, "groups")
  /\ \E none \in BOOLEAN :
       /\ IF none /\ In(ability) # {} THEN Fails ELSE none = (In(ability) = {}) /\ Works
       /\ IF none /\ EnabledIn(st[p].seen) # {}
          THEN up' = (p # "syncer") /\ UNCHANGED cached
          ELSE up' = up /\ cached' = Copies(st[p].seen)
  /\ Become(p, Idle)
  /\ Suspect({})
  /\ UNCHANGED <<memory, lock, running, turn, stuck, Tables, prefixed>>

InitChannelCache(p) == SyncChannels(p) \/ SyncGroups(p)

-----------------------------------------------------------------------------

Request == Distribute \/ DistributeByPrefix \/ Answered \/ Refused \/ StorePrefixes("request")
TestAll == TestAllChannels \/ TestChannel \/ TestsDone \/ UpdateChannelStatusById("tester")
UpdateBalances == UpdateAllChannelsBalance \/ UpdateChannelBalance \/ UpdateChannelStatusById("balance")
Administer ==
  \/ AddChannel \/ AddAbilities \/ UpdateChannel \/ Reread \/ UpdateAbilities
  \/ DeleteChannel \/ DeleteAbilities \/ DeleteChannelBatch \/ DeleteDisabledChannel
  \/ SwitchTag \/ UpdateAbilityStatusByTag \/ EditTag \/ UpdateAbilityByTag \/ GetChannelsByTag
  \/ BatchSetChannelTag \/ FixAbility \/ PruneAbilities \/ MissingAbilities \/ RebuildListed
  \/ RefreshPrefixChannelsCache \/ StorePrefixes("admin") \/ InitChannelCache("admin")

Next ==
  \/ Request \/ UpdateChannelStatusById("ban") \/ TestAll \/ UpdateBalances \/ Administer
  \/ InitChannelCache("syncer") \/ PrefixesExpire

Spec == Init /\ [][Next]_vars

(* The sync's loop has no end but a panic, and an hour passes.  Nothing is     *)
(* asked of the others.                                                        *)
Fairness == WF_vars(InitChannelCache("syncer")) /\ WF_vars(PrefixesExpire)
FairSpec == Spec /\ Fairness

-----------------------------------------------------------------------------
(* Properties.                                                                 *)

(* Where a process may be, and what it has in hand there.                      *)
Places == StatusSteps \cup RowSteps \cup ListSteps
            \cup {"idle", "using", "next", "refresh", "store", "sync", "groups"}
Hands == [pc : Places, ch : Channels \cup {None}, to : Statuses, tag : Tags,
          list : SUBSET Channels, seen : [Channels -> Rows], copy : Rows]

TypeOK ==
  /\ memory \in BOOLEAN
  /\ row \in [Channels -> Rows]
  /\ ability \in [Channels -> Rows]
  /\ cached \in [Channels -> Statuses \cup {"none"}]
  /\ prefixed \in [there : BOOLEAN, set : SUBSET Channels]
  /\ ids \subseteq Channels
  /\ lock \in Processes \cup {None}
  /\ running \in BOOLEAN /\ up \in BOOLEAN /\ stuck \in BOOLEAN
  /\ st \in [Processes -> Hands]
  /\ turn \in 0 .. RetryTimes
  /\ events \in 0 .. MaxEvents
  /\ suspect \subseteq Channels

(* The two tables say the same of a channel (getPriority calls anything else a *)
(* broken database) unless a statement failed, two jobs wrote it at once, or a *)
(* batch left its abilities an old tag.  Two status updates do count as two    *)
(* jobs without the memory cache, and must not with it: channelStatusLock      *)
(* keeps them apart.                                                           *)
AbilitiesAgree ==
  \A c \in In(row) \ (suspect \cup Busy) :
    (ability[c].status = "enabled") = (row[c].status = "enabled")

(* A channel the administrator has disabled stays disabled (CHANGELOG: only    *)
(* channels that were disabled automatically are enabled so) once no cache     *)
(* offers it, no request is with it, and nothing holds an older row of it.     *)
Settled(c) ==
  /\ row[c].status = "manual"
  /\ c \notin prefixed.set /\ c \notin Usable
  /\ \A p \in {"request", "ban"} : st[p].ch # c
  /\ \A p \in Processes : st[p].seen[c].status \in {"manual", "none"}
ManualStays ==
  [][\A c \in Channels : Settled(c) /\ st["admin"] = st'["admin"]
                           => row'[c].status \in {"manual", "none"}]_vars

(* The caches come to agree with the table again and again, whatever was       *)
(* written over them, if the server lives: the memory cache offers the enabled *)
(* channels and no other, the prefix cache none that is not enabled.           *)
CacheFollowsTable ==
  []<>(up => /\ memory => \A c \in Channels :
                  cached[c] = IF c \in EnabledIn(row) THEN "enabled" ELSE "none"
             /\ prefixed.set \subseteq EnabledIn(row))

(* channelStatusLock is held by an update that is about to give it back, and   *)
(* with the memory cache nobody else is past it: no update saves a row that    *)
(* another has written since it was read.  While testAllChannelsRunning is set *)
(* a test is under way that will reset it, but for a test that could not read  *)
(* its list (controller/channel-test.go:262).                                  *)
OwnersAlive ==
  /\ lock # None => lock \in Processes /\ st[lock].pc \in StatusSteps
  /\ memory => \A p \in Processes : st[p].pc \in StatusSteps \ {"status"} => lock = p
  /\ running => stuck \/ st["tester"].pc \in StatusSteps \cup {"next"}
=============================================================================
