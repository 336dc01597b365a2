------------------------------ MODULE Accounts ------------------------------
(* The rows of the tables `users` and `tokens` of a Veloera server, their      *)
(* copies in Redis, and everything that writes them: the dashboard of a user,  *)
(* the administrator, registrations, and requests to the relay.                *)
(*                                                                             *)
(* Most writers of a user read the row and write the copy back, all of it      *)
(* (gorm's Save) or what is not zero in it (Updates with a struct); charges    *)
(* are increments.  A process takes one step per statement; the goroutines     *)
(* that follow with Redis are the tasks.  Settlement is QuotaLedger's matter:  *)
(* here a request is charged one unit, once.                                   *)
EXTENDS Integers, FiniteSets

CONSTANTS Users, Root,       \* ids of users; the super administrator
          None,              \* no token, no inviter
          Tokens, OwnerOf,   \* ids of tokens, tokens.user_id
          Starts,            \* what the tables may hold at the start
          Modes,             \* values of common.RedisEnabled
          Reward,            \* what a check-in pays
          NewUser, Invitee, Inviter,  \* QuotaForNewUser, -ForInvitee, -ForInviter
          MaxEvents          \* bound on jobs

Processes == {"owner", "tab", "admin", "guest", "request"}
Keys == Users \cup Tokens

(* common.Role...User, common.UserStatusEnabled and ...Disabled                *)
Common == 1
Admin == 10
Super == 100
Enabled == 1
Disabled == 2

UserRows == [there : {"none", "live", "deleted", "gone"}, role : {Common, Admin, Super},
             status : {Enabled, Disabled}, quota : Int, aff : Nat, checked : BOOLEAN]
TokenRows == [there : {"none", "live", "deleted"}, remain : Int,
              status : {"enabled", "disabled", "exhausted"}]

ASSUME AccountsAssumption ==
  /\ Root \in Users /\ Users \cap Tokens = {} /\ None \notin Users \cup Tokens
  /\ OwnerOf \in [Tokens -> Users]
  /\ Modes \subseteq BOOLEAN
  /\ Reward \in Nat \ {0} /\ {NewUser, Invitee, Inviter} \subseteq Nat
  /\ MaxEvents \in Nat
  /\ \A s \in Starts :
       /\ s.row \in [Users -> UserRows] /\ s.tok \in [Tokens -> TokenRows]
       /\ s.row[Root].there = "live" /\ s.row[Root].role = Super /\ s.row[Root].status = Enabled
       /\ \A u \in Users : s.row[u].there = "none" => ~s.row[u].checked

VARIABLES redis,    \* common.RedisEnabled
          row,      \* table users: its columns role, status, quota, aff_quota,
                    \* last_check_in_time (is it today's?); deleted_at
          tok,      \* table tokens: status, remain_quota; deleted_at
          cached,   \* the hashes user:<id> and token:<hmac>
          st,       \* where each process is, and its local variables
          tasks,    \* goroutines that have something to do in Redis
          events,   \* jobs started so far
          due,      \* history: what the quota and aff_quota of a user, the
                    \* remain_quota of a token, should come to
          ordered,  \* history: role and status as they were last given
          paid,     \* history: users paid for today's check-in
          suspect,  \* history: users and tokens of which a copy was out while
                    \* they were written
          stale     \* history: users and tokens whose hash Redis was not told of
                    \* as the row stands, until that hash expires

vars == <<redis, row, tok, cached, st, tasks, events, due, ordered, paid, suspect, stale>>

NoRow == [there |-> "none", role |-> Common, status |-> Enabled, quota |-> 0, aff |-> 0, checked |-> FALSE]
(* What a struct holds that no row was found for.                              *)
ZeroUser == [NoRow EXCEPT !.role = 0, !.status = 0]
NoToken == [there |-> "none", status |-> "enabled", remain |-> 0]
Absent == [there |-> FALSE, full |-> FALSE, on |-> FALSE, amount |-> 0]
Idle == [pc |-> "idle", x |-> Root, t |-> None, kind |-> "", copy |-> NoRow,
         seen |-> NoRow, token |-> NoToken]

Live(u) == row[u].there = "live"
Valid(t) == tok[t].there = "live"

(* What a reader of x learns from its row, and the hashes that agree with it.  *)
Row(x) == IF x \in Users THEN [on |-> row[x].status = Enabled, amount |-> row[x].quota]
          ELSE [on |-> tok[x].status = "enabled", amount |-> tok[x].remain]
There(x) == IF x \in Users THEN Live(x) ELSE Valid(x)
Hash(on, amount) == [there |-> TRUE, full |-> TRUE, on |-> on, amount |-> amount]
Copies == [x \in Keys |-> IF There(x) THEN Hash(Row(x).on, Row(x).amount) ELSE Absent]

Init ==
  /\ redis \in Modes
  /\ \E s \in Starts : row = s.row /\ tok = s.tok
  /\ cached \in {[x \in Keys |-> Absent]} \cup (IF redis THEN {Copies} ELSE {})
  /\ st = [p \in Processes |-> Idle]
  /\ tasks = {}
  /\ events = 0
  /\ due = [x \in Keys |-> IF x \in Users THEN row[x].quota + row[x].aff ELSE tok[x].remain]
  /\ ordered = row
  /\ paid = {u \in Users : row[u].checked}
  /\ suspect = {} /\ stale = {}

-----------------------------------------------------------------------------
(* What the actions are made of.                                               *)

At(p, pc) == st[p].pc = pc
Become(p, new) == st' = [st EXCEPT ![p] = new]
Goto(p, pc) == Become(p, [st[p] EXCEPT !.pc = pc])
Event == events < MaxEvents /\ events' = events + 1
Job(p) == At(p, "idle") /\ Event

Rows == <<row, tok, due, ordered, paid, suspect>>

(* A goroutine of gopool, where there is something for it to do.               *)
Task(op, x, on, n) == [op |-> op, x |-> x, on |-> on, n |-> n]
Spawn(new) == IF redis THEN tasks \cap new = {} /\ tasks' = tasks \cup new
              ELSE UNCHANGED tasks
FillToken(t, r) == Task("fill", t, r.status = "enabled", r.remain)

(* The copies that are out: a process has read x and will write it.            *)
RowWindows == {"reread", "write", "save", "transfer", "invite", "submit"}
TokenWindows == {"tread", "twrite"}
Out(x) == {p \in Processes : \/ x \in Users /\ st[p].x = x /\ st[p].pc \in RowWindows /\ st[p].kind # "self"
                             \/ x \in Tokens /\ st[p].t = x /\ st[p].pc \in TokenWindows}

(* Redis hears of an Update and a deletion, and of what is done to a token, but *)
(* not of a row that is saved or erased; and what it hears may be overtaken by *)
(* a copy of the row as it was, that is still on its way.                      *)
Told(p, x) == x \in Tokens \/ st[p].pc \in {"write", "delete"}
Coming(p, x) == \/ \E k \in tasks : k.op = "fill" /\ k.x = x
                \/ \E q \in Processes \ {p} : st[q].x = x /\ st[q].pc \in {"write", "cache"}
Unmoved(x) ==
  \A y \in {z \in Keys : z = x} : (There(y)' <=> There(y)) /\ (Row(y).on' <=> Row(y).on)
Misled(x) == stale' = IF redis THEN stale \cup {x} ELSE stale

(* p writes x.  Two check-ins, or two transfers, write back the same thing.    *)
Alike(p, q) == st[p].pc = st[q].pc /\ st[p].pc \in {"save", "transfer"}
Writes(p, x) ==
  /\ suspect' = suspect \cup (IF \A q \in Out(x) \ {p} : Alike(p, q) THEN {} ELSE {x})
  /\ IF Unmoved(x) \/ (Told(p, x) /\ ~Coming(p, x)) THEN UNCHANGED stale ELSE Misled(x)

-----------------------------------------------------------------------------
(* User.Update and User.Edit: the row is read again, into the copy that will   *)
(* go to Redis, and then written.                                              *)

(* What Updates makes of the row r: a struct's zero fields are not columns to  *)
(* write.  UpdateSelf has filled in none of the columns modelled here.         *)
Over(r, job) ==
  LET c == job.copy IN
  CASE job.kind = "whole" ->
         [r EXCEPT !.role = IF c.role = 0 THEN @ ELSE c.role,
                   !.status = IF c.status = 0 THEN @ ELSE c.status,
                   !.checked = @ \/ c.checked,
                   !.quota = IF c.quota = 0 THEN @ ELSE c.quota,
                   !.aff = IF c.aff = 0 THEN @ ELSE c.aff]
    [] job.kind = "edit" -> [r EXCEPT !.quota = c.quota]
    [] OTHER -> r

Update(u, kind, copy) == [Idle EXCEPT !.pc = "reread", !.x = u, !.kind = kind, !.copy = copy]

(* A row that is not there leaves the copy as it is.                           *)
Reread(p) ==
  /\ At(p, "reread")
  /\ Become(p, [st[p] EXCEPT !.pc = "write",
                             !.seen = IF Live(st[p].x) THEN row[st[p].x] ELSE st[p].copy])
  /\ UNCHANGED <<redis, cached, tasks, events, Rows, stale>>

(* The administrator's word is what the row should say from now on.            *)
Write(p) ==
  LET job == st[p]  u == st[p].x IN
  /\ At(p, "write")
  /\ IF Live(u) /\ job.kind # "self"
     THEN /\ row' = [row EXCEPT ![u] = Over(@, job)]
          /\ ordered' = IF p = "admin" /\ job.kind = "whole"
                        THEN [ordered EXCEPT ![u].role = row'[u].role, ![u].status = row'[u].status]
                        ELSE ordered
          /\ due' = IF job.kind = "edit"
                    THEN [due EXCEPT ![u] = job.copy.quota + row[u].aff] ELSE due
          /\ Writes(p, u)
     ELSE UNCHANGED <<row, ordered, due, suspect>> /\ IF Live(u) THEN UNCHANGED stale ELSE Misled(u)
  /\ IF redis THEN Goto(p, "cache") ELSE Become(p, Idle)
  /\ UNCHANGED <<redis, tok, cached, tasks, events, paid>>

(* Redis gets the word, or an error.                                           *)
Tell(p, hash) == cached' = [cached EXCEPT ![st[p].x] = hash] /\ UNCHANGED stale
Unheard(x) == UNCHANGED cached /\ stale' = stale \cup (IF cached[x].there THEN {x} ELSE {})

(* Mutant: what goes to Redis is the row as it was read.                       *)
CacheAsRead(p) ==
  LET r == st[p].seen
  IN /\ At(p, "cache")
     /\ \/ Tell(p, Hash(r.status = Enabled, r.quota))
        \/ Unheard(st[p].x)
     /\ Become(p, Idle)
     /\ UNCHANGED <<redis, tasks, events, Rows>>

UpdateUserCache(p) ==
  LET r == Over(st[p].seen, st[p])
  IN /\ At(p, "cache")
     /\ \/ Tell(p, Hash(r.status = Enabled, r.quota))
        \/ Unheard(st[p].x)
     /\ Become(p, Idle)
     /\ UNCHANGED <<redis, tasks, events, Rows>>

(* Save writes the whole copy, and inserts it again where no row was updated:  *)
(* a user who was deleted meanwhile is back.                                   *)
Save(u, r) == row' = [row EXCEPT ![u] = r]

-----------------------------------------------------------------------------
(* The user's own dashboard, in two browsers.                                  *)

(* A session goes on after its user was disabled, and finds no row once deleted. *)
Self == {u \in Users : Live(u)}

(* UpdateUserSetting, GenerateAccessToken, GetAffCode and the Bind handlers    *)
(* read the user and Update it; UpdateSelf reads nothing.                      *)
UpdateUserSetting(p) ==
  /\ Job(p)
  /\ \E u \in Self : Become(p, Update(u, "whole", row[u]))
  /\ UNCHANGED <<redis, cached, tasks, Rows, stale>>

UpdateSelf(p) ==
  /\ Job(p)
  /\ \E u \in Self :
       Become(p, Update(u, "self", ZeroUser))
  /\ UNCHANGED <<redis, cached, tasks, Rows, stale>>

(* The handler reads the user; what the transaction reads is not looked at.    *)
CheckIn(p) ==
  /\ Job(p)
  /\ \E u \in Self :
       Become(p, [Idle EXCEPT !.pc = "save", !.x = u, !.copy = row[u]])
  /\ UNCHANGED <<redis, cached, tasks, Rows, stale>>

(* Mutant: whether the user has checked in today is not looked at.             *)
PayAnyCheckIn(p) ==
  LET u == st[p].x  r == [st[p].copy EXCEPT !.checked = TRUE, !.quota = @ + Reward] IN
  /\ At(p, "save")
  /\ Save(u, r) /\ Writes(p, u)
  /\ due' = IF u \in paid THEN due ELSE [due EXCEPT ![u] = @ + Reward]
  /\ paid' = paid \cup {u}
  /\ Spawn({Task("set", u, TRUE, r.quota)})
  /\ Become(p, Idle)
  /\ UNCHANGED <<redis, tok, cached, events, ordered>>

PayCheckIn(p) ==
  LET u == st[p].x  r == [st[p].copy EXCEPT !.checked = TRUE, !.quota = @ + Reward] IN
  /\ At(p, "save")
  /\ IF st[p].copy.checked
     THEN UNCHANGED <<row, due, paid, suspect, stale, tasks>>
     ELSE /\ Save(u, r) /\ Writes(p, u)
          /\ due' = IF u \in paid THEN due ELSE [due EXCEPT ![u] = @ + Reward]
          /\ paid' = paid \cup {u}
          /\ Spawn({Task("set", u, TRUE, r.quota)})
  /\ Become(p, Idle)
  /\ UNCHANGED <<redis, tok, cached, events, ordered>>

(* Midnight, UTC.  A check-in begun before it pays for the new day.            *)
NextDay ==
  /\ paid # {}
  /\ row' = [u \in Users |-> [row[u] EXCEPT !.checked = FALSE]]
  /\ st' = [p \in Processes |-> [st[p] EXCEPT !.copy.checked = FALSE, !.seen.checked = FALSE]]
  /\ paid' = {}
  /\ suspect' = suspect \cup {u \in Users : \E p \in Out(u) : st[p].pc = "save"}
  /\ UNCHANGED <<redis, tok, cached, tasks, events, due, ordered, stale>>

TransferAffQuota(p) ==
  /\ Job(p)
  /\ \E u \in Self :
       Become(p, [Idle EXCEPT !.pc = "transfer", !.x = u, !.copy = row[u]])
  /\ UNCHANGED <<redis, cached, tasks, Rows, stale>>

Transfer(p) ==
  LET u == st[p].x IN
  /\ At(p, "transfer")
  /\ \/ \E q \in 1..st[p].copy.aff :
          /\ Save(u, [st[p].copy EXCEPT !.aff = @ - q, !.quota = @ + q])
          /\ Writes(p, u)
     \/ UNCHANGED <<row, suspect, stale>>
  /\ Become(p, Idle)
  /\ UNCHANGED <<redis, tok, cached, tasks, events, due, ordered, paid>>

(* DeleteSelf, and ManageUser's "delete", which goes on to Update.             *)
DeleteSelf(p) ==
  /\ Job(p)
  /\ \E u \in Self : row[u].role # Super
                            /\ Become(p, [Idle EXCEPT !.pc = "delete", !.x = u])
  /\ UNCHANGED <<redis, cached, tasks, Rows, stale>>

Delete(p) ==
  LET u == st[p].x IN
  /\ At(p, "delete")
  /\ IF Live(u)
     THEN /\ row' = [row EXCEPT ![u].there = "deleted"]
          /\ ordered' = [ordered EXCEPT ![u].there = "deleted"]
          /\ Writes(p, u)
     ELSE UNCHANGED <<row, ordered, suspect, stale>>
  /\ Goto(p, "forget")
  /\ UNCHANGED <<redis, tok, cached, tasks, events, due, paid>>

InvalidateUserCache(p) ==
  LET u == st[p].x IN
  /\ At(p, "forget")
  /\ \/ /\ Tell(p, Absent)
        /\ Become(p, IF p = "admin" THEN Update(u, "whole", st[p].copy) ELSE Idle)
     \/ redis /\ Unheard(u) /\ Become(p, Idle)
  /\ UNCHANGED <<redis, tasks, events, Rows>>

-----------------------------------------------------------------------------
(* The administrator.  ManageUser reads deleted rows too; a row that is gone   *)
(* leaves the zero user, whose role is less than anyone's.                     *)

Roles == {Admin, Super}
Found(u) == IF row[u].there \in {"live", "deleted"} THEN row[u] ELSE ZeroUser
May(me, u) == me > Found(u).role \/ me = Super

(* Mutant: the super administrator is disabled like anyone else.               *)
ManagedAll(me, r) ==
     {[r EXCEPT !.status = Disabled]}
  \cup {[r EXCEPT !.status = Enabled]}
  \cup (IF me = Super /\ r.role < Admin THEN {[r EXCEPT !.role = Admin]} ELSE {})
  \cup (IF r.role \notin {Super, Common} THEN {[r EXCEPT !.role = Common]} ELSE {})

(* The copies of a user that ManageUser would write, by action.                *)
Managed(me, r) ==
     (IF r.role # Super THEN {[r EXCEPT !.status = Disabled]} ELSE {})
  \cup {[r EXCEPT !.status = Enabled]}
  \cup (IF me = Super /\ r.role < Admin THEN {[r EXCEPT !.role = Admin]} ELSE {})
  \cup (IF r.role \notin {Super, Common} THEN {[r EXCEPT !.role = Common]} ELSE {})

ManageUser ==
  /\ Job("admin")
  /\ \E me \in Roles, u \in Users :
       /\ row[u].there # "none" /\ May(me, u)
       /\ \/ \E c \in Managed(me, Found(u)) : Become("admin", Update(u, "whole", c))
          \/ /\ Found(u).role # Super
             /\ Become("admin", [Idle EXCEPT !.pc = "delete", !.x = u, !.copy = Found(u)])
  /\ UNCHANGED <<redis, cached, tasks, Rows, stale>>

(* A form is filled with a user's quota, and comes back with that or a new one. *)
GetUser ==
  /\ Job("admin")
  /\ \E me \in Roles, u \in Users, more \in {0, 1} :
       /\ Live(u) /\ (me > row[u].role \/ me = Super)
       /\ Become("admin", [Idle EXCEPT !.pc = "submit", !.x = u,
                                       !.copy = [row[u] EXCEPT !.quota = @ + more]])
  /\ UNCHANGED <<redis, cached, tasks, Rows, stale>>

UpdateUser ==
  LET u == st["admin"].x IN
  /\ At("admin", "submit")
  /\ \/ Live(u) /\ Become("admin", Update(u, "edit", st["admin"].copy))
     \/ Become("admin", Idle)
  /\ UNCHANGED <<redis, cached, tasks, events, Rows, stale>>

(* DeleteUser erases the row, and leaves what Redis has of it.                 *)
DeleteUser ==
  /\ Job("admin")
  /\ \E me \in Roles, u \in Users :
       Live(u) /\ me > row[u].role /\ Become("admin", [Idle EXCEPT !.pc = "erase", !.x = u])
  /\ UNCHANGED <<redis, cached, tasks, Rows, stale>>

HardDelete ==
  LET u == st["admin"].x IN
  /\ At("admin", "erase")
  /\ row' = [row EXCEPT ![u] = [NoRow EXCEPT !.there = "gone"]]
  /\ ordered' = [ordered EXCEPT ![u].there = "gone"]
  /\ Writes("admin", u)
  /\ Become("admin", Idle)
  /\ UNCHANGED <<redis, tok, cached, tasks, events, due, paid>>

-----------------------------------------------------------------------------
(* Registrations, with or without an inviter, and CreateUser.                  *)

(* inviteUser: the inviter is read, and saved with the reward.                 *)
InviteFrom(i) ==
  IF i # None /\ Live(i) /\ Inviter > 0
  THEN [Idle EXCEPT !.pc = "invite", !.x = i, !.copy = row[i]] ELSE Idle

Register ==
  /\ Job("guest")
  /\ \E u \in Users, inviter \in Self \cup {None} :
       /\ row[u].there = "none"
       /\ row' = [row EXCEPT ![u] = [NoRow EXCEPT !.there = "live", !.quota = NewUser]]
       /\ ordered' = [ordered EXCEPT ![u] = row'[u]]
       /\ due' = [due EXCEPT ![u] = NewUser]
       /\ Become("guest", IF inviter = None THEN Idle
                          ELSE [Idle EXCEPT !.pc = "bonus", !.x = u, !.t = inviter])
  /\ UNCHANGED <<redis, tok, cached, tasks, paid, suspect, stale>>

(* IncreaseUserQuota for the invitee, and then the read of the inviter.        *)
Bonus ==
  LET u == st["guest"].x IN
  /\ At("guest", "bonus")
  /\ IF Invitee > 0
     THEN /\ Spawn({Task("incr", u, TRUE, Invitee)})
          /\ IF Live(u) THEN /\ row' = [row EXCEPT ![u].quota = @ + Invitee]
                             /\ due' = [due EXCEPT ![u] = @ + Invitee]
                             /\ Writes("guest", u)
                        ELSE UNCHANGED <<row, due, suspect, stale>>
     ELSE UNCHANGED <<row, due, suspect, stale, tasks>>
  /\ Goto("guest", "inviter")
  /\ UNCHANGED <<redis, tok, cached, events, ordered, paid>>

ReadInviter ==
  /\ At("guest", "inviter")
  /\ Become("guest", InviteFrom(st["guest"].t))
  /\ UNCHANGED <<redis, cached, tasks, events, Rows, stale>>

InviteUser ==
  LET u == st["guest"].x IN
  /\ At("guest", "invite")
  /\ Save(u, [st["guest"].copy EXCEPT !.aff = @ + Inviter])
  /\ due' = [due EXCEPT ![u] = @ + Inviter]
  /\ Writes("guest", u)
  /\ Become("guest", Idle)
  /\ UNCHANGED <<redis, tok, cached, tasks, events, ordered, paid>>

-----------------------------------------------------------------------------
(* Tokens, by their user.                                                      *)

AddToken(p) ==
  /\ Job(p)
  /\ \E t \in Tokens, n \in {0, 1} :
       /\ tok[t].there = "none" /\ row[OwnerOf[t]].there # "none"
       /\ tok' = [tok EXCEPT ![t] = [NoToken EXCEPT !.there = "live", !.remain = n]]
       /\ due' = [due EXCEPT ![t] = n]
  /\ UNCHANGED <<redis, row, cached, st, tasks, ordered, paid, suspect, stale>>

(* A form is filled with the token, and comes back with another quota, or with *)
(* nothing but another status.                                                 *)
GetToken(p) ==
  /\ Job(p)
  /\ \E t \in Tokens, more \in {0, 1} :
       /\ Valid(t)
       /\ Become(p, [Idle EXCEPT !.pc = "tread", !.t = t, !.kind = "form",
                                 !.token = [tok[t] EXCEPT !.remain = @ + more]])
  /\ UNCHANGED <<redis, cached, tasks, Rows, stale>>

UpdateTokenStatus(p) ==
  /\ Job(p)
  /\ \E t \in Tokens, s \in {"enabled", "disabled"} :
       /\ Valid(t)
       /\ s = "enabled" => ~(tok[t].status = "exhausted" /\ tok[t].remain <= 0)
       /\ Become(p, [Idle EXCEPT !.pc = "twrite", !.t = t, !.kind = "status",
                                 !.token = [tok[t] EXCEPT !.status = s]])
  /\ UNCHANGED <<redis, cached, tasks, Rows, stale>>

UpdateToken(p) ==
  LET t == st[p].t IN
  /\ At(p, "tread")
  /\ IF Valid(t) THEN Become(p, [st[p] EXCEPT !.pc = "twrite", !.token.status = tok[t].status])
                 ELSE Become(p, Idle)
  /\ UNCHANGED <<redis, cached, tasks, events, Rows, stale>>

(* Token.Update writes every column of the copy, and sends the copy to Redis   *)
(* whether or not there was a row to write.                                    *)
WriteToken(p) ==
  LET t == st[p].t  r == st[p].token IN
  /\ At(p, "twrite")
  /\ IF Valid(t)
     THEN /\ tok' = [tok EXCEPT ![t].status = r.status, ![t].remain = r.remain]
          /\ due' = IF st[p].kind = "form" THEN [due EXCEPT ![t] = r.remain] ELSE due
          /\ Writes(p, t)
     ELSE UNCHANGED <<tok, due, suspect>> /\ Misled(t)
  /\ Spawn({FillToken(t, r)})
  /\ Become(p, Idle)
  /\ UNCHANGED <<redis, row, cached, events, ordered, paid>>

DeleteToken(p) ==
  /\ Job(p)
  /\ \E t \in Tokens : /\ Valid(t)
                       /\ tok' = [tok EXCEPT ![t].there = "deleted"]
                       /\ Writes(p, t)
                       /\ Spawn({Task("del", t, FALSE, 0)})
  /\ UNCHANGED <<redis, row, cached, st, due, ordered, paid>>

-----------------------------------------------------------------------------
(* Requests: TokenAuth, and a charge of one unit.                              *)

(* What a reader of x learns: the hash in Redis, where a field that is missing *)
(* is zero, or the row, which a goroutine then copies to Redis as it was read. *)
Read(x) == IF cached[x].there THEN [on |-> cached[x].on, amount |-> cached[x].amount]
           ELSE IF There(x) THEN Row(x) ELSE [on |-> FALSE, amount |-> 0]
FillAfterRead(x) ==
  IF ~cached[x].there /\ There(x) THEN Spawn({Task("fill", x, Row(x).on, Row(x).amount)})
  ELSE UNCHANGED tasks

Request ==
  /\ Job("request")
  /\ \E t \in Tokens :
       LET r == Read(t) IN
       /\ tok[t].there # "none"
       /\ FillAfterRead(t)
       /\ Become("request",
            IF ~r.on THEN Idle
            ELSE IF r.amount > 0 THEN [Idle EXCEPT !.pc = "auth", !.t = t]
            ELSE IF ~redis THEN [Idle EXCEPT !.pc = "mark", !.t = t] ELSE Idle)
  /\ UNCHANGED <<redis, cached, Rows, stale>>

(* Without Redis, a token that has nothing left is marked.                     *)
SelectUpdate ==
  LET t == st["request"].t IN
  /\ At("request", "mark")
  /\ IF Valid(t) THEN tok' = [tok EXCEPT ![t].status = "exhausted"] /\ Writes("request", t)
                 ELSE UNCHANGED <<tok, suspect, stale>>
  /\ Become("request", Idle)
  /\ UNCHANGED <<redis, row, cached, tasks, events, due, ordered, paid>>

GetUserCache ==
  LET t == st["request"].t  r == Read(OwnerOf[t]) IN
  /\ At("request", "auth")
  /\ FillAfterRead(OwnerOf[t])
  /\ IF r.on /\ r.amount > 0 THEN Goto("request", "charge") ELSE Become("request", Idle)
  /\ UNCHANGED <<redis, cached, events, Rows, stale>>

DecreaseTokenQuota ==
  LET t == st["request"].t IN
  /\ At("request", "charge")
  /\ IF Valid(t) THEN /\ tok' = [tok EXCEPT ![t].remain = @ - 1]
                      /\ due' = [due EXCEPT ![t] = @ - 1]
                      /\ Writes("request", t)
                 ELSE UNCHANGED <<tok, due, suspect, stale>>
  /\ Spawn({Task("incr", t, TRUE, -1)})
  /\ Goto("request", "pay")
  /\ UNCHANGED <<redis, row, cached, events, ordered, paid>>

DecreaseUserQuota ==
  LET u == OwnerOf[st["request"].t] IN
  /\ At("request", "pay")
  /\ IF Live(u) THEN /\ row' = [row EXCEPT ![u].quota = @ - 1]
                     /\ due' = [due EXCEPT ![u] = @ - 1]
                     /\ Writes("request", u)
                ELSE UNCHANGED <<row, due, suspect, stale>>
  /\ Spawn({Task("incr", u, TRUE, -1)})
  /\ Become("request", Idle)
  /\ UNCHANGED <<redis, tok, cached, events, ordered, paid>>

-----------------------------------------------------------------------------
(* Redis.                                                                      *)

Unread == <<redis, st, Rows>>
Done(k) == tasks' = tasks \ {k}

RedisHSetObj(k) ==
  /\ k.op = "fill" /\ Done(k)
  /\ cached' = [cached EXCEPT ![k.x] = Hash(k.on, k.n)]
  /\ UNCHANGED <<Unread, stale, events>>

RedisHDelObj(k) ==
  /\ k.op = "del" /\ Done(k)
  /\ cached' = [cached EXCEPT ![k.x] = Absent]
  /\ UNCHANGED <<Unread, stale, events>>

(* RedisHIncrBy and RedisHSetField ask for the time to live first, and go on   *)
(* only with a key that has one ...                                            *)
TTL(k) ==
  /\ k.op \in {"incr", "set"}
  /\ LET next == [k EXCEPT !.op = IF k.op = "incr" THEN "incr now" ELSE "set now"]
     IN tasks' = (tasks \ {k}) \cup (IF cached[k.x].there THEN {next} ELSE {})
  /\ UNCHANGED <<Unread, cached, stale, events>>

(* ... which may have expired since: then the hash has this one field.         *)
RedisHSetField(k) ==
  /\ k.op \in {"incr now", "set now"} /\ Done(k)
  /\ cached' = [cached EXCEPT ![k.x].there = TRUE,
                              ![k.x].amount = IF k.op = "incr now" THEN @ + k.n ELSE k.n]
  /\ UNCHANGED <<Unread, stale, events>>

Lost(k) ==
  /\ Done(k)
  /\ IF k.op \in {"fill", "del"} THEN Unheard(k.x) ELSE UNCHANGED <<cached, stale>>
  /\ UNCHANGED <<Unread, events>>

(* What is on its way may bring an old hash back.                              *)
Expire(x) ==
  /\ cached[x].there
  /\ cached' = [cached EXCEPT ![x] = Absent]
  /\ stale' = IF \E p \in Processes : Coming(p, x) THEN stale ELSE stale \ {x}
  /\ UNCHANGED <<Unread, tasks, events>>

-----------------------------------------------------------------------------

Dashboard(p) ==
  \/ UpdateUserSetting(p) \/ UpdateSelf(p) \/ CheckIn(p) \/ PayCheckIn(p)
  \/ TransferAffQuota(p) \/ Transfer(p) \/ DeleteSelf(p)
  \/ AddToken(p) \/ GetToken(p) \/ UpdateTokenStatus(p) \/ UpdateToken(p)
  \/ WriteToken(p) \/ DeleteToken(p)

Administrator == ManageUser \/ GetUser \/ UpdateUser \/ DeleteUser \/ HardDelete
Guest == Register \/ Bonus \/ ReadInviter \/ InviteUser
Relay == Request \/ SelectUpdate \/ GetUserCache \/ DecreaseTokenQuota \/ DecreaseUserQuota
Goroutine(k) == RedisHSetObj(k) \/ RedisHDelObj(k) \/ TTL(k) \/ RedisHSetField(k) \/ Lost(k)

Next ==
  \/ \E p \in {"owner", "tab"} : Dashboard(p)
  \/ \E p \in {"owner", "tab", "admin"} :
       Reread(p) \/ Write(p) \/ UpdateUserCache(p) \/ Delete(p) \/ InvalidateUserCache(p)
  \/ Administrator \/ Guest \/ Relay \/ NextDay
  \/ \E k \in tasks : Goroutine(k)
  \/ \E x \in Keys : Expire(x)

Spec == Init /\ [][Next]_vars

-----------------------------------------------------------------------------
(* Every row has its columns, and every process its place.                     *)
TypeOK ==
  /\ row \in [Users -> UserRows] /\ tok \in [Tokens -> TokenRows]
  /\ cached \in [Keys -> [there : BOOLEAN, full : BOOLEAN, on : BOOLEAN, amount : Int]]

(* Whole-row writes lose nothing while they have the row for themselves: what  *)
(* a user has, in quota and in invitation quota, is what grants and charges    *)
(* come to, a token likewise, and role, status and deletion are as they were   *)
(* last ordered.  Two check-ins at once pay one reward, and transfers at once  *)
(* make nothing.                                                               *)
RowsAsOrdered ==
  /\ \A u \in Users \ suspect :
       /\ row[u].there = ordered[u].there
       /\ Live(u) => /\ row[u].quota + row[u].aff = due[u]
                     /\ row[u].role = ordered[u].role /\ row[u].status = ordered[u].status
  /\ \A t \in Tokens \ suspect : Valid(t) => tok[t].remain = due[t]

(* The super administrator is there, enabled, and the super administrator,     *)
(* whatever stale copies are written back.                                     *)
RootStands == Live(Root) /\ row[Root].role = Super /\ row[Root].status = Enabled

(* Redis lets in whom the table lets in, and keeps out whom it keeps out: once *)
(* it has been told of what was done to a user or a token, the hash it has of  *)
(* them says enabled if and only if the row is there and enabled, whatever     *)
(* updates, fills by readers, deletions and expiries have overlapped.  Excepted *)
(* is a hash that Redis was not told of: the row was written while an older    *)
(* copy was on its way, was written where Redis is not told, or was not there; *)
(* or the word of it was lost.  A hash that has one field says nothing.        *)
Quiet(x) ==
  /\ \A p \in Processes : st[p].x = x => st[p].pc \notin {"cache", "forget"}
  /\ \A k \in tasks : k.x = x => k.op \notin {"fill", "del"}
CachesAgree ==
  \A x \in Keys \ stale : cached[x].full /\ Quiet(x) => (cached[x].on <=> There(x) /\ Row(x).on)
=============================================================================
