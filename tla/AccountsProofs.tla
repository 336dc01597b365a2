--------------------------- MODULE AccountsProofs ---------------------------
(***************************************************************************)
(* Theorems about Accounts, for any users, tokens, rewards and jobs:       *)
(*   RootStandsAlways    the super administrator stays.                    *)
(*   RowsStayAsOrdered   nothing is lost of a row that nobody has written  *)
(*                       while another had a copy of it out.               *)
(*   CachesAgreeAlways   the hashes in Redis let in whom the tables let    *)
(*                       in, but those that Redis was not told of.         *)
(* Every writer writes back a copy of the row that it has read some time   *)
(* ago.  The first invariant says of each copy of the super administrator  *)
(* that is out what its writer relies on, and that nobody is about to      *)
(* delete him; the second, what every holder relies on of the row; the     *)
(* third, that whatever is on its way to Redis says what the row says.     *)
(***************************************************************************)
EXTENDS Accounts, TLAPS

\* A row of users, or a copy of it, that is the super administrator's.
Stands(r) ==
  /\ {"there", "role", "status"} \subseteq DOMAIN r
  /\ r.there = "live" /\ r.role = Super /\ r.status = Enabled

\* Where a process writes its copy as it is, where it updates with what is not
\* zero in it, and where it deletes.
Saves == {"save", "transfer", "invite"}
Updates == {"reread", "write"}
Deletes == {"delete", "forget", "erase"}
Dangers == Saves \cup Updates \cup Deletes

\* What a process that works on the super administrator has in hand.
Safe(l) ==
  l.x = Root => /\ l.pc \notin Deletes
                /\ l.pc \in Saves => Stands(l.copy)
                /\ l.pc \in Updates /\ l.kind = "whole" => Stands(l.copy)
Formed(l) == {"pc", "x", "kind", "copy", "seen"} \subseteq DOMAIN l /\ Safe(l)

Inv ==
  /\ DOMAIN row = Users /\ Stands(row[Root])
  /\ DOMAIN st = Processes /\ \A p \in Processes : Formed(st[p])

(***************************************************************************)
(* What a process has in hand.                                             *)
(***************************************************************************)

\* A change of what the invariant does not look at leaves a row as it was.
LEMMA StandsBy ==
    ASSUME NEW r, Stands(r), NEW x
    PROVE  /\ Stands([r EXCEPT !.quota = x]) /\ Stands([r EXCEPT !.aff = x])
           /\ Stands([r EXCEPT !.checked = x])
           /\ \A y : Stands([r EXCEPT !.aff = x, !.quota = y]) /\ Stands([r EXCEPT !.checked = x, !.quota = y])
BY DEF Stands

\* The local variables every job starts from.
LEMMA IdleFormed == Formed(Idle) /\ Idle.pc = "idle"
BY DEF Idle, Formed, Safe, Saves, Updates, Deletes

\* Elsewhere than at a write of a row there is nothing to be said.
LEMMA Harmless ==
    ASSUME NEW l, {"pc", "x", "kind", "copy", "seen"} \subseteq DOMAIN l, l.pc \notin Dangers
    PROVE  Formed(l)
BY DEF Formed, Safe, Dangers

\* A process goes where it writes no row of users.
LEMMA GoesOn ==
    ASSUME NEW l, Formed(l), NEW pc, pc \notin Dangers
    PROVE  Formed([l EXCEPT !.pc = pc])
BY DEF Formed, Safe, Dangers

\* An Update is safe with a copy of the super administrator's row, or if it is
\* not of the whole row.
LEMMA UpdateFormed ==
    ASSUME NEW u, NEW kind, NEW copy, u = Root /\ kind = "whole" => Stands(copy)
    PROVE  Formed(Update(u, kind, copy))
BY DEF Update, Idle, Formed, Safe, Saves, Updates, Deletes

\* So is a whole copy that is to be saved.
LEMMA SaveFormed ==
    ASSUME NEW u, NEW pc, pc \notin Updates \cup Deletes, NEW copy, u = Root => Stands(copy)
    PROVE  Formed([Idle EXCEPT !.pc = pc, !.x = u, !.copy = copy])
BY DEF Idle, Formed, Safe, Saves, Updates, Deletes

\* And whoever deletes has chosen another row.
LEMMA DeleteFormed ==
    ASSUME NEW u, NEW pc, pc \in Deletes, u # Root
    PROVE  /\ Formed([Idle EXCEPT !.pc = pc, !.x = u])
           /\ \A copy : Formed([Idle EXCEPT !.pc = pc, !.x = u, !.copy = copy])
BY DEF Idle, Formed, Safe

(***************************************************************************)
(* Steps.                                                                  *)
(***************************************************************************)

\* A step of p that leaves the super administrator's row and p's hand sound.
LEMMA Stepped ==
    ASSUME Inv, NEW p \in Processes, NEW m, Formed(m), Become(p, m),
           DOMAIN row' = Users, Stands(row'[Root])
    PROVE  Inv'
<1>1. DOMAIN st' = Processes /\ \A q \in Processes : st'[q] = IF q = p THEN m ELSE st[q]
  BY DEF Inv, Become
<1>2. \A q \in Processes : Formed(st'[q])
  BY <1>1 DEF Inv
<1> QED
  BY <1>1, <1>2 DEF Inv, Formed, Safe

\* A step of p that writes no row of users.
LEMMA Walks ==
    ASSUME Inv, NEW p \in Processes, NEW m, Formed(m), Become(p, m), UNCHANGED row
    PROVE  Inv'
BY Stepped DEF Inv

\* A step that nobody takes, or that is about tokens and Redis alone.
LEMMA Still ==
    ASSUME Inv, UNCHANGED <<row, st>>
    PROVE  Inv'
BY DEF Inv, Formed, Safe

(***************************************************************************)
(* The user's dashboard.                                                   *)
(***************************************************************************)

\* The jobs begin with the row as it is, or with nothing of it.
LEMMA JobsInv ==
    ASSUME Inv, NEW p \in Processes,
           UpdateUserSetting(p) \/ UpdateSelf(p) \/ CheckIn(p) \/ TransferAffQuota(p) \/ DeleteSelf(p)
    PROVE  Inv'
<1>0. UNCHANGED row /\ Stands(row[Root]) /\ row[Root].role = Super
  BY DEF UpdateUserSetting, UpdateSelf, CheckIn, TransferAffQuota, DeleteSelf, Rows, Inv, Stands
<1>1. CASE UpdateUserSetting(p)
  <2>1. PICK u \in Self : Become(p, Update(u, "whole", row[u]))
    BY <1>1 DEF UpdateUserSetting
  <2> QED
    BY <1>0, <2>1, UpdateFormed, Walks
<1>2. CASE UpdateSelf(p)
  <2>1. PICK u \in Self : Become(p, Update(u, "self", ZeroUser))
    BY <1>2 DEF UpdateSelf
  <2>2. Formed(Update(u, "self", ZeroUser))
    BY UpdateFormed
  <2> QED
    BY <1>0, <2>1, <2>2, Walks
<1>3. CASE CheckIn(p) \/ TransferAffQuota(p)
  <2>1. PICK u \in Self, pc \in {"save", "transfer"} : Become(p, [Idle EXCEPT !.pc = pc, !.x = u, !.copy = row[u]])
    BY <1>3 DEF CheckIn, TransferAffQuota
  <2>2. Formed([Idle EXCEPT !.pc = pc, !.x = u, !.copy = row[u]])
    BY <1>0, SaveFormed DEF Updates, Deletes
  <2> QED
    BY <1>0, <2>1, <2>2, Walks
<1>4. CASE DeleteSelf(p)
  <2>1. PICK u \in Self : u # Root /\ Become(p, [Idle EXCEPT !.pc = "delete", !.x = u])
    BY <1>0, <1>4 DEF DeleteSelf
  <2>2. Formed([Idle EXCEPT !.pc = "delete", !.x = u])
    BY <2>1, DeleteFormed DEF Deletes
  <2> QED
    BY <1>0, <2>1, <2>2, Walks
<1> QED
  BY <1>1, <1>2, <1>3, <1>4

\* A row that is saved is the copy, but for quotas and the check-in.
LEMMA SaveInv ==
    ASSUME Inv, NEW p \in Processes, NEW r, Become(p, Idle), Save(st[p].x, r), st[p].x = Root => Stands(r)
    PROVE  Inv'
<1>1. DOMAIN row' = Users /\ Stands(row'[Root])
  BY AccountsAssumption DEF Save, Inv
<1> QED
  BY <1>1, IdleFormed, Stepped

\* A check-in, a transfer and an inviter's reward save the copy that was read.
LEMMA SavesInv ==
    ASSUME Inv, NEW p \in Processes, PayCheckIn(p) \/ Transfer(p) \/ (p = "guest" /\ InviteUser)
    PROVE  Inv'
<1>0. Become(p, Idle) /\ st[p].pc \in Saves
  BY DEF PayCheckIn, Transfer, InviteUser, At, Saves
<1>1. st[p].x = Root => Stands(st[p].copy)
  BY <1>0 DEF Inv, Formed, Safe
<1>2. CASE UNCHANGED row
  BY <1>0, <1>2, IdleFormed, Walks
<1>3. CASE ~UNCHANGED row
  <2>1. CASE PayCheckIn(p)
    <3>1. Save(st[p].x, [st[p].copy EXCEPT !.checked = TRUE, !.quota = @ + Reward])
      BY <1>3, <2>1 DEF PayCheckIn
    <3> QED
      BY <1>0, <1>1, <3>1, StandsBy, SaveInv
  <2>2. CASE Transfer(p)
    <3>1. PICK q : Save(st[p].x, [st[p].copy EXCEPT !.aff = @ - q, !.quota = @ + q])
      BY <1>3, <2>2 DEF Transfer
    <3> QED
      BY <1>0, <1>1, <3>1, StandsBy, SaveInv
  <2>3. CASE p = "guest" /\ InviteUser
    <3>1. Save(st[p].x, [st[p].copy EXCEPT !.aff = @ + Inviter])
      BY <2>3 DEF InviteUser
    <3> QED
      BY <1>0, <1>1, <3>1, StandsBy, SaveInv
  <2> QED
    BY <2>1, <2>2, <2>3
<1> QED
  BY <1>2, <1>3

\* What is done about tokens.
LEMMA TokensInv ==
    ASSUME Inv, NEW p \in Processes,
           AddToken(p) \/ GetToken(p) \/ UpdateTokenStatus(p) \/ UpdateToken(p) \/ WriteToken(p) \/ DeleteToken(p)
    PROVE  Inv'
<1>0. UNCHANGED row /\ Formed(st[p])
  BY DEF AddToken, GetToken, UpdateTokenStatus, UpdateToken, WriteToken, DeleteToken, Rows, Inv
<1>1. CASE UNCHANGED st
  BY <1>0, <1>1, Still
<1>2. ASSUME NEW t, NEW pc \in {"tread", "twrite"}, NEW kind, NEW token
      PROVE  Formed([Idle EXCEPT !.pc = pc, !.t = t, !.kind = kind, !.token = token])
  BY Harmless DEF Idle, Dangers, Saves, Updates, Deletes
<1>3. CASE GetToken(p)
  <2>1. PICK t \in Tokens, more \in {0, 1} :
          Become(p, [Idle EXCEPT !.pc = "tread", !.t = t, !.kind = "form",
                                 !.token = [tok[t] EXCEPT !.remain = @ + more]])
    BY <1>3 DEF GetToken
  <2> QED
    BY <1>0, <1>2, <2>1, Walks
<1>5. CASE UpdateTokenStatus(p)
  <2>1. PICK t \in Tokens, s \in {"enabled", "disabled"} :
          Become(p, [Idle EXCEPT !.pc = "twrite", !.t = t, !.kind = "status",
                                 !.token = [tok[t] EXCEPT !.status = s]])
    BY <1>5 DEF UpdateTokenStatus
  <2> QED
    BY <1>0, <1>2, <2>1, Walks
<1>4. CASE UpdateToken(p) \/ WriteToken(p)
  <2>1. ASSUME NEW s PROVE Formed([st[p] EXCEPT !.pc = "twrite", !.token.status = s])
    BY <1>0, Harmless DEF Formed, Dangers, Saves, Updates, Deletes
  <2>2. CASE Become(p, Idle)
    BY <1>0, <2>2, IdleFormed, Walks
  <2>3. CASE Become(p, [st[p] EXCEPT !.pc = "twrite", !.token.status = tok[st[p].t].status])
    BY <1>0, <2>1, <2>3, Walks
  <2> QED
    BY <1>4, <2>2, <2>3 DEF UpdateToken, WriteToken
<1> QED
  BY <1>1, <1>3, <1>4, <1>5 DEF AddToken, DeleteToken

(***************************************************************************)
(* User.Update and User.Edit, and deletions.                               *)
(***************************************************************************)

\* The row is read again, and its copy for Redis is nobody's concern.
LEMMA RereadInv ==
    ASSUME Inv, NEW p \in Processes, Reread(p)
    PROVE  Inv'
<1> DEFINE seen == IF Live(st[p].x) THEN row[st[p].x] ELSE st[p].copy
           m == [st[p] EXCEPT !.pc = "write", !.seen = seen]
<1>1. st[p].pc = "reread" /\ Become(p, m) /\ UNCHANGED row
  BY DEF Reread, At, Rows
<1>2. Formed(m)
  <2>1. ASSUME NEW x PROVE Formed([st[p] EXCEPT !.pc = "write", !.seen = x])
    BY <1>1 DEF Inv, Formed, Safe, Saves, Updates, Deletes
  <2> QED
    BY <2>1
<1> QED
  BY <1>1, <1>2, Walks

\* What an Update makes of the super administrator's row is still his.
LEMMA OverStands ==
    ASSUME NEW r, Stands(r), NEW l, l.kind = "whole" => Stands(l.copy)
    PROVE  Stands(Over(r, l))
<1>1. CASE l.kind = "whole"
  <2>1. Over(r, l) = [r EXCEPT !.role = IF l.copy.role = 0 THEN @ ELSE l.copy.role,
                               !.status = IF l.copy.status = 0 THEN @ ELSE l.copy.status,
                               !.checked = @ \/ l.copy.checked,
                               !.quota = IF l.copy.quota = 0 THEN @ ELSE l.copy.quota,
                               !.aff = IF l.copy.aff = 0 THEN @ ELSE l.copy.aff]
    BY <1>1, Zenon DEF Over
  <2>2. l.copy.role = Super /\ l.copy.status = Enabled /\ Super # 0 /\ Enabled # 0
    BY <1>1 DEF Stands, Super, Enabled
  <2> QED
    BY <2>1, <2>2 DEF Stands
<1>2. CASE l.kind = "edit"
  BY <1>2 DEF Over, Stands
<1>3. CASE l.kind \notin {"whole", "edit"}
  BY <1>3 DEF Over
<1> QED
  BY <1>1, <1>2, <1>3

\* The row is written, from the copy.
LEMMA WriteInv ==
    ASSUME Inv, NEW p \in Processes, Write(p)
    PROVE  Inv'
<1>1. st[p].pc = "write" /\ Formed(st[p]) /\ Stands(row[Root])
  BY DEF Write, At, Inv
<1>2. \E m : Formed(m) /\ Become(p, m)
  <2>1. Formed([st[p] EXCEPT !.pc = "cache"])
    BY <1>1, GoesOn DEF Dangers, Saves, Updates, Deletes
  <2> QED
    BY <2>1, IdleFormed DEF Write, Goto
<1>3. DOMAIN row' = Users /\ Stands(row'[Root])
  <2>1. CASE UNCHANGED row
    BY <1>1, <2>1 DEF Inv
  <2>2. CASE row' = [row EXCEPT ![st[p].x] = Over(@, st[p])]
    <3>1. CASE st[p].x = Root
      <4>1. Stands(Over(row[Root], st[p]))
        BY <1>1, <3>1, OverStands DEF Formed, Safe, Updates
      <4> QED
        BY <2>2, <3>1, <4>1, AccountsAssumption DEF Inv
    <3>2. CASE st[p].x # Root
      BY <1>1, <2>2, <3>2 DEF Inv
    <3> QED
      BY <3>1, <3>2
  <2> QED
    BY <2>1, <2>2 DEF Write
<1> QED
  BY <1>2, <1>3, Stepped

\* The copy goes to Redis.
LEMMA CacheInv ==
    ASSUME Inv, NEW p \in Processes, UpdateUserCache(p)
    PROVE  Inv'
BY IdleFormed, Walks DEF UpdateUserCache, Rows

\* A deletion is of another row, and what follows it as well.
LEMMA DeleteInv ==
    ASSUME Inv, NEW p \in Processes, Delete(p) \/ InvalidateUserCache(p) \/ (p = "admin" /\ HardDelete)
    PROVE  Inv'
<1>1. st[p].pc \in Deletes /\ Formed(st[p]) /\ st[p].x # Root
  BY DEF Delete, InvalidateUserCache, HardDelete, At, Deletes, Inv, Formed, Safe
<1>2. DOMAIN row' = Users /\ Stands(row'[Root])
  <2> DEFINE u == st[p].x
  <2>1. \/ UNCHANGED row
        \/ row' = [row EXCEPT ![u].there = "deleted"]
        \/ row' = [row EXCEPT ![u] = [NoRow EXCEPT !.there = "gone"]]
    BY DEF Delete, InvalidateUserCache, HardDelete, Rows
  <2>2. DOMAIN row' = Users /\ row'[Root] = row[Root]
    BY <1>1, <2>1, AccountsAssumption DEF Inv
  <2> QED
    BY <2>2 DEF Inv, Stands
<1>3. CASE Delete(p)
  <2>1. Formed([st[p] EXCEPT !.pc = "forget"])
    BY <1>1 DEF Formed, Safe
  <2> QED
    BY <1>2, <1>3, <2>1, Stepped DEF Delete, Goto
<1>4. CASE InvalidateUserCache(p)
  <2>1. Formed(Update(st[p].x, "whole", st[p].copy))
    BY <1>1, UpdateFormed
  <2> QED
    BY <1>2, <1>4, <2>1, IdleFormed, Stepped DEF InvalidateUserCache
<1>5. CASE p = "admin" /\ HardDelete
  BY <1>2, <1>5, IdleFormed, Stepped DEF HardDelete
<1> QED
  BY <1>3, <1>4, <1>5

(***************************************************************************)
(* The administrator and the guest.                                        *)
(***************************************************************************)

\* Nothing ManageUser would write of the super administrator changes him.
LEMMA ManagedStands ==
    ASSUME NEW me, NEW r, Stands(r), NEW c \in Managed(me, r)
    PROVE  Stands(c)
BY DEF Managed, Stands, Super, Admin, Common, Enabled

\* ManageUser updates or deletes; the super administrator is only updated.
LEMMA ManageInv ==
    ASSUME Inv, ManageUser
    PROVE  Inv'
<1>0. "admin" \in Processes /\ UNCHANGED row /\ Stands(row[Root]) /\ Found(Root) = row[Root]
  BY DEF ManageUser, Processes, Rows, Inv, Stands, Found
<1>1. PICK me \in Roles, u \in Users :
        \/ \E c \in Managed(me, Found(u)) : Become("admin", Update(u, "whole", c))
        \/ /\ Found(u).role # Super
           /\ Become("admin", [Idle EXCEPT !.pc = "delete", !.x = u, !.copy = Found(u)])
  BY DEF ManageUser
<1>2. ASSUME NEW c \in Managed(me, Found(u)), Become("admin", Update(u, "whole", c))
      PROVE  Inv'
  <2>1. u = Root => Stands(c)
    BY <1>0, ManagedStands
  <2>2. Formed(Update(u, "whole", c))
    BY <2>1, UpdateFormed
  <2> QED
    BY <1>0, <1>2, <2>2, Walks
<1>3. CASE /\ Found(u).role # Super
           /\ Become("admin", [Idle EXCEPT !.pc = "delete", !.x = u, !.copy = Found(u)])
  <2>1. u # Root
    BY <1>0, <1>3 DEF Stands
  <2>2. Formed([Idle EXCEPT !.pc = "delete", !.x = u, !.copy = Found(u)])
    BY <2>1, DeleteFormed DEF Deletes
  <2> QED
    BY <1>0, <1>3, <2>2, Walks
<1> QED
  BY <1>1, <1>2, <1>3

\* The form of a user, its return, and the choice of one to erase.
LEMMA FormsInv ==
    ASSUME Inv, GetUser \/ UpdateUser \/ DeleteUser
    PROVE  Inv'
<1>0. "admin" \in Processes /\ UNCHANGED row /\ Stands(row[Root])
  BY DEF GetUser, UpdateUser, DeleteUser, Processes, Rows, Inv
<1>1. CASE GetUser
  <2>1. PICK u, copy : Become("admin", [Idle EXCEPT !.pc = "submit", !.x = u, !.copy = copy])
    BY <1>1 DEF GetUser
  <2>2. Formed([Idle EXCEPT !.pc = "submit", !.x = u, !.copy = copy])
    BY Harmless DEF Idle, Dangers, Saves, Updates, Deletes
  <2> QED
    BY <1>0, <2>1, <2>2, Walks
<1>2. CASE UpdateUser
  <2>1. Formed(Update(st["admin"].x, "edit", st["admin"].copy))
    BY UpdateFormed
  <2> QED
    BY <1>0, <1>2, <2>1, IdleFormed, Walks DEF UpdateUser
<1>3. CASE DeleteUser
  <2>1. PICK me \in Roles, u \in Users : me > row[u].role /\ Become("admin", [Idle EXCEPT !.pc = "erase", !.x = u])
    BY <1>3 DEF DeleteUser
  <2>2. u # Root
    BY <1>0, <2>1 DEF Stands, Roles, Admin, Super
  <2>3. Formed([Idle EXCEPT !.pc = "erase", !.x = u])
    BY <2>2, DeleteFormed DEF Deletes
  <2> QED
    BY <1>0, <2>1, <2>3, Walks
<1> QED
  BY <1>1, <1>2, <1>3

\* A registration takes a new id, and its rewards raise quotas.
LEMMA GuestInv ==
    ASSUME Inv, Register \/ Bonus \/ ReadInviter
    PROVE  Inv'
<1>0. "guest" \in Processes /\ Stands(row[Root]) /\ Formed(st["guest"]) /\ DOMAIN row = Users /\ Root \in Users
  BY AccountsAssumption DEF Processes, Inv
<1>1. CASE Register
  <2>1. PICK u \in Users, i \in Self \cup {None} :
          /\ row[u].there = "none"
          /\ row' = [row EXCEPT ![u] = [NoRow EXCEPT !.there = "live", !.quota = NewUser]]
          /\ Become("guest", IF i = None THEN Idle ELSE [Idle EXCEPT !.pc = "bonus", !.x = u, !.t = i])
    BY <1>1 DEF Register
  <2>2. u # Root
    BY <1>0, <2>1 DEF Stands
  <2>3. Formed([Idle EXCEPT !.pc = "bonus", !.x = u, !.t = i])
    BY Harmless DEF Idle, Dangers, Saves, Updates, Deletes
  <2>4. DOMAIN row' = Users /\ Stands(row'[Root])
    BY <1>0, <2>1, <2>2
  <2> QED
    BY <1>0, <2>1, <2>3, <2>4, IdleFormed, Stepped
<1>2. CASE Bonus
  <2>1. Formed([st["guest"] EXCEPT !.pc = "inviter"])
    BY <1>0, GoesOn DEF Dangers, Saves, Updates, Deletes
  <2>2. UNCHANGED row \/ row' = [row EXCEPT ![st["guest"].x].quota = @ + Invitee]
    BY <1>2 DEF Bonus
  <2>3. DOMAIN row' = Users /\ Stands(row'[Root])
    BY <1>0, <2>2, StandsBy DEF Stands
  <2> QED
    BY <1>0, <1>2, <2>1, <2>3, Stepped DEF Bonus, Goto
<1>3. CASE ReadInviter
  <2>1. Formed(InviteFrom(st["guest"].t))
    <3> DEFINE i == st["guest"].t
    <3>1. Formed([Idle EXCEPT !.pc = "invite", !.x = i, !.copy = row[i]])
      BY <1>0, SaveFormed DEF Updates, Deletes
    <3> QED
      BY <3>1, IdleFormed DEF InviteFrom
  <2> QED
    BY <1>0, <1>3, <2>1, Walks DEF ReadInviter, Rows
<1> QED
  BY <1>1, <1>2, <1>3

(***************************************************************************)
(* Requests, midnight and Redis.                                           *)
(***************************************************************************)

\* A request writes a token, or takes from a user's quota.
LEMMA RelayInv ==
    ASSUME Inv, Relay
    PROVE  Inv'
<1>0. "request" \in Processes /\ Stands(row[Root]) /\ Formed(st["request"]) /\ DOMAIN row = Users
  BY DEF Processes, Inv
<1>1. \A pc \in {"auth", "mark", "charge", "pay"} : pc \notin Dangers
  BY DEF Dangers, Saves, Updates, Deletes
<1>2. ASSUME NEW t, NEW pc \in {"auth", "mark"} PROVE Formed([Idle EXCEPT !.pc = pc, !.t = t])
  BY <1>1, Harmless DEF Idle
<1>3. \A pc \in {"charge", "pay"} : Formed([st["request"] EXCEPT !.pc = pc])
  BY <1>0, <1>1, GoesOn
<1>4. CASE Request
  <2>1. PICK t \in Tokens : \/ Become("request", Idle)
                            \/ Become("request", [Idle EXCEPT !.pc = "auth", !.t = t])
                            \/ Become("request", [Idle EXCEPT !.pc = "mark", !.t = t])
    BY <1>4 DEF Request
  <2> QED
    BY <1>0, <1>2, <1>4, <2>1, IdleFormed, Walks DEF Request, Rows
<1>5. CASE SelectUpdate
  BY <1>0, <1>5, IdleFormed, Walks DEF SelectUpdate
<1>6. CASE GetUserCache
  BY <1>0, <1>3, <1>6, IdleFormed, Walks DEF GetUserCache, Goto, Rows
<1>7. CASE DecreaseTokenQuota
  BY <1>0, <1>3, <1>7, Walks DEF DecreaseTokenQuota, Goto
<1>8. CASE DecreaseUserQuota
  <2>1. UNCHANGED row \/ row' = [row EXCEPT ![OwnerOf[st["request"].t]].quota = @ - 1]
    BY <1>8 DEF DecreaseUserQuota
  <2>2. DOMAIN row' = Users /\ Stands(row'[Root])
    <3> DEFINE u == OwnerOf[st["request"].t]
    <3>1. CASE u = Root
      <4>1. Stands([row[Root] EXCEPT !.quota = row[Root].quota - 1])
        BY <1>0, StandsBy
      <4>2. Root \in DOMAIN row
        BY <1>0, AccountsAssumption
      <4>3. \/ row'[Root] = row[Root]
            \/ row'[Root] = [row[Root] EXCEPT !.quota = row[Root].quota - 1]
        BY <2>1, <3>1, <4>2
      <4>4. DOMAIN row' = Users
        BY <1>0, <2>1
      <4>5. Stands(row'[Root])
        BY <1>0, <4>1, <4>3, Zenon
      <4> QED
        BY <4>4, <4>5
    <3>2. CASE u # Root
      <4>1. DOMAIN row' = Users /\ row'[Root] = row[Root]
        BY <1>0, <2>1, <3>2, AccountsAssumption
      <4> QED
        BY <1>0, <4>1
    <3> QED
      BY <3>1, <3>2
  <2> QED
    BY <1>0, <1>8, <2>2, IdleFormed, Stepped DEF DecreaseUserQuota
<1> QED
  BY <1>4, <1>5, <1>6, <1>7, <1>8 DEF Relay

\* At midnight nobody has checked in, in any row or copy.
LEMMA NextDayInv ==
    ASSUME Inv, NextDay
    PROVE  Inv'
<1>1. /\ row' = [u \in Users |-> [row[u] EXCEPT !.checked = FALSE]]
      /\ st' = [p \in Processes |-> [st[p] EXCEPT !.copy.checked = FALSE, !.seen.checked = FALSE]]
  BY DEF NextDay
<1>2. Stands(row'[Root])
  BY <1>1, StandsBy, AccountsAssumption DEF Inv
<1>3. ASSUME NEW l, Formed(l)
      PROVE  Formed([l EXCEPT !.copy.checked = FALSE, !.seen.checked = FALSE])
  <2> DEFINE m == [l EXCEPT !.copy.checked = FALSE, !.seen.checked = FALSE]
  <2>1. DOMAIN m = DOMAIN l /\ m.pc = l.pc /\ m.x = l.x /\ m.kind = l.kind
        /\ m.copy = [l.copy EXCEPT !.checked = FALSE]
    BY <1>3 DEF Formed
  <2> HIDE DEF m
  <2>2. Stands(l.copy) => Stands(m.copy)
    <3>1. Stands(l.copy) => Stands([l.copy EXCEPT !.checked = FALSE])
      BY StandsBy
    <3> QED
      BY <2>1, <3>1, Zenon
  <2>3. Safe(m)
    BY <1>3, <2>1, <2>2 DEF Formed, Safe
  <2>4. Formed(m)
    BY <1>3, <2>1, <2>3 DEF Formed
  <2> QED
    BY <2>4 DEF m
<1>4. \A p \in Processes : Formed(st'[p])
  BY <1>1, <1>3 DEF Inv
<1> QED
  BY <1>1, <1>2, <1>4 DEF Inv

(***************************************************************************)
(* The theorem.                                                            *)
(***************************************************************************)

\* The tables start with a super administrator, and nobody has anything in hand.
LEMMA InitInv == Init => Inv
<1> SUFFICES ASSUME Init PROVE Inv
  OBVIOUS
<1>1. PICK s \in Starts : row = s.row
  BY DEF Init
<1>2. row \in [Users -> UserRows] /\ Stands(row[Root])
  BY <1>1, AccountsAssumption DEF Stands, UserRows
<1>3. st = [p \in Processes |-> Idle]
  BY DEF Init
<1> QED
  BY <1>2, <1>3, IdleFormed DEF Inv

\* No step of anybody deletes or changes the super administrator, or prepares to.
LEMMA NextInv == Inv /\ [Next]_vars => Inv'
<1> SUFFICES ASSUME Inv, [Next]_vars PROVE Inv'
  OBVIOUS
<1>0. {"owner", "tab", "admin", "guest"} \subseteq Processes
  BY DEF Processes
<1>1. ASSUME NEW p \in {"owner", "tab"}, Dashboard(p) PROVE Inv'
  BY <1>0, <1>1, JobsInv, SavesInv, TokensInv DEF Dashboard
<1>2. ASSUME NEW p \in {"owner", "tab", "admin"},
             Reread(p) \/ Write(p) \/ UpdateUserCache(p) \/ Delete(p) \/ InvalidateUserCache(p)
      PROVE  Inv'
  BY <1>0, <1>2, RereadInv, WriteInv, CacheInv, DeleteInv
<1>3. CASE Administrator
  BY <1>0, <1>3, ManageInv, FormsInv, DeleteInv DEF Administrator
<1>4. CASE Guest
  BY <1>0, <1>4, GuestInv, SavesInv DEF Guest
<1>5. CASE Relay
  BY <1>5, RelayInv
<1>6. CASE NextDay
  BY <1>6, NextDayInv
<1>7. ASSUME NEW k \in tasks, Goroutine(k) PROVE Inv'
  BY <1>7, Still DEF Goroutine, RedisHSetObj, RedisHDelObj, TTL, RedisHSetField, Lost, Unread, Rows
<1>8. ASSUME NEW x \in Keys, Expire(x) PROVE Inv'
  BY <1>8, Still DEF Expire, Unread, Rows
<1>9. CASE UNCHANGED vars
  BY <1>9, Still DEF vars
<1> QED
  BY <1>1, <1>2, <1>3, <1>4, <1>5, <1>6, <1>7, <1>8, <1>9 DEF Next

\* Whatever copies are written back, in whatever order, by administrators, by
\* the user, by rewards and charges: the super administrator's row is there,
\* enabled and his.
THEOREM RootStandsAlways == Spec => []RootStands
<1>1. Inv => RootStands
  BY DEF Inv, Stands, RootStands, Live
<1> QED
  BY <1>1, InitInv, NextInv, PTL DEF Spec

(***************************************************************************)
(* Rows are as ordered.  Who holds a copy of a row that has had no other   *)
(* writer (it is not suspect) holds that row, but for what writers that    *)
(* are alike have made of it: another check-in, or another transfer.       *)
(***************************************************************************)

\* A struct that a row of users was read into, or that none was found for.
Structs == [there : {"none", "live", "deleted", "gone"}, role : {0, Common, Admin, Super},
            status : {0, Enabled, Disabled}, quota : Int, aff : Nat, checked : BOOLEAN]
Places == {"idle", "reread", "write", "cache", "save", "transfer", "delete", "forget", "submit",
           "erase", "bonus", "inviter", "invite", "tread", "twrite", "auth", "mark", "charge", "pay"}
Kinds == {"", "whole", "self", "edit", "form", "status"}
Locals == [pc : Places, x : Users, t : Keys \cup {None}, kind : Kinds, copy : Structs,
           seen : Structs, token : TokenRows]

\* A copy that is saved as it is, is one of a row that was there; t is a token
\* or an inviter.
TokenPlaces == {"tread", "twrite", "auth", "mark", "charge", "pay"}
Shaped(l) ==
  /\ l.pc \in Saves => l.copy \in UserRows /\ l.copy.there = "live" /\ l.kind = ""
  /\ l.pc \in TokenPlaces => l.t \in Tokens
  /\ l.pc = "tread" => l.kind = "form"
  /\ l.pc = "twrite" => l.kind \in {"form", "status"}
  /\ l.pc \in {"bonus", "inviter"} => l.t \in Users \cup {None}

Types ==
  /\ row \in [Users -> UserRows] /\ ordered \in [Users -> UserRows]
  /\ tok \in [Tokens -> TokenRows] /\ due \in [Keys -> Int]
  /\ st \in [Processes -> Locals] /\ \A p \in Processes : Shaped(st[p])

\* A row r, what was ordered of it, what it should come to, and whether the
\* day's check-in was paid.
Settled(r, o, d, checkedIn) ==
  /\ r.there = o.there
  /\ r.there = "live" => /\ r.quota + r.aff = d /\ r.role = o.role /\ r.status = o.status
                         /\ checkedIn <=> r.checked
  /\ r.there = "none" => ~checkedIn

\* A copy c of r, but for transfers, and one that another check-in was paid on.
Same(c, r) ==
  /\ c.there = r.there /\ c.role = r.role /\ c.status = r.status /\ c.checked = r.checked
  /\ c.quota + c.aff = r.quota + r.aff
PaidOn(c) == [c EXCEPT !.checked = TRUE, !.quota = @ + Reward]

\* The columns of a whole update that nobody orders.
Untouched(p, c, r) ==
  /\ c.quota = r.quota /\ c.aff = r.aff /\ (c.checked => r.checked)
  /\ p # "admin" => c.role = r.role /\ c.status = r.status

\* What p with the variables l relies on of the row r it has in hand.
Relies(p, l, r) ==
  /\ l.pc \in RowWindows \cup Deletes => r.there # "none"
  /\ l.pc \in {"transfer", "invite"} => Same(l.copy, r)
  /\ l.pc = "save" => Same(l.copy, r) \/ (~l.copy.checked /\ Same(PaidOn(l.copy), r))
  /\ l.pc \in Updates /\ l.kind = "whole" /\ r.there = "live" => Untouched(p, l.copy, r)
  /\ l.pc = "forget" => r.there # "live"

\* And who changes the status of a token, of the token.
ReliesOnToken(l, r) ==
  l.pc = "twrite" /\ l.kind = "status" => /\ r.there # "none"
                                          /\ r.there = "live" => l.token.remain = r.remain

Ordered ==
  /\ Types
  /\ \A u \in Users \ suspect : Settled(row[u], ordered[u], due[u], u \in paid)
  /\ \A p \in Processes : st[p].x \notin suspect => Relies(p, st[p], row[st[p].x])
  /\ \A t \in Tokens \ suspect : Valid(t) => tok[t].remain = due[t]
  /\ \A p \in Processes : st[p].t \in Tokens \ suspect => ReliesOnToken(st[p], tok[st[p].t])

\* Where a process relies on nothing.
Careless == {"idle", "cache", "bonus", "inviter", "tread", "auth", "mark", "charge", "pay"}

\* A process there has nothing to answer for.
LEMMA CarelessFine ==
    ASSUME NEW l, l.pc \in Careless
    PROVE  /\ l.pc \in {"idle", "cache"} => Shaped(l)
           /\ \A p, r : Relies(p, l, r) /\ ReliesOnToken(l, r)
BY DEF Careless, Shaped, TokenPlaces, Relies, ReliesOnToken, RowWindows, Deletes, Updates, Saves

\* A row is a struct; so are the row of nobody and the struct of no row.
LEMMA RowsAreStructs == UserRows \subseteq Structs /\ NoRow \in UserRows /\ ZeroUser \in Structs /\ NoToken \in TokenRows
<1>1. ASSUME NEW r \in UserRows PROVE r \in Structs
  BY DEF UserRows, Structs
<1>2. NoRow \in UserRows
  BY DEF UserRows, NoRow, Common, Enabled
<1>3. ASSUME NEW r \in Structs PROVE [r EXCEPT !.role = 0, !.status = 0] \in Structs
  BY DEF Structs
<1>4. ZeroUser \in Structs
  BY <1>1, <1>2, <1>3 DEF ZeroUser
<1>5. NoToken \in TokenRows
  BY DEF NoToken, TokenRows
<1> QED
  BY <1>1, <1>2, <1>4, <1>5

\* The start of every job, which has a row's columns and is nowhere.
LEMMA IdleTyped == Idle \in Locals /\ Idle.pc \in Careless /\ Idle.pc = "idle"
<1>1. NoRow \in Structs /\ NoToken \in TokenRows /\ Root \in Users
  BY RowsAreStructs, AccountsAssumption
<1>2. Idle.pc \in Careless /\ Idle.pc = "idle"
  BY DEF Idle, Careless
<1>3. Idle \in Locals
  BY <1>1 DEF Idle, Locals, Places, Kinds
<1> QED
  BY <1>2, <1>3

\* p takes a step that writes the row of u, or none, and no token.
LEMMA RowStep ==
    ASSUME Ordered, NEW p \in Processes, NEW m \in Locals, Shaped(m), Become(p, m),
           NEW u \in Users, NEW r \in UserRows, row' = [row EXCEPT ![u] = r],
           ordered' \in [Users -> UserRows], \A v \in Users \ {u} : ordered'[v] = ordered[v],
           due' \in [Keys -> Int], \A x \in Keys \ {u} : due'[x] = due[x],
           \A v \in Users \ {u} : v \in paid' <=> v \in paid,
           suspect \subseteq suspect', UNCHANGED tok,
           u \notin suspect' => Settled(r, ordered'[u], due'[u], u \in paid'),
           u \notin suspect' => \A q \in Processes \ {p} : st[q].x = u => Relies(q, st[q], r),
           m.x \notin suspect' => Relies(p, m, row'[m.x]),
           m.t \in Tokens \ suspect' => ReliesOnToken(m, tok[m.t])
    PROVE  Ordered'
<1>1. st' \in [Processes -> Locals] /\ st'[p] = m /\ \A q \in Processes \ {p} : st'[q] = st[q]
  BY DEF Ordered, Types, Become
<1>2. row' \in [Users -> UserRows] /\ row'[u] = r /\ \A v \in Users \ {u} : row'[v] = row[v]
  BY DEF Ordered, Types
<1>3. Types'
  BY <1>1, <1>2 DEF Ordered, Types
<1>4. \A v \in Users \ suspect' : Settled(row'[v], ordered'[v], due'[v], v \in paid')
  <2> SUFFICES ASSUME NEW v \in Users \ suspect' PROVE Settled(row'[v], ordered'[v], due'[v], v \in paid')
    OBVIOUS
  <2>1. CASE v = u
    BY <1>2, <2>1
  <2>2. CASE v # u
    <3>1. Settled(row[v], ordered[v], due[v], v \in paid)
      BY DEF Ordered
    <3>2. row'[v] = row[v] /\ ordered'[v] = ordered[v] /\ due'[v] = due[v] /\ (v \in paid' <=> v \in paid)
      BY <1>2, <2>2 DEF Keys
    <3> QED
      BY <3>1, <3>2 DEF Settled
  <2> QED
    BY <2>1, <2>2
<1>5. \A q \in Processes : st'[q].x \notin suspect' => Relies(q, st'[q], row'[st'[q].x])
  <2> SUFFICES ASSUME NEW q \in Processes, st'[q].x \notin suspect', q # p
               PROVE  Relies(q, st'[q], row'[st'[q].x])
    BY <1>1
  <2>1. st'[q] = st[q] /\ st[q].x \in Users
    BY <1>1 DEF Ordered, Types, Locals
  <2>2. CASE st[q].x = u
    BY <1>2, <2>1, <2>2
  <2>3. CASE st[q].x # u
    <3>1. Relies(q, st[q], row[st[q].x])
      BY <2>1 DEF Ordered
    <3> QED
      BY <1>2, <2>1, <2>3, <3>1
  <2> QED
    BY <2>2, <2>3
<1>6. \A t \in Tokens \ suspect' : Valid(t)' => tok'[t].remain = due'[t]
  BY AccountsAssumption DEF Ordered, Valid, Keys
<1>7. \A q \in Processes : st'[q].t \in Tokens \ suspect' => ReliesOnToken(st'[q], tok'[st'[q].t])
  BY <1>1 DEF Ordered
<1> QED
  BY <1>3, <1>4, <1>5, <1>6, <1>7 DEF Ordered

\* p takes a step that writes the row of the token t, or none, and no user's.
LEMMA TokenStep ==
    ASSUME Ordered, NEW p \in Processes, NEW m \in Locals, Shaped(m), Become(p, m),
           NEW t \in Tokens, NEW r \in TokenRows, tok' = [tok EXCEPT ![t] = r],
           due' \in [Keys -> Int], \A x \in Keys \ {t} : due'[x] = due[x],
           suspect \subseteq suspect', UNCHANGED <<row, ordered, paid>>,
           t \notin suspect' /\ r.there = "live" => r.remain = due'[t],
           t \notin suspect' => \A q \in Processes \ {p} : st[q].t = t => ReliesOnToken(st[q], r),
           m.x \notin suspect' => Relies(p, m, row[m.x]),
           m.t \in Tokens \ suspect' => ReliesOnToken(m, tok'[m.t])
    PROVE  Ordered'
<1>1. st' \in [Processes -> Locals] /\ st'[p] = m /\ \A q \in Processes \ {p} : st'[q] = st[q]
  BY DEF Ordered, Types, Become
<1>2. tok' \in [Tokens -> TokenRows] /\ tok'[t] = r /\ \A s \in Tokens \ {t} : tok'[s] = tok[s]
  BY DEF Ordered, Types
<1>3. Types'
  BY <1>1, <1>2 DEF Ordered, Types
<1>4. \A v \in Users \ suspect' : Settled(row'[v], ordered'[v], due'[v], v \in paid')
  <2> SUFFICES ASSUME NEW v \in Users \ suspect' PROVE Settled(row'[v], ordered'[v], due'[v], v \in paid')
    OBVIOUS
  <2>1. Settled(row[v], ordered[v], due[v], v \in paid)
    BY DEF Ordered
  <2>2. due'[v] = due[v]
    BY AccountsAssumption DEF Keys
  <2> QED
    BY <2>1, <2>2
<1>5. \A q \in Processes : st'[q].x \notin suspect' => Relies(q, st'[q], row'[st'[q].x])
  <2> SUFFICES ASSUME NEW q \in Processes, st'[q].x \notin suspect', q # p
               PROVE  Relies(q, st'[q], row'[st'[q].x])
    BY <1>1
  <2>1. Relies(q, st[q], row[st[q].x])
    BY <1>1 DEF Ordered
  <2> QED
    BY <1>1, <2>1
<1>6. \A s \in Tokens \ suspect' : Valid(s)' => tok'[s].remain = due'[s]
  BY <1>2 DEF Ordered, Valid, Keys
<1>7. \A q \in Processes : st'[q].t \in Tokens \ suspect' => ReliesOnToken(st'[q], tok'[st'[q].t])
  <2> SUFFICES ASSUME NEW q \in Processes, st'[q].t \in Tokens \ suspect', q # p
               PROVE  ReliesOnToken(st'[q], tok'[st'[q].t])
    BY <1>1
  <2>1. st'[q] = st[q] /\ ReliesOnToken(st[q], tok[st[q].t])
    BY <1>1 DEF Ordered
  <2>2. CASE st[q].t = t
    BY <1>2, <2>1, <2>2
  <2>3. CASE st[q].t # t
    BY <1>2, <2>1, <2>3
  <2> QED
    BY <2>2, <2>3
<1> QED
  BY <1>3, <1>4, <1>5, <1>6, <1>7 DEF Ordered

\* p goes somewhere, and writes nothing.
LEMMA Goes ==
    ASSUME Ordered, NEW p \in Processes, NEW m \in Locals, Shaped(m), Become(p, m), UNCHANGED Rows,
           m.x \notin suspect => Relies(p, m, row[m.x]),
           m.t \in Tokens \ suspect => ReliesOnToken(m, tok[m.t])
    PROVE  Ordered'
<1>1. st' \in [Processes -> Locals] /\ st'[p] = m /\ \A q \in Processes \ {p} : st'[q] = st[q]
  BY DEF Ordered, Types, Become
<1>2. row' = row /\ tok' = tok /\ due' = due /\ ordered' = ordered /\ paid' = paid /\ suspect' = suspect
  BY DEF Rows
<1>3. Types'
  BY <1>1, <1>2 DEF Ordered, Types
<1>4. \A q \in Processes : st'[q].x \notin suspect' => Relies(q, st'[q], row'[st'[q].x])
  BY <1>1, <1>2 DEF Ordered
<1>5. \A q \in Processes : st'[q].t \in Tokens \ suspect' => ReliesOnToken(st'[q], tok'[st'[q].t])
  BY <1>1, <1>2 DEF Ordered
<1>6. \A u \in Users \ suspect' : Settled(row'[u], ordered'[u], due'[u], u \in paid')
  BY <1>2 DEF Ordered
<1>7. \A t \in Tokens \ suspect' : Valid(t)' => tok'[t].remain = due'[t]
  BY <1>2 DEF Ordered, Valid
<1> QED
  BY <1>3, <1>4, <1>5, <1>6, <1>7 DEF Ordered

\* Nobody goes anywhere, and nothing but Redis is written.
LEMMA Rests ==
    ASSUME Ordered, UNCHANGED <<st, row, tok, due, ordered, paid, suspect>>
    PROVE  Ordered'
BY DEF Ordered, Types, Valid

\* p begins a job, or gives one up, where it relies on nothing.
LEMMA GoesCareless ==
    ASSUME Ordered, NEW p \in Processes, NEW m \in Locals, m.pc \in Careless, Shaped(m), Become(p, m), UNCHANGED Rows
    PROVE  Ordered'
BY CarelessFine, Goes

\* p has nothing more to do.
LEMMA GivesUp ==
    ASSUME Ordered, NEW p \in Processes, Become(p, Idle), UNCHANGED Rows
    PROVE  Ordered'
BY IdleTyped, CarelessFine, GoesCareless

\* p writes the row of u: whoever else has a copy of it out is noted, unless p
\* and he both check in or both transfer, and the others keep what they rely on.
LEMMA WritesBeside ==
    ASSUME Ordered, NEW p \in Processes, NEW u \in Users, Writes(p, u), u \notin suspect',
           NEW r, r.there # "none", r.there = "live" => Live(u)
    PROVE  \A q \in Processes \ {p} : st[q].x = u => Relies(q, st[q], r) \/ Alike(p, q)
<1> SUFFICES ASSUME NEW q \in Processes \ {p}, st[q].x = u, ~Alike(p, q) PROVE Relies(q, st[q], r)
  OBVIOUS
<1>1. u \notin suspect /\ q \notin Out(u)
  BY DEF Writes
<1>2. st[q].pc \in RowWindows => st[q].kind = "self"
  BY <1>1 DEF Out
<1>3. Shaped(st[q]) /\ Relies(q, st[q], row[u])
  BY <1>1 DEF Ordered, Types
<1>4. st[q].pc \notin Saves
  BY <1>2, <1>3 DEF Shaped, RowWindows, Saves
<1>5. st[q].pc \in Updates => st[q].kind # "whole"
  BY <1>2 DEF RowWindows, Updates
<1> QED
  BY <1>3, <1>4, <1>5 DEF Relies, Live, Saves

\* In other places p writes alone.
LEMMA WritesAlone ==
    ASSUME Ordered, NEW p \in Processes, st[p].pc \notin {"save", "transfer"},
           NEW u \in Users, Writes(p, u), u \notin suspect',
           NEW r, r.there # "none", r.there = "live" => Live(u)
    PROVE  \A q \in Processes \ {p} : st[q].x = u => Relies(q, st[q], r)
BY WritesBeside DEF Alike

\* A token that p writes alone.
LEMMA WritesTokenAlone ==
    ASSUME Ordered, NEW p \in Processes, st[p].pc \notin {"save", "transfer"},
           NEW t \in Tokens, Writes(p, t), t \notin suspect', NEW r
    PROVE  \A q \in Processes \ {p} : st[q].t = t => ReliesOnToken(st[q], r)
<1> SUFFICES ASSUME NEW q \in Processes \ {p}, st[q].t = t PROVE ReliesOnToken(st[q], r)
  OBVIOUS
<1>1. t \notin suspect /\ q \notin Out(t)
  BY DEF Writes, Alike
<1> QED
  BY <1>1 DEF Out, TokenWindows, ReliesOnToken

(***************************************************************************)
(* The user's dashboard.                                                   *)
(***************************************************************************)

\* A job that has the row in hand, or is to delete it, begins with it.
LEMMA JobsOrdered ==
    ASSUME Ordered, NEW p \in Processes,
           UpdateUserSetting(p) \/ UpdateSelf(p) \/ CheckIn(p) \/ TransferAffQuota(p) \/ DeleteSelf(p)
    PROVE  Ordered'
<1>0. UNCHANGED Rows
  BY DEF UpdateUserSetting, UpdateSelf, CheckIn, TransferAffQuota, DeleteSelf, Rows
<1>1. ASSUME NEW u \in Self, NEW m, Become(p, m),
             \/ m = Update(u, "whole", row[u])
             \/ m = Update(u, "self", ZeroUser)
             \/ \E pc \in {"save", "transfer"} : m = [Idle EXCEPT !.pc = pc, !.x = u, !.copy = row[u]]
             \/ m = [Idle EXCEPT !.pc = "delete", !.x = u]
      PROVE  Ordered'
  <2>1. u \in Users /\ row[u] \in UserRows /\ row[u] \in Structs /\ row[u].there = "live" /\ ZeroUser \in Structs
    BY RowsAreStructs DEF Self, Live, Ordered, Types
  <2>2. m \in Locals /\ m.x = u /\ m.t = None
    BY <1>1, <2>1, IdleTyped, ZenonT(40) DEF Update, Locals, Idle, Places, Kinds
  <2>3. /\ m.pc \in {"reread", "save", "transfer", "delete"} /\ m.kind \in {"", "self", "whole"}
        /\ m.pc \in {"save", "transfer"} => m.kind = "" /\ m.copy = row[u]
        /\ m.kind = "whole" => m.copy = row[u]
    BY <1>1 DEF Update, Idle
  <2>4. Shaped(m)
    BY <2>1, <2>3 DEF Shaped, Saves, TokenPlaces
  <2>5. Relies(p, m, row[u])
    BY <2>1, <2>3 DEF Relies, Same, Untouched
  <2>6. m.t \notin Tokens
    BY <2>2, AccountsAssumption
  <2> QED
    BY <1>0, <1>1, <2>2, <2>4, <2>5, <2>6, Goes
<1>2. \E u \in Self : \E m :
        /\ Become(p, m)
        /\ \/ m = Update(u, "whole", row[u])
           \/ m = Update(u, "self", ZeroUser)
           \/ \E pc \in {"save", "transfer"} : m = [Idle EXCEPT !.pc = pc, !.x = u, !.copy = row[u]]
           \/ m = [Idle EXCEPT !.pc = "delete", !.x = u]
  BY DEF UpdateUserSetting, UpdateSelf, CheckIn, TransferAffQuota, DeleteSelf
<1> QED
  BY <1>1, <1>2

\* What a check-in makes of a row.
LEMMA PaidColumns ==
    ASSUME NEW c \in UserRows
    PROVE  /\ PaidOn(c) \in UserRows /\ PaidOn(c).there = c.there /\ PaidOn(c).role = c.role
           /\ PaidOn(c).status = c.status /\ PaidOn(c).checked = TRUE
           /\ PaidOn(c).quota = c.quota + Reward /\ PaidOn(c).aff = c.aff
           /\ c.quota \in Int /\ c.aff \in Int /\ Reward \in Int
<1>1. Reward \in Int
  BY AccountsAssumption
<1>2. c.quota \in Int /\ c.aff \in Int
  BY DEF UserRows
<1>3. PaidOn(c) \in UserRows
  <2>1. \A n \in Int : [c EXCEPT !.checked = TRUE, !.quota = n] \in UserRows
    BY DEF UserRows
  <2>2. PaidOn(c) = [c EXCEPT !.checked = TRUE, !.quota = c.quota + Reward]
    BY DEF PaidOn, UserRows
  <2>3. PICK n \in Int : n = c.quota + Reward
    BY <1>1, <1>2
  <2>4. PaidOn(c) = [c EXCEPT !.checked = TRUE, !.quota = n]
    BY <2>2, <2>3
  <2> QED
    BY <2>1, <2>4, Zenon
<1>4. /\ PaidOn(c).there = c.there /\ PaidOn(c).role = c.role /\ PaidOn(c).status = c.status
      /\ PaidOn(c).checked = TRUE /\ PaidOn(c).quota = c.quota + Reward /\ PaidOn(c).aff = c.aff
  BY DEF PaidOn, UserRows
<1> QED
  BY <1>1, <1>2, <1>3, <1>4

\* A copy is saved by a process that had it in hand, and is done with it: the
\* row is settled, and who does the same keeps what he relies on.
LEMMA SaveStep ==
    ASSUME Ordered, NEW p \in Processes, st[p].pc \in Saves, Become(p, Idle),
           NEW r \in UserRows, Save(st[p].x, r), r.there = "live", Writes(p, st[p].x), UNCHANGED <<ordered, tok>>,
           due' \in [Keys -> Int], \A x \in Keys \ {st[p].x} : due'[x] = due[x],
           \A v \in Users \ {st[p].x} : v \in paid' <=> v \in paid,
           st[p].x \notin suspect' => Settled(r, ordered[st[p].x], due'[st[p].x], st[p].x \in paid'),
           st[p].x \notin suspect' =>
             \A q \in Processes \ {p} : st[q].x = st[p].x /\ Alike(p, q) => Relies(q, st[q], r)
    PROVE  Ordered'
<1> DEFINE u == st[p].x
<1>1. u \in Users /\ Types
  BY DEF Ordered, Types, Locals
<1>2. suspect \subseteq suspect' /\ row' = [row EXCEPT ![u] = r]
  BY DEF Writes, Save
<1>3. u \notin suspect' => Live(u)
  <2> SUFFICES ASSUME u \notin suspect' PROVE Live(u)
    OBVIOUS
  <2>1. Relies(p, st[p], row[u]) /\ Shaped(st[p])
    BY <1>2 DEF Ordered, Types
  <2>2. st[p].copy.there = "live" /\ PaidOn(st[p].copy).there = st[p].copy.there
    BY <2>1, PaidColumns DEF Shaped
  <2> QED
    BY <2>1, <2>2 DEF Relies, Saves, Same, Live
<1>4. u \notin suspect' => \A q \in Processes \ {p} : st[q].x = u => Relies(q, st[q], r)
  BY <1>1, <1>3, WritesBeside
<1>5. ordered' \in [Users -> UserRows] /\ \A v \in Users \ {u} : ordered'[v] = ordered[v]
  BY <1>1 DEF Types
<1>6. u \notin suspect' => Settled(r, ordered'[u], due'[u], u \in paid')
  OBVIOUS
<1>7. \A x : Relies(p, Idle, x) /\ ReliesOnToken(Idle, x)
  BY IdleTyped, CarelessFine
<1>8. Shaped(Idle) /\ Idle \in Locals
  BY IdleTyped, CarelessFine
<1> QED
  BY <1>1, <1>2, <1>4, <1>5, <1>6, <1>7, <1>8, RowStep

\* What a check-in makes of the row of which c was read, the first or another.
LEMMA CheckInOrdered ==
    ASSUME Ordered, NEW p \in Processes, PayCheckIn(p)
    PROVE  Ordered'
<1> DEFINE u == st[p].x
           c == st[p].copy
           r == PaidOn(c)
<1>1. st[p].pc = "save" /\ Become(p, Idle)
  BY DEF PayCheckIn, At
<1>2. u \in Users /\ Types /\ Shaped(st[p]) /\ Reward \in Nat
  BY AccountsAssumption DEF Ordered, Types, Locals
<1>3. c \in UserRows /\ c.there = "live"
  BY <1>1, <1>2 DEF Shaped, Saves, TokenPlaces
<1>4. CASE c.checked
  <2>1. UNCHANGED Rows
    BY <1>4 DEF PayCheckIn, Rows
  <2> QED
    BY <1>1, <2>1, GivesUp
<1>5. CASE ~c.checked
  <2>1. /\ Save(u, r) /\ Writes(p, u) /\ UNCHANGED <<tok, ordered>>
        /\ due' = IF u \in paid THEN due ELSE [due EXCEPT ![u] = @ + Reward]
        /\ paid' = paid \cup {u}
    BY <1>5 DEF PayCheckIn, PaidOn
  <2>2. r \in UserRows /\ r.there = "live" /\ r.checked = TRUE /\ r.role = c.role /\ r.status = c.status
        /\ r.quota = c.quota + Reward /\ r.aff = c.aff
    BY <1>3, PaidColumns
  <2>3. /\ due' \in [Keys -> Int] /\ \A x \in Keys \ {u} : due'[x] = due[x]
        /\ due'[u] = IF u \in paid THEN due[u] ELSE due[u] + Reward
    BY <1>2, <2>1 DEF Types, Keys
  <2>4. ASSUME u \notin suspect'
        PROVE  /\ Settled(r, ordered[u], due'[u], u \in paid')
               /\ \A q \in Processes \ {p} : st[q].x = u /\ Alike(p, q) => Relies(q, st[q], r)
    <3>1. Settled(row[u], ordered[u], due[u], u \in paid) /\ Relies(p, st[p], row[u]) /\ row[u] \in UserRows
      BY <1>2, <2>1, <2>4 DEF Ordered, Types, Writes
    <3>2. c.quota \in Int /\ c.aff \in Int /\ row[u].quota \in Int /\ row[u].aff \in Int /\ due[u] \in Int
      BY <1>2, <1>3, <3>1 DEF UserRows, Types, Keys
    <3>3. Same(c, row[u]) \/ Same(r, row[u])
      BY <1>1, <3>1 DEF Relies
    <3>4. Settled(r, ordered[u], due'[u], u \in paid')
      <4>1. row[u].there = "live" /\ u \in paid'
        BY <1>3, <2>1, <2>2, <3>3 DEF Same
      <4>2. CASE Same(c, row[u])
        BY <1>2, <1>5, <2>2, <2>3, <3>1, <3>2, <4>1, <4>2 DEF Settled, Same
      <4>3. CASE Same(r, row[u])
        BY <1>2, <2>2, <2>3, <3>1, <3>2, <4>1, <4>3 DEF Settled, Same
      <4> QED
        BY <3>3, <4>2, <4>3
    <3>5. ASSUME NEW q \in Processes \ {p}, st[q].x = u, Alike(p, q)
          PROVE  Relies(q, st[q], r)
      <4> DEFINE d == st[q].copy
      <4>1. st[q].pc = "save" /\ Relies(q, st[q], row[u]) /\ Shaped(st[q])
        BY <1>1, <2>1, <2>4, <3>5 DEF Alike, Ordered, Types, Writes
      <4>2. d \in UserRows
        BY <4>1 DEF Shaped, Saves, TokenPlaces
      <4>3. PaidOn(d).there = d.there /\ PaidOn(d).role = d.role /\ PaidOn(d).status = d.status
            /\ PaidOn(d).checked = TRUE /\ PaidOn(d).quota = d.quota + Reward /\ PaidOn(d).aff = d.aff
            /\ d.quota \in Int /\ d.aff \in Int
        BY <4>2, PaidColumns
      <4>4. Same(d, row[u]) \/ (~d.checked /\ Same(PaidOn(d), row[u]))
        BY <4>1 DEF Relies
      <4>5. Same(d, r) \/ (~d.checked /\ Same(PaidOn(d), r))
        <5>1. CASE Same(c, row[u])
          <6>1. row[u].checked = c.checked /\ ~c.checked
            BY <1>5, <5>1 DEF Same
          <6>2. Same(d, row[u])
            BY <4>3, <4>4, <6>1 DEF Same
          <6>3. ~d.checked
            BY <6>1, <6>2 DEF Same
          <6>4. Same(PaidOn(d), r)
            <7>1. PaidOn(d).there = r.there /\ PaidOn(d).role = r.role /\ PaidOn(d).status = r.status
              BY <1>3, <2>2, <4>3, <5>1, <6>2, Zenon DEF Same
            <7>2. PaidOn(d).quota + PaidOn(d).aff = r.quota + r.aff
              <8>1. d.quota + d.aff = c.quota + c.aff
                BY <5>1, <6>2, Zenon DEF Same
              <8>2. r.quota = c.quota + Reward /\ r.aff = c.aff
                BY <2>2
              <8> QED
                BY <1>2, <3>2, <4>3, <8>1, <8>2
            <7> QED
              BY <2>2, <4>3, <7>1, <7>2 DEF Same
          <6> QED
            BY <6>3, <6>4
        <5>2. CASE Same(r, row[u])
          BY <1>2, <2>2, <3>2, <4>3, <4>4, <5>2 DEF Same
        <5> QED
          BY <3>3, <5>1, <5>2
      <4> QED
        BY <2>2, <4>1, <4>5 DEF Relies, Updates
    <3> QED
      BY <3>4, <3>5
  <2>5. \A v \in Users \ {u} : v \in paid' <=> v \in paid
    BY <2>1
  <2>6. st[p].pc \in Saves
    BY <1>1 DEF Saves
  <2> QED
    BY <1>1, <2>1, <2>2, <2>3, <2>4, <2>5, <2>6, SaveStep
<1> QED
  BY <1>4, <1>5

\* A transfer moves quota between two columns of the copy, and may write
\* nothing.
LEMMA TransferOrdered ==
    ASSUME Ordered, NEW p \in Processes, Transfer(p)
    PROVE  Ordered'
<1> DEFINE u == st[p].x
           c == st[p].copy
<1>1. st[p].pc = "transfer" /\ st[p].pc \in Saves /\ Become(p, Idle) /\ UNCHANGED <<tok, due, ordered, paid>>
  BY DEF Transfer, At, Saves
<1>2. u \in Users /\ Types /\ Shaped(st[p])
  BY DEF Ordered, Types, Locals
<1>3. c \in UserRows /\ c.there = "live" /\ c.quota \in Int /\ c.aff \in Nat
  BY <1>1, <1>2 DEF Shaped, UserRows
<1>4. CASE UNCHANGED <<row, suspect>>
  BY <1>1, <1>4, GivesUp DEF Rows
<1>5. ASSUME NEW q \in 1..c.aff, Save(u, [c EXCEPT !.aff = @ - q, !.quota = @ + q]), Writes(p, u)
      PROVE  Ordered'
  <2>1. PICK a \in Nat, n \in Int : a = c.aff - q /\ n = c.quota + q
    BY <1>3
  <2>2. PICK r \in UserRows : r = [c EXCEPT !.aff = a, !.quota = n]
    BY <1>3 DEF UserRows
  <2>3. Save(u, r)
    BY <1>3, <1>5, <2>1, <2>2 DEF UserRows
  <2>4. r.there = "live" /\ r.role = c.role /\ r.status = c.status /\ r.checked = c.checked
        /\ r.quota = n /\ r.aff = a
    BY <1>3, <2>2 DEF UserRows
  <2>5. ASSUME u \notin suspect'
        PROVE  /\ Settled(r, ordered[u], due'[u], u \in paid')
               /\ \A o \in Processes \ {p} : st[o].x = u /\ Alike(p, o) => Relies(o, st[o], r)
    <3>1. Settled(row[u], ordered[u], due[u], u \in paid) /\ Relies(p, st[p], row[u])
      BY <1>2, <1>5, <2>5 DEF Ordered, Writes
    <3>2. Same(c, row[u])
      BY <1>1, <3>1 DEF Relies
    <3>3. r.quota + r.aff = c.quota + c.aff
      BY <1>3, <2>1, <2>4
    <3>4. Settled(r, ordered[u], due'[u], u \in paid')
      BY <1>1, <1>3, <2>4, <3>1, <3>2, <3>3 DEF Settled, Same
    <3>5. ASSUME NEW o \in Processes \ {p}, st[o].x = u, Alike(p, o)
          PROVE  Relies(o, st[o], r)
      <4>1. st[o].pc = "transfer" /\ Relies(o, st[o], row[u])
        BY <1>1, <1>5, <2>5, <3>5 DEF Alike, Ordered, Writes
      <4>2. Same(st[o].copy, row[u])
        BY <4>1 DEF Relies
      <4>3. Same(st[o].copy, r)
        <5>1. r.quota + r.aff = row[u].quota + row[u].aff
          BY <3>2, <3>3 DEF Same
        <5>2. /\ r.there = row[u].there /\ r.role = row[u].role /\ r.status = row[u].status
              /\ r.checked = row[u].checked
          BY <1>3, <2>4, <3>2 DEF Same
        <5> QED
          BY <4>2, <5>1, <5>2 DEF Same
      <4> QED
        BY <2>4, <4>1, <4>3 DEF Relies, Updates
    <3> QED
      BY <3>4, <3>5
  <2>6. due' \in [Keys -> Int] /\ \A x \in Keys \ {u} : due'[x] = due[x]
    BY <1>1, <1>2 DEF Types
  <2>7. \A v \in Users \ {u} : v \in paid' <=> v \in paid
    BY <1>1
  <2>8. UNCHANGED <<ordered, tok>>
    BY <1>1
  <2> QED
    BY <1>1, <1>5, <2>3, <2>4, <2>5, <2>6, <2>7, <2>8, SaveStep
<1> QED
  BY <1>4, <1>5 DEF Transfer

\* The inviter is saved with the reward.
LEMMA InviteOrdered ==
    ASSUME Ordered, InviteUser
    PROVE  Ordered'
<1> DEFINE u == st["guest"].x
           c == st["guest"].copy
<1>1. /\ "guest" \in Processes /\ st["guest"].pc = "invite" /\ st["guest"].pc \in Saves
      /\ Become("guest", Idle) /\ UNCHANGED <<tok, ordered, paid>>
      /\ due' = [due EXCEPT ![u] = @ + Inviter] /\ Writes("guest", u)
      /\ Save(u, [c EXCEPT !.aff = @ + Inviter])
  BY DEF InviteUser, At, Saves, Processes
<1>2. u \in Users /\ Types /\ Shaped(st["guest"]) /\ Inviter \in Nat
  BY <1>1, AccountsAssumption DEF Ordered, Types, Locals
<1>3. c \in UserRows /\ c.there = "live" /\ c.quota \in Int /\ c.aff \in Nat
  BY <1>1, <1>2 DEF Shaped, UserRows
<1>4. PICK a \in Nat : a = c.aff + Inviter
  BY <1>2, <1>3
<1>5. PICK r \in UserRows : r = [c EXCEPT !.aff = a]
  BY <1>3 DEF UserRows
<1>6. Save(u, r)
  BY <1>1, <1>4, <1>5
<1>7. r.there = "live" /\ r.role = c.role /\ r.status = c.status /\ r.checked = c.checked
      /\ r.quota = c.quota /\ r.aff = a
  BY <1>3, <1>5 DEF UserRows
<1>8. /\ due' \in [Keys -> Int] /\ \A x \in Keys \ {u} : due'[x] = due[x]
      /\ due[u] \in Int /\ due'[u] = due[u] + Inviter
  BY <1>1, <1>2 DEF Types, Keys
<1>9. ASSUME u \notin suspect'
      PROVE  Settled(r, ordered[u], due'[u], u \in paid')
  <2>1. Settled(row[u], ordered[u], due[u], u \in paid) /\ Relies("guest", st["guest"], row[u])
    BY <1>1, <1>2, <1>9 DEF Ordered, Writes
  <2>2. Same(c, row[u])
    BY <1>1, <2>1 DEF Relies
  <2>3. row[u].there = "live" /\ row[u].quota + row[u].aff = due[u] /\ c.quota + c.aff = due[u]
    BY <1>3, <2>1, <2>2 DEF Settled, Same
  <2>4. r.quota + r.aff = due'[u]
    BY <1>2, <1>3, <1>4, <1>7, <1>8, <2>3
  <2> QED
    BY <1>1, <1>3, <1>7, <2>1, <2>2, <2>4 DEF Settled, Same
<1>10. \A o \in Processes \ {"guest"} : ~Alike("guest", o)
  BY <1>1 DEF Alike
<1>11. \A v \in Users \ {u} : v \in paid' <=> v \in paid
  BY <1>1
<1> QED
  BY <1>1, <1>6, <1>7, <1>8, <1>9, <1>10, <1>11, SaveStep

(***************************************************************************)
(* User.Update and User.Edit, and deletions.                               *)
(***************************************************************************)

\* p writes a row as nobody else does, and goes on to something else.
LEMMA RowWritten ==
    ASSUME Ordered, NEW p \in Processes, st[p].pc \notin {"save", "transfer"},
           NEW m \in Locals, Shaped(m), Become(p, m),
           NEW u \in Users, NEW r \in UserRows, row' = [row EXCEPT ![u] = r], Writes(p, u),
           r.there # "none", r.there = "live" => Live(u),
           ordered' \in [Users -> UserRows], \A v \in Users \ {u} : ordered'[v] = ordered[v],
           due' \in [Keys -> Int], \A x \in Keys \ {u} : due'[x] = due[x], UNCHANGED <<tok, paid>>,
           u \notin suspect' => Settled(r, ordered'[u], due'[u], u \in paid),
           m.x \notin suspect' => Relies(p, m, row'[m.x]),
           m.t \in Tokens => ReliesOnToken(m, tok[m.t])
    PROVE  Ordered'
<1>1. suspect \subseteq suspect'
  BY DEF Writes
<1>2. u \notin suspect' => \A q \in Processes \ {p} : st[q].x = u => Relies(q, st[q], r)
  BY WritesAlone
<1>3. u \notin suspect' => Settled(r, ordered'[u], due'[u], u \in paid')
  OBVIOUS
<1>4. \A v \in Users \ {u} : v \in paid' <=> v \in paid
  OBVIOUS
<1>5. m.t \in Tokens \ suspect' => ReliesOnToken(m, tok[m.t])
  OBVIOUS
<1>6. UNCHANGED tok
  OBVIOUS
<1> QED
  BY <1>1, <1>2, <1>3, <1>4, <1>5, <1>6, RowStep, ZenonT(40)

\* The row is read again, and its copy for Redis is nobody's concern.
LEMMA RereadOrdered ==
    ASSUME Ordered, NEW p \in Processes, Reread(p)
    PROVE  Ordered'
<1>1. st[p] \in Locals /\ Shaped(st[p]) /\ row \in [Users -> UserRows] /\ st[p].x \in Users
  BY DEF Ordered, Types, Locals
<1>2. PICK seen \in Structs : Become(p, [st[p] EXCEPT !.pc = "write", !.seen = seen])
  <2>1. row[st[p].x] \in Structs /\ st[p].copy \in Structs
    BY <1>1, RowsAreStructs DEF Locals
  <2> QED
    BY <2>1 DEF Reread
<1>3. PICK m : m = [st[p] EXCEPT !.pc = "write", !.seen = seen]
  OBVIOUS
<1>4. /\ m \in Locals /\ m.pc = "write" /\ m.x = st[p].x /\ m.kind = st[p].kind /\ m.copy = st[p].copy
  BY <1>1, <1>3 DEF Locals, Places
<1>5. Shaped(m) /\ \A r : ReliesOnToken(m, r)
  BY <1>4 DEF Shaped, Saves, TokenPlaces, ReliesOnToken
<1>6. st[p].pc = "reread" /\ UNCHANGED Rows
  BY DEF Reread, At
<1>7. \A r : Relies(p, st[p], r) => Relies(p, m, r)
  BY <1>4, <1>6 DEF Relies, RowWindows, Updates
<1>8. m.x \notin suspect => Relies(p, m, row[m.x])
  BY <1>4, <1>7 DEF Ordered
<1> QED
  BY <1>2, <1>3, <1>4, <1>5, <1>6, <1>8, Goes

\* What an Update of the whole row, and an Edit, make of it.
LEMMA OverColumns ==
    ASSUME NEW r \in UserRows, NEW l \in Locals
    PROVE  /\ Over(r, l) \in UserRows /\ Over(r, l).there = r.there
           /\ l.kind = "whole" =>
                /\ Over(r, l).role = (IF l.copy.role = 0 THEN r.role ELSE l.copy.role)
                /\ Over(r, l).status = (IF l.copy.status = 0 THEN r.status ELSE l.copy.status)
                /\ Over(r, l).checked = (r.checked \/ l.copy.checked)
                /\ Over(r, l).quota = (IF l.copy.quota = 0 THEN r.quota ELSE l.copy.quota)
                /\ Over(r, l).aff = (IF l.copy.aff = 0 THEN r.aff ELSE l.copy.aff)
           /\ l.kind = "edit" => Over(r, l) = [r EXCEPT !.quota = l.copy.quota]
           /\ l.kind \notin {"whole", "edit"} => Over(r, l) = r
<1>1. l.copy \in Structs
  BY DEF Locals
<1>2. CASE l.kind = "whole"
  <2>1. PICK a \in {Common, Admin, Super}, b \in {Enabled, Disabled}, k \in BOOLEAN, n \in Int, f \in Nat :
          /\ a = (IF l.copy.role = 0 THEN r.role ELSE l.copy.role)
          /\ b = (IF l.copy.status = 0 THEN r.status ELSE l.copy.status)
          /\ k = (r.checked \/ l.copy.checked)
          /\ n = (IF l.copy.quota = 0 THEN r.quota ELSE l.copy.quota)
          /\ f = (IF l.copy.aff = 0 THEN r.aff ELSE l.copy.aff)
    BY <1>1 DEF Structs, UserRows
  <2>2. Over(r, l) = [r EXCEPT !.role = IF l.copy.role = 0 THEN @ ELSE l.copy.role,
                               !.status = IF l.copy.status = 0 THEN @ ELSE l.copy.status,
                               !.checked = @ \/ l.copy.checked,
                               !.quota = IF l.copy.quota = 0 THEN @ ELSE l.copy.quota,
                               !.aff = IF l.copy.aff = 0 THEN @ ELSE l.copy.aff]
    BY <1>2, Zenon DEF Over
  <2>3. Over(r, l) = [r EXCEPT !.role = a, !.status = b, !.checked = k, !.quota = n, !.aff = f]
    BY <2>1, <2>2 DEF UserRows
  <2>4. [r EXCEPT !.role = a, !.status = b, !.checked = k, !.quota = n, !.aff = f] \in UserRows
    BY DEF UserRows
  <2>5. /\ Over(r, l).there = r.there /\ Over(r, l).role = a /\ Over(r, l).status = b
        /\ Over(r, l).checked = k /\ Over(r, l).quota = n /\ Over(r, l).aff = f
    BY <2>3 DEF UserRows
  <2> QED
    BY <1>2, <2>1, <2>3, <2>4, <2>5
<1>3. CASE l.kind = "edit"
  <2>1. Over(r, l) = [r EXCEPT !.quota = l.copy.quota]
    BY <1>3, Zenon DEF Over
  <2>2. Over(r, l) \in UserRows /\ Over(r, l).there = r.there
    BY <1>1, <2>1 DEF Structs, UserRows
  <2> QED
    BY <1>3, <2>1, <2>2
<1>4. CASE l.kind \notin {"whole", "edit"}
  BY <1>4 DEF Over
<1> QED
  BY <1>2, <1>3, <1>4

\* The row is written from the copy, by the administrator or by the user; the
\* administrator's role and status, and the quota of a form, are the new order.
LEMMA WriteOrdered ==
    ASSUME Ordered, NEW p \in Processes, Write(p)
    PROVE  Ordered'
<1> DEFINE l == st[p]
           u == st[p].x
           r == Over(row[u], st[p])
<1>1. l \in Locals /\ u \in Users /\ Types /\ l.pc = "write" /\ UNCHANGED <<tok, paid>>
  BY DEF Write, At, Ordered, Types, Locals
<1>2. PICK m \in Locals : m.pc \in Careless /\ m.pc \in {"idle", "cache"} /\ Become(p, m)
  <2>1. [l EXCEPT !.pc = "cache"] \in Locals /\ [l EXCEPT !.pc = "cache"].pc = "cache" /\ "cache" \in Careless
    BY <1>1 DEF Locals, Places, Careless
  <2> QED
    BY <2>1, IdleTyped DEF Write, Goto
<1>3. Shaped(m) /\ \A x : Relies(p, m, x) /\ ReliesOnToken(m, x)
  BY <1>2, CarelessFine
<1>4. CASE ~(Live(u) /\ l.kind # "self")
  BY <1>1, <1>2, <1>3, <1>4, GoesCareless DEF Write, Rows
<1>5. CASE Live(u) /\ l.kind # "self"
  <2>1. /\ row' = [row EXCEPT ![u] = r]
        /\ ordered' = IF p = "admin" /\ l.kind = "whole"
                      THEN [ordered EXCEPT ![u].role = row'[u].role, ![u].status = row'[u].status]
                      ELSE ordered
        /\ due' = IF l.kind = "edit" THEN [due EXCEPT ![u] = l.copy.quota + row[u].aff] ELSE due
        /\ Writes(p, u)
    BY <1>5 DEF Write
  <2>2. row[u] \in UserRows /\ l.copy \in Structs /\ row[u].there = "live"
    BY <1>1, <1>5 DEF Types, Locals, Live
  <2>3. r \in UserRows /\ r.there = "live"
    BY <1>1, <2>2, OverColumns
  <2>4. /\ due' \in [Keys -> Int] /\ \A x \in Keys \ {u} : due'[x] = due[x]
        /\ due'[u] = IF l.kind = "edit" THEN l.copy.quota + row[u].aff ELSE due[u]
    <3>1. l.copy.quota + row[u].aff \in Int
      BY <2>2 DEF Structs, UserRows
    <3> QED
      BY <1>1, <2>1, <3>1 DEF Types, Keys
  <2>5. /\ ordered' \in [Users -> UserRows] /\ \A v \in Users \ {u} : ordered'[v] = ordered[v]
        /\ ordered'[u].there = ordered[u].there
        /\ IF p = "admin" /\ l.kind = "whole"
           THEN ordered'[u].role = r.role /\ ordered'[u].status = r.status
           ELSE ordered'[u] = ordered[u]
    <3>1. row'[u] = r
      BY <1>1, <2>1 DEF Types
    <3>2. PICK a \in {Common, Admin, Super}, b \in {Enabled, Disabled} : a = r.role /\ b = r.status
      BY <2>3 DEF UserRows
    <3>3. PICK o \in UserRows : o = ordered[u]
      BY <1>1 DEF Types
    <3>4. [o EXCEPT !.role = a, !.status = b] \in UserRows
      BY DEF UserRows
    <3>5. [o EXCEPT !.role = a, !.status = b].there = o.there /\ [o EXCEPT !.role = a, !.status = b].role = a
          /\ [o EXCEPT !.role = a, !.status = b].status = b
      BY DEF UserRows
    <3>6. CASE p = "admin" /\ l.kind = "whole"
      <4>1. PICK w \in UserRows : w = [o EXCEPT !.role = a, !.status = b]
        BY <3>4
      <4>2. ordered' = [ordered EXCEPT ![u] = w]
        BY <1>1, <2>1, <3>1, <3>2, <3>3, <3>6, <4>1 DEF Types
      <4> QED
        BY <1>1, <3>2, <3>3, <3>5, <3>6, <4>1, <4>2 DEF Types
    <3>7. CASE ~(p = "admin" /\ l.kind = "whole")
      BY <1>1, <2>1, <3>7 DEF Types
    <3> QED
      BY <3>6, <3>7
  <2>6. ASSUME u \notin suspect'
        PROVE  Settled(r, ordered'[u], due'[u], u \in paid)
    <3>1. Settled(row[u], ordered[u], due[u], u \in paid) /\ Relies(p, l, row[u])
      BY <1>1, <2>1, <2>6 DEF Ordered, Writes
    <3>2. /\ ordered[u].there = "live" /\ row[u].quota + row[u].aff = due[u] /\ row[u].role = ordered[u].role
          /\ row[u].status = ordered[u].status /\ (u \in paid <=> row[u].checked)
      BY <2>2, <3>1 DEF Settled
    <3>3. CASE l.kind = "whole"
      <4>1. Untouched(p, l.copy, row[u])
        BY <1>1, <2>2, <3>1, <3>3 DEF Relies, Updates
      <4>2. r.quota = row[u].quota /\ r.aff = row[u].aff /\ (r.checked <=> row[u].checked)
            /\ (p # "admin" => r.role = row[u].role /\ r.status = row[u].status)
        <5>1. /\ r.role = (IF l.copy.role = 0 THEN row[u].role ELSE l.copy.role)
              /\ r.status = (IF l.copy.status = 0 THEN row[u].status ELSE l.copy.status)
              /\ r.checked = (row[u].checked \/ l.copy.checked)
              /\ r.quota = (IF l.copy.quota = 0 THEN row[u].quota ELSE l.copy.quota)
              /\ r.aff = (IF l.copy.aff = 0 THEN row[u].aff ELSE l.copy.aff)
          BY <1>1, <2>2, <3>3, OverColumns
        <5> QED
          BY <4>1, <5>1 DEF Untouched
      <4>3. r.role = ordered'[u].role /\ r.status = ordered'[u].status
        BY <2>5, <3>2, <3>3, <4>2
      <4>4. due'[u] = due[u]
        BY <2>4, <3>3
      <4> QED
        BY <2>3, <2>5, <3>2, <4>2, <4>3, <4>4 DEF Settled
    <3>4. CASE l.kind = "edit"
      <4>1. r = [row[u] EXCEPT !.quota = l.copy.quota]
        BY <1>1, <2>2, <3>4, OverColumns
      <4>2. /\ r.quota = l.copy.quota /\ r.aff = row[u].aff /\ r.checked = row[u].checked
            /\ r.role = row[u].role /\ r.status = row[u].status
        BY <2>2, <4>1 DEF UserRows
      <4> QED
        BY <2>3, <2>4, <2>5, <3>2, <3>4, <4>2 DEF Settled
    <3>5. CASE l.kind \notin {"whole", "edit"}
      <4>1. r = row[u]
        BY <1>1, <2>2, <3>5, OverColumns
      <4> QED
        BY <2>3, <2>4, <2>5, <3>1, <3>5, <4>1 DEF Settled
    <3> QED
      BY <3>3, <3>4, <3>5
  <2>7. m.x \notin suspect' => Relies(p, m, row'[m.x])
    BY <1>3
  <2>8. st[p].pc \notin {"save", "transfer"}
    BY <1>1
  <2>9. UNCHANGED <<tok, paid>> /\ (m.t \in Tokens => ReliesOnToken(m, tok[m.t]))
    BY <1>1, <1>3
  <2> HIDE DEF r
  <2> QED
    BY <1>1, <1>2, <1>3, <1>5, <2>1, <2>3, <2>4, <2>5, <2>6, <2>7, <2>8, <2>9, RowWritten
<1> QED
  BY <1>4, <1>5

\* The copy goes to Redis.
LEMMA CacheOrdered ==
    ASSUME Ordered, NEW p \in Processes, UpdateUserCache(p)
    PROVE  Ordered'
BY GivesUp DEF UpdateUserCache

\* A user is deleted, if he is still there, and is not there afterwards.
LEMMA DeleteOrdered ==
    ASSUME Ordered, NEW p \in Processes, Delete(p)
    PROVE  Ordered'
<1> DEFINE u == st[p].x
<1>1. st[p] \in Locals /\ u \in Users /\ Types /\ st[p].pc = "delete" /\ UNCHANGED <<tok, due, paid>>
  BY DEF Delete, At, Ordered, Types, Locals
<1>2. PICK m \in Locals : m.pc = "forget" /\ m.x = u /\ Become(p, m)
  <2>1. /\ [st[p] EXCEPT !.pc = "forget"] \in Locals /\ [st[p] EXCEPT !.pc = "forget"].pc = "forget"
        /\ [st[p] EXCEPT !.pc = "forget"].x = u
    BY <1>1 DEF Locals, Places
  <2> QED
    BY <2>1 DEF Delete, Goto
<1>3. Shaped(m) /\ \A x : ReliesOnToken(m, x)
  BY <1>2 DEF Shaped, Saves, TokenPlaces, ReliesOnToken
<1>4. \A x : x.there \notin {"live", "none"} => Relies(p, m, x)
  BY <1>2 DEF Relies, Updates
<1>5. CASE ~Live(u)
  <2>1. UNCHANGED Rows
    BY <1>1, <1>5 DEF Delete, Rows
  <2>2. u \notin suspect => row[u].there # "none"
    BY <1>1 DEF Ordered, Relies, Deletes
  <2>3. m.x \notin suspect => Relies(p, m, row[m.x])
    BY <1>2, <1>4, <1>5, <2>2 DEF Live
  <2> QED
    BY <1>2, <1>3, <2>1, <2>3, Goes
<1>6. CASE Live(u)
  <2>0. \A r \in UserRows : [r EXCEPT !.there = "deleted"] \in UserRows
    BY DEF UserRows
  <2>1. PICK r \in UserRows : r = [row[u] EXCEPT !.there = "deleted"]
    BY <1>1, <2>0 DEF Types
  <2>2. PICK o \in UserRows : o = [ordered[u] EXCEPT !.there = "deleted"]
    BY <1>1 DEF Types, UserRows
  <2>3. row' = [row EXCEPT ![u] = r] /\ ordered' = [ordered EXCEPT ![u] = o] /\ Writes(p, u)
    BY <1>6, <2>1, <2>2 DEF Delete
  <2>4. r.there = "deleted" /\ o.there = "deleted"
    BY <1>1, <2>1, <2>2 DEF Types, UserRows
  <2>5. /\ ordered' \in [Users -> UserRows] /\ \A v \in Users \ {u} : ordered'[v] = ordered[v]
        /\ ordered'[u] = o /\ row'[u] = r
        /\ due' \in [Keys -> Int] /\ \A x \in Keys \ {u} : due'[x] = due[x]
    BY <1>1, <2>3 DEF Types
  <2>6. Settled(r, ordered'[u], due'[u], u \in paid)
    BY <2>4, <2>5 DEF Settled
  <2>7. m.x \notin suspect' => Relies(p, m, row'[m.x])
    BY <1>2, <1>4, <2>4, <2>5
  <2>8. UNCHANGED <<tok, paid>> /\ st[p].pc \notin {"save", "transfer"}
    BY <1>1
  <2> QED
    BY <1>1, <1>2, <1>3, <1>6, <2>3, <2>4, <2>5, <2>6, <2>7, <2>8, RowWritten
<1> QED
  BY <1>5, <1>6

\* What ManageUser goes on to update, is not there any more.
LEMMA ForgetOrdered ==
    ASSUME Ordered, NEW p \in Processes, InvalidateUserCache(p)
    PROVE  Ordered'
<1> DEFINE u == st[p].x
           m == Update(u, "whole", st[p].copy)
<1>1. st[p] \in Locals /\ u \in Users /\ st[p].pc = "forget" /\ UNCHANGED Rows
  BY DEF InvalidateUserCache, At, Ordered, Types, Locals
<1>2. m \in Locals /\ m.pc = "reread" /\ m.x = u /\ m.t = None
  BY <1>1, IdleTyped DEF Update, Locals, Idle, Places, Kinds
<1>3. Shaped(m) /\ m.t \notin Tokens
  BY <1>2, AccountsAssumption DEF Shaped, Saves, TokenPlaces
<1>4. m.x \notin suspect => Relies(p, m, row[m.x])
  <2> SUFFICES ASSUME u \notin suspect PROVE Relies(p, m, row[u])
    BY <1>2
  <2>1. Relies(p, st[p], row[u])
    BY DEF Ordered
  <2> QED
    BY <1>1, <1>2, <2>1 DEF Relies, Deletes
<1> QED
  BY <1>1, <1>2, <1>3, <1>4, Goes, GivesUp DEF InvalidateUserCache

\* The row is erased, whoever has a copy of it.
LEMMA EraseOrdered ==
    ASSUME Ordered, HardDelete
    PROVE  Ordered'
<1> DEFINE u == st["admin"].x
<1>1. /\ "admin" \in Processes /\ u \in Users /\ Types /\ st["admin"].pc = "erase"
      /\ UNCHANGED <<tok, due, paid>> /\ Become("admin", Idle) /\ Writes("admin", u)
  BY DEF HardDelete, At, Ordered, Types, Locals, Processes
<1>2. PICK r \in UserRows : r = [NoRow EXCEPT !.there = "gone"]
  BY RowsAreStructs DEF UserRows
<1>3. PICK o \in UserRows : o = [ordered[u] EXCEPT !.there = "gone"]
  BY <1>1 DEF Types, UserRows
<1>4. row' = [row EXCEPT ![u] = r] /\ ordered' = [ordered EXCEPT ![u] = o]
  BY <1>2, <1>3 DEF HardDelete
<1>5. r.there = "gone" /\ o.there = "gone"
  BY <1>1, <1>2, <1>3, RowsAreStructs DEF Types, UserRows
<1>6. /\ ordered' \in [Users -> UserRows] /\ \A v \in Users \ {u} : ordered'[v] = ordered[v]
      /\ ordered'[u] = o /\ due' \in [Keys -> Int] /\ \A x \in Keys \ {u} : due'[x] = due[x]
  BY <1>1, <1>4 DEF Types
<1>7. Settled(r, ordered'[u], due'[u], u \in paid)
  BY <1>5, <1>6 DEF Settled
<1>8. UNCHANGED <<tok, paid>> /\ st["admin"].pc \notin {"save", "transfer"}
  BY <1>1
<1>9. Idle \in Locals /\ Shaped(Idle) /\ \A x : Relies("admin", Idle, x) /\ ReliesOnToken(Idle, x)
  BY IdleTyped, CarelessFine
<1> QED
  BY <1>1, <1>4, <1>5, <1>6, <1>7, <1>8, <1>9, RowWritten

(***************************************************************************)
(* The administrator and the guest.                                        *)
(***************************************************************************)

\* What ManageUser would write of a row it has found is the row, but for its
\* role and status.
LEMMA ManagedColumns ==
    ASSUME NEW me, NEW r \in Structs, NEW c \in Managed(me, r)
    PROVE  c \in Structs /\ c.quota = r.quota /\ c.aff = r.aff /\ c.checked = r.checked
<1>1. \A a \in {0, Common, Admin, Super} :
        /\ [r EXCEPT !.role = a] \in Structs /\ [r EXCEPT !.role = a].quota = r.quota
        /\ [r EXCEPT !.role = a].aff = r.aff /\ [r EXCEPT !.role = a].checked = r.checked
  BY DEF Structs
<1>2. \A b \in {0, Enabled, Disabled} :
        /\ [r EXCEPT !.status = b] \in Structs /\ [r EXCEPT !.status = b].quota = r.quota
        /\ [r EXCEPT !.status = b].aff = r.aff /\ [r EXCEPT !.status = b].checked = r.checked
  BY DEF Structs
<1>3. \/ \E a \in {0, Common, Admin, Super} : c = [r EXCEPT !.role = a]
      \/ \E b \in {0, Enabled, Disabled} : c = [r EXCEPT !.status = b]
  BY DEF Managed
<1> QED
  BY <1>1, <1>2, <1>3

\* ManageUser updates what it has found, or is to delete it.
LEMMA ManageOrdered ==
    ASSUME Ordered, ManageUser
    PROVE  Ordered'
<1>0. "admin" \in Processes /\ UNCHANGED Rows /\ Types
  BY DEF ManageUser, Processes, Ordered
<1>1. PICK me \in Roles, u \in Users :
        /\ row[u].there # "none"
        /\ \/ \E c \in Managed(me, Found(u)) : Become("admin", Update(u, "whole", c))
           \/ Become("admin", [Idle EXCEPT !.pc = "delete", !.x = u, !.copy = Found(u)])
  BY DEF ManageUser
<1>2. Found(u) \in Structs /\ (row[u].there = "live" => Found(u) = row[u])
  BY <1>0, RowsAreStructs DEF Found, Types
<1>3. ASSUME NEW c \in Managed(me, Found(u)), Become("admin", Update(u, "whole", c))
      PROVE  Ordered'
  <2> DEFINE m == Update(u, "whole", c)
  <2>1. c \in Structs /\ c.quota = Found(u).quota /\ c.aff = Found(u).aff /\ c.checked = Found(u).checked
    BY <1>2, ManagedColumns
  <2>2. m \in Locals /\ m.pc = "reread" /\ m.x = u /\ m.t = None /\ m.copy = c
    BY <2>1, IdleTyped DEF Update, Locals, Idle, Places, Kinds
  <2>3. Shaped(m) /\ m.t \notin Tokens
    BY <2>2, AccountsAssumption DEF Shaped, Saves, TokenPlaces
  <2>4. Relies("admin", m, row[m.x])
    BY <1>1, <1>2, <2>1, <2>2 DEF Relies, Untouched
  <2> HIDE DEF m
  <2> QED
    BY <1>0, <1>3, <2>2, <2>3, <2>4, Goes DEF m
<1>4. ASSUME Become("admin", [Idle EXCEPT !.pc = "delete", !.x = u, !.copy = Found(u)])
      PROVE  Ordered'
  <2> DEFINE m == [Idle EXCEPT !.pc = "delete", !.x = u, !.copy = Found(u)]
  <2>1. m \in Locals /\ m.pc = "delete" /\ m.x = u /\ m.t = None
    BY <1>2, IdleTyped DEF Locals, Idle, Places
  <2>2. Shaped(m) /\ m.t \notin Tokens
    BY <2>1, AccountsAssumption DEF Shaped, Saves, TokenPlaces
  <2>3. Relies("admin", m, row[m.x])
    BY <1>1, <2>1 DEF Relies, Updates
  <2> HIDE DEF m
  <2> QED
    BY <1>0, <1>4, <2>1, <2>2, <2>3, Goes DEF m
<1> QED
  BY <1>1, <1>3, <1>4

\* A form holds what was read of a row, and comes back; a user is chosen to be
\* erased.
LEMMA FormsOrdered ==
    ASSUME Ordered, GetUser \/ UpdateUser \/ DeleteUser
    PROVE  Ordered'
<1>0. "admin" \in Processes /\ UNCHANGED Rows /\ Types
  BY DEF GetUser, UpdateUser, DeleteUser, Processes, Rows, Ordered
<1>1. ASSUME NEW u \in Users, row[u].there # "none", NEW c \in Structs,
             NEW m, m = [Idle EXCEPT !.pc = "submit", !.x = u, !.copy = c]
                    \/ m = [Idle EXCEPT !.pc = "erase", !.x = u], Become("admin", m)
      PROVE  Ordered'
  <2>1. m \in Locals /\ m.pc \in {"submit", "erase"} /\ m.x = u /\ m.t = None
    BY <1>1, IdleTyped DEF Locals, Idle, Places
  <2>2. Shaped(m) /\ m.t \notin Tokens
    BY <2>1, AccountsAssumption DEF Shaped, Saves, TokenPlaces
  <2>3. Relies("admin", m, row[m.x])
    BY <1>1, <2>1 DEF Relies, Updates
  <2> QED
    BY <1>0, <1>1, <2>1, <2>2, <2>3, Goes
<1>2. CASE GetUser
  <2>1. PICK u \in Users, more \in {0, 1} :
          /\ Live(u)
          /\ Become("admin", [Idle EXCEPT !.pc = "submit", !.x = u, !.copy = [row[u] EXCEPT !.quota = @ + more]])
    BY <1>2 DEF GetUser
  <2>2. PICK c \in Structs : c = [row[u] EXCEPT !.quota = @ + more]
    <3>1. PICK n \in Int : n = row[u].quota + more
      BY <1>0 DEF Types, UserRows
    <3>2. row[u] \in UserRows /\ \A r \in UserRows : [r EXCEPT !.quota = n] \in UserRows
      BY <1>0 DEF Types, UserRows
    <3> QED
      BY <3>1, <3>2, RowsAreStructs
  <2> QED
    BY <1>1, <2>1, <2>2 DEF Live
<1>3. CASE UpdateUser
  <2> DEFINE u == st["admin"].x
             m == Update(u, "edit", st["admin"].copy)
  <2>1. st["admin"] \in Locals /\ u \in Users /\ st["admin"].pc = "submit"
    BY <1>0, <1>3 DEF UpdateUser, At, Types, Locals
  <2>2. m \in Locals /\ m.pc = "reread" /\ m.x = u /\ m.t = None /\ m.kind = "edit"
    BY <2>1, IdleTyped DEF Update, Locals, Idle, Places, Kinds
  <2>3. Shaped(m) /\ m.t \notin Tokens
    BY <2>2, AccountsAssumption DEF Shaped, Saves, TokenPlaces
  <2>4. m.x \notin suspect => Relies("admin", m, row[m.x])
    <3> SUFFICES ASSUME u \notin suspect PROVE Relies("admin", m, row[u])
      BY <2>2
    <3>1. Relies("admin", st["admin"], row[u])
      BY <1>0 DEF Ordered
    <3> QED
      BY <2>1, <2>2, <3>1 DEF Relies, RowWindows
  <2> HIDE DEF m
  <2> QED
    BY <1>0, <1>3, <2>2, <2>3, <2>4, Goes, GivesUp DEF UpdateUser, m
<1>4. CASE DeleteUser
  <2>1. PICK u \in Users : Live(u) /\ Become("admin", [Idle EXCEPT !.pc = "erase", !.x = u])
    BY <1>4 DEF DeleteUser
  <2> QED
    BY <1>1, <2>1, RowsAreStructs DEF Live
<1> QED
  BY <1>2, <1>3, <1>4

\* A new row is as it was ordered, and nobody has a copy of it.
LEMMA RegisterOrdered ==
    ASSUME Ordered, Register
    PROVE  Ordered'
<1>0. "guest" \in Processes /\ Types /\ UNCHANGED <<tok, paid, suspect>>
  BY DEF Register, Processes, Ordered
<1>1. PICK u \in Users, i \in Self \cup {None} :
        /\ row[u].there = "none"
        /\ row' = [row EXCEPT ![u] = [NoRow EXCEPT !.there = "live", !.quota = NewUser]]
        /\ ordered' = [ordered EXCEPT ![u] = row'[u]]
        /\ due' = [due EXCEPT ![u] = NewUser]
        /\ Become("guest", IF i = None THEN Idle ELSE [Idle EXCEPT !.pc = "bonus", !.x = u, !.t = i])
  BY DEF Register
<1>2. NewUser \in Nat /\ None \notin Tokens /\ Self \subseteq Users
  BY AccountsAssumption DEF Self
<1>3. PICK r : r = [NoRow EXCEPT !.there = "live", !.quota = NewUser]
  OBVIOUS
<1>4. r \in UserRows /\ r.there = "live" /\ r.quota = NewUser /\ r.aff = 0 /\ r.checked = FALSE
  <2>1. \A n \in Int : /\ [NoRow EXCEPT !.there = "live", !.quota = n] \in UserRows
                       /\ [NoRow EXCEPT !.there = "live", !.quota = n].there = "live"
                       /\ [NoRow EXCEPT !.there = "live", !.quota = n].quota = n
                       /\ [NoRow EXCEPT !.there = "live", !.quota = n].aff = NoRow.aff
                       /\ [NoRow EXCEPT !.there = "live", !.quota = n].checked = NoRow.checked
    BY RowsAreStructs DEF UserRows
  <2>2. NoRow.aff = 0 /\ NoRow.checked = FALSE
    BY DEF NoRow
  <2>3. PICK n \in Int : n = NewUser
    BY <1>2
  <2>4. r = [NoRow EXCEPT !.there = "live", !.quota = n]
    BY <1>3, <2>3
  <2> QED
    BY <2>1, <2>2, <2>3, <2>4
<1>5. /\ row' = [row EXCEPT ![u] = r] /\ row'[u] = r
      /\ ordered' \in [Users -> UserRows] /\ ordered'[u] = r /\ \A v \in Users \ {u} : ordered'[v] = ordered[v]
      /\ due' \in [Keys -> Int] /\ due'[u] = NewUser /\ \A x \in Keys \ {u} : due'[x] = due[x]
  BY <1>0, <1>1, <1>2, <1>3, <1>4 DEF Types, Keys
<1>6. u \notin suspect' => Settled(r, ordered'[u], due'[u], u \in paid')
  <2> SUFFICES ASSUME u \notin suspect PROVE Settled(r, r, NewUser, u \in paid)
    BY <1>0, <1>5
  <2>1. Settled(row[u], ordered[u], due[u], u \in paid)
    BY DEF Ordered
  <2> QED
    BY <1>1, <1>2, <1>4, <2>1 DEF Settled
<1>7. u \notin suspect' => \A q \in Processes \ {"guest"} : st[q].x = u => Relies(q, st[q], r)
  <2> SUFFICES ASSUME u \notin suspect, NEW q \in Processes, st[q].x = u PROVE Relies(q, st[q], r)
    BY <1>0
  <2>1. Relies(q, st[q], row[u])
    BY DEF Ordered
  <2> QED
    BY <1>1, <2>1 DEF Relies, RowWindows, Deletes, Updates
<1>8. PICK m \in Locals : m.pc \in Careless /\ Shaped(m) /\ Become("guest", m)
  <2>1. CASE i = None
    BY <1>1, <2>1, IdleTyped, CarelessFine
  <2>2. CASE i # None
    <3>1. [Idle EXCEPT !.pc = "bonus", !.x = u, !.t = i] \in Locals
      BY <1>2, <2>2, IdleTyped DEF Locals, Keys, Places
    <3>2. /\ [Idle EXCEPT !.pc = "bonus", !.x = u, !.t = i].pc = "bonus"
          /\ [Idle EXCEPT !.pc = "bonus", !.x = u, !.t = i].t = i
      BY DEF Idle
    <3>3. Shaped([Idle EXCEPT !.pc = "bonus", !.x = u, !.t = i])
      BY <1>2, <3>2 DEF Shaped, Saves, TokenPlaces
    <3> QED
      BY <1>1, <2>2, <3>1, <3>2, <3>3 DEF Careless
  <2> QED
    BY <2>1, <2>2
<1>9. \A x : Relies("guest", m, x) /\ ReliesOnToken(m, x)
  BY <1>8, CarelessFine
<1>10. UNCHANGED tok /\ suspect \subseteq suspect'
  BY <1>0
<1>11. \A v \in Users \ {u} : v \in paid' <=> v \in paid
  BY <1>0
<1>12. m.x \notin suspect' => Relies("guest", m, row'[m.x])
  BY <1>9
<1>13. m.t \in Tokens \ suspect' => ReliesOnToken(m, tok[m.t])
  BY <1>9
<1> QED
  BY <1>0, <1>4, <1>5, <1>6, <1>7, <1>8, <1>9, <1>10, <1>11, <1>12, <1>13, RowStep, ZenonT(40)

\* A grant or a charge of n, where the row is there; p goes on to what relies on
\* nothing.
LEMMA ChargeOrdered ==
    ASSUME Ordered, NEW p \in Processes, st[p].pc \notin {"save", "transfer"},
           NEW m \in Locals, m.pc \in Careless, Shaped(m), Become(p, m), NEW u \in Users, NEW n \in Int, Live(u),
           row' = [row EXCEPT ![u].quota = @ + n], due' = [due EXCEPT ![u] = @ + n], Writes(p, u),
           UNCHANGED <<tok, ordered, paid>>
    PROVE  Ordered'
<1>1. Types /\ row[u] \in UserRows /\ row[u].quota \in Int /\ row[u].aff \in Int /\ due[u] \in Int
  BY DEF Ordered, Types, UserRows, Keys
<1>2. PICK k \in Int : k = row[u].quota + n
  BY <1>1
<1>3. PICK r \in UserRows : r = [row[u] EXCEPT !.quota = k]
  BY <1>1 DEF UserRows
<1>4. /\ r.there = row[u].there /\ r.role = row[u].role /\ r.status = row[u].status
      /\ r.checked = row[u].checked /\ r.quota = k /\ r.aff = row[u].aff
  BY <1>1, <1>3 DEF UserRows
<1>5. row' = [row EXCEPT ![u] = r]
  BY <1>1, <1>2, <1>3 DEF Types
<1>6. /\ ordered' \in [Users -> UserRows] /\ \A v \in Users \ {u} : ordered'[v] = ordered[v]
      /\ due' \in [Keys -> Int] /\ \A x \in Keys \ {u} : due'[x] = due[x]
      /\ due'[u] = due[u] + n /\ ordered'[u] = ordered[u]
  BY <1>1 DEF Types, Keys
<1>7. u \notin suspect' => Settled(r, ordered'[u], due'[u], u \in paid)
  <2> SUFFICES ASSUME u \notin suspect' PROVE Settled(r, ordered'[u], due'[u], u \in paid)
    OBVIOUS
  <2>1. Settled(row[u], ordered[u], due[u], u \in paid)
    BY DEF Ordered, Writes
  <2> QED
    BY <1>1, <1>2, <1>4, <1>6, <2>1 DEF Settled
<1>8. \A x : Relies(p, m, x) /\ ReliesOnToken(m, x)
  BY CarelessFine
<1>9. r.there = "live"
  BY <1>4 DEF Live
<1>10. m.x \notin suspect' => Relies(p, m, row'[m.x])
  BY <1>8
<1>11. m.t \in Tokens => ReliesOnToken(m, tok[m.t])
  BY <1>8
<1>12. UNCHANGED <<tok, paid>>
  OBVIOUS
<1> QED
  BY <1>5, <1>6, <1>7, <1>8, <1>9, <1>10, <1>11, <1>12, RowWritten

\* The invitee's quota, and then the read of the inviter.
LEMMA InvitedOrdered ==
    ASSUME Ordered, Bonus \/ ReadInviter
    PROVE  Ordered'
<1> DEFINE l == st["guest"]
<1>0. /\ "guest" \in Processes /\ l \in Locals /\ l.x \in Users /\ l.pc \in {"bonus", "inviter"}
      /\ Types /\ l.t \in Users \cup {None}
  BY DEF Bonus, ReadInviter, At, Processes, Ordered, Types, Locals, Shaped
<1>1. CASE Bonus
  <2>1. PICK m \in Locals : m.pc \in Careless /\ Shaped(m) /\ Become("guest", m)
    <3>1. /\ [l EXCEPT !.pc = "inviter"] \in Locals /\ [l EXCEPT !.pc = "inviter"].pc = "inviter"
          /\ [l EXCEPT !.pc = "inviter"].t = l.t
      BY <1>0 DEF Locals, Places
    <3>2. Shaped([l EXCEPT !.pc = "inviter"])
      BY <1>0, <3>1 DEF Shaped, Saves, TokenPlaces
    <3> QED
      BY <1>1, <3>1, <3>2 DEF Bonus, Goto, Careless
  <2>2. CASE UNCHANGED <<row, due, suspect>>
    BY <1>0, <1>1, <2>1, <2>2, GoesCareless DEF Bonus, Rows
  <2>3. CASE ~UNCHANGED <<row, due, suspect>>
    <3>1. /\ Live(l.x) /\ row' = [row EXCEPT ![l.x].quota = @ + Invitee]
          /\ due' = [due EXCEPT ![l.x] = @ + Invitee] /\ Writes("guest", l.x)
          /\ UNCHANGED <<tok, ordered, paid>>
      BY <1>1, <2>3 DEF Bonus
    <3>2. Invitee \in Int
      BY AccountsAssumption
    <3> QED
      BY <1>0, <2>1, <3>1, <3>2, ChargeOrdered
  <2> QED
    BY <2>2, <2>3
<1>2. CASE ReadInviter
  <2> DEFINE i == l.t
             m == [Idle EXCEPT !.pc = "invite", !.x = i, !.copy = row[i]]
  <2>1. UNCHANGED Rows /\ Become("guest", InviteFrom(i))
    BY <1>2 DEF ReadInviter
  <2>2. CASE ~(i # None /\ Live(i) /\ Inviter > 0)
    BY <1>0, <2>1, <2>2, GivesUp DEF InviteFrom
  <2>3. CASE i # None /\ Live(i) /\ Inviter > 0
    <3>1. Become("guest", m) /\ i \in Users
      BY <1>0, <2>1, <2>3 DEF InviteFrom
    <3>2. row[i] \in UserRows /\ row[i] \in Structs /\ row[i].there = "live"
      BY <1>0, <2>3, <3>1, RowsAreStructs DEF Types, Live
    <3>3. m \in Locals /\ m.pc = "invite" /\ m.x = i /\ m.t = None /\ m.copy = row[i] /\ m.kind = ""
      BY <3>1, <3>2, IdleTyped DEF Locals, Idle, Places
    <3>4. Shaped(m) /\ m.t \notin Tokens
      BY <3>2, <3>3, AccountsAssumption DEF Shaped, Saves, TokenPlaces
    <3>5. Relies("guest", m, row[m.x])
      BY <3>2, <3>3 DEF Relies, Same, Updates
    <3> HIDE DEF m
    <3> QED
      BY <1>0, <2>1, <3>1, <3>3, <3>4, <3>5, Goes
  <2> QED
    BY <2>2, <2>3
<1> QED
  BY <1>1, <1>2

(***************************************************************************)
(* Tokens, and requests.                                                   *)
(***************************************************************************)

\* What a change of one column makes of a token's row.
LEMMA TokenColumns ==
    ASSUME NEW r \in TokenRows, NEW n \in Int, NEW s \in {"enabled", "disabled", "exhausted"}
    PROVE  /\ [r EXCEPT !.remain = n] \in TokenRows /\ [r EXCEPT !.remain = n].there = r.there
           /\ [r EXCEPT !.remain = n].remain = n
           /\ [r EXCEPT !.status = s] \in TokenRows /\ [r EXCEPT !.status = s].there = r.there
           /\ [r EXCEPT !.status = s].remain = r.remain
           /\ [r EXCEPT !.there = "deleted"] \in TokenRows /\ [r EXCEPT !.there = "deleted"].there = "deleted"
BY DEF TokenRows

\* p writes a token's row, notes whoever has a copy of it out, and goes on to
\* what relies on nothing.
LEMMA TokenWritten ==
    ASSUME Ordered, NEW p \in Processes, st[p].pc \notin {"save", "transfer"},
           NEW m \in Locals, m.pc \in Careless, Shaped(m), Become(p, m),
           NEW t \in Tokens, NEW r \in TokenRows, tok' = [tok EXCEPT ![t] = r], Writes(p, t),
           due' \in [Keys -> Int], \A x \in Keys \ {t} : due'[x] = due[x], UNCHANGED <<row, ordered, paid>>,
           t \notin suspect' /\ r.there = "live" => r.remain = due'[t]
    PROVE  Ordered'
<1>1. suspect \subseteq suspect'
  BY DEF Writes
<1>2. t \notin suspect' => \A q \in Processes \ {p} : st[q].t = t => ReliesOnToken(st[q], r)
  BY WritesTokenAlone
<1>3. m.x \notin suspect' => Relies(p, m, row[m.x])
  BY CarelessFine
<1>4. m.t \in Tokens \ suspect' => ReliesOnToken(m, tok'[m.t])
  BY CarelessFine
<1>5. UNCHANGED <<row, ordered, paid>>
  OBVIOUS
<1> QED
  BY <1>1, <1>2, <1>3, <1>4, <1>5, TokenStep

\* A token is added, with what it is given, or deleted.
LEMMA TokenRowsOrdered ==
    ASSUME Ordered, NEW p \in Processes, AddToken(p) \/ DeleteToken(p)
    PROVE  Ordered'
<1>0. /\ Types /\ st[p] \in Locals /\ Shaped(st[p]) /\ Become(p, st[p]) /\ st[p].pc = "idle"
      /\ UNCHANGED <<row, ordered, paid>>
  BY DEF AddToken, DeleteToken, Job, At, Become, Ordered, Types
<1>1. CASE AddToken(p)
  <2>1. PICK t \in Tokens, n \in {0, 1} :
          /\ tok[t].there = "none"
          /\ tok' = [tok EXCEPT ![t] = [NoToken EXCEPT !.there = "live", !.remain = n]]
          /\ due' = [due EXCEPT ![t] = n] /\ suspect' = suspect
    BY <1>1 DEF AddToken
  <2>2. PICK r : r = [NoToken EXCEPT !.there = "live", !.remain = n]
    OBVIOUS
  <2>3. r \in TokenRows /\ r.remain = n /\ n \in Int
    <3>1. NoToken \in TokenRows
      BY RowsAreStructs
    <3>2. \A i \in Int : /\ [NoToken EXCEPT !.there = "live", !.remain = i] \in TokenRows
                         /\ [NoToken EXCEPT !.there = "live", !.remain = i].remain = i
      BY <3>1 DEF TokenRows
    <3>3. PICK i \in Int : i = n
      OBVIOUS
    <3> QED
      BY <2>2, <3>2, <3>3
  <2>4. /\ tok' = [tok EXCEPT ![t] = r] /\ due' \in [Keys -> Int] /\ due'[t] = n
        /\ \A x \in Keys \ {t} : due'[x] = due[x]
    BY <1>0, <2>1, <2>2, <2>3 DEF Types, Keys
  <2>5. ASSUME NEW q \in Processes, st[q].t \in Tokens, st[q].t \notin suspect'
        PROVE  ReliesOnToken(st[q], tok'[st[q].t])
    <3>1. ReliesOnToken(st[q], tok[st[q].t])
      BY <2>1, <2>5 DEF Ordered
    <3>2. CASE st[q].t = t
      BY <2>1, <3>1, <3>2 DEF ReliesOnToken
    <3>3. CASE st[q].t # t
      <4>1. tok'[st[q].t] = tok[st[q].t]
        BY <1>0, <2>4, <2>5, <3>3 DEF Types
      <4> QED
        BY <3>1, <4>1
    <3> QED
      BY <3>2, <3>3
  <2>6. t \notin suspect' => \A q \in Processes \ {p} : st[q].t = t => ReliesOnToken(st[q], r)
    BY <1>0, <2>4, <2>5 DEF Types
  <2>7. st[p].x \notin suspect' => Relies(p, st[p], row[st[p].x])
    BY <2>1 DEF Ordered
  <2>8. suspect \subseteq suspect' /\ (t \notin suspect' /\ r.there = "live" => r.remain = due'[t])
    BY <2>1, <2>3, <2>4
  <2>9. st[p].t \in Tokens \ suspect' => ReliesOnToken(st[p], tok'[st[p].t])
    BY <2>5
  <2> QED
    BY <1>0, <2>3, <2>4, <2>6, <2>7, <2>8, <2>9, TokenStep
<1>2. CASE DeleteToken(p)
  <2>1. PICK t \in Tokens : tok' = [tok EXCEPT ![t].there = "deleted"] /\ Writes(p, t)
    BY <1>2 DEF DeleteToken
  <2>2. PICK r \in TokenRows : r = [tok[t] EXCEPT !.there = "deleted"] /\ r.there = "deleted"
    <3>1. tok[t] \in TokenRows /\ "enabled" \in {"enabled", "disabled", "exhausted"} /\ 0 \in Int
      BY <1>0 DEF Types
    <3> QED
      BY <3>1, TokenColumns
  <2>3. tok' = [tok EXCEPT ![t] = r] /\ due' \in [Keys -> Int] /\ \A x \in Keys \ {t} : due'[x] = due[x]
    BY <1>0, <1>2, <2>1, <2>2 DEF Types, DeleteToken
  <2> QED
    BY <1>0, <2>1, <2>2, <2>3, TokenWritten DEF Careless
<1> QED
  BY <1>1, <1>2

\* A token's form, its return, and the change of a status begin with what was
\* read of the token.
LEMMA TokenFormsOrdered ==
    ASSUME Ordered, NEW p \in Processes, GetToken(p) \/ UpdateTokenStatus(p) \/ UpdateToken(p)
    PROVE  Ordered'
<1>0. Types /\ UNCHANGED Rows /\ st[p] \in Locals /\ Shaped(st[p])
  BY DEF GetToken, UpdateTokenStatus, UpdateToken, Ordered, Types
<1>1. ASSUME NEW t \in Tokens, NEW token \in TokenRows, NEW m, Become(p, m),
             \/ m = [Idle EXCEPT !.pc = "tread", !.t = t, !.kind = "form", !.token = token]
             \/ /\ m = [Idle EXCEPT !.pc = "twrite", !.t = t, !.kind = "status", !.token = token]
                /\ tok[t].there = "live" /\ token.remain = tok[t].remain
      PROVE  Ordered'
  <2>1. /\ m \in Locals /\ m.t = t
        /\ \/ m.pc = "tread" /\ m.kind = "form"
           \/ m.pc = "twrite" /\ m.kind = "status" /\ m.token = token /\ tok[t].there = "live" /\ token.remain = tok[t].remain
    BY <1>1, IdleTyped DEF Locals, Idle, Places, Kinds, Keys
  <2>2. Shaped(m)
    BY <2>1 DEF Shaped, Saves, TokenPlaces
  <2>3. ReliesOnToken(m, tok[m.t])
    BY <2>1 DEF ReliesOnToken
  <2>4. \A x : Relies(p, m, x)
    BY <2>1 DEF Relies, RowWindows, Deletes, Updates
  <2> QED
    BY <1>0, <1>1, <2>1, <2>2, <2>3, <2>4, Goes
<1>2. CASE GetToken(p)
  <2>1. PICK t \in Tokens, more \in {0, 1} :
          Become(p, [Idle EXCEPT !.pc = "tread", !.t = t, !.kind = "form",
                                 !.token = [tok[t] EXCEPT !.remain = @ + more]])
    BY <1>2 DEF GetToken
  <2>2. PICK n \in Int : n = tok[t].remain + more
    BY <1>0 DEF Types, TokenRows
  <2>3. [tok[t] EXCEPT !.remain = @ + more] \in TokenRows
    BY <1>0, <2>2, TokenColumns DEF Types
  <2> QED
    BY <1>1, <2>1, <2>3
<1>3. CASE UpdateTokenStatus(p)
  <2>1. PICK t \in Tokens, s \in {"enabled", "disabled"} :
          /\ Valid(t)
          /\ Become(p, [Idle EXCEPT !.pc = "twrite", !.t = t, !.kind = "status",
                                    !.token = [tok[t] EXCEPT !.status = s]])
    BY <1>3 DEF UpdateTokenStatus
  <2>2. PICK token \in TokenRows : token = [tok[t] EXCEPT !.status = s] /\ token.remain = tok[t].remain
    <3>1. tok[t] \in TokenRows /\ s \in {"enabled", "disabled", "exhausted"} /\ 0 \in Int
      BY <1>0 DEF Types
    <3> QED
      BY <3>1, TokenColumns
  <2> QED
    BY <1>1, <2>1, <2>2 DEF Valid
<1>4. CASE UpdateToken(p)
  <2> DEFINE t == st[p].t
             m == [st[p] EXCEPT !.pc = "twrite", !.token.status = tok[t].status]
  <2>1. st[p].pc = "tread" /\ t \in Tokens /\ (Become(p, m) \/ Become(p, Idle))
    BY <1>0, <1>4 DEF UpdateToken, At, Shaped, TokenPlaces
  <2>2. CASE Become(p, Idle)
    BY <1>0, <2>2, GivesUp
  <2>3. CASE Become(p, m)
    <3>1. PICK s \in {"enabled", "disabled", "exhausted"} : s = tok[t].status
      BY <1>0, <2>1 DEF Types, TokenRows
    <3>2. PICK token \in TokenRows : token = [st[p].token EXCEPT !.status = s]
      <4>1. st[p].token \in TokenRows
        BY <1>0 DEF Locals
      <4> QED
        BY <4>1 DEF TokenRows
    <3>3. PICK k : k = [st[p] EXCEPT !.pc = "twrite", !.token = token]
      OBVIOUS
    <3>4. m = k
      BY <1>0, <3>1, <3>2, <3>3 DEF Locals
    <3>5. k \in Locals /\ k.pc = "twrite" /\ k.t = t /\ k.kind = st[p].kind
      BY <1>0, <3>2, <3>3 DEF Locals, Places
    <3>6. Shaped(k) /\ k.kind = "form"
      BY <1>0, <2>1, <3>5 DEF Shaped, Saves, TokenPlaces
    <3>7. ReliesOnToken(k, tok[k.t])
      BY <3>6 DEF ReliesOnToken
    <3>8. \A x : Relies(p, k, x)
      BY <3>5 DEF Relies, RowWindows, Deletes, Updates
    <3>9. Become(p, k)
      BY <2>3, <3>4
    <3> QED
      BY <1>0, <3>5, <3>6, <3>7, <3>8, <3>9, Goes
  <2> QED
    BY <2>1, <2>2, <2>3
<1> QED
  BY <1>2, <1>3, <1>4

\* A token is written from the copy of whoever had it in hand.
LEMMA WriteTokenOrdered ==
    ASSUME Ordered, NEW p \in Processes, WriteToken(p)
    PROVE  Ordered'
<1> DEFINE t == st[p].t
           k == st[p].token
<1>0. /\ Types /\ st[p] \in Locals /\ Shaped(st[p]) /\ t \in Tokens /\ st[p].pc = "twrite" /\ Become(p, Idle)
      /\ UNCHANGED <<row, ordered, paid>>
  BY DEF WriteToken, At, Ordered, Types, Shaped, TokenPlaces
<1>1. Idle \in Locals /\ Idle.pc \in Careless /\ Shaped(Idle)
  BY IdleTyped, CarelessFine
<1>2. CASE ~Valid(t)
  BY <1>0, <1>2, GivesUp DEF WriteToken, Rows
<1>3. CASE Valid(t)
  <2>1. /\ tok' = [tok EXCEPT ![t].status = k.status, ![t].remain = k.remain]
        /\ due' = IF st[p].kind = "form" THEN [due EXCEPT ![t] = k.remain] ELSE due
        /\ Writes(p, t)
    BY <1>3 DEF WriteToken
  <2>2. PICK s \in {"enabled", "disabled", "exhausted"}, n \in Int : s = k.status /\ n = k.remain
    BY <1>0 DEF Locals, TokenRows
  <2>3. tok[t] \in TokenRows /\ tok[t].there = "live"
    BY <1>0, <1>3 DEF Types, Valid
  <2>4. PICK r \in TokenRows : r = [tok[t] EXCEPT !.status = s, !.remain = n]
    BY <2>3 DEF TokenRows
  <2>5. r.remain = n /\ r.there = "live"
    BY <2>3, <2>4 DEF TokenRows
  <2>6. tok' = [tok EXCEPT ![t] = r]
    BY <1>0, <2>1, <2>2, <2>4 DEF Types
  <2>7. /\ due' \in [Keys -> Int] /\ \A x \in Keys \ {t} : due'[x] = due[x]
        /\ due'[t] = IF st[p].kind = "form" THEN n ELSE due[t]
    BY <1>0, <2>1, <2>2 DEF Types, Keys
  <2>8. t \notin suspect' /\ r.there = "live" => r.remain = due'[t]
    <3> SUFFICES ASSUME t \notin suspect' PROVE n = due'[t]
      BY <2>5
    <3>1. t \notin suspect /\ ReliesOnToken(st[p], tok[t]) /\ tok[t].remain = due[t]
      BY <1>0, <1>3, <2>1 DEF Ordered, Writes
    <3>2. CASE st[p].kind = "form"
      BY <2>7, <3>2
    <3>3. CASE st[p].kind = "status"
      BY <1>0, <2>2, <2>3, <2>7, <3>1, <3>3 DEF ReliesOnToken
    <3> QED
      BY <1>0, <3>2, <3>3 DEF Shaped
  <2>9. st[p].pc \notin {"save", "transfer"}
    BY <1>0
  <2> QED
    BY <1>0, <1>1, <2>1, <2>6, <2>7, <2>8, <2>9, TokenWritten
<1> QED
  BY <1>2, <1>3

\* A request is let in or not, marks a token, or takes one unit of a token and
\* one of its user.
LEMMA RelayOrdered ==
    ASSUME Ordered, Relay
    PROVE  Ordered'
<1> DEFINE l == st["request"]
<1>0. "request" \in Processes /\ Types /\ l \in Locals /\ Shaped(l)
  BY DEF Processes, Ordered, Types
<1>1. Idle \in Locals /\ Idle.pc \in Careless /\ Shaped(Idle)
  BY IdleTyped, CarelessFine
<1>2. CASE Request
  <2>1. PICK t \in Tokens, pc \in {"auth", "mark"} :
          Become("request", Idle) \/ Become("request", [Idle EXCEPT !.pc = pc, !.t = t])
    BY <1>2 DEF Request
  <2>2. PICK m : m = [Idle EXCEPT !.pc = pc, !.t = t]
    OBVIOUS
  <2>3. m \in Locals /\ m.pc \in {"auth", "mark"} /\ m.t = t
    BY <2>2, IdleTyped DEF Locals, Places, Keys
  <2>4. Shaped(m) /\ m.pc \in Careless
    BY <2>3 DEF Shaped, Saves, TokenPlaces, Careless
  <2> QED
    BY <1>0, <1>2, <2>1, <2>2, <2>3, <2>4, GivesUp, GoesCareless DEF Request
<1>3. ASSUME l.pc \in {"auth", "charge"}, NEW pc \in {"charge", "pay"}
      PROVE  /\ [l EXCEPT !.pc = pc] \in Locals /\ [l EXCEPT !.pc = pc].pc \in Careless
             /\ Shaped([l EXCEPT !.pc = pc])
  <2>1. PICK m : m = [l EXCEPT !.pc = pc]
    OBVIOUS
  <2>2. m \in Locals /\ m.pc \in {"charge", "pay"} /\ m.t = l.t /\ l.t \in Tokens
    BY <1>0, <1>3, <2>1 DEF Locals, Places, Shaped, TokenPlaces
  <2>3. Shaped(m) /\ m.pc \in Careless
    BY <2>2 DEF Shaped, Saves, TokenPlaces, Careless
  <2> QED
    BY <2>1, <2>2, <2>3
<1>4. CASE GetUserCache
  BY <1>0, <1>3, <1>4, GivesUp, GoesCareless DEF GetUserCache, Goto, At
<1>5. CASE SelectUpdate
  <2> DEFINE t == l.t
  <2>1. l.pc = "mark" /\ t \in Tokens /\ Become("request", Idle) /\ UNCHANGED <<row, due, ordered, paid>>
    BY <1>0, <1>5 DEF SelectUpdate, At, Shaped, TokenPlaces
  <2>2. CASE ~Valid(t)
    BY <1>0, <1>5, <2>1, <2>2, GivesUp DEF SelectUpdate, Rows
  <2>3. CASE Valid(t)
    <3>1. tok' = [tok EXCEPT ![t].status = "exhausted"] /\ Writes("request", t)
      BY <1>5, <2>3 DEF SelectUpdate
    <3>2. PICK r \in TokenRows : r = [tok[t] EXCEPT !.status = "exhausted"] /\ r.remain = tok[t].remain
      <4>1. tok[t] \in TokenRows /\ "exhausted" \in {"enabled", "disabled", "exhausted"} /\ 0 \in Int
        BY <1>0, <2>1 DEF Types
      <4> QED
        BY <4>1, TokenColumns
    <3>3. /\ tok' = [tok EXCEPT ![t] = r] /\ due' \in [Keys -> Int] /\ \A x \in Keys \ {t} : due'[x] = due[x]
      BY <1>0, <2>1, <3>1, <3>2 DEF Types
    <3>4. t \notin suspect' /\ r.there = "live" => r.remain = due'[t]
      BY <2>1, <2>3, <3>1, <3>2 DEF Ordered, Writes
    <3>5. UNCHANGED <<row, ordered, paid>> /\ l.pc \notin {"save", "transfer"}
      BY <2>1
    <3> QED
      BY <1>0, <1>1, <2>1, <3>1, <3>3, <3>4, <3>5, TokenWritten
  <2> QED
    BY <2>2, <2>3
<1>6. CASE DecreaseTokenQuota
  <2> DEFINE t == l.t
             m == [l EXCEPT !.pc = "pay"]
  <2>1. l.pc = "charge" /\ t \in Tokens /\ Become("request", m) /\ UNCHANGED <<row, ordered, paid>>
    BY <1>0, <1>6 DEF DecreaseTokenQuota, Goto, At, Shaped, TokenPlaces
  <2>2. m \in Locals /\ m.pc \in Careless /\ Shaped(m)
    BY <1>3, <2>1
  <2> HIDE DEF m
  <2>3. CASE ~Valid(t)
    BY <1>0, <1>6, <2>1, <2>2, <2>3, GoesCareless DEF DecreaseTokenQuota, Rows
  <2>4. CASE Valid(t)
    <3>1. /\ tok' = [tok EXCEPT ![t].remain = @ - 1] /\ due' = [due EXCEPT ![t] = @ - 1]
          /\ Writes("request", t)
      BY <1>6, <2>4 DEF DecreaseTokenQuota
    <3>2. tok[t] \in TokenRows /\ due[t] \in Int
      BY <1>0, <2>1 DEF Types, Keys
    <3>3. PICK n \in Int : n = tok[t].remain - 1
      BY <3>2 DEF TokenRows
    <3>4. PICK r \in TokenRows : r = [tok[t] EXCEPT !.remain = n] /\ r.remain = n
      <4>1. "exhausted" \in {"enabled", "disabled", "exhausted"}
        OBVIOUS
      <4> QED
        BY <3>2, <4>1, TokenColumns
    <3>5. /\ tok' = [tok EXCEPT ![t] = r] /\ due' \in [Keys -> Int] /\ \A x \in Keys \ {t} : due'[x] = due[x]
          /\ due'[t] = due[t] - 1
      BY <1>0, <2>1, <3>1, <3>2, <3>3, <3>4 DEF Types, Keys
    <3>6. t \notin suspect' /\ r.there = "live" => r.remain = due'[t]
      BY <2>1, <2>4, <3>1, <3>3, <3>4, <3>5 DEF Ordered, Writes
    <3>7. UNCHANGED <<row, ordered, paid>> /\ l.pc \notin {"save", "transfer"}
      BY <2>1
    <3> QED
      BY <1>0, <2>1, <2>2, <3>1, <3>5, <3>6, <3>7, TokenWritten
  <2> QED
    BY <2>3, <2>4
<1>7. CASE DecreaseUserQuota
  <2> DEFINE u == OwnerOf[l.t]
  <2>1. l.pc = "pay" /\ u \in Users /\ Become("request", Idle) /\ UNCHANGED <<tok, ordered, paid>>
    <3>1. l.pc = "pay" /\ l.t \in Tokens
      BY <1>0, <1>7 DEF DecreaseUserQuota, At, Shaped, TokenPlaces
    <3> QED
      BY <1>7, <3>1, AccountsAssumption DEF DecreaseUserQuota
  <2>2. CASE ~Live(u)
    BY <1>0, <1>7, <2>1, <2>2, GivesUp DEF DecreaseUserQuota, Rows
  <2>3. CASE Live(u)
    <3>1. PICK n \in Int : n = -1
      OBVIOUS
    <3>2. row[u].quota \in Int /\ due[u] \in Int
      BY <1>0, <2>1 DEF Types, UserRows, Keys
    <3>3. /\ row' = [row EXCEPT ![u].quota = @ + n] /\ due' = [due EXCEPT ![u] = @ + n]
          /\ Writes("request", u)
      BY <1>0, <1>7, <2>1, <2>3, <3>1, <3>2 DEF DecreaseUserQuota
    <3>4. l.pc \notin {"save", "transfer"}
      BY <2>1
    <3> QED
      BY <1>0, <1>1, <2>1, <2>3, <3>3, <3>4, ChargeOrdered
  <2> QED
    BY <2>2, <2>3
<1> QED
  BY <1>2, <1>4, <1>5, <1>6, <1>7 DEF Relay

(***************************************************************************)
(* Midnight.                                                               *)
(***************************************************************************)

\* A copy of yesterday, and what it says today.
LEMMA TodayColumns ==
    ASSUME NEW r \in Structs
    PROVE  /\ [r EXCEPT !.checked = FALSE] \in Structs /\ [r EXCEPT !.checked = FALSE].checked = FALSE
           /\ r \in UserRows => [r EXCEPT !.checked = FALSE] \in UserRows
           /\ [r EXCEPT !.checked = FALSE].there = r.there /\ [r EXCEPT !.checked = FALSE].role = r.role
           /\ [r EXCEPT !.checked = FALSE].status = r.status /\ [r EXCEPT !.checked = FALSE].quota = r.quota
           /\ [r EXCEPT !.checked = FALSE].aff = r.aff
BY DEF UserRows, Structs

\* The same of a process.
LEMMA TodayLocals ==
    ASSUME NEW l \in Locals, Shaped(l), NEW m, m = [l EXCEPT !.copy.checked = FALSE, !.seen.checked = FALSE]
    PROVE  /\ m \in Locals /\ Shaped(m) /\ m.pc = l.pc /\ m.x = l.x /\ m.t = l.t /\ m.kind = l.kind
           /\ m.token = l.token /\ m.copy = [l.copy EXCEPT !.checked = FALSE]
<1>1. l.copy \in Structs /\ l.seen \in Structs
  BY DEF Locals
<1>2. PICK c \in Structs, s \in Structs : c = [l.copy EXCEPT !.checked = FALSE] /\ s = [l.seen EXCEPT !.checked = FALSE]
  BY <1>1, TodayColumns
<1>3. m = [l EXCEPT !.copy = c, !.seen = s]
  BY <1>2 DEF Locals
<1>4. /\ m \in Locals /\ m.pc = l.pc /\ m.x = l.x /\ m.t = l.t /\ m.kind = l.kind
      /\ m.token = l.token /\ m.copy = c
  BY <1>3 DEF Locals
<1>5. l.copy \in UserRows => c \in UserRows /\ c.there = l.copy.there
  BY <1>1, <1>2, TodayColumns
<1>6. Shaped(m)
  BY <1>4, <1>5 DEF Shaped
<1> QED
  BY <1>2, <1>4, <1>6

\* Nobody has checked in, in any row or copy; who was about to is noted.
LEMMA NextDayOrdered ==
    ASSUME Ordered, NextDay
    PROVE  Ordered'
<1>1. /\ row' = [u \in Users |-> [row[u] EXCEPT !.checked = FALSE]]
      /\ st' = [p \in Processes |-> [st[p] EXCEPT !.copy.checked = FALSE, !.seen.checked = FALSE]]
      /\ paid' = {} /\ UNCHANGED <<tok, due, ordered>>
      /\ suspect' = suspect \cup {u \in Users : \E p \in Out(u) : st[p].pc = "save"}
  BY DEF NextDay
<1>2. Types
  BY DEF Ordered
<1>3. ASSUME NEW u \in Users
      PROVE  /\ row'[u] \in UserRows /\ row'[u].checked = FALSE /\ row'[u].there = row[u].there
             /\ row'[u].role = row[u].role /\ row'[u].status = row[u].status
             /\ row'[u].quota = row[u].quota /\ row'[u].aff = row[u].aff
  <2>1. row[u] \in UserRows /\ row[u] \in Structs
    BY <1>2, RowsAreStructs DEF Types
  <2>2. row'[u] = [row[u] EXCEPT !.checked = FALSE]
    BY <1>1
  <2> QED
    BY <2>1, <2>2, TodayColumns
<1>4. ASSUME NEW p \in Processes
      PROVE  /\ st'[p] \in Locals /\ Shaped(st'[p]) /\ st'[p].pc = st[p].pc /\ st'[p].x = st[p].x
             /\ st'[p].t = st[p].t /\ st'[p].kind = st[p].kind /\ st'[p].token = st[p].token
             /\ st'[p].copy = [st[p].copy EXCEPT !.checked = FALSE]
  BY <1>1, <1>2, TodayLocals DEF Types
<1>5. Types'
  <2>1. row' \in [Users -> UserRows] /\ st' \in [Processes -> Locals]
    BY <1>1, <1>3, <1>4
  <2> QED
    BY <1>1, <1>2, <1>4, <2>1 DEF Types
<1>6. ASSUME NEW u \in Users \ suspect' PROVE Settled(row'[u], ordered'[u], due'[u], u \in paid')
  <2>1. Settled(row[u], ordered[u], due[u], u \in paid)
    BY <1>1 DEF Ordered
  <2> QED
    BY <1>1, <1>3, <2>1 DEF Settled
<1>7. ASSUME NEW p \in Processes, st'[p].x \notin suspect' PROVE Relies(p, st'[p], row'[st'[p].x])
  <2> DEFINE u == st[p].x
             c == st[p].copy
             d == st'[p].copy
  <2>1. st'[p].x = u /\ u \in Users /\ c \in Structs /\ u \notin suspect /\ Shaped(st[p])
    BY <1>1, <1>2, <1>4, <1>7 DEF Types, Locals
  <2>2. Relies(p, st[p], row[u])
    BY <2>1 DEF Ordered
  <2>3. st[p].pc # "save"
    <3> SUFFICES ASSUME st[p].pc = "save" PROVE FALSE
      OBVIOUS
    <3>1. p \in Out(u)
      BY <2>1 DEF Out, RowWindows, Shaped, Saves
    <3>2. u \in suspect'
      BY <1>1, <2>1, <3>1
    <3> QED
      BY <1>7, <2>1, <3>2
  <2>4. /\ d.there = c.there /\ d.role = c.role /\ d.status = c.status /\ d.checked = FALSE
        /\ d.quota = c.quota /\ d.aff = c.aff
    <3>1. d = [c EXCEPT !.checked = FALSE]
      BY <1>4
    <3> QED
      BY <2>1, <3>1, TodayColumns
  <2>5. Same(c, row[u]) => Same(d, row'[u])
    BY <1>3, <2>1, <2>4 DEF Same
  <2>6. Untouched(p, c, row[u]) => Untouched(p, d, row'[u])
    BY <1>3, <2>1, <2>4 DEF Untouched
  <2>7. row'[u].there = row[u].there /\ st'[p].pc = st[p].pc /\ st'[p].kind = st[p].kind
    BY <1>3, <1>4, <2>1
  <2> HIDE DEF u, c, d
  <2>8. Relies(p, st'[p], row'[u])
    BY <2>2, <2>3, <2>5, <2>6, <2>7 DEF Relies, c, d
  <2> QED
    BY <2>1, <2>8
<1>8. \A t \in Tokens \ suspect' : Valid(t)' => tok'[t].remain = due'[t]
  BY <1>1 DEF Ordered, Valid
<1>9. ASSUME NEW p \in Processes, st'[p].t \in Tokens \ suspect' PROVE ReliesOnToken(st'[p], tok'[st'[p].t])
  <2>0. st[p].t \in Tokens \ suspect
    <3>1. suspect \subseteq suspect'
      BY <1>1
    <3>2. st'[p].t = st[p].t
      BY <1>4
    <3> QED
      BY <1>9, <3>1, <3>2
  <2>1. ReliesOnToken(st[p], tok[st[p].t])
    BY <2>0 DEF Ordered
  <2> QED
    BY <1>1, <1>4, <2>0, <2>1 DEF ReliesOnToken
<1> QED
  BY <1>5, <1>6, <1>7, <1>8, <1>9 DEF Ordered

(***************************************************************************)
(* The theorem.                                                            *)
(***************************************************************************)

\* The tables start with what they should come to.
LEMMA InitOrdered == Init => Ordered
<1> SUFFICES ASSUME Init PROVE Ordered
  OBVIOUS
<1>1. PICK s \in Starts : row = s.row /\ tok = s.tok
  BY DEF Init
<1>2. /\ st = [p \in Processes |-> Idle] /\ ordered = row /\ paid = {u \in Users : row[u].checked}
      /\ due = [x \in Keys |-> IF x \in Users THEN row[x].quota + row[x].aff ELSE tok[x].remain]
  BY DEF Init
<1>3. row \in [Users -> UserRows] /\ tok \in [Tokens -> TokenRows]
      /\ \A u \in Users : row[u].there = "none" => ~row[u].checked
  BY <1>1, AccountsAssumption
<1>4. Idle \in Locals /\ Shaped(Idle) /\ \A p, r : Relies(p, Idle, r) /\ ReliesOnToken(Idle, r)
  BY IdleTyped, CarelessFine
<1>5. due \in [Keys -> Int]
  <2>1. ASSUME NEW x \in Keys PROVE (IF x \in Users THEN row[x].quota + row[x].aff ELSE tok[x].remain) \in Int
    BY <1>3 DEF Keys, UserRows, TokenRows
  <2> QED
    BY <1>2, <2>1
<1>6. Types
  BY <1>2, <1>3, <1>4, <1>5 DEF Types
<1>7. ASSUME NEW u \in Users PROVE Settled(row[u], ordered[u], due[u], u \in paid)
  BY <1>2, <1>3 DEF Settled, Keys
<1>8. ASSUME NEW t \in Tokens PROVE tok[t].remain = due[t]
  BY <1>2, AccountsAssumption DEF Keys
<1> QED
  BY <1>2, <1>4, <1>6, <1>7, <1>8 DEF Ordered

\* No step of anybody loses what was ordered of a row without its being noted.
LEMMA NextOrdered == Ordered /\ [Next]_vars => Ordered'
<1> SUFFICES ASSUME Ordered, [Next]_vars PROVE Ordered'
  OBVIOUS
<1>0. {"owner", "tab", "admin", "guest"} \subseteq Processes
  BY DEF Processes
<1>1. ASSUME NEW p \in {"owner", "tab"}, Dashboard(p) PROVE Ordered'
  BY <1>0, <1>1, JobsOrdered, CheckInOrdered, TransferOrdered, TokenRowsOrdered, TokenFormsOrdered,
     WriteTokenOrdered DEF Dashboard
<1>2. ASSUME NEW p \in {"owner", "tab", "admin"},
             Reread(p) \/ Write(p) \/ UpdateUserCache(p) \/ Delete(p) \/ InvalidateUserCache(p)
      PROVE  Ordered'
  BY <1>0, <1>2, RereadOrdered, WriteOrdered, CacheOrdered, DeleteOrdered, ForgetOrdered
<1>3. CASE Administrator
  BY <1>3, ManageOrdered, FormsOrdered, EraseOrdered DEF Administrator
<1>4. CASE Guest
  BY <1>4, RegisterOrdered, InvitedOrdered, InviteOrdered DEF Guest
<1>5. CASE Relay
  BY <1>5, RelayOrdered
<1>6. CASE NextDay
  BY <1>6, NextDayOrdered
<1>7. ASSUME NEW k \in tasks, Goroutine(k) PROVE Ordered'
  BY <1>7, Rests DEF Goroutine, RedisHSetObj, RedisHDelObj, TTL, RedisHSetField, Lost, Unread, Rows
<1>8. ASSUME NEW x \in Keys, Expire(x) PROVE Ordered'
  BY <1>8, Rests DEF Expire, Unread, Rows
<1>9. CASE UNCHANGED vars
  BY <1>9, Rests DEF vars
<1> QED
  BY <1>1, <1>2, <1>3, <1>4, <1>5, <1>6, <1>7, <1>8, <1>9 DEF Next

\* Of a row that nobody has written while another had a copy of it out, nothing
\* is lost: quotas are what grants and charges come to, role, status and
\* deletion what was last ordered, two check-ins at once pay one reward and
\* transfers at once make nothing.
THEOREM RowsStayAsOrdered == Spec => []RowsAsOrdered
<1>1. Ordered => RowsAsOrdered
  BY DEF Ordered, Settled, RowsAsOrdered, Live
<1> QED
  BY <1>1, InitOrdered, NextOrdered, PTL DEF Spec

(***************************************************************************)
(* Redis agrees with the tables.  Where Redis was told of what became of a *)
(* user or a token (its key is not stale), whatever is still on its way to *)
(* Redis says what the row says; so the last of it to arrive leaves a hash *)
(* that agrees.                                                            *)
(***************************************************************************)

\* A row that lets its user, or its token, in; one that there has ever been.
Lets(x) == There(x) /\ Row(x).on
Known(x) == IF x \in Users THEN row[x].there # "none" ELSE tok[x].there # "none"

\* What an Update with the variables l will tell Redis.
Says(l) == Over(l.seen, l).status = Enabled

\* Where the word to Redis is being prepared, and where a row was found before.
Ends == {"write", "cache"}
Heads == {"delete", "forget", "reread", "write", "cache", "save", "transfer", "invite", "erase"}

\* Everything on its way to Redis agrees with the row, and with nothing on its
\* way the hash does; of a row that there never was nothing is in Redis.
Agreed(x) ==
  /\ \A k \in tasks : k.op = "fill" /\ k.x = x => (k.on <=> Lets(x))
  /\ \A p \in Processes : st[p].x = x /\ st[p].pc = "write" /\ Live(x) =>
       (st[p].seen.status = Enabled <=> row[x].status = Enabled)
  /\ \A p \in Processes : st[p].x = x /\ st[p].pc = "cache" => (Says(st[p]) <=> Lets(x))
  /\ cached[x].full /\ Quiet(x) => (cached[x].on <=> Lets(x))
  /\ ~Known(x) => ~cached[x].full /\ \A k \in tasks : k.op = "fill" => k.x # x

\* A hash of Redis, which has all its fields only when it is there.
Hashed(h) == {"there", "full", "on", "amount"} \subseteq DOMAIN h /\ (h.full => h.there)

Heard ==
  /\ DOMAIN cached = Keys /\ \A x \in Keys : Hashed(cached[x])
  /\ \A k \in tasks : {"op", "x"} \subseteq DOMAIN k /\ k.x \in Keys
  /\ ~redis => /\ tasks = {} /\ \A x \in Keys : ~cached[x].full
               /\ \A p \in Processes : st[p].pc # "cache"
  /\ st["request"].pc = "mark" => ~redis
  /\ \A p \in Processes : st[p].pc \in Heads => row[st[p].x].there # "none"
  /\ redis => \A x \in Keys \ stale : Agreed(x)

\* A row that x has stays as it is, for all that Redis is told of it.
Stays(x) ==
  /\ Known(x)' <=> Known(x)
  /\ Lets(x)' <=> Lets(x)
  /\ x \in Users => (Live(x)' <=> Live(x)) /\ (row'[x].status = Enabled <=> row[x].status = Enabled)

\* Or it is there, something else becomes of it, nothing older is on its way,
\* and Redis, if it has a hash, will be told.
Turns(p, x) ==
  /\ Known(x)' /\ \A k \in tasks : k.op = "fill" => k.x # x
  /\ \A q \in Processes \ {p} : st[q].x = x => st[q].pc \notin Ends
  /\ ~cached[x].full \/ ~Quiet(x)'

\* What p is about to tell Redis agrees with the row that it has written.
Words(p, l) ==
  /\ l.pc = "write" /\ l.x \notin stale' /\ Live(l.x)' =>
       (l.seen.status = Enabled <=> row'[l.x].status = Enabled)
  /\ l.pc = "cache" => redis /\ (l.x \in stale' \/ (Says(l) <=> Lets(l.x)'))
  /\ p = "request" /\ l.pc = "mark" => ~redis
  /\ l.pc \in Heads => row'[l.x].there # "none"

\* A new goroutine carries a field, or what the row says.
Carries(k) ==
  /\ redis /\ {"op", "x"} \subseteq DOMAIN k /\ k.x \in Keys
  /\ k.op = "fill" => k.x \in stale' \/ (Known(k.x)' /\ (k.on <=> Lets(k.x)'))

\* p goes somewhere, and writes at most one row, and Redis hears nothing yet.
LEMMA Walking ==
    ASSUME Ordered, Ordered', Heard, NEW p \in Processes, NEW m, Become(p, m),
           st[p].pc \notin {"cache", "forget"}, Words(p, m),
           UNCHANGED <<redis, cached>>, stale \subseteq stale', tasks \subseteq tasks',
           \A k \in tasks' \ tasks : Carries(k),
           \A u \in Users : row[u].there # "none" => row'[u].there # "none",
           redis => \A x \in Keys \ stale' : Stays(x) \/ Turns(p, x)
    PROVE  Heard'
<1>1. st'[p] = m /\ \A q \in Processes \ {p} : st'[q] = st[q]
  BY DEF Become, Ordered, Types
<1>2. \A q \in Processes : st[q].x \in Users /\ st'[q].x \in Users
  BY DEF Ordered, Types, Locals
<1>3. /\ DOMAIN cached' = Keys /\ \A x \in Keys : Hashed(cached'[x])
      /\ \A k \in tasks' : {"op", "x"} \subseteq DOMAIN k /\ k.x \in Keys
  BY DEF Heard, Carries
<1>4. ~redis' => /\ tasks' = {} /\ \A x \in Keys : ~cached'[x].full
                 /\ \A q \in Processes : st'[q].pc # "cache"
  BY <1>1 DEF Heard, Carries, Words
<1>5. st'["request"].pc = "mark" => ~redis'
  BY <1>1 DEF Heard, Words, Processes
<1>6. \A q \in Processes : st'[q].pc \in Heads => row'[st'[q].x].there # "none"
  BY <1>1, <1>2 DEF Heard, Words
<1>7. ASSUME redis', NEW x \in Keys \ stale' PROVE Agreed(x)'
  <2>1. Agreed(x) /\ x \notin stale /\ redis /\ cached'[x] = cached[x]
    BY <1>7 DEF Heard
  <2>2. CASE Stays(x)
    <3>1. \A k \in tasks' : k.op = "fill" /\ k.x = x => (k.on <=> Lets(x)')
      BY <2>1, <2>2 DEF Agreed, Stays, Carries
    <3>2. ASSUME NEW q \in Processes, st'[q].x = x, st'[q].pc = "write", Live(x)'
          PROVE  st'[q].seen.status = Enabled <=> row'[x].status = Enabled
      BY <1>1, <1>2, <2>1, <2>2, <3>2 DEF Agreed, Stays, Words
    <3>3. ASSUME NEW q \in Processes, st'[q].x = x, st'[q].pc = "cache" PROVE Says(st'[q]) <=> Lets(x)'
      BY <1>1, <2>1, <2>2, <3>3 DEF Agreed, Stays, Words
    <3>4. Quiet(x)' => Quiet(x)
      BY <1>1 DEF Quiet
    <3>5. cached'[x].full /\ Quiet(x)' => (cached'[x].on <=> Lets(x)')
      BY <2>1, <2>2, <3>4 DEF Agreed, Stays
    <3>6. ~Known(x)' => ~cached'[x].full /\ \A k \in tasks' : k.op = "fill" => k.x # x
      BY <2>1, <2>2 DEF Agreed, Stays, Carries
    <3> QED
      BY <3>1, <3>2, <3>3, <3>5, <3>6 DEF Agreed, Says
  <2>3. CASE Turns(p, x)
    <3>1. \A k \in tasks' : k.op = "fill" /\ k.x = x => (k.on <=> Lets(x)')
      BY <2>3 DEF Turns, Carries
    <3>2. ASSUME NEW q \in Processes, st'[q].x = x, st'[q].pc = "write", Live(x)'
          PROVE  st'[q].seen.status = Enabled <=> row'[x].status = Enabled
      BY <1>1, <2>3, <3>2 DEF Turns, Words, Ends
    <3>3. ASSUME NEW q \in Processes, st'[q].x = x, st'[q].pc = "cache" PROVE Says(st'[q]) <=> Lets(x)'
      BY <1>1, <2>3, <3>3 DEF Turns, Words, Ends
    <3>4. cached'[x].full /\ Quiet(x)' => (cached'[x].on <=> Lets(x)')
      BY <2>1, <2>3 DEF Turns
    <3>5. Known(x)'
      BY <2>3 DEF Turns
    <3> QED
      BY <3>1, <3>2, <3>3, <3>4, <3>5 DEF Agreed, Says
  <2> QED
    BY <1>7, <2>2, <2>3, <2>1
<1> QED
  BY <1>3, <1>4, <1>5, <1>6, <1>7 DEF Heard

\* p goes somewhere where it has nothing to tell Redis, and writes nothing.
LEMMA Wandering ==
    ASSUME Ordered, Ordered', Heard, NEW p \in Processes, NEW m, Become(p, m),
           st[p].pc \notin {"cache", "forget"}, m.pc \notin Ends,
           p = "request" /\ m.pc = "mark" => ~redis, m.pc \in Heads => row[m.x].there # "none",
           UNCHANGED <<redis, row, tok, cached, stale, tasks>>
    PROVE  Heard'
<1>1. \A x \in Keys : Stays(x)
  BY DEF Stays, Known, Lets, There, Row, Live, Valid
<1>2. Words(p, m)
  BY DEF Words, Ends
<1> QED
  BY <1>1, <1>2, Walking

\* The row of a user, and of a token.
LEMMA Standing ==
    ASSUME NEW x \in Keys
    PROVE  /\ x \in Users => (There(x) <=> Live(x)) /\ (Row(x).on <=> row[x].status = Enabled)
           /\ x \in Tokens => (There(x) <=> Valid(x)) /\ (Row(x).on <=> tok[x].status = "enabled")
           /\ x \in Users => (There(x)' <=> Live(x)') /\ (Row(x).on' <=> row'[x].status = Enabled)
           /\ x \in Tokens => (There(x)' <=> Valid(x)') /\ (Row(x).on' <=> tok'[x].status = "enabled")
BY AccountsAssumption DEF There, Row, Keys

\* A writer whose key has not become stale has changed nothing of what Redis
\* says, or tells Redis of it, and nothing older is on its way.
LEMMA Unmisled ==
    ASSUME NEW p \in Processes, NEW x \in Keys, Writes(p, x)
    PROVE  /\ stale \subseteq stale'
           /\ redis /\ x \notin stale' =>
                \/ (There(x)' <=> There(x)) /\ (Row(x).on' <=> Row(x).on)
                \/ Told(p, x) /\ ~Coming(p, x)
BY DEF Writes, Misled, Unmoved

\* p writes the row of a user.
LEMMA Writing ==
    ASSUME Ordered, Ordered', Heard, NEW p \in Processes, NEW m, Become(p, m),
           st[p].pc \notin {"cache", "forget"}, Words(p, m),
           NEW u \in Users, NEW r, row' = [row EXCEPT ![u] = r], Writes(p, u),
           row[u].there # "none", r.there # "none",
           redis /\ st[p].pc \in {"write", "delete"} => m.pc \in {"cache", "forget"} /\ m.x = u,
           UNCHANGED <<redis, tok, cached>>, tasks \subseteq tasks', \A k \in tasks' \ tasks : Carries(k)
    PROVE  Heard'
<1>1. row' \in [Users -> UserRows] /\ row'[u] = r /\ \A v \in Users \ {u} : row'[v] = row[v]
  BY DEF Ordered, Types
<1>2. u \in Keys /\ u \notin Tokens /\ stale \subseteq stale'
  BY Unmisled, AccountsAssumption DEF Keys
<1>3. \A x \in Keys \ {u} : Stays(x)
  BY <1>1 DEF Stays, Known, Lets, There, Row, Live, Valid
<1>4. ASSUME redis, u \notin stale' PROVE Stays(u) \/ Turns(p, u)
  <2>1. Known(u) /\ Known(u)'
    BY <1>1 DEF Known
  <2>2. CASE (There(u)' <=> There(u)) /\ (Row(u).on' <=> Row(u).on)
    BY <1>2, <2>1, <2>2, Standing DEF Stays, Lets
  <2>3. CASE Told(p, u) /\ ~Coming(p, u)
    <3>1. m.pc \in {"cache", "forget"} /\ m.x = u /\ st'[p] = m
      BY <1>2, <1>4, <2>3 DEF Told, Become, Ordered, Types
    <3>2. ~Quiet(u)'
      BY <3>1 DEF Quiet
    <3> QED
      BY <2>1, <2>3, <3>2 DEF Turns, Coming, Ends
  <2> QED
    BY <1>2, <1>4, <2>2, <2>3, Unmisled
<1>5. \A v \in Users : row[v].there # "none" => row'[v].there # "none"
  BY <1>1
<1> QED
  BY <1>2, <1>3, <1>4, <1>5, Walking

\* p writes a token, and does not let Redis know by another way than a goroutine.
LEMMA WritingToken ==
    ASSUME Ordered, Ordered', Heard, NEW p \in Processes, NEW m, Become(p, m),
           st[p].pc \notin {"cache", "forget"}, m.pc \notin Ends \cup Heads \cup {"mark"},
           NEW t \in Tokens, NEW r, tok' = [tok EXCEPT ![t] = r], Writes(p, t),
           tok[t].there # "none", r.there # "none",
           redis => \/ (There(t)' <=> There(t)) /\ (Row(t).on' <=> Row(t).on)
                    \/ \E k \in tasks' : k.op \in {"fill", "del"} /\ k.x = t,
           UNCHANGED <<redis, row, cached>>, tasks \subseteq tasks', \A k \in tasks' \ tasks : Carries(k)
    PROVE  Heard'
<1>1. tok' \in [Tokens -> TokenRows] /\ tok'[t] = r /\ \A v \in Tokens \ {t} : tok'[v] = tok[v]
  BY DEF Ordered, Types
<1>2. t \in Keys /\ t \notin Users /\ stale \subseteq stale'
  BY Unmisled, AccountsAssumption DEF Keys
<1>3. \A x \in Keys \ {t} : Stays(x)
  BY <1>1, AccountsAssumption DEF Stays, Known, Lets, There, Row, Live, Valid, Keys
<1>4. ASSUME redis, t \notin stale' PROVE Stays(t) \/ Turns(p, t)
  <2>1. Known(t) /\ Known(t)'
    BY <1>1, <1>2 DEF Known
  <2>2. CASE (There(t)' <=> There(t)) /\ (Row(t).on' <=> Row(t).on)
    BY <1>2, <2>1, <2>2 DEF Stays, Lets
  <2>3. CASE ~((There(t)' <=> There(t)) /\ (Row(t).on' <=> Row(t).on)) /\ ~Coming(p, t)
    <3>1. ~Quiet(t)'
      BY <1>4, <2>3 DEF Quiet
    <3> QED
      BY <2>1, <2>3, <3>1 DEF Turns, Coming, Ends
  <2> QED
    BY <1>2, <1>4, <2>2, <2>3, Unmisled
<1>5. Words(p, m)
  BY DEF Words, Ends, Heads
<1> QED
  BY <1>2, <1>3, <1>4, <1>5, Walking

\* The jobs that begin, and those that read on, tell Redis nothing.
LEMMA BeginHeard ==
    ASSUME Ordered, Ordered', Heard, NEW p \in Processes \ {"request"},
           \/ UpdateUserSetting(p) \/ UpdateSelf(p) \/ CheckIn(p) \/ TransferAffQuota(p) \/ DeleteSelf(p)
           \/ GetToken(p) \/ UpdateTokenStatus(p) \/ UpdateToken(p)
           \/ p = "admin" /\ (ManageUser \/ GetUser \/ UpdateUser \/ DeleteUser)
           \/ p = "guest" /\ ReadInviter
    PROVE  Heard'
<1> DEFINE Fine(m) == m.pc \notin Ends /\ (m.pc \in Heads => row[m.x].there # "none")
<1>0. UNCHANGED <<redis, row, tok, cached, stale, tasks>> /\ st[p].pc \notin {"cache", "forget"}
  BY DEF UpdateUserSetting, UpdateSelf, CheckIn, TransferAffQuota, DeleteSelf, GetToken, UpdateTokenStatus,
     UpdateToken, ManageUser, GetUser, UpdateUser, DeleteUser, ReadInviter, Rows, Job, At
<1>1. ASSUME NEW m, Fine(m), Become(p, m) PROVE Heard'
  BY <1>0, <1>1, Wandering
<1>2. Fine(Idle)
  BY DEF Idle, Ends, Heads
<1>3. ASSUME NEW u \in Users, row[u].there # "none", NEW kind, NEW copy PROVE Fine(Update(u, kind, copy))
  BY <1>3 DEF Update, Idle, Ends, Heads
<1>4. ASSUME NEW u \in Users, row[u].there # "none", NEW pc \in {"save", "transfer", "delete", "submit", "erase", "invite"},
             NEW copy
      PROVE  Fine([Idle EXCEPT !.pc = pc, !.x = u]) /\ Fine([Idle EXCEPT !.pc = pc, !.x = u, !.copy = copy])
  BY <1>4 DEF Idle, Ends, Heads
<1>5. ASSUME NEW t, NEW pc \in {"tread", "twrite"}, NEW kind, NEW token
      PROVE  Fine([Idle EXCEPT !.pc = pc, !.t = t, !.kind = kind, !.token = token])
  BY DEF Idle, Ends, Heads
<1>6. \A u \in Self : u \in Users /\ row[u].there # "none"
  BY DEF Self, Live
<1>7. ASSUME NEW m, Fine(m), Become(p, m) PROVE Heard'
  BY <1>1, <1>7
<1> HIDE DEF Fine
<1>8. CASE UpdateUserSetting(p)
  <2>1. PICK u \in Self : Become(p, Update(u, "whole", row[u]))
    BY <1>8 DEF UpdateUserSetting
  <2> QED
    BY <2>1, <1>3, <1>6, <1>7
<1>9. CASE UpdateSelf(p)
  <2>1. PICK u \in Self : Become(p, Update(u, "self", ZeroUser))
    BY <1>9 DEF UpdateSelf
  <2> QED
    BY <2>1, <1>3, <1>6, <1>7
<1>10. CASE CheckIn(p) \/ TransferAffQuota(p)
  <2>1. PICK u \in Self, pc \in {"save", "transfer"} : Become(p, [Idle EXCEPT !.pc = pc, !.x = u, !.copy = row[u]])
    BY <1>10 DEF CheckIn, TransferAffQuota
  <2> QED
    BY <2>1, <1>4, <1>6, <1>7
<1>11. CASE DeleteSelf(p)
  <2>1. PICK u \in Self : Become(p, [Idle EXCEPT !.pc = "delete", !.x = u])
    BY <1>11 DEF DeleteSelf
  <2> QED
    BY <2>1, <1>4, <1>6, <1>7
<1>12. CASE GetToken(p)
  <2>1. PICK t \in Tokens, more \in {0, 1} :
          Become(p, [Idle EXCEPT !.pc = "tread", !.t = t, !.kind = "form",
                                 !.token = [tok[t] EXCEPT !.remain = @ + more]])
    BY <1>12 DEF GetToken
  <2> QED
    BY <2>1, <1>5, <1>7
<1>13. CASE UpdateTokenStatus(p)
  <2>1. PICK t \in Tokens, s \in {"enabled", "disabled"} :
          Become(p, [Idle EXCEPT !.pc = "twrite", !.t = t, !.kind = "status",
                                 !.token = [tok[t] EXCEPT !.status = s]])
    BY <1>13 DEF UpdateTokenStatus
  <2> QED
    BY <2>1, <1>5, <1>7
<1>14. CASE UpdateToken(p)
  <2>1. ASSUME NEW s PROVE Fine([st[p] EXCEPT !.pc = "twrite", !.token.status = s])
    BY DEF Fine, Ends, Heads, Ordered, Types, Locals
  <2> QED
    BY <1>2, <1>7, <1>14, <2>1 DEF UpdateToken
<1>15. CASE p = "admin" /\ ManageUser
  <2>1. PICK u \in Users : /\ row[u].there # "none"
                           /\ \E c : \/ Become(p, Update(u, "whole", c))
                                     \/ Become(p, [Idle EXCEPT !.pc = "delete", !.x = u, !.copy = c])
    BY <1>15 DEF ManageUser
  <2> QED
    BY <2>1, <1>3, <1>4, <1>7
<1>16. CASE p = "admin" /\ GetUser
  <2>1. PICK u \in Users : Live(u) /\ \E c : Become(p, [Idle EXCEPT !.pc = "submit", !.x = u, !.copy = c])
    BY <1>16 DEF GetUser
  <2> QED
    BY <2>1, <1>4, <1>7 DEF Live
<1>17. CASE p = "admin" /\ UpdateUser
  <2>1. st[p].x \in Users
    BY DEF Ordered, Types, Locals
  <2>2. (Live(st[p].x) /\ Become(p, Update(st[p].x, "edit", st[p].copy))) \/ Become(p, Idle)
    BY <1>17 DEF UpdateUser
  <2> QED
    BY <2>1, <2>2, <1>2, <1>3, <1>7 DEF Live
<1>18. CASE p = "admin" /\ DeleteUser
  <2>1. PICK u \in Users : Live(u) /\ Become(p, [Idle EXCEPT !.pc = "erase", !.x = u])
    BY <1>18 DEF DeleteUser
  <2> QED
    BY <2>1, <1>4, <1>7 DEF Live
<1>19. CASE p = "guest" /\ ReadInviter
  <2> DEFINE i == st[p].t
  <2>1. st[p].pc = "inviter" /\ i \in Users \cup {None} /\ Become(p, InviteFrom(i))
    BY <1>19 DEF ReadInviter, At, Ordered, Types, Shaped
  <2>2. CASE i # None /\ Live(i) /\ Inviter > 0
    <3>1. i \in Users /\ row[i].there # "none" /\ Become(p, [Idle EXCEPT !.pc = "invite", !.x = i, !.copy = row[i]])
      BY <2>1, <2>2 DEF InviteFrom, Live
    <3> QED
      BY <3>1, <1>4, <1>7
  <2>3. CASE ~(i # None /\ Live(i) /\ Inviter > 0)
    BY <2>1, <2>3, <1>2, <1>7 DEF InviteFrom
  <2> QED
    BY <2>2, <2>3
<1> QED
  BY <1>8, <1>9, <1>10, <1>11, <1>12, <1>13, <1>14, <1>15, <1>16, <1>17, <1>18, <1>19

\* What Idle and a row of users are, to those who go idle.
LEMMA IdleWords ==
    /\ Idle.pc = "idle" /\ \A p \in Processes : Words(p, Idle)
    /\ \A r \in UserRows : r.there = "live" => r.there # "none"
BY DEF Idle, Words, Heads

\* What is spawned is new.
LEMMA Spawned ==
    ASSUME NEW k, Spawn({k})
    PROVE  /\ tasks \subseteq tasks' /\ \A j \in tasks' \ tasks : redis /\ j = k
           /\ redis => k \in tasks'
BY DEF Spawn

\* A goroutine that carries a field, or a deletion, is sent off.
LEMMA FieldSpawned ==
    ASSUME NEW op \in {"incr", "set", "del"}, NEW x \in Keys, NEW on, NEW n, Spawn({Task(op, x, on, n)})
    PROVE  tasks \subseteq tasks' /\ \A k \in tasks' \ tasks : Carries(k)
<1>1. PICK k : k = Task(op, x, on, n)
  OBVIOUS
<1>2. redis => Carries(k)
  BY <1>1 DEF Carries, Task
<1> QED
  BY <1>1, <1>2, Spawned

\* Whole rows are saved, and Redis is told of a quota at most.
LEMMA SaveHeard ==
    ASSUME Ordered, Ordered', Heard, NEW p \in Processes,
           PayCheckIn(p) \/ Transfer(p) \/ (p = "guest" /\ InviteUser)
    PROVE  Heard'
<1> DEFINE l == st[p]
           u == st[p].x
           c == st[p].copy
<1>0. /\ l.pc \in Saves /\ l.pc \notin {"cache", "forget", "write", "delete"}
      /\ Become(p, Idle) /\ UNCHANGED <<redis, tok, cached>>
  BY DEF PayCheckIn, Transfer, InviteUser, At, Saves
<1>1. u \in Users /\ c \in UserRows /\ c.there = "live" /\ row[u].there # "none"
  BY <1>0 DEF Ordered, Types, Locals, Shaped, Heard, Heads, Saves
<1>2. CASE UNCHANGED <<row, stale, tasks>>
  BY <1>0, <1>2, IdleWords, Wandering DEF Idle, Ends, Heads
<1>3. ASSUME NEW r, r.there # "none", Save(u, r), Writes(p, u), tasks \subseteq tasks',
             \A k \in tasks' \ tasks : Carries(k)
      PROVE  Heard'
  BY <1>0, <1>1, <1>3, IdleWords, Writing DEF Save
<1>4. \A x, y : /\ [c EXCEPT !.aff = x].there = "live"
                /\ [c EXCEPT !.aff = x, !.quota = y].there = "live"
                /\ [c EXCEPT !.checked = x, !.quota = y].there = "live"
  BY <1>1 DEF UserRows
<1>5. CASE PayCheckIn(p) /\ ~UNCHANGED <<row, stale, tasks>>
  <2>1. PICK r : /\ r = [c EXCEPT !.checked = TRUE, !.quota = @ + Reward]
                 /\ Save(u, r) /\ Writes(p, u) /\ Spawn({Task("set", u, TRUE, r.quota)})
    BY <1>5 DEF PayCheckIn
  <2>2. r.there = "live"
    BY <1>4, <2>1
  <2>3. tasks \subseteq tasks' /\ \A k \in tasks' \ tasks : Carries(k)
    BY <1>1, <2>1, FieldSpawned DEF Keys
  <2> QED
    BY <1>3, <2>1, <2>2, <2>3
<1>6. CASE Transfer(p) /\ ~UNCHANGED <<row, stale, tasks>>
  <2>1. PICK q \in 1..c.aff : Save(u, [c EXCEPT !.aff = @ - q, !.quota = @ + q]) /\ Writes(p, u) /\ UNCHANGED tasks
    BY <1>6 DEF Transfer
  <2>2. [c EXCEPT !.aff = @ - q, !.quota = @ + q].there = "live"
    BY <1>4
  <2> QED
    BY <1>3, <2>1, <2>2
<1>7. CASE p = "guest" /\ InviteUser
  <2>1. Save(u, [c EXCEPT !.aff = @ + Inviter]) /\ Writes(p, u) /\ UNCHANGED tasks
    BY <1>7 DEF InviteUser
  <2>2. [c EXCEPT !.aff = @ + Inviter].there = "live"
    BY <1>4
  <2> QED
    BY <1>3, <2>1, <2>2
<1> QED
  BY <1>2, <1>5, <1>6, <1>7 DEF InviteUser

\* A quota is granted or charged, and a goroutine takes the change to Redis.
LEMMA QuotaHeard ==
    ASSUME Ordered, Ordered', Heard, NEW p \in Processes, NEW m, Become(p, m),
           st[p].pc \in {"bonus", "pay"}, m.pc \in {"idle", "inviter"},
           NEW u \in Users, NEW n \in Int,
           IF Live(u) THEN row' = [row EXCEPT ![u].quota = @ + n] /\ Writes(p, u) ELSE UNCHANGED <<row, stale>>,
           UNCHANGED <<redis, tok, cached>>, Spawn({Task("incr", u, TRUE, n)})
    PROVE  Heard'
<1>1. tasks \subseteq tasks' /\ \A k \in tasks' \ tasks : Carries(k)
  BY FieldSpawned DEF Keys
<1>2. Words(p, m)
  BY DEF Words, Heads
<1>3. CASE Live(u)
  <2>1. PICK r : r = [row[u] EXCEPT !.quota = @ + n]
    OBVIOUS
  <2>2. row[u] \in UserRows /\ row[u].there = "live"
    BY <1>3 DEF Ordered, Types, Live
  <2>3. r.there = "live" /\ row' = [row EXCEPT ![u] = r]
    BY <1>3, <2>1, <2>2 DEF UserRows
  <2> QED
    BY <1>1, <1>2, <1>3, <2>2, <2>3, Writing
<1>4. CASE ~Live(u)
  <2>1. \A x \in Keys : Stays(x)
    BY <1>4 DEF Stays, Known, Lets, There, Row, Live, Valid
  <2> QED
    BY <1>1, <1>2, <1>4, <2>1, Walking
<1> QED
  BY <1>3, <1>4

\* The invitee's bonus.
LEMMA BonusHeard ==
    ASSUME Ordered, Ordered', Heard, Bonus
    PROVE  Heard'
<1> DEFINE u == st["guest"].x
<1>0. /\ "guest" \in Processes /\ st["guest"].pc = "bonus" /\ u \in Users /\ Invitee \in Int
      /\ st["guest"] \in Locals /\ UNCHANGED <<redis, tok, cached>>
  BY AccountsAssumption DEF Bonus, At, Processes, Ordered, Types, Locals
<1>1. PICK m : m = [st["guest"] EXCEPT !.pc = "inviter"]
  OBVIOUS
<1>2. m.pc = "inviter" /\ Become("guest", m)
  BY <1>0, <1>1 DEF Bonus, Goto, Locals
<1>3. CASE Invitee > 0
  <2>1. Spawn({Task("incr", u, TRUE, Invitee)})
    BY <1>3 DEF Bonus
  <2>2. IF Live(u) THEN row' = [row EXCEPT ![u].quota = @ + Invitee] /\ Writes("guest", u) ELSE UNCHANGED <<row, stale>>
    BY <1>3 DEF Bonus
  <2> QED
    BY <1>0, <1>2, <2>1, <2>2, QuotaHeard
<1>4. CASE ~(Invitee > 0)
  <2>1. UNCHANGED <<row, stale, tasks>>
    BY <1>4 DEF Bonus
  <2> QED
    BY <1>0, <1>2, <2>1, Wandering DEF Ends, Heads
<1> QED
  BY <1>3, <1>4

\* The charge to a request's user.
LEMMA PayHeard ==
    ASSUME Ordered, Ordered', Heard, DecreaseUserQuota
    PROVE  Heard'
<1> DEFINE u == OwnerOf[st["request"].t]
<1>1. /\ "request" \in Processes /\ st["request"].pc = "pay" /\ st["request"].t \in Tokens
      /\ UNCHANGED <<redis, tok, cached>> /\ Become("request", Idle)
  BY DEF DecreaseUserQuota, At, Processes, Ordered, Types, Shaped, TokenPlaces
<1>2. u \in Users
  BY <1>1, AccountsAssumption
<1>3. PICK n \in Int : n = -1
  OBVIOUS
<1>4. row[u].quota \in Int
  BY <1>2 DEF Ordered, Types, UserRows
<1>5. IF Live(u) THEN row' = [row EXCEPT ![u].quota = @ + n] /\ Writes("request", u) ELSE UNCHANGED <<row, stale>>
  BY <1>2, <1>3, <1>4 DEF DecreaseUserQuota
<1>6. Spawn({Task("incr", u, TRUE, n)})
  BY <1>3 DEF DecreaseUserQuota
<1> QED
  BY <1>1, <1>2, <1>5, <1>6, IdleWords, QuotaHeard

\* A user is deleted, and Redis will be told; or is erased, and it will not.
LEMMA DeleteHeard ==
    ASSUME Ordered, Ordered', Heard, NEW p \in Processes, Delete(p) \/ (p = "admin" /\ HardDelete)
    PROVE  Heard'
<1> DEFINE u == st[p].x
<1>0. /\ st[p].pc \in {"delete", "erase"} /\ u \in Users /\ row[u] \in UserRows /\ st[p] \in Locals
      /\ row[u].there # "none" /\ UNCHANGED <<redis, tok, cached, tasks>>
  BY DEF Delete, HardDelete, At, Heard, Heads, Ordered, Types, Locals
<1>1. CASE Delete(p)
  <2>1. PICK m : m = [st[p] EXCEPT !.pc = "forget"]
    OBVIOUS
  <2>2. Become(p, m) /\ m.pc = "forget" /\ m.x = u
    BY <1>0, <1>1, <2>1 DEF Delete, Goto, Locals
  <2>3. CASE Live(u)
    <3>1. PICK r : r = [row[u] EXCEPT !.there = "deleted"]
      OBVIOUS
    <3>2. r.there = "deleted" /\ row' = [row EXCEPT ![u] = r] /\ Writes(p, u)
      BY <1>0, <1>1, <2>3, <3>1 DEF Delete, UserRows
    <3>3. row'[u] = r
      BY <1>0, <3>2 DEF Ordered, Types
    <3>4. Words(p, m)
      BY <2>2, <3>2, <3>3 DEF Words
    <3> QED
      BY <1>0, <2>2, <3>2, <3>4, Writing
  <2>4. CASE ~Live(u)
    <3>1. UNCHANGED <<row, stale>>
      BY <1>1, <2>4 DEF Delete
    <3> QED
      BY <1>0, <2>2, <3>1, Wandering DEF Ends
  <2> QED
    BY <2>3, <2>4
<1>2. CASE p = "admin" /\ HardDelete
  <2>1. PICK r : r = [NoRow EXCEPT !.there = "gone"]
    OBVIOUS
  <2>2. r.there = "gone" /\ row' = [row EXCEPT ![u] = r] /\ Writes(p, u) /\ Become(p, Idle) /\ st[p].pc = "erase"
    BY <1>0, <1>2, <2>1 DEF HardDelete, NoRow, At
  <2> QED
    BY <1>0, <2>2, IdleWords, Writing
<1> QED
  BY <1>1, <1>2

\* What an Update makes of the status of a row.
LEMMA OverStatus ==
    ASSUME NEW r \in Structs, NEW l
    PROVE  Over(r, l).status =
             IF l.kind = "whole" /\ l.copy.status # 0 THEN l.copy.status ELSE r.status
<1>1. CASE l.kind = "whole"
  <2>1. Over(r, l) = [r EXCEPT !.role = IF l.copy.role = 0 THEN @ ELSE l.copy.role,
                               !.status = IF l.copy.status = 0 THEN @ ELSE l.copy.status,
                               !.checked = @ \/ l.copy.checked,
                               !.quota = IF l.copy.quota = 0 THEN @ ELSE l.copy.quota,
                               !.aff = IF l.copy.aff = 0 THEN @ ELSE l.copy.aff]
    BY <1>1, Zenon DEF Over
  <2> QED
    BY <1>1, <2>1 DEF Structs
<1>2. CASE l.kind = "edit"
  <2>1. Over(r, l) = [r EXCEPT !.quota = l.copy.quota]
    BY <1>2 DEF Over
  <2> QED
    BY <1>2, <2>1 DEF Structs
<1>3. CASE l.kind \notin {"whole", "edit"}
  BY <1>3 DEF Over
<1> QED
  BY <1>1, <1>2, <1>3

\* Of two structs that agree on who is enabled, an Update makes two that do.
LEMMA OverSays ==
    ASSUME NEW r \in Structs, NEW q \in Structs, r.status = Enabled <=> q.status = Enabled, NEW l
    PROVE  Over(r, l).status = Enabled <=> Over(q, l).status = Enabled
<1>1. /\ Over(r, l).status = IF l.kind = "whole" /\ l.copy.status # 0 THEN l.copy.status ELSE r.status
      /\ Over(q, l).status = IF l.kind = "whole" /\ l.copy.status # 0 THEN l.copy.status ELSE q.status
  BY OverStatus
<1> QED
  BY <1>1

\* The row is read again, into the copy that is for Redis.
LEMMA RereadHeard ==
    ASSUME Ordered, Ordered', Heard, NEW p \in Processes, Reread(p)
    PROVE  Heard'
<1> DEFINE u == st[p].x
<1>1. /\ st[p].pc = "reread" /\ UNCHANGED <<redis, row, tok, cached, stale, tasks>>
      /\ st[p] \in Locals /\ u \in Users /\ row[u].there # "none"
  BY DEF Reread, At, Rows, Heard, Heads, Ordered, Types, Locals
<1>2. PICK seen : seen = IF Live(u) THEN row[u] ELSE st[p].copy
  OBVIOUS
<1>3. PICK m : m = [st[p] EXCEPT !.pc = "write", !.seen = seen]
  OBVIOUS
<1>4. Become(p, m) /\ m.pc = "write" /\ m.x = u /\ m.seen = seen
  BY <1>1, <1>2, <1>3 DEF Reread, Locals
<1>5. Words(p, m)
  BY <1>1, <1>2, <1>4 DEF Words, Live
<1>6. \A x \in Keys : Stays(x)
  BY <1>1 DEF Stays, Known, Lets, There, Row, Live, Valid
<1> QED
  BY <1>1, <1>4, <1>5, <1>6, Walking

\* The row is written, and the copy will go to Redis.
LEMMA WriteHeard ==
    ASSUME Ordered, Ordered', Heard, NEW p \in Processes, Write(p)
    PROVE  Heard'
<1> PICK l : l = st[p]
  OBVIOUS
<1> PICK u : u = st[p].x
  OBVIOUS
<1>1. /\ l.pc = "write" /\ l.x = u /\ UNCHANGED <<redis, tok, cached, tasks>>
      /\ l \in Locals /\ u \in Users /\ row[u] \in UserRows /\ row[u].there # "none"
      /\ l.seen \in Structs /\ u \in Keys
  BY DEF Write, At, Heard, Heads, Ordered, Types, Locals, Keys
<1>2. PICK m : m = IF redis THEN [l EXCEPT !.pc = "cache"] ELSE Idle
  OBVIOUS
<1>3. /\ Become(p, m) /\ (redis => m.pc = "cache" /\ m.x = u)
      /\ (~redis => m.pc = "idle")
  BY <1>1, <1>2, IdleWords DEF Write, Goto, Locals
<1>4. redis => m.kind = l.kind /\ m.copy = l.copy /\ m.seen = l.seen
  BY <1>1, <1>2 DEF Locals
<1>5. \A a : redis => Over(a, m) = Over(a, l)
  BY <1>4 DEF Over
<1>6. ASSUME redis, u \notin stale, Live(u)
      PROVE  Over(l.seen, l).status = Enabled <=> Over(row[u], l).status = Enabled
  <2>1. l.seen.status = Enabled <=> row[u].status = Enabled
    BY <1>1, <1>6 DEF Heard, Agreed
  <2>2. row[u] \in Structs
    BY <1>1, RowsAreStructs
  <2> QED
    BY <1>1, <2>1, <2>2, OverSays
<1>7. CASE Live(u) /\ l.kind # "self"
  <2>1. PICK r : r = Over(row[u], l)
    OBVIOUS
  <2>2. row' = [row EXCEPT ![u] = r] /\ Writes(p, u)
    BY <1>7, <2>1 DEF Write
  <2>3. r.there = "live" /\ r \in UserRows
    BY <1>1, <1>7, <2>1, OverColumns DEF Live
  <2>4. row'[u] = r /\ stale \subseteq stale'
    BY <1>1, <2>2, Unmisled DEF Ordered, Types
  <2>5. Lets(u)' <=> r.status = Enabled
    BY <1>1, <2>3, <2>4, Standing DEF Lets, Live
  <2>6. redis /\ u \notin stale' => (Says(m) <=> Lets(u)')
    BY <1>4, <1>5, <1>6, <1>7, <2>1, <2>4, <2>5 DEF Says
  <2>7. Words(p, m)
    BY <1>3, <2>3, <2>4, <2>6 DEF Words, Heads
  <2> QED
    BY <1>1, <1>3, <2>2, <2>3, <2>7, Writing
<1>8. CASE ~(Live(u) /\ l.kind # "self")
  <2>1. UNCHANGED row /\ (stale' = IF Live(u) \/ ~redis THEN stale ELSE stale \cup {u})
    BY <1>8 DEF Write, Misled
  <2>2. ASSUME redis, u \notin stale' PROVE Says(m) <=> Lets(u)'
    <3>1. Live(u) /\ l.kind = "self" /\ u \notin stale
      BY <1>8, <2>1, <2>2
    <3>2. Over(row[u], l) = row[u]
      BY <3>1 DEF Over
    <3>3. Says(m) <=> row[u].status = Enabled
      BY <1>4, <1>5, <1>6, <2>2, <3>1, <3>2 DEF Says
    <3>4. Live(u)' /\ row'[u] = row[u]
      BY <2>1, <3>1 DEF Live
    <3> QED
      BY <1>1, <3>3, <3>4, Standing DEF Lets
  <2>3. Words(p, m)
    BY <1>1, <1>3, <2>1, <2>2 DEF Words, Heads
  <2>4. \A x \in Keys : Stays(x)
    BY <1>1, <2>1 DEF Stays, Known, Lets, There, Row, Live, Valid
  <2>5. stale \subseteq stale' /\ \A k \in tasks' \ tasks : Carries(k)
    BY <1>1, <2>1
  <2> QED
    BY <1>1, <1>3, <2>1, <2>3, <2>4, <2>5, Walking
<1> QED
  BY <1>7, <1>8

\* A new user, of whom nothing is in Redis.
LEMMA RegisterHeard ==
    ASSUME Ordered, Ordered', Heard, Register
    PROVE  Heard'
<1>1. "guest" \in Processes /\ st["guest"].pc = "idle" /\ UNCHANGED <<redis, tok, cached, tasks, stale>>
  BY DEF Register, Processes, Job, At
<1>2. PICK u \in Users, i \in Self \cup {None} :
        /\ row[u].there = "none"
        /\ row' = [row EXCEPT ![u] = [NoRow EXCEPT !.there = "live", !.quota = NewUser]]
        /\ Become("guest", IF i = None THEN Idle ELSE [Idle EXCEPT !.pc = "bonus", !.x = u, !.t = i])
  BY DEF Register
<1>3. PICK m : m = IF i = None THEN Idle ELSE [Idle EXCEPT !.pc = "bonus", !.x = u, !.t = i]
  OBVIOUS
<1>4. m.pc \in {"idle", "bonus"} /\ Become("guest", m)
  BY <1>2, <1>3, IdleWords DEF Idle
<1>5. Words("guest", m)
  BY <1>4 DEF Words, Heads
<1>6. row'[u].there = "live" /\ \A v \in Users \ {u} : row'[v] = row[v]
  BY <1>2 DEF Ordered, Types, NoRow
<1>7. u \in Keys /\ u \notin Tokens
  BY AccountsAssumption DEF Keys
<1>8. \A x \in Keys \ {u} : Stays(x)
  BY <1>1, <1>6 DEF Stays, Known, Lets, There, Row, Live, Valid
<1>9. redis /\ u \notin stale => Turns("guest", u)
  <2> SUFFICES ASSUME redis, u \notin stale PROVE Turns("guest", u)
    OBVIOUS
  <2>1. Agreed(u) /\ ~Known(u) /\ Known(u)'
    BY <1>2, <1>6, <1>7 DEF Heard, Known
  <2>2. \A q \in Processes : st[q].x = u => st[q].pc \notin Ends
    BY <1>2 DEF Heard, Heads, Ends
  <2> QED
    BY <2>1, <2>2 DEF Turns, Agreed
<1>10. \A v \in Users : row[v].there # "none" => row'[v].there # "none"
  BY <1>2, <1>6
<1> QED
  BY <1>1, <1>4, <1>5, <1>8, <1>9, <1>10, Walking

\* A new token, likewise, and a deletion.
LEMMA TokenRowsHeard ==
    ASSUME Ordered, Ordered', Heard, NEW p \in Processes, AddToken(p) \/ DeleteToken(p)
    PROVE  Heard'
<1>0. /\ Become(p, st[p]) /\ st[p].pc = "idle" /\ UNCHANGED <<redis, row, cached>>
      /\ Words(p, st[p])
  BY DEF AddToken, DeleteToken, Job, At, Become, Ordered, Types, Words, Heads
<1>1. PICK m : m = st[p] /\ m.pc = "idle"
  BY <1>0
<1>2. CASE AddToken(p)
  <2>1. PICK t \in Tokens, n \in {0, 1} :
          /\ tok[t].there = "none"
          /\ tok' = [tok EXCEPT ![t] = [NoToken EXCEPT !.there = "live", !.remain = n]]
          /\ UNCHANGED <<stale, tasks>>
    BY <1>2 DEF AddToken
  <2>2. tok'[t].there = "live" /\ \A v \in Tokens \ {t} : tok'[v] = tok[v]
    BY <2>1 DEF Ordered, Types, NoToken
  <2>3. t \in Keys /\ t \notin Users
    BY AccountsAssumption DEF Keys
  <2>4. \A x \in Keys \ {t} : Stays(x)
    BY <1>0, <2>2, AccountsAssumption DEF Stays, Known, Lets, There, Row, Live, Valid, Keys
  <2>5. redis /\ t \notin stale => Turns(p, t)
    <3> SUFFICES ASSUME redis, t \notin stale PROVE Turns(p, t)
      OBVIOUS
    <3>1. Agreed(t) /\ ~Known(t) /\ Known(t)'
      BY <2>1, <2>2, <2>3 DEF Heard, Known
    <3>2. \A q \in Processes : st[q].x # t
      BY <2>3 DEF Ordered, Types, Locals
    <3> QED
      BY <3>1, <3>2 DEF Turns, Agreed
  <2>6. Words(p, m)
    BY <1>1 DEF Words, Heads
  <2> QED
    BY <1>0, <1>1, <2>1, <2>4, <2>5, <2>6, Walking
<1>3. CASE DeleteToken(p)
  <2>1. PICK t \in Tokens : /\ Valid(t) /\ tok' = [tok EXCEPT ![t].there = "deleted"]
                            /\ Writes(p, t) /\ Spawn({Task("del", t, FALSE, 0)})
    BY <1>3 DEF DeleteToken
  <2>2. PICK r : r = [tok[t] EXCEPT !.there = "deleted"]
    OBVIOUS
  <2>3. tok[t] \in TokenRows /\ tok[t].there = "live"
    BY <2>1 DEF Ordered, Types, Valid
  <2>4. r.there = "deleted" /\ tok' = [tok EXCEPT ![t] = r]
    BY <2>1, <2>2, <2>3 DEF TokenRows
  <2>5. tasks \subseteq tasks' /\ \A k \in tasks' \ tasks : Carries(k)
    BY <2>1, FieldSpawned DEF Keys
  <2>6. redis => \E k \in tasks' : k.op \in {"fill", "del"} /\ k.x = t
    <3>1. PICK k : k = Task("del", t, FALSE, 0)
      OBVIOUS
    <3>2. k.op = "del" /\ k.x = t /\ (redis => k \in tasks')
      BY <2>1, <3>1, Spawned DEF Task
    <3> QED
      BY <3>2
  <2>7. m.pc \notin Ends \cup Heads \cup {"mark"}
    BY <1>1 DEF Ends, Heads
  <2> QED
    BY <1>0, <1>1, <2>1, <2>3, <2>4, <2>5, <2>6, <2>7, WritingToken
<1> QED
  BY <1>2, <1>3

\* A reader who finds no hash sends off the row as it is.
LEMMA FillCarries ==
    ASSUME NEW x \in Keys, FillAfterRead(x), UNCHANGED <<row, tok>>
    PROVE  tasks \subseteq tasks' /\ \A k \in tasks' \ tasks : Carries(k)
<1>1. CASE ~cached[x].there /\ There(x)
  <2>1. PICK k : k = Task("fill", x, Row(x).on, Row(x).amount)
    OBVIOUS
  <2>2. k.x = x /\ {"op", "x"} \subseteq DOMAIN k /\ k.on = Row(x).on
    BY <2>1 DEF Task
  <2>3. Known(x)'
    BY <1>1 DEF Known, There, Live, Valid
  <2>4. Lets(x)' <=> Row(x).on
    BY <1>1 DEF Lets, There, Row, Live, Valid
  <2>5. redis => Carries(k)
    BY <2>2, <2>3, <2>4 DEF Carries
  <2>6. Spawn({k})
    BY <1>1, <2>1 DEF FillAfterRead
  <2> QED
    BY <2>5, <2>6, Spawned
<1>2. CASE ~(~cached[x].there /\ There(x))
  BY <1>2 DEF FillAfterRead
<1> QED
  BY <1>1, <1>2

\* A request is let in or not, by what Redis says or the row does.
LEMMA ReadHeard ==
    ASSUME Ordered, Ordered', Heard, Request \/ GetUserCache
    PROVE  Heard'
<1>0. "request" \in Processes /\ st["request"] \in Locals /\ Shaped(st["request"])
  BY DEF Processes, Ordered, Types
<1>1. UNCHANGED <<redis, row, tok, cached, stale>> /\ st["request"].pc \notin {"cache", "forget"}
  BY DEF Request, GetUserCache, Rows, Job, At
<1>2. \A x \in Keys : Stays(x)
  BY <1>1 DEF Stays, Known, Lets, There, Row, Live, Valid
<1>3. ASSUME NEW x \in Keys, FillAfterRead(x), NEW m, Become("request", m),
             m.pc \in {"idle", "auth", "mark", "charge"}, m.pc = "mark" => ~redis
      PROVE  Heard'
  <2>1. tasks \subseteq tasks' /\ \A k \in tasks' \ tasks : Carries(k)
    BY <1>1, <1>3, FillCarries
  <2>2. Words("request", m)
    BY <1>3 DEF Words, Heads
  <2> QED
    BY <1>0, <1>1, <1>2, <1>3, <2>1, <2>2, Walking
<1>4. CASE Request
  <2>1. PICK t \in Tokens :
          /\ FillAfterRead(t)
          /\ \/ Become("request", Idle)
             \/ Become("request", [Idle EXCEPT !.pc = "auth", !.t = t])
             \/ ~redis /\ Become("request", [Idle EXCEPT !.pc = "mark", !.t = t])
    BY <1>4 DEF Request
  <2>2. PICK a : a = [Idle EXCEPT !.pc = "auth", !.t = t]
    OBVIOUS
  <2>3. PICK b : b = [Idle EXCEPT !.pc = "mark", !.t = t]
    OBVIOUS
  <2>4. a.pc = "auth" /\ b.pc = "mark" /\ Idle.pc = "idle" /\ t \in Keys
    BY <2>2, <2>3 DEF Idle, Keys
  <2> QED
    BY <2>1, <2>2, <2>3, <2>4, <1>3
<1>5. CASE GetUserCache
  <2>1. PICK x : x = OwnerOf[st["request"].t]
    OBVIOUS
  <2>2. x \in Keys
    BY <1>0, <1>5, <2>1, AccountsAssumption DEF GetUserCache, At, Shaped, TokenPlaces, Keys
  <2>3. PICK m : m = [st["request"] EXCEPT !.pc = "charge"]
    OBVIOUS
  <2>4. m.pc = "charge" /\ Idle.pc = "idle"
    BY <1>0, <2>3 DEF Locals, Idle
  <2>5. FillAfterRead(x) /\ (Become("request", m) \/ Become("request", Idle))
    BY <1>5, <2>1, <2>3 DEF GetUserCache, Goto
  <2> QED
    BY <2>2, <2>4, <2>5, <1>3
<1> QED
  BY <1>4, <1>5

\* A request marks a token, where there is no Redis, or charges it; Redis will
\* be told of the charge, which lets in as many as before.
LEMMA ChargeHeard ==
    ASSUME Ordered, Ordered', Heard, SelectUpdate \/ DecreaseTokenQuota
    PROVE  Heard'
<1>0. "request" \in Processes /\ st["request"] \in Locals /\ Shaped(st["request"])
  BY DEF Processes, Ordered, Types
<1>1. PICK t : t = st["request"].t
  OBVIOUS
<1>2. /\ t \in Tokens /\ t \in Keys /\ t \notin Users /\ tok[t] \in TokenRows
      /\ st["request"].pc \in {"mark", "charge"} /\ UNCHANGED <<redis, row, cached>>
  BY <1>0, <1>1, AccountsAssumption DEF SelectUpdate, DecreaseTokenQuota, At, Shaped, TokenPlaces, Keys, Ordered, Types
<1>3. CASE SelectUpdate
  <2>1. ~redis /\ UNCHANGED tasks /\ Become("request", Idle)
    BY <1>3 DEF SelectUpdate, At, Heard
  <2>2. Idle.pc \notin Ends \cup Heads \cup {"mark"}
    BY DEF Idle, Ends, Heads
  <2>3. CASE Valid(t)
    <3>1. PICK r : r = [tok[t] EXCEPT !.status = "exhausted"]
      OBVIOUS
    <3>2. r.there = "live" /\ tok' = [tok EXCEPT ![t] = r] /\ Writes("request", t)
      BY <1>1, <1>2, <1>3, <2>3, <3>1 DEF SelectUpdate, TokenRows, Valid
    <3> QED
      BY <1>0, <1>2, <2>1, <2>2, <2>3, <3>2, WritingToken DEF Valid
  <2>4. CASE ~Valid(t)
    <3>1. UNCHANGED <<tok, stale>>
      BY <1>1, <1>3, <2>4 DEF SelectUpdate
    <3> QED
      BY <1>0, <1>2, <2>1, <2>2, <3>1, Wandering
  <2> QED
    BY <2>3, <2>4
<1>4. CASE DecreaseTokenQuota
  <2>1. PICK m : m = [st["request"] EXCEPT !.pc = "pay"]
    OBVIOUS
  <2>2. Become("request", m) /\ m.pc = "pay" /\ m.pc \notin Ends \cup Heads \cup {"mark"}
    BY <1>0, <1>4, <2>1 DEF DecreaseTokenQuota, Goto, Locals, Ends, Heads
  <2>3. tasks \subseteq tasks' /\ \A k \in tasks' \ tasks : Carries(k)
    BY <1>1, <1>2, <1>4, FieldSpawned DEF DecreaseTokenQuota
  <2>4. CASE Valid(t)
    <3>1. PICK r : r = [tok[t] EXCEPT !.remain = @ - 1]
      OBVIOUS
    <3>2. /\ r.there = "live" /\ r.status = tok[t].status /\ tok' = [tok EXCEPT ![t] = r] /\ Writes("request", t)
      BY <1>1, <1>2, <1>4, <2>4, <3>1 DEF DecreaseTokenQuota, TokenRows, Valid
    <3>3. tok'[t] = r
      BY <1>2, <3>2 DEF Ordered, Types
    <3>4. (There(t)' <=> There(t)) /\ (Row(t).on' <=> Row(t).on)
      BY <1>2, <2>4, <3>2, <3>3, Standing DEF Valid
    <3> QED
      BY <1>0, <1>2, <2>2, <2>3, <2>4, <3>2, <3>4, WritingToken DEF Valid
  <2>5. CASE ~Valid(t)
    <3>1. UNCHANGED <<tok, stale>>
      BY <1>1, <1>4, <2>5 DEF DecreaseTokenQuota
    <3>2. \A x \in Keys : Stays(x)
      BY <1>2, <3>1 DEF Stays, Known, Lets, There, Row, Live, Valid
    <3>3. Words("request", m)
      BY <2>2 DEF Words, Heads
    <3> QED
      BY <1>0, <1>2, <2>2, <2>3, <3>1, <3>2, <3>3, Walking
  <2> QED
    BY <2>4, <2>5
<1> QED
  BY <1>3, <1>4

\* A token is written, and the copy sent to Redis.
LEMMA WriteTokenHeard ==
    ASSUME Ordered, Ordered', Heard, NEW p \in Processes, WriteToken(p)
    PROVE  Heard'
<1>1. PICK t : t = st[p].t
  OBVIOUS
<1>2. PICK c : c = st[p].token
  OBVIOUS
<1>3. /\ t \in Tokens /\ t \in Keys /\ t \notin Users /\ tok[t] \in TokenRows /\ c \in TokenRows
      /\ st[p].pc = "twrite" /\ UNCHANGED <<redis, row, cached>> /\ Become(p, Idle)
  BY <1>1, <1>2, AccountsAssumption DEF WriteToken, At, Shaped, TokenPlaces, Keys, Ordered, Types, Locals
<1>4. PICK k : k = FillToken(t, c)
  OBVIOUS
<1>5. k.op = "fill" /\ k.x = t /\ {"op", "x"} \subseteq DOMAIN k /\ k.on = (c.status = "enabled")
  BY <1>4 DEF FillToken, Task
<1>6. tasks \subseteq tasks' /\ (\A j \in tasks' \ tasks : redis /\ j = k) /\ (redis => k \in tasks')
  BY <1>1, <1>2, <1>4, Spawned DEF WriteToken
<1>7. Idle.pc \notin Ends \cup Heads \cup {"mark"} /\ Words(p, Idle)
  BY IdleWords DEF Idle, Ends, Heads
<1>8. CASE Valid(t)
  <2>1. PICK r : r = [tok[t] EXCEPT !.status = c.status, !.remain = c.remain]
    OBVIOUS
  <2>2. /\ r.there = "live" /\ r.status = c.status
    BY <1>3, <1>8, <2>1 DEF TokenRows, Valid
  <2>3. tok' = [tok EXCEPT ![t].status = c.status, ![t].remain = c.remain] /\ Writes(p, t)
    BY <1>1, <1>2, <1>8 DEF WriteToken
  <2>4. tok' = [tok EXCEPT ![t] = r]
    BY <1>3, <2>1, <2>3 DEF Ordered, Types
  <2>5. tok'[t] = r
    BY <1>3, <2>4 DEF Ordered, Types
  <2>6. Known(t)' /\ (Lets(t)' <=> c.status = "enabled")
    BY <1>3, <2>2, <2>5, Standing DEF Known, Lets, Valid
  <2>7. redis => Carries(k)
    BY <1>3, <1>5, <2>6 DEF Carries
  <2>8. redis => \E j \in tasks' : j.op \in {"fill", "del"} /\ j.x = t
    BY <1>5, <1>6
  <2> QED
    BY <1>3, <1>6, <1>7, <1>8, <2>2, <2>3, <2>4, <2>7, <2>8, WritingToken DEF Valid
<1>9. CASE ~Valid(t)
  <2>1. UNCHANGED tok /\ (stale' = IF redis THEN stale \cup {t} ELSE stale)
    BY <1>1, <1>9 DEF WriteToken, Misled
  <2>2. redis => Carries(k)
    BY <1>3, <1>5, <2>1 DEF Carries
  <2>3. \A x \in Keys : Stays(x)
    BY <1>3, <2>1 DEF Stays, Known, Lets, There, Row, Live, Valid
  <2> QED
    BY <1>3, <1>6, <1>7, <2>1, <2>2, <2>3, Walking
<1> QED
  BY <1>8, <1>9

\* Redis does something to the hash of y, and what has done it is gone.
LEMMA Hearing ==
    ASSUME Ordered, Ordered', Heard, NEW y \in Keys, UNCHANGED <<redis, row, tok>>,
           DOMAIN cached' = Keys, \A x \in Keys \ {y} : cached'[x] = cached[x],
           Hashed(cached'[y]), cached'[y].full => redis,
           \A k \in tasks' : \/ k \in tasks
                             \/ redis /\ {"op", "x"} \subseteq DOMAIN k /\ k.x \in Keys /\ k.op # "fill",
           \A k \in tasks \ tasks' : k.x = y \/ k.op \notin {"fill", "del"},
           \A q \in Processes : \/ st'[q] = st[q]
                                \/ /\ st[q].x = y /\ st'[q].pc \notin Ends \cup {"mark"}
                                   /\ st'[q].pc \in Heads => row[st'[q].x].there # "none",
           \A x \in Keys \ {y} : x \in stale => x \in stale',
           redis /\ y \notin stale' =>
             /\ cached'[y].full => Known(y) /\ (Quiet(y)' => (cached'[y].on <=> Lets(y)))
             /\ \/ y \notin stale
                \/ /\ \A k \in tasks : k.op = "fill" => k.x # y
                   /\ \A q \in Processes : st[q].x = y => st[q].pc \notin Ends
    PROVE  Heard'
<1>1. \A x \in Keys : (Lets(x)' <=> Lets(x)) /\ (Known(x)' <=> Known(x)) /\ (Live(x)' <=> Live(x))
  BY DEF Lets, Known, There, Row, Live, Valid
<1>2. \A x \in Keys : Hashed(cached'[x])
  BY DEF Heard
<1>3. \A k \in tasks' : {"op", "x"} \subseteq DOMAIN k /\ k.x \in Keys
  BY DEF Heard
<1>4. ~redis' => /\ tasks' = {} /\ \A x \in Keys : ~cached'[x].full
                 /\ \A q \in Processes : st'[q].pc # "cache"
  BY DEF Heard, Ends
<1>5. st'["request"].pc = "mark" => ~redis'
  BY DEF Heard, Processes
<1>6. \A q \in Processes : st'[q].pc \in Heads => row'[st'[q].x].there # "none"
  BY DEF Heard
<1>7. ASSUME redis', NEW x \in Keys \ stale' PROVE Agreed(x)'
  <2>1. \A k \in tasks' : k.op = "fill" => k \in tasks
    OBVIOUS
  <2>2. \A q \in Processes : st'[q].pc \in Ends => st'[q] = st[q]
    OBVIOUS
  <2>3. CASE x \notin stale
    <3>1. Agreed(x)
      BY <1>7, <2>3 DEF Heard
    <3>2. x # y => (Quiet(x)' => Quiet(x))
      BY DEF Quiet
    <3>3. cached'[x].full /\ Quiet(x)' => (cached'[x].on <=> Lets(x))
      BY <1>7, <3>1, <3>2 DEF Agreed
    <3>4. ~Known(x) => ~cached'[x].full
      BY <1>7, <3>1 DEF Agreed
    <3>5. \A k \in tasks' : k.op = "fill" /\ k.x = x => (k.on <=> Lets(x))
      BY <2>1, <3>1 DEF Agreed
    <3>6. ~Known(x) => \A k \in tasks' : k.op = "fill" => k.x # x
      BY <2>1, <3>1 DEF Agreed
    <3>7. \A q \in Processes : st'[q].x = x /\ st'[q].pc = "write" /\ Live(x) =>
            (st'[q].seen.status = Enabled <=> row[x].status = Enabled)
      BY <2>2, <3>1 DEF Agreed, Ends
    <3>8. \A q \in Processes : st'[q].x = x /\ st'[q].pc = "cache" => (Says(st'[q]) <=> Lets(x))
      BY <2>2, <3>1 DEF Agreed, Ends
    <3> QED
      BY <1>1, <1>7, <3>3, <3>4, <3>5, <3>6, <3>7, <3>8 DEF Agreed, Says
  <2>4. CASE x \in stale
    <3>1. /\ x = y /\ (\A k \in tasks : k.op = "fill" => k.x # x)
          /\ \A q \in Processes : st[q].x = x => st[q].pc \notin Ends
      BY <1>7, <2>4
    <3>2. \A k \in tasks' : k.op = "fill" => k.x # x
      BY <2>1, <3>1
    <3>3. \A q \in Processes : st'[q].x = x => st'[q].pc \notin Ends
      BY <2>2, <3>1
    <3>4. cached'[x].full => Known(x) /\ (Quiet(x)' => (cached'[x].on <=> Lets(x)))
      BY <1>7, <3>1
    <3> QED
      BY <1>1, <1>7, <3>2, <3>3, <3>4 DEF Agreed, Ends
  <2> QED
    BY <2>3, <2>4
<1> QED
  BY <1>2, <1>3, <1>4, <1>5, <1>6, <1>7 DEF Heard

\* Redis is told how a user stands, or that there is none; or the word is lost.
LEMMA TellHeard ==
    ASSUME Ordered, Ordered', Heard, NEW p \in Processes, UpdateUserCache(p) \/ InvalidateUserCache(p)
    PROVE  Heard'
<1>1. PICK u : u = st[p].x
  OBVIOUS
<1>2. PICK l : l = st[p]
  OBVIOUS
<1>3. /\ u \in Users /\ u \in Keys /\ l \in Locals /\ l.pc \in {"cache", "forget"} /\ row[u].there # "none"
      /\ UNCHANGED <<redis, row, tok, tasks>> /\ Known(u)
  BY <1>1, <1>2 DEF UpdateUserCache, InvalidateUserCache, At, Rows, Heard, Heads, Ordered, Types, Locals, Keys, Known
<1>4. ASSUME NEW q \in Processes
      PROVE  \/ st'[q] = st[q]
             \/ /\ st[q].x = u /\ st'[q].pc \notin Ends \cup {"mark"}
                /\ st'[q].pc \in Heads => row[st'[q].x].there # "none"
  <2>1. PICK m : Become(p, m) /\ (m = Idle \/ m = Update(u, "whole", l.copy))
    BY <1>1, <1>2 DEF UpdateUserCache, InvalidateUserCache
  <2>2. m.pc \in {"idle", "reread"} /\ (m.pc = "reread" => m.x = u)
    <3>1. PICK n : n = Update(u, "whole", l.copy)
      OBVIOUS
    <3>2. n.pc = "reread" /\ n.x = u /\ Idle.pc = "idle"
      BY <3>1 DEF Update, Idle
    <3> QED
      BY <2>1, <3>1, <3>2
  <2>3. st' = [st EXCEPT ![p] = m]
    BY <2>1 DEF Become
  <2> QED
    BY <1>1, <1>3, <2>2, <2>3 DEF Ends, Heads, Ordered, Types
<1>5. ASSUME NEW h, Tell(p, h), Hashed(h), h.full => redis,
             redis /\ h.full /\ u \notin stale => (h.on <=> Lets(u))
      PROVE  Heard'
  <2>1. cached' = [cached EXCEPT ![u] = h] /\ UNCHANGED stale
    BY <1>1, <1>5 DEF Tell
  <2>2. DOMAIN cached' = Keys /\ cached'[u] = h /\ \A x \in Keys \ {u} : cached'[x] = cached[x]
    BY <1>3, <2>1 DEF Heard
  <2> QED
    BY <1>3, <1>4, <1>5, <2>1, <2>2, Hearing
<1>6. ASSUME Unheard(u), redis PROVE Heard'
  <2>1. UNCHANGED cached /\ stale \subseteq stale' /\ (u \notin stale' => ~cached[u].there)
    BY <1>6 DEF Unheard
  <2>2. DOMAIN cached = Keys /\ Hashed(cached[u])
    BY <1>3 DEF Heard
  <2>3. u \notin stale' => ~cached[u].full
    BY <2>1, <2>2 DEF Hashed
  <2> QED
    BY <1>3, <1>4, <1>6, <2>1, <2>2, <2>3, Hearing
<1>7. CASE InvalidateUserCache(p)
  <2>1. Hashed(Absent) /\ ~Absent.full
    BY DEF Hashed, Absent
  <2> QED
    BY <1>1, <1>5, <1>6, <1>7, <2>1 DEF InvalidateUserCache
<1>8. CASE UpdateUserCache(p)
  <2>1. l.pc = "cache" /\ redis
    BY <1>2, <1>8 DEF UpdateUserCache, At, Heard
  <2>2. PICK n : n = Over(l.seen, l).quota
    OBVIOUS
  <2>3. PICK h : h = Hash(Over(l.seen, l).status = Enabled, n)
    OBVIOUS
  <2>4. Hashed(h) /\ (h.on <=> Says(l))
    BY <2>3 DEF Hash, Hashed, Says
  <2>5. u \notin stale => (h.on <=> Lets(u))
    BY <1>1, <1>2, <1>3, <2>1, <2>4 DEF Heard, Agreed
  <2>6. Tell(p, h) \/ Unheard(u)
    BY <1>1, <1>2, <1>8, <2>2, <2>3 DEF UpdateUserCache
  <2> QED
    BY <1>5, <1>6, <2>1, <2>4, <2>5, <2>6
<1> QED
  BY <1>7, <1>8

\* The goroutines.
LEMMA GoroutineHeard ==
    ASSUME Ordered, Ordered', Heard, NEW k \in tasks, Goroutine(k)
    PROVE  Heard'
<1>1. PICK y : y = k.x
  OBVIOUS
<1>2. /\ y \in Keys /\ redis /\ DOMAIN cached = Keys /\ {"op", "x"} \subseteq DOMAIN k
      /\ Hashed(cached[y])
  BY <1>1 DEF Heard
<1>3. UNCHANGED <<redis, row, tok, st>>
  BY DEF Goroutine, RedisHSetObj, RedisHDelObj, TTL, RedisHSetField, Lost, Unread, Rows
<1>4. y \notin stale => (cached[y].full => Known(y)) /\ (k.op = "fill" => Known(y) /\ (k.on <=> Lets(y)))
  BY <1>1, <1>2 DEF Heard, Agreed
<1>5. ASSUME UNCHANGED stale, tasks' = tasks \ {k}, DOMAIN cached' = Keys,
             \A x \in Keys \ {y} : cached'[x] = cached[x],
             Hashed(cached'[y]),
             y \notin stale => (cached'[y].full => Known(y) /\ (Quiet(y)' => (cached'[y].on <=> Lets(y))))
      PROVE  Heard'
  BY <1>1, <1>2, <1>3, <1>5, Hearing
<1>6. CASE RedisHSetObj(k)
  <2>1. PICK h : h = Hash(k.on, k.n)
    OBVIOUS
  <2>2. Hashed(h) /\ h.on = k.on
    BY <2>1 DEF Hash, Hashed
  <2>3. k.op = "fill" /\ tasks' = tasks \ {k} /\ UNCHANGED stale /\ cached' = [cached EXCEPT ![y] = h]
    BY <1>1, <1>6, <2>1 DEF RedisHSetObj, Done
  <2>4. DOMAIN cached' = Keys /\ cached'[y] = h /\ \A x \in Keys \ {y} : cached'[x] = cached[x]
    BY <1>2, <2>3
  <2> QED
    BY <1>4, <1>5, <2>2, <2>3, <2>4
<1>7. CASE RedisHDelObj(k)
  <2>1. Hashed(Absent) /\ ~Absent.full
    BY DEF Hashed, Absent
  <2>2. tasks' = tasks \ {k} /\ UNCHANGED stale /\ cached' = [cached EXCEPT ![y] = Absent]
    BY <1>1, <1>7 DEF RedisHDelObj, Done
  <2>3. DOMAIN cached' = Keys /\ cached'[y] = Absent /\ \A x \in Keys \ {y} : cached'[x] = cached[x]
    BY <1>2, <2>2
  <2> QED
    BY <1>5, <2>1, <2>2, <2>3
<1>8. CASE TTL(k)
  <2>1. PICK j : j = [k EXCEPT !.op = IF k.op = "incr" THEN "incr now" ELSE "set now"]
    OBVIOUS
  <2>2. {"op", "x"} \subseteq DOMAIN j /\ j.x = y /\ j.op \in {"incr now", "set now"}
    BY <1>1, <1>2, <2>1
  <2>3. /\ tasks' = (tasks \ {k}) \cup (IF cached[y].there THEN {j} ELSE {})
        /\ k.op \in {"incr", "set"} /\ UNCHANGED <<cached, stale>>
    BY <1>1, <1>8, <2>1 DEF TTL
  <2>4. (\A i \in tasks' : i \in tasks \/ i = j) /\ \A i \in tasks \ tasks' : i = k
    BY <2>3
  <2>5. Quiet(y)' => Quiet(y)
    BY <1>3, <2>3, <2>4 DEF Quiet
  <2>6. redis /\ y \notin stale' =>
          (cached'[y].full => Known(y) /\ (Quiet(y)' => (cached'[y].on <=> Lets(y))))
    BY <1>2, <1>4, <2>3, <2>5 DEF Heard, Agreed
  <2> QED
    BY <1>2, <1>3, <2>2, <2>3, <2>4, <2>6, Hearing
<1>9. CASE RedisHSetField(k)
  <2>1. PICK n : n = cached'[y].amount
    OBVIOUS
  <2>2. /\ tasks' = tasks \ {k} /\ UNCHANGED stale /\ k.op \in {"incr now", "set now"}
        /\ cached' = [cached EXCEPT ![y].there = TRUE,
                                    ![y].amount = IF k.op = "incr now" THEN @ + k.n ELSE k.n]
    BY <1>1, <1>9 DEF RedisHSetField, Done
  <2>3. /\ DOMAIN cached' = Keys /\ \A x \in Keys \ {y} : cached'[x] = cached[x]
        /\ Hashed(cached'[y]) /\ cached'[y].full = cached[y].full /\ cached'[y].on = cached[y].on
    BY <1>2, <2>2 DEF Hashed
  <2>4. Quiet(y)' => Quiet(y)
    BY <1>3, <2>2 DEF Quiet
  <2>5. y \notin stale => (cached'[y].full => Known(y) /\ (Quiet(y)' => (cached'[y].on <=> Lets(y))))
    BY <1>2, <1>4, <2>3, <2>4 DEF Heard, Agreed
  <2> QED
    BY <1>5, <2>2, <2>3, <2>5
<1>10. CASE Lost(k)
  <2>1. tasks' = tasks \ {k} /\ UNCHANGED cached
    BY <1>10 DEF Lost, Done, Unheard
  <2>2. CASE k.op \in {"fill", "del"}
    <3>1. stale \subseteq stale' /\ (y \notin stale' => ~cached[y].full)
      BY <1>1, <1>2, <1>10, <2>2 DEF Lost, Unheard, Hashed
    <3> QED
      BY <1>1, <1>2, <1>3, <2>1, <3>1, Hearing
  <2>3. CASE k.op \notin {"fill", "del"}
    <3>1. UNCHANGED stale
      BY <1>10, <2>3 DEF Lost
    <3>2. Quiet(y)' => Quiet(y)
      BY <1>3, <2>1, <2>3 DEF Quiet
    <3>3. y \notin stale => (cached'[y].full => Known(y) /\ (Quiet(y)' => (cached'[y].on <=> Lets(y))))
      BY <1>2, <1>4, <2>1, <3>2 DEF Heard, Agreed
    <3> QED
      BY <1>2, <1>5, <2>1, <3>1, <3>3
  <2> QED
    BY <2>2, <2>3
<1> QED
  BY <1>6, <1>7, <1>8, <1>9, <1>10 DEF Goroutine

\* A hash expires.
LEMMA ExpireHeard ==
    ASSUME Ordered, Ordered', Heard, NEW y \in Keys, Expire(y)
    PROVE  Heard'
<1>1. UNCHANGED <<redis, row, tok, st, tasks>> /\ cached' = [cached EXCEPT ![y] = Absent]
  BY DEF Expire, Unread, Rows
<1>2. DOMAIN cached' = Keys /\ cached'[y] = Absent /\ \A x \in Keys \ {y} : cached'[x] = cached[x]
  BY <1>1 DEF Heard
<1>3. Hashed(Absent) /\ ~Absent.full
  BY DEF Hashed, Absent
<1>4. /\ \A x \in Keys \ {y} : x \in stale => x \in stale'
      /\ y \notin stale' => y \notin stale \/ \A p \in Processes : ~Coming(p, y)
  BY DEF Expire
<1>5. (\A p \in Processes : ~Coming(p, y)) =>
        /\ \A k \in tasks : k.op = "fill" => k.x # y
        /\ \A q \in Processes : st[q].x = y => st[q].pc \notin Ends
  <2> SUFFICES ASSUME \A p \in Processes : ~Coming(p, y)
               PROVE  /\ \A k \in tasks : k.op = "fill" => k.x # y
                      /\ \A q \in Processes : st[q].x = y => st[q].pc \notin Ends
    OBVIOUS
  <2>1. ~Coming("owner", y) /\ ~Coming("tab", y)
    BY DEF Processes
  <2> QED
    BY <2>1 DEF Coming, Ends, Processes
<1> QED
  BY <1>1, <1>2, <1>3, <1>4, <1>5, Hearing

\* Redis knows nothing of days.
LEMMA NextDayHeard ==
    ASSUME Ordered, Ordered', Heard, NextDay
    PROVE  Heard'
<1>1. /\ row' = [u \in Users |-> [row[u] EXCEPT !.checked = FALSE]]
      /\ st' = [p \in Processes |-> [st[p] EXCEPT !.copy.checked = FALSE, !.seen.checked = FALSE]]
      /\ UNCHANGED <<redis, tok, cached, tasks, stale>>
  BY DEF NextDay
<1>2. ASSUME NEW u \in Users PROVE row'[u].there = row[u].there /\ row'[u].status = row[u].status
  <2>1. row[u] \in Structs /\ row'[u] = [row[u] EXCEPT !.checked = FALSE]
    BY <1>1, RowsAreStructs DEF Ordered, Types
  <2> QED
    BY <2>1, TodayColumns
<1>3. ASSUME NEW p \in Processes
      PROVE  /\ st'[p].pc = st[p].pc /\ st'[p].x = st[p].x /\ st'[p].seen.status = st[p].seen.status
             /\ Says(st'[p]) <=> Says(st[p])
  <2>1. PICK l : l = st[p]
    OBVIOUS
  <2>2. PICK m : m = [l EXCEPT !.copy.checked = FALSE, !.seen.checked = FALSE]
    OBVIOUS
  <2>3. st'[p] = m /\ l \in Locals
    BY <1>1, <2>1, <2>2 DEF Ordered, Types
  <2>4. l.copy \in Structs /\ l.seen \in Structs
    BY <2>3 DEF Locals
  <2>5. PICK c \in Structs, s \in Structs : c = [l.copy EXCEPT !.checked = FALSE] /\ s = [l.seen EXCEPT !.checked = FALSE]
    BY <2>4, TodayColumns
  <2>6. c.status = l.copy.status /\ s.status = l.seen.status
    BY <2>4, <2>5, TodayColumns
  <2>7. m = [l EXCEPT !.copy = c, !.seen = s]
    BY <2>2, <2>3, <2>5 DEF Locals
  <2>8. m.pc = l.pc /\ m.x = l.x /\ m.kind = l.kind /\ m.copy = c /\ m.seen = s
    BY <2>3, <2>7 DEF Locals
  <2>9. Over(m.seen, m).status = Over(l.seen, l).status
    <3>1. /\ Over(s, m).status = IF m.kind = "whole" /\ m.copy.status # 0 THEN m.copy.status ELSE s.status
          /\ Over(l.seen, l).status =
               IF l.kind = "whole" /\ l.copy.status # 0 THEN l.copy.status ELSE l.seen.status
      BY <2>4, OverStatus
    <3> QED
      BY <2>6, <2>8, <3>1
  <2> QED
    BY <2>1, <2>3, <2>6, <2>8, <2>9 DEF Says
<1>4. \A q \in Processes : st[q].x \in Users
  BY DEF Ordered, Types, Locals
<1>5. ASSUME NEW x \in Keys
      PROVE  /\ (Lets(x)' <=> Lets(x)) /\ (Known(x)' <=> Known(x)) /\ (Quiet(x)' <=> Quiet(x))
             /\ x \in Users => (Live(x)' <=> Live(x))
  BY <1>1, <1>2, <1>3 DEF Lets, Known, Quiet, There, Row, Live, Valid, Keys
<1>6. ASSUME redis, NEW x \in Keys \ stale PROVE Agreed(x)'
  <2>1. Agreed(x)
    BY <1>6 DEF Heard
  <2>2. \A q \in Processes : st'[q].x = x /\ st'[q].pc = "write" /\ Live(x)' =>
          (st'[q].seen.status = Enabled <=> row'[x].status = Enabled)
    BY <1>2, <1>3, <1>4, <1>5, <2>1 DEF Agreed
  <2>3. \A q \in Processes : st'[q].x = x /\ st'[q].pc = "cache" => (Says(st'[q]) <=> Lets(x)')
    BY <1>3, <1>5, <2>1 DEF Agreed
  <2> QED
    BY <1>1, <1>5, <2>1, <2>2, <2>3 DEF Agreed, Says
<1>7. \A q \in Processes : st'[q].pc \in Heads => row'[st'[q].x].there # "none"
  BY <1>2, <1>3, <1>4 DEF Heard
<1>8. /\ DOMAIN cached' = Keys /\ (\A x \in Keys : Hashed(cached'[x]))
      /\ \A k \in tasks' : {"op", "x"} \subseteq DOMAIN k /\ k.x \in Keys
  BY <1>1 DEF Heard
<1>9. /\ ~redis' => /\ tasks' = {} /\ \A x \in Keys : ~cached'[x].full
                    /\ \A p \in Processes : st'[p].pc # "cache"
      /\ st'["request"].pc = "mark" => ~redis'
  BY <1>1, <1>3 DEF Heard, Processes
<1>10. redis' => \A x \in Keys \ stale' : Agreed(x)'
  BY <1>1, <1>6
<1> QED
  BY <1>7, <1>8, <1>9, <1>10 DEF Heard

\* Redis starts empty, or with what the tables say.
LEMMA InitHeard == Init => Heard
<1> SUFFICES ASSUME Init PROVE Heard
  OBVIOUS
<1>1. /\ st = [p \in Processes |-> Idle] /\ tasks = {} /\ stale = {}
      /\ cached = [x \in Keys |-> Absent] \/ (redis /\ cached = Copies)
  BY DEF Init
<1>2. \A p \in Processes : st[p].pc = "idle"
  BY <1>1 DEF Idle
<1>3. ASSUME NEW x \in Keys
      PROVE  /\ Hashed(cached[x])
             /\ cached[x].full => redis /\ There(x) /\ cached[x].on = Row(x).on
  <2>1. CASE cached[x] = Absent
    BY <2>1 DEF Absent, Hashed
  <2>2. CASE redis /\ There(x) /\ cached[x] = Hash(Row(x).on, Row(x).amount)
    BY <2>2 DEF Hash, Hashed
  <2> QED
    BY <1>1, <2>1, <2>2 DEF Copies
<1>4. DOMAIN cached = Keys
  BY <1>1 DEF Copies
<1>5. \A x \in Keys : There(x) => Known(x)
  BY DEF There, Known, Live, Valid
<1>6. \A x \in Keys : Agreed(x)
  BY <1>1, <1>2, <1>3, <1>5 DEF Agreed, Lets
<1> QED
  BY <1>1, <1>2, <1>3, <1>4, <1>6 DEF Heard, Heads, Processes

\* No step of anybody misleads Redis without its being noted.
LEMMA NextHeard == Ordered /\ Heard /\ [Next]_vars => Heard'
<1> SUFFICES ASSUME Ordered, Heard, [Next]_vars PROVE Heard'
  OBVIOUS
<1>0. /\ Ordered' /\ {"owner", "tab", "admin", "guest"} \subseteq Processes
      /\ \A p \in {"owner", "tab", "admin", "guest"} : p \in Processes \ {"request"}
  BY NextOrdered DEF Processes
<1>1. ASSUME NEW p \in {"owner", "tab"}, Dashboard(p) PROVE Heard'
  BY <1>0, <1>1, BeginHeard, SaveHeard, TokenRowsHeard, WriteTokenHeard DEF Dashboard
<1>2. ASSUME NEW p \in {"owner", "tab", "admin"},
             Reread(p) \/ Write(p) \/ UpdateUserCache(p) \/ Delete(p) \/ InvalidateUserCache(p)
      PROVE  Heard'
  BY <1>0, <1>2, RereadHeard, WriteHeard, TellHeard, DeleteHeard
<1>3. CASE Administrator
  BY <1>0, <1>3, BeginHeard, DeleteHeard DEF Administrator
<1>4. CASE Guest
  BY <1>0, <1>4, BeginHeard, SaveHeard, RegisterHeard, BonusHeard DEF Guest
<1>5. CASE Relay
  BY <1>0, <1>5, ReadHeard, ChargeHeard, PayHeard DEF Relay
<1>6. CASE NextDay
  BY <1>0, <1>6, NextDayHeard
<1>7. ASSUME NEW k \in tasks, Goroutine(k) PROVE Heard'
  BY <1>0, <1>7, GoroutineHeard
<1>8. ASSUME NEW x \in Keys, Expire(x) PROVE Heard'
  BY <1>0, <1>8, ExpireHeard
<1>9. CASE UNCHANGED vars
  BY <1>9 DEF vars, Heard, Agreed, Says, Lets, Known, Quiet, There, Row, Live, Valid
<1> QED
  BY <1>1, <1>2, <1>3, <1>4, <1>5, <1>6, <1>7, <1>8, <1>9 DEF Next

\* With nothing on its way, the hash that Redis has of a user or a token lets in
\* whom the table lets in, and nobody else, unless Redis was not told of the
\* row as it stands.
THEOREM CachesAgreeAlways == Spec => []CachesAgree
<1>1. Heard => CachesAgree
  BY DEF Heard, Agreed, CachesAgree, Lets
<1>2. Init => Ordered /\ Heard
  BY InitOrdered, InitHeard
<1>3. Ordered /\ Heard /\ [Next]_vars => (Ordered /\ Heard)'
  BY NextOrdered, NextHeard
<1> QED
  BY <1>1, <1>2, <1>3, PTL DEF Spec
=============================================================================
