----------------------------- MODULE EdgeProofs -----------------------------
(***************************************************************************)
(* The two edges of the system: who comes in (Identity) and what goes out  *)
(* to a client (Streams). The two share no state and no definition: each   *)
(* part speaks of its own module alone.                                    *)
(*                                                                         *)
(* Of Identity, for any number of browsers, users, persons, names and      *)
(* requests, and whatever restarts come between:                           *)
(*   OneRootAlways      there is one root user at most.                    *)
(*   ResetOnceAlways    a link to reset a password works once.             *)
(*   OneAccountAlways   a person at a provider has one account, but for    *)
(*                      the persons two requests found free at once or a   *)
(*                      row saved from an older copy brought back.         *)
(* The arguments say who has checked something and not acted on it yet,    *)
(* and that there is one such request at most while nothing is contested.  *)
(*                                                                         *)
(* Of Streams, for every adaptor, every length of an answer, every order   *)
(* of its lines and every moment at which an end of it goes:               *)
(*   AnswersAreMarked    [DONE], think tags and blocks are where they      *)
(*                       belong.                                           *)
(*   DeliveriesAreBilled what the client was sent is billed.               *)
(* The arguments follow the chunks that have been sent and the lines that  *)
(* have been noted, and say of every handler how one line moves the two.   *)
(***************************************************************************)
EXTENDS Identity, Streams, FiniteSetTheorems, SequenceTheorems, TLAPS

Local == {"pc", "for", "who", "k", "user", "copy"}
Column == {"there", "root", "ext"}

\* Requests and rows have their fields; who creates the root user, or resets a
\* password, watches for others who do the same; who binds an address or saves a
\* row has found no identity free.
Formed(l) ==
  /\ Local \subseteq DOMAIN l
  /\ l.pc = "root" => Matter(l) = <<"root", 0>>
  /\ l.pc \in {"reset", "forget"} => Matter(l) = <<"reset", 0>>
  /\ l.pc \in {"mail", "save"} => l.for \notin Providers
  /\ l.pc = "save" => Column \subseteq DOMAIN l.copy
Numbered == \E n \in Nat : Rows = 1..n
Shaped ==
  /\ DOMAIN st = Browsers /\ \A b \in Browsers : Formed(st[b])
  /\ DOMAIN row = Users /\ \A u \in Users : Column \subseteq DOMAIN row[u]
  /\ Numbered

Roots == {u \in Users : row[u].root}
CreatesRoot(b) == st[b].pc = "root"
Resets(b) == st[b].pc \in {"reset", "forget"}

\* Whoever is about to create the root user is alone in it, and there is none.
RootInv ==
  /\ \A u \in Roots : Live(u)
  /\ <<"root", 0>> \notin contested =>
       /\ \A u, v \in Roots : u = v
       /\ \A b \in Browsers : CreatesRoot(b) => Roots = {}
       /\ \A b, c \in Browsers : CreatesRoot(b) /\ CreatesRoot(c) => b = c

\* Codes are numbered as they are sent.
CodesInv ==
  /\ \E n \in Nat : sent["verify"] \cup sent["reset"] = 1..n
  /\ spent \subseteq sent["reset"]
  /\ DOMAIN sent = Purposes /\ DOMAIN code = Purposes
  /\ code["reset"] \in sent["reset"] \cup {0}
  /\ \A b \in Browsers : st[b].pc = "reset" => st[b].k \in sent["reset"]

\* A code that has changed a password is not there any more, or whoever used it
\* is about to delete it, and nobody else is resetting one.
ResetInv ==
  /\ CodesInv
  /\ <<"reset", 0>> \notin contested =>
       /\ twice = {}
       /\ \A b \in Browsers : st[b].pc = "reset" => st[b].k \notin spent
       /\ code["reset"] \in spent => \E b \in Browsers : st[b].pc = "forget"
       /\ \A b, c \in Browsers : Resets(b) /\ Resets(c) => b = c

\* The copy of a row that is to be written over it deletes no root user, and one
\* that is to replace it is of a live row, and says the same of being root.
CopyOf(l) ==
  /\ l.pc = "update" /\ l.copy.there = "deleted" => l.user \in Rows /\ ~row[l.user].root
  /\ l.pc = "save" => /\ l.user \in Rows /\ l.copy.there = "live"
                      /\ l.copy.root <=> row[l.user].root
CopiesInv == \A b \in Browsers : CopyOf(st[b])

Inv == Shaped /\ CopiesInv /\ RootInv /\ ResetInv

(***************************************************************************)
(* Steps that create and reset nothing.                                    *)
(***************************************************************************)

\* Rows stay, and stay root's or not.
Kept == Rows \subseteq Rows' /\ \A u \in Rows : row'[u].root <=> row[u].root

\* The rows keep their columns, and nobody becomes root or is deleted as root.
Tame ==
  /\ DOMAIN row' = Users /\ \A u \in Users : Column \subseteq DOMAIN row'[u]
  /\ Numbered' /\ Kept
  /\ \A u \in Users : row'[u].root => row[u].root /\ row'[u].there = row[u].there

\* b goes on to m, and neither was nor will be about to create or reset.
Aside(b, m) ==
  /\ Become(b, m) /\ Formed(m) /\ CopyOf(m)
  /\ m.pc \notin {"root", "reset", "forget"} /\ ~Resets(b)
  /\ contested \subseteq contested'

\* What Watch adds it never takes away.
LEMMA Watched == Watch => contested \subseteq contested'
BY DEF Watch

\* Two requests that have checked the same are seen.
LEMMA Seen ==
    ASSUME Watch, NEW b \in Browsers, NEW c \in Browsers, b # c,
           Acts(st'[b]), Acts(st'[c]), Matter(st'[b]) = Matter(st'[c])
    PROVE  Matter(st'[b]) \in contested'
BY DEF Watch, Overlap

\* Nothing is in hand of who is idle.
LEMMA IdleFormed ==
  /\ Local \subseteq DOMAIN Idle /\ Idle.pc = "idle" /\ Idle.for = "" /\ Idle.who = 0
  /\ Formed(Idle) /\ CopyOf(Idle)
BY DEF Idle, Local, Formed, CopyOf

\* A copy of a row that stays is what it was.
LEMMA CopyKept ==
    ASSUME Kept, NEW l, CopyOf(l)
    PROVE  CopyOf(l)'
BY DEF Kept, CopyOf

\* Whoever neither binds nor saves, and creates and resets nothing, is formed and
\* has no copy in hand.
LEMMA Ordinary ==
    ASSUME NEW l, Local \subseteq DOMAIN l,
           l.pc \notin {"root", "reset", "forget", "mail", "update", "save"}
    PROVE  Formed(l) /\ CopyOf(l)
BY DEF Formed, CopyOf

\* A step of one request changes what this request has in hand.
LEMMA Stepped ==
    ASSUME DOMAIN st = Browsers, NEW b \in Browsers, NEW m, Become(b, m)
    PROVE  /\ DOMAIN st' = Browsers /\ st'[b] = m
           /\ \A c \in Browsers \ {b} : st'[c] = st[c]
BY DEF Become

\* Nobody becomes root, or is about to.
LEMMA RootAside ==
    ASSUME Inv, Tame, contested \subseteq contested',
           \A b \in Browsers : st'[b].pc = "root" => st[b].pc = "root"
    PROVE  RootInv'
<1>1. Roots' \subseteq Roots
  BY DEF Tame, Roots
<1>2. \A u \in Roots' : Live(u)'
  BY <1>1 DEF Tame, Roots, Live, Inv, RootInv
<1>3. CASE <<"root", 0>> \in contested
  BY <1>2, <1>3 DEF RootInv
<1>4. CASE <<"root", 0>> \notin contested
  <2>1. \A b \in Browsers : CreatesRoot(b)' => CreatesRoot(b)
    BY DEF CreatesRoot
  <2>2. /\ \A u, v \in Roots : u = v
        /\ \A b \in Browsers : CreatesRoot(b) => Roots = {}
        /\ \A b, c \in Browsers : CreatesRoot(b) /\ CreatesRoot(c) => b = c
    BY <1>4 DEF Inv, RootInv
  <2>3. /\ \A u, v \in Roots' : u = v
        /\ \A b \in Browsers : CreatesRoot(b)' => Roots' = {}
        /\ \A b, c \in Browsers : CreatesRoot(b)' /\ CreatesRoot(c)' => b = c
    BY <1>1, <2>1, <2>2
  <2> QED
    BY <1>2, <2>3 DEF RootInv
<1> QED
  BY <1>3, <1>4

\* Nobody resets a password, or is about to, and the codes stay.
LEMMA ResetAside ==
    ASSUME Inv, NEW b \in Browsers, NEW m, Become(b, m), m.pc \notin {"reset", "forget"}, ~Resets(b),
           contested \subseteq contested', UNCHANGED <<sent, spent, twice, code>>
    PROVE  ResetInv'
<1>1. /\ st'[b] = m /\ m.pc \notin {"reset", "forget"} /\ st[b].pc \notin {"reset", "forget"}
      /\ \A c \in Browsers \ {b} : st'[c] = st[c]
  BY Stepped DEF Inv, Shaped, Resets
<1>2. \A c \in Browsers : Resets(c) \/ Resets(c)' => c # b /\ st'[c] = st[c]
  BY <1>1 DEF Resets
<1>3. CodesInv'
  BY <1>1 DEF Inv, ResetInv, CodesInv
<1>4. CASE <<"reset", 0>> \notin contested
  BY <1>2, <1>3, <1>4 DEF Inv, ResetInv, Resets
<1>5. CASE <<"reset", 0>> \in contested
  BY <1>3, <1>5 DEF ResetInv
<1> QED
  BY <1>4, <1>5

\* A step aside keeps everything.
LEMMA AsideInv ==
    ASSUME Inv, NEW b \in Browsers, NEW m, Aside(b, m), Tame, UNCHANGED <<sent, spent, twice, code>>
    PROVE  Inv'
<1>1. DOMAIN st' = Browsers /\ st'[b] = m /\ \A c \in Browsers \ {b} : st'[c] = st[c]
  BY Stepped DEF Inv, Shaped, Aside
<1>2. Formed(m) /\ m.pc # "root"
  BY DEF Aside
<1>3. Shaped'
  BY <1>1, <1>2 DEF Inv, Shaped, Tame
<1>4. CopiesInv'
  <2>1. \A c \in Browsers : CopyOf(st[c])
    BY DEF Inv, CopiesInv
  <2>2. ASSUME NEW c \in Browsers PROVE CopyOf(st[c])'
    <3>1. PICK l : l = st'[c] /\ CopyOf(l)
      BY <1>1, <2>1 DEF Aside
    <3>2. CopyOf(l)'
      BY <3>1, CopyKept DEF Tame
    <3> QED
      BY <3>1, <3>2 DEF CopyOf
  <2> QED
    BY <2>2 DEF CopiesInv
<1>5. RootInv'
  BY <1>1, <1>2, RootAside DEF Aside
<1>6. ResetInv'
  BY ResetAside DEF Aside
<1> QED
  BY <1>3, <1>4, <1>5, <1>6 DEF Inv

\* Rows that nobody writes are tame, and a write where there is no row is none.
LEMMA Unwritten ==
    ASSUME Inv
    PROVE  /\ UNCHANGED row => Tame
           /\ \A u, x : u \notin Users /\ row' = [row EXCEPT ![u] = x] => Tame
<1>1. ASSUME DOMAIN row' = Users, \A u \in Users : row'[u] = row[u] PROVE Tame
  <2>1. Rows' = Rows
    BY <1>1 DEF Rows
  <2> QED
    BY <1>1, <2>1 DEF Inv, Shaped, Tame, Kept, Numbered, Rows
<1> QED
  BY <1>1 DEF Inv, Shaped

\* A step that concerns neither requests nor codes.
LEMMA StillInv ==
    ASSUME Inv, Tame, UNCHANGED <<st, sent, spent, twice, code>>, contested \subseteq contested'
    PROVE  Inv'
<1>1. Shaped'
  BY DEF Inv, Shaped, Tame
<1>2. CopiesInv'
  <2>1. \A c \in Browsers : CopyOf(st[c]) /\ st'[c] = st[c]
    BY DEF Inv, CopiesInv
  <2>2. ASSUME NEW c \in Browsers PROVE CopyOf(st[c])'
    <3>1. PICK l : l = st'[c] /\ CopyOf(l)
      BY <2>1
    <3>2. CopyOf(l)'
      BY <3>1, CopyKept DEF Tame
    <3> QED
      BY <3>1, <3>2 DEF CopyOf
  <2> QED
    BY <2>2 DEF CopiesInv
<1>3. RootInv'
  BY RootAside
<1>4. ResetInv'
  BY DEF Inv, ResetInv, CodesInv, Resets
<1> QED
  BY <1>1, <1>2, <1>3, <1>4 DEF Inv

(***************************************************************************)
(* The handlers that neither create nor reset.                             *)
(***************************************************************************)

\* A new row is one more than there are, and was none.
LEMMA Fresh ==
    ASSUME Inv, NEW r, NewRow(r), r.there # "none"
    PROVE  \E v \in Users \ Rows : /\ row' = [row EXCEPT ![v] = r] /\ v = MaxUserId + 1
                                   /\ Numbered' /\ Rows \subseteq Rows'
<1>1. PICK n \in Nat : Rows = 1..n
  BY DEF Inv, Shaped, Numbered
<1>2. MaxUserId = n
  BY <1>1, FS_Interval DEF MaxUserId
<1> DEFINE v == n + 1
<1>3. v \in Users \ Rows /\ row' = [row EXCEPT ![v] = r]
  BY <1>1, <1>2, IdentityAssumption DEF NewRow, Users
<1>4. \A u \in Users : row'[u] = IF u = v THEN r ELSE row[u]
  BY <1>3 DEF Inv, Shaped
<1>5. Rows' = Rows \cup {v}
  BY <1>3, <1>4 DEF Rows
<1>6. Rows' = 1..(n + 1) /\ n + 1 \in Nat
  BY <1>1, <1>5
<1> QED
  BY <1>2, <1>3, <1>5, <1>6 DEF Numbered

\* One row is written, and is there as before; if it is root's it stays so.
LEMMA OneRow ==
    ASSUME Inv, NEW u \in Rows, NEW r, row' = [row EXCEPT ![u] = r], Column \subseteq DOMAIN r,
           r.there # "none", r.root <=> row[u].root, row[u].root => r.there = row[u].there
    PROVE  Tame
<1>1. u \in Users /\ \A v \in Users : row'[v] = IF v = u THEN r ELSE row[v]
  BY DEF Inv, Shaped, Rows
<1>2. Rows' = Rows
  BY <1>1 DEF Rows
<1>3. Numbered'
  BY <1>2 DEF Inv, Shaped, Numbered
<1>4. Kept
  BY <1>1, <1>2 DEF Kept, Rows
<1> QED
  BY <1>1, <1>3, <1>4 DEF Inv, Shaped, Tame

\* New rows that are not root's, and those that are deleted.
LEMMA Written ==
    ASSUME Inv
    PROVE  /\ \A r : Column \subseteq DOMAIN r /\ ~r.root /\ r.there # "none" /\ NewRow(r) => Tame
           /\ \A u \in Users : Live(u) /\ ~row[u].root
                               /\ row' = [row EXCEPT ![u].there = "deleted"] => Tame
<1>1. ASSUME NEW r, Column \subseteq DOMAIN r, ~r.root, r.there # "none", NewRow(r) PROVE Tame
  <2>1. PICK v \in Users \ Rows : row' = [row EXCEPT ![v] = r] /\ Numbered' /\ Rows \subseteq Rows'
    BY <1>1, Fresh
  <2>2. \A u \in Users : row'[u] = IF u = v THEN r ELSE row[u]
    BY <2>1 DEF Inv, Shaped
  <2>3. Kept
    BY <2>1, <2>2 DEF Kept, Rows
  <2> QED
    BY <1>1, <2>1, <2>2, <2>3 DEF Inv, Shaped, Tame
<1>2. ASSUME NEW u \in Users, Live(u), ~row[u].root, row' = [row EXCEPT ![u].there = "deleted"]
      PROVE  Tame
  <2> DEFINE r == [row[u] EXCEPT !.there = "deleted"]
  <2>1. Column \subseteq DOMAIN r /\ r.there = "deleted" /\ r.root = row[u].root
    BY DEF Inv, Shaped, Column
  <2>2. u \in Rows /\ row' = [row EXCEPT ![u] = r]
    BY <1>2 DEF Live, Rows
  <2> HIDE DEF r
  <2> QED
    BY <1>2, <2>1, <2>2, OneRow
<1> QED
  BY <1>1, <1>2

\* A handler that neither creates nor resets is over, or goes on to m.
LEMMA AsideTo ==
    ASSUME Inv, NEW b \in Browsers, ~Resets(b), Tame, contested \subseteq contested',
           UNCHANGED <<sent, spent, twice, code>>,
           NEW m, Become(b, m), Formed(m), CopyOf(m), m.pc \notin {"root", "reset", "forget"}
    PROVE  Inv'
BY AsideInv DEF Aside

\* A provider's answer, and what is checked and done about it.
LEMMA OAuthInv ==
    ASSUME Inv, NEW b \in Browsers, OAuth(b)
    PROVE  Inv'
<1>0. Local \subseteq DOMAIN st[b]
  BY DEF Inv, Shaped, Formed
<1>1. CASE GenerateOAuthCode(b)
  BY <1>1, Unwritten, StillInv DEF GenerateOAuthCode, Codes
<1>2. ASSUME NEW p, NEW bind, Callback(b, p, bind) PROVE Inv'
  <2>1. Tame /\ contested \subseteq contested' /\ UNCHANGED <<sent, spent, twice, code>> /\ ~Resets(b)
    BY <1>2, Unwritten, Watched DEF Callback, Codes, Job, At, Resets
  <2>2. CASE UNCHANGED st
    BY <2>1, <2>2, StillInv
  <2>3. ASSUME NEW x, Become(b, [Idle EXCEPT !.pc = "check", !.for = p, !.who = x, !.bind = bind])
        PROVE  Inv'
    <3> DEFINE m == [Idle EXCEPT !.pc = "check", !.for = p, !.who = x, !.bind = bind]
    <3>1. Local \subseteq DOMAIN m /\ m.pc = "check"
      BY IdleFormed DEF Local
    <3> HIDE DEF m
    <3>2. Formed(m) /\ CopyOf(m)
      BY <3>1, Ordinary
    <3> QED
      BY <2>1, <2>3, <3>1, <3>2, AsideTo DEF m
  <2> QED
    BY <1>2, <2>2, <2>3 DEF Callback
<1>3. CASE Check(b)
  <2>1. Tame /\ contested \subseteq contested' /\ UNCHANGED <<sent, spent, twice, code>> /\ ~Resets(b)
    BY <1>3, Unwritten, Watched DEF Check, Codes, At, Resets
  <2>2. CASE Become(b, Idle)
    BY <2>1, <2>2, IdleFormed, AsideTo
  <2>3. ASSUME NEW pc \in {"bind", "fill"}, Goto(b, pc) PROVE Inv'
    <3> DEFINE m == [st[b] EXCEPT !.pc = pc]
    <3>1. Local \subseteq DOMAIN m /\ m.pc = pc
      BY <1>0 DEF Local
    <3> HIDE DEF m
    <3>2. Formed(m) /\ CopyOf(m)
      BY <3>1, Ordinary
    <3> QED
      BY <2>1, <2>3, <3>1, <3>2, AsideTo DEF m, Goto
  <2>4. ASSUME NEW name, NEW mail, NEW base,
               Become(b, [st[b] EXCEPT !.pc = "insert", !.name = name, !.mail = mail, !.base = base])
        PROVE  Inv'
    <3> DEFINE m == [st[b] EXCEPT !.pc = "insert", !.name = name, !.mail = mail, !.base = base]
    <3>1. Local \subseteq DOMAIN m /\ m.pc = "insert"
      BY <1>0 DEF Local
    <3> HIDE DEF m
    <3>2. Formed(m) /\ CopyOf(m)
      BY <3>1, Ordinary
    <3> QED
      BY <2>1, <2>4, <3>1, <3>2, AsideTo DEF m
  <2> QED
    BY <1>3, <2>2, <2>3, <2>4 DEF Check
<1>4. CASE Fill(b)
  BY <1>4, Unwritten, Watched, IdleFormed, AsideTo DEF Fill, Codes, At, Resets
<1>5. CASE Insert(b)
  <2>1. contested \subseteq contested' /\ UNCHANGED <<sent, spent, twice, code>> /\ ~Resets(b) /\ st[b].pc = "insert"
    BY <1>5, Watched DEF Insert, Codes, At, Resets
  <2>2. CASE UNCHANGED row
    <3>1. Become(b, Idle) \/ Become(b, [st[b] EXCEPT !.try = st[b].try + 1])
      BY <1>5 DEF Insert
    <3> DEFINE m == [st[b] EXCEPT !.try = st[b].try + 1]
    <3>2. Local \subseteq DOMAIN m /\ m.pc = "insert"
      BY <1>0, <2>1 DEF Local
    <3> HIDE DEF m
    <3>3. Tame /\ Formed(m) /\ CopyOf(m)
      BY <2>2, <3>2, Unwritten, Ordinary
    <3> QED
      BY <2>1, <3>1, <3>2, <3>3, IdleFormed, AsideTo DEF m
  <2>3. ASSUME NEW name, NEW p, NEW x, NEW mail, Become(b, Idle),
               NewRow([NoRow EXCEPT !.there = "live", !.name = name, !.ext[p] = x, !.mail = mail])
        PROVE  Inv'
    <3> DEFINE r == [NoRow EXCEPT !.there = "live", !.name = name, !.ext[p] = x, !.mail = mail]
    <3>1. Column \subseteq DOMAIN r /\ ~r.root /\ r.there # "none"
      BY DEF NoRow, Column
    <3> HIDE DEF r
    <3>2. Tame
      BY <2>3, <3>1, Written DEF r
    <3> QED
      BY <2>1, <2>3, <3>2, IdleFormed, AsideTo
  <2> QED
    BY <1>5, <2>2, <2>3 DEF Insert
<1> QED
  BY <1>1, <1>2, <1>3, <1>4, <1>5
     DEF OAuth, GitHubOAuth, GitHubBind, OidcAuth, OidcBind, LinuxdoOAuth, LinuxDoBind,
         WeChatAuth, WeChatBind, TelegramLogin, TelegramBind

\* A row that is read is of a live user, or is only to be updated: root's is live.
LEMMA ReadInv ==
    ASSUME Inv, NEW b \in Browsers, st[b].pc = "idle", Watch,
           UNCHANGED <<row, sent, spent, twice, code>>,
           NEW u \in Rows, NEW pc \in {"update", "save"}, pc = "save" => Live(u), ReadRow(b, u, pc)
    PROVE  Inv'
<1> DEFINE m == [Idle EXCEPT !.pc = pc, !.user = u, !.copy = row[u]]
<1>1. Local \subseteq DOMAIN m /\ m.pc = pc /\ m.for = "" /\ m.user = u /\ m.copy = row[u]
  BY DEF Idle, Local
<1>2. Become(b, m)
  BY DEF ReadRow
<1> HIDE DEF m
<1>3. "" \notin Providers
  BY IdentityAssumption DEF WithState
<1>4. Formed(m)
  BY <1>1, <1>3 DEF Formed, Inv, Shaped, Rows
<1>5. CopyOf(m)
  BY <1>1 DEF CopyOf, Inv, RootInv, Roots, Live, Rows
<1> QED
  BY <1>1, <1>2, <1>4, <1>5, Unwritten, Watched, AsideTo DEF Resets

\* A copy that is written over its row deletes no root user, and makes none.
LEMMA WriteBackInv ==
    ASSUME Inv, NEW b \in Browsers, WriteBack(b)
    PROVE  Inv'
<1>1. CASE FillUserById(b)
  <2>1. PICK u \in Users :
          LET p == st[b].for  read == IF Live(u) THEN row[u] ELSE NoRow IN
          Become(b, [st[b] EXCEPT !.pc = "update", !.user = u,
                       !.copy = IF At(b, "bind") THEN [read EXCEPT !.ext[p] = st[b].who]
                                ELSE [read EXCEPT !.mail = st[b].mail]])
    BY <1>1 DEF FillUserById
  <2> DEFINE read == IF Live(u) THEN row[u] ELSE NoRow
             copy == IF At(b, "bind") THEN [read EXCEPT !.ext[st[b].for] = st[b].who]
                     ELSE [read EXCEPT !.mail = st[b].mail]
             m == [st[b] EXCEPT !.pc = "update", !.user = u, !.copy = copy]
  <2>2. Become(b, m)
    BY <2>1
  <2>3. copy.there # "deleted"
    <3>1. Column \subseteq DOMAIN read /\ read.there # "deleted"
      BY DEF Inv, Shaped, Live, NoRow, Column
    <3> HIDE DEF read
    <3> QED
      BY <3>1 DEF Column
  <2> HIDE DEF copy
  <2>4. Local \subseteq DOMAIN m /\ m.pc = "update" /\ m.copy = copy
    BY DEF Inv, Shaped, Formed, Local
  <2> HIDE DEF m
  <2>5. Formed(m) /\ CopyOf(m)
    BY <2>3, <2>4 DEF Formed, CopyOf
  <2> QED
    BY <1>1, <2>2, <2>4, <2>5, Unwritten, Watched, AsideTo DEF FillUserById, At, Codes, Resets
<1>2. CASE UpdateUserSetting(b) \/ ManageUser(b) \/ CheckIn(b)
  <2>1. \E u \in Rows, pc \in {"update", "save"} : (pc = "save" => Live(u)) /\ ReadRow(b, u, pc)
    BY <1>2 DEF UpdateUserSetting, ManageUser, CheckIn, Live, Rows
  <2> QED
    BY <1>2, <2>1, ReadInv DEF UpdateUserSetting, ManageUser, CheckIn, Job, At, Codes
<1>3. CASE Update(b)
  <2> DEFINE u == st[b].user
             copy == st[b].copy
  <2>1. CASE ~Live(u)
    BY <1>3, <2>1, Unwritten, Watched, IdleFormed, AsideTo DEF Update, At, Codes, Resets
  <2>2. CASE Live(u) /\ u \notin Users
    BY <1>3, <2>2, Unwritten, Watched, IdleFormed, AsideTo DEF Update, At, Codes, Resets
  <2>3. CASE Live(u) /\ u \in Users
    <3> DEFINE r == Updates(row[u], copy)
    <3>1. u \in Rows /\ row' = [row EXCEPT ![u] = r]
      BY <1>3, <2>3 DEF Update, Live, Rows
    <3>2. Column \subseteq DOMAIN row[u]
      BY <2>3 DEF Inv, Shaped
    <3>3. /\ Column \subseteq DOMAIN r /\ r.root = row[u].root
          /\ r.there = IF copy.there = "deleted" THEN "deleted" ELSE row[u].there
      BY <3>2 DEF Updates, Column
    <3>4. copy.there = "deleted" => ~row[u].root
      BY <1>3 DEF Update, At, Inv, CopiesInv, CopyOf
    <3> HIDE DEF r
    <3>5. Tame
      BY <2>3, <3>1, <3>3, <3>4, OneRow DEF Live
    <3> QED
      BY <1>3, <3>5, Watched, IdleFormed, AsideTo DEF Update, At, Codes, Resets
  <2> QED
    BY <2>1, <2>2, <2>3
<1>4. CASE Save(b)
  <2> DEFINE u == st[b].user
             copy == st[b].copy
  <2>1. /\ st[b].pc = "save"
        /\ UNCHANGED row \/ row' = [row EXCEPT ![u] = copy]
        /\ u \in Rows /\ copy.there = "live" /\ (copy.root <=> row[u].root)
        /\ Column \subseteq DOMAIN copy
    BY <1>4 DEF Save, At, Inv, CopiesInv, CopyOf, Shaped, Formed
  <2>2. row[u].root => row[u].there = "live"
    BY <2>1 DEF Inv, RootInv, Roots, Live, Rows
  <2> HIDE DEF u, copy
  <2>3. CASE UNCHANGED row
    BY <1>4, <2>1, <2>3, Unwritten, Watched, IdleFormed, AsideTo DEF Save, Codes, Resets
  <2>4. CASE row' = [row EXCEPT ![u] = copy]
    <3>1. Tame
      BY <2>1, <2>2, <2>4, OneRow
    <3> QED
      BY <1>4, <2>1, <3>1, Watched, IdleFormed, AsideTo DEF Save, Codes, Resets
  <2> QED
    BY <2>1, <2>3, <2>4
<1> QED
  BY <1>1, <1>2, <1>3, <1>4 DEF WriteBack

\* Sessions and registrations.
LEMMA AccountInv ==
    ASSUME Inv, NEW b \in Browsers, Account(b)
    PROVE  Inv'
<1>1. CASE Login(b) \/ Logout(b)
  BY <1>1, Unwritten, StillInv DEF Login, Logout, Codes
<1>2. CASE DeleteSelf(b)
  <2> DEFINE u == session[b]
  <2>1. Live(u) /\ ~row[u].root /\ row' = [row EXCEPT ![u].there = "deleted"]
    BY <1>2 DEF DeleteSelf
  <2> HIDE DEF u
  <2>2. CASE u \in Users
    BY <1>2, <2>1, <2>2, Written, StillInv DEF DeleteSelf, Codes
  <2>3. CASE u \notin Users
    BY <1>2, <2>1, <2>3, Unwritten, StillInv DEF DeleteSelf, Codes
  <2> QED
    BY <2>2, <2>3
<1>3. CASE Register(b)
  <2>1. Tame /\ contested \subseteq contested' /\ UNCHANGED <<sent, spent, twice, code>> /\ ~Resets(b)
    BY <1>3, Unwritten, Watched DEF Register, Codes, Job, At, Resets
  <2>2. PICK n \in Names, mail \in Mails :
          Become(b, [Idle EXCEPT !.pc = "register", !.name = Named(n), !.mail = mail])
    BY <1>3 DEF Register
  <2> DEFINE m == [Idle EXCEPT !.pc = "register", !.name = Named(n), !.mail = mail]
  <2>3. Local \subseteq DOMAIN m /\ m.pc = "register"
    BY IdleFormed DEF Local
  <2> HIDE DEF m
  <2>4. Formed(m) /\ CopyOf(m)
    BY <2>3, Ordinary
  <2> QED
    BY <2>1, <2>2, <2>3, <2>4, AsideTo DEF m
<1>4. CASE InsertUser(b)
  <2>1. contested \subseteq contested' /\ UNCHANGED <<sent, spent, twice, code>> /\ ~Resets(b) /\ Become(b, Idle)
    BY <1>4, Watched DEF InsertUser, Codes, At, Resets
  <2>2. ASSUME NEW name, NEW mail
        PROVE  LET r == [NoRow EXCEPT !.there = "live", !.name = name, !.mail = mail]
               IN Column \subseteq DOMAIN r /\ ~r.root /\ r.there # "none"
    BY DEF NoRow, Column
  <2>3. Tame
    BY <1>4, <2>2, Unwritten, Written DEF InsertUser
  <2> QED
    BY <2>1, <2>3, IdleFormed, AsideTo
<1> QED
  BY <1>1, <1>2, <1>3, <1>4 DEF Account

(***************************************************************************)
(* Codes.                                                                  *)
(***************************************************************************)

\* The codes that were sent are 1..n, and the next one is n + 1.
LEMMA NextIsNew ==
    ASSUME CodesInv
    PROVE  \E n \in Nat : sent["verify"] \cup sent["reset"] = 1..n /\ NextCode = n + 1
<1>1. PICK n \in Nat : sent["verify"] \cup sent["reset"] = 1..n
  BY DEF CodesInv
<1>2. UNION {sent[p] : p \in Purposes} = 1..n
  BY <1>1 DEF Purposes
<1>3. Cardinality(1..n) = n
  BY FS_Interval
<1> QED
  BY <1>1, <1>2, <1>3 DEF NextCode

\* A code that is sent has not been used.
LEMMA SendInv ==
    ASSUME Inv, NEW b, NEW purpose \in Purposes, SendCode(b, purpose)
    PROVE  Inv'
<1>1. /\ UNCHANGED <<row, st, spent, twice, contested>>
      /\ code' = [code EXCEPT ![purpose] = NextCode]
      /\ sent' = [sent EXCEPT ![purpose] = @ \cup {NextCode}]
  BY DEF SendCode
<1>2. PICK n \in Nat : sent["verify"] \cup sent["reset"] = 1..n /\ NextCode = n + 1
  BY NextIsNew DEF Inv, ResetInv
<1>3. CodesInv
  BY DEF Inv, ResetInv
<1>4. NextCode \notin spent
  BY <1>2, <1>3 DEF CodesInv
<1>5. CodesInv'
  <2>1. sent'["verify"] \cup sent'["reset"] = 1..n \cup {NextCode}
    BY <1>1, <1>2, <1>3 DEF CodesInv, Purposes
  <2>2. 1..n \cup {NextCode} = 1..(n + 1)
    BY <1>2
  <2>3. sent["reset"] \subseteq sent'["reset"]
    BY <1>1, <1>3 DEF CodesInv, Purposes
  <2>4. code'["reset"] \in sent'["reset"] \cup {0}
    BY <1>1, <1>3, <2>3 DEF CodesInv, Purposes
  <2>5. DOMAIN sent' = Purposes /\ DOMAIN code' = Purposes
    BY <1>1, <1>3 DEF CodesInv
  <2>6. n + 1 \in Nat /\ sent'["verify"] \cup sent'["reset"] = 1..(n + 1)
    BY <2>1, <2>2
  <2> QED
    BY <1>1, <1>3, <2>3, <2>4, <2>5, <2>6 DEF CodesInv
<1>6. code'["reset"] \in spent => code["reset"] \in spent
  BY <1>1, <1>3, <1>4 DEF CodesInv, Purposes
<1>7. ResetInv'
  BY <1>1, <1>5, <1>6 DEF Inv, ResetInv, Resets
<1>8. Shaped' /\ CopiesInv' /\ RootInv'
  BY <1>1, Unwritten, RootAside DEF Inv, Shaped, Numbered, CopiesInv, CopyOf, Rows
<1> QED
  BY <1>7, <1>8 DEF Inv

\* No code is 0.
LEMMA NeverZero == CodesInv => 0 \notin spent
BY DEF CodesInv

\* A code that is forgotten was used, or is not any more.
LEMMA ExpireInv ==
    ASSUME Inv, NEW purpose \in Purposes, CodeExpires(purpose)
    PROVE  Inv'
<1>1. /\ UNCHANGED <<row, st, sent, spent, twice, contested>>
      /\ code' = [code EXCEPT ![purpose] = 0]
  BY DEF CodeExpires
<1>2. CodesInv /\ 0 \notin spent
  BY NeverZero DEF Inv, ResetInv
<1>3. code'["reset"] \in {0, code["reset"]} /\ DOMAIN code' = Purposes
  BY <1>1, <1>2 DEF CodesInv, Purposes
<1>4. CodesInv'
  BY <1>1, <1>2, <1>3 DEF CodesInv
<1>5. ResetInv'
  BY <1>1, <1>2, <1>3, <1>4 DEF Inv, ResetInv, Resets
<1>6. Shaped' /\ CopiesInv' /\ RootInv'
  BY <1>1, Unwritten, RootAside DEF Inv, Shaped, Numbered, CopiesInv, CopyOf, Rows
<1> QED
  BY <1>5, <1>6 DEF Inv

\* A password is reset in a step that has to do with no row.
LEMMA ResettingShaped ==
    ASSUME Inv, NEW b \in Browsers, NEW m, Become(b, m), Formed(m), CopyOf(m), m.pc # "root",
           UNCHANGED row, contested \subseteq contested'
    PROVE  Shaped' /\ CopiesInv' /\ RootInv'
<1>1. DOMAIN st' = Browsers /\ st'[b] = m /\ \A c \in Browsers \ {b} : st'[c] = st[c]
  BY Stepped DEF Inv, Shaped
<1>2. Shaped'
  BY <1>1 DEF Inv, Shaped, Numbered, Rows
<1>3. RootInv'
  BY <1>1, Unwritten, RootAside
<1>4. CopiesInv'
  BY <1>1 DEF Inv, CopiesInv, CopyOf, Rows
<1> QED
  BY <1>2, <1>3, <1>4

\* The code that is looked up has not been used, or two are at it.
LEMMA ResetPasswordInv ==
    ASSUME Inv, NEW b \in Browsers, ResetPassword(b)
    PROVE  Inv'
<1>1. PICK k \in sent["reset"] : /\ k = code["reset"]
                                 /\ Become(b, [Idle EXCEPT !.pc = "reset", !.for = "reset", !.k = k])
  BY DEF ResetPassword, VerifyCodeWithKey
<1>2. Watch /\ contested \subseteq contested' /\ UNCHANGED <<row, code, sent, spent, twice>>
  BY Watched DEF ResetPassword, Codes
<1> DEFINE m == [Idle EXCEPT !.pc = "reset", !.for = "reset", !.k = k]
<1>3. Formed(m) /\ CopyOf(m) /\ m.pc = "reset" /\ Matter(m) = <<"reset", 0>> /\ m.for = "reset" /\ m.k = k
  BY IdleFormed DEF Formed, CopyOf, Local, Matter
<1> HIDE DEF m
<1>4. Become(b, m)
  BY <1>1 DEF m
<1>5. DOMAIN st' = Browsers /\ st'[b] = m /\ \A c \in Browsers \ {b} : st'[c] = st[c]
  BY <1>4, Stepped DEF Inv, Shaped
<1>6. CodesInv'
  BY <1>1, <1>2, <1>3, <1>5 DEF Inv, ResetInv, CodesInv
<1>7. ASSUME <<"reset", 0>> \notin contested'
      PROVE  \A c \in Browsers : Resets(c)' => c = b
  <2> SUFFICES ASSUME NEW c \in Browsers, Resets(c)', c # b PROVE FALSE
    OBVIOUS
  <2>1. Acts(st'[c]) /\ Matter(st'[c]) = <<"reset", 0>>
    BY <1>5 DEF Resets, Acts, Checked, Inv, Shaped, Formed, Matter
  <2>2. Acts(st'[b]) /\ Matter(st'[b]) = <<"reset", 0>>
    BY <1>3, <1>5 DEF Acts, Checked
  <2> QED
    BY <1>2, <1>7, <2>1, <2>2, Seen
<1>8. ASSUME <<"reset", 0>> \notin contested'
      PROVE  /\ twice' = {}
             /\ \A c \in Browsers : st'[c].pc = "reset" => st'[c].k \notin spent'
             /\ code'["reset"] \in spent' => \E c \in Browsers : st'[c].pc = "forget"
             /\ \A c, d \in Browsers : Resets(c)' /\ Resets(d)' => c = d
  <2>1. <<"reset", 0>> \notin contested
    BY <1>2, <1>8
  <2>2. st[b].pc = "idle"
    BY DEF ResetPassword, Job, At
  <2>3. ~\E c \in Browsers : st[c].pc = "forget"
    BY <1>5, <1>7, <1>8, <2>2 DEF Resets
  <2>4. k \notin spent
    BY <1>1, <2>1, <2>3 DEF Inv, ResetInv
  <2> QED
    BY <1>1, <1>2, <1>3, <1>5, <1>7, <1>8, <2>1, <2>4 DEF Inv, ResetInv, Resets
<1>9. ResetInv'
  BY <1>6, <1>8 DEF ResetInv
<1>10. Shaped' /\ CopiesInv' /\ RootInv'
  BY <1>2, <1>3, <1>4, ResettingShaped
<1> QED
  BY <1>9, <1>10 DEF Inv

\* The password is changed, and whoever did it deletes the code.
LEMMA ResetUserPasswordInv ==
    ASSUME Inv, NEW b \in Browsers, ResetUserPasswordByEmail(b)
    PROVE  Inv'
<1>1. /\ st[b].pc = "reset" /\ Become(b, [st[b] EXCEPT !.pc = "forget"])
      /\ contested \subseteq contested' /\ UNCHANGED <<row, code, sent>>
      /\ spent' = spent \cup {st[b].k}
      /\ twice' = IF st[b].k \in spent THEN twice \cup {st[b].k} ELSE twice
  BY Watched DEF ResetUserPasswordByEmail, At, Goto
<1> DEFINE m == [st[b] EXCEPT !.pc = "forget"]
<1>2. Formed(m) /\ CopyOf(m) /\ m.pc = "forget"
  BY <1>1 DEF Inv, Shaped, Formed, CopyOf, Local, Matter
<1> HIDE DEF m
<1>3. Become(b, m)
  BY <1>1 DEF m
<1>4. DOMAIN st' = Browsers /\ st'[b] = m /\ \A c \in Browsers \ {b} : st'[c] = st[c]
  BY <1>3, Stepped DEF Inv, Shaped
<1>5. CodesInv'
  BY <1>1, <1>2, <1>4 DEF Inv, ResetInv, CodesInv
<1>6. ASSUME <<"reset", 0>> \notin contested'
      PROVE  /\ twice' = {}
             /\ \A c \in Browsers : st'[c].pc = "reset" => st'[c].k \notin spent'
             /\ code'["reset"] \in spent' => \E c \in Browsers : st'[c].pc = "forget"
             /\ \A c, d \in Browsers : Resets(c)' /\ Resets(d)' => c = d
  <2>1. <<"reset", 0>> \notin contested
    BY <1>1, <1>6
  <2>2. \A c \in Browsers : Resets(c)' => c = b
    BY <1>1, <1>4, <2>1 DEF Inv, ResetInv, Resets
  <2>3. twice' = {}
    BY <1>1, <2>1 DEF Inv, ResetInv
  <2> QED
    BY <1>2, <1>4, <2>2, <2>3 DEF Resets
<1>7. ResetInv'
  BY <1>5, <1>6 DEF ResetInv
<1>8. Shaped' /\ CopiesInv' /\ RootInv'
  BY <1>1, <1>2, <1>3, ResettingShaped
<1> QED
  BY <1>7, <1>8 DEF Inv

\* With the code gone, no used code is there.
LEMMA DeleteKeyInv ==
    ASSUME Inv, NEW b \in Browsers, DeleteKey(b)
    PROVE  Inv'
<1>1. /\ st[b].pc = "forget" /\ Become(b, Idle) /\ contested \subseteq contested'
      /\ UNCHANGED <<row, sent, spent, twice>> /\ code' = [code EXCEPT !["reset"] = 0]
  BY Watched DEF DeleteKey, At
<1>2. DOMAIN st' = Browsers /\ st'[b] = Idle /\ \A c \in Browsers \ {b} : st'[c] = st[c]
  BY <1>1, Stepped DEF Inv, Shaped
<1>3. CodesInv /\ 0 \notin spent
  BY NeverZero DEF Inv, ResetInv
<1>4. code'["reset"] = 0 /\ DOMAIN code' = Purposes
  BY <1>1, <1>3 DEF CodesInv, Purposes
<1>5. CodesInv'
  BY <1>1, <1>2, <1>3, <1>4, IdleFormed DEF CodesInv
<1>6. \A c \in Browsers : Resets(c)' => c # b /\ st'[c] = st[c] /\ Resets(c)
  BY <1>2, IdleFormed DEF Resets
<1>7. ResetInv'
  BY <1>1, <1>3, <1>4, <1>5, <1>6 DEF Inv, ResetInv, Resets
<1>8. Shaped' /\ CopiesInv' /\ RootInv'
  BY <1>1, IdleFormed, ResettingShaped
<1> QED
  BY <1>7, <1>8 DEF Inv

\* Mail, for an address or a password.
LEMMA MailInv ==
    ASSUME Inv, NEW b \in Browsers, Mail(b)
    PROVE  Inv'
<1>1. CASE SendEmailVerification(b) \/ SendPasswordResetEmail(b)
  BY <1>1, SendInv DEF SendEmailVerification, SendPasswordResetEmail, Purposes
<1>2. CASE EmailBind(b)
  <2>1. Tame /\ contested \subseteq contested' /\ UNCHANGED <<sent, spent, twice, code>> /\ ~Resets(b)
    BY <1>2, Unwritten, Watched DEF EmailBind, Codes, Job, At, Resets
  <2>2. PICK mail : Become(b, [Idle EXCEPT !.pc = "mail", !.mail = mail])
    BY <1>2 DEF EmailBind
  <2> DEFINE m == [Idle EXCEPT !.pc = "mail", !.mail = mail]
  <2>3. Local \subseteq DOMAIN m /\ m.pc = "mail" /\ m.for = "" /\ "" \notin Providers
    BY IdleFormed, IdentityAssumption DEF Local, WithState
  <2> HIDE DEF m
  <2>4. Formed(m) /\ CopyOf(m)
    BY <2>3 DEF Formed, CopyOf
  <2> QED
    BY <2>1, <2>2, <2>3, <2>4, AsideTo DEF m
<1> QED
  BY <1>1, <1>2, ResetPasswordInv, ResetUserPasswordInv, DeleteKeyInv DEF Mail

(***************************************************************************)
(* The first set-up.                                                       *)
(***************************************************************************)

\* Whoever finds no root user is alone in that, or two are seen.
LEMMA PostSetupInv ==
    ASSUME Inv, NEW b \in Browsers, PostSetup(b)
    PROVE  Inv'
<1>1. /\ Watch /\ contested \subseteq contested' /\ UNCHANGED <<row, code, sent, spent, twice>>
      /\ ~Resets(b) /\ st[b].pc = "idle"
  BY Watched DEF PostSetup, Codes, Job, At, Resets
<1>2. PICK n \in Names : Become(b, [Idle EXCEPT !.pc = IF RootUserExists THEN "options" ELSE "root",
                                               !.for = "root", !.name = Named(n)])
  BY DEF PostSetup
<1> DEFINE pc == IF RootUserExists THEN "options" ELSE "root"
           m == [Idle EXCEPT !.pc = pc, !.for = "root", !.name = Named(n)]
<1>3. Formed(m) /\ CopyOf(m) /\ m.pc = pc /\ m.for = "root" /\ Matter(m) = <<"root", 0>>
  BY IdleFormed DEF Formed, CopyOf, Local, Matter
<1>4. Become(b, m)
  BY <1>2
<1> HIDE DEF m
<1>5. DOMAIN st' = Browsers /\ st'[b] = m /\ \A c \in Browsers \ {b} : st'[c] = st[c]
  BY <1>4, Stepped DEF Inv, Shaped
<1>6. CASE RootUserExists
  BY <1>1, <1>3, <1>4, <1>6, Unwritten, AsideTo
<1>7. CASE ~RootUserExists
  <2>1. Roots = {}
    BY <1>7 DEF Inv, RootInv, Roots, RootUserExists
  <2>2. Roots' = {}
    BY <1>1, <2>1 DEF Roots
  <2>3. ASSUME <<"root", 0>> \notin contested'
        PROVE  \A c \in Browsers : CreatesRoot(c)' => c = b
    <3> SUFFICES ASSUME NEW c \in Browsers, CreatesRoot(c)', c # b PROVE FALSE
      OBVIOUS
    <3>1. Acts(st'[c]) /\ Matter(st'[c]) = <<"root", 0>>
      BY <1>5 DEF CreatesRoot, Acts, Checked, Inv, Shaped, Formed, Matter
    <3>2. Acts(st'[b]) /\ Matter(st'[b]) = <<"root", 0>>
      BY <1>3, <1>5, <1>7 DEF Acts, Checked
    <3> QED
      BY <1>1, <2>3, <3>1, <3>2, Seen
  <2>4. RootInv'
    BY <2>2, <2>3 DEF RootInv
  <2>5. ResetInv'
    BY <1>1, <1>3, <1>4, <1>7, ResetAside
  <2>6. Shaped' /\ CopiesInv'
    BY <1>1, <1>3, <1>5 DEF Inv, Shaped, Numbered, CopiesInv, CopyOf, Rows
  <2> QED
    BY <2>4, <2>5, <2>6 DEF Inv
<1> QED
  BY <1>6, <1>7

\* The root user is created where there was none, by the only one at it.
LEMMA CreateRootInv ==
    ASSUME Inv, NEW b \in Browsers, CreateRoot(b)
    PROVE  Inv'
<1>1. /\ contested \subseteq contested' /\ UNCHANGED <<code, sent, spent, twice>>
      /\ ~Resets(b) /\ CreatesRoot(b)
  BY Watched DEF CreateRoot, Codes, At, Resets, CreatesRoot
<1>2. CASE UNCHANGED row /\ Become(b, Idle)
  BY <1>1, <1>2, Unwritten, IdleFormed, AsideTo
<1>3. ASSUME NewRow([NoRow EXCEPT !.there = "live", !.root = TRUE, !.name = st[b].name]), Goto(b, "options")
      PROVE  Inv'
  <2> DEFINE r == [NoRow EXCEPT !.there = "live", !.root = TRUE, !.name = st[b].name]
             m == [st[b] EXCEPT !.pc = "options"]
  <2>1. Column \subseteq DOMAIN r /\ r.there = "live"
    BY DEF NoRow, Column
  <2>2. Formed(m) /\ CopyOf(m) /\ m.pc = "options"
    BY Ordinary DEF Inv, Shaped, Formed, Local
  <2>3. NewRow(r) /\ Become(b, m)
    BY <1>3 DEF Goto
  <2> HIDE DEF r, m
  <2>4. DOMAIN st' = Browsers /\ st'[b] = m /\ \A c \in Browsers \ {b} : st'[c] = st[c]
    BY <2>3, Stepped DEF Inv, Shaped
  <2>5. PICK v \in Users \ Rows : row' = [row EXCEPT ![v] = r] /\ Numbered' /\ Rows \subseteq Rows'
    BY <2>1, <2>3, Fresh
  <2>6. Shaped'
    BY <2>1, <2>2, <2>4, <2>5 DEF Inv, Shaped
  <2>7. \A u \in Users : IF u = v THEN row'[u] = r ELSE row'[u] = row[u]
    BY <2>5 DEF Inv, Shaped
  <2>12. Kept
    BY <2>5, <2>7 DEF Kept, Rows
  <2>13. CopiesInv'
    <3>1. ASSUME NEW c \in Browsers PROVE CopyOf(st[c])'
      <4>1. PICK l : l = st'[c] /\ CopyOf(l)
        BY <2>2, <2>4 DEF Inv, CopiesInv
      <4>2. CopyOf(l)'
        BY <2>12, <4>1, CopyKept
      <4> QED
        BY <4>1, <4>2 DEF CopyOf
    <3> QED
      BY <3>1 DEF CopiesInv
  <2>8. \A u \in Roots' : Live(u)'
    BY <2>1, <2>7 DEF Inv, RootInv, Roots, Live
  <2>9. ASSUME <<"root", 0>> \notin contested'
        PROVE  /\ \A u, w \in Roots' : u = w
               /\ \A c \in Browsers : ~CreatesRoot(c)'
    <3>1. Roots = {} /\ \A c \in Browsers : CreatesRoot(c) => c = b
      BY <1>1, <2>9 DEF Inv, RootInv
    <3>2. \A u \in Roots' : u = v
      BY <2>7, <3>1 DEF Roots
    <3>3. \A c \in Browsers : ~CreatesRoot(c)'
      BY <2>2, <2>4, <3>1 DEF CreatesRoot
    <3> QED
      BY <3>2, <3>3
  <2>10. RootInv'
    BY <2>8, <2>9 DEF RootInv
  <2>11. ResetInv'
    BY <1>1, <2>2, <2>3, ResetAside
  <2> QED
    BY <2>6, <2>10, <2>11, <2>13 DEF Inv
<1> QED
  BY <1>2, <1>3 DEF CreateRoot

\* The options are saved.
LEMMA FinishSetupInv ==
    ASSUME Inv, NEW b \in Browsers, FinishSetup(b)
    PROVE  Inv'
BY Unwritten, Watched, IdleFormed, AsideTo DEF FinishSetup, Codes, At, Resets

\* A restart ends every request, and forgets the codes.
LEMMA RestartInv ==
    ASSUME Inv, Restart
    PROVE  Inv'
<1>1. /\ UNCHANGED <<row, sent, spent, twice, contested>>
      /\ st' = [b \in Browsers |-> Idle] /\ code' = [p \in Purposes |-> 0]
  BY DEF Restart
<1>2. CodesInv /\ 0 \notin spent
  BY NeverZero DEF Inv, ResetInv
<1>3. \A b \in Browsers : st'[b] = Idle
  BY <1>1
<1>4. Shaped' /\ CopiesInv'
  BY <1>1, <1>3, IdleFormed DEF Inv, Shaped, Numbered, CopiesInv, CopyOf, Rows
<1>5. RootInv'
  BY <1>1, <1>3, IdleFormed, Unwritten, RootAside
<1>6. CodesInv' /\ code'["reset"] = 0
  BY <1>1, <1>2, <1>3, IdleFormed DEF CodesInv, Purposes
<1>7. ResetInv'
  <2>1. \A b \in Browsers : st'[b].pc = "idle"
    BY <1>3, IdleFormed
  <2>2. code'["reset"] \notin spent'
    BY <1>1, <1>2, <1>6
  <2> QED
    BY <1>1, <1>6, <2>1, <2>2 DEF Inv, ResetInv, Resets
<1> QED
  BY <1>4, <1>5, <1>7 DEF Inv

(***************************************************************************)
(* The theorems.                                                           *)
(***************************************************************************)

\* The server starts with a root user or without, and nothing under way.
LEMMA InitInv == Init => Inv
<1> SUFFICES ASSUME Init PROVE Inv
  OBVIOUS
<1>1. row \in Tables
  BY DEF Init
<1>2. /\ DOMAIN row = Users /\ \A u \in Users : Column \subseteq DOMAIN row[u]
      /\ \A u \in Users : row[u].root => row[u].there = "live"
      /\ \A u, v \in Roots : u = v
      /\ Numbered
  BY <1>1, TablesAssumption DEF RowType, Column, Roots, Numbered, Rows
<1>3. /\ st = [b \in Browsers |-> Idle] /\ code = [p \in Purposes |-> 0] /\ sent = [p \in Purposes |-> {}]
      /\ spent = {} /\ twice = {}
  BY DEF Init
<1>4. Shaped /\ CopiesInv
  BY <1>2, <1>3, IdleFormed DEF Shaped, CopiesInv
<1>5. RootInv
  BY <1>2, <1>3, IdleFormed DEF RootInv, Roots, Live, CreatesRoot
<1>6. sent["verify"] \cup sent["reset"] = 1..0 /\ code["reset"] = 0
  BY <1>3 DEF Purposes
<1>7. ResetInv
  <2>1. \A b \in Browsers : st[b].pc = "idle"
    BY <1>3, IdleFormed
  <2>2. \E n \in Nat : sent["verify"] \cup sent["reset"] = 1..n
    BY <1>6
  <2>3. spent \subseteq sent["reset"] /\ DOMAIN sent = Purposes /\ DOMAIN code = Purposes
    BY <1>3
  <2>4. CodesInv
    BY <1>6, <2>1, <2>2, <2>3 DEF CodesInv
  <2>5. code["reset"] \notin spent /\ \A b \in Browsers : ~Resets(b)
    BY <1>3, <2>1 DEF Resets
  <2> QED
    BY <1>3, <2>1, <2>4, <2>5 DEF ResetInv
<1> QED
  BY <1>4, <1>5, <1>7 DEF Inv

\* Every step keeps the invariant.
LEMMA NextInv == Inv /\ [Next]_vars => Inv'
<1> SUFFICES ASSUME Inv, [Next]_vars PROVE Inv'
  OBVIOUS
<1>1. ASSUME NEW b \in Browsers, OAuth(b) \/ WriteBack(b) \/ Account(b) \/ Mail(b) PROVE Inv'
  BY <1>1, OAuthInv, WriteBackInv, AccountInv, MailInv
<1>2. ASSUME NEW b \in Browsers, SetUp(b) PROVE Inv'
  BY <1>2, PostSetupInv, CreateRootInv, FinishSetupInv DEF SetUp
<1>3. ASSUME NEW p \in Purposes, CodeExpires(p) PROVE Inv'
  BY <1>3, ExpireInv
<1>4. CASE Restart
  BY <1>4, RestartInv
<1>5. CASE UNCHANGED vars
  BY <1>5, Unwritten, StillInv DEF vars
<1> QED
  BY <1>1, <1>2, <1>3, <1>4, <1>5 DEF Next

\* The invariant is inductive.
THEOREM InvHolds == Spec => []Inv
BY InitInv, NextInv, PTL DEF Spec

\* A set-up that is interrupted and begun again creates one root user at most,
\* unless two had both found none.
THEOREM OneRootAlways == Spec => []OneRoot
<1>1. Inv => OneRoot
  <2> SUFFICES ASSUME Inv, <<"root", 0>> \notin contested
               PROVE  Cardinality({u \in Rows : row[u].root}) <= 1
    BY DEF OneRoot
  <2>1. {u \in Rows : row[u].root} \subseteq Roots
    BY DEF Rows, Roots
  <2>2. CASE {u \in Rows : row[u].root} = {}
    BY <2>2, FS_EmptySet
  <2>3. ASSUME NEW u \in {v \in Rows : row[v].root}
        PROVE  Cardinality({v \in Rows : row[v].root}) <= 1
    <3>1. \A v \in Roots : v = u
      BY <2>1 DEF Inv, RootInv
    <3>2. {v \in Rows : row[v].root} = {u}
      BY <2>1, <3>1
    <3>3. Cardinality({u}) = 1
      BY FS_Singleton
    <3> QED
      BY <3>2, <3>3
  <2> QED
    BY <2>2, <2>3
<1> QED
  BY <1>1, InvHolds, PTL

\* A link to reset a password changes it once, unless it was opened twice at the
\* same time: no code that was used is ever found again.
THEOREM ResetOnceAlways == Spec => []ResetOnce
<1>1. Inv => ResetOnce
  BY DEF Inv, ResetInv, ResetOnce
<1> QED
  BY <1>1, InvHolds, PTL

(***************************************************************************)
(* One account per person.  Whoever has found an identity free, and has    *)
(* not acted on it yet, is alone in that as long as nothing was contested, *)
(* and the identity is still free unless a copy of a row brought it back.  *)
(***************************************************************************)

\* b has found x of p free.
Claims(b, p, x) == st[b].pc \in {"bind", "update", "insert"} /\ Matter(st[b]) = <<p, x>>

\* One row at most holds x of p, and one request at most has found x free.
OnePerson(p, x) ==
  /\ \A u, v \in Carrying(p, x) : u = v
  /\ \A b \in Browsers : Claims(b, p, x) => Carrying(p, x) = {}
  /\ \A b, c \in Browsers : Claims(b, p, x) /\ Claims(c, p, x) => b = c

PersonInv ==
  \A p \in Providers : \A x \in People[p] : <<p, x>> \notin contested \cup restored => OnePerson(p, x)

\* An identity that at most one row holds, and that is not taken, is nobody's.
LEMMA FreeIsNobodys ==
    ASSUME NEW p \in Providers, NEW x, ~Taken(p, x), \A u, v \in Carrying(p, x) : u = v
    PROVE  Carrying(p, x) = {}
<1>1. p \in WithState \cup {"wechat", "telegram"}
  BY IdentityAssumption
<1>2. CASE p = "linuxdo"
  BY <1>2 DEF Taken, IsLinuxDOIdAlreadyTaken
<1>3. CASE p # "linuxdo"
  <2>1. Cardinality(Carrying(p, x)) # 1
    BY <1>1, <1>3 DEF Taken, IsGitHubIdAlreadyTaken, IsWeChatIdAlreadyTaken, IsOidcIdAlreadyTaken,
                      IsTelegramIdAlreadyTaken, WithState
  <2>2. ASSUME NEW u \in Carrying(p, x) PROVE FALSE
    <3>1. Carrying(p, x) = {u}
      BY <2>2
    <3> QED
      BY <2>1, <3>1, FS_Singleton
  <2> QED
    BY <2>2
<1> QED
  BY <1>2, <1>3

\* Who holds x of p if nobody writes, if a row without it is added, or a row is
\* deleted: nobody more.
LEMMA NobodyGains ==
    ASSUME Inv, NEW p, NEW x
    PROVE  /\ UNCHANGED row => Carrying(p, x)' \subseteq Carrying(p, x)
           /\ \A r : r.ext[p] # x /\ NewRow(r) => Carrying(p, x)' \subseteq Carrying(p, x)
           /\ \A u : Live(u) /\ row' = [row EXCEPT ![u].there = "deleted"]
                         => Carrying(p, x)' \subseteq Carrying(p, x)
<1>1. DOMAIN row = Users /\ \A u \in Users : Column \subseteq DOMAIN row[u]
  BY DEF Inv, Shaped
<1>2. UNCHANGED row => Carrying(p, x)' \subseteq Carrying(p, x)
  BY DEF Carrying, Holders, Rows, Live
<1>3. ASSUME NEW r, r.ext[p] # x, NewRow(r) PROVE Carrying(p, x)' \subseteq Carrying(p, x)
  <2>1. \A u \in Users : row'[u] = row[u] \/ row'[u] = r
    BY <1>1, <1>3 DEF NewRow
  <2> QED
    BY <1>3, <2>1 DEF Carrying, Holders, Rows, Live
<1>4. ASSUME NEW u, Live(u), row' = [row EXCEPT ![u].there = "deleted"]
      PROVE  Carrying(p, x)' \subseteq Carrying(p, x)
  <2>1. \A v \in Users : /\ row'[v].there \in {row[v].there, "deleted"}
                         /\ row'[v].there # row[v].there => v = u
                         /\ row'[v].ext = row[v].ext
    BY <1>1, <1>4 DEF Column
  <2> QED
    BY <1>4, <2>1 DEF Carrying, Holders, Rows, Live
<1> QED
  BY <1>2, <1>3, <1>4

\* No row gains an identity but what is restored, and nobody finds one free.
LEMMA PersonAside ==
    ASSUME PersonInv, contested \subseteq contested', restored \subseteq restored',
           \A p \in Providers : \A x \in People[p] :
              /\ <<p, x>> \notin restored' => Carrying(p, x)' \subseteq Carrying(p, x)
              /\ \A b \in Browsers : Claims(b, p, x)' => Claims(b, p, x)
    PROVE  PersonInv'
<1> SUFFICES ASSUME NEW p \in Providers, NEW x \in People[p], <<p, x>> \notin contested' \cup restored'
             PROVE  OnePerson(p, x)'
  BY DEF PersonInv
<1>1. OnePerson(p, x) /\ Carrying(p, x)' \subseteq Carrying(p, x)
  BY DEF PersonInv
<1> QED
  BY <1>1 DEF OnePerson

\* The first to find an identity free is alone, or two are seen.
LEMMA CheckPerson ==
    ASSUME Inv, PersonInv, NEW b \in Browsers, Check(b)
    PROVE  PersonInv'
<1> DEFINE q == st[b].for
           y == st[b].who
<1>1. /\ Watch /\ contested \subseteq contested' /\ UNCHANGED <<row, restored>>
      /\ Local \subseteq DOMAIN st[b]
  BY Watched DEF Check, Inv, Shaped, Formed
<1>2. PICK m : /\ Become(b, m)
               /\ m.pc \in {"bind", "update", "insert"} => m.for = q /\ m.who = y /\ ~Taken(q, y)
  <2>1. CASE Become(b, Idle)
    BY <2>1, IdleFormed
  <2>2. CASE Goto(b, "fill")
    BY <1>1, <2>2 DEF Goto, Local
  <2>3. CASE ~Taken(q, y) /\ Goto(b, "bind")
    <3>1. [st[b] EXCEPT !.pc = "bind"].for = q /\ [st[b] EXCEPT !.pc = "bind"].who = y
      BY <1>1 DEF Local
    <3> QED
      BY <2>3, <3>1 DEF Goto
  <2>4. CASE ~Taken(q, y) /\ \E name, mail, base :
          Become(b, [st[b] EXCEPT !.pc = "insert", !.name = name, !.mail = mail, !.base = base])
    <3> PICK name, mail, base :
          Become(b, [st[b] EXCEPT !.pc = "insert", !.name = name, !.mail = mail, !.base = base])
      BY <2>4
    <3> DEFINE n == [st[b] EXCEPT !.pc = "insert", !.name = name, !.mail = mail, !.base = base]
    <3>1. n.for = q /\ n.who = y
      BY <1>1 DEF Local
    <3> QED
      BY <2>4, <3>1
  <2> QED
    BY <2>1, <2>2, <2>3, <2>4 DEF Check
<1>3. st'[b] = m /\ \A c \in Browsers \ {b} : st'[c] = st[c]
  BY <1>2, Stepped DEF Inv, Shaped
<1>4. \A p, x : Carrying(p, x)' = Carrying(p, x)
  BY <1>1 DEF Carrying, Holders, Rows, Live
<1> SUFFICES ASSUME NEW p \in Providers, NEW x \in People[p], <<p, x>> \notin contested' \cup restored'
             PROVE  OnePerson(p, x)'
  BY DEF PersonInv
<1>5. OnePerson(p, x)
  BY <1>1 DEF PersonInv
<1>6. CASE ~Claims(b, p, x)'
  BY <1>3, <1>4, <1>5, <1>6 DEF OnePerson, Claims
<1>7. CASE Claims(b, p, x)'
  <2>1. p = q /\ x = y /\ ~Taken(p, x)
    BY <1>2, <1>3, <1>7 DEF Claims, Matter
  <2>2. Carrying(p, x) = {}
    BY <1>5, <2>1, FreeIsNobodys DEF OnePerson
  <2>3. ASSUME NEW c \in Browsers, Claims(c, p, x)', c # b
        PROVE  FALSE
    <3>1. p # ""
      BY IdentityAssumption DEF WithState
    <3>2. Acts(st'[c]) /\ Acts(st'[b])
      BY <1>7, <2>3, <3>1 DEF Claims, Matter, Acts, Checked
    <3>3. Matter(st'[c]) = <<p, x>> /\ Matter(st'[b]) = <<p, x>>
      BY <1>7, <2>3 DEF Claims
    <3> QED
      BY <1>1, <2>3, <3>2, <3>3, Seen
  <2> QED
    BY <1>4, <2>2, <2>3 DEF OnePerson
<1> QED
  BY <1>6, <1>7

\* One row gains the identity that was found free, and what is restored, and the
\* claim ends.
LEMMA ClaimEnds ==
    ASSUME Inv, PersonInv, NEW b \in Browsers, st[b].pc \in {"update", "save", "insert"},
           Become(b, Idle), NEW v, contested \subseteq contested', restored \subseteq restored',
           \A p \in Providers : \A x \in People[p] : <<p, x>> \notin restored' =>
              Carrying(p, x)' \subseteq IF Matter(st[b]) = <<p, x>> THEN Carrying(p, x) \cup {v}
                                       ELSE Carrying(p, x)
    PROVE  PersonInv'
<1>1. st'[b] = Idle /\ \A c \in Browsers \ {b} : st'[c] = st[c]
  BY Stepped DEF Inv, Shaped
<1> SUFFICES ASSUME NEW p \in Providers, NEW x \in People[p], <<p, x>> \notin contested' \cup restored'
             PROVE  OnePerson(p, x)'
  BY DEF PersonInv
<1>2. \A c \in Browsers : Claims(c, p, x)' => c # b /\ Claims(c, p, x)
  BY <1>1, IdleFormed DEF Claims
<1>3. OnePerson(p, x)
  BY DEF PersonInv
<1>4. CASE Matter(st[b]) # <<p, x>>
  BY <1>2, <1>3, <1>4 DEF OnePerson
<1>5. CASE Matter(st[b]) = <<p, x>>
  <2>1. Claims(b, p, x)
    BY <1>5 DEF Claims, Inv, Shaped, Formed, Matter
  <2>2. Carrying(p, x)' \subseteq {v}
    BY <1>3, <1>5, <2>1 DEF OnePerson
  <2>3. \A c \in Browsers : ~Claims(c, p, x)'
    BY <1>2, <1>3, <2>1 DEF OnePerson
  <2> QED
    BY <2>2, <2>3 DEF OnePerson
<1> QED
  BY <1>4, <1>5

\* A new row holds the identity it was inserted for; a name in use costs an
\* attempt.
LEMMA InsertPerson ==
    ASSUME Inv, PersonInv, NEW b \in Browsers, Insert(b)
    PROVE  PersonInv'
<1>1. contested \subseteq contested' /\ UNCHANGED restored /\ st[b].pc = "insert"
  BY Watched DEF Insert, At
<1>2. CASE UNCHANGED row
  <2>1. \/ Become(b, Idle)
        \/ Become(b, [st[b] EXCEPT !.try = st[b].try + 1])
    BY <1>2 DEF Insert
  <2>2. Local \subseteq DOMAIN st[b]
    BY DEF Inv, Shaped, Formed
  <2> DEFINE m == [st[b] EXCEPT !.try = st[b].try + 1]
  <2>3. m.pc = st[b].pc /\ m.for = st[b].for /\ m.who = st[b].who
    BY <2>2 DEF Local
  <2> HIDE DEF m
  <2>4. Become(b, Idle) \/ Become(b, m)
    BY <2>1 DEF m
  <2>5. \A c \in Browsers : \/ st'[c].pc = "idle"
                            \/ st'[c].pc = st[c].pc /\ Matter(st'[c]) = Matter(st[c])
    <3>1. CASE Become(b, Idle)
      BY <3>1, Stepped, IdleFormed DEF Inv, Shaped
    <3>2. CASE Become(b, m)
      BY <2>3, <3>2, Stepped DEF Inv, Shaped, Matter
    <3> QED
      BY <2>4, <3>1, <3>2
  <2>6. \A p, x : \A c \in Browsers : Claims(c, p, x)' => Claims(c, p, x)
    BY <2>5 DEF Claims
  <2> QED
    BY <1>1, <1>2, <2>6, NobodyGains, PersonAside
<1>3. ASSUME NEW name, NEW mail, Become(b, Idle),
             NewRow([NoRow EXCEPT !.there = "live", !.name = name, !.ext[st[b].for] = st[b].who,
                                  !.mail = mail])
      PROVE  PersonInv'
  <2> DEFINE q == st[b].for
             y == st[b].who
             r == [NoRow EXCEPT !.there = "live", !.name = name, !.ext[q] = y, !.mail = mail]
             v == MaxUserId + 1
  <2>1. \A p \in Providers : r.ext[p] = IF p = q THEN y ELSE 0
    BY DEF NoRow
  <2> HIDE DEF r
  <2>2. row' = [row EXCEPT ![v] = r]
    BY <1>3 DEF NewRow, r
  <2> HIDE DEF v
  <2>3. \A u \in Users : row'[u] = IF u = v THEN r ELSE row[u]
    BY <2>2 DEF Inv, Shaped
  <2>4. ASSUME NEW p \in Providers, NEW x \in People[p], NEW u \in Carrying(p, x)', u \notin Carrying(p, x)
        PROVE  u = v /\ Matter(st[b]) = <<p, x>>
    <3>1. u = v /\ r.ext[p] = x
      BY <2>3, <2>4 DEF Carrying, Holders, Rows, Live
    <3>2. x # 0
      BY IdentityAssumption
    <3> QED
      BY <2>1, <3>1, <3>2 DEF Matter
  <2> QED
    BY <1>1, <1>3, <2>4, ClaimEnds
<1> QED
  BY <1>2, <1>3 DEF Insert

\* What is written back is what was asked for, or restored.
LEMMA WrittenPerson ==
    ASSUME Inv, PersonInv, NEW b \in Browsers, Update(b) \/ Save(b)
    PROVE  PersonInv'
<1> DEFINE u == st[b].user
<1>1. /\ contested \subseteq contested' /\ restored \subseteq restored'
      /\ UNCHANGED row \/ restored' = restored \cup Regained(b)
      /\ st[b].pc \in {"update", "save"} /\ Become(b, Idle)
  BY Watched DEF Update, Save, At
<1>2. \A v \in Users : v # u => row'[v] = row[v]
  BY DEF Update, Save, Inv, Shaped
<1>3. ASSUME NEW p \in Providers, NEW x \in People[p], <<p, x>> \notin restored',
             NEW v \in Carrying(p, x)', v \notin Carrying(p, x)
      PROVE  v = u /\ Matter(st[b]) = <<p, x>>
  <2>1. v = u
    BY <1>2, <1>3 DEF Carrying, Holders, Rows, Live
  <2>2. <<p, x>> \in Identities /\ <<p, x>>[1] = p /\ <<p, x>>[2] = x
    BY DEF Identities
  <2>3. <<p, x>> \notin Regained(b)
    <3>1. ~UNCHANGED row
      BY <1>3 DEF Carrying, Holders, Rows, Live
    <3> QED
      BY <1>1, <1>3, <3>1
  <2> QED
    BY <1>3, <2>1, <2>2, <2>3 DEF Regained
<1> HIDE DEF u
<1> QED
  BY <1>1, <1>3, ClaimEnds

\* Whose identity a request has found free it goes on to write, and no other step
\* of the request finds one.
LEMMA StillClaimed ==
    ASSUME Inv, NEW b \in Browsers, NEW m, Become(b, m),
           \/ m.pc \notin {"bind", "update", "insert"}
           \/ m.for \notin Providers
           \/ st[b].pc = "bind" /\ Matter(m) = Matter(st[b])
    PROVE  \A p \in Providers : \A x : \A c \in Browsers : Claims(c, p, x)' => Claims(c, p, x)
<1>1. st'[b] = m /\ \A c \in Browsers \ {b} : st'[c] = st[c]
  BY Stepped DEF Inv, Shaped
<1> SUFFICES ASSUME NEW p \in Providers, NEW x, NEW c \in Browsers, Claims(c, p, x)'
             PROVE  Claims(c, p, x)
  OBVIOUS
<1>2. CASE c # b
  BY <1>1, <1>2 DEF Claims
<1>3. CASE c = b
  <2>1. m.pc \in {"bind", "update", "insert"} /\ m.for = p /\ Matter(m) = <<p, x>>
    BY <1>1, <1>3 DEF Claims, Matter
  <2> QED
    BY <1>3, <2>1 DEF Claims
<1> QED
  BY <1>2, <1>3

\* Reading a row, to write an identity into it or anything else.
LEMMA ReadPerson ==
    ASSUME Inv, PersonInv, NEW b \in Browsers,
           FillUserById(b) \/ UpdateUserSetting(b) \/ ManageUser(b) \/ CheckIn(b)
    PROVE  PersonInv'
<1>1. UNCHANGED <<row, restored>> /\ contested \subseteq contested'
  BY Watched DEF FillUserById, UpdateUserSetting, ManageUser, CheckIn
<1>2. \E m : /\ Become(b, m)
             /\ m.for \notin Providers \/ (st[b].pc = "bind" /\ Matter(m) = Matter(st[b]))
  <2>1. "" \notin Providers
    BY IdentityAssumption DEF WithState
  <2>2. CASE FillUserById(b)
    <3>1. PICK u, copy : Become(b, [st[b] EXCEPT !.pc = "update", !.user = u, !.copy = copy])
      BY <2>2 DEF FillUserById
    <3> DEFINE m == [st[b] EXCEPT !.pc = "update", !.user = u, !.copy = copy]
    <3>2. m.for = st[b].for /\ m.who = st[b].who
      BY DEF Inv, Shaped, Formed, Local
    <3>3. Become(b, m)
      BY <3>1
    <3> HIDE DEF m
    <3>4. st[b].pc = "bind" \/ m.for \notin Providers
      BY <2>2, <3>2 DEF FillUserById, At, Inv, Shaped, Formed
    <3> QED
      BY <3>2, <3>3, <3>4 DEF Matter
  <2>3. CASE UpdateUserSetting(b) \/ ManageUser(b) \/ CheckIn(b)
    <3>1. PICK u, pc, copy : Become(b, [Idle EXCEPT !.pc = pc, !.user = u, !.copy = copy])
      BY <2>3 DEF UpdateUserSetting, ManageUser, CheckIn, ReadRow
    <3>2. [Idle EXCEPT !.pc = pc, !.user = u, !.copy = copy].for = ""
      BY DEF Idle
    <3> QED
      BY <2>1, <3>1, <3>2
  <2> QED
    BY <2>2, <2>3
<1>3. \A p \in Providers : \A x : \A c \in Browsers : Claims(c, p, x)' => Claims(c, p, x)
  BY <1>2, StillClaimed
<1> QED
  BY <1>1, <1>3, NobodyGains, PersonAside

\* The other handlers give nobody an identity and find none free.
LEMMA OthersPerson ==
    ASSUME Inv, PersonInv, NEW b \in Browsers,
           \/ OAuth(b) /\ ~(Check(b) \/ Insert(b))
           \/ Account(b) \/ Mail(b) \/ SetUp(b)
    PROVE  PersonInv'
<1> DEFINE Calm == {"idle", "check", "fill", "mail", "register", "reset", "forget", "root", "options"}
<1>1. contested \subseteq contested' /\ UNCHANGED restored
  BY Watched
     DEF OAuth, GenerateOAuthCode, Callback, GitHubOAuth, GitHubBind, OidcAuth, OidcBind,
         LinuxdoOAuth, LinuxDoBind, WeChatAuth, WeChatBind, TelegramLogin, TelegramBind, Fill,
         Account, Login, Logout, DeleteSelf, Register, InsertUser,
         Mail, SendEmailVerification, SendPasswordResetEmail, SendCode, EmailBind,
         ResetPassword, ResetUserPasswordByEmail, DeleteKey,
         SetUp, PostSetup, CreateRoot, FinishSetup
<1>2. UNCHANGED st \/ \E m : Become(b, m) /\ m.pc \in Calm
  <2>1. CASE OAuth(b) /\ ~(Check(b) \/ Insert(b))
    <3>1. ASSUME NEW p, NEW bind, Callback(b, p, bind)
          PROVE  UNCHANGED st \/ \E m : Become(b, m) /\ m.pc \in Calm
      <4>1. \A x : [Idle EXCEPT !.pc = "check", !.for = p, !.who = x, !.bind = bind].pc = "check"
        BY DEF Idle
      <4> QED
        BY <3>1, <4>1 DEF Callback
    <3>2. GenerateOAuthCode(b) => UNCHANGED st
      BY DEF GenerateOAuthCode
    <3>3. Fill(b) => \E m : Become(b, m) /\ m.pc \in Calm
      BY IdleFormed DEF Fill
    <3> QED
      BY <2>1, <3>1, <3>2, <3>3
         DEF OAuth, GitHubOAuth, GitHubBind, OidcAuth, OidcBind, LinuxdoOAuth, LinuxDoBind,
             WeChatAuth, WeChatBind, TelegramLogin, TelegramBind
  <2>2. CASE Account(b)
    <3>1. \A name, mail : [Idle EXCEPT !.pc = "register", !.name = name, !.mail = mail].pc = "register"
      BY DEF Idle
    <3> QED
      BY <2>2, <3>1, IdleFormed DEF Account, Login, Logout, DeleteSelf, Register, InsertUser
  <2>3. CASE Mail(b)
    <3>1. /\ \A mail : [Idle EXCEPT !.pc = "mail", !.mail = mail].pc = "mail"
          /\ \A k : [Idle EXCEPT !.pc = "reset", !.for = "reset", !.k = k].pc = "reset"
      BY DEF Idle
    <3>2. [st[b] EXCEPT !.pc = "forget"].pc = "forget"
      BY DEF Inv, Shaped, Formed, Local
    <3> QED
      BY <2>3, <3>1, <3>2, IdleFormed
         DEF Mail, SendEmailVerification, SendPasswordResetEmail, SendCode, EmailBind,
             ResetPassword, ResetUserPasswordByEmail, DeleteKey, Goto
  <2>4. CASE SetUp(b)
    <3>1. \A pc, name : [Idle EXCEPT !.pc = pc, !.for = "root", !.name = name].pc = pc
      BY DEF Idle
    <3>2. [st[b] EXCEPT !.pc = "options"].pc = "options"
      BY DEF Inv, Shaped, Formed, Local
    <3>3. CASE PostSetup(b)
      <4> DEFINE pc == IF RootUserExists THEN "options" ELSE "root"
      <4>1. PICK n : Become(b, [Idle EXCEPT !.pc = pc, !.for = "root", !.name = Named(n)])
        BY <3>3 DEF PostSetup
      <4> DEFINE m == [Idle EXCEPT !.pc = pc, !.for = "root", !.name = Named(n)]
      <4>2. m.pc = pc /\ pc \in {"root", "options"}
        BY <3>1
      <4>3. Become(b, m)
        BY <4>1
      <4> HIDE DEF m, pc
      <4> QED
        BY <4>2, <4>3
    <3>4. CASE CreateRoot(b) \/ FinishSetup(b)
      BY <3>2, <3>4, IdleFormed DEF CreateRoot, FinishSetup, Goto
    <3> QED
      BY <2>4, <3>3, <3>4 DEF SetUp
  <2> QED
    BY <2>1, <2>2, <2>3, <2>4
<1>3. \A p \in Providers : \A x : \A c \in Browsers : Claims(c, p, x)' => Claims(c, p, x)
  <2>1. CASE UNCHANGED st
    BY <2>1 DEF Claims
  <2>2. ASSUME NEW m, Become(b, m), m.pc \in Calm
        PROVE  \A p \in Providers : \A x : \A c \in Browsers : Claims(c, p, x)' => Claims(c, p, x)
    BY <2>2, StillClaimed
  <2> QED
    BY <1>2, <2>1, <2>2
<1>4. ASSUME NEW p \in Providers, NEW x \in People[p] PROVE Carrying(p, x)' \subseteq Carrying(p, x)
  <2>1. x # 0
    BY IdentityAssumption
  <2>2. /\ \A name, mail : [NoRow EXCEPT !.there = "live", !.name = name, !.mail = mail].ext[p] = 0
        /\ \A name : [NoRow EXCEPT !.there = "live", !.root = TRUE, !.name = name].ext[p] = 0
    BY DEF NoRow
  <2>3. \/ UNCHANGED row
        \/ \E r : r.ext[p] = 0 /\ NewRow(r)
        \/ \E u : Live(u) /\ row' = [row EXCEPT ![u].there = "deleted"]
    BY <2>2
       DEF OAuth, GenerateOAuthCode, Callback, GitHubOAuth, GitHubBind, OidcAuth, OidcBind,
           LinuxdoOAuth, LinuxDoBind, WeChatAuth, WeChatBind, TelegramLogin, TelegramBind, Fill,
           Account, Login, Logout, DeleteSelf, Register, InsertUser,
           Mail, SendEmailVerification, SendPasswordResetEmail, SendCode, EmailBind,
           ResetPassword, ResetUserPasswordByEmail, DeleteKey,
           SetUp, PostSetup, CreateRoot, FinishSetup
  <2> QED
    BY <2>1, <2>3, NobodyGains
<1> QED
  BY <1>1, <1>3, <1>4, PersonAside

\* Nothing is claimed after a restart, and a code that expires changes no row.
LEMMA SystemPerson ==
    ASSUME Inv, PersonInv, Restart \/ (\E p \in Purposes : CodeExpires(p)) \/ UNCHANGED vars
    PROVE  PersonInv'
<1>1. UNCHANGED <<row, contested, restored>>
  BY DEF Restart, CodeExpires, vars
<1>2. \A p, x : \A c \in Browsers : Claims(c, p, x)' => Claims(c, p, x)
  BY IdleFormed DEF Restart, CodeExpires, vars, Claims
<1> QED
  BY <1>1, <1>2, NobodyGains, PersonAside

\* A person at a provider has one account, unless two callbacks had both found
\* the identity free, or a copy of a row brought it back to a row that had lost
\* it; for any number of persons, browsers, rows and requests, and whatever is
\* deleted, bound, retried or restarted meanwhile.
THEOREM OneAccountAlways == Spec => []OneAccountPerPerson
<1>1. Init => PersonInv
  <2> SUFFICES ASSUME Init, NEW p \in Providers, NEW x \in People[p] PROVE OnePerson(p, x)
    BY DEF PersonInv
  <2>1. \A u, v \in Carrying(p, x) : u = v
    <3>1. row \in Tables /\ x # 0
      BY IdentityAssumption DEF Init
    <3> QED
      BY <3>1, TablesAssumption DEF Carrying, Holders, Rows
  <2>2. \A b \in Browsers : ~Claims(b, p, x)
    BY IdleFormed DEF Init, Claims
  <2> QED
    BY <2>1, <2>2 DEF OnePerson
<1>2. Inv /\ PersonInv /\ [Next]_vars => PersonInv'
  <2> SUFFICES ASSUME Inv, PersonInv, [Next]_vars PROVE PersonInv'
    OBVIOUS
  <2>1. ASSUME NEW b \in Browsers, OAuth(b) \/ WriteBack(b) \/ Account(b) \/ Mail(b) \/ SetUp(b)
        PROVE  PersonInv'
    BY <2>1, CheckPerson, InsertPerson, ReadPerson, WrittenPerson, OthersPerson DEF WriteBack
  <2> QED
    BY <2>1, SystemPerson DEF Next
<1>3. PersonInv => OneAccountPerPerson
  <2> SUFFICES ASSUME PersonInv, NEW p \in Providers, NEW x \in People[p],
                      <<p, x>> \notin contested \cup restored
               PROVE  Cardinality({u \in Holders(p, x) : Live(u)}) <= 1
    BY DEF OneAccountPerPerson
  <2>1. {u \in Holders(p, x) : Live(u)} \subseteq Carrying(p, x)
    BY DEF Carrying
  <2>2. CASE {u \in Holders(p, x) : Live(u)} = {}
    BY <2>2, FS_EmptySet
  <2>3. ASSUME NEW u \in {v \in Holders(p, x) : Live(v)}
        PROVE  Cardinality({v \in Holders(p, x) : Live(v)}) <= 1
    <3>1. {v \in Holders(p, x) : Live(v)} = {u}
      BY <2>1 DEF PersonInv, OnePerson
    <3>2. Cardinality({u}) = 1
      BY FS_Singleton
    <3> QED
      BY <3>1, <3>2
  <2> QED
    BY <2>2, <2>3
<1> QED
  BY <1>1, <1>2, <1>3, InvHolds, PTL DEF Spec


(***************************************************************************)
(* Streams: sequences of chunks.                                           *)
(***************************************************************************)
LineKinds == {"role", "text", "think", "tool", "finish", "last", "usage", "bad", "start",
              "block", "delta", "stop", "error", "image", "end", "node", "meta"}
Tags == {"<think>", "</think>"}
BlockMarks == {"block_start", "block_delta", "block_stop"}
BlockNames == {"block_start", "block_delta", "block_stop", "message_stop"}
ChunkNames == LineKinds \cup Bodies \cup Tags \cup BlockNames
              \cup {"[DONE]", "thought", "message_start", "message_delta", "message_stop"}
BlockKinds == LineKinds \cup {"none"}
Chunks == [t : ChunkNames, i : Nat, k : BlockKinds]

Lacks(q, names) == \A n \in 1..Len(q) : q[n].t \notin names

\* What Cat puts together, entry by entry.
LEMMA CatEntries ==
    ASSUME NEW q \in Seq(Chunks), NEW r \in Seq(Chunks)
    PROVE  /\ q \o r \in Seq(Chunks)
           /\ Len(q) \in Nat /\ Len(r) \in Nat /\ Len(q \o r) = Len(q) + Len(r)
           /\ \A n \in 1..Len(q) : (q \o r)[n] = q[n]
           /\ \A n \in 1..Len(r) : (q \o r)[Len(q) + n] = r[n]
           /\ \A n \in 1..Len(q) + Len(r) :
                \/ n \in 1..Len(q) /\ (q \o r)[n] = q[n]
                \/ /\ n - Len(q) \in 1..Len(r) /\ n > Len(q)
                   /\ (q \o r)[n] = r[n - Len(q)]
OBVIOUS

\* Chunks are put together in any grouping.
LEMMA CatThrice ==
    \A x, y, z \in Seq(Chunks) : (x \o y) \o z = x \o (y \o z)
<1> SUFFICES ASSUME NEW x \in Seq(Chunks), NEW y \in Seq(Chunks), NEW z \in Seq(Chunks)
             PROVE  (x \o y) \o z = x \o (y \o z)
  OBVIOUS
<1> QED
  BY ConcatAssociative

\* What neither has, the two together do not have.
LEMMA CatLacks ==
    ASSUME NEW q \in Seq(Chunks), NEW r \in Seq(Chunks), NEW names,
           Lacks(q, names), Lacks(r, names)
    PROVE  Lacks(q \o r, names)
<1> SUFFICES ASSUME NEW n \in 1..Len(q \o r)
             PROVE  (q \o r)[n].t \notin names
  BY DEF Lacks
<1> QED
  BY CatEntries DEF Lacks

\* One chunk.
LEMMA OneChunk ==
    ASSUME NEW c \in Chunks
    PROVE  /\ <<c>> \in Seq(Chunks) /\ Len(<<c>>) = 1 /\ <<c>>[1] = c
           /\ \A names : c.t \notin names => Lacks(<<c>>, names)
BY DEF Lacks

\* One chunk after others.
LEMMA CatOne ==
    ASSUME NEW q \in Seq(Chunks), NEW c \in Chunks
    PROVE  /\ q \o <<c>> \in Seq(Chunks)
           /\ Len(q) \in Nat /\ Len(q \o <<c>>) = Len(q) + 1
           /\ \A n \in 1..Len(q) : (q \o <<c>>)[n] = q[n]
           /\ (q \o <<c>>)[Len(q) + 1] = c
           /\ Len(q) + 1 \in 1..Len(q \o <<c>>)
           /\ \A n \in 1..Len(q \o <<c>>) : n \in 1..Len(q) \/ n = Len(q) + 1
<1>1. <<c>> \in Seq(Chunks) /\ Len(<<c>>) = 1 /\ <<c>>[1] = c
  BY OneChunk
<1> DEFINE r == <<c>>
           p == q \o r
<1>2. /\ p \in Seq(Chunks) /\ Len(q) \in Nat /\ Len(p) = Len(q) + Len(r)
      /\ \A n \in 1..Len(q) : p[n] = q[n]
      /\ \A n \in 1..Len(r) : p[Len(q) + n] = r[n]
  BY <1>1, CatEntries
<1> HIDE DEF r, p
<1>3. Len(r) = 1 /\ r[1] = c
  BY <1>1 DEF r
<1>4. /\ Len(p) = Len(q) + 1 /\ p[Len(q) + 1] = c
  BY <1>2, <1>3
<1>5. Len(q) + 1 \in 1..Len(p) /\ \A n \in 1..Len(p) : n \in 1..Len(q) \/ n = Len(q) + 1
  BY <1>2, <1>4
<1> QED
  BY <1>2, <1>4, <1>5 DEF p, r

\* No chunk.
LEMMA NoChunk ==
    /\ <<>> \in Seq(Chunks) /\ Len(<<>>) = 0
    /\ \A names : Lacks(<<>>, names)
BY DEF Lacks

\* What is written is made of chunks.
LEMMA ChunkType ==
    ASSUME NEW t \in ChunkNames, NEW i \in Nat, NEW k \in BlockKinds
    PROVE  /\ Chunk(t) \in Chunks /\ Chunk(t).t = t
           /\ Block(t, i, k) \in Chunks /\ Block(t, i, k).t = t /\ Block(t, i, k).i = i
           /\ Block(t, i, k).k = k
BY DEF Chunk, Block, Chunks, BlockKinds

(***************************************************************************)
(* Streams: how many chunks carry text.                                    *)
(***************************************************************************)
IsText(c) == c.t = "text" \/ (c.t = "block_delta" /\ c.k = "text")
TextsOf(q) == {n \in 1..Len(q) : IsText(q[n])}
Texts(q) == Cardinality(TextsOf(q))

\* They can be counted.
LEMMA TextsType ==
    ASSUME NEW q \in Seq(Chunks)
    PROVE  IsFiniteSet(TextsOf(q)) /\ Texts(q) \in Nat
<1>1. IsFiniteSet(1..Len(q))
  BY FS_Interval
<1>2. TextsOf(q) \in SUBSET (1..Len(q))
  BY DEF TextsOf
<1>3. IsFiniteSet(TextsOf(q))
  BY <1>1, <1>2, FS_Subset
<1> QED
  BY <1>3, FS_CardinalityType DEF Texts

\* One more chunk is one more text or none.
LEMMA OneMoreText ==
    ASSUME NEW q \in Seq(Chunks), NEW c \in Chunks
    PROVE  Texts(q \o <<c>>) = Texts(q) + (IF IsText(c) THEN 1 ELSE 0)
<1> DEFINE r == q \o <<c>>
           n == Len(q) + 1
<1>1. /\ Len(q) \in Nat /\ Len(r) = n
      /\ \A m \in 1..Len(q) : r[m] = q[m]
      /\ r[n] = c
  BY CatEntries, OneChunk
<1>2. 1..Len(r) = (1..Len(q)) \cup {n} /\ n \notin 1..Len(q)
  BY <1>1
<1> HIDE DEF r, n
<1>3. TextsOf(r) = IF IsText(c) THEN TextsOf(q) \cup {n} ELSE TextsOf(q)
  BY <1>1, <1>2 DEF TextsOf
<1>4. n \notin TextsOf(q)
  BY <1>2 DEF TextsOf
<1> QED
  BY <1>3, <1>4, TextsType, FS_AddElement DEF Texts, r

\* None is in nothing.
LEMMA NoText ==
    Texts(<<>>) = 0
<1>1. TextsOf(<<>>) = {}
  BY DEF TextsOf
<1> QED
  BY <1>1, FS_EmptySet DEF Texts

(***************************************************************************)
(* Streams: tags.                                                          *)
(***************************************************************************)
OneOf(q, name) == \A m, n \in 1..Len(q) : q[m].t = name /\ q[n].t = name => m = n

\* Between m and n thinking ends.
EndsBetween(q, m, n) == \E c \in 1..Len(q) : q[c].t = "</think>" /\ m < c /\ c < n

\* s.first: no thinking yet; s.sendLast: it is over.
TagsKept(q, s) ==
    /\ OneOf(q, "<think>") /\ OneOf(q, "</think>")
    /\ s.first => Lacks(q, {"<think>"})
    /\ s.hasSent <=> ~s.first
    /\ ~s.sendLast => Lacks(q, {"</think>"})
    /\ s.sendLast => ~s.first /\ \A m \in 1..Len(q) : q[m].t = "<think>" => EndsBetween(q, m, Len(q) + 1)
    /\ \A m, n \in 1..Len(q) : q[m].t = "<think>" /\ q[n].t = "text" /\ m < n => EndsBetween(q, m, n)

SameTags(s, s2) == s2.first = s.first /\ s2.hasSent = s.hasSent /\ s2.sendLast = s.sendLast

\* Chunks that are no tags, and no text while there is thinking.
LEMMA TagsPass ==
    ASSUME NEW q \in Seq(Chunks), NEW r \in Seq(Chunks), NEW s, NEW s2, SameTags(s, s2),
           TagsKept(q, s), Lacks(r, Tags), Lacks(r, {"text"}) \/ s.first \/ s.sendLast
    PROVE  TagsKept(q \o r, s2)
<1> DEFINE p == q \o r
<1>1. /\ p \in Seq(Chunks)
      /\ Len(q) \in Nat /\ Len(r) \in Nat /\ Len(p) = Len(q) + Len(r)
      /\ \A n \in 1..Len(q) : p[n] = q[n]
      /\ \A n \in 1..Len(p) : n \in 1..Len(q) \/ (n > Len(q) /\ p[n].t \notin Tags)
      /\ \A n \in 1..Len(p) : n > Len(q) /\ p[n].t = "text" => s.first \/ s.sendLast
  BY CatEntries DEF Lacks, Tags
<1>2. 1..Len(q) \subseteq 1..Len(p)
  BY <1>1
<1> HIDE DEF p
<1>3. \A n \in 1..Len(p) : p[n].t \in Tags => n \in 1..Len(q) /\ q[n].t = p[n].t
  BY <1>1
<1>4. ASSUME NEW name \in Tags, OneOf(q, name) PROVE OneOf(p, name)
  BY <1>3, <1>4 DEF OneOf
<1>5. ASSUME NEW name \in Tags, Lacks(q, {name}) PROVE Lacks(p, {name})
  BY <1>3, <1>5 DEF Lacks
<1>6. ASSUME NEW m \in Nat, NEW n \in Nat, EndsBetween(q, m, n) PROVE EndsBetween(p, m, n)
  BY <1>1, <1>2, <1>6 DEF EndsBetween
<1>7. ASSUME NEW m \in Nat, NEW n \in Nat, NEW k \in Nat, EndsBetween(p, m, n), n <= k
      PROVE  EndsBetween(p, m, k)
  BY <1>1, <1>7 DEF EndsBetween
<1>8. ASSUME s.sendLast, NEW m \in 1..Len(p), p[m].t = "<think>", NEW k \in Nat, Len(q) + 1 <= k
      PROVE  EndsBetween(p, m, k)
  <2>1. m \in 1..Len(q) /\ q[m].t = "<think>"
    BY <1>3, <1>8 DEF Tags
  <2>2. EndsBetween(q, m, Len(q) + 1)
    BY <1>8, <2>1 DEF TagsKept
  <2> QED
    BY <1>1, <1>6, <1>7, <1>8, <2>1, <2>2
<1>9. ASSUME NEW m \in 1..Len(p), NEW n \in 1..Len(p), p[m].t = "<think>", p[n].t = "text", m < n
      PROVE  EndsBetween(p, m, n)
  <2>1. m \in 1..Len(q) /\ q[m].t = "<think>"
    BY <1>3, <1>9 DEF Tags
  <2>2. ~s.first
    BY <2>1 DEF TagsKept, Lacks
  <2>3. CASE n \in 1..Len(q)
    <3>1. EndsBetween(q, m, n)
      BY <1>1, <1>9, <2>1, <2>3 DEF TagsKept
    <3> QED
      BY <1>6, <2>1, <2>3, <3>1
  <2>4. CASE n > Len(q)
    <3>1. s.sendLast /\ n \in Nat /\ Len(q) + 1 <= n
      BY <1>1, <1>9, <2>2, <2>4
    <3> QED
      BY <1>8, <1>9, <3>1
  <2> QED
    BY <1>1, <2>3, <2>4
<1>10. "<think>" \in Tags /\ "</think>" \in Tags
  BY DEF Tags
<1>11. OneOf(p, "<think>") /\ OneOf(p, "</think>")
  BY <1>4, <1>10 DEF TagsKept
<1>12. s2.first => Lacks(p, {"<think>"})
  BY <1>5, <1>10 DEF TagsKept, SameTags
<1>13. ~s2.sendLast => Lacks(p, {"</think>"})
  BY <1>5, <1>10 DEF TagsKept, SameTags
<1>14. s2.hasSent <=> ~s2.first
  BY DEF TagsKept, SameTags
<1>15. s2.sendLast => ~s2.first /\ \A m \in 1..Len(p) : p[m].t = "<think>" => EndsBetween(p, m, Len(p) + 1)
  <2>1. Len(p) + 1 \in Nat /\ Len(q) + 1 <= Len(p) + 1
    BY <1>1
  <2> QED
    BY <1>8, <2>1 DEF TagsKept, SameTags
<1> QED
  BY <1>9, <1>11, <1>12, <1>13, <1>14, <1>15 DEF TagsKept, p

\* Thinking begins.
LEMMA TagOpens ==
    ASSUME NEW q \in Seq(Chunks), NEW s, NEW s2, TagsKept(q, s),
           s.first, ~s2.first, s2.hasSent, s2.sendLast = s.sendLast
    PROVE  TagsKept(q \o <<Chunk("<think>")>>, s2)
<1> DEFINE p == q \o <<Chunk("<think>")>>
           l == Len(q) + 1
<1>0. Chunk("<think>").t = "<think>" /\ Chunk("<think>") \in Chunks
  BY ChunkType DEF ChunkNames, Tags, BlockKinds
<1>1. /\ p \in Seq(Chunks) /\ Len(q) \in Nat /\ Len(p) = l /\ l \in Nat
      /\ \A n \in 1..Len(q) : p[n] = q[n]
      /\ p[l].t = "<think>"
  BY <1>0, CatOne
<1>2. \A n \in 1..Len(p) : n \in 1..Len(q) \/ n = l
  BY <1>0, CatOne
<1> HIDE DEF p, l
<1>3. ~s2.sendLast /\ Lacks(q, {"<think>"}) /\ Lacks(q, {"</think>"})
  BY DEF TagsKept
<1>4. \A n \in 1..Len(p) : p[n].t = "<think>" => n = l
  BY <1>1, <1>2, <1>3 DEF Lacks
<1>5. \A n \in 1..Len(p) : p[n].t # "</think>"
  BY <1>1, <1>2, <1>3 DEF Lacks
<1>6. \A m, n \in 1..Len(p) : p[m].t = "<think>" => ~(m < n)
  BY <1>1, <1>2, <1>4 DEF l
<1> QED
  BY <1>3, <1>4, <1>5, <1>6 DEF TagsKept, OneOf, Lacks, p

\* Thinking ends.
LEMMA TagCloses ==
    ASSUME NEW q \in Seq(Chunks), NEW s, NEW s2, TagsKept(q, s),
           s.hasSent, ~s.sendLast, s2.first = s.first, s2.hasSent = s.hasSent, s2.sendLast
    PROVE  TagsKept(q \o <<Chunk("</think>")>>, s2)
<1> DEFINE p == q \o <<Chunk("</think>")>>
           l == Len(q) + 1
<1>0. Chunk("</think>").t = "</think>" /\ Chunk("</think>") \in Chunks
  BY ChunkType DEF ChunkNames, Tags, BlockKinds
<1>1. /\ p \in Seq(Chunks) /\ Len(q) \in Nat /\ Len(p) = l /\ l \in Nat
      /\ \A n \in 1..Len(q) : p[n] = q[n]
      /\ p[l].t = "</think>" /\ l \in 1..Len(p)
  BY <1>0, CatOne
<1>2. \A n \in 1..Len(p) : n \in 1..Len(q) \/ n = l
  BY <1>0, CatOne
<1>3. \A n \in 1..Len(q) : n < l /\ n < Len(p) + 1 /\ l < Len(p) + 1
  BY <1>1
<1> HIDE DEF p, l
<1>4. ~s.first /\ Lacks(q, {"</think>"}) /\ OneOf(q, "<think>")
  BY DEF TagsKept
<1>5. OneOf(p, "<think>")
  BY <1>1, <1>2, <1>4 DEF OneOf
<1>6. OneOf(p, "</think>")
  BY <1>1, <1>2, <1>4 DEF OneOf, Lacks
<1>7. ASSUME NEW m \in 1..Len(p), p[m].t = "<think>"
      PROVE  EndsBetween(p, m, Len(p) + 1)
  BY <1>1, <1>2, <1>3, <1>7 DEF EndsBetween
<1>8. ASSUME NEW m \in 1..Len(p), NEW n \in 1..Len(p), p[m].t = "<think>", p[n].t = "text", m < n
      PROVE  EndsBetween(p, m, n)
  <2>1. m \in 1..Len(q) /\ n \in 1..Len(q) /\ q[m].t = "<think>" /\ q[n].t = "text"
    BY <1>1, <1>2, <1>8
  <2>2. EndsBetween(q, m, n)
    BY <1>8, <2>1 DEF TagsKept
  <2>3. 1..Len(q) \subseteq 1..Len(p)
    BY <1>1, <1>3
  <2> QED
    BY <1>1, <2>2, <2>3 DEF EndsBetween
<1> QED
  BY <1>4, <1>5, <1>6, <1>7, <1>8 DEF TagsKept, p

(***************************************************************************)
(* Streams: blocks.                                                        *)
(***************************************************************************)
Bounds == {"block_start", "block_stop"}

\* The delta at n is in the block that was opened last before it.
InItsBlock(q, n) ==
    \E m \in 1..Len(q) :
        /\ m < n /\ q[m].t = "block_start" /\ q[m].i = q[n].i /\ q[m].k = q[n].k
        /\ \A c \in 1..Len(q) : q[c].t \in Bounds => c <= m \/ c > n
DeltasHold(q) == \A n \in 1..Len(q) : q[n].t = "block_delta" => InItsBlock(q, n)

\* Block i, of kind k, is open.
OpenIn(q, i, k) ==
    \E m \in 1..Len(q) :
        /\ q[m].t = "block_start" /\ q[m].i = i /\ q[m].k = k
        /\ \A c \in 1..Len(q) : q[c].t \in Bounds => c <= m

\* The indices of blocks never go back, and go on behind a stop; so far they
\* have come to i, and there is no message_stop.
Ascending(q) ==
    \A m, n \in 1..Len(q) :
        m < n /\ q[m].t \in BlockMarks /\ q[n].t \in BlockMarks
        => q[m].i <= q[n].i /\ (q[m].t = "block_stop" => q[m].i < q[n].i)
Marked(q, i) ==
    /\ Ascending(q)
    /\ \A n \in 1..Len(q) :
         q[n].t \in BlockMarks => q[n].i <= i /\ (q[n].t = "block_stop" => q[n].i < i)
    /\ Lacks(q, {"message_stop"})

\* message_stop, if any, is the last, behind a stop and a message_delta.
Closed(q) ==
    /\ Ascending(q)
    /\ \A n \in 1..Len(q) :
         q[n].t = "message_stop" =>
             /\ n = Len(q) /\ n > 2
             /\ q[n - 1].t = "message_delta" /\ q[n - 2].t = "block_stop"

BlocksKept(q, s) ==
    /\ DeltasHold(q)
    /\ s.kind # "none" /\ ~s.done => OpenIn(q, s.index, s.kind)
    /\ ~s.done => Marked(q, s.index)

\* What is no delta disturbs none.
LEMMA DeltasPass ==
    ASSUME NEW q \in Seq(Chunks), NEW r \in Seq(Chunks), DeltasHold(q), Lacks(r, {"block_delta"})
    PROVE  DeltasHold(q \o r)
<1> DEFINE p == q \o r
<1>1. /\ p \in Seq(Chunks)
      /\ Len(q) \in Nat /\ Len(r) \in Nat /\ Len(p) = Len(q) + Len(r)
      /\ \A n \in 1..Len(q) : p[n] = q[n]
      /\ \A n \in 1..Len(p) : n \in 1..Len(q) \/ (n > Len(q) /\ p[n].t # "block_delta")
  BY CatEntries DEF Lacks
<1> HIDE DEF p
<1>2. ASSUME NEW n \in 1..Len(p), p[n].t = "block_delta" PROVE InItsBlock(p, n)
  <2>1. n \in 1..Len(q) /\ q[n] = p[n] /\ q[n].t = "block_delta"
    BY <1>1, <1>2
  <2>2. PICK m \in 1..Len(q) :
            /\ m < n /\ q[m].t = "block_start" /\ q[m].i = q[n].i /\ q[m].k = q[n].k
            /\ \A c \in 1..Len(q) : q[c].t \in Bounds => c <= m \/ c > n
    BY <2>1 DEF DeltasHold, InItsBlock
  <2>3. m \in 1..Len(p) /\ p[m] = q[m]
    BY <1>1
  <2>4. ASSUME NEW c \in 1..Len(p), p[c].t \in Bounds PROVE c <= m \/ c > n
    BY <1>1, <2>1, <2>2, <2>4
  <2> QED
    BY <2>1, <2>2, <2>3, <2>4 DEF InItsBlock
<1> QED
  BY <1>2 DEF DeltasHold, p

\* What is neither a start nor a stop leaves a block open.
LEMMA OpenPass ==
    ASSUME NEW q \in Seq(Chunks), NEW r \in Seq(Chunks), NEW i, NEW k, OpenIn(q, i, k),
           Lacks(r, Bounds)
    PROVE  OpenIn(q \o r, i, k)
<1> DEFINE p == q \o r
<1>1. /\ p \in Seq(Chunks)
      /\ Len(q) \in Nat /\ Len(r) \in Nat /\ Len(p) = Len(q) + Len(r)
      /\ \A n \in 1..Len(q) : p[n] = q[n]
      /\ \A n \in 1..Len(p) : n \in 1..Len(q) \/ (n > Len(q) /\ p[n].t \notin Bounds)
  BY CatEntries DEF Lacks
<1> HIDE DEF p
<1>2. PICK m \in 1..Len(q) : /\ q[m].t = "block_start" /\ q[m].i = i /\ q[m].k = k
                             /\ \A c \in 1..Len(q) : q[c].t \in Bounds => c <= m
  BY DEF OpenIn
<1>3. m \in 1..Len(p) /\ p[m] = q[m]
  BY <1>1
<1>4. ASSUME NEW c \in 1..Len(p), p[c].t \in Bounds PROVE c <= m
  BY <1>1, <1>2, <1>4
<1> QED
  BY <1>2, <1>3, <1>4 DEF OpenIn, p

\* A block that is opened is open.
LEMMA OpenNew ==
    ASSUME NEW q \in Seq(Chunks), NEW i \in Nat, NEW k \in BlockKinds
    PROVE  OpenIn(q \o Opened(i, k), i, k)
<1> DEFINE x == Block("block_start", i, k)
           p == q \o <<x>>
           l == Len(q) + 1
<1>0. "block_start" \in ChunkNames
  BY DEF ChunkNames, BlockNames
<1>1. x \in Chunks /\ x.t = "block_start" /\ x.i = i /\ x.k = k
  BY <1>0, ChunkType
<1> HIDE DEF x
<1>2. l \in 1..Len(p) /\ p[l] = x /\ Len(q) \in Nat /\ \A c \in 1..Len(p) : c <= l
  BY <1>1, CatOne
<1> HIDE DEF p, l
<1>3. OpenIn(p, i, k)
  BY <1>1, <1>2 DEF OpenIn
<1> QED
  BY <1>3 DEF p, x, Opened

\* A delta is of the block that is open.
LEMMA DeltaNew ==
    ASSUME NEW q \in Seq(Chunks), NEW i \in Nat, NEW k \in BlockKinds,
           DeltasHold(q), OpenIn(q, i, k)
    PROVE  DeltasHold(q \o Delta(i, k)) /\ OpenIn(q \o Delta(i, k), i, k)
<1> DEFINE x == Block("block_delta", i, k)
           p == q \o <<x>>
           l == Len(q) + 1
<1>0. "block_delta" \in ChunkNames
  BY DEF ChunkNames, BlockNames
<1>1. x \in Chunks /\ x.t = "block_delta" /\ x.i = i /\ x.k = k
  BY <1>0, ChunkType
<1> HIDE DEF x
<1>2. /\ l \in 1..Len(p) /\ p[l] = x /\ Len(q) \in Nat
      /\ \A c \in 1..Len(q) : p[c] = q[c] /\ c \in 1..Len(p) /\ c < l
      /\ \A c \in 1..Len(p) : c \in 1..Len(q) \/ c = l
  BY <1>1, CatOne
<1> HIDE DEF p, l
<1>3. x.t \notin Bounds
  BY <1>1 DEF Bounds
<1>4. PICK m \in 1..Len(q) : /\ q[m].t = "block_start" /\ q[m].i = i /\ q[m].k = k
                             /\ \A c \in 1..Len(q) : q[c].t \in Bounds => c <= m
  BY DEF OpenIn
<1>5. \A c \in 1..Len(p) : p[c].t \in Bounds => c <= m
  BY <1>2, <1>3, <1>4
<1>6. m \in 1..Len(p) /\ p[m] = q[m] /\ m < l
  BY <1>2
<1>7. OpenIn(p, i, k)
  BY <1>4, <1>5, <1>6 DEF OpenIn
<1>8. InItsBlock(p, l)
  BY <1>1, <1>2, <1>4, <1>5, <1>6 DEF InItsBlock
<1>9. ASSUME NEW n \in 1..Len(q), q[n].t = "block_delta" PROVE InItsBlock(p, n)
  <2>1. PICK j \in 1..Len(q) :
            /\ j < n /\ q[j].t = "block_start" /\ q[j].i = q[n].i /\ q[j].k = q[n].k
            /\ \A c \in 1..Len(q) : q[c].t \in Bounds => c <= j \/ c > n
    BY <1>9 DEF DeltasHold, InItsBlock
  <2>2. j \in 1..Len(p) /\ p[j] = q[j] /\ p[n] = q[n]
    BY <1>2
  <2>3. ASSUME NEW c \in 1..Len(p), p[c].t \in Bounds PROVE c <= j \/ c > n
    BY <1>2, <1>3, <2>1, <2>3
  <2> QED
    BY <2>1, <2>2, <2>3 DEF InItsBlock
<1>10. DeltasHold(p)
  BY <1>2, <1>8, <1>9 DEF DeltasHold
<1> QED
  BY <1>7, <1>10 DEF p, x, Delta

\* What is no mark of a block moves no index.
LEMMA MarkedPass ==
    ASSUME NEW q \in Seq(Chunks), NEW r \in Seq(Chunks), NEW i, Marked(q, i), Lacks(r, BlockNames)
    PROVE  Marked(q \o r, i)
<1> DEFINE p == q \o r
<1>1. /\ p \in Seq(Chunks)
      /\ Len(q) \in Nat /\ Len(r) \in Nat /\ Len(p) = Len(q) + Len(r)
      /\ \A n \in 1..Len(q) : p[n] = q[n]
      /\ \A n \in 1..Len(p) : n \in 1..Len(q) \/ (n > Len(q) /\ p[n].t \notin BlockNames)
  BY CatEntries DEF Lacks
<1> HIDE DEF p
<1>2. ASSUME NEW n \in 1..Len(p), p[n].t \in BlockNames PROVE n \in 1..Len(q) /\ p[n] = q[n]
  BY <1>1, <1>2
<1>3. Ascending(p)
  BY <1>2 DEF Marked, Ascending, BlockNames, BlockMarks
<1>4. \A n \in 1..Len(p) :
        p[n].t \in BlockMarks => p[n].i <= i /\ (p[n].t = "block_stop" => p[n].i < i)
  BY <1>2 DEF Marked, BlockNames, BlockMarks
<1>5. Lacks(p, {"message_stop"})
  BY <1>2 DEF Marked, BlockNames, Lacks
<1> QED
  BY <1>3, <1>4, <1>5 DEF Marked, p

\* A mark of the block that is under way; a stop moves on to the next.
LEMMA MarkedNew ==
    ASSUME NEW q \in Seq(Chunks), NEW i \in Nat, Marked(q, i), NEW c \in Chunks, c.i = i,
           c.t \in BlockMarks
    PROVE  /\ Marked(q \o <<c>>, i + 1)
           /\ c.t # "block_stop" => Marked(q \o <<c>>, i)
<1> DEFINE p == q \o <<c>>
           l == Len(q) + 1
<1>1. /\ l \in 1..Len(p) /\ p[l] = c /\ Len(q) \in Nat /\ Len(p) = l
      /\ \A n \in 1..Len(q) : p[n] = q[n] /\ n < l
      /\ \A n \in 1..Len(p) : n \in 1..Len(q) \/ n = l
  BY CatOne
<1>2. \A n \in 1..Len(q) : q[n].i \in Nat
  <2>1. \A n \in 1..Len(q) : q[n] \in Chunks
    OBVIOUS
  <2> QED
    BY <2>1 DEF Chunks
<1> HIDE DEF p, l
<1>3. ASSUME NEW n \in 1..Len(q), q[n].t \in BlockMarks
      PROVE  q[n].i <= i /\ (q[n].t = "block_stop" => q[n].i < i)
  BY <1>3 DEF Marked
<1>4. Ascending(p)
  <2> SUFFICES ASSUME NEW m \in 1..Len(p), NEW n \in 1..Len(p), m < n,
                      p[m].t \in BlockMarks, p[n].t \in BlockMarks
               PROVE  p[m].i <= p[n].i /\ (p[m].t = "block_stop" => p[m].i < p[n].i)
    BY DEF Ascending
  <2>1. m \in 1..Len(q)
    BY <1>1
  <2>2. CASE n = l
    BY <1>1, <1>3, <2>1, <2>2
  <2>3. CASE n \in 1..Len(q)
    BY <1>1, <2>1, <2>3 DEF Marked, Ascending
  <2> QED
    BY <1>1, <2>2, <2>3
<1>5. Lacks(p, {"message_stop"})
  BY <1>1 DEF Marked, Lacks, BlockMarks
<1>6. ASSUME NEW n \in 1..Len(p), p[n].t \in BlockMarks
      PROVE  /\ p[n].i <= i + 1 /\ (p[n].t = "block_stop" => p[n].i < i + 1)
             /\ c.t # "block_stop" => p[n].i <= i /\ (p[n].t = "block_stop" => p[n].i < i)
  BY <1>1, <1>2, <1>3, <1>6
<1> QED
  BY <1>4, <1>5, <1>6 DEF Marked, p

\* A stop, a start and a delta of the block that is under way.
LEMMA BlockMarked ==
    ASSUME NEW q \in Seq(Chunks), NEW i \in Nat, Marked(q, i), NEW k \in BlockKinds
    PROVE  /\ Marked(q \o StopBlock(i), i + 1)
           /\ Marked(q \o Opened(i, k), i) /\ Marked(q \o Delta(i, k), i)
<1>1. BlockMarks \subseteq ChunkNames /\ "none" \in BlockKinds
  BY DEF ChunkNames, BlockNames, BlockMarks, BlockKinds
<1>2. ASSUME NEW t \in BlockMarks, NEW j \in BlockKinds
      PROVE  /\ Marked(q \o <<Block(t, i, j)>>, i + 1)
             /\ t # "block_stop" => Marked(q \o <<Block(t, i, j)>>, i)
  <2> DEFINE c == Block(t, i, j)
  <2>1. c \in Chunks /\ c.t = t /\ c.i = i
    BY <1>1, ChunkType
  <2> HIDE DEF c
  <2>2. /\ Marked(q \o <<c>>, i + 1)
        /\ t # "block_stop" => Marked(q \o <<c>>, i)
    BY <2>1, MarkedNew
  <2> QED
    BY <2>2 DEF c
<1> QED
  BY <1>1, <1>2 DEF StopBlock, Opened, Delta, BlockMarks

\* Where nothing ends the message, nothing is behind its end.
LEMMA MarkedClosed == \A q, i : Marked(q, i) => Closed(q)
BY DEF Marked, Closed, Lacks

\* The end of the block under way, the usage, and the end of the message.
LEMMA Closes ==
    ASSUME NEW q \in Seq(Chunks), NEW i \in Nat, Marked(q, i)
    PROVE  Closed(q \o (StopBlock(i) \o (<<Chunk("message_delta")>> \o <<Chunk("message_stop")>>)))
<1> DEFINE a == Block("block_stop", i, "none")
           b == Chunk("message_delta")
           c == Chunk("message_stop")
           q1 == q \o <<a>>
           q2 == q1 \o <<b>>
           q3 == q2 \o <<c>>
<1>1. /\ a \in Chunks /\ a.t = "block_stop" /\ a.i = i
      /\ b \in Chunks /\ b.t = "message_delta" /\ c \in Chunks /\ c.t = "message_stop"
  <2>1. {"block_stop", "message_delta", "message_stop"} \subseteq ChunkNames
    BY DEF ChunkNames, BlockNames
  <2>2. "none" \in BlockKinds
    BY DEF BlockKinds
  <2> QED
    BY <2>1, <2>2, ChunkType
<1> HIDE DEF a, b, c
<1>2. q1 \in Seq(Chunks) /\ q2 \in Seq(Chunks)
  BY <1>1, CatOne
<1>3. /\ Len(q) \in Nat /\ Len(q1) = Len(q) + 1 /\ q1[Len(q1)] = a
  BY <1>1, CatOne
<1>4. /\ Len(q2) = Len(q1) + 1 /\ q2[Len(q2)] = b
      /\ \A n \in 1..Len(q1) : q2[n] = q1[n]
  BY <1>1, <1>2, CatOne
<1>5. /\ Len(q3) = Len(q2) + 1 /\ q3[Len(q3)] = c
      /\ \A n \in 1..Len(q2) : q3[n] = q2[n]
      /\ \A n \in 1..Len(q3) : n \in 1..Len(q2) \/ n = Len(q3)
  BY <1>1, <1>2, CatOne
<1>6. Marked(q1, i + 1)
  BY <1>1, MarkedNew DEF BlockMarks
<1>7. Marked(q2, i + 1)
  <2>1. <<b>> \in Seq(Chunks) /\ Lacks(<<b>>, BlockNames)
    BY <1>1, OneChunk DEF BlockNames, BlockMarks
  <2> HIDE DEF q1
  <2> QED
    BY <1>2, <1>6, <2>1, MarkedPass
<1> HIDE DEF q1, q2, q3
<1>8. Ascending(q3)
  <2>1. c.t \notin BlockMarks
    BY <1>1 DEF BlockMarks
  <2>2. ASSUME NEW n \in 1..Len(q3), q3[n].t \in BlockMarks PROVE n \in 1..Len(q2) /\ q3[n] = q2[n]
    BY <1>5, <2>1, <2>2
  <2> QED
    BY <1>7, <2>2 DEF Marked, Ascending
<1>9. ASSUME NEW n \in 1..Len(q3), q3[n].t = "message_stop"
      PROVE  n = Len(q3) /\ n > 2 /\ q3[n - 1].t = "message_delta" /\ q3[n - 2].t = "block_stop"
  <2>1. n = Len(q3)
    BY <1>5, <1>7, <1>9 DEF Marked, Lacks
  <2>2. n - 1 = Len(q2) /\ n - 2 = Len(q1) /\ n > 2 /\ n - 1 \in 1..Len(q2)
        /\ n - 2 \in 1..Len(q1) /\ n - 2 \in 1..Len(q2)
    BY <1>3, <1>4, <1>5, <2>1
  <2> QED
    BY <1>1, <1>3, <1>4, <1>5, <2>1, <2>2
<1>10. Closed(q3)
  BY <1>8, <1>9 DEF Closed
<1>11. q3 = q \o (<<a>> \o (<<b>> \o <<c>>))
  <2>1. \A x, y, z \in Seq(Chunks) : (x \o y) \o z = x \o (y \o z)
    BY CatThrice
  <2>2. <<a>> \in Seq(Chunks) /\ <<b>> \in Seq(Chunks) /\ <<c>> \in Seq(Chunks)
    BY <1>1
  <2>3. <<b>> \o <<c>> \in Seq(Chunks) /\ q1 \in Seq(Chunks)
    BY <1>2, <2>2, CatEntries
  <2>4. q3 = q1 \o (<<b>> \o <<c>>)
    BY <1>2, <2>1, <2>2 DEF q3, q2
  <2>5. q1 \o (<<b>> \o <<c>>) = q \o (<<a>> \o (<<b>> \o <<c>>))
    BY <2>1, <2>2, <2>3 DEF q1
  <2> QED
    BY <2>4, <2>5
<1> QED
  BY <1>10, <1>11 DEF a, b, c, StopBlock

\* message_start, and the block a tool's call opens with it.
LEMMA StartMarked ==
    ASSUME NEW q \in Seq(Chunks), Marked(q, 0), NEW e \in LineKinds
    PROVE  Marked(q \o (<<Chunk("message_start")>> \o (IF e = "tool" THEN Opened(0, e) ELSE <<>>)), 0)
<1> DEFINE a == Chunk("message_start")
           b == Block("block_start", 0, e)
           q1 == q \o <<a>>
<1>1. /\ a \in Chunks /\ a.t = "message_start"
      /\ b \in Chunks /\ b.t = "block_start" /\ b.i = 0
  <2>1. {"message_start", "block_start"} \subseteq ChunkNames
    BY DEF ChunkNames, BlockNames, BlockMarks
  <2>2. e \in BlockKinds
    BY DEF BlockKinds
  <2> QED
    BY <2>1, <2>2, ChunkType
<1> HIDE DEF a, b
<1>2. <<a>> \in Seq(Chunks) /\ Lacks(<<a>>, BlockNames)
  BY <1>1, OneChunk DEF BlockNames, BlockMarks
<1>3. q1 \in Seq(Chunks) /\ Marked(q1, 0)
  BY <1>1, <1>2, CatEntries, MarkedPass
<1>4. CASE e = "tool"
  <2>1. Marked(q1 \o <<b>>, 0)
    <3> HIDE DEF q1
    <3> QED
      BY <1>1, <1>3, MarkedNew DEF BlockMarks
  <2>2. q1 \o <<b>> = q \o (<<a>> \o <<b>>)
    BY <1>1, CatThrice
  <2> QED
    BY <1>4, <2>1, <2>2 DEF a, b, Opened
<1>5. CASE e # "tool"
  <2>1. <<a>> \o <<>> = <<a>>
    BY <1>2, ConcatEmptySeq
  <2> QED
    BY <1>3, <1>5, <2>1 DEF a
<1> QED
  BY <1>4, <1>5

(***************************************************************************)
(* Streams: a handler's locals, and what it makes of a line.               *)
(***************************************************************************)
Usages == [p : Nat, c : Nat]
Kinds == {"none", "text", "think", "tool"}
HandlerState ==
    [last : BlockKinds, items : Seq(LineKinds), use : Usages, text : Nat, tools : Nat,
     images : Nat, count : Nat, kind : Kinds, index : Nat, done : BOOLEAN,
     first : BOOLEAN, hasSent : BOOLEAN, sendLast : BOOLEAN, err : BOOLEAN]

\* What was written is not the end, and leaves tags and blocks in order.
InOrderAfter(s, r) ==
    /\ r.h \in HandlerState /\ r.out \in Seq(Chunks)
    /\ Lacks(r.out, {"[DONE]"})
    /\ \A q \in Seq(Chunks) : TagsKept(q, s) => TagsKept(q \o r.out, r.h)
    /\ \A q \in Seq(Chunks) : BlocksKept(q, s) => BlocksKept(q \o r.out, r.h)

SameBlock(s, s2) == s2.kind = s.kind /\ s2.index = s.index /\ s2.done = s.done

\* Neither tags nor blocks have to do with it.
Plain(s, r) ==
    /\ r.h \in HandlerState /\ SameTags(s, r.h) /\ SameBlock(s, r.h)
    /\ r.out \in Seq(Chunks)
    /\ Lacks(r.out, Tags) /\ Lacks(r.out, BlockNames) /\ Lacks(r.out, {"[DONE]"})

\* Some names are lacking where more are.
LEMMA LacksFewer ==
    ASSUME NEW q, NEW names, Lacks(q, names), NEW fewer, fewer \subseteq names
    PROVE  Lacks(q, fewer)
BY DEF Lacks

\* Blocks are left alone.
LEMMA BlocksPass ==
    ASSUME NEW q \in Seq(Chunks), NEW r \in Seq(Chunks), NEW s, NEW s2,
           BlocksKept(q, s), Lacks(r, BlockNames), SameBlock(s, s2)
    PROVE  BlocksKept(q \o r, s2)
<1>1. Lacks(r, {"block_delta"}) /\ Lacks(r, Bounds)
  BY LacksFewer DEF BlockNames, BlockMarks, Bounds
<1> QED
  BY <1>1, DeltasPass, OpenPass, MarkedPass DEF BlocksKept, SameBlock

\* Plain chunks are in order where there is no thinking under way, or no text.
LEMMA PlainInOrder ==
    ASSUME NEW s, NEW r, Plain(s, r),
           s.first \/ s.sendLast \/ ~s.hasSent \/ Lacks(r.out, {"text"})
    PROVE  InOrderAfter(s, r)
<1>1. ASSUME NEW q \in Seq(Chunks), TagsKept(q, s) PROVE TagsKept(q \o r.out, r.h)
  <2>1. Lacks(r.out, {"text"}) \/ s.first \/ s.sendLast
    BY <1>1 DEF TagsKept
  <2> QED
    BY <1>1, <2>1, TagsPass DEF Plain
<1>2. ASSUME NEW q \in Seq(Chunks), BlocksKept(q, s) PROVE BlocksKept(q \o r.out, r.h)
  BY <1>2, BlocksPass DEF Plain
<1> QED
  BY <1>1, <1>2 DEF Plain, InOrderAfter

\* One after the other.
LEMMA InOrderTwice ==
    ASSUME NEW s, NEW r, NEW r2, InOrderAfter(s, r), InOrderAfter(r.h, r2)
    PROVE  InOrderAfter(s, [h |-> r2.h, out |-> r.out \o r2.out])
<1> DEFINE o == r.out \o r2.out
           b == [h |-> r2.h, out |-> o]
<1>1. /\ r.out \in Seq(Chunks) /\ r2.out \in Seq(Chunks) /\ r2.h \in HandlerState
      /\ Lacks(r.out, {"[DONE]"}) /\ Lacks(r2.out, {"[DONE]"})
  BY DEF InOrderAfter
<1>2. o \in Seq(Chunks) /\ Lacks(o, {"[DONE]"})
  BY <1>1, CatEntries, CatLacks
<1>3. ASSUME NEW q \in Seq(Chunks)
      PROVE  q \o o = (q \o r.out) \o r2.out /\ q \o r.out \in Seq(Chunks)
  <2>1. \A x, y, z \in Seq(Chunks) : (x \o y) \o z = x \o (y \o z)
    BY CatThrice
  <2> QED
    BY <1>1, <2>1, CatEntries, Zenon
<1> HIDE DEF o
<1>4. ASSUME NEW q \in Seq(Chunks), TagsKept(q, s) PROVE TagsKept(q \o o, r2.h)
  <2>1. TagsKept(q \o r.out, r.h)
    BY <1>4 DEF InOrderAfter
  <2>2. TagsKept((q \o r.out) \o r2.out, r2.h)
    BY <1>3, <2>1 DEF InOrderAfter
  <2> QED
    BY <1>3, <2>2
<1>5. ASSUME NEW q \in Seq(Chunks), BlocksKept(q, s) PROVE BlocksKept(q \o o, r2.h)
  <2>1. BlocksKept(q \o r.out, r.h)
    BY <1>5 DEF InOrderAfter
  <2>2. BlocksKept((q \o r.out) \o r2.out, r2.h)
    BY <1>3, <2>1 DEF InOrderAfter
  <2> QED
    BY <1>3, <2>2
<1>6. b.h = r2.h /\ b.out = o
  OBVIOUS
<1> HIDE DEF b
<1>7. InOrderAfter(s, b)
  BY <1>1, <1>2, <1>4, <1>5, <1>6 DEF InOrderAfter
<1> QED
  BY <1>7 DEF b, o

\* A chunk named for a line.
LEMMA LineChunk ==
    ASSUME NEW e \in LineKinds
    PROVE  /\ Chunk(e) \in Chunks /\ <<Chunk(e)>> \in Seq(Chunks)
           /\ Lacks(<<Chunk(e)>>, Tags) /\ Lacks(<<Chunk(e)>>, BlockNames)
           /\ Lacks(<<Chunk(e)>>, {"[DONE]"})
           /\ e # "text" => Lacks(<<Chunk(e)>>, {"text"})
           /\ IsText(Chunk(e)) <=> e = "text"
<1>1. Chunk(e) \in Chunks /\ Chunk(e).t = e
  BY ChunkType DEF ChunkNames, BlockKinds
<1>2. e \notin Tags /\ e \notin BlockNames /\ e # "[DONE]"
  BY DEF LineKinds, Tags, BlockNames
<1>3. IsText(Chunk(e)) <=> e = "text"
  BY <1>1, <1>2 DEF IsText, BlockNames
<1> QED
  BY <1>1, <1>2, <1>3, OneChunk

W(e) == IF e = "text" THEN 1 ELSE 0

\* Of what is written after q, at most what e carries is text.
Writes(s, e, r) ==
    Plain(s, r) /\ \A q \in Seq(Chunks) : Texts(q \o r.out) <= Texts(q) + W(e)

\* Chunks without text leave the count.
LEMMA NoMoreText ==
    ASSUME NEW q \in Seq(Chunks), NEW r \in Seq(Chunks), Lacks(r, {"text", "block_delta"})
    PROVE  Texts(q \o r) = Texts(q)
<1> DEFINE p == q \o r
<1>1. /\ Len(q) \in Nat /\ Len(r) \in Nat /\ Len(p) = Len(q) + Len(r)
      /\ \A n \in 1..Len(q) : p[n] = q[n]
      /\ \A n \in 1..Len(p) : n \in 1..Len(q) \/ ~IsText(p[n])
  BY CatEntries DEF Lacks, IsText
<1> HIDE DEF p
<1>2. TextsOf(p) = TextsOf(q)
  BY <1>1 DEF TextsOf
<1> QED
  BY <1>2 DEF Texts, p

\* A step that writes one chunk, named for a line, and one that writes none.
LEMMA WritesOne ==
    ASSUME NEW s, NEW r, NEW e, NEW d \in LineKinds, d = "text" => e = "text",
           r.h \in HandlerState, SameTags(s, r.h), SameBlock(s, r.h), r.out = <<Chunk(d)>>
    PROVE  Writes(s, e, r)
<1>1. ASSUME NEW q \in Seq(Chunks) PROVE Texts(q \o <<Chunk(d)>>) <= Texts(q) + W(e)
  <2>1. Texts(q \o <<Chunk(d)>>) = Texts(q) + (IF IsText(Chunk(d)) THEN 1 ELSE 0)
    BY LineChunk, OneMoreText
  <2>2. Texts(q) \in Nat /\ (IsText(Chunk(d)) <=> d = "text")
    BY LineChunk, TextsType
  <2> QED
    BY <2>1, <2>2 DEF W
<1> QED
  BY <1>1, LineChunk DEF Writes, Plain

\* Nothing is written.
LEMMA WritesNone ==
    ASSUME NEW s, NEW r, NEW e,
           r.h \in HandlerState, SameTags(s, r.h), SameBlock(s, r.h), r.out = <<>>
    PROVE  Writes(s, e, r)
<1>1. ASSUME NEW q \in Seq(Chunks) PROVE Texts(q \o <<>>) <= Texts(q) + W(e)
  <2>1. q \o <<>> = q /\ Texts(q) \in Nat
    BY ConcatEmptySeq, TextsType
  <2> QED
    BY <2>1 DEF W
<1> QED
  BY <1>1, NoChunk DEF Writes, Plain
(***************************************************************************)
(* Streams: what each upstream's handler makes of a line.                  *)
(***************************************************************************)
\* What a handler notes of a line: its usage, its text, that of its items.
Notes(s, s2) == s2 \in HandlerState /\ SameTags(s, s2) /\ SameBlock(s, s2)

\* A report is of all that was made.
LEMMA ReportType ==
    ASSUME made \in Nat
    PROVE  Reported \in Usages /\ Reported.p > 0 /\ Reported.c = made
BY DEF Reported, Usages

\* The usage is noted.
LEMMA UseNoted ==
    ASSUME NEW s \in HandlerState, NEW u \in Usages
    PROVE  /\ Notes(s, [s EXCEPT !.use = u])
           /\ [s EXCEPT !.use = u].use = u /\ [s EXCEPT !.use = u].text = s.text
           /\ [s EXCEPT !.use = u].items = s.items
BY DEF HandlerState, Notes, SameTags, SameBlock

\* The text is counted.
LEMMA TextNoted ==
    ASSUME NEW s \in HandlerState
    PROVE  /\ Notes(s, [s EXCEPT !.text = @ + 1])
           /\ [s EXCEPT !.text = @ + 1].use = s.use /\ [s EXCEPT !.text = @ + 1].text = s.text + 1
BY DEF HandlerState, Notes, SameTags, SameBlock

\* An image is counted, a report noted.
LEMMA ImageNoted ==
    ASSUME NEW s \in HandlerState, NEW n \in Nat, NEW u \in Usages
    PROVE  /\ Notes(s, [s EXCEPT !.images = n, !.use = u])
           /\ [s EXCEPT !.images = n, !.use = u].use = u
BY DEF HandlerState, Notes, SameTags, SameBlock

\* A node is counted.
LEMMA NodeNoted ==
    ASSUME NEW s \in HandlerState
    PROVE  /\ Notes(s, [s EXCEPT !.tools = @ + 1])
           /\ [s EXCEPT !.tools = @ + 1].use = s.use
BY DEF HandlerState, Notes, SameTags, SameBlock

\* An item is kept, a report noted.
LEMMA ItemNoted ==
    ASSUME NEW s \in HandlerState, NEW e \in LineKinds, NEW u \in Usages
    PROVE  /\ Notes(s, [s EXCEPT !.use = u, !.items = Append(@, e)])
           /\ [s EXCEPT !.use = u, !.items = Append(@, e)].use = u
           /\ [s EXCEPT !.use = u, !.items = Append(@, e)].items = Append(s.items, e)
<1> DEFINE i == Append(s.items, e)
<1>1. i \in Seq(LineKinds)
  BY DEF HandlerState
<1> HIDE DEF i
<1>2. [s EXCEPT !.use = u, !.items = Append(@, e)] = [s EXCEPT !.use = u, !.items = i]
  BY DEF i
<1>3. /\ Notes(s, [s EXCEPT !.use = u, !.items = i])
      /\ [s EXCEPT !.use = u, !.items = i].use = u
      /\ [s EXCEPT !.use = u, !.items = i].items = i
  BY <1>1 DEF HandlerState, Notes, SameTags, SameBlock
<1> QED
  BY <1>2, <1>3 DEF i

\* An error is noted.
LEMMA ErrorNoted ==
    ASSUME NEW s \in HandlerState
    PROVE  Notes(s, [s EXCEPT !.err = TRUE])
BY DEF HandlerState, Notes, SameTags, SameBlock

\* What Anthropic says at the start.
LEMMA StartNoted ==
    ASSUME NEW s \in HandlerState, NEW c \in Nat
    PROVE  /\ Notes(s, [s EXCEPT !.use.p = 1, !.use.c = c])
           /\ [s EXCEPT !.use.p = 1, !.use.c = c].use.c = c
           /\ [s EXCEPT !.use.p = 1, !.use.c = c].text = s.text
           /\ Notes(s, [s EXCEPT !.use.c = c])
           /\ [s EXCEPT !.use.c = c].use.c = c /\ [s EXCEPT !.use.c = c].text = s.text
<1>1. s.use \in Usages
  BY DEF HandlerState
<1>2. [s.use EXCEPT !.p = 1, !.c = c] \in Usages /\ [s.use EXCEPT !.p = 1, !.c = c].c = c
      /\ [s.use EXCEPT !.c = c] \in Usages /\ [s.use EXCEPT !.c = c].c = c
  BY <1>1 DEF Usages
<1>3. [s EXCEPT !.use.p = 1, !.use.c = c] = [s EXCEPT !.use = [s.use EXCEPT !.p = 1, !.c = c]]
  BY <1>1 DEF HandlerState, Usages
<1>4. [s EXCEPT !.use.c = c] = [s EXCEPT !.use = [s.use EXCEPT !.c = c]]
  BY <1>1 DEF HandlerState, Usages
<1> DEFINE u1 == [s.use EXCEPT !.p = 1, !.c = c]
           u2 == [s.use EXCEPT !.c = c]
<1>5. u1 \in Usages /\ u1.c = c /\ u2 \in Usages /\ u2.c = c
  BY <1>2
<1>6. /\ [s EXCEPT !.use.p = 1, !.use.c = c] = [s EXCEPT !.use = u1]
      /\ [s EXCEPT !.use.c = c] = [s EXCEPT !.use = u2]
  BY <1>3, <1>4
<1> HIDE DEF u1, u2
<1>7. ASSUME NEW u \in Usages, u.c = c
      PROVE  /\ Notes(s, [s EXCEPT !.use = u])
             /\ [s EXCEPT !.use = u].use.c = c /\ [s EXCEPT !.use = u].text = s.text
  BY <1>7, UseNoted
<1> QED
  BY <1>5, <1>6, <1>7



\* A usage is only noted from a report, and then covers what was made.
NotesUse(s, e, r) == r.h.use = s.use \/ (e \in Reports /\ r.h.use.p > 0 /\ r.h.use.c >= made)

\* The text passed on is counted.
NotesText(s, e, r) == r.h.text >= s.text + W(e)

\* What one step hands over.
LEMMA SentIs ==
    ASSUME NEW s, NEW chunks
    PROVE  /\ Sent(s, chunks).h = s /\ Sent(s, chunks).out = chunks /\ Sent(s, chunks).more
           /\ Skipped(s).h = s /\ Skipped(s).out = <<>> /\ Skipped(s).more
           /\ Ended(s).h = s /\ Ended(s).out = <<>> /\ ~Ended(s).more
BY DEF Sent, Skipped, Ended

\* A state is as it was.
LEMMA SameNoted ==
    ASSUME NEW s \in HandlerState
    PROVE  /\ Notes(s, s) /\ s.text \in Nat /\ s.use \in Usages
           /\ \A e, r : r.h = s => NotesUse(s, e, r)
           /\ \A e, r : r.h = s /\ e # "text" => NotesText(s, e, r)
BY DEF Notes, SameTags, SameBlock, HandlerState, NotesUse, NotesText, W

Handled(s, e, r) == Writes(s, e, r) /\ NotesUse(s, e, r)

\* A line that is passed over.
LEMMA LinePassedOver ==
    ASSUME NEW s \in HandlerState, NEW e, e # "text", NEW r, r.h = s, r.out = <<>>
    PROVE  Handled(s, e, r) /\ NotesText(s, e, r) /\ r.h.items = s.items
BY SameNoted, WritesNone DEF Notes, Handled

\* A line that is passed on.
LEMMA LinePassedOn ==
    ASSUME NEW s \in HandlerState, NEW e \in LineKinds, NEW d \in LineKinds,
           d = "text" => e = "text", NEW r, r.h = s, r.out = <<Chunk(d)>>
    PROVE  Handled(s, e, r) /\ (e # "text" => NotesText(s, e, r))
BY SameNoted, WritesOne DEF Notes, Handled

\* A line that is passed on and counted.
LEMMA LineCounted ==
    ASSUME NEW s \in HandlerState, NEW e \in LineKinds,
           NEW r, r.h = [s EXCEPT !.text = @ + 1], r.out = <<Chunk(e)>>
    PROVE  Handled(s, e, r) /\ NotesText(s, e, r)
<1>1. Notes(s, r.h) /\ r.h.use = s.use /\ r.h.text = s.text + 1 /\ s.text \in Nat
  BY TextNoted, SameNoted
<1> QED
  BY <1>1, WritesOne DEF Notes, Handled, NotesUse, NotesText, W

\* A line that reports.
LEMMA LineReports ==
    ASSUME made \in Nat, NEW s \in HandlerState, NEW e \in Reports, e # "text", NEW r,
           r.h = [s EXCEPT !.use = Reported],
           r.out = <<>> \/ \E d \in LineKinds : d # "text" /\ r.out = <<Chunk(d)>>
    PROVE  Handled(s, e, r) /\ NotesText(s, e, r)
<1>1. /\ Notes(s, r.h) /\ r.h.use = Reported /\ r.h.text = s.text /\ s.text \in Nat
      /\ Reported \in Usages /\ Reported.p > 0 /\ Reported.c = made
  BY ReportType, UseNoted, SameNoted
<1>2. Writes(s, e, r)
  BY <1>1, WritesNone, WritesOne DEF Notes
<1> QED
  BY <1>1, <1>2 DEF Handled, NotesUse, NotesText, W

\* The Responses API.
LEMMA ResponsesLine ==
    ASSUME made \in Nat, NEW s \in HandlerState, NEW e \in {"text", "usage", "bad"},
           NEW r, r = ResponsesHandleData(s, e)
    PROVE  Handled(s, e, r) /\ NotesText(s, e, r)
<1>1. CASE e = "bad"
  BY <1>1, SentIs, LinePassedOver DEF ResponsesHandleData
<1>2. CASE e = "usage"
  <2>1. r.h = [s EXCEPT !.use = Reported] /\ r.out = <<Chunk("usage")>>
    BY <1>2, SentIs DEF ResponsesHandleData
  <2> QED
    BY <1>2, <2>1, LineReports DEF Reports, LineKinds
<1>3. CASE e = "text"
  <2>1. r.h = [s EXCEPT !.text = @ + 1] /\ r.out = <<Chunk(e)>>
    BY <1>3, SentIs DEF ResponsesHandleData
  <2> QED
    BY <1>3, <2>1, LineCounted DEF LineKinds
<1> QED
  BY <1>1, <1>2, <1>3

\* PaLM, Tencent and Cloudflare.
LEMMA PalmLine ==
    ASSUME NEW s \in HandlerState, NEW e \in {"text", "bad"}, NEW r, r = PalmHandleData(s, e)
    PROVE  Handled(s, e, r) /\ NotesText(s, e, r)
<1>1. CASE e = "bad"
  BY <1>1, SentIs, LinePassedOver DEF PalmHandleData
<1>2. CASE e = "text"
  <2>1. r.h = [s EXCEPT !.text = @ + 1] /\ r.out = <<Chunk(e)>>
    BY <1>2, SentIs DEF PalmHandleData
  <2> QED
    BY <1>2, <2>1, LineCounted DEF LineKinds
<1> QED
  BY <1>1, <1>2

\* Cohere.
LEMMA CohereLine ==
    ASSUME made \in Nat, NEW s \in HandlerState, NEW e \in {"text", "finish", "last", "bad"},
           NEW r, r = CohereHandleData(s, e)
    PROVE  Handled(s, e, r) /\ NotesText(s, e, r)
<1>1. CASE e = "bad"
  BY <1>1, SentIs, LinePassedOver DEF CohereHandleData
<1>2. CASE e = "last"
  <2>1. r.h = [s EXCEPT !.use = Reported] /\ r.out = <<Chunk("finish")>>
    BY <1>2, SentIs DEF CohereHandleData
  <2> QED
    BY <1>2, <2>1, LineReports DEF Reports, LineKinds
<1>3. CASE e = "finish"
  <2>1. r.h = s /\ r.out = <<Chunk(e)>>
    BY <1>3, SentIs DEF CohereHandleData
  <2> QED
    BY <1>3, <2>1, LinePassedOn DEF LineKinds
<1>4. CASE e = "text"
  <2>1. r.h = [s EXCEPT !.text = @ + 1] /\ r.out = <<Chunk(e)>>
    BY <1>4, SentIs DEF CohereHandleData
  <2> QED
    BY <1>4, <2>1, LineCounted DEF LineKinds
<1> QED
  BY <1>1, <1>2, <1>3, <1>4

\* Baidu: the EXCEPT of a line that reports nothing changes nothing.
LEMMA SameUse ==
    ASSUME NEW s \in HandlerState
    PROVE  [s EXCEPT !.use = @] = s
BY DEF HandlerState

\* Baidu.
LEMMA BaiduLine ==
    ASSUME made \in Nat, NEW s \in HandlerState, NEW e \in {"text", "last", "bad"},
           NEW r, r = BaiduHandleData(s, e)
    PROVE  Handled(s, e, r)
<1>1. CASE e = "bad"
  BY <1>1, SentIs, LinePassedOver DEF BaiduHandleData
<1>2. CASE e = "last"
  <2>1. r.h = [s EXCEPT !.use = Reported] /\ r.out = <<Chunk("last")>>
    BY <1>2, SentIs DEF BaiduHandleData
  <2> QED
    BY <1>2, <2>1, LineReports DEF Reports, LineKinds
<1>3. CASE e = "text"
  <2>1. r.h = s /\ r.out = <<Chunk(e)>>
    BY <1>3, SentIs, SameUse DEF BaiduHandleData
  <2> QED
    BY <1>3, <2>1, LinePassedOn DEF LineKinds
<1> QED
  BY <1>1, <1>2, <1>3

\* Zhipu.
LEMMA ZhipuLine ==
    ASSUME made \in Nat, NEW s \in HandlerState, NEW e \in {"text", "meta", "bad"},
           NEW r, r = ZhipuHandleData(s, e)
    PROVE  Handled(s, e, r)
<1>1. CASE e = "bad"
  BY <1>1, SentIs, LinePassedOver DEF ZhipuHandleData
<1>2. CASE e = "meta"
  <2>1. r.h = [s EXCEPT !.use = Reported] /\ r.out = <<Chunk("finish")>>
    BY <1>2, SentIs DEF ZhipuHandleData
  <2> QED
    BY <1>2, <2>1, LineReports DEF Reports, LineKinds
<1>3. CASE e = "text"
  <2>1. r.h = s /\ r.out = <<Chunk(e)>>
    BY <1>3, SentIs DEF ZhipuHandleData
  <2> QED
    BY <1>3, <2>1, LinePassedOn DEF LineKinds
<1> QED
  BY <1>1, <1>2, <1>3

\* Dify.
LEMMA DifyLine ==
    ASSUME made \in Nat, NEW s \in HandlerState, NEW e \in {"text", "node", "end", "error", "bad"},
           NEW r, r = DifyHandleData(s, e)
    PROVE  Handled(s, e, r)
<1>1. CASE e \in {"bad", "error"}
  <2>1. r.h = s /\ r.out = <<>>
    BY <1>1, SentIs DEF DifyHandleData
  <2> QED
    BY <1>1, <2>1, LinePassedOver
<1>2. CASE e = "end"
  <2>1. r.h = [s EXCEPT !.use = Reported] /\ r.out = <<>>
    BY <1>2, SentIs DEF DifyHandleData
  <2> QED
    BY <1>2, <2>1, LineReports DEF Reports
<1>3. CASE e = "text"
  <2>1. r.h = [s EXCEPT !.text = @ + 1] /\ r.out = <<Chunk(e)>>
    BY <1>3, SentIs DEF DifyHandleData
  <2> QED
    BY <1>3, <2>1, LineCounted DEF LineKinds
<1>4. CASE e = "node"
  <2>1. r.h = [s EXCEPT !.tools = @ + 1] /\ r.out = <<Chunk("think")>>
    BY <1>4, SentIs DEF DifyHandleData
  <2>2. Notes(s, r.h) /\ r.h.use = s.use
    BY <2>1, NodeNoted
  <2>3. Writes(s, e, r)
    BY <2>1, <2>2, WritesOne DEF Notes, LineKinds
  <2> QED
    BY <2>2, <2>3 DEF Handled, NotesUse
<1> QED
  BY <1>1, <1>2, <1>3, <1>4

\* Gemini: its last line is two chunks, neither of them text.
LEMMA GeminiLine ==
    ASSUME made \in Nat, NEW s \in HandlerState,
           NEW e \in {"text", "think", "tool", "image", "end", "bad"},
           NEW r, r = GeminiHandleData(s, e)
    PROVE  Handled(s, e, r)
<1>1. CASE e = "bad"
  BY <1>1, SentIs, LinePassedOver DEF GeminiHandleData
<1>2. CASE e # "bad"
  <2> DEFINE n == IF e = "image" THEN s.images + 1 ELSE s.images
             u == IF e = "end" THEN Reported ELSE s.use
  <2>1. /\ r.h = [s EXCEPT !.images = n, !.use = u]
        /\ r.out = StreamResponseGeminiChat2OpenAI(e)
    <3>1. r = Sent([s EXCEPT !.images = n, !.use = u], StreamResponseGeminiChat2OpenAI(e))
      BY <1>2 DEF GeminiHandleData
    <3> QED
      BY <3>1, SentIs
  <2>2. n \in Nat /\ u \in Usages
    BY ReportType DEF HandlerState
  <2>3. Notes(s, r.h) /\ r.h.use = u
    <3> HIDE DEF n, u
    <3>1. /\ Notes(s, [s EXCEPT !.images = n, !.use = u])
          /\ [s EXCEPT !.images = n, !.use = u].use = u
      BY <2>2, ImageNoted
    <3> QED
      BY <2>1, <3>1, Zenon
  <2>4. NotesUse(s, e, r)
    BY <2>3, ReportType DEF NotesUse, Reports
  <2>5. CASE e # "end"
    <3>1. r.out = <<Chunk(e)>>
      BY <2>1, <2>5 DEF StreamResponseGeminiChat2OpenAI
    <3>2. Writes(s, e, r)
      BY <2>3, <3>1, WritesOne DEF Notes, LineKinds
    <3> QED
      BY <2>4, <3>2 DEF Handled
  <2>6. CASE e = "end"
    <3> DEFINE a == <<Chunk("end")>>
               b == <<Chunk("finish")>>
    <3>1. r.out = <<Chunk("end"), Chunk("finish")>>
      BY <2>1, <2>6 DEF StreamResponseGeminiChat2OpenAI
    <3>2. /\ a \in Seq(Chunks) /\ b \in Seq(Chunks)
          /\ \A names \in {Tags, BlockNames, {"[DONE]"}, {"text"}} : Lacks(a, names) /\ Lacks(b, names)
      BY LineChunk DEF LineKinds
    <3>3. r.out = a \o b
      BY <3>1
    <3> HIDE DEF a, b
    <3>4. /\ r.out \in Seq(Chunks)
          /\ \A names \in {Tags, BlockNames, {"[DONE]"}, {"text"}} : Lacks(r.out, names)
      BY <3>2, <3>3, CatEntries, CatLacks
    <3>5. Lacks(r.out, {"text", "block_delta"})
      BY <3>4 DEF Lacks, BlockNames
    <3>6. \A q \in Seq(Chunks) : Texts(q \o r.out) = Texts(q) /\ Texts(q) \in Nat
      BY <3>4, <3>5, NoMoreText, TextsType
    <3>7. Writes(s, e, r)
      BY <2>3, <2>6, <3>4, <3>6 DEF Writes, Plain, Notes, W
    <3> QED
      BY <2>4, <3>7 DEF Handled
  <2> QED
    BY <2>5, <2>6
<1> QED
  BY <1>1, <1>2

\* Xunfei: usages are summed.
LEMMA XunfeiLine ==
    ASSUME made \in Nat, NEW s \in HandlerState, NEW e \in {"text", "last", "bad"},
           NEW r, r = XunfeiHandleData(s, e)
    PROVE  Handled(s, e, r)
<1> DEFINE u == IF e = "last" THEN [p |-> s.use.p + 1, c |-> s.use.c + made] ELSE s.use
<1>1. r.h = [s EXCEPT !.use = u] /\ r.out = <<Chunk(e)>>
  <2>1. r = Sent([s EXCEPT !.use = u], <<Chunk(e)>>)
    BY DEF XunfeiHandleData
  <2> QED
    BY <2>1, SentIs
<1>2. u \in Usages /\ (u = s.use \/ (e \in Reports /\ u.p > 0 /\ u.c >= made))
  BY DEF HandlerState, Usages, Reports
<1> HIDE DEF u
<1>3. Notes(s, r.h) /\ r.h.use = u
  BY <1>1, <1>2, UseNoted
<1>4. Writes(s, e, r)
  BY <1>1, <1>3, WritesOne DEF Notes, LineKinds
<1> QED
  BY <1>2, <1>3, <1>4 DEF Handled, NotesUse

\* xAI: its lines are kept.
LEMMA XaiLine ==
    ASSUME made \in Nat, NEW s \in HandlerState, NEW e \in {"text", "think", "tool", "usage", "bad"},
           NEW r, r = XaiHandleData(s, e)
    PROVE  /\ Handled(s, e, r)
           /\ \/ e = "bad" /\ r.h.items = s.items
              \/ e # "bad" /\ r.h.items = Append(s.items, e)
<1>1. CASE e = "bad"
  BY <1>1, SentIs, LinePassedOver DEF XaiHandleData
<1>2. CASE e # "bad"
  <2> DEFINE u == IF e = "usage" THEN Reported ELSE s.use
  <2>1. r.h = [s EXCEPT !.use = u, !.items = Append(@, e)] /\ r.out = <<Chunk(e)>>
    <3>1. r = Sent([s EXCEPT !.use = u, !.items = Append(@, e)], <<Chunk(e)>>)
      BY <1>2 DEF XaiHandleData
    <3> QED
      BY <3>1, SentIs
  <2>2. u \in Usages /\ (u = s.use \/ (e \in Reports /\ u.p > 0 /\ u.c >= made))
    BY ReportType DEF HandlerState, Reports
  <2>3. e \in LineKinds
    BY DEF LineKinds
  <2> HIDE DEF u
  <2>4. Notes(s, r.h) /\ r.h.use = u /\ r.h.items = Append(s.items, e)
    <3>1. /\ Notes(s, [s EXCEPT !.use = u, !.items = Append(@, e)])
          /\ [s EXCEPT !.use = u, !.items = Append(@, e)].use = u
          /\ [s EXCEPT !.use = u, !.items = Append(@, e)].items = Append(s.items, e)
      BY <2>2, <2>3, ItemNoted
    <3> QED
      BY <2>1, <3>1, Zenon
  <2>5. Writes(s, e, r)
    BY <2>1, <2>3, <2>4, WritesOne DEF Notes
  <2> QED
    BY <1>2, <2>2, <2>4, <2>5 DEF Handled, NotesUse
<1> QED
  BY <1>1, <1>2

ClaudeLines == {"start", "block", "text", "think", "tool", "delta", "stop", "error", "bad"}

\* What is noted of an event: its text, or what it reports.
LEMMA ClaudeNoted ==
    ASSUME made \in Nat, NEW s \in HandlerState, NEW e \in ClaudeLines,
           NEW t, t = FormatClaudeResponseInfo(s, e)
    PROVE  /\ Notes(s, t) /\ t.text >= s.text + W(e) /\ t.err = s.err
           /\ e = "delta" => t.use.c = made
           /\ e # "delta" => (t.use.c = s.use.c \/ (e = "start" /\ req.client = "claude"))
<1>0. s.use \in Usages /\ s.use.c \in Nat /\ s.text \in Nat
  BY DEF HandlerState, Usages
<1>1. CASE e = "start"
  <2> DEFINE c == IF req.client = "claude" THEN 1 ELSE s.use.c
  <2>1. t = [s EXCEPT !.use.p = 1, !.use.c = c]
    BY <1>1 DEF FormatClaudeResponseInfo
  <2>2. c \in Nat
    BY <1>0
  <2>3. c = s.use.c \/ req.client = "claude"
    OBVIOUS
  <2> HIDE DEF c
  <2>4. /\ Notes(s, [s EXCEPT !.use.p = 1, !.use.c = c])
        /\ [s EXCEPT !.use.p = 1, !.use.c = c].use.c = c
        /\ [s EXCEPT !.use.p = 1, !.use.c = c].text = s.text
    BY <2>2, StartNoted
  <2>5. Notes(s, t) /\ t.use.c = c /\ t.text = s.text
    BY <2>1, <2>4, Zenon
  <2>6. t.err = s.err
    BY <2>1 DEF HandlerState
  <2> QED
    BY <1>0, <1>1, <2>3, <2>5, <2>6 DEF W
<1>2. CASE e = "text"
  <2>1. t = [s EXCEPT !.text = @ + 1]
    BY <1>2 DEF FormatClaudeResponseInfo
  <2>2. Notes(s, t) /\ t.use = s.use /\ t.text = s.text + 1
    BY <2>1, TextNoted
  <2>3. t.err = s.err
    BY <2>1 DEF HandlerState
  <2> QED
    BY <1>0, <1>2, <2>2, <2>3 DEF W
<1>3. CASE e = "delta"
  <2>1. t = [s EXCEPT !.use.c = made]
    BY <1>3 DEF FormatClaudeResponseInfo
  <2>2. /\ Notes(s, [s EXCEPT !.use.c = made])
        /\ [s EXCEPT !.use.c = made].use.c = made /\ [s EXCEPT !.use.c = made].text = s.text
    BY StartNoted
  <2>3. Notes(s, t) /\ t.use.c = made /\ t.text = s.text
    BY <2>1, <2>2, Zenon
  <2>4. t.err = s.err
    BY <2>1 DEF HandlerState
  <2> QED
    BY <1>0, <1>3, <2>3, <2>4 DEF W
<1>4. CASE e \notin {"start", "text", "delta"}
  <2>1. t = s
    BY <1>4 DEF FormatClaudeResponseInfo
  <2> QED
    BY <1>0, <1>4, <2>1, SameNoted DEF W
<1> QED
  BY <1>1, <1>2, <1>3, <1>4

\* Anthropic's events, in either client's format.
LEMMA ClaudeLine ==
    ASSUME made \in Nat, NEW s \in HandlerState, NEW e \in ClaudeLines,
           NEW r, r = HandleStreamResponseData(s, e)
    PROVE  /\ Writes(s, e, r) /\ NotesText(s, e, r) /\ (s.err => r.h.err)
           /\ e = "delta" => r.h.use.c = made
           /\ e # "delta" => \/ r.h.use.c = s.use.c
                             \/ e = "start" /\ req.client = "claude"
<1>0. e \in LineKinds
  BY DEF ClaudeLines, LineKinds
<1>1. CASE e \in {"bad", "error"}
  <2>1. r.h = [s EXCEPT !.err = TRUE] /\ r.out = <<>>
    BY <1>1, SentIs DEF HandleStreamResponseData
  <2>2. Notes(s, r.h)
    BY <2>1, ErrorNoted
  <2>3. r.h.use = s.use /\ r.h.text = s.text /\ s.text \in Nat /\ r.h.err
    BY <2>1 DEF HandlerState
  <2>4. Writes(s, e, r)
    BY <2>1, <2>2, WritesNone DEF Notes
  <2> QED
    BY <1>1, <2>3, <2>4 DEF NotesText, W
<1>2. CASE e \notin {"bad", "error"}
  <2> DEFINE t == FormatClaudeResponseInfo(s, e)
             o == IF req.client = "claude" THEN <<Chunk(e)>> ELSE StreamResponseClaude2OpenAI(e)
  <2>1. r.h = t /\ r.out = o
    <3>1. r = Sent(t, o)
      BY <1>2 DEF HandleStreamResponseData
    <3> HIDE DEF t, o
    <3> QED
      BY <3>1, SentIs
  <2>2. /\ Notes(s, t) /\ t.text >= s.text + W(e) /\ t.err = s.err
        /\ e = "delta" => t.use.c = made
        /\ e # "delta" => (t.use.c = s.use.c \/ (e = "start" /\ req.client = "claude"))
    BY ClaudeNoted
  <2>3. o = <<>> \/ \E d \in LineKinds : (d = "text" => e = "text") /\ o = <<Chunk(d)>>
    BY <1>0 DEF StreamResponseClaude2OpenAI, LineKinds
  <2> HIDE DEF t, o
  <2>4. Writes(s, e, r)
    BY <2>1, <2>2, <2>3, WritesNone, WritesOne DEF Notes
  <2> QED
    BY <2>1, <2>2, <2>4 DEF NotesText
<1> QED
  BY <1>1, <1>2

(***************************************************************************)
(* Streams: a chat's lines, written in OpenAI's format.                    *)
(***************************************************************************)
\* A step in order, with at most w texts.
Steps(s, w, r) ==
    InOrderAfter(s, r) /\ \A q \in Seq(Chunks) : Texts(q \o r.out) <= Texts(q) + w

Keeps(s, s2) == s2.last = s.last /\ s2.items = s.items /\ s2.use = s.use

\* Where no tag is ever written there is no thinking.
Untagged(s) == req.setting \in {"plain", "force"} => s.first

\* What is written in plain is in order.
LEMMA WritesInOrder ==
    ASSUME NEW s, NEW e, NEW r, Writes(s, e, r),
           s.first \/ s.sendLast \/ ~s.hasSent \/ Lacks(r.out, {"text"})
    PROVE  Steps(s, W(e), r)
BY PlainInOrder DEF Writes, Steps

\* One line written, as it is.
LEMMA LineStep ==
    ASSUME NEW s \in HandlerState, NEW e \in LineKinds, NEW r, r.h = s, r.out = <<Chunk(e)>>,
           s.first \/ s.sendLast \/ ~s.hasSent \/ e # "text"
    PROVE  Steps(s, W(e), r)
<1>1. Writes(s, e, r)
  BY WritesOne DEF SameTags, SameBlock
<1>2. e # "text" => Lacks(r.out, {"text"})
  BY LineChunk
<1> QED
  BY <1>1, <1>2, WritesInOrder

\* Nothing written.
LEMMA NoStep ==
    ASSUME NEW s \in HandlerState, NEW e, NEW r, r.h \in HandlerState,
           SameTags(s, r.h), SameBlock(s, r.h), r.out = <<>>
    PROVE  Steps(s, W(e), r)
<1>1. Writes(s, e, r)
  BY WritesNone
<1>2. Lacks(r.out, {"text"})
  BY NoChunk
<1> QED
  BY <1>1, <1>2, WritesInOrder

\* A chunk of one name that is none of a line's.
LEMMA OtherChunk ==
    ASSUME NEW t \in ChunkNames, t \notin {"text", "block_delta"}
    PROVE  /\ Chunk(t) \in Chunks /\ Chunk(t).t = t /\ <<Chunk(t)>> \in Seq(Chunks)
           /\ Lacks(<<Chunk(t)>>, {"text", "block_delta"})
           /\ \A names : t \notin names => Lacks(<<Chunk(t)>>, names)
<1>1. Chunk(t) \in Chunks /\ Chunk(t).t = t
  BY ChunkType DEF BlockKinds
<1> QED
  BY <1>1, OneChunk

\* A line in OpenAI's format.
LEMMA SentInOrder ==
    ASSUME NEW s \in HandlerState, NEW e \in LineKinds, Untagged(s),
           NEW r, r = SendStreamData(s, e)
    PROVE  Steps(s, W(e), r) /\ Keeps(s, r.h) /\ SameBlock(s, r.h) /\ Untagged(r.h)
           /\ r.h.count = s.count
<1>0. Keeps(s, s) /\ SameBlock(s, s) /\ SameTags(s, s)
  BY DEF Keeps, SameBlock, SameTags
<1>1. CASE req.setting = "plain"
  <2>1. r.h = s /\ r.out = <<Chunk(e)>> /\ s.first
    <3>1. r = Sent(s, <<Chunk(e)>>)
      BY <1>1 DEF SendStreamData
    <3> QED
      BY <1>1, <3>1, SentIs DEF Untagged
  <2> QED
    BY <1>0, <2>1, LineStep
<1>2. CASE req.setting # "plain" /\ e = "bad"
  <2>1. r.h = s /\ r.out = <<>>
    <3>1. r = Skipped(s)
      BY <1>2 DEF SendStreamData
    <3> QED
      BY <3>1, SentIs
  <2> QED
    BY <1>0, <2>1, NoStep
<1>3. CASE req.setting # "plain" /\ e # "bad" /\ (req.setting = "force" \/ e = "usage")
  <2>1. r.h = s /\ r.out = <<Chunk(e)>> /\ (s.first \/ e # "text")
    <3>1. r = Sent(s, <<Chunk(e)>>)
      BY <1>3 DEF SendStreamData
    <3>2. s.first \/ e # "text"
      BY <1>3 DEF Untagged
    <3> QED
      BY <3>1, <3>2, SentIs
  <2> QED
    BY <1>0, <2>1, LineStep
<1>4. CASE req.setting # "plain" /\ e # "bad" /\ req.setting # "force" /\ e # "usage"
  <2>1. CASE e = "think" /\ s.first
    <3> DEFINE c == <<Chunk("<think>")>>
               s2 == [s EXCEPT !.first = FALSE, !.hasSent = TRUE]
    <3>1. r.h = s2 /\ r.out = c
      BY <1>4, <2>1, SentIs DEF SendStreamData
    <3>2. /\ s2 \in HandlerState /\ Keeps(s, s2) /\ SameBlock(s, s2) /\ s2.count = s.count
          /\ ~s2.first /\ s2.hasSent /\ s2.sendLast = s.sendLast
      BY DEF HandlerState, Keeps, SameBlock
    <3>3. /\ c \in Seq(Chunks) /\ Lacks(c, {"text", "block_delta"}) /\ Lacks(c, {"[DONE]"})
          /\ Lacks(c, BlockNames)
      BY OtherChunk DEF ChunkNames, Tags, BlockNames
    <3>4. ASSUME NEW q \in Seq(Chunks), TagsKept(q, s) PROVE TagsKept(q \o c, s2)
      <4> HIDE DEF s2
      <4> QED
        BY <2>1, <3>2, <3>4, TagOpens
    <3> HIDE DEF c, s2
    <3>5. ASSUME NEW q \in Seq(Chunks), BlocksKept(q, s) PROVE BlocksKept(q \o c, s2)
      BY <3>2, <3>3, <3>5, BlocksPass
    <3>6. \A q \in Seq(Chunks) : Texts(q \o c) = Texts(q) /\ Texts(q) \in Nat
      BY <3>3, NoMoreText, TextsType
    <3>7. Steps(s, W(e), r)
      BY <3>1, <3>2, <3>3, <3>4, <3>5, <3>6 DEF Steps, InOrderAfter, W
    <3> QED
      BY <1>4, <3>1, <3>2, <3>7 DEF Untagged
  <2>2. CASE e = "think" /\ ~s.first
    <3>1. r.h = s /\ r.out = <<Chunk("thought")>>
      BY <1>4, <2>2, SentIs DEF SendStreamData
    <3>2. /\ r.out \in Seq(Chunks) /\ Lacks(r.out, {"text", "block_delta"})
          /\ Lacks(r.out, {"[DONE]"}) /\ Lacks(r.out, BlockNames) /\ Lacks(r.out, Tags)
          /\ Lacks(r.out, {"text"})
      BY <3>1, OtherChunk DEF ChunkNames, Tags, BlockNames
    <3>3. \A q \in Seq(Chunks) : Texts(q \o r.out) = Texts(q) /\ Texts(q) \in Nat
      BY <3>2, NoMoreText, TextsType
    <3>4. Writes(s, e, r)
      BY <1>0, <3>1, <3>2, <3>3 DEF Writes, Plain, W
    <3> QED
      BY <1>0, <3>1, <3>2, <3>4, WritesInOrder
  <2>3. CASE e = "text" /\ s.hasSent /\ ~s.sendLast
    <3> DEFINE c == <<Chunk("</think>")>>
               d == <<Chunk("text")>>
               s2 == [s EXCEPT !.sendLast = TRUE]
               r1 == [h |-> s2, out |-> c]
               r2 == [h |-> s2, out |-> d]
    <3>1. r.h = s2 /\ r.out = c \o d
      <4>1. r.h = s2 /\ r.out = <<Chunk("</think>"), Chunk("text")>>
        BY <1>4, <2>3, SentIs DEF SendStreamData
      <4> QED
        BY <4>1
    <3>2. /\ s2 \in HandlerState /\ Keeps(s, s2) /\ SameBlock(s, s2) /\ s2.count = s.count
          /\ s2.first = s.first /\ s2.hasSent = s.hasSent /\ s2.sendLast
      BY DEF HandlerState, Keeps, SameBlock
    <3>3. /\ c \in Seq(Chunks) /\ Lacks(c, {"text", "block_delta"}) /\ Lacks(c, {"[DONE]"})
          /\ Lacks(c, BlockNames)
      BY OtherChunk DEF ChunkNames, Tags, BlockNames
    <3>4. ASSUME NEW q \in Seq(Chunks), TagsKept(q, s) PROVE TagsKept(q \o c, s2)
      <4> HIDE DEF s2
      <4> QED
        BY <2>3, <3>2, <3>4, TagCloses
    <3>5. r1.h = s2 /\ r1.out = c /\ r2.h = s2 /\ r2.out = d
      OBVIOUS
    <3> HIDE DEF c, s2, r1, r2
    <3>6. ASSUME NEW q \in Seq(Chunks), BlocksKept(q, s) PROVE BlocksKept(q \o c, s2)
      BY <3>2, <3>3, <3>6, BlocksPass
    <3>7. InOrderAfter(s, r1)
      BY <3>2, <3>3, <3>4, <3>5, <3>6 DEF InOrderAfter
    <3>8. d = <<Chunk(e)>>
      BY <2>3 DEF d
    <3>9. Steps(s2, W(e), r2)
      BY <3>2, <3>5, <3>8, LineStep
    <3> DEFINE b == [h |-> r2.h, out |-> r1.out \o r2.out]
    <3>10. InOrderAfter(s, b)
      BY <3>5, <3>7, <3>9, InOrderTwice DEF Steps
    <3>11. b.h = r.h /\ b.out = r.out
      BY <3>1, <3>5
    <3> HIDE DEF b
    <3>12. InOrderAfter(s, r)
      BY <3>10, <3>11 DEF InOrderAfter
    <3>13. ASSUME NEW q \in Seq(Chunks) PROVE Texts(q \o r.out) <= Texts(q) + W(e)
      <4>1. q \o r.out = (q \o c) \o d /\ q \o c \in Seq(Chunks) /\ d \in Seq(Chunks)
        <5>1. \A x, y, z \in Seq(Chunks) : (x \o y) \o z = x \o (y \o z)
          BY CatThrice
        <5>2. d \in Seq(Chunks)
          BY <3>8, LineChunk
        <5>3. q \o c \in Seq(Chunks)
          BY <3>3, CatEntries
        <5>4. (q \o c) \o d = q \o (c \o d)
          BY <3>3, <5>1, <5>2
        <5> QED
          BY <3>1, <5>2, <5>3, <5>4
      <4>2. Texts(q \o c) = Texts(q)
        BY <3>3, NoMoreText
      <4>3. Texts((q \o c) \o d) <= Texts(q \o c) + W(e)
        BY <3>5, <3>9, <4>1 DEF Steps
      <4> QED
        BY <4>1, <4>2, <4>3
    <3> QED
      BY <3>1, <3>2, <3>12, <3>13 DEF Steps, Untagged
  <2>4. CASE e # "think" /\ ~(e = "text" /\ s.hasSent /\ ~s.sendLast)
    <3>1. r.h = s /\ r.out = <<Chunk(e)>>
      BY <1>4, <2>4, SentIs DEF SendStreamData
    <3> QED
      BY <1>0, <2>4, <3>1, LineStep
  <2> QED
    BY <2>1, <2>2, <2>3, <2>4
<1> QED
  BY <1>1, <1>2, <1>3, <1>4

(***************************************************************************)
(* Streams: a chat's lines, written in Claude's format.                    *)
(***************************************************************************)
\* No block is open before the first line has been spent, and the first is number 0.
FirstBlock(s) ==
    /\ s.count <= 1 => s.kind = "none"
    /\ s.kind = "none" => s.index = 0

\* The chunks that stand between lines.
LEMMA BlockChunks ==
    ASSUME NEW i \in Nat, NEW k \in BlockKinds
    PROVE  /\ \A b \in {StopBlock(i), Opened(i, k)} :
                /\ b \in Seq(Chunks) /\ Lacks(b, {"text", "block_delta"}) /\ Lacks(b, {"text"})
                /\ Lacks(b, {"block_delta"}) /\ Lacks(b, Tags) /\ Lacks(b, {"[DONE]"})
           /\ Delta(i, k) \in Seq(Chunks) /\ Lacks(Delta(i, k), {"text"})
           /\ Lacks(Delta(i, k), Tags) /\ Lacks(Delta(i, k), {"[DONE]"})
<1>1. BlockNames \subseteq ChunkNames
  BY DEF ChunkNames
<1>2. "none" \in BlockKinds
  BY DEF BlockKinds
<1>3. ASSUME NEW t \in BlockNames, NEW j \in BlockKinds
      PROVE  /\ <<Block(t, i, j)>> \in Seq(Chunks)
             /\ \A names : t \notin names => Lacks(<<Block(t, i, j)>>, names)
  BY <1>1, ChunkType, OneChunk
<1> QED
  BY <1>2, <1>3 DEF StopBlock, Opened, Delta, BlockNames, Tags

\* A delta is one text or none.
LEMMA DeltaTexts ==
    ASSUME NEW q \in Seq(Chunks), NEW i \in Nat, NEW e \in BlockKinds
    PROVE  Texts(q \o Delta(i, e)) <= Texts(q) + W(e)
<1> DEFINE c == Block("block_delta", i, e)
<1>0. "block_delta" \in ChunkNames
  BY DEF ChunkNames, BlockNames
<1>1. c \in Chunks /\ c.t = "block_delta" /\ c.k = e
  BY <1>0, ChunkType
<1> HIDE DEF c
<1>2. Texts(q \o <<c>>) = Texts(q) + (IF IsText(c) THEN 1 ELSE 0) /\ Texts(q) \in Nat
  BY <1>1, OneMoreText, TextsType
<1>3. IsText(c) <=> e = "text"
  BY <1>1 DEF IsText
<1>4. Texts(q \o <<c>>) <= Texts(q) + W(e)
  BY <1>2, <1>3 DEF W
<1> QED
  BY <1>4 DEF c, Delta

\* A line in a block.
LEMMA BlockInOrder ==
    ASSUME NEW s \in HandlerState, NEW e \in {"text", "think", "tool"}, ~s.done,
           NEW r, r = InBlock(s, e)
    PROVE  /\ Steps(s, W(e), r) /\ Keeps(s, r.h) /\ r.h.first = s.first /\ r.h.count = s.count
           /\ ~r.h.done /\ r.h.kind = e
<1> DEFINE new == s.kind # e
           moves == new /\ (e = "tool" \/ (e = "text" /\ s.kind \in {"think", "tool"}))
           i == IF moves THEN s.index + 1 ELSE s.index
           a == IF moves THEN StopBlock(s.index) ELSE <<>>
           b == IF new THEN Opened(i, e) ELSE <<>>
           c == Delta(i, e)
           s2 == [s EXCEPT !.kind = e, !.index = i]
<1>1. r.h = s2 /\ r.out = (a \o b) \o c
  <2> DEFINE o == (a \o b) \o c
  <2>1. r = Sent(s2, o)
    BY DEF InBlock
  <2> HIDE DEF s2, o
  <2>2. r.h = s2 /\ r.out = o
    BY <2>1, SentIs
  <2> QED
    BY <2>2 DEF o
<1>2. i \in Nat /\ s.index \in Nat /\ e \in BlockKinds
  BY DEF HandlerState, BlockKinds, LineKinds
<1>3. /\ s2 \in HandlerState /\ Keeps(s, s2) /\ SameTags(s, s2) /\ s2.count = s.count
      /\ s2.kind = e /\ s2.index = i /\ s2.done = s.done
  <2> HIDE DEF i
  <2> QED
    BY <1>2 DEF HandlerState, Kinds, Keeps, SameTags
<1>4. /\ \A x \in {a, b} : /\ x \in Seq(Chunks) /\ Lacks(x, {"text", "block_delta"})
                           /\ Lacks(x, {"text"}) /\ Lacks(x, {"block_delta"})
                           /\ Lacks(x, Tags) /\ Lacks(x, {"[DONE]"})
      /\ c \in Seq(Chunks) /\ Lacks(c, {"text"}) /\ Lacks(c, Tags) /\ Lacks(c, {"[DONE]"})
  BY <1>2, BlockChunks, NoChunk
<1>5. ~new => a = <<>> /\ b = <<>> /\ i = s.index /\ e = s.kind
  OBVIOUS
<1>6. /\ new => b = Opened(i, e)
      /\ IF moves THEN a = StopBlock(s.index) /\ i = s.index + 1 ELSE a = <<>> /\ i = s.index
  OBVIOUS
<1>7. /\ a \o b \in Seq(Chunks)
      /\ \A names \in {{"text"}, {"text", "block_delta"}, {"block_delta"}, Tags, {"[DONE]"}} :
           Lacks(a \o b, names)
  <2> HIDE DEF a, b, c
  <2> QED
    BY <1>4, CatEntries, CatLacks
<1> HIDE DEF new, moves, i, a, b, c, s2
<1>8. /\ r.out \in Seq(Chunks)
      /\ \A names \in {{"text"}, Tags, {"[DONE]"}} : Lacks(r.out, names)
  <2> DEFINE ab == a \o b
  <2>1. /\ ab \in Seq(Chunks) /\ r.out = ab \o c
        /\ \A names \in {{"text"}, Tags, {"[DONE]"}} : Lacks(ab, names) /\ Lacks(c, names)
    BY <1>1, <1>4, <1>7
  <2> HIDE DEF ab
  <2> QED
    BY <1>4, <2>1, CatEntries, CatLacks
<1>9. ASSUME NEW q \in Seq(Chunks)
      PROVE  /\ q \o a \in Seq(Chunks) /\ (q \o a) \o b \in Seq(Chunks)
             /\ q \o r.out = ((q \o a) \o b) \o c
  <2>1. \A x, y, z \in Seq(Chunks) : (x \o y) \o z = x \o (y \o z)
    BY CatThrice
  <2>2. q \o a \in Seq(Chunks) /\ (q \o a) \o b \in Seq(Chunks)
    BY <1>4, CatEntries
  <2>3. (q \o a) \o b = q \o (a \o b)
    BY <1>4, <2>1
  <2>4. (q \o (a \o b)) \o c = q \o ((a \o b) \o c)
    BY <1>4, <1>7, <2>1
  <2> QED
    BY <1>1, <2>2, <2>3, <2>4
<1>10. ASSUME NEW q \in Seq(Chunks) PROVE Texts(q \o r.out) <= Texts(q) + W(e)
  <2>1. Texts(q \o a) = Texts(q) /\ Texts((q \o a) \o b) = Texts(q \o a)
    BY <1>4, <1>9, NoMoreText
  <2>2. Texts(((q \o a) \o b) \o c) <= Texts((q \o a) \o b) + W(e)
    BY <1>2, <1>9, DeltaTexts DEF c
  <2> QED
    BY <1>9, <2>1, <2>2
<1>11. ASSUME NEW q \in Seq(Chunks), TagsKept(q, s) PROVE TagsKept(q \o r.out, s2)
  BY <1>3, <1>8, <1>11, TagsPass
<1>12. ASSUME NEW q \in Seq(Chunks), BlocksKept(q, s) PROVE BlocksKept(q \o r.out, s2)
  <2> DEFINE q2 == (q \o a) \o b
  <2>1. q2 \in Seq(Chunks) /\ q \o r.out = q2 \o c
    BY <1>9
  <2>2. DeltasHold(q2)
    <3>1. DeltasHold(q \o a)
      BY <1>4, <1>12, DeltasPass DEF BlocksKept
    <3> QED
      BY <1>4, <1>9, <3>1, DeltasPass
  <2>3. OpenIn(q2, i, e)
    <3>1. CASE new
      BY <1>2, <1>6, <1>9, <3>1, OpenNew
    <3>2. CASE ~new
      <4>1. q2 = q
        BY <1>5, <3>2, ConcatEmptySeq
      <4>2. OpenIn(q, s.index, s.kind)
        BY <1>5, <1>12, <3>2 DEF BlocksKept
      <4> QED
        BY <1>5, <3>2, <4>1, <4>2
    <3> QED
      BY <3>1, <3>2
  <2> HIDE DEF q2
  <2>4. DeltasHold(q2 \o c) /\ OpenIn(q2 \o c, i, e)
    BY <1>2, <2>1, <2>2, <2>3, DeltaNew DEF c
  <2>5. Marked(q2 \o c, i)
    <3>1. Marked(q, s.index)
      BY <1>12 DEF BlocksKept
    <3>2. Marked(q \o a, i)
      <4>1. CASE moves
        BY <1>2, <1>6, <3>1, <4>1, BlockMarked
      <4>2. CASE ~moves
        BY <1>6, <3>1, <4>2, ConcatEmptySeq
      <4> QED
        BY <4>1, <4>2
    <3>3. Marked((q \o a) \o b, i)
      <4>1. CASE new
        BY <1>2, <1>6, <1>9, <3>2, <4>1, BlockMarked
      <4>2. CASE ~new
        BY <1>5, <1>9, <3>2, <4>2, ConcatEmptySeq
      <4> QED
        BY <4>1, <4>2
    <3> QED
      BY <1>2, <2>1, <3>3, BlockMarked DEF q2, c
  <2> QED
    BY <1>3, <2>1, <2>4, <2>5 DEF BlocksKept
<1>13. Steps(s, W(e), r)
  BY <1>1, <1>3, <1>8, <1>10, <1>11, <1>12 DEF Steps, InOrderAfter
<1> QED
  BY <1>1, <1>3, <1>13 DEF SameTags

\* Chunks beside the blocks, before one is open or when all is over.
LEMMA BesideBlocks ==
    ASSUME NEW s \in HandlerState, s.kind = "none" \/ s.done, NEW r, r.h = s, r.out \in Seq(Chunks),
           Lacks(r.out, {"text", "block_delta"}), Lacks(r.out, Tags), Lacks(r.out, {"[DONE]"}),
           \A q \in Seq(Chunks) : ~s.done /\ Marked(q, s.index) => Marked(q \o r.out, s.index)
    PROVE  /\ \A e : Steps(s, W(e), r)
           /\ \A q \in Seq(Chunks) : Texts(q \o r.out) = Texts(q)
<1>1. Lacks(r.out, {"text"}) /\ Lacks(r.out, {"block_delta"})
  BY DEF Lacks
<1>2. ASSUME NEW q \in Seq(Chunks), TagsKept(q, s) PROVE TagsKept(q \o r.out, s)
  BY <1>1, <1>2, TagsPass DEF SameTags
<1>3. ASSUME NEW q \in Seq(Chunks), BlocksKept(q, s) PROVE BlocksKept(q \o r.out, s)
  BY <1>1, <1>3, DeltasPass DEF BlocksKept
<1>4. \A q \in Seq(Chunks) : Texts(q \o r.out) = Texts(q) /\ Texts(q) \in Nat
  BY NoMoreText, TextsType
<1>5. \A e : W(e) \in Nat
  BY DEF W
<1>6. InOrderAfter(s, r)
  BY <1>2, <1>3 DEF InOrderAfter
<1> QED
  BY <1>4, <1>5, <1>6 DEF Steps

\* A line in Claude's format; the last call writes no text.
LEMMA ClaudeInOrder ==
    ASSUME NEW s \in HandlerState, NEW e \in LineKinds, FirstBlock(s),
           s.count >= 1 \/ s.done, NEW r, r = StreamResponseOpenAI2Claude(s, e)
    PROVE  /\ Steps(s, W(e), r) /\ Keeps(s, r.h) /\ r.h.first = s.first /\ FirstBlock(r.h)
           /\ r.h.done = s.done
           /\ s.done => Lacks(r.out, {"[DONE]"}) /\ Lacks(r.out, Tags) /\ Lacks(r.out, {"text", "block_delta"})
           /\ r.out \in Seq(Chunks)
<1>0. Keeps(s, s) /\ SameTags(s, s) /\ SameBlock(s, s)
  BY DEF Keeps, SameTags, SameBlock
<1>1. CASE s.count = 1
  <2> DEFINE m == <<Chunk("message_start")>>
             o == IF e = "tool" THEN Opened(0, e) ELSE <<>>
             p == m \o o
  <2>1. r.h = s /\ r.out = p
    <3>1. r = Sent(s, p)
      BY <1>1 DEF StreamResponseOpenAI2Claude
    <3> HIDE DEF p
    <3> QED
      BY <3>1, SentIs
  <2>2. /\ m \in Seq(Chunks) /\ o \in Seq(Chunks)
        /\ \A names \in {{"text", "block_delta"}, Tags, {"[DONE]"}} : Lacks(m, names) /\ Lacks(o, names)
    <3>1. "message_start" \in ChunkNames /\ "message_start" \notin Tags
      BY DEF ChunkNames, Tags
    <3>2. e \in BlockKinds
      BY DEF BlockKinds
    <3>3. /\ Opened(0, e) \in Seq(Chunks)
          /\ \A names \in {{"text", "block_delta"}, Tags, {"[DONE]"}} : Lacks(Opened(0, e), names)
      BY <3>2, BlockChunks
    <3> QED
      BY <3>1, <3>3, OtherChunk, NoChunk
  <2> HIDE DEF m, o
  <2>3. /\ p \in Seq(Chunks)
        /\ \A names \in {{"text", "block_delta"}, Tags, {"[DONE]"}} : Lacks(p, names)
    BY <2>2, CatEntries, CatLacks
  <2>4. s.kind = "none" /\ s.index = 0
    BY <1>1 DEF FirstBlock
  <2>5. ASSUME NEW q \in Seq(Chunks), Marked(q, 0) PROVE Marked(q \o p, 0)
    BY <2>5, StartMarked DEF m, o
  <2> HIDE DEF p
  <2> QED
    BY <1>0, <2>1, <2>3, <2>4, <2>5, BesideBlocks
<1>2. CASE s.count # 1 /\ e \notin {"usage", "finish", "last"} /\ s.done
  <2> DEFINE m == StopBlock(s.index)
             a == <<Chunk("message_delta")>>
             b == <<Chunk("message_stop")>>
             o == a \o b
             p == m \o o
  <2>1. r.h = s /\ r.out = p
    <3>1. r = Sent(s, m \o <<Chunk("message_delta"), Chunk("message_stop")>>)
      BY <1>2 DEF StreamResponseOpenAI2Claude
    <3>2. <<Chunk("message_delta"), Chunk("message_stop")>> = o
      OBVIOUS
    <3>3. r = Sent(s, p)
      BY <3>1, <3>2
    <3> HIDE DEF p
    <3> QED
      BY <3>3, SentIs
  <2>2. /\ m \in Seq(Chunks) /\ a \in Seq(Chunks) /\ b \in Seq(Chunks)
        /\ \A names \in {{"text", "block_delta"}, Tags, {"[DONE]"}} :
             Lacks(m, names) /\ Lacks(a, names) /\ Lacks(b, names)
    <3>1. /\ {"message_delta", "message_stop"} \subseteq ChunkNames
          /\ "message_delta" \notin Tags /\ "message_stop" \notin Tags
      BY DEF ChunkNames, Tags
    <3>2. s.index \in Nat /\ "none" \in BlockKinds
      BY DEF BlockKinds, HandlerState
    <3> QED
      BY <3>1, <3>2, OtherChunk, BlockChunks
  <2> HIDE DEF m, a, b
  <2>3. /\ o \in Seq(Chunks)
        /\ \A names \in {{"text", "block_delta"}, Tags, {"[DONE]"}} : Lacks(o, names)
    BY <2>2, CatEntries, CatLacks
  <2> HIDE DEF o
  <2>4. /\ p \in Seq(Chunks)
        /\ \A names \in {{"text", "block_delta"}, Tags, {"[DONE]"}} : Lacks(p, names)
    BY <2>2, <2>3, CatEntries, CatLacks
  <2> HIDE DEF p
  <2> QED
    BY <1>0, <1>2, <2>1, <2>4, BesideBlocks
<1>3. CASE s.count # 1 /\ e \in {"text", "think", "tool"} /\ ~s.done
  <2>1. r = InBlock(s, e)
    BY <1>3 DEF StreamResponseOpenAI2Claude
  <2>2. /\ Steps(s, W(e), r) /\ Keeps(s, r.h) /\ r.h.first = s.first /\ r.h.count = s.count
        /\ ~r.h.done /\ r.h.kind = e
    BY <1>3, <2>1, BlockInOrder
  <2>3. s.count \in Nat /\ s.done = FALSE /\ r.h.done = FALSE /\ r.out \in Seq(Chunks)
    BY <1>3, <2>2 DEF HandlerState, Steps, InOrderAfter
  <2>4. FirstBlock(r.h)
    BY <1>3, <2>2, <2>3 DEF FirstBlock
  <2> QED
    BY <1>3, <2>2, <2>3, <2>4
<1>4. CASE s.count # 1 /\ (e \in {"usage", "finish", "last"} \/ (~s.done /\ e \notin {"text", "think", "tool"}))
  <2>1. r.h = s /\ r.out = <<>>
    <3>1. r = Skipped(s)
      BY <1>4 DEF StreamResponseOpenAI2Claude
    <3> QED
      BY <3>1, SentIs
  <2> QED
    BY <1>0, <2>1, NoStep, NoChunk
<1> QED
  BY <1>1, <1>2, <1>3, <1>4

\* The last call for an answer closes it, if anything does.
LEMMA ClaudeEnds ==
    ASSUME NEW s \in HandlerState, NEW e \in LineKinds, FirstBlock(s), s.done,
           NEW q \in Seq(Chunks), Marked(q, s.index)
    PROVE  Closed(q \o StreamResponseOpenAI2Claude(s, e).out)
<1> DEFINE x == StreamResponseOpenAI2Claude(s, e)
<1>1. s.index \in Nat
  BY DEF HandlerState
<1>2. CASE s.count = 1
  <2> DEFINE o == <<Chunk("message_start")>> \o (IF e = "tool" THEN Opened(0, e) ELSE <<>>)
  <2>1. x.out = o
    <3>1. x = Sent(s, o)
      BY <1>2 DEF StreamResponseOpenAI2Claude
    <3> HIDE DEF x, o
    <3> QED
      BY <3>1, SentIs
  <2>2. s.index = 0
    BY <1>2 DEF FirstBlock
  <2>3. Marked(q \o o, 0)
    BY <2>2, StartMarked
  <2> QED
    BY <2>1, <2>3, MarkedClosed
<1>3. CASE s.count # 1 /\ e \notin {"usage", "finish", "last"}
  <2> DEFINE o == StopBlock(s.index) \o (<<Chunk("message_delta")>> \o <<Chunk("message_stop")>>)
  <2>1. x.out = o
    <3>1. x = Sent(s, StopBlock(s.index) \o <<Chunk("message_delta"), Chunk("message_stop")>>)
      BY <1>3 DEF StreamResponseOpenAI2Claude
    <3>2. <<Chunk("message_delta"), Chunk("message_stop")>>
            = <<Chunk("message_delta")>> \o <<Chunk("message_stop")>>
      OBVIOUS
    <3>3. x = Sent(s, o)
      BY <3>1, <3>2
    <3> HIDE DEF x, o
    <3> QED
      BY <3>3, SentIs
  <2> QED
    BY <1>1, <2>1, Closes
<1>4. CASE s.count # 1 /\ e \in {"usage", "finish", "last"}
  <2>1. x.out = <<>>
    BY <1>4, SentIs DEF StreamResponseOpenAI2Claude
  <2> QED
    BY <2>1, MarkedClosed, ConcatEmptySeq
<1> QED
  BY <1>2, <1>3, <1>4

\* A line, in the client's format.
LEMMA FormatInOrder ==
    ASSUME NEW s \in HandlerState, NEW e \in LineKinds, FirstBlock(s), Untagged(s),
           NEW r, r = HandleStreamFormat(s, e)
    PROVE  /\ Steps(s, W(e), r) /\ Keeps(s, r.h) /\ Untagged(r.h) /\ FirstBlock(r.h)
           /\ r.h.done = s.done
<1> DEFINE t == [s EXCEPT !.count = @ + 1]
<1>1. /\ t \in HandlerState /\ Keeps(s, t) /\ SameTags(s, t) /\ SameBlock(s, t)
      /\ FirstBlock(t) /\ Untagged(t) /\ t.count >= 1
  BY DEF HandlerState, Keeps, SameTags, SameBlock, FirstBlock, Untagged
<1> HIDE DEF t
<1>2. ASSUME Steps(t, W(e), r) PROVE Steps(s, W(e), r)
  BY <1>1, <1>2 DEF Steps, InOrderAfter, TagsKept, BlocksKept, SameTags, SameBlock
<1>3. CASE req.client = "openai"
  <2>1. r = SendStreamData(t, e)
    BY <1>3 DEF HandleStreamFormat, t
  <2>2. /\ Steps(t, W(e), r) /\ Keeps(t, r.h) /\ SameBlock(t, r.h) /\ Untagged(r.h)
        /\ r.h.count = t.count
    BY <1>1, <2>1, SentInOrder
  <2> QED
    BY <1>1, <1>2, <2>2 DEF Keeps, SameBlock, FirstBlock
<1>4. CASE req.client = "claude" /\ e = "bad"
  <2>1. r.h = t /\ r.out = <<>>
    <3>1. r = Skipped(t)
      BY <1>4 DEF HandleStreamFormat, t
    <3> QED
      BY <3>1, SentIs
  <2> QED
    BY <1>1, <2>1, NoStep DEF SameBlock
<1>5. CASE req.client # "openai" /\ ~(req.client = "claude" /\ e = "bad")
  <2>1. r = StreamResponseOpenAI2Claude(t, e)
    BY <1>5 DEF HandleStreamFormat, t
  <2>2. /\ Steps(t, W(e), r) /\ Keeps(t, r.h) /\ r.h.first = t.first /\ FirstBlock(r.h)
        /\ r.h.done = t.done
    BY <1>1, <2>1, ClaudeInOrder
  <2> QED
    BY <1>1, <1>2, <2>2 DEF Keeps, SameBlock, Untagged
<1> QED
  BY <1>3, <1>4, <1>5

\* A chat's line: it is kept, the one before it written.
LEMMA ChatLine ==
    ASSUME made \in Nat, NEW s \in HandlerState, NEW e \in LineKinds, FirstBlock(s), Untagged(s),
           NEW r, r = OaiHandleData(s, e)
    PROVE  /\ Steps(s, W(s.last), r) /\ Untagged(r.h) /\ FirstBlock(r.h) /\ r.h.done = s.done
           /\ r.h.last = e /\ r.h.items = Append(s.items, e)
           /\ r.h.use = IF e \in Reports THEN Reported ELSE s.use
<1> DEFINE f == IF s.last = "none" THEN Skipped(s) ELSE HandleStreamFormat(s, s.last)
           i == Append(s.items, e)
           u == IF e \in Reports THEN Reported ELSE s.use
           t == f.h
           s2 == [t EXCEPT !.last = e, !.items = i, !.use = u]
<1>1. /\ Steps(s, W(s.last), f) /\ Keeps(s, f.h) /\ Untagged(f.h) /\ FirstBlock(f.h)
      /\ f.h.done = s.done
  <2>1. CASE s.last = "none"
    <3>1. f.h = s /\ f.out = <<>>
      BY <2>1, SentIs
    <3> HIDE DEF f
    <3> QED
      BY <3>1, NoStep DEF SameTags, SameBlock, Keeps
  <2>2. CASE s.last # "none"
    <3>1. f = HandleStreamFormat(s, s.last)
      BY <2>2
    <3>2. s.last \in LineKinds
      BY <2>2 DEF HandlerState, BlockKinds
    <3> HIDE DEF f
    <3> QED
      BY <3>1, <3>2, FormatInOrder
  <2> QED
    BY <2>1, <2>2
<1>2. r.h = s2 /\ r.out = f.out
  <2>1. r = Sent([t EXCEPT !.last = e, !.items = Append(@, e),
                           !.use = IF e \in Reports THEN Reported ELSE @], f.out)
    BY DEF OaiHandleData
  <2> HIDE DEF f
  <2>2. t \in HandlerState /\ t.items = s.items /\ t.use = s.use
    BY <1>1 DEF Steps, InOrderAfter, Keeps
  <2> HIDE DEF t
  <2>3. [t EXCEPT !.last = e, !.items = Append(@, e),
                  !.use = IF e \in Reports THEN Reported ELSE @] = s2
    BY <2>2 DEF HandlerState
  <2> HIDE DEF s2
  <2> QED
    BY <2>1, <2>3, SentIs
<1>3. t \in HandlerState /\ i \in Seq(LineKinds) /\ u \in Usages /\ e \in BlockKinds
  <2>1. t \in HandlerState
    BY <1>1 DEF Steps, InOrderAfter
  <2>2. s.items \in Seq(LineKinds) /\ s.use \in Usages
    BY DEF HandlerState
  <2> QED
    BY <2>1, <2>2, ReportType DEF BlockKinds
<1>4. Untagged(t) /\ FirstBlock(t) /\ t.done = s.done /\ Steps(s, W(s.last), f)
  BY <1>1
<1>5. f.h = t
  OBVIOUS
<1> HIDE DEF f, t, i, u
<1>6. /\ s2 \in HandlerState /\ s2.last = e /\ s2.items = i /\ s2.use = u /\ s2.done = t.done
      /\ SameTags(t, s2) /\ SameBlock(t, s2) /\ s2.count = t.count
  BY <1>3 DEF HandlerState, SameTags, SameBlock
<1> HIDE DEF s2
<1>7. Steps(s, W(s.last), r)
  BY <1>2, <1>4, <1>5, <1>6
     DEF Steps, InOrderAfter, TagsKept, BlocksKept, SameTags, SameBlock
<1> QED
  BY <1>2, <1>4, <1>6, <1>7 DEF i, u, Untagged, FirstBlock, SameTags, SameBlock

(***************************************************************************)
(* Streams: what a handler writes last.                                    *)
(***************************************************************************)
DoneLast(q) == Len(q) > 0 /\ \A n \in 1..Len(q) : q[n].t = "[DONE]" <=> n = Len(q)

\* What the ends of handlers have in common.
IsEnding(s, r, w) ==
    /\ r.h \in HandlerState /\ r.out \in Seq(Chunks) /\ r.usage \in Usages /\ r.err \in BOOLEAN
    /\ \A q \in Seq(Chunks) : TagsKept(q, s) => TagsKept(q \o r.out, r.h)
    /\ \A q \in Seq(Chunks) : BlocksKept(q, s) => BlocksKept(q \o r.out, r.h)
    /\ \A q \in Seq(Chunks) : Texts(q \o r.out) <= Texts(q) + w

\* Chunks that disturb neither tags nor blocks nor the count of texts.
Quiet(o) == o \in Seq(Chunks) /\ Lacks(o, {"text", "block_delta"}) /\ Lacks(o, Tags)

\* Quiet chunks together, and the ones that end a stream.
LEMMA QuietChunks ==
    /\ \A a, b : Quiet(a) /\ Quiet(b) => Quiet(a \o b)
    /\ Quiet(<<>>) /\ Quiet(Done) /\ Quiet(GenerateFinalUsage)
    /\ Lacks(<<>>, {"[DONE]"}) /\ Lacks(GenerateFinalUsage, {"[DONE]"})
<1>1. ASSUME NEW a, NEW b, Quiet(a), Quiet(b) PROVE Quiet(a \o b)
  BY <1>1, CatEntries, CatLacks DEF Quiet
<1>2. Quiet(<<>>) /\ Lacks(<<>>, {"[DONE]"})
  BY NoChunk DEF Quiet
<1>3. {"[DONE]", "usage"} \subseteq ChunkNames /\ "[DONE]" \notin Tags /\ "usage" \notin Tags
  BY DEF ChunkNames, Tags, LineKinds
<1>4. Quiet(Done)
  BY <1>3, OtherChunk DEF Quiet, Done
<1>5. Quiet(<<Chunk("usage")>>) /\ Lacks(<<Chunk("usage")>>, {"[DONE]"})
  BY <1>3, OtherChunk DEF Quiet
<1> QED
  BY <1>1, <1>2, <1>4, <1>5 DEF GenerateFinalUsage

\* [DONE] after what has none.
LEMMA DoneAfter ==
    ASSUME NEW q \in Seq(Chunks), Lacks(q, {"[DONE]"})
    PROVE  DoneLast(q \o Done)
<1> DEFINE c == Chunk("[DONE]")
           p == q \o <<c>>
<1>1. c \in Chunks /\ c.t = "[DONE]"
  BY OtherChunk DEF ChunkNames
<1> HIDE DEF c
<1>2. /\ Len(q) \in Nat /\ Len(p) = Len(q) + 1
      /\ \A n \in 1..Len(q) : p[n] = q[n]
      /\ p[Len(q) + 1] = c
      /\ \A n \in 1..Len(p) : n \in 1..Len(q) \/ n = Len(q) + 1
  BY <1>1, CatOne
<1> HIDE DEF p
<1>3. DoneLast(p)
  BY <1>1, <1>2 DEF DoneLast, Lacks
<1> QED
  BY <1>3 DEF p, c, Done

\* Quiet chunks and then [DONE].
LEMMA QuietDone ==
    ASSUME NEW q \in Seq(Chunks), Lacks(q, {"[DONE]"}), NEW o, Quiet(o), Lacks(o, {"[DONE]"})
    PROVE  DoneLast(q \o (o \o Done))
<1>1. o \in Seq(Chunks) /\ Done \in Seq(Chunks)
  BY QuietChunks DEF Quiet
<1>2. q \o o \in Seq(Chunks) /\ Lacks(q \o o, {"[DONE]"})
  BY <1>1, CatEntries, CatLacks
<1>3. (q \o o) \o Done = q \o (o \o Done)
  <2>1. \A x, y, z \in Seq(Chunks) : (x \o y) \o z = x \o (y \o z)
    BY CatThrice
  <2> QED
    BY <1>1, <2>1
<1> QED
  BY <1>2, <1>3, DoneAfter

\* An ending that leaves the handler's state.
LEMMA QuietEnding ==
    ASSUME NEW s \in HandlerState, NEW r, r.h = s \/ r.h = [s EXCEPT !.done = TRUE], Quiet(r.out),
           s.done \/ Lacks(r.out, BlockNames) \/ r.h.done,
           r.usage \in Usages, r.err \in BOOLEAN
    PROVE  IsEnding(s, r, 0)
<1>1. r.h \in HandlerState /\ SameTags(s, r.h)
  BY DEF HandlerState, SameTags
<1>2. Lacks(r.out, {"text"}) /\ Lacks(r.out, {"block_delta"}) /\ r.out \in Seq(Chunks)
  BY DEF Quiet, Lacks
<1>3. ASSUME NEW q \in Seq(Chunks), TagsKept(q, s) PROVE TagsKept(q \o r.out, r.h)
  BY <1>1, <1>2, <1>3, TagsPass DEF Quiet
<1>4. ASSUME NEW q \in Seq(Chunks), BlocksKept(q, s) PROVE BlocksKept(q \o r.out, r.h)
  <2>1. DeltasHold(q \o r.out)
    BY <1>2, <1>4, DeltasPass DEF BlocksKept
  <2>2. r.h.kind = s.kind /\ r.h.index = s.index /\ (r.h.done = s.done \/ r.h.done = TRUE)
    BY DEF HandlerState
  <2>3. CASE s.done \/ r.h.done
    BY <2>1, <2>2, <2>3 DEF BlocksKept
  <2>4. CASE Lacks(r.out, BlockNames)
    <3>1. Lacks(r.out, Bounds)
      BY <2>4, LacksFewer DEF Bounds, BlockNames, BlockMarks
    <3>2. OpenIn(q, s.index, s.kind) => OpenIn(q \o r.out, s.index, s.kind)
      BY <1>2, <3>1, OpenPass
    <3>3. s.kind # "none" /\ ~s.done => OpenIn(q, s.index, s.kind)
      BY <1>4 DEF BlocksKept
    <3>4. ~s.done => Marked(q \o r.out, s.index)
      BY <1>2, <1>4, <2>4, MarkedPass DEF BlocksKept
    <3> QED
      BY <2>1, <2>2, <3>2, <3>3, <3>4 DEF BlocksKept
  <2> QED
    BY <2>3, <2>4
<1>5. \A q \in Seq(Chunks) : Texts(q \o r.out) <= Texts(q) + 0
  BY <1>2, NoMoreText, TextsType DEF Quiet
<1> QED
  BY <1>1, <1>2, <1>3, <1>4, <1>5 DEF IsEnding

All(items) == TextOf(items, DOMAIN items)

\* The lines with content can be counted.
LEMMA TextOfType ==
    ASSUME NEW items \in Seq(LineKinds)
    PROVE  All(items) \in Nat /\ TextOf(items, Counted(items)) \in Nat
<1>1. DOMAIN items = 1..Len(items) /\ IsFiniteSet(1..Len(items))
  BY FS_Interval
<1>2. ASSUME NEW places \in SUBSET DOMAIN items
      PROVE  IsFiniteSet({n \in places : items[n] \in Content})
  BY <1>1, <1>2, FS_Subset
<1>3. Counted(items) \in SUBSET DOMAIN items /\ DOMAIN items \in SUBSET DOMAIN items
  BY DEF Counted
<1> QED
  BY <1>2, <1>3, FS_CardinalityType DEF All, TextOf

\* A line more is one with content or none.
LEMMA TextOfMore ==
    ASSUME NEW items \in Seq(LineKinds), NEW e \in LineKinds
    PROVE  All(Append(items, e)) = All(items) + (IF e \in Content THEN 1 ELSE 0)
<1> DEFINE more == Append(items, e)
           n == Len(items) + 1
           Of(q) == {m \in DOMAIN q : q[m] \in Content}
<1>1. /\ DOMAIN items = 1..Len(items) /\ DOMAIN more = 1..n /\ Len(items) \in Nat
      /\ \A m \in 1..Len(items) : more[m] = items[m]
      /\ more[n] = e
  OBVIOUS
<1>2. 1..n = (1..Len(items)) \cup {n} /\ n \notin 1..Len(items)
  BY <1>1
<1> HIDE DEF more, n
<1>3. Of(more) = IF e \in Content THEN Of(items) \cup {n} ELSE Of(items)
  BY <1>1, <1>2
<1>4. n \notin Of(items)
  BY <1>1, <1>2
<1>5. IsFiniteSet(Of(items))
  <2>1. IsFiniteSet(1..Len(items)) /\ Of(items) \in SUBSET (1..Len(items))
    BY <1>1, FS_Interval
  <2> QED
    BY <2>1, FS_Subset
<1>6. Cardinality(Of(items)) \in Nat
  BY <1>5, FS_CardinalityType
<1>7. Cardinality(Of(items) \cup {n}) = Cardinality(Of(items)) + 1
  BY <1>4, <1>5, FS_AddElement
<1>8. All(items) = Cardinality(Of(items)) /\ All(more) = Cardinality(Of(more))
  BY DEF All, TextOf
<1> HIDE DEF Of
<1> QED
  BY <1>3, <1>6, <1>7, <1>8 DEF more

\* The final usage and nothing.
LEMMA QuietNames ==
    Lacks(GenerateFinalUsage, BlockNames) /\ Lacks(<<>>, BlockNames) /\ <<>> \o Done = Done
<1>1. Done \in Seq(Chunks)
  BY QuietChunks DEF Quiet
<1>2. Lacks(<<Chunk("usage")>>, BlockNames)
  BY OtherChunk DEF ChunkNames, LineKinds, BlockNames
<1> QED
  BY <1>1, <1>2, NoChunk, ConcatEmptySeq DEF GenerateFinalUsage

\* The end of a chat: the last line, the final chunks, and what is billed.
LEMMA ChatEnd ==
    ASSUME req.client \in {"openai", "claude"}, req.include \in BOOLEAN,
           NEW s \in HandlerState, Untagged(s), FirstBlock(s), NEW r, r = OaiStreamEnd(s)
    PROVE  /\ IsEnding(s, r, W(s.last)) /\ Untagged(r.h) /\ FirstBlock(r.h) /\ r.h.items = s.items
           /\ req.client = "openai" =>
                \A q \in Seq(Chunks) : Lacks(q, {"[DONE]"}) => DoneLast(q \o r.out)
           /\ ~s.done => \A q \in Seq(Chunks) : BlocksKept(q, s) => Closed(q \o r.out)
           /\ (Counted(s.items) = DOMAIN s.items
                 /\ (s.last \in {"last", "usage"} => s.use.c >= All(s.items)))
              => r.usage.c >= All(s.items)
<1> DEFINE e == s.last
           given == e \in {"last", "usage"}
           l == IF e # "none" /\ (~given \/ req.include \/ e = "last")
                THEN SendStreamData(s, e) ELSE Skipped(s)
           text == TextOf(s.items, Counted(s.items))
           tools == ToolsOf(s.items, Counted(s.items))
           empty == text = 0
           t == l.h
           s2 == [t EXCEPT !.done = TRUE]
           f == HandleFinalResponse(t, empty \/ ~given)
           u == CASE empty -> NoUsage
                  [] ~empty /\ given -> s.use
                  [] OTHER -> ResponseText2Usage(text + 7 * tools)
<1>1. r.h = s2 /\ r.out = l.out \o f /\ r.usage = u /\ r.err = FALSE
  <2> DEFINE o == l.out \o f
  <2>1. r = Ending(s2, o, u)
    BY DEF OaiStreamEnd
  <2> HIDE DEF s2, o, u
  <2>2. r.h = s2 /\ r.out = o /\ r.usage = u /\ r.err = FALSE
    BY <2>1 DEF Ending
  <2> QED
    BY <2>2 DEF o
<1>2. text \in Nat /\ tools \in Nat /\ s.use \in Usages
  <2>1. s.items \in Seq(LineKinds) /\ s.use \in Usages
    BY DEF HandlerState
  <2>2. tools \in Nat
    BY DEF ToolsOf
  <2> QED
    BY <2>1, <2>2, TextOfType
<1>3. u \in Usages /\ (text = All(s.items) /\ (given => s.use.c >= text) => u.c >= text)
  <2> HIDE DEF text, tools, given
  <2>1. CASE empty
    BY <1>2, <2>1 DEF NoUsage, Usages
  <2>2. CASE ~empty /\ given
    BY <1>2, <2>2
  <2>3. CASE ~empty /\ ~given
    <3>1. u = ResponseText2Usage(text + 7 * tools)
      BY <2>3
    <3> QED
      BY <1>2, <3>1 DEF ResponseText2Usage, Usages
  <2> QED
    BY <2>1, <2>2, <2>3
<1>4. Counted(s.items) = DOMAIN s.items => text = All(s.items)
  BY DEF All
<1>5. /\ Steps(s, W(e), l) /\ Keeps(s, l.h) /\ SameBlock(s, l.h) /\ Untagged(l.h)
      /\ l.h.count = s.count
  <2>1. CASE e # "none" /\ (~given \/ req.include \/ e = "last")
    <3>1. l = SendStreamData(s, e)
      BY <2>1
    <3>2. e \in LineKinds
      BY <2>1 DEF HandlerState, BlockKinds
    <3> HIDE DEF l, e
    <3> QED
      BY <3>1, <3>2, SentInOrder
  <2>2. CASE ~(e # "none" /\ (~given \/ req.include \/ e = "last"))
    <3>1. l.h = s /\ l.out = <<>>
      BY <2>2, SentIs
    <3> HIDE DEF l, e
    <3> QED
      BY <3>1, NoStep DEF SameTags, SameBlock, Keeps
  <2> QED
    BY <2>1, <2>2
<1>6. t \in HandlerState /\ t.items = s.items /\ FirstBlock(t) /\ Untagged(t) /\ t.last = e
  BY <1>5 DEF Steps, InOrderAfter, Keeps, SameBlock, FirstBlock
<1> HIDE DEF l
<1>7. /\ s2 \in HandlerState /\ s2.items = s.items /\ FirstBlock(s2) /\ Untagged(s2) /\ s2.done
      /\ SameTags(t, s2) /\ s2.last = e /\ s2.kind = t.kind /\ s2.index = t.index
  <2> HIDE DEF t
  <2> QED
    BY <1>6 DEF HandlerState, FirstBlock, Untagged, SameTags
<1>8. /\ Quiet(f)
      /\ req.client = "openai" => \E o : Quiet(o) /\ Lacks(o, {"[DONE]"}) /\ f = o \o Done
  <2> DEFINE c == empty \/ ~given
             o == IF c THEN GenerateFinalUsage ELSE <<>>
  <2> HIDE DEF t, text
  <2>1. CASE req.client = "openai"
    <3>1. f = o \o Done
      BY <2>1 DEF HandleFinalResponse
    <3>2. Quiet(o) /\ Lacks(o, {"[DONE]"}) /\ Quiet(Done)
      BY QuietChunks
    <3> HIDE DEF f, o
    <3> QED
      BY <3>1, <3>2, QuietChunks
  <2>2. CASE req.client # "openai" /\ t.last \in {"none", "bad"}
    <3>1. f = <<>>
      BY <2>2 DEF HandleFinalResponse
    <3> HIDE DEF f
    <3> QED
      BY <2>2, <3>1, QuietChunks
  <2>3. CASE req.client # "openai" /\ t.last \notin {"none", "bad"}
    <3>1. f = StreamResponseOpenAI2Claude(s2, e).out
      BY <1>6, <2>3 DEF HandleFinalResponse
    <3>2. e \in LineKinds
      BY <1>6, <2>3 DEF HandlerState, BlockKinds
    <3> DEFINE x == StreamResponseOpenAI2Claude(s2, e)
    <3> HIDE DEF s2, e, f
    <3>3. /\ Lacks(x.out, Tags) /\ Lacks(x.out, {"text", "block_delta"})
          /\ x.out \in Seq(Chunks)
      BY <1>7, <3>2, ClaudeInOrder
    <3> QED
      BY <2>3, <3>1, <3>3 DEF Quiet
  <2> QED
    BY <2>1, <2>2, <2>3
<1>8a. ASSUME NEW q \in Seq(Chunks), Marked(q, t.index) PROVE Closed(q \o f)
  <2> DEFINE c == empty \/ ~given
             o == IF c THEN GenerateFinalUsage ELSE <<>>
  <2> HIDE DEF t, text
  <2>1. CASE req.client = "openai"
    <3>1. f = o \o Done
      BY <2>1 DEF HandleFinalResponse
    <3>2. o \in Seq(Chunks) /\ Done \in Seq(Chunks) /\ Lacks(o, BlockNames) /\ Lacks(Done, BlockNames)
      BY QuietChunks, QuietNames, OtherChunk DEF Quiet, Done, ChunkNames, BlockNames, BlockMarks
    <3> HIDE DEF f, o
    <3>3. f \in Seq(Chunks) /\ Lacks(f, BlockNames)
      BY <3>1, <3>2, CatEntries, CatLacks
    <3> QED
      BY <1>8a, <3>3, MarkedPass, MarkedClosed
  <2>2. CASE req.client # "openai" /\ t.last \in {"none", "bad"}
    <3>1. f = <<>>
      BY <2>2 DEF HandleFinalResponse
    <3> HIDE DEF f
    <3> QED
      BY <1>8a, <3>1, MarkedClosed, ConcatEmptySeq
  <2>3. CASE req.client # "openai" /\ t.last \notin {"none", "bad"}
    <3>1. f = StreamResponseOpenAI2Claude(s2, e).out
      BY <1>6, <2>3 DEF HandleFinalResponse
    <3>2. e \in LineKinds
      BY <1>6, <2>3 DEF HandlerState, BlockKinds
    <3> HIDE DEF s2, e, f
    <3> QED
      BY <1>7, <1>8a, <3>1, <3>2, ClaudeEnds
  <2> QED
    BY <2>1, <2>2, <2>3
<1>9. /\ l.out \in Seq(Chunks) /\ Lacks(l.out, {"[DONE]"}) /\ f \in Seq(Chunks)
      /\ \A q \in Seq(Chunks) : q \o l.out \in Seq(Chunks) /\ q \o r.out = (q \o l.out) \o f
  <2>1. l.out \in Seq(Chunks) /\ Lacks(l.out, {"[DONE]"}) /\ f \in Seq(Chunks)
    BY <1>5, <1>8 DEF Quiet, Steps, InOrderAfter
  <2> HIDE DEF f
  <2>2. ASSUME NEW q \in Seq(Chunks)
        PROVE  q \o l.out \in Seq(Chunks) /\ q \o r.out = (q \o l.out) \o f
    <3>1. \A x, y, z \in Seq(Chunks) : (x \o y) \o z = x \o (y \o z)
      BY CatThrice
    <3>2. (q \o l.out) \o f = q \o (l.out \o f)
      BY <2>1, <3>1
    <3> QED
      BY <1>1, <2>1, <3>2, CatEntries
  <2> QED
    BY <2>1, <2>2
<1> DEFINE r2 == [h |-> s2, out |-> f, usage |-> u, err |-> FALSE]
<1>10. IsEnding(t, r2, 0)
  <2>1. r2.h = s2 /\ r2.out = f /\ r2.usage = u /\ r2.err = FALSE
    OBVIOUS
  <2>2. r2.h = [t EXCEPT !.done = TRUE]
    BY <2>1
  <2>3. r2.h.done
    BY <1>7, <2>1
  <2> HIDE DEF r2, s2, f, u, t
  <2> QED
    BY <1>3, <1>6, <1>8, <2>1, <2>2, <2>3, QuietEnding
<1>11. r2.h = s2 /\ r2.out = f /\ l.h = t
  OBVIOUS
<1> HIDE DEF r2, s2, f, u, t, e, given, text, tools
<1>12. r.out \in Seq(Chunks)
  BY <1>1, <1>9, CatEntries
<1>13. ASSUME NEW q \in Seq(Chunks), TagsKept(q, s) PROVE TagsKept(q \o r.out, r.h)
  <2>1. TagsKept(q \o l.out, t)
    BY <1>5, <1>11, <1>13 DEF Steps, InOrderAfter
  <2>2. TagsKept((q \o l.out) \o f, s2)
    BY <1>9, <1>10, <1>11, <2>1 DEF IsEnding
  <2> QED
    BY <1>1, <1>9, <2>2
<1>14. ASSUME NEW q \in Seq(Chunks), BlocksKept(q, s) PROVE BlocksKept(q \o r.out, r.h)
  <2>1. BlocksKept(q \o l.out, t)
    BY <1>5, <1>11, <1>14 DEF Steps, InOrderAfter
  <2>2. BlocksKept((q \o l.out) \o f, s2)
    BY <1>9, <1>10, <1>11, <2>1 DEF IsEnding
  <2> QED
    BY <1>1, <1>9, <2>2
<1>14a. ASSUME ~s.done, NEW q \in Seq(Chunks), BlocksKept(q, s) PROVE Closed(q \o r.out)
  <2>1. BlocksKept(q \o l.out, t) /\ ~t.done
    BY <1>5, <1>11, <1>14a DEF Steps, InOrderAfter, SameBlock
  <2>2. Closed((q \o l.out) \o f)
    BY <1>8a, <1>9, <2>1 DEF BlocksKept
  <2> QED
    BY <1>9, <2>2
<1>15. ASSUME NEW q \in Seq(Chunks) PROVE Texts(q \o r.out) <= Texts(q) + W(e)
  <2>1. Texts(q \o l.out) <= Texts(q) + W(e)
    BY <1>5 DEF Steps
  <2>2. Texts((q \o l.out) \o f) <= Texts(q \o l.out) + 0
    BY <1>9, <1>10, <1>11 DEF IsEnding
  <2>3. Texts(q) \in Nat /\ Texts(q \o l.out) \in Nat /\ Texts((q \o l.out) \o f) \in Nat /\ W(e) \in Nat
    BY <1>9, TextsType, CatEntries DEF W
  <2>4. Texts((q \o l.out) \o f) <= Texts(q) + W(e)
    BY <2>1, <2>2, <2>3
  <2>5. q \o r.out = (q \o l.out) \o f
    BY <1>9
  <2> QED
    BY <2>4, <2>5
<1>16. ASSUME req.client = "openai", NEW q \in Seq(Chunks), Lacks(q, {"[DONE]"})
       PROVE  DoneLast(q \o r.out)
  <2>1. q \o l.out \in Seq(Chunks) /\ Lacks(q \o l.out, {"[DONE]"})
    BY <1>9, <1>16, CatLacks
  <2>2. PICK o : Quiet(o) /\ Lacks(o, {"[DONE]"}) /\ f = o \o Done
    BY <1>8, <1>16
  <2>3. DoneLast((q \o l.out) \o (o \o Done))
    BY <2>1, <2>2, QuietDone
  <2>4. q \o r.out = (q \o l.out) \o f
    BY <1>9
  <2> QED
    BY <2>2, <2>3, <2>4
<1>17. IsEnding(s, r, W(e))
  BY <1>1, <1>3, <1>7, <1>12, <1>13, <1>14, <1>15 DEF IsEnding
<1>18. (Counted(s.items) = DOMAIN s.items
                 /\ (s.last \in {"last", "usage"} => s.use.c >= All(s.items)))
              => r.usage.c >= All(s.items)
  BY <1>1, <1>3, <1>4 DEF e, given
<1> QED
  BY <1>1, <1>7, <1>14a, <1>16, <1>17, <1>18 DEF e

(***************************************************************************)
(* Streams: the invariant.                                                 *)
(***************************************************************************)
Chats == {"openai", "completions"}
Claudes == {"claude", "aws"}
TextCounters == {"responses", "claude", "aws", "cohere", "palm", "tencent", "cloudflare"}
Reporters == {"responses", "gemini", "dify", "xai", "baidu", "zhipu", "xunfei", "cohere"}

\* The types.
StreamsTypes ==
    /\ req \in Requests /\ left \in Nat /\ made \in Nat /\ told \in BOOLEAN
    /\ reader \in {"reading", "got", "stopping", "done"}
    /\ line \in LineKinds \cup {"none"}
    /\ waiter \in {"select", "expired", "final", "returned"}
    /\ signals \in Nat
    /\ h \in HandlerState
    /\ out \in Seq(Chunks)
    /\ billed \in [err : BOOLEAN, usage : Usages, early : BOOLEAN]

\* The reader and the handler that waits for it: which of them is where, what a
\* line read may be, and when a report has been made.
Machinery ==
    /\ reader = "got" => line \in Lines(req.p)
    /\ reader = "got" /\ line \in Reports => told
    /\ reader = "got" /\ line = "start" => ~told
    /\ left <= req.lines /\ (told => left < req.lines)
    /\ req.kind # "stream" => reader = "done" /\ waiter \in {"select", "returned"} /\ signals = 0
    /\ signals > 0 \/ waiter = "expired" => req.p \in Scanned
    /\ req.kind = "stream" /\ req.p \in Looped =>
         IF reader = "done" THEN waiter \in {"final", "returned"} ELSE waiter = "select"
    /\ waiter = "returned" /\ ~billed.early => reader = "done"

\* Tags and blocks, and the locals that say how they stand.
InOrder ==
    /\ TagsKept(out, h) /\ BlocksKept(out, h)
    /\ Untagged(h) /\ FirstBlock(h)
    /\ req.p \notin Chats => h.first /\ h.kind = "none"
    /\ req.kind # "stream" => h.first

\* Where the client has been told that it is over.
Over ==
    /\ waiter # "returned" /\ ~(req.kind = "stream" /\ req.p \in Channelled) => Lacks(out, {"[DONE]"})
    /\ req.kind = "stream" /\ req.p \in Channelled =>
         IF reader = "done" THEN DoneLast(out) ELSE Lacks(out, {"[DONE]"})
    /\ waiter = "returned" /\ ~billed.err /\ ~billed.early /\ req.client = "openai"
         /\ req.kind # "whole" => DoneLast(out)

Pending == IF reader = "got" /\ line \in Content THEN 1 ELSE 0

\* A chat's texts: written, kept back, read, generated; a usage kept with the
\* last line covers them.
ChatCounted ==
    req.p \in Chats /\ waiter # "returned" =>
        /\ Texts(out) + W(h.last) <= All(h.items)
        /\ All(h.items) + Pending <= made
        /\ h.last \in {"last", "usage"} => h.use.c >= All(h.items)

\* The texts of the others: written, counted or kept, generated.
TextCounted ==
    req.kind = "stream" /\ req.p \notin Chats =>
        /\ Texts(out) + Pending <= made
        /\ req.p \in TextCounters => Texts(out) <= h.text
        /\ req.p = "xai" => Texts(out) <= All(h.items)

\* A usage that was reported covers all that was generated.
UseCovers ==
    req.kind = "stream" =>
        /\ req.p \in Reporters => h.use = NoUsage \/ (h.use.p > 0 /\ told /\ h.use.c >= made)
        /\ req.p \in Claudes =>
             /\ req.client # "claude" /\ ~told => h.use.c = 0
             /\ told => h.err \/ h.use.c = made \/ (reader = "got" /\ line = "delta")

\* What was billed.
BillCovers ==
    (/\ waiter = "returned" /\ ~billed.err /\ req.kind = "stream"
     /\ ~(billed.early /\ req.p \in Scanned)
     /\ ~(req.p = "openai" /\ \E n \in DOMAIN h.items : h.items[n] = "bad")
     /\ (Counting \/ Knows))
    => billed.usage.c >= Texts(out)

StreamsInv ==
    /\ StreamsTypes /\ Machinery /\ InOrder /\ Over
    /\ ChatCounted /\ TextCounted /\ UseCovers /\ BillCovers

\* What is known of a request.
LEMMA RequestIs ==
    ASSUME req \in Requests
    PROVE  /\ req.lines \in Nat /\ req.include \in BOOLEAN /\ req.client \in {"openai", "claude"}
           /\ req.kind \in {"stream", "whole", "pseudo"}
           /\ req.kind = "stream" => req.p \in Scanned \cup Channelled \cup Looped
           /\ req.kind = "pseudo" => req.p \in {"openai", "gemini"}
           /\ req.kind = "whole" => req.p \in Answering
BY RequestsAssumption

\* What one line does to the handler's state.
LineEffect(r) ==
    /\ Untagged(r.h) /\ FirstBlock(r.h) /\ r.h.done = h.done
    /\ req.p \in Chats =>
         /\ Steps(h, W(h.last), r)
         /\ r.h.last = line /\ r.h.items = Append(h.items, line)
         /\ r.h.use = IF line \in Reports THEN Reported ELSE h.use
    /\ req.p \notin Chats => Writes(h, line, r) /\ Steps(h, W(line), r)
    /\ req.p \in TextCounters => NotesText(h, line, r)
    /\ req.p = "xai" => \/ line = "bad" /\ r.h.items = h.items
                        \/ line # "bad" /\ r.h.items = Append(h.items, line)
    /\ req.p \in Reporters => NotesUse(h, line, r)
    /\ req.p \in Claudes =>
         /\ h.err => r.h.err
         /\ line = "delta" => r.h.use.c = made
         /\ line # "delta" => r.h.use.c = h.use.c \/ (line = "start" /\ req.client = "claude")

\* Every upstream's handler has that effect.
LEMMA LineHas ==
    ASSUME StreamsTypes, InOrder, req.kind = "stream", line \in Lines(req.p),
           NEW r, r = HandleData(h, line)
    PROVE  LineEffect(r)
<1>0. /\ h \in HandlerState /\ made \in Nat /\ Untagged(h) /\ FirstBlock(h)
      /\ req.p \notin Chats => h.first /\ h.kind = "none"
      /\ req.p \in Scanned \cup Channelled \cup Looped
  BY RequestIs DEF StreamsTypes, InOrder
<1>1. ASSUME req.p \notin Chats, Writes(h, line, r)
      PROVE  Steps(h, W(line), r) /\ Untagged(r.h) /\ FirstBlock(r.h) /\ r.h.done = h.done
  <2>1. SameTags(h, r.h) /\ SameBlock(h, r.h) /\ Steps(h, W(line), r)
    BY <1>0, <1>1, WritesInOrder DEF Writes, Plain
  <2>2. Untagged(r.h) /\ r.h.done = h.done
    BY <1>0, <2>1 DEF SameTags, SameBlock, Untagged
  <2>3. FirstBlock(r.h)
    BY <1>0, <1>1, <2>1 DEF SameBlock, FirstBlock
  <2> QED
    BY <2>1, <2>2, <2>3
<1>2. CASE req.p = "responses"
  <2>1. r = ResponsesHandleData(h, line) /\ line \in {"text", "usage", "bad"}
    BY <1>2 DEF HandleData, Lines
  <2>2. Handled(h, line, r) /\ NotesText(h, line, r)
    BY <1>0, <2>1, ResponsesLine
  <2> QED
    BY <1>1, <1>2, <2>2 DEF Handled, LineEffect, Chats, Claudes, TextCounters, Reporters
<1>3. CASE req.p \in Claudes
  <2>1. r = HandleStreamResponseData(h, line) /\ line \in ClaudeLines
    BY <1>3 DEF HandleData, Lines, Claudes, ClaudeLines
  <2>2. /\ Writes(h, line, r) /\ NotesText(h, line, r) /\ (h.err => r.h.err)
        /\ line = "delta" => r.h.use.c = made
        /\ line # "delta" => \/ r.h.use.c = h.use.c
                             \/ line = "start" /\ req.client = "claude"
    BY <1>0, <2>1, ClaudeLine
  <2> QED
    BY <1>1, <1>3, <2>2 DEF LineEffect, Chats, Claudes, TextCounters, Reporters
<1>4. CASE req.p = "gemini"
  <2>1. r = GeminiHandleData(h, line) /\ line \in {"text", "think", "tool", "image", "end", "bad"}
    BY <1>4 DEF HandleData, Lines
  <2>2. Handled(h, line, r)
    BY <1>0, <2>1, GeminiLine
  <2> QED
    BY <1>1, <1>4, <2>2 DEF Handled, LineEffect, Chats, Claudes, TextCounters, Reporters
<1>5. CASE req.p = "dify"
  <2>1. r = DifyHandleData(h, line) /\ line \in {"text", "node", "end", "error", "bad"}
    BY <1>5 DEF HandleData, Lines
  <2>2. Handled(h, line, r)
    BY <1>0, <2>1, DifyLine
  <2> QED
    BY <1>1, <1>5, <2>2 DEF Handled, LineEffect, Chats, Claudes, TextCounters, Reporters
<1>6. CASE req.p = "xai"
  <2>1. r = XaiHandleData(h, line) /\ line \in {"text", "think", "tool", "usage", "bad"}
    BY <1>6 DEF HandleData, Lines
  <2>2. /\ Handled(h, line, r)
        /\ \/ line = "bad" /\ r.h.items = h.items
           \/ line # "bad" /\ r.h.items = Append(h.items, line)
    BY <1>0, <2>1, XaiLine
  <2> QED
    BY <1>1, <1>6, <2>2 DEF Handled, LineEffect, Chats, Claudes, TextCounters, Reporters
<1>7. CASE req.p = "baidu"
  <2>1. r = BaiduHandleData(h, line) /\ line \in {"text", "last", "bad"}
    BY <1>7 DEF HandleData, Lines
  <2>2. Handled(h, line, r)
    BY <1>0, <2>1, BaiduLine
  <2> QED
    BY <1>1, <1>7, <2>2 DEF Handled, LineEffect, Chats, Claudes, TextCounters, Reporters
<1>8. CASE req.p = "zhipu"
  <2>1. r = ZhipuHandleData(h, line) /\ line \in {"text", "meta", "bad"}
    BY <1>8 DEF HandleData, Lines
  <2>2. Handled(h, line, r)
    BY <1>0, <2>1, ZhipuLine
  <2> QED
    BY <1>1, <1>8, <2>2 DEF Handled, LineEffect, Chats, Claudes, TextCounters, Reporters
<1>9. CASE req.p = "xunfei"
  <2>1. r = XunfeiHandleData(h, line) /\ line \in {"text", "last", "bad"}
    BY <1>9 DEF HandleData, Lines
  <2>2. Handled(h, line, r)
    BY <1>0, <2>1, XunfeiLine
  <2> QED
    BY <1>1, <1>9, <2>2 DEF Handled, LineEffect, Chats, Claudes, TextCounters, Reporters
<1>10. CASE req.p = "cohere"
  <2>1. r = CohereHandleData(h, line) /\ line \in {"text", "finish", "last", "bad"}
    BY <1>10 DEF HandleData, Lines
  <2>2. Handled(h, line, r) /\ NotesText(h, line, r)
    BY <1>0, <2>1, CohereLine
  <2> QED
    BY <1>1, <1>10, <2>2 DEF Handled, LineEffect, Chats, Claudes, TextCounters, Reporters
<1>11. CASE req.p \in {"palm", "tencent", "cloudflare"}
  <2>1. r = PalmHandleData(h, line) /\ line \in {"text", "bad"}
    BY <1>11 DEF HandleData, TencentHandleData, CfHandleData, Lines
  <2>2. Handled(h, line, r) /\ NotesText(h, line, r)
    BY <1>0, <2>1, PalmLine
  <2> QED
    BY <1>1, <1>11, <2>2 DEF Handled, LineEffect, Chats, Claudes, TextCounters, Reporters
<1>12. CASE req.p \in Chats
  <2>1. r = OaiHandleData(h, line) /\ line \in LineKinds
    BY <1>12 DEF HandleData, Lines, Chats, LineKinds
  <2>2. /\ Steps(h, W(h.last), r) /\ Untagged(r.h) /\ FirstBlock(r.h) /\ r.h.done = h.done
        /\ r.h.last = line /\ r.h.items = Append(h.items, line)
        /\ r.h.use = IF line \in Reports THEN Reported ELSE h.use
    BY <1>0, <2>1, ChatLine
  <2> QED
    BY <1>12, <2>2 DEF LineEffect, Chats, Claudes, TextCounters, Reporters
<1> QED
  BY <1>0, <1>2, <1>3, <1>4, <1>5, <1>6, <1>7, <1>8, <1>9, <1>10, <1>11, <1>12
     DEF Scanned, Channelled, Looped, Chats, Claudes

\* The text passed on is among what was generated.
LEMMA TextsMade ==
    ASSUME StreamsTypes, TextCounted, req.kind = "stream", req.p \notin Chats
    PROVE  Texts(out) \in Nat /\ Texts(out) <= made /\ made \in Nat
<1>1. Texts(out) \in Nat /\ made \in Nat /\ Pending \in Nat
  BY TextsType DEF StreamsTypes, Pending, W
<1>2. Texts(out) + Pending <= made
  BY DEF TextCounted
<1> QED
  BY <1>1, <1>2

\* What is under way when a handler comes to its end.
AtEnd ==
    /\ StreamsTypes /\ Machinery /\ InOrder /\ ChatCounted /\ TextCounted /\ UseCovers
    /\ req.kind = "stream" /\ waiter = "final"

\* What the end of a handler does.
EndEffect(r) ==
    /\ IsEnding(h, r, IF req.p \in Chats THEN W(h.last) ELSE 0)
    /\ Untagged(r.h) /\ FirstBlock(r.h) /\ r.h.items = h.items
    /\ req.p \notin Chats => r.h = h
    /\ req.p \in Chats /\ ~h.done => \A q \in Seq(Chunks) : BlocksKept(q, h) => Closed(q \o r.out)
    /\ (/\ req.p \in Chats /\ Counted(h.items) = DOMAIN h.items
        /\ h.last \in {"last", "usage"} => h.use.c >= All(h.items)) => r.usage.c >= All(h.items)
    /\ req.p \in Channelled => r.out = <<>>
    /\ req.p \notin Channelled /\ req.client = "openai" /\ ~r.err =>
         \A q \in Seq(Chunks) : Lacks(q, {"[DONE]"}) => DoneLast(q \o r.out)
    /\ (/\ req.p \notin Chats /\ ~r.err /\ (Counting \/ Knows)
        /\ req.p \in Channelled \/ reader = "done") => r.usage.c >= Texts(out)

\* An ending that writes quiet chunks and then [DONE].
LEMMA DoneEnding ==
    ASSUME StreamsTypes, InOrder, NEW r, r.h = h, NEW o, Quiet(o), Lacks(o, {"[DONE]"}),
           Lacks(o, BlockNames), r.out = o \o Done, r.usage \in Usages, r.err = FALSE
    PROVE  /\ IsEnding(h, r, 0)
           /\ \A q \in Seq(Chunks) : Lacks(q, {"[DONE]"}) => DoneLast(q \o r.out)
<1>1. Done \in Seq(Chunks) /\ Lacks(Done, BlockNames) /\ Quiet(Done) /\ o \in Seq(Chunks)
  BY QuietChunks, OtherChunk DEF Done, ChunkNames, BlockNames, Quiet
<1>2. Quiet(r.out) /\ Lacks(r.out, BlockNames)
  BY <1>1, QuietChunks, CatLacks
<1>3. IsEnding(h, r, 0)
  BY <1>2, QuietEnding DEF StreamsTypes
<1> QED
  BY <1>3, QuietDone

\* An ending that writes nothing.
LEMMA SilentEnding ==
    ASSUME StreamsTypes, NEW r, r.h = h, r.out = <<>>, r.usage \in Usages, r.err \in BOOLEAN
    PROVE  IsEnding(h, r, 0)
<1>1. Quiet(r.out) /\ Lacks(r.out, BlockNames)
  BY QuietChunks, NoChunk
<1> QED
  BY <1>1, QuietEnding DEF StreamsTypes

\* The usage counted where none was reported.
LEMMA UsageOrCount ==
    ASSUME NEW u \in Usages, NEW n \in Nat, NEW v, v = IF u.c = 0 THEN [u EXCEPT !.c = n] ELSE u
    PROVE  v \in Usages /\ v.c = (IF u.c = 0 THEN n ELSE u.c)
BY DEF Usages

\* The answers with [DONE] of their own.
LEMMA ScannedEnd ==
    ASSUME AtEnd, req.p \in {"responses", "gemini", "dify", "xai", "tencent", "cloudflare"},
           NEW r, r = StreamEnd(h)
    PROVE  EndEffect(r)
<1>0. /\ Untagged(h) /\ FirstBlock(h) /\ req.p \notin Chats /\ req.p \notin Channelled
      /\ h.use \in Usages /\ h.use.c \in Nat /\ h.use.p \in Nat
      /\ h.text \in Nat /\ h.tools \in Nat /\ h.images \in Nat
      /\ h.items \in Seq(LineKinds)
      /\ StreamsTypes /\ InOrder
      /\ Texts(out) \in Nat /\ Texts(out) <= made /\ made \in Nat
  BY TextsMade DEF AtEnd, InOrder, StreamsTypes, HandlerState, Usages, Chats, Channelled
<1>1. /\ req.p \in TextCounters => Texts(out) <= h.text
      /\ req.p = "xai" => Texts(out) <= All(h.items)
      /\ req.p \in Reporters => h.use = NoUsage \/ (h.use.p > 0 /\ h.use.c >= Texts(out))
      /\ req.p \in Reporters => h.use = NoUsage \/ (h.use.p > 0 /\ h.use.c >= made)
  BY <1>0 DEF AtEnd, TextCounted, UseCovers
<1>2. ASSUME r.h = h, NEW o \in {<<>>, GenerateFinalUsage}, r.out = o \o Done, r.err = FALSE,
             r.usage \in Usages, Counting \/ Knows => r.usage.c >= Texts(out)
      PROVE  EndEffect(r)
  <2>1. Quiet(o) /\ Lacks(o, {"[DONE]"}) /\ Lacks(o, BlockNames)
    BY QuietChunks, QuietNames
  <2>2. /\ IsEnding(h, r, 0)
        /\ \A q \in Seq(Chunks) : Lacks(q, {"[DONE]"}) => DoneLast(q \o r.out)
    BY <1>0, <1>2, <2>1, DoneEnding
  <2> QED
    BY <1>0, <1>2, <2>2 DEF EndEffect
<1>3. CASE req.p = "responses"
  <2> DEFINE v == IF h.use.c = 0 THEN [h.use EXCEPT !.c = h.text] ELSE h.use
  <2>1. r = Ending(h, Done, v)
    BY <1>3 DEF StreamEnd, OaiResponsesStreamEnd
  <2>2. v \in Usages /\ v.c = (IF h.use.c = 0 THEN h.text ELSE h.use.c)
    BY <1>0, UsageOrCount
  <2> HIDE DEF v
  <2>3. r.h = h /\ r.out = <<>> \o Done /\ r.err = FALSE /\ r.usage = v
    BY <2>1, QuietNames DEF Ending
  <2>4. v.c >= Texts(out)
    BY <1>0, <1>1, <1>3, <2>2 DEF TextCounters, Reporters, NoUsage
  <2> QED
    BY <1>2, <2>2, <2>3, <2>4
<1>4. CASE req.p = "gemini"
  <2> DEFINE n == h.images * 258
             v == IF h.use.c = 0 THEN [h.use EXCEPT !.c = n] ELSE h.use
  <2>1. r = Ending(h, GenerateFinalUsage \o Done, v)
    BY <1>4 DEF StreamEnd, GeminiStreamEnd
  <2>2. n \in Nat
    BY <1>0
  <2> HIDE DEF n
  <2>3. v \in Usages /\ v.c = (IF h.use.c = 0 THEN n ELSE h.use.c)
    BY <1>0, <2>2, UsageOrCount
  <2> HIDE DEF v
  <2>4. r.h = h /\ r.out = GenerateFinalUsage \o Done /\ r.err = FALSE /\ r.usage = v
    BY <2>1 DEF Ending
  <2>5. Counting \/ Knows => h.use.p > 0
    BY <1>4 DEF Counting, Knows
  <2>6. Counting \/ Knows => v.c >= Texts(out)
    BY <1>0, <1>1, <1>4, <2>2, <2>3, <2>5 DEF Reporters, NoUsage
  <2> QED
    BY <1>2, <2>3, <2>4, <2>6
<1>5. CASE req.p = "dify"
  <2> DEFINE v == [p |-> 1, c |-> h.tools + (IF h.use = NoUsage THEN 1 ELSE h.use.c)]
  <2>1. r = Ending(h, Done, v)
    BY <1>5 DEF StreamEnd, DifyStreamEnd
  <2>2. v \in Usages /\ v.c = h.tools + (IF h.use = NoUsage THEN 1 ELSE h.use.c)
    BY <1>0 DEF Usages
  <2> HIDE DEF v
  <2>3. r.h = h /\ r.out = <<>> \o Done /\ r.err = FALSE /\ r.usage = v
    BY <2>1, QuietNames DEF Ending
  <2>4. Counting \/ Knows => h.use.p > 0
    BY <1>5 DEF Counting, Knows
  <2>5. Counting \/ Knows => v.c >= Texts(out)
    BY <1>0, <1>1, <1>5, <2>2, <2>4 DEF Reporters, NoUsage
  <2> QED
    BY <1>2, <2>2, <2>3, <2>5
<1>6. CASE req.p = "xai"
  <2> DEFINE k == 7 * ToolsOf(h.items, DOMAIN h.items)
             v == IF h.use # NoUsage THEN h.use ELSE ResponseText2Usage(All(h.items) + k)
  <2>1. r = Ending(h, Done, v)
    BY <1>6 DEF StreamEnd, XaiStreamEnd, All
  <2>2. k \in Nat /\ All(h.items) \in Nat
    BY <1>0, TextOfType DEF ToolsOf
  <2> HIDE DEF k
  <2>3. v \in Usages /\ v.c = (IF h.use # NoUsage THEN h.use.c ELSE All(h.items) + k)
    BY <1>0, <2>2 DEF Usages, ResponseText2Usage
  <2> HIDE DEF v
  <2>4. r.h = h /\ r.out = <<>> \o Done /\ r.err = FALSE /\ r.usage = v
    BY <2>1, QuietNames DEF Ending
  <2>5. v.c >= Texts(out)
    BY <1>0, <1>1, <1>6, <2>2, <2>3 DEF Reporters
  <2> QED
    BY <1>2, <2>3, <2>4, <2>5
<1>7. CASE req.p \in {"tencent", "cloudflare"}
  <2> DEFINE v == ResponseText2Usage(h.text)
             o == IF req.p = "tencent" THEN <<>> ELSE GenerateFinalUsage
  <2>1. r = Ending(h, o \o Done, v)
    BY <1>7, QuietNames DEF StreamEnd, CfStreamEnd
  <2>2. v \in Usages /\ v.c = h.text /\ o \in {<<>>, GenerateFinalUsage}
    BY <1>0 DEF Usages, ResponseText2Usage
  <2> HIDE DEF v, o
  <2>3. r.h = h /\ r.out = o \o Done /\ r.err = FALSE /\ r.usage = v
    <3> DEFINE x == o \o Done
    <3>1. r = Ending(h, x, v)
      BY <2>1
    <3> HIDE DEF x
    <3>2. r.h = h /\ r.out = x /\ r.err = FALSE /\ r.usage = v
      BY <3>1 DEF Ending
    <3> QED
      BY <3>2 DEF x
  <2>4. v.c >= Texts(out)
    BY <1>0, <1>1, <1>7, <2>2 DEF TextCounters
  <2> QED
    BY <1>2, <2>2, <2>3, <2>4
<1> QED
  BY <1>3, <1>4, <1>5, <1>6, <1>7

\* Anthropic's answers, Bedrock's with them.
LEMMA ClaudesEnd ==
    ASSUME AtEnd, req.p \in Claudes, NEW r, r = StreamEnd(h)
    PROVE  EndEffect(r)
<1>0. /\ Untagged(h) /\ FirstBlock(h) /\ req.p \notin Chats /\ req.p \notin Channelled
      /\ h.use \in Usages /\ h.use.c \in Nat /\ h.use.p \in Nat /\ h.text \in Nat
      /\ StreamsTypes /\ InOrder
      /\ Texts(out) \in Nat /\ Texts(out) <= made /\ made \in Nat
      /\ req.client \in {"openai", "claude"}
  BY TextsMade, RequestIs DEF AtEnd, InOrder, StreamsTypes, HandlerState, Usages, Chats, Channelled, Claudes
<1>1. /\ Texts(out) <= h.text
      /\ req.client # "claude" /\ ~told => h.use.c = 0
      /\ told => h.err \/ h.use.c = made \/ reader = "got"
  BY DEF AtEnd, TextCounted, UseCovers, Claudes, TextCounters, Chats
<1>2. r = HandleStreamFinalResponse(h)
  BY DEF StreamEnd, Claudes
<1>3. CASE h.err
  <2>1. r.h = h /\ r.out = <<>> /\ r.usage = NoUsage /\ r.err = TRUE
    BY <1>2, <1>3 DEF HandleStreamFinalResponse, Refused
  <2>2. NoUsage \in Usages
    BY DEF NoUsage, Usages
  <2>3. IsEnding(h, r, 0)
    BY <1>0, <2>1, <2>2, SilentEnding
  <2> QED
    BY <1>0, <2>1, <2>3 DEF EndEffect
<1>4. CASE ~h.err
  <2> DEFINE v == IF h.use.c = 0 THEN [h.use EXCEPT !.c = h.text] ELSE h.use
             o == GenerateFinalUsage
             x == IF req.client = "claude" THEN <<>> ELSE o \o Done
  <2>1. r = Ending(h, x, v)
    BY <1>2, <1>4 DEF HandleStreamFinalResponse
  <2>2. v \in Usages /\ v.c = (IF h.use.c = 0 THEN h.text ELSE h.use.c)
    BY <1>0, UsageOrCount
  <2> HIDE DEF v
  <2>3. r.h = h /\ r.out = x /\ r.err = FALSE /\ r.usage = v
    <3> HIDE DEF x
    <3> QED
      BY <2>1 DEF Ending
  <2>4. ASSUME Counting \/ Knows, reader = "done" PROVE v.c >= Texts(out)
    <3>1. told \/ req.client # "claude"
      BY <1>0, <2>4 DEF Counting, Knows, Claudes
    <3> QED
      BY <1>0, <1>1, <1>4, <2>2, <2>4, <3>1
  <2>5. /\ IsEnding(h, r, 0)
        /\ req.client = "openai" =>
             \A q \in Seq(Chunks) : Lacks(q, {"[DONE]"}) => DoneLast(q \o r.out)
    <3>1. CASE req.client = "claude"
      BY <1>0, <2>2, <2>3, <3>1, SilentEnding
    <3>2. CASE req.client # "claude"
      <4>1. Quiet(o) /\ Lacks(o, {"[DONE]"}) /\ Lacks(o, BlockNames)
        BY QuietChunks, QuietNames
      <4>2. r.out = o \o Done
        BY <2>3, <3>2
      <4> HIDE DEF o, x
      <4> QED
        BY <1>0, <2>2, <2>3, <4>1, <4>2, DoneEnding
    <3> QED
      BY <3>1, <3>2
  <2> HIDE DEF x
  <2>6. r.usage.c >= Texts(out) \/ ~(Counting \/ Knows) \/ reader # "done"
    BY <2>3, <2>4
  <2> QED
    BY <1>0, <2>3, <2>5, <2>6 DEF EndEffect
<1> QED
  BY <1>3, <1>4

\* The answers on channels, which have had their [DONE].
LEMMA ChannelledEnd ==
    ASSUME AtEnd, req.p \in Channelled, NEW r, r = StreamEnd(h)
    PROVE  EndEffect(r)
<1>0. /\ Untagged(h) /\ FirstBlock(h) /\ req.p \notin Chats
      /\ h.use \in Usages /\ h.use.c \in Nat /\ h.use.p \in Nat /\ h.text \in Nat
      /\ StreamsTypes /\ InOrder
      /\ Texts(out) \in Nat /\ Texts(out) <= made /\ made \in Nat
  BY TextsMade DEF AtEnd, InOrder, StreamsTypes, HandlerState, Usages, Chats, Channelled
<1>1. /\ req.p \in TextCounters => Texts(out) <= h.text
      /\ req.p \in Reporters => h.use = NoUsage \/ (h.use.p > 0 /\ h.use.c >= Texts(out))
  BY <1>0 DEF AtEnd, TextCounted, UseCovers
<1>2. ASSUME NEW u \in Usages, r = Ending(h, <<>>, u), Counting \/ Knows => u.c >= Texts(out)
      PROVE  EndEffect(r)
  <2>1. r.h = h /\ r.out = <<>> /\ r.usage = u /\ r.err = FALSE
    BY <1>2 DEF Ending
  <2>2. IsEnding(h, r, 0)
    BY <1>0, <1>2, <2>1, SilentEnding
  <2> QED
    BY <1>0, <1>2, <2>1, <2>2 DEF EndEffect
<1>3. CASE req.p \in {"baidu", "xunfei"}
  <2>1. r = Ending(h, <<>>, h.use)
    BY <1>3 DEF StreamEnd
  <2>2. Counting \/ Knows => h.use.c >= Texts(out)
    BY <1>1, <1>3 DEF Counting, Knows, Reporters, NoUsage
  <2> QED
    BY <1>0, <1>2, <2>1, <2>2
<1>4. CASE req.p = "zhipu"
  <2>1. r = Ending(h, <<>>, ZhipuUsage(h))
    BY <1>4 DEF StreamEnd
  <2>2. ZhipuUsage(h) \in Usages
    BY <1>0 DEF ZhipuUsage, NilUsage, Usages
  <2>3. Counting \/ Knows => ZhipuUsage(h).c >= Texts(out)
    BY <1>1, <1>4 DEF Counting, Knows, Reporters, NoUsage, ZhipuUsage
  <2> QED
    BY <1>2, <2>1, <2>2, <2>3
<1>5. CASE req.p = "cohere"
  <2>1. r = Ending(h, <<>>, CohereUsage(h))
    BY <1>5 DEF StreamEnd
  <2>2. /\ CohereUsage(h) \in Usages
        /\ CohereUsage(h).c = IF h.use.p = 0 THEN h.text ELSE h.use.c
    BY <1>0 DEF CohereUsage, ResponseText2Usage, Usages
  <2>3. CohereUsage(h).c >= Texts(out)
    BY <1>0, <1>1, <1>5, <2>2 DEF Reporters, TextCounters, NoUsage
  <2> QED
    BY <1>2, <2>1, <2>2, <2>3
<1>6. CASE req.p = "palm"
  <2>1. r = Ending(h, <<>>, PalmUsage(h))
    BY <1>6 DEF StreamEnd
  <2>2. PalmUsage(h) \in Usages /\ PalmUsage(h).c >= h.text
    BY <1>0 DEF PalmUsage, ResponseText2Usage, Usages
  <2>3. PalmUsage(h).c >= Texts(out)
    BY <1>0, <1>1, <1>6, <2>2 DEF TextCounters, Usages
  <2> QED
    BY <1>2, <2>1, <2>2, <2>3
<1> QED
  BY <1>3, <1>4, <1>5, <1>6 DEF Channelled

\* Every handler's end has that effect.
LEMMA EndHas ==
    ASSUME AtEnd, NEW r, r = StreamEnd(h)
    PROVE  EndEffect(r)
<1>1. req.p \in Scanned \cup Channelled \cup Looped
  BY RequestIs DEF AtEnd, StreamsTypes
<1>2. CASE req.p \in Chats
  <2>1. r = OaiStreamEnd(h)
    BY <1>2 DEF StreamEnd, Chats
  <2>2. /\ req.client \in {"openai", "claude"} /\ req.include \in BOOLEAN
        /\ h \in HandlerState /\ Untagged(h) /\ FirstBlock(h)
    BY RequestIs DEF AtEnd, StreamsTypes, InOrder
  <2>3. /\ IsEnding(h, r, W(h.last)) /\ Untagged(r.h) /\ FirstBlock(r.h) /\ r.h.items = h.items
        /\ req.client = "openai" =>
             \A q \in Seq(Chunks) : Lacks(q, {"[DONE]"}) => DoneLast(q \o r.out)
        /\ ~h.done => \A q \in Seq(Chunks) : BlocksKept(q, h) => Closed(q \o r.out)
        /\ (Counted(h.items) = DOMAIN h.items
              /\ (h.last \in {"last", "usage"} => h.use.c >= All(h.items)))
           => r.usage.c >= All(h.items)
    BY <2>1, <2>2, ChatEnd
  <2>4. req.p \notin Channelled
    BY <1>2 DEF Chats, Channelled
  <2> QED
    BY <1>2, <2>3, <2>4 DEF EndEffect
<1> QED
  BY <1>1, <1>2, ScannedEnd, ClaudesEnd, ChannelledEnd DEF Scanned, Looped, Chats, Claudes

\* What the answers that come in one piece have in common.
Body(b, r) ==
    /\ r.h = h /\ r.usage \in Usages /\ r.err \in BOOLEAN
    /\ r.out \in {<<>>, <<Chunk(b)>>}

\* An answer, or a refusal.
LEMMA UnlessIs ==
    ASSUME NEW b, NEW u \in Usages, NEW refusing
    PROVE  Body(b, Unless(refusing, b, Answer(b, u)))
BY DEF Body, Unless, Answer, Ending, Refused, NoUsage, Usages

\* The usages of such answers.
LEMMA BodyUsages ==
    /\ NilUsage \in Usages /\ NoUsage \in Usages
    /\ \A g \in BOOLEAN : Given(g) \in Usages
    /\ \A b : CountedBody(b) \in Usages
BY DEF NilUsage, NoUsage, Given, CountedBody, ResponseText2Usage, Usages

\* Every handler of such answers.
LEMMA BodiesAre ==
    ASSUME NEW b \in Bodies, NEW g \in BOOLEAN, req.kind = "whole", req.p \in Answering,
           NEW r, r = DoResponse(b, g)
    PROVE  Body(b, r)
<1>1. Body(b, OpenaiHandler(b, g))
  <2> DEFINE u == CASE b # "text" -> NoUsage
                    [] b = "text" /\ g -> Given(g)
                    [] OTHER -> CountedBody(b)
  <2>1. u \in Usages
    BY BodyUsages
  <2> HIDE DEF u
  <2>2. Body(b, Unless({"unread", "bad", "error"}, b, Answer(b, u)))
    BY <2>1, UnlessIs
  <2> QED
    BY <2>2 DEF OpenaiHandler, u
<1>2. /\ Body(b, OpenaiTTSHandler(b, g)) /\ Body(b, OpenaiSTTHandler(b, g))
      /\ Body(b, GeminiEmbeddingHandler(b, g))
  BY BodyUsages, UnlessIs DEF OpenaiTTSHandler, OpenaiSTTHandler, GeminiEmbeddingHandler
<1>3. /\ Body(b, OpenaiResponsesHandler(b, g)) /\ Body(b, ClaudeHandler(b, g))
      /\ Body(b, GeminiChatHandler(b, g)) /\ Body(b, BaiduHandler(b, g))
      /\ Body(b, BaiduEmbeddingHandler(b, g)) /\ Body(b, ZhipuHandler(b, g))
      /\ Body(b, CohereHandler(b, g)) /\ Body(b, TencentHandler(b, g))
      /\ Body(b, DifyHandler(b, g)) /\ Body(b, MokaEmbeddingHandler(b, g))
      /\ Body(b, SiliconflowRerankHandler(b, g))
  BY BodyUsages, UnlessIs
     DEF OpenaiResponsesHandler, ClaudeHandler, GeminiChatHandler, BaiduHandler,
         BaiduEmbeddingHandler, ZhipuHandler, CohereHandler, TencentHandler, DifyHandler,
         MokaEmbeddingHandler, SiliconflowRerankHandler
<1>4. /\ Body(b, PalmHandler(b, g)) /\ Body(b, CfHandler(b, g)) /\ Body(b, CfSTTHandler(b, g))
  BY BodyUsages, UnlessIs DEF PalmHandler, CfHandler, CfSTTHandler
<1>5. Body(b, XunfeiHandler(b, g))
  <2>1. Given(g /\ b = "text") \in Usages
    BY DEF Given, NoUsage, Usages
  <2> QED
    BY <2>1, UnlessIs DEF XunfeiHandler
<1>6. Body(b, CohereRerankHandler(b, g))
  <2> DEFINE u == IF g THEN Given(g) ELSE NilUsage
  <2>1. u \in Usages
    BY BodyUsages
  <2> HIDE DEF u
  <2>2. Body(b, Unless({"unread", "bad"}, b, Answer(b, u)))
    BY <2>1, UnlessIs
  <2> QED
    BY <2>2 DEF CohereRerankHandler, u
<1>7. Body(b, AwsHandler(b, g)) /\ Body(b, XaiHandler(b, g))
  <2>1. Given(g) \in Usages /\ NilUsage \in Usages /\ NoUsage \in Usages
    BY BodyUsages
  <2> QED
    BY <2>1 DEF AwsHandler, XaiHandler, Body, Unless, Answer, Ending, Refused
<1>8. CASE req.p \in {"openai", "tts", "stt", "responses", "claude", "aws", "gemini",
                      "gemini_embedding"}
  BY <1>1, <1>2, <1>3, <1>7, <1>8 DEF DoResponse
<1>9. CASE req.p \in {"baidu", "baidu_embedding", "zhipu", "xunfei", "cohere", "cohere_rerank",
                      "palm", "tencent"}
  BY <1>3, <1>4, <1>5, <1>6, <1>9 DEF DoResponse
<1>10. CASE req.p \in {"cloudflare", "cloudflare_stt", "dify", "xai", "mokaai", "siliconflow"}
  BY <1>3, <1>4, <1>7, <1>10 DEF DoResponse
<1> QED
  BY <1>8, <1>9, <1>10 DEF Answering

\* What an answer in one piece does.
WholeEffect(r) ==
    /\ r.h = h /\ r.out \in Seq(Chunks) /\ r.usage \in Usages /\ r.err \in BOOLEAN
    /\ TagsKept(out \o r.out, h) /\ BlocksKept(out \o r.out, h)
    /\ req.kind = "pseudo" /\ ~r.err /\ Lacks(out, {"[DONE]"}) => DoneLast(out \o r.out)

\* A body is a chunk like a line's.
LEMMA BodyChunk ==
    ASSUME NEW b \in Bodies
    PROVE  /\ <<Chunk(b)>> \in Seq(Chunks) /\ Lacks(<<Chunk(b)>>, Tags)
           /\ Lacks(<<Chunk(b)>>, BlockNames) /\ Lacks(<<Chunk(b)>>, {"[DONE]"})
<1>1. b \in ChunkNames /\ b \notin Tags /\ b \notin BlockNames /\ b # "[DONE]"
  BY DEF ChunkNames, Bodies, Tags, BlockNames
<1>2. Chunk(b) \in Chunks /\ Chunk(b).t = b
  BY <1>1, ChunkType DEF BlockKinds
<1> QED
  BY <1>1, <1>2, OneChunk

\* Every answer in one piece has that effect.
LEMMA WholeHas ==
    ASSUME StreamsTypes, InOrder, req.kind # "stream",
           NEW b \in Bodies, NEW g \in BOOLEAN, NEW r, r = DoResponse(b, g)
    PROVE  WholeEffect(r)
<1>0. /\ h \in HandlerState /\ h.first /\ TagsKept(out, h) /\ BlocksKept(out, h)
      /\ out \in Seq(Chunks)
  BY DEF StreamsTypes, InOrder
<1>1. ASSUME NEW o \in Seq(Chunks), Lacks(o, Tags), Lacks(o, BlockNames)
      PROVE  TagsKept(out \o o, h) /\ BlocksKept(out \o o, h)
  BY <1>0, <1>1, TagsPass, BlocksPass DEF SameTags, SameBlock
<1>2. CASE req.kind = "whole"
  <2>1. req.p \in Answering
    BY <1>2, RequestIs DEF StreamsTypes
  <2>2. Body(b, r)
    BY <1>2, <2>1, BodiesAre
  <2>3. r.out \in Seq(Chunks) /\ Lacks(r.out, Tags) /\ Lacks(r.out, BlockNames)
    BY <2>2, BodyChunk, NoChunk DEF Body
  <2> QED
    BY <1>1, <1>2, <2>2, <2>3 DEF WholeEffect, Body
<1>3. CASE req.kind = "pseudo"
  <2> DEFINE a == <<Chunk(b)>>
             o == GenerateFinalUsage
             x == (a \o o) \o Done
  <2>1. /\ a \in Seq(Chunks) /\ o \in Seq(Chunks) /\ Done \in Seq(Chunks)
        /\ Lacks(a, Tags) /\ Lacks(o, Tags) /\ Lacks(Done, Tags)
        /\ Lacks(a, BlockNames) /\ Lacks(o, BlockNames) /\ Lacks(Done, BlockNames)
        /\ Lacks(a, {"[DONE]"}) /\ Lacks(o, {"[DONE]"})
    <3>1. Lacks(Done, BlockNames)
      BY OtherChunk DEF Done, ChunkNames, BlockNames
    <3> QED
      BY <3>1, BodyChunk, QuietChunks, QuietNames DEF Quiet
  <2>2. \/ r.h = h /\ r.out = <<>> /\ r.err = TRUE /\ r.usage \in Usages
        \/ r.h = h /\ r.out = x /\ r.err = FALSE /\ r.usage \in Usages
    <3>1. req.p \in {"openai", "gemini"}
      BY <1>3, RequestIs DEF StreamsTypes
    <3>2. PICK u \in Usages : r = Refused(h) \/ r = Ending(h, x, u)
      <4>1. CASE req.p = "openai"
        <5> DEFINE u == IF g THEN Given(g) ELSE CountedBody(b)
        <5>1. u \in Usages
          BY BodyUsages
        <5>2. r = Refused(h) \/ r = Ending(h, x, u)
          BY <1>3, <4>1 DEF DoResponse, OpenaiPseudoStreamHandler, Unless, PseudoStream
        <5> QED
          BY <5>1, <5>2
      <4>2. CASE req.p = "gemini"
        <5>1. Given(g) \in Usages
          BY BodyUsages
        <5>2. r = Refused(h) \/ r = Ending(h, x, Given(g))
          BY <1>3, <4>2 DEF DoResponse, GeminiChatPseudoStreamHandler, Unless, PseudoStream
        <5> QED
          BY <5>1, <5>2
      <4> QED
        BY <3>1, <4>1, <4>2
    <3>3. NoUsage \in Usages
      BY BodyUsages
    <3> HIDE DEF x
    <3> QED
      BY <3>2, <3>3 DEF Refused, Ending
  <2> HIDE DEF a, o
  <2>3. a \o o \in Seq(Chunks) /\ Lacks(a \o o, Tags) /\ Lacks(a \o o, BlockNames)
        /\ Lacks(a \o o, {"[DONE]"})
    BY <2>1, CatEntries, CatLacks
  <2> DEFINE ao == a \o o
  <2>4. x \in Seq(Chunks) /\ Lacks(x, Tags) /\ Lacks(x, BlockNames)
    <3>1. ao \in Seq(Chunks) /\ Lacks(ao, Tags) /\ Lacks(ao, BlockNames) /\ x = ao \o Done
      BY <2>3
    <3> HIDE DEF ao, x
    <3> QED
      BY <2>1, <3>1, CatEntries, CatLacks
  <2>5. ASSUME Lacks(out, {"[DONE]"}) PROVE DoneLast(out \o x)
    <3>1. out \o ao \in Seq(Chunks) /\ Lacks(out \o ao, {"[DONE]"})
      BY <1>0, <2>3, <2>5, CatEntries, CatLacks
    <3>2. (out \o ao) \o Done = out \o (ao \o Done)
      <4>1. \A p, y, z \in Seq(Chunks) : (p \o y) \o z = p \o (y \o z)
        BY CatThrice
      <4> QED
        BY <1>0, <2>1, <2>3, <4>1
    <3> HIDE DEF ao
    <3>3. DoneLast((out \o ao) \o Done)
      BY <3>1, DoneAfter
    <3> QED
      BY <3>2, <3>3 DEF ao
  <2> HIDE DEF x, ao
  <2>6. TagsKept(out \o <<>>, h) /\ BlocksKept(out \o <<>>, h) /\ <<>> \in Seq(Chunks)
    BY <1>1, NoChunk
  <2>7. TagsKept(out \o x, h) /\ BlocksKept(out \o x, h)
    BY <1>1, <2>4
  <2> QED
    BY <1>3, <2>2, <2>4, <2>5, <2>6, <2>7 DEF WholeEffect
<1> QED
  BY <1>2, <1>3, RequestIs DEF StreamsTypes

(***************************************************************************)
(* Streams: the invariant is kept, step by step.                           *)
(***************************************************************************)
\* It holds at first.
LEMMA StreamsStart ==
    ASSUME StreamsInit
    PROVE  StreamsInv
<1>0. /\ req \in Requests /\ req.lines \in Nat /\ left = req.lines /\ made = 0 /\ ~told
      /\ reader = (IF req.kind = "stream" THEN "reading" ELSE "done")
      /\ line = "none" /\ waiter = "select" /\ signals = 0 /\ h = Locals /\ out = <<>>
      /\ billed = [err |-> FALSE, usage |-> NoUsage, early |-> FALSE]
      /\ told = FALSE
  BY RequestIs DEF StreamsInit
<1>1. h \in HandlerState
  BY <1>0 DEF Locals, HandlerState, Usages, NoUsage, BlockKinds, Kinds
<1>2. h.first /\ ~h.hasSent /\ ~h.sendLast /\ h.kind = "none" /\ h.last = "none" /\ h.items = <<>>
      /\ h.use = NoUsage /\ h.text = 0 /\ h.index = 0
  BY <1>0 DEF Locals
<1>3. StreamsTypes
  BY <1>0, <1>1, NoChunk DEF StreamsTypes, NoUsage, Usages
<1>4. Machinery
  BY <1>0 DEF Machinery, Looped
<1>5. InOrder
  BY <1>0, <1>2, NoChunk
     DEF InOrder, TagsKept, BlocksKept, DeltasHold, Marked, Ascending, OneOf, Lacks, Untagged,
         FirstBlock
<1>6. Over
  BY <1>0, NoChunk DEF Over
<1>7. All(h.items) = 0
  <2>1. {n \in DOMAIN h.items : h.items[n] \in Content} = {}
    BY <1>2
  <2> QED
    BY <2>1, FS_EmptySet DEF All, TextOf
<1>8. Texts(out) = 0 /\ W("none") = 0 /\ Pending = 0
  BY <1>0, NoText DEF W, Pending
<1>9. ChatCounted /\ TextCounted
  BY <1>0, <1>2, <1>7, <1>8 DEF ChatCounted, TextCounted
<1>10. UseCovers /\ BillCovers
  BY <1>0, <1>2 DEF UseCovers, BillCovers, NoUsage
<1> QED
  BY <1>3, <1>4, <1>5, <1>6, <1>9, <1>10 DEF StreamsInv

\* What may be read is a line.
LEMMA LinesAre ==
    ASSUME req.p \in Scanned \cup Channelled \cup Looped
    PROVE  Lines(req.p) \subseteq LineKinds
BY DEF Lines, LineKinds, Scanned, Channelled, Looped

\* A line is read.
LEMMA ReadKeeps ==
    ASSUME StreamsInv, Read
    PROVE  StreamsInv'
<1>0. PICK e \in Lines(req.p) :
        /\ reader = "reading" /\ left > 0
        /\ e = "start" => left = req.lines
        /\ e \in Content => ~told
        /\ line' = e /\ left' = left - 1
        /\ made' = IF e \in Content THEN made + 1 ELSE made
        /\ told' = (told \/ e \in Reports)
        /\ reader' = IF req.p \in {"palm", "xunfei"} /\ e = "bad" THEN "stopping" ELSE "got"
        /\ UNCHANGED <<req, waiter, signals, h, out, billed>>
  BY DEF Read
<1>1. /\ StreamsTypes /\ Machinery /\ InOrder /\ Over /\ ChatCounted /\ TextCounted /\ UseCovers
      /\ BillCovers
  BY DEF StreamsInv
<1>2. /\ req.kind = "stream" /\ req.lines \in Nat
      /\ req.p \in Scanned \cup Channelled \cup Looped
  BY <1>0, <1>1, RequestIs DEF StreamsTypes, Machinery
<1>3. e \in LineKinds
  BY <1>2, LinesAre
<1>4. StreamsTypes'
  BY <1>0, <1>1, <1>3 DEF StreamsTypes
<1>5. Machinery'
  <2>1. e = "start" => ~told /\ e \notin Reports
    BY <1>0, <1>1, <1>2 DEF Machinery, Reports, StreamsTypes
  <2>2. left' < req.lines
    BY <1>0, <1>1, <1>2 DEF Machinery, StreamsTypes
  <2>3. req.p \in Looped => waiter = "select"
    BY <1>0, <1>1, <1>2 DEF Machinery
  <2>4. waiter = "returned" => billed.early
    BY <1>0, <1>1 DEF Machinery
  <2>5. signals > 0 \/ waiter = "expired" => req.p \in Scanned
    BY <1>1 DEF Machinery
  <2>6. reader' # "done" /\ left' <= req.lines
    BY <1>0, <1>1, <1>2 DEF Machinery, StreamsTypes
  <2> QED
    BY <1>0, <1>2, <2>1, <2>2, <2>3, <2>4, <2>5, <2>6 DEF Machinery
<1>6. InOrder' /\ Over'
  BY <1>0, <1>1 DEF InOrder, Over, TagsKept, BlocksKept, Untagged, FirstBlock
<1>7. made' = made + Pending' /\ Pending = 0 /\ made \in Nat
  BY <1>0, <1>1 DEF Pending, Content, StreamsTypes
<1>8. ChatCounted' /\ TextCounted'
  <2>1. Texts(out)' = Texts(out) /\ Texts(out) \in Nat /\ All(h.items)' = All(h.items)
        /\ All(h.items) \in Nat /\ Pending' \in Nat
    BY <1>0, <1>1, TextsType, TextOfType DEF StreamsTypes, HandlerState, Pending
  <2>2. ChatCounted'
    <3> SUFFICES ASSUME req.p \in Chats, waiter # "returned"
                 PROVE  /\ Texts(out) + W(h.last) <= All(h.items)
                        /\ All(h.items) + Pending' <= made'
                        /\ h.last \in {"last", "usage"} => h.use.c >= All(h.items)
      BY <1>0 DEF ChatCounted, Texts, TextsOf, All, TextOf, W
    <3> QED
      BY <1>1, <1>7, <2>1 DEF ChatCounted
  <2>3. TextCounted'
    <3> SUFFICES ASSUME req.p \notin Chats
                 PROVE  /\ Texts(out) + Pending' <= made'
                        /\ req.p \in TextCounters => Texts(out) <= h.text
                        /\ req.p = "xai" => Texts(out) <= All(h.items)
      BY <1>0 DEF TextCounted, Texts, TextsOf, All, TextOf
    <3> QED
      BY <1>1, <1>2, <1>7, <2>1 DEF TextCounted
  <2> QED
    BY <2>2, <2>3
<1>9. UseCovers'
  <2>1. told => made' = made
    BY <1>0
  <2>2. ASSUME req.p \in Claudes, told', ~told PROVE reader' = "got" /\ line' = "delta"
    <3>1. e \in Reports /\ e \in ClaudeLines
      BY <1>0, <2>2 DEF Lines, Claudes, ClaudeLines
    <3> QED
      BY <1>0, <2>2, <3>1 DEF Reports, ClaudeLines, Claudes
  <2> QED
    BY <1>0, <1>1, <2>1, <2>2 DEF UseCovers
<1>10. BillCovers'
  <2>1. CASE req.p \in Scanned
    BY <1>0, <1>1, <2>1 DEF BillCovers, Machinery
  <2>2. CASE req.p \in Looped
    BY <1>0, <1>1, <1>2, <2>2 DEF BillCovers, Machinery
  <2>3. CASE req.p \in Channelled
    <3>1. (Counting \/ Knows)' => Counting \/ Knows
      BY <1>0, <2>3 DEF Counting, Knows, Channelled
    <3>2. Texts(out)' = Texts(out)
      BY <1>0
    <3> QED
      BY <1>0, <1>1, <3>1, <3>2 DEF BillCovers
  <2> QED
    BY <1>2, <2>1, <2>2, <2>3
<1> QED
  BY <1>4, <1>5, <1>6, <1>8, <1>9, <1>10 DEF StreamsInv

\* What follows from the effect of a line.
LEMMA LineKept ==
    ASSUME StreamsInv, reader = "got", NEW r, r = HandleData(h, line), Apply(r),
           UNCHANGED <<req, left, made, told, line, billed>>,
           reader' \in {"reading", "stopping", "done"},
           waiter = "returned" => waiter' = "returned"
    PROVE  /\ h' \in HandlerState /\ out' \in Seq(Chunks)
           /\ InOrder' /\ (Lacks(out, {"[DONE]"}) => Lacks(out', {"[DONE]"}))
           /\ ChatCounted' /\ TextCounted' /\ UseCovers'
<1>1. /\ StreamsTypes /\ Machinery /\ InOrder /\ ChatCounted /\ TextCounted /\ UseCovers
  BY DEF StreamsInv
<1>2. req.kind = "stream" /\ line \in Lines(req.p) /\ line \in LineKinds
  BY <1>1, LinesAre, RequestIs DEF Machinery, StreamsTypes
<1>3. LineEffect(r)
  BY <1>1, <1>2, LineHas
<1>4. h' = r.h /\ out' = out \o r.out /\ out \in Seq(Chunks)
  BY <1>1 DEF Apply, StreamsTypes
<1>5. \E w : Steps(h, w, r)
  BY <1>3 DEF LineEffect
<1>6. h' \in HandlerState /\ out' \in Seq(Chunks)
  BY <1>4, <1>5, CatEntries DEF Steps, InOrderAfter
<1>7. TagsKept(out, h)' /\ BlocksKept(out, h)'
  <2>1. TagsKept(out \o r.out, r.h) /\ BlocksKept(out \o r.out, r.h)
    BY <1>1, <1>4, <1>5 DEF Steps, InOrderAfter, InOrder
  <2>2. TagsKept(out', h') /\ BlocksKept(out', h')
    BY <1>4, <2>1
  <2> QED
    BY <2>2 DEF TagsKept, BlocksKept
<1>8. InOrder'
  <2>1. req.p \notin Chats => r.h.first /\ r.h.kind = "none"
    BY <1>1, <1>3 DEF InOrder, LineEffect, Writes, Plain, SameTags, SameBlock
  <2>2. Untagged(h)' /\ FirstBlock(h)'
    BY <1>3, <1>4 DEF LineEffect, Untagged, FirstBlock
  <2> QED
    BY <1>2, <1>4, <1>7, <2>1, <2>2 DEF InOrder
<1>9. Lacks(out, {"[DONE]"}) => Lacks(out', {"[DONE]"})
  BY <1>4, <1>5, CatLacks DEF Steps, InOrderAfter
<1>10. /\ Pending' = 0 /\ Pending = (IF line \in Content THEN 1 ELSE 0)
       /\ W(line) <= Pending /\ W(line) \in Nat /\ W(h.last) \in Nat
       /\ Texts(out) \in Nat /\ Texts(out') \in Nat /\ made \in Nat /\ All(h.items) \in Nat
       /\ All(Append(h.items, line)) = All(h.items) + Pending
  <2>1. h.items \in Seq(LineKinds) /\ out \in Seq(Chunks) /\ made \in Nat
    BY <1>1 DEF StreamsTypes, HandlerState
  <2>2. All(h.items) \in Nat /\ All(Append(h.items, line)) = All(h.items) + (IF line \in Content THEN 1 ELSE 0)
    BY <1>2, <2>1, TextOfType, TextOfMore
  <2>3. Pending = (IF line \in Content THEN 1 ELSE 0) /\ Pending' = 0
    BY DEF Pending
  <2>4. W(line) <= (IF line \in Content THEN 1 ELSE 0) /\ W(line) \in Nat /\ W(h.last) \in Nat
    BY DEF W, Content
  <2>5. Texts(out) \in Nat /\ Texts(out') \in Nat
    BY <1>6, <2>1, TextsType
  <2> QED
    BY <2>1, <2>2, <2>3, <2>4, <2>5
<1>11. ChatCounted'
  <2> SUFFICES ASSUME req.p \in Chats, waiter # "returned"
               PROVE  /\ Texts(out') + W(h'.last) <= All(h'.items)
                      /\ All(h'.items) + Pending' <= made
                      /\ h'.last \in {"last", "usage"} => h'.use.c >= All(h'.items)
    BY DEF ChatCounted, Texts, TextsOf, All, TextOf, W
  <2>1. /\ Texts(out') <= Texts(out) + W(h.last)
        /\ h'.last = line /\ h'.items = Append(h.items, line)
        /\ h'.use = IF line \in Reports THEN Reported ELSE h.use
    BY <1>3, <1>4 DEF LineEffect, Steps
  <2>2. Texts(out) + W(h.last) <= All(h.items) /\ All(h.items) + Pending <= made
    BY <1>1 DEF ChatCounted
  <2>3. line \in {"last", "usage"} => h'.use.c = made
    BY <1>10, <2>1, ReportType DEF Reports
  <2> QED
    BY <1>10, <2>1, <2>2, <2>3
<1>12. TextCounted'
  <2> SUFFICES ASSUME req.p \notin Chats
               PROVE  /\ Texts(out') + Pending' <= made
                      /\ req.p \in TextCounters => Texts(out') <= h'.text
                      /\ req.p = "xai" => Texts(out') <= All(h'.items)
    BY DEF TextCounted, Texts, TextsOf, All, TextOf
  <2>1. Texts(out') <= Texts(out) + W(line)
    BY <1>3, <1>4 DEF LineEffect, Steps
  <2>2. /\ Texts(out) + Pending <= made
        /\ req.p \in TextCounters => Texts(out) <= h.text
        /\ req.p = "xai" => Texts(out) <= All(h.items)
    BY <1>1, <1>2 DEF TextCounted
  <2>3. req.p \in TextCounters => h'.text >= h.text + W(line) /\ h.text \in Nat /\ h'.text \in Nat
    BY <1>1, <1>3, <1>4, <1>6 DEF LineEffect, NotesText, StreamsTypes, HandlerState
  <2>4. req.p = "xai" => \/ line = "bad" /\ h'.items = h.items
                         \/ h'.items = Append(h.items, line)
    BY <1>3, <1>4 DEF LineEffect
  <2>5. line = "bad" => W(line) = 0
    BY DEF W
  <2>6. req.p = "xai" => Texts(out') <= All(h'.items)
    <3>1. CASE line = "bad" /\ h'.items = h.items
      <4>1. All(h'.items) = All(h.items) /\ W(line) = 0
        BY <2>5, <3>1
      <4> QED
        BY <1>10, <2>1, <2>2, <4>1
    <3>2. CASE h'.items = Append(h.items, line)
      <4>1. All(h'.items) = All(h.items) + Pending
        BY <1>10, <3>2
      <4> QED
        BY <1>10, <2>1, <2>2, <4>1
    <3> QED
      BY <2>4, <3>1, <3>2
  <2> QED
    BY <1>10, <2>1, <2>2, <2>3, <2>6
<1>13. UseCovers'
  <2>1. /\ req.p \in Reporters => h.use = NoUsage \/ (h.use.p > 0 /\ told /\ h.use.c >= made)
        /\ req.p \in Claudes =>
             /\ req.client # "claude" /\ ~told => h.use.c = 0
             /\ told => h.err \/ h.use.c = made \/ line = "delta"
    BY <1>1, <1>2 DEF UseCovers
  <2>2. (line \in Reports => told) /\ (line = "start" => ~told)
    BY <1>1 DEF Machinery
  <2>3. req.p \in Reporters => h'.use = NoUsage \/ (h'.use.p > 0 /\ told /\ h'.use.c >= made)
    BY <1>3, <1>4, <2>1, <2>2 DEF LineEffect, NotesUse
  <2>4. req.p \in Claudes =>
             /\ req.client # "claude" /\ ~told => h'.use.c = 0
             /\ told => h'.err \/ h'.use.c = made
    BY <1>3, <1>4, <2>1, <2>2 DEF LineEffect, Reports
  <2> QED
    BY <2>3, <2>4 DEF UseCovers
<1> QED
  BY <1>6, <1>8, <1>9, <1>11, <1>12, <1>13

\* Neither the answer nor what is counted changes.
LEMMA CountsKept ==
    ASSUME StreamsInv, UNCHANGED <<req, made, told, line, h, out>>,
           reader' = "got" => reader = "got",
           waiter = "returned" => waiter' = "returned"
    PROVE  /\ InOrder' /\ ChatCounted' /\ TextCounted'
           /\ (reader' = reader \/ reader # "got" => UseCovers')
<1>1. InOrder /\ ChatCounted /\ TextCounted /\ UseCovers /\ StreamsTypes
  BY DEF StreamsInv
<1>2. InOrder'
  BY <1>1 DEF InOrder, TagsKept, BlocksKept, Untagged, FirstBlock
<1>3. /\ Pending' <= Pending /\ Pending' \in Nat /\ Pending \in Nat
      /\ Texts(out) \in Nat /\ made \in Nat /\ All(h.items) \in Nat
  BY <1>1, TextsType, TextOfType DEF Pending, StreamsTypes, HandlerState
<1>4. ChatCounted'
  <2> SUFFICES ASSUME req.p \in Chats, waiter # "returned"
               PROVE  /\ Texts(out) + W(h.last) <= All(h.items)
                      /\ All(h.items) + Pending' <= made
                      /\ h.last \in {"last", "usage"} => h.use.c >= All(h.items)
    BY DEF ChatCounted, Texts, TextsOf, All, TextOf, W
  <2> QED
    BY <1>1, <1>3 DEF ChatCounted
<1>5. TextCounted'
  <2> SUFFICES ASSUME req.kind = "stream", req.p \notin Chats
               PROVE  /\ Texts(out) + Pending' <= made
                      /\ req.p \in TextCounters => Texts(out) <= h.text
                      /\ req.p = "xai" => Texts(out) <= All(h.items)
    BY DEF TextCounted, Texts, TextsOf, All, TextOf
  <2> QED
    BY <1>1, <1>3 DEF TextCounted
<1>6. reader' = reader \/ reader # "got" => UseCovers'
  BY <1>1 DEF UseCovers
<1> QED
  BY <1>2, <1>4, <1>5, <1>6

\* What was billed stands while nothing is written or billed.
LEMMA BillKept ==
    ASSUME BillCovers, UNCHANGED <<req, told, h, out, billed>>, waiter' = "returned" => waiter = "returned"
    PROVE  BillCovers'
<1> SUFFICES ASSUME waiter = "returned", ~billed.err, req.kind = "stream",
                    ~(billed.early /\ req.p \in Scanned),
                    ~(req.p = "openai" /\ \E n \in DOMAIN h.items : h.items[n] = "bad"),
                    Counting \/ Knows
             PROVE  billed.usage.c >= Texts(out)
  BY DEF BillCovers, Counting, Knows, Texts, TextsOf
<1> QED
  BY DEF BillCovers

\* The body ends.
LEMMA EndOfBodyKeeps ==
    ASSUME StreamsInv, EndOfBody
    PROVE  StreamsInv'
<1>1. InOrder' /\ ChatCounted' /\ TextCounted' /\ UseCovers'
  BY CountsKept DEF EndOfBody
<1>2. StreamsTypes /\ Machinery /\ Over /\ BillCovers
  BY DEF StreamsInv
<1>3. BillCovers'
  BY <1>2, BillKept DEF EndOfBody
<1>4. StreamsTypes' /\ Machinery'
  BY <1>2 DEF EndOfBody, StreamsTypes, Machinery
<1>5. Over'
  BY <1>2 DEF EndOfBody, Over
<1> QED
  BY <1>1, <1>3, <1>4, <1>5 DEF StreamsInv

\* The scanner's goroutine handles a line.
LEMMA HandleScannedKeeps ==
    ASSUME StreamsInv, HandleScanned
    PROVE  StreamsInv'
<1> DEFINE r == HandleData(h, line)
<1>1. /\ req.p \in Scanned /\ reader = "got" /\ Apply(r)
      /\ reader' \in {"reading", "stopping"}
      /\ UNCHANGED <<req, left, made, told, line, waiter, signals, billed>>
  BY DEF HandleScanned
<1>2. StreamsTypes /\ Machinery /\ Over /\ BillCovers
  BY DEF StreamsInv
<1> HIDE DEF r
<1>3. /\ h' \in HandlerState /\ out' \in Seq(Chunks)
      /\ InOrder' /\ (Lacks(out, {"[DONE]"}) => Lacks(out', {"[DONE]"}))
      /\ ChatCounted' /\ TextCounted' /\ UseCovers'
  BY <1>1, LineKept DEF r
<1>4. StreamsTypes'
  BY <1>1, <1>2, <1>3 DEF StreamsTypes
<1>5. waiter = "returned" => billed.early
  BY <1>1, <1>2 DEF Machinery
<1>6. req.p \notin Channelled /\ req.p \notin Looped
  BY <1>1 DEF Scanned, Channelled, Looped
<1>7. Machinery'
  BY <1>1, <1>2, <1>5, <1>6 DEF Machinery
<1>8. Over'
  BY <1>1, <1>2, <1>3, <1>5, <1>6 DEF Over, Lacks
<1>9. BillCovers'
  BY <1>1, <1>5 DEF BillCovers
<1> QED
  BY <1>3, <1>4, <1>7, <1>8, <1>9 DEF StreamsInv

\* It comes to its end.
LEMMA StopScannedKeeps ==
    ASSUME StreamsInv, StopScanned
    PROVE  StreamsInv'
<1>1. InOrder' /\ ChatCounted' /\ TextCounted' /\ UseCovers'
  BY CountsKept DEF StopScanned
<1>2. StreamsTypes /\ Machinery /\ Over /\ BillCovers
  BY DEF StreamsInv
<1>3. BillCovers'
  BY <1>2, BillKept DEF StopScanned
<1>4. StreamsTypes'
  BY <1>2 DEF StopScanned, StreamsTypes
<1>5. req.p \notin Channelled /\ req.p \notin Looped
  BY DEF StopScanned, Scanned, Channelled, Looped
<1>6. Machinery'
  BY <1>2, <1>5 DEF StopScanned, Machinery
<1>7. Over'
  BY <1>2, <1>5 DEF StopScanned, Over
<1> QED
  BY <1>1, <1>3, <1>4, <1>6, <1>7 DEF StreamsInv

\* The handler is told.
LEMMA ReceiveKeeps ==
    ASSUME StreamsInv, Receive
    PROVE  StreamsInv'
<1>1. InOrder' /\ ChatCounted' /\ TextCounted' /\ UseCovers'
  BY CountsKept DEF Receive
<1>2. StreamsTypes /\ Machinery /\ Over /\ BillCovers
  BY DEF StreamsInv
<1>3. BillCovers'
  BY <1>2, BillKept DEF Receive
<1>4. StreamsTypes'
  BY <1>2 DEF Receive, StreamsTypes
<1>5. req.p \in Scanned /\ req.p \notin Looped
  BY <1>2 DEF Receive, Machinery, StreamsTypes, Scanned, Looped
<1>6. Machinery'
  <2>1. req.kind = "stream"
    BY <1>2 DEF Receive, Machinery, StreamsTypes
  <2> QED
    BY <1>2, <1>5, <2>1 DEF Receive, Machinery
<1>7. Over'
  BY <1>2 DEF Receive, Over
<1> QED
  BY <1>1, <1>3, <1>4, <1>6, <1>7 DEF StreamsInv

\* Its timer fires.
LEMMA ExpireKeeps ==
    ASSUME StreamsInv, Expire
    PROVE  StreamsInv'
<1>1. InOrder' /\ ChatCounted' /\ TextCounted' /\ UseCovers'
  BY CountsKept DEF Expire
<1>2. StreamsTypes /\ Machinery /\ Over /\ BillCovers
  BY DEF StreamsInv
<1>3. BillCovers'
  BY <1>2, BillKept DEF Expire
<1>4. StreamsTypes'
  BY <1>2 DEF Expire, StreamsTypes
<1>5. req.p \notin Looped
  BY DEF Expire, Scanned, Looped
<1>6. Machinery'
  BY <1>2, <1>5 DEF Expire, Machinery
<1>7. Over'
  BY <1>2 DEF Expire, Over
<1> QED
  BY <1>1, <1>3, <1>4, <1>6, <1>7 DEF StreamsInv

\* It sends to the channel it receives from.
LEMMA SendExpiredKeeps ==
    ASSUME StreamsInv, SendExpired
    PROVE  StreamsInv'
<1>1. InOrder' /\ ChatCounted' /\ TextCounted' /\ UseCovers'
  BY CountsKept DEF SendExpired
<1>2. StreamsTypes /\ Machinery /\ Over /\ BillCovers
  BY DEF StreamsInv
<1>3. BillCovers'
  BY <1>2, BillKept DEF SendExpired
<1>4. StreamsTypes'
  BY <1>2 DEF SendExpired, StreamsTypes
<1>5. req.p \in Scanned /\ req.p \notin Looped
  BY <1>2 DEF SendExpired, Machinery, Scanned, Looped
<1>6. Machinery'
  <2>1. req.kind = "stream"
    BY <1>2 DEF SendExpired, Machinery
  <2> QED
    BY <1>2, <1>5, <2>1 DEF SendExpired, Machinery
<1>7. Over'
  BY <1>2 DEF SendExpired, Over
<1> QED
  BY <1>1, <1>3, <1>4, <1>6, <1>7 DEF StreamsInv

\* A line goes from the reader to c.Stream.
LEMMA HandOverKeeps ==
    ASSUME StreamsInv, HandOver
    PROVE  StreamsInv'
<1> DEFINE r == HandleData(h, line)
<1>1. /\ req.p \in Channelled /\ reader = "got" /\ waiter = "select" /\ Apply(r)
      /\ reader' \in {"reading", "stopping"} /\ waiter' \in {"select", "final"}
      /\ UNCHANGED <<req, left, made, told, line, signals, billed>>
  BY DEF HandOver
<1>2. StreamsTypes /\ Machinery /\ Over /\ BillCovers
  BY DEF StreamsInv
<1> HIDE DEF r
<1>3. /\ h' \in HandlerState /\ out' \in Seq(Chunks)
      /\ InOrder' /\ (Lacks(out, {"[DONE]"}) => Lacks(out', {"[DONE]"}))
      /\ ChatCounted' /\ TextCounted' /\ UseCovers'
  BY <1>1, LineKept DEF r
<1>4. StreamsTypes'
  BY <1>1, <1>2, <1>3 DEF StreamsTypes
<1>5. req.p \notin Looped /\ req.kind = "stream"
  BY <1>1, <1>2 DEF Machinery, Channelled, Looped
<1>6. Machinery'
  BY <1>1, <1>2, <1>5 DEF Machinery
<1>7. Over'
  BY <1>1, <1>2, <1>3, <1>5 DEF Over, Lacks
<1>8. BillCovers'
  BY <1>1 DEF BillCovers
<1> QED
  BY <1>3, <1>4, <1>6, <1>7, <1>8 DEF StreamsInv

\* The client is gone before the first line.
LEMMA GoneAtOnceKeeps ==
    ASSUME StreamsInv, GoneAtOnce
    PROVE  StreamsInv'
<1>1. InOrder' /\ ChatCounted' /\ TextCounted' /\ UseCovers'
  BY CountsKept DEF GoneAtOnce
<1>2. StreamsTypes /\ Machinery /\ Over /\ BillCovers
  BY DEF StreamsInv
<1>3. BillCovers'
  BY <1>2, BillKept DEF GoneAtOnce
<1>4. StreamsTypes'
  BY <1>2 DEF GoneAtOnce, StreamsTypes
<1>5. req.p \notin Looped
  BY DEF GoneAtOnce, Channelled, Looped
<1>6. Machinery'
  BY <1>2, <1>5 DEF GoneAtOnce, Machinery
<1>7. Over'
  BY <1>2 DEF GoneAtOnce, Over
<1> QED
  BY <1>1, <1>3, <1>4, <1>6, <1>7 DEF StreamsInv

\* The reader's end, and [DONE].
LEMMA HandStopKeeps ==
    ASSUME StreamsInv, HandStop
    PROVE  StreamsInv'
<1>1. /\ StreamsTypes /\ Machinery /\ InOrder /\ Over /\ TextCounted /\ UseCovers
  BY DEF StreamsInv
<1>2. /\ req.p \in Channelled /\ reader = "stopping" /\ waiter = "select" /\ out' = out \o Done
      /\ reader' = "done" /\ waiter' = "final"
      /\ UNCHANGED <<req, left, made, told, line, signals, h, billed>>
  BY DEF HandStop
<1>3. /\ req.kind = "stream" /\ req.p \notin Looped /\ req.p \notin Chats
      /\ out \in Seq(Chunks) /\ h \in HandlerState
  BY <1>1, <1>2 DEF Machinery, StreamsTypes, Channelled, Looped, Chats
<1>4. /\ Done \in Seq(Chunks) /\ Lacks(Done, {"text", "block_delta"}) /\ Lacks(Done, {"text"})
      /\ Lacks(Done, BlockNames) /\ Lacks(Done, Tags)
  BY OtherChunk DEF Done, ChunkNames, BlockNames, Tags
<1>5. TagsKept(out', h) /\ BlocksKept(out', h)
  BY <1>1, <1>2, <1>3, <1>4, TagsPass, BlocksPass DEF InOrder, SameTags, SameBlock
<1>6. out' \in Seq(Chunks) /\ Texts(out') = Texts(out) /\ DoneLast(out')
  <2>1. Lacks(out, {"[DONE]"})
    BY <1>1, <1>2, <1>3 DEF Over
  <2> QED
    BY <1>2, <1>3, <1>4, <2>1, CatEntries, NoMoreText, DoneAfter
<1>7. StreamsTypes'
  BY <1>1, <1>2, <1>6 DEF StreamsTypes
<1>8. Machinery'
  BY <1>1, <1>2, <1>3 DEF Machinery
<1>9. InOrder'
  BY <1>1, <1>2, <1>5 DEF InOrder, TagsKept, BlocksKept, Untagged, FirstBlock
<1>10. Over'
  BY <1>2, <1>3, <1>6 DEF Over, DoneLast
<1>11. ChatCounted' /\ BillCovers'
  BY <1>2, <1>3 DEF ChatCounted, BillCovers
<1>12. TextCounted'
  <2> SUFFICES /\ Texts(out') + Pending' <= made
               /\ req.p \in TextCounters => Texts(out') <= h.text
               /\ req.p = "xai" => Texts(out') <= All(h.items)
    BY <1>2 DEF TextCounted, Texts, TextsOf, All, TextOf
  <2> QED
    BY <1>1, <1>2, <1>3, <1>6 DEF TextCounted, Pending
<1>13. UseCovers'
  BY <1>1, <1>2 DEF UseCovers
<1> QED
  BY <1>7, <1>8, <1>9, <1>10, <1>11, <1>12, <1>13 DEF StreamsInv

\* A handler that reads the body itself handles a line.
LEMMA LoopHandleKeeps ==
    ASSUME StreamsInv, LoopHandle
    PROVE  StreamsInv'
<1> DEFINE r == HandleData(h, line)
<1>1. /\ req.p \in Looped /\ reader = "got" /\ Apply(r)
      /\ \/ reader' = "reading" /\ waiter' = "select"
         \/ reader' = "done" /\ waiter' = "final"
      /\ UNCHANGED <<req, left, made, told, line, signals, billed>>
  BY DEF LoopHandle
<1>2. StreamsTypes /\ Machinery /\ Over /\ BillCovers
  BY DEF StreamsInv
<1>3. waiter = "select" /\ req.kind = "stream" /\ req.p \notin Channelled
  BY <1>1, <1>2 DEF Machinery, Channelled, Looped, StreamsTypes
<1> HIDE DEF r
<1>4. /\ h' \in HandlerState /\ out' \in Seq(Chunks)
      /\ InOrder' /\ (Lacks(out, {"[DONE]"}) => Lacks(out', {"[DONE]"}))
      /\ ChatCounted' /\ TextCounted' /\ UseCovers'
  BY <1>1, <1>3, LineKept DEF r
<1>5. StreamsTypes'
  BY <1>1, <1>2, <1>4 DEF StreamsTypes
<1>6. Machinery'
  BY <1>1, <1>2, <1>3 DEF Machinery
<1>7. Over'
  BY <1>1, <1>2, <1>3, <1>4 DEF Over, Lacks
<1>8. BillCovers'
  BY <1>1 DEF BillCovers
<1> QED
  BY <1>4, <1>5, <1>6, <1>7, <1>8 DEF StreamsInv

\* It comes to the end of the body.
LEMMA LoopEndKeeps ==
    ASSUME StreamsInv, LoopEnd
    PROVE  StreamsInv'
<1>1. StreamsTypes /\ Machinery /\ Over /\ BillCovers
  BY DEF StreamsInv
<1>2. waiter = "select" /\ req.kind = "stream" /\ req.p \notin Channelled
  BY <1>1 DEF LoopEnd, Machinery, Channelled, Looped, StreamsTypes
<1>3. InOrder' /\ ChatCounted' /\ TextCounted' /\ UseCovers'
  BY <1>2, CountsKept DEF LoopEnd
<1>4. BillCovers'
  BY <1>1, BillKept DEF LoopEnd
<1>5. StreamsTypes'
  BY <1>1 DEF LoopEnd, StreamsTypes
<1>6. Machinery'
  BY <1>1, <1>2 DEF LoopEnd, Machinery
<1>7. Over'
  BY <1>1, <1>2 DEF LoopEnd, Over
<1> QED
  BY <1>3, <1>4, <1>5, <1>6, <1>7 DEF StreamsInv

\* The handler returns.
LEMMA FinishKeeps ==
    ASSUME StreamsInv, Finish
    PROVE  StreamsInv'
<1> DEFINE r == StreamEnd(h)
<1>1. /\ StreamsTypes /\ Machinery /\ InOrder /\ Over /\ ChatCounted /\ TextCounted /\ UseCovers
  BY DEF StreamsInv
<1>2. /\ waiter = "final" /\ h' = r.h /\ out' = out \o r.out
      /\ billed' = [err |-> r.err, usage |-> r.usage, early |-> reader # "done"]
      /\ waiter' = "returned"
      /\ UNCHANGED <<req, left, made, told, reader, line, signals>>
  BY DEF Finish, Return, Apply
<1>3. req.kind = "stream"
  BY <1>1, <1>2 DEF Machinery
<1>4. EndEffect(r)
  BY <1>1, <1>2, <1>3, EndHas DEF AtEnd
<1> HIDE DEF r
<1>5. /\ r.h \in HandlerState /\ r.out \in Seq(Chunks) /\ r.usage \in Usages /\ r.err \in BOOLEAN
      /\ out \in Seq(Chunks) /\ h \in HandlerState /\ made \in Nat
      /\ TagsKept(out', h') /\ BlocksKept(out', h')
      /\ Texts(out') <= Texts(out) + (IF req.p \in Chats THEN W(h.last) ELSE 0)
  BY <1>1, <1>2, <1>4 DEF EndEffect, IsEnding, StreamsTypes, InOrder
<1>6. /\ Untagged(r.h) /\ FirstBlock(r.h) /\ h'.items = h.items
      /\ req.p \notin Chats => h' = h
      /\ req.p \in Channelled => r.out = <<>>
  BY <1>2, <1>4 DEF EndEffect
<1>7. out' \in Seq(Chunks)
  BY <1>2, <1>5, CatEntries
<1>8. Texts(out) \in Nat /\ Texts(out') \in Nat /\ W(h.last) \in Nat
  BY <1>5, <1>7, TextsType DEF W
<1>9. StreamsTypes'
  BY <1>1, <1>2, <1>5, <1>7 DEF StreamsTypes
<1>10. Machinery'
  BY <1>1, <1>2, <1>3 DEF Machinery
<1>11. InOrder'
  <2>1. TagsKept(out, h)' /\ BlocksKept(out, h)'
    BY <1>5 DEF TagsKept, BlocksKept
  <2>2. Untagged(h)' /\ FirstBlock(h)'
    BY <1>2, <1>6 DEF Untagged, FirstBlock
  <2> QED
    BY <1>1, <1>2, <1>3, <1>6, <2>1, <2>2 DEF InOrder
<1>12. Over'
  <2>1. req.p \in Channelled => out' = out
    BY <1>2, <1>5, <1>6, ConcatEmptySeq
  <2>2. ASSUME ~r.err, reader = "done", req.client = "openai" PROVE DoneLast(out')
    <3>1. CASE req.p \in Channelled
      BY <1>1, <1>3, <2>1, <2>2, <3>1 DEF Over
    <3>2. CASE req.p \notin Channelled
      <4>1. Lacks(out, {"[DONE]"})
        BY <1>1, <1>2, <3>2 DEF Over
      <4> QED
        BY <1>2, <1>4, <1>5, <2>2, <3>2, <4>1 DEF EndEffect
    <3> QED
      BY <3>1, <3>2
  <2>3. billed'.err = r.err /\ (billed'.early <=> reader # "done")
    BY <1>2
  <2>4. req.p \in Channelled => IF reader = "done" THEN DoneLast(out') ELSE Lacks(out', {"[DONE]"})
    BY <1>1, <1>3, <2>1 DEF Over
  <2> QED
    BY <1>2, <2>2, <2>3, <2>4 DEF Over, DoneLast, Lacks
<1>13. ChatCounted'
  BY <1>2 DEF ChatCounted
<1>14. TextCounted'
  <2> SUFFICES ASSUME req.p \notin Chats
               PROVE  /\ Texts(out') + Pending' <= made
                      /\ req.p \in TextCounters => Texts(out') <= h'.text
                      /\ req.p = "xai" => Texts(out') <= All(h'.items)
    BY <1>2 DEF TextCounted, Texts, TextsOf, All, TextOf
  <2>1. Pending' = Pending /\ Pending \in Nat
    BY <1>2 DEF Pending
  <2>2. h' = h /\ Texts(out') <= Texts(out)
    BY <1>5, <1>6, <1>8
  <2>3. /\ Texts(out) + Pending <= made
        /\ req.p \in TextCounters => Texts(out) <= h.text
        /\ req.p = "xai" => Texts(out) <= All(h.items)
    BY <1>1, <1>3 DEF TextCounted
  <2>4. h.text \in Nat /\ All(h.items) \in Nat
    BY <1>5, TextOfType DEF HandlerState
  <2> QED
    BY <1>5, <1>8, <2>1, <2>2, <2>3, <2>4
<1>15. UseCovers'
  <2>1. req.p \in Reporters \/ req.p \in Claudes => req.p \notin Chats
    BY DEF Reporters, Claudes, Chats
  <2> QED
    BY <1>1, <1>2, <1>6, <2>1 DEF UseCovers
<1>16. BillCovers'
  <2> SUFFICES ASSUME ~r.err, ~(reader # "done" /\ req.p \in Scanned),
                      ~(req.p = "openai" /\ \E n \in DOMAIN h.items : h.items[n] = "bad"),
                      (Counting \/ Knows)'
               PROVE  r.usage.c >= Texts(out')
    BY <1>2, <1>6 DEF BillCovers, Texts, TextsOf
  <2>1. r.usage.c \in Nat
    BY <1>5 DEF Usages
  <2>2. CASE req.p \in Chats
    <3>1. Counted(h.items) = DOMAIN h.items
      <4>1. h.items \in Seq(LineKinds)
        BY <1>5 DEF HandlerState
      <4>2. \A n \in DOMAIN h.items : \A m \in 1..n : m \in DOMAIN h.items
        BY <4>1
      <4>3. req.p # "completions" => \A n \in DOMAIN h.items : h.items[n] # "bad"
        BY <2>2 DEF Chats
      <4> QED
        BY <4>2, <4>3 DEF Counted
    <3>2. /\ Texts(out) + W(h.last) <= All(h.items)
          /\ h.last \in {"last", "usage"} => h.use.c >= All(h.items)
      BY <1>1, <1>2, <2>2 DEF ChatCounted
    <3>3. r.usage.c >= All(h.items)
      BY <1>4, <2>2, <3>1, <3>2 DEF EndEffect
    <3>4. Texts(out') <= Texts(out) + W(h.last)
      BY <1>5, <2>2
    <3>5. All(h.items) \in Nat
      BY <1>5, TextOfType DEF HandlerState
    <3> QED
      BY <1>8, <2>1, <3>2, <3>3, <3>4, <3>5
  <2>3. CASE req.p \notin Chats
    <3>1. Counting \/ Knows
      BY <1>2, <1>6, <2>3 DEF Counting, Knows
    <3>2. req.p \in Channelled \/ reader = "done"
      BY <1>1, <1>2, <1>3, RequestIs DEF StreamsTypes, Machinery
    <3>3. r.usage.c >= Texts(out)
      BY <1>4, <2>3, <3>1, <3>2 DEF EndEffect
    <3>4. Texts(out') <= Texts(out)
      BY <1>5, <1>8, <2>3
    <3> QED
      BY <1>8, <2>1, <3>3, <3>4
  <2> QED
    BY <2>2, <2>3
<1> QED
  BY <1>9, <1>10, <1>11, <1>12, <1>13, <1>14, <1>15, <1>16 DEF StreamsInv

\* An answer in one piece.
LEMMA WholeKeeps ==
    ASSUME StreamsInv, Whole
    PROVE  StreamsInv'
<1>1. PICK b \in Bodies, g \in BOOLEAN : Return(DoResponse(b, g))
  BY DEF Whole
<1> DEFINE r == DoResponse(b, g)
<1>2. /\ StreamsTypes /\ Machinery /\ InOrder /\ Over
  BY DEF StreamsInv
<1>3. /\ req.kind # "stream" /\ waiter = "select" /\ h' = r.h /\ out' = out \o r.out
      /\ billed' = [err |-> r.err, usage |-> r.usage, early |-> reader # "done"]
      /\ waiter' = "returned"
      /\ UNCHANGED <<req, left, made, told, reader, line, signals>>
  BY <1>1 DEF Whole, Return, Apply
<1>4. WholeEffect(r)
  BY <1>2, <1>3, WholeHas
<1> HIDE DEF r
<1>5. /\ h' = h /\ r.out \in Seq(Chunks) /\ r.usage \in Usages /\ r.err \in BOOLEAN
      /\ TagsKept(out', h) /\ BlocksKept(out', h)
      /\ req.kind = "pseudo" /\ ~r.err /\ Lacks(out, {"[DONE]"}) => DoneLast(out')
  BY <1>3, <1>4 DEF WholeEffect
<1>6. out' \in Seq(Chunks)
  BY <1>2, <1>3, <1>5, CatEntries DEF StreamsTypes
<1>7. StreamsTypes'
  BY <1>2, <1>3, <1>5, <1>6 DEF StreamsTypes
<1>8. Machinery'
  BY <1>2, <1>3 DEF Machinery
<1>9. InOrder'
  BY <1>2, <1>3, <1>5 DEF InOrder, TagsKept, BlocksKept, Untagged, FirstBlock
<1>10. Over'
  <2>1. Lacks(out, {"[DONE]"})
    BY <1>2, <1>3 DEF Over
  <2>2. req.kind # "whole" => req.kind = "pseudo"
    BY <1>2, <1>3, RequestIs DEF StreamsTypes
  <2>3. billed'.err = r.err
    BY <1>3
  <2> QED
    BY <1>3, <1>5, <2>1, <2>2, <2>3 DEF Over, DoneLast
<1>11. ChatCounted' /\ TextCounted' /\ UseCovers' /\ BillCovers'
  BY <1>3 DEF ChatCounted, TextCounted, UseCovers, BillCovers
<1> QED
  BY <1>7, <1>8, <1>9, <1>10, <1>11 DEF StreamsInv

\* Every step keeps the invariant.
LEMMA StreamsStep ==
    ASSUME StreamsInv, [StreamsNext]_streamsVars
    PROVE  StreamsInv'
<1>1. CASE UNCHANGED streamsVars
  <2>1. /\ InOrder' /\ ChatCounted' /\ TextCounted' /\ UseCovers'
    BY <1>1, CountsKept DEF streamsVars
  <2>2. StreamsTypes /\ Machinery /\ Over /\ BillCovers
    BY DEF StreamsInv
  <2>3. BillCovers'
    BY <1>1, <2>2, BillKept DEF streamsVars
  <2>4. StreamsTypes' /\ Machinery' /\ Over'
    BY <1>1, <2>2 DEF streamsVars, StreamsTypes, Machinery, Over
  <2> QED
    BY <2>1, <2>3, <2>4 DEF StreamsInv
<1> QED
  BY <1>1, ReadKeeps, EndOfBodyKeeps, HandleScannedKeeps, StopScannedKeeps, ReceiveKeeps,
     ExpireKeeps, SendExpiredKeeps, HandOverKeeps, GoneAtOnceKeeps, HandStopKeeps,
     LoopHandleKeeps, LoopEndKeeps, FinishKeeps, WholeKeeps DEF StreamsNext

\* An answer in blocks has been closed when its handler has returned, unless the
\* reader goes on.
Shut == h.done => waiter = "returned" /\ (billed.early \/ Closed(out))

\* No line closes it.
LEMMA LineShut ==
    ASSUME StreamsInv, reader = "got", NEW r, r = HandleData(h, line), Apply(r)
    PROVE  h'.done = h.done
<1>1. StreamsTypes /\ Machinery /\ InOrder
  BY DEF StreamsInv
<1>2. req.kind = "stream" /\ line \in Lines(req.p)
  BY <1>1 DEF Machinery
<1>3. LineEffect(r)
  BY <1>1, <1>2, LineHas
<1> QED
  BY <1>3 DEF Apply, LineEffect

\* Every step leaves it closed, the handler's return among them.
LEMMA ShutKept ==
    ASSUME StreamsInv, Shut, [StreamsNext]_streamsVars
    PROVE  Shut'
<1>1. StreamsTypes /\ Machinery /\ InOrder
  BY DEF StreamsInv
<1>2. ASSUME UNCHANGED <<h, out, billed>>, waiter = "returned" => waiter' = "returned" PROVE Shut'
  BY <1>2 DEF Shut, Closed, Ascending
<1>3. CASE \/ UNCHANGED streamsVars \/ Read \/ EndOfBody \/ StopScanned \/ Receive \/ Expire
           \/ SendExpired \/ GoneAtOnce \/ LoopEnd
  <2>1. CASE UNCHANGED streamsVars \/ Read \/ EndOfBody \/ StopScanned
    BY <1>2, <2>1 DEF streamsVars, Read, EndOfBody, StopScanned
  <2>2. CASE Receive \/ Expire \/ SendExpired \/ GoneAtOnce
    BY <1>2, <2>2 DEF Receive, Expire, SendExpired, GoneAtOnce
  <2>3. CASE LoopEnd
    <3>1. waiter = "select"
      BY <1>1, <2>3 DEF LoopEnd, Machinery
    <3> QED
      BY <1>2, <2>3, <3>1 DEF LoopEnd
  <2> QED
    BY <1>3, <2>1, <2>2, <2>3
<1>4. CASE HandleScanned \/ HandOver \/ LoopHandle
  <2>1. h'.done = h.done /\ reader = "got" /\ billed' = billed
    BY <1>4, LineShut DEF HandleScanned, HandOver, LoopHandle
  <2>2. waiter = "returned" => billed.early /\ waiter' = "returned"
    BY <1>1, <1>4, <2>1 DEF Machinery, HandleScanned, HandOver, LoopHandle
  <2> QED
    BY <2>1, <2>2 DEF Shut
<1>5. CASE HandStop
  BY <1>5 DEF HandStop, Shut
<1>6. CASE Finish
  <2> DEFINE r == StreamEnd(h)
  <2>1. /\ waiter = "final" /\ waiter' = "returned" /\ h' = r.h /\ out' = out \o r.out
    BY <1>6 DEF Finish, Return, Apply
  <2>2. ~h.done /\ out \in Seq(Chunks) /\ BlocksKept(out, h)
    BY <1>1, <2>1 DEF Shut, StreamsTypes, InOrder, HandlerState
  <2>3. EndEffect(r)
    <3>1. AtEnd
      BY <1>1, <2>1 DEF AtEnd, StreamsInv, Machinery
    <3> QED
      BY <3>1, EndHas
  <2> HIDE DEF r
  <2>4. CASE req.p \in Chats
    <3>1. Closed(out')
      BY <2>1, <2>2, <2>3, <2>4 DEF EndEffect
    <3> QED
      BY <2>1, <3>1 DEF Shut, Closed, Ascending
  <2>5. CASE req.p \notin Chats
    BY <2>1, <2>2, <2>3, <2>5 DEF EndEffect, Shut
  <2> QED
    BY <2>4, <2>5
<1>7. CASE Whole
  <2>1. PICK b \in Bodies, g \in BOOLEAN : Return(DoResponse(b, g))
    BY <1>7 DEF Whole
  <2>2. req.kind # "stream" /\ waiter = "select"
    BY <1>7 DEF Whole
  <2>3. WholeEffect(DoResponse(b, g))
    BY <1>1, <2>2, WholeHas DEF StreamsInv
  <2>4. h' = h
    BY <2>1, <2>3 DEF Return, Apply, WholeEffect
  <2> QED
    BY <2>2, <2>4 DEF Shut
<1> QED
  BY <1>3, <1>4, <1>5, <1>6, <1>7 DEF StreamsNext

\* The invariant of a streamed answer: the reader and its handler agree where they
\* are, tags and blocks are in order, an answer in blocks is closed once, and the texts
\* written are among those counted and those generated.
THEOREM StreamsInvariant == StreamsSpec => [](StreamsInv /\ Shut)
<1>1. StreamsInit => StreamsInv /\ Shut
  <2>1. StreamsInit => ~h.done
    BY DEF StreamsInit, Locals
  <2> QED
    BY <2>1, StreamsStart DEF Shut
<1>2. StreamsInv /\ Shut /\ [StreamsNext]_streamsVars => (StreamsInv /\ Shut)'
  BY StreamsStep, ShutKept
<1> QED
  BY <1>1, <1>2, PTL DEF StreamsSpec

\* A set whose members are all the same has one at most.
LEMMA OneAtMost ==
    ASSUME NEW S, \A m, n \in S : m = n
    PROVE  Cardinality(S) <= 1
<1>1. CASE S = {}
  BY <1>1, FS_EmptySet
<1>2. CASE S # {}
  <2>1. PICK m : m \in S
    BY <1>2
  <2>2. S = {m}
    BY <2>1
  <2>3. Cardinality({m}) = 1
    BY FS_Singleton
  <2> QED
    BY <2>2, <2>3
<1> QED
  BY <1>1, <1>2

\* The marks are in order, from the invariant.
LEMMA InvariantMarks ==
    ASSUME StreamsInv, Shut
    PROVE  MarksInOrder
<1>1. StreamsTypes /\ InOrder /\ Over
  BY DEF StreamsInv
<1>2. DOMAIN out = 1..Len(out) /\ Len(out) \in Nat
  BY <1>1 DEF StreamsTypes
<1>3. \A t : Places(t) = {n \in 1..Len(out) : out[n].t = t}
  BY <1>2 DEF Places
<1>4. EndsOnce
  <2> SUFFICES ASSUME waiter = "returned", ~billed.err, ~billed.early, req.client = "openai",
                      req.kind # "whole"
               PROVE  Places("[DONE]") = {Len(out)}
    BY DEF EndsOnce
  <2>1. DoneLast(out)
    BY <1>1 DEF Over
  <2>2. Places("[DONE]") = {n \in 1..Len(out) : out[n].t = "[DONE]"}
    BY <1>3
  <2>3. Len(out) > 0 /\ \A n \in 1..Len(out) : out[n].t = "[DONE]" <=> n = Len(out)
    BY <2>1 DEF DoneLast
  <2>4. Len(out) \in 1..Len(out)
    <3>1. Len(out) > 0 /\ Len(out) \in Nat
      BY <1>2, <2>3
    <3> QED
      BY <3>1
  <2>5. \A n : n \in Places("[DONE]") <=> n = Len(out)
    BY <2>2, <2>3, <2>4
  <2> QED
    BY <2>5
<1>5. ThinkTags
  <2>1. Cardinality(Places("<think>")) <= 1 /\ Cardinality(Places("</think>")) <= 1
    <3>1. ASSUME NEW t \in Tags PROVE Cardinality(Places(t)) <= 1
      <4>1. \A m, n \in Places(t) : m = n
        BY <1>1, <1>3, <3>1 DEF InOrder, TagsKept, OneOf, Tags
      <4> QED
        BY <4>1, OneAtMost
    <3> QED
      BY <3>1 DEF Tags
  <2>2. ASSUME NEW n \in Places("text"), NEW m \in Places("<think>"), n > m
        PROVE  \E c \in Places("</think>") : m < c /\ c < n
    <3>1. /\ m \in 1..Len(out) /\ n \in 1..Len(out) /\ m < n
          /\ out[m].t = "<think>" /\ out[n].t = "text"
      BY <1>2, <1>3, <2>2
    <3>2. EndsBetween(out, m, n)
      BY <1>1, <3>1 DEF InOrder, TagsKept
    <3> QED
      BY <1>3, <3>2 DEF EndsBetween
  <2> QED
    BY <2>1, <2>2 DEF ThinkTags
<1>6. BlocksHold
  <2> SUFFICES ASSUME NEW n \in Places("block_delta")
               PROVE  \E m \in Places("block_start") :
                        /\ m < n
                        /\ out[m].i = out[n].i /\ out[m].k = out[n].k
                        /\ \A c \in Places("block_start") \cup Places("block_stop") : c <= m \/ c > n
    BY DEF BlocksHold
  <2>1. n \in 1..Len(out) /\ out[n].t = "block_delta"
    BY <1>3
  <2>2. InItsBlock(out, n)
    BY <1>1, <2>1 DEF InOrder, BlocksKept, DeltasHold
  <2>3. PICK m \in 1..Len(out) :
          /\ m < n /\ out[m].t = "block_start" /\ out[m].i = out[n].i /\ out[m].k = out[n].k
          /\ \A c \in 1..Len(out) : out[c].t \in Bounds => c <= m \/ c > n
    BY <2>2 DEF InItsBlock
  <2>4. m \in Places("block_start")
    BY <1>3, <2>3
  <2>5. \A c \in Places("block_start") \cup Places("block_stop") :
          c \in 1..Len(out) /\ out[c].t \in Bounds
    BY <1>3 DEF Bounds
  <2> QED
    BY <2>3, <2>4, <2>5
<1>7. BlocksMoveOn
  <2> SUFFICES ASSUME ~billed.early PROVE BlocksMoveOn
    BY DEF BlocksMoveOn
  <2>1. Closed(out)
    <3>1. h.done => Closed(out)
      BY DEF Shut
    <3>2. ~h.done => Closed(out)
      BY <1>1, MarkedClosed DEF InOrder, BlocksKept
    <3> QED
      BY <3>1, <3>2
  <2>2. \A n \in BlockPlaces : n \in 1..Len(out) /\ out[n].t \in BlockMarks
    BY <1>3 DEF BlockPlaces, BlockMarks
  <2>3. \A m, n \in BlockPlaces :
          m < n => out[m].i <= out[n].i /\ (out[m].t = "block_stop" => out[m].i < out[n].i)
    BY <2>1, <2>2 DEF Closed, Ascending
  <2>4. ASSUME NEW n \in Places("message_stop")
        PROVE  /\ n = Len(out) /\ n - 1 \in Places("message_delta")
               /\ n - 2 \in Places("block_stop")
    <3>1. n \in 1..Len(out) /\ out[n].t = "message_stop"
      BY <1>3
    <3>2. n = Len(out) /\ n > 2 /\ out[n - 1].t = "message_delta" /\ out[n - 2].t = "block_stop"
      BY <2>1, <3>1 DEF Closed
    <3>3. n - 1 \in 1..Len(out) /\ n - 2 \in 1..Len(out)
      BY <1>2, <3>1, <3>2
    <3> QED
      BY <1>3, <3>2, <3>3
  <2> QED
    BY <2>3, <2>4 DEF BlocksMoveOn
<1> QED
  BY <1>4, <1>5, <1>6, <1>7 DEF MarksInOrder

\* The marks in what a client is sent are in order, for every request, every order of
\* lines and every moment a stream may stop at: [DONE] once and last, thinking in one
\* pair of tags before the content that follows it, every delta in the block that is
\* open, no block taken up again that was closed, and nothing behind message_stop.
THEOREM AnswersAreMarked == StreamsSpec => []MarksInOrder
<1>1. StreamsInv /\ Shut => MarksInOrder
  BY InvariantMarks
<1> QED
  BY <1>1, StreamsInvariant, PTL

\* The texts of the two formats, counted together.
LEMMA TextsAreDelivered ==
    ASSUME out \in Seq(Chunks)
    PROVE  Texts(out) = Cardinality(Places("text"))
                          + Cardinality({n \in Places("block_delta") : out[n].k = "text"})
<1> DEFINE S == Places("text")
           T == {n \in Places("block_delta") : out[n].k = "text"}
<1>1. DOMAIN out = 1..Len(out) /\ IsFiniteSet(1..Len(out))
  BY FS_Interval
<1>2. TextsOf(out) = S \cup T
  BY <1>1 DEF TextsOf, IsText, Places
<1>3. S \cap T = {}
  BY DEF Places
<1>4. IsFiniteSet(S) /\ IsFiniteSet(T)
  <2>1. S \in SUBSET (1..Len(out)) /\ T \in SUBSET (1..Len(out))
    BY <1>1 DEF Places
  <2> QED
    BY <1>1, <2>1, FS_Subset
<1> HIDE DEF S, T
<1>5. Cardinality(S \cup T) = Cardinality(S) + Cardinality(T) - Cardinality(S \cap T)
  BY <1>4, FS_Union
<1>6. Cardinality(S \cap T) = 0 /\ Cardinality(S) \in Nat /\ Cardinality(T) \in Nat
  BY <1>3, <1>4, FS_EmptySet, FS_CardinalityType
<1>7. Texts(out) = Cardinality(S) + Cardinality(T)
  BY <1>2, <1>5, <1>6 DEF Texts
<1> QED
  BY <1>7 DEF S, T

\* The text a streaming client has been sent is billed, for every request and every
\* order of lines: by the usage the upstream reported, or by what the handler counted.
THEOREM DeliveriesAreBilled == StreamsSpec => []DeliveredIsBilled
<1>1. ASSUME StreamsInv PROVE DeliveredIsBilled
  <2>1. BillCovers /\ out \in Seq(Chunks)
    BY <1>1 DEF StreamsInv, StreamsTypes
  <2>2. Texts(out) = Cardinality(Places("text"))
                       + Cardinality({n \in Places("block_delta") : out[n].k = "text"})
    BY <2>1, TextsAreDelivered
  <2> QED
    BY <2>1, <2>2 DEF BillCovers, DeliveredIsBilled
<1> QED
  BY <1>1, StreamsInvariant, PTL
=============================================================================
