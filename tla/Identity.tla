------------------------------ MODULE Identity ------------------------------
(* Who a visitor of a Veloera server is: the sessions of two browsers, the     *)
(* rows of the table `users` with the external identities they hold, mailed    *)
(* codes (common/verification.go), and the first set-up.                       *)
(*                                                                             *)
(* A row may hold one person at each provider, and a mail address: "this" is   *)
(* the one whose codes are followed.  A handler takes one step per query of    *)
(* the table: what it has checked may be otherwise when it writes, and what it *)
(* writes is often the whole of a row that it has read.                        *)
EXTENDS Naturals, FiniteSets

CONSTANTS Browsers, Nobody,
          Providers,        \* those enabled, of github, oidc, linuxdo, wechat, telegram
          People,           \* persons at each provider, numbered
          MaxUsers,         \* rows the table has room for
          Names,            \* user names that are asked for
          Engines,          \* values of "the database is SQLite"
          Tables,           \* what the table users may hold at the start
          MaxEvents         \* bound on requests, and on restarts, together

Users == 1..MaxUsers
WithState == {"github", "oidc", "linuxdo"}

Mails == {"none", "this", "that"}
UserNames == [of : Names \cup Providers \cup {"", "root"}, n : Nat]

(* A row of the table users: 0 is no person.                                   *)
RowType == [there : {"none", "live", "deleted"}, name : UserNames, ext : [Providers -> Nat],
            mail : Mails, root : BOOLEAN]

ASSUME IdentityAssumption ==
  /\ Providers \subseteq WithState \cup {"wechat", "telegram"}
  /\ People \in [Providers -> SUBSET (Nat \ {0})]
  /\ Nobody \notin Users
  /\ MaxUsers \in Nat \ {0} /\ MaxEvents \in Nat
  /\ Engines \subseteq BOOLEAN
  /\ Names # {}

(* Rows are numbered as they come, and what one of them is no other is.        *)
ASSUME TablesAssumption ==
  \A t \in Tables :
    /\ t \in [Users -> RowType]
    /\ \E n \in 0..MaxUsers : {u \in Users : t[u].there # "none"} = 1..n
    /\ \A u \in Users : t[u].root => t[u].there = "live"
    /\ \A u, v \in Users : t[u].there # "none" /\ t[v].there # "none" /\ u # v =>
         /\ ~(t[u].root /\ t[v].root) /\ t[u].name # t[v].name
         /\ \A p \in Providers : t[u].ext[p] = t[v].ext[p] => t[u].ext[p] = 0

VARIABLES row,       \* table users
          session,   \* the user a browser's cookie names
          state,     \* browsers whose cookie has an oauth_state
          st,        \* what the request of each browser has come to
          code,      \* verificationMap: the code of a purpose, 0 if there is none
          sent,      \* codes in somebody's mailbox, by purpose
          setup,     \* constant.Setup
          record,    \* is there a row in the table setups?
          sqlite,    \* the database says "UNIQUE constraint failed"
          events,    \* requests and restarts so far
          spent,     \* history: reset codes that changed a password
          twice,     \* history: ... and changed it again
          contested, \* history: what two requests had checked at once
          restored   \* history: identities that a row lost, and a copy of it brought back

vars == <<row, session, state, st, code, sent, setup, record, sqlite, events, spent,
          twice, contested, restored>>

Purposes == {"verify", "reset"}      \* common.EmailVerificationPurpose, PasswordResetPurpose
NoName == [of |-> "", n |-> 0]
NoRow == [there |-> "none", name |-> NoName, ext |-> [p \in Providers |-> 0],
          mail |-> "none", root |-> FALSE]
Idle == [pc |-> "idle", for |-> "", who |-> 0, bind |-> FALSE, name |-> NoName, base |-> 0,
         try |-> 0, mail |-> "none", k |-> 0, user |-> 0, copy |-> NoRow]

Live(u) == row[u].there = "live"
Rows == {u \in Users : row[u].there # "none"}
MaxUserId == Cardinality(Rows)
Used(name) == \E u \in Rows : row[u].name = name
Holders(p, x) == {u \in Rows : row[u].ext[p] = x}
WithMail == {u \in Rows : row[u].mail = "this"}
RootUserExists == \E u \in Users : Live(u) /\ row[u].root

Named(n) == [of |-> n, n |-> 0]

Init ==
  /\ row \in Tables
  /\ setup = RootUserExists /\ record = RootUserExists
  /\ session \in [Browsers -> {u \in Users : Live(u)} \cup {Nobody}]
  /\ state = {}
  /\ st = [b \in Browsers |-> Idle]
  /\ code = [p \in Purposes |-> 0]
  /\ sent = [p \in Purposes |-> {}]
  /\ sqlite \in Engines
  /\ events = 0
  /\ spent = {} /\ twice = {} /\ contested = {} /\ restored = {}

-----------------------------------------------------------------------------
(* What the actions are made of.                                               *)

At(b, pc) == st[b].pc = pc
Become(b, new) == st' = [st EXCEPT ![b] = new]
Goto(b, pc) == Become(b, [st[b] EXCEPT !.pc = pc])
Event == events < MaxEvents /\ events' = events + 1
Job(b) == At(b, "idle") /\ Event

Codes == <<code, sent, spent, twice>>
System == <<setup, record, sqlite>>
Browsing == <<session, state>>

(* A request has checked something, and will act on it.                        *)
Checked == {"bind", "update", "insert", "root", "reset", "forget"}
Matter(r) == <<r.for, r.who>>
Acts(r) == r.pc \in Checked /\ r.for # ""
Overlap(now) == {Matter(now[b]) : b \in {c \in Browsers : Acts(now[c]) /\
                   \E d \in Browsers \ {c} : Acts(now[d]) /\ Matter(now[d]) = Matter(now[c])}}
Watch == contested' = contested \cup Overlap(st')

-----------------------------------------------------------------------------
(* Users with an identity at a provider.  Most checks count deleted rows, and  *)
(* hold an identity that two rows have for one that nobody has.                *)

Carrying(p, x) == {u \in Holders(p, x) : p = "oidc" => Live(u)}

IsGitHubIdAlreadyTaken(x) == Cardinality(Carrying("github", x)) = 1
IsWeChatIdAlreadyTaken(x) == Cardinality(Carrying("wechat", x)) = 1
IsTelegramIdAlreadyTaken(x) == Cardinality(Carrying("telegram", x)) = 1
IsOidcIdAlreadyTaken(x) == Cardinality(Carrying("oidc", x)) = 1
IsLinuxDOIdAlreadyTaken(x) == Carrying("linuxdo", x) # {}

(* Mutant: an identity is bound whoever has it.                                *)
NeverTaken(p, x) == FALSE

Taken(p, x) == \/ p = "github" /\ IsGitHubIdAlreadyTaken(x)
               \/ p = "wechat" /\ IsWeChatIdAlreadyTaken(x)
               \/ p = "telegram" /\ IsTelegramIdAlreadyTaken(x)
               \/ p = "oidc" /\ IsOidcIdAlreadyTaken(x)
               \/ p = "linuxdo" /\ IsLinuxDOIdAlreadyTaken(x)

GenerateOAuthCode(b) ==
  /\ b \notin state
  /\ state' = state \cup {b}
  /\ UNCHANGED <<row, session, st, Codes, System, events, contested, restored>>

(* The provider answers with a person, or with an error that ends it all.      *)
Callback(b, p, bind) ==
  /\ Job(b) /\ p \in Providers
  /\ p \in WithState => b \in state
  /\ \/ \E x \in People[p] :
          Become(b, [Idle EXCEPT !.pc = "check", !.for = p, !.who = x, !.bind = bind])
     \/ UNCHANGED st
  /\ Watch
  /\ UNCHANGED <<row, Browsing, Codes, System, restored>>

GitHubOAuth(b) == Callback(b, "github", FALSE) /\ session[b] = Nobody
GitHubBind(b) == Callback(b, "github", TRUE) /\ session[b] # Nobody
OidcAuth(b) == Callback(b, "oidc", FALSE) /\ session[b] = Nobody
OidcBind(b) == Callback(b, "oidc", TRUE) /\ session[b] # Nobody
LinuxdoOAuth(b) == Callback(b, "linuxdo", FALSE) /\ session[b] = Nobody
LinuxDoBind(b) == Callback(b, "linuxdo", TRUE) /\ session[b] # Nobody
WeChatAuth(b) == Callback(b, "wechat", FALSE)
WeChatBind(b) == Callback(b, "wechat", TRUE) /\ session[b] # Nobody
TelegramLogin(b) == Callback(b, "telegram", FALSE)
TelegramBind(b) == Callback(b, "telegram", TRUE) /\ session[b] # Nobody

(* The user name of the i-th attempt: the provider's and a number, except that *)
(* OIDC may prefer a name, and counts from one less.                           *)
Attempt(p, wish, base, i) ==
  IF p # "oidc" THEN [of |-> p, n |-> base + i]
  ELSE IF i = 0 /\ wish # NoName THEN wish ELSE [of |-> p, n |-> base + i - 1]

(* What the provider says of its person, besides who it is.                    *)
Wishes(p) == {NoName} \cup (IF p = "oidc" THEN {Named(n) : n \in Names} ELSE {})
Addresses(p) == CASE p = "github" -> Mails
                  [] p = "oidc" -> Mails \ {"none"}
                  [] OTHER -> {"none"}

(* Telegram only looks for a user; the others register who is not there.       *)
Check(b) ==
  LET p == st[b].for  x == st[b].who IN
  /\ At(b, "check")
  /\ IF st[b].bind
     THEN IF Taken(p, x) THEN Become(b, Idle) ELSE Goto(b, "bind")
     ELSE IF p = "telegram" \/ Taken(p, x) THEN Goto(b, "fill")
     ELSE \E wish \in Wishes(p), mail \in Addresses(p) :
            Become(b, [st[b] EXCEPT !.pc = "insert", !.name = wish, !.mail = mail,
                                    !.base = MaxUserId + 1])
  /\ Watch
  /\ UNCHANGED <<row, Browsing, Codes, System, events, restored>>

SetupLogin(b, u) == session' = [session EXCEPT ![b] = u]

(* The first live row with the identity, if there is one.                      *)
Fill(b) ==
  LET found == {u \in Holders(st[b].for, st[b].who) : Live(u)} IN
  /\ At(b, "fill")
  /\ IF found = {} THEN UNCHANGED session
     ELSE SetupLogin(b, CHOOSE u \in found : \A v \in found : u <= v)
  /\ Become(b, Idle) /\ Watch
  /\ UNCHANGED <<row, state, Codes, System, events, restored>>

NewRow(r) == /\ MaxUserId < MaxUsers
             /\ row' = [row EXCEPT ![MaxUserId + 1] = r]

(* A name that is in use costs an attempt, of five, where the error is SQLite's *)
(* and the provider is not WeChat.                                             *)
Insert(b) ==
  LET p == st[b].for
      name == Attempt(p, st[b].name, st[b].base, st[b].try)
  IN /\ At(b, "insert")
     /\ \/ /\ ~Used(name)
           /\ NewRow([NoRow EXCEPT !.there = "live", !.name = name, !.ext[p] = st[b].who,
                                   !.mail = st[b].mail])
           /\ SetupLogin(b, MaxUserId + 1)
           /\ Become(b, Idle)
        \/ /\ Used(name)
           /\ Become(b, IF sqlite /\ p # "wechat" /\ st[b].try < 4
                        THEN [st[b] EXCEPT !.try = @ + 1] ELSE Idle)
           /\ UNCHANGED <<row, session>>
     /\ Watch
     /\ UNCHANGED <<state, Codes, System, events, restored>>

-----------------------------------------------------------------------------
(* Rows that are read, changed in a column or two, and written back.           *)

ReadRow(b, u, pc) == Become(b, [Idle EXCEPT !.pc = pc, !.user = u, !.copy = row[u]])

(* The session's user, with the person or the address that is to be theirs: of *)
(* a deleted user nothing is read, and nobody minds.                           *)
FillUserById(b) ==
  \E u \in Users :
    /\ At(b, "bind") \/ At(b, "mail")
    /\ session[b] = u
    /\ LET p == st[b].for  read == IF Live(u) THEN row[u] ELSE NoRow IN
       Become(b, [st[b] EXCEPT !.pc = "update", !.user = u,
                    !.copy = IF At(b, "bind") THEN [read EXCEPT !.ext[p] = st[b].who]
                             ELSE [read EXCEPT !.mail = st[b].mail]])
    /\ Watch
    /\ UNCHANGED <<row, Browsing, Codes, System, events, restored>>

(* Requests for columns that are not followed here: GenerateAccessToken and    *)
(* GetAffCode do the same as UpdateUserSetting.                                *)
UpdateUserSetting(b) ==
  /\ Job(b)
  /\ \E u \in Users : session[b] = u /\ Live(u) /\ ReadRow(b, u, "update")
  /\ Watch
  /\ UNCHANGED <<row, Browsing, Codes, System, restored>>

ManageUser(b) ==
  /\ Job(b)
  /\ \E root \in Users : session[b] = root /\ row[root].root
  /\ \E u \in Rows : ReadRow(b, u, "update")
  /\ Watch
  /\ UNCHANGED <<row, Browsing, Codes, System, restored>>

CheckIn(b) ==
  /\ Job(b)
  /\ \E u \in Users : session[b] = u /\ Live(u) /\ ReadRow(b, u, "save")
  /\ Watch
  /\ UNCHANGED <<row, Browsing, Codes, System, restored>>

(* What a row has after a write that it did not have before, and that was not  *)
(* asked for.                                                                  *)
Identities == UNION {{p} \X People[p] : p \in Providers}
Regained(b) == {m \in Identities \ {Matter(st[b])} :
                  st[b].user \in Carrying(m[1], m[2])' \ Carrying(m[1], m[2])}

(* Of a copy gorm's Updates writes the columns that are not empty, over a live *)
(* row; and its Save every one, over a row that was deleted too.               *)
Updates(old, copy) ==
  [old EXCEPT !.there = IF copy.there = "deleted" THEN "deleted" ELSE @,
              !.mail = IF copy.mail = "none" THEN @ ELSE copy.mail,
              !.ext = [p \in Providers |-> IF copy.ext[p] = 0 THEN old.ext[p] ELSE copy.ext[p]]]

Update(b) ==
  LET u == st[b].user IN
  /\ At(b, "update")
  /\ row' = IF Live(u) THEN [row EXCEPT ![u] = Updates(@, st[b].copy)] ELSE row
  /\ restored' = restored \cup Regained(b)
  /\ Become(b, Idle) /\ Watch
  /\ UNCHANGED <<Browsing, Codes, System, events>>

(* A check-in's transaction begins by looking whether the user is there, and   *)
(* ends if not.  Only of SQLite nobody deletes the user between that and Save. *)
Save(b) ==
  LET u == st[b].user IN
  /\ At(b, "save")
  /\ \/ /\ sqlite => Live(u)
        /\ row' = [row EXCEPT ![u] = st[b].copy]
        /\ restored' = restored \cup Regained(b)
     \/ ~Live(u) /\ UNCHANGED <<row, restored>>
  /\ Become(b, Idle) /\ Watch
  /\ UNCHANGED <<Browsing, Codes, System, events>>

-----------------------------------------------------------------------------
(* Sessions.                                                                   *)

Login(b) ==
  /\ Job(b)
  /\ \E u \in Users : Live(u) /\ SetupLogin(b, u)
  /\ UNCHANGED <<row, state, st, Codes, System, contested, restored>>

Logout(b) ==
  /\ At(b, "idle") /\ session[b] # Nobody
  /\ session' = [session EXCEPT ![b] = Nobody]
  /\ state' = state \ {b}
  /\ UNCHANGED <<row, st, Codes, System, events, contested, restored>>

(* A deleted user's other sessions go on.                                      *)
DeleteSelf(b) ==
  LET u == session[b] IN
  /\ Job(b)
  /\ u # Nobody /\ Live(u) /\ ~row[u].root
  /\ row' = [row EXCEPT ![u].there = "deleted"]
  /\ UNCHANGED <<Browsing, st, Codes, System, contested, restored>>

-----------------------------------------------------------------------------
(* Codes by mail.                                                              *)

IsEmailAlreadyTaken == Cardinality(WithMail) = 1
NextCode == Cardinality(UNION {sent[p] : p \in Purposes}) + 1

SendCode(b, purpose) ==
  /\ code' = [code EXCEPT ![purpose] = NextCode]
  /\ sent' = [sent EXCEPT ![purpose] = @ \cup {NextCode}]
  /\ UNCHANGED <<row, Browsing, st, System, spent, twice, contested, restored>>

SendEmailVerification(b) == Job(b) /\ ~IsEmailAlreadyTaken /\ SendCode(b, "verify")
SendPasswordResetEmail(b) == Job(b) /\ IsEmailAlreadyTaken /\ SendCode(b, "reset")

(* The ten minutes of a code are over.                                         *)
CodeExpires(purpose) ==
  /\ code[purpose] # 0
  /\ code' = [code EXCEPT ![purpose] = 0]
  /\ UNCHANGED <<row, Browsing, st, sent, System, events, spent, twice, contested, restored>>

VerifyCodeWithKey(purpose, k) == k # 0 /\ k = code[purpose]

(* "that" stands for every other address, and its codes.                       *)
EmailBind(b) ==
  /\ Job(b)
  /\ session[b] # Nobody
  /\ \E mail \in {"this", "that"} :
       /\ mail = "this" => \E k \in sent["verify"] : VerifyCodeWithKey("verify", k)
       /\ Become(b, [Idle EXCEPT !.pc = "mail", !.mail = mail])
  /\ Watch
  /\ UNCHANGED <<row, Browsing, Codes, System, restored>>

CheckUserExistOrDeleted(name, mail) == Used(name) \/ (mail = "this" /\ WithMail # {})

Register(b) ==
  /\ Job(b)
  /\ \E n \in Names, mail \in Mails :
       /\ mail = "this" => \E k \in sent["verify"] : VerifyCodeWithKey("verify", k)
       /\ ~CheckUserExistOrDeleted(Named(n), mail)
       /\ Become(b, [Idle EXCEPT !.pc = "register", !.name = Named(n), !.mail = mail])
  /\ Watch
  /\ UNCHANGED <<row, Browsing, Codes, System, restored>>

InsertUser(b) ==
  /\ At(b, "register")
  /\ \/ Used(st[b].name) /\ UNCHANGED row
     \/ /\ ~Used(st[b].name)
        /\ NewRow([NoRow EXCEPT !.there = "live", !.name = st[b].name, !.mail = st[b].mail])
  /\ Become(b, Idle) /\ Watch
  /\ UNCHANGED <<Browsing, Codes, System, events, restored>>

ResetPassword(b) ==
  /\ Job(b)
  /\ \E k \in sent["reset"] :
       /\ VerifyCodeWithKey("reset", k)
       /\ Become(b, [Idle EXCEPT !.pc = "reset", !.for = "reset", !.k = k])
  /\ Watch
  /\ UNCHANGED <<row, Browsing, Codes, System, restored>>

(* Every live row with the address has the new password now.                   *)
ResetUserPasswordByEmail(b) ==
  LET k == st[b].k IN
  /\ At(b, "reset")
  /\ spent' = spent \cup {k}
  /\ twice' = IF k \in spent THEN twice \cup {k} ELSE twice
  /\ Goto(b, "forget") /\ Watch
  /\ UNCHANGED <<row, Browsing, code, sent, System, events, restored>>

(* Mutant: the code is left where it was.                                      *)
KeepKey(b) ==
  /\ At(b, "forget")
  /\ Become(b, Idle) /\ Watch
  /\ UNCHANGED <<row, Browsing, Codes, System, events, restored>>

DeleteKey(b) ==
  /\ At(b, "forget")
  /\ code' = [code EXCEPT !["reset"] = 0]
  /\ Become(b, Idle) /\ Watch
  /\ UNCHANGED <<row, Browsing, sent, spent, twice, System, events, restored>>

-----------------------------------------------------------------------------
(* The first set-up.                                                           *)

(* Mutant: whether there is a root user is not asked.                          *)
SetupAgain(b) ==
  /\ Job(b) /\ ~setup
  /\ \E n \in Names : Become(b, [Idle EXCEPT !.pc = "root", !.for = "root", !.name = Named(n)])
  /\ Watch
  /\ UNCHANGED <<row, Browsing, Codes, System, restored>>

PostSetup(b) ==
  /\ Job(b) /\ ~setup
  /\ \E n \in Names :
       Become(b, [Idle EXCEPT !.pc = IF RootUserExists THEN "options" ELSE "root",
                              !.for = "root", !.name = Named(n)])
  /\ Watch
  /\ UNCHANGED <<row, Browsing, Codes, System, restored>>

CreateRoot(b) ==
  /\ At(b, "root")
  /\ \/ Used(st[b].name) /\ Become(b, Idle) /\ UNCHANGED row
     \/ /\ ~Used(st[b].name)
        /\ NewRow([NoRow EXCEPT !.there = "live", !.root = TRUE, !.name = st[b].name])
        /\ Goto(b, "options")
  /\ Watch
  /\ UNCHANGED <<Browsing, Codes, System, events, restored>>

(* Options are saved, constant.Setup is set, and recorded: or one fails.       *)
FinishSetup(b) ==
  /\ At(b, "options")
  /\ Become(b, Idle)
  /\ \/ UNCHANGED <<setup, record>>
     \/ setup' = TRUE /\ record' \in {record, TRUE}
  /\ Watch
  /\ UNCHANGED <<row, Browsing, Codes, sqlite, events, restored>>

(* CheckSetup at the start of the server; requests and codes are gone.         *)
Restart ==
  /\ Event
  /\ st' = [b \in Browsers |-> Idle]
  /\ code' = [p \in Purposes |-> 0]
  /\ setup' = (record \/ RootUserExists)
  /\ record' = setup'
  /\ UNCHANGED <<row, Browsing, sent, sqlite, spent, twice, contested, restored>>

-----------------------------------------------------------------------------

OAuth(b) ==
  \/ GenerateOAuthCode(b) \/ GitHubOAuth(b) \/ GitHubBind(b) \/ OidcAuth(b) \/ OidcBind(b)
  \/ LinuxdoOAuth(b) \/ LinuxDoBind(b) \/ WeChatAuth(b) \/ WeChatBind(b)
  \/ TelegramLogin(b) \/ TelegramBind(b) \/ Check(b) \/ Fill(b) \/ Insert(b)
WriteBack(b) ==
  \/ FillUserById(b) \/ UpdateUserSetting(b) \/ ManageUser(b) \/ CheckIn(b)
  \/ Update(b) \/ Save(b)
Account(b) == Login(b) \/ Logout(b) \/ DeleteSelf(b) \/ Register(b) \/ InsertUser(b)
Mail(b) ==
  \/ SendEmailVerification(b) \/ SendPasswordResetEmail(b) \/ EmailBind(b)
  \/ ResetPassword(b) \/ ResetUserPasswordByEmail(b) \/ DeleteKey(b)
SetUp(b) == PostSetup(b) \/ CreateRoot(b) \/ FinishSetup(b)

Next ==
  \/ \E b \in Browsers : OAuth(b) \/ WriteBack(b) \/ Account(b) \/ Mail(b) \/ SetUp(b)
  \/ \E p \in Purposes : CodeExpires(p)
  \/ Restart

Spec == Init /\ [][Next]_vars

-----------------------------------------------------------------------------
(* Rows, sessions and codes are of their types, and the rows are numbered in   *)
(* the order of their creation.                                                *)
TypeOK ==
  /\ row \in [Users -> RowType]
  /\ Rows = 1..MaxUserId
  /\ session \in [Browsers -> Users \cup {Nobody}]
  /\ code \in [Purposes -> Nat]

(* A person at a provider has one account, and nobody else's session becomes   *)
(* theirs: no two live rows hold one identity, whatever was deleted, bound     *)
(* anew or retried meanwhile.  Excepted are an identity that two callbacks had *)
(* both found free, and one that a row had given up, or was deleted with, and  *)
(* got back as an older copy of the row was written over it.                   *)
OneAccountPerPerson ==
  \A p \in Providers : \A x \in People[p] :
    <<p, x>> \notin contested \cup restored => Cardinality({u \in Holders(p, x) : Live(u)}) <= 1

(* There is one root user, whatever crashes interrupt the set-up, unless two   *)
(* set-ups had both found none.                                                *)
OneRoot == <<"root", 0>> \notin contested => Cardinality({u \in Rows : row[u].root}) <= 1

(* A link to reset a password changes it once, unless it was opened twice at   *)
(* the same time.                                                              *)
ResetOnce == <<"reset", 0>> \notin contested => twice = {}
=============================================================================
