----------------------------- MODULE RelayProofs -----------------------------
(***************************************************************************)
(* What is proved of Realtime, and then of Limits. The two share no state  *)
(* and no definition: each part speaks of its own module alone.            *)
(***************************************************************************)
EXTENDS Limits, Realtime, FiniteSetTheorems, TLAPS

(***************************************************************************)
(* Realtime: the types.                                                    *)
(***************************************************************************)
Billers == {"target", "handler"}
BillPlaces == {"none", "sum", "store", "quota", "user", "token", "paid", "failed"}
DialStages == {"check", "takeToken", "takeUser", "dial"}
SessionStages == {"open", "usage", "local", "post"}
ImageStages == {"make", "image", "payImage", "tokenImage"}
Stages == DialStages \cup SessionStages \cup ImageStages \cup {"served", "failed"}
ReaderPlaces == {"idle", "read", "add", "bill", "error", "errorClose", "ended"}
Bill == [at : BillPlaces, obj : Nat, n : Nat, reg : Nat]
History == [given : Int, counted : Nat, charged : Nat, empty : Nat, delivered : Nat,
            raced : BOOLEAN, failed : BOOLEAN]

SessionTypes ==
    /\ req \in Requests
    /\ user \in Int /\ token \in Int /\ used \in Nat
    /\ stage \in Stages /\ attempt \in Nat /\ pre \in Nat
    /\ returning \in [user : Nat, token : Nat]
    /\ client \in ReaderPlaces /\ target \in ReaderPlaces
    /\ usage \in Nat /\ heap \in Seq(Nat)
    /\ clientReg \in [obj : Nat, n : Nat]
    /\ sum \in Nat
    /\ bill \in [Billers -> Bill]
    /\ answer \in Nat
    /\ seen \in History
    /\ faults \in Nat

\* A bill under way is of usage (0) or of a localUsage there is; the client's
\* reader knows one, and found in it no more than there is.
HeapShape ==
    /\ heap # <<>>
    /\ \A p \in Billers : bill[p].at # "none" => bill[p].obj \in 0..Len(heap)
    /\ clientReg.obj \in 1..Len(heap) /\ clientReg.n <= heap[clientReg.obj]

\* What RequestsAssumption says of the request.
LEMMA RequestType ==
    ASSUME req \in Requests
    PROVE  /\ req.kind \in {"realtime", "image"}
           /\ req.priced \in BOOLEAN /\ req.unlimited \in BOOLEAN /\ req.mangled \in BOOLEAN
           /\ req.reserve \in Nat /\ req.price \in Nat /\ req.quota \in Nat /\ req.remain \in Nat
           /\ req.retries \in Nat /\ req.events \in Nat /\ req.others \in Nat /\ req.faults \in Nat
BY RequestsAssumption

\* A field of a bill is set.
LEMMA AtType ==
    ASSUME bill \in [Billers -> Bill], NEW p \in Billers, NEW at \in BillPlaces, At(p, at)
    PROVE  /\ bill' \in [Billers -> Bill]
           /\ bill'[p].at = at /\ bill'[p].obj = bill[p].obj /\ bill'[p].n = bill[p].n
           /\ bill'[p].reg = bill[p].reg
           /\ \A r \in Billers \ {p} : bill'[r] = bill[r]
BY DEF At, Bill

\* A call begins.
LEMMA CallType ==
    ASSUME bill \in [Billers -> Bill], NEW p \in Billers, NEW obj \in Nat, NEW n \in Nat, Call(p, obj, n)
    PROVE  /\ bill' \in [Billers -> Bill]
           /\ bill'[p].at = "sum" /\ bill'[p].obj = obj /\ bill'[p].n = n
           /\ \A r \in Billers \ {p} : bill'[r] = bill[r]
BY DEF Call, NoBill, Bill, BillPlaces

\* A field of a bill is set, and what is to be paid or stored with it.
LEMMA RegType ==
    ASSUME bill \in [Billers -> Bill], NEW p \in Billers, NEW at \in BillPlaces, NEW n \in Nat,
           bill' = [bill EXCEPT ![p].at = at, ![p].reg = n]
    PROVE  /\ bill' \in [Billers -> Bill]
           /\ bill'[p].at = at /\ bill'[p].obj = bill[p].obj /\ bill'[p].n = bill[p].n
           /\ bill'[p].reg = n
           /\ \A r \in Billers \ {p} : bill'[r] = bill[r]
BY DEF Bill

\* A localUsage is written.
LEMMA HeapSet ==
    ASSUME NEW h \in Seq(Nat), NEW i \in 1..Len(h), NEW v \in Nat
    PROVE  /\ [h EXCEPT ![i] = v] \in Seq(Nat)
           /\ Len([h EXCEPT ![i] = v]) = Len(h) /\ Len(h) \in Nat
           /\ [h EXCEPT ![i] = v][i] = v
           /\ \A j \in 1..Len(h) : j # i => [h EXCEPT ![i] = v][j] = h[j]
           /\ [h EXCEPT ![i] = v] # <<>>
OBVIOUS

\* A new localUsage.
LEMMA HeapAppend ==
    ASSUME NEW h \in Seq(Nat)
    PROVE  /\ Append(h, 0) \in Seq(Nat)
           /\ Len(Append(h, 0)) = Len(h) + 1 /\ Len(h) \in Nat
           /\ Append(h, 0)[Len(h) + 1] = 0
           /\ \A j \in 1..Len(h) : Append(h, 0)[j] = h[j]
           /\ Append(h, 0) # <<>>
OBVIOUS

\* The fields of a history.
LEMMA HistoryFields ==
    ASSUME NEW s \in History
    PROVE  /\ s.given \in Int /\ s.counted \in Nat /\ s.charged \in Nat /\ s.empty \in Nat
           /\ s.delivered \in Nat /\ s.raced \in BOOLEAN /\ s.failed \in BOOLEAN
BY DEF History

\* More is given to the user, or less.
LEMMA SeenGiven ==
    ASSUME NEW s \in History, NEW d \in Int
    PROVE  LET r == [s EXCEPT !.given = @ + d]
           IN  /\ r \in History
               /\ r.given = s.given + d
               /\ r.counted = s.counted /\ r.charged = s.charged /\ r.empty = s.empty
               /\ r.delivered = s.delivered /\ r.raced = s.raced /\ r.failed = s.failed
<1> DEFINE r == [s EXCEPT !.given = @ + d]
<1>1. r \in History
  BY HistoryFields DEF History
<1>2. r.given = s.given + d
  BY DEF History
<1>3. r.counted = s.counted /\ r.charged = s.charged /\ r.empty = s.empty
  BY DEF History
<1>4. r.delivered = s.delivered /\ r.raced = s.raced /\ r.failed = s.failed
  BY DEF History
<1> QED
  BY <1>1, <1>2, <1>3, <1>4

\* More is counted.
LEMMA SeenCounted ==
    ASSUME NEW s \in History, NEW n \in Nat
    PROVE  LET r == [s EXCEPT !.counted = @ + n]
           IN  /\ r \in History
               /\ r.counted = s.counted + n
               /\ r.given = s.given /\ r.charged = s.charged /\ r.empty = s.empty
               /\ r.delivered = s.delivered /\ r.raced = s.raced /\ r.failed = s.failed
<1> DEFINE r == [s EXCEPT !.counted = @ + n]
<1>1. r \in History
  BY HistoryFields DEF History
<1>2. r.counted = s.counted + n
  BY DEF History
<1>3. r.given = s.given /\ r.charged = s.charged /\ r.empty = s.empty
  BY DEF History
<1>4. r.delivered = s.delivered /\ r.raced = s.raced /\ r.failed = s.failed
  BY DEF History
<1> QED
  BY <1>1, <1>2, <1>3, <1>4

\* More is charged.
LEMMA SeenCharged ==
    ASSUME NEW s \in History, NEW n \in Nat
    PROVE  LET r == [s EXCEPT !.charged = @ + n]
           IN  /\ r \in History
               /\ r.charged = s.charged + n
               /\ r.given = s.given /\ r.counted = s.counted /\ r.empty = s.empty
               /\ r.delivered = s.delivered /\ r.raced = s.raced /\ r.failed = s.failed
<1> DEFINE r == [s EXCEPT !.charged = @ + n]
<1>1. r \in History
  BY HistoryFields DEF History
<1>2. r.charged = s.charged + n
  BY DEF History
<1>3. r.given = s.given /\ r.counted = s.counted /\ r.empty = s.empty
  BY DEF History
<1>4. r.delivered = s.delivered /\ r.raced = s.raced /\ r.failed = s.failed
  BY DEF History
<1> QED
  BY <1>1, <1>2, <1>3, <1>4

\* Another charge of nothing.
LEMMA SeenEmpty ==
    ASSUME NEW s \in History
    PROVE  LET r == [s EXCEPT !.empty = @ + 1]
           IN  /\ r \in History
               /\ r.empty = s.empty + 1
               /\ r.given = s.given /\ r.counted = s.counted /\ r.charged = s.charged
               /\ r.delivered = s.delivered /\ r.raced = s.raced /\ r.failed = s.failed
<1> DEFINE r == [s EXCEPT !.empty = @ + 1]
<1>1. r \in History
  BY HistoryFields DEF History
<1>2. r.empty = s.empty + 1
  BY DEF History
<1>3. r.given = s.given /\ r.counted = s.counted /\ r.charged = s.charged
  BY DEF History
<1>4. r.delivered = s.delivered /\ r.raced = s.raced /\ r.failed = s.failed
  BY DEF History
<1> QED
  BY <1>1, <1>2, <1>3, <1>4

\* More is delivered.
LEMMA SeenDelivered ==
    ASSUME NEW s \in History, NEW n \in Nat
    PROVE  LET r == [s EXCEPT !.delivered = @ + n]
           IN  /\ r \in History
               /\ r.delivered = s.delivered + n
               /\ r.given = s.given /\ r.counted = s.counted /\ r.charged = s.charged
               /\ r.empty = s.empty /\ r.raced = s.raced /\ r.failed = s.failed
<1> DEFINE r == [s EXCEPT !.delivered = @ + n]
<1>1. r \in History
  BY HistoryFields DEF History
<1>2. r.delivered = s.delivered + n
  BY DEF History
<1>3. r.given = s.given /\ r.counted = s.counted /\ r.charged = s.charged
  BY DEF History
<1>4. r.empty = s.empty /\ r.raced = s.raced /\ r.failed = s.failed
  BY DEF History
<1> QED
  BY <1>1, <1>2, <1>3, <1>4

\* A race is noted, or none.
LEMMA SeenRaced ==
    ASSUME NEW s \in History, NEW b \in BOOLEAN
    PROVE  LET r == [s EXCEPT !.raced = b]
           IN  /\ r \in History
               /\ r.raced = b
               /\ r.given = s.given /\ r.counted = s.counted /\ r.charged = s.charged
               /\ r.empty = s.empty /\ r.delivered = s.delivered /\ r.failed = s.failed
<1> DEFINE r == [s EXCEPT !.raced = b]
<1>1. r \in History
  BY HistoryFields DEF History
<1>2. r.raced = b
  BY DEF History
<1>3. r.given = s.given /\ r.counted = s.counted /\ r.charged = s.charged
  BY DEF History
<1>4. r.empty = s.empty /\ r.delivered = s.delivered /\ r.failed = s.failed
  BY DEF History
<1> QED
  BY <1>1, <1>2, <1>3, <1>4

\* A charge has failed.
LEMMA SeenFailed ==
    ASSUME NEW s \in History
    PROVE  LET r == [s EXCEPT !.failed = TRUE]
           IN  /\ r \in History
               /\ r.failed = TRUE
               /\ r.given = s.given /\ r.counted = s.counted /\ r.charged = s.charged
               /\ r.empty = s.empty /\ r.delivered = s.delivered /\ r.raced = s.raced
<1> DEFINE r == [s EXCEPT !.failed = TRUE]
<1>1. r \in History
  BY HistoryFields DEF History
<1>2. r.failed = TRUE
  BY DEF History
<1>3. r.given = s.given /\ r.counted = s.counted /\ r.charged = s.charged
  BY DEF History
<1>4. r.empty = s.empty /\ r.delivered = s.delivered /\ r.raced = s.raced
  BY DEF History
<1> QED
  BY <1>1, <1>2, <1>3, <1>4

\* What a call was given is a number, and so is its price.
LEMMA GivenType ==
    ASSUME SessionTypes, HeapShape, NEW p \in Billers, bill[p].at # "none"
    PROVE  /\ Given(p) \in Nat /\ Price(Given(p)) \in Nat /\ Given(p) <= Price(Given(p))
           /\ Given(p) # 0 => Price(Given(p)) = Given(p)
           /\ Given(p) = 0 => Price(Given(p)) = 1
<1>1. bill[p] \in Bill /\ heap \in Seq(Nat) /\ bill[p].obj \in 0..Len(heap)
  BY DEF SessionTypes, HeapShape
<1>2. bill[p].n \in Nat /\ (bill[p].obj # 0 => heap[bill[p].obj] \in Nat)
  BY <1>1 DEF Bill
<1>3. Given(p) \in Nat
  BY <1>2 DEF Given
<1> QED
  BY <1>3 DEF Price

(***************************************************************************)
(* Realtime: what the steps do to the history and to the bills.            *)
(***************************************************************************)
\* What a step adds to the history's numbers.
Adds(given, counted, charged, empty, delivered) ==
    /\ seen' \in History
    /\ seen'.given = seen.given + given
    /\ seen'.counted = seen.counted + counted
    /\ seen'.charged = seen.charged + charged
    /\ seen'.empty = seen.empty + empty
    /\ seen'.delivered = seen.delivered + delivered

\* A bill moves on; what it is of does not change, nor does the other one.
BillMoves(p, at, reg) ==
    /\ bill' \in [Billers -> Bill]
    /\ bill'[p].at = at /\ bill'[p].reg = reg
    /\ bill'[p].obj = bill[p].obj /\ bill'[p].n = bill[p].n
    /\ \A r \in Billers \ {p} : bill'[r] = bill[r]

\* A history that does not change.
LEMMA SeenSame ==
    ASSUME seen \in History, UNCHANGED seen
    PROVE  Adds(0, 0, 0, 0, 0) /\ seen'.raced = seen.raced /\ seen'.failed = seen.failed
BY HistoryFields DEF Adds

\* Where a charge of the quotas leads to.
LEMMA CheckQuotaEffect ==
    ASSUME SessionTypes, HeapShape, NEW p \in Billers, CheckQuota(p)
    PROVE  /\ bill[p].at = "quota" /\ seen'.raced = seen.raced
           /\ \/ /\ req.priced /\ BillMoves(p, "paid", bill[p].reg)
                 /\ Adds(0, 0, 0, 0, 0) /\ seen'.failed = seen.failed /\ faults' = faults
              \/ /\ ~req.priced /\ BillMoves(p, "failed", bill[p].reg)
                 /\ Adds(0, 0, 0, 0, 0) /\ seen'.failed = TRUE /\ faults' \in {faults, faults + 1}
              \/ /\ ~req.priced /\ BillMoves(p, "user", Price(Given(p)))
                 /\ Adds(0, 0, 0, IF Given(p) = 0 THEN 1 ELSE 0, 0)
                 /\ seen'.failed = seen.failed /\ faults' = faults
<1>0. /\ bill \in [Billers -> Bill] /\ seen \in History /\ bill[p].at = "quota"
      /\ {"paid", "failed", "user", "none"} \subseteq BillPlaces
  BY DEF SessionTypes, CheckQuota, BillPlaces
<1>1. CASE req.priced /\ At(p, "paid") /\ UNCHANGED seen /\ NoFault
  BY <1>0, <1>1, AtType, SeenSame DEF BillMoves, NoFault
<1>2. CASE /\ ~req.priced /\ (SqlFails \/ NoFault) /\ At(p, "failed")
           /\ seen' = [seen EXCEPT !.failed = TRUE]
  <2>1. Adds(0, 0, 0, 0, 0) /\ seen'.failed = TRUE /\ seen'.raced = seen.raced
    BY <1>0, <1>2, SeenFailed, HistoryFields DEF Adds
  <2>2. BillMoves(p, "failed", bill[p].reg)
    BY <1>0, <1>2, AtType DEF BillMoves
  <2> QED
    BY <1>0, <1>2, <2>1, <2>2 DEF SqlFails, NoFault
<1>3. CASE /\ ~req.priced /\ bill' = [bill EXCEPT ![p].at = "user", ![p].reg = Price(Given(p))]
           /\ seen' = [seen EXCEPT !.empty = IF Given(p) = 0 THEN @ + 1 ELSE @] /\ NoFault
  <2>1. Given(p) \in Nat /\ Price(Given(p)) \in Nat
    BY <1>0, GivenType
  <2>2. BillMoves(p, "user", Price(Given(p)))
    BY <1>0, <1>3, <2>1, RegType DEF BillMoves
  <2>3. CASE Given(p) = 0
    <3>1. seen' = [seen EXCEPT !.empty = @ + 1]
      BY <1>3, <2>3
    <3>2. Adds(0, 0, 0, 1, 0) /\ seen'.raced = seen.raced /\ seen'.failed = seen.failed
      BY <1>0, <3>1, SeenEmpty, HistoryFields DEF Adds
    <3> QED
      BY <1>0, <1>3, <2>2, <2>3, <3>2 DEF NoFault
  <2>4. CASE Given(p) # 0
    <3>1. UNCHANGED seen
      BY <1>0, <1>3, <2>4 DEF History
    <3> QED
      BY <1>0, <1>3, <2>2, <2>4, <3>1, SeenSame DEF NoFault
  <2> QED
    BY <2>3, <2>4
<1> QED
  BY <1>1, <1>2, <1>3 DEF CheckQuota

\* The user pays, or a statement fails.
LEMMA PayUserEffect ==
    ASSUME SessionTypes, NEW p \in Billers, PayUser(p)
    PROVE  /\ bill[p].at = "user" /\ bill[p].reg \in Nat /\ seen'.raced = seen.raced
           /\ \/ /\ user' = user - bill[p].reg /\ BillMoves(p, "token", bill[p].reg)
                 /\ Adds(0, 0, bill[p].reg, 0, 0) /\ seen'.failed = seen.failed /\ faults' = faults
              \/ /\ user' = user /\ BillMoves(p, "failed", bill[p].reg)
                 /\ Adds(0, 0, 0, 0, 0) /\ seen'.failed = TRUE /\ faults' = faults + 1
<1>0. /\ bill \in [Billers -> Bill] /\ seen \in History /\ bill[p].at = "user"
      /\ {"failed", "token"} \subseteq BillPlaces
  BY DEF SessionTypes, PayUser, BillPlaces
<1>1. bill[p].reg \in Nat
  BY <1>0 DEF Bill
<1>2. CASE /\ user' = user - bill[p].reg /\ At(p, "token") /\ NoFault
           /\ seen' = [seen EXCEPT !.charged = @ + bill[p].reg]
  <2>1. Adds(0, 0, bill[p].reg, 0, 0) /\ seen'.raced = seen.raced /\ seen'.failed = seen.failed
    BY <1>0, <1>1, <1>2, SeenCharged, HistoryFields DEF Adds
  <2> QED
    BY <1>0, <1>1, <1>2, <2>1, AtType DEF BillMoves, NoFault
<1>3. CASE /\ SqlFails /\ At(p, "failed") /\ UNCHANGED user
           /\ seen' = [seen EXCEPT !.failed = TRUE]
  <2>1. Adds(0, 0, 0, 0, 0) /\ seen'.failed = TRUE /\ seen'.raced = seen.raced
    BY <1>0, <1>3, SeenFailed, HistoryFields DEF Adds
  <2> QED
    BY <1>0, <1>1, <1>3, <2>1, AtType DEF BillMoves, SqlFails
<1> QED
  BY <1>2, <1>3 DEF PayUser

\* The token pays, or a statement fails.
LEMMA PayTokenEffect ==
    ASSUME SessionTypes, NEW p \in Billers, PayToken(p)
    PROVE  /\ bill[p].at = "token" /\ bill[p].reg \in Nat /\ seen'.raced = seen.raced
           /\ Adds(0, 0, 0, 0, 0)
           /\ \/ /\ token' = token - bill[p].reg /\ BillMoves(p, "paid", bill[p].reg)
                 /\ seen'.failed = seen.failed /\ faults' = faults
              \/ /\ token' = token /\ BillMoves(p, "failed", bill[p].reg)
                 /\ seen'.failed = TRUE /\ faults' = faults + 1
<1>0. /\ bill \in [Billers -> Bill] /\ seen \in History /\ bill[p].at = "token"
      /\ {"failed", "paid"} \subseteq BillPlaces
  BY DEF SessionTypes, PayToken, BillPlaces
<1>1. bill[p].reg \in Nat
  BY <1>0 DEF Bill
<1>2. CASE token' = token - bill[p].reg /\ At(p, "paid") /\ NoFault /\ UNCHANGED seen
  BY <1>0, <1>1, <1>2, AtType, SeenSame DEF BillMoves, NoFault
<1>3. CASE /\ SqlFails /\ At(p, "failed") /\ UNCHANGED token
           /\ seen' = [seen EXCEPT !.failed = TRUE]
  <2>1. Adds(0, 0, 0, 0, 0) /\ seen'.failed = TRUE /\ seen'.raced = seen.raced
    BY <1>0, <1>3, SeenFailed, HistoryFields DEF Adds
  <2> QED
    BY <1>0, <1>1, <1>3, <2>1, AtType DEF BillMoves, SqlFails
<1> QED
  BY <1>2, <1>3 DEF PayToken

\* Every step of a charge moves one bill.
LEMMA BillEffect ==
    ASSUME SessionTypes, HeapShape, NEW p \in Billers, PreConsumeUsage(p)
    PROVE  /\ \E at \in BillPlaces \ {"none"} : \E reg : bill[p].at # "none" /\ BillMoves(p, at, reg)
           /\ UNCHANGED <<req, used, stage, pre, returning, client, target, usage, heap, clientReg, answer>>
           /\ seen' \in History /\ seen'.raced = seen.raced
<1>1. \E at \in BillPlaces \ {"none"} : \E reg : bill[p].at # "none" /\ BillMoves(p, at, reg)
  <2>1. CASE ReadSum(p)
    BY <2>1, RegType DEF ReadSum, BillMoves, SessionTypes, BillPlaces
  <2>2. CASE WriteSum(p)
    BY <2>2, AtType DEF WriteSum, BillMoves, SessionTypes, BillPlaces
  <2>3. CASE CheckQuota(p)
    BY <2>3, CheckQuotaEffect DEF BillPlaces
  <2>4. CASE PayUser(p)
    BY <2>4, PayUserEffect DEF BillPlaces
  <2>5. CASE PayToken(p)
    BY <2>5, PayTokenEffect DEF BillPlaces
  <2> QED
    BY <2>1, <2>2, <2>3, <2>4, <2>5 DEF PreConsumeUsage
<1>2. UNCHANGED <<req, used, stage, pre, returning, client, target, usage, heap, clientReg, answer>>
  BY DEF PreConsumeUsage, ReadSum, WriteSum, CheckQuota, PayUser, PayToken, books, helper, session
<1>3. seen' \in History /\ seen'.raced = seen.raced
  <2>1. CASE ReadSum(p) \/ WriteSum(p)
    BY <2>1 DEF ReadSum, WriteSum, SessionTypes
  <2>2. CASE CheckQuota(p)
    <3>1. seen'.raced = seen.raced /\ \E m \in Nat : Adds(0, 0, 0, m, 0)
      BY <2>2, CheckQuotaEffect
    <3> QED
      BY <3>1 DEF Adds
  <2>3. CASE PayUser(p)
    <3>1. seen'.raced = seen.raced /\ \E m \in Nat : Adds(0, 0, m, 0, 0)
      BY <2>3, PayUserEffect
    <3> QED
      BY <3>1 DEF Adds
  <2>4. CASE PayToken(p)
    <3>1. seen'.raced = seen.raced /\ Adds(0, 0, 0, 0, 0)
      BY <2>4, PayTokenEffect
    <3> QED
      BY <3>1 DEF Adds
  <2> QED
    BY <2>1, <2>2, <2>3, <2>4 DEF PreConsumeUsage
<1> QED
  BY <1>1, <1>2, <1>3

\* The client's reader writes what it found and one more.
LEMMA ClientAddEffect ==
    ASSUME SessionTypes, HeapShape, ClientAdd
    PROVE  /\ heap' \in Seq(Nat) /\ Len(heap') = Len(heap) /\ heap' # <<>>
           /\ clientReg.obj \in 1..Len(heap) /\ clientReg.n \in Nat
           /\ heap'[clientReg.obj] = clientReg.n + 1
           /\ \A i \in 1..Len(heap) : i # clientReg.obj => heap'[i] = heap[i]
           /\ Adds(0, 1, 0, 0, 0) /\ seen'.failed = seen.failed
           /\ seen'.raced <=> seen.raced \/ Billed(clientReg.obj)
<1>0. /\ heap \in Seq(Nat) /\ seen \in History
      /\ clientReg.obj \in 1..Len(heap) /\ clientReg.n \in Nat
  BY DEF SessionTypes, HeapShape
<1>1. /\ heap' = [heap EXCEPT ![clientReg.obj] = clientReg.n + 1]
      /\ seen' = [seen EXCEPT !.counted = @ + 1, !.raced = @ \/ Billed(clientReg.obj)]
  BY DEF ClientAdd
<1>2. seen' = [[seen EXCEPT !.counted = @ + 1] EXCEPT !.raced = @ \/ Billed(clientReg.obj)]
  BY <1>0, <1>1 DEF History
<1> DEFINE s == [seen EXCEPT !.counted = @ + 1]
<1>3. /\ s \in History /\ s.counted = seen.counted + 1
      /\ s.given = seen.given /\ s.charged = seen.charged /\ s.empty = seen.empty
      /\ s.delivered = seen.delivered /\ s.raced = seen.raced /\ s.failed = seen.failed
  BY <1>0, SeenCounted
<1> DEFINE b == s.raced \/ Billed(clientReg.obj)
<1>4. seen' = [s EXCEPT !.raced = b] /\ b \in BOOLEAN
  BY <1>2
<1>6. b <=> seen.raced \/ Billed(clientReg.obj)
  BY <1>3
<1> HIDE DEF s, b
<1>5. /\ Adds(0, 1, 0, 0, 0) /\ seen'.failed = seen.failed
      /\ seen'.raced <=> seen.raced \/ Billed(clientReg.obj)
  BY <1>0, <1>3, <1>4, <1>6, SeenRaced, HistoryFields DEF Adds
<1> QED
  BY <1>0, <1>1, <1>5, HeapSet

\* The target's reader counts, in the last localUsage.
LEMMA AddLocalEffect ==
    ASSUME SessionTypes, HeapShape, NEW n \in Nat, AddLocal(n)
    PROVE  /\ heap' \in Seq(Nat) /\ Len(heap') = Len(heap) /\ heap' # <<>> /\ Len(heap) \in Nat \ {0}
           /\ heap'[Len(heap)] = heap[Len(heap)] + n
           /\ \A i \in 1..Len(heap) : i # Len(heap) => heap'[i] = heap[i]
<1>0. heap \in Seq(Nat) /\ Len(heap) \in 1..Len(heap)
  BY DEF SessionTypes, HeapShape
<1>1. heap[Len(heap)] \in Nat
  BY <1>0
<1>2. heap' = [heap EXCEPT ![Len(heap)] = heap[Len(heap)] + n]
  BY DEF AddLocal
<1> QED
  BY <1>0, <1>1, <1>2, HeapSet

\* What the target's reader counts it may count too late.
LEMMA RacedEffect ==
    ASSUME SessionTypes, NEW n \in Nat, seen' = RacedIfReturned([seen EXCEPT !.counted = @ + n])
    PROVE  /\ Adds(0, n, 0, 0, 0) /\ seen'.failed = seen.failed
           /\ seen'.raced <=> seen.raced \/ stage # "open"
<1> DEFINE s == [seen EXCEPT !.counted = @ + n]
<1>0. seen \in History
  BY DEF SessionTypes
<1>1. /\ s \in History /\ s.counted = seen.counted + n
      /\ s.given = seen.given /\ s.charged = seen.charged /\ s.empty = seen.empty
      /\ s.delivered = seen.delivered /\ s.raced = seen.raced /\ s.failed = seen.failed
  BY <1>0, SeenCounted
<1> DEFINE b == s.raced \/ stage # "open"
<1>2. seen' = [s EXCEPT !.raced = b] /\ b \in BOOLEAN
  BY DEF RacedIfReturned
<1>3. b <=> seen.raced \/ stage # "open"
  BY <1>1
<1> HIDE DEF s, b
<1> QED
  <2>1. /\ seen' \in History /\ seen'.raced = b
        /\ seen'.given = s.given /\ seen'.counted = s.counted /\ seen'.charged = s.charged
        /\ seen'.empty = s.empty /\ seen'.delivered = s.delivered /\ seen'.failed = s.failed
    <3> DEFINE r == [s EXCEPT !.raced = b]
    <3>1. /\ r \in History /\ r.raced = b
          /\ r.given = s.given /\ r.counted = s.counted /\ r.charged = s.charged
          /\ r.empty = s.empty /\ r.delivered = s.delivered /\ r.failed = s.failed
      BY <1>1, <1>2, SeenRaced
    <3>2. seen' = r
      BY <1>2
    <3> HIDE DEF r
    <3> QED
      BY <3>1, <3>2
  <2> QED
    BY <1>0, <1>1, <1>3, <2>1, HistoryFields DEF Adds

\* An answer is done: a charge begins, of usage or of the last localUsage.
LEMMA TargetDoneEffect ==
    ASSUME SessionTypes, HeapShape, TargetDone
    PROVE  /\ seen'.failed = seen.failed
           /\ seen'.raced <=> seen.raced \/ stage # "open"
           /\ bill' \in [Billers -> Bill] /\ bill'["handler"] = bill["handler"]
           /\ bill'["target"].at = "sum"
           /\ heap' \in Seq(Nat) /\ Len(heap') = Len(heap) /\ heap' # <<>> /\ Len(heap) \in Nat \ {0}
           /\ \A i \in 1..Len(heap) : i # Len(heap) => heap'[i] = heap[i]
           /\ \/ \E n \in Nat :
                    /\ usage' = usage + n /\ answer' = n /\ heap' = heap
                    /\ bill'["target"].obj = 0 /\ bill'["target"].n = usage + n
                    /\ Adds(0, n, 0, 0, 0)
              \/ \E n \in Nat :
                    /\ usage' = usage /\ answer' = 0
                    /\ heap'[Len(heap)] = heap[Len(heap)] + n
                    /\ bill'["target"].obj = Len(heap)
                    /\ Adds(0, n, 0, 0, 0)
<1>0. /\ bill \in [Billers -> Bill] /\ usage \in Nat /\ MaxAnswer \in Nat
      /\ heap \in Seq(Nat) /\ heap # <<>> /\ Len(heap) \in Nat \ {0}
      /\ "target" \in Billers /\ "handler" \in Billers \ {"target"}
  BY RequestsAssumption DEF SessionTypes, HeapShape, Billers
<1>1. CASE \E n \in 0..MaxAnswer :
            /\ usage' = usage + n /\ answer' = n /\ Call("target", 0, usage + n)
            /\ seen' = RacedIfReturned([seen EXCEPT !.counted = @ + n])
            /\ UNCHANGED heap
  <2>0. PICK n \in 0..MaxAnswer :
            /\ usage' = usage + n /\ answer' = n /\ Call("target", 0, usage + n)
            /\ seen' = RacedIfReturned([seen EXCEPT !.counted = @ + n])
            /\ UNCHANGED heap
    BY <1>1
  <2>1. n \in Nat /\ usage + n \in Nat
    BY <1>0
  <2>2. /\ bill' \in [Billers -> Bill] /\ bill'["handler"] = bill["handler"]
        /\ bill'["target"].at = "sum" /\ bill'["target"].obj = 0 /\ bill'["target"].n = usage + n
    BY <1>0, <2>0, <2>1, CallType
  <2>3. /\ Adds(0, n, 0, 0, 0) /\ seen'.failed = seen.failed
        /\ seen'.raced <=> seen.raced \/ stage # "open"
    BY <2>0, <2>1, RacedEffect
  <2> QED
    BY <1>0, <2>0, <2>1, <2>2, <2>3
<1>2. CASE \E tools \in {0, 1} :
            /\ AddLocal(tools)
            /\ answer' = 0 /\ Call("target", Len(heap), 0)
            /\ seen' = RacedIfReturned([seen EXCEPT !.counted = @ + tools])
            /\ UNCHANGED usage
  <2>0. PICK n \in {0, 1} :
            /\ AddLocal(n)
            /\ answer' = 0 /\ Call("target", Len(heap), 0)
            /\ seen' = RacedIfReturned([seen EXCEPT !.counted = @ + n])
            /\ UNCHANGED usage
    BY <1>2
  <2>1. n \in Nat /\ Len(heap) \in Nat
    BY <1>0
  <2>2. /\ bill' \in [Billers -> Bill] /\ bill'["handler"] = bill["handler"]
        /\ bill'["target"].at = "sum" /\ bill'["target"].obj = Len(heap)
    BY <1>0, <2>0, <2>1, CallType
  <2>3. /\ Adds(0, n, 0, 0, 0) /\ seen'.failed = seen.failed
        /\ seen'.raced <=> seen.raced \/ stage # "open"
    BY <2>0, <2>1, RacedEffect
  <2>4. /\ heap' \in Seq(Nat) /\ Len(heap') = Len(heap) /\ heap' # <<>>
        /\ heap'[Len(heap)] = heap[Len(heap)] + n
        /\ \A i \in 1..Len(heap) : i # Len(heap) => heap'[i] = heap[i]
    BY <2>0, <2>1, AddLocalEffect
  <2> QED
    BY <1>0, <2>0, <2>1, <2>2, <2>3, <2>4
<1> QED
  BY <1>1, <1>2 DEF TargetDone

\* A charge that went through is cleared, and the answer's end passed on.
LEMMA TargetPaidEffect ==
    ASSUME SessionTypes, HeapShape, TargetPaid
    PROVE  /\ seen'.failed = seen.failed /\ seen'.raced = seen.raced
           /\ Adds(0, 0, 0, 0, 0) \/ Adds(0, 0, 0, 0, answer)
           /\ BillMoves("target", "none", bill["target"].reg)
           /\ heap' \in Seq(Nat) /\ Len(heap') = Len(heap) + 1 /\ heap' # <<>> /\ Len(heap) \in Nat
           /\ \A i \in 1..Len(heap) : heap'[i] = heap[i]
           /\ heap'[Len(heap) + 1] = 0
           /\ usage' = IF bill["target"].obj = 0 THEN 0 ELSE usage
<1>0. /\ bill \in [Billers -> Bill] /\ seen \in History /\ answer \in Nat /\ heap \in Seq(Nat)
      /\ "target" \in Billers /\ "none" \in BillPlaces
  BY DEF SessionTypes, Billers, BillPlaces
<1>1. /\ seen'.failed = seen.failed /\ seen'.raced = seen.raced
      /\ Adds(0, 0, 0, 0, 0) \/ Adds(0, 0, 0, 0, answer)
  <2>1. CASE UNCHANGED seen
    BY <1>0, <2>1, SeenSame
  <2>2. CASE seen' = [seen EXCEPT !.delivered = @ + answer]
    BY <1>0, <2>2, SeenDelivered, HistoryFields DEF Adds
  <2> QED
    BY <2>1, <2>2 DEF TargetPaid
<1>2. BillMoves("target", "none", bill["target"].reg)
  BY <1>0, AtType DEF TargetPaid, BillMoves
<1> QED
  BY <1>0, <1>1, <1>2, HeapAppend DEF TargetPaid

\* What the others give, and the handler's notice of a race.
LEMMA OthersEffect ==
    ASSUME SessionTypes, Others
    PROVE  /\ \E d \in Int : user' = user + d /\ Adds(d, 0, 0, 0, 0)
           /\ seen'.failed = seen.failed /\ seen'.raced = seen.raced
<1>1. PICK d \in {-MaxAnswer, MaxAnswer} : user' = user + d /\ seen' = [seen EXCEPT !.given = @ + d]
  BY DEF Others
<1>2. d \in Int /\ seen \in History
  BY <1>1, RequestsAssumption DEF SessionTypes
<1> QED
  BY <1>1, <1>2, SeenGiven, HistoryFields DEF Adds

\* The handler notes whether an answer is being charged.
LEMMA SelectEffect ==
    ASSUME SessionTypes, Select
    PROVE  /\ Adds(0, 0, 0, 0, 0) /\ seen'.failed = seen.failed
           /\ seen'.raced <=> seen.raced \/ target = "bill"
<1> DEFINE b == seen.raced \/ target = "bill"
<1>1. seen' = [seen EXCEPT !.raced = b] /\ b \in BOOLEAN /\ seen \in History
  BY DEF Select, SessionTypes
<1>2. b <=> seen.raced \/ target = "bill"
  OBVIOUS
<1> HIDE DEF b
<1> QED
  BY <1>1, <1>2, SeenRaced, HistoryFields DEF Adds

(***************************************************************************)
(* Realtime: every step keeps the types.                                   *)
(***************************************************************************)
\* The types hold when the calls and what they count are left alone, and what
\* changes keeps its type.
LEMMA TypesFrame ==
    ASSUME SessionTypes, UNCHANGED <<req, counts>>,
           user' \in Int, token' \in Int, used' \in Nat,
           stage' \in Stages, attempt' \in Nat, pre' \in Nat,
           returning' \in [user : Nat, token : Nat],
           client' \in ReaderPlaces, target' \in ReaderPlaces,
           seen' \in History, faults' \in Nat
    PROVE  SessionTypes'
BY DEF SessionTypes, counts

\* The steps of the handlers keep the types.
LEMMA HelperTypes ==
    ASSUME SessionTypes, WssHelper \/ ImageHelper \/ ReturnUser \/ ReturnToken \/ Others
    PROVE  SessionTypes'
<1>1. /\ req.reserve \in Nat /\ req.price \in Nat
      /\ MaxAnswer \in Nat
      /\ user \in Int /\ token \in Int /\ used \in Nat
      /\ stage \in Stages /\ attempt \in Nat /\ pre \in Nat
      /\ returning \in [user : Nat, token : Nat]
      /\ client \in ReaderPlaces /\ target \in ReaderPlaces
      /\ sum \in Nat /\ seen \in History /\ faults \in Nat
  BY RequestType, RequestsAssumption DEF SessionTypes
<1>2. CASE Check
  <2>1. /\ stage' \in Stages /\ pre' \in Nat /\ faults' \in Nat
        /\ UNCHANGED <<req, user, token, used, attempt, returning, client, target, counts, seen>>
    BY <1>1, <1>2 DEF Check, Stop, SqlFails, NoFault, books, session, Stages, DialStages
  <2> QED
    BY <1>1, <2>1, TypesFrame
<1>3. CASE TakeToken
  <2>1. /\ stage' \in Stages /\ token' \in Int /\ faults' \in Nat
        /\ UNCHANGED <<req, user, used, attempt, pre, returning, client, target, counts, seen>>
    BY <1>1, <1>3 DEF TakeToken, Stop, SqlFails, NoFault, session, Stages, DialStages
  <2> QED
    BY <1>1, <2>1, TypesFrame
<1>4. CASE TakeUser
  <2>1. /\ stage' \in Stages /\ user' \in Int /\ faults' \in Nat
        /\ UNCHANGED <<req, token, used, attempt, pre, returning, client, target, counts, seen>>
    BY <1>1, <1>4 DEF TakeUser, Stop, SqlFails, NoFault, session, Stages, DialStages
  <2> QED
    BY <1>1, <2>1, TypesFrame
<1>5. CASE Dial
  <2>1. returning' \in [user : Nat, token : Nat]
    <3>1. returning.user + 1 \in Nat
      BY <1>1
    <3>2. \/ returning' = returning
          \/ returning' = [returning EXCEPT !.user = returning.user + 1]
      BY <1>5 DEF Dial
    <3> QED
      BY <1>1, <3>1, <3>2
  <2>2. /\ stage' \in Stages /\ pre' \in Nat /\ attempt' \in Nat
        /\ client' \in ReaderPlaces /\ target' \in ReaderPlaces
    BY <1>1, <1>5 DEF Dial, Stages, DialStages, SessionStages, ReaderPlaces
  <2>3. UNCHANGED <<req, user, token, used, counts, seen, faults>>
    BY <1>5 DEF Dial, books
  <2> QED
    BY <1>1, <2>1, <2>2, <2>3, TypesFrame
<1>6. CASE Post
  <2>1. /\ stage' \in Stages /\ used' \in Nat /\ faults' \in Nat
        /\ UNCHANGED <<req, user, token, attempt, pre, returning, client, target, counts, seen>>
    BY <1>1, <1>6 DEF Post, Goto, SqlFails, NoFault, Price, Stages
  <2> QED
    BY <1>1, <2>1, TypesFrame
<1>7. CASE CheckImage
  <2>1. /\ stage' \in Stages /\ faults' \in Nat
        /\ UNCHANGED <<req, user, token, used, attempt, pre, returning, client, target, counts, seen>>
    BY <1>1, <1>7 DEF CheckImage, Stop, Goto, SqlFails, NoFault, books, session, Stages, ImageStages
  <2> QED
    BY <1>1, <2>1, TypesFrame
<1>8. CASE MakeImage
  <2>1. /\ stage' \in Stages /\ attempt' \in Nat
        /\ UNCHANGED <<req, user, token, used, pre, returning, client, target, counts, seen, faults>>
    BY <1>1, <1>8 DEF MakeImage, Goto, books, session, Stages, DialStages, ImageStages
  <2> QED
    BY <1>1, <2>1, TypesFrame
<1>9. CASE RecordImage
  <2>1. /\ stage' \in Stages /\ used' \in Nat /\ faults' \in Nat
        /\ UNCHANGED <<req, user, token, attempt, pre, returning, client, target, counts, seen>>
    BY <1>1, <1>9 DEF RecordImage, Goto, SqlFails, NoFault, session, Stages, ImageStages
  <2> QED
    BY <1>1, <2>1, TypesFrame
<1>10. CASE PayImage
  <2>1. /\ stage' \in Stages /\ user' \in Int /\ faults' \in Nat
        /\ UNCHANGED <<req, token, used, attempt, pre, returning, client, target, counts, seen>>
    BY <1>1, <1>10 DEF PayImage, Goto, SqlFails, NoFault, session, Stages, ImageStages
  <2> QED
    BY <1>1, <2>1, TypesFrame
<1>11. CASE TokenImage
  <2>1. /\ stage' \in Stages /\ token' \in Int /\ faults' \in Nat
        /\ UNCHANGED <<req, user, used, attempt, pre, returning, client, target, counts, seen>>
    BY <1>1, <1>11 DEF TokenImage, Goto, SqlFails, NoFault, session, Stages
  <2> QED
    BY <1>1, <2>1, TypesFrame
<1>12. CASE ReturnUser
  <2>0. returning.user \in Nat \ {0} /\ returning.token \in Nat
    BY <1>1, <1>12 DEF ReturnUser
  <2>1. returning' \in [user : Nat, token : Nat]
    <3> DEFINE u == returning.user - 1
    <3> DEFINE t == returning.token + 1
    <3>1. u \in Nat /\ t \in Nat
      BY <2>0
    <3>2. \/ returning' = [returning EXCEPT !.user = u, !.token = t]
          \/ returning' = [returning EXCEPT !.user = u]
      BY <1>12 DEF ReturnUser
    <3> HIDE DEF u, t
    <3> QED
      BY <1>1, <3>1, <3>2
  <2>2. user' \in Int /\ faults' \in Nat
    <3>1. user' \in {user, user + req.reserve} /\ faults' \in {faults, faults + 1}
      BY <1>12 DEF ReturnUser, SqlFails, NoFault
    <3> QED
      BY <1>1, <3>1
  <2>3. UNCHANGED <<req, token, used, stage, attempt, pre, client, target, counts, seen>>
    BY <1>12 DEF ReturnUser, session
  <2> QED
    BY <1>1, <2>1, <2>2, <2>3, TypesFrame
<1>13. CASE ReturnToken
  <2> DEFINE t == returning.token - 1
  <2>0. t \in Nat /\ returning' = [returning EXCEPT !.token = t]
    BY <1>1, <1>13 DEF ReturnToken
  <2> HIDE DEF t
  <2>1. returning' \in [user : Nat, token : Nat]
    BY <1>1, <2>0
  <2>2. token' \in Int /\ faults' \in Nat
    BY <1>1, <1>13 DEF ReturnToken, SqlFails, NoFault
  <2>3. UNCHANGED <<req, user, used, stage, attempt, pre, client, target, counts, seen>>
    BY <1>13 DEF ReturnToken, session
  <2> QED
    BY <1>1, <2>1, <2>2, <2>3, TypesFrame
<1>14. CASE Others
  <2>1. user' \in Int /\ seen' \in History
    BY <1>1, <1>14, OthersEffect DEF Adds
  <2>2. /\ UNCHANGED <<req, token, used, stage, attempt, pre, returning, client, target>>
        /\ UNCHANGED <<counts, faults>>
    BY <1>14 DEF Others, helper, session
  <2> QED
    BY <1>1, <2>1, <2>2, TypesFrame
<1> QED
  BY <1>2, <1>3, <1>4, <1>5, <1>6, <1>7, <1>8, <1>9, <1>10, <1>11, <1>12, <1>13, <1>14
     DEF WssHelper, ImageHelper

\* The steps of a charge keep the types.
LEMMA BillTypes ==
    ASSUME SessionTypes, HeapShape, NEW p \in Billers, PreConsumeUsage(p)
    PROVE  SessionTypes'
<1>1. bill[p] \in Bill /\ bill \in [Billers -> Bill] /\ sum \in Nat /\ seen \in History /\ faults \in Nat
  BY DEF SessionTypes
<1>2. CASE ReadSum(p)
  <2>1. bill' \in [Billers -> Bill]
    BY <1>1, <1>2, RegType DEF ReadSum, BillPlaces
  <2> QED
    BY <1>2, <2>1 DEF ReadSum, SessionTypes, books, helper, session
<1>3. CASE WriteSum(p)
  <2>1. bill' \in [Billers -> Bill]
    BY <1>1, <1>3, AtType DEF WriteSum, BillPlaces
  <2>2. sum' \in Nat
    BY <1>1, <1>3, GivenType DEF WriteSum, Bill
  <2> QED
    BY <1>3, <2>1, <2>2 DEF WriteSum, SessionTypes, books, helper, session
<1>4. CASE CheckQuota(p)
  <2>1. bill' \in [Billers -> Bill] /\ seen' \in History /\ faults' \in Nat
    <3>1. /\ \E at, reg : BillMoves(p, at, reg)
          /\ \E n, m : Adds(0, 0, n, m, 0)
          /\ faults' \in {faults, faults + 1}
      BY <1>4, CheckQuotaEffect
    <3> QED
      BY <1>1, <3>1 DEF Adds, BillMoves
  <2> QED
    BY <1>4, <2>1 DEF CheckQuota, SessionTypes, books, helper, session
<1>5. CASE PayUser(p)
  <2>1. bill' \in [Billers -> Bill] /\ seen' \in History /\ faults' \in Nat
    <3>1. /\ \E at, reg : BillMoves(p, at, reg)
          /\ \E n, m : Adds(0, 0, n, m, 0)
          /\ faults' \in {faults, faults + 1}
      BY <1>5, PayUserEffect
    <3> QED
      BY <1>1, <3>1 DEF Adds, BillMoves
  <2>2. user' \in Int
    <3>1. bill[p].reg \in Nat /\ (user' = user \/ user' = user - bill[p].reg)
      BY <1>5, PayUserEffect
    <3> QED
      BY <3>1 DEF SessionTypes
  <2> QED
    BY <1>5, <2>1, <2>2 DEF PayUser, SessionTypes, helper, session
<1>6. CASE PayToken(p)
  <2>1. bill' \in [Billers -> Bill] /\ seen' \in History /\ faults' \in Nat
    <3>1. /\ \E at, reg : BillMoves(p, at, reg)
          /\ \E n, m : Adds(0, 0, n, m, 0)
          /\ faults' \in {faults, faults + 1}
      BY <1>6, PayTokenEffect
    <3> QED
      BY <1>1, <3>1 DEF Adds, BillMoves
  <2>2. token' \in Int
    <3>1. bill[p].reg \in Nat /\ (token' = token \/ token' = token - bill[p].reg)
      BY <1>6, PayTokenEffect
    <3> QED
      BY <3>1 DEF SessionTypes
  <2> QED
    BY <1>6, <2>1, <2>2 DEF PayToken, SessionTypes, helper, session
<1> QED
  BY <1>2, <1>3, <1>4, <1>5, <1>6 DEF PreConsumeUsage

\* The steps of the readers keep the types.
LEMMA ReaderTypes ==
    ASSUME SessionTypes, HeapShape, ClientReader \/ TargetReader
    PROVE  SessionTypes'
<1> DEFINE last == Len(heap)
<1>0. /\ last \in 1..Len(heap) /\ heap[last] \in Nat /\ heap \in Seq(Nat) /\ bill \in [Billers -> Bill]
      /\ seen \in History /\ usage \in Nat /\ answer \in Nat /\ MaxAnswer \in Nat
      /\ clientReg.obj \in 1..Len(heap) /\ clientReg.n \in Nat /\ last \in Nat
      /\ "target" \in Billers /\ "handler" \in Billers /\ "none" \in BillPlaces
  BY RequestsAssumption DEF SessionTypes, HeapShape, Billers, BillPlaces
<1>1. CASE ClientRead
  <2>1. clientReg' \in [obj : Nat, n : Nat]
    BY <1>1, <1>0 DEF ClientRead, SessionTypes
  <2> QED
    BY <1>1, <2>1 DEF ClientRead, SessionTypes, books, helper, ReaderPlaces
<1>2. CASE ClientAdd
  <2>1. heap' \in Seq(Nat) /\ seen' \in History
    BY <1>2, ClientAddEffect DEF Adds
  <2> QED
    BY <1>2, <2>1 DEF ClientAdd, SessionTypes, books, helper, bounds, ReaderPlaces
<1>3. CASE ClientGone \/ ClientError \/ TargetGone \/ TargetError
  BY <1>3 DEF ClientGone, ClientError, TargetGone, TargetError, SessionTypes, books, helper,
     counts, bounds, ReaderPlaces
<1>4. CASE TargetDelta
  <2>1. heap' \in Seq(Nat) /\ seen' \in History
    BY <1>4, AddLocalEffect, RacedEffect DEF TargetDelta, Adds
  <2>2. target' \in ReaderPlaces /\ client' = client /\ UNCHANGED <<req, books, helper>>
        /\ UNCHANGED <<usage, clientReg, sum, bill, answer, faults>>
    BY <1>4 DEF TargetDelta, ReaderPlaces
  <2> QED
    BY <2>1, <2>2 DEF SessionTypes, books, helper
<1>5. CASE TargetDone
  <2>1. /\ heap' \in Seq(Nat) /\ usage' \in Nat /\ answer' \in Nat
        /\ seen' \in History /\ bill' \in [Billers -> Bill]
    BY <1>0, <1>5, TargetDoneEffect DEF Adds
  <2>2. target' \in ReaderPlaces /\ client' = client /\ UNCHANGED <<req, books, helper>>
        /\ UNCHANGED <<clientReg, sum, faults>>
    BY <1>5 DEF TargetDone, ReaderPlaces
  <2> QED
    BY <2>1, <2>2 DEF SessionTypes, books, helper
<1>6. CASE TargetBad
  BY <1>6 DEF TargetBad, SessionTypes, books, helper, counts, ReaderPlaces
<1>7. CASE TargetPaid
  <2>1. /\ heap' \in Seq(Nat) /\ usage' \in Nat
        /\ seen' \in History /\ bill' \in [Billers -> Bill]
    BY <1>0, <1>7, TargetPaidEffect DEF Adds, BillMoves
  <2> QED
    BY <1>7, <2>1 DEF TargetPaid, SessionTypes, books, helper, bounds, ReaderPlaces
<1>8. CASE TargetUnpaid
  <2>1. bill' \in [Billers -> Bill]
    BY <1>8, <1>0, AtType DEF TargetUnpaid
  <2> QED
    BY <1>8, <2>1 DEF TargetUnpaid, SessionTypes, books, helper, bounds, ReaderPlaces
<1> QED
  BY <1>1, <1>2, <1>3, <1>4, <1>5, <1>6, <1>7, <1>8 DEF ClientReader, TargetReader

\* The steps of the handler keep the types.
LEMMA HandlerTypes ==
    ASSUME SessionTypes, HeapShape, Handler
    PROVE  SessionTypes'
<1> DEFINE last == Len(heap)
<1>0. /\ last \in Nat /\ heap[last] \in Nat /\ bill \in [Billers -> Bill] /\ usage \in Nat
      /\ seen \in History /\ "handler" \in Billers /\ "none" \in BillPlaces
  BY DEF SessionTypes, HeapShape, Billers, BillPlaces
<1>1. CASE Select
  <2>1. seen' \in History
    BY <1>1, SelectEffect DEF Adds
  <2> QED
    BY <1>1, <2>1 DEF Select, Goto, SessionTypes, books, counts, bounds, Stages, SessionStages
<1>2. ASSUME NEW from, NEW obj \in Nat, NEW n \in Nat, NEW next \in Stages, Flush(from, obj, n, next)
      PROVE  SessionTypes'
  <2>1. bill' \in [Billers -> Bill]
    BY <1>2, <1>0, AtType, CallType DEF Flush
  <2>2. stage' \in Stages /\ attempt' = attempt /\ pre' = pre /\ returning' = returning
    BY <1>2 DEF Flush, Goto, helper, SessionTypes
  <2> QED
    BY <1>2, <2>1, <2>2 DEF Flush, SessionTypes, books, session, bounds
<1>3. CASE FlushUsage
  BY <1>0, <1>2, <1>3 DEF FlushUsage, Stages, SessionStages
<1>4. CASE FlushLocal
  BY <1>0, <1>2, <1>4 DEF FlushLocal, Stages, SessionStages
<1> QED
  BY <1>1, <1>3, <1>4 DEF Handler

(***************************************************************************)
(* Realtime: what goes with what.                                          *)
(***************************************************************************)
Billing(p) == bill[p].at # "none"

\* The target's reader waits for its own charge; the handler charges usage, and
\* then the last localUsage.
BillersStand ==
    /\ target = "bill" <=> Billing("target")
    /\ Billing("handler") => /\ stage \in {"usage", "local"}
                             /\ bill["handler"].obj = 0 <=> stage = "usage"

\* Before a session is open, and with an image, nobody reads or charges.
NobodyReads ==
    stage \in DialStages \cup ImageStages \cup {"failed"} \/ req.kind = "image" =>
        /\ client = "idle" /\ target = "idle" /\ ~Billing("handler")
        /\ seen.charged = 0

\* What is reserved, and at which stages; an image reserves nothing.
Reserved ==
    /\ pre \in {0, req.reserve}
    /\ stage = "check" => pre = 0
    /\ stage \in {"takeToken", "takeUser"} => pre = req.reserve
    /\ req.kind = "image" => /\ stage \in ImageStages \cup {"check", "served", "failed"}
                             /\ pre = 0 /\ returning.user = 0 /\ returning.token = 0
    /\ req.kind = "realtime" => stage \notin ImageStages

Standing == HeapShape /\ BillersStand /\ NobodyReads /\ Reserved

\* Who charges is under way, and not with an image.
LEMMA WhoBills ==
    ASSUME SessionTypes, Standing, NEW p \in Billers, Billing(p)
    PROVE  /\ p = "target" \/ p = "handler"
           /\ p = "target" => target = "bill"
           /\ stage \in SessionStages \cup {"served"} /\ req.kind = "realtime"
<1>1. p = "target" \/ p = "handler"
  BY DEF Billers
<1>2. stage \notin DialStages \cup ImageStages \cup {"failed"} /\ req.kind # "image"
  BY <1>1 DEF Standing, BillersStand, NobodyReads
<1>3. stage \in SessionStages \cup {"served"}
  BY <1>2 DEF SessionTypes, Stages
<1> QED
  BY <1>1, <1>2, <1>3, RequestType DEF SessionTypes, Standing, BillersStand

\* The steps of WssHelper, ImageHelper and of returnPreConsumedQuota keep this.
LEMMA HelperStanding ==
    ASSUME SessionTypes, Standing, WssHelper \/ ImageHelper \/ ReturnUser \/ ReturnToken \/ Others
    PROVE  Standing'
<1>1. /\ req.reserve \in Nat /\ req.kind \in {"realtime", "image"} /\ stage \in Stages
      /\ returning \in [user : Nat, token : Nat] /\ pre \in Nat
  BY RequestType DEF SessionTypes
<1>2. CASE Check
  BY <1>1, <1>2 DEF Check, Stop, books, session, counts, bounds,
     Standing, HeapShape, BillersStand, Billing, NobodyReads, Reserved, DialStages, ImageStages
<1>3. CASE TakeToken
  BY <1>1, <1>3 DEF TakeToken, Stop, session, counts, bounds,
     Standing, HeapShape, BillersStand, Billing, NobodyReads, Reserved, DialStages, ImageStages
<1>4. CASE TakeUser
  BY <1>1, <1>4 DEF TakeUser, Stop, session, counts, bounds,
     Standing, HeapShape, BillersStand, Billing, NobodyReads, Reserved, DialStages, ImageStages
<1>5. CASE Dial
  <2>1. req.kind = "realtime" /\ ~Billing("target") /\ ~Billing("handler") /\ target = "idle" /\ client = "idle"
    BY <1>1, <1>5 DEF Dial, Standing, BillersStand, NobodyReads, Reserved, DialStages, ImageStages
  <2>2. HeapShape' /\ Billing("target")' = Billing("target") /\ Billing("handler")' = Billing("handler")
    BY <1>5 DEF Dial, counts, Standing, HeapShape, Billing
  <2>3. BillersStand'
    BY <1>5, <2>1, <2>2 DEF Dial, BillersStand
  <2>4. NobodyReads' /\ Reserved'
    BY <1>1, <1>5, <2>1, <2>2 DEF Dial, Standing, NobodyReads, Reserved, DialStages, ImageStages
  <2> QED
    BY <2>2, <2>3, <2>4 DEF Standing
<1>6. CASE Post
  BY <1>1, <1>6 DEF Post, Goto, counts, bounds,
     Standing, HeapShape, BillersStand, Billing, NobodyReads, Reserved, DialStages, ImageStages
<1>7. CASE ImageHelper
  BY <1>1, <1>7 DEF ImageHelper, CheckImage, MakeImage, RecordImage, PayImage, TokenImage,
     Stop, Goto, books, session, counts, bounds,
     Standing, HeapShape, BillersStand, Billing, NobodyReads, Reserved, DialStages, ImageStages
<1>8. CASE ReturnUser
  <2>1. req.kind = "realtime"
    BY <1>1, <1>8 DEF ReturnUser, Standing, Reserved
  <2> QED
    BY <1>1, <1>8, <2>1 DEF ReturnUser, session, counts, bounds,
       Standing, HeapShape, BillersStand, Billing, NobodyReads, Reserved
<1>9. CASE ReturnToken
  <2>1. req.kind = "realtime"
    BY <1>1, <1>9 DEF ReturnToken, Standing, Reserved
  <2> QED
    BY <1>1, <1>9, <2>1 DEF ReturnToken, session, counts, bounds,
       Standing, HeapShape, BillersStand, Billing, NobodyReads, Reserved
<1>10. CASE Others
  <2>1. seen'.charged = seen.charged
    <3>1. PICK d \in Int : Adds(d, 0, 0, 0, 0)
      BY <1>10, OthersEffect
    <3> QED
      BY <3>1, HistoryFields DEF Adds, SessionTypes
  <2> QED
    BY <1>10, <2>1 DEF Others, helper, session, counts,
       Standing, HeapShape, BillersStand, Billing, NobodyReads, Reserved
<1> QED
  BY <1>2, <1>3, <1>4, <1>5, <1>6, <1>7, <1>8, <1>9, <1>10 DEF WssHelper

\* So do the steps of a charge.
LEMMA BillStanding ==
    ASSUME SessionTypes, Standing, NEW p \in Billers, PreConsumeUsage(p)
    PROVE  Standing'
<1>1. PICK at, reg : at # "none" /\ bill[p].at # "none" /\ BillMoves(p, at, reg)
  BY BillEffect DEF Standing
<1>2. UNCHANGED <<req, stage, pre, returning, client, target, heap, clientReg>>
  BY BillEffect DEF Standing
<1>3. /\ p = "target" \/ p = "handler"
      /\ stage \in SessionStages \cup {"served"} /\ req.kind = "realtime"
  BY <1>1, WhoBills DEF Billing
<1>4. \A r \in Billers : (Billing(r) <=> Billing(r)') /\ bill'[r].obj = bill[r].obj
  BY <1>1 DEF BillMoves, Billing
<1>5. HeapShape'
  BY <1>2, <1>4 DEF Standing, HeapShape, Billing
<1>6. BillersStand'
  BY <1>2, <1>4 DEF Standing, BillersStand, Billers
<1>7. NobodyReads' /\ Reserved'
  BY <1>2, <1>3 DEF Standing, NobodyReads, Reserved, SessionStages, DialStages, ImageStages
<1> QED
  BY <1>5, <1>6, <1>7 DEF Standing

\* So do the steps of the readers.
LEMMA ReaderStanding ==
    ASSUME SessionTypes, Standing, ClientReader \/ TargetReader
    PROVE  Standing'
<1>1. /\ heap \in Seq(Nat) /\ Len(heap) \in 1..Len(heap) /\ Len(heap) \in Nat
      /\ bill \in [Billers -> Bill] /\ "target" \in Billers /\ "handler" \in Billers
      /\ clientReg.obj \in 1..Len(heap) /\ clientReg.n \in Nat /\ clientReg.n <= heap[clientReg.obj]
      /\ \A i \in 1..Len(heap) : heap[i] \in Nat
      /\ "none" \in BillPlaces
  BY DEF SessionTypes, Standing, HeapShape, Billers, BillPlaces
<1>2. /\ stage \notin DialStages \cup ImageStages \cup {"failed"} /\ req.kind # "image"
      /\ UNCHANGED <<req, stage, pre, returning>>
  <2>1. client # "idle" \/ target # "idle"
    BY DEF ClientReader, TargetReader, ClientRead, ClientAdd, ClientGone, ClientError,
       TargetDelta, TargetDone, TargetBad, TargetPaid, TargetUnpaid, TargetGone, TargetError, NextEvent
  <2>2. UNCHANGED <<req, stage, pre, returning>>
    BY DEF ClientReader, TargetReader, ClientRead, ClientAdd, ClientGone, ClientError,
       TargetDelta, TargetDone, TargetBad, TargetPaid, TargetUnpaid, TargetGone, TargetError, helper
  <2> QED
    BY <2>1, <2>2 DEF Standing, NobodyReads
<1>3. NobodyReads' /\ Reserved'
  BY <1>2 DEF Standing, NobodyReads, Reserved
\* What is kept when the bills are, and no localUsage in use is lost.
<1>4. ASSUME UNCHANGED <<bill, target>> PROVE BillersStand'
  BY <1>2, <1>4 DEF Standing, BillersStand, Billing
<1>5. ASSUME UNCHANGED <<bill, heap, clientReg>> PROVE HeapShape'
  BY <1>5 DEF Standing, HeapShape
<1>6. CASE ClientRead
  <2>1. UNCHANGED <<bill, heap, target>>
    BY <1>6 DEF ClientRead
  <2>2. clientReg' = clientReg \/ clientReg' = [obj |-> Len(heap), n |-> heap[Len(heap)]]
    BY <1>6 DEF ClientRead
  <2>3. clientReg'.obj \in 1..Len(heap) /\ clientReg'.n <= heap[clientReg'.obj]
    BY <1>1, <2>2
  <2>4. HeapShape'
    BY <2>1, <2>3 DEF Standing, HeapShape
  <2> QED
    BY <1>3, <1>4, <2>1, <2>4 DEF Standing
<1>7. CASE ClientAdd
  <2>1. UNCHANGED <<bill, clientReg, target>>
    BY <1>7 DEF ClientAdd
  <2>2. /\ Len(heap') = Len(heap) /\ heap' # <<>>
        /\ heap'[clientReg.obj] = clientReg.n + 1
    BY <1>7, ClientAddEffect DEF Standing
  <2>3. HeapShape'
    BY <1>1, <2>1, <2>2 DEF Standing, HeapShape
  <2> QED
    BY <1>3, <1>4, <2>1, <2>3 DEF Standing
<1>8. CASE ClientGone \/ ClientError
  <2>1. UNCHANGED <<bill, heap, clientReg, target>>
    BY <1>8 DEF ClientGone, ClientError, counts
  <2> QED
    BY <1>3, <1>4, <1>5, <2>1 DEF Standing
\* The target's reader waits for no charge, before and after.
<1>9. ASSUME target # "bill", target' # "bill", UNCHANGED bill PROVE BillersStand'
  BY <1>2, <1>9 DEF Standing, BillersStand, Billing
<1>10. CASE TargetDelta
  <2>1. UNCHANGED <<bill, clientReg>> /\ target # "bill" /\ target' # "bill" /\ AddLocal(1)
    BY <1>10 DEF TargetDelta, NextEvent
  <2>2. /\ Len(heap') = Len(heap) /\ heap' # <<>>
        /\ heap'[Len(heap)] = heap[Len(heap)] + 1
        /\ \A i \in 1..Len(heap) : i # Len(heap) => heap'[i] = heap[i]
    BY <2>1, AddLocalEffect DEF Standing
  <2>3. clientReg.n <= heap'[clientReg.obj]
    BY <1>1, <2>2
  <2>4. HeapShape'
    BY <2>1, <2>2, <2>3 DEF Standing, HeapShape
  <2> QED
    BY <1>3, <1>9, <2>1, <2>4 DEF Standing
<1>11. CASE TargetDone
  <2>1. UNCHANGED clientReg /\ target' = "bill"
    BY <1>11 DEF TargetDone
  <2>2. /\ Len(heap') = Len(heap) /\ heap' # <<>>
        /\ bill'["handler"] = bill["handler"] /\ bill'["target"].at = "sum"
        /\ bill'["target"].obj \in {0, Len(heap)}
        /\ \A i \in 1..Len(heap) : i # Len(heap) => heap'[i] = heap[i]
        /\ heap' = heap \/ \E n \in Nat : heap'[Len(heap)] = heap[Len(heap)] + n
    BY <1>11, TargetDoneEffect DEF Standing
  <2>3. clientReg.n <= heap'[clientReg.obj]
    BY <1>1, <2>2
  <2>4. HeapShape'
    BY <1>1, <2>1, <2>2, <2>3 DEF Standing, HeapShape, Billers
  <2>5. BillersStand'
    BY <1>2, <2>1, <2>2 DEF Standing, BillersStand, Billing
  <2> QED
    BY <1>3, <2>4, <2>5 DEF Standing
<1>12. CASE TargetBad \/ TargetGone \/ TargetError
  <2>1. UNCHANGED <<bill, heap, clientReg>> /\ target # "bill" /\ target' # "bill"
    BY <1>12 DEF TargetBad, TargetGone, TargetError, NextEvent, counts
  <2> QED
    BY <1>3, <1>5, <1>9, <2>1 DEF Standing
\* A charge is over.
<1>13. ASSUME BillMoves("target", "none", bill["target"].reg), target' # "bill" PROVE BillersStand'
  BY <1>1, <1>2, <1>13 DEF Standing, BillersStand, Billing, BillMoves, Billers
<1>14. CASE TargetPaid
  <2>1. UNCHANGED clientReg /\ target' # "bill"
    BY <1>14 DEF TargetPaid
  <2>2. /\ Len(heap') = Len(heap) + 1 /\ heap' # <<>>
        /\ BillMoves("target", "none", bill["target"].reg)
        /\ \A i \in 1..Len(heap) : heap'[i] = heap[i]
    BY <1>14, TargetPaidEffect DEF Standing
  <2>3. HeapShape'
    BY <1>1, <2>1, <2>2 DEF Standing, HeapShape, Billers, BillMoves
  <2> QED
    BY <1>3, <1>13, <2>1, <2>2, <2>3 DEF Standing
<1>15. CASE TargetUnpaid
  <2>1. UNCHANGED <<heap, clientReg>> /\ target' # "bill" /\ At("target", "none")
    BY <1>15 DEF TargetUnpaid
  <2>2. BillMoves("target", "none", bill["target"].reg)
    BY <1>1, <2>1, AtType DEF BillMoves
  <2>3. HeapShape'
    BY <1>1, <2>1, <2>2 DEF Standing, HeapShape, Billers, BillMoves
  <2> QED
    BY <1>3, <1>13, <2>1, <2>2, <2>3 DEF Standing
<1> QED
  BY <1>6, <1>7, <1>8, <1>10, <1>11, <1>12, <1>14, <1>15 DEF ClientReader, TargetReader

\* What a step of Flush does: a charge begins, or the handler goes on.
LEMMA FlushEffect ==
    ASSUME SessionTypes, NEW from, NEW obj \in Nat, NEW n \in Nat, NEW next, Flush(from, obj, n, next)
    PROVE  /\ stage = from
           /\ UNCHANGED <<req, books, session, usage, heap, clientReg, sum, answer, seen, faults,
                          attempt, pre, returning>>
           /\ bill' \in [Billers -> Bill] /\ bill'["target"] = bill["target"]
           /\ \/ /\ bill["handler"].at = "none" /\ n # 0 /\ stage' = from
                 /\ bill'["handler"].at = "sum" /\ bill'["handler"].obj = obj /\ bill'["handler"].n = n
              \/ /\ stage' = next /\ bill'["handler"].at = "none"
                 /\ bill["handler"].at \in {"none", "paid", "failed"}
<1>1. bill \in [Billers -> Bill] /\ "handler" \in Billers /\ "target" \in Billers \ {"handler"}
      /\ "none" \in BillPlaces
  BY DEF SessionTypes, Billers, BillPlaces
<1>2. CASE bill["handler"].at = "none" /\ n # 0 /\ Call("handler", obj, n) /\ UNCHANGED helper
  BY <1>1, <1>2, CallType DEF Flush, helper
<1>3. CASE /\ bill["handler"].at \in {"none", "paid", "failed"}
           /\ Goto(next) /\ At("handler", "none")
  BY <1>1, <1>3, AtType DEF Flush, Goto
<1> QED
  BY <1>2, <1>3 DEF Flush

\* The two uses of Flush.
LEMMA HandlerEffect ==
    ASSUME SessionTypes, HeapShape, FlushUsage \/ FlushLocal
    PROVE  /\ UNCHANGED <<req, books, session, usage, heap, clientReg, sum, answer, seen, faults,
                          attempt, pre, returning>>
           /\ bill' \in [Billers -> Bill] /\ bill'["target"] = bill["target"]
           /\ \/ /\ bill["handler"].at = "none" /\ stage' = stage
                 /\ bill'["handler"].at = "sum"
                 /\ \/ stage = "usage" /\ bill'["handler"].obj = 0 /\ bill'["handler"].n = usage
                    \/ stage = "local" /\ bill'["handler"].obj = Len(heap) /\ Len(heap) # 0
              \/ /\ bill'["handler"].at = "none"
                 /\ \/ stage = "usage" /\ stage' = "local"
                    \/ stage = "local" /\ stage' = "post"
<1>1. /\ usage \in Nat /\ Len(heap) \in Nat \ {0} /\ heap[Len(heap)] \in Nat
  BY DEF SessionTypes, HeapShape
<1>2. CASE FlushUsage
  BY <1>1, <1>2, FlushEffect DEF FlushUsage
<1>3. CASE FlushLocal
  BY <1>1, <1>3, FlushEffect DEF FlushLocal
<1> QED
  BY <1>2, <1>3

\* So do the steps of the handler.
LEMMA HandlerStanding ==
    ASSUME SessionTypes, Standing, Handler
    PROVE  Standing'
<1>1. CASE Select
  <2>1. UNCHANGED <<req, client, target, heap, clientReg, bill, pre, returning>>
        /\ stage = "open" /\ stage' = "usage"
    BY <1>1 DEF Select, Goto, counts
  <2>2. ~Billing("handler")
    BY <2>1 DEF Standing, BillersStand
  <2>3. HeapShape' /\ BillersStand'
    BY <2>1, <2>2 DEF Standing, HeapShape, BillersStand, Billing
  <2>4. NobodyReads' /\ Reserved'
    BY <2>1 DEF Standing, NobodyReads, Reserved, DialStages, ImageStages
  <2> QED
    BY <2>3, <2>4 DEF Standing
<1>2. CASE FlushUsage \/ FlushLocal
  <2>1. /\ UNCHANGED <<req, client, target, heap, clientReg, seen, pre, returning>>
        /\ bill'["target"] = bill["target"]
        /\ \/ /\ stage' = stage /\ stage \in {"usage", "local"}
              /\ bill'["handler"].at = "sum"
              /\ bill'["handler"].obj \in 0..Len(heap)
              /\ bill'["handler"].obj = 0 <=> stage = "usage"
           \/ /\ bill'["handler"].at = "none"
              /\ stage \in {"usage", "local"} /\ stage' \in {"local", "post"}
    <3>1. Len(heap) \in Nat
      BY DEF SessionTypes
    <3> QED
      BY <1>2, <3>1, HandlerEffect DEF Standing, session
  <2>2. HeapShape' /\ BillersStand'
    BY <2>1 DEF Standing, HeapShape, BillersStand, Billing, Billers
  <2>3. NobodyReads' /\ Reserved'
    BY <2>1 DEF Standing, NobodyReads, Reserved, DialStages, ImageStages
  <2> QED
    BY <2>2, <2>3 DEF Standing
<1> QED
  BY <1>1, <1>2 DEF Handler

(***************************************************************************)
(* Realtime: an answer is charged before its end is passed on.             *)
(***************************************************************************)
\* The answer in hand is in what is being charged, and then in what was.
AnswerKept ==
    /\ Billing("target") => answer <= (IF bill["target"].obj = 0 THEN bill["target"].n ELSE 0)
    /\ bill["target"].at = "user" => answer <= bill["target"].reg
    /\ req.priced \/ seen.delivered + (IF bill["target"].at \in {"token", "paid"} THEN answer ELSE 0)
                        <= seen.charged

\* Steps that leave the target's charge alone.
LEMMA AnswerFrame ==
    ASSUME SessionTypes, AnswerKept, UNCHANGED <<req, answer>>, bill'["target"] = bill["target"],
           seen' \in History, seen'.delivered = seen.delivered, seen.charged <= seen'.charged
    PROVE  AnswerKept'
<1>1. /\ seen.delivered \in Nat /\ seen.charged \in Nat /\ seen'.charged \in Nat /\ answer \in Nat
  BY HistoryFields DEF SessionTypes
<1> QED
  BY <1>1 DEF AnswerKept, Billing

\* The steps of a charge keep it.
LEMMA BillAnswer ==
    ASSUME SessionTypes, Standing, AnswerKept, NEW p \in Billers, PreConsumeUsage(p)
    PROVE  AnswerKept'
<1>1. /\ seen.delivered \in Nat /\ seen.charged \in Nat /\ seen.counted \in Nat /\ seen.empty \in Nat
      /\ answer \in Nat /\ seen \in History
      /\ bill \in [Billers -> Bill] /\ "target" \in Billers
  BY HistoryFields DEF SessionTypes, Billers
<1>2. UNCHANGED <<req, answer>>
  BY BillEffect DEF Standing
<1>3. CASE p = "handler"
  <2>1. bill'["target"] = bill["target"]
    <3>1. \E at, reg : BillMoves(p, at, reg)
      BY BillEffect DEF Standing
    <3> QED
      BY <1>1, <1>3, <3>1 DEF BillMoves
  <2>2. \E n, m \in Nat : Adds(0, 0, n, m, 0)
    <3>1. CASE ReadSum(p) \/ WriteSum(p)
      BY <1>1, <3>1, SeenSame DEF ReadSum, WriteSum
    <3>2. CASE CheckQuota(p)
      BY <3>2, CheckQuotaEffect DEF Standing
    <3>3. CASE PayUser(p)
      BY <3>3, PayUserEffect
    <3>4. CASE PayToken(p)
      BY <3>4, PayTokenEffect
    <3> QED
      BY <3>1, <3>2, <3>3, <3>4 DEF PreConsumeUsage
  <2>3. seen' \in History /\ seen'.delivered = seen.delivered /\ seen.charged <= seen'.charged
    BY <1>1, <2>2 DEF Adds
  <2> QED
    BY <1>2, <2>1, <2>3, AnswerFrame
<1>4. CASE p = "target"
  <2> DEFINE b == bill["target"]
  <2>1. b.obj \in Nat /\ b.n \in Nat /\ b.reg \in Nat
    BY <1>1 DEF Bill
  <2>2. CASE ReadSum(p)
    <3>1. BillMoves(p, "store", sum) /\ UNCHANGED seen
      BY <2>2, RegType DEF ReadSum, BillMoves, SessionTypes, BillPlaces
    <3>2. Billing("target") /\ b.at = "sum"
      BY <1>4, <2>2 DEF ReadSum, Billing
    <3> QED
      BY <1>1, <1>2, <1>4, <3>1, <3>2 DEF AnswerKept, BillMoves, Billing
  <2>3. CASE WriteSum(p)
    <3>1. BillMoves(p, "quota", b.reg) /\ UNCHANGED seen
      BY <1>4, <2>3, AtType DEF WriteSum, BillMoves, SessionTypes, BillPlaces
    <3>2. Billing("target") /\ b.at = "store"
      BY <1>4, <2>3 DEF WriteSum, Billing
    <3> QED
      BY <1>1, <1>2, <1>4, <3>1, <3>2 DEF AnswerKept, BillMoves, Billing
  <2>4. CASE CheckQuota(p)
    <3>1. Billing("target") /\ b.at = "quota"
      BY <1>4, <2>4 DEF CheckQuota, Billing
    <3>2. seen'.delivered = seen.delivered /\ seen'.charged = seen.charged
      <4>1. \E m \in Nat : Adds(0, 0, 0, m, 0)
        BY <2>4, CheckQuotaEffect DEF Standing
      <4> QED
        BY <1>1, <4>1 DEF Adds
    <3>3. \/ req.priced /\ BillMoves(p, "paid", b.reg)
          \/ BillMoves(p, "failed", b.reg)
          \/ BillMoves(p, "user", Price(Given(p)))
      BY <1>4, <2>4, CheckQuotaEffect DEF Standing
    <3>4. Given(p) \in Nat /\ Given(p) <= Price(Given(p)) /\ Price(Given(p)) \in Nat
      BY <1>4, <3>1, GivenType DEF Standing, Billing
    <3>5. b.obj = 0 => Given(p) = b.n
      BY <1>4 DEF Given
    <3>6. answer <= Price(Given(p))
      BY <1>1, <2>1, <3>1, <3>4, <3>5 DEF AnswerKept
    <3> HIDE DEF b
    <3>7. CASE req.priced /\ BillMoves(p, "paid", b.reg)
      BY <1>1, <1>2, <1>4, <3>1, <3>7 DEF AnswerKept, BillMoves, Billing, b
    <3>8. CASE BillMoves(p, "failed", b.reg)
      BY <1>1, <1>2, <1>4, <3>1, <3>2, <3>8 DEF AnswerKept, BillMoves, Billing, b
    <3>9. CASE BillMoves(p, "user", Price(Given(p)))
      BY <1>1, <1>2, <1>4, <3>1, <3>2, <3>6, <3>9 DEF AnswerKept, BillMoves, Billing, b
    <3> QED
      BY <3>3, <3>7, <3>8, <3>9
  <2>5. CASE PayUser(p)
    <3>1. Billing("target") /\ b.at = "user"
      BY <1>4, <2>5 DEF PayUser, Billing
    <3>2. \/ BillMoves(p, "token", b.reg) /\ Adds(0, 0, b.reg, 0, 0)
          \/ BillMoves(p, "failed", b.reg) /\ Adds(0, 0, 0, 0, 0)
      BY <1>4, <2>5, PayUserEffect
    <3> HIDE DEF b
    <3>3. CASE BillMoves(p, "token", b.reg) /\ Adds(0, 0, b.reg, 0, 0)
      BY <1>1, <1>2, <1>4, <2>1, <3>1, <3>3 DEF AnswerKept, BillMoves, Billing, Adds, b
    <3>4. CASE BillMoves(p, "failed", b.reg) /\ Adds(0, 0, 0, 0, 0)
      BY <1>1, <1>2, <1>4, <3>1, <3>4 DEF AnswerKept, BillMoves, Billing, Adds, b
    <3> QED
      BY <3>2, <3>3, <3>4
  <2>6. CASE PayToken(p)
    <3>1. Billing("target") /\ b.at = "token"
      BY <1>4, <2>6 DEF PayToken, Billing
    <3>2. BillMoves(p, "paid", b.reg) \/ BillMoves(p, "failed", b.reg)
      BY <1>4, <2>6, PayTokenEffect
    <3>3. Adds(0, 0, 0, 0, 0)
      BY <1>4, <2>6, PayTokenEffect
    <3> HIDE DEF b
    <3> QED
      BY <1>1, <1>2, <1>4, <3>1, <3>2, <3>3 DEF AnswerKept, BillMoves, Billing, Adds, b
  <2> QED
    BY <2>2, <2>3, <2>4, <2>5, <2>6 DEF PreConsumeUsage
<1> QED
  BY <1>3, <1>4 DEF Billers

\* The steps of the target's reader that are about a charge keep it.
LEMMA TargetAnswer ==
    ASSUME SessionTypes, Standing, AnswerKept, TargetDone \/ TargetPaid \/ TargetUnpaid
    PROVE  AnswerKept'
<1>1. /\ seen.delivered \in Nat /\ seen.charged \in Nat /\ seen.counted \in Nat /\ seen.given \in Int
      /\ seen.empty \in Nat /\ answer \in Nat /\ seen \in History /\ usage \in Nat
      /\ bill \in [Billers -> Bill] /\ "target" \in Billers /\ "none" \in BillPlaces
  BY HistoryFields DEF SessionTypes, Billers, BillPlaces
<1>2. CASE TargetDone
  <2>1. UNCHANGED req /\ target = "read"
    BY <1>2 DEF TargetDone, NextEvent
  <2>2. ~Billing("target")
    BY <2>1 DEF Standing, BillersStand
  <2>3. bill'["target"].at = "sum"
    BY <1>2, TargetDoneEffect DEF Standing
  <2>4. PICK n \in Nat : Adds(0, n, 0, 0, 0)
    BY <1>2, TargetDoneEffect DEF Standing
  <2>5. answer' <= IF bill'["target"].obj = 0 THEN bill'["target"].n ELSE 0
    <3>1. Len(heap) \in Nat \ {0}
      BY <1>2, TargetDoneEffect DEF Standing
    <3>2. CASE \E m \in Nat : answer' = m /\ bill'["target"].obj = 0 /\ bill'["target"].n = usage + m
      BY <1>1, <3>2
    <3>3. CASE answer' = 0 /\ bill'["target"].obj = Len(heap)
      BY <3>1, <3>3
    <3> QED
      BY <1>2, <3>2, <3>3, TargetDoneEffect DEF Standing
  <2> QED
    BY <1>1, <2>1, <2>2, <2>3, <2>4, <2>5 DEF AnswerKept, Billing, Adds
<1>3. CASE TargetPaid
  <2>1. UNCHANGED <<req, answer>> /\ bill["target"].at = "paid"
    BY <1>3 DEF TargetPaid
  <2>2. BillMoves("target", "none", bill["target"].reg)
    BY <1>3, TargetPaidEffect DEF Standing
  <2>3. Adds(0, 0, 0, 0, 0) \/ Adds(0, 0, 0, 0, answer)
    BY <1>3, TargetPaidEffect DEF Standing
  <2> QED
    BY <1>1, <2>1, <2>2, <2>3 DEF AnswerKept, Billing, BillMoves, Adds
<1>4. CASE TargetUnpaid
  <2>1. UNCHANGED <<req, answer, seen>> /\ At("target", "none")
    BY <1>4 DEF TargetUnpaid
  <2>2. BillMoves("target", "none", bill["target"].reg)
    BY <1>1, <2>1, AtType DEF BillMoves
  <2> QED
    BY <1>1, <2>1, <2>2 DEF AnswerKept, Billing, BillMoves
<1> QED
  BY <1>2, <1>3, <1>4

\* Every step keeps it.
LEMMA AnswerStep ==
    ASSUME SessionTypes, Standing, AnswerKept, [Next]_vars
    PROVE  AnswerKept'
<1>1. seen \in History /\ HeapShape
  BY DEF SessionTypes, Standing
<1>2. ASSUME UNCHANGED <<req, answer>>, bill'["target"] = bill["target"],
             \E g \in Int : \E c \in Nat : Adds(g, c, 0, 0, 0)
      PROVE  AnswerKept'
  BY <1>1, <1>2, AnswerFrame, HistoryFields DEF Adds
<1>3. ASSUME UNCHANGED <<req, answer, seen, bill>> PROVE AnswerKept'
  BY <1>1, <1>2, <1>3, SeenSame
<1>4. CASE WssHelper \/ ImageHelper \/ ReturnUser \/ ReturnToken
  BY <1>3, <1>4 DEF WssHelper, ImageHelper, Check, TakeToken, TakeUser, Dial, Post, CheckImage,
     MakeImage, RecordImage, PayImage, TokenImage, ReturnUser, ReturnToken, counts
<1>5. CASE ClientRead \/ ClientGone \/ ClientError \/ TargetBad \/ TargetGone \/ TargetError
  BY <1>3, <1>5 DEF ClientRead, ClientGone, ClientError, TargetBad, TargetGone, TargetError, counts
<1>6. CASE ClientAdd
  <2>1. Adds(0, 1, 0, 0, 0)
    BY <1>1, <1>6, ClientAddEffect
  <2> QED
    BY <1>2, <1>6, <2>1 DEF ClientAdd
<1>7. CASE TargetDelta
  <2>1. Adds(0, 1, 0, 0, 0)
    BY <1>7, RacedEffect DEF TargetDelta
  <2> QED
    BY <1>2, <1>7, <2>1 DEF TargetDelta
<1>8. CASE TargetDone \/ TargetPaid \/ TargetUnpaid
  BY <1>8, TargetAnswer
<1>9. CASE Select
  <2>1. Adds(0, 0, 0, 0, 0)
    BY <1>9, SelectEffect
  <2>2. UNCHANGED <<req, answer, bill>>
    BY <1>9 DEF Select, counts
  <2> QED
    BY <1>2, <2>1, <2>2
<1>10. CASE FlushUsage \/ FlushLocal
  <2>1. bill'["target"] = bill["target"] /\ UNCHANGED <<req, answer, seen>>
    BY <1>1, <1>10, HandlerEffect
  <2> QED
    BY <1>1, <1>2, <2>1, SeenSame
<1>11. CASE Others
  BY <1>2, <1>11, OthersEffect DEF Others, counts
<1>12. ASSUME NEW p \in Billers, PreConsumeUsage(p) PROVE AnswerKept'
  BY <1>12, BillAnswer
<1>13. CASE UNCHANGED vars
  BY <1>3, <1>13 DEF vars, counts
<1> QED
  BY <1>4, <1>5, <1>6, <1>7, <1>8, <1>9, <1>10, <1>11, <1>12, <1>13
     DEF Next, ClientReader, TargetReader, Handler, Billers

(***************************************************************************)
(* Realtime: where the quota is while no statement fails.                  *)
(***************************************************************************)
\* The user's quota that a turn has taken, and the token's.
Held == IF stage \in SessionStages \cup {"dial", "served"} THEN pre ELSE 0
HeldToken == IF stage = "takeUser" THEN pre ELSE Held

\* What is on its way back to the user, and to the token after it.
Back == req.reserve * returning.user
BackToken == req.reserve * returning.token

\* What the user has paid and the token has not.
Unpaid(b) == IF b.at = "token" THEN b.reg ELSE 0

SessionBooks ==
    /\ Loss = Held + Back + seen.charged
    /\ TokenLoss = HeldToken + Back + BackToken + seen.charged
                     - Unpaid(bill["target"]) - Unpaid(bill["handler"])
    /\ stage # "served" => used = 0

ImageBooks ==
    /\ used = IF stage \in {"payImage", "tokenImage", "served"} THEN req.price ELSE 0
    /\ Loss = IF stage \in {"tokenImage", "served"} THEN req.price ELSE 0
    /\ TokenLoss = IF stage = "served" THEN req.price ELSE 0

BooksKept ==
    faults = 0 =>
        /\ req.kind = "realtime" => SessionBooks
        /\ req.kind = "image" => ImageBooks

\* The amounts are numbers.
LEMMA AmountTypes ==
    ASSUME SessionTypes
    PROVE  /\ req.reserve \in Nat /\ req.price \in Nat /\ req.quota \in Nat /\ req.remain \in Nat
           /\ user \in Int /\ token \in Int /\ used \in Nat /\ pre \in Nat /\ faults \in Nat
           /\ seen \in History /\ seen.given \in Int /\ seen.charged \in Nat
           /\ seen.counted \in Nat /\ seen.empty \in Nat /\ seen.delivered \in Nat
           /\ Held \in Nat /\ HeldToken \in Nat /\ Back \in Nat /\ BackToken \in Nat
           /\ \A p \in Billers : Unpaid(bill[p]) \in Nat
           /\ "target" \in Billers /\ "handler" \in Billers
           /\ req.kind \in {"realtime", "image"}
<1>1. /\ req.reserve \in Nat /\ req.price \in Nat /\ req.quota \in Nat /\ req.remain \in Nat
      /\ req.kind \in {"realtime", "image"}
  BY RequestType DEF SessionTypes
<1>2. returning.user \in Nat /\ returning.token \in Nat /\ pre \in Nat
  BY DEF SessionTypes
<1>3. Back \in Nat /\ BackToken \in Nat
  BY <1>1, <1>2 DEF Back, BackToken
<1>4. Held \in Nat /\ HeldToken \in Nat
  BY <1>2 DEF Held, HeldToken
<1>5. \A p \in Billers : Unpaid(bill[p]) \in Nat
  BY DEF SessionTypes, Bill, Unpaid
<1>6. /\ seen \in History /\ seen.given \in Int /\ seen.charged \in Nat
      /\ seen.counted \in Nat /\ seen.empty \in Nat /\ seen.delivered \in Nat
  BY HistoryFields DEF SessionTypes
<1> QED
  BY <1>1, <1>3, <1>4, <1>5, <1>6 DEF SessionTypes, Billers

\* One reservation more, or less, is on its way.
LEMMA OneMore ==
    ASSUME NEW r \in Nat, NEW n \in Nat
    PROVE  r * (n + 1) = r * n + r
OBVIOUS

\* Steps that touch no quota.
LEMMA BooksFrame ==
    ASSUME SessionTypes, BooksKept,
           UNCHANGED <<req, user, token, used, stage, pre, returning>>,
           seen'.given = seen.given, seen'.charged = seen.charged,
           \A p \in Billers : Unpaid(bill'[p]) = Unpaid(bill[p]),
           faults' = 0 => faults = 0
    PROVE  BooksKept'
<1>1. /\ Loss' = Loss /\ TokenLoss' = TokenLoss /\ Held' = Held /\ HeldToken' = HeldToken
      /\ Back' = Back /\ BackToken' = BackToken
      /\ Unpaid(bill'["target"]) = Unpaid(bill["target"])
      /\ Unpaid(bill'["handler"]) = Unpaid(bill["handler"])
  BY DEF Loss, TokenLoss, Held, HeldToken, Back, BackToken, Billers
<1> QED
  BY <1>1 DEF BooksKept, SessionBooks, ImageBooks

\* The steps of WssHelper, before the session and after it.
LEMMA HelperBooks ==
    ASSUME SessionTypes, Standing, BooksKept, WssHelper
    PROVE  BooksKept'
<1>0. /\ req.reserve \in Nat /\ req.price \in Nat /\ req.quota \in Nat /\ req.remain \in Nat
      /\ user \in Int /\ token \in Int /\ used \in Nat /\ pre \in Nat /\ faults \in Nat
      /\ seen.given \in Int /\ seen.charged \in Nat
      /\ Back \in Nat /\ BackToken \in Nat
      /\ Unpaid(bill["target"]) \in Nat /\ Unpaid(bill["handler"]) \in Nat
  BY AmountTypes
<1>1. req.kind = "realtime" /\ UNCHANGED <<req, bill, seen>>
  <2>1. req.kind = "realtime"
    BY AmountTypes DEF WssHelper, Check, TakeToken, TakeUser, Dial, Post, Standing, Reserved,
       ImageStages
  <2> QED
    BY <2>1 DEF WssHelper, Check, TakeToken, TakeUser, Dial, Post, counts
<1>2. faults' = 0 => faults = 0
  BY <1>0 DEF WssHelper, Check, TakeToken, TakeUser, Dial, Post, SqlFails, NoFault
<1> SUFFICES ASSUME faults' = 0 PROVE SessionBooks'
  BY <1>1 DEF BooksKept
<1>3. SessionBooks /\ ~SqlFails
  BY <1>0, <1>1, <1>2 DEF BooksKept, SqlFails
<1>4. ASSUME UNCHANGED returning PROVE Back' = Back /\ BackToken' = BackToken
  BY <1>1, <1>4 DEF Back, BackToken
<1>5. CASE Check
  BY <1>0, <1>1, <1>3, <1>4, <1>5 DEF Check, Stop, books, SessionBooks, Loss, TokenLoss,
     Held, HeldToken, SessionStages, Standing, Reserved
<1>6. CASE TakeToken
  BY <1>0, <1>1, <1>3, <1>4, <1>6 DEF TakeToken, Stop, SessionBooks, Loss, TokenLoss,
     Held, HeldToken, SessionStages
<1>7. CASE TakeUser
  <2>1. /\ stage = "takeUser" /\ stage' = "dial" /\ user' = user - pre
        /\ UNCHANGED <<token, used, pre, returning>>
    BY <1>3, <1>7 DEF TakeUser
  <2>2. Loss' = Loss + pre /\ TokenLoss' = TokenLoss /\ Loss \in Int /\ TokenLoss \in Int
    BY <1>0, <1>1, <2>1 DEF Loss, TokenLoss
  <2>3. Held = 0 /\ Held' = pre /\ HeldToken = pre /\ HeldToken' = pre
    BY <2>1 DEF Held, HeldToken, SessionStages
  <2> QED
    BY <1>0, <1>1, <1>3, <1>4, <2>1, <2>2, <2>3 DEF SessionBooks
<1>8. CASE Dial
  <2>1. CASE UNCHANGED <<pre, returning>> /\ stage' = "open"
    BY <1>0, <1>1, <1>3, <1>4, <1>8, <2>1 DEF Dial, books, SessionBooks, Loss, TokenLoss,
       Held, HeldToken, SessionStages
  <2>2. CASE /\ returning' = IF pre = 0 THEN returning ELSE [returning EXCEPT !.user = @ + 1]
             /\ pre' = 0 /\ stage' \in {"failed", "check"}
    <3>1. Back' = Back + pre /\ BackToken' = BackToken
      <4>1. CASE pre = 0
        BY <1>0, <1>4, <2>2, <4>1
      <4>2. CASE pre # 0
        <5>1. pre = req.reserve
          BY <4>2 DEF Standing, Reserved
        <5>2. returning.user \in Nat /\ returning.token \in Nat
          BY DEF SessionTypes
        <5>3. returning' = [returning EXCEPT !.user = @ + 1]
          BY <2>2, <4>2
        <5>4. returning'.user = returning.user + 1 /\ returning'.token = returning.token
          BY <5>3 DEF SessionTypes
        <5>5. req.reserve * (returning.user + 1) = req.reserve * returning.user + req.reserve
          BY <1>0, <5>2, OneMore
        <5> QED
          BY <1>1, <5>1, <5>4, <5>5 DEF Back, BackToken
      <4> QED
        BY <4>1, <4>2
    <3> QED
      BY <1>0, <1>1, <1>3, <1>8, <2>2, <3>1 DEF Dial, books, SessionBooks, Loss, TokenLoss,
         Held, HeldToken, SessionStages
  <2> QED
    BY <1>8, <2>1, <2>2 DEF Dial
<1>9. CASE Post
  BY <1>0, <1>1, <1>3, <1>4, <1>9 DEF Post, Goto, SessionBooks, Loss, TokenLoss,
     Held, HeldToken, SessionStages
<1> QED
  BY <1>5, <1>6, <1>7, <1>8, <1>9 DEF WssHelper

\* The steps of ImageHelper.
LEMMA ImageKept ==
    ASSUME SessionTypes, Standing, BooksKept, ImageHelper
    PROVE  BooksKept'
<1>0. /\ req.reserve \in Nat /\ req.price \in Nat /\ req.quota \in Nat /\ req.remain \in Nat
      /\ user \in Int /\ token \in Int /\ used \in Nat /\ faults \in Nat /\ seen.given \in Int
  BY AmountTypes
<1>1. req.kind = "image" /\ UNCHANGED <<req, seen>>
  <2>1. req.kind = "image"
    BY AmountTypes DEF ImageHelper, CheckImage, MakeImage, RecordImage, PayImage, TokenImage,
       Standing, Reserved, ImageStages
  <2> QED
    BY <2>1 DEF ImageHelper, CheckImage, MakeImage, RecordImage, PayImage, TokenImage
<1>2. faults' = 0 => faults = 0
  BY <1>0 DEF ImageHelper, CheckImage, MakeImage, RecordImage, PayImage, TokenImage,
     SqlFails, NoFault
<1> SUFFICES ASSUME faults' = 0 PROVE ImageBooks'
  BY <1>1 DEF BooksKept
<1>3. ImageBooks /\ ~SqlFails
  BY <1>0, <1>1, <1>2 DEF BooksKept, SqlFails
<1>4. CASE CheckImage
  BY <1>0, <1>1, <1>3, <1>4 DEF CheckImage, Stop, Goto, books, ImageBooks, Loss, TokenLoss
<1>5. CASE MakeImage
  BY <1>0, <1>1, <1>3, <1>5 DEF MakeImage, Goto, books, ImageBooks, Loss, TokenLoss
<1>6. CASE RecordImage
  BY <1>0, <1>1, <1>3, <1>6 DEF RecordImage, Goto, ImageBooks, Loss, TokenLoss
<1>7. CASE PayImage
  <2>1. /\ stage = "payImage" /\ stage' = "tokenImage" /\ user' = user - req.price
        /\ UNCHANGED <<token, used>>
    BY <1>3, <1>7 DEF PayImage, Goto
  <2>2. Loss' = Loss + req.price /\ TokenLoss' = TokenLoss
    BY <1>0, <1>1, <2>1 DEF Loss, TokenLoss
  <2> QED
    BY <1>0, <1>1, <1>3, <2>1, <2>2 DEF ImageBooks
<1>8. CASE TokenImage
  BY <1>0, <1>1, <1>3, <1>8 DEF TokenImage, Goto, ImageBooks, Loss, TokenLoss
<1> QED
  BY <1>4, <1>5, <1>6, <1>7, <1>8 DEF ImageHelper

\* A reservation comes back, to the user and then to the token; others spend.
LEMMA ReturnBooks ==
    ASSUME SessionTypes, Standing, BooksKept, ReturnUser \/ ReturnToken
    PROVE  BooksKept'
<1>0. /\ req.reserve \in Nat /\ req.quota \in Nat /\ req.remain \in Nat
      /\ user \in Int /\ token \in Int /\ faults \in Nat
      /\ seen.given \in Int /\ seen.charged \in Nat
      /\ Held \in Nat /\ HeldToken \in Nat /\ Back \in Nat /\ BackToken \in Nat
      /\ Unpaid(bill["target"]) \in Nat /\ Unpaid(bill["handler"]) \in Nat
  BY AmountTypes
<1>1. returning.user \in Nat /\ returning.token \in Nat /\ returning \in [user : Nat, token : Nat]
  BY DEF SessionTypes
<1>2. req.kind = "realtime" /\ UNCHANGED <<req, bill, seen, stage, pre, used>>
  <2>1. req.kind = "realtime"
    BY <1>1, AmountTypes DEF ReturnUser, ReturnToken, Standing, Reserved
  <2> QED
    BY <2>1 DEF ReturnUser, ReturnToken, counts
<1>3. faults' = 0 => faults = 0
  BY <1>0 DEF ReturnUser, ReturnToken, SqlFails, NoFault
<1> SUFFICES ASSUME faults' = 0 PROVE SessionBooks'
  BY <1>2 DEF BooksKept
<1>4. SessionBooks /\ ~SqlFails /\ Held' = Held /\ HeldToken' = HeldToken
  BY <1>0, <1>2, <1>3 DEF BooksKept, SqlFails, Held, HeldToken
<1>5. CASE ReturnUser
  <2> DEFINE u == returning.user - 1
  <2> DEFINE t == returning.token + 1
  <2>1. u \in Nat /\ t \in Nat /\ returning.user = u + 1
    BY <1>1, <1>5 DEF ReturnUser
  <2>2. user' = user + req.reserve /\ returning' = [returning EXCEPT !.user = u, !.token = t]
    BY <1>4, <1>5 DEF ReturnUser
  <2>3. UNCHANGED token
    BY <1>5 DEF ReturnUser
  <2>4. req.reserve * (u + 1) = req.reserve * u + req.reserve
    BY <1>0, <2>1, OneMore
  <2>5. req.reserve * t = req.reserve * returning.token + req.reserve
    BY <1>0, <1>1, OneMore
  <2> HIDE DEF u, t
  <2>6. returning'.user = u /\ returning'.token = t
    BY <1>1, <2>2
  <2>7. Back = Back' + req.reserve /\ BackToken' = BackToken + req.reserve
    BY <1>2, <2>1, <2>4, <2>5, <2>6 DEF Back, BackToken
  <2>8. Back' \in Int
    BY <1>0, <2>1, <2>6, <1>2 DEF Back
  <2>9. Loss' = Loss - req.reserve /\ TokenLoss' = TokenLoss /\ Loss \in Int
    BY <1>0, <1>2, <2>2, <2>3 DEF Loss, TokenLoss
  <2> QED
    BY <1>0, <1>2, <1>4, <2>7, <2>8, <2>9 DEF SessionBooks
<1>6. CASE ReturnToken
  <2> DEFINE t == returning.token - 1
  <2>1. t \in Nat /\ returning.token = t + 1
    BY <1>1, <1>6 DEF ReturnToken
  <2>2. token' = token + req.reserve /\ returning' = [returning EXCEPT !.token = t]
    BY <1>4, <1>6 DEF ReturnToken
  <2>3. UNCHANGED user
    BY <1>6 DEF ReturnToken
  <2>4. req.reserve * (t + 1) = req.reserve * t + req.reserve
    BY <1>0, <2>1, OneMore
  <2> HIDE DEF t
  <2>6. returning'.user = returning.user /\ returning'.token = t
    BY <1>1, <2>2
  <2>7. Back' = Back /\ BackToken = BackToken' + req.reserve
    BY <1>2, <2>1, <2>4, <2>6 DEF Back, BackToken
  <2>8. BackToken' \in Int
    BY <1>0, <2>1, <2>6, <1>2 DEF BackToken
  <2>9. Loss' = Loss /\ TokenLoss' = TokenLoss - req.reserve /\ TokenLoss \in Int
    BY <1>0, <1>2, <2>2, <2>3 DEF Loss, TokenLoss
  <2> QED
    BY <1>0, <1>2, <1>4, <2>7, <2>8, <2>9 DEF SessionBooks
<1> QED
  BY <1>5, <1>6

\* The steps of a charge: the user has paid, then the token.
LEMMA BillBooks ==
    ASSUME SessionTypes, Standing, BooksKept, NEW p \in Billers, PreConsumeUsage(p)
    PROVE  BooksKept'
<1>0. /\ req.reserve \in Nat /\ req.quota \in Nat /\ req.remain \in Nat
      /\ user \in Int /\ token \in Int /\ faults \in Nat
      /\ seen.given \in Int /\ seen.charged \in Nat /\ seen \in History
      /\ seen.counted \in Nat /\ seen.empty \in Nat /\ seen.delivered \in Nat
      /\ Held \in Nat /\ HeldToken \in Nat /\ Back \in Nat /\ BackToken \in Nat
      /\ Unpaid(bill["target"]) \in Nat /\ Unpaid(bill["handler"]) \in Nat
      /\ bill \in [Billers -> Bill] /\ "target" \in Billers /\ "handler" \in Billers
  BY AmountTypes DEF SessionTypes
<1>1. Billing(p)
  BY BillEffect DEF Billing, Standing
<1>2. req.kind = "realtime"
  BY <1>1, WhoBills
<1>3. UNCHANGED <<req, stage, pre, returning, used>>
  BY BillEffect DEF Standing
<1>4. CASE ReadSum(p) \/ WriteSum(p)
  <2>1. UNCHANGED <<user, token, seen, faults>>
    BY <1>4 DEF ReadSum, WriteSum, books
  <2>2. bill[p].at # "token" /\ \E at \in {"store", "quota"} : \E reg : BillMoves(p, at, reg)
    <3>1. CASE ReadSum(p)
      BY <3>1, RegType DEF ReadSum, BillMoves, SessionTypes, BillPlaces
    <3>2. CASE WriteSum(p)
      BY <3>2, AtType DEF WriteSum, BillMoves, SessionTypes, BillPlaces
    <3> QED
      BY <1>4, <3>1, <3>2
  <2>3. \A r \in Billers : Unpaid(bill'[r]) = Unpaid(bill[r])
    BY <2>2 DEF BillMoves, Unpaid
  <2> QED
    BY <1>3, <2>1, <2>3, BooksFrame
<1>5. CASE CheckQuota(p)
  <2>1. UNCHANGED <<user, token>>
    BY <1>5 DEF CheckQuota, books
  <2>2. /\ bill[p].at = "quota"
        /\ \E at \in {"paid", "failed", "user"} : \E reg : BillMoves(p, at, reg)
        /\ \E m \in Nat : Adds(0, 0, 0, m, 0)
        /\ faults' \in {faults, faults + 1}
    BY <1>5, CheckQuotaEffect DEF Standing
  <2>3. \A r \in Billers : Unpaid(bill'[r]) = Unpaid(bill[r])
    BY <2>2 DEF BillMoves, Unpaid
  <2>4. seen'.given = seen.given /\ seen'.charged = seen.charged /\ (faults' = 0 => faults = 0)
    BY <1>0, <2>2 DEF Adds
  <2> QED
    BY <1>3, <2>1, <2>3, <2>4, BooksFrame
<1>6. CASE PayUser(p) \/ PayToken(p)
  <2> SUFFICES ASSUME faults' = 0 PROVE SessionBooks'
    BY <1>2, <1>3 DEF BooksKept
  <2>1. faults' = faults /\ faults' # faults + 1
    BY <1>0, <1>6 DEF PayUser, PayToken, SqlFails, NoFault
  <2>2. /\ SessionBooks /\ Held' = Held /\ HeldToken' = HeldToken
        /\ Back' = Back /\ BackToken' = BackToken
    BY <1>2, <1>3, <2>1 DEF BooksKept, Held, HeldToken, Back, BackToken
  <2>3. Loss \in Int /\ TokenLoss \in Int /\ bill[p].reg \in Nat
    BY <1>0 DEF Loss, TokenLoss, Bill
  <2>4. p = "target" \/ p = "handler"
    BY DEF Billers
  <2>5. CASE PayUser(p)
    <3>1. /\ bill[p].at = "user" /\ user' = user - bill[p].reg
          /\ BillMoves(p, "token", bill[p].reg) /\ Adds(0, 0, bill[p].reg, 0, 0)
      BY <2>1, <2>5, PayUserEffect
    <3>2. UNCHANGED token
      BY <2>5 DEF PayUser
    <3>3. /\ Loss' = Loss + bill[p].reg /\ TokenLoss' = TokenLoss
          /\ seen'.charged = seen.charged + bill[p].reg
      BY <1>0, <1>3, <2>3, <3>1, <3>2 DEF Loss, TokenLoss, Adds
    <3>4. Unpaid(bill[p]) = 0 /\ Unpaid(bill'[p]) = bill[p].reg
      BY <3>1 DEF BillMoves, Unpaid
    <3>5. \A r \in Billers \ {p} : Unpaid(bill'[r]) = Unpaid(bill[r])
      BY <3>1 DEF BillMoves, Unpaid
    <3>6. Unpaid(bill'["target"]) + Unpaid(bill'["handler"])
            = Unpaid(bill["target"]) + Unpaid(bill["handler"]) + bill[p].reg
      <4>1. CASE p = "target"
        BY <1>0, <2>3, <3>4, <3>5, <4>1
      <4>2. CASE p = "handler"
        BY <1>0, <2>3, <3>4, <3>5, <4>2
      <4> QED
        BY <2>4, <4>1, <4>2
    <3>7. Unpaid(bill'["target"]) \in Nat /\ Unpaid(bill'["handler"]) \in Nat
      BY <1>0, <3>1 DEF BillMoves, Unpaid, Bill
    <3> QED
      BY <1>0, <1>3, <2>2, <2>3, <3>3, <3>6, <3>7 DEF SessionBooks
  <2>6. CASE PayToken(p)
    <3>1. /\ bill[p].at = "token" /\ token' = token - bill[p].reg
          /\ BillMoves(p, "paid", bill[p].reg) /\ Adds(0, 0, 0, 0, 0)
      BY <2>1, <2>6, PayTokenEffect
    <3>2. UNCHANGED user
      BY <2>6 DEF PayToken
    <3>3. /\ Loss' = Loss /\ TokenLoss' = TokenLoss + bill[p].reg
          /\ seen'.charged = seen.charged
      BY <1>0, <1>3, <2>3, <3>1, <3>2 DEF Loss, TokenLoss, Adds
    <3>4. Unpaid(bill[p]) = bill[p].reg /\ Unpaid(bill'[p]) = 0
      BY <3>1 DEF BillMoves, Unpaid
    <3>5. \A r \in Billers \ {p} : Unpaid(bill'[r]) = Unpaid(bill[r])
      BY <3>1 DEF BillMoves, Unpaid
    <3>6. Unpaid(bill'["target"]) + Unpaid(bill'["handler"]) + bill[p].reg
            = Unpaid(bill["target"]) + Unpaid(bill["handler"])
      <4>1. CASE p = "target"
        BY <1>0, <2>3, <3>4, <3>5, <4>1
      <4>2. CASE p = "handler"
        BY <1>0, <2>3, <3>4, <3>5, <4>2
      <4> QED
        BY <2>4, <4>1, <4>2
    <3>7. Unpaid(bill'["target"]) \in Nat /\ Unpaid(bill'["handler"]) \in Nat
      BY <1>0, <3>1 DEF BillMoves, Unpaid, Bill
    <3> QED
      BY <1>0, <1>3, <2>2, <2>3, <3>3, <3>6, <3>7 DEF SessionBooks
  <2> QED
    BY <1>6, <2>5, <2>6
<1> QED
  BY <1>4, <1>5, <1>6 DEF PreConsumeUsage

\* The handler goes on, and charges what is left.
LEMMA HandlerBooks ==
    ASSUME SessionTypes, Standing, BooksKept, Handler
    PROVE  BooksKept'
<1>0. /\ seen.charged \in Nat /\ seen.given \in Int /\ seen \in History /\ HeapShape
      /\ bill \in [Billers -> Bill] /\ "target" \in Billers /\ "handler" \in Billers
  BY AmountTypes DEF SessionTypes, Standing
<1>1. /\ UNCHANGED <<req, user, token, used, pre, returning, faults>>
      /\ stage \in {"open", "usage", "local"} /\ stage' \in {"usage", "local", "post"}
      /\ seen'.given = seen.given /\ seen'.charged = seen.charged
      /\ bill'["target"] = bill["target"] /\ Unpaid(bill'["handler"]) = Unpaid(bill["handler"])
  <2>1. CASE Select
    <3>1. Adds(0, 0, 0, 0, 0)
      BY <2>1, SelectEffect
    <3>2. seen'.given = seen.given /\ seen'.charged = seen.charged
      BY <1>0, <3>1 DEF Adds
    <3> QED
      BY <2>1, <3>2 DEF Select, Goto, books, counts
  <2>2. CASE FlushUsage \/ FlushLocal
    <3>1. /\ UNCHANGED <<req, user, token, used, pre, returning, faults, seen>>
          /\ stage \in {"usage", "local"} /\ stage' \in {"usage", "local", "post"}
          /\ bill'["target"] = bill["target"] /\ bill'["handler"].at \in {"none", "sum"}
      BY <1>0, <2>2, HandlerEffect DEF books
    <3>2. bill["handler"].at # "token"
      BY <2>2 DEF FlushUsage, FlushLocal, Flush
    <3> QED
      BY <3>1, <3>2 DEF Unpaid
  <2> QED
    BY <2>1, <2>2 DEF Handler
<1>2. req.kind = "realtime"
  BY <1>1, AmountTypes DEF Standing, Reserved, ImageStages
<1>3. Held' = Held /\ HeldToken' = HeldToken /\ Back' = Back /\ BackToken' = BackToken
  BY <1>1 DEF Held, HeldToken, SessionStages, Back, BackToken
<1>4. Loss' = Loss /\ TokenLoss' = TokenLoss
  BY <1>1 DEF Loss, TokenLoss
<1> QED
  BY <1>1, <1>2, <1>3, <1>4 DEF BooksKept, SessionBooks

\* Every step keeps the books.
LEMMA BooksStep ==
    ASSUME SessionTypes, Standing, BooksKept, [Next]_vars
    PROVE  BooksKept'
<1>0. /\ seen.charged \in Nat /\ seen.given \in Int /\ seen \in History /\ HeapShape
      /\ bill \in [Billers -> Bill] /\ "target" \in Billers /\ "handler" \in Billers
      /\ answer \in Nat /\ "none" \in BillPlaces
      /\ user \in Int /\ req.quota \in Nat
  BY AmountTypes DEF SessionTypes, Standing, BillPlaces
<1>1. ASSUME UNCHANGED <<req, books, helper, faults>>,
             \E c, d \in Nat : Adds(0, c, 0, 0, d),
             \A p \in Billers : Unpaid(bill'[p]) = Unpaid(bill[p])
      PROVE  BooksKept'
  <2>1. seen'.given = seen.given /\ seen'.charged = seen.charged
    BY <1>0, <1>1 DEF Adds
  <2> QED
    BY <1>1, <2>1, BooksFrame DEF books, helper
<1>2. ASSUME UNCHANGED <<req, books, helper, faults, seen, bill>> PROVE BooksKept'
  BY <1>2, BooksFrame DEF books, helper
<1>3. CASE WssHelper
  BY <1>3, HelperBooks
<1>4. CASE ImageHelper
  BY <1>4, ImageKept
<1>5. CASE ReturnUser \/ ReturnToken
  BY <1>5, ReturnBooks
<1>6. CASE ClientRead \/ ClientGone \/ ClientError \/ TargetBad \/ TargetGone \/ TargetError
  BY <1>2, <1>6 DEF ClientRead, ClientGone, ClientError, TargetBad, TargetGone, TargetError, counts
<1>7. CASE ClientAdd
  <2>1. Adds(0, 1, 0, 0, 0)
    BY <1>0, <1>7, ClientAddEffect
  <2>2. UNCHANGED <<req, books, helper, faults, bill>>
    BY <1>7 DEF ClientAdd
  <2> QED
    BY <1>1, <2>1, <2>2
<1>8. CASE TargetDelta
  <2>1. Adds(0, 1, 0, 0, 0)
    BY <1>8, RacedEffect DEF TargetDelta
  <2>2. UNCHANGED <<req, books, helper, faults, bill>>
    BY <1>8 DEF TargetDelta
  <2> QED
    BY <1>1, <2>1, <2>2
<1>9. CASE TargetDone
  <2>1. \E c \in Nat : Adds(0, c, 0, 0, 0)
    BY <1>0, <1>9, TargetDoneEffect
  <2>2. bill'["handler"] = bill["handler"] /\ bill'["target"].at = "sum"
    BY <1>0, <1>9, TargetDoneEffect
  <2>3. ~Billing("target")
    BY <1>9 DEF TargetDone, NextEvent, Standing, BillersStand
  <2>4. \A p \in Billers : Unpaid(bill'[p]) = Unpaid(bill[p])
    BY <2>2, <2>3 DEF Unpaid, Billing, Billers
  <2>5. UNCHANGED <<req, books, helper, faults>>
    BY <1>9 DEF TargetDone
  <2> QED
    BY <1>1, <2>1, <2>4, <2>5
<1>10. CASE TargetPaid
  <2>1. \E d \in Nat : Adds(0, 0, 0, 0, d)
    BY <1>0, <1>10, TargetPaidEffect
  <2>2. BillMoves("target", "none", bill["target"].reg) /\ bill["target"].at = "paid"
    BY <1>0, <1>10, TargetPaidEffect DEF TargetPaid
  <2>3. \A p \in Billers : Unpaid(bill'[p]) = Unpaid(bill[p])
    BY <2>2 DEF Unpaid, BillMoves
  <2>4. UNCHANGED <<req, books, helper, faults>>
    BY <1>10 DEF TargetPaid
  <2> QED
    BY <1>1, <2>1, <2>3, <2>4
<1>11. CASE TargetUnpaid
  <2>1. BillMoves("target", "none", bill["target"].reg) /\ bill["target"].at = "failed"
    BY <1>0, <1>11, AtType DEF TargetUnpaid, BillMoves
  <2>2. \A p \in Billers : Unpaid(bill'[p]) = Unpaid(bill[p])
    BY <2>1 DEF Unpaid, BillMoves
  <2>3. UNCHANGED <<req, books, helper, faults, seen>>
    BY <1>11 DEF TargetUnpaid
  <2> QED
    BY <2>2, <2>3, BooksFrame DEF books, helper
<1>12. CASE Handler
  BY <1>12, HandlerBooks
<1>13. CASE Others
  <2>1. PICK d \in Int : user' = user + d /\ Adds(d, 0, 0, 0, 0)
    BY <1>13, OthersEffect
  <2>2. Loss' = Loss /\ seen'.charged = seen.charged
    BY <1>0, <1>13, <2>1 DEF Loss, Adds, Others
  <2>3. /\ UNCHANGED <<req, token, used, faults, bill>>
        /\ Held' = Held /\ HeldToken' = HeldToken /\ Back' = Back /\ BackToken' = BackToken
        /\ stage' = stage /\ TokenLoss' = TokenLoss
    BY <1>13 DEF Others, helper, counts, Held, HeldToken, Back, BackToken, TokenLoss
  <2> QED
    BY <2>2, <2>3 DEF BooksKept, SessionBooks, ImageBooks
<1>14. ASSUME NEW p \in Billers, PreConsumeUsage(p) PROVE BooksKept'
  BY <1>14, BillBooks
<1>15. CASE UNCHANGED vars
  BY <1>2, <1>15 DEF vars, counts
<1> QED
  BY <1>3, <1>4, <1>5, <1>6, <1>7, <1>8, <1>9, <1>10, <1>11, <1>12, <1>13, <1>14, <1>15
     DEF Next, ClientReader, TargetReader, Billers

(***************************************************************************)
(* Realtime: without a race one charge is under way at a time, and it is   *)
(* of what there is.                                                       *)
(***************************************************************************)
Apart ==
    ~seen.raced =>
        /\ Billing("target") => stage = "open"
        /\ \A p \in Billers : Billing(p) =>
             IF bill[p].obj = 0 THEN bill[p].n = usage ELSE bill[p].obj = Len(heap)

\* Then one charges at most.
LEMMA OnlyOne ==
    ASSUME SessionTypes, Standing, Apart, ~seen.raced
    PROVE  /\ ~Billing("target") \/ ~Billing("handler")
           /\ Billing("target") => stage = "open"
           /\ Billing("handler") => stage \in {"usage", "local"}
BY DEF Standing, BillersStand, Apart

\* Steps that begin no charge, and leave usage and the last localUsage's place.
LEMMA ApartFrame ==
    ASSUME Apart, UNCHANGED <<stage, usage>>, Len(heap') = Len(heap), ~seen'.raced => ~seen.raced,
           \A p \in Billers : /\ Billing(p)' => Billing(p)
                              /\ bill'[p].obj = bill[p].obj /\ bill'[p].n = bill[p].n
    PROVE  Apart'
BY DEF Apart, Billing, Billers

\* While nobody charges.
LEMMA NobodyApart ==
    ASSUME ~Billing("target")', ~Billing("handler")'
    PROVE  Apart'
BY DEF Apart, Billing, Billers

\* A helper's step is taken while nobody charges, unless there was a race.
LEMMA HelperAlone ==
    ASSUME SessionTypes, Standing, Apart, ~seen.raced, WssHelper \/ ImageHelper
    PROVE  ~Billing("target") /\ ~Billing("handler") /\ UNCHANGED <<bill, usage, heap, sum, seen, req>>
<1>1. stage \in DialStages \cup ImageStages \cup {"post"} /\ UNCHANGED <<bill, usage, heap, sum, seen, req>>
  BY DEF WssHelper, ImageHelper, Check, TakeToken, TakeUser, Dial, Post, CheckImage,
     MakeImage, RecordImage, PayImage, TokenImage, counts, DialStages, ImageStages
<1>2. CASE stage = "post"
  BY <1>1, <1>2, OnlyOne
<1>3. CASE stage # "post"
  BY <1>1, <1>3 DEF Standing, NobodyReads, BillersStand
<1> QED
  BY <1>2, <1>3, <1>1

\* Every step keeps charges apart, or notes a race.
LEMMA ApartStep ==
    ASSUME SessionTypes, Standing, Apart, [Next]_vars
    PROVE  Apart'
<1> SUFFICES ASSUME ~seen'.raced PROVE Apart'
  BY DEF Apart
<1>0. /\ HeapShape /\ seen \in History /\ bill \in [Billers -> Bill]
      /\ "target" \in Billers /\ "handler" \in Billers /\ "none" \in BillPlaces
  BY DEF Standing, SessionTypes, Billers, BillPlaces
<1>1. ASSUME UNCHANGED <<stage, usage, heap, bill>>, seen'.raced = seen.raced PROVE Apart'
  BY <1>1, ApartFrame DEF Billing
<1>2. CASE WssHelper \/ ImageHelper
  <2>1. ~seen.raced
    BY <1>2 DEF WssHelper, ImageHelper, Check, TakeToken, TakeUser, Dial, Post, CheckImage,
       MakeImage, RecordImage, PayImage, TokenImage
  <2>2. ~Billing("target")' /\ ~Billing("handler")'
    BY <1>2, <2>1, HelperAlone DEF Billing
  <2> QED
    BY <2>2, NobodyApart
<1>3. CASE ReturnUser \/ ReturnToken
  BY <1>1, <1>3 DEF ReturnUser, ReturnToken, counts
<1>4. CASE ClientRead \/ ClientGone \/ ClientError \/ TargetBad \/ TargetGone \/ TargetError
  BY <1>1, <1>4 DEF ClientRead, ClientGone, ClientError, TargetBad, TargetGone, TargetError,
     counts, helper
<1>5. CASE ClientAdd
  <2>1. Len(heap') = Len(heap) /\ (~seen'.raced => ~seen.raced)
    BY <1>0, <1>5, ClientAddEffect
  <2>2. UNCHANGED <<stage, usage, bill>>
    BY <1>5 DEF ClientAdd, helper
  <2> QED
    BY <2>1, <2>2, ApartFrame DEF Billing
<1>6. CASE TargetDelta
  <2>1. Len(heap') = Len(heap)
    BY <1>0, <1>6, AddLocalEffect DEF TargetDelta
  <2>2. ~seen.raced
    BY <1>6, RacedEffect DEF TargetDelta
  <2>3. UNCHANGED <<stage, usage, bill>>
    BY <1>6 DEF TargetDelta, helper
  <2> QED
    BY <2>1, <2>2, <2>3, ApartFrame DEF Billing
<1>7. CASE TargetDone
  <2>1. ~seen.raced /\ stage = "open" /\ bill'["handler"] = bill["handler"] /\ Len(heap') = Len(heap)
    BY <1>0, <1>7, TargetDoneEffect
  <2>2. ~Billing("handler")'
    BY <2>1, OnlyOne DEF Billing
  <2>3. UNCHANGED stage
    BY <1>7 DEF TargetDone, helper
  <2>4. IF bill'["target"].obj = 0 THEN bill'["target"].n = usage' ELSE bill'["target"].obj = Len(heap')
    <3>1. \/ \E n \in Nat : usage' = usage + n /\ bill'["target"].obj = 0 /\ bill'["target"].n = usage + n
          \/ bill'["target"].obj = Len(heap) /\ Len(heap) # 0
      BY <1>0, <1>7, TargetDoneEffect
    <3> QED
      BY <2>1, <3>1
  <2> QED
    BY <2>1, <2>2, <2>3, <2>4 DEF Apart, Billing, Billers
<1>8. CASE TargetPaid \/ TargetUnpaid
  <2>1. ~seen.raced /\ BillMoves("target", "none", bill["target"].reg)
    <3>1. CASE TargetPaid
      BY <1>0, <3>1, TargetPaidEffect
    <3>2. CASE TargetUnpaid
      BY <1>0, <3>2, AtType DEF TargetUnpaid, BillMoves
    <3> QED
      BY <1>8, <3>1, <3>2
  <2>2. Billing("target")
    BY <1>8 DEF TargetPaid, TargetUnpaid, Billing
  <2>3. ~Billing("handler")
    BY <2>1, <2>2, OnlyOne
  <2>4. ~Billing("target")' /\ ~Billing("handler")'
    BY <1>0, <2>1, <2>3 DEF BillMoves, Billing, Billers
  <2> QED
    BY <2>4, NobodyApart
<1>9. CASE Select
  <2>1. ~seen.raced /\ target # "bill"
    BY <1>9, SelectEffect
  <2>2. stage = "open" /\ UNCHANGED bill
    BY <1>9 DEF Select, counts
  <2>3. ~Billing("target") /\ ~Billing("handler")
    BY <2>1, <2>2 DEF Standing, BillersStand
  <2> QED
    BY <2>2, <2>3, NobodyApart DEF Billing
<1>10. CASE FlushUsage \/ FlushLocal
  <2>1. /\ UNCHANGED <<usage, heap, seen>> /\ bill'["target"] = bill["target"]
        /\ \/ /\ bill'["handler"].at = "sum"
              /\ \/ stage = "usage" /\ bill'["handler"].obj = 0 /\ bill'["handler"].n = usage
                 \/ stage = "local" /\ bill'["handler"].obj = Len(heap) /\ Len(heap) # 0
           \/ /\ bill'["handler"].at = "none"
              /\ stage \in {"usage", "local"}
    BY <1>0, <1>10, HandlerEffect
  <2>2. ~Billing("target")
    BY <2>1, OnlyOne
  <2> QED
    BY <2>1, <2>2 DEF Apart, Billing, Billers
<1>11. CASE Others
  BY <1>1, <1>11, OthersEffect DEF Others, counts, helper
<1>12. ASSUME NEW p \in Billers, PreConsumeUsage(p) PROVE Apart'
  <2>1. PICK at, reg : bill[p].at # "none" /\ BillMoves(p, at, reg)
    BY <1>0, <1>12, BillEffect
  <2>2. UNCHANGED <<stage, usage, heap>> /\ seen'.raced = seen.raced
    BY <1>0, <1>12, BillEffect
  <2>3. \A r \in Billers : /\ Billing(r)' => Billing(r)
                           /\ bill'[r].obj = bill[r].obj /\ bill'[r].n = bill[r].n
    BY <2>1 DEF BillMoves, Billing
  <2> QED
    BY <2>2, <2>3, ApartFrame
<1>13. CASE UNCHANGED vars
  BY <1>1, <1>13 DEF vars, counts, helper
<1> QED
  BY <1>2, <1>3, <1>4, <1>5, <1>6, <1>7, <1>8, <1>9, <1>10, <1>11, <1>12, <1>13
     DEF Next, ClientReader, TargetReader, Handler, Billers

(***************************************************************************)
(* Realtime: nothing is charged that was not counted, and nothing twice.   *)
(***************************************************************************)
\* What a charge of x still has to take.
Left(b, x) == IF b.at \in {"token", "paid"} THEN 0 ELSE IF b.at = "user" THEN b.reg ELSE x

\* What is in usage, u, and in the last localUsage, l, and still to be charged:
\* s is the stage, t and h the two bills.
UsageLeft(s, t, h, u) ==
    IF s \in {"local", "post", "served"} THEN 0
    ELSE IF t.at # "none" /\ t.obj = 0 THEN Left(t, u)
    ELSE IF h.at # "none" /\ h.obj = 0 THEN Left(h, u) ELSE u
LastLeft(s, t, h, l) ==
    IF s \in {"post", "served"} THEN 0
    ELSE IF t.at # "none" /\ t.obj # 0 THEN Left(t, l)
    ELSE IF h.at # "none" /\ h.obj # 0 THEN Left(h, l) ELSE l
Leftover(s, t, h, u, l) == UsageLeft(s, t, h, u) + LastLeft(s, t, h, l)

\* What was charged and what is left was counted, or is the one that nothing costs.
CountedKept ==
    faults = 0 /\ ~seen.raced /\ ~req.priced =>
        seen.charged + Leftover(stage, bill["target"], bill["handler"], usage, heap[Len(heap)])
            <= seen.counted + seen.empty

\* What was added to sumUsage and is not charged yet.
Summed(b, given) == IF b.at = "quota" THEN given ELSE IF b.at = "user" THEN b.reg ELSE 0

\* What was added was charged, or will be; what is recorded was.
SumKept ==
    faults = 0 /\ ~seen.raced /\ ~req.priced /\ ~seen.failed =>
        /\ sum <= seen.charged + Summed(bill["target"], Given("target"))
                                + Summed(bill["handler"], Given("handler"))
        /\ \A p \in Billers : bill[p].at = "store" => bill[p].reg = sum
        /\ req.kind = "realtime" => used <= seen.charged

\* What is left when the target's reader charges, when the handler does, and
\* when nobody does.
LEMMA LeftoverCases ==
    ASSUME NEW s, NEW t \in Bill, NEW h \in Bill, NEW u \in Nat, NEW l \in Nat
    PROVE  /\ Leftover(s, t, h, u, l) \in Nat
           /\ t.at # "none" /\ h.at = "none" /\ s = "open" =>
                Leftover(s, t, h, u, l) = IF t.obj = 0 THEN Left(t, u) + l ELSE u + Left(t, l)
           /\ h.at # "none" /\ t.at = "none" /\ s = "usage" /\ h.obj = 0 =>
                Leftover(s, t, h, u, l) = Left(h, u) + l
           /\ h.at # "none" /\ t.at = "none" /\ s = "local" /\ h.obj # 0 =>
                Leftover(s, t, h, u, l) = Left(h, l)
           /\ t.at = "none" /\ h.at = "none" =>
                Leftover(s, t, h, u, l) = IF s \in {"post", "served"} THEN 0
                                          ELSE IF s = "local" THEN l ELSE u + l
<1>1. t.reg \in Nat /\ h.reg \in Nat
  BY DEF Bill
<1> QED
  BY <1>1 DEF Leftover, UsageLeft, LastLeft, Left

\* What is left when one charges: its own part and the rest.
Rest(p) == IF bill[p].obj = 0 THEN heap[Len(heap)] ELSE IF stage = "open" THEN usage ELSE 0

LEMMA LeftoverAlone ==
    ASSUME SessionTypes, Standing, Apart, ~seen.raced, NEW p \in Billers, Billing(p),
           NEW b \in Bill, b.at # "none", b.obj = bill[p].obj
    PROVE  LET t == IF p = "target" THEN b ELSE bill["target"]
               h == IF p = "handler" THEN b ELSE bill["handler"]
           IN  Leftover(stage, t, h, usage, heap[Len(heap)]) = Left(b, Given(p)) + Rest(p)
<1> DEFINE l == heap[Len(heap)]
<1>1. /\ bill["target"] \in Bill /\ bill["handler"] \in Bill /\ usage \in Nat /\ l \in Nat
      /\ bill[p] \in Bill
  BY DEF SessionTypes, Standing, HeapShape, Billers
<1>2. Given(p) = IF b.obj = 0 THEN usage ELSE l
  BY DEF Apart, Given
<1>3. b.reg \in Nat /\ b.obj \in Nat
  BY DEF Bill
<1>6. Left(b, usage) \in Nat /\ Left(b, l) \in Nat
  <2> HIDE DEF l
  <2> QED
    BY <1>1, <1>3 DEF Left
<1>4. CASE p = "target"
  <2>1. stage = "open" /\ bill["handler"].at = "none"
    BY <1>4, OnlyOne DEF Billing
  <2>2. Leftover(stage, b, bill["handler"], usage, l)
          = IF b.obj = 0 THEN Left(b, usage) + l ELSE usage + Left(b, l)
    <3> HIDE DEF l
    <3> QED
      BY <1>1, <2>1, LeftoverCases
  <2>3. Rest(p) = IF b.obj = 0 THEN l ELSE usage
    BY <2>1 DEF Rest
  <2> HIDE DEF l
  <2> QED
    BY <1>1, <1>2, <1>4, <1>6, <2>2, <2>3 DEF l
<1>5. CASE p = "handler"
  <2>1. stage \in {"usage", "local"} /\ bill["target"].at = "none" /\ (b.obj = 0 <=> stage = "usage")
    BY <1>5, OnlyOne DEF Billing, Standing, BillersStand
  <2>2. Leftover(stage, bill["target"], b, usage, l)
          = IF b.obj = 0 THEN Left(b, usage) + l ELSE Left(b, l)
    <3> HIDE DEF l
    <3> QED
      BY <1>1, <2>1, LeftoverCases
  <2>3. Rest(p) = IF b.obj = 0 THEN l ELSE 0
    BY <2>1 DEF Rest
  <2> HIDE DEF l
  <2> QED
    BY <1>1, <1>2, <1>5, <1>6, <2>2, <2>3 DEF l
<1> QED
  BY <1>4, <1>5 DEF Billers

\* While nobody charges what is left is less later.
LEMMA LaterLeft ==
    ASSUME NEW s, NEW r, NEW t \in Bill, NEW h \in Bill, NEW u \in Nat, NEW l \in Nat,
           t.at = "none", h.at = "none",
           s \notin {"local", "post", "served"} \/ r \in {"post", "served"}
    PROVE  Leftover(r, t, h, u, l) <= Leftover(s, t, h, u, l)
BY LeftoverCases

\* What is charged, or allowed for nothing, is less of what is left.
LEMMA LessLeft ==
    ASSUME NEW x \in Nat, NEW y \in Nat, NEW rest \in Nat, NEW charged \in Nat, NEW more \in Nat,
           NEW counted \in Nat, NEW empty \in Nat, NEW emptier \in Nat,
           charged + (x + rest) <= counted + empty,
           more + y + empty <= charged + x + emptier
    PROVE  more + (y + rest) <= counted + emptier
OBVIOUS

\* A charge takes no more than it had to, and for nothing one.
LEMMA BillCounted ==
    ASSUME SessionTypes, Standing, Apart, CountedKept, NEW p \in Billers, PreConsumeUsage(p)
    PROVE  CountedKept'
<1> SUFFICES ASSUME faults' = 0, ~seen'.raced, ~req.priced
             PROVE  seen'.charged + Leftover(stage', bill'["target"], bill'["handler"], usage', heap'[Len(heap')])
                      <= seen'.counted + seen'.empty
  BY BillEffect DEF CountedKept, Standing
<1> DEFINE b == bill[p]
<1> DEFINE c == bill'[p]
<1> DEFINE g == Given(p)
<1>0. /\ bill \in [Billers -> Bill] /\ faults \in Nat /\ heap \in Seq(Nat) /\ HeapShape
      /\ seen \in History /\ seen.charged \in Nat /\ seen.counted \in Nat /\ seen.empty \in Nat
      /\ b \in Bill /\ "target" \in Billers /\ "handler" \in Billers
  BY AmountTypes DEF SessionTypes, Standing
<1>1. /\ UNCHANGED <<req, stage, usage, heap>> /\ ~seen.raced
      /\ \E at \in BillPlaces \ {"none"} : \E reg : bill[p].at # "none" /\ BillMoves(p, at, reg)
  BY <1>0, BillEffect
<1>2. /\ c \in Bill /\ c.at # "none" /\ c.obj = b.obj /\ b.at # "none" /\ Billing(p)
      /\ bill'["target"] = (IF p = "target" THEN c ELSE bill["target"])
      /\ bill'["handler"] = (IF p = "handler" THEN c ELSE bill["handler"])
  BY <1>0, <1>1 DEF BillMoves, Billing, Billers
<1>3. faults = 0 /\ faults' # faults + 1
  BY <1>0 DEF PreConsumeUsage, ReadSum, WriteSum, CheckQuota, PayUser, PayToken, SqlFails, NoFault
<1>4. g \in Nat /\ Price(g) \in Nat /\ Price(g) = (IF g = 0 THEN 1 ELSE g)
  BY <1>0, <1>2, GivenType DEF Billing
<1>5. Rest(p) \in Nat
  BY DEF Rest, SessionTypes, Standing, HeapShape
<1>6. seen.charged + (Left(b, g) + Rest(p)) <= seen.counted + seen.empty
  <2>1. Leftover(stage, bill["target"], bill["handler"], usage, heap[Len(heap)]) = Left(b, g) + Rest(p)
    <3>1. /\ bill["target"] = (IF p = "target" THEN b ELSE bill["target"])
          /\ bill["handler"] = (IF p = "handler" THEN b ELSE bill["handler"])
      OBVIOUS
    <3> QED
      BY <1>0, <1>1, <1>2, <3>1, LeftoverAlone
  <2> QED
    BY <1>1, <1>3, <2>1 DEF CountedKept
<1>7. Leftover(stage', bill'["target"], bill'["handler"], usage', heap'[Len(heap')]) = Left(c, g) + Rest(p)
  BY <1>1, <1>2, LeftoverAlone
<1>8. /\ seen'.charged \in Nat /\ seen'.counted = seen.counted /\ seen'.empty \in Nat
      /\ Left(b, g) \in Nat /\ Left(c, g) \in Nat
      /\ seen'.charged + Left(c, g) + seen.empty <= seen.charged + Left(b, g) + seen'.empty
  <2>0. b.reg \in Nat
    BY <1>0 DEF Bill
  <2>1. CASE ReadSum(p) \/ WriteSum(p)
    <3>1. UNCHANGED seen /\ b.at \in {"sum", "store"}
      BY <2>1 DEF ReadSum, WriteSum
    <3>2. c.at \in {"store", "quota"}
      <4>1. CASE ReadSum(p)
        BY <1>0, <4>1, RegType DEF ReadSum, SessionTypes, BillPlaces
      <4>2. CASE WriteSum(p)
        BY <1>0, <4>2, AtType DEF WriteSum, BillPlaces
      <4> QED
        BY <2>1, <4>1, <4>2
    <3>3. Left(b, g) = g /\ Left(c, g) = g
      BY <3>1, <3>2 DEF Left
    <3> QED
      BY <1>0, <1>4, <3>1, <3>3
  <2>2. CASE CheckQuota(p)
    <3>1. b.at = "quota"
      BY <2>2 DEF CheckQuota
    <3>2. \/ BillMoves(p, "failed", b.reg) /\ Adds(0, 0, 0, 0, 0)
          \/ BillMoves(p, "user", Price(g)) /\ Adds(0, 0, 0, IF g = 0 THEN 1 ELSE 0, 0)
      BY <1>0, <1>3, <2>2, CheckQuotaEffect
    <3>3. Left(b, g) = g
      BY <3>1 DEF Left
    <3>4. CASE BillMoves(p, "failed", b.reg) /\ Adds(0, 0, 0, 0, 0)
      <4>1. Left(c, g) = g
        BY <3>4 DEF Left, BillMoves
      <4> QED
        BY <1>0, <1>4, <3>3, <3>4, <4>1 DEF Adds
    <3>5. CASE BillMoves(p, "user", Price(g)) /\ Adds(0, 0, 0, IF g = 0 THEN 1 ELSE 0, 0)
      <4>1. Left(c, g) = Price(g)
        BY <3>5 DEF Left, BillMoves
      <4> HIDE DEF g, c, b
      <4> QED
        BY <1>0, <1>4, <3>3, <3>5, <4>1 DEF Adds
    <3> QED
      BY <3>2, <3>4, <3>5
  <2>3. CASE PayUser(p)
    <3>1. b.at = "user" /\ BillMoves(p, "token", b.reg) /\ Adds(0, 0, b.reg, 0, 0)
      BY <1>3, <2>3, PayUserEffect
    <3>2. Left(b, g) = b.reg /\ Left(c, g) = 0
      BY <3>1 DEF Left, BillMoves
    <3> HIDE DEF g, c, b
    <3> QED
      BY <1>0, <2>0, <3>1, <3>2 DEF Adds
  <2>4. CASE PayToken(p)
    <3>1. b.at = "token" /\ BillMoves(p, "paid", b.reg) /\ Adds(0, 0, 0, 0, 0)
      BY <1>3, <2>4, PayTokenEffect
    <3>2. Left(b, g) = 0 /\ Left(c, g) = 0
      BY <3>1 DEF Left, BillMoves
    <3> HIDE DEF g, c, b
    <3> QED
      BY <1>0, <3>1, <3>2 DEF Adds
  <2> QED
    BY <2>1, <2>2, <2>3, <2>4 DEF PreConsumeUsage
<1> HIDE DEF b, c, g
<1>9. seen'.charged + (Left(c, g) + Rest(p)) <= seen'.counted + seen'.empty
  <2> DEFINE x == Left(b, g)
  <2> DEFINE y == Left(c, g)
  <2> DEFINE more == seen'.charged
  <2> DEFINE emptier == seen'.empty
  <2>1. /\ x \in Nat /\ y \in Nat /\ more \in Nat /\ emptier \in Nat
        /\ seen'.counted = seen.counted
    BY <1>8
  <2>2. seen.charged + (x + Rest(p)) <= seen.counted + seen.empty
    BY <1>6
  <2>3. more + y + seen.empty <= seen.charged + x + emptier
    BY <1>8
  <2> HIDE DEF x, y, more, emptier
  <2>4. more + (y + Rest(p)) <= seen.counted + emptier
    BY <1>0, <1>5, <2>1, <2>2, <2>3, LessLeft
  <2> QED
    BY <2>1, <2>4 DEF more, emptier, y
<1> QED
  BY <1>7, <1>9

\* Steps that leave the bills, and what is counted, alone.
LEMMA CountedFrame ==
    ASSUME SessionTypes, CountedKept, UNCHANGED <<req, stage, bill, usage, heap>>,
           \E given \in Int, d \in Nat : Adds(given, 0, 0, 0, d),
           ~seen'.raced => ~seen.raced, faults' = 0 => faults = 0
    PROVE  CountedKept'
<1>0. seen \in History
  BY DEF SessionTypes
<1>1. /\ seen'.charged = seen.charged /\ seen'.counted = seen.counted /\ seen'.empty = seen.empty
  <2>1. PICK given \in Int, d \in Nat : Adds(given, 0, 0, 0, d)
    OBVIOUS
  <2>2. seen.charged \in Nat /\ seen.counted \in Nat /\ seen.empty \in Nat
    BY <1>0 DEF History
  <2> QED
    BY <2>1, <2>2 DEF Adds
<1> DEFINE left == Leftover(stage, bill["target"], bill["handler"], usage, heap[Len(heap)])
<1>2. left' = left /\ req' = req
  OBVIOUS
<1>3. faults = 0 /\ ~seen.raced /\ ~req.priced => seen.charged + left <= seen.counted + seen.empty
  BY DEF CountedKept
<1>4. (faults' = 0 /\ ~seen'.raced /\ ~req'.priced =>
         seen'.charged + left' <= seen'.counted + seen'.empty)
      => CountedKept'
  BY DEF CountedKept
<1> HIDE DEF left
<1> QED
  BY <1>1, <1>2, <1>3, <1>4

\* More is counted, and no more than that is left.
LEMMA MoreCounted ==
    ASSUME SessionTypes, CountedKept, NEW n \in Nat, UNCHANGED <<req, faults>>,
           Adds(0, n, 0, 0, 0), ~seen.raced,
           NEW x \in Nat, NEW y \in Nat,
           x = Leftover(stage, bill["target"], bill["handler"], usage, heap[Len(heap)]),
           y = Leftover(stage', bill'["target"], bill'["handler"], usage', heap'[Len(heap')]),
           y <= x + n
    PROVE  CountedKept'
<1>0. seen.charged \in Nat /\ seen.counted \in Nat /\ seen.empty \in Nat
  BY HistoryFields DEF SessionTypes
<1>1. /\ seen'.charged = seen.charged /\ seen'.counted = seen.counted + n /\ seen'.empty = seen.empty
  BY <1>0 DEF Adds
<1>2. ASSUME faults = 0, ~req.priced PROVE seen.charged + x <= seen.counted + seen.empty
  BY <1>2 DEF CountedKept
<1>3. ASSUME faults' = 0, ~req'.priced PROVE seen'.charged + y <= seen'.counted + seen'.empty
  BY <1>0, <1>1, <1>2, <1>3
<1> QED
  BY <1>3 DEF CountedKept

\* The steps of the target's reader about an answer.
LEMMA TargetCounted ==
    ASSUME SessionTypes, Standing, Apart, CountedKept,
           TargetDelta \/ TargetDone \/ TargetPaid \/ TargetUnpaid
    PROVE  CountedKept'
<1> SUFFICES ASSUME ~seen'.raced PROVE CountedKept'
  BY DEF CountedKept
<1> DEFINE t == bill["target"]
<1> DEFINE h == bill["handler"]
<1> DEFINE l == heap[Len(heap)]
<1> DEFINE k == heap'[Len(heap')]
<1>0. /\ bill \in [Billers -> Bill] /\ heap \in Seq(Nat) /\ HeapShape /\ usage \in Nat /\ answer \in Nat
      /\ seen \in History /\ t \in Bill /\ h \in Bill /\ l \in Nat /\ Len(heap) \in Nat \ {0}
      /\ "target" \in Billers /\ "handler" \in Billers /\ "none" \in BillPlaces
  BY DEF SessionTypes, Standing, HeapShape, Billers, BillPlaces
<1>1. UNCHANGED <<req, faults, stage>>
  BY DEF TargetDelta, TargetDone, TargetPaid, TargetUnpaid, helper
<1>2. CASE TargetDelta
  <2>1. ~seen.raced /\ stage = "open" /\ Adds(0, 1, 0, 0, 0)
    BY <1>2, RacedEffect DEF TargetDelta
  <2>2. t.at = "none" /\ h.at = "none" /\ UNCHANGED <<bill, usage>>
    BY <1>2, <2>1, OnlyOne DEF TargetDelta, NextEvent, Standing, BillersStand, Billing
  <2>3. k = l + 1
    BY <1>0, <1>2, AddLocalEffect DEF TargetDelta
  <2>4. Leftover(stage, t, h, usage, l) = usage + l
    <3> HIDE DEF t, h, l
    <3> QED
      BY <1>0, <2>1, <2>2, LeftoverCases
  <2>5. Leftover(stage', bill'["target"], bill'["handler"], usage', k) = usage + l + 1
    <3>1. k \in Nat
      BY <1>0, <2>3
    <3>2. stage' = stage /\ bill'["target"] = t /\ bill'["handler"] = h /\ usage' = usage
      BY <1>1, <2>2
    <3> HIDE DEF t, h, l, k
    <3>3. Leftover(stage, t, h, usage, k) = usage + k
      BY <1>0, <2>1, <2>2, <3>1, LeftoverCases
    <3> QED
      BY <1>0, <2>3, <3>2, <3>3
  <2> DEFINE x == usage + l
  <2> DEFINE y == usage + l + 1
  <2>6. x \in Nat /\ y \in Nat /\ y <= x + 1
    <3> HIDE DEF l
    <3> QED
      BY <1>0
  <2> HIDE DEF x, y
  <2>7. x = Leftover(stage, bill["target"], bill["handler"], usage, heap[Len(heap)])
    BY <2>4 DEF x
  <2>8. y = Leftover(stage', bill'["target"], bill'["handler"], usage', heap'[Len(heap')])
    BY <2>5 DEF y
  <2> QED
    BY <1>1, <2>1, <2>6, <2>7, <2>8, MoreCounted
<1>3. CASE TargetDone
  <2>1. ~seen.raced /\ stage = "open"
    BY <1>0, <1>3, TargetDoneEffect
  <2>2. t.at = "none" /\ h.at = "none"
    BY <1>3, <2>1, OnlyOne DEF TargetDone, NextEvent, Standing, BillersStand, Billing
  <2>3. /\ bill' \in [Billers -> Bill] /\ bill'["handler"] = h /\ bill'["target"].at = "sum"
        /\ heap' \in Seq(Nat) /\ Len(heap') = Len(heap)
    BY <1>0, <1>3, TargetDoneEffect
  <2>4. PICK n \in Nat : Adds(0, n, 0, 0, 0) /\ usage' \in Nat /\ k \in Nat
                              /\ usage' + k \in Nat /\ usage' + k = usage + l + n
    <3>1. CASE \E n \in Nat : usage' = usage + n /\ heap' = heap /\ Adds(0, n, 0, 0, 0)
      <4>1. PICK n \in Nat : usage' = usage + n /\ heap' = heap /\ Adds(0, n, 0, 0, 0)
        BY <3>1
      <4>2. k = l
        BY <4>1
      <4> HIDE DEF k, l
      <4>3. usage' \in Nat /\ k \in Nat /\ usage' + k \in Nat /\ usage' + k = usage + l + n
        BY <1>0, <4>1, <4>2
      <4> QED
        BY <4>1, <4>3
    <3>2. CASE \E n \in Nat : /\ usage' = usage /\ heap'[Len(heap)] = heap[Len(heap)] + n
                              /\ Adds(0, n, 0, 0, 0)
      <4>1. PICK n \in Nat : /\ usage' = usage /\ heap'[Len(heap)] = heap[Len(heap)] + n
                             /\ Adds(0, n, 0, 0, 0)
        BY <3>2
      <4>2. k = l + n
        BY <2>3, <4>1
      <4> HIDE DEF k, l
      <4>3. usage' \in Nat /\ k \in Nat /\ usage' + k \in Nat /\ usage' + k = usage + l + n
        BY <1>0, <4>1, <4>2
      <4> QED
        BY <4>1, <4>3
    <3> QED
      BY <1>0, <1>3, <3>1, <3>2, TargetDoneEffect
  <2> DEFINE c == bill'["target"]
  <2>5. c \in Bill
    BY <1>0, <2>3
  <2> DEFINE x == usage + l
  <2> DEFINE y == usage' + k
  <2>6. x = Leftover(stage, t, h, usage, l)
    <3> HIDE DEF t, h, l
    <3> QED
      BY <1>0, <2>1, <2>2, LeftoverCases
  <2>7. y = Leftover(stage', c, h, usage', k)
    <3> HIDE DEF t, h, k
    <3>1. Left(c, usage') = usage' /\ Left(c, k) = k
      BY <2>3 DEF Left
    <3>2. c.at # "none" /\ stage' = "open"
      BY <1>1, <2>1, <2>3
    <3> HIDE DEF c
    <3> QED
      BY <1>0, <2>2, <2>4, <2>5, <3>1, <3>2, LeftoverCases, SMTT(20)
  <2>8. x \in Nat /\ y \in Nat /\ y <= x + n
    <3>1. usage \in Nat /\ l \in Nat /\ usage' \in Nat /\ k \in Nat
      BY <1>0, <2>4
    <3>2. y = x + n
      BY <2>4
    <3>3. usage + l \in Nat
      <4> HIDE DEF l
      <4> QED
        BY <3>1
    <3>4. usage' + k \in Nat
      BY <2>4
    <3>5. x \in Nat /\ y \in Nat
      BY <3>3, <3>4
    <3> HIDE DEF x, y
    <3> QED
      BY <3>2, <3>5
  <2> HIDE DEF x, y
  <2>9. y = Leftover(stage', bill'["target"], bill'["handler"], usage', heap'[Len(heap')])
    BY <2>3, <2>7
  <2> QED
    BY <1>1, <2>1, <2>4, <2>6, <2>8, <2>9, MoreCounted
<1>4. CASE TargetPaid \/ TargetUnpaid
  <2>1. Billing("target")
    BY <1>4 DEF TargetPaid, TargetUnpaid, Billing
  <2>2. /\ ~seen.raced /\ BillMoves("target", "none", t.reg)
        /\ \E d \in Nat : Adds(0, 0, 0, 0, d)
    <3>1. CASE TargetPaid
      BY <1>0, <3>1, TargetPaidEffect
    <3>2. CASE TargetUnpaid
      BY <1>0, <3>2, AtType, SeenSame DEF TargetUnpaid, BillMoves
    <3> QED
      BY <1>4, <3>1, <3>2
  <2>3. stage = "open" /\ h.at = "none"
    BY <2>1, <2>2, OnlyOne DEF Billing
  <2> DEFINE c == bill'["target"]
  <2>4. c \in Bill /\ c.at = "none" /\ bill'["handler"] = h
    BY <1>0, <2>2 DEF BillMoves, Billers
  <2>5. usage' \in Nat /\ k \in Nat /\ usage' + k <= IF t.obj = 0 THEN Left(t, usage) + l ELSE usage + Left(t, l)
    <3>1. CASE TargetPaid
      <4>1. usage' = (IF t.obj = 0 THEN 0 ELSE usage) /\ k = 0 /\ t.at = "paid"
        BY <1>0, <3>1, TargetPaidEffect DEF TargetPaid
      <4>2. Left(t, usage) = 0 /\ Left(t, l) = 0
        BY <4>1 DEF Left
      <4> HIDE DEF t, l, k
      <4> QED
        BY <1>0, <4>1, <4>2
    <3>2. CASE TargetUnpaid
      <4>1. usage' = usage /\ k = l /\ t.at = "failed"
        BY <3>2 DEF TargetUnpaid
      <4>2. Left(t, usage) = usage /\ Left(t, l) = l
        BY <4>1 DEF Left
      <4> HIDE DEF t, l, k
      <4> QED
        BY <1>0, <4>1, <4>2
    <3> QED
      BY <1>4, <3>1, <3>2
  <2> DEFINE x == Leftover(stage, t, h, usage, l)
  <2> DEFINE y == Leftover(stage', c, h, usage', k)
  <2>6. x \in Nat /\ x = IF t.obj = 0 THEN Left(t, usage) + l ELSE usage + Left(t, l)
    <3>1. t.at # "none"
      BY <2>1 DEF Billing
    <3> HIDE DEF t, h, l
    <3> QED
      BY <1>0, <2>3, <3>1, LeftoverCases
  <2>7. y \in Nat /\ y = usage' + k
    <3>1. stage' = "open"
      BY <1>1, <2>3
    <3> HIDE DEF t, h, l, k, c
    <3> QED
      BY <1>0, <2>3, <2>4, <2>5, <3>1, LeftoverCases
  <2>8. y <= x
    BY <2>5, <2>6, <2>7
  <2>9. y = Leftover(stage', bill'["target"], bill'["handler"], usage', heap'[Len(heap')])
    BY <2>4
  <2>10. /\ seen'.charged = seen.charged /\ seen'.counted = seen.counted /\ seen'.empty = seen.empty
         /\ seen.charged \in Nat /\ seen.counted \in Nat /\ seen.empty \in Nat
    BY <1>0, <2>2, HistoryFields DEF Adds
  <2>11. ASSUME faults = 0, ~req.priced PROVE seen.charged + x <= seen.counted + seen.empty
    BY <2>2, <2>11 DEF CountedKept
  <2> HIDE DEF x, y
  <2>12. ASSUME faults' = 0, ~req'.priced PROVE seen'.charged + y <= seen'.counted + seen'.empty
    BY <1>1, <2>6, <2>7, <2>8, <2>10, <2>11, <2>12
  <2> QED
    BY <2>9, <2>12 DEF CountedKept
<1> QED
  BY <1>2, <1>3, <1>4

\* The client's reader adds one, to a localUsage that nobody charges.
LEMMA ClientCounted ==
    ASSUME SessionTypes, Standing, Apart, CountedKept, ClientAdd
    PROVE  CountedKept'
<1> SUFFICES ASSUME ~seen'.raced PROVE CountedKept'
  BY DEF CountedKept
<1> DEFINE t == bill["target"]
<1> DEFINE h == bill["handler"]
<1> DEFINE l == heap[Len(heap)]
<1> DEFINE k == heap'[Len(heap')]
<1>0. /\ bill \in [Billers -> Bill] /\ heap \in Seq(Nat) /\ HeapShape /\ usage \in Nat
      /\ seen \in History /\ t \in Bill /\ h \in Bill /\ l \in Nat /\ Len(heap) \in Nat \ {0}
      /\ "target" \in Billers /\ "handler" \in Billers
  BY DEF SessionTypes, Standing, HeapShape, Billers
<1>1. UNCHANGED <<req, faults, stage, bill, usage>>
  BY DEF ClientAdd, helper
<1>2. /\ ~seen.raced /\ ~Billed(clientReg.obj) /\ Adds(0, 1, 0, 0, 0) /\ Len(heap') = Len(heap)
      /\ clientReg.obj \in 1..Len(heap) /\ clientReg.n \in Nat
      /\ heap'[clientReg.obj] = clientReg.n + 1
      /\ \A i \in 1..Len(heap) : i # clientReg.obj => heap'[i] = heap[i]
  BY <1>0, ClientAddEffect
<1>3. clientReg.n <= heap[clientReg.obj]
  BY <1>0 DEF HeapShape
<1>4. k \in Nat /\ k <= l + 1
  <2>1. CASE clientReg.obj = Len(heap)
    <3>1. k = clientReg.n + 1 /\ clientReg.n <= l
      BY <1>2, <1>3, <2>1
    <3> HIDE DEF l, k
    <3> QED
      BY <1>0, <1>2, <3>1
  <2>2. CASE clientReg.obj # Len(heap)
    <3>1. k = l
      BY <1>0, <1>2, <2>2
    <3> HIDE DEF l, k
    <3> QED
      BY <1>0, <3>1
  <2> QED
    BY <2>1, <2>2
<1>5. CASE k = l
  <2> DEFINE x == Leftover(stage, t, h, usage, l)
  <2>1. x \in Nat
    <3> HIDE DEF t, h, l
    <3> QED
      BY <1>0, LeftoverCases
  <2>2. x = Leftover(stage', bill'["target"], bill'["handler"], usage', heap'[Len(heap')])
    BY <1>1, <1>5
  <2>3. x = Leftover(stage, bill["target"], bill["handler"], usage, heap[Len(heap)])
    OBVIOUS
  <2> HIDE DEF x
  <2>4. x <= x + 1
    BY <2>1
  <2> QED
    BY <1>1, <1>2, <2>1, <2>2, <2>3, <2>4, MoreCounted
<1>6. CASE k # l
  <2>1. clientReg.obj = Len(heap)
    BY <1>0, <1>2, <1>6
  <2>2. t.at # "none" => t.obj = 0
    BY <1>2, <2>1 DEF Apart, Billing, Billed, Billers
  <2>3. h.at # "none" => h.obj = 0
    BY <1>2, <2>1 DEF Apart, Billing, Billed, Billers
  <2> DEFINE u == UsageLeft(stage, t, h, usage)
  <2> DEFINE x == Leftover(stage, t, h, usage, l)
  <2> DEFINE y == Leftover(stage, t, h, usage, k)
  <2>4. x = u + (IF stage \in {"post", "served"} THEN 0 ELSE l)
    BY <2>2, <2>3 DEF Leftover, LastLeft
  <2>5. y = u + (IF stage \in {"post", "served"} THEN 0 ELSE k)
    BY <2>2, <2>3 DEF Leftover, LastLeft
  <2>6. u \in Nat
    <3>1. t.reg \in Nat /\ h.reg \in Nat
      BY <1>0 DEF Bill
    <3> HIDE DEF t, h
    <3> QED
      BY <1>0, <3>1 DEF UsageLeft, Left
  <2>7. y = Leftover(stage', bill'["target"], bill'["handler"], usage', heap'[Len(heap')])
    BY <1>1
  <2>8. x = Leftover(stage, bill["target"], bill["handler"], usage, heap[Len(heap)])
    OBVIOUS
  <2> HIDE DEF x, y, u, l, k
  <2>9. x \in Nat /\ y \in Nat /\ y <= x + 1
    BY <1>0, <1>4, <2>4, <2>5, <2>6
  <2> QED
    BY <1>1, <1>2, <2>7, <2>8, <2>9, MoreCounted
<1> QED
  BY <1>5, <1>6

\* The handler charges what is left, and what it could not charge is let go.
LEMMA HandlerCounted ==
    ASSUME SessionTypes, Standing, Apart, CountedKept, Handler
    PROVE  CountedKept'
<1> SUFFICES ASSUME ~seen'.raced PROVE CountedKept'
  BY DEF CountedKept
<1> DEFINE t == bill["target"]
<1> DEFINE h == bill["handler"]
<1> DEFINE l == heap[Len(heap)]
<1> DEFINE c == bill'["handler"]
<1>0. /\ bill \in [Billers -> Bill] /\ heap \in Seq(Nat) /\ HeapShape /\ usage \in Nat
      /\ seen \in History /\ t \in Bill /\ h \in Bill /\ l \in Nat
      /\ "target" \in Billers /\ "handler" \in Billers
  BY DEF SessionTypes, Standing, HeapShape, Billers
<1>1. /\ UNCHANGED <<req, faults, usage, heap>> /\ ~seen.raced /\ Adds(0, 0, 0, 0, 0)
      /\ bill'["target"] = t /\ t.at = "none" /\ c \in Bill
      /\ Leftover(stage', t, c, usage, l) <= Leftover(stage, t, h, usage, l)
  <2>1. CASE Select
    <3>1. UNCHANGED <<req, faults, usage, heap, bill>> /\ stage = "open" /\ stage' = "usage"
      BY <2>1 DEF Select, Goto, counts
    <3>2. ~seen.raced /\ Adds(0, 0, 0, 0, 0) /\ target # "bill"
      BY <2>1, SelectEffect
    <3>3. t.at = "none" /\ h.at = "none"
      BY <3>1, <3>2 DEF Standing, BillersStand, Billing
    <3>4. Leftover(stage', t, h, usage, l) <= Leftover(stage, t, h, usage, l)
      <4> HIDE DEF t, h, l
      <4> QED
        BY <1>0, <3>1, <3>3, LaterLeft
    <3> QED
      BY <1>0, <3>1, <3>2, <3>3, <3>4
  <2>2. CASE FlushUsage \/ FlushLocal
    <3>1. /\ UNCHANGED <<req, usage, heap, seen, faults>>
          /\ bill' \in [Billers -> Bill] /\ bill'["target"] = t
          /\ \/ /\ h.at = "none" /\ stage' = stage /\ c.at = "sum"
                /\ \/ stage = "usage" /\ c.obj = 0
                   \/ stage = "local" /\ c.obj # 0
             \/ /\ c.at = "none"
                /\ \/ stage = "usage" /\ stage' = "local"
                   \/ stage = "local" /\ stage' = "post"
      BY <1>0, <2>2, HandlerEffect
    <3>2. ~seen.raced /\ Adds(0, 0, 0, 0, 0)
      BY <1>0, <3>1, SeenSame
    <3>3. t.at = "none" /\ c \in Bill
      BY <1>0, <3>1, <3>2, OnlyOne DEF Billing
    <3>4. h.at # "none" => (h.obj = 0 <=> stage = "usage")
      BY DEF Standing, BillersStand, Billing
    <3>5. Left(c, usage) = usage \/ c.at # "sum"
      BY DEF Left
    <3>6. Left(c, l) = l \/ c.at # "sum"
      BY DEF Left
    <3>7. Leftover(stage', t, c, usage, l) <= Leftover(stage, t, h, usage, l)
      <4>0. Left(h, usage) \in Nat
        BY <1>0 DEF Left, Bill
      <4> HIDE DEF t, h, l, c
      <4>1. Leftover(stage, t, h, usage, l) \in Nat
        BY <1>0, LeftoverCases
      <4>2. CASE h.at = "none" /\ c.at = "sum" /\ stage' = stage /\ stage = "usage" /\ c.obj = 0
        BY <1>0, <3>3, <3>5, <4>1, <4>2, LeftoverCases
      <4>3. CASE h.at = "none" /\ c.at = "sum" /\ stage' = stage /\ stage = "local" /\ c.obj # 0
        BY <1>0, <3>3, <3>6, <4>1, <4>3, LeftoverCases
      <4>4. CASE c.at = "none" /\ stage = "usage" /\ stage' = "local"
        <5>1. Leftover(stage', t, c, usage, l) = l
          BY <1>0, <3>3, <4>4, LeftoverCases
        <5>2. CASE h.at = "none"
          BY <1>0, <3>3, <4>4, <5>1, <5>2, LeftoverCases
        <5>3. CASE h.at # "none"
          <6>1. Leftover(stage, t, h, usage, l) = Left(h, usage) + l
            BY <1>0, <3>3, <3>4, <4>4, <5>3, LeftoverCases
          <6> QED
            BY <1>0, <4>0, <5>1, <6>1
        <5> QED
          BY <5>2, <5>3
      <4>5. CASE c.at = "none" /\ stage = "local" /\ stage' = "post"
        <5>1. Leftover(stage', t, c, usage, l) = 0
          BY <1>0, <3>3, <4>5, LeftoverCases
        <5> QED
          BY <4>1, <5>1
      <4> QED
        BY <3>1, <4>2, <4>3, <4>4, <4>5
    <3> QED
      BY <3>1, <3>2, <3>3, <3>7
  <2> QED
    BY <2>1, <2>2 DEF Handler
<1> DEFINE x == Leftover(stage, t, h, usage, l)
<1> DEFINE y == Leftover(stage', t, c, usage, l)
<1>2. x \in Nat /\ y \in Nat
  <2> HIDE DEF t, h, l, c
  <2> QED
    BY <1>0, <1>1, LeftoverCases
<1>3. /\ x = Leftover(stage, bill["target"], bill["handler"], usage, heap[Len(heap)])
      /\ y = Leftover(stage', bill'["target"], bill'["handler"], usage', heap'[Len(heap')])
      /\ y <= x
  BY <1>1
<1> HIDE DEF x, y
<1>4. y <= x + 0
  BY <1>2, <1>3
<1> QED
  BY <1>1, <1>2, <1>3, <1>4, MoreCounted

\* Every step keeps the counts.
LEMMA CountedStep ==
    ASSUME SessionTypes, Standing, Apart, CountedKept, [Next]_vars
    PROVE  CountedKept'
<1> SUFFICES ASSUME ~seen'.raced PROVE CountedKept'
  BY DEF CountedKept
<1>0. /\ seen \in History /\ HeapShape /\ bill \in [Billers -> Bill] /\ heap \in Seq(Nat)
      /\ usage \in Nat /\ faults \in Nat /\ heap[Len(heap)] \in Nat
      /\ bill["target"] \in Bill /\ bill["handler"] \in Bill
  BY DEF SessionTypes, Standing, HeapShape, Billers
<1>1. ASSUME UNCHANGED <<req, stage, bill, usage, heap, seen>>, faults' = 0 => faults = 0 PROVE CountedKept'
  BY <1>1 DEF CountedKept
<1>2. CASE WssHelper \/ ImageHelper
  <2>1. UNCHANGED <<seen, req, bill, usage, heap>>
    BY <1>2 DEF WssHelper, ImageHelper, Check, TakeToken, TakeUser, Dial, Post, CheckImage,
       MakeImage, RecordImage, PayImage, TokenImage, counts
  <2>2. ~Billing("target") /\ ~Billing("handler")
    BY <1>2, <2>1, HelperAlone
  <2>3. stage \notin {"local", "post", "served"} \/ stage' \in {"post", "served"}
    BY <1>2 DEF WssHelper, ImageHelper, Check, TakeToken, TakeUser, Dial, Post, CheckImage,
       MakeImage, RecordImage, PayImage, TokenImage, Goto
  <2>4. faults' = 0 => faults = 0
    BY <1>0, <1>2 DEF WssHelper, ImageHelper, Check, TakeToken, TakeUser, Dial, Post, CheckImage,
       MakeImage, RecordImage, PayImage, TokenImage, SqlFails, NoFault
  <2> DEFINE x == Leftover(stage, bill["target"], bill["handler"], usage, heap[Len(heap)])
  <2> DEFINE y == Leftover(stage', bill["target"], bill["handler"], usage, heap[Len(heap)])
  <2>5. y <= x /\ x \in Nat /\ y \in Nat
    BY <1>0, <2>2, <2>3, LaterLeft, LeftoverCases DEF Billing
  <2>6. seen.charged \in Nat /\ seen.counted \in Nat /\ seen.empty \in Nat
    BY <1>0, HistoryFields
  <2>7. y = Leftover(stage', bill'["target"], bill'["handler"], usage', heap'[Len(heap')])
    BY <2>1
  <2>8. ASSUME faults = 0, ~req.priced PROVE seen.charged + x <= seen.counted + seen.empty
    BY <2>1, <2>8 DEF CountedKept
  <2> HIDE DEF x, y
  <2>9. ASSUME faults = 0, ~req.priced PROVE seen.charged + y <= seen.counted + seen.empty
    BY <2>5, <2>6, <2>8, <2>9
  <2> QED
    BY <2>1, <2>4, <2>7, <2>9 DEF CountedKept
<1>3. CASE ReturnUser \/ ReturnToken
  BY <1>0, <1>1, <1>3 DEF ReturnUser, ReturnToken, counts, SqlFails, NoFault
<1>4. CASE ClientRead \/ ClientGone \/ ClientError \/ TargetBad \/ TargetGone \/ TargetError
  BY <1>1, <1>4 DEF ClientRead, ClientGone, ClientError, TargetBad, TargetGone, TargetError,
     counts, helper
<1>5. CASE ClientAdd
  BY <1>5, ClientCounted
<1>6. CASE TargetDelta \/ TargetDone \/ TargetPaid \/ TargetUnpaid
  BY <1>6, TargetCounted
<1>7. CASE Handler
  BY <1>7, HandlerCounted
<1>8. CASE Others
  <2>1. PICK d \in Int : Adds(d, 0, 0, 0, 0) /\ seen'.raced = seen.raced
    BY <1>8, OthersEffect
  <2>2. UNCHANGED <<req, stage, bill, usage, heap, faults>>
    BY <1>8 DEF Others, helper, counts
  <2> QED
    BY <2>1, <2>2, CountedFrame
<1>9. ASSUME NEW p \in Billers, PreConsumeUsage(p) PROVE CountedKept'
  BY <1>9, BillCounted
<1>10. CASE UNCHANGED vars
  BY <1>1, <1>10 DEF vars, counts, helper
<1> QED
  BY <1>2, <1>3, <1>4, <1>5, <1>6, <1>7, <1>8, <1>9, <1>10
     DEF Next, ClientReader, TargetReader, Billers

(***************************************************************************)
(* Realtime: what is recorded was charged.                                 *)
(***************************************************************************)
SumOf(p) == Summed(bill[p], Given(p))

\* Steps that leave the sum and what is still to be charged of it alone.
LEMMA SumFrame ==
    ASSUME SumKept, UNCHANGED <<req, sum, used>>, seen'.charged = seen.charged,
           faults' = 0 => faults = 0, ~seen'.raced => ~seen.raced, ~seen'.failed => ~seen.failed,
           \A p \in Billers : /\ SumOf(p)' = SumOf(p)
                              /\ bill'[p].at = "store" => bill[p].at = "store" /\ bill'[p].reg = bill[p].reg
    PROVE  SumKept'
<1>1. SumOf("target")' = SumOf("target") /\ SumOf("handler")' = SumOf("handler")
  BY DEF Billers
<1> QED
  BY <1>1 DEF SumKept, SumOf

\* Who is not at the quota owes nothing of the sum.
LEMMA SumNone ==
    ASSUME NEW p \in Billers
    PROVE  /\ bill[p].at \notin {"quota", "user"} => SumOf(p) = 0
           /\ bill'[p].at \notin {"quota", "user"} => SumOf(p)' = 0
BY DEF SumOf, Summed

\* The amounts are numbers.
LEMMA SumType ==
    ASSUME SessionTypes, Standing, NEW p \in Billers
    PROVE  SumOf(p) \in Nat
<1>1. bill[p].reg \in Nat
  BY DEF SessionTypes, Bill
<1>2. CASE bill[p].at = "none"
  BY <1>2 DEF SumOf, Summed
<1>3. CASE bill[p].at # "none"
  <2>1. Given(p) \in Nat
    BY <1>3, GivenType DEF Standing
  <2> QED
    BY <1>1, <2>1 DEF SumOf, Summed
<1> QED
  BY <1>2, <1>3

\* A step of a charge, while the other one rests.
LEMMA BillSum ==
    ASSUME SessionTypes, Standing, Apart, SumKept, NEW p \in Billers, PreConsumeUsage(p)
    PROVE  SumKept'
<1> SUFFICES ASSUME faults' = 0, ~seen'.raced, ~req.priced, ~seen'.failed PROVE SumKept'
  BY BillEffect DEF SumKept, Standing
<1> DEFINE g == Given(p)
<1>0. /\ bill \in [Billers -> Bill] /\ faults \in Nat /\ HeapShape /\ seen \in History
      /\ seen.charged \in Nat /\ sum \in Nat /\ "target" \in Billers /\ "handler" \in Billers
      /\ seen.empty \in Nat /\ used \in Nat
  BY AmountTypes DEF SessionTypes, Standing
<1>1. /\ UNCHANGED <<req, stage, usage, heap, used>> /\ ~seen.raced
      /\ \E at \in BillPlaces \ {"none"} : \E reg : bill[p].at # "none" /\ BillMoves(p, at, reg)
  BY <1>0, BillEffect
<1>2. Given(p)' = g /\ Billing(p)
  BY <1>1 DEF BillMoves, Given, Billing
<1>3. faults = 0 /\ faults' # faults + 1
  BY <1>0 DEF PreConsumeUsage, ReadSum, WriteSum, CheckQuota, PayUser, PayToken, SqlFails, NoFault
<1>4. g \in Nat /\ Price(g) \in Nat /\ g <= Price(g)
  BY <1>0, <1>2, GivenType DEF Billing
<1>5. PICK q \in Billers : /\ q # p /\ Billers = {p, q} /\ bill[q].at = "none" /\ bill'[q] = bill[q]
                           /\ SumOf(q) = 0 /\ SumOf(q)' = 0
  <2>1. PICK q \in Billers : q # p /\ Billers = {p, q}
    BY DEF Billers
  <2>2. bill[q].at = "none"
    BY <1>1, <1>2, <2>1, OnlyOne DEF Billers, Billing
  <2>3. bill'[q] = bill[q]
    BY <1>1, <2>1 DEF BillMoves
  <2> QED
    BY <2>1, <2>2, <2>3, SumNone
<1>6. ASSUME ~seen.failed
      PROVE  /\ sum <= seen.charged + SumOf(p)
             /\ bill[p].at = "store" => bill[p].reg = sum
             /\ req.kind = "realtime" => used <= seen.charged
  <2>1. /\ sum <= seen.charged + SumOf("target") + SumOf("handler")
        /\ bill[p].at = "store" => bill[p].reg = sum
        /\ req.kind = "realtime" => used <= seen.charged
    BY <1>1, <1>3, <1>6 DEF SumKept, SumOf
  <2>2. SumOf("target") \in Nat /\ SumOf("handler") \in Nat
    BY <1>0, SumType
  <2>3. CASE p = "target"
    <3>1. SumOf("handler") = 0
      BY <1>0, <1>5, <2>3
    <3> QED
      BY <1>0, <2>1, <2>2, <2>3, <3>1
  <2>4. CASE p = "handler"
    <3>1. SumOf("target") = 0
      BY <1>0, <1>5, <2>4
    <3> QED
      BY <1>0, <2>1, <2>2, <2>4, <3>1
  <2> QED
    BY <2>3, <2>4 DEF Billers
<1>7. ASSUME /\ SumOf(p)' \in Nat /\ seen'.charged \in Nat
             /\ sum' <= seen'.charged + SumOf(p)'
             /\ bill'[p].at = "store" => bill'[p].reg = sum'
             /\ req.kind = "realtime" => used <= seen'.charged
      PROVE  SumKept'
  <2>1. sum' <= seen'.charged + SumOf("target")' + SumOf("handler")'
    <3>1. CASE p = "target"
      <4>1. SumOf("handler")' = 0
        BY <1>0, <1>5, <3>1
      <4> QED
        BY <1>7, <3>1, <4>1
    <3>2. CASE p = "handler"
      <4>1. SumOf("target")' = 0
        BY <1>0, <1>5, <3>2
      <4> QED
        BY <1>7, <3>2, <4>1
    <3> QED
      BY <3>1, <3>2 DEF Billers
  <2>2. \A r \in Billers : bill'[r].at = "store" => bill'[r].reg = sum'
    BY <1>5, <1>7
  <2> QED
    BY <1>1, <1>7, <2>1, <2>2 DEF SumKept, SumOf
<1>8. CASE ReadSum(p)
  <2>1. bill[p].at = "sum" /\ UNCHANGED <<sum, seen>> /\ BillMoves(p, "store", sum)
    BY <1>0, <1>8, RegType DEF ReadSum, BillMoves, BillPlaces
  <2>2. SumOf(p) = 0 /\ SumOf(p)' = 0 /\ bill'[p].reg = sum
    BY <2>1, SumNone DEF BillMoves
  <2> QED
    BY <1>0, <1>6, <1>7, <2>1, <2>2
<1>9. CASE WriteSum(p)
  <2>1. /\ bill[p].at = "store" /\ UNCHANGED seen /\ sum' = bill[p].reg + g
        /\ BillMoves(p, "quota", bill[p].reg)
    BY <1>0, <1>9, AtType DEF WriteSum, BillMoves, BillPlaces
  <2>2. SumOf(p) = 0 /\ SumOf(p)' = g /\ bill'[p].at = "quota"
    BY <1>2, <2>1, SumNone DEF BillMoves, SumOf, Summed
  <2>3. sum <= seen.charged /\ sum' = sum + g
    BY <1>0, <1>6, <2>1, <2>2
  <2> HIDE DEF g
  <2>4. sum' <= seen'.charged + SumOf(p)'
    BY <1>0, <1>4, <2>1, <2>2, <2>3
  <2> QED
    BY <1>0, <1>4, <1>6, <1>7, <2>1, <2>2, <2>4
<1>10. CASE CheckQuota(p)
  <2>1. /\ bill[p].at = "quota" /\ UNCHANGED sum /\ BillMoves(p, "user", Price(g))
        /\ \E m \in Nat : Adds(0, 0, 0, m, 0)
        /\ ~seen.failed
    BY <1>0, <1>3, <1>10, CheckQuotaEffect DEF CheckQuota
  <2>2. SumOf(p) = g /\ SumOf(p)' = Price(g) /\ bill'[p].at = "user"
    BY <2>1 DEF BillMoves, SumOf, Summed
  <2>3. seen'.charged = seen.charged
    BY <1>0, <2>1 DEF Adds
  <2> HIDE DEF g
  <2>4. sum' <= seen'.charged + SumOf(p)'
    BY <1>0, <1>4, <1>6, <2>1, <2>2, <2>3
  <2> QED
    BY <1>0, <1>4, <1>6, <1>7, <2>1, <2>2, <2>3, <2>4
<1>11. CASE PayUser(p)
  <2>1. /\ bill[p].at = "user" /\ bill[p].reg \in Nat /\ BillMoves(p, "token", bill[p].reg)
        /\ Adds(0, 0, bill[p].reg, 0, 0) /\ ~seen.failed
    BY <1>3, <1>11, PayUserEffect
  <2>2. SumOf(p) = bill[p].reg /\ SumOf(p)' = 0 /\ bill'[p].at = "token" /\ UNCHANGED sum
    BY <1>11, <2>1, SumNone DEF PayUser, BillMoves, SumOf, Summed
  <2>3. seen'.charged = seen.charged + bill[p].reg
    BY <1>0, <2>1 DEF Adds
  <2>4. seen'.charged \in Nat /\ sum' <= seen'.charged + 0 /\ (req.kind = "realtime" => used <= seen'.charged)
    BY <1>0, <1>6, <2>1, <2>2, <2>3
  <2> QED
    BY <1>7, <2>2, <2>4
<1>12. CASE PayToken(p)
  <2>1. /\ bill[p].at = "token" /\ BillMoves(p, "paid", bill[p].reg)
        /\ Adds(0, 0, 0, 0, 0) /\ ~seen.failed
    BY <1>3, <1>12, PayTokenEffect
  <2>2. SumOf(p) = 0 /\ SumOf(p)' = 0 /\ bill'[p].at = "paid" /\ UNCHANGED sum
    BY <1>12, <2>1, SumNone DEF PayToken, BillMoves
  <2>3. seen'.charged = seen.charged
    BY <1>0, <2>1 DEF Adds
  <2> QED
    BY <1>0, <1>6, <1>7, <2>1, <2>2, <2>3
<1> QED
  BY <1>8, <1>9, <1>10, <1>11, <1>12 DEF PreConsumeUsage

\* The helpers: nobody charges, and what Post records is the sum.
LEMMA HelperSum ==
    ASSUME SessionTypes, Standing, Apart, BooksKept, SumKept, WssHelper \/ ImageHelper
    PROVE  SumKept'
<1>0. /\ seen \in History /\ faults \in Nat /\ seen.charged \in Nat /\ sum \in Nat
      /\ "target" \in Billers /\ "handler" \in Billers
  BY AmountTypes DEF SessionTypes
<1>1. UNCHANGED <<seen, req, bill, usage, heap, sum>>
  BY DEF WssHelper, ImageHelper, Check, TakeToken, TakeUser, Dial, Post, CheckImage,
     MakeImage, RecordImage, PayImage, TokenImage, counts
<1> SUFFICES ASSUME faults' = 0, ~seen.raced, ~req.priced, ~seen.failed PROVE SumKept'
  BY <1>1 DEF SumKept
<1>2. faults = 0
  BY <1>0 DEF WssHelper, ImageHelper, Check, TakeToken, TakeUser, Dial, Post, CheckImage,
     MakeImage, RecordImage, PayImage, TokenImage, SqlFails, NoFault
<1>3. bill["target"].at = "none" /\ bill["handler"].at = "none"
  BY <1>1, HelperAlone DEF Billing
<1>4. SumOf("target") = 0 /\ SumOf("handler") = 0 /\ SumOf("target")' = 0 /\ SumOf("handler")' = 0
  BY <1>0, <1>1, <1>3, SumNone
<1>5. sum <= seen.charged + 0 + 0 /\ (req.kind = "realtime" => used <= seen.charged)
  BY <1>2, <1>4 DEF SumKept, SumOf
<1>6. req.kind = "realtime" => used' <= seen.charged
  <2>1. CASE Post
    <3>1. stage = "post" /\ ~SqlFails
      BY <1>0, <1>2, <2>1 DEF Post, SqlFails
    <3>2. req.kind = "realtime" => used = 0
      BY <1>2, <3>1 DEF BooksKept, SessionBooks
    <3>3. used' = IF sum = 0 THEN used ELSE used + sum
      BY <2>1, <3>1 DEF Post, Price
    <3> QED
      BY <1>0, <1>5, <3>2, <3>3
  <2>2. CASE Check \/ TakeToken \/ TakeUser \/ Dial
    BY <1>5, <2>2 DEF Check, TakeToken, TakeUser, Dial, books
  <2>3. CASE ImageHelper
    <3>1. req.kind = "image"
      BY <2>3, AmountTypes DEF ImageHelper, CheckImage, MakeImage, RecordImage, PayImage, TokenImage,
         Standing, Reserved, ImageStages
    <3> QED
      BY <3>1
  <2> QED
    BY <2>1, <2>2, <2>3 DEF WssHelper
<1>7. sum' <= seen'.charged + SumOf("target")' + SumOf("handler")'
  BY <1>0, <1>1, <1>4, <1>5
<1> QED
  BY <1>1, <1>3, <1>6, <1>7 DEF SumKept, SumOf, Billers

\* Every step keeps what is recorded within what was charged.
LEMMA SumStep ==
    ASSUME SessionTypes, Standing, Apart, BooksKept, SumKept, [Next]_vars
    PROVE  SumKept'
<1> SUFFICES ASSUME ~seen'.raced PROVE SumKept'
  BY DEF SumKept
<1>0. /\ seen \in History /\ HeapShape /\ bill \in [Billers -> Bill] /\ faults \in Nat
      /\ "target" \in Billers /\ "handler" \in Billers /\ "none" \in BillPlaces /\ answer \in Nat
      /\ seen.charged \in Nat
  BY AmountTypes DEF SessionTypes, Standing, BillPlaces
<1>1. ASSUME UNCHANGED <<req, used, sum, bill, heap, seen>>, faults' = 0 => faults = 0 PROVE SumKept'
  BY <1>1, SumFrame DEF SumOf, Given
\* Nobody charges, or one begins to or has ended.
<1>2. ASSUME UNCHANGED <<req, used, sum, faults>>, seen'.charged = seen.charged,
             seen'.failed = seen.failed, ~seen.raced,
             \A p \in Billers : bill[p].at \in {"none", "sum", "paid", "failed"},
             \A p \in Billers : bill'[p].at \in {"none", "sum", "paid", "failed"}
      PROVE  SumKept'
  <2>1. \A p \in Billers : SumOf(p)' = SumOf(p)
    BY <1>2, SumNone
  <2> QED
    BY <1>2, <2>1, SumFrame
<1>3. CASE WssHelper \/ ImageHelper
  BY <1>3, HelperSum
<1>4. CASE ReturnUser \/ ReturnToken
  BY <1>0, <1>1, <1>4 DEF ReturnUser, ReturnToken, counts, SqlFails, NoFault
<1>5. CASE ClientRead \/ ClientGone \/ ClientError \/ TargetBad \/ TargetGone \/ TargetError
  BY <1>1, <1>5 DEF ClientRead, ClientGone, ClientError, TargetBad, TargetGone, TargetError,
     counts, books
<1>6. CASE ClientAdd
  <2>1. /\ ~seen.raced /\ ~Billed(clientReg.obj) /\ Adds(0, 1, 0, 0, 0) /\ seen'.failed = seen.failed
        /\ \A i \in 1..Len(heap) : i # clientReg.obj => heap'[i] = heap[i]
    BY <1>0, <1>6, ClientAddEffect
  <2>2. UNCHANGED <<req, used, sum, bill, faults>>
    BY <1>6 DEF ClientAdd, books
  <2>3. seen'.charged = seen.charged
    BY <1>0, <2>1 DEF Adds
  <2>4. ASSUME NEW p \in Billers PROVE SumOf(p)' = SumOf(p)
    <3>1. CASE bill[p].at = "none"
      BY <2>2, <3>1, SumNone
    <3>2. CASE bill[p].at # "none"
      <4>1. bill[p].obj # clientReg.obj
        BY <2>1, <3>2 DEF Billed, Billers
      <4>2. bill[p].obj = 0 \/ bill[p].obj \in 1..Len(heap)
        BY <1>0, <3>2 DEF HeapShape
      <4>3. Given(p)' = Given(p)
        BY <2>1, <2>2, <4>1, <4>2 DEF Given
      <4> QED
        BY <2>2, <4>3 DEF SumOf
    <3> QED
      BY <3>1, <3>2
  <2> QED
    BY <2>1, <2>2, <2>3, <2>4, SumFrame
<1>7. CASE TargetDelta
  <2>1. ~seen.raced /\ stage = "open" /\ Adds(0, 1, 0, 0, 0) /\ seen'.failed = seen.failed
    BY <1>7, RacedEffect DEF TargetDelta
  <2>2. bill["target"].at = "none" /\ bill["handler"].at = "none" /\ UNCHANGED <<req, used, sum, bill, faults>>
    BY <1>7, <2>1, OnlyOne DEF TargetDelta, NextEvent, Standing, BillersStand, Billing, books
  <2>3. seen'.charged = seen.charged
    BY <1>0, <2>1 DEF Adds
  <2> QED
    BY <1>2, <2>1, <2>2, <2>3 DEF Billers
<1>8. CASE TargetDone
  <2>1. /\ ~seen.raced /\ stage = "open" /\ seen'.failed = seen.failed
        /\ bill'["handler"] = bill["handler"] /\ bill'["target"].at = "sum"
        /\ \E n \in Nat : Adds(0, n, 0, 0, 0)
    BY <1>0, <1>8, TargetDoneEffect
  <2>2. bill["target"].at = "none" /\ bill["handler"].at = "none" /\ UNCHANGED <<req, used, sum, faults>>
    BY <1>8, <2>1, OnlyOne DEF TargetDone, NextEvent, Standing, BillersStand, Billing, books
  <2>3. seen'.charged = seen.charged
    BY <1>0, <2>1 DEF Adds
  <2> QED
    BY <1>2, <2>1, <2>2, <2>3 DEF Billers
<1>9. CASE TargetPaid \/ TargetUnpaid
  <2>1. Billing("target") /\ bill["target"].at \in {"paid", "failed"}
    BY <1>9 DEF TargetPaid, TargetUnpaid, Billing
  <2>2. /\ ~seen.raced /\ seen'.failed = seen.failed /\ BillMoves("target", "none", bill["target"].reg)
        /\ \E d \in Nat : Adds(0, 0, 0, 0, d)
    <3>1. CASE TargetPaid
      BY <1>0, <3>1, TargetPaidEffect
    <3>2. CASE TargetUnpaid
      BY <1>0, <3>2, AtType, SeenSame DEF TargetUnpaid, BillMoves
    <3> QED
      BY <1>9, <3>1, <3>2
  <2>3. bill["handler"].at = "none"
    BY <2>1, <2>2, OnlyOne DEF Billing
  <2>4. bill'["target"].at = "none" /\ bill'["handler"].at = "none"
    BY <2>2, <2>3 DEF BillMoves, Billers
  <2>5. seen'.charged = seen.charged /\ UNCHANGED <<req, used, sum, faults>>
    BY <1>0, <1>9, <2>2 DEF Adds, TargetPaid, TargetUnpaid, books
  <2> QED
    BY <1>2, <2>1, <2>2, <2>3, <2>4, <2>5 DEF Billers
<1>10. CASE Select
  <2>1. /\ UNCHANGED <<req, used, sum, bill, heap, faults>>
        /\ Adds(0, 0, 0, 0, 0) /\ seen'.failed = seen.failed /\ ~seen.raced
    BY <1>10, SelectEffect DEF Select, books, counts
  <2>2. seen'.charged = seen.charged
    BY <1>0, <2>1 DEF Adds
  <2> QED
    BY <2>1, <2>2, SumFrame DEF SumOf, Given
<1>11. CASE FlushUsage \/ FlushLocal
  <2>1. /\ UNCHANGED <<req, used, sum, faults, seen>>
        /\ bill'["target"] = bill["target"] /\ bill'["handler"].at \in {"none", "sum"}
        /\ stage \in {"usage", "local"}
    BY <1>0, <1>11, HandlerEffect DEF books
  <2>2. bill["target"].at = "none"
    BY <2>1, OnlyOne DEF Billing
  <2>3. bill["handler"].at \in {"none", "paid", "failed"}
    BY <1>11 DEF FlushUsage, FlushLocal, Flush
  <2> QED
    BY <1>2, <2>1, <2>2, <2>3 DEF Billers
<1>12. CASE Others
  <2>1. PICK d \in Int : Adds(d, 0, 0, 0, 0) /\ seen'.raced = seen.raced /\ seen'.failed = seen.failed
    BY <1>12, OthersEffect
  <2>2. UNCHANGED <<req, used, sum, bill, heap, faults>>
    BY <1>12 DEF Others, helper, counts
  <2>3. seen'.charged = seen.charged
    BY <1>0, <2>1 DEF Adds
  <2> QED
    BY <2>1, <2>2, <2>3, SumFrame DEF SumOf, Given
<1>13. ASSUME NEW p \in Billers, PreConsumeUsage(p) PROVE SumKept'
  BY <1>13, BillSum
<1>14. CASE UNCHANGED vars
  BY <1>1, <1>14 DEF vars, counts, books
<1> QED
  BY <1>3, <1>4, <1>5, <1>6, <1>7, <1>8, <1>9, <1>10, <1>11, <1>12, <1>13, <1>14
     DEF Next, ClientReader, TargetReader, Handler, Billers

(***************************************************************************)
(* Realtime: what is passed on was charged, and the books close.           *)
(***************************************************************************)
SessionInv ==
    SessionTypes /\ Standing /\ AnswerKept /\ BooksKept /\ Apart /\ CountedKept /\ SumKept

\* It holds before the first step.
LEMMA SessionBegins ==
    ASSUME Init
    PROVE  SessionInv
<1> USE DEF Init
<1>1. /\ req.kind \in {"realtime", "image"} /\ req.reserve \in Nat /\ req.price \in Nat
      /\ req.quota \in Nat /\ req.remain \in Nat
  BY RequestType
<1>2. NoBill \in Bill /\ NoBill.at = "none" /\ NoBill.reg = 0
  BY DEF NoBill, Bill, BillPlaces
<1>3. bill \in [Billers -> Bill] /\ \A p \in Billers : bill[p] = NoBill
  BY <1>2 DEF Billers
<1>4. heap \in Seq(Nat) /\ heap # <<>> /\ Len(heap) = 1 /\ heap[1] = 0
  OBVIOUS
<1>5. /\ seen \in History /\ seen.given = 0 /\ seen.counted = 0 /\ seen.charged = 0
      /\ seen.empty = 0 /\ seen.delivered = 0
  BY DEF History
<1>6. SessionTypes
  BY <1>1, <1>3, <1>4, <1>5 DEF SessionTypes, Stages, DialStages, ReaderPlaces
<1>7. ~Billing("target") /\ ~Billing("handler") /\ "target" \in Billers /\ "handler" \in Billers
  BY <1>2, <1>3 DEF Billing, Billers
<1>8. Standing
  BY <1>1, <1>3, <1>4, <1>2, <1>5, <1>7 DEF Standing, HeapShape, BillersStand, NobodyReads, Reserved,
     DialStages, ImageStages
<1>9. AnswerKept
  BY <1>2, <1>3, <1>5, <1>7 DEF AnswerKept, Billing
<1>10. BooksKept
  <2>1. Loss = 0 /\ TokenLoss = 0 /\ Held = 0 /\ HeldToken = 0 /\ Back = 0 /\ BackToken = 0
    BY <1>1, <1>5 DEF Loss, TokenLoss, Held, HeldToken, Back, BackToken, SessionStages
  <2>2. Unpaid(bill["target"]) = 0 /\ Unpaid(bill["handler"]) = 0
    BY <1>2, <1>3, <1>7 DEF Unpaid
  <2> QED
    BY <1>5, <2>1, <2>2 DEF BooksKept, SessionBooks, ImageBooks
<1>11. Apart
  BY <1>7 DEF Apart, Billers
<1>12. CountedKept
  <2>1. Leftover(stage, bill["target"], bill["handler"], usage, heap[Len(heap)]) = 0
    <3>1. usage = 0 /\ heap[Len(heap)] = 0 /\ stage = "check"
      BY <1>4
    <3> QED
      BY <1>2, <1>3, <1>7, <3>1, LeftoverCases
  <2> QED
    BY <1>5, <2>1 DEF CountedKept
<1>13. SumKept
  <2>1. SumOf("target") = 0 /\ SumOf("handler") = 0
    BY <1>2, <1>3, <1>7, SumNone
  <2> QED
    BY <1>2, <1>3, <1>5, <2>1 DEF SumKept, SumOf
<1> QED
  BY <1>6, <1>8, <1>9, <1>10, <1>11, <1>12, <1>13 DEF SessionInv

\* Every step keeps it.
LEMMA SessionStep ==
    ASSUME SessionInv, [Next]_vars
    PROVE  SessionInv'
<1>1. SessionTypes /\ Standing /\ AnswerKept /\ BooksKept /\ Apart /\ CountedKept /\ SumKept /\ HeapShape
  BY DEF SessionInv, Standing
<1>2. SessionTypes'
  <2>1. CASE UNCHANGED vars
    BY <1>1, <2>1 DEF vars, books, helper, session, counts, SessionTypes
  <2> QED
    BY <1>1, <2>1, HelperTypes, BillTypes, ReaderTypes, HandlerTypes DEF Next, Billers
<1>3. Standing'
  <2>1. CASE UNCHANGED vars
    BY <1>1, <2>1 DEF vars, books, helper, session, counts,
       Standing, HeapShape, BillersStand, Billing, NobodyReads, Reserved
  <2> QED
    BY <1>1, <2>1, HelperStanding, BillStanding, ReaderStanding, HandlerStanding DEF Next, Billers
<1>4. AnswerKept'
  BY <1>1, AnswerStep
<1>5. BooksKept'
  BY <1>1, BooksStep
<1>6. Apart'
  BY <1>1, ApartStep
<1>7. CountedKept'
  BY <1>1, CountedStep
<1>8. SumKept'
  BY <1>1, SumStep
<1> QED
  BY <1>2, <1>3, <1>4, <1>5, <1>6, <1>7, <1>8 DEF SessionInv

\* When all is over nobody charges, and nothing is on its way back.
LEMMA QuietBooks ==
    ASSUME SessionInv, Quiet, faults = 0
    PROVE  BooksClose
<1>1. SessionTypes /\ Standing /\ BooksKept /\ CountedKept /\ SumKept
  BY DEF SessionInv
<1>2. stage \in {"served", "failed"} /\ target # "bill" /\ returning.user = 0 /\ returning.token = 0
  BY DEF Quiet
<1>3. bill["target"].at = "none" /\ bill["handler"].at = "none"
  BY <1>1, <1>2 DEF Standing, BillersStand, Billing
<1>4. /\ req.reserve \in Nat /\ req.kind \in {"realtime", "image"} /\ pre \in Nat /\ used \in Nat
      /\ seen.charged \in Nat /\ seen.counted \in Nat /\ seen.empty \in Nat
      /\ "target" \in Billers /\ "handler" \in Billers
  BY <1>1, AmountTypes
<1>5. CASE req.kind = "realtime"
  <2>1. Unpaid(bill["target"]) = 0 /\ Unpaid(bill["handler"]) = 0 /\ Back = 0 /\ BackToken = 0
    BY <1>2, <1>3, <1>4 DEF Unpaid, Back, BackToken
  <2>2. Loss = Held + seen.charged /\ TokenLoss = HeldToken + seen.charged
    <3>1. Held \in Nat /\ HeldToken \in Nat
      BY <1>1, AmountTypes
    <3> QED
      BY <1>1, <1>4, <1>5, <2>1, <3>1 DEF BooksKept, SessionBooks
  <2>3. HeldToken = Held /\ Held = IF stage = "served" THEN pre ELSE 0
    BY <1>2 DEF Held, HeldToken, SessionStages
  <2>4. stage = "failed" => seen.charged = 0
    BY <1>1 DEF Standing, NobodyReads
  <2>5. Loss = TokenLoss /\ (stage = "failed" => Loss = 0)
        /\ (stage = "served" => Loss - seen.charged \in 0..pre)
    BY <1>4, <2>2, <2>3, <2>4
  <2>6. ASSUME ~seen.raced, ~req.priced
        PROVE  /\ seen.charged <= seen.counted + seen.empty
               /\ ~seen.failed /\ req.kind = "realtime" => used <= seen.charged
    <3> DEFINE x == Leftover(stage, bill["target"], bill["handler"], usage, heap[Len(heap)])
    <3>1. x \in Nat
      BY <1>1, <1>4, LeftoverCases DEF SessionTypes, Standing, HeapShape
    <3>2. seen.charged + x <= seen.counted + seen.empty
      BY <1>1, <2>6 DEF CountedKept
    <3> HIDE DEF x
    <3>3. seen.charged <= seen.counted + seen.empty
      BY <1>4, <3>1, <3>2
    <3> QED
      BY <1>1, <2>6, <3>3 DEF SumKept
  <2> QED
    BY <1>5, <2>5, <2>6 DEF BooksClose
<1>6. CASE req.kind = "image"
  <2>1. seen.charged = 0
    BY <1>1, <1>6 DEF Standing, NobodyReads
  <2>2. /\ used = (IF stage = "served" THEN req.price ELSE 0)
        /\ Loss = (IF stage = "served" THEN req.price ELSE 0)
        /\ TokenLoss = (IF stage = "served" THEN req.price ELSE 0)
    BY <1>1, <1>2, <1>6 DEF BooksKept, ImageBooks
  <2> QED
    BY <1>2, <1>4, <1>6, <2>1, <2>2 DEF BooksClose
<1> QED
  BY <1>4, <1>5, <1>6

\* What is passed on was charged, and the books close.
LEMMA InvPays ==
    ASSUME SessionInv
    PROVE  SessionsPaid
<1>1. AnswersPaid
  <2>1. seen.delivered \in Nat /\ answer \in Nat /\ seen.charged \in Nat
    BY AmountTypes DEF SessionInv, SessionTypes
  <2> QED
    BY <2>1 DEF SessionInv, AnswerKept, AnswersPaid
<1>2. BooksClose
  BY QuietBooks DEF BooksClose
<1> QED
  BY <1>1, <1>2 DEF SessionsPaid

\* No answer of a model without a price is passed on to its end before what the
\* upstream reported of it was charged; and when a request is over and no
\* statement failed the books close: user and token have lost the same, what
\* never opened nothing, an image what was recorded, a session its charges and
\* at most its reservation beside them; without a race nothing was charged
\* twice, and what is recorded as used was charged (WssHelper, OpenaiRealtimeHandler,
\* PreWssConsumeQuota, PostWssConsumeQuota, ImageHelper).
THEOREM SessionsArePaid == Spec => []SessionsPaid
<1>1. Init => SessionInv
  BY SessionBegins
<1>2. SessionInv /\ [Next]_vars => SessionInv'
  BY SessionStep
<1>3. SessionInv => SessionsPaid
  BY InvPays
<1> QED
  BY <1>1, <1>2, <1>3, PTL DEF Spec

USE LimitsAssumption

(***************************************************************************)
(* Sequences of times.                                                     *)
(***************************************************************************)
Sorted(q) == \A i, j \in 1..Len(q) : i <= j => q[i] <= q[j]

\* A window of w ticks that began at x is over at t.
Old(x, w, t) == x + w <= t

\* At most n of the times in p are still in the window that ends at t.
RecentAtMost(p, n, w, t) == Len(p) > n => Old(p[Len(p) - n], w, t)

\* Of m + 1 times in a row the last is a window or more after the first.
Spaced(p, m, w) == \A i \in 1..Len(p) : i + m <= Len(p) => p[i] + w <= p[i + m]

\* What is kept is the end of what has passed.
EndOf(q, p) == /\ Len(q) <= Len(p)
               /\ \A i \in 1..Len(q) : q[i] = p[Len(p) - Len(q) + i]

\* Counted from the end, what has passed recently is kept with the same time
\* or a later one, unless m later ones are kept.
Covers(q, p, m, w, t) ==
    \A j \in 0..Len(p) - 1 :
        \/ Old(p[Len(p) - j], w, t)
        \/ j < Len(q) /\ p[Len(p) - j] <= q[Len(q) - j]
        \/ j >= Len(q) /\ Len(q) >= m

\* What Append does to the entries.
LEMMA AppendEntries ==
    ASSUME NEW q \in Seq(Nat), NEW x \in Nat
    PROVE  /\ Append(q, x) \in Seq(Nat)
           /\ Len(q) \in Nat /\ Len(Append(q, x)) = Len(q) + 1
           /\ \A i \in 1..Len(q) : Append(q, x)[i] = q[i]
           /\ Append(q, x)[Len(q) + 1] = x
OBVIOUS

\* An entry is a number.
LEMMA EntryType ==
    ASSUME NEW q \in Seq(Nat), NEW i \in 1..Len(q)
    PROVE  q[i] \in Nat /\ Len(q) \in Nat
OBVIOUS

\* What is left when the first n entries are cut off.
LEMMA CutEntries ==
    ASSUME NEW q \in Seq(Nat), NEW n \in 0..Len(q)
    PROVE  /\ SubSeq(q, n + 1, Len(q)) \in Seq(Nat)
           /\ Len(SubSeq(q, n + 1, Len(q))) = Len(q) - n
           /\ \A i \in 1..Len(q) - n : SubSeq(q, n + 1, Len(q))[i] = q[n + i]
OBVIOUS

\* The tail is what is left when the first entry is cut off.
LEMMA TailEntries ==
    ASSUME NEW q \in Seq(Nat), q # <<>>
    PROVE  /\ Tail(q) \in Seq(Nat) /\ Len(q) \in Nat \ {0}
           /\ Len(Tail(q)) = Len(q) - 1
           /\ \A i \in 1..Len(q) - 1 : Tail(q)[i] = q[1 + i]
           /\ Head(q) = q[1]
OBVIOUS

\* A sequence of times stays sorted when the present is added.
LEMMA AppendSorted ==
    ASSUME NEW q \in Seq(Nat), NEW t \in Nat, Sorted(q), \A i \in 1..Len(q) : q[i] <= t
    PROVE  /\ Sorted(Append(q, t))
           /\ \A i \in 1..Len(Append(q, t)) : Append(q, t)[i] <= t
<1> DEFINE r == Append(q, t)
<1>1. /\ Len(q) \in Nat /\ Len(r) = Len(q) + 1
      /\ \A i \in 1..Len(q) : r[i] = q[i] /\ q[i] \in Nat
      /\ r[Len(q) + 1] = t
  BY AppendEntries, EntryType
<1> HIDE DEF r
<1>2. \A i \in 1..Len(r) : r[i] <= t
  BY <1>1
<1>3. ASSUME NEW i \in 1..Len(r), NEW j \in 1..Len(r), i <= j PROVE r[i] <= r[j]
  <2>1. CASE j = Len(q) + 1
    BY <1>1, <1>2, <2>1
  <2>2. CASE j <= Len(q)
    BY <1>1, <1>3, <2>2 DEF Sorted
  <2> QED
    BY <1>1, <2>1, <2>2
<1> QED
  BY <1>2, <1>3 DEF Sorted, r

\* The end of a sorted sequence is sorted.
LEMMA CutSorted ==
    ASSUME NEW q \in Seq(Nat), NEW n \in 0..Len(q), NEW t \in Nat,
           Sorted(q), \A i \in 1..Len(q) : q[i] <= t
    PROVE  /\ Sorted(SubSeq(q, n + 1, Len(q)))
           /\ \A i \in 1..Len(SubSeq(q, n + 1, Len(q))) : SubSeq(q, n + 1, Len(q))[i] <= t
<1> DEFINE r == SubSeq(q, n + 1, Len(q))
<1>1. /\ Len(q) \in Nat /\ n \in Nat /\ n <= Len(q)
      /\ Len(r) = Len(q) - n
      /\ \A i \in 1..Len(q) - n : r[i] = q[n + i]
  BY CutEntries
<1> HIDE DEF r
<1>2. \A i \in 1..Len(r) : n + i \in 1..Len(q) /\ r[i] = q[n + i]
  BY <1>1
<1>3. \A i \in 1..Len(r) : r[i] <= t
  BY <1>2
<1>4. ASSUME NEW i \in 1..Len(r), NEW j \in 1..Len(r), i <= j PROVE r[i] <= r[j]
  <2>1. n + i <= n + j
    BY <1>1, <1>4
  <2> QED
    BY <1>2, <2>1 DEF Sorted
<1> QED
  BY <1>3, <1>4 DEF Sorted, r

\* Letting one more pass, when fewer than m are recent.
LEMMA SpacedPush ==
    ASSUME NEW p \in Seq(Nat), NEW m \in Nat \ {0}, NEW w \in Nat, NEW t \in Nat,
           Spaced(p, m, w), RecentAtMost(p, m - 1, w, t)
    PROVE  Spaced(Append(p, t), m, w)
<1> DEFINE r == Append(p, t)
<1>1. /\ Len(p) \in Nat /\ Len(r) = Len(p) + 1
      /\ \A i \in 1..Len(p) : r[i] = p[i]
      /\ r[Len(p) + 1] = t
  BY AppendEntries
<1> HIDE DEF r
<1>2. ASSUME NEW i \in 1..Len(r), i + m <= Len(r) PROVE r[i] + w <= r[i + m]
  <2>1. i \in 1..Len(p) /\ r[i] = p[i]
    BY <1>1, <1>2
  <2>2. CASE i + m = Len(p) + 1
    <3>1. i = Len(p) - (m - 1) /\ Len(p) > m - 1
      BY <1>1, <2>1, <2>2
    <3> QED
      BY <1>1, <2>1, <2>2, <3>1 DEF RecentAtMost, Old
  <2>3. CASE i + m <= Len(p)
    BY <1>1, <2>1, <2>3 DEF Spaced
  <2>4. i + m = Len(p) + 1 \/ i + m <= Len(p)
    BY <1>1, <1>2, <2>1
  <2> QED
    BY <2>2, <2>3, <2>4
<1> QED
  BY <1>2 DEF Spaced, r

\* One more is recent then.
LEMMA RecentPush ==
    ASSUME NEW p \in Seq(Nat), NEW n \in Nat, NEW w, NEW t \in Nat, NEW u,
           RecentAtMost(p, n, w, u)
    PROVE  RecentAtMost(Append(p, t), n + 1, w, u)
<1>1. /\ Len(p) \in Nat /\ Len(Append(p, t)) = Len(p) + 1
      /\ \A i \in 1..Len(p) : Append(p, t)[i] = p[i]
  BY AppendEntries
<1>2. CASE Len(p) > n
  <2>1. Len(p) - n \in 1..Len(p) /\ Len(p) + 1 - (n + 1) = Len(p) - n
    BY <1>1, <1>2
  <2> QED
    BY <1>1, <1>2, <2>1 DEF RecentAtMost
<1>3. CASE Len(p) <= n
  BY <1>1, <1>3 DEF RecentAtMost
<1> QED
  BY <1>1, <1>2, <1>3

\* A bound may be raised, and time may go by.
LEMMA RecentMore ==
    ASSUME NEW p \in Seq(Nat), Sorted(p), NEW n \in Nat, NEW k \in Nat, n <= k,
           NEW w \in Nat, NEW t \in Nat, NEW u \in Nat, t <= u, RecentAtMost(p, n, w, t)
    PROVE  RecentAtMost(p, k, w, u)
<1> SUFFICES ASSUME Len(p) > k PROVE Old(p[Len(p) - k], w, u)
  BY DEF RecentAtMost
<1>1. /\ Len(p) - k \in 1..Len(p) /\ Len(p) - n \in 1..Len(p)
      /\ Len(p) - k <= Len(p) - n /\ Len(p) > n
  BY EntryType
<1>2. p[Len(p) - k] \in Nat /\ p[Len(p) - n] \in Nat /\ p[Len(p) - k] <= p[Len(p) - n]
  BY <1>1, EntryType DEF Sorted
<1>3. p[Len(p) - n] + w <= t
  BY <1>1 DEF RecentAtMost, Old
<1> DEFINE a == p[Len(p) - k]
           b == p[Len(p) - n]
<1>4. a \in Nat /\ b \in Nat /\ a <= b /\ b + w <= t
  BY <1>2, <1>3
<1> HIDE DEF a, b
<1>5. a + w <= u
  BY <1>4
<1> QED
  BY <1>5 DEF Old, a

\* Spaced times fit in a window as often as the spacing says.
LEMMA SpacedWindow ==
    ASSUME NEW p \in Seq(Nat), Sorted(p), NEW m \in Nat \ {0}, NEW w \in Nat \ {0}, NEW t \in Nat,
           Spaced(p, m, w)
    PROVE  Cardinality({i \in DOMAIN p : p[i] \in t..(t + w - 1)}) <= m
<1> DEFINE W == {i \in 1..Len(p) : p[i] \in t..(t + w - 1)}
<1>1. Len(p) \in Nat /\ DOMAIN p = 1..Len(p) /\ \A i \in 1..Len(p) : p[i] \in Nat
  BY EntryType
<1>0. W = {i \in DOMAIN p : p[i] \in t..(t + w - 1)}
  BY <1>1
<1>2. CASE W = {}
  <2> HIDE DEF W
  <2>1. Cardinality(W) = 0
    BY <1>2, FS_EmptySet
  <2> QED
    BY <1>0, <2>1
<1>3. CASE W # {}
  <2>1. PICK a \in W : \A i \in W : <<i, a>> \notin OpToRel(<, Nat)
    <3>1. W \subseteq Nat
      BY <1>1
    <3> HIDE DEF W
    <3> QED
      BY <1>3, <3>1, NatLessThanWellFounded, WFMin
  <2>2. a \in Nat /\ a \in 1..Len(p) /\ p[a] \in t..(t + w - 1)
    BY <1>1
  <2>3. ASSUME NEW i \in W PROVE i \in a..(a + m - 1)
    <3>1. i \in 1..Len(p) /\ i \in Nat /\ p[i] \in t..(t + w - 1)
      BY <1>1
    <3>2. i >= a
      <4>1. <<i, a>> \notin OpToRel(<, Nat)
        BY <2>1
      <4>2. ~(i < a)
        BY <2>2, <3>1, <4>1 DEF OpToRel
      <4> QED
        BY <2>2, <3>1, <4>2
    <3>3. CASE i >= a + m
      <4>1. a + m \in 1..Len(p) /\ a + m <= i /\ a + m <= Len(p)
        BY <1>1, <2>2, <3>1, <3>3
      <4>2. p[a] + w <= p[a + m]
        BY <2>2, <4>1 DEF Spaced
      <4>3. p[a + m] <= p[i]
        BY <3>1, <4>1 DEF Sorted
      <4>4. /\ p[a] \in Nat /\ p[a + m] \in Nat /\ p[i] \in Nat
            /\ p[a] >= t /\ p[i] <= t + w - 1
        BY <1>1, <2>2, <3>1, <4>1
      <4> DEFINE x == p[a]
                 y == p[a + m]
                 z == p[i]
      <4>5. x + w <= y /\ y <= z /\ x \in Nat /\ y \in Nat /\ z \in Nat /\ x >= t /\ z <= t + w - 1
        BY <4>2, <4>3, <4>4
      <4> HIDE DEF x, y, z
      <4> QED
        BY <4>5
    <3> QED
      BY <2>2, <3>1, <3>2, <3>3
  <2>4. IsFiniteSet(a..(a + m - 1)) /\ Cardinality(a..(a + m - 1)) = m
    <3>1. a \in Int /\ a + m - 1 \in Int /\ a <= a + m - 1 /\ (a + m - 1) - a + 1 = m
      BY <2>2
    <3> DEFINE b == a + m - 1
    <3>2. a \in Int /\ b \in Int /\ a <= b /\ b - a + 1 = m
      BY <3>1
    <3> HIDE DEF b
    <3>3. /\ IsFiniteSet(a..b)
          /\ Cardinality(a..b) = IF a > b THEN 0 ELSE b - a + 1
      <4>1. a \in Int /\ b \in Int
        BY <3>2
      <4> QED
        BY <4>1, FS_Interval, Zenon
    <3>4. (IF a > b THEN 0 ELSE b - a + 1) = m
      BY <3>2
    <3> QED
      BY <3>3, <3>4 DEF b
  <2>5. W \in SUBSET (a..(a + m - 1))
    BY <2>3
  <2> HIDE DEF W
  <2>6. Cardinality(W) <= m
    BY <2>4, <2>5, FS_Subset
  <2> QED
    BY <1>0, <2>6
<1> QED
  BY <1>2, <1>3

\* A list that is shorter than the limit, or whose oldest entry is old, shows
\* that one more may pass: what it covers is not recent, from there on.
LEMMA CoverClears ==
    ASSUME NEW q \in Seq(Nat), NEW p \in Seq(Nat), Sorted(p), NEW m \in Nat \ {0},
           NEW w \in Nat, NEW t \in Nat, NEW n \in Nat,
           Covers(q, p, m, w, t),
           \/ Len(q) < m /\ m <= n + 1
           \/ q # <<>> /\ Old(Head(q), w, t) /\ Len(q) <= n + 1
    PROVE  RecentAtMost(p, n, w, t)
<1> SUFFICES ASSUME Len(p) > n PROVE Old(p[Len(p) - n], w, t)
  BY DEF RecentAtMost
<1>1. /\ Len(p) \in Nat /\ Len(q) \in Nat /\ \A i \in 1..Len(p) : p[i] \in Nat
      /\ n \in 0..Len(p) - 1 /\ Len(p) - n \in 1..Len(p)
  BY EntryType
<1>2. CASE Len(q) < m /\ m <= n + 1
  <2>1. \/ Old(p[Len(p) - n], w, t)
        \/ n < Len(q) /\ p[Len(p) - n] <= q[Len(q) - n]
        \/ n >= Len(q) /\ Len(q) >= m
    BY <1>1 DEF Covers
  <2> QED
    BY <1>1, <1>2, <2>1
<1>3. CASE q # <<>> /\ Old(Head(q), w, t) /\ Len(q) <= n + 1
  <2> DEFINE j == Len(q) - 1
  <2>1. /\ Len(q) >= 1 /\ Head(q) = q[1] /\ q[1] \in Nat
        /\ j \in 0..Len(p) - 1 /\ j < Len(q) /\ j <= n
        /\ Len(q) - j = 1 /\ Len(p) - j \in 1..Len(p) /\ Len(p) - n <= Len(p) - j
    <3>1. Len(q) \in Nat \ {0} /\ Head(q) = q[1] /\ 1 \in 1..Len(q)
      BY <1>3, TailEntries
    <3>2. q[1] \in Nat
      BY <3>1, EntryType
    <3>3. j \in Nat /\ Len(q) = j + 1 /\ j <= n
      BY <1>3, <3>1
    <3> HIDE DEF j
    <3>4. j < Len(q) /\ Len(q) - j = 1
      BY <3>1, <3>3
    <3>5. j \in 0..Len(p) - 1 /\ Len(p) - j \in 1..Len(p) /\ Len(p) - n <= Len(p) - j
      BY <1>1, <3>3
    <3> QED
      BY <3>1, <3>2, <3>3, <3>4, <3>5
  <2>2. Old(p[Len(p) - j], w, t) \/ p[Len(p) - j] <= q[1]
    <3>1. \/ Old(p[Len(p) - j], w, t)
          \/ j < Len(q) /\ p[Len(p) - j] <= q[Len(q) - j]
          \/ j >= Len(q) /\ Len(q) >= m
      BY <2>1 DEF Covers
    <3> QED
      BY <1>1, <2>1, <3>1
  <2>3. p[Len(p) - j] \in Nat /\ p[Len(p) - n] \in Nat /\ p[Len(p) - n] <= p[Len(p) - j]
    BY <1>1, <2>1 DEF Sorted
  <2> DEFINE x == p[Len(p) - j]
             y == p[Len(p) - n]
             z == q[1]
  <2>4. /\ x \in Nat /\ y \in Nat /\ z \in Nat
        /\ y <= x /\ z + w <= t /\ (x + w <= t \/ x <= z)
    BY <1>3, <2>1, <2>2, <2>3 DEF Old
  <2> HIDE DEF x, y, z
  <2>5. y + w <= t
    BY <2>4
  <2> QED
    BY <2>5 DEF y, Old
<1> QED
  BY <1>2, <1>3

\* The present is added to what has passed and to what is kept.
LEMMA CoverBoth ==
    ASSUME NEW q \in Seq(Nat), NEW p \in Seq(Nat), NEW m \in Nat, NEW w \in Nat, NEW t \in Nat,
           Covers(q, p, m, w, t)
    PROVE  Covers(Append(q, t), Append(p, t), m, w, t)
<1> DEFINE a == Append(q, t)
           b == Append(p, t)
<1>1. /\ Len(q) \in Nat /\ Len(a) = Len(q) + 1
      /\ \A i \in 1..Len(q) : a[i] = q[i]
      /\ a[Len(q) + 1] = t
      /\ Len(p) \in Nat /\ Len(b) = Len(p) + 1
      /\ \A i \in 1..Len(p) : b[i] = p[i]
      /\ b[Len(p) + 1] = t
  BY AppendEntries
<1> HIDE DEF a, b
<1>2. ASSUME NEW j \in 0..Len(b) - 1
      PROVE  \/ Old(b[Len(b) - j], w, t)
             \/ j < Len(a) /\ b[Len(b) - j] <= a[Len(a) - j]
             \/ j >= Len(a) /\ Len(a) >= m
  <2>1. CASE j = 0
    BY <1>1, <2>1
  <2>2. CASE j > 0
    <3> DEFINE k == j - 1
    <3>0. j \in Nat /\ k \in Nat /\ j = k + 1 /\ j <= Len(p)
      BY <1>1, <2>2
    <3> HIDE DEF k
    <3>1. /\ k \in 0..Len(p) - 1 /\ Len(b) - j = Len(p) - k /\ Len(p) - k \in 1..Len(p)
          /\ b[Len(b) - j] = p[Len(p) - k]
      <4>1. k \in 0..Len(p) - 1 /\ Len(b) - j = Len(p) - k
        BY <1>1, <3>0
      <4>2. Len(p) - k \in 1..Len(p)
        BY <1>1, <3>0
      <4> QED
        BY <1>1, <4>1, <4>2
    <3>2. \/ Old(p[Len(p) - k], w, t)
          \/ k < Len(q) /\ p[Len(p) - k] <= q[Len(q) - k]
          \/ k >= Len(q) /\ Len(q) >= m
      BY <3>1 DEF Covers
    <3>3. k < Len(q) => /\ j < Len(a) /\ Len(a) - j = Len(q) - k
                        /\ Len(q) - k \in 1..Len(q) /\ a[Len(a) - j] = q[Len(q) - k]
      <4> SUFFICES ASSUME k < Len(q)
                   PROVE  /\ j < Len(a) /\ Len(a) - j = Len(q) - k
                          /\ Len(q) - k \in 1..Len(q) /\ a[Len(a) - j] = q[Len(q) - k]
        OBVIOUS
      <4>1. j < Len(a) /\ Len(a) - j = Len(q) - k /\ Len(q) - k \in 1..Len(q)
        BY <1>1, <3>0
      <4> QED
        BY <1>1, <4>1
    <3>4. k >= Len(q) /\ Len(q) >= m => j >= Len(a) /\ Len(a) >= m
      BY <1>1, <3>0
    <3> QED
      BY <3>1, <3>2, <3>3, <3>4
  <2> QED
    BY <1>1, <2>1, <2>2
<1> QED
  BY <1>2 DEF Covers, a, b

\* The present is added to what is kept alone.
LEMMA CoverRefused ==
    ASSUME NEW q \in Seq(Nat), NEW p \in Seq(Nat), NEW m \in Nat \ {0}, NEW w \in Nat, NEW t \in Nat,
           Sorted(q), Sorted(p), \A i \in 1..Len(q) : q[i] <= t, \A i \in 1..Len(p) : p[i] <= t,
           Covers(q, p, m, w, t)
    PROVE  Covers(Append(q, t), p, m, w, t)
<1> DEFINE a == Append(q, t)
<1>1. /\ Len(q) \in Nat /\ Len(a) = Len(q) + 1 /\ Len(p) \in Nat
      /\ \A i \in 1..Len(q) : a[i] = q[i] /\ q[i] \in Nat
      /\ a[Len(q) + 1] = t
      /\ \A i \in 1..Len(p) : p[i] \in Nat
  BY AppendEntries, EntryType
<1> HIDE DEF a
<1>2. ASSUME NEW j \in 0..Len(p) - 1
      PROVE  \/ Old(p[Len(p) - j], w, t)
             \/ j < Len(a) /\ p[Len(p) - j] <= a[Len(a) - j]
             \/ j >= Len(a) /\ Len(a) >= m
  <2>0. j \in Nat /\ Len(p) - j \in 1..Len(p) /\ p[Len(p) - j] \in Nat
    BY <1>1
  <2>1. CASE j = 0
    BY <1>1, <2>0, <2>1
  <2>2. CASE j > 0 /\ j <= Len(q)
    <3> DEFINE k == j - 1
    <3>0. k \in Nat /\ j = k + 1 /\ j <= Len(p) /\ j <= Len(q)
      BY <1>1, <2>0, <2>2
    <3> HIDE DEF k
    <3>1. /\ k \in 0..Len(p) - 1 /\ k < Len(q) /\ Len(p) - k \in 1..Len(p)
          /\ Len(p) - j <= Len(p) - k /\ p[Len(p) - k] \in Nat
          /\ Len(a) - j = Len(q) - k /\ Len(q) - k \in 1..Len(q)
          /\ a[Len(a) - j] = q[Len(q) - k] /\ q[Len(q) - k] \in Nat
      <4>1. k \in 0..Len(p) - 1 /\ k < Len(q) /\ Len(p) - j <= Len(p) - k
        BY <1>1, <3>0
      <4>2. Len(p) - k \in 1..Len(p)
        BY <1>1, <3>0
      <4>3. Len(a) - j = Len(q) - k /\ Len(q) - k \in 1..Len(q)
        BY <1>1, <3>0
      <4> QED
        BY <1>1, <4>1, <4>2, <4>3
    <3>2. p[Len(p) - j] <= p[Len(p) - k]
      BY <2>0, <3>1 DEF Sorted
    <3>3. Old(p[Len(p) - k], w, t) \/ p[Len(p) - k] <= q[Len(q) - k]
      <4>1. \/ Old(p[Len(p) - k], w, t)
            \/ k < Len(q) /\ p[Len(p) - k] <= q[Len(q) - k]
            \/ k >= Len(q) /\ Len(q) >= m
        BY <3>1 DEF Covers
      <4> QED
        BY <1>1, <3>1, <4>1
    <3> DEFINE x == p[Len(p) - j]
               y == p[Len(p) - k]
               z == q[Len(q) - k]
    <3>4. /\ x \in Nat /\ y \in Nat /\ z \in Nat /\ x <= y
          /\ (y + w <= t \/ y <= z)
      BY <2>0, <3>1, <3>2, <3>3 DEF Old
    <3> HIDE DEF x, y, z
    <3>5. x + w <= t \/ x <= z
      BY <3>4
    <3>6. Old(p[Len(p) - j], w, t) \/ p[Len(p) - j] <= a[Len(a) - j]
      BY <3>1, <3>5 DEF x, z, Old
    <3> QED
      BY <1>1, <2>0, <2>2, <3>6
  <2>3. CASE j > Len(q)
    <3>1. \/ Old(p[Len(p) - j], w, t)
          \/ j < Len(q) /\ p[Len(p) - j] <= q[Len(q) - j]
          \/ j >= Len(q) /\ Len(q) >= m
      BY DEF Covers
    <3>2. j >= Len(a) /\ ~(j < Len(q))
      BY <1>1, <2>0, <2>3
    <3>3. Len(q) >= m => Len(a) >= m
      BY <1>1
    <3> QED
      BY <3>1, <3>2, <3>3
  <2> QED
    BY <1>1, <2>0, <2>1, <2>2, <2>3, SMTT(20)
<1> QED
  BY <1>2 DEF Covers, a

\* The list is cut to the limit.
LEMMA CoverCut ==
    ASSUME NEW q \in Seq(Nat), NEW p \in Seq(Nat), NEW m \in Nat, NEW w \in Nat, NEW t \in Nat,
           Covers(q, p, m, w, t), Len(q) > m
    PROVE  Covers(SubSeq(q, Len(q) - m + 1, Len(q)), p, m, w, t)
<1> DEFINE n == Len(q) - m
           a == SubSeq(q, n + 1, Len(q))
<1>1. Len(q) \in Nat /\ Len(p) \in Nat /\ n \in 0..Len(q)
  BY EntryType
<1>2. Len(a) = m /\ \A i \in 1..m : a[i] = q[n + i]
  <2>1. ASSUME NEW k \in 0..Len(q)
        PROVE  /\ Len(SubSeq(q, k + 1, Len(q))) = Len(q) - k
               /\ \A i \in 1..Len(q) - k : SubSeq(q, k + 1, Len(q))[i] = q[k + i]
    BY <2>1, CutEntries
  <2>2. Len(a) = Len(q) - n /\ \A i \in 1..Len(q) - n : a[i] = q[n + i]
    BY <1>1, <2>1
  <2>3. Len(q) - n = m
    BY <1>1
  <2> HIDE DEF n, a
  <2> QED
    BY <2>2, <2>3
<1> HIDE DEF a
<1>3. ASSUME NEW j \in 0..Len(p) - 1
      PROVE  \/ Old(p[Len(p) - j], w, t)
             \/ j < Len(a) /\ p[Len(p) - j] <= a[Len(a) - j]
             \/ j >= Len(a) /\ Len(a) >= m
  <2>1. \/ Old(p[Len(p) - j], w, t)
        \/ j < Len(q) /\ p[Len(p) - j] <= q[Len(q) - j]
        \/ j >= Len(q) /\ Len(q) >= m
    BY DEF Covers
  <2>2. CASE j < m
    <3>1. j \in Nat /\ m - j \in 1..m /\ n + (m - j) = Len(q) - j /\ j < Len(q)
      BY <1>1, <2>2
    <3>2. a[Len(a) - j] = q[Len(q) - j]
      BY <1>2, <3>1
    <3> QED
      BY <1>2, <2>1, <2>2, <3>1, <3>2
  <2>3. CASE j >= m
    BY <1>2, <2>3
  <2> QED
    BY <1>1, <2>2, <2>3
<1> QED
  BY <1>3 DEF Covers, a

\* Time goes by, and the list may have expired.
LEMMA CoverLater ==
    ASSUME NEW q \in Seq(Nat), NEW p \in Seq(Nat), NEW m \in Nat, NEW w \in Nat,
           NEW t \in Nat, NEW u \in Nat, t <= u, Covers(q, p, m, w, t)
    PROVE  Covers(q, p, m, w, u)
<1>1. /\ Len(p) \in Nat
      /\ \A j \in 0..Len(p) - 1 : Len(p) - j \in 1..Len(p)
      /\ \A i \in 1..Len(p) : p[i] \in Nat
  BY EntryType
<1>2. \A x \in Nat : Old(x, w, t) => Old(x, w, u)
  BY DEF Old
<1> QED
  BY <1>1, <1>2 DEF Covers

(***************************************************************************)
(* Counting the clients at some places.                                    *)
(***************************************************************************)
Where(s, Q) == {c \in Clients : s[c].pc \in Q}
Size(s, Q) == Cardinality(Where(s, Q))
States == [Clients -> [pc : Places, seen : Nat]]

\* There are finitely many clients, and there is one.
LEMMA CrowdType == Crowd \in Nat \ {0}
<1>1. Crowd \in Nat
  BY FS_CardinalityType DEF LimitsAssumption, Crowd
<1>2. Crowd # 0
  BY FS_EmptySet DEF LimitsAssumption, Crowd
<1> QED
  BY <1>1, <1>2

\* As many at some places as there are clients, at most.
LEMMA SizeType ==
    ASSUME NEW s, NEW Q
    PROVE  /\ Where(s, Q) \subseteq Clients /\ IsFiniteSet(Where(s, Q))
           /\ Size(s, Q) \in Nat /\ Size(s, Q) <= Crowd
<1>1. Where(s, Q) \in SUBSET Clients
  BY DEF Where
<1>2. IsFiniteSet(Clients)
  BY DEF LimitsAssumption
<1>3. IsFiniteSet(Where(s, Q)) /\ Cardinality(Where(s, Q)) <= Cardinality(Clients)
  BY <1>1, <1>2, FS_Subset
<1> QED
  BY <1>1, <1>3, FS_CardinalityType DEF Size, Crowd

\* Nobody else moves from s to r.
OnlyMoves(c, s, r) == \A d \in Clients \ {c} : r[d].pc = s[d].pc

\* One client's move changes the numbers by one at most.
LEMMA MoveSizes ==
    ASSUME NEW s, NEW r, NEW c \in Clients, OnlyMoves(c, s, r), NEW Q
    PROVE  /\ (s[c].pc \in Q <=> r[c].pc \in Q) => Size(r, Q) = Size(s, Q)
           /\ s[c].pc \notin Q /\ r[c].pc \in Q => Size(r, Q) = Size(s, Q) + 1
           /\ s[c].pc \in Q => Size(s, Q) >= 1
           /\ s[c].pc \in Q /\ r[c].pc \notin Q => Size(r, Q) = Size(s, Q) - 1
<1>1. \A d \in Clients \ {c} : r[d].pc = s[d].pc
  BY DEF OnlyMoves
<1>2. IsFiniteSet(Where(s, Q)) /\ Size(s, Q) \in Nat /\ IsFiniteSet(Where(r, Q)) /\ Size(r, Q) \in Nat
  BY SizeType
<1>3. ASSUME s[c].pc \in Q <=> r[c].pc \in Q PROVE Size(r, Q) = Size(s, Q)
  <2>1. Where(r, Q) = Where(s, Q)
    BY <1>1, <1>3 DEF Where
  <2> QED
    BY <2>1 DEF Size
<1>4. ASSUME s[c].pc \notin Q, r[c].pc \in Q PROVE Size(r, Q) = Size(s, Q) + 1
  <2>1. Where(r, Q) = Where(s, Q) \cup {c} /\ c \notin Where(s, Q)
    BY <1>1, <1>4 DEF Where
  <2> QED
    BY <1>2, <2>1, FS_AddElement DEF Size
<1>5. ASSUME s[c].pc \in Q PROVE Size(s, Q) >= 1
  <2>1. c \in Where(s, Q)
    BY <1>5 DEF Where
  <2>2. Size(s, Q) # 0
    BY <1>2, <2>1, FS_EmptySet DEF Size
  <2> QED
    BY <1>2, <2>2
<1>6. ASSUME s[c].pc \in Q, r[c].pc \notin Q PROVE Size(r, Q) = Size(s, Q) - 1
  <2>1. Where(r, Q) = Where(s, Q) \ {c} /\ c \in Where(s, Q)
    BY <1>1, <1>6 DEF Where
  <2> QED
    BY <1>2, <2>1, FS_RemoveElement DEF Size
<1> QED
  BY <1>3, <1>4, <1>5, <1>6

\* Nobody is at two places.
LEMMA FarApart ==
    ASSUME NEW s, NEW Q, NEW R, Q \cap R = {}
    PROVE  Size(s, Q) + Size(s, R) <= Crowd
<1> DEFINE A == Where(s, Q)
           B == Where(s, R)
<1>1. A \cap B = {}
  BY DEF Where
<1>2. IsFiniteSet(A) /\ IsFiniteSet(B) /\ A \cup B \in SUBSET Clients
  BY SizeType
<1>3. IsFiniteSet(Clients)
  BY DEF LimitsAssumption
<1> HIDE DEF A, B
<1>4. Cardinality(A \cup B) <= Cardinality(Clients)
  BY <1>2, <1>3, FS_Subset
<1>5. Cardinality(A \cup B) = Cardinality(A) + Cardinality(B) - Cardinality(A \cap B)
  BY <1>2, FS_Union
<1>6. Cardinality(A \cap B) = 0
  BY <1>1, FS_EmptySet
<1>7. Cardinality(A) \in Nat /\ Cardinality(B) \in Nat
  BY <1>2, FS_CardinalityType
<1> QED
  BY <1>4, <1>5, <1>6, <1>7 DEF Size, Crowd, A, B

(***************************************************************************)
(* The end of what has passed.                                             *)
(***************************************************************************)

\* The present is added to both.
LEMMA EndOfPush ==
    ASSUME NEW q \in Seq(Nat), NEW p \in Seq(Nat), NEW t \in Nat, EndOf(q, p)
    PROVE  EndOf(Append(q, t), Append(p, t))
<1> DEFINE a == Append(q, t)
           b == Append(p, t)
<1>1. /\ Len(q) \in Nat /\ Len(p) \in Nat
      /\ Len(a) = Len(q) + 1 /\ Len(b) = Len(p) + 1
      /\ \A i \in 1..Len(q) : a[i] = q[i]
      /\ \A i \in 1..Len(p) : b[i] = p[i]
      /\ a[Len(q) + 1] = t /\ b[Len(p) + 1] = t
  BY AppendEntries
<1> HIDE DEF a, b
<1>2. Len(q) <= Len(p) /\ \A i \in 1..Len(q) : q[i] = p[Len(p) - Len(q) + i]
  BY DEF EndOf
<1>3. Len(a) <= Len(b) /\ Len(b) - Len(a) = Len(p) - Len(q)
  BY <1>1, <1>2
<1>4. ASSUME NEW i \in 1..Len(a) PROVE a[i] = b[Len(b) - Len(a) + i]
  <2>1. CASE i = Len(q) + 1
    <3>1. Len(b) - Len(a) + i = Len(p) + 1
      BY <1>1, <2>1
    <3> QED
      BY <1>1, <2>1, <3>1
  <2>2. CASE i \in 1..Len(q)
    <3>1. Len(p) - Len(q) + i \in 1..Len(p)
      BY <1>1, <1>2, <2>2
    <3>2. Len(b) - Len(a) + i = Len(p) - Len(q) + i
      BY <1>3
    <3> QED
      BY <1>1, <1>2, <2>2, <3>1, <3>2
  <2> QED
    BY <1>1, <2>1, <2>2
<1> QED
  BY <1>3, <1>4 DEF EndOf, a, b

\* It is in order when the whole is, counted from the start or from the end.
LEMMA EndOfSorted ==
    ASSUME NEW r \in Seq(Nat), NEW p \in Seq(Nat), EndOf(r, p), Sorted(p), NEW t \in Nat,
           \A i \in 1..Len(p) : p[i] <= t
    PROVE  /\ Sorted(r) /\ \A i \in 1..Len(r) : r[i] <= t
           /\ \A j \in 0..Len(r) - 1 : r[Len(r) - j] = p[Len(p) - j]
<1>1. /\ Len(r) \in Nat /\ Len(p) \in Nat /\ Len(r) <= Len(p)
      /\ \A i \in 1..Len(r) : r[i] = p[Len(p) - Len(r) + i]
  BY EntryType DEF EndOf
<1>2. \A i \in 1..Len(r) : Len(p) - Len(r) + i \in 1..Len(p)
  BY <1>1
<1>3. ASSUME NEW i \in 1..Len(r), NEW j \in 1..Len(r), i <= j PROVE r[i] <= r[j]
  <2>1. Len(p) - Len(r) + i <= Len(p) - Len(r) + j
    BY <1>1, <1>3
  <2> QED
    BY <1>1, <1>2, <2>1 DEF Sorted
<1>4. \A i \in 1..Len(r) : r[i] <= t
  BY <1>1, <1>2
<1>5. ASSUME NEW j \in 0..Len(r) - 1 PROVE r[Len(r) - j] = p[Len(p) - j]
  <2>1. Len(r) - j \in 1..Len(r) /\ Len(p) - Len(r) + (Len(r) - j) = Len(p) - j
    BY <1>1
  <2>2. r[Len(r) - j] = p[Len(p) - Len(r) + (Len(r) - j)]
    BY <1>1, <2>1
  <2> QED
    BY <2>1, <2>2
<1> QED
  BY <1>3, <1>4, <1>5 DEF Sorted

(***************************************************************************)
(* What is kept under a key in Redis, q, of what has passed, p, since the  *)
(* list last began: it covers that, r; of M that may pass in a window, n   *)
(* have been let through and are not yet counted.  When the list expired   *)
(* the clients' last records may have gone with it: while those are recent *)
(* nothing on the list is old, so that fewer pass.                         *)
(***************************************************************************)
Lost(q, p, r, n, t, m, w) ==
    LET last == p[Len(p) - Len(r)] IN
    /\ \A i \in 1..Len(q) : last <= q[i]
    /\ Old(last, w, t) \/ Len(r) + n <= m + Crowd - 1
    /\ RecentAtMost(p, Len(r) + Crowd, w, t)

Since(q, p, r, n, t, m, M, w) ==
    /\ EndOf(r, p)
    /\ Covers(q, r, m, w, t)
    /\ RecentAtMost(r, M - n, w, t)
    /\ Len(p) > Len(r) => Lost(q, p, r, n, t, m, w)

(***************************************************************************)
(* The list is there until e (0: for ever); by then all is old that has    *)
(* passed, but the records of the x clients that have yet to set it.       *)
(***************************************************************************)
Keeps(q, p, e, n, x, t, m, M, w, L) ==
    /\ \E r \in Seq(Nat) : Since(q, p, r, n, t, m, M, w)
    /\ Spaced(p, m + 2 * Crowd - 1, w)
    /\ e # 0 => RecentAtMost(p, x, L, e)
    /\ q = <<>> => e = 0

\* The numbers are numbers.
Numbers(n, t, m, M, w) ==
    /\ n \in Nat /\ t \in Nat /\ m \in Nat \ {0} /\ M \in Nat /\ w \in Nat
    /\ n <= M /\ n <= Crowd /\ M <= m + 2 * Crowd - 1

\* What has passed before the list began.
LEMMA LastType ==
    ASSUME NEW r \in Seq(Nat), NEW p \in Seq(Nat), EndOf(r, p), Len(p) > Len(r)
    PROVE  /\ Len(p) - Len(r) \in 1..Len(p) /\ p[Len(p) - Len(r)] \in Nat
           /\ Len(p) \in Nat /\ Len(r) \in Nat
<1>1. Len(p) \in Nat /\ Len(r) \in Nat
  BY EntryType
<1>2. Len(p) - Len(r) \in 1..Len(p)
  BY <1>1
<1> QED
  BY <1>1, <1>2, EntryType

\* Fewer are let through and not counted: one gave up, or none moved.
LEMMA SinceFewer ==
    ASSUME NEW q \in Seq(Nat), NEW p \in Seq(Nat), NEW r \in Seq(Nat), NEW n, NEW k \in Nat, NEW t,
           NEW m, NEW M, NEW w, Numbers(n, t, m, M, w), k <= n,
           Sorted(p), \A i \in 1..Len(p) : p[i] <= t, Since(q, p, r, n, t, m, M, w)
    PROVE  Since(q, p, r, k, t, m, M, w)
<1>0. n \in Nat /\ t \in Nat /\ m \in Nat \ {0} /\ M \in Nat /\ w \in Nat /\ n <= M /\ Crowd \in Nat
  BY CrowdType DEF Numbers
<1>1. RecentAtMost(r, M - k, w, t)
  <2> DEFINE a == M - n
             b == M - k
  <2>1. a \in Nat /\ b \in Nat /\ a <= b
    BY <1>0
  <2>2. RecentAtMost(r, a, w, t) /\ Sorted(r)
    BY <1>0, EndOfSorted DEF Since
  <2> HIDE DEF a, b
  <2>3. RecentAtMost(r, b, w, t)
    BY <1>0, <2>1, <2>2, RecentMore
  <2> QED
    BY <2>3 DEF b
<1>2. ASSUME Len(p) > Len(r) PROVE Lost(q, p, r, k, t, m, w)
  <2> DEFINE c == Len(r)
             b == m + Crowd - 1
  <2>1. c \in Nat /\ b \in Int
    BY <1>0, EntryType
  <2> HIDE DEF b
  <2>2. c + n <= b => c + k <= b
    BY <1>0, <2>1
  <2> QED
    BY <1>2, <2>2 DEF Since, Lost, b
<1> QED
  BY <1>1, <1>2 DEF Since

\* One is let through after looking at the list.
LEMMA SinceOneMore ==
    ASSUME NEW q \in Seq(Nat), NEW p \in Seq(Nat), NEW r \in Seq(Nat), NEW n, NEW k \in Nat, NEW t,
           NEW m, NEW M, NEW w, Numbers(n, t, m, M, w), k <= M, k <= Crowd,
           Sorted(p), \A i \in 1..Len(p) : p[i] <= t,
           \/ Len(q) < m /\ m + k <= M + 1
           \/ q # <<>> /\ Old(Head(q), w, t) /\ Len(q) + k <= M + 1,
           Since(q, p, r, n, t, m, M, w)
    PROVE  Since(q, p, r, k, t, m, M, w)
<1>0. /\ n \in Nat /\ t \in Nat /\ m \in Nat \ {0} /\ M \in Nat /\ w \in Nat
      /\ Crowd \in Nat /\ Len(q) \in Nat /\ Len(r) \in Nat /\ Len(p) \in Nat
  BY CrowdType, EntryType DEF Numbers
<1>1. /\ Sorted(r) /\ \A i \in 1..Len(r) : r[i] <= t
      /\ \A j \in 0..Len(r) - 1 : r[Len(r) - j] = p[Len(p) - j]
      /\ EndOf(r, p) /\ Covers(q, r, m, w, t)
  BY <1>0, EndOfSorted DEF Since
<1>2. RecentAtMost(r, M - k, w, t)
  <2> DEFINE b == M - k
  <2>1. /\ b \in Nat
        /\ \/ Len(q) < m /\ m <= b + 1
           \/ q # <<>> /\ Old(Head(q), w, t) /\ Len(q) <= b + 1
    BY <1>0
  <2> HIDE DEF b
  <2>2. RecentAtMost(r, b, w, t)
    BY <1>0, <1>1, <2>1, CoverClears
  <2> QED
    BY <2>2 DEF b
<1>3. ASSUME Len(p) > Len(r) PROVE Lost(q, p, r, k, t, m, w)
  <2> DEFINE last == p[Len(p) - Len(r)]
  <2>1. /\ \A i \in 1..Len(q) : last <= q[i]
        /\ RecentAtMost(p, Len(r) + Crowd, w, t)
    BY <1>3 DEF Since, Lost
  <2>2. last \in Nat /\ Len(p) - Len(r) \in 1..Len(p)
    BY <1>1, <1>3, LastType
  <2>3. CASE q # <<>> /\ Old(Head(q), w, t)
    <3> DEFINE x == q[1]
    <3>1. x \in Nat /\ last <= x /\ x + w <= t
      <4>1. Head(q) = q[1] /\ 1 \in 1..Len(q)
        BY <2>3, TailEntries
      <4> QED
        BY <2>1, <2>3, <4>1, EntryType DEF Old
    <3> HIDE DEF last, x
    <3>2. Old(last, w, t)
      BY <1>0, <2>2, <3>1 DEF Old
    <3> QED
      BY <2>1, <3>2 DEF Lost, last
  <2>4. CASE Len(q) < m /\ ~Old(last, w, t)
    <3>1. Len(r) <= Len(q)
      <4> SUFFICES ASSUME Len(r) > Len(q) PROVE FALSE
        BY <1>0
      <4> DEFINE j == Len(q)
                 y == r[Len(r) - j]
      <4>1. j \in 0..Len(r) - 1
        BY <1>0
      <4>2. Old(y, w, t)
        <5>1. \/ Old(y, w, t)
              \/ j < Len(q) /\ r[Len(r) - j] <= q[Len(q) - j]
              \/ j >= Len(q) /\ Len(q) >= m
          BY <1>1, <4>1 DEF Covers
        <5> QED
          BY <1>0, <2>4, <5>1
      <4>3. y = p[Len(p) - j] /\ Len(p) - j \in 1..Len(p) /\ Len(p) - Len(r) <= Len(p) - j
        <5>1. Len(r) <= Len(p)
          BY <1>1 DEF EndOf
        <5>2. Len(p) - j \in 1..Len(p) /\ Len(p) - Len(r) <= Len(p) - j
          <6> DEFINE P == Len(p)
                     R == Len(r)
          <6>1. j \in 0..R - 1 /\ R \in Nat /\ P \in Nat /\ R <= P
            BY <1>0, <4>1, <5>1
          <6> HIDE DEF P, R, j
          <6>2. P - j \in 1..P /\ P - R <= P - j
            BY <6>1
          <6> QED
            BY <6>2 DEF P, R
        <5> QED
          BY <1>1, <4>1, <5>2
      <4>4. y \in Nat /\ last <= y
        BY <2>2, <4>3, EntryType DEF Sorted
      <4> HIDE DEF last, y
      <4>5. Old(last, w, t)
        BY <1>0, <2>2, <4>2, <4>4 DEF Old
      <4> QED
        BY <2>4, <4>5
    <3>2. Len(r) + k <= m + Crowd - 1
      BY <1>0, <2>4, <3>1
    <3> QED
      BY <2>1, <3>2 DEF Lost
  <2>5. CASE Old(last, w, t)
    BY <2>1, <2>5 DEF Lost
  <2> QED
    BY <2>3, <2>4, <2>5
<1> QED
  BY <1>1, <1>2, <1>3 DEF Since

\* When one that was let through is not counted yet, fewer are recent than may
\* pass, of all that has passed.
LEMMA SinceRecent ==
    ASSUME NEW q \in Seq(Nat), NEW p \in Seq(Nat), NEW r \in Seq(Nat), NEW n, NEW t,
           NEW m, NEW M, NEW w, Numbers(n, t, m, M, w), 1 <= n,
           Sorted(p), \A i \in 1..Len(p) : p[i] <= t, Since(q, p, r, n, t, m, M, w)
    PROVE  RecentAtMost(p, m + 2 * Crowd - 2, w, t)
<1> DEFINE b == m + 2 * Crowd - 2
           C == Crowd
<1>0. /\ n \in Nat /\ t \in Nat /\ m \in Nat \ {0} /\ M \in Nat /\ w \in Nat /\ n <= M
      /\ C \in Nat \ {0} /\ b = m + 2 * C - 2 /\ M - n <= b /\ M - n \in Nat /\ b \in Nat
      /\ Len(r) \in Nat /\ Len(p) \in Nat
  <2>1. /\ n \in Nat /\ t \in Nat /\ m \in Nat \ {0} /\ M \in Nat /\ w \in Nat /\ n <= M
        /\ C \in Nat \ {0} /\ M <= m + 2 * C - 1
    BY CrowdType DEF Numbers
  <2> HIDE DEF C
  <2>2. b = m + 2 * C - 2
    BY DEF C
  <2> HIDE DEF b
  <2>3. M - n <= b /\ M - n \in Nat /\ b \in Nat
    BY <2>1, <2>2
  <2> QED
    BY <2>1, <2>2, <2>3, EntryType
<1>1. /\ Sorted(r) /\ EndOf(r, p) /\ RecentAtMost(r, M - n, w, t)
      /\ \A j \in 0..Len(r) - 1 : r[Len(r) - j] = p[Len(p) - j]
  BY <1>0, EndOfSorted DEF Since
<1>2. RecentAtMost(r, b, w, t)
  <2> DEFINE a == M - n
  <2>1. a \in Nat /\ b \in Nat /\ a <= b /\ RecentAtMost(r, a, w, t) /\ t <= t
    BY <1>0, <1>1
  <2> HIDE DEF a, b
  <2> QED
    BY <1>0, <1>1, <2>1, RecentMore
<1> SUFFICES RecentAtMost(p, b, w, t)
  OBVIOUS
<1> HIDE DEF b
<1>3. CASE b < Len(r)
  <2>1. b \in 0..Len(r) - 1 /\ Len(r) > b
    BY <1>0, <1>3
  <2>2. r[Len(r) - b] = p[Len(p) - b] /\ Old(r[Len(r) - b], w, t)
    BY <1>1, <1>2, <2>1 DEF RecentAtMost
  <2> QED
    BY <2>2 DEF RecentAtMost
<1>4. CASE b >= Len(r) /\ Len(p) > b
  <2> DEFINE last == p[Len(p) - Len(r)]
             y == p[Len(p) - b]
  <2>0. Len(p) > Len(r)
    BY <1>0, <1>4
  <2>1. /\ Old(last, w, t) \/ Len(r) + n <= m + C - 1
        /\ RecentAtMost(p, Len(r) + C, w, t)
    BY <2>0 DEF Since, Lost
  <2>2. last \in Nat /\ Len(p) - Len(r) \in 1..Len(p)
    BY <1>1, <2>0, LastType
  <2>3. CASE Old(last, w, t)
    <3>1. Len(p) - b \in 1..Len(p) /\ Len(p) - b <= Len(p) - Len(r)
      BY <1>0, <1>4
    <3>2. y \in Nat /\ y <= last
      BY <2>2, <3>1, EntryType DEF Sorted
    <3> HIDE DEF last, y
    <3>3. Old(y, w, t)
      BY <1>0, <2>2, <2>3, <3>2 DEF Old
    <3> QED
      BY <3>3 DEF RecentAtMost, y
  <2>4. CASE Len(r) + n <= m + C - 1
    <3> DEFINE a == Len(r) + C
    <3>1. a \in Nat /\ a <= b
      <4> HIDE DEF C
      <4> QED
        BY <1>0, <2>4
    <3> HIDE DEF a
    <3>2. RecentAtMost(p, a, w, t)
      BY <2>1 DEF a
    <3> QED
      BY <1>0, <3>1, <3>2, RecentMore
  <2> QED
    BY <2>1, <2>3, <2>4
<1>5. CASE ~(Len(p) > b)
  BY <1>5 DEF RecentAtMost
<1> QED
  BY <1>0, <1>3, <1>4, <1>5

\* One that was let through is counted.
LEMMA SincePush ==
    ASSUME NEW q \in Seq(Nat), NEW p \in Seq(Nat), NEW r \in Seq(Nat), NEW n, NEW t,
           NEW m, NEW M, NEW w, Numbers(n, t, m, M, w), 1 <= n,
           Sorted(p), \A i \in 1..Len(p) : p[i] <= t, Since(q, p, r, n, t, m, M, w)
    PROVE  Since(Append(q, t), Append(p, t), Append(r, t), n - 1, t, m, M, w)
<1> DEFINE C == Crowd
           a == Append(q, t)
           b == Append(p, t)
           d == Append(r, t)
<1>0. /\ n \in Nat /\ t \in Nat /\ m \in Nat \ {0} /\ M \in Nat /\ w \in Nat /\ n <= M /\ C \in Nat
      /\ Len(r) \in Nat /\ Len(p) \in Nat
  BY CrowdType, EntryType DEF Numbers
<1>1. EndOf(d, b)
  BY <1>0, EndOfPush DEF Since
<1>2. Covers(a, d, m, w, t)
  BY <1>0, CoverBoth DEF Since
<1>3. RecentAtMost(d, M - (n - 1), w, t)
  <2> DEFINE c == M - n
  <2>1. c \in Nat /\ M - (n - 1) = c + 1
    BY <1>0
  <2>2. RecentAtMost(r, c, w, t)
    BY DEF Since
  <2> HIDE DEF c
  <2>3. RecentAtMost(d, c + 1, w, t)
    BY <1>0, <2>1, <2>2, RecentPush
  <2> QED
    BY <2>1, <2>3
<1>4. ASSUME Len(b) > Len(d) PROVE Lost(a, b, d, n - 1, t, m, w)
  <2>1. /\ Len(a) = Len(q) + 1 /\ Len(q) \in Nat
        /\ \A i \in 1..Len(q) : a[i] = q[i]
        /\ a[Len(q) + 1] = t
        /\ Len(b) = Len(p) + 1 /\ \A i \in 1..Len(p) : b[i] = p[i]
        /\ Len(d) = Len(r) + 1
    BY <1>0, AppendEntries
  <2>2. Len(p) > Len(r) /\ Len(b) - Len(d) = Len(p) - Len(r)
    <3> HIDE DEF b, d
    <3> QED
      BY <1>0, <1>4, <2>1
  <2>3. Lost(q, p, r, n, t, m, w) /\ EndOf(r, p)
    BY <2>2 DEF Since
  <2>4. Len(p) - Len(r) \in 1..Len(p)
    BY <2>2, <2>3, LastType
  <2> DEFINE last == p[Len(p) - Len(r)]
  <2>5. b[Len(b) - Len(d)] = last /\ last <= t
    <3> HIDE DEF b, d
    <3> QED
      BY <2>1, <2>2, <2>4
  <2>6. /\ \A i \in 1..Len(q) : last <= q[i]
        /\ Old(last, w, t) \/ Len(r) + n <= m + C - 1
        /\ RecentAtMost(p, Len(r) + C, w, t)
    BY <2>3 DEF Lost
  <2> HIDE DEF last, a, b, d
  <2>7. ASSUME NEW i \in 1..Len(a) PROVE last <= a[i]
    <3>1. i \in 1..Len(q) \/ i = Len(q) + 1
      BY <2>1
    <3> QED
      BY <2>1, <2>5, <2>6, <3>1
  <2>8. Old(last, w, t) \/ Len(d) + (n - 1) <= m + C - 1
    <3> HIDE DEF C
    <3> QED
      BY <1>0, <2>1, <2>6
  <2>9. RecentAtMost(b, Len(d) + C, w, t)
    <3> DEFINE k == Len(r) + C
    <3>1. k \in Nat /\ Len(d) + C = k + 1
      <4> HIDE DEF C
      <4> QED
        BY <1>0, <2>1
    <3> HIDE DEF k
    <3>2. RecentAtMost(p, k, w, t)
      BY <2>6 DEF k
    <3>3. RecentAtMost(Append(p, t), k + 1, w, t)
      BY <1>0, <3>1, <3>2, RecentPush
    <3> QED
      BY <3>1, <3>3 DEF b
  <2> QED
    BY <2>5, <2>7, <2>8, <2>9 DEF Lost
<1> QED
  BY <1>1, <1>2, <1>3, <1>4 DEF Since

\* A request that was refused is on the list all the same.
LEMMA SinceRefused ==
    ASSUME NEW q \in Seq(Nat), NEW p \in Seq(Nat), NEW r \in Seq(Nat), NEW n, NEW t,
           NEW m, NEW M, NEW w, Numbers(n, t, m, M, w),
           Sorted(q), \A i \in 1..Len(q) : q[i] <= t,
           Sorted(p), \A i \in 1..Len(p) : p[i] <= t, Since(q, p, r, n, t, m, M, w)
    PROVE  Since(Append(q, t), p, r, n, t, m, M, w)
<1> DEFINE a == Append(q, t)
<1>0. t \in Nat /\ m \in Nat \ {0} /\ w \in Nat
  BY DEF Numbers
<1>1. Sorted(r) /\ \A i \in 1..Len(r) : r[i] <= t
  BY <1>0, EndOfSorted DEF Since
<1>2. Covers(a, r, m, w, t)
  BY <1>0, <1>1, CoverRefused DEF Since
<1>3. ASSUME Len(p) > Len(r) PROVE Lost(a, p, r, n, t, m, w)
  <2>1. /\ Len(a) = Len(q) + 1 /\ Len(q) \in Nat
        /\ \A i \in 1..Len(q) : a[i] = q[i]
        /\ a[Len(q) + 1] = t
    BY <1>0, AppendEntries
  <2>2. Lost(q, p, r, n, t, m, w) /\ EndOf(r, p)
    BY <1>3 DEF Since
  <2>3. Len(p) - Len(r) \in 1..Len(p)
    BY <1>3, <2>2, LastType
  <2> DEFINE last == p[Len(p) - Len(r)]
  <2>4. (\A i \in 1..Len(q) : last <= q[i]) /\ last <= t
    BY <2>2, <2>3 DEF Lost
  <2> HIDE DEF a, last
  <2>5. ASSUME NEW i \in 1..Len(a) PROVE last <= a[i]
    <3>1. i \in 1..Len(q) \/ i = Len(q) + 1
      BY <2>1
    <3> QED
      BY <2>1, <2>4, <3>1
  <2> QED
    BY <2>2, <2>5 DEF Lost, last
<1> QED
  BY <1>2, <1>3 DEF Since

\* The list is trimmed.
LEMMA SinceTrim ==
    ASSUME NEW q \in Seq(Nat), NEW p \in Seq(Nat), NEW r \in Seq(Nat), NEW n, NEW t,
           NEW m, NEW M, NEW w, Numbers(n, t, m, M, w), Len(q) > m, Since(q, p, r, n, t, m, M, w)
    PROVE  Since(SubSeq(q, Len(q) - m + 1, Len(q)), p, r, n, t, m, M, w)
<1> DEFINE k == Len(q) - m
           a == SubSeq(q, k + 1, Len(q))
<1>0. t \in Nat /\ m \in Nat \ {0} /\ w \in Nat /\ k \in 0..Len(q) /\ Len(q) \in Nat
  BY EntryType DEF Numbers
<1>1. Covers(a, r, m, w, t)
  BY <1>0, CoverCut DEF Since
<1>2. ASSUME Len(p) > Len(r) PROVE Lost(a, p, r, n, t, m, w)
  <2>1. \A i \in 1..Len(a) : k + i \in 1..Len(q) /\ a[i] = q[k + i]
    <3> HIDE DEF k
    <3>1. Len(a) = Len(q) - k /\ \A i \in 1..Len(q) - k : a[i] = q[k + i]
      BY <1>0, CutEntries
    <3> HIDE DEF a
    <3>2. \A i \in 1..Len(q) - k : k + i \in 1..Len(q)
      BY <1>0
    <3> QED
      BY <3>1, <3>2
  <2> HIDE DEF a, k
  <2> QED
    BY <1>2, <2>1 DEF Since, Lost
<1> QED
  BY <1>1, <1>2 DEF Since

\* Time goes by.
LEMMA SinceLater ==
    ASSUME NEW q \in Seq(Nat), NEW p \in Seq(Nat), NEW r \in Seq(Nat), NEW n, NEW t,
           NEW m, NEW M, NEW w, Numbers(n, t, m, M, w),
           Sorted(p), \A i \in 1..Len(p) : p[i] <= t, Since(q, p, r, n, t, m, M, w)
    PROVE  Since(q, p, r, n, t + 1, m, M, w)
<1>0. /\ n \in Nat /\ t \in Nat /\ m \in Nat \ {0} /\ M \in Nat /\ w \in Nat /\ n <= M /\ Crowd \in Nat
      /\ t + 1 \in Nat /\ t <= t + 1
  BY CrowdType DEF Numbers
<1>1. Sorted(r) /\ EndOf(r, p)
  BY <1>0, EndOfSorted DEF Since
<1>2. Covers(q, r, m, w, t + 1)
  BY <1>0, CoverLater DEF Since
<1>3. RecentAtMost(r, M - n, w, t + 1)
  <2> DEFINE a == M - n
  <2>1. a \in Nat /\ a <= a /\ RecentAtMost(r, a, w, t)
    BY <1>0 DEF Since
  <2> HIDE DEF a
  <2>2. RecentAtMost(r, a, w, t + 1)
    BY <1>0, <1>1, <2>1, RecentMore
  <2> QED
    BY <2>2 DEF a
<1>4. ASSUME Len(p) > Len(r) PROVE Lost(q, p, r, n, t + 1, m, w)
  <2> DEFINE last == p[Len(p) - Len(r)]
             a == Len(r) + Crowd
  <2>1. /\ \A i \in 1..Len(q) : last <= q[i]
        /\ Old(last, w, t) \/ Len(r) + n <= m + Crowd - 1
        /\ RecentAtMost(p, a, w, t)
    BY <1>4 DEF Since, Lost
  <2>2. last \in Nat /\ a \in Nat /\ a <= a
    BY <1>0, <1>1, <1>4, LastType
  <2> HIDE DEF last, a
  <2>3. Old(last, w, t) => Old(last, w, t + 1)
    BY <1>0, <2>2 DEF Old
  <2>4. RecentAtMost(p, a, w, t + 1)
    BY <1>0, <2>1, <2>2, RecentMore
  <2> QED
    BY <2>1, <2>3, <2>4 DEF Lost, last, a
<1> QED
  BY <1>1, <1>2, <1>3, <1>4 DEF Since

\* The list expires: of what has passed before, what is recent is the records
\* that go with it.
LEMMA SinceNew ==
    ASSUME NEW p \in Seq(Nat), NEW n, NEW t, NEW m, NEW M, NEW w, Numbers(n, t, m, M, w),
           RecentAtMost(p, Crowd, w, t)
    PROVE  Since(<<>>, p, <<>>, n, t, m, M, w)
<1> DEFINE C == Crowd
<1>0. /\ n \in Nat /\ m \in Nat \ {0} /\ M \in Nat /\ n <= M /\ C \in Nat /\ n <= C
      /\ Len(p) \in Nat
  BY CrowdType, EntryType DEF Numbers
<1>1. <<>> \in Seq(Nat) /\ Len(<<>>) = 0
  OBVIOUS
<1>2. EndOf(<<>>, p) /\ Covers(<<>>, <<>>, m, w, t)
  BY <1>0, <1>1 DEF EndOf, Covers
<1>3. RecentAtMost(<<>>, M - n, w, t)
  <2>1. ~(0 > M - n)
    BY <1>0
  <2> QED
    BY <1>1, <2>1 DEF RecentAtMost
<1>4. Lost(<<>>, p, <<>>, n, t, m, w)
  <2>1. 0 + n <= m + C - 1 /\ 0 + C = C
    <3> HIDE DEF C
    <3> QED
      BY <1>0
  <2> QED
    BY <1>1, <2>1 DEF Lost
<1> QED
  BY <1>2, <1>3, <1>4 DEF Since

\* All that has passed is old at the expiry that begins now.
LEMMA Renewed ==
    ASSUME NEW p \in Seq(Nat), NEW t \in Nat, NEW L \in Nat, NEW x \in Nat, \A i \in 1..Len(p) : p[i] <= t
    PROVE  RecentAtMost(p, x, L, t + L)
<1> SUFFICES ASSUME Len(p) > x PROVE Old(p[Len(p) - x], L, t + L)
  BY DEF RecentAtMost
<1> DEFINE y == p[Len(p) - x]
<1>1. y \in Nat /\ y <= t
  <2>1. Len(p) - x \in 1..Len(p)
    BY EntryType
  <2> QED
    BY <2>1, EntryType
<1> HIDE DEF y
<1>2. y + L <= t + L
  BY <1>1
<1> QED
  BY <1>2 DEF Old, y

\* Nobody is let through or counted, and no more have set the expiry than
\* those who do it now, on a list that is there.
LEMMA KeepsFewer ==
    ASSUME NEW q \in Seq(Nat), NEW p \in Seq(Nat), NEW e \in Nat, NEW f \in Nat, NEW n, NEW k \in Nat,
           NEW x \in Nat, NEW y \in Nat, NEW t, NEW m, NEW M, NEW w, NEW L \in Nat,
           Numbers(n, t, m, M, w), k <= n, Sorted(p), \A i \in 1..Len(p) : p[i] <= t,
           \/ f = e /\ (x <= y \/ q = <<>>)
           \/ f = t + L /\ q # <<>>,
           Keeps(q, p, e, n, x, t, m, M, w, L)
    PROVE  Keeps(q, p, f, k, y, t, m, M, w, L)
<1>1. PICK r \in Seq(Nat) : Since(q, p, r, n, t, m, M, w)
  BY DEF Keeps
<1>2. Since(q, p, r, k, t, m, M, w)
  BY <1>1, SinceFewer
<1>3. f # 0 => RecentAtMost(p, y, L, f)
  <2>1. CASE f = e /\ x <= y
    BY <2>1, RecentMore DEF Keeps
  <2>2. CASE f = e /\ q = <<>>
    BY <2>2 DEF Keeps
  <2>3. CASE f = t + L
    BY <2>3, Renewed DEF Numbers
  <2> QED
    BY <2>1, <2>2, <2>3
<1> QED
  BY <1>2, <1>3 DEF Keeps

\* One is let through after looking at the list.
LEMMA KeepsOneMore ==
    ASSUME NEW q \in Seq(Nat), NEW p \in Seq(Nat), NEW e \in Nat, NEW n, NEW k \in Nat,
           NEW x \in Nat, NEW y \in Nat, x <= y,
           NEW t, NEW m, NEW M, NEW w, NEW L \in Nat,
           Numbers(n, t, m, M, w), k <= M, k <= Crowd, Sorted(p), \A i \in 1..Len(p) : p[i] <= t,
           \/ Len(q) < m /\ m + k <= M + 1
           \/ q # <<>> /\ Old(Head(q), w, t) /\ Len(q) + k <= M + 1,
           Keeps(q, p, e, n, x, t, m, M, w, L)
    PROVE  Keeps(q, p, e, k, y, t, m, M, w, L)
<1>1. PICK r \in Seq(Nat) : Since(q, p, r, n, t, m, M, w)
  BY DEF Keeps
<1>2. Since(q, p, r, k, t, m, M, w)
  BY <1>1, SinceOneMore
<1>3. e # 0 => RecentAtMost(p, y, L, e)
  BY RecentMore DEF Keeps
<1> QED
  BY <1>2, <1>3 DEF Keeps

\* One that was let through is counted, and has yet to set the expiry.
LEMMA KeepsPush ==
    ASSUME NEW q \in Seq(Nat), NEW p \in Seq(Nat), NEW e \in Nat, NEW n, NEW x \in Nat,
           NEW t, NEW m, NEW M, NEW w, NEW L \in Nat,
           Numbers(n, t, m, M, w), 1 <= n, Sorted(p), \A i \in 1..Len(p) : p[i] <= t,
           Keeps(q, p, e, n, x, t, m, M, w, L)
    PROVE  Keeps(Append(q, t), Append(p, t), e, n - 1, x + 1, t, m, M, w, L)
<1>0. t \in Nat /\ w \in Nat
  BY DEF Numbers
<1>1. PICK r \in Seq(Nat) : Since(q, p, r, n, t, m, M, w)
  BY DEF Keeps
<1>2. Since(Append(q, t), Append(p, t), Append(r, t), n - 1, t, m, M, w)
  BY <1>1, SincePush
<1>3. Append(r, t) \in Seq(Nat) /\ Append(q, t) # <<>>
  <2> DEFINE a == Append(q, t)
  <2>1. Append(r, t) \in Seq(Nat) /\ Len(a) = Len(q) + 1 /\ Len(q) \in Nat /\ Len(<<>>) = 0
    BY <1>0, AppendEntries
  <2> HIDE DEF a
  <2>2. a # <<>>
    BY <2>1
  <2> QED
    BY <2>1, <2>2 DEF a
<1>4. Spaced(Append(p, t), m + 2 * Crowd - 1, w)
  <2> DEFINE b == m + 2 * Crowd - 1
  <2>1. b \in Nat \ {0} /\ b - 1 = m + 2 * Crowd - 2
    <3> DEFINE C == Crowd
    <3>1. C \in Nat \ {0} /\ m \in Nat \ {0} /\ b = m + 2 * C - 1
      BY CrowdType DEF Numbers
    <3> HIDE DEF b, C
    <3>2. b \in Nat \ {0} /\ b - 1 = m + 2 * C - 2
      BY <3>1
    <3> QED
      BY <3>2 DEF C
  <2>2. RecentAtMost(p, b - 1, w, t)
    <3>1. RecentAtMost(p, m + 2 * Crowd - 2, w, t)
      BY <1>1, SinceRecent
    <3> HIDE DEF b
    <3> QED
      BY <2>1, <3>1
  <2>3. Spaced(p, b, w)
    BY DEF Keeps
  <2> HIDE DEF b
  <2>4. Spaced(Append(p, t), b, w)
    BY <1>0, <2>1, <2>2, <2>3, SpacedPush
  <2> QED
    BY <2>4 DEF b
<1>5. e # 0 => RecentAtMost(Append(p, t), x + 1, L, e)
  BY <1>0, RecentPush DEF Keeps
<1> QED
  BY <1>2, <1>3, <1>4, <1>5 DEF Keeps

\* A request that was refused is on the list all the same.
LEMMA KeepsRefused ==
    ASSUME NEW q \in Seq(Nat), NEW p \in Seq(Nat), NEW e \in Nat, NEW n, NEW x \in Nat,
           NEW t, NEW m, NEW M, NEW w, NEW L \in Nat, Numbers(n, t, m, M, w),
           Sorted(q), Sorted(p), \A i \in 1..Len(q) : q[i] <= t, \A i \in 1..Len(p) : p[i] <= t,
           Keeps(q, p, e, n, x, t, m, M, w, L)
    PROVE  Keeps(Append(q, t), p, e, n, x, t, m, M, w, L)
<1>1. PICK r \in Seq(Nat) : Since(q, p, r, n, t, m, M, w)
  BY DEF Keeps
<1>2. Since(Append(q, t), p, r, n, t, m, M, w)
  BY <1>1, SinceRefused
<1>3. Append(q, t) # <<>>
  <2> DEFINE a == Append(q, t)
  <2>1. Len(a) = Len(q) + 1 /\ Len(q) \in Nat /\ Len(<<>>) = 0
    BY AppendEntries DEF Numbers
  <2> HIDE DEF a
  <2>2. a # <<>>
    BY <2>1
  <2> QED
    BY <2>2 DEF a
<1> QED
  BY <1>2, <1>3 DEF Keeps

\* The list is trimmed.
LEMMA KeepsTrim ==
    ASSUME NEW q \in Seq(Nat), NEW p \in Seq(Nat), NEW e \in Nat, NEW n, NEW x \in Nat,
           NEW t, NEW m, NEW M, NEW w, NEW L \in Nat, Numbers(n, t, m, M, w), Len(q) > m,
           Keeps(q, p, e, n, x, t, m, M, w, L)
    PROVE  Keeps(SubSeq(q, Len(q) - m + 1, Len(q)), p, e, n, x, t, m, M, w, L)
<1>1. PICK r \in Seq(Nat) : Since(q, p, r, n, t, m, M, w)
  BY DEF Keeps
<1>2. Since(SubSeq(q, Len(q) - m + 1, Len(q)), p, r, n, t, m, M, w)
  BY <1>1, SinceTrim
<1>3. SubSeq(q, Len(q) - m + 1, Len(q)) # <<>>
  <2> DEFINE k == Len(q) - m
  <2>1. m \in Nat \ {0} /\ Len(q) \in Nat /\ k \in 0..Len(q) /\ Len(q) - k = m /\ Len(<<>>) = 0
    BY EntryType DEF Numbers
  <2> HIDE DEF k
  <2>2. Len(SubSeq(q, k + 1, Len(q))) = Len(q) - k
    BY <2>1, CutEntries
  <2>3. SubSeq(q, k + 1, Len(q)) # <<>>
    BY <2>1, <2>2
  <2> QED
    BY <2>3 DEF k
<1> QED
  BY <1>2, <1>3 DEF Keeps

\* Time goes by; the list is there until its expiry.
LEMMA KeepsTick ==
    ASSUME NEW q \in Seq(Nat), NEW p \in Seq(Nat), NEW e \in Nat, NEW n, NEW x \in Nat, x <= Crowd,
           NEW t, NEW m, NEW M, NEW w, NEW L \in Nat, Numbers(n, t, m, M, w), w <= L,
           Sorted(p), \A i \in 1..Len(p) : p[i] <= t, Keeps(q, p, e, n, x, t, m, M, w, L)
    PROVE  IF e # 0 /\ e <= t + 1 THEN Keeps(<<>>, p, 0, n, x, t + 1, m, M, w, L)
                                  ELSE Keeps(q, p, e, n, x, t + 1, m, M, w, L)
<1>0. t \in Nat /\ t + 1 \in Nat /\ w \in Nat /\ Crowd \in Nat
  BY CrowdType DEF Numbers
<1>1. CASE e # 0 /\ e <= t + 1
  <2>1. RecentAtMost(p, Crowd, w, t + 1)
    <3>1. RecentAtMost(p, x, L, e)
      BY <1>1 DEF Keeps
    <3>2. RecentAtMost(p, x, w, e)
      <4> SUFFICES ASSUME Len(p) > x PROVE Old(p[Len(p) - x], w, e)
        BY DEF RecentAtMost
      <4> DEFINE y == p[Len(p) - x]
      <4>1. Len(p) - x \in 1..Len(p)
        BY EntryType
      <4>2. y \in Nat /\ y + L <= e
        BY <3>1, <4>1, EntryType DEF RecentAtMost, Old
      <4> HIDE DEF y
      <4>3. y + w <= e
        BY <1>0, <4>2
      <4> QED
        BY <4>3 DEF Old, y
    <3> QED
      BY <1>0, <1>1, <3>2, RecentMore
  <2>2. Numbers(n, t + 1, m, M, w)
    BY <1>0 DEF Numbers
  <2>3. Since(<<>>, p, <<>>, n, t + 1, m, M, w) /\ <<>> \in Seq(Nat)
    BY <2>1, <2>2, SinceNew
  <2> QED
    BY <1>1, <2>3 DEF Keeps
<1>2. CASE ~(e # 0 /\ e <= t + 1)
  <2>1. PICK r \in Seq(Nat) : Since(q, p, r, n, t, m, M, w)
    BY DEF Keeps
  <2>2. Since(q, p, r, n, t + 1, m, M, w)
    BY <2>1, SinceLater
  <2> QED
    BY <1>2, <2>2 DEF Keeps
<1> QED
  BY <1>1, <1>2


(***************************************************************************)
(* What is kept in memory: the end of what has passed, and of that all that*)
(* is recent; M may pass in a window.                                      *)
(***************************************************************************)
Stores(q, p, t, M, w) ==
    /\ Len(q) <= M
    /\ Spaced(p, M, w)
    /\ EndOf(q, p)
    /\ RecentAtMost(p, Len(q), w, t)

\* A shorter list will do, when no more than that is recent.
LEMMA StoresPush ==
    ASSUME NEW q \in Seq(Nat), NEW p \in Seq(Nat), NEW t \in Nat, NEW M \in Nat \ {0}, NEW w \in Nat,
           Sorted(p), Len(q) <= M - 1, Spaced(p, M, w), EndOf(q, p), RecentAtMost(p, Len(q), w, t)
    PROVE  Stores(Append(q, t), Append(p, t), t, M, w)
<1>1. /\ Len(q) \in Nat /\ Len(p) \in Nat /\ M - 1 \in Nat /\ t <= t
  BY EntryType
<1>2. RecentAtMost(p, M - 1, w, t)
  <2> DEFINE a == Len(q)
             b == M - 1
  <2>1. a \in Nat /\ b \in Nat /\ a <= b /\ RecentAtMost(p, a, w, t)
    BY <1>1
  <2> HIDE DEF a, b
  <2>2. RecentAtMost(p, b, w, t)
    BY <2>1, RecentMore
  <2> QED
    BY <2>2 DEF b
<1>3. Spaced(Append(p, t), M, w)
  BY <1>2, SpacedPush
<1>4. RecentAtMost(Append(p, t), Len(q) + 1, w, t)
  BY <1>1, RecentPush
<1>5. Len(Append(q, t)) = Len(q) + 1
  BY AppendEntries
<1>6. EndOf(Append(q, t), Append(p, t))
  BY EndOfPush
<1>7. Len(Append(q, t)) <= M /\ RecentAtMost(Append(p, t), Len(Append(q, t)), w, t)
  BY <1>1, <1>4, <1>5
<1> QED
  BY <1>3, <1>6, <1>7 DEF Stores

\* Time goes by.
LEMMA StoresLater ==
    ASSUME NEW q \in Seq(Nat), NEW p \in Seq(Nat), NEW t \in Nat, NEW u \in Nat, t <= u,
           NEW M \in Nat, NEW w \in Nat, Sorted(p), Stores(q, p, t, M, w)
    PROVE  Stores(q, p, u, M, w)
<1> DEFINE a == Len(q)
<1>1. a \in Nat /\ a <= a /\ RecentAtMost(p, a, w, t)
  BY EntryType DEF Stores
<1> HIDE DEF a
<1>2. RecentAtMost(p, a, w, u)
  BY <1>1, RecentMore
<1> QED
  BY <1>2 DEF Stores, a

\* The end of the end is the end.
LEMMA EndOfTail ==
    ASSUME NEW q \in Seq(Nat), NEW p \in Seq(Nat), q # <<>>, EndOf(q, p)
    PROVE  EndOf(Tail(q), p)
<1> DEFINE r == Tail(q)
<1>1. /\ Len(q) \in Nat \ {0} /\ Len(r) = Len(q) - 1 /\ Len(p) \in Nat
      /\ \A i \in 1..Len(q) - 1 : r[i] = q[1 + i]
  BY TailEntries, EntryType
<1> HIDE DEF r
<1>2. Len(q) <= Len(p) /\ \A i \in 1..Len(q) : q[i] = p[Len(p) - Len(q) + i]
  BY DEF EndOf
<1>3. ASSUME NEW i \in 1..Len(r) PROVE r[i] = p[Len(p) - Len(r) + i]
  <2>1. 1 + i \in 1..Len(q) /\ Len(p) - Len(q) + (1 + i) = Len(p) - Len(r) + i
    BY <1>1, <1>2
  <2>2. r[i] = q[1 + i]
    BY <1>1
  <2>3. q[1 + i] = p[Len(p) - Len(q) + (1 + i)]
    BY <1>2, <2>1
  <2> QED
    BY <2>1, <2>2, <2>3
<1> QED
  BY <1>1, <1>2, <1>3 DEF EndOf, r

\* Nothing is recent when the oldest that is kept is not, but what is kept
\* after it; nothing at all when the newest is not.
LEMMA EndOfOld ==
    ASSUME NEW q \in Seq(Nat), NEW p \in Seq(Nat), q # <<>>, EndOf(q, p), NEW w \in Nat, NEW t \in Nat
    PROVE  /\ Old(Head(q), w, t) => RecentAtMost(p, Len(q) - 1, w, t)
           /\ Old(q[Len(q)], w, t) => RecentAtMost(p, 0, w, t)
<1>1. /\ Len(q) \in Nat \ {0} /\ Len(p) \in Nat /\ Head(q) = q[1]
      /\ Len(q) <= Len(p) /\ \A i \in 1..Len(q) : q[i] = p[Len(p) - Len(q) + i]
  BY TailEntries, EntryType DEF EndOf
<1>2. q[1] = p[Len(p) - (Len(q) - 1)]
  <2>1. 1 \in 1..Len(q) /\ Len(p) - Len(q) + 1 = Len(p) - (Len(q) - 1)
    BY <1>1
  <2> QED
    BY <1>1, <2>1
<1>3. q[Len(q)] = p[Len(p) - 0]
  <2>1. Len(q) \in 1..Len(q) /\ Len(p) - Len(q) + Len(q) = Len(p) - 0
    BY <1>1
  <2> QED
    BY <1>1, <2>1
<1> QED
  BY <1>1, <1>2, <1>3 DEF RecentAtMost

(***************************************************************************)
(* The invariant.                                                          *)
(***************************************************************************)
Live == conf.period <= Expiry

\* Times of the past, in order.
Timely(q, t) == q \in Seq(Nat) /\ Sorted(q) /\ \A i \in 1..Len(q) : q[i] <= t

InOrder == \A key \in Keys : Timely(list[key], now) /\ Timely(passed[key], now)

Present == ~conf.redis => \A key \in Keys : key \in there <=> list[key] # <<>>

\* Where a request may be under the limiter that is configured.
MayBeAt(x) ==
    /\ x \in Places
    /\ x \notin {"idle", "success", "serve", "note"} => conf.redis
    /\ conf.redis /\ conf.of = "address" => x \in {"idle", "oldest", "push", "push and trim", "trim",
                                                    "expire", "keep"}
    /\ x = "push and trim" => conf.of = "address"
    /\ x \in {"oldest", "refused", "refused oldest", "record refused", "trim refused", "expire refused",
              "keep refused"} => conf.total # 0 \/ conf.of = "address"

RightPlaces == \A c \in Clients : MayBeAt(st[c].pc)

MemoryKeeps(key) == Stores(list[key], passed[key], now, Most(key), conf.period)

\* Keys under which there is a limit, and keys that Redis is not asked for.
InUse(key) == Maximum(key) > 0 /\ (key = "total" \/ (key = "success" /\ conf.of # "address"))
Unused(key) == key = "check" \/ (key = "success" /\ conf.of = "address")

\* Where a request is that has been let through and is not counted yet; one
\* that has made the list too long; and one that is counted and has not set the
\* expiry.
ClearedPlaces(key) ==
    IF key = "success" THEN {"push", "trim", "expire", "serve"}
    ELSE IF conf.of = "address" THEN {"push", "push and trim"}
    ELSE {"success", "success oldest", "push"}
LatePlaces(key) == IF key = "success" THEN {"trim success"} ELSE {"trim", "trim refused"}
LeavingPlaces(key) == IF key = "success" THEN {"trim success", "expire success"} ELSE {"trim", "expire"}

\* How many a list lets pass in a window: as many more than the limit as may
\* stand between the check and the record, by address twice over, for the list
\* is trimmed late.
Within(key) == Maximum(key) + (IF conf.of = "address" THEN 2 ELSE 1) * (Crowd - 1)

Fits(key, q, s) ==
    IF conf.of = "address"
    THEN Len(q) + Size(s, {"push"}) <= Maximum(key) - 1 + Crowd + Size(s, LatePlaces(key))
    ELSE Len(q) <= Maximum(key) + Size(s, LatePlaces(key))

RedisKeeps(key) ==
    /\ Keeps(list[key], passed[key], ttl[key], Size(st, ClearedPlaces(key)), Size(st, LeavingPlaces(key)),
             now, Maximum(key), Within(key), conf.period, Life)
    /\ Fits(key, list[key], st)

LimitsInv ==
    /\ TypeOK /\ InOrder /\ Present /\ RightPlaces
    /\ Live /\ ~conf.redis => \A key \in Keys : MemoryKeeps(key)
    /\ conf.redis => \A key \in Keys : Unused(key) => passed[key] = <<>>
    /\ Live /\ conf.redis => \A key \in Keys : InUse(key) => RedisKeeps(key)

\* What the types say of the configuration.
LEMMA ConfType ==
    ASSUME TypeOK
    PROVE  /\ conf.redis \in BOOLEAN /\ conf.total \in Nat /\ conf.success \in Nat
           /\ conf.of \in {"address", "user", "token", "note"}
           /\ conf.period \in Nat \ {0} /\ Life \in Nat \ {0} /\ (Live => conf.period <= Life)
           /\ Expiry \in Nat /\ now \in Nat
           /\ \A key \in Keys : Maximum(key) \in Nat
<1>1. conf \in Config /\ Expiry \in Nat \ {0} /\ now \in Nat
  BY DEF TypeOK, LimitsAssumption, Ticks
<1> QED
  BY <1>1 DEF Config, Life, Live, Maximum

\* How many may pass in a window.
LEMMA MostType ==
    ASSUME TypeOK, NEW key \in Keys
    PROVE  /\ Most(key) \in Nat \ {0}
           /\ ~conf.redis => Maximum(key) <= Most(key)
           /\ conf.redis => Most(key) = Maximum(key) + 2 * Crowd - 1
           /\ Maximum(key) > 0 =>
                /\ Within(key) \in Nat /\ Crowd <= Within(key) /\ Within(key) <= Maximum(key) + 2 * Crowd - 1
                /\ conf.of = "address" => Within(key) = Maximum(key) + 2 * (Crowd - 1)
                /\ conf.of # "address" => Within(key) = Maximum(key) + Crowd - 1
<1>1. Maximum(key) \in Nat /\ conf.redis \in BOOLEAN /\ Crowd \in Nat \ {0}
  BY ConfType, CrowdType
<1> DEFINE m == Maximum(key)
           C == Crowd
           W == Within(key)
<1>2. m \in Nat /\ C \in Nat \ {0}
  BY <1>1
<1>3. Most(key) = IF conf.redis THEN m + 2 * C - 1 ELSE IF m = 0 THEN 1 ELSE m
  BY DEF Most
<1>4. W = m + (IF conf.of = "address" THEN 2 ELSE 1) * (C - 1)
  BY DEF Within
<1> HIDE DEF m, C, W
<1>5. Most(key) \in Nat \ {0} /\ (~conf.redis => m <= Most(key))
  BY <1>2, <1>3
<1>6. ASSUME m > 0, conf.of = "address"
      PROVE  W \in Nat /\ C <= W /\ W <= m + 2 * C - 1 /\ W = m + 2 * (C - 1)
  BY <1>2, <1>4, <1>6
<1>7. ASSUME m > 0, conf.of # "address"
      PROVE  W \in Nat /\ C <= W /\ W <= m + 2 * C - 1 /\ W = m + C - 1
  BY <1>2, <1>4, <1>7
<1> QED
  BY <1>3, <1>5, <1>6, <1>7 DEF m, C, W

\* The configuration stays, and what depends on it.
LEMMA ConfNext ==
    ASSUME conf' = conf
    PROVE  /\ Live' = Live /\ Life' = Life
           /\ \A key \in Keys : Maximum(key)' = Maximum(key) /\ Most(key)' = Most(key) /\ Within(key)' = Within(key)
           /\ \A x : MayBeAt(x)' = MayBeAt(x)
BY DEF Live, Life, Maximum, Most, Within, MayBeAt

\* The next state of what is kept under a key.
LEMMA RedisNext ==
    ASSUME conf' = conf, NEW key \in Keys
    PROVE  /\ InUse(key)' = InUse(key)
           /\ RedisKeeps(key)' =
              (/\ Keeps(list'[key], passed'[key], ttl'[key], Size(st', ClearedPlaces(key)),
                        Size(st', LeavingPlaces(key)), now', Maximum(key), Within(key), conf.period, Life)
               /\ Fits(key, list'[key], st'))
<1>1. Life' = Life /\ Maximum(key)' = Maximum(key) /\ Within(key)' = Within(key)
  BY ConfNext
<1>2. /\ ClearedPlaces(key)' = ClearedPlaces(key) /\ LatePlaces(key)' = LatePlaces(key)
      /\ LeavingPlaces(key)' = LeavingPlaces(key)
  BY DEF ClearedPlaces, LatePlaces, LeavingPlaces
<1> QED
  BY <1>1, <1>2 DEF RedisKeeps, InUse, Fits

\* Timely sequences: the present is added, the oldest are cut off, time goes by.
LEMMA TimelyAppend ==
    ASSUME NEW t \in Nat, NEW q, Timely(q, t)
    PROVE  Timely(Append(q, t), t)
BY AppendSorted, AppendEntries DEF Timely

\* As above.
LEMMA TimelyCut ==
    ASSUME NEW t \in Nat, NEW q, Timely(q, t), NEW n \in 0..Len(q)
    PROVE  Timely(SubSeq(q, n + 1, Len(q)), t)
BY CutSorted, CutEntries DEF Timely

\* As above.
LEMMA TimelyLater ==
    ASSUME NEW t \in Nat, NEW u \in Nat, t <= u, NEW q, Timely(q, t)
    PROVE  Timely(q, u) /\ Timely(<<>>, u)
<1>1. Timely(q, u)
  <2>1. ASSUME NEW i \in 1..Len(q) PROVE q[i] <= u
    <3> DEFINE x == q[i]
    <3>1. x \in Nat /\ x <= t
      BY EntryType DEF Timely
    <3> HIDE DEF x
    <3>2. x <= u
      BY <3>1
    <3> QED
      BY <3>2 DEF x
  <2> QED
    BY <2>1 DEF Timely
<1>2. Timely(<<>>, u)
  BY DEF Timely, Sorted
<1> QED
  BY <1>1, <1>2

\* The tail of a timely sequence.
LEMMA TimelyTail ==
    ASSUME NEW t \in Nat, NEW q, Timely(q, t), q # <<>>
    PROVE  Timely(Tail(q), t)
<1>1. q \in Seq(Nat) /\ Len(q) \in Nat \ {0} /\ 1 \in 0..Len(q)
  BY TailEntries DEF Timely
<1>2. Tail(q) = SubSeq(q, 1 + 1, Len(q))
  BY <1>1
<1> QED
  BY <1>1, <1>2, TimelyCut

(***************************************************************************)
(* What a step does to a key in Redis.                                     *)
(***************************************************************************)

\* The facts these lemmas start from.
KeyFacts(key) == /\ TypeOK /\ InOrder /\ Live /\ conf.redis /\ InUse(key) /\ RedisKeeps(key)
                 /\ conf' = conf

\* The same, for reasoning about the key alone.
LEMMA KeyTypes ==
    ASSUME NEW key \in Keys, KeyFacts(key)
    PROVE  /\ st \in States /\ list[key] \in Seq(Nat) /\ passed[key] \in Seq(Nat) /\ ttl[key] \in Nat
           /\ Len(list[key]) \in Nat
           /\ Sorted(list[key]) /\ Sorted(passed[key])
           /\ \A i \in 1..Len(list[key]) : list[key][i] <= now
           /\ \A i \in 1..Len(passed[key]) : passed[key][i] <= now
           /\ now \in Nat /\ Maximum(key) \in Nat \ {0} /\ Within(key) \in Nat
           /\ conf.period \in Nat /\ Life \in Nat \ {0} /\ conf.period <= Life
           /\ Crowd \in Nat \ {0} /\ Crowd <= Within(key)
           /\ (conf.of = "address" => Within(key) = Maximum(key) + 2 * (Crowd - 1))
           /\ (conf.of # "address" => Within(key) = Maximum(key) + Crowd - 1)
           /\ \A n \in Nat : n <= Crowd => Numbers(n, now, Maximum(key), Within(key), conf.period)
<1>1. Maximum(key) \in Nat /\ Maximum(key) > 0
  BY ConfType DEF KeyFacts, InUse
<1>2. /\ Within(key) \in Nat /\ Crowd <= Within(key) /\ Within(key) <= Maximum(key) + 2 * Crowd - 1
      /\ (conf.of = "address" => Within(key) = Maximum(key) + 2 * (Crowd - 1))
      /\ (conf.of # "address" => Within(key) = Maximum(key) + Crowd - 1)
  BY <1>1, MostType DEF KeyFacts
<1>3. /\ st \in States /\ list[key] \in Seq(Nat) /\ passed[key] \in Seq(Nat) /\ ttl[key] \in Nat
      /\ now \in Nat
  BY DEF KeyFacts, TypeOK, States, Ticks
<1>4. /\ Sorted(list[key]) /\ Sorted(passed[key])
      /\ \A i \in 1..Len(list[key]) : list[key][i] <= now
      /\ \A i \in 1..Len(passed[key]) : passed[key][i] <= now
  BY DEF KeyFacts, InOrder, Timely
<1>5. conf.period \in Nat /\ Life \in Nat \ {0} /\ conf.period <= Life
  BY ConfType DEF KeyFacts
<1>6. ASSUME NEW n \in Nat, n <= Crowd PROVE Numbers(n, now, Maximum(key), Within(key), conf.period)
  <2> DEFINE m == Maximum(key)
             W == Within(key)
             C == Crowd
  <2>1. m \in Nat /\ m > 0 /\ W \in Nat /\ C <= W /\ C \in Nat /\ n <= C /\ W <= m + 2 * Crowd - 1
    BY <1>1, <1>2, <1>6, CrowdType
  <2> HIDE DEF m, W, C
  <2>2. n <= W /\ m \in Nat \ {0}
    BY <2>1
  <2> QED
    BY <1>3, <1>5, <1>6, <2>1, <2>2 DEF Numbers, m, W
<1> QED
  BY <1>1, <1>2, <1>3, <1>4, <1>5, <1>6, CrowdType, EntryType

\* The list and what has passed stay; nobody is let through.
LEMMA KeepMove ==
    ASSUME NEW key \in Keys, KeyFacts(key), NEW c \in Clients, NEW x,
           OnlyMoves(c, st, st'), st'[c].pc = x, now' = now,
           list'[key] = list[key], passed'[key] = passed[key],
           \/ /\ ttl'[key] = ttl[key]
              /\ (st[c].pc \in LeavingPlaces(key) => x \in LeavingPlaces(key)) \/ list[key] = <<>>
           \/ ttl'[key] = now + Life /\ list[key] # <<>>,
           x \in ClearedPlaces(key) => st[c].pc \in ClearedPlaces(key),
           x \in LatePlaces(key) <=> st[c].pc \in LatePlaces(key),
           conf.of = "address" /\ x = "push" => st[c].pc = "push"
    PROVE  RedisKeeps(key)'
<1> DEFINE P == ClearedPlaces(key)
           R == LatePlaces(key)
<1>0. /\ OnlyMoves(c, st, st') /\ st'[c].pc = x
      /\ x \in P => st[c].pc \in P
      /\ x \in R <=> st[c].pc \in R
  BY KeyTypes
<1>1. /\ Size(st', P) <= Size(st, P) /\ Size(st', R) = Size(st, R)
      /\ conf.of = "address" => Size(st', {"push"}) <= Size(st, {"push"})
  <2> HIDE DEF P, R
  <2>1. Size(st, P) \in Nat /\ Size(st', P) \in Nat /\ Size(st, {"push"}) \in Nat /\ Size(st', {"push"}) \in Nat
    BY SizeType
  <2>2. Size(st', P) <= Size(st, P)
    <3>1. /\ (st[c].pc \in P <=> x \in P) => Size(st', P) = Size(st, P)
          /\ st[c].pc \in P /\ x \notin P => Size(st', P) = Size(st, P) - 1
      BY <1>0, MoveSizes
    <3> QED
      BY <1>0, <2>1, <3>1
  <2>3. Size(st', R) = Size(st, R)
    BY <1>0, MoveSizes
  <2>4. conf.of = "address" => Size(st', {"push"}) <= Size(st, {"push"})
    <3> DEFINE Q == {"push"}
    <3>1. conf.of = "address" /\ x \in Q => st[c].pc \in Q
      OBVIOUS
    <3>2. Size(st, Q) \in Nat /\ Size(st', Q) \in Nat
      BY SizeType
    <3> HIDE DEF Q
    <3>3. /\ (st[c].pc \in Q <=> x \in Q) => Size(st', Q) = Size(st, Q)
          /\ st[c].pc \in Q /\ x \notin Q => Size(st', Q) = Size(st, Q) - 1
      BY <1>0, MoveSizes
    <3>4. conf.of = "address" => Size(st', Q) <= Size(st, Q)
      BY <3>1, <3>2, <3>3
    <3> QED
      BY <3>4 DEF Q
  <2> QED
    BY <2>2, <2>3, <2>4
<1>2. Keeps(list[key], passed[key], ttl'[key], Size(st', P), Size(st', LeavingPlaces(key)), now,
            Maximum(key), Within(key), conf.period, Life)
  <2> DEFINE E == LeavingPlaces(key)
             q == list[key]
             p == passed[key]
             e == ttl[key]
             f == ttl'[key]
             n == Size(st, P)
             k == Size(st', P)
             y == Size(st, E)
             z == Size(st', E)
             m == Maximum(key)
             M == Within(key)
             w == conf.period
             L == Life
  <2>1. y \in Nat /\ z \in Nat /\ n \in Nat /\ k \in Nat /\ n <= Crowd
    BY SizeType
  <2>2. (st[c].pc \in E => x \in E) => y <= z
    <3> HIDE DEF E
    <3>1. /\ (st[c].pc \in E <=> x \in E) => z = y
          /\ st[c].pc \notin E /\ x \in E => z = y + 1
      BY <1>0, MoveSizes
    <3> QED
      BY <2>1, <3>1
  <2>3. /\ q \in Seq(Nat) /\ p \in Seq(Nat) /\ e \in Nat /\ L \in Nat \ {0} /\ now \in Nat
        /\ Sorted(p) /\ (\A i \in 1..Len(p) : p[i] <= now)
        /\ \A i \in Nat : i <= Crowd => Numbers(i, now, m, M, w)
    BY KeyTypes
  <2>4. k <= n
    BY <1>1
  <2>5. Keeps(q, p, e, n, y, now, m, M, w, L)
    BY DEF KeyFacts, RedisKeeps
  <2>6. \/ f = e /\ (y <= z \/ q = <<>>)
        \/ f = now + L /\ q # <<>>
    BY <2>2
  <2> HIDE DEF E, q, p, e, f, n, k, y, z, m, M, w, L
  <2>7. f \in Nat
    BY <2>3, <2>6
  <2>8. Keeps(q, p, f, k, z, now, m, M, w, L)
    BY <2>1, <2>3, <2>4, <2>5, <2>6, <2>7, KeepsFewer
  <2> QED
    BY <2>8 DEF E, q, p, f, k, z, m, M, w, L
<1>3. Fits(key, list[key], st')
  <2> DEFINE l == Len(list[key])
             m == Maximum(key)
             a == Size(st, {"push"})
             b == Size(st', {"push"})
             d == Size(st, R)
  <2>1. l \in Nat /\ m \in Nat /\ a \in Nat /\ b \in Nat /\ d \in Nat /\ Crowd \in Nat
    BY SizeType, KeyTypes
  <2>2. IF conf.of = "address" THEN l + a <= m - 1 + Crowd + d ELSE l <= m + d
    BY DEF KeyFacts, RedisKeeps, Fits
  <2>3. (conf.of = "address" => b <= a) /\ Size(st', R) = d
    BY <1>1
  <2> HIDE DEF l, m, a, b, d, R
  <2>4. IF conf.of = "address" THEN l + b <= m - 1 + Crowd + d ELSE l <= m + d
    BY <2>1, <2>2, <2>3
  <2> QED
    BY <2>3, <2>4 DEF l, m, b, R, Fits
<1> QED
  BY <1>2, <1>3, RedisNext DEF KeyFacts

\* A request is let through after looking at the list.
LEMMA KeepClear ==
    ASSUME NEW key \in Keys, KeyFacts(key), NEW c \in Clients, NEW x,
           OnlyMoves(c, st, st'), st'[c].pc = x, now' = now,
           list'[key] = list[key], passed'[key] = passed[key], ttl'[key] = ttl[key],
           x \in ClearedPlaces(key), st[c].pc \notin ClearedPlaces(key),
           st[c].pc \notin LatePlaces(key), st[c].pc \notin LeavingPlaces(key),
           \/ Len(list[key]) < Maximum(key)
           \/ /\ list[key] # <<>> /\ Old(Head(list[key]), conf.period, now)
              /\ conf.of = "address" => x # "push"
    PROVE  RedisKeeps(key)'
<1> DEFINE P == ClearedPlaces(key)
           R == LatePlaces(key)
           l == Len(list[key])
           m == Maximum(key)
           M == Within(key)
           a == Size(st, {"push"})
           b == Size(st', {"push"})
           d == Size(st, R)
           n == Size(st, P)
           k == Size(st', P)
<1>0. /\ OnlyMoves(c, st, st') /\ st'[c].pc = x
      /\ x \notin R /\ st[c].pc \notin R /\ P \cap R = {}
  BY KeyTypes DEF ClearedPlaces, LatePlaces
<1>1. /\ l \in Nat /\ m \in Nat \ {0} /\ M \in Nat /\ a \in Nat /\ b \in Nat /\ d \in Nat
      /\ n \in Nat /\ k \in Nat /\ k <= Crowd /\ b <= Crowd
      /\ Crowd \in Nat \ {0} /\ Crowd <= M
      /\ (conf.of = "address" => M = m + 2 * (Crowd - 1))
      /\ (conf.of # "address" => M = m + Crowd - 1)
  BY SizeType, KeyTypes
<1>2. Size(st', R) = d /\ d + k <= Crowd
  <2>1. Size(st', R) = Size(st, R)
    <3> HIDE DEF R
    <3> QED
      BY <1>0, MoveSizes
  <2>2. Size(st', P) + Size(st', R) <= Crowd
    <3> HIDE DEF P, R
    <3> QED
      BY <1>0, FarApart
  <2> HIDE DEF P, R
  <2> QED
    BY <1>1, <2>1, <2>2
<1>3. conf.of = "address" /\ x # "push" => b <= a
  <2> DEFINE Q == {"push"}
  <2>1. x # "push" => x \notin Q
    OBVIOUS
  <2>2. Size(st, Q) \in Nat /\ Size(st', Q) \in Nat
    BY SizeType
  <2> HIDE DEF Q
  <2>3. /\ (st[c].pc \in Q <=> x \in Q) => Size(st', Q) = Size(st, Q)
        /\ st[c].pc \in Q /\ x \notin Q => Size(st', Q) = Size(st, Q) - 1
    BY <1>0, MoveSizes
  <2>4. x # "push" => Size(st', Q) <= Size(st, Q)
    BY <2>1, <2>2, <2>3
  <2> QED
    BY <2>4 DEF Q
<1>4. IF conf.of = "address" THEN l + a <= m - 1 + Crowd + d ELSE l <= m + d
  BY DEF KeyFacts, RedisKeeps, Fits
<1>5. \/ l < m
      \/ /\ list[key] # <<>> /\ Old(Head(list[key]), conf.period, now)
         /\ conf.of = "address" => x # "push"
  OBVIOUS
<1> DEFINE C == Crowd
           byAddress == conf.of = "address"
<1> HIDE DEF P, R, l, m, M, a, b, d, n, k
<1>6. m + k <= M + 1
  <2>1. /\ m \in Nat \ {0} /\ k \in Nat /\ k <= C /\ C \in Nat \ {0}
        /\ M = m + 2 * (C - 1) \/ M = m + C - 1
    BY <1>1
  <2> HIDE DEF C
  <2> QED
    BY <2>1
<1>7. l + k <= M + 1
  <2>1. /\ m \in Nat \ {0} /\ k \in Nat /\ C \in Nat \ {0} /\ l \in Nat /\ a \in Nat /\ d \in Nat
        /\ d + k <= C
        /\ \/ M = m + 2 * (C - 1) /\ l + a <= m - 1 + C + d
           \/ M = m + C - 1 /\ l <= m + d
    BY <1>1, <1>2, <1>4
  <2> HIDE DEF C
  <2> QED
    BY <2>1
<1>8. Keeps(list[key], passed[key], ttl[key], k, Size(st', LeavingPlaces(key)), now, m, M, conf.period, Life)
  <2> DEFINE E == LeavingPlaces(key)
             q == list[key]
             p == passed[key]
             e == ttl[key]
             y == Size(st, E)
             z == Size(st', E)
             w == conf.period
             L == Life
  <2>1. /\ q \in Seq(Nat) /\ p \in Seq(Nat) /\ e \in Nat /\ L \in Nat
        /\ Sorted(p) /\ (\A i \in 1..Len(p) : p[i] <= now)
        /\ y \in Nat /\ z \in Nat /\ n <= Crowd
        /\ \A i \in Nat : i <= Crowd => Numbers(i, now, m, M, w)
    BY KeyTypes, SizeType DEF m, M, n
  <2>2. Keeps(q, p, e, n, y, now, m, M, w, L)
    BY DEF KeyFacts, RedisKeeps, m, M, n, P
  <2>3. \/ Len(q) < m /\ m + k <= M + 1
        \/ q # <<>> /\ Old(Head(q), w, now) /\ Len(q) + k <= M + 1
    BY <1>5, <1>6, <1>7 DEF l
  <2>4. y <= z
    <3>1. st[c].pc \notin E
      OBVIOUS
    <3> HIDE DEF E
    <3>2. z = y \/ z = y + 1
      BY <1>0, <3>1, MoveSizes
    <3> QED
      BY <2>1, <3>2
  <2>5. k <= M
    BY <1>1
  <2> HIDE DEF E, q, p, e, w, y, z, L
  <2>6. Keeps(q, p, e, k, z, now, m, M, w, L)
    BY <1>1, <2>1, <2>2, <2>3, <2>4, <2>5, KeepsOneMore
  <2> QED
    BY <2>6 DEF E, q, p, e, w, z, L
<1>9. Fits(key, list[key], st')
  <2>1. IF conf.of = "address" THEN l + b <= m - 1 + Crowd + d ELSE l <= m + d
    <3>1. CASE l < m
      BY <1>1, <3>1
    <3>2. CASE conf.of = "address" => b <= a
      BY <1>1, <1>4, <3>2
    <3> QED
      BY <1>3, <1>5, <3>1, <3>2
  <2> QED
    BY <1>2, <2>1 DEF Fits, l, m, b, d, R
<1> QED
  BY <1>8, <1>9, RedisNext DEF KeyFacts, k, m, M, P

\* A request that was let through is counted, on the list and as passed.
LEMMA KeepPush ==
    ASSUME NEW key \in Keys, KeyFacts(key), NEW c \in Clients, NEW x,
           OnlyMoves(c, st, st'), st'[c].pc = x, now' = now,
           list'[key] = Append(list[key], now), passed'[key] = Append(passed[key], now),
           ttl'[key] = ttl[key],
           st[c].pc \notin LeavingPlaces(key), x \in LeavingPlaces(key),
           st[c].pc \in ClearedPlaces(key), x \notin ClearedPlaces(key),
           st[c].pc \notin LatePlaces(key), x # "push",
           \/ x \in LatePlaces(key)
           \/ x \notin LatePlaces(key) /\ conf.of = "address" /\ st[c].pc = "push"
    PROVE  RedisKeeps(key)'
<1> DEFINE P == ClearedPlaces(key)
           R == LatePlaces(key)
           Q == {"push"}
           l == Len(list[key])
           m == Maximum(key)
           M == Within(key)
           n == Size(st, P)
           a == Size(st, Q)
           b == Size(st', Q)
           d == Size(st, R)
           g == Size(st', R)
<1>0. /\ OnlyMoves(c, st, st') /\ st'[c].pc = x
      /\ st[c].pc \in P /\ x \notin P /\ st[c].pc \notin R /\ x \notin Q
      /\ x \in R \/ (x \notin R /\ conf.of = "address" /\ st[c].pc \in Q)
  OBVIOUS
<1>1. /\ l \in Nat /\ m \in Nat \ {0} /\ M \in Nat /\ a \in Nat /\ b \in Nat /\ d \in Nat /\ g \in Nat
      /\ n \in Nat /\ n <= Crowd /\ Crowd \in Nat /\ Crowd <= M
  BY SizeType, KeyTypes
<1>2. Size(st', P) = n - 1 /\ n >= 1
  <2> HIDE DEF P
  <2> QED
    BY <1>0, MoveSizes
<1>3. b <= a /\ (st[c].pc \in Q => b = a - 1)
  <2> HIDE DEF Q
  <2>1. /\ (st[c].pc \in Q <=> st'[c].pc \in Q) => b = a
        /\ st[c].pc \in Q /\ st'[c].pc \notin Q => b = a - 1
    BY <1>0, MoveSizes
  <2> QED
    BY <1>0, <1>1, <2>1
<1>4. (x \in R => g = d + 1) /\ (x \notin R => g = d)
  <2> HIDE DEF R
  <2> QED
    BY <1>0, MoveSizes
<1>5. IF conf.of = "address" THEN l + a <= m - 1 + Crowd + d ELSE l <= m + d
  BY DEF KeyFacts, RedisKeeps, Fits
<1>6. list[key] \in Seq(Nat) /\ now \in Nat
  BY KeyTypes
<1>7. Len(list'[key]) = l + 1
  BY <1>6, AppendEntries
<1> HIDE DEF P, Q, R, l, m, M, n, a, b, d, g
<1>8. IF conf.of = "address" THEN (l + 1) + b <= m - 1 + Crowd + g ELSE l + 1 <= m + g
  <2> DEFINE C == Crowd
             byAddress == conf.of = "address"
  <2>1. /\ l \in Nat /\ m \in Nat /\ a \in Nat /\ b \in Nat /\ d \in Nat /\ g \in Nat /\ C \in Nat
        /\ IF byAddress THEN l + a <= m - 1 + C + d ELSE l <= m + d
    BY <1>1, <1>5
  <2>0. (g = d + 1 /\ b <= a) \/ (g = d /\ b = a - 1 /\ byAddress)
    BY <1>0, <1>3, <1>4
  <2> HIDE DEF C, byAddress
  <2>2. IF byAddress THEN (l + 1) + b <= m - 1 + C + g ELSE l + 1 <= m + g
    BY <2>0, <2>1
  <2> QED
    BY <2>2 DEF C, byAddress
<1>9. Fits(key, list'[key], st')
  BY <1>7, <1>8 DEF Fits, m, b, g, R, Q
<1>10. Keeps(list'[key], passed'[key], ttl'[key], n - 1, Size(st', LeavingPlaces(key)), now,
             m, M, conf.period, Life)
  <2> DEFINE E == LeavingPlaces(key)
             q == list[key]
             p == passed[key]
             e == ttl[key]
             y == Size(st, E)
             w == conf.period
             L == Life
  <2>1. /\ q \in Seq(Nat) /\ p \in Seq(Nat) /\ e \in Nat /\ L \in Nat
        /\ Sorted(p) /\ (\A i \in 1..Len(p) : p[i] <= now)
        /\ y \in Nat /\ Numbers(n, now, m, M, w)
    <3>1. \A i \in Nat : i <= Crowd => Numbers(i, now, m, M, w)
      BY KeyTypes DEF m, M
    <3>2. Numbers(n, now, m, M, w)
      BY <1>1, <3>1
    <3> QED
      BY <3>2, KeyTypes, SizeType
  <2>2. Keeps(q, p, e, n, y, now, m, M, w, L)
    BY DEF KeyFacts, RedisKeeps, m, M, n, P
  <2>3. Size(st', E) = y + 1
    <3>1. st[c].pc \notin E /\ x \in E
      OBVIOUS
    <3> HIDE DEF E
    <3> QED
      BY <1>0, <3>1, MoveSizes
  <2>4. list'[key] = Append(q, now) /\ passed'[key] = Append(p, now) /\ ttl'[key] = e
    OBVIOUS
  <2> HIDE DEF E, q, p, e, w, y, L
  <2>5. Keeps(Append(q, now), Append(p, now), e, n - 1, y + 1, now, m, M, w, L)
    BY <1>2, <2>1, <2>2, KeepsPush
  <2> QED
    BY <2>3, <2>4, <2>5 DEF w, E, L
<1> QED
  BY <1>2, <1>9, <1>10, RedisNext DEF KeyFacts, m, M, P

\* A request that was refused goes on the list.
LEMMA KeepRefused ==
    ASSUME NEW key \in Keys, KeyFacts(key), NEW c \in Clients,
           OnlyMoves(c, st, st'), now' = now,
           list'[key] = Append(list[key], now), passed'[key] = passed[key], ttl'[key] = ttl[key],
           conf.of # "address",
           st[c].pc \notin LeavingPlaces(key), st'[c].pc \notin LeavingPlaces(key),
           st[c].pc \notin ClearedPlaces(key), st'[c].pc \notin ClearedPlaces(key),
           st[c].pc \notin LatePlaces(key), st'[c].pc \in LatePlaces(key)
    PROVE  RedisKeeps(key)'
<1> DEFINE P == ClearedPlaces(key)
           R == LatePlaces(key)
           l == Len(list[key])
           m == Maximum(key)
           M == Within(key)
           n == Size(st, P)
           d == Size(st, R)
<1>0. /\ OnlyMoves(c, st, st')
      /\ st[c].pc \notin P /\ st'[c].pc \notin P /\ st[c].pc \notin R /\ st'[c].pc \in R
  OBVIOUS
<1>1. l \in Nat /\ m \in Nat \ {0} /\ d \in Nat /\ n \in Nat /\ n <= Crowd /\ M \in Nat
  BY SizeType, KeyTypes
<1>2. Size(st', P) = n
  <2> HIDE DEF P
  <2> QED
    BY <1>0, MoveSizes
<1>3. Size(st', R) = d + 1
  <2> HIDE DEF R
  <2> QED
    BY <1>0, MoveSizes
<1>4. l <= m + d
  BY DEF KeyFacts, RedisKeeps, Fits
<1>5. list[key] \in Seq(Nat) /\ now \in Nat
  BY KeyTypes
<1>6. Len(list'[key]) = l + 1
  BY <1>5, AppendEntries
<1> HIDE DEF P, R, l, m, M, n, d
<1>7. l + 1 <= m + (d + 1)
  BY <1>1, <1>4
<1>8. Fits(key, list'[key], st')
  BY <1>3, <1>6, <1>7 DEF Fits, m, R
<1>9. Keeps(list'[key], passed'[key], ttl'[key], n, Size(st', LeavingPlaces(key)), now,
            m, M, conf.period, Life)
  <2> DEFINE E == LeavingPlaces(key)
             q == list[key]
             p == passed[key]
             e == ttl[key]
             y == Size(st, E)
             w == conf.period
             L == Life
  <2>1. /\ q \in Seq(Nat) /\ p \in Seq(Nat) /\ e \in Nat /\ L \in Nat
        /\ Sorted(q) /\ (\A i \in 1..Len(q) : q[i] <= now)
        /\ Sorted(p) /\ (\A i \in 1..Len(p) : p[i] <= now)
        /\ y \in Nat /\ Numbers(n, now, m, M, w)
    <3>1. \A i \in Nat : i <= Crowd => Numbers(i, now, m, M, w)
      BY KeyTypes DEF m, M
    <3>2. Numbers(n, now, m, M, w)
      BY <1>1, <3>1
    <3> QED
      BY <3>2, KeyTypes, SizeType
  <2>2. Keeps(q, p, e, n, y, now, m, M, w, L)
    BY DEF KeyFacts, RedisKeeps, m, M, n, P
  <2>3. list'[key] = Append(q, now) /\ passed'[key] = p /\ ttl'[key] = e
    OBVIOUS
  <2>4. Size(st', E) = y
    <3>1. st[c].pc \notin E /\ st'[c].pc \notin E
      OBVIOUS
    <3> HIDE DEF E
    <3> QED
      BY <1>0, <3>1, MoveSizes
  <2> HIDE DEF E, q, p, e, w, y, L
  <2>5. Keeps(Append(q, now), p, e, n, y, now, m, M, w, L)
    BY <2>1, <2>2, KeepsRefused
  <2> QED
    BY <2>3, <2>4, <2>5 DEF w, E, L
<1> QED
  BY <1>2, <1>8, <1>9, RedisNext DEF KeyFacts, m, M, P

\* What Trimmed does, and that it leaves no more than the limit.
LEMMA TrimmedType ==
    ASSUME NEW key \in Keys, list[key] \in Seq(Nat), Maximum(key) \in Nat
    PROVE  \/ Trimmed(key) = list[key] /\ Len(list[key]) <= Maximum(key)
           \/ /\ Len(list[key]) > Maximum(key)
              /\ Len(list[key]) - Maximum(key) \in 0..Len(list[key])
              /\ Trimmed(key) = SubSeq(list[key], Len(list[key]) - Maximum(key) + 1, Len(list[key]))
              /\ Len(Trimmed(key)) = Maximum(key)
<1> DEFINE q == list[key]
           m == Maximum(key)
           n == Len(q) - m
<1>1. Len(q) \in Nat /\ q \in Seq(Nat) /\ m \in Nat
  BY EntryType
<1>2. Trimmed(key) = IF n > 0 THEN SubSeq(q, n + 1, Len(q)) ELSE q
  BY DEF Trimmed
<1> HIDE DEF q, m
<1>3. CASE n > 0
  <2>1. n \in 0..Len(q) /\ Len(q) > m /\ Len(q) - n = m
    BY <1>1, <1>3
  <2>2. Len(SubSeq(q, n + 1, Len(q))) = Len(q) - n
    <3> HIDE DEF n
    <3> QED
      BY <1>1, <2>1, CutEntries
  <2>3. Trimmed(key) = SubSeq(q, n + 1, Len(q)) /\ Len(Trimmed(key)) = m
    BY <1>2, <1>3, <2>1, <2>2
  <2> QED
    BY <2>1, <2>3 DEF q, m
<1>4. CASE ~(n > 0)
  <2>1. Len(q) <= m
    BY <1>1, <1>4
  <2> QED
    BY <1>2, <1>4, <2>1 DEF q, m
<1> QED
  BY <1>3, <1>4

\* A list is trimmed.
LEMMA KeepTrim ==
    ASSUME NEW key \in Keys, KeyFacts(key), NEW c \in Clients,
           OnlyMoves(c, st, st'), now' = now,
           list'[key] = Trimmed(key), passed'[key] = passed[key], ttl'[key] = ttl[key],
           st[c].pc \notin ClearedPlaces(key), st'[c].pc \notin ClearedPlaces(key),
           st[c].pc \in LeavingPlaces(key) <=> st'[c].pc \in LeavingPlaces(key),
           st[c].pc \in LatePlaces(key), st'[c].pc # "push"
    PROVE  RedisKeeps(key)'
<1> DEFINE P == ClearedPlaces(key)
           R == LatePlaces(key)
           Q == {"push"}
           l == Len(list'[key])
           m == Maximum(key)
           M == Within(key)
           n == Size(st, P)
           b == Size(st', Q)
           g == Size(st', R)
<1>0. /\ OnlyMoves(c, st, st')
      /\ st[c].pc \notin P /\ st'[c].pc \notin P /\ st'[c].pc \notin Q
  OBVIOUS
<1>1. /\ m \in Nat \ {0} /\ g \in Nat /\ n \in Nat /\ n <= Crowd /\ M \in Nat /\ b \in Nat /\ Crowd \in Nat
      /\ list[key] \in Seq(Nat)
  BY SizeType, KeyTypes
<1>2. Size(st', P) = n
  <2> HIDE DEF P
  <2> QED
    BY <1>0, MoveSizes
<1>3. b <= Crowd - 1
  <2>1. Where(st', Q) \in SUBSET (Clients \ {c})
    BY <1>0 DEF Where
  <2>2. IsFiniteSet(Clients \ {c}) /\ Cardinality(Clients \ {c}) = Cardinality(Clients) - 1
    BY FS_RemoveElement DEF LimitsAssumption
  <2> HIDE DEF Q
  <2>3. Cardinality(Where(st', Q)) <= Cardinality(Clients \ {c})
    BY <2>1, <2>2, FS_Subset
  <2> QED
    BY <2>2, <2>3 DEF Size, Crowd, b
<1>4. l \in Nat /\ l <= m
  <2>1. m \in Nat
    BY <1>1
  <2>2. \/ list'[key] = list[key] /\ Len(list[key]) <= m
        \/ Len(list'[key]) = m
    BY <1>1, <2>1, TrimmedType
  <2>3. Len(list[key]) \in Nat
    BY <1>1, EntryType
  <2> HIDE DEF m
  <2> QED
    BY <2>1, <2>2, <2>3
<1> HIDE DEF P, Q, R, l, m, M, n, b, g
<1>5. l + b <= m - 1 + Crowd + g /\ l <= m + g
  BY <1>1, <1>3, <1>4
<1>6. Fits(key, list'[key], st')
  BY <1>5 DEF Fits, l, m, b, g, Q, R
<1>7. Keeps(list'[key], passed'[key], ttl'[key], n, Size(st', LeavingPlaces(key)), now,
            m, M, conf.period, Life)
  <2> DEFINE E == LeavingPlaces(key)
             q == list[key]
             p == passed[key]
             e == ttl[key]
             y == Size(st, E)
             w == conf.period
             L == Life
  <2>1. /\ q \in Seq(Nat) /\ p \in Seq(Nat) /\ e \in Nat /\ L \in Nat
        /\ y \in Nat /\ Numbers(n, now, m, M, w)
    <3>1. \A i \in Nat : i <= Crowd => Numbers(i, now, m, M, w)
      BY KeyTypes DEF m, M
    <3>2. Numbers(n, now, m, M, w)
      BY <1>1, <3>1
    <3> QED
      BY <3>2, KeyTypes, SizeType
  <2>2. Keeps(q, p, e, n, y, now, m, M, w, L)
    BY DEF KeyFacts, RedisKeeps, m, M, n, P
  <2>3. /\ passed'[key] = p /\ ttl'[key] = e
        /\ \/ list'[key] = q
           \/ Len(q) > m /\ list'[key] = SubSeq(q, Len(q) - m + 1, Len(q))
    <3>1. m \in Nat
      BY <1>1
    <3> QED
      BY <1>1, <3>1, TrimmedType DEF m
  <2>4. Size(st', E) = y
    <3>1. st[c].pc \in E <=> st'[c].pc \in E
      OBVIOUS
    <3> HIDE DEF E
    <3> QED
      BY <1>0, <3>1, MoveSizes
  <2> HIDE DEF E, q, p, e, w, y, L
  <2>5. Len(q) > m => Keeps(SubSeq(q, Len(q) - m + 1, Len(q)), p, e, n, y, now, m, M, w, L)
    BY <2>1, <2>2, KeepsTrim
  <2>6. Keeps(list'[key], passed'[key], ttl'[key], n, y, now, m, M, w, L)
    BY <2>2, <2>3, <2>5
  <2> QED
    BY <2>4, <2>6 DEF w, E, L
<1> QED
  BY <1>2, <1>6, <1>7, RedisNext DEF KeyFacts, m, M, P

\* Time goes by.
LEMMA KeepTick ==
    ASSUME NEW key \in Keys, KeyFacts(key), st' = st, now' = now + 1, passed'[key] = passed[key],
           IF ttl[key] # 0 /\ ttl[key] <= now + 1 THEN list'[key] = <<>> /\ ttl'[key] = 0
                                                ELSE list'[key] = list[key] /\ ttl'[key] = ttl[key]
    PROVE  RedisKeeps(key)'
<1> DEFINE P == ClearedPlaces(key)
           R == LatePlaces(key)
           E == LeavingPlaces(key)
           Q == {"push"}
           q == list[key]
           l == Len(q)
           h == Len(list'[key])
           p == passed[key]
           e == ttl[key]
           m == Maximum(key)
           M == Within(key)
           w == conf.period
           n == Size(st, P)
           y == Size(st, E)
           a == Size(st, Q)
           d == Size(st, R)
           L == Life
<1>1. /\ q \in Seq(Nat) /\ p \in Seq(Nat) /\ e \in Nat /\ now \in Nat /\ m \in Nat /\ L \in Nat
      /\ w <= L /\ Sorted(p) /\ (\A i \in 1..Len(p) : p[i] <= now)
      /\ n \in Nat /\ n <= Crowd /\ y \in Nat /\ y <= Crowd /\ a \in Nat /\ d \in Nat
      /\ Crowd \in Nat /\ l \in Nat
      /\ \A i \in Nat : i <= Crowd => Numbers(i, now, m, M, w)
  BY SizeType, KeyTypes
<1>2. Keeps(q, p, e, n, y, now, m, M, w, L)
  BY DEF KeyFacts, RedisKeeps
<1>3. IF conf.of = "address" THEN l + a <= m - 1 + Crowd + d ELSE l <= m + d
  BY DEF KeyFacts, RedisKeeps, Fits
<1>4. IF e # 0 /\ e <= now + 1 THEN list'[key] = <<>> /\ ttl'[key] = 0
                               ELSE list'[key] = q /\ ttl'[key] = e
  OBVIOUS
<1>5. h \in Nat /\ h <= l
  BY <1>1, <1>4
<1> HIDE DEF P, Q, R, E, q, l, h, p, e, m, M, w, n, y, a, d, L
<1>6. Numbers(n, now, m, M, w)
  BY <1>1
<1>7. Keeps(list'[key], p, ttl'[key], n, y, now + 1, m, M, w, L)
  <2>1. IF e # 0 /\ e <= now + 1 THEN Keeps(<<>>, p, 0, n, y, now + 1, m, M, w, L)
                                 ELSE Keeps(q, p, e, n, y, now + 1, m, M, w, L)
    BY <1>1, <1>2, <1>6, KeepsTick
  <2> QED
    BY <1>4, <2>1
<1>8. IF conf.of = "address" THEN h + a <= m - 1 + Crowd + d ELSE h <= m + d
  <2> DEFINE C == Crowd
             byAddress == conf.of = "address"
  <2>1. /\ l \in Nat /\ m \in Nat /\ a \in Nat /\ d \in Nat /\ h \in Nat /\ C \in Nat /\ h <= l
        /\ IF byAddress THEN l + a <= m - 1 + C + d ELSE l <= m + d
    BY <1>1, <1>3, <1>5
  <2> HIDE DEF C, byAddress
  <2>2. IF byAddress THEN h + a <= m - 1 + C + d ELSE h <= m + d
    BY <2>1
  <2> QED
    BY <2>2 DEF C, byAddress
<1>9. Fits(key, list'[key], st')
  BY <1>8 DEF Fits, h, m, a, d, Q, R
<1>10. Keeps(list'[key], passed'[key], ttl'[key], Size(st', ClearedPlaces(key)), Size(st', LeavingPlaces(key)),
             now', Maximum(key), Within(key), conf.period, Life)
  BY <1>7 DEF p, n, y, P, E, m, M, w, L
<1> QED
  BY <1>9, <1>10, RedisNext DEF KeyFacts

(***************************************************************************)
(* The steps.                                                              *)
(***************************************************************************)

\* A request moves on.
LEMMA MoveType ==
    ASSUME TypeOK, RightPlaces, NEW c \in Clients, NEW x, MayBeAt(x), MoveTo(c, x)
    PROVE  /\ st' \in States /\ st'[c].pc = x /\ OnlyMoves(c, st, st')
<1>1. st \in States /\ x \in Places /\ st' = [st EXCEPT ![c].pc = x]
  BY DEF TypeOK, States, MayBeAt, MoveTo
<1> QED
  BY <1>1 DEF States, OnlyMoves

\* Everybody is still where he may be.
LEMMA MoveRight ==
    ASSUME RightPlaces, NEW c \in Clients, OnlyMoves(c, st, st'), MayBeAt(st'[c].pc), conf' = conf
    PROVE  RightPlaces'
<1>1. \A x : MayBeAt(x)' = MayBeAt(x)
  BY DEF MayBeAt
<1>2. ASSUME NEW d \in Clients PROVE MayBeAt(st'[d].pc)
  BY DEF RightPlaces, OnlyMoves
<1> QED
  BY <1>2 DEF RightPlaces, MayBeAt

\* A move that lets nobody through, as a key sees it; one that does, after
\* looking at the list; and one that sets the expiry.
LetsNobody(key, pc, x) ==
    /\ x \in ClearedPlaces(key) => pc \in ClearedPlaces(key)
    /\ x \in LatePlaces(key) <=> pc \in LatePlaces(key)
    /\ conf.of = "address" /\ x = "push" => pc = "push"
Unconcerned(key, pc, x) ==
    /\ LetsNobody(key, pc, x)
    /\ pc \in LeavingPlaces(key) => x \in LeavingPlaces(key)
Looked(key, pc, x) ==
    /\ x \in ClearedPlaces(key) /\ pc \notin ClearedPlaces(key)
    /\ pc \notin LatePlaces(key) /\ pc \notin LeavingPlaces(key)
    /\ \/ Len(list[key]) < Maximum(key)
       \/ /\ list[key] # <<>> /\ Old(Head(list[key]), conf.period, now)
          /\ conf.of = "address" => x # "push"
Renews(key, pc, x) ==
    /\ LetsNobody(key, pc, x)
    /\ IF list[key] = <<>> THEN ttl'[key] = ttl[key] ELSE ttl'[key] = now + Life

\* The steps that leave what is kept, and what has passed, as they were.
LEMMA QuietStep ==
    ASSUME LimitsInv, UNCHANGED <<conf, now, list, there, passed>>,
           NEW c \in Clients, st' \in States, OnlyMoves(c, st, st'), MayBeAt(st'[c].pc),
           ttl' \in [Keys -> Nat],
           requests' \in 0..MaxRequests, notes' \in Nat, notified' \in Nat,
           \A key \in Keys : conf.redis /\ InUse(key) =>
             \/ Unconcerned(key, st[c].pc, st'[c].pc) /\ ttl'[key] = ttl[key]
             \/ Looked(key, st[c].pc, st'[c].pc) /\ ttl'[key] = ttl[key]
             \/ Renews(key, st[c].pc, st'[c].pc)
    PROVE  LimitsInv'
<1>1. TypeOK'
  BY DEF LimitsInv, TypeOK, States
<1>2. InOrder' /\ Present'
  BY DEF LimitsInv, InOrder, Present
<1>3. RightPlaces'
  BY MoveRight DEF LimitsInv
<1>4. (Live /\ ~conf.redis)' => \A key \in Keys : MemoryKeeps(key)'
  BY ConfNext DEF LimitsInv, MemoryKeeps, Live
<1>5. conf.redis' => \A key \in Keys : Unused(key)' => passed'[key] = <<>>
  BY DEF LimitsInv, Unused
<1>6. ASSUME (Live /\ conf.redis)', NEW key \in Keys, InUse(key)' PROVE RedisKeeps(key)'
  <2>1. KeyFacts(key)
    BY <1>6, ConfNext, RedisNext DEF KeyFacts, LimitsInv
  <2>2. CASE Unconcerned(key, st[c].pc, st'[c].pc) /\ ttl'[key] = ttl[key]
    BY <2>1, <2>2, KeepMove DEF Unconcerned, LetsNobody
  <2>3. CASE Looked(key, st[c].pc, st'[c].pc) /\ ttl'[key] = ttl[key]
    BY <2>1, <2>3, KeepClear DEF Looked
  <2>4. CASE Renews(key, st[c].pc, st'[c].pc)
    BY <2>1, <2>4, KeepMove DEF Renews, LetsNobody
  <2> QED
    BY <2>1, <2>2, <2>3, <2>4 DEF KeyFacts
<1> QED
  BY <1>1, <1>2, <1>3, <1>4, <1>5, <1>6 DEF LimitsInv

\* What the requests and notifications are counted by.
LEMMA Counters ==
    ASSUME TypeOK
    PROVE  /\ requests \in 0..MaxRequests /\ (requests < MaxRequests => requests + 1 \in 0..MaxRequests)
           /\ notes \in Nat /\ notified \in Nat /\ ttl \in [Keys -> Nat]
           /\ \A c \in Clients : st[c].pc \in Places /\ st[c].seen \in Nat
BY DEF TypeOK, LimitsAssumption

\* The keys.
LEMMA KeyCases ==
    ASSUME NEW key \in Keys, InUse(key)
    PROVE  key = "total" \/ (key = "success" /\ conf.of # "address")
BY DEF InUse

\* A request that fails lets go of what it was.
LEMMA FailStep ==
    ASSUME LimitsInv, NEW c \in Clients, Fail(c)
    PROVE  LimitsInv'
<1>1. st[c].pc = "serve" /\ MoveTo(c, "idle") /\ UNCHANGED <<conf, now, list, there, ttl, requests, passed, notes, notified>>
  BY DEF Fail, IsAt, Stored, Notifying
<1>2. MayBeAt("idle")
  BY DEF MayBeAt, Places
<1>3. st' \in States /\ st'[c].pc = "idle" /\ OnlyMoves(c, st, st')
  BY <1>1, <1>2, MoveType DEF LimitsInv
<1>4. \A key \in Keys : Unconcerned(key, "serve", "idle")
  BY DEF Unconcerned, LetsNobody, ClearedPlaces, LatePlaces, LeavingPlaces
<1> QED
  BY <1>1, <1>2, <1>3, <1>4, QuietStep, Counters DEF LimitsInv

\* The first look, at the limit on requests.
LEMMA RedisTotalStep ==
    ASSUME LimitsInv, NEW c \in Clients, RedisTotal(c)
    PROVE  LimitsInv'
<1> DEFINE next == IF conf.of = "address" THEN "push" ELSE "success"
<1>1. /\ st[c].pc = "idle" /\ requests < MaxRequests /\ requests' = requests + 1
      /\ conf.redis /\ UNCHANGED <<conf, now, list, there, ttl, passed, notes, notified>>
      /\ \/ MoveTo(c, next) /\ Maximum("total") = 0 /\ conf.of # "address"
         \/ MoveTo(c, next) /\ Len(list["total"]) < Maximum("total")
         \/ MoveTo(c, "oldest") /\ (conf.total # 0 \/ conf.of = "address")
  BY DEF RedisTotal, Job, IsAt, CheckRedisRateLimit, Stored, Notifying, Maximum
<1>2. (MoveTo(c, "oldest") /\ (conf.total # 0 \/ conf.of = "address") => MayBeAt("oldest")) /\ MayBeAt(next)
  BY <1>1 DEF MayBeAt, Places
<1>3. requests' \in 0..MaxRequests /\ ttl' \in [Keys -> Nat] /\ notes' \in Nat /\ notified' \in Nat
  BY <1>1, Counters DEF LimitsInv
<1>4. CASE MoveTo(c, "oldest") /\ (conf.total # 0 \/ conf.of = "address")
  <2>1. st' \in States /\ st'[c].pc = "oldest" /\ OnlyMoves(c, st, st')
    BY <1>2, <1>4, MoveType DEF LimitsInv
  <2>2. \A key \in Keys : Unconcerned(key, "idle", "oldest")
    BY DEF Unconcerned, LetsNobody, ClearedPlaces, LatePlaces, LeavingPlaces
  <2> QED
    BY <1>1, <1>2, <1>3, <1>4, <2>1, <2>2, QuietStep
<1>5. CASE /\ MoveTo(c, next)
           /\ (Maximum("total") = 0 /\ conf.of # "address") \/ Len(list["total"]) < Maximum("total")
  <2>1. st' \in States /\ st'[c].pc = next /\ OnlyMoves(c, st, st')
    BY <1>2, <1>5, MoveType DEF LimitsInv
  <2>2. ASSUME NEW key \in Keys, InUse(key)
        PROVE  Unconcerned(key, "idle", next) \/ Looked(key, "idle", next)
    <3>1. CASE key = "total"
      <4>1. Len(list["total"]) < Maximum("total")
        BY <1>5, <2>2, <3>1 DEF InUse
      <4> QED
        BY <3>1, <4>1 DEF Looked, ClearedPlaces, LatePlaces, LeavingPlaces
    <3>2. CASE key = "success" /\ conf.of # "address"
      BY <3>2 DEF Unconcerned, LetsNobody, ClearedPlaces, LatePlaces, LeavingPlaces
    <3> QED
      BY <2>2, <3>1, <3>2, KeyCases
  <2> HIDE DEF next
  <2> QED
    BY <1>1, <1>2, <1>3, <2>1, <2>2, QuietStep
<1> QED
  BY <1>1, <1>4, <1>5

\* What Oldest does: it gives up, refuses, or lets through.
LEMMA OldestCases ==
    ASSUME LimitsInv, conf.redis, NEW c \in Clients, NEW key \in Keys, NEW yes, NEW no, Oldest(c, key, yes, no)
    PROVE  \/ MoveTo(c, "idle")
           \/ MoveTo(c, no)
           \/ /\ MoveTo(c, yes)
              /\ list[key] # <<>> /\ Old(Head(list[key]), conf.period, now)
<1>1. now \in Nat /\ conf.period \in Nat /\ list[key] \in Seq(Nat)
  BY ConfType DEF LimitsInv, TypeOK
<1>2. CASE list[key] = <<>>
  BY <1>2 DEF Oldest
<1>3. CASE list[key] # <<>> /\ now - Head(list[key]) < conf.period
  BY <1>3 DEF Oldest
<1>4. CASE list[key] # <<>> /\ ~(now - Head(list[key]) < conf.period)
  <2>1. MoveTo(c, yes)
    BY <1>4 DEF Oldest
  <2>2. Head(list[key]) \in Nat
    BY <1>1, <1>4
  <2>3. Old(Head(list[key]), conf.period, now)
    <3> DEFINE x == Head(list[key])
    <3>1. x \in Nat /\ ~(now - x < conf.period)
      BY <1>4, <2>2
    <3> HIDE DEF x
    <3>2. x + conf.period <= now
      BY <1>1, <3>1
    <3> QED
      BY <3>2 DEF Old, x
  <2> QED
    BY <1>4, <2>1, <2>3
<1> QED
  BY <1>2, <1>3, <1>4

\* The second look, at the oldest request.
LEMMA RedisTotalOldestStep ==
    ASSUME LimitsInv, NEW c \in Clients, RedisTotalOldest(c)
    PROVE  LimitsInv'
<1> DEFINE yes == IF conf.of = "address" THEN "push and trim" ELSE "success"
           no == IF conf.of = "user" THEN "keep refused" ELSE "keep"
<1>1. /\ st[c].pc = "oldest" /\ Oldest(c, "total", yes, no)
      /\ UNCHANGED <<conf, now, list, there, ttl, requests, passed, notes, notified>>
  BY DEF RedisTotalOldest, IsAt, Notifying, Stored
<1>2. conf.redis
  BY <1>1 DEF LimitsInv, RightPlaces, MayBeAt
<1>3. MayBeAt("idle") /\ MayBeAt(yes) /\ MayBeAt(no)
  <2>1. conf.total # 0 \/ conf.of = "address"
    BY <1>1 DEF LimitsInv, RightPlaces, MayBeAt
  <2> QED
    BY <1>2, <2>1 DEF MayBeAt, Places
<1>4. "total" \in Keys
  BY DEF Keys
<1>5. requests' \in 0..MaxRequests /\ ttl' \in [Keys -> Nat] /\ notes' \in Nat /\ notified' \in Nat
  BY <1>1, Counters DEF LimitsInv
<1>6. \/ MoveTo(c, "idle")
      \/ MoveTo(c, no)
      \/ /\ MoveTo(c, yes)
         /\ list["total"] # <<>> /\ Old(Head(list["total"]), conf.period, now)
  <2> HIDE DEF yes, no
  <2> QED
    BY <1>1, <1>2, <1>4, OldestCases
<1>7. ASSUME NEW x \in {"idle", no}, MoveTo(c, x) PROVE LimitsInv'
  <2>1. MayBeAt(x)
    BY <1>3
  <2>2. st' \in States /\ st'[c].pc = x /\ OnlyMoves(c, st, st')
    BY <1>7, <2>1, MoveType DEF LimitsInv
  <2>3. \A key \in Keys : Unconcerned(key, "oldest", x)
    BY DEF Unconcerned, LetsNobody, ClearedPlaces, LatePlaces, LeavingPlaces
  <2> QED
    BY <1>1, <1>5, <1>6, <2>1, <2>2, <2>3, QuietStep
<1>8. CASE /\ MoveTo(c, yes)
           /\ list["total"] # <<>> /\ Old(Head(list["total"]), conf.period, now)
  <2>1. st' \in States /\ st'[c].pc = yes /\ OnlyMoves(c, st, st')
    BY <1>3, <1>8, MoveType DEF LimitsInv
  <2>2. ASSUME NEW key \in Keys, InUse(key)
        PROVE  Unconcerned(key, "oldest", yes) \/ Looked(key, "oldest", yes)
    <3>1. CASE key = "total"
      BY <1>8, <3>1 DEF Looked, ClearedPlaces, LatePlaces, LeavingPlaces
    <3>2. CASE key = "success" /\ conf.of # "address"
      BY <3>2 DEF Unconcerned, LetsNobody, ClearedPlaces, LatePlaces, LeavingPlaces
    <3> QED
      BY <2>2, <3>1, <3>2, KeyCases
  <2> HIDE DEF yes
  <2> QED
    BY <1>1, <1>3, <1>5, <1>6, <1>8, <2>1, <2>2, QuietStep
<1> QED
  BY <1>6, <1>7, <1>8

\* With Redis, nobody who is limited by address is past the first limit.
LEMMA NotByAddress ==
    ASSUME LimitsInv, NEW c \in Clients,
           st[c].pc \in {"success", "success oldest", "refused", "refused oldest", "record refused",
                         "trim refused", "expire refused", "keep refused", "serve", "trim success",
                         "expire success", "keep success"}
    PROVE  conf.redis => conf.of # "address"
BY DEF LimitsInv, RightPlaces, MayBeAt

\* The first look, at the limit on successes.
LEMMA RedisSuccessStep ==
    ASSUME LimitsInv, NEW c \in Clients, RedisSuccess(c)
    PROVE  LimitsInv'
<1>1. /\ conf.redis /\ UNCHANGED <<conf, now, list, there, ttl, requests, passed, notes, notified>>
      /\ st[c].pc \in {"success", "refused"}
  BY DEF RedisSuccess, IsAt, Stored, Notifying
<1>2. conf.of # "address"
  BY <1>1, NotByAddress
<1>3. /\ requests' \in 0..MaxRequests /\ ttl' \in [Keys -> Nat] /\ notes' \in Nat /\ notified' \in Nat
      /\ \A k \in Keys : ttl'[k] = ttl[k]
  BY <1>1, Counters DEF LimitsInv
<1>4. \/ /\ st[c].pc = "success" /\ MoveTo(c, "push")
         /\ Maximum("success") = 0 \/ Len(list["success"]) < Maximum("success")
      \/ st[c].pc = "success" /\ MoveTo(c, "success oldest")
      \/ st[c].pc = "refused" /\ MoveTo(c, "record refused")
      \/ st[c].pc = "refused" /\ MoveTo(c, "refused oldest")
  BY <1>2 DEF RedisSuccess, IsAt, CheckRedisRateLimit
<1>5. /\ MayBeAt("push") /\ MayBeAt("success oldest")
      /\ st[c].pc = "refused" => MayBeAt("record refused") /\ MayBeAt("refused oldest")
  <2>1. st[c].pc = "refused" => conf.total # 0
    BY <1>2 DEF LimitsInv, RightPlaces, MayBeAt
  <2> QED
    BY <1>1, <1>2, <2>1 DEF MayBeAt, Places
<1>6. CASE /\ st[c].pc = "success" /\ MoveTo(c, "push")
           /\ Maximum("success") = 0 \/ Len(list["success"]) < Maximum("success")
  <2>1. st' \in States /\ st'[c].pc = "push" /\ OnlyMoves(c, st, st') /\ MayBeAt("push")
    BY <1>5, <1>6, MoveType DEF LimitsInv
  <2>2. ASSUME NEW key \in Keys, InUse(key)
        PROVE  Unconcerned(key, "success", "push") \/ Looked(key, "success", "push")
    <3>1. CASE key = "total"
      BY <1>2, <3>1 DEF Unconcerned, LetsNobody, ClearedPlaces, LatePlaces, LeavingPlaces
    <3>2. CASE key = "success"
      <4>1. Len(list["success"]) < Maximum("success")
        BY <1>6, <2>2, <3>2 DEF InUse
      <4> QED
        BY <3>2, <4>1 DEF Looked, ClearedPlaces, LatePlaces, LeavingPlaces
    <3> QED
      BY <2>2, <3>1, <3>2, KeyCases
  <2> QED
    BY <1>1, <1>3, <1>6, <2>1, <2>2, QuietStep
<1>7. CASE st[c].pc = "success" /\ MoveTo(c, "success oldest")
  <2>1. st' \in States /\ st'[c].pc = "success oldest" /\ OnlyMoves(c, st, st') /\ MayBeAt("success oldest")
    BY <1>5, <1>7, MoveType DEF LimitsInv
  <2>2. \A key \in Keys : Unconcerned(key, "success", "success oldest")
    BY <1>2 DEF Unconcerned, LetsNobody, ClearedPlaces, LatePlaces, LeavingPlaces
  <2> QED
    BY <1>1, <1>3, <1>7, <2>1, <2>2, QuietStep
<1>8. ASSUME NEW x \in {"record refused", "refused oldest"}, st[c].pc = "refused", MoveTo(c, x)
      PROVE  LimitsInv'
  <2>1. st' \in States /\ st'[c].pc = x /\ OnlyMoves(c, st, st') /\ MayBeAt(x)
    BY <1>5, <1>8, MoveType DEF LimitsInv
  <2>2. \A key \in Keys : Unconcerned(key, "refused", x)
    BY DEF Unconcerned, LetsNobody, ClearedPlaces, LatePlaces, LeavingPlaces
  <2> QED
    BY <1>1, <1>3, <1>8, <2>1, <2>2, QuietStep
<1> QED
  BY <1>4, <1>6, <1>7, <1>8

\* The second look, at the oldest success.
LEMMA RedisSuccessOldestStep ==
    ASSUME LimitsInv, NEW c \in Clients, RedisSuccessOldest(c)
    PROVE  LimitsInv'
<1>1. /\ UNCHANGED <<conf, now, list, there, ttl, requests, passed, notes, notified>>
      /\ \/ st[c].pc = "success oldest" /\ Oldest(c, "success", "push", "keep success")
         \/ st[c].pc = "refused oldest" /\ Oldest(c, "success", "record refused", "keep success")
  BY DEF RedisSuccessOldest, IsAt, Notifying, Stored
<1>2. conf.redis
  BY <1>1 DEF LimitsInv, RightPlaces, MayBeAt
<1>3. conf.of # "address"
  BY <1>1, <1>2, NotByAddress
<1>4. /\ MayBeAt("idle") /\ MayBeAt("keep success") /\ MayBeAt("push") /\ "success" \in Keys
      /\ st[c].pc = "refused oldest" => MayBeAt("record refused")
  <2>1. st[c].pc = "refused oldest" => conf.total # 0
    BY <1>3 DEF LimitsInv, RightPlaces, MayBeAt
  <2> QED
    BY <1>2, <1>3, <2>1 DEF MayBeAt, Places, Keys
<1>5. requests' \in 0..MaxRequests /\ ttl' \in [Keys -> Nat] /\ notes' \in Nat /\ notified' \in Nat
  BY <1>1, Counters DEF LimitsInv
<1>6. \/ \E x \in {"idle", "keep success"} : MoveTo(c, x)
      \/ st[c].pc = "refused oldest" /\ MoveTo(c, "record refused")
      \/ /\ st[c].pc = "success oldest" /\ MoveTo(c, "push")
         /\ list["success"] # <<>> /\ Old(Head(list["success"]), conf.period, now)
  BY <1>1, <1>2, <1>4, OldestCases
<1>7. ASSUME NEW x \in {"idle", "keep success"}, MoveTo(c, x) PROVE LimitsInv'
  <2>1. st' \in States /\ st'[c].pc = x /\ OnlyMoves(c, st, st') /\ MayBeAt(x)
    BY <1>4, <1>7, MoveType DEF LimitsInv
  <2>2. \A key \in Keys : Unconcerned(key, st[c].pc, x)
    BY <1>1 DEF Unconcerned, LetsNobody, ClearedPlaces, LatePlaces, LeavingPlaces
  <2> QED
    BY <1>1, <1>4, <1>5, <1>6, <2>1, <2>2, QuietStep
<1>8. CASE st[c].pc = "refused oldest" /\ MoveTo(c, "record refused")
  <2>1. st' \in States /\ st'[c].pc = "record refused" /\ OnlyMoves(c, st, st')
    BY <1>4, <1>8, MoveType DEF LimitsInv
  <2>2. \A key \in Keys : Unconcerned(key, "refused oldest", "record refused")
    BY DEF Unconcerned, LetsNobody, ClearedPlaces, LatePlaces, LeavingPlaces
  <2> QED
    BY <1>1, <1>4, <1>5, <1>6, <1>8, <2>1, <2>2, QuietStep
<1>9. CASE /\ st[c].pc = "success oldest" /\ MoveTo(c, "push")
           /\ list["success"] # <<>> /\ Old(Head(list["success"]), conf.period, now)
  <2>1. st' \in States /\ st'[c].pc = "push" /\ OnlyMoves(c, st, st')
    BY <1>4, <1>9, MoveType DEF LimitsInv
  <2>2. ASSUME NEW key \in Keys, InUse(key)
        PROVE  Unconcerned(key, "success oldest", "push") \/ Looked(key, "success oldest", "push")
    <3>1. CASE key = "total"
      BY <1>3, <3>1 DEF Unconcerned, LetsNobody, ClearedPlaces, LatePlaces, LeavingPlaces
    <3>2. CASE key = "success"
      BY <1>3, <1>9, <3>2 DEF Looked, ClearedPlaces, LatePlaces, LeavingPlaces
    <3> QED
      BY <2>2, <3>1, <3>2, KeyCases
  <2> QED
    BY <1>1, <1>4, <1>5, <1>6, <1>9, <2>1, <2>2, QuietStep
<1> QED
  BY <1>6, <1>7, <1>8, <1>9

\* What is left to show of a step in Redis.
LEMMA InRedisStep ==
    ASSUME LimitsInv, conf.redis, UNCHANGED <<conf, now, there, requests, notes, notified>>,
           NEW c \in Clients, st' \in States, OnlyMoves(c, st, st'), MayBeAt(st'[c].pc),
           list' \in [Keys -> Seq(Nat)], passed' \in [Keys -> Seq(Nat)], ttl' \in [Keys -> Nat],
           \A key \in Keys : Timely(list'[key], now) /\ Timely(passed'[key], now),
           \A key \in Keys : Unused(key) => passed'[key] = passed[key],
           Live => \A key \in Keys : InUse(key) => RedisKeeps(key)'
    PROVE  LimitsInv'
<1>1. TypeOK'
  BY DEF LimitsInv, TypeOK, States
<1>2. InOrder' /\ Present'
  BY DEF InOrder, Present
<1>3. RightPlaces'
  BY MoveRight DEF LimitsInv
<1>4. conf.redis' => \A key \in Keys : Unused(key)' => passed'[key] = <<>>
  BY DEF LimitsInv, Unused
<1>5. ASSUME (Live /\ conf.redis)', NEW key \in Keys, InUse(key)' PROVE RedisKeeps(key)'
  BY <1>5, ConfNext, RedisNext
<1> QED
  BY <1>1, <1>2, <1>3, <1>4, <1>5 DEF LimitsInv

\* A request is put on the list, after it was let through or refused.
LEMMA RecordRequestStep ==
    ASSUME LimitsInv, NEW c \in Clients, RecordRequest(c)
    PROVE  LimitsInv'
<1> DEFINE pc == st[c].pc
           none == conf.total = 0 /\ conf.of # "address"
           next == IF none THEN "serve"
                   ELSE CASE pc = "record refused" -> "trim refused"
                          [] conf.of = "address" /\ pc = "push" -> "expire"
                          [] OTHER -> "trim"
<1>1. /\ pc \in {"push", "push and trim", "record refused"} /\ MoveTo(c, next)
      /\ UNCHANGED <<conf, now, there, ttl, requests, notes, notified>>
      /\ IF none THEN list' = list
         ELSE list' = [list EXCEPT !["total"] = Append(@, now)]
      /\ IF pc = "record refused" THEN passed' = passed
         ELSE passed' = [passed EXCEPT !["total"] = Append(@, now)]
  BY DEF RecordRequest, IsAt, Notifying, Stored, LPush, Count
<1>2. conf.redis
  BY <1>1 DEF LimitsInv, RightPlaces, MayBeAt
<1>14. pc = "record refused" => ~none
  BY DEF LimitsInv, RightPlaces, MayBeAt
<1>3. pc = "record refused" => conf.of # "address"
  BY <1>2, NotByAddress
<1>4. \/ none /\ pc # "record refused" /\ next = "serve"
      \/ pc = "record refused" /\ next = "trim refused"
      \/ pc = "push" /\ conf.of = "address" /\ next = "expire"
      \/ pc \in {"push", "push and trim"} /\ (conf.of = "address" => pc = "push and trim") /\ next = "trim"
  BY <1>1, <1>14
<1>0. pc = "push and trim" => conf.of = "address"
  BY DEF LimitsInv, RightPlaces, MayBeAt
<1>5. MayBeAt(next)
  BY <1>1, <1>2, <1>3, <1>4 DEF MayBeAt, Places
<1> HIDE DEF next
<1>6. st' \in States /\ st'[c].pc = next /\ OnlyMoves(c, st, st')
  BY <1>1, <1>5, MoveType DEF LimitsInv
<1>7. /\ list \in [Keys -> Seq(Nat)] /\ passed \in [Keys -> Seq(Nat)] /\ ttl \in [Keys -> Nat]
      /\ now \in Nat /\ now + Life \in Nat /\ "total" \in Keys
      /\ \A key \in Keys : Timely(list[key], now) /\ Timely(passed[key], now)
  <2>1. now \in Nat /\ Life \in Nat
    BY ConfType DEF LimitsInv
  <2> QED
    BY <2>1 DEF LimitsInv, TypeOK, InOrder, Keys
<1>8. /\ Timely(Append(list["total"], now), now) /\ Timely(Append(passed["total"], now), now)
      /\ Append(list["total"], now) \in Seq(Nat) /\ Append(passed["total"], now) \in Seq(Nat)
  BY <1>7, TimelyAppend DEF Timely
<1>9. /\ list' \in [Keys -> Seq(Nat)] /\ passed' \in [Keys -> Seq(Nat)] /\ ttl' \in [Keys -> Nat]
  BY <1>1, <1>7, <1>8
<1>10. \A key \in Keys : Timely(list'[key], now) /\ Timely(passed'[key], now)
  BY <1>1, <1>7, <1>8
<1>11. \A key \in Keys \ {"total"} : list'[key] = list[key] /\ passed'[key] = passed[key] /\ ttl'[key] = ttl[key]
  BY <1>1, <1>7
<1>12. \A key \in Keys : Unused(key) => passed'[key] = passed[key]
  BY <1>11 DEF Unused
<1>13. ASSUME Live, NEW key \in Keys, InUse(key) PROVE RedisKeeps(key)'
  <2>1. KeyFacts(key)
    BY <1>1, <1>2, <1>13 DEF KeyFacts, LimitsInv
  <2>2. CASE key = "success" /\ conf.of # "address"
    <3>1. Unconcerned(key, pc, next)
      BY <1>0, <1>1, <1>4, <2>2 DEF Unconcerned, LetsNobody, ClearedPlaces, LatePlaces, LeavingPlaces
    <3> HIDE DEF pc
    <3> QED
      BY <1>1, <1>6, <1>11, <2>1, <2>2, <3>1, KeepMove DEF Unconcerned, LetsNobody, pc
  <2>3. CASE key = "total"
    <3>1. ~none
      BY <1>13, <2>3 DEF InUse, Maximum
    <3>2. list'[key] = Append(list[key], now) /\ ttl'[key] = ttl[key]
      BY <1>1, <1>7, <2>3, <3>1
    <3>3. CASE pc = "record refused"
      <4>1. passed'[key] = passed[key]
        BY <1>1, <3>3
      <4>2. /\ st[c].pc \notin ClearedPlaces(key) /\ st'[c].pc \notin ClearedPlaces(key)
            /\ st[c].pc \notin LatePlaces(key) /\ st'[c].pc \in LatePlaces(key)
            /\ st[c].pc \notin LeavingPlaces(key) /\ st'[c].pc \notin LeavingPlaces(key)
        BY <1>4, <1>6, <2>3, <3>1, <3>3 DEF ClearedPlaces, LatePlaces, LeavingPlaces
      <4> QED
        BY <1>1, <1>3, <1>6, <2>1, <3>2, <3>3, <4>1, <4>2, KeepRefused
    <3>4. CASE pc # "record refused"
      <4>1. passed'[key] = Append(passed[key], now)
        BY <1>1, <1>7, <2>3, <3>4
      <4>2. /\ st[c].pc \in ClearedPlaces(key) /\ next \notin ClearedPlaces(key)
            /\ st[c].pc \notin LatePlaces(key) /\ next # "push"
            /\ \/ next \in LatePlaces(key)
               \/ next \notin LatePlaces(key) /\ conf.of = "address" /\ st[c].pc = "push"
            /\ st[c].pc \notin LeavingPlaces(key) /\ next \in LeavingPlaces(key)
        BY <1>0, <1>1, <1>4, <2>3, <3>1, <3>4 DEF ClearedPlaces, LatePlaces, LeavingPlaces
      <4> QED
        BY <1>1, <1>6, <2>1, <3>2, <4>1, <4>2, KeepPush
    <3> QED
      BY <3>3, <3>4
  <2> QED
    BY <1>13, <2>2, <2>3, KeyCases
<1> QED
  BY <1>1, <1>2, <1>5, <1>6, <1>9, <1>10, <1>12, <1>13, InRedisStep

\* A list is trimmed, that of requests or that of successes.
LEMMA TrimStep ==
    ASSUME LimitsInv, conf.redis, UNCHANGED <<conf, now, there, ttl, requests, passed, notes, notified>>,
           NEW c \in Clients, NEW key \in Keys, list' = [list EXCEPT ![key] = Trimmed(key)],
           NEW x, MayBeAt(x), MoveTo(c, x),
           st[c].pc \in LatePlaces(key), st[c].pc \notin ClearedPlaces(key),
           x \notin ClearedPlaces(key), x # "push",
           st[c].pc \in LeavingPlaces(key) <=> x \in LeavingPlaces(key),
           \A k \in Keys \ {key} : InUse(k) => Unconcerned(k, st[c].pc, x)
    PROVE  LimitsInv'
<1>1. st' \in States /\ st'[c].pc = x /\ OnlyMoves(c, st, st')
  BY MoveType DEF LimitsInv
<1>2. /\ list \in [Keys -> Seq(Nat)] /\ passed \in [Keys -> Seq(Nat)] /\ ttl \in [Keys -> Nat]
      /\ now \in Nat /\ Maximum(key) \in Nat
      /\ \A k \in Keys : Timely(list[k], now) /\ Timely(passed[k], now)
  <2>1. now \in Nat /\ Maximum(key) \in Nat
    BY ConfType DEF LimitsInv
  <2> QED
    BY <2>1 DEF LimitsInv, TypeOK, InOrder
<1>3. Timely(Trimmed(key), now) /\ Trimmed(key) \in Seq(Nat)
  <2> DEFINE n == Len(list[key]) - Maximum(key)
  <2>1. list[key] \in Seq(Nat)
    BY <1>2
  <2>2. \/ Trimmed(key) = list[key]
        \/ n \in 0..Len(list[key]) /\ Trimmed(key) = SubSeq(list[key], n + 1, Len(list[key]))
    BY <1>2, <2>1, TrimmedType
  <2> HIDE DEF n
  <2>3. Timely(Trimmed(key), now)
    BY <1>2, <2>2, TimelyCut
  <2> QED
    BY <2>3 DEF Timely
<1>4. list' \in [Keys -> Seq(Nat)] /\ \A k \in Keys : Timely(list'[k], now)
  BY <1>2, <1>3
<1>5. ASSUME Live, NEW k \in Keys, InUse(k) PROVE RedisKeeps(k)'
  <2>1. KeyFacts(k)
    BY <1>5 DEF KeyFacts, LimitsInv
  <2>2. CASE k = key
    <3>1. list'[k] = Trimmed(k)
      BY <1>2, <2>2
    <3> QED
      BY <1>1, <2>1, <2>2, <3>1, KeepTrim
  <2>3. CASE k # key
    <3>1. list'[k] = list[k]
      BY <1>2, <2>3
    <3>2. Unconcerned(k, st[c].pc, x)
      BY <1>5, <2>3
    <3> QED
      BY <1>1, <2>1, <3>1, <3>2, KeepMove DEF Unconcerned, LetsNobody
  <2> QED
    BY <2>2, <2>3
<1> QED
  BY <1>1, <1>2, <1>4, <1>5, InRedisStep

\* The list of requests is trimmed.
LEMMA TrimRequestsStep ==
    ASSUME LimitsInv, NEW c \in Clients, TrimRequests(c)
    PROVE  LimitsInv'
<1> DEFINE x == IF st[c].pc = "trim" THEN "expire" ELSE "expire refused"
<1>1. /\ st[c].pc \in {"trim", "trim refused"} /\ MoveTo(c, x)
      /\ UNCHANGED <<conf, now, there, ttl, requests, passed, notes, notified>>
      /\ list' = [list EXCEPT !["total"] = Trimmed("total")]
  BY DEF TrimRequests, IsAt, Notifying
<1>2. conf.redis
  BY <1>1 DEF LimitsInv, RightPlaces, MayBeAt
<1>0. st[c].pc = "trim refused" => conf.of # "address"
  BY <1>2, NotByAddress
<1>3. MayBeAt(x) /\ x # "push" /\ "total" \in Keys
  <2>1. st[c].pc = "trim refused" => conf.total # 0
    BY <1>0 DEF LimitsInv, RightPlaces, MayBeAt
  <2> QED
    BY <1>0, <1>1, <1>2, <2>1 DEF MayBeAt, Places, Keys
<1>4. /\ st[c].pc \in LatePlaces("total") /\ st[c].pc \notin ClearedPlaces("total")
      /\ x \notin ClearedPlaces("total")
      /\ st[c].pc \in LeavingPlaces("total") <=> x \in LeavingPlaces("total")
  BY <1>1 DEF LatePlaces, ClearedPlaces, LeavingPlaces
<1>5. ASSUME NEW k \in Keys \ {"total"}, InUse(k) PROVE Unconcerned(k, st[c].pc, x)
  <2>1. k = "success" /\ conf.of # "address"
    BY <1>5, KeyCases
  <2> QED
    BY <1>1, <2>1 DEF Unconcerned, LetsNobody, LatePlaces, ClearedPlaces, LeavingPlaces
<1> HIDE DEF x
<1> QED
  BY <1>1, <1>2, <1>3, <1>4, <1>5, TrimStep

\* The list of successes is trimmed.
LEMMA TrimSuccessesStep ==
    ASSUME LimitsInv, NEW c \in Clients, TrimSuccesses(c)
    PROVE  LimitsInv'
<1>1. /\ st[c].pc = "trim success" /\ MoveTo(c, "expire success")
      /\ UNCHANGED <<conf, now, there, ttl, requests, passed, notes, notified>>
      /\ list' = [list EXCEPT !["success"] = Trimmed("success")]
  BY DEF TrimSuccesses, IsAt, Notifying
<1>2. conf.redis
  BY <1>1 DEF LimitsInv, RightPlaces, MayBeAt
<1>0. conf.of # "address"
  BY <1>1, <1>2, NotByAddress
<1>3. MayBeAt("expire success") /\ "success" \in Keys
  BY <1>0, <1>2 DEF MayBeAt, Places, Keys
<1>4. /\ st[c].pc \in LatePlaces("success") /\ st[c].pc \notin ClearedPlaces("success")
      /\ "expire success" \notin ClearedPlaces("success")
      /\ st[c].pc \in LeavingPlaces("success") <=> "expire success" \in LeavingPlaces("success")
  BY <1>1 DEF LatePlaces, ClearedPlaces, LeavingPlaces
<1>5. \A k \in Keys \ {"success"} : Unconcerned(k, st[c].pc, "expire success")
  BY <1>1 DEF Unconcerned, LetsNobody, LatePlaces, ClearedPlaces, LeavingPlaces
<1> QED
  BY <1>1, <1>2, <1>3, <1>4, <1>5, TrimStep

\* A success is recorded.
LEMMA RecordSuccessStep ==
    ASSUME LimitsInv, NEW c \in Clients, RecordSuccess(c)
    PROVE  LimitsInv'
<1> DEFINE x == IF conf.success = 0 THEN "idle" ELSE "trim success"
<1>1. /\ st[c].pc = "serve" /\ conf.redis /\ MoveTo(c, x)
      /\ UNCHANGED <<conf, now, there, ttl, requests, notes, notified>>
      /\ IF conf.success = 0 THEN list' = list
         ELSE list' = [list EXCEPT !["success"] = Append(@, now)]
      /\ passed' = [passed EXCEPT !["success"] = Append(@, now)]
  BY DEF RecordSuccess, IsAt, Notifying, Stored, LPush, Count
<1>2. conf.of # "address"
  BY <1>1, NotByAddress
<1>3. MayBeAt(x)
  BY <1>1, <1>2 DEF MayBeAt, Places
<1>4. st' \in States /\ st'[c].pc = x /\ OnlyMoves(c, st, st')
  <2> HIDE DEF x
  <2> QED
    BY <1>1, <1>3, MoveType DEF LimitsInv
<1>5. /\ list \in [Keys -> Seq(Nat)] /\ passed \in [Keys -> Seq(Nat)] /\ ttl \in [Keys -> Nat]
      /\ now \in Nat /\ now + Life \in Nat /\ "success" \in Keys
      /\ \A key \in Keys : Timely(list[key], now) /\ Timely(passed[key], now)
  <2>1. now \in Nat /\ Life \in Nat
    BY ConfType DEF LimitsInv
  <2> QED
    BY <2>1 DEF LimitsInv, TypeOK, InOrder, Keys
<1>6. /\ Timely(Append(list["success"], now), now) /\ Timely(Append(passed["success"], now), now)
      /\ Append(list["success"], now) \in Seq(Nat) /\ Append(passed["success"], now) \in Seq(Nat)
  BY <1>5, TimelyAppend DEF Timely
<1>7. /\ list' \in [Keys -> Seq(Nat)] /\ passed' \in [Keys -> Seq(Nat)] /\ ttl' \in [Keys -> Nat]
  BY <1>1, <1>5, <1>6
<1>8. \A key \in Keys : Timely(list'[key], now) /\ Timely(passed'[key], now)
  BY <1>1, <1>5, <1>6
<1>9. \A key \in Keys \ {"success"} : list'[key] = list[key] /\ passed'[key] = passed[key] /\ ttl'[key] = ttl[key]
  BY <1>1, <1>5
<1>10. \A key \in Keys : Unused(key) => passed'[key] = passed[key]
  BY <1>2, <1>9 DEF Unused
<1>11. ASSUME Live, NEW key \in Keys, InUse(key) PROVE RedisKeeps(key)'
  <2>1. KeyFacts(key)
    BY <1>1, <1>11 DEF KeyFacts, LimitsInv
  <2>2. CASE key = "total"
    <3>1. Unconcerned(key, "serve", x)
      BY <1>2, <2>2 DEF Unconcerned, LetsNobody, ClearedPlaces, LatePlaces, LeavingPlaces
    <3> HIDE DEF x
    <3> QED
      BY <1>1, <1>4, <1>9, <2>1, <2>2, <3>1, KeepMove DEF Unconcerned, LetsNobody
  <2>3. CASE key = "success"
    <3>1. conf.success # 0
      BY <1>11, <2>3 DEF InUse, Maximum
    <3>2. /\ list'[key] = Append(list[key], now) /\ ttl'[key] = ttl[key]
          /\ passed'[key] = Append(passed[key], now)
      BY <1>1, <1>5, <2>3, <3>1
    <3>3. /\ st[c].pc \in ClearedPlaces(key) /\ x \notin ClearedPlaces(key)
          /\ st[c].pc \notin LatePlaces(key) /\ x # "push" /\ x \in LatePlaces(key)
          /\ st[c].pc \notin LeavingPlaces(key) /\ x \in LeavingPlaces(key)
      BY <1>1, <2>3, <3>1 DEF ClearedPlaces, LatePlaces, LeavingPlaces
    <3> HIDE DEF x
    <3> QED
      BY <1>1, <1>4, <2>1, <3>2, <3>3, KeepPush
  <2> QED
    BY <1>11, <2>2, <2>3, KeyCases
<1> HIDE DEF x
<1> QED
  BY <1>1, <1>3, <1>4, <1>7, <1>8, <1>10, <1>11, InRedisStep

\* The expiry of a list is set, and a request moves on.
LEMMA ExpireStep ==
    ASSUME LimitsInv, conf.redis, UNCHANGED <<conf, now, list, there, requests, passed, notes, notified>>,
           NEW c \in Clients, NEW key \in Keys, Expire(key),
           NEW x, MayBeAt(x), MoveTo(c, x), LetsNobody(key, st[c].pc, x),
           \A k \in Keys \ {key} : InUse(k) => Unconcerned(k, st[c].pc, x)
    PROVE  LimitsInv'
<1>1. st' \in States /\ st'[c].pc = x /\ OnlyMoves(c, st, st')
  BY MoveType DEF LimitsInv
<1>2. ttl \in [Keys -> Nat] /\ now + Life \in Nat
  <2>1. now \in Nat /\ Life \in Nat
    BY ConfType DEF LimitsInv
  <2> QED
    BY <2>1 DEF LimitsInv, TypeOK
<1>3. ttl' = [ttl EXCEPT ![key] = IF list[key] = <<>> THEN ttl[key] ELSE now + Life]
  BY DEF Expire
<1>4. ttl' \in [Keys -> Nat] /\ \A k \in Keys \ {key} : ttl'[k] = ttl[k]
  BY <1>2, <1>3
<1>5. Renews(key, st[c].pc, x)
  BY <1>2, <1>3 DEF Renews
<1>6. requests' \in 0..MaxRequests /\ notes' \in Nat /\ notified' \in Nat
  BY Counters DEF LimitsInv
<1> QED
  BY <1>1, <1>4, <1>5, <1>6, QuietStep

\* The expiry of the list of requests.
LEMMA ExpireRequestsStep ==
    ASSUME LimitsInv, NEW c \in Clients, ExpireRequests(c)
    PROVE  LimitsInv'
<1> DEFINE pc == st[c].pc
           x == CASE pc = "expire" /\ conf.of # "address" -> "serve"
                  [] pc = "keep refused" -> "refused"
                  [] OTHER -> "idle"
<1>1. /\ pc \in {"expire", "expire refused", "keep", "keep refused"} /\ MoveTo(c, x)
      /\ UNCHANGED <<conf, now, list, there, requests, passed, notes, notified>> /\ Expire("total")
  BY DEF ExpireRequests, IsAt, Notifying
<1>2. conf.redis
  BY <1>1 DEF LimitsInv, RightPlaces, MayBeAt
<1>3. pc = "keep refused" => conf.of # "address"
  BY <1>2, NotByAddress
<1>4. MayBeAt(x) /\ "total" \in Keys
  <2>1. pc = "keep refused" => conf.total # 0
    BY <1>3 DEF LimitsInv, RightPlaces, MayBeAt
  <2> QED
    BY <1>1, <1>2, <1>3, <2>1 DEF MayBeAt, Places, Keys
<1>5. LetsNobody("total", pc, x)
  BY <1>1 DEF LetsNobody, LatePlaces, ClearedPlaces
<1>6. ASSUME NEW k \in Keys \ {"total"}, InUse(k) PROVE Unconcerned(k, pc, x)
  <2>1. k = "success" /\ conf.of # "address"
    BY <1>6, KeyCases
  <2> QED
    BY <1>1, <2>1 DEF Unconcerned, LetsNobody, LatePlaces, ClearedPlaces, LeavingPlaces
<1> HIDE DEF x
<1> QED
  BY <1>1, <1>2, <1>4, <1>5, <1>6, ExpireStep

\* The expiry of the list of successes.
LEMMA ExpireSuccessesStep ==
    ASSUME LimitsInv, NEW c \in Clients, ExpireSuccesses(c)
    PROVE  LimitsInv'
<1>1. /\ st[c].pc \in {"expire success", "keep success"} /\ MoveTo(c, "idle")
      /\ UNCHANGED <<conf, now, list, there, requests, passed, notes, notified>> /\ Expire("success")
  BY DEF ExpireSuccesses, IsAt, Notifying
<1>2. conf.redis
  BY <1>1 DEF LimitsInv, RightPlaces, MayBeAt
<1>3. MayBeAt("idle") /\ "success" \in Keys
  BY DEF MayBeAt, Places, Keys
<1>4. LetsNobody("success", st[c].pc, "idle")
  BY <1>1 DEF LetsNobody, LatePlaces, ClearedPlaces
<1>5. \A k \in Keys \ {"success"} : Unconcerned(k, st[c].pc, "idle")
  BY <1>1 DEF Unconcerned, LetsNobody, LatePlaces, ClearedPlaces, LeavingPlaces
<1> QED
  BY <1>1, <1>2, <1>3, <1>4, <1>5, ExpireStep

\* The notifications leave the limiter alone.
LEMMA NotificationStep ==
    ASSUME LimitsInv, NEW c \in Clients, Notification(c)
    PROVE  LimitsInv'
<1>1. CASE CheckNotificationLimit(c)
  <2> DEFINE x == IF conf.redis THEN "redis note" ELSE "note"
  <2>1. /\ st[c].pc = "idle" /\ requests < MaxRequests /\ requests' = requests + 1 /\ conf.of = "note"
        /\ st' = [st EXCEPT ![c] = [pc |-> x, seen |-> notes]]
        /\ UNCHANGED <<conf, now, list, there, ttl, passed, notes, notified>>
    BY <1>1 DEF CheckNotificationLimit, Job, IsAt, Stored, Notifying
  <2>2. MayBeAt(x)
    BY <2>1 DEF MayBeAt, Places
  <2>3. st' \in States /\ st'[c].pc = x /\ OnlyMoves(c, st, st')
    <3>1. st \in States /\ notes \in Nat /\ x \in Places
      BY <2>2 DEF LimitsInv, TypeOK, States, MayBeAt
    <3> HIDE DEF x
    <3> QED
      BY <2>1, <3>1 DEF States, OnlyMoves
  <2>4. \A key \in Keys : Unconcerned(key, "idle", x)
    BY DEF Unconcerned, LetsNobody, ClearedPlaces, LatePlaces, LeavingPlaces
  <2> HIDE DEF x
  <2> QED
    BY <2>1, <2>2, <2>3, <2>4, QuietStep, Counters DEF LimitsInv
<1>2. CASE CheckMemoryLimit(c) \/ CheckRedisLimit(c)
  <2>1. /\ st[c].pc \in {"note", "redis note"} /\ st' = [st EXCEPT ![c] = Idle]
        /\ UNCHANGED <<conf, now, list, there, ttl, requests, passed>>
        /\ notes' \in {st[c].seen + 1, 1, notes + 1, notes} /\ notified' \in {notified, notified + 1}
    BY <1>2 DEF CheckMemoryLimit, CheckRedisLimit, IsAt, Stored, Sent
  <2>2. MayBeAt("idle")
    BY DEF MayBeAt, Places
  <2>3. st' \in States /\ st'[c].pc = "idle" /\ OnlyMoves(c, st, st')
    <3>1. st \in States
      BY DEF LimitsInv, TypeOK, States
    <3> QED
      BY <2>1, <3>1 DEF States, OnlyMoves, Idle, Places
  <2>4. \A key \in Keys : Unconcerned(key, st[c].pc, "idle")
    BY <2>1 DEF Unconcerned, LetsNobody, ClearedPlaces, LatePlaces, LeavingPlaces
  <2>5. notes' \in Nat /\ notified' \in Nat /\ requests' \in 0..MaxRequests /\ ttl' \in [Keys -> Nat]
    <3>1. /\ notes \in Nat /\ notified \in Nat /\ requests \in 0..MaxRequests /\ ttl \in [Keys -> Nat]
          /\ st[c].seen \in Nat
      BY Counters DEF LimitsInv
    <3>2. st[c].seen + 1 \in Nat /\ 1 \in Nat /\ notes + 1 \in Nat /\ notified + 1 \in Nat
      BY <3>1
    <3> QED
      BY <2>1, <3>1, <3>2
  <2> QED
    BY <2>1, <2>2, <2>3, <2>4, <2>5, QuietStep
<1> QED
  BY <1>1, <1>2 DEF Notification

\* What Request does to the list when it lets a request pass.
LEMMA QueuedCases ==
    ASSUME LimitsInv, ~conf.redis, NEW key \in Keys, Passes(key, Maximum(key))
    PROVE  \/ /\ Queued(key, Maximum(key)) = Append(list[key], now)
              /\ list[key] = <<>> \/ Len(list[key]) < Maximum(key)
           \/ /\ list[key] # <<>> /\ Old(Head(list[key]), conf.period, now)
              /\ Queued(key, Maximum(key)) = Append(Tail(list[key]), now)
<1> DEFINE q == list[key]
           m == Maximum(key)
<1>1. q \in Seq(Nat) /\ now \in Nat /\ m \in Nat /\ conf.period \in Nat
  BY ConfType DEF LimitsInv, TypeOK
<1>2. key \in there <=> q # <<>>
  BY DEF LimitsInv, Present
<1>3. key \notin there \/ Len(q) < m \/ now - Head(q) >= conf.period
  BY DEF Passes
<1>4. Queued(key, m) = IF key \notin there THEN <<now>>
                       ELSE IF Len(q) < m THEN Append(q, now) ELSE Append(Tail(q), now)
  BY DEF Queued
<1>5. CASE key \notin there
  <2>1. <<now>> = Append(<<>>, now)
    BY <1>1
  <2> QED
    BY <1>2, <1>4, <1>5, <2>1
<1>6. CASE key \in there /\ Len(q) < m
  BY <1>4, <1>6
<1>7. CASE key \in there /\ ~(Len(q) < m)
  <2>1. q # <<>> /\ now - Head(q) >= conf.period /\ Queued(key, m) = Append(Tail(q), now)
    BY <1>2, <1>3, <1>4, <1>7
  <2>2. Old(Head(q), conf.period, now)
    <3> DEFINE x == Head(q)
    <3>1. x \in Nat /\ now - x >= conf.period
      BY <1>1, <2>1
    <3> HIDE DEF x
    <3>2. x + conf.period <= now
      BY <1>1, <3>1
    <3> QED
      BY <3>2 DEF Old, x
  <2> QED
    BY <2>1, <2>2
<1> QED
  BY <1>5, <1>6, <1>7

\* A request that passes is counted, in memory.
LEMMA PassStep ==
    ASSUME LimitsInv, ~conf.redis, UNCHANGED <<conf, now, ttl, notes, notified>>, requests' \in 0..MaxRequests,
           NEW c \in Clients, NEW x, MayBeAt(x), MoveTo(c, x),
           NEW key \in Keys, Passes(key, Maximum(key)),
           list' = [list EXCEPT ![key] = Queued(key, Maximum(key))],
           there' = there \cup {key}, passed' = [passed EXCEPT ![key] = Append(@, now)]
    PROVE  LimitsInv'
<1> DEFINE q == list[key]
           p == passed[key]
           s == Queued(key, Maximum(key))
           m == Maximum(key)
           M == Most(key)
           w == conf.period
<1>1. st' \in States /\ OnlyMoves(c, st, st') /\ MayBeAt(st'[c].pc)
  BY MoveType DEF LimitsInv
<1>2. /\ list \in [Keys -> Seq(Nat)] /\ passed \in [Keys -> Seq(Nat)]
      /\ \A k \in Keys : Timely(list[k], now) /\ Timely(passed[k], now)
      /\ there \subseteq Keys
  BY DEF LimitsInv, TypeOK, InOrder
<1>3. now \in Nat /\ m \in Nat /\ w \in Nat /\ M \in Nat \ {0} /\ m <= M
  BY ConfType, MostType DEF LimitsInv
<1>4. \/ s = Append(q, now) /\ (q = <<>> \/ Len(q) < m)
      \/ q # <<>> /\ Old(Head(q), w, now) /\ s = Append(Tail(q), now)
  BY QueuedCases
<1>5. Timely(q, now) /\ Timely(p, now) /\ q \in Seq(Nat) /\ p \in Seq(Nat)
  BY <1>2
<1>6. /\ list' = [list EXCEPT ![key] = s] /\ passed' = [passed EXCEPT ![key] = Append(p, now)]
      /\ list'[key] = s /\ passed'[key] = Append(p, now)
      /\ \A k \in Keys \ {key} : list'[k] = list[k] /\ passed'[k] = passed[k]
  BY <1>2
<1>7. Live => Stores(q, p, now, M, w)
  BY DEF LimitsInv, MemoryKeeps
<1> HIDE DEF q, p, s, m, M, w
<1>8. /\ Timely(s, now) /\ s \in Seq(Nat) /\ s # <<>>
      /\ Live => Stores(s, Append(p, now), now, M, w)
  <2>1. CASE s = Append(q, now) /\ (q = <<>> \/ Len(q) < m)
    <3>1. Timely(s, now)
      BY <1>3, <1>5, <2>1, TimelyAppend
    <3>2. s \in Seq(Nat) /\ Len(s) = Len(q) + 1 /\ Len(q) \in Nat
      BY <1>3, <1>5, <2>1, AppendEntries
    <3>3. s # <<>>
      BY <3>2
    <3>4. Len(q) <= M - 1
      <4>1. q = <<>> => Len(q) = 0
        OBVIOUS
      <4> QED
        BY <1>3, <2>1, <3>2, <4>1
    <3>5. ASSUME Live PROVE Stores(s, Append(p, now), now, M, w)
      BY <1>3, <1>5, <1>7, <2>1, <3>4, <3>5, StoresPush DEF Stores, Timely
    <3> QED
      BY <3>1, <3>2, <3>3, <3>5
  <2>2. CASE q # <<>> /\ Old(Head(q), w, now) /\ s = Append(Tail(q), now)
    <3> DEFINE r == Tail(q)
    <3>1. r \in Seq(Nat) /\ Len(q) \in Nat \ {0} /\ Len(r) = Len(q) - 1
      BY <1>5, <2>2, TailEntries
    <3>2. Timely(r, now)
      BY <1>3, <1>5, <2>2, TimelyTail
    <3>3. Live => EndOf(r, p) /\ RecentAtMost(p, Len(q) - 1, w, now) /\ Len(q) <= M /\ Spaced(p, M, w)
      BY <1>3, <1>5, <1>7, <2>2, EndOfTail, EndOfOld DEF Stores
    <3> HIDE DEF r
    <3>4. Timely(Append(r, now), now)
      BY <1>3, <3>2, TimelyAppend
    <3>5. Append(r, now) \in Seq(Nat) /\ Len(Append(r, now)) = Len(r) + 1
      BY <1>3, <3>1, AppendEntries
    <3>6. Append(r, now) # <<>>
      BY <3>1, <3>5
    <3>7. ASSUME Live PROVE Stores(Append(r, now), Append(p, now), now, M, w)
      <4>1. Len(r) <= M - 1
        BY <1>3, <3>1, <3>3, <3>7
      <4>2. RecentAtMost(p, Len(r), w, now)
        BY <3>1, <3>3, <3>7
      <4> QED
        BY <1>3, <1>5, <3>1, <3>3, <3>7, <4>1, <4>2, StoresPush DEF Timely
    <3> QED
      BY <2>2, <3>4, <3>5, <3>6, <3>7 DEF r
  <2> QED
    BY <1>4, <2>1, <2>2
<1>9. Timely(Append(p, now), now) /\ Append(p, now) \in Seq(Nat)
  BY <1>3, <1>5, TimelyAppend DEF Timely
<1>10. TypeOK'
  <2>1. list' \in [Keys -> Seq(Nat)] /\ passed' \in [Keys -> Seq(Nat)] /\ there' \subseteq Keys
    BY <1>2, <1>6, <1>8, <1>9
  <2> QED
    BY <1>1, <2>1 DEF LimitsInv, TypeOK, States
<1>11. InOrder'
  BY <1>2, <1>6, <1>8, <1>9 DEF InOrder
<1>12. Present'
  <2>1. \A k \in Keys : k \in there' <=> list'[k] # <<>>
    BY <1>6, <1>8 DEF LimitsInv, Present
  <2> QED
    BY <2>1 DEF Present
<1>13. RightPlaces'
  BY <1>1, MoveRight DEF LimitsInv
<1>14. ASSUME Live', NEW k \in Keys PROVE MemoryKeeps(k)'
  <2>1. Live /\ Most(k)' = Most(k)
    BY <1>14, ConfNext
  <2>2. Stores(list'[k], passed'[k], now, Most(k), conf.period)
    <3>1. CASE k = key
      BY <1>6, <1>8, <2>1, <3>1 DEF M, w
    <3>2. CASE k # key
      BY <1>6, <2>1, <3>2 DEF LimitsInv, MemoryKeeps
    <3> QED
      BY <3>1, <3>2
  <2> QED
    BY <2>1, <2>2 DEF MemoryKeeps
<1> QED
  BY <1>10, <1>11, <1>12, <1>13, <1>14 DEF LimitsInv

\* A request is checked and counted, in memory.
LEMMA RequestStep ==
    ASSUME LimitsInv, ~conf.redis, UNCHANGED <<conf, now, notes, notified>>, requests' \in 0..MaxRequests,
           NEW c \in Clients, NEW key \in Keys, NEW ok \in BOOLEAN, NEW yes, MayBeAt(yes), NEW no, MayBeAt(no),
           Request(key, ok, c, yes, no)
    PROVE  LimitsInv'
<1>1. CASE ok
  BY <1>1, PassStep DEF Request, Count
<1>2. CASE ~ok
  <2>1. UNCHANGED <<list, there, passed, ttl>> /\ MoveTo(c, no)
    BY <1>2 DEF Request
  <2>2. st' \in States /\ st'[c].pc = no /\ OnlyMoves(c, st, st')
    BY <2>1, MoveType DEF LimitsInv
  <2> QED
    BY <2>1, <2>2, QuietStep, Counters DEF LimitsInv
<1> QED
  BY <1>1, <1>2

\* The limiters in memory.
LEMMA InMemoryStep ==
    ASSUME LimitsInv, NEW c \in Clients, InMemory(c)
    PROVE  LimitsInv'
<1>0. /\ MayBeAt("idle") /\ (MayBeAt("serve") \/ conf.redis)
      /\ "total" \in Keys /\ CheckKey \in Keys /\ "success" \in Keys
      /\ requests \in 0..MaxRequests /\ (requests < MaxRequests => requests + 1 \in 0..MaxRequests)
  BY Counters DEF LimitsInv, MayBeAt, Places, Keys, CheckKey
<1>1. CASE MemoryTotal(c)
  <2>1. /\ st[c].pc = "idle" /\ requests < MaxRequests /\ requests' = requests + 1 /\ ~conf.redis
        /\ UNCHANGED <<conf, now, notes, notified>>
        /\ \/ MoveTo(c, AfterTotal) /\ UNCHANGED <<list, there, ttl, passed>>
           \/ \E ok \in BOOLEAN : Request("total", ok, c, AfterTotal, "idle")
    BY <1>1 DEF MemoryTotal, Job, IsAt, Stored, Notifying
  <2>2. MayBeAt(AfterTotal)
    BY <2>1 DEF MayBeAt, Places, AfterTotal
  <2>3. requests' \in 0..MaxRequests
    BY <1>0, <2>1
  <2>4. CASE MoveTo(c, AfterTotal) /\ UNCHANGED <<list, there, ttl, passed>>
    <3>1. st' \in States /\ st'[c].pc = AfterTotal /\ OnlyMoves(c, st, st')
      BY <2>2, <2>4, MoveType DEF LimitsInv
    <3> QED
      BY <2>1, <2>2, <2>3, <2>4, <3>1, QuietStep, Counters DEF LimitsInv
  <2>5. CASE \E ok \in BOOLEAN : Request("total", ok, c, AfterTotal, "idle")
    BY <1>0, <2>1, <2>2, <2>3, <2>5, RequestStep
  <2> QED
    BY <2>1, <2>4, <2>5
<1>2. CASE MemorySuccess(c)
  <2>1. /\ ~conf.redis /\ UNCHANGED <<conf, now, requests, notes, notified>>
        /\ \E ok \in BOOLEAN : Request(CheckKey, ok, c, "serve", "idle")
    BY <1>2 DEF MemorySuccess, Notifying
  <2> QED
    BY <1>0, <2>1, RequestStep
<1>3. CASE MemoryRecord(c)
  <2>1. /\ ~conf.redis /\ UNCHANGED <<conf, now, requests, notes, notified>>
        /\ \E ok \in BOOLEAN : Request("success", ok, c, "idle", "idle")
    BY <1>3 DEF MemoryRecord, Notifying
  <2> QED
    BY <1>0, <2>1, RequestStep
<1> QED
  BY <1>1, <1>2, <1>3 DEF InMemory

\* What nobody has used for the expiry goes, and is not recent.
LEMMA ClearStep ==
    ASSUME LimitsInv, ClearExpiredItems
    PROVE  LimitsInv'
<1> DEFINE old == {k \in there : now - list[k][Len(list[k])] > Expiry}
<1>1. /\ ~conf.redis /\ there' = there \ old
      /\ list' = [k \in Keys |-> IF k \in old THEN <<>> ELSE list[k]]
      /\ UNCHANGED <<conf, now, ttl, st, requests, passed, notes, notified>>
  BY DEF ClearExpiredItems, Notifying
<1>2. /\ list \in [Keys -> Seq(Nat)] /\ passed \in [Keys -> Seq(Nat)]
      /\ \A k \in Keys : Timely(list[k], now) /\ Timely(passed[k], now)
      /\ there \subseteq Keys /\ \A k \in Keys : k \in there <=> list[k] # <<>>
  BY <1>1 DEF LimitsInv, TypeOK, InOrder, Present
<1>3. now \in Nat /\ Expiry \in Nat /\ conf.period \in Nat
  BY ConfType DEF LimitsInv
<1>4. <<>> \in Seq(Nat) /\ Timely(<<>>, now)
  BY DEF Timely, Sorted
<1>5. TypeOK'
  <2>1. list' \in [Keys -> Seq(Nat)] /\ there' \subseteq Keys
    BY <1>1, <1>2, <1>4
  <2> HIDE DEF old
  <2> QED
    BY <1>1, <2>1 DEF LimitsInv, TypeOK
<1>6. InOrder'
  <2> HIDE DEF old
  <2> QED
    BY <1>1, <1>2, <1>4 DEF InOrder
<1>7. Present'
  <2>1. \A k \in Keys : k \in there' <=> list'[k] # <<>>
    <3> HIDE DEF old
    <3> QED
      BY <1>1, <1>2
  <2> QED
    BY <2>1 DEF Present
<1>8. RightPlaces'
  <2> HIDE DEF old
  <2> QED
    BY <1>1 DEF LimitsInv, RightPlaces, MayBeAt
<1>9. ASSUME Live', NEW k \in Keys PROVE MemoryKeeps(k)'
  <2>1. Live /\ Most(k)' = Most(k)
    BY <1>1, <1>9, ConfNext
  <2>2. Stores(list[k], passed[k], now, Most(k), conf.period)
    BY <1>1, <2>1 DEF LimitsInv, MemoryKeeps
  <2>3. CASE k \in old
    <3> DEFINE q == list[k]
               p == passed[k]
               w == conf.period
    <3>1. q # <<>> /\ now - q[Len(q)] > Expiry /\ q \in Seq(Nat) /\ p \in Seq(Nat)
      BY <1>2, <2>3
    <3>2. q[Len(q)] \in Nat
      <4>1. Len(q) \in 1..Len(q)
        BY <3>1, TailEntries
      <4> QED
        BY <3>1, <4>1, EntryType
    <3>3. Old(q[Len(q)], w, now)
      <4> DEFINE x == q[Len(q)]
      <4>1. x \in Nat /\ now - x > Expiry /\ w <= Expiry /\ w \in Nat
        BY <1>3, <2>1, <3>1, <3>2 DEF Live
      <4> HIDE DEF x, w
      <4>2. x + w <= now
        BY <1>3, <4>1
      <4> QED
        BY <4>2 DEF Old, x
    <3>4. EndOf(q, p) /\ Spaced(p, Most(k), w)
      BY <2>2 DEF Stores
    <3>5. RecentAtMost(p, 0, w, now)
      <4> HIDE DEF q, p, w
      <4>1. w \in Nat
        BY <1>3 DEF w
      <4> QED
        BY <1>3, <3>1, <3>3, <3>4, <4>1, EndOfOld
    <3>6. Len(<<>>) = 0 /\ Len(p) \in Nat
      BY <3>1, EntryType
    <3>7. Most(k) \in Nat
      BY <1>1, MostType DEF LimitsInv
    <3>8. Stores(<<>>, p, now, Most(k), w)
      <4> HIDE DEF q, p, w
      <4> QED
        BY <3>4, <3>5, <3>6, <3>7 DEF Stores, EndOf
    <3>9. list'[k] = <<>> /\ passed'[k] = p
      BY <1>1, <2>3
    <3> QED
      BY <1>1, <2>1, <3>8, <3>9 DEF MemoryKeeps
  <2>4. CASE k \notin old
    <3>1. list'[k] = list[k] /\ passed'[k] = passed[k]
      BY <1>1, <2>4
    <3> HIDE DEF old
    <3> QED
      BY <1>1, <2>1, <2>2, <3>1 DEF MemoryKeeps
  <2> QED
    BY <2>3, <2>4
<1> HIDE DEF old
<1> QED
  BY <1>1, <1>5, <1>6, <1>7, <1>8, <1>9 DEF LimitsInv

\* Time goes by.
LEMMA TickStep ==
    ASSUME LimitsInv, Tick
    PROVE  LimitsInv'
<1> DEFINE over == {k \in Keys : conf.redis /\ ttl[k] # 0 /\ ttl[k] <= now + 1}
<1>1. /\ now < MaxTime /\ now' = now + 1
      /\ list' = [k \in Keys |-> IF k \in over THEN <<>> ELSE list[k]]
      /\ ttl' = [k \in Keys |-> IF k \in over THEN 0 ELSE ttl[k]]
      /\ UNCHANGED <<conf, there, st, requests, passed, notes, notified>>
  BY DEF Tick, Notifying
<1>0. ~conf.redis => list' = list
  <2>1. list \in [Keys -> Seq(Nat)]
    BY DEF LimitsInv, TypeOK
  <2> QED
    BY <1>1, <2>1
<1>2. /\ list \in [Keys -> Seq(Nat)] /\ ttl \in [Keys -> Nat] /\ passed \in [Keys -> Seq(Nat)]
      /\ \A k \in Keys : Timely(list[k], now) /\ Timely(passed[k], now)
      /\ now \in Nat /\ now + 1 \in Ticks /\ now + 1 \in Nat /\ now <= now + 1
  BY <1>1 DEF LimitsInv, TypeOK, InOrder, LimitsAssumption, Ticks
<1>3. \A k \in Keys : Timely(list'[k], now + 1) /\ Timely(passed'[k], now + 1)
  <2>1. \A k \in Keys : /\ Timely(list[k], now + 1) /\ Timely(<<>>, now + 1)
                        /\ Timely(passed[k], now + 1)
    BY <1>2, TimelyLater
  <2> HIDE DEF over
  <2> QED
    BY <1>1, <2>1
<1>4. TypeOK'
  <2>1. <<>> \in Seq(Nat)
    OBVIOUS
  <2>2. list' \in [Keys -> Seq(Nat)] /\ ttl' \in [Keys -> Nat]
    <3> HIDE DEF over
    <3> QED
      BY <1>1, <1>2, <2>1
  <2> QED
    BY <1>1, <1>2, <2>2 DEF LimitsInv, TypeOK
<1>5. InOrder'
  BY <1>1, <1>3 DEF InOrder
<1>6. Present'
  BY <1>0, <1>1 DEF LimitsInv, Present
<1>7. RightPlaces'
  BY <1>1 DEF LimitsInv, RightPlaces, MayBeAt
<1>8. ASSUME (Live /\ ~conf.redis)', NEW k \in Keys PROVE MemoryKeeps(k)'
  <2>1. Live /\ ~conf.redis /\ Most(k)' = Most(k)
    BY <1>1, <1>8, ConfNext
  <2>2. Stores(list[k], passed[k], now, Most(k), conf.period)
    BY <2>1 DEF LimitsInv, MemoryKeeps
  <2>3. Most(k) \in Nat /\ conf.period \in Nat
    BY <2>1, MostType, ConfType DEF LimitsInv
  <2>4. Stores(list[k], passed[k], now + 1, Most(k), conf.period)
    BY <1>2, <2>2, <2>3, StoresLater DEF Timely
  <2> QED
    BY <1>0, <1>1, <2>1, <2>4 DEF MemoryKeeps
<1>9. ASSUME (Live /\ conf.redis)', NEW k \in Keys, InUse(k)' PROVE RedisKeeps(k)'
  <2>1. conf.redis /\ KeyFacts(k)
    BY <1>1, <1>9, ConfNext, RedisNext DEF LimitsInv, KeyFacts
  <2>2. IF ttl[k] # 0 /\ ttl[k] <= now + 1 THEN list'[k] = <<>> /\ ttl'[k] = 0
                                          ELSE list'[k] = list[k] /\ ttl'[k] = ttl[k]
    BY <1>1, <2>1
  <2> QED
    BY <1>1, <2>1, <2>2, KeepTick
<1>10. conf.redis' => \A k \in Keys : Unused(k)' => passed'[k] = <<>>
  BY <1>1 DEF LimitsInv, Unused
<1> QED
  BY <1>4, <1>5, <1>6, <1>7, <1>8, <1>9, <1>10 DEF LimitsInv

\* Nothing has happened yet.
LEMMA LimitsStart == LimitsInit => LimitsInv
<1> SUFFICES ASSUME LimitsInit PROVE LimitsInv
  OBVIOUS
<1>1. /\ conf \in Configs /\ conf \in Config /\ now = 0 /\ there = {}
      /\ \A k \in Keys : list[k] = <<>> /\ passed[k] = <<>> /\ ttl[k] = 0
      /\ \A c \in Clients : st[c].pc = "idle"
  BY DEF LimitsInit, LimitsAssumption, Idle
<1>2. TypeOK
  <2>1. <<>> \in Seq(Nat) /\ 0 \in 0..MaxTime /\ 0 \in 0..MaxRequests
    BY DEF LimitsAssumption
  <2>2. list \in [Keys -> Seq(Nat)] /\ passed \in [Keys -> Seq(Nat)] /\ ttl \in [Keys -> Nat]
    BY <2>1 DEF LimitsInit
  <2>3. st \in [Clients -> [pc : Places, seen : Nat]]
    BY DEF LimitsInit, Idle, Places
  <2> QED
    BY <2>1, <2>2, <2>3 DEF LimitsInit, TypeOK, Ticks
<1>3. InOrder /\ Present
  <2>1. Timely(<<>>, now)
    BY DEF Timely, Sorted
  <2> QED
    BY <1>1, <2>1 DEF InOrder, Present
<1>4. RightPlaces
  BY <1>1 DEF RightPlaces, MayBeAt, Places
<1>5. Len(<<>>) = 0
  OBVIOUS
<1>6. \A m, w : Spaced(<<>>, m, w)
  BY DEF Spaced
<1>7. ASSUME Live, ~conf.redis, NEW k \in Keys PROVE MemoryKeeps(k)
  <2>1. Most(k) \in Nat
    BY <1>2, <1>7, MostType
  <2>2. Stores(<<>>, <<>>, now, Most(k), conf.period)
    BY <1>5, <1>6, <2>1 DEF Stores, EndOf, RecentAtMost
  <2> QED
    BY <1>1, <2>2 DEF MemoryKeeps
<1>8. ASSUME Live, conf.redis, NEW k \in Keys, InUse(k) PROVE RedisKeeps(k)
  <2> DEFINE m == Maximum(k)
             M == Within(k)
             w == conf.period
             L == Life
             top == m + 2 * Crowd - 1
  <2>1. m \in Nat /\ m > 0 /\ Crowd \in Nat \ {0} /\ M \in Nat
    <3>1. m \in Nat /\ m > 0
      BY <1>2, <1>8, ConfType DEF InUse
    <3> HIDE DEF m, M
    <3> QED
      BY <1>2, <1>8, <3>1, MostType, CrowdType DEF m, M
  <2>2. /\ Size(st, ClearedPlaces(k)) = 0 /\ Size(st, {"push"}) = 0 /\ Size(st, LatePlaces(k)) = 0
        /\ Size(st, LeavingPlaces(k)) = 0
    <3>1. /\ Where(st, ClearedPlaces(k)) = {} /\ Where(st, {"push"}) = {} /\ Where(st, LatePlaces(k)) = {}
          /\ Where(st, LeavingPlaces(k)) = {}
      BY <1>1 DEF Where, ClearedPlaces, LatePlaces, LeavingPlaces
    <3> QED
      BY <3>1, FS_EmptySet DEF Size
  <2>3. Fits(k, <<>>, st)
    <3> HIDE DEF m
    <3>1. 0 + 0 <= m - 1 + Crowd + 0 /\ 0 <= m + 0
      BY <2>1
    <3> QED
      BY <1>5, <2>2, <3>1 DEF Fits, m
  <2>4. Since(<<>>, <<>>, <<>>, 0, 0, m, M, w)
    <3> HIDE DEF m, M, w
    <3> QED
      BY <1>5, <2>1 DEF Since, EndOf, Covers, RecentAtMost
  <2>5. Keeps(<<>>, <<>>, 0, 0, 0, 0, m, M, w, L)
    <3>1. <<>> \in Seq(Nat)
      OBVIOUS
    <3> HIDE DEF m, M, w, L
    <3>2. \E r \in Seq(Nat) : Since(<<>>, <<>>, r, 0, 0, m, M, w)
      BY <2>4, <3>1
    <3> QED
      BY <1>6, <3>2 DEF Keeps
  <2> QED
    BY <1>1, <2>2, <2>3, <2>5 DEF RedisKeeps

<1>9. conf.redis => \A k \in Keys : Unused(k) => passed[k] = <<>>
  BY <1>1
<1> QED
  BY <1>2, <1>3, <1>4, <1>7, <1>8, <1>9 DEF LimitsInv

\* Every step keeps the invariant.
LEMMA LimitsStep == LimitsInv /\ [LimitsNext]_limitsVars => LimitsInv'
<1> SUFFICES ASSUME LimitsInv, [LimitsNext]_limitsVars PROVE LimitsInv'
  OBVIOUS
<1>1. ASSUME NEW c \in Clients, InMemory(c) PROVE LimitsInv'
  BY <1>1, InMemoryStep
<1>2. ASSUME NEW c \in Clients, InRedis(c) PROVE LimitsInv'
  BY <1>2, RedisTotalStep, RedisTotalOldestStep, RedisSuccessStep, RedisSuccessOldestStep,
     RecordRequestStep, TrimRequestsStep, ExpireRequestsStep, RecordSuccessStep, TrimSuccessesStep,
     ExpireSuccessesStep DEF InRedis
<1>3. ASSUME NEW c \in Clients, Fail(c) PROVE LimitsInv'
  BY <1>3, FailStep
<1>4. ASSUME NEW c \in Clients, Notification(c) PROVE LimitsInv'
  BY <1>4, NotificationStep
<1>5. CASE ClearExpiredItems
  BY <1>5, ClearStep
<1>6. CASE Tick
  BY <1>6, TickStep
<1>7. CASE UNCHANGED limitsVars
  BY <1>7 DEF limitsVars, LimitsInv, TypeOK, InOrder, Present, RightPlaces, MayBeAt, Live, MemoryKeeps, Most,
     Maximum, Unused, InUse, RedisKeeps, Life, ClearedPlaces, Fits, LatePlaces, LeavingPlaces, Within
<1> QED
  BY <1>1, <1>2, <1>3, <1>4, <1>5, <1>6, <1>7 DEF LimitsNext

\* The types, in every behaviour.
THEOREM LimitsTypes == LimitsSpec => []TypeOK
<1>1. LimitsInv => TypeOK
  BY DEF LimitsInv
<1> QED
  BY <1>1, LimitsStart, LimitsStep, PTL DEF LimitsSpec

\* In no window does a key let more requests pass than its limit, in memory, or
\* than its limit, those that may stand between the check and the record, and
\* those that may stand between the record and the expiry, in Redis: LimitsHold,
\* in every behaviour.
THEOREM LimitsAreKept == LimitsSpec => []LimitsHold
<1>1. LimitsInv => LimitsHold
  <2> SUFFICES ASSUME LimitsInv, Live, NEW key \in Keys, NEW t \in Ticks, conf.redis => Maximum(key) > 0
               PROVE  Window(key, t) <= Most(key)
    BY DEF LimitsHold, Live
  <2> DEFINE p == passed[key]
             w == conf.period
             M == Most(key)
             W == {i \in DOMAIN p : p[i] \in t..(t + w - 1)}
  <2>1. p \in Seq(Nat) /\ Sorted(p) /\ t \in Nat /\ w \in Nat \ {0}
    BY ConfType DEF LimitsInv, InOrder, Timely, Ticks
  <2>2. Window(key, t) = Cardinality(W)
    BY DEF Window
  <2>3. CASE Spaced(p, M, w) /\ M \in Nat \ {0}
    <3> HIDE DEF p, w, M
    <3>1. Cardinality(W) <= M
      BY <2>1, <2>3, SpacedWindow
    <3> QED
      BY <2>2, <3>1 DEF M
  <2>4. CASE p = <<>> /\ M \in Nat
    <3>1. W = {}
      BY <2>4
    <3> HIDE DEF W
    <3>2. Cardinality(W) = 0
      BY <3>1, FS_EmptySet
    <3> QED
      BY <2>2, <2>4, <3>2
  <2>5. CASE ~conf.redis
    <3>1. M \in Nat \ {0}
      BY <2>5, MostType DEF LimitsInv
    <3>2. Spaced(p, M, w)
      BY <2>5 DEF LimitsInv, MemoryKeeps, Stores
    <3> QED
      BY <2>3, <3>1, <3>2
  <2>6. CASE conf.redis /\ InUse(key)
    <3>1. M = Maximum(key) + 2 * Crowd - 1
      BY <2>6, MostType DEF LimitsInv
    <3>2. M \in Nat \ {0}
      BY MostType DEF LimitsInv
    <3>3. Spaced(p, M, w)
      BY <2>6, <3>1 DEF LimitsInv, RedisKeeps, Keeps
    <3> QED
      BY <2>3, <3>2, <3>3
  <2>7. CASE conf.redis /\ ~InUse(key)
    <3>1. Unused(key)
      BY <2>7 DEF InUse, Unused, Keys
    <3>2. p = <<>>
      BY <2>7, <3>1 DEF LimitsInv
    <3>3. M \in Nat
      BY <2>7, MostType DEF LimitsInv
    <3> QED
      BY <2>4, <3>2, <3>3
  <2> QED
    BY <2>5, <2>6, <2>7
<1> QED
  BY <1>1, LimitsStart, LimitsStep, PTL DEF LimitsSpec

(***************************************************************************)
(* Notifications.                                                          *)
(***************************************************************************)
NotePlaces == {"note", "redis note"}

\* A count, stored or loaded, is of notifications that were sent, unless as
\* many as the limit were: an update may be lost, but none is made up.
Counted(n) == n <= notified \/ notified >= conf.total
NotesInv == /\ Counted(notes)
            /\ \A c \in Clients : st[c].pc \in NotePlaces => Counted(st[c].seen)

\* The limiters leave those alone who are about to send a notification.
LEMMA NoteStays ==
    ASSUME TypeOK, LimitsNext
    PROVE  \/ \E c \in Clients : Notification(c)
           \/ /\ UNCHANGED <<conf, notes, notified>>
              /\ \A d \in Clients : st[d].pc \in NotePlaces \/ st'[d].pc \in NotePlaces => st'[d] = st[d]
<1>1. st \in [Clients -> [pc : Places, seen : Nat]]
  BY DEF TypeOK
<1>2. ASSUME NEW c \in Clients, st[c].pc \notin NotePlaces, NEW x \in Places \ NotePlaces, MoveTo(c, x)
      PROVE  \A d \in Clients : st[d].pc \in NotePlaces \/ st'[d].pc \in NotePlaces => st'[d] = st[d]
  BY <1>1, <1>2 DEF MoveTo
<1>3. ASSUME NEW c \in Clients, InMemory(c) \/ InRedis(c) \/ Fail(c)
      PROVE  /\ UNCHANGED <<conf, notes, notified>> /\ st[c].pc \notin NotePlaces
             /\ \E x \in Places \ NotePlaces : MoveTo(c, x)
  <2>1. CASE InMemory(c) \/ Fail(c)
    BY <2>1 DEF InMemory, MemoryTotal, MemorySuccess, MemoryRecord, Request, Fail, Job, IsAt, AfterTotal,
       Notifying, NotePlaces, Places
  <2>2. CASE RedisTotal(c) \/ RedisSuccess(c)
    BY <2>2 DEF RedisTotal, RedisSuccess, CheckRedisRateLimit, Job, IsAt, Notifying, NotePlaces, Places
  <2>3. CASE RedisTotalOldest(c) \/ RedisSuccessOldest(c)
    BY <2>3 DEF RedisTotalOldest, RedisSuccessOldest, Oldest, IsAt, Notifying, NotePlaces, Places
  <2>4. CASE RecordRequest(c) \/ TrimRequests(c) \/ RecordSuccess(c) \/ TrimSuccesses(c)
    BY <2>4 DEF RecordRequest, TrimRequests, RecordSuccess, TrimSuccesses, IsAt, Notifying, NotePlaces, Places
  <2>5. CASE ExpireRequests(c) \/ ExpireSuccesses(c)
    BY <2>5 DEF ExpireRequests, ExpireSuccesses, IsAt, Notifying, NotePlaces, Places
  <2> QED
    BY <1>3, <2>1, <2>2, <2>3, <2>4, <2>5 DEF InRedis
<1>4. ASSUME ClearExpiredItems \/ Tick PROVE UNCHANGED <<conf, notes, notified, st>>
  BY <1>4 DEF ClearExpiredItems, Tick, Notifying
<1> QED
  BY <1>2, <1>3, <1>4 DEF LimitsNext

\* What a notification does to the counts.
LEMMA NoteCases ==
    ASSUME TypeOK, NotesInv, NEW c \in Clients, Notification(c)
    PROVE  /\ NotesInv'
           /\ \A d \in Clients : IsAt(d, "note") \/ IsAt(d, "redis note") =>
                (st'[d] = Idle /\ notified' = notified => notified >= conf.total)
<1>1. /\ st \in [Clients -> [pc : Places, seen : Nat]] /\ notes \in Nat /\ notified \in Nat
      /\ conf.total \in Nat
  BY ConfType DEF TypeOK
<1>2. CASE CheckNotificationLimit(c)
  <2>1. /\ st[c].pc = "idle" /\ UNCHANGED <<conf, notes, notified>>
        /\ \E x \in NotePlaces : st' = [st EXCEPT ![c] = [pc |-> x, seen |-> notes]]
    BY <1>2 DEF CheckNotificationLimit, Job, IsAt, Notifying, NotePlaces
  <2>2. NotesInv'
    BY <1>1, <2>1 DEF NotesInv, Counted
  <2>3. ASSUME NEW d \in Clients, st[d].pc \in NotePlaces PROVE st'[d] # Idle
    <3>1. d # c /\ st'[d].pc = st[d].pc
      BY <1>1, <2>1, <2>3 DEF NotePlaces
    <3>2. Idle.pc = "idle"
      BY DEF Idle
    <3> QED
      BY <2>3, <3>1, <3>2 DEF NotePlaces
  <2> QED
    BY <2>2, <2>3 DEF IsAt, NotePlaces
<1>3. CASE CheckMemoryLimit(c) \/ CheckRedisLimit(c)
  <2> DEFINE s == st[c].seen
             n == notified
             T == conf.total
  <2>1. /\ st' = [st EXCEPT ![c] = Idle] /\ conf' = conf /\ st[c].pc \in NotePlaces
        /\ \/ notes' = s + 1 /\ notified' = n + 1 /\ s < T
           \/ notes' = s + 1 /\ notified' = n /\ ~(s < T)
           \/ notes' = 1 /\ notified' = n + 1
           \/ notes' = notes + 1 /\ notified' = n + 1
           \/ notes' = notes /\ notified' = n /\ ~(s < T)
    BY <1>3 DEF CheckMemoryLimit, CheckRedisLimit, Sent, IsAt, Allowed, NotePlaces
  <2>2. s \in Nat /\ n \in Nat /\ T \in Nat /\ notes \in Nat
    BY <1>1
  <2>3. (s <= n \/ n >= T) /\ (notes <= n \/ n >= T)
    BY <2>1 DEF NotesInv, Counted
  <2> HIDE DEF s, n, T
  <2>4. notes' <= notified' \/ notified' >= T
    BY <2>1, <2>2, <2>3
  <2>5. notified' = n => n >= T
    BY <2>1, <2>2, <2>3
  <2>6. \A k \in Nat : k <= n \/ n >= T => k <= notified' \/ notified' >= T
    BY <2>1, <2>2
  <2>7. ASSUME NEW d \in Clients, st'[d].pc \in NotePlaces
        PROVE  st'[d].seen <= notified' \/ notified' >= T
    <3>1. d # c /\ st'[d] = st[d]
      BY <1>1, <2>1, <2>7 DEF Idle, NotePlaces
    <3>2. st[d].seen <= n \/ n >= T
      BY <2>7, <3>1 DEF NotesInv, Counted, n, T
    <3> QED
      BY <1>1, <2>6, <3>1, <3>2
  <2>8. NotesInv'
    BY <2>1, <2>4, <2>7 DEF NotesInv, Counted, T
  <2>9. \A d \in Clients : IsAt(d, "note") \/ IsAt(d, "redis note") =>
          (st'[d] = Idle /\ notified' = notified => notified >= conf.total)
    BY <2>5 DEF n, T
  <2> QED
    BY <2>8, <2>9
<1> QED
  BY <1>2, <1>3 DEF Notification

\* A notification is refused only once as many as the limit have been sent.
THEOREM RefusedOnlyAtLimit == LimitsSpec => RefusedAtLimit
<1> DEFINE AtLimit == \A c \in Clients : IsAt(c, "note") \/ IsAt(c, "redis note") =>
                        (st'[c] = Idle /\ notified' = notified => notified >= conf.total)
<1>1. LimitsInit => NotesInv
  <2> SUFFICES ASSUME LimitsInit PROVE NotesInv
    OBVIOUS
  <2>1. notes = 0 /\ notified = 0 /\ \A c \in Clients : st[c].pc = "idle"
    BY DEF LimitsInit, Idle
  <2>2. notes <= notified
    BY <2>1
  <2> QED
    BY <2>1, <2>2 DEF NotesInv, Counted, NotePlaces
<1>2. ASSUME TypeOK, NotesInv, [LimitsNext]_limitsVars PROVE NotesInv' /\ (AtLimit \/ UNCHANGED limitsVars)
  <2>1. CASE UNCHANGED limitsVars
    BY <1>2, <2>1 DEF NotesInv, Counted, limitsVars
  <2>2. ASSUME NEW c \in Clients, Notification(c) PROVE NotesInv' /\ AtLimit
    BY <1>2, <2>2, NoteCases
  <2>3. CASE /\ UNCHANGED <<conf, notes, notified>>
             /\ \A d \in Clients : st[d].pc \in NotePlaces \/ st'[d].pc \in NotePlaces => st'[d] = st[d]
    <3>1. NotesInv'
      BY <1>2, <2>3 DEF NotesInv, Counted
    <3>2. ASSUME NEW d \in Clients, st[d].pc \in NotePlaces PROVE st'[d] # Idle
      <4>1. st'[d].pc = st[d].pc /\ Idle.pc = "idle"
        BY <2>3, <3>2 DEF Idle
      <4> QED
        BY <3>2, <4>1 DEF NotePlaces
    <3>3. AtLimit
      BY <3>2 DEF IsAt, NotePlaces
    <3> QED
      BY <3>1, <3>3
  <2> QED
    BY <1>2, <2>1, <2>2, <2>3, NoteStays
<1>3. TypeOK /\ NotesInv /\ [LimitsNext]_limitsVars => [AtLimit]_limitsVars
  BY <1>2
<1>4. TypeOK /\ NotesInv /\ [LimitsNext]_limitsVars => NotesInv'
  BY <1>2
<1>5. RefusedAtLimit <=> [][AtLimit]_limitsVars
  BY DEF RefusedAtLimit
<1> HIDE DEF AtLimit
<1> QED
  BY <1>1, <1>3, <1>4, <1>5, LimitsTypes, PTL DEF LimitsSpec
==============================================================================
