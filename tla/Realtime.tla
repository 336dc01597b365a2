------------------------------ MODULE Realtime ------------------------------
(***************************************************************************)
(* Requests that pay beside preConsumeQuota's reservation: a realtime      *)
(* session (WssRelay, WssHelper, OpenaiRealtimeHandler), in which every    *)
(* answer is paid in full when it is done, and an image (ImageHelper),     *)
(* which is paid when it was made.                                         *)
(*                                                                         *)
(* One behaviour is one request.  A session has three goroutines: a reader *)
(* of the client, a reader of the upstream ("target"), which charges, and  *)
(* the handler, which waits for either to end and charges what is left;    *)
(* they share usage, localUsage and sumUsage without a lock.  Every token  *)
(* costs one.                                                              *)
(***************************************************************************)
EXTENDS Integers, Sequences

CONSTANTS
    Requests,     \* what a behaviour may be about (see RequestsAssumption)
    MaxAnswer,    \* bound: tokens an upstream reports of one answer
    MaxInputs     \* bound: messages of the client

\* kind; whether the model has a price; the token: unlimited, and whether its
\* key loses its head to TrimLeft; reservation and price; quotas at the start;
\* common.RetryTimes; bounds: events of the upstream, changes of the quota by
\* others, statements that fail.
ASSUME RequestsAssumption ==
    /\ \A r \in Requests :
         /\ r.kind \in {"realtime", "image"}
         /\ {r.priced, r.unlimited, r.mangled} \subseteq BOOLEAN
         /\ {r.reserve, r.price, r.quota, r.remain} \subseteq Nat
         /\ {r.retries, r.events, r.others, r.faults} \subseteq Nat
    /\ {MaxAnswer, MaxInputs} \subseteq Nat

VARIABLES
    req,        \* the request
    user, token, used,  \* users.quota, tokens.remain_quota, users.used_quota
    stage,      \* where WssHelper, or ImageHelper, stands
    attempt,    \* turns of the retry loop begun
    pre,        \* preConsumedQuota of this turn
    returning,  \* reservations on their way back, to the user and to the token
    client, target,     \* the two readers
    gone,       \* connections that are closed
    closed,     \* clientClosed and targetClosed
    errs,       \* errors in errChan
    usage,      \* tokens of usage
    heap,       \* tokens of each localUsage made so far; the last is in use
    clientReg,  \* what the client's reader is about to add one to
    sum,        \* tokens of sumUsage
    bill,       \* the calls of preConsumeUsage
    answer,     \* tokens the upstream reported of the answer in hand
    seen,       \* history: what was counted, charged, delivered, ...
    inputs, events, others, faults

books == <<user, token, used>>
helper == <<stage, attempt, pre, returning>>
session == <<client, target, gone, closed, errs>>
counts == <<usage, heap, clientReg, sum, bill, answer>>
bounds == <<inputs, events, others>>
vars == <<req, books, helper, session, counts, seen, bounds, faults>>

\* Mutant: room for one error only.
OneError == 1

\* Capacity of errChan.
ErrSize == 2

NoBill == [at |-> "none", obj |-> 0, n |-> 0, reg |-> 0]

Init ==
    /\ req \in Requests
    /\ user = req.quota /\ token = req.remain /\ used = 0
    /\ stage = "check" /\ attempt = 0 /\ pre = 0
    /\ returning = [user |-> 0, token |-> 0]
    /\ client = "idle" /\ target = "idle"
    /\ gone = {} /\ closed = {} /\ errs = 0
    /\ usage = 0 /\ heap = <<0>> /\ clientReg = [obj |-> 1, n |-> 0] /\ sum = 0
    /\ bill = [p \in {"target", "handler"} |-> NoBill]
    /\ answer = 0
    /\ seen = [given |-> 0, counted |-> 0, charged |-> 0, empty |-> 0, delivered |-> 0,
               raced |-> FALSE, failed |-> FALSE]
    /\ inputs = 0 /\ events = 0 /\ others = 0 /\ faults = 0

SqlFails == faults < req.faults /\ faults' = faults + 1
NoFault == UNCHANGED faults

\* Other requests, orders and refunds of the same user.
Others ==
    /\ others < req.others
    /\ \E d \in {-MaxAnswer, MaxAnswer} :
        /\ user' = user + d /\ others' = others + 1
        /\ seen' = [seen EXCEPT !.given = @ + d]
    /\ UNCHANGED <<req, token, used, helper, session, counts, inputs, events, faults>>

(***************************************************************************)
(* preConsumeQuota and the retry loop of WssRelay and Relay.               *)
(***************************************************************************)
Trusted == /\ user > 100 * req.reserve
           /\ req.unlimited \/ req.remain > 100 * req.reserve

\* A local error is not retried.
Stop == stage' = "failed" /\ UNCHANGED <<attempt, pre, returning>>

Check ==
    /\ stage = "check"
    /\ req.kind = "realtime"
    /\ \/ SqlFails /\ Stop
       \/ (user <= 0 \/ user < req.reserve) /\ Stop /\ NoFault
       \/ /\ user > 0 /\ user >= req.reserve
          /\ IF Trusted \/ req.reserve = 0
             THEN stage' = "dial" /\ pre' = 0
             ELSE stage' = "takeToken" /\ pre' = req.reserve
          /\ UNCHANGED <<attempt, returning>> /\ NoFault
    /\ UNCHANGED <<req, books, session, counts, seen, bounds>>

TakeToken ==
    /\ stage = "takeToken"
    /\ \/ SqlFails /\ Stop /\ UNCHANGED token
       \/ (~req.unlimited /\ token < pre) /\ Stop /\ NoFault /\ UNCHANGED token
       \/ /\ req.unlimited \/ token >= pre
          /\ token' = token - pre /\ stage' = "takeUser"
          /\ UNCHANGED <<attempt, pre, returning>> /\ NoFault
    /\ UNCHANGED <<req, user, used, session, counts, seen, bounds>>

TakeUser ==
    /\ stage = "takeUser"
    /\ \/ SqlFails /\ Stop /\ UNCHANGED user
       \/ /\ user' = user - pre /\ stage' = "dial"
          /\ UNCHANGED <<attempt, pre, returning>> /\ NoFault
    /\ UNCHANGED <<req, token, used, session, counts, seen, bounds>>

\* The upstream is dialled; an error returns the reservation in a goroutine
\* while the next turn begins.
Dial ==
    /\ stage = "dial"
    /\ \/ /\ stage' = "open" /\ client' = "read" /\ target' = "read"
          /\ UNCHANGED <<attempt, pre, returning>>
       \/ /\ returning' = IF pre = 0 THEN returning ELSE [returning EXCEPT !.user = @ + 1]
          /\ pre' = 0
          /\ \/ stage' = "failed" /\ UNCHANGED attempt
             \/ attempt < req.retries /\ attempt' = attempt + 1 /\ stage' = "check"
          /\ UNCHANGED <<client, target>>
    /\ UNCHANGED <<req, books, gone, closed, errs, counts, seen, bounds, faults>>

\* returnPreConsumedQuota.
ReturnUser ==
    /\ returning.user > 0
    /\ \/ /\ user' = user + req.reserve /\ NoFault
          /\ returning' = [returning EXCEPT !.user = @ - 1, !.token = @ + 1]
       \/ SqlFails /\ returning' = [returning EXCEPT !.user = @ - 1] /\ UNCHANGED user
    /\ UNCHANGED <<req, token, used, stage, attempt, pre, session, counts, seen, bounds>>

ReturnToken ==
    /\ returning.token > 0
    /\ \/ token' = token + req.reserve /\ NoFault
       \/ SqlFails /\ UNCHANGED token
    /\ returning' = [returning EXCEPT !.token = @ - 1]
    /\ UNCHANGED <<req, user, used, stage, attempt, pre, session, counts, seen, bounds>>

(***************************************************************************)
(* preConsumeUsage: added to sumUsage, then PreWssConsumeQuota.            *)
(***************************************************************************)
\* calculateAudioQuota: where there is a ratio nothing costs one all the same.
Price(n) == IF n = 0 THEN 1 ELSE n

\* The usage a call was given: what usage held, or a localUsage.
Given(p) == IF bill[p].obj = 0 THEN bill[p].n ELSE heap[bill[p].obj]

At(p, at) == bill' = [bill EXCEPT ![p].at = at]

ReadSum(p) ==
    /\ bill[p].at = "sum"
    /\ bill' = [bill EXCEPT ![p].at = "store", ![p].reg = sum]
    /\ UNCHANGED <<req, books, helper, session, usage, heap, clientReg, sum, answer,
                   seen, bounds, faults>>

WriteSum(p) ==
    /\ bill[p].at = "store"
    /\ sum' = bill[p].reg + Given(p)
    /\ At(p, "quota")
    /\ UNCHANGED <<req, books, helper, session, usage, heap, clientReg, answer,
                   seen, bounds, faults>>

Insufficient(n) == user < n \/ (~req.unlimited /\ token < n)

\* Both quotas are read and judged; a mangled key finds no token.
CheckQuota(p) ==
    LET n == Price(Given(p))
    IN  /\ bill[p].at = "quota"
        /\ \/ req.priced /\ At(p, "paid") /\ UNCHANGED seen /\ NoFault
           \/ /\ ~req.priced
              /\ \/ SqlFails
                 \/ (req.mangled \/ Insufficient(n)) /\ NoFault
              /\ At(p, "failed")
              /\ seen' = [seen EXCEPT !.failed = TRUE]
           \/ /\ ~req.priced /\ ~req.mangled /\ ~Insufficient(n)
              /\ bill' = [bill EXCEPT ![p].at = "user", ![p].reg = n]
              /\ seen' = [seen EXCEPT !.empty = IF Given(p) = 0 THEN @ + 1 ELSE @]
              /\ NoFault
    /\ UNCHANGED <<req, books, helper, session, usage, heap, clientReg, sum, answer, bounds>>

PayUser(p) ==
    /\ bill[p].at = "user"
    /\ \/ /\ user' = user - bill[p].reg /\ At(p, "token") /\ NoFault
          /\ seen' = [seen EXCEPT !.charged = @ + bill[p].reg]
       \/ /\ SqlFails /\ At(p, "failed") /\ UNCHANGED user
          /\ seen' = [seen EXCEPT !.failed = TRUE]
    /\ UNCHANGED <<req, token, used, helper, session, usage, heap, clientReg, sum, answer, bounds>>

PayToken(p) ==
    /\ bill[p].at = "token"
    /\ \/ token' = token - bill[p].reg /\ At(p, "paid") /\ NoFault /\ UNCHANGED seen
       \/ /\ SqlFails /\ At(p, "failed") /\ UNCHANGED token
          /\ seen' = [seen EXCEPT !.failed = TRUE]
    /\ UNCHANGED <<req, user, used, helper, session, usage, heap, clientReg, sum, answer, bounds>>

PreConsumeUsage(p) ==
    ReadSum(p) \/ WriteSum(p) \/ CheckQuota(p) \/ PayUser(p) \/ PayToken(p)

Call(p, obj, n) == bill' = [bill EXCEPT ![p] = [NoBill EXCEPT !.at = "sum", !.obj = obj, !.n = n]]

(***************************************************************************)
(* The client's reader.                                                    *)
(***************************************************************************)
\* A message with a token, or one that cannot be parsed or counted.
ClientRead ==
    /\ client = "read" /\ "client" \notin gone
    /\ inputs < MaxInputs /\ inputs' = inputs + 1
    /\ \/ client' = "add" /\ clientReg' = [obj |-> Len(heap), n |-> heap[Len(heap)]]
       \/ client' = "error" /\ UNCHANGED clientReg
    /\ UNCHANGED <<req, books, helper, target, gone, closed, errs, usage, heap, sum, bill,
                   answer, seen, events, others, faults>>

\* A localUsage that is being charged.
Billed(obj) == \E p \in {"target", "handler"} : bill[p].at # "none" /\ bill[p].obj = obj

\* It is counted, in the localUsage found before, and passed on.
ClientAdd ==
    /\ client = "add"
    /\ heap' = [heap EXCEPT ![clientReg.obj] = clientReg.n + 1]
    /\ seen' = [seen EXCEPT !.counted = @ + 1, !.raced = @ \/ Billed(clientReg.obj)]
    /\ client' \in (IF "target" \in gone THEN {"error"} ELSE {"read", "error"})
    /\ UNCHANGED <<req, books, helper, target, gone, closed, errs, usage, clientReg, sum,
                   bill, answer, bounds, faults>>

\* The client hangs up, as it should or not, or the handler has closed.
ClientGone ==
    /\ client = "read"
    /\ gone' = gone \cup {"client"}
    /\ \/ client' = "ended" /\ closed' = closed \cup {"client"}
       \/ client' = "errorClose" /\ UNCHANGED closed
    /\ UNCHANGED <<req, books, helper, target, errs, counts, seen, bounds, faults>>

\* The error is sent, and the channel closed if it was an error of reading.
ClientError ==
    /\ client \in {"error", "errorClose"}
    /\ errs < ErrSize /\ errs' = errs + 1
    /\ client' = "ended"
    /\ closed' = IF client = "errorClose" THEN closed \cup {"client"} ELSE closed
    /\ UNCHANGED <<req, books, helper, target, gone, counts, seen, bounds, faults>>

(***************************************************************************)
(* The target's reader.                                                    *)
(***************************************************************************)
NextEvent ==
    /\ target = "read" /\ "target" \notin gone
    /\ events < req.events /\ events' = events + 1

RacedIfReturned(s) == [s EXCEPT !.raced = @ \/ stage # "open"]

AddLocal(n) == heap' = [heap EXCEPT ![Len(heap)] = @ + n]

\* Output is counted and passed on as it comes ...
TargetDelta ==
    /\ NextEvent
    /\ AddLocal(1)
    /\ seen' = RacedIfReturned([seen EXCEPT !.counted = @ + 1])
    /\ target' \in (IF "client" \in gone THEN {"error"} ELSE {"read", "error"})
    /\ UNCHANGED <<req, books, helper, client, gone, closed, errs, usage, clientReg, sum,
                   bill, answer, inputs, others, faults>>

\* ... and charged when the answer is done: what the upstream reports, or
\* what was counted and the tools.
TargetDone ==
    /\ NextEvent
    /\ \/ \E n \in 0..MaxAnswer :
            /\ usage' = usage + n /\ answer' = n /\ Call("target", 0, usage + n)
            /\ seen' = RacedIfReturned([seen EXCEPT !.counted = @ + n])
            /\ UNCHANGED heap
       \/ \E tools \in {0, 1} :
            /\ AddLocal(tools)
            /\ answer' = 0 /\ Call("target", Len(heap), 0)
            /\ seen' = RacedIfReturned([seen EXCEPT !.counted = @ + tools])
            /\ UNCHANGED usage
    /\ target' = "bill"
    /\ UNCHANGED <<req, books, helper, client, gone, closed, errs, clientReg, sum,
                   inputs, others, faults>>

TargetBad ==
    /\ NextEvent
    /\ target' = "error"
    /\ UNCHANGED <<req, books, helper, client, gone, closed, errs, counts, seen,
                   inputs, others, faults>>

\* Mutant: the usage that was charged is not cleared.
TargetPaidAndKept ==
    /\ target = "bill" /\ bill["target"].at = "paid"
    /\ UNCHANGED usage
    /\ heap' = Append(heap, 0)
    /\ At("target", "none")
    /\ \/ target' = "read" /\ seen' = [seen EXCEPT !.delivered = @ + answer]
       \/ target' = "error" /\ UNCHANGED seen
    /\ UNCHANGED <<req, books, helper, client, gone, closed, errs, clientReg, sum, answer,
                   bounds, faults>>

\* Both usages are new after an answer that was reported, localUsage after one
\* that was not; only then is the answer's end passed on.
TargetPaid ==
    /\ target = "bill" /\ bill["target"].at = "paid"
    /\ usage' = IF bill["target"].obj = 0 THEN 0 ELSE usage
    /\ heap' = Append(heap, 0)
    /\ At("target", "none")
    /\ \/ /\ target' = "read" /\ "client" \notin gone
          /\ seen' = [seen EXCEPT !.delivered = @ + answer]
       \/ target' = "error" /\ UNCHANGED seen
    /\ UNCHANGED <<req, books, helper, client, gone, closed, errs, clientReg, sum, answer,
                   bounds, faults>>

TargetUnpaid ==
    /\ target = "bill" /\ bill["target"].at = "failed"
    /\ At("target", "none")
    /\ target' = "error"
    /\ UNCHANGED <<req, books, helper, client, gone, closed, errs, usage, heap, clientReg,
                   sum, answer, seen, bounds, faults>>

TargetGone ==
    /\ target = "read"
    /\ gone' = gone \cup {"target"}
    /\ \/ target' = "ended" /\ closed' = closed \cup {"target"}
       \/ target' = "errorClose" /\ UNCHANGED closed
    /\ UNCHANGED <<req, books, helper, client, errs, counts, seen, bounds, faults>>

TargetError ==
    /\ target \in {"error", "errorClose"}
    /\ errs < ErrSize /\ errs' = errs + 1
    /\ target' = "ended"
    /\ closed' = IF target = "errorClose" THEN closed \cup {"target"} ELSE closed
    /\ UNCHANGED <<req, books, helper, client, gone, counts, seen, bounds, faults>>

(***************************************************************************)
(* The handler.                                                            *)
(***************************************************************************)
Goto(to) == stage' = to /\ UNCHANGED <<attempt, pre, returning>>

\* It races when the target's reader has an answer in hand.
Select ==
    /\ stage = "open"
    /\ \/ closed # {} /\ UNCHANGED errs
       \/ errs > 0 /\ errs' = errs - 1
    /\ Goto("usage")
    /\ seen' = [seen EXCEPT !.raced = @ \/ target = "bill"]
    /\ UNCHANGED <<req, books, client, target, gone, closed, counts, bounds, faults>>

\* What is left in usage, and then in localUsage, is charged.
Flush(from, obj, n, next) ==
    /\ stage = from
    /\ \/ /\ bill["handler"].at = "none" /\ n # 0
          /\ Call("handler", obj, n)
          /\ UNCHANGED helper
       \/ /\ \/ bill["handler"].at = "none" /\ n = 0
             \/ bill["handler"].at \in {"paid", "failed"}
          /\ Goto(next) /\ At("handler", "none")
    /\ UNCHANGED <<req, books, session, usage, heap, clientReg, sum, answer, seen, bounds, faults>>

FlushUsage == Flush("usage", 0, usage, "local")
FlushLocal == Flush("local", Len(heap), heap[Len(heap)], "post")

\* PostWssConsumeQuota records the sum; WssHelper and WssRelay close what is
\* open.  The reservation is neither settled nor returned, though a comment
\* there says that it may have to be (service/quota.go:175-178).
Post ==
    /\ stage = "post"
    /\ \/ /\ used' = IF sum = 0 THEN used
                     ELSE used + (IF req.priced THEN req.price ELSE Price(sum))
          /\ NoFault
       \/ SqlFails /\ UNCHANGED used
    /\ Goto("served")
    /\ gone' = {"client", "target"}
    /\ UNCHANGED <<req, user, token, client, target, closed, errs, counts, seen, bounds>>

(***************************************************************************)
(* ImageHelper: the user's quota is judged, the token's is not.            *)
(***************************************************************************)
CheckImage ==
    /\ stage = "check"
    /\ req.kind = "image"
    /\ \/ SqlFails /\ IF req.reserve > 0 THEN Stop ELSE Goto("make")
       \/ user < req.reserve /\ Stop /\ NoFault
       \/ user >= req.reserve /\ Goto("make") /\ NoFault
    /\ UNCHANGED <<req, books, session, counts, seen, bounds>>

MakeImage ==
    /\ stage = "make"
    /\ \/ Goto("image")
       \/ Goto("failed")
       \/ /\ attempt < req.retries /\ attempt' = attempt + 1
          /\ stage' = "check" /\ UNCHANGED <<pre, returning>>
    /\ UNCHANGED <<req, books, session, counts, seen, bounds, faults>>

\* postConsumeQuota; without a price it takes the images for tokens.
RecordImage ==
    /\ stage = "image"
    /\ \/ used' = used + req.price /\ NoFault
       \/ SqlFails /\ UNCHANGED used
    /\ Goto(IF req.price = 0 THEN "served" ELSE "payImage")
    /\ UNCHANGED <<req, user, token, session, counts, seen, bounds>>

PayImage ==
    /\ stage = "payImage"
    /\ \/ user' = user - req.price /\ Goto("tokenImage") /\ NoFault
       \/ SqlFails /\ Goto("served") /\ UNCHANGED user
    /\ UNCHANGED <<req, token, used, session, counts, seen, bounds>>

TokenImage ==
    /\ stage = "tokenImage"
    /\ \/ token' = token - req.price /\ NoFault
       \/ SqlFails /\ UNCHANGED token
    /\ Goto("served")
    /\ UNCHANGED <<req, user, used, session, counts, seen, bounds>>

-----------------------------------------------------------------------------
WssHelper == Check \/ TakeToken \/ TakeUser \/ Dial \/ Post
ImageHelper == CheckImage \/ MakeImage \/ RecordImage \/ PayImage \/ TokenImage
ClientReader == ClientRead \/ ClientAdd \/ ClientGone \/ ClientError
TargetReader ==
    \/ TargetDelta \/ TargetDone \/ TargetBad
    \/ TargetPaid \/ TargetUnpaid \/ TargetGone \/ TargetError
Handler == Select \/ FlushUsage \/ FlushLocal

Next ==
    \/ WssHelper \/ ImageHelper \/ ClientReader \/ TargetReader \/ Handler
    \/ ReturnUser \/ ReturnToken \/ Others
    \/ \E p \in {"target", "handler"} : PreConsumeUsage(p)

\* Every goroutine runs on, and reading from a closed connection fails; client
\* and upstream owe nothing.
Fairness ==
    /\ WF_vars(WssHelper) /\ WF_vars(ImageHelper) /\ WF_vars(Handler)
    /\ WF_vars(ReturnUser) /\ WF_vars(ReturnToken)
    /\ \A p \in {"target", "handler"} : WF_vars(PreConsumeUsage(p))
    /\ WF_vars(ClientAdd) /\ WF_vars(ClientError)
    /\ WF_vars(TargetPaid) /\ WF_vars(TargetUnpaid) /\ WF_vars(TargetError)
    /\ WF_vars(ClientGone /\ "client" \in gone)
    /\ WF_vars(TargetGone /\ "target" \in gone)

Spec == Init /\ [][Next]_vars /\ Fairness

-----------------------------------------------------------------------------
Quiet ==
    /\ stage \in {"served", "failed"}
    /\ {client, target} \subseteq {"idle", "ended"}
    /\ returning = [user |-> 0, token |-> 0]

Loss == req.quota + seen.given - user
TokenLoss == req.remain - token

\* No answer of a model without a price is passed on to its end before what the
\* upstream reported of it was charged, whatever fails and whoever else spends
\* (OpenaiRealtimeHandler; what it counts itself the readers may overwrite).
AnswersPaid == req.priced \/ seen.delivered <= seen.charged

\* When all is over and no statement failed: user and token have lost the same;
\* what never opened cost nothing; an image cost what was recorded; a session
\* cost every charge that was made and never more than its reservation beside
\* them, of which this leaves open whether it has to be returned.  Unless a
\* reader raced with a charge, nothing was charged twice and, if all charges
\* went through, no less than was recorded as used.
BooksClose ==
    Quiet /\ faults = 0 =>
        /\ Loss = TokenLoss
        /\ stage = "failed" => Loss = 0
        /\ stage = "served" /\ req.kind = "image" => Loss = used
        /\ stage = "served" /\ req.kind = "realtime" => Loss - seen.charged \in 0..pre
        /\ ~seen.raced /\ ~req.priced =>
             /\ seen.charged <= seen.counted + seen.empty
             /\ ~seen.failed /\ req.kind = "realtime" => used <= seen.charged

\* What is passed on was charged before, and in the end the charges are what the
\* user and the token have lost (OpenaiRealtimeHandler, PreWssConsumeQuota,
\* PostWssConsumeQuota, ImageHelper).
SessionsPaid == AnswersPaid /\ BooksClose

\* When one side of a session ends, all of it does: the handler returns, both
\* readers end, and no error waits for a receiver.
SessionsEnd == closed # {} \/ errs > 0 ~> Quiet
=============================================================================
