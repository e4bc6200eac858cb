---------------------------- MODULE BillingProofs ----------------------------
(***************************************************************************)
(* Billing, for every number of payments, transactions, retries and faults *)
(* and every set of amounts:                                               *)
(*   TypeCorrect  every variable keeps its type;                           *)
(*   PaidOnce     money goes out again for the same reason only after a    *)
(*                kill or a lost answer;                                   *)
(*   FulfilledOnce  a payment keeps at most one transaction;               *)
(*   Implements   the stored payments keep BillingPromise;                 *)
(*   ReasonIsRight  money goes back for the reason that applies;           *)
(*   MarkedIsPaid   what is marked as settled was paid, or is below the    *)
(*                fee;                                                     *)
(*   NobodyProfits  without faults no payer gets more than was sent.       *)
(* The first four rest on the inductive invariant IInv.  The others rest   *)
(* on MInv, which adds to IInv what was sent for each transaction, and     *)
(* that a payment the job has found finished is never looked through again *)
(* (Final): a rejection that is not saved yet may be paid back, and must   *)
(* not be taken for a fulfilment by the next job.                          *)
(***************************************************************************)
EXTENDS Billing, SequenceTheorems, TLAPS

\* Transaction t is on the ledger and carries the memo text of p.
Of(t, p) == t \in 1..Len(chain) /\ chain[t].to = p

\* A record holds only transactions of its own payment.
Own ==
    /\ \A i \in 1..Len(chain) : chain[i].to \in live
    /\ \A p \in Payment, t \in TxId : db[p].tx[t] # "absent" => Of(t, p)
    /\ at \notin {"rest", "next"} =>
           \A t \in TxId : t \in left \/ obj.tx[t] # "absent" => Of(t, cur)

\* A record keeps at most one transaction, and then is a success.
Coherent(rec) ==
    /\ \A t, u \in TxId : rec.tx[t] = "success" /\ rec.tx[u] = "success" => t = u
    /\ \A t \in TxId : rec.tx[t] = "success" =>
           rec.success /\ chain[t].amount >= rec.due
    /\ rec.success => rec.due = 0 \/ \E t \in TxId : rec.tx[t] = "success"

\* The job's copy of a payment is the stored one, but for transactions whose
\* amount could not be read and that are not saved yet.
Ahead ==
    at \notin {"rest", "next"} =>
        /\ obj.due = db[cur].due /\ obj.refundExtra = db[cur].refundExtra
        /\ obj.success = db[cur].success /\ obj.extra = db[cur].extra
        /\ \A t \in TxId : \/ obj.tx[t] = db[cur].tx[t]
                           \/ db[cur].tx[t] = "absent" /\ obj.tx[t] = "failed"

\* What the job is about to do is still to be done.
Open ==
    /\ at = "list" => phase \in {1, 3}
    /\ at = "scan" => phase \in {1, 3} /\ \A t \in left : obj.tx[t] = "absent"
    /\ at \in {"owed", "send", "paid"} =>
        /\ phase \in {2, 3, 4}
        /\ phase = 2 => obj.extra /\ \A t \in left : obj.tx[t] = "success"
        /\ phase = 3 => \A t \in left : obj.tx[t] = "failed"
        /\ phase = 4 => /\ req[cur].state = "active"
                        /\ \A t \in left : obj.tx[t] = "success"
    /\ at # "rest" /\ phase = 4 =>
           \A p \in todo : p # cur /\ req[p].state = "active"

\* The claim k on transaction t is marked as settled in the store.
Settled(k, t) ==
    \E p \in Payment :
        \/ k = "refund" /\ db[p].tx[t] = "refunded"
        \/ k = "extra" /\ db[p].tx[t] = "success" /\ ~db[p].extra
        \/ k = "request" /\ db[p].tx[t] = "success" /\ req[p].state = "done"

\* It was just paid and is about to be marked.
Paying(k, t) == at = "paid" /\ k = ClaimOf(phase) /\ IsFirst(t, left)

\* A claim that was paid one time more often than there were faults is settled
\* or about to be.
Counted ==
    \A k \in Claim, t \in TxId :
        /\ sent[k][t] <= 1 + faults
        /\ sent[k][t] = 1 + faults => Settled(k, t) \/ Paying(k, t)

IInv == TypeOK /\ Own /\ (\A p \in Payment : Coherent(db[p])) /\ Ahead /\ Open
        /\ Counted

------------------------------------------------------------------------------
(* Types. *)

\* What is owed for a transaction the job looks at is a number.
LEMMA OwedType ==
    ASSUME TypeOK, Own, NEW t \in left, at \in {"owed", "send", "paid"}
    PROVE  Owed(t) \in Int /\ chain[t] \in [to : Payment, amount : Nat]
<1>1. t \in TxId /\ cur \in Payment /\ at \notin {"rest", "next"}
  BY DEF TypeOK
<1>2. t \in 1..Len(chain)
  BY <1>1 DEF Own, Of
<1>3. chain[t] \in [to : Payment, amount : Nat]
  BY <1>2, ElementOfSeq DEF TypeOK
<1>4. obj.due \in Int /\ req[cur].want \in Int
  BY <1>1 DEF TypeOK, PaymentRec
<1>5. QED
  BY <1>3, <1>4 DEF Owed, Requested

\* A payment that is new is one.
LEMMA BlankType == Blank \in PaymentRec
BY DEF Blank, PaymentRec, TxStatus

\* Recording transactions in a payment keeps it a payment.
LEMMA JudgeType ==
    ASSUME NEW rec \in PaymentRec, NEW t \in TxId
    PROVE  /\ Judge(rec, t) \in PaymentRec
           /\ [rec EXCEPT !.tx[t] = "failed"] \in PaymentRec
           /\ [rec EXCEPT !.tx[t] = "refunded"] \in PaymentRec
           /\ [rec EXCEPT !.extra = FALSE] \in PaymentRec
           /\ [rec EXCEPT !.success = TRUE] \in PaymentRec
<1>1. [rec EXCEPT !.tx[t] = "failed"] \in PaymentRec
  BY DEF PaymentRec, TxStatus
<1>2. [rec EXCEPT !.tx[t] = "refunded"] \in PaymentRec
  BY DEF PaymentRec, TxStatus
<1>3. [rec EXCEPT !.extra = FALSE] \in PaymentRec
  BY DEF PaymentRec
<1>4. [rec EXCEPT !.success = TRUE] \in PaymentRec
  BY DEF PaymentRec
<1>5. [rec EXCEPT !.tx[t] = "success", !.success = TRUE,
                  !.extra = chain[t].amount > rec.due] \in PaymentRec
  <2> DEFINE kept == [rec EXCEPT !.tx[t] = "success"]
             done == [kept EXCEPT !.success = TRUE]
             more == chain[t].amount > rec.due
  <2>1. kept \in PaymentRec
    BY DEF PaymentRec, TxStatus
  <2>2. done \in PaymentRec
    <3> HIDE DEF kept
    <3> QED  BY <2>1 DEF PaymentRec
  <2>3. more \in BOOLEAN
    OBVIOUS
  <2>4. [done EXCEPT !.extra = more] \in PaymentRec
    <3> HIDE DEF done, more
    <3> QED  BY <2>2, <2>3 DEF PaymentRec
  <2>5. QED
    BY <2>4
<1>6. QED
  BY <1>1, <1>2, <1>3, <1>4, <1>5 DEF Judge

\* What a caller does keeps the types.
LEMMA CallerType ==
    ASSUME TypeOK, Caller
    PROVE  TypeOK'
<1> USE AmountsAssumption, BoundsAssumption
<1>1. ASSUME NEW p \in Payment, NEW d \in Dues, NEW re \in BOOLEAN, Submit(p, d, re)
      PROVE  TypeOK'
  <2>1. [Blank EXCEPT !.due = d, !.refundExtra = re] \in PaymentRec
    BY BlankType DEF PaymentRec
  <2>2. QED
    BY <1>1, <2>1 DEF Submit, Idle, money, locals, TypeOK
<1>2. ASSUME NEW p \in Payment, NEW a \in Amounts, Land(p, a)
      PROVE  TypeOK'
  <2>1. /\ chain' \in Seq([to : Payment, amount : Nat]) /\ Len(chain') <= MaxTx
    BY <1>2 DEF Land, TypeOK
  <2>2. QED
    BY <1>2, <2>1 DEF Land, Idle, money, locals, TypeOK
<1>3. ASSUME NEW p \in Payment, NEW w \in Wants, IssueRefund(p, w)
      PROVE  TypeOK'
  BY <1>3 DEF IssueRefund, Idle, money, locals, TypeOK
<1>4. ASSUME NEW p \in Payment, Expire(p) \/ WaitStart(p) \/ WaitReturn(p)
      PROVE  TypeOK'
  BY <1>4 DEF Expire, WaitStart, WaitReturn, Idle, money, locals, TypeOK
<1>5. QED
  BY <1>1, <1>2, <1>3, <1>4 DEF Caller

\* The job's locals when it rests, and when it goes on to the next payment.
LEMMA RestType ==
    ASSUME TypeOK, Rest, UNCHANGED <<chain, live, expired, db, req, money>>,
           waiter' \in [Payment -> {"idle", "waiting", "true", "false"}],
           faults' \in 0..MaxFaults
    PROVE  TypeOK'
BY BlankType, BoundsAssumption DEF Rest, money, TypeOK

\* Settling a transaction, paid or not worth paying, keeps the types.
LEMMA SettleType ==
    ASSUME TypeOK, NEW t \in left, at \in {"owed", "paid"}, Settle(t),
           UNCHANGED money, UNCHANGED faults
    PROVE  TypeOK'
<1> DEFINE o == IF phase = 2 THEN [obj EXCEPT !.extra = FALSE]
                ELSE IF phase = 3 THEN [obj EXCEPT !.tx[t] = "refunded"]
                ELSE obj
           Request == [state : {"none", "active", "done"}, want : Int]
<1>1. o \in PaymentRec
  BY JudgeType DEF TypeOK
<1>2. cur \in Payment
  BY DEF TypeOK
<1>3. req' \in [Payment -> Request]
  <2>1. req[cur] \in Request
    BY <1>2 DEF TypeOK
  <2>2. [req[cur] EXCEPT !.state = "done"] \in Request
    BY <2>1
  <2>3. QED
    BY <1>2, <2>2 DEF Settle, TypeOK
<1>4. db' \in [Payment -> PaymentRec] /\ obj' \in {Blank, o}
  BY <1>1 DEF Settle, TypeOK
<1>5. QED
  <2> HIDE DEF o
  <2> QED  BY <1>1, <1>2, <1>3, <1>4, BlankType, BoundsAssumption
           DEF Settle, money, TypeOK

\* Giving a payment up until the next job keeps the types.
LEMMA GiveUpType ==
    ASSUME TypeOK, at \notin {"rest", "next"}, GiveUp, faults' \in 0..MaxFaults,
           sent' \in [Claim -> [TxId -> Nat]], back' \in [TxId -> Int]
    PROVE  TypeOK'
BY BlankType, BoundsAssumption DEF GiveUp, NextItem, env, TypeOK

\* Trying once more, or no more, keeps the types.
LEMMA RetryType ==
    ASSUME TypeOK, at = "send", Retry, faults' \in 0..MaxFaults,
           sent' \in [Claim -> [TxId -> Nat]], back' \in [TxId -> Int]
    PROVE  TypeOK'
<1>1. CASE tries + 1 < Retries
  BY <1>1, BoundsAssumption DEF Retry, env, TypeOK
<1>2. CASE ~(tries + 1 < Retries)
  BY <1>2, GiveUpType DEF Retry
<1>3. QED
  BY <1>1, <1>2

\* Paying counts one more transfer and some money.
LEMMA PayType ==
    ASSUME TypeOK, Own, at = "send", NEW t \in left, Pay(t)
    PROVE  sent' \in [Claim -> [TxId -> Nat]] /\ back' \in [TxId -> Int]
<1>1. Owed(t) \in Int /\ Fee \in Int /\ ClaimOf(phase) \in Claim
  BY OwedType, AmountsAssumption DEF ClaimOf, Claim
<1>2. t \in TxId
  BY DEF TypeOK
<1>3. QED
  BY <1>1, <1>2 DEF Pay, TypeOK

\* What the job does keeps the types.
LEMMA PassType ==
    ASSUME TypeOK, Own, Job
    PROVE  TypeOK'
<1> USE AmountsAssumption, BoundsAssumption, BlankType
<1>1. ASSUME StartJob PROVE TypeOK'
  BY <1>1 DEF StartJob, Listed, env, money, TypeOK
<1>2. ASSUME NextPass PROVE TypeOK'
  <2>1. CASE phase = 4 /\ Rest
    BY <1>2, <2>1, RestType DEF NextPass, env, TypeOK
  <2>2. CASE phase < 4 /\ phase' = phase + 1 /\ todo' = Listed(phase + 1)
             /\ UNCHANGED <<at, cur, obj, left, tries>>
    BY <1>2, <2>2 DEF NextPass, Listed, env, money, TypeOK
  <2>3. QED
    BY <1>2, <2>1, <2>2 DEF NextPass
<1>3. ASSUME ListOk PROVE TypeOK'
  BY <1>3 DEF ListOk, Unrecorded, env, money, TypeOK
<1>4. ASSUME ListFails PROVE TypeOK'
  BY <1>4, RestType DEF ListFails, env, TypeOK
<1>5. ASSUME ScanDone PROVE TypeOK'
  BY <1>5 DEF ScanDone, ThenRefund, Rejected, env, money, TypeOK
<1>6. ASSUME NEW p \in Payment, TakePayment(p) PROVE TypeOK'
  <2>1. db' \in [Payment -> PaymentRec]
    <3>1. db[p] \in PaymentRec
      BY DEF TypeOK
    <3>2. [db[p] EXCEPT !.success = TRUE] \in PaymentRec
      BY <3>1 DEF PaymentRec
    <3>3. QED
      BY <1>6, <3>2 DEF TakePayment, TypeOK
  <2>2. QED
    BY <1>6, <2>1 DEF TakePayment, ThenRefund, Rejected, env, money, TypeOK
<1>7. ASSUME NEW p \in Payment, TakeExtra(p) PROVE TypeOK'
  BY <1>7 DEF TakeExtra, Fulfilling, env, money, TypeOK
<1>7b. ASSUME NEW p \in Payment, TakeRequest(p) PROVE TypeOK'
  <2>1. req' \in [Payment -> [state : {"none", "active", "done"}, want : Int]]
    <3> DEFINE Request == [state : {"none", "active", "done"}, want : Int]
    <3>0. req[p] \in Request
      BY DEF TypeOK
    <3>1. [req[p] EXCEPT !.state = "done"] \in Request
      BY <3>0
    <3>2. QED
      BY <1>7b, <3>1 DEF TakeRequest, TypeOK
  <2>2. QED
    BY <1>7b, <2>1 DEF TakeRequest, Fulfilling, env, money, TypeOK
<1>8. ASSUME NEW t \in TxId, ScanOk(t) PROVE TypeOK'
  BY <1>8, JudgeType DEF ScanOk, env, money, TypeOK
<1>9. ASSUME NEW t \in TxId, ScanFails(t) PROVE TypeOK'
  <2>1. obj' \in PaymentRec
    BY <1>9, JudgeType DEF ScanFails, TypeOK, TxStatus
  <2>2. QED
    BY <1>9, <2>1 DEF ScanFails, env, money, TypeOK
<1>10. ASSUME NEW t \in TxId, LookupOk(t) PROVE TypeOK'
  <2>1. t \in left
    BY <1>10 DEF LookupOk, IsFirst
  <2>2. CASE Settle(t)
    BY <1>10, <2>1, <2>2, SettleType DEF LookupOk
  <2>3. CASE at' = "send" /\ UNCHANGED <<env, db, locals>>
    BY <1>10, <2>3 DEF LookupOk, env, locals, money, TypeOK
  <2>4. QED
    BY <1>10, <2>2, <2>3 DEF LookupOk
<1>11. ASSUME NEW t \in TxId, TransferReturns(t) PROVE TypeOK'
  BY <1>11, SettleType DEF TransferReturns, IsFirst
<1>12. ASSUME LookupFails PROVE TypeOK'
  <2>1. CASE phase = 3
    BY <1>12, <2>1, GiveUpType DEF LookupFails, money, TypeOK
  <2>2. CASE phase # 3
    BY <1>12, <2>2, RestType DEF LookupFails, money, env, TypeOK
  <2>3. QED
    BY <2>1, <2>2
<1>13. ASSUME TransferFails PROVE TypeOK'
  BY <1>13, RetryType DEF TransferFails, money, TypeOK
<1>14. ASSUME NEW t \in TxId, TransferOk(t) PROVE TypeOK'
  <2>1. sent' \in [Claim -> [TxId -> Nat]] /\ back' \in [TxId -> Int]
    BY <1>14, PayType DEF TransferOk, IsFirst
  <2>2. QED
    BY <1>14, <2>1 DEF TransferOk, env, locals, TypeOK
<1>15. ASSUME NEW t \in TxId, TransferLost(t) PROVE TypeOK'
  <2>1. sent' \in [Claim -> [TxId -> Nat]] /\ back' \in [TxId -> Int]
    BY <1>15, PayType DEF TransferLost, IsFirst
  <2>2. faults' \in 0..MaxFaults
    BY <1>15 DEF TransferLost, TypeOK
  <2>3. QED
    BY <1>15, <2>1, <2>2, RetryType DEF TransferLost
<1>16. QED
  BY <1>1, <1>2, <1>3, <1>4, <1>5, <1>6, <1>7, <1>7b, <1>8, <1>9, <1>10, <1>11,
     <1>12, <1>13, <1>14, <1>15 DEF Job

\* Every step keeps the types.
LEMMA TypeStep ==
    ASSUME TypeOK, Own, [Next]_vars
    PROVE  TypeOK'
<1>1. ASSUME Kill PROVE TypeOK'
  <2>1. waiter' \in [Payment -> {"idle", "waiting", "true", "false"}]
    BY <1>1 DEF Kill, TypeOK
  <2>2. faults' \in 0..MaxFaults
    BY <1>1, BoundsAssumption DEF Kill, TypeOK
  <2>3. QED
    BY <1>1, <2>1, <2>2, RestType DEF Kill
<1>2. ASSUME UNCHANGED vars PROVE TypeOK'
  BY <1>2 DEF vars, TypeOK
<1>3. QED
  BY <1>1, <1>2, CallerType, PassType DEF Next

------------------------------------------------------------------------------
(* The records and what the job is about to do. *)

Shape == Own /\ (\A p \in Payment : Coherent(db[p])) /\ Ahead /\ Open

\* What a caller does keeps the shape of what is stored.
LEMMA CallerShape ==
    ASSUME TypeOK, Shape, Caller
    PROVE  Shape'
<1> USE AmountsAssumption, BoundsAssumption DEF Shape
<1>1. ASSUME NEW p \in Payment, NEW d \in Dues, NEW re \in BOOLEAN, Submit(p, d, re)
      PROVE  Shape'
  <2> DEFINE new == [Blank EXCEPT !.due = d, !.refundExtra = re]
  <2>1. /\ new.success = FALSE /\ new.tx = [t \in TxId |-> "absent"]
        /\ new \in PaymentRec
    BY BlankType DEF Blank, PaymentRec
  <2>2. /\ p \notin live /\ live' = live \cup {p}
        /\ UNCHANGED <<chain, expired, req, at, phase, todo, cur, obj, left>>
        /\ db' = [db EXCEPT ![p] = new]
    BY <1>1 DEF Submit, Idle, locals
  <2>3. \A q \in Payment : db'[q] = IF q = p THEN new ELSE db[q]
    BY <2>2 DEF TypeOK
  <2> HIDE DEF new
  <2>4. Own'
    BY <2>1, <2>2, <2>3 DEF Own, Of, TypeOK
  <2>5. \A q \in Payment : Coherent(db[q])'
    BY <2>1, <2>2, <2>3 DEF Coherent
  <2>6. at \notin {"rest", "next"} => cur # p
    BY <2>2 DEF TypeOK
  <2>7. Ahead'
    BY <2>2, <2>3, <2>6 DEF Ahead, TypeOK
  <2>8. Open'
    BY <2>2 DEF Open
  <2>9. QED
    BY <2>4, <2>5, <2>7, <2>8
<1>2. ASSUME NEW p \in Payment, NEW a \in Amounts, Land(p, a)
      PROVE  Shape'
  <2>1. /\ Len(chain') = Len(chain) + 1
        /\ chain'[Len(chain) + 1].to = p /\ p \in live
        /\ \A i \in 1..Len(chain) : chain'[i] = chain[i]
        /\ UNCHANGED <<live, expired, db, req, at, phase, todo, cur, obj, left>>
    BY <1>2 DEF Land, Idle, locals, TypeOK
  <2>2. Len(chain) \in Nat
    BY DEF TypeOK
  <2>3. Own'
    BY <2>1, <2>2 DEF Own, Of
  <2>4. \A q \in Payment : Coherent(db[q])'
    BY <2>1 DEF Coherent, Own, Of
  <2>5. Ahead' /\ Open'
    BY <2>1 DEF Ahead, Open
  <2>6. QED
    BY <2>3, <2>4, <2>5
<1>3. ASSUME NEW p \in Payment, NEW w \in Wants, IssueRefund(p, w)
      PROVE  Shape'
  <2>1. UNCHANGED <<chain, live, expired, db, at, phase, todo, cur, obj, left>>
    BY <1>3 DEF IssueRefund, Idle, locals
  <2>2. \A q \in Payment : req[q].state = "active" => req'[q].state = "active"
    BY <1>3 DEF IssueRefund, TypeOK
  <2>3. Open'
    BY <2>1, <2>2 DEF Open, TypeOK
  <2>4. QED
    BY <2>1, <2>3 DEF Own, Of, Coherent, Ahead
<1>4. ASSUME NEW p \in Payment, Expire(p) \/ WaitStart(p) \/ WaitReturn(p)
      PROVE  Shape'
  <2>1. UNCHANGED <<chain, live, db, req, at, phase, todo, cur, obj, left>>
    BY <1>4 DEF Expire, WaitStart, WaitReturn, Idle, locals
  <2>2. QED
    BY <2>1 DEF Own, Of, Coherent, Ahead, Open
<1>5. QED
  BY <1>1, <1>2, <1>3, <1>4 DEF Caller

\* What the fields of a judged record are.
LEMMA JudgeFields ==
    ASSUME NEW rec \in PaymentRec, NEW t \in TxId, NEW r, r = Judge(rec, t)
    PROVE  /\ r.due = rec.due /\ r.refundExtra = rec.refundExtra
           /\ \A u \in TxId : u # t => r.tx[u] = rec.tx[u]
           /\ \/ /\ r.tx[t] = "failed" /\ r.success = rec.success
                 /\ r.extra = rec.extra
              \/ /\ r.tx[t] = "success" /\ ~rec.success /\ r.success
                 /\ ~(chain[t].amount < rec.due)
<1>1. CASE rec.success \/ chain[t].amount < rec.due
  <2>1. r = [rec EXCEPT !.tx[t] = "failed"]
    BY <1>1 DEF Judge
  <2>2. QED
    BY <2>1 DEF PaymentRec
<1>2. CASE ~(rec.success \/ chain[t].amount < rec.due)
  <2> DEFINE more == chain[t].amount > rec.due
  <2>1. r = [rec EXCEPT !.tx[t] = "success", !.success = TRUE, !.extra = more]
    BY <1>2 DEF Judge
  <2> HIDE DEF more
  <2>2. QED
    BY <1>2, <2>1 DEF PaymentRec
<1>3. QED
  BY <1>1, <1>2

\* The end of a job keeps it too.
LEMMA RestShape ==
    ASSUME TypeOK, Shape, Rest, UNCHANGED <<chain, live, db, req>>
    PROVE  Shape'
BY DEF Shape, Rest, Own, Of, Coherent, Ahead, Open

\* The job takes up the stored record of p.
LEMMA TakeShape ==
    ASSUME TypeOK, Shape, NEW p \in Payment, UNCHANGED <<chain, live, db, req>>,
           at' \notin {"rest", "next"}, cur' = p, obj' = db[p], Open',
           \A t \in left' : obj'.tx[t] # "absent" \/ Of(t, p),
           left' \subseteq TxId
    PROVE  Shape'
BY DEF Shape, Own, Of, Coherent, Ahead

\* The job stays at the current payment or leaves it; the store is as it was.
LEMMA StayShape ==
    ASSUME TypeOK, Shape, UNCHANGED <<chain, live, db>>, Open',
           at' \in {"rest", "next"} \/
               (UNCHANGED <<cur, obj>> /\ at \notin {"rest", "next"} /\ left' \subseteq left)
    PROVE  Shape'
BY DEF Shape, Own, Of, Coherent, Ahead, TypeOK

\* A transaction that is looked at is recorded in the payment it is for.
LEMMA ScanShape ==
    ASSUME TypeOK, Shape, NEW t \in TxId, ScanOk(t)
    PROVE  Shape'
<1> USE DEF Shape
<1>1. /\ at = "scan" /\ at' = "scan" /\ t \in left /\ left' = left \ {t}
      /\ obj' = Judge(obj, t) /\ db' = [db EXCEPT ![cur] = obj']
      /\ UNCHANGED <<chain, live, req, phase, todo, cur>>
  BY DEF ScanOk, IsFirst, env
<1>2. obj \in PaymentRec /\ cur \in Payment
  BY <1>1 DEF TypeOK
<1>3. \A q \in Payment : db'[q] = IF q = cur THEN obj' ELSE db[q]
  BY <1>1, <1>2 DEF TypeOK
<1>4. obj.tx[t] = "absent" /\ Of(t, cur)
  BY <1>1 DEF Open, Own
<1>5. /\ obj'.due = obj.due /\ obj'.refundExtra = obj.refundExtra
      /\ \A u \in TxId : u # t => obj'.tx[u] = obj.tx[u]
      /\ \/ /\ obj'.tx[t] = "failed" /\ obj'.success = obj.success
            /\ obj'.extra = obj.extra
         \/ /\ obj'.tx[t] = "success" /\ ~obj.success /\ obj'.success
            /\ ~(chain[t].amount < obj.due)
  BY <1>1, <1>2, JudgeFields
<1>6. Coherent(obj)
  BY <1>1, <1>2 DEF Coherent, Ahead
<1>7. chain[t].amount \in Nat /\ obj.due \in Nat
  <2>1. chain[t] \in [to : Payment, amount : Nat]
    BY <1>4, ElementOfSeq DEF Of, TypeOK
  <2>2. QED
    BY <2>1, <1>2 DEF PaymentRec
<1>8. Coherent(obj)'
  BY <1>1, <1>4, <1>5, <1>6, <1>7 DEF Coherent
<1>9. \A q \in Payment : Coherent(db[q])'
  BY <1>1, <1>3, <1>8 DEF Coherent
<1>10. Own'
  BY <1>1, <1>2, <1>3, <1>4, <1>5 DEF Own, Of
<1>11. Ahead'
  BY <1>1, <1>2, <1>3 DEF Ahead
<1>12. Open'
  <2>1. \A u \in left' : obj'.tx[u] = "absent"
    <3>1. \A u \in left : u \in TxId /\ obj.tx[u] = "absent"
      BY <1>1 DEF Open, TypeOK
    <3>2. QED
      BY <1>1, <1>5, <3>1
  <2>2. QED
    BY <1>1, <2>1 DEF Open
<1>13. QED
  BY <1>9, <1>10, <1>11, <1>12

\* A transaction that is settled is recorded as such in the stored payment.
LEMMA SettleShape ==
    ASSUME TypeOK, Shape, at \in {"owed", "paid"}, NEW t \in left, Settle(t)
    PROVE  Shape'
<1> USE DEF Shape
<1> DEFINE o == IF phase = 2 THEN [obj EXCEPT !.extra = FALSE]
                ELSE IF phase = 3 THEN [obj EXCEPT !.tx[t] = "refunded"]
                ELSE obj
<1>1. /\ db' = [db EXCEPT ![cur] = o]
      /\ UNCHANGED <<chain, live, phase, todo>>
      /\ \/ at' = "next" /\ cur' = None /\ left = {t}
         \/ at' = "owed" /\ obj' = o /\ left' = left \ {t} /\ cur' = cur /\ left # {t}
  BY DEF Settle
<1>2. obj \in PaymentRec /\ cur \in Payment /\ t \in TxId
  BY DEF TypeOK
<1>3. /\ o.due = obj.due /\ o.refundExtra = obj.refundExtra /\ o.success = obj.success
      /\ \A u \in TxId : o.tx[u] = IF u = t /\ phase = 3 THEN "refunded" ELSE obj.tx[u]
  BY <1>2 DEF PaymentRec
<1>4. \A q \in Payment : db'[q] = IF q = cur THEN o ELSE db[q]
  BY <1>1, <1>2 DEF TypeOK
<1>5. Coherent(obj) /\ (phase = 3 => obj.tx[t] = "failed")
  BY <1>2 DEF Coherent, Ahead, Open
<1> HIDE DEF o
<1>6. Coherent(o)
  BY <1>3, <1>5 DEF Coherent
<1>7. \A q \in Payment : Coherent(db[q])'
  BY <1>1, <1>4, <1>6 DEF Coherent
<1>8. Own'
  BY <1>1, <1>2, <1>3, <1>4 DEF Own, Of
<1>9. Ahead'
  BY <1>1, <1>2, <1>4 DEF Ahead
<1>10. phase # 3 => left = {t}
  BY <1>2, <1>5 DEF Open, Coherent, TypeOK
<1>11. Open'
  <2>1. CASE phase = 4
    <3>1. at' = "next" /\ left = {t}
      BY <1>1, <1>10, <2>1
    <3>2. req' = [req EXCEPT ![cur].state = "done"]
      BY <2>1 DEF Settle
    <3>3. \A p \in todo : req'[p] = req[p] /\ cur' # p
      BY <1>1, <1>2, <2>1, <3>1, <3>2, BoundsAssumption DEF Open, TypeOK
    <3>4. QED
      BY <1>1, <2>1, <3>1, <3>3 DEF Open
  <2>2. CASE phase # 4
    <3>1. CASE at' = "next"
      BY <1>1, <2>2, <3>1 DEF Open
    <3>2. CASE at' = "owed"
      <4>1. phase = 3 /\ left' = left \ {t}
        BY <1>1, <1>10, <3>2
      <4>2. \A u \in left' : obj'.tx[u] = "failed"
        BY <1>1, <1>3, <3>2, <4>1 DEF Open, TypeOK
      <4>3. QED
        BY <1>1, <3>2, <4>1, <4>2 DEF Open
    <3>3. QED
      BY <1>1, <3>1, <3>2
  <2>3. QED
    BY <2>1, <2>2
<1>12. QED
  BY <1>7, <1>8, <1>9, <1>11

\* A payment that is given up is stored as the job has it.
LEMMA GiveUpShape ==
    ASSUME TypeOK, Shape, at \in {"owed", "send"}, GiveUp
    PROVE  Shape'
<1> USE DEF Shape
<1>1. /\ db' = [db EXCEPT ![cur] = obj] /\ at' = "next" /\ cur' = None
      /\ UNCHANGED <<chain, live, req, phase, todo>>
  BY DEF GiveUp, NextItem, env
<1>2. cur \in Payment
  BY DEF TypeOK
<1>3. \A q \in Payment : db'[q] = IF q = cur THEN obj ELSE db[q]
  BY <1>1, <1>2 DEF TypeOK
<1>4. Coherent(obj)
  BY <1>2 DEF Coherent, Ahead
<1>5. \A q \in Payment : Coherent(db[q])'
  BY <1>1, <1>3, <1>4 DEF Coherent
<1>6. Own' /\ Ahead'
  BY <1>1, <1>2, <1>3 DEF Own, Of, Ahead
<1>7. Open'
  BY <1>1, BoundsAssumption DEF Open, TypeOK
<1>8. QED
  BY <1>5, <1>6, <1>7

\* The job takes up a payment as it is stored.
LEMMA TakePaymentShape ==
    ASSUME TypeOK, Shape, NEW p \in Payment, TakePayment(p)
    PROVE  Shape'
<1> USE DEF Shape
<1>1. /\ phase \in {1, 3} /\ phase' = phase /\ todo' = todo \ {p} /\ p \in todo
      /\ at = "next" /\ UNCHANGED <<chain, live, expired, req>>
  BY DEF TakePayment, env
<1>2. CASE Finished(p, db[p]) /\ ThenRefund(p, db[p]) /\ UNCHANGED db
  <2>1. CASE at' = "next"
    BY <1>1, <1>2, <2>1, StayShape DEF Open
  <2>2. CASE at' = "owed"
    BY <1>1, <1>2, <2>2, TakeShape DEF ThenRefund, Rejected, Open
  <2>3. QED
    BY <1>2, <2>1, <2>2 DEF ThenRefund
<1>3. CASE /\ ~Finished(p, db[p]) /\ db[p].due = 0
           /\ db' = [db EXCEPT ![p].success = TRUE]
           /\ ThenRefund(p, db'[p])
  <2> DEFINE new == [db[p] EXCEPT !.success = TRUE]
  <2>1. db[p] \in PaymentRec /\ \A q \in Payment : db'[q] = IF q = p THEN new ELSE db[q]
    BY <1>3 DEF TypeOK
  <2>2. /\ new.due = 0 /\ new.success /\ new.extra = db[p].extra
        /\ new.tx = db[p].tx /\ new.refundExtra = db[p].refundExtra
    BY <1>3, <2>1 DEF PaymentRec
  <2> HIDE DEF new
  <2>3. \A q \in Payment : Coherent(db[q])'
    BY <1>1, <1>3, <2>1, <2>2 DEF Coherent
  <2>4. \/ at' = "next"
        \/ /\ at' = "owed" /\ cur' = p /\ obj' = new /\ phase = 3
           /\ left' = Rejected(new)
    BY <1>3, <2>1 DEF ThenRefund
  <2>5. Own'
    BY <1>1, <2>1, <2>2, <2>4 DEF Own, Of, Rejected
  <2>6. Ahead'
    BY <1>1, <2>1, <2>4 DEF Ahead
  <2>7. Open'
    BY <1>1, <2>4 DEF Open, Rejected
  <2>8. QED
    BY <2>3, <2>5, <2>6, <2>7
<1>4. CASE /\ at' = "list" /\ cur' = p /\ obj' = db[p] /\ left' = {}
           /\ UNCHANGED <<db, tries>>
  BY <1>1, <1>4, TakeShape DEF Open
<1>5. QED
  BY <1>2, <1>3, <1>4 DEF TakePayment

\* What the job does keeps the shape of what is stored.
LEMMA JobShape ==
    ASSUME TypeOK, Shape, Job
    PROVE  Shape'
<1> USE DEF Shape
<1>1. ASSUME StartJob PROVE Shape'
  BY <1>1, StayShape DEF StartJob, env, Open
<1>2. ASSUME NextPass PROVE Shape'
  <2>1. CASE phase = 4 /\ Rest
    BY <1>2, <2>1, RestShape DEF NextPass, env
  <2>2. CASE phase < 4 /\ phase' = phase + 1 /\ todo' = Listed(phase + 1)
             /\ UNCHANGED <<at, cur, obj, left, tries>>
    <3>1. Open'
      BY <1>2, <2>2, BoundsAssumption DEF NextPass, Listed, env, Open, TypeOK
    <3>2. QED
      BY <1>2, <2>2, <3>1, StayShape DEF NextPass, env
  <2>3. QED
    BY <1>2, <2>1, <2>2 DEF NextPass
<1>3. ASSUME ListOk PROVE Shape'
  <2>1. /\ UNCHANGED <<chain, live, db, req, phase, todo, cur, obj>>
        /\ at = "list" /\ at' = "scan" /\ left' = Unrecorded(cur, obj)
    BY <1>3 DEF ListOk, env
  <2>2. \A t \in left' : t \in TxId /\ Of(t, cur) /\ obj.tx[t] = "absent"
    BY <2>1, BoundsAssumption DEF Unrecorded, Of, TxId, TypeOK
  <2>3. Own'
    BY <2>1, <2>2 DEF Own, Of
  <2>4. Ahead' /\ Open'
    BY <2>1, <2>2 DEF Ahead, Open
  <2>5. QED
    BY <2>1, <2>3, <2>4 DEF Coherent
<1>4. ASSUME ListFails PROVE Shape'
  BY <1>4, RestShape DEF ListFails, env
<1>5. ASSUME ScanDone PROVE Shape'
  <2>1. CASE at' = "next"
    BY <1>5, <2>1, StayShape DEF ScanDone, env, Open
  <2>2. CASE at' = "owed"
    BY <1>5, <2>2 DEF ScanDone, ThenRefund, Rejected, env, Own, Of, Coherent,
                      Ahead, Open
  <2>3. QED
    BY <1>5, <2>1, <2>2 DEF ScanDone, ThenRefund
<1>6. ASSUME NEW p \in Payment, TakeExtra(p) PROVE Shape'
  <2>1. CASE at' = "next"
    BY <1>6, <2>1, StayShape DEF TakeExtra, env, Open
  <2>2. CASE at' = "owed"
    BY <1>6, <2>2, TakeShape DEF TakeExtra, Fulfilling, env, Open
  <2>3. QED
    BY <1>6, <2>1, <2>2 DEF TakeExtra
<1>7. ASSUME NEW p \in Payment, TakeRequest(p) PROVE Shape'
  <2>1. CASE at' = "next"
    <3>1. Open'
      BY <1>7, <2>1 DEF TakeRequest, Open, TypeOK
    <3>2. QED
      BY <1>7, <2>1, <3>1, StayShape DEF TakeRequest
  <2>2. CASE at' = "owed"
    BY <1>7, <2>2, TakeShape DEF TakeRequest, Fulfilling, env, Open
  <2>3. QED
    BY <1>7, <2>1, <2>2 DEF TakeRequest
<1>8. ASSUME NEW t \in TxId, ScanFails(t) PROVE Shape'
  <2>1. /\ at = "scan" /\ at' = "scan" /\ t \in left /\ left' = left \ {t}
        /\ obj' = [obj EXCEPT !.tx[t] = "failed"]
        /\ UNCHANGED <<chain, live, db, req, phase, todo, cur>>
    BY <1>8 DEF ScanFails, IsFirst, env
  <2>2. obj \in PaymentRec /\ cur \in Payment /\ left \subseteq TxId
    BY <2>1 DEF TypeOK
  <2>3. /\ obj'.due = obj.due /\ obj'.refundExtra = obj.refundExtra
        /\ obj'.success = obj.success /\ obj'.extra = obj.extra
        /\ \A u \in TxId : obj'.tx[u] = IF u = t THEN "failed" ELSE obj.tx[u]
    BY <2>1, <2>2 DEF PaymentRec
  <2>4. \A u \in left : obj.tx[u] = "absent" /\ Of(u, cur)
    BY <2>1, <2>2 DEF Open, Own
  <2>5. Own'
    BY <2>1, <2>2, <2>3, <2>4 DEF Own, Of
  <2>6. Ahead' /\ Open'
    BY <2>1, <2>2, <2>3, <2>4 DEF Ahead, Open
  <2>7. QED
    BY <2>1, <2>5, <2>6 DEF Coherent
<1>9. ASSUME NEW t \in TxId, LookupOk(t) PROVE Shape'
  <2>1. CASE Settle(t)
    BY <1>9, <2>1, SettleShape DEF LookupOk, IsFirst
  <2>2. CASE at' = "send" /\ UNCHANGED <<env, db, locals>>
    BY <1>9, <2>2, StayShape DEF LookupOk, env, locals, Open
  <2>3. QED
    BY <1>9, <2>1, <2>2 DEF LookupOk
<1>10. ASSUME NEW t \in TxId, TransferReturns(t) PROVE Shape'
  BY <1>10, SettleShape DEF TransferReturns, IsFirst
<1>11. ASSUME LookupFails PROVE Shape'
  BY <1>11, GiveUpShape, RestShape DEF LookupFails, env
<1>12. ASSUME Retry, at = "send" PROVE Shape'
  <2>1. CASE tries + 1 < Retries
    BY <1>12, <2>1, StayShape DEF Retry, env, Open
  <2>2. CASE ~(tries + 1 < Retries)
    BY <1>12, <2>2, GiveUpShape DEF Retry
  <2>3. QED
    BY <2>1, <2>2
<1>13. ASSUME NEW t \in TxId, TransferOk(t) PROVE Shape'
  BY <1>13, StayShape DEF TransferOk, env, locals, Open
<1>14. QED
  BY <1>1, <1>2, <1>3, <1>4, <1>5, <1>6, <1>7, <1>8, <1>9, <1>10, <1>11, <1>12,
     <1>13, ScanShape, TakePaymentShape DEF Job, TransferFails, TransferLost

\* Every step keeps the shape of what is stored.
LEMMA ShapeStep ==
    ASSUME TypeOK, Shape, [Next]_vars
    PROVE  Shape'
<1>1. ASSUME Kill PROVE Shape'
  BY <1>1, RestShape DEF Kill
<1>2. ASSUME UNCHANGED vars PROVE Shape'
  BY <1>2 DEF vars, Shape, Own, Of, Coherent, Ahead, Open
<1>3. QED
  BY <1>1, <1>2, CallerShape, JobShape DEF Next

------------------------------------------------------------------------------
(* The store only moves forward. *)

\* What a saved record may do to the one before it.
Forward(r, s) ==
    \A t \in TxId :
        /\ r.tx[t] = "success" => s.tx[t] = "success" /\ (s.extra => r.extra)
        /\ r.tx[t] = "refunded" => s.tx[t] = "refunded"
        /\ r.tx[t] = "failed" => s.tx[t] \in {"failed", "refunded"}

\* A step changes at most one stored payment, and only forward.
Saves == \/ UNCHANGED db
         \/ \E p \in Payment, r \in PaymentRec :
                db' = [db EXCEPT ![p] = r] /\ Forward(db[p], r)

\* Settling saves no more than the promise allows.
LEMMA SettleSaves ==
    ASSUME TypeOK, Shape, at \in {"owed", "paid"}, NEW t \in left, Settle(t)
    PROVE  Saves
<1> DEFINE o == IF phase = 2 THEN [obj EXCEPT !.extra = FALSE]
                ELSE IF phase = 3 THEN [obj EXCEPT !.tx[t] = "refunded"]
                ELSE obj
<1>1. obj \in PaymentRec /\ cur \in Payment /\ t \in TxId
  BY DEF TypeOK
<1>2. o \in PaymentRec
  BY <1>1, JudgeType
<1>3. /\ o.extra => obj.extra
      /\ \A u \in TxId : o.tx[u] = IF u = t /\ phase = 3 THEN "refunded" ELSE obj.tx[u]
  BY <1>1 DEF PaymentRec
<1>4. db' = [db EXCEPT ![cur] = o]
  BY DEF Settle
<1>5. phase = 3 => obj.tx[t] = "failed"
  BY DEF Shape, Open
<1> HIDE DEF o
<1>6. Forward(db[cur], o)
  BY <1>3, <1>5 DEF Forward, Shape, Ahead
<1>7. QED
  BY <1>1, <1>2, <1>4, <1>6 DEF Saves

\* So does giving up.
LEMMA GiveUpSaves ==
    ASSUME TypeOK, Shape, at \in {"owed", "send"}, GiveUp
    PROVE  Saves
<1>1. obj \in PaymentRec /\ cur \in Payment /\ db' = [db EXCEPT ![cur] = obj]
  BY DEF TypeOK, GiveUp
<1>2. Forward(db[cur], obj)
  BY DEF Forward, Shape, Ahead
<1>3. QED
  BY <1>1, <1>2 DEF Saves

\* And so does looking at a transaction.
LEMMA ScanSaves ==
    ASSUME TypeOK, Shape, NEW t \in TxId, ScanOk(t)
    PROVE  Saves
<1>1. /\ at = "scan" /\ t \in left /\ obj' = Judge(obj, t)
      /\ db' = [db EXCEPT ![cur] = obj']
  BY DEF ScanOk, IsFirst
<1>2. obj \in PaymentRec /\ cur \in Payment /\ obj' \in PaymentRec
  BY <1>1, JudgeType DEF TypeOK
<1>3. /\ \A u \in TxId : u # t => obj'.tx[u] = obj.tx[u]
      /\ \/ obj'.tx[t] = "failed" /\ obj'.extra = obj.extra
         \/ obj'.tx[t] = "success" /\ ~obj.success
  BY <1>1, <1>2, JudgeFields
<1>4. obj.tx[t] = "absent"
  BY <1>1 DEF Shape, Open
<1>5. \A u \in TxId : db[cur].tx[u] = "success" => obj.success
  BY <1>1, <1>2 DEF Shape, Coherent, Ahead
<1>6. Forward(db[cur], obj')
  BY <1>1, <1>3, <1>4, <1>5 DEF Forward, Shape, Ahead
<1>7. QED
  BY <1>1, <1>2, <1>6 DEF Saves

\* Every step saves no more than the promise allows.
LEMMA StepSaves ==
    ASSUME TypeOK, Shape, [Next]_vars
    PROVE  Saves
<1>1. ASSUME NEW p \in Payment, NEW d \in Dues, NEW re \in BOOLEAN, Submit(p, d, re)
      PROVE  Saves
  <2> DEFINE new == [Blank EXCEPT !.due = d, !.refundExtra = re]
  <2>1. new \in PaymentRec
    BY BlankType, AmountsAssumption DEF PaymentRec
  <2>2. p \notin live /\ db' = [db EXCEPT ![p] = new]
    BY <1>1 DEF Submit
  <2>3. \A t \in TxId : db[p].tx[t] = "absent"
    BY <2>2 DEF Shape, Own, Of
  <2> HIDE DEF new
  <2>4. QED
    BY <2>1, <2>2, <2>3 DEF Saves, Forward
<1>2. ASSUME Caller PROVE Saves
  BY <1>1, <1>2 DEF Caller, Land, IssueRefund, Expire, WaitStart, WaitReturn, Saves
<1>3. ASSUME NEW p \in Payment, TakePayment(p) PROVE Saves
  <2>1. CASE UNCHANGED db
    BY <2>1 DEF Saves
  <2>2. CASE db' = [db EXCEPT ![p].success = TRUE]
    <3> DEFINE new == [db[p] EXCEPT !.success = TRUE]
    <3>0. db[p] \in PaymentRec
      BY DEF TypeOK
    <3>1. new \in PaymentRec
      BY <3>0 DEF PaymentRec
    <3>2. new.tx = db[p].tx /\ new.extra = db[p].extra
      BY <3>0 DEF PaymentRec
    <3>3. db' = [db EXCEPT ![p] = new]
      BY <2>2
    <3> HIDE DEF new
    <3>4. QED
      BY <3>1, <3>2, <3>3 DEF Saves, Forward
  <2>3. QED
    BY <1>3, <2>1, <2>2 DEF TakePayment
<1>4. ASSUME NEW t \in TxId, LookupOk(t) \/ TransferReturns(t) PROVE Saves
  BY <1>4, SettleSaves DEF LookupOk, TransferReturns, IsFirst, Saves
<1>5. ASSUME LookupFails PROVE Saves
  BY <1>5, GiveUpSaves DEF LookupFails, Saves
<1>6. ASSUME Retry, at = "send" PROVE Saves
  BY <1>6, GiveUpSaves DEF Retry, Saves
<1>7. CASE Job
  BY <1>7, <1>3, <1>4, <1>5, <1>6, ScanSaves
     DEF Job, StartJob, NextPass, ListOk, ListFails, ScanDone, TakeExtra,
         TakeRequest, ScanFails, TransferFails, TransferOk, TransferLost, Saves
<1>8. CASE Kill \/ UNCHANGED vars
  BY <1>8 DEF Kill, vars, Saves
<1>9. QED
  BY <1>2, <1>7, <1>8 DEF Next

\* A refund request that is done stays done.
LEMMA RequestsStayDone ==
    ASSUME TypeOK, [Next]_vars, NEW p \in Payment, req[p].state = "done"
    PROVE  req'[p].state = "done"
<1>1. CASE UNCHANGED req
  BY <1>1
<1>2. ASSUME NEW q \in Payment, NEW w, req[q].state = "none",
             req' = [req EXCEPT ![q] = [state |-> "active", want |-> w]]
      PROVE  req'[p].state = "done"
  BY <1>2 DEF TypeOK
<1>3. ASSUME NEW q, req' = [req EXCEPT ![q].state = "done"]
      PROVE  req'[p].state = "done"
  BY <1>3 DEF TypeOK
<1>4. CASE Caller
  BY <1>1, <1>2, <1>4
     DEF Caller, Submit, Land, IssueRefund, Expire, WaitStart, WaitReturn
<1>5. ASSUME NEW t \in TxId, Settle(t) PROVE req'[p].state = "done"
  BY <1>1, <1>3, <1>5 DEF Settle
<1>6. CASE Job
  BY <1>1, <1>3, <1>5, <1>6
     DEF Job, env, StartJob, NextPass, TakePayment, ListOk, ListFails, ScanOk,
         ScanFails, ScanDone, TakeExtra, TakeRequest, GiveUp, LookupOk, LookupFails,
         TransferOk, Retry, TransferFails, TransferLost, TransferReturns
<1>7. CASE Kill \/ UNCHANGED vars
  BY <1>1, <1>7 DEF Kill, vars
<1>8. QED
  BY <1>4, <1>6, <1>7 DEF Next

\* A settled claim stays settled.
LEMMA SettledStays ==
    ASSUME TypeOK, Shape, [Next]_vars, NEW k \in Claim, NEW t \in TxId, Settled(k, t)
    PROVE  Settled(k, t)'
<1>1. PICK p \in Payment :
          \/ k = "refund" /\ db[p].tx[t] = "refunded"
          \/ k = "extra" /\ db[p].tx[t] = "success" /\ ~db[p].extra
          \/ k = "request" /\ db[p].tx[t] = "success" /\ req[p].state = "done"
  BY DEF Settled
<1>2. /\ db[p].tx[t] = "success" =>
             db'[p].tx[t] = "success" /\ (~db[p].extra => ~db'[p].extra)
      /\ db[p].tx[t] = "refunded" => db'[p].tx[t] = "refunded"
  BY StepSaves DEF Saves, Forward, TypeOK
<1>3. QED
  BY <1>1, <1>2, RequestsStayDone DEF Settled

\* What is about to be paid is not settled.
LEMMA SendIsOpen ==
    ASSUME TypeOK, Shape, at = "send", NEW t \in left
    PROVE  ~Settled(ClaimOf(phase), t)
<1>1. t \in TxId /\ Of(t, cur) /\ cur \in Payment
  BY DEF TypeOK, Shape, Own
<1>2. \A p \in Payment : db[p].tx[t] # "absent" => p = cur
  BY <1>1 DEF Shape, Own, Of
<1>3. \/ phase = 2 /\ db[cur].extra
      \/ phase = 3 /\ db[cur].tx[t] # "refunded"
      \/ phase = 4 /\ req[cur].state = "active"
  BY <1>1 DEF Shape, Open, Ahead
<1>4. QED
  BY <1>2, <1>3 DEF Settled, ClaimOf

------------------------------------------------------------------------------
(* The count of the transfers. *)

\* What is settled after it was paid is settled for the reason it was paid for.
LEMMA SettlePays ==
    ASSUME TypeOK, Shape, at = "paid", NEW t \in TxId, IsFirst(t, left), Settle(t)
    PROVE  Settled(ClaimOf(phase), t)'
<1>1. t \in left /\ cur \in Payment /\ obj \in PaymentRec
  BY DEF TypeOK, IsFirst
<1> DEFINE o == IF phase = 2 THEN [obj EXCEPT !.extra = FALSE]
                ELSE IF phase = 3 THEN [obj EXCEPT !.tx[t] = "refunded"]
                ELSE obj
<1>2. db'[cur] = o
  BY <1>1 DEF Settle, TypeOK
<1>3. CASE phase = 2
  <2>1. o.tx[t] = "success" /\ ~o.extra
    BY <1>1, <1>3 DEF Shape, Open, PaymentRec
  <2>2. QED
    BY <1>1, <1>2, <1>3, <2>1 DEF Settled, Settle, ClaimOf
<1>4. CASE phase = 3
  <2>1. o.tx[t] = "refunded"
    BY <1>1, <1>4 DEF PaymentRec
  <2>2. phase' = 3
    BY <1>4 DEF Settle
  <2>3. db'[cur].tx[t] = "refunded"
    BY <1>2, <2>1
  <2>4. ClaimOf(phase) = "refund" /\ ClaimOf(phase)' = "refund"
    BY <1>4, <2>2 DEF ClaimOf
  <2>5. QED
    BY <1>1, <2>3, <2>4 DEF Settled
<1>5. CASE phase = 4
  <2>1. o.tx[t] = "success"
    BY <1>1, <1>5 DEF Shape, Open
  <2>2. req'[cur].state = "done"
    BY <1>1, <1>5 DEF Settle, TypeOK
  <2>3. phase' = 4
    BY <1>5 DEF Settle
  <2>4. QED
    BY <1>1, <1>2, <1>5, <2>1, <2>2, <2>3 DEF Settled, ClaimOf
<1>6. QED
  BY <1>3, <1>4, <1>5 DEF Shape, Open

\* Every step keeps the count of what was sent below the faults there were.
LEMMA CountStep ==
    ASSUME TypeOK, Shape, Counted, [Next]_vars
    PROVE  Counted'
<1> SUFFICES ASSUME NEW k \in Claim, NEW t \in TxId
             PROVE  /\ sent'[k][t] <= 1 + faults'
                    /\ sent'[k][t] = 1 + faults' => Settled(k, t)' \/ Paying(k, t)'
  BY DEF Counted
<1>1. /\ sent[k][t] \in Nat /\ faults \in Nat
      /\ sent[k][t] <= 1 + faults
      /\ sent[k][t] = 1 + faults => Settled(k, t) \/ Paying(k, t)
  BY BoundsAssumption DEF Counted, TypeOK
<1>2. Settled(k, t) => Settled(k, t)'
  BY SettledStays
<1>3. ASSUME UNCHANGED sent, faults' = faults,
             Paying(k, t) => Settled(k, t)' \/ Paying(k, t)'
      PROVE  /\ sent'[k][t] <= 1 + faults'
             /\ sent'[k][t] = 1 + faults' => Settled(k, t)' \/ Paying(k, t)'
  BY <1>1, <1>2, <1>3
<1>4. ASSUME UNCHANGED sent, faults' = faults + 1
      PROVE  /\ sent'[k][t] <= 1 + faults'
             /\ sent'[k][t] = 1 + faults' => Settled(k, t)' \/ Paying(k, t)'
  BY <1>1, <1>4
<1>5. ASSUME NEW u \in TxId, at = "send", IsFirst(u, left), Pay(u)
      PROVE  /\ sent'[k][t] \in {sent[k][t], sent[k][t] + 1}
             /\ sent'[k][t] = sent[k][t] \/ (sent[k][t] <= faults /\ k = ClaimOf(phase) /\ t = u)
             /\ ~Paying(k, t)
  <2>1. ~Paying(k, t)
    BY <1>5 DEF Paying
  <2>2. sent'[k][t] = IF k = ClaimOf(phase) /\ t = u THEN sent[k][t] + 1 ELSE sent[k][t]
    BY <1>5 DEF Pay, TypeOK
  <2>3. k = ClaimOf(phase) /\ t = u => ~Settled(k, t)
    BY <1>5, SendIsOpen DEF IsFirst
  <2>4. QED
    BY <1>1, <2>1, <2>2, <2>3
<1>6. ASSUME NEW u \in TxId, TransferOk(u)
      PROVE  /\ sent'[k][t] <= 1 + faults'
             /\ sent'[k][t] = 1 + faults' => Settled(k, t)' \/ Paying(k, t)'
  <2>1. at = "send" /\ IsFirst(u, left) /\ Pay(u) /\ at' = "paid"
        /\ UNCHANGED <<faults, phase, left>>
    BY <1>6 DEF TransferOk, locals
  <2>2. k = ClaimOf(phase) /\ t = u => Paying(k, t)'
    BY <2>1 DEF Paying, IsFirst
  <2>3. QED
    BY <1>1, <1>2, <1>5, <2>1, <2>2
<1>7. ASSUME NEW u \in TxId, TransferLost(u)
      PROVE  /\ sent'[k][t] <= 1 + faults'
             /\ sent'[k][t] = 1 + faults' => Settled(k, t)' \/ Paying(k, t)'
  <2>1. at = "send" /\ IsFirst(u, left) /\ Pay(u) /\ faults' = faults + 1
    BY <1>7 DEF TransferLost
  <2>2. QED
    BY <1>1, <1>2, <1>5, <2>1
<1>8. ASSUME NEW u \in TxId, TransferReturns(u)
      PROVE  Paying(k, t) => Settled(k, t)'
  <2>1. ASSUME Paying(k, t) PROVE u = t /\ k = ClaimOf(phase)
    BY <1>8, <2>1 DEF TransferReturns, Paying, IsFirst, TxId
  <2>2. QED
    BY <1>8, <2>1, SettlePays DEF TransferReturns, Settle
<1>9. ASSUME Caller \/ UNCHANGED vars
      PROVE  UNCHANGED <<sent, faults>> /\ (Paying(k, t) => Paying(k, t)')
  BY <1>9 DEF Caller, Submit, Land, IssueRefund, Expire, WaitStart, WaitReturn,
              Idle, money, locals, vars, Paying, IsFirst
<1>10. ASSUME Job, \A u \in TxId : ~(TransferOk(u) \/ TransferLost(u) \/ TransferReturns(u))
       PROVE  UNCHANGED <<sent, faults>> /\ ~Paying(k, t)
  BY <1>10 DEF Job, StartJob, NextPass, ListOk, ListFails, ScanDone, LookupFails,
               TransferFails, TakePayment, TakeExtra, TakeRequest, ScanOk, ScanFails,
               LookupOk, money, Paying
<1>11. CASE Kill
  BY <1>4, <1>11 DEF Kill, money
<1>12. CASE Caller \/ UNCHANGED vars
  BY <1>3, <1>9, <1>12
<1>13. CASE Job
  <2>1. CASE \E u \in TxId : TransferReturns(u)
    BY <1>3, <1>8, <2>1 DEF TransferReturns, money
  <2>2. CASE \A u \in TxId : ~(TransferOk(u) \/ TransferLost(u) \/ TransferReturns(u))
    BY <1>3, <1>10, <1>13, <2>2
  <2>3. QED
    BY <1>6, <1>7, <2>1, <2>2
<1>14. QED
  BY <1>11, <1>12, <1>13 DEF Next

------------------------------------------------------------------------------
(* The theorems. *)

\* The invariant holds at first.
LEMMA InitHolds == Init => IInv
<1> SUFFICES ASSUME Init PROVE IInv
  OBVIOUS
<1> USE BoundsAssumption DEF Init
<1>1. TypeOK
  BY BlankType DEF TypeOK
<1>2. Own /\ Ahead /\ Open
  BY DEF Own, Ahead, Open, Blank
<1>3. \A p \in Payment : Coherent(db[p])
  BY DEF Coherent, Blank
<1>4. Counted
  BY DEF Counted
<1>5. QED
  BY <1>1, <1>2, <1>3, <1>4 DEF IInv

\* Every step keeps it.
LEMMA StepHolds == IInv /\ [Next]_vars => IInv'
BY TypeStep, ShapeStep, CountStep DEF IInv, Shape

\* The inductive invariant holds in every state.
THEOREM Invariance == Spec => []IInv
BY InitHolds, StepHolds, PTL DEF Spec

\* Every variable of the billing sal keeps its type, whatever the bounds.
THEOREM TypeCorrect == Spec => []TypeOK
<1>1. IInv => TypeOK
  BY DEF IInv
<1>2. QED
  BY <1>1, Invariance, PTL

\* refund, refund_extra and apply send money again for a reason already paid at
\* most once per kill or lost answer, for any number of payments, passes of the
\* job and retries.
THEOREM PaidOnce == Spec => []DuplicatesNeedFaults
<1>1. IInv => DuplicatesNeedFaults
  BY DEF IInv, Counted, DuplicatesNeedFaults
<1>2. QED
  BY <1>1, Invariance, PTL

\* update_status lets at most one transaction fulfil a payment, one of its own
\* that covers the amount.
THEOREM FulfilledOnce == Spec => []OneFulfils
<1>1. ASSUME IInv, NEW p \in Payment
      PROVE  /\ \A t, u \in Fulfilling(db[p]) : t = u
             /\ \A t \in Fulfilling(db[p]) :
                    t <= Len(chain) /\ chain[t].to = p /\ chain[t].amount >= db[p].due
             /\ Fulfilling(db[p]) # {} => db[p].success
             /\ db[p].success => Fulfilling(db[p]) # {} \/ db[p].due = 0
  <2>1. Coherent(db[p])
    BY <1>1 DEF IInv
  <2>2. \A t \in Fulfilling(db[p]) : t \in TxId /\ db[p].tx[t] = "success" /\ Of(t, p)
    BY <1>1 DEF Fulfilling, IInv, Own
  <2>3. Len(chain) \in Nat
    BY <1>1 DEF IInv, TypeOK
  <2>4. QED
    BY <2>1, <2>2, <2>3 DEF Coherent, Of, Fulfilling
<1>2. IInv => OneFulfils
  BY <1>1 DEF OneFulfils
<1>3. QED
  BY <1>2, Invariance, PTL

\* The stored payments implement BillingPromise: no fate of a transaction is
\* ever taken back, and a payment keeps at most one.
THEOREM Implements == Spec => KeepsPromise
<1> DEFINE fate == [p \in Payment |-> [t \in TxId |-> FateOf(db[p].tx[t])]]
<1>1. Init => Promise!Init
  BY DEF Init, Blank, FateOf, Promise!Init
<1>2. ASSUME IInv, IInv', [Next]_vars
      PROVE  [Promise!Next]_fate
  <2>1. CASE UNCHANGED db
    BY <2>1
  <2>2. ASSUME NEW p \in Payment, NEW r \in PaymentRec,
               db' = [db EXCEPT ![p] = r], Forward(db[p], r)
        PROVE  Promise!Next
    <3> DEFINE g == [t \in TxId |-> FateOf(r.tx[t])]
    <3>1. db'[p] = r /\ \A q \in Payment : q # p => db'[q] = db[q]
      BY <1>2, <2>2 DEF IInv, TypeOK
    <3>2. fate' = [fate EXCEPT ![p] = g]
      BY <3>1
    <3>3. g \in [TxId -> Promise!Fate]
      BY DEF FateOf, Promise!Fate
    <3>4. Coherent(r)'
      BY <1>2, <3>1 DEF IInv
    <3>5. \A t, u \in TxId : g[t] = "kept" /\ g[u] = "kept" => t = u
      BY <3>4 DEF Coherent, FateOf
    <3>6. \A t \in TxId : db[p].tx[t] \in TxStatus /\ r.tx[t] \in TxStatus
      BY <1>2, <2>2 DEF IInv, TypeOK, PaymentRec
    <3>7. ASSUME NEW t \in TxId
          PROVE  \/ g[t] = fate[p][t]
                 \/ fate[p][t] = "open"
                 \/ fate[p][t] = "rejected" /\ g[t] = "returned"
      <4>1. g[t] = FateOf(r.tx[t]) /\ fate[p][t] = FateOf(db[p].tx[t])
        OBVIOUS
      <4>2. \/ db[p].tx[t] = "absent"
            \/ db[p].tx[t] = r.tx[t]
            \/ db[p].tx[t] = "failed" /\ r.tx[t] = "refunded"
        BY <2>2, <3>6 DEF Forward, TxStatus
      <4> HIDE DEF g, fate
      <4>3. QED
        BY <4>1, <4>2 DEF FateOf
    <3>8. Promise!Onward(fate[p], g)
      <4> HIDE DEF g, fate
      <4> QED  BY <3>3, <3>5, <3>7
               DEF Promise!Onward, Promise!AtMostOne, Promise!Kept
    <3>9. QED
      BY <3>2, <3>3, <3>8 DEF Promise!Next
  <2>3. QED
    BY <1>2, <2>1, <2>2, StepSaves DEF IInv, Shape, Saves
<1>3. QED
  BY <1>1, <1>2, Invariance, PTL DEF Spec, KeepsPromise, Promise!Spec

-----------------------------------------------------------------------------
(* What becomes of the money.                                              *)

\* The payment p is finished, and update_status is not going through it.
Final(p) == /\ p \in live /\ Finished(p, db[p])
            /\ ~(cur = p /\ at \in {"list", "scan"})

\* The amount of p's refund request for transaction t.
WantOf(p, t) == IF req[p].want > 0 THEN req[p].want
                ELSE IF db[p].refundExtra THEN db[p].due ELSE chain[t].amount

\* The most that was given back for transaction t of p, if nothing went wrong.
Given(p, t) ==
    (IF sent["refund"][t] > 0 THEN chain[t].amount ELSE 0)
    + (IF sent["extra"][t] > 0 THEN chain[t].amount - db[p].due ELSE 0)
    + (IF sent["request"][t] > 0 THEN WantOf(p, t) ELSE 0)

\* Why money was sent, for each of the three reasons.
Reasons(p, t) ==
    /\ sent["refund"][t] > 0 =>
           db[p].tx[t] # "success" /\ (db[p].tx[t] = "absent" => Final(p))
    /\ sent["extra"][t] > 0 => db[p].tx[t] = "success" /\ db[p].refundExtra
    /\ sent["request"][t] > 0 => db[p].tx[t] = "success" /\ req[p].state # "none"

\* What is marked as settled, for each of the three.
Marks(p, t) ==
    /\ db[p].tx[t] = "refunded" => sent["refund"][t] > 0 \/ chain[t].amount <= Fee
    /\ db[p].tx[t] = "success" /\ db[p].refundExtra /\ ~db[p].extra =>
           sent["extra"][t] > 0 \/ chain[t].amount - db[p].due <= Fee
    /\ db[p].tx[t] = "success" /\ req[p].state = "done" =>
           sent["request"][t] > 0 \/ WantOf(p, t) <= Fee

Account(p, t) == Reasons(p, t) /\ Marks(p, t) /\ (faults = 0 => back[t] <= Given(p, t))

Accounts == \A p \in Payment, t \in TxId : Of(t, p) => Account(p, t)

\* Nothing is sent for a transaction that is not on the ledger.
Unspent == \A t \in TxId : t \notin 1..Len(chain) =>
               back[t] = 0 /\ \A k \in Claim : sent[k][t] = 0

DoneIsFinal == \A p \in Payment : req[p].state = "done" => Final(p)

\* The job gives money back for finished payments, an extra only to those who
\* asked for it, and has sent what it is about to mark as paid.
Closing ==
    /\ at \in {"owed", "send", "paid"} => Finished(cur, db[cur])
    /\ at = "paid" => \A t \in left : IsFirst(t, left) => sent[ClaimOf(phase)][t] > 0
    /\ at # "rest" /\ phase = 2 => \A p \in todo : db[p].refundExtra
    /\ at \in {"owed", "send", "paid"} /\ phase = 2 => db[cur].refundExtra

Money == Accounts /\ Unspent /\ DoneIsFinal /\ Closing

MInv == IInv /\ Money

------------------------------------------------------------------------------
(* Payments of which a step changes nothing that money depends on. *)

\* The payment p keeps its terms, and is not looked through once finished.
Still(p) ==
    /\ p \in live' /\ (p \in expired => p \in expired')
    /\ db'[p].due = db[p].due /\ db'[p].refundExtra = db[p].refundExtra
    /\ db[p].success => db'[p].success
    /\ cur' = p /\ at' \in {"list", "scan"} =>
           (cur = p /\ at \in {"list", "scan"}) \/ ~Finished(p, db[p])

\* A payment that is finished stays so while nothing happens to it.
LEMMA FinalStays ==
    ASSUME NEW p, Still(p), Final(p)
    PROVE  Final(p)'
BY DEF Still, Final, Finished

\* No money moves for transaction t, and none is marked.
Quiet(p, t) ==
    /\ Still(p)
    /\ chain'[t] = chain[t] /\ back'[t] = back[t]
    /\ \A k \in Claim : sent'[k][t] = sent[k][t]
    /\ faults' = 0 => faults = 0
    /\ db[p].tx[t] = "success" /\ db[p].extra => db'[p].extra
    /\ db'[p].tx[t] = db[p].tx[t] \/ (db[p].tx[t] = "absent" /\ db'[p].tx[t] = "failed")
    /\ \/ req'[p] = req[p]
       \/ req[p].state = "none" /\ req'[p].state = "active"
       \/ db[p].tx[t] # "success" /\ req'[p].state # "none"

\* Where no money moves the account of a transaction stays.
LEMMA QuietAccount ==
    ASSUME NEW p \in Payment, NEW t \in TxId, Account(p, t), Quiet(p, t)
    PROVE  Account(p, t)'
<1> USE DEF Quiet
<1>1. sent'["refund"][t] = sent["refund"][t] /\ sent'["extra"][t] = sent["extra"][t]
      /\ sent'["request"][t] = sent["request"][t]
  BY DEF Claim
<1>2. Reasons(p, t)'
  BY <1>1, FinalStays DEF Account, Reasons, Still
<1>3. sent["request"][t] > 0 \/ (db[p].tx[t] = "success" /\ req'[p].state = "done") =>
          WantOf(p, t)' = WantOf(p, t)
  BY DEF Account, Reasons, WantOf, Still
<1>4. Marks(p, t)'
  BY <1>1, <1>3 DEF Account, Marks, Still
<1>5. Given(p, t)' = Given(p, t)
  BY <1>1, <1>3 DEF Given, Still
<1>6. QED
  BY <1>2, <1>4, <1>5 DEF Account

\* A step that is quiet for every transaction on the ledger.
LEMMA QuietMoney ==
    ASSUME TypeOK, Shape, Money, UNCHANGED <<chain, sent, back>>,
           \A p \in Payment, t \in TxId : Of(t, p) => Quiet(p, t),
           \A p \in Payment : req'[p].state = "done" =>
               Final(p)' \/ (req[p].state = "done" /\ Still(p)),
           Closing'
    PROVE  Money'
<1>1. Accounts'
  BY QuietAccount DEF Money, Accounts, Of
<1>2. Unspent'
  BY DEF Money, Unspent
<1>3. DoneIsFinal'
  BY FinalStays DEF Money, DoneIsFinal
<1>4. QED
  BY <1>1, <1>2, <1>3 DEF Money

\* What a caller does moves no money of the job.
LEMMA CallerMoney ==
    ASSUME TypeOK, Shape, Money, Caller
    PROVE  Money'
<1>1. ASSUME NEW p \in Payment, NEW d \in Dues, NEW re \in BOOLEAN, Submit(p, d, re)
      PROVE  Money'
  <2>1. /\ p \notin live /\ live' = live \cup {p}
        /\ UNCHANGED <<chain, expired, req, sent, back, faults, at, phase, todo, cur, left>>
        /\ \A q \in Payment : q # p => db'[q] = db[q]
    BY <1>1 DEF Submit, Idle, locals, money, TypeOK
  <2>2. \A q \in live : q # p /\ q \in Payment /\ Still(q)
    BY <2>1 DEF Still, TypeOK
  <2>3. \A q \in Payment, t \in TxId : Of(t, q) => Quiet(q, t)
    BY <2>1, <2>2 DEF Quiet, Of, Shape, Own
  <2>4. \A q \in Payment : req'[q].state = "done" => req[q].state = "done" /\ Still(q)
    BY <2>1, <2>2 DEF Money, DoneIsFinal, Final
  <2>5. \A q \in todo \cup {cur} : q # None => q \in live
    BY DEF TypeOK
  <2>6. Closing'
    BY <2>1, <2>2, <2>5 DEF Money, Closing, Finished, TypeOK
  <2>7. QED
    BY <2>1, <2>3, <2>4, <2>6, QuietMoney
<1>2. ASSUME NEW p \in Payment, NEW a \in Amounts, Land(p, a)
      PROVE  Money'
  <2>1. /\ Len(chain') = Len(chain) + 1 /\ Len(chain) \in Nat
        /\ \A i \in 1..Len(chain) : chain'[i] = chain[i]
        /\ UNCHANGED <<live, expired, db, req, sent, back, faults, at, phase, todo, cur, left>>
    BY <1>2 DEF Land, Idle, locals, money, TypeOK
  <2>2. \A q \in live : Still(q)
    BY <2>1 DEF Still
  <2>3. ASSUME NEW q \in Payment, NEW t \in TxId, Of(t, q)'
        PROVE  Account(q, t)'
    <3>1. CASE t \in 1..Len(chain)
      <4>1. Of(t, q) /\ q \in live /\ chain'[t] = chain[t]
        BY <2>1, <2>3, <3>1 DEF Of, Shape, Own
      <4>2. Quiet(q, t)
        BY <2>1, <2>2, <4>1 DEF Quiet
      <4>3. QED
        BY <4>1, <4>2, QuietAccount DEF Money, Accounts
    <3>2. CASE t \notin 1..Len(chain)
      <4>1. db'[q].tx[t] = "absent"
        BY <2>1, <3>2 DEF Shape, Own, Of
      <4>2. back'[t] = 0 /\ \A k \in Claim : sent'[k][t] = 0
        BY <2>1, <3>2 DEF Money, Unspent
      <4>3. QED
        BY <4>1, <4>2 DEF Account, Reasons, Marks, Given, Claim
    <3>3. QED
      BY <3>1, <3>2
  <2>4. Unspent'
    BY <2>1 DEF Money, Unspent
  <2>5. DoneIsFinal' /\ Closing'
    BY <2>1 DEF Money, DoneIsFinal, Closing, Final, Finished, IsFirst
  <2>6. QED
    BY <2>3, <2>4, <2>5 DEF Money, Accounts
<1>3. ASSUME NEW p \in Payment, NEW w \in Wants, IssueRefund(p, w)
      PROVE  Money'
  <2>1. /\ UNCHANGED <<chain, live, expired, db, sent, back, faults, at, phase, todo, cur, left>>
        /\ \A q \in Payment : \/ req'[q] = req[q]
                              \/ req[q].state = "none" /\ req'[q].state = "active"
    BY <1>3 DEF IssueRefund, Idle, locals, money, TypeOK
  <2>2. \A q \in live : Still(q)
    BY <2>1 DEF Still
  <2>3. \A q \in Payment, t \in TxId : Of(t, q) => Quiet(q, t)
    BY <2>1, <2>2 DEF Quiet, Of, Shape, Own
  <2>4. \A q \in Payment : req'[q].state = "done" => req[q].state = "done" /\ Still(q)
    BY <2>1, <2>2 DEF Money, DoneIsFinal, Final
  <2>5. Closing'
    BY <2>1 DEF Money, Closing, Finished, IsFirst
  <2>6. QED
    BY <2>1, <2>3, <2>4, <2>5, QuietMoney
<1>4. ASSUME NEW p \in Payment, Expire(p) \/ WaitStart(p) \/ WaitReturn(p)
      PROVE  Money'
  <2>1. /\ UNCHANGED <<chain, live, db, req, sent, back, faults, at, phase, todo, cur, left>>
        /\ expired \subseteq expired'
    BY <1>4 DEF Expire, WaitStart, WaitReturn, Idle, locals, money
  <2>2. \A q \in live : Still(q)
    BY <2>1 DEF Still
  <2>3. \A q \in Payment, t \in TxId : Of(t, q) => Quiet(q, t)
    BY <2>1, <2>2 DEF Quiet, Of, Shape, Own
  <2>4. \A q \in Payment : req'[q].state = "done" => req[q].state = "done" /\ Still(q)
    BY <2>1, <2>2 DEF Money, DoneIsFinal, Final
  <2>5. Closing'
    BY <2>1 DEF Money, Closing, Finished, IsFirst
  <2>6. QED
    BY <2>1, <2>3, <2>4, <2>5, QuietMoney
<1>5. QED
  BY <1>1, <1>2, <1>3, <1>4 DEF Caller

------------------------------------------------------------------------------
(* The job, while no money moves. *)

\* The job is cut off, by an exception or by a kill.
LEMMA RestMoney ==
    ASSUME TypeOK, Shape, Money, Rest, UNCHANGED <<chain, live, expired, db, req, money>>,
           faults' = 0 => faults = 0
    PROVE  Money'
<1>1. \A q \in live : Still(q)
  BY DEF Still, Rest
<1>2. \A q \in Payment, t \in TxId : Of(t, q) => Quiet(q, t)
  BY <1>1 DEF Quiet, Of, Shape, Own, money
<1>3. \A q \in Payment : req'[q].state = "done" => req[q].state = "done" /\ Still(q)
  BY <1>1 DEF Money, DoneIsFinal, Final
<1>4. Closing'
  BY DEF Rest, Closing
<1>5. QED
  BY <1>2, <1>3, <1>4, QuietMoney DEF money

\* Steps of the job that save nothing.
LEMMA UnsavedMoney ==
    ASSUME TypeOK, Shape, Money, UNCHANGED <<chain, live, expired, db, req, money, faults>>,
           Closing',
           \A p \in live : cur' = p /\ at' \in {"list", "scan"} =>
               (cur = p /\ at \in {"list", "scan"}) \/ ~Finished(p, db[p])
    PROVE  Money'
<1>1. \A q \in live : Still(q)
  BY DEF Still
<1>2. \A q \in Payment, t \in TxId : Of(t, q) => Quiet(q, t)
  BY <1>1 DEF Quiet, Of, Shape, Own, money
<1>3. \A q \in Payment : req'[q].state = "done" => req[q].state = "done" /\ Still(q)
  BY <1>1 DEF Money, DoneIsFinal, Final
<1>4. QED
  BY <1>2, <1>3, QuietMoney DEF money

\* Taking up a payment moves no money.
LEMMA TakePaymentMoney ==
    ASSUME TypeOK, Shape, Money, NEW p \in Payment, TakePayment(p)
    PROVE  Money'
<1>1. /\ at = "next" /\ phase \in {1, 3} /\ phase' = phase
      /\ UNCHANGED <<chain, live, expired, req, sent, back, faults>>
  BY DEF TakePayment, env, money
<1>2. CASE UNCHANGED db
  <2>1. Closing'
    BY <1>1, <1>2 DEF TakePayment, ThenRefund, Closing, Finished
  <2>2. \A q \in live : cur' = q /\ at' \in {"list", "scan"} => ~Finished(q, db[q])
    BY <1>1, <1>2 DEF TakePayment, ThenRefund, Finished
  <2>3. QED
    BY <1>1, <1>2, <2>1, <2>2, UnsavedMoney DEF money
<1>3. CASE /\ ~Finished(p, db[p]) /\ db' = [db EXCEPT ![p].success = TRUE]
           /\ ThenRefund(p, db'[p])
  <2> DEFINE new == [db[p] EXCEPT !.success = TRUE]
  <2>1. db[p] \in PaymentRec /\ \A q \in Payment : db'[q] = IF q = p THEN new ELSE db[q]
    BY <1>3 DEF TypeOK
  <2>2. /\ new.due = db[p].due /\ new.success /\ new.extra = db[p].extra
        /\ new.tx = db[p].tx /\ new.refundExtra = db[p].refundExtra
    BY <2>1 DEF PaymentRec
  <2> HIDE DEF new
  <2>3. \A q \in live : Still(q)
    BY <1>1, <1>3, <2>1, <2>2 DEF Still, ThenRefund, TypeOK
  <2>4. \A q \in Payment, t \in TxId : Of(t, q) => Quiet(q, t)
    BY <1>1, <2>1, <2>2, <2>3 DEF Quiet, Of, Shape, Own
  <2>5. \A q \in Payment : req'[q].state = "done" => req[q].state = "done" /\ Still(q)
    BY <1>1, <2>3 DEF Money, DoneIsFinal, Final
  <2>6. Closing'
    BY <1>1, <1>3, <2>1, <2>2 DEF ThenRefund, Closing, Finished
  <2>7. QED
    BY <1>1, <2>4, <2>5, <2>6, QuietMoney
<1>4. QED
  BY <1>2, <1>3 DEF TakePayment

\* Taking up a refund request moves no money.
LEMMA TakeRequestMoney ==
    ASSUME TypeOK, Shape, Money, NEW p \in Payment, TakeRequest(p)
    PROVE  Money'
<1>1. /\ at = "next" /\ phase = 4 /\ phase' = phase /\ p \in live
      /\ UNCHANGED <<chain, live, expired, db, sent, back, faults>>
  BY DEF TakeRequest, money, TypeOK
<1>2. at' \in {"next", "owed"} /\ (at' = "owed" => cur' = p /\ Finished(p, db[p]))
  BY <1>1 DEF TakeRequest
<1>3. \A q \in live : Still(q)
  BY <1>1, <1>2 DEF Still
<1>4. \A q \in Payment :
         \/ req'[q] = req[q]
         \/ /\ q = p /\ Finished(p, db[p]) /\ Fulfilling(db[p]) = {}
            /\ req'[q].state = "done"
  BY DEF TakeRequest, TypeOK
<1>5. \A q \in Payment, t \in TxId : Of(t, q) => Quiet(q, t)
  BY <1>1, <1>3, <1>4 DEF Quiet, Of, Shape, Own, Fulfilling
<1>6. \A q \in Payment : req'[q].state = "done" =>
          Final(q)' \/ (req[q].state = "done" /\ Still(q))
  BY <1>1, <1>2, <1>3, <1>4 DEF Money, DoneIsFinal, Final, Finished
<1>7. Closing'
  BY <1>1, <1>2 DEF Closing, Finished
<1>8. QED
  BY <1>1, <1>5, <1>6, <1>7, QuietMoney

\* Going from one thing to the next moves no money.
LEMMA PassMoney ==
    ASSUME TypeOK, Shape, Money,
           \/ StartJob \/ NextPass \/ ListOk \/ ListFails \/ ScanDone
           \/ \E p \in Payment : TakeExtra(p)
           \/ \E t \in TxId : ScanFails(t)
    PROVE  Money'
<1>1. CASE StartJob
  BY <1>1, UnsavedMoney DEF StartJob, env, Closing
<1>2. CASE NextPass
  <2>1. CASE Rest
    BY <1>2, <2>1, RestMoney DEF NextPass, env
  <2>2. CASE phase' = phase + 1 /\ todo' = Listed(phase + 1) /\ UNCHANGED <<at, cur, obj, left, tries>>
    <3>1. Closing'
      BY <1>2, <2>2 DEF NextPass, Listed, env, Closing
    <3>2. QED
      BY <1>2, <2>2, <3>1, UnsavedMoney DEF NextPass, env
  <2>3. QED
    BY <1>2, <2>1, <2>2 DEF NextPass
<1>3. CASE ListOk
  BY <1>3, UnsavedMoney DEF ListOk, env, Money, Closing, Finished, Shape, Open
<1>4. CASE ListFails
  BY <1>4, RestMoney DEF ListFails, env
<1>5. CASE ScanDone
  <2>1. /\ at = "scan" /\ phase \in {1, 3} /\ phase' = phase
        /\ UNCHANGED <<chain, live, expired, db, req, money, faults>>
    BY <1>5 DEF ScanDone, env, Shape, Open
  <2>2. at' = "next" \/ (at' = "owed" /\ cur' = cur /\ Finished(cur, obj))
    BY <1>5 DEF ScanDone, ThenRefund
  <2>3. obj.success = db[cur].success
    BY <2>1 DEF Shape, Ahead
  <2>4. Closing'
    BY <2>1, <2>2, <2>3 DEF Closing, Finished
  <2>5. QED
    BY <2>1, <2>2, <2>4, UnsavedMoney
<1>6. ASSUME NEW p \in Payment, TakeExtra(p)
      PROVE  Money'
  <2>1. Closing'
    BY <1>6 DEF TakeExtra, env, Money, Closing, Finished
  <2>2. QED
    BY <1>6, <2>1, UnsavedMoney DEF TakeExtra, env
<1>7. ASSUME NEW t \in TxId, ScanFails(t)
      PROVE  Money'
  <2>1. Closing'
    BY <1>7 DEF ScanFails, env, Shape, Open, Closing
  <2>2. QED
    BY <1>7, <2>1, UnsavedMoney DEF ScanFails, env
<1>8. QED
  BY <1>1, <1>2, <1>3, <1>4, <1>5, <1>6, <1>7

\* A step saves what a scan or a rejection left unsaved in the job's copy: no
\* transaction becomes the one that fulfilled its payment, or ceases to be.
Copies(p) ==
    /\ Still(p)
    /\ \A t \in TxId :
          /\ db[p].tx[t] = "success" /\ db[p].extra => db'[p].extra
          /\ \/ db'[p].tx[t] = db[p].tx[t]
             \/ db[p].tx[t] = "absent" /\ db'[p].tx[t] = "failed"

\* A payment that is given up is stored as it was or as the job has it.
LEMMA GiveUpCopies ==
    ASSUME TypeOK, Shape, Money, at \in {"owed", "send"}, GiveUp
    PROVE  /\ UNCHANGED <<chain, live, expired, req>> /\ at' = "next"
           /\ \A p \in live : Copies(p)
           /\ Closing'
<1>1. /\ UNCHANGED <<chain, live, expired, req, phase, todo>> /\ at' = "next"
      /\ db' = [db EXCEPT ![cur] = obj] /\ cur \in Payment
  BY DEF GiveUp, NextItem, env, TypeOK
<1>2. \A q \in Payment : db'[q] = IF q = cur THEN obj ELSE db[q]
  BY <1>1 DEF TypeOK
<1>3. \A q \in live : Copies(q)
  BY <1>1, <1>2 DEF Copies, Still, Shape, Ahead, TypeOK
<1>4. Closing'
  BY <1>1, <1>3 DEF Money, Closing, Copies, Still, TypeOK
<1>5. QED
  BY <1>1, <1>3, <1>4

\* Giving up moves no money.
LEMMA GiveUpMoney ==
    ASSUME TypeOK, Shape, Money, at \in {"owed", "send"}, GiveUp, UNCHANGED <<money, faults>>
    PROVE  Money'
<1>1. /\ UNCHANGED <<chain, live, expired, req>> /\ at' = "next"
      /\ \A p \in live : Copies(p)
      /\ Closing'
  BY GiveUpCopies
<1>2. \A q \in Payment, t \in TxId : Of(t, q) => Quiet(q, t)
  BY <1>1 DEF Quiet, Of, Shape, Own, Copies, money
<1>3. \A q \in Payment : req'[q].state = "done" => req[q].state = "done" /\ Still(q)
  BY <1>1 DEF Money, DoneIsFinal, Final, Copies
<1>4. QED
  BY <1>1, <1>2, <1>3, QuietMoney DEF money

\* update_status records and saves one transaction.
LEMMA ScanMoney ==
    ASSUME TypeOK, Shape, Money, NEW u \in TxId, ScanOk(u)
    PROVE  Money'
<1>1. /\ at = "scan" /\ at' = "scan" /\ u \in left /\ obj' = Judge(obj, u)
      /\ db' = [db EXCEPT ![cur] = obj'] /\ phase \in {1, 3}
      /\ UNCHANGED <<chain, live, expired, req, sent, back, faults, phase, todo, cur>>
  BY DEF ScanOk, IsFirst, env, money, Shape, Open
<1>2. obj \in PaymentRec /\ cur \in Payment /\ cur \in live
  BY <1>1 DEF TypeOK
<1>3. \A q \in Payment : db'[q] = IF q = cur THEN obj' ELSE db[q]
  BY <1>1, <1>2 DEF TypeOK
<1>4. obj.tx[u] = "absent" /\ db[cur].tx[u] = "absent" /\ Of(u, cur)
  BY <1>1 DEF Shape, Open, Own, Ahead
<1>5. /\ obj'.due = obj.due /\ obj'.refundExtra = obj.refundExtra
      /\ \A t \in TxId : t # u => obj'.tx[t] = obj.tx[t]
      /\ \/ /\ obj'.tx[u] = "failed" /\ obj'.success = obj.success
            /\ obj'.extra = obj.extra
         \/ /\ obj'.tx[u] = "success" /\ ~obj.success /\ obj'.success
            /\ ~(chain[u].amount < obj.due)
  BY <1>1, <1>2, JudgeFields
<1>6. ~Final(cur)
  BY <1>1 DEF Final
<1>7. \A q \in live : Still(q)
  BY <1>1, <1>2, <1>3, <1>5 DEF Still, Shape, Ahead, TypeOK
<1>8. ASSUME NEW q \in Payment, NEW t \in TxId, Of(t, q), q # cur \/ t # u
      PROVE  Account(q, t)'
  <2>1. q \in live
    BY <1>8 DEF Of, Shape, Own
  <2>2. CASE q # cur
    BY <1>1, <1>3, <1>7, <1>8, <2>1, <2>2, QuietAccount DEF Quiet, Money, Accounts
  <2>3. CASE q = cur /\ t # u
    <3>1. db[q].tx[t] = "success" => obj.success
      BY <1>1, <1>2, <2>3 DEF Shape, Coherent, Ahead
    <3>2. Quiet(q, t)
      BY <1>1, <1>3, <1>5, <1>7, <2>1, <2>3, <3>1 DEF Quiet, Shape, Ahead
    <3>3. QED
      BY <1>8, <3>2, QuietAccount DEF Money, Accounts
  <2>4. QED
    BY <1>8, <2>2, <2>3
<1>9. Account(cur, u)'
  <2>1. sent["refund"][u] = 0 /\ sent["extra"][u] = 0 /\ sent["request"][u] = 0
    <3>1. Reasons(cur, u)
      BY <1>2, <1>4 DEF Money, Accounts, Account
    <3>2. \A k \in Claim : sent[k][u] \in Nat
      BY DEF TypeOK
    <3>3. QED
      BY <1>4, <1>6, <3>1, <3>2 DEF Reasons, Claim
  <2>2. obj'.tx[u] = "success" /\ ~obj'.extra => chain[u].amount <= obj'.due
    <3>1. CASE obj.success \/ chain[u].amount < obj.due
      <4>1. obj'.tx[u] = "failed"
        BY <1>1, <1>2, <3>1 DEF Judge, PaymentRec
      <4>2. QED
        BY <4>1
    <3>2. CASE ~(obj.success \/ chain[u].amount < obj.due)
      <4> DEFINE more == chain[u].amount > obj.due
      <4>1. obj' = [obj EXCEPT !.tx[u] = "success", !.success = TRUE, !.extra = more]
        BY <1>1, <3>2 DEF Judge
      <4>2. more \in BOOLEAN
        OBVIOUS
      <4>3. chain[u].amount \in Nat /\ obj.due \in Nat
        <5>1. chain[u] \in [to : Payment, amount : Nat]
          BY <1>4, ElementOfSeq DEF Of, TypeOK
        <5>2. QED
          BY <5>1, <1>2 DEF PaymentRec
      <4>4. obj'.extra = more
        <5> HIDE DEF more
        <5>1. QED
          BY <1>2, <4>1, <4>2 DEF PaymentRec
      <4>5. ~obj'.extra => ~(chain[u].amount > obj.due)
        BY <4>4, Zenon
      <4>6. QED
        BY <1>5, <4>3, <4>5
    <3>3. QED
      BY <3>1, <3>2
  <2>3. req[cur].state # "done"
    BY <1>2, <1>6 DEF Money, DoneIsFinal
  <2>4. chain[u].amount \in Nat /\ obj'.due \in Nat /\ Fee \in Nat
    <3>1. chain[u] \in [to : Payment, amount : Nat]
      BY <1>4, ElementOfSeq DEF Of, TypeOK
    <3>2. QED
      BY <3>1, <1>2, <1>5, AmountsAssumption DEF PaymentRec
  <2>5. back[u] = back'[u] /\ (faults = 0 => back[u] <= 0)
    <3>1. Account(cur, u)
      BY <1>2, <1>4 DEF Money, Accounts
    <3>2. QED
      BY <1>1, <2>1, <3>1 DEF Account, Given
  <2>6. Reasons(cur, u)'
    BY <1>1, <2>1 DEF Reasons
  <2>7. Marks(cur, u)'
    BY <1>1, <1>2, <1>3, <1>5, <2>1, <2>2, <2>3, <2>4 DEF Marks
  <2>8. QED
    BY <1>1, <2>1, <2>5, <2>6, <2>7 DEF Account, Given
<1>10. Accounts'
  BY <1>1, <1>8, <1>9 DEF Accounts, Of
<1>11. Unspent' /\ DoneIsFinal'
  BY <1>1, <1>7, FinalStays DEF Money, Unspent, DoneIsFinal, Final
<1>12. Closing'
  BY <1>1 DEF Closing
<1>13. QED
  BY <1>10, <1>11, <1>12 DEF Money

------------------------------------------------------------------------------
(* The job, while money moves. *)

\* The mark goes on what was paid, or was too little to pay.
LEMMA SettleMoney ==
    ASSUME TypeOK, Shape, Money, at \in {"owed", "paid"}, NEW u \in left, Settle(u),
           UNCHANGED <<money, faults>>,
           Owed(u) <= Fee \/ sent[ClaimOf(phase)][u] > 0
    PROVE  Money'
<1> DEFINE o == IF phase = 2 THEN [obj EXCEPT !.extra = FALSE]
                ELSE IF phase = 3 THEN [obj EXCEPT !.tx[u] = "refunded"]
                ELSE obj
<1>1. /\ db' = [db EXCEPT ![cur] = o] /\ phase \in {2, 3, 4}
      /\ UNCHANGED <<chain, live, expired, sent, back, faults, phase, todo>>
      /\ \/ at' = "next" /\ cur' = None
         \/ at' = "owed" /\ cur' = cur
  BY DEF Settle, money, Shape, Open
<1>2. obj \in PaymentRec /\ cur \in Payment /\ cur \in live /\ u \in TxId /\ Of(u, cur)
  BY DEF TypeOK, Shape, Own
<1>0. PICK p \in Payment : p = cur
  BY <1>2
<1> USE <1>0
<1>3. /\ o.due = obj.due /\ o.refundExtra = obj.refundExtra /\ o.success = obj.success
      /\ \A t \in TxId : o.tx[t] = IF t = u /\ phase = 3 THEN "refunded" ELSE obj.tx[t]
  BY <1>2 DEF PaymentRec
<1>3b. phase # 2 => o.extra = obj.extra
  <2>1. [obj EXCEPT !.tx[u] = "refunded"].extra = obj.extra
    BY <1>2 DEF PaymentRec
  <2>2. QED
    BY <2>1
<1>4. \A q \in Payment : db'[q] = IF q = cur THEN o ELSE db[q]
  BY <1>1, <1>2 DEF TypeOK
<1>5. phase # 3 => obj.tx[u] = "success" /\ db[cur].tx[u] = "success"
  BY <1>1, <1>2 DEF Shape, Open, Ahead
<1>6. \A t \in TxId : t # u /\ phase # 3 => db[cur].tx[t] # "success"
  BY <1>2, <1>5 DEF Shape, Coherent
<1>7. req' = IF phase = 4 THEN [req EXCEPT ![cur].state = "done"] ELSE req
  BY DEF Settle
<1>8. \A q \in Payment : req'[q] = req[q] \/ (q = cur /\ phase = 4 /\ req'[q].state = "done")
  BY <1>2, <1>7 DEF TypeOK
<1> HIDE DEF o
<1>9. \A q \in live : Still(q)
  BY <1>1, <1>3, <1>4 DEF Still, Shape, Ahead, TypeOK
<1>10. ASSUME NEW q \in Payment, NEW t \in TxId, Of(t, q), q # cur \/ t # u
       PROVE  Account(q, t)'
  <2>1. q \in live
    BY <1>10 DEF Of, Shape, Own
  <2>2. CASE q # cur
    BY <1>1, <1>4, <1>8, <1>9, <1>10, <2>1, <2>2, QuietAccount DEF Quiet, Money, Accounts
  <2>3. CASE q = cur /\ t # u
    <3>1. Quiet(q, t)
      BY <1>1, <1>3, <1>3b, <1>4, <1>6, <1>8, <1>9, <2>1, <2>3 DEF Quiet, Shape, Ahead
    <3>2. QED
      BY <1>10, <3>1, QuietAccount DEF Money, Accounts
  <2>4. QED
    BY <1>10, <2>2, <2>3
<1>11. Account(p, u)'
  <2>1. /\ Account(p, u)
        /\ db'[p].due = db[p].due /\ db'[p].refundExtra = db[p].refundExtra
        /\ obj.due = db[p].due /\ obj.refundExtra = db[p].refundExtra
    BY <1>1, <1>2, <1>3, <1>4 DEF Money, Accounts, Shape, Ahead
  <2>2. CASE phase = 2
    <3>1. Owed(u) = chain[u].amount - db[p].due /\ ClaimOf(phase) = "extra"
      BY <2>1, <2>2 DEF Owed, ClaimOf
    <3>2. db'[p].tx[u] = "success" /\ db[p].tx[u] = "success" /\ req' = req
      BY <1>2, <1>3, <1>4, <1>5, <1>7, <2>2
    <3>3. Reasons(p, u)'
      BY <1>1, <2>1, <3>2 DEF Account, Reasons
    <3>4. Marks(p, u)'
      BY <1>1, <2>1, <3>1, <3>2 DEF Account, Marks, WantOf
    <3>5. Given(p, u)' = Given(p, u)
      BY <1>1, <2>1, <3>2 DEF Given, WantOf
    <3>6. QED
      BY <1>1, <2>1, <3>3, <3>4, <3>5 DEF Account
  <2>3. CASE phase = 3
    <3>1. Owed(u) = chain[u].amount /\ ClaimOf(phase) = "refund"
      BY <2>3 DEF Owed, ClaimOf
    <3>2. /\ db'[p].tx[u] = "refunded" /\ db[p].tx[u] \in {"absent", "failed"}
          /\ req' = req
      <4>1. obj.tx[u] = "failed"
        BY <2>3 DEF Shape, Open
      <4>2. QED
        BY <1>1, <1>2, <1>3, <1>4, <1>7, <2>3, <4>1 DEF Shape, Ahead
    <3>3. Reasons(p, u)'
      BY <1>1, <2>1, <3>2 DEF Account, Reasons
    <3>4. Marks(p, u)'
      BY <1>1, <3>1, <3>2 DEF Marks
    <3>5. Given(p, u)' = Given(p, u)
      BY <1>1, <2>1, <3>2 DEF Given, WantOf
    <3>6. QED
      BY <1>1, <2>1, <3>3, <3>4, <3>5 DEF Account
  <2>4. CASE phase = 4
    <3>1. Owed(u) = WantOf(p, u) /\ ClaimOf(phase) = "request"
      BY <2>1, <2>4 DEF Owed, Requested, WantOf, ClaimOf
    <3>2. /\ db'[p].tx[u] = "success" /\ db[p].tx[u] = "success"
          /\ req'[p].state = "done" /\ req'[p].want = req[p].want
          /\ db[p].extra => db'[p].extra
      BY <1>1, <1>2, <1>3, <1>3b, <1>4, <1>5, <1>7, <2>4 DEF TypeOK, Shape, Ahead
    <3>3. WantOf(p, u)' = WantOf(p, u)
      <4>1. WantOf(p, u)' = IF req'[p].want > 0 THEN req'[p].want
                ELSE IF db'[p].refundExtra THEN db'[p].due ELSE chain'[u].amount
        BY <1>1, <1>2, <2>4 DEF WantOf
      <4>2. QED
        BY <1>1, <2>1, <3>2, <4>1 DEF WantOf
    <3>4. Reasons(p, u)'
      BY <1>1, <2>1, <3>2 DEF Account, Reasons
    <3>5. Marks(p, u)'
      BY <1>1, <2>1, <3>1, <3>2, <3>3 DEF Account, Marks
    <3>6. Given(p, u)' = Given(p, u)
      BY <1>1, <2>1, <3>2, <3>3 DEF Given
    <3>7. QED
      BY <1>1, <2>1, <3>4, <3>5, <3>6 DEF Account
  <2>5. QED
    BY <1>1, <2>2, <2>3, <2>4
<1>12. Accounts'
  BY <1>1, <1>10, <1>11 DEF Accounts, Of
<1>13. Unspent'
  BY <1>1 DEF Money, Unspent
<1>14. Finished(p, db[p]) /\ Final(p)'
  <2>1. Finished(p, db[p])
    BY DEF Shape, Open, Money, Closing
  <2>2. QED
    BY <1>1, <1>2, <1>9, <2>1 DEF Final, Finished, Still
<1>15. DoneIsFinal'
  <2>1. ASSUME NEW q \in Payment, req'[q].state = "done"
        PROVE  Final(q)'
    <3>1. CASE q = p
      BY <1>14, <3>1
    <3>2. CASE q # p
      <4>1. Final(q) /\ q \in live
        BY <1>8, <2>1, <3>2 DEF Money, DoneIsFinal, Final
      <4>2. QED
        BY <1>9, <4>1, FinalStays
    <3>3. QED
      BY <3>1, <3>2
  <2>2. QED
    BY <2>1 DEF DoneIsFinal
<1>16. Closing'
  BY <1>1, <1>2, <1>9, <1>14 DEF Money, Closing, Final, Still, TypeOK
<1>17. QED
  BY <1>12, <1>13, <1>15, <1>16 DEF Money

\* The ledger takes a transfer, and the claim is settled, tried again or left.
LEMMA PayMoney ==
    ASSUME TypeOK, Shape, Counted, Money, at = "send", NEW u \in TxId, IsFirst(u, left), Pay(u),
           UNCHANGED <<chain, live, expired, req>>, at' \notin {"list", "scan"},
           \A p \in live : Copies(p),
           faults' = 0 => faults = 0 /\ db' = db,
           Closing'
    PROVE  Money'
<1>1. PICK p \in Payment : p = cur /\ p \in live /\ Of(u, p) /\ u \in left
  BY DEF TypeOK, Shape, Own, IsFirst
<1> DEFINE c == ClaimOf(phase)
<1>2. c \in Claim /\ \A k \in Claim, t \in TxId : sent[k][t] \in Nat
  BY DEF ClaimOf, Claim, TypeOK
<1>3. \A k \in Claim, t \in TxId :
         sent'[k][t] = IF k = c /\ t = u THEN sent[k][t] + 1 ELSE sent[k][t]
  BY <1>2 DEF Pay, TypeOK
<1>4. /\ \A t \in TxId : t # u => back'[t] = back[t]
      /\ back'[u] = back[u] + Owed(u) - Fee
  BY DEF Pay, TypeOK
<1> HIDE DEF c
<1>5. ASSUME NEW q \in Payment, NEW t \in TxId, Of(t, q), q # p \/ t # u
      PROVE  Account(q, t)'
  <2>1. q \in live /\ t # u
    BY <1>1, <1>5 DEF Of, Shape, Own
  <2>2. Quiet(q, t)
    BY <1>3, <1>4, <2>1 DEF Quiet, Copies
  <2>3. QED
    BY <1>5, <2>2, QuietAccount DEF Money, Accounts
<1>6. Account(p, u)'
  <2>1. /\ Account(p, u) /\ Copies(p) /\ Still(p)
        /\ obj.due = db[p].due /\ obj.refundExtra = db[p].refundExtra
    BY <1>1 DEF Money, Accounts, Copies, Shape, Ahead
  <2>2. \/ /\ phase = 2 /\ c = "extra" /\ db[p].tx[u] = "success" /\ db[p].refundExtra
           /\ Owed(u) = chain[u].amount - db[p].due
        \/ /\ phase = 3 /\ c = "refund" /\ db[p].tx[u] \in {"absent", "failed"}
           /\ Owed(u) = chain[u].amount
        \/ /\ phase = 4 /\ c = "request" /\ db[p].tx[u] = "success"
           /\ req[p].state = "active" /\ Owed(u) = WantOf(p, u)
    BY <1>1, <2>1 DEF c, ClaimOf, Owed, Requested, WantOf, Shape, Open, Ahead, Money, Closing
  <2>3. Final(p)'
    BY <1>1, <2>1 DEF Money, Closing, Final, Finished, Still
  <2>4. /\ sent["refund"][u] \in Nat /\ sent["extra"][u] \in Nat /\ sent["request"][u] \in Nat
        /\ \A k \in Claim : sent[k][u] > 0 => sent'[k][u] > 0
        /\ \A k \in Claim : k # c => sent'[k][u] = sent[k][u]
        /\ sent'[c][u] > 0
    BY <1>2, <1>3 DEF Claim
  <2>5. Reasons(p, u)'
    <3>1. sent'["refund"][u] > 0 => db'[p].tx[u] # "success" /\ (db'[p].tx[u] = "absent" => Final(p)')
      BY <2>1, <2>2, <2>3, <2>4 DEF Account, Reasons, Copies, Claim
    <3>2. sent'["extra"][u] > 0 => db'[p].tx[u] = "success" /\ db'[p].refundExtra
      BY <2>1, <2>2, <2>4 DEF Account, Reasons, Copies, Still, Claim
    <3>3. sent'["request"][u] > 0 => db'[p].tx[u] = "success" /\ req'[p].state # "none"
      BY <2>1, <2>2, <2>4 DEF Account, Reasons, Copies, Claim
    <3>4. QED
      BY <3>1, <3>2, <3>3 DEF Reasons
  <2>6. Marks(p, u)'
    BY <2>1, <2>2, <2>4 DEF Account, Marks, WantOf, Copies, Still, Claim
  <2>7. ASSUME faults' = 0
        PROVE  back'[u] <= Given(p, u)'
    <3>1. faults = 0 /\ db' = db /\ back[u] <= Given(p, u)
      BY <2>1, <2>7 DEF Account
    <3>2. sent[c][u] = 0
      BY <1>1, <1>2, <3>1, SendIsOpen DEF c, Counted, Paying
    <3>3. Given(p, u)' = Given(p, u) + Owed(u)
      <4>1. WantOf(p, u)' = WantOf(p, u)
        BY <3>1 DEF WantOf
      <4>2. chain[u].amount \in Int /\ db[p].due \in Int /\ WantOf(p, u) \in Int
        <5>1. chain[u] \in [to : Payment, amount : Nat]
          BY <1>1, ElementOfSeq DEF Of, TypeOK
        <5>2. db[p].due \in Int /\ req[p].want \in Int
          BY DEF TypeOK, PaymentRec
        <5>3. QED
          BY <5>1, <5>2 DEF WantOf
      <4>3. QED
        <5>1. CASE phase = 2
          BY <2>2, <2>4, <3>1, <3>2, <4>1, <4>2, <5>1 DEF Given, Claim
        <5>2. CASE phase = 3
          BY <2>2, <2>4, <3>1, <3>2, <4>1, <4>2, <5>2 DEF Given, Claim
        <5>3. CASE phase = 4
          BY <2>2, <2>4, <3>1, <3>2, <4>1, <4>2, <5>3 DEF Given, Claim
        <5>4. QED
          BY <2>2, <5>1, <5>2, <5>3
    <3>4. /\ back[u] \in Int /\ Owed(u) \in Int /\ Fee \in Nat /\ Given(p, u) \in Int
      <4>1. chain[u] \in [to : Payment, amount : Nat]
        BY <1>1, ElementOfSeq DEF Of, TypeOK
      <4>2. db[p].due \in Int /\ req[p].want \in Int
        BY DEF TypeOK, PaymentRec
      <4>3. chain[u].amount \in Int /\ WantOf(p, u) \in Int
        BY <4>1, <4>2 DEF WantOf
      <4>4. Given(p, u) \in Int
        BY <4>2, <4>3 DEF Given
      <4>5. Owed(u) \in Int /\ back[u] \in Int /\ Fee \in Nat
        <5>1. Owed(u) \in {chain[u].amount - db[p].due, chain[u].amount, WantOf(p, u)}
          BY <2>2
        <5>2. back[u] \in Int /\ Fee \in Nat
          BY AmountsAssumption DEF TypeOK
        <5>3. QED
          BY <4>2, <4>3, <5>1, <5>2
      <4>6. QED
        BY <4>4, <4>5
    <3>5. QED
      BY <1>4, <3>1, <3>3, <3>4
  <2>8. QED
    BY <2>5, <2>6, <2>7 DEF Account
<1>7. Accounts'
  BY <1>5, <1>6 DEF Accounts, Of
<1>8. Unspent'
  BY <1>1, <1>3, <1>4 DEF Money, Unspent, Of
<1>9. DoneIsFinal'
  BY FinalStays DEF Money, DoneIsFinal, Final, Copies
<1>10. QED
  BY <1>7, <1>8, <1>9 DEF Money

------------------------------------------------------------------------------
(* The theorems. *)

\* What the job does keeps the accounts.
LEMMA JobMoney ==
    ASSUME TypeOK, Shape, Counted, Money, Job
    PROVE  Money'
<1>1. ASSUME NEW t \in TxId, LookupOk(t) PROVE Money'
  <2>1. CASE Settle(t)
    BY <1>1, <2>1, SettleMoney DEF LookupOk, IsFirst, Settle
  <2>2. CASE at' = "send" /\ UNCHANGED <<env, db, locals>>
    <3>1. Closing'
      BY <1>1, <2>2 DEF LookupOk, env, locals, Money, Closing, Finished
    <3>2. QED
      BY <1>1, <2>2, <3>1, UnsavedMoney DEF LookupOk, env, locals
  <2>3. QED
    BY <1>1, <2>1, <2>2 DEF LookupOk
<1>2. ASSUME NEW t \in TxId, TransferReturns(t) PROVE Money'
  <2>1. t \in left /\ sent[ClaimOf(phase)][t] > 0
    BY <1>2 DEF TransferReturns, IsFirst, Money, Closing
  <2>2. QED
    BY <1>2, <2>1, SettleMoney DEF TransferReturns
<1>3. ASSUME LookupFails PROVE Money'
  BY <1>3, GiveUpMoney, RestMoney DEF LookupFails, env
<1>4. ASSUME TransferFails PROVE Money'
  <2>1. CASE tries + 1 < Retries
    <3>1. Closing'
      BY <1>4, <2>1 DEF TransferFails, Retry, env, money, Money, Closing, Finished
    <3>2. QED
      BY <1>4, <2>1, <3>1, UnsavedMoney DEF TransferFails, Retry, env
  <2>2. CASE ~(tries + 1 < Retries)
    BY <1>4, <2>2, GiveUpMoney DEF TransferFails, Retry
  <2>3. QED
    BY <2>1, <2>2
<1>5. ASSUME NEW u \in TxId, at = "send", IsFirst(u, left), Pay(u), at' = "paid",
             UNCHANGED <<env, db, locals>>
      PROVE  \A p \in live : Copies(p)
  BY <1>5 DEF env, locals, Copies, Still
<1>6. ASSUME NEW t \in TxId, TransferOk(t) PROVE Money'
  <2>1. Closing'
    <3>1. t \in left /\ sent'[ClaimOf(phase)][t] > 0
      BY <1>6 DEF TransferOk, IsFirst, Pay, ClaimOf, Claim, TypeOK
    <3>2. \A u \in left : IsFirst(u, left) => u = t
      BY <1>6 DEF TransferOk, IsFirst, TypeOK, TxId
    <3>3. QED
      BY <1>6, <3>1, <3>2 DEF TransferOk, env, locals, Money, Closing, Finished, ClaimOf
  <2>2. QED
    BY <1>5, <1>6, <2>1, PayMoney DEF TransferOk, env, locals
<1>7. ASSUME NEW t \in TxId, TransferLost(t) PROVE Money'
  <2>1. faults' # 0
    BY <1>7, BoundsAssumption DEF TransferLost, TypeOK
  <2>2. CASE tries + 1 < Retries
    <3>1. Closing'
      BY <1>7, <2>2 DEF TransferLost, Retry, env, Money, Closing, Finished
    <3>2. \A p \in live : Copies(p)
      BY <1>7, <2>2 DEF TransferLost, Retry, env, Copies, Still
    <3>3. QED
      BY <1>7, <2>1, <2>2, <3>1, <3>2, PayMoney DEF TransferLost, Retry, env
  <2>3. CASE ~(tries + 1 < Retries)
    BY <1>7, <2>1, <2>3, GiveUpCopies, PayMoney DEF TransferLost, Retry
  <2>4. QED
    BY <2>2, <2>3
<1>8. QED
  BY <1>1, <1>2, <1>3, <1>4, <1>6, <1>7, PassMoney, TakePaymentMoney, TakeRequestMoney,
     ScanMoney DEF Job

\* Every step keeps the accounts.
LEMMA StepMoney == MInv /\ [Next]_vars => MInv'
<1> SUFFICES ASSUME MInv, [Next]_vars PROVE Money'
  BY StepHolds DEF MInv
<1> USE DEF MInv, IInv, Shape
<1>1. CASE Kill
  BY <1>1, RestMoney, BoundsAssumption DEF Kill, TypeOK
<1>2. CASE UNCHANGED vars
  <2>1. Closing'
    BY <1>2 DEF vars, Money, Closing, Finished, IsFirst
  <2>2. QED
    BY <1>2, <2>1, UnsavedMoney DEF vars, money
<1>3. QED
  BY <1>1, <1>2, CallerMoney, JobMoney DEF Next

\* The accounts are right in every state.
LEMMA MoneyInvariance == Spec => []MInv
<1>1. Init => MInv
  <2> SUFFICES ASSUME Init PROVE Money
    BY InitHolds DEF MInv
  <2> QED
    BY DEF Init, Money, Accounts, Of, Unspent, DoneIsFinal, Closing
<1>2. QED
  BY <1>1, StepMoney, PTL DEF Spec

\* What a payment has given back belongs to that payment.
LEMMA SpentIsOf ==
    ASSUME MInv, NEW t \in TxId, NEW k \in Claim, sent[k][t] > 0
    PROVE  chain[t].to \in Payment /\ Of(t, chain[t].to) /\ Account(chain[t].to, t)
<1>1. t \in 1..Len(chain)
  BY DEF MInv, Money, Unspent
<1>2. chain[t].to \in live
  BY <1>1 DEF MInv, IInv, Own
<1>3. chain[t].to \in Payment /\ Of(t, chain[t].to)
  BY <1>1, <1>2 DEF MInv, IInv, TypeOK, Of
<1>4. QED
  BY <1>3 DEF MInv, Money, Accounts

\* refund_failed_payments, refund_extra and process_refunds never meet on the
\* wrong transaction, although the first pays back what is not saved yet.
THEOREM ReasonIsRight == Spec => []RightReason
<1>1. ASSUME MInv, NEW t \in TxId
      PROVE  /\ sent["refund"][t] > 0 =>
                    db[chain[t].to].tx[t] \in {"failed", "refunded", "absent"}
             /\ sent["extra"][t] + sent["request"][t] > 0 => db[chain[t].to].tx[t] = "success"
  <2>1. sent["refund"][t] \in Nat /\ sent["extra"][t] \in Nat /\ sent["request"][t] \in Nat
    BY <1>1 DEF MInv, IInv, TypeOK, Claim
  <2>2. sent["refund"][t] > 0 => db[chain[t].to].tx[t] \in {"failed", "refunded", "absent"}
    <3>1. ASSUME sent["refund"][t] > 0
          PROVE  chain[t].to \in Payment /\ db[chain[t].to].tx[t] # "success"
      BY <1>1, <3>1, SpentIsOf DEF Claim, Account, Reasons
    <3>2. \A q \in Payment : db[q].tx[t] \in TxStatus
      BY <1>1 DEF MInv, IInv, TypeOK, PaymentRec
    <3>3. QED
      BY <3>1, <3>2 DEF TxStatus
  <2>3. sent["extra"][t] > 0 \/ sent["request"][t] > 0 => db[chain[t].to].tx[t] = "success"
    BY <1>1, SpentIsOf DEF Claim, Account, Reasons
  <2>4. QED
    BY <2>1, <2>2, <2>3
<1>2. MInv => RightReason
  BY <1>1 DEF RightReason
<1>3. QED
  BY <1>2, MoneyInvariance, PTL

\* A refunded transaction, an extra that is no longer due and a request that
\* succeeded were paid, unless they do not exceed the fee.
THEOREM MarkedIsPaid == Spec => []SettledIsPaid
<1>1. ASSUME MInv, NEW p \in Payment, NEW t \in TxId, db[p].tx[t] # "absent"
      PROVE  Account(p, t)
  BY <1>1 DEF MInv, IInv, Own, Money, Accounts
<1>2. MInv => SettledIsPaid
  BY <1>1 DEF SettledIsPaid, Account, Marks, WantOf
<1>3. QED
  BY <1>2, MoneyInvariance, PTL

\* Without faults all three passes together give a payer back no more than was
\* sent, as long as no request asks for more than the payment's due.
THEOREM NobodyProfits == Spec => []NoProfit
<1>1. ASSUME MInv, NEW t \in TxId, back[t] > 0, faults = 0,
             req[chain[t].to].want <= db[chain[t].to].due
      PROVE  back[t] <= chain[t].amount
  <2>1. t \in 1..Len(chain)
    BY <1>1 DEF MInv, Money, Unspent
  <2>2. PICK p \in Payment : p = chain[t].to /\ Of(t, p)
    BY <1>1, <2>1 DEF MInv, IInv, Own, TypeOK, Of
  <2>3. Account(p, t) /\ Coherent(db[p])
    BY <1>1, <2>2 DEF MInv, IInv, Money, Accounts
  <2>4. /\ chain[t].amount \in Nat /\ db[p].due \in Nat /\ req[p].want \in Int
        /\ sent["refund"][t] \in Nat /\ sent["extra"][t] \in Nat /\ sent["request"][t] \in Nat
        /\ back[t] \in Int
    <3>1. chain[t] \in [to : Payment, amount : Nat]
      BY <1>1, <2>1, ElementOfSeq DEF MInv, IInv, TypeOK
    <3>2. QED
      BY <1>1, <3>1 DEF MInv, IInv, TypeOK, PaymentRec, Claim
  <2>5. WantOf(p, t) \in Int /\ (db[p].refundExtra => WantOf(p, t) <= db[p].due)
        /\ (WantOf(p, t) <= db[p].due \/ WantOf(p, t) = chain[t].amount)
    BY <1>1, <2>2, <2>4 DEF WantOf
  <2>6. db[p].tx[t] = "success" => db[p].due <= chain[t].amount
    BY <2>3, <2>4 DEF Coherent
  <2>7. Given(p, t) <= chain[t].amount
    <3>1. CASE db[p].tx[t] = "success"
      <4>1. ~(sent["refund"][t] > 0)
        BY <2>3, <3>1 DEF Account, Reasons
      <4>2. sent["extra"][t] > 0 => db[p].refundExtra
        BY <2>3 DEF Account, Reasons
      <4>3. QED
        BY <2>4, <2>5, <2>6, <3>1, <4>1, <4>2 DEF Given
    <3>2. CASE db[p].tx[t] # "success"
      <4>1. ~(sent["extra"][t] > 0) /\ ~(sent["request"][t] > 0)
        BY <2>3, <3>2 DEF Account, Reasons
      <4>2. QED
        BY <2>4, <4>1 DEF Given
    <3>3. QED
      BY <3>1, <3>2
  <2>8. back[t] <= Given(p, t) /\ Given(p, t) \in Int
    BY <1>1, <2>3, <2>4, <2>5 DEF Account, Given
  <2>9. QED
    BY <2>4, <2>7, <2>8
<1>2. MInv => NoProfit
  BY <1>1 DEF NoProfit
<1>3. QED
  BY <1>2, MoneyInvariance, PTL
=============================================================================
