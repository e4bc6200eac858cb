------------------------------- MODULE Billing -------------------------------
(***************************************************************************)
(* The billing sal: payments a wallet waits for, and the background job    *)
(* that watches the Stellar ledger and gives money back.                   *)
(*                                                                         *)
(*   sals/billing/models.py, sals/billing/billing.py   payments, refunds   *)
(*   packages/billing/services/billing.py              the job             *)
(*   clients/stellar/stellar.py  transfer              the retry loop      *)
(*                                                                         *)
(* One job runs at a time (ServiceManager!NoOverlap).  It is split where   *)
(* the code waits for the network: while it waits, chatflows submit        *)
(* payments, poll them and issue refund requests, payers pay, deadlines    *)
(* pass and the process may be killed.  Everything between two network     *)
(* calls, the trailing save included, is one action.                       *)
(***************************************************************************)
EXTENDS Integers, Sequences, FiniteSets

CONSTANTS
    Payment,    \* payment ids that submit_payment may draw
    Watched,    \* those among them that a caller waits for with wait_payment
    Amounts,    \* what a transaction may bring in
    Dues,       \* what a payment may ask for
    Wants,      \* the amounts of refund requests; -1 asks for everything
    Fee,        \* TRANSACTION_FEES
    Retries,    \* attempts of one transfer
    MaxTx,      \* bound: transactions on the ledger
    MaxFaults,  \* bound: kills of the process and transfers whose answer is lost
    Stuck,      \* transactions whose payer can no longer receive
    None        \* no payment

TxId == 1..MaxTx

ASSUME AmountsAssumption ==
    /\ Amounts \subseteq Nat /\ Dues \subseteq Nat /\ Wants \subseteq Int
    /\ Fee \in Nat

ASSUME BoundsAssumption ==
    /\ MaxTx \in Nat \ {0} /\ MaxFaults \in Nat /\ Retries \in Nat \ {0}
    /\ Stuck \subseteq TxId /\ Watched \subseteq Payment
    /\ None \notin Payment

\* A transaction of a payment: not recorded, recorded, recorded as the one that
\* fulfilled the payment, recorded and given back.
TxStatus == {"absent", "failed", "success", "refunded"}

\* Payment and its PaymentResult.
PaymentRec == [due : Nat, refundExtra : BOOLEAN, success : BOOLEAN,
               extra : BOOLEAN, tx : [TxId -> TxStatus]]

Blank == [due |-> 0, refundExtra |-> FALSE, success |-> FALSE,
          extra |-> FALSE, tx |-> [t \in TxId |-> "absent"]]

\* Why the job sends money.  The job's four passes, in order:
\* process_payments, refund_extra, refund_failed_payments, process_refunds.
Claim == {"extra", "refund", "request"}
ClaimOf(ph) == IF ph = 2 THEN "extra" ELSE IF ph = 3 THEN "refund" ELSE "request"

VARIABLES
    chain,    \* the ledger: transactions carrying some payment's memo text
    live,     \* payments submitted
    expired,  \* payments whose deadline has passed
    db,       \* the stored payments
    req,      \* the stored refund requests
    waiter,   \* wait_payment, per payment
    sent,     \* transfers that reached the ledger, per reason and transaction
    back,     \* what they returned to the payer of each transaction
    faults,   \* kills and lost answers so far
    at, phase, todo, cur, obj, left, tries   \* the job: where it is, its locals

env == <<chain, live, expired, req, waiter>>
money == <<sent, back>>
locals == <<phase, todo, cur, obj, left, tries>>
vars == <<chain, live, expired, db, req, waiter, sent, back, faults, at,
          phase, todo, cur, obj, left, tries>>

------------------------------------------------------------------------------
(* What the code reads of a payment. *)

\* Payment.is_finished
Finished(p, rec) == p \in expired \/ rec.success

\* Mutant: refund_failed_payments without the test of transaction.success.
Rejected_Fulfilling(rec) == {t \in TxId : rec.tx[t] \in {"failed", "success"}}

\* The transactions of rec that refund_failed_payments has to give back.
Rejected(rec) == {t \in TxId : rec.tx[t] = "failed"}

\* The transaction that fulfilled rec (at most one: see OneFulfils).
Fulfilling(rec) == {t \in TxId : rec.tx[t] = "success"}

IsFirst(t, S) == t \in S /\ \A u \in S : t <= u

\* list_transactions, filtered to those with this payment's memo text that the
\* record does not hold yet.
Unrecorded(p, rec) ==
    {t \in TxId : t <= Len(chain) /\ chain[t].to = p /\ rec.tx[t] = "absent"}

Init ==
    /\ chain = << >> /\ live = {} /\ expired = {}
    /\ db = [p \in Payment |-> Blank]
    /\ req = [p \in Payment |-> [state |-> "none", want |-> -1]]
    /\ waiter = [p \in Payment |-> "idle"]
    /\ sent = [k \in Claim |-> [t \in TxId |-> 0]]
    /\ back = [t \in TxId |-> 0]
    /\ faults = 0
    /\ at = "rest" /\ phase = 1 /\ todo = {} /\ cur = None /\ obj = Blank
    /\ left = {} /\ tries = 0

------------------------------------------------------------------------------
(* The callers of the sal, the payers and the clock. *)

Idle == UNCHANGED <<money, faults, at, locals>>

\* submit_payment
Submit(p, due, re) ==
    /\ p \notin live
    /\ live' = live \cup {p}
    /\ db' = [db EXCEPT ![p] = [Blank EXCEPT !.due = due, !.refundExtra = re]]
    /\ UNCHANGED <<chain, expired, req, waiter>> /\ Idle

\* A payer's transaction with the memo text of p settles on the ledger, at any
\* time after p was submitted: nothing stops a late one.
Land(p, a) ==
    /\ p \in live /\ Len(chain) < MaxTx
    /\ chain' = Append(chain, [to |-> p, amount |-> a])
    /\ UNCHANGED <<live, expired, db, req, waiter>> /\ Idle

Expire(p) ==
    /\ p \in live \ expired
    /\ expired' = expired \cup {p}
    /\ UNCHANGED <<chain, live, db, req, waiter>> /\ Idle

\* issue_refund: a second request for the same payment raises.
IssueRefund(p, w) ==
    /\ p \in live /\ req[p].state = "none"
    /\ req' = [req EXCEPT ![p] = [state |-> "active", want |-> w]]
    /\ UNCHANGED <<chain, live, expired, db, waiter>> /\ Idle

\* wait_payment is called, and returns what the stored payment says at the
\* first poll that finds it finished.
WaitStart(p) ==
    /\ p \in Watched \cap live /\ waiter[p] = "idle"
    /\ waiter' = [waiter EXCEPT ![p] = "waiting"]
    /\ UNCHANGED <<chain, live, expired, db, req>> /\ Idle

WaitReturn(p) ==
    /\ waiter[p] = "waiting" /\ Finished(p, db[p])
    /\ waiter' = [waiter EXCEPT ![p] = IF db[p].success THEN "true" ELSE "false"]
    /\ UNCHANGED <<chain, live, expired, db, req>> /\ Idle

------------------------------------------------------------------------------
(* The job's passes. *)

\* The job ends: it returned, an exception left it, or the process was killed.
Rest ==
    /\ at' = "rest" /\ phase' = 1 /\ todo' = {} /\ cur' = None
    /\ obj' = Blank /\ left' = {} /\ tries' = 0

\* The job is done with the current payment.
NextItem ==
    /\ at' = "next" /\ cur' = None /\ obj' = Blank /\ left' = {} /\ tries' = 0
    /\ UNCHANGED <<phase, todo>>

\* Mutant: expired payments are left out of refund_extra.
Listed_SkipsExpired(ph) ==
    {p \in live : /\ ph = 2 => db[p].refundExtra /\ p \notin expired
                  /\ ph = 4 => req[p].state = "active"}

\* What a pass goes through: list_all, find_many(refund_extra=True), list_all,
\* find_many(success=False).
Listed(ph) ==
    {p \in live : /\ ph = 2 => db[p].refundExtra
                  /\ ph = 4 => req[p].state = "active"}

StartJob ==
    /\ at = "rest"
    /\ at' = "next" /\ phase' = 1 /\ todo' = Listed(1)
    /\ UNCHANGED <<env, db, money, faults, cur, obj, left, tries>>

NextPass ==
    /\ at = "next" /\ todo = {}
    /\ \/ phase < 4 /\ phase' = phase + 1 /\ todo' = Listed(phase + 1)
          /\ UNCHANGED <<at, cur, obj, left, tries>>
       \/ phase = 4 /\ Rest
    /\ UNCHANGED <<env, db, money, faults>>

\* Mutant: list_failed_payments yields only payments that did not succeed.
ThenRefund_OnlyUnpaid(p, rec) ==
    IF phase = 3 /\ Finished(p, rec) /\ Rejected(rec) # {} /\ ~rec.success
    THEN /\ at' = "owed" /\ cur' = p /\ obj' = rec /\ left' = Rejected(rec)
         /\ tries' = 0
    ELSE /\ at' = "next" /\ cur' = None /\ obj' = Blank /\ left' = {} /\ tries' = 0

\* The rest of list_failed_payments for a payment just brought up to date:
\* yield it if something has to be given back.
ThenRefund(p, rec) ==
    IF phase = 3 /\ Finished(p, rec) /\ Rejected(rec) # {}
    THEN /\ at' = "owed" /\ cur' = p /\ obj' = rec /\ left' = Rejected(rec)
         /\ tries' = 0
    ELSE /\ at' = "next" /\ cur' = None /\ obj' = Blank /\ left' = {} /\ tries' = 0

\* find, then update_status up to the call of list_transactions: a finished
\* payment is left alone and one with nothing to pay succeeds.
TakePayment(p) ==
    /\ at = "next" /\ phase \in {1, 3} /\ p \in todo
    /\ todo' = todo \ {p}
    /\ \/ Finished(p, db[p]) /\ ThenRefund(p, db[p]) /\ UNCHANGED db
       \/ /\ ~Finished(p, db[p]) /\ db[p].due = 0
          /\ db' = [db EXCEPT ![p].success = TRUE]
          /\ ThenRefund(p, db'[p])
       \/ /\ ~Finished(p, db[p]) /\ db[p].due # 0
          /\ at' = "list" /\ cur' = p /\ obj' = db[p] /\ left' = {}
          /\ UNCHANGED <<db, tries>>
    /\ UNCHANGED <<env, money, faults, phase>>

\* The answer of list_transactions; its failure ends the job.
ListOk ==
    /\ at = "list"
    /\ at' = "scan" /\ left' = Unrecorded(cur, obj)
    /\ UNCHANGED <<env, db, money, faults, phase, todo, cur, obj, tries>>

ListFails == at = "list" /\ Rest /\ UNCHANGED <<env, db, money, faults>>

\* Mutants: every large enough transaction fulfils its payment; a payer may
\* leave the fee out of the amount.
Judge_Each(rec, t) ==
    IF chain[t].amount < rec.due
    THEN [rec EXCEPT !.tx[t] = "failed"]
    ELSE [rec EXCEPT !.tx[t] = "success", !.success = TRUE,
                     !.extra = chain[t].amount > rec.due]

Judge_FeeOff(rec, t) ==
    IF rec.success \/ chain[t].amount + Fee < rec.due
    THEN [rec EXCEPT !.tx[t] = "failed"]
    ELSE [rec EXCEPT !.tx[t] = "success", !.success = TRUE,
                     !.extra = chain[t].amount > rec.due]

\* The loop of update_status records one transaction and saves.  Once the
\* payment is fulfilled a transaction is recorded without looking at it.
Judge(rec, t) ==
    IF rec.success \/ chain[t].amount < rec.due
    THEN [rec EXCEPT !.tx[t] = "failed"]
    ELSE [rec EXCEPT !.tx[t] = "success", !.success = TRUE,
                     !.extra = chain[t].amount > rec.due]

ScanOk(t) ==
    /\ at = "scan" /\ IsFirst(t, left)
    /\ obj' = Judge(obj, t)
    /\ db' = [db EXCEPT ![cur] = obj']
    /\ left' = left \ {t}
    /\ UNCHANGED <<env, money, faults, at, phase, todo, cur, tries>>

\* get_amount raises: the transaction stays in the object as a failed one, and
\* the loop goes on without saving.
ScanFails(t) ==
    /\ at = "scan" /\ IsFirst(t, left) /\ ~obj.success
    /\ obj' = [obj EXCEPT !.tx[t] = "failed"]
    /\ left' = left \ {t}
    /\ UNCHANGED <<env, db, money, faults, at, phase, todo, cur, tries>>

ScanDone ==
    /\ at = "scan" /\ left = {}
    /\ ThenRefund(cur, obj)
    /\ UNCHANGED <<env, db, money, faults, phase, todo>>

\* list_extra_paid_payments and the first lines of refund_extra.
TakeExtra(p) ==
    /\ at = "next" /\ phase = 2 /\ p \in todo
    /\ todo' = todo \ {p}
    /\ IF db[p].extra /\ Finished(p, db[p])
       THEN at' = "owed" /\ cur' = p /\ obj' = db[p] /\ left' = Fulfilling(db[p])
       ELSE UNCHANGED <<at, cur, obj, left>>
    /\ UNCHANGED <<env, db, money, faults, phase, tries>>

\* Mutant: a request for a payment that nobody fulfilled is left active.
TakeRequest_LeavesUnpaid(p) ==
    /\ at = "next" /\ phase = 4 /\ p \in todo
    /\ todo' = todo \ {p}
    /\ IF Finished(p, db[p]) /\ Fulfilling(db[p]) # {}
       THEN at' = "owed" /\ cur' = p /\ obj' = db[p] /\ left' = Fulfilling(db[p])
       ELSE UNCHANGED <<at, cur, obj, left>>
    /\ UNCHANGED <<env, db, money, faults, phase, tries>>

\* RefundRequest.apply up to the ledger: an unfinished payment is left for
\* later, one that nobody fulfilled has nothing to give back.
TakeRequest(p) ==
    /\ at = "next" /\ phase = 4 /\ p \in todo
    /\ todo' = todo \ {p}
    /\ IF Finished(p, db[p]) /\ Fulfilling(db[p]) # {}
       THEN /\ at' = "owed" /\ cur' = p /\ obj' = db[p]
            /\ left' = Fulfilling(db[p]) /\ UNCHANGED req
       ELSE /\ req' = IF Finished(p, db[p])
                      THEN [req EXCEPT ![p].state = "done"] ELSE req
            /\ UNCHANGED <<at, cur, obj, left>>
    /\ UNCHANGED <<chain, live, expired, waiter, db, money, faults, phase, tries>>

------------------------------------------------------------------------------
(* Giving money back: PaymentResult.refund_extra, PaymentTransaction.refund *)
(* and RefundRequest.apply, which differ in the amount and in the mark.     *)

\* What a refund request is for: its own amount if it has one.
Requested(t) ==
    IF req[cur].want > 0 THEN req[cur].want
    ELSE IF obj.refundExtra THEN obj.due ELSE chain[t].amount

\* Mutant: refund_extra sends back the whole transaction.
Owed_Gross(t) ==
    IF phase \in {2, 3} THEN chain[t].amount ELSE Requested(t)

\* What is given back for transaction t, before the fee is taken off it.
Owed(t) ==
    IF phase = 2 THEN chain[t].amount - obj.due
    ELSE IF phase = 3 THEN chain[t].amount ELSE Requested(t)

\* Mutant: PaymentTransaction.refund is not followed by a save.
Settle_Unsaved(t) ==
    /\ req' = IF phase = 4 THEN [req EXCEPT ![cur].state = "done"] ELSE req
    /\ db' = IF phase = 2 THEN [db EXCEPT ![cur].extra = FALSE] ELSE db
    /\ tries' = 0
    /\ IF left = {t}
       THEN at' = "next" /\ cur' = None /\ obj' = Blank /\ left' = {}
       ELSE at' = "owed" /\ left' = left \ {t} /\ UNCHANGED <<cur, obj>>
    /\ UNCHANGED <<chain, live, expired, waiter, phase, todo>>

\* The claim is marked as settled and the mark saved.
Settle(t) ==
    LET o == IF phase = 2 THEN [obj EXCEPT !.extra = FALSE]
             ELSE IF phase = 3 THEN [obj EXCEPT !.tx[t] = "refunded"]
             ELSE obj
    IN /\ db' = [db EXCEPT ![cur] = o]
       /\ req' = IF phase = 4 THEN [req EXCEPT ![cur].state = "done"] ELSE req
       /\ tries' = 0
       /\ IF left = {t}
          THEN at' = "next" /\ cur' = None /\ obj' = Blank /\ left' = {}
          ELSE at' = "owed" /\ obj' = o /\ left' = left \ {t} /\ UNCHANGED cur
       /\ UNCHANGED <<chain, live, expired, waiter, phase, todo>>

\* Mutant: the mark is set when the transfer was given up.
GiveUp_Marks ==
    /\ db' = [db EXCEPT ![cur] = [obj EXCEPT !.extra = FALSE]]
    /\ NextItem /\ UNCHANGED env

\* The claim stays open and the object is saved as it is.  In
\* refund_failed_payments the flag refund_result is now False, so that the
\* payment's later transactions are not tried in this pass.
GiveUp == db' = [db EXCEPT ![cur] = obj] /\ NextItem /\ UNCHANGED env

\* get_transaction_effects and get_sender_wallet_address answered.
LookupOk(t) ==
    /\ at = "owed" /\ IsFirst(t, left)
    /\ IF Owed(t) <= Fee
       THEN Settle(t)
       ELSE at' = "send" /\ UNCHANGED <<env, db, locals>>
    /\ UNCHANGED <<money, faults>>

\* One of them raised: PaymentTransaction.refund catches it, the other two
\* leave the job with it.
LookupFails ==
    /\ at = "owed"
    /\ IF phase = 3 THEN GiveUp ELSE Rest /\ UNCHANGED <<env, db>>
    /\ UNCHANGED <<money, faults>>

\* The ledger takes the transfer back to the payer of t.
Pay(t) ==
    /\ t \notin Stuck
    /\ sent' = [sent EXCEPT ![ClaimOf(phase)][t] = @ + 1]
    /\ back' = [back EXCEPT ![t] = @ + Owed(t) - Fee]

TransferOk(t) ==
    /\ at = "send" /\ IsFirst(t, left)
    /\ Pay(t) /\ at' = "paid"
    /\ UNCHANGED <<env, db, faults, locals>>

\* Mutant: one attempt too many.
Retry_OneMore ==
    IF tries < Retries
    THEN tries' = tries + 1 /\ UNCHANGED <<env, db, at, phase, todo, cur, obj, left>>
    ELSE GiveUp

\* One attempt of the retry loop of transfer raised; the last one ends it.
Retry ==
    IF tries + 1 < Retries
    THEN tries' = tries + 1 /\ UNCHANGED <<env, db, at, phase, todo, cur, obj, left>>
    ELSE GiveUp

TransferFails == at = "send" /\ Retry /\ UNCHANGED <<money, faults>>

\* The ledger took the transfer and the answer was lost: an exception like any
\* other to the retry loop.
TransferLost(t) ==
    /\ at = "send" /\ IsFirst(t, left) /\ faults < MaxFaults
    /\ Pay(t) /\ faults' = faults + 1
    /\ Retry

TransferReturns(t) ==
    /\ at = "paid" /\ IsFirst(t, left)
    /\ Settle(t) /\ UNCHANGED <<money, faults>>

\* The process is killed and started again; wait_payment calls die with it.
Kill ==
    /\ faults < MaxFaults /\ faults' = faults + 1
    /\ waiter' = [p \in Payment |-> IF waiter[p] = "waiting" THEN "idle" ELSE waiter[p]]
    /\ Rest /\ UNCHANGED <<chain, live, expired, db, req, money>>

------------------------------------------------------------------------------
Caller ==
    \E p \in Payment :
        \/ \E d \in Dues, re \in BOOLEAN : Submit(p, d, re)
        \/ \E a \in Amounts : Land(p, a)
        \/ \E w \in Wants : IssueRefund(p, w)
        \/ Expire(p) \/ WaitStart(p) \/ WaitReturn(p)

Job ==
    \/ StartJob \/ NextPass \/ ListOk \/ ListFails \/ ScanDone
    \/ LookupFails \/ TransferFails
    \/ \E p \in Payment : TakePayment(p) \/ TakeExtra(p) \/ TakeRequest(p)
    \/ \E t \in TxId : \/ ScanOk(t) \/ ScanFails(t) \/ LookupOk(t)
                       \/ TransferOk(t) \/ TransferLost(t) \/ TransferReturns(t)

Next == Caller \/ Job \/ Kill

Spec == Init /\ [][Next]_vars

(* The job's loop runs as long as the process does (ServiceManager), so    *)
(* each of its steps is taken when it stays possible.  A call to the       *)
(* network may fail any number of times, but one that is made again and    *)
(* again is answered at last.  Deadlines pass; nothing else is assumed of  *)
(* the callers and the payers.                                             *)
JobFairness ==
    /\ WF_vars(StartJob \/ NextPass \/ ScanDone)
    /\ WF_vars(ListOk \/ ListFails)
    /\ \A p \in Payment :
          /\ WF_vars(TakePayment(p) \/ TakeExtra(p) \/ TakeRequest(p))
          /\ SF_vars(ListOk /\ cur = p)
          /\ WF_vars(Expire(p))
    /\ \A t \in TxId :
          /\ WF_vars(ScanOk(t) \/ ScanFails(t))
          /\ WF_vars(TransferReturns(t))
          /\ SF_vars(LookupOk(t)) /\ SF_vars(TransferOk(t))
    /\ WF_vars(LookupFails \/ TransferFails)

FairSpec == Spec /\ JobFairness

------------------------------------------------------------------------------
(* Properties. *)

\* Every variable has its type.
TypeOK ==
    /\ chain \in Seq([to : Payment, amount : Nat]) /\ Len(chain) <= MaxTx
    /\ live \subseteq Payment /\ expired \subseteq live
    /\ db \in [Payment -> PaymentRec]
    /\ req \in [Payment -> [state : {"none", "active", "done"}, want : Int]]
    /\ waiter \in [Payment -> {"idle", "waiting", "true", "false"}]
    /\ sent \in [Claim -> [TxId -> Nat]] /\ back \in [TxId -> Int]
    /\ faults \in 0..MaxFaults
    /\ at \in {"rest", "next", "list", "scan", "owed", "send", "paid"}
    /\ phase \in 1..4 /\ todo \subseteq live
    /\ cur \in live \cup {None} /\ (cur = None <=> at \in {"rest", "next"})
    /\ obj \in PaymentRec /\ left \subseteq TxId /\ tries \in 0..Retries - 1

\* Money goes out twice for the same reason only when the process was killed
\* or an answer lost in between: passes, retries and aborted jobs alone never
\* pay a claim again (refund, refund_extra and apply mark it before the next
\* pass looks).
DuplicatesNeedFaults ==
    \A k \in Claim, t \in TxId : sent[k][t] <= 1 + faults

\* Nothing is marked as settled unless the money went out, or what was owed
\* does not exceed the fee: a refunded transaction, an extra that is no longer
\* due, a refund request that succeeded.
SettledIsPaid ==
    \A p \in Payment : \A t \in TxId :
        /\ db[p].tx[t] = "refunded" =>
               sent["refund"][t] > 0 \/ chain[t].amount <= Fee
        /\ db[p].tx[t] = "success" /\ db[p].refundExtra /\ ~db[p].extra =>
               sent["extra"][t] > 0 \/ chain[t].amount - db[p].due <= Fee
        /\ db[p].tx[t] = "success" /\ req[p].state = "done" =>
               \/ sent["request"][t] > 0
               \/ (IF req[p].want > 0 THEN req[p].want
                   ELSE IF db[p].refundExtra THEN db[p].due
                   ELSE chain[t].amount) <= Fee

\* The three ways money goes back never meet on the wrong transaction: only a
\* rejected one is refunded as failed, only the one that fulfilled a payment
\* is given its extra or a requested refund.
RightReason ==
    \A t \in TxId :
        /\ sent["refund"][t] > 0 =>
               db[chain[t].to].tx[t] \in {"failed", "refunded", "absent"}
        /\ sent["extra"][t] + sent["request"][t] > 0 =>
               db[chain[t].to].tx[t] = "success"

\* A payment keeps at most one transaction, one of its own that covers the due,
\* and is a success exactly when it keeps one; a due of 0 needs none.
OneFulfils ==
    \A p \in Payment :
        /\ \A t, u \in Fulfilling(db[p]) : t = u
        /\ \A t \in Fulfilling(db[p]) :
               t <= Len(chain) /\ chain[t].to = p /\ chain[t].amount >= db[p].due
        /\ Fulfilling(db[p]) # {} => db[p].success
        /\ db[p].success => Fulfilling(db[p]) # {} \/ db[p].due = 0

\* Without faults a payer never gets back more than was sent, all reasons
\* together, as long as no request asks for more than the payment's due.
NoProfit ==
    \A t \in TxId :
        back[t] > 0 /\ faults = 0 /\ req[chain[t].to].want <= db[chain[t].to].due
            => back[t] <= chain[t].amount

\* The stored payments keep the promise of BillingPromise.
FateOf(status) ==
    IF status = "absent" THEN "open" ELSE IF status = "success" THEN "kept"
    ELSE IF status = "failed" THEN "rejected" ELSE "returned"

Promise == INSTANCE BillingPromise
    WITH fate <- [p \in Payment |-> [t \in TxId |-> FateOf(db[p].tx[t])]]

KeepsPromise == Promise!Spec

\* Each recorded transaction that did not fulfil its payment is given back in
\* the end, unless its own payer cannot receive: whatever becomes of the other
\* transactions of that payment and of the other payments.
RejectedComesBack ==
    \A p \in Payment : \A t \in TxId \ Stuck :
        db[p].tx[t] = "failed" ~> db[p].tx[t] = "refunded"

\* The extra of an overpaid payment is returned in the end, and a refund
\* request is granted in the end.
ExtraComesBack ==
    \A p \in Payment :
        db[p].extra /\ db[p].refundExtra ~> ~db[p].extra

RequestIsGranted ==
    \A p \in Payment : req[p].state = "active" ~> req[p].state = "done"

\* wait_payment answers False only for a payment that expired unpaid.
WaitTellsTruth ==
    \A p \in Payment : waiter[p] = "false" => ~db[p].success
==============================================================================
