------------------------------- MODULE Escrow -------------------------------
(***************************************************************************)
(* Locked transfers of the Stellar client                                  *)
(* (jumpscale/clients/stellar/stellar.py, balance.py, wrapped.py): the     *)
(* sender makes an escrow account, gives it to the receiver behind an      *)
(* unlock transaction that is good from locked_until on, and pays into it; *)
(* the receiver lists the accounts that have him as a signer, submits the  *)
(* unlock transaction and merges the account into his own.  The receiver   *)
(* may also be a signer of somebody's multisignature account.              *)
(*                                                                         *)
(* A step is one call of horizon or of the unlock service.  A call that    *)
(* fails, or whose answer is lost after it was done, is a fault.           *)
(***************************************************************************)
EXTENDS Integers

CONSTANTS Retries,     \* attempts of transfer, and escrows it may make
          Cosigned,    \* others' accounts that the receiver may be a signer of
          Highs,       \* high thresholds their owners set
          Funds,       \* tokens the sender has
          Claimers,    \* greenlets that call claim_locked_funds
          UnlockTime,  \* locked_until
          MaxTime,     \* bound: the clock
          MaxFaults    \* bound: failed calls and lost answers

Escrows == 1 .. Retries
Accounts == Escrows \cup Cosigned

ASSUME EscrowAssumption ==
    /\ Retries \in Nat \ {0}
    /\ Cosigned \subseteq Int /\ Cosigned \cap Escrows = {}
    /\ \E first \in Accounts : \A a \in Accounts : first <= a  \* horizon's order
    /\ Highs \subseteq Nat
    /\ Funds \in Nat /\ UnlockTime \in Nat /\ MaxTime \in Nat /\ MaxFaults \in Nat

VARIABLES acct,    \* accounts on the ledger
          unlock,  \* the sequence number of an escrow's unlock transaction
          stored,  \* unlock transactions the unlock service knows
          funds,   \* tokens of the sender
          got,     \* tokens the receiver has claimed
          asset,   \* what is transferred
          sender,  \* where transfer is
          claim,   \* where each claim_locked_funds is
          now,     \* the time
          faults   \* failed calls and lost answers so far

vars == <<acct, unlock, stored, funds, got, asset, sender, claim, now, faults>>
ledger == <<acct, funds, got>>

None == -1
NoAccount == [open |-> FALSE, trust |-> FALSE, seq |-> 0, master |-> 1,
              receiver |-> 0, preauth |-> 0, high |-> 0, tokens |-> 0]
Waiting == [at |-> "idle", todo |-> {}, hashes |-> {}, known |-> {}]

Places == {"activate", "trust", "build", "store", "signers", "pay",
           "returned", "raised", "killed"}

TypeOK ==
    /\ acct \in [Accounts -> [open : BOOLEAN, trust : BOOLEAN, seq : Nat,
                              master : 0 .. 2, receiver : 0 .. 1,
                              preauth : 0 .. 1, high : Nat, tokens : Nat]]
    /\ unlock \in [Escrows -> Nat \cup {None}]
    /\ stored \subseteq Escrows
    /\ funds \in Nat /\ got \in Nat
    /\ asset \in {"XLM", "TFT"}
    /\ sender \in [at : Places, cur : Escrows, pays : 0 .. Retries - 1]
    /\ claim \in [Claimers -> [at : {"idle", "loop", "merge"}, todo : SUBSET Accounts,
                               hashes : SUBSET Accounts, known : SUBSET Accounts]]
    /\ now \in Nat /\ faults \in 0 .. MaxFaults

Init ==
    /\ acct = [a \in Accounts |-> IF a \in Cosigned THEN [NoAccount EXCEPT !.open = TRUE]
                                               ELSE NoAccount]
    /\ unlock = [e \in Escrows |-> None]
    /\ stored = {}
    /\ funds = Funds /\ got = 0
    /\ asset \in {"XLM", "TFT"}
    /\ sender = [at |-> "activate", cur |-> 1, pays |-> 0]
    /\ claim = [c \in Claimers |-> Waiting]
    /\ now = 0 /\ faults = 0

-----------------------------------------------------------------------------
(* The sender.                                                             *)
e0 == sender.cur
SenderAt(at) == sender.at = at
Go(at) == sender' = [sender EXCEPT !.at = at]
Fault == faults < MaxFaults /\ faults' = faults + 1

(* transfer begins again, with a new escrow, after any exception.          *)
AttemptFails ==
    sender' = IF e0 < Retries
              THEN [at |-> "activate", cur |-> e0 + 1, pays |-> 0]
              ELSE [sender EXCEPT !.at = "raised"]

(* A call is done and answered, or it fails before or after it was done.   *)
Call(done, same, next) ==
    \/ done /\ next /\ UNCHANGED faults
    \/ Fault /\ (done \/ same) /\ AttemptFails

(* activate_account: a refusal of the ledger is logged and passed over.    *)
Activated == acct' = [acct EXCEPT ![e0].open = TRUE]
Activate ==
    /\ SenderAt("activate")
    /\ LET next == Go(IF asset = "XLM" THEN "build" ELSE "trust") IN
       \/ Call(Activated, UNCHANGED acct, next)
       \/ Fault /\ UNCHANGED acct /\ next
    /\ UNCHANGED <<unlock, stored, funds, got, asset, claim, now>>

(* load_account of an account that was never made raises.                  *)
NotFound ==
    /\ sender.at \in {"trust", "build"} /\ ~acct[e0].open
    /\ AttemptFails
    /\ UNCHANGED <<ledger, unlock, stored, asset, claim, now, faults>>

(* add_trustline: a transaction of the escrow, which uses up a number.     *)
Trusted == acct' = [acct EXCEPT ![e0].trust = TRUE, ![e0].seq = @ + 1]
AddTrustline ==
    /\ SenderAt("trust") /\ acct[e0].open
    /\ Call(Trusted, UNCHANGED acct, Go("build"))
    /\ UNCHANGED <<unlock, stored, funds, got, asset, claim, now>>

(* _create_unlock_transaction loads the number, counts on by one, and the  *)
(* builder by one more: _set_account_signers will use the one between.     *)
\* Mutant: the number between is forgotten.
UnlockNumber_Next(seq) == seq + 1

UnlockNumber(seq) == seq + 2

(* The unlock transaction's time bound, which the claim reads as well.     *)
\* Mutant: the unlock transaction has no time bound.
MinTime_None == 0

MinTime == UnlockTime

CreateUnlock ==
    /\ SenderAt("build") /\ acct[e0].open
    /\ unlock' = [unlock EXCEPT ![e0] = UnlockNumber(acct[e0].seq)]
    /\ Go("store")
    /\ UNCHANGED <<ledger, stored, asset, claim, now, faults>>

StoreUnlock ==
    /\ SenderAt("store")
    /\ Call(stored' = stored \cup {e0}, UNCHANGED stored, Go("signers"))
    /\ UNCHANGED <<ledger, unlock, asset, claim, now>>

Shared == acct' = [acct EXCEPT ![e0].seq = @ + 1, ![e0].preauth = 1,
                               ![e0].receiver = 1, ![e0].master = 1, ![e0].high = 2]
SetSigners ==
    /\ SenderAt("signers")
    /\ Call(Shared, UNCHANGED acct, Go("pay"))
    /\ UNCHANGED <<unlock, stored, funds, got, asset, claim, now>>

(* The payment is a transfer too, with retries of its own; when these are  *)
(* used up the whole begins again.  The receiver may have merged the       *)
(* escrow already, when the time came before the payment.                  *)
Payable == funds > 0 /\ acct[e0].open /\ acct[e0].trust
Paid == /\ Payable
        /\ funds' = funds - 1
        /\ acct' = [acct EXCEPT ![e0].tokens = @ + 1]
\* Mutant: one attempt too many.
PaymentFails_OneMore ==
    IF sender.pays < Retries
    THEN sender' = [sender EXCEPT !.pays = @ + 1] ELSE AttemptFails

PaymentFails ==
    IF sender.pays + 1 < Retries
    THEN sender' = [sender EXCEPT !.pays = @ + 1] ELSE AttemptFails
Pay ==
    /\ SenderAt("pay") /\ asset # "XLM"
    /\ \/ Paid /\ Go("returned") /\ UNCHANGED faults
       \/ Fault /\ (Paid \/ UNCHANGED <<funds, acct>>) /\ PaymentFails
       \/ ~Payable /\ PaymentFails /\ UNCHANGED <<funds, acct, faults>>
    /\ UNCHANGED <<unlock, stored, got, asset, claim, now>>

(* There is no issuer to add to the name of the native asset: TypeError.   *)
NoIssuer ==
    /\ SenderAt("pay") /\ asset = "XLM"
    /\ AttemptFails
    /\ UNCHANGED <<ledger, unlock, stored, asset, claim, now, faults>>

KillSender ==
    /\ sender.at \notin {"returned", "raised", "killed"}
    /\ Fault /\ Go("killed")
    /\ UNCHANGED <<ledger, unlock, stored, asset, claim, now>>

-----------------------------------------------------------------------------
(* The receiver.  get_balance lists the accounts he is a signer of, each   *)
(* with its preauthorised hashes, and asks the service for their times.    *)
First(S) == CHOOSE a \in S : \A b \in S : a <= b
Stop(c) == claim' = [claim EXCEPT ![c] = Waiting]
Passed(c) == claim' = [claim EXCEPT ![c].todo = @ \ {First(@)}, ![c].at = "loop"]

ClaimLocked(c) ==
    /\ claim[c].at = "idle"
    /\ LET mine == {a \in Accounts : acct[a].open /\ acct[a].receiver > 0}
           hashed == {a \in mine : acct[a].preauth > 0}
       IN claim' = [claim EXCEPT ![c] = [at |-> "loop", todo |-> mine,
                                         hashes |-> hashed,
                                         known |-> hashed \cap stored]]
    /\ UNCHANGED <<ledger, unlock, stored, asset, sender, now, faults>>

ClaimEnds(c) ==
    /\ claim[c].at = "loop" /\ claim[c].todo = {}
    /\ Stop(c)
    /\ UNCHANGED <<ledger, unlock, stored, asset, sender, now, faults>>

(* can_be_unlocked: no hashes left, or the time has passed.                *)
\* Mutant: an account with no hash left is not taken for unlocked.
Locked_NeedsHash(c, a) == ~(a \in claim[c].known /\ now > MinTime)

Locked(c, a) == a \in claim[c].hashes /\ ~(a \in claim[c].known /\ now > MinTime)

NotYet(c) ==
    /\ claim[c].at = "loop" /\ claim[c].todo # {}
    /\ Locked(c, First(claim[c].todo))
    /\ Passed(c)
    /\ UNCHANGED <<ledger, unlock, stored, asset, sender, now, faults>>

(* What the ledger accepts: enough weight, the next number, the time.      *)
Unlockable(a) ==
    /\ acct[a].open /\ acct[a].preauth > 0
    /\ acct[a].master + acct[a].preauth >= acct[a].high
    /\ unlock[a] = acct[a].seq + 1
    /\ now >= MinTime
Unlocked(a) == acct' = [acct EXCEPT ![a].seq = @ + 1, ![a].preauth = 0,
                                    ![a].master = 0, ![a].high = 1]

(* An exception, of the ledger or of the network, ends the whole claim.    *)
Unlock(c) ==
    LET a == First(claim[c].todo) IN
    /\ claim[c].at = "loop" /\ claim[c].todo # {}
    /\ a \in claim[c].hashes /\ ~Locked(c, a)
    /\ \/ Unlockable(a) /\ Unlocked(a) /\ UNCHANGED faults
          /\ claim' = [claim EXCEPT ![c].at = "merge"]
       \/ Unlockable(a) /\ Unlocked(a) /\ Fault /\ Stop(c)
       \/ ~Unlockable(a) /\ UNCHANGED <<acct, faults>> /\ Stop(c)
    /\ UNCHANGED <<unlock, stored, funds, got, asset, sender, now>>

(* _merge_account: pay out all tokens, drop the trustlines, merge; one     *)
(* transaction, which the receiver signs.                                  *)
Mergeable(a) == acct[a].open /\ acct[a].receiver >= acct[a].high
Merged(a) == /\ got' = got + acct[a].tokens
             /\ acct' = [acct EXCEPT ![a] = [NoAccount EXCEPT !.seq = acct[a].seq]]

Merge(c) ==
    LET a == First(claim[c].todo) IN
    /\ claim[c].todo # {}
    /\ claim[c].at = "merge" \/ (claim[c].at = "loop" /\ a \notin claim[c].hashes)
    /\ \/ Mergeable(a) /\ Merged(a) /\ Passed(c) /\ UNCHANGED faults
       \/ Mergeable(a) /\ Merged(a) /\ Stop(c) /\ Fault
       \/ ~Mergeable(a) /\ Stop(c) /\ UNCHANGED <<acct, got, faults>>
    /\ UNCHANGED <<unlock, stored, funds, asset, sender, now>>

(* Any call in it may fail, and the process may be killed.                 *)
ClaimFails(c) ==
    /\ claim[c].at # "idle"
    /\ Fault /\ Stop(c)
    /\ UNCHANGED <<ledger, unlock, stored, asset, sender, now>>

-----------------------------------------------------------------------------
(* The owner of another account makes the receiver a second signer         *)
(* (modify_signing_requirements), or takes him off (remove_signer).        *)
ModifySigners(a, high) ==
    /\ acct[a].open
    /\ acct' = [acct EXCEPT ![a].receiver = 1, ![a].master = 2, ![a].high = high]
    /\ UNCHANGED <<unlock, stored, funds, got, asset, sender, claim, now, faults>>

RemoveSigner(a) ==
    /\ acct[a].open /\ acct[a].master >= acct[a].high /\ acct[a].receiver > 0
    /\ acct' = [acct EXCEPT ![a].receiver = 0]
    /\ UNCHANGED <<unlock, stored, funds, got, asset, sender, claim, now, faults>>

Tick ==
    /\ now < MaxTime
    /\ now' = now + 1
    /\ UNCHANGED <<ledger, unlock, stored, asset, sender, claim, faults>>

Transfer ==
    \/ Activate \/ NotFound \/ AddTrustline \/ CreateUnlock \/ StoreUnlock
    \/ SetSigners \/ Pay \/ NoIssuer \/ KillSender
Claiming(c) == ClaimLocked(c) \/ ClaimEnds(c) \/ NotYet(c) \/ Unlock(c) \/ Merge(c)

Next ==
    \/ Transfer
    \/ \E c \in Claimers : Claiming(c) \/ ClaimFails(c)
    \/ \E a \in Cosigned : RemoveSigner(a) \/ \E high \in Highs : ModifySigners(a, high)
    \/ Tick

(* The clock goes on, and the receiver calls again and again.              *)
Fairness == WF_now(Tick) /\ \A c \in Claimers : WF_vars(Claiming(c))

Spec == Init /\ [][Next]_vars
LiveSpec == Spec /\ Fairness

-----------------------------------------------------------------------------
(* Tokens in an escrow can be claimed, whatever failed on the way there    *)
(* and however often it was tried: the service has the unlock transaction, *)
(* its number is the next one, and with it the receiver gets the weight he *)
(* needs; or it has been done and he has it.                               *)
TokensClaimable ==
    \A e \in Escrows : acct[e].tokens > 0 =>
        /\ acct[e].open /\ acct[e].receiver = 1
        /\ \/ /\ acct[e].preauth = 1 /\ e \in stored
              /\ unlock[e] = acct[e].seq + 1
              /\ acct[e].master + acct[e].preauth >= acct[e].high
              /\ acct[e].receiver < acct[e].high
           \/ acct[e].preauth = 0 /\ acct[e].receiver >= acct[e].high

(* What comes to the receiver comes out of escrows, and not before the     *)
(* time, from any number of claims at once.                                *)
Promise == INSTANCE EscrowPromise WITH held <- [e \in Escrows |-> acct[e].tokens]
KeepsPromise == Promise!Spec

(* "When the proper unlock transaction is added to the wallet, the funds   *)
(* can be claimed" (clients/stellar/readme.md): a receiver who calls       *)
(* claim_locked_funds again and again gets the tokens in the end.          *)
UnlockedIsClaimed ==
    \A e \in Escrows : acct[e].tokens > 0 ~> acct[e].tokens = 0
=============================================================================
