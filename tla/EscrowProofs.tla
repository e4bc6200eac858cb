----------------------------- MODULE EscrowProofs -----------------------------
(***************************************************************************)
(* What Escrow keeps true for every number of attempts, every set of       *)
(* claimers and of cosigned accounts, and every time: tokens in an escrow  *)
(* can be claimed, and come to the receiver as EscrowPromise says.         *)
(*                                                                         *)
(* TokensClaimable is not inductive: a payment goes into an account that   *)
(* was shared with the receiver some calls ago, and that he may have       *)
(* unlocked, or even merged, since.  So each escrow is in one of four      *)
(* conditions (Unshared, LockedUp, Opened, Closed), the place of the sender  *)
(* says which (Prepared), and what a claim has on its list is past sharing *)
(* (InHand).                                                               *)
(***************************************************************************)
EXTENDS Escrow, WellFoundedInduction, TLAPS

-----------------------------------------------------------------------------
\* The receiver has no part in it, and nothing was paid into it.
Unshared(e) == acct[e].receiver = 0 /\ acct[e].preauth = 0 /\ acct[e].tokens = 0

Closed(e) == Unshared(e) /\ ~acct[e].open

\* It was shared: the unlock transaction is known, and the next one.
LockedUp(e) ==
    /\ acct[e].open /\ acct[e].receiver = 1 /\ acct[e].preauth = 1
    /\ acct[e].master = 1 /\ acct[e].high = 2
    /\ e \in stored /\ unlock[e] = acct[e].seq + 1

\* The unlock transaction was submitted, so its time has come.
Opened(e) ==
    /\ acct[e].open /\ acct[e].receiver = 1 /\ acct[e].preauth = 0
    /\ acct[e].high = 1
    /\ now >= UnlockTime

Shareds(e) == LockedUp(e) \/ Opened(e) \/ Closed(e)

\* The sender has nothing more to do with it but pay.
Preparing == {"activate", "trust", "build", "store", "signers"}
Past(e) == e < sender.cur \/ (e = sender.cur /\ sender.at \notin Preparing)

\* Escrows to come do not exist; the one in the making is not shared yet; the
\* one that is paid into has been; and the ones left behind are either.
Prepared ==
    \A e \in Escrows :
        /\ e > sender.cur => Closed(e)
        /\ e = sender.cur /\ sender.at \in Preparing => Unshared(e)
        /\ e = sender.cur /\ sender.at \in {"store", "signers"} =>
             acct[e].open /\ unlock[e] = acct[e].seq + 2
        /\ e = sender.cur /\ sender.at = "signers" => e \in stored
        /\ e = sender.cur /\ sender.at = "pay" => Shareds(e)
        /\ Unshared(e) \/ Shareds(e)

\* What a claim has listed was shared, and closed at most since.
InHand == \A c \in Claimers : \A e \in claim[c].todo \cap Escrows : Past(e) /\ Shareds(e)

\* Nobody pays into the accounts of others, or signs for them in advance.
Others == \A a \in Cosigned : acct[a].preauth = 0 /\ acct[a].tokens = 0

IInv == TypeOK /\ Prepared /\ InHand /\ Others

-----------------------------------------------------------------------------
Account == [open : BOOLEAN, trust : BOOLEAN, seq : Nat, master : 0 .. 2,
            receiver : 0 .. 1, preauth : 0 .. 1, high : Nat, tokens : Nat]

\* One account is written: the others stay, and some of its fields.
Elsewhere(a) == \A b \in Accounts : b # a => acct'[b] = acct[b]
Same(a, field) == acct'[a][field] = acct[a][field]

\* Shared, of any account.
SharedAt(a) == acct' = [acct EXCEPT ![a].seq = @ + 1, ![a].preauth = 1,
                                    ![a].receiver = 1, ![a].master = 1, ![a].high = 2]

-----------------------------------------------------------------------------
\* Some number of each set of numbers is least.
LEMMA LeastNumber ==
  ASSUME NEW T, T \subseteq Nat, T # {}
  PROVE  \E m \in T : \A k \in T : m <= k
<1>1. PICK m \in T : \A k \in T : ~(<<k, m>> \in OpToRel(<, Nat))
  BY NatLessThanWellFounded, WFMin, Zenon
<1>2. ASSUME NEW k \in T PROVE m <= k
  <2>1. ~(k < m)
    BY <1>1 DEF OpToRel
  <2> QED
    BY <2>1
<1> QED
  BY <1>2

\* A list of accounts that is not empty has a first one.
LEMMA FirstIn ==
  ASSUME NEW S \in SUBSET Accounts, S # {}
  PROVE  First(S) \in S /\ First(S) \in Accounts
<1>1. PICK low \in Accounts : \A a \in Accounts : low <= a
  BY EscrowAssumption
<1>2. Accounts \subseteq Int
  BY EscrowAssumption DEF Accounts, Escrows
<1> DEFINE T == {n \in Nat : \E a \in S : n = a - low}
<1>3. \A a \in S : a - low \in T
  BY <1>1, <1>2
<1>4. PICK m \in T : \A k \in T : m <= k
  <2> HIDE DEF T
  <2>1. T \subseteq Nat
    BY DEF T
  <2> QED
    BY <1>3, <2>1, LeastNumber
<1>5. PICK a \in S : m = a - low
  OBVIOUS
<1>6. ASSUME NEW b \in S PROVE a <= b
  BY <1>1, <1>2, <1>3, <1>4, <1>5
<1> QED
  BY <1>6 DEF First

-----------------------------------------------------------------------------
\* What each call does to the ledger: one account is written, the others stay.
LEMMA Opening ==
  ASSUME acct \in [Accounts -> Account], NEW a \in Accounts,
         acct' = [acct EXCEPT ![a].open = TRUE]
  PROVE  /\ acct' \in [Accounts -> Account] /\ Elsewhere(a)
         /\ acct'[a].open /\ Same(a, "receiver") /\ Same(a, "preauth") /\ Same(a, "tokens")
  BY DEF Account, Elsewhere, Same

\* A trustline for an account changes nothing else of it.
LEMMA Trusting ==
  ASSUME acct \in [Accounts -> Account], NEW a \in Accounts,
         acct' = [acct EXCEPT ![a].trust = TRUE, ![a].seq = @ + 1]
  PROVE  /\ acct' \in [Accounts -> Account] /\ Elsewhere(a)
         /\ Same(a, "receiver") /\ Same(a, "preauth") /\ Same(a, "tokens")
  BY DEF Account, Elsewhere, Same

\* Sharing an account makes it the receiver's and the unlock transaction's, for two.
LEMMA Sharing ==
  ASSUME acct \in [Accounts -> Account], NEW a \in Accounts, SharedAt(a)
  PROVE  /\ acct' \in [Accounts -> Account] /\ Elsewhere(a)
         /\ acct'[a].preauth = 1 /\ acct'[a].receiver = 1
         /\ acct'[a].master = 1 /\ acct'[a].high = 2
         /\ acct'[a].seq = acct[a].seq + 1
         /\ Same(a, "open") /\ Same(a, "tokens")
<1> DEFINE r == [open |-> acct[a].open, trust |-> acct[a].trust, seq |-> acct[a].seq + 1,
                 master |-> 1, receiver |-> 1, preauth |-> 1, high |-> 2,
                 tokens |-> acct[a].tokens]
<1>0. acct[a] \in Account
  OBVIOUS
<1>1. acct'[a] = r
  BY <1>0 DEF Account, SharedAt
<1>2. r \in Account
  BY <1>0 DEF Account
<1>3. Elsewhere(a)
  BY DEF Elsewhere, SharedAt
<1>4. acct' \in [Accounts -> Account]
  BY <1>1, <1>2 DEF SharedAt
<1> QED
  BY <1>1, <1>3, <1>4 DEF Same

\* A payment to an account changes nothing else of it.
LEMMA Paying ==
  ASSUME acct \in [Accounts -> Account], NEW a \in Accounts,
         acct' = [acct EXCEPT ![a].tokens = @ + 1]
  PROVE  /\ acct' \in [Accounts -> Account] /\ Elsewhere(a)
         /\ acct'[a].tokens = acct[a].tokens + 1
         /\ Same(a, "open") /\ Same(a, "receiver") /\ Same(a, "preauth")
         /\ Same(a, "master") /\ Same(a, "high") /\ Same(a, "seq")
  BY DEF Account, Elsewhere, Same

\* An unlocked account is left to the receiver.
LEMMA Unlocking ==
  ASSUME acct \in [Accounts -> Account], NEW a \in Accounts, Unlocked(a)
  PROVE  /\ acct' \in [Accounts -> Account] /\ Elsewhere(a)
         /\ acct'[a].preauth = 0 /\ acct'[a].high = 1
         /\ Same(a, "open") /\ Same(a, "receiver") /\ Same(a, "tokens")
<1> DEFINE r == [open |-> acct[a].open, trust |-> acct[a].trust, seq |-> acct[a].seq + 1,
                 master |-> 0, receiver |-> acct[a].receiver, preauth |-> 0, high |-> 1,
                 tokens |-> acct[a].tokens]
<1>0. acct[a] \in Account
  OBVIOUS
<1>1. acct'[a] = r
  BY <1>0 DEF Account, Unlocked
<1>2. r \in Account
  BY <1>0 DEF Account
<1>3. Elsewhere(a)
  BY DEF Elsewhere, Unlocked
<1>4. acct' \in [Accounts -> Account]
  BY <1>1, <1>2 DEF Unlocked
<1> QED
  BY <1>1, <1>3, <1>4 DEF Same

\* A merged account is closed, and empty.
LEMMA Merging ==
  ASSUME acct \in [Accounts -> Account], got \in Nat, NEW a \in Accounts, Merged(a)
  PROVE  /\ acct' \in [Accounts -> Account] /\ Elsewhere(a) /\ got' \in Nat
         /\ ~acct'[a].open /\ acct'[a].receiver = 0 /\ acct'[a].preauth = 0
         /\ acct'[a].tokens = 0
<1> DEFINE r == [NoAccount EXCEPT !.seq = acct[a].seq]
<1>0. acct[a] \in Account
  OBVIOUS
<1>1. acct' = [acct EXCEPT ![a] = r]
  BY DEF Merged
<1>2. NoAccount \in Account
  BY DEF NoAccount, Account
<1>3. /\ r \in Account /\ r.open = NoAccount.open /\ r.receiver = NoAccount.receiver
      /\ r.preauth = NoAccount.preauth /\ r.tokens = NoAccount.tokens
  <2> HIDE DEF NoAccount
  <2> QED
    BY <1>0, <1>2 DEF Account
<1>4. got' \in Nat
  BY <1>0 DEF Merged, Account
<1> HIDE DEF r
<1> QED
  BY <1>1, <1>3, <1>4 DEF Elsewhere, NoAccount

\* A change of who signs leaves the unlock transaction and the tokens.
LEMMA Cosigning ==
  ASSUME acct \in [Accounts -> Account], NEW a \in Accounts, NEW high \in Nat,
         \/ acct' = [acct EXCEPT ![a].receiver = 1, ![a].master = 2, ![a].high = high]
         \/ acct' = [acct EXCEPT ![a].receiver = 0]
  PROVE  /\ acct' \in [Accounts -> Account] /\ Elsewhere(a)
         /\ Same(a, "preauth") /\ Same(a, "tokens")
  BY DEF Account, Elsewhere, Same

-----------------------------------------------------------------------------
\* The sender goes forward: what he is done with he stays done with.
Forward ==
    /\ sender' \in [at : Places, cur : Escrows, pays : 0 .. Retries - 1]
    /\ \A e \in Escrows : Past(e) => Past(e)'

\* An attempt that fails goes on to the next, or ends.
LEMMA FailsForward ==
  ASSUME TypeOK, AttemptFails
  PROVE  Forward
<1> USE EscrowAssumption DEF TypeOK, e0, Escrows, Places
<1>1. CASE e0 < Retries
  BY <1>1 DEF AttemptFails, Forward, Past
<1>2. CASE ~(e0 < Retries)
  BY <1>2 DEF AttemptFails, Forward, Past, Preparing
<1> QED
  BY <1>1, <1>2

\* Going on to another place stays with the escrow it is at.
LEMMA GoForward ==
  ASSUME TypeOK, NEW at \in Places, Go(at),
         at \in Preparing => sender.at \in Preparing
  PROVE  /\ Forward /\ sender'.cur = e0 /\ sender'.at = at
  BY DEF TypeOK, Go, e0, Forward, Past, Places

\* A payment that fails goes on to the next try, or ends.
LEMMA PaymentFailsForward ==
  ASSUME TypeOK, PaymentFails
  PROVE  Forward
<1>1. CASE sender.pays + 1 < Retries
  BY <1>1, EscrowAssumption DEF PaymentFails, TypeOK, Forward, Past, Places, Escrows
<1>2. CASE ~(sender.pays + 1 < Retries)
  BY <1>2, FailsForward DEF PaymentFails
<1> QED
  BY <1>1, <1>2

\* A step of the sender is about the escrow in the making alone.
LEMMA SenderStep ==
  ASSUME IInv, NEW a \in Escrows, a = e0, Forward, Elsewhere(a), acct' \in [Accounts -> Account],
         UNCHANGED <<claim, now>>, stored \subseteq stored',
         \A e \in Escrows : e # a => unlock'[e] = unlock[e],
         Past(a) => Shareds(a)',
         Unshared(a)' \/ Shareds(a)',
         \/ AttemptFails
         \/ /\ sender'.cur = a
            /\ sender'.at \in Preparing => Unshared(a)'
            /\ sender'.at \in {"store", "signers"} =>
                 acct'[a].open /\ unlock'[a] = acct'[a].seq + 2
            /\ sender'.at = "signers" => a \in stored'
            /\ sender'.at = "pay" => Shareds(a)'
  PROVE  Prepared' /\ InHand' /\ Others'
<1> a = sender.cur /\ Escrows \subseteq Accounts /\ Escrows \subseteq Int /\ a \in Int
  BY DEF IInv, TypeOK, e0, Escrows, Accounts
<1>1. ASSUME NEW e \in Escrows, e # a
      PROVE  /\ Unshared(e)' <=> Unshared(e)
             /\ Closed(e)' <=> Closed(e)
             /\ Shareds(e) => Shareds(e)'
  BY <1>1 DEF Elsewhere, Unshared, Closed, Shareds, LockedUp, Opened
<1>2. Prepared'
  <2>1. CASE AttemptFails
    <3>1. CASE e0 < Retries
      <4>1. sender'.cur = a + 1 /\ sender'.at = "activate"
        BY <2>1, <3>1 DEF AttemptFails
      <4> QED
        BY <4>1, <1>1 DEF IInv, Prepared, Preparing, Closed
    <3>2. CASE ~(e0 < Retries)
      <4>1. sender'.cur = a /\ sender'.at = "raised"
        BY <2>1, <3>2 DEF AttemptFails, e0, IInv, TypeOK
      <4> QED
        BY <4>1, <1>1 DEF IInv, Prepared, Preparing
    <3> QED
      BY <3>1, <3>2
  <2>2. CASE ~AttemptFails
    BY <2>2, <1>1 DEF IInv, Prepared
  <2> QED
    BY <2>1, <2>2
<1>3. InHand'
  BY <1>1 DEF IInv, InHand, Forward
<1>4. Others'
  BY EscrowAssumption DEF IInv, Others, Elsewhere, Accounts
<1> QED
  BY <1>2, <1>3, <1>4

\* A step of a claim, or of the owner of another account, leaves the sender
\* alone, and is about one account.
LEMMA OtherStep ==
  ASSUME IInv, NEW a \in Accounts, Elsewhere(a), acct' \in [Accounts -> Account],
         UNCHANGED <<unlock, stored, sender, now>>,
         a \in Escrows => Past(a) /\ Shareds(a)',
         a \in Cosigned => acct'[a].preauth = 0 /\ acct'[a].tokens = 0,
         \A c \in Claimers : claim'[c].todo \subseteq claim[c].todo
  PROVE  Prepared' /\ InHand' /\ Others'
<1> Escrows \subseteq Accounts /\ Escrows \subseteq Int /\ sender.cur \in Int
  BY DEF IInv, TypeOK, Escrows, Accounts
<1>1. ASSUME NEW e \in Escrows, e # a
      PROVE  /\ Unshared(e)' <=> Unshared(e)
             /\ Closed(e)' <=> Closed(e)
             /\ acct'[e] = acct[e]
             /\ Shareds(e) => Shareds(e)'
  BY <1>1 DEF Elsewhere, Unshared, Closed, Shareds, LockedUp, Opened
<1>2. Prepared'
  <2>1. a \in Escrows => /\ ~(a > sender.cur) /\ ~(a = sender.cur /\ sender.at \in Preparing)
                         /\ Shareds(a)'
    BY EscrowAssumption DEF Past, Escrows
  <2> QED
    BY <1>1, <2>1 DEF IInv, Prepared, Preparing
<1>3. InHand'
  BY <1>1 DEF IInv, InHand, Past
<1>4. Others'
  BY EscrowAssumption DEF IInv, Others, Elsewhere, Accounts
<1> QED
  BY <1>2, <1>3, <1>4

-----------------------------------------------------------------------------
\* The invariant holds at first.
LEMMA InitIInv == Init => IInv
<1> SUFFICES ASSUME Init PROVE IInv
  OBVIOUS
<1>1. acct = [a \in Accounts |-> IF a \in Cosigned THEN [NoAccount EXCEPT !.open = TRUE]
                                                   ELSE NoAccount]
  BY DEF Init
<1>2. NoAccount \in Account
  BY DEF NoAccount, Account
<1>3. /\ [NoAccount EXCEPT !.open = TRUE] \in Account
      /\ [NoAccount EXCEPT !.open = TRUE].preauth = NoAccount.preauth
      /\ [NoAccount EXCEPT !.open = TRUE].tokens = NoAccount.tokens
  BY <1>2 DEF Account
<1>4. acct \in [Accounts -> Account]
  BY <1>1, <1>2, <1>3
<1>5. \A e \in Escrows : Closed(e)
  BY <1>1, EscrowAssumption DEF Closed, Unshared, NoAccount, Accounts
<1>6. Others
  BY <1>1, <1>3 DEF Others, NoAccount, Accounts
<1>7. TypeOK
  <2>1. sender \in [at : Places, cur : Escrows, pays : 0 .. Retries - 1]
    BY EscrowAssumption DEF Init, Escrows, Places
  <2>2. claim \in [Claimers -> [at : {"idle", "loop", "merge"}, todo : SUBSET Accounts,
                                hashes : SUBSET Accounts, known : SUBSET Accounts]]
    BY DEF Init, Waiting
  <2>3. /\ unlock \in [Escrows -> Nat \cup {None}] /\ stored \subseteq Escrows
        /\ funds \in Nat /\ got \in Nat /\ asset \in {"XLM", "TFT"}
        /\ now \in Nat /\ faults \in 0 .. MaxFaults
    BY EscrowAssumption DEF Init
  <2> QED
    BY <1>4, <2>1, <2>2, <2>3 DEF TypeOK, Account
<1>8. Prepared
  BY <1>5 DEF Init, Prepared, Preparing, Closed
<1>9. InHand
  BY DEF Init, InHand, Waiting
<1> QED
  BY <1>6, <1>7, <1>8, <1>9 DEF IInv

-----------------------------------------------------------------------------
\* The sender's steps.
LEMMA ActivateStep ==
  ASSUME IInv, Activate
  PROVE  IInv'
<1> USE DEF IInv, Activate
<1>0. PICK a \in Escrows : a = e0 /\ a \in Accounts
  BY DEF TypeOK, e0, Accounts
<1>1. /\ acct' \in [Accounts -> Account] /\ Elsewhere(a)
      /\ Same(a, "receiver") /\ Same(a, "preauth") /\ Same(a, "tokens")
  BY <1>0, Opening DEF TypeOK, Account, Call, Activated, Elsewhere, Same
<1>2. Unshared(a) /\ ~Past(a)
  BY <1>0 DEF Prepared, SenderAt, Preparing, e0, Past, TypeOK, Escrows
<1>3. Unshared(a)'
  BY <1>1, <1>2 DEF Unshared, Same
<1>4. /\ Forward
      /\ AttemptFails \/ (sender'.cur = a /\ sender'.at \in {"trust", "build"})
  BY <1>0, FailsForward, GoForward DEF Call, SenderAt, Preparing, Places
<1>5. faults' \in 0 .. MaxFaults
  BY EscrowAssumption DEF Call, Fault, TypeOK
<1>6. TypeOK'
  BY <1>1, <1>4, <1>5 DEF TypeOK, Account, Forward
<1> QED
  BY <1>0, <1>1, <1>2, <1>3, <1>4, <1>6, SenderStep DEF Preparing

\* An escrow account that is not found yet keeps the invariant.
LEMMA NotFoundStep ==
  ASSUME IInv, NotFound
  PROVE  IInv'
<1> USE DEF IInv, NotFound, ledger
<1>0. PICK a \in Escrows : a = e0 /\ a \in Accounts
  BY DEF TypeOK, e0, Accounts
<1>1. acct' \in [Accounts -> Account] /\ Elsewhere(a)
  BY DEF TypeOK, Account, Elsewhere
<1>2. Unshared(a) /\ ~Past(a)
  BY <1>0 DEF Prepared, Preparing, e0, Past, TypeOK, Escrows
<1>3. Unshared(a)'
  BY <1>2 DEF Unshared
<1>4. Forward
  BY FailsForward
<1>6. TypeOK'
  BY <1>4 DEF TypeOK, Forward
<1> QED
  BY <1>0, <1>1, <1>2, <1>3, <1>4, <1>6, SenderStep

\* So does its trustline.
LEMMA AddTrustlineStep ==
  ASSUME IInv, AddTrustline
  PROVE  IInv'
<1> USE DEF IInv, AddTrustline
<1>0. PICK a \in Escrows : a = e0 /\ a \in Accounts
  BY DEF TypeOK, e0, Accounts
<1>1. /\ acct' \in [Accounts -> Account] /\ Elsewhere(a)
      /\ Same(a, "receiver") /\ Same(a, "preauth") /\ Same(a, "tokens")
  BY <1>0, Trusting DEF TypeOK, Account, Call, Trusted, Elsewhere, Same
<1>2. Unshared(a) /\ ~Past(a)
  BY <1>0 DEF Prepared, SenderAt, Preparing, e0, Past, TypeOK, Escrows
<1>3. Unshared(a)'
  BY <1>1, <1>2 DEF Unshared, Same
<1>4. /\ Forward
      /\ AttemptFails \/ (sender'.cur = a /\ sender'.at = "build")
  BY <1>0, FailsForward, GoForward DEF Call, SenderAt, Preparing, Places
<1>5. faults' \in 0 .. MaxFaults
  BY EscrowAssumption DEF Call, Fault, TypeOK
<1>6. TypeOK'
  BY <1>1, <1>4, <1>5 DEF TypeOK, Account, Forward
<1> QED
  BY <1>0, <1>1, <1>2, <1>3, <1>4, <1>6, SenderStep DEF Preparing

\* So does making the unlock transaction.
LEMMA CreateUnlockStep ==
  ASSUME IInv, CreateUnlock
  PROVE  IInv'
<1> USE DEF IInv, CreateUnlock, ledger
<1>0. PICK a \in Escrows : a = e0 /\ a \in Accounts
  BY DEF TypeOK, e0, Accounts
<1>1. acct' \in [Accounts -> Account] /\ Elsewhere(a)
  BY DEF TypeOK, Account, Elsewhere
<1>2. Unshared(a) /\ ~Past(a)
  BY <1>0 DEF Prepared, SenderAt, Preparing, e0, Past, TypeOK, Escrows
<1>3. Unshared(a)'
  BY <1>2 DEF Unshared
<1>4. Forward /\ sender'.cur = a /\ sender'.at = "store"
  BY <1>0, GoForward DEF SenderAt, Preparing, Places
<1>5. /\ unlock' \in [Escrows -> Nat \cup {None}] /\ unlock'[a] = acct'[a].seq + 2
      /\ \A e \in Escrows : e # a => unlock'[e] = unlock[e]
  BY <1>0, <1>1 DEF TypeOK, UnlockNumber, Account
<1>6. TypeOK'
  BY <1>4, <1>5 DEF TypeOK, Forward
<1> QED
  BY <1>0, <1>1, <1>2, <1>3, <1>4, <1>5, <1>6, SenderStep

\* So does storing the unlock transaction.
LEMMA StoreUnlockStep ==
  ASSUME IInv, StoreUnlock
  PROVE  IInv'
<1> USE DEF IInv, StoreUnlock, ledger
<1>0. PICK a \in Escrows : a = e0 /\ a \in Accounts
  BY DEF TypeOK, e0, Accounts
<1>1. acct' \in [Accounts -> Account] /\ Elsewhere(a)
  BY DEF TypeOK, Account, Elsewhere
<1>2. Unshared(a) /\ ~Past(a) /\ acct'[a].open /\ unlock'[a] = acct'[a].seq + 2
  BY <1>0 DEF Prepared, SenderAt, Preparing, e0, Past, TypeOK, Escrows
<1>3. Unshared(a)'
  BY <1>2 DEF Unshared
<1>4. /\ Forward /\ stored \subseteq stored' /\ stored' \subseteq Escrows
      /\ AttemptFails \/ (sender'.cur = a /\ sender'.at = "signers" /\ a \in stored')
  BY <1>0, FailsForward, GoForward DEF TypeOK, Call, SenderAt, Preparing, Places
<1>5. faults' \in 0 .. MaxFaults
  BY EscrowAssumption DEF Call, Fault, TypeOK
<1>6. TypeOK'
  BY <1>4, <1>5 DEF TypeOK, Forward
<1> QED
  BY <1>0, <1>1, <1>2, <1>3, <1>4, <1>6, SenderStep

\* The sharing transaction takes up the number before the unlock transaction's.
LEMMA SetSignersStep ==
  ASSUME IInv, SetSigners
  PROVE  IInv'
<1> USE DEF IInv, SetSigners
<1>0. PICK a \in Escrows : a = e0 /\ a \in Accounts
  BY DEF TypeOK, e0, Accounts
<1>1. acct \in [Accounts -> Account] /\ acct[a] \in Account
  BY <1>0 DEF TypeOK, Account
<1>2. /\ Unshared(a) /\ ~Past(a)
      /\ acct[a].open /\ unlock[a] = acct[a].seq + 2 /\ a \in stored
  BY <1>0 DEF Prepared, SenderAt, Preparing, e0, Past, TypeOK, Escrows
<1>3. /\ acct' \in [Accounts -> Account] /\ Elsewhere(a)
      /\ \/ Shared /\ LockedUp(a)'
         \/ ~Shared /\ acct' = acct
  <2>1. CASE Shared
    <3>0. SharedAt(a)
      BY <1>0, <2>1 DEF Shared, SharedAt
    <3>1. /\ acct' \in [Accounts -> Account] /\ Elsewhere(a)
          /\ acct'[a].preauth = 1 /\ acct'[a].receiver = 1
          /\ acct'[a].master = 1 /\ acct'[a].high = 2
          /\ acct'[a].seq = acct[a].seq + 1
          /\ Same(a, "open")
      BY <1>0, <1>1, <3>0, Sharing
    <3>2. unlock'[a] = acct'[a].seq + 1
      <4>1. acct[a].seq \in Nat
        BY <1>1 DEF Account
      <4> QED
        BY <1>2, <3>1, <4>1
    <3>3. LockedUp(a)'
      BY <1>2, <3>1, <3>2 DEF LockedUp, Same
    <3> QED
      BY <2>1, <3>1, <3>3
  <2>2. CASE ~Shared
    BY <1>1, <2>2 DEF Call, Elsewhere
  <2> QED
    BY <2>1, <2>2
<1>4. /\ Forward
      /\ AttemptFails \/ (sender'.cur = a /\ sender'.at = "pay" /\ Shared)
  BY <1>0, FailsForward, GoForward DEF Call, SenderAt, Preparing, Places
<1>5. faults' \in 0 .. MaxFaults
  BY EscrowAssumption DEF Call, Fault, TypeOK
<1>6. TypeOK'
  BY <1>3, <1>4, <1>5 DEF TypeOK, Account, Forward
<1>7. Unshared(a)' \/ Shareds(a)'
  BY <1>2, <1>3 DEF Shareds, Unshared
<1> QED
  BY <1>0, <1>2, <1>3, <1>4, <1>6, <1>7, SenderStep DEF Shareds, Preparing

\* A payment may find the escrow locked up or opened, but not closed.
LEMMA PayStep ==
  ASSUME IInv, Pay
  PROVE  IInv'
<1> USE DEF IInv, Pay
<1>0. PICK a \in Escrows : a = e0 /\ a \in Accounts
  BY DEF TypeOK, e0, Accounts
<1>1. acct \in [Accounts -> Account] /\ acct[a] \in Account
  BY <1>0 DEF TypeOK, Account
<1>2. Shareds(a)
  BY <1>0 DEF Prepared, SenderAt, e0
<1>3. acct' \in [Accounts -> Account] /\ Elsewhere(a) /\ Shareds(a)' /\ funds' \in Nat
  <2>1. CASE Paid
    <3>1. /\ acct' \in [Accounts -> Account] /\ Elsewhere(a)
          /\ Same(a, "open") /\ Same(a, "receiver") /\ Same(a, "preauth")
          /\ Same(a, "master") /\ Same(a, "high") /\ Same(a, "seq")
      BY <1>0, <1>1, <2>1, Paying DEF Paid
    <3>2. acct[a].open /\ funds' \in Nat
      BY <1>0, <2>1 DEF Paid, Payable, TypeOK
    <3>3. Shareds(a)'
      BY <1>2, <3>1, <3>2 DEF Shareds, LockedUp, Opened, Closed, Same
    <3> QED
      BY <3>1, <3>2, <3>3
  <2>2. CASE ~Paid
    <3>1. acct' = acct /\ funds' = funds
      BY <2>2
    <3> QED
      BY <1>1, <1>2, <3>1 DEF Elsewhere, TypeOK, Shareds, LockedUp, Opened, Closed, Unshared
  <2> QED
    BY <2>1, <2>2
<1>4. /\ Forward
      /\ AttemptFails \/ (sender'.cur = a /\ sender'.at \in {"pay", "returned"})
  <2>1. CASE PaymentFails
    BY <1>0, <2>1, PaymentFailsForward DEF PaymentFails, SenderAt, e0, TypeOK
  <2>2. CASE Go("returned")
    BY <1>0, <2>2, GoForward DEF Preparing, Places
  <2> QED
    BY <2>1, <2>2
<1>5. faults' \in 0 .. MaxFaults
  BY EscrowAssumption DEF Fault, TypeOK
<1>6. TypeOK'
  BY <1>3, <1>4, <1>5 DEF TypeOK, Account, Forward
<1> QED
  BY <1>0, <1>3, <1>4, <1>6, SenderStep DEF Preparing

\* So does ending for want of an issuer.
LEMMA NoIssuerStep ==
  ASSUME IInv, NoIssuer
  PROVE  IInv'
<1> USE DEF IInv, NoIssuer, ledger
<1>0. PICK a \in Escrows : a = e0 /\ a \in Accounts
  BY DEF TypeOK, e0, Accounts
<1>1. acct' \in [Accounts -> Account] /\ Elsewhere(a)
  BY DEF TypeOK, Account, Elsewhere
<1>2. Shareds(a)'
  BY <1>0 DEF Prepared, SenderAt, e0, Shareds, LockedUp, Opened, Closed, Unshared
<1>3. Forward
  BY FailsForward
<1>4. TypeOK'
  BY <1>3 DEF TypeOK, Forward
<1> QED
  BY <1>0, <1>1, <1>2, <1>3, <1>4, SenderStep

\* A sender that is killed keeps the invariant.
LEMMA KillSenderStep ==
  ASSUME IInv, KillSender
  PROVE  IInv'
<1> USE DEF IInv, KillSender, ledger
<1>0. PICK a \in Escrows : a = e0 /\ a \in Accounts
  BY DEF TypeOK, e0, Accounts
<1>1. acct' \in [Accounts -> Account] /\ Elsewhere(a)
  BY DEF TypeOK, Account, Elsewhere
<1>2. /\ Unshared(a)' \/ Shareds(a)'
      /\ Past(a) => Shareds(a)'
  BY <1>0 DEF Prepared, e0, Past, Preparing, Places, TypeOK, Escrows,
     Shareds, LockedUp, Opened, Closed, Unshared
<1>3. Forward /\ sender'.cur = a /\ sender'.at = "killed"
  BY <1>0, GoForward DEF Preparing, Places
<1>4. TypeOK'
  BY <1>3, EscrowAssumption DEF TypeOK, Forward, Fault
<1> QED
  BY <1>0, <1>1, <1>2, <1>3, <1>4, SenderStep DEF Preparing

\* Every step of a transfer keeps the invariant.
LEMMA TransferStep ==
  ASSUME IInv, Transfer
  PROVE  IInv'
  BY ActivateStep, NotFoundStep, AddTrustlineStep, CreateUnlockStep, StoreUnlockStep,
     SetSignersStep, PayStep, NoIssuerStep, KillSenderStep, Zenon DEF Transfer

-----------------------------------------------------------------------------
\* The receiver's steps.  What he lists has him as a signer, so it is shared.
ClaimType == claim \in [Claimers -> [at : {"idle", "loop", "merge"}, todo : SUBSET Accounts,
                                     hashes : SUBSET Accounts, known : SUBSET Accounts]]

\* Stop keeps the invariant.
LEMMA StopKeeps ==
  ASSUME ClaimType, NEW c \in Claimers, Stop(c)
  PROVE  ClaimType' /\ \A d \in Claimers : claim'[d].todo \subseteq claim[d].todo
<1>1. Waiting \in [at : {"idle", "loop", "merge"}, todo : SUBSET Accounts,
                   hashes : SUBSET Accounts, known : SUBSET Accounts]
  BY DEF Waiting
<1>2. Waiting.todo = {}
  BY DEF Waiting
<1> QED
  BY <1>1, <1>2 DEF ClaimType, Stop

\* Passed keeps the invariant.
LEMMA PassedKeeps ==
  ASSUME ClaimType, NEW c \in Claimers, Passed(c)
  PROVE  ClaimType' /\ \A d \in Claimers : claim'[d].todo \subseteq claim[d].todo
<1>1. /\ ClaimType' /\ claim'[c].todo = claim[c].todo \ {First(claim[c].todo)}
      /\ \A d \in Claimers : d # c => claim'[d] = claim[d]
  BY DEF ClaimType, Passed
<1> QED
  BY <1>1

\* Listing the accounts that can be claimed keeps the invariant.
LEMMA ClaimLockedStep ==
  ASSUME IInv, NEW c \in Claimers, ClaimLocked(c)
  PROVE  IInv'
<1> USE DEF IInv, ledger
<1> DEFINE mine == {a \in Accounts : acct[a].open /\ acct[a].receiver > 0}
           hashed == {a \in mine : acct[a].preauth > 0}
<1>1. claim' = [claim EXCEPT ![c] = [at |-> "loop", todo |-> mine, hashes |-> hashed,
                                     known |-> hashed \cap stored]]
  BY DEF ClaimLocked
<1>2. UNCHANGED <<acct, funds, got, unlock, stored, asset, sender, now, faults>>
  BY DEF ClaimLocked
<1>3. \A e \in mine \cap Escrows : Past(e) /\ Shareds(e)
  BY DEF Prepared, Past, Closed, Unshared, TypeOK, Escrows
<1>4. mine \subseteq Accounts /\ hashed \subseteq Accounts
  OBVIOUS
<1> HIDE DEF mine, hashed
<1>5. ClaimType'
  BY <1>1, <1>4 DEF ClaimType, TypeOK
<1>6. /\ claim'[c].todo = mine
      /\ \A d \in Claimers : d # c => claim'[d] = claim[d]
  BY <1>1 DEF TypeOK
<1>7. TypeOK'
  BY <1>2, <1>5 DEF TypeOK, ClaimType
<1>8. Prepared' /\ Others'
  BY <1>2 DEF Prepared, Others, Unshared, Shareds, LockedUp, Opened, Closed
<1>9. \A d \in Claimers : \A e \in claim'[d].todo \cap Escrows : Past(e) /\ Shareds(e)
  BY <1>3, <1>6 DEF InHand
<1>10. InHand'
  BY <1>2, <1>9 DEF InHand, Past, Shareds, LockedUp, Opened, Closed, Unshared
<1> QED
  BY <1>7, <1>8, <1>10

\* A claim that passes an account by, fails or ends keeps the invariant.
LEMMA PassingStep ==
  ASSUME IInv, NEW c \in Claimers, ClaimEnds(c) \/ NotYet(c) \/ ClaimFails(c)
  PROVE  IInv'
<1> USE DEF IInv, ledger, ClaimEnds, NotYet, ClaimFails
<1>1. UNCHANGED <<acct, funds, got, unlock, stored, asset, sender, now>> /\ faults' \in 0 .. MaxFaults
  BY EscrowAssumption DEF Fault, TypeOK
<1>2. ClaimType' /\ \A d \in Claimers : claim'[d].todo \subseteq claim[d].todo
  BY StopKeeps, PassedKeeps DEF TypeOK, ClaimType
<1>3. TypeOK'
  BY <1>1, <1>2 DEF TypeOK, ClaimType
<1>4. Prepared' /\ Others'
  BY <1>1 DEF Prepared, Others, Unshared, Shareds, LockedUp, Opened, Closed
<1>5. \A d \in Claimers : \A e \in claim'[d].todo \cap Escrows : Past(e) /\ Shareds(e)
  BY <1>2 DEF InHand
<1>6. InHand'
  BY <1>1, <1>5 DEF InHand, Past, Shareds, LockedUp, Opened, Closed, Unshared
<1> QED
  BY <1>3, <1>4, <1>6

\* The ledger takes an unlock transaction of a locked escrow when its time has come.
LEMMA UnlockStep ==
  ASSUME IInv, NEW c \in Claimers, Unlock(c)
  PROVE  IInv'
<1> USE DEF IInv
<1>1. PICK a \in Accounts : a = First(claim[c].todo) /\ a \in claim[c].todo
  BY FirstIn DEF Unlock, TypeOK
<1>2. acct \in [Accounts -> Account] /\ acct[a] \in Account /\ ClaimType
  BY <1>1 DEF TypeOK, Account, ClaimType
<1>3. faults' \in 0 .. MaxFaults /\ UNCHANGED <<unlock, stored, funds, got, asset, sender, now>>
  BY EscrowAssumption DEF Fault, TypeOK, Unlock
<1>4. ClaimType' /\ \A d \in Claimers : claim'[d].todo \subseteq claim[d].todo
  <2>1. CASE claim' = [claim EXCEPT ![c].at = "merge"]
    BY <1>2, <2>1 DEF ClaimType
  <2>2. CASE Stop(c)
    BY <1>2, <2>2, StopKeeps
  <2> QED
    BY <2>1, <2>2 DEF Unlock
<1>5. a \in Escrows => Past(a) /\ Shareds(a)
  BY <1>1 DEF InHand
<1>6. /\ acct' \in [Accounts -> Account] /\ Elsewhere(a)
      /\ a \in Escrows => Shareds(a)'
      /\ a \in Cosigned => acct'[a].preauth = 0 /\ acct'[a].tokens = 0
  <2>1. CASE Unlockable(a) /\ Unlocked(a)
    <3>1. a \notin Cosigned /\ a \in Escrows
      BY <1>1, <2>1 DEF Unlockable, Others, Accounts
    <3>2. LockedUp(a) /\ now >= UnlockTime
      BY <1>5, <2>1, <3>1 DEF Unlockable, MinTime, Shareds, Opened, Closed, Unshared
    <3>3. /\ acct' \in [Accounts -> Account] /\ Elsewhere(a)
          /\ acct'[a].preauth = 0 /\ acct'[a].high = 1
          /\ Same(a, "open") /\ Same(a, "receiver")
      BY <1>1, <1>2, <2>1, Unlocking
    <3>4. Opened(a)'
      BY <1>3, <3>2, <3>3 DEF LockedUp, Opened, Same
    <3> QED
      BY <3>1, <3>3, <3>4 DEF Shareds
  <2>2. CASE acct' = acct
    BY <1>2, <1>3, <1>5, <2>2
    DEF Elsewhere, Others, Shareds, LockedUp, Opened, Closed, Unshared
  <2> QED
    BY <1>1, <2>1, <2>2 DEF Unlock
<1>7. TypeOK'
  BY <1>3, <1>4, <1>6 DEF TypeOK, Account, ClaimType
<1> QED
  BY <1>1, <1>3, <1>4, <1>5, <1>6, <1>7, OtherStep

\* The receiver alone cannot merge a locked escrow.
LEMMA MergeStep ==
  ASSUME IInv, NEW c \in Claimers, Merge(c)
  PROVE  IInv'
<1> USE DEF IInv
<1>1. PICK a \in Accounts : a = First(claim[c].todo) /\ a \in claim[c].todo
  BY FirstIn DEF Merge, TypeOK
<1>2. acct \in [Accounts -> Account] /\ acct[a] \in Account /\ ClaimType /\ got \in Nat
  BY <1>1 DEF TypeOK, Account, ClaimType
<1>3. faults' \in 0 .. MaxFaults /\ UNCHANGED <<unlock, stored, funds, asset, sender, now>>
  BY EscrowAssumption DEF Fault, TypeOK, Merge
<1>4. ClaimType' /\ \A d \in Claimers : claim'[d].todo \subseteq claim[d].todo
  BY <1>2, StopKeeps, PassedKeeps DEF Merge
<1>5. a \in Escrows => Past(a) /\ Shareds(a)
  BY <1>1 DEF InHand
<1>6. /\ acct' \in [Accounts -> Account] /\ Elsewhere(a) /\ got' \in Nat
      /\ a \in Escrows => Shareds(a)'
      /\ a \in Cosigned => acct'[a].preauth = 0 /\ acct'[a].tokens = 0
  <2>1. CASE Merged(a)
    <3>1. /\ acct' \in [Accounts -> Account] /\ Elsewhere(a) /\ got' \in Nat
          /\ ~acct'[a].open /\ acct'[a].receiver = 0 /\ acct'[a].preauth = 0
          /\ acct'[a].tokens = 0
      BY <1>1, <1>2, <2>1, Merging
    <3> QED
      BY <3>1 DEF Shareds, Closed, Unshared
  <2>2. CASE UNCHANGED <<acct, got>>
    BY <1>2, <1>3, <1>5, <2>2
    DEF Elsewhere, Others, Shareds, LockedUp, Opened, Closed, Unshared
  <2> QED
    BY <1>1, <2>1, <2>2 DEF Merge
<1>7. TypeOK'
  BY <1>3, <1>4, <1>6 DEF TypeOK, Account, ClaimType
<1> QED
  BY <1>1, <1>3, <1>4, <1>5, <1>6, <1>7, OtherStep

\* The owners of other accounts do not touch the escrows.
LEMMA OwnerStep ==
  ASSUME IInv, NEW a \in Cosigned,
         RemoveSigner(a) \/ \E high \in Highs : ModifySigners(a, high)
  PROVE  IInv'
<1> USE DEF IInv, RemoveSigner, ModifySigners
<1>1. a \in Accounts /\ a \notin Escrows /\ acct \in [Accounts -> Account]
  BY EscrowAssumption DEF Accounts, TypeOK, Account
<1>2. PICK high \in Nat :
         \/ acct' = [acct EXCEPT ![a].receiver = 1, ![a].master = 2, ![a].high = high]
         \/ acct' = [acct EXCEPT ![a].receiver = 0]
  BY EscrowAssumption
<1>3. acct' \in [Accounts -> Account] /\ Elsewhere(a) /\ Same(a, "preauth") /\ Same(a, "tokens")
  BY <1>1, <1>2, Cosigning
<1>4. TypeOK'
  BY <1>3 DEF TypeOK, Account
<1>5. acct'[a].preauth = 0 /\ acct'[a].tokens = 0
  BY <1>3 DEF Others, Same
<1>6. UNCHANGED <<unlock, stored, funds, got, asset, sender, claim, now, faults>>
  OBVIOUS
<1> QED
  BY <1>1, <1>3, <1>4, <1>5, <1>6, OtherStep

\* Time opens what was shared, and closes nothing.
LEMMA TickStep ==
  ASSUME IInv, Tick
  PROVE  IInv'
<1> USE DEF IInv, Tick, ledger
<1>1. TypeOK'
  BY DEF TypeOK
<1>2. \A e \in Escrows : Shareds(e) => Shareds(e)'
  BY EscrowAssumption DEF Shareds, LockedUp, Opened, Closed, Unshared, TypeOK
<1>3. Prepared'
  BY <1>2 DEF Prepared, Closed, Unshared
<1>4. InHand' /\ Others'
  BY <1>2 DEF InHand, Past, Others
<1> QED
  BY <1>1, <1>3, <1>4

\* Every step keeps the invariant.
LEMMA StepIInv == IInv /\ [Next]_vars => IInv'
<1> SUFFICES ASSUME IInv, [Next]_vars PROVE IInv'
  OBVIOUS
<1>1. CASE Transfer
  BY <1>1, TransferStep
<1>2. ASSUME NEW c \in Claimers, Claiming(c) \/ ClaimFails(c)
      PROVE  IInv'
  BY <1>2, ClaimLockedStep, PassingStep, UnlockStep, MergeStep DEF Claiming
<1>3. ASSUME NEW a \in Cosigned, RemoveSigner(a) \/ \E high \in Highs : ModifySigners(a, high)
      PROVE  IInv'
  BY <1>3, OwnerStep
<1>4. CASE Tick
  BY <1>4, TickStep
<1>5. CASE UNCHANGED vars
  BY <1>5 DEF vars, IInv, TypeOK, Prepared, InHand, Others, Past, Shareds, LockedUp, Opened,
     Closed, Unshared
<1> QED
  BY <1>1, <1>2, <1>3, <1>4, <1>5 DEF Next

\* The invariant holds in every state.
LEMMA Invariant == Spec => []IInv
  BY InitIInv, StepIInv, PTL DEF Spec

\* Accounts, escrows' numbers, the sender and the claims are what they are said
\* to be: no attempt goes beyond the retries, no weight beyond its bound.
THEOREM TypeCorrect == Spec => []TypeOK
<1>1. IInv => TypeOK
  BY DEF IInv
<1> QED
  BY <1>1, Invariant, PTL

\* Tokens in an escrow can be claimed, whatever call failed and however often
\* the transfer began again: they were paid into an account that was shared,
\* and merging it is the only way out of that.
THEOREM Claimable == Spec => []TokensClaimable
<1>1. IInv => TokensClaimable
  <2> SUFFICES ASSUME IInv, NEW e \in Escrows, acct[e].tokens > 0
               PROVE  LockedUp(e) \/ Opened(e)
    BY DEF TokensClaimable, LockedUp, Opened
  <2>1. Unshared(e) \/ Shareds(e)
    BY DEF IInv, Prepared
  <2> QED
    BY <2>1 DEF Shareds, Closed, Unshared
<1> QED
  BY <1>1, Invariant, PTL

-----------------------------------------------------------------------------
\* Each step of the detailed specification is one of the promise's, or none.
held == [e \in Escrows |-> acct[e].tokens]
KeptVars == <<funds, held, got, now>>

\* The initial state maps to one of the promise.
LEMMA InitKept == Init => Promise!Init
<1> SUFFICES ASSUME Init PROVE Promise!Init
  OBVIOUS
<1>1. acct = [a \in Accounts |-> IF a \in Cosigned THEN [NoAccount EXCEPT !.open = TRUE]
                                                   ELSE NoAccount]
  BY DEF Init
<1>2. \A e \in Escrows : acct[e].tokens = 0
  BY <1>1, EscrowAssumption DEF NoAccount, Accounts
<1> QED
  BY <1>2, EscrowAssumption DEF Init, Promise!Init

\* Nothing but a payment and a merger moves tokens.
LEMMA TokensStay ==
  ASSUME UNCHANGED <<funds, got, now>>, \A e \in Escrows : acct'[e].tokens = acct[e].tokens
  PROVE  UNCHANGED KeptVars
  BY DEF KeptVars, held

\* No escrow has other tokens where the one account at work has not.
LEMMA TokensSame ==
  ASSUME NEW a \in Accounts, Elsewhere(a), Same(a, "tokens")
  PROVE  \A e \in Escrows : acct'[e].tokens = acct[e].tokens
  BY DEF Elsewhere, Same, Accounts

\* Every step of a transfer maps to a step of the promise or to none.
LEMMA TransferKept ==
  ASSUME IInv, Transfer
  PROVE  [Promise!Next]_KeptVars
<1> USE DEF IInv
<1>0. PICK a \in Escrows : a = e0 /\ a \in Accounts
  BY DEF TypeOK, e0, Accounts
<1>1. acct \in [Accounts -> Account] /\ acct[a] \in Account
  BY <1>0 DEF TypeOK, Account
<1>2. CASE Paid
  <2>1. /\ Elsewhere(a) /\ acct'[a].tokens = acct[a].tokens + 1
    BY <1>0, <1>1, <1>2, Paying DEF Paid
  <2>2. held' = [held EXCEPT ![a] = @ + 1]
    BY <2>1 DEF held, Elsewhere, Accounts
  <2>3. funds > 0 /\ funds' = funds - 1
    BY <1>2 DEF Paid, Payable
  <2>4. UNCHANGED <<got, now>>
    BY DEF Transfer, Activate, NotFound, AddTrustline, CreateUnlock, StoreUnlock, SetSigners,
           Pay, NoIssuer, KillSender, ledger
  <2> QED
    BY <2>2, <2>3, <2>4 DEF Promise!Next, Promise!Lock, held
<1>3. CASE ~Paid
  <2>1. UNCHANGED <<funds, got, now>>
    BY <1>3 DEF Transfer, Activate, NotFound, AddTrustline, CreateUnlock, StoreUnlock,
           SetSigners, Pay, NoIssuer, KillSender, ledger
  <2>2. \/ acct' = acct
        \/ acct' = [acct EXCEPT ![a].open = TRUE]
        \/ acct' = [acct EXCEPT ![a].trust = TRUE, ![a].seq = @ + 1]
        \/ SharedAt(a)
    BY <1>0, <1>3 DEF Transfer, Activate, NotFound, AddTrustline, CreateUnlock, StoreUnlock,
           SetSigners, Pay, NoIssuer, KillSender, ledger, Call,
           Activated, Trusted, Shared, SharedAt
  <2>3. \A e \in Escrows : acct'[e].tokens = acct[e].tokens
    BY <1>0, <1>1, <2>2, Opening, Trusting, Sharing, TokensSame
  <2> QED
    BY <2>1, <2>3, TokensStay
<1> QED
  BY <1>2, <1>3

\* A merger releases what an opened escrow holds; an account of somebody else's
\* holds nothing.
LEMMA MergeKept ==
  ASSUME IInv, NEW c \in Claimers, Merge(c)
  PROVE  [Promise!Next]_KeptVars
<1> USE DEF IInv
<1>1. PICK a \in Accounts : a = First(claim[c].todo) /\ a \in claim[c].todo
  BY FirstIn DEF Merge, TypeOK
<1>2. acct \in [Accounts -> Account] /\ acct[a] \in Account /\ got \in Nat
  BY <1>1 DEF TypeOK, Account
<1>3. UNCHANGED <<funds, now>>
  BY DEF Merge
<1>4. CASE ~(Mergeable(a) /\ Merged(a))
  <2>1. UNCHANGED <<acct, got>>
    BY <1>1, <1>4 DEF Merge
  <2> QED
    BY <1>3, <2>1, TokensStay
<1>5. CASE Mergeable(a) /\ Merged(a)
  <2>1. Elsewhere(a) /\ acct'[a].tokens = 0 /\ got' = got + acct[a].tokens
    BY <1>2, <1>5, Merging DEF Merged
  <2>2. CASE a \in Cosigned
    <3>1. acct[a].tokens = 0
      BY <2>2 DEF Others
    <3> QED
      BY <1>2, <1>3, <2>1, <3>1, TokensSame, TokensStay DEF Same
  <2>3. CASE a \in Escrows
    <3>1. now >= UnlockTime
      BY <1>1, <1>5, <2>3 DEF InHand, Mergeable, Shareds, LockedUp, Opened, Closed
    <3>2. held' = [held EXCEPT ![a] = 0] /\ got' = got + held[a]
      BY <2>1, <2>3 DEF held, Elsewhere, Accounts
    <3> QED
      BY <1>3, <2>3, <3>1, <3>2 DEF Promise!Next, Promise!Release, held
  <2> QED
    BY <2>2, <2>3 DEF Accounts
<1> QED
  BY <1>4, <1>5

\* Every step does.
LEMMA StepKept ==
  ASSUME IInv, [Next]_vars
  PROVE  [Promise!Next]_KeptVars
<1> acct \in [Accounts -> Account]
  BY DEF IInv, TypeOK, Account
<1>1. ASSUME NEW c \in Claimers, Claiming(c) \/ ClaimFails(c)
      PROVE  [Promise!Next]_KeptVars
  <2>1. CASE ClaimLocked(c) \/ ClaimEnds(c) \/ NotYet(c) \/ ClaimFails(c)
    BY <2>1, TokensStay DEF ClaimLocked, ClaimEnds, NotYet, ClaimFails, ledger
  <2>2. CASE Unlock(c)
    <3>1. PICK a \in Accounts : a = First(claim[c].todo)
      BY <2>2, FirstIn DEF Unlock, IInv, TypeOK
    <3>2. UNCHANGED acct \/ Unlocked(a)
      BY <2>2, <3>1 DEF Unlock
    <3>3. \A e \in Escrows : acct'[e].tokens = acct[e].tokens
      BY <3>2, Unlocking, TokensSame
    <3> QED
      BY <2>2, <3>3, TokensStay DEF Unlock
  <2>3. CASE Merge(c)
    BY <2>3, MergeKept
  <2> QED
    BY <1>1, <2>1, <2>2, <2>3 DEF Claiming
<1>2. ASSUME NEW a \in Cosigned, RemoveSigner(a) \/ \E high \in Highs : ModifySigners(a, high)
      PROVE  [Promise!Next]_KeptVars
  <2>1. PICK high \in Nat :
           \/ acct' = [acct EXCEPT ![a].receiver = 1, ![a].master = 2, ![a].high = high]
           \/ acct' = [acct EXCEPT ![a].receiver = 0]
    BY <1>2, EscrowAssumption DEF RemoveSigner, ModifySigners
  <2>2. \A e \in Escrows : acct'[e].tokens = acct[e].tokens
    BY <2>1, Cosigning, TokensSame DEF Accounts
  <2> QED
    BY <1>2, <2>2, TokensStay DEF RemoveSigner, ModifySigners
<1>3. CASE Tick
  BY <1>3 DEF Tick, ledger, Promise!Next, Promise!Tick
<1>4. CASE UNCHANGED vars
  BY <1>4, TokensStay DEF vars
<1> QED
  BY <1>1, <1>2, <1>3, <1>4, TransferKept DEF Next

\* The calls of sender and receiver implement EscrowPromise: what comes to the
\* receiver comes out of escrows, and not before the time, however many claims
\* run at once.
THEOREM Implements == Spec => KeepsPromise
<1>1. IInv /\ [Next]_vars => [Promise!Next]_<<funds, [e \in Escrows |-> acct[e].tokens], got, now>>
  BY StepKept DEF KeptVars, held
<1> QED
  BY <1>1, InitKept, Invariant, PTL DEF Spec, KeepsPromise, Promise!Spec
==============================================================================
