------------------------------- MODULE Vesting -------------------------------
(***************************************************************************)
(* Which accounts of the ledger the wallet takes for vesting accounts of   *)
(* its owner (jumpscale/clients/stellar/vesting.py): the cosigners of the  *)
(* network have a weight of 1 each, the owner 5, the account's own key     *)
(* none, and everything takes 10; a transaction that is signed in advance  *)
(* may clean the account up.  Here an account is set up by the code's      *)
(* rules and then changed a few times, as any account may have been.       *)
(***************************************************************************)
EXTENDS Naturals, Sequences, FiniteSets, FiniteSetsExt, SequencesExt

CONSTANTS Cosigners, Owner, Account,
          Strangers,    \* other keys
          Transactions, \* the transactions that can be signed in advance
          Known,        \* those the unlock service knows
          Weights,      \* bound: the weights that a change gives
          MaxChanges    \* bound: changes to the account

Keys == Cosigners \cup {Owner, Account} \cup Strangers

VestingAssumption ==
    /\ IsFiniteSet(Keys) /\ Cardinality(Cosigners) = 9
    /\ Owner \notin Cosigners /\ Account \notin Cosigners \cup {Owner}
    /\ Strangers \cap (Cosigners \cup {Owner, Account}) = {}
    /\ IsFiniteSet(DOMAIN Transactions) /\ Known \subseteq DOMAIN Transactions
    /\ \A t \in DOMAIN Transactions :
         Transactions[t].ops \in Seq([type : STRING, own_source : BOOLEAN, right : BOOLEAN])
    /\ {0, 1, 5, 10} \subseteq Weights /\ Weights \subseteq Nat /\ MaxChanges \in Nat

VARIABLES weights,    \* the weight of each key, 0 for one that is no signer
          preauth,    \* the weight of each transaction that is signed in advance
          thresholds, \* what each kind of operation takes
          scheme,     \* the account has the scheme as its data
          changes

vars == <<weights, preauth, thresholds, scheme, changes>>

Kinds == {"low", "med", "high"}

TypeOK ==
    /\ weights \in [Keys -> Weights]
    /\ preauth \in [DOMAIN Transactions -> Weights]
    /\ thresholds \in [Kinds -> Weights]
    /\ scheme \in BOOLEAN /\ changes \in 0 .. MaxChanges

Init ==
    /\ weights = [k \in Keys |-> CASE k \in Cosigners -> 1 [] k = Owner -> 5 [] OTHER -> 0]
    /\ preauth = [t \in DOMAIN Transactions |-> 0]
    /\ thresholds = [kind \in Kinds |-> 10]
    /\ scheme = TRUE /\ changes = 0

Change == changes < MaxChanges /\ changes' = changes + 1

SetWeight(k, w) ==
    /\ Change /\ weights[k] # w
    /\ weights' = [weights EXCEPT ![k] = w]
    /\ UNCHANGED <<preauth, thresholds, scheme>>
SetPreauth(t, w) ==
    /\ Change /\ preauth[t] # w
    /\ preauth' = [preauth EXCEPT ![t] = w]
    /\ UNCHANGED <<weights, thresholds, scheme>>
SetThreshold(kind, w) ==
    /\ Change /\ thresholds[kind] # w
    /\ thresholds' = [thresholds EXCEPT ![kind] = w]
    /\ UNCHANGED <<weights, preauth, scheme>>
SetData ==
    /\ Change /\ scheme' = ~scheme
    /\ UNCHANGED <<weights, preauth, thresholds>>

Next ==
    \/ \E k \in Keys, w \in Weights : SetWeight(k, w)
    \/ \E t \in DOMAIN Transactions, w \in Weights : SetPreauth(t, w)
    \/ \E kind \in Kinds, w \in Weights : SetThreshold(kind, w)
    \/ SetData

Spec == Init /\ [][Next]_vars

-----------------------------------------------------------------------------
(* The signers of the record: the account's own key is among them with no  *)
(* weight, too.                                                            *)
SigningKeys == {k \in Keys : weights[k] > 0} \cup {Account}
SigningTransactions == {t \in DOMAIN Transactions : preauth[t] > 0}
NumSigners == Cardinality(SigningKeys) + Cardinality(SigningTransactions)

(* _is_valid_cleanup_transaction: of the account, three operations without *)
(* a source of their own, in this order, each with the right arguments.    *)
IsValidCleanup(t) ==
    LET tx == Transactions[t]
        cleans == <<"change_trust", "manage_data", "account_merge">>
    IN /\ t \in Known /\ tx.source = Account
       /\ Len(tx.ops) = 3
       /\ \A i \in 1 .. 3 : tx.ops[i] = [type |-> cleans[i], own_source |-> FALSE, right |-> TRUE]

(* _verify_signers: of several transactions the last one looked at counts. *)
\* Mutant: the number of signers is not looked at.
VerifySigners_Any ==
    /\ \A kind \in Kinds : thresholds[kind] = 10
    /\ \A k \in Cosigners : weights[k] = 1
    /\ weights[Account] = 0 /\ weights[Owner] = 5
    /\ \A t \in SigningTransactions : preauth[t] = 10
VerifySigners ==
    /\ \A kind \in Kinds : thresholds[kind] = 10
    /\ \A k \in Cosigners : weights[k] = 1
    /\ weights[Account] = 0 /\ weights[Owner] = 5
    /\ \A t \in SigningTransactions : preauth[t] = 10
    /\ \/ NumSigners = 11
       \/ NumSigners = 12 /\ \E t \in SigningTransactions : IsValidCleanup(t)

IsVestingAccount == scheme /\ VerifySigners

-----------------------------------------------------------------------------
Weight(S) == FoldSet(LAMBDA k, sum : weights[k] + sum, 0, S)

(* The tokens of what the wallet shows as a vesting account cannot be      *)
(* moved but by the owner with five of the cosigners, whoever else signs,  *)
(* nor locked for good: those six are enough.  And what is signed in       *)
(* advance does nothing but merge the emptied account with the             *)
(* activator's.                                                            *)
VestingIsSafe ==
    IsVestingAccount =>
      /\ \A S \in SUBSET Keys, kind \in Kinds :
           Weight(S) >= thresholds[kind] <=> Owner \in S /\ Cardinality(S \cap Cosigners) >= 5
      /\ \A t \in SigningTransactions :
           /\ Transactions[t].source = Account
           /\ [op \in 1 .. Len(Transactions[t].ops) |-> Transactions[t].ops[op].type]
                = <<"change_trust", "manage_data", "account_merge">>
           /\ \A op \in ToSet(Transactions[t].ops) : op.right /\ ~op.own_source
=============================================================================
