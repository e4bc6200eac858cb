------------------------------ MODULE Wallets -------------------------------
(***************************************************************************)
(* The calls that make, import, change and delete the wallet of one name   *)
(* (jumpscale/packages/admin/actors/wallet.py, clients/stellar/__init__.py *)
(* and the activation in stellar.py; entry_points/threebot.py makes the    *)
(* main wallet the same way).  Every call waits for the network in the     *)
(* middle.  Names share nothing.  The factory keeps an instance in memory  *)
(* from new on, and in its store from save on.                             *)
(***************************************************************************)
EXTENDS Naturals

CONSTANTS Callers,
          Tries,      \* activate_through_threefold_service (5)
          MaxWallets  \* bound: wallets made

WalletsAssumption == Tries \in Nat /\ MaxWallets \in Nat

VARIABLES memory,    \* the instance in the factory, 0 for none
          store,     \* the one in its store, 0 for none
          wallets,   \* number of wallets made
          call,      \* what each caller does, with its wallet
          activated, \* accounts that exist on the ledger
          kept       \* ghost: wallets a caller was given and nobody deleted

vars == <<memory, store, wallets, call, activated, kept>>

None == 0
Made == 1 .. MaxWallets
Idle == [at |-> "idle", wallet |-> None, tries |-> 0, alone |-> TRUE]

TypeOK ==
    /\ memory \in {None} \cup Made /\ store \in {None} \cup Made
    /\ wallets \in 0 .. MaxWallets
    /\ call \in [Callers ->
         [at : {"idle", "activate", "trust", "fund activate", "fund trust", "fund",
                "import", "update"},
          wallet : {None} \cup Made, tries : 0 .. Tries,
          alone : BOOLEAN]]  \* ghost: its instance was not deleted by another
    /\ activated \subseteq Made /\ kept \subseteq Made

Init ==
    /\ memory = None /\ store = None /\ wallets = 0
    /\ call = [c \in Callers |-> Idle]
    /\ activated = {} /\ kept = {}

-----------------------------------------------------------------------------
Found == memory # None \/ store # None
The == IF memory # None THEN memory ELSE store

Disturbs(c, next) ==
    call' = [d \in Callers |->
               IF d = c THEN next
               ELSE IF call[d].at = "idle" THEN call[d]
               ELSE [call[d] EXCEPT !.alone = FALSE]]

(* What is deleted is what has the name now; those who work on it go on.   *)
Delete(c) ==
    /\ memory' = None /\ store' = None
    /\ Disturbs(c, Idle)

New(c, at) ==
    /\ wallets < MaxWallets
    /\ wallets' = wallets + 1
    /\ memory' = wallets + 1
    /\ call' = [call EXCEPT ![c] = [at |-> at, wallet |-> wallets + 1,
                                    tries |-> Tries, alone |-> TRUE]]

At(c, x) == call[c].at = x
Goes(c, x) == call' = [call EXCEPT ![c].at = x]

(* save puts the instance in the store, of which it may not be any more.   *)
Save(c, next) ==
    /\ store' = call[c].wallet
    /\ IF call[c].alone THEN call' = [call EXCEPT ![c] = next] ELSE Disturbs(c, next)
Given(c) == kept' = IF call[c].alone THEN kept \cup {call[c].wallet} ELSE {}
Kept(c) == kept' = IF call[c].alone THEN kept ELSE {}

(* A call whose instance was deleted under it may take another's away.     *)
DeleteOwn(c) == /\ Delete(c)
                /\ Kept(c)

-----------------------------------------------------------------------------
(* create_wallet, and create_testnet_funded_wallet: both refuse a name     *)
(* that the factory knows, before they would delete anything.              *)
Create(c, testnet) ==
    /\ At(c, "idle") /\ ~Found
    /\ New(c, IF testnet THEN "fund activate" ELSE "activate")
    /\ UNCHANGED <<store, activated, kept>>

Activate(c) ==
    /\ call[c].at \in {"activate", "fund activate"}
    /\ activated' = activated \cup {call[c].wallet}
    /\ Goes(c, IF At(c, "activate") THEN "trust" ELSE "fund trust")
    /\ UNCHANGED <<memory, store, wallets, kept>>

(* A try fails; the last one, or the only one of the faucet, reverts.      *)
ActivateFails(c) ==
    /\ call[c].at \in {"activate", "fund activate"}
    /\ IF At(c, "activate") /\ call[c].tries > 1
       THEN /\ call' = [call EXCEPT ![c].tries = @ - 1]
            /\ UNCHANGED <<memory, store, kept>>
       ELSE DeleteOwn(c)
    /\ UNCHANGED <<wallets, activated>>

(* The answer of a try is lost, the account is there.                      *)
ActivateLost(c) ==
    /\ At(c, "activate") /\ call[c].tries > 1
    /\ activated' = activated \cup {call[c].wallet}
    /\ call' = [call EXCEPT ![c].tries = @ - 1]
    /\ UNCHANGED <<memory, store, wallets, kept>>

Trust(c) ==
    /\ call[c].at \in {"trust", "fund trust"}
    /\ IF At(c, "trust")
       THEN Save(c, Idle) /\ Given(c)
       ELSE Save(c, [call[c] EXCEPT !.at = "fund"]) /\ Kept(c)
    /\ UNCHANGED <<memory, wallets, activated>>

Funded(c) ==
    /\ At(c, "fund")
    /\ Given(c)
    /\ call' = [call EXCEPT ![c] = Idle]
    /\ UNCHANGED <<memory, store, wallets, activated>>

(* An account that is activated stays, and its secret is gone.             *)
Reverts(c) ==
    /\ call[c].at \in {"trust", "fund trust", "fund"}
    /\ DeleteOwn(c)
    /\ UNCHANGED <<wallets, activated>>

-----------------------------------------------------------------------------
\* Mutant: the name is not looked up in the list first.
Import_Unlisted(c) ==
    /\ At(c, "idle")
    /\ IF Found
       THEN Delete(c) /\ UNCHANGED wallets
       ELSE New(c, "import") /\ UNCHANGED store
    /\ UNCHANGED <<activated, kept>>

(* import_wallet looks at the list of stored names only: new raises for a  *)
(* name that is in memory, and the instance there is deleted.              *)
Import(c) ==
    /\ At(c, "idle") /\ store = None
    /\ IF memory # None
       THEN Delete(c) /\ UNCHANGED wallets
       ELSE New(c, "import") /\ UNCHANGED store
    /\ UNCHANGED <<activated, kept>>

ImportEnds(c, ok) ==
    /\ At(c, "import")
    /\ IF ok
       THEN Save(c, Idle) /\ Given(c) /\ UNCHANGED memory
       ELSE DeleteOwn(c)
    /\ UNCHANGED <<wallets, activated>>

(* update_trustlines ends in save; or raises, and nothing is saved.        *)
Update(c) ==
    /\ At(c, "idle") /\ Found
    /\ call' = [call EXCEPT ![c] = [Idle EXCEPT !.at = "update", !.wallet = The]]
    /\ UNCHANGED <<memory, store, wallets, activated, kept>>

UpdateEnds(c, ok) ==
    /\ At(c, "update")
    /\ IF ok THEN Save(c, Idle) /\ Kept(c)
             ELSE (call' = [call EXCEPT ![c] = Idle]) /\ UNCHANGED <<store, kept>>
    /\ UNCHANGED <<memory, wallets, activated>>

DeleteWallet(c) ==
    /\ At(c, "idle")
    /\ Delete(c)
    /\ kept' = {}
    /\ UNCHANGED <<wallets, activated>>

(* The process is killed: what was not saved is gone.                      *)
Kill ==
    /\ memory' = None
    /\ call' = [c \in Callers |-> Idle]
    /\ UNCHANGED <<store, wallets, activated, kept>>

Next ==
    \/ \E c \in Callers :
         \/ \E testnet \in BOOLEAN : Create(c, testnet)
         \/ Activate(c) \/ ActivateFails(c) \/ ActivateLost(c)
         \/ Trust(c) \/ Funded(c) \/ Reverts(c)
         \/ Import(c) \/ Update(c) \/ DeleteWallet(c)
         \/ \E ok \in BOOLEAN : ImportEnds(c, ok) \/ UpdateEnds(c, ok)
    \/ Kill

Spec == Init /\ [][Next]_vars

-----------------------------------------------------------------------------
(* A wallet whose address was given to a caller stays the stored wallet of *)
(* its name, with its secret, until delete_wallet is called: no other call *)
(* that saves, or fails and cleans up, takes it away, except one under     *)
(* which its own instance had been deleted.                                *)
GivenIsKept == \A w \in kept : store = w
=============================================================================
