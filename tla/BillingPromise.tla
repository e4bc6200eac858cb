---------------------------- MODULE BillingPromise ----------------------------
(***************************************************************************)
(* What billing promises of the transactions a payer sends: each of them   *)
(* has one fate.  It is kept as the one that fulfils its payment, or it is *)
(* rejected and can later be returned.  No fate is ever taken back, and a  *)
(* payment keeps at most one transaction.                                  *)
(***************************************************************************)
EXTENDS FiniteSets

CONSTANTS Payment, TxId

VARIABLE fate   \* per payment, the fate of every transaction

Fate == {"open", "kept", "rejected", "returned"}

Kept(f) == {t \in TxId : f[t] = "kept"}

AtMostOne(S) == \A t, u \in S : t = u

\* A fate moves from open to any other, or from rejected to returned.
Onward(f, g) ==
    /\ g \in [TxId -> Fate]
    /\ \A t \in TxId : \/ g[t] = f[t] \/ f[t] = "open"
                       \/ f[t] = "rejected" /\ g[t] = "returned"
    /\ AtMostOne(Kept(g))

Init == fate = [p \in Payment |-> [t \in TxId |-> "open"]]

Next == \E p \in Payment, g \in [TxId -> Fate] :
            Onward(fate[p], g) /\ fate' = [fate EXCEPT ![p] = g]

Spec == Init /\ [][Next]_fate
==============================================================================
