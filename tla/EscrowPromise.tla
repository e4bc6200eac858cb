---------------------------- MODULE EscrowPromise ----------------------------
(***************************************************************************)
(* What a locked transfer promises (Stellar.transfer with locked_until):   *)
(* tokens move from the sender into an escrow, and from there to the       *)
(* receiver, to nobody else and not before the time.                       *)
(***************************************************************************)
EXTENDS Naturals

CONSTANTS Escrows,    \* escrow accounts that may be made
          UnlockTime  \* locked_until

VARIABLES funds,  \* tokens of the sender
          held,   \* tokens in each escrow
          got,    \* tokens the receiver has had out of escrows
          now     \* the time

Init == /\ funds \in Nat
        /\ held = [e \in Escrows |-> 0]
        /\ got = 0
        /\ now = 0

Lock(e) == /\ funds > 0
           /\ funds' = funds - 1
           /\ held' = [held EXCEPT ![e] = @ + 1]
           /\ UNCHANGED <<got, now>>

Release(e) == /\ now >= UnlockTime
              /\ got' = got + held[e]
              /\ held' = [held EXCEPT ![e] = 0]
              /\ UNCHANGED <<funds, now>>

Tick == now' = now + 1 /\ UNCHANGED <<funds, held, got>>

Next == Tick \/ \E e \in Escrows : Lock(e) \/ Release(e)

Spec == Init /\ [][Next]_<<funds, held, got, now>>
=============================================================================
