------------------------------ MODULE MCBilling ------------------------------
(* Values for the constants of Billing that a cfg cannot write. *)
EXTENDS Billing, TLC

\* A refund request without an amount: everything the payment asked for.
All == {-1}

\* Payments are interchangeable, for the run that checks no liveness.
Interchangeable == Permutations(Payment)
==============================================================================
