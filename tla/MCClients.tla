------------------------------ MODULE MCClients ------------------------------
(* A small instance of Clients: two callers, and for each component the     *)
(* values at which its cases happen.                                        *)
EXTENDS Clients, TLC

CONSTANTS c1, c2

TwoCallers == {c1, c2}
Interchangeable == Permutations(TwoCallers)

(* Two names that are one but for their capitals. *)
Lowered == [n \in {"TF-d", "tf-d"} |-> "tf-d"]

(* Labels to rename, to delete and to spare; no name has capitals. *)
LowerLabels == [n \in {"bug", "type_bug", "type_unknown", "p_x"} |-> n]
Colors == [n \in DOMAIN LowerLabels |->
             IF n \in {"type_bug", "type_unknown"} THEN "type" ELSE "white"]
Replacements == [bug |-> "type_bug", type_bug |-> "type_unknown"]

(* What is signed in advance: the clean-up, one with its last operation for   *)
(* another account, and one with a payment before it.                         *)
Op(type, right) == [type |-> type, own_source |-> FALSE, right |-> right]
Cleanup == <<Op("change_trust", TRUE), Op("manage_data", TRUE), Op("account_merge", TRUE)>>
Signed == [cleanup |-> [source |-> "account", ops |-> Cleanup],
           elsewhere |-> [source |-> "account", ops |-> [Cleanup EXCEPT ![3].right = FALSE]],
           longer |-> [source |-> "account", ops |-> <<Op("payment", TRUE)>> \o Cleanup]]
=============================================================================
