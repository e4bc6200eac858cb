------------------------------ MODULE MCServer ------------------------------
(* A small instance of Server: two callers, and for each component the      *)
(* values at which its cases happen.                                        *)
EXTENDS Server, TLC

CONSTANTS g1, g2, cf, foo, foobar, ada, page1, page2, w1, w2

Greenlets == {g1, g2}
Interchangeable == Permutations(Greenlets)

(* Three packages, one with a name that begins as another's, and one without *)
(* services.                                                                 *)
PkgsServed == {cf, foobar}
PkgsPrefixed == {<<foo, foobar>>}

(* The name of one script is part of the other's. *)
ScriptsWithin == {<<"a", "ba">>}

(* A voter with two sessions and two wallets, one of them empty. *)
OneVoter == [s \in Greenlets |-> ada]
OneFilled == [w \in {w1, w2} |-> IF w = w1 THEN 2 ELSE 0]
=============================================================================
