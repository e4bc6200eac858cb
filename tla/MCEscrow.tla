------------------------------ MODULE MCEscrow ------------------------------
(* Two attempts, two greenlets that claim, and one multisignature account  *)
(* that horizon lists after the escrows, or before them.                   *)
EXTENDS Escrow
CONSTANTS c1, c2
MCClaimers == {c1, c2}
MCCosigned == {9}
MCCosignedFirst == {0}
MCHighs == {2}
=============================================================================
