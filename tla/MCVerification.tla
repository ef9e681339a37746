--------------------------- MODULE MCVerification ---------------------------
(* Instance of Verification for TLC: every sandbox works.                   *)
EXTENDS Verification

OneThreshold == {85}
SmallDiff == {10}
=============================================================================
