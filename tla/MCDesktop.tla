------------------------------ MODULE MCDesktop ------------------------------
(* Instances of Desktop for TLC.                                           *)
EXTENDS Desktop, TLC
=============================================================================
