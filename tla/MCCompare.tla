----------------------------- MODULE MCCompare ------------------------------
(***************************************************************************)
(* Terms compared in pairs: the constants are in module CompareSamples.    *)
(***************************************************************************)
EXTENDS Compare, CompareSamples
=============================================================================
