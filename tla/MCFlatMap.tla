----------------------------- MODULE MCFlatMap ------------------------------
(***************************************************************************)
(* FlatMap with four keys, given in arrays of up to three with repeats,    *)
(* and maps of up to four pairs: the search of key_index takes both turns *)
(* and a put can go wrong at each of them.                                 *)
(***************************************************************************)
EXTENDS FlatMap

MCKey == 1 .. 4

MCValue == {"u", "v"}
=============================================================================
