----------------------------- MODULE MCCnifHeap -----------------------------
(***************************************************************************)
(* CnifHeap with fragments of two words, three addresses and two marks:  *)
(* a request fits, needs a new fragment, or an oversized one; a mark       *)
(* can be taken on an empty heap, in the last and in an older fragment.    *)
(***************************************************************************)
EXTENDS CnifHeap, TLC

MCSymmetry == Permutations(Addr)
=============================================================================
