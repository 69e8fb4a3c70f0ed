------------------------------ MODULE MCCopies ------------------------------
(***************************************************************************)
(* The three copies of a term, on the terms of TermSamples.  A behaviour   *)
(* is one call, of enif_make_struct_copy, enif_make_flat_copy or           *)
(* enif_make_copy: way.  They share the variables of CopyLoop.             *)
(***************************************************************************)
EXTENDS FlatCopy, StructCopy, RecursiveCopy, TermSamples

callVars == <<structVars, stack>>

CallInit == CopyInit /\ log = <<>> /\ ptr = 0 /\ stack = <<>>

StructTurn == way = "struct" /\ StructNext /\ UNCHANGED stack

FlatTurn == way = "flat" /\ FlatNext /\ UNCHANGED <<log, ptr, stack>>

RecursiveTurn == way = "recursive" /\ RecursiveNext /\ UNCHANGED <<log, ptr>>

Turn == StructTurn \/ FlatTurn \/ RecursiveTurn

CallSpec == CallInit /\ [][Turn]_callVars /\ WF_callVars(Turn)
=============================================================================
