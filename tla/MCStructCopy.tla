---------------------------- MODULE MCStructCopy ----------------------------
(* StructCopy on the terms of TermSamples. *)
EXTENDS StructCopy, TermSamples
=============================================================================
