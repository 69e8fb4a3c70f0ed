------------------------------ MODULE FlatCopy ------------------------------
(***************************************************************************)
(* enif_make_flat_copy of src/src/cnif_copy.c: a copy without a stack into *)
(* one chunk of flat_size words.  A shared object is copied for every      *)
(* pointer to it.                                                          *)
(*                                                                         *)
(* Operators above the one they vary, such as AppendObjectOnly, are slips  *)
(* the properties would catch; the specification does not use them.        *)
(***************************************************************************)
EXTENDS CopyLoop

FlatInit == CopyInit /\ way = "flat"

AppendObjectOnly(m, w) ==
    LET n == Words(m, w)
    IN /\ to' = to + n
       /\ mem' = [a \in DOMAIN m |->
                    IF a \in to .. to + n - 1 THEN m[w.ptr + a - to] ELSE m[a]]

\* to[i] = srcp[i]
AppendObject(m, w) ==
    LET n == Words(m, w)
    IN /\ to' = to + n
       /\ mem' = [a \in DOMAIN m |->
                    IF a \in to .. to + n - 1 THEN m[w.ptr + a - to]
                    ELSE IF pc = "scan" /\ a = from THEN [w EXCEPT !.ptr = to]
                    ELSE m[a]]

FlatStart ==
    /\ pc = "start"
    /\ FlatSize(mem, src.term) > 0
    /\ size' = FlatSize(mem, src.term)
    /\ AppendObject(Granted(size'), src.term)
    /\ result' = [src.term EXCEPT !.ptr = to0]
    /\ pc' = "scan"
    /\ UNCHANGED <<given, from>>

FlatPointer ==
    /\ Scanning("list") \/ Scanning("boxed")
    /\ AppendObject(mem, mem[from])
    /\ from' = from + 1
    /\ UNCHANGED <<given, pc, size, result>>

FlatReturn ==
    /\ pc = "scan" /\ from = to
    /\ pc' = "done"
    /\ UNCHANGED <<given, mem, size, from, to, result>>

FlatNext == Immediate \/ FlatStart \/ ScanNoPointer \/ FlatPointer \/ FlatReturn

\* A sequential call: it goes on until it returns
FlatSpec == FlatInit /\ [][FlatNext]_loopVars /\ WF_loopVars(FlatNext)
=============================================================================
