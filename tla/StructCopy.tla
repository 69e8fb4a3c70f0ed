----------------------------- MODULE StructCopy -----------------------------
(***************************************************************************)
(* enif_make_struct_copy of src/src/cnif_copy.c: a copy without a stack    *)
(* that copies a shared object once.  The first word of a copied source    *)
(* object is overwritten with a pointer to its copy, and its old value is  *)
(* logged so that the source can be repaired at the end.                   *)
(*                                                                         *)
(* Operators above the one they vary, such as CopyObjectLogsLate, are      *)
(* slips the properties would catch; the specification does not use them.  *)
(***************************************************************************)
EXTENDS CopyLoop, Sequences

VARIABLES
    log,            \* logp0 .. logp: addresses and the words they had
    ptr             \* entries of the log restored so far

structVars == <<loopVars, log, ptr>>

StructInit == CopyInit /\ way = "struct" /\ log = <<>> /\ ptr = 0

-----------------------------------------------------------------------------
ForwardedAnywhere(w) == mem[w.ptr].tag = w.tag

\* IS_LIST / IS_BOXED of the first word and IN_RANGE, whose upper end is included
Forwarded(w) ==
    /\ mem[w.ptr].tag = w.tag
    /\ mem[w.ptr].ptr \in to0 .. to

CopyObjectLogsLate(m, w) ==
    LET n == Words(m, w)
    IN /\ log' = Append(log, [at |-> w.ptr, was |-> [w EXCEPT !.ptr = to]])
       /\ to' = to + n
       /\ mem' = [a \in DOMAIN m |->
                    IF a \in to .. to + n - 1 THEN m[w.ptr + a - to]
                    ELSE IF a = w.ptr THEN [w EXCEPT !.ptr = to]
                    ELSE IF pc = "scan" /\ a = from THEN [w EXCEPT !.ptr = to]
                    ELSE m[a]]

\* to[i] = srcp[i], and SET_POINTER of the object w points to
CopyObject(m, w) ==
    LET n == Words(m, w)
    IN /\ log' = Append(log, [at |-> w.ptr, was |-> m[w.ptr]])
       /\ to' = to + n
       /\ mem' = [a \in DOMAIN m |->
                    IF a \in to .. to + n - 1 THEN m[w.ptr + a - to]
                    ELSE IF a = w.ptr THEN [w EXCEPT !.ptr = to]
                    ELSE IF pc = "scan" /\ a = from THEN [w EXCEPT !.ptr = to]
                    ELSE m[a]]

StructStart ==
    /\ pc = "start"
    /\ FlatSize(mem, src.term) > 0
    /\ size' = FlatSize(mem, src.term)
    /\ CopyObject(Granted(size'), src.term)
    /\ result' = [src.term EXCEPT !.ptr = to0]
    /\ pc' = "scan"
    /\ UNCHANGED <<given, from, ptr>>

ScanForwarded ==
    /\ Scanning("list") \/ Scanning("boxed")
    /\ Forwarded(mem[from])
    /\ mem' = [mem EXCEPT ![from] = mem[mem[from].ptr]]
    /\ from' = from + 1
    /\ UNCHANGED <<given, pc, size, to, log, ptr, result>>

StructPointer ==
    /\ Scanning("list") \/ Scanning("boxed")
    /\ ~Forwarded(mem[from])
    /\ CopyObject(mem, mem[from])
    /\ from' = from + 1
    /\ UNCHANGED <<given, pc, size, ptr, result>>

ScanEnd ==
    /\ pc = "scan" /\ from = to
    /\ pc' = "restore"
    /\ UNCHANGED <<given, mem, size, from, to, log, ptr, result>>

Restore ==
    /\ pc = "restore" /\ ptr < Len(log)
    /\ mem' = [mem EXCEPT ![log[ptr + 1].at] = log[ptr + 1].was]
    /\ ptr' = ptr + 1
    /\ UNCHANGED <<given, pc, size, from, to, log, result>>

StructReturn ==
    /\ pc = "restore" /\ ptr = Len(log)
    /\ pc' = "done"
    /\ UNCHANGED <<given, mem, size, from, to, log, ptr, result>>

StructNext ==
    \/ Immediate /\ UNCHANGED <<log, ptr>>
    \/ StructStart
    \/ ScanNoPointer /\ UNCHANGED <<log, ptr>>
    \/ ScanForwarded \/ StructPointer
    \/ ScanEnd \/ Restore \/ StructReturn

\* A sequential call: it goes on until it returns
StructSpec == StructInit /\ [][StructNext]_structVars /\ WF_structVars(StructNext)

-----------------------------------------------------------------------------
\* Only logged words differ from what the source was, each is logged once, none of the
\* copy is, and the logged word is the original.
SourceLogged ==
    /\ \A k \in 1 .. Len(log) : log[k].at \in 1 .. to0 - 1
    /\ \A a \in 1 .. to0 - 1 :
         mem[a] # src.mem[a] => \E k \in ptr + 1 .. Len(log) : log[k].at = a
    /\ \A k \in 1 .. Len(log) : log[k].was = src.mem[log[k].at]
    /\ \A j, k \in 1 .. Len(log) : log[j].at = log[k].at => j = k

\* At every moment the log tells what the source was.  It has an entry, of two words,
\* for an object, and never runs out of its 2 * size words.
LogRepairs == SourceLogged /\ Len(log) <= to - to0 /\ 2 * Len(log) <= 2 * size

\* An object shared in the source is shared in the copy: it is copied once.
CopiesOnce ==
    way = "struct" /\ pc = "done" /\ size > 0 =>
        /\ to - to0 = SharedSize(src.mem, src.term)
        /\ SharedSize(mem, result) = to - to0

\* cnif_copy.c:373-374 promises "struct copy without a stack" that does "repair
\* the original using a log": when the call has returned, the source is as it was.
OriginalRepaired ==
    pc \in {"done", "returned_0"} => \A a \in 1 .. to0 - 1 : mem[a] = src.mem[a]
=============================================================================
