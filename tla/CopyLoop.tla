------------------------------ MODULE CopyLoop ------------------------------
(***************************************************************************)
(* What the copies of src/src/cnif_copy.c have in common: a term and the   *)
(* memory it lies in, 1 .. to0 - 1, and a copy from to0 on.  And what the  *)
(* two copies without a stack, flat_copy and struct_copy, do alike: they   *)
(* scan the copy from front to back, and append to it the objects of the   *)
(* source they meet pointers to.                                           *)
(*                                                                         *)
(* One step is one turn of a loop.  The words cnif_heap_alloc returns for  *)
(* the copy are to0 .. to0 + size - 1.                                     *)
(*                                                                         *)
(* Operators above the one they vary, such as ScanImmediateStays, are      *)
(* slips the properties would catch; the specification does not use them.  *)
(***************************************************************************)
EXTENDS TermHeap

CONSTANTS Source    \* the terms to copy: records of a memory and a term in it

ASSUME CopyAssumption == \A s \in Source : WellFormed(s)

VARIABLES
    way,            \* the function called, "flat", "struct" or "recursive"
    src,            \* the term to copy and its memory as it was, never changed
    pc, mem, size, to0, from, to,
    result          \* the term returned

given == <<way, src, to0>>
loopVars == <<given, pc, mem, size, from, to, result>>

INVALID_TERM == [tag |-> "invalid"]

CopyInit ==
    /\ way \in {"flat", "struct", "recursive"} /\ src \in Source
    /\ pc = "start"
    /\ mem = src.mem
    /\ size = 0 /\ to0 = Cardinality(DOMAIN src.mem) + 1 /\ from = to0 /\ to = to0
    /\ result = INVALID_TERM

\* An immediate is returned as it is
Immediate ==
    /\ pc = "start"
    /\ FlatSize(mem, src.term) = 0
    /\ result' = src.term
    /\ pc' = "done"
    /\ UNCHANGED <<given, mem, size, from, to>>

\* A chunk of the heap for the copy
Granted(n) == [a \in 1 .. to0 + n - 1 |-> IF a < to0 THEN mem[a] ELSE Raw(0)]

Scanning(tag) == pc = "scan" /\ from < to /\ mem[from].tag = tag

\* from skips what holds no term, or steps over the header of a tuple
ScanHeader ==
    /\ Scanning("header")
    /\ mem[from].kind \in {"data", "tuple"}
    /\ from' = from + (IF mem[from].kind = "data" THEN mem[from].arity + 1 ELSE 1)
    /\ UNCHANGED <<given, pc, mem, size, to, result>>

\* The cases SUB_BIN and MAP run on into the default, which returns 0
ScanUnsupported ==
    /\ Scanning("header")
    /\ mem[from].kind \in {"sub_bin", "map"}
    /\ result' = INVALID_TERM
    /\ pc' = "returned_0"
    /\ UNCHANGED <<given, mem, size, from, to>>

ScanImmediateStays ==
    /\ Scanning("imm")
    /\ UNCHANGED loopVars

ScanImmediate ==
    /\ Scanning("imm")
    /\ from' = from + 1
    /\ UNCHANGED <<given, pc, mem, size, to, result>>

ScanNoPointer == ScanHeader \/ ScanUnsupported \/ ScanImmediate

-----------------------------------------------------------------------------
\* What flat_size counted recursively, before the copy starts to overwrite anything, is
\* room for what the loop appends, however objects are shared: it never writes past
\* the chunk.  The flat copy, which copies an object for every pointer to it, fills it.
FillsSize ==
    way \in {"flat", "struct"} =>
        /\ from <= to /\ to <= to0 + size
        /\ DOMAIN mem = 1 .. to0 + size - 1
        /\ way = "flat" /\ pc = "done" => to = to0 + size

\* The result is the same term as the source, and no word of the copy leads back to
\* the source, so that the source may go with its environment.
SameTerm ==
    pc = "done" =>
        /\ Unfold(mem, result) = Unfold(src.mem, src.term)
        /\ to > to0 => /\ result.ptr \in to0 .. to - 1
                       /\ \A a \in to0 .. to - 1 :
                            IsPointer(mem[a]) => mem[a].ptr \in to0 .. to - 1

\* A loop scans what it appends, and the recursive copy calls itself for what it meets:
\* they end, because every turn and every call takes a word of the copy or copies an
\* object, and terms are acyclic.
Returns == <>(pc \in {"done", "returned_0"})
=============================================================================
