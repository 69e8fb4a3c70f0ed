--------------------------- MODULE RecursiveCopy ----------------------------
(***************************************************************************)
(* enif_make_copy of src/src/cnif_copy.c, the recursive copy.  Unlike the  *)
(* copy loops it takes the words of each object when it meets it, so that  *)
(* the objects of a term lie in the heap in the order they are met; the    *)
(* heap grows at its end and moves nothing (module CnifHeap).              *)
(*                                                                         *)
(* The calls of copy_list and copy_boxed that have not returned are the    *)
(* frames of stack.  One step is one word of an object: copied as it is,   *)
(* or the call for it, or the return of that call.  Of CopyLoop's          *)
(* variables to is the end of the heap, from and size are not used.        *)
(* Objects the library cannot make are left out: functions, references,    *)
(* pids, ports and reference counted binaries.                             *)
(*                                                                         *)
(* Operators above the one they vary, such as NextCellShared, are slips    *)
(* the properties would catch; the specification does not use them.        *)
(***************************************************************************)
EXTENDS CopyLoop, Sequences

VARIABLE
    stack           \* the calls under way, the innermost one last

recursiveVars == <<loopVars, stack>>

RecursiveInit == CopyInit /\ way = "recursive" /\ stack = <<>>

-----------------------------------------------------------------------------
\* cnif_heap_alloc
Taken(n) == [a \in 1 .. to + n - 1 |-> IF a < to THEN mem[a] ELSE Raw(0)]

\* srcp, dstp: the object and its copy; dstp0: the copy of the first cell of a list;
\* i: the words copied
Call(w) == [srcp |-> w, dstp |-> to, dstp0 |-> to, i |-> 0]

\* copy_list or copy_boxed of w begins
Enter(w, frames) ==
    /\ stack' = Append(frames, Call(w))
    /\ mem' = Taken(Words(mem, w))
    /\ to' = to + Words(mem, w)

RecursiveImmediate ==
    /\ pc = "start" /\ ~IsPointer(src.term)
    /\ result' = src.term
    /\ pc' = "done"
    /\ UNCHANGED <<given, mem, size, from, to, stack>>

RecursiveStart ==
    /\ pc = "start" /\ IsPointer(src.term)
    /\ Enter(src.term, <<>>)
    /\ pc' = "copy"
    /\ UNCHANGED <<given, size, from, result>>

Top == stack[Len(stack)]

Copying == pc = "copy" /\ Top.i < Words(mem, Top.srcp)
Copied == pc = "copy" /\ Top.i = Words(mem, Top.srcp)

\* srcp[i]
Word == mem[Top.srcp.ptr + Top.i]

\* dstp[i] = w
Stored(m, f, w) == [m EXCEPT ![f.dstp + f.i] = w]

\* An immediate, or no term
CopyWord ==
    /\ Copying /\ ~IsPointer(Word)
    /\ mem' = Stored(mem, Top, Word)
    /\ stack' = [stack EXCEPT ![Len(stack)].i = @ + 1]
    /\ UNCHANGED <<given, pc, size, from, to, result>>

\* copy_list loops for a tail that is a list
TailCell == Top.srcp.tag = "list" /\ Top.i = 1 /\ Word.tag = "list"

NextCellShared ==
    /\ Copying /\ TailCell
    /\ mem' = Stored(mem, Top, Word)
    /\ stack' = [stack EXCEPT ![Len(stack)].i = 2]
    /\ UNCHANGED <<given, pc, size, from, to, result>>

NextCell ==
    /\ Copying /\ TailCell
    /\ mem' = Stored(Taken(2), Top, List(to))
    /\ stack' = [stack EXCEPT ![Len(stack)] = [@ EXCEPT !.srcp = Word, !.dstp = to, !.i = 0]]
    /\ to' = to + 2
    /\ UNCHANGED <<given, pc, size, from, result>>

CallWord ==
    /\ Copying /\ IsPointer(Word) /\ ~TailCell
    /\ Enter(Word, stack)
    /\ UNCHANGED <<given, pc, size, from, result>>

\* MAKE_LIST(dstp0), MAKE_BOXED(dstp)
Answer(f) == [tag |-> f.srcp.tag, ptr |-> f.dstp0]

\* The caller stores what it returns
ReturnInner ==
    /\ Copied /\ Len(stack) > 1
    /\ LET n == Len(stack) - 1
       IN /\ mem' = Stored(mem, stack[n], Answer(Top))
          /\ stack' = [SubSeq(stack, 1, n) EXCEPT ![n].i = @ + 1]
    /\ UNCHANGED <<given, pc, size, from, to, result>>

ReturnOuter ==
    /\ Copied /\ Len(stack) = 1
    /\ result' = Answer(Top)
    /\ stack' = <<>>
    /\ pc' = "done"
    /\ UNCHANGED <<given, mem, size, from, to>>

RecursiveNext ==
    \/ RecursiveImmediate \/ RecursiveStart
    \/ CopyWord \/ NextCell \/ CallWord
    \/ ReturnInner \/ ReturnOuter

\* A sequential call: it goes on until it returns
RecursiveSpec ==
    RecursiveInit /\ [][RecursiveNext]_recursiveVars /\ WF_recursiveVars(RecursiveNext)

-----------------------------------------------------------------------------
\* enif_make_copy, which asks for no size first, takes exactly the words that
\* enif_flat_size counts, and at no moment has it changed a word of the source.
TakesFlatSize ==
    way = "recursive" =>
        /\ DOMAIN mem = 1 .. to - 1
        /\ \A a \in 1 .. to0 - 1 : mem[a] = src.mem[a]
        /\ to <= to0 + FlatSize(src.mem, src.term)
        /\ pc = "done" => to = to0 + FlatSize(src.mem, src.term)
=============================================================================
