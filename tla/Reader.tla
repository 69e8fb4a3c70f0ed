------------------------------- MODULE Reader -------------------------------
(***************************************************************************)
(* An enif_io_t (src/src/cnif_io.c) between a caller, the streams and the  *)
(* callback: enif_io_push, enif_io_pop, enif_io_free and the loop of       *)
(* enif_io_scan_forms, one step per turn.  Streams are FILEs, as in        *)
(* cnif_stdio.c: closing one twice, or reading one that is closed, is      *)
(* undefined.                                                              *)
(*                                                                         *)
(* A file is a sequence of items: forms with their terms, and texts the    *)
(* scanner refuses, with an error or without one.  What the scanner makes  *)
(* of a stream is a constant, ReadForm; module FormReader gives it that of *)
(* module Scanner, and here it may be any.  Each frame has the number of   *)
(* its file and, for the properties, taken, the number of its forms that   *)
(* were delivered.                                                         *)
(*                                                                         *)
(* A caller sets the callback before the first scan (enif_io_alloc does    *)
(* not), scans again only when the callback stopped the scan, and gives no *)
(* output but stdout to more than one frame.                               *)
(*                                                                         *)
(* Operators above the one they vary, such as PopInput, are slips the      *)
(* properties would catch; the specification does not use them.            *)
(***************************************************************************)
EXTENDS Integers, Sequences, FiniteSets

CONSTANTS Files,                \* a sequence of sequences of records [kind, term]
          Later,                \* bound: the files that are opened after the first
          MaxOpens,             \* bound on the files that are opened
          ENIF_IO_MAX_DEPTH,
          Opened(_),            \* the stream of a file when it is opened
          ReadForm(_),          \* what a scan reads of a stream: [is, val, p]
          Meaning(_)            \* the same for terms that are the same

ASSUME ReaderAssumption ==
    /\ ENIF_IO_MAX_DEPTH \in Nat \ {0} /\ MaxOpens \in Nat /\ Later \subseteq DOMAIN Files
    /\ \A f \in DOMAIN Files : Len(Files[f]) \in Nat /\ DOMAIN Files[f] = 1 .. Len(Files[f])

VARIABLES stack,     \* the frames of the enif_io_t, the outermost first
          pc,        \* idle, scanning, returned, freed; or aborted, outside
          answer,    \* of the last scan: none yet, complete (1) or failed (0)
          stopped,   \* it was the callback that ended the last scan
          last,      \* the term given to the callback last, if any
          open,      \* the streams that are open, but for stdin and stdout
          opens      \* the number of frames pushed

vars == <<stack, pc, answer, stopped, last, open, opens>>

STD == 0

Top == stack[Len(stack)]
Below == SubSeq(stack, 1, Len(stack) - 1)

Init ==
    /\ stack = <<>> /\ pc = "idle" /\ answer = "none" /\ stopped = FALSE
    /\ last = <<>> /\ open = {} /\ opens = 0

\* enif_io_push on a stack s: no test of the depth.  The frame has a stream of its own
\* to read, and stdout or a stream of its own to write.
Push(s) ==
    \E f \in IF opens = 0 THEN DOMAIN Files ELSE Later, oarg \in {STD, 2 * opens + 2} :
        /\ opens < MaxOpens
        /\ opens' = opens + 1
        /\ stack' = Append(s, [p |-> Opened(f), file |-> f, taken |-> 0,
                               iarg |-> 2 * opens + 1, oarg |-> oarg])
        /\ open' = open \cup ({2 * opens + 1, oarg} \ {STD})
        /\ pc' = IF Len(s) = ENIF_IO_MAX_DEPTH THEN "outside" ELSE pc

PopInput == stack' = Below /\ open' = open \ {Top.iarg}

\* enif_io_pop: both streams are closed
Pop ==
    /\ stack' = Below
    /\ open' = open \ {Top.iarg, Top.oarg}

CallerPushes == pc \in {"idle", "returned"} /\ Push(stack)
                /\ UNCHANGED <<answer, stopped, last>>

CallerPops == /\ pc \in {"idle", "returned"} /\ stack # <<>> /\ Pop
              /\ UNCHANGED <<pc, answer, stopped, last, opens>>

\* enif_io_free
Free ==
    /\ pc \in {"idle", "returned"}
    /\ pc' = "freed" /\ stack' = <<>>
    /\ open' = open \ UNION {{stack[i].iarg, stack[i].oarg} : i \in DOMAIN stack}
    /\ UNCHANGED <<answer, stopped, last, opens>>

Scan ==
    /\ stack # <<>> /\ (pc = "idle" \/ (pc = "returned" /\ stopped))
    /\ pc' = "scanning" /\ answer' = "none" /\ stopped' = FALSE
    /\ UNCHANGED <<stack, last, open, opens>>

-----------------------------------------------------------------------------
\* The loop of enif_io_scan_forms, on what the scanner read of the stream: e
Reads(e) == Append(Below, [Top EXCEPT !.p = e.p])

Return(result) == pc' = "returned" /\ answer' = result

Abort(e) ==
    /\ e.is = "aborted"
    /\ pc' = "aborted" /\ UNCHANGED <<stack, answer, stopped, last, open, opens>>

NoFormReturns(e) ==
    /\ e.is = "nothing"
    /\ stack' = Reads(e) /\ Return("complete") /\ UNCHANGED <<open, stopped, last, opens>>

\* No element and no error is taken for the end of the file
NoForm(e) ==
    /\ e.is = "nothing"
    /\ IF Len(stack) > 1 THEN Pop /\ UNCHANGED <<pc, answer>>
       ELSE stack' = Reads(e) /\ Return("complete") /\ UNCHANGED open
    /\ UNCHANGED <<stopped, last, opens>>

Refuse(e) ==
    /\ e.is = "error"
    /\ stack' = Reads(e) /\ Return("failed")
    /\ UNCHANGED <<stopped, last, open, opens>>

Consumed(e) == Append(Below, [Top EXCEPT !.p = e.p, !.taken = @ + 1])

\* The callback goes on or stops, by its answer, and may push a file before
Deliver(e) ==
    /\ e.is = "form"
    /\ last' = <<e.val>>
    /\ \/ Push(Consumed(e)) /\ UNCHANGED <<answer, stopped>>
       \/ stack' = Consumed(e) /\ UNCHANGED <<pc, answer, stopped, open, opens>>
       \/ stack' = Consumed(e) /\ Return("failed") /\ stopped' = TRUE /\ UNCHANGED <<open, opens>>

Turn ==
    /\ pc = "scanning"
    /\ \E e \in {ReadForm(Top.p)} : Abort(e) \/ NoForm(e) \/ Refuse(e) \/ Deliver(e)

Next == CallerPushes \/ CallerPops \/ Free \/ Scan \/ Turn

Spec == Init /\ [][Next]_vars

-----------------------------------------------------------------------------
\* The stream of a file behind its first forms
Place == [f \in DOMAIN Files |->
           LET behind[k \in 0 .. Len(Files[f])] ==
                 IF k = 0 THEN Opened(f) ELSE ReadForm(behind[k - 1]).p
           IN behind]

Reached(f, k) == \A j \in 0 .. k - 1 : ReadForm(Place[f][j]).is = "form"

\* What e may be when k items of the file f are behind: the next one as what it is,
\* unless the process is gone
ReadAsWritten(f, k, e) ==
    LET kind == IF k = Len(Files[f]) THEN "quiet" ELSE Files[f][k + 1].kind
    IN \/ e.is = "aborted"
       \/ e.is = "nothing" /\ kind = "quiet"
       \/ e.is = "error" /\ kind = "error"
       \/ /\ e.is = "form" /\ kind = "form" /\ k < Len(Files[f])
          /\ Meaning(e.val) = Meaning(Files[f][k + 1].term)
          /\ e.p = Place[f][k + 1]

\* What the scanner owes a scan, at every place where forms lead
ScansAsWritten ==
    \A f \in DOMAIN Files :
        /\ Place[f][0] = Opened(f)
        /\ \A k \in 0 .. Len(Files[f]) :
             Reached(f, k) => ReadAsWritten(f, k, ReadForm(Place[f][k]))

\* The items as the callback is promised them
Promised == [f \in DOMAIN Files |-> [i \in DOMAIN Files[f] |->
              [kind |-> Files[f][i].kind, term |-> Meaning(Files[f][i].term)]]]

\* No form of a file is lost, repeated or read as another than Files has for its text,
\* whatever the callback opens; an erroneous form ends the scan and is reported, and only what
\* sets no error is taken for the end of a file.
Forms == INSTANCE FormStream WITH
    Files <- Promised,
    opened <- [i \in DOMAIN stack |-> [file |-> stack[i].file, taken |-> stack[i].taken]],
    last <- IF last = <<>> THEN [kind |-> "none", term |-> <<>>]
            ELSE [kind |-> "form", term |-> Meaning(last[1])]

ImplementsForms == Forms!Spec

Held(h) == {i \in DOMAIN stack : h \in {stack[i].iarg, stack[i].oarg}}

\* A stream is closed once, and not before its frame is gone: the streams that are
\* open are those of the frames, whether the scan ended with the file, with an error
\* or by the callback, and none is left when the enif_io_t is freed.
ClosesOnce ==
    /\ \A h \in open : Cardinality(Held(h)) = 1
    /\ \A i \in DOMAIN stack : {stack[i].iarg, stack[i].oarg} \subseteq open \cup {STD}
=============================================================================
