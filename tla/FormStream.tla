----------------------------- MODULE FormStream -----------------------------
(***************************************************************************)
(* What enif_io_scan_forms of src/src/cnif_io.c promises to the callback.  *)
(*                                                                         *)
(* Files are opened one upon another, and each is a sequence of items.  A  *)
(* form is delivered once, in the order of the files: the forms of a file  *)
(* the callback opened come before the rest of the one it was opened in.   *)
(* An erroneous item ends the scan.  An item the scanner cannot tell from  *)
(* the end of the file, such as a variable, ends its file.                 *)
(***************************************************************************)
EXTENDS Integers, Sequences

CONSTANT Files    \* a sequence of sequences of items [kind, term], where the kind
                  \* is "form", "error" or "quiet"

VARIABLES opened,   \* the open files, the outermost first, with the forms taken of each
          last,     \* the form delivered last, or none yet
          answer    \* of the scan: "none" until it returns, "complete" or "failed"

vars == <<opened, last, answer>>

Top == opened[Len(opened)]
Below == SubSeq(opened, 1, Len(opened) - 1)

Left == SubSeq(Files[Top.file], Top.taken + 1, Len(Files[Top.file]))
NextIs(kind) == opened # <<>> /\ Left # <<>> /\ Head(Left).kind = kind

None == [kind |-> "none", term |-> <<>>]

Init == opened = <<>> /\ last = None /\ answer = "none"

AtStart == {[file |-> f, taken |-> 0] : f \in DOMAIN Files}

Open == \E file \in AtStart : opened' = Append(opened, file) /\ UNCHANGED <<last, answer>>

Start == answer' = "none" /\ UNCHANGED <<opened, last>>

\* The callback may open a file, and may ask to stop
Deliver ==
    /\ answer = "none" /\ NextIs("form")
    /\ last' = Head(Left)
    /\ LET rest == Append(Below, [Top EXCEPT !.taken = @ + 1])
       IN opened' \in {rest} \cup {Append(rest, file) : file \in AtStart}
    /\ answer' \in {"none", "failed"}

Ended == Left = <<>> \/ NextIs("quiet")

EndOfFile ==
    /\ answer = "none" /\ Len(opened) > 1 /\ Ended
    /\ opened' = Below /\ UNCHANGED <<last, answer>>

Complete ==
    /\ answer = "none" /\ Len(opened) = 1 /\ Ended
    /\ answer' = "complete" /\ UNCHANGED <<opened, last>>

Fails ==
    /\ answer = "none" /\ NextIs("error")
    /\ answer' = "failed" /\ UNCHANGED <<opened, last>>

\* The caller closes the innermost file, or all of them
Close ==
    /\ \E n \in 0 .. Len(opened) - 1 : opened' = SubSeq(opened, 1, n)
    /\ UNCHANGED <<last, answer>>

Next == Open \/ Start \/ Deliver \/ EndOfFile \/ Complete \/ Fails \/ Close

Spec == Init /\ [][Next]_vars
=============================================================================
