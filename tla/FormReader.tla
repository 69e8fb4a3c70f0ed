----------------------------- MODULE FormReader -----------------------------
(***************************************************************************)
(* The reader of src/src/cnif_io.c as a whole: Reader on texts, with what  *)
(* Scanner makes of them.                                                  *)
(***************************************************************************)
EXTENDS Scanner, Reader

\* A turn of the loop of enif_io_scan_forms: an element and its '.'
ScanForm(p) ==
    LET e == ParseElement(p)
        stop == SkipBlank(e.p)
    IN IF e.p.aborted THEN [is |-> "aborted", val |-> ERROR, p |-> e.p]
       ELSE IF Failed(e) THEN [is |-> IF e.p.error THEN "error" ELSE "nothing", val |-> ERROR, p |-> e.p]
       ELSE IF Peek(stop) = "." THEN [is |-> "form", val |-> e.val, p |-> Rest(stop)]
       ELSE [is |-> "error", val |-> ERROR, p |-> Fail(Rest(stop)).p]

TextOf == [f \in DOMAIN Files |-> S!FoldLeft(LAMBDA text, item : text \o item.text, "", Files[f])]

TextStream(f) == Stream(TextOf[f], 1)

-----------------------------------------------------------------------------
Lines(text) == Cardinality({i \in 1 .. Len(text) : Nth(text, i) = "\n"})

\* The line a frame shows is that of the character it reads next, behind comments,
\* blank lines and forms over several lines (of a text without a newline in quotes).
LineTracks ==
    \A i \in DOMAIN stack :
        stack[i].p.line + Lines(stack[i].p.text) = 1 + Lines(TextOf[stack[i].file])

\* test.txt has forms only: the test program reads it to its end
ReadsTestFile ==
    /\ pc # "aborted"
    /\ pc = "returned" /\ ~stopped => answer = "complete"
=============================================================================
