------------------------------- MODULE Iolists ------------------------------
(***************************************************************************)
(* The bytes of iolists (src/src/cnif.c, and enif_iolist_size of           *)
(* src/src/cnif_misc.c), on the trees of module TermOrder, and the         *)
(* binaries made of them.                                                  *)
(*                                                                         *)
(* Operators above the one they vary, such as NestedStays, are slips the   *)
(* properties would catch; the specification does not use them.            *)
(***************************************************************************)
EXTENDS TermOrder, FiniteSetsExt, Binaries

CONSTANT GivenIolists

RECURSIVE SizeOf(_, _)

\* iolist_size: -1 for a refusal.  For a binary as
\* the tail nothing is stored in the size, which may hold anything.
ItemSize(e, junk) ==
    CASE e.tag = "small" -> IF e.cell > 255 THEN -1 ELSE 1
      [] e.tag = "list" -> SizeOf(e, junk)
      [] e.tag = "binary" -> Len(e.bytes)
      [] OTHER -> -1

SizeOf(t, junk) ==
    LET sizes == [i \in DOMAIN Elements(t) |-> ItemSize(Elements(t)[i], junk)]
    IN IF -1 \in {sizes[i] : i \in DOMAIN sizes} THEN -1
       ELSE CASE LastTail(t).tag = "binary" -> junk
              [] LastTail(t) = Nil -> MapThenSumSet(LAMBDA i : sizes[i], DOMAIN sizes)
              [] OTHER -> -1

\* A buffer with the place of the next byte, and how it goes: ok, refused or overrun
Buffer(len, junk) == [i |-> 0, buf |-> Times(len, junk), is |-> "ok"]
Refused(w) == [w EXCEPT !.is = "refused"]

\* memcpy of bytes to the place at.  What is left of the buffer is an unsigned number:
\* once i is behind the end, anything fits.
Copy(w, at, bytes) ==
    LET len == Len(w.buf)
        to == [k \in 1 .. len |-> IF k - at \in DOMAIN bytes THEN bytes[k - at] ELSE w.buf[k]]
    IN IF w.i <= len /\ Len(bytes) > len - w.i THEN Refused(w)
       ELSE IF at + Len(bytes) > len /\ bytes # <<>> THEN [w EXCEPT !.is = "overrun"]
       ELSE [w EXCEPT !.buf = to]

NestedStays(w, r) == [r EXCEPT !.i = w.i]

\* Behind a list in the list: what it returns is a place, and is added to the place
Nested(w, r) == [r EXCEPT !.i = w.i + r.i]

RECURSIVE ToBuf(_, _)

ItemToBuf(w, e) ==
    CASE w.is # "ok" -> w
      [] w.is = "ok" /\ e.tag = "small" ->
           IF e.cell > 255 \/ w.i >= Len(w.buf) THEN Refused(w)
           ELSE [w EXCEPT !.buf[w.i + 1] = e.cell, !.i = @ + 1]
      [] w.is = "ok" /\ e.tag = "list" -> Nested(w, ToBuf(w, e))
      [] w.is = "ok" /\ e.tag = "binary" ->
           [Copy(w, w.i, e.bytes) EXCEPT !.i = @ + Len(e.bytes)]
      [] OTHER -> Refused(w)

\* iolist_to_buf.  A binary as the tail goes to the start of the buffer, and its size
\* counts twice.
ToBuf(w, t) ==
    LET r == S!FoldLeft(ItemToBuf, w, Elements(t))
    IN IF r.is # "ok" \/ LastTail(t) = Nil THEN r
       ELSE IF LastTail(t).tag # "binary" THEN Refused(r)
       ELSE [Copy(r, 0, LastTail(t).bytes) EXCEPT !.i = @ + 2 * Len(LastTail(t).bytes)]

\* The walks of enif_inspect_iolist_as_binary over an iolist t: for the size, and, in a
\* block of that size, for the bytes
Gather(t, junk) ==
    LET size == SizeOf(t, junk)
        w == ToBuf(Buffer(size, junk), t)
    IN IF size = -1 THEN [iolist |-> t, is |-> "sizeless", bytes |-> <<>>]
       ELSE [iolist |-> t, is |-> w.is, bytes |-> w.buf]

AllGathered == {Gather(t, junk) : t \in GivenIolists, junk \in Unread}

-----------------------------------------------------------------------------
RECURSIVE Flatten(_), HasOther(_), Spans(_, _)
\* The bytes of an iolist
Flatten(t) ==
    LET bytes(e) == CASE e.tag = "small" -> <<e.cell>> [] e.tag = "binary" -> e.bytes
                      [] OTHER -> Flatten(e)
    IN S!FlattenSeq([i \in DOMAIN Elements(t) |-> bytes(Elements(t)[i])])

\* There is something in t, or behind it, that is no byte, list or binary: [] is not
\* a list here
HasOther(t) ==
    \/ LastTail(t).tag \notin {"nil", "binary"}
    \/ \E i \in DOMAIN Elements(t) :
         LET e == Elements(t)[i]
         IN CASE e.tag = "small" -> e.cell > 255
              [] e.tag = "binary" -> FALSE
              [] e.tag = "list" -> HasOther(e)
              [] OTHER -> TRUE

\* Where the lists in a list begin, end, and what their tails are, from the place at
Spans(t, at) ==
    UNION {LET e == Elements(t)[i]
               start == at + Len(Flatten(List(SubSeq(Elements(t), 1, i - 1), Nil)))
           IN IF e.tag = "list"
              THEN {<<start, start + Len(Flatten(e)), LastTail(e)>>} \cup Spans(e, start)
              ELSE {} : i \in DOMAIN Elements(t)}

\* An iolist becomes the binary of its bytes, if each list in it begins with the first
\* byte or ends with the last (behind another, the place is counted twice) and no tail
\* is a binary.  A list with something else in it is refused, at any depth.
IolistExact ==
    call[1] = "iolist" =>
        LET t == call[2]
            tame == /\ LastTail(t) = Nil
                    /\ \A span \in Spans(t, 0) :
                         span[3] = Nil /\ (span[1] = 0 \/ span[2] = Len(Flatten(t)))
        IN /\ HasOther(t) => ~call[3]
           /\ ~HasOther(t) /\ tame => call[3] /\ call[4] = Flatten(t)
=============================================================================
