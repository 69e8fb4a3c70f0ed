--------------------------- MODULE CompareSamples ---------------------------
(***************************************************************************)
(* What TLC compares, with words of six bits and ints of four: smalls are  *)
(* below 2, an int is -8 .. 7, an int64 -32 .. 31.  The numbers are those  *)
(* on both sides of each boundary; the other terms nest the types in one   *)
(* another, and are the same terms wherever 1 is a small.                  *)
(***************************************************************************)
EXTENDS TermOrder

MCInts == {-32, -31, -9, -8, -4, -2, -1, 0, 1, 3, 31}

MCUints == {0, 1, 2, 3, 8, 15, 16, 31, 32, 33, 63}

Leaves == {MakeUint64(1), MakeInt64(2), Float(2), Atom(<<1>>), Nil}

Tails == Leaves \cup {Cons(MakeUint64(1), Nil), Cons(Nil, Float(2))}

MCTerms ==
    {Float(0), Float(3), Float(2), Atom(<<>>), Atom(<<1>>), Atom(<<1, 2>>), Atom(<<2>>), Nil,
     Binary(<<>>), Binary(<<1, 3>>), Binary(<<2>>), Tuple(<<>>),
     Map(1, <<Nil>>, <<Nil>>), Map(2, <<Nil>>, <<Nil>>)}
    \cup {Tuple(<<h>>) : h \in Leaves}
    \cup {Tuple(<<h, t>>) : h \in {MakeUint64(1), Float(2)}, t \in {Atom(<<1>>), Tuple(<<Float(2)>>)}}
    \cup {Cons(h, t) : h \in {MakeUint64(1), MakeInt64(1), Float(2), Cons(Nil, Nil)}, t \in Tails}

MCJunk == {<<0, 5>>}
=============================================================================
