----------------------------- MODULE MadeTerms ------------------------------
(***************************************************************************)
(* A program that makes terms one after the other, integers among them, by *)
(* enif_make_int64 and enif_make_uint64 (src/src/cnif.c), and reads the    *)
(* last one back.  What it does with them otherwise is in module Compare.  *)
(***************************************************************************)
EXTENDS IntTerm, Sequences

CONSTANTS Ints, Uints,   \* the numbers given to enif_make_int64, enif_make_uint64
          Terms          \* terms made in other ways

ASSUME MadeTermsAssumption == Ints \subseteq Int64 /\ Uints \subseteq Uint64

VARIABLES made,     \* the terms, in the order they were made
          given     \* the number the last one was made of: at most one

madeVars == <<made, given>>

MadeInit == made = <<>> /\ given = {}

Made(t, from) ==
    /\ made' = Append(made, t)
    /\ given' = from

MakeInt == \E i \in Ints : Made(MakeInt64(i), {i})

MakeUint == \E u \in Uints : Made(MakeUint64(u), {u})

MakeOther == \E t \in Terms : Made(t, {})

MadeNext == MakeInt \/ MakeUint \/ MakeOther

MadeSpec == MadeInit /\ [][MadeNext]_madeVars

-----------------------------------------------------------------------------
\* Each get function answers the number a term was made of exactly when its C
\* type can hold it, on both sides of small and bignum and down to -2^63.
RoundTrip ==
    \A v \in given : LET x == made[Len(made)] IN
        /\ GetInt64(x) = (IF v \in Int64 THEN Answer(v) ELSE Refusal)
        /\ GetUint64(x) = (IF v \in Uint64 THEN Answer(v) ELSE Refusal)
        /\ GetInt(x) = (IF v \in CInt THEN Answer(v) ELSE Refusal)
        /\ GetUint(x) = (IF v \in CUint THEN Answer(v) ELSE Refusal)
=============================================================================
