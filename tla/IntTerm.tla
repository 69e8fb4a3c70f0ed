------------------------------ MODULE IntTerm -------------------------------
(***************************************************************************)
(* Integers as terms (src/src/cnif.c): what enif_make_int64 and            *)
(* enif_make_uint64 build, what the get functions answer, and the          *)
(* difference enif_compare takes.  A long is as wide as an int64, so that  *)
(* make and get of long are those of int64.                                *)
(*                                                                         *)
(* Numbers wrap around the number of values their place has: Base is 2^64  *)
(* for a word (WORDSIZE 64), CellBase 2^60 for the cell of a small, which  *)
(* is a word without the tag, and IntBase 2^32 for a C int.  A bignum has  *)
(* a sign and one digit; those of more digits are in module BigArith.      *)
(*                                                                         *)
(* Operators above the one they vary, such as GetInt64Symmetric, are       *)
(* slips the properties would catch; the specification does not use them.  *)
(***************************************************************************)
EXTENDS Integers

CONSTANTS Base, CellBase, IntBase

ASSUME IntTermAssumption ==
    /\ {Base, CellBase, IntBase} \subseteq Nat \ {0}
    /\ Base % 2 = 0 /\ CellBase % 2 = 0 /\ IntBase % 2 = 0
    /\ CellBase < Base /\ IntBase <= Base

\* Half of the values are negative, or have the top bit
Half(base) == base \div 2

UnsignedOf(base) == 0 .. base - 1
SignedOf(base) == -Half(base) .. Half(base) - 1

Uint64 == UnsignedOf(Base)
Int64 == SignedOf(Base)
CInt == SignedOf(IntBase)
CUint == UnsignedOf(IntBase)

\* The signed number that is x, but for multiples of the base
Wrap(x, base) ==
    LET u == x % base
    IN IF u >= Half(base) THEN u - base ELSE u

Small(cell) == [tag |-> "small", cell |-> cell]
Pos(digit) == [tag |-> "pos", digit |-> digit]
Neg(digit) == [tag |-> "neg", digit |-> digit]

IsInteger(t) == t.tag \in {"small", "pos", "neg"}

\* enif_make_uint64
MakeUint64(u) == IF u < Half(CellBase) THEN Small(u) ELSE Pos(u)

\* enif_make_int64.  Both bounds of the test are unsigned, so that i is compared
\* as an unsigned number, and none is as great as the one and below the other.
\* The digit is the absolute value; that of the least integer wraps to itself.
MakeInt64(i) ==
    LET u == i % Base
    IN IF u >= Base - Half(CellBase) /\ u < Half(CellBase)
       THEN Small(u % CellBase)
       ELSE IF i < 0 THEN Neg((-i) % Base) ELSE Pos(i)

Answer(v) == [ok |-> TRUE, val |-> v]
Refusal == [ok |-> FALSE, val |-> 0]

\* enif_get_uint64; the top bit of a small term is the top bit of its cell
GetUint64(t) ==
    CASE t.tag = "small" -> IF t.cell >= Half(CellBase) THEN Refusal ELSE Answer(t.cell)
      [] t.tag = "pos" -> Answer(t.digit)
      [] t.tag = "neg" -> Refusal

GetInt64Symmetric(t) ==
    CASE t.tag = "small" -> Answer(Wrap(t.cell, CellBase))
      [] t.tag = "pos" -> IF t.digit >= Half(Base) THEN Refusal ELSE Answer(t.digit)
      [] t.tag = "neg" -> IF t.digit >= Half(Base) THEN Refusal ELSE Answer(-t.digit)

\* get_int64: the shift of a small extends the sign, and -2^63 is still an int64
GetInt64(t) ==
    CASE t.tag = "small" -> Answer(Wrap(t.cell, CellBase))
      [] t.tag = "pos" -> IF t.digit >= Half(Base) THEN Refusal ELSE Answer(t.digit)
      [] t.tag = "neg" -> IF t.digit >= Half(Base) /\ (2 * t.digit) % Base # 0
                          THEN Refusal ELSE Answer(Wrap(-t.digit, Base))

Within(answer, range) == IF answer.ok /\ answer.val \in range THEN answer ELSE Refusal

GetInt(t) == Within(GetInt64(t), CInt)
GetUint(t) == Within(GetUint64(t), CUint)

\* What get_int64 leaves in the variable it was given: nothing, if it refuses
Read(t, before) == IF GetInt64(t).ok THEN GetInt64(t).val ELSE before

\* compare_integer: a difference of int64, returned as an int
CompareInteger(l, r, junk) == Wrap(Read(l, junk[1]) - Read(r, junk[2]), IntBase)

\* The number a term is
Number(t) ==
    CASE t.tag = "small" -> Wrap(t.cell, CellBase)
      [] t.tag = "pos" -> t.digit
      [] t.tag = "neg" -> -t.digit
=============================================================================
