------------------------------ MODULE BigArith ------------------------------
(***************************************************************************)
(* Arithmetic on bignums (src/src/cnif_arith.c) and the way of a number    *)
(* between a term and an ErlNifBignum (src/src/cnif_big.c).                *)
(*                                                                         *)
(* A digit is a word.  A number is its sign and digits, the least          *)
(* significant first; the sign is 1 or BIG_SIGN_BIT when it is negative,   *)
(* as it was computed or found in a header.  Results go to the number a,   *)
(* which may also be an operand: no loop reads a digit again that it has   *)
(* written.  Its buffer has asize digits, as many as were asked for, or    *)
(* more when it is copied to.  The number b is only read.                  *)
(*                                                                         *)
(* History variable: last, the last call and its operands.                 *)
(*                                                                         *)
(* Operators above the one they vary, such as BorrowOnce, are slips the    *)
(* properties would catch; the specification does not use them.            *)
(***************************************************************************)
EXTENDS IntTerm, Sequences, FiniteSetsExt

CONSTANTS MaxDigits,    \* digits of a term, and of a buffer asked for
          NUM_TMP_DIGITS,       \* digits in the struct, for which no block is allocated
          Given,        \* the integers terms are made of
          Unset,        \* what a digit that was never written may hold
          DigitAnd(_, _), DigitOr(_, _), DigitXor(_, _)     \* &, | and ^ of two digits

Digit == 0 .. Base - 1

BigArithConstants ==
    /\ {MaxDigits, NUM_TMP_DIGITS} \subseteq Nat \ {0}
    /\ Given \subseteq Int /\ Unset \subseteq Digit
    /\ \A x, y \in Digit :
         DigitAnd(x, y) \in Digit /\ DigitOr(x, y) \in Digit /\ DigitXor(x, y) \in Digit

VARIABLES a, b,    \* numbers, or Empty
          asize,   \* the allocated size of a
          ret,     \* what the last call returned, or Undefined
          last

vars == <<a, b, asize, ret, last>>

BIG_SIGN_BIT == 4

Num(sign, digits) == [sign |-> sign, digits |-> digits]
Empty == Num(0, <<>>)
Undefined == -1

\* The digits there is memory for in a buffer of n
Places(n) == Max({n, NUM_TMP_DIGITS})

Bit(p) == IF p THEN 1 ELSE 0
NotDigit(d) == Base - 1 - d

\* The number that the digits of u are from the one at i on
From(u) ==
    LET from[i \in 1 .. Len(u) + 1] == IF i > Len(u) THEN 0 ELSE u[i] + Base * from[i + 1]
    IN from

Magnitude(u) == From(u)[1]
Value(x) == IF x.sign = 0 THEN Magnitude(x.digits) ELSE -Magnitude(x.digits)

-----------------------------------------------------------------------------
\* One turn of add3 and add2: x + y + c.  A carry shows as a sum below an operand.
Carry(x, y, c) ==
    LET s == (y + c) % Base
        t == (x + s) % Base
    IN [digit |-> t, carry |-> Bit(s < c) + Bit(t < x)]

BorrowOnce(x, y, c) ==
    LET s == (y + c) % Base
        t == (x - s) % Base
    IN [digit |-> t, carry |-> Bit(t > x)]

\* One turn of sub3 and sub2, and DSUBb: x - y - c
Borrow(x, y, c) ==
    LET s == (y + c) % Base
        t == (x - s) % Base
    IN [digit |-> t, carry |-> Bit(s < c) + Bit(t > x)]

\* The digits of v, and 0 where it has none
DigitOf(v, i) == IF i <= Len(v) THEN v[i] ELSE 0

\* The turns of the loop over the digits of u, with those of v as long as there are any
Turns(Step(_, _, _), u, v) ==
    LET turn[i \in 0 .. Len(u)] ==
          IF i = 0 THEN [digit |-> 0, carry |-> 0]
          ELSE Step(u[i], DigitOf(v, i), turn[i - 1].carry)
    IN turn

Chain(Step(_, _, _), u, v) ==
    LET turn == Turns(Step, u, v)
    IN [digits |-> [i \in 1 .. Len(u) |-> turn[i].digit], carry |-> turn[Len(u)].carry]

\* cnif_big_trail: at least one digit stays
Trail(u) == SubSeq(u, 1, Max({1} \cup {i \in DOMAIN u : u[i] # 0}))

\* comp: the longer is the greater, then the highest digit that differs
Comp(u, v) ==
    IF Len(u) # Len(v) THEN Len(u) - Len(v)
    ELSE LET differ == {i \in DOMAIN u : u[i] # v[i]}
         IN IF differ = {} THEN 0 ELSE u[Max(differ)] - v[Max(differ)]

Done(x) == [ok |-> TRUE, num |-> x]
NoPlace(x) == [ok |-> FALSE, num |-> x]

\* Equal signs, and n digits for the sum.  A carry that has no place is found when
\* the sum is already written over the digits of dst.
AddDigits(u, v, sign, dst, n) ==
    LET sum == Chain(Carry, u, v)
    IN IF sum.carry = 0 THEN Done(Num(sign, sum.digits))
       ELSE IF Len(u) < n THEN Done(Num(sign, Append(sum.digits, sum.carry)))
       ELSE NoPlace([dst EXCEPT !.digits =
                       [i \in DOMAIN @ |-> IF i <= Len(u) THEN sum.digits[i] ELSE @[i]]])

\* Different signs, u the greater
SubDigits(u, v, sign) ==
    LET r == Trail(Chain(Borrow, u, v).digits)
    IN Done(Num(IF r = <<0>> THEN 0 ELSE sign, r))

\* addsub, with dst->asize = n: an operand that is longer is refused, whatever the
\* result would be
AddSub(u, sign1, v, sign2, dst, n) ==
    IF Len(u) > n \/ Len(v) > n THEN NoPlace(dst)
    ELSE IF sign1 = sign2
    THEN IF Len(u) < Len(v) THEN AddDigits(v, u, sign1, dst, n)
         ELSE AddDigits(u, v, sign1, dst, n)
    ELSE IF Comp(u, v) = 0 THEN Done(Num(0, <<0>>))
    ELSE IF Comp(u, v) > 0 THEN SubDigits(u, v, sign1)
    ELSE SubDigits(v, u, sign2)

\* !x->sign
Negated(sign) == Bit(sign = 0)

-----------------------------------------------------------------------------
\* The digits of u as the bitwise functions take them: those of a negative number
\* are the complement of u - 1
TwosDigits(u, sign) ==
    IF sign = 0 THEN u
    ELSE LET c == Chain(Borrow, u, <<1>>).digits IN [i \in DOMAIN u |-> NotDigit(c[i])]

\* btrail.  With one digit to begin with, d is read without a value (junk); and when
\* all digits but the lowest are masks, d is still the last of those.
Btrail(r, sign, junk) ==
    IF sign = 0 THEN Trail(r)
    ELSE LET n == Max({1} \cup {i \in 2 .. Len(r) : r[i] # Base - 1})
             d == IF n > 1 THEN r[n] ELSE IF Len(r) = 1 THEN junk ELSE Base - 1
             ones == [i \in 1 .. n |-> NotDigit(IF i = n THEN d ELSE r[i])]
         IN Chain(Carry, ones, <<1>>).digits

\* The digits both numbers have, by Op, and then those only u has, if they are used
Merge(Op(_, _), p, q, high) ==
    [i \in 1 .. Len(q) |-> Op(p[i], q[i])] \o SubSeq(high, Len(q) + 1, Len(high))

Complements(u) == [i \in DOMAIN u |-> NotDigit(u[i])]

BandKeepingHigh(u, sign1, v, sign2) ==
    LET sign == Bit(sign1 # 0 /\ sign2 # 0)
        high == IF sign = 1 THEN Complements(u) ELSE u
    IN Num(sign, Merge(DigitAnd, TwosDigits(u, sign1), TwosDigits(v, sign2), high))

\* The digits band writes, u not shorter than v
Band(u, sign1, v, sign2) ==
    LET sign == Bit(sign1 # 0 /\ sign2 # 0)
        high == IF sign = 1 THEN Complements(u) ELSE IF sign2 # 0 THEN u ELSE <<>>
    IN Num(sign, Merge(DigitAnd, TwosDigits(u, sign1), TwosDigits(v, sign2), high))

\* bor
Bor(u, sign1, v, sign2) ==
    LET sign == Bit(sign1 # 0 \/ sign2 # 0)
        high == IF sign2 # 0 THEN <<>> ELSE TwosDigits(u, sign1)
    IN Num(sign, Merge(DigitOr, TwosDigits(u, sign1), TwosDigits(v, sign2), high))

\* bxor, but for a negative v and an u that is not: there a loop counts down a
\* length that has passed 0
Bxor(u, sign1, v, sign2) ==
    LET sign == Bit(sign1 # sign2)
        high == IF sign1 # 0 /\ sign2 = 0 THEN Complements(u) ELSE u
    IN Num(sign, Merge(DigitXor, TwosDigits(u, sign1), TwosDigits(v, sign2), high))

RunsAway(op, x, y) == op = "bxor" /\ x.sign = 0 /\ y.sign # 0

\* bnot.  1 and 0, or 1 and 1, are given as the sign and the length of "one", and
\* what addsub returns is not looked at
Bnot(x, dst, n) ==
    LET r == AddSub(x.digits, x.sign, IF x.sign = 0 THEN <<>> ELSE <<1>>, 1, dst, n)
    IN Num(Negated(x.sign), r.num.digits)

-----------------------------------------------------------------------------
BigTerm(sign, digits) == [tag |-> "big", sign |-> sign, digits |-> digits]

MakeNumberAnyDigit(x) ==
    LET u == Trail(x.digits)
    IN IF Len(u) = 1 /\ x.sign = 0 THEN MakeUint64(u[1])
       ELSE IF Len(u) = 1 THEN MakeInt64(-Wrap(u[1], Base))
       ELSE BigTerm(IF x.sign = 0 THEN 0 ELSE BIG_SIGN_BIT, u)

\* enif_make_number: what fits is made by enif_make_uint64 or enif_make_int64
MakeNumber(x) ==
    LET u == Trail(x.digits)
    IN IF Len(u) = 1 /\ x.sign = 0 THEN MakeUint64(u[1])
       ELSE IF Len(u) = 1 /\ u[1] < Half(Base) THEN MakeInt64(-u[1])
       ELSE BigTerm(IF x.sign = 0 THEN 0 ELSE BIG_SIGN_BIT, u)

\* enif_get_number: the sign of a bignum is masked from its header
GetNumber(t) ==
    CASE t.tag = "big" -> Num(t.sign, t.digits)
      [] t.tag = "pos" -> Num(0, <<t.digit>>)
      [] t.tag = "neg" -> Num(BIG_SIGN_BIT, <<t.digit>>)
      [] t.tag = "small" -> IF Number(t) < 0 THEN Num(1, <<-Number(t)>>) ELSE Num(0, <<Number(t)>>)

\* What is left of m when its lowest i digits are off
Shifted(m) ==
    LET rest[i \in 0 .. MaxDigits] == IF i = 0 THEN m ELSE rest[i - 1] \div Base
    IN rest

Digits(n) ==
    LET m == IF n < 0 THEN -n ELSE n
    IN Trail([i \in 1 .. MaxDigits |-> Shifted(m)[i - 1] % Base])

\* The terms of the integer n: enif_make_number of its digits, and a small
TermsOf(n) ==
    {MakeNumber(Num(Bit(n < 0), Digits(n)))}
    \cup (IF n \in -Half(CellBase) .. -1 THEN {Small(n % CellBase)} ELSE {})

Init == a = Empty /\ b = Empty /\ asize = 0 /\ ret = 1 /\ last = <<"none">>

\* enif_get_copy_number for at least min digits, and enif_get_number
Load ==
    \E n \in Given : \E t \in TermsOf(n) : LET x == GetNumber(t) IN
        /\ \/ /\ a = Empty /\ a' = x /\ UNCHANGED b
              /\ \E min \in 0 .. MaxDigits : asize' = Places(Max({min, Len(x.digits)}))
           \/ a # Empty /\ b = Empty /\ b' = x /\ UNCHANGED <<a, asize>>
        /\ ret' = 1 /\ last' = <<"load">>

\* enif_alloc_number: n digits, all zero, also where the struct has more
Alloc ==
    /\ b = Empty
    /\ \E n \in 1 .. MaxDigits : a' = Num(0, [i \in 1 .. n |-> 0]) /\ asize' = n
    /\ ret' = 1 /\ last' = <<"alloc">> /\ UNCHANGED b

Operands == {<<a, b>>, <<b, a>>, <<a, a>>}

\* The result is in a, and b may be used again
Returns(op, operands, r) ==
    /\ a' = r.num /\ b' = Empty /\ UNCHANGED asize
    /\ ret' = Bit(r.ok) /\ last' = <<op, operands[1], operands[2]>>

\* cnif_big_add and cnif_big_sub
AddOrSub ==
    /\ a # Empty /\ b # Empty
    /\ \E o \in Operands : \E call \in {<<"add", o[2].sign>>, <<"sub", Negated(o[2].sign)>>} :
         Returns(call[1], o, AddSub(o[1].digits, o[1].sign, o[2].digits, call[2], a, asize))

Bitwise3(op, x, y) ==
    CASE op = "band" -> Band(x.digits, x.sign, y.digits, y.sign)
      [] op = "bor" -> Bor(x.digits, x.sign, y.digits, y.sign)
      [] op = "bxor" -> Bxor(x.digits, x.sign, y.digits, y.sign)

\* cnif_big_band, cnif_big_bor and cnif_big_bxor: the longer operand first.  None
\* looks at asize: digits are written where there is no memory, too.
BitOp ==
    /\ a # Empty /\ b # Empty
    /\ \E op \in {"band", "bor", "bxor"}, o \in Operands, junk \in Unset :
         LET x == IF Len(o[1].digits) >= Len(o[2].digits) THEN o[1] ELSE o[2]
             y == IF Len(o[1].digits) >= Len(o[2].digits) THEN o[2] ELSE o[1]
             written == Bitwise3(op, x, y)
         IN IF RunsAway(op, x, y) \/ Len(written.digits) > Places(asize)
            THEN /\ ret' = Undefined /\ last' = <<op, x, y>>
                 /\ a' = Empty /\ b' = Empty /\ asize' = 0
            ELSE Returns(op, <<x, y>>,
                         Done(Num(written.sign, Btrail(written.digits, written.sign, junk))))

\* The digits of x under the other sign
NegatedNum(x) == Num(Negated(x.sign), x.digits)

\* cnif_big_neg, of b also within b, and cnif_big_bnot
Unary ==
    /\ a # Empty /\ UNCHANGED asize
    /\ \/ a' = NegatedNum(a) /\ b' = Empty /\ ret' = 1 /\ last' = <<"neg", a>>
       \/ /\ b # Empty /\ b' = Empty /\ last' = <<"neg", b>>
          /\ \/ Len(b.digits) > asize /\ ret' = 0 /\ UNCHANGED a
             \/ Len(b.digits) <= asize /\ ret' = 1 /\ a' = NegatedNum(b)
       \/ b # Empty /\ b' = NegatedNum(b) /\ ret' = 1 /\ last' = <<"neg", b>> /\ UNCHANGED a
       \/ \E x \in {a, b} \ {Empty} :
            a' = Bnot(x, a, asize) /\ b' = Empty /\ ret' = 1 /\ last' = <<"bnot", x>>

Next == Load \/ Alloc \/ AddOrSub \/ BitOp \/ Unary

Spec == Init /\ [][Next]_vars

-----------------------------------------------------------------------------
Trimmed(x) == x.digits = Trail(x.digits)

\* The sign an operand takes part with
Sign2 == IF last[1] = "sub" THEN Negated(last[3].sign) ELSE last[3].sign

\* The least number that needs more than n digits
OutOfPlace(n) == Magnitude([i \in 1 .. n + 1 |-> IF i = n + 1 THEN 1 ELSE 0])

\* The buffer holds the exact sum or difference, within the digits it was allocated:
\* carries and borrows run over any number of digits, also when the result is written
\* over an operand.  What is refused has no place there, or an operand that is longer
\* than the buffer, be it that the sum is not.  Not so when one operand is negative
\* with sign 1 and the other with the sign bit of a header (addsub compares the two
\* for equality), or has leading zeros (comp).
AddSubExact ==
    last[1] \in {"add", "sub"} =>
        LET exact == IF last[1] = "add" THEN Value(last[2]) + Value(last[3])
                     ELSE Value(last[2]) - Value(last[3])
        IN {last[2].sign, Sign2} # {1, BIG_SIGN_BIT} /\ Trimmed(last[2]) /\ Trimmed(last[3])
             => IF ret = 1
                THEN Value(a) = exact /\ Trimmed(a) /\ Len(a.digits) <= asize
                ELSE \/ Len(last[2].digits) > asize \/ Len(last[3].digits) > asize
                     \/ exact \notin -OutOfPlace(asize) + 1 .. OutOfPlace(asize) - 1

\* A number made into a term and read back has the value it had, whether the term is
\* a small, a bignum of one digit or of more, down to the least int64.
NumberRoundTrip ==
    a # Empty => LET x == GetNumber(MakeNumber(a)) IN Value(x) = Value(a) /\ Trimmed(x)
=============================================================================
