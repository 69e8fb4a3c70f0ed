------------------------------ MODULE BigBits -------------------------------
(***************************************************************************)
(* What band, bor and bxor of src/src/cnif_arith.c should be: the bits of  *)
(* integers in two's complement (see BigArith).                            *)
(***************************************************************************)
EXTENDS BigArith, Bitwise

\* The bits of an integer in two's complement, as many as any result has
Span == Base ^ (MaxDigits + 1)
Twos(op, m, n) ==
    LET p == m % Span
        q == n % Span
        r == CASE op = "band" -> p & q [] op = "bor" -> p | q [] op = "bxor" -> p ^^ q
    IN IF r >= Span \div 2 THEN r - Span ELSE r

\* The borrow of the complement of x reaches digits above the n lowest
BorrowsPast(x, n) == n < Len(x.digits) /\ \A i \in 1 .. n : x.digits[i] = 0

\* Where band, bor and bxor are known to be wrong: a negative result that is -Base^k
\* or has one digit (btrail), and operands whose high digits are taken as if the
\* borrow had ended, or without their complement
Outside(op, x, y) ==
    LET exact == Twos(op, Value(x), Value(y))
    IN \/ exact < 0 /\ (-exact < Base \/ \E k \in 1 .. MaxDigits : -exact = Base ^ k)
       \/ x.sign # 0 /\ BorrowsPast(x, Len(y.digits)) /\ (op = "bxor" \/ y.sign # 0)
       \/ op = "bxor" /\ x.sign # 0 /\ y.sign # 0 /\ (x.sign # y.sign \/ Len(x.digits) > Len(y.digits))

\* Without leading zeros, and not the minus zero that cnif_big_neg and cnif_big_bnot
\* make of 0
Proper(x) == Trimmed(x) /\ ~(x.sign # 0 /\ x.digits = <<0>>)

\* Everywhere else the result is that of the integers in two's complement, whatever
\* the lengths and signs of the two, if the digits have been written where there is
\* memory.
BitsExact ==
    last[1] \in {"band", "bor", "bxor"} /\ ret # Undefined =>
        LET x == last[2]
            y == last[3]
        IN Proper(x) /\ Proper(y) /\ ~Outside(last[1], x, y)
             => Value(a) = Twos(last[1], Value(x), Value(y)) /\ Trimmed(a)
=============================================================================
