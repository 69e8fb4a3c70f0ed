------------------------------ MODULE MCValues ------------------------------
(***************************************************************************)
(* The values a program handles without the structure of the environment:  *)
(* terms it compares, integers it makes and gets, bignums and binaries.    *)
(* The four share nothing, and a behaviour is about one of them: part.     *)
(*                                                                         *)
(* A word has three bits, a cell and an int two: every integer is made,    *)
(* and every carry and borrow over three digits is among the numbers of    *)
(* bignums.  For comparison a word has six bits and an int four (module    *)
(* CompareSamples), so that some integers are not too far apart.  The      *)
(* iolists have lists in them at either end and between, binaries as       *)
(* tails, and elements that are refused.                                   *)
(***************************************************************************)
EXTENDS BigBits, MadeTerms, Iolists, CompareSamples

VARIABLES part, terms, from, junk

comparisonVars == <<terms, from, junk>>

MCGiven == {-449, -64, -8, -1, 1, 63, 448}

Comparison == INSTANCE Compare WITH
    Base <- 64, IntBase <- 16, CellBase <- 4,
    Ints <- MCInts, Uints <- MCUints, Terms <- MCTerms, Junk <- MCJunk,
    made <- terms, given <- from

MCOther == {Nil}

AndDigits(x, y) == x & y
OrDigits(x, y) == x | y
XorDigits(x, y) == x ^^ y

B(n) == Small(n)
L(elements) == List(elements, Nil)
Bytes == Binary(<<2, 3>>)

MCIolists == {
    Nil, L(<<B(1)>>), L(<<L(<<B(1), B(2)>>), B(3)>>), L(<<B(1), L(<<B(2)>>)>>),
    L(<<Bytes, L(<<B(3), B(1)>>)>>), L(<<L(<<L(<<B(1)>>), Bytes>>), Binary(<<>>), L(<<B(4), Bytes>>)>>),
    L(<<B(1), L(<<B(2)>>), B(3)>>), L(<<B(1), L(<<B(2)>>), Bytes>>), L(<<L(<<B(1), L(<<B(2)>>)>>), B(3)>>),
    Bytes, List(<<B(1)>>, Binary(<<2>>)), L(<<List(<<B(1)>>, Bytes), B(1)>>),
    L(<<B(256)>>), List(<<B(1)>>, Atom(<<>>)), L(<<L(<<Atom(<<>>)>>)>>), L(<<B(1), Nil>>) }

ASSUME BigArithConstants /\ Comparison!CompareConstants

MCInit ==
    /\ part \in {"terms", "integers", "bignum", "binaries"}
    /\ Comparison!Init /\ MadeInit /\ Init /\ BinariesInit

MCNext ==
    \/ /\ part = "terms" /\ Comparison!Next
       /\ UNCHANGED <<part, madeVars, vars, binaryVars>>
    \/ /\ part = "integers" /\ Len(made) < 2 /\ MadeNext
       /\ UNCHANGED <<part, comparisonVars, vars, binaryVars>>
    \/ /\ part = "bignum" /\ Next
       /\ UNCHANGED <<part, comparisonVars, madeVars, binaryVars>>
    \/ /\ part = "binaries" /\ BinariesNext
       /\ UNCHANGED <<part, comparisonVars, madeVars, vars>>

MCSpec == MCInit /\ [][MCNext]_<<part, comparisonVars, madeVars, vars, binaryVars>>

\* The comparison is an order, where no difference overflows: see Compare
OrdersTame == Comparison!OrdersTame

\* Identical terms are the same, where no difference overflows: see Compare
IdentifiesTame == Comparison!IdentifiesTame
=============================================================================
