------------------------------ MODULE Compare -------------------------------
(***************************************************************************)
(* enif_compare and enif_is_identical (src/src/cnif.c), on three terms a   *)
(* program makes one after the other (module MadeTerms).                   *)
(*                                                                         *)
(* A term is its tree (module TermOrder).  junk is what the uninitialised  *)
(* int64 variables hold that compare_integer lets get_int64 fill in.       *)
(***************************************************************************)
EXTENDS TermOrder, MadeTerms

CONSTANTS Junk

CompareConstants == Junk \subseteq SignedOf(Base) \X SignedOf(Base)

VARIABLES junk

vars == <<madeVars, junk>>

enif_compare(l, r) == CompareTerms(l, r, FALSE, junk)
enif_is_identical(l, r) == CompareTerms(l, r, TRUE, junk) = 0

-----------------------------------------------------------------------------
Init == MadeInit /\ junk \in Junk

\* Three terms show whether a comparison is transitive
Next == Len(made) < 3 /\ MadeNext /\ UNCHANGED junk

Spec == Init /\ [][Next]_vars

-----------------------------------------------------------------------------
\* Terms in which the difference of two integers is an int, and no maps
RECURSIVE Tame(_)
Tame(t) ==
    CASE IsInteger(t) -> Number(t) \in -(IntBase \div 4) .. IntBase \div 4 - 1
      [] t.tag = "tuple" -> \A i \in 1 .. Len(t.elem) : Tame(t.elem[i])
      [] t.tag = "list" -> Tame(t.head) /\ Tame(t.tail)
      [] OTHER -> t.tag # "map"

\* On such terms enif_compare is the order that the sort, the maps and their search
\* take it for: it answers the same both ways round, and is transitive across
\* integers and floats, tails that are not lists, and terms of different types.
OrdersTame ==
    Len(made) = 3 /\ (\A n \in 1 .. 3 : Tame(made[n])) =>
        LET xy == enif_compare(made[1], made[2])
            yz == enif_compare(made[2], made[3])
            xz == enif_compare(made[1], made[3])
        IN /\ Sign(xy) = -Sign(enif_compare(made[2], made[1]))
           /\ xy <= 0 /\ yz <= 0 => xz <= 0
           /\ xy <= 0 /\ yz < 0 => xz < 0

\* On such terms enif_is_identical tells exactly the same terms: an integer from
\* the float it equals at any depth, and a small from no bignum of its value.
IdentifiesTame ==
    Len(made) = 2 /\ Tame(made[1]) /\ Tame(made[2]) =>
        (enif_is_identical(made[1], made[2]) <=> Same(made[1], made[2]))

\* cnif.c:1452 says of what enif_is_identical calls "compare =:=": terms that are
\* not the same are not identical.
IdenticalIsSame ==
    Len(made) = 2 => (enif_is_identical(made[1], made[2]) => Same(made[1], made[2]))
=============================================================================
