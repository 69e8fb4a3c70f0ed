------------------------------ MODULE CopySort ------------------------------
(***************************************************************************)
(* The first partition of cnif_quick_sort_aux (src/src/cnif_sort.c) when   *)
(* it sorts into other arrays: it reads src and writes dst, and leaves the *)
(* two parts of dst to cnif_inline_quick_sort_aux (module QuickSort).  The *)
(* whole array is sorted; src2 and dst2 move with src1 and dst1 and are    *)
(* left out.  Terms are numbers in the order of enif_compare.              *)
(*                                                                         *)
(* One step is one turn of a loop.  A loop that reads a term outside the   *)
(* array does anything: pc is then "outside" and nothing is said of it.    *)
(***************************************************************************)
EXTENDS Integers

CONSTANTS Term, MaxLen

VARIABLES n, src, dst, pivot, i, j, pc

vars == <<n, src, dst, pivot, i, j, pc>>

Unset == "unset"

Init ==
    /\ n \in 1 .. MaxLen
    /\ src \in [0 .. n - 1 -> Term]
    /\ dst = [x \in 0 .. n - 1 |-> Unset]
    /\ pivot = src[(n - 1) \div 2]
    /\ i = 0 /\ j = n - 1
    /\ pc = "up"

Inside(x) == x \in 0 .. n - 1

Up ==
    /\ pc = "up" /\ Inside(i)
    /\ IF src[i] < pivot
       THEN dst' = [dst EXCEPT ![i] = src[i]] /\ i' = i + 1 /\ UNCHANGED pc
       ELSE pc' = "down" /\ UNCHANGED <<dst, i>>
    /\ UNCHANGED <<n, src, pivot, j>>

Down ==
    /\ pc = "down" /\ Inside(j)
    /\ IF src[j] > pivot
       THEN dst' = [dst EXCEPT ![j] = src[j]] /\ j' = j - 1 /\ UNCHANGED pc
       ELSE pc' = "meet" /\ UNCHANGED <<dst, j>>
    /\ UNCHANGED <<n, src, pivot, i>>

Meet ==
    /\ pc = "meet"
    /\ IF i <= j
       THEN /\ dst' = [[dst EXCEPT ![i] = src[j]] EXCEPT ![j] = src[i]]
            /\ i' = i + 1 /\ j' = j - 1
       ELSE UNCHANGED <<dst, i, j>>
    /\ pc' = IF i' <= j' THEN "up" ELSE "parted"
    /\ UNCHANGED <<n, src, pivot>>

Outside ==
    /\ \/ pc = "up" /\ ~Inside(i)
       \/ pc = "down" /\ ~Inside(j)
    /\ pc' = "outside"
    /\ UNCHANGED <<n, src, dst, pivot, i, j>>

Next == Up \/ Down \/ Meet \/ Outside

Spec == Init /\ [][Next]_vars

\* cnif_sort.c:87 says "first partition quick sort and move to destination": when
\* the partition has ended, every term of src is in dst.
MovesAll == pc = "parted" => \A x \in 0 .. n - 1 : \E y \in 0 .. n - 1 : dst[y] = src[x]
=============================================================================
