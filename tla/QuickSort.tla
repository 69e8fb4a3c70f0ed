----------------------------- MODULE QuickSort ------------------------------
(***************************************************************************)
(* cnif_quick_usort_aux on one pair of arrays, as enif_make_map_from_arrays *)
(* calls it: the keys are sorted in place with cnif_inline_quick_sort_aux, *)
(* the values follow them, and uremove_aux drops keys that occur twice.    *)
(*                                                                         *)
(* One step is one turn of a loop.  The recursion is a stack of the ranges *)
(* still to be sorted.  cmp is enif_compare: all that is assumed of it is  *)
(* that a term equals itself (its first test compares the two words), since *)
(* it is not an order on every pair of terms.                              *)
(*                                                                         *)
(* Operators above the one they vary, such as UpPastEqual, are             *)
(* slips the properties would catch; the specification does not use them.  *)
(***************************************************************************)
EXTENDS Integers, Sequences

CONSTANTS Term, Value,
          Arrays,     \* the arrays to sort: records of n, keys and values
          Compares    \* the comparisons: c[x][y] is -1, 0 or 1

ASSUME QuickSortAssumption ==
    /\ Term # {}
    /\ \A c \in Compares : /\ c \in [Term -> [Term -> {-1, 0, 1}]]
                           /\ \A x \in Term : c[x][x] = 0
    /\ \A s \in Arrays : /\ s.n \in Nat
                         /\ s.keys \in [0 .. s.n - 1 -> Term]
                         /\ s.values \in [0 .. s.n - 1 -> Value]

VARIABLES
    given, cmp,           \* the arrays and the comparison of this call
    pc,
    src1, src2,
    calls,                \* ranges to be sorted, the next one first
    left, right, i, j, pivot,
    cnt                   \* what is returned: the number of keys kept

vars == <<given, cmp, pc, src1, src2, calls, left, right, i, j, pivot, cnt>>

NoPivot == CHOOSE x \in Term : TRUE

\* A call on the arrays given
Called ==
    /\ src1 = given.keys /\ src2 = given.values
    /\ pc = "start"
    /\ calls = <<>> /\ left = 0 /\ right = 0 /\ i = 0 /\ j = 0
    /\ pivot = NoPivot
    /\ cnt = given.n

Init ==
    /\ given \in Arrays /\ cmp \in Compares
    /\ Called

IsSorted(arr) == \A k \in 0 .. given.n - 2 : cmp[arr[k]][arr[k + 1]] <= 0

\* cnif_is_usorted
IsUSorted(arr) == \A k \in 0 .. given.n - 2 : cmp[arr[k]][arr[k + 1]] < 0

-----------------------------------------------------------------------------
Sorted ==
    /\ pc = "start" /\ IsUSorted(src1)
    /\ pc' = "done"
    /\ UNCHANGED <<given, cmp, src1, src2, calls, left, right, i, j, pivot, cnt>>

Unsorted ==
    /\ pc = "start" /\ ~IsUSorted(src1)
    /\ calls' = <<[left |-> 0, right |-> given.n - 1]>>
    /\ pc' = "call"
    /\ UNCHANGED <<given, cmp, src1, src2, left, right, i, j, pivot, cnt>>

Enter ==
    /\ pc = "call" /\ calls # <<>>
    /\ LET c == Head(calls)
       IN /\ left' = c.left /\ right' = c.right
          /\ i' = c.left /\ j' = c.right
          /\ pivot' = src1[(c.left + c.right) \div 2]
    /\ calls' = Tail(calls)
    /\ pc' = "up"
    /\ UNCHANGED <<given, cmp, src1, src2, cnt>>

UpPastEqual ==
    /\ pc = "up"
    /\ IF cmp[src1[i]][pivot] <= 0
       THEN i' = i + 1 /\ pc' = "up"
       ELSE pc' = "down" /\ UNCHANGED i
    /\ UNCHANGED <<given, cmp, src1, src2, calls, left, right, j, pivot, cnt>>

Up ==
    /\ pc = "up"
    /\ IF cmp[src1[i]][pivot] < 0
       THEN i' = i + 1 /\ pc' = "up"
       ELSE pc' = "down" /\ UNCHANGED i
    /\ UNCHANGED <<given, cmp, src1, src2, calls, left, right, j, pivot, cnt>>

Down ==
    /\ pc = "down"
    /\ IF cmp[src1[j]][pivot] > 0
       THEN j' = j - 1 /\ pc' = "down"
       ELSE pc' = "meet" /\ UNCHANGED j
    /\ UNCHANGED <<given, cmp, src1, src2, calls, left, right, i, pivot, cnt>>

Swap(arr) == [arr EXCEPT ![i] = arr[j], ![j] = arr[i]]

MeetKeysOnly ==
    /\ pc = "meet"
    /\ IF i <= j
       THEN src1' = Swap(src1) /\ i' = i + 1 /\ j' = j - 1
       ELSE UNCHANGED <<src1, i, j>>
    /\ pc' = IF i' <= j' THEN "up" ELSE "parted"
    /\ UNCHANGED <<given, cmp, src2, calls, left, right, pivot, cnt>>

MeetStays ==
    /\ pc = "meet"
    /\ IF i <= j
       THEN src1' = Swap(src1) /\ src2' = Swap(src2)
       ELSE UNCHANGED <<src1, src2>>
    /\ pc' = IF i <= j THEN "up" ELSE "parted"
    /\ UNCHANGED <<given, cmp, calls, left, right, i, j, pivot, cnt>>

Meet ==
    /\ pc = "meet"
    /\ IF i <= j
       THEN /\ src1' = Swap(src1) /\ src2' = Swap(src2)
            /\ i' = i + 1 /\ j' = j - 1
       ELSE UNCHANGED <<src1, src2, i, j>>
    /\ pc' = IF i' <= j' THEN "up" ELSE "parted"
    /\ UNCHANGED <<given, cmp, calls, left, right, pivot, cnt>>

\* The two recursive calls, each only on a range of two or more
Recurse ==
    /\ pc = "parted"
    /\ calls' = (IF left < j THEN <<[left |-> left, right |-> j]>> ELSE <<>>)
                \o (IF i < right THEN <<[left |-> i, right |-> right]>> ELSE <<>>)
                \o calls
    /\ pc' = "call"
    /\ UNCHANGED <<given, cmp, src1, src2, left, right, i, j, pivot, cnt>>

StartUremove ==
    /\ pc = "call" /\ calls = <<>>
    /\ pc' = "uremove"
    /\ i' = 0 /\ j' = 1
    /\ UNCHANGED <<given, cmp, src1, src2, calls, left, right, pivot, cnt>>

\* The test i < j + 1 of the code always holds
Uremove ==
    /\ pc = "uremove" /\ j <= given.n - 1
    /\ IF cmp[src1[i]][src1[j]] < 0
       THEN /\ i' = i + 1
            /\ src1' = [src1 EXCEPT ![i + 1] = src1[j]]
            /\ src2' = [src2 EXCEPT ![i + 1] = src2[j]]
       ELSE UNCHANGED <<i, src1, src2>>
    /\ j' = j + 1
    /\ UNCHANGED <<given, cmp, pc, calls, left, right, pivot, cnt>>

Return ==
    /\ pc = "uremove" /\ j > given.n - 1
    /\ pc' = "done"
    /\ cnt' = i + 1
    /\ UNCHANGED <<given, cmp, src1, src2, calls, left, right, i, j, pivot>>

Next ==
    \/ Sorted \/ Unsorted
    \/ Enter \/ Up \/ Down \/ Meet \/ Recurse
    \/ StartUremove \/ Uremove \/ Return

\* A sequential call: it goes on until it returns
Spec == Init /\ [][Next]_vars /\ WF_vars(Next)

-----------------------------------------------------------------------------
Index == 0 .. given.n - 1

\* Neither loop of the partition has a bound of its own: they stop at a term that
\* does not compare below (above) the pivot, and whatever the comparison answers
\* there is one in the range, at first the pivot itself, later a term put there by
\* a swap.  No range to be sorted is empty or outside the arrays.
StaysInRange ==
    /\ pc = "up" => left <= i /\ i <= right
    /\ pc = "down" => left <= j /\ j <= right
    /\ pc = "meet" /\ i <= j => left <= i /\ j <= right
    /\ \A k \in 1 .. Len(calls) :
         0 <= calls[k].left /\ calls[k].left < calls[k].right /\ calls[k].right < given.n
    /\ pc = "uremove" => 0 <= i /\ i < j /\ i < given.n

Pairs(k, v) == {<<k[x], v[x]>> : x \in Index}

\* A value stays with the key it was given with, and sorting loses no pair.
PairsKept ==
    /\ Pairs(src1, src2) \subseteq Pairs(given.keys, given.values)
    /\ pc # "uremove" /\ pc # "done" =>
         Pairs(src1, src2) = Pairs(given.keys, given.values)

\* Every turn of the partition takes a term off the range, and both ranges that
\* are left are shorter, whatever the comparison answers.
Terminates == <>(pc = "done")
=============================================================================
