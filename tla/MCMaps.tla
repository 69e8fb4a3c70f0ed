------------------------------ MODULE MCMaps --------------------------------
(***************************************************************************)
(* SortedMap on all arrays of up to five of four keys.  The values of up   *)
(* to three places are any; those of more number the places, so that each  *)
(* pair is distinct.  Arrays of up to three of three keys are sorted with  *)
(* every comparison, the others with the order only; as the comparisons    *)
(* are all there are, it is enough that new keys come in the order 1, 2, 3. *)
(*                                                                         *)
(* Maps have up to four pairs: the search of key_index takes both turns    *)
(* and a put can go wrong at each of them.                                 *)
(***************************************************************************)
EXTENDS SortedMap, FiniteSets

CONSTANTS MaxLen

MCTerm == 1 .. 4

MCMapValue == {0, 1}

MCValue == 0 .. MaxLen

MCArrays ==
    UNION {{[n |-> n, keys |-> k, values |-> v] :
              k \in [0 .. n - 1 -> MCTerm],
              v \in {[x \in 0 .. n - 1 |-> x]}
                    \cup IF n <= MaxArray THEN [0 .. n - 1 -> MCMapValue] ELSE {}}
             : n \in 0 .. MaxLen}

Sign(x) == IF x < 0 THEN -1 ELSE IF x > 0 THEN 1 ELSE 0

\* The order of the terms
MCOrder == [x \in MCTerm |-> [y \in MCTerm |-> Sign(x - y)]]

\* Every comparison of the first three that answers 0 for a term and itself
MCCompares ==
    {[x \in MCTerm |-> [y \in MCTerm |-> IF x < 4 /\ y < 4 THEN c[x][y] ELSE MCOrder[x][y]]] :
       c \in {d \in [1 .. 3 -> [1 .. 3 -> {-1, 0, 1}]] : \A x \in 1 .. 3 : d[x][x] = 0}}

\* Arrays enough to sort with every comparison
MCShort ==
    {a \in MCArrays :
       /\ a.n <= MaxArray
       /\ \A x \in 0 .. a.n - 1 :
            /\ a.keys[x] < 4 /\ a.values[x] = x
            /\ a.keys[x] <= 1 + Cardinality({a.keys[y] : y \in 0 .. x - 1})}

MCStart ==
    /\ \/ given \in MCArrays /\ cmp = MCOrder
       \/ given \in MCShort /\ cmp \in MCCompares
    /\ Called /\ Map!Init

\* An iterator reads no key: maps in order are enough for it
MCGo == Go /\ (misplaced' => iter' = Map!NoIter)

MCSpec == MCStart /\ [][MCGo]_<<vars, mapVars>> /\ WF_<<vars, mapVars>>(Sort)
=============================================================================
