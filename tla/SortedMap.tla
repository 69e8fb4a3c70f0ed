----------------------------- MODULE SortedMap ------------------------------
(***************************************************************************)
(* enif_make_map_from_arrays (src/src/cnif_misc.c) as a whole: the sort of *)
(* the caller's arrays, turn by turn (module QuickSort), the map made of   *)
(* what it leaves there, and the calls on that map (module FlatMap).       *)
(*                                                                         *)
(* FlatMap makes a map of arrays in one step and takes for granted what    *)
(* the sort answers.  Here it is what the sort answers.                    *)
(*                                                                         *)
(* Operators above the one they vary, such as AssembleAll, are slips the   *)
(* properties would catch; the specification does not use them.            *)
(***************************************************************************)
EXTENDS QuickSort

CONSTANTS MapValue, MaxSize,
          MaxArray    \* bound: longer arrays are sorted, but no map is made of them

VARIABLES map, entries, misplaced, iter, ret, visited

mapVars == <<map, entries, misplaced, iter, ret, visited>>

Map == INSTANCE FlatMap WITH Key <- Term, Value <- MapValue

ASSUME SortedMapAssumption == Map!FlatMapConstants

NoArrays == [n |-> 0, keys |-> [x \in {} |-> x], values |-> [x \in {} |-> x]]

Start ==
    /\ Init
    /\ Map!Init

\* Keys that enif_compare orders, as FlatMap takes them for, and few enough of them
MakesMap ==
    /\ given.n <= MaxArray
    /\ \A x, y \in Term : cmp[x][y] = (IF x < y THEN -1 ELSE IF x > y THEN 1 ELSE 0)
    /\ \A x \in Index : given.values[x] \in MapValue

\* The caller's arrays and the sort's variables are gone when the call returns
Gone ==
    /\ given' = NoArrays /\ src1' = NoArrays.keys /\ src2' = NoArrays.values
    /\ left' = 0 /\ right' = 0 /\ i' = 0 /\ j' = 0 /\ pivot' = NoPivot /\ cnt' = 0
    /\ UNCHANGED <<cmp, pc, calls>>

Sort == Next /\ UNCHANGED mapVars

AssembleAll ==
    /\ pc = "done" /\ map = Map!NoMap /\ MakesMap
    /\ LET key == [x \in 1 .. given.n |-> src1[x - 1]]
           val == [x \in 1 .. given.n |-> src2[x - 1]]
       IN /\ map' = [size |-> given.n, keys |-> Map!Tuple(key), value |-> val]
          /\ entries' = [k \in {key[x] : x \in 1 .. given.n} |->
                           val[CHOOSE x \in 1 .. given.n : key[x] = k]]
    /\ Gone
    /\ UNCHANGED <<misplaced, iter, ret, visited>>

\* The rest of enif_make_map_from_arrays
Assemble ==
    /\ pc = "done" /\ map = Map!NoMap /\ MakesMap
    /\ LET key == [x \in 1 .. cnt |-> src1[x - 1]]
           val == [x \in 1 .. cnt |-> src2[x - 1]]
       IN /\ map' = [size |-> cnt, keys |-> Map!Tuple(key), value |-> val]
          /\ entries' = [k \in {key[x] : x \in 1 .. cnt} |->
                           val[CHOOSE x \in 1 .. cnt : key[x] = k]]
    /\ Gone
    /\ UNCHANGED <<misplaced, iter, ret, visited>>

CallNew ==
    /\ pc = "done" /\ MakesMap
    /\ Map!NewMap
    /\ Gone

CallMap == Map!Call /\ UNCHANGED vars

Go == Sort \/ Assemble \/ CallNew \/ CallMap

\* A call goes on until it returns; nothing obliges the program to make another
SortedMapSpec == Start /\ [][Go]_<<vars, mapVars>> /\ WF_<<vars, mapVars>>(Sort)

-----------------------------------------------------------------------------
\* The map made of the caller's arrays is one FlatMap lets the call make: the keys
\* are those given, each once and ascending, each with a value given for it.  The
\* search in a map and the counts in it rest on this.
MakesPromised ==
    [][map = Map!NoMap =>
         LET Seq0(f) == [x \in 1 .. given.n |-> f[x - 1]]
         IN Map!NewMap \/ Map!FromArrays(Seq0(given.keys), Seq0(given.values))]_map

\* A call that takes one key leaves the others alone: see FlatMap
ChangesOneKey == Map!ChangesOneKey

\* A key is answered what was put last: see FlatMap
AnswersLatest == Map!AnswersLatest

\* A walk from end to end was at every pair: see FlatMap
WalkVisitsAll == Map!WalkVisitsAll
=============================================================================
