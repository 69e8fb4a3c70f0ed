------------------------------ MODULE FlatMap -------------------------------
(***************************************************************************)
(* The maps of src/src/cnif.c: a tuple of keys and, beside it, the values  *)
(* in the same places; the calls that make one map from another; and the   *)
(* iterator over one.  A map is never changed, so one variable holds the   *)
(* map a caller goes on with.                                              *)
(*                                                                         *)
(* Keys are numbers: terms that enif_compare orders as an order should.    *)
(* enif_make_map_from_arrays sorts with cnif_quick_usort_aux; what it gets *)
(* from there is the keys ascending, each once, each with one of the       *)
(* values given for it; module SortedMap shows that the sort answers that. *)
(*                                                                         *)
(* History variables: entries, what a caller put in; misplaced, whether a  *)
(* key was inserted behind a greater one; visited, the places an iterator  *)
(* has been to since it was created.                                       *)
(*                                                                         *)
(* Operators above the one they vary, such as KeyIndexEarly, are           *)
(* slips the properties would catch; the specification does not use them.  *)
(***************************************************************************)
EXTENDS Integers, Sequences, SequencesExt

CONSTANTS Key, Value, MaxSize, MaxArray

FlatMapConstants ==
    Key \subseteq Int /\ MaxSize \in Nat /\ MaxArray \in Nat

VARIABLES map, entries, misplaced, iter, ret, visited

mvars == <<map, entries, misplaced>>
ivars == <<iter, ret, visited>>
vars == <<map, entries, misplaced, iter, ret, visited>>

NoMap == [size |-> 0, keys |-> [tag |-> "none"], value |-> <<>>]
NoIter == [size |-> 0, idx |-> 0, entry |-> "none"]

Tuple(s) == [tag |-> "tuple", elem |-> s]
ValueTerm(v) == [tag |-> "value", val |-> v]

IsTuple(t) == t.tag = "tuple"

Init ==
    /\ map = NoMap /\ entries = <<>> /\ misplaced = FALSE
    /\ iter = NoIter /\ ret = 0 /\ visited = {}

-----------------------------------------------------------------------------
\* What key_index has still to search, and the place it last looked at
Searches(keys) == [low : 1 .. Len(keys) + 1, high : 0 .. Len(keys), last : 0 .. Len(keys)]

KeyIndexEarly(keys, key) ==
    LET search[s \in Searches(keys)] ==
          LET mid == (s.high + s.low) \div 2
          IN IF s.low >= s.high THEN [found |-> FALSE, at |-> s.last]
             ELSE IF key < keys[mid] THEN search[[low |-> s.low, high |-> mid - 1, last |-> mid]]
             ELSE IF key > keys[mid] THEN search[[low |-> mid + 1, high |-> s.high, last |-> mid]]
             ELSE [found |-> TRUE, at |-> mid]
    IN search[[low |-> 1, high |-> Len(keys), last |-> 0]]

\* key_index: whether key is in keys and where, or else the place last looked at
KeyIndex(keys, key) ==
    LET search[s \in Searches(keys)] ==
          LET mid == (s.high + s.low) \div 2
          IN IF s.low > s.high THEN [found |-> FALSE, at |-> s.last]
             ELSE IF key < keys[mid] THEN search[[low |-> s.low, high |-> mid - 1, last |-> mid]]
             ELSE IF key > keys[mid] THEN search[[low |-> mid + 1, high |-> s.high, last |-> mid]]
             ELSE [found |-> TRUE, at |-> mid]
    IN search[[low |-> 1, high |-> Len(keys), last |-> 0]]

Usable == IsTuple(map.keys)
At(k) == KeyIndex(map.keys.elem, k)

\* enif_make_new_map
NewMap ==
    /\ map = NoMap
    /\ map' = [size |-> 0, keys |-> Tuple(<<>>), value |-> <<>>]
    /\ entries' = [k \in {} |-> k]
    /\ UNCHANGED <<misplaced, iter, ret, visited>>

\* What cnif_quick_usort_aux can make of the keys ks and the values vs: as many
\* pairs as there are keys, each a pair given, with ascending keys
USort(ks, vs) ==
    LET Given == {<<ks[x], vs[x]>> : x \in 1 .. Len(ks)}
        Keys == {ks[x] : x \in 1 .. Len(ks)}
    IN {r \in [1 .. Cardinality(Keys) -> Given] :
          \A x, y \in 1 .. Len(r) : x < y => r[x][1] < r[y][1]}

\* enif_make_map_from_arrays
FromArrays(ks, vs) ==
    /\ map = NoMap
    /\ \E r \in USort(ks, vs) :
         LET key == [x \in 1 .. Len(r) |-> r[x][1]]
             val == [x \in 1 .. Len(r) |-> r[x][2]]
         IN /\ map' = [size |-> Len(r), keys |-> Tuple(key), value |-> val]
            /\ entries' = [k \in {key[x] : x \in 1 .. Len(r)} |->
                             val[CHOOSE x \in 1 .. Len(r) : key[x] = k]]
    /\ UNCHANGED <<misplaced, iter, ret, visited>>

With(k, v) == [x \in DOMAIN entries \cup {k} |-> IF x = k THEN v ELSE entries[x]]

\* enif_make_map_update, and enif_make_map_put of a key that is found
Replace(k, v) ==
    /\ Usable /\ At(k).found
    /\ map' = [map EXCEPT !.value[At(k).at] = v]
    /\ entries' = With(k, v)
    /\ UNCHANGED <<misplaced, iter, ret, visited>>

PutNewAppends(k, v) ==
    /\ Usable /\ map.size < MaxSize
    /\ ~At(k).found /\ At(k).at > 0
    /\ map' = [size |-> map.size + 1,
               keys |-> Tuple(InsertAt(map.keys.elem, At(k).at, k)),
               value |-> Append(map.value, v)]
    /\ entries' = With(k, v)
    /\ misplaced' = (misplaced \/ map.keys.elem[At(k).at] < k)
    /\ UNCHANGED ivars

\* enif_make_map_put of another key: both arrays get a place where key_index
\* looked last
PutNew(k, v) ==
    /\ Usable /\ map.size < MaxSize
    /\ ~At(k).found /\ At(k).at > 0
    /\ map' = [size |-> map.size + 1,
               keys |-> Tuple(InsertAt(map.keys.elem, At(k).at, k)),
               value |-> InsertAt(map.value, At(k).at, v)]
    /\ entries' = With(k, v)
    /\ misplaced' = (misplaced \/ map.keys.elem[At(k).at] < k)
    /\ UNCHANGED ivars

\* In an empty map key_index looks nowhere and leaves 0: insert_value then stores
\* before the values, in the field "keys", and copies "keys" behind it
PutEmpty(k, v) ==
    /\ Usable
    /\ ~At(k).found /\ At(k).at = 0
    /\ map' = [size |-> map.size + 1, keys |-> ValueTerm(v), value |-> <<map.keys>>]
    /\ entries' = With(k, v)
    /\ UNCHANGED <<misplaced, iter, ret, visited>>

\* enif_make_map_remove; as update, it answers 0 for a key that is not found
MapRemove(k) ==
    /\ Usable /\ At(k).found
    /\ map' = [size |-> map.size - 1,
               keys |-> Tuple(RemoveAt(map.keys.elem, At(k).at)),
               value |-> RemoveAt(map.value, At(k).at)]
    /\ entries' = [x \in DOMAIN entries \ {k} |-> entries[x]]
    /\ UNCHANGED <<misplaced, iter, ret, visited>>

-----------------------------------------------------------------------------
IterCreateOnPair(entry) ==
    /\ map # NoMap
    /\ iter' = [size |-> map.size, entry |-> entry,
                idx |-> IF entry = "first" THEN 1 ELSE map.size]
    /\ ret' = 1
    /\ visited' = {}
    /\ UNCHANGED mvars

\* enif_map_iterator_create
IterCreate(entry) ==
    /\ map # NoMap
    /\ iter' = [size |-> map.size, entry |-> entry,
                idx |-> IF entry = "first" THEN 0 ELSE map.size + 1]
    /\ ret' = 1
    /\ visited' = {}
    /\ UNCHANGED mvars

\* enif_map_iterator_next and enif_map_iterator_prev: one more place, or none left
Step(idx, has) ==
    /\ iter # NoIter
    /\ iter' = [iter EXCEPT !.idx = idx]
    /\ ret' = IF has THEN 1 ELSE 0
    /\ visited' = IF has THEN visited \cup {idx} ELSE visited
    /\ UNCHANGED mvars

IterNext ==
    LET i == iter.idx
    IN Step(IF i <= iter.size THEN i + 1 ELSE i, i < iter.size)

IterPrev ==
    LET i == iter.idx
    IN Step(IF i >= 1 THEN i - 1 ELSE i, i > 1)

\* enif_map_iterator_destroy
IterDestroy ==
    /\ iter # NoIter
    /\ iter' = NoIter /\ ret' = 0 /\ visited' = {}
    /\ UNCHANGED mvars

IsHead == iter.idx < 1
IsTail == iter.idx > iter.size

\* enif_map_iterator_get_pair answers a pair
HasPair == iter.idx >= 1 /\ iter.idx <= iter.size

ArrayPairs == UNION {[1 .. n -> Key] \X [1 .. n -> Value] : n \in 0 .. MaxArray}

\* The calls on a map made
Call ==
    \/ \E k \in Key, v \in Value : Replace(k, v) \/ PutNew(k, v) \/ PutEmpty(k, v)
    \/ \E k \in Key : MapRemove(k)
    \/ \E entry \in {"first", "last"} : IterCreate(entry)
    \/ IterNext \/ IterPrev \/ IterDestroy

Next ==
    \/ NewMap
    \/ \E a \in ArrayPairs : FromArrays(a[1], a[2])
    \/ Call

Spec == Init /\ [][Next]_vars

-----------------------------------------------------------------------------
PairsOf(m, k) ==
    {<<x, m.value[x]>> : x \in {y \in 1 .. Len(m.keys.elem) : m.keys.elem[y] = k}}

ValuesOf(m, k) == {p[2] : p \in PairsOf(m, k)}

\* A call that takes one key leaves every other key the value it had: the shifts
\* in the keys and in the values are the same, even where the order is lost.
ChangesOneKey ==
    [][Usable /\ Usable' =>
         \E k \in Key : \A x \in Key \ {k} : ValuesOf(map', x) = ValuesOf(map, x)]_map

\* The three counts of a map agree: get and update search with the arity of the
\* tuple, copy with the size, and read the values with the place they found.  And
\* while no key was inserted behind a greater one, enif_get_map_value answers for
\* every key what was put last, and answers no key that was removed.
AnswersLatest ==
    /\ Usable => map.size = Len(map.keys.elem) /\ map.size = Len(map.value)
    /\ Usable /\ ~misplaced =>
         \A k \in Key :
           /\ At(k).found <=> k \in DOMAIN entries
           /\ At(k).found => map.value[At(k).at] = entries[k]

\* A walk that has come from one end to the other was at every pair, however often
\* it turned round, and a step that answers 1 is on a pair.
WalkVisitsAll ==
    /\ iter.entry = "first" /\ IsTail => visited = 1 .. iter.size
    /\ iter.entry = "last" /\ IsHead => visited = 1 .. iter.size
    /\ iter # NoIter /\ visited # {} => (ret = 1 <=> HasPair)

\* cnif_term.h:182 says of the field keys of a map "tuple".
KeysAreTuple == map # NoMap => IsTuple(map.keys)
=============================================================================
