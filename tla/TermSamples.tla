---------------------------- MODULE TermSamples -----------------------------
(***************************************************************************)
(* The terms the copy modules are checked on: every term of up to four     *)
(* objects of chosen kinds.  Each field is an immediate or points to an    *)
(* older object, so that lists with shared tails, tuples with shared       *)
(* elements and chains of objects all occur.                               *)
(***************************************************************************)
EXTENDS TermHeap, Sequences

CONSTANT Layouts     \* sequences of object kinds, oldest object first

\* The words of an object of a kind when its fields are f
Object(kind, f) ==
    CASE kind = "cons" -> f
      [] kind = "tuple1" -> <<Header("tuple", 1), f[1]>>
      [] kind = "tuple2" -> <<Header("tuple", 2), f[1], f[2]>>
      [] kind \in {"float", "heap_bin"} -> <<Header("data", 1), Raw(7)>>
      \* the keys are the first object of the layout, a tuple
      [] kind = "map" -> <<Header("map", 3), Raw(1), Boxed(1), f[2]>>
      \* the binary is the first object of the layout
      [] kind = "sub_bin" -> <<Header("sub_bin", 2), Raw(3), Boxed(1)>>

Length(kind) ==
    CASE kind \in {"cons", "tuple1", "float", "heap_bin"} -> 2
      [] kind \in {"tuple2", "sub_bin"} -> 3
      [] kind = "map" -> 4

Base(l, o) ==
    LET base[j \in 1 .. o] == IF j = 1 THEN 1 ELSE base[j - 1] + Length(l[j - 1])
    IN base[o]

Pointer(l, o) == IF l[o] = "cons" THEN List(Base(l, o)) ELSE Boxed(Base(l, o))

FieldValues(l, o) == {Imm("nil")} \cup {Pointer(l, j) : j \in 1 .. o - 1}

\* The memories with the objects of l, for all ways to fill their fields
Memories(l) ==
    LET built[o \in 0 .. Len(l)] ==
          IF o = 0 THEN {<<>>}
          ELSE {m \o Object(l[o], f) : m \in built[o - 1],
                                       f \in FieldValues(l, o) \X FieldValues(l, o)}
    IN built[Len(l)]

Samples ==
    UNION {{[mem |-> m, term |-> Pointer(l, Len(l))] : m \in Memories(l)} : l \in Layouts}
    \cup {[mem |-> <<Imm("nil")>>, term |-> Imm("nil")]}

PlainLayouts ==
    {<<"cons", "cons", "cons">>, <<"float", "tuple2", "tuple2">>,
     <<"tuple1", "float", "cons", "cons">>, <<"cons", "tuple2", "cons", "tuple2">>}

MapLayouts == {<<"tuple1", "cons", "map", "cons">>}

SubBinLayouts == {<<"heap_bin", "sub_bin", "tuple2", "cons">>}

AllLayouts == PlainLayouts \cup MapLayouts \cup SubBinLayouts
=============================================================================
