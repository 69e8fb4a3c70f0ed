------------------------------ MODULE TermHeap ------------------------------
(***************************************************************************)
(* Tagged words and the objects built of them (src/include/cnif_term.h):   *)
(* what flat_size of src/src/cnif_copy.c counts and what the copy loops    *)
(* read.                                                                   *)
(*                                                                         *)
(* A memory is a function from addresses to words.  A word is an immediate *)
(* (small, atom, nil), a pointer to a cons cell or to a boxed object, the  *)
(* header of a boxed object, or raw (digits, bytes, the size of a map):    *)
(* raw words carry no tag, and no operator here reads one as a term.       *)
(*                                                                         *)
(* Operators above the one they vary, such as FlatSizeShort, are           *)
(* slips the properties would catch; the specification does not use them.  *)
(***************************************************************************)
EXTENDS Integers, FiniteSets, FiniteSetsExt

Imm(v) == [tag |-> "imm", val |-> v]
Raw(v) == [tag |-> "raw", val |-> v]
List(a) == [tag |-> "list", ptr |-> a]
Boxed(a) == [tag |-> "boxed", ptr |-> a]
\* kind "data" stands for bignums, floats and heap binaries, "tuple" for ARITYVAL
Header(kind, n) == [tag |-> "header", kind |-> kind, arity |-> n]

IsPointer(w) == w.tag \in {"list", "boxed"}

\* The address GET_PTR takes from a pointer
Words(mem, w) == IF w.tag = "list" THEN 2 ELSE mem[w.ptr].arity + 1

\* The words of the object at w that are terms: all of a cons cell and a tuple
\* but its header, the keys and the values of a map, the origin of a sub binary
BoxedFields(header) ==
    CASE header.kind = "tuple" -> 1 .. header.arity
      [] header.kind = "map" -> 2 .. header.arity
      [] header.kind = "sub_bin" -> {header.arity}
      [] header.kind = "data" -> {}

Fields(mem, w) == IF w.tag = "list" THEN {0, 1} ELSE BoxedFields(mem[w.ptr])

Children(mem, w) == {mem[w.ptr + i] : i \in Fields(mem, w)}

\* n sizes, one after the other
Total(sizes, n) ==
    LET sz[i \in 0 .. n] == IF i = 0 THEN 0 ELSE sz[i - 1] + sizes[i - 1]
    IN sz[n]

Every(mem, term) == {term} \cup {mem[a] : a \in DOMAIN mem}

FieldSizes(mem, w, size) ==
    [i \in 0 .. Words(mem, w) - 1 |-> IF i \in Fields(mem, w) THEN size[mem[w.ptr + i]] ELSE 0]

\* flat_size of every word: an object counts once for every path that leads to it
FlatSizes(mem, term) ==
    LET size[w \in Every(mem, term)] ==
          IF ~IsPointer(w) THEN 0
          ELSE Words(mem, w) + Total(FieldSizes(mem, w, size), Words(mem, w))
    IN size

FlatSizeShort(mem, term) ==
    LET size[w \in Every(mem, term)] ==
          IF ~IsPointer(w) THEN 0
          ELSE Words(mem, w) + Total(FieldSizes(mem, w, size), Words(mem, w) - 1)
    IN size[term]

FlatSize(mem, term) == FlatSizes(mem, term)[term]

\* The pointers term leads to
Reach(mem, term) ==
    LET reach[w \in Every(mem, term)] ==
          IF ~IsPointer(w) THEN {}
          ELSE {w} \cup UNION {reach[c] : c \in Children(mem, w)}
    IN reach[term]

\* The words of the objects term leads to, each object once
SharedSize(mem, term) == MapThenSumSet(LAMBDA w : Words(mem, w), Reach(mem, term))

\* What a term is, whatever its address: the tree enif_compare walks
Unfold(mem, term) ==
    LET tree[w \in Every(mem, term)] ==
          IF ~IsPointer(w) THEN w
          ELSE [tag |-> w.tag,
                words |-> [i \in 0 .. Words(mem, w) - 1 |->
                             IF i \in Fields(mem, w) THEN tree[mem[w.ptr + i]]
                             ELSE mem[w.ptr + i]]]
    IN tree[term]

\* A term s.term with its memory s.mem, as a program hands one over: its pointers lead
\* to whole objects and not in circles, and no two objects share a word, so that one
\* object has one tag.
Pointers(s) == {w \in Every(s.mem, s.term) : IsPointer(w)}

Extent(s, w) == w.ptr .. w.ptr + Words(s.mem, w) - 1

\* The words of an object: its header, its terms, and what is none
Whole(s, w) ==
    \A i \in 0 .. Words(s.mem, w) - 1 :
        s.mem[w.ptr + i].tag \in IF w.tag = "boxed" /\ i = 0 THEN {"header"}
                                 ELSE IF i \in Fields(s.mem, w) THEN {"imm", "list", "boxed"}
                                 ELSE {"raw"}

Acyclic(s) ==
    \E depth \in [Pointers(s) -> 0 .. Cardinality(Pointers(s))] :
        \A w \in Pointers(s) : \A i \in Fields(s.mem, w) :
            LET c == s.mem[w.ptr + i] IN IsPointer(c) => depth[c] < depth[w]

WellFormed(s) ==
    LET last == Cardinality(DOMAIN s.mem)
    IN /\ last \in Nat /\ DOMAIN s.mem = 1 .. last
       /\ Pointers(s) \subseteq [tag : {"list", "boxed"}, ptr : 1 .. last]
       /\ \A w \in Pointers(s) :
            /\ Words(s.mem, w) \in Nat \ {0} /\ w.ptr + Words(s.mem, w) - 1 <= last
            /\ Whole(s, w)
       /\ \A v, w \in Pointers(s) : w.ptr \in Extent(s, v) => w.ptr = v.ptr /\ w.tag = v.tag
       /\ \A a \in 1 .. last : s.mem[a].tag = "header" =>
            s.mem[a].arity \in Nat /\ s.mem[a].kind \in {"data", "tuple", "map", "sub_bin"}
       /\ Acyclic(s)
=============================================================================
