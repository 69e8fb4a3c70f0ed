----------------------------- MODULE TermOrder ------------------------------
(***************************************************************************)
(* Terms as trees, and the comparison of src/src/cnif.c on them.           *)
(*                                                                         *)
(* Equal trees stand for the same word, so that a map, which is compared   *)
(* by its word only, carries an address.  Names of atoms and binaries are  *)
(* sequences of bytes.                                                     *)
(*                                                                         *)
(* Operators above the one they vary, such as CompareTails, are slips the  *)
(* properties would catch; the others do not use them.                     *)
(***************************************************************************)
EXTENDS IntTerm, Sequences

\* A float is counted in halves: Float(2) is 1.0
Float(halves) == [tag |-> "float", val |-> halves]
Atom(name) == [tag |-> "atom", name |-> name]
Nil == [tag |-> "nil"]
Cons(h, t) == [tag |-> "list", head |-> h, tail |-> t]
Tuple(s) == [tag |-> "tuple", elem |-> s]
Binary(s) == [tag |-> "binary", bytes |-> s]
Map(a, k, v) == [tag |-> "map", at |-> a, keys |-> k, values |-> v]

\* The numbers of enif_type_t order the types
Type(t) ==
    IF IsInteger(t) THEN 1
    ELSE [float |-> 2, atom |-> 4, tuple |-> 9, map |-> 10,
          nil |-> 11, list |-> 12, binary |-> 13][t.tag]

S == INSTANCE SequencesExt
List(elements, tail) == S!FoldRight(Cons, elements, tail)

Sign(n) == IF n < 0 THEN -1 ELSE IF n > 0 THEN 1 ELSE 0

\* compare_atom and compare_binary: the first byte that differs, or the lengths
Lex(l, r) ==
    LET differ == {i \in 1 .. Len(l) : i <= Len(r) /\ l[i] # r[i]}
    IN IF differ = {} THEN Len(l) - Len(r)
       ELSE LET i == CHOOSE i \in differ : \A k \in differ : i <= k
            IN l[i] - r[i]

CompareIntegerFloatTied(l, r, exact, j) == Sign(2 * Read(l, j[1]) - r.val)

\* compare_integer_float: an integer is before the float it equals, if exact
CompareIntegerFloat(l, r, exact, j) ==
    LET s == Sign(2 * Read(l, j[1]) - r.val)
    IN IF s = 0 /\ exact THEN -1 ELSE s

CompareNumbers(l, r, exact, j) ==
    IF IsInteger(l)
    THEN IF IsInteger(r) THEN CompareInteger(l, r, j) ELSE CompareIntegerFloat(l, r, exact, j)
    ELSE IF IsInteger(r) THEN -CompareIntegerFloat(r, l, exact, j) ELSE Sign(l.val - r.val)

RECURSIVE CompareTerms(_, _, _, _)

\* The first element that differs
CompareElements(l, r, exact, j) ==
    LET differ == {i \in 1 .. Len(l) : CompareTerms(l[i], r[i], exact, j) # 0}
    IN IF differ = {} THEN 0
       ELSE LET i == CHOOSE i \in differ : \A k \in differ : i <= k
            IN CompareTerms(l[i], r[i], exact, j)

CompareTails(l, r, exact, j) ==
    IF l = Nil /\ r = Nil THEN 0
    ELSE IF l = Nil THEN -1
    ELSE CompareTerms(l, r, exact, j)

\* The loop over two lists, behind equal heads: [] is before any other tail
CompareRest(l, r, exact, j) ==
    IF l = Nil /\ r = Nil THEN 0
    ELSE IF l = Nil THEN -1
    ELSE IF r = Nil THEN 1
    ELSE CompareTerms(l, r, exact, j)

\* compare
CompareTerms(l, r, exact, j) ==
    IF l = r THEN 0
    ELSE IF Type(l) <= 3 /\ Type(r) <= 3 THEN CompareNumbers(l, r, exact, j)
    ELSE IF Type(l) # Type(r) THEN Type(l) - Type(r)
    ELSE CASE l.tag = "atom" -> Lex(l.name, r.name)
           [] l.tag = "binary" -> Lex(l.bytes, r.bytes)
           [] l.tag = "map" -> 1
           [] l.tag = "tuple" -> IF Len(l.elem) # Len(r.elem) THEN Len(l.elem) - Len(r.elem)
                                 ELSE CompareElements(l.elem, r.elem, exact, j)
           [] l.tag = "list" -> LET h == CompareTerms(l.head, r.head, exact, j)
                                IN IF h # 0 THEN h ELSE CompareRest(l.tail, r.tail, exact, j)

RECURSIVE Elements(_), LastTail(_)
\* The elements of a list, and what is behind the last of them
Elements(t) == IF t.tag = "list" THEN <<t.head>> \o Elements(t.tail) ELSE <<>>
LastTail(t) == IF t.tag = "list" THEN LastTail(t.tail) ELSE t

RECURSIVE Normal(_)
\* The tree, however its integers are represented and wherever its maps are
Normal(t) ==
    CASE IsInteger(t) -> [tag |-> "integer", val |-> Number(t)]
      [] t.tag = "tuple" -> Tuple([i \in DOMAIN t.elem |-> Normal(t.elem[i])])
      [] t.tag = "list" -> Cons(Normal(t.head), Normal(t.tail))
      [] t.tag = "map" -> Map(0, [i \in DOMAIN t.keys |-> Normal(t.keys[i])],
                                 [i \in DOMAIN t.values |-> Normal(t.values[i])])
      [] OTHER -> t

Same(s, t) == Normal(s) = Normal(t)
=============================================================================
