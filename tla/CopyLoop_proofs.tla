-------------------------- MODULE CopyLoop_proofs ---------------------------
(***************************************************************************)
(* What flat_size counts of a well-formed term (src/src/cnif_copy.c), that *)
(* enif_make_flat_copy fills exactly that and enif_make_copy takes no      *)
(* other number of words, and that what either returns is the same term in *)
(* words of its own, for every well-formed term.                           *)
(*                                                                         *)
(* The size of a word and the tree it stands for are recursive functions,  *)
(* that is a CHOOSE: first it is shown that a function satisfies their     *)
(* equation (AllMade), level by level of the depth of the pointers, then   *)
(* what its values are.  A copy has the tree of its source because every   *)
(* word of it comes from a word of the source (Tracks), and two pointers   *)
(* with different trees would lead to two below them (CopiesHaveTrees).    *)
(*                                                                         *)
(* While calls of the recursive copy are under way most words of its copy  *)
(* are not there yet, and what is there is spread over the objects of all  *)
(* calls.  The invariant (Calls) tells of every word of the copy which one *)
(* of the source it was made of, or that some call has it still to write,  *)
(* and of every call what it was made for and how much its objects will    *)
(* yet take.                                                               *)
(***************************************************************************)
EXTENDS FlatCopy, RecursiveCopy, WellFoundedInduction, FiniteSetTheorems, TLAPS

-----------------------------------------------------------------------------
\* A set of numbers has a least one.
LEMMA LeastNat ==
    ASSUME NEW T \in SUBSET Nat, T # {}
    PROVE  \E x \in T : \A y \in T : ~(y < x)
  <1>1. IsWellFoundedOn(OpToRel(<, Nat), Nat)
    BY NatLessThanWellFounded
  <1>2. PICK x \in T : \A y \in T : ~(<<y, x>> \in OpToRel(<, Nat))
    BY <1>1, WFMin
  <1> QED
    BY <1>2 DEF OpToRel

\* The running sums of sizes, up to the n-th
Sums(g, sizes, n) ==
    g = [i \in 0 .. n |-> IF i = 0 THEN 0 ELSE g[i - 1] + sizes[i - 1]]

\* There are running sums of any length.
LEMMA SumsExist ==
    ASSUME NEW n \in Nat, NEW sizes
    PROVE  \E g : Sums(g, sizes, n)
  <1> DEFINE bad == {k \in Nat : ~ \E g : Sums(g, sizes, k)}
  <1> SUFFICES ASSUME bad # {}
               PROVE  FALSE
    OBVIOUS
  <1>1. PICK k \in bad : \A j \in bad : ~(j < k)
    <2>1. bad \in SUBSET Nat
      OBVIOUS
    <2> HIDE DEF bad
    <2> QED
      BY <2>1, LeastNat
  <1>2. k # 0
    <2>1. Sums([i \in 0 .. 0 |-> 0], sizes, 0)
      BY DEF Sums
    <2> QED
      BY <1>1, <2>1
  <1>3. k \in Nat /\ k - 1 \in Nat /\ k - 1 < k
    BY <1>1, <1>2
  <1>4. PICK g : Sums(g, sizes, k - 1)
    BY <1>1, <1>3
  <1> DEFINE h == [i \in 0 .. k |-> IF i = k THEN g[k - 1] + sizes[k - 1] ELSE g[i]]
  <1>5. /\ g = [i \in 0 .. k - 1 |-> IF i = 0 THEN 0 ELSE g[i - 1] + sizes[i - 1]]
        /\ g[0] = 0 /\ \A i \in 1 .. k - 1 : g[i] = g[i - 1] + sizes[i - 1]
    BY <1>3, <1>4 DEF Sums
  <1>6. \A i \in 1 .. k : h[i - 1] = g[i - 1]
    BY <1>3
  <1>7. \A i \in 0 .. k : h[i] = IF i = 0 THEN 0 ELSE h[i - 1] + sizes[i - 1]
    <2> SUFFICES ASSUME NEW i \in 0 .. k
                 PROVE  h[i] = IF i = 0 THEN 0 ELSE h[i - 1] + sizes[i - 1]
      OBVIOUS
    <2>1. CASE i = 0
      BY <1>3, <1>5, <2>1
    <2>2. CASE i = k
      BY <1>3, <1>6, <2>2
    <2>3. CASE i \in 1 .. k - 1
      BY <1>3, <1>5, <1>6, <2>3
    <2> QED
      BY <1>3, <2>1, <2>2, <2>3
  <1>8. Sums(h, sizes, k)
    BY <1>7 DEF Sums
  <1> QED
    BY <1>1, <1>8

\* The last of the running sums of natural numbers is their total.
LEMMA TotalSums ==
    ASSUME NEW n \in Nat, NEW sizes, \A i \in 0 .. n - 1 : sizes[i] \in Nat
    PROVE  \E u \in [0 .. n -> Nat] :
             /\ u[0] = 0 /\ \A i \in 0 .. n - 1 : u[i + 1] = u[i] + sizes[i]
             /\ Total(sizes, n) = u[n]
  <1> DEFINE u == CHOOSE g : Sums(g, sizes, n)
  <1>1. Sums(u, sizes, n)
    BY SumsExist
  <1>2. Total(sizes, n) = u[n]
    BY DEF Total, Sums
  <1> HIDE DEF u
  <1>3. /\ u = [i \in 0 .. n |-> IF i = 0 THEN 0 ELSE u[i - 1] + sizes[i - 1]]
        /\ u[0] = 0 /\ \A i \in 1 .. n : u[i] = u[i - 1] + sizes[i - 1]
    BY <1>1 DEF Sums
  <1>4. \A i \in 0 .. n - 1 : u[i + 1] = u[i] + sizes[i]
    <2> SUFFICES ASSUME NEW i \in 0 .. n - 1
                 PROVE  u[i + 1] = u[i] + sizes[i]
      OBVIOUS
    <2>1. i + 1 \in 1 .. n /\ (i + 1) - 1 = i
      OBVIOUS
    <2> QED
      BY <1>3, <2>1
  <1>5. \A i \in 0 .. n : u[i] \in Nat
    <2> DEFINE bad == {k \in 0 .. n : u[k] \notin Nat}
    <2> SUFFICES ASSUME bad # {}
                 PROVE  FALSE
      OBVIOUS
    <2>1. PICK k \in bad : \A j \in bad : ~(j < k)
      <3>1. bad \in SUBSET Nat
        OBVIOUS
      <3> HIDE DEF bad
      <3> QED
        BY <3>1, LeastNat
    <2>2. k # 0
      BY <1>3, <2>1
    <2>3. k \in 1 .. n /\ k - 1 \in 0 .. n - 1 /\ k - 1 < k
      BY <2>1, <2>2
    <2>4. u[k - 1] \in Nat /\ sizes[k - 1] \in Nat
      BY <2>1, <2>3
    <2>5. u[k] = u[k - 1] + sizes[k - 1]
      BY <1>3, <2>3
    <2>6. u[k] \in Nat
      BY <2>4, <2>5
    <2> QED
      BY <2>1, <2>6
  <1>6. u \in [0 .. n -> Nat]
    BY <1>3, <1>5
  <1> QED
    BY <1>2, <1>3, <1>4, <1>6

-----------------------------------------------------------------------------
\* A memory of finitely many words has finitely many.
LEMMA EveryFinite ==
    ASSUME NEW m, NEW x, NEW last \in Nat, DOMAIN m = 1 .. last
    PROVE  IsFiniteSet(Every(m, x)) /\ IsFiniteSet(DOMAIN m)
  <1> DEFINE f == [i \in 0 .. last |-> IF i = 0 THEN x ELSE m[i]]
  <1>1. f \in Surjection(0 .. last, Every(m, x))
    <2>1. f \in [0 .. last -> Every(m, x)]
      BY DEF Every
    <2>2. ASSUME NEW w \in Every(m, x)
          PROVE  \E i \in 0 .. last : f[i] = w
      <3>1. CASE w = x
        <4>1. f[0] = w /\ 0 \in 0 .. last
          BY <3>1
        <4> QED
          BY <4>1
      <3>2. CASE w \in {m[a] : a \in DOMAIN m}
        <4>1. PICK a \in 1 .. last : w = m[a]
          BY <3>2
        <4>2. f[a] = w /\ a \in 0 .. last
          BY <4>1
        <4> QED
          BY <4>2
      <3> QED
        BY <3>1, <3>2 DEF Every
    <2> HIDE DEF f
    <2> QED
      BY <2>1, <2>2, Zenon DEF Surjection
  <1>2. IsFiniteSet(0 .. last) /\ IsFiniteSet(1 .. last)
    BY FS_Interval
  <1> QED
    BY <1>1, <1>2, FS_Surjection

\* A well-formed term has finitely many pointers.
LEMMA PointersFinite ==
    ASSUME NEW s, WellFormed(s)
    PROVE  Cardinality(Pointers(s)) \in Nat
  <1>1. PICK last \in Nat : DOMAIN s.mem = 1 .. last
    BY DEF WellFormed
  <1>2. IsFiniteSet(Every(s.mem, s.term))
    BY <1>1, EveryFinite
  <1>3. Pointers(s) \in SUBSET Every(s.mem, s.term)
    BY DEF Pointers
  <1>4. IsFiniteSet(Pointers(s))
    BY <1>2, <1>3, FS_Subset
  <1> QED
    BY <1>4, FS_CardinalityType

\* A pointer of a well-formed source, and the words of its object.
LEMMA PointerFacts ==
    ASSUME NEW s, WellFormed(s), NEW w \in Pointers(s)
    PROVE  LET last == Cardinality(DOMAIN s.mem)
           IN /\ last \in Nat /\ DOMAIN s.mem = 1 .. last
              /\ w \in [tag : {"list", "boxed"}, ptr : 1 .. last]
              /\ Words(s.mem, w) \in Nat \ {0}
              /\ w.ptr + Words(s.mem, w) - 1 <= last
  BY DEF WellFormed

\* The words of an object of the term are words of the term; those that are no
\* fields are no pointers.
LEMMA ObjectWords ==
    ASSUME NEW s, WellFormed(s), NEW w \in Pointers(s), NEW i \in 0 .. Words(s.mem, w) - 1
    PROVE  /\ w.ptr + i \in DOMAIN s.mem
           /\ s.mem[w.ptr + i] \in Every(s.mem, s.term)
           /\ i \notin Fields(s.mem, w) => ~IsPointer(s.mem[w.ptr + i])
  <1>1. PICK last \in Nat : /\ DOMAIN s.mem = 1 .. last /\ w.ptr \in 1 .. last
                           /\ w.ptr + Words(s.mem, w) - 1 <= last
    BY PointerFacts
  <1>2. PICK p \in 1 .. last, n \in Nat : p = w.ptr /\ n = Words(s.mem, w)
    BY <1>1, PointerFacts
  <1>3. p + i \in 1 .. last
    BY <1>1, <1>2
  <1>4. s.mem[w.ptr + i].tag \in IF w.tag = "boxed" /\ i = 0 THEN {"header"}
                                 ELSE IF i \in Fields(s.mem, w) THEN {"imm", "list", "boxed"}
                                 ELSE {"raw"}
    BY DEF WellFormed, Whole
  <1>5. i \notin Fields(s.mem, w) => ~IsPointer(s.mem[w.ptr + i])
    BY <1>4 DEF IsPointer
  <1> QED
    BY <1>1, <1>2, <1>3, <1>5 DEF Every

-----------------------------------------------------------------------------
\* What flat_size makes of w if sz is what it makes of the words below w
SizeOf(s, w, sz) ==
    IF ~IsPointer(w) THEN 0
    ELSE Words(s.mem, w) + Total(FieldSizes(s.mem, w, sz), Words(s.mem, w))

Sizes(s, sz) == sz = [w \in Every(s.mem, s.term) |-> SizeOf(s, w, sz)]

\* The tree of w in the memory m if f has those of the words below w
TreeOf(m, w, f) ==
    IF ~IsPointer(w) THEN w
    ELSE [tag |-> w.tag,
          words |-> [i \in 0 .. Words(m, w) - 1 |->
                       IF i \in Fields(m, w) THEN f[m[w.ptr + i]] ELSE m[w.ptr + i]]]

Trees(m, x, f) == f = [w \in Every(m, x) |-> TreeOf(m, w, f)]

\* Either of them
Made(what, s, w, f) == IF what = "size" THEN SizeOf(s, w, f) ELSE TreeOf(s.mem, w, f)

\* What is made of a word depends on its fields only, and is fixed if it is no pointer.
LEMMA MadeSame ==
    ASSUME NEW what, NEW s, NEW w, NEW f, NEW g,
           IsPointer(w) => \A i \in 0 .. Words(s.mem, w) - 1 :
             i \in Fields(s.mem, w) => f[s.mem[w.ptr + i]] = g[s.mem[w.ptr + i]]
    PROVE  Made(what, s, w, f) = Made(what, s, w, g)
  <1>1. CASE ~IsPointer(w)
    BY <1>1 DEF Made, SizeOf, TreeOf
  <1>2. CASE IsPointer(w)
    <2>1. FieldSizes(s.mem, w, f) = FieldSizes(s.mem, w, g)
      BY <1>2 DEF FieldSizes
    <2>2. SizeOf(s, w, f) = SizeOf(s, w, g)
      BY <2>1 DEF SizeOf
    <2>3. \A i \in 0 .. Words(s.mem, w) - 1 :
            (IF i \in Fields(s.mem, w) THEN f[s.mem[w.ptr + i]] ELSE s.mem[w.ptr + i])
            = (IF i \in Fields(s.mem, w) THEN g[s.mem[w.ptr + i]] ELSE s.mem[w.ptr + i])
      BY <1>2
    <2>4. TreeOf(s.mem, w, f) = TreeOf(s.mem, w, g)
      BY <2>3, Zenon DEF TreeOf
    <2> QED
      BY <2>2, <2>4 DEF Made
  <1> QED
    BY <1>1, <1>2

\* The levels of the term: f is right for pointers up to depth k.
RightBelow(what, s, depth, k, f) ==
    /\ f = [w \in Every(s.mem, s.term) |-> f[w]]
    /\ \A w \in Every(s.mem, s.term) :
         (IsPointer(w) => depth[w] < k) => f[w] = Made(what, s, w, f)

\* The depth of the pointers, as WellFormed promises it.
Depths(s, depth) ==
    /\ depth \in [Pointers(s) -> Nat]
    /\ \A w \in Pointers(s) : \A i \in Fields(s.mem, w) :
         IsPointer(s.mem[w.ptr + i]) => depth[s.mem[w.ptr + i]] < depth[w]

\* There is such a depth.
LEMMA DepthsExist ==
    ASSUME NEW s, WellFormed(s)
    PROVE  \E depth : /\ Depths(s, depth)
                      /\ \A w \in Pointers(s) : depth[w] < Cardinality(Pointers(s)) + 1
  <1>1. Cardinality(Pointers(s)) \in Nat
    BY PointersFinite
  <1>2. PICK depth \in [Pointers(s) -> 0 .. Cardinality(Pointers(s))] :
          \A w \in Pointers(s) : \A i \in Fields(s.mem, w) :
            LET c == s.mem[w.ptr + i] IN IsPointer(c) => depth[c] < depth[w]
    BY DEF WellFormed, Acyclic
  <1>3. depth \in [Pointers(s) -> Nat]
        /\ \A w \in Pointers(s) : depth[w] < Cardinality(Pointers(s)) + 1
    BY <1>1, <1>2
  <1> QED
    BY <1>2, <1>3 DEF Depths

\* A function right up to some depth is made right one level further.
LEMMA NextLevel ==
    ASSUME NEW what, NEW s, WellFormed(s), NEW depth, Depths(s, depth), NEW k \in Nat,
           NEW f, RightBelow(what, s, depth, k, f)
    PROVE  \E g : RightBelow(what, s, depth, k + 1, g)
  <1> DEFINE all == Every(s.mem, s.term)
             g == [w \in all |-> IF IsPointer(w) /\ depth[w] = k THEN Made(what, s, w, f) ELSE f[w]]
  <1>1. ASSUME NEW w \in all, IsPointer(w), depth[w] <= k
        PROVE  Made(what, s, w, g) = Made(what, s, w, f)
    <2>1. w \in Pointers(s) /\ depth[w] \in Nat
      BY <1>1 DEF Pointers, Depths
    <2>2. ASSUME NEW i \in 0 .. Words(s.mem, w) - 1, i \in Fields(s.mem, w)
          PROVE  g[s.mem[w.ptr + i]] = f[s.mem[w.ptr + i]]
      <3>1. s.mem[w.ptr + i] \in all
        BY <2>1, ObjectWords
      <3>2. ASSUME IsPointer(s.mem[w.ptr + i])
            PROVE  depth[s.mem[w.ptr + i]] # k
        <4>1. s.mem[w.ptr + i] \in Pointers(s)
          BY <3>1, <3>2 DEF Pointers
        <4>2. depth[s.mem[w.ptr + i]] < depth[w] /\ depth[s.mem[w.ptr + i]] \in Nat
          BY <2>1, <2>2, <3>2, <4>1 DEF Depths
        <4> QED
          BY <1>1, <2>1, <4>2
      <3> QED
        BY <3>1, <3>2
    <2> HIDE DEF g
    <2> QED
      BY <2>1, <2>2, MadeSame
  <1>2. ASSUME NEW w \in all, IsPointer(w) => depth[w] < k + 1
        PROVE  g[w] = Made(what, s, w, g)
    <2>1. CASE ~IsPointer(w)
      <3>1. g[w] = f[w] /\ f[w] = Made(what, s, w, f)
        BY <2>1 DEF RightBelow
      <3> HIDE DEF g
      <3> QED
        BY <2>1, <3>1, MadeSame
    <2>2. CASE IsPointer(w) /\ depth[w] = k
      <3>1. g[w] = Made(what, s, w, f)
        BY <2>2
      <3>2. Made(what, s, w, g) = Made(what, s, w, f)
        BY <1>1, <2>2
      <3> QED
        BY <3>1, <3>2
    <2>3. CASE IsPointer(w) /\ depth[w] < k
      <3>1. g[w] = f[w] /\ f[w] = Made(what, s, w, f)
        BY <2>3 DEF RightBelow
      <3>2. depth[w] <= k
        BY <2>3 DEF Depths, Pointers
      <3>3. Made(what, s, w, g) = Made(what, s, w, f)
        BY <1>1, <2>3, <3>2
      <3> QED
        BY <3>1, <3>3
    <2>4. IsPointer(w) => depth[w] \in Nat
      BY DEF Depths, Pointers
    <2> QED
      BY <1>2, <2>1, <2>2, <2>3, <2>4
  <1>3. g = [w \in all |-> g[w]]
    OBVIOUS
  <1> HIDE DEF g
  <1>4. RightBelow(what, s, depth, k + 1, g)
    BY <1>2, <1>3 DEF RightBelow
  <1> QED
    BY <1>4

\* The equation of either of them has a solution.
LEMMA AllMade ==
    ASSUME NEW what, NEW s, WellFormed(s)
    PROVE  \E f : f = [w \in Every(s.mem, s.term) |-> Made(what, s, w, f)]
  <1> DEFINE all == Every(s.mem, s.term)
  <1>1. PICK depth : /\ Depths(s, depth)
                    /\ \A w \in Pointers(s) : depth[w] < Cardinality(Pointers(s)) + 1
    BY DepthsExist
  <1>2. ASSUME NEW k \in Nat
        PROVE  \E f : RightBelow(what, s, depth, k, f)
    <2> DEFINE bad == {j \in Nat : ~ \E f : RightBelow(what, s, depth, j, f)}
    <2> SUFFICES ASSUME bad # {}
                 PROVE  FALSE
      OBVIOUS
    <2>1. PICK j \in bad : \A i \in bad : ~(i < j)
      <3>1. bad \in SUBSET Nat
        OBVIOUS
      <3> HIDE DEF bad
      <3> QED
        BY <3>1, LeastNat
    <2>2. j # 0
      <3> DEFINE f == [w \in all |-> Made(what, s, w, 0)]
      <3>1. ASSUME NEW w \in all, IsPointer(w) => depth[w] < 0
            PROVE  f[w] = Made(what, s, w, f)
        <4>1. ~IsPointer(w)
          BY <1>1, <3>1 DEF Depths, Pointers
        <4>2. f[w] = Made(what, s, w, 0)
          OBVIOUS
        <4> HIDE DEF f
        <4> QED
          BY <4>1, <4>2, MadeSame
      <3>2. RightBelow(what, s, depth, 0, f)
        BY <3>1 DEF RightBelow
      <3> HIDE DEF f
      <3> QED
        BY <2>1, <3>2
    <2>3. j - 1 \in Nat /\ j - 1 < j /\ (j - 1) + 1 = j
      BY <2>1, <2>2
    <2>4. PICK f : RightBelow(what, s, depth, j - 1, f)
      BY <2>1, <2>3
    <2>5. \E g : RightBelow(what, s, depth, j, g)
      BY <1>1, <2>3, <2>4, NextLevel
    <2> QED
      BY <2>1, <2>5
  <1>3. PICK f : RightBelow(what, s, depth, Cardinality(Pointers(s)) + 1, f)
    <2>1. Cardinality(Pointers(s)) + 1 \in Nat
      BY PointersFinite
    <2> QED
      BY <1>2, <2>1
  <1>4. \A w \in all : f[w] = Made(what, s, w, f)
    BY <1>1, <1>3 DEF RightBelow, Pointers
  <1>5. f = [w \in all |-> f[w]]
    BY <1>3, Zenon DEF RightBelow
  <1>6. f = [w \in all |-> Made(what, s, w, f)]
    BY <1>4, <1>5
  <1> QED
    BY <1>6, Zenon

\* So FlatSizes is one.
LEMMA SizesExist ==
    ASSUME NEW s, WellFormed(s)
    PROVE  Sizes(s, FlatSizes(s.mem, s.term))
  <1>1. PICK f : f = [w \in Every(s.mem, s.term) |-> Made("size", s, w, f)]
    BY AllMade
  <1>2. Sizes(s, f)
    BY <1>1 DEF Sizes, Made
  <1> DEFINE chosen == CHOOSE g : Sizes(s, g)
  <1>3. FlatSizes(s.mem, s.term) = chosen
    BY DEF FlatSizes, Sizes, SizeOf
  <1>4. Sizes(s, chosen)
    BY <1>2
  <1> QED
    BY <1>3, <1>4

\* Unfold reads off a solution, if there is one.
LEMMA TreeChosen ==
    ASSUME NEW m, NEW x, \E f : Trees(m, x, f)
    PROVE  \E f : Trees(m, x, f) /\ Unfold(m, x) = f[x]
  <1> DEFINE chosen == CHOOSE f : Trees(m, x, f)
  <1>1. Unfold(m, x) = chosen[x]
    BY DEF Unfold, Trees, TreeOf
  <1>2. Trees(m, x, chosen)
    BY Zenon
  <1> HIDE DEF chosen
  <1> QED
    BY <1>1, <1>2, Zenon

\* There is one for a well-formed term.
LEMMA TreesExist ==
    ASSUME NEW s, WellFormed(s)
    PROVE  \E f : Trees(s.mem, s.term, f)
  <1>1. PICK f : f = [w \in Every(s.mem, s.term) |-> Made("tree", s, w, f)]
    BY AllMade
  <1>2. Trees(s.mem, s.term, f)
    BY <1>1 DEF Trees, Made
  <1> QED
    BY <1>2

\* What flat_size makes of the words of the term s
Size(s) == FlatSizes(s.mem, s.term)

\* What flat_size makes of a word.
LEMMA SizeFacts ==
    ASSUME NEW s, WellFormed(s), NEW w \in Every(s.mem, s.term)
    PROVE  Size(s)[w] = SizeOf(s, w, Size(s)) /\ (~IsPointer(w) => Size(s)[w] = 0)
  BY SizesExist DEF Sizes, Size, SizeOf

\* The size of w is that of the words of its object, and their number n.
Summed(s, w, n) ==
    \E u \in [0 .. n -> Nat] :
        /\ u[0] = 0 /\ \A i \in 0 .. n - 1 : u[i + 1] = u[i] + Size(s)[s.mem[w.ptr + i]]
        /\ Size(s)[w] = n + u[n]

\* It is so if the sizes of these words are numbers.
LEMMA ObjectSums ==
    ASSUME NEW s, WellFormed(s), NEW w \in Pointers(s), NEW n, n = Words(s.mem, w),
           \A i \in 0 .. n - 1 : Size(s)[s.mem[w.ptr + i]] \in Nat
    PROVE  Summed(s, w, n)
  <1> DEFINE sizes == FieldSizes(s.mem, w, Size(s))
  <1>1. n \in Nat
    BY PointerFacts
  <1>2. ASSUME NEW i \in 0 .. n - 1
        PROVE  sizes[i] = Size(s)[s.mem[w.ptr + i]]
    <2>1. sizes[i] = IF i \in Fields(s.mem, w) THEN Size(s)[s.mem[w.ptr + i]] ELSE 0
      BY DEF FieldSizes
    <2>2. i \notin Fields(s.mem, w) => Size(s)[s.mem[w.ptr + i]] = 0
      BY ObjectWords, SizeFacts
    <2> QED
      BY <2>1, <2>2
  <1>3. Size(s)[w] = n + Total(sizes, n)
    <2>1. w \in Every(s.mem, s.term) /\ IsPointer(w)
      BY DEF Pointers
    <2> QED
      BY <2>1, SizeFacts DEF SizeOf
  <1> HIDE DEF sizes
  <1>4. \A i \in 0 .. n - 1 : sizes[i] \in Nat
    BY <1>2
  <1>5. PICK u \in [0 .. n -> Nat] :
          /\ u[0] = 0 /\ \A i \in 0 .. n - 1 : u[i + 1] = u[i] + sizes[i]
          /\ Total(sizes, n) = u[n]
    BY <1>1, <1>4, TotalSums
  <1>6. \A i \in 0 .. n - 1 : u[i + 1] = u[i] + Size(s)[s.mem[w.ptr + i]]
    BY <1>2, <1>5
  <1>7. Size(s)[w] = n + u[n]
    BY <1>3, <1>5
  <1> QED
    BY <1>5, <1>6, <1>7 DEF Summed

\* It is a number, for all words of the term.
LEMMA SizesAreNumbers ==
    ASSUME NEW s, WellFormed(s), NEW w \in Every(s.mem, s.term)
    PROVE  Size(s)[w] \in Nat
  <1>1. PICK depth : Depths(s, depth)
    BY DepthsExist
  <1> DEFINE bad == {depth[v] : v \in {x \in Pointers(s) : Size(s)[x] \notin Nat}}
  <1>2. bad = {}
    <2> SUFFICES ASSUME bad # {}
                 PROVE  FALSE
      OBVIOUS
    <2>1. bad \in SUBSET Nat
      BY <1>1 DEF Depths
    <2>2. PICK d \in bad : \A e \in bad : ~(e < d)
      <3> HIDE DEF bad
      <3> QED
        BY <2>1, LeastNat
    <2>3. PICK v \in Pointers(s) : d = depth[v] /\ Size(s)[v] \notin Nat
      BY <2>2
    <2>4. ASSUME NEW i \in 0 .. Words(s.mem, v) - 1
          PROVE  Size(s)[s.mem[v.ptr + i]] \in Nat
      <3> DEFINE c == s.mem[v.ptr + i]
      <3>1. c \in Every(s.mem, s.term) /\ (i \notin Fields(s.mem, v) => ~IsPointer(c))
        BY <2>3, ObjectWords
      <3>2. CASE ~IsPointer(c)
        <4>1. Size(s)[c] = 0
          BY <3>1, <3>2, SizeFacts
        <4> QED
          BY <4>1
      <3>3. CASE IsPointer(c)
        <4>1. c \in Pointers(s) /\ depth[c] < depth[v]
          BY <1>1, <2>3, <3>1, <3>3 DEF Depths, Pointers
        <4>2. depth[c] \notin bad
          BY <2>2, <2>3, <4>1
        <4> QED
          BY <4>1, <4>2
      <3> QED
        BY <3>2, <3>3
    <2>5. PICK n \in Nat : n = Words(s.mem, v)
      BY <2>3, PointerFacts
    <2>6. PICK u \in [0 .. n -> Nat] : Size(s)[v] = n + u[n]
      BY <2>3, <2>4, <2>5, ObjectSums DEF Summed
    <2>7. u[n] \in Nat
      BY <2>5
    <2> QED
      BY <2>3, <2>5, <2>6, <2>7
  <1>3. CASE IsPointer(w)
    <2>1. w \in Pointers(s)
      BY <1>3 DEF Pointers
    <2> QED
      BY <1>2, <2>1
  <1>4. CASE ~IsPointer(w)
    BY <1>4, SizeFacts
  <1> QED
    BY <1>3, <1>4

-----------------------------------------------------------------------------
\* The words from a on, b excluded, are words of the term s, and flat_size makes n of
\* them: acc are the running sums.
Counts(s, m, a, b, n) ==
    \E acc \in [a .. b -> Nat] :
        /\ \A x \in a .. b - 1 : m[x] \in Every(s.mem, s.term) /\ acc[x + 1] = acc[x] + Size(s)[m[x]]
        /\ acc[b] = acc[a] + n

\* Running sums grow.
LEMMA SumsGrow ==
    ASSUME NEW a \in Nat, NEW b \in Nat, a <= b, NEW acc \in [a .. b -> Nat],
           \A x \in a .. b - 1 : acc[x + 1] >= acc[x]
    PROVE  acc[b] >= acc[a]
  <1> DEFINE bad == {k \in a .. b : ~(acc[k] >= acc[a])}
  <1>1. bad = {}
    <2> SUFFICES ASSUME bad # {}
                 PROVE  FALSE
      OBVIOUS
    <2>1. bad \in SUBSET Nat
      OBVIOUS
    <2>2. PICK k \in bad : \A j \in bad : ~(j < k)
      <3> HIDE DEF bad
      <3> QED
        BY <2>1, LeastNat
    <2>3. k \in a .. b /\ k # a
      BY <2>2
    <2>4. k - 1 \in a .. b - 1 /\ k - 1 \in a .. b /\ k - 1 < k /\ (k - 1) + 1 = k
      BY <2>3
    <2>5. acc[k - 1] >= acc[a]
      BY <2>2, <2>4
    <2>6. acc[k] >= acc[k - 1]
      BY <2>4
    <2>7. acc[k] \in Nat /\ acc[k - 1] \in Nat /\ acc[a] \in Nat
      BY <2>3, <2>4
    <2> QED
      BY <2>2, <2>5, <2>6, <2>7
  <1>2. b \in a .. b
    OBVIOUS
  <1> QED
    BY <1>1, <1>2

\* A count is a number, that of no words is 0.
LEMMA CountsNumber ==
    ASSUME NEW s, WellFormed(s), NEW m, NEW a \in Nat, NEW b \in Nat, a <= b, NEW n \in Int,
           Counts(s, m, a, b, n)
    PROVE  n \in Nat /\ (a = b => n = 0)
  <1>1. PICK acc \in [a .. b -> Nat] :
          /\ \A x \in a .. b - 1 : m[x] \in Every(s.mem, s.term) /\ acc[x + 1] = acc[x] + Size(s)[m[x]]
          /\ acc[b] = acc[a] + n
    BY DEF Counts
  <1>2. \A x \in a .. b - 1 : acc[x + 1] >= acc[x]
    <2> SUFFICES ASSUME NEW x \in a .. b - 1
                 PROVE  acc[x + 1] >= acc[x]
      OBVIOUS
    <2>1. Size(s)[m[x]] \in Nat
      BY <1>1, SizesAreNumbers
    <2>2. x \in a .. b
      OBVIOUS
    <2>3. acc[x] \in Nat
      BY <2>2
    <2> QED
      BY <1>1, <2>1, <2>3
  <1>3. acc[b] >= acc[a]
    BY <1>2, SumsGrow
  <1>4. acc[b] \in Nat /\ acc[a] \in Nat
    <2>1. a \in a .. b /\ b \in a .. b
      OBVIOUS
    <2> QED
      BY <2>1
  <1> QED
    BY <1>1, <1>3, <1>4

\* The first word is scanned.
LEMMA CountsDrop ==
    ASSUME NEW s, WellFormed(s), NEW m, NEW a \in Nat, NEW b \in Nat, a < b, NEW n \in Int,
           Counts(s, m, a, b, n)
    PROVE  /\ m[a] \in Every(s.mem, s.term) /\ Size(s)[m[a]] \in Nat
           /\ n - Size(s)[m[a]] \in Nat /\ Counts(s, m, a + 1, b, n - Size(s)[m[a]])
  <1>1. PICK acc \in [a .. b -> Nat] :
          /\ \A x \in a .. b - 1 : m[x] \in Every(s.mem, s.term) /\ acc[x + 1] = acc[x] + Size(s)[m[x]]
          /\ acc[b] = acc[a] + n
    BY DEF Counts
  <1>2. a \in a .. b - 1 /\ a \in a .. b /\ b \in a .. b /\ a + 1 \in a .. b
    OBVIOUS
  <1>3. m[a] \in Every(s.mem, s.term)
    BY <1>1, <1>2
  <1>4. PICK z \in Nat : z = Size(s)[m[a]]
    BY <1>3, SizesAreNumbers
  <1>5. acc[a + 1] = acc[a] + z /\ acc[a] \in Nat /\ acc[b] \in Nat
    BY <1>1, <1>2, <1>4
  <1> DEFINE rest == [x \in a + 1 .. b |-> acc[x]]
  <1>6. rest \in [a + 1 .. b -> Nat]
    OBVIOUS
  <1>7. \A x \in a + 1 .. b - 1 :
          /\ x \in a .. b - 1 /\ rest[x + 1] = acc[x + 1] /\ rest[x] = acc[x]
    OBVIOUS
  <1>8. rest[b] = rest[a + 1] + (n - z)
    <2>1. rest[b] = acc[b] /\ rest[a + 1] = acc[a + 1]
      OBVIOUS
    <2> HIDE DEF rest
    <2> QED
      BY <1>1, <1>5, <2>1
  <1> HIDE DEF rest
  <1>9. Counts(s, m, a + 1, b, n - z)
    BY <1>1, <1>6, <1>7, <1>8 DEF Counts
  <1>10. n - z \in Nat
    BY <1>9, CountsNumber
  <1> QED
    BY <1>3, <1>4, <1>9, <1>10

\* Words that count for nothing are skipped.
LEMMA CountsSkip ==
    ASSUME NEW s, WellFormed(s), NEW m, NEW a \in Nat, NEW b \in Nat, NEW c \in Nat,
           a <= c, c <= b, NEW n \in Int, Counts(s, m, a, b, n),
           \A x \in a .. c - 1 : Size(s)[m[x]] = 0
    PROVE  Counts(s, m, c, b, n)
  <1> DEFINE bad == {x \in a .. c : ~Counts(s, m, x, b, n)}
  <1>1. bad = {}
    <2> SUFFICES ASSUME bad # {}
                 PROVE  FALSE
      OBVIOUS
    <2>1. bad \in SUBSET Nat
      OBVIOUS
    <2>2. PICK k \in bad : \A j \in bad : ~(j < k)
      <3> HIDE DEF bad
      <3> QED
        BY <2>1, LeastNat
    <2>3. k \in a .. c /\ k # a
      BY <2>2
    <2>4. PICK j \in a .. c - 1 : j < k /\ j + 1 = k /\ j \in a .. c /\ j \in Nat /\ j < b
      <3>1. k - 1 \in a .. c - 1 /\ k - 1 < k /\ (k - 1) + 1 = k /\ k - 1 \in a .. c
            /\ k - 1 \in Nat /\ k - 1 < b
        BY <2>3
      <3> QED
        BY <3>1
    <2>5. Counts(s, m, j, b, n)
      BY <2>2, <2>4
    <2>6. Counts(s, m, j + 1, b, n - Size(s)[m[j]])
      BY <2>4, <2>5, CountsDrop
    <2>7. n - Size(s)[m[j]] = n
      BY <2>4
    <2> QED
      BY <2>2, <2>4, <2>6, <2>7
  <1> QED
    BY <1>1

\* Only the words counted matter.
LEMMA CountsSame ==
    ASSUME NEW s, NEW m, NEW k, NEW a \in Nat, NEW b \in Nat, NEW n \in Int,
           Counts(s, m, a, b, n), \A x \in a .. b - 1 : k[x] = m[x]
    PROVE  Counts(s, k, a, b, n)
  BY DEF Counts

\* k has the words of m up to b, and then the len words of the object at w.
Extended(s, m, k, a, b, w, len) ==
    /\ len = Words(s.mem, w)
    /\ \A x \in a .. b - 1 : k[x] = m[x]
    /\ \A i \in 0 .. len - 1 : k[b + i] = s.mem[w.ptr + i]

\* The words of an object are appended: they count for what flat_size makes of a
\* pointer to it, less their number.
LEMMA CountsAppend ==
    ASSUME NEW s, WellFormed(s), NEW m, NEW k, NEW a \in Nat, NEW b \in Nat, a <= b,
           NEW n \in Int, Counts(s, m, a, b, n),
           NEW w \in Pointers(s), NEW len \in Nat, Extended(s, m, k, a, b, w, len)
    PROVE  Size(s)[w] - len \in Nat /\ Counts(s, k, a, b + len, n + (Size(s)[w] - len))
  <1>0. /\ len = Words(s.mem, w) /\ \A x \in a .. b - 1 : k[x] = m[x]
        /\ \A i \in 0 .. len - 1 : k[b + i] = s.mem[w.ptr + i]
    BY DEF Extended
  <1>1. PICK acc \in [a .. b -> Nat] :
          /\ \A x \in a .. b - 1 : m[x] \in Every(s.mem, s.term) /\ acc[x + 1] = acc[x] + Size(s)[m[x]]
          /\ acc[b] = acc[a] + n
    BY DEF Counts
  <1>2. \A i \in 0 .. len - 1 :
          s.mem[w.ptr + i] \in Every(s.mem, s.term) /\ Size(s)[s.mem[w.ptr + i]] \in Nat
    BY <1>0, ObjectWords, SizesAreNumbers
  <1>3. PICK u \in [0 .. len -> Nat] :
          /\ u[0] = 0 /\ \A i \in 0 .. len - 1 : u[i + 1] = u[i] + Size(s)[s.mem[w.ptr + i]]
          /\ Size(s)[w] = len + u[len]
    <2>1. Summed(s, w, len)
      BY <1>0, <1>2, ObjectSums
    <2> QED
      BY <2>1 DEF Summed
  <1>4. PICK z \in Nat : z = u[len] /\ Size(s)[w] - len = z
    <2>1. len \in 0 .. len
      OBVIOUS
    <2>2. u[len] \in Nat
      BY <2>1
    <2> QED
      BY <1>3, <2>2
  <1> DEFINE both == [x \in a .. b + len |-> IF x <= b THEN acc[x] ELSE acc[b] + u[x - b]]
  <1>5. a \in a .. b /\ b \in a .. b /\ a \in a .. b + len /\ b + len \in a .. b + len
    OBVIOUS
  <1>6. acc[b] \in Nat /\ acc[a] \in Nat
    BY <1>5
  <1>7. both \in [a .. b + len -> Nat]
    <2> SUFFICES ASSUME NEW x \in a .. b + len
                 PROVE  (IF x <= b THEN acc[x] ELSE acc[b] + u[x - b]) \in Nat
      OBVIOUS
    <2>1. CASE x <= b
      <3>1. x \in a .. b
        BY <2>1
      <3> QED
        BY <2>1, <3>1
    <2>2. CASE ~(x <= b)
      <3>1. x - b \in 0 .. len
        BY <2>2
      <3>2. u[x - b] \in Nat
        BY <3>1
      <3> QED
        BY <1>6, <2>2, <3>2
    <2> QED
      BY <2>1, <2>2
  <1>8. \A x \in a .. b : both[x] = acc[x]
    OBVIOUS
  <1>9. \A i \in 0 .. len : both[b + i] = acc[b] + u[i]
    <2> SUFFICES ASSUME NEW i \in 0 .. len
                 PROVE  both[b + i] = acc[b] + u[i]
      OBVIOUS
    <2>1. b + i \in a .. b + len /\ (b + i) - b = i
      OBVIOUS
    <2>2. CASE i = 0
      BY <1>3, <1>5, <1>6, <1>8, <2>2
    <2>3. CASE i # 0
      BY <2>1, <2>3
    <2> QED
      BY <2>2, <2>3
  <1>10. both[b + len] = both[a] + (n + z)
    <2>1. both[b + len] = acc[b] + z
      <3>1. len \in 0 .. len
        OBVIOUS
      <3> HIDE DEF both
      <3> QED
        BY <1>4, <1>9, <3>1
    <2>2. both[a] = acc[a]
      BY <1>5, <1>8
    <2> HIDE DEF both
    <2> QED
      BY <1>1, <1>4, <1>6, <2>1, <2>2
  <1> HIDE DEF both
  <1>11. ASSUME NEW x \in a .. (b + len) - 1
         PROVE  k[x] \in Every(s.mem, s.term) /\ both[x + 1] = both[x] + Size(s)[k[x]]
    <2>1. CASE x < b
      <3>1. x \in a .. b - 1 /\ x \in a .. b /\ x + 1 \in a .. b
        BY <2>1
      <3> QED
        BY <1>0, <1>1, <1>8, <3>1
    <2>2. CASE ~(x < b)
      <3>1. PICK i \in 0 .. len - 1 : x = b + i /\ x + 1 = b + (i + 1)
        <4>1. x - b \in 0 .. len - 1 /\ x = b + (x - b) /\ x + 1 = b + ((x - b) + 1)
          BY <2>2
        <4> QED
          BY <4>1
      <3>2. i \in 0 .. len /\ i + 1 \in 0 .. len
        OBVIOUS
      <3>3. both[x] = acc[b] + u[i] /\ both[x + 1] = acc[b] + u[i + 1]
        BY <1>9, <3>1, <3>2
      <3>4. k[x] = s.mem[w.ptr + i]
        BY <1>0, <3>1
      <3>5. u[i] \in Nat /\ Size(s)[k[x]] \in Nat /\ u[i + 1] = u[i] + Size(s)[k[x]]
        BY <1>2, <1>3, <3>2, <3>4
      <3>6. PICK y \in Nat, v \in Nat, e \in Nat :
              y = Size(s)[k[x]] /\ v = u[i] /\ e = acc[b] /\ u[i + 1] = v + y
        BY <1>6, <3>5
      <3>7. both[x + 1] = both[x] + Size(s)[k[x]]
        <4>1. both[x] = e + v /\ both[x + 1] = e + (v + y)
          BY <3>3, <3>6
        <4>2. e + (v + y) = (e + v) + y
          OBVIOUS
        <4> QED
          BY <3>6, <4>1, <4>2
      <3>8. k[x] \in Every(s.mem, s.term)
        BY <1>2, <3>4
      <3> QED
        BY <3>7, <3>8
    <2> QED
      BY <2>1, <2>2
  <1>12. Counts(s, k, a, b + len, n + z)
    BY <1>7, <1>10, <1>11 DEF Counts
  <1> QED
    BY <1>4, <1>12

\* The headers of what the loops skip have their words in the copy, and none of these
\* is a pointer.
Headers(m, a, b) ==
    \A x \in a .. b - 1 :
        m[x].tag = "header" /\ m[x].kind = "data" =>
            /\ m[x].arity \in Nat /\ x + m[x].arity + 1 <= b
            /\ \A i \in 1 .. m[x].arity : ~IsPointer(m[x + i])

\* What the loops have left to scan
Pending(s, m, a, b, n) ==
    a \in Nat /\ b \in Nat /\ a <= b /\ n \in Nat /\ Counts(s, m, a, b, n) /\ Headers(m, a, b)

\* Nothing yet.
LEMMA PendingNone ==
    ASSUME NEW s, NEW m, NEW a \in Nat
    PROVE  Pending(s, m, a, a, 0)
  <1>1. \A x \in a .. a - 1 : FALSE
    OBVIOUS
  <1> DEFINE acc == [x \in a .. a |-> 0]
  <1>2. acc \in [a .. a -> Nat] /\ acc[a] = acc[a] + 0
    OBVIOUS
  <1> HIDE DEF acc
  <1>3. Counts(s, m, a, a, 0)
    BY <1>1, <1>2 DEF Counts
  <1>4. Headers(m, a, a)
    BY <1>1 DEF Headers
  <1> QED
    BY <1>3, <1>4 DEF Pending

\* The headers of an object appended.
LEMMA HeadersAppend ==
    ASSUME NEW s, WellFormed(s), NEW m, NEW k, NEW a \in Nat, NEW b \in Nat, a <= b,
           Headers(m, a, b), NEW w \in Pointers(s), NEW len \in Nat,
           Extended(s, m, k, a, b, w, len)
    PROVE  Headers(k, a, b + len)
  <1> SUFFICES ASSUME NEW x \in a .. (b + len) - 1, k[x].tag = "header", k[x].kind = "data"
               PROVE  /\ k[x].arity \in Nat /\ x + k[x].arity + 1 <= b + len
                      /\ \A i \in 1 .. k[x].arity : ~IsPointer(k[x + i])
    BY DEF Headers
  <1>0. /\ len = Words(s.mem, w) /\ \A j \in a .. b - 1 : k[j] = m[j]
        /\ \A i \in 0 .. len - 1 : k[b + i] = s.mem[w.ptr + i]
    BY DEF Extended
  <1>1. CASE x < b
    <2>1. x \in a .. b - 1 /\ k[x] = m[x]
      BY <1>0, <1>1
    <2>2. PICK r \in Nat : r = m[x].arity /\ x + r + 1 <= b /\ \A i \in 1 .. r : ~IsPointer(m[x + i])
      BY <2>1 DEF Headers
    <2>3. \A i \in 1 .. r : x + i \in a .. b - 1
      BY <2>1, <2>2
    <2>4. \A i \in 1 .. r : k[x + i] = m[x + i]
      BY <1>0, <2>3
    <2> QED
      BY <2>1, <2>2, <2>4
  <1>2. CASE ~(x < b)
    <2>1. PICK i \in 0 .. len - 1 : x = b + i
      <3>1. x - b \in 0 .. len - 1 /\ x = b + (x - b)
        BY <1>2
      <3> QED
        BY <3>1
    <2>2. k[x] = s.mem[w.ptr + i]
      BY <1>0, <2>1
    <2>3. s.mem[w.ptr + i].tag \in IF w.tag = "boxed" /\ i = 0 THEN {"header"}
                                   ELSE IF i \in Fields(s.mem, w) THEN {"imm", "list", "boxed"}
                                   ELSE {"raw"}
      BY <1>0 DEF WellFormed, Whole
    <2>4. i = 0 /\ w.tag = "boxed"
      BY <2>2, <2>3
    <2>5. w \in [tag : {"list", "boxed"}, ptr : 1 .. Cardinality(DOMAIN s.mem)]
      BY PointerFacts
    <2>6. w.tag # "list"
      BY <2>4
    <2>7. k[x] = s.mem[w.ptr] /\ x = b
      BY <2>1, <2>2, <2>4, <2>5
    <2>8. len = k[x].arity + 1
      BY <1>0, <2>6, <2>7 DEF Words
    <2>9. s.mem[w.ptr].arity \in Nat
      BY <2>5, <2>7, PointerFacts DEF WellFormed
    <2>10. PICK r \in Nat : r = k[x].arity /\ len = r + 1
      BY <2>7, <2>8, <2>9
    <2>11. Fields(s.mem, w) = {}
      BY <2>6, <2>7 DEF Fields, BoxedFields
    <2>12. ASSUME NEW j \in 1 .. r
           PROVE  ~IsPointer(k[x + j])
      <3>1. j \in 0 .. len - 1 /\ j \in 0 .. Words(s.mem, w) - 1
        BY <1>0, <2>10
      <3>2. ~IsPointer(s.mem[w.ptr + j])
        BY <2>11, <3>1, ObjectWords
      <3> QED
        BY <1>0, <2>7, <3>1, <3>2
    <2> QED
      BY <2>7, <2>10, <2>12
  <1> QED
    BY <1>1, <1>2

\* An object is appended to what is left to scan.
LEMMA PendingAppend ==
    ASSUME NEW s, WellFormed(s), NEW m, NEW k, NEW a, NEW b, NEW n, Pending(s, m, a, b, n),
           NEW w \in Pointers(s), NEW len \in Nat, Extended(s, m, k, a, b, w, len)
    PROVE  Size(s)[w] - len \in Nat /\ Pending(s, k, a, b + len, n + (Size(s)[w] - len))
  <1>1. /\ a \in Nat /\ b \in Nat /\ a <= b /\ n \in Nat /\ n \in Int
        /\ Counts(s, m, a, b, n) /\ Headers(m, a, b)
    BY DEF Pending
  <1>2. Size(s)[w] - len \in Nat /\ Counts(s, k, a, b + len, n + (Size(s)[w] - len))
    BY <1>1, CountsAppend
  <1>3. Headers(k, a, b + len)
    BY <1>1, HeadersAppend
  <1>4. b + len \in Nat /\ a <= b + len /\ n + (Size(s)[w] - len) \in Nat
    BY <1>1, <1>2
  <1> QED
    BY <1>1, <1>2, <1>3, <1>4 DEF Pending

\* The first word is scanned.
LEMMA PendingDrop ==
    ASSUME NEW s, WellFormed(s), NEW m, NEW k, NEW a, NEW b, NEW n, Pending(s, m, a, b, n),
           a < b, \A x \in a + 1 .. b - 1 : k[x] = m[x]
    PROVE  /\ m[a] \in Every(s.mem, s.term) /\ Size(s)[m[a]] \in Nat
           /\ Pending(s, k, a + 1, b, n - Size(s)[m[a]])
  <1>1. /\ a \in Nat /\ b \in Nat /\ a <= b /\ n \in Nat /\ n \in Int
        /\ Counts(s, m, a, b, n) /\ Headers(m, a, b)
    BY DEF Pending
  <1>2. /\ m[a] \in Every(s.mem, s.term) /\ Size(s)[m[a]] \in Nat
        /\ n - Size(s)[m[a]] \in Nat /\ Counts(s, m, a + 1, b, n - Size(s)[m[a]])
    BY <1>1, CountsDrop
  <1>3. a + 1 \in Nat /\ a + 1 <= b
    BY <1>1
  <1>4. PICK left \in Nat : left = n - Size(s)[m[a]]
    BY <1>2
  <1>5. Counts(s, k, a + 1, b, left)
    BY <1>1, <1>2, <1>3, <1>4, CountsSame
  <1>6. Headers(k, a + 1, b)
    <2> SUFFICES ASSUME NEW x \in a + 1 .. b - 1, k[x].tag = "header", k[x].kind = "data"
                 PROVE  /\ k[x].arity \in Nat /\ x + k[x].arity + 1 <= b
                        /\ \A i \in 1 .. k[x].arity : ~IsPointer(k[x + i])
      BY DEF Headers
    <2>1. x \in a .. b - 1 /\ k[x] = m[x]
      BY <1>1
    <2>2. PICK r \in Nat : r = m[x].arity /\ x + r + 1 <= b /\ \A i \in 1 .. r : ~IsPointer(m[x + i])
      BY <1>1, <2>1 DEF Headers
    <2>3. \A i \in 1 .. r : x + i \in a + 1 .. b - 1
      BY <1>1, <2>1, <2>2
    <2>4. \A i \in 1 .. r : k[x + i] = m[x + i]
      BY <2>3
    <2> QED
      BY <2>1, <2>2, <2>4
  <1> QED
    BY <1>2, <1>3, <1>1, <1>4, <1>5, <1>6 DEF Pending

\* What is no pointer counts for nothing.
LEMMA PendingStep ==
    ASSUME NEW s, WellFormed(s), NEW m, NEW a, NEW b, NEW n, Pending(s, m, a, b, n),
           a < b, ~IsPointer(m[a])
    PROVE  Pending(s, m, a + 1, b, n)
  <1>1. m[a] \in Every(s.mem, s.term) /\ Pending(s, m, a + 1, b, n - Size(s)[m[a]])
    BY PendingDrop
  <1>2. Size(s)[m[a]] = 0
    BY <1>1, SizeFacts
  <1>3. n \in Nat
    BY DEF Pending
  <1>4. n - Size(s)[m[a]] = n
    BY <1>2, <1>3
  <1> QED
    BY <1>1, <1>4

\* Nor do the words behind the header of what holds no term.
LEMMA PendingSkip ==
    ASSUME NEW s, WellFormed(s), NEW m, NEW a, NEW b, NEW n, Pending(s, m, a, b, n),
           a < b, m[a].tag = "header", m[a].kind = "data"
    PROVE  m[a].arity \in Nat /\ Pending(s, m, a + (m[a].arity + 1), b, n)
  <1>1. /\ a \in Nat /\ b \in Nat /\ a <= b /\ n \in Nat /\ n \in Int
        /\ Counts(s, m, a, b, n) /\ Headers(m, a, b)
    BY DEF Pending
  <1>2. a \in a .. b - 1
    BY <1>1
  <1>3. PICK r \in Nat : r = m[a].arity /\ a + r + 1 <= b /\ \A i \in 1 .. r : ~IsPointer(m[a + i])
    BY <1>1, <1>2 DEF Headers
  <1>4. PICK c \in Nat : c = a + (r + 1) /\ a <= c /\ c <= b
    <2>1. a + (r + 1) \in Nat /\ a <= a + (r + 1) /\ a + (r + 1) <= b
      BY <1>1, <1>3
    <2> QED
      BY <2>1
  <1>5. ASSUME NEW x \in a .. c - 1
        PROVE  Size(s)[m[x]] = 0
    <2>1. x \in a .. b - 1
      BY <1>1, <1>4
    <2>2. m[x] \in Every(s.mem, s.term)
      BY <1>1, <2>1 DEF Counts
    <2>3. ~IsPointer(m[x])
      <3>1. CASE x = a
        BY <3>1 DEF IsPointer
      <3>2. CASE x # a
        <4>1. x - a \in 1 .. r /\ a + (x - a) = x
          BY <1>1, <1>3, <1>4, <3>2
        <4>2. ~IsPointer(m[a + (x - a)])
          BY <1>3, <4>1
        <4> QED
          BY <4>1, <4>2
      <3> QED
        BY <3>1, <3>2
    <2> QED
      BY <2>2, <2>3, SizeFacts
  <1>6. Counts(s, m, c, b, n)
    BY <1>1, <1>4, <1>5, CountsSkip
  <1>7. Headers(m, c, b)
    <2>1. c .. b - 1 \subseteq a .. b - 1
      BY <1>1, <1>4
    <2> QED
      BY <1>1, <2>1 DEF Headers
  <1> QED
    BY <1>1, <1>3, <1>4, <1>6, <1>7 DEF Pending

\* A pointer is scanned and its object appended: what is left is less by the number of
\* words appended.
LEMMA PendingPointer ==
    ASSUME NEW s, WellFormed(s), NEW m, NEW k, NEW a, NEW b, NEW n, Pending(s, m, a, b, n),
           a < b, IsPointer(m[a]), NEW len \in Nat, Extended(s, m, k, a + 1, b, m[a], len)
    PROVE  n - len \in Nat /\ Pending(s, k, a + 1, b + len, n - len)
  <1> DEFINE w == m[a]
  <1>1. /\ w \in Every(s.mem, s.term) /\ Size(s)[w] \in Nat
        /\ Pending(s, m, a + 1, b, n - Size(s)[w])
    BY PendingDrop
  <1>2. w \in Pointers(s)
    BY <1>1 DEF Pointers
  <1> HIDE DEF w
  <1>3. Extended(s, m, k, a + 1, b, w, len)
    BY DEF w
  <1>4. PICK left \in Nat : left = n - Size(s)[w]
    BY <1>1 DEF Pending
  <1>5. Pending(s, m, a + 1, b, left)
    BY <1>1, <1>4
  <1>6. /\ Size(s)[w] - len \in Nat
        /\ Pending(s, k, a + 1, b + len, left + (Size(s)[w] - len))
    BY <1>2, <1>3, <1>5, PendingAppend
  <1>7. n \in Nat
    BY DEF Pending
  <1>8. left + (Size(s)[w] - len) = n - len /\ n - len \in Nat
    BY <1>1, <1>4, <1>6, <1>7
  <1> QED
    BY <1>6, <1>8

\* The object the term points to is what is left in the beginning.
LEMMA PendingFirst ==
    ASSUME NEW s, WellFormed(s), NEW k, NEW b \in Nat, NEW w \in Pointers(s), NEW len \in Nat,
           Extended(s, k, k, b, b, w, len)
    PROVE  Size(s)[w] - len \in Nat /\ Pending(s, k, b, b + len, Size(s)[w] - len)
  <1>1. Pending(s, k, b, b, 0)
    BY PendingNone
  <1>2. Size(s)[w] - len \in Nat /\ Pending(s, k, b, b + len, 0 + (Size(s)[w] - len))
    BY <1>1, PendingAppend
  <1>3. 0 + (Size(s)[w] - len) = Size(s)[w] - len
    BY <1>2
  <1> QED
    BY <1>2, <1>3

\* A pointer counts for its object at least, so that there is room for it.
LEMMA RoomForObject ==
    ASSUME NEW s, WellFormed(s), NEW w \in Pointers(s), NEW len \in Nat, len = Words(s.mem, w)
    PROVE  Size(s)[w] - len \in Nat
  <1>1. \A i \in 0 .. len - 1 : Size(s)[s.mem[w.ptr + i]] \in Nat
    BY ObjectWords, SizesAreNumbers
  <1>2. Summed(s, w, len)
    BY <1>1, ObjectSums
  <1>3. PICK u \in [0 .. len -> Nat] : Size(s)[w] = len + u[len]
    BY <1>2 DEF Summed
  <1>4. u[len] \in Nat
    <2>1. len \in 0 .. len
      OBVIOUS
    <2> QED
      BY <2>1
  <1> QED
    BY <1>3, <1>4

LEMMA RoomToAppend ==
    ASSUME NEW s, WellFormed(s), NEW m, NEW a, NEW b, NEW n, Pending(s, m, a, b, n),
           a < b, IsPointer(m[a])
    PROVE  m[a] \in Pointers(s) /\ \A len \in Nat : len = Words(s.mem, m[a]) => len <= n
  <1>1. m[a] \in Every(s.mem, s.term) /\ Size(s)[m[a]] \in Nat /\ n - Size(s)[m[a]] \in Nat
    BY PendingDrop DEF Pending
  <1>2. m[a] \in Pointers(s)
    BY <1>1 DEF Pointers
  <1>3. n \in Nat
    BY DEF Pending
  <1>4. ASSUME NEW len \in Nat, len = Words(s.mem, m[a])
        PROVE  len <= n
    <2>1. Size(s)[m[a]] - len \in Nat
      BY <1>2, <1>4, RoomForObject
    <2> QED
      BY <1>1, <1>3, <2>1
  <1> QED
    BY <1>2, <1>4

-----------------------------------------------------------------------------
\* The pointer v, to an object at q
Moved(v, q) == [v EXCEPT !.ptr = q]

\* A copy of the object at v lies at q, in the words from t on, e excluded: org tells of
\* every word of the copy which one of the source it was made of.
CopyAt(s, org, v, q, t, e) ==
    \A i \in 0 .. Words(s.mem, v) - 1 : q + i \in t .. e - 1 /\ org[q + i] = v.ptr + i

\* x is what the scan makes of v.
Image(s, org, x, v, t, e) ==
    IF IsPointer(v) THEN \E q \in Nat : x = Moved(v, q) /\ CopyAt(s, org, v, q, t, e) ELSE x = v

\* The words of the copy up to f are scanned, the others are those of the source; the
\* first is the term's object, and the objects of ws are forwarded to their copies.
Traced(s, m, org, t, f, e, ws) ==
    /\ \A x \in t .. e - 1 : org[x] \in 1 .. t - 1
    /\ \A x \in t .. f - 1 : Image(s, org, m[x], s.mem[org[x]], t, e)
    /\ \A x \in f .. e - 1 : m[x] = s.mem[org[x]]
    /\ CopyAt(s, org, s.term, t, t, e)
    /\ \A v \in ws : Image(s, org, m[v.ptr], v, t, e)

Tracks(s, m, t, f, e, ws) == \E org : Traced(s, m, org, t, f, e, ws)

\* A pointer keeps its tag.
LEMMA MovedFacts ==
    ASSUME NEW s, WellFormed(s), NEW v \in Pointers(s), NEW q
    PROVE  /\ Moved(v, q).tag = v.tag /\ Moved(v, q).ptr = q /\ IsPointer(Moved(v, q))
           /\ v = [tag |-> v.tag, ptr |-> v.ptr]
  <1>1. v \in [tag : {"list", "boxed"}, ptr : 1 .. Cardinality(DOMAIN s.mem)]
    BY PointerFacts
  <1>2. Moved(v, q).tag = v.tag /\ Moved(v, q).ptr = q
    BY <1>1 DEF Moved
  <1> QED
    BY <1>1, <1>2 DEF IsPointer

\* The words from a on, c excluded, are no pointers and stay.
LEMMA TracksSkip ==
    ASSUME NEW s, NEW m, NEW t \in Nat, NEW a \in Nat, NEW b \in Nat, NEW c \in Nat, NEW ws,
           Tracks(s, m, t, a, b, ws), t <= a, a <= c, c <= b,
           \A x \in a .. c - 1 : ~IsPointer(m[x])
    PROVE  Tracks(s, m, t, c, b, ws)
  <1>1. PICK org : Traced(s, m, org, t, a, b, ws)
    BY DEF Tracks
  <1>2. ASSUME NEW x \in t .. c - 1
        PROVE  Image(s, org, m[x], s.mem[org[x]], t, b)
    <2>1. CASE x < a
      <3>1. x \in t .. a - 1
        BY <2>1
      <3> QED
        BY <1>1, <3>1 DEF Traced
    <2>2. CASE ~(x < a)
      <3>1. x \in a .. c - 1 /\ x \in a .. b - 1
        BY <2>2
      <3> QED
        BY <1>1, <3>1 DEF Traced, Image
    <2> QED
      BY <2>1, <2>2
  <1>3. \A x \in c .. b - 1 : x \in a .. b - 1
    OBVIOUS
  <1>4. Traced(s, m, org, t, c, b, ws)
    BY <1>1, <1>2, <1>3 DEF Traced
  <1> QED
    BY <1>4 DEF Tracks

\* A pointer to a forwarded object is replaced.
LEMMA TracksForwarded ==
    ASSUME NEW s, NEW m, NEW k, NEW t \in Nat, NEW a \in Nat, NEW b \in Nat, NEW ws,
           Tracks(s, m, t, a, b, ws), t <= a, a < b, m[a] \in ws, k[a] = m[m[a].ptr],
           \A x \in t .. b - 1 : x # a => k[x] = m[x], \A v \in ws : k[v.ptr] = m[v.ptr]
    PROVE  Tracks(s, k, t, a + 1, b, ws)
  <1>1. PICK org : Traced(s, m, org, t, a, b, ws)
    BY DEF Tracks
  <1>2. ASSUME NEW x \in t .. (a + 1) - 1
        PROVE  Image(s, org, k[x], s.mem[org[x]], t, b)
    <2>1. CASE x # a
      <3>1. x \in t .. a - 1 /\ x \in t .. b - 1
        BY <2>1
      <3>2. Image(s, org, m[x], s.mem[org[x]], t, b) /\ k[x] = m[x]
        BY <1>1, <2>1, <3>1 DEF Traced
      <3> QED
        BY <3>2
    <2>2. CASE x = a
      <3>1. m[a] = s.mem[org[a]]
        BY <1>1 DEF Traced
      <3>2. Image(s, org, m[m[a].ptr], m[a], t, b)
        BY <1>1 DEF Traced
      <3> QED
        BY <2>2, <3>1, <3>2
    <2> QED
      BY <2>1, <2>2
  <1>3. \A x \in a + 1 .. b - 1 : x \in a .. b - 1 /\ x \in t .. b - 1 /\ x # a
    OBVIOUS
  <1>4. \A x \in a + 1 .. b - 1 : k[x] = s.mem[org[x]]
    BY <1>1, <1>3 DEF Traced
  <1>5. \A v \in ws : Image(s, org, k[v.ptr], v, t, b)
    BY <1>1 DEF Traced
  <1>6. Traced(s, k, org, t, a + 1, b, ws)
    BY <1>1, <1>2, <1>4, <1>5 DEF Traced
  <1> QED
    BY <1>6 DEF Tracks

\* The words of the copy stay.
LEMMA TracksSame ==
    ASSUME NEW s, NEW m, NEW k, NEW t \in Nat, NEW a \in Nat, NEW b \in Nat, NEW ws,
           Tracks(s, m, t, a, b, ws), t <= a, a <= b, \A x \in t .. b - 1 : k[x] = m[x]
    PROVE  Tracks(s, k, t, a, b, {})
  <1>1. PICK org : Traced(s, m, org, t, a, b, ws)
    BY DEF Tracks
  <1>2. /\ \A x \in t .. a - 1 : x \in t .. b - 1
        /\ \A x \in a .. b - 1 : x \in t .. b - 1
    OBVIOUS
  <1>3. Traced(s, k, org, t, a, b, {})
    BY <1>1, <1>2 DEF Traced
  <1> QED
    BY <1>3 DEF Tracks

\* What is a copy remains one when more is appended.
LEMMA ImageGrows ==
    ASSUME NEW s, NEW org, NEW more, NEW x, NEW v, NEW t \in Nat, NEW e \in Nat, NEW f \in Nat,
           e <= f, \A y \in t .. e - 1 : more[y] = org[y], Image(s, org, x, v, t, e)
    PROVE  Image(s, more, x, v, t, f)
  <1>1. \A y \in t .. e - 1 : y \in t .. f - 1
    OBVIOUS
  <1>2. ASSUME NEW u, NEW q, CopyAt(s, org, u, q, t, e)
        PROVE  CopyAt(s, more, u, q, t, f)
    BY <1>1, <1>2 DEF CopyAt
  <1> QED
    BY <1>2 DEF Image

\* The objects of all are those of ws, and w's, forwarded to b.
Forwards(m, k, ws, w, b, all) ==
    \A v \in all : \/ v \in ws /\ k[v.ptr] = m[v.ptr]
                   \/ v = w /\ k[v.ptr] = Moved(w, b)

\* k has the words of m from a on, b excluded.
Kept(m, k, a, b) == \A x \in a .. b - 1 : k[x] = m[x]

\* The object of the pointer at a is appended, and the pointer moved to it.
LEMMA TracksAppend ==
    ASSUME NEW s, WellFormed(s), NEW m, NEW k, NEW t, NEW a \in Nat, NEW b \in Nat,
           NEW ws, NEW all, Tracks(s, m, t, a, b, ws), t <= a, a < b,
           NEW w \in Pointers(s), m[a] = w, NEW len \in Nat, Extended(s, m, k, a + 1, b, w, len),
           t = Cardinality(DOMAIN s.mem) + 1, Kept(m, k, t, a), k[a] = Moved(w, b),
           Forwards(m, k, ws, w, b, all)
    PROVE  Tracks(s, k, t, a + 1, b + len, all)
  <1>1. PICK org : Traced(s, m, org, t, a, b, ws)
    BY DEF Tracks
  <1>2. /\ len = Words(s.mem, w) /\ \A x \in a + 1 .. b - 1 : k[x] = m[x]
        /\ \A i \in 0 .. len - 1 : k[b + i] = s.mem[w.ptr + i]
    BY DEF Extended
  <1>3. PICK p \in Nat : p = w.ptr /\ p >= 1 /\ p + len <= t /\ t \in Nat
    <2>1. PICK last \in Nat : /\ t = last + 1 /\ w \in [tag : {"list", "boxed"}, ptr : 1 .. last]
                             /\ w.ptr + Words(s.mem, w) - 1 <= last
      BY PointerFacts
    <2>2. PICK p \in 1 .. last : p = w.ptr /\ p + len - 1 <= last
      BY <1>2, <2>1
    <2>3. p \in Nat /\ p >= 1 /\ p + len <= t /\ t \in Nat
      BY <2>1, <2>2
    <2> QED
      BY <2>2, <2>3
  <1> DEFINE more == [x \in t .. (b + len) - 1 |-> IF x < b THEN org[x] ELSE p + (x - b)]
  <1>4. /\ \A x \in t .. b - 1 : more[x] = org[x]
        /\ \A i \in 0 .. len - 1 : more[b + i] = p + i
    <2>1. ASSUME NEW x \in t .. b - 1
          PROVE  more[x] = org[x]
      <3>1. x \in t .. (b + len) - 1 /\ x < b
        BY <1>3
      <3> QED
        BY <3>1
    <2>2. ASSUME NEW i \in 0 .. len - 1
          PROVE  more[b + i] = p + i
      <3>1. b + i \in t .. (b + len) - 1 /\ ~(b + i < b) /\ (b + i) - b = i
        BY <1>3
      <3> QED
        BY <3>1
    <2> QED
      BY <2>1, <2>2
  <1> HIDE DEF more
  <1>5. ASSUME NEW x \in t .. (b + len) - 1
        PROVE  x \in t .. b - 1 \/ \E i \in 0 .. len - 1 : x = b + i
    <2>1. CASE x < b
      BY <1>3, <2>1
    <2>2. CASE ~(x < b)
      <3>1. x - b \in 0 .. len - 1 /\ x = b + (x - b)
        BY <1>3, <2>2
      <3> QED
        BY <3>1
    <2> QED
      BY <2>1, <2>2
  <1>6. ASSUME NEW x \in t .. (b + len) - 1
        PROVE  more[x] \in 1 .. t - 1
    <2>1. CASE x \in t .. b - 1
      BY <1>1, <1>4, <2>1 DEF Traced
    <2>2. CASE \E i \in 0 .. len - 1 : x = b + i
      BY <1>3, <1>4, <2>2
    <2> QED
      BY <1>5, <2>1, <2>2
  <1>7. ASSUME NEW x, NEW v, Image(s, org, x, v, t, b)
        PROVE  Image(s, more, x, v, t, b + len)
    <2>1. b + len \in Nat /\ b <= b + len
      OBVIOUS
    <2> QED
      BY <1>3, <1>4, <1>7, <2>1, ImageGrows
  <1>8. Image(s, more, Moved(w, b), w, t, b + len)
    <2>1. ASSUME NEW i \in 0 .. len - 1
          PROVE  b + i \in t .. (b + len) - 1 /\ more[b + i] = w.ptr + i
      BY <1>3, <1>4
    <2>2. CopyAt(s, more, w, b, t, b + len)
      BY <1>2, <2>1 DEF CopyAt
    <2> QED
      BY <2>2 DEF Image, Pointers
  <1>9. ASSUME NEW x \in t .. (a + 1) - 1
        PROVE  Image(s, more, k[x], s.mem[more[x]], t, b + len)
    <2>1. x \in t .. b - 1 /\ more[x] = org[x]
      BY <1>3, <1>4
    <2>2. CASE x = a
      <3>1. s.mem[org[a]] = w
        BY <1>1, <1>3 DEF Traced
      <3> QED
        BY <1>8, <2>1, <2>2, <3>1
    <2>3. CASE x # a
      <3>1. x \in t .. a - 1
        BY <1>3, <2>3
      <3>2. k[x] = m[x] /\ Image(s, org, m[x], s.mem[org[x]], t, b)
        BY <1>1, <3>1 DEF Kept, Traced
      <3> QED
        BY <1>7, <2>1, <3>2
    <2> QED
      BY <2>2, <2>3
  <1>10. ASSUME NEW x \in a + 1 .. (b + len) - 1
         PROVE  k[x] = s.mem[more[x]]
    <2>1. x \in t .. (b + len) - 1
      BY <1>3
    <2>2. CASE x \in t .. b - 1
      <3>1. x \in a + 1 .. b - 1 /\ x \in a .. b - 1
        BY <1>3, <2>2
      <3> QED
        BY <1>1, <1>2, <1>4, <2>2, <3>1 DEF Traced
    <2>3. CASE \E i \in 0 .. len - 1 : x = b + i
      BY <1>2, <1>3, <1>4, <2>3
    <2> QED
      BY <1>5, <2>1, <2>2, <2>3
  <1>11. CopyAt(s, more, s.term, t, t, b + len)
    <2>1. \A y \in t .. b - 1 : y \in t .. (b + len) - 1 /\ more[y] = org[y]
      BY <1>3, <1>4
    <2> QED
      BY <1>1, <2>1 DEF Traced, CopyAt
  <1>12. ASSUME NEW v \in all
         PROVE  Image(s, more, k[v.ptr], v, t, b + len)
    <2>1. CASE v \in ws /\ k[v.ptr] = m[v.ptr]
      BY <1>1, <1>7, <2>1 DEF Traced
    <2>2. CASE v = w /\ k[v.ptr] = Moved(w, b)
      BY <1>8, <2>2
    <2> QED
      BY <2>1, <2>2 DEF Forwards
  <1>13. Traced(s, k, more, t, a + 1, b + len, all)
    BY <1>6, <1>9, <1>10, <1>11, <1>12 DEF Traced
  <1> QED
    BY <1>13 DEF Tracks

\* The term's object comes first.
LEMMA TracksFirst ==
    ASSUME NEW s, WellFormed(s), NEW k, NEW t, NEW all, NEW w \in Pointers(s), w = s.term,
           NEW len \in Nat, Extended(s, k, k, t, t, w, len),
           t = Cardinality(DOMAIN s.mem) + 1, Forwards(k, k, {}, w, t, all)
    PROVE  Tracks(s, k, t, t, t + len, all)
  <1>1. len = Words(s.mem, w) /\ \A i \in 0 .. len - 1 : k[t + i] = s.mem[w.ptr + i]
    BY DEF Extended
  <1>2. PICK p \in Nat : p = w.ptr /\ p >= 1 /\ p + len <= t /\ t \in Nat
    <2>1. PICK last \in Nat : /\ t = last + 1 /\ w \in [tag : {"list", "boxed"}, ptr : 1 .. last]
                             /\ w.ptr + Words(s.mem, w) - 1 <= last
      BY PointerFacts
    <2>2. PICK p \in 1 .. last : p = w.ptr /\ p + len - 1 <= last
      BY <1>1, <2>1
    <2>3. p \in Nat /\ p >= 1 /\ p + len <= t /\ t \in Nat
      BY <2>1, <2>2
    <2> QED
      BY <2>2, <2>3
  <1> DEFINE org == [x \in t .. (t + len) - 1 |-> p + (x - t)]
  <1>3. \A i \in 0 .. len - 1 : t + i \in t .. (t + len) - 1 /\ org[t + i] = p + i
    <2> SUFFICES ASSUME NEW i \in 0 .. len - 1
                 PROVE  t + i \in t .. (t + len) - 1 /\ org[t + i] = p + i
      OBVIOUS
    <2>1. t + i \in t .. (t + len) - 1 /\ (t + i) - t = i
      BY <1>2
    <2> QED
      BY <2>1
  <1> HIDE DEF org
  <1>4. ASSUME NEW x \in t .. (t + len) - 1
        PROVE  \E i \in 0 .. len - 1 : x = t + i
    <2>1. x - t \in 0 .. len - 1 /\ x = t + (x - t)
      BY <1>2
    <2> QED
      BY <2>1
  <1>5. ASSUME NEW x \in t .. (t + len) - 1
        PROVE  org[x] \in 1 .. t - 1 /\ k[x] = s.mem[org[x]]
    <2>1. PICK i \in 0 .. len - 1 : x = t + i
      BY <1>4
    <2>2. org[x] = p + i /\ k[x] = s.mem[p + i]
      BY <1>1, <1>2, <1>3, <2>1
    <2>3. p + i \in 1 .. t - 1
      BY <1>2
    <2> QED
      BY <2>2, <2>3
  <1>6. CopyAt(s, org, w, t, t, t + len)
    BY <1>1, <1>2, <1>3 DEF CopyAt
  <1>7. ASSUME NEW v \in all
        PROVE  Image(s, org, k[v.ptr], v, t, t + len)
    <2>1. v = w /\ k[v.ptr] = Moved(w, t)
      BY DEF Forwards
    <2> QED
      BY <1>2, <1>6, <2>1 DEF Image, Pointers
  <1>8. \A x \in t .. t - 1 : FALSE
    BY <1>2
  <1>9. Traced(s, k, org, t, t, t + len, all)
    BY <1>5, <1>6, <1>7, <1>8 DEF Traced
  <1> QED
    BY <1>9 DEF Tracks

\* The memory AppendObject makes of m: v is the pointer the loop has scanned at a
Write(m, b, len, q, st, a, v) ==
    [x \in DOMAIN m |-> IF x \in b .. b + len - 1 THEN m[q + x - b]
                        ELSE IF st = "scan" /\ x = a THEN v ELSE m[x]]

Written(m, k, b, len, e, q, st, a, v) ==
    /\ DOMAIN k = 1 .. e - 1
    /\ \A i \in 0 .. len - 1 : k[b + i] = m[q + i]
    /\ \A x \in 1 .. b - 1 : (st = "scan" => x # a) => k[x] = m[x]
    /\ st = "scan" /\ a \in 1 .. b - 1 => k[a] = v

\* What the words of the memory are when an object is appended.
LEMMA WordsWritten ==
    ASSUME NEW m, NEW b \in Nat, b >= 1, NEW len \in Nat, NEW e \in Nat, b + len <= e,
           DOMAIN m = 1 .. e - 1, NEW q \in Nat, NEW st, NEW a, NEW v
    PROVE  Written(m, Write(m, b, len, q, st, a, v), b, len, e, q, st, a, v)
  <1> DEFINE k == Write(m, b, len, q, st, a, v)
  <1>1. ASSUME NEW i \in 0 .. len - 1
        PROVE  k[b + i] = m[q + i]
    <2>1. b + i \in 1 .. e - 1 /\ b + i \in b .. b + len - 1 /\ q + (b + i) - b = q + i
      OBVIOUS
    <2> QED
      BY <2>1 DEF Write
  <1>2. ASSUME NEW x \in 1 .. b - 1, st = "scan" => x # a
        PROVE  k[x] = m[x]
    <2>1. x \in 1 .. e - 1 /\ x \notin b .. b + len - 1
      OBVIOUS
    <2> QED
      BY <1>2, <2>1 DEF Write
  <1>3. DOMAIN k = 1 .. e - 1
    BY DEF Write
  <1>4. ASSUME st = "scan", a \in 1 .. b - 1
        PROVE  k[a] = v
    <2>1. a \in 1 .. e - 1 /\ a \notin b .. b + len - 1
      BY <1>4
    <2> QED
      BY <1>4, <2>1 DEF Write
  <1> QED
    BY <1>1, <1>2, <1>3, <1>4 DEF Written

\* The object at w lies at p below t and is len words long, and m has it.
Placed(s, w, m, t, len, p) ==
    /\ p = w.ptr /\ len = Words(m, w) /\ len = Words(s.mem, w)
    /\ len >= 1 /\ p >= 1 /\ p + len <= t
    /\ \A i \in 0 .. len - 1 : m[p + i] = s.mem[w.ptr + i]

\* The source lies before t, and m has it.
HasSource(s, m, t) ==
    t = Cardinality(DOMAIN s.mem) + 1 /\ \A a \in 1 .. t - 1 : m[a] = s.mem[a]

\* An object of the source lies below the copy, in every memory that has the source.
LEMMA ObjectPlace ==
    ASSUME NEW s, WellFormed(s), NEW w \in Pointers(s), NEW t, NEW m, HasSource(s, m, t)
    PROVE  \E len \in Nat, p \in Nat : Placed(s, w, m, t, len, p)
  <1>1. PICK last \in Nat : /\ last = Cardinality(DOMAIN s.mem) /\ t = last + 1
                           /\ w \in [tag : {"list", "boxed"}, ptr : 1 .. last]
                           /\ Words(s.mem, w) \in Nat \ {0}
                           /\ w.ptr + Words(s.mem, w) - 1 <= last
    BY PointerFacts DEF HasSource
  <1>2. PICK p \in 1 .. last, len \in Nat \ {0} :
          p = w.ptr /\ len = Words(s.mem, w) /\ p + len - 1 <= last
    BY <1>1
  <1>3. p \in 1 .. t - 1 /\ m[p] = s.mem[p]
    BY <1>1, <1>2 DEF HasSource
  <1>4. len = Words(m, w)
    BY <1>2, <1>3 DEF Words
  <1>5. \A i \in 0 .. len - 1 : p + i \in 1 .. t - 1
    BY <1>1, <1>2
  <1>6. \A i \in 0 .. len - 1 : m[p + i] = s.mem[w.ptr + i]
    BY <1>2, <1>5 DEF HasSource
  <1>7. len >= 1 /\ p >= 1 /\ p + len <= t /\ p \in Nat /\ len \in Nat
    BY <1>1, <1>2
  <1> QED
    BY <1>2, <1>4, <1>6, <1>7 DEF Placed

\* The term is a pointer where flat_size does not answer 0.
LEMMA TermIsPointer ==
    ASSUME NEW s, WellFormed(s)
    PROVE  /\ FlatSize(s.mem, s.term) = Size(s)[s.term] /\ FlatSize(s.mem, s.term) \in Nat
           /\ FlatSize(s.mem, s.term) > 0 => s.term \in Pointers(s)
  <1>1. s.term \in Every(s.mem, s.term)
    BY DEF Every
  <1>2. FlatSize(s.mem, s.term) = Size(s)[s.term]
    BY DEF FlatSize, Size
  <1>3. Size(s)[s.term] \in Nat
    BY <1>1, SizesAreNumbers
  <1>4. ~IsPointer(s.term) => Size(s)[s.term] = 0
    BY <1>1, SizeFacts
  <1> QED
    BY <1>1, <1>2, <1>3, <1>4 DEF Pointers
-----------------------------------------------------------------------------
\* The copy s.term has in the memory m, from t on, e excluded
CopyOf(s, m, t, e) ==
    /\ t = Cardinality(DOMAIN s.mem) + 1 /\ s.term \in Pointers(s)
    /\ HasSource(s, m, t) /\ Tracks(s, m, t, e, e, {})
    /\ \E d \in Nat : /\ DOMAIN m = 1 .. d - 1 /\ t <= e /\ e <= d
                      /\ \A x \in e .. d - 1 : ~IsPointer(m[x])

\* The object at v has its fields at q in the copy too.
SameFields(s, m, org, v, q, t, e) ==
    LET w == Moved(v, q)
    IN /\ Words(m, w) = Words(s.mem, v) /\ Fields(m, w) = Fields(s.mem, v)
       /\ \A i \in 0 .. Words(s.mem, v) - 1 :
            /\ q + i \in t .. e - 1 /\ org[q + i] = v.ptr + i
            /\ Image(s, org, m[q + i], s.mem[v.ptr + i], t, e)

\* It has where it was copied to.
LEMMA CopyFields ==
    ASSUME NEW s, WellFormed(s), NEW m, NEW org, NEW t \in Nat, NEW e \in Nat,
           Traced(s, m, org, t, e, e, {}), NEW v \in Pointers(s), NEW q \in Nat,
           CopyAt(s, org, v, q, t, e)
    PROVE  SameFields(s, m, org, v, q, t, e)
  <1> DEFINE w == Moved(v, q)
  <1>1. w.tag = v.tag /\ w.ptr = q
    BY MovedFacts
  <1> HIDE DEF w
  <1>2. ASSUME NEW i \in 0 .. Words(s.mem, v) - 1
        PROVE  /\ q + i \in t .. e - 1 /\ org[q + i] = v.ptr + i
               /\ Image(s, org, m[q + i], s.mem[v.ptr + i], t, e)
    BY DEF CopyAt, Traced
  <1>3. /\ v \in [tag : {"list", "boxed"}, ptr : 1 .. Cardinality(DOMAIN s.mem)]
        /\ v.ptr + 0 = v.ptr /\ q + 0 = q /\ 0 \in 0 .. Words(s.mem, v) - 1
    <2>1. PICK last \in Nat, len \in Nat \ {0} :
            v \in [tag : {"list", "boxed"}, ptr : 1 .. last] /\ last = Cardinality(DOMAIN s.mem)
            /\ len = Words(s.mem, v)
      BY PointerFacts
    <2>2. v.ptr \in 1 .. last
      BY <2>1
    <2> QED
      BY <2>1, <2>2
  <1>4. v.tag = "boxed" => m[w.ptr] = s.mem[v.ptr]
    <2>1. ASSUME v.tag = "boxed"
          PROVE  ~IsPointer(s.mem[v.ptr + 0])
      <3>1. s.mem[v.ptr + 0].tag \in {"header"}
        BY <1>3, <2>1 DEF WellFormed, Whole
      <3> QED
        BY <3>1 DEF IsPointer
    <2>2. Image(s, org, m[q + 0], s.mem[v.ptr + 0], t, e)
      BY <1>2, <1>3
    <2> QED
      BY <1>1, <1>3, <2>1, <2>2 DEF Image
  <1>5. Words(m, w) = Words(s.mem, v)
    BY <1>1, <1>3, <1>4 DEF Words
  <1>6. Fields(m, w) = Fields(s.mem, v)
    <2>1. CASE v.tag = "list"
      BY <1>1, <2>1 DEF Fields
    <2>2. CASE v.tag = "boxed"
      BY <1>1, <1>4, <2>2 DEF Fields
    <2> QED
      BY <1>3, <2>1, <2>2
  <1> QED
    BY <1>2, <1>5, <1>6 DEF w, SameFields

\* An object has the same tree where it was copied to if its fields have.
LEMMA CopyTree ==
    ASSUME NEW s, WellFormed(s), NEW m, NEW org, NEW t \in Nat, NEW e \in Nat,
           Traced(s, m, org, t, e, e, {}), NEW v \in Pointers(s), NEW q \in Nat,
           CopyAt(s, org, v, q, t, e), NEW f, NEW g,
           \A i \in 0 .. Words(s.mem, v) - 1 :
             i \in Fields(s.mem, v) => g[m[q + i]] = f[s.mem[v.ptr + i]]
    PROVE  TreeOf(m, Moved(v, q), g) = TreeOf(s.mem, v, f)
  <1> DEFINE w == Moved(v, q)
  <1>1. w.tag = v.tag /\ w.ptr = q /\ IsPointer(w) /\ IsPointer(v)
    BY MovedFacts DEF Pointers
  <1>2. /\ Words(m, w) = Words(s.mem, v) /\ Fields(m, w) = Fields(s.mem, v)
        /\ \A i \in 0 .. Words(s.mem, v) - 1 : Image(s, org, m[q + i], s.mem[v.ptr + i], t, e)
    <2>1. SameFields(s, m, org, v, q, t, e)
      BY CopyFields
    <2> QED
      BY <2>1 DEF SameFields
  <1> HIDE DEF w
  <1>3. ASSUME NEW i \in 0 .. Words(s.mem, v) - 1
        PROVE  (IF i \in Fields(m, w) THEN g[m[w.ptr + i]] ELSE m[w.ptr + i])
               = (IF i \in Fields(s.mem, v) THEN f[s.mem[v.ptr + i]] ELSE s.mem[v.ptr + i])
    <2>1. i \notin Fields(s.mem, v) => m[q + i] = s.mem[v.ptr + i]
      BY <1>2, ObjectWords DEF Image
    <2> QED
      BY <1>1, <1>2, <2>1
  <1>4. TreeOf(m, w, g) = TreeOf(s.mem, v, f)
    BY <1>1, <1>2, <1>3, Zenon DEF TreeOf
  <1> QED
    BY <1>4 DEF w

\* What the tree of a word of the copy is made of
LEMMA CopyWords ==
    ASSUME NEW s, WellFormed(s), NEW m, NEW t, NEW e \in Nat, CopyOf(s, m, t, e),
           NEW x \in DOMAIN m
    PROVE  \/ x \in 1 .. t - 1 /\ m[x] = s.mem[x]
           \/ x \in t .. e - 1
           \/ ~IsPointer(m[x])
  <1>1. t = Cardinality(DOMAIN s.mem) + 1 /\ HasSource(s, m, t)
    BY DEF CopyOf
  <1>2. t \in Nat
    BY <1>1 DEF WellFormed
  <1>3. PICK d \in Nat : /\ DOMAIN m = 1 .. d - 1 /\ t <= e /\ e <= d
                        /\ \A y \in e .. d - 1 : ~IsPointer(m[y])
    BY DEF CopyOf
  <1>4. CASE x < t
    <2>1. x \in 1 .. t - 1
      BY <1>2, <1>3, <1>4
    <2> QED
      BY <1>1, <2>1 DEF HasSource
  <1>5. CASE x >= t /\ x < e
    BY <1>2, <1>3, <1>5
  <1>6. CASE x >= e
    BY <1>2, <1>3, <1>6
  <1> QED
    BY <1>2, <1>3, <1>4, <1>5, <1>6

\* A pointer among the words of the copy's memory is one of the source, or one to a copy.
LEMMA CopyPointers ==
    ASSUME NEW s, WellFormed(s), NEW m, NEW t \in Nat, NEW e \in Nat, CopyOf(s, m, t, e),
           NEW org, Traced(s, m, org, t, e, e, {}),
           NEW w \in Every(m, Moved(s.term, t)), IsPointer(w)
    PROVE  \/ w \in Pointers(s)
           \/ \E v \in Pointers(s), q \in Nat : w = Moved(v, q) /\ CopyAt(s, org, v, q, t, e)
  <1>1. CASE w = Moved(s.term, t)
    BY <1>1 DEF CopyOf, Traced
  <1>2. CASE w # Moved(s.term, t)
    <2>1. PICK x \in DOMAIN m : w = m[x]
      BY <1>2 DEF Every
    <2>2. PICK last \in Nat : DOMAIN s.mem = 1 .. last /\ t = last + 1
      BY DEF WellFormed, CopyOf
    <2>3. CASE x \in 1 .. t - 1 /\ m[x] = s.mem[x]
      <3>1. x \in DOMAIN s.mem
        BY <2>2, <2>3
      <3> QED
        BY <2>1, <2>3, <3>1 DEF Pointers, Every
    <2>4. CASE x \in t .. e - 1
      <3>1. Image(s, org, m[x], s.mem[org[x]], t, e) /\ org[x] \in 1 .. t - 1
        BY <2>4 DEF Traced
      <3>2. org[x] \in DOMAIN s.mem
        BY <2>2, <3>1
      <3>3. IsPointer(s.mem[org[x]])
        BY <2>1, <3>1 DEF Image
      <3>4. s.mem[org[x]] \in Pointers(s)
        BY <3>2, <3>3 DEF Pointers, Every
      <3> QED
        BY <2>1, <3>1, <3>3, <3>4 DEF Image
    <2> QED
      BY <2>1, <2>3, <2>4, CopyWords
  <1> QED
    BY <1>1, <1>2

\* The tree of a word of the copy's memory, f those of the source's
TreeBack(f, org, t, w) ==
    IF ~IsPointer(w) THEN w
    ELSE IF w.ptr < t THEN f[w] ELSE f[[tag |-> w.tag, ptr |-> org[w.ptr]]]

\* What TreeBack finds for a pointer of the source, and for one to a copy.
LEMMA BackFacts ==
    ASSUME NEW s, WellFormed(s), NEW m, NEW t, HasSource(s, m, t), NEW e \in Nat,
           NEW org, NEW f, NEW v \in Pointers(s), NEW x,
           x = v \/ Image(s, org, x, v, t, e)
    PROVE  TreeBack(f, org, t, x) = f[v]
  <1>1. t \in Nat /\ t = Cardinality(DOMAIN s.mem) + 1
    BY DEF WellFormed, HasSource
  <1>2. PICK p \in Nat, len \in Nat \ {0} : p = v.ptr /\ p < t /\ len = Words(s.mem, v)
    <2>1. PICK last \in Nat : t = last + 1 /\ v \in [tag : {"list", "boxed"}, ptr : 1 .. last]
      BY <1>1, PointerFacts
    <2>2. v.ptr \in Nat /\ v.ptr < t
      BY <2>1
    <2> QED
      BY <2>2, PointerFacts
  <1>3. IsPointer(v)
    BY DEF Pointers
  <1>4. CASE x = v
    BY <1>2, <1>3, <1>4 DEF TreeBack
  <1>5. CASE Image(s, org, x, v, t, e)
    <2>1. PICK q \in Nat : x = Moved(v, q) /\ CopyAt(s, org, v, q, t, e)
      BY <1>3, <1>5 DEF Image
    <2>2. 0 \in 0 .. Words(s.mem, v) - 1 /\ q + 0 = q /\ v.ptr + 0 = v.ptr
      BY <1>2
    <2>3. q \in t .. e - 1 /\ org[q] = v.ptr
      BY <2>1, <2>2 DEF CopyAt
    <2>4. x.tag = v.tag /\ x.ptr = q /\ IsPointer(x) /\ v = [tag |-> v.tag, ptr |-> v.ptr]
      BY <2>1, MovedFacts
    <2>5. ~(x.ptr < t)
      BY <1>1, <2>3, <2>4
    <2> QED
      BY <2>3, <2>4, <2>5 DEF TreeBack
  <1> QED
    BY <1>4, <1>5

\* It is that of the word the copy was made of.
LEMMA TreeOfImage ==
    ASSUME NEW s, WellFormed(s), NEW m, NEW t, HasSource(s, m, t), NEW e \in Nat,
           NEW org, NEW f, Trees(s.mem, s.term, f), NEW c \in Every(s.mem, s.term), NEW x
    PROVE  /\ TreeBack(f, org, t, c) = f[c]
           /\ Image(s, org, x, c, t, e) => TreeBack(f, org, t, x) = f[c]
  <1>1. CASE ~IsPointer(c)
    <2>1. f[c] = c
      BY <1>1 DEF Trees, TreeOf
    <2> QED
      BY <1>1, <2>1 DEF TreeBack, Image
  <1>2. CASE IsPointer(c)
    <2>1. c \in Pointers(s)
      BY <1>2 DEF Pointers
    <2> QED
      BY <2>1, BackFacts
  <1> QED
    BY <1>1, <1>2

\* An object of the source has its tree in the copy's memory too.
LEMMA SourceTree ==
    ASSUME NEW s, WellFormed(s), NEW m, NEW t, HasSource(s, m, t), NEW w \in Pointers(s),
           NEW f, NEW g,
           \A i \in 0 .. Words(s.mem, w) - 1 : g[s.mem[w.ptr + i]] = f[s.mem[w.ptr + i]]
    PROVE  TreeOf(m, w, g) = TreeOf(s.mem, w, f)
  <1>1. PICK len \in Nat, p \in Nat : Placed(s, w, m, t, len, p)
    BY ObjectPlace
  <1>2. /\ len = Words(m, w) /\ len = Words(s.mem, w) /\ p = w.ptr /\ len >= 1
        /\ \A i \in 0 .. len - 1 : m[w.ptr + i] = s.mem[w.ptr + i]
    BY <1>1 DEF Placed
  <1>3. m[w.ptr] = s.mem[w.ptr]
    <2>1. 0 \in 0 .. len - 1 /\ p + 0 = p
      BY <1>2
    <2> QED
      BY <1>2, <2>1
  <1>4. Fields(m, w) = Fields(s.mem, w)
    BY <1>3 DEF Fields
  <1>5. \A i \in 0 .. len - 1 :
          (IF i \in Fields(m, w) THEN g[m[w.ptr + i]] ELSE m[w.ptr + i])
          = (IF i \in Fields(s.mem, w) THEN f[s.mem[w.ptr + i]] ELSE s.mem[w.ptr + i])
    BY <1>2, <1>4
  <1>6. IsPointer(w)
    BY DEF Pointers
  <1> QED
    BY <1>2, <1>5, <1>6, Zenon DEF TreeOf

\* The words of the copy are among those of its memory.
LEMMA CopyDomain ==
    ASSUME NEW s, NEW m, NEW t, NEW e \in Nat, CopyOf(s, m, t, e), WellFormed(s)
    PROVE  /\ t \in Nat /\ \A x \in t .. e - 1 : x \in DOMAIN m
           /\ \A x \in 1 .. t - 1 : x \in DOMAIN m /\ m[x] = s.mem[x]
  <1>1. t = Cardinality(DOMAIN s.mem) + 1 /\ HasSource(s, m, t)
    BY DEF CopyOf
  <1>2. t \in Nat /\ t >= 1
    BY <1>1 DEF WellFormed
  <1>3. PICK d \in Nat : DOMAIN m = 1 .. d - 1 /\ t <= e /\ e <= d
    BY DEF CopyOf
  <1> QED
    BY <1>1, <1>2, <1>3 DEF HasSource

\* There are trees for all words of the copy's memory.
LEMMA CopyTreesExist ==
    ASSUME NEW s, WellFormed(s), NEW m, NEW t \in Nat, NEW e \in Nat, CopyOf(s, m, t, e)
    PROVE  \E g : Trees(m, Moved(s.term, t), g)
  <1> DEFINE r == Moved(s.term, t)
  <1>1. PICK org : Traced(s, m, org, t, e, e, {})
    BY DEF CopyOf, Tracks
  <1>2. PICK f : Trees(s.mem, s.term, f)
    BY TreesExist
  <1>3. t = Cardinality(DOMAIN s.mem) + 1 /\ HasSource(s, m, t)
    BY DEF CopyOf
  <1>4. ASSUME NEW c \in Every(s.mem, s.term), NEW x
        PROVE  /\ TreeBack(f, org, t, c) = f[c]
               /\ Image(s, org, x, c, t, e) => TreeBack(f, org, t, x) = f[c]
    BY <1>2, <1>3, TreeOfImage
  <1> DEFINE g == [w \in Every(m, r) |-> TreeBack(f, org, t, w)]
  <1>5. \A w \in Every(m, r) : g[w] = TreeBack(f, org, t, w)
    OBVIOUS
  <1> HIDE DEF r
  <1>6. ASSUME NEW w \in Every(m, r)
        PROVE  g[w] = TreeOf(m, w, g)
    <2> HIDE DEF g
    <2>1. CASE ~IsPointer(w)
      BY <1>5, <2>1 DEF TreeBack, TreeOf
    <2>2. CASE w \in Pointers(s)
      <3>1. ASSUME NEW i \in 0 .. Words(s.mem, w) - 1
            PROVE  g[s.mem[w.ptr + i]] = f[s.mem[w.ptr + i]]
        <4>1. w.ptr + i \in DOMAIN s.mem /\ s.mem[w.ptr + i] \in Every(s.mem, s.term)
          BY <2>2, ObjectWords
        <4>2. w.ptr + i \in 1 .. t - 1
          BY <1>3, <4>1 DEF WellFormed
        <4>3. s.mem[w.ptr + i] \in Every(m, r)
          BY <4>2, CopyDomain DEF Every
        <4> QED
          BY <1>5, <1>4, <4>1, <4>3
      <3>2. TreeOf(m, w, g) = TreeOf(s.mem, w, f)
        BY <1>3, <2>2, <3>1, SourceTree
      <3>3. w \in Every(s.mem, s.term)
        BY <2>2 DEF Pointers
      <3>4. g[w] = f[w]
        BY <1>5, <1>4, <3>3
      <3> QED
        BY <1>2, <3>2, <3>3, <3>4 DEF Trees
    <2>3. ASSUME NEW v \in Pointers(s), NEW q \in Nat, w = Moved(v, q), CopyAt(s, org, v, q, t, e)
          PROVE  g[w] = TreeOf(m, w, g)
      <3>1. SameFields(s, m, org, v, q, t, e)
        BY <1>1, <2>3, CopyFields
      <3>2. ASSUME NEW i \in 0 .. Words(s.mem, v) - 1
            PROVE  g[m[q + i]] = f[s.mem[v.ptr + i]]
        <4>1. q + i \in t .. e - 1 /\ Image(s, org, m[q + i], s.mem[v.ptr + i], t, e)
          BY <3>1 DEF SameFields
        <4>2. m[q + i] \in Every(m, r)
          BY <4>1, CopyDomain DEF Every
        <4>3. s.mem[v.ptr + i] \in Every(s.mem, s.term)
          BY ObjectWords
        <4> QED
          BY <1>5, <1>4, <4>1, <4>2, <4>3
      <3>3. TreeOf(m, w, g) = TreeOf(s.mem, v, f)
        BY <1>1, <2>3, <3>2, CopyTree
      <3>4. v \in Every(s.mem, s.term) /\ IsPointer(v)
        BY DEF Pointers
      <3>5. Image(s, org, w, v, t, e)
        BY <2>3, <3>4 DEF Image
      <3>6. g[w] = f[v]
        BY <1>5, <1>4, <3>4, <3>5
      <3> QED
        BY <1>2, <3>3, <3>4, <3>6 DEF Trees
    <2> QED
      BY <1>1, <2>1, <2>2, <2>3, CopyPointers DEF r
  <1>7. Trees(m, r, g)
    BY <1>6 DEF Trees
  <1> QED
    BY <1>7 DEF r

\* Every object has the tree of the one it was copied from.
LEMMA CopiesHaveTrees ==
    ASSUME NEW s, WellFormed(s), NEW m, NEW t \in Nat, NEW e \in Nat, CopyOf(s, m, t, e),
           NEW org, Traced(s, m, org, t, e, e, {}), NEW f, Trees(s.mem, s.term, f),
           NEW h, Trees(m, Moved(s.term, t), h)
    PROVE  h[Moved(s.term, t)] = f[s.term]
  <1> DEFINE r == Moved(s.term, t)
  <1>1. PICK depth : Depths(s, depth)
    BY DepthsExist
  <1> DEFINE Differs(v) == \E q \in Nat : /\ CopyAt(s, org, v, q, t, e)
                                         /\ Moved(v, q) \in Every(m, r) /\ h[Moved(v, q)] # f[v]
             bad == {depth[v] : v \in {x \in Pointers(s) : Differs(x)}}
  <1>2. bad = {}
    <2> SUFFICES ASSUME bad # {}
                 PROVE  FALSE
      OBVIOUS
    <2>1. bad \in SUBSET Nat
      BY <1>1 DEF Depths
    <2>2. PICK d \in bad : \A y \in bad : ~(y < d)
      <3> HIDE DEF bad
      <3> QED
        BY <2>1, LeastNat
    <2>3. PICK v \in Pointers(s) : d = depth[v] /\ Differs(v)
      BY <2>2
    <2>4. PICK q \in Nat : /\ CopyAt(s, org, v, q, t, e)
                          /\ Moved(v, q) \in Every(m, r) /\ h[Moved(v, q)] # f[v]
      BY <2>3
    <2>5. SameFields(s, m, org, v, q, t, e)
      BY <2>4, CopyFields
    <2>6. ASSUME NEW i \in 0 .. Words(s.mem, v) - 1, i \in Fields(s.mem, v)
          PROVE  h[m[q + i]] = f[s.mem[v.ptr + i]]
      <3> DEFINE c == s.mem[v.ptr + i]
      <3>1. q + i \in t .. e - 1 /\ Image(s, org, m[q + i], c, t, e)
        BY <2>5 DEF SameFields
      <3>2. m[q + i] \in Every(m, r)
        BY <3>1, CopyDomain DEF Every
      <3>3. c \in Every(s.mem, s.term)
        BY ObjectWords
      <3>4. CASE ~IsPointer(c)
        <4>1. m[q + i] = c
          BY <3>1, <3>4 DEF Image
        <4>2. h[c] = c
          BY <3>2, <3>4, <4>1 DEF Trees, TreeOf
        <4>3. f[c] = c
          BY <3>3, <3>4 DEF Trees, TreeOf
        <4> QED
          BY <4>1, <4>2, <4>3
      <3>5. CASE IsPointer(c)
        <4>1. PICK p \in Nat : m[q + i] = Moved(c, p) /\ CopyAt(s, org, c, p, t, e)
          BY <3>1, <3>5 DEF Image
        <4>2. c \in Pointers(s)
          BY <3>3, <3>5 DEF Pointers
        <4>3. depth[c] < depth[v]
          BY <1>1, <2>6, <3>5 DEF Depths
        <4>4. depth[c] \notin bad
          BY <2>2, <2>3, <4>3
        <4>5. ~Differs(c)
          BY <4>2, <4>4
        <4> HIDE DEF c
        <4>6. h[Moved(c, p)] = f[c]
          BY <3>2, <4>1, <4>5
        <4> QED
          BY <4>1, <4>6 DEF c
      <3> QED
        BY <3>4, <3>5
    <2>7. TreeOf(m, Moved(v, q), h) = TreeOf(s.mem, v, f)
      BY <2>4, <2>6, CopyTree
    <2>8. h[Moved(v, q)] = TreeOf(m, Moved(v, q), h)
      BY <2>4 DEF Trees
    <2>9. f[v] = TreeOf(s.mem, v, f)
      BY DEF Trees, Pointers
    <2> QED
      BY <2>4, <2>7, <2>8, <2>9
  <1>3. s.term \in Pointers(s)
    BY DEF CopyOf
  <1>4. ~Differs(s.term)
    BY <1>2, <1>3
  <1>5. CopyAt(s, org, s.term, t, t, e) /\ Moved(s.term, t) \in Every(m, r)
    BY DEF Traced, Every
  <1> QED
    BY <1>4, <1>5

\* The copy is the same term, and none of its pointers leads out of it.
LEMMA CopySame ==
    ASSUME NEW s, WellFormed(s), NEW m, NEW t, NEW e \in Nat, CopyOf(s, m, t, e)
    PROVE  /\ Unfold(m, Moved(s.term, t)) = Unfold(s.mem, s.term)
           /\ Moved(s.term, t).ptr \in t .. e - 1
           /\ \A x \in t .. e - 1 : IsPointer(m[x]) => m[x].ptr \in t .. e - 1
  <1>1. t \in Nat /\ s.term \in Pointers(s) /\ t = Cardinality(DOMAIN s.mem) + 1
    BY CopyDomain DEF CopyOf
  <1>2. PICK org : Traced(s, m, org, t, e, e, {})
    BY DEF CopyOf, Tracks
  <1>3. PICK f : Trees(s.mem, s.term, f) /\ Unfold(s.mem, s.term) = f[s.term]
    BY TreesExist, TreeChosen
  <1>4. PICK h : Trees(m, Moved(s.term, t), h) /\ Unfold(m, Moved(s.term, t)) = h[Moved(s.term, t)]
    BY <1>1, CopyTreesExist, TreeChosen
  <1>5. h[Moved(s.term, t)] = f[s.term]
    BY <1>1, <1>2, <1>3, <1>4, CopiesHaveTrees
  <1>6. ASSUME NEW v \in Pointers(s), NEW q \in Nat, CopyAt(s, org, v, q, t, e)
        PROVE  Moved(v, q).ptr \in t .. e - 1
    <2>1. 0 \in 0 .. Words(s.mem, v) - 1 /\ q + 0 = q
      BY PointerFacts
    <2>2. q \in t .. e - 1
      BY <1>6, <2>1 DEF CopyAt
    <2> QED
      BY <2>2, MovedFacts
  <1>7. Moved(s.term, t).ptr \in t .. e - 1
    BY <1>1, <1>2, <1>6 DEF Traced
  <1>8. ASSUME NEW x \in t .. e - 1, IsPointer(m[x])
        PROVE  m[x].ptr \in t .. e - 1
    <2>1. Image(s, org, m[x], s.mem[org[x]], t, e) /\ org[x] \in 1 .. t - 1
      BY <1>2 DEF Traced
    <2>2. org[x] \in DOMAIN s.mem
      BY <1>1, <2>1 DEF WellFormed
    <2>3. IsPointer(s.mem[org[x]])
      BY <1>8, <2>1 DEF Image
    <2>4. s.mem[org[x]] \in Pointers(s)
      BY <2>2, <2>3 DEF Pointers, Every
    <2> QED
      BY <1>6, <2>1, <2>3, <2>4 DEF Image
  <1> QED
    BY <1>3, <1>4, <1>5, <1>7, <1>8


\* The chunk has the source before it.
LEMMA GrantedWords ==
    ASSUME NEW n \in Nat, to0 \in Nat, to0 >= 1
    PROVE  DOMAIN Granted(n) = 1 .. to0 + n - 1 /\ \A a \in 1 .. to0 - 1 : Granted(n)[a] = mem[a]
  <1>1. PICK t \in Nat : t = to0 /\ t >= 1
    OBVIOUS
  <1>2. \A a \in 1 .. t - 1 : a \in 1 .. t + n - 1 /\ a < t
    BY <1>1
  <1> QED
    BY <1>1, <1>2 DEF Granted

-----------------------------------------------------------------------------
FlatTyped ==
    /\ src \in Source /\ WellFormed(src)
    /\ to0 = Cardinality(DOMAIN src.mem) + 1 /\ to0 \in Nat /\ to0 >= 1
    /\ pc \in {"start", "scan", "done", "returned_0"}
    /\ from \in Nat /\ to \in Nat /\ size \in Nat

\* The scan stays in the chunk.
Within == to0 <= from /\ from <= to /\ to <= to0 + size

Chunk == DOMAIN mem = 1 .. to0 + size - 1

Untouched == \A a \in 1 .. to0 - 1 : mem[a] = src.mem[a]

\* Before the copy starts
FlatFresh == pc = "start" => mem = src.mem /\ size = 0 /\ from = to0 /\ to = to0

\* What is left to scan will fill what is left of the chunk.
Left == pc = "scan" => \E n \in Nat : Pending(src, mem, from, to, n) /\ to + n = to0 + size

Full == pc = "done" => to = to0 + size

\* The words of the copy are those of the source, the scanned pointers moved.
Tracked ==
    pc = "scan" => /\ src.term \in Pointers(src) /\ result = Moved(src.term, to0)
                   /\ Tracks(src, mem, to0, from, to, {})

\* What is returned
Returned ==
    pc = "done" => \/ mem = src.mem /\ result = src.term /\ to = to0
                   \/ CopyOf(src, mem, to0, to) /\ result = Moved(src.term, to0)

FlatIInv ==
    /\ FlatTyped /\ Within /\ Chunk /\ Untouched /\ FlatFresh /\ Left /\ Full
    /\ Tracked /\ Returned

\* The initial states.
LEMMA FlatInitial ==
    ASSUME FlatInit
    PROVE  FlatIInv
  <1>1. /\ src \in Source /\ WellFormed(src) /\ pc = "start" /\ mem = src.mem
        /\ size = 0 /\ from = to0 /\ to = to0 /\ to0 = Cardinality(DOMAIN src.mem) + 1
    BY CopyAssumption DEF FlatInit, CopyInit
  <1>2. PICK last \in Nat : last = Cardinality(DOMAIN src.mem) /\ DOMAIN src.mem = 1 .. last
    BY <1>1 DEF WellFormed
  <1>3. PICK t \in Nat : t = to0 /\ t = last + 1
    BY <1>1, <1>2
  <1>4. FlatTyped /\ Within
    BY <1>1, <1>3 DEF FlatTyped, Within
  <1>5. Chunk
    <2>1. 1 .. last = 1 .. t + 0 - 1
      BY <1>3
    <2> QED
      BY <1>1, <1>2, <1>3, <2>1 DEF Chunk
  <1> QED
    BY <1>1, <1>4, <1>5 DEF FlatIInv, Untouched, FlatFresh, Left, Full, Tracked, Returned

\* The first object.
LEMMA FlatStepStart ==
    ASSUME FlatIInv, FlatStart
    PROVE  FlatIInv'
  <1> DEFINE w == src.term
  <1>1. /\ FlatTyped /\ pc = "start" /\ mem = src.mem /\ from = to0 /\ to = to0
        /\ to0 = Cardinality(DOMAIN src.mem) + 1 /\ to0 \in Nat /\ to0 >= 1 /\ WellFormed(src)
    BY DEF FlatIInv, FlatFresh, FlatTyped, FlatStart
  <1>2. /\ size' = FlatSize(src.mem, w) /\ size' > 0 /\ AppendObject(Granted(size'), w)
        /\ src' = src /\ to0' = to0 /\ from' = from /\ pc' = "scan"
    BY <1>1 DEF FlatStart, given
  <1>3. w \in Pointers(src)
    BY <1>1, <1>2, TermIsPointer
  <1>4. PICK sz \in Nat : sz = size' /\ sz = Size(src)[w]
    BY <1>1, <1>2, TermIsPointer
  <1> DEFINE m == Granted(sz)
  <1>5. DOMAIN m = 1 .. to0 + sz - 1 /\ \A a \in 1 .. to0 - 1 : m[a] = src.mem[a]
    BY <1>1, GrantedWords
  <1> HIDE DEF m, w
  <1>6. PICK len \in Nat, p \in Nat :
          /\ p = w.ptr /\ len = Words(m, w) /\ len = Words(src.mem, w)
          /\ len >= 1 /\ p >= 1 /\ p + len <= to0
          /\ \A i \in 0 .. len - 1 : m[p + i] = src.mem[w.ptr + i]
    <2>1. HasSource(src, m, to0)
      BY <1>1, <1>5 DEF HasSource
    <2>2. \E len \in Nat, p \in Nat : Placed(src, w, m, to0, len, p)
      BY <1>1, <1>3, <2>1, ObjectPlace
    <2> QED
      BY <2>2 DEF Placed
  <1>7. PICK left \in Nat : left = sz - len
    BY <1>1, <1>3, <1>4, <1>6, RoomForObject
  <1>8. PICK t \in Nat, e \in Nat : t = to0 /\ e = t + sz /\ t >= 1 /\ t + len <= e
    <2>1. to0 + sz \in Nat /\ to0 + len <= to0 + sz
      BY <1>1, <1>4, <1>6, <1>7
    <2> QED
      BY <1>1, <2>1
  <1>9. AppendObject(m, w)
    BY <1>2, <1>4 DEF m
  <1>10. /\ to' = t + len
         /\ mem' = Write(m, t, len, p, pc, from, [w EXCEPT !.ptr = to])
    BY <1>1, <1>6, <1>8, <1>9 DEF AppendObject, Write
  <1>11. PICK k : k = mem'
    OBVIOUS
  <1>12. /\ DOMAIN k = 1 .. e - 1
         /\ \A i \in 0 .. len - 1 : k[t + i] = m[p + i]
         /\ \A x \in 1 .. t - 1 : (pc = "scan" => x # from) => k[x] = m[x]
    <2>1. DOMAIN m = 1 .. e - 1
      BY <1>5, <1>8
    <2>2. Written(m, k, t, len, e, p, pc, from, [w EXCEPT !.ptr = to])
      BY <1>8, <1>10, <1>11, <2>1, WordsWritten
    <2> QED
      BY <2>2 DEF Written
  <1>13. Extended(src, k, k, t, t, w, len)
    <2>1. \A x \in t .. t - 1 : k[x] = k[x]
      OBVIOUS
    <2> QED
      BY <1>6, <1>12, <2>1 DEF Extended
  <1>14. Pending(src, k, t, t + len, left)
    BY <1>1, <1>3, <1>4, <1>7, <1>8, <1>13, PendingFirst
  <1>15. t + len + left = t + sz
    BY <1>4, <1>6, <1>7
  <1>16. FlatTyped'
    BY <1>1, <1>2, <1>4, <1>6, <1>8, <1>10 DEF FlatTyped
  <1>17. Within'
    BY <1>1, <1>2, <1>4, <1>6, <1>8, <1>10 DEF Within
  <1>18. Chunk'
    BY <1>1, <1>2, <1>4, <1>8, <1>11, <1>12 DEF Chunk
  <1>19. Untouched'
    BY <1>1, <1>2, <1>5, <1>8, <1>11, <1>12 DEF Untouched
  <1>20. Left'
    BY <1>1, <1>2, <1>4, <1>8, <1>10, <1>11, <1>14, <1>15 DEF Left
  <1>21. Tracked'
    <2>1. Forwards(k, k, {}, w, t, {})
      BY DEF Forwards
    <2>2. Tracks(src, k, t, t, t + len, {})
      BY <1>1, <1>3, <1>8, <1>13, <2>1, TracksFirst DEF w
    <2>3. result' = Moved(src.term, to0)
      BY DEF FlatStart, Moved
    <2> QED
      BY <1>1, <1>2, <1>3, <1>8, <1>10, <1>11, <2>2, <2>3 DEF Tracked, w
  <1> QED
    BY <1>2, <1>16, <1>17, <1>18, <1>19, <1>20, <1>21 DEF FlatIInv, FlatFresh, Full, Returned

\* An object that the scan meets a pointer to.
LEMMA FlatStepPointer ==
    ASSUME FlatIInv, FlatPointer
    PROVE  FlatIInv'
  <1> DEFINE w == mem[from]
  <1>1. /\ pc = "scan" /\ from < to /\ IsPointer(w) /\ AppendObject(mem, w) /\ from' = from + 1
        /\ src' = src /\ to0' = to0 /\ size' = size /\ pc' = pc
    BY DEF FlatPointer, Scanning, IsPointer, given
  <1>2. /\ FlatTyped /\ to0 = Cardinality(DOMAIN src.mem) + 1 /\ to0 \in Nat /\ to0 >= 1
        /\ WellFormed(src) /\ to0 <= from /\ from <= to /\ to <= to0 + size /\ size \in Nat
        /\ Chunk /\ HasSource(src, mem, to0)
    BY DEF FlatIInv, FlatTyped, Within, Untouched, HasSource
  <1>3. PICK n \in Nat : Pending(src, mem, from, to, n) /\ to + n = to0 + size
    BY <1>1 DEF FlatIInv, Left
  <1>4. w \in Pointers(src) /\ \A len \in Nat : len = Words(src.mem, w) => len <= n
    BY <1>1, <1>2, <1>3, RoomToAppend
  <1>5. PICK a \in Nat, b \in Nat, t \in Nat, e \in Nat :
          /\ a = from /\ b = to /\ t = to0 /\ e = to0 + size /\ b + n = e
          /\ t <= a /\ a < b /\ t >= 1
    BY <1>1, <1>2, <1>3 DEF FlatTyped
  <1> HIDE DEF w
  <1>6. PICK len \in Nat, p \in Nat :
          /\ p = w.ptr /\ len = Words(mem, w) /\ len = Words(src.mem, w)
          /\ len >= 1 /\ p >= 1 /\ p + len <= to0
          /\ \A i \in 0 .. len - 1 : mem[p + i] = src.mem[w.ptr + i]
    <2>1. \E len \in Nat, p \in Nat : Placed(src, w, mem, to0, len, p)
      BY <1>2, <1>4, ObjectPlace
    <2> QED
      BY <2>1 DEF Placed
  <1>7. len <= n /\ b + len <= e
    BY <1>4, <1>5, <1>6
  <1>8. /\ to' = b + len
        /\ mem' = Write(mem, b, len, p, pc, a, [w EXCEPT !.ptr = to])
    BY <1>1, <1>5, <1>6 DEF AppendObject, Write
  <1>9. PICK k : k = mem'
    OBVIOUS
  <1>10. /\ DOMAIN k = 1 .. e - 1
         /\ \A i \in 0 .. len - 1 : k[b + i] = mem[p + i]
         /\ \A x \in 1 .. b - 1 : x # a => k[x] = mem[x]
         /\ k[a] = Moved(w, b)
    <2>1. DOMAIN mem = 1 .. e - 1 /\ b >= 1 /\ a \in 1 .. b - 1
      BY <1>2, <1>5 DEF Chunk
    <2>2. Written(mem, k, b, len, e, p, pc, a, [w EXCEPT !.ptr = to])
      BY <1>7, <1>8, <1>9, <2>1, WordsWritten
    <2> QED
      BY <1>1, <1>5, <2>1, <2>2 DEF Written, Moved
  <1>11. Extended(src, mem, k, a + 1, b, w, len)
    <2>1. \A x \in a + 1 .. b - 1 : x \in 1 .. b - 1 /\ x # a
      OBVIOUS
    <2>2. \A x \in a + 1 .. b - 1 : k[x] = mem[x]
      BY <1>10, <2>1
    <2> QED
      BY <1>6, <1>10, <2>2 DEF Extended
  <1>12. n - len \in Nat /\ Pending(src, k, a + 1, b + len, n - len)
    <2>1. w = mem[a] /\ IsPointer(mem[a])
      BY <1>1, <1>5 DEF w
    <2> QED
      BY <1>2, <1>3, <1>5, <1>11, <2>1, PendingPointer
  <1>13. b + len + (n - len) = e
    BY <1>5, <1>7
  <1>14. FlatTyped'
    BY <1>1, <1>2, <1>5, <1>8 DEF FlatTyped
  <1>15. Within'
    <2>1. t <= a + 1 /\ a + 1 <= b + len
      BY <1>5
    <2> QED
      BY <1>1, <1>5, <1>7, <1>8, <2>1 DEF Within
  <1>16. Chunk'
    <2>1. DOMAIN mem' = DOMAIN mem
      BY <1>8 DEF Write
    <2> QED
      BY <1>1, <1>2, <2>1 DEF Chunk
  <1>17. Untouched'
    <2> SUFFICES ASSUME NEW x \in 1 .. t - 1
                 PROVE  k[x] = src.mem[x]
      BY <1>1, <1>5, <1>9 DEF Untouched
    <2>1. x \in 1 .. b - 1 /\ x # a
      BY <1>5
    <2>2. mem[x] = src.mem[x]
      BY <1>2, <1>5 DEF HasSource
    <2> QED
      BY <1>10, <2>1, <2>2
  <1>18. Left'
    BY <1>1, <1>5, <1>8, <1>9, <1>12, <1>13 DEF Left
  <1>19. Tracked'
    <2>1. /\ src.term \in Pointers(src) /\ result = Moved(src.term, to0)
          /\ Tracks(src, mem, t, a, b, {})
      BY <1>1, <1>5 DEF FlatIInv, Tracked
    <2>2. Kept(mem, k, t, a)
      <3>1. \A x \in t .. a - 1 : x \in 1 .. b - 1 /\ x # a
        BY <1>5
      <3> QED
        BY <1>10, <3>1 DEF Kept
    <2>3. Forwards(mem, k, {}, w, b, {})
      BY DEF Forwards
    <2>4. mem[a] = w
      BY <1>5 DEF w
    <2>5. Tracks(src, k, t, a + 1, b + len, {})
      BY <1>2, <1>4, <1>5, <1>10, <1>11, <2>1, <2>2, <2>3, <2>4, TracksAppend
    <2>6. result' = result
      BY DEF FlatPointer
    <2> QED
      BY <1>1, <1>5, <1>8, <1>9, <2>1, <2>5, <2>6 DEF Tracked
  <1> QED
    BY <1>1, <1>14, <1>15, <1>16, <1>17, <1>18, <1>19 DEF FlatIInv, FlatFresh, Full, Returned

\* A turn that only scans.
LEMMA FlatScans ==
    ASSUME FlatIInv, pc = "scan", UNCHANGED <<src, to0, pc, mem, size, to, result>>,
           \A n \in Nat : Pending(src, mem, from, to, n) => Pending(src, mem, from', to, n),
           Tracks(src, mem, to0, from', to, {}),
           from' \in Nat, from <= from', from' <= to
    PROVE  FlatIInv'
  <1>1. FlatTyped' /\ Chunk' /\ Untouched'
    BY DEF FlatIInv, FlatTyped, Chunk, Untouched
  <1>2. Within'
    BY DEF FlatIInv, Within, FlatTyped
  <1>3. Left'
    BY DEF FlatIInv, Left
  <1>4. Tracked'
    BY DEF FlatIInv, Tracked
  <1> QED
    BY <1>1, <1>2, <1>3, <1>4 DEF FlatIInv, FlatFresh, Full, Returned

\* What is left to scan when the loops meet no pointer.
LEMMA ScanKeepsPending ==
    ASSUME NEW s, WellFormed(s), NEW n, Pending(s, mem, from, to, n), ScanHeader \/ ScanImmediate
    PROVE  /\ Pending(s, mem, from', to, n)
           /\ from \in Nat /\ to \in Nat /\ from' \in Nat /\ from <= from' /\ from' <= to
  <1>1. from < to
    BY DEF ScanHeader, ScanImmediate, Scanning
  <1>2. from \in Nat /\ to \in Nat
    BY DEF Pending
  <1>3. CASE ScanImmediate
    <2>1. from' = from + 1 /\ ~IsPointer(mem[from])
      BY <1>3 DEF ScanImmediate, Scanning, IsPointer
    <2>2. Pending(s, mem, from + 1, to, n)
      BY <1>1, <2>1, PendingStep
    <2> QED
      BY <1>1, <1>2, <2>1, <2>2
  <1>4. CASE ScanHeader /\ mem[from].kind # "data"
    <2>1. from' = from + 1 /\ ~IsPointer(mem[from])
      BY <1>4 DEF ScanHeader, Scanning, IsPointer
    <2>2. Pending(s, mem, from + 1, to, n)
      BY <1>1, <2>1, PendingStep
    <2> QED
      BY <1>1, <1>2, <2>1, <2>2
  <1>5. CASE ScanHeader /\ mem[from].kind = "data"
    <2>1. from' = from + (mem[from].arity + 1) /\ mem[from].tag = "header"
      <3>1. mem[from].arity \in Nat
        BY <1>1, <1>5, PendingSkip DEF ScanHeader, Scanning
      <3> QED
        BY <1>2, <1>5, <3>1 DEF ScanHeader, Scanning
    <2>2. mem[from].arity \in Nat /\ Pending(s, mem, from + (mem[from].arity + 1), to, n)
      BY <1>1, <1>5, <2>1, PendingSkip
    <2>3. PICK r \in Nat : r = mem[from].arity
      BY <2>2
    <2>4. from + (r + 1) <= to
      BY <2>2, <2>3 DEF Pending
    <2> QED
      BY <1>2, <2>1, <2>2, <2>3, <2>4
  <1> QED
    BY <1>3, <1>4, <1>5

\* The words of the copy when they meet none
LEMMA ScanKeepsTracks ==
    ASSUME NEW s, WellFormed(s), NEW n, Pending(s, mem, from, to, n), ScanHeader \/ ScanImmediate,
           NEW ws, Tracks(s, mem, to0, from, to, ws), to0 \in Nat, to0 <= from
    PROVE  Tracks(s, mem, to0, from', to, ws)
  <1>1. PICK a \in Nat, b \in Nat, c \in Nat, t \in Nat :
          a = from /\ b = to /\ c = from' /\ t = to0 /\ t <= a /\ a < b /\ a <= c /\ c <= b
    <2>1. from < to
      BY DEF ScanHeader, ScanImmediate, Scanning
    <2> QED
      BY <2>1, ScanKeepsPending
  <1>2. ~IsPointer(mem[a])
    BY <1>1 DEF ScanHeader, ScanImmediate, Scanning, IsPointer
  <1>3. CASE c = a + 1
    <2>1. \A x \in a .. c - 1 : x = a
      BY <1>3
    <2>2. \A x \in a .. c - 1 : ~IsPointer(mem[x])
      BY <1>2, <2>1
    <2> QED
      BY <1>1, <2>2, TracksSkip
  <1>4. CASE ScanHeader /\ mem[from].kind = "data"
    <2>1. mem[a].tag = "header" /\ mem[a].kind = "data" /\ c = a + (mem[a].arity + 1)
      BY <1>1, <1>4, Zenon DEF ScanHeader, Scanning
    <2>2. Headers(mem, a, b) /\ a \in a .. b - 1
      BY <1>1 DEF Pending
    <2>3. PICK r \in Nat : r = mem[a].arity /\ \A i \in 1 .. r : ~IsPointer(mem[a + i])
      BY <2>1, <2>2 DEF Headers
    <2>4. ASSUME NEW x \in a .. c - 1
          PROVE  ~IsPointer(mem[x])
      <3>1. CASE x = a
        BY <1>2, <3>1
      <3>2. CASE x # a
        <4>1. x - a \in 1 .. r /\ a + (x - a) = x
          BY <2>1, <2>3, <3>2
        <4>2. ~IsPointer(mem[a + (x - a)])
          BY <2>3, <4>1
        <4> QED
          BY <4>1, <4>2
      <3> QED
        BY <3>1, <3>2
    <2> QED
      BY <1>1, <2>4, TracksSkip
  <1> QED
    BY <1>1, <1>3, <1>4 DEF ScanHeader, ScanImmediate

\* Every step keeps the invariant.
LEMMA FlatStep ==
    ASSUME FlatIInv, [FlatNext]_loopVars
    PROVE  FlatIInv'
  <1>1. FlatTyped /\ Within /\ WellFormed(src) /\ from \in Nat /\ to \in Nat /\ size \in Nat
        /\ to0 \in Nat
    BY DEF FlatIInv, FlatTyped
  <1>2. CASE Immediate
    <2>1. /\ pc = "start" /\ pc' = "done" /\ result' = src.term
          /\ UNCHANGED <<src, to0, mem, size, from, to>>
      BY <1>2 DEF Immediate, given
    <2> QED
      BY <1>1, <2>1 DEF FlatIInv, FlatTyped, Within, Chunk, Untouched, FlatFresh, Left, Full,
                        Tracked, Returned
  <1>3. CASE FlatStart
    BY <1>3, FlatStepStart
  <1>4. CASE ScanHeader \/ ScanImmediate
    <2>1. pc = "scan" /\ UNCHANGED <<src, to0, pc, mem, size, to, result>>
      BY <1>4 DEF ScanHeader, ScanImmediate, Scanning, given
    <2>2. PICK n \in Nat : Pending(src, mem, from, to, n)
      BY <2>1 DEF FlatIInv, Left
    <2>3. from' \in Nat /\ from <= from' /\ from' <= to
      BY <1>1, <1>4, <2>2, ScanKeepsPending
    <2>4. \A j \in Nat : Pending(src, mem, from, to, j) => Pending(src, mem, from', to, j)
      BY <1>1, <1>4, ScanKeepsPending
    <2>5. Tracks(src, mem, to0, from', to, {})
      BY <1>1, <1>4, <2>1, <2>2, ScanKeepsTracks DEF FlatIInv, Tracked, Within
    <2> QED
      BY <2>1, <2>3, <2>4, <2>5, FlatScans
  <1>5. CASE ScanUnsupported
    <2>1. pc = "scan" /\ pc' = "returned_0" /\ UNCHANGED <<src, to0, mem, size, from, to>>
      BY <1>5 DEF ScanUnsupported, Scanning, given
    <2> QED
      BY <1>1, <2>1 DEF FlatIInv, FlatTyped, Within, Chunk, Untouched, FlatFresh, Left, Full,
                        Tracked, Returned
  <1>6. CASE FlatPointer
    BY <1>6, FlatStepPointer
  <1>7. CASE FlatReturn
    <2>1. /\ pc = "scan" /\ pc' = "done" /\ from = to
          /\ UNCHANGED <<src, to0, mem, size, from, to, result>>
      BY <1>7 DEF FlatReturn, given
    <2>2. PICK n \in Nat : Pending(src, mem, to, to, n) /\ to + n = to0 + size
      BY <2>1 DEF FlatIInv, Left
    <2>3. n = 0
      BY <1>1, <2>2, CountsNumber DEF Pending
    <2>4. to = to0 + size
      BY <1>1, <2>2, <2>3
    <2>5. CopyOf(src, mem, to0, to)
      <3>1. PICK d \in Nat : d = to0 + size
        BY <1>1
      <3>2. DOMAIN mem = 1 .. d - 1 /\ to0 <= to /\ to <= d /\ \A x \in to .. d - 1 : FALSE
        BY <1>1, <2>4, <3>1 DEF FlatIInv, Chunk, Within
      <3> QED
        BY <2>1, <3>2 DEF FlatIInv, FlatTyped, Tracked, Untouched, CopyOf, HasSource
    <2> QED
      BY <1>1, <2>1, <2>4, <2>5 DEF FlatIInv, FlatTyped, Within, Chunk, Untouched, FlatFresh, Left, Full,
                        Tracked, Returned
  <1>8. CASE UNCHANGED loopVars
    <2>1. UNCHANGED <<src, to0, pc, mem, size, from, to, result>>
      BY <1>8 DEF loopVars, given
    <2> QED
      BY <1>1, <2>1 DEF FlatIInv, FlatTyped, Within, Chunk, Untouched, FlatFresh, Left, Full,
                        Tracked, Returned
  <1> QED
    BY <1>2, <1>3, <1>4, <1>5, <1>6, <1>7, <1>8 DEF FlatNext, ScanNoPointer

\* enif_make_flat_copy never writes past the words flat_size counted, and when it
\* returns a term it has filled them: for every well-formed term, of any size and
\* however its objects are shared.
THEOREM FlatCopyFills == FlatSpec => []FillsSize
  <1>1. FlatInit => FlatIInv
    BY FlatInitial
  <1>2. FlatIInv /\ [FlatNext]_loopVars => FlatIInv'
    BY FlatStep
  <1>3. FlatIInv => FillsSize
    BY DEF FlatIInv, Within, Chunk, Full, FillsSize
  <1> QED
    BY <1>1, <1>2, <1>3, PTL DEF FlatSpec

\* A returned copy is the term.
LEMMA SameReturned ==
    ASSUME Returned, WellFormed(src), to \in Nat
    PROVE  SameTerm
  <1> SUFFICES ASSUME pc = "done"
               PROVE  /\ Unfold(mem, result) = Unfold(src.mem, src.term)
                      /\ to > to0 => /\ result.ptr \in to0 .. to - 1
                                     /\ \A a \in to0 .. to - 1 :
                                          IsPointer(mem[a]) => mem[a].ptr \in to0 .. to - 1
    BY DEF SameTerm
  <1>1. CASE mem = src.mem /\ result = src.term /\ to = to0
    BY <1>1
  <1>2. CASE CopyOf(src, mem, to0, to) /\ result = Moved(src.term, to0)
    BY <1>2, CopySame
  <1> QED
    BY <1>1, <1>2 DEF Returned

\* It returns the same term, of the same shape and with the same immediates, digits and
\* bytes, in words of its own: no pointer of the copy leads back to the source.
THEOREM FlatSameTerm == FlatSpec => []SameTerm
  <1>1. FlatInit => FlatIInv
    BY FlatInitial
  <1>2. FlatIInv /\ [FlatNext]_loopVars => FlatIInv'
    BY FlatStep
  <1>3. FlatIInv => SameTerm
    BY SameReturned DEF FlatIInv, FlatTyped
  <1> QED
    BY <1>1, <1>2, <1>3, PTL DEF FlatSpec

\* The source is left as it is: at every moment, and so are its objects.
THEOREM FlatCopyLeavesSource == FlatSpec => []Untouched
  <1>1. FlatInit => FlatIInv
    BY FlatInitial
  <1>2. FlatIInv /\ [FlatNext]_loopVars => FlatIInv'
    BY FlatStep
  <1>3. FlatIInv => Untouched
    BY DEF FlatIInv
  <1> QED
    BY <1>1, <1>2, <1>3, PTL DEF FlatSpec

-----------------------------------------------------------------------------
\* Calls of copy_list and copy_boxed for the term s
FrameOf(s) == [srcp : Pointers(s), dstp : Nat, dstp0 : Nat, i : Nat]

\* The word a call copies
At(s, f) == s.mem[f.srcp.ptr + f.i]

\* All calls but the innermost one have called for a pointer and wait.
Frames(s, st, t) ==
    /\ st \in Seq(FrameOf(s))
    /\ \A k \in 1 .. Len(st) : st[k].i <= Words(s.mem, st[k].srcp)
    /\ \A k \in 1 .. Len(st) - 1 : st[k].i < Words(s.mem, st[k].srcp) /\ IsPointer(At(s, st[k]))
    /\ Len(st) > 0 /\ st[1].dstp0 = t

\* What call j has called for; the outermost one is called for the term
Asked(s, st, j) == IF j = 0 THEN s.term ELSE At(s, st[j])

\* Where a call has yet to write
ToWrite(s, f) == f.dstp + f.i .. f.dstp + Words(s.mem, f.srcp) - 1

Open(s, st, x) == \E k \in 1 .. Len(st) : x \in ToWrite(s, st[k])

\* Every word of the copy is open or made of its origin, and every call answers with
\* the copy of what it was called for.
Origins(s, m, st, org, t, e) ==
    /\ \A x \in t .. e - 1 : org[x] \in 1 .. t - 1
    /\ \A x \in t .. e - 1 : Open(s, st, x) \/ Image(s, org, m[x], s.mem[org[x]], t, e)
    /\ \A k \in 1 .. Len(st) :
         /\ CopyAt(s, org, st[k].srcp, st[k].dstp, t, e)
         /\ Image(s, org, Answer(st[k]), Asked(s, st, k - 1), t, e)

\* What the words a call has not begun will take, n words
Rest(s, f, begun, n) ==
    Counts(s, s.mem, f.srcp.ptr + f.i + begun, f.srcp.ptr + Words(s.mem, f.srcp), n)

\* What the j outermost calls, which wait, will take
Waiting(s, st, j, n) ==
    \E sum \in [0 .. j -> Nat] :
        /\ sum[0] = 0 /\ sum[j] = n
        /\ \A k \in 1 .. j : Rest(s, st[k], 1, sum[k] - sum[k - 1])

\* What all of them will
Owing(s, st, n) ==
    \E v, c \in Nat : Waiting(s, st, Len(st) - 1, v) /\ Rest(s, st[Len(st)], 0, c) /\ n = v + c

Calls(s, m, st, t, e) ==
    /\ Frames(s, st, t)
    /\ \E org : Origins(s, m, st, org, t, e)
    /\ Owing(s, st, t + Size(s)[s.term] - e)

\* st2 has the j outermost calls of st, and then f.
Onto(st, st2, j, f) ==
    Len(st2) = j + 1 /\ (\A k \in 1 .. j : st2[k] = st[k]) /\ st2[j + 1] = f

-----------------------------------------------------------------------------
\* The calls are still calls.
LEMMA FramesOnto ==
    ASSUME NEW s, NEW st, NEW st2, NEW t, Frames(s, st, t), st2 \in Seq(FrameOf(s)),
           NEW j \in 0 .. Len(st), NEW f, Onto(st, st2, j, f),
           f.i <= Words(s.mem, f.srcp), j = 0 => f.dstp0 = t,
           j = Len(st) => st[j].i < Words(s.mem, st[j].srcp) /\ IsPointer(At(s, st[j]))
    PROVE  Frames(s, st2, t)
  <1>1. PICK n \in Nat : n = Len(st) /\ n > 0 /\ j \in Nat /\ j <= n
    BY DEF Frames
  <1>2. \A k \in 1 .. j + 1 : st2[k].i <= Words(s.mem, st2[k].srcp)
    <2> SUFFICES ASSUME NEW k \in 1 .. j + 1
                 PROVE  st2[k].i <= Words(s.mem, st2[k].srcp)
      OBVIOUS
    <2>1. CASE k = j + 1
      BY <2>1 DEF Onto
    <2>2. CASE k \in 1 .. j
      BY <1>1, <2>2 DEF Onto, Frames
    <2> QED
      BY <1>1, <2>1, <2>2
  <1>3. \A k \in 1 .. j : st2[k].i < Words(s.mem, st2[k].srcp) /\ IsPointer(At(s, st2[k]))
    <2> SUFFICES ASSUME NEW k \in 1 .. j
                 PROVE  st[k].i < Words(s.mem, st[k].srcp) /\ IsPointer(At(s, st[k]))
      BY DEF Onto
    <2>1. CASE k = n
      <3>1. j = n
        BY <1>1, <2>1
      <3> QED
        BY <1>1, <2>1, <3>1
    <2>2. CASE k # n
      <3>1. k \in 1 .. Len(st) - 1
        BY <1>1, <2>2
      <3> QED
        BY <3>1 DEF Frames
    <2> QED
      BY <2>1, <2>2
  <1>4. st2[1].dstp0 = t
    <2>1. CASE j = 0
      BY <2>1 DEF Onto
    <2>2. CASE j # 0
      <3>1. 1 \in 1 .. j
        BY <1>1, <2>2
      <3> QED
        BY <3>1 DEF Onto, Frames
    <2> QED
      BY <2>1, <2>2
  <1>5. Len(st2) = j + 1 /\ (j + 1) - 1 = j /\ j + 1 > 0
    BY <1>1 DEF Onto
  <1> QED
    BY <1>2, <1>3, <1>4, <1>5 DEF Frames

\* more is org up to e, and goes on to g.
Longer(org, more, t, e, g) ==
    (\A x \in t .. e - 1 : more[x] = org[x]) /\ \A x \in t .. g - 1 : more[x] \in 1 .. t - 1

\* What st2 leaves a word of k at, where st left it in m
Becomes(s, m, k, st, st2, more, t, e, g, x) ==
    \/ Open(s, st2, x)
    \/ Image(s, more, k[x], s.mem[more[x]], t, g)
    \/ x \in t .. e - 1 /\ k[x] = m[x] /\ ~Open(s, st, x)

\* f is a call of the call j of st.
Called(s, st, more, j, f, t, g) ==
    /\ CopyAt(s, more, f.srcp, f.dstp, t, g)
    /\ Image(s, more, Answer(f), Asked(s, st, j), t, g)

\* Where a word is neither open nor made of its origin now, it was closed before and stays.
LEMMA OriginsOnto ==
    ASSUME NEW s, NEW m, NEW k, NEW st, NEW st2, NEW org, NEW more,
           NEW t \in Nat, NEW e \in Nat, NEW g \in Nat, e <= g, Origins(s, m, st, org, t, e),
           Longer(org, more, t, e, g),
           Len(st) \in Nat, NEW j \in 0 .. Len(st), NEW f, Onto(st, st2, j, f),
           Called(s, st, more, j, f, t, g),
           \A x \in t .. g - 1 : Becomes(s, m, k, st, st2, more, t, e, g, x)
    PROVE  Origins(s, k, st2, more, t, g)
  <1>1. ASSUME NEW x, NEW v, Image(s, org, x, v, t, e)
        PROVE  Image(s, more, x, v, t, g)
    BY <1>1, ImageGrows DEF Longer
  <1>2. ASSUME NEW x \in t .. g - 1
        PROVE  Open(s, st2, x) \/ Image(s, more, k[x], s.mem[more[x]], t, g)
    <2>1. CASE x \in t .. e - 1 /\ k[x] = m[x] /\ ~Open(s, st, x)
      <3>1. Image(s, org, m[x], s.mem[org[x]], t, e) /\ more[x] = org[x]
        BY <2>1 DEF Origins, Longer
      <3> QED
        BY <1>1, <2>1, <3>1
    <2> QED
      BY <2>1 DEF Becomes
  <1>3. ASSUME NEW i \in 1 .. j + 1
        PROVE  /\ CopyAt(s, more, st2[i].srcp, st2[i].dstp, t, g)
               /\ Image(s, more, Answer(st2[i]), Asked(s, st2, i - 1), t, g)
    <2>1. Asked(s, st2, i - 1) = Asked(s, st, i - 1)
      <3>1. i - 1 = 0 \/ i - 1 \in 1 .. j
        OBVIOUS
      <3> QED
        BY <3>1 DEF Asked, Onto
    <2>2. CASE i = j + 1
      <3>1. i - 1 = j /\ st2[i] = f
        BY <2>2 DEF Onto
      <3> QED
        BY <2>1, <3>1 DEF Called
    <2>3. CASE i # j + 1
      <3>1. i \in 1 .. j /\ i \in 1 .. Len(st)
        BY <2>3
      <3>2. st2[i] = st[i]
        BY <3>1 DEF Onto
      <3>3. /\ CopyAt(s, org, st[i].srcp, st[i].dstp, t, e)
            /\ Image(s, org, Answer(st[i]), Asked(s, st, i - 1), t, e)
        BY <3>1 DEF Origins
      <3>4. CopyAt(s, more, st[i].srcp, st[i].dstp, t, g)
        <4>1. \A y \in t .. e - 1 : y \in t .. g - 1 /\ more[y] = org[y]
          BY DEF Longer
        <4> QED
          BY <3>3, <4>1 DEF CopyAt
      <3> QED
        BY <1>1, <2>1, <3>2, <3>3, <3>4
    <2> QED
      BY <2>2, <2>3
  <1>4. Len(st2) = j + 1
    BY DEF Onto
  <1>5. \A x \in t .. g - 1 : more[x] \in 1 .. t - 1
    BY DEF Longer
  <1> QED
    BY <1>2, <1>3, <1>4, <1>5 DEF Origins

\* Origins of the words t .. e - 1, and of those of an object w of len words behind them
Into(org, t, e) == \A x \in t .. e - 1 : org[x] \in 1 .. t - 1

Grown(s, org, more, w, t, e, len) ==
    /\ \A x \in t .. e - 1 : more[x] = org[x]
    /\ Into(more, t, e + len)
    /\ CopyAt(s, more, w, e, t, e + len)

\* The origins of the words of one more object.
LEMMA OriginsGrow ==
    ASSUME NEW s, WellFormed(s), NEW t, t = Cardinality(DOMAIN s.mem) + 1,
           NEW e \in Nat, t <= e, NEW org, Into(org, t, e),
           NEW w \in Pointers(s), NEW len \in Nat, len = Words(s.mem, w)
    PROVE  \E more : Grown(s, org, more, w, t, e, len)
  <1>1. PICK p \in Nat : p = w.ptr /\ p >= 1 /\ p + len <= t /\ t \in Nat
    <2>1. PICK last \in Nat : /\ t = last + 1 /\ w \in [tag : {"list", "boxed"}, ptr : 1 .. last]
                             /\ w.ptr + Words(s.mem, w) - 1 <= last
      BY PointerFacts
    <2>2. PICK p \in 1 .. last : p = w.ptr /\ p + len - 1 <= last
      BY <2>1
    <2>3. p \in Nat /\ p >= 1 /\ p + len <= t /\ t \in Nat
      BY <2>1, <2>2
    <2> QED
      BY <2>2, <2>3
  <1> DEFINE more == [x \in t .. (e + len) - 1 |-> IF x < e THEN org[x] ELSE p + (x - e)]
  <1>2. ASSUME NEW x \in t .. e - 1
        PROVE  more[x] = org[x]
    <2>1. x \in t .. (e + len) - 1 /\ x < e
      BY <1>1
    <2> QED
      BY <2>1
  <1>3. ASSUME NEW i \in 0 .. len - 1
        PROVE  e + i \in t .. (e + len) - 1 /\ more[e + i] = p + i
    <2>1. e + i \in t .. (e + len) - 1 /\ ~(e + i < e) /\ (e + i) - e = i
      BY <1>1
    <2> QED
      BY <2>1
  <1> HIDE DEF more
  <1>4. ASSUME NEW x \in t .. (e + len) - 1
        PROVE  more[x] \in 1 .. t - 1
    <2>1. CASE x < e
      <3>1. x \in t .. e - 1
        BY <1>1, <2>1
      <3> QED
        BY <1>2, <3>1 DEF Into
    <2>2. CASE ~(x < e)
      <3>1. x - e \in 0 .. len - 1 /\ e + (x - e) = x
        BY <1>1, <2>2
      <3>2. more[x] = p + (x - e)
        BY <1>3, <3>1
      <3> QED
        BY <1>1, <3>1, <3>2
    <2> QED
      BY <2>1, <2>2
  <1>5. CopyAt(s, more, w, e, t, e + len)
    BY <1>1, <1>3 DEF CopyAt
  <1> QED
    BY <1>2, <1>4, <1>5 DEF Grown, Into

-----------------------------------------------------------------------------
\* The object of a call, and the word it copies.
LEMMA FrameFacts ==
    ASSUME NEW s, WellFormed(s), NEW f \in FrameOf(s)
    PROVE  \E p \in Nat, len \in Nat, i \in Nat, d \in Nat :
             /\ p = f.srcp.ptr /\ len = Words(s.mem, f.srcp) /\ i = f.i /\ d = f.dstp
             /\ len >= 1 /\ f.srcp \in Pointers(s) /\ f.dstp0 \in Nat
             /\ i < len => At(s, f) \in Every(s.mem, s.term)
  <1>1. f.srcp \in Pointers(s) /\ f.dstp \in Nat /\ f.dstp0 \in Nat /\ f.i \in Nat
    BY DEF FrameOf
  <1>2. PICK last \in Nat : f.srcp \in [tag : {"list", "boxed"}, ptr : 1 .. last]
                            /\ Words(s.mem, f.srcp) \in Nat \ {0}
    BY <1>1, PointerFacts
  <1>3. PICK p \in 1 .. last, len \in Nat \ {0} : p = f.srcp.ptr /\ len = Words(s.mem, f.srcp)
    BY <1>2
  <1>4. p \in Nat /\ len \in Nat /\ len >= 1
    BY <1>3
  <1>5. f.i < len => At(s, f) \in Every(s.mem, s.term)
    <2>1. ASSUME f.i < len
          PROVE  f.i \in 0 .. Words(s.mem, f.srcp) - 1
      BY <1>1, <1>3, <2>1
    <2> QED
      BY <1>1, <2>1, ObjectWords DEF At
  <1> QED
    BY <1>1, <1>3, <1>4, <1>5

\* A call begins its next word.
LEMMA RestDrop ==
    ASSUME NEW s, WellFormed(s), NEW f \in FrameOf(s), f.i < Words(s.mem, f.srcp),
           NEW c \in Nat, Rest(s, f, 0, c)
    PROVE  \E z \in Nat : z = Size(s)[At(s, f)] /\ c - z \in Nat /\ Rest(s, f, 1, c - z)
  <1>1. PICK p \in Nat, len \in Nat, i \in Nat :
          p = f.srcp.ptr /\ len = Words(s.mem, f.srcp) /\ i = f.i /\ i < len
    BY FrameFacts
  <1>2. Counts(s, s.mem, p + i, p + len, c)
    <2>1. p + i + 0 = p + i
      OBVIOUS
    <2> QED
      BY <1>1, <2>1 DEF Rest
  <1>3. p + i \in Nat /\ p + len \in Nat /\ p + i < p + len /\ c \in Int
    BY <1>1
  <1>4. /\ Size(s)[s.mem[p + i]] \in Nat /\ c - Size(s)[s.mem[p + i]] \in Nat
        /\ Counts(s, s.mem, p + i + 1, p + len, c - Size(s)[s.mem[p + i]])
    BY <1>2, <1>3, CountsDrop
  <1> QED
    BY <1>1, <1>4 DEF Rest, At

\* It has begun it, and goes on with the one after it.
LEMMA RestNext ==
    ASSUME NEW s, WellFormed(s), NEW f \in FrameOf(s), NEW g \in FrameOf(s),
           g.srcp = f.srcp, g.i = f.i + 1, NEW c, Rest(s, f, 1, c)
    PROVE  Rest(s, g, 0, c)
  <1>1. PICK p \in Nat, i \in Nat : p = f.srcp.ptr /\ i = f.i
    BY FrameFacts
  <1>2. p + i + 1 = p + (i + 1) + 0
    OBVIOUS
  <1> QED
    BY <1>1, <1>2 DEF Rest

\* A call that has copied its last word needs nothing.
LEMMA RestNone ==
    ASSUME NEW s, WellFormed(s), NEW f \in FrameOf(s), NEW begun \in {0, 1},
           f.i + begun = Words(s.mem, f.srcp), NEW c \in Nat, Rest(s, f, begun, c)
    PROVE  c = 0
  <1>1. PICK p \in Nat, len \in Nat, i \in Nat :
          p = f.srcp.ptr /\ len = Words(s.mem, f.srcp) /\ i = f.i
    BY FrameFacts
  <1>2. p + i + begun = p + len /\ p + len \in Nat /\ c \in Int
    BY <1>1
  <1>3. Counts(s, s.mem, p + len, p + len, c)
    BY <1>1, <1>2 DEF Rest
  <1> QED
    BY <1>2, <1>3, CountsNumber

\* A call that begins needs what flat_size makes of its pointer, less the object itself.
LEMMA RestNew ==
    ASSUME NEW s, WellFormed(s), NEW f \in FrameOf(s), f.i = 0,
           NEW len \in Nat, len = Words(s.mem, f.srcp)
    PROVE  Size(s)[f.srcp] - len \in Nat /\ Rest(s, f, 0, Size(s)[f.srcp] - len)
  <1> DEFINE w == f.srcp
  <1>1. PICK p \in Nat : p = w.ptr /\ w \in Pointers(s)
    BY FrameFacts
  <1>2. Counts(s, s.mem, p, p, 0)
    <2> DEFINE acc == [x \in p .. p |-> 0]
    <2>1. acc \in [p .. p -> Nat] /\ acc[p] = acc[p] + 0 /\ p .. p - 1 = {}
      OBVIOUS
    <2> QED
      BY <2>1 DEF Counts
  <1> HIDE DEF w
  <1>3. Extended(s, s.mem, s.mem, p, p, w, len)
    BY <1>1 DEF Extended, w
  <1>4. Size(s)[w] - len \in Nat /\ Counts(s, s.mem, p, p + len, 0 + (Size(s)[w] - len))
    <2>1. p <= p /\ 0 \in Int
      OBVIOUS
    <2> QED
      BY <1>1, <1>2, <1>3, <2>1, CountsAppend
  <1>5. PICK c \in Nat : c = Size(s)[w] - len
    BY <1>4
  <1>6. 0 + c = c /\ p + 0 + 0 = p
    OBVIOUS
  <1> QED
    BY <1>1, <1>4, <1>5, <1>6 DEF Rest, w

\* One more call waits.
LEMMA BelowMore ==
    ASSUME NEW s, NEW st, NEW j \in Nat, NEW v \in Nat, Waiting(s, st, j, v),
           NEW c \in Nat, Rest(s, st[j + 1], 1, c)
    PROVE  Waiting(s, st, j + 1, v + c)
  <1>1. PICK sum \in [0 .. j -> Nat] :
          sum[0] = 0 /\ sum[j] = v /\ \A k \in 1 .. j : Rest(s, st[k], 1, sum[k] - sum[k - 1])
    BY DEF Waiting
  <1> DEFINE all == [k \in 0 .. j + 1 |-> IF k = j + 1 THEN v + c ELSE sum[k]]
  <1>2. all \in [0 .. j + 1 -> Nat] /\ all[0] = 0 /\ all[j + 1] = v + c
    BY <1>1
  <1>3. ASSUME NEW k \in 1 .. j + 1
        PROVE  Rest(s, st[k], 1, all[k] - all[k - 1])
    <2>1. CASE k = j + 1
      <3>1. all[k] = v + c /\ all[k - 1] = v
        BY <1>1, <2>1
      <3> HIDE DEF all
      <3>2. all[k] - all[k - 1] = c
        BY <3>1
      <3> QED
        BY <2>1, <3>2
    <2>2. CASE k # j + 1
      <3>1. k \in 1 .. j /\ all[k] = sum[k] /\ all[k - 1] = sum[k - 1]
        BY <2>2
      <3> QED
        BY <1>1, <3>1
    <2> QED
      BY <2>1, <2>2
  <1> HIDE DEF all
  <1> QED
    BY <1>2, <1>3 DEF Waiting

\* The innermost of the calls that wait.
LEMMA BelowLess ==
    ASSUME NEW s, WellFormed(s), NEW st, NEW j \in Nat, j >= 1, NEW v \in Nat, Waiting(s, st, j, v),
           st[j] \in FrameOf(s), st[j].i < Words(s.mem, st[j].srcp)
    PROVE  \E u, c \in Nat : Waiting(s, st, j - 1, u) /\ Rest(s, st[j], 1, c) /\ v = u + c
  <1>1. PICK sum \in [0 .. j -> Nat] :
          sum[0] = 0 /\ sum[j] = v /\ \A k \in 1 .. j : Rest(s, st[k], 1, sum[k] - sum[k - 1])
    BY DEF Waiting
  <1>2. PICK u \in Nat : u = sum[j - 1]
    <2>1. j - 1 \in 0 .. j
      OBVIOUS
    <2> QED
      BY <1>1, <2>1
  <1>3. Rest(s, st[j], 1, v - u)
    <2>1. j \in 1 .. j
      OBVIOUS
    <2> QED
      BY <1>1, <1>2, <2>1
  <1>4. v - u \in Nat
    <2>1. PICK p \in Nat, len \in Nat, i \in Nat :
            p = st[j].srcp.ptr /\ len = Words(s.mem, st[j].srcp) /\ i = st[j].i /\ i < len
      BY FrameFacts
    <2>2. p + i + 1 \in Nat /\ p + len \in Nat /\ p + i + 1 <= p + len /\ v - u \in Int
      <3>1. i < len
        BY <2>1
      <3> QED
        BY <3>1
    <2>3. Counts(s, s.mem, p + i + 1, p + len, v - u)
      BY <1>3, <2>1 DEF Rest
    <2> QED
      BY <2>2, <2>3, CountsNumber
  <1>5. Waiting(s, st, j - 1, u)
    <2> DEFINE less == [k \in 0 .. j - 1 |-> sum[k]]
    <2>1. less \in [0 .. j - 1 -> Nat] /\ less[0] = 0 /\ less[j - 1] = u
      BY <1>1, <1>2
    <2>2. ASSUME NEW k \in 1 .. j - 1
          PROVE  Rest(s, st[k], 1, less[k] - less[k - 1])
      <3>1. k \in 1 .. j /\ less[k] = sum[k] /\ less[k - 1] = sum[k - 1]
        OBVIOUS
      <3> QED
        BY <1>1, <3>1
    <2> HIDE DEF less
    <2> QED
      BY <2>1, <2>2 DEF Waiting
  <1>6. v = u + (v - u)
    OBVIOUS
  <1> QED
    BY <1>3, <1>4, <1>5, <1>6

\* What all calls need, when others go on with them.
LEMMA OwingOnto ==
    ASSUME NEW s, NEW st, NEW st2, NEW j \in Nat, NEW f, Onto(st, st2, j, f),
           NEW v \in Nat, Waiting(s, st, j, v), NEW c \in Nat, Rest(s, f, 0, c)
    PROVE  Owing(s, st2, v + c)
  <1>1. Waiting(s, st2, j, v)
    BY DEF Waiting, Onto
  <1>2. Len(st2) - 1 = j /\ st2[Len(st2)] = f
    BY DEF Onto
  <1> QED
    BY <1>1, <1>2 DEF Owing

-----------------------------------------------------------------------------
\* Words that are open in st2.
LEMMA OpenOnto ==
    ASSUME NEW s, NEW st, NEW st2, NEW j \in Nat, NEW g, Onto(st, st2, j, g), NEW x,
           (\E k \in 1 .. j : x \in ToWrite(s, st[k])) \/ x \in ToWrite(s, g)
    PROVE  Open(s, st2, x)
  <1>1. CASE x \in ToWrite(s, g)
    <2>1. j + 1 \in 1 .. Len(st2) /\ st2[j + 1] = g
      BY DEF Onto
    <2> QED
      BY <1>1, <2>1 DEF Open
  <1>2. CASE \E k \in 1 .. j : x \in ToWrite(s, st[k])
    <2>1. PICK k \in 1 .. j : x \in ToWrite(s, st[k])
      BY <1>2
    <2>2. k \in 1 .. Len(st2) /\ st2[k] = st[k]
      BY DEF Onto
    <2> QED
      BY <2>1, <2>2 DEF Open
  <1> QED
    BY <1>1, <1>2

\* An interval without its first number.
LEMMA WithoutFirst ==
    ASSUME NEW d \in Nat, NEW i \in Nat, NEW len \in Nat, NEW x \in d + i .. d + len - 1,
           x # d + i
    PROVE  x \in d + (i + 1) .. d + len - 1
  OBVIOUS

\* What a call has to write when it has written its next word.
LEMMA ToWriteNext ==
    ASSUME NEW s, WellFormed(s), NEW f \in FrameOf(s), NEW g \in FrameOf(s),
           g.srcp = f.srcp, g.dstp = f.dstp, g.i = f.i + 1,
           NEW x, x \in ToWrite(s, f), x # f.dstp + f.i
    PROVE  x \in ToWrite(s, g)
  <1>1. PICK len \in Nat, i \in Nat, d \in Nat :
          len = Words(s.mem, f.srcp) /\ i = f.i /\ d = f.dstp
    BY FrameFacts
  <1>2. x \in d + i .. d + len - 1 /\ x # d + i
    BY <1>1 DEF ToWrite
  <1>3. x \in d + (i + 1) .. d + len - 1
    BY <1>2, WithoutFirst
  <1> QED
    BY <1>1, <1>3 DEF ToWrite

\* The word a call writes next is in the copy, and comes from the word it reads.
LEMMA NextPlace ==
    ASSUME NEW s, WellFormed(s), NEW f \in FrameOf(s), f.i < Words(s.mem, f.srcp),
           NEW org, NEW t, NEW e, CopyAt(s, org, f.srcp, f.dstp, t, e)
    PROVE  f.dstp + f.i \in t .. e - 1 /\ s.mem[org[f.dstp + f.i]] = At(s, f)
  <1>1. f.i \in 0 .. Words(s.mem, f.srcp) - 1
    <2>1. PICK len \in Nat, i \in Nat : len = Words(s.mem, f.srcp) /\ i = f.i /\ i < len
      BY FrameFacts
    <2> QED
      BY <2>1
  <1> QED
    BY <1>1 DEF CopyAt, At

\* The innermost of the calls of st is f, and all before it wait.
Inner(s, m, st, t, e, n, f) ==
    /\ WellFormed(s) /\ t = Cardinality(DOMAIN s.mem) + 1 /\ t \in Nat /\ t <= e
    /\ Calls(s, m, st, t, e)
    /\ n = Len(st) /\ f = st[n]

\* g is the call f with one more word copied.
Advanced(f, g) ==
    g.srcp = f.srcp /\ g.dstp = f.dstp /\ g.dstp0 = f.dstp0 /\ g.i = f.i + 1

\* g begins to copy the object of w to d; it answers with q.
Begun(g, w, d, q) == g.srcp = w /\ g.dstp = d /\ g.dstp0 = q /\ g.i = 0

\* k has the words of m from t on, e excluded, and v at y.
Put(m, k, t, e, y, v) == k[y] = v /\ \A x \in t .. e - 1 : x # y => k[x] = m[x]

\* f meets the pointer w, to an object of len words.
Meets(s, f, w, len) == w = At(s, f) /\ len = Words(s.mem, w)

Unfinished(s, f) == f.i < Words(s.mem, f.srcp)

Finished(s, f) == f.i = Words(s.mem, f.srcp)

\* Its word is no pointer and is copied as it is.
LEMMA WordCopied ==
    ASSUME NEW s, NEW m, NEW st, NEW t \in Nat, NEW e \in Nat, NEW n \in Nat, n >= 1,
           NEW f \in FrameOf(s), Inner(s, m, st, t, e, n, f), Unfinished(s, f),
           ~IsPointer(At(s, f)), NEW k, Put(m, k, t, e, f.dstp + f.i, At(s, f)),
           NEW st2 \in Seq(FrameOf(s)), NEW g \in FrameOf(s), Onto(st, st2, n - 1, g),
           Advanced(f, g)
    PROVE  Calls(s, k, st2, t, e)
  <1>1. /\ WellFormed(s) /\ t = Cardinality(DOMAIN s.mem) + 1 /\ t \in Nat /\ t <= e
        /\ n = Len(st) /\ f = st[n]
        /\ Frames(s, st, t) /\ Owing(s, st, t + Size(s)[s.term] - e)
    BY DEF Inner, Calls
  <1>2. PICK org : Origins(s, m, st, org, t, e)
    BY DEF Inner, Calls
  <1>3. /\ CopyAt(s, org, f.srcp, f.dstp, t, e)
        /\ Image(s, org, Answer(f), Asked(s, st, n - 1), t, e)
        /\ f.dstp + f.i \in t .. e - 1 /\ s.mem[org[f.dstp + f.i]] = At(s, f)
    <2>1. n \in 1 .. Len(st)
      BY <1>1
    <2>2. /\ CopyAt(s, org, f.srcp, f.dstp, t, e)
          /\ Image(s, org, Answer(f), Asked(s, st, n - 1), t, e)
      BY <1>1, <1>2, <2>1 DEF Origins
    <2>3. f.dstp + f.i \in t .. e - 1 /\ s.mem[org[f.dstp + f.i]] = At(s, f)
      <3>1. WellFormed(s) /\ CopyAt(s, org, f.srcp, f.dstp, t, e) /\ f.i < Words(s.mem, f.srcp)
        BY <1>1, <2>2 DEF Unfinished
      <3> QED
        BY <3>1, NextPlace
    <2> QED
      BY <2>2, <2>3
  <1>4. n - 1 \in 0 .. Len(st) /\ n - 1 \in Nat /\ n - 1 # Len(st)
    BY <1>1
  <1>5. PICK len \in Nat, i \in Nat, d \in Nat :
          len = Words(s.mem, f.srcp) /\ i = f.i /\ d = f.dstp /\ i < len
    BY <1>1, FrameFacts DEF Unfinished
  <1>6. Frames(s, st2, t)
    <2>1. ASSUME n - 1 = 0
          PROVE  g.dstp0 = t
      <3>1. n = 1
        BY <2>1
      <3> QED
        BY <1>1, <3>1 DEF Frames, Advanced
    <2>2. g.i <= Words(s.mem, g.srcp)
      BY <1>5 DEF Advanced
    <2> QED
      BY <1>1, <1>4, <2>1, <2>2, FramesOnto
  <1>7. Origins(s, k, st2, org, t, e)
    <2>1. ASSUME NEW x \in t .. e - 1
          PROVE  Becomes(s, m, k, st, st2, org, t, e, e, x)
      <3>1. CASE x = f.dstp + f.i
        BY <1>3, <3>1 DEF Image, Put, Becomes
      <3>2. CASE x # f.dstp + f.i /\ Open(s, st, x)
        <4>1. PICK h \in 1 .. n : x \in ToWrite(s, st[h])
          BY <1>1, <3>2 DEF Open
        <4>2. CASE h \in 1 .. n - 1
          BY <1>4, <4>1, <4>2, OpenOnto DEF Becomes
        <4>3. CASE h = n
          <5>1. x \in ToWrite(s, g)
            BY <1>1, <3>2, <4>1, <4>3, ToWriteNext DEF Advanced
          <5> QED
            BY <1>4, <5>1, OpenOnto DEF Becomes
        <4> QED
          BY <1>1, <4>2, <4>3
      <3>3. CASE x # f.dstp + f.i /\ ~Open(s, st, x)
        BY <3>3 DEF Put, Becomes
      <3> QED
        BY <3>1, <3>2, <3>3
    <2>2. Called(s, st, org, n - 1, g, t, e)
      BY <1>3 DEF Answer, Advanced, Called
    <2>3. Longer(org, org, t, e, e)
      BY <1>2 DEF Origins, Longer
    <2>4. Len(st) \in Nat /\ e <= e
      BY <1>1
    <2> QED
      BY <1>2, <1>4, <2>1, <2>2, <2>3, <2>4, OriginsOnto
  <1>8. Owing(s, st2, t + Size(s)[s.term] - e)
    <2>1. PICK v \in Nat, c \in Nat :
            /\ Waiting(s, st, n - 1, v) /\ Rest(s, f, 0, c)
            /\ t + Size(s)[s.term] - e = v + c
      BY <1>1 DEF Owing
    <2>2. Rest(s, f, 1, c)
      <3>1. PICK z \in Nat : z = Size(s)[At(s, f)] /\ Rest(s, f, 1, c - z)
        BY <1>1, <2>1, RestDrop DEF Unfinished
      <3>2. At(s, f) \in Every(s.mem, s.term)
        BY <1>1, <1>5, FrameFacts
      <3>3. z = 0 /\ c - 0 = c
        BY <1>1, <2>1, <3>1, <3>2, SizeFacts
      <3> QED
        BY <3>1, <3>3
    <2>3. Rest(s, g, 0, c)
      BY <1>1, <2>2, RestNext DEF Advanced
    <2> QED
      BY <1>4, <2>1, <2>3, OwingOnto
  <1> QED
    BY <1>6, <1>7, <1>8 DEF Calls

\* A call returns, and the one that waited for it stores what it answers.
LEMMA CallReturns ==
    ASSUME NEW s, NEW m, NEW st, NEW t \in Nat, NEW e \in Nat, NEW n \in Nat, n >= 2,
           NEW f \in FrameOf(s), Inner(s, m, st, t, e, n, f), Finished(s, f),
           NEW c \in FrameOf(s), c = st[n - 1], NEW k, Put(m, k, t, e, c.dstp + c.i, Answer(f)),
           NEW st2 \in Seq(FrameOf(s)), NEW g \in FrameOf(s), Onto(st, st2, n - 2, g),
           Advanced(c, g)
    PROVE  Calls(s, k, st2, t, e)
  <1>1. /\ WellFormed(s) /\ t = Cardinality(DOMAIN s.mem) + 1 /\ t \in Nat /\ t <= e
        /\ n = Len(st) /\ f = st[n]
        /\ Frames(s, st, t) /\ Owing(s, st, t + Size(s)[s.term] - e)
    BY DEF Inner, Calls
  <1>2. PICK org : Origins(s, m, st, org, t, e)
    BY DEF Inner, Calls
  <1>3. /\ n - 2 \in 0 .. n /\ n - 2 \in Nat /\ n - 2 # n /\ n - 1 \in 1 .. n - 1
        /\ n - 1 \in 1 .. n /\ n \in 1 .. n /\ n - 1 # 0 /\ (n - 1) - 1 = n - 2
    OBVIOUS
  <1>4. c.i < Words(s.mem, c.srcp) /\ IsPointer(At(s, c))
    BY <1>1, <1>3 DEF Frames
  <1>5. /\ CopyAt(s, org, c.srcp, c.dstp, t, e)
        /\ Image(s, org, Answer(c), Asked(s, st, n - 2), t, e)
        /\ Image(s, org, Answer(f), At(s, c), t, e)
    <2>1. /\ CopyAt(s, org, st[n - 1].srcp, st[n - 1].dstp, t, e)
          /\ Image(s, org, Answer(st[n - 1]), Asked(s, st, (n - 1) - 1), t, e)
          /\ Image(s, org, Answer(st[n]), Asked(s, st, n - 1), t, e)
      BY <1>1, <1>2, <1>3 DEF Origins
    <2>2. Asked(s, st, n - 1) = At(s, c)
      BY <1>3 DEF Asked
    <2> QED
      BY <1>1, <1>3, <2>1, <2>2
  <1>6. c.dstp + c.i \in t .. e - 1 /\ s.mem[org[c.dstp + c.i]] = At(s, c)
    <2>1. WellFormed(s) /\ CopyAt(s, org, c.srcp, c.dstp, t, e) /\ c.i < Words(s.mem, c.srcp)
      BY <1>1, <1>4, <1>5
    <2> QED
      BY <2>1, NextPlace
  <1>7. Frames(s, st2, t)
    <2>1. ASSUME n - 2 = 0
          PROVE  g.dstp0 = t
      <3>1. n - 1 = 1
        BY <2>1
      <3> QED
        BY <1>1, <3>1 DEF Frames, Advanced
    <2>2. g.i <= Words(s.mem, g.srcp)
      <3>1. PICK len \in Nat, i \in Nat : len = Words(s.mem, c.srcp) /\ i = c.i /\ i < len
        BY <1>1, <1>4, FrameFacts
      <3> QED
        BY <3>1 DEF Advanced
    <2> QED
      BY <1>1, <1>3, <2>1, <2>2, FramesOnto
  <1>8. Origins(s, k, st2, org, t, e)
    <2>1. ASSUME NEW x \in t .. e - 1
          PROVE  Becomes(s, m, k, st, st2, org, t, e, e, x)
      <3>1. CASE x = c.dstp + c.i
        BY <1>5, <1>6, <3>1 DEF Put, Becomes
      <3>2. CASE x # c.dstp + c.i /\ Open(s, st, x)
        <4>1. PICK h \in 1 .. n : x \in ToWrite(s, st[h])
          BY <1>1, <3>2 DEF Open
        <4>2. CASE h \in 1 .. n - 2
          BY <1>3, <4>1, <4>2, OpenOnto DEF Becomes
        <4>3. CASE h = n - 1
          <5>1. x \in ToWrite(s, g)
            BY <1>1, <3>2, <4>1, <4>3, ToWriteNext DEF Advanced
          <5> QED
            BY <1>3, <5>1, OpenOnto DEF Becomes
        <4>4. CASE h = n
          <5>1. PICK len \in Nat, d \in Nat : len = Words(s.mem, f.srcp) /\ d = f.dstp
            BY <1>1, FrameFacts
          <5>2. x \in d + len .. d + len - 1
            BY <1>1, <4>1, <4>4, <5>1 DEF ToWrite, Finished
          <5> QED
            BY <5>2
        <4> QED
          BY <4>2, <4>3, <4>4
      <3>3. CASE x # c.dstp + c.i /\ ~Open(s, st, x)
        BY <3>3 DEF Put, Becomes
      <3> QED
        BY <3>1, <3>2, <3>3
    <2>2. Called(s, st, org, n - 2, g, t, e)
      BY <1>5 DEF Answer, Advanced, Called
    <2>3. Longer(org, org, t, e, e)
      BY <1>2 DEF Origins, Longer
    <2>4. Len(st) \in Nat /\ e <= e /\ n - 2 \in 0 .. Len(st)
      BY <1>1
    <2> QED
      BY <1>2, <2>1, <2>2, <2>3, <2>4, OriginsOnto
  <1>9. Owing(s, st2, t + Size(s)[s.term] - e)
    <2>1. PICK v \in Nat, r \in Nat :
            /\ Waiting(s, st, n - 1, v) /\ Rest(s, f, 0, r)
            /\ t + Size(s)[s.term] - e = v + r
      BY <1>1 DEF Owing
    <2>2. r = 0
      <3>1. f.i + 0 = Words(s.mem, f.srcp)
        BY DEF FrameOf, Finished
      <3> QED
        BY <1>1, <2>1, <3>1, RestNone
    <2>3. PICK u \in Nat, y \in Nat : Waiting(s, st, n - 2, u) /\ Rest(s, c, 1, y) /\ v = u + y
      <3>1. n - 1 \in Nat /\ n - 1 >= 1
        OBVIOUS
      <3>2. \E u, y \in Nat : Waiting(s, st, (n - 1) - 1, u) /\ Rest(s, st[n - 1], 1, y) /\ v = u + y
        BY <1>1, <1>4, <2>1, <3>1, BelowLess
      <3> QED
        BY <1>3, <3>2
    <2>4. Rest(s, g, 0, y)
      BY <1>1, <2>3, RestNext DEF Advanced
    <2>5. Owing(s, st2, u + y)
      BY <1>3, <2>3, <2>4, OwingOnto
    <2>6. v + r = u + y
      BY <2>2, <2>3
    <2> QED
      BY <2>1, <2>5, <2>6
  <1> QED
    BY <1>7, <1>8, <1>9 DEF Calls

\* A pointer is called for.
LEMMA WordCalled ==
    ASSUME NEW s, NEW m, NEW st, NEW t \in Nat, NEW e \in Nat, NEW n \in Nat, n >= 1,
           NEW f \in FrameOf(s), Inner(s, m, st, t, e, n, f), Unfinished(s, f),
           NEW w \in Pointers(s), NEW len \in Nat, Meets(s, f, w, len),
           NEW k, Kept(m, k, t, e),
           NEW st2 \in Seq(FrameOf(s)), NEW g \in FrameOf(s), Onto(st, st2, n, g),
           Begun(g, w, e, e)
    PROVE  Calls(s, k, st2, t, e + len)
  <1>1. /\ WellFormed(s) /\ t = Cardinality(DOMAIN s.mem) + 1 /\ t \in Nat /\ t <= e
        /\ n = Len(st) /\ f = st[n] /\ IsPointer(w)
        /\ Frames(s, st, t) /\ Owing(s, st, t + Size(s)[s.term] - e)
    BY DEF Inner, Calls, Pointers
  <1>2. PICK org : Origins(s, m, st, org, t, e)
    BY DEF Inner, Calls
  <1>3. Into(org, t, e)
    BY <1>2 DEF Origins, Into
  <1>4. PICK more : /\ \A x \in t .. e - 1 : more[x] = org[x]
                    /\ \A x \in t .. (e + len) - 1 : more[x] \in 1 .. t - 1
                    /\ CopyAt(s, more, w, e, t, e + len)
    <2>1. WellFormed(s) /\ t = Cardinality(DOMAIN s.mem) + 1 /\ t <= e /\ len = Words(s.mem, w)
      BY <1>1 DEF Meets
    <2>2. \E more : Grown(s, org, more, w, t, e, len)
      BY <1>3, <2>1, OriginsGrow
    <2> QED
      BY <2>2 DEF Grown, Into
  <1>5. Answer(g) = Moved(w, e)
    <2>1. w = [tag |-> w.tag, ptr |-> w.ptr]
      BY <1>1, MovedFacts
    <2>2. Moved([tag |-> w.tag, ptr |-> w.ptr], e) = [tag |-> w.tag, ptr |-> e]
      BY DEF Moved
    <2> QED
      BY <2>1, <2>2 DEF Answer, Begun
  <1>6. n \in 0 .. Len(st) /\ e + len \in Nat /\ e <= e + len /\ n # 0
    BY <1>1
  <1>7. Frames(s, st2, t)
    <2>1. g.i <= Words(s.mem, g.srcp)
      BY DEF Begun, Meets
    <2>2. n = 0 => g.dstp0 = t
      BY <1>6
    <2>3. st[n].i < Words(s.mem, st[n].srcp) /\ IsPointer(At(s, st[n]))
      BY <1>1 DEF Unfinished, Meets
    <2> QED
      BY <1>1, <1>6, <2>1, <2>2, <2>3, FramesOnto
  <1>8. Origins(s, k, st2, more, t, e + len)
    <2>1. ASSUME NEW x \in t .. (e + len) - 1
          PROVE  Becomes(s, m, k, st, st2, more, t, e, e + len, x)
      <3>1. CASE x \in t .. e - 1 /\ Open(s, st, x)
        <4>1. PICK h \in 1 .. n : x \in ToWrite(s, st[h])
          BY <1>1, <3>1 DEF Open
        <4> QED
          BY <4>1, OpenOnto DEF Becomes
      <3>2. CASE x \in t .. e - 1 /\ ~Open(s, st, x)
        BY <3>2 DEF Kept, Becomes
      <3>3. CASE x \notin t .. e - 1
        <4>1. x \in e + 0 .. e + len - 1
          BY <3>3
        <4>2. x \in ToWrite(s, g)
          BY <4>1 DEF ToWrite, Begun, Meets
        <4> QED
          BY <4>2, OpenOnto DEF Becomes
      <3> QED
        BY <3>1, <3>2, <3>3
    <2>2. Called(s, st, more, n, g, t, e + len)
      BY <1>1, <1>4, <1>5, <1>6 DEF Image, Asked, Begun, Meets, Called
    <2>3. Longer(org, more, t, e, e + len)
      BY <1>4 DEF Longer
    <2>4. Len(st) \in Nat /\ n \in 0 .. Len(st) /\ e + len \in Nat /\ e <= e + len
      BY <1>1, <1>6
    <2> QED
      BY <1>2, <2>1, <2>2, <2>3, <2>4, OriginsOnto
  <1>9. Owing(s, st2, t + Size(s)[s.term] - (e + len))
    <2>1. PICK v \in Nat, r \in Nat :
            /\ Waiting(s, st, n - 1, v) /\ Rest(s, f, 0, r)
            /\ t + Size(s)[s.term] - e = v + r
      BY <1>1 DEF Owing
    <2>2. PICK z \in Nat, y \in Nat : z = Size(s)[w] /\ y = r - z /\ Rest(s, f, 1, y)
      BY <1>1, <2>1, RestDrop DEF Unfinished, Meets
    <2>3. Waiting(s, st, n, v + y)
      <3>1. n - 1 \in Nat /\ (n - 1) + 1 = n
        OBVIOUS
      <3>2. Waiting(s, st, (n - 1) + 1, v + y)
        BY <1>1, <2>1, <2>2, <3>1, BelowMore
      <3> QED
        BY <3>1, <3>2
    <2>4. PICK x \in Nat : x = z - len /\ Rest(s, g, 0, x)
      BY <1>1, <2>2, RestNew DEF Begun, Meets
    <2>5. Owing(s, st2, (v + y) + x)
      <3>1. v + y \in Nat
        OBVIOUS
      <3> QED
        BY <2>3, <2>4, <3>1, OwingOnto
    <2>6. PICK total \in Nat : total = Size(s)[s.term]
      <3>1. s.term \in Every(s.mem, s.term)
        BY DEF Every
      <3> QED
        BY <1>1, <3>1, SizesAreNumbers
    <2>7. t + total - (e + len) = (v + y) + x
      <3>1. t + total - e = v + r
        BY <2>1, <2>6
      <3>2. y = r - z /\ x = z - len
        BY <2>2, <2>4
      <3> QED
        BY <3>1, <3>2
    <2> QED
      BY <2>5, <2>6, <2>7
  <1> QED
    BY <1>7, <1>8, <1>9 DEF Calls

\* The tail of a cell is another cell: the call goes on with it.
LEMMA CellFollowed ==
    ASSUME NEW s, NEW m, NEW st, NEW t \in Nat, NEW e \in Nat, NEW n \in Nat, n >= 1,
           NEW f \in FrameOf(s), Inner(s, m, st, t, e, n, f), f.srcp.tag = "list", f.i = 1,
           NEW w \in Pointers(s), NEW len \in Nat, Meets(s, f, w, len), w.tag = "list",
           NEW k, Put(m, k, t, e, f.dstp + f.i, Moved(w, e)),
           NEW st2 \in Seq(FrameOf(s)), NEW g \in FrameOf(s), Onto(st, st2, n - 1, g),
           Begun(g, w, e, f.dstp0)
    PROVE  Calls(s, k, st2, t, e + len)
  <1>1. /\ WellFormed(s) /\ t = Cardinality(DOMAIN s.mem) + 1 /\ t \in Nat /\ t <= e
        /\ n = Len(st) /\ f = st[n]
        /\ Frames(s, st, t) /\ Owing(s, st, t + Size(s)[s.term] - e)
    BY DEF Inner, Calls
  <1>2. PICK org : Origins(s, m, st, org, t, e)
    BY DEF Inner, Calls
  <1>3. /\ n - 1 \in 0 .. Len(st) /\ n - 1 \in Nat /\ n - 1 # Len(st) /\ e + len \in Nat
        /\ e <= e + len
    BY <1>1
  <1>4. Words(s.mem, f.srcp) = 2 /\ Words(s.mem, w) = len /\ len = 2 /\ IsPointer(w)
    BY DEF Words, IsPointer, Meets
  <1>5. Into(org, t, e)
    BY <1>2 DEF Origins, Into
  <1>6. PICK more : /\ \A x \in t .. e - 1 : more[x] = org[x]
                    /\ \A x \in t .. (e + len) - 1 : more[x] \in 1 .. t - 1
                    /\ CopyAt(s, more, w, e, t, e + len)
    <2>1. WellFormed(s) /\ t = Cardinality(DOMAIN s.mem) + 1 /\ t <= e /\ len = Words(s.mem, w)
      BY <1>1, <1>4
    <2>2. \E more : Grown(s, org, more, w, t, e, len)
      BY <1>5, <2>1, OriginsGrow
    <2> QED
      BY <2>2 DEF Grown, Into
  <1>7. /\ Image(s, org, Answer(f), Asked(s, st, n - 1), t, e)
        /\ f.dstp + f.i \in t .. e - 1 /\ s.mem[org[f.dstp + f.i]] = w
    <2>1. n \in 1 .. Len(st)
      BY <1>1
    <2>2. /\ CopyAt(s, org, f.srcp, f.dstp, t, e)
          /\ Image(s, org, Answer(f), Asked(s, st, n - 1), t, e)
      BY <1>1, <1>2, <2>1 DEF Origins
    <2>3. f.dstp + f.i \in t .. e - 1 /\ s.mem[org[f.dstp + f.i]] = At(s, f)
      <3>1. WellFormed(s) /\ CopyAt(s, org, f.srcp, f.dstp, t, e) /\ f.i < Words(s.mem, f.srcp)
        BY <1>1, <1>4, <2>2
      <3> QED
        BY <3>1, NextPlace
    <2> QED
      BY <2>2, <2>3 DEF Meets
  <1>8. Frames(s, st2, t)
    <2>1. ASSUME n - 1 = 0
          PROVE  g.dstp0 = t
      <3>1. n = 1
        BY <2>1
      <3> QED
        BY <1>1, <3>1 DEF Frames, Begun
    <2>2. g.i <= Words(s.mem, g.srcp)
      BY <1>4 DEF Begun
    <2> QED
      BY <1>1, <1>3, <2>1, <2>2, FramesOnto
  <1>9. Origins(s, k, st2, more, t, e + len)
    <2>1. ASSUME NEW x \in t .. (e + len) - 1
          PROVE  Becomes(s, m, k, st, st2, more, t, e, e + len, x)
      <3>1. CASE x = f.dstp + f.i
        <4>1. k[x] = Moved(w, e) /\ s.mem[more[x]] = w
          BY <1>6, <1>7, <3>1 DEF Put
        <4> QED
          BY <1>4, <1>6, <4>1 DEF Image, Becomes
      <3>2. CASE x # f.dstp + f.i /\ x \in t .. e - 1 /\ Open(s, st, x)
        <4>1. PICK h \in 1 .. n : x \in ToWrite(s, st[h])
          BY <1>1, <3>2 DEF Open
        <4>2. CASE h \in 1 .. n - 1
          BY <1>3, <4>1, <4>2, OpenOnto DEF Becomes
        <4>3. CASE h = n
          <5>1. PICK d \in Nat : d = f.dstp
            BY DEF FrameOf
          <5>2. x \in d + 1 .. d + 2 - 1 /\ x # d + 1
            BY <1>1, <1>4, <3>2, <4>1, <4>3, <5>1 DEF ToWrite
          <5> QED
            BY <5>2
        <4> QED
          BY <1>1, <4>2, <4>3
      <3>3. CASE x # f.dstp + f.i /\ x \in t .. e - 1 /\ ~Open(s, st, x)
        BY <3>3 DEF Put, Becomes
      <3>4. CASE x \notin t .. e - 1
        <4>1. x \in e + 0 .. e + len - 1
          BY <3>4
        <4>2. x \in ToWrite(s, g)
          BY <1>4, <4>1 DEF ToWrite, Begun
        <4> QED
          BY <1>3, <4>2, OpenOnto DEF Becomes
      <3> QED
        BY <3>1, <3>2, <3>3, <3>4
    <2>2. Called(s, st, more, n - 1, g, t, e + len)
      <3>1. Answer(g) = Answer(f)
        BY DEF Answer, Begun
      <3>2. Image(s, more, Answer(f), Asked(s, st, n - 1), t, e + len)
        BY <1>3, <1>6, <1>7, ImageGrows
      <3> QED
        BY <1>6, <3>1, <3>2 DEF Begun, Called
    <2>3. Len(st) \in Nat /\ n - 1 \in 0 .. Len(st) /\ e + len \in Nat /\ e <= e + len
      BY <1>1, <1>3
    <2>4. Longer(org, more, t, e, e + len)
      BY <1>6 DEF Longer
    <2> QED
      BY <1>2, <2>1, <2>2, <2>3, <2>4, OriginsOnto
  <1>10. Owing(s, st2, t + Size(s)[s.term] - (e + len))
    <2>1. PICK v \in Nat, r \in Nat :
            /\ Waiting(s, st, n - 1, v) /\ Rest(s, f, 0, r)
            /\ t + Size(s)[s.term] - e = v + r
      BY <1>1 DEF Owing
    <2>2. PICK z \in Nat, y \in Nat : z = Size(s)[w] /\ y = r - z /\ Rest(s, f, 1, y)
      <3>1. f.i < Words(s.mem, f.srcp)
        BY <1>4
      <3> QED
        BY <1>1, <2>1, <3>1, RestDrop DEF Meets
    <2>3. y = 0
      <3>1. f.i + 1 = Words(s.mem, f.srcp) /\ 1 \in {0, 1}
        BY <1>4
      <3> QED
        BY <1>1, <2>2, <3>1, RestNone
    <2>4. PICK x \in Nat : x = z - len /\ Rest(s, g, 0, x)
      <3>1. g.srcp = w /\ g.i = 0 /\ len = Words(s.mem, g.srcp)
        BY <1>4 DEF Begun
      <3> QED
        BY <1>1, <2>2, <3>1, RestNew
    <2>5. Owing(s, st2, v + x)
      BY <1>3, <2>1, <2>4, OwingOnto
    <2>6. PICK total \in Nat : total = Size(s)[s.term]
      <3>1. s.term \in Every(s.mem, s.term)
        BY DEF Every
      <3> QED
        BY <1>1, <3>1, SizesAreNumbers
    <2>7. t + total - (e + len) = v + x
      <3>1. t + total - e = v + r
        BY <2>1, <2>6
      <3>2. 0 = r - z /\ x = z - len
        BY <2>2, <2>3, <2>4
      <3> QED
        BY <3>1, <3>2
    <2> QED
      BY <2>5, <2>6, <2>7
  <1> QED
    BY <1>8, <1>9, <1>10 DEF Calls

\* The outermost call begins.
LEMMA FirstCall ==
    ASSUME NEW s, WellFormed(s), NEW t \in Nat, t = Cardinality(DOMAIN s.mem) + 1,
           s.term \in Pointers(s), NEW len \in Nat, len = Words(s.mem, s.term), NEW k,
           NEW st2 \in Seq(FrameOf(s)), NEW g \in FrameOf(s), Onto(<<>>, st2, 0, g),
           Begun(g, s.term, t, t)
    PROVE  Calls(s, k, st2, t, t + len)
  <1>1. Len(st2) = 1 /\ st2[1] = g
    BY DEF Onto
  <1>2. Frames(s, st2, t)
    <2>1. \A j \in 1 .. Len(st2) : j = 1
      BY <1>1
    <2>2. Len(st2) > 0 /\ 1 .. Len(st2) - 1 = {}
      BY <1>1
    <2>3. g.i <= Words(s.mem, g.srcp) /\ g.dstp0 = t
      BY DEF Begun
    <2> QED
      BY <1>1, <2>1, <2>2, <2>3 DEF Frames
  <1>3. PICK more : /\ \A x \in t .. (t + len) - 1 : more[x] \in 1 .. t - 1
                    /\ CopyAt(s, more, s.term, t, t, t + len)
    <2>1. \E none, w, e : none = <<>> /\ w = s.term /\ e = t
      OBVIOUS
    <2>2. PICK none, w, e : none = <<>> /\ w = s.term /\ e = t
      BY <2>1
    <2>3. e \in Nat /\ t <= e
      BY <2>2
    <2>4. Into(none, t, e)
      BY <2>2 DEF Into
    <2>5. w \in Pointers(s) /\ len = Words(s.mem, w)
      BY <2>2
    <2>6. PICK more : Grown(s, none, more, w, t, e, len)
      BY <2>3, <2>4, <2>5, OriginsGrow
    <2>7. Into(more, t, t + len) /\ CopyAt(s, more, s.term, t, t, t + len)
      BY <2>2, <2>6 DEF Grown
    <2> QED
      BY <2>7 DEF Into
  <1>4. Origins(s, k, st2, more, t, t + len)
    <2>1. Answer(g) = Moved(s.term, t)
      <3>1. s.term = [tag |-> s.term.tag, ptr |-> s.term.ptr]
        BY MovedFacts
      <3>2. Moved([tag |-> s.term.tag, ptr |-> s.term.ptr], t) = [tag |-> s.term.tag, ptr |-> t]
        BY DEF Moved
      <3> QED
        BY <3>1, <3>2 DEF Answer, Begun
    <2>2. IsPointer(s.term)
      BY DEF Pointers
    <2>3. Image(s, more, Answer(g), Asked(s, <<>>, 0), t, t + len)
      BY <1>3, <2>1, <2>2 DEF Image, Asked
    <2>4. ASSUME NEW x \in t .. (t + len) - 1
          PROVE  Open(s, st2, x)
      <3>1. x \in t + 0 .. t + len - 1
        OBVIOUS
      <3>2. x \in ToWrite(s, g)
        BY <3>1 DEF ToWrite, Begun
      <3> QED
        BY <3>2, OpenOnto
    <2>5. CopyAt(s, more, g.srcp, g.dstp, t, t + len)
      BY <1>3 DEF Begun
    <2>6. Asked(s, st2, 1 - 1) = Asked(s, <<>>, 0)
      BY DEF Asked
    <2>7. \A j \in 1 .. Len(st2) : j = 1
      BY <1>1
    <2> QED
      BY <1>1, <1>3, <2>3, <2>4, <2>5, <2>6, <2>7 DEF Origins
  <1>5. Owing(s, st2, t + Size(s)[s.term] - (t + len))
    <2>1. PICK x \in Nat : x = Size(s)[s.term] - len /\ Rest(s, g, 0, x)
      <3>1. g.i = 0 /\ g.srcp = s.term
        BY DEF Begun
      <3> QED
        BY <3>1, RestNew
    <2>2. Waiting(s, <<>>, 0, 0)
      <3> DEFINE sum == [i \in 0 .. 0 |-> 0]
      <3>1. sum \in [0 .. 0 -> Nat] /\ sum[0] = 0 /\ 1 .. 0 = {}
        OBVIOUS
      <3> QED
        BY <3>1 DEF Waiting
    <2>3. Owing(s, st2, 0 + x)
      BY <2>1, <2>2, OwingOnto
    <2>4. PICK total \in Nat : total = Size(s)[s.term]
      <3>1. s.term \in Every(s.mem, s.term)
        BY DEF Every
      <3> QED
        BY <3>1, SizesAreNumbers
    <2>5. t + total - (t + len) = 0 + x
      <3>1. x = total - len
        BY <2>1, <2>4
      <3> QED
        BY <3>1
    <2> QED
      BY <2>3, <2>4, <2>5
  <1> QED
    BY <1>2, <1>4, <1>5 DEF Calls

\* The outermost call returns: the copy is there.
LEMMA LastReturn ==
    ASSUME NEW s, NEW m, NEW st, NEW t \in Nat, NEW e \in Nat, NEW f \in FrameOf(s),
           Inner(s, m, st, t, e, 1, f), Finished(s, f),
           s.term \in Pointers(s), HasSource(s, m, t), DOMAIN m = 1 .. e - 1
    PROVE  e = t + Size(s)[s.term] /\ CopyOf(s, m, t, e) /\ Answer(f) = Moved(s.term, t)
  <1>1. /\ WellFormed(s) /\ t = Cardinality(DOMAIN s.mem) + 1 /\ t <= e
        /\ Len(st) = 1 /\ f = st[1]
        /\ Frames(s, st, t) /\ Owing(s, st, t + Size(s)[s.term] - e)
    BY DEF Inner, Calls
  <1>2. PICK org : Origins(s, m, st, org, t, e)
    BY DEF Inner, Calls
  <1>3. PICK q \in Nat : Answer(f) = Moved(s.term, q) /\ CopyAt(s, org, s.term, q, t, e)
    <2>1. Image(s, org, Answer(f), Asked(s, st, 1 - 1), t, e)
      BY <1>1, <1>2 DEF Origins
    <2>2. Asked(s, st, 1 - 1) = s.term /\ IsPointer(s.term)
      BY DEF Asked, Pointers
    <2> QED
      BY <2>1, <2>2 DEF Image
  <1>4. q = t
    <2>1. f.dstp0 = t /\ Answer(f).ptr = f.dstp0
      BY <1>1 DEF Frames, Answer
    <2>2. Moved(s.term, q).ptr = q
      BY <1>1, MovedFacts
    <2> QED
      BY <1>3, <2>1, <2>2
  <1>5. ASSUME NEW x \in t .. e - 1
        PROVE  Image(s, org, m[x], s.mem[org[x]], t, e)
    <2>1. ~Open(s, st, x)
      <3>1. SUFFICES ASSUME Open(s, st, x)
                     PROVE  FALSE
        OBVIOUS
      <3>2. x \in ToWrite(s, f)
        BY <1>1, <3>1 DEF Open
      <3>3. PICK len \in Nat, d \in Nat : len = Words(s.mem, f.srcp) /\ d = f.dstp
        BY <1>1, FrameFacts
      <3>4. x \in d + len .. d + len - 1
        BY <3>2, <3>3 DEF ToWrite, Finished
      <3> QED
        BY <3>4
    <2> QED
      BY <1>2, <2>1 DEF Origins
  <1>6. Traced(s, m, org, t, e, e, {})
    BY <1>2, <1>3, <1>4, <1>5 DEF Traced, Origins
  <1>7. CopyOf(s, m, t, e)
    <2>1. \A x \in e .. e - 1 : ~IsPointer(m[x])
      OBVIOUS
    <2> QED
      BY <1>1, <1>6, <2>1 DEF CopyOf, Tracks
  <1>8. e = t + Size(s)[s.term]
    <2>1. PICK v \in Nat, r \in Nat :
            /\ Waiting(s, st, 0, v) /\ Rest(s, f, 0, r)
            /\ t + Size(s)[s.term] - e = v + r
      BY <1>1 DEF Owing
    <2>2. r = 0
      <3>1. f.i + 0 = Words(s.mem, f.srcp)
        BY DEF FrameOf, Finished
      <3> QED
        BY <1>1, <2>1, <3>1, RestNone
    <2>3. v = 0
      BY <2>1 DEF Waiting
    <2>4. PICK total \in Nat : total = Size(s)[s.term]
      <3>1. s.term \in Every(s.mem, s.term)
        BY DEF Every
      <3> QED
        BY <1>1, <3>1, SizesAreNumbers
    <2>5. t + total - e = 0
      BY <2>1, <2>2, <2>3, <2>4
    <2> QED
      BY <2>4, <2>5
  <1> QED
    BY <1>3, <1>4, <1>7, <1>8

-----------------------------------------------------------------------------
\* The innermost call is replaced, one is made, one returns.
LEMMA ReplaceInner ==
    ASSUME NEW S, NEW st \in Seq(S), NEW n \in Nat, n >= 1, n = Len(st), NEW g \in S
    PROVE  [st EXCEPT ![n] = g] \in Seq(S) /\ Onto(st, [st EXCEPT ![n] = g], n - 1, g)
  <1> DEFINE st2 == [st EXCEPT ![n] = g]
  <1>1. st2 \in Seq(S) /\ Len(st2) = n
    OBVIOUS
  <1>2. st2[n] = g /\ \A k \in 1 .. n - 1 : st2[k] = st[k]
    OBVIOUS
  <1>3. (n - 1) + 1 = n
    OBVIOUS
  <1> QED
    BY <1>1, <1>2, <1>3 DEF Onto

LEMMA PushInner ==
    ASSUME NEW S, NEW st \in Seq(S), NEW n \in Nat, n = Len(st), NEW g \in S
    PROVE  Append(st, g) \in Seq(S) /\ Onto(st, Append(st, g), n, g)
  BY DEF Onto

LEMMA PopInner ==
    ASSUME NEW S, NEW st \in Seq(S), NEW n \in Nat, n >= 2, n = Len(st), NEW g \in S
    PROVE  LET st2 == [SubSeq(st, 1, n - 1) EXCEPT ![n - 1] = g]
           IN st2 \in Seq(S) /\ Onto(st, st2, n - 2, g)
  <1> DEFINE all == SubSeq(st, 1, n - 1)
             st2 == [all EXCEPT ![n - 1] = g]
  <1>1. all \in Seq(S) /\ Len(all) = n - 1 /\ \A k \in 1 .. n - 1 : all[k] = st[k]
    OBVIOUS
  <1>2. n - 1 \in Nat /\ n - 1 >= 1 /\ (n - 1) - 1 = n - 2
    OBVIOUS
  <1> HIDE DEF all
  <1>3. st2 \in Seq(S) /\ Onto(all, st2, (n - 1) - 1, g)
    BY <1>1, <1>2, ReplaceInner
  <1>4. \A k \in 1 .. n - 2 : all[k] = st[k]
    BY <1>1
  <1> QED
    BY <1>2, <1>3, <1>4 DEF Onto, all

\* A word of the copy is stored.
Writes(m, k, t, e, y, w) ==
    /\ DOMAIN k = 1 .. e - 1
    /\ Put(m, k, t, e, y, w)
    /\ \A a \in 1 .. t - 1 : k[a] = m[a]

HeapTo(m, t, e) == t >= 1 /\ DOMAIN m = 1 .. e - 1

LEMMA StoredWords ==
    ASSUME NEW m, NEW t \in Nat, NEW e \in Nat, HeapTo(m, t, e), NEW f, NEW w,
           f.dstp + f.i \in t .. e - 1
    PROVE  Writes(m, Stored(m, f, w), t, e, f.dstp + f.i, w)
  <1>0. t >= 1 /\ DOMAIN m = 1 .. e - 1
    BY DEF HeapTo
  <1>1. PICK y \in t .. e - 1 : y = f.dstp + f.i
    OBVIOUS
  <1>2. y \in DOMAIN m /\ y \in Nat /\ y >= t /\ DOMAIN m = 1 .. e - 1
    BY <1>0, <1>1
  <1> DEFINE k == [m EXCEPT ![y] = w]
  <1>3. DOMAIN k = 1 .. e - 1 /\ k[y] = w
    BY <1>2
  <1>4. \A x \in t .. e - 1 : x # y => k[x] = m[x]
    BY <1>2
  <1>5. \A a \in 1 .. t - 1 : k[a] = m[a]
    BY <1>2
  <1>6. Stored(m, f, w) = k
    BY <1>1 DEF Stored
  <1> HIDE DEF k
  <1> QED
    BY <1>1, <1>3, <1>4, <1>5, <1>6 DEF Put, Writes

\* The end of the heap moves up.
LEMMA TakenWords ==
    ASSUME NEW n \in Nat, to \in Nat, to >= 1
    PROVE  DOMAIN Taken(n) = 1 .. (to + n) - 1 /\ \A a \in 1 .. to - 1 : Taken(n)[a] = mem[a]
  <1>1. PICK e \in Nat : e = to /\ e >= 1
    OBVIOUS
  <1>2. \A a \in 1 .. e - 1 : a \in 1 .. (e + n) - 1 /\ a < e
    BY <1>1
  <1> QED
    BY <1>1, <1>2 DEF Taken

\* The word a call writes next is one of the copy.
LEMMA FramePlace ==
    ASSUME NEW s, NEW m, NEW st, NEW t, NEW e, NEW n, NEW f, Inner(s, m, st, t, e, n, f),
           NEW j \in 1 .. Len(st), NEW c \in FrameOf(s), c = st[j], Unfinished(s, c)
    PROVE  c.dstp + c.i \in t .. e - 1
  <1>1. PICK org : Origins(s, m, st, org, t, e)
    BY DEF Inner, Calls
  <1>2. WellFormed(s) /\ CopyAt(s, org, c.srcp, c.dstp, t, e) /\ c.i < Words(s.mem, c.srcp)
    BY <1>1 DEF Inner, Origins, Unfinished
  <1> QED
    BY <1>2, NextPlace

-----------------------------------------------------------------------------
RecursiveTyped ==
    /\ src \in Source /\ WellFormed(src)
    /\ to0 = Cardinality(DOMAIN src.mem) + 1 /\ to0 \in Nat /\ to0 >= 1
    /\ pc \in {"start", "copy", "done"}
    /\ to \in Nat /\ to0 <= to

\* The heap ends where the copy ends so far.
Heap == DOMAIN mem = 1 .. to - 1

RecursiveFresh == pc = "start" => mem = src.mem /\ to = to0

UnderWay == pc = "copy" => src.term \in Pointers(src) /\ Calls(src, mem, stack, to0, to)

Filled == pc = "done" => to = to0 + FlatSize(src.mem, src.term)

RecursiveIInv ==
    /\ RecursiveTyped /\ Heap /\ Untouched /\ RecursiveFresh
    /\ UnderWay /\ Filled /\ Returned

\* The initial states.
LEMMA RecursiveInitial ==
    ASSUME RecursiveInit
    PROVE  RecursiveIInv
  <1>1. /\ src \in Source /\ WellFormed(src) /\ pc = "start" /\ mem = src.mem
        /\ to = to0 /\ to0 = Cardinality(DOMAIN src.mem) + 1
    BY CopyAssumption DEF RecursiveInit, CopyInit
  <1>2. PICK last \in Nat : last = Cardinality(DOMAIN src.mem) /\ DOMAIN src.mem = 1 .. last
    BY <1>1 DEF WellFormed
  <1>3. PICK t \in Nat : t = to0 /\ t = last + 1
    BY <1>1, <1>2
  <1>4. RecursiveTyped
    BY <1>1, <1>3 DEF RecursiveTyped
  <1>5. Heap
    <2>1. 1 .. last = 1 .. t - 1
      BY <1>3
    <2> QED
      BY <1>1, <1>2, <1>3, <2>1 DEF Heap
  <1> QED
    BY <1>1, <1>4, <1>5 DEF RecursiveIInv, Untouched, RecursiveFresh, UnderWay, Filled, Returned

\* What the copy reads while calls are under way, f the innermost one.
Reads(n, f) ==
    /\ n = Len(stack) /\ n >= 1 /\ f = stack[n] /\ f = Top
    /\ stack \in Seq(FrameOf(src)) /\ f \in FrameOf(src)
    /\ Inner(src, mem, stack, to0, to, n, f)
    /\ Words(mem, f.srcp) = Words(src.mem, f.srcp)
    /\ Unfinished(src, f) => Word = At(src, f)

LEMMA TopFacts ==
    ASSUME RecursiveIInv, pc = "copy"
    PROVE  \E n \in Nat, f \in FrameOf(src) : Reads(n, f)
  <1>1. /\ WellFormed(src) /\ to0 = Cardinality(DOMAIN src.mem) + 1 /\ to0 \in Nat
        /\ to0 <= to /\ Calls(src, mem, stack, to0, to) /\ HasSource(src, mem, to0)
    BY DEF RecursiveIInv, RecursiveTyped, UnderWay, Untouched, HasSource
  <1>2. stack \in Seq(FrameOf(src)) /\ Len(stack) > 0
    BY <1>1 DEF Calls, Frames
  <1>3. PICK n \in Nat : n = Len(stack) /\ n >= 1
    BY <1>2
  <1>4. Top = stack[n] /\ Top \in FrameOf(src)
    BY <1>2, <1>3 DEF Top
  <1>5. Inner(src, mem, stack, to0, to, n, Top)
    BY <1>1, <1>3, <1>4 DEF Inner
  <1>6. PICK len \in Nat, p \in Nat : Placed(src, Top.srcp, mem, to0, len, p)
    <2>1. Top.srcp \in Pointers(src)
      BY <1>4 DEF FrameOf
    <2> QED
      BY <1>1, <2>1, ObjectPlace
  <1>7. Words(mem, Top.srcp) = Words(src.mem, Top.srcp)
    BY <1>6 DEF Placed
  <1>8. ASSUME Unfinished(src, Top)
        PROVE  Word = At(src, Top)
    <2>1. Top.i \in 0 .. len - 1
      BY <1>4, <1>6, <1>8 DEF Placed, Unfinished, FrameOf
    <2> QED
      BY <1>6, <2>1 DEF Placed, Word, At
  <1> QED
    BY <1>2, <1>3, <1>4, <1>5, <1>7, <1>8 DEF Reads

\* What a step must leave, if calls are under way after it.
LEMMA StillUnderWay ==
    ASSUME RecursiveIInv, pc' = "copy", src' = src, to0' = to0, NEW e \in Nat, to' = e, to <= e,
           DOMAIN mem' = 1 .. e - 1, \A a \in 1 .. to0 - 1 : mem'[a] = mem[a],
           src.term \in Pointers(src), Calls(src, mem', stack', to0, e)
    PROVE  RecursiveIInv'
  <1>1. RecursiveTyped'
    BY DEF RecursiveIInv, RecursiveTyped
  <1>2. Heap' /\ Untouched' /\ UnderWay'
    BY DEF RecursiveIInv, Heap, Untouched, UnderWay
  <1> QED
    BY <1>1, <1>2 DEF RecursiveIInv, RecursiveFresh, Filled, Returned

\* The first object.
LEMMA StepStart ==
    ASSUME RecursiveIInv, RecursiveStart
    PROVE  RecursiveIInv'
  <1>1. /\ pc = "start" /\ pc' = "copy" /\ src' = src /\ to0' = to0 /\ IsPointer(src.term)
        /\ Enter(src.term, <<>>)
    BY DEF RecursiveStart, given
  <1>2. /\ WellFormed(src) /\ mem = src.mem /\ to = to0 /\ DOMAIN mem = 1 .. to - 1
        /\ to0 = Cardinality(DOMAIN src.mem) + 1 /\ to0 \in Nat /\ to0 >= 1
    BY <1>1 DEF RecursiveIInv, RecursiveTyped, RecursiveFresh, Heap
  <1>3. src.term \in Pointers(src)
    BY <1>1 DEF Pointers, Every
  <1>4. PICK t \in Nat, len \in Nat : t = to0 /\ t >= 1 /\ len = Words(src.mem, src.term)
    BY <1>2, <1>3, PointerFacts
  <1> DEFINE g == Call(src.term)
  <1>5. /\ g \in FrameOf(src) /\ Begun(g, src.term, t, t)
        /\ stack' = Append(<<>>, g) /\ mem' = Taken(len) /\ to' = t + len
    BY <1>1, <1>2, <1>3, <1>4 DEF Enter, Call, FrameOf, Begun
  <1> HIDE DEF g
  <1>6. stack' \in Seq(FrameOf(src)) /\ Onto(<<>>, stack', 0, g)
    <2>1. <<>> \in Seq(FrameOf(src)) /\ Len(<<>>) = 0
      OBVIOUS
    <2> QED
      BY <1>5, <2>1, PushInner
  <1>7. /\ DOMAIN mem' = 1 .. (t + len) - 1
        /\ \A a \in 1 .. to0 - 1 : mem'[a] = mem[a]
    <2>1. to \in Nat /\ to >= 1
      BY <1>2
    <2>2. DOMAIN Taken(len) = 1 .. (to + len) - 1 /\ \A a \in 1 .. to - 1 : Taken(len)[a] = mem[a]
      BY <2>1, TakenWords
    <2> QED
      BY <1>2, <1>4, <1>5, <2>2
  <1>8. Calls(src, mem', stack', t, t + len)
    BY <1>2, <1>3, <1>4, <1>5, <1>6, FirstCall
  <1>9. t + len \in Nat /\ t <= t + len
    BY <1>4
  <1> QED
    BY <1>1, <1>2, <1>3, <1>4, <1>5, <1>7, <1>8, <1>9, StillUnderWay

\* A word that is no pointer.
LEMMA StepWord ==
    ASSUME RecursiveIInv, CopyWord
    PROVE  RecursiveIInv'
  <1>1. /\ pc = "copy" /\ pc' = "copy" /\ src' = src /\ to0' = to0 /\ to' = to
        /\ ~IsPointer(Word) /\ mem' = Stored(mem, Top, Word)
        /\ stack' = [stack EXCEPT ![Len(stack)].i = @ + 1]
    BY DEF CopyWord, Copying, given
  <1>2. PICK n \in Nat, f \in FrameOf(src) : Reads(n, f)
    BY <1>1, TopFacts
  <1>3. /\ n = Len(stack) /\ n >= 1 /\ f = stack[n] /\ f = Top
        /\ stack \in Seq(FrameOf(src)) /\ Inner(src, mem, stack, to0, to, n, f)
        /\ Unfinished(src, f) /\ Word = At(src, f)
    BY <1>2 DEF CopyWord, Copying, Unfinished, Reads
  <1>4. PICK t \in Nat, e \in Nat :
          /\ t = to0 /\ e = to /\ t >= 1 /\ DOMAIN mem = 1 .. e - 1 /\ src.term \in Pointers(src)
    BY <1>1 DEF RecursiveIInv, RecursiveTyped, Heap, UnderWay
  <1> DEFINE g == [f EXCEPT !.i = @ + 1]
  <1>5. g \in FrameOf(src) /\ Advanced(f, g)
    BY DEF FrameOf, Advanced
  <1>6. stack' = [stack EXCEPT ![n] = g]
    BY <1>1, <1>3
  <1> HIDE DEF g
  <1>7. stack' \in Seq(FrameOf(src)) /\ Onto(stack, stack', n - 1, g)
    BY <1>3, <1>5, <1>6, ReplaceInner
  <1>8. f.dstp + f.i \in t .. e - 1
    <2>1. n \in 1 .. Len(stack)
      BY <1>3
    <2> QED
      BY <1>3, <1>4, <2>1, FramePlace
  <1>9. /\ DOMAIN mem' = 1 .. e - 1
        /\ Put(mem, mem', t, e, f.dstp + f.i, At(src, f))
        /\ \A a \in 1 .. to0 - 1 : mem'[a] = mem[a]
    <2>1. Writes(mem, Stored(mem, f, At(src, f)), t, e, f.dstp + f.i, At(src, f))
      <3>1. HeapTo(mem, t, e)
        BY <1>4 DEF HeapTo
      <3> QED
        BY <1>8, <3>1, StoredWords
    <2>2. mem' = Stored(mem, f, At(src, f))
      BY <1>1, <1>3
    <2> QED
      BY <1>4, <2>1, <2>2 DEF Writes
  <1>10. Calls(src, mem', stack', t, e)
    BY <1>1, <1>3, <1>4, <1>5, <1>7, <1>9, WordCopied
  <1>11. to' = e /\ to <= e
    BY <1>1, <1>4
  <1> QED
    BY <1>1, <1>4, <1>9, <1>10, <1>11, StillUnderWay

\* A pointer the copy meets, to an object of len words.
LEMMA MetFacts ==
    ASSUME RecursiveIInv, pc = "copy", Copying, IsPointer(Word)
    PROVE  \E len \in Nat : /\ Unfinished(src, Top) /\ Word \in Pointers(src)
                            /\ Meets(src, Top, Word, len) /\ len = Words(mem, Word)
  <1>1. PICK n \in Nat, f \in FrameOf(src) : Reads(n, f)
    BY TopFacts
  <1>2. Top \in FrameOf(src) /\ Unfinished(src, Top) /\ Word = At(src, Top)
    BY <1>1 DEF Copying, Unfinished, Reads
  <1>3. WellFormed(src) /\ HasSource(src, mem, to0)
    BY DEF RecursiveIInv, RecursiveTyped, Untouched, HasSource
  <1>4. Word \in Pointers(src)
    <2>1. At(src, Top) \in Every(src.mem, src.term)
      BY <1>2, <1>3, FrameFacts DEF Unfinished
    <2> QED
      BY <1>2, <2>1 DEF Pointers
  <1>5. PICK len \in Nat, p \in Nat : Placed(src, Word, mem, to0, len, p)
    BY <1>3, <1>4, ObjectPlace
  <1> QED
    BY <1>2, <1>4, <1>5 DEF Placed, Meets

\* A pointer that is called for.
LEMMA StepCall ==
    ASSUME RecursiveIInv, CallWord
    PROVE  RecursiveIInv'
  <1>1. /\ pc = "copy" /\ pc' = "copy" /\ src' = src /\ to0' = to0
        /\ IsPointer(Word) /\ Copying /\ Enter(Word, stack)
    BY DEF CallWord, Copying, given
  <1>2. PICK n \in Nat, f \in FrameOf(src) : Reads(n, f)
    BY <1>1, TopFacts
  <1>3. /\ n = Len(stack) /\ n >= 1 /\ f = Top
        /\ stack \in Seq(FrameOf(src)) /\ Inner(src, mem, stack, to0, to, n, f)
    BY <1>2 DEF Reads
  <1>4. PICK len \in Nat : /\ Unfinished(src, f) /\ Word \in Pointers(src)
                            /\ Meets(src, f, Word, len) /\ len = Words(mem, Word)
    BY <1>1, <1>3, MetFacts
  <1>5. PICK t \in Nat, e \in Nat :
          /\ t = to0 /\ e = to /\ t >= 1 /\ t <= e /\ DOMAIN mem = 1 .. e - 1
          /\ src.term \in Pointers(src)
    BY <1>1 DEF RecursiveIInv, RecursiveTyped, Heap, UnderWay
  <1> DEFINE g == Call(Word)
  <1>6. /\ g \in FrameOf(src) /\ Begun(g, Word, e, e)
        /\ stack' = Append(stack, g) /\ mem' = Taken(len) /\ to' = e + len
    BY <1>1, <1>4, <1>5 DEF Enter, Call, FrameOf, Begun
  <1> HIDE DEF g
  <1>7. stack' \in Seq(FrameOf(src)) /\ Onto(stack, stack', n, g)
    BY <1>3, <1>6, PushInner
  <1>8. DOMAIN mem' = 1 .. (e + len) - 1 /\ \A a \in 1 .. e - 1 : mem'[a] = mem[a]
    <2>1. to \in Nat /\ to >= 1
      BY <1>5
    <2>2. DOMAIN Taken(len) = 1 .. (to + len) - 1 /\ \A a \in 1 .. to - 1 : Taken(len)[a] = mem[a]
      BY <2>1, TakenWords
    <2> QED
      BY <1>5, <1>6, <2>2
  <1>9. Kept(mem, mem', t, e) /\ \A a \in 1 .. to0 - 1 : mem'[a] = mem[a]
    <2>1. /\ \A a \in t .. e - 1 : a \in 1 .. e - 1
          /\ \A a \in 1 .. t - 1 : a \in 1 .. e - 1
      BY <1>5
    <2> QED
      BY <1>5, <1>8, <2>1 DEF Kept
  <1>10. Calls(src, mem', stack', t, e + len)
    BY <1>3, <1>4, <1>5, <1>6, <1>7, <1>9, WordCalled
  <1>11. e + len \in Nat /\ e <= e + len
    BY <1>5
  <1> QED
    BY <1>1, <1>5, <1>6, <1>8, <1>9, <1>10, <1>11, StillUnderWay

\* A tail that is a cell.
LEMMA StepCell ==
    ASSUME RecursiveIInv, NextCell
    PROVE  RecursiveIInv'
  <1>1. /\ pc = "copy" /\ pc' = "copy" /\ src' = src /\ to0' = to0 /\ Copying
        /\ Top.srcp.tag = "list" /\ Top.i = 1 /\ Word.tag = "list" /\ IsPointer(Word)
        /\ mem' = Stored(Taken(2), Top, List(to)) /\ to' = to + 2
        /\ stack' = [stack EXCEPT ![Len(stack)] =
                       [@ EXCEPT !.srcp = Word, !.dstp = to, !.i = 0]]
    BY DEF NextCell, TailCell, Copying, given, IsPointer
  <1>2. PICK n \in Nat, f \in FrameOf(src) : Reads(n, f)
    BY <1>1, TopFacts
  <1>3. /\ n = Len(stack) /\ n >= 1 /\ f = stack[n] /\ f = Top
        /\ stack \in Seq(FrameOf(src)) /\ Inner(src, mem, stack, to0, to, n, f)
    BY <1>2 DEF Reads
  <1>4. PICK len \in Nat : /\ Unfinished(src, f) /\ Word \in Pointers(src)
                           /\ Meets(src, f, Word, len) /\ len = 2
    <2>1. Words(mem, Word) = 2
      BY <1>1 DEF Words
    <2> QED
      BY <1>1, <1>3, <2>1, MetFacts
  <1>5. PICK t \in Nat, e \in Nat :
          /\ t = to0 /\ e = to /\ t >= 1 /\ t <= e /\ DOMAIN mem = 1 .. e - 1
          /\ src.term \in Pointers(src) /\ WellFormed(src)
    BY <1>1 DEF RecursiveIInv, RecursiveTyped, Heap, UnderWay
  <1> DEFINE g == [f EXCEPT !.srcp = Word, !.dstp = to, !.i = 0]
  <1>6. g \in FrameOf(src) /\ Begun(g, Word, e, f.dstp0)
    BY <1>4, <1>5 DEF FrameOf, Begun
  <1>7. stack' = [stack EXCEPT ![n] = g]
    BY <1>1, <1>3
  <1> HIDE DEF g
  <1>8. stack' \in Seq(FrameOf(src)) /\ Onto(stack, stack', n - 1, g)
    BY <1>3, <1>6, <1>7, ReplaceInner
  <1>9. f.dstp + f.i \in t .. e - 1
    <2>1. n \in 1 .. Len(stack)
      BY <1>3
    <2> QED
      BY <1>3, <1>4, <1>5, <2>1, FramePlace
  <1>10. PICK b \in Nat : b = e + len
    OBVIOUS
  <1> DEFINE m == Taken(len)
  <1>11. DOMAIN m = 1 .. b - 1 /\ \A a \in 1 .. e - 1 : m[a] = mem[a]
    <2>1. to \in Nat /\ to >= 1
      BY <1>5
    <2>2. DOMAIN m = 1 .. (to + len) - 1 /\ \A a \in 1 .. to - 1 : m[a] = mem[a]
      BY <2>1, TakenWords
    <2> QED
      BY <1>5, <1>10, <2>2
  <1> HIDE DEF m
  <1>12. List(to) = Moved(Word, e)
    <2>1. Word = [tag |-> Word.tag, ptr |-> Word.ptr]
      BY <1>4, <1>5, MovedFacts
    <2>2. Moved([tag |-> Word.tag, ptr |-> Word.ptr], e) = [tag |-> Word.tag, ptr |-> e]
      BY DEF Moved
    <2> QED
      BY <1>1, <1>5, <2>1, <2>2 DEF List
  <1>13. mem' = Stored(m, f, Moved(Word, e))
    BY <1>1, <1>3, <1>4, <1>12 DEF m
  <1>14. /\ DOMAIN mem' = 1 .. b - 1
         /\ Put(m, mem', t, b, f.dstp + f.i, Moved(Word, e))
         /\ \A a \in 1 .. t - 1 : mem'[a] = m[a]
    <2>1. f.dstp + f.i \in t .. b - 1
      BY <1>9, <1>10
    <2>2. Writes(m, Stored(m, f, Moved(Word, e)), t, b, f.dstp + f.i, Moved(Word, e))
      <3>1. HeapTo(m, t, b)
        BY <1>5, <1>11 DEF HeapTo
      <3> QED
        BY <2>1, <3>1, StoredWords
    <2> QED
      BY <1>5, <1>13, <2>2 DEF Writes
  <1>15. Put(mem, mem', t, e, f.dstp + f.i, Moved(Word, e))
    <2>1. \A x \in t .. e - 1 : x \in t .. b - 1 /\ x \in 1 .. e - 1
      BY <1>5, <1>10
    <2> QED
      BY <1>11, <1>14, <2>1 DEF Put
  <1>16. \A a \in 1 .. to0 - 1 : mem'[a] = mem[a]
    <2>1. \A a \in 1 .. t - 1 : a \in 1 .. e - 1
      BY <1>5
    <2> QED
      BY <1>5, <1>11, <1>14, <2>1
  <1>17. Calls(src, mem', stack', t, e + len)
    BY <1>1, <1>3, <1>4, <1>5, <1>6, <1>8, <1>15, CellFollowed
  <1>18. to' = b /\ e <= b
    BY <1>1, <1>4, <1>5, <1>10
  <1> QED
    BY <1>1, <1>5, <1>10, <1>14, <1>16, <1>17, <1>18, StillUnderWay

\* A call that returns to another.
LEMMA StepReturn ==
    ASSUME RecursiveIInv, ReturnInner
    PROVE  RecursiveIInv'
  <1>1. /\ pc = "copy" /\ pc' = "copy" /\ src' = src /\ to0' = to0 /\ to' = to
        /\ Copied /\ Len(stack) > 1
    BY DEF ReturnInner, Copied, given
  <1>2. PICK n \in Nat, f \in FrameOf(src) : Reads(n, f)
    BY <1>1, TopFacts
  <1>3. /\ n = Len(stack) /\ f = Top /\ stack \in Seq(FrameOf(src))
        /\ Inner(src, mem, stack, to0, to, n, f)
    BY <1>2 DEF Reads
  <1>4. Finished(src, f) /\ n >= 2
    BY <1>1, <1>2 DEF Copied, Finished, Reads
  <1>5. PICK t \in Nat, e \in Nat :
          /\ t = to0 /\ e = to /\ t >= 1 /\ DOMAIN mem = 1 .. e - 1 /\ src.term \in Pointers(src)
    BY <1>1 DEF RecursiveIInv, RecursiveTyped, Heap, UnderWay
  <1>6. PICK c \in FrameOf(src) : c = stack[n - 1]
    BY <1>3, <1>4
  <1> DEFINE g == [c EXCEPT !.i = @ + 1]
  <1>7. g \in FrameOf(src) /\ Advanced(c, g)
    BY DEF FrameOf, Advanced
  <1>8. mem' = Stored(mem, c, Answer(f))
    BY <1>3, <1>6 DEF ReturnInner
  <1>9. stack' = [SubSeq(stack, 1, n - 1) EXCEPT ![n - 1] = g]
    <2>1. SubSeq(stack, 1, n - 1)[n - 1] = c
      BY <1>3, <1>4, <1>6
    <2> QED
      BY <1>3, <2>1 DEF ReturnInner
  <1> HIDE DEF g
  <1>10. stack' \in Seq(FrameOf(src)) /\ Onto(stack, stack', n - 2, g)
    BY <1>3, <1>4, <1>7, <1>9, PopInner
  <1>11. c.dstp + c.i \in t .. e - 1
    <2>1. n - 1 \in 1 .. Len(stack) /\ n - 1 \in 1 .. Len(stack) - 1
      BY <1>3, <1>4
    <2>2. Unfinished(src, c)
      BY <1>3, <1>6, <2>1 DEF Inner, Calls, Frames, Unfinished
    <2> QED
      BY <1>3, <1>5, <1>6, <2>1, <2>2, FramePlace
  <1>12. /\ DOMAIN mem' = 1 .. e - 1
         /\ Put(mem, mem', t, e, c.dstp + c.i, Answer(f))
         /\ \A a \in 1 .. to0 - 1 : mem'[a] = mem[a]
    <2>1. Writes(mem, Stored(mem, c, Answer(f)), t, e, c.dstp + c.i, Answer(f))
      <3>1. HeapTo(mem, t, e)
        BY <1>5 DEF HeapTo
      <3> QED
        BY <1>11, <3>1, StoredWords
    <2> QED
      BY <1>5, <1>8, <2>1 DEF Writes
  <1>13. Calls(src, mem', stack', t, e)
    BY <1>3, <1>4, <1>5, <1>6, <1>7, <1>10, <1>12, CallReturns
  <1>14. to' = e /\ to <= e
    BY <1>1, <1>5
  <1> QED
    BY <1>1, <1>5, <1>12, <1>13, <1>14, StillUnderWay

\* The outermost call returns.
LEMMA StepDone ==
    ASSUME RecursiveIInv, ReturnOuter
    PROVE  RecursiveIInv'
  <1>1. /\ pc = "copy" /\ pc' = "done" /\ src' = src /\ to0' = to0 /\ to' = to /\ mem' = mem
        /\ Copied /\ Len(stack) = 1 /\ result' = Answer(Top)
    BY DEF ReturnOuter, Copied, given
  <1>2. PICK n \in Nat, f \in FrameOf(src) : Reads(n, f)
    BY <1>1, TopFacts
  <1>3. f = Top /\ Finished(src, f) /\ Inner(src, mem, stack, to0, to, 1, f)
    BY <1>1, <1>2 DEF Copied, Finished, Reads
  <1>4. /\ RecursiveTyped /\ WellFormed(src) /\ to0 \in Nat /\ to \in Nat
        /\ src.term \in Pointers(src)
        /\ HasSource(src, mem, to0) /\ DOMAIN mem = 1 .. to - 1
    BY <1>1 DEF RecursiveIInv, RecursiveTyped, Heap, UnderWay, Untouched, HasSource
  <1>5. /\ to = to0 + Size(src)[src.term] /\ CopyOf(src, mem, to0, to)
        /\ Answer(f) = Moved(src.term, to0)
    BY <1>3, <1>4, LastReturn
  <1>6. FlatSize(src.mem, src.term) = Size(src)[src.term]
    BY <1>4, TermIsPointer
  <1>7. RecursiveTyped' /\ Heap' /\ Untouched'
    BY <1>1 DEF RecursiveIInv, RecursiveTyped, Heap, Untouched
  <1>8. Filled' /\ Returned'
    BY <1>1, <1>3, <1>5, <1>6 DEF Filled, Returned
  <1> QED
    BY <1>1, <1>7, <1>8 DEF RecursiveIInv, RecursiveFresh, UnderWay

\* Every step keeps the invariant.
LEMMA RecursiveStep ==
    ASSUME RecursiveIInv, [RecursiveNext]_recursiveVars
    PROVE  RecursiveIInv'
  <1>1. CASE RecursiveImmediate
    <2>1. /\ pc = "start" /\ pc' = "done" /\ result' = src.term /\ ~IsPointer(src.term)
          /\ UNCHANGED <<src, to0, mem, to>>
      BY <1>1 DEF RecursiveImmediate, given
    <2>2. /\ WellFormed(src) /\ mem = src.mem /\ to = to0 /\ to0 \in Nat
      BY <2>1 DEF RecursiveIInv, RecursiveTyped, RecursiveFresh
    <2>3. FlatSize(src.mem, src.term) = 0
      <3>1. src.term \in Every(src.mem, src.term)
        BY DEF Every
      <3> QED
        BY <2>1, <2>2, <3>1, TermIsPointer, SizeFacts
    <2>4. Filled' /\ Returned'
      BY <2>1, <2>2, <2>3 DEF Filled, Returned
    <2> QED
      BY <2>1, <2>4 DEF RecursiveIInv, RecursiveTyped, Heap, Untouched, RecursiveFresh, UnderWay
  <1>2. CASE UNCHANGED recursiveVars
    BY <1>2 DEF recursiveVars, loopVars, given, RecursiveIInv, RecursiveTyped, Heap, Untouched,
                RecursiveFresh, UnderWay, Filled, Returned
  <1> QED
    BY <1>1, <1>2, StepStart, StepWord, StepCell, StepCall, StepReturn, StepDone DEF RecursiveNext

\* What is owed is never negative: the copy never has more words than flat_size counts.
LEMMA NeverMore ==
    ASSUME RecursiveIInv
    PROVE  to <= to0 + FlatSize(src.mem, src.term)
  <1>1. WellFormed(src) /\ to0 \in Nat /\ to \in Nat /\ pc \in {"start", "copy", "done"}
    BY DEF RecursiveIInv, RecursiveTyped
  <1>2. PICK z \in Nat : z = FlatSize(src.mem, src.term) /\ z = Size(src)[src.term]
    BY <1>1, TermIsPointer
  <1>3. CASE pc = "copy"
    <2>1. Owing(src, stack, to0 + z - to)
      BY <1>2, <1>3 DEF RecursiveIInv, UnderWay, Calls
    <2>2. PICK v \in Nat, c \in Nat : to0 + z - to = v + c
      BY <2>1 DEF Owing
    <2> QED
      BY <1>1, <1>2, <2>2
  <1>4. CASE pc # "copy"
    BY <1>1, <1>2, <1>4 DEF RecursiveIInv, RecursiveFresh, Filled
  <1> QED
    BY <1>3, <1>4

\* enif_make_copy takes what flat_size counts, no word more or less, although it asks for
\* no size first and calls itself for what it meets; and it changes nothing else.
THEOREM RecursiveCopyTakesFlatSize == RecursiveSpec => []TakesFlatSize
  <1>1. RecursiveInit => RecursiveIInv
    BY RecursiveInitial
  <1>2. RecursiveIInv /\ [RecursiveNext]_recursiveVars => RecursiveIInv'
    BY RecursiveStep
  <1>3. RecursiveIInv => TakesFlatSize
    BY NeverMore DEF RecursiveIInv, Heap, Untouched, Filled, TakesFlatSize
  <1> QED
    BY <1>1, <1>2, <1>3, PTL DEF RecursiveSpec

\* What it returns is the same term, and no pointer of the copy leads back to the source:
\* so the three copies return the same tree.
THEOREM RecursiveSameTerm == RecursiveSpec => []SameTerm
  <1>1. RecursiveInit => RecursiveIInv
    BY RecursiveInitial
  <1>2. RecursiveIInv /\ [RecursiveNext]_recursiveVars => RecursiveIInv'
    BY RecursiveStep
  <1>3. RecursiveIInv => SameTerm
    BY SameReturned DEF RecursiveIInv, RecursiveTyped
  <1> QED
    BY <1>1, <1>2, <1>3, PTL DEF RecursiveSpec
=============================================================================
