---------------------------- MODULE LHash_proofs ----------------------------
(***************************************************************************)
(* The invariants of LHash and its refinement of KeyTable, for every set   *)
(* of keys, every hash function and every segment size.                    *)
(***************************************************************************)
EXTENDS LHash, FiniteSetTheorems, TLAPS

-----------------------------------------------------------------------------
(* Arithmetic of the HASH macro. *)

\* Quotient and remainder of a natural number by a positive one.
LEMMA Division ==
    ASSUME NEW x \in Int, NEW d \in Nat \ {0}
    PROVE  /\ x \div d \in Int
           /\ x % d \in 0 .. d - 1
           /\ x = d * (x \div d) + (x % d)
  BY Z3

\* Multiplication by a natural number keeps the order.
LEMMA TimesMonotone ==
    ASSUME NEW d \in Nat, NEW a \in Int, NEW b \in Int, a + 1 <= b
    PROVE  d * a + d <= d * b
<1>1. b - a - 1 \in Nat
  OBVIOUS
<1>2. d * (b - a - 1) \in Nat
  BY <1>1
<1>3. d * (b - a - 1) = d * b - d * a - d
  OBVIOUS
<1> QED BY <1>2, <1>3

\* A quotient and a remainder in range are the quotient and the remainder.
LEMMA DivisionUnique ==
    ASSUME NEW d \in Nat \ {0}, NEW a \in Int, NEW b \in Int,
           NEW r \in 0 .. d - 1, NEW s \in 0 .. d - 1, d * a + r = d * b + s
    PROVE  a = b /\ r = s
<1>0. d * a \in Int /\ d * b \in Int
  OBVIOUS
<1>1. ~ (a + 1 <= b)
  BY TimesMonotone, <1>0
<1>2. ~ (b + 1 <= a)
  BY TimesMonotone, <1>0
<1>3. a = b
  BY <1>1, <1>2
<1> QED BY <1>3, <1>0

\* So the quotient is known from a number that is written with one
LEMMA DivisionOf ==
    ASSUME NEW d \in Nat \ {0}, NEW a \in Int, NEW r \in 0 .. d - 1
    PROVE  (d * a + r) \div d = a
<1> DEFINE x == d * a + r
<1>1. x \in Int
  OBVIOUS
<1>2. x \div d \in Int /\ x % d \in 0 .. d - 1 /\ x = d * (x \div d) + (x % d)
  BY <1>1, Division
<1> QED BY <1>2, DivisionUnique

\* The remainder by 2n is the one by n, or n more: a split moves objects of a
\* bucket to exactly one other.
LEMMA SplitRemainder ==
    ASSUME NEW h \in Nat, NEW n \in Nat \ {0}
    PROVE  /\ h % n \in 0 .. n - 1
           /\ h % (2 * n) \in {h % n, (h % n) + n}
<1> DEFINE d == 2 * n
           a == h \div d
           r == h % d
           b == h \div n
           s == h % n
           even == a + a
           odd == a + a + 1
           rest == r - n
<1>0. d \in Nat \ {0}
  OBVIOUS
<1>1. d = n + n
  OBVIOUS
<1> HIDE DEF d
<1>2. a \in Int /\ r \in 0 .. d - 1 /\ h = d * a + r
  BY <1>0, Division
<1>3. b \in Int /\ s \in 0 .. n - 1 /\ h = n * b + s
  BY Division
<1> HIDE DEF a, r, b, s
<1>4. d * a = n * even /\ n * odd = n * even + n
  BY <1>2 DEF d
<1>5. even \in Int /\ odd \in Int /\ rest \in Int
  BY <1>0, <1>2
<1> HIDE DEF even, odd
<1>6. n * even \in Int /\ n * b \in Int
  BY <1>5, <1>3
<1>7. CASE r < n
  <2>1. r \in 0 .. n - 1 /\ n * b + s = n * even + r
    BY <1>0, <1>1, <1>2, <1>3, <1>4, <1>6, <1>7
  <2>2. s = r
    BY <2>1, <1>3, <1>5, DivisionUnique
  <2> QED BY <2>2, <1>3 DEF r, s, d
<1>8. CASE r >= n
  <2>1. rest \in 0 .. n - 1 /\ n * b + s = n * odd + rest
    BY <1>0, <1>1, <1>2, <1>3, <1>4, <1>6, <1>8
  <2>2. r = rest + n
    BY <1>0, <1>2
  <2> HIDE DEF rest
  <2>3. s = rest
    BY <2>1, <1>3, <1>5, DivisionUnique
  <2> QED BY <2>2, <2>3, <1>3 DEF r, s, d
<1> QED BY <1>0, <1>1, <1>2, <1>7, <1>8

-----------------------------------------------------------------------------
(* What one split changes.  Grow takes the mask and the split position one *)
(* split further, Shrink takes them one split back.                        *)
NextMask(m, q) == IF q = m THEN 2 * m + 1 ELSE m

NextSplit(m, q) == IF q = m THEN 0 ELSE q + 1

\* A bucket number is one of the m + 1 + q in use.
LEMMA HashIxRange ==
    ASSUME NEW h \in Nat, NEW m \in Nat, NEW q \in 0 .. m
    PROVE  HashIx(h, m, q) \in 0 .. m + q
<1> DEFINE n == m + 1
<1>1. n \in Nat \ {0} /\ 0 .. n - 1 = 0 .. m
  OBVIOUS
<1> HIDE DEF n
<1>2. h % n \in 0 .. m /\ h % (2 * n) \in {h % n, (h % n) + n}
  BY <1>1, SplitRemainder
<1>3. HashIx(h, m, q) = IF h % n < q THEN h % (2 * n) ELSE h % n
  BY DEF HashIx, n
<1> QED BY <1>2, <1>3 DEF n

\* Splitting bucket q moves no key of another bucket, and those of q to q or to
\* the new bucket q + m + 1.
LEMMA HashIxStep ==
    ASSUME NEW h \in Nat, NEW m \in Nat, NEW q \in 0 .. m
    PROVE  /\ HashIx(h, m, q) # q =>
                HashIx(h, NextMask(m, q), NextSplit(m, q)) = HashIx(h, m, q)
           /\ HashIx(h, m, q) = q =>
                /\ HashIx(h, NextMask(m, q), NextSplit(m, q)) = h % (2 * (m + 1))
                /\ h % (2 * (m + 1)) \in {q, q + m + 1}
<1> DEFINE n == m + 1
           r == h % (m + 1)
           R == h % (2 * (m + 1))
<1>1. n \in Nat \ {0} /\ 0 .. n - 1 = 0 .. m
  OBVIOUS
<1> HIDE DEF n
<1>0. h % n \in 0 .. m /\ h % (2 * n) \in {h % n, (h % n) + n}
  BY <1>1, SplitRemainder
<1>2. r \in 0 .. m /\ R \in {r, r + (m + 1)}
  BY <1>0 DEF n
<1>3. HashIx(h, m, q) = IF r < q THEN R ELSE r
  BY DEF HashIx
<1>4. HashIx(h, NextMask(m, q), NextSplit(m, q)) = IF r < q + 1 THEN R ELSE r
  <2>1. CASE q = m
    <3>1. NextMask(m, q) + 1 = 2 * (m + 1) /\ NextSplit(m, q) = 0
      BY <2>1 DEF NextMask, NextSplit
    <3>2. HashIx(h, NextMask(m, q), NextSplit(m, q)) = R
      BY <3>1, <1>2 DEF HashIx
    <3> QED BY <3>2, <2>1, <1>2
  <2>2. CASE q # m
    BY <2>2 DEF HashIx, NextMask, NextSplit
  <2> QED BY <2>1, <2>2
<1> HIDE DEF r, R
<1> QED BY <1>2, <1>3, <1>4 DEF R

-----------------------------------------------------------------------------
(* Placement: the objects obj are linked in the buckets ch where mask m and *)
(* split position q say.                                                    *)
PlacedIn(ch, obj, m, q) ==
    /\ \A b \in DOMAIN obj :
         /\ HashIx(Hash[obj[b]], m, q) \in DOMAIN ch
         /\ b \in ch[HashIx(Hash[obj[b]], m, q)]
    /\ \A i \in DOMAIN ch : \A b \in ch[i] :
         b \in DOMAIN obj /\ i = HashIx(Hash[obj[b]], m, q)

Objects(obj) == DOMAIN obj \subseteq Item /\ obj \in [DOMAIN obj -> Key]

Buckets(ch) == DOMAIN ch \subseteq Nat /\ ch \in [DOMAIN ch -> SUBSET Item]

Split(ch, obj, m, q) ==
    LET moved == {b \in ch[q] : Hash[obj[b]] % (2 * (m + 1)) # q}
    IN [ch EXCEPT ![q] = @ \ moved, ![q + m + 1] = @ \cup moved]

Merge(ch, m, q) == [ch EXCEPT ![q] = @ \cup ch[q + m + 1], ![q + m + 1] = {}]

\* The split of grow() puts every object where the new mask and position say.
LEMMA SplitPlaced ==
    ASSUME NEW ch, NEW obj, NEW m \in Nat, NEW q \in 0 .. m,
           Objects(obj), Buckets(ch), PlacedIn(ch, obj, m, q),
           q + m + 1 \in DOMAIN ch, q \in DOMAIN ch
    PROVE  /\ Buckets(Split(ch, obj, m, q))
           /\ DOMAIN Split(ch, obj, m, q) = DOMAIN ch
           /\ PlacedIn(Split(ch, obj, m, q), obj, NextMask(m, q), NextSplit(m, q))
<1> DEFINE top == q + m + 1
           moved == {b \in ch[q] : Hash[obj[b]] % (2 * (m + 1)) # q}
           ch2 == Split(ch, obj, m, q)
           old(b) == HashIx(Hash[obj[b]], m, q)
           new(b) == HashIx(Hash[obj[b]], NextMask(m, q), NextSplit(m, q))
<1>0. /\ ch = [i \in DOMAIN ch |-> ch[i]] /\ top # q
      /\ ch2 = [ch EXCEPT ![q] = @ \ moved, ![top] = @ \cup moved]
  BY DEF Split, Buckets
<1>1. /\ DOMAIN ch2 = DOMAIN ch
      /\ \A i \in DOMAIN ch : ch2[i] = IF i = q THEN ch[q] \ moved
                                       ELSE IF i = top THEN ch[top] \cup moved ELSE ch[i]
  <2> HIDE DEF ch2, moved, top
  <2> QED BY <1>0
<1>2. \A b \in DOMAIN obj : Hash[obj[b]] \in Nat
  BY LHashAssumption DEF Objects
<1>3. \A b \in DOMAIN obj : old(b) \in 0 .. m + q
  BY <1>2, HashIxRange
<1>4. \A b \in DOMAIN obj : old(b) # q => new(b) = old(b)
  BY <1>2, HashIxStep
<1>5. \A b \in DOMAIN obj : old(b) = q =>
         new(b) = Hash[obj[b]] % (2 * (m + 1)) /\ new(b) \in {q, top}
  BY <1>2, HashIxStep
<1>6. \A b \in DOMAIN obj : b \in ch[old(b)] /\ old(b) \in DOMAIN ch
  BY DEF PlacedIn
<1>7. \A i \in DOMAIN ch : \A b \in ch[i] : b \in DOMAIN obj /\ i = old(b)
  BY DEF PlacedIn
<1>8. moved = {b \in ch[q] : new(b) # q} /\ ch[top] = {} /\ top # q
  BY <1>3, <1>5, <1>7
<1>9. Buckets(ch2)
  <2>1. ch2 \in [DOMAIN ch -> SUBSET Item]
    BY DEF Split, Buckets
  <2> QED BY <1>1, <2>1 DEF Buckets
<1> HIDE DEF ch2, old, new, moved, top
<1>10. \A b \in DOMAIN obj : new(b) \in DOMAIN ch2 /\ b \in ch2[new(b)]
  <2> SUFFICES ASSUME NEW b \in DOMAIN obj
               PROVE  new(b) \in DOMAIN ch2 /\ b \in ch2[new(b)]
    OBVIOUS
  <2>1. CASE old(b) # q
    BY <2>1, <1>1, <1>4, <1>6, <1>8
  <2>2. CASE old(b) = q
    BY <2>2, <1>1, <1>5, <1>6, <1>8 DEF top
  <2> QED BY <2>1, <2>2
<1>11. \A i \in DOMAIN ch2 : \A b \in ch2[i] : b \in DOMAIN obj /\ i = new(b)
  BY <1>1, <1>4, <1>5, <1>7, <1>8
<1> QED BY <1>1, <1>9, <1>10, <1>11 DEF PlacedIn, ch2, new

\* The merge of shrink() puts every object where the mask and the position
\* before the split say.
LEMMA MergePlaced ==
    ASSUME NEW ch, NEW obj, NEW m \in Nat, NEW q \in 0 .. m,
           Objects(obj), Buckets(ch),
           PlacedIn(ch, obj, NextMask(m, q), NextSplit(m, q)),
           q + m + 1 \in DOMAIN ch, q \in DOMAIN ch
    PROVE  /\ Buckets(Merge(ch, m, q))
           /\ DOMAIN Merge(ch, m, q) = DOMAIN ch
           /\ PlacedIn(Merge(ch, m, q), obj, m, q)
<1> DEFINE top == q + m + 1
           ch2 == Merge(ch, m, q)
           old(b) == HashIx(Hash[obj[b]], m, q)
           new(b) == HashIx(Hash[obj[b]], NextMask(m, q), NextSplit(m, q))
<1>1. /\ ch = [i \in DOMAIN ch |-> ch[i]] /\ top # q
      /\ ch2 = [ch EXCEPT ![q] = @ \cup ch[top], ![top] = {}]
  BY DEF Merge, Buckets
<1>2. /\ DOMAIN ch2 = DOMAIN ch
      /\ \A i \in DOMAIN ch : ch2[i] = IF i = q THEN ch[q] \cup ch[top]
                                       ELSE IF i = top THEN {} ELSE ch[i]
  <2> HIDE DEF ch2, top
  <2> QED BY <1>1
<1>3. \A b \in DOMAIN obj : Hash[obj[b]] \in Nat
  BY LHashAssumption DEF Objects
<1>4. \A b \in DOMAIN obj : old(b) \in 0 .. m + q
  BY <1>3, HashIxRange
<1>5. \A b \in DOMAIN obj : old(b) # q => new(b) = old(b)
  BY <1>3, HashIxStep
<1>6. \A b \in DOMAIN obj : old(b) = q => new(b) \in {q, top}
  BY <1>3, HashIxStep
<1>7. \A b \in DOMAIN obj : b \in ch[new(b)] /\ new(b) \in DOMAIN ch
  BY DEF PlacedIn
<1>8. \A i \in DOMAIN ch : \A b \in ch[i] : b \in DOMAIN obj /\ i = new(b)
  BY DEF PlacedIn
<1>9. \A b \in DOMAIN obj : new(b) = top => old(b) = q
  BY <1>4, <1>5
<1>10. Buckets(ch2)
  <2>1. \A i \in DOMAIN ch : ch[i] \subseteq Item
    BY DEF Buckets
  <2>2. top \in DOMAIN ch /\ q \in DOMAIN ch
    OBVIOUS
  <2>3. ch2 = [i \in DOMAIN ch |-> ch2[i]]
    BY <1>1
  <2> HIDE DEF ch2, top
  <2>4. \A i \in DOMAIN ch : ch2[i] \subseteq Item
    BY <1>2, <2>1, <2>2
  <2> QED BY <1>2, <2>3, <2>4 DEF Buckets
<1> HIDE DEF ch2, old, new, top
<1>11. \A b \in DOMAIN obj : old(b) \in DOMAIN ch2 /\ b \in ch2[old(b)]
  <2> SUFFICES ASSUME NEW b \in DOMAIN obj
               PROVE  old(b) \in DOMAIN ch2 /\ b \in ch2[old(b)]
    OBVIOUS
  <2>1. CASE old(b) # q
    <3>1. old(b) # top
      BY <1>4 DEF top
    <3> QED BY <2>1, <3>1, <1>2, <1>5, <1>7
  <2>2. CASE old(b) = q
    BY <2>2, <1>2, <1>6, <1>7
  <2> QED BY <2>1, <2>2
<1>12. \A i \in DOMAIN ch2 : \A b \in ch2[i] : b \in DOMAIN obj /\ i = old(b)
  <2>1. top \in DOMAIN ch
    BY DEF top
  <2> QED BY <1>2, <1>5, <1>6, <1>8, <1>9, <2>1
<1> QED BY <1>2, <1>10, <1>11, <1>12 DEF PlacedIn, ch2, old

-----------------------------------------------------------------------------
(* Segments: the buckets of the first d segments are there; nslots may lag *)
(* behind d * SEGSZ but never runs ahead of it.                            *)
Segments(dom, act, slots, d, e) ==
    /\ dom = 0 .. SEGSZ * d - 1
    /\ SEGSZ * (d - 1) <= act /\ act <= SEGSZ * d
    /\ slots = SEGSZ * e /\ e <= d

\* The slots of segment d are the d-th SEGSZ numbers.
LEMMA SegSlotsRange ==
    ASSUME NEW d \in Nat
    PROVE  SegSlots(d) = SEGSZ * d .. SEGSZ * (d + 1) - 1
  BY LHashAssumption DEF SegSlots

\* grow() enters bucket act: its segment is there, or grow allocates it.
LEMMA GrowSegments ==
    ASSUME NEW d \in Nat, NEW e \in Int, NEW act \in Nat, NEW slots \in Int,
           Segments(0 .. SEGSZ * d - 1, act, slots, d, e)
    PROVE  IF act >= slots /\ act % SEGSZ = 0
           THEN /\ (0 .. SEGSZ * d - 1) \cap SegSlots(act \div SEGSZ) \subseteq {i \in Nat : i >= act}
                /\ \E d2 \in Nat : /\ act < SEGSZ * d2
                      /\ Segments((0 .. SEGSZ * d - 1) \cup SegSlots(act \div SEGSZ),
                                  act + 1, slots + SEGSZ, d2, e + 1)
           ELSE /\ act < SEGSZ * d
                /\ Segments(0 .. SEGSZ * d - 1, act + 1, slots, d, e)
<1> DEFINE S == SEGSZ
           six == act \div SEGSZ
<1>1. S \in Nat \ {0}
  BY LHashAssumption
<1>2. six \in Int /\ act % S \in 0 .. S - 1 /\ act = S * six + (act % S)
  BY <1>1, Division
<1>3. S * (d - 1) = S * d - S /\ S * (d + 1) = S * d + S /\ S * (e + 1) = S * e + S
      /\ S * d \in Nat /\ S * e \in Int /\ S * six \in Int
  BY <1>1, <1>2
<1>4. SEGSZ * (d - 1) <= act /\ act <= SEGSZ * d /\ slots = SEGSZ * e /\ e <= d
  BY DEF Segments
<1>5. S * e <= S * d
  <2>1. CASE e = d
    BY <2>1, <1>3
  <2>2. CASE e # d
    <3>1. e + 1 <= d
      BY <2>2, <1>4
    <3> QED BY <3>1, <1>1, <1>3, TimesMonotone
  <2> QED BY <2>1, <2>2
<1>6. CASE act >= slots /\ act % S = 0
  <2>1. act = S * six
    BY <1>6, <1>2, <1>3
  <2>2. six <= d /\ d - 1 <= six
    <3> HIDE DEF six
    <3>1. ~ (d + 1 <= six)
      <4>1. ASSUME d + 1 <= six PROVE S * d + S <= S * six
        BY <4>1, <1>1, <1>2, TimesMonotone
      <4> QED BY <4>1, <2>1, <1>1, <1>3, <1>4
    <3>2. ~ (six + 1 <= d - 1)
      <4>1. ASSUME six + 1 <= d - 1 PROVE S * six + S <= S * (d - 1)
        BY <4>1, <1>1, <1>2, TimesMonotone
      <4> QED BY <4>1, <2>1, <1>1, <1>3, <1>4
    <3> QED BY <3>1, <3>2, <1>2
  <2>3. six \in Nat
    <3> HIDE DEF six
    <3>1. ~ (six + 1 <= 0)
      <4>1. ASSUME six + 1 <= 0 PROVE S * six + S <= S * 0
        BY <4>1, <1>1, <1>2, TimesMonotone
      <4> QED BY <4>1, <2>1, <1>1
    <3> QED BY <3>1, <1>2
  <2>4. SegSlots(six) = S * six .. S * (six + 1) - 1 /\ S * (six + 1) = S * six + S
    <3> HIDE DEF six
    <3>1. SegSlots(six) = S * six .. S * (six + 1) - 1
      BY <2>3, SegSlotsRange
    <3>2. S * (six + 1) = S * six + S
      BY <2>3, <1>1
    <3> QED BY <3>1, <3>2
  <2>5. CASE six = d
    <3>1. (0 .. S * d - 1) \cup SegSlots(six) = 0 .. S * (d + 1) - 1
      BY <2>4, <2>5, <1>1, <1>3
    <3>2. Segments((0 .. S * d - 1) \cup SegSlots(six), act + 1, slots + S, d + 1, e + 1)
      BY <3>1, <2>1, <2>5, <1>1, <1>3, <1>4 DEF Segments
    <3>3. act < S * (d + 1)
      BY <2>1, <2>5, <1>1, <1>3
    <3>4. (0 .. S * d - 1) \cap SegSlots(six) = {}
      BY <2>4, <2>5, <1>1, <1>3
    <3> QED BY <3>2, <3>3, <3>4, <1>6
  <2>6. CASE six = d - 1
    <3>1. (0 .. S * d - 1) \cup SegSlots(six) = 0 .. S * d - 1
      BY <2>3, <2>4, <2>6, <1>1, <1>3, <2>1
    <3>2. e + 1 <= d
      <4>1. CASE e = d
        BY <4>1, <1>6, <1>4, <2>1, <2>6, <1>3, <1>1
      <4> QED BY <4>1, <1>4
    <3>3. Segments((0 .. S * d - 1) \cup SegSlots(six), act + 1, slots + S, d, e + 1)
      BY <3>1, <3>2, <2>1, <2>6, <1>1, <1>3, <1>4 DEF Segments
    <3>4. act < S * d
      BY <2>1, <2>6, <1>1, <1>3
    <3>5. SegSlots(six) \subseteq {i \in Nat : i >= act}
      BY <2>4, <2>1, <1>1
    <3> QED BY <3>3, <3>4, <3>5, <1>6
  <2>7. six = d \/ six = d - 1
    BY <2>2, <1>2
  <2> QED BY <2>5, <2>6, <2>7
<1>7. CASE ~ (act >= slots /\ act % S = 0)
  <2>1. act # S * d
    <3>1. ASSUME act = S * d PROVE FALSE
      <4> HIDE DEF six
      <4>1. act % S # 0
        BY <3>1, <1>7, <1>4, <1>5, <1>3
      <4>2. ~ (six + 1 <= d)
        <5>1. ASSUME six + 1 <= d PROVE S * six + S <= S * d
          BY <5>1, <1>1, <1>2, TimesMonotone
        <5> QED BY <5>1, <3>1, <1>1, <1>2, <1>3
      <4>3. ~ (d + 1 <= six)
        <5>1. ASSUME d + 1 <= six PROVE S * d + S <= S * six
          BY <5>1, <1>1, <1>2, TimesMonotone
        <5> QED BY <5>1, <3>1, <1>1, <1>2, <1>3
      <4>4. six = d
        BY <4>2, <4>3, <1>2
      <4>5. act = S * six
        BY <4>4, <3>1
      <4>6. act % S = 0
        <5>1. act \in Int /\ S * six \in Int /\ act % S \in Int /\ act = S * six + (act % S)
          BY <1>1, <1>2, <1>3
        <5> QED BY <4>5, <5>1
      <4> QED BY <4>1, <4>6
    <3> QED BY <3>1
  <2>2. act < S * d
    BY <2>1, <1>4, <1>3
  <2>3. Segments(0 .. S * d - 1, act + 1, slots, d, e)
    BY <2>2, <1>3, <1>4, <1>1 DEF Segments
  <2> QED BY <2>2, <2>3, <1>7
<1> QED BY <1>6, <1>7

\* shrink() at a segment boundary frees the segment behind the last bucket.
LEMMA ShrinkSegments ==
    ASSUME NEW d \in Nat, NEW e \in Int, NEW last \in Nat, NEW slots \in Int,
           Segments(0 .. SEGSZ * d - 1, last + 1, slots, d, e)
    PROVE  IF last % SEGSZ = SEGSZ - 1
           THEN /\ SegSlots((last \div SEGSZ) + 1) \subseteq {i \in Nat : i > last}
                /\ \E d2 \in Nat :
                     Segments((0 .. SEGSZ * d - 1) \ SegSlots((last \div SEGSZ) + 1),
                              last, slots - SEGSZ, d2, e - 1)
           ELSE Segments(0 .. SEGSZ * d - 1, last, slots, d, e)
<1> DEFINE S == SEGSZ
           b == last \div SEGSZ
           six == b + 1
<1>1. S \in Nat \ {0}
  BY LHashAssumption
<1>2. b \in Int /\ last % S \in 0 .. S - 1 /\ last = S * b + (last % S)
  <2>1. last \in Int
    OBVIOUS
  <2> QED BY ONLY <2>1, <1>1, Division
<1> HIDE DEF b
<1>3. /\ S * (d - 1) = S * d - S /\ S * (e - 1) = S * e - S /\ S * six = S * b + S
      /\ S * (six + 1) = S * six + S /\ S * (six - 1) = S * six - S
      /\ S * d \in Nat /\ S * e \in Int /\ S * b \in Int
  BY <1>1, <1>2
<1>4. SEGSZ * (d - 1) <= last + 1 /\ last + 1 <= SEGSZ * d /\ slots = SEGSZ * e /\ e <= d
  BY DEF Segments
<1>5. six \in Nat
  <2>1. ASSUME b + 1 <= 0 PROVE S * b + S <= S * 0
    BY <2>1, <1>1, <1>2, TimesMonotone
  <2> QED BY <2>1, <1>1, <1>2, <1>3
<1>6. CASE last % S = S - 1
  <2>1. last + 1 = S * six
    BY <1>6, <1>1, <1>2, <1>3
  <2>2. ~ (d + 1 <= six)
    <3>1. ASSUME d + 1 <= six PROVE S * d + S <= S * six
      BY <3>1, <1>1, <1>5, TimesMonotone
    <3> QED BY <3>1, <2>1, <1>1, <1>3, <1>4
  <2>3. ~ (six + 1 <= d - 1)
    <3>1. ASSUME six + 1 <= d - 1 PROVE S * six + S <= S * (d - 1)
      BY <3>1, <1>1, <1>5, TimesMonotone
    <3> QED BY <3>1, <2>1, <1>1, <1>3, <1>4
  <2>4. six = d \/ six = d - 1
    BY <2>2, <2>3, <1>5
  <2> HIDE DEF six
  <2>5. SegSlots(six) = S * six .. S * (six + 1) - 1
    BY <1>5, SegSlotsRange
  <2>6. (0 .. S * d - 1) \ SegSlots(six) = 0 .. S * six - 1
    <3>1. CASE six = d
      BY <3>1, <2>1, <2>5, <1>1, <1>3
    <3>2. CASE six = d - 1
      BY <3>2, <2>1, <2>5, <1>1, <1>3
    <3> QED BY <2>4, <3>1, <3>2
  <2>7. Segments((0 .. S * d - 1) \ SegSlots(six), last, slots - S, six, e - 1)
    BY <2>1, <2>4, <2>6, <1>1, <1>3, <1>4 DEF Segments
  <2>8. SegSlots(six) \subseteq {i \in Nat : i > last}
    BY <2>1, <2>5, <1>1
  <2> QED BY <2>7, <2>8, <1>5, <1>6 DEF b, six
<1>7. CASE last % S # S - 1
  <2>1. last + 1 # S * (d - 1)
    <3>1. ASSUME last + 1 = S * (d - 1) PROVE FALSE
      <4>1. ~ (b + 1 <= d - 1)
        <5>1. ASSUME b + 1 <= d - 2 PROVE S * b + S <= S * (d - 2)
          BY <5>1, <1>1, <1>2, TimesMonotone
        <5>2. S * (d - 2) = S * (d - 1) - S
          BY <1>1
        <5>3. ~ (b + 1 <= d - 2)
          BY <5>1, <5>2, <3>1, <1>1, <1>2, <1>3
        <5>4. b # d - 2
          BY <5>2, <3>1, <1>1, <1>2, <1>3, <1>7
        <5> QED BY <5>3, <5>4, <1>2
      <4>2. ~ (d <= b)
        <5>1. ASSUME d - 1 + 1 <= b PROVE S * (d - 1) + S <= S * b
          BY <5>1, <1>1, <1>2, TimesMonotone
        <5> QED BY <5>1, <3>1, <1>1, <1>2, <1>3
      <4>3. b = d - 1
        BY <4>1, <4>2, <1>2
      <4> QED BY <4>3, <3>1, <1>1, <1>2, <1>3
    <3> QED BY <3>1
  <2> QED BY <2>1, <1>1, <1>3, <1>4, <1>7 DEF Segments
<1> QED BY <1>6, <1>7

-----------------------------------------------------------------------------
(* The sizes szm + 1 takes: SEGSZ doubled some number of times, written as *)
(* the least set with SEGSZ that is closed under doubling.                 *)
Sizes == {n \in Nat : \A Z \in SUBSET Nat :
                        SEGSZ \in Z /\ (\A k \in Z : 2 * k \in Z) => n \in Z}

\* Twice a table size is a table size: what grow() doubles the mask to.
LEMMA SizesDouble ==
    /\ SEGSZ \in Sizes
    /\ \A n \in Sizes : n \in Nat /\ 2 * n \in Sizes
  BY LHashAssumption DEF Sizes

\* No table is smaller than its first segment.
LEMMA SizesAtLeast == \A n \in Sizes : n >= SEGSZ
<1> DEFINE Z == {n \in Nat : n >= SEGSZ}
<1>1. Z \in SUBSET Nat /\ SEGSZ \in Z /\ \A k \in Z : 2 * k \in Z
  BY LHashAssumption
<1>2. \A n \in Sizes : n \in Z
  <2> HIDE DEF Z
  <2> QED BY <1>1 DEF Sizes
<1> QED BY <1>2

\* A size above the first is even and its half is a size: szm >> 1 loses nothing.
LEMMA SizesHalve ==
    ASSUME NEW n \in Sizes, n # SEGSZ
    PROVE  \E k \in Sizes : n = 2 * k
<1> DEFINE Z == {SEGSZ} \cup {2 * k : k \in Sizes}
<1>1. SEGSZ \in Z
  OBVIOUS
<1>2. Z \in SUBSET Nat
  BY SizesDouble, LHashAssumption
<1>3. Z \subseteq Sizes
  BY SizesDouble
<1>4. \A k \in Z : 2 * k \in Z
  BY <1>3
<1>5. n \in Z
  <2> HIDE DEF Z
  <2> QED BY <1>1, <1>2, <1>4 DEF Sizes
<1> QED BY <1>5

-----------------------------------------------------------------------------
(* Segments come and go behind the buckets in use, so placement is kept. *)

\* A new segment behind the buckets in use moves no object.
LEMMA AllocPlaced ==
    ASSUME NEW ch, NEW obj, NEW m \in Nat, NEW q \in 0 .. m, NEW six,
           Objects(obj), Buckets(ch), PlacedIn(ch, obj, m, q),
           SegSlots(six) \subseteq Nat,
           DOMAIN ch \cap SegSlots(six) \subseteq {i \in Nat : i >= m + 1 + q}
    PROVE  /\ Buckets(AllocSeg(ch, six))
           /\ DOMAIN AllocSeg(ch, six) = DOMAIN ch \cup SegSlots(six)
           /\ PlacedIn(AllocSeg(ch, six), obj, m, q)
<1> DEFINE ch1 == AllocSeg(ch, six)
           ix(b) == HashIx(Hash[obj[b]], m, q)
<1>1. /\ DOMAIN ch1 = DOMAIN ch \cup SegSlots(six)
      /\ \A i \in DOMAIN ch1 : ch1[i] = IF i \in SegSlots(six) THEN {} ELSE ch[i]
  BY DEF AllocSeg
<1>2. \A b \in DOMAIN obj : ix(b) \in 0 .. m + q
  BY HashIxRange, LHashAssumption DEF Objects
<1>3. \A b \in DOMAIN obj : ix(b) \in DOMAIN ch /\ b \in ch[ix(b)] /\ ix(b) \notin SegSlots(six)
  BY <1>2 DEF PlacedIn
<1>4. \A i \in DOMAIN ch : \A b \in ch[i] : b \in DOMAIN obj /\ i = ix(b)
  BY DEF PlacedIn
<1>5. Buckets(ch1)
  <2>1. ch1 = [i \in DOMAIN ch1 |-> ch1[i]]
    BY <1>1 DEF AllocSeg
  <2>2. \A i \in DOMAIN ch1 : ch1[i] \in SUBSET Item
    BY <1>1 DEF Buckets
  <2>3. DOMAIN ch1 \subseteq Nat
    BY <1>1 DEF Buckets
  <2> HIDE DEF ch1
  <2> QED BY <2>1, <2>2, <2>3 DEF Buckets
<1> HIDE DEF ch1, ix
<1>6. \A b \in DOMAIN obj : ix(b) \in DOMAIN ch1 /\ b \in ch1[ix(b)]
  BY <1>1, <1>3
<1>7. \A i \in DOMAIN ch1 : \A b \in ch1[i] : b \in DOMAIN obj /\ i = ix(b)
  BY <1>1, <1>4
<1> QED BY <1>1, <1>5, <1>6, <1>7 DEF PlacedIn, ch1, ix

\* Freeing a segment behind the buckets in use moves no object.
LEMMA FreePlaced ==
    ASSUME NEW ch, NEW obj, NEW m \in Nat, NEW q \in 0 .. m, NEW six,
           Objects(obj), Buckets(ch), PlacedIn(ch, obj, m, q),
           SegSlots(six) \subseteq {i \in Nat : i > m + q}
    PROVE  /\ Buckets(FreeSeg(ch, six))
           /\ DOMAIN FreeSeg(ch, six) = DOMAIN ch \ SegSlots(six)
           /\ PlacedIn(FreeSeg(ch, six), obj, m, q)
<1> DEFINE ch1 == FreeSeg(ch, six)
           ix(b) == HashIx(Hash[obj[b]], m, q)
<1>1. /\ DOMAIN ch1 = DOMAIN ch \ SegSlots(six)
      /\ \A i \in DOMAIN ch1 : ch1[i] = ch[i]
  BY DEF FreeSeg
<1>2. \A b \in DOMAIN obj : ix(b) \in 0 .. m + q
  BY HashIxRange, LHashAssumption DEF Objects
<1>3. \A b \in DOMAIN obj : ix(b) \in DOMAIN ch /\ b \in ch[ix(b)] /\ ix(b) \notin SegSlots(six)
  BY <1>2 DEF PlacedIn
<1>4. \A i \in DOMAIN ch : \A b \in ch[i] : b \in DOMAIN obj /\ i = ix(b)
  BY DEF PlacedIn
<1>5. Buckets(ch1)
  <2>1. ch1 = [i \in DOMAIN ch1 |-> ch1[i]]
    BY <1>1 DEF FreeSeg
  <2>2. \A i \in DOMAIN ch1 : ch1[i] \in SUBSET Item
    BY <1>1 DEF Buckets
  <2>3. DOMAIN ch1 \subseteq Nat
    BY <1>1 DEF Buckets
  <2> HIDE DEF ch1
  <2> QED BY <2>1, <2>2, <2>3 DEF Buckets
<1> HIDE DEF ch1, ix
<1>6. \A b \in DOMAIN obj : ix(b) \in DOMAIN ch1 /\ b \in ch1[ix(b)]
  BY <1>1, <1>3
<1>7. \A i \in DOMAIN ch1 : \A b \in ch1[i] : b \in DOMAIN obj /\ i = ix(b)
  BY <1>1, <1>4
<1> QED BY <1>1, <1>5, <1>6, <1>7 DEF PlacedIn, ch1, ix

-----------------------------------------------------------------------------
(* The inductive invariant. *)

Geometry == szm + 1 \in Sizes /\ p \in 0 .. szm /\ nactive = szm + 1 + p

Segmented ==
    \E d \in Nat, e \in Int : Segments(DOMAIN chain, nactive, nslots, d, e)

\* The segments that are allocated are all in the index table
Indexed == DOMAIN chain = Walked

Gone == DOMAIN chain = {} /\ DOMAIN key = {}

IInv ==
    /\ TypeOK
    /\ live => Geometry /\ Segmented /\ Indexed
    /\ ~live => Gone
    /\ PlacedIn(chain, key, szm, p)
    /\ Interned
    /\ IsFiniteSet(DOMAIN key) /\ nitems = Cardinality(DOMAIN key)

\* What Grow and Shrink leave behind, whatever buckets they were given.
Resized(obj) ==
    /\ szm' \in Nat /\ p' \in Nat /\ nactive' \in Nat /\ nslots' \in Int /\ nsegs' \in Nat
    /\ Geometry' /\ Segmented' /\ Indexed'
    /\ Buckets(chain') /\ PlacedIn(chain', obj, szm', p')

\* grow() after an insertion leaves a table in order: all of its parts fit.
LEMMA GrowStep ==
    ASSUME TypeOK, Geometry, Segmented, Indexed,
           NEW ch, NEW obj, DOMAIN ch = DOMAIN chain,
           Objects(obj), Buckets(ch), PlacedIn(ch, obj, szm, p), Grow(ch, obj)
    PROVE  Resized(obj)
<1> DEFINE ch1 == IF GrowAllocates THEN AllocSeg(ch, GrowSix) ELSE ch
           dom1 == DOMAIN ch1
<1>1. PICK d \in Nat, e \in Int : Segments(DOMAIN chain, nactive, nslots, d, e)
  BY DEF Segmented
<1>2. DOMAIN ch = 0 .. SEGSZ * d - 1 /\ Segments(0 .. SEGSZ * d - 1, nactive, nslots, d, e)
  BY <1>1 DEF Segments
<1>3. nactive \in Nat /\ nslots \in Int /\ szm \in Nat /\ p \in 0 .. szm /\ nsegs \in Nat
      /\ nactive = szm + 1 + p
  BY DEF TypeOK, Geometry
<1>4. /\ Buckets(ch1) /\ PlacedIn(ch1, obj, szm, p)
      /\ \E d2 \in Nat, e2 \in Int :
           nactive < SEGSZ * d2 /\ Segments(dom1, nactive + 1, nslots', d2, e2)
  <2>1. CASE GrowAllocates
    <3>0. nactive >= nslots /\ nactive % SEGSZ = 0 /\ GrowSix = nactive \div SEGSZ
      BY <2>1 DEF GrowAllocates, GrowSix
    <3>7. /\ (0 .. SEGSZ * d - 1) \cap SegSlots(nactive \div SEGSZ)
               \subseteq {i \in Nat : i >= nactive}
          /\ \E d2 \in Nat : /\ nactive < SEGSZ * d2
                 /\ Segments((0 .. SEGSZ * d - 1) \cup SegSlots(nactive \div SEGSZ),
                             nactive + 1, nslots + SEGSZ, d2, e + 1)
      BY <3>0, <1>2, <1>3, GrowSegments
    <3>1. PICK d2 \in Nat : /\ nactive < SEGSZ * d2
                            /\ Segments(DOMAIN ch \cup SegSlots(GrowSix), nactive + 1,
                                        nslots + SEGSZ, d2, e + 1)
      BY <3>0, <3>7, <1>2
    <3>2. DOMAIN ch \cap SegSlots(GrowSix) \subseteq {i \in Nat : i >= szm + 1 + p}
      BY <3>0, <3>7, <1>2, <1>3
    <3>3. SegSlots(GrowSix) \subseteq Nat
      BY <3>1, LHashAssumption DEF Segments
    <3>4. /\ Buckets(AllocSeg(ch, GrowSix))
          /\ DOMAIN AllocSeg(ch, GrowSix) = DOMAIN ch \cup SegSlots(GrowSix)
          /\ PlacedIn(AllocSeg(ch, GrowSix), obj, szm, p)
      BY <3>2, <3>3, <1>3, AllocPlaced
    <3>5. nslots' = nslots + SEGSZ
      BY <2>1 DEF Grow
    <3> QED BY <3>1, <3>4, <3>5, <2>1
  <2>2. CASE ~GrowAllocates
    <3>1. nactive < SEGSZ * d /\ Segments(DOMAIN ch, nactive + 1, nslots, d, e)
      BY <2>2, <1>2, <1>3, GrowSegments DEF GrowAllocates
    <3>2. nslots' = nslots
      BY <2>2 DEF Grow
    <3> QED BY <3>1, <3>2, <2>2
  <2> QED BY <2>1, <2>2
<1>5. chain' = Split(ch1, obj, szm, p)
  <2>1. p + szm + 1 = p + (szm + 1) /\ p + szm + 1 \in Nat
    BY <1>3
  <2> QED BY DEF Grow, Moved, Split
<1>6. szm' = NextMask(szm, p) /\ p' = NextSplit(szm, p) /\ nactive' = nactive + 1
  BY DEF Grow, NextMask, NextSplit
<1> HIDE DEF ch1
<1>7. p \in dom1 /\ p + szm + 1 \in dom1
  <2>1. PICK d2 \in Nat : nactive < SEGSZ * d2 /\ dom1 = 0 .. SEGSZ * d2 - 1
    BY <1>4 DEF Segments
  <2> QED BY <2>1, <1>3, LHashAssumption
<1>8. Buckets(chain') /\ DOMAIN chain' = dom1 /\ PlacedIn(chain', obj, szm', p')
  BY <1>3, <1>4, <1>5, <1>6, <1>7, SplitPlaced
<1>9. Segmented'
  BY <1>4, <1>6, <1>8 DEF Segmented
<1>10. Geometry'
  <2>1. CASE p = szm
    <3>1. szm' + 1 = 2 * (szm + 1) /\ p' = 0 /\ nactive' = szm' + 1 + p' /\ szm' \in Nat
      BY <2>1, <1>3, <1>6 DEF NextMask, NextSplit
    <3>2. szm' + 1 \in Sizes
      BY <3>1, SizesDouble DEF Geometry
    <3> QED BY <3>1, <3>2 DEF Geometry
  <2>2. CASE p # szm
    BY <2>2, <1>3, <1>6 DEF NextMask, NextSplit, Geometry
  <2> QED BY <2>1, <2>2
<1>11. szm' \in Nat /\ p' \in Nat /\ nactive' \in Nat /\ nslots' \in Int /\ nsegs' \in Nat
  BY <1>3, LHashAssumption DEF Grow, Longer
<1>12. Indexed'
  <2>1. nsegs' >= nsegs
    BY <1>3, LHashAssumption DEF Grow, Longer
  <2>2. \A i \in DOMAIN ch : i \div SEGSZ < nsegs
    BY DEF Indexed, Walked
  <2>3. \A i \in DOMAIN ch : i \in Nat /\ i \div SEGSZ \in Int
    BY <1>2, Division, LHashAssumption
  <2>4. CASE ~GrowAllocates
    BY <2>1, <2>2, <2>3, <2>4, <1>3, <1>8, <1>11 DEF Indexed, Walked, ch1
  <2>5. CASE GrowAllocates
    <3>1. nactive % SEGSZ = 0 /\ nactive = SEGSZ * GrowSix /\ GrowSix \in Int
      <4>1. nactive \in Int /\ SEGSZ \in Nat \ {0}
        BY <1>3, LHashAssumption
      <4>2. nactive % SEGSZ = 0
        BY <2>5 DEF GrowAllocates
      <4>3. /\ nactive \div SEGSZ \in Int
            /\ nactive = SEGSZ * (nactive \div SEGSZ) + (nactive % SEGSZ)
        BY ONLY <4>1, Division
      <4>4. GrowSix = nactive \div SEGSZ
        BY DEF GrowSix
      <4> QED BY ONLY <4>1, <4>2, <4>3, <4>4
    <3>2. nactive - 1 \in DOMAIN ch
      BY <1>2, <1>3, LHashAssumption DEF Segments
    <3>3. (nactive - 1) \div SEGSZ = GrowSix - 1
      <4>1. SEGSZ \in Nat \ {0} /\ GrowSix - 1 \in Int /\ SEGSZ - 1 \in 0 .. SEGSZ - 1
        BY <3>1, LHashAssumption
      <4>2. nactive - 1 = SEGSZ * (GrowSix - 1) + (SEGSZ - 1)
        BY ONLY <3>1, <4>1
      <4>3. (SEGSZ * (GrowSix - 1) + (SEGSZ - 1)) \div SEGSZ = GrowSix - 1
        BY ONLY <4>1, DivisionOf
      <4> QED BY ONLY <4>2, <4>3
    <3>4. GrowSix <= nsegs
      BY <3>1, <3>2, <3>3, <2>2, <1>3
    <3>5. GrowSix < nsegs'
      BY <3>1, <3>4, <2>5, <1>3, LHashAssumption DEF Grow, Longer
    <3>6. ASSUME NEW i \in SegSlots(GrowSix) PROVE i \div SEGSZ = GrowSix
      <4>1. /\ SEGSZ \in Nat \ {0} /\ GrowSix \in Int /\ i \in Int
            /\ i \in GrowSix * SEGSZ .. GrowSix * SEGSZ + SEGSZ - 1
        BY <3>1, LHashAssumption DEF SegSlots
      <4>2. i - SEGSZ * GrowSix \in 0 .. SEGSZ - 1
        BY ONLY <4>1
      <4>3. (SEGSZ * GrowSix + (i - SEGSZ * GrowSix)) \div SEGSZ = GrowSix
        BY ONLY <4>1, <4>2, DivisionOf
      <4>4. SEGSZ * GrowSix + (i - SEGSZ * GrowSix) = i
        BY ONLY <4>1
      <4> QED BY ONLY <4>3, <4>4
    <3>7. DOMAIN chain' = DOMAIN ch \cup SegSlots(GrowSix)
      BY <1>8, <2>5 DEF ch1, AllocSeg
    <3> QED BY <3>5, <3>6, <3>7, <2>1, <2>2, <2>3, <1>3, <1>11 DEF Indexed, Walked
  <2> QED BY <2>4, <2>5
<1> QED BY <1>8, <1>9, <1>10, <1>11, <1>12 DEF Resized

\* shrink() after an erasure leaves a table in order.
LEMMA ShrinkStep ==
    ASSUME TypeOK, Geometry, Segmented, Indexed,
           NEW ch, NEW obj, DOMAIN ch = DOMAIN chain,
           Objects(obj), Buckets(ch), PlacedIn(ch, obj, szm, p), Shrink(ch)
    PROVE  Resized(obj)
<1>1. PICK d \in Nat, e \in Int : Segments(DOMAIN chain, nactive, nslots, d, e)
  BY DEF Segmented
<1>2. DOMAIN ch = 0 .. SEGSZ * d - 1 /\ Segments(0 .. SEGSZ * d - 1, nactive, nslots, d, e)
  BY <1>1 DEF Segments
<1>3. nactive \in Nat /\ nslots \in Int /\ szm \in Nat /\ p \in 0 .. szm /\ nsegs \in Nat
      /\ nactive = szm + 1 + p
  BY DEF TypeOK, Geometry
<1>4. CASE nactive = SEGSZ
  <2>1. chain' = ch /\ UNCHANGED <<szm, p, nactive, nslots, nsegs>>
    BY <1>4 DEF Shrink
  <2>2. Indexed'
    BY <2>1 DEF Indexed, Walked
  <2> QED BY <2>1, <2>2, <1>1, <1>3 DEF Resized, Geometry, Segmented
<1>5. CASE nactive # SEGSZ
  <2> DEFINE last == nactive - 1
             m == IF p = 0 THEN szm \div 2 ELSE szm
             q == IF p = 0 THEN szm \div 2 ELSE p - 1
             ch1 == Merge(ch, m, q)
             six == (last \div SEGSZ) + 1
  <2>1. /\ m \in Nat /\ q \in 0 .. m /\ m + 1 \in Sizes
        /\ NextMask(m, q) = szm /\ NextSplit(m, q) = p
        /\ last = m + 1 + q
    <3>1. CASE p = 0
      <4>1. szm + 1 # SEGSZ /\ szm + 1 \in Sizes
        BY <3>1, <1>3, <1>5 DEF Geometry
      <4>2. PICK k \in Sizes : szm + 1 = 2 * k
        BY <4>1, SizesHalve
      <4>3. k \in Nat
        BY SizesDouble
      <4>4. k >= 1 /\ szm \div 2 = k - 1
        BY <4>2, <4>3, <1>3
      <4>5. m = k - 1 /\ q = k - 1 /\ m + 1 = k
        BY <4>3, <4>4, <3>1
      <4> HIDE DEF m, q
      <4> QED BY <4>2, <4>3, <4>4, <4>5, <3>1, <1>3 DEF NextMask, NextSplit
    <3>2. CASE p # 0
      BY <3>2, <1>3 DEF NextMask, NextSplit, Geometry
    <3> QED BY <3>1, <3>2
  <2>2. /\ szm' = m /\ p' = q /\ nactive' = last /\ nsegs' = nsegs
        /\ nslots' = IF last % SEGSZ = SEGSZ - 1 THEN nslots - SEGSZ ELSE nslots
        /\ chain' = IF last % SEGSZ = SEGSZ - 1
                    THEN FreeSeg([ch EXCEPT ![q] = @ \cup ch[last], ![last] = {}], six)
                    ELSE [ch EXCEPT ![q] = @ \cup ch[last], ![last] = {}]
    BY <1>5 DEF Shrink, MaskBack, SplitBack, Link
  <2> HIDE DEF m, q
  <2>3. last \in Nat /\ last + 1 = nactive /\ last = q + m + 1
    BY <2>1, <1>3
  <2>4. ch1 = [ch EXCEPT ![q] = @ \cup ch[last], ![last] = {}]
    BY <2>3 DEF Merge
  <2>5. q \in DOMAIN ch /\ q + m + 1 \in DOMAIN ch
    BY <1>2, <1>3, <2>1, <2>3, LHashAssumption DEF Segments
  <2>6. Buckets(ch1) /\ DOMAIN ch1 = DOMAIN ch /\ PlacedIn(ch1, obj, m, q)
    BY <2>1, <2>5, MergePlaced
  <2>7. Geometry'
    BY <2>1, <2>2, <2>3 DEF Geometry
  <2> HIDE DEF ch1, last
  <2>8. Segments(0 .. SEGSZ * d - 1, last + 1, nslots, d, e)
    BY <1>2, <2>3
  <2>9. Segmented' /\ Buckets(chain') /\ PlacedIn(chain', obj, m, q)
    <3>1. CASE last % SEGSZ = SEGSZ - 1
      <4>1. /\ SegSlots(six) \subseteq {i \in Nat : i > last}
            /\ \E d2 \in Nat : Segments((0 .. SEGSZ * d - 1) \ SegSlots(six),
                                        last, nslots - SEGSZ, d2, e - 1)
        BY <3>1, <2>3, <2>8, <1>3, ShrinkSegments
      <4>2. chain' = FreeSeg(ch1, six) /\ nslots' = nslots - SEGSZ
        BY <3>1, <2>2, <2>4
      <4>3. SegSlots(six) \subseteq {i \in Nat : i > m + q}
        BY <4>1, <2>1, <2>3
      <4>4. Buckets(chain') /\ DOMAIN chain' = DOMAIN ch1 \ SegSlots(six)
            /\ PlacedIn(chain', obj, m, q)
        <5>1. m \in Nat /\ q \in 0 .. m /\ Objects(obj)
          BY <2>1
        <5>2. /\ Buckets(FreeSeg(ch1, six))
              /\ DOMAIN FreeSeg(ch1, six) = DOMAIN ch1 \ SegSlots(six)
              /\ PlacedIn(FreeSeg(ch1, six), obj, m, q)
          BY <5>1, <4>3, <2>6, FreePlaced
        <5> QED BY <5>2, <4>2
      <4>5. e - 1 \in Int
        OBVIOUS
      <4> QED BY <4>1, <4>2, <4>4, <4>5, <2>2, <2>6, <1>2 DEF Segmented
    <3>2. CASE last % SEGSZ # SEGSZ - 1
      <4>1. Segments(0 .. SEGSZ * d - 1, last, nslots, d, e)
        BY <3>2, <2>3, <2>8, <1>3, ShrinkSegments
      <4>2. chain' = ch1 /\ nslots' = nslots
        BY <3>2, <2>2, <2>4
      <4> QED BY <4>1, <4>2, <2>2, <2>6, <1>2 DEF Segmented
    <3> QED BY <3>1, <3>2
  <2>10. nslots' \in Int
    BY <2>2, <1>3, LHashAssumption
  <2>11. Indexed'
    <3>1. DOMAIN chain' \subseteq DOMAIN ch
      BY <2>2, <2>4, <2>6 DEF FreeSeg
    <3> QED BY <3>1, <2>2 DEF Indexed, Walked
  <2> QED BY <2>1, <2>2, <2>3, <2>7, <2>9, <2>10, <2>11, <1>3 DEF Resized
<1> QED BY <1>4, <1>5

-----------------------------------------------------------------------------
\* lhash_new makes a table in order.
LEMMA NewIInv == IInv /\ New => IInv'
<1> SUFFICES ASSUME IInv, New PROVE IInv'
  OBVIOUS
<1> USE LHashAssumption
<1>1. SegSlots(0) = 0 .. SEGSZ * 1 - 1
  BY DEF SegSlots
<1>2. live' /\ chain' = [i \in SegSlots(0) |-> {}] /\ key' = key /\ DOMAIN key = {}
      /\ szm' = SEGSZ - 1 /\ p' = 0 /\ nactive' = SEGSZ /\ nslots' = SEGSZ
      /\ nitems' = 0 /\ nsegs' = 1
  BY DEF New, IInv, Gone
<1>3. TypeOK'
  BY <1>1, <1>2 DEF IInv, TypeOK
<1>4. Geometry'
  BY <1>2, SizesDouble DEF Geometry
<1>5. Segments(DOMAIN chain', nactive', nslots', 1, 1)
  BY <1>1, <1>2 DEF Segments
<1>6. PlacedIn(chain', key', szm', p')
  BY <1>2 DEF PlacedIn
<1>7. nitems' = Cardinality(DOMAIN key') /\ IsFiniteSet(DOMAIN key') /\ Interned'
  BY <1>2, FS_EmptySet DEF Interned
<1>8. Segmented'
  BY <1>5 DEF Segmented
<1>9. Indexed'
  <2>1. \A i \in SegSlots(0) : i \div SEGSZ = 0
    <3> SUFFICES ASSUME NEW i \in SegSlots(0) PROVE i \div SEGSZ = 0
      OBVIOUS
    <3>1. i \in 0 .. SEGSZ - 1 /\ i = SEGSZ * 0 + i
      BY <1>1
    <3> QED BY <3>1, DivisionOf
  <2> QED BY <2>1, <1>2 DEF Indexed, Walked
<1> QED BY <1>2, <1>3, <1>4, <1>6, <1>7, <1>8, <1>9 DEF IInv

\* lhash_free finds every object in a segment of the table and frees it.
LEMMA FreeIInv == IInv /\ Free => IInv'
<1> SUFFICES ASSUME IInv, Free PROVE IInv'
  OBVIOUS
<1>1. \A b \in DOMAIN key : b \in UNION {chain[i] : i \in Walked}
  BY DEF IInv, PlacedIn, Indexed, Free
<1>2. DOMAIN key' = {} /\ DOMAIN chain' = {} /\ ~live'
  BY <1>1 DEF Free
<1>3. nitems' = Cardinality(DOMAIN key') /\ IsFiniteSet(DOMAIN key') /\ Interned'
  BY <1>2, FS_EmptySet DEF Interned, Free
<1>4. TypeOK'
  <2>1. chain' \in [DOMAIN chain' -> SUBSET Item]
    BY <1>2 DEF Free
  <2>2. key' \in [DOMAIN key' -> Key]
    BY <1>2 DEF Free
  <2>3. live' \in BOOLEAN
    BY DEF Free
  <2>4. szm' = 0 /\ p' = 0 /\ nactive' = 0 /\ nslots' = 0 /\ nitems' = 0 /\ nsegs' = 0
    BY DEF Free
  <2> QED BY ONLY <1>2, <2>1, <2>2, <2>3, <2>4 DEF TypeOK
<1>5. PlacedIn(chain', key', szm', p') /\ Gone'
  BY <1>2 DEF PlacedIn, Gone
<1> QED BY <1>2, <1>3, <1>4, <1>5 DEF IInv

\* lhash_put keeps the table in order, with or without a grow().
LEMMA PutIInv ==
    ASSUME IInv, NEW k \in Key, NEW b \in Item, Put(k, b)
    PROVE  IInv'
<1> DEFINE ix == HashIx(Hash[k], szm, p)
           ch == [chain EXCEPT ![ix] = @ \cup {b}]
           obj == [c \in DOMAIN key \cup {b} |-> IF c = b THEN k ELSE key[c]]
           h(c) == HashIx(Hash[key[c]], szm, p)
<1>1. /\ live /\ live' /\ TypeOK /\ Geometry /\ Segmented
      /\ PlacedIn(chain, key, szm, p) /\ Interned
      /\ IsFiniteSet(DOMAIN key) /\ nitems = Cardinality(DOMAIN key)
  BY DEF Put, IInv
<1>2. key' = obj /\ nitems' = nitems + 1 /\ b \notin DOMAIN key /\ Find(k) = {}
  BY DEF Put
<1>3. szm \in Nat /\ p \in 0 .. szm /\ nactive = szm + 1 + p /\ Hash[k] \in Nat
  BY <1>1, LHashAssumption DEF TypeOK, Geometry
<1>4. ix \in DOMAIN chain
  <2>1. ix \in 0 .. szm + p
    BY <1>3, HashIxRange
  <2>2. PICK d \in Nat : DOMAIN chain = 0 .. SEGSZ * d - 1 /\ nactive <= SEGSZ * d
    BY <1>1 DEF Segmented, Segments
  <2> QED BY <2>1, <2>2, <1>3, LHashAssumption
<1>5. /\ chain = [i \in DOMAIN chain |-> chain[i]] /\ DOMAIN ch = DOMAIN chain
      /\ \A i \in DOMAIN chain : ch[i] = IF i = ix THEN chain[i] \cup {b} ELSE chain[i]
  BY <1>1 DEF TypeOK
<1>6. Objects(obj)
  <2>1. DOMAIN obj = DOMAIN key \cup {b} /\ \A c \in DOMAIN obj : obj[c] \in Key
    BY <1>1 DEF TypeOK
  <2> QED BY <2>1, <1>1 DEF Objects, TypeOK
<1>7. Buckets(ch)
  <2>1. ch = [i \in DOMAIN ch |-> ch[i]]
    BY <1>5
  <2>2. \A i \in DOMAIN ch : ch[i] \in SUBSET Item
    BY <1>1, <1>5 DEF TypeOK
  <2> HIDE DEF ch
  <2> QED BY <2>1, <2>2, <1>1, <1>5 DEF Buckets, TypeOK
<1>8. PlacedIn(ch, obj, szm, p)
  <2>1. \A c \in DOMAIN key : obj[c] = key[c]
    BY <1>2
  <2>2. obj[b] = k /\ DOMAIN obj = DOMAIN key \cup {b}
    OBVIOUS
  <2>3. /\ \A c \in DOMAIN key : h(c) \in DOMAIN chain /\ c \in chain[h(c)]
        /\ \A i \in DOMAIN chain : \A c \in chain[i] : c \in DOMAIN key /\ i = h(c)
    BY <1>1 DEF PlacedIn
  <2> DEFINE g(c) == HashIx(Hash[obj[c]], szm, p)
  <2>4. g(b) = ix /\ \A c \in DOMAIN key : g(c) = h(c)
    BY <2>1, <2>2
  <2> HIDE DEF ch, obj, ix, h, g
  <2>5. \A c \in DOMAIN obj : g(c) \in DOMAIN ch /\ c \in ch[g(c)]
    BY <2>2, <2>3, <2>4, <1>4, <1>5
  <2>6. \A i \in DOMAIN ch : \A c \in ch[i] : c \in DOMAIN obj /\ i = g(c)
    BY <2>2, <2>3, <2>4, <1>4, <1>5
  <2> QED BY <2>5, <2>6 DEF PlacedIn, g
<1>9. Interned'
  <2>1. \A c \in DOMAIN key : key[c] # k
    <3> SUFFICES ASSUME NEW c \in DOMAIN key, key[c] = k PROVE FALSE
      OBVIOUS
    <3>1. c \in chain[ix]
      BY <1>1 DEF PlacedIn
    <3> QED BY <3>1, <1>2 DEF Find
  <2> QED BY <2>1, <1>1, <1>2 DEF Interned
<1>10. nitems' = Cardinality(DOMAIN key') /\ IsFiniteSet(DOMAIN key')
  BY <1>1, <1>2, FS_AddElement
<1>11. Resized(obj)
  <2>0. Indexed
    BY <1>1 DEF IInv
  <2>1. CASE (nitems + 1) \div nactive >= Thres
    <3>1. Grow(ch, obj)
      BY <2>1 DEF Put
    <3> HIDE DEF ch, obj
    <3> QED BY <3>1, <1>1, <1>5, <1>6, <1>7, <1>8, <2>0, GrowStep
  <2>2. CASE ~ ((nitems + 1) \div nactive >= Thres)
    <3>1. chain' = ch /\ UNCHANGED <<szm, p, nactive, nslots, nsegs>>
      BY <2>2 DEF Put
    <3> HIDE DEF ch, obj
    <3>2. Indexed'
      BY <3>1, <2>0, <1>5 DEF Indexed, Walked
    <3> QED BY <3>1, <3>2, <1>1, <1>5, <1>7, <1>8 DEF Resized, TypeOK, Geometry, Segmented
  <2> QED BY <2>1, <2>2
<1> HIDE DEF obj
<1>12. TypeOK'
  <2>1. nitems' \in Nat
    BY <1>1, <1>2 DEF TypeOK
  <2> QED BY <2>1, <1>1, <1>2, <1>6, <1>11 DEF Resized, Objects, Buckets, TypeOK
<1> QED BY <1>1, <1>2, <1>9, <1>10, <1>11, <1>12 DEF IInv, Resized

\* lhash_erase keeps the table in order, with or without a shrink().
LEMMA EraseIInv ==
    ASSUME IInv, NEW k \in Key, Erase(k)
    PROVE  IInv'
<1>1. /\ live /\ live' /\ TypeOK /\ Geometry /\ Segmented
      /\ PlacedIn(chain, key, szm, p) /\ Interned
      /\ IsFiniteSet(DOMAIN key) /\ nitems = Cardinality(DOMAIN key)
  BY DEF Erase, IInv
<1>2. PICK b \in Find(k) :
        LET ix == HashIx(Hash[k], szm, p)
            ch == [chain EXCEPT ![ix] = @ \ {b}]
        IN /\ key' = [c \in DOMAIN key \ {b} |-> key[c]]
           /\ nitems' = nitems - 1
           /\ IF (nitems - 1) \div nactive < Thres
              THEN Shrink(ch)
              ELSE chain' = ch /\ UNCHANGED <<szm, p, nactive, nslots, nsegs>>
  BY DEF Erase
<1> DEFINE ix == HashIx(Hash[k], szm, p)
           ch == [chain EXCEPT ![ix] = @ \ {b}]
           obj == [c \in DOMAIN key \ {b} |-> key[c]]
           h(c) == HashIx(Hash[key[c]], szm, p)
<1>3. szm \in Nat /\ p \in 0 .. szm /\ nactive = szm + 1 + p /\ Hash[k] \in Nat
  BY <1>1, LHashAssumption DEF TypeOK, Geometry
<1>4. ix \in DOMAIN chain
  <2>1. ix \in 0 .. szm + p
    BY <1>3, HashIxRange
  <2>2. PICK d \in Nat : DOMAIN chain = 0 .. SEGSZ * d - 1 /\ nactive <= SEGSZ * d
    BY <1>1 DEF Segmented, Segments
  <2> QED BY <2>1, <2>2, <1>3, LHashAssumption
<1>5. b \in DOMAIN key /\ key[b] = k /\ b \in chain[ix]
  BY <1>1, <1>4 DEF Find, PlacedIn
<1>6. /\ chain = [i \in DOMAIN chain |-> chain[i]] /\ DOMAIN ch = DOMAIN chain
      /\ \A i \in DOMAIN chain : ch[i] = IF i = ix THEN chain[i] \ {b} ELSE chain[i]
  BY <1>1 DEF TypeOK
<1>7. Objects(obj)
  <2>1. DOMAIN obj = DOMAIN key \ {b} /\ \A c \in DOMAIN obj : obj[c] \in Key
    BY <1>1 DEF TypeOK
  <2> QED BY <2>1, <1>1 DEF Objects, TypeOK
<1>8. Buckets(ch)
  <2>1. ch = [i \in DOMAIN ch |-> ch[i]]
    BY <1>6
  <2>2. \A i \in DOMAIN ch : ch[i] \in SUBSET Item
    BY <1>1, <1>6 DEF TypeOK
  <2> HIDE DEF ch
  <2> QED BY <2>1, <2>2, <1>1, <1>6 DEF Buckets, TypeOK
<1>9. PlacedIn(ch, obj, szm, p)
  <2>1. DOMAIN obj = DOMAIN key \ {b} /\ \A c \in DOMAIN obj : obj[c] = key[c]
    OBVIOUS
  <2>2. /\ \A c \in DOMAIN key : h(c) \in DOMAIN chain /\ c \in chain[h(c)]
        /\ \A i \in DOMAIN chain : \A c \in chain[i] : c \in DOMAIN key /\ i = h(c)
    BY <1>1 DEF PlacedIn
  <2> DEFINE g(c) == HashIx(Hash[obj[c]], szm, p)
  <2>3. h(b) = ix /\ \A c \in DOMAIN obj : g(c) = h(c)
    BY <2>1, <1>5
  <2> HIDE DEF ch, obj, ix, h, g
  <2>4. \A c \in DOMAIN obj : g(c) \in DOMAIN ch /\ c \in ch[g(c)]
    BY <2>1, <2>2, <2>3, <1>6
  <2>5. \A i \in DOMAIN ch : \A c \in ch[i] : c \in DOMAIN obj /\ i = g(c)
    BY <2>1, <2>2, <2>3, <1>6
  <2> QED BY <2>4, <2>5 DEF PlacedIn, g
<1>10. Interned'
  BY <1>1, <1>2 DEF Interned
<1>11. nitems' = Cardinality(DOMAIN key') /\ IsFiniteSet(DOMAIN key') /\ nitems' \in Nat
  <2>1. DOMAIN key' = DOMAIN key \ {b}
    BY <1>2
  <2>2. Cardinality(DOMAIN key') = Cardinality(DOMAIN key) - 1 /\ IsFiniteSet(DOMAIN key')
    BY <2>1, <1>1, <1>5, FS_RemoveElement
  <2>3. Cardinality(DOMAIN key') \in Nat
    BY <2>2, FS_CardinalityType
  <2> QED BY <2>2, <2>3, <1>1, <1>2
<1>12. Resized(obj)
  <2>0. Indexed
    BY <1>1 DEF IInv
  <2>1. CASE (nitems - 1) \div nactive < Thres
    <3>1. Shrink(ch)
      BY <2>1, <1>2
    <3> HIDE DEF ch, obj
    <3> QED BY <3>1, <1>1, <1>6, <1>7, <1>8, <1>9, <2>0, ShrinkStep
  <2>2. CASE ~ ((nitems - 1) \div nactive < Thres)
    <3>1. chain' = ch /\ UNCHANGED <<szm, p, nactive, nslots, nsegs>>
      BY <2>2, <1>2
    <3> HIDE DEF ch, obj
    <3>2. Indexed'
      BY <3>1, <2>0, <1>6 DEF Indexed, Walked
    <3> QED BY <3>1, <3>2, <1>1, <1>6, <1>8, <1>9 DEF Resized, TypeOK, Geometry, Segmented
  <2> QED BY <2>1, <2>2
<1>13. key' = obj
  BY <1>2
<1> HIDE DEF obj
<1>14. TypeOK'
  BY <1>1, <1>7, <1>11, <1>12, <1>13 DEF Resized, Objects, Buckets, TypeOK
<1> QED BY <1>1, <1>10, <1>11, <1>12, <1>13, <1>14 DEF IInv, Resized

\* The table stays in order through every sequence of its calls, for every hash
\* function, segment size and threshold: the inductive invariant of this module.
THEOREM LHashInductive == Spec => []IInv
<1>1. Init => IInv
  <2> SUFFICES ASSUME Init PROVE IInv
    OBVIOUS
  <2>1. DOMAIN chain = {} /\ DOMAIN key = {} /\ live = FALSE
    BY DEF Init
  <2>2. TypeOK
    <3>1. chain \in [DOMAIN chain -> SUBSET Item] /\ key \in [DOMAIN key -> Key]
      BY DEF Init
    <3>2. szm = 0 /\ p = 0 /\ nactive = 0 /\ nslots = 0 /\ nitems = 0 /\ nsegs = 0
      BY DEF Init
    <3>3. live \in BOOLEAN
      BY <2>1
    <3> QED BY ONLY <2>1, <3>1, <3>2, <3>3 DEF TypeOK
  <2>3. IsFiniteSet(DOMAIN key) /\ nitems = Cardinality(DOMAIN key)
    BY <2>1, FS_EmptySet DEF Init
  <2>4. PlacedIn(chain, key, szm, p) /\ Interned /\ Gone
    BY <2>1 DEF PlacedIn, Interned, Gone
  <2> QED BY <2>1, <2>2, <2>3, <2>4 DEF IInv
<1>2. IInv /\ [Next]_vars => IInv'
  <2> SUFFICES ASSUME IInv, [Next]_vars PROVE IInv'
    OBVIOUS
  <2>1. CASE New
    BY <2>1, NewIInv
  <2>2. ASSUME NEW k \in Key, NEW b \in Item, Put(k, b) PROVE IInv'
    BY <2>2, PutIInv
  <2>3. ASSUME NEW k \in Key, Erase(k) PROVE IInv'
    BY <2>3, EraseIInv
  <2>4. CASE Free
    BY <2>4, FreeIInv
  <2>5. CASE UNCHANGED vars
    BY <2>5 DEF vars, IInv, TypeOK, Geometry, Segmented, Indexed, Walked, Gone, Interned
  <2> QED BY <2>1, <2>2, <2>3, <2>4, <2>5 DEF Next
<1> QED BY <1>1, <1>2, PTL DEF Spec

-----------------------------------------------------------------------------
\* A table in order has the buckets it uses, and grow() finds or makes the next.
LEMMA IInvBacked == IInv => Backed
<1> SUFFICES ASSUME IInv, live PROVE Backed
  BY DEF Backed
<1>1. Geometry /\ Segmented /\ TypeOK
  BY DEF IInv
<1>2. p <= szm /\ nactive = szm + 1 + p /\ nactive >= SEGSZ
  BY <1>1, SizesAtLeast, LHashAssumption DEF Geometry, TypeOK
<1>3. PICK d \in Nat, e \in Int : Segments(DOMAIN chain, nactive, nslots, d, e)
  BY <1>1 DEF Segmented
<1>4. SEGSZ * e <= SEGSZ * d
  <2>1. CASE e = d
    BY <2>1, LHashAssumption
  <2>2. CASE e # d
    <3>1. e + 1 <= d
      BY <2>2, <1>3 DEF Segments
    <3>2. SEGSZ * e + SEGSZ <= SEGSZ * d
      BY <3>1, TimesMonotone, LHashAssumption
    <3>3. SEGSZ * e \in Int /\ SEGSZ * d \in Int
      BY LHashAssumption
    <3> QED BY <3>2, <3>3, LHashAssumption
  <2> QED BY <2>1, <2>2
<1>5. SEGSZ * d \in Int /\ SEGSZ * e \in Int
  BY LHashAssumption
<1>6. 0 .. nactive - 1 \subseteq DOMAIN chain
  BY <1>1, <1>3, <1>5 DEF Segments, TypeOK
<1>7. nslots > nactive => nactive \in DOMAIN chain
  BY <1>1, <1>3, <1>4, <1>5 DEF Segments, TypeOK
<1> QED BY <1>2, <1>6, <1>7 DEF Backed

\* Every variable keeps its type; in particular the item count never goes below 0.
THEOREM LHashTypeCorrect == Spec => []TypeOK
  BY LHashInductive, PTL DEF IInv

\* Whatever was inserted, erased, split and merged, an object is linked where
\* HASH looks for it, and nowhere else.
THEOREM LHashPlacement == Spec => []Placed
<1>1. IInv => Placed
  BY DEF IInv, Placed, PlacedIn
<1> QED BY <1>1, LHashInductive, PTL

\* A key never has two objects: atoms can be compared by address.
THEOREM LHashInterning == Spec => []Interned
  BY LHashInductive, PTL DEF IInv

\* Every bucket the code indexes is in an allocated segment, although nslots
\* drifts: it may lag behind the allocated segments, never run ahead of them.
THEOREM LHashBacking == Spec => []Backed
  BY IInvBacked, LHashInductive, PTL

\* The item count is the number of objects: none leaks, and none outlives Free.
THEOREM LHashCounting == Spec => []Counted
<1>1. IInv => Counted
  BY DEF IInv, Counted
<1> QED BY <1>1, LHashInductive, PTL

-----------------------------------------------------------------------------
SeenInverse ==
    /\ Present = {key[b] : b \in DOMAIN key}
    /\ \A b \in DOMAIN key : Seen[key[b]] = b
    /\ \A k \in Key : live => Find(k) = {b \in DOMAIN key : key[b] = k}

\* What a search answers is the key function read backwards.
LEMMA SeenIsInverse == IInv => SeenInverse
<1> SUFFICES ASSUME IInv
             PROVE  /\ Present = {key[b] : b \in DOMAIN key}
                    /\ \A b \in DOMAIN key : Seen[key[b]] = b
                    /\ \A k \in Key : live => Find(k) = {b \in DOMAIN key : key[b] = k}
  BY DEF SeenInverse
<1>1. \A b \in DOMAIN key : key[b] \in Key
  BY DEF IInv, TypeOK
<1>2. ASSUME live, NEW k \in Key PROVE Find(k) = {b \in DOMAIN key : key[b] = k}
  <2>1. HashIx(Hash[k], szm, p) \in DOMAIN chain
    <3>1. Hash[k] \in Nat /\ szm \in Nat /\ p \in 0 .. szm /\ nactive = szm + 1 + p
      BY <1>2, LHashAssumption DEF IInv, TypeOK, Geometry
    <3>2. HashIx(Hash[k], szm, p) \in 0 .. szm + p
      BY <3>1, HashIxRange
    <3>3. 0 .. nactive - 1 \subseteq DOMAIN chain
      BY <1>2, IInvBacked DEF Backed
    <3> QED BY <3>1, <3>2, <3>3
  <2>2. Find(k) \subseteq {b \in DOMAIN key : key[b] = k}
    BY <2>1 DEF Find, IInv, PlacedIn
  <2>3. {b \in DOMAIN key : key[b] = k} \subseteq Find(k)
    BY DEF Find, IInv, PlacedIn
  <2> QED BY <2>2, <2>3
<1>3. Present = {key[b] : b \in DOMAIN key}
  <2>1. CASE live
    BY <2>1, <1>1, <1>2 DEF Present
  <2>2. CASE ~live
    BY <2>2 DEF Present, IInv, Gone
  <2> QED BY <2>1, <2>2
<1>4. ASSUME NEW b \in DOMAIN key PROVE Seen[key[b]] = b
  <2>1. live
    BY <1>4 DEF IInv, Gone
  <2>2. Find(key[b]) = {b}
    BY <2>1, <1>1, <1>2 DEF IInv, Interned
  <2>3. Seen[key[b]] = CHOOSE c \in Find(key[b]) : TRUE
    BY <1>3 DEF Seen
  <2> QED BY <2>2, <2>3
<1> QED BY <1>2, <1>3, <1>4

\* The same of the state after a step.
LEMMA SeenIsInverseNext == IInv' => SeenInverse'
<1>1. IInv => SeenInverse
  BY SeenIsInverse
<1> QED BY <1>1, PTL

\* A hash table step is a step of the partial function, or leaves it alone.
LEMMA StepImplements == IInv /\ IInv' /\ [Next]_vars => [KT!KTNext]_Seen
<1> SUFFICES ASSUME IInv, IInv', [Next]_vars PROVE [KT!KTNext]_Seen
  OBVIOUS
<1>1. /\ Present = {key[b] : b \in DOMAIN key}
      /\ \A b \in DOMAIN key : Seen[key[b]] = b
      /\ \A k \in Key : live => Find(k) = {b \in DOMAIN key : key[b] = k}
  BY SeenIsInverse DEF SeenInverse
<1>2. /\ Present' = {key'[b] : b \in DOMAIN key'}
      /\ \A b \in DOMAIN key' : Seen'[key'[b]] = b
  <2>1. SeenInverse'
    BY SeenIsInverseNext
  <2> HIDE DEF Present, Seen
  <2> QED BY <2>1 DEF SeenInverse
<1>3. Seen = [k \in Present |-> Seen[k]] /\ Seen' = [k \in Present' |-> Seen'[k]]
  BY DEF Seen
<1>4. DOMAIN Seen = Present /\ DOMAIN Seen' = Present'
  BY DEF Seen
<1> HIDE DEF Seen, Present
<1>5. CASE New
  <2>1. DOMAIN key = {} /\ key' = key
    BY <1>5 DEF New, IInv, Gone
  <2>2. Present = {} /\ Present' = {}
    BY <2>1, <1>1, <1>2
  <2>3. Seen' = Seen
    BY <2>2, <1>3
  <2> QED BY <2>3
<1>6. ASSUME NEW k \in Key, NEW b \in Item, Put(k, b) PROVE [KT!KTNext]_Seen
  <2>1. /\ key' = [c \in DOMAIN key \cup {b} |-> IF c = b THEN k ELSE key[c]]
        /\ b \notin DOMAIN key /\ Find(k) = {} /\ live
    BY <1>6 DEF Put
  <2>2. \A c \in DOMAIN key : key[c] # k
    BY <2>1, <1>1
  <2>3. Present' = Present \cup {k}
    <3>1. DOMAIN key' = DOMAIN key \cup {b} /\ key'[b] = k
          /\ \A c \in DOMAIN key : key'[c] = key[c]
      BY <2>1
    <3>2. \A x \in Present \cup {k} : x \in Present'
      BY <3>1, <1>1, <1>2
    <3>3. \A x \in Present' : x \in Present \cup {k}
      BY <3>1, <1>1, <1>2
    <3> QED BY <3>2, <3>3
  <2>4. k \notin DOMAIN Seen
    BY <2>2, <1>1, <1>4
  <2>5. b \notin {Seen[x] : x \in DOMAIN Seen}
    BY <2>1, <1>1, <1>4
  <2>6. \A x \in Present' : Seen'[x] = IF x = k THEN b ELSE Seen[x]
    <3>1. Seen'[k] = b
      BY <2>1, <1>2
    <3>2. \A c \in DOMAIN key : Seen'[key[c]] = c
      BY <2>1, <1>2
    <3> QED BY <3>1, <3>2, <2>2, <2>3, <1>1
  <2>7. Seen' = [x \in DOMAIN Seen \cup {k} |-> IF x = k THEN b ELSE Seen[x]]
    BY <2>3, <2>6, <1>3, <1>4
  <2>8. KT!KTAdd(k, b)
    BY <2>4, <2>5, <2>7 DEF KT!KTAdd, KT!KTObjects
  <2> QED BY <2>8 DEF KT!KTNext
<1>7. ASSUME NEW k \in Key, Erase(k) PROVE [KT!KTNext]_Seen
  <2>1. PICK b \in Find(k) : key' = [c \in DOMAIN key \ {b} |-> key[c]]
    BY <1>7 DEF Erase
  <2>2. live
    BY <1>7 DEF Erase
  <2>3. b \in DOMAIN key /\ key[b] = k
    BY <2>1, <2>2, <1>1
  <2>4. \A c \in DOMAIN key : key[c] = k => c = b
    BY <2>3 DEF IInv, Interned
  <2>5. Present' = Present \ {k} /\ k \in Present
    BY <2>1, <2>3, <2>4, <1>1, <1>2
  <2>6. \A x \in Present' : Seen'[x] = Seen[x]
    BY <2>1, <1>1, <1>2
  <2>7. Seen' = [x \in DOMAIN Seen \ {k} |-> Seen[x]]
    BY <2>5, <2>6, <1>3, <1>4
  <2>8. KT!KTRemove(k)
    BY <2>5, <2>7, <1>4 DEF KT!KTRemove
  <2> QED BY <2>8 DEF KT!KTNext
<1>8. CASE Free
  <2>1. DOMAIN key' = {}
    BY <1>8, FreeIInv DEF IInv, Free, Gone
  <2>2. Present' = {}
    BY <2>1, <1>2
  <2>3. Seen' = [k \in {} |-> k]
    BY <2>2, <1>3
  <2>4. KT!KTClear
    BY <2>3 DEF KT!KTClear
  <2> QED BY <2>4 DEF KT!KTNext
<1>9. CASE UNCHANGED vars
  <2>1. key' = key
    BY <1>9 DEF vars
  <2>2. Present' = Present
    BY <2>1, <1>1, <1>2
  <2>3. \A x \in Present : Seen'[x] = Seen[x]
    BY <2>1, <1>1, <1>2
  <2>4. Seen' = Seen
    BY <2>2, <2>3, <1>3
  <2> QED BY <2>4
<1> QED BY <1>5, <1>6, <1>7, <1>8, <1>9 DEF Next

\* To its callers the hash table is a partial function from keys to objects that
\* only their own lhash_put, lhash_erase and lhash_free change.
THEOREM LHashImplementsKeyTable == Spec => ImplementsKeyTable
<1>1. Init => KT!KTInit
  BY DEF Init, KT!KTInit, Seen, Present
<1>2. IInv /\ IInv' /\ [Next]_vars => [KT!KTNext]_Seen
  BY StepImplements
<1> QED BY <1>1, <1>2, LHashInductive, PTL DEF Spec, ImplementsKeyTable, KT!KTSpec
=============================================================================
