-------------------------- MODULE SortedMap_proofs --------------------------
(***************************************************************************)
(* The sort of src/src/cnif_sort.c and the maps of src/src/cnif.c, for     *)
(* every set of keys and values and every array of them.                   *)
(*                                                                         *)
(* The sort first (module QuickSort): the partition loops of               *)
(* cnif_inline_quick_sort_aux stay in the range they sort, and no pair of  *)
(* a key and its value is lost, for arrays of every length and every       *)
(* comparison that answers 0 for a term and itself.  Where the comparison  *)
(* is an order, the keys answered ascend and none is missing.              *)
(*                                                                         *)
(* Then the maps: what a map answers, what a call changes in it, what a    *)
(* walk of its iterator visits, and that enif_make_map_from_arrays makes   *)
(* the map that module FlatMap lets it make.  What key_index answers is    *)
(* KeyIndexFinds.  Its search is a recursive function, that is a CHOOSE:   *)
(* that a function satisfies its equation (SearchExists), and what it      *)
(* answers, is shown by taking the least number of places left for which   *)
(* it is not so (LeastOf).  What the shifts of put and remove do to the    *)
(* pairs follows, and the invariant MapsIInv: its part about the sort is   *)
(* OrderIInv.                                                              *)
(***************************************************************************)
EXTENDS SortedMap, WellFoundedInduction, FiniteSetTheorems, TLAPS

Parting == pc \in {"up", "down", "meet"}

\* A term that stops the loop that moves i up, and one that stops j
StopsUp(x) == x \in Index /\ i <= x /\ x <= right /\ ~(cmp[src1[x]][pivot] < 0)
StopsDown(y) == y \in Index /\ left <= y /\ y <= j /\ ~(cmp[src1[y]][pivot] > 0)

Typed ==
    /\ given \in Arrays /\ cmp \in Compares
    /\ pc \in {"start", "call", "up", "down", "meet", "parted", "uremove", "done"}
    /\ src1 \in [Index -> Term] /\ src2 \in [Index -> Value]
    /\ calls \in Seq([left : Nat, right : Nat])
    /\ left \in Nat /\ right \in Nat /\ i \in Nat /\ j \in Int
    /\ pivot \in Term /\ cnt \in Nat

RangeOK ==
    /\ \A k \in 1 .. Len(calls) :
         0 <= calls[k].left /\ calls[k].left < calls[k].right /\ calls[k].right < given.n
    /\ pc \notin {"start", "done"} => 1 < given.n
    /\ pc = "uremove" => i < j /\ i < given.n
    /\ Parting \/ pc = "parted" =>
         left < right /\ right < given.n /\ left <= i /\ j <= right

\* Each loop of the partition has a term ahead that stops it
Stopped ==
    /\ Parting => /\ \E x \in Index : StopsUp(x)
                  /\ \E y \in Index : StopsDown(y)
    /\ pc \in {"down", "meet"} => StopsUp(i)
    /\ pc = "meet" => StopsDown(j)

SortIInv == Typed /\ RangeOK /\ Stopped /\ PairsKept

\* What the assumption says of the call at hand.
LEMMA CallFacts ==
    ASSUME Typed
    PROVE  /\ given.n \in Nat /\ Index = 0 .. given.n - 1
           /\ given.keys \in [Index -> Term] /\ given.values \in [Index -> Value]
           /\ \A x, y \in Term : cmp[x][y] \in {-1, 0, 1}
           /\ \A x \in Term : cmp[x][x] = 0
  <1>1. cmp \in [Term -> [Term -> {-1, 0, 1}]] /\ \A x \in Term : cmp[x][x] = 0
    BY QuickSortAssumption DEF Typed
  <1>2. /\ given.n \in Nat
        /\ given.keys \in [Index -> Term] /\ given.values \in [Index -> Value]
    BY QuickSortAssumption DEF Typed, Index
  <1>3. \A x, y \in Term : cmp[x][y] \in {-1, 0, 1}
    BY <1>1
  <1> QED
    BY <1>1, <1>2, <1>3 DEF Index

\* The type of an element of a sequence.
LEMMA ElementType ==
    ASSUME NEW R, NEW s \in Seq(R), NEW k \in 1 .. Len(s)
    PROVE  s[k] \in R
  OBVIOUS

\* A sequence of one element.
LEMMA OneRange ==
    ASSUME NEW R, NEW c \in R
    PROVE  <<c>> \in Seq(R) /\ Len(<<c>>) = 1 /\ \A k \in 1 .. Len(<<c>>) : <<c>>[k] = c
  OBVIOUS

\* What is behind the first element of a sequence.
LEMMA TailRange ==
    ASSUME NEW R, NEW s \in Seq(R), s # <<>>
    PROVE  /\ Tail(s) \in Seq(R)
           /\ \A k \in 1 .. Len(Tail(s)) : Tail(s)[k] = s[k + 1] /\ k + 1 \in 1 .. Len(s)
  OBVIOUS

\* The elements of two sequences in a row.
LEMMA ConcatRange ==
    ASSUME NEW R, NEW s \in Seq(R), NEW t \in Seq(R), NEW k \in 1 .. Len(s \o t)
    PROVE  \/ k \in 1 .. Len(s) /\ (s \o t)[k] = s[k]
           \/ k - Len(s) \in 1 .. Len(t) /\ (s \o t)[k] = t[k - Len(s)]
  OBVIOUS

\* Swapping the same two places of both arrays moves pairs and loses none.
LEMMA SwapKeepsPairs ==
    ASSUME NEW K, NEW V, NEW k \in [Index -> K], NEW v \in [Index -> V],
           i \in Index, j \in Index
    PROVE  /\ Swap(k) \in [Index -> K] /\ Swap(v) \in [Index -> V]
           /\ Pairs(Swap(k), Swap(v)) = Pairs(k, v)
  <1> DEFINE other(x) == IF x = i THEN j ELSE IF x = j THEN i ELSE x
  <1>1. /\ Swap(k) \in [Index -> K] /\ Swap(v) \in [Index -> V]
        /\ \A x \in Index : /\ Swap(k)[x] = k[other(x)] /\ Swap(v)[x] = v[other(x)]
                            /\ other(x) \in Index /\ other(other(x)) = x
    BY DEF Swap
  <1> HIDE DEF other
  <1>2. ASSUME NEW p \in Pairs(Swap(k), Swap(v)) PROVE p \in Pairs(k, v)
    <2>1. PICK x \in Index : p = <<Swap(k)[x], Swap(v)[x]>>
      BY DEF Pairs
    <2>2. p = <<k[other(x)], v[other(x)]>> /\ other(x) \in Index
      BY <1>1, <2>1
    <2> QED
      BY <2>2 DEF Pairs
  <1>3. ASSUME NEW p \in Pairs(k, v) PROVE p \in Pairs(Swap(k), Swap(v))
    <2>1. PICK x \in Index : p = <<k[x], v[x]>>
      BY DEF Pairs
    <2>2. /\ other(x) \in Index
          /\ p = <<Swap(k)[other(x)], Swap(v)[other(x)]>>
      <3>1. other(x) \in Index /\ other(other(x)) = x
        BY <1>1
      <3>2. /\ Swap(k)[other(x)] = k[other(other(x))]
            /\ Swap(v)[other(x)] = v[other(other(x))]
        BY <1>1, <3>1
      <3> QED
        BY <2>1, <3>1, <3>2
    <2> QED
      BY <2>2 DEF Pairs
  <1> QED
    BY <1>1, <1>2, <1>3

\* The middle of a range is in the range.
LEMMA MiddleInRange ==
    ASSUME NEW n \in Nat, NEW l \in Nat, NEW r \in Nat, l < r, r < n
    PROVE  /\ (l + r) \div 2 \in 0 .. n - 1
           /\ l <= (l + r) \div 2 /\ (l + r) \div 2 <= r
  OBVIOUS

\* The arrays as they are given satisfy the invariant.
LEMMA SortInit == Init => SortIInv
  <1> SUFFICES ASSUME Init PROVE SortIInv
    OBVIOUS
  <1>1. NoPivot \in Term
    BY QuickSortAssumption DEF NoPivot
  <1>2. /\ given \in Arrays /\ given.n \in Nat
        /\ given.keys \in [Index -> Term] /\ given.values \in [Index -> Value]
    BY QuickSortAssumption DEF Init, Index
  <1>3. Typed
    BY <1>1, <1>2 DEF Init, Called, Typed
  <1>4. RangeOK /\ Stopped
    BY DEF Init, Called, RangeOK, Stopped, Parting
  <1> QED
    BY <1>3, <1>4 DEF SortIInv, PairsKept, Init, Called

\* Moving into the first range of the stack keeps a term that stops each loop:
\* the pivot.
LEMMA EnterStep == SortIInv /\ Enter => SortIInv'
  <1> SUFFICES ASSUME SortIInv, Enter PROVE SortIInv'
    OBVIOUS
  <1>1. /\ Typed /\ RangeOK /\ PairsKept
        /\ given.n \in Nat /\ Index = 0 .. given.n - 1
        /\ \A x, y \in Term : cmp[x][y] \in {-1, 0, 1}
        /\ \A x \in Term : cmp[x][x] = 0
    BY CallFacts DEF SortIInv
  <1>2. /\ calls # <<>> /\ calls \in Seq([left : Nat, right : Nat])
        /\ calls' = Tail(calls) /\ pc' = "up"
        /\ left' = Head(calls).left /\ right' = Head(calls).right
        /\ i' = Head(calls).left /\ j' = Head(calls).right
        /\ pivot' = src1[(left' + right') \div 2]
        /\ given' = given /\ cmp' = cmp /\ src1' = src1 /\ src2' = src2 /\ cnt' = cnt
    BY <1>1 DEF Enter, Typed
  <1>7. Len(calls) \in Nat /\ 1 \in 1 .. Len(calls) /\ Head(calls) = calls[1]
    BY <1>2
  <1>8. /\ left' \in Nat /\ right' \in Nat /\ left' < right' /\ right' < given.n
        /\ i' = left' /\ j' = right'
    <2>1. calls[1] \in [left : Nat, right : Nat]
      BY <1>2, <1>7, ElementType
    <2>2. calls[1].left < calls[1].right /\ calls[1].right < given.n
      BY <1>1, <1>7 DEF RangeOK
    <2> QED
      BY <1>2, <1>7, <2>1, <2>2
  <1>3. PICK mid \in Index : /\ left' <= mid /\ mid <= right'
                             /\ mid = (left' + right') \div 2
    <2>1. given.n \in Nat /\ Index = 0 .. given.n - 1
      BY <1>1
    <2> QED
      BY <1>8, <2>1, MiddleInRange
  <1>4. Typed'
    <2>1. calls' \in Seq([left : Nat, right : Nat])
      BY <1>2
    <2>2. pivot' \in Term
      BY <1>1, <1>2, <1>3 DEF Typed
    <2>3. Index' = Index
      BY <1>2 DEF Index
    <2>4. given' \in Arrays /\ cmp' \in Compares /\ cnt' \in Nat
          /\ src1' \in [Index' -> Term] /\ src2' \in [Index' -> Value]
      BY <1>1, <1>2, <2>3 DEF Typed
    <2> QED
      BY <1>2, <1>8, <2>1, <2>2, <2>4 DEF Typed
  <1>5. RangeOK'
    <2>1. \A k \in 1 .. Len(calls') : calls'[k] = calls[k + 1] /\ k + 1 \in 1 .. Len(calls)
      BY <1>2, TailRange
    <2>2. \A k \in 1 .. Len(calls') :
            0 <= calls'[k].left /\ calls'[k].left < calls'[k].right /\ calls'[k].right < given'.n
      <3>1. \A k \in 1 .. Len(calls) :
              0 <= calls[k].left /\ calls[k].left < calls[k].right /\ calls[k].right < given.n
        BY <1>1 DEF RangeOK
      <3>2. given' = given
        BY <1>2
      <3> QED
        BY <2>1, <3>1, <3>2
    <2>3. 1 < given'.n
      BY <1>1, <1>2, <1>8
    <2>4. left' < right' /\ right' < given'.n /\ left' <= i' /\ j' <= right'
      BY <1>2, <1>8
    <2> QED
      BY <1>2, <2>2, <2>3, <2>4 DEF RangeOK, Parting
  <1>6. Stopped'
    <2>1. cmp[src1[mid]][pivot'] = 0
      BY <1>1, <1>2, <1>3 DEF Typed
    <2>2. StopsUp(mid)' /\ StopsDown(mid)'
      BY <1>1, <1>2, <1>3, <1>8, <2>1 DEF StopsUp, StopsDown, Index
    <2>3. mid \in Index'
      BY <1>2, <1>3 DEF Index
    <2> QED
      BY <1>2, <2>2, <2>3 DEF Stopped, Parting
  <1> QED
    BY <1>1, <1>4, <1>5, <1>6 DEF SortIInv, PairsKept, Pairs, Enter, Index

\* i passes only terms below the pivot, and so not the last that stops it.
LEMMA UpStep == SortIInv /\ Up => SortIInv'
  <1> SUFFICES ASSUME SortIInv, Up PROVE SortIInv'
    OBVIOUS
  <1>1. /\ Typed /\ RangeOK /\ Stopped /\ PairsKept
        /\ given.n \in Nat /\ Index = 0 .. given.n - 1
    BY CallFacts DEF SortIInv
  <1>2. PICK x \in Index : StopsUp(x)
    BY <1>1 DEF Up, Stopped, Parting
  <1>3. PICK y \in Index : StopsDown(y)
    BY <1>1 DEF Up, Stopped, Parting
  <1>4. StopsDown(y)' /\ Index' = Index
    BY <1>3 DEF StopsDown, Up, Index
  <1>5. CASE cmp[src1[i]][pivot] < 0
    <2>1. x # i
      BY <1>2, <1>5 DEF StopsUp
    <2>2. StopsUp(x)'
      BY <1>1, <1>2, <1>4, <1>5, <2>1 DEF StopsUp, Up, Typed
    <2>3. Typed' /\ RangeOK' /\ Stopped'
      BY <1>1, <1>4, <1>5, <2>2 DEF Typed, RangeOK, Stopped, Up, Parting
    <2> QED
      BY <1>1, <2>3 DEF SortIInv, PairsKept, Pairs, Up, Index
  <1>6. CASE ~(cmp[src1[i]][pivot] < 0)
    <2>1. StopsUp(i)' /\ StopsUp(x)'
      BY <1>1, <1>2, <1>4, <1>6 DEF StopsUp, Up, Typed, RangeOK, Parting
    <2>2. i' = i
      BY <1>6 DEF Up
    <2>3. Typed' /\ RangeOK' /\ Stopped'
      BY <1>1, <1>4, <1>6, <2>1, <2>2 DEF Typed, RangeOK, Stopped, Up, Parting
    <2> QED
      BY <1>1, <2>3 DEF SortIInv, PairsKept, Pairs, Up, Index
  <1> QED
    BY <1>5, <1>6

\* The same of j, downwards.
LEMMA DownStep == SortIInv /\ Down => SortIInv'
  <1> SUFFICES ASSUME SortIInv, Down PROVE SortIInv'
    OBVIOUS
  <1>1. /\ Typed /\ RangeOK /\ Stopped /\ PairsKept /\ StopsUp(i)
        /\ given.n \in Nat /\ Index = 0 .. given.n - 1
    BY CallFacts DEF SortIInv, Down, Stopped
  <1>2. PICK y \in Index : StopsDown(y)
    BY <1>1 DEF Down, Stopped, Parting
  <1>3. StopsUp(i)' /\ Index' = Index
    BY <1>1 DEF StopsUp, Down, Index
  <1>4. i' \in Index'
    BY <1>1, <1>3 DEF StopsUp, Down
  <1>5. CASE cmp[src1[j]][pivot] > 0
    <2>1. y # j
      BY <1>2, <1>5 DEF StopsDown
    <2>2. StopsDown(y)'
      BY <1>1, <1>2, <1>3, <1>5, <2>1 DEF StopsDown, Down, Typed
    <2>3. Typed' /\ RangeOK' /\ Stopped'
      <3>1. /\ pc = "down" /\ pc' = "down" /\ j' = j - 1
            /\ UNCHANGED <<given, cmp, src1, src2, calls, left, right, i, pivot, cnt>>
        BY <1>5 DEF Down
      <3>2. j' \in Int
        BY <1>1, <3>1 DEF Typed
      <3>3. Typed'
        BY <1>1, <1>3, <3>1, <3>2 DEF Typed
      <3>4. j \in Int /\ left <= i /\ j <= right /\ left < right /\ right < given.n
            /\ right \in Nat
        BY <1>1, <3>1 DEF Typed, RangeOK, Parting
      <3>5. j' <= right'
        BY <3>1, <3>4
      <3>6. RangeOK'
        BY <1>1, <3>1, <3>4, <3>5 DEF RangeOK, Parting
      <3>7. y \in Index'
        BY <1>3
      <3>8. Stopped'
        BY <1>3, <1>4, <2>2, <3>1, <3>7 DEF Stopped, Parting
      <3> QED
        BY <3>3, <3>6, <3>8
    <2> QED
      BY <1>1, <2>3 DEF SortIInv, PairsKept, Pairs, Down, Index
  <1>6. CASE ~(cmp[src1[j]][pivot] > 0)
    <2>1. StopsDown(y)' /\ StopsDown(j)'
      BY <1>1, <1>2, <1>3, <1>6 DEF StopsDown, Down, Typed, RangeOK, Parting
    <2>2. j' = j
      BY <1>6 DEF Down
    <2>3. Typed' /\ RangeOK' /\ Stopped'
      BY <1>1, <1>3, <1>4, <1>6, <2>1, <2>2 DEF Typed, RangeOK, Stopped, Down, Parting
    <2> QED
      BY <1>1, <2>3 DEF SortIInv, PairsKept, Pairs, Down, Index
  <1> QED
    BY <1>5, <1>6

\* A swap puts a term behind i that stops j and one behind j that stops i: the
\* next turn has both in its range.
LEMMA MeetStep == SortIInv /\ Meet => SortIInv'
  <1> SUFFICES ASSUME SortIInv, Meet PROVE SortIInv'
    OBVIOUS
  <1>1. /\ Typed /\ RangeOK /\ Stopped /\ PairsKept /\ StopsUp(i) /\ StopsDown(j)
        /\ given.n \in Nat /\ Index = 0 .. given.n - 1
        /\ left < right /\ right < given.n /\ left <= i /\ j <= right
    BY CallFacts DEF SortIInv, Meet, Stopped, RangeOK, Parting
  <1>2. Index' = Index /\ i \in Index /\ j \in Index /\ i \in Nat /\ j \in Nat /\ i <= right
    BY <1>1 DEF Meet, Index, StopsUp, StopsDown
  <1>3. CASE i <= j
    <2>1. /\ src1' = Swap(src1) /\ src2' = Swap(src2) /\ i' = i + 1 /\ j' = j - 1
          /\ pc' = IF i' <= j' THEN "up" ELSE "parted"
          /\ given' = given /\ cmp' = cmp /\ calls' = calls /\ left' = left
          /\ right' = right /\ pivot' = pivot /\ cnt' = cnt
      BY <1>3 DEF Meet
    <2>2. /\ src1' \in [Index -> Term] /\ src2' \in [Index -> Value]
          /\ Pairs(src1', src2') = Pairs(src1, src2)
      <3>1. src1 \in [Index -> Term] /\ src2 \in [Index -> Value]
        BY <1>1 DEF Typed
      <3>2. /\ Swap(src1) \in [Index -> Term] /\ Swap(src2) \in [Index -> Value]
            /\ Pairs(Swap(src1), Swap(src2)) = Pairs(src1, src2)
        BY <1>2, <3>1, SwapKeepsPairs
      <3> QED
        BY <2>1, <3>2
    <2>3. src1'[i] = src1[j] /\ src1'[j] = src1[i]
      BY <1>1, <1>2, <2>1 DEF Swap, Typed
    <2>4. Typed'
      BY <1>1, <1>2, <2>1, <2>2 DEF Typed
    <2>5. RangeOK'
      <3>1. pc = "meet" /\ 1 < given.n /\ pc' \in {"up", "parted"}
        BY <1>1, <2>1 DEF RangeOK, Meet
      <3>2. left' <= i' /\ j' <= right'
        BY <1>1, <1>2, <2>1 DEF Typed
      <3> QED
        BY <1>1, <2>1, <3>1, <3>2 DEF RangeOK, Parting
    <2>6. PairsKept'
      <3>1. Pairs(src1, src2)' = Pairs(src1, src2)
        BY <1>2, <2>2 DEF Pairs
      <3>2. Pairs(given.keys, given.values)' = Pairs(given.keys, given.values)
        BY <1>2, <2>1 DEF Pairs
      <3> QED
        BY <1>1, <2>1, <3>1, <3>2 DEF PairsKept, Meet
    <2>7. Stopped'
      <3>1. CASE i' <= j'
        <4>1. /\ ~(cmp'[src1'[j]][pivot'] < 0) /\ ~(cmp'[src1'[i]][pivot'] > 0)
          BY <1>1, <2>1, <2>3 DEF StopsUp, StopsDown
        <4>2. \E x \in Index' : /\ i' <= x /\ x <= right' /\ ~(cmp'[src1'[x]][pivot'] < 0)
          BY <1>1, <1>2, <2>1, <3>1, <4>1
        <4>3. \E y \in Index' : /\ left' <= y /\ y <= j' /\ ~(cmp'[src1'[y]][pivot'] > 0)
          BY <1>1, <1>2, <2>1, <3>1, <4>1
        <4> QED
          BY <2>1, <3>1, <4>2, <4>3 DEF Stopped, Parting, StopsUp, StopsDown
      <3>2. CASE ~(i' <= j')
        BY <2>1, <3>2 DEF Stopped, Parting
      <3> QED
        BY <3>1, <3>2
    <2> QED
      BY <2>4, <2>5, <2>6, <2>7 DEF SortIInv
  <1>4. CASE ~(i <= j)
    <2>1. /\ pc' = "parted"
          /\ UNCHANGED <<given, cmp, src1, src2, calls, left, right, i, j, pivot, cnt>>
      BY <1>4 DEF Meet
    <2>2. pc = "meet"
      BY DEF Meet
    <2>3. Typed'
      BY <1>1, <1>2, <2>1 DEF Typed
    <2>4. PairsKept'
      BY <1>1, <1>2, <2>1, <2>2 DEF PairsKept, Pairs
    <2>5. RangeOK' /\ Stopped'
      BY <1>1, <2>1, <2>2 DEF RangeOK, Stopped, Parting
    <2> QED
      BY <2>3, <2>4, <2>5 DEF SortIInv
  <1> QED
    BY <1>3, <1>4

\* Both recursive calls are on ranges inside the one that was parted.
LEMMA RecurseStep == SortIInv /\ Recurse => SortIInv'
  <1> SUFFICES ASSUME SortIInv, Recurse PROVE SortIInv'
    OBVIOUS
  <1> DEFINE lower == IF left < j THEN <<[left |-> left, right |-> j]>> ELSE <<>>
             upper == IF i < right THEN <<[left |-> i, right |-> right]>> ELSE <<>>
             inside(c) == 0 <= c.left /\ c.left < c.right /\ c.right < given.n
  <1>1. /\ Typed /\ RangeOK /\ PairsKept /\ given.n \in Nat
        /\ left < right /\ right < given.n /\ left <= i /\ j <= right /\ 1 < given.n
    BY CallFacts DEF SortIInv, Recurse, RangeOK, Parting
  <1>2. /\ calls' = lower \o upper \o calls
        /\ pc' = "call"
        /\ UNCHANGED <<given, cmp, src1, src2, left, right, i, j, pivot, cnt>>
    BY DEF Recurse
  <1>3. /\ lower \in Seq([left : Nat, right : Nat])
        /\ \A k \in 1 .. Len(lower) : inside(lower[k])
    <2>1. CASE left < j
      <3>1. /\ lower = <<[left |-> left, right |-> j]>>
            /\ [left |-> left, right |-> j] \in [left : Nat, right : Nat] /\ inside([left |-> left, right |-> j])
        BY <1>1, <2>1 DEF Typed
      <3> HIDE DEF inside, lower
      <3> QED
        BY <3>1, OneRange
    <2>2. CASE ~(left < j)
      BY <2>2
    <2> QED
      BY <2>1, <2>2
  <1>4. /\ upper \in Seq([left : Nat, right : Nat])
        /\ \A k \in 1 .. Len(upper) : inside(upper[k])
    <2>1. CASE i < right
      <3>1. /\ upper = <<[left |-> i, right |-> right]>>
            /\ [left |-> i, right |-> right] \in [left : Nat, right : Nat] /\ inside([left |-> i, right |-> right])
        BY <1>1, <2>1 DEF Typed
      <3> HIDE DEF inside, upper
      <3> QED
        BY <3>1, OneRange
    <2>2. CASE ~(i < right)
      BY <2>2
    <2> QED
      BY <2>1, <2>2
  <1>5. /\ calls \in Seq([left : Nat, right : Nat])
        /\ \A k \in 1 .. Len(calls) : inside(calls[k])
    BY <1>1 DEF Typed, RangeOK
  <1> HIDE DEF lower, upper, inside
  <1>6. /\ lower \o upper \in Seq([left : Nat, right : Nat])
        /\ \A k \in 1 .. Len(lower \o upper) : inside((lower \o upper)[k])
    BY <1>3, <1>4, ConcatRange
  <1>7. /\ calls' \in Seq([left : Nat, right : Nat])
        /\ \A k \in 1 .. Len(calls') : inside(calls'[k])
    <2>1. calls' = (lower \o upper) \o calls
      BY <1>2
    <2> QED
      BY <2>1, <1>5, <1>6, ConcatRange
  <1>8. Typed' /\ PairsKept'
    BY <1>1, <1>2, <1>7 DEF Typed, PairsKept, Pairs, Index, Recurse
  <1>9. RangeOK' /\ Stopped'
    BY <1>1, <1>2, <1>7 DEF inside, RangeOK, Stopped, Parting
  <1> QED
    BY <1>8, <1>9 DEF SortIInv

\* uremove_aux writes only places behind the one it reads, and moves pairs whole.
LEMMA UremoveStep == SortIInv /\ Uremove => SortIInv'
  <1> SUFFICES ASSUME SortIInv, Uremove PROVE SortIInv'
    OBVIOUS
  <1>1. /\ Typed /\ RangeOK /\ PairsKept
        /\ given.n \in Nat /\ Index = 0 .. given.n - 1
        /\ i < j /\ i < given.n /\ j <= given.n - 1 /\ i \in Nat /\ j \in Int
    BY CallFacts DEF SortIInv, Uremove, RangeOK, Typed
  <1>2. i + 1 \in Index /\ j \in Index
    BY <1>1
  <1>3. Index' = Index /\ j' = j + 1 /\ pc' = "uremove" /\ pc = "uremove"
        /\ UNCHANGED <<given, cmp, calls, left, right, pivot, cnt>>
    BY DEF Index, Uremove
  <1>4. CASE cmp[src1[i]][src1[j]] < 0
    <2>1. /\ i' = i + 1
          /\ src1' = [src1 EXCEPT ![i + 1] = src1[j]]
          /\ src2' = [src2 EXCEPT ![i + 1] = src2[j]]
      BY <1>4 DEF Uremove
    <2>2. src1' \in [Index -> Term] /\ src2' \in [Index -> Value]
      BY <1>1, <1>2, <2>1 DEF Typed
    <2>3. Pairs(src1', src2') \subseteq Pairs(src1, src2)
      <3> SUFFICES ASSUME NEW x \in Index
                   PROVE  <<src1'[x], src2'[x]>> \in Pairs(src1, src2)
        BY DEF Pairs
      <3>1. CASE x = i + 1
        BY <1>1, <1>2, <2>1, <3>1 DEF Pairs, Typed
      <3>2. CASE x # i + 1
        BY <1>1, <2>1, <3>2 DEF Pairs, Typed
      <3> QED
        BY <3>1, <3>2
    <2>4. Typed' /\ RangeOK' /\ Stopped'
      BY <1>1, <1>2, <1>3, <2>1, <2>2 DEF Typed, RangeOK, Stopped, Parting
    <2>5. PairsKept'
      <3>1. Pairs(src1, src2)' \subseteq Pairs(src1, src2)
        BY <1>3, <2>3 DEF Pairs
      <3>2. Pairs(given.keys, given.values)' = Pairs(given.keys, given.values)
        BY <1>3 DEF Pairs
      <3> QED
        BY <1>1, <1>3, <3>1, <3>2 DEF PairsKept
    <2> QED
      BY <2>4, <2>5 DEF SortIInv
  <1>5. CASE ~(cmp[src1[i]][src1[j]] < 0)
    <2>1. UNCHANGED <<i, src1, src2>>
      BY <1>5 DEF Uremove
    <2>2. Typed' /\ RangeOK' /\ Stopped'
      BY <1>1, <1>3, <2>1 DEF Typed, RangeOK, Stopped, Parting
    <2>3. PairsKept'
      BY <1>1, <1>3, <2>1 DEF PairsKept, Pairs
    <2> QED
      BY <2>2, <2>3 DEF SortIInv
  <1> QED
    BY <1>4, <1>5

\* SortIInv is inductive: one step per action.
LEMMA SortStep == SortIInv /\ [Next]_vars => SortIInv'
  <1> SUFFICES ASSUME SortIInv, [Next]_vars PROVE SortIInv'
    OBVIOUS
  <1> USE DEF SortIInv
  <1>1. /\ Typed /\ RangeOK /\ Stopped /\ PairsKept
        /\ given.n \in Nat /\ Index = 0 .. given.n - 1
    BY CallFacts
  <1>2. CASE Sorted
    <2>1. /\ pc = "start" /\ pc' = "done"
          /\ UNCHANGED <<given, cmp, src1, src2, calls, left, right, i, j, pivot, cnt>>
      BY <1>2 DEF Sorted
    <2>2. Typed' /\ RangeOK' /\ Stopped'
      BY <1>1, <2>1 DEF Typed, RangeOK, Stopped, Parting, Index
    <2>3. PairsKept'
      BY <1>1, <2>1 DEF PairsKept, Pairs, Index
    <2> QED
      BY <2>2, <2>3
  <1>3. CASE Unsorted
    <2>1. 1 < given.n
      BY <1>1, <1>3 DEF Unsorted, IsUSorted
    <2>2. /\ calls' \in Seq([left : Nat, right : Nat])
          /\ Len(calls') = 1 /\ calls'[1].left = 0 /\ calls'[1].right = given.n - 1
      BY <1>1, <1>3, <2>1 DEF Unsorted
    <2>5. Index' = Index
      BY <1>3 DEF Unsorted, Index
    <2>6. Typed'
      BY <1>1, <1>3, <2>2, <2>5 DEF Unsorted, Typed
    <2>3. Typed' /\ PairsKept'
      BY <1>1, <1>3, <2>5, <2>6 DEF Unsorted, PairsKept, Pairs
    <2>4. RangeOK' /\ Stopped'
      BY <1>1, <1>3, <2>1, <2>2 DEF Unsorted, RangeOK, Stopped, Parting
    <2> QED
      BY <2>3, <2>4
  <1>4. CASE StartUremove
    <2>1. 1 < given.n
      BY <1>1, <1>4 DEF StartUremove, RangeOK
    <2>2. /\ pc = "call" /\ pc' = "uremove" /\ i' = 0 /\ j' = 1
          /\ UNCHANGED <<given, cmp, src1, src2, calls, left, right, pivot, cnt>>
      BY <1>4 DEF StartUremove
    <2>3. Typed' /\ RangeOK' /\ Stopped'
      BY <1>1, <2>1, <2>2 DEF Typed, RangeOK, Stopped, Parting, Index
    <2>4. PairsKept'
      BY <1>1, <2>2 DEF PairsKept, Pairs, Index
    <2> QED
      BY <2>3, <2>4
  <1>5. CASE Return
    <2>1. Index' = Index
      BY <1>5 DEF Return, Index
    <2>2. Typed'
      BY <1>1, <1>5, <2>1 DEF Return, Typed
    <2>3. RangeOK' /\ Stopped'
      BY <1>1, <1>5 DEF Return, RangeOK, Stopped, Parting
    <2>4. PairsKept'
      BY <1>1, <1>5, <2>1 DEF Return, PairsKept, Pairs
    <2> QED
      BY <2>2, <2>3, <2>4
  <1>6. CASE UNCHANGED vars
    <2>1. Typed' /\ RangeOK'
      BY <1>1, <1>6 DEF vars, Typed, RangeOK, Parting, Index
    <2>2. Stopped' /\ PairsKept'
      BY <1>1, <1>6 DEF vars, Stopped, PairsKept, Pairs, Parting, Index, StopsUp, StopsDown
    <2> QED
      BY <2>1, <2>2
  <1> QED
    BY <1>2, <1>3, <1>4, <1>5, <1>6,
       EnterStep, UpStep, DownStep, MeetStep, RecurseStep, UremoveStep DEF Next

\* The invariant of the sort holds throughout every call of it.
THEOREM SortInductive == Spec => []SortIInv
  <1> QED
    BY SortInit, SortStep, PTL DEF Spec

\* The indices of the partition loops of cnif_inline_quick_sort_aux never leave
\* the range, though the loops do not check them: for every comparison that
\* answers 0 for a term and itself, not only for an order.
THEOREM SortStaysInRange == Spec => []StaysInRange
  <1>1. SortIInv => StaysInRange
    <2> SUFFICES ASSUME SortIInv PROVE StaysInRange
      OBVIOUS
    <2>1. /\ Typed /\ RangeOK /\ Stopped /\ given.n \in Nat /\ Index = 0 .. given.n - 1
      BY CallFacts DEF SortIInv
    <2>2. pc = "up" => left <= i /\ i <= right
      BY <2>1 DEF RangeOK, Stopped, Parting, StopsUp, Typed
    <2>3. pc = "down" => left <= j /\ j <= right
      BY <2>1 DEF RangeOK, Stopped, Parting, StopsDown, Typed
    <2>4. pc = "meet" /\ i <= j => left <= i /\ j <= right
      BY <2>1 DEF RangeOK, Parting
    <2>5. i \in Nat
      BY <2>1 DEF Typed
    <2>6. pc = "uremove" => 0 <= i /\ i < j /\ i < given.n
      BY <2>1, <2>5 DEF RangeOK
    <2>7. \A k \in 1 .. Len(calls) :
            0 <= calls[k].left /\ calls[k].left < calls[k].right /\ calls[k].right < given.n
      BY <2>1 DEF RangeOK
    <2> QED
      BY <2>2, <2>3, <2>4, <2>6, <2>7 DEF StaysInRange
  <1> QED
    BY <1>1, SortInductive, PTL

\* Sorting loses no pair of a key and its value and makes none, whatever the
\* comparison answers.
THEOREM SortKeepsPairs == Spec => []PairsKept
  <1>1. SortIInv => PairsKept
    BY DEF SortIInv
  <1> QED
    BY <1>1, SortInductive, PTL

-----------------------------------------------------------------------------
(***************************************************************************)
(* What the sort answers when the comparison orders the terms.             *)
(***************************************************************************)
\* All that is asked of an order: terms may compare 0 without being equal
IsOrder ==
    /\ \A x, y \in Term : cmp[x][y] < 0 <=> cmp[y][x] > 0
    /\ \A x, y, z \in Term : cmp[x][y] <= 0 /\ cmp[y][z] <= 0 => cmp[x][z] <= 0

Busy == Parting \/ pc = "parted"

\* x and y are in a range that is still to be sorted, or being parted
Together(x, y) ==
    \/ \E k \in 1 .. Len(calls) : calls[k].left <= x /\ y <= calls[k].right
    \/ Busy /\ left <= x /\ y <= right

Apart(c, d) == c.right < d.left \/ d.right < c.left

\* No term is in two of the ranges to be sorted
RangesApart ==
    /\ \A k, m \in 1 .. Len(calls) : k # m => Apart(calls[k], calls[m])
    /\ Busy => \A k \in 1 .. Len(calls) : calls[k].right < left \/ right < calls[k].left

\* Terms that will not be sorted again together are in order
OrderedApart ==
    pc = "call" \/ Busy =>
      \A x, y \in Index : x < y => Together(x, y) \/ cmp[src1[x]][src1[y]] <= 0

\* What the partition has passed is on its side of the pivot
Parted ==
    /\ Busy => /\ \A x \in Index : left <= x /\ x < i => cmp[src1[x]][pivot] <= 0
               /\ \A x \in Index : j < x /\ x <= right => cmp[pivot][src1[x]] <= 0
    /\ pc = "parted" => j < i

\* uremove_aux: the terms kept so far are ascending, the terms still to be read
\* are in order behind them, and every key given compares 0 with one of either
Removing ==
    pc = "uremove" =>
      /\ \A x, y \in 0 .. i : x < y => cmp[src1[x]][src1[y]] < 0
      /\ \A x, y \in Index : x < y /\ j <= x => cmp[src1[x]][src1[y]] <= 0
      /\ \A x \in 0 .. i, y \in Index : j <= y => cmp[src1[x]][src1[y]] <= 0
      /\ \A x \in Index : \E y \in Index :
           (y <= i \/ j <= y) /\ cmp[given.keys[x]][src1[y]] = 0

\* What the call answers: the keys ascend, each is one that was given, with a value
\* given for it, and every key given compares 0 with one of them
Answered ==
    pc = "done" =>
      /\ cnt \in 0 .. given.n
      /\ \A x, y \in 0 .. cnt - 1 : x < y => cmp[src1[x]][src1[y]] < 0
      /\ \A x \in Index : \E y \in 0 .. cnt - 1 : cmp[given.keys[x]][src1[y]] = 0
      /\ \A x \in 0 .. cnt - 1 : <<src1[x], src2[x]>> \in Pairs(given.keys, given.values)

Waiting ==
    /\ pc # "done" => cnt = given.n
    /\ pc = "start" => src1 = given.keys /\ src2 = given.values

OrderParts == Waiting /\ RangesApart /\ OrderedApart /\ Parted /\ Removing /\ Answered

OrderIInv == SortIInv /\ (IsOrder => OrderParts)

\* A set of natural numbers has a least element.
LEMMA LeastOf ==
    ASSUME NEW T \in SUBSET Nat, T # {}
    PROVE  \E x \in T : \A y \in T : ~(y < x)
  <1>1. IsWellFoundedOn(OpToRel(<, Nat), Nat)
    BY NatLessThanWellFounded
  <1>2. PICK x \in T : \A y \in T : ~(<<y, x>> \in OpToRel(<, Nat))
    BY <1>1, WFMin
  <1> QED
    BY <1>2 DEF OpToRel

\* What follows from an order: strict and weak comparisons chain, and terms compare
\* one way or the other.
OrderLaws ==
    /\ \A x, y \in Term : cmp[x][y] < 0 => cmp[x][y] <= 0
    /\ \A x, y \in Term : ~(cmp[x][y] < 0) => cmp[y][x] <= 0
    /\ \A x, y \in Term : ~(cmp[x][y] > 0) => cmp[x][y] <= 0
    /\ \A x, y, z \in Term : cmp[x][y] <= 0 /\ cmp[y][z] <= 0 => cmp[x][z] <= 0
    /\ \A x, y, z \in Term : cmp[x][y] <= 0 /\ cmp[y][z] < 0 => cmp[x][z] < 0
    /\ \A x, y, z \in Term : cmp[x][y] < 0 /\ cmp[y][z] <= 0 => cmp[x][z] < 0
    /\ \A x, y \in Term : cmp[x][y] = 0 <=> cmp[x][y] <= 0 /\ cmp[y][x] <= 0
    /\ \A x \in Term : cmp[x][x] = 0

LEMMA OrderFollows == Typed /\ IsOrder => OrderLaws
  <1> SUFFICES ASSUME Typed, IsOrder PROVE OrderLaws
    OBVIOUS
  <1>1. /\ \A x, y \in Term : cmp[x][y] \in {-1, 0, 1}
        /\ \A x \in Term : cmp[x][x] = 0
    BY CallFacts
  <1>2. /\ \A x, y \in Term : cmp[x][y] < 0 <=> cmp[y][x] > 0
        /\ \A x, y, z \in Term : cmp[x][y] <= 0 /\ cmp[y][z] <= 0 => cmp[x][z] <= 0
    BY DEF IsOrder
  <1>3. \A x, y \in Term : ~(cmp[x][y] < 0) <=> cmp[y][x] <= 0
    BY <1>1, <1>2
  <1>4. /\ \A x, y \in Term : cmp[x][y] < 0 => cmp[x][y] <= 0
        /\ \A x, y \in Term : ~(cmp[x][y] > 0) => cmp[x][y] <= 0
    BY <1>1
  <1>5. ASSUME NEW x \in Term, NEW y \in Term, NEW z \in Term,
               cmp[x][y] <= 0, cmp[y][z] < 0
        PROVE  cmp[x][z] < 0
    <2>1. ~(cmp[z][y] <= 0)
      BY <1>3, <1>5
    <2>2. ~(cmp[z][x] <= 0)
      BY <1>2, <1>5, <2>1
    <2> QED
      BY <1>3, <2>2
  <1>6. ASSUME NEW x \in Term, NEW y \in Term, NEW z \in Term,
               cmp[x][y] < 0, cmp[y][z] <= 0
        PROVE  cmp[x][z] < 0
    <2>1. ~(cmp[y][x] <= 0)
      BY <1>3, <1>6
    <2>2. ~(cmp[z][x] <= 0)
      BY <1>2, <1>6, <2>1
    <2> QED
      BY <1>3, <2>2
  <1>7. \A x, y \in Term : cmp[x][y] = 0 <=> cmp[x][y] <= 0 /\ cmp[y][x] <= 0
    BY <1>1, <1>2
  <1> QED
    BY <1>1, <1>2, <1>3, <1>4, <1>5, <1>6, <1>7 DEF OrderLaws

\* The elements of two sequences in a row are apart when those of each are, and
\* those of one from those of the other.
LEMMA ConcatApart ==
    ASSUME NEW R, NEW s \in Seq(R), NEW t \in Seq(R),
           \A k, m \in 1 .. Len(s) : k # m => Apart(s[k], s[m]),
           \A k, m \in 1 .. Len(t) : k # m => Apart(t[k], t[m]),
           \A k \in 1 .. Len(s), m \in 1 .. Len(t) : Apart(s[k], t[m])
    PROVE  \A k, m \in 1 .. Len(s \o t) : k # m => Apart((s \o t)[k], (s \o t)[m])
  <1>1. \A c, d : Apart(c, d) <=> Apart(d, c)
    BY DEF Apart
  <1> SUFFICES ASSUME NEW k \in 1 .. Len(s \o t), NEW m \in 1 .. Len(s \o t), k # m
               PROVE  Apart((s \o t)[k], (s \o t)[m])
    OBVIOUS
  <1>2. \/ k \in 1 .. Len(s) /\ (s \o t)[k] = s[k]
        \/ k - Len(s) \in 1 .. Len(t) /\ (s \o t)[k] = t[k - Len(s)]
    BY ConcatRange
  <1>3. \/ m \in 1 .. Len(s) /\ (s \o t)[m] = s[m]
        \/ m - Len(s) \in 1 .. Len(t) /\ (s \o t)[m] = t[m - Len(s)]
    BY ConcatRange
  <1>4. k - Len(s) # m - Len(s)
    OBVIOUS
  <1> QED
    BY <1>1, <1>2, <1>3, <1>4

\* Every element of s is one of t
HasAll(t, s) == \A k \in 1 .. Len(s) : \E m \in 1 .. Len(t) : t[m] = s[k]

\* An element of either of two sequences is in both in a row.
LEMMA ConcatHasFirst ==
    ASSUME NEW R, NEW s \in Seq(R), NEW t \in Seq(R)
    PROVE  HasAll(s \o t, s)
  <1>1. ASSUME NEW k \in 1 .. Len(s)
        PROVE  k \in 1 .. Len(s \o t) /\ (s \o t)[k] = s[k]
    OBVIOUS
  <1> QED
    BY <1>1 DEF HasAll

LEMMA ConcatHasSecond ==
    ASSUME NEW R, NEW s \in Seq(R), NEW t \in Seq(R)
    PROVE  HasAll(s \o t, t)
  <1>1. ASSUME NEW k \in 1 .. Len(t)
        PROVE  Len(s) + k \in 1 .. Len(s \o t) /\ (s \o t)[Len(s) + k] = t[k]
    OBVIOUS
  <1> QED
    BY <1>1 DEF HasAll

\* A part of a range is apart from what is outside the range.
LEMMA PartApart ==
    ASSUME NEW c, NEW d, NEW l \in Nat, NEW r \in Nat,
           c.left \in Nat, c.right \in Nat, d.left \in Nat, d.right \in Nat,
           l <= c.left, c.right <= r, d.right < l \/ r < d.left
    PROVE  Apart(c, d)
  <1>1. PICK cl \in Nat, cr \in Nat, dl \in Nat, dr \in Nat :
          cl = c.left /\ cr = c.right /\ dl = d.left /\ dr = d.right
    OBVIOUS
  <1>2. l <= cl /\ cr <= r /\ (dr < l \/ r < dl)
    BY <1>1
  <1>3. cr < dl \/ dr < cl
    BY <1>2
  <1> QED
    BY <1>1, <1>3 DEF Apart

\* A part of a range, if it has two terms or more.
LEMMA PartRange ==
    ASSUME NEW l \in Nat, NEW r \in Int, NEW s,
           s = IF l < r THEN <<[left |-> l, right |-> r]>> ELSE <<>>
    PROVE  /\ s \in Seq([left : Nat, right : Nat]) /\ Len(s) \in {0, 1}
           /\ \A k \in 1 .. Len(s) : s[k].left = l /\ s[k].right = r
           /\ l < r => Len(s) = 1 /\ s[1].left = l /\ s[1].right = r
  <1>1. CASE l < r
    <2>1. PICK c : c = [left |-> l, right |-> r]
      OBVIOUS
    <2>2. s = <<c>> /\ c \in [left : Nat, right : Nat] /\ c.left = l /\ c.right = r
      BY <1>1, <2>1
    <2>3. <<c>> \in Seq([left : Nat, right : Nat]) /\ Len(<<c>>) = 1 /\ <<c>>[1] = c
      BY <2>2
    <2>4. s \in Seq([left : Nat, right : Nat]) /\ Len(s) = 1 /\ s[1] = c
      BY <2>2, <2>3
    <2>5. c.left = l /\ c.right = r
      BY <2>2
    <2> QED
      BY <2>4, <2>5
  <1>2. CASE ~(l < r)
    BY <1>2
  <1> QED
    BY <1>1, <1>2

\* What every step of the sort leaves alone.
LEMMA SortFrame ==
    ASSUME SortIInv, Next
    PROVE  /\ given' = given /\ cmp' = cmp /\ Index' = Index
           /\ IsOrder' = IsOrder /\ OrderLaws' = OrderLaws
  <1>1. given' = given /\ cmp' = cmp
    BY DEF Next, Sorted, Unsorted, Enter, Up, Down, Meet, Recurse, StartUremove, Uremove, Return
  <1> QED
    BY <1>1 DEF Index, IsOrder, OrderLaws

\* Arrays that ascend from each place to the next ascend.
LEMMA Ascends ==
    ASSUME NEW n \in Nat, NEW arr \in [0 .. n - 1 -> Term], OrderLaws,
           \A k \in 0 .. n - 2 : cmp[arr[k]][arr[k + 1]] < 0
    PROVE  \A x, y \in 0 .. n - 1 : x < y => cmp[arr[x]][arr[y]] < 0
  <1> SUFFICES ASSUME NEW x \in 0 .. n - 1
               PROVE  \A y \in 0 .. n - 1 : x < y => cmp[arr[x]][arr[y]] < 0
    OBVIOUS
  <1> DEFINE bad == {y \in 0 .. n - 1 : x < y /\ ~(cmp[arr[x]][arr[y]] < 0)}
  <1> SUFFICES ASSUME bad # {} PROVE FALSE
    OBVIOUS
  <1>1. PICK y \in bad : \A z \in bad : ~(z < y)
    <2>1. bad \in SUBSET Nat
      OBVIOUS
    <2> HIDE DEF bad
    <2> QED
      BY <2>1, LeastOf
  <1>2. y - 1 \in 0 .. n - 2 /\ (y - 1) + 1 = y /\ x <= y - 1 /\ y \in 0 .. n - 1 /\ y - 1 \in 0 .. n - 1
    BY <1>1
  <1>3. y - 1 \notin bad
    BY <1>1, <1>2
  <1>4. cmp[arr[y - 1]][arr[y]] < 0
    BY <1>2
  <1>5. x # y - 1 => cmp[arr[x]][arr[y - 1]] <= 0
    BY <1>2, <1>3 DEF OrderLaws
  <1>6. arr[x] \in Term /\ arr[y] \in Term /\ arr[y - 1] \in Term
    BY <1>2
  <1>7. cmp[arr[x]][arr[y]] < 0
    BY <1>4, <1>5, <1>6 DEF OrderLaws
  <1> QED
    BY <1>1, <1>7

\* Entering a range: it leaves the stack and is the one being parted.
LEMMA EnterOrder ==
    ASSUME SortIInv, IsOrder, OrderParts, Enter
    PROVE  OrderParts'
  <1>1. /\ Typed /\ RangeOK /\ Waiting /\ RangesApart /\ OrderedApart
        /\ Typed' /\ given' = given /\ cmp' = cmp /\ Index' = Index
        /\ given.n \in Nat /\ Index = 0 .. given.n - 1
    <2>1. SortIInv' /\ Next
      BY EnterStep DEF Next
    <2> QED
      BY <2>1, SortFrame, CallFacts DEF SortIInv, OrderParts
  <1>2. /\ pc = "call" /\ calls # <<>> /\ calls \in Seq([left : Nat, right : Nat])
        /\ calls' = Tail(calls) /\ pc' = "up"
        /\ left' = Head(calls).left /\ right' = Head(calls).right
        /\ i' = left' /\ j' = right' /\ src1' = src1 /\ cnt' = cnt
    BY <1>1 DEF Enter, Typed
  <1>3. /\ \A k \in 1 .. Len(calls') : calls'[k] = calls[k + 1] /\ k + 1 \in 1 .. Len(calls)
        /\ Len(calls) \in Nat /\ 1 \in 1 .. Len(calls) /\ Head(calls) = calls[1]
        /\ \A k \in 2 .. Len(calls) : k - 1 \in 1 .. Len(calls') /\ calls'[k - 1] = calls[k]
    BY <1>2
  <1>4. RangesApart'
    <2>1. \A k, m \in 1 .. Len(calls) : k # m => Apart(calls[k], calls[m])
      BY <1>1 DEF RangesApart
    <2>2. \A k, m \in 1 .. Len(calls') : k # m => Apart(calls'[k], calls'[m])
      <3> SUFFICES ASSUME NEW k \in 1 .. Len(calls'), NEW m \in 1 .. Len(calls'), k # m
                   PROVE  Apart(calls'[k], calls'[m])
        OBVIOUS
      <3>1. k + 1 # m + 1
        OBVIOUS
      <3> QED
        BY <1>3, <2>1, <3>1
    <2>3. \A k \in 1 .. Len(calls') : calls'[k].right < left' \/ right' < calls'[k].left
      <3> SUFFICES ASSUME NEW k \in 1 .. Len(calls')
                   PROVE  calls'[k].right < left' \/ right' < calls'[k].left
        OBVIOUS
      <3>1. k + 1 # 1
        OBVIOUS
      <3>2. Apart(calls[k + 1], calls[1])
        BY <1>3, <2>1, <3>1
      <3> QED
        BY <1>2, <1>3, <3>2 DEF Apart
    <2> QED
      BY <2>2, <2>3 DEF RangesApart, Apart
  <1>5. OrderedApart'
    <2> SUFFICES ASSUME NEW x \in Index, NEW y \in Index, x < y
                 PROVE  Together(x, y)' \/ cmp[src1[x]][src1[y]] <= 0
      BY <1>1, <1>2 DEF OrderedApart
    <2>1. CASE Together(x, y)
      <3>1. PICK k \in 1 .. Len(calls) : calls[k].left <= x /\ y <= calls[k].right
        BY <1>2, <2>1 DEF Together, Busy, Parting
      <3>2. CASE k = 1
        BY <1>2, <1>3, <3>1, <3>2 DEF Together, Busy, Parting
      <3>3. CASE k # 1
        <4>1. k - 1 \in 1 .. Len(calls') /\ calls'[k - 1] = calls[k]
          BY <1>3, <3>3
        <4> QED
          BY <3>1, <4>1 DEF Together
      <3> QED
        BY <3>2, <3>3
    <2>2. CASE ~Together(x, y)
      BY <1>1, <1>2, <2>2 DEF OrderedApart
    <2> QED
      BY <2>1, <2>2
  <1>6. Waiting' /\ Parted' /\ Removing' /\ Answered'
    <2>1. left' \in Nat /\ right' \in Nat
      BY <1>1 DEF Typed
    <2>2. \A x \in Index : ~(left' <= x /\ x < i') /\ ~(j' < x /\ x <= right')
      BY <1>1, <1>2, <2>1
    <2> QED
      BY <1>1, <1>2, <2>2 DEF Waiting, Parted, Removing, Answered
  <1> QED
    BY <1>4, <1>5, <1>6 DEF OrderParts

\* i passes a term below the pivot.
LEMMA UpOrder ==
    ASSUME SortIInv, IsOrder, OrderParts, Up
    PROVE  OrderParts'
  <1>1. /\ Typed /\ Waiting /\ RangesApart /\ OrderedApart /\ Parted /\ OrderLaws
        /\ given' = given /\ cmp' = cmp /\ Index' = Index
        /\ given.n \in Nat /\ Index = 0 .. given.n - 1
    BY SortFrame, CallFacts, OrderFollows DEF SortIInv, OrderParts, Next
  <1>2. /\ pc = "up" /\ pc' \in {"up", "down"} /\ i \in Nat
        /\ UNCHANGED <<src1, src2, calls, left, right, j, pivot, cnt>>
        /\ (i' = i \/ (i' = i + 1 /\ cmp[src1[i]][pivot] < 0))
    BY <1>1 DEF Up, Typed
  <1>3. RangesApart' /\ OrderedApart'
    BY <1>1, <1>2 DEF RangesApart, OrderedApart, Together, Busy, Parting, Apart
  <1>4. Parted'
    <2>1. \A x \in Index : left <= x /\ x < i' => cmp[src1[x]][pivot] <= 0
      <3> SUFFICES ASSUME NEW x \in Index, left <= x, x < i' PROVE cmp[src1[x]][pivot] <= 0
        OBVIOUS
      <3>1. CASE x < i
        BY <1>1, <1>2, <3>1 DEF Parted, Busy, Parting
      <3>2. CASE ~(x < i)
        <4>1. x = i /\ cmp[src1[x]][pivot] < 0
          BY <1>1, <1>2, <3>2
        <4>2. src1[x] \in Term /\ pivot \in Term
          BY <1>1 DEF Typed
        <4> QED
          BY <1>1, <4>1, <4>2 DEF OrderLaws
      <3> QED
        BY <3>1, <3>2
    <2>2. \A x \in Index : j < x /\ x <= right => cmp[pivot][src1[x]] <= 0
      BY <1>1, <1>2 DEF Parted, Busy, Parting
    <2> QED
      BY <1>1, <1>2, <2>1, <2>2 DEF Parted
  <1>5. Waiting' /\ Removing' /\ Answered'
    BY <1>1, <1>2 DEF Waiting, Removing, Answered
  <1> QED
    BY <1>3, <1>4, <1>5 DEF OrderParts

\* j passes a term above the pivot.
LEMMA DownOrder ==
    ASSUME SortIInv, IsOrder, OrderParts, Down
    PROVE  OrderParts'
  <1>1. /\ Typed /\ Waiting /\ RangesApart /\ OrderedApart /\ Parted /\ OrderLaws
        /\ given' = given /\ cmp' = cmp /\ Index' = Index
        /\ given.n \in Nat /\ Index = 0 .. given.n - 1
        /\ \A x, y \in Term : cmp[x][y] < 0 <=> cmp[y][x] > 0
    BY SortFrame, CallFacts, OrderFollows DEF SortIInv, OrderParts, Next, IsOrder
  <1>2. /\ pc = "down" /\ pc' \in {"down", "meet"} /\ j \in Int
        /\ UNCHANGED <<src1, src2, calls, left, right, i, pivot, cnt>>
        /\ (j' = j \/ (j' = j - 1 /\ cmp[src1[j]][pivot] > 0))
    BY <1>1 DEF Down, Typed
  <1>3. RangesApart' /\ OrderedApart'
    BY <1>1, <1>2 DEF RangesApart, OrderedApart, Together, Busy, Parting, Apart
  <1>4. Parted'
    <2>1. \A x \in Index : j' < x /\ x <= right => cmp[pivot][src1[x]] <= 0
      <3> SUFFICES ASSUME NEW x \in Index, j' < x, x <= right PROVE cmp[pivot][src1[x]] <= 0
        OBVIOUS
      <3>1. CASE j < x
        BY <1>1, <1>2, <3>1 DEF Parted, Busy, Parting
      <3>2. CASE ~(j < x)
        <4>1. x = j /\ cmp[src1[x]][pivot] > 0
          BY <1>1, <1>2, <3>2
        <4>2. src1[x] \in Term /\ pivot \in Term
          BY <1>1 DEF Typed
        <4>3. cmp[pivot][src1[x]] < 0
          BY <1>1, <4>1, <4>2
        <4> QED
          BY <1>1, <4>2, <4>3 DEF OrderLaws
      <3> QED
        BY <3>1, <3>2
    <2>2. \A x \in Index : left <= x /\ x < i => cmp[src1[x]][pivot] <= 0
      BY <1>1, <1>2 DEF Parted, Busy, Parting
    <2> QED
      BY <1>1, <1>2, <2>1, <2>2 DEF Parted
  <1>5. Waiting' /\ Removing' /\ Answered'
    BY <1>1, <1>2 DEF Waiting, Removing, Answered
  <1> QED
    BY <1>3, <1>4, <1>5 DEF OrderParts

\* Two terms of the range being parted change places: terms outside it were in order
\* with every term of it, and those now at i and at j are on their sides.
LEMMA MeetOrder ==
    ASSUME SortIInv, IsOrder, OrderParts, Meet
    PROVE  OrderParts'
  <1>1. /\ Typed /\ Stopped /\ RangeOK /\ Waiting /\ RangesApart /\ OrderedApart
        /\ Parted /\ OrderLaws
        /\ given' = given /\ cmp' = cmp /\ Index' = Index
        /\ given.n \in Nat /\ Index = 0 .. given.n - 1
    BY SortFrame, CallFacts, OrderFollows DEF SortIInv, OrderParts, Next
  <1>2. /\ pc = "meet" /\ pc' \in {"up", "parted"} /\ StopsUp(i) /\ StopsDown(j)
        /\ UNCHANGED <<calls, left, right, pivot, cnt>>
        /\ left \in Nat /\ right \in Nat /\ i \in Index /\ j \in Index
        /\ left <= i /\ j <= right /\ i <= right /\ left <= j
        /\ src1 \in [Index -> Term] /\ pivot \in Term
    BY <1>1 DEF Meet, Stopped, StopsUp, StopsDown, RangeOK, Parting, Typed
  <1>3. RangesApart'
    BY <1>1, <1>2 DEF RangesApart, Busy, Parting, Apart
  <1>4. Waiting' /\ Removing' /\ Answered'
    BY <1>1, <1>2 DEF Waiting, Removing, Answered
  <1>5. \A x, y : Together(x, y)' <=> Together(x, y)
    BY <1>2 DEF Together, Busy, Parting
  <1>6. CASE i <= j
    <2>1. /\ src1' = Swap(src1) /\ i' = i + 1 /\ j' = j - 1
          /\ pc' = "parted" => j' < i'
      BY <1>1, <1>2, <1>6 DEF Meet
    <2>2. /\ src1'[i] = src1[j] /\ src1'[j] = src1[i]
          /\ \A x \in Index : x # i /\ x # j => src1'[x] = src1[x]
      BY <1>2, <2>1 DEF Swap
    <2>3. \A x \in Index : left <= x /\ x <= right =>
            \E z \in Index : left <= z /\ z <= right /\ src1'[x] = src1[z]
      <3> SUFFICES ASSUME NEW x \in Index, left <= x, x <= right
                   PROVE  \E z \in Index : left <= z /\ z <= right /\ src1'[x] = src1[z]
        OBVIOUS
      <3>1. CASE x = i
        BY <1>2, <2>2, <3>1
      <3>2. CASE x = j
        BY <1>2, <2>2, <3>2
      <3>3. CASE x # i /\ x # j
        BY <2>2, <3>3
      <3> QED
        BY <3>1, <3>2, <3>3
    <2>4. OrderedApart'
      <3> SUFFICES ASSUME NEW x \in Index, NEW y \in Index, x < y, ~Together(x, y)
                   PROVE  cmp[src1'[x]][src1'[y]] <= 0
        BY <1>1, <1>5 DEF OrderedApart
      <3>1. \A u, v \in Index : u < v => Together(u, v) \/ cmp[src1[u]][src1[v]] <= 0
        BY <1>1, <1>2 DEF OrderedApart, Busy, Parting
      <3>2. \A k \in 1 .. Len(calls) : calls[k].right < left \/ right < calls[k].left
        BY <1>1, <1>2 DEF RangesApart, Busy, Parting
      <3>3. ~(left <= x /\ y <= right)
        BY <1>2 DEF Together, Busy, Parting
      <3>4. CASE left <= x /\ x <= right
        <4>1. y > right /\ x \in Int /\ y \in Int /\ y # i /\ y # j
          BY <1>1, <1>2, <3>3, <3>4
        <4>2. PICK z \in Index : left <= z /\ z <= right /\ src1'[x] = src1[z]
          BY <2>3, <3>4
        <4>3. ~Together(z, y)
          <5> SUFFICES ASSUME Together(z, y) PROVE FALSE
            OBVIOUS
          <5>1. PICK k \in 1 .. Len(calls) : calls[k].left <= z /\ y <= calls[k].right
            BY <1>1, <1>2, <4>1 DEF Together
          <5>2. calls[k] \in [left : Nat, right : Nat]
            BY <1>1, ElementType DEF Typed
          <5> QED
            BY <1>1, <1>2, <3>2, <4>1, <4>2, <5>1, <5>2
        <4>4. z < y
          BY <1>1, <1>2, <4>1, <4>2
        <4> QED
          BY <2>2, <3>1, <4>1, <4>2, <4>3, <4>4
      <3>5. CASE left <= y /\ y <= right
        <4>1. x < left /\ x \in Int /\ y \in Int /\ x # i /\ x # j
          BY <1>1, <1>2, <3>3, <3>5
        <4>2. PICK z \in Index : left <= z /\ z <= right /\ src1'[y] = src1[z]
          BY <2>3, <3>5
        <4>3. ~Together(x, z)
          <5> SUFFICES ASSUME Together(x, z) PROVE FALSE
            OBVIOUS
          <5>1. PICK k \in 1 .. Len(calls) : calls[k].left <= x /\ z <= calls[k].right
            BY <1>1, <1>2, <4>1 DEF Together
          <5>2. calls[k] \in [left : Nat, right : Nat]
            BY <1>1, ElementType DEF Typed
          <5> QED
            BY <1>1, <1>2, <3>2, <4>1, <4>2, <5>1, <5>2
        <4>4. x < z
          BY <1>1, <1>2, <4>1, <4>2
        <4> QED
          BY <2>2, <3>1, <4>1, <4>2, <4>3, <4>4
      <3>6. CASE ~(left <= x /\ x <= right) /\ ~(left <= y /\ y <= right)
        <4>1. x # i /\ x # j /\ y # i /\ y # j
          BY <1>2, <3>6
        <4> QED
          BY <2>2, <3>1, <4>1
      <3> QED
        BY <3>4, <3>5, <3>6
    <2>5. Parted'
      <3>1. cmp[src1'[i]][pivot] <= 0 /\ cmp[pivot][src1'[j]] <= 0
        BY <1>1, <1>2, <2>2 DEF StopsUp, StopsDown, OrderLaws
      <3>2. \A x \in Index : left <= x /\ x < i' => cmp[src1'[x]][pivot] <= 0
        <4> SUFFICES ASSUME NEW x \in Index, left <= x, x < i' PROVE cmp[src1'[x]][pivot] <= 0
          OBVIOUS
        <4>1. CASE x = i
          BY <3>1, <4>1
        <4>2. CASE x # i
          <5>1. x < i /\ x # j
            BY <1>1, <1>2, <1>6, <2>1, <4>2
          <5> QED
            BY <1>1, <1>2, <2>2, <4>2, <5>1 DEF Parted, Busy, Parting
        <4> QED
          BY <4>1, <4>2
      <3>3. \A x \in Index : j' < x /\ x <= right => cmp[pivot][src1'[x]] <= 0
        <4> SUFFICES ASSUME NEW x \in Index, j' < x, x <= right PROVE cmp[pivot][src1'[x]] <= 0
          OBVIOUS
        <4>1. CASE x = j
          BY <3>1, <4>1
        <4>2. CASE x # j
          <5>1. j < x /\ x # i
            BY <1>1, <1>2, <1>6, <2>1, <4>2
          <5> QED
            BY <1>1, <1>2, <2>2, <4>2, <5>1 DEF Parted, Busy, Parting
        <4> QED
          BY <4>1, <4>2
      <3> QED
        BY <1>1, <1>2, <2>1, <3>2, <3>3 DEF Parted
    <2> QED
      BY <1>3, <1>4, <2>4, <2>5 DEF OrderParts
  <1>7. CASE ~(i <= j)
    <2>1. UNCHANGED <<src1, i, j>> /\ j < i
      BY <1>1, <1>2, <1>7 DEF Meet
    <2>2. OrderedApart'
      BY <1>1, <1>2, <1>5, <2>1 DEF OrderedApart, Busy, Parting
    <2>3. Parted'
      BY <1>1, <1>2, <2>1 DEF Parted, Busy, Parting
    <2> QED
      BY <1>3, <1>4, <2>2, <2>3 DEF OrderParts
  <1> QED
    BY <1>6, <1>7

\* The range parted falls into two that are apart and terms between them, which
\* equal the pivot: of two terms not in the same part, the first is no greater than
\* the pivot and the second no less.
LEMMA RecurseOrder ==
    ASSUME SortIInv, IsOrder, OrderParts, Recurse
    PROVE  OrderParts'
  <1> DEFINE R == [left : Nat, right : Nat]
             lower == IF left < j THEN <<[left |-> left, right |-> j]>> ELSE <<>>
             upper == IF i < right THEN <<[left |-> i, right |-> right]>> ELSE <<>>
  <1>1. /\ Typed /\ RangeOK /\ Waiting /\ RangesApart /\ OrderedApart /\ Parted /\ OrderLaws
        /\ given' = given /\ cmp' = cmp /\ Index' = Index
        /\ given.n \in Nat /\ Index = 0 .. given.n - 1
    BY SortFrame, CallFacts, OrderFollows DEF SortIInv, OrderParts, Next
  <1>2. /\ pc = "parted" /\ pc' = "call" /\ calls' = (lower \o upper) \o calls
        /\ UNCHANGED <<src1, src2, left, right, i, j, pivot, cnt>>
        /\ j < i /\ left <= i /\ j <= right /\ calls \in Seq(R)
        /\ left \in Nat /\ right \in Nat /\ i \in Nat /\ j \in Int
    BY <1>1 DEF Recurse, Parted, RangeOK, Typed
  <1>3. /\ lower \in Seq(R) /\ Len(lower) \in {0, 1}
        /\ \A k \in 1 .. Len(lower) : lower[k].left = left /\ lower[k].right = j
        /\ left < j => Len(lower) = 1 /\ lower[1].left = left /\ lower[1].right = j
    <2> HIDE DEF lower
    <2>1. lower = IF left < j THEN <<[left |-> left, right |-> j]>> ELSE <<>>
      BY DEF lower
    <2> QED
      BY <1>2, <2>1, PartRange
  <1>4. /\ upper \in Seq(R) /\ Len(upper) \in {0, 1}
        /\ \A k \in 1 .. Len(upper) : upper[k].left = i /\ upper[k].right = right
        /\ i < right => Len(upper) = 1 /\ upper[1].left = i /\ upper[1].right = right
    <2> HIDE DEF upper
    <2>1. upper = IF i < right THEN <<[left |-> i, right |-> right]>> ELSE <<>>
      BY DEF upper
    <2> QED
      BY <1>2, <2>1, PartRange
  <1> HIDE DEF lower, upper, R
  <1>5. lower \o upper \in Seq(R)
    BY <1>3, <1>4
  <1>6. \A k, m \in 1 .. Len(lower \o upper) :
          k # m => Apart((lower \o upper)[k], (lower \o upper)[m])
    <2>1. /\ \A k, m \in 1 .. Len(lower) : k = m
          /\ \A k, m \in 1 .. Len(upper) : k = m
      BY <1>3, <1>4
    <2>2. \A k \in 1 .. Len(lower), m \in 1 .. Len(upper) : Apart(lower[k], upper[m])
      BY <1>2, <1>3, <1>4 DEF Apart
    <2> QED
      BY <1>3, <1>4, <2>1, <2>2, ConcatApart
  <1>7. \A k \in 1 .. Len(lower \o upper) :
          left <= (lower \o upper)[k].left /\ (lower \o upper)[k].right <= right
    <2> SUFFICES ASSUME NEW k \in 1 .. Len(lower \o upper)
                 PROVE  /\ left <= (lower \o upper)[k].left
                        /\ (lower \o upper)[k].right <= right
      OBVIOUS
    <2>1. \/ k \in 1 .. Len(lower) /\ (lower \o upper)[k] = lower[k]
          \/ k - Len(lower) \in 1 .. Len(upper) /\ (lower \o upper)[k] = upper[k - Len(lower)]
      BY <1>3, <1>4, ConcatRange
    <2> QED
      BY <1>2, <1>3, <1>4, <2>1
  <1>8. RangesApart'
    <2>1. \A k \in 1 .. Len(lower \o upper), m \in 1 .. Len(calls) :
            Apart((lower \o upper)[k], calls[m])
      <3> SUFFICES ASSUME NEW k \in 1 .. Len(lower \o upper), NEW m \in 1 .. Len(calls)
                   PROVE  Apart((lower \o upper)[k], calls[m])
        OBVIOUS
      <3>1. calls[m].right < left \/ right < calls[m].left
        BY <1>1, <1>2 DEF RangesApart, Busy
      <3>2. calls[m] \in R /\ (lower \o upper)[k] \in R
        BY <1>2, <1>5, ElementType
      <3>3. /\ calls[m].left \in Nat /\ calls[m].right \in Nat
            /\ (lower \o upper)[k].left \in Nat /\ (lower \o upper)[k].right \in Nat
        BY <3>2 DEF R
      <3>4. left <= (lower \o upper)[k].left /\ (lower \o upper)[k].right <= right
        BY <1>7
      <3> QED
        BY <1>2, <3>1, <3>3, <3>4, PartApart
    <2>2. \A k, m \in 1 .. Len(calls) : k # m => Apart(calls[k], calls[m])
      BY <1>1 DEF RangesApart
    <2>3. \A k, m \in 1 .. Len(calls') : k # m => Apart(calls'[k], calls'[m])
      BY <1>2, <1>5, <1>6, <2>1, <2>2, ConcatApart
    <2> QED
      BY <1>2, <2>3 DEF RangesApart, Busy, Parting, Apart
  <1>9. /\ \A k \in 1 .. Len(calls) : \E m \in 1 .. Len(calls') : calls'[m] = calls[k]
        /\ left < j => \E m \in 1 .. Len(calls') : calls'[m].left = left /\ calls'[m].right = j
        /\ i < right => \E m \in 1 .. Len(calls') : calls'[m].left = i /\ calls'[m].right = right
    <2>1. HasAll(calls', lower \o upper)
      BY <1>2, <1>5, ConcatHasFirst
    <2>2. \A k \in 1 .. Len(lower) : \E m \in 1 .. Len(calls') : calls'[m] = lower[k]
      <3>1. HasAll(lower \o upper, lower)
        BY <1>3, <1>4, ConcatHasFirst
      <3> QED
        BY <2>1, <3>1 DEF HasAll
    <2>3. \A k \in 1 .. Len(upper) : \E m \in 1 .. Len(calls') : calls'[m] = upper[k]
      <3>1. HasAll(lower \o upper, upper)
        BY <1>3, <1>4, ConcatHasSecond
      <3> QED
        BY <2>1, <3>1 DEF HasAll
    <2>4. \A k \in 1 .. Len(calls) : \E m \in 1 .. Len(calls') : calls'[m] = calls[k]
      <3>1. PICK front \in Seq(R), back \in Seq(R) : front = lower \o upper /\ back = calls
        BY <1>2, <1>5
      <3>2. \A k \in 1 .. Len(back) : \E m \in 1 .. Len(front \o back) :
              (front \o back)[m] = back[k]
        <4>1. ASSUME NEW k \in 1 .. Len(back)
              PROVE  /\ Len(front) + k \in 1 .. Len(front \o back)
                     /\ (front \o back)[Len(front) + k] = back[k]
          OBVIOUS
        <4> QED
          BY <4>1
      <3>3. calls' = front \o back /\ calls = back
        BY <1>2, <3>1
      <3> QED
        BY <3>2, <3>3
    <2>5. /\ left < j => 1 \in 1 .. Len(lower) /\ lower[1].left = left /\ lower[1].right = j
          /\ i < right => 1 \in 1 .. Len(upper) /\ upper[1].left = i /\ upper[1].right = right
      BY <1>3, <1>4
    <2> QED
      BY <2>2, <2>3, <2>4, <2>5
  <1>10. OrderedApart'
    <2> SUFFICES ASSUME NEW x \in Index, NEW y \in Index, x < y, ~Together(x, y)'
                 PROVE  cmp[src1[x]][src1[y]] <= 0
      BY <1>1, <1>2 DEF OrderedApart
    <2>1. \A m \in 1 .. Len(calls') : ~(calls'[m].left <= x /\ y <= calls'[m].right)
      BY DEF Together
    <2>2. CASE left <= x /\ y <= right
      <3>1. ~(y <= j) /\ ~(i <= x)
        <4>1. x \in Int /\ y \in Int
          BY <1>1
        <4>2. y <= j => left < j
          BY <1>2, <2>2, <4>1
        <4>3. i <= x => i < right
          BY <1>2, <2>2, <4>1
        <4> QED
          BY <1>9, <2>1, <2>2, <4>2, <4>3
      <3>2. cmp[src1[x]][pivot] <= 0 /\ cmp[pivot][src1[y]] <= 0
        BY <1>1, <1>2, <2>2, <3>1 DEF Parted, Busy
      <3>3. src1[x] \in Term /\ src1[y] \in Term /\ pivot \in Term
        BY <1>1 DEF Typed
      <3> QED
        BY <1>1, <3>2, <3>3 DEF OrderLaws
    <2>3. CASE ~(left <= x /\ y <= right)
      <3>1. ~Together(x, y)
        BY <1>9, <2>1, <2>3 DEF Together
      <3> QED
        BY <1>1, <1>2, <3>1 DEF OrderedApart, Busy
    <2> QED
      BY <2>2, <2>3
  <1>11. Waiting' /\ Parted' /\ Removing' /\ Answered'
    BY <1>1, <1>2 DEF Waiting, Parted, Removing, Answered, Busy, Parting
  <1> QED
    BY <1>8, <1>10, <1>11 DEF OrderParts

\* When no range is left, every two terms are in order, and every key is there.
LEMMA StartUremoveOrder ==
    ASSUME SortIInv, IsOrder, OrderParts, StartUremove
    PROVE  OrderParts'
  <1>1. /\ Typed /\ RangeOK /\ PairsKept /\ Waiting /\ OrderedApart /\ OrderLaws
        /\ given' = given /\ cmp' = cmp /\ Index' = Index
        /\ given.n \in Nat /\ Index = 0 .. given.n - 1
        /\ given.keys \in [Index -> Term] /\ given.values \in [Index -> Value]
    BY SortFrame, CallFacts, OrderFollows DEF SortIInv, OrderParts, Next
  <1>2. /\ pc = "call" /\ pc' = "uremove" /\ i' = 0 /\ j' = 1 /\ calls = <<>> /\ 1 < given.n
        /\ UNCHANGED <<src1, src2, calls, left, right, pivot, cnt>>
        /\ src1 \in [Index -> Term]
    BY <1>1 DEF StartUremove, RangeOK, Typed
  <1>3. \A x, y \in Index : x < y => cmp[src1[x]][src1[y]] <= 0
    BY <1>1, <1>2 DEF OrderedApart, Together, Busy, Parting
  <1>4. \A x \in Index : \E y \in Index :
          (y <= i' \/ j' <= y) /\ cmp[given.keys[x]][src1[y]] = 0
    <2> SUFFICES ASSUME NEW x \in Index
                 PROVE  \E y \in Index : (y <= i' \/ j' <= y) /\ cmp[given.keys[x]][src1[y]] = 0
      OBVIOUS
    <2>1. <<given.keys[x], given.values[x]>> \in Pairs(src1, src2)
      BY <1>1, <1>2 DEF PairsKept, Pairs
    <2>2. PICK y \in Index : <<given.keys[x], given.values[x]>> = <<src1[y], src2[y]>>
      BY <2>1 DEF Pairs
    <2>3. given.keys[x] = src1[y] /\ src1[y] \in Term
      BY <1>2, <2>2
    <2>4. y <= i' \/ j' <= y
      BY <1>1, <1>2
    <2> QED
      BY <1>1, <2>3, <2>4 DEF OrderLaws
  <1>5. Removing'
    <2>1. \A x \in 0 .. i', y \in Index : j' <= y => cmp[src1[x]][src1[y]] <= 0
      BY <1>1, <1>2, <1>3
    <2>2. \A x, y \in 0 .. i' : x < y => cmp[src1[x]][src1[y]] < 0
      BY <1>2
    <2> QED
      BY <1>1, <1>2, <1>3, <1>4, <2>1, <2>2 DEF Removing
  <1>6. Waiting' /\ RangesApart' /\ OrderedApart' /\ Parted' /\ Answered'
    BY <1>1, <1>2 DEF Waiting, RangesApart, OrderedApart, Parted, Answered, Busy, Parting
  <1> QED
    BY <1>5, <1>6 DEF OrderParts

\* uremove_aux keeps the next term when it is above the last one kept; otherwise it
\* compares 0 with it, and whatever compares 0 with the term dropped does so with
\* the one kept.
LEMMA UremoveOrder ==
    ASSUME SortIInv, IsOrder, OrderParts, Uremove
    PROVE  OrderParts'
  <1>1. /\ Typed /\ RangeOK /\ Waiting /\ Removing /\ OrderLaws
        /\ given' = given /\ cmp' = cmp /\ Index' = Index
        /\ given.n \in Nat /\ Index = 0 .. given.n - 1
        /\ given.keys \in [Index -> Term]
    BY SortFrame, CallFacts, OrderFollows DEF SortIInv, OrderParts, Next
  <1>2. /\ pc = "uremove" /\ pc' = "uremove" /\ j' = j + 1 /\ cnt' = cnt
        /\ i \in Nat /\ j \in Int /\ i < j /\ i \in Index /\ j \in Index /\ i + 1 \in Index
        /\ src1 \in [Index -> Term] /\ src2 \in [Index -> Value]
    BY <1>1 DEF Uremove, RangeOK, Typed
  <1>3. /\ \A x, y \in 0 .. i : x < y => cmp[src1[x]][src1[y]] < 0
        /\ \A x, y \in Index : x < y /\ j <= x => cmp[src1[x]][src1[y]] <= 0
        /\ \A x \in 0 .. i, y \in Index : j <= y => cmp[src1[x]][src1[y]] <= 0
        /\ \A x \in Index : \E y \in Index :
             (y <= i \/ j <= y) /\ cmp[given.keys[x]][src1[y]] = 0
    BY <1>1, <1>2 DEF Removing
  <1>4. Waiting' /\ RangesApart' /\ OrderedApart' /\ Parted' /\ Answered'
    <2>1. UNCHANGED <<calls, left, right, pivot>>
      BY DEF Uremove
    <2>2. RangesApart /\ ~Busy /\ ~Busy'
      BY <1>2 DEF OrderParts, Busy, Parting
    <2> QED
      BY <1>1, <1>2, <2>1, <2>2 DEF Waiting, RangesApart, OrderedApart, Parted, Answered, Apart
  <1>5. CASE cmp[src1[i]][src1[j]] < 0
    <2>1. /\ i' = i + 1 /\ src1' \in [Index -> Term]
          /\ src1'[i + 1] = src1[j] /\ \A x \in Index : x # i + 1 => src1'[x] = src1[x]
      BY <1>2, <1>5 DEF Uremove
    <2>2. /\ \A x \in 0 .. i : x \in Index /\ x # i + 1 /\ src1'[x] = src1[x]
          /\ \A x \in Index : j + 1 <= x => x # i + 1 /\ src1'[x] = src1[x]
      BY <1>1, <1>2, <2>1
    <2>3. \A x \in 0 .. i : cmp[src1[x]][src1[j]] < 0
      <3> SUFFICES ASSUME NEW x \in 0 .. i PROVE cmp[src1[x]][src1[j]] < 0
        OBVIOUS
      <3>1. CASE x = i
        BY <1>5, <3>1
      <3>2. CASE x # i
        <4>1. cmp[src1[x]][src1[i]] < 0
          <5>1. i \in 0 .. i /\ x < i
            BY <1>2, <3>2
          <5> QED
            BY <1>3, <5>1
        <4>2. src1[x] \in Term /\ src1[i] \in Term /\ src1[j] \in Term /\ cmp[src1[i]][src1[j]] <= 0
          BY <1>1, <1>2, <1>5, <2>2 DEF OrderLaws
        <4> QED
          BY <1>1, <4>1, <4>2 DEF OrderLaws
      <3> QED
        BY <3>1, <3>2
    <2>4. \A x, y \in 0 .. i + 1 : x < y => cmp[src1'[x]][src1'[y]] < 0
      <3> SUFFICES ASSUME NEW x \in 0 .. i + 1, NEW y \in 0 .. i + 1, x < y
                   PROVE  cmp[src1'[x]][src1'[y]] < 0
        OBVIOUS
      <3>1. x \in 0 .. i
        BY <1>2
      <3>2. CASE y = i + 1
        BY <2>1, <2>2, <2>3, <3>1, <3>2
      <3>3. CASE y # i + 1
        <4>1. y \in 0 .. i
          BY <1>2, <3>3
        <4> QED
          BY <1>3, <2>2, <3>1, <4>1
      <3> QED
        BY <3>2, <3>3
    <2>5. \A x, y \in Index : x < y /\ j + 1 <= x => cmp[src1'[x]][src1'[y]] <= 0
      <3> SUFFICES ASSUME NEW x \in Index, NEW y \in Index, x < y, j + 1 <= x
                   PROVE  cmp[src1'[x]][src1'[y]] <= 0
        OBVIOUS
      <3>1. j <= x /\ j + 1 <= y
        BY <1>1, <1>2
      <3> QED
        BY <1>3, <2>2, <3>1
    <2>6. \A x \in 0 .. i + 1, y \in Index : j + 1 <= y => cmp[src1'[x]][src1'[y]] <= 0
      <3> SUFFICES ASSUME NEW x \in 0 .. i + 1, NEW y \in Index, j + 1 <= y
                   PROVE  cmp[src1'[x]][src1'[y]] <= 0
        OBVIOUS
      <3>1. j <= y /\ j < y /\ src1'[y] = src1[y]
        BY <1>1, <1>2, <2>2
      <3>2. CASE x = i + 1
        BY <1>2, <1>3, <2>1, <3>1, <3>2
      <3>3. CASE x # i + 1
        <4>1. x \in 0 .. i
          BY <1>2, <3>3
        <4> QED
          BY <1>3, <2>2, <3>1, <4>1
      <3> QED
        BY <3>2, <3>3
    <2>7. \A x \in Index : \E y \in Index :
            (y <= i + 1 \/ j + 1 <= y) /\ cmp[given.keys[x]][src1'[y]] = 0
      <3> SUFFICES ASSUME NEW x \in Index
                   PROVE  \E y \in Index : /\ y <= i + 1 \/ j + 1 <= y
                                           /\ cmp[given.keys[x]][src1'[y]] = 0
        OBVIOUS
      <3>1. PICK y \in Index : (y <= i \/ j <= y) /\ cmp[given.keys[x]][src1[y]] = 0
        BY <1>3
      <3>2. CASE y = j
        BY <1>2, <2>1, <3>1, <3>2
      <3>3. CASE y # j
        <4>1. (y <= i \/ j + 1 <= y) /\ y # i + 1
          BY <1>1, <1>2, <3>1, <3>3
        <4>2. src1'[y] = src1[y] /\ (y <= i + 1 \/ j + 1 <= y)
          BY <1>1, <1>2, <2>1, <4>1
        <4> QED
          BY <3>1, <4>2
      <3> QED
        BY <3>2, <3>3
    <2>8. Removing'
      BY <1>1, <1>2, <2>1, <2>4, <2>5, <2>6, <2>7 DEF Removing
    <2> QED
      BY <1>4, <2>8 DEF OrderParts
  <1>6. CASE ~(cmp[src1[i]][src1[j]] < 0)
    <2>1. i' = i /\ src1' = src1
      BY <1>6 DEF Uremove
    <2>2. cmp[src1[j]][src1[i]] = 0
      <3>1. i \in 0 .. i /\ j <= j
        BY <1>2
      <3>2. cmp[src1[i]][src1[j]] <= 0 /\ src1[i] \in Term /\ src1[j] \in Term
        BY <1>2, <1>3, <3>1
      <3> QED
        BY <1>1, <1>6, <3>2 DEF OrderLaws
    <2>3. \A x \in Index : \E y \in Index :
            (y <= i \/ j + 1 <= y) /\ cmp[given.keys[x]][src1[y]] = 0
      <3> SUFFICES ASSUME NEW x \in Index
                   PROVE  \E y \in Index : /\ y <= i \/ j + 1 <= y
                                           /\ cmp[given.keys[x]][src1[y]] = 0
        OBVIOUS
      <3>1. PICK y \in Index : (y <= i \/ j <= y) /\ cmp[given.keys[x]][src1[y]] = 0
        BY <1>3
      <3>2. CASE y = j
        <4>1. given.keys[x] \in Term /\ src1[i] \in Term /\ src1[j] \in Term
          BY <1>1, <1>2
        <4>2. cmp[given.keys[x]][src1[i]] = 0
          BY <1>1, <2>2, <3>1, <3>2, <4>1 DEF OrderLaws
        <4>3. i <= i
          BY <1>2
        <4> QED
          BY <1>2, <4>2, <4>3
      <3>3. CASE y # j
        <4>1. y <= i \/ j + 1 <= y
          BY <1>1, <1>2, <3>1, <3>3
        <4> QED
          BY <3>1, <4>1
      <3> QED
        BY <3>2, <3>3
    <2>4. \A x, y \in Index : x < y /\ j + 1 <= x => cmp[src1[x]][src1[y]] <= 0
      <3>1. \A x \in Index : j + 1 <= x => j <= x
        BY <1>1, <1>2
      <3> QED
        BY <1>3, <3>1
    <2>5. \A x \in 0 .. i, y \in Index : j + 1 <= y => cmp[src1[x]][src1[y]] <= 0
      <3>1. \A x \in Index : j + 1 <= x => j <= x
        BY <1>1, <1>2
      <3> QED
        BY <1>3, <3>1
    <2>6. Removing'
      BY <1>1, <1>2, <1>3, <2>1, <2>3, <2>4, <2>5 DEF Removing
    <2> QED
      BY <1>4, <2>6 DEF OrderParts
  <1> QED
    BY <1>5, <1>6

\* Arrays that ascend as they are given are left alone.
LEMMA SortedOrder ==
    ASSUME SortIInv, IsOrder, OrderParts, Sorted
    PROVE  OrderParts'
  <1>1. /\ Typed /\ Waiting /\ OrderLaws
        /\ given' = given /\ cmp' = cmp /\ Index' = Index
        /\ given.n \in Nat /\ Index = 0 .. given.n - 1
        /\ given.keys \in [Index -> Term]
    BY SortFrame, CallFacts, OrderFollows DEF SortIInv, OrderParts, Next
  <1>2. /\ pc = "start" /\ pc' = "done" /\ cnt = given.n
        /\ src1 = given.keys /\ src2 = given.values
        /\ UNCHANGED <<src1, src2, calls, left, right, i, j, pivot, cnt>>
    BY <1>1 DEF Sorted, Waiting
  <1>3. \A x, y \in Index : x < y => cmp[src1[x]][src1[y]] < 0
    <2>1. \A k \in 0 .. given.n - 2 : cmp[src1[k]][src1[k + 1]] < 0
      BY DEF Sorted, IsUSorted
    <2>2. src1 \in [0 .. given.n - 1 -> Term]
      BY <1>1, <1>2
    <2> QED
      BY <1>1, <2>1, <2>2, Ascends
  <1>4. Answered'
    <2>1. \A x \in Index : cmp[given.keys[x]][src1[x]] = 0
      BY <1>1, <1>2 DEF OrderLaws
    <2>2. 0 .. cnt - 1 = Index /\ cnt \in 0 .. given.n
      BY <1>1, <1>2
    <2>3. \A x \in Index : <<src1[x], src2[x]>> \in Pairs(given.keys, given.values)
      BY <1>2 DEF Pairs
    <2>4. Pairs(given.keys, given.values)' = Pairs(given.keys, given.values)
      BY <1>1 DEF Pairs
    <2> QED
      BY <1>1, <1>2, <1>3, <2>1, <2>2, <2>3, <2>4 DEF Answered
  <1>5. Waiting' /\ RangesApart' /\ OrderedApart' /\ Parted' /\ Removing'
    BY <1>1, <1>2 DEF OrderParts, Waiting, RangesApart, OrderedApart, Parted, Removing,
                      Busy, Parting, Apart
  <1> QED
    BY <1>4, <1>5 DEF OrderParts

\* At first there is one range, of all places.
LEMMA UnsortedOrder ==
    ASSUME SortIInv, IsOrder, OrderParts, Unsorted
    PROVE  OrderParts'
  <1>1. /\ Waiting
        /\ given' = given /\ cmp' = cmp /\ Index' = Index
        /\ given.n \in Nat /\ Index = 0 .. given.n - 1
    BY SortFrame, CallFacts DEF SortIInv, OrderParts, Next
  <1>2. /\ pc = "start" /\ pc' = "call"
        /\ calls' = <<[left |-> 0, right |-> given.n - 1]>>
        /\ UNCHANGED <<src1, src2, left, right, i, j, pivot, cnt>>
    BY DEF Unsorted
  <1>3. /\ Len(calls') = 1 /\ calls'[1].left = 0 /\ calls'[1].right = given.n - 1
    BY <1>2
  <1>4. RangesApart'
    BY <1>2, <1>3 DEF RangesApart, Busy, Parting
  <1>5. OrderedApart'
    <2>1. 1 \in 1 .. Len(calls')
      BY <1>3
    <2>2. \A x, y \in Index : calls'[1].left <= x /\ y <= calls'[1].right
      BY <1>1, <1>3
    <2> QED
      BY <1>1, <2>1, <2>2 DEF OrderedApart, Together
  <1>6. Waiting' /\ Parted' /\ Removing' /\ Answered'
    BY <1>1, <1>2 DEF Waiting, Parted, Removing, Answered, Busy, Parting
  <1> QED
    BY <1>4, <1>5, <1>6 DEF OrderParts

\* When every term was read, the terms kept are the answer.
LEMMA ReturnOrder ==
    ASSUME SortIInv, IsOrder, OrderParts, Return
    PROVE  OrderParts'
  <1>1. /\ Typed /\ RangeOK /\ PairsKept /\ Waiting /\ Removing
        /\ given' = given /\ cmp' = cmp /\ Index' = Index
        /\ given.n \in Nat /\ Index = 0 .. given.n - 1
    BY SortFrame, CallFacts DEF SortIInv, OrderParts, Next
  <1>2. /\ pc = "uremove" /\ pc' = "done" /\ cnt' = i + 1 /\ j > given.n - 1
        /\ UNCHANGED <<src1, src2, calls, left, right, i, j, pivot>>
        /\ i \in Nat /\ j \in Int /\ i < given.n
    BY <1>1 DEF Return, RangeOK, Typed
  <1>3. /\ cnt' \in 0 .. given.n /\ 0 .. cnt' - 1 = 0 .. i /\ \A x \in 0 .. i : x \in Index
        /\ \A y \in Index : ~(j <= y)
    BY <1>1, <1>2
  <1>4. Answered'
    <2>1. \A x \in Index : \E y \in 0 .. i : cmp[given.keys[x]][src1[y]] = 0
      <3> SUFFICES ASSUME NEW x \in Index
                   PROVE  \E y \in 0 .. i : cmp[given.keys[x]][src1[y]] = 0
        OBVIOUS
      <3>1. PICK y \in Index : (y <= i \/ j <= y) /\ cmp[given.keys[x]][src1[y]] = 0
        BY <1>1, <1>2 DEF Removing
      <3>2. y \in 0 .. i
        BY <1>1, <1>2, <1>3, <3>1
      <3> QED
        BY <3>1, <3>2
    <2>2. \A x \in 0 .. i : <<src1[x], src2[x]>> \in Pairs(given.keys, given.values)
      BY <1>1, <1>2, <1>3 DEF PairsKept, Pairs
    <2>3. Pairs(given.keys, given.values)' = Pairs(given.keys, given.values)
      BY <1>1 DEF Pairs
    <2>4. \A x, y \in 0 .. i : x < y => cmp[src1[x]][src1[y]] < 0
      BY <1>1, <1>2 DEF Removing
    <2> QED
      BY <1>1, <1>2, <1>3, <2>1, <2>2, <2>3, <2>4 DEF Answered
  <1>5. Waiting' /\ RangesApart' /\ OrderedApart' /\ Parted' /\ Removing'
    BY <1>1, <1>2 DEF OrderParts, Waiting, RangesApart, OrderedApart, Parted, Removing,
                      Busy, Parting, Apart
  <1> QED
    BY <1>4, <1>5 DEF OrderParts

\* A call that was not begun has sorted nothing.
LEMMA OrderInit == Init => OrderIInv
  <1> SUFFICES ASSUME Init PROVE OrderParts
    BY SortInit DEF OrderIInv
  <1>1. pc = "start" /\ calls = <<>> /\ cnt = given.n /\ src1 = given.keys /\ src2 = given.values
    BY DEF Init, Called
  <1> QED
    BY <1>1 DEF OrderParts, Waiting, RangesApart, OrderedApart, Parted, Removing, Answered,
                Busy, Parting

\* OrderIInv is inductive: one step per action.
LEMMA OrderStep == OrderIInv /\ [Next]_vars => OrderIInv'
  <1> SUFFICES ASSUME OrderIInv, [Next]_vars PROVE OrderIInv'
    OBVIOUS
  <1>1. SortIInv /\ SortIInv'
    BY SortStep DEF OrderIInv
  <1>2. CASE Next
    <2> SUFFICES ASSUME IsOrder PROVE OrderParts'
      BY <1>1, <1>2, SortFrame DEF OrderIInv
    <2>1. OrderParts
      BY DEF OrderIInv
    <2> QED
      BY <1>1, <1>2, <2>1, SortedOrder, UnsortedOrder, EnterOrder, UpOrder, DownOrder,
         MeetOrder, RecurseOrder, StartUremoveOrder, UremoveOrder, ReturnOrder DEF Next
  <1>3. CASE UNCHANGED vars
    <2>1. IsOrder' = IsOrder
      BY <1>3 DEF vars, IsOrder
    <2>2. Pairs(given.keys, given.values)' = Pairs(given.keys, given.values) /\ Index' = Index
      BY <1>3 DEF vars, Pairs, Index
    <2>3. ASSUME OrderParts PROVE OrderParts'
      <3>1. Waiting' /\ RangesApart' /\ Parted'
        BY <1>3, <2>2, <2>3 DEF vars, OrderParts, Waiting, RangesApart, Parted, Busy, Parting, Apart
      <3>2. OrderedApart'
        BY <1>3, <2>2, <2>3 DEF vars, OrderParts, OrderedApart, Together, Busy, Parting
      <3>3. Removing'
        BY <1>3, <2>2, <2>3 DEF vars, OrderParts, Removing
      <3>4. Answered'
        BY <1>3, <2>2, <2>3 DEF vars, OrderParts, Answered
      <3> QED
        BY <3>1, <3>2, <3>3, <3>4 DEF OrderParts
    <2> QED
      BY <1>1, <2>1, <2>3 DEF OrderIInv
  <1> QED
    BY <1>2, <1>3

\* What a map is made of: where the comparison orders the terms, the keys answered
\* ascend, each is one of those given and has a value given for it, and no key given
\* is missing among them.
THEOREM SortAnswersAscending == Spec => [](IsOrder => Answered)
  <1>1. OrderIInv => (IsOrder => Answered)
    BY DEF OrderIInv, OrderParts
  <1> QED
    BY <1>1, OrderInit, OrderStep, PTL DEF Spec

-----------------------------------------------------------------------------
\* t is b behind a
IsJoined(t, a, b) ==
    /\ t = a \o b /\ Len(t) = Len(a) + Len(b)
    /\ \A x \in 1 .. Len(a) : t[x] = a[x]
    /\ \A x \in Len(a) + 1 .. Len(a) + Len(b) : t[x] = b[x - Len(a)]

LEMMA Joined ==
    ASSUME NEW R, NEW a \in Seq(R), NEW b \in Seq(R)
    PROVE  \E t \in Seq(R) : IsJoined(t, a, b)
  <1>1. /\ a \o b \in Seq(R) /\ Len(a \o b) = Len(a) + Len(b)
        /\ \A x \in 1 .. Len(a) : (a \o b)[x] = a[x]
        /\ \A x \in Len(a) + 1 .. Len(a) + Len(b) : (a \o b)[x] = b[x - Len(a)]
    OBVIOUS
  <1>2. IsJoined(a \o b, a, b)
    BY <1>1 DEF IsJoined
  <1> QED
    BY <1>1, <1>2

\* t is s with e put in at the place p
IsInserted(t, s, p, e) ==
    /\ t = Map!InsertAt(s, p, e) /\ Len(t) = Len(s) + 1 /\ t[p] = e
    /\ \A x \in 1 .. p - 1 : t[x] = s[x]
    /\ \A x \in p + 1 .. Len(s) + 1 : t[x] = s[x - 1]

\* t is s without the element at the place p
IsRemoved(t, s, p) ==
    /\ t = Map!RemoveAt(s, p) /\ Len(t) = Len(s) - 1
    /\ \A x \in 1 .. p - 1 : t[x] = s[x]
    /\ \A x \in p .. Len(s) - 1 : t[x] = s[x + 1]

\* The places of a sequence an element was inserted into.
LEMMA Inserted ==
    ASSUME NEW R, NEW s \in Seq(R), NEW p \in 1 .. Len(s), NEW e \in R
    PROVE  \E t \in Seq(R) : IsInserted(t, s, p, e)
  <1>1. /\ SubSeq(s, 1, p - 1) \in Seq(R) /\ Len(SubSeq(s, 1, p - 1)) = p - 1
        /\ \A x \in 1 .. p - 1 : SubSeq(s, 1, p - 1)[x] = s[x]
    OBVIOUS
  <1>2. /\ SubSeq(s, p, Len(s)) \in Seq(R) /\ Len(SubSeq(s, p, Len(s))) = Len(s) - p + 1
        /\ \A x \in 1 .. Len(s) - p + 1 : SubSeq(s, p, Len(s))[x] = s[p + x - 1]
    OBVIOUS
  <1>3. <<e>> \in Seq(R) /\ Len(<<e>>) = 1 /\ <<e>>[1] = e
    OBVIOUS
  <1>4. PICK a \in Seq(R), b \in Seq(R), c \in Seq(R) :
          a = SubSeq(s, 1, p - 1) /\ b = SubSeq(s, p, Len(s)) /\ c = <<e>>
    BY <1>1, <1>2, <1>3, Zenon
  <1>5. PICK d \in Seq(R) : IsJoined(d, a, c)
    BY Joined
  <1>6. PICK t \in Seq(R) : IsJoined(t, d, b)
    BY Joined
  <1>7. /\ Len(a) = p - 1 /\ \A x \in 1 .. p - 1 : a[x] = s[x]
        /\ Len(b) = Len(s) - p + 1 /\ \A x \in 1 .. Len(s) - p + 1 : b[x] = s[p + x - 1]
        /\ Len(c) = 1 /\ c[1] = e
    BY <1>1, <1>2, <1>3, <1>4
  <1>8. Len(d) = p /\ d[p] = e /\ \A x \in 1 .. p - 1 : d[x] = s[x]
    <2>1. (p - 1) + 1 = p /\ p \in (p - 1) + 1 .. (p - 1) + 1 /\ p - (p - 1) = 1
      OBVIOUS
    <2> QED
      BY <1>5, <1>7, <2>1 DEF IsJoined
  <1>9. /\ Len(t) = Len(s) + 1
        /\ \A x \in 1 .. p : t[x] = d[x]
        /\ \A x \in p + 1 .. Len(s) + 1 : t[x] = b[x - p]
    <2>1. p + (Len(s) - p + 1) = Len(s) + 1
      OBVIOUS
    <2> QED
      BY <1>6, <1>7, <1>8, <2>1 DEF IsJoined
  <1>10. \A x \in p + 1 .. Len(s) + 1 : x - p \in 1 .. Len(s) - p + 1 /\ p + (x - p) - 1 = x - 1
    OBVIOUS
  <1>11. \A x \in p + 1 .. Len(s) + 1 : t[x] = s[x - 1]
    BY <1>7, <1>9, <1>10
  <1>12. t[p] = e /\ \A x \in 1 .. p - 1 : t[x] = s[x]
    BY <1>8, <1>9
  <1>13. t = Map!InsertAt(s, p, e)
    BY <1>4, <1>5, <1>6 DEF Map!InsertAt, IsJoined
  <1> QED
    BY <1>9, <1>11, <1>12, <1>13 DEF IsInserted

LEMMA Removed ==
    ASSUME NEW R, NEW s \in Seq(R), NEW p \in 1 .. Len(s)
    PROVE  \E t \in Seq(R) : IsRemoved(t, s, p)
  <1>1. /\ SubSeq(s, 1, p - 1) \in Seq(R) /\ Len(SubSeq(s, 1, p - 1)) = p - 1
        /\ \A x \in 1 .. p - 1 : SubSeq(s, 1, p - 1)[x] = s[x]
    OBVIOUS
  <1>2. /\ SubSeq(s, p + 1, Len(s)) \in Seq(R) /\ Len(SubSeq(s, p + 1, Len(s))) = Len(s) - p
        /\ \A x \in 1 .. Len(s) - p : SubSeq(s, p + 1, Len(s))[x] = s[p + x]
    OBVIOUS
  <1>3. PICK a \in Seq(R), b \in Seq(R) :
          a = SubSeq(s, 1, p - 1) /\ b = SubSeq(s, p + 1, Len(s))
    BY <1>1, <1>2, Zenon
  <1>4. /\ Len(a) = p - 1 /\ \A x \in 1 .. p - 1 : a[x] = s[x]
        /\ Len(b) = Len(s) - p /\ \A x \in 1 .. Len(s) - p : b[x] = s[p + x]
    BY <1>1, <1>2, <1>3
  <1>5. PICK t \in Seq(R) : IsJoined(t, a, b)
    BY Joined
  <1>6. /\ Len(a) + Len(b) = Len(s) - 1
        /\ \A x \in p .. Len(s) - 1 :
             /\ x \in Len(a) + 1 .. Len(a) + Len(b)
             /\ x - Len(a) \in 1 .. Len(s) - p /\ p + (x - Len(a)) = x + 1
    BY <1>4
  <1>7. t = Map!RemoveAt(s, p)
    BY <1>3, <1>5 DEF Map!RemoveAt, IsJoined
  <1>8. Len(t) = Len(s) - 1 /\ \A x \in 1 .. p - 1 : t[x] = s[x]
    BY <1>4, <1>5, <1>6 DEF IsJoined
  <1>9. \A x \in p .. Len(s) - 1 : t[x] = s[x + 1]
    BY <1>4, <1>5, <1>6 DEF IsJoined
  <1> QED
    BY <1>7, <1>8, <1>9 DEF IsRemoved

\* One turn of the loop of key_index, the rest of the search being f
Turn(keys, key, f, s) ==
    LET mid == (s.high + s.low) \div 2
    IN IF s.low > s.high THEN [found |-> FALSE, at |-> s.last]
       ELSE IF key < keys[mid] THEN f[[low |-> s.low, high |-> mid - 1, last |-> mid]]
       ELSE IF key > keys[mid] THEN f[[low |-> mid + 1, high |-> s.high, last |-> mid]]
       ELSE [found |-> TRUE, at |-> mid]

Turns(keys, key, f) == [s \in Map!Searches(keys) |-> Turn(keys, key, f, s)]

\* The two ranges a turn may leave to be searched are shorter.
LEMMA TurnShortens ==
    ASSUME NEW keys \in Seq(Term), NEW s \in Map!Searches(keys), NEW mid,
           mid = (s.high + s.low) \div 2, ~(s.low > s.high)
    PROVE  /\ mid \in 1 .. Len(keys) /\ s.low <= mid /\ mid <= s.high
           /\ [low |-> s.low, high |-> mid - 1, last |-> mid] \in Map!Searches(keys)
           /\ [low |-> mid + 1, high |-> s.high, last |-> mid] \in Map!Searches(keys)
  <1>1. PICK low \in 1 .. Len(keys) + 1, high \in 0 .. Len(keys), last \in 0 .. Len(keys) :
          s = [low |-> low, high |-> high, last |-> last]
    BY DEF Map!Searches
  <1>2. mid = (high + low) \div 2 /\ low <= high
    BY <1>1
  <1>3. mid \in 1 .. Len(keys) /\ low <= mid /\ mid <= high
    BY <1>2
  <1>4. mid - 1 \in 0 .. Len(keys) /\ mid + 1 \in 1 .. Len(keys) + 1
    BY <1>3
  <1> QED
    BY <1>1, <1>3, <1>4 DEF Map!Searches

\* Every turn leaves less to search, so there is a function that satisfies the
\* equation of the search: for every n one that does so where at most n places are
\* left.
LEMMA SearchExists ==
    ASSUME NEW keys \in Seq(Term), NEW key \in Term
    PROVE  \E f : f = Turns(keys, key, f)
  <1> DEFINE To(f, n) == \A s \in Map!Searches(keys) : s.high - s.low < n => f[s] = Turn(keys, key, f, s)
             bad == {n \in Nat : ~\E f : To(f, n)}
  <1>0. \A s \in Map!Searches(keys) : s.low \in 1 .. Len(keys) + 1 /\ s.high \in 0 .. Len(keys)
    BY DEF Map!Searches
  <1>1. ASSUME NEW n \in Nat, NEW f, n > 0 => To(f, n - 1)
        PROVE  To(Turns(keys, key, f), n)
    <2> DEFINE g == Turns(keys, key, f)
    <2> SUFFICES ASSUME NEW s \in Map!Searches(keys), s.high - s.low < n
                 PROVE  g[s] = Turn(keys, key, g, s)
      OBVIOUS
    <2>1. \A t \in Map!Searches(keys) : g[t] = Turn(keys, key, f, t)
      BY DEF Turns
    <2>2. PICK mid : mid = (s.high + s.low) \div 2
      OBVIOUS
    <2>3. CASE s.low > s.high
      <3>1. \A h : Turn(keys, key, h, s) = [found |-> FALSE, at |-> s.last]
        BY <2>3 DEF Turn
      <3> QED
        BY <2>1, <3>1
    <2>4. CASE ~(s.low > s.high)
      <3>1. PICK below \in Map!Searches(keys), above \in Map!Searches(keys) :
              /\ below = [low |-> s.low, high |-> mid - 1, last |-> mid]
              /\ above = [low |-> mid + 1, high |-> s.high, last |-> mid]
              /\ mid \in 1 .. Len(keys) /\ s.low <= mid /\ mid <= s.high
        <4>1. /\ [low |-> s.low, high |-> mid - 1, last |-> mid] \in Map!Searches(keys)
              /\ [low |-> mid + 1, high |-> s.high, last |-> mid] \in Map!Searches(keys)
              /\ mid \in 1 .. Len(keys) /\ s.low <= mid /\ mid <= s.high
          BY <2>2, <2>4, TurnShortens
        <4> QED
          BY <4>1
      <3>2. n > 0 /\ below.high - below.low < n - 1 /\ above.high - above.low < n - 1
        <4>1. PICK low \in Int, high \in Int : low = s.low /\ high = s.high
          BY <1>0
        <4>2. mid \in Int /\ low <= mid /\ mid <= high /\ high - low < n
          BY <3>1, <4>1
        <4>3. (mid - 1) - low < n - 1 /\ high - (mid + 1) < n - 1 /\ n > 0
          BY <4>2
        <4> QED
          BY <3>1, <4>1, <4>3
      <3>3. f[below] = Turn(keys, key, f, below) /\ f[above] = Turn(keys, key, f, above)
        BY <1>1, <3>2
      <3>4. g[below] = f[below] /\ g[above] = f[above]
        BY <2>1, <3>3
      <3>5. \A h : Turn(keys, key, h, s) =
                     IF key < keys[mid] THEN h[below]
                     ELSE IF key > keys[mid] THEN h[above]
                     ELSE [found |-> TRUE, at |-> mid]
        BY <2>2, <2>4, <3>1 DEF Turn
      <3> QED
        BY <2>1, <3>4, <3>5
    <2> QED
      BY <2>3, <2>4
  <1>2. bad = {}
    <2> SUFFICES ASSUME bad # {} PROVE FALSE
      OBVIOUS
    <2>1. PICK n \in bad : \A m \in bad : ~(m < n)
      <3>1. bad \in SUBSET Nat
        OBVIOUS
      <3> HIDE DEF bad
      <3> QED
        BY <3>1, LeastOf
    <2>2. n \in Nat /\ ~\E f : To(f, n)
      BY <2>1
    <2>3. n > 0 => n - 1 \in Nat /\ n - 1 \notin bad
      BY <2>1, <2>2
    <2>4. n > 0 => \E f : To(f, n - 1)
      BY <2>3
    <2>5. PICK f : n > 0 => To(f, n - 1)
      BY <2>4
    <2> HIDE DEF To
    <2> QED
      BY <1>1, <2>2, <2>5
  <1>3. PICK f : To(f, Len(keys) + 1)
    <2>1. Len(keys) + 1 \in Nat
      OBVIOUS
    <2> HIDE DEF To
    <2> QED
      BY <1>2, <2>1
  <1>4. \A s \in Map!Searches(keys) : f[s] = Turn(keys, key, f, s)
    <2> SUFFICES ASSUME NEW s \in Map!Searches(keys) PROVE f[s] = Turn(keys, key, f, s)
      OBVIOUS
    <2>1. s.high - s.low < Len(keys) + 1
      <3>1. PICK low \in 1 .. Len(keys) + 1, high \in 0 .. Len(keys) : low = s.low /\ high = s.high
        BY <1>0
      <3>2. high - low < Len(keys) + 1
        OBVIOUS
      <3> QED
        BY <3>1, <3>2
    <2> QED
      BY <1>3, <2>1
  <1>5. PICK g : g = Turns(keys, key, f)
    OBVIOUS
  <1>6. \A s \in Map!Searches(keys) : g[s] = f[s]
    BY <1>4, <1>5 DEF Turns
  <1>7. \A s \in Map!Searches(keys) : Turn(keys, key, g, s) = Turn(keys, key, f, s)
    <2> SUFFICES ASSUME NEW s \in Map!Searches(keys)
                 PROVE  Turn(keys, key, g, s) = Turn(keys, key, f, s)
      OBVIOUS
    <2>1. CASE s.low > s.high
      BY <2>1 DEF Turn
    <2>2. CASE ~(s.low > s.high)
      <3>1. PICK mid : mid = (s.high + s.low) \div 2
        OBVIOUS
      <3>2. /\ [low |-> s.low, high |-> mid - 1, last |-> mid] \in Map!Searches(keys)
            /\ [low |-> mid + 1, high |-> s.high, last |-> mid] \in Map!Searches(keys)
        BY <2>2, <3>1, TurnShortens
      <3> QED
        BY <1>6, <2>2, <3>1, <3>2 DEF Turn
    <2> QED
      BY <2>1, <2>2
  <1>8. Turns(keys, key, f) = Turns(keys, key, g)
    BY <1>7 DEF Turns
  <1> QED
    BY <1>5, <1>8

\* A recursive function is what its equation says once some function satisfies it.
LEMMA SearchIsFunction ==
    ASSUME NEW keys, NEW key, NEW f, f = Turns(keys, key, f)
    PROVE  \E g : /\ Map!KeyIndex(keys, key) = g[[low |-> 1, high |-> Len(keys), last |-> 0]]
                  /\ g = Turns(keys, key, g)
  <1> DEFINE g == CHOOSE g : g = Turns(keys, key, g)
  <1>1. g = Turns(keys, key, g)
    OBVIOUS
  <1>2. Map!KeyIndex(keys, key) = g[[low |-> 1, high |-> Len(keys), last |-> 0]]
    BY DEF Map!KeyIndex, Turns, Turn
  <1> QED
    BY <1>1, <1>2

Ascending(keys) == \A x, y \in 1 .. Len(keys) : x < y => keys[x] < keys[y]

\* What is left to search has the key, if it is anywhere, and the place last looked
\* at is at one of its ends
Narrows(keys, key, s) ==
    /\ \A x \in 1 .. Len(keys) : x < s.low => keys[x] < key
    /\ \A x \in 1 .. Len(keys) : s.high < x => key < keys[x]
    /\ s.low <= s.high + 1
    /\ s.last = 0 \/ s.last = s.low - 1 \/ s.last = s.high + 1

\* An answer r of key_index, whatever the order of the keys
Finds(keys, key, r) ==
    /\ r.found \in BOOLEAN /\ r.at \in 0 .. Len(keys)
    /\ r.found => r.at # 0 /\ keys[r.at] = key

\* An answer r when the keys ascend: a key not found is nowhere, and if the place
\* last looked at has a greater key, the key belongs in front of it
FindsAll(keys, key, r) ==
    ~r.found => /\ \A x \in 1 .. Len(keys) : keys[x] # key
                /\ r.at # 0 /\ key < keys[r.at] =>
                     \A x \in 1 .. Len(keys) : x < r.at => keys[x] < key

SearchResult(keys, key, s, r) ==
    /\ Finds(keys, key, r)
    /\ s.low <= s.high \/ s.last # 0 => r.at # 0
    /\ Ascending(keys) /\ Narrows(keys, key, s) => FindsAll(keys, key, r)

\* Keys that enif_compare orders are numbers here.
LEMMA KeysAreNumbers ==
    ASSUME NEW keys \in Seq(Term), NEW key \in Term
    PROVE  /\ Term \subseteq Int
           /\ Len(keys) \in Nat /\ \A x \in 1 .. Len(keys) : keys[x] \in Int
           /\ key \in Int
  <1>1. Term \subseteq Int
    BY SortedMapAssumption DEF Map!FlatMapConstants
  <1>2. \A x \in 1 .. Len(keys) : keys[x] \in Term
    OBVIOUS
  <1>3. Len(keys) \in Nat
    OBVIOUS
  <1>4. key \in Int
    BY <1>1
  <1> QED
    BY <1>1, <1>2, <1>3, <1>4, Zenon

\* A turn of the search answers what is expected when the rest of it does.
LEMMA TurnFinds ==
    ASSUME NEW keys \in Seq(Term), NEW key \in Term, NEW f, NEW s \in Map!Searches(keys),
           \A t \in Map!Searches(keys) :
             t.high - t.low < s.high - s.low => SearchResult(keys, key, t, f[t])
    PROVE  SearchResult(keys, key, s, Turn(keys, key, f, s))
  <1>0. /\ Term \subseteq Int
        /\ Len(keys) \in Nat /\ \A x \in 1 .. Len(keys) : keys[x] \in Int
        /\ key \in Int
    BY KeysAreNumbers
  <1>1. PICK low \in 1 .. Len(keys) + 1, high \in 0 .. Len(keys), last \in 0 .. Len(keys) :
          low = s.low /\ high = s.high /\ last = s.last
    BY DEF Map!Searches
  <1>2. CASE low > high
    <2>1. Turn(keys, key, f, s) = [found |-> FALSE, at |-> last]
      BY <1>1, <1>2 DEF Turn
    <2>2. PICK r : r = Turn(keys, key, f, s) /\ r.found = FALSE /\ r.at = last
      BY <2>1
    <2>3. Finds(keys, key, r)
      BY <2>2 DEF Finds
    <2>4. ASSUME Narrows(keys, key, s) PROVE FindsAll(keys, key, r)
      <3>1. low = high + 1
        BY <1>1, <1>2, <2>4 DEF Narrows
      <3>2. \A x \in 1 .. Len(keys) : (x < low => keys[x] < key) /\ (high < x => key < keys[x])
        BY <1>1, <2>4 DEF Narrows
      <3>3. \A x \in 1 .. Len(keys) : keys[x] # key
        <4> SUFFICES ASSUME NEW x \in 1 .. Len(keys) PROVE keys[x] # key
          OBVIOUS
        <4>1. x < low \/ high < x
          BY <3>1
        <4>2. keys[x] < key \/ key < keys[x]
          BY <3>2, <4>1
        <4>3. PICK y \in Int, k \in Int : y = keys[x] /\ k = key
          BY <1>0
        <4>4. y < k \/ k < y
          BY <4>2, <4>3
        <4> QED
          BY <4>3, <4>4
      <3>4. ASSUME last # 0, key < keys[last], NEW x \in 1 .. Len(keys), x < last
            PROVE  keys[x] < key
        <4>1. last = low - 1 \/ last = high + 1
          BY <1>1, <2>4, <3>4 DEF Narrows
        <4>2. last \in 1 .. Len(keys)
          BY <3>4
        <4>3. ~(last < low)
          BY <1>0, <3>2, <3>4, <4>2
        <4>4. x < low
          BY <3>1, <3>4, <4>1, <4>3
        <4> QED
          BY <3>2, <4>4
      <3> QED
        BY <2>2, <3>3, <3>4 DEF FindsAll
    <2> QED
      BY <1>1, <1>2, <2>2, <2>3, <2>4 DEF SearchResult
  <1>3. CASE ~(low > high)
    <2>1. PICK mid : mid = (s.high + s.low) \div 2
      OBVIOUS
    <2>2. /\ [low |-> s.low, high |-> mid - 1, last |-> mid] \in Map!Searches(keys)
          /\ [low |-> mid + 1, high |-> s.high, last |-> mid] \in Map!Searches(keys)
          /\ mid \in 1 .. Len(keys) /\ low <= mid /\ mid <= high
      BY <1>1, <1>3, <2>1, TurnShortens
    <2>3. CASE key < keys[mid]
      <3>1. PICK t \in Map!Searches(keys) : t = [low |-> s.low, high |-> mid - 1, last |-> mid]
        BY <2>2
      <3>2. t.low = low /\ t.high = mid - 1 /\ t.last = mid
        BY <1>1, <3>1
      <3>3. Turn(keys, key, f, s) = f[t]
        BY <1>1, <1>3, <2>1, <2>3, <3>1 DEF Turn
      <3>4. (mid - 1) - low < high - low
        BY <2>2
      <3>5. SearchResult(keys, key, t, f[t])
        BY <1>1, <3>2, <3>4
      <3>6. ASSUME Ascending(keys), Narrows(keys, key, s) PROVE Narrows(keys, key, t)
        <4>1. \A x \in 1 .. Len(keys) : x < low => keys[x] < key
          BY <1>1, <3>6 DEF Narrows
        <4>2. \A x \in 1 .. Len(keys) : mid - 1 < x => key < keys[x]
          <5> SUFFICES ASSUME NEW x \in 1 .. Len(keys), mid - 1 < x PROVE key < keys[x]
            OBVIOUS
          <5>1. PICK a \in Int, b \in Int, c \in Int : a = key /\ b = keys[mid] /\ c = keys[x]
            BY <1>0, <2>2
          <5>2. x = mid \/ mid < x
            BY <2>2
          <5>3. mid < x => b < c
            BY <2>2, <3>6, <5>1 DEF Ascending
          <5>4. a < b
            BY <2>3, <5>1
          <5>5. mid < x => a < c
            BY <5>3, <5>4
          <5> QED
            BY <2>3, <5>1, <5>2, <5>5
        <4>3. low <= (mid - 1) + 1 /\ mid = (mid - 1) + 1
          BY <2>2
        <4> QED
          BY <3>2, <4>1, <4>2, <4>3 DEF Narrows
      <3>7. t.last # 0
        BY <2>2, <3>2
      <3> QED
        BY <3>3, <3>5, <3>6, <3>7 DEF SearchResult
    <2>4. CASE key > keys[mid]
      <3>1. PICK t \in Map!Searches(keys) : t = [low |-> mid + 1, high |-> s.high, last |-> mid]
        BY <2>2
      <3>2. t.low = mid + 1 /\ t.high = high /\ t.last = mid
        BY <1>1, <3>1
      <3>3. Turn(keys, key, f, s) = f[t]
        <4>1. ~(key < keys[mid])
          BY <1>0, <2>2, <2>4
        <4> QED
          BY <1>1, <1>3, <2>1, <2>4, <3>1, <4>1 DEF Turn
      <3>4. high - (mid + 1) < high - low
        BY <2>2
      <3>5. SearchResult(keys, key, t, f[t])
        BY <1>1, <3>2, <3>4
      <3>6. ASSUME Ascending(keys), Narrows(keys, key, s) PROVE Narrows(keys, key, t)
        <4>1. \A x \in 1 .. Len(keys) : high < x => key < keys[x]
          BY <1>1, <3>6 DEF Narrows
        <4>2. \A x \in 1 .. Len(keys) : x < mid + 1 => keys[x] < key
          <5> SUFFICES ASSUME NEW x \in 1 .. Len(keys), x < mid + 1 PROVE keys[x] < key
            OBVIOUS
          <5>1. PICK a \in Int, b \in Int, c \in Int : a = key /\ b = keys[mid] /\ c = keys[x]
            BY <1>0, <2>2
          <5>2. x = mid \/ x < mid
            BY <2>2
          <5>3. x < mid => c < b
            BY <2>2, <3>6, <5>1 DEF Ascending
          <5>4. b < a
            BY <2>4, <5>1
          <5>5. x < mid => c < a
            BY <5>3, <5>4
          <5> QED
            BY <5>1, <5>2, <5>4, <5>5
        <4>3. mid + 1 <= high + 1 /\ mid = (mid + 1) - 1
          BY <2>2
        <4> QED
          BY <3>2, <4>1, <4>2, <4>3 DEF Narrows
      <3>7. t.last # 0
        BY <2>2, <3>2
      <3> QED
        BY <3>3, <3>5, <3>6, <3>7 DEF SearchResult
    <2>5. CASE ~(key < keys[mid]) /\ ~(key > keys[mid])
      <3>1. keys[mid] = key
        BY <1>0, <2>2, <2>5
      <3>2. Turn(keys, key, f, s) = [found |-> TRUE, at |-> mid]
        BY <1>1, <1>3, <2>1, <2>5 DEF Turn
      <3>3. PICK r : r = Turn(keys, key, f, s) /\ r.found = TRUE /\ r.at = mid
        BY <3>2
      <3>4. r.at \in 0 .. Len(keys) /\ r.at # 0 /\ keys[r.at] = key
        BY <2>2, <3>1, <3>3
      <3>5. Finds(keys, key, r) /\ FindsAll(keys, key, r)
        BY <3>3, <3>4, Zenon DEF Finds, FindsAll
      <3> QED
        BY <3>3, <3>4, <3>5, Zenon DEF SearchResult
    <2> QED
      BY <2>3, <2>4, <2>5
  <1> QED
    BY <1>2, <1>3

\* What key_index answers: a place of the key, or the place last looked at, which
\* there is one of unless there are no keys; and all of it when the keys ascend.
LEMMA KeyIndexFinds ==
    ASSUME NEW keys \in Seq(Term), NEW key \in Term
    PROVE  /\ Finds(keys, key, Map!KeyIndex(keys, key))
           /\ Len(keys) # 0 => Map!KeyIndex(keys, key).at # 0
           /\ Ascending(keys) => FindsAll(keys, key, Map!KeyIndex(keys, key))
  <1>1. PICK g : /\ Map!KeyIndex(keys, key) = g[[low |-> 1, high |-> Len(keys), last |-> 0]]
                 /\ g = Turns(keys, key, g)
    BY SearchExists, SearchIsFunction
  <1>2. \A s \in Map!Searches(keys) : g[s] = Turn(keys, key, g, s)
    <2>1. \A s \in Map!Searches(keys) : Turns(keys, key, g)[s] = Turn(keys, key, g, s)
      BY DEF Turns
    <2> QED
      BY <1>1, <2>1
  <1>3. \A s \in Map!Searches(keys) : s.low \in 1 .. Len(keys) + 1 /\ s.high \in 0 .. Len(keys)
    BY DEF Map!Searches
  <1> DEFINE bad == {n \in Nat : \E s \in Map!Searches(keys) :
                       /\ n = s.high - s.low + Len(keys) + 1
                       /\ ~SearchResult(keys, key, s, g[s])}
  <1>4. \A s \in Map!Searches(keys) : s.high - s.low + Len(keys) + 1 \in Nat
    <2> SUFFICES ASSUME NEW s \in Map!Searches(keys)
                 PROVE  s.high - s.low + Len(keys) + 1 \in Nat
      OBVIOUS
    <2>1. PICK low \in 1 .. Len(keys) + 1, high \in 0 .. Len(keys) : low = s.low /\ high = s.high
      BY <1>3
    <2>2. high - low + Len(keys) + 1 \in Nat
      OBVIOUS
    <2> QED
      BY <2>1, <2>2
  <1>5. bad = {}
    <2> SUFFICES ASSUME bad # {} PROVE FALSE
      OBVIOUS
    <2>1. PICK n \in bad : \A m \in bad : ~(m < n)
      <3>1. bad \in SUBSET Nat
        OBVIOUS
      <3> HIDE DEF bad
      <3> QED
        BY <3>1, LeastOf
    <2>2. PICK s \in Map!Searches(keys) : /\ n = s.high - s.low + Len(keys) + 1
                                          /\ ~SearchResult(keys, key, s, g[s])
      BY <2>1
    <2>3. ASSUME NEW t \in Map!Searches(keys), t.high - t.low < s.high - s.low
          PROVE  SearchResult(keys, key, t, g[t])
      <3>1. PICK m \in Nat : m = t.high - t.low + Len(keys) + 1
        <4>1. t.high - t.low + Len(keys) + 1 \in Nat
          BY <1>4
        <4> QED
          BY <4>1, Zenon
      <3>2. m < n
        <4>0. s.low \in Int /\ s.high \in Int /\ t.low \in Int /\ t.high \in Int
          <5>1. \A u \in Map!Searches(keys) : u.low \in Int /\ u.high \in Int
            BY DEF Map!Searches
          <5> QED
            BY <5>1
        <4>1. PICK sl \in Int, sh \in Int, tl \in Int, th \in Int :
                sl = s.low /\ sh = s.high /\ tl = t.low /\ th = t.high
          BY <4>0, Zenon
        <4>2. th - tl < sh - sl /\ m = th - tl + Len(keys) + 1 /\ n = sh - sl + Len(keys) + 1
          BY <2>2, <2>3, <3>1, <4>1
        <4> QED
          BY <4>2
      <3>3. m \notin bad
        BY <2>1, <3>2
      <3> QED
        BY <3>1, <3>3
    <2>4. SearchResult(keys, key, s, Turn(keys, key, g, s))
      BY <2>3, TurnFinds
    <2> QED
      BY <1>2, <2>2, <2>4
  <1>6. PICK s : s = [low |-> 1, high |-> Len(keys), last |-> 0]
    OBVIOUS
  <1>7. s \in Map!Searches(keys) /\ s.low = 1 /\ s.high = Len(keys) /\ s.last = 0
    BY <1>6 DEF Map!Searches
  <1>8. SearchResult(keys, key, s, g[s])
    BY <1>4, <1>5, <1>7
  <1>9. Narrows(keys, key, s)
    BY <1>7 DEF Narrows
  <1>10. Len(keys) # 0 => s.low <= s.high
    BY <1>7
  <1> QED
    BY <1>1, <1>6, <1>8, <1>9, <1>10 DEF SearchResult

-----------------------------------------------------------------------------
\* Every key has a value beside it
Beside(keys, vals) == Len(keys) = Len(vals)

\* The value w is beside the key x
Held(keys, vals, x, w) == \E y \in 1 .. Len(keys) : keys[y] = x /\ vals[y] = w

\* Every key but k has the values it had
SameBut(k, keys2, vals2, keys, vals) ==
    \A x, w : x # k => (Held(keys2, vals2, x, w) <=> Held(keys, vals, x, w))

\* The key k has the value v and no other
HasOnly(k, v, keys, vals) == \A w : Held(keys, vals, k, w) <=> w = v

IsGone(k, keys, vals) == \A w : ~Held(keys, vals, k, w)

\* A pair put in the same place of keys and values: no other is moved apart.
LEMMA InsertHolds ==
    ASSUME NEW keys \in Seq(Term), NEW vals \in Seq(MapValue), Beside(keys, vals),
           NEW p, p \in 1 .. Len(keys), NEW k \in Term, NEW v \in MapValue
    PROVE  \E keys2 \in Seq(Term), vals2 \in Seq(MapValue) :
             /\ keys2 = Map!InsertAt(keys, p, k) /\ vals2 = Map!InsertAt(vals, p, v)
             /\ Beside(keys2, vals2) /\ Len(keys2) = Len(keys) + 1
             /\ \A x, w : Held(keys2, vals2, x, w) <=> Held(keys, vals, x, w) \/ (x = k /\ w = v)
  <1>0. p \in 1 .. Len(vals)
    BY DEF Beside
  <1>1. PICK vals2 \in Seq(MapValue) :
          /\ vals2 = Map!InsertAt(vals, p, v) /\ Len(vals2) = Len(vals) + 1 /\ vals2[p] = v
          /\ \A x \in 1 .. p - 1 : vals2[x] = vals[x]
          /\ \A x \in p + 1 .. Len(vals) + 1 : vals2[x] = vals[x - 1]
    <2>1. \E t \in Seq(MapValue) : IsInserted(t, vals, p, v)
      BY <1>0, Inserted
    <2> QED
      BY <2>1 DEF IsInserted
  <1>2. PICK keys2 \in Seq(Term) :
          /\ keys2 = Map!InsertAt(keys, p, k) /\ Len(keys2) = Len(keys) + 1 /\ keys2[p] = k
          /\ \A x \in 1 .. p - 1 : keys2[x] = keys[x]
          /\ \A x \in p + 1 .. Len(keys) + 1 : keys2[x] = keys[x - 1]
    <2>1. \E t \in Seq(Term) : IsInserted(t, keys, p, k)
      BY Inserted
    <2> QED
      BY <2>1 DEF IsInserted
  <1>7. Len(vals) = Len(keys)
    BY DEF Beside
  <1>3. ASSUME NEW x, NEW w, NEW y \in 1 .. Len(keys2), keys2[y] = x, vals2[y] = w
        PROVE  Held(keys, vals, x, w) \/ (x = k /\ w = v)
    <2>1. CASE y < p
      <3>1. y \in 1 .. Len(keys) /\ y \in 1 .. p - 1
        BY <2>1
      <3> QED
        BY <1>2, <1>1, <1>3, <1>7, <3>1 DEF Held
    <2>2. CASE y = p
      BY <1>2, <1>1, <1>3, <1>7, <2>2
    <2>3. CASE y > p
      <3>1. y - 1 \in 1 .. Len(keys) /\ y \in p + 1 .. Len(keys) + 1
        BY <1>2, <2>3
      <3> QED
        BY <1>2, <1>1, <1>3, <1>7, <3>1 DEF Held
    <2> QED
      BY <1>2, <2>1, <2>2, <2>3
  <1>4. ASSUME NEW x, NEW w, NEW y \in 1 .. Len(keys), keys[y] = x, vals[y] = w
        PROVE  Held(keys2, vals2, x, w)
    <2>1. CASE y < p
      <3>1. y \in 1 .. Len(keys2) /\ y \in 1 .. p - 1
        BY <1>2, <2>1
      <3> QED
        BY <1>2, <1>1, <1>4, <1>7, <3>1 DEF Held
    <2>2. CASE y >= p
      <3>1. y + 1 \in 1 .. Len(keys2) /\ y + 1 \in p + 1 .. Len(keys) + 1 /\ (y + 1) - 1 = y
        BY <1>2, <2>2
      <3>2. keys2[y + 1] = x /\ vals2[y + 1] = w
        BY <1>2, <1>1, <1>4, <1>7, <3>1
      <3> QED
        BY <3>1, <3>2 DEF Held
    <2> QED
      BY <2>1, <2>2
  <1>5. Held(keys2, vals2, k, v)
    <2>1. p \in 1 .. Len(keys2)
      BY <1>2
    <2> QED
      BY <1>2, <1>1, <2>1 DEF Held
  <1>6. ASSUME NEW x, NEW w
        PROVE  Held(keys2, vals2, x, w) <=> Held(keys, vals, x, w) \/ (x = k /\ w = v)
    <2>1. Held(keys2, vals2, x, w) => Held(keys, vals, x, w) \/ (x = k /\ w = v)
      <3> SUFFICES ASSUME NEW y \in 1 .. Len(keys2), keys2[y] = x, vals2[y] = w
                   PROVE  Held(keys, vals, x, w) \/ (x = k /\ w = v)
        BY DEF Held
      <3> QED
        BY <1>3
    <2>2. Held(keys, vals, x, w) => Held(keys2, vals2, x, w)
      <3> SUFFICES ASSUME NEW y \in 1 .. Len(keys), keys[y] = x, vals[y] = w
                   PROVE  Held(keys2, vals2, x, w)
        BY DEF Held
      <3> QED
        BY <1>4
    <2> QED
      BY <1>5, <2>1, <2>2
  <1> QED
    BY <1>2, <1>1, <1>6 DEF Beside

\* A key put in front of a greater one, and behind none, leaves the keys ascending.
LEMMA InsertAscends ==
    ASSUME NEW keys \in Seq(Term), Ascending(keys),
           NEW p \in 1 .. Len(keys), NEW k \in Term, k < keys[p],
           \A x \in 1 .. Len(keys) : x < p => keys[x] < k
    PROVE  Ascending(Map!InsertAt(keys, p, k))
  <1>1. PICK keys2 \in Seq(Term) :
          /\ keys2 = Map!InsertAt(keys, p, k)
          /\ Len(keys2) = Len(keys) + 1 /\ keys2[p] = k
          /\ \A x \in 1 .. p - 1 : keys2[x] = keys[x]
          /\ \A x \in p + 1 .. Len(keys) + 1 : keys2[x] = keys[x - 1]
    <2>1. \E t \in Seq(Term) : IsInserted(t, keys, p, k)
      BY Inserted
    <2> QED
      BY <2>1 DEF IsInserted
  <1>2. \A x \in 1 .. Len(keys) : keys[x] \in Int
    BY KeysAreNumbers
  <1>3. k \in Int
    BY KeysAreNumbers
  <1>4. \A x \in 1 .. Len(keys) : p <= x => k < keys[x]
    <2> SUFFICES ASSUME NEW x \in 1 .. Len(keys), p <= x PROVE k < keys[x]
      OBVIOUS
    <2>1. p # x => keys[p] < keys[x]
      BY DEF Ascending
    <2> QED
      BY <1>2, <1>3, <2>1
  <1> SUFFICES ASSUME NEW x \in 1 .. Len(keys) + 1, NEW y \in 1 .. Len(keys) + 1, x < y
               PROVE  keys2[x] < keys2[y]
    BY <1>1 DEF Ascending
  <1>5. CASE y < p
    <2>1. x \in 1 .. p - 1 /\ y \in 1 .. p - 1 /\ x \in 1 .. Len(keys) /\ y \in 1 .. Len(keys)
      BY <1>5
    <2> QED
      BY <1>1, <2>1 DEF Ascending
  <1>6. CASE y = p
    <2>1. x \in 1 .. p - 1 /\ x \in 1 .. Len(keys)
      BY <1>6
    <2> QED
      BY <1>1, <1>6, <2>1
  <1>7. CASE y > p
    <2>1. y \in p + 1 .. Len(keys) + 1 /\ y - 1 \in 1 .. Len(keys) /\ p <= y - 1
      BY <1>7
    <2>2. keys2[y] = keys[y - 1] /\ k < keys[y - 1]
      BY <1>1, <1>4, <2>1
    <2>3. CASE x < p
      <3>1. x \in 1 .. p - 1 /\ x \in 1 .. Len(keys) /\ x < y - 1
        BY <1>7, <2>3
      <3> QED
        BY <1>1, <2>1, <2>2, <3>1 DEF Ascending
    <2>4. CASE x = p
      BY <1>1, <2>2, <2>4
    <2>5. CASE x > p
      <3>1. x \in p + 1 .. Len(keys) + 1 /\ x - 1 \in 1 .. Len(keys) /\ x - 1 < y - 1
        BY <2>5
      <3> QED
        BY <1>1, <2>1, <2>2, <3>1 DEF Ascending
    <2> QED
      BY <2>3, <2>4, <2>5
  <1> QED
    BY <1>5, <1>6, <1>7

\* A pair taken out of the same place of both: no other is moved apart, and where the
\* keys ascend they still do, and the key is gone.
LEMMA RemoveHolds ==
    ASSUME NEW keys \in Seq(Term), NEW vals \in Seq(MapValue), Beside(keys, vals),
           NEW p \in 1 .. Len(keys)
    PROVE  \E keys2 \in Seq(Term), vals2 \in Seq(MapValue) :
             /\ keys2 = Map!RemoveAt(keys, p) /\ vals2 = Map!RemoveAt(vals, p)
             /\ Beside(keys2, vals2) /\ Len(keys2) = Len(keys) - 1
             /\ SameBut(keys[p], keys2, vals2, keys, vals)
             /\ Ascending(keys) => Ascending(keys2) /\ IsGone(keys[p], keys2, vals2)
  <1>0. p \in 1 .. Len(vals)
    BY DEF Beside
  <1>1. PICK keys2 \in Seq(Term) :
          /\ keys2 = Map!RemoveAt(keys, p) /\ Len(keys2) = Len(keys) - 1
          /\ \A x \in 1 .. p - 1 : keys2[x] = keys[x]
          /\ \A x \in p .. Len(keys) - 1 : keys2[x] = keys[x + 1]
    <2>1. \E t \in Seq(Term) : IsRemoved(t, keys, p)
      BY Removed
    <2> QED
      BY <2>1 DEF IsRemoved
  <1>2. PICK vals2 \in Seq(MapValue) :
          /\ vals2 = Map!RemoveAt(vals, p) /\ Len(vals2) = Len(vals) - 1
          /\ \A x \in 1 .. p - 1 : vals2[x] = vals[x]
          /\ \A x \in p .. Len(vals) - 1 : vals2[x] = vals[x + 1]
    <2>1. \E t \in Seq(MapValue) : IsRemoved(t, vals, p)
      BY <1>0, Removed
    <2> QED
      BY <2>1 DEF IsRemoved
  <1>8. Len(vals) = Len(keys)
    BY DEF Beside
  <1>3. \A y \in 1 .. Len(keys2) :
          \/ y \in 1 .. p - 1 /\ y \in 1 .. Len(keys)
          \/ y \in p .. Len(keys) - 1 /\ y + 1 \in 1 .. Len(keys)
    BY <1>1
  <1>4. ASSUME NEW x, NEW w, NEW y \in 1 .. Len(keys2), keys2[y] = x, vals2[y] = w
        PROVE  Held(keys, vals, x, w)
    <2>1. CASE y \in 1 .. p - 1 /\ y \in 1 .. Len(keys)
      BY <1>1, <1>2, <1>4, <1>8, <2>1 DEF Held
    <2>2. CASE y \in p .. Len(keys) - 1 /\ y + 1 \in 1 .. Len(keys)
      BY <1>1, <1>2, <1>4, <1>8, <2>2 DEF Held
    <2> QED
      BY <1>3, <2>1, <2>2
  <1>5. ASSUME NEW x, NEW w, x # keys[p], NEW y \in 1 .. Len(keys), keys[y] = x, vals[y] = w
        PROVE  Held(keys2, vals2, x, w)
    <2>1. y # p
      BY <1>5
    <2>2. CASE y < p
      <3>1. y \in 1 .. p - 1 /\ y \in 1 .. Len(keys2)
        BY <1>1, <2>2
      <3> QED
        BY <1>1, <1>2, <1>5, <1>8, <3>1 DEF Held
    <2>3. CASE y > p
      <3>1. y - 1 \in p .. Len(keys) - 1 /\ y - 1 \in 1 .. Len(keys2) /\ (y - 1) + 1 = y
        BY <1>1, <2>3
      <3>2. keys2[y - 1] = x /\ vals2[y - 1] = w
        BY <1>1, <1>2, <1>5, <1>8, <3>1
      <3> QED
        BY <3>1, <3>2 DEF Held
    <2> QED
      BY <2>1, <2>2, <2>3
  <1>6. ASSUME Ascending(keys)
        PROVE  Ascending(keys2) /\ \A w : ~Held(keys2, vals2, keys[p], w)
    <2> DEFINE old(y) == IF y < p THEN y ELSE y + 1
    <2>1. ASSUME NEW y \in 1 .. Len(keys2)
          PROVE  /\ old(y) \in 1 .. Len(keys) /\ keys2[y] = keys[old(y)]
                 /\ old(y) # p
      <3>1. CASE y \in 1 .. p - 1
        <4>1. old(y) = y /\ y # p /\ y \in 1 .. Len(keys)
          BY <1>3, <3>1
        <4> QED
          BY <1>1, <3>1, <4>1
      <3>2. CASE y \in p .. Len(keys) - 1
        <4>1. old(y) = y + 1 /\ y + 1 # p /\ y + 1 \in 1 .. Len(keys)
          BY <3>2
        <4> QED
          BY <1>1, <3>2, <4>1
      <3> QED
        BY <1>3, <3>1, <3>2
    <2>2. \A y, z \in 1 .. Len(keys2) : y < z => old(y) < old(z)
      BY <1>1
    <2> HIDE DEF old
    <2>3. Ascending(keys2)
      BY <1>6, <2>1, <2>2 DEF Ascending
    <2>4. \A y \in 1 .. Len(keys) : y # p => keys[y] # keys[p]
      <3> SUFFICES ASSUME NEW y \in 1 .. Len(keys), y # p PROVE keys[y] # keys[p]
        OBVIOUS
      <3>1. keys[y] < keys[p] \/ keys[p] < keys[y]
        BY <1>6 DEF Ascending
      <3>2. keys[y] \in Int /\ keys[p] \in Int
        BY KeysAreNumbers
      <3> QED
        BY <3>1, <3>2
    <2> QED
      BY <2>1, <2>3, <2>4 DEF Held
  <1>7. ASSUME NEW x, NEW w, x # keys[p]
        PROVE  Held(keys2, vals2, x, w) <=> Held(keys, vals, x, w)
    <2>1. Held(keys2, vals2, x, w) => Held(keys, vals, x, w)
      <3> SUFFICES ASSUME NEW y \in 1 .. Len(keys2), keys2[y] = x, vals2[y] = w
                   PROVE  Held(keys, vals, x, w)
        BY DEF Held
      <3> QED
        BY <1>4
    <2>2. Held(keys, vals, x, w) => Held(keys2, vals2, x, w)
      <3> SUFFICES ASSUME NEW y \in 1 .. Len(keys), keys[y] = x, vals[y] = w
                   PROVE  Held(keys2, vals2, x, w)
        BY DEF Held
      <3> QED
        BY <1>5, <1>7
    <2> QED
      BY <2>1, <2>2
  <1> QED
    BY <1>1, <1>2, <1>6, <1>7 DEF Beside, SameBut, IsGone

\* A value put in the place of a key: no other key has another value.
LEMMA ReplaceHolds ==
    ASSUME NEW keys \in Seq(Term), NEW vals \in Seq(MapValue), Beside(keys, vals),
           NEW p \in 1 .. Len(keys), NEW v \in MapValue
    PROVE  \E vals2 \in Seq(MapValue) :
             /\ vals2 = [vals EXCEPT ![p] = v] /\ Beside(keys, vals2)
             /\ SameBut(keys[p], keys, vals2, keys, vals)
             /\ Ascending(keys) => HasOnly(keys[p], v, keys, vals2)
  <1>0. PICK vals2 : vals2 = [vals EXCEPT ![p] = v]
    OBVIOUS
  <1>1. /\ vals2 \in Seq(MapValue) /\ Len(vals2) = Len(vals) /\ vals2[p] = v
        /\ \A x \in 1 .. Len(keys) : x # p => vals2[x] = vals[x]
    BY <1>0 DEF Beside
  <1>2. SameBut(keys[p], keys, vals2, keys, vals)
    BY <1>1 DEF Held, SameBut
  <1>3. ASSUME Ascending(keys) PROVE HasOnly(keys[p], v, keys, vals2)
    <2>1. \A y \in 1 .. Len(keys) : y # p => keys[y] # keys[p]
      <3> SUFFICES ASSUME NEW y \in 1 .. Len(keys), y # p PROVE keys[y] # keys[p]
        OBVIOUS
      <3>1. keys[y] < keys[p] \/ keys[p] < keys[y]
        BY <1>3 DEF Ascending
      <3>2. keys[y] \in Int /\ keys[p] \in Int
        BY KeysAreNumbers
      <3> QED
        BY <3>1, <3>2
    <2> QED
      BY <1>1, <2>1 DEF Held, HasOnly
  <1>4. Beside(keys, vals2)
    BY <1>1 DEF Beside
  <1> QED
    BY <1>0, <1>1, <1>2, <1>3, <1>4

-----------------------------------------------------------------------------
\* The map of some keys and the values beside them
MapOf(keys, vals) == [size |-> Len(keys), keys |-> Map!Tuple(keys), value |-> vals]

\* The pairs are those of ent
Records(keys, vals, ent) == \A x, w : Held(keys, vals, x, w) <=> x \in DOMAIN ent /\ w = ent[x]

\* The arity of the tuple, the number of values and the size are the same; and while
\* no key was inserted behind a greater one, the keys ascend and the pairs are those
\* a caller put in.
MapInv ==
    /\ map.size \in Nat
    /\ Map!Usable => \E keys \in Seq(Term), vals \in Seq(MapValue) :
                       /\ Beside(keys, vals) /\ map = MapOf(keys, vals)
                       /\ ~misplaced => Ascending(keys) /\ Records(keys, vals, entries)

\* Every place an iterator has passed was visited
IterInv ==
    /\ iter \in [size : Nat, idx : Nat, entry : {"none", "first", "last"}]
    /\ iter.idx <= iter.size + 1
    /\ visited \subseteq 1 .. iter.size
    /\ iter.entry = "first" => \A p \in 1 .. iter.size : p <= iter.idx => p \in visited
    /\ iter.entry = "last" => \A p \in 1 .. iter.size : p >= iter.idx => p \in visited
    /\ iter # Map!NoIter /\ visited # {} => (ret = 1 <=> Map!HasPair)

\* Until a map is made nothing is known but the sort; afterwards the sort is over
MapsIInv ==
    /\ IF map = Map!NoMap THEN OrderIInv /\ iter = Map!NoIter ELSE pc = "done"
    /\ MapInv
    /\ IterInv

\* What the map is that is made of keys and values.
LEMMA MapOfParts ==
    ASSUME NEW keys, NEW vals
    PROVE  /\ MapOf(keys, vals).size = Len(keys) /\ MapOf(keys, vals).value = vals
           /\ MapOf(keys, vals).keys.elem = keys
           /\ Map!IsTuple(MapOf(keys, vals).keys)
           /\ MapOf(keys, vals) # Map!NoMap
  BY DEF MapOf, Map!Tuple, Map!IsTuple, Map!NoMap

LEMMA NotMade == map = Map!NoMap => ~Map!Usable
  BY DEF Map!NoMap, Map!Usable, Map!IsTuple

\* What the search in a map that can be searched answers.
LEMMA Looks ==
    ASSUME MapInv, Map!Usable, NEW k \in Term
    PROVE  \E keys \in Seq(Term), vals \in Seq(MapValue) :
             /\ Beside(keys, vals) /\ map = MapOf(keys, vals)
             /\ ~misplaced => Ascending(keys) /\ Records(keys, vals, entries)
             /\ map.keys.elem = keys /\ map.value = vals /\ map.size = Len(keys)
             /\ Map!At(k) = Map!KeyIndex(keys, k)
             /\ Finds(keys, k, Map!At(k))
             /\ Len(keys) # 0 => Map!At(k).at # 0
             /\ ~misplaced => FindsAll(keys, k, Map!At(k))
  <1>1. PICK keys \in Seq(Term), vals \in Seq(MapValue) :
          /\ Beside(keys, vals) /\ map = MapOf(keys, vals)
          /\ ~misplaced => Ascending(keys) /\ Records(keys, vals, entries)
    BY DEF MapInv
  <1>2. map.keys.elem = keys /\ map.value = vals /\ map.size = Len(keys)
    BY <1>1, MapOfParts
  <1>3. Map!At(k) = Map!KeyIndex(keys, k)
    BY <1>2 DEF Map!At
  <1>4. /\ Finds(keys, k, Map!At(k))
        /\ Len(keys) # 0 => Map!At(k).at # 0
        /\ ~misplaced => FindsAll(keys, k, Map!At(k))
    BY <1>1, <1>3, KeyIndexFinds
  <1> QED
    BY <1>1, <1>2, <1>3, <1>4

\* The invariant of the map that a call leaves.
LEMMA Leaves ==
    ASSUME NEW keys \in Seq(Term), NEW vals \in Seq(MapValue), Beside(keys, vals),
           map' = MapOf(keys, vals),
           ~misplaced' => Ascending(keys) /\ Records(keys, vals, entries')
    PROVE  MapInv' /\ (map # Map!NoMap)'
  <1>1. map'.size \in Nat
    BY MapOfParts
  <1>2. (map # Map!NoMap)'
    BY MapOfParts DEF Map!NoMap
  <1> QED
    BY <1>1, <1>2 DEF MapInv

\* The values of a key are those beside it.
LEMMA ValuesBeside ==
    ASSUME NEW keys \in Seq(Term), NEW vals \in Seq(MapValue), Beside(keys, vals), NEW x
    PROVE  Map!ValuesOf(MapOf(keys, vals), x) = {w \in MapValue : Held(keys, vals, x, w)}
  <1>1. Map!PairsOf(MapOf(keys, vals), x) =
          {<<y, vals[y]>> : y \in {z \in 1 .. Len(keys) : keys[z] = x}}
    BY MapOfParts DEF Map!PairsOf
  <1>2. Map!ValuesOf(MapOf(keys, vals), x) =
          {p[2] : p \in {<<y, vals[y]>> : y \in {z \in 1 .. Len(keys) : keys[z] = x}}}
    BY <1>1 DEF Map!ValuesOf
  <1>3. \A y \in 1 .. Len(keys) : vals[y] \in MapValue
    BY DEF Beside
  <1>4. ASSUME NEW w
        PROVE  w \in Map!ValuesOf(MapOf(keys, vals), x) <=> w \in MapValue /\ Held(keys, vals, x, w)
    <2>1. w \in Map!ValuesOf(MapOf(keys, vals), x) <=>
            \E y \in {z \in 1 .. Len(keys) : keys[z] = x} : w = <<y, vals[y]>>[2]
      BY <1>2
    <2> QED
      BY <1>3, <2>1 DEF Held
  <1>5. \E S : Map!ValuesOf(MapOf(keys, vals), x) = {p[2] : p \in S}
    BY <1>2
  <1> QED
    BY <1>4, <1>5

LEMMA OtherValues ==
    ASSUME NEW keys \in Seq(Term), NEW vals \in Seq(MapValue), Beside(keys, vals),
           NEW keys2 \in Seq(Term), NEW vals2 \in Seq(MapValue), Beside(keys2, vals2), NEW k,
           SameBut(k, keys2, vals2, keys, vals)
    PROVE  \A x \in Term \ {k} :
             Map!ValuesOf(MapOf(keys2, vals2), x) = Map!ValuesOf(MapOf(keys, vals), x)
  <1> SUFFICES ASSUME NEW x \in Term \ {k}
               PROVE  Map!ValuesOf(MapOf(keys2, vals2), x) = Map!ValuesOf(MapOf(keys, vals), x)
    OBVIOUS
  <1>1. Map!ValuesOf(MapOf(keys, vals), x) = {w \in MapValue : Held(keys, vals, x, w)}
    BY ValuesBeside
  <1>2. Map!ValuesOf(MapOf(keys2, vals2), x) = {w \in MapValue : Held(keys2, vals2, x, w)}
    BY ValuesBeside
  <1> QED
    BY <1>1, <1>2 DEF SameBut

\* A call changes the values of no key but k
OthersKept(k) ==
    \A x \in Term \ {k} : Map!ValuesOf(map', x) = Map!ValuesOf(map, x)

\* enif_make_map_put of a key that is found, and enif_make_map_update.
LEMMA ReplaceStep ==
    ASSUME MapInv, NEW k \in Term, NEW v \in MapValue, Map!Replace(k, v)
    PROVE  MapInv' /\ (map # Map!NoMap)' /\ OthersKept(k)
  <1>1. PICK keys \in Seq(Term), vals \in Seq(MapValue) :
          /\ Beside(keys, vals) /\ map = MapOf(keys, vals)
          /\ ~misplaced => Ascending(keys) /\ Records(keys, vals, entries)
          /\ map.value = vals
          /\ Finds(keys, k, Map!At(k))
    BY Looks DEF Map!Replace
  <1>2. PICK p : p = Map!At(k).at
    OBVIOUS
  <1>3. p \in 1 .. Len(keys) /\ k = keys[p]
    <2>1. p \in 0 .. Len(keys) /\ p # 0 /\ k = keys[p]
      BY <1>1, <1>2 DEF Map!Replace, Finds
    <2> QED
      BY <2>1
  <1>4. PICK vals2 \in Seq(MapValue) :
          /\ vals2 = [vals EXCEPT ![p] = v] /\ Beside(keys, vals2)
          /\ SameBut(keys[p], keys, vals2, keys, vals)
          /\ Ascending(keys) => HasOnly(keys[p], v, keys, vals2)
    BY <1>1, <1>3, ReplaceHolds
  <1>5. /\ SameBut(k, keys, vals2, keys, vals)
        /\ Ascending(keys) => HasOnly(k, v, keys, vals2)
    BY <1>3, <1>4
  <1>6. map' = MapOf(keys, vals2)
    <2>1. map' = [map EXCEPT !.value[p] = v]
      BY <1>2 DEF Map!Replace
    <2>2. map = [size |-> Len(keys), keys |-> Map!Tuple(keys), value |-> vals]
      BY <1>1 DEF MapOf
    <2> QED
      BY <1>4, <2>1, <2>2 DEF MapOf
  <1>7. Beside(keys, vals2)
    BY <1>4
  <1>8. ~misplaced' => Ascending(keys) /\ Records(keys, vals2, entries')
    <2> SUFFICES ASSUME ~misplaced' PROVE Ascending(keys) /\ Records(keys, vals2, entries')
      OBVIOUS
    <2>1. Ascending(keys) /\ Records(keys, vals, entries) /\ entries' = Map!With(k, v)
      BY <1>1 DEF Map!Replace
    <2>2. /\ DOMAIN entries' = DOMAIN entries \cup {k} /\ entries'[k] = v
          /\ \A x \in DOMAIN entries : x # k => entries'[x] = entries[x]
      BY <2>1 DEF Map!With
    <2> QED
      BY <1>5, <2>1, <2>2 DEF Records, SameBut, HasOnly
  <1>9. OthersKept(k)
    <2>1. \A x \in Term \ {k} :
            Map!ValuesOf(MapOf(keys, vals2), x) = Map!ValuesOf(MapOf(keys, vals), x)
      BY <1>1, <1>5, <1>7, OtherValues
    <2> QED
      BY <1>1, <1>6, <2>1 DEF OthersKept
  <1> QED
    BY <1>6, <1>7, <1>8, <1>9, Leaves

\* enif_make_map_put of another key, in a map with pairs.
LEMMA PutNewStep ==
    ASSUME MapInv, NEW k \in Term, NEW v \in MapValue, Map!PutNew(k, v)
    PROVE  MapInv' /\ (map # Map!NoMap)' /\ OthersKept(k)
  <1>1. PICK keys \in Seq(Term), vals \in Seq(MapValue) :
          /\ Beside(keys, vals) /\ map = MapOf(keys, vals)
          /\ ~misplaced => Ascending(keys) /\ Records(keys, vals, entries)
          /\ map.keys.elem = keys /\ map.value = vals /\ map.size = Len(keys)
          /\ Finds(keys, k, Map!At(k))
          /\ ~misplaced => FindsAll(keys, k, Map!At(k))
    BY Looks DEF Map!PutNew
  <1>2. PICK p : p = Map!At(k).at
    OBVIOUS
  <1>3. p \in 1 .. Len(keys)
    <2>1. p \in 0 .. Len(keys) /\ p > 0
      BY <1>1, <1>2 DEF Map!PutNew, Finds
    <2> QED
      BY <2>1
  <1>4. PICK keys2 \in Seq(Term), vals2 \in Seq(MapValue) :
          /\ keys2 = Map!InsertAt(keys, p, k) /\ vals2 = Map!InsertAt(vals, p, v)
          /\ Beside(keys2, vals2) /\ Len(keys2) = Len(keys) + 1
          /\ \A x, w : Held(keys2, vals2, x, w) <=> Held(keys, vals, x, w) \/ (x = k /\ w = v)
    BY <1>1, <1>3, InsertHolds
  <1>5. map' = MapOf(keys2, vals2)
    BY <1>1, <1>2, <1>4 DEF Map!PutNew, MapOf
  <1>6. ~misplaced' => Ascending(keys2) /\ Records(keys2, vals2, entries')
    <2> SUFFICES ASSUME ~misplaced' PROVE Ascending(keys2) /\ Records(keys2, vals2, entries')
      OBVIOUS
    <2>1. ~misplaced /\ ~(keys[p] < k)
      BY <1>1, <1>2 DEF Map!PutNew
    <2>2. Ascending(keys) /\ Records(keys, vals, entries)
      BY <1>1, <2>1
    <2>3. /\ \A x \in 1 .. Len(keys) : keys[x] # k
          /\ k < keys[p] => \A x \in 1 .. Len(keys) : x < p => keys[x] < k
      BY <1>1, <1>2, <1>3, <2>1 DEF Map!PutNew, FindsAll
    <2>4. k < keys[p]
      <3>1. k \in Int /\ keys[p] \in Int
        BY <1>3, KeysAreNumbers
      <3>2. keys[p] # k
        BY <1>3, <2>3
      <3> QED
        BY <2>1, <3>1, <3>2
    <2>5. Ascending(keys2)
      BY <1>3, <1>4, <2>2, <2>3, <2>4, InsertAscends
    <2>6. \A w : ~Held(keys, vals, k, w)
      BY <2>3 DEF Held
    <2>7. entries' = Map!With(k, v)
      BY DEF Map!PutNew
    <2>8. /\ DOMAIN entries' = DOMAIN entries \cup {k} /\ entries'[k] = v
          /\ \A x \in DOMAIN entries : x # k => entries'[x] = entries[x]
      BY <2>7 DEF Map!With
    <2> QED
      BY <1>4, <2>2, <2>5, <2>6, <2>8 DEF Records
  <1>7. SameBut(k, keys2, vals2, keys, vals)
    BY <1>4 DEF SameBut
  <1>8. OthersKept(k)
    <2>1. \A x \in Term \ {k} :
            Map!ValuesOf(MapOf(keys2, vals2), x) = Map!ValuesOf(MapOf(keys, vals), x)
      BY <1>1, <1>4, <1>7, OtherValues
    <2> QED
      BY <1>1, <1>5, <2>1 DEF OthersKept
  <1> QED
    BY <1>4, <1>5, <1>6, <1>8, Leaves

\* enif_make_map_remove.
LEMMA MapRemoveStep ==
    ASSUME MapInv, NEW k \in Term, Map!MapRemove(k)
    PROVE  MapInv' /\ (map # Map!NoMap)' /\ OthersKept(k)
  <1>1. PICK keys \in Seq(Term), vals \in Seq(MapValue) :
          /\ Beside(keys, vals) /\ map = MapOf(keys, vals)
          /\ ~misplaced => Ascending(keys) /\ Records(keys, vals, entries)
          /\ map.keys.elem = keys /\ map.value = vals /\ map.size = Len(keys)
          /\ Finds(keys, k, Map!At(k))
    BY Looks DEF Map!MapRemove
  <1>2. PICK p : p = Map!At(k).at
    OBVIOUS
  <1>3. p \in 1 .. Len(keys) /\ k = keys[p]
    <2>1. p \in 0 .. Len(keys) /\ p # 0 /\ k = keys[p]
      BY <1>1, <1>2 DEF Map!MapRemove, Finds
    <2> QED
      BY <2>1
  <1>4. PICK keys2 \in Seq(Term), vals2 \in Seq(MapValue) :
          /\ keys2 = Map!RemoveAt(keys, p) /\ vals2 = Map!RemoveAt(vals, p)
          /\ Beside(keys2, vals2) /\ Len(keys2) = Len(keys) - 1
          /\ SameBut(k, keys2, vals2, keys, vals)
          /\ Ascending(keys) => Ascending(keys2) /\ IsGone(k, keys2, vals2)
    BY <1>1, <1>3, RemoveHolds
  <1>5. map' = MapOf(keys2, vals2)
    BY <1>1, <1>2, <1>4 DEF Map!MapRemove, MapOf
  <1>6. ~misplaced' => Ascending(keys2) /\ Records(keys2, vals2, entries')
    <2> SUFFICES ASSUME ~misplaced' PROVE Ascending(keys2) /\ Records(keys2, vals2, entries')
      OBVIOUS
    <2>1. Ascending(keys) /\ Records(keys, vals, entries)
      BY <1>1 DEF Map!MapRemove
    <2>2. entries' = [x \in DOMAIN entries \ {k} |-> entries[x]]
      BY DEF Map!MapRemove
    <2>3. Ascending(keys2) /\ IsGone(k, keys2, vals2)
      BY <1>4, <2>1
    <2>4. ASSUME NEW x, NEW w
          PROVE  Held(keys2, vals2, x, w) <=> x \in DOMAIN entries' /\ w = entries'[x]
      <3>1. CASE x = k
        BY <2>2, <2>3, <3>1 DEF IsGone
      <3>2. CASE x # k
        BY <1>4, <2>1, <2>2, <3>2 DEF Records, SameBut
      <3> QED
        BY <3>1, <3>2
    <2> QED
      BY <2>3, <2>4 DEF Records
  <1>7. OthersKept(k)
    <2>1. \A x \in Term \ {k} :
            Map!ValuesOf(MapOf(keys2, vals2), x) = Map!ValuesOf(MapOf(keys, vals), x)
      BY <1>1, <1>4, OtherValues
    <2> QED
      BY <1>1, <1>5, <2>1 DEF OthersKept
  <1> QED
    BY <1>4, <1>5, <1>6, <1>7, Leaves

\* enif_make_map_put in an empty map: what it leaves cannot be searched.
LEMMA PutEmptyStep ==
    ASSUME MapInv, NEW k \in Term, NEW v \in MapValue, Map!PutEmpty(k, v)
    PROVE  MapInv' /\ (map # Map!NoMap)' /\ ~Map!Usable'
  <1>1. map' = [size |-> map.size + 1, keys |-> Map!ValueTerm(v), value |-> <<map.keys>>]
    BY DEF Map!PutEmpty
  <1>2. map'.keys.tag = "value" /\ map'.size = map.size + 1
    BY <1>1 DEF Map!ValueTerm
  <1>3. ~Map!Usable' /\ (map # Map!NoMap)'
    BY <1>2 DEF Map!Usable, Map!IsTuple, Map!NoMap
  <1>4. map'.size \in Nat
    BY <1>2 DEF MapInv
  <1> QED
    BY <1>3, <1>4 DEF MapInv

-----------------------------------------------------------------------------
\* enif_map_iterator_create: no place has been passed.
LEMMA IterCreateStep ==
    ASSUME MapInv, IterInv, NEW entry \in {"first", "last"}, Map!IterCreate(entry)
    PROVE  IterInv'
  <1>1. PICK n \in Nat : n = map.size
    BY DEF MapInv
  <1>2. PICK idx \in Nat : /\ idx = (IF entry = "first" THEN 0 ELSE n + 1)
                           /\ idx <= n + 1
    OBVIOUS
  <1>3. /\ iter' = [size |-> n, entry |-> entry, idx |-> idx]
        /\ visited' = {}
    BY <1>1, <1>2 DEF Map!IterCreate
  <1>4. /\ iter' \in [size : Nat, idx : Nat, entry : {"none", "first", "last"}]
        /\ iter'.size = n /\ iter'.idx = idx /\ iter'.entry = entry
    BY <1>3
  <1>5. entry = "first" => \A p \in 1 .. n : ~(p <= idx)
    BY <1>2
  <1>6. entry = "last" => \A p \in 1 .. n : ~(p >= idx)
    BY <1>2
  <1> QED
    BY <1>2, <1>3, <1>4, <1>5, <1>6 DEF IterInv

\* The iterator is at the place idx of n, and answers whether a pair is there
Moves(idx, n) ==
    /\ iter' = [iter EXCEPT !.idx = idx]
    /\ IF idx \in 1 .. n THEN ret' = 1 /\ visited' = visited \cup {idx}
                         ELSE ret' = 0 /\ visited' = visited

\* Where a step of the iterator leads.
LEMMA IterStep ==
    ASSUME IterInv, NEW n \in Nat, NEW idx \in Nat, n = iter.size, idx = iter.idx,
           NEW idx2 \in Nat, idx2 <= n + 1, Moves(idx2, n),
           \/ idx2 = idx
           \/ idx2 = idx + 1
           \/ idx2 = idx - 1
    PROVE  IterInv'
  <1>1. /\ iter.entry \in {"none", "first", "last"}
        /\ iter = [size |-> n, idx |-> idx, entry |-> iter.entry]
    BY DEF IterInv
  <1>2. PICK e \in {"none", "first", "last"} : e = iter.entry
    BY <1>1
  <1>3. iter' = [size |-> n, idx |-> idx2, entry |-> e]
    BY <1>1, <1>2 DEF Moves
  <1>4. /\ iter' \in [size : Nat, idx : Nat, entry : {"none", "first", "last"}]
        /\ iter'.size = n /\ iter'.idx = idx2 /\ iter'.entry = e
    BY <1>3
  <1>5. /\ visited \subseteq 1 .. n
        /\ e = "first" => \A p \in 1 .. n : p <= idx => p \in visited
        /\ e = "last" => \A p \in 1 .. n : p >= idx => p \in visited
    BY <1>2 DEF IterInv
  <1>6. /\ visited' \subseteq 1 .. n /\ visited \subseteq visited'
        /\ idx2 \in 1 .. n => idx2 \in visited'
    BY <1>5 DEF Moves
  <1>7. e = "first" => \A p \in 1 .. n : p <= idx2 => p \in visited'
    <2> SUFFICES ASSUME e = "first", NEW p \in 1 .. n, p <= idx2 PROVE p \in visited'
      OBVIOUS
    <2>1. p <= idx \/ p = idx2
      OBVIOUS
    <2> QED
      BY <1>5, <1>6, <2>1
  <1>8. e = "last" => \A p \in 1 .. n : p >= idx2 => p \in visited'
    <2> SUFFICES ASSUME e = "last", NEW p \in 1 .. n, p >= idx2 PROVE p \in visited'
      OBVIOUS
    <2>1. p >= idx \/ p = idx2
      OBVIOUS
    <2> QED
      BY <1>5, <1>6, <2>1
  <1>9. ret' = 1 <=> Map!HasPair'
    <2>1. Map!HasPair' <=> idx2 >= 1 /\ idx2 <= n
      BY <1>4 DEF Map!HasPair
    <2>2. ret' = 1 <=> idx2 \in 1 .. n
      BY DEF Moves
    <2> QED
      BY <2>1, <2>2
  <1> QED
    BY <1>4, <1>6, <1>7, <1>8, <1>9 DEF IterInv

\* enif_map_iterator_next and enif_map_iterator_prev.
LEMMA IterNextStep ==
    ASSUME IterInv, Map!IterNext
    PROVE  IterInv'
  <1>1. PICK n \in Nat, idx \in Nat : n = iter.size /\ idx = iter.idx
    BY DEF IterInv
  <1>2. idx <= n + 1
    BY <1>1 DEF IterInv
  <1>3. PICK idx2 \in Nat : idx2 = IF idx <= n THEN idx + 1 ELSE idx
    OBVIOUS
  <1>4. /\ idx2 <= n + 1 /\ (idx < n <=> idx2 \in 1 .. n)
        /\ idx2 = idx \/ idx2 = idx + 1
    BY <1>2, <1>3
  <1>5. Moves(idx2, n)
    <2>1. Map!Step(idx2, idx < n)
      BY <1>1, <1>3 DEF Map!IterNext
    <2> QED
      BY <1>4, <2>1 DEF Map!Step, Moves
  <1> QED
    BY <1>1, <1>4, <1>5, IterStep

LEMMA IterPrevStep ==
    ASSUME IterInv, Map!IterPrev
    PROVE  IterInv'
  <1>1. PICK n \in Nat, idx \in Nat : n = iter.size /\ idx = iter.idx
    BY DEF IterInv
  <1>2. idx <= n + 1
    BY <1>1 DEF IterInv
  <1>3. PICK idx2 \in Nat : idx2 = IF idx >= 1 THEN idx - 1 ELSE idx
    OBVIOUS
  <1>4. /\ idx2 <= n + 1 /\ (idx > 1 <=> idx2 \in 1 .. n)
        /\ idx2 = idx \/ idx2 = idx - 1
    BY <1>2, <1>3
  <1>5. Moves(idx2, n)
    <2>1. Map!Step(idx2, idx > 1)
      BY <1>1, <1>3 DEF Map!IterPrev
    <2> QED
      BY <1>4, <2>1 DEF Map!Step, Moves
  <1> QED
    BY <1>1, <1>4, <1>5, IterStep

\* enif_map_iterator_destroy, and before any is created.
LEMMA NoIterInv == iter = Map!NoIter /\ visited = {} => IterInv
  <1> SUFFICES ASSUME iter = Map!NoIter, visited = {} PROVE IterInv
    OBVIOUS
  <1>1. iter.size = 0 /\ iter.idx = 0 /\ iter.entry = "none"
    BY DEF Map!NoIter
  <1>2. iter \in [size : Nat, idx : Nat, entry : {"none", "first", "last"}]
    BY DEF Map!NoIter
  <1> QED
    BY <1>1, <1>2 DEF IterInv

LEMMA IterKept == IterInv /\ UNCHANGED <<iter, ret, visited>> => IterInv'
  BY DEF IterInv, Map!HasPair

LEMMA MapKept == MapInv /\ UNCHANGED <<map, entries, misplaced>> => MapInv'
  BY DEF MapInv, Map!Usable

-----------------------------------------------------------------------------
\* The first n places of an array of the program, whose places begin at 0
Seq1(arr, n) == [x \in 1 .. n |-> arr[x - 1]]

\* Keys that enif_compare orders are ordered.
LEMMA MadeInOrder == MakesMap => IsOrder
  <1> SUFFICES ASSUME MakesMap PROVE IsOrder
    OBVIOUS
  <1>1. Term \subseteq Int
    BY SortedMapAssumption DEF Map!FlatMapConstants
  <1>2. \A x, y \in Term : cmp[x][y] = (IF x < y THEN -1 ELSE IF x > y THEN 1 ELSE 0)
    BY DEF MakesMap
  <1>3. \A x, y \in Term : /\ cmp[x][y] < 0 <=> x < y
                           /\ cmp[x][y] > 0 <=> x > y
                           /\ cmp[x][y] <= 0 <=> x <= y
    <2> SUFFICES ASSUME NEW x \in Term, NEW y \in Term
                 PROVE  /\ cmp[x][y] < 0 <=> x < y
                        /\ cmp[x][y] > 0 <=> x > y
                        /\ cmp[x][y] <= 0 <=> x <= y
      OBVIOUS
    <2>1. x \in Int /\ y \in Int
      BY <1>1
    <2>2. PICK c \in Int : c = (IF x < y THEN -1 ELSE IF x > y THEN 1 ELSE 0)
      OBVIOUS
    <2>3. c < 0 <=> x < y
      BY <2>1, <2>2
    <2>4. c > 0 <=> x > y
      BY <2>1, <2>2
    <2>5. c <= 0 <=> x <= y
      BY <2>1, <2>2
    <2> QED
      BY <1>2, <2>2, <2>3, <2>4, <2>5
  <1>4. ASSUME NEW x \in Term, NEW y \in Term PROVE cmp[x][y] < 0 <=> cmp[y][x] > 0
    BY <1>1, <1>3
  <1>5. ASSUME NEW x \in Term, NEW y \in Term, NEW z \in Term, cmp[x][y] <= 0, cmp[y][z] <= 0
        PROVE  cmp[x][z] <= 0
    <2>1. x <= y /\ y <= z
      BY <1>3, <1>5
    <2>2. PICK a \in Int, b \in Int, c \in Int : a = x /\ b = y /\ c = z
      BY <1>1
    <2>3. a <= c
      BY <2>1, <2>2
    <2> QED
      BY <1>3, <2>2, <2>3
  <1> QED
    BY <1>4, <1>5 DEF IsOrder

\* What the call is given, n keys ks and values vs, and what the sort leaves of it, m of
\* each: the keys ascend, each pair is one of those given, and no key is lost.
SortedOf(n, ks, vs, m, keys, vals) ==
    /\ n = given.n /\ ks = Seq1(given.keys, n) /\ vs = Seq1(given.values, n)
    /\ Len(ks) = n /\ Len(vs) = n
    /\ m = cnt /\ keys = Seq1(src1, m) /\ vals = Seq1(src2, m)
    /\ Len(keys) = m /\ Len(vals) = m
    /\ Ascending(keys)
    /\ \A x \in 1 .. m : \E y \in 1 .. n : ks[y] = keys[x] /\ vs[y] = vals[x]
    /\ \A y \in 1 .. n : \E x \in 1 .. m : keys[x] = ks[y]

LEMMA Assembled ==
    ASSUME OrderIInv, pc = "done", MakesMap
    PROVE  \E n, m \in Nat, ks, keys \in Seq(Term), vs, vals \in Seq(MapValue) :
             SortedOf(n, ks, vs, m, keys, vals)
  <1>1. Answered /\ Typed
    BY MadeInOrder DEF OrderIInv, OrderParts, SortIInv
  <1>2. PICK n \in Nat : n = given.n /\ Index = 0 .. n - 1
    BY <1>1, CallFacts
  <1>3. PICK m \in 0 .. n : m = cnt
    BY <1>1, <1>2 DEF Answered
  <1>4. /\ \A x \in 0 .. n - 1 : given.keys[x] \in Term /\ given.values[x] \in MapValue
        /\ \A x \in 0 .. n - 1 : src1[x] \in Term
    BY <1>1, <1>2, CallFacts DEF Typed, MakesMap
  <1>5. /\ \A x, y \in 0 .. m - 1 : x < y => cmp[src1[x]][src1[y]] < 0
        /\ \A x \in 0 .. n - 1 : \E y \in 0 .. m - 1 : cmp[given.keys[x]][src1[y]] = 0
        /\ \A x \in 0 .. m - 1 : \E y \in 0 .. n - 1 :
             src1[x] = given.keys[y] /\ src2[x] = given.values[y]
    BY <1>1, <1>2, <1>3 DEF Answered, Pairs
  <1>6. \A x, y \in Term : cmp[x][y] = (IF x < y THEN -1 ELSE IF x > y THEN 1 ELSE 0)
    BY DEF MakesMap
  <1>7. \A x, y \in Term : /\ cmp[x][y] < 0 => x < y
                           /\ cmp[x][y] = 0 => x = y
    <2> SUFFICES ASSUME NEW x \in Term, NEW y \in Term
                 PROVE  (cmp[x][y] < 0 => x < y) /\ (cmp[x][y] = 0 => x = y)
      OBVIOUS
    <2>1. x \in Int /\ y \in Int
      BY SortedMapAssumption DEF Map!FlatMapConstants
    <2>2. PICK c \in Int : c = (IF x < y THEN -1 ELSE IF x > y THEN 1 ELSE 0)
      OBVIOUS
    <2>3. (c < 0 => x < y) /\ (c = 0 => x = y)
      BY <2>1, <2>2
    <2> QED
      BY <1>6, <2>2, <2>3
  <1>8. \A x \in 1 .. m : x - 1 \in 0 .. m - 1 /\ x - 1 \in 0 .. n - 1
    OBVIOUS
  <1>9. \A x \in 1 .. n : x - 1 \in 0 .. n - 1
    OBVIOUS
  <1>10. PICK ks, vs, keys, vals :
           /\ ks = Seq1(given.keys, n) /\ vs = Seq1(given.values, n)
           /\ keys = Seq1(src1, m) /\ vals = Seq1(src2, m)
    OBVIOUS
  <1>11. /\ ks \in Seq(Term) /\ Len(ks) = n /\ \A x \in 1 .. n : ks[x] = given.keys[x - 1]
         /\ vs \in Seq(MapValue) /\ Len(vs) = n /\ \A x \in 1 .. n : vs[x] = given.values[x - 1]
    BY <1>4, <1>9, <1>10 DEF Seq1
  <1>12. /\ keys \in Seq(Term) /\ Len(keys) = m /\ \A x \in 1 .. m : keys[x] = src1[x - 1]
    BY <1>4, <1>8, <1>10 DEF Seq1
  <1>13. \A x \in 1 .. m : src2[x - 1] \in MapValue
    BY <1>4, <1>5, <1>8
  <1>14. /\ vals \in Seq(MapValue) /\ Len(vals) = m /\ \A x \in 1 .. m : vals[x] = src2[x - 1]
    BY <1>10, <1>13 DEF Seq1
  <1>15. Ascending(keys)
    <2> SUFFICES ASSUME NEW x \in 1 .. m, NEW y \in 1 .. m, x < y PROVE keys[x] < keys[y]
      BY <1>12 DEF Ascending
    <2>1. x - 1 < y - 1
      OBVIOUS
    <2>2. cmp[src1[x - 1]][src1[y - 1]] < 0
      BY <1>5, <1>8, <2>1
    <2>3. src1[x - 1] \in Term /\ src1[y - 1] \in Term
      BY <1>4, <1>8
    <2> QED
      BY <1>7, <1>12, <2>2, <2>3
  <1>16. \A x \in 1 .. m : \E y \in 1 .. n : ks[y] = keys[x] /\ vs[y] = vals[x]
    <2> SUFFICES ASSUME NEW x \in 1 .. m
                 PROVE  \E y \in 1 .. n : ks[y] = keys[x] /\ vs[y] = vals[x]
      OBVIOUS
    <2>1. PICK z \in 0 .. n - 1 : src1[x - 1] = given.keys[z] /\ src2[x - 1] = given.values[z]
      BY <1>5, <1>8
    <2>2. z + 1 \in 1 .. n /\ (z + 1) - 1 = z
      OBVIOUS
    <2>3. ks[z + 1] = given.keys[z] /\ vs[z + 1] = given.values[z]
      BY <1>11, <2>2
    <2> QED
      BY <1>12, <1>14, <2>1, <2>2, <2>3
  <1>17. \A y \in 1 .. n : \E x \in 1 .. m : keys[x] = ks[y]
    <2> SUFFICES ASSUME NEW y \in 1 .. n PROVE \E x \in 1 .. m : keys[x] = ks[y]
      OBVIOUS
    <2>1. PICK z \in 0 .. m - 1 : cmp[given.keys[y - 1]][src1[z]] = 0
      BY <1>5, <1>9
    <2>2. z + 1 \in 1 .. m /\ (z + 1) - 1 = z /\ z \in 0 .. n - 1
      OBVIOUS
    <2>3. given.keys[y - 1] = src1[z]
      BY <1>4, <1>7, <1>9, <2>1, <2>2
    <2>4. keys[z + 1] = src1[z]
      BY <1>12, <2>2
    <2> QED
      BY <1>11, <2>2, <2>3, <2>4
  <1>18. m \in Nat
    OBVIOUS
  <1>19. SortedOf(n, ks, vs, m, keys, vals)
    BY <1>2, <1>3, <1>10, <1>11, <1>12, <1>14, <1>15, <1>16, <1>17 DEF SortedOf
  <1> QED
    BY <1>11, <1>12, <1>14, <1>18, <1>19

\* A sequence of keys that ascend counts them.
LEMMA CountsKeys ==
    ASSUME NEW m \in Nat, NEW keys \in Seq(Term), m = Len(keys), Ascending(keys),
           NEW S, S = {keys[x] : x \in 1 .. m}
    PROVE  Map!Cardinality(S) = m
  <1>1. keys \in [1 .. m -> S]
    OBVIOUS
  <1>2. \A s \in S : \E x \in 1 .. m : keys[x] = s
    OBVIOUS
  <1>3. ASSUME NEW x \in 1 .. m, NEW y \in 1 .. m, keys[x] = keys[y]
        PROVE  x = y
    <2>1. keys[x] \in Int /\ keys[y] \in Int
      BY KeysAreNumbers
    <2>2. ~(keys[x] < keys[y]) /\ ~(keys[y] < keys[x])
      BY <1>3, <2>1
    <2>3. ~(x < y) /\ ~(y < x)
      BY <2>2 DEF Ascending
    <2> QED
      BY <2>3
  <1>4. keys \in Bijection(1 .. m, S)
    BY <1>1, <1>2, <1>3 DEF Bijection, Injection, Surjection, IsInjective
  <1>5. Cardinality(S) = m
    BY <1>4, FS_CountingElements DEF ExistsBijection
  <1>6. Map!Cardinality(S) = Cardinality(S)
    BY DEF Map!Cardinality, Cardinality
  <1> QED
    BY <1>5, <1>6

\* The entries of the map that is made are its pairs.
EntriesOf(m, keys, vals) ==
    [k \in {keys[x] : x \in 1 .. m} |-> vals[CHOOSE x \in 1 .. m : keys[x] = k]]

LEMMA EntriesMade ==
    ASSUME NEW m \in Nat, NEW keys \in Seq(Term), m = Len(keys), Ascending(keys),
           NEW vals, NEW ent,
           ent = EntriesOf(m, keys, vals)
    PROVE  Records(keys, vals, ent)
  <1>1. \A x, y \in 1 .. m : keys[x] = keys[y] => x = y
    <2> SUFFICES ASSUME NEW x \in 1 .. m, NEW y \in 1 .. m, keys[x] = keys[y] PROVE x = y
      OBVIOUS
    <2>1. keys[x] \in Int /\ keys[y] \in Int
      BY KeysAreNumbers
    <2>2. ~(keys[x] < keys[y]) /\ ~(keys[y] < keys[x])
      BY <2>1
    <2>3. ~(x < y) /\ ~(y < x)
      BY <2>2 DEF Ascending
    <2> QED
      BY <2>3
  <1>2. ASSUME NEW y \in 1 .. m PROVE keys[y] \in DOMAIN ent /\ ent[keys[y]] = vals[y]
    <2>1. ent[keys[y]] = vals[CHOOSE x \in 1 .. m : keys[x] = keys[y]]
      BY DEF EntriesOf
    <2>2. (CHOOSE x \in 1 .. m : keys[x] = keys[y]) = y
      BY <1>1
    <2> QED
      BY <2>1, <2>2 DEF EntriesOf
  <1>3. \A k \in DOMAIN ent : \E y \in 1 .. m : keys[y] = k
    BY DEF EntriesOf
  <1>4. ASSUME NEW x, NEW w
        PROVE  Held(keys, vals, x, w) <=> x \in DOMAIN ent /\ w = ent[x]
    <2>1. ASSUME Held(keys, vals, x, w) PROVE x \in DOMAIN ent /\ w = ent[x]
      <3>1. PICK y \in 1 .. m : keys[y] = x /\ vals[y] = w
        BY <2>1 DEF Held
      <3> QED
        BY <1>2, <3>1
    <2>2. ASSUME x \in DOMAIN ent, w = ent[x] PROVE Held(keys, vals, x, w)
      <3>1. PICK y \in 1 .. m : keys[y] = x
        BY <1>3, <2>2
      <3>2. vals[y] = w
        BY <1>2, <2>2, <3>1
      <3> QED
        BY <3>1, <3>2 DEF Held
    <2> QED
      BY <2>1, <2>2
  <1> QED
    BY <1>4 DEF Records

\* What Assemble assigns, in terms of what the sort leaves.
LEMMA AssembleMakes ==
    ASSUME OrderIInv, Assemble
    PROVE  \E n, m \in Nat, ks, keys \in Seq(Term), vs, vals \in Seq(MapValue) :
             /\ SortedOf(n, ks, vs, m, keys, vals)
             /\ map' = MapOf(keys, vals)
             /\ entries' = EntriesOf(m, keys, vals)
  <1>1. PICK n, m \in Nat, ks, keys \in Seq(Term), vs, vals \in Seq(MapValue) :
          SortedOf(n, ks, vs, m, keys, vals)
    BY Assembled DEF Assemble
  <1>2. /\ keys = [x \in 1 .. cnt |-> src1[x - 1]] /\ vals = [x \in 1 .. cnt |-> src2[x - 1]]
        /\ cnt = m /\ Len(keys) = m
    BY <1>1 DEF SortedOf, Seq1
  <1>3. /\ map' = [size |-> cnt, keys |-> Map!Tuple(keys), value |-> vals]
        /\ entries' = [k \in {keys[x] : x \in 1 .. cnt} |->
                         vals[CHOOSE x \in 1 .. cnt : keys[x] = k]]
    BY <1>2 DEF Assemble
  <1>4. map' = MapOf(keys, vals) /\ entries' = EntriesOf(m, keys, vals)
    BY <1>2, <1>3 DEF MapOf, EntriesOf
  <1> QED
    BY <1>1, <1>4

\* The map that is made is one FlatMap lets the call make.
LEMMA AssemblePromised ==
    ASSUME OrderIInv, Assemble
    PROVE  Map!FromArrays(Seq1(given.keys, given.n), Seq1(given.values, given.n))
  <1>1. PICK n, m \in Nat, ks, keys \in Seq(Term), vs, vals \in Seq(MapValue) :
          /\ SortedOf(n, ks, vs, m, keys, vals)
          /\ map' = MapOf(keys, vals)
          /\ entries' = EntriesOf(m, keys, vals)
    BY AssembleMakes
  <1>2. /\ n = given.n /\ ks = Seq1(given.keys, n) /\ vs = Seq1(given.values, n)
        /\ Len(ks) = n /\ Len(keys) = m /\ Len(vals) = m /\ Ascending(keys)
        /\ \A x \in 1 .. m : \E y \in 1 .. n : ks[y] = keys[x] /\ vs[y] = vals[x]
        /\ \A y \in 1 .. n : \E x \in 1 .. m : keys[x] = ks[y]
    BY <1>1 DEF SortedOf
  <1> DEFINE Given == {<<ks[x], vs[x]>> : x \in 1 .. Len(ks)}
             Keys == {ks[x] : x \in 1 .. Len(ks)}
  <1>3. PICK r : r = [x \in 1 .. m |-> <<keys[x], vals[x]>>]
    OBVIOUS
  <1>4. /\ Len(r) = m
        /\ \A x \in 1 .. m : r[x] = <<keys[x], vals[x]>> /\ r[x][1] = keys[x] /\ r[x][2] = vals[x]
    BY <1>3
  <1>5. Map!Cardinality(Keys) = m
    <2>1. Keys = {keys[x] : x \in 1 .. m}
      <3>1. ASSUME NEW k \in Keys PROVE \E x \in 1 .. m : keys[x] = k
        <4>1. PICK y \in 1 .. Len(ks) : ks[y] = k
          OBVIOUS
        <4>2. y \in 1 .. n
          BY <1>2
        <4> QED
          BY <1>2, <4>1, <4>2
      <3>2. \A x \in 1 .. m : keys[x] \in Keys
        BY <1>2
      <3> HIDE DEF Keys
      <3>3. \A k : k \in Keys <=> k \in {keys[x] : x \in 1 .. m}
        BY <3>1, <3>2
      <3>4. Keys = {k \in Keys : TRUE}
        OBVIOUS
      <3> QED
        BY <3>3
    <2> HIDE DEF Keys
    <2> QED
      BY <1>2, <2>1, CountsKeys
  <1>6. r \in Map!USort(ks, vs)
    <2>1. \A x \in 1 .. m : <<keys[x], vals[x]>> \in Given
      BY <1>2
    <2>2. r \in [1 .. m -> Given]
      BY <1>3, <2>1
    <2>3. \A x, y \in 1 .. Len(r) : x < y => r[x][1] < r[y][1]
      BY <1>2, <1>4 DEF Ascending
    <2> QED
      BY <1>5, <2>2, <2>3 DEF Map!USort
  <1>7. /\ keys = [x \in 1 .. Len(r) |-> r[x][1]]
        /\ vals = [x \in 1 .. Len(r) |-> r[x][2]]
    BY <1>2, <1>4
  <1>8. /\ map' = [size |-> Len(r), keys |-> Map!Tuple(keys), value |-> vals]
        /\ entries' = [k \in {keys[x] : x \in 1 .. Len(r)} |->
                         vals[CHOOSE x \in 1 .. Len(r) : keys[x] = k]]
    BY <1>1, <1>2, <1>4 DEF MapOf, EntriesOf
  <1>9. map = Map!NoMap /\ UNCHANGED <<misplaced, iter, ret, visited>>
    BY DEF Assemble
  <1>10. Map!FromArrays(ks, vs)
    <2>1. LET key == [x \in 1 .. Len(r) |-> r[x][1]]
              val == [x \in 1 .. Len(r) |-> r[x][2]]
          IN /\ map' = [size |-> Len(r), keys |-> Map!Tuple(key), value |-> val]
             /\ entries' = [k \in {key[x] : x \in 1 .. Len(r)} |->
                              val[CHOOSE x \in 1 .. Len(r) : key[x] = k]]
      BY <1>7, <1>8, Zenon
    <2> QED
      BY <1>6, <1>9, <2>1, Zenon DEF Map!FromArrays
  <1> QED
    BY <1>2, <1>10

LEMMA AssembleStep ==
    ASSUME OrderIInv, MapInv, IterInv, Assemble
    PROVE  MapInv' /\ (map # Map!NoMap)' /\ IterInv' /\ pc' = "done"
  <1>1. PICK n, m \in Nat, ks, keys \in Seq(Term), vs, vals \in Seq(MapValue) :
          /\ SortedOf(n, ks, vs, m, keys, vals)
          /\ map' = MapOf(keys, vals)
          /\ entries' = EntriesOf(m, keys, vals)
    BY AssembleMakes
  <1>2. Beside(keys, vals) /\ m = Len(keys) /\ Ascending(keys)
    BY <1>1 DEF SortedOf, Beside
  <1>3. Records(keys, vals, entries')
    BY <1>1, <1>2, EntriesMade
  <1>4. IterInv'
    BY IterKept DEF Assemble
  <1>5. pc' = "done"
    BY DEF Assemble, Gone
  <1> QED
    BY <1>1, <1>2, <1>3, <1>4, <1>5, Leaves

\* enif_make_new_map.
LEMMA CallNewStep ==
    ASSUME IterInv, CallNew
    PROVE  MapInv' /\ (map # Map!NoMap)' /\ IterInv' /\ pc' = "done"
  <1>1. /\ map' = [size |-> 0, keys |-> Map!Tuple(<<>>), value |-> <<>>]
        /\ entries' = [k \in {} |-> k]
    BY DEF CallNew, Map!NewMap
  <1>2. PICK keys \in Seq(Term), vals \in Seq(MapValue) :
          keys = <<>> /\ vals = <<>> /\ Len(keys) = 0 /\ Len(vals) = 0
    <2>1. <<>> \in Seq(Term) /\ <<>> \in Seq(MapValue) /\ Len(<<>>) = 0
      OBVIOUS
    <2> QED
      BY <2>1, Zenon
  <1>3. Beside(keys, vals) /\ map' = MapOf(keys, vals) /\ Ascending(keys)
    BY <1>1, <1>2 DEF Beside, MapOf, Ascending
  <1>4. Records(keys, vals, entries')
    BY <1>1, <1>2 DEF Records, Held
  <1>5. IterInv'
    BY IterKept DEF CallNew, Map!NewMap
  <1>6. pc' = "done"
    BY DEF CallNew, Gone
  <1> QED
    BY <1>3, <1>4, <1>5, <1>6, Leaves

-----------------------------------------------------------------------------
LEMMA MapsInit == Start => MapsIInv
  <1> SUFFICES ASSUME Start PROVE MapsIInv
    OBVIOUS
  <1>1. map = Map!NoMap /\ iter = Map!NoIter /\ visited = {}
    BY DEF Start, Map!Init
  <1>2. OrderIInv
    BY OrderInit DEF Start
  <1>3. IterInv
    BY <1>1, NoIterInv
  <1>4. map.size = 0
    BY <1>1 DEF Map!NoMap
  <1>5. MapInv
    BY <1>1, <1>4, NotMade DEF MapInv
  <1> QED
    BY <1>1, <1>2, <1>3, <1>5 DEF MapsIInv

\* A call on a map that was made.
LEMMA CallStep ==
    ASSUME MapsIInv, Map!Call
    PROVE  /\ map # Map!NoMap /\ (map # Map!NoMap)' /\ MapInv' /\ IterInv'
           /\ \/ UNCHANGED map
              \/ ~Map!Usable'
              \/ \E k \in Term : OthersKept(k)
  <1>0. MapInv /\ IterInv /\ (map = Map!NoMap => iter = Map!NoIter)
    BY DEF MapsIInv
  <1>1. ASSUME NEW k \in Term, NEW v \in MapValue, Map!Replace(k, v)
        PROVE  /\ map # Map!NoMap /\ (map # Map!NoMap)' /\ MapInv' /\ IterInv'
               /\ OthersKept(k)
    <2>1. IterInv'
      BY <1>0, <1>1, IterKept DEF Map!Replace
    <2>2. map # Map!NoMap
      BY <1>1, NotMade DEF Map!Replace
    <2> QED
      BY <1>0, <1>1, <2>1, <2>2, ReplaceStep
  <1>2. ASSUME NEW k \in Term, NEW v \in MapValue, Map!PutNew(k, v)
        PROVE  /\ map # Map!NoMap /\ (map # Map!NoMap)' /\ MapInv' /\ IterInv'
               /\ OthersKept(k)
    <2>1. IterInv'
      BY <1>0, <1>2, IterKept DEF Map!PutNew, Map!ivars
    <2>2. map # Map!NoMap
      BY <1>2, NotMade DEF Map!PutNew
    <2> QED
      BY <1>0, <1>2, <2>1, <2>2, PutNewStep
  <1>3. ASSUME NEW k \in Term, NEW v \in MapValue, Map!PutEmpty(k, v)
        PROVE  /\ map # Map!NoMap /\ (map # Map!NoMap)' /\ MapInv' /\ IterInv'
               /\ ~Map!Usable'
    <2>1. IterInv'
      BY <1>0, <1>3, IterKept DEF Map!PutEmpty
    <2>2. map # Map!NoMap
      BY <1>3, NotMade DEF Map!PutEmpty
    <2> QED
      BY <1>0, <1>3, <2>1, <2>2, PutEmptyStep
  <1>4. ASSUME NEW k \in Term, Map!MapRemove(k)
        PROVE  /\ map # Map!NoMap /\ (map # Map!NoMap)' /\ MapInv' /\ IterInv'
               /\ OthersKept(k)
    <2>1. IterInv'
      BY <1>0, <1>4, IterKept DEF Map!MapRemove
    <2>2. map # Map!NoMap
      BY <1>4, NotMade DEF Map!MapRemove
    <2> QED
      BY <1>0, <1>4, <2>1, <2>2, MapRemoveStep
  <1>5. ASSUME NEW entry \in {"first", "last"}, Map!IterCreate(entry)
        PROVE  map # Map!NoMap /\ (map # Map!NoMap)' /\ MapInv' /\ IterInv' /\ UNCHANGED map
    <2>1. map # Map!NoMap /\ UNCHANGED <<map, entries, misplaced>>
      BY <1>5 DEF Map!IterCreate, Map!mvars
    <2> QED
      BY <1>0, <1>5, <2>1, IterCreateStep, MapKept
  <1>6. ASSUME Map!IterNext \/ Map!IterPrev
        PROVE  map # Map!NoMap /\ (map # Map!NoMap)' /\ MapInv' /\ IterInv' /\ UNCHANGED map
    <2>1. iter # Map!NoIter /\ UNCHANGED <<map, entries, misplaced>>
      BY <1>6 DEF Map!IterNext, Map!IterPrev, Map!Step, Map!mvars
    <2> QED
      BY <1>0, <1>6, <2>1, IterNextStep, IterPrevStep, MapKept
  <1>7. ASSUME Map!IterDestroy
        PROVE  map # Map!NoMap /\ (map # Map!NoMap)' /\ MapInv' /\ IterInv' /\ UNCHANGED map
    <2>1. iter # Map!NoIter /\ UNCHANGED <<map, entries, misplaced>>
      BY <1>7 DEF Map!IterDestroy, Map!mvars
    <2>2. (iter = Map!NoIter /\ visited = {})'
      BY <1>7 DEF Map!IterDestroy
    <2>3. IterInv'
      BY <2>2, NoIterInv, PTL
    <2> QED
      BY <1>0, <2>1, <2>3, MapKept
  <1> QED
    BY <1>1, <1>2, <1>3, <1>4, <1>5, <1>6, <1>7 DEF Map!Call

\* MapsIInv is inductive.
LEMMA MapsStep == MapsIInv /\ [Go]_<<vars, mapVars>> => MapsIInv'
  <1> SUFFICES ASSUME MapsIInv, [Go]_<<vars, mapVars>> PROVE MapsIInv'
    OBVIOUS
  <1>0. MapInv /\ IterInv
    BY DEF MapsIInv
  <1>1. CASE Sort
    <2>1. pc # "done"
      BY <1>1 DEF Sort, Next, Sorted, Unsorted, Enter, Up, Down, Meet, Recurse, StartUremove,
                  Uremove, Return
    <2>2. OrderIInv /\ map = Map!NoMap /\ iter = Map!NoIter
      BY <2>1 DEF MapsIInv
    <2>3. OrderIInv'
      BY <1>1, <2>2, OrderStep DEF Sort
    <2>4. UNCHANGED <<map, entries, misplaced, iter, ret, visited>>
      BY <1>1 DEF Sort, mapVars
    <2> QED
      BY <1>0, <2>2, <2>3, <2>4, MapKept, IterKept DEF MapsIInv
  <1>2. CASE Assemble
    <2>1. OrderIInv
      BY <1>2 DEF MapsIInv, Assemble
    <2> QED
      BY <1>0, <1>2, <2>1, AssembleStep DEF MapsIInv
  <1>3. CASE CallNew
    BY <1>0, <1>3, CallNewStep DEF MapsIInv
  <1>4. CASE CallMap
    <2>1. Map!Call /\ UNCHANGED pc
      BY <1>4 DEF CallMap, vars
    <2>2. map # Map!NoMap /\ (map # Map!NoMap)' /\ MapInv' /\ IterInv'
      BY <2>1, CallStep
    <2>3. pc' = "done"
      BY <2>1, <2>2 DEF MapsIInv
    <2> QED
      BY <2>2, <2>3 DEF MapsIInv
  <1>5. CASE UNCHANGED <<vars, mapVars>>
    <2>1. UNCHANGED vars /\ UNCHANGED <<map, entries, misplaced, iter, ret, visited>> /\ UNCHANGED pc
      BY <1>5 DEF mapVars, vars
    <2>2. OrderIInv => OrderIInv'
      BY <2>1, OrderStep
    <2> QED
      BY <1>0, <2>1, <2>2, MapKept, IterKept DEF MapsIInv
  <1> QED
    BY <1>1, <1>2, <1>3, <1>4, <1>5 DEF Go

THEOREM MapsInductive == SortedMapSpec => []MapsIInv
  BY MapsInit, MapsStep, PTL DEF SortedMapSpec

\* However a map was made and changed, its tuple has as many keys as there are values
\* and as its size says; and as long as no key was inserted behind a greater one,
\* enif_get_map_value answers for every key what was put last, and nothing for a key
\* that was never put or was removed.
THEOREM MapAnswersLatest == SortedMapSpec => []AnswersLatest
  <1>1. ASSUME MapInv PROVE AnswersLatest
    <2>1. ASSUME Map!Usable PROVE map.size = Len(map.keys.elem) /\ map.size = Len(map.value)
      <3>1. PICK keys \in Seq(Term), vals \in Seq(MapValue) :
              Beside(keys, vals) /\ map = MapOf(keys, vals)
        BY <1>1, <2>1 DEF MapInv
      <3>2. map.keys.elem = keys /\ map.value = vals /\ map.size = Len(keys)
        BY <3>1, MapOfParts
      <3> QED
        BY <3>1, <3>2 DEF Beside
    <2>2. ASSUME Map!Usable, ~misplaced, NEW k \in Term
          PROVE  /\ Map!At(k).found <=> k \in DOMAIN entries
                 /\ Map!At(k).found => map.value[Map!At(k).at] = entries[k]
      <3>1. PICK keys \in Seq(Term), vals \in Seq(MapValue) :
              /\ Records(keys, vals, entries)
              /\ map.value = vals
              /\ Finds(keys, k, Map!At(k)) /\ FindsAll(keys, k, Map!At(k))
        BY <1>1, <2>2, Looks
      <3>2. PICK p : p = Map!At(k).at
        OBVIOUS
      <3>3. CASE Map!At(k).found
        <4>1. p \in 0 .. Len(keys) /\ p # 0 /\ keys[p] = k
          BY <3>1, <3>2, <3>3 DEF Finds
        <4>2. p \in 1 .. Len(keys)
          BY <4>1
        <4>3. Held(keys, vals, k, vals[p])
          BY <4>1, <4>2 DEF Held
        <4>4. k \in DOMAIN entries /\ vals[p] = entries[k]
          BY <3>1, <4>3 DEF Records
        <4> QED
          BY <3>1, <3>2, <3>3, <4>4
      <3>4. CASE ~Map!At(k).found
        <4>1. ~Held(keys, vals, k, entries[k])
          BY <3>1, <3>4 DEF FindsAll, Held
        <4> QED
          BY <3>1, <3>4, <4>1 DEF Records
      <3> QED
        BY <3>3, <3>4
    <2> QED
      BY <2>1, <2>2 DEF AnswersLatest, Map!AnswersLatest
  <1> QED
    BY <1>1, MapsInductive, PTL DEF MapsIInv

\* A walk of an iterator from one end of a map to the other was at every pair, however
\* often it turned round, and a step answers 1 when it is on a pair.
THEOREM WalkIsComplete == SortedMapSpec => []WalkVisitsAll
  <1>1. ASSUME IterInv PROVE WalkVisitsAll
    <2>1. PICK n \in Nat, idx \in Nat : n = iter.size /\ idx = iter.idx
      BY <1>1 DEF IterInv
    <2>2. visited \subseteq 1 .. n
      BY <1>1, <2>1 DEF IterInv
    <2>3. ASSUME iter.entry = "first", idx > n PROVE visited = 1 .. n
      <3>1. \A p \in 1 .. n : p <= idx
        BY <2>3
      <3> QED
        BY <1>1, <2>1, <2>2, <2>3, <3>1 DEF IterInv
    <2>4. ASSUME iter.entry = "last", idx < 1 PROVE visited = 1 .. n
      <3>1. \A p \in 1 .. n : p >= idx
        BY <2>4
      <3> QED
        BY <1>1, <2>1, <2>2, <2>4, <3>1 DEF IterInv
    <2>5. iter # Map!NoIter /\ visited # {} => (ret = 1 <=> Map!HasPair)
      BY <1>1 DEF IterInv
    <2> QED
      BY <2>1, <2>3, <2>4, <2>5 DEF WalkVisitsAll, Map!WalkVisitsAll, Map!IsTail, Map!IsHead
  <1> QED
    BY <1>1, MapsInductive, PTL DEF MapsIInv

\* A call that takes one key leaves every other key the values it had, even where the
\* order of the keys was lost.
THEOREM OneKeyChanges == SortedMapSpec => ChangesOneKey
  <1> DEFINE A == Map!Usable /\ Map!Usable' =>
                    \E k \in Term : \A x \in Term \ {k} : Map!ValuesOf(map', x) = Map!ValuesOf(map, x)
  <1>1. ASSUME MapsIInv, [Go]_<<vars, mapVars>> PROVE [A]_map
    <2>1. CASE Sort
      BY <2>1 DEF Sort, mapVars
    <2>2. CASE Assemble
      BY <2>2, NotMade DEF Assemble
    <2>3. CASE CallNew
      BY <2>3, NotMade DEF CallNew, Map!NewMap
    <2>4. CASE CallMap
      <3>1. \/ UNCHANGED map
            \/ ~Map!Usable'
            \/ \E k \in Term : OthersKept(k)
        BY <1>1, <2>4, CallStep DEF CallMap
      <3> QED
        BY <3>1 DEF OthersKept
    <2>5. CASE UNCHANGED <<vars, mapVars>>
      BY <2>5 DEF mapVars
    <2> QED
      BY <1>1, <2>1, <2>2, <2>3, <2>4, <2>5 DEF Go
  <1> QED
    BY <1>1, MapsInductive, PTL DEF SortedMapSpec, ChangesOneKey, Map!ChangesOneKey

\* The map enif_make_map_from_arrays makes has the keys given, ascending and each once,
\* and each with a value given for it; the others given for the same key are dropped.
THEOREM MapIsPromised == SortedMapSpec => MakesPromised
  <1> DEFINE A == map = Map!NoMap =>
                    \/ Map!NewMap
                    \/ Map!FromArrays(Seq1(given.keys, given.n), Seq1(given.values, given.n))
  <1>1. ASSUME MapsIInv, [Go]_<<vars, mapVars>> PROVE [A]_map
    <2>1. CASE Sort
      BY <2>1 DEF Sort, mapVars
    <2>2. CASE Assemble
      <3>1. OrderIInv
        BY <1>1, <2>2 DEF MapsIInv, Assemble
      <3> QED
        BY <2>2, <3>1, AssemblePromised
    <2>3. CASE CallNew
      BY <2>3 DEF CallNew
    <2>4. CASE CallMap
      BY <1>1, <2>4, CallStep DEF CallMap
    <2>5. CASE UNCHANGED <<vars, mapVars>>
      BY <2>5 DEF mapVars
    <2> QED
      BY <1>1, <2>1, <2>2, <2>3, <2>4, <2>5 DEF Go
  <1> QED
    BY <1>1, MapsInductive, PTL DEF SortedMapSpec, MakesPromised, Seq1

=============================================================================
