-------------------------- MODULE CnifHeap_proofs ---------------------------
(***************************************************************************)
(* The heap of an environment keeps every term a caller still holds, for   *)
(* fragments and requests of every size and any number of marks, nested    *)
(* and rewound in any order the contract of a mark allows.                 *)
(***************************************************************************)
EXTENDS CnifHeap, TLAPS

Frag == Addr \cup {NoFrag}
Place == [frag : Frag, off : Nat]
Block == [frag : Addr, lo : Nat, n : Nat \ {0}]
Mark == [frag : Frag, top : Place, usable : BOOLEAN, given : Nat]

HeapTyped ==
    /\ alive \in BOOLEAN
    /\ frags \in Seq(Addr) /\ size \in [DOMAIN size -> Nat]
    /\ top \in Place
    /\ blocks \in Seq(Block)
    /\ marks \in Seq(Mark)

\* The fragment at a place of the chain, of which 0 is before the first
FragAt(k) == IF k = 0 THEN NoFrag ELSE frags[k]

\* Without an environment there is nothing to rewind to
Idle == ~alive => frags = <<>> /\ \A i \in 1 .. Len(marks) : ~marks[i].usable

\* A mark begun when the p-th fragment was the last: what was handed out before it
\* is in the first p fragments, above its top in the p-th, and what was handed out
\* after it is below
MarkedAt(m, p) ==
    /\ m.frag = FragAt(p) /\ m.top.frag = m.frag
    /\ IF p = 0 THEN m.top.off = 0 ELSE m.top.off <= size[m.frag]
    /\ m.frag = LastFrag => top.off <= m.top.off
    /\ m.given <= Len(blocks)
    /\ \A j \in 1 .. m.given :
         /\ \E q \in 1 .. p : blocks[j].frag = frags[q]
         /\ blocks[j].frag = m.frag => blocks[j].lo >= m.top.off
    /\ \A j \in m.given + 1 .. Len(blocks) : blocks[j].frag = m.frag =>
         blocks[j].lo + blocks[j].n <= m.top.off

Marked ==
    \A i \in 1 .. Len(marks) : marks[i].usable =>
        \E p \in 0 .. Len(frags) : MarkedAt(marks[i], p)

\* The younger of two marks is not below the older
Above(m, n) ==
    /\ m.given <= n.given
    /\ \A p, q \in 0 .. Len(frags) : m.frag = FragAt(p) /\ n.frag = FragAt(q) => p <= q
    /\ m.frag = n.frag => n.top.off <= m.top.off

Nested ==
    \A i, j \in 1 .. Len(marks) :
        i < j /\ marks[i].usable /\ marks[j].usable => Above(marks[i], marks[j])

HeapIInv ==
    HeapTyped /\ Idle /\ NoFragmentLeaks /\ TopInLast /\ TermsIntact /\ Marked /\ Nested

-----------------------------------------------------------------------------
\* The elements of a sequence with one more.
LEMMA AppendedElements ==
    ASSUME NEW R, NEW s \in Seq(R), NEW e \in R
    PROVE  /\ Append(s, e) \in Seq(R) /\ Len(Append(s, e)) = Len(s) + 1
           /\ \A k \in 1 .. Len(s) : Append(s, e)[k] = s[k]
           /\ Append(s, e)[Len(s) + 1] = e
  OBVIOUS

\* The first elements of a sequence.
LEMMA FirstElements ==
    ASSUME NEW R, NEW s \in Seq(R), NEW k \in 0 .. Len(s)
    PROVE  /\ SubSeq(s, 1, k) \in Seq(R) /\ Len(SubSeq(s, 1, k)) = k
           /\ \A j \in 1 .. k : SubSeq(s, 1, k)[j] = s[j]
  OBVIOUS

\* The type of an element of a sequence.
LEMMA SeqElement ==
    ASSUME NEW R, NEW s \in Seq(R), NEW k \in 1 .. Len(s)
    PROVE  s[k] \in R
  OBVIOUS

\* Two places of the chain hold different fragments.
LEMMA FragAtInjective ==
    ASSUME HeapTyped, NoFragmentLeaks,
           NEW p \in 0 .. Len(frags), NEW q \in 0 .. Len(frags), FragAt(p) = FragAt(q)
    PROVE  p = q
  <1>1. \A k \in 1 .. Len(frags) : frags[k] \in Addr /\ frags[k] # NoFrag
    BY HeapAssumption, SeqElement DEF HeapTyped
  <1>2. CASE p = 0 \/ q = 0
    BY <1>1, <1>2 DEF FragAt
  <1>3. CASE p # 0 /\ q # 0
    <2>1. p \in 1 .. Len(frags) /\ q \in 1 .. Len(frags)
      BY <1>3
    <2> QED
      BY <1>3, <2>1 DEF NoFragmentLeaks, FragAt
  <1> QED
    BY <1>2, <1>3

\* The walk that stops at a fragment of the chain stops at its place.
LEMMA UpToIs ==
    ASSUME HeapTyped, NoFragmentLeaks, NEW p \in 0 .. Len(frags)
    PROVE  UpTo(FragAt(p)) = p
  <1> DEFINE Stop(k) == /\ k = 0 \/ frags[k] = FragAt(p)
                        /\ \A j \in k + 1 .. Len(frags) : frags[j] # FragAt(p)
  <1>1. \A j \in 1 .. Len(frags) : frags[j] = FragAt(j)
    BY DEF FragAt
  <1>2. \A j \in 1 .. Len(frags) : frags[j] = FragAt(p) => j = p
    BY <1>1, FragAtInjective
  <1>3. Stop(p)
    BY <1>1, <1>2 DEF HeapTyped
  <1>4. ASSUME NEW k \in 0 .. Len(frags), Stop(k)
        PROVE  k = p
    <2>1. CASE k = 0
      BY <1>1, <1>4, <2>1 DEF HeapTyped
    <2>2. CASE k # 0
      BY <1>2, <1>4, <2>2
    <2> QED
      BY <2>1, <2>2
  <1> HIDE DEF Stop
  <1>5. UpTo(FragAt(p)) = CHOOSE k \in 0 .. Len(frags) : Stop(k)
    BY DEF UpTo, Stop
  <1> QED
    BY <1>3, <1>4, <1>5

-----------------------------------------------------------------------------
\* A request is a number of words, and a fragment is made large enough for it.
LEMMA RequestFits ==
    ASSUME NEW n \in Request
    PROVE  /\ n \in Nat \ {0} /\ FragmentSize(n) \in Nat /\ n <= FragmentSize(n)
  <1>1. n \in Nat \ {0} /\ DEFAULT_FRAGMENT_SIZE \in Nat \ {0}
    BY HeapAssumption
  <1> QED
    BY <1>1 DEF FragmentSize

\* The initial states.
LEMMA HeapInit ==
    ASSUME Init
    PROVE  HeapIInv
  <1>1. /\ Len(frags) = 0 /\ Len(marks) = 0 /\ Len(blocks) = 0 /\ DOMAIN size = {}
    BY DEF Init
  <1>2. HeapTyped
    <2>1. size \in [DOMAIN size -> Nat]
      BY DEF Init
    <2>2. frags \in Seq(Addr) /\ blocks \in Seq(Block) /\ marks \in Seq(Mark)
      BY DEF Init
    <2>3. alive \in BOOLEAN /\ top \in Place
      BY DEF Init, Place, Frag, NULL
    <2> QED
      BY <2>1, <2>2, <2>3 DEF HeapTyped
  <1>3. Idle /\ Marked /\ Nested /\ TermsIntact
    BY <1>1 DEF Init, Idle, Marked, Nested, TermsIntact
  <1>4. NoFragmentLeaks /\ TopInLast
    BY <1>1 DEF Init, NoFragmentLeaks, TopInLast
  <1> QED
    BY <1>2, <1>3, <1>4 DEF HeapIInv

\* enif_alloc_env finds nothing left of an environment before.
LEMMA AllocEnvKeeps ==
    ASSUME HeapIInv, AllocEnv
    PROVE  HeapIInv'
  <1>1. frags = <<>> /\ \A i \in 1 .. Len(marks) : ~marks[i].usable
    BY DEF HeapIInv, Idle, AllocEnv
  <1>2. /\ alive' = TRUE /\ frags' = <<>> /\ top' = NULL /\ blocks' = <<>>
        /\ size' = size /\ marks' = marks
    BY DEF AllocEnv
  <1>3. HeapTyped'
    BY <1>2 DEF HeapIInv, HeapTyped, Place, Frag, NULL
  <1>4. (Idle /\ Marked /\ Nested)'
    BY <1>1, <1>2 DEF Idle, Marked, Nested
  <1>5. NoFragmentLeaks'
    BY <1>1, <1>2 DEF HeapIInv, NoFragmentLeaks
  <1>6. (TopInLast /\ TermsIntact)'
    BY <1>2 DEF TopInLast, TermsIntact, InChain
  <1> QED
    BY <1>3, <1>4, <1>5, <1>6 DEF HeapIInv

\* A request that fits is handed out right below top.
LEMMA AllocHereKeeps ==
    ASSUME HeapIInv, NEW n \in Request, AllocHere(n)
    PROVE  HeapIInv'
  <1> DEFINE b == [frag |-> top.frag, lo |-> top.off - n, n |-> n]
             L == Len(blocks)
  <1>1. /\ alive /\ alive' = alive /\ frags' = frags /\ size' = size /\ marks' = marks
        /\ top # NULL /\ top.off >= n
        /\ top' = [frag |-> top.frag, off |-> top.off - n]
        /\ blocks' = Append(blocks, b)
    BY DEF AllocHere, Hand
  <1>2. n \in Nat \ {0} /\ top \in Place /\ top.off \in Nat
    BY RequestFits DEF HeapIInv, HeapTyped, Place
  <1>3. /\ frags # <<>> /\ Len(frags) \in 1 .. Len(frags) /\ top.frag = LastFrag
        /\ LastFrag = frags[Len(frags)] /\ LastFrag \in Addr /\ top.off <= size[LastFrag]
        /\ LastFrag' = LastFrag
    BY <1>1, SeqElement DEF HeapIInv, HeapTyped, TopInLast, LastFrag
  <1>4. b \in Block
    BY <1>1, <1>2, <1>3 DEF Block
  <1>5. /\ L \in Nat /\ Len(blocks') = L + 1 /\ blocks' \in Seq(Block)
        /\ \A k \in 1 .. L : blocks'[k] = blocks[k] /\ blocks[k] \in Block
        /\ blocks'[L + 1] = b
    BY <1>1, <1>4, AppendedElements, SeqElement DEF HeapIInv, HeapTyped
  <1> HIDE DEF b, L
  <1>6. b.frag = LastFrag /\ b.lo = top.off - n /\ b.n = n
    BY <1>3 DEF b
  <1>7. HeapTyped'
    BY <1>1, <1>2, <1>3, <1>5 DEF HeapIInv, HeapTyped, Place, Frag
  <1>8. Idle' /\ NoFragmentLeaks'
    BY <1>1 DEF HeapIInv, Idle, NoFragmentLeaks
  <1>9. \A k \in 1 .. L : blocks[k].frag = LastFrag => blocks[k].lo >= top.off
    BY DEF HeapIInv, TopInLast, L
  <1>10. TopInLast'
    <2>1. top' # NULL
      BY <1>1, <1>3, HeapAssumption DEF NULL
    <2>2. top'.frag = LastFrag' /\ top'.off <= size'[LastFrag']
      BY <1>1, <1>2, <1>3, <1>7 DEF HeapIInv, HeapTyped, NoFragmentLeaks
    <2>3. \A k \in 1 .. Len(blocks') : blocks'[k].frag = LastFrag' => blocks'[k].lo >= top'.off
      <3> SUFFICES ASSUME NEW k \in 1 .. Len(blocks'), blocks'[k].frag = LastFrag'
                   PROVE  blocks'[k].lo >= top'.off
        OBVIOUS
      <3>1. CASE k = L + 1
        BY <1>1, <1>2, <1>5, <1>6, <3>1
      <3>2. CASE k # L + 1
        <4>1. k \in 1 .. L
          BY <1>5, <3>2
        <4>2. blocks[k].lo \in Nat /\ blocks[k].lo >= top.off
          BY <1>3, <1>5, <1>9, <4>1 DEF Block
        <4> QED
          BY <1>1, <1>2, <1>5, <4>1, <4>2
      <3> QED
        BY <3>1, <3>2
    <2> QED
      BY <1>1, <1>3, <2>1, <2>2, <2>3 DEF TopInLast
  <1>11. TermsIntact'
    <2>1. \A k \in 1 .. L : /\ InChain(blocks[k].frag) /\ blocks[k].frag \in DOMAIN size
                            /\ 0 <= blocks[k].lo
                            /\ blocks[k].lo + blocks[k].n <= size[blocks[k].frag]
      BY DEF HeapIInv, TermsIntact, L
    <2>2. \A j, k \in 1 .. L : j < k /\ blocks[j].frag = blocks[k].frag =>
            blocks[k].lo + blocks[k].n <= blocks[j].lo
      BY DEF HeapIInv, TermsIntact, L
    <2>3. InChain(b.frag) /\ b.frag \in DOMAIN size /\ 0 <= b.lo /\ b.lo + b.n <= size[b.frag]
      BY <1>1, <1>2, <1>3, <1>6 DEF HeapIInv, InChain, NoFragmentLeaks
    <2>4. \A k \in 1 .. L : blocks[k].frag = b.frag => b.lo + b.n <= blocks[k].lo
      BY <1>2, <1>5, <1>6, <1>9 DEF Block
    <2>5. ASSUME NEW k \in 1 .. Len(blocks')
          PROVE  /\ InChain(blocks[k].frag)' /\ blocks'[k].frag \in DOMAIN size'
                 /\ 0 <= blocks'[k].lo /\ blocks'[k].lo + blocks'[k].n <= size'[blocks'[k].frag]
      <3>1. CASE k = L + 1
        BY <1>1, <1>5, <2>3, <3>1 DEF InChain
      <3>2. CASE k \in 1 .. L
        BY <1>1, <1>5, <2>1, <3>2 DEF InChain
      <3> QED
        BY <1>5, <3>1, <3>2
    <2>6. ASSUME NEW j \in 1 .. Len(blocks'), NEW k \in 1 .. Len(blocks'),
                 j < k, blocks'[j].frag = blocks'[k].frag
          PROVE  blocks'[k].lo + blocks'[k].n <= blocks'[j].lo
      <3>1. j \in 1 .. L
        BY <1>5, <2>6
      <3>2. CASE k = L + 1
        BY <1>5, <2>4, <2>6, <3>1, <3>2
      <3>3. CASE k \in 1 .. L
        BY <1>5, <2>2, <2>6, <3>1, <3>3
      <3> QED
        BY <1>5, <3>2, <3>3
    <2> QED
      BY <2>5, <2>6 DEF TermsIntact
  <1>12. Marked'
    <2> SUFFICES ASSUME NEW i \in 1 .. Len(marks), marks[i].usable
                 PROVE  \E p \in 0 .. Len(frags) : MarkedAt(marks[i], p)'
      BY <1>1 DEF Marked
    <2> DEFINE m == marks[i]
    <2>1. m \in Mark
      BY SeqElement DEF HeapIInv, HeapTyped
    <2>2. PICK p \in 0 .. Len(frags) : MarkedAt(m, p)
      BY DEF HeapIInv, Marked
    <2> HIDE DEF m
    <2>3. /\ m.frag = FragAt(p) /\ m.top.frag = m.frag
          /\ IF p = 0 THEN m.top.off = 0 ELSE m.top.off <= size[m.frag]
          /\ m.frag = LastFrag => top.off <= m.top.off
          /\ m.given <= L /\ m.given \in Nat /\ m.top.off \in Nat
      BY <2>1, <2>2 DEF MarkedAt, Mark, Place, L
    <2>4. /\ m.frag = FragAt(p)' /\ m.top.frag = m.frag
          /\ IF p = 0 THEN m.top.off = 0 ELSE m.top.off <= size'[m.frag]
          /\ m.given <= Len(blocks')
      BY <1>1, <1>5, <2>3 DEF FragAt
    <2>5. m.frag = LastFrag' => top'.off <= m.top.off
      BY <1>1, <1>2, <1>3, <2>3
    <2>6. \A j \in 1 .. m.given :
            /\ \E q \in 1 .. p : blocks'[j].frag = frags'[q]
            /\ blocks'[j].frag = m.frag => blocks'[j].lo >= m.top.off
      BY <1>1, <1>5, <2>2, <2>3 DEF MarkedAt
    <2>7. ASSUME NEW j \in m.given + 1 .. Len(blocks'), blocks'[j].frag = m.frag
          PROVE  blocks'[j].lo + blocks'[j].n <= m.top.off
      <3>1. CASE j = L + 1
        BY <1>2, <1>5, <1>6, <2>3, <2>7, <3>1
      <3>2. CASE j # L + 1
        <4>1. j \in m.given + 1 .. L /\ j \in 1 .. L
          BY <1>5, <2>3, <3>2
        <4> QED
          BY <1>5, <2>2, <2>7, <4>1 DEF MarkedAt, L
      <3> QED
        BY <3>1, <3>2
    <2>8. MarkedAt(m, p)'
      BY <1>1, <2>4, <2>5, <2>6, <2>7 DEF MarkedAt, m
    <2> QED
      BY <2>8 DEF m
  <1>13. Nested'
    BY <1>1 DEF HeapIInv, Nested, Above, FragAt
  <1> QED
    BY <1>7, <1>8, <1>10, <1>11, <1>12, <1>13 DEF HeapIInv

\* A new fragment comes last in the chain, at an address no fragment has.
LEMMA AllocFragmentKeeps ==
    ASSUME HeapIInv, NEW n \in Request, NEW a \in Addr, AllocFragment(n, a)
    PROVE  HeapIInv'
  <1> DEFINE S == FragmentSize(n)
             b == [frag |-> a, lo |-> S - n, n |-> n]
             L == Len(blocks)
             K == Len(frags)
  <1>1. /\ alive /\ alive' = alive /\ marks' = marks /\ a \notin DOMAIN size
        /\ frags' = Append(frags, a)
        /\ size' = [x \in DOMAIN size \cup {a} |-> IF x = a THEN S ELSE size[x]]
        /\ top' = [frag |-> a, off |-> S - n]
        /\ blocks' = Append(blocks, b)
    BY DEF AllocFragment, Hand
  <1>2. n \in Nat \ {0} /\ S \in Nat /\ n <= S
    BY RequestFits
  <1>3. /\ K \in Nat /\ Len(frags') = K + 1 /\ frags' \in Seq(Addr) /\ frags'[K + 1] = a
        /\ \A k \in 1 .. K : frags'[k] = frags[k] /\ frags[k] \in Addr /\ frags[k] \in DOMAIN size
    BY <1>1, AppendedElements, SeqElement DEF HeapIInv, HeapTyped, NoFragmentLeaks
  <1>4. b \in Block
    BY <1>2 DEF Block
  <1>5. /\ L \in Nat /\ Len(blocks') = L + 1 /\ blocks' \in Seq(Block)
        /\ \A k \in 1 .. L : blocks'[k] = blocks[k] /\ blocks[k] \in Block
        /\ blocks'[L + 1] = b
    BY <1>1, <1>4, AppendedElements, SeqElement DEF HeapIInv, HeapTyped
  <1>6. b.frag = a /\ b.lo = S - n /\ b.n = n
    OBVIOUS
  <1> HIDE DEF S, b, L, K
  <1>7. DOMAIN size = {frags[k] : k \in 1 .. K} /\ \A f \in DOMAIN size : size[f] \in Nat
    BY DEF HeapIInv, HeapTyped, NoFragmentLeaks, K
  <1>8. DOMAIN size' = DOMAIN size \cup {a} /\ size'[a] = S /\ \A f \in DOMAIN size : size'[f] = size[f]
    BY <1>1
  <1>9. frags' # <<>> /\ LastFrag' = a
    BY <1>3 DEF LastFrag
  <1>10. HeapTyped'
    <2>1. size' \in [DOMAIN size' -> Nat]
      BY <1>1, <1>2, <1>7, <1>8
    <2>2. top' \in Place
      BY <1>1, <1>2 DEF Place, Frag
    <2> QED
      BY <1>1, <1>3, <1>5, <2>1, <2>2 DEF HeapIInv, HeapTyped
  <1>11. Idle'
    BY <1>1 DEF Idle
  <1>12. NoFragmentLeaks'
    <2>1. \A j, k \in 1 .. K : frags[j] = frags[k] => j = k
      BY DEF HeapIInv, NoFragmentLeaks, K
    <2>2. DOMAIN size' = {frags'[k] : k \in 1 .. Len(frags')}
      <3>1. ASSUME NEW f \in DOMAIN size'
            PROVE  \E k \in 1 .. Len(frags') : frags'[k] = f
        <4>1. CASE f = a
          BY <1>3, <4>1
        <4>2. CASE f \in DOMAIN size
          <5>1. PICK k \in 1 .. K : frags[k] = f
            BY <1>7, <4>2
          <5> QED
            BY <1>3, <5>1
        <4> QED
          BY <1>8, <4>1, <4>2
      <3>2. ASSUME NEW k \in 1 .. Len(frags')
            PROVE  frags'[k] \in DOMAIN size'
        <4>1. CASE k = K + 1
          BY <1>3, <1>8, <4>1
        <4>2. CASE k \in 1 .. K
          BY <1>3, <1>8, <4>2
        <4> QED
          BY <1>3, <4>1, <4>2
      <3> QED
        BY <3>1, <3>2
    <2>3. ASSUME NEW j \in 1 .. Len(frags'), NEW k \in 1 .. Len(frags'), frags'[j] = frags'[k]
          PROVE  j = k
      <3>1. CASE j \in 1 .. K /\ k \in 1 .. K
        BY <1>3, <2>1, <2>3, <3>1
      <3>2. CASE j = K + 1 /\ k \in 1 .. K
        BY <1>1, <1>3, <2>3, <3>2
      <3>3. CASE j \in 1 .. K /\ k = K + 1
        BY <1>1, <1>3, <2>3, <3>3
      <3> QED
        BY <1>3, <3>1, <3>2, <3>3
    <2> QED
      BY <2>2, <2>3 DEF NoFragmentLeaks
  <1>13. \A k \in 1 .. L : /\ InChain(blocks[k].frag) /\ blocks[k].frag \in DOMAIN size
                           /\ 0 <= blocks[k].lo
                           /\ blocks[k].lo + blocks[k].n <= size[blocks[k].frag]
                           /\ blocks[k].frag # a
    BY <1>1 DEF HeapIInv, TermsIntact, L
  <1>14. TopInLast'
    <2>1. top' # NULL
      BY <1>1, HeapAssumption DEF NULL
    <2>2. top'.frag = LastFrag' /\ top'.off <= size'[LastFrag']
      BY <1>1, <1>2, <1>8, <1>9
    <2>3. \A k \in 1 .. Len(blocks') : blocks'[k].frag = LastFrag' => blocks'[k].lo >= top'.off
      <3> SUFFICES ASSUME NEW k \in 1 .. Len(blocks'), blocks'[k].frag = LastFrag'
                   PROVE  blocks'[k].lo >= top'.off
        OBVIOUS
      <3>1. k = L + 1
        BY <1>5, <1>9, <1>13
      <3> QED
        BY <1>1, <1>2, <1>5, <1>6, <3>1
    <2> QED
      BY <1>9, <2>1, <2>2, <2>3 DEF TopInLast
  <1>15. TermsIntact'
    <2>1. ASSUME NEW k \in 1 .. Len(blocks')
          PROVE  /\ InChain(blocks[k].frag)' /\ blocks'[k].frag \in DOMAIN size'
                 /\ 0 <= blocks'[k].lo /\ blocks'[k].lo + blocks'[k].n <= size'[blocks'[k].frag]
      <3>1. CASE k = L + 1
        <4>1. InChain(blocks[k].frag)'
          BY <1>3, <1>5, <1>6, <3>1 DEF InChain
        <4> QED
          BY <1>2, <1>5, <1>6, <1>8, <3>1, <4>1
      <3>2. CASE k \in 1 .. L
        <4>1. PICK q \in 1 .. K : frags[q] = blocks[k].frag
          BY <1>13, <3>2 DEF InChain, K
        <4>2. InChain(blocks[k].frag)'
          BY <1>3, <1>5, <3>2, <4>1 DEF InChain
        <4> QED
          BY <1>5, <1>8, <1>13, <3>2, <4>2
      <3> QED
        BY <1>5, <3>1, <3>2
    <2>2. ASSUME NEW j \in 1 .. Len(blocks'), NEW k \in 1 .. Len(blocks'),
                 j < k, blocks'[j].frag = blocks'[k].frag
          PROVE  blocks'[k].lo + blocks'[k].n <= blocks'[j].lo
      <3>1. j \in 1 .. L
        BY <1>5, <2>2
      <3>2. k \in 1 .. L
        BY <1>5, <1>6, <1>13, <2>2, <3>1
      <3> QED
        BY <1>5, <2>2, <3>1, <3>2 DEF HeapIInv, TermsIntact, L
    <2> QED
      BY <2>1, <2>2 DEF TermsIntact
  <1>16. \A p \in 0 .. K : FragAt(p)' = FragAt(p) /\ FragAt(p) # a
    BY <1>1, <1>3, HeapAssumption DEF FragAt
  <1>17. Marked'
    <2> SUFFICES ASSUME NEW i \in 1 .. Len(marks), marks[i].usable
                 PROVE  \E p \in 0 .. Len(frags') : MarkedAt(marks[i], p)'
      BY <1>1 DEF Marked
    <2> DEFINE m == marks[i]
    <2>1. m \in Mark
      BY SeqElement DEF HeapIInv, HeapTyped
    <2>2. PICK p \in 0 .. K : MarkedAt(m, p)
      BY DEF HeapIInv, Marked, K
    <2> HIDE DEF m
    <2>3. /\ m.frag = FragAt(p) /\ m.top.frag = m.frag
          /\ IF p = 0 THEN m.top.off = 0 ELSE m.top.off <= size[m.frag]
          /\ m.given <= L /\ m.given \in Nat /\ m.frag # a
      BY <1>16, <2>1, <2>2 DEF MarkedAt, Mark, L
    <2>4. p # 0 => m.frag \in DOMAIN size
      BY <1>3, <2>3 DEF FragAt
    <2>5. /\ m.frag = FragAt(p)' /\ m.top.frag = m.frag
          /\ IF p = 0 THEN m.top.off = 0 ELSE m.top.off <= size'[m.frag]
          /\ m.given <= Len(blocks')
      BY <1>5, <1>8, <1>16, <2>3, <2>4
    <2>6. m.frag = LastFrag' => top'.off <= m.top.off
      BY <1>9, <2>3
    <2>7. ASSUME NEW j \in 1 .. m.given
          PROVE  /\ \E q \in 1 .. p : blocks'[j].frag = frags'[q]
                 /\ blocks'[j].frag = m.frag => blocks'[j].lo >= m.top.off
      <3>1. j \in 1 .. L
        BY <1>5, <2>3
      <3>2. PICK q \in 1 .. p : blocks[j].frag = frags[q]
        BY <2>2 DEF MarkedAt
      <3>3. q \in 1 .. K /\ frags'[q] = frags[q]
        BY <1>3, <3>2
      <3>4. blocks[j].frag = m.frag => blocks[j].lo >= m.top.off
        BY <2>2 DEF MarkedAt
      <3> QED
        BY <1>5, <3>1, <3>2, <3>3, <3>4
    <2>8. ASSUME NEW j \in m.given + 1 .. Len(blocks'), blocks'[j].frag = m.frag
          PROVE  blocks'[j].lo + blocks'[j].n <= m.top.off
      <3>1. j \in m.given + 1 .. L /\ j \in 1 .. L
        BY <1>5, <1>6, <2>3, <2>8
      <3> QED
        BY <1>5, <2>2, <2>8, <3>1 DEF MarkedAt, L
    <2>9. /\ \A j \in 1 .. m.given :
               /\ \E q \in 1 .. p : blocks'[j].frag = frags'[q]
               /\ blocks'[j].frag = m.frag => blocks'[j].lo >= m.top.off
          /\ \A j \in m.given + 1 .. Len(blocks') : blocks'[j].frag = m.frag =>
               blocks'[j].lo + blocks'[j].n <= m.top.off
      BY <2>7, <2>8
    <2>10. MarkedAt(m, p)'
      BY <1>1, <2>5, <2>6, <2>9 DEF MarkedAt, m
    <2>11. p \in 0 .. Len(frags')
      BY <1>3
    <2> QED
      BY <2>10, <2>11 DEF m
  <1>18. Nested'
    <2> SUFFICES ASSUME NEW i \in 1 .. Len(marks), NEW j \in 1 .. Len(marks),
                        i < j, marks[i].usable, marks[j].usable
                 PROVE  Above(marks[i], marks[j])'
      BY <1>1 DEF Nested
    <2>1. Above(marks[i], marks[j])
      BY DEF HeapIInv, Nested
    <2>2. /\ marks[i].frag \in {FragAt(p) : p \in 0 .. K} /\ marks[i].frag # a
          /\ marks[j].frag \in {FragAt(p) : p \in 0 .. K} /\ marks[j].frag # a
      BY <1>16 DEF HeapIInv, Marked, MarkedAt, K
    <2>3. \A p \in {K + 1} : FragAt(p)' = a
      BY <1>3 DEF FragAt
    <2>4. ASSUME NEW p \in 0 .. Len(frags'), NEW q \in 0 .. Len(frags'),
                 marks[i].frag = FragAt(p)', marks[j].frag = FragAt(q)'
          PROVE  p <= q
      <3>1. p # K + 1 /\ q # K + 1
        BY <2>2, <2>3, <2>4
      <3>2. p \in 0 .. K /\ q \in 0 .. K
        BY <1>3, <3>1
      <3> QED
        BY <1>16, <2>1, <2>4, <3>2 DEF Above, K
    <2> QED
      BY <1>1, <2>1, <2>4 DEF Above
  <1> QED
    BY <1>10, <1>11, <1>12, <1>14, <1>15, <1>17, <1>18 DEF HeapIInv

-----------------------------------------------------------------------------
\* What Without and Spoilt do to a sequence of marks.
LEMMA WithoutElements ==
    ASSUME NEW R, NEW s \in Seq(R), NEW i \in 1 .. Len(s)
    PROVE  /\ Without(s, i) \in Seq(R) /\ Len(Without(s, i)) = Len(s) - 1
           /\ \A j \in 1 .. Len(s) - 1 :
                Without(s, i)[j] = IF j < i THEN s[j] ELSE s[j + 1]
  <1>1. Len(s) \in Nat /\ \A j \in 1 .. Len(s) : s[j] \in R
    BY SeqElement
  <1>2. Without(s, i) = [j \in 1 .. Len(s) - 1 |-> IF j < i THEN s[j] ELSE s[j + 1]]
    BY DEF Without
  <1>3. \A j \in 1 .. Len(s) - 1 : (IF j < i THEN s[j] ELSE s[j + 1]) \in R
    BY <1>1
  <1>4. Len(s) - 1 \in Nat
    BY <1>1
  <1> QED
    BY <1>2, <1>3, <1>4

LEMMA SpoiltElements ==
    ASSUME NEW s \in Seq(Mark), NEW i \in Nat
    PROVE  /\ Spoilt(s, i) \in Seq(Mark) /\ Len(Spoilt(s, i)) = Len(s)
           /\ \A j \in 1 .. Len(s) : /\ j < i => Spoilt(s, i)[j] = s[j]
                                     /\ j >= i => ~Spoilt(s, i)[j].usable
  <1>1. Len(s) \in Nat /\ \A j \in 1 .. Len(s) : s[j] \in Mark
    BY SeqElement
  <1>2. \A m \in Mark : /\ [m EXCEPT !.usable = FALSE] \in Mark
                        /\ ~[m EXCEPT !.usable = FALSE].usable
    BY DEF Mark
  <1>3. Spoilt(s, i) = [j \in 1 .. Len(s) |-> IF j < i THEN s[j]
                                              ELSE [s[j] EXCEPT !.usable = FALSE]]
    BY DEF Spoilt
  <1>4. \A j \in 1 .. Len(s) :
          (IF j < i THEN s[j] ELSE [s[j] EXCEPT !.usable = FALSE]) \in Mark
    BY <1>1, <1>2
  <1>5. Spoilt(s, i) \in Seq(Mark) /\ Len(Spoilt(s, i)) = Len(s)
    BY <1>1, <1>3, <1>4
  <1>6. ASSUME NEW j \in 1 .. Len(s)
        PROVE  /\ j < i => Spoilt(s, i)[j] = s[j]
               /\ j >= i => ~Spoilt(s, i)[j].usable
    BY <1>1, <1>2, <1>3
  <1> QED
    BY <1>5, <1>6

\* A mark begun now is at the last fragment, where nothing is handed out below top.
LEMMA BeginKeeps ==
    ASSUME HeapIInv, Begin
    PROVE  HeapIInv'
  <1> DEFINE new == [frag |-> LastFrag, top |-> top, usable |-> TRUE, given |-> Len(blocks)]
             N == Len(marks)
             K == Len(frags)
  <1>1. /\ alive /\ alive' = alive /\ frags' = frags /\ size' = size /\ top' = top
        /\ blocks' = blocks /\ marks' = Append(marks, new)
    BY DEF Begin
  <1>2. K \in Nat /\ LastFrag = FragAt(K) /\ LastFrag \in Frag
    BY SeqElement DEF HeapIInv, HeapTyped, LastFrag, FragAt, Frag
  <1>3. new \in Mark
    BY <1>2 DEF HeapIInv, HeapTyped, Mark
  <1>4. /\ N \in Nat /\ Len(marks') = N + 1 /\ marks' \in Seq(Mark)
        /\ \A i \in 1 .. N : marks'[i] = marks[i]
        /\ marks'[N + 1] = new
    BY <1>1, <1>3, AppendedElements DEF HeapIInv, HeapTyped
  <1>5. HeapTyped' /\ Idle' /\ NoFragmentLeaks' /\ TopInLast' /\ TermsIntact'
    <2>1. HeapTyped'
      BY <1>1, <1>4 DEF HeapIInv, HeapTyped
    <2>2. Idle'
      BY <1>1 DEF Idle
    <2>3. NoFragmentLeaks' /\ TopInLast' /\ TermsIntact'
      BY <1>1 DEF HeapIInv, NoFragmentLeaks, TopInLast, TermsIntact, LastFrag, InChain
    <2> QED
      BY <2>1, <2>2, <2>3
  <1>6. new.frag = LastFrag /\ new.top = top /\ new.given = Len(blocks)
    OBVIOUS
  <1> HIDE DEF new, N, K
  <1>7. MarkedAt(new, K)
    <2>1. top \in Place /\ frags \in Seq(Addr) /\ Len(blocks) \in Nat
      BY DEF HeapIInv, HeapTyped
    <2>2. CASE frags = <<>>
      <3>1. K = 0 /\ FragAt(K) = NoFrag /\ top.frag = NoFrag /\ top.off = 0
        BY <2>2 DEF HeapIInv, TopInLast, NULL, K, FragAt
      <3>2. \A j \in 1 .. Len(blocks) : FALSE
        BY <2>2 DEF HeapIInv, TermsIntact, InChain
      <3> QED
        BY <1>2, <1>6, <2>1, <3>1, <3>2 DEF MarkedAt, Place
    <2>3. CASE frags # <<>>
      <3>1. K # 0 /\ top.frag = LastFrag /\ top.off <= size[LastFrag] /\ top.off \in Nat
        BY <2>1, <2>3 DEF HeapIInv, TopInLast, K, Place
      <3>2. \A j \in 1 .. Len(blocks) : \E q \in 1 .. K : blocks[j].frag = frags[q]
        BY DEF HeapIInv, TermsIntact, InChain, K
      <3>3. \A j \in 1 .. Len(blocks) : blocks[j].frag = LastFrag => blocks[j].lo >= top.off
        BY DEF HeapIInv, TopInLast
      <3> QED
        BY <1>2, <1>6, <2>1, <3>1, <3>2, <3>3 DEF MarkedAt
    <2> QED
      BY <2>2, <2>3
  <1>8. \A m, p : MarkedAt(m, p) => /\ m.frag = FragAt(p)
                                    /\ m.given <= Len(blocks)
                                    /\ m.frag = LastFrag => top.off <= m.top.off
    BY DEF MarkedAt
  <1>9. Marked'
    <2> SUFFICES ASSUME NEW i \in 1 .. Len(marks'), marks'[i].usable
                 PROVE  \E p \in 0 .. Len(frags') : MarkedAt(marks[i], p)'
      BY DEF Marked
    <2>1. PICK p \in 0 .. K : MarkedAt(marks'[i], p)
      <3>1. CASE i = N + 1
        BY <1>2, <1>4, <1>7, <3>1
      <3>2. CASE i \in 1 .. N
        BY <1>4, <3>2 DEF HeapIInv, Marked, N, K
      <3> QED
        BY <1>4, <3>1, <3>2
    <2>2. MarkedAt(marks[i], p)'
      BY <1>1, <2>1 DEF MarkedAt, FragAt, LastFrag
    <2> QED
      BY <1>1, <2>2 DEF K
  <1>10. Nested'
    <2> SUFFICES ASSUME NEW i \in 1 .. Len(marks'), NEW j \in 1 .. Len(marks'),
                        i < j, marks'[i].usable, marks'[j].usable
                 PROVE  Above(marks[i], marks[j])'
      BY DEF Nested
    <2>1. Above(marks'[i], marks'[j])
      <3>1. i \in 1 .. N /\ marks'[i] = marks[i]
        BY <1>4
      <3>2. CASE j \in 1 .. N
        BY <1>4, <3>1, <3>2 DEF HeapIInv, Nested, N
      <3>3. CASE j = N + 1
        <4>1. PICK p \in 0 .. K : MarkedAt(marks[i], p)
          BY <3>1 DEF HeapIInv, Marked, N, K
        <4>2. ASSUME NEW q \in 0 .. K, new.frag = FragAt(q)
              PROVE  q = K
          <5>1. K \in 0 .. K /\ FragAt(q) = FragAt(K)
            BY <1>2, <1>6, <4>2
          <5> QED
            BY <5>1, FragAtInjective DEF HeapIInv, K
        <4>3. \A q, r \in 0 .. K : marks[i].frag = FragAt(q) /\ new.frag = FragAt(r) => q <= r
          BY <1>2, <4>2
        <4> QED
          BY <1>4, <1>6, <1>8, <3>1, <3>3, <4>1, <4>3 DEF Above, K
      <3> QED
        BY <1>4, <3>2, <3>3
    <2> QED
      BY <1>1, <2>1 DEF Above, FragAt
  <1> QED
    BY <1>5, <1>9, <1>10 DEF HeapIInv

\* A mark that is forgotten leaves the others as they are.
LEMMA CommitKeeps ==
    ASSUME HeapIInv, NEW i \in 1 .. Len(marks), Commit(i)
    PROVE  HeapIInv'
  <1> DEFINE N == Len(marks)
             Was(j) == IF j < i THEN j ELSE j + 1
  <1>1. /\ alive' = alive /\ frags' = frags /\ size' = size /\ top' = top
        /\ blocks' = blocks /\ marks' = Without(marks, i)
    BY DEF Commit
  <1>2. N \in Nat /\ Len(marks') = N - 1 /\ marks' \in Seq(Mark)
    BY <1>1, WithoutElements DEF HeapIInv, HeapTyped
  <1>3. \A j \in 1 .. N - 1 : marks'[j] = marks[Was(j)]
    BY <1>1, WithoutElements DEF HeapIInv, HeapTyped
  <1>4. \A j \in 1 .. N - 1 : Was(j) \in 1 .. N
    BY <1>2
  <1>5. \A j, k \in 1 .. N - 1 : j < k => Was(j) < Was(k)
    BY <1>2
  <1> HIDE DEF N, Was
  <1>6. HeapTyped' /\ Idle' /\ NoFragmentLeaks' /\ TopInLast' /\ TermsIntact'
    <2>1. HeapTyped'
      BY <1>1, <1>2 DEF HeapIInv, HeapTyped
    <2>2. Idle'
      BY <1>1, <1>2, <1>3, <1>4 DEF HeapIInv, Idle, N
    <2>3. NoFragmentLeaks' /\ TopInLast' /\ TermsIntact'
      BY <1>1 DEF HeapIInv, NoFragmentLeaks, TopInLast, TermsIntact, LastFrag, InChain
    <2> QED
      BY <2>1, <2>2, <2>3
  <1>7. Marked'
    <2> SUFFICES ASSUME NEW j \in 1 .. Len(marks'), marks'[j].usable
                 PROVE  \E p \in 0 .. Len(frags') : MarkedAt(marks[j], p)'
      BY DEF Marked
    <2>1. PICK p \in 0 .. Len(frags) : MarkedAt(marks'[j], p)
      BY <1>2, <1>3, <1>4 DEF HeapIInv, Marked, N
    <2>2. MarkedAt(marks[j], p)'
      BY <1>1, <2>1 DEF MarkedAt, FragAt, LastFrag
    <2> QED
      BY <1>1, <2>2
  <1>8. Nested'
    <2> SUFFICES ASSUME NEW j \in 1 .. Len(marks'), NEW k \in 1 .. Len(marks'),
                        j < k, marks'[j].usable, marks'[k].usable
                 PROVE  Above(marks[j], marks[k])'
      BY DEF Nested
    <2>1. Above(marks'[j], marks'[k])
      BY <1>2, <1>3, <1>4, <1>5 DEF HeapIInv, Nested, N
    <2> QED
      BY <1>1, <2>1 DEF Above, FragAt
  <1> QED
    BY <1>6, <1>7, <1>8 DEF HeapIInv

\* Nothing is left of an environment that is cleared.
LEMMA ClearKeeps ==
    ASSUME HeapIInv, NEW still \in BOOLEAN, Clear(still)
    PROVE  HeapIInv'
  <1>1. /\ alive' = still /\ top' = NULL /\ blocks' = <<>> /\ marks' = Spoilt(marks, 1)
        /\ frags' = SubSeq(frags, 1, 0)
        /\ size' = [x \in DOMAIN size \ {frags[j] : j \in 0 + 1 .. Len(frags)} |-> size[x]]
    BY DEF Clear, FreeFrom
  <1>2. frags' = <<>> /\ Len(frags') = 0 /\ Len(blocks') = 0
    BY <1>1 DEF HeapIInv, HeapTyped
  <1>3. /\ marks' \in Seq(Mark) /\ Len(marks') = Len(marks)
        /\ \A j \in 1 .. Len(marks') : ~marks'[j].usable
    <2>1. Len(marks) \in Nat
      BY DEF HeapIInv, HeapTyped
    <2> QED
      BY <1>1, <2>1, SpoiltElements DEF HeapIInv, HeapTyped
  <1>4. DOMAIN size' = {}
    BY <1>1 DEF HeapIInv, NoFragmentLeaks
  <1>5. HeapTyped'
    <2>1. size' \in [DOMAIN size' -> Nat]
      BY <1>1, <1>4
    <2>2. top' \in Place /\ frags' \in Seq(Addr) /\ blocks' \in Seq(Block)
      BY <1>1, <1>2 DEF NULL, Place, Frag
    <2> QED
      BY <1>1, <1>3, <2>1, <2>2 DEF HeapTyped
  <1>6. Idle' /\ Marked' /\ Nested'
    BY <1>2, <1>3 DEF Idle, Marked, Nested
  <1>7. NoFragmentLeaks' /\ TopInLast' /\ TermsIntact'
    BY <1>1, <1>2, <1>4 DEF NoFragmentLeaks, TopInLast, TermsIntact
  <1> QED
    BY <1>5, <1>6, <1>7 DEF HeapIInv

\* Rewinding takes back what was handed out since the mark was begun, and no more.
LEMMA RewindKeeps ==
    ASSUME HeapIInv, NEW i \in 1 .. Len(marks), Rewind(i)
    PROVE  HeapIInv'
  <1> DEFINE m == marks[i]
             N == Len(marks)
             K == Len(frags)
             L == Len(blocks)
  <1>1. m.usable /\ m \in Mark
    BY SeqElement DEF HeapIInv, HeapTyped, Rewind
  <1>2. PICK p \in 0 .. K : MarkedAt(m, p)
    BY <1>1 DEF HeapIInv, Marked
  <1>3. UpTo(m.frag) = p
    BY <1>2, UpToIs DEF HeapIInv, MarkedAt
  <1>4. /\ alive /\ alive' = alive /\ top' = m.top
        /\ blocks' = SubSeq(blocks, 1, m.given)
        /\ marks' = Without(Spoilt(marks, i), i)
        /\ frags' = SubSeq(frags, 1, p)
        /\ size' = [x \in DOMAIN size \ {frags[j] : j \in p + 1 .. K} |-> size[x]]
    BY <1>3 DEF Rewind, FreeFrom
  <1>5. /\ N \in Nat /\ Len(marks') = N - 1 /\ marks' \in Seq(Mark)
        /\ \A j \in 1 .. N - 1 : /\ j < i => marks'[j] = marks[j]
                                 /\ marks'[j].usable => j < i
    <2>1. marks \in Seq(Mark) /\ N \in Nat /\ i \in Nat
      BY DEF HeapIInv, HeapTyped
    <2>2. /\ Spoilt(marks, i) \in Seq(Mark) /\ Len(Spoilt(marks, i)) = N
          /\ \A j \in 1 .. N : /\ j < i => Spoilt(marks, i)[j] = marks[j]
                               /\ j >= i => ~Spoilt(marks, i)[j].usable
      BY <2>1, SpoiltElements
    <2>3. /\ marks' \in Seq(Mark) /\ Len(marks') = N - 1
          /\ \A j \in 1 .. N - 1 : marks'[j] = IF j < i THEN Spoilt(marks, i)[j]
                                               ELSE Spoilt(marks, i)[j + 1]
      BY <1>4, <2>2, WithoutElements
    <2> HIDE DEF N
    <2>4. ASSUME NEW j \in 1 .. N - 1
          PROVE  (j < i => marks'[j] = marks[j]) /\ (marks'[j].usable => j < i)
      <3>1. j \in 1 .. N /\ j + 1 \in 1 .. N
        BY <2>1
      <3>2. CASE j < i
        BY <2>2, <2>3, <3>1, <3>2
      <3>3. CASE ~(j < i)
        <4>1. marks'[j] = Spoilt(marks, i)[j + 1] /\ j + 1 >= i
          BY <2>1, <2>3, <3>3
        <4> QED
          BY <2>2, <3>1, <3>3, <4>1
      <3> QED
        BY <3>2, <3>3
    <2> QED
      BY <2>1, <2>3, <2>4
  <1>6. L \in Nat /\ m.given \in 0 .. L /\ m.top \in Place /\ m.top.off \in Nat
    BY <1>1, <1>2 DEF HeapIInv, HeapTyped, MarkedAt, Mark, Place
  <1>7. /\ blocks' \in Seq(Block) /\ Len(blocks') = m.given
        /\ \A j \in 1 .. m.given : blocks'[j] = blocks[j]
    BY <1>4, <1>6, FirstElements DEF HeapIInv, HeapTyped
  <1>8. /\ K \in Nat /\ frags' \in Seq(Addr) /\ Len(frags') = p
        /\ \A k \in 1 .. p : frags'[k] = frags[k]
    BY <1>4, FirstElements DEF HeapIInv, HeapTyped
  <1>9. /\ m.frag = FragAt(p) /\ m.top.frag = m.frag
        /\ IF p = 0 THEN m.top.off = 0 ELSE m.top.off <= size[m.frag]
        /\ \A j \in 1 .. m.given : /\ \E q \in 1 .. p : blocks[j].frag = frags[q]
                                   /\ blocks[j].frag = m.frag => blocks[j].lo >= m.top.off
    BY <1>2 DEF MarkedAt
  <1> HIDE DEF m, N, K, L
  <1>10. \A j, k \in 1 .. K : frags[j] = frags[k] => j = k
    BY DEF HeapIInv, NoFragmentLeaks, K
  <1>11. DOMAIN size = {frags[k] : k \in 1 .. K} /\ \A f \in DOMAIN size : size[f] \in Nat
    BY DEF HeapIInv, HeapTyped, NoFragmentLeaks, K
  <1>12. ASSUME NEW k \in 1 .. p
         PROVE  frags[k] \in DOMAIN size' /\ size'[frags[k]] = size[frags[k]]
    <2>1. k \in 1 .. K
      BY <1>8
    <2>2. frags[k] \in DOMAIN size /\ \A j \in p + 1 .. K : frags[j] # frags[k]
      BY <1>8, <1>10, <1>11, <2>1
    <2> QED
      BY <1>4, <2>2
  <1>13. DOMAIN size' = {frags[k] : k \in 1 .. p}
    <2>1. ASSUME NEW f \in DOMAIN size'
          PROVE  \E k \in 1 .. p : f = frags[k]
      <3>1. f \in DOMAIN size /\ \A j \in p + 1 .. K : frags[j] # f
        BY <1>4
      <3>2. PICK k \in 1 .. K : f = frags[k]
        BY <1>11, <3>1
      <3> QED
        BY <1>8, <3>1, <3>2
    <2> QED
      BY <1>12, <2>1
  <1>14. p # 0 => m.frag = frags[p] /\ p \in 1 .. p
    BY <1>8, <1>9 DEF FragAt
  <1>15. p = 0 => m.frag = NoFrag
    BY <1>9 DEF FragAt
  <1>16. /\ frags' = <<>> <=> p = 0
         /\ LastFrag' = m.frag
    BY <1>8, <1>14, <1>15 DEF LastFrag
  <1>17. HeapTyped'
    <2>1. size' \in [DOMAIN size' -> Nat]
      <3>1. \A f \in DOMAIN size' : f \in DOMAIN size /\ size'[f] = size[f]
        BY <1>4
      <3> QED
        BY <1>4, <1>11, <3>1
    <2> QED
      BY <1>4, <1>5, <1>6, <1>7, <1>8, <2>1 DEF HeapTyped
  <1>18. Idle'
    BY <1>4 DEF Idle
  <1>19. NoFragmentLeaks'
    <2>1. DOMAIN size' = {frags'[k] : k \in 1 .. Len(frags')}
      BY <1>8, <1>13
    <2>2. \A j, k \in 1 .. Len(frags') : frags'[j] = frags'[k] => j = k
      BY <1>8, <1>10
    <2> QED
      BY <2>1, <2>2 DEF NoFragmentLeaks
  <1>20. TopInLast'
    <2>1. top' = NULL <=> p = 0
      <3>1. CASE p = 0
        <4>1. m.top = NULL
          BY <1>6, <1>9, <1>15, <3>1 DEF NULL, Place
        <4> QED
          BY <1>4, <3>1, <4>1
      <3>2. CASE p # 0
        <4>1. frags[p] \in Addr
          BY <1>8, <1>14, <3>2, SeqElement DEF HeapIInv, HeapTyped, K
        <4> QED
          BY <1>4, <1>9, <1>14, <3>2, <4>1, HeapAssumption DEF NULL
      <3> QED
        BY <3>1, <3>2
    <2>2. p # 0 => top'.frag = LastFrag' /\ top'.off <= size'[LastFrag']
      BY <1>4, <1>9, <1>12, <1>14, <1>16
    <2>3. \A j \in 1 .. Len(blocks') : blocks'[j].frag = LastFrag' => blocks'[j].lo >= top'.off
      BY <1>4, <1>7, <1>9, <1>16
    <2> QED
      BY <1>16, <2>1, <2>2, <2>3 DEF TopInLast
  <1>21. TermsIntact'
    <2>1. ASSUME NEW j \in 1 .. Len(blocks')
          PROVE  /\ InChain(blocks[j].frag)' /\ blocks'[j].frag \in DOMAIN size'
                 /\ 0 <= blocks'[j].lo /\ blocks'[j].lo + blocks'[j].n <= size'[blocks'[j].frag]
      <3>1. j \in 1 .. m.given /\ j \in 1 .. L /\ blocks'[j] = blocks[j]
        BY <1>6, <1>7
      <3>2. PICK q \in 1 .. p : blocks[j].frag = frags[q]
        BY <1>9, <3>1
      <3>3. 0 <= blocks[j].lo /\ blocks[j].lo + blocks[j].n <= size[blocks[j].frag]
        BY <3>1 DEF HeapIInv, TermsIntact, L
      <3>4. InChain(blocks[j].frag)'
        BY <1>8, <3>1, <3>2 DEF InChain
      <3> QED
        BY <1>12, <3>1, <3>2, <3>3, <3>4
    <2>2. ASSUME NEW j \in 1 .. Len(blocks'), NEW k \in 1 .. Len(blocks'),
                 j < k, blocks'[j].frag = blocks'[k].frag
          PROVE  blocks'[k].lo + blocks'[k].n <= blocks'[j].lo
      <3>1. j \in 1 .. L /\ k \in 1 .. L /\ blocks'[j] = blocks[j] /\ blocks'[k] = blocks[k]
        BY <1>6, <1>7
      <3> QED
        BY <2>2, <3>1 DEF HeapIInv, TermsIntact, L
    <2> QED
      BY <2>1, <2>2 DEF TermsIntact
  <1>22. \A q \in 0 .. p : FragAt(q)' = FragAt(q)
    BY <1>8 DEF FragAt
  <1>23. ASSUME NEW j \in 1 .. Len(marks'), marks'[j].usable
         PROVE  j \in 1 .. N /\ j < i /\ marks'[j] = marks[j] /\ marks[j].usable
                /\ Above(marks[j], m) /\ marks[j] \in Mark
    <2>1. j \in 1 .. N /\ j < i /\ marks'[j] = marks[j]
      BY <1>5, <1>23
    <2>2. Above(marks[j], m)
      BY <1>1, <1>23, <2>1 DEF HeapIInv, Nested, N, m
    <2> QED
      BY <1>23, <2>1, <2>2, SeqElement DEF HeapIInv, HeapTyped, N
  <1>24. Marked'
    <2> SUFFICES ASSUME NEW j \in 1 .. Len(marks'), marks'[j].usable
                 PROVE  \E q \in 0 .. Len(frags') : MarkedAt(marks[j], q)'
      BY DEF Marked
    <2> DEFINE o == marks[j]
    <2>1. marks'[j] = o /\ o.usable /\ Above(o, m) /\ o \in Mark
      BY <1>23
    <2>2. PICK q \in 0 .. K : MarkedAt(o, q)
      BY <1>23 DEF HeapIInv, Marked, N, K
    <2> HIDE DEF o
    <2>3. /\ o.frag = FragAt(q) /\ o.top.frag = o.frag
          /\ IF q = 0 THEN o.top.off = 0 ELSE o.top.off <= size[o.frag]
          /\ \A k \in 1 .. o.given :
               /\ \E r \in 1 .. q : blocks[k].frag = frags[r]
               /\ blocks[k].frag = o.frag => blocks[k].lo >= o.top.off
          /\ \A k \in o.given + 1 .. L : blocks[k].frag = o.frag =>
               blocks[k].lo + blocks[k].n <= o.top.off
      BY <2>2 DEF MarkedAt, L
    <2>4. /\ q \in 0 .. p /\ o.given <= m.given /\ o.given \in Nat
          /\ o.frag = m.frag => m.top.off <= o.top.off
      BY <1>9, <2>1, <2>2, <2>3 DEF Above, K, Mark
    <2>5. q # 0 => o.frag = frags[q] /\ size'[o.frag] = size[o.frag]
      BY <1>8, <1>12, <2>3, <2>4 DEF FragAt
    <2>6. /\ o.frag = FragAt(q)' /\ o.top.frag = o.frag
          /\ IF q = 0 THEN o.top.off = 0 ELSE o.top.off <= size'[o.frag]
          /\ o.frag = LastFrag' => top'.off <= o.top.off
          /\ o.given <= Len(blocks')
      BY <1>4, <1>7, <1>16, <1>22, <2>3, <2>4, <2>5
    <2>7. ASSUME NEW k \in 1 .. o.given
          PROVE  /\ \E r \in 1 .. q : blocks'[k].frag = frags'[r]
                 /\ blocks'[k].frag = o.frag => blocks'[k].lo >= o.top.off
      <3>1. k \in 1 .. m.given /\ blocks'[k] = blocks[k]
        BY <1>6, <1>7, <2>4
      <3>2. PICK r \in 1 .. q : blocks[k].frag = frags[r]
        BY <2>3
      <3>3. frags'[r] = frags[r]
        BY <1>8, <2>4, <3>2
      <3> QED
        BY <2>3, <3>1, <3>2, <3>3
    <2>8. ASSUME NEW k \in o.given + 1 .. Len(blocks'), blocks'[k].frag = o.frag
          PROVE  blocks'[k].lo + blocks'[k].n <= o.top.off
      <3>1. k \in 1 .. m.given /\ k \in o.given + 1 .. L
        BY <1>6, <1>7, <2>4
      <3> QED
        BY <1>7, <2>3, <2>8, <3>1
    <2>9. /\ \A k \in 1 .. o.given :
               /\ \E r \in 1 .. q : blocks'[k].frag = frags'[r]
               /\ blocks'[k].frag = o.frag => blocks'[k].lo >= o.top.off
          /\ \A k \in o.given + 1 .. Len(blocks') : blocks'[k].frag = o.frag =>
               blocks'[k].lo + blocks'[k].n <= o.top.off
      BY <2>7, <2>8
    <2>10. MarkedAt(marks[j], q)'
      BY <2>1, <2>6, <2>9 DEF MarkedAt
    <2> QED
      BY <1>8, <2>4, <2>10
  <1>25. Nested'
    <2> SUFFICES ASSUME NEW j \in 1 .. Len(marks'), NEW k \in 1 .. Len(marks'),
                        j < k, marks'[j].usable, marks'[k].usable
                 PROVE  Above(marks[j], marks[k])'
      BY DEF Nested
    <2>1. Above(marks[j], marks[k]) /\ marks'[j] = marks[j] /\ marks'[k] = marks[k]
      BY <1>23 DEF HeapIInv, Nested, N
    <2>2. ASSUME NEW q \in 0 .. Len(frags'), NEW r \in 0 .. Len(frags'),
                 marks'[j].frag = FragAt(q)', marks'[k].frag = FragAt(r)'
          PROVE  q <= r
      <3>1. q \in 0 .. p /\ r \in 0 .. p /\ q \in 0 .. K /\ r \in 0 .. K
        BY <1>8
      <3> QED
        BY <1>22, <2>1, <2>2, <3>1 DEF Above, K
    <2> QED
      BY <2>1, <2>2 DEF Above
  <1> QED
    BY <1>17, <1>18, <1>19, <1>20, <1>21, <1>24, <1>25 DEF HeapIInv

-----------------------------------------------------------------------------
\* No step of the heap breaks the invariant.
LEMMA HeapNext ==
    ASSUME HeapIInv, [Next]_vars
    PROVE  HeapIInv'
  <1>1. CASE AllocEnv
    BY <1>1, AllocEnvKeeps
  <1>2. ASSUME NEW n \in Request, AllocHere(n)
        PROVE  HeapIInv'
    BY <1>2, AllocHereKeeps
  <1>3. ASSUME NEW n \in Request, NEW a \in Addr, AllocFragment(n, a)
        PROVE  HeapIInv'
    BY <1>3, AllocFragmentKeeps
  <1>4. CASE Begin
    BY <1>4, BeginKeeps
  <1>5. ASSUME NEW i \in 1 .. Len(marks), Rewind(i)
        PROVE  HeapIInv'
    BY <1>5, RewindKeeps
  <1>6. ASSUME NEW i \in 1 .. Len(marks), Commit(i)
        PROVE  HeapIInv'
    BY <1>6, CommitKeeps
  <1>7. ASSUME NEW still \in BOOLEAN, Clear(still)
        PROVE  HeapIInv'
    BY <1>7, ClearKeeps
  <1>8. CASE UNCHANGED vars
    BY <1>8 DEF vars, HeapIInv, HeapTyped, Idle, NoFragmentLeaks, TopInLast, TermsIntact,
                Marked, Nested, MarkedAt, Above, FragAt, LastFrag, InChain
  <1> QED
    BY <1>1, <1>2, <1>3, <1>4, <1>5, <1>6, <1>7, <1>8 DEF Next

\* The invariant: every usable mark was begun at a place of the chain, with what was
\* handed out before it above its top and what was handed out after it below, and a
\* younger mark is nowhere below an older one.
THEOREM HeapInductive == Spec => []HeapIInv
  <1>1. Init => HeapIInv
    BY HeapInit
  <1>2. HeapIInv /\ [Next]_vars => HeapIInv'
    BY HeapNext
  <1> QED
    BY <1>1, <1>2, PTL DEF Spec

\* A term handed out by cnif_heap_alloc stays whole, and overlaps no other, until it
\* is taken back, for heaps, requests and marks of any number and size.
THEOREM HeapTermsIntact == Spec => []TermsIntact
  <1>1. HeapIInv => TermsIntact
    BY DEF HeapIInv
  <1> QED
    BY <1>1, HeapInductive, PTL

\* env->top always points into the last fragment of the chain.
THEOREM HeapTopInLast == Spec => []TopInLast
  <1>1. HeapIInv => TopInLast
    BY DEF HeapIInv
  <1> QED
    BY <1>1, HeapInductive, PTL

\* Fragments are neither lost nor freed twice, whatever is rewound and cleared.
THEOREM HeapNoFragmentLeaks == Spec => []NoFragmentLeaks
  <1>1. HeapIInv => NoFragmentLeaks
    BY DEF HeapIInv
  <1> QED
    BY <1>1, HeapInductive, PTL

\* The walk of cnif_heap_rewind finds the fragment of every mark that may be rewound,
\* and what was handed out before the mark is kept.
THEOREM HeapMarksReachable == Spec => []MarksReachable
  <1>1. ASSUME HeapIInv
        PROVE  MarksReachable
    <2> SUFFICES ASSUME NEW i \in 1 .. Len(marks), marks[i].usable
                 PROVE  LET m == marks[i]
                        IN /\ m.frag = NoFrag \/ InChain(m.frag)
                           /\ m.top.frag = m.frag
                           /\ m.frag = LastFrag => top.off <= m.top.off
                           /\ m.given <= Len(blocks)
                           /\ \A j \in 1 .. m.given :
                                blocks[j].frag = m.frag => blocks[j].lo >= m.top.off
                           /\ \A j \in m.given + 1 .. Len(blocks) : blocks[j].frag = m.frag =>
                                blocks[j].lo + blocks[j].n <= m.top.off
      BY DEF MarksReachable
    <2>1. PICK p \in 0 .. Len(frags) : MarkedAt(marks[i], p)
      BY <1>1 DEF HeapIInv, Marked
    <2>2. marks[i].frag = NoFrag \/ InChain(marks[i].frag)
      BY <2>1 DEF MarkedAt, FragAt, InChain
    <2> QED
      BY <2>1, <2>2 DEF MarkedAt
  <1> QED
    BY <1>1, HeapInductive, PTL
=============================================================================
