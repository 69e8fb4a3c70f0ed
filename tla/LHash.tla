------------------------------- MODULE LHash --------------------------------
(***************************************************************************)
(* The linear hash table of src/src/cnif_lhash.c, which holds the atoms of *)
(* the library: the buckets, the split position and the segments the       *)
(* buckets live in.  Put and Erase are whole calls: the search, the change *)
(* of the bucket, the item count and the grow or shrink at the end.        *)
(*                                                                         *)
(* Abstractions.  A bucket's chain is the SET of the objects linked in it: *)
(* the order of a chain only decides how long a search takes.  A key       *)
(* stands for what the cmp and hash callbacks read of an object.  The      *)
(* masks of the code are one less than a power of two, so h & m is written *)
(* h % (m + 1).  Allocation does not fail.  Sizes are parameters: the code *)
(* has SEGSZ = 256, SEG_LEN = 256, SEG_INCREAMENT = 128, Thres = 3.        *)
(*                                                                         *)
(* Operators above the one they vary, such as GrowAllocatesLate, are       *)
(* slips the properties would catch; the specification does not use them.  *)
(***************************************************************************)
EXTENDS Integers, FiniteSets

CONSTANTS Key, Item, Hash, SEGSZ, SEG_LEN, SEG_INCREAMENT, Thres

ASSUME LHashAssumption ==
    /\ Hash \in [Key -> Nat]
    /\ SEGSZ \in Nat \ {0}
    /\ SEG_LEN \in Nat \ {0, 1}
    /\ SEG_INCREAMENT \in Nat \ {0}
    /\ Thres \in Nat

VARIABLES
    live,     \* the table exists: between lhash_new and lhash_free
    szm, p,   \* size mask and split position
    nactive,  \* buckets in use
    nslots,   \* what the code believes is the number of allocated buckets
    nitems,
    nsegs,    \* length of the index table seg
    chain,    \* bucket -> objects; its domain is the buckets of allocated segments
    key       \* allocated object -> its key

vars == <<live, szm, p, nactive, nslots, nitems, nsegs, chain, key>>

Init ==
    /\ live = FALSE
    /\ szm = 0 /\ p = 0 /\ nactive = 0 /\ nslots = 0 /\ nitems = 0 /\ nsegs = 0
    /\ chain = [i \in {} |-> {}]
    /\ key = [b \in {} |-> b]

-----------------------------------------------------------------------------
SegSlots(six) == six * SEGSZ .. six * SEGSZ + SEGSZ - 1

\* seg[six] = alloc_seg(): the old segment, if there was one, is forgotten
AllocSeg(ch, six) ==
    [i \in DOMAIN ch \cup SegSlots(six) |-> IF i \in SegSlots(six) THEN {} ELSE ch[i]]

FreeSeg(ch, six) == [i \in DOMAIN ch \ SegSlots(six) |-> ch[i]]

\* The macro HASH: the bucket of hash value h with mask m and split position q
HashIx(h, m, q) ==
    IF h % (m + 1) < q THEN h % (2 * (m + 1)) ELSE h % (m + 1)

FindUnsplit(k) == {b \in chain[Hash[k] % (szm + 1)] : key[b] = k}

\* The objects a search for k stops at
Find(k) == {b \in chain[HashIx(Hash[k], szm, p)] : key[b] = k}

New ==
    /\ ~live
    /\ live' = TRUE
    /\ szm' = SEGSZ - 1 /\ p' = 0
    /\ nactive' = SEGSZ /\ nslots' = SEGSZ /\ nitems' = 0 /\ nsegs' = 1
    /\ chain' = [i \in SegSlots(0) |-> {}]
    /\ UNCHANGED key

-----------------------------------------------------------------------------
GrowSix == nactive \div SEGSZ

GrowAllocatesLate == nactive > nslots /\ nactive % SEGSZ = 0

GrowAllocates == nactive >= nslots /\ nactive % SEGSZ = 0

MovedOldMask(ch, obj) ==
    {b \in ch[p] : Hash[obj[b]] % (szm + 1) # p}

\* The objects of the bucket to split that belong to the new one
Moved(ch, obj) ==
    {b \in ch[p] : Hash[obj[b]] % (2 * (szm + 1)) # p}

LongerForgotten(n) == n

\* The length of an index table that is full, when it gets another
Longer(n) == IF n = 1 THEN SEG_LEN ELSE n + SEG_INCREAMENT

\* grow(), on the buckets ch and the objects obj that the insertion left
Grow(ch, obj) ==
    LET ch1   == IF GrowAllocates THEN AllocSeg(ch, GrowSix) ELSE ch
        moved == Moved(ch1, obj)
        top   == p + szm + 1
    IN /\ chain' = [ch1 EXCEPT ![p] = @ \ moved, ![top] = @ \cup moved]
       /\ nslots' = IF GrowAllocates THEN nslots + SEGSZ ELSE nslots
       /\ nsegs' = IF GrowAllocates /\ GrowSix = nsegs THEN Longer(nsegs) ELSE nsegs
       /\ nactive' = nactive + 1
       /\ p' = IF p = szm THEN 0 ELSE p + 1
       /\ szm' = IF p = szm THEN 2 * szm + 1 ELSE szm

\* The mask and the split position a merge goes back to; szm >>= 1 halves the mask
MaskBack == IF p = 0 THEN szm \div 2 ELSE szm

SplitBackUnwrapped == p - 1

SplitBack == IF p = 0 THEN szm \div 2 ELSE p - 1

LinkOverwriting(ch, q, last) == [ch EXCEPT ![q] = ch[last], ![last] = {}]

\* The chain of bucket last is linked to the end of that of bucket q
Link(ch, q, last) == [ch EXCEPT ![q] = @ \cup ch[last], ![last] = {}]

\* shrink(), on the buckets ch that the erasure left
Shrink(ch) ==
    IF nactive = SEGSZ
    THEN chain' = ch /\ UNCHANGED <<szm, p, nactive, nslots, nsegs>>
    ELSE LET last  == nactive - 1
             m     == MaskBack
             q     == SplitBack
             ch1   == Link(ch, q, last)
             frees == last % SEGSZ = SEGSZ - 1
         IN /\ chain' = IF frees THEN FreeSeg(ch1, last \div SEGSZ + 1) ELSE ch1
            /\ nslots' = IF frees THEN nslots - SEGSZ ELSE nslots
            /\ nactive' = last
            /\ szm' = m
            /\ p' = q
            /\ UNCHANGED nsegs

-----------------------------------------------------------------------------
\* lhash_put of a key that is not there; of one that is it changes nothing
Put(k, b) ==
    /\ live
    /\ Find(k) = {}
    /\ b \in Item \ DOMAIN key
    /\ LET ix  == HashIx(Hash[k], szm, p)
           ch  == [chain EXCEPT ![ix] = @ \cup {b}]
           obj == [c \in DOMAIN key \cup {b} |-> IF c = b THEN k ELSE key[c]]
       IN /\ key' = obj
          /\ nitems' = nitems + 1
          /\ IF (nitems + 1) \div nactive >= Thres
             THEN Grow(ch, obj)
             ELSE chain' = ch /\ UNCHANGED <<szm, p, nactive, nslots, nsegs>>
    /\ UNCHANGED live

Erase(k) ==
    /\ live
    /\ \E b \in Find(k) :
         LET ix == HashIx(Hash[k], szm, p)
             ch == [chain EXCEPT ![ix] = @ \ {b}]
         IN /\ key' = [c \in DOMAIN key \ {b} |-> key[c]]
            /\ nitems' = nitems - 1
            /\ IF (nitems - 1) \div nactive < Thres
               THEN Shrink(ch)
               ELSE chain' = ch /\ UNCHANGED <<szm, p, nactive, nslots, nsegs>>
    /\ UNCHANGED live

\* The buckets of the first nsegs segments, but for those of no segment
Walked == {i \in DOMAIN chain : i \div SEGSZ < nsegs}

\* lhash_free: the objects in the segments of the index table, then the table
Free ==
    /\ live
    /\ live' = FALSE
    /\ key' = [b \in DOMAIN key \ UNION {chain[i] : i \in Walked} |-> key[b]]
    /\ chain' = [i \in {} |-> {}]
    /\ szm' = 0 /\ p' = 0 /\ nactive' = 0 /\ nslots' = 0 /\ nitems' = 0 /\ nsegs' = 0

Next ==
    \/ New
    \/ \E k \in Key, b \in Item : Put(k, b)
    \/ \E k \in Key : Erase(k)
    \/ Free

Spec == Init /\ [][Next]_vars

-----------------------------------------------------------------------------
TypeOK ==
    /\ live \in BOOLEAN
    /\ szm \in Nat /\ p \in Nat /\ nactive \in Nat /\ nitems \in Nat /\ nsegs \in Nat
    /\ nslots \in Int
    /\ DOMAIN chain \subseteq Nat
    /\ chain \in [DOMAIN chain -> SUBSET Item]
    /\ DOMAIN key \subseteq Item
    /\ key \in [DOMAIN key -> Key]

\* Every object is linked in exactly the bucket the HASH macro computes for it
\* now, whatever splits and merges happened since it was inserted, and that
\* bucket is in an allocated segment (BUCKET in put, get and erase).
Placed ==
    /\ \A b \in DOMAIN key :
         LET ix == HashIx(Hash[key[b]], szm, p)
         IN live => ix \in DOMAIN chain /\ b \in chain[ix]
    /\ \A i \in DOMAIN chain : \A b \in chain[i] :
         b \in DOMAIN key /\ i = HashIx(Hash[key[b]], szm, p)

\* A key has one object: two calls of enif_make_atom answer the same term.
Interned == \A b, c \in DOMAIN key : key[b] = key[c] => b = c

\* The buckets in use are 0 .. szm + p, all of them in allocated segments, and
\* the segment that grow() enters at a segment boundary is there or is allocated.
Backed ==
    live => /\ p <= szm /\ nactive = szm + 1 + p /\ nactive >= SEGSZ
            /\ 0 .. nactive - 1 \subseteq DOMAIN chain
            /\ nslots > nactive => nactive \in DOMAIN chain

\* The count that decides when to grow and to shrink is the number of objects,
\* and a table that was freed leaves none of them behind.
Counted == nitems = Cardinality(DOMAIN key)

\* cnif_lhash.h:37 says of nslots "Total number of slots".
SlotsCounted == live => nslots = Cardinality(DOMAIN chain)

-----------------------------------------------------------------------------
\* The table as its caller sees it: for each key the object lhash_get answers.
Present == {k \in Key : live /\ Find(k) # {}}

Seen == [k \in Present |-> CHOOSE b \in Find(k) : TRUE]

KT == INSTANCE KeyTable WITH table <- Seen

\* The hash table implements the partial function, so a split, a merge or a
\* segment change never loses, doubles or exchanges an object.
ImplementsKeyTable == KT!KTSpec
=============================================================================
