-------------------------- MODULE Binaries_proofs ---------------------------
(***************************************************************************)
(* Who owns a block of enif_alloc (src/src/cnif.c), for any set of structs *)
(* and iolists, and any sequence of calls: while no struct has lost its    *)
(* block to a realloc to 0, a block is live exactly as long as one struct  *)
(* has it, and a struct shows the bytes a caller put there.                *)
(***************************************************************************)
EXTENDS Binaries, SequenceTheorems, FiniteSetTheorems, TLAPS

Bytes == Seq(Nat)
Block == [live : BOOLEAN, bytes : Bytes]
BinTerm == [orig : Nat, offs : Nat, bytes : Bytes]
AnyPlace == [in : {"nowhere", "block", "term"}, n : Nat, offs : Nat]
Struct == [data : AnyPlace, size : Nat, term : Nat]

IsLive(x) == x.live

Typed ==
    /\ block \in Seq(Block) /\ term \in Seq(BinTerm)
    /\ bin \in [Structs -> Struct] /\ shows \in [Structs -> Bytes]

\* A part is a part of a heap binary, and has no bytes
TermsInv ==
    \A t \in 1 .. Len(term) :
        /\ term[t].orig \in 0 .. Len(term)
        /\ term[t].orig = 0 => term[t].offs = 0
        /\ term[t].orig # 0 => term[t].bytes = <<>>

\* The bytes at a place, of the blocks blk and the terms trm
In(place, blk, trm) ==
    CASE place.in = "block" -> blk[place.n].bytes
      [] place.in = "term" -> trm[place.n].bytes
      [] place.in = "nowhere" -> <<>>

\* Where the bytes of a struct may be
Placed(b, blk, trm) ==
    /\ b.data.in = "block" => /\ b.term = 0 /\ b.data.n \in 1 .. Len(blk)
                              /\ IsLive(blk[b.data.n])
    /\ b.data.in = "term" => b.term # 0 /\ b.data.n \in 1 .. Len(trm)
    /\ b.data.in = "nowhere" => b.term = 0

\* The bytes c hold those of b, which begin with the bytes sh, and are these for a term
Shows(b, sh, c) ==
    /\ Len(sh) <= b.size /\ \A i \in 1 .. Len(sh) : c[b.data.offs + i] = sh[i]
    /\ b.size = 0 \/ b.data.offs + b.size <= Len(c)
    /\ b.term # 0 => Len(sh) = b.size

Kept(b, sh, blk, trm) == Placed(b, blk, trm) /\ Shows(b, sh, In(b.data, blk, trm))

\* A live block has one owner
OwnerInv ==
    /\ \A n \in 1 .. Len(block) :
         IsLive(block[n]) => \E s \in Structs : Owns(bin[s]) /\ bin[s].data.n = n
    /\ \A s, t \in Structs :
         Owns(bin[s]) /\ Owns(bin[t]) /\ bin[s].data.n = bin[t].data.n => s = t

Told == call[1] = "made" => SubSeq(call[3], 1, Len(call[2])) = call[2]

Good ==
    /\ Typed /\ TermsInv
    /\ \A s \in Structs : Kept(bin[s], shows[s], block, term)
    /\ OwnerInv /\ Told

\* A struct that lost its block keeps the pointer
Bad ==
    \/ overrun
    \/ /\ DOMAIN bin = Structs /\ DOMAIN shows = Structs
       /\ \E s \in Structs : shows[s] = Lost /\ Owns(bin[s])

BytesIInv == Bad \/ Good

-----------------------------------------------------------------------------
\* The bytes of a struct
LEMMA DataBytes ==
    ASSUME NEW c \in Bytes, NEW offs \in Nat, NEW size \in Nat, size = 0 \/ offs + size <= Len(c)
    PROVE  LET d == SubSeq(c, offs + 1, offs + size)
           IN d \in Bytes /\ Len(d) = size /\ \A i \in 1 .. size : d[i] = c[offs + i]
  <1> DEFINE d == SubSeq(c, offs + 1, offs + size)
  <1>1. Len(c) \in Nat
    BY DEF Bytes
  <1>2. ASSUME NEW i \in offs + 1 .. offs + size PROVE c[i] \in Nat
    <2>1. i \in 1 .. Len(c)
      BY <1>1
    <2> QED
      BY <2>1, ElementOfSeq DEF Bytes
  <1>3. offs + 1 \in Int /\ offs + size \in Int
    OBVIOUS
  <1>4. /\ d \in Seq(Nat)
        /\ Len(d) = IF offs + 1 <= offs + size THEN offs + size - (offs + 1) + 1 ELSE 0
        /\ \A i \in 1 .. offs + size - (offs + 1) + 1 : d[i] = c[offs + 1 + i - 1]
    BY <1>2, <1>3, SubSeqProperties
  <1> HIDE DEF d
  <1>5. Len(d) = size
    BY <1>4
  <1>6. ASSUME NEW i \in 1 .. size PROVE d[i] = c[offs + i]
    <2>1. i \in 1 .. offs + size - (offs + 1) + 1 /\ offs + 1 + i - 1 = offs + i
      OBVIOUS
    <2> QED
      BY <1>4, <2>1
  <1> QED
    BY <1>4, <1>5, <1>6 DEF d, Bytes

\* The first n bytes
LEMMA FrontBytes ==
    ASSUME NEW d \in Bytes, NEW n \in Nat, n <= Len(d)
    PROVE  /\ SubSeq(d, 1, n) \in Bytes /\ Len(SubSeq(d, 1, n)) = n
           /\ \A i \in 1 .. n : SubSeq(d, 1, n)[i] = d[i]
  <1> DEFINE f == SubSeq(d, 1, n)
  <1>1. ASSUME NEW i \in 1 .. n PROVE d[i] \in Nat
    <2>1. i \in 1 .. Len(d)
      BY DEF Bytes
    <2> QED
      BY <2>1, ElementOfSeq DEF Bytes
  <1>2. 1 \in Int /\ n \in Int
    OBVIOUS
  <1>3. /\ f \in Seq(Nat)
        /\ Len(f) = IF 1 <= n THEN n - 1 + 1 ELSE 0
        /\ \A i \in 1 .. n - 1 + 1 : f[i] = d[1 + i - 1]
    BY <1>1, <1>2, SubSeqProperties
  <1> HIDE DEF f
  <1>4. Len(f) = n
    BY <1>3
  <1>5. ASSUME NEW i \in 1 .. n PROVE f[i] = d[i]
    <2>1. i \in 1 .. n - 1 + 1 /\ 1 + i - 1 = i
      OBVIOUS
    <2> QED
      BY <1>3, <2>1
  <1> QED
    BY <1>3, <1>4, <1>5 DEF f, Bytes

\* The same bytes, one by one
LEMMA SameBytes ==
    ASSUME NEW a \in Bytes, NEW b \in Bytes, Len(a) = Len(b), \A i \in 1 .. Len(a) : a[i] = b[i]
    PROVE  a = b
  BY SeqEqual DEF Bytes

\* The data d, of a size, begin with the bytes sh.
BeginsWith(d, size, sh) ==
    /\ d \in Bytes /\ Len(d) = size
    /\ \A i \in 1 .. Len(sh) : d[i] = sh[i]
    /\ SubSeq(d, 1, Len(sh)) = sh

\* A struct that shows some bytes has them at the front of its data.
LEMMA FrontShown ==
    ASSUME NEW b \in Struct, NEW sh \in Bytes, NEW c \in Bytes, Shows(b, sh, c)
    PROVE  BeginsWith(SubSeq(c, b.data.offs + 1, b.data.offs + b.size), b.size, sh)
  <1> DEFINE d == SubSeq(c, b.data.offs + 1, b.data.offs + b.size)
  <1>1. b.data.offs \in Nat /\ b.size \in Nat /\ Len(sh) \in Nat
    BY DEF Struct, AnyPlace, Bytes
  <1>2. d \in Bytes /\ Len(d) = b.size /\ \A i \in 1 .. b.size : d[i] = c[b.data.offs + i]
    BY <1>1, DataBytes DEF Shows
  <1> HIDE DEF d
  <1>3. ASSUME NEW i \in 1 .. Len(sh) PROVE d[i] = sh[i]
    <2>1. i \in 1 .. b.size
      BY <1>1 DEF Shows
    <2> QED
      BY <1>2, <2>1 DEF Shows
  <1>4. Len(sh) <= Len(d)
    BY <1>2 DEF Shows
  <1>5. /\ SubSeq(d, 1, Len(sh)) \in Bytes /\ Len(SubSeq(d, 1, Len(sh))) = Len(sh)
        /\ \A i \in 1 .. Len(sh) : SubSeq(d, 1, Len(sh))[i] = d[i]
    BY <1>1, <1>2, <1>4, FrontBytes
  <1>6. \A i \in 1 .. Len(sh) : SubSeq(d, 1, Len(sh))[i] = sh[i]
    BY <1>3, <1>5
  <1>7. SubSeq(d, 1, Len(sh)) = sh
    BY <1>5, <1>6, SameBytes
  <1> QED
    BY <1>2, <1>3, <1>7 DEF BeginsWith, d

-----------------------------------------------------------------------------
\* What a call that leaves the struct s as b does to the blocks: the other structs keep
\* theirs, and a block that is live has its owner.
BlockStep(s, b) ==
    /\ block' \in Seq(Block)
    /\ \A t \in Structs \ {s} :
         Owns(bin[t]) => /\ bin[t].data.n \in 1 .. Len(block')
                         /\ block'[bin[t].data.n] = block[bin[t].data.n]
    /\ \A n \in 1 .. Len(block') :
         IsLive(block'[n]) =>
            \/ Owns(b) /\ b.data.n = n
            \/ \E t \in Structs \ {s} : Owns(bin[t]) /\ bin[t].data.n = n
    /\ Owns(b) => /\ b.data.n \in 1 .. Len(block') /\ IsLive(block'[b.data.n])
                  /\ \A t \in Structs \ {s} : Owns(bin[t]) => bin[t].data.n # b.data.n

\* What it does to the terms
TermStep ==
    /\ term' \in Seq(BinTerm) /\ TermsInv'
    /\ Len(term) <= Len(term') /\ \A t \in 1 .. Len(term) : term'[t] = term[t]

\* A struct shows what it did as long as its block stays as it is.
LEMMA StaysKept ==
    ASSUME NEW b \in Struct, NEW sh, NEW blk, NEW trm, NEW blk2, NEW trm2,
           Kept(b, sh, blk, trm),
           Owns(b) => b.data.n \in 1 .. Len(blk2) /\ blk2[b.data.n] = blk[b.data.n],
           Len(trm) \in Nat, Len(trm2) \in Nat, Len(trm) <= Len(trm2),
           \A t \in 1 .. Len(trm) : trm2[t] = trm[t]
    PROVE  Kept(b, sh, blk2, trm2)
  <1>1. b.data.in \in {"nowhere", "block", "term"} /\ Placed(b, blk, trm)
    BY DEF Kept, Struct, AnyPlace
  <1>2. CASE b.data.in = "block"
    <2>1. Owns(b) /\ IsLive(blk[b.data.n])
      BY <1>1, <1>2 DEF Placed, Owns
    <2>2. b.data.n \in 1 .. Len(blk2) /\ blk2[b.data.n] = blk[b.data.n]
      BY <2>1
    <2>3. In(b.data, blk2, trm2) = In(b.data, blk, trm)
      BY <1>2, <2>2 DEF In
    <2>4. Placed(b, blk2, trm2)
      BY <1>1, <1>2, <2>1, <2>2 DEF Placed
    <2> QED
      BY <2>3, <2>4 DEF Kept
  <1>3. CASE b.data.in = "term"
    <2>1. b.data.n \in 1 .. Len(trm) /\ b.term # 0
      BY <1>1, <1>3 DEF Placed
    <2>2. b.data.n \in 1 .. Len(trm2) /\ trm2[b.data.n] = trm[b.data.n]
      BY <2>1
    <2>3. In(b.data, blk2, trm2) = In(b.data, blk, trm)
      BY <1>3, <2>2 DEF In
    <2>4. Placed(b, blk2, trm2)
      BY <1>3, <2>1, <2>2 DEF Placed
    <2> QED
      BY <2>3, <2>4 DEF Kept
  <1>4. CASE b.data.in = "nowhere"
    <2>1. In(b.data, blk2, trm2) = In(b.data, blk, trm) /\ Placed(b, blk2, trm2)
      BY <1>1, <1>4 DEF Placed, In
    <2> QED
      BY <2>1 DEF Kept
  <1> QED
    BY <1>1, <1>2, <1>3, <1>4

\* Another struct shows what it did.
LEMMA OtherKept ==
    ASSUME Good, NEW s \in Structs, NEW b, BlockStep(s, b), TermStep, NEW t \in Structs \ {s}
    PROVE  Kept(bin[t], shows[t], block', term')
  <1>1. bin[t] \in Struct /\ Kept(bin[t], shows[t], block, term)
    BY DEF Good, Typed
  <1>2. Owns(bin[t]) => /\ bin[t].data.n \in 1 .. Len(block')
                        /\ block'[bin[t].data.n] = block[bin[t].data.n]
    BY DEF BlockStep
  <1>3. /\ Len(term) \in Nat /\ Len(term') \in Nat /\ Len(term) <= Len(term')
        /\ \A u \in 1 .. Len(term) : term'[u] = term[u]
    BY DEF Good, Typed, TermStep
  <1> QED
    BY <1>1, <1>2, <1>3, StaysKept

\* A call that leaves the struct s as b, showing sh, keeps the invariant if it does so
\* for b.
LEMMA Stepped ==
    ASSUME Good, NEW s \in Structs, NEW b \in Struct, NEW sh \in Bytes,
           Set(s, b, sh), BlockStep(s, b), TermStep, Told', Kept(b, sh, block', term')
    PROVE  Good'
  <1>1. bin' = [bin EXCEPT ![s] = b] /\ shows' = [shows EXCEPT ![s] = sh]
    BY DEF Set
  <1>2. /\ bin \in [Structs -> Struct] /\ shows \in [Structs -> Bytes]
        /\ bin' \in [Structs -> Struct] /\ shows' \in [Structs -> Bytes]
    BY <1>1 DEF Good, Typed
  <1>3. bin'[s] = b /\ shows'[s] = sh
    BY <1>1, <1>2
  <1>4. \A t \in Structs \ {s} : bin'[t] = bin[t] /\ shows'[t] = shows[t]
    BY <1>1, <1>2
  <1>5. Typed' /\ TermsInv'
    BY <1>2 DEF Typed, BlockStep, TermStep
  <1>6. ASSUME NEW t \in Structs PROVE Kept(bin'[t], shows'[t], block', term')
    <2>1. CASE t = s
      BY <1>3, <2>1
    <2>2. CASE t # s
      <3>1. bin'[t] = bin[t] /\ shows'[t] = shows[t] /\ t \in Structs \ {s}
        BY <1>4, <2>2
      <3>2. Kept(bin[t], shows[t], block', term')
        BY <3>1, OtherKept
      <3> QED
        BY <3>1, <3>2
    <2> QED
      BY <2>1, <2>2
  <1>7. ASSUME NEW n \in 1 .. Len(block'), IsLive(block'[n])
        PROVE  \E t \in Structs : Owns(bin'[t]) /\ bin'[t].data.n = n
    <2>1. \/ Owns(b) /\ b.data.n = n
          \/ \E t \in Structs \ {s} : Owns(bin[t]) /\ bin[t].data.n = n
      BY <1>7 DEF BlockStep
    <2> QED
      BY <1>3, <1>4, <2>1
  <1>8. ASSUME NEW t \in Structs, NEW u \in Structs, Owns(bin'[t]), Owns(bin'[u]),
               bin'[t].data.n = bin'[u].data.n
        PROVE  t = u
    <2>1. CASE t # s /\ u # s
      <3>1. bin'[t] = bin[t] /\ bin'[u] = bin[u]
        BY <1>4, <2>1
      <3> QED
        BY <1>8, <3>1 DEF Good, OwnerInv
    <2>2. CASE t = s /\ u # s
      <3>1. Owns(b) /\ Owns(bin[u]) /\ bin[u].data.n = b.data.n /\ u \in Structs \ {s}
        BY <1>3, <1>4, <1>8, <2>2
      <3> QED
        BY <3>1 DEF BlockStep
    <2>3. CASE t # s /\ u = s
      <3>1. Owns(b) /\ Owns(bin[t]) /\ bin[t].data.n = b.data.n /\ t \in Structs \ {s}
        BY <1>3, <1>4, <1>8, <2>3
      <3> QED
        BY <3>1 DEF BlockStep
    <2> QED
      BY <2>1, <2>2, <2>3
  <1>9. OwnerInv'
    BY <1>7, <1>8 DEF OwnerInv, Owns
  <1> QED
    BY <1>5, <1>6, <1>9 DEF Good

-----------------------------------------------------------------------------
\* The blocks r without the one of s
Rest(s, r) ==
    /\ r \in Seq(Block) /\ Len(r) = Len(block)
    /\ \A t \in Structs \ {s} :
         Owns(bin[t]) => /\ bin[t].data.n \in 1 .. Len(block)
                         /\ r[bin[t].data.n] = block[bin[t].data.n]
    /\ \A n \in 1 .. Len(block) :
         IsLive(r[n]) => \E t \in Structs \ {s} : Owns(bin[t]) /\ bin[t].data.n = n

\* The block of s, and no other, is freed when s gives it up.
LEMMA Unblocking ==
    ASSUME Good, NEW s \in Structs
    PROVE  Rest(s, Unblocked(bin[s]))
  <1>1. block \in Seq(Block) /\ Len(block) \in Nat /\ OwnerInv
    BY DEF Good, Typed
  <1>2. ASSUME NEW t \in Structs, Owns(bin[t])
        PROVE  bin[t].data.n \in 1 .. Len(block)
    BY <1>2 DEF Good, Kept, Placed, Owns
  <1>3. CASE ~Owns(bin[s])
    <2>1. Unblocked(bin[s]) = block
      BY <1>3 DEF Unblocked
    <2>2. ASSUME NEW n \in 1 .. Len(block), IsLive(block[n])
          PROVE  \E t \in Structs \ {s} : Owns(bin[t]) /\ bin[t].data.n = n
      BY <1>1, <1>3, <2>2 DEF OwnerInv
    <2> QED
      BY <1>1, <1>2, <2>1, <2>2 DEF Rest
  <1>4. CASE Owns(bin[s])
    <2> DEFINE k == bin[s].data.n
               r == Freed(k)
               x == [live |-> FALSE, bytes |-> <<>>]
    <2>1. k \in 1 .. Len(block) /\ Unblocked(bin[s]) = r
      BY <1>2, <1>4 DEF Unblocked
    <2>2. x \in Block /\ ~IsLive(x)
      BY DEF Block, Bytes, IsLive
    <2>3. r = [block EXCEPT ![k] = x]
      BY DEF Freed
    <2> HIDE DEF k, r, x
    <2>4. r \in Seq(Block) /\ Len(r) = Len(block)
      BY <1>1, <2>1, <2>2, <2>3
    <2>5. r[k] = x /\ \A n \in 1 .. Len(block) : n # k => r[n] = block[n]
      BY <1>1, <2>1, <2>3
    <2>6. ASSUME NEW t \in Structs \ {s}, Owns(bin[t]) PROVE bin[t].data.n # k
      BY <1>1, <1>4, <2>6 DEF OwnerInv, k
    <2>7. ASSUME NEW t \in Structs \ {s}, Owns(bin[t])
          PROVE  /\ bin[t].data.n \in 1 .. Len(block)
                 /\ r[bin[t].data.n] = block[bin[t].data.n]
      BY <1>2, <2>5, <2>6, <2>7
    <2>8. ASSUME NEW n \in 1 .. Len(block), IsLive(r[n])
          PROVE  \E t \in Structs \ {s} : Owns(bin[t]) /\ bin[t].data.n = n
      <3>1. n # k
        BY <2>2, <2>5, <2>8
      <3>2. IsLive(block[n])
        BY <2>5, <2>8, <3>1
      <3>3. PICK t \in Structs : Owns(bin[t]) /\ bin[t].data.n = n
        BY <1>1, <3>2 DEF OwnerInv
      <3>4. t # s
        BY <3>1, <3>3 DEF k
      <3> QED
        BY <3>3, <3>4
    <2> QED
      BY <2>1, <2>4, <2>7, <2>8 DEF Rest
  <1> QED
    BY <1>3, <1>4

\* A call that gives up the block of s
LEMMA GivenUp ==
    ASSUME NEW s \in Structs, NEW b, Rest(s, block'), ~Owns(b), Good
    PROVE  BlockStep(s, b)
  BY DEF Rest, BlockStep

\* A call that allocates a block, in exchange for the one of s if it has one
LEMMA NewBlock ==
    ASSUME Good, NEW s \in Structs, NEW r, Rest(s, r), NEW x \in Block, NEW b,
           block' = Append(r, x),
           \/ IsLive(x) /\ b.term = 0 /\ b.data = InBlock(Len(block) + 1)
           \/ ~IsLive(x) /\ ~Owns(b)
    PROVE  BlockStep(s, b)
  <1> DEFINE m == Len(block) + 1
  <1>1. r \in Seq(Block) /\ Len(r) = Len(block) /\ Len(block) \in Nat
    BY DEF Good, Typed, Rest
  <1>2. block' \in Seq(Block) /\ Len(block') = m
    BY <1>1
  <1>3. block'[m] = x /\ \A n \in 1 .. Len(block) : block'[n] = r[n]
    BY <1>1
  <1>4. m \in 1 .. Len(block')
    BY <1>1, <1>2
  <1>5. ASSUME NEW n \in 1 .. Len(block) PROVE n \in 1 .. Len(block') /\ n # m
    BY <1>1, <1>2
  <1>6. ASSUME NEW n \in 1 .. Len(block'), n # m PROVE n \in 1 .. Len(block)
    BY <1>1, <1>2, <1>6
  <1>7. IsLive(x) => Owns(b) /\ b.data.n = m
    BY DEF Owns, InBlock
  <1> HIDE DEF m
  <1>8. ASSUME NEW t \in Structs \ {s}, Owns(bin[t])
        PROVE  /\ bin[t].data.n \in 1 .. Len(block') /\ bin[t].data.n # m
               /\ block'[bin[t].data.n] = block[bin[t].data.n]
    BY <1>3, <1>5, <1>8 DEF Rest
  <1>9. ASSUME NEW n \in 1 .. Len(block'), IsLive(block'[n])
        PROVE  \/ Owns(b) /\ b.data.n = n
               \/ \E t \in Structs \ {s} : Owns(bin[t]) /\ bin[t].data.n = n
    <2>1. CASE n = m
      BY <1>3, <1>7, <1>9, <2>1
    <2>2. CASE n # m
      BY <1>3, <1>6, <1>9, <2>2 DEF Rest
    <2> QED
      BY <2>1, <2>2
  <1>10. Owns(b) => IsLive(x) /\ b.data.n = m
    BY <1>7
  <1>11. Owns(b) => /\ b.data.n \in 1 .. Len(block') /\ IsLive(block'[b.data.n])
                    /\ \A t \in Structs \ {s} : Owns(bin[t]) => bin[t].data.n # b.data.n
    BY <1>3, <1>4, <1>8, <1>10
  <1> QED
    BY <1>2, <1>8, <1>9, <1>11 DEF BlockStep

\* A struct of the new block
LEMMA OfNewBlock ==
    ASSUME Good, NEW bytes \in Bytes, NEW sh \in Bytes, NEW r \in Seq(Block), Len(r) = Len(block),
           block' = Append(r, [live |-> TRUE, bytes |-> bytes]),
           Len(sh) <= Len(bytes), \A i \in 1 .. Len(sh) : bytes[i] = sh[i],
           NEW n \in Nat, n = Len(bytes)
    PROVE  LET b == [data |-> InBlock(Len(block) + 1), size |-> n, term |-> 0]
           IN b \in Struct /\ Kept(b, sh, block', term')
  <1> DEFINE b == [data |-> InBlock(Len(block) + 1), size |-> n, term |-> 0]
             x == [live |-> TRUE, bytes |-> bytes]
             m == Len(block) + 1
  <1>1. Len(block) \in Nat /\ m \in Nat /\ Len(sh) \in Nat
    BY DEF Good, Typed, Bytes
  <1>2. Len(block') = m /\ block'[m] = x /\ m \in 1 .. m
    BY <1>1
  <1>3. x.bytes = bytes /\ IsLive(x)
    BY DEF IsLive
  <1>4. /\ b.data.in = "block" /\ b.data.n = m /\ b.data.offs = 0 /\ b.size = n /\ b.term = 0
        /\ b \in Struct
    BY <1>1 DEF InBlock, Struct, AnyPlace
  <1> HIDE DEF b, x, m
  <1>5. In(b.data, block', term') = bytes
    BY <1>2, <1>3, <1>4 DEF In
  <1>6. Placed(b, block', term')
    BY <1>2, <1>3, <1>4 DEF Placed
  <1>7. ASSUME NEW i \in 1 .. Len(sh) PROVE bytes[0 + i] = sh[i]
    BY <1>1
  <1>8. Shows(b, sh, bytes)
    BY <1>4, <1>7 DEF Shows
  <1> QED
    BY <1>4, <1>5, <1>6, <1>8 DEF Kept, b

\* A struct without bytes
LEMMA OfNothing ==
    ASSUME NEW blk, NEW trm
    PROVE  None \in Struct /\ ~Owns(None) /\ <<>> \in Bytes /\ Kept(None, <<>>, blk, trm)
  <1>1. None \in Struct /\ ~Owns(None) /\ <<>> \in Bytes
    BY DEF None, NULL, Struct, AnyPlace, Owns, Bytes
  <1>2. None.data.in = "nowhere" /\ None.term = 0 /\ None.size = 0
    BY DEF None, NULL
  <1>3. Placed(None, blk, trm)
    BY <1>2 DEF Placed
  <1>4. Len(<<>>) = 0
    OBVIOUS
  <1>5. Shows(None, <<>>, In(None.data, blk, trm))
    BY <1>2, <1>4 DEF Shows
  <1> QED
    BY <1>1, <1>3, <1>5 DEF Kept

\* A call that makes no term
LEMMA SameTerms ==
    ASSUME Good, UNCHANGED term
    PROVE  TermStep
  BY DEF Good, Typed, TermStep, TermsInv

\* A call that tells nothing
LEMMA NothingTold ==
    ASSUME call' = <<"none">>
    PROVE  Told'
  <1>1. call'[1] = "none"
    BY Zenon
  <1> QED
    BY <1>1 DEF Told

\* A call that makes the term x
LEMMA NewTerm ==
    ASSUME Good, NEW x \in BinTerm, term' = Append(term, x),
           x.orig \in 0 .. Len(term) + 1, x.orig = 0 => x.offs = 0,
           x.orig # 0 => x.bytes = <<>>
    PROVE  TermStep /\ Len(term') = Len(term) + 1 /\ term'[Len(term) + 1] = x
  <1>1. term \in Seq(BinTerm) /\ Len(term) \in Nat /\ TermsInv
    BY DEF Good, Typed
  <1>2. /\ term' \in Seq(BinTerm) /\ Len(term') = Len(term) + 1
        /\ term'[Len(term) + 1] = x /\ \A t \in 1 .. Len(term) : term'[t] = term[t]
    BY <1>1
  <1>3. ASSUME NEW t \in 1 .. Len(term')
        PROVE  /\ term'[t].orig \in 0 .. Len(term')
               /\ term'[t].orig = 0 => term'[t].offs = 0
               /\ term'[t].orig # 0 => term'[t].bytes = <<>>
    <2>1. CASE t = Len(term) + 1
      BY <1>2, <2>1
    <2>2. CASE t # Len(term) + 1
      <3>1. t \in 1 .. Len(term) /\ term'[t] = term[t]
        BY <1>1, <1>2, <2>2
      <3>2. term[t].orig \in 0 .. Len(term)
        BY <1>1, <3>1 DEF TermsInv
      <3>3. term[t].orig \in 0 .. Len(term')
        BY <1>1, <1>2, <3>2
      <3> QED
        BY <1>1, <3>1, <3>3 DEF TermsInv
    <2> QED
      BY <2>1, <2>2
  <1> QED
    BY <1>1, <1>2, <1>3 DEF TermStep, TermsInv

\* The bytes of a struct of Good
LEMMA GoodData ==
    ASSUME Good, NEW s \in Structs
    PROVE  /\ bin[s] \in Struct /\ shows[s] \in Bytes /\ Len(shows[s]) \in Nat
           /\ Len(shows[s]) <= bin[s].size
           /\ bin[s].term # 0 => Len(shows[s]) = bin[s].size
           /\ Data(bin[s]) \in Bytes /\ Len(Data(bin[s])) = bin[s].size
           /\ \A i \in 1 .. Len(shows[s]) : Data(bin[s])[i] = shows[s][i]
           /\ SubSeq(Data(bin[s]), 1, Len(shows[s])) = shows[s]
  <1>1. bin[s] \in Struct /\ shows[s] \in Bytes /\ Kept(bin[s], shows[s], block, term)
    BY DEF Good, Typed
  <1> DEFINE c == In(bin[s].data, block, term)
  <1>2. c = Contents(bin[s].data)
    BY DEF In, Contents
  <1>3. c \in Bytes
    <2>1. CASE bin[s].data.in = "block"
      <3>1. bin[s].data.n \in 1 .. Len(block)
        BY <1>1, <2>1 DEF Kept, Placed
      <3>2. block[bin[s].data.n] \in Block
        BY <3>1 DEF Good, Typed
      <3> QED
        BY <2>1, <3>2 DEF In, Block
    <2>2. CASE bin[s].data.in = "term"
      <3>1. bin[s].data.n \in 1 .. Len(term)
        BY <1>1, <2>2 DEF Kept, Placed
      <3>2. term[bin[s].data.n] \in BinTerm
        BY <3>1 DEF Good, Typed
      <3> QED
        BY <2>2, <3>2 DEF In, BinTerm
    <2>3. CASE bin[s].data.in = "nowhere"
      BY <2>3 DEF In, Bytes
    <2> QED
      BY <1>1, <2>1, <2>2, <2>3 DEF Struct, AnyPlace
  <1>4. Shows(bin[s], shows[s], c)
    BY <1>1 DEF Kept
  <1>5. Data(bin[s]) = SubSeq(c, bin[s].data.offs + 1, bin[s].data.offs + bin[s].size)
    BY <1>2 DEF Data
  <1> HIDE DEF c
  <1>6. BeginsWith(Data(bin[s]), bin[s].size, shows[s])
    BY <1>1, <1>3, <1>4, <1>5, FrontShown
  <1>7. Len(shows[s]) \in Nat
    BY <1>1 DEF Bytes
  <1>8. Len(shows[s]) <= bin[s].size /\ (bin[s].term # 0 => Len(shows[s]) = bin[s].size)
    BY <1>4 DEF Shows
  <1> QED
    BY <1>1, <1>6, <1>7, <1>8 DEF BeginsWith

\* A struct that owns nothing leaves the blocks alone.
LEMMA NothingToFree ==
    ASSUME Good, NEW s \in Structs, ~Owns(bin[s])
    PROVE  Rest(s, block)
  <1>1. Unblocked(bin[s]) = block
    BY DEF Unblocked
  <1> QED
    BY <1>1, Unblocking

-----------------------------------------------------------------------------
\* A call that allocates a block for s, with the bytes sh in front
LEMMA Allocating ==
    ASSUME Good, NEW s \in Structs, NEW r, Rest(s, r), NEW bytes \in Bytes, NEW sh \in Bytes,
           NEW n \in Nat, n = Len(bytes),
           Len(sh) <= Len(bytes), \A i \in 1 .. Len(sh) : bytes[i] = sh[i],
           block' = Append(r, [live |-> TRUE, bytes |-> bytes]),
           Set(s, [data |-> InBlock(Len(block) + 1), size |-> n, term |-> 0], sh),
           UNCHANGED term, Told'
    PROVE  Good'
  <1> DEFINE b == [data |-> InBlock(Len(block) + 1), size |-> n, term |-> 0]
             x == [live |-> TRUE, bytes |-> bytes]
  <1>1. TermStep
    BY SameTerms
  <1>2. r \in Seq(Block) /\ Len(r) = Len(block)
    BY DEF Rest
  <1>3. b \in Struct /\ Kept(b, sh, block', term')
    BY <1>2, OfNewBlock
  <1>4. x \in Block /\ IsLive(x) /\ b.term = 0 /\ b.data = InBlock(Len(block) + 1)
    BY DEF Block, IsLive
  <1>5. block' = Append(r, x) /\ Set(s, b, sh)
    OBVIOUS
  <1> HIDE DEF b, x
  <1>6. BlockStep(s, b)
    BY <1>4, <1>5, NewBlock
  <1> QED
    BY <1>1, <1>3, <1>5, <1>6, Stepped

\* The bytes that tell a block apart
LEMMA TimesBytes ==
    ASSUME NEW n \in Nat, NEW byte \in Nat
    PROVE  Times(n, byte) \in Bytes /\ Len(Times(n, byte)) = n
  BY DEF Times, Bytes

\* A struct without a block of its own gets one.
LEMMA AllocBinaryKeeps ==
    ASSUME Good, BinariesAssumption, NEW s \in Structs, AllocBinary(s)
    PROVE  Good'
  <1>1. PICK n \in 0 .. MaxSize :
          /\ ~Owns(bin[s]) /\ UNCHANGED term /\ call' = <<"none">>
          /\ block' = Allocated(Times(n, Len(block) + 1))
          /\ Set(s, [data |-> InBlock(Len(block) + 1), size |-> n, term |-> 0],
                 Times(n, Len(block) + 1))
    BY DEF AllocBinary
  <1> DEFINE bytes == Times(n, Len(block) + 1)
  <1>2. Len(block) + 1 \in Nat /\ n \in Nat
    BY DEF Good, Typed, BinariesAssumption
  <1>3. bytes \in Bytes /\ Len(bytes) = n
    BY <1>2, TimesBytes
  <1>4. Len(bytes) <= Len(bytes)
    BY <1>2, <1>3
  <1>5. Rest(s, block) /\ Told'
    BY <1>1, NothingToFree, NothingTold
  <1>6. /\ block' = Append(block, [live |-> TRUE, bytes |-> bytes])
        /\ Set(s, [data |-> InBlock(Len(block) + 1), size |-> n, term |-> 0], bytes)
    BY <1>1 DEF Allocated
  <1> HIDE DEF bytes
  <1> QED
    BY <1>1, <1>2, <1>3, <1>4, <1>5, <1>6, Allocating

\* The bytes that realloc copies, and what is behind them
Copied(d, size, n, fill) == [i \in 1 .. n |-> IF i <= size THEN d[i] ELSE fill]

LEMMA CopiedBytes ==
    ASSUME NEW d \in Bytes, NEW size \in Nat, Len(d) = size, NEW n \in Nat, NEW fill \in Nat
    PROVE  Copied(d, size, n, fill) \in Bytes /\ Len(Copied(d, size, n, fill)) = n
  <1>1. ASSUME NEW i \in 1 .. n PROVE (IF i <= size THEN d[i] ELSE fill) \in Nat
    <2>1. CASE i <= size
      <3>1. i \in 1 .. Len(d)
        BY <2>1
      <3> QED
        BY <2>1, <3>1, ElementOfSeq DEF Bytes
    <2>2. CASE ~(i <= size)
      BY <2>2
    <2> QED
      BY <2>1, <2>2
  <1> QED
    BY <1>1 DEF Bytes, Copied

\* Realloc of a block keeps the bytes that fit; realloc to 0 loses it.
LEMMA ReallocOwnedKeeps ==
    ASSUME Good, BinariesAssumption, NEW s \in Structs, ReallocOwned(s)
    PROVE  BytesIInv'
  <1> DEFINE Kind(n, junk) == Copied(Data(bin[s]), bin[s].size, n, junk)
             front(n) == IF n < Len(shows[s]) THEN n ELSE Len(shows[s])
  <1>1. PICK n \in 0 .. MaxSize, junk \in Unread :
          /\ Owns(bin[s]) /\ UNCHANGED term /\ call' = <<"none">>
          /\ \/ /\ n = 0
                /\ UNCHANGED bin /\ shows' = [shows EXCEPT ![s] = Lost]
             \/ /\ n # 0
                /\ block' = Append(Freed(bin[s].data.n), [live |-> TRUE, bytes |-> Kind(n, junk)])
                /\ Set(s, [data |-> InBlock(Len(block) + 1), size |-> n, term |-> 0],
                       SubSeq(shows[s], 1, front(n)))
    BY DEF ReallocOwned, Copied
  <1>2. /\ n \in Nat /\ junk \in Nat
        /\ bin[s] \in Struct /\ bin[s].size \in Nat /\ Data(bin[s]) \in Bytes
        /\ Len(Data(bin[s])) = bin[s].size
        /\ shows[s] \in Bytes /\ Len(shows[s]) \in Nat /\ Len(shows[s]) <= bin[s].size
    BY GoodData DEF BinariesAssumption, Struct
  <1>3. CASE /\ n = 0
             /\ UNCHANGED bin /\ shows' = [shows EXCEPT ![s] = Lost]
    <2>1. DOMAIN bin = Structs /\ DOMAIN shows = Structs
      BY DEF Good, Typed
    <2>2. DOMAIN bin' = Structs /\ DOMAIN shows' = Structs /\ shows'[s] = Lost /\ bin'[s] = bin[s]
      BY <1>3, <2>1
    <2>3. Owns(bin'[s])
      BY <1>1, <2>2
    <2> QED
      BY <2>2, <2>3 DEF BytesIInv, Bad, Owns
  <1>4. CASE /\ n # 0
             /\ block' = Append(Freed(bin[s].data.n), [live |-> TRUE, bytes |-> Kind(n, junk)])
             /\ Set(s, [data |-> InBlock(Len(block) + 1), size |-> n, term |-> 0],
                    SubSeq(shows[s], 1, front(n)))
    <2> DEFINE bytes == Kind(n, junk)
               f == front(n)
               sh == SubSeq(shows[s], 1, f)
    <2>1. Rest(s, Freed(bin[s].data.n))
      <3>1. Unblocked(bin[s]) = Freed(bin[s].data.n)
        BY <1>1 DEF Unblocked
      <3> QED
        BY <3>1, Unblocking
    <2>2. bytes \in Bytes /\ Len(bytes) = n
      BY <1>2, CopiedBytes
    <2>3. f \in Nat /\ f <= Len(shows[s]) /\ f <= n
      BY <1>2
    <2>4. \A i \in 1 .. n : bytes[i] = IF i <= bin[s].size THEN Data(bin[s])[i] ELSE junk
      BY DEF Copied
    <2> HIDE DEF Kind, front
    <2>5. /\ sh \in Bytes /\ Len(sh) = f
          /\ \A i \in 1 .. f : sh[i] = shows[s][i]
      BY <1>2, <2>3, FrontBytes
    <2>6. ASSUME NEW i \in 1 .. Len(sh) PROVE bytes[i] = sh[i]
      <3>1. i \in 1 .. f
        BY <2>5
      <3>2. i \in 1 .. n /\ i \in 1 .. Len(shows[s]) /\ i <= bin[s].size
        BY <1>2, <2>3, <3>1
      <3>3. bytes[i] = Data(bin[s])[i]
        BY <2>4, <3>2
      <3>4. Data(bin[s])[i] = shows[s][i]
        BY <3>2, GoodData
      <3>5. sh[i] = shows[s][i]
        BY <2>5, <3>1
      <3> QED
        BY <3>3, <3>4, <3>5
    <2>7. Len(sh) <= Len(bytes) /\ n = Len(bytes)
      BY <2>2, <2>3, <2>5
    <2>8. Told'
      BY <1>1, NothingTold
    <2>9. /\ block' = Append(Freed(bin[s].data.n), [live |-> TRUE, bytes |-> bytes])
          /\ Set(s, [data |-> InBlock(Len(block) + 1), size |-> n, term |-> 0], sh)
      BY <1>4
    <2> HIDE DEF bytes, sh, f
    <2>10. Good'
      BY <1>1, <1>2, <2>1, <2>2, <2>5, <2>6, <2>7, <2>8, <2>9, Allocating
    <2> QED
      BY <2>10 DEF BytesIInv
  <1> QED
    BY <1>1, <1>3, <1>4

\* Realloc of a term makes a copy of what it shows, and zeros.
LEMMA ReallocTermKeeps ==
    ASSUME Good, BinariesAssumption, NEW s \in Structs, ReallocTerm(s)
    PROVE  Good'
  <1> DEFINE bytes(n) == Copied(Data(bin[s]), bin[s].size, n, 0)
             sh(n) == Copied(shows[s], Len(shows[s]), n, 0)
  <1>1. PICK n \in 0 .. MaxSize :
          /\ bin[s].term # 0 /\ UNCHANGED term /\ call' = <<"none">>
          /\ block' = Allocated(bytes(n))
          /\ Set(s, [data |-> InBlock(Len(block) + 1), size |-> n, term |-> 0], sh(n))
    BY DEF ReallocTerm, Copied
  <1>2. /\ n \in Nat /\ 0 \in Nat
        /\ bin[s] \in Struct /\ bin[s].size \in Nat /\ Data(bin[s]) \in Bytes
        /\ Len(Data(bin[s])) = bin[s].size
        /\ shows[s] \in Bytes /\ Len(shows[s]) \in Nat /\ Len(shows[s]) = bin[s].size
    BY <1>1, GoodData DEF BinariesAssumption, Struct
  <1>3. bytes(n) \in Bytes /\ Len(bytes(n)) = n
    BY <1>2, CopiedBytes
  <1>4. sh(n) \in Bytes /\ Len(sh(n)) = n
    <2>1. PICK d \in Bytes, size \in Nat : d = shows[s] /\ size = Len(shows[s])
      BY <1>2
    <2>2. Len(d) = size /\ n \in Nat /\ 0 \in Nat
      BY <1>2, <2>1
    <2>3. Copied(d, size, n, 0) \in Bytes /\ Len(Copied(d, size, n, 0)) = n
      BY <2>2, CopiedBytes
    <2> QED
      BY <2>1, <2>3
  <1>5. ASSUME NEW i \in 1 .. Len(sh(n)) PROVE bytes(n)[i] = sh(n)[i]
    <2>1. i \in 1 .. n
      BY <1>4
    <2>2. /\ bytes(n)[i] = IF i <= bin[s].size THEN Data(bin[s])[i] ELSE 0
          /\ sh(n)[i] = IF i <= Len(shows[s]) THEN shows[s][i] ELSE 0
      BY <2>1 DEF Copied
    <2> HIDE DEF bytes, sh
    <2>3. CASE i <= bin[s].size
      <3>1. i \in 1 .. Len(shows[s])
        BY <1>2, <2>1, <2>3
      <3>2. Data(bin[s])[i] = shows[s][i]
        BY <3>1, GoodData
      <3>3. i <= Len(shows[s])
        BY <1>2, <2>3
      <3> QED
        BY <2>2, <2>3, <3>2, <3>3
    <2>4. CASE ~(i <= bin[s].size)
      BY <1>2, <2>2, <2>4
    <2> QED
      BY <2>3, <2>4
  <1>6. Len(sh(n)) <= Len(bytes(n)) /\ n = Len(bytes(n))
    BY <1>2, <1>3, <1>4
  <1>7. ~Owns(bin[s])
    BY <1>1 DEF Owns
  <1>8. Rest(s, block) /\ Told'
    BY <1>1, <1>7, NothingToFree, NothingTold
  <1>9. block' = Append(block, [live |-> TRUE, bytes |-> bytes(n)])
    BY <1>1 DEF Allocated
  <1> HIDE DEF bytes, sh
  <1> QED
    BY <1>1, <1>2, <1>3, <1>4, <1>5, <1>6, <1>8, <1>9, Allocating

\* Release gives up the block of the struct, if it has one.
LEMMA ReleaseKeeps ==
    ASSUME Good, NEW s \in Structs, Release(s)
    PROVE  Good'
  <1>1. /\ block' = Unblocked(bin[s]) /\ Set(s, None, <<>>)
        /\ UNCHANGED term /\ call' = <<"none">>
    BY DEF Release, Unblocked
  <1>2. None \in Struct /\ ~Owns(None) /\ <<>> \in Bytes /\ Kept(None, <<>>, block', term')
    BY OfNothing
  <1>3. BlockStep(s, None)
    BY <1>1, <1>2, Unblocking, GivenUp
  <1>4. TermStep /\ Told'
    BY <1>1, SameTerms, NothingTold
  <1> QED
    BY <1>1, <1>2, <1>3, <1>4, Stepped

\* A struct that shows bytes of a term
OfTerm(t, offs, size, m) == [data |-> InTerm(t, offs), size |-> size, term |-> m]

ShowsTerm(b, sh, blk, trm) == b \in Struct /\ ~Owns(b) /\ Kept(b, sh, blk, trm)

LEMMA TermShown ==
    ASSUME NEW t \in Nat, NEW offs \in Nat, NEW sh \in Bytes, NEW size \in Nat, NEW m \in Nat,
           NEW blk, NEW trm, t \in 1 .. Len(trm), m # 0, size = Len(sh),
           \A i \in 1 .. Len(sh) : trm[t].bytes[offs + i] = sh[i],
           size = 0 \/ offs + size <= Len(trm[t].bytes)
    PROVE  ShowsTerm(OfTerm(t, offs, size, m), sh, blk, trm)
  <1> DEFINE b == OfTerm(t, offs, size, m)
             c == trm[t].bytes
  <1>1. /\ b.data.in = "term" /\ b.data.n = t /\ b.data.offs = offs /\ b.size = size
        /\ b.term = m /\ b \in Struct
    BY DEF OfTerm, InTerm, Struct, AnyPlace
  <1>2. Len(sh) \in Nat
    BY DEF Bytes
  <1> HIDE DEF b
  <1>3. In(b.data, blk, trm) = c
    BY <1>1 DEF In
  <1>4. Placed(b, blk, trm)
    BY <1>1 DEF Placed
  <1>5. Shows(b, sh, c)
    BY <1>1, <1>2 DEF Shows
  <1>6. ~Owns(b)
    BY <1>1 DEF Owns
  <1> QED
    BY <1>1, <1>3, <1>4, <1>5, <1>6 DEF Kept, ShowsTerm, b

\* The term that is made of a struct has the bytes it showed.
LEMMA MakeBinaryKeeps ==
    ASSUME Good, NEW s \in Structs, MakeBinary(s)
    PROVE  Good'
  <1> DEFINE m == Len(term) + 1
             x == HeapBinary(Data(bin[s]))
             b == OfTerm(m, 0, 0, m)
  <1>1. /\ term' = Append(term, x) /\ block' = Unblocked(bin[s]) /\ Set(s, b, <<>>)
        /\ call' = <<"made", shows[s], Data(bin[s])>>
    BY DEF MakeBinary, OfTerm
  <1>2. x \in BinTerm /\ x.orig = 0 /\ x.offs = 0
    BY GoodData DEF HeapBinary, BinTerm
  <1>3. Len(term) \in Nat /\ m \in Nat /\ m # 0 /\ 0 \in 0 .. m
    BY DEF Good, Typed
  <1> HIDE DEF x
  <1>4. TermStep /\ Len(term') = m
    BY <1>1, <1>2, <1>3, NewTerm
  <1>5. m \in 1 .. Len(term')
    BY <1>3, <1>4
  <1>6. <<>> \in Bytes /\ Len(<<>>) = 0 /\ \A i \in 1 .. Len(<<>>) : term'[m].bytes[0 + i] = <<>>[i]
    BY DEF Bytes
  <1> HIDE DEF m
  <1>7. b \in Struct /\ ~Owns(b) /\ Kept(b, <<>>, block', term')
    <2>1. ShowsTerm(b, <<>>, block', term')
      BY <1>3, <1>5, <1>6, TermShown
    <2> QED
      BY <2>1 DEF ShowsTerm
  <1> HIDE DEF b
  <1>8. BlockStep(s, b)
    BY <1>1, <1>7, Unblocking, GivenUp
  <1>9. call'[2] = shows[s] /\ call'[3] = Data(bin[s])
    BY <1>1
  <1>10. Told'
    BY <1>9, GoodData DEF Told
  <1> QED
    BY <1>1, <1>4, <1>6, <1>7, <1>8, <1>10, Stepped

\* A struct shows the bytes of the term that is inspected: a part has none.
LEMMA InspectBinaryKeeps ==
    ASSUME Good, NEW s \in Structs, InspectBinary(s)
    PROVE  Good'
  <1>1. PICK t \in 1 .. Len(term) :
          /\ ~Owns(bin[s]) /\ UNCHANGED <<block, term>> /\ call' = <<"none">>
          /\ Set(s, OfTerm(Orig(t), term[t].offs, Len(term[t].bytes), Orig(t)), term[t].bytes)
    <2>1. DOMAIN term = 1 .. Len(term)
      BY DEF Good, Typed
    <2> QED
      BY <2>1 DEF InspectBinary, OfTerm
  <1>2. term[t] \in BinTerm /\ TermsInv /\ Len(term) \in Nat
    BY DEF Good, Typed
  <1>3. PICK m \in Nat, offs \in Nat, sh \in Bytes, size \in Nat :
          m = Orig(t) /\ offs = term[t].offs /\ sh = term[t].bytes /\ size = Len(sh)
    <2>1. term[t].orig \in Nat /\ term[t].offs \in Nat /\ term[t].bytes \in Bytes
      BY <1>2 DEF BinTerm
    <2>2. Len(term[t].bytes) \in Nat
      BY <2>1 DEF Bytes
    <2>3. Orig(t) \in Nat
      BY <1>2, <2>1 DEF Orig
    <2> QED
      BY <2>1, <2>2, <2>3, Zenon
  <1>4. m \in 1 .. Len(term) /\ m # 0
    BY <1>2, <1>3 DEF Orig, TermsInv
  <1>5. /\ \A i \in 1 .. Len(sh) : term[m].bytes[offs + i] = sh[i]
        /\ size = 0 \/ offs + size <= Len(term[m].bytes)
    <2>1. CASE term[t].orig = 0
      <3>1. m = t /\ offs = 0 /\ sh = term[m].bytes
        BY <1>2, <1>3, <2>1 DEF Orig, TermsInv
      <3> QED
        BY <1>3, <3>1
    <2>2. CASE term[t].orig # 0
      <3>1. sh = <<>>
        BY <1>2, <1>3, <2>2 DEF TermsInv
      <3>2. Len(sh) = 0
        BY <3>1
      <3> QED
        BY <1>3, <3>2
    <2> QED
      BY <2>1, <2>2
  <1> DEFINE b == OfTerm(m, offs, size, m)
  <1>6. ShowsTerm(b, sh, block', term')
    <2>1. ShowsTerm(b, sh, block, term)
      BY <1>3, <1>4, <1>5, TermShown
    <2> QED
      BY <1>1, <2>1
  <1>7. Set(s, b, sh)
    BY <1>1, <1>3
  <1> HIDE DEF b
  <1>8. b \in Struct /\ ~Owns(b) /\ Kept(b, sh, block', term')
    BY <1>6 DEF ShowsTerm
  <1>9. Rest(s, block')
    BY <1>1, NothingToFree
  <1>10. BlockStep(s, b)
    BY <1>8, <1>9, GivenUp
  <1>11. TermStep /\ Told'
    BY <1>1, SameTerms, NothingTold
  <1> QED
    BY <1>7, <1>8, <1>10, <1>11, Stepped

\* The block of an iolist, or one that is released again
LEMMA InspectIolistKeeps ==
    ASSUME Good, BinariesAssumption, NEW s \in Structs, InspectIolist(s)
    PROVE  BytesIInv'
  <1>1. PICK w \in Gathered :
          /\ ~Owns(bin[s]) /\ block = <<>> /\ UNCHANGED term
          /\ call' = <<"iolist", w.iolist, w.is = "ok", w.bytes>>
          /\ \/ UNCHANGED <<bin, block, shows>>
             \/ /\ block' = Allocated(w.bytes)
                /\ Set(s, [data |-> InBlock(1), size |-> Len(w.bytes), term |-> 0], w.bytes)
             \/ /\ block' = Append(block, [live |-> FALSE, bytes |-> <<>>])
                /\ Set(s, None, <<>>)
    BY DEF InspectIolist
  <1>2. Rest(s, block) /\ TermStep
    BY <1>1, NothingToFree, SameTerms
  <1>3. Told'
    <2>1. call'[1] = "iolist"
      BY <1>1
    <2> QED
      BY <2>1 DEF Told
  <1>4. CASE UNCHANGED <<bin, block, shows>>
    <2>1. Typed' /\ TermsInv'
      BY <1>1, <1>4 DEF Good, Typed, TermsInv
    <2>2. \A t \in Structs : Kept(bin[t], shows[t], block, term)'
      BY <1>1, <1>4 DEF Good
    <2>3. OwnerInv'
      BY <1>4 DEF Good, OwnerInv, Owns
    <2> QED
      BY <1>3, <2>1, <2>2, <2>3 DEF Good, BytesIInv
  <1>5. CASE /\ block' = Allocated(w.bytes)
             /\ Set(s, [data |-> InBlock(1), size |-> Len(w.bytes), term |-> 0], w.bytes)
    <2>1. PICK bytes \in Bytes, n \in Nat : bytes = w.bytes /\ n = Len(bytes)
      BY DEF BinariesAssumption, Bytes
    <2>2. Len(block) + 1 = 1
      BY <1>1
    <2>3. /\ block' = Append(block, [live |-> TRUE, bytes |-> bytes])
          /\ Set(s, [data |-> InBlock(Len(block) + 1), size |-> n, term |-> 0], bytes)
      BY <1>5, <2>1, <2>2 DEF Allocated
    <2>4. Len(bytes) <= Len(bytes) /\ \A i \in 1 .. Len(bytes) : bytes[i] = bytes[i]
      BY <2>1
    <2>5. Good'
      BY <1>1, <1>2, <1>3, <2>1, <2>3, <2>4, Allocating
    <2> QED
      BY <2>5 DEF BytesIInv
  <1>6. CASE /\ block' = Append(block, [live |-> FALSE, bytes |-> <<>>])
             /\ Set(s, None, <<>>)
    <2> DEFINE x == [live |-> FALSE, bytes |-> <<>>]
    <2>1. x \in Block /\ ~IsLive(x)
      BY DEF Block, Bytes, IsLive
    <2>2. block' = Append(block, x)
      BY <1>6
    <2> HIDE DEF x
    <2>3. None \in Struct /\ ~Owns(None) /\ <<>> \in Bytes /\ Kept(None, <<>>, block', term')
      BY OfNothing
    <2>4. BlockStep(s, None)
      BY <1>2, <2>1, <2>2, <2>3, NewBlock
    <2>5. Good'
      BY <1>2, <1>3, <1>6, <2>3, <2>4, Stepped
    <2> QED
      BY <2>5 DEF BytesIInv
  <1> QED
    BY <1>1, <1>4, <1>5, <1>6

\* A term more changes no struct.
LEMMA TermAdded ==
    ASSUME Good, TermStep, UNCHANGED <<bin, block, shows>>, call' = <<"none">>
    PROVE  Good'
  <1>1. Typed' /\ TermsInv' /\ Told'
    BY NothingTold DEF Good, Typed, TermStep
  <1>2. OwnerInv'
    BY DEF Good, OwnerInv, Owns
  <1>3. ASSUME NEW s \in Structs PROVE Kept(bin[s], shows[s], block, term)'
    <2>1. bin[s] \in Struct /\ Kept(bin[s], shows[s], block, term)
      BY DEF Good, Typed
    <2>2. Owns(bin[s]) => bin[s].data.n \in 1 .. Len(block) /\ block[bin[s].data.n] = block[bin[s].data.n]
      BY <2>1 DEF Kept, Placed, Owns
    <2>3. /\ Len(term) \in Nat /\ Len(term') \in Nat /\ Len(term) <= Len(term')
          /\ \A u \in 1 .. Len(term) : term'[u] = term[u]
      BY DEF Good, Typed, TermStep
    <2>4. Kept(bin[s], shows[s], block, term')
      BY <2>1, <2>2, <2>3, StaysKept
    <2> QED
      BY <2>4
  <1> QED
    BY <1>1, <1>2, <1>3 DEF Good

\* A heap binary of the caller's bytes
LEMMA MakeNewBinaryKeeps ==
    ASSUME Good, BinariesAssumption, MakeNewBinary
    PROVE  Good'
  <1>1. PICK n \in 0 .. MaxSize :
          /\ term' = Append(term, HeapBinary(Times(n, MaxBlocks + Len(term))))
          /\ UNCHANGED <<bin, block, shows>> /\ call' = <<"none">>
    BY DEF MakeNewBinary
  <1> DEFINE x == HeapBinary(Times(n, MaxBlocks + Len(term)))
  <1>2. Len(term) \in Nat /\ MaxBlocks + Len(term) \in Nat /\ n \in Nat
    BY DEF Good, Typed, BinariesAssumption
  <1>3. Times(n, MaxBlocks + Len(term)) \in Bytes
    BY <1>2, TimesBytes
  <1>4. x \in BinTerm /\ x.orig = 0 /\ x.offs = 0 /\ 0 \in 0 .. Len(term) + 1
    BY <1>2, <1>3 DEF HeapBinary, BinTerm
  <1>5. term' = Append(term, x)
    BY <1>1
  <1> HIDE DEF x
  <1>6. TermStep
    BY <1>4, <1>5, NewTerm
  <1> QED
    BY <1>1, <1>6, TermAdded

\* A part is a part of a heap binary, never of another part.
LEMMA MakeSubBinaryKeeps ==
    ASSUME Good, BinariesAssumption, MakeSubBinary
    PROVE  Good'
  <1>1. PICK t \in 1 .. Len(term), pos \in 0 .. MaxSize :
          /\ term' = Append(term, [orig |-> Orig(t), offs |-> term[t].offs + 2 * pos, bytes |-> <<>>])
          /\ UNCHANGED <<bin, block, shows>> /\ call' = <<"none">>
    <2>1. DOMAIN term = 1 .. Len(term)
      BY DEF Good, Typed
    <2> QED
      BY <2>1 DEF MakeSubBinary
  <1> DEFINE x == [orig |-> Orig(t), offs |-> term[t].offs + 2 * pos, bytes |-> <<>>]
  <1>2. /\ term[t] \in BinTerm /\ TermsInv /\ Len(term) \in Nat /\ pos \in Nat
    BY DEF Good, Typed, BinariesAssumption
  <1>3. term[t].offs + 2 * pos \in Nat /\ term[t].orig \in Nat
    BY <1>2 DEF BinTerm
  <1>4. Orig(t) \in Nat /\ Orig(t) # 0 /\ Orig(t) \in 0 .. Len(term) + 1
    BY <1>2, <1>3 DEF Orig, TermsInv
  <1>5. x \in BinTerm /\ x.orig = Orig(t) /\ x.bytes = <<>>
    BY <1>3, <1>4 DEF BinTerm, Bytes
  <1>6. term' = Append(term, x)
    BY <1>1
  <1> HIDE DEF x
  <1>7. TermStep
    BY <1>4, <1>5, <1>6, NewTerm
  <1> QED
    BY <1>1, <1>7, TermAdded

-----------------------------------------------------------------------------
\* A struct that lost its block keeps the pointer through every call that the caller
\* may still make.
LEMMA LostStays ==
    ASSUME Bad, BinariesNext
    PROVE  Bad'
  <1>1. ~overrun /\ DOMAIN bin = Structs /\ DOMAIN shows = Structs
    BY DEF Bad, BinariesNext
  <1>2. PICK l \in Structs : shows[l] = Lost /\ Owns(bin[l])
    BY <1>1 DEF Bad
  <1>3. DOMAIN bin' = Structs /\ DOMAIN shows' = Structs /\ bin'[l] = bin[l] /\ shows'[l] = shows[l]
    <2>1. ASSUME NEW s \in Structs, NEW b, NEW sh, Set(s, b, sh), s # l
          PROVE  /\ DOMAIN bin' = Structs /\ DOMAIN shows' = Structs
                 /\ bin'[l] = bin[l] /\ shows'[l] = shows[l]
      BY <1>1, <2>1 DEF Set
    <2>2. bin[l].term = 0
      BY <1>2 DEF Owns
    <2>3. ASSUME NEW s \in Structs, AllocBinary(s)
          PROVE  s # l /\ \E b, sh : Set(s, b, sh)
      BY <1>2, <2>3 DEF AllocBinary
    <2>4. ASSUME NEW s \in Structs, ReallocOwned(s)
          PROVE  s # l /\ \/ \E b, sh : Set(s, b, sh)
                          \/ UNCHANGED bin /\ shows' = [shows EXCEPT ![s] = Lost]
      BY <1>2, <2>4 DEF ReallocOwned
    <2>5. ASSUME NEW s \in Structs, ReallocTerm(s)
          PROVE  s # l /\ \E b, sh : Set(s, b, sh)
      BY <1>2, <2>2, <2>5 DEF ReallocTerm
    <2>6. ASSUME NEW s \in Structs, Release(s) \/ MakeBinary(s)
          PROVE  s # l /\ \E b, sh : Set(s, b, sh)
      BY <1>2, <2>6 DEF Release, MakeBinary
    <2>7. ASSUME NEW s \in Structs, InspectBinary(s)
          PROVE  s # l /\ \E b, sh : Set(s, b, sh)
      BY <1>2, <2>7 DEF InspectBinary
    <2>8. ASSUME NEW s \in Structs, InspectIolist(s)
          PROVE  s # l /\ \/ \E b, sh : Set(s, b, sh)
                          \/ UNCHANGED <<bin, shows>>
      BY <1>2, <2>8 DEF InspectIolist
    <2>9. ASSUME MakeNewBinary \/ MakeSubBinary
          PROVE  UNCHANGED <<bin, shows>>
      BY <2>9 DEF MakeNewBinary, MakeSubBinary
    <2>10. \/ \E s \in Structs :
                /\ s # l
                /\ \/ \E b, sh : Set(s, b, sh)
                   \/ UNCHANGED bin /\ shows' = [shows EXCEPT ![s] = Lost]
                   \/ UNCHANGED <<bin, shows>>
           \/ UNCHANGED <<bin, shows>>
      BY <2>3, <2>4, <2>5, <2>6, <2>7, <2>8, <2>9, Zenon DEF BinariesNext
    <2>11. CASE UNCHANGED <<bin, shows>>
      BY <1>1, <2>11
    <2>12. ASSUME NEW s \in Structs, s # l, UNCHANGED bin, shows' = [shows EXCEPT ![s] = Lost]
           PROVE  /\ DOMAIN bin' = Structs /\ DOMAIN shows' = Structs
                  /\ bin'[l] = bin[l] /\ shows'[l] = shows[l]
      BY <1>1, <2>12
    <2> QED
      BY <2>1, <2>10, <2>11, <2>12, Zenon
  <1>4. Owns(bin'[l])
    BY <1>2, <1>3
  <1> QED
    BY <1>2, <1>3, <1>4 DEF Bad, Owns

\* Structs start without a block.
LEMMA BytesInit ==
    ASSUME BinariesInit
    PROVE  Good
  <1>1. Typed
    <2>1. None \in Struct /\ <<>> \in Bytes
      BY OfNothing
    <2> QED
      BY <2>1 DEF BinariesInit, Typed
  <1>2. Len(term) = 0 /\ Len(block) = 0 /\ \A s \in Structs : bin[s] = None /\ shows[s] = <<>>
    BY DEF BinariesInit
  <1>3. TermsInv
    BY <1>2 DEF TermsInv
  <1>4. \A s \in Structs : Kept(bin[s], shows[s], block, term)
    BY <1>2, OfNothing
  <1>5. OwnerInv
    <2>1. \A s \in Structs : ~Owns(bin[s])
      BY <1>2, OfNothing
    <2> QED
      BY <1>2, <2>1 DEF OwnerInv
  <1>6. Told
    <2>1. call[1] = "none"
      BY Zenon DEF BinariesInit
    <2> QED
      BY <2>1 DEF Told
  <1> QED
    BY <1>1, <1>3, <1>4, <1>5, <1>6 DEF Good

\* Every call keeps the invariant.
LEMMA BytesNext ==
    ASSUME BytesIInv, BinariesAssumption, BinariesNext
    PROVE  BytesIInv'
  <1>1. CASE Bad
    BY <1>1, LostStays DEF BytesIInv
  <1>2. CASE Good
    <2>1. ASSUME NEW s \in Structs, AllocBinary(s) PROVE Good'
      BY <1>2, <2>1, AllocBinaryKeeps
    <2>2. ASSUME NEW s \in Structs, ReallocOwned(s) PROVE BytesIInv'
      BY <1>2, <2>2, ReallocOwnedKeeps
    <2>3. ASSUME NEW s \in Structs, ReallocTerm(s) PROVE Good'
      BY <1>2, <2>3, ReallocTermKeeps
    <2>4. ASSUME NEW s \in Structs, Release(s) PROVE Good'
      BY <1>2, <2>4, ReleaseKeeps
    <2>5. ASSUME NEW s \in Structs, MakeBinary(s) PROVE Good'
      BY <1>2, <2>5, MakeBinaryKeeps
    <2>6. ASSUME NEW s \in Structs, InspectBinary(s) PROVE Good'
      BY <1>2, <2>6, InspectBinaryKeeps
    <2>7. ASSUME NEW s \in Structs, InspectIolist(s) PROVE BytesIInv'
      BY <1>2, <2>7, InspectIolistKeeps
    <2>8. ASSUME MakeNewBinary PROVE Good'
      BY <1>2, <2>8, MakeNewBinaryKeeps
    <2>9. ASSUME MakeSubBinary PROVE Good'
      BY <1>2, <2>9, MakeSubBinaryKeeps
    <2> QED
      BY <2>1, <2>2, <2>3, <2>4, <2>5, <2>6, <2>7, <2>8, <2>9, Zenon DEF BinariesNext, BytesIInv
  <1> QED
    BY <1>1, <1>2 DEF BytesIInv

\* What the invariant says of the owners of a block and of the bytes of a struct
LEMMA BytesTold ==
    ASSUME BytesIInv
    PROVE  OwnsItsBytes
  <1>1. CASE Bad
    BY <1>1 DEF Bad, OwnsItsBytes
  <1>2. CASE Good
    <2>1. ASSUME NEW n \in DOMAIN block
          PROVE  Cardinality({s \in Structs : Owns(bin[s]) /\ bin[s].data.n = n})
                     = IF block[n].live THEN 1 ELSE 0
      <3> DEFINE owners == {s \in Structs : Owns(bin[s]) /\ bin[s].data.n = n}
      <3>1. n \in 1 .. Len(block)
        BY <1>2 DEF Good, Typed
      <3>2. CASE IsLive(block[n])
        <4>1. PICK s \in Structs : Owns(bin[s]) /\ bin[s].data.n = n
          BY <1>2, <3>1, <3>2 DEF Good, OwnerInv
        <4>2. \A t \in Structs : Owns(bin[t]) /\ bin[t].data.n = n => t = s
          BY <1>2, <4>1 DEF Good, OwnerInv
        <4>3. owners = {s}
          BY <4>1, <4>2
        <4>4. Cardinality(owners) = 1
          BY <4>3, FS_Singleton
        <4> QED
          BY <3>2, <4>4 DEF IsLive
      <3>3. CASE ~IsLive(block[n])
        <4>1. \A s \in Structs : Owns(bin[s]) => IsLive(block[bin[s].data.n])
          BY <1>2 DEF Good, Kept, Placed, Owns
        <4>2. owners = {}
          BY <3>3, <4>1
        <4>3. Cardinality(owners) = 0
          BY <4>2, FS_EmptySet
        <4> QED
          BY <3>3, <4>3 DEF IsLive
      <3> QED
        BY <3>2, <3>3
    <2>2. \A s \in Structs : SubSeq(Data(bin[s]), 1, Len(shows[s])) = shows[s]
      BY <1>2, GoodData
    <2>3. Told
      BY <1>2 DEF Good
    <2> QED
      BY <2>1, <2>2, <2>3 DEF OwnsItsBytes, Told
  <1> QED
    BY <1>1, <1>2 DEF BytesIInv

\* Through any sequence of calls of the binaries' functions, no live block has no owner
\* or two, none is freed while a struct has it, and the bytes a struct shows, or the
\* term made of it has, are those that were put there - until a realloc to 0 leaves a
\* struct with a block that is gone, or an iolist overruns its block.
THEOREM BytesInductive == BinariesSpec => []BytesIInv
  <1>1. BinariesInit => BytesIInv
    BY BytesInit DEF BytesIInv
  <1>2. BytesIInv /\ [BinariesNext]_binaryVars => BytesIInv'
    <2>1. ASSUME BytesIInv, UNCHANGED binaryVars PROVE BytesIInv'
      BY <2>1 DEF BytesIInv, Bad, Good, Typed, TermsInv, OwnerInv, Told, Owns, binaryVars
    <2>2. ASSUME BytesIInv, BinariesNext PROVE BytesIInv'
      BY <2>2, BytesNext, BinariesAssumption
    <2> QED
      BY <2>1, <2>2
  <1> QED
    BY <1>1, <1>2, PTL DEF BinariesSpec

\* A block has one owner as long as it is live, and the bytes are the caller's.
THEOREM BytesOwned == BinariesSpec => []OwnsItsBytes
  <1>1. BytesIInv => OwnsItsBytes
    BY BytesTold
  <1> QED
    BY <1>1, BytesInductive, PTL
=============================================================================
