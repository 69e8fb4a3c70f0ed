------------------------------ MODULE Binaries ------------------------------
(***************************************************************************)
(* Binaries of src/src/cnif.c: ErlNifBinary structs of a caller, which own *)
(* a block of enif_alloc as long as their bin_term is 0, and the terms     *)
(* made of them.                                                           *)
(*                                                                         *)
(* A term is a heap binary or a part of one; the library makes no refc     *)
(* binaries.  A caller does not overwrite a struct that owns a block, and  *)
(* writes only to its own blocks.  What the bytes of an iolist are is a    *)
(* constant, Gathered, which module Iolists gives a value.                 *)
(*                                                                         *)
(* History variables: shows, the bytes a caller may count on in a struct,  *)
(* or Lost after a realloc that took the block away; call, the iolist of   *)
(* the last call and what came of it, or the term it made.                 *)
(*                                                                         *)
(* Operators above the one they vary, such as UnblockedNever, are slips the*)
(* properties would catch; the specification does not use them.            *)
(***************************************************************************)
EXTENDS Integers, Sequences, FiniteSets

CONSTANTS Structs,
          Gathered,           \* [iolist, is, bytes]: what the walks over iolists come to
          Unread,             \* what a byte that was never written may hold
          MaxSize, MaxBlocks, MaxTerms    \* bounds

ASSUME BinariesAssumption ==
    /\ Unread \subseteq Nat
    /\ {MaxSize, MaxBlocks, MaxTerms} \subseteq Nat
    /\ \A w \in Gathered : w.bytes \in Seq(Nat)

VARIABLES bin,      \* struct -> [data, size, term]
          block,    \* the blocks ever allocated: [live, bytes]
          term,     \* the binary terms: [orig, offs, bytes]; orig 0 for a heap binary
          shows, call, overrun

binaryVars == <<bin, block, term, shows, call, overrun>>

NULL == [in |-> "nowhere", n |-> 0, offs |-> 0]
InBlock(n) == [in |-> "block", n |-> n, offs |-> 0]
InTerm(n, offs) == [in |-> "term", n |-> n, offs |-> offs]
None == [data |-> NULL, size |-> 0, term |-> 0]
Lost == <<-1>>

Times(n, byte) == [i \in 1 .. n |-> byte]

Contents(place) ==
    CASE place.in = "block" -> block[place.n].bytes
      [] place.in = "term" -> term[place.n].bytes
      [] place.in = "nowhere" -> <<>>

\* The bytes from data to data + size
Data(b) == SubSeq(Contents(b.data), b.data.offs + 1, b.data.offs + b.size)

Owns(b) == b.term = 0 /\ b.data.in = "block"

BinariesInit ==
    /\ bin = [s \in Structs |-> None] /\ shows = [s \in Structs |-> <<>>]
    /\ block = <<>> /\ term = <<>> /\ call = <<"none">> /\ overrun = FALSE

Allocated(bytes) == Append(block, [live |-> TRUE, bytes |-> bytes])
Freed(n) == [block EXCEPT ![n] = [live |-> FALSE, bytes |-> <<>>]]

Set(s, b, bytes) == bin' = [bin EXCEPT ![s] = b] /\ shows' = [shows EXCEPT ![s] = bytes]

\* enif_alloc_binary, and the bytes the caller writes, which tell the blocks apart
AllocBinary(s) ==
    \E n \in 0 .. MaxSize :
        /\ ~Owns(bin[s]) /\ Len(block) < MaxBlocks
        /\ LET id == Len(block) + 1
           IN /\ block' = Allocated(Times(n, id))
              /\ Set(s, [data |-> InBlock(id), size |-> n, term |-> 0], Times(n, id))
        /\ UNCHANGED <<term, overrun>> /\ call' = <<"none">>

\* enif_realloc_binary of a block: realloc to 0 frees it and answers NULL, and the
\* struct stays as it was
ReallocOwned(s) ==
    \E n \in 0 .. MaxSize, junk \in Unread :
        /\ Owns(bin[s]) /\ shows[s] # Lost /\ Len(block) < MaxBlocks
        /\ LET bytes == [i \in 1 .. n |-> IF i <= bin[s].size THEN Data(bin[s])[i] ELSE junk]
           IN IF n = 0
              THEN /\ block' = Freed(bin[s].data.n)
                   /\ UNCHANGED bin /\ shows' = [shows EXCEPT ![s] = Lost]
              ELSE /\ block' = Append(Freed(bin[s].data.n), [live |-> TRUE, bytes |-> bytes])
                   /\ Set(s, [data |-> InBlock(Len(block) + 1), size |-> n, term |-> 0],
                          SubSeq(shows[s], 1, IF n < Len(shows[s]) THEN n ELSE Len(shows[s])))
        /\ UNCHANGED <<term, overrun>> /\ call' = <<"none">>

\* Of a term: a copy, with zeros behind it
ReallocTerm(s) ==
    \E n \in 0 .. MaxSize :
        /\ bin[s].term # 0 /\ Len(block) < MaxBlocks
        /\ LET bytes == [i \in 1 .. n |-> IF i <= bin[s].size THEN Data(bin[s])[i] ELSE 0]
           IN /\ block' = Allocated(bytes)
              /\ Set(s, [data |-> InBlock(Len(block) + 1), size |-> n, term |-> 0],
                     [i \in 1 .. n |-> IF i <= Len(shows[s]) THEN shows[s][i] ELSE 0])
        /\ UNCHANGED <<term, overrun>> /\ call' = <<"none">>

\* enif_release_binary: nothing for a struct that shows a term
Release(s) ==
    /\ bin[s].term = 0 /\ shows[s] # Lost
    /\ block' = IF Owns(bin[s]) THEN Freed(bin[s].data.n) ELSE block
    /\ Set(s, None, <<>>)
    /\ UNCHANGED <<term, overrun>> /\ call' = <<"none">>

HeapBinary(bytes) == [orig |-> 0, offs |-> 0, bytes |-> bytes]

UnblockedNever(b) == block

\* The block is freed by enif_make_binary, unless there is none
Unblocked(b) == IF Owns(b) THEN Freed(b.data.n) ELSE block

\* enif_make_binary of a struct without a term.  The release has set the size to 0,
\* and it stays so: the struct shows none of the bytes of its term.
MakeBinary(s) ==
    /\ bin[s].term = 0 /\ shows[s] # Lost /\ Len(term) < MaxTerms
    /\ term' = Append(term, HeapBinary(Data(bin[s])))
    /\ block' = Unblocked(bin[s])
    /\ Set(s, [data |-> InTerm(Len(term) + 1, 0), size |-> 0, term |-> Len(term) + 1], <<>>)
    /\ call' = <<"made", shows[s], Data(bin[s])>> /\ UNCHANGED overrun

\* enif_make_new_binary, and the bytes the caller writes
MakeNewBinary ==
    \E n \in 0 .. MaxSize :
        /\ Len(term) < MaxTerms
        /\ term' = Append(term, HeapBinary(Times(n, MaxBlocks + Len(term))))
        /\ UNCHANGED <<bin, block, shows, overrun>> /\ call' = <<"none">>

Orig(t) == IF term[t].orig = 0 THEN t ELSE term[t].orig

\* enif_make_sub_binary.  The size that was asked for is hidden by a local of that
\* name, which is 0 (and the size of a part is 0); the position counts twice.
MakeSubBinary ==
    \E t \in DOMAIN term, pos \in 0 .. MaxSize, size \in 0 .. MaxSize :
        /\ Len(term) < MaxTerms
        /\ term[t].offs + pos <= Len(term[Orig(t)].bytes)
        /\ term' = Append(term, [orig |-> Orig(t), offs |-> term[t].offs + 2 * pos, bytes |-> <<>>])
        /\ UNCHANGED <<bin, block, shows, overrun>> /\ call' = <<"none">>

\* enif_inspect_binary: the term of a part is the one it is a part of
InspectBinary(s) ==
    \E t \in DOMAIN term :
        /\ ~Owns(bin[s])
        /\ Set(s, [data |-> InTerm(Orig(t), term[t].offs), size |-> Len(term[t].bytes),
                   term |-> Orig(t)], term[t].bytes)
        /\ UNCHANGED <<block, term, overrun>> /\ call' = <<"none">>

\* enif_inspect_iolist_as_binary: nothing is allocated for an iolist without a size,
\* and the block is released again when the bytes do not fit.  Bound: only for the
\* first block.
InspectIolist(s) ==
    /\ ~Owns(bin[s]) /\ block = <<>> /\ MaxBlocks > 0
    /\ \E w \in Gathered :
        /\ call' = <<"iolist", w.iolist, w.is = "ok", w.bytes>>
        /\ overrun' = (w.is = "overrun")
        /\ IF w.is = "sizeless" THEN UNCHANGED <<bin, block, shows>>
           ELSE IF w.is = "ok"
           THEN /\ block' = Allocated(w.bytes)
                /\ Set(s, [data |-> InBlock(1), size |-> Len(w.bytes), term |-> 0], w.bytes)
           ELSE /\ block' = Append(block, [live |-> FALSE, bytes |-> <<>>])
                /\ Set(s, None, <<>>)
        /\ UNCHANGED term

BinariesNext ==
    /\ ~overrun
    /\ \/ \E s \in Structs :
            \/ AllocBinary(s) \/ ReallocOwned(s) \/ ReallocTerm(s) \/ Release(s)
            \/ MakeBinary(s) \/ InspectBinary(s) \/ InspectIolist(s)
       \/ MakeNewBinary \/ MakeSubBinary

BinariesSpec == BinariesInit /\ [][BinariesNext]_binaryVars

-----------------------------------------------------------------------------
\* Over any sequence of calls, a block is live exactly as long as one struct has it:
\* none is freed twice, used when it is freed, or lost.  The bytes a struct shows, and
\* the term made of it, are those the caller put there.  Not so after a realloc to 0.
OwnsItsBytes ==
    \/ overrun \/ \E s \in Structs : shows[s] = Lost
    \/ /\ \A n \in DOMAIN block :
            Cardinality({s \in Structs : Owns(bin[s]) /\ bin[s].data.n = n})
                = IF block[n].live THEN 1 ELSE 0
       /\ \A s \in Structs : SubSeq(Data(bin[s]), 1, Len(shows[s])) = shows[s]
       /\ call[1] = "made" => SubSeq(call[3], 1, Len(call[2])) = call[2]
=============================================================================
