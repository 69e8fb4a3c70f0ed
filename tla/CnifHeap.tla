------------------------------ MODULE CnifHeap ------------------------------
(***************************************************************************)
(* The term heap of an environment (src/src/cnif.c): a chain of fragments  *)
(* filled from the end downwards, and marks to which the heap is rewound.  *)
(*                                                                         *)
(* A fragment is its address, with the number of words it has; words and   *)
(* offsets count from 0.  "blocks" is a history variable: what was handed  *)
(* out since the environment was made and not taken back by a rewind or a  *)
(* clear, in order; a mark remembers how many there were (given).  Nothing *)
(* in the repository calls the mark functions, so the contract of a mark   *)
(* is ours: it is used once, for the environment that made it, and it may  *)
(* be rewound while no mark begun before it was and the environment was    *)
(* not cleared.  malloc does not fail.  The field "first" is never         *)
(* anything but NULL and is left out.                                      *)
(*                                                                         *)
(* Operators above the one they vary, such as UpToBelow, are               *)
(* slips the properties would catch; the specification does not use them.  *)
(***************************************************************************)
EXTENDS Integers, Sequences

CONSTANTS Addr, NoFrag, DEFAULT_FRAGMENT_SIZE, Request, MaxMarks

ASSUME HeapAssumption ==
    /\ NoFrag \notin Addr
    /\ DEFAULT_FRAGMENT_SIZE \in Nat \ {0}
    /\ Request \subseteq Nat \ {0}
    /\ MaxMarks \in Nat

VARIABLES
    alive,    \* between enif_alloc_env and enif_free_env
    frags,    \* the chain from env->last, oldest first
    size,     \* malloc'ed fragment -> its words
    top,      \* env->top: a fragment and an offset in it
    marks,    \* the marks malloc'ed and not freed, oldest first
    blocks

vars == <<alive, frags, size, top, marks, blocks>>

NULL == [frag |-> NoFrag, off |-> 0]

LastFrag == IF frags = <<>> THEN NoFrag ELSE frags[Len(frags)]

Init ==
    /\ alive = FALSE
    /\ frags = <<>>
    /\ size = [a \in {} |-> 0]
    /\ top = NULL
    /\ marks = <<>>
    /\ blocks = <<>>

-----------------------------------------------------------------------------
\* enif_alloc_env
AllocEnv ==
    /\ ~alive
    /\ alive' = TRUE
    /\ frags' = <<>> /\ top' = NULL /\ blocks' = <<>>
    /\ UNCHANGED <<size, marks>>

FragmentSize(n) == IF n < DEFAULT_FRAGMENT_SIZE THEN DEFAULT_FRAGMENT_SIZE ELSE 2 * n

Hand(f, lo, n) ==
    /\ top' = [frag |-> f, off |-> lo]
    /\ blocks' = Append(blocks, [frag |-> f, lo |-> lo, n |-> n])

\* cnif_heap_alloc, from the fragment in use
AllocHere(n) ==
    /\ alive
    /\ top # NULL /\ top.off >= n
    /\ Hand(top.frag, top.off - n, n)
    /\ UNCHANGED <<alive, frags, size, marks>>

\* cnif_heap_alloc, from a new fragment at an address malloc has free
AllocFragment(n, a) ==
    /\ alive
    /\ top = NULL \/ top.off < n
    /\ a \in Addr \ DOMAIN size
    /\ frags' = Append(frags, a)
    /\ size' = [x \in DOMAIN size \cup {a} |-> IF x = a THEN FragmentSize(n) ELSE size[x]]
    /\ Hand(a, FragmentSize(n) - n, n)
    /\ UNCHANGED <<alive, marks>>

-----------------------------------------------------------------------------
UpToBelow(f) ==
    IF \E k \in 1 .. Len(frags) : frags[k] = f
    THEN (CHOOSE k \in 1 .. Len(frags) : frags[k] = f) - 1
    ELSE 0

\* Where the walk from env->last that stops at fragment f leaves the chain
UpTo(f) == CHOOSE k \in 0 .. Len(frags) :
             /\ k = 0 \/ frags[k] = f
             /\ \A j \in k + 1 .. Len(frags) : frags[j] # f

FreeFromLeaking(k) ==
    /\ frags' = SubSeq(frags, 1, k)
    /\ UNCHANGED size

FreeFrom(k) ==
    LET freed == {frags[j] : j \in k + 1 .. Len(frags)}
    IN /\ frags' = SubSeq(frags, 1, k)
       /\ size' = [x \in DOMAIN size \ freed |-> size[x]]

Without(s, i) == [j \in 1 .. Len(s) - 1 |-> IF j < i THEN s[j] ELSE s[j + 1]]

Spoilt(s, i) == [j \in 1 .. Len(s) |-> IF j < i THEN s[j] ELSE [s[j] EXCEPT !.usable = FALSE]]

BeginAtFirst ==
    /\ alive
    /\ Len(marks) < MaxMarks
    /\ marks' = Append(marks, [frag |-> IF frags = <<>> THEN NoFrag ELSE frags[1],
                               top |-> top, usable |-> TRUE, given |-> Len(blocks)])
    /\ UNCHANGED <<alive, frags, size, top, blocks>>

Begin ==
    /\ alive
    /\ Len(marks) < MaxMarks
    /\ marks' = Append(marks, [frag |-> LastFrag, top |-> top,
                               usable |-> TRUE, given |-> Len(blocks)])
    /\ UNCHANGED <<alive, frags, size, top, blocks>>

\* What was handed out since the mark was begun is taken back with it
Rewind(i) ==
    /\ alive
    /\ marks[i].usable
    /\ FreeFrom(UpTo(marks[i].frag))
    /\ top' = marks[i].top
    /\ blocks' = SubSeq(blocks, 1, marks[i].given)
    /\ marks' = Without(Spoilt(marks, i), i)
    /\ UNCHANGED alive

Commit(i) ==
    /\ marks' = Without(marks, i)
    /\ UNCHANGED <<alive, frags, size, top, blocks>>

ClearKeepsTop(still) ==
    /\ alive
    /\ alive' = still
    /\ FreeFrom(0)
    /\ blocks' = <<>>
    /\ marks' = Spoilt(marks, 1)
    /\ UNCHANGED top

\* enif_clear_env, and enif_free_env, which clears and then frees
Clear(still) ==
    /\ alive
    /\ alive' = still
    /\ FreeFrom(0)
    /\ top' = NULL
    /\ blocks' = <<>>
    /\ marks' = Spoilt(marks, 1)

Next ==
    \/ AllocEnv
    \/ \E n \in Request : AllocHere(n)
    \/ \E n \in Request, a \in Addr : AllocFragment(n, a)
    \/ Begin
    \/ \E i \in 1 .. Len(marks) : Rewind(i)
    \/ \E i \in 1 .. Len(marks) : Commit(i)
    \/ \E still \in BOOLEAN : Clear(still)

Spec == Init /\ [][Next]_vars

-----------------------------------------------------------------------------
InChain(f) == \E k \in 1 .. Len(frags) : frags[k] = f

\* The words of two terms never overlap, and the fragment of a term the caller
\* still holds is never freed: across new fragments, rewinds and reused addresses.
TermsIntact ==
    /\ \A j \in 1 .. Len(blocks) :
         LET b == blocks[j]
         IN InChain(b.frag) /\ b.frag \in DOMAIN size /\ 0 <= b.lo /\ b.lo + b.n <= size[b.frag]
    /\ \A j, k \in 1 .. Len(blocks) :
         j < k /\ blocks[j].frag = blocks[k].frag => blocks[k].lo + blocks[k].n <= blocks[j].lo

\* env->top points into env->last, and everything below it is unused: the test
\* "top - last->data < n" of cnif_heap_alloc subtracts pointers into one object.
TopInLast ==
    /\ top = NULL <=> frags = <<>>
    /\ frags # <<>> => top.frag = LastFrag /\ top.off <= size[LastFrag]
    /\ \A j \in 1 .. Len(blocks) : blocks[j].frag = LastFrag => blocks[j].lo >= top.off

\* Rewinding a usable mark finds its fragment in the chain, takes nothing back
\* that was handed out before it, and leaves no such word below the new top.
MarksReachable ==
    \A i \in 1 .. Len(marks) : marks[i].usable =>
        LET m == marks[i]
        IN /\ m.frag = NoFrag \/ InChain(m.frag)
           /\ m.top.frag = m.frag
           /\ m.frag = LastFrag => top.off <= m.top.off
           /\ m.given <= Len(blocks)
           /\ \A j \in 1 .. m.given : blocks[j].frag = m.frag => blocks[j].lo >= m.top.off
           /\ \A j \in m.given + 1 .. Len(blocks) : blocks[j].frag = m.frag =>
                 blocks[j].lo + blocks[j].n <= m.top.off

\* Every fragment that is malloc'ed is in the chain, once: none leaks, none is
\* freed twice.
NoFragmentLeaks ==
    /\ DOMAIN size = {frags[k] : k \in 1 .. Len(frags)}
    /\ \A j, k \in 1 .. Len(frags) : frags[j] = frags[k] => j = k
=============================================================================
