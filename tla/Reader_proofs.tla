--------------------------- MODULE Reader_proofs ----------------------------
(***************************************************************************)
(* The stack of frames of src/src/cnif_io.c, for every file, every depth,  *)
(* and whatever the scanner makes of a text: a stream is closed once.  And *)
(* for every scanner that reads the items of the files as they were        *)
(* written (ScansAsWritten), that the callback gets what FormStream says.  *)
(***************************************************************************)
EXTENDS Reader, SequenceTheorems, FiniteSetTheorems, TLAPS

IsFrame(f) == f = [p |-> f.p, file |-> f.file, taken |-> f.taken, iarg |-> f.iarg, oarg |-> f.oarg]

\* The streams of the frames in s
Handles(s) == {s[i].iarg : i \in 1 .. Len(s)} \cup {s[i].oarg : i \in 1 .. Len(s)}

\* A frame pushed later has streams with greater numbers, of the n frames pushed
InOrder(s, n) ==
    /\ \A i \in 1 .. Len(s) :
         /\ IsFrame(s[i]) /\ s[i].iarg \in 1 .. 2 * n /\ s[i].oarg \in 0 .. 2 * n
         /\ s[i].oarg = 0 \/ s[i].iarg < s[i].oarg
    /\ \A i, j \in 1 .. Len(s) : i < j => s[i].iarg < s[j].iarg /\ s[i].oarg < s[j].iarg

IsSeq(s) == \E F : s \in Seq(F)

\* The open streams are those of the frames
StreamIInv ==
    /\ IsSeq(stack) /\ opens \in Nat
    /\ InOrder(stack, opens)
    /\ open = Handles(stack) \ {STD}
    /\ pc = "scanning" => stack # <<>> /\ answer = "none"

-----------------------------------------------------------------------------
\* What Append and Below make of a sequence
LEMMA Appended ==
    ASSUME NEW s, IsSeq(s), NEW x
    PROVE  /\ IsSeq(Append(s, x)) /\ Len(Append(s, x)) = Len(s) + 1
           /\ \A i \in 1 .. Len(s) : Append(s, x)[i] = s[i]
           /\ Append(s, x)[Len(s) + 1] = x
           /\ Len(s) \in Nat
  <1>1. PICK F : s \in Seq(F)
    BY DEF IsSeq
  <1>2. s \in Seq(F \cup {x}) /\ x \in F \cup {x}
    BY <1>1
  <1>3. Append(s, x) \in Seq(F \cup {x})
    BY <1>2
  <1> QED
    BY <1>2, <1>3 DEF IsSeq

LEMMA Shortened ==
    ASSUME NEW s, IsSeq(s), s # <<>>
    PROVE  LET t == SubSeq(s, 1, Len(s) - 1)
           IN /\ IsSeq(t) /\ Len(t) = Len(s) - 1 /\ Len(s) \in Nat \ {0}
              /\ \A i \in 1 .. Len(s) - 1 : t[i] = s[i]
  <1>1. PICK F : s \in Seq(F)
    BY DEF IsSeq
  <1>2. Len(s) \in Nat \ {0}
    BY <1>1
  <1>3. Len(s) - 1 \in Int /\ 1 \in Int /\ \A i \in 1 .. Len(s) - 1 : s[i] \in F
    BY <1>1, <1>2, ElementOfSeq
  <1>4. /\ SubSeq(s, 1, Len(s) - 1) \in Seq(F)
        /\ Len(SubSeq(s, 1, Len(s) - 1)) = IF 1 <= Len(s) - 1 THEN Len(s) - 1 - 1 + 1 ELSE 0
        /\ \A i \in 1 .. Len(s) - 1 - 1 + 1 : SubSeq(s, 1, Len(s) - 1)[i] = s[1 + i - 1]
    BY <1>3, SubSeqProperties
  <1>5. Len(SubSeq(s, 1, Len(s) - 1)) = Len(s) - 1
    <2>1. PICK n \in Nat \ {0} : n = Len(s)
      BY <1>2
    <2>2. Len(SubSeq(s, 1, n - 1)) = IF 1 <= n - 1 THEN n - 1 - 1 + 1 ELSE 0
      BY <1>4, <2>1
    <2>3. (IF 1 <= n - 1 THEN n - 1 - 1 + 1 ELSE 0) = n - 1
      OBVIOUS
    <2> QED
      BY <2>1, <2>2, <2>3
  <1>6. ASSUME NEW i \in 1 .. Len(s) - 1 PROVE SubSeq(s, 1, Len(s) - 1)[i] = s[i]
    <2>1. i \in 1 .. Len(s) - 1 - 1 + 1 /\ 1 + i - 1 = i
      BY <1>2
    <2> QED
      BY <1>4, <2>1
  <1>7. IsSeq(SubSeq(s, 1, Len(s) - 1))
    BY <1>4 DEF IsSeq
  <1> QED
    BY <1>2, <1>5, <1>6, <1>7

\* The streams of two stacks are the same, frame by frame
SameStreams(t, s) ==
    /\ Len(t) = Len(s)
    /\ \A i \in 1 .. Len(s) :
         t[i].iarg = s[i].iarg /\ t[i].oarg = s[i].oarg /\ (IsFrame(s[i]) => IsFrame(t[i]))

LEMMA SameInOrder ==
    ASSUME NEW s, NEW t, NEW n, SameStreams(t, s), InOrder(s, n)
    PROVE  InOrder(t, n) /\ Handles(t) = Handles(s)
  <1>1. InOrder(t, n)
    BY DEF SameStreams, InOrder
  <1>2. Handles(t) = Handles(s)
    BY DEF SameStreams, Handles
  <1> QED
    BY <1>1, <1>2

\* A turn that leaves the stack as high as it was changes the last frame only, and not
\* its streams.
LEMMA TopReplaced ==
    ASSUME NEW s, IsSeq(s), s # <<>>, NEW f,
           f.iarg = s[Len(s)].iarg, f.oarg = s[Len(s)].oarg, IsFrame(s[Len(s)]) => IsFrame(f)
    PROVE  LET t == Append(SubSeq(s, 1, Len(s) - 1), f)
           IN /\ IsSeq(t) /\ SameStreams(t, s) /\ t[Len(s)] = f
              /\ \A i \in 1 .. Len(s) - 1 : t[i] = s[i]
  <1> DEFINE b == SubSeq(s, 1, Len(s) - 1)
             t == Append(b, f)
  <1>1. /\ IsSeq(b) /\ Len(b) = Len(s) - 1 /\ Len(s) \in Nat \ {0}
        /\ \A i \in 1 .. Len(s) - 1 : b[i] = s[i]
    BY Shortened
  <1> HIDE DEF b
  <1>2. /\ IsSeq(t) /\ Len(t) = Len(b) + 1
        /\ \A i \in 1 .. Len(b) : t[i] = b[i]
        /\ t[Len(b) + 1] = f
    BY <1>1, Appended
  <1>3. Len(t) = Len(s) /\ t[Len(s)] = f /\ \A i \in 1 .. Len(s) - 1 : t[i] = s[i]
    BY <1>1, <1>2
  <1>4. ASSUME NEW i \in 1 .. Len(s) 
        PROVE  t[i].iarg = s[i].iarg /\ t[i].oarg = s[i].oarg /\ (IsFrame(s[i]) => IsFrame(t[i]))
    <2>1. i = Len(s) \/ i \in 1 .. Len(s) - 1
      BY <1>1
    <2> QED
      BY <1>3, <2>1
  <1>5. SameStreams(t, s)
    BY <1>3, <1>4 DEF SameStreams
  <1> QED
    BY <1>2, <1>3, <1>5 DEF b

\* A frame pushed after n others gets streams no frame has.
LEMMA PushInOrder ==
    ASSUME NEW s, IsSeq(s), NEW n \in Nat, InOrder(s, n), NEW f,
           IsFrame(f), f.iarg = 2 * n + 1, f.oarg \in {0, 2 * n + 2}
    PROVE  LET t == Append(s, f)
           IN InOrder(t, n + 1) /\ Handles(t) = Handles(s) \cup {f.iarg, f.oarg}
  <1> DEFINE t == Append(s, f)
  <1>1. /\ Len(t) = Len(s) + 1 /\ Len(s) \in Nat
        /\ \A i \in 1 .. Len(s) : t[i] = s[i]
        /\ t[Len(s) + 1] = f
    BY Appended
  <1> HIDE DEF t
  <1>2. ASSUME NEW i \in 1 .. Len(t)
        PROVE  (i = Len(s) + 1 /\ t[i] = f) \/ (i \in 1 .. Len(s) /\ t[i] = s[i])
    BY <1>1
  <1>3. ASSUME NEW i \in 1 .. Len(t)
        PROVE  /\ IsFrame(t[i]) /\ t[i].iarg \in 1 .. 2 * (n + 1) /\ t[i].oarg \in 0 .. 2 * (n + 1)
               /\ t[i].oarg = 0 \/ t[i].iarg < t[i].oarg
    <2>1. CASE i = Len(s) + 1 /\ t[i] = f
      BY <2>1
    <2>2. CASE i \in 1 .. Len(s) /\ t[i] = s[i]
      <3>1. /\ IsFrame(s[i]) /\ s[i].iarg \in 1 .. 2 * n /\ s[i].oarg \in 0 .. 2 * n
            /\ s[i].oarg = 0 \/ s[i].iarg < s[i].oarg
        BY <2>2 DEF InOrder
      <3> QED
        BY <2>2, <3>1
    <2> QED
      BY <1>2, <2>1, <2>2
  <1>4. ASSUME NEW i \in 1 .. Len(t), NEW j \in 1 .. Len(t), i < j
        PROVE  t[i].iarg < t[j].iarg /\ t[i].oarg < t[j].iarg
    <2>1. i \in 1 .. Len(s) /\ t[i] = s[i]
      BY <1>1, <1>2, <1>4
    <2>2. s[i].iarg \in 1 .. 2 * n /\ s[i].oarg \in 0 .. 2 * n
      BY <2>1 DEF InOrder
    <2>3. CASE j = Len(s) + 1 /\ t[j] = f
      BY <2>1, <2>2, <2>3
    <2>4. CASE j \in 1 .. Len(s) /\ t[j] = s[j]
      BY <1>4, <2>1, <2>4 DEF InOrder
    <2> QED
      BY <1>2, <2>3, <2>4
  <1>5. InOrder(t, n + 1)
    BY <1>3, <1>4 DEF InOrder
  <1>6. Len(s) + 1 \in 1 .. Len(t)
    BY <1>1
  <1>7. Handles(t) = Handles(s) \cup {f.iarg, f.oarg}
    BY <1>1, <1>2, <1>6 DEF Handles
  <1> QED
    BY <1>5, <1>7 DEF t

\* The frame on top is the only one that has its streams.
LEMMA PopInOrder ==
    ASSUME NEW s, IsSeq(s), s # <<>>, NEW n \in Nat, InOrder(s, n)
    PROVE  LET t == SubSeq(s, 1, Len(s) - 1)
           IN /\ InOrder(t, n)
              /\ Handles(t) \ {0} = (Handles(s) \ {0}) \ {s[Len(s)].iarg, s[Len(s)].oarg}
  <1> DEFINE t == SubSeq(s, 1, Len(s) - 1)
             f == s[Len(s)]
  <1>1. /\ Len(t) = Len(s) - 1 /\ Len(s) \in Nat \ {0}
        /\ \A i \in 1 .. Len(s) - 1 : t[i] = s[i]
    BY Shortened
  <1> HIDE DEF t
  <1>2. Len(s) \in 1 .. Len(s)
    BY <1>1
  <1>3. ASSUME NEW i \in 1 .. Len(t) PROVE i \in 1 .. Len(s) /\ i < Len(s) /\ t[i] = s[i]
    BY <1>1
  <1>4. InOrder(t, n)
    BY <1>3 DEF InOrder
  <1>5. f.iarg \in 1 .. 2 * n /\ f.oarg \in 0 .. 2 * n /\ (f.oarg = 0 \/ f.iarg < f.oarg)
    BY <1>2 DEF InOrder
  <1>6. ASSUME NEW i \in 1 .. Len(t)
        PROVE  s[i].iarg \notin {f.iarg, f.oarg} /\ s[i].oarg \notin {f.iarg, f.oarg} \ {0}
    <2>1. s[i].iarg < f.iarg /\ s[i].oarg < f.iarg
      BY <1>2, <1>3 DEF InOrder
    <2>2. s[i].iarg \in 1 .. 2 * n /\ s[i].oarg \in 0 .. 2 * n
      BY <1>3 DEF InOrder
    <2>3. PICK a \in Int, b \in Int, c \in Int, d \in Int :
                 a = s[i].iarg /\ b = s[i].oarg /\ c = f.iarg /\ d = f.oarg
      BY <1>5, <2>2
    <2>4. a < c /\ b < c /\ a >= 1 /\ b >= 0 /\ (d = 0 \/ c < d)
      BY <1>5, <2>1, <2>2, <2>3
    <2>5. a # c /\ a # d /\ b # c /\ (b = d => b = 0)
      BY <2>4
    <2> QED
      BY <2>3, <2>5
  <1>7. ASSUME NEW i \in 1 .. Len(s) PROVE i \in 1 .. Len(t) \/ s[i] = f
    BY <1>1
  <1>8. ASSUME NEW h PROVE h \in Handles(t) \ {0} <=> h \in (Handles(s) \ {0}) \ {f.iarg, f.oarg}
    BY <1>3, <1>6, <1>7 DEF Handles
  <1> QED
    BY <1>4, <1>8 DEF t

-----------------------------------------------------------------------------
\* A push on the stack, or on the stack as a turn has left it
LEMMA PushKeeps ==
    ASSUME StreamIInv, NEW s, IsSeq(s), SameStreams(s, stack), Push(s)
    PROVE  /\ IsSeq(stack') /\ opens' \in Nat /\ InOrder(stack', opens')
           /\ open' = Handles(stack') \ {STD} /\ stack' # <<>>
  <1>1. InOrder(s, opens) /\ Handles(s) = Handles(stack)
    BY SameInOrder DEF StreamIInv
  <1>2. opens \in Nat
    BY DEF StreamIInv
  <1>3. PICK f \in IF opens = 0 THEN DOMAIN Files ELSE Later, oarg \in {STD, 2 * opens + 2} :
             /\ opens' = opens + 1
             /\ stack' = Append(s, [p |-> Opened(f), file |-> f, taken |-> 0,
                                    iarg |-> 2 * opens + 1, oarg |-> oarg])
             /\ open' = open \cup ({2 * opens + 1, oarg} \ {STD})
    BY DEF Push
  <1> DEFINE frame == [p |-> Opened(f), file |-> f, taken |-> 0,
                       iarg |-> 2 * opens + 1, oarg |-> oarg]
  <1>4. /\ frame.iarg = 2 * opens + 1 /\ frame.oarg = oarg /\ oarg \in {0, 2 * opens + 2}
        /\ IsFrame(frame)
    BY DEF STD, IsFrame
  <1>5. stack' = Append(s, frame)
    BY <1>3
  <1> HIDE DEF frame
  <1>6. InOrder(stack', opens + 1) /\ Handles(stack') = Handles(s) \cup {2 * opens + 1, oarg}
    BY <1>1, <1>2, <1>4, <1>5, PushInOrder
  <1>7. IsSeq(stack') /\ Len(stack') = Len(s) + 1 /\ Len(s) \in Nat
    BY <1>5, Appended
  <1>8. stack' # <<>>
    BY <1>7
  <1>9. open' = Handles(stack') \ {STD}
    BY <1>1, <1>3, <1>6 DEF StreamIInv
  <1> QED
    BY <1>2, <1>3, <1>6, <1>7, <1>8, <1>9

LEMMA PopKeeps ==
    ASSUME StreamIInv, stack # <<>>, Pop, opens' = opens
    PROVE  /\ IsSeq(stack') /\ opens' \in Nat /\ InOrder(stack', opens')
           /\ open' = Handles(stack') \ {STD} /\ Len(stack') = Len(stack) - 1
  <1>1. /\ IsSeq(stack) /\ opens \in Nat /\ InOrder(stack, opens)
        /\ open = Handles(stack) \ {0}
    BY DEF StreamIInv, STD
  <1>2. stack' = SubSeq(stack, 1, Len(stack) - 1) /\ open' = open \ {stack[Len(stack)].iarg, stack[Len(stack)].oarg}
    BY DEF Pop, Below, Top
  <1>3. IsSeq(stack') /\ Len(stack') = Len(stack) - 1
    BY <1>1, <1>2, Shortened
  <1>4. /\ InOrder(stack', opens)
        /\ Handles(stack') \ {0} = (Handles(stack) \ {0}) \ {stack[Len(stack)].iarg, stack[Len(stack)].oarg}
    BY <1>1, <1>2, PopInOrder
  <1> QED
    BY <1>1, <1>2, <1>3, <1>4 DEF STD

\* A turn that reads on, or takes a form
LEMMA TurnedTop ==
    ASSUME StreamIInv, stack # <<>>, NEW f, f.iarg = Top.iarg, f.oarg = Top.oarg,
           IsFrame(Top) => IsFrame(f)
    PROVE  /\ IsSeq(Append(Below, f)) /\ SameStreams(Append(Below, f), stack)
           /\ Append(Below, f)[Len(stack)] = f
           /\ \A i \in 1 .. Len(stack) - 1 : Append(Below, f)[i] = stack[i]
  <1>1. /\ IsSeq(stack) /\ f.iarg = stack[Len(stack)].iarg /\ f.oarg = stack[Len(stack)].oarg
        /\ IsFrame(stack[Len(stack)]) => IsFrame(f)
    BY DEF StreamIInv, Top
  <1> QED
    BY <1>1, TopReplaced DEF Below

LEMMA TurnKeeps ==
    ASSUME StreamIInv, stack # <<>>, NEW f, f.iarg = Top.iarg, f.oarg = Top.oarg,
           IsFrame(Top) => IsFrame(f), stack' = Append(Below, f), UNCHANGED <<open, opens>>
    PROVE  /\ IsSeq(stack') /\ opens' \in Nat /\ InOrder(stack', opens')
           /\ open' = Handles(stack') \ {STD} /\ stack' # <<>>
  <1>1. IsSeq(stack') /\ SameStreams(stack', stack)
    BY TurnedTop
  <1>2. InOrder(stack', opens) /\ Handles(stack') = Handles(stack)
    BY <1>1, SameInOrder DEF StreamIInv
  <1>3. Len(stack') = Len(stack) /\ Len(stack) \in Nat \ {0}
    BY <1>1, Shortened DEF SameStreams, StreamIInv
  <1> QED
    BY <1>1, <1>2, <1>3 DEF StreamIInv

\* What a turn makes of the frame on top
Read(f, e) == [f EXCEPT !.p = e.p]
Taken(f, e) == [f EXCEPT !.p = e.p, !.taken = @ + 1]

LEMMA TurnedFrame ==
    ASSUME NEW f, IsFrame(f), NEW e
    PROVE  /\ IsFrame(Read(f, e)) /\ Read(f, e).iarg = f.iarg /\ Read(f, e).oarg = f.oarg
           /\ Read(f, e).file = f.file /\ Read(f, e).taken = f.taken
           /\ IsFrame(Taken(f, e)) /\ Taken(f, e).iarg = f.iarg /\ Taken(f, e).oarg = f.oarg
           /\ Taken(f, e).file = f.file /\ Taken(f, e).taken = f.taken + 1 /\ Taken(f, e).p = e.p
  <1>1. Read(f, e) = [p |-> e.p, file |-> f.file, taken |-> f.taken, iarg |-> f.iarg,
                      oarg |-> f.oarg]
    BY DEF IsFrame, Read
  <1>2. Taken(f, e) = [p |-> e.p, file |-> f.file, taken |-> f.taken + 1, iarg |-> f.iarg,
                       oarg |-> f.oarg]
    <2>1. Taken(f, e) = [Read(f, e) EXCEPT !.taken = f.taken + 1]
      BY DEF Taken, Read
    <2> QED
      BY <1>1, <2>1
  <1> QED
    BY <1>1, <1>2 DEF IsFrame

LEMMA TopIsFrame ==
    ASSUME StreamIInv, stack # <<>> PROVE IsFrame(Top)
  <1>1. IsSeq(stack) /\ InOrder(stack, opens)
    BY DEF StreamIInv
  <1>2. Len(stack) \in 1 .. Len(stack)
    BY <1>1, Shortened
  <1> QED
    BY <1>1, <1>2 DEF InOrder, Top

-----------------------------------------------------------------------------
LEMMA StreamInit == Init => StreamIInv
  <1> SUFFICES ASSUME Init PROVE StreamIInv
    OBVIOUS
  <1>1. <<>> \in Seq({}) /\ Len(<<>>) = 0
    OBVIOUS
  <1>2. stack = <<>> /\ open = {} /\ opens = 0 /\ pc = "idle"
    BY DEF Init
  <1>3. IsSeq(stack) /\ opens \in Nat
    BY <1>1, <1>2 DEF IsSeq
  <1>4. 1 .. Len(stack) = {}
    BY <1>1, <1>2
  <1>5. InOrder(stack, opens) /\ Handles(stack) = {}
    BY <1>4 DEF InOrder, Handles
  <1> QED
    BY <1>2, <1>3, <1>5 DEF StreamIInv

LEMMA StreamTurn == StreamIInv /\ Turn => StreamIInv'
  <1> SUFFICES ASSUME StreamIInv, Turn PROVE StreamIInv'
    OBVIOUS
  <1> DEFINE e == ReadForm(Top.p)
  <1>1. pc = "scanning" /\ (Abort(e) \/ NoForm(e) \/ Refuse(e) \/ Deliver(e))
    BY DEF Turn
  <1> HIDE DEF e
  <1>2. stack # <<>> /\ answer = "none" /\ IsSeq(stack)
    BY <1>1 DEF StreamIInv
  <1>3. CASE Abort(e)
    BY <1>3 DEF Abort, StreamIInv, InOrder, Handles, IsSeq
  <1>4. CASE NoForm(e) /\ Len(stack) > 1
    <2>1. Pop /\ UNCHANGED <<pc, answer, opens>>
      BY <1>4 DEF NoForm
    <2>2. /\ IsSeq(stack') /\ opens' \in Nat /\ InOrder(stack', opens')
          /\ open' = Handles(stack') \ {STD} /\ Len(stack') = Len(stack) - 1
      BY <1>2, <2>1, PopKeeps
    <2>3. Len(stack) \in Nat
      BY <1>2, Shortened
    <2>4. stack' # <<>>
      BY <1>4, <2>2, <2>3
    <2> QED
      BY <1>2, <2>1, <2>2, <2>4 DEF StreamIInv
  <1>5. CASE NoForm(e) /\ ~(Len(stack) > 1)
    <2>1. stack' = Append(Below, Read(Top, e)) /\ UNCHANGED <<open, opens>> /\ pc' = "returned"
      BY <1>5 DEF NoForm, Reads, Return, Read
    <2>2. /\ IsSeq(stack') /\ opens' \in Nat /\ InOrder(stack', opens')
          /\ open' = Handles(stack') \ {STD}
      BY <1>2, <2>1, TopIsFrame, TurnedFrame, TurnKeeps
    <2> QED
      BY <2>1, <2>2 DEF StreamIInv
  <1>6. CASE Refuse(e)
    <2>1. stack' = Append(Below, Read(Top, e)) /\ UNCHANGED <<open, opens>> /\ pc' = "returned"
      BY <1>6 DEF Refuse, Reads, Return, Read
    <2>2. /\ IsSeq(stack') /\ opens' \in Nat /\ InOrder(stack', opens')
          /\ open' = Handles(stack') \ {STD}
      BY <1>2, <2>1, TopIsFrame, TurnedFrame, TurnKeeps
    <2> QED
      BY <2>1, <2>2 DEF StreamIInv
  <1>7. CASE Deliver(e)
    <2> DEFINE f == Taken(Top, e)
    <2>1. Consumed(e) = Append(Below, f)
      BY DEF Consumed, Taken
    <2>2. f.iarg = Top.iarg /\ f.oarg = Top.oarg /\ IsFrame(f)
      BY <1>2, TopIsFrame, TurnedFrame
    <2> HIDE DEF f
    <2>3. IsSeq(Consumed(e)) /\ SameStreams(Consumed(e), stack)
      BY <1>2, <2>1, <2>2, TurnedTop
    <2>4. CASE Push(Consumed(e)) /\ UNCHANGED <<answer, stopped>>
      <3>1. /\ IsSeq(stack') /\ opens' \in Nat /\ InOrder(stack', opens')
            /\ open' = Handles(stack') \ {STD} /\ stack' # <<>>
        BY <2>3, <2>4, PushKeeps
      <3> QED
        BY <1>2, <2>4, <3>1 DEF StreamIInv
    <2>5. CASE stack' = Consumed(e) /\ UNCHANGED <<pc, answer, stopped, open, opens>>
      <3>1. /\ IsSeq(stack') /\ opens' \in Nat /\ InOrder(stack', opens')
            /\ open' = Handles(stack') \ {STD} /\ stack' # <<>>
        BY <1>2, <2>1, <2>2, <2>5, TurnKeeps
      <3> QED
        BY <1>2, <2>5, <3>1 DEF StreamIInv
    <2>6. CASE stack' = Consumed(e) /\ Return("failed") /\ stopped' = TRUE /\ UNCHANGED <<open, opens>>
      <3>1. /\ IsSeq(stack') /\ opens' \in Nat /\ InOrder(stack', opens')
            /\ open' = Handles(stack') \ {STD} /\ stack' # <<>>
        BY <1>2, <2>1, <2>2, <2>6, TurnKeeps
      <3>2. pc' = "returned"
        BY <2>6 DEF Return
      <3> QED
        BY <3>1, <3>2 DEF StreamIInv
    <2> QED
      BY <1>7, <2>4, <2>5, <2>6 DEF Deliver
  <1> QED
    BY <1>1, <1>3, <1>4, <1>5, <1>6, <1>7

LEMMA StreamNext == StreamIInv /\ [Next]_vars => StreamIInv'
  <1> SUFFICES ASSUME StreamIInv, [Next]_vars PROVE StreamIInv'
    OBVIOUS
  <1>1. CASE CallerPushes
    <2>1. Push(stack) /\ SameStreams(stack, stack) /\ IsSeq(stack) /\ pc \in {"idle", "returned"}
      BY <1>1 DEF CallerPushes, SameStreams, StreamIInv
    <2>2. /\ IsSeq(stack') /\ opens' \in Nat /\ InOrder(stack', opens')
          /\ open' = Handles(stack') \ {STD}
      BY <2>1, PushKeeps
    <2>3. pc' # "scanning"
      BY <2>1 DEF Push
    <2> QED
      BY <2>2, <2>3 DEF StreamIInv
  <1>2. CASE CallerPops
    <2>1. stack # <<>> /\ Pop /\ opens' = opens /\ pc' = pc /\ pc \in {"idle", "returned"}
      BY <1>2 DEF CallerPops
    <2>2. /\ IsSeq(stack') /\ opens' \in Nat /\ InOrder(stack', opens')
          /\ open' = Handles(stack') \ {STD}
      BY <2>1, PopKeeps
    <2> QED
      BY <2>1, <2>2 DEF StreamIInv
  <1>3. CASE Free
    <2>1. /\ pc' = "freed" /\ stack' = <<>> /\ opens' = opens
          /\ open' = open \ UNION {{stack[i].iarg, stack[i].oarg} : i \in DOMAIN stack}
      BY <1>3 DEF Free
    <2>2. /\ \A h \in open : \E i \in 1 .. Len(stack) : h \in {stack[i].iarg, stack[i].oarg}
      BY DEF StreamIInv, Handles
    <2>3. DOMAIN stack = 1 .. Len(stack)
      BY DEF StreamIInv, IsSeq
    <2>4. open' = {}
      BY <2>1, <2>2, <2>3
    <2>5. <<>> \in Seq({}) /\ 1 .. Len(<<>>) = {}
      OBVIOUS
    <2>6. IsSeq(stack') /\ InOrder(stack', opens') /\ Handles(stack') = {}
      BY <2>1, <2>5 DEF IsSeq, InOrder, Handles
    <2> QED
      BY <2>1, <2>4, <2>6 DEF StreamIInv
  <1>4. CASE Scan
    BY <1>4 DEF Scan, StreamIInv, InOrder, Handles, IsSeq
  <1>5. CASE Turn
    BY <1>5, StreamTurn
  <1>6. CASE UNCHANGED vars
    BY <1>6 DEF vars, StreamIInv, InOrder, Handles, IsSeq
  <1> QED
    BY <1>1, <1>2, <1>3, <1>4, <1>5, <1>6 DEF Next

\* The streams of the frames are told apart by their numbers.
LEMMA StreamCloses == StreamIInv => ClosesOnce
  <1> SUFFICES ASSUME StreamIInv PROVE ClosesOnce
    OBVIOUS
  <1>1. /\ DOMAIN stack = 1 .. Len(stack) /\ Len(stack) \in Nat /\ opens \in Nat
        /\ InOrder(stack, opens) /\ open = Handles(stack) \ {0}
    BY DEF StreamIInv, IsSeq, STD
  <1>2. ASSUME NEW h \in open PROVE Cardinality(Held(h)) = 1
    <2>1. h # 0 /\ \E i \in 1 .. Len(stack) : h \in {stack[i].iarg, stack[i].oarg}
      BY <1>1 DEF Handles
    <2>2. PICK i \in 1 .. Len(stack) : h \in {stack[i].iarg, stack[i].oarg}
      BY <2>1
    <2>3. ASSUME NEW j \in 1 .. Len(stack), h \in {stack[j].iarg, stack[j].oarg} PROVE j = i
      <3>1. \A k \in 1 .. Len(stack) :
              stack[k].iarg \in 1 .. 2 * opens /\ stack[k].oarg \in 0 .. 2 * opens
        BY <1>1 DEF InOrder
      <3>2. \A k \in 1 .. Len(stack) : stack[k].oarg = 0 \/ stack[k].iarg < stack[k].oarg
        BY <1>1 DEF InOrder
      <3>3. \A k, m \in 1 .. Len(stack) :
              k < m => stack[k].iarg < stack[m].iarg /\ stack[k].oarg < stack[m].iarg
        BY <1>1 DEF InOrder
      <3>4. ~(i < j)
        BY <2>1, <2>2, <2>3, <3>1, <3>2, <3>3
      <3>5. ~(j < i)
        BY <2>1, <2>2, <2>3, <3>1, <3>2, <3>3
      <3> QED
        BY <3>4, <3>5
    <2>4. Held(h) = {i}
      BY <1>1, <2>2, <2>3 DEF Held
    <2> QED
      BY <2>4, FS_Singleton
  <1>3. ASSUME NEW i \in DOMAIN stack PROVE {stack[i].iarg, stack[i].oarg} \subseteq open \cup {STD}
    BY <1>1, <1>3 DEF Handles, STD
  <1> QED
    BY <1>2, <1>3 DEF ClosesOnce

\* Over any sequence of pushes, pops, scans and forms the callback pushes files at,
\* enif_io_push and enif_io_pop leave open exactly the streams of the frames, each in
\* one frame, however deep the stack and whatever the texts are.
THEOREM ReaderClosesOnce == Spec => []ClosesOnce
  <1>1. Spec => []StreamIInv
    BY StreamInit, StreamNext, PTL DEF Spec
  <1> QED
    BY <1>1, StreamCloses, PTL

-----------------------------------------------------------------------------
\* The frame is where its forms have led, so that the scanner reads what was written
Behind(f) ==
    /\ f.file \in DOMAIN Files /\ f.taken \in 0 .. Len(Files[f.file])
    /\ Reached(f.file, f.taken) /\ f.p = Place[f.file][f.taken]

\* As long as a scan goes on, or may be asked for again: behind an error it may not
FormIInv ==
    /\ StreamIInv
    /\ pc = "scanning" => stopped = FALSE
    /\ pc \in {"idle", "scanning"} \/ (pc = "returned" /\ stopped) =>
         \A i \in 1 .. Len(stack) : Behind(stack[i])

\* What FormStream sees of a frame, and of the stack
File(f) == [file |-> f.file, taken |-> f.taken]
Seen(s) == [i \in DOMAIN s |-> [file |-> s[i].file, taken |-> s[i].taken]]

LEMMA SeenIs ==
    ASSUME NEW s, IsSeq(s)
    PROVE  /\ IsSeq(Seen(s)) /\ Len(Seen(s)) = Len(s) /\ Len(s) \in Nat
           /\ \A i \in 1 .. Len(s) : Seen(s)[i] = File(s[i])
  <1>1. Len(s) \in Nat /\ DOMAIN s = 1 .. Len(s)
    BY DEF IsSeq
  <1>2. Seen(s) = [i \in 1 .. Len(s) |-> File(s[i])]
    BY <1>1 DEF Seen, File
  <1> DEFINE F == {File(s[i]) : i \in 1 .. Len(s)}
  <1>3. \A i \in 1 .. Len(s) : File(s[i]) \in F
    OBVIOUS
  <1> HIDE DEF F
  <1>4. Seen(s) \in [1 .. Len(s) -> F]
    BY <1>2, <1>3
  <1>5. Seen(s) \in Seq(F) /\ Len(Seen(s)) = Len(s)
    BY <1>1, <1>4
  <1> QED
    BY <1>1, <1>2, <1>5 DEF IsSeq

\* Sequences are the same if their elements are.
LEMMA EqualSeq ==
    ASSUME NEW s, IsSeq(s), NEW t, IsSeq(t), Len(t) = Len(s), \A i \in 1 .. Len(s) : t[i] = s[i]
    PROVE  t = s
  <1>1. PICK F : s \in Seq(F)
    BY DEF IsSeq
  <1>2. PICK G : t \in Seq(G)
    BY DEF IsSeq
  <1>3. s \in Seq(F \cup G) /\ t \in Seq(F \cup G)
    BY <1>1, <1>2, SeqMonotonic
  <1> QED
    BY <1>3, SeqEqual

LEMMA SeenAppend ==
    ASSUME NEW s, IsSeq(s), NEW f
    PROVE  Seen(Append(s, f)) = Append(Seen(s), File(f))
  <1>1. /\ IsSeq(Append(s, f)) /\ Len(Append(s, f)) = Len(s) + 1 /\ Len(s) \in Nat
        /\ \A i \in 1 .. Len(s) : Append(s, f)[i] = s[i]
        /\ Append(s, f)[Len(s) + 1] = f
    BY Appended
  <1>2. /\ IsSeq(Seen(s)) /\ Len(Seen(s)) = Len(s)
        /\ \A i \in 1 .. Len(s) : Seen(s)[i] = File(s[i])
    BY SeenIs
  <1>3. /\ IsSeq(Append(Seen(s), File(f))) /\ Len(Append(Seen(s), File(f))) = Len(s) + 1
        /\ \A i \in 1 .. Len(s) : Append(Seen(s), File(f))[i] = Seen(s)[i]
        /\ Append(Seen(s), File(f))[Len(s) + 1] = File(f)
    BY <1>2, Appended
  <1>4. /\ IsSeq(Seen(Append(s, f))) /\ Len(Seen(Append(s, f))) = Len(s) + 1
        /\ \A i \in 1 .. Len(s) + 1 : Seen(Append(s, f))[i] = File(Append(s, f)[i])
    BY <1>1, SeenIs
  <1>5. ASSUME NEW i \in 1 .. Len(s) + 1
        PROVE  Seen(Append(s, f))[i] = Append(Seen(s), File(f))[i]
    <2>1. i \in 1 .. Len(s) \/ i = Len(s) + 1
      BY <1>1
    <2> QED
      BY <1>1, <1>2, <1>3, <1>4, <2>1
  <1> QED
    BY <1>3, <1>4, <1>5, EqualSeq

LEMMA SeenBelow ==
    ASSUME NEW s, IsSeq(s), s # <<>>
    PROVE  Seen(SubSeq(s, 1, Len(s) - 1)) = SubSeq(Seen(s), 1, Len(s) - 1)
  <1> DEFINE t == SubSeq(s, 1, Len(s) - 1)
             u == SubSeq(Seen(s), 1, Len(s) - 1)
  <1>1. /\ IsSeq(t) /\ Len(t) = Len(s) - 1 /\ Len(s) \in Nat \ {0}
        /\ \A i \in 1 .. Len(s) - 1 : t[i] = s[i]
    BY Shortened
  <1>2. /\ IsSeq(Seen(s)) /\ Len(Seen(s)) = Len(s)
        /\ \A i \in 1 .. Len(s) : Seen(s)[i] = File(s[i])
    BY SeenIs
  <1>3. Seen(s) # <<>>
    BY <1>1, <1>2
  <1>4. /\ IsSeq(u) /\ Len(u) = Len(s) - 1
        /\ \A i \in 1 .. Len(s) - 1 : u[i] = Seen(s)[i]
    BY <1>2, <1>3, Shortened
  <1> HIDE DEF t, u
  <1>5. /\ IsSeq(Seen(t)) /\ Len(Seen(t)) = Len(t)
        /\ \A i \in 1 .. Len(t) : Seen(t)[i] = File(t[i])
    BY <1>1, SeenIs
  <1>6. ASSUME NEW i \in 1 .. Len(u) PROVE Seen(t)[i] = u[i]
    <2>1. i \in 1 .. Len(s) /\ i \in 1 .. Len(s) - 1 /\ i \in 1 .. Len(t)
      BY <1>1, <1>4
    <2> QED
      BY <1>1, <1>2, <1>4, <1>5, <2>1
  <1>7. Seen(t) = u
    BY <1>1, <1>4, <1>5, <1>6, EqualSeq
  <1> QED
    BY <1>7 DEF t, u

\* What is left of a file behind k of its n items
LEMMA LeftOf ==
    ASSUME NEW s, IsSeq(s), NEW k \in 0 .. Len(s)
    PROVE  /\ k = Len(s) => SubSeq(s, k + 1, Len(s)) = <<>>
           /\ k < Len(s) => /\ SubSeq(s, k + 1, Len(s)) # <<>>
                            /\ Head(SubSeq(s, k + 1, Len(s))) = s[k + 1]
  <1>1. PICK F : s \in Seq(F)
    BY DEF IsSeq
  <1>2. PICK n \in Nat : n = Len(s)
    BY <1>1
  <1>3. CASE k = n
    <2>1. SubSeq(s, k + 1, n) = <<>>
      BY <1>2, <1>3, SubSeqEmpty
    <2> QED
      BY <1>2, <1>3, <2>1
  <1>4. CASE k < n
    <2>1. k + 1 \in 1 .. Len(s) /\ Len(s) \in k + 1 .. Len(s)
      BY <1>2, <1>4
    <2>2. Head(SubSeq(s, k + 1, Len(s))) = s[k + 1]
      BY <1>1, <2>1, HeadTailOfSubSeq
    <2>3. k + 1 \in Int /\ n \in Int /\ k + 1 <= n /\ \A i \in k + 1 .. n : s[i] \in F
      BY <1>1, <1>2, <1>4, ElementOfSeq
    <2>4. Len(SubSeq(s, k + 1, n)) = IF k + 1 <= n THEN n - (k + 1) + 1 ELSE 0
      BY <2>3, SubSeqProperties
    <2>5. Len(SubSeq(s, k + 1, n)) # 0
      BY <1>4, <2>3, <2>4
    <2>6. ASSUME SubSeq(s, k + 1, n) = <<>> PROVE FALSE
      <3>1. Len(<<>>) = 0
        OBVIOUS
      <3> QED
        BY <2>5, <2>6, <3>1
    <2> QED
      BY <1>2, <1>4, <2>2, <2>6
  <1> QED
    BY <1>2, <1>3, <1>4

\* What FormStream has left to read, where the scanner reads what was written
LEMMA NextItem ==
    ASSUME IsSeq(stack), stack # <<>>, Behind(Top)
    PROVE  /\ Forms!Top = File(Top)
           /\ Top.taken = Len(Files[Top.file]) => Forms!Left = <<>>
           /\ Top.taken < Len(Files[Top.file]) =>
                /\ Forms!Left # <<>>
                /\ Head(Forms!Left) = [kind |-> Files[Top.file][Top.taken + 1].kind,
                                       term |-> Meaning(Files[Top.file][Top.taken + 1].term)]
  <1> DEFINE g == Top.file
             k == Top.taken
             n == Len(Files[g])
             items == Promised[g]
  <1>1. Len(stack) \in Nat \ {0} /\ Len(stack) \in 1 .. Len(stack)
    BY Shortened
  <1>2. Seen(stack)[Len(Seen(stack))] = File(Top)
    BY <1>1, SeenIs DEF Top
  <1>3. Forms!Top = File(Top)
    BY <1>2 DEF Forms!Top, Seen
  <1>4. g \in DOMAIN Files /\ n \in Nat /\ k \in 0 .. n
    BY ReaderAssumption DEF Behind
  <1>5. items = [i \in 1 .. n |-> [kind |-> Files[g][i].kind, term |-> Meaning(Files[g][i].term)]]
    BY <1>4, ReaderAssumption DEF Promised
  <1> DEFINE F == {[kind |-> Files[g][i].kind, term |-> Meaning(Files[g][i].term)] : i \in 1 .. n}
  <1>6. items \in [1 .. n -> F]
    BY <1>5
  <1> HIDE DEF F, n, items
  <1>7. items \in Seq(F) /\ Len(items) = n
    BY <1>4, <1>6
  <1>8. IsSeq(items)
    BY <1>7 DEF IsSeq
  <1>9. /\ k = n => SubSeq(items, k + 1, n) = <<>>
        /\ k < n => SubSeq(items, k + 1, n) # <<>> /\ Head(SubSeq(items, k + 1, n)) = items[k + 1]
    BY <1>4, <1>7, <1>8, LeftOf
  <1>10. File(Top).file = g /\ File(Top).taken = k
    BY DEF File
  <1>11. Forms!Left = SubSeq(items, k + 1, n)
    BY <1>3, <1>7, <1>10 DEF Forms!Left, items
  <1>12. k < n => items[k + 1] = [kind |-> Files[g][k + 1].kind,
                                  term |-> Meaning(Files[g][k + 1].term)]
    BY <1>4, <1>5
  <1> QED
    BY <1>3, <1>9, <1>11, <1>12 DEF n

\* What the scanner reads where forms have led
LEMMA ReadsNext ==
    ASSUME ScansAsWritten, NEW f, Behind(f)
    PROVE  /\ ReadAsWritten(f.file, f.taken, ReadForm(f.p))
           /\ ReadForm(f.p).is = "form" /\ f.taken < Len(Files[f.file]) => Reached(f.file, f.taken + 1)
  <1>1. ReadAsWritten(f.file, f.taken, ReadForm(f.p))
    BY DEF Behind, ScansAsWritten
  <1>2. PICK k \in Int : k = f.taken
    BY DEF Behind
  <1>3. ASSUME ReadForm(f.p).is = "form" PROVE Reached(f.file, k + 1)
    <2>1. Reached(f.file, k) /\ f.p = Place[f.file][k]
      BY <1>2 DEF Behind
    <2>2. \A j \in 0 .. k + 1 - 1 : j \in 0 .. k - 1 \/ j = k
      BY <1>2
    <2> QED
      BY <1>3, <2>1, <2>2 DEF Reached
  <1> QED
    BY <1>1, <1>2, <1>3

\* In a scan the frame on top is where its forms have led, and the next one, if there
\* is one, leads on.
LEMMA ScanReads ==
    ASSUME ScansAsWritten, FormIInv, pc = "scanning"
    PROVE  /\ IsSeq(stack) /\ stack # <<>> /\ Behind(Top) /\ IsFrame(Top)
           /\ ReadAsWritten(Top.file, Top.taken, ReadForm(Top.p))
           /\ ReadForm(Top.p).is = "form" => Behind(Taken(Top, ReadForm(Top.p)))
  <1> DEFINE e == ReadForm(Top.p)
  <1>1. IsSeq(stack) /\ stack # <<>> /\ IsFrame(Top)
    BY TopIsFrame DEF FormIInv, StreamIInv
  <1>2. Len(stack) \in 1 .. Len(stack)
    BY <1>1, Shortened
  <1>3. Behind(Top)
    BY <1>2 DEF FormIInv, Top
  <1>4. /\ ReadAsWritten(Top.file, Top.taken, e)
        /\ e.is = "form" /\ Top.taken < Len(Files[Top.file]) => Reached(Top.file, Top.taken + 1)
    BY <1>3, ReadsNext
  <1> HIDE DEF e
  <1>5. ASSUME e.is = "form" PROVE Behind(Taken(Top, e))
    <2>1. Top.taken < Len(Files[Top.file]) /\ e.p = Place[Top.file][Top.taken + 1]
      BY <1>4, <1>5 DEF ReadAsWritten
    <2>2. /\ Taken(Top, e).file = Top.file /\ Taken(Top, e).taken = Top.taken + 1
          /\ Taken(Top, e).p = e.p
      BY <1>1, TurnedFrame
    <2>3. /\ Top.file \in DOMAIN Files /\ Len(Files[Top.file]) \in Nat
          /\ Top.taken \in 0 .. Len(Files[Top.file])
      BY <1>3, ReaderAssumption DEF Behind
    <2>4. Top.taken + 1 \in 0 .. Len(Files[Top.file])
      BY <2>1, <2>3
    <2> QED
      BY <1>4, <1>5, <2>1, <2>2, <2>3, <2>4 DEF Behind
  <1> QED
    BY <1>1, <1>3, <1>4, <1>5 DEF e

\* A file that is opened has no form taken yet.
LEMMA PushBehind ==
    ASSUME ScansAsWritten, NEW s, IsSeq(s), Push(s),
           \A i \in 1 .. Len(s) : Behind(s[i])
    PROVE  \A i \in 1 .. Len(stack') : Behind(stack'[i])
  <1>1. PICK f \in IF opens = 0 THEN DOMAIN Files ELSE Later, oarg \in {STD, 2 * opens + 2} :
             stack' = Append(s, [p |-> Opened(f), file |-> f, taken |-> 0,
                                 iarg |-> 2 * opens + 1, oarg |-> oarg])
    BY DEF Push
  <1> DEFINE frame == [p |-> Opened(f), file |-> f, taken |-> 0,
                       iarg |-> 2 * opens + 1, oarg |-> oarg]
  <1>2. f \in DOMAIN Files
    BY ReaderAssumption
  <1>3. Len(Files[f]) \in Nat /\ Place[f][0] = Opened(f)
    BY <1>2, ReaderAssumption DEF ScansAsWritten
  <1>4. Reached(f, 0)
    BY DEF Reached
  <1>5. Behind(frame)
    BY <1>2, <1>3, <1>4 DEF Behind
  <1>6. stack' = Append(s, frame)
    BY <1>1
  <1> HIDE DEF frame
  <1>7. /\ Len(stack') = Len(s) + 1 /\ Len(s) \in Nat
        /\ \A i \in 1 .. Len(s) : stack'[i] = s[i]
        /\ stack'[Len(s) + 1] = frame
    BY <1>6, Appended
  <1>8. ASSUME NEW i \in 1 .. Len(stack') PROVE Behind(stack'[i])
    <2>1. i \in 1 .. Len(s) \/ i = Len(s) + 1
      BY <1>7
    <2> QED
      BY <1>5, <1>7, <2>1
  <1> QED
    BY <1>8

\* A frame that took a form, on the others
LEMMA ConsumedBehind ==
    ASSUME StreamIInv, stack # <<>>, \A i \in 1 .. Len(stack) : Behind(stack[i]),
           NEW e, Behind(Taken(Top, e))
    PROVE  /\ IsSeq(Consumed(e))
           /\ \A i \in 1 .. Len(Consumed(e)) : Behind(Consumed(e)[i])
  <1> DEFINE f == Taken(Top, e)
  <1>1. Consumed(e) = Append(Below, f)
    BY DEF Consumed, Taken
  <1>2. f.iarg = Top.iarg /\ f.oarg = Top.oarg /\ IsFrame(f)
    BY TopIsFrame, TurnedFrame
  <1> HIDE DEF f
  <1>3. /\ IsSeq(Consumed(e)) /\ SameStreams(Consumed(e), stack)
        /\ Consumed(e)[Len(stack)] = f
        /\ \A i \in 1 .. Len(stack) - 1 : Consumed(e)[i] = stack[i]
    <2>1. IsFrame(Top) => IsFrame(f)
      BY <1>2
    <2>2. /\ IsSeq(Append(Below, f)) /\ SameStreams(Append(Below, f), stack)
          /\ Append(Below, f)[Len(stack)] = f
          /\ \A i \in 1 .. Len(stack) - 1 : Append(Below, f)[i] = stack[i]
      BY <1>2, <2>1, TurnedTop
    <2> QED
      BY <1>1, <2>2
  <1>4. Len(Consumed(e)) = Len(stack) /\ Len(stack) \in Nat
    BY <1>3, Shortened DEF SameStreams, StreamIInv
  <1>5. ASSUME NEW i \in 1 .. Len(Consumed(e)) PROVE Behind(Consumed(e)[i])
    <2>1. i = Len(stack) \/ i \in 1 .. Len(stack) - 1
      BY <1>4
    <2>2. i \in 1 .. Len(stack)
      BY <1>4
    <2> QED
      BY <1>3, <2>1, <2>2 DEF f
  <1> QED
    BY <1>3, <1>5

LEMMA FormInit == Init => FormIInv
  <1> SUFFICES ASSUME Init PROVE FormIInv
    OBVIOUS
  <1>1. StreamIInv
    BY StreamInit
  <1>2. stack = <<>> /\ pc = "idle"
    BY DEF Init
  <1>3. 1 .. Len(stack) = {}
    BY <1>2
  <1> QED
    BY <1>1, <1>2, <1>3 DEF FormIInv

\* The frames under the one on top stay where they are.
LEMMA PopBehind ==
    ASSUME IsSeq(stack), stack # <<>>, Pop, \A i \in 1 .. Len(stack) : Behind(stack[i])
    PROVE  \A i \in 1 .. Len(stack') : Behind(stack'[i])
  <1>1. stack' = SubSeq(stack, 1, Len(stack) - 1)
    BY DEF Pop, Below
  <1>2. /\ Len(stack') = Len(stack) - 1 /\ Len(stack) \in Nat \ {0}
        /\ \A i \in 1 .. Len(stack) - 1 : stack'[i] = stack[i]
    BY <1>1, Shortened
  <1>3. ASSUME NEW i \in 1 .. Len(stack') PROVE i \in 1 .. Len(stack) /\ i \in 1 .. Len(stack) - 1
    BY <1>2
  <1> QED
    BY <1>2, <1>3

LEMMA FormTurn ==
    ASSUME ScansAsWritten, FormIInv, Turn
    PROVE  FormIInv'
  <1> DEFINE e == ReadForm(Top.p)
  <1>1. pc = "scanning" /\ (Abort(e) \/ NoForm(e) \/ Refuse(e) \/ Deliver(e))
    BY DEF Turn
  <1>2. /\ IsSeq(stack) /\ stack # <<>>
        /\ e.is = "form" => Behind(Taken(Top, e))
    BY <1>1, ScanReads
  <1>3. StreamIInv'
    BY StreamTurn DEF FormIInv
  <1>4. stopped = FALSE /\ (\A i \in 1 .. Len(stack) : Behind(stack[i])) /\ StreamIInv
    BY <1>1 DEF FormIInv
  <1> HIDE DEF e
  <1>5. CASE Abort(e)
    BY <1>3, <1>5 DEF Abort, FormIInv
  <1>6. CASE NoForm(e) /\ Len(stack) > 1
    <2>1. Pop /\ UNCHANGED <<pc, stopped>>
      BY <1>6 DEF NoForm
    <2>2. \A i \in 1 .. Len(stack') : Behind(stack'[i])
      BY <1>2, <1>4, <2>1, PopBehind
    <2> QED
      BY <1>3, <1>4, <2>1, <2>2 DEF FormIInv, Behind, Reached
  <1>7. CASE NoForm(e) /\ ~(Len(stack) > 1)
    <2>1. pc' = "returned" /\ stopped' = FALSE
      BY <1>4, <1>7 DEF NoForm, Return
    <2> QED
      BY <1>3, <2>1 DEF FormIInv
  <1>8. CASE Refuse(e)
    <2>1. pc' = "returned" /\ stopped' = FALSE
      BY <1>4, <1>8 DEF Refuse, Return
    <2> QED
      BY <1>3, <2>1 DEF FormIInv
  <1>9. CASE Deliver(e)
    <2>1. /\ IsSeq(Consumed(e))
          /\ \A i \in 1 .. Len(Consumed(e)) : Behind(Consumed(e)[i])
      BY <1>2, <1>4, <1>9, ConsumedBehind DEF Deliver
    <2>2. CASE Push(Consumed(e)) /\ UNCHANGED <<answer, stopped>>
      <3>1. \A i \in 1 .. Len(stack') : Behind(stack'[i])
        BY <2>1, <2>2, PushBehind
      <3>2. pc' = "scanning" \/ pc' = "outside"
        BY <1>1, <2>2 DEF Push
      <3> QED
        BY <1>3, <1>4, <2>2, <3>1, <3>2 DEF FormIInv
    <2>3. CASE stack' = Consumed(e) /\ UNCHANGED <<pc, answer, stopped, open, opens>>
      BY <1>3, <1>4, <2>1, <2>3 DEF FormIInv
    <2>4. CASE stack' = Consumed(e) /\ Return("failed") /\ stopped' = TRUE /\ UNCHANGED <<open, opens>>
      <3>1. pc' = "returned"
        BY <2>4 DEF Return
      <3> QED
        BY <1>3, <2>1, <2>4, <3>1 DEF FormIInv
    <2> QED
      BY <1>9, <2>2, <2>3, <2>4 DEF Deliver
  <1> QED
    BY <1>1, <1>5, <1>6, <1>7, <1>8, <1>9

LEMMA FormNext ==
    ASSUME ScansAsWritten, FormIInv, [Next]_vars
    PROVE  FormIInv'
  <1>1. StreamIInv' /\ StreamIInv
    BY StreamNext DEF FormIInv
  <1>2. CASE CallerPushes
    <2>1. Push(stack) /\ pc \in {"idle", "returned"} /\ stopped' = stopped /\ IsSeq(stack)
      BY <1>1, <1>2 DEF CallerPushes, StreamIInv
    <2>2. pc' = pc \/ pc' = "outside"
      BY <2>1 DEF Push
    <2>3. CASE pc' = pc /\ (\A i \in 1 .. Len(stack) : Behind(stack[i]))
      <3>1. \A i \in 1 .. Len(stack') : Behind(stack'[i])
        BY <2>1, <2>3, PushBehind
      <3> QED
        BY <1>1, <2>1, <2>3, <3>1 DEF FormIInv
    <2>4. CASE pc' = pc /\ ~(\A i \in 1 .. Len(stack) : Behind(stack[i]))
      BY <1>1, <2>1, <2>4 DEF FormIInv
    <2>5. CASE pc' = "outside"
      BY <1>1, <2>5 DEF FormIInv
    <2> QED
      BY <2>2, <2>3, <2>4, <2>5
  <1>3. CASE CallerPops
    <2>1. /\ stack # <<>> /\ Pop /\ UNCHANGED <<pc, stopped>> /\ IsSeq(stack)
          /\ pc \in {"idle", "returned"}
      BY <1>1, <1>3 DEF CallerPops, StreamIInv
    <2>2. (\A i \in 1 .. Len(stack) : Behind(stack[i])) =>
            \A i \in 1 .. Len(stack') : Behind(stack'[i])
      BY <2>1, PopBehind
    <2> QED
      BY <1>1, <2>1, <2>2 DEF FormIInv
  <1>4. CASE Free
    BY <1>1, <1>4 DEF Free, FormIInv
  <1>5. CASE Scan
    <2>1. stack' = stack /\ pc' = "scanning" /\ stopped' = FALSE
          /\ \A i \in 1 .. Len(stack) : Behind(stack[i])
      BY <1>5 DEF Scan, FormIInv
    <2> QED
      BY <1>1, <2>1 DEF FormIInv
  <1>6. CASE Turn
    BY <1>6, FormTurn
  <1>7. CASE UNCHANGED vars
    BY <1>1, <1>7 DEF vars, FormIInv
  <1> QED
    BY <1>2, <1>3, <1>4, <1>5, <1>6, <1>7 DEF Next

-----------------------------------------------------------------------------
\* The form FormStream sees delivered
Given(l) == IF l = <<>> THEN [kind |-> "none", term |-> <<>>]
            ELSE [kind |-> "form", term |-> Meaning(l[1])]

\* What FormStream sees of a frame that was pushed, on a stack or on what a turn made
\* of it
LEMMA PushSeen ==
    ASSUME NEW s, IsSeq(s), Push(s)
    PROVE  \E file \in Forms!AtStart : Seen(stack') = Append(Seen(s), file)
  <1>1. PICK f \in IF opens = 0 THEN DOMAIN Files ELSE Later, oarg \in {STD, 2 * opens + 2} :
             stack' = Append(s, [p |-> Opened(f), file |-> f, taken |-> 0,
                                 iarg |-> 2 * opens + 1, oarg |-> oarg])
    BY DEF Push
  <1> DEFINE frame == [p |-> Opened(f), file |-> f, taken |-> 0,
                       iarg |-> 2 * opens + 1, oarg |-> oarg]
  <1>2. File(frame) = [file |-> f, taken |-> 0]
    BY DEF File
  <1>3. f \in DOMAIN Files
    BY ReaderAssumption
  <1>4. [file |-> f, taken |-> 0] \in Forms!AtStart
    BY <1>3 DEF Forms!AtStart, Promised
  <1>5. stack' = Append(s, frame)
    BY <1>1
  <1> HIDE DEF frame
  <1>6. Seen(stack') = Append(Seen(s), File(frame))
    BY <1>5, SeenAppend
  <1> QED
    BY <1>2, <1>4, <1>6

LEMMA PopSeen ==
    ASSUME IsSeq(stack), stack # <<>>, Pop
    PROVE  /\ Seen(stack') = SubSeq(Seen(stack), 1, Len(Seen(stack)) - 1)
           /\ Len(Seen(stack)) = Len(stack) /\ Len(stack) \in Nat \ {0}
  <1>1. stack' = SubSeq(stack, 1, Len(stack) - 1)
    BY DEF Pop, Below
  <1>2. Len(Seen(stack)) = Len(stack) /\ Len(stack) \in Nat \ {0}
    BY SeenIs, Shortened
  <1> QED
    BY <1>1, <1>2, SeenBelow

\* A turn that only reads on
LEMMA ReadSeen ==
    ASSUME StreamIInv, stack # <<>>, NEW e, stack' = Reads(e)
    PROVE  Seen(stack') = Seen(stack)
  <1> DEFINE f == Read(Top, e)
  <1>1. Reads(e) = Append(Below, f)
    BY DEF Reads, Read
  <1>2. /\ f.iarg = Top.iarg /\ f.oarg = Top.oarg /\ IsFrame(f)
        /\ f.file = Top.file /\ f.taken = Top.taken
    BY TopIsFrame, TurnedFrame
  <1> HIDE DEF f
  <1>3. IsFrame(Top) => IsFrame(f)
    BY <1>2
  <1>4. /\ IsSeq(Append(Below, f)) /\ SameStreams(Append(Below, f), stack)
        /\ Append(Below, f)[Len(stack)] = f
        /\ \A i \in 1 .. Len(stack) - 1 : Append(Below, f)[i] = stack[i]
    BY <1>2, <1>3, TurnedTop
  <1>5. IsSeq(stack) /\ Len(stack) \in Nat /\ Len(stack') = Len(stack)
    BY <1>1, <1>4, Shortened DEF StreamIInv, SameStreams
  <1>6. ASSUME NEW i \in 1 .. Len(stack) PROVE File(stack'[i]) = File(stack[i])
    <2>1. CASE i \in 1 .. Len(stack) - 1
      BY <1>1, <1>4, <2>1
    <2>2. CASE i = Len(stack)
      BY <1>1, <1>2, <1>4, <2>2 DEF File, Top
    <2> QED
      BY <1>5, <2>1, <2>2
  <1>7. /\ IsSeq(Seen(stack)) /\ Len(Seen(stack)) = Len(stack)
        /\ \A i \in 1 .. Len(stack) : Seen(stack)[i] = File(stack[i])
    BY <1>5, SeenIs
  <1>8. IsSeq(stack')
    BY <1>1, <1>4
  <1>9. /\ IsSeq(Seen(stack')) /\ Len(Seen(stack')) = Len(stack')
        /\ \A i \in 1 .. Len(stack') : Seen(stack')[i] = File(stack'[i])
    BY <1>8, SeenIs
  <1>10. \A i \in 1 .. Len(stack) : Seen(stack')[i] = Seen(stack)[i]
    BY <1>5, <1>6, <1>7, <1>9
  <1> QED
    BY <1>5, <1>7, <1>9, <1>10, EqualSeq

\* A turn that takes a form
LEMMA ConsumedSeen ==
    ASSUME IsSeq(stack), stack # <<>>, IsFrame(Top), NEW e
    PROVE  Seen(Consumed(e)) = Append(SubSeq(Seen(stack), 1, Len(Seen(stack)) - 1),
                                      [file |-> Top.file, taken |-> Top.taken + 1])
  <1> DEFINE f == Taken(Top, e)
  <1>1. Consumed(e) = Append(Below, f)
    BY DEF Consumed, Taken
  <1>2. File(f) = [file |-> Top.file, taken |-> Top.taken + 1]
    BY TurnedFrame DEF File
  <1> HIDE DEF f
  <1>3. IsSeq(Below) /\ Len(Seen(stack)) = Len(stack)
    BY Shortened, SeenIs DEF Below
  <1>4. Seen(Below) = SubSeq(Seen(stack), 1, Len(Seen(stack)) - 1)
    BY <1>3, SeenBelow DEF Below
  <1>5. Seen(Append(Below, f)) = Append(Seen(Below), File(f))
    BY <1>3, SeenAppend
  <1> QED
    BY <1>1, <1>2, <1>4, <1>5

\* The next item by its kind, as FormStream names it
LEMMA ItemKinds ==
    ASSUME ScansAsWritten, FormIInv, pc = "scanning"
    PROVE  LET e == ReadForm(Top.p)
           IN /\ e.is \in {"aborted", "nothing", "error", "form"}
              /\ e.is = "nothing" => Forms!Ended
              /\ e.is = "error" => Forms!NextIs("error")
              /\ e.is = "form" => Forms!NextIs("form") /\ Head(Forms!Left) = Given(<<e.val>>)
  <1> DEFINE e == ReadForm(Top.p)
             n == Len(Files[Top.file])
             item == Files[Top.file][Top.taken + 1]
  <1>1. /\ IsSeq(stack) /\ stack # <<>> /\ Behind(Top)
        /\ ReadAsWritten(Top.file, Top.taken, e)
    BY ScanReads
  <1>2. /\ Top.taken = n => Forms!Left = <<>>
        /\ Top.taken < n => /\ Forms!Left # <<>>
                            /\ Head(Forms!Left) = [kind |-> item.kind, term |-> Meaning(item.term)]
    BY <1>1, NextItem
  <1>3. n \in Nat /\ Top.taken \in 0 .. n
    BY <1>1, ReaderAssumption DEF Behind
  <1>4. Top.taken < n => Head(Forms!Left).kind = item.kind
    BY <1>2
  <1>5. Seen(stack) # <<>>
    BY <1>1, SeenIs, Shortened
  <1>6. ASSUME NEW kind, Forms!Left # <<>>, Head(Forms!Left).kind = kind PROVE Forms!NextIs(kind)
    BY <1>5, <1>6 DEF Forms!NextIs, Seen
  <1> HIDE DEF e, n, item
  <1>7. \/ e.is = "aborted"
        \/ e.is = "nothing" /\ (Top.taken = n \/ item.kind = "quiet")
        \/ e.is = "error" /\ Top.taken # n /\ item.kind = "error"
        \/ (/\ e.is = "form" /\ item.kind = "form" /\ Top.taken < n
            /\ Meaning(e.val) = Meaning(item.term))
    BY <1>1 DEF ReadAsWritten, n, item
  <1>8. Top.taken # n => Top.taken < n
    BY <1>3
  <1>9. e.is = "nothing" => Forms!Ended
    BY <1>2, <1>4, <1>6, <1>7, <1>8 DEF Forms!Ended
  <1>10. e.is = "error" => Forms!NextIs("error")
    BY <1>2, <1>4, <1>6, <1>7, <1>8
  <1>11. ASSUME e.is = "form"
         PROVE  Forms!NextIs("form") /\ Head(Forms!Left) = Given(<<e.val>>)
    <2>1. Top.taken < n /\ item.kind = "form" /\ Meaning(e.val) = Meaning(item.term)
      BY <1>7, <1>11
    <2>2. Given(<<e.val>>) = [kind |-> "form", term |-> Meaning(e.val)]
      <3>1. <<e.val>> # <<>> /\ <<e.val>>[1] = e.val
        OBVIOUS
      <3> QED
        BY <3>1 DEF Given
    <2> QED
      BY <1>2, <1>4, <1>6, <2>1, <2>2
  <1> QED
    BY <1>7, <1>9, <1>10, <1>11 DEF e

LEMMA TurnIsStep ==
    ASSUME ScansAsWritten, FormIInv, Turn
    PROVE  [Forms!Next]_(Forms!vars)
  <1> DEFINE e == ReadForm(Top.p)
  <1>1. pc = "scanning" /\ (Abort(e) \/ NoForm(e) \/ Refuse(e) \/ Deliver(e))
    BY DEF Turn
  <1>2. IsSeq(stack) /\ stack # <<>> /\ IsFrame(Top) /\ answer = "none" /\ StreamIInv
    BY <1>1, ScanReads DEF FormIInv, StreamIInv
  <1>3. /\ e.is = "nothing" => Forms!Ended
        /\ e.is = "error" => Forms!NextIs("error")
        /\ e.is = "form" => Forms!NextIs("form") /\ Head(Forms!Left) = Given(<<e.val>>)
    BY <1>1, ItemKinds
  <1>4. Len(Seen(stack)) = Len(stack) /\ Len(stack) \in Nat \ {0}
    BY <1>2, SeenIs, Shortened
  <1> HIDE DEF e
  <1>5. CASE Abort(e)
    BY <1>5 DEF Abort, Forms!vars
  <1>6. CASE NoForm(e) /\ Len(stack) > 1
    <2>1. Pop /\ UNCHANGED <<answer, last>> /\ Forms!Ended
      BY <1>3, <1>6 DEF NoForm
    <2>2. Seen(stack') = SubSeq(Seen(stack), 1, Len(Seen(stack)) - 1)
      BY <1>2, <2>1, PopSeen
    <2>3. Forms!EndOfFile
      BY <1>2, <1>4, <1>6, <2>1, <2>2 DEF Forms!EndOfFile, Forms!Below, Seen
    <2> QED
      BY <2>3 DEF Forms!Next
  <1>7. CASE NoForm(e) /\ ~(Len(stack) > 1)
    <2>1. stack' = Reads(e) /\ answer' = "complete" /\ last' = last /\ Forms!Ended
      BY <1>3, <1>7 DEF NoForm, Return
    <2>2. Seen(stack') = Seen(stack) /\ Len(Seen(stack)) = 1
      BY <1>2, <1>4, <1>7, <2>1, ReadSeen
    <2>3. Forms!Complete
      BY <1>2, <2>1, <2>2 DEF Forms!Complete, Seen
    <2> QED
      BY <2>3 DEF Forms!Next
  <1>8. CASE Refuse(e)
    <2>1. stack' = Reads(e) /\ answer' = "failed" /\ last' = last /\ Forms!NextIs("error")
      BY <1>3, <1>8 DEF Refuse, Return
    <2>2. Seen(stack') = Seen(stack)
      BY <1>2, <2>1, ReadSeen
    <2>3. Forms!Fails
      BY <1>2, <2>1, <2>2 DEF Forms!Fails, Seen
    <2> QED
      BY <2>3 DEF Forms!Next
  <1>9. CASE Deliver(e)
    <2> DEFINE rest == Append(SubSeq(Seen(stack), 1, Len(Seen(stack)) - 1),
                              [file |-> Top.file, taken |-> Top.taken + 1])
    <2>1. Seen(Consumed(e)) = rest
      BY <1>2, ConsumedSeen
    <2>2. Forms!Top = File(Top)
      BY <1>1, ScanReads, NextItem
    <2>3. [File(Top) EXCEPT !.taken = @ + 1] = [file |-> Top.file, taken |-> Top.taken + 1]
      BY DEF File
    <2>4. Append(Forms!Below, [Forms!Top EXCEPT !.taken = @ + 1]) = rest
      BY <2>2, <2>3 DEF Forms!Below, Seen
    <2>5. last' = <<e.val>> /\ Forms!NextIs("form") /\ Given(last') = Head(Forms!Left)
      BY <1>3, <1>9 DEF Deliver
    <2>6. \/ Seen(stack') = rest /\ answer' \in {"none", "failed"}
          \/ (\E file \in Forms!AtStart : Seen(stack') = Append(rest, file)) /\ answer' = "none"
      <3>1. CASE Push(Consumed(e)) /\ UNCHANGED <<answer, stopped>>
        <4>1. Consumed(e) = Append(Below, Taken(Top, e))
          BY DEF Consumed, Taken
        <4>2. IsSeq(Below)
          BY <1>2, Shortened DEF Below
        <4>3. IsSeq(Consumed(e))
          BY <4>1, <4>2, Appended
        <4> QED
          BY <1>2, <2>1, <3>1, <4>3, PushSeen
      <3>2. CASE stack' = Consumed(e) /\ UNCHANGED <<pc, answer, stopped, open, opens>>
        BY <1>2, <2>1, <3>2
      <3>3. CASE stack' = Consumed(e) /\ Return("failed") /\ stopped' = TRUE /\ UNCHANGED <<open, opens>>
        BY <2>1, <3>3 DEF Return
      <3> QED
        BY <1>9, <3>1, <3>2, <3>3 DEF Deliver
    <2> HIDE DEF rest
    <2>7. Forms!Deliver
      BY <1>2, <2>4, <2>5, <2>6 DEF Forms!Deliver, Seen, Given
    <2> QED
      BY <2>7 DEF Forms!Next
  <1> QED
    BY <1>1, <1>5, <1>6, <1>7, <1>8, <1>9

\* What the caller does, FormStream's caller may do.
LEMMA StepIsStep ==
    ASSUME ScansAsWritten, FormIInv, [Next]_vars
    PROVE  [Forms!Next]_(Forms!vars)
  <1>1. StreamIInv /\ IsSeq(stack)
    BY DEF FormIInv, StreamIInv
  <1>2. CASE CallerPushes
    <2>1. Push(stack) /\ UNCHANGED <<answer, last>>
      BY <1>2 DEF CallerPushes
    <2>2. \E file \in Forms!AtStart : Seen(stack') = Append(Seen(stack), file)
      BY <1>1, <2>1, PushSeen
    <2>3. Forms!Open
      BY <2>1, <2>2 DEF Forms!Open, Seen
    <2> QED
      BY <2>3 DEF Forms!Next
  <1>3. CASE CallerPops
    <2>1. stack # <<>> /\ Pop /\ UNCHANGED <<answer, last>>
      BY <1>3 DEF CallerPops
    <2>2. /\ Seen(stack') = SubSeq(Seen(stack), 1, Len(Seen(stack)) - 1)
          /\ Len(Seen(stack)) - 1 \in 0 .. Len(Seen(stack)) - 1
      BY <1>1, <2>1, PopSeen
    <2>3. Forms!Close
      BY <2>1, <2>2 DEF Forms!Close, Seen
    <2> QED
      BY <2>3 DEF Forms!Next
  <1>4. CASE Free
    <2>1. stack' = <<>> /\ UNCHANGED <<answer, last>>
      BY <1>4 DEF Free
    <2>2. CASE stack = <<>>
      BY <2>1, <2>2 DEF Forms!vars
    <2>3. CASE stack # <<>>
      <3>1. Len(Seen(stack)) = Len(stack) /\ Len(stack) \in Nat \ {0}
        BY <1>1, <2>3, SeenIs, Shortened
      <3>2. SubSeq(Seen(stack), 1, 0) = <<>>
        BY SubSeqEmpty
      <3>3. IsSeq(<<>>) /\ Len(<<>>) = 0
        <4>1. <<>> \in Seq({}) /\ Len(<<>>) = 0
          OBVIOUS
        <4> QED
          BY <4>1 DEF IsSeq
      <3>4. IsSeq(Seen(stack')) /\ Len(Seen(stack')) = 0
        BY <2>1, <3>3, SeenIs
      <3>5. Seen(stack') = <<>>
        BY <3>3, <3>4, EqualSeq
      <3>6. 0 \in 0 .. Len(Seen(stack)) - 1 /\ Seen(stack') = SubSeq(Seen(stack), 1, 0)
        BY <3>1, <3>2, <3>5
      <3>7. Forms!Close
        BY <2>1, <3>6 DEF Forms!Close, Seen
      <3> QED
        BY <3>7 DEF Forms!Next
    <2> QED
      BY <2>2, <2>3
  <1>5. CASE Scan
    <2>1. UNCHANGED <<stack, last>> /\ answer' = "none"
      BY <1>5 DEF Scan
    <2>2. Forms!Start
      BY <2>1 DEF Forms!Start
    <2> QED
      BY <2>2 DEF Forms!Next
  <1>6. CASE Turn
    BY <1>6, TurnIsStep
  <1>7. CASE UNCHANGED vars
    BY <1>7 DEF vars, Forms!vars
  <1> QED
    BY <1>2, <1>3, <1>4, <1>5, <1>6, <1>7 DEF Next

LEMMA InitIsInit == Init => Forms!Init
  <1> SUFFICES ASSUME Init PROVE Forms!Init
    OBVIOUS
  <1>1. stack = <<>> /\ last = <<>> /\ answer = "none"
    BY DEF Init
  <1>2. <<>> \in Seq({}) /\ Len(<<>>) = 0
    OBVIOUS
  <1>3. IsSeq(stack) /\ Len(stack) = 0 /\ IsSeq(<<>>)
    BY <1>1, <1>2 DEF IsSeq
  <1>4. IsSeq(Seen(stack)) /\ Len(Seen(stack)) = 0
    BY <1>3, SeenIs
  <1>5. Seen(stack) = <<>>
    BY <1>2, <1>3, <1>4, EqualSeq
  <1> QED
    BY <1>1, <1>5 DEF Forms!Init, Forms!None, Seen

\* For every scanner that reads the items of the files as they were written, whatever
\* the callback pushes and the caller pops: enif_io_scan_forms gives the callback each
\* form once and in order, reports an erroneous one, and leaves a file at its end only.
THEOREM ReaderImplementsForms ==
    ASSUME ScansAsWritten
    PROVE  Spec => ImplementsForms
  <1>1. FormIInv /\ [Next]_vars => FormIInv'
    BY FormNext
  <1>2. FormIInv /\ [Next]_vars => [Forms!Next]_(Forms!vars)
    BY StepIsStep
  <1>3. Spec => []FormIInv
    BY <1>1, FormInit, PTL DEF Spec
  <1> QED
    BY <1>2, <1>3, InitIsInit, PTL DEF Spec, ImplementsForms, Forms!Spec
=============================================================================
