------------------------- MODULE StructCopy_proofs --------------------------
(***************************************************************************)
(* enif_make_struct_copy stays in the words flat_size counted and in its   *)
(* log, whatever the term is and however its objects are shared; the log   *)
(* can repair the source at every moment, and has done so when the call is *)
(* done.  What it returns is the same term, in words of the copy, and has  *)
(* every object of the term once.                                          *)
(*                                                                         *)
(* LogInv is about the log, Fits about the room and the words of the copy. *)
(* Each needs the other: an object is copied whole only if there is room   *)
(* for it, and it counts for what flat_size counted only if it is as it    *)
(* was, not overwritten before.  StructKept carries what Fits says of the  *)
(* copy over the repair of the source to the return.                       *)
(***************************************************************************)
EXTENDS StructCopy, CopyLoop_proofs

\* The copy and its log stay in their words.
FitsInSize == from <= to /\ to <= to0 + size /\ Len(log) <= to - to0

\* The words of the source
Places == 1 .. to0 - 1
Entry == [at : Places, was : {src.mem[a] : a \in Places}]

StructTyped ==
    /\ way = "struct" /\ src \in Source /\ WellFormed(src)
    /\ to0 = Cardinality(DOMAIN src.mem) + 1
    /\ pc \in {"start", "scan", "restore", "done", "returned_0"}
    /\ from \in Int /\ from >= to0 /\ to \in Int /\ to >= to0
    /\ size \in Nat /\ ptr \in Nat
    /\ log \in Seq(Entry)

\* Before the copy starts
Fresh == pc = "start" => mem = src.mem /\ log = <<>> /\ ptr = 0 /\ to = to0 /\ size = 0

\* The memory has the source's words and the copy's
Memory == DOMAIN mem = 1 .. to0 + size - 1

\* What the loop has not scanned yet are words of the source, as they were
Unscanned ==
    pc = "scan" => ptr = 0 /\ \A a \in from .. to - 1 : \E s \in Places : mem[a] = src.mem[s]

\* A logged place is that of an object, and holds a pointer to its copy which has the
\* tag that pointers to the object have
Points ==
    pc = "scan" => \A k \in 1 .. Len(log) :
        \E w \in Pointers(src) :
            /\ log[k].at = w.ptr
            /\ mem[w.ptr].tag = w.tag /\ mem[w.ptr].ptr \in to0 .. to

\* The log has been worked off when the call is done
Worked == pc = "done" => ptr = Len(log)

LogInv ==
    StructTyped /\ Fresh /\ Memory /\ Unscanned /\ Points /\ Worked /\ SourceLogged

-----------------------------------------------------------------------------
\* Natural numbers add up to one.  (To be cited for numbers that are not constants.)
LEMMA SumNat ==
    ASSUME NEW i \in Nat, NEW j \in Nat
    PROVE  i + j \in Nat
  OBVIOUS

\* The elements of a sequence with one more.
LEMMA LogAppended ==
    ASSUME NEW R, NEW s \in Seq(R), NEW e \in R
    PROVE  /\ Append(s, e) \in Seq(R) /\ Len(Append(s, e)) = Len(s) + 1 /\ Len(s) \in Nat
           /\ \A k \in 1 .. Len(s) : Append(s, e)[k] = s[k]
           /\ Append(s, e)[Len(s) + 1] = e /\ Len(s) + 1 \in 1 .. Len(Append(s, e))
  OBVIOUS

\* The initial states.
LEMMA LogInitial ==
    ASSUME StructInit
    PROVE  LogInv
  <1>1. src \in Source /\ WellFormed(src)
    BY CopyAssumption DEF StructInit, CopyInit
  <1>2. to0 = Cardinality(DOMAIN src.mem) + 1 /\ Cardinality(DOMAIN src.mem) \in Nat
    BY <1>1 DEF StructInit, CopyInit, WellFormed
  <1>3. StructTyped
    BY <1>1, <1>2 DEF StructInit, CopyInit, StructTyped
  <1>4. Fresh /\ Memory /\ Unscanned /\ Points /\ Worked
    <2>1. DOMAIN mem = 1 .. to0 + size - 1
      BY <1>1, <1>2 DEF StructInit, CopyInit, WellFormed
    <2> QED
      BY <2>1 DEF StructInit, CopyInit, Fresh, Memory, Unscanned, Points, Worked
  <1>5. SourceLogged
    BY DEF StructInit, CopyInit, SourceLogged
  <1> QED
    BY <1>3, <1>4, <1>5 DEF LogInv

\* The object at w is not logged yet and can be copied: m is the memory with room for
\* the copy, and every word of the object is still as it was.
Uncopied(m, w) ==
    /\ w \in Pointers(src)
    /\ \A a \in Places : m[a] = mem[a]
    /\ \A a \in Extent(src, w) : mem[a] = src.mem[a]
    /\ \A k \in 1 .. Len(log) : log[k].at # w.ptr
    /\ \A k \in 1 .. Len(log) : \E v \in Pointers(src) :
         log[k].at = v.ptr /\ m[v.ptr].tag = v.tag /\ m[v.ptr].ptr \in to0 .. to

\* The words behind the one that is scanned are words of the source.
Behind(m) == \A a \in from' .. to - 1 : \E s \in Places : m[a] = src.mem[s]

\* What Start and StructPointer have in common.
CopyTurn(m) ==
    /\ StructTyped /\ SourceLogged /\ FitsInSize'
    /\ ptr = 0 /\ ptr' = 0 /\ way' = way /\ src' = src /\ to0' = to0 /\ pc' = "scan"
    /\ size' \in Nat /\ from' \in Int /\ from' >= to0
    /\ pc = "scan" => from \in Int /\ from >= to0 /\ from < from'
    /\ DOMAIN m = 1 .. to0 + size' - 1

\* Such an object is copied and logged.
LEMMA CopyObjectKeeps ==
    ASSUME NEW m, NEW w, CopyTurn(m), Uncopied(m, w), Behind(m), CopyObject(m, w)
    PROVE  LogInv'
  <1> DEFINE last == Cardinality(DOMAIN src.mem)
  <1>1. /\ last \in Nat /\ to0 = last + 1 /\ Places = 1 .. last
        /\ w \in [tag : {"list", "boxed"}, ptr : 1 .. last]
        /\ Words(src.mem, w) \in Nat \ {0} /\ w.ptr + Words(src.mem, w) - 1 <= last
    <2>1. WellFormed(src) /\ w \in Pointers(src) /\ to0 = last + 1
      BY DEF CopyTurn, StructTyped, Uncopied
    <2>2. /\ last \in Nat /\ w \in [tag : {"list", "boxed"}, ptr : 1 .. last]
          /\ Words(src.mem, w) \in Nat \ {0} /\ w.ptr + Words(src.mem, w) - 1 <= last
      BY <2>1, PointerFacts
    <2>3. Places = 1 .. last
      BY <2>1, <2>2 DEF Places
    <2> QED
      BY <2>1, <2>2, <2>3
  <1>2. \A a \in Extent(src, w) : a \in Places /\ m[a] = src.mem[a]
    BY <1>1 DEF Extent, Uncopied
  <1>3. w.ptr \in Extent(src, w) /\ m[w.ptr] = src.mem[w.ptr]
    BY <1>1, <1>2 DEF Extent
  <1>4. PICK n \in Nat \ {0} : n = Words(m, w) /\ n = Words(src.mem, w)
    BY <1>1, <1>3 DEF Words
  <1>5. PICK e \in Entry : /\ e = [at |-> w.ptr, was |-> m[w.ptr]]
                          /\ e.at = w.ptr /\ e.was = src.mem[w.ptr]
    <2>1. w.ptr \in Places /\ m[w.ptr] = src.mem[w.ptr]
      BY <1>1, <1>3
    <2>2. [at |-> w.ptr, was |-> m[w.ptr]] \in Entry
      BY <2>1 DEF Entry
    <2> QED
      BY <2>1, <2>2
  <1>6. /\ log' = Append(log, e) /\ to' = to + n
        /\ mem' = [a \in DOMAIN m |->
                     IF a \in to .. to + n - 1 THEN m[w.ptr + a - to]
                     ELSE IF a = w.ptr THEN [w EXCEPT !.ptr = to]
                     ELSE IF pc = "scan" /\ a = from THEN [w EXCEPT !.ptr = to]
                     ELSE m[a]]
    BY <1>4, <1>5 DEF CopyObject
  <1> HIDE DEF last
  <1>7. PICK p \in Nat : p = w.ptr /\ p >= 1 /\ p + n <= to0
    BY <1>1, <1>4
  <1>8. /\ to0 \in Nat /\ size' \in Nat /\ Places = 1 .. to0 - 1
        /\ DOMAIN m = 1 .. to0 + size' - 1
    BY <1>1 DEF CopyTurn
  <1>9. /\ to \in Int /\ to >= to0 /\ to' = to + n /\ to' \in Int /\ to' >= to0
        /\ from' \in Int /\ from' >= to0 /\ to' <= to0 + size' /\ from' <= to'
        /\ n \in Nat /\ n >= 1
    BY <1>4, <1>6, <1>8 DEF CopyTurn, StructTyped, FitsInSize
  <1>10. PICK t \in Nat, end \in Nat : t = to /\ end = to0 + size' /\ t >= 1 /\ t + n <= end
    <2>1. to0 >= 1
      BY <1>7, <1>8, <1>9
    <2>2. to0 + size' \in Nat
      BY <1>8, SumNat
    <2>3. to0 >= 1 /\ to0 + size' \in Nat
      BY <2>1, <2>2
    <2>4. to \in Int /\ to >= to0 /\ to0 \in Nat
      BY <1>8, <1>9
    <2>5. to \in Nat /\ to >= 1
      BY <2>3, <2>4
    <2>6. to + n <= to0 + size'
      BY <1>9
    <2> QED
      BY <2>3, <2>5, <2>6
  <1>11. log \in Seq(Entry) /\ log' \in Seq(Entry)
    <2>1. log \in Seq(Entry)
      BY DEF CopyTurn, StructTyped
    <2> QED
      BY <1>6, <2>1, LogAppended
  <1>12. /\ Len(log) \in Nat /\ Len(log') = Len(log) + 1 /\ Len(log) + 1 \in 1 .. Len(log')
         /\ \A k \in 1 .. Len(log) : log'[k] = log[k] /\ log[k] \in Entry
         /\ log'[Len(log) + 1].at = w.ptr /\ log'[Len(log) + 1].was = src.mem[w.ptr]
    <2>1. \A k \in 1 .. Len(log) : log[k] \in Entry
      BY <1>11
    <2>2. log'[Len(log) + 1] = e
      BY <1>6, <1>11, LogAppended
    <2> QED
      BY <1>5, <1>6, <1>11, <2>1, <2>2, LogAppended
  <1>13. way' = way /\ src' = src /\ to0' = to0 /\ pc' = "scan" /\ ptr' = 0 /\ Entry' = Entry /\ Places' = Places
    BY DEF CopyTurn, Entry, Places
  <1>14. StructTyped'
    <2>1. way = "struct" /\ src \in Source /\ WellFormed(src) /\ to0 = Cardinality(DOMAIN src.mem) + 1
      BY DEF CopyTurn, StructTyped
    <2>2. from' \in Int /\ from' >= to0 /\ to' \in Int /\ to' >= to0 /\ size' \in Nat
      BY <1>8, <1>9
    <2> QED
      BY <1>11, <1>13, <2>1, <2>2 DEF StructTyped
  <1>15. DOMAIN mem' = 1 .. to0 + size' - 1
    BY <1>6 DEF CopyTurn
  <1>16. \A a \in to .. to + n - 1 : mem'[a] = m[w.ptr + a - to]
    <2>1. \A a \in t .. t + n - 1 : a \in 1 .. end - 1
      BY <1>10
    <2>2. DOMAIN m = 1 .. end - 1
      BY <1>8, <1>10
    <2>3. \A a \in to .. to + n - 1 : a \in DOMAIN m
      BY <1>10, <2>1, <2>2
    <2> QED
      BY <1>6, <2>3
  <1>17. w.ptr \in Places /\ w.ptr \in DOMAIN m /\ w.ptr \notin to .. to + n - 1
    <2>1. p \in 1 .. to0 - 1 /\ p \in 1 .. to0 + size' - 1 /\ p \notin to .. to + n - 1
      BY <1>7, <1>8, <1>9
    <2> QED
      BY <1>7, <1>8, <2>1
  <1>18. /\ mem'[w.ptr] = [w EXCEPT !.ptr = to]
         /\ mem'[w.ptr].tag = w.tag /\ mem'[w.ptr].ptr = to
    <2>1. mem'[w.ptr] = [w EXCEPT !.ptr = to]
      BY <1>6, <1>17
    <2> QED
      BY <1>1, <2>1
  <1>19. ASSUME NEW a \in 1 .. to - 1, a # w.ptr, pc = "scan" => a # from
         PROVE  mem'[a] = m[a]
    <2>1. a \in 1 .. end - 1 /\ a \notin t .. t + n - 1
      BY <1>10
    <2> QED
      BY <1>6, <1>8, <1>19, <1>10, <2>1
  <1>20. ASSUME NEW a \in Places, a # w.ptr
         PROVE  mem'[a] = m[a]
    <2>1. a \in 1 .. to - 1 /\ a < to0
      BY <1>8, <1>9
    <2>2. pc = "scan" => a # from
      BY <1>8, <2>1 DEF CopyTurn
    <2> QED
      BY <1>19, <1>20, <2>1, <2>2
  <1>21. Fresh' /\ Memory' /\ Worked'
    BY <1>13, <1>15 DEF Fresh, Memory, Worked
  <1>22. Unscanned'
    <2> SUFFICES ASSUME NEW a \in from' .. to' - 1
                 PROVE  \E s \in Places : mem'[a] = src.mem[s]
      BY <1>13 DEF Unscanned
    <2>1. a \in Int /\ a >= to0 /\ a >= from' /\ a < to + n
      BY <1>8, <1>9
    <2>2. CASE a >= to
      <3>1. a \in to .. to + n - 1 /\ p + a - to \in p .. p + n - 1
        BY <1>8, <1>9, <2>1, <2>2
      <3>2. w.ptr + a - to \in Extent(src, w)
        BY <1>7, <1>4, <3>1 DEF Extent
      <3>3. mem'[a] = src.mem[w.ptr + a - to] /\ w.ptr + a - to \in Places
        BY <1>2, <1>16, <3>1, <3>2
      <3> QED
        BY <3>3
    <2>3. CASE a < to
      <3>1. a \in from' .. to - 1
        BY <1>9, <2>1, <2>3
      <3>2. a \in 1 .. to - 1 /\ a # w.ptr
        BY <1>7, <1>8, <1>9, <2>1, <2>3
      <3>3. pc = "scan" => a # from
        BY <2>1 DEF CopyTurn
      <3>4. mem'[a] = m[a]
        BY <1>19, <3>2, <3>3
      <3> QED
        BY <3>1, <3>4 DEF Behind
    <2> QED
      BY <1>9, <2>1, <2>2, <2>3
  <1>23. Points'
    <2> SUFFICES ASSUME NEW k \in 1 .. Len(log')
                 PROVE  \E v \in Pointers(src) :
                          /\ log'[k].at = v.ptr
                          /\ mem'[v.ptr].tag = v.tag /\ mem'[v.ptr].ptr \in to0 .. to'
      BY <1>13 DEF Points
    <2>1. CASE k = Len(log) + 1
      <3>1. log'[k].at = w.ptr /\ w \in Pointers(src)
        BY <1>12, <2>1 DEF Uncopied
      <3>2. mem'[w.ptr].tag = w.tag /\ mem'[w.ptr].ptr \in to0 .. to'
        BY <1>4, <1>8, <1>9, <1>18
      <3> QED
        BY <3>1, <3>2
    <2>2. CASE k \in 1 .. Len(log)
      <3>1. PICK v \in Pointers(src) :
              log[k].at = v.ptr /\ m[v.ptr].tag = v.tag /\ m[v.ptr].ptr \in to0 .. to
        BY <2>2 DEF Uncopied
      <3>2. v.ptr # w.ptr
        BY <2>2, <3>1 DEF Uncopied
      <3>3. v.ptr \in Places
        BY <1>12, <2>2, <3>1 DEF Entry
      <3>4. mem'[v.ptr] = m[v.ptr]
        BY <1>20, <3>2, <3>3
      <3>5. to0 .. to \subseteq to0 .. to'
        BY <1>8, <1>9
      <3>6. m[v.ptr].ptr \in to0 .. to'
        BY <3>1, <3>5
      <3> QED
        BY <1>12, <2>2, <3>1, <3>4, <3>6
    <2> QED
      BY <1>12, <2>1, <2>2
  <1>24. SourceLogged'
    <2>1. \A k \in 1 .. Len(log') : log'[k].at \in Places /\ log'[k].was = src.mem[log'[k].at]
      <3>1. \A k \in 1 .. Len(log) : log[k].at \in Places /\ log[k].was = src.mem[log[k].at]
        BY <1>12 DEF CopyTurn, SourceLogged, Entry
      <3> QED
        BY <1>12, <1>17, <3>1
    <2>2. ASSUME NEW a \in Places, mem'[a] # src.mem[a]
          PROVE  \E k \in 0 + 1 .. Len(log') : log'[k].at = a
      <3>1. CASE a = w.ptr
        BY <1>12, <3>1
      <3>2. CASE a # w.ptr
        <4>1. mem[a] # src.mem[a]
          BY <1>20, <2>2, <3>2 DEF Uncopied
        <4>2. PICK k \in 1 .. Len(log) : log[k].at = a
          BY <4>1 DEF CopyTurn, SourceLogged, Places
        <4> QED
          BY <1>12, <4>2
      <3> QED
        BY <3>1, <3>2
    <2>3. \A k \in 1 .. Len(log) : log'[k].at # log'[Len(log) + 1].at
      BY <1>12 DEF Uncopied
    <2>4. ASSUME NEW j \in 1 .. Len(log'), NEW k \in 1 .. Len(log'), log'[j].at = log'[k].at
          PROVE  j = k
      <3>1. CASE j \in 1 .. Len(log) /\ k \in 1 .. Len(log)
        BY <1>12, <2>4, <3>1 DEF CopyTurn, SourceLogged
      <3>2. CASE j = Len(log) + 1 \/ k = Len(log) + 1
        BY <1>12, <2>3, <2>4, <3>2
      <3> QED
        BY <1>12, <3>1, <3>2
    <2> QED
      BY <1>13, <2>1, <2>2, <2>4 DEF SourceLogged, Places
  <1> QED
    BY <1>14, <1>21, <1>22, <1>23, <1>24 DEF LogInv

-----------------------------------------------------------------------------
\* A step that leaves the words and the log alone and takes from forward.
LEMMA Unmoved ==
    ASSUME LogInv, UNCHANGED <<way, src, mem, size, to0, to, log, ptr>>,
           from' \in Int, from' >= from,
           \/ pc' = pc
           \/ pc = "scan" /\ pc' \in {"restore", "returned_0"}
           \/ pc' = "done" /\ ptr = Len(log)
    PROVE  LogInv'
  <1>1. StructTyped /\ to0 \in Int
    BY DEF LogInv, StructTyped, WellFormed
  <1>2. from \in Int /\ from >= to0
    BY <1>1 DEF StructTyped
  <1>3. from' >= to0
    BY <1>1, <1>2
  <1>4. StructTyped'
    BY <1>1, <1>3 DEF StructTyped, Entry, Places
  <1>5. Fresh' /\ Memory' /\ Points' /\ Worked'
    BY DEF LogInv, Fresh, Memory, Points, Worked
  <1>6. Unscanned'
    <2> SUFFICES ASSUME pc = "scan", NEW a \in from' .. to - 1
                 PROVE  ptr = 0 /\ \E s \in Places : mem[a] = src.mem[s]
      BY DEF Unscanned, Places, LogInv
    <2>1. from' .. to - 1 \subseteq from .. to - 1
      BY <1>1, <1>2 DEF StructTyped
    <2> QED
      BY <2>1 DEF LogInv, Unscanned
  <1>7. SourceLogged'
    BY DEF LogInv, SourceLogged
  <1> QED
    BY <1>4, <1>5, <1>6, <1>7 DEF LogInv

\* A word the loop scans is a word of the source.
LEMMA Scanned ==
    ASSUME LogInv, pc = "scan", from < to
    PROVE  /\ \E s \in Places : mem[from] = src.mem[s]
           /\ ptr = 0 /\ from \in Int /\ from >= to0 /\ to0 \in Nat
           /\ IsPointer(mem[from]) => mem[from] \in Pointers(src)
  <1>1. from \in from .. to - 1 /\ from >= to0
    BY DEF LogInv, StructTyped
  <1>2. PICK s \in Places : mem[from] = src.mem[s]
    BY <1>1 DEF LogInv, Unscanned
  <1>3. s \in DOMAIN src.mem
    BY DEF LogInv, StructTyped, WellFormed, Places
  <1>4. IsPointer(mem[from]) => mem[from] \in Pointers(src)
    BY <1>2, <1>3 DEF Pointers, Every
  <1>5. ptr = 0 /\ from \in Int /\ to0 \in Nat
    <2>1. to0 = Cardinality(DOMAIN src.mem) + 1 /\ Cardinality(DOMAIN src.mem) \in Nat
      BY DEF LogInv, StructTyped, WellFormed
    <2> QED
      BY <2>1 DEF LogInv, StructTyped, Unscanned
  <1> QED
    BY <1>1, <1>2, <1>4, <1>5

\* The first object.
LEMMA StepFirst ==
    ASSUME LogInv, StructStart, FitsInSize'
    PROVE  LogInv'
  <1> DEFINE w == src.term
             m == [a \in 1 .. to0 + size' - 1 |-> IF a < to0 THEN mem[a] ELSE Raw(0)]
  <1>1. /\ StructTyped /\ SourceLogged /\ pc = "start"
        /\ mem = src.mem /\ log = <<>> /\ ptr = 0 /\ to = to0
    BY DEF LogInv, Fresh, StructStart
  <1>2. /\ size' = FlatSize(src.mem, w) /\ size' > 0 /\ CopyObject(m, w)
        /\ way' = way /\ src' = src /\ to0' = to0 /\ from' = from /\ ptr' = ptr /\ pc' = "scan"
    BY <1>1 DEF StructStart, given, Granted
  <1>3. size' \in Nat /\ w \in Pointers(src)
    BY <1>1, <1>2, TermIsPointer DEF StructTyped
  <1>4. to0 \in Nat /\ from \in Int /\ from >= to0
    BY <1>1 DEF StructTyped, WellFormed
  <1>5. CopyTurn(m)
    BY <1>1, <1>2, <1>3, <1>4 DEF CopyTurn
  <1>6. ASSUME NEW a \in Places
        PROVE  m[a] = mem[a]
    <2>1. PICK t \in Nat, n \in Nat : t = to0 /\ n = size'
      BY <1>3, <1>4
    <2>2. a \in 1 .. t - 1
      BY <2>1 DEF Places
    <2>3. a \in 1 .. t + n - 1 /\ a < t
      BY <2>2
    <2> QED
      BY <2>1, <2>3
  <1>7. Uncopied(m, w)
    BY <1>1, <1>3, <1>6 DEF Uncopied
  <1>8. Behind(m)
    BY <1>1, <1>2, <1>4 DEF Behind
  <1> HIDE DEF m, w
  <1> QED
    BY <1>2, <1>5, <1>7, <1>8, CopyObjectKeeps

\* The cases of the loop that leave the source alone.
LEMMA StepHeader ==
    ASSUME LogInv, ScanHeader, UNCHANGED <<log, ptr>>
    PROVE  LogInv'
  <1>1. pc = "scan" /\ from < to /\ mem[from].tag = "header"
    BY DEF ScanHeader, Scanning
  <1>2. PICK s \in Places : mem[from] = src.mem[s]
    BY <1>1, Scanned
  <1>3. mem[from].arity \in Nat
    BY <1>1, <1>2 DEF LogInv, StructTyped, WellFormed, Places
  <1>4. from \in Int
    BY <1>1, Scanned
  <1>5. from' \in Int /\ from' >= from
    BY <1>3, <1>4 DEF ScanHeader
  <1> QED
    BY <1>5, Unmoved DEF ScanHeader, given

\* A pointer of a copied object's.
LEMMA StepForwarded ==
    ASSUME LogInv, ScanForwarded, FitsInSize
    PROVE  LogInv'
  <1>1. pc = "scan" /\ from < to
    BY DEF ScanForwarded, Scanning
  <1>2. from \in Int /\ from >= to0 /\ to0 \in Nat /\ ptr = 0
    BY <1>1, Scanned
  <1>3. /\ mem' = [mem EXCEPT ![from] = mem[mem[from].ptr]] /\ from' = from + 1
        /\ UNCHANGED <<way, src, pc, size, to0, to, log, ptr>>
    BY DEF ScanForwarded, given
  <1>4. DOMAIN mem' = DOMAIN mem /\ \A a : a # from => mem'[a] = mem[a]
    BY <1>3
  <1>5. \A a \in Places : mem'[a] = mem[a]
    BY <1>2, <1>4 DEF Places
  <1>6. Places' = Places /\ Entry' = Entry
    BY <1>3 DEF Places, Entry
  <1>7. StructTyped'
    BY <1>2, <1>3, <1>6 DEF LogInv, StructTyped
  <1>8. Fresh' /\ Memory' /\ Worked'
    BY <1>1, <1>3, <1>4 DEF LogInv, Fresh, Memory, Worked
  <1>9. Unscanned'
    <2> SUFFICES ASSUME NEW a \in from' .. to - 1
                 PROVE  \E s \in Places : mem'[a] = src.mem[s]
      BY <1>2, <1>3, <1>6 DEF Unscanned
    <2>1. a \in from .. to - 1 /\ a # from
      BY <1>2, <1>3 DEF LogInv, StructTyped
    <2> QED
      BY <1>1, <1>4, <2>1 DEF LogInv, Unscanned
  <1>10. Points'
    <2> SUFFICES ASSUME NEW k \in 1 .. Len(log)
                 PROVE  \E w \in Pointers(src) :
                          /\ log[k].at = w.ptr
                          /\ mem'[w.ptr].tag = w.tag /\ mem'[w.ptr].ptr \in to0 .. to
      BY <1>3 DEF Points
    <2>1. PICK w \in Pointers(src) :
            log[k].at = w.ptr /\ mem[w.ptr].tag = w.tag /\ mem[w.ptr].ptr \in to0 .. to
      BY <1>1 DEF LogInv, Points
    <2>2. w.ptr \in Places
      BY <2>1 DEF LogInv, SourceLogged, Places
    <2> QED
      BY <1>5, <2>1, <2>2
  <1>11. SourceLogged'
    BY <1>3, <1>5 DEF LogInv, SourceLogged, Places
  <1> QED
    BY <1>7, <1>8, <1>9, <1>10, <1>11 DEF LogInv

\* An object whose first word is no pointer into the copy is not copied yet, and is
\* still as it was.
LEMMA NotCopiedYet ==
    ASSUME LogInv, StructPointer
    PROVE  Uncopied(mem, mem[from])
  <1> DEFINE w == mem[from]
  <1>1. pc = "scan" /\ from < to /\ w.tag \in {"list", "boxed"} /\ ~Forwarded(w)
    BY DEF StructPointer, Scanning
  <1>2. from \in Int /\ from >= to0 /\ to0 \in Nat /\ ptr = 0 /\ w \in Pointers(src)
    BY <1>1, Scanned DEF IsPointer
  <1>3. StructTyped /\ SourceLogged /\ Points
    BY DEF LogInv
  <1> HIDE DEF w
  <1>5. /\ WellFormed(src)
        /\ \A v, u \in Pointers(src) : u.ptr \in Extent(src, v) => u.ptr = v.ptr /\ u.tag = v.tag
    BY <1>3 DEF StructTyped, WellFormed
  <1>6. \A k \in 1 .. Len(log) : log[k].at # w.ptr
    <2> SUFFICES ASSUME NEW k \in 1 .. Len(log), log[k].at = w.ptr
                 PROVE  FALSE
      OBVIOUS
    <2>1. PICK v \in Pointers(src) :
            log[k].at = v.ptr /\ mem[v.ptr].tag = v.tag /\ mem[v.ptr].ptr \in to0 .. to
      BY <1>1, <1>3 DEF Points
    <2>2. w.ptr \in Extent(src, v)
      BY <1>2, <1>5, <2>1, PointerFacts DEF Extent
    <2>3. v.tag = w.tag
      BY <1>2, <1>5, <2>2
    <2> QED
      BY <1>1, <2>1, <2>3 DEF Forwarded
  <1>7. ASSUME NEW a \in Extent(src, w)
        PROVE  mem[a] = src.mem[a]
    <2> SUFFICES ASSUME mem[a] # src.mem[a]
                 PROVE  FALSE
      OBVIOUS
    <2>1. a \in Places
      BY <1>2, <1>3, <1>5, PointerFacts DEF Extent, Places, StructTyped
    <2>2. PICK k \in 1 .. Len(log) : log[k].at = a
      BY <1>2, <1>3, <2>1 DEF SourceLogged, Places
    <2>3. PICK v \in Pointers(src) : a = v.ptr
      BY <1>1, <1>3, <2>2 DEF Points
    <2>4. v.ptr = w.ptr
      BY <1>2, <1>5, <2>3
    <2> QED
      BY <1>6, <2>2, <2>3, <2>4
  <1>8. Uncopied(mem, w)
    BY <1>1, <1>2, <1>3, <1>6, <1>7 DEF Uncopied, Points
  <1> QED
    BY <1>8 DEF w

\* Such an object is copied.
LEMMA StepPointer ==
    ASSUME LogInv, StructPointer, FitsInSize'
    PROVE  LogInv'
  <1> DEFINE w == mem[from]
  <1>1. /\ pc = "scan" /\ from < to /\ w.tag \in {"list", "boxed"}
        /\ CopyObject(mem, w) /\ from' = from + 1
        /\ way' = way /\ src' = src /\ pc' = pc /\ size' = size /\ to0' = to0 /\ ptr' = ptr
    BY DEF StructPointer, Scanning, given
  <1>2. from \in Int /\ from >= to0 /\ to0 \in Nat /\ ptr = 0
    BY <1>1, Scanned
  <1>3. StructTyped /\ SourceLogged
    BY DEF LogInv
  <1>4. CopyTurn(mem)
    BY <1>1, <1>2, <1>3 DEF CopyTurn, LogInv, Memory, StructTyped
  <1>5. Uncopied(mem, w)
    BY NotCopiedYet
  <1> HIDE DEF w
  <1>6. Behind(mem)
    <2>1. from' .. to - 1 \subseteq from .. to - 1
      BY <1>1, <1>2, <1>3 DEF StructTyped
    <2> QED
      BY <1>1, <2>1 DEF LogInv, Unscanned, Behind
  <1> QED
    BY <1>1, <1>4, <1>5, <1>6, CopyObjectKeeps

\* An entry of the log is worked off.
LEMMA StepRestore ==
    ASSUME LogInv, Restore
    PROVE  LogInv'
  <1> DEFINE e == log[ptr + 1]
  <1>1. /\ pc = "restore" /\ ptr < Len(log) /\ ptr' = ptr + 1
        /\ mem' = [mem EXCEPT ![e.at] = e.was]
        /\ UNCHANGED <<way, src, pc, size, to0, from, to, log>>
    BY DEF Restore, given
  <1>2. ptr \in Nat /\ Len(log) \in Nat /\ ptr + 1 \in 1 .. Len(log)
    BY <1>1 DEF LogInv, StructTyped
  <1>3. e.was = src.mem[e.at] /\ e.at \in Places
    BY <1>2 DEF LogInv, SourceLogged, Places
  <1> HIDE DEF e
  <1>4. Places' = Places /\ Entry' = Entry
    BY <1>1 DEF Places, Entry
  <1>5. DOMAIN mem' = DOMAIN mem /\ \A a : a # e.at => mem'[a] = mem[a]
    BY <1>1
  <1>6. e.at \in DOMAIN mem
    BY <1>1, <1>3 DEF LogInv, StructTyped, Memory, Places, WellFormed
  <1>7. mem'[e.at] = src.mem[e.at]
    BY <1>1, <1>3, <1>6
  <1>8. StructTyped'
    BY <1>1, <1>2, <1>4 DEF LogInv, StructTyped
  <1>9. Fresh' /\ Memory' /\ Unscanned' /\ Points' /\ Worked'
    BY <1>1, <1>5 DEF LogInv, Fresh, Memory, Unscanned, Points, Worked
  <1>10. SourceLogged'
    <2>1. ASSUME NEW a \in Places, mem'[a] # src.mem[a]
          PROVE  \E k \in ptr' + 1 .. Len(log) : log[k].at = a
      <3>1. a # e.at /\ mem[a] # src.mem[a]
        BY <1>5, <1>7, <2>1
      <3>2. PICK k \in ptr + 1 .. Len(log) : log[k].at = a
        BY <3>1 DEF LogInv, SourceLogged, Places
      <3>3. k # ptr + 1
        BY <3>1, <3>2 DEF e
      <3>4. k \in ptr + 1 + 1 .. Len(log)
        BY <1>2, <3>2, <3>3
      <3> QED
        BY <1>1, <3>2, <3>4
    <2> QED
      BY <1>1, <1>4, <2>1 DEF LogInv, SourceLogged, Places
  <1> QED
    BY <1>8, <1>9, <1>10 DEF LogInv

-----------------------------------------------------------------------------
\* The pointers among the words of a memory and a term in it
Ptrs(m, x) == {w \in Every(m, x) : IsPointer(w)}

\* What the pointers of R lead to is in R.
Shut(m, R) == \A w \in R : \A c \in Children(m, w) : IsPointer(c) => c \in R

\* The pointers w leads to: those in every such set that has w
Below(m, x, w) ==
    {v \in Ptrs(m, x) : \A R \in SUBSET Ptrs(m, x) : w \in R /\ Shut(m, R) => v \in R}

\* Pointers lead to words of the memory, and to pointers of a lower rank.
Ranked(m, x, rank) ==
    \A w \in Ptrs(m, x) :
        /\ rank[w] \in Nat
        /\ \A c \in Children(m, w) : c \in Every(m, x) /\ (IsPointer(c) => rank[c] < rank[w])

\* What Reach makes of w if f is what it makes of the words below w
ReachOf(m, w, f) == IF ~IsPointer(w) THEN {} ELSE {w} \cup UNION {f[c] : c \in Children(m, w)}

Reaches(m, x, f) == f = [w \in Every(m, x) |-> ReachOf(m, w, f)]

\* Below is such a set, and the least.
LEMMA BelowFacts ==
    ASSUME NEW m, NEW x, NEW rank, Ranked(m, x, rank), NEW w \in Ptrs(m, x)
    PROVE  /\ Below(m, x, w) \in SUBSET Ptrs(m, x) /\ w \in Below(m, x, w)
           /\ Shut(m, Below(m, x, w))
           /\ \A R \in SUBSET Ptrs(m, x) : w \in R /\ Shut(m, R) => Below(m, x, w) \subseteq R
  <1>1. Below(m, x, w) \in SUBSET Ptrs(m, x) /\ w \in Below(m, x, w)
    BY DEF Below
  <1>2. ASSUME NEW v \in Below(m, x, w), NEW c \in Children(m, v), IsPointer(c)
        PROVE  c \in Below(m, x, w)
    <2>1. c \in Ptrs(m, x)
      BY <1>2 DEF Below, Ranked, Ptrs
    <2>2. ASSUME NEW R \in SUBSET Ptrs(m, x), w \in R, Shut(m, R)
          PROVE  c \in R
      <3>1. v \in R
        BY <2>2 DEF Below
      <3> QED
        BY <1>2, <2>2, <3>1 DEF Shut
    <2> QED
      BY <2>1, <2>2 DEF Below
  <1>3. \A R \in SUBSET Ptrs(m, x) : w \in R /\ Shut(m, R) => Below(m, x, w) \subseteq R
    BY DEF Below
  <1> QED
    BY <1>1, <1>2, <1>3 DEF Shut

\* It satisfies the equation of Reach.
LEMMA BelowReaches ==
    ASSUME NEW m, NEW x, NEW rank, Ranked(m, x, rank), NEW f,
           f = [w \in Every(m, x) |-> IF IsPointer(w) THEN Below(m, x, w) ELSE {}]
    PROVE  Reaches(m, x, f)
  <1>1. ASSUME NEW u \in Ptrs(m, x), NEW R \in SUBSET Ptrs(m, x), u \in R, Shut(m, R)
        PROVE  Below(m, x, u) \subseteq R
    BY <1>1, BelowFacts
  <1>2. ASSUME NEW w \in Ptrs(m, x)
        PROVE  Below(m, x, w) = {w} \cup UNION {f[c] : c \in Children(m, w)}
    <2> DEFINE all == {w} \cup UNION {f[c] : c \in Children(m, w)}
    <2>1. \A c \in Children(m, w) : c \in Every(m, x)
      BY DEF Ranked
    <2>2. \A c \in Children(m, w) :
            /\ ~IsPointer(c) => f[c] = {}
            /\ IsPointer(c) => c \in Ptrs(m, x) /\ f[c] = Below(m, x, c)
      BY <2>1 DEF Ptrs
    <2>3. ASSUME NEW c \in Children(m, w)
          PROVE  f[c] \subseteq Below(m, x, w)
      <3>1. CASE ~IsPointer(c)
        BY <2>2, <3>1
      <3>2. CASE IsPointer(c)
        <4>1. c \in Below(m, x, w) /\ Shut(m, Below(m, x, w)) /\ Below(m, x, w) \in SUBSET Ptrs(m, x)
          BY <3>2, BelowFacts DEF Shut
        <4>2. c \in Ptrs(m, x) /\ f[c] = Below(m, x, c)
          BY <2>2, <3>2
        <4>3. Below(m, x, c) \subseteq Below(m, x, w)
          BY <1>1, <4>1, <4>2
        <4> QED
          BY <4>2, <4>3
      <3> QED
        BY <3>1, <3>2
    <2>4. all \subseteq Below(m, x, w)
      BY <2>3, BelowFacts
    <2>5. all \in SUBSET Ptrs(m, x)
      BY <2>4, BelowFacts
    <2>6. ASSUME NEW v \in all, NEW c \in Children(m, v), IsPointer(c)
          PROVE  c \in all
      <3>1. CASE v = w
        <4>1. c \in Children(m, w)
          BY <2>6, <3>1
        <4>2. c \in f[c]
          BY <2>2, <2>6, <4>1, BelowFacts
        <4> QED
          BY <4>1, <4>2
      <3>2. CASE v # w
        <4>1. PICK b \in Children(m, w) : v \in f[b]
          BY <3>2
        <4>2. b \in Ptrs(m, x) /\ f[b] = Below(m, x, b)
          BY <2>2, <4>1
        <4>3. c \in f[b]
          BY <2>6, <4>1, <4>2, BelowFacts DEF Shut
        <4> QED
          BY <4>1, <4>3
      <3> QED
        BY <3>1, <3>2
    <2>7. Shut(m, all)
      BY <2>6 DEF Shut
    <2>8. Below(m, x, w) \subseteq all
      <3>1. w \in all
        OBVIOUS
      <3> HIDE DEF all
      <3> QED
        BY <1>1, <2>5, <2>7, <3>1
    <2> QED
      BY <2>4, <2>8
  <1>3. ASSUME NEW w \in Every(m, x)
        PROVE  f[w] = ReachOf(m, w, f)
    BY <1>2 DEF ReachOf, Ptrs
  <1>4. f = [w \in Every(m, x) |-> ReachOf(m, w, f)]
    BY <1>3
  <1> QED
    BY <1>4 DEF Reaches

\* It is the only one that does, as pointers do not lead in circles.
LEMMA ReachesBelow ==
    ASSUME NEW m, NEW x, NEW rank, Ranked(m, x, rank), NEW f, Reaches(m, x, f),
           NEW h, Reaches(m, x, h), NEW w \in Ptrs(m, x)
    PROVE  f[w] = h[w]
  <1> DEFINE bad == {rank[v] : v \in {u \in Ptrs(m, x) : f[u] # h[u]}}
  <1>1. bad = {}
    <2> SUFFICES ASSUME bad # {}
                 PROVE  FALSE
      OBVIOUS
    <2>1. bad \in SUBSET Nat
      BY DEF Ranked
    <2>2. PICK d \in bad : \A y \in bad : ~(y < d)
      <3> HIDE DEF bad
      <3> QED
        BY <2>1, LeastNat
    <2>3. PICK v \in Ptrs(m, x) : d = rank[v] /\ f[v] # h[v]
      BY <2>2
    <2>4. v \in Every(m, x) /\ IsPointer(v)
      BY DEF Ptrs
    <2>5. ASSUME NEW c \in Children(m, v)
          PROVE  f[c] = h[c]
      <3>1. c \in Every(m, x) /\ (IsPointer(c) => rank[c] < d)
        BY <2>3 DEF Ranked
      <3>2. CASE ~IsPointer(c)
        BY <3>1, <3>2 DEF Reaches, ReachOf
      <3>3. CASE IsPointer(c)
        <4>1. c \in Ptrs(m, x) /\ rank[c] \notin bad
          BY <2>2, <3>1, <3>3 DEF Ptrs
        <4> QED
          BY <4>1
      <3> QED
        BY <3>2, <3>3
    <2>6. f[v] = ReachOf(m, v, f) /\ h[v] = ReachOf(m, v, h)
      BY <2>4 DEF Reaches
    <2>7. ReachOf(m, v, f) = ReachOf(m, v, h)
      <3>1. {f[c] : c \in Children(m, v)} = {h[c] : c \in Children(m, v)}
        BY <2>5
      <3> QED
        BY <2>4, <3>1 DEF ReachOf
    <2> QED
      BY <2>3, <2>6, <2>7
  <1> QED
    BY <1>1

\* So it is what Reach answers.
LEMMA ReachIsBelow ==
    ASSUME NEW m, NEW x, NEW rank, Ranked(m, x, rank), IsPointer(x)
    PROVE  x \in Ptrs(m, x) /\ Reach(m, x) = Below(m, x, x)
  <1>1. x \in Every(m, x) /\ x \in Ptrs(m, x)
    BY DEF Every, Ptrs
  <1> DEFINE h == [w \in Every(m, x) |-> IF IsPointer(w) THEN Below(m, x, w) ELSE {}]
             f == CHOOSE g : Reaches(m, x, g)
  <1>2. Reaches(m, x, h)
    BY BelowReaches
  <1>3. Reach(m, x) = f[x]
    BY DEF Reach, Reaches, ReachOf
  <1>4. h[x] = Below(m, x, x)
    BY <1>1
  <1> HIDE DEF h
  <1>5. Reaches(m, x, f)
    BY <1>2
  <1> HIDE DEF f
  <1> QED
    BY <1>1, <1>2, <1>3, <1>4, <1>5, ReachesBelow

-----------------------------------------------------------------------------
\* The words of the object at w, and those of the objects of z
Span(m, w) == w.ptr .. w.ptr + Words(m, w) - 1

WordsOf(m, z) == UNION {Span(m, w) : w \in z}

\* The element that the fold over a set takes next
Any(z) == CHOOSE x \in z : TRUE

\* The sum that SharedSize is, as a function
WordSums(m, R, f) ==
    f = [z \in SUBSET R |-> IF z = {} THEN 0 ELSE Words(m, Any(z)) + f[z \ {Any(z)}]]

\* SharedSize is the value of one for all objects.
LEMMA SharedSums ==
    ASSUME NEW m, NEW x
    PROVE  SharedSize(m, x) = (CHOOSE f : WordSums(m, Reach(m, x), f))[Reach(m, x)]
  BY DEF SharedSize, MapThenSumSet, MapThenFoldSet, WordSums, Any

\* The objects of R lie in the memory and share no words.
Apart(m, R) ==
    /\ IsFiniteSet(DOMAIN m) /\ IsFiniteSet(R)
    /\ \A w \in R : w.ptr \in Nat /\ Words(m, w) \in Nat /\ Span(m, w) \subseteq DOMAIN m
    /\ \A v, w \in R : Span(m, v) \cap Span(m, w) # {} => v = w

\* One object more has its words more.
LEMMA OneMore ==
    ASSUME NEW m, NEW R, Apart(m, R), NEW z \in SUBSET R, NEW w \in z
    PROVE  Cardinality(WordsOf(m, z)) = Words(m, w) + Cardinality(WordsOf(m, z \ {w}))
  <1>1. PICK p \in Nat, n \in Nat : p = w.ptr /\ n = Words(m, w)
    BY DEF Apart
  <1>2. Cardinality(Span(m, w)) = Words(m, w)
    <2>1. p \in Int /\ p + n - 1 \in Int
      OBVIOUS
    <2>2. Cardinality(p .. p + n - 1) = IF p > p + n - 1 THEN 0 ELSE (p + n - 1) - p + 1
      BY <2>1, FS_Interval
    <2>3. Cardinality(p .. p + n - 1) = n
      BY <2>2
    <2> QED
      BY <1>1, <2>3 DEF Span
  <1>3. Span(m, w) \in SUBSET DOMAIN m /\ WordsOf(m, z \ {w}) \in SUBSET DOMAIN m
    BY DEF Apart, WordsOf
  <1>4. IsFiniteSet(Span(m, w)) /\ IsFiniteSet(WordsOf(m, z \ {w}))
    BY <1>3, FS_Subset DEF Apart
  <1>5. WordsOf(m, z) = Span(m, w) \cup WordsOf(m, z \ {w})
    BY DEF WordsOf
  <1>6. Span(m, w) \cap WordsOf(m, z \ {w}) = {}
    BY DEF Apart, WordsOf
  <1>7. Cardinality(Span(m, w) \cup WordsOf(m, z \ {w}))
        = Cardinality(Span(m, w)) + Cardinality(WordsOf(m, z \ {w})) - 0
    <2> DEFINE S == Span(m, w)
               T == WordsOf(m, z \ {w})
    <2>1. IsFiniteSet(S) /\ IsFiniteSet(T) /\ S \cap T = {}
      BY <1>4, <1>6
    <2> HIDE DEF S, T
    <2>2. Cardinality(S \cup T) = Cardinality(S) + Cardinality(T) - Cardinality(S \cap T)
      BY <2>1, FS_Union
    <2>3. Cardinality(S \cap T) = 0
      BY <2>1, FS_EmptySet
    <2>4. Cardinality(S \cup T) = Cardinality(S) + Cardinality(T) - 0
      BY <2>2, <2>3
    <2> QED
      BY <2>4 DEF S, T
  <1>8. PICK k \in Nat : k = Cardinality(WordsOf(m, z \ {w}))
    BY <1>4, FS_CardinalityType
  <1> QED
    BY <1>1, <1>2, <1>5, <1>7, <1>8

\* So the sum of the words of the objects is the number of the words.
LEMMA SumsAreWords ==
    ASSUME NEW m, NEW R, Apart(m, R), NEW f, WordSums(m, R, f), NEW z \in SUBSET R
    PROVE  f[z] = Cardinality(WordsOf(m, z))
  <1>1. \A y \in SUBSET R : IsFiniteSet(y) /\ Cardinality(y) \in Nat
    BY FS_Subset, FS_CardinalityType DEF Apart
  <1> DEFINE bad == {Cardinality(y) : y \in {x \in SUBSET R : f[x] # Cardinality(WordsOf(m, x))}}
  <1>2. bad = {}
    <2> SUFFICES ASSUME bad # {}
                 PROVE  FALSE
      OBVIOUS
    <2>1. bad \in SUBSET Nat
      BY <1>1
    <2>2. PICK d \in bad : \A x \in bad : ~(x < d)
      <3> HIDE DEF bad
      <3> QED
        BY <2>1, LeastNat
    <2>3. PICK y \in SUBSET R : d = Cardinality(y) /\ f[y] # Cardinality(WordsOf(m, y))
      BY <2>2
    <2>4. CASE y = {}
      <3>1. f[y] = 0
        BY <2>4 DEF WordSums
      <3>2. WordsOf(m, y) = {}
        BY <2>4 DEF WordsOf
      <3> QED
        BY <2>3, <3>1, <3>2, FS_EmptySet
    <2>5. CASE y # {}
      <3>1. Any(y) \in y
        BY <2>5 DEF Any
      <3> DEFINE less == y \ {Any(y)}
      <3>2. less \in SUBSET R /\ Cardinality(less) = Cardinality(y) - 1
        BY <1>1, <3>1, FS_RemoveElement
      <3>3. Cardinality(less) < d
        BY <1>1, <2>3, <3>2
      <3>4. f[less] = Cardinality(WordsOf(m, less))
        BY <2>2, <3>2, <3>3
      <3>5. f[y] = Words(m, Any(y)) + f[less]
        BY <2>5 DEF WordSums
      <3> QED
        BY <2>3, <3>1, <3>4, <3>5, OneMore
    <2> QED
      BY <2>4, <2>5
  <1> QED
    BY <1>2

\* The words of the objects the term leads to
LEMMA SharedCount ==
    ASSUME NEW m, NEW x, Apart(m, Reach(m, x))
    PROVE  SharedSize(m, x) = Cardinality(WordsOf(m, Reach(m, x)))
  <1> DEFINE R == Reach(m, x)
             h == [z \in SUBSET R |-> Cardinality(WordsOf(m, z))]
             f == CHOOSE g : WordSums(m, R, g)
  <1>1. SharedSize(m, x) = f[R]
    BY SharedSums
  <1> HIDE DEF R
  <1>2. Apart(m, R)
    BY DEF R
  <1>3. ASSUME NEW z \in SUBSET R
        PROVE  h[z] = IF z = {} THEN 0 ELSE Words(m, Any(z)) + h[z \ {Any(z)}]
    <2>1. CASE z = {}
      <3>1. WordsOf(m, z) = {}
        BY <2>1 DEF WordsOf
      <3> QED
        BY <2>1, <3>1, FS_EmptySet
    <2>2. CASE z # {}
      <3>1. Any(z) \in z
        BY <2>2 DEF Any
      <3> QED
        BY <1>2, <2>2, <3>1, OneMore
    <2> QED
      BY <2>1, <2>2
  <1>4. WordSums(m, R, h)
    <2>1. h = [z \in SUBSET R |-> IF z = {} THEN 0 ELSE Words(m, Any(z)) + h[z \ {Any(z)}]]
      BY <1>3
    <2> HIDE DEF h
    <2> QED
      BY <2>1 DEF WordSums
  <1> HIDE DEF h
  <1>5. WordSums(m, R, f)
    BY <1>4
  <1> HIDE DEF f
  <1>6. f[R] = Cardinality(WordsOf(m, R))
    BY <1>2, <1>5, SumsAreWords
  <1> QED
    BY <1>1, <1>6 DEF R

-----------------------------------------------------------------------------
\* The objects that s.term leads to
Led(s) == Below(s.mem, s.term, s.term)

\* The fields of an object are words of it.
LEMMA FieldsInside ==
    ASSUME NEW s, WellFormed(s), NEW w \in Pointers(s)
    PROVE  Fields(s.mem, w) \subseteq 0 .. Words(s.mem, w) - 1
  <1>1. PICK last \in Nat : /\ DOMAIN s.mem = 1 .. last
                           /\ w \in [tag : {"list", "boxed"}, ptr : 1 .. last]
                           /\ Words(s.mem, w) \in Nat \ {0}
                           /\ \A a \in 1 .. last : s.mem[a].tag = "header" =>
                                s.mem[a].arity \in Nat /\ s.mem[a].kind \in {"data", "tuple", "map", "sub_bin"}
    BY PointerFacts DEF WellFormed
  <1>2. CASE w.tag = "list"
    BY <1>2 DEF Fields, Words
  <1>3. CASE w.tag = "boxed"
    <2>1. s.mem[w.ptr + 0].tag \in {"header"}
      <3>1. 0 \in 0 .. Words(s.mem, w) - 1
        BY <1>1
      <3> QED
        BY <1>3, <3>1 DEF WellFormed, Whole
    <2>2. w.ptr \in 1 .. last /\ w.ptr + 0 = w.ptr
      BY <1>1
    <2>3. s.mem[w.ptr].arity \in Nat /\ s.mem[w.ptr].kind \in {"data", "tuple", "map", "sub_bin"}
      BY <1>1, <2>1, <2>2
    <2>4. PICK n \in Nat : n = s.mem[w.ptr].arity
      BY <2>3
    <2>5. Words(s.mem, w) = n + 1 /\ Fields(s.mem, w) = BoxedFields(s.mem[w.ptr])
      BY <1>3, <2>4 DEF Words, Fields
    <2>6. BoxedFields(s.mem[w.ptr]) \in {1 .. n, 2 .. n, {n}, {}}
      BY <2>3, <2>4 DEF BoxedFields
    <2>7. \A F \in {1 .. n, 2 .. n, {n}, {}} : F \subseteq 0 .. (n + 1) - 1
      OBVIOUS
    <2> QED
      BY <2>5, <2>6, <2>7
  <1> QED
    BY <1>1, <1>2, <1>3

\* The children of an object of the source
LEMMA SourceChildren ==
    ASSUME NEW s, WellFormed(s), NEW w \in Pointers(s), NEW c \in Children(s.mem, w)
    PROVE  /\ c \in Every(s.mem, s.term) /\ (IsPointer(c) => c \in Pointers(s))
           /\ \E i \in 0 .. Words(s.mem, w) - 1 : i \in Fields(s.mem, w) /\ c = s.mem[w.ptr + i]
  <1>1. PICK i \in Fields(s.mem, w) : c = s.mem[w.ptr + i]
    BY DEF Children
  <1>2. i \in 0 .. Words(s.mem, w) - 1
    BY FieldsInside
  <1> QED
    BY <1>1, <1>2, ObjectWords DEF Pointers

\* A source's pointers are ranked, by their depth.
LEMMA SourceRanked ==
    ASSUME NEW s, WellFormed(s), NEW depth, Depths(s, depth)
    PROVE  Ranked(s.mem, s.term, depth) /\ Ptrs(s.mem, s.term) = Pointers(s)
  <1>1. Ptrs(s.mem, s.term) = Pointers(s)
    BY DEF Ptrs, Pointers
  <1>2. ASSUME NEW w \in Pointers(s), NEW c \in Children(s.mem, w)
        PROVE  c \in Every(s.mem, s.term) /\ (IsPointer(c) => depth[c] < depth[w])
    <2>1. PICK i \in 0 .. Words(s.mem, w) - 1 : i \in Fields(s.mem, w) /\ c = s.mem[w.ptr + i]
      BY SourceChildren
    <2>2. c \in Every(s.mem, s.term)
      BY SourceChildren
    <2> QED
      BY <2>1, <2>2 DEF Depths
  <1>3. \A w \in Pointers(s) : depth[w] \in Nat
    BY DEF Depths
  <1> QED
    BY <1>1, <1>2, <1>3 DEF Ranked

\* The objects s.term leads to
LEMMA LedFacts ==
    ASSUME NEW s, WellFormed(s), s.term \in Pointers(s)
    PROVE  /\ Reach(s.mem, s.term) = Led(s) /\ Led(s) \in SUBSET Pointers(s)
           /\ s.term \in Led(s) /\ Shut(s.mem, Led(s))
           /\ \A R \in SUBSET Pointers(s) : s.term \in R /\ Shut(s.mem, R) => Led(s) \subseteq R
  <1>1. PICK depth : Depths(s, depth)
    BY DepthsExist
  <1>2. Ranked(s.mem, s.term, depth) /\ Ptrs(s.mem, s.term) = Pointers(s)
    BY <1>1, SourceRanked
  <1>3. IsPointer(s.term)
    BY DEF Pointers
  <1>4. Reach(s.mem, s.term) = Led(s)
    BY <1>2, <1>3, ReachIsBelow DEF Led
  <1>5. ASSUME NEW R \in SUBSET Pointers(s), s.term \in R, Shut(s.mem, R)
        PROVE  Led(s) \subseteq R
    BY <1>2, <1>5, BelowFacts DEF Led
  <1>6. /\ Led(s) \in SUBSET Pointers(s) /\ s.term \in Led(s) /\ Shut(s.mem, Led(s))
    BY <1>2, BelowFacts DEF Led
  <1> QED
    BY <1>4, <1>5, <1>6

\* No two objects of the source share a word.
LEMMA SourceApart ==
    ASSUME NEW s, WellFormed(s), NEW v \in Pointers(s), NEW w \in Pointers(s),
           NEW i \in 0 .. Words(s.mem, v) - 1, NEW j \in 0 .. Words(s.mem, w) - 1,
           v.ptr + i = w.ptr + j
    PROVE  v = w /\ i = j
  <1>1. PICK p \in Nat, n \in Nat, q \in Nat, l \in Nat :
          /\ p = v.ptr /\ n = Words(s.mem, v) /\ q = w.ptr /\ l = Words(s.mem, w)
    <2>1. PICK last \in Nat : v.ptr \in 1 .. last /\ w.ptr \in 1 .. last
      BY PointerFacts
    <2> QED
      BY <2>1, PointerFacts
  <1>2. p \in q .. q + l - 1 \/ q \in p .. p + n - 1
    BY <1>1
  <1>3. v.ptr = w.ptr /\ v.tag = w.tag
    BY <1>1, <1>2 DEF WellFormed, Extent
  <1>4. v = w
    BY <1>3, MovedFacts
  <1> QED
    BY <1>1, <1>4

\* While the loop scans: ws are the objects copied, the pointers in their first words
\* lead to copies that cover the words of the copy; and what is still to be scanned
\* leads to objects of the term, as do those copied.
CopiedOnce(s, m, t, a, b, ws) ==
    /\ \A x \in t .. b - 1 : \E v \in ws : \E i \in 0 .. Words(s.mem, v) - 1 : x = m[v.ptr].ptr + i
    /\ \A x \in a .. b - 1 : IsPointer(m[x]) => m[x] \in Led(s)
    /\ ws \in SUBSET Led(s)

\* The objects of ws are in all, and w, which is copied to b.
Adds(m, k, ws, w, b, all) ==
    /\ \A v \in ws : v \in all /\ k[v.ptr] = m[v.ptr]
    /\ w \in all /\ k[w.ptr] = Moved(w, b)
    /\ \A v \in all : v \in ws \/ v = w

\* The loop goes on, and leaves the words it will scan.
LEMMA OnceScans ==
    ASSUME NEW s, NEW m, NEW k, NEW t, NEW a \in Nat, NEW b \in Nat, NEW c \in Nat, a <= c, NEW ws,
           CopiedOnce(s, m, t, a, b, ws), \A x \in c .. b - 1 : k[x] = m[x],
           \A v \in ws : k[v.ptr] = m[v.ptr]
    PROVE  CopiedOnce(s, k, t, c, b, ws)
  <1>1. \A x \in c .. b - 1 : x \in a .. b - 1
    OBVIOUS
  <1> QED
    BY <1>1 DEF CopiedOnce

\* The words of an object that are pointers lead to objects of the term.
LEMMA LedWords ==
    ASSUME NEW s, WellFormed(s), s.term \in Pointers(s), NEW w \in Led(s),
           NEW i \in 0 .. Words(s.mem, w) - 1, IsPointer(s.mem[w.ptr + i])
    PROVE  s.mem[w.ptr + i] \in Led(s)
  <1>1. w \in Pointers(s) /\ Shut(s.mem, Led(s))
    BY LedFacts
  <1>2. i \in Fields(s.mem, w)
    BY <1>1, ObjectWords
  <1>3. s.mem[w.ptr + i] \in Children(s.mem, w)
    BY <1>2 DEF Children
  <1> QED
    BY <1>1, <1>3 DEF Shut

\* An object is appended: what is scanned next are its words too.
LEMMA OnceAppend ==
    ASSUME NEW s, WellFormed(s), s.term \in Pointers(s), NEW m, NEW k, NEW t \in Nat,
           NEW a \in Nat, NEW b \in Nat, NEW c \in Nat, a <= c, t <= b, NEW ws, NEW all,
           CopiedOnce(s, m, t, a, b, ws), NEW w \in Led(s), NEW len \in Nat,
           Extended(s, m, k, c, b, w, len), Adds(m, k, ws, w, b, all)
    PROVE  CopiedOnce(s, k, t, c, b + len, all)
  <1>1. /\ len = Words(s.mem, w) /\ \A x \in c .. b - 1 : k[x] = m[x]
        /\ \A i \in 0 .. len - 1 : k[b + i] = s.mem[w.ptr + i]
    BY DEF Extended
  <1>2. ASSUME NEW x \in t .. b + len - 1
        PROVE  \E v \in all : \E i \in 0 .. Words(s.mem, v) - 1 : x = k[v.ptr].ptr + i
    <2>1. CASE x < b
      <3>1. x \in t .. b - 1
        BY <2>1
      <3>2. PICK v \in ws : \E i \in 0 .. Words(s.mem, v) - 1 : x = m[v.ptr].ptr + i
        BY <3>1 DEF CopiedOnce
      <3> QED
        BY <3>2 DEF Adds
    <2>2. CASE ~(x < b)
      <3>1. x - b \in 0 .. len - 1 /\ x = b + (x - b)
        BY <2>2
      <3>2. w \in Pointers(s)
        BY LedFacts
      <3>3. k[w.ptr].ptr = b /\ w \in all
        BY <3>2, MovedFacts DEF Adds
      <3> QED
        BY <1>1, <3>1, <3>3
    <2> QED
      BY <2>1, <2>2
  <1>3. ASSUME NEW x \in c .. b + len - 1, IsPointer(k[x])
        PROVE  k[x] \in Led(s)
    <2>1. CASE x < b
      <3>1. x \in a .. b - 1 /\ x \in c .. b - 1
        BY <2>1
      <3> QED
        BY <1>1, <1>3, <3>1 DEF CopiedOnce
    <2>2. CASE ~(x < b)
      <3>1. PICK i \in 0 .. len - 1 : x = b + i
        <4>1. x - b \in 0 .. len - 1 /\ x = b + (x - b)
          BY <2>2
        <4> QED
          BY <4>1
      <3>2. k[x] = s.mem[w.ptr + i]
        BY <1>1, <3>1
      <3> QED
        BY <1>1, <1>3, <3>2, LedWords
    <2> QED
      BY <2>1, <2>2
  <1>4. all \in SUBSET Led(s)
    BY DEF Adds, CopiedOnce
  <1> QED
    BY <1>2, <1>3, <1>4 DEF CopiedOnce

\* Every word of an object the term leads to was copied to one place, and nothing else.
TracedOnce(s, m, org, t, e) ==
    /\ Traced(s, m, org, t, e, e, {})
    /\ \A x \in t .. e - 1 : \E v \in Led(s) : \E i \in 0 .. Words(s.mem, v) - 1 : org[x] = v.ptr + i
    /\ \A x, y \in t .. e - 1 : org[x] = org[y] => x = y
    /\ \A v \in Led(s) : \E q \in Nat : CopyAt(s, org, v, q, t, e)

TracksOnce(s, m, t, e) == \E org : TracedOnce(s, m, org, t, e)

\* That is so when the loop is through.
LEMMA OnceEnds ==
    ASSUME NEW s, WellFormed(s), s.term \in Pointers(s), NEW m, NEW t \in Nat, NEW e \in Nat,
           NEW ws, Tracks(s, m, t, e, e, ws), CopiedOnce(s, m, t, e, e, ws)
    PROVE  TracksOnce(s, m, t, e)
  <1>1. PICK org : Traced(s, m, org, t, e, e, ws)
    BY DEF Tracks
  <1>2. ws \in SUBSET Led(s) /\ Led(s) \in SUBSET Pointers(s)
    BY LedFacts DEF CopiedOnce
  <1>3. ASSUME NEW v \in ws
        PROVE  \E q \in Nat : m[v.ptr].ptr = q /\ CopyAt(s, org, v, q, t, e)
    <2>1. v \in Pointers(s) /\ Image(s, org, m[v.ptr], v, t, e)
      BY <1>1, <1>2 DEF Traced
    <2>2. PICK q \in Nat : m[v.ptr] = Moved(v, q) /\ CopyAt(s, org, v, q, t, e)
      BY <2>1 DEF Image, Pointers
    <2> QED
      BY <2>1, <2>2, MovedFacts
  <1>4. ASSUME NEW x \in t .. e - 1
        PROVE  \E v \in ws : \E i \in 0 .. Words(s.mem, v) - 1 :
                 x = m[v.ptr].ptr + i /\ org[x] = v.ptr + i
    <2>1. PICK v \in ws : \E i \in 0 .. Words(s.mem, v) - 1 : x = m[v.ptr].ptr + i
      BY DEF CopiedOnce
    <2>2. PICK i \in 0 .. Words(s.mem, v) - 1 : x = m[v.ptr].ptr + i
      BY <2>1
    <2> QED
      BY <1>3, <2>2 DEF CopyAt
  <1>5. ASSUME NEW x \in t .. e - 1, NEW y \in t .. e - 1, org[x] = org[y]
        PROVE  x = y
    <2>1. PICK v \in ws : \E i \in 0 .. Words(s.mem, v) - 1 : x = m[v.ptr].ptr + i /\ org[x] = v.ptr + i
      BY <1>4
    <2>2. PICK i \in 0 .. Words(s.mem, v) - 1 : x = m[v.ptr].ptr + i /\ org[x] = v.ptr + i
      BY <2>1
    <2>3. PICK u \in ws : \E j \in 0 .. Words(s.mem, u) - 1 : y = m[u.ptr].ptr + j /\ org[y] = u.ptr + j
      BY <1>4
    <2>4. PICK j \in 0 .. Words(s.mem, u) - 1 : y = m[u.ptr].ptr + j /\ org[y] = u.ptr + j
      BY <2>3
    <2>5. v = u /\ i = j
      BY <1>2, <1>5, <2>2, <2>4, SourceApart
    <2> QED
      BY <2>2, <2>4, <2>5
  \* An object whose first word was copied is in ws.
  <1>6. ASSUME NEW c \in Pointers(s), NEW q \in Nat, CopyAt(s, org, c, q, t, e)
        PROVE  c \in ws
    <2>1. 0 \in 0 .. Words(s.mem, c) - 1 /\ q + 0 = q /\ q \in t .. e - 1 /\ org[q] = c.ptr + 0
      <3>1. 0 \in 0 .. Words(s.mem, c) - 1 /\ q + 0 = q
        BY PointerFacts
      <3> QED
        BY <1>6, <3>1 DEF CopyAt
    <2>2. PICK v \in ws : \E i \in 0 .. Words(s.mem, v) - 1 : org[q] = v.ptr + i
      BY <1>4, <2>1
    <2>3. v = c
      BY <1>2, <2>1, <2>2, SourceApart
    <2> QED
      BY <2>3
  <1>7. s.term \in ws
    BY <1>1, <1>6 DEF Traced
  <1>8. ASSUME NEW v \in ws, NEW c \in Children(s.mem, v), IsPointer(c)
        PROVE  c \in ws
    <2>1. PICK i \in 0 .. Words(s.mem, v) - 1 : c = s.mem[v.ptr + i]
      BY <1>2, SourceChildren
    <2>2. PICK q \in Nat : CopyAt(s, org, v, q, t, e)
      BY <1>3
    <2>3. q + i \in t .. e - 1 /\ org[q + i] = v.ptr + i
      BY <2>2 DEF CopyAt
    <2>4. Image(s, org, m[q + i], c, t, e)
      BY <1>1, <2>1, <2>3 DEF Traced
    <2>5. PICK p \in Nat : CopyAt(s, org, c, p, t, e)
      BY <1>8, <2>4 DEF Image
    <2>6. c \in Pointers(s)
      BY <1>2, <1>8, SourceChildren
    <2> QED
      BY <1>6, <2>5, <2>6
  <1>9. Led(s) \subseteq ws
    <2>1. ws \in SUBSET Pointers(s) /\ Shut(s.mem, ws)
      BY <1>2, <1>8 DEF Shut
    <2> QED
      BY <1>7, <2>1, LedFacts
  <1>10. Traced(s, m, org, t, e, e, {})
    BY <1>1 DEF Traced
  <1>11. TracedOnce(s, m, org, t, e)
    BY <1>2, <1>3, <1>4, <1>5, <1>9, <1>10 DEF TracedOnce
  <1> QED
    BY <1>11 DEF TracksOnce

\* It stays so while the words of the copy stay.
LEMMA OnceSame ==
    ASSUME NEW s, NEW m, NEW k, NEW t \in Nat, NEW e \in Nat, TracksOnce(s, m, t, e),
           \A x \in t .. e - 1 : k[x] = m[x]
    PROVE  TracksOnce(s, k, t, e)
  <1>1. PICK org : TracedOnce(s, m, org, t, e)
    BY DEF TracksOnce
  <1>2. \A x \in e .. e - 1 : FALSE
    OBVIOUS
  <1>3. Traced(s, k, org, t, e, e, {})
    BY <1>1, <1>2 DEF TracedOnce, Traced
  <1>4. TracedOnce(s, k, org, t, e)
    BY <1>1, <1>3 DEF TracedOnce
  <1> QED
    BY <1>4 DEF TracksOnce

-----------------------------------------------------------------------------
\* The words of an object, counted from its first
LEMMA SpanWords ==
    ASSUME NEW m, NEW w, w.ptr \in Nat, Words(m, w) \in Nat, NEW y
    PROVE  y \in Span(m, w) <=> \E i \in 0 .. Words(m, w) - 1 : y = w.ptr + i
  <1>1. PICK p \in Nat, n \in Nat : p = w.ptr /\ n = Words(m, w)
    OBVIOUS
  <1>2. ASSUME y \in p .. p + n - 1
        PROVE  \E i \in 0 .. n - 1 : y = p + i
    <2>1. y - p \in 0 .. n - 1 /\ y = p + (y - p)
      BY <1>2
    <2> QED
      BY <2>1
  <1>3. \A i \in 0 .. n - 1 : p + i \in p .. p + n - 1
    OBVIOUS
  <1> QED
    BY <1>1, <1>2, <1>3 DEF Span

\* The objects of a source lie apart.
LEMMA LedApart ==
    ASSUME NEW s, WellFormed(s), s.term \in Pointers(s)
    PROVE  Apart(s.mem, Led(s))
  <1>1. Led(s) \in SUBSET Pointers(s)
    BY LedFacts
  <1>2. PICK last \in Nat : DOMAIN s.mem = 1 .. last
    BY DEF WellFormed
  <1>3. IsFiniteSet(DOMAIN s.mem) /\ IsFiniteSet(Led(s))
    <2>1. IsFiniteSet(Every(s.mem, s.term)) /\ IsFiniteSet(DOMAIN s.mem)
      BY <1>2, EveryFinite
    <2>2. Led(s) \in SUBSET Every(s.mem, s.term)
      BY <1>1 DEF Pointers
    <2> QED
      BY <2>1, <2>2, FS_Subset
  <1>4. ASSUME NEW w \in Pointers(s)
        PROVE  w.ptr \in Nat /\ Words(s.mem, w) \in Nat
    <2>1. PICK l \in Nat : w.ptr \in 1 .. l /\ Words(s.mem, w) \in Nat
      BY PointerFacts
    <2> QED
      BY <2>1
  <1>5. ASSUME NEW w \in Pointers(s)
        PROVE  Span(s.mem, w) \subseteq DOMAIN s.mem
    BY <1>4, SpanWords, ObjectWords
  <1>6. ASSUME NEW v \in Pointers(s), NEW w \in Pointers(s), NEW x \in Span(s.mem, v), x \in Span(s.mem, w)
        PROVE  v = w
    <2>1. PICK i \in 0 .. Words(s.mem, v) - 1 : x = v.ptr + i
      BY <1>4, SpanWords
    <2>2. PICK j \in 0 .. Words(s.mem, w) - 1 : x = w.ptr + j
      BY <1>4, <1>6, SpanWords
    <2> QED
      BY <2>1, <2>2, SourceApart
  <1> QED
    BY <1>1, <1>3, <1>4, <1>5, <1>6 DEF Apart

\* As many words were copied as the objects of the term have, each counted once.
LEMMA OnceSource ==
    ASSUME NEW s, WellFormed(s), s.term \in Pointers(s), NEW m, NEW t \in Nat, NEW e \in Nat,
           t <= e, NEW org, TracedOnce(s, m, org, t, e)
    PROVE  SharedSize(s.mem, s.term) = e - t
  <1>1. Apart(s.mem, Led(s)) /\ Reach(s.mem, s.term) = Led(s)
    BY LedApart, LedFacts
  <1>2. SharedSize(s.mem, s.term) = Cardinality(WordsOf(s.mem, Led(s)))
    BY <1>1, SharedCount
  <1> DEFINE S == t .. e - 1
             W == WordsOf(s.mem, Led(s))
             f == [x \in S |-> org[x]]
  <1>3. ASSUME NEW x \in S
        PROVE  org[x] \in W
    <2>1. PICK v \in Led(s) : \E i \in 0 .. Words(s.mem, v) - 1 : org[x] = v.ptr + i
      BY DEF TracedOnce
    <2>2. org[x] \in Span(s.mem, v)
      BY <1>1, <2>1, SpanWords DEF Apart
    <2> QED
      BY <2>2 DEF WordsOf
  <1>4. ASSUME NEW y \in W
        PROVE  \E x \in S : org[x] = y
    <2>1. PICK v \in Led(s) : y \in Span(s.mem, v)
      BY DEF WordsOf
    <2>2. PICK i \in 0 .. Words(s.mem, v) - 1 : y = v.ptr + i
      BY <1>1, <2>1, SpanWords DEF Apart
    <2>3. PICK q \in Nat : CopyAt(s, org, v, q, t, e)
      BY DEF TracedOnce
    <2> QED
      BY <2>2, <2>3 DEF CopyAt
  <1>5. \A x, y \in S : org[x] = org[y] => x = y
    BY DEF TracedOnce
  <1> HIDE DEF W, S
  <1>6. f \in Bijection(S, W)
    <2>1. f \in [S -> W] /\ \A x \in S : f[x] = org[x]
      BY <1>3
    <2> HIDE DEF f
    <2>2. \A x, y \in S : f[x] = f[y] => x = y
      BY <1>5, <2>1
    <2>3. \A y \in W : \E x \in S : f[x] = y
      BY <1>4, <2>1
    <2> QED
      BY <2>1, <2>2, <2>3, Zenon DEF Bijection, Injection, Surjection, IsInjective
  <1>7. IsFiniteSet(S) /\ Cardinality(S) = e - t
    <2>1. t \in Int /\ e - 1 \in Int
      OBVIOUS
    <2>2. IsFiniteSet(t .. e - 1) /\ Cardinality(t .. e - 1) = IF t > e - 1 THEN 0 ELSE (e - 1) - t + 1
      BY <2>1, FS_Interval
    <2>3. (IF t > e - 1 THEN 0 ELSE (e - 1) - t + 1) = e - t
      OBVIOUS
    <2> QED
      BY <2>2, <2>3 DEF S
  <1>8. Cardinality(W) = Cardinality(S)
    <2>1. ExistsBijection(S, W)
      BY <1>6 DEF ExistsBijection
    <2> QED
      BY <1>7, <2>1, FS_Bijection
  <1> QED
    BY <1>2, <1>7, <1>8 DEF W

\* The children of a copy are what the scan made of those of its source.
ChildrenCopied(s, m, org, v, w, t, e) ==
    /\ \A c \in Children(m, w) :
         /\ c \in Every(m, Moved(s.term, t))
         /\ \E b \in Children(s.mem, v) : Image(s, org, c, b, t, e)
    /\ \A b \in Children(s.mem, v) : \E c \in Children(m, w) : Image(s, org, c, b, t, e)

\* It is so for the children of every object that was copied.
LEMMA CopyChildren ==
    ASSUME NEW s, WellFormed(s), NEW m, NEW t \in Nat, NEW e \in Nat, CopyOf(s, m, t, e),
           NEW org, Traced(s, m, org, t, e, e, {}), NEW v \in Pointers(s), NEW q \in Nat,
           CopyAt(s, org, v, q, t, e)
    PROVE  ChildrenCopied(s, m, org, v, Moved(v, q), t, e)
  <1> DEFINE w == Moved(v, q)
  <1>1. w.ptr = q
    BY MovedFacts
  <1>2. /\ Fields(m, w) = Fields(s.mem, v)
        /\ \A i \in 0 .. Words(s.mem, v) - 1 :
             q + i \in t .. e - 1 /\ Image(s, org, m[q + i], s.mem[v.ptr + i], t, e)
    <2>1. SameFields(s, m, org, v, q, t, e)
      BY CopyFields
    <2> QED
      BY <2>1 DEF SameFields
  <1>3. Fields(s.mem, v) \subseteq 0 .. Words(s.mem, v) - 1
    BY FieldsInside
  <1> HIDE DEF w
  <1>4. ASSUME NEW c \in Children(m, w)
        PROVE  /\ c \in Every(m, Moved(s.term, t))
               /\ \E b \in Children(s.mem, v) : Image(s, org, c, b, t, e)
    <2>1. PICK i \in Fields(m, w) : c = m[q + i]
      BY <1>1 DEF Children
    <2>2. i \in Fields(s.mem, v) /\ i \in 0 .. Words(s.mem, v) - 1
      BY <1>2, <1>3
    <2>3. q + i \in t .. e - 1 /\ Image(s, org, c, s.mem[v.ptr + i], t, e)
      BY <1>2, <2>1, <2>2
    <2>4. c \in Every(m, Moved(s.term, t))
      BY <2>1, <2>3, CopyDomain DEF Every
    <2>5. s.mem[v.ptr + i] \in Children(s.mem, v)
      BY <2>2 DEF Children
    <2> QED
      BY <2>3, <2>4, <2>5
  <1>5. ASSUME NEW b \in Children(s.mem, v)
        PROVE  \E c \in Children(m, w) : Image(s, org, c, b, t, e)
    <2>1. PICK i \in Fields(s.mem, v) : b = s.mem[v.ptr + i]
      BY DEF Children
    <2>2. i \in Fields(m, w) /\ i \in 0 .. Words(s.mem, v) - 1
      BY <1>2, <1>3
    <2>3. Image(s, org, m[q + i], b, t, e)
      BY <1>2, <2>1, <2>2
    <2>4. m[q + i] \in Children(m, w)
      BY <1>1, <2>2 DEF Children
    <2> QED
      BY <2>3, <2>4
  <1>6. ChildrenCopied(s, m, org, v, w, t, e)
    BY <1>4, <1>5 DEF ChildrenCopied
  <1> QED
    BY <1>6 DEF w

\* The objects of the source have the children they had.
LEMMA ChildrenKept ==
    ASSUME NEW s, WellFormed(s), NEW m, NEW t, HasSource(s, m, t), NEW w \in Pointers(s)
    PROVE  Children(m, w) = Children(s.mem, w)
  <1>1. PICK len \in Nat, p \in Nat : Placed(s, w, m, t, len, p)
    BY ObjectPlace
  <1>2. /\ len = Words(s.mem, w) /\ p = w.ptr /\ len >= 1
        /\ \A i \in 0 .. len - 1 : m[w.ptr + i] = s.mem[w.ptr + i]
    BY <1>1 DEF Placed
  <1>3. m[w.ptr] = s.mem[w.ptr]
    <2>1. 0 \in 0 .. len - 1 /\ p + 0 = p
      BY <1>2
    <2> QED
      BY <1>2, <2>1
  <1>4. Fields(m, w) = Fields(s.mem, w)
    BY <1>3 DEF Fields
  <1>5. \A i \in Fields(s.mem, w) : m[w.ptr + i] = s.mem[w.ptr + i]
    BY <1>2, FieldsInside
  <1> QED
    BY <1>4, <1>5 DEF Children

\* The pointers of the copy's memory are ranked, those to copies by what was copied.
LEMMA CopyRanked ==
    ASSUME NEW s, WellFormed(s), NEW m, NEW t \in Nat, NEW e \in Nat, CopyOf(s, m, t, e),
           NEW org, Traced(s, m, org, t, e, e, {})
    PROVE  \E rank : Ranked(m, Moved(s.term, t), rank)
  <1> DEFINE r == Moved(s.term, t)
  <1>1. PICK depth : Depths(s, depth)
    BY DepthsExist
  <1>2. HasSource(s, m, t)
    BY DEF CopyOf
  <1>3. ASSUME NEW v \in Pointers(s)
        PROVE  /\ TreeBack(depth, org, t, v) = depth[v] /\ depth[v] \in Nat
               /\ \A q \in Nat : CopyAt(s, org, v, q, t, e) =>
                    TreeBack(depth, org, t, Moved(v, q)) = depth[v]
    <2>1. depth[v] \in Nat
      BY <1>1 DEF Depths
    <2>2. TreeBack(depth, org, t, v) = depth[v]
      BY <1>2, BackFacts
    <2>3. ASSUME NEW q \in Nat, CopyAt(s, org, v, q, t, e)
          PROVE  TreeBack(depth, org, t, Moved(v, q)) = depth[v]
      <3>1. Image(s, org, Moved(v, q), v, t, e)
        BY <2>3 DEF Image, Pointers
      <3> QED
        BY <1>2, <3>1, BackFacts
    <2> QED
      BY <2>1, <2>2, <2>3
  <1>4. ASSUME NEW v \in Pointers(s), NEW c \in Children(s.mem, v)
        PROVE  /\ c \in Every(m, r)
               /\ IsPointer(c) => c \in Pointers(s) /\ depth[c] < depth[v]
    <2>1. PICK i \in 0 .. Words(s.mem, v) - 1 : i \in Fields(s.mem, v) /\ c = s.mem[v.ptr + i]
      BY SourceChildren
    <2>2. v.ptr + i \in DOMAIN s.mem
      BY ObjectWords
    <2>3. v.ptr + i \in 1 .. t - 1
      BY <1>2, <2>2 DEF WellFormed, HasSource
    <2>4. c \in Every(m, r)
      BY <2>1, <2>3, CopyDomain DEF Every
    <2>5. IsPointer(c) => c \in Pointers(s)
      BY SourceChildren
    <2> QED
      BY <1>1, <2>1, <2>4, <2>5 DEF Depths
  <1> DEFINE d == [w \in Every(m, r) |-> TreeBack(depth, org, t, w)]
  <1>5. \A w \in Every(m, r) : d[w] = TreeBack(depth, org, t, w)
    OBVIOUS
  <1> HIDE DEF d, r
  <1>6. ASSUME NEW w \in Ptrs(m, r)
        PROVE  /\ d[w] \in Nat
               /\ \A c \in Children(m, w) : c \in Every(m, r) /\ (IsPointer(c) => d[c] < d[w])
    <2>1. w \in Every(m, r) /\ IsPointer(w)
      BY DEF Ptrs
    <2>2. CASE w \in Pointers(s)
      <3>1. d[w] = depth[w] /\ depth[w] \in Nat
        BY <1>3, <1>5, <2>1, <2>2
      <3>2. Children(m, w) = Children(s.mem, w)
        BY <1>2, <2>2, ChildrenKept
      <3>3. ASSUME NEW c \in Children(s.mem, w)
            PROVE  c \in Every(m, r) /\ (IsPointer(c) => d[c] < d[w])
        BY <1>3, <1>4, <1>5, <2>2, <3>1
      <3> QED
        BY <3>1, <3>2, <3>3
    <2>3. ASSUME NEW v \in Pointers(s), NEW q \in Nat, w = Moved(v, q), CopyAt(s, org, v, q, t, e)
          PROVE  /\ d[w] \in Nat
                 /\ \A c \in Children(m, w) : c \in Every(m, r) /\ (IsPointer(c) => d[c] < d[w])
      <3>1. d[w] = depth[v] /\ depth[v] \in Nat
        BY <1>3, <1>5, <2>1, <2>3
      <3>2. ChildrenCopied(s, m, org, v, w, t, e)
        BY <2>3, CopyChildren
      <3>3. ASSUME NEW c \in Children(m, w)
            PROVE  c \in Every(m, r) /\ (IsPointer(c) => d[c] < d[w])
        <4>1. c \in Every(m, r)
          BY <3>2 DEF ChildrenCopied, r
        <4>2. PICK b \in Children(s.mem, v) : Image(s, org, c, b, t, e)
          BY <3>2 DEF ChildrenCopied
        <4>3. ASSUME IsPointer(c)
              PROVE  d[c] < d[w]
          <5>1. IsPointer(b)
            BY <4>2, <4>3 DEF Image
          <5>2. b \in Pointers(s) /\ depth[b] < depth[v]
            BY <1>4, <5>1
          <5>3. PICK p \in Nat : c = Moved(b, p) /\ CopyAt(s, org, b, p, t, e)
            BY <4>2, <5>1 DEF Image
          <5>4. d[c] = depth[b]
            BY <1>3, <1>5, <4>1, <5>2, <5>3
          <5> QED
            BY <3>1, <5>2, <5>4
        <4> QED
          BY <4>1, <4>3
      <3> QED
        BY <3>1, <3>3
    <2> QED
      BY <2>1, <2>2, <2>3, CopyPointers DEF r
  <1>7. Ranked(m, r, d)
    BY <1>6 DEF Ranked
  <1> QED
    BY <1>7 DEF r

\* The copies of the objects of the term, as the pointers of its copy
Copies(s, org, t, e, C) ==
    /\ \A w \in C : \E v \in Led(s), q \in Nat : w = Moved(v, q) /\ CopyAt(s, org, v, q, t, e)
    /\ \A v \in Led(s) : \E q \in Nat : Moved(v, q) \in C /\ CopyAt(s, org, v, q, t, e)

\* What the copy leads to are the copies of what the term leads to.
LEMMA CopyLeads ==
    ASSUME NEW s, WellFormed(s), NEW m, NEW t \in Nat, NEW e \in Nat, CopyOf(s, m, t, e),
           NEW org, TracedOnce(s, m, org, t, e)
    PROVE  /\ Copies(s, org, t, e, Reach(m, Moved(s.term, t)))
           /\ Reach(m, Moved(s.term, t)) \subseteq Every(m, Moved(s.term, t))
  <1> DEFINE r == Moved(s.term, t)
             C == Below(m, r, r)
  <1>1. /\ Traced(s, m, org, t, e, e, {}) /\ s.term \in Pointers(s)
        /\ CopyAt(s, org, s.term, t, t, e)
    BY DEF CopyOf, TracedOnce, Traced
  <1>2. PICK rank : Ranked(m, r, rank)
    BY <1>1, CopyRanked
  <1>3. IsPointer(r)
    BY <1>1, MovedFacts
  <1>4. /\ Led(s) \in SUBSET Pointers(s) /\ s.term \in Led(s) /\ Shut(s.mem, Led(s))
        /\ \A R \in SUBSET Pointers(s) : s.term \in R /\ Shut(s.mem, R) => Led(s) \subseteq R
    BY <1>1, LedFacts
  <1> DEFINE made == {w \in Ptrs(m, r) : \E v \in Led(s), q \in Nat :
                        w = Moved(v, q) /\ CopyAt(s, org, v, q, t, e)}
             used == {v \in Led(s) : \E q \in Nat : Moved(v, q) \in C /\ CopyAt(s, org, v, q, t, e)}
  <1>5. r \in Ptrs(m, r) /\ Reach(m, r) = C
    <2> HIDE DEF r
    <2> QED
      BY <1>2, <1>3, ReachIsBelow
  <1>6. /\ C \in SUBSET Ptrs(m, r) /\ r \in C /\ Shut(m, C)
        /\ \A R \in SUBSET Ptrs(m, r) : r \in R /\ Shut(m, R) => C \subseteq R
    <2> HIDE DEF r
    <2> QED
      BY <1>2, <1>5, BelowFacts
  <1> HIDE DEF C
  <1>7. C \subseteq made
    <2>1. made \in SUBSET Ptrs(m, r)
      OBVIOUS
    <2>2. r \in made
      BY <1>1, <1>4, <1>5
    <2>3. ASSUME NEW w \in made, NEW c \in Children(m, w), IsPointer(c)
          PROVE  c \in made
      <3>1. PICK v \in Led(s), q \in Nat : w = Moved(v, q) /\ CopyAt(s, org, v, q, t, e)
        OBVIOUS
      <3>2. ChildrenCopied(s, m, org, v, w, t, e)
        BY <1>1, <1>4, <3>1, CopyChildren
      <3>3. c \in Every(m, r)
        BY <3>2 DEF ChildrenCopied
      <3>4. PICK b \in Children(s.mem, v) : Image(s, org, c, b, t, e)
        BY <3>2 DEF ChildrenCopied
      <3>5. IsPointer(b)
        BY <2>3, <3>4 DEF Image
      <3>6. b \in Led(s)
        BY <1>4, <3>5 DEF Shut
      <3>7. PICK p \in Nat : c = Moved(b, p) /\ CopyAt(s, org, b, p, t, e)
        BY <3>4, <3>5 DEF Image
      <3>8. c \in Ptrs(m, r)
        BY <2>3, <3>3 DEF Ptrs
      <3> QED
        BY <3>6, <3>7, <3>8
    <2>4. Shut(m, made)
      <3> HIDE DEF made
      <3> QED
        BY <2>3 DEF Shut
    <2> HIDE DEF made
    <2> QED
      BY <1>6, <2>1, <2>2, <2>4
  <1>8. Led(s) \subseteq used
    <2>1. used \in SUBSET Pointers(s)
      BY <1>4
    <2>2. s.term \in used
      BY <1>1, <1>4, <1>6
    <2>3. ASSUME NEW v \in used, NEW b \in Children(s.mem, v), IsPointer(b)
          PROVE  b \in used
      <3>1. PICK q \in Nat : Moved(v, q) \in C /\ CopyAt(s, org, v, q, t, e)
        OBVIOUS
      <3>2. ChildrenCopied(s, m, org, v, Moved(v, q), t, e)
        BY <1>1, <1>4, <3>1, CopyChildren
      <3>3. PICK c \in Children(m, Moved(v, q)) : Image(s, org, c, b, t, e)
        BY <3>2 DEF ChildrenCopied
      <3>4. b \in Led(s) /\ b \in Pointers(s)
        BY <1>4, <2>3 DEF Shut
      <3>5. PICK p \in Nat : c = Moved(b, p) /\ CopyAt(s, org, b, p, t, e)
        BY <2>3, <3>3 DEF Image
      <3>6. IsPointer(c)
        BY <3>4, <3>5, MovedFacts
      <3>7. c \in C
        BY <1>6, <3>1, <3>3, <3>6 DEF Shut
      <3> QED
        BY <3>4, <3>5, <3>7
    <2>4. Shut(s.mem, used)
      <3> HIDE DEF used
      <3> QED
        BY <2>3 DEF Shut
    <2> HIDE DEF used
    <2> QED
      BY <1>4, <2>1, <2>2, <2>4
  <1>9. Copies(s, org, t, e, C)
    BY <1>7, <1>8 DEF Copies
  <1>10. C \subseteq Every(m, r)
    BY <1>6 DEF Ptrs
  <1> QED
    BY <1>5, <1>9, <1>10

\* So the copy has as many words as its objects have, each counted once.
LEMMA OnceCopy ==
    ASSUME NEW s, WellFormed(s), NEW m, NEW t \in Nat, NEW e \in Nat, CopyOf(s, m, t, e),
           NEW org, TracedOnce(s, m, org, t, e)
    PROVE  SharedSize(m, Moved(s.term, t)) = e - t
  <1> DEFINE r == Moved(s.term, t)
             C == Reach(m, r)
  <1>1. Traced(s, m, org, t, e, e, {}) /\ s.term \in Pointers(s)
    BY DEF CopyOf, TracedOnce
  <1>2. Copies(s, org, t, e, C) /\ C \subseteq Every(m, r)
    BY CopyLeads
  <1>3. Led(s) \in SUBSET Pointers(s)
    BY <1>1, LedFacts
  <1>4. PICK d \in Nat : DOMAIN m = 1 .. d - 1 /\ t <= e
    BY DEF CopyOf
  <1>5. IsFiniteSet(DOMAIN m) /\ IsFiniteSet(C)
    <2>1. d - 1 \in Nat \/ d - 1 = -1
      BY <1>4
    <2>2. PICK last \in Nat : DOMAIN m = 1 .. last
      <3>1. CASE d - 1 \in Nat
        BY <1>4, <3>1
      <3>2. CASE d - 1 = -1
        <4>1. DOMAIN m = 1 .. 0
          BY <1>4, <3>2
        <4> QED
          BY <4>1
      <3> QED
        BY <2>1, <3>1, <3>2
    <2>3. IsFiniteSet(Every(m, r)) /\ IsFiniteSet(DOMAIN m)
      BY <2>2, EveryFinite
    <2> HIDE DEF C
    <2> QED
      BY <1>2, <2>3, FS_Subset
  <1> HIDE DEF C
  \* A copy and the words it lies at
  <1>6. ASSUME NEW v \in Led(s), NEW q \in Nat, CopyAt(s, org, v, q, t, e)
        PROVE  /\ Moved(v, q).ptr = q /\ Words(m, Moved(v, q)) = Words(s.mem, v)
               /\ Words(s.mem, v) \in Nat
               /\ \A y : y \in Span(m, Moved(v, q)) <=> \E i \in 0 .. Words(s.mem, v) - 1 : y = q + i
    <2> DEFINE w == Moved(v, q)
    <2>1. SameFields(s, m, org, v, q, t, e)
      BY <1>1, <1>3, <1>6, CopyFields
    <2>2. Words(m, w) = Words(s.mem, v)
      BY <2>1 DEF SameFields
    <2>3. w.ptr = q /\ Words(s.mem, v) \in Nat
      BY <1>3, MovedFacts, PointerFacts
    <2> HIDE DEF w
    <2>4. \A y : y \in Span(m, w) <=> \E i \in 0 .. Words(m, w) - 1 : y = w.ptr + i
      BY <2>2, <2>3, SpanWords
    <2>5. \A y : y \in Span(m, w) <=> \E i \in 0 .. Words(s.mem, v) - 1 : y = q + i
      BY <2>2, <2>3, <2>4
    <2> QED
      BY <2>2, <2>3, <2>5 DEF w
  <1>7. ASSUME NEW w \in C
        PROVE  w.ptr \in Nat /\ Words(m, w) \in Nat /\ \A y \in Span(m, w) : y \in t .. e - 1
    <2>1. PICK v \in Led(s), q \in Nat : w = Moved(v, q) /\ CopyAt(s, org, v, q, t, e)
      BY <1>2 DEF Copies
    <2>2. ASSUME NEW y \in Span(m, w)
          PROVE  y \in t .. e - 1
      <3>1. PICK i \in 0 .. Words(s.mem, v) - 1 : y = q + i
        BY <1>6, <2>1
      <3> QED
        BY <2>1, <3>1 DEF CopyAt
    <2> QED
      BY <1>6, <2>1, <2>2
  <1>8. ASSUME NEW w \in C, NEW x \in C, NEW y \in Span(m, w), y \in Span(m, x)
        PROVE  w = x
    <2>1. PICK v \in Led(s), q \in Nat : w = Moved(v, q) /\ CopyAt(s, org, v, q, t, e)
      BY <1>2 DEF Copies
    <2>2. PICK u \in Led(s), p \in Nat : x = Moved(u, p) /\ CopyAt(s, org, u, p, t, e)
      BY <1>2 DEF Copies
    <2>3. PICK i \in 0 .. Words(s.mem, v) - 1 : y = q + i
      BY <1>6, <2>1
    <2>4. PICK j \in 0 .. Words(s.mem, u) - 1 : y = p + j
      BY <1>6, <1>8, <2>2
    <2>5. org[y] = v.ptr + i /\ org[y] = u.ptr + j
      BY <2>1, <2>2, <2>3, <2>4 DEF CopyAt
    <2>6. v = u /\ i = j
      BY <1>3, <2>5, SourceApart
    <2>7. q = p
      <3>1. PICK n \in Nat : n = Words(s.mem, v)
        BY <1>6, <2>1
      <3> QED
        BY <2>3, <2>4, <2>6, <3>1
    <2> QED
      BY <2>1, <2>2, <2>6, <2>7
  <1>9. Apart(m, C)
    <2>1. \A w \in C : Span(m, w) \subseteq DOMAIN m
      BY <1>7, CopyDomain
    <2>2. \A w, x \in C : Span(m, w) \cap Span(m, x) # {} => w = x
      BY <1>8
    <2> QED
      BY <1>5, <1>7, <2>1, <2>2 DEF Apart
  <1>10. WordsOf(m, C) = t .. e - 1
    <2>1. ASSUME NEW x \in t .. e - 1
          PROVE  \E w \in C : x \in Span(m, w)
      <3>1. PICK v \in Led(s) : \E i \in 0 .. Words(s.mem, v) - 1 : org[x] = v.ptr + i
        BY DEF TracedOnce
      <3>2. PICK i \in 0 .. Words(s.mem, v) - 1 : org[x] = v.ptr + i
        BY <3>1
      <3>3. PICK q \in Nat : Moved(v, q) \in C /\ CopyAt(s, org, v, q, t, e)
        BY <1>2 DEF Copies
      <3>4. q + i \in t .. e - 1 /\ org[q + i] = org[x]
        BY <3>2, <3>3 DEF CopyAt
      <3>5. x = q + i
        BY <3>4 DEF TracedOnce
      <3>6. x \in Span(m, Moved(v, q))
        BY <1>6, <3>3, <3>5
      <3> QED
        BY <3>3, <3>6
    <2> QED
      BY <1>7, <2>1 DEF WordsOf
  <1>11. SharedSize(m, r) = Cardinality(WordsOf(m, C))
    BY <1>9, SharedCount DEF C
  <1>12. Cardinality(t .. e - 1) = e - t
    <2>1. t \in Int /\ e - 1 \in Int
      OBVIOUS
    <2>2. Cardinality(t .. e - 1) = IF t > e - 1 THEN 0 ELSE (e - 1) - t + 1
      BY <2>1, FS_Interval
    <2>3. (IF t > e - 1 THEN 0 ELSE (e - 1) - t + 1) = e - t
      BY <1>4
    <2> QED
      BY <2>2, <2>3
  <1> QED
    BY <1>10, <1>11, <1>12

\* The words that were copied once are counted once, in the source and in the copy.
LEMMA OnceCounts ==
    ASSUME NEW s, WellFormed(s), NEW m, NEW t \in Nat, NEW e \in Nat, CopyOf(s, m, t, e),
           TracksOnce(s, m, t, e)
    PROVE  SharedSize(s.mem, s.term) = e - t /\ SharedSize(m, Moved(s.term, t)) = e - t
  <1>1. PICK org : TracedOnce(s, m, org, t, e)
    BY DEF TracksOnce
  <1>2. s.term \in Pointers(s) /\ t <= e
    BY DEF CopyOf
  <1> QED
    BY <1>1, <1>2, OnceSource, OnceCopy

-----------------------------------------------------------------------------
\* There is no pointer in the words of the chunk that are not in use yet.
Blank(m, b, e) == \A x \in b .. e - 1 : ~IsPointer(m[x])

\* The objects that are copied
Logged == {v \in Pointers(src) : \E k \in 1 .. Len(log) : log[k].at = v.ptr}

\* What is left to scan counts for no more than is left of the chunk: an object that is
\* shared counts for every pointer to it, and is appended once.  It leads to objects of
\* the term only.
Fits ==
    /\ from \in Nat /\ to \in Nat /\ to0 \in Nat /\ size \in Nat
    /\ to0 <= from /\ from <= to /\ to <= to0 + size
    /\ Len(log) \in Nat /\ Len(log) <= to - to0
    /\ pc = "scan" => \E n \in Nat : Pending(src, mem, from, to, n) /\ to + n <= to0 + size
    /\ pc = "scan" => Tracks(src, mem, to0, from, to, Logged) /\ Blank(mem, to, to0 + size)
    /\ pc = "scan" => CopiedOnce(src, mem, to0, from, to, Logged)
    /\ pc \in {"scan", "restore"} => src.term \in Pointers(src)

StructIInv == LogInv /\ Fits

\* The promise follows.
LEMMA FitsTheSize == Fits => FitsInSize
  BY DEF Fits, FitsInSize

\* The initial states.
LEMMA StructInitial ==
    ASSUME StructInit
    PROVE  StructIInv
  <1>1. LogInv /\ log = <<>>
    BY LogInitial DEF StructInit
  <1>2. from = to0 /\ to = to0 /\ size = 0 /\ pc = "start" /\ Len(log) = 0
    BY <1>1 DEF StructInit, CopyInit
  <1>3. to0 = Cardinality(DOMAIN src.mem) + 1 /\ Cardinality(DOMAIN src.mem) \in Nat
    BY <1>1 DEF LogInv, StructTyped, WellFormed
  <1> QED
    BY <1>1, <1>2, <1>3 DEF StructIInv, Fits

\* An object that is not copied yet lies in the source, and its words are still there.
LEMMA UncopiedPlaced ==
    ASSUME NEW m, NEW w, Uncopied(m, w), StructTyped
    PROVE  \E len \in Nat, p \in Nat : Placed(src, w, m, to0, len, p)
  <1>1. /\ w \in Pointers(src) /\ WellFormed(src) /\ to0 = Cardinality(DOMAIN src.mem) + 1
        /\ \A a \in Places : m[a] = mem[a]
        /\ \A a \in Extent(src, w) : mem[a] = src.mem[a]
    BY DEF Uncopied, StructTyped
  <1>2. HasSource(src, src.mem, to0)
    BY <1>1 DEF HasSource
  <1>3. PICK len \in Nat, p \in Nat : Placed(src, w, src.mem, to0, len, p)
    BY <1>1, <1>2, ObjectPlace
  <1>4. /\ p = w.ptr /\ len = Words(src.mem, w) /\ len >= 1 /\ p >= 1 /\ p + len <= to0
        /\ to0 \in Nat
    BY <1>1, <1>3 DEF Placed, WellFormed
  <1>5. ASSUME NEW i \in 0 .. len - 1
        PROVE  m[p + i] = src.mem[w.ptr + i]
    <2>1. p + i \in p .. p + len - 1 /\ p + i \in 1 .. to0 - 1
      BY <1>4
    <2>2. p + i \in Extent(src, w) /\ p + i \in Places
      BY <1>4, <2>1 DEF Extent, Places
    <2> QED
      BY <1>1, <1>4, <2>2
  <1>6. m[w.ptr] = src.mem[w.ptr]
    <2>1. 0 \in 0 .. len - 1 /\ p + 0 = p
      BY <1>4
    <2>2. m[p + 0] = src.mem[w.ptr + 0]
      BY <1>5, <2>1
    <2> QED
      BY <1>4, <2>1, <2>2
  <1>7. len = Words(m, w)
    BY <1>4, <1>6 DEF Words
  <1> QED
    BY <1>4, <1>5, <1>7 DEF Placed

\* The memory CopyObject makes of m: v is the pointer to the copy
Forward(m, b, len, q, st, a, v) ==
    [x \in DOMAIN m |-> IF x \in b .. b + len - 1 THEN m[q + x - b]
                        ELSE IF x = q THEN v
                        ELSE IF st = "scan" /\ x = a THEN v ELSE m[x]]

WordsCopied(m, k, b, len, q, st, a, e, v) ==
    /\ \A i \in 0 .. len - 1 : k[b + i] = m[q + i]
    /\ \A x \in 1 .. b - 1 : x # q /\ (st = "scan" => x # a) => k[x] = m[x]
    /\ k[q] = v /\ (st = "scan" => k[a] = v)
    /\ \A x \in b + len .. e - 1 : k[x] = m[x]

\* What its words are.
LEMMA WordsForwarded ==
    ASSUME NEW m, NEW b \in Nat, b >= 1, NEW len \in Nat, NEW e \in Nat, b + len <= e,
           DOMAIN m = 1 .. e - 1, NEW q \in Nat, q >= 1, q < b, NEW st, NEW a \in Nat,
           st = "scan" => a >= 1 /\ a < b, NEW v
    PROVE  WordsCopied(m, Forward(m, b, len, q, st, a, v), b, len, q, st, a, e, v)
  <1> DEFINE k == Forward(m, b, len, q, st, a, v)
  <1>1. ASSUME NEW i \in 0 .. len - 1
        PROVE  k[b + i] = m[q + i]
    <2>1. b + i \in 1 .. e - 1 /\ b + i \in b .. b + len - 1 /\ q + (b + i) - b = q + i
      OBVIOUS
    <2> QED
      BY <2>1 DEF Forward
  <1>2. ASSUME NEW x \in 1 .. b - 1, x # q, st = "scan" => x # a
        PROVE  k[x] = m[x]
    <2>1. x \in 1 .. e - 1 /\ x \notin b .. b + len - 1
      OBVIOUS
    <2> QED
      BY <1>2, <2>1 DEF Forward
  <1>3. k[q] = v
    <2>1. q \in 1 .. e - 1 /\ q \notin b .. b + len - 1
      OBVIOUS
    <2> QED
      BY <2>1 DEF Forward
  <1>4. ASSUME st = "scan"
        PROVE  k[a] = v
    <2>1. a \in 1 .. e - 1 /\ a \notin b .. b + len - 1
      BY <1>4
    <2> QED
      BY <1>4, <2>1 DEF Forward
  <1>5. ASSUME NEW x \in b + len .. e - 1
        PROVE  k[x] = m[x]
    <2>1. x \in 1 .. e - 1 /\ x \notin b .. b + len - 1 /\ x # q /\ (st = "scan" => x # a)
      OBVIOUS
    <2> QED
      BY <2>1 DEF Forward
  <1> QED
    BY <1>1, <1>2, <1>3, <1>4, <1>5 DEF WordsCopied

\* No two pointers lead to one object.
LEMMA SamePlace ==
    ASSUME NEW s, WellFormed(s), NEW v \in Pointers(s), NEW w \in Pointers(s), v.ptr = w.ptr
    PROVE  v = w
  <1>1. w.ptr \in Extent(s, v)
    <2>1. PICK p \in Nat, len \in Nat \ {0} : p = v.ptr /\ len = Words(s.mem, v)
      BY PointerFacts
    <2>2. p \in p .. p + len - 1
      BY <2>1
    <2> QED
      BY <2>1, <2>2 DEF Extent
  <1>2. v.tag = w.tag
    BY <1>1 DEF WellFormed
  <1>3. v = [tag |-> v.tag, ptr |-> v.ptr] /\ w = [tag |-> w.tag, ptr |-> w.ptr]
    BY MovedFacts
  <1> QED
    BY <1>2, <1>3

\* One more is when an object is copied.
LEMMA LoggedMore ==
    ASSUME StructTyped, NEW m, NEW w \in Pointers(src), CopyObject(m, w), src' = src,
           NEW v \in Logged'
    PROVE  v \in Pointers(src) /\ (v \in Logged \/ v = w)
  <1>1. log \in Seq(Entry) /\ WellFormed(src)
    BY DEF StructTyped
  <1>2. PICK k \in 1 .. Len(log') : v \in Pointers(src) /\ log'[k].at = v.ptr
    BY DEF Logged
  <1>3. /\ Len(log) \in Nat /\ Len(log') = Len(log) + 1
        /\ \A j \in 1 .. Len(log) : log'[j] = log[j]
        /\ log'[Len(log) + 1].at = w.ptr
    BY <1>1 DEF CopyObject
  <1>4. CASE k \in 1 .. Len(log)
    BY <1>2, <1>3, <1>4 DEF Logged
  <1>5. CASE k = Len(log) + 1
    BY <1>1, <1>2, <1>3, <1>5, SamePlace
  <1> QED
    BY <1>2, <1>3, <1>4, <1>5

\* And it is one of them then.
LEMMA LoggedToo ==
    ASSUME StructTyped, NEW m, NEW w \in Pointers(src), CopyObject(m, w), src' = src
    PROVE  w \in Logged' /\ \A v \in Logged : v \in Logged'
  <1>1. log \in Seq(Entry)
    BY DEF StructTyped
  <1>2. /\ Len(log) \in Nat /\ Len(log') = Len(log) + 1
        /\ \A j \in 1 .. Len(log) : log'[j] = log[j]
        /\ log'[Len(log) + 1].at = w.ptr
    BY <1>1 DEF CopyObject
  <1>3. Len(log) + 1 \in 1 .. Len(log') /\ 1 .. Len(log) \subseteq 1 .. Len(log')
    BY <1>2
  <1>4. w \in Logged'
    BY <1>2, <1>3 DEF Logged
  <1>5. ASSUME NEW v \in Logged
        PROVE  v \in Logged'
    <2>1. PICK k \in 1 .. Len(log) : log[k].at = v.ptr
      BY DEF Logged
    <2>2. k \in 1 .. Len(log') /\ log'[k].at = v.ptr
      BY <1>2, <1>3, <2>1
    <2> QED
      BY <2>2 DEF Logged
  <1> QED
    BY <1>4, <1>5

\* What is copied was not before.
LEMMA NotLogged ==
    ASSUME LogInv, pc = "scan", NEW w \in Logged
    PROVE  Forwarded(w)
  <1>1. WellFormed(src) /\ w \in Pointers(src)
    BY DEF LogInv, StructTyped, Logged
  <1>2. PICK k \in 1 .. Len(log) : log[k].at = w.ptr
    BY DEF Logged
  <1>3. PICK v \in Pointers(src) : /\ w.ptr = v.ptr
                                  /\ mem[v.ptr].tag = v.tag /\ mem[v.ptr].ptr \in to0 .. to
    BY <1>2 DEF LogInv, Points
  <1>4. v = w
    BY <1>1, <1>3, SamePlace
  <1> QED
    BY <1>3, <1>4 DEF Forwarded

\* A pointer that the scan takes for one to a copied object is one.
LEMMA ForwardedLogged ==
    ASSUME LogInv, ScanForwarded
    PROVE  mem[from] \in Logged
  <1> DEFINE w == mem[from]
  <1>1. pc = "scan" /\ from < to /\ IsPointer(w) /\ Forwarded(w)
    BY DEF ScanForwarded, Scanning, IsPointer
  <1>2. w \in Pointers(src) /\ ptr = 0
    BY <1>1, Scanned
  <1>3. WellFormed(src) /\ to0 = Cardinality(DOMAIN src.mem) + 1
    BY DEF LogInv, StructTyped
  <1> HIDE DEF w
  <1>4. PICK last \in Nat : /\ last = Cardinality(DOMAIN src.mem) /\ DOMAIN src.mem = 1 .. last
                           /\ to0 = last + 1 /\ Places = 1 .. last
    <2>1. PICK last \in Nat : last = Cardinality(DOMAIN src.mem) /\ DOMAIN src.mem = 1 .. last
      BY <1>3 DEF WellFormed
    <2>2. PICK t \in Nat : t = to0 /\ t = last + 1 /\ 1 .. t - 1 = 1 .. last
      BY <1>3, <2>1
    <2> QED
      BY <2>1, <2>2 DEF Places
  <1>5. w.ptr \in Places /\ w.ptr \in DOMAIN src.mem
    <2>1. w.ptr \in 1 .. last
      BY <1>2, <1>3, <1>4, PointerFacts
    <2> QED
      BY <1>4, <2>1
  <1>6. ASSUME mem[w.ptr] = src.mem[w.ptr]
        PROVE  FALSE
    <2>1. src.mem[w.ptr] \in Pointers(src)
      BY <1>1, <1>5, <1>6 DEF Pointers, Every, IsPointer, Forwarded
    <2>2. src.mem[w.ptr].ptr \in 1 .. last
      BY <1>3, <1>4, <2>1, PointerFacts
    <2>3. src.mem[w.ptr].ptr \in to0 .. to
      BY <1>1, <1>6 DEF Forwarded
    <2>4. PICK y \in 1 .. last : y = src.mem[w.ptr].ptr
      BY <2>2
    <2>5. y \in to0 .. to
      BY <2>3, <2>4
    <2>6. to \in Int
      BY DEF LogInv, StructTyped
    <2>7. PICK b \in Int : b = to
      BY <2>6
    <2>8. y \in last + 1 .. b
      BY <1>4, <2>5, <2>7
    <2>9. y >= last + 1
      BY <2>8
    <2> QED
      BY <2>4, <2>9
  <1>7. PICK k \in 1 .. Len(log) : log[k].at = w.ptr
    BY <1>2, <1>5, <1>6 DEF LogInv, SourceLogged, Places
  <1> QED
    BY <1>2, <1>7 DEF Logged, w

\* The log is one entry longer when an object is copied.
LEMMA LogLonger ==
    ASSUME StructTyped, NEW m, NEW w, CopyObject(m, w)
    PROVE  Len(log) \in Nat /\ Len(log') = Len(log) + 1
  <1>1. log \in Seq(Entry)
    BY DEF StructTyped
  <1> QED
    BY <1>1 DEF CopyObject

\* The first object fits.
LEMMA FitsStart ==
    ASSUME StructIInv, StructStart
    PROVE  Fits'
  <1> DEFINE w == src.term
  <1>1. /\ StructTyped /\ pc = "start" /\ mem = src.mem /\ log = <<>> /\ to = to0
        /\ from \in Nat /\ from = to0 /\ to0 \in Nat /\ to0 >= 1 /\ WellFormed(src)
        /\ to0 = Cardinality(DOMAIN src.mem) + 1
    <2>1. StructTyped /\ pc = "start" /\ mem = src.mem /\ log = <<>> /\ to = to0 /\ WellFormed(src)
          /\ to0 = Cardinality(DOMAIN src.mem) + 1
      BY DEF StructIInv, LogInv, Fresh, StructTyped, StructStart
    <2>2. from \in Nat /\ to0 \in Nat /\ to0 <= from /\ from <= to
      BY DEF StructIInv, Fits
    <2>3. Cardinality(DOMAIN src.mem) \in Nat
      BY <2>1 DEF WellFormed
    <2> QED
      BY <2>1, <2>2, <2>3
  <1>2. /\ size' = FlatSize(src.mem, w) /\ size' > 0 /\ CopyObject(Granted(size'), w)
        /\ src' = src /\ to0' = to0 /\ from' = from /\ pc' = "scan"
    BY <1>1 DEF StructStart, given
  <1>3. w \in Pointers(src)
    BY <1>1, <1>2, TermIsPointer
  <1>4. PICK sz \in Nat : sz = size' /\ sz = Size(src)[w]
    BY <1>1, <1>2, TermIsPointer
  <1> DEFINE m == Granted(sz)
  <1>5. DOMAIN m = 1 .. to0 + sz - 1 /\ \A a \in 1 .. to0 - 1 : m[a] = src.mem[a]
    BY <1>1, GrantedWords
  <1> HIDE DEF m, w
  <1>6. PICK len \in Nat, p \in Nat :
          /\ p = w.ptr /\ len = Words(m, w) /\ len = Words(src.mem, w)
          /\ len >= 1 /\ p >= 1 /\ p + len <= to0
          /\ \A i \in 0 .. len - 1 : m[p + i] = src.mem[w.ptr + i]
    <2>1. HasSource(src, m, to0)
      BY <1>1, <1>5 DEF HasSource
    <2>2. \E len \in Nat, p \in Nat : Placed(src, w, m, to0, len, p)
      BY <1>1, <1>3, <2>1, ObjectPlace
    <2> QED
      BY <2>2 DEF Placed
  <1>7. PICK left \in Nat : left = sz - len
    BY <1>1, <1>3, <1>4, <1>6, RoomForObject
  <1>8. PICK t \in Nat, e \in Nat : t = to0 /\ e = t + sz /\ t >= 1 /\ t + len <= e
    <2>1. to0 + sz \in Nat /\ to0 + len <= to0 + sz
      BY <1>1, <1>4, <1>6, <1>7
    <2> QED
      BY <1>1, <2>1
  <1>9. CopyObject(m, w)
    BY <1>2, <1>4 DEF m
  <1>10. /\ to' = t + len
         /\ mem' = Forward(m, t, len, p, pc, from, [w EXCEPT !.ptr = to])
    BY <1>1, <1>6, <1>8, <1>9 DEF CopyObject, Forward
  <1>11. PICK k : k = mem'
    OBVIOUS
  <1>12. /\ \A i \in 0 .. len - 1 : k[t + i] = m[p + i]
         /\ k[p] = Moved(w, t) /\ \A x \in t + len .. e - 1 : k[x] = m[x]
    <2>1. DOMAIN m = 1 .. e - 1
      BY <1>5, <1>8
    <2>2. WordsCopied(m, k, t, len, p, pc, from, e, [w EXCEPT !.ptr = to])
      BY <1>1, <1>6, <1>8, <1>10, <1>11, <2>1, WordsForwarded
    <2> QED
      BY <1>1, <1>8, <2>2 DEF WordsCopied, Moved
  <1>13. Extended(src, k, k, t, t, w, len)
    <2>1. \A x \in t .. t - 1 : k[x] = k[x]
      OBVIOUS
    <2> QED
      BY <1>6, <1>12, <2>1 DEF Extended
  <1>14. Pending(src, k, t, t + len, left)
    BY <1>1, <1>3, <1>4, <1>7, <1>8, <1>13, PendingFirst
  <1>15. t + len + left = t + sz
    BY <1>4, <1>6, <1>7
  <1>16. Len(log') = 1
    <2>1. Len(log) = 0
      BY <1>1
    <2> QED
      BY <1>1, <1>9, <2>1, LogLonger
  <1>17. (t + len) - t >= 1 /\ t <= t + len /\ t + len <= t + sz
    BY <1>6, <1>8
  <1>18. to' = t + len /\ to0' = t /\ size' = sz /\ from' = t /\ mem' = k /\ src' = src /\ pc' = "scan"
    BY <1>1, <1>2, <1>4, <1>8, <1>10, <1>11
  <1>19. Tracks(src, k, t, t, t + len, Logged')
    <2>1. ASSUME NEW v \in Logged'
          PROVE  v = w /\ k[v.ptr] = Moved(w, t)
      <3>1. v = w
        <4>1. v \in Logged \/ v = w
          BY <1>1, <1>2, <1>3, <1>9, LoggedMore
        <4>2. Len(log) = 0
          BY <1>1
        <4>3. v \notin Logged
          BY <4>2 DEF Logged
        <4> QED
          BY <4>1, <4>3
      <3> QED
        BY <1>6, <1>12, <3>1
    <2>2. Forwards(k, k, {}, w, t, Logged')
      BY <2>1 DEF Forwards
    <2> QED
      BY <1>1, <1>3, <1>8, <1>13, <2>2, TracksFirst DEF w
  <1>20. Blank(k, t + len, t + sz)
    <2> SUFFICES ASSUME NEW x \in t + len .. e - 1
                 PROVE  ~IsPointer(k[x])
      BY <1>8 DEF Blank
    <2>1. k[x] = m[x]
      BY <1>12
    <2>2. x \in 1 .. t + sz - 1 /\ ~(x < t)
      BY <1>6, <1>8
    <2>3. m[x] = Raw(0)
      BY <1>8, <2>2 DEF m, Granted
    <2> QED
      BY <2>1, <2>3 DEF Raw, IsPointer
  <1>21. CopiedOnce(src, k, t, t, t + len, Logged')
    <2>1. Adds(k, k, {}, w, t, Logged')
      <3>1. w \in Logged'
        BY <1>1, <1>2, <1>3, <1>9, LoggedToo
      <3>2. \A v \in Logged' : v = w
        <4>1. Len(log) = 0
          BY <1>1
        <4>2. \A v : v \notin Logged
          BY <4>1 DEF Logged
        <4> QED
          BY <1>1, <1>2, <1>3, <1>9, <4>2, LoggedMore
      <3> QED
        BY <1>6, <1>12, <3>1, <3>2 DEF Adds
    <2>2. CopiedOnce(src, k, t, t, t, {})
      <3>1. \A x \in t .. t - 1 : FALSE
        OBVIOUS
      <3> QED
        BY <3>1 DEF CopiedOnce
    <2>3. src.term \in Pointers(src) /\ w \in Led(src)
      BY <1>1, <1>3, LedFacts DEF w
    <2> QED
      BY <1>1, <1>8, <1>13, <2>1, <2>2, <2>3, OnceAppend
  <1>22. src.term \in Pointers(src)
    BY <1>3 DEF w
  <1> QED
    BY <1>14, <1>15, <1>16, <1>17, <1>18, <1>19, <1>20, <1>21, <1>22 DEF Fits

\* An object fits that the scan meets a pointer to.
LEMMA FitsPointer ==
    ASSUME StructIInv, StructPointer
    PROVE  Fits'
  <1> DEFINE w == mem[from]
  <1>1. /\ pc = "scan" /\ from < to /\ IsPointer(w) /\ CopyObject(mem, w) /\ from' = from + 1
        /\ src' = src /\ to0' = to0 /\ size' = size /\ pc' = pc
    BY DEF StructPointer, Scanning, IsPointer, given
  <1>2. /\ StructTyped /\ WellFormed(src) /\ to0 = Cardinality(DOMAIN src.mem) + 1
        /\ to0 <= from /\ from <= to /\ from \in Nat /\ to \in Nat /\ to0 \in Nat /\ size \in Nat
        /\ Len(log) \in Nat /\ Len(log) <= to - to0 /\ DOMAIN mem = 1 .. to0 + size - 1
    BY <1>1 DEF StructIInv, LogInv, Fits, StructTyped, Memory
  <1>3. PICK n \in Nat : Pending(src, mem, from, to, n) /\ to + n <= to0 + size
    BY <1>1 DEF StructIInv, Fits
  <1>4. w \in Pointers(src) /\ \A len \in Nat : len = Words(src.mem, w) => len <= n
    BY <1>1, <1>2, <1>3, RoomToAppend
  <1>5. PICK a \in Nat, b \in Nat, t \in Nat, e \in Nat :
          /\ a = from /\ b = to /\ t = to0 /\ e = to0 + size /\ b + n <= e
          /\ t <= a /\ a < b /\ e = t + size
    <2>1. to0 + size \in Nat
      BY <1>2
    <2>2. to + n <= to0 + size /\ to0 <= from /\ from < to
      BY <1>1, <1>2, <1>3
    <2> QED
      BY <1>2, <2>1, <2>2
  <1>6. Uncopied(mem, w)
    BY NotCopiedYet DEF StructIInv
  <1> HIDE DEF w
  <1>7. PICK len \in Nat, p \in Nat :
          /\ p = w.ptr /\ len = Words(mem, w) /\ len = Words(src.mem, w)
          /\ len >= 1 /\ p >= 1 /\ p + len <= t
          /\ \A i \in 0 .. len - 1 : mem[p + i] = src.mem[w.ptr + i]
    <2>1. \E len \in Nat, p \in Nat : Placed(src, w, mem, to0, len, p)
      BY <1>2, <1>6, UncopiedPlaced
    <2> QED
      BY <1>5, <2>1 DEF Placed
  <1>8. len <= n /\ b + len <= e /\ p < t /\ b >= 1
    BY <1>4, <1>5, <1>7
  <1>9. /\ to' = b + len
        /\ mem' = Forward(mem, b, len, p, pc, a, [w EXCEPT !.ptr = to])
    BY <1>1, <1>5, <1>7 DEF CopyObject, Forward
  <1>10. PICK k : k = mem'
    OBVIOUS
  <1>11. /\ \A i \in 0 .. len - 1 : k[b + i] = mem[p + i]
         /\ \A x \in 1 .. b - 1 : x # p /\ x # a => k[x] = mem[x]
         /\ k[p] = Moved(w, b) /\ k[a] = Moved(w, b)
         /\ \A x \in b + len .. e - 1 : k[x] = mem[x]
    <2>1. DOMAIN mem = 1 .. e - 1
      BY <1>2, <1>5
    <2>2. WordsCopied(mem, k, b, len, p, pc, a, e, [w EXCEPT !.ptr = to])
      <3>1. p < b /\ a >= 1 /\ a < b
        BY <1>5, <1>7, <1>8
      <3> QED
        BY <1>7, <1>8, <1>9, <1>10, <2>1, <3>1, WordsForwarded
    <2> QED
      BY <1>1, <1>5, <2>2 DEF WordsCopied, Moved
  <1>12. Extended(src, mem, k, a + 1, b, w, len)
    <2>1. \A x \in a + 1 .. b - 1 : x \in 1 .. b - 1 /\ x # a /\ x # p
      BY <1>5, <1>8
    <2>2. \A x \in a + 1 .. b - 1 : k[x] = mem[x]
      BY <1>11, <2>1
    <2> QED
      BY <1>7, <1>11, <2>2 DEF Extended
  <1>13. n - len \in Nat /\ Pending(src, k, a + 1, b + len, n - len)
    <2>1. w = mem[a] /\ IsPointer(mem[a])
      BY <1>1, <1>5 DEF w
    <2> QED
      BY <1>2, <1>3, <1>5, <1>12, <2>1, PendingPointer
  <1>14. Len(log') = Len(log) + 1
    BY <1>1, <1>2, LogLonger
  <1>15. PICK l \in Nat : l = Len(log) /\ l <= b - t
    BY <1>2, <1>5
  <1>16. /\ b + len + (n - len) <= e /\ t <= a + 1 /\ a + 1 <= b + len
         /\ l + 1 <= (b + len) - t /\ l + 1 \in Nat /\ b + len \in Nat /\ a + 1 \in Nat
    <2>1. b + len + (n - len) <= e
      BY <1>5
    <2>2. t <= a + 1 /\ a + 1 <= b + len
      BY <1>5, <1>7
    <2>3. l + 1 <= (b + len) - t
      BY <1>7, <1>15
    <2> QED
      BY <2>1, <2>2, <2>3
  <1>17. /\ to' = b + len /\ to0' = t /\ size' = size /\ from' = a + 1 /\ mem' = k /\ src' = src
         /\ Len(log') = l + 1
    BY <1>1, <1>5, <1>9, <1>10, <1>14, <1>15
  <1>18. Tracks(src, mem, t, a, b, Logged) /\ Blank(mem, b, e)
    BY <1>1, <1>5 DEF StructIInv, Fits
  <1>19. ASSUME NEW v \in Logged'
        PROVE  (v \in Logged /\ k[v.ptr] = mem[v.ptr]) \/ (v = w /\ k[v.ptr] = Moved(w, b))
    <2>1. v \in Pointers(src) /\ (v \in Logged \/ v = w)
      BY <1>1, <1>2, <1>4, <1>19, LoggedMore
    <2>2. CASE v = w
      BY <1>7, <1>11, <2>2
    <2>3. CASE v # w
      <3>1. v.ptr # p
        BY <1>2, <1>4, <1>7, <2>1, <2>3, SamePlace
      <3>2. v.ptr \in 1 .. t - 1
        <4>1. PICK last \in Nat : last = Cardinality(DOMAIN src.mem)
          BY <1>2 DEF WellFormed
        <4>2. v.ptr \in 1 .. last
          BY <1>2, <2>1, <4>1, PointerFacts
        <4>3. t = last + 1
          BY <1>2, <1>5, <4>1
        <4>4. 1 .. last = 1 .. t - 1
          BY <4>3
        <4> QED
          BY <4>2, <4>4
      <3>3. v.ptr \in 1 .. b - 1 /\ v.ptr # a
        BY <1>5, <3>2
      <3> QED
        BY <1>11, <2>1, <2>3, <3>1, <3>3
    <2> QED
      BY <2>2, <2>3
  <1>20. Tracks(src, k, t, a + 1, b + len, Logged')
    <2>1. Kept(mem, k, t, a)
      <3>1. \A x \in t .. a - 1 : x \in 1 .. b - 1 /\ x # a /\ x # p
        BY <1>5, <1>8
      <3> QED
        BY <1>11, <3>1 DEF Kept
    <2>2. Forwards(mem, k, Logged, w, b, Logged')
      BY <1>19 DEF Forwards
    <2>3. mem[a] = w
      BY <1>5 DEF w
    <2> QED
      BY <1>2, <1>4, <1>5, <1>11, <1>12, <1>18, <2>1, <2>2, <2>3, TracksAppend
  <1>21. Blank(k, b + len, e)
    <2>1. \A x \in b + len .. e - 1 : x \in b .. e - 1
      BY <1>7
    <2> QED
      BY <1>11, <1>18, <2>1 DEF Blank
  <1>22. src.term \in Pointers(src) /\ CopiedOnce(src, mem, t, a, b, Logged)
    BY <1>1, <1>5 DEF StructIInv, Fits
  <1>23. CopiedOnce(src, k, t, a + 1, b + len, Logged')
    <2>1. w \in Led(src)
      <3>1. a \in a .. b - 1 /\ mem[a] = w /\ IsPointer(w)
        BY <1>1, <1>5 DEF w
      <3> QED
        BY <1>22, <3>1 DEF CopiedOnce
    <2>2. w \notin Logged
      <3>1. ~Forwarded(w)
        BY DEF StructPointer, w
      <3> QED
        BY <1>1, <3>1, NotLogged DEF StructIInv
    <2>3. Adds(mem, k, Logged, w, b, Logged')
      <3>1. w \in Logged' /\ \A v \in Logged : v \in Logged'
        BY <1>1, <1>2, <1>4, LoggedToo
      <3>2. \A v \in Logged : k[v.ptr] = mem[v.ptr]
        BY <1>19, <2>2, <3>1
      <3>3. \A v \in Logged' : v \in Logged \/ v = w
        BY <1>1, <1>2, <1>4, LoggedMore
      <3> QED
        BY <1>7, <1>11, <3>1, <3>2, <3>3 DEF Adds
    <2>4. a + 1 \in Nat /\ a <= a + 1 /\ t <= b
      BY <1>5
    <2> QED
      BY <1>2, <1>5, <1>12, <1>22, <2>1, <2>3, <2>4, OnceAppend
  <1> QED
    BY <1>1, <1>2, <1>5, <1>8, <1>13, <1>16, <1>17, <1>20, <1>21, <1>22, <1>23 DEF Fits

\* A pointer to an object already copied counts for nothing any more.
LEMMA FitsForwarded ==
    ASSUME StructIInv, ScanForwarded
    PROVE  Fits'
  <1>1. /\ pc = "scan" /\ from < to /\ mem' = [mem EXCEPT ![from] = mem[mem[from].ptr]]
        /\ from' = from + 1 /\ UNCHANGED <<src, to0, pc, size, to, log>>
    BY DEF ScanForwarded, Scanning, given
  <1>2. /\ WellFormed(src) /\ to0 <= from /\ from <= to /\ to <= to0 + size
        /\ from \in Nat /\ to \in Nat /\ to0 \in Nat /\ size \in Nat
        /\ Len(log) \in Nat /\ Len(log) <= to - to0
    BY DEF StructIInv, LogInv, Fits, StructTyped
  <1>3. PICK n \in Nat : Pending(src, mem, from, to, n) /\ to + n <= to0 + size
    BY <1>1 DEF StructIInv, Fits
  <1>4. PICK k : k = mem'
    OBVIOUS
  <1>5. \A x \in from + 1 .. to - 1 : k[x] = mem[x]
    <2>1. \A x \in from + 1 .. to - 1 : x # from
      BY <1>2
    <2> QED
      BY <1>1, <1>4, <2>1
  <1>6. /\ Size(src)[mem[from]] \in Nat
        /\ Pending(src, k, from + 1, to, n - Size(src)[mem[from]])
    BY <1>1, <1>2, <1>3, <1>5, PendingDrop
  <1>7. PICK j \in Nat : j = n - Size(src)[mem[from]] /\ j <= n
    BY <1>6 DEF Pending
  <1>8. Pending(src, k, from + 1, to, j) /\ to + j <= to0 + size
    BY <1>2, <1>3, <1>6, <1>7
  <1>9. to0 <= from + 1 /\ from + 1 <= to /\ from + 1 \in Nat
    BY <1>1, <1>2
  <1>10. /\ Tracks(src, mem, to0, from, to, Logged) /\ Blank(mem, to, to0 + size)
         /\ CopiedOnce(src, mem, to0, from, to, Logged) /\ src.term \in Pointers(src)
    BY <1>1 DEF StructIInv, Fits
  <1>11. /\ Tracks(src, k, to0, from + 1, to, Logged)
         /\ CopiedOnce(src, k, to0, from + 1, to, Logged)
    <2>1. DOMAIN mem = 1 .. to0 + size - 1 /\ to0 >= 1 /\ to0 = Cardinality(DOMAIN src.mem) + 1
      BY <1>2 DEF StructIInv, LogInv, Memory, StructTyped, WellFormed
    <2>2. from \in 1 .. to0 + size - 1
      BY <1>1, <1>2, <2>1
    <2>3. k[from] = mem[mem[from].ptr] /\ \A x \in DOMAIN mem : x # from => k[x] = mem[x]
      BY <1>1, <1>4, <2>1, <2>2
    <2>4. ASSUME NEW x \in to0 .. to - 1, x # from
          PROVE  k[x] = mem[x]
      <3>1. x \in 1 .. to0 + size - 1
        BY <1>2, <2>1
      <3> QED
        BY <2>1, <2>3, <2>4, <3>1
    <2>5. ASSUME NEW v \in Logged
          PROVE  k[v.ptr] = mem[v.ptr]
      <3>1. v \in Pointers(src)
        BY DEF Logged
      <3>2. v.ptr \in 1 .. to0 - 1
        BY <1>2, <2>1, <3>1, PointerFacts
      <3>3. v.ptr \in 1 .. to0 + size - 1 /\ v.ptr # from
        BY <1>2, <3>2
      <3> QED
        BY <2>1, <2>3, <3>3
    <2>6. mem[from] \in Logged
      BY ForwardedLogged DEF StructIInv
    <2>7. Tracks(src, k, to0, from + 1, to, Logged)
      BY <1>1, <1>2, <1>10, <2>3, <2>4, <2>5, <2>6, TracksForwarded
    <2>8. CopiedOnce(src, k, to0, from + 1, to, Logged)
      <3>1. from <= from + 1 /\ from + 1 \in Nat
        BY <1>2
      <3> QED
        BY <1>2, <1>5, <1>10, <2>5, <3>1, OnceScans
    <2> QED
      BY <2>7, <2>8
  <1>12. Blank(k, to, to0 + size)
    <2>1. DOMAIN mem = 1 .. to0 + size - 1
      BY <1>2 DEF StructIInv, LogInv, Memory
    <2>2. PICK e \in Nat : e = to0 + size
      BY <1>2
    <2>3. DOMAIN mem = 1 .. e - 1 /\ Blank(mem, to, e)
      <3>1. DOMAIN mem = 1 .. e - 1
        BY <1>2, <2>1, <2>2
      <3>2. \A x \in to .. e - 1 : ~IsPointer(mem[x])
        BY <1>10, <2>2 DEF Blank
      <3> QED
        BY <3>1, <3>2 DEF Blank
    <2>4. ASSUME NEW x \in to .. e - 1
          PROVE  ~IsPointer(k[x])
      <3>1. ~IsPointer(mem[x])
        BY <2>3 DEF Blank
      <3>2. from \in Int /\ from < to
        BY <1>1, <1>2
      <3>3. x # from
        BY <1>2, <3>2
      <3>4. k[x] = mem[x]
        <4>1. to0 \in Nat /\ to0 >= 1 /\ to \in Int /\ to0 <= to
          BY <1>1, <1>2 DEF WellFormed, StructIInv, LogInv, StructTyped
        <4>2. x \in 1 .. e - 1
          BY <4>1
        <4> QED
          BY <1>1, <1>4, <2>3, <3>3, <4>2
      <3> QED
        BY <3>1, <3>4
    <2>5. Blank(k, to, e)
      BY <2>4 DEF Blank
    <2> QED
      BY <2>2, <2>5
  <1>13. Logged' = Logged
    BY <1>1 DEF Logged
  <1> QED
    BY <1>1, <1>2, <1>4, <1>8, <1>9, <1>10, <1>11, <1>12, <1>13 DEF Fits

\* Every step keeps the room.
LEMMA FitsStep ==
    ASSUME StructIInv, [StructNext]_structVars
    PROVE  Fits'
  <1>1. WellFormed(src)
    BY DEF StructIInv, LogInv, StructTyped
  <1>2. ASSUME UNCHANGED <<src, to0, size, from, to, log>>,
               pc' # "scan" \/ (pc' = pc /\ mem' = mem),
               pc' \in {"scan", "restore"} => pc \in {"scan", "restore"}
        PROVE  Fits'
    <2>1. Logged' = Logged
      BY <1>2 DEF Logged
    <2> QED
      BY <1>2, <2>1 DEF StructIInv, Fits
  <1>3. CASE ScanNoPointer /\ UNCHANGED <<log, ptr>>
    <2>1. CASE ScanHeader \/ ScanImmediate
      <3>1. pc = "scan" /\ UNCHANGED <<src, to0, pc, mem, size, to, log>>
        BY <1>3, <2>1 DEF ScanHeader, ScanImmediate, Scanning, given
      <3>2. PICK n \in Nat : Pending(src, mem, from, to, n) /\ to + n <= to0 + size
        BY <3>1 DEF StructIInv, Fits
      <3>3. Pending(src, mem, from', to, n) /\ from' \in Nat /\ from <= from' /\ from' <= to
        BY <1>1, <2>1, <3>2, ScanKeepsPending
      <3>4. to0 <= from'
        BY <3>3 DEF StructIInv, Fits
      <3>5. Tracks(src, mem, to0, from', to, Logged)
        BY <1>1, <2>1, <3>1, <3>2, ScanKeepsTracks DEF StructIInv, Fits
      <3>6. CopiedOnce(src, mem, to0, from', to, Logged)
        <4>1. /\ CopiedOnce(src, mem, to0, from, to, Logged) /\ from \in Nat /\ to \in Nat
              /\ \A x \in from' .. to - 1 : mem[x] = mem[x]
          BY <3>1 DEF StructIInv, Fits
        <4> QED
          BY <3>3, <4>1, OnceScans
      <3>7. Logged' = Logged
        BY <3>1 DEF Logged
      <3> QED
        BY <3>1, <3>2, <3>3, <3>4, <3>5, <3>6, <3>7 DEF StructIInv, Fits
    <2>2. CASE ScanUnsupported
      BY <1>2, <1>3, <2>2 DEF ScanUnsupported, given
    <2> QED
      BY <1>3, <2>1, <2>2 DEF ScanNoPointer
  <1>4. CASE Immediate /\ UNCHANGED <<log, ptr>>
    BY <1>2, <1>4 DEF Immediate, given
  <1>5. CASE StructStart
    BY <1>5, FitsStart
  <1>6. CASE ScanForwarded
    BY <1>6, FitsForwarded
  <1>7. CASE StructPointer
    BY <1>7, FitsPointer
  <1>8. CASE ScanEnd
    BY <1>2, <1>8 DEF ScanEnd, given
  <1>9. CASE Restore
    BY <1>2, <1>9 DEF Restore, given
  <1>10. CASE StructReturn
    BY <1>2, <1>10 DEF StructReturn, given
  <1>11. CASE UNCHANGED structVars
    BY <1>2, <1>11 DEF structVars, loopVars, given
  <1> QED
    BY <1>3, <1>4, <1>5, <1>6, <1>7, <1>8, <1>9, <1>10, <1>11 DEF StructNext

-----------------------------------------------------------------------------
\* Every step keeps the log right if there is room.
LEMMA LogStep ==
    ASSUME LogInv, [StructNext]_structVars, FitsInSize, FitsInSize'
    PROVE  LogInv'
  <1>1. from \in Int
    BY DEF LogInv, StructTyped
  <1>2. CASE Immediate /\ UNCHANGED <<log, ptr>>
    BY <1>1, <1>2, Unmoved DEF Immediate, LogInv, Fresh, given
  <1>3. CASE StructStart
    BY <1>3, StepFirst
  <1>4. CASE ScanNoPointer /\ UNCHANGED <<log, ptr>>
    <2>1. CASE ScanHeader
      BY <1>4, <2>1, StepHeader
    <2>2. CASE ScanUnsupported
      BY <1>1, <1>4, <2>2, Unmoved DEF ScanUnsupported, Scanning, given
    <2>3. CASE ScanImmediate
      BY <1>1, <1>4, <2>3, Unmoved DEF ScanImmediate, given
    <2> QED
      BY <1>4, <2>1, <2>2, <2>3 DEF ScanNoPointer
  <1>5. CASE ScanForwarded
    BY <1>5, StepForwarded
  <1>6. CASE StructPointer
    BY <1>6, StepPointer
  <1>7. CASE ScanEnd
    BY <1>1, <1>7, Unmoved DEF ScanEnd, given
  <1>8. CASE Restore
    BY <1>8, StepRestore
  <1>9. CASE StructReturn
    BY <1>1, <1>9, Unmoved DEF StructReturn, given
  <1>10. CASE UNCHANGED structVars
    BY <1>1, <1>10, Unmoved DEF structVars, loopVars, given
  <1> QED
    BY <1>2, <1>3, <1>4, <1>5, <1>6, <1>7, <1>8, <1>9, <1>10 DEF StructNext

\* Every step keeps both.
LEMMA StructStep ==
    ASSUME StructIInv, [StructNext]_structVars
    PROVE  StructIInv'
  <1>1. Fits'
    BY FitsStep
  <1>2. FitsInSize /\ FitsInSize'
    <2>1. Fits
      BY DEF StructIInv
    <2>2. FitsInSize
      BY <2>1, FitsTheSize
    <2>3. FitsInSize'
      BY <1>1 DEF Fits, FitsInSize
    <2> QED
      BY <2>2, <2>3
  <1>3. LogInv'
    BY <1>2, LogStep DEF StructIInv
  <1> QED
    BY <1>1, <1>3 DEF StructIInv

\* enif_make_struct_copy never writes past the words flat_size counted before it began
\* to overwrite the source, nor past the log of twice as many words: for every
\* well-formed term, however its objects are shared.
THEOREM StructCopyFits == StructSpec => []FillsSize
  <1>1. StructInit => StructIInv
    BY StructInitial
  <1>2. StructIInv /\ [StructNext]_structVars => StructIInv'
    BY StructStep
  <1>3. StructIInv => FillsSize
    BY DEF StructIInv, Fits, LogInv, Memory, StructTyped, FillsSize
  <1> QED
    BY <1>1, <1>2, <1>3, PTL DEF StructSpec

\* Its log tells at every moment what the source was: the words that differ are
\* logged, each once, with what they were.
THEOREM StructLogRepairs == StructSpec => []LogRepairs
  <1>1. StructInit => StructIInv
    BY StructInitial
  <1>2. StructIInv /\ [StructNext]_structVars => StructIInv'
    BY StructStep
  <1>3. StructIInv => LogRepairs
    <2>1. ASSUME Fits
          PROVE  Len(log) <= to - to0 /\ 2 * Len(log) <= 2 * size
      <3>1. PICK b \in Nat, t \in Nat, n \in Nat, l \in Nat :
              /\ b = to /\ t = to0 /\ n = size /\ l = Len(log)
              /\ b <= t + n /\ l <= b - t
        BY <2>1 DEF Fits
      <3>2. 2 * l <= 2 * n
        BY <3>1
      <3> QED
        BY <3>1, <3>2
    <2> QED
      BY <2>1 DEF StructIInv, LogInv, LogRepairs
  <1> QED
    BY <1>1, <1>2, <1>3, PTL DEF StructSpec

\* When the log has been worked off, the source is as it was.
LEMMA LogWorkedOff ==
    ASSUME LogInv, ptr = Len(log)
    PROVE  \A a \in 1 .. to0 - 1 : mem[a] = src.mem[a]
  <1>1. ptr \in Nat /\ ptr + 1 .. Len(log) = {}
    BY DEF LogInv, StructTyped
  <1> QED
    BY <1>1 DEF LogInv, SourceLogged

\* When it has returned a copy, the source is as it was, word for word.
Repaired == pc = "done" => \A a \in 1 .. to0 - 1 : mem[a] = src.mem[a]

THEOREM StructSourceRepaired == StructSpec => []Repaired
  <1>1. StructInit => StructIInv
    BY StructInitial
  <1>2. StructIInv /\ [StructNext]_structVars => StructIInv'
    BY StructStep
  <1>3. StructIInv => Repaired
    BY LogWorkedOff DEF StructIInv, LogInv, Worked, Repaired
  <1> QED
    BY <1>1, <1>2, <1>3, PTL DEF StructSpec

-----------------------------------------------------------------------------
\* What the loop has made of the term when it is through, and what is returned: the
\* restored words are not of the copy.
StructKept ==
    /\ pc \in {"scan", "restore"} => result = Moved(src.term, to0)
    /\ pc = "restore" => TracksOnce(src, mem, to0, to) /\ Blank(mem, to, to0 + size)
    /\ pc = "done" /\ size > 0 => /\ CopyOf(src, mem, to0, to) /\ TracksOnce(src, mem, to0, to)
                                  /\ result = Moved(src.term, to0)
    /\ Returned

\* What the scan leaves to return
LEMMA KeptStart ==
    ASSUME StructIInv, StructStart
    PROVE  StructKept'
  <1>1. src' = src /\ to0' = to0 /\ pc' = "scan"
    BY DEF StructStart, given
  <1>2. result' = Moved(src.term, to0)
    BY DEF StructStart, Moved
  <1> QED
    BY <1>1, <1>2 DEF StructKept, Returned

\* The loop ends.
LEMMA KeptEnd ==
    ASSUME StructIInv, StructKept, ScanEnd
    PROVE  StructKept'
  <1>1. /\ pc = "scan" /\ from = to /\ pc' = "restore"
        /\ UNCHANGED <<src, to0, mem, size, to, result>>
    BY DEF ScanEnd, given
  <1>2. /\ Tracks(src, mem, to0, to, to, Logged) /\ Blank(mem, to, to0 + size)
        /\ CopiedOnce(src, mem, to0, to, to, Logged) /\ src.term \in Pointers(src)
        /\ to0 \in Nat /\ to \in Nat /\ WellFormed(src)
    BY <1>1 DEF StructIInv, Fits, LogInv, StructTyped
  <1>3. TracksOnce(src, mem, to0, to)
    BY <1>2, OnceEnds
  <1> QED
    BY <1>1, <1>2, <1>3 DEF StructKept, Returned

\* A word of the source is repaired.
LEMMA KeptRestore ==
    ASSUME StructIInv, StructKept, Restore
    PROVE  StructKept'
  <1>1. /\ pc = "restore" /\ ptr < Len(log) /\ mem' = [mem EXCEPT ![log[ptr + 1].at] = log[ptr + 1].was]
        /\ UNCHANGED <<src, pc, size, to0, to, result>>
    BY DEF Restore, given
  <1>2. /\ TracksOnce(src, mem, to0, to) /\ Blank(mem, to, to0 + size)
        /\ to0 \in Nat /\ to \in Nat /\ to0 <= to /\ size \in Nat
    BY <1>1 DEF StructIInv, Fits, StructKept
  <1>3. log[ptr + 1].at \in 1 .. to0 - 1
    <2>1. ptr \in Nat /\ Len(log) \in Nat /\ ptr + 1 \in 1 .. Len(log)
      BY <1>1 DEF StructIInv, LogInv, StructTyped
    <2> QED
      BY <2>1 DEF StructIInv, LogInv, SourceLogged
  <1>4. PICK p \in 1 .. to0 - 1 : p = log[ptr + 1].at
    BY <1>3
  <1>5. PICK k : k = mem' /\ \A x : x # p => k[x] = mem[x]
    <2>1. \A x : x # log[ptr + 1].at => mem'[x] = mem[x]
      BY <1>1
    <2> QED
      BY <1>4, <2>1
  <1>6. PICK t \in Nat, b \in Nat, e \in Nat : t = to0 /\ b = to /\ e = to0 + size /\ t <= b /\ p < t
    <2>1. to0 + size \in Nat
      BY <1>2
    <2> QED
      BY <1>2, <2>1
  <1>7. TracksOnce(src, k, t, b)
    <2>1. \A x \in t .. b - 1 : x # p
      BY <1>6
    <2>2. \A x \in t .. b - 1 : k[x] = mem[x]
      BY <1>5, <2>1
    <2> QED
      BY <1>2, <1>6, <2>2, OnceSame
  <1>8. Blank(k, b, e)
    <2>1. \A x \in b .. e - 1 : x # p
      BY <1>6
    <2> QED
      BY <1>2, <1>5, <1>6, <2>1 DEF Blank
  <1>9. to0' + size' = e
    BY <1>1, <1>6
  <1> QED
    BY <1>1, <1>5, <1>6, <1>7, <1>8, <1>9 DEF StructKept, Returned

\* The copy is returned.
LEMMA KeptReturn ==
    ASSUME StructIInv, StructKept, StructReturn
    PROVE  StructKept'
  <1>1. /\ pc = "restore" /\ ptr = Len(log) /\ pc' = "done"
        /\ UNCHANGED <<src, mem, size, to0, to, result>>
    BY DEF StructReturn, given
  <1>2. HasSource(src, mem, to0) /\ to0 = Cardinality(DOMAIN src.mem) + 1
    BY <1>1, LogWorkedOff DEF StructIInv, LogInv, StructTyped, HasSource
  <1>3. PICK d \in Nat : d = to0 + size
    BY DEF StructIInv, Fits
  <1>4. DOMAIN mem = 1 .. d - 1 /\ to0 <= to /\ to <= d
    <2>1. DOMAIN mem = 1 .. to0 + size - 1 /\ to0 \in Nat /\ size \in Nat
      BY DEF StructIInv, LogInv, Memory, Fits
    <2> QED
      BY <1>3, <2>1 DEF StructIInv, Fits
  <1>5. \A x \in to .. d - 1 : ~IsPointer(mem[x])
    BY <1>1, <1>3 DEF StructKept, Blank
  <1>6. /\ TracksOnce(src, mem, to0, to) /\ src.term \in Pointers(src)
        /\ result = Moved(src.term, to0)
    BY <1>1 DEF StructIInv, Fits, StructKept
  <1>7. Tracks(src, mem, to0, to, to, {})
    BY <1>6 DEF TracksOnce, TracedOnce, Tracks
  <1>8. CopyOf(src, mem, to0, to)
    BY <1>2, <1>4, <1>5, <1>6, <1>7 DEF CopyOf
  <1> QED
    BY <1>1, <1>6, <1>8 DEF StructKept, Returned

\* Every step keeps the copy.
LEMMA KeptStep ==
    ASSUME StructIInv, StructKept, [StructNext]_structVars
    PROVE  StructKept'
  <1>1. ASSUME pc = "scan", pc' = "scan", UNCHANGED <<src, to0, result>>
        PROVE  StructKept'
    BY <1>1 DEF StructKept, Returned
  <1>2. CASE Immediate /\ UNCHANGED <<log, ptr>>
    <2>1. /\ pc = "start" /\ pc' = "done" /\ result' = src.term
          /\ UNCHANGED <<src, to0, mem, size, to>>
      BY <1>2 DEF Immediate, given
    <2>2. mem = src.mem /\ size = 0 /\ to = to0
      BY <2>1 DEF StructIInv, LogInv, Fresh
    <2> QED
      BY <2>1, <2>2 DEF StructKept, Returned
  <1>3. CASE StructStart
    BY <1>3, KeptStart
  <1>4. CASE ScanNoPointer /\ UNCHANGED <<log, ptr>>
    <2>1. CASE ScanUnsupported
      BY <2>1 DEF ScanUnsupported, StructKept, Returned
    <2>2. CASE ScanHeader \/ ScanImmediate
      <3>1. pc = "scan" /\ pc' = "scan" /\ UNCHANGED <<src, to0, result>>
        BY <2>2 DEF ScanHeader, ScanImmediate, Scanning, given
      <3> QED
        BY <1>1, <3>1
    <2> QED
      BY <1>4, <2>1, <2>2 DEF ScanNoPointer
  <1>5. CASE ScanForwarded
    <2>1. pc = "scan" /\ pc' = "scan" /\ UNCHANGED <<src, to0, result>>
      BY <1>5 DEF ScanForwarded, Scanning, given
    <2> QED
      BY <1>1, <2>1
  <1>6. CASE StructPointer
    <2>1. pc = "scan" /\ pc' = "scan" /\ UNCHANGED <<src, to0, result>>
      BY <1>6 DEF StructPointer, Scanning, given
    <2> QED
      BY <1>1, <2>1
  <1>7. CASE ScanEnd
    BY <1>7, KeptEnd
  <1>8. CASE Restore
    BY <1>8, KeptRestore
  <1>9. CASE StructReturn
    BY <1>9, KeptReturn
  <1>10. CASE UNCHANGED structVars
    BY <1>10 DEF structVars, loopVars, given, StructKept, Returned
  <1> QED
    BY <1>2, <1>3, <1>4, <1>5, <1>6, <1>7, <1>8, <1>9, <1>10 DEF StructNext

\* It returns the same term too, of the same shape and with the same immediates, digits
\* and bytes, in words of its own, although it copies a shared object once, finds it
\* again by the pointer it left in the source, and has overwritten the source meanwhile.
THEOREM StructSameTerm == StructSpec => []SameTerm
  <1>1. StructInit => StructIInv /\ StructKept
    <2>1. StructInit => StructKept
      BY DEF StructInit, CopyInit, StructKept, Returned
    <2> QED
      BY <2>1, StructInitial
  <1>2. StructIInv /\ StructKept /\ [StructNext]_structVars => (StructIInv /\ StructKept)'
    BY StructStep, KeptStep
  <1>3. StructIInv /\ StructKept => SameTerm
    BY SameReturned DEF StructIInv, LogInv, StructTyped, Fits, StructKept
  <1> QED
    BY <1>1, <1>2, <1>3, PTL DEF StructSpec

\* Its copy has every object of the term once, and the words it has are those: as many
\* as the objects of the term have, each of them counted once, which is what sharing
\* saves over the flat copy.
THEOREM StructCopiesOnce == StructSpec => []CopiesOnce
  <1>1. StructInit => StructIInv /\ StructKept
    <2>1. StructInit => StructKept
      BY DEF StructInit, CopyInit, StructKept, Returned
    <2> QED
      BY <2>1, StructInitial
  <1>2. StructIInv /\ StructKept /\ [StructNext]_structVars => (StructIInv /\ StructKept)'
    BY StructStep, KeptStep
  <1>3. StructIInv /\ StructKept => CopiesOnce
    <2> SUFFICES ASSUME StructIInv, StructKept, pc = "done", size > 0
                 PROVE  /\ to - to0 = SharedSize(src.mem, src.term)
                        /\ SharedSize(mem, result) = to - to0
      BY DEF CopiesOnce
    <2>1. /\ CopyOf(src, mem, to0, to) /\ TracksOnce(src, mem, to0, to)
          /\ result = Moved(src.term, to0)
      BY DEF StructKept
    <2>2. WellFormed(src) /\ to0 \in Nat /\ to \in Nat
      BY DEF StructIInv, LogInv, StructTyped, Fits
    <2> QED
      BY <2>1, <2>2, OnceCounts
  <1> QED
    BY <1>1, <1>2, <1>3, PTL DEF StructSpec
=============================================================================
