--------------------------- MODULE Numbers_proofs ---------------------------
(***************************************************************************)
(* The numbers of src/src/cnif_arith.c and src/src/cnif_big.c for every    *)
(* base, any number of digits and any integers: the sums and differences   *)
(* of bignums are exact, and a number survives the way into a term and     *)
(* back, as an integer does the way through enif_make_int64 or             *)
(* enif_make_uint64 (src/src/cnif.c) and the get functions.                *)
(***************************************************************************)
EXTENDS BigArith, MadeTerms, WellFoundedInduction, FiniteSetTheorems,
        SequenceTheorems, TLAPS

-----------------------------------------------------------------------------
\* A set of numbers has a least one.
LEMMA LeastNat ==
    ASSUME NEW T \in SUBSET Nat, T # {}
    PROVE  \E x \in T : \A y \in T : ~(y < x)
  <1>1. IsWellFoundedOn(OpToRel(<, Nat), Nat)
    BY NatLessThanWellFounded
  <1>2. PICK x \in T : \A y \in T : ~(<<y, x>> \in OpToRel(<, Nat))
    BY <1>1, WFMin
  <1> QED
    BY <1>2 DEF OpToRel

\* f starts with z, and each value is made of the one before by G.
Runs(f, z, G, n) == f[0] = z /\ \A i \in 1 .. n : f[i] = G[<<i, f[i - 1]>>]

\* What a loop of n turns computes exists.
LEMMA RunExists ==
    ASSUME NEW n \in Nat, NEW S, NEW z \in S, NEW G \in [(1 .. n) \X S -> S]
    PROVE  \E f \in [0 .. n -> S] : Runs(f, z, G, n)
  <1> DEFINE bad == {k \in 0 .. n : ~ \E f \in [0 .. k -> S] : Runs(f, z, G, k)}
  <1> SUFFICES ASSUME bad # {}
               PROVE  FALSE
    OBVIOUS
  <1>1. PICK k \in bad : \A j \in bad : ~(j < k)
    <2>1. bad \in SUBSET Nat
      OBVIOUS
    <2> HIDE DEF bad
    <2> QED
      BY <2>1, LeastNat
  <1>2. k # 0
    <2>1. [i \in 0 .. 0 |-> z] \in [0 .. 0 -> S] /\ Runs([i \in 0 .. 0 |-> z], z, G, 0)
      BY DEF Runs
    <2> QED
      BY <1>1, <2>1
  <1>3. k \in 1 .. n /\ k - 1 \in 0 .. n /\ k - 1 < k
    BY <1>1, <1>2
  <1>4. PICK g \in [0 .. k - 1 -> S] : Runs(g, z, G, k - 1)
    BY <1>1, <1>3
  <1> DEFINE h == [i \in 0 .. k |-> IF i = k THEN G[<<k, g[k - 1]>>] ELSE g[i]]
  <1>5. g[k - 1] \in S /\ G[<<k, g[k - 1]>>] \in S
    <2>1. k - 1 \in 0 .. k - 1
      BY <1>3
    <2>2. g[k - 1] \in S
      BY <1>4, <2>1
    <2>3. <<k, g[k - 1]>> \in (1 .. n) \X S
      BY <1>3, <2>2
    <2> QED
      BY <2>2, <2>3
  <1>6. h \in [0 .. k -> S]
    <2>1. ASSUME NEW i \in 0 .. k, i # k
          PROVE  i \in 0 .. k - 1
      BY <1>3, <2>1
    <2> QED
      BY <1>4, <1>5, <2>1
  <1>7. Runs(h, z, G, k)
    <2>1. h[0] = z
      BY <1>3, <1>4 DEF Runs
    <2>2. ASSUME NEW i \in 1 .. k
          PROVE  h[i] = G[<<i, h[i - 1]>>]
      <3>1. h[i - 1] = g[i - 1]
        BY <1>3
      <3>2. CASE i = k
        BY <1>3, <3>1, <3>2
      <3>3. CASE i # k
        <4>1. i \in 1 .. k - 1
          BY <1>3, <3>3
        <4>2. g[i] = G[<<i, g[i - 1]>>]
          BY <1>4, <4>1 DEF Runs
        <4>3. h[i] = g[i]
          BY <3>3
        <4> HIDE DEF h
        <4> QED
          BY <3>1, <4>2, <4>3
      <3> QED
        BY <3>2, <3>3
    <2> QED
      BY <2>1, <2>2 DEF Runs
  <1> QED
    BY <1>1, <1>6, <1>7

\* What one turn keeps, all keep.
LEMMA RunKeeps ==
    ASSUME NEW n \in Nat, NEW S, NEW f, f[0] \in S,
           \A i \in 1 .. n : f[i - 1] \in S => f[i] \in S
    PROVE  \A i \in 0 .. n : f[i] \in S
  <1> DEFINE bad == {k \in 0 .. n : f[k] \notin S}
  <1> SUFFICES ASSUME bad # {}
               PROVE  FALSE
    OBVIOUS
  <1>1. PICK k \in bad : \A j \in bad : ~(j < k)
    <2>1. bad \in SUBSET Nat
      OBVIOUS
    <2> HIDE DEF bad
    <2> QED
      BY <2>1, LeastNat
  <1>2. k \in 1 .. n /\ k - 1 \in 0 .. n /\ k - 1 < k
    BY <1>1
  <1>3. f[k - 1] \in S
    BY <1>1, <1>2
  <1> QED
    BY <1>1, <1>2, <1>3

-----------------------------------------------------------------------------
\* One turn of the additions
LEMMA CarryFacts ==
    ASSUME NEW x \in Digit, NEW y \in Digit, NEW c \in 0 .. 1
    PROVE  LET r == Carry(x, y, c) IN
           /\ r.digit \in Digit /\ r.carry \in 0 .. 1
           /\ r.digit + Base * r.carry = x + y + c
  <1>1. Base \in Nat /\ Base >= 2 /\ x \in 0 .. Base - 1 /\ y \in 0 .. Base - 1
    BY IntTermAssumption DEF Digit
  <1>2. PICK s \in Int : s = (y + c) % Base
    BY <1>1
  <1>3. PICK t \in Int : t = (x + s) % Base
    BY <1>1, <1>2
  <1>4. s = IF y + c < Base THEN y + c ELSE 0
    BY <1>1, <1>2
  <1>5. t = IF x + s < Base THEN x + s ELSE x + s - Base
    BY <1>1, <1>3, <1>4
  <1>6. Carry(x, y, c) = [digit |-> t, carry |-> Bit(s < c) + Bit(t < x)]
    BY <1>2, <1>3 DEF Carry
  <1>7. t \in Digit
    BY <1>1, <1>4, <1>5 DEF Digit
  <1>8. \/ Bit(s < c) + Bit(t < x) = 0 /\ t = x + y + c
        \/ Bit(s < c) + Bit(t < x) = 1 /\ t + Base = x + y + c
    BY <1>1, <1>4, <1>5 DEF Bit
  <1> QED
    BY <1>1, <1>6, <1>7, <1>8

\* One turn of the subtractions
LEMMA BorrowFacts ==
    ASSUME NEW x \in Digit, NEW y \in Digit, NEW c \in 0 .. 1
    PROVE  LET r == Borrow(x, y, c) IN
           /\ r.digit \in Digit /\ r.carry \in 0 .. 1
           /\ r.digit + y + c = x + Base * r.carry
  <1>1. Base \in Nat /\ Base >= 2 /\ x \in 0 .. Base - 1 /\ y \in 0 .. Base - 1
    BY IntTermAssumption DEF Digit
  <1>2. PICK s \in Int : s = (y + c) % Base
    BY <1>1
  <1>3. PICK t \in Int : t = (x - s) % Base
    BY <1>1, <1>2
  <1>4. s = IF y + c < Base THEN y + c ELSE 0
    BY <1>1, <1>2
  <1>5. t = IF x - s >= 0 THEN x - s ELSE x - s + Base
    BY <1>1, <1>3, <1>4
  <1>6. Borrow(x, y, c) = [digit |-> t, carry |-> Bit(s < c) + Bit(t > x)]
    BY <1>2, <1>3 DEF Borrow
  <1>7. t \in Digit
    BY <1>1, <1>4, <1>5 DEF Digit
  <1>8. \/ Bit(s < c) + Bit(t > x) = 0 /\ t + y + c = x
        \/ Bit(s < c) + Bit(t > x) = 1 /\ t + y + c = x + Base
    BY <1>1, <1>4, <1>5 DEF Bit
  <1> QED
    BY <1>1, <1>6, <1>7, <1>8

-----------------------------------------------------------------------------
\* What the loops of the additions and of the subtractions do, turn by turn: c are the
\* carries
Carries(u, v, t, c) ==
    /\ c[0] = 0
    /\ \A i \in 1 .. Len(u) : t[i] + Base * c[i] = u[i] + DigitOf(v, i) + c[i - 1]

Borrows(u, v, t, c) ==
    /\ c[0] = 0
    /\ \A i \in 1 .. Len(u) : t[i] + DigitOf(v, i) + c[i - 1] = u[i] + Base * c[i]

LEMMA DigitOfFacts ==
    ASSUME NEW v \in Seq(Digit), NEW i \in Nat \ {0}
    PROVE  DigitOf(v, i) \in Digit
  <1>1. 0 \in Digit
    BY IntTermAssumption DEF Digit
  <1>2. i <= Len(v) => v[i] \in Digit
    OBVIOUS
  <1> QED
    BY <1>1, <1>2 DEF DigitOf

Turn == [digit : Digit, carry : 0 .. 1]

LEMMA CarryTurns ==
    ASSUME NEW u \in Seq(Digit), NEW v \in Seq(Digit)
    PROVE  /\ Turns(Carry, u, v) \in [0 .. Len(u) -> Turn]
           /\ Turns(Carry, u, v)[0].carry = 0
           /\ \A i \in 1 .. Len(u) :
                Turns(Carry, u, v)[i] = Carry(u[i], DigitOf(v, i), Turns(Carry, u, v)[i - 1].carry)
  <1> DEFINE G == [p \in (1 .. Len(u)) \X Turn |-> Carry(u[p[1]], DigitOf(v, p[1]), p[2].carry)]
             z == [digit |-> 0, carry |-> 0]
             F(f) == [i \in 0 .. Len(u) |->
                        IF i = 0 THEN z ELSE Carry(u[i], DigitOf(v, i), f[i - 1].carry)]
  <1>1. z \in Turn
    BY IntTermAssumption DEF Turn, Digit
  <1>2. \A x, y \in Digit, c \in 0 .. 1 : Carry(x, y, c) \in Turn
    <2> SUFFICES ASSUME NEW x \in Digit, NEW y \in Digit, NEW c \in 0 .. 1
                 PROVE  Carry(x, y, c) \in Turn
      OBVIOUS
    <2>1. Carry(x, y, c).digit \in Digit /\ Carry(x, y, c).carry \in 0 .. 1
      BY CarryFacts
    <2> QED
      BY <2>1 DEF Carry, Turn
  <1>3. G \in [(1 .. Len(u)) \X Turn -> Turn]
    <2>1. ASSUME NEW p \in (1 .. Len(u)) \X Turn
          PROVE  G[p] \in Turn
      <3>1. p[1] \in 1 .. Len(u) /\ p[2] \in Turn
        OBVIOUS
      <3>2. u[p[1]] \in Digit /\ DigitOf(v, p[1]) \in Digit /\ p[2].carry \in 0 .. 1
        BY <3>1, DigitOfFacts DEF Turn
      <3> QED
        BY <1>2, <3>2
    <2> QED
      BY <2>1
  <1>4. PICK f \in [0 .. Len(u) -> Turn] : Runs(f, z, G, Len(u))
    <2>1. Len(u) \in Nat
      OBVIOUS
    <2> HIDE DEF G, z
    <2> QED
      BY <1>1, <1>3, <2>1, RunExists
  <1>5. f = F(f)
    <2>1. ASSUME NEW i \in 0 .. Len(u)
          PROVE  f[i] = F(f)[i]
      <3>1. CASE i = 0
        BY <1>4, <3>1 DEF Runs
      <3>2. CASE i # 0
        <4>1. i \in 1 .. Len(u) /\ i - 1 \in 0 .. Len(u)
          BY <3>2
        <4>2. <<i, f[i - 1]>> \in (1 .. Len(u)) \X Turn
          BY <1>4, <4>1
        <4>3. f[i] = G[<<i, f[i - 1]>>]
          BY <1>4, <4>1 DEF Runs
        <4> QED
          BY <3>2, <4>2, <4>3
      <3> QED
        BY <3>1, <3>2
    <2> QED
      BY <1>4, <2>1
  <1> DEFINE g == CHOOSE g : g = F(g)
  <1>6. g = F(g)
    BY <1>5
  <1>7. Turns(Carry, u, v) = g
    BY DEF Turns
  <1> HIDE DEF g
  <1>8. g[0] = z /\ \A i \in 1 .. Len(u) : g[i] = Carry(u[i], DigitOf(v, i), g[i - 1].carry)
    BY <1>6
  <1>9. \A i \in 0 .. Len(u) : g[i] \in Turn
    <2>1. g[0] \in Turn /\ Len(u) \in Nat
      BY <1>1, <1>8
    <2>2. ASSUME NEW i \in 1 .. Len(u), g[i - 1] \in Turn
          PROVE  g[i] \in Turn
      <3>1. u[i] \in Digit /\ DigitOf(v, i) \in Digit /\ g[i - 1].carry \in 0 .. 1
        BY <2>2, DigitOfFacts DEF Turn
      <3> QED
        BY <1>2, <1>8, <3>1
    <2> QED
      BY <2>1, <2>2, RunKeeps
  <1>10. g = [i \in 0 .. Len(u) |-> g[i]]
    BY <1>6
  <1>11. g \in [0 .. Len(u) -> Turn]
    BY <1>9, <1>10
  <1>12. g[0].carry = 0
    BY <1>8
  <1> QED
    BY <1>7, <1>8, <1>11, <1>12

LEMMA BorrowTurns ==
    ASSUME NEW u \in Seq(Digit), NEW v \in Seq(Digit)
    PROVE  /\ Turns(Borrow, u, v) \in [0 .. Len(u) -> Turn]
           /\ Turns(Borrow, u, v)[0].carry = 0
           /\ \A i \in 1 .. Len(u) :
                Turns(Borrow, u, v)[i] =
                  Borrow(u[i], DigitOf(v, i), Turns(Borrow, u, v)[i - 1].carry)
  <1> DEFINE G == [p \in (1 .. Len(u)) \X Turn |-> Borrow(u[p[1]], DigitOf(v, p[1]), p[2].carry)]
             z == [digit |-> 0, carry |-> 0]
             F(f) == [i \in 0 .. Len(u) |->
                        IF i = 0 THEN z ELSE Borrow(u[i], DigitOf(v, i), f[i - 1].carry)]
  <1>1. z \in Turn
    BY IntTermAssumption DEF Turn, Digit
  <1>2. \A x, y \in Digit, c \in 0 .. 1 : Borrow(x, y, c) \in Turn
    <2> SUFFICES ASSUME NEW x \in Digit, NEW y \in Digit, NEW c \in 0 .. 1
                 PROVE  Borrow(x, y, c) \in Turn
      OBVIOUS
    <2>1. Borrow(x, y, c).digit \in Digit /\ Borrow(x, y, c).carry \in 0 .. 1
      BY BorrowFacts
    <2> QED
      BY <2>1 DEF Borrow, Turn
  <1>3. G \in [(1 .. Len(u)) \X Turn -> Turn]
    <2>1. ASSUME NEW p \in (1 .. Len(u)) \X Turn
          PROVE  G[p] \in Turn
      <3>1. p[1] \in 1 .. Len(u) /\ p[2] \in Turn
        OBVIOUS
      <3>2. u[p[1]] \in Digit /\ DigitOf(v, p[1]) \in Digit /\ p[2].carry \in 0 .. 1
        BY <3>1, DigitOfFacts DEF Turn
      <3> QED
        BY <1>2, <3>2
    <2> QED
      BY <2>1
  <1>4. PICK f \in [0 .. Len(u) -> Turn] : Runs(f, z, G, Len(u))
    <2>1. Len(u) \in Nat
      OBVIOUS
    <2> HIDE DEF G, z
    <2> QED
      BY <1>1, <1>3, <2>1, RunExists
  <1>5. f = F(f)
    <2>1. ASSUME NEW i \in 0 .. Len(u)
          PROVE  f[i] = F(f)[i]
      <3>1. CASE i = 0
        BY <1>4, <3>1 DEF Runs
      <3>2. CASE i # 0
        <4>1. i \in 1 .. Len(u) /\ i - 1 \in 0 .. Len(u)
          BY <3>2
        <4>2. <<i, f[i - 1]>> \in (1 .. Len(u)) \X Turn
          BY <1>4, <4>1
        <4>3. f[i] = G[<<i, f[i - 1]>>]
          BY <1>4, <4>1 DEF Runs
        <4> QED
          BY <3>2, <4>2, <4>3
      <3> QED
        BY <3>1, <3>2
    <2> QED
      BY <1>4, <2>1
  <1> DEFINE g == CHOOSE g : g = F(g)
  <1>6. g = F(g)
    BY <1>5
  <1>7. Turns(Borrow, u, v) = g
    BY DEF Turns
  <1> HIDE DEF g
  <1>8. g[0] = z /\ \A i \in 1 .. Len(u) : g[i] = Borrow(u[i], DigitOf(v, i), g[i - 1].carry)
    BY <1>6
  <1>9. \A i \in 0 .. Len(u) : g[i] \in Turn
    <2>1. g[0] \in Turn /\ Len(u) \in Nat
      BY <1>1, <1>8
    <2>2. ASSUME NEW i \in 1 .. Len(u), g[i - 1] \in Turn
          PROVE  g[i] \in Turn
      <3>1. u[i] \in Digit /\ DigitOf(v, i) \in Digit /\ g[i - 1].carry \in 0 .. 1
        BY <2>2, DigitOfFacts DEF Turn
      <3> QED
        BY <1>2, <1>8, <3>1
    <2> QED
      BY <2>1, <2>2, RunKeeps
  <1>10. g = [i \in 0 .. Len(u) |-> g[i]]
    BY <1>6
  <1>11. g \in [0 .. Len(u) -> Turn]
    BY <1>9, <1>10
  <1>12. g[0].carry = 0
    BY <1>8
  <1> QED
    BY <1>7, <1>8, <1>11, <1>12

\* The digits and carries of the loop of the additions
LEMMA ChainCarry ==
    ASSUME NEW u \in Seq(Digit), NEW v \in Seq(Digit), NEW r, r = Chain(Carry, u, v)
    PROVE  /\ r.digits \in Seq(Digit) /\ Len(r.digits) = Len(u) /\ r.carry \in 0 .. 1
           /\ \E c \in [0 .. Len(u) -> 0 .. 1] :
                Carries(u, v, r.digits, c) /\ r.carry = c[Len(u)]
  <1>1. PICK f \in [0 .. Len(u) -> Turn] :
          /\ f = Turns(Carry, u, v) /\ f[0].carry = 0
          /\ \A i \in 1 .. Len(u) : f[i] = Carry(u[i], DigitOf(v, i), f[i - 1].carry)
    BY CarryTurns
  <1> DEFINE t == [i \in 1 .. Len(u) |-> f[i].digit]
             c == [i \in 0 .. Len(u) |-> f[i].carry]
  <1>2. r = [digits |-> t, carry |-> f[Len(u)].carry]
    BY <1>1 DEF Chain
  <1>3. Len(u) \in Nat
    OBVIOUS
  <1>4. \A i \in 0 .. Len(u) : f[i].digit \in Digit /\ f[i].carry \in 0 .. 1
    BY <1>1 DEF Turn
  <1>5. t \in Seq(Digit) /\ Len(t) = Len(u)
    <2>1. t \in [1 .. Len(u) -> Digit]
      BY <1>4
    <2> HIDE DEF t
    <2> QED
      BY <1>3, <2>1
  <1>6. c \in [0 .. Len(u) -> 0 .. 1] /\ c[Len(u)] = f[Len(u)].carry
    BY <1>3, <1>4
  <1>7. Carries(u, v, t, c)
    <2>1. c[0] = 0
      BY <1>1, <1>3
    <2>2. ASSUME NEW i \in 1 .. Len(u)
          PROVE  t[i] + Base * c[i] = u[i] + DigitOf(v, i) + c[i - 1]
      <3>1. u[i] \in Digit /\ DigitOf(v, i) \in Digit /\ i - 1 \in 0 .. Len(u) /\ i \in 0 .. Len(u)
        BY DigitOfFacts
      <3>2. f[i - 1].carry \in 0 .. 1 /\ f[i] = Carry(u[i], DigitOf(v, i), f[i - 1].carry)
        BY <1>1, <1>4, <3>1
      <3>3. f[i].digit + Base * f[i].carry = u[i] + DigitOf(v, i) + f[i - 1].carry
        BY <3>1, <3>2, CarryFacts
      <3>4. t[i] = f[i].digit /\ c[i] = f[i].carry /\ c[i - 1] = f[i - 1].carry
        BY <3>1
      <3> QED
        BY <3>3, <3>4
    <2> QED
      BY <2>1, <2>2 DEF Carries
  <1>8. r.digits = t /\ r.carry = c[Len(u)] /\ r.carry \in 0 .. 1
    BY <1>2, <1>3, <1>4, <1>6
  <1> HIDE DEF t, c
  <1> QED
    BY <1>5, <1>6, <1>7, <1>8

\* The digits and carries of the loop of the subtractions
LEMMA ChainBorrow ==
    ASSUME NEW u \in Seq(Digit), NEW v \in Seq(Digit), NEW r, r = Chain(Borrow, u, v)
    PROVE  /\ r.digits \in Seq(Digit) /\ Len(r.digits) = Len(u) /\ r.carry \in 0 .. 1
           /\ \E c \in [0 .. Len(u) -> 0 .. 1] :
                Borrows(u, v, r.digits, c) /\ r.carry = c[Len(u)]
  <1>1. PICK f \in [0 .. Len(u) -> Turn] :
          /\ f = Turns(Borrow, u, v) /\ f[0].carry = 0
          /\ \A i \in 1 .. Len(u) : f[i] = Borrow(u[i], DigitOf(v, i), f[i - 1].carry)
    BY BorrowTurns
  <1> DEFINE t == [i \in 1 .. Len(u) |-> f[i].digit]
             c == [i \in 0 .. Len(u) |-> f[i].carry]
  <1>2. r = [digits |-> t, carry |-> f[Len(u)].carry]
    BY <1>1 DEF Chain
  <1>3. Len(u) \in Nat
    OBVIOUS
  <1>4. \A i \in 0 .. Len(u) : f[i].digit \in Digit /\ f[i].carry \in 0 .. 1
    BY <1>1 DEF Turn
  <1>5. t \in Seq(Digit) /\ Len(t) = Len(u)
    <2>1. t \in [1 .. Len(u) -> Digit]
      BY <1>4
    <2> HIDE DEF t
    <2> QED
      BY <1>3, <2>1
  <1>6. c \in [0 .. Len(u) -> 0 .. 1] /\ c[Len(u)] = f[Len(u)].carry
    BY <1>3, <1>4
  <1>7. Borrows(u, v, t, c)
    <2>1. c[0] = 0
      BY <1>1, <1>3
    <2>2. ASSUME NEW i \in 1 .. Len(u)
          PROVE  t[i] + DigitOf(v, i) + c[i - 1] = u[i] + Base * c[i]
      <3>1. u[i] \in Digit /\ DigitOf(v, i) \in Digit /\ i - 1 \in 0 .. Len(u) /\ i \in 0 .. Len(u)
        BY DigitOfFacts
      <3>2. f[i - 1].carry \in 0 .. 1 /\ f[i] = Borrow(u[i], DigitOf(v, i), f[i - 1].carry)
        BY <1>1, <1>4, <3>1
      <3>3. f[i].digit + DigitOf(v, i) + f[i - 1].carry = u[i] + Base * f[i].carry
        BY <3>1, <3>2, BorrowFacts
      <3>4. t[i] = f[i].digit /\ c[i] = f[i].carry /\ c[i - 1] = f[i - 1].carry
        BY <3>1
      <3> QED
        BY <3>3, <3>4
    <2> QED
      BY <2>1, <2>2 DEF Borrows
  <1>8. r.digits = t /\ r.carry = c[Len(u)] /\ r.carry \in 0 .. 1
    BY <1>2, <1>3, <1>4, <1>6
  <1> HIDE DEF t, c
  <1> QED
    BY <1>5, <1>6, <1>7, <1>8

-----------------------------------------------------------------------------
\* h[i] is the number of the digits from i on, of v made n digits long.
Reads(h, v, n) ==
    /\ h \in [1 .. n + 1 -> Nat] /\ h[n + 1] = 0
    /\ \A i \in 1 .. n : h[i] = DigitOf(v, i) + Base * h[i + 1]

\* f adds up the digits u from the last of n.
AddsUp(f, u, n) == f = [i \in 1 .. n + 1 |-> IF i > n THEN 0 ELSE u[i] + Base * f[i + 1]]

LEMMA AddingUpExists ==
    ASSUME NEW n \in Nat, NEW u, \A i \in 1 .. n : u[i] \in Nat
    PROVE  \E f : AddsUp(f, u, n)
  <1>1. Base \in Nat
    BY IntTermAssumption
  <1> DEFINE G == [p \in (1 .. n) \X Nat |-> u[n + 1 - p[1]] + Base * p[2]]
  <1>2. G \in [(1 .. n) \X Nat -> Nat]
    <2>1. ASSUME NEW p \in (1 .. n) \X Nat
          PROVE  u[n + 1 - p[1]] + Base * p[2] \in Nat
      <3>1. n + 1 - p[1] \in 1 .. n /\ p[2] \in Nat
        OBVIOUS
      <3>2. u[n + 1 - p[1]] \in Nat
        BY <3>1
      <3>3. PICK x \in Nat, y \in Nat : x = u[n + 1 - p[1]] /\ y = p[2]
        BY <3>1, <3>2
      <3>4. x + Base * y \in Nat
        BY <1>1
      <3> QED
        BY <3>3, <3>4
    <2> QED
      BY <2>1
  <1>3. PICK f \in [0 .. n -> Nat] : Runs(f, 0, G, n)
    <2>1. 0 \in Nat
      OBVIOUS
    <2> HIDE DEF G
    <2> QED
      BY <1>1, <1>2, <2>1, RunExists
  <1>4. ASSUME NEW k \in 1 .. n
        PROVE  f[k] = u[n + 1 - k] + Base * f[k - 1]
    <2>1. f[k - 1] \in Nat
      BY <1>3
    <2>2. f[k] = G[<<k, f[k - 1]>>]
      BY <1>3 DEF Runs
    <2> QED
      BY <2>1, <2>2
  <1> DEFINE h == [i \in 1 .. n + 1 |-> f[n + 1 - i]]
  <1>5. ASSUME NEW i \in 1 .. n
        PROVE  h[i] = u[i] + Base * h[i + 1]
    <2>1. PICK k : k = n + 1 - i
      OBVIOUS
    <2>2. k \in 1 .. n /\ n + 1 - k = i /\ n + 1 - (i + 1) = k - 1
      BY <2>1
    <2>3. f[k] = u[i] + Base * f[k - 1]
      BY <1>4, <2>2
    <2>4. h[i] = f[k] /\ h[i + 1] = f[k - 1]
      BY <2>1, <2>2
    <2> QED
      BY <2>3, <2>4
  <1>6. h[n + 1] = 0
    <2>1. n + 1 - (n + 1) = 0 /\ n + 1 \in 1 .. n + 1
      OBVIOUS
    <2>2. h[n + 1] = f[0]
      BY <2>1
    <2> QED
      BY <1>3, <2>2 DEF Runs
  <1>7. \A i \in 1 .. n + 1 : h[i] = IF i > n THEN 0 ELSE u[i] + Base * h[i + 1]
    <2> SUFFICES ASSUME NEW i \in 1 .. n + 1
                 PROVE  h[i] = IF i > n THEN 0 ELSE u[i] + Base * h[i + 1]
      OBVIOUS
    <2>1. CASE i = n + 1
      BY <1>6, <2>1
    <2>2. CASE i # n + 1
      <3>1. i \in 1 .. n /\ ~(i > n)
        BY <2>2
      <3> QED
        BY <1>5, <3>1
    <2> QED
      BY <2>1, <2>2
  <1>8. h = [i \in 1 .. n + 1 |-> h[i]]
    OBVIOUS
  <1> HIDE DEF h
  <1>9. AddsUp(h, u, n)
    BY <1>7, <1>8 DEF AddsUp
  <1> QED
    BY <1>9

LEMMA AddingUpTyped ==
    ASSUME NEW n \in Nat, NEW u, \A i \in 1 .. n : u[i] \in Nat, NEW g, AddsUp(g, u, n)
    PROVE  /\ g \in [1 .. n + 1 -> Nat] /\ g[n + 1] = 0
           /\ \A i \in 1 .. n : g[i] = u[i] + Base * g[i + 1]
  <1>1. Base \in Nat
    BY IntTermAssumption
  <1>2. /\ g[n + 1] = 0 /\ \A i \in 1 .. n : g[i] = u[i] + Base * g[i + 1]
        /\ g = [i \in 1 .. n + 1 |-> g[i]]
    <2>1. g = [i \in 1 .. n + 1 |-> IF i > n THEN 0 ELSE u[i] + Base * g[i + 1]]
      BY DEF AddsUp
    <2>2. \A i \in 1 .. n + 1 : g[i] = IF i > n THEN 0 ELSE u[i] + Base * g[i + 1]
      BY <2>1, Zenon
    <2>3. n + 1 \in 1 .. n + 1 /\ \A i \in 1 .. n : i \in 1 .. n + 1 /\ ~(i > n)
      OBVIOUS
    <2>4. g = [i \in 1 .. n + 1 |-> g[i]]
      BY <2>1, Zenon
    <2>5. g[n + 1] = 0
      BY <2>2, <2>3
    <2> QED
      BY <2>2, <2>3, <2>4, <2>5
  <1> DEFINE k == [j \in 0 .. n |-> g[n + 1 - j]]
  <1>3. \A i \in 0 .. n : k[i] \in Nat
    <2>1. k[0] \in Nat
      BY <1>2
    <2>2. ASSUME NEW i \in 1 .. n, k[i - 1] \in Nat
          PROVE  k[i] \in Nat
      <3>1. PICK j : j = n + 1 - i
        OBVIOUS
      <3>2. j \in 1 .. n /\ n + 1 - (i - 1) = j + 1 /\ i - 1 \in 0 .. n
        BY <3>1
      <3>3. k[i] = g[j] /\ k[i - 1] = g[j + 1]
        BY <3>1, <3>2
      <3>4. g[j] = u[j] + Base * g[j + 1]
        BY <1>2, <3>2
      <3>5. PICK x \in Nat, y \in Nat : x = u[j] /\ y = g[j + 1]
        BY <2>2, <3>2, <3>3
      <3>6. x + Base * y \in Nat
        BY <1>1
      <3> QED
        BY <3>3, <3>4, <3>5, <3>6
    <2> HIDE DEF k
    <2> QED
      BY <2>1, <2>2, RunKeeps
  <1>4. ASSUME NEW i \in 1 .. n + 1
        PROVE  g[i] \in Nat
    <2>1. PICK j : j = n + 1 - i
      OBVIOUS
    <2>2. j \in 0 .. n /\ n + 1 - j = i
      BY <2>1
    <2>3. k[j] = g[i]
      BY <2>2
    <2> QED
      BY <1>3, <2>2, <2>3
  <1>5. g \in [1 .. n + 1 -> Nat]
    BY <1>2, <1>4
  <1> QED
    BY <1>2, <1>5

LEMMA FromFacts ==
    ASSUME NEW u \in Seq(Digit)
    PROVE  Reads(From(u), u, Len(u))
  <1>1. Len(u) \in Nat /\ \A i \in 1 .. Len(u) : u[i] \in Nat
    <2>1. Digit \subseteq Nat
      BY IntTermAssumption DEF Digit
    <2>2. Len(u) \in Nat /\ \A i \in 1 .. Len(u) : u[i] \in Digit
      OBVIOUS
    <2> QED
      BY <2>1, <2>2, Zenon
  <1> DEFINE g == CHOOSE g : AddsUp(g, u, Len(u))
  <1>2. AddsUp(g, u, Len(u))
    BY <1>1, AddingUpExists
  <1>3. From(u) = g
    BY DEF From, AddsUp
  <1>4. \A i \in 1 .. Len(u) : DigitOf(u, i) = u[i]
    BY <1>1 DEF DigitOf
  <1> HIDE DEF g
  <1>5. /\ g \in [1 .. Len(u) + 1 -> Nat] /\ g[Len(u) + 1] = 0
        /\ \A i \in 1 .. Len(u) : g[i] = u[i] + Base * g[i + 1]
    BY <1>1, <1>2, AddingUpTyped
  <1> QED
    BY <1>3, <1>4, <1>5 DEF Reads

\* Any v can be read as n digits, if it has no more.
LEMMA Padded ==
    ASSUME NEW v \in Seq(Digit), NEW n \in Nat, Len(v) <= n
    PROVE  \E h : Reads(h, v, n) /\ h[1] = Magnitude(v)
  <1>1. PICK m \in Nat : m = Len(v) /\ m <= n
    OBVIOUS
  <1>2. PICK f : f = From(v) /\ Reads(f, v, m)
    BY <1>1, FromFacts
  <1>3. /\ f \in [1 .. m + 1 -> Nat] /\ f[m + 1] = 0
        /\ \A i \in 1 .. m : f[i] = DigitOf(v, i) + Base * f[i + 1]
    BY <1>2 DEF Reads
  <1> DEFINE h == [i \in 1 .. n + 1 |-> IF i <= m THEN f[i] ELSE 0]
  <1>4. \A i \in 1 .. n + 1 : h[i] = IF i <= m THEN f[i] ELSE 0
    OBVIOUS
  <1>5. h \in [1 .. n + 1 -> Nat]
    <2>1. \A i \in 1 .. n + 1 : i <= m => f[i] \in Nat
      BY <1>3
    <2> QED
      BY <2>1
  <1> HIDE DEF h
  <1>6. ASSUME NEW i \in 1 .. n
        PROVE  h[i] = DigitOf(v, i) + Base * h[i + 1]
    <2>1. h[i] = (IF i <= m THEN f[i] ELSE 0) /\ h[i + 1] = IF i + 1 <= m THEN f[i + 1] ELSE 0
      BY <1>4
    <2>2. CASE i <= m
      <3>1. h[i + 1] = f[i + 1]
        <4>1. CASE i + 1 <= m
          BY <2>1, <4>1
        <4>2. CASE i = m
          BY <1>3, <2>1, <4>2
        <4> QED
          BY <2>2, <4>1, <4>2
      <3> QED
        BY <1>3, <2>1, <2>2, <3>1
    <2>3. CASE ~(i <= m)
      <3>1. DigitOf(v, i) = 0 /\ h[i] = 0 /\ h[i + 1] = 0
        BY <1>1, <2>1, <2>3 DEF DigitOf
      <3>2. 0 = 0 + Base * 0
        BY IntTermAssumption
      <3> QED
        BY <3>1, <3>2
    <2> QED
      BY <2>2, <2>3
  <1>7. h[n + 1] = 0
    BY <1>1, <1>4
  <1>8. h[1] = f[1]
    <2>1. CASE m = 0
      BY <1>3, <1>4, <2>1
    <2>2. CASE m # 0
      <3>1. 1 \in 1 .. n + 1 /\ 1 <= m
        BY <1>1, <2>2
      <3> QED
        BY <1>4, <3>1
    <2> QED
      BY <2>1, <2>2
  <1> QED
    BY <1>2, <1>5, <1>6, <1>7, <1>8 DEF Reads, Magnitude

\* z is the digit of x + y + d, C what it carries; U and V are the digits above.
DigitSum(x, y, z, d, C) == z + Base * C = x + y + d
NumberSum(x, y, z, d, C, U, V) ==
    z + Base * (U + V + C) = (x + Base * U) + (y + Base * V) + d

LEMMA DigitAdds ==
    ASSUME NEW x \in Nat, NEW y \in Nat, NEW z \in Nat, NEW d \in Nat,
           NEW U \in Nat, NEW V \in Nat, NEW C \in Nat, DigitSum(x, y, z, d, C)
    PROVE  NumberSum(x, y, z, d, C, U, V)
  <1>1. PICK BU \in Int, BV \in Int, BC \in Int :
          BU = Base * U /\ BV = Base * V /\ BC = Base * C
    BY IntTermAssumption
  <1>2. Base * (U + V + C) = BU + BV + BC
    BY <1>1, IntTermAssumption
  <1> QED
    BY <1>1, <1>2 DEF DigitSum, NumberSum

\* t is the sum of u and v, digit by digit with the carries c, which end in 0.
Adds(u, v, t, c, n) ==
    /\ c \in [0 .. n -> 0 .. 1] /\ c[0] = 0 /\ c[n] = 0
    /\ \A i \in 1 .. n :
         DigitOf(t, i) + Base * c[i] = DigitOf(u, i) + DigitOf(v, i) + c[i - 1]

LEMMA AddsNumbers ==
    ASSUME NEW n \in Nat, NEW u \in Seq(Digit), NEW v \in Seq(Digit), NEW t \in Seq(Digit),
           Len(u) <= n, Len(v) <= n, Len(t) <= n, NEW c, Adds(u, v, t, c, n)
    PROVE  Magnitude(t) = Magnitude(u) + Magnitude(v)
  <1>1. PICK hu : Reads(hu, u, n) /\ hu[1] = Magnitude(u)
    BY Padded
  <1>2. PICK hv : Reads(hv, v, n) /\ hv[1] = Magnitude(v)
    BY Padded
  <1>3. PICK ht : Reads(ht, t, n) /\ ht[1] = Magnitude(t)
    BY Padded
  <1> DEFINE S == {i \in 1 .. n + 1 : ht[i] = hu[i] + hv[i] + c[i - 1]}
             f == [k \in 0 .. n |-> n + 1 - k]
  <1>4. \A k \in 0 .. n : f[k] \in S
    <2>1. f[0] \in S
      <3>1. ht[n + 1] = 0 /\ hu[n + 1] = 0 /\ hv[n + 1] = 0 /\ c[n] = 0
        BY <1>1, <1>2, <1>3 DEF Reads, Adds
      <3>2. (n + 1) - 1 = n /\ n + 1 \in 1 .. n + 1
        OBVIOUS
      <3>3. n + 1 \in S
        BY <3>1, <3>2
      <3>4. f[0] = n + 1
        OBVIOUS
      <3> QED
        BY <3>3, <3>4
    <2>2. ASSUME NEW k \in 1 .. n, f[k - 1] \in S
          PROVE  f[k] \in S
      <3>1. PICK i : i = n + 1 - k
        OBVIOUS
      <3>2. i \in 1 .. n /\ i + 1 \in 1 .. n + 1 /\ i \in 1 .. n + 1 /\ (i + 1) - 1 = i
        BY <3>1
      <3>3. f[k] = i /\ f[k - 1] = i + 1
        BY <3>1
      <3>4. ht[i + 1] = hu[i + 1] + hv[i + 1] + c[i]
        BY <2>2, <3>2, <3>3
      <3>5. /\ hu[i] = DigitOf(u, i) + Base * hu[i + 1] /\ hv[i] = DigitOf(v, i) + Base * hv[i + 1]
            /\ ht[i] = DigitOf(t, i) + Base * ht[i + 1]
        BY <1>1, <1>2, <1>3, <3>2 DEF Reads
      <3>6. DigitOf(t, i) + Base * c[i] = DigitOf(u, i) + DigitOf(v, i) + c[i - 1]
        BY <3>2 DEF Adds
      <3>7. i \in 0 .. n /\ i - 1 \in 0 .. n /\ i \in Nat \ {0}
        BY <3>2
      <3>8. c[i] \in Nat /\ c[i - 1] \in Nat
        <4>1. c \in [0 .. n -> 0 .. 1]
          BY DEF Adds
        <4>2. c[i] \in 0 .. 1 /\ c[i - 1] \in 0 .. 1
          BY <3>7, <4>1
        <4> QED
          BY <4>2
      <3>9. DigitOf(u, i) \in Nat /\ DigitOf(v, i) \in Nat /\ DigitOf(t, i) \in Nat
        <4>1. Digit \subseteq Nat
          BY IntTermAssumption DEF Digit
        <4>2. DigitOf(u, i) \in Digit /\ DigitOf(v, i) \in Digit /\ DigitOf(t, i) \in Digit
          BY <3>7, DigitOfFacts
        <4> QED
          BY <4>1, <4>2
      <3>10. hu[i + 1] \in Nat /\ hv[i + 1] \in Nat
        BY <1>1, <1>2, <3>2 DEF Reads
      <3>11. DigitOf(t, i) + Base * (hu[i + 1] + hv[i + 1] + c[i])
             = (DigitOf(u, i) + Base * hu[i + 1]) + (DigitOf(v, i) + Base * hv[i + 1]) + c[i - 1]
        <4>1. PICK x \in Nat, y \in Nat, z \in Nat, d \in Nat :
                x = DigitOf(u, i) /\ y = DigitOf(v, i) /\ z = DigitOf(t, i) /\ d = c[i - 1]
          BY <3>8, <3>9
        <4>2. PICK U \in Nat, V \in Nat, C \in Nat :
                U = hu[i + 1] /\ V = hv[i + 1] /\ C = c[i]
          BY <3>8, <3>10
        <4>3. DigitSum(x, y, z, d, C)
          BY <3>6, <4>1, <4>2 DEF DigitSum
        <4>4. NumberSum(x, y, z, d, C, U, V)
          BY <4>3, DigitAdds
        <4>5. /\ DigitOf(u, i) = x /\ DigitOf(v, i) = y /\ DigitOf(t, i) = z /\ c[i - 1] = d
              /\ hu[i + 1] = U /\ hv[i + 1] = V /\ c[i] = C
          BY <4>1, <4>2
        <4> QED
          BY <4>4, <4>5, Zenon DEF NumberSum
      <3>12. ht[i] = hu[i] + hv[i] + c[i - 1]
        BY <3>4, <3>5, <3>11
      <3> QED
        BY <3>2, <3>3, <3>12
    <2> HIDE DEF S, f
    <2> QED
      BY <2>1, <2>2, RunKeeps
  <1>5. 1 \in S
    <2>1. n \in 0 .. n /\ f[n] = 1
      OBVIOUS
    <2> QED
      BY <1>4, <2>1
  <1>6. c[1 - 1] = 0 /\ hu[1] \in Nat /\ hv[1] \in Nat
    BY <1>1, <1>2 DEF Adds, Reads
  <1> QED
    BY <1>1, <1>2, <1>3, <1>5, <1>6

LEMMA MagnitudeNat ==
    ASSUME NEW v \in Seq(Digit)
    PROVE  Magnitude(v) \in Nat
  <1>1. Len(v) \in Nat /\ Len(v) <= Len(v)
    OBVIOUS
  <1>2. PICK h : Reads(h, v, Len(v)) /\ h[1] = Magnitude(v)
    BY <1>1, Padded
  <1> QED
    BY <1>1, <1>2 DEF Reads

-----------------------------------------------------------------------------
LEMMA MaxFacts ==
    ASSUME NEW n \in Nat, NEW T \in SUBSET (1 .. n), T # {}
    PROVE  Max(T) \in T /\ \A y \in T : y <= Max(T)
  <1> DEFINE R == {n - x : x \in T}
  <1>1. R \in SUBSET Nat /\ R # {}
    <2>1. \A x \in T : x \in 1 .. n
      OBVIOUS
    <2>2. \A x \in T : n - x \in Nat
      BY <2>1
    <2>3. PICK x : x \in T
      OBVIOUS
    <2>4. n - x \in R
      BY <2>3
    <2> QED
      BY <2>2, <2>4
  <1>2. PICK r \in R : \A s \in R : ~(s < r)
    <2> HIDE DEF R
    <2> QED
      BY <1>1, LeastNat
  <1>3. PICK x \in T : r = n - x
    BY <1>2
  <1>4. \A y \in T : x >= y
    <2> SUFFICES ASSUME NEW y \in T
                 PROVE  x >= y
      OBVIOUS
    <2>1. n - y \in R /\ x \in 1 .. n /\ y \in 1 .. n
      OBVIOUS
    <2>2. ~(n - y < n - x)
      BY <1>2, <1>3, <2>1
    <2> QED
      BY <2>1, <2>2
  <1>5. Max(T) \in T /\ \A y \in T : Max(T) >= y
    BY <1>3, <1>4, Zenon DEF Max
  <1>6. \A y \in T : Max(T) \in 1 .. n /\ y \in 1 .. n
    BY <1>5
  <1> QED
    BY <1>5, <1>6

\* No leading zeros
Tight(u) == Len(u) = 1 \/ u[Len(u)] # 0

LEMMA TrailFacts ==
    ASSUME NEW u \in Seq(Digit), Len(u) >= 1
    PROVE  /\ Trail(u) \in Seq(Digit) /\ Len(Trail(u)) \in 1 .. Len(u)
           /\ Tight(Trail(u))
           /\ \A i \in 1 .. Len(u) : DigitOf(Trail(u), i) = u[i]
  <1>1. PICK n \in Nat : n = Len(u) /\ n >= 1 /\ DOMAIN u = 1 .. n
    OBVIOUS
  <1> DEFINE T == {1} \cup {i \in DOMAIN u : u[i] # 0}
  <1>2. T \in SUBSET (1 .. n) /\ T # {}
    BY <1>1
  <1>3. PICK k : k = Max(T)
    OBVIOUS
  <1>4. k \in T /\ \A y \in T : y <= k
    <2> HIDE DEF T
    <2> QED
      BY <1>1, <1>2, <1>3, MaxFacts
  <1>5. k \in 1 .. n /\ (k = 1 \/ u[k] # 0) /\ \A i \in 1 .. n : i > k => u[i] = 0
    <2>1. ASSUME NEW i \in 1 .. n, i > k, u[i] # 0
          PROVE  FALSE
      <3>1. i \in T
        BY <1>1, <2>1
      <3>2. i <= k
        BY <1>4, <3>1
      <3> QED
        BY <1>2, <1>4, <2>1, <3>2
    <2> QED
      BY <1>1, <1>2, <1>4, <2>1
  <1>6. Trail(u) = SubSeq(u, 1, k)
    BY <1>3 DEF Trail
  <1>7. /\ Trail(u) \in Seq(Digit) /\ Len(Trail(u)) = k
        /\ \A i \in 1 .. k : Trail(u)[i] = u[i]
    <2>1. SubSeq(u, 1, k) = [i \in 1 .. k |-> u[i]]
      BY <1>1, <1>5
    <2>2. \A i \in 1 .. k : u[i] \in Digit
      BY <1>1, <1>5
    <2>3. [i \in 1 .. k |-> u[i]] \in Seq(Digit) /\ Len([i \in 1 .. k |-> u[i]]) = k
      BY <1>5, <2>2
    <2> QED
      BY <1>6, <2>1, <2>3
  <1>8. Tight(Trail(u))
    BY <1>5, <1>7 DEF Tight
  <1>9. ASSUME NEW i \in 1 .. n
        PROVE  DigitOf(Trail(u), i) = u[i]
    BY <1>5, <1>7 DEF DigitOf
  <1> QED
    BY <1>1, <1>5, <1>7, <1>8, <1>9

LEMMA TightIsTrail ==
    ASSUME NEW u \in Seq(Digit), Len(u) >= 1
    PROVE  Tight(u) <=> u = Trail(u)
  <1>1. /\ Trail(u) \in Seq(Digit) /\ Len(Trail(u)) \in 1 .. Len(u) /\ Tight(Trail(u))
        /\ \A i \in 1 .. Len(u) : DigitOf(Trail(u), i) = u[i]
    BY TrailFacts
  <1>2. ASSUME Tight(u)
        PROVE  u = Trail(u)
    <2>1. Len(Trail(u)) = Len(u)
      <3>1. Len(u) \in 1 .. Len(u)
        OBVIOUS
      <3>2. DigitOf(Trail(u), Len(u)) = u[Len(u)]
        BY <1>1, <3>1
      <3>3. Len(Trail(u)) < Len(u) => u[Len(u)] = 0 /\ Len(u) # 1
        BY <1>1, <3>2 DEF DigitOf
      <3> QED
        BY <1>1, <1>2, <3>3 DEF Tight
    <2>2. \A i \in 1 .. Len(u) : Trail(u)[i] = u[i]
      BY <1>1, <2>1 DEF DigitOf
    <2> QED
      BY <1>1, <2>1, <2>2
  <1> QED
    BY <1>1, <1>2

\* A number without a carry is the sum of itself and nothing.
LEMMA SameDigits ==
    ASSUME NEW u \in Seq(Digit), NEW t \in Seq(Digit), Len(t) <= Len(u),
           \A i \in 1 .. Len(u) : DigitOf(t, i) = u[i]
    PROVE  Magnitude(t) = Magnitude(u)
  <1>1. PICK n \in Nat : n = Len(u)
    OBVIOUS
  <1> DEFINE c == [i \in 0 .. n |-> 0]
             none == <<>>
  <1>2. none \in Seq(Digit) /\ Len(none) <= n
    BY <1>1
  <1>3. Adds(t, none, u, c, n)
    <2>1. ASSUME NEW i \in 1 .. n
          PROVE  DigitOf(u, i) + Base * c[i] = DigitOf(t, i) + DigitOf(none, i) + c[i - 1]
      <3>1. PICK x \in Nat : x = u[i]
        <4>1. u[i] \in Digit /\ Digit \subseteq Nat
          BY <1>1, IntTermAssumption DEF Digit
        <4> QED
          BY <4>1
      <3>2. DigitOf(u, i) = x /\ DigitOf(t, i) = x /\ DigitOf(none, i) = 0
        BY <1>1, <3>1 DEF DigitOf
      <3>3. c[i] = 0 /\ c[i - 1] = 0
        OBVIOUS
      <3>4. x + Base * 0 = x + 0 + 0
        BY IntTermAssumption
      <3> HIDE DEF none, c
      <3> QED
        BY <3>2, <3>3, <3>4
    <2>2. c \in [0 .. n -> 0 .. 1] /\ c[0] = 0 /\ c[n] = 0
      OBVIOUS
    <2> HIDE DEF c, none
    <2> QED
      BY <2>1, <2>2 DEF Adds
  <1>4. Magnitude(u) = Magnitude(t) + Magnitude(none)
    <2> HIDE DEF c, none
    <2> QED
      BY <1>1, <1>2, <1>3, AddsNumbers
  <1>5. Magnitude(none) = 0
    <2>1. none \in Seq(Digit) /\ Len(none) = 0
      OBVIOUS
    <2>2. Reads(From(none), none, 0)
      BY <2>1, FromFacts
    <2> QED
      BY <2>2 DEF Reads, Magnitude
  <1> HIDE DEF none
  <1> QED
    BY <1>4, <1>5, MagnitudeNat

LEMMA TrailNumber ==
    ASSUME NEW u \in Seq(Digit), Len(u) >= 1
    PROVE  Magnitude(Trail(u)) = Magnitude(u)
  <1>1. /\ Trail(u) \in Seq(Digit) /\ Len(Trail(u)) \in 1 .. Len(u)
        /\ \A i \in 1 .. Len(u) : DigitOf(Trail(u), i) = u[i]
    BY TrailFacts
  <1> QED
    BY <1>1, SameDigits

-----------------------------------------------------------------------------
\* The digit m of u is above that of v, and those above it are the same.
Over(u, v, m) ==
    /\ m \in 1 .. Len(u) /\ DigitOf(v, m) < u[m]
    /\ \A i \in m + 1 .. Len(u) : u[i] = DigitOf(v, i)

Greater(u, v) == Len(v) <= Len(u) /\ \E m : Over(u, v, m)

LEMMA LongerGreater ==
    ASSUME NEW u \in Seq(Digit), NEW v \in Seq(Digit), Len(v) >= 1, Len(u) > Len(v), Tight(u)
    PROVE  Greater(u, v)
  <1>1. Len(u) \in 1 .. Len(u) /\ Len(u) # 1
    OBVIOUS
  <1>2. u[Len(u)] \in Digit /\ u[Len(u)] # 0 /\ DigitOf(v, Len(u)) = 0
    BY <1>1 DEF Tight, DigitOf
  <1>3. DigitOf(v, Len(u)) < u[Len(u)]
    BY <1>2, IntTermAssumption DEF Digit
  <1>4. \A i \in Len(u) + 1 .. Len(u) : u[i] = DigitOf(v, i)
    OBVIOUS
  <1>5. Over(u, v, Len(u))
    BY <1>1, <1>3, <1>4 DEF Over
  <1> QED
    BY <1>5 DEF Greater

\* comp orders numbers without leading zeros.
LEMMA CompFacts ==
    ASSUME NEW u \in Seq(Digit), NEW v \in Seq(Digit), Len(u) >= 1, Len(v) >= 1,
           Tight(u), Tight(v)
    PROVE  /\ Comp(u, v) \in Int
           /\ Comp(u, v) = 0 => u = v
           /\ Comp(u, v) > 0 => Greater(u, v)
           /\ Comp(u, v) < 0 => Greater(v, u)
  <1>1. CASE Len(u) > Len(v)
    <2>1. Comp(u, v) = Len(u) - Len(v) /\ Len(u) - Len(v) > 0 /\ Len(u) - Len(v) \in Int
      BY <1>1 DEF Comp
    <2>2. Greater(u, v)
      BY <1>1, LongerGreater
    <2> QED
      BY <2>1, <2>2
  <1>2. CASE Len(v) > Len(u)
    <2>1. Comp(u, v) = Len(u) - Len(v) /\ Len(u) - Len(v) < 0 /\ Len(u) - Len(v) \in Int
      BY <1>2 DEF Comp
    <2>2. Greater(v, u)
      BY <1>2, LongerGreater
    <2> QED
      BY <2>1, <2>2
  <1>3. CASE Len(u) = Len(v)
    <2>1. PICK n \in Nat : n = Len(u) /\ n = Len(v) /\ DOMAIN u = 1 .. n
      BY <1>3
    <2> DEFINE T == {i \in DOMAIN u : u[i] # v[i]}
    <2>2. Comp(u, v) = IF T = {} THEN 0 ELSE u[Max(T)] - v[Max(T)]
      BY <1>3 DEF Comp
    <2>3. CASE T = {}
      <3>1. \A i \in 1 .. n : u[i] = v[i]
        BY <2>1, <2>3
      <3>2. u = v
        BY <2>1, <3>1
      <3> QED
        BY <2>2, <2>3, <3>2
    <2>4. CASE T # {}
      <3>1. T \in SUBSET (1 .. n)
        BY <2>1
      <3>2. PICK m : m = Max(T)
        OBVIOUS
      <3>3. m \in T /\ \A y \in T : y <= m
        <4> HIDE DEF T
        <4> QED
          BY <2>4, <3>1, <3>2, MaxFacts
      <3>4. m \in 1 .. n /\ u[m] # v[m]
        BY <3>1, <3>3
      <3>5. \A i \in m + 1 .. n : u[i] = v[i]
        <4> SUFFICES ASSUME NEW i \in m + 1 .. n, u[i] # v[i]
                     PROVE  FALSE
          OBVIOUS
        <4>1. i \in T /\ i > m
          BY <2>1, <3>4
        <4> QED
          BY <3>3, <3>4, <4>1
      <3>6. PICK x \in Int, y \in Int : x = u[m] /\ y = v[m] /\ x # y
        <4>1. u[m] \in Digit /\ v[m] \in Digit
          BY <2>1, <3>4
        <4>2. Digit \subseteq Int
          BY DEF Digit
        <4> QED
          BY <3>4, <4>1, <4>2
      <3>7. Comp(u, v) = x - y
        <4> HIDE DEF T
        <4> QED
          BY <2>2, <2>4, <3>2, <3>6
      <3>8. /\ \A i \in 1 .. n : DigitOf(u, i) = u[i] /\ DigitOf(v, i) = v[i]
            /\ \A i \in m + 1 .. n : i \in 1 .. n
        BY <2>1, <3>4 DEF DigitOf
      <3>9. y < x => Over(u, v, m)
        BY <2>1, <3>4, <3>5, <3>6, <3>8 DEF Over
      <3>10. x < y => Over(v, u, m)
        BY <2>1, <3>4, <3>5, <3>6, <3>8 DEF Over
      <3>11. Len(v) <= Len(u) /\ Len(u) <= Len(v)
        BY <2>1
      <3>12. (y < x => Greater(u, v)) /\ (x < y => Greater(v, u))
        BY <3>9, <3>10, <3>11 DEF Greater
      <3> QED
        BY <3>6, <3>7, <3>12
    <2> QED
      BY <2>3, <2>4
  <1> QED
    BY <1>1, <1>2, <1>3

LEMMA NoBorrow ==
    ASSUME NEW x \in 0 .. Base - 1, NEW y \in 0 .. Base - 1, NEW z \in 0 .. Base - 1,
           NEW d \in 0 .. 1, NEW e \in 0 .. 1,
           y < x \/ (x = y /\ d = 0), z + y + d = x + Base * e
    PROVE  e = 0
  <1>1. PICK B \in Nat : B = Base
    BY IntTermAssumption
  <1>2. /\ x \in Int /\ y \in Int /\ z \in Int /\ z < B /\ d \in 0 .. 1
        /\ y + d <= x
    BY <1>1
  <1>3. CASE e = 1
    <2>1. z + y + d = x + B
      BY <1>1, <1>3
    <2> QED
      BY <1>2, <2>1
  <1> QED
    BY <1>3

\* A borrow ends where the digit subtracted from is the greater one.
LEMMA BorrowEnds ==
    ASSUME NEW u \in Seq(Digit), NEW v \in Seq(Digit), Greater(u, v),
           NEW t \in Seq(Digit), Len(t) = Len(u), NEW c \in [0 .. Len(u) -> 0 .. 1],
           Borrows(u, v, t, c)
    PROVE  c[Len(u)] = 0
  <1>1. PICK m : Over(u, v, m)
    BY DEF Greater
  <1>2. PICK n \in Nat : n = Len(u) /\ m \in 1 .. n
    BY <1>1 DEF Over
  <1>3. ASSUME NEW i \in 1 .. n
        PROVE  \E x, y, z \in 0 .. Base - 1, d, e \in 0 .. 1 :
                 /\ x = u[i] /\ y = DigitOf(v, i) /\ z = t[i] /\ d = c[i - 1] /\ e = c[i]
                 /\ z + y + d = x + Base * e
    <2>1. u[i] \in Digit /\ DigitOf(v, i) \in Digit /\ t[i] \in Digit
      BY <1>2, DigitOfFacts
    <2>2. c[i - 1] \in 0 .. 1 /\ c[i] \in 0 .. 1
      <3>1. i - 1 \in 0 .. n /\ i \in 0 .. n
        BY <1>2
      <3>2. c \in [0 .. n -> 0 .. 1]
        BY <1>2
      <3> QED
        BY <3>1, <3>2
    <2>3. t[i] + DigitOf(v, i) + c[i - 1] = u[i] + Base * c[i]
      BY <1>2 DEF Borrows
    <2>4. /\ u[i] \in 0 .. Base - 1 /\ DigitOf(v, i) \in 0 .. Base - 1
          /\ t[i] \in 0 .. Base - 1
      BY <2>1, Zenon DEF Digit
    <2> QED
      BY <2>2, <2>3, <2>4, Zenon
  <1>4. Base \in Nat /\ Base >= 2
    BY IntTermAssumption
  <1> DEFINE f == [k \in 0 .. n - m |-> c[m + k]]
             S == {0}
  <1>5. \A k \in 0 .. n - m : f[k] \in S
    <2>1. f[0] \in S
      <3>1. PICK x, y, z \in 0 .. Base - 1, d, e \in 0 .. 1 :
              /\ x = u[m] /\ y = DigitOf(v, m) /\ z = t[m] /\ d = c[m - 1] /\ e = c[m]
              /\ z + y + d = x + Base * e
        BY <1>2, <1>3
      <3>2. y < x
        BY <1>1, <3>1 DEF Over
      <3>3. e = 0
        BY <3>1, <3>2, NoBorrow
      <3>4. f[0] = c[m]
        BY <1>2
      <3> QED
        BY <3>1, <3>3, <3>4
    <2>2. ASSUME NEW k \in 1 .. n - m, f[k - 1] \in S
          PROVE  f[k] \in S
      <3>1. PICK i : i = m + k
        OBVIOUS
      <3>2. i \in 1 .. n /\ i \in m + 1 .. n /\ i - 1 = m + (k - 1)
        BY <1>2, <3>1
      <3>3. f[k] = c[i] /\ f[k - 1] = c[i - 1]
        BY <1>2, <3>1, <3>2
      <3>4. PICK x, y, z \in 0 .. Base - 1, d, e \in 0 .. 1 :
              /\ x = u[i] /\ y = DigitOf(v, i) /\ z = t[i] /\ d = c[i - 1] /\ e = c[i]
              /\ z + y + d = x + Base * e
        BY <1>3, <3>2
      <3>5. x = y /\ d = 0
        BY <1>1, <1>2, <2>2, <3>2, <3>3, <3>4 DEF Over
      <3>6. e = 0
        BY <3>4, <3>5, NoBorrow
      <3> QED
        BY <3>3, <3>4, <3>6
    <2>3. n - m \in Nat
      BY <1>2
    <2> HIDE DEF f, S
    <2> QED
      BY <2>1, <2>2, <2>3, RunKeeps
  <1>6. n - m \in 0 .. n - m /\ f[n - m] = c[n]
    BY <1>2
  <1> QED
    BY <1>2, <1>5, <1>6

\* t has the n digits of r, and then its carry.
SumOf(t, r, n) ==
    /\ Len(t) <= n + 1 /\ DigitOf(t, n + 1) = r.carry
    /\ \A i \in 1 .. n : DigitOf(t, i) = r.digits[i]

\* The digits of a sum and its last carry make up the sum.
LEMMA SumDigits ==
    ASSUME NEW u \in Seq(Digit), NEW v \in Seq(Digit), Len(v) <= Len(u),
           NEW r, r = Chain(Carry, u, v),
           NEW t \in Seq(Digit), SumOf(t, r, Len(u))
    PROVE  Magnitude(t) = Magnitude(u) + Magnitude(v)
  <1>1. PICK n \in Nat : n = Len(u)
    OBVIOUS
  <1>2. PICK c \in [0 .. n -> 0 .. 1] : Carries(u, v, r.digits, c) /\ r.carry = c[n]
    BY <1>1, ChainCarry
  <1> DEFINE e == [i \in 0 .. n + 1 |-> IF i <= n THEN c[i] ELSE 0]
  <1>3. Adds(u, v, t, e, n + 1)
    <2>1. e \in [0 .. n + 1 -> 0 .. 1]
      OBVIOUS
    <2>2. e[0] = 0 /\ e[n + 1] = 0
      BY <1>2 DEF Carries
    <2>3. ASSUME NEW i \in 1 .. n
          PROVE  DigitOf(t, i) + Base * e[i] = DigitOf(u, i) + DigitOf(v, i) + e[i - 1]
      <3>1. e[i] = c[i] /\ e[i - 1] = c[i - 1]
        OBVIOUS
      <3>2. DigitOf(u, i) = u[i] /\ DigitOf(t, i) = r.digits[i]
        BY <1>1 DEF DigitOf, SumOf
      <3>3. r.digits[i] + Base * c[i] = u[i] + DigitOf(v, i) + c[i - 1]
        BY <1>1, <1>2 DEF Carries
      <3> HIDE DEF e
      <3> QED
        BY <3>1, <3>2, <3>3
    <2>4. DigitOf(t, n + 1) + Base * e[n + 1]
          = DigitOf(u, n + 1) + DigitOf(v, n + 1) + e[(n + 1) - 1]
      <3>1. e[n + 1] = 0 /\ e[(n + 1) - 1] = c[n]
        OBVIOUS
      <3>2. DigitOf(u, n + 1) = 0 /\ DigitOf(v, n + 1) = 0
        BY <1>1 DEF DigitOf
      <3>3. DigitOf(t, n + 1) = c[n] /\ c[n] \in 0 .. 1
        BY <1>1, <1>2 DEF SumOf
      <3>4. c[n] + Base * 0 = 0 + 0 + c[n]
        <4>1. PICK x \in Int : x = c[n]
          BY <3>3
        <4>2. x + Base * 0 = 0 + 0 + x
          BY IntTermAssumption
        <4> QED
          BY <4>1, <4>2
      <3> HIDE DEF e
      <3> QED
        BY <3>1, <3>2, <3>3, <3>4
    <2>5. \A i \in 1 .. n + 1 : i \in 1 .. n \/ i = n + 1
      OBVIOUS
    <2> HIDE DEF e
    <2> QED
      BY <2>1, <2>2, <2>3, <2>4, <2>5 DEF Adds
  <1>4. Len(u) <= n + 1 /\ Len(v) <= n + 1 /\ Len(t) <= n + 1 /\ n + 1 \in Nat
    BY <1>1 DEF SumOf
  <1> HIDE DEF e
  <1> QED
    BY <1>3, <1>4, AddsNumbers

\* The digits of a difference and what was taken off make up the number.
LEMMA DifferenceDigits ==
    ASSUME NEW u \in Seq(Digit), NEW v \in Seq(Digit), Greater(u, v),
           NEW r, r = Chain(Borrow, u, v)
    PROVE  Magnitude(r.digits) + Magnitude(v) = Magnitude(u)
  <1>1. PICK n \in Nat : n = Len(u) /\ Len(v) <= n
    BY DEF Greater
  <1>2. PICK t \in Seq(Digit) : t = r.digits /\ Len(t) = n
    BY <1>1, ChainBorrow
  <1>3. PICK c \in [0 .. n -> 0 .. 1] : Borrows(u, v, t, c)
    BY <1>1, <1>2, ChainBorrow
  <1>4. c[n] = 0
    BY <1>1, <1>2, <1>3, BorrowEnds
  <1>5. Adds(t, v, u, c, n)
    <2>1. ASSUME NEW i \in 1 .. n
          PROVE  DigitOf(u, i) + Base * c[i] = DigitOf(t, i) + DigitOf(v, i) + c[i - 1]
      <3>1. DigitOf(u, i) = u[i] /\ DigitOf(t, i) = t[i]
        BY <1>1, <1>2 DEF DigitOf
      <3>2. t[i] + DigitOf(v, i) + c[i - 1] = u[i] + Base * c[i]
        BY <1>1, <1>3 DEF Borrows
      <3> QED
        BY <3>1, <3>2
    <2>2. c[0] = 0
      BY <1>3 DEF Borrows
    <2> QED
      BY <1>4, <2>1, <2>2 DEF Adds
  <1>6. Magnitude(u) = Magnitude(t) + Magnitude(v)
    BY <1>1, <1>2, <1>5, AddsNumbers
  <1> QED
    BY <1>2, <1>6

\* A sum that carries out of the buffer has no place in it.
LEMMA SumOutOfPlace ==
    ASSUME BigArithConstants, NEW u \in Seq(Digit), NEW v \in Seq(Digit), Len(v) <= Len(u),
           NEW r, r = Chain(Carry, u, v), r.carry # 0
    PROVE  OutOfPlace(Len(u)) <= Magnitude(u) + Magnitude(v)
  <1>1. PICK n \in Nat : n = Len(u)
    OBVIOUS
  <1>2. PICK w \in Seq(Digit) : w = r.digits /\ Len(w) = n /\ r.carry = 1
    BY <1>1, ChainCarry
  <1>3. 0 \in Digit /\ 1 \in Digit
    BY IntTermAssumption DEF Digit
  <1> DEFINE t == Append(w, 1)
             one == [i \in 1 .. n + 1 |-> IF i = n + 1 THEN 1 ELSE 0]
             c == [i \in 0 .. n + 1 |-> 0]
  <1>4. t \in Seq(Digit) /\ Len(t) = n + 1 /\ t[n + 1] = 1 /\ \A i \in 1 .. n : t[i] = w[i]
    BY <1>2, <1>3
  <1>5. one \in Seq(Digit) /\ Len(one) = n + 1
    <2>1. one \in [1 .. n + 1 -> Digit]
      BY <1>3
    <2> HIDE DEF one
    <2> QED
      BY <2>1
  <1>6. one[n + 1] = 1 /\ \A i \in 1 .. n : one[i] = 0
    OBVIOUS
  <1>7. c \in [0 .. n + 1 -> 0 .. 1] /\ \A i \in 0 .. n + 1 : c[i] = 0
    OBVIOUS
  <1>8. OutOfPlace(Len(u)) = Magnitude(one)
    BY <1>1 DEF OutOfPlace
  <1> HIDE DEF t, one, c
  <1>9. Magnitude(t) = Magnitude(u) + Magnitude(v)
    <2>1. \A i \in 1 .. n : DigitOf(t, i) = r.digits[i]
      BY <1>1, <1>2, <1>4 DEF DigitOf
    <2>2. n + 1 <= Len(t) /\ Len(t) <= n + 1
      BY <1>4
    <2>3. DigitOf(t, n + 1) = r.carry
      BY <1>2, <1>4, <2>2, Zenon DEF DigitOf
    <2>4. SumOf(t, r, n)
      BY <2>1, <2>2, <2>3 DEF SumOf
    <2> QED
      BY <1>1, <1>4, <2>4, SumDigits
  <1>10. Adds(one, w, t, c, n + 1)
    <2>1. ASSUME NEW i \in 1 .. n
          PROVE  DigitOf(t, i) + Base * c[i] = DigitOf(one, i) + DigitOf(w, i) + c[i - 1]
      <3>1. PICK x \in Int : x = w[i]
        <4>1. w[i] \in Digit
          BY <1>2
        <4>2. Digit \subseteq Int
          BY DEF Digit
        <4> QED
          BY <4>1, <4>2
      <3>2. DigitOf(t, i) = x /\ DigitOf(one, i) = 0 /\ DigitOf(w, i) = x
        BY <1>2, <1>4, <1>5, <1>6, <3>1 DEF DigitOf
      <3>3. c[i] = 0 /\ c[i - 1] = 0
        BY <1>7
      <3>4. x + Base * 0 = 0 + x + 0
        BY IntTermAssumption
      <3> QED
        BY <3>2, <3>3, <3>4
    <2>2. DigitOf(t, n + 1) + Base * c[n + 1]
          = DigitOf(one, n + 1) + DigitOf(w, n + 1) + c[(n + 1) - 1]
      <3>1. DigitOf(t, n + 1) = 1 /\ DigitOf(one, n + 1) = 1 /\ DigitOf(w, n + 1) = 0
        BY <1>2, <1>4, <1>5, <1>6 DEF DigitOf
      <3>2. c[n + 1] = 0 /\ c[(n + 1) - 1] = 0
        BY <1>7
      <3>3. 1 + Base * 0 = 1 + 0 + 0
        BY IntTermAssumption
      <3> QED
        BY <3>1, <3>2, <3>3
    <2>3. \A i \in 1 .. n + 1 : i \in 1 .. n \/ i = n + 1
      OBVIOUS
    <2>4. c[0] = 0 /\ c[n + 1] = 0
      BY <1>7
    <2> QED
      BY <1>7, <2>1, <2>2, <2>3, <2>4 DEF Adds
  <1>11. Magnitude(t) = Magnitude(one) + Magnitude(w)
    <2>1. Len(one) <= n + 1 /\ Len(w) <= n + 1 /\ Len(t) <= n + 1 /\ n + 1 \in Nat
      BY <1>2, <1>4, <1>5
    <2> QED
      BY <1>4, <1>5, <1>10, <2>1, AddsNumbers
  <1>12. Magnitude(one) \in Nat /\ Magnitude(w) \in Nat
    BY <1>5, MagnitudeNat
  <1> QED
    BY <1>8, <1>9, <1>11, <1>12

-----------------------------------------------------------------------------
\* The digits of a number
Buffer == {u \in Seq(Digit) : Len(u) >= 1}
Signs == {0, 1, BIG_SIGN_BIT}
Numbers == [sign : Signs, digits : Buffer]

LEMMA MinusZero == -0 = 0
  <1>1. \A d \in Int : -d = 0 - d
    OBVIOUS
  <1>2. 0 \in Int /\ 0 - 0 = 0
    OBVIOUS
  <1> QED
    BY <1>1, <1>2, Zenon

\* A number with a sign
Signed(sign, m) == IF sign = 0 THEN m ELSE -m

LEMMA OneDigit ==
    ASSUME NEW d \in Digit
    PROVE  Magnitude(<<d>>) = d
  <1>1. <<d>> \in Seq(Digit) /\ Len(<<d>>) = 1 /\ <<d>>[1] = d
    OBVIOUS
  <1>2. PICK u \in Seq(Digit) : u = <<d>> /\ Len(u) = 1 /\ u[1] = d
    BY <1>1
  <1>3. Reads(From(u), u, 1)
    BY <1>2, FromFacts
  <1>4. From(u)[1] = DigitOf(u, 1) + Base * From(u)[2] /\ From(u)[2] = 0
    BY <1>3 DEF Reads
  <1>5. DigitOf(u, 1) = d
    BY <1>2 DEF DigitOf
  <1>6. PICK x \in Int : x = d
    BY DEF Digit
  <1>7. x + Base * 0 = x
    BY IntTermAssumption
  <1>8. From(u)[1] = d
    BY <1>4, <1>5, <1>6, <1>7
  <1> QED
    BY <1>2, <1>8 DEF Magnitude

\* The highest digit of a sum that does not carry is not below that of u.
LEMMA SumTight ==
    ASSUME NEW u \in Seq(Digit), NEW v \in Seq(Digit), Len(u) >= 1, Tight(u),
           NEW r, r = Chain(Carry, u, v), r.carry = 0
    PROVE  Tight(r.digits)
  <1>1. PICK n \in Nat : n = Len(u) /\ n >= 1
    OBVIOUS
  <1>2. PICK t \in Seq(Digit) : t = r.digits /\ Len(t) = n
    BY <1>1, ChainCarry
  <1>3. PICK c \in [0 .. n -> 0 .. 1] : Carries(u, v, t, c) /\ r.carry = c[n]
    BY <1>1, <1>2, ChainCarry
  <1>4. u[n] \in Digit /\ t[n] \in Digit /\ DigitOf(v, n) \in Digit /\ c[n - 1] \in 0 .. 1
    BY <1>1, <1>2, DigitOfFacts
  <1>5. t[n] + Base * c[n] = u[n] + DigitOf(v, n) + c[n - 1] /\ c[n] = 0
    BY <1>1, <1>3 DEF Carries
  <1>6. Digit \subseteq Nat
    BY IntTermAssumption DEF Digit
  <1>7. PICK x \in Nat, y \in Nat, z \in Nat, d \in Nat :
          x = u[n] /\ y = DigitOf(v, n) /\ z = t[n] /\ d = c[n - 1]
    <2>1. u[n] \in Nat /\ DigitOf(v, n) \in Nat /\ t[n] \in Nat
      BY <1>4, <1>6
    <2>2. c[n - 1] \in Nat
      BY <1>4
    <2> QED
      BY <2>1, <2>2
  <1>8. z = x + y + d
    <2>1. z + Base * 0 = x + y + d
      BY <1>5, <1>7
    <2> QED
      BY <2>1, IntTermAssumption
  <1>9. n = 1 \/ x # 0
    BY <1>1, <1>7 DEF Tight
  <1>10. n = 1 \/ z # 0
    BY <1>8, <1>9
  <1> QED
    BY <1>2, <1>7, <1>10 DEF Tight

\* Equal signs
SumResult(r, u, v, sign, size) ==
    /\ r.ok => /\ r.num.sign = sign
               /\ Magnitude(r.num.digits) = Magnitude(u) + Magnitude(v)
               /\ Tight(u) => Tight(r.num.digits)
               /\ Len(r.num.digits) <= size
    /\ ~r.ok => OutOfPlace(size) <= Magnitude(u) + Magnitude(v)

\* The three ends of add3 and add2: no carry, a digit more, no place for it
AddEnds(x, r, n, sign, dst, size) ==
    /\ r.carry = 0 => x = [ok |-> TRUE, num |-> [sign |-> sign, digits |-> r.digits]]
    /\ r.carry # 0 /\ n < size =>
         x = [ok |-> TRUE, num |-> [sign |-> sign, digits |-> Append(r.digits, r.carry)]]
    /\ r.carry # 0 /\ ~(n < size) =>
         /\ ~x.ok
         /\ x.num = [dst EXCEPT !.digits =
                       [i \in DOMAIN dst.digits |-> IF i <= n THEN r.digits[i] ELSE dst.digits[i]]]

LEMMA AddDigitsEnds ==
    ASSUME NEW u, NEW v, NEW sign, NEW dst, NEW size
    PROVE  AddEnds(AddDigits(u, v, sign, dst, size), Chain(Carry, u, v), Len(u), sign, dst, size)
  BY Zenon DEF AddEnds, AddDigits, Done, NoPlace, Num

LEMMA AddDigitsTyped ==
    ASSUME BigArithConstants, NEW u \in Buffer, NEW v \in Seq(Digit), NEW sign \in Signs,
           NEW dst \in Numbers, NEW size \in Nat
    PROVE  AddDigits(u, v, sign, dst, size).num \in Numbers
  <1>1. PICK n \in Nat : n = Len(u) /\ n >= 1
    BY DEF Buffer
  <1>2. PICK r : r = Chain(Carry, u, v)
    OBVIOUS
  <1>3. PICK t \in Seq(Digit) : t = r.digits /\ Len(t) = n /\ r.carry \in 0 .. 1
    BY <1>1, <1>2, ChainCarry DEF Buffer
  <1>4. AddEnds(AddDigits(u, v, sign, dst, size), r, n, sign, dst, size)
    <2>1. AddEnds(AddDigits(u, v, sign, dst, size), Chain(Carry, u, v), Len(u), sign, dst, size)
      BY AddDigitsEnds
    <2> QED
      BY <1>1, <1>2, <2>1
  <1>5. CASE r.carry = 0
    <2>1. AddDigits(u, v, sign, dst, size).num = [sign |-> sign, digits |-> t]
      BY <1>3, <1>5, <1>4 DEF AddEnds
    <2>2. t \in Buffer
      BY <1>1, <1>3 DEF Buffer
    <2> QED
      BY <2>1, <2>2 DEF Numbers
  <1>6. CASE r.carry # 0 /\ n < size
    <2>1. AddDigits(u, v, sign, dst, size).num = [sign |-> sign, digits |-> Append(t, r.carry)]
      BY <1>3, <1>6, <1>4 DEF AddEnds
    <2>2. r.carry \in Digit
      BY <1>3, IntTermAssumption DEF Digit
    <2>3. Append(t, r.carry) \in Seq(Digit) /\ Len(Append(t, r.carry)) = n + 1
      BY <1>3, <2>2
    <2>4. n + 1 >= 1
      BY <1>1
    <2>5. Append(t, r.carry) \in Buffer
      BY <2>3, <2>4, Zenon DEF Buffer
    <2> QED
      BY <2>1, <2>5 DEF Numbers
  <1>7. CASE r.carry # 0 /\ ~(n < size)
    <2>1. PICK w \in Seq(Digit) : w = dst.digits /\ Len(w) >= 1 /\ dst.sign \in Signs
      BY DEF Numbers, Buffer
    <2>2. PICK m \in Nat : m = Len(w)
      OBVIOUS
    <2> DEFINE x == [i \in DOMAIN w |-> IF i <= n THEN t[i] ELSE w[i]]
    <2>3. AddDigits(u, v, sign, dst, size).num = [sign |-> dst.sign, digits |-> x]
      <3>1. AddDigits(u, v, sign, dst, size).num = [dst EXCEPT !.digits = x]
        <4>1. AddDigits(u, v, sign, dst, size).num = [dst EXCEPT !.digits =
                [i \in DOMAIN dst.digits |-> IF i <= n THEN r.digits[i] ELSE dst.digits[i]]]
          BY <1>7, <1>4, Zenon DEF AddEnds
        <4>2. t = r.digits /\ w = dst.digits
          BY <1>3, <2>1
        <4> QED
          BY <4>1, <4>2, Zenon
      <3>2. \A y : [dst EXCEPT !.digits = y] = [sign |-> dst.sign, digits |-> y]
        BY DEF Numbers
      <3> HIDE DEF x
      <3> QED
        BY <3>1, <3>2
    <2>4. x \in Buffer
      <3>1. x \in [1 .. m -> Digit]
        <4>1. \A i \in 1 .. m : (i <= n => t[i] \in Digit) /\ w[i] \in Digit
          BY <1>3, <2>1, <2>2
        <4>2. DOMAIN w = 1 .. m
          BY <2>2
        <4> QED
          BY <4>1, <4>2
      <3>2. x \in Seq(Digit) /\ Len(x) = m
        <4> HIDE DEF x
        <4> QED
          BY <3>1
      <3> HIDE DEF x
      <3> QED
        BY <2>1, <2>2, <3>2 DEF Buffer
    <2> HIDE DEF x
    <2> QED
      BY <2>1, <2>3, <2>4 DEF Numbers
  <1> QED
    BY <1>5, <1>6, <1>7

LEMMA AddDigitsSum ==
    ASSUME BigArithConstants, NEW u \in Buffer, NEW v \in Buffer, NEW sign, NEW dst,
           NEW size \in Nat, Len(v) <= Len(u), Len(u) <= size
    PROVE  SumResult(AddDigits(u, v, sign, dst, size), u, v, sign, size)
  <1>1. PICK n \in Nat : n = Len(u) /\ n >= 1
    BY DEF Buffer
  <1>2. PICK r : r = Chain(Carry, u, v)
    OBVIOUS
  <1>3. u \in Seq(Digit) /\ v \in Seq(Digit)
    BY DEF Buffer
  <1>4. PICK t \in Seq(Digit) : t = r.digits /\ Len(t) = n /\ r.carry \in 0 .. 1
    BY <1>1, <1>2, <1>3, ChainCarry
  <1>5. PICK x : x = AddDigits(u, v, sign, dst, size)
    OBVIOUS
  <1>6. AddEnds(x, r, n, sign, dst, size)
    <2>1. AddEnds(AddDigits(u, v, sign, dst, size), Chain(Carry, u, v), Len(u), sign, dst, size)
      BY AddDigitsEnds
    <2> QED
      BY <1>1, <1>2, <1>5, <2>1
  <1>7. CASE r.carry = 0
    <2>1. x = [ok |-> TRUE, num |-> [sign |-> sign, digits |-> t]]
      BY <1>4, <1>7, <1>6 DEF AddEnds
    <2>2. SumOf(t, r, n)
      BY <1>4, <1>7 DEF SumOf, DigitOf
    <2>3. Magnitude(t) = Magnitude(u) + Magnitude(v)
      BY <1>1, <1>2, <1>3, <1>4, <2>2, SumDigits
    <2>4. Tight(u) => Tight(t)
      BY <1>1, <1>2, <1>3, <1>4, <1>7, SumTight
    <2>5. Len(t) <= size
      BY <1>1, <1>4
    <2> QED
      BY <1>5, <2>1, <2>3, <2>4, <2>5 DEF SumResult
  <1>8. CASE r.carry # 0 /\ n < size
    <2>1. PICK w : w = Append(t, r.carry)
      OBVIOUS
    <2>2. x = [ok |-> TRUE, num |-> [sign |-> sign, digits |-> w]]
      BY <1>4, <1>8, <1>6, <2>1 DEF AddEnds
    <2>3. r.carry \in Digit
      BY <1>4, IntTermAssumption DEF Digit
    <2>4. /\ w \in Seq(Digit) /\ Len(w) = n + 1 /\ w[n + 1] = r.carry
          /\ \A i \in 1 .. n : w[i] = t[i]
      BY <1>4, <2>1, <2>3
    <2>5. SumOf(w, r, n)
      <3>1. n + 1 <= Len(w) /\ Len(w) <= n + 1 /\ \A i \in 1 .. n : i <= Len(w)
        BY <2>4
      <3>2. DigitOf(w, n + 1) = r.carry /\ \A i \in 1 .. n : DigitOf(w, i) = r.digits[i]
        BY <1>4, <2>4, <3>1, Zenon DEF DigitOf
      <3> QED
        BY <3>1, <3>2 DEF SumOf
    <2>6. Magnitude(w) = Magnitude(u) + Magnitude(v)
      BY <1>1, <1>2, <1>3, <2>4, <2>5, SumDigits
    <2>7. Tight(w)
      BY <1>8, <2>4, Zenon DEF Tight
    <2>8. Len(w) <= size
      BY <1>1, <1>8, <2>4
    <2> QED
      BY <1>5, <2>2, <2>6, <2>7, <2>8 DEF SumResult
  <1>9. CASE r.carry # 0 /\ ~(n < size)
    <2>1. ~x.ok
      BY <1>9, <1>6, Zenon DEF AddEnds
    <2>2. Len(u) = size
      BY <1>1, <1>9
    <2>3. OutOfPlace(size) <= Magnitude(u) + Magnitude(v)
      BY <1>2, <1>3, <1>9, <2>2, SumOutOfPlace
    <2> QED
      BY <1>5, <2>1, <2>3 DEF SumResult
  <1> QED
    BY <1>7, <1>8, <1>9

LEMMA SubDigitsTyped ==
    ASSUME BigArithConstants, NEW u \in Buffer, NEW v \in Seq(Digit), NEW sign \in Signs
    PROVE  SubDigits(u, v, sign).num \in Numbers
  <1>1. PICK n \in Nat : n = Len(u) /\ n >= 1
    BY DEF Buffer
  <1>2. PICK t \in Seq(Digit) : t = Chain(Borrow, u, v).digits /\ Len(t) = n
    BY <1>1, ChainBorrow DEF Buffer
  <1>3. PICK w \in Seq(Digit) : w = Trail(t) /\ Len(w) \in 1 .. n
    BY <1>1, <1>2, TrailFacts
  <1>4. w \in Buffer
    BY <1>1, <1>3 DEF Buffer, BigArithConstants
  <1>5. SubDigits(u, v, sign).num = [sign |-> IF w = <<0>> THEN 0 ELSE sign, digits |-> w]
    BY <1>2, <1>3 DEF SubDigits, Done, Num
  <1>6. (IF w = <<0>> THEN 0 ELSE sign) \in Signs
    BY DEF Signs
  <1> QED
    BY <1>4, <1>5, <1>6 DEF Numbers

\* Different signs
DifferenceResult(r, u, v, sign) ==
    /\ r.ok /\ Tight(r.num.digits) /\ Len(r.num.digits) <= Len(u)
    /\ Magnitude(r.num.digits) + Magnitude(v) = Magnitude(u)
    /\ r.num.sign = sign \/ (r.num.sign = 0 /\ Magnitude(r.num.digits) = 0)

LEMMA SubDigitsDifference ==
    ASSUME NEW u \in Buffer, NEW v \in Buffer, NEW sign, Greater(u, v)
    PROVE  DifferenceResult(SubDigits(u, v, sign), u, v, sign)
  <1>1. PICK n \in Nat : n = Len(u) /\ n >= 1
    BY DEF Buffer
  <1>2. u \in Seq(Digit) /\ v \in Seq(Digit)
    BY DEF Buffer
  <1>3. PICK t \in Seq(Digit) : t = Chain(Borrow, u, v).digits /\ Len(t) = n
    BY <1>1, <1>2, ChainBorrow
  <1>4. PICK w \in Seq(Digit) : w = Trail(t) /\ Tight(w) /\ Len(w) <= n
    BY <1>1, <1>3, TrailFacts
  <1>5. Magnitude(w) = Magnitude(t)
    BY <1>1, <1>3, <1>4, TrailNumber
  <1>6. Magnitude(t) + Magnitude(v) = Magnitude(u)
    BY <1>2, <1>3, DifferenceDigits
  <1>7. SubDigits(u, v, sign)
        = [ok |-> TRUE, num |-> [sign |-> IF w = <<0>> THEN 0 ELSE sign, digits |-> w]]
    BY <1>3, <1>4 DEF SubDigits, Done, Num
  <1>8. w = <<0>> => Magnitude(w) = 0
    <2>1. 0 \in Digit
      BY IntTermAssumption DEF Digit
    <2> QED
      BY <2>1, OneDigit
  <1>9. PICK r : r = SubDigits(u, v, sign)
    OBVIOUS
  <1>10. r.ok /\ r.num.digits = w /\ r.num.sign = IF w = <<0>> THEN 0 ELSE sign
    BY <1>7, <1>9
  <1>11. Magnitude(r.num.digits) + Magnitude(v) = Magnitude(u)
    BY <1>5, <1>6, <1>10
  <1> QED
    BY <1>1, <1>4, <1>8, <1>9, <1>10, <1>11, Zenon DEF DifferenceResult

\* What addsub answers of operands that fit: the exact number, unless it has no place
AddSubResult(r, m, size) ==
    /\ r.ok => Value(r.num) = m /\ Tight(r.num.digits) /\ Len(r.num.digits) <= size
    /\ ~r.ok => m \notin -OutOfPlace(size) + 1 .. OutOfPlace(size) - 1

LEMMA SumSigned ==
    ASSUME NEW p \in Nat, NEW q \in Nat, NEW r, NEW sign, NEW o \in Nat,
           NEW size \in Nat,
           r.ok => /\ r.num.sign = sign /\ Magnitude(r.num.digits) = p + q
                   /\ Tight(r.num.digits) /\ Len(r.num.digits) <= size,
           ~r.ok => o <= p + q, o = OutOfPlace(size)
    PROVE  AddSubResult(r, Signed(sign, p) + Signed(sign, q), size)
  <1>1. Signed(sign, p) + Signed(sign, q) = IF sign = 0 THEN p + q ELSE -(p + q)
    BY DEF Signed
  <1>2. r.ok => Value(r.num) = Signed(sign, p) + Signed(sign, q)
    BY <1>1, Zenon DEF Value
  <1>3. ~r.ok => Signed(sign, p) + Signed(sign, q) \notin -o + 1 .. o - 1
    BY <1>1
  <1> QED
    BY <1>2, <1>3 DEF AddSubResult

LEMMA DifferenceSigned ==
    ASSUME NEW u \in Buffer, NEW v \in Buffer, NEW sign1, NEW sign2, NEW r,
           sign1 = 0 <=> sign2 # 0,
           DifferenceResult(r, u, v, sign1), r.num.digits \in Seq(Digit),
           NEW size \in Nat, Len(u) <= size
    PROVE  AddSubResult(r, Signed(sign1, Magnitude(u)) + Signed(sign2, Magnitude(v)), size)
  <1>1. PICK p \in Nat, q \in Nat, d \in Nat :
          p = Magnitude(u) /\ q = Magnitude(v) /\ d = Magnitude(r.num.digits)
    BY MagnitudeNat DEF Buffer
  <1>2. d + q = p
    BY <1>1 DEF DifferenceResult
  <1>3. PICK e \in Int : e = IF sign1 = 0 THEN d ELSE -d
    OBVIOUS
  <1>4. Signed(sign1, p) + Signed(sign2, q) = e
    BY <1>2, <1>3 DEF Signed
  <1>5. r.num.sign = sign1 \/ (r.num.sign = 0 /\ d = 0)
    BY <1>1 DEF DifferenceResult
  <1>6. Value(r.num) = IF r.num.sign = 0 THEN d ELSE -d
    BY <1>1, Zenon DEF Value
  <1>7. (IF r.num.sign = 0 THEN d ELSE -d) = e
    <2>1. CASE d = 0
      BY <1>3, <2>1
    <2>2. CASE d # 0
      BY <1>5, <1>3, <2>2, Zenon
    <2> QED
      BY <2>1, <2>2
  <1>8. Value(r.num) = Signed(sign1, p) + Signed(sign2, q)
    BY <1>4, <1>6, <1>7, Zenon
  <1>9. r.ok /\ Tight(r.num.digits) /\ Len(r.num.digits) <= size
    BY DEF DifferenceResult, Buffer
  <1> QED
    BY <1>1, <1>8, <1>9, Zenon DEF AddSubResult

LEMMA AddSubTyped ==
    ASSUME BigArithConstants, NEW u \in Buffer, NEW v \in Seq(Digit),
           NEW sign1 \in Signs, NEW sign2 \in Signs, NEW dst \in Numbers,
           NEW size \in Nat
    PROVE  AddSub(u, sign1, v, sign2, dst, size).num \in Numbers
  <1>1. PICK r : r = AddSub(u, sign1, v, sign2, dst, size)
    OBVIOUS
  <1>2. Len(v) > 0 => v \in Buffer
    BY DEF Buffer, BigArithConstants
  <1>3. u \in Seq(Digit) /\ Len(u) \in Nat /\ Len(u) > 0 /\ Len(v) \in Nat
    BY DEF Buffer
  <1>4. \/ r = NoPlace(dst)
        \/ v \in Buffer /\ r = AddDigits(v, u, sign1, dst, size)
        \/ r = AddDigits(u, v, sign1, dst, size)
        \/ r = Done(Num(0, <<0>>))
        \/ r = SubDigits(u, v, sign1)
        \/ v \in Buffer /\ r = SubDigits(v, u, sign2)
    <2>1. CASE Len(u) > size \/ Len(v) > size
      BY <1>1, <2>1 DEF AddSub
    <2>2. CASE ~(Len(u) > size \/ Len(v) > size) /\ sign1 = sign2
      <3>1. Len(u) < Len(v) => v \in Buffer
        BY <1>2, <1>3, <2>2 DEF BigArithConstants
      <3>2. r = IF Len(u) < Len(v) THEN AddDigits(v, u, sign1, dst, size)
                ELSE AddDigits(u, v, sign1, dst, size)
        BY <1>1, <2>2, Zenon DEF AddSub
      <3> QED
        BY <3>1, <3>2, Zenon
    <2>3. CASE ~(Len(u) > size \/ Len(v) > size) /\ sign1 # sign2
      <3>1. v \notin Buffer => Comp(u, v) > 0
        <4>1. v \notin Buffer => Len(v) = 0
          BY <1>2, <1>3, <2>3 DEF BigArithConstants
        <4>2. Len(v) = 0 => Comp(u, v) = Len(u) - 0
          BY <1>3 DEF Comp
        <4> QED
          BY <1>3, <4>1, <4>2
      <3>2. r = IF Comp(u, v) = 0 THEN Done(Num(0, <<0>>))
                ELSE IF Comp(u, v) > 0 THEN SubDigits(u, v, sign1)
                ELSE SubDigits(v, u, sign2)
        BY <1>1, <2>3, Zenon DEF AddSub
      <3> QED
        BY <3>1, <3>2, Zenon
    <2> QED
      BY <2>1, <2>2, <2>3
  <1>5. r = NoPlace(dst) => r.num \in Numbers
    BY DEF NoPlace
  <1>6. r = Done(Num(0, <<0>>)) => r.num \in Numbers
    <2>1. <<0>> \in Seq(Digit) /\ Len(<<0>>) = 1
      BY IntTermAssumption DEF Digit
    <2>2. <<0>> \in Buffer
      BY <2>1 DEF Buffer, BigArithConstants
    <2> QED
      BY <2>2 DEF Done, Num, Numbers, Signs
  <1>7. /\ v \in Buffer /\ r = AddDigits(v, u, sign1, dst, size) => r.num \in Numbers
        /\ r = AddDigits(u, v, sign1, dst, size) => r.num \in Numbers
    BY <1>3, AddDigitsTyped
  <1>8. /\ v \in Buffer /\ r = SubDigits(v, u, sign2) => r.num \in Numbers
        /\ r = SubDigits(u, v, sign1) => r.num \in Numbers
    BY <1>3, SubDigitsTyped
  <1> QED
    BY <1>1, <1>4, <1>5, <1>6, <1>7, <1>8, Zenon

\* addsub is exact on numbers without leading zeros, when negative numbers have the
\* same sign.
LEMMA AddSubValue ==
    ASSUME BigArithConstants, NEW u \in Buffer, NEW v \in Buffer, Tight(u), Tight(v),
           NEW sign1 \in Signs, NEW sign2 \in Signs, {sign1, sign2} # {1, BIG_SIGN_BIT},
           NEW dst \in Numbers, NEW size \in Nat, Len(u) <= size, Len(v) <= size
    PROVE  AddSubResult(AddSub(u, sign1, v, sign2, dst, size),
                        Signed(sign1, Magnitude(u)) + Signed(sign2, Magnitude(v)), size)
  <1>1. PICK r : r = AddSub(u, sign1, v, sign2, dst, size)
    OBVIOUS
  <1>2. /\ u \in Seq(Digit) /\ Len(u) \in Nat /\ Len(u) > 0
        /\ v \in Seq(Digit) /\ Len(v) \in Nat /\ Len(v) > 0
    BY DEF Buffer
  <1>3. ~(Len(u) > size \/ Len(v) > size)
    BY <1>2
  <1>4. PICK p \in Nat, q \in Nat : p = Magnitude(u) /\ q = Magnitude(v)
    BY <1>2, MagnitudeNat
  <1>5. PICK o \in Nat : o = OutOfPlace(size)
    <2>1. PICK n \in Nat : n = size
      OBVIOUS
    <2> DEFINE one == [i \in 1 .. n + 1 |-> IF i = n + 1 THEN 1 ELSE 0]
    <2>2. one \in [1 .. n + 1 -> Digit]
      BY IntTermAssumption DEF Digit
    <2>3. one \in Seq(Digit)
      <3> HIDE DEF one
      <3> QED
        BY <2>2
    <2>4. OutOfPlace(size) = Magnitude(one)
      BY <2>1 DEF OutOfPlace
    <2> HIDE DEF one
    <2> QED
      BY <2>3, <2>4, MagnitudeNat
  <1>6. CASE sign1 = sign2
    <2>1. r = IF Len(u) < Len(v) THEN AddDigits(v, u, sign1, dst, size)
              ELSE AddDigits(u, v, sign1, dst, size)
      BY <1>1, <1>3, <1>6, Zenon DEF AddSub
    <2>2. \/ SumResult(r, v, u, sign1, size) /\ Tight(v)
          \/ SumResult(r, u, v, sign1, size) /\ Tight(u)
      <3>1. CASE Len(u) < Len(v)
        <4>1. Len(u) <= Len(v) /\ r = AddDigits(v, u, sign1, dst, size)
          BY <1>2, <2>1, <3>1
        <4> QED
          BY <4>1, AddDigitsSum
      <3>2. CASE ~(Len(u) < Len(v))
        <4>1. Len(v) <= Len(u) /\ r = AddDigits(u, v, sign1, dst, size)
          BY <1>2, <2>1, <3>2
        <4> QED
          BY <4>1, AddDigitsSum
      <3> QED
        BY <3>1, <3>2
    <2>3. q + p = p + q
      OBVIOUS
    <2>4. /\ r.ok => /\ r.num.sign = sign1 /\ Magnitude(r.num.digits) = p + q
                     /\ Tight(r.num.digits) /\ Len(r.num.digits) <= size
          /\ ~r.ok => o <= p + q
      BY <1>4, <1>5, <2>2, <2>3, Zenon DEF SumResult
    <2>5. AddSubResult(r, Signed(sign1, p) + Signed(sign1, q), size)
      BY <1>5, <2>4, SumSigned
    <2> QED
      BY <1>1, <1>4, <1>6, <2>5
  <1>7. CASE sign1 # sign2
    <2>1. sign1 = 0 <=> sign2 # 0
      BY <1>7 DEF Signs, BIG_SIGN_BIT
    <2>2. r = IF Comp(u, v) = 0 THEN Done(Num(0, <<0>>))
              ELSE IF Comp(u, v) > 0 THEN SubDigits(u, v, sign1)
              ELSE SubDigits(v, u, sign2)
      BY <1>1, <1>3, <1>7, Zenon DEF AddSub
    <2>3. /\ Comp(u, v) \in Int
          /\ Comp(u, v) = 0 => u = v
          /\ Comp(u, v) > 0 => Greater(u, v)
          /\ Comp(u, v) < 0 => Greater(v, u)
      BY <1>2, CompFacts
    <2>4. r.num.digits \in Seq(Digit)
      BY <1>1, <1>2, AddSubTyped DEF Numbers, Buffer
    <2>5. CASE Comp(u, v) = 0
      <3>1. r = [ok |-> TRUE, num |-> [sign |-> 0, digits |-> <<0>>]] /\ p = q
        BY <1>4, <2>2, <2>3, <2>5 DEF Done, Num
      <3>2. Signed(sign1, p) + Signed(sign2, q) = 0
        BY <2>1, <3>1 DEF Signed
      <3>3. Magnitude(<<0>>) = 0
        <4>1. 0 \in Digit
          BY IntTermAssumption DEF Digit
        <4> QED
          BY <4>1, OneDigit
      <3>4. r.ok /\ r.num.sign = 0 /\ r.num.digits = <<0>> /\ Len(<<0>>) = 1
        BY <3>1
      <3>5. Value(r.num) = 0 /\ Tight(r.num.digits)
        BY <3>3, <3>4, Zenon DEF Value, Tight
      <3>6. Len(r.num.digits) <= size
        BY <1>2, <3>4
      <3> QED
        BY <1>1, <1>4, <3>2, <3>4, <3>5, <3>6, Zenon DEF AddSubResult
    <2>6. CASE Comp(u, v) > 0
      <3>1. r = SubDigits(u, v, sign1)
        BY <2>2, <2>3, <2>6
      <3>2. DifferenceResult(r, u, v, sign1)
        BY <2>3, <2>6, <3>1, SubDigitsDifference
      <3> QED
        BY <1>1, <2>1, <2>4, <3>2, DifferenceSigned
    <2>7. CASE Comp(u, v) < 0
      <3>1. r = SubDigits(v, u, sign2)
        BY <2>2, <2>3, <2>7
      <3>2. DifferenceResult(r, v, u, sign2)
        BY <2>3, <2>7, <3>1, SubDigitsDifference
      <3>3. AddSubResult(r, Signed(sign2, Magnitude(v)) + Signed(sign1, Magnitude(u)), size)
        BY <2>1, <2>4, <3>2, DifferenceSigned
      <3>4. Signed(sign2, q) + Signed(sign1, p) = Signed(sign1, p) + Signed(sign2, q)
        BY DEF Signed
      <3> QED
        BY <1>1, <1>4, <3>3, <3>4
    <2> QED
      BY <2>3, <2>5, <2>6, <2>7
  <1> QED
    BY <1>6, <1>7

-----------------------------------------------------------------------------
\* x without its lowest digit
Without(x) == x \div Base

LEMMA WithoutFacts ==
    ASSUME NEW x \in Nat
    PROVE  Without(x) \in Nat
  BY IntTermAssumption DEF Without

LEMMA ShiftedFacts ==
    ASSUME BigArithConstants, NEW m \in Nat
    PROVE  \A i \in 0 .. MaxDigits : Shifted(m)[i] \in Nat
  <1>1. PICK n \in Nat : n = MaxDigits
    BY DEF BigArithConstants
  <1> DEFINE G == [p \in (1 .. n) \X Nat |-> Without(p[2])]
             F(f) == [i \in 0 .. n |-> IF i = 0 THEN m ELSE Without(f[i - 1])]
  <1>2. G \in [(1 .. n) \X Nat -> Nat]
    <2>1. ASSUME NEW p \in (1 .. n) \X Nat
          PROVE  Without(p[2]) \in Nat
      <3>1. p[2] \in Nat
        OBVIOUS
      <3> QED
        BY <3>1, WithoutFacts
    <2> QED
      BY <2>1
  <1>3. PICK f \in [0 .. n -> Nat] : Runs(f, m, G, n)
    <2> HIDE DEF G
    <2> QED
      BY <1>2, RunExists
  <1>4. f = F(f)
    <2>1. ASSUME NEW i \in 0 .. n
          PROVE  f[i] = F(f)[i]
      <3>1. CASE i = 0
        BY <1>3, <3>1 DEF Runs
      <3>2. CASE i # 0
        <4>1. i \in 1 .. n /\ i - 1 \in 0 .. n
          BY <3>2
        <4>2. <<i, f[i - 1]>> \in (1 .. n) \X Nat
          BY <1>3, <4>1
        <4>3. f[i] = G[<<i, f[i - 1]>>]
          BY <1>3, <4>1 DEF Runs
        <4> QED
          BY <3>2, <4>2, <4>3
      <3> QED
        BY <3>1, <3>2
    <2> QED
      BY <1>3, <2>1
  <1> DEFINE g == CHOOSE g : g = F(g)
  <1>5. g = F(g)
    BY <1>4
  <1>6. Shifted(m) = g
    BY <1>1, Zenon DEF Shifted, Without
  <1> HIDE DEF g
  <1>7. g[0] = m /\ \A i \in 1 .. n : g[i] = Without(g[i - 1])
    BY <1>5
  <1>8. \A i \in 0 .. n : g[i] \in Nat
    <2>1. g[0] \in Nat
      BY <1>7
    <2>2. ASSUME NEW i \in 1 .. n, g[i - 1] \in Nat
          PROVE  g[i] \in Nat
      <3>1. Without(g[i - 1]) \in Nat
        BY <2>2, WithoutFacts
      <3> QED
        BY <1>7, <3>1
    <2> QED
      BY <2>1, <2>2, RunKeeps
  <1> QED
    BY <1>1, <1>6, <1>8

LEMMA DigitsTyped ==
    ASSUME BigArithConstants, NEW n \in Int
    PROVE  Digits(n) \in Buffer
  <1>1. PICK m \in Nat : m = IF n < 0 THEN -n ELSE n
    OBVIOUS
  <1>2. PICK k \in Nat : k = MaxDigits /\ k >= 1
    BY DEF BigArithConstants
  <1> DEFINE u == [i \in 1 .. k |-> Shifted(m)[i - 1] % Base]
  <1>3. u \in [1 .. k -> Digit]
    <2>1. ASSUME NEW i \in 1 .. k
          PROVE  Shifted(m)[i - 1] % Base \in Digit
      <3>1. i - 1 \in 0 .. k
        OBVIOUS
      <3>2. PICK x \in Nat : x = Shifted(m)[i - 1]
        BY <1>2, <3>1, ShiftedFacts
      <3>3. x % Base \in Digit
        BY IntTermAssumption DEF Digit
      <3> QED
        BY <3>2, <3>3
    <2> QED
      BY <2>1
  <1>4. Digits(n) = Trail(u)
    BY <1>1, <1>2, Zenon DEF Digits
  <1> HIDE DEF u
  <1>5. u \in Seq(Digit) /\ Len(u) = k
    BY <1>3
  <1>6. Trail(u) \in Seq(Digit) /\ Len(Trail(u)) \in 1 .. k
    BY <1>2, <1>5, TrailFacts
  <1>7. Len(Trail(u)) >= 1
    BY <1>2, <1>6
  <1> QED
    BY <1>4, <1>6, <1>7 DEF Buffer

-----------------------------------------------------------------------------
\* The bitwise operators make digits of digits.
LEMMA NotDigitFacts ==
    ASSUME NEW d \in Digit
    PROVE  NotDigit(d) \in Digit
  BY IntTermAssumption DEF Digit, NotDigit

LEMMA ComplementsTyped ==
    ASSUME NEW u \in Seq(Digit)
    PROVE  Complements(u) \in Seq(Digit) /\ Len(Complements(u)) = Len(u)
  <1>1. PICK n \in Nat : n = Len(u) /\ DOMAIN u = 1 .. n
    OBVIOUS
  <1>2. \A i \in 1 .. n : NotDigit(u[i]) \in Digit
    BY <1>1, NotDigitFacts
  <1>3. Complements(u) = [i \in 1 .. n |-> NotDigit(u[i])]
    BY <1>1 DEF Complements
  <1>4. Complements(u) \in [1 .. n -> Digit]
    BY <1>2, <1>3
  <1>5. Complements(u) \in Seq(Digit) /\ Len(Complements(u)) = n
    BY <1>4
  <1> QED
    BY <1>1, <1>5

LEMMA TwosDigitsTyped ==
    ASSUME NEW u \in Seq(Digit), NEW sign
    PROVE  TwosDigits(u, sign) \in Seq(Digit) /\ Len(TwosDigits(u, sign)) = Len(u)
  <1>1. CASE sign = 0
    BY <1>1 DEF TwosDigits
  <1>2. CASE sign # 0
    <2>1. PICK n \in Nat : n = Len(u) /\ DOMAIN u = 1 .. n
      OBVIOUS
    <2>2. <<1>> \in Seq(Digit)
      BY IntTermAssumption DEF Digit
    <2>3. PICK c \in Seq(Digit) : c = Chain(Borrow, u, <<1>>).digits /\ Len(c) = n
      BY <2>1, <2>2, ChainBorrow
    <2>4. \A i \in 1 .. n : NotDigit(c[i]) \in Digit
      BY <2>3, NotDigitFacts
    <2>5. TwosDigits(u, sign) = [i \in 1 .. n |-> NotDigit(c[i])]
      BY <1>2, <2>1, <2>3 DEF TwosDigits
    <2>6. TwosDigits(u, sign) \in [1 .. n -> Digit]
      BY <2>4, <2>5
    <2>7. TwosDigits(u, sign) \in Seq(Digit) /\ Len(TwosDigits(u, sign)) = n
      BY <2>6
    <2> QED
      BY <2>1, <2>7
  <1> QED
    BY <1>1, <1>2

\* k digits of both numbers and the higher ones of one
LEMMA MergedTyped ==
    ASSUME BigArithConstants, NEW k \in Nat, k >= 1, NEW f \in [1 .. k -> Digit],
           NEW high \in Seq(Digit)
    PROVE  f \o SubSeq(high, k + 1, Len(high)) \in Buffer
  <1>1. k \in Nat /\ k >= 1
    OBVIOUS
  <1>2. PICK h \in Nat : h = Len(high)
    OBVIOUS
  <1>3. f \in Seq(Digit) /\ Len(f) = k
    BY <1>1
  <1>4. PICK g \in Seq(Digit) :
          g = SubSeq(high, k + 1, h) /\ Len(g) = IF h > k THEN h - k ELSE 0
    <2>1. CASE h > k
      <3>1. SubSeq(high, k + 1, h) \in Seq(Digit) /\ Len(SubSeq(high, k + 1, h)) = h - k
        BY <1>1, <1>2, <2>1
      <3> QED
        BY <2>1, <3>1
    <2>2. CASE ~(h > k)
      <3>1. SubSeq(high, k + 1, h) = <<>>
        BY <1>1, <1>2, <2>2
      <3>2. <<>> \in Seq(Digit) /\ Len(<<>>) = 0
        OBVIOUS
      <3>3. 0 = IF h > k THEN h - k ELSE 0
        BY <2>2
      <3> WITNESS <<>> \in Seq(Digit)
      <3> QED
        BY <3>1, <3>2, <3>3, Zenon
    <2> QED
      BY <2>1, <2>2
  <1>5. f \o g \in Seq(Digit) /\ Len(f \o g) = k + Len(g)
    BY <1>3, ConcatProperties
  <1>6. k + Len(g) >= 1
    BY <1>1, <1>2, <1>4
  <1>7. f \o g \in Buffer
    BY <1>5, <1>6 DEF Buffer
  <1> QED
    BY <1>2, <1>4, <1>7

LEMMA TrailTyped ==
    ASSUME BigArithConstants, NEW u \in Buffer
    PROVE  Trail(u) \in Buffer
  <1>1. PICK n \in Nat : n = Len(u) /\ n >= 1
    BY DEF Buffer
  <1>2. Trail(u) \in Seq(Digit) /\ Len(Trail(u)) \in 1 .. n
    BY <1>1, TrailFacts DEF Buffer
  <1>3. Len(Trail(u)) >= 1
    BY <1>1, <1>2
  <1> QED
    BY <1>2, <1>3 DEF Buffer

LEMMA BtrailTyped ==
    ASSUME BigArithConstants, NEW r \in Buffer, NEW sign, NEW junk \in Digit
    PROVE  Btrail(r, sign, junk) \in Buffer
  <1>1. CASE sign = 0
    BY <1>1, TrailTyped DEF Btrail
  <1>2. CASE sign # 0
    <2>1. PICK m \in Nat : m = Len(r) /\ m >= 1 /\ r \in Seq(Digit)
      BY DEF Buffer
    <2> DEFINE T == {1} \cup {i \in 2 .. m : r[i] # Base - 1}
    <2>2. T \in SUBSET (1 .. m) /\ T # {}
      BY <2>1
    <2>3. PICK n : n = Max(T)
      BY Zenon
    <2>4. n \in 1 .. m
      <3>1. n \in T
        <4> HIDE DEF T
        <4> QED
          BY <2>1, <2>2, <2>3, MaxFacts
      <3> QED
        BY <2>2, <3>1
    <2>5. PICK d : d = IF n > 1 THEN r[n] ELSE IF m = 1 THEN junk ELSE Base - 1
      OBVIOUS
    <2>6. d \in Digit /\ \A i \in 1 .. n : r[i] \in Digit
      <3>1. Base - 1 \in Digit
        BY IntTermAssumption DEF Digit
      <3>2. \A i \in 1 .. n : i \in 1 .. m
        BY <2>4
      <3>3. \A i \in 1 .. m : r[i] \in Digit
        BY <2>1
      <3> QED
        BY <2>4, <2>5, <3>1, <3>2, <3>3, Zenon
    <2> DEFINE ones == [i \in 1 .. n |-> NotDigit(IF i = n THEN d ELSE r[i])]
    <2>7. ones \in [1 .. n -> Digit]
      <3>1. \A i \in 1 .. n : NotDigit(IF i = n THEN d ELSE r[i]) \in Digit
        BY <2>6, NotDigitFacts
      <3> QED
        BY <3>1
    <2>8. Btrail(r, sign, junk) = Chain(Carry, ones, <<1>>).digits
      BY <1>2, <2>1, <2>3, <2>5, Zenon DEF Btrail
    <2> HIDE DEF ones, T
    <2>9. ones \in Seq(Digit) /\ Len(ones) = n
      BY <2>4, <2>7
    <2>10. <<1>> \in Seq(Digit)
      BY IntTermAssumption DEF Digit
    <2>11. PICK w \in Seq(Digit) : w = Chain(Carry, ones, <<1>>).digits /\ Len(w) = n
      BY <2>9, <2>10, ChainCarry
    <2>12. n >= 1
      BY <2>4
    <2> QED
      BY <2>8, <2>11, <2>12 DEF Buffer
  <1> QED
    BY <1>1, <1>2

LEMMA MergesTyped ==
    ASSUME BigArithConstants, NEW p \in Seq(Digit), NEW q \in Buffer, Len(q) <= Len(p),
           NEW high \in Seq(Digit)
    PROVE  /\ Merge(DigitAnd, p, q, high) \in Buffer
           /\ Merge(DigitOr, p, q, high) \in Buffer
           /\ Merge(DigitXor, p, q, high) \in Buffer
  <1>1. PICK k \in Nat : k = Len(q) /\ k >= 1
    BY DEF Buffer
  <1>2. \A i \in 1 .. k : p[i] \in Digit /\ q[i] \in Digit
    <2>1. \A i \in 1 .. k : i \in 1 .. Len(p) /\ i \in 1 .. Len(q)
      BY <1>1
    <2> QED
      BY <2>1 DEF Buffer
  <1>3. ASSUME NEW f \in [1 .. k -> Digit]
        PROVE  f \o SubSeq(high, k + 1, Len(high)) \in Buffer
    BY <1>1, MergedTyped
  <1>4. \A x, y \in Digit :
          DigitAnd(x, y) \in Digit /\ DigitOr(x, y) \in Digit /\ DigitXor(x, y) \in Digit
    BY DEF BigArithConstants
  <1>5. /\ [i \in 1 .. k |-> DigitAnd(p[i], q[i])] \in [1 .. k -> Digit]
        /\ [i \in 1 .. k |-> DigitOr(p[i], q[i])] \in [1 .. k -> Digit]
        /\ [i \in 1 .. k |-> DigitXor(p[i], q[i])] \in [1 .. k -> Digit]
    BY <1>2, <1>4
  <1>6. /\ Merge(DigitAnd, p, q, high)
             = [i \in 1 .. k |-> DigitAnd(p[i], q[i])] \o SubSeq(high, k + 1, Len(high))
        /\ Merge(DigitOr, p, q, high)
             = [i \in 1 .. k |-> DigitOr(p[i], q[i])] \o SubSeq(high, k + 1, Len(high))
        /\ Merge(DigitXor, p, q, high)
             = [i \in 1 .. k |-> DigitXor(p[i], q[i])] \o SubSeq(high, k + 1, Len(high))
    BY <1>1, Zenon DEF Merge
  <1> QED
    BY <1>3, <1>5, <1>6, Zenon

LEMMA BitsTyped ==
    ASSUME BigArithConstants, NEW u \in Buffer, NEW v \in Buffer, Len(v) <= Len(u),
           NEW sign1, NEW sign2
    PROVE  /\ Band(u, sign1, v, sign2) \in Numbers
           /\ Bor(u, sign1, v, sign2) \in Numbers
           /\ Bxor(u, sign1, v, sign2) \in Numbers
  <1>1. /\ u \in Seq(Digit) /\ Len(u) \in Nat
        /\ v \in Seq(Digit) /\ Len(v) \in Nat /\ Len(v) >= 1
    BY DEF Buffer
  <1>2. PICK p \in Seq(Digit) : p = TwosDigits(u, sign1) /\ Len(p) = Len(u)
    BY <1>1, TwosDigitsTyped
  <1>3. PICK q \in Buffer : q = TwosDigits(v, sign2) /\ Len(q) = Len(v)
    BY <1>1, TwosDigitsTyped DEF Buffer
  <1>4. /\ u \in Seq(Digit) /\ p \in Seq(Digit) /\ Complements(u) \in Seq(Digit)
        /\ <<>> \in Seq(Digit)
    BY <1>1, ComplementsTyped
  <1>5. ASSUME NEW h \in Seq(Digit)
        PROVE  /\ Merge(DigitAnd, p, q, h) \in Buffer
               /\ Merge(DigitOr, p, q, h) \in Buffer
               /\ Merge(DigitXor, p, q, h) \in Buffer
    <2>1. Len(q) <= Len(p)
      BY <1>2, <1>3
    <2> QED
      BY <2>1, MergesTyped
  <1>6. ASSUME NEW P \in BOOLEAN, NEW r \in Buffer
        PROVE  Num(Bit(P), r) \in Numbers
    <2>1. Bit(P) \in Signs
      BY DEF Bit, Signs
    <2> QED
      BY <2>1 DEF Num, Numbers
  <1>7. Band(u, sign1, v, sign2) \in Numbers
    <2>1. PICK P \in BOOLEAN : P <=> (sign1 # 0 /\ sign2 # 0)
      OBVIOUS
    <2>2. PICK h \in Seq(Digit) :
            h = IF Bit(P) = 1 THEN Complements(u) ELSE IF sign2 # 0 THEN u ELSE <<>>
      BY <1>4, Zenon
    <2>3. Bit(sign1 # 0 /\ sign2 # 0) = Bit(P)
      BY <2>1 DEF Bit
    <2>4. Band(u, sign1, v, sign2) =
            Num(Bit(P), Merge(DigitAnd, p, q, h))
      BY <1>2, <1>3, <2>2, <2>3, Zenon DEF Band
    <2> QED
      BY <1>5, <1>6, <2>4, Zenon
  <1>8. Bor(u, sign1, v, sign2) \in Numbers
    <2>1. PICK P \in BOOLEAN : P <=> (sign1 # 0 \/ sign2 # 0)
      OBVIOUS
    <2>2. PICK h \in Seq(Digit) : h = IF sign2 # 0 THEN <<>> ELSE p
      BY <1>4, Zenon
    <2>3. Bit(sign1 # 0 \/ sign2 # 0) = Bit(P)
      BY <2>1 DEF Bit
    <2>4. Bor(u, sign1, v, sign2) = Num(Bit(P), Merge(DigitOr, p, q, h))
      BY <1>2, <1>3, <2>2, <2>3, Zenon DEF Bor
    <2> QED
      BY <1>5, <1>6, <2>4, Zenon
  <1>9. Bxor(u, sign1, v, sign2) \in Numbers
    <2>1. PICK P \in BOOLEAN : P <=> (sign1 # sign2)
      OBVIOUS
    <2>2. PICK h \in Seq(Digit) : h = IF sign1 # 0 /\ sign2 = 0 THEN Complements(u) ELSE u
      BY <1>4, Zenon
    <2>3. Bit(sign1 # sign2) = Bit(P)
      BY <2>1 DEF Bit
    <2>4. Bxor(u, sign1, v, sign2) =
            Num(Bit(P), Merge(DigitXor, p, q, h))
      BY <1>2, <1>3, <2>2, <2>3, Zenon DEF Bxor
    <2> QED
      BY <1>5, <1>6, <2>4, Zenon
  <1> QED
    BY <1>7, <1>8, <1>9

LEMMA BnotTyped ==
    ASSUME BigArithConstants, NEW x \in Numbers, NEW dst \in Numbers, NEW size \in Nat
    PROVE  Bnot(x, dst, size) \in Numbers
  <1>1. x.digits \in Buffer /\ x.sign \in Signs /\ 1 \in Signs
    BY DEF Numbers, Signs
  <1>2. PICK v \in Seq(Digit) : v = IF x.sign = 0 THEN <<>> ELSE <<1>>
    <2>1. <<>> \in Seq(Digit) /\ <<1>> \in Seq(Digit)
      BY IntTermAssumption DEF Digit
    <2> QED
      BY <2>1, Zenon
  <1>3. PICK r : r = AddSub(x.digits, x.sign, v, 1, dst, size)
    OBVIOUS
  <1>4. r.num \in Numbers
    BY <1>1, <1>3, AddSubTyped
  <1>5. Bnot(x, dst, size) = [sign |-> Negated(x.sign), digits |-> r.num.digits]
    BY <1>2, <1>3, Zenon DEF Bnot, Num
  <1>6. Negated(x.sign) \in Signs
    BY DEF Negated, Bit, Signs
  <1> QED
    BY <1>4, <1>5, <1>6 DEF Numbers

-----------------------------------------------------------------------------
\* Integers between a C variable and a term
LEMMA Halves ==
    /\ Base \in Nat /\ CellBase \in Nat /\ IntBase \in Nat
    /\ Half(Base) \in Nat /\ Base = 2 * Half(Base) /\ Half(Base) > 0
    /\ Half(CellBase) \in Nat /\ CellBase = 2 * Half(CellBase) /\ Half(CellBase) > 0
    /\ Half(IntBase) \in Nat /\ IntBase = 2 * Half(IntBase) /\ Half(IntBase) > 0
    /\ Half(CellBase) < Half(Base) /\ Half(IntBase) <= Half(Base)
  BY IntTermAssumption DEF Half

LEMMA NegativeModulo ==
    ASSUME NEW n \in Nat, NEW i \in Int, i >= -n, i < 0
    PROVE  i % n = i + n
  BY Z3

\* A number of a signed range is found again behind its wrapping.
LEMMA WrapFacts ==
    ASSUME NEW base \in Nat, NEW h \in Nat, h = Half(base), base = 2 * h, h > 0,
           NEW i \in Int, -h <= i, i < h
    PROVE  /\ i % base \in 0 .. base - 1
           /\ i % base = (IF i < 0 THEN i + base ELSE i)
           /\ Wrap(i % base, base) = i /\ Wrap(i, base) = i
  <1>1. PICK u \in Int : u = IF i < 0 THEN i + base ELSE i
    OBVIOUS
  <1>2. i % base = u /\ u % base = u /\ u \in 0 .. base - 1
    <2>1. u \in 0 .. base - 1
      BY <1>1
    <2>2. u % base = u
      BY <2>1
    <2>3. CASE i < 0
      <3>1. i >= -base /\ u = i + base
        BY <1>1, <2>3
      <3>2. i % base = i + base
        BY <2>3, <3>1, NegativeModulo
      <3> QED
        BY <2>1, <2>2, <3>1, <3>2
    <2>4. CASE ~(i < 0)
      BY <1>1, <2>1, <2>2, <2>4
    <2> QED
      BY <2>3, <2>4
  <1>3. (IF u >= h THEN u - base ELSE u) = i
    BY <1>1
  <1>4. Wrap(i, base) = (IF u >= h THEN u - base ELSE u)
    BY <1>2, Zenon DEF Wrap
  <1>5. Wrap(u, base) = (IF u >= h THEN u - base ELSE u)
    BY <1>2, Zenon DEF Wrap
  <1> QED
    BY <1>1, <1>2, <1>3, <1>4, <1>5

\* enif_make_int64 makes a bignum of every number.
LEMMA MakeInt64Facts ==
    ASSUME NEW i \in Int, -Half(Base) <= i, i < Half(Base)
    PROVE  /\ MakeInt64(i) = IF i < 0 THEN Neg(-i) ELSE Pos(i)
           /\ i < 0 => (-i) \in 1 .. Half(Base)
  <1>1. PICK B \in Nat, h \in Nat, k \in Nat :
          /\ B = Base /\ h = Half(Base) /\ k = Half(CellBase) /\ B = 2 * h /\ k < h /\ h > 0
    BY Halves
  <1>2. PICK u \in Int : u = i % B /\ ~(u >= B - k /\ u < k)
    BY <1>1
  <1>3. MakeInt64(i) = IF i < 0 THEN Neg((-i) % B) ELSE Pos(i)
    BY <1>1, <1>2 DEF MakeInt64
  <1>4. i < 0 => (-i) % B = -i /\ -i \in 1 .. h
    BY <1>1
  <1> QED
    BY <1>1, <1>3, <1>4

\* What the get functions answer for a term that is the number m
Answers(x, m) ==
    /\ GetInt64(x) = (IF m \in Int64 THEN Answer(m) ELSE Refusal)
    /\ GetUint64(x) = (IF m \in Uint64 THEN Answer(m) ELSE Refusal)

LEMMA SmallAnswers ==
    ASSUME NEW m \in Nat, m < Half(CellBase)
    PROVE  Answers(Small(m), m)
  <1>1. PICK B \in Nat, h \in Nat, C \in Nat, k \in Nat :
          /\ B = Base /\ h = Half(Base) /\ C = CellBase /\ k = Half(CellBase)
          /\ B = 2 * h /\ C = 2 * k /\ k < h /\ k > 0
    BY Halves
  <1>2. Wrap(m, C) = m
    BY <1>1, WrapFacts
  <1>3. m \in -h .. h - 1 /\ m \in 0 .. B - 1 /\ ~(m >= k)
    BY <1>1
  <1>4. m \in Int64 /\ m \in Uint64
    BY <1>1, <1>3 DEF Int64, Uint64, SignedOf, UnsignedOf
  <1>5. GetInt64(Small(m)) = Answer(m)
    BY <1>1, <1>2 DEF GetInt64, Small
  <1>6. GetUint64(Small(m)) = Answer(m)
    BY <1>1, <1>3 DEF GetUint64, Small
  <1> QED
    BY <1>4, <1>5, <1>6 DEF Answers

LEMMA PosAnswers ==
    ASSUME NEW m \in Nat, m < Base
    PROVE  Answers(Pos(m), m)
  <1>1. PICK B \in Nat, h \in Nat : B = Base /\ h = Half(Base) /\ B = 2 * h /\ h > 0
    BY Halves
  <1>2. (m \in -h .. h - 1 <=> ~(m >= h)) /\ m \in 0 .. B - 1
    BY <1>1
  <1>3. (m \in Int64 <=> ~(m >= Half(Base))) /\ m \in Uint64
    BY <1>1, <1>2 DEF Int64, Uint64, SignedOf, UnsignedOf
  <1>4. GetInt64(Pos(m)) = IF m >= Half(Base) THEN Refusal ELSE Answer(m)
    BY DEF GetInt64, Pos
  <1>5. GetUint64(Pos(m)) = Answer(m)
    BY DEF GetUint64, Pos
  <1> QED
    BY <1>3, <1>4, <1>5 DEF Answers

LEMMA NegAnswers ==
    ASSUME NEW d \in Nat, d > 0, d <= Half(Base)
    PROVE  Answers(Neg(d), -d)
  <1>1. PICK B \in Nat, h \in Nat : B = Base /\ h = Half(Base) /\ B = 2 * h /\ h > 0
    BY Halves
  <1>2. -d \in -h .. h - 1 /\ -d \notin 0 .. B - 1
    BY <1>1
  <1>3. -d \in Int64 /\ -d \notin Uint64
    BY <1>1, <1>2 DEF Int64, Uint64, SignedOf, UnsignedOf
  <1>4. ~(d >= h /\ (2 * d) % B # 0)
    BY <1>1
  <1>5. Wrap(-d, B) = -d
    BY <1>1, <1>2, WrapFacts
  <1>6. GetInt64(Neg(d)) = Answer(-d)
    BY <1>1, <1>4, <1>5 DEF GetInt64, Neg
  <1>7. GetUint64(Neg(d)) = Refusal
    BY DEF GetUint64, Neg
  <1> QED
    BY <1>3, <1>6, <1>7 DEF Answers

LEMMA MadeAnswers ==
    /\ \A i \in Int64 : Answers(MakeInt64(i), i)
    /\ \A u \in Uint64 : Answers(MakeUint64(u), u)
  <1>1. PICK B \in Nat, h \in Nat, k \in Nat :
          B = Base /\ h = Half(Base) /\ k = Half(CellBase) /\ B = 2 * h /\ h > 0 /\ k < h
    BY Halves
  <1>2. ASSUME NEW i \in Int64
        PROVE  Answers(MakeInt64(i), i)
    <2>1. i \in Int /\ -h <= i /\ i < h
      BY <1>1 DEF Int64, SignedOf
    <2>2. /\ MakeInt64(i) = IF i < 0 THEN Neg(-i) ELSE Pos(i)
          /\ i < 0 => (-i) \in 1 .. h
      BY <1>1, <2>1, MakeInt64Facts
    <2>3. CASE i < 0
      <3>1. PICK d \in Nat : d = -i /\ i = -d /\ d > 0 /\ d <= h
        BY <2>1, <2>2, <2>3
      <3>2. Answers(Neg(d), -d)
        BY <1>1, <3>1, NegAnswers
      <3> QED
        BY <2>2, <2>3, <3>1, <3>2
    <2>4. CASE ~(i < 0)
      <3>1. i \in Nat /\ i < B
        BY <1>1, <2>1, <2>4
      <3>2. Answers(Pos(i), i)
        BY <1>1, <3>1, PosAnswers
      <3> QED
        BY <2>2, <2>4, <3>2
    <2> QED
      BY <2>3, <2>4
  <1>3. ASSUME NEW u \in Uint64
        PROVE  Answers(MakeUint64(u), u)
    <2>1. u \in Nat /\ u < B
      BY <1>1 DEF Uint64, UnsignedOf
    <2>2. Answers(Pos(u), u) /\ (u < Half(CellBase) => Answers(Small(u), u))
      BY <1>1, <2>1, PosAnswers, SmallAnswers
    <2> QED
      BY <2>2 DEF MakeUint64
  <1> QED
    BY <1>2, <1>3

\* get of an int or an unsigned is that of the wider type, in the range.
LEMMA NarrowAnswers ==
    ASSUME NEW x, NEW m \in Int, Answers(x, m)
    PROVE  /\ GetInt(x) = (IF m \in CInt THEN Answer(m) ELSE Refusal)
           /\ GetUint(x) = (IF m \in CUint THEN Answer(m) ELSE Refusal)
  <1>1. PICK B \in Nat, h \in Nat, I \in Nat, k \in Nat :
          /\ B = Base /\ h = Half(Base) /\ I = IntBase /\ k = Half(IntBase)
          /\ B = 2 * h /\ I = 2 * k /\ k <= h
    BY Halves
  <1>2. (m \in -k .. k - 1 => m \in -h .. h - 1) /\ (m \in 0 .. I - 1 => m \in 0 .. B - 1)
    BY <1>1
  <1>3. (m \in CInt => m \in Int64) /\ (m \in CUint => m \in Uint64)
    BY <1>1, <1>2 DEF CInt, CUint, Int64, Uint64, SignedOf, UnsignedOf
  <1>4. Answer(m).ok /\ Answer(m).val = m /\ ~Refusal.ok
    BY DEF Answer, Refusal
  <1>5. GetInt(x) = (IF m \in CInt THEN Answer(m) ELSE Refusal)
    BY <1>3, <1>4, Zenon DEF Answers, GetInt, Within
  <1>6. GetUint(x) = (IF m \in CUint THEN Answer(m) ELSE Refusal)
    BY <1>3, <1>4, Zenon DEF Answers, GetUint, Within
  <1> QED
    BY <1>5, <1>6

-----------------------------------------------------------------------------
\* A number between an ErlNifBignum and a term
LEMMA SmallNumber ==
    ASSUME NEW n \in Int, -Half(CellBase) <= n, n < Half(CellBase)
    PROVE  GetNumber(Small(n % CellBase)) = IF n < 0 THEN Num(1, <<-n>>) ELSE Num(0, <<n>>)
  <1>1. PICK C \in Nat, k \in Nat : C = CellBase /\ k = Half(CellBase) /\ C = 2 * k /\ k > 0
    BY Halves
  <1>2. Wrap(n % C, C) = n
    BY <1>1, WrapFacts
  <1>3. Number(Small(n % C)) = n
    BY <1>1, <1>2 DEF Number, Small
  <1>4. GetNumber(Small(n % C)) = IF Number(Small(n % C)) < 0 THEN Num(1, <<-Number(Small(n % C))>>)
                                  ELSE Num(0, <<Number(Small(n % C))>>)
    BY DEF GetNumber, Small
  <1> QED
    BY <1>1, <1>3, <1>4, Zenon

LEMMA OneDigitNumber ==
    ASSUME BigArithConstants, NEW d \in Digit, NEW sign \in Signs
    PROVE  /\ Num(sign, <<d>>) \in Numbers /\ Tight(Num(sign, <<d>>).digits)
           /\ Value(Num(sign, <<d>>)) = Signed(sign, d)
  <1>1. <<d>> \in Seq(Digit) /\ Len(<<d>>) = 1
    OBVIOUS
  <1>2. <<d>> \in Buffer
    BY <1>1 DEF Buffer, BigArithConstants
  <1>3. PICK x : x = Num(sign, <<d>>)
    OBVIOUS
  <1>4. x.sign = sign /\ x.digits = <<d>> /\ x \in Numbers
    BY <1>2, <1>3 DEF Num, Numbers
  <1>5. Value(x) = Signed(sign, d)
    BY <1>4, OneDigit, Zenon DEF Value, Signed
  <1>6. Tight(x.digits)
    BY <1>1, <1>4 DEF Tight
  <1> QED
    BY <1>3, <1>4, <1>5, <1>6

\* y is the number x without leading zeros.
Reduces(y, x) == y \in Numbers /\ Value(y) = Value(x) /\ Tight(y.digits)

\* enif_make_number and enif_get_number together
LEMMA NumberTerm ==
    ASSUME BigArithConstants, NEW x \in Numbers
    PROVE  Reduces(GetNumber(MakeNumber(x)), x)
  <1>1. x.digits \in Buffer /\ x.digits \in Seq(Digit) /\ Len(x.digits) >= 1 /\ x.sign \in Signs
    <2>1. x.digits \in Buffer /\ x.sign \in Signs
      BY DEF Numbers
    <2> QED
      BY <2>1 DEF Buffer, BigArithConstants
  <1>2. PICK u \in Buffer : u = Trail(x.digits)
    BY <1>1, TrailTyped
  <1>3. Tight(u) /\ Magnitude(u) = Magnitude(x.digits)
    BY <1>1, <1>2, TrailFacts, TrailNumber
  <1>4. u \in Seq(Digit)
    BY DEF Buffer
  <1>5. PICK y : y = GetNumber(MakeNumber(x))
    OBVIOUS
  <1>6. Value(x) = Signed(x.sign, Magnitude(u))
    BY <1>3, Zenon DEF Value, Signed
  <1>7. PICK B \in Nat, h \in Nat, k \in Nat :
          B = Base /\ h = Half(Base) /\ k = Half(CellBase) /\ B = 2 * h /\ h > 0 /\ k < h /\ k > 0
    BY Halves
  <1>8. CASE Len(u) = 1
    <2>1. PICK d \in Digit : u = <<d>> /\ u[1] = d
      <3>1. u[1] \in Digit
        BY <1>4, <1>8
      <3>2. u = <<u[1]>>
        BY <1>4, <1>8
      <3> QED
        BY <3>1, <3>2
    <2>2. Value(x) = Signed(x.sign, d)
      BY <1>6, <2>1, OneDigit
    <2>3. d \in Nat /\ d < B
      BY <1>7 DEF Digit
    <2>4. CASE x.sign = 0
      <3>1. MakeNumber(x) = IF d < k THEN Small(d) ELSE Pos(d)
        <4>1. MakeNumber(x) = MakeUint64(d)
          BY <1>2, <1>8, <2>1, <2>4, Zenon DEF MakeNumber
        <4>2. MakeUint64(d) = IF d < k THEN Small(d) ELSE Pos(d)
          BY <1>7 DEF MakeUint64
        <4> QED
          BY <4>1, <4>2, Zenon
      <3>2. GetNumber(Pos(d)) = Num(0, <<d>>)
        BY DEF GetNumber, Pos
      <3>3. d < k => GetNumber(Small(d)) = Num(0, <<d>>)
        <4> SUFFICES ASSUME d < k
                     PROVE  GetNumber(Small(d)) = Num(0, <<d>>)
          OBVIOUS
        <4>1. -k <= d /\ d \in Int /\ ~(d < 0)
          BY <2>3
        <4>2. GetNumber(Small(d % CellBase)) = Num(0, <<d>>)
          BY <1>7, <4>1, SmallNumber
        <4>3. d % CellBase = d
          BY <1>7, <2>3, Halves
        <4> QED
          BY <4>2, <4>3
      <3>4. y = Num(0, <<d>>)
        BY <1>5, <3>1, <3>2, <3>3, Zenon
      <3> QED
        BY <1>1, <1>5, <2>2, <2>4, <3>4, OneDigitNumber DEF Reduces
    <2>5. CASE x.sign # 0 /\ d < h
      <3>1. MakeNumber(x) = MakeInt64(-d)
        BY <1>2, <1>7, <1>8, <2>1, <2>5, Zenon DEF MakeNumber
      <3>2. -d \in Int /\ -h <= -d /\ -d < h
        BY <1>7, <2>3, <2>5
      <3>3. MakeInt64(-d) = IF -d < 0 THEN Neg(-(-d)) ELSE Pos(-d)
        BY <1>7, <3>2, MakeInt64Facts
      <3>4. CASE d = 0
        <4>1. MakeInt64(-d) = Pos(0)
          <5>1. -d = 0
            BY <3>4, MinusZero, Zenon
          <5>2. ~(0 < 0)
            OBVIOUS
          <5> QED
            BY <3>3, <5>1, <5>2, Zenon
        <4>2. y = Num(0, <<0>>)
          <5>1. GetNumber(Pos(0)) = Num(0, <<0>>)
            BY DEF GetNumber, Pos
          <5> QED
            BY <1>5, <3>1, <4>1, <5>1, Zenon
        <4>3. Signed(0, 0) = Signed(x.sign, 0)
          BY MinusZero, Zenon DEF Signed
        <4>4. 0 \in Digit /\ 0 \in Signs
          BY <3>4 DEF Signs
        <4> QED
          BY <1>5, <2>2, <3>4, <4>2, <4>3, <4>4, OneDigitNumber DEF Reduces
      <3>5. CASE d # 0
        <4>1. MakeInt64(-d) = Neg(d)
          BY <2>3, <3>3, <3>5
        <4>2. y = Num(BIG_SIGN_BIT, <<d>>)
          BY <1>5, <3>1, <4>1 DEF GetNumber, Neg
        <4>3. Signed(BIG_SIGN_BIT, d) = Signed(x.sign, d)
          BY <2>5 DEF Signed, BIG_SIGN_BIT
        <4>4. BIG_SIGN_BIT \in Signs
          BY DEF Signs
        <4> QED
          BY <1>5, <2>2, <4>2, <4>3, <4>4, OneDigitNumber DEF Reduces
      <3> QED
        BY <3>4, <3>5
    <2>6. CASE x.sign # 0 /\ ~(d < h)
      <3>1. MakeNumber(x) = BigTerm(BIG_SIGN_BIT, u)
        BY <1>2, <1>7, <1>8, <2>1, <2>6, Zenon DEF MakeNumber
      <3>2. y = Num(BIG_SIGN_BIT, <<d>>)
        BY <1>5, <2>1, <3>1 DEF GetNumber, BigTerm
      <3>3. Signed(BIG_SIGN_BIT, d) = Signed(x.sign, d)
        BY <2>6 DEF Signed, BIG_SIGN_BIT
      <3>4. BIG_SIGN_BIT \in Signs
        BY DEF Signs
      <3> QED
        BY <1>5, <2>2, <3>2, <3>3, <3>4, OneDigitNumber DEF Reduces
    <2> QED
      BY <2>4, <2>5, <2>6
  <1>9. CASE Len(u) # 1
    <2>1. PICK s \in Signs : s = IF x.sign = 0 THEN 0 ELSE BIG_SIGN_BIT
      BY DEF Signs
    <2>2. MakeNumber(x) = BigTerm(s, u)
      BY <1>2, <1>9, <2>1, Zenon DEF MakeNumber
    <2>3. y = [sign |-> s, digits |-> u]
      BY <1>5, <2>2 DEF GetNumber, BigTerm, Num
    <2>4. s = 0 <=> x.sign = 0
      BY <2>1 DEF BIG_SIGN_BIT
    <2>5. y \in Numbers /\ y.sign = s /\ y.digits = u
      BY <2>3 DEF Numbers
    <2>6. Value(y) = Value(x)
      BY <1>3, <2>4, <2>5, Zenon DEF Value
    <2> QED
      BY <1>3, <1>5, <2>5, <2>6 DEF Reduces
  <1> QED
    BY <1>8, <1>9

-----------------------------------------------------------------------------
\* The calls of BigArith keep numbers numbers.
NumbersInv == a \in Numbers \cup {Empty} /\ b \in Numbers \cup {Empty} /\ asize \in Nat

LEMMA EmptyIsNoNumber == Empty \notin Numbers
  <1>1. Empty.digits = <<>> /\ Len(<<>>) = 0
    BY DEF Empty, Num
  <1>2. <<>> \notin Buffer
    BY <1>1 DEF Buffer
  <1> QED
    BY <1>1, <1>2 DEF Numbers

LEMMA SignsFacts ==
    /\ \A P : Bit(P) \in Signs
    /\ \A sign : Negated(sign) \in Signs
  BY DEF Signs, Bit, Negated

LEMMA TermsTyped ==
    ASSUME BigArithConstants, NEW n \in Given, NEW t \in TermsOf(n)
    PROVE  GetNumber(t) \in Numbers
  <1>1. n \in Int
    BY DEF BigArithConstants
  <1>2. CASE t = MakeNumber(Num(Bit(n < 0), Digits(n)))
    <2>1. Num(Bit(n < 0), Digits(n)) \in Numbers
      BY <1>1, DigitsTyped, SignsFacts DEF Num, Numbers
    <2> QED
      BY <1>2, <2>1, NumberTerm DEF Reduces
  <1>3. CASE n \in -Half(CellBase) .. -1 /\ t = Small(n % CellBase)
    <2>1. PICK k \in Nat, B \in Nat : k = Half(CellBase) /\ B = Base /\ k < B /\ k > 0
      BY Halves
    <2>2. -k <= n /\ n < k /\ n < 0 /\ -n \in 0 .. B - 1
      BY <1>1, <1>3, <2>1
    <2>3. -n \in Digit
      BY <2>1, <2>2 DEF Digit
    <2>4. GetNumber(t) = Num(1, <<-n>>)
      BY <1>1, <1>3, <2>1, <2>2, SmallNumber
    <2>5. 1 \in Signs
      BY DEF Signs
    <2> QED
      BY <2>3, <2>4, <2>5, OneDigitNumber
  <1> QED
    BY <1>2, <1>3 DEF TermsOf

LEMMA NegatedTyped ==
    ASSUME NEW x \in Numbers
    PROVE  NegatedNum(x) \in Numbers
  BY SignsFacts DEF NegatedNum, Num, Numbers

LEMMA OperandsTyped ==
    ASSUME NumbersInv, a # Empty, b # Empty, NEW o \in Operands
    PROVE  o[1] \in Numbers /\ o[2] \in Numbers /\ a \in Numbers
  BY DEF NumbersInv, Operands

LEMMA AllocTyped ==
    ASSUME BigArithConstants, NEW n \in 1 .. MaxDigits
    PROVE  Num(0, [i \in 1 .. n |-> 0]) \in Numbers
  <1>1. n \in Nat
    BY DEF BigArithConstants
  <1> DEFINE u == [i \in 1 .. n |-> 0]
  <1>2. u \in [1 .. n -> Digit]
    BY IntTermAssumption DEF Digit
  <1> HIDE DEF u
  <1>3. u \in Seq(Digit) /\ Len(u) = n
    BY <1>1, <1>2
  <1>4. u \in Buffer
    BY <1>3 DEF Buffer
  <1>5. Num(0, u) \in Numbers
    BY <1>4 DEF Num, Numbers, Signs
  <1> QED
    BY <1>5 DEF u

LEMMA MaxOfTwo ==
    ASSUME NEW m \in Nat, NEW n \in Nat
    PROVE  Max({m, n}) \in Nat
  <1>1. PICK x \in {m, n} : \A y \in {m, n} : x >= y
    <2>1. m >= n \/ n >= m
      OBVIOUS
    <2>2. m >= m /\ n >= n
      OBVIOUS
    <2> QED
      BY <2>1, <2>2
  <1>2. Max({m, n}) \in {m, n}
    BY <1>1, Zenon DEF Max
  <1> QED
    BY <1>2

LEMMA PlacesTyped ==
    ASSUME BigArithConstants, NEW n \in Nat
    PROVE  Places(n) \in Nat
  BY MaxOfTwo DEF Places, BigArithConstants

LEMMA NumbersStep ==
    ASSUME BigArithConstants, NumbersInv, [Next]_vars
    PROVE  NumbersInv'
  <1>1. CASE Load
    <2>1. PICK n \in Given : \E t \in TermsOf(n) :
            \/ /\ a' = GetNumber(t) /\ b' = b
               /\ \E min \in 0 .. MaxDigits : asize' = Places(Max({min, Len(GetNumber(t).digits)}))
            \/ b' = GetNumber(t) /\ a' = a /\ asize' = asize
      BY <1>1 DEF Load
    <2>2. PICK t \in TermsOf(n) :
            \/ /\ a' = GetNumber(t) /\ b' = b
               /\ \E min \in 0 .. MaxDigits : asize' = Places(Max({min, Len(GetNumber(t).digits)}))
            \/ b' = GetNumber(t) /\ a' = a /\ asize' = asize
      BY <2>1
    <2>3. PICK x \in Numbers : x = GetNumber(t)
      BY TermsTyped
    <2>4. Len(x.digits) \in Nat
      BY DEF Numbers, Buffer
    <2>5. \A min \in 0 .. MaxDigits : Places(Max({min, Len(x.digits)})) \in Nat
      <3>1. \A min \in 0 .. MaxDigits : min \in Nat
        OBVIOUS
      <3>2. \A min \in 0 .. MaxDigits : Max({min, Len(x.digits)}) \in Nat
        BY <2>4, <3>1, MaxOfTwo
      <3> QED
        BY <3>2, PlacesTyped
    <2> QED
      BY <2>2, <2>3, <2>5 DEF NumbersInv
  <1>2. CASE Alloc
    <2>1. PICK n \in 1 .. MaxDigits :
            a' = Num(0, [i \in 1 .. n |-> 0]) /\ asize' = n /\ b' = b
      BY <1>2 DEF Alloc
    <2>2. a' \in Numbers /\ asize' \in Nat
      BY <2>1, AllocTyped
    <2> QED
      BY <2>1, <2>2 DEF NumbersInv
  <1>3. CASE AddOrSub
    <2>1. PICK o \in Operands, s \in Signs :
            /\ b' = Empty /\ asize' = asize
            /\ a' = AddSub(o[1].digits, o[1].sign, o[2].digits, s, a, asize).num
      <3>1. PICK o \in Operands :
              /\ b' = Empty /\ asize' = asize
              /\ \/ a' = AddSub(o[1].digits, o[1].sign, o[2].digits, o[2].sign, a, asize).num
                 \/ a' = AddSub(o[1].digits, o[1].sign, o[2].digits,
                                Negated(o[2].sign), a, asize).num
        BY <1>3 DEF AddOrSub, Returns
      <3>2. o[2] \in Numbers
        BY <1>3, OperandsTyped DEF AddOrSub
      <3>3. o[2].sign \in Signs /\ Negated(o[2].sign) \in Signs
        BY <3>2, SignsFacts DEF Numbers
      <3> QED
        BY <3>1, <3>3
    <2>2. a \in Numbers /\ o[1] \in Numbers /\ o[2] \in Numbers
      BY <1>3, OperandsTyped DEF AddOrSub
    <2>3. o[1].digits \in Buffer /\ o[1].sign \in Signs /\ o[2].digits \in Seq(Digit)
      BY <2>2 DEF Numbers, Buffer
    <2>4. a' \in Numbers
      BY <2>1, <2>2, <2>3, AddSubTyped DEF NumbersInv
    <2> QED
      BY <2>1, <2>4 DEF NumbersInv
  <1>4. CASE BitOp
    <2> DEFINE longer(o) == IF Len(o[1].digits) >= Len(o[2].digits) THEN o[1] ELSE o[2]
               shorter(o) == IF Len(o[1].digits) >= Len(o[2].digits) THEN o[2] ELSE o[1]
               written(op, o) == Bitwise3(op, longer(o), shorter(o))
    <2>1. PICK op \in {"band", "bor", "bxor"}, o \in Operands, junk \in Unset :
            /\ b' = Empty
            /\ \/ a' = Empty /\ asize' = 0
               \/ /\ asize' = asize
                  /\ a' = Num(written(op, o).sign,
                              Btrail(written(op, o).digits, written(op, o).sign, junk))
      <3>1. PICK op \in {"band", "bor", "bxor"}, o \in Operands, junk \in Unset :
              IF RunsAway(op, longer(o), shorter(o)) \/ Len(written(op, o).digits) > Places(asize)
              THEN /\ ret' = Undefined /\ last' = <<op, longer(o), shorter(o)>>
                   /\ a' = Empty /\ b' = Empty /\ asize' = 0
              ELSE Returns(op, <<longer(o), shorter(o)>>,
                           Done(Num(written(op, o).sign,
                                    Btrail(written(op, o).digits, written(op, o).sign, junk))))
        BY <1>4, Zenon DEF BitOp
      <3> HIDE DEF longer, shorter, written
      <3> QED
        BY <3>1 DEF Returns, Done
    <2>2. PICK x, y, w : x = longer(o) /\ y = shorter(o) /\ w = Bitwise3(op, x, y)
      OBVIOUS
    <2>3. /\ b' = Empty
          /\ \/ a' = Empty /\ asize' = 0
             \/ asize' = asize /\ a' = Num(w.sign, Btrail(w.digits, w.sign, junk))
      BY <2>2, <2>1
    <2>4. o[1] \in Numbers /\ o[2] \in Numbers
      BY <1>4, OperandsTyped DEF BitOp
    <2>5. x \in Numbers /\ y \in Numbers /\ Len(y.digits) <= Len(x.digits)
      <3>1. Len(o[1].digits) \in Int /\ Len(o[2].digits) \in Int
        BY <2>4 DEF Numbers, Buffer
      <3> QED
        BY <2>2, <2>4, <3>1
    <2>6. x.digits \in Buffer /\ y.digits \in Buffer /\ junk \in Digit
      BY <2>5 DEF Numbers, BigArithConstants
    <2>7. w \in Numbers
      <3>1. /\ Band(x.digits, x.sign, y.digits, y.sign) \in Numbers
            /\ Bor(x.digits, x.sign, y.digits, y.sign) \in Numbers
            /\ Bxor(x.digits, x.sign, y.digits, y.sign) \in Numbers
        BY <2>5, <2>6, BitsTyped
      <3> QED
        BY <2>2, <3>1 DEF Bitwise3
    <2>8. Num(w.sign, Btrail(w.digits, w.sign, junk)) \in Numbers
      <3>1. w.sign \in Signs /\ w.digits \in Buffer
        BY <2>7 DEF Numbers
      <3>2. Btrail(w.digits, w.sign, junk) \in Buffer
        BY <2>6, <3>1, BtrailTyped
      <3> QED
        BY <3>1, <3>2 DEF Num, Numbers
    <2> QED
      BY <2>3, <2>8 DEF NumbersInv
  <1>5. CASE Unary
    <2>1. a \in Numbers /\ asize' = asize
      BY <1>5 DEF Unary, NumbersInv
    <2>2. \/ \E x \in {a, b} \ {Empty} : a' = NegatedNum(x) /\ b' = Empty
          \/ a' = a /\ b' = Empty
          \/ \E x \in {a, b} \ {Empty} : a' = Bnot(x, a, asize) /\ b' = Empty
          \/ b # Empty /\ b' = NegatedNum(b) /\ a' = a
      BY <1>5 DEF Unary
    <2>3. \A x \in {a, b} \ {Empty} : x \in Numbers
      BY DEF NumbersInv
    <2>4. \A x \in {a, b} \ {Empty} : NegatedNum(x) \in Numbers
      BY <2>3, NegatedTyped
    <2>5. \A x \in {a, b} \ {Empty} : Bnot(x, a, asize) \in Numbers
      BY <2>1, <2>3, BnotTyped DEF NumbersInv
    <2>6. b # Empty => b \in {a, b} \ {Empty}
      OBVIOUS
    <2> QED
      BY <2>1, <2>2, <2>4, <2>5, <2>6 DEF NumbersInv
  <1>6. CASE UNCHANGED vars
    BY <1>6 DEF vars, NumbersInv
  <1> QED
    BY <1>1, <1>2, <1>3, <1>4, <1>5, <1>6 DEF Next

\* cnif_big_add and cnif_big_sub
LEMMA AddSubCall ==
    ASSUME BigArithConstants, NumbersInv, AddOrSub
    PROVE  AddSubExact'
  <1>1. a # Empty /\ b # Empty
    BY DEF AddOrSub
  <1>2. PICK o \in Operands, op \in {"add", "sub"} : \E s, r :
          /\ s = IF op = "sub" THEN Negated(o[2].sign) ELSE o[2].sign
          /\ r = AddSub(o[1].digits, o[1].sign, o[2].digits, s, a, asize)
          /\ Returns(op, o, r)
    BY DEF AddOrSub
  <1>3. PICK s, r : /\ s = IF op = "sub" THEN Negated(o[2].sign) ELSE o[2].sign
                    /\ r = AddSub(o[1].digits, o[1].sign, o[2].digits, s, a, asize)
                    /\ Returns(op, o, r)
    BY <1>2
  <1>4. PICK x \in Numbers, y \in Numbers : x = o[1] /\ y = o[2] /\ a \in Numbers
    BY <1>1, OperandsTyped
  <1>5. a' = r.num /\ ret' = Bit(r.ok) /\ last' = <<op, x, y>> /\ asize' = asize /\ asize \in Nat
    BY <1>3, <1>4 DEF Returns, NumbersInv
  <1>6. /\ x.digits \in Buffer /\ x.sign \in Signs /\ y.digits \in Buffer /\ y.sign \in Signs
        /\ s \in Signs
    BY <1>3, <1>4, SignsFacts DEF Numbers
  <1>7. /\ x.digits \in Seq(Digit) /\ Len(x.digits) >= 1
        /\ y.digits \in Seq(Digit) /\ Len(y.digits) >= 1
    BY <1>6 DEF Buffer, BigArithConstants
  <1>8. last'[1] = op /\ last'[2] = x /\ last'[3] = y
    BY <1>5
  <1>9. PICK p \in Nat, q \in Nat : p = Magnitude(x.digits) /\ q = Magnitude(y.digits)
    BY <1>7, MagnitudeNat
  <1>10. PICK m : m = IF op = "add" THEN Value(x) + Value(y) ELSE Value(x) - Value(y)
    OBVIOUS
  <1>11. m = Signed(x.sign, p) + Signed(s, q)
    <2>1. Value(x) = Signed(x.sign, p) /\ Value(y) = Signed(y.sign, q)
      BY <1>9 DEF Value, Signed
    <2>2. CASE op = "add"
      BY <1>3, <1>4, <1>10, <2>1, <2>2
    <2>3. CASE op = "sub"
      <3>1. s = IF y.sign = 0 THEN 1 ELSE 0
        BY <1>3, <1>4, <2>3 DEF Negated, Bit
      <3>2. Signed(x.sign, p) - Signed(y.sign, q) = Signed(x.sign, p) + Signed(s, q)
        BY <3>1 DEF Signed
      <3> QED
        BY <1>10, <2>1, <2>3, <3>2
    <2> QED
      BY <2>2, <2>3
  <1>12. SUFFICES ASSUME {x.sign, s} # {1, BIG_SIGN_BIT}, Trimmed(x), Trimmed(y)
                  PROVE  IF ret' = 1
                         THEN Value(a)' = m /\ Trimmed(a)' /\ Len(r.num.digits) <= asize
                         ELSE \/ Len(x.digits) > asize \/ Len(y.digits) > asize
                              \/ m \notin -OutOfPlace(asize) + 1 .. OutOfPlace(asize) - 1
    <2>1. Sign2' = s
      BY <1>3, <1>4, <1>8 DEF Sign2
    <2> QED
      BY <1>5, <1>8, <1>10, <2>1 DEF AddSubExact
  <1>13. Tight(x.digits) /\ Tight(y.digits)
    BY <1>7, <1>12, TightIsTrail DEF Trimmed
  <1>14. CASE Len(x.digits) > asize \/ Len(y.digits) > asize
    <2>1. r = NoPlace(a)
      BY <1>3, <1>4, <1>14 DEF AddSub
    <2>2. ret' # 1
      BY <1>5, <2>1 DEF NoPlace, Bit
    <2> QED
      BY <1>14, <2>2
  <1>15. CASE ~(Len(x.digits) > asize \/ Len(y.digits) > asize)
    <2>1. Len(x.digits) <= asize /\ Len(y.digits) <= asize
      BY <1>5, <1>7, <1>15
    <2>2. AddSubResult(r, m, asize)
      <3>1. AddSubResult(AddSub(x.digits, x.sign, y.digits, s, a, asize),
                         Signed(x.sign, Magnitude(x.digits)) + Signed(s, Magnitude(y.digits)),
                         asize)
        BY <1>4, <1>5, <1>6, <1>12, <1>13, <2>1, AddSubValue
      <3> QED
        BY <1>3, <1>4, <1>9, <1>11, <3>1
    <2>3. CASE r.ok
      <3>1. ret' = 1 /\ Value(a)' = m /\ Tight(r.num.digits) /\ Len(r.num.digits) <= asize
        BY <1>5, <2>2, <2>3 DEF AddSubResult, Bit, Value
      <3>2. r.num \in Numbers
        BY <1>3, <1>4, <1>5, <1>6, <1>7, AddSubTyped
      <3>3. r.num.digits \in Seq(Digit) /\ Len(r.num.digits) >= 1
        BY <3>2 DEF Numbers, Buffer
      <3>4. Trimmed(r.num)
        BY <3>1, <3>3, TightIsTrail DEF Trimmed
      <3> QED
        BY <1>5, <3>1, <3>4 DEF Trimmed
    <2>4. CASE ~r.ok
      <3>1. ret' # 1 /\ m \notin -OutOfPlace(asize) + 1 .. OutOfPlace(asize) - 1
        BY <1>5, <2>2, <2>4 DEF AddSubResult, Bit
      <3> QED
        BY <3>1
    <2> QED
      BY <2>3, <2>4
  <1> QED
    BY <1>14, <1>15

LEMMA NumbersAlways ==
    ASSUME BigArithConstants
    PROVE  Spec => []NumbersInv
  <1>1. Init => NumbersInv
    BY DEF Init, NumbersInv
  <1>2. NumbersInv /\ [Next]_vars => NumbersInv'
    BY NumbersStep
  <1> QED
    BY <1>1, <1>2, PTL DEF Spec

\* cnif_big_add and cnif_big_sub are exact, for digits of any width and a buffer of any
\* allocated size: it holds the sum or the difference without leading zeros, or there is
\* no place in it for that, or not for one of the operands.
THEOREM AddSubIsExact ==
    ASSUME BigArithConstants
    PROVE  Spec => []AddSubExact
  <1>1. Init => AddSubExact
    BY DEF Init, AddSubExact
  <1>2. NumbersInv /\ AddSubExact /\ [Next]_vars => AddSubExact'
    <2> SUFFICES ASSUME NumbersInv, AddSubExact, [Next]_vars
                 PROVE  AddSubExact'
      OBVIOUS
    <2>1. CASE AddOrSub
      BY <2>1, AddSubCall
    <2>2. CASE Load \/ Alloc \/ BitOp \/ Unary
      <3>1. Load \/ Alloc => last'[1] \in {"load", "alloc"}
        BY DEF Load, Alloc
      <3>2. BitOp => \E op \in {"band", "bor", "bxor"} : \E x, y : last' = <<op, x, y>>
        BY DEF BitOp, Returns
      <3>3. Unary => \E op \in {"neg", "bnot"} : \E x : last' = <<op, x>>
        BY DEF Unary
      <3>4. last'[1] \notin {"add", "sub"}
        BY <2>2, <3>1, <3>2, <3>3
      <3> QED
        BY <3>4 DEF AddSubExact
    <2>3. CASE UNCHANGED vars
      BY <2>3 DEF vars, AddSubExact, Sign2, Value, Trimmed
    <2> QED
      BY <2>1, <2>2, <2>3 DEF Next
  <1>3. Spec => []NumbersInv
    BY NumbersAlways
  <1> QED
    BY <1>1, <1>2, <1>3, PTL DEF Spec

\* enif_make_number and enif_get_number keep every number, for words of any width.
THEOREM NumbersComeBack ==
    ASSUME BigArithConstants
    PROVE  Spec => []NumberRoundTrip
  <1>1. NumbersInv => NumberRoundTrip
    <2> SUFFICES ASSUME NumbersInv, a # Empty
                 PROVE  LET x == GetNumber(MakeNumber(a)) IN Value(x) = Value(a) /\ Trimmed(x)
      BY DEF NumberRoundTrip
    <2>1. PICK x : x = GetNumber(MakeNumber(a)) /\ Reduces(x, a)
      BY NumberTerm DEF NumbersInv
    <2>2. x.digits \in Seq(Digit) /\ Len(x.digits) >= 1 /\ Tight(x.digits)
      BY <2>1 DEF Reduces, Numbers, Buffer, BigArithConstants
    <2>3. Trimmed(x)
      BY <2>2, TightIsTrail DEF Trimmed
    <2> QED
      BY <2>1, <2>3 DEF Reduces
  <1>2. Spec => []NumbersInv
    BY NumbersAlways
  <1> QED
    BY <1>1, <1>2, PTL

-----------------------------------------------------------------------------
\* The last term is the number it was made of.
GivenInv ==
    /\ made \in Seq({MakeInt64(i) : i \in Int64} \cup {MakeUint64(u) : u \in Uint64} \cup Terms)
    /\ \A v \in given : v \in Int /\ Answers(made[Len(made)], v)

LEMMA GivenStep ==
    ASSUME GivenInv, [MadeNext]_madeVars
    PROVE  GivenInv'
  <1> DEFINE S == {MakeInt64(i) : i \in Int64} \cup {MakeUint64(u) : u \in Uint64} \cup Terms
  <1>1. PICK s \in Seq(S) : s = made
    BY DEF GivenInv
  <1>2. ASSUME NEW t \in S, NEW from, Made(t, from), \A v \in from : v \in Int /\ Answers(t, v)
        PROVE  GivenInv'
    <2>1. made' = Append(s, t) /\ given' = from
      BY <1>1, <1>2 DEF Made
    <2>2. Append(s, t) \in Seq(S) /\ Append(s, t)[Len(Append(s, t))] = t
      <3> HIDE DEF S
      <3> QED
        OBVIOUS
    <2>3. made' \in Seq(S) /\ made'[Len(made')] = t
      BY <2>1, <2>2
    <2> QED
      BY <1>2, <2>1, <2>3 DEF GivenInv
  <1>3. CASE MakeInt
    <2>1. PICK i \in Ints : Made(MakeInt64(i), {i})
      BY <1>3 DEF MakeInt
    <2>2. i \in Int64 /\ i \in Int
      BY MadeTermsAssumption, Halves DEF Int64, SignedOf
    <2>3. MakeInt64(i) \in S /\ Answers(MakeInt64(i), i)
      BY <2>2, MadeAnswers
    <2> HIDE DEF S
    <2> QED
      BY <1>2, <2>1, <2>2, <2>3
  <1>4. CASE MakeUint
    <2>1. PICK u \in Uints : Made(MakeUint64(u), {u})
      BY <1>4 DEF MakeUint
    <2>2. u \in Uint64 /\ u \in Int
      BY MadeTermsAssumption, Halves DEF Uint64, UnsignedOf
    <2>3. MakeUint64(u) \in S /\ Answers(MakeUint64(u), u)
      BY <2>2, MadeAnswers
    <2> HIDE DEF S
    <2> QED
      BY <1>2, <2>1, <2>2, <2>3
  <1>5. CASE MakeOther
    <2>1. PICK t \in Terms : Made(t, {})
      BY <1>5 DEF MakeOther
    <2>2. t \in S
      OBVIOUS
    <2> HIDE DEF S
    <2> QED
      BY <1>2, <2>1, <2>2
  <1>6. CASE UNCHANGED madeVars
    BY <1>6 DEF madeVars, GivenInv
  <1> QED
    BY <1>3, <1>4, <1>5, <1>6 DEF MadeNext

\* A number made into a term is read back by every get function whose type can hold
\* it, and refused by the others, whatever the width of a word, a cell and an int.
THEOREM IntegersComeBack == MadeSpec => []RoundTrip
  <1>1. MadeInit => GivenInv
    BY DEF MadeInit, GivenInv
  <1>2. GivenInv /\ [MadeNext]_madeVars => GivenInv'
    BY GivenStep
  <1>3. GivenInv => RoundTrip
    <2> SUFFICES ASSUME GivenInv, NEW v \in given
                 PROVE  LET x == made[Len(made)] IN
                        /\ GetInt64(x) = (IF v \in Int64 THEN Answer(v) ELSE Refusal)
                        /\ GetUint64(x) = (IF v \in Uint64 THEN Answer(v) ELSE Refusal)
                        /\ GetInt(x) = (IF v \in CInt THEN Answer(v) ELSE Refusal)
                        /\ GetUint(x) = (IF v \in CUint THEN Answer(v) ELSE Refusal)
      BY DEF RoundTrip
    <2>1. PICK x : x = made[Len(made)] /\ v \in Int /\ Answers(x, v)
      BY DEF GivenInv
    <2>2. /\ GetInt(x) = (IF v \in CInt THEN Answer(v) ELSE Refusal)
          /\ GetUint(x) = (IF v \in CUint THEN Answer(v) ELSE Refusal)
      BY <2>1, NarrowAnswers
    <2> QED
      BY <2>1, <2>2, Zenon DEF Answers
  <1> QED
    BY <1>1, <1>2, <1>3, PTL DEF MadeSpec
=============================================================================
