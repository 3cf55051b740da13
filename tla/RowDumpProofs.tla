----------------------------- MODULE RowDumpProofs ----------------------------
(***************************************************************************)
(* Proofs about RowDump, for rows of any fields that FieldOK allows.  The  *)
(* decoders, the writers and the reader are functions defined by recursion *)
(* over bytes: a lemma for each says that it exists and obeys its two      *)
(* equations, and the others use only these.                               *)
(***************************************************************************)
EXTENDS RowDump, SequenceTheorems, WellFoundedInduction, TLAPS

(***************************************************************************)
(* A set of natural numbers with 0 in it and n + 1 for every n holds them  *)
(* all; this is induction, with a set for the predicate.                   *)
(***************************************************************************)
LEMMA NatSetInduction ==
    ASSUME NEW S, 0 \in S, \A n \in Nat : n \in S => n + 1 \in S
    PROVE  Nat \subseteq S
<1> SUFFICES ASSUME Nat \ S # {} PROVE FALSE
  OBVIOUS
<1>1. \A m, n \in Nat : m < n => <<m, n>> \in OpToRel(<, Nat)
  BY DEF OpToRel
<1>2. PICK R : IsWellFoundedOn(R, Nat) /\ \A m, n \in Nat : m < n => <<m, n>> \in R
  BY <1>1, NatLessThanWellFounded
<1>3. IsWellFoundedOn(R, Nat)
  BY <1>2
<1>4. PICK m \in Nat \ S : \A n \in Nat \ S : ~ (<<n, m>> \in R)
  BY <1>3, WFMin
<1>5. m # 0 /\ m - 1 \in Nat /\ m = (m - 1) + 1 /\ m - 1 < m
  BY <1>4
<1>6. m - 1 \in S
  BY <1>2, <1>4, <1>5
<1> QED BY <1>4, <1>5, <1>6

\* f begins with a and goes on as h says, one function for each step.
IsSteps(h, X, last) == last \in Nat /\ h \in [1 .. last -> [X -> X]]
IsIteration(f, X, a, h, last) ==
    /\ f \in [0 .. last -> X]
    /\ f[0] = a /\ \A n \in 1 .. last : f[n] = h[n][f[n - 1]]

\* A function that is defined by recursion over 0 .. last exists.
LEMMA RecursionExists ==
    ASSUME NEW X, NEW a, a \in X, NEW last, NEW h, IsSteps(h, X, last)
    PROVE  \E f : IsIteration(f, X, a, h, last)
<1> USE DEF IsSteps
<1> DEFINE Upto(m, f) == f[0] = a /\ \A n \in 1 .. m : f[n] = h[n][f[n - 1]]
           S == {m \in Nat : m <= last => \E f \in [0 .. m -> X] : Upto(m, f)}
<1>1. 0 \in S
  <2>1. [n \in 0 .. 0 |-> a] \in [0 .. 0 -> X] /\ Upto(0, [n \in 0 .. 0 |-> a])
    OBVIOUS
  <2> QED BY <2>1
<1>2. ASSUME NEW m \in Nat, m \in S
      PROVE  m + 1 \in S
  <2> SUFFICES ASSUME m + 1 <= last
               PROVE  \E f \in [0 .. m + 1 -> X] : Upto(m + 1, f)
    OBVIOUS
  <2>1. PICK f \in [0 .. m -> X] : Upto(m, f)
    BY <1>2
  <2>2. f[m] \in X /\ m + 1 \in 1 .. last
    OBVIOUS
  <2>3. h[m + 1][f[m]] \in X
    BY <2>2
  <2> DEFINE g == [n \in 0 .. m + 1 |-> IF n = m + 1 THEN h[m + 1][f[m]] ELSE f[n]]
  <2>4. g \in [0 .. m + 1 -> X]
    BY <2>3
  <2>5. g[0] = a /\ \A n \in 1 .. m + 1 : g[n] = h[n][g[n - 1]]
    <3>1. g[0] = a
      BY <2>1
    <3>2. ASSUME NEW n \in 1 .. m + 1 PROVE g[n] = h[n][g[n - 1]]
      <4>1. CASE n = m + 1
        <5>1. n \in Nat /\ n - 1 \in 0 .. m /\ g[n - 1] = f[m]
          BY <4>1
        <5> QED BY <4>1, <5>1
      <4>2. CASE n # m + 1
        <5>1. n \in 1 .. m /\ g[n] = f[n] /\ g[n - 1] = f[n - 1]
          BY <4>2
        <5> QED BY <2>1, <5>1
      <4> QED BY <4>1, <4>2
    <3> QED BY <3>1, <3>2
  <2> QED BY <2>4, <2>5
<1>3. last \in S
  <2> HIDE DEF S
  <2> QED BY <1>1, <1>2, NatSetInduction
<1> QED BY <1>3 DEF IsIteration

\* The numbers up to n only.
LEMMA UptoInduction ==
    ASSUME NEW S, NEW n \in Nat, 0 \in S, \A k \in 1 .. n : k - 1 \in S => k \in S
    PROVE  0 .. n \subseteq S
<1> DEFINE T == {k \in Nat : k <= n => k \in S}
<1>1. 0 \in T
  OBVIOUS
<1>2. ASSUME NEW k \in Nat, k \in T PROVE k + 1 \in T
  <2>1. CASE k + 1 <= n
    <3>1. k + 1 \in 1 .. n /\ (k + 1) - 1 = k /\ k <= n
      BY <2>1
    <3> QED BY <1>2, <3>1
  <2>2. CASE ~ (k + 1 <= n)
    BY <2>2
  <2> QED BY <2>1, <2>2
<1>3. Nat \subseteq T
  <2> HIDE DEF T
  <2> QED BY <1>1, <1>2, NatSetInduction
<1> QED BY <1>3

LEMMA OneElement ==
    ASSUME NEW S, NEW s \in Seq(S), Len(s) = 1
    PROVE  s[1] \in S
OBVIOUS

LEMMA ThreeElements ==
    ASSUME NEW S, NEW s \in Seq(S), Len(s) = 3
    PROVE  /\ s[1] \in S /\ s[2] \in S /\ s[3] \in S
           /\ Head(s) = s[1] /\ Tail(s)[1] = s[2] /\ Tail(s)[2] = s[3]
<1>1. 1 \in 1 .. Len(s) /\ 2 \in 1 .. Len(s) /\ 3 \in 1 .. Len(s)
  OBVIOUS
<1>2. s # << >>
  BY SMTT(40)
<1> QED BY <1>1, <1>2, HeadTailProperties
-----------------------------------------------------------------------------
(* Bytes and the numbers they stand for                                    *)

IsShifting(by, v, n) ==
    /\ by \in [0 .. n -> Int]
    /\ by[0] = v /\ \A k \in 1 .. n : by[k] = by[k - 1] \div 256

LEMMA ShiftedUnfolds ==
    ASSUME NEW v \in Int, NEW n \in Nat
    PROVE  \E by : IsShifting(by, v, n) /\ Shifted(v, n) = by[n]
<1> DEFINE Is(f) == f = [k \in 0 .. n |-> IF k = 0 THEN v ELSE f[k - 1] \div 256]
           h == [k \in 1 .. n |-> [x \in Int |-> x \div 256]]
<1>1. PICK f \in [0 .. n -> Int] : f[0] = v /\ \A k \in 1 .. n : f[k] = f[k - 1] \div 256
  <2>1. IsSteps(h, Int, n)
    BY DEF IsSteps
  <2>2. PICK f : IsIteration(f, Int, v, h, n)
    <3> HIDE DEF h
    <3> QED BY <2>1, RecursionExists
  <2>3. f \in [0 .. n -> Int] /\ f[0] = v
    BY <2>2 DEF IsIteration
  <2>4. ASSUME NEW k \in 1 .. n PROVE f[k] = f[k - 1] \div 256
    <3>1. f[k] = h[k][f[k - 1]] /\ k - 1 \in 0 .. n
      BY <2>2 DEF IsIteration
    <3> QED BY <2>3, <3>1
  <2> QED BY <2>3, <2>4
<1>2. Is(f)
  BY <1>1
<1>3. PICK by : Is(by) /\ Shifted(v, n) = by[n]
  <2>1. Is(CHOOSE g : Is(g))
    BY ZenonT(60), <1>2
  <2> QED BY <2>1 DEF Shifted
<1>4. by[0] = v /\ \A k \in 1 .. n : by[k] = by[k - 1] \div 256
  BY <1>3
<1>5. by \in [0 .. n -> Int]
  <2> DEFINE S == {k \in 0 .. n : by[k] \in Int}
  <2>1. 0 \in S
    BY <1>4
  <2>2. ASSUME NEW k \in 1 .. n, k - 1 \in S PROVE k \in S
    BY <1>4, <2>2
  <2>3. 0 .. n \subseteq S
    <3> HIDE DEF S
    <3> QED BY <2>1, <2>2, UptoInduction
  <2> QED BY <1>3, <2>3
<1> QED BY <1>3, <1>4, <1>5 DEF IsShifting

LEMMA ShiftedFacts ==
    ASSUME NEW v \in Int, NEW n \in Nat
    PROVE  /\ Shifted(v, 0) = v /\ Shifted(v, n) \in Int
           /\ Shifted(v, n + 1) = Shifted(v, n) \div 256
<1>1. Shifted(v, 0) = v
  <2>1. PICK f : IsShifting(f, v, 0) /\ Shifted(v, 0) = f[0]
    BY ShiftedUnfolds
  <2> QED BY <2>1 DEF IsShifting
<1>2. PICK f : IsShifting(f, v, n) /\ Shifted(v, n) = f[n]
  BY ShiftedUnfolds
<1>3. PICK g : IsShifting(g, v, n + 1) /\ Shifted(v, n + 1) = g[n + 1]
  <2>1. n + 1 \in Nat
    OBVIOUS
  <2> QED BY <2>1, ShiftedUnfolds
<1>4. f[n] = g[n]
  <2> DEFINE S == {k \in 0 .. n : f[k] = g[k]}
  <2>1. 0 \in S
    BY <1>2, <1>3 DEF IsShifting
  <2>2. ASSUME NEW k \in 1 .. n, k - 1 \in S PROVE k \in S
    BY <1>2, <1>3, <2>2 DEF IsShifting
  <2>3. 0 .. n \subseteq S
    <3> HIDE DEF S
    <3> QED BY <2>1, <2>2, UptoInduction
  <2> QED BY <2>3
<1>5. g[n + 1] = g[n] \div 256
  <2>1. n + 1 \in 1 .. n + 1 /\ (n + 1) - 1 = n
    OBVIOUS
  <2> QED BY <1>3, <2>1 DEF IsShifting
<1>6. f[n] \in Int
  BY <1>2 DEF IsShifting
<1> QED BY <1>1, <1>2, <1>3, <1>4, <1>5, <1>6

IsNumber(upto, first, bytes) ==
    /\ upto \in [0 .. Len(bytes) -> Int]
    /\ upto[0] = first /\ \A k \in 1 .. Len(bytes) : upto[k] = 256 * upto[k - 1] + bytes[k]

LEMMA NumberUnfolds ==
    ASSUME NEW first \in Int, NEW bytes \in Seq(Int)
    PROVE  \E upto : IsNumber(upto, first, bytes) /\ Number(first, bytes) = upto[Len(bytes)]
<1> DEFINE n == Len(bytes)
           Is(f) == f = [k \in 0 .. Len(bytes) |->
                            IF k = 0 THEN first ELSE 256 * f[k - 1] + bytes[k]]
           h == [k \in 1 .. n |-> [x \in Int |-> 256 * x + bytes[k]]]
<1>1. PICK f \in [0 .. n -> Int] : /\ f[0] = first
                                   /\ \A k \in 1 .. n : f[k] = 256 * f[k - 1] + bytes[k]
  <2>1. IsSteps(h, Int, n)
    <3>1. \A k \in 1 .. n : bytes[k] \in Int
      OBVIOUS
    <3> QED BY <3>1 DEF IsSteps
  <2>2. PICK f : IsIteration(f, Int, first, h, n)
    <3> HIDE DEF h
    <3> QED BY <2>1, RecursionExists
  <2>3. f \in [0 .. n -> Int] /\ f[0] = first
    BY <2>2 DEF IsIteration
  <2>4. ASSUME NEW k \in 1 .. n PROVE f[k] = 256 * f[k - 1] + bytes[k]
    <3>1. f[k] = h[k][f[k - 1]]
      <4> HIDE DEF h
      <4> QED BY <2>2 DEF IsIteration
    <3>2. k - 1 \in 0 .. n
      OBVIOUS
    <3>3. f[k - 1] \in Int
      BY <2>3, <3>2
    <3> QED BY <3>1, <3>3
  <2> QED BY <2>3, <2>4
<1>2. Is(f)
  BY <1>1
<1>3. PICK upto : Is(upto) /\ Number(first, bytes) = upto[n]
  <2>1. Is(CHOOSE g : Is(g))
    BY ZenonT(60), <1>2
  <2> QED BY <2>1 DEF Number
<1>4. upto[0] = first /\ \A k \in 1 .. n : upto[k] = 256 * upto[k - 1] + bytes[k]
  <2>1. ASSUME NEW k \in 1 .. n PROVE upto[k] = 256 * upto[k - 1] + bytes[k]
    <3>1. k \in 0 .. Len(bytes) /\ k # 0
      OBVIOUS
    <3> QED BY <1>3, <3>1
  <2>2. 0 \in 0 .. Len(bytes)
    OBVIOUS
  <2> QED BY ZenonT(60), <1>3, <2>1, <2>2
<1>5. upto \in [0 .. n -> Int]
  <2> DEFINE S == {k \in 0 .. n : upto[k] \in Int}
  <2>1. 0 \in S
    BY <1>4
  <2>2. ASSUME NEW k \in 1 .. n, k - 1 \in S PROVE k \in S
    <3>1. bytes[k] \in Int
      OBVIOUS
    <3> QED BY SMTT(40), <1>4, <2>2, <3>1
  <2>3. 0 .. n \subseteq S
    <3>1. n \in Nat
      OBVIOUS
    <3> HIDE DEF S, n
    <3> QED BY <2>1, <2>2, <3>1, UptoInduction
  <2> QED BY <1>3, <2>3
<1> QED BY <1>3, <1>4, <1>5 DEF IsNumber

\* What ToBytes wrote is read again.
LEMMA NumberOfBytes ==
    ASSUME NEW v \in Int, NEW n \in Nat
    PROVE  /\ ToBytes(v, n) \in Seq(Byte) /\ Len(ToBytes(v, n)) = n
           /\ Number(Shifted(v, n), ToBytes(v, n)) = v
<1> DEFINE b == ToBytes(v, n)
<1>1. \A k \in 1 .. n : Shifted(v, n - k) \in Int
  BY ShiftedFacts
<1>2. b \in [1 .. n -> Byte]
  BY <1>1 DEF ToBytes, Byte
<1>3. b \in Seq(Byte) /\ Len(b) = n
  BY <1>2
<1>4. b \in Seq(Int)
  <2>1. Byte \subseteq Int
    BY DEF Byte
  <2> HIDE DEF b
  <2> QED BY <1>3, <2>1, SeqMonotonic
<1> HIDE DEF b
<1>5. PICK upto : IsNumber(upto, Shifted(v, n), b) /\ Number(Shifted(v, n), b) = upto[n]
  BY ZenonT(60), <1>3, <1>4, ShiftedFacts, NumberUnfolds
<1>6. 0 .. n \subseteq {k \in 0 .. n : upto[k] = Shifted(v, n - k)}
  <2> DEFINE S == {k \in 0 .. n : upto[k] = Shifted(v, n - k)}
  <2>1. 0 \in S
    BY <1>5 DEF IsNumber
  <2>2. ASSUME NEW k \in 1 .. n, k - 1 \in S PROVE k \in S
    <3>1. n - k \in Nat /\ n - (k - 1) = (n - k) + 1
      OBVIOUS
    <3>2. PICK x, y : x = Shifted(v, n - k) /\ y = Shifted(v, (n - k) + 1)
      OBVIOUS
    <3>7. x \in Int /\ y = x \div 256
      BY <3>1, <3>2, ShiftedFacts
    <3>3. upto[k - 1] = y
      BY <2>2, <3>1, <3>2
    <3>4. b[k] = x % 256
      BY <3>2 DEF b, ToBytes
    <3>5. upto[k] = 256 * y + (x % 256)
      BY <1>3, <1>5, <3>3, <3>4 DEF IsNumber
    <3>6. upto[k] = x
      BY <3>5, <3>7
    <3> QED BY <3>2, <3>6
  <2>3. 0 .. n \subseteq S
    <3> HIDE DEF S
    <3> QED BY <2>1, <2>2, UptoInduction
  <2> QED BY <2>3
<1>7. upto[n] = v
  <2>1. n \in 0 .. n /\ n - n = 0
    OBVIOUS
  <2> QED BY ZenonT(60), <1>6, <2>1, ShiftedFacts
<1> QED BY <1>3, <1>5, <1>7 DEF b

LEMMA UnsignedRead ==
    ASSUME NEW v \in Int, NEW n \in Nat, UnsignedFits(v, n)
    PROVE  BigEndian(ToBytes(v, n)) = v
BY NumberOfBytes DEF UnsignedFits, BigEndian

\* The bytes of a signed number with the sign bit flipped.
LEMMA FlippedBytes ==
    ASSUME NEW v \in Int, NEW n \in Nat, n > 0, SignedFits(v, n)
    PROVE  LET stored == FlipSign(ToBytes(v, n))
           IN  /\ stored \in Seq(Byte) /\ Len(stored) = n
               /\ Head(stored) - 128 = Shifted(v, n - 1)
               /\ Tail(stored) = ToBytes(v, n - 1)
<1> DEFINE b == ToBytes(v, n)
           stored == FlipSign(b)
<1>1. b \in Seq(Byte) /\ Len(b) = n
  BY NumberOfBytes
<1>2. PICK x : x = Shifted(v, n - 1)
  OBVIOUS
<1>3. x \in -128 .. 127
  BY <1>2 DEF SignedFits
<1>4. Head(b) = x % 256
  <2>1. Head(b) = b[1]
    BY <1>1
  <2> QED BY <1>2, <2>1 DEF ToBytes
<1>5. Tail(b) = ToBytes(v, n - 1)
  <2>1. n - 1 \in Nat
    OBVIOUS
  <2>2. Tail(b) \in Seq(Byte) /\ Len(Tail(b)) = n - 1
    BY <1>1
  <2>3. ToBytes(v, n - 1) \in Seq(Byte) /\ Len(ToBytes(v, n - 1)) = n - 1
    BY <2>1, NumberOfBytes
  <2>4. ASSUME NEW k \in 1 .. n - 1 PROVE Tail(b)[k] = ToBytes(v, n - 1)[k]
    <3>1. Tail(b)[k] = b[k + 1]
      <4> HIDE DEF b
      <4> QED BY <1>1
    <3>2. k + 1 \in 1 .. n /\ n - (k + 1) = (n - 1) - k
      OBVIOUS
    <3>3. b[k + 1] = Shifted(v, n - (k + 1)) % 256
      BY <3>2 DEF ToBytes
    <3>4. ToBytes(v, n - 1)[k] = Shifted(v, (n - 1) - k) % 256
      BY DEF ToBytes
    <3> QED BY <3>1, <3>2, <3>3, <3>4
  <2> HIDE DEF b
  <2> QED BY <2>2, <2>3, <2>4, SeqEqual
<1>6. ((x % 256) + 128) % 256 \in Byte /\ (((x % 256) + 128) % 256) - 128 = x
  BY <1>3 DEF Byte
<1>7. stored = <<((x % 256) + 128) % 256>> \o ToBytes(v, n - 1)
  BY <1>4, <1>5 DEF FlipSign
<1>8. ToBytes(v, n - 1) \in Seq(Byte) /\ Len(ToBytes(v, n - 1)) = n - 1
  <2>1. n - 1 \in Nat
    OBVIOUS
  <2> QED BY <2>1, NumberOfBytes
<1>9. /\ stored \in Seq(Byte) /\ Len(stored) = n
      /\ Head(stored) = ((x % 256) + 128) % 256 /\ Tail(stored) = ToBytes(v, n - 1)
  <2> DEFINE c == ((x % 256) + 128) % 256
             t == ToBytes(v, n - 1)
  <2>1. c \in Byte /\ t \in Seq(Byte) /\ Len(t) = n - 1 /\ stored = <<c>> \o t
    BY <1>6, <1>7, <1>8
  <2> HIDE DEF c, t, stored
  <2>2. stored \in Seq(Byte) /\ Len(stored) = n /\ Head(stored) = c
    BY <2>1
  <2>3. Tail(stored) = t
    <3>1. Tail(stored) \in Seq(Byte) /\ Len(Tail(stored)) = n - 1
      BY <2>2
    <3>2. ASSUME NEW k \in 1 .. n - 1 PROVE Tail(stored)[k] = t[k]
      <4>1. Tail(stored)[k] = stored[k + 1]
        BY <2>2
      <4>2. stored[k + 1] = t[k]
        BY <2>1
      <4> QED BY <4>1, <4>2
    <3> QED BY <2>1, <3>1, <3>2, SeqEqual
  <2> QED BY <2>2, <2>3 DEF c, t
<1> QED BY <1>2, <1>6, <1>9

LEMMA SignedRead ==
    ASSUME NEW v \in Int, NEW n \in Nat, n > 0, SignedFits(v, n)
    PROVE  SignFlipped(FlipSign(ToBytes(v, n))) = v
<1>1. n - 1 \in Nat
  OBVIOUS
<1>2. PICK stored : stored = FlipSign(ToBytes(v, n))
  OBVIOUS
<1>3. Head(stored) - 128 = Shifted(v, n - 1) /\ Tail(stored) = ToBytes(v, n - 1)
  BY <1>2, FlippedBytes
<1>4. Number(Shifted(v, n - 1), ToBytes(v, n - 1)) = v
  BY <1>1, NumberOfBytes
<1>5. SignFlipped(stored) = v
  BY <1>3, <1>4 DEF SignFlipped
<1> QED BY <1>2, <1>5

LEMMA NumberOfThree ==
    ASSUME NEW first \in Int, NEW bytes \in Seq(Byte), Len(bytes) = 3
    PROVE  Number(first, bytes) = 256 * (256 * (256 * first + bytes[1]) + bytes[2]) + bytes[3]
<1>1. bytes \in Seq(Int)
  <2>1. Byte \subseteq Int
    BY DEF Byte
  <2> QED BY <2>1, SeqMonotonic
<1>2. PICK f : IsNumber(f, first, bytes) /\ Number(first, bytes) = f[3]
  BY <1>1, NumberUnfolds
<1>3. f[1] = 256 * f[0] + bytes[1] /\ f[2] = 256 * f[1] + bytes[2] /\ f[3] = 256 * f[2] + bytes[3]
  BY <1>2 DEF IsNumber
<1> QED BY <1>2, <1>3 DEF IsNumber

\* An integer is read as the server stored it, unless it is a MEDIUMINT that
\* loses its upper bits.
LEMMA IntegerRead ==
    ASSUME NEW def, NEW value, def.type = "INT", ValueOK(def, value), ~ LossyNumber(def, value)
    PROVE  get_int_value(Stored(def, value)) = value[1]
<1>1. /\ value[1] \in Int /\ def.length \in {1, 2, 3, 4, 8}
      /\ SignedFits(value[1], def.length)
      /\ def.length = 3 => ~ (value[1] < -(2^15))
      /\ Stored(def, value) = FlipSign(ToBytes(value[1], def.length))
  <2>1. value \in Seq(Int) /\ Len(value) = 1 /\ def.length \in {1, 2, 3, 4, 8}
    BY DEF ValueOK
  <2>2. SignedFits(value[1], def.length)
    BY DEF ValueOK
  <2>3. def.length = 3 => ~ (value[1] < -(2^15))
    BY DEF LossyNumber
  <2>4. Stored(def, value) = FlipSign(ToBytes(value[1], def.length))
    BY SMT DEF Stored, Texts
  <2>5. value[1] \in Int
    BY <2>1, OneElement
  <2> QED BY <2>1, <2>2, <2>3, <2>4, <2>5
<1> DEFINE v == value[1]
           n == def.length
           stored == FlipSign(ToBytes(v, n))
<1>2. v \in Int /\ n \in {1, 2, 3, 4, 8} /\ SignedFits(v, n)
  BY <1>1
<1>3. n = 3 => ~ (v < -(2^15))
  BY <1>1
<1>4. Stored(def, value) = stored
  BY <1>1
<1>9. value[1] = v
  OBVIOUS
<1> HIDE DEF v, n
<1>5. /\ stored \in Seq(Byte) /\ Len(stored) = n
      /\ Head(stored) - 128 = Shifted(v, n - 1)
      /\ Tail(stored) = ToBytes(v, n - 1)
  <2>1. n \in Nat /\ n > 0
    BY <1>2
  <2> QED BY <1>2, <2>1, FlippedBytes
<1>6. SignFlipped(stored) = v
  <2>1. n \in Nat /\ n > 0
    BY <1>2
  <2> QED BY <1>2, <2>1, SignedRead
<1> HIDE DEF stored
<1>7. CASE n = 3 /\ Head(stored) < 128
  <2>1. PICK x, y : x = Shifted(v, 1) /\ y = Shifted(v, 2)
    OBVIOUS
  <2>2. x = v \div 256 /\ y = x \div 256 /\ x \in Int /\ y \in Int
    <3>1. 0 + 1 = 1 /\ 1 + 1 = 2 /\ 0 \in Nat /\ 1 \in Nat
      OBVIOUS
    <3> QED BY <1>2, <2>1, <3>1, ShiftedFacts
  <2>3. Head(stored) = y + 128
    <3>1. n - 1 = 2 /\ Head(stored) \in Int
      <4>1. Len(stored) = 3 /\ Head(stored) = stored[1] /\ stored[1] \in Byte
        BY <1>5, <1>7, ThreeElements
      <4> QED BY <1>7, <4>1 DEF Byte
    <3> QED BY <1>5, <2>1, <2>2, <3>1
  <2>4. stored[1] = y + 128
    BY <1>5, <1>7, <2>3
  <2>5. stored[2] = x % 256 /\ stored[3] = v % 256
    <3>1. Tail(stored)[1] = stored[2] /\ Tail(stored)[2] = stored[3]
      <4>1. stored \in Seq(Byte) /\ Len(stored) = 3
        BY <1>5, <1>7
      <4> QED BY <4>1, ThreeElements
    <3>2. Tail(stored) = ToBytes(v, 2)
      <4>1. n - 1 = 2
        BY <1>7
      <4> QED BY <1>5, <4>1
    <3>3. ToBytes(v, 2)[1] = Shifted(v, 1) % 256 /\ ToBytes(v, 2)[2] = Shifted(v, 0) % 256
      BY DEF ToBytes
    <3> QED BY ZenonT(60), <1>2, <2>1, <3>1, <3>2, <3>3, ShiftedFacts
  <2>6. BigEndian(stored) = 256 * (256 * (y + 128) + (x % 256)) + (v % 256)
    <3>1. BigEndian(stored) = 256 * (256 * (256 * 0 + stored[1]) + stored[2]) + stored[3]
      BY <1>5, <1>7, NumberOfThree DEF BigEndian
    <3> QED BY <2>2, <2>4, <2>5, <3>1
  <2>7. 256 * y + (x % 256) = x /\ 256 * x + (v % 256) = v
    BY <1>2, <2>2
  <2>8. BigEndian(stored) = v + 8388608
    <3> DEFINE r == x % 256
               q == v % 256
    <3>1. r \in Int /\ q \in Int /\ r = x - 256 * y /\ q = v - 256 * x
      BY <1>2, <2>2, <2>7
    <3>2. BigEndian(stored) = 256 * (256 * (y + 128) + r) + q
      BY <2>6
    <3> HIDE DEF r, q
    <3> QED BY <1>2, <2>2, <3>1, <3>2
  <2>9. v < 0 /\ v >= -32768
    <3>1. y < 0
      BY <1>7, <2>2, <2>3
    <3>2. x < 0
      BY <2>2, <3>1
    <3>3. v < 0
      BY <1>2, <2>2, <3>2
    <3>4. 2^15 = 32768
      BY SMT
    <3>5. ~ (v < -(32768))
      BY <1>3, <1>7, <3>4
    <3> QED BY <1>2, <3>3, <3>5
  <2>10. get_int_value(stored) = (BigEndian(stored) % 2^15) - 2^15
    BY <1>5, <1>7 DEF get_int_value
  <2>11. 2^15 = 32768
    BY SMT
  <2>12. (v + 8388608) % 32768 = v + 32768
    BY <1>2, <2>9
  <2> QED BY <1>2, <1>4, <1>9, <2>8, <2>10, <2>11, <2>12
<1>8. CASE ~ (n = 3 /\ Head(stored) < 128)
  <2>1. Len(stored) \notin {5, 6, 7} /\ ~ (Len(stored) = 3 /\ Head(stored) < 128)
    BY <1>2, <1>5, <1>8
  <2>2. get_int_value(stored) = SignFlipped(stored)
    BY <2>1 DEF get_int_value
  <2> QED BY <1>4, <1>6, <1>9, <2>2
<1> QED BY <1>7, <1>8

LEMMA UnsignedIntegerRead ==
    ASSUME NEW def, NEW value, def.type = "UINT", ValueOK(def, value), ~ LossyNumber(def, value)
    PROVE  /\ get_uint_value(Stored(def, value)) = value[1]
           /\ value[1] >= 0
<1>1. /\ value[1] \in Int /\ def.length \in {1, 2, 3, 4, 8}
      /\ UnsignedFits(value[1], def.length)
      /\ def.length = 3 => ~ (value[1] >= 2^22)
      /\ Stored(def, value) = ToBytes(value[1], def.length)
  <2>1. value \in Seq(Int) /\ Len(value) = 1 /\ def.length \in {1, 2, 3, 4, 8}
    BY DEF ValueOK
  <2>2. UnsignedFits(value[1], def.length)
    BY DEF ValueOK
  <2>3. def.length = 3 => ~ (value[1] >= 2^22)
    BY DEF LossyNumber
  <2>4. Stored(def, value) = ToBytes(value[1], def.length)
    BY SMT DEF Stored, Texts
  <2>5. value[1] \in Int
    BY <2>1, OneElement
  <2> QED BY <2>1, <2>2, <2>3, <2>4, <2>5
<1> DEFINE v == value[1]
           n == def.length
           stored == ToBytes(v, n)
<1>2. /\ v \in Int /\ n \in {1, 2, 3, 4, 8} /\ UnsignedFits(v, n)
      /\ n = 3 => ~ (v >= 2^22)
  BY <1>1
<1>3. Stored(def, value) = stored /\ value[1] = v
  BY <1>1
<1> HIDE DEF v, n
<1>4. n \in Nat /\ Len(stored) = n
  <2>1. n \in Nat
    BY <1>2
  <2> QED BY <1>2, <2>1, NumberOfBytes
<1>5. BigEndian(stored) = v
  BY <1>2, <1>4, UnsignedRead
<1> HIDE DEF stored
<1>6. v >= 0
  <2> DEFINE S == {k \in 0 .. n : Shifted(v, k) < 0}
  <2> SUFFICES ASSUME v < 0 PROVE FALSE
    BY <1>2
  <2>1. 0 \in S
    BY <1>2, <1>4, ShiftedFacts
  <2>2. ASSUME NEW k \in 1 .. n, k - 1 \in S PROVE k \in S
    <3>1. k - 1 \in Nat /\ (k - 1) + 1 = k
      OBVIOUS
    <3>2. PICK x : x = Shifted(v, k - 1)
      OBVIOUS
    <3>3. x \in Int /\ Shifted(v, k) = x \div 256
      BY <1>2, <3>1, <3>2, ShiftedFacts
    <3> QED BY <2>2, <3>2, <3>3
  <2>3. 0 .. n \subseteq S
    <3> HIDE DEF S
    <3> QED BY <1>4, <2>1, <2>2, UptoInduction
  <2>4. Shifted(v, n) < 0
    BY <1>4, <2>3
  <2> QED BY <1>2, <2>4 DEF UnsignedFits
<1>7. n = 3 => v < 4194304
  <2>1. 2^22 = 4194304
    BY SMT
  <2> QED BY <1>2, <2>1
<1>8. get_uint_value(stored) = v
  <2>1. CASE n = 3
    <3>1. 2^22 = 4194304
      BY SMT
    <3>2. v % 4194304 = v
      BY <1>2, <1>6, <1>7, <2>1
    <3> QED BY <1>4, <1>5, <2>1, <3>1, <3>2 DEF get_uint_value
  <2>2. CASE n # 3
    BY <1>4, <1>5, <2>2 DEF get_uint_value
  <2> QED BY <2>1, <2>2
<1> QED BY <1>3, <1>6, <1>8
-----------------------------------------------------------------------------
(* Decimal digits in eight bytes                                           *)

Appendings == [carry : 0 .. 99, bytes : Seq(Byte)]

AppendStep(last, b) ==
    LET part == 100 * b + last.carry
    IN  [carry |-> part \div 256, bytes |-> <<part % 256>> \o last.bytes]

IsAppending(done, bytes, pair) ==
    /\ done \in [0 .. Len(bytes) -> Appendings]
    /\ done[0] = [carry |-> pair, bytes |-> << >>]
    /\ \A k \in 1 .. Len(bytes) : done[k] = AppendStep(done[k - 1], bytes[Len(bytes) + 1 - k])

LEMMA AppendStepType ==
    ASSUME NEW last \in Appendings, NEW b \in Byte
    PROVE  /\ AppendStep(last, b) \in Appendings
           /\ AppendStep(last, b).carry = (100 * b + last.carry) \div 256
           /\ AppendStep(last, b).bytes = <<(100 * b + last.carry) % 256>> \o last.bytes
<1>1. last.carry \in 0 .. 99 /\ last.bytes \in Seq(Byte) /\ b \in 0 .. 255
  BY DEF Appendings, Byte
<1>2. PICK part : part = 100 * b + last.carry
  OBVIOUS
<1>3. part \in Nat /\ part < 25600
  <2>1. PICK c : c = last.carry /\ c \in 0 .. 99
    BY <1>1
  <2>2. part = 100 * b + c /\ b \in 0 .. 255
    BY <1>1, <1>2, <2>1
  <2>3. c \in 0 .. 99
    BY <2>1
  <2> QED BY <2>2, <2>3
<1>4. part \div 256 \in 0 .. 99 /\ part % 256 \in Byte
  BY <1>3 DEF Byte
<1>5. <<part % 256>> \o last.bytes \in Seq(Byte)
  BY <1>1, <1>4
<1>6. AppendStep(last, b) = [carry |-> part \div 256, bytes |-> <<part % 256>> \o last.bytes]
  BY SMTT(40), <1>2 DEF AppendStep
<1> QED BY <1>2, <1>4, <1>5, <1>6 DEF Appendings

LEMMA AppendPairUnfolds ==
    ASSUME NEW bytes \in Seq(Byte), NEW pair \in 0 .. 99
    PROVE  \E done : IsAppending(done, bytes, pair)
                     /\ AppendPair(bytes, pair) = done[Len(bytes)].bytes
<1> DEFINE n == Len(bytes)
           first == [carry |-> pair, bytes |-> << >>]
           Is(f) == f = [k \in 0 .. Len(bytes) |->
                            IF k = 0 THEN [carry |-> pair, bytes |-> << >>]
                            ELSE LET last == f[k - 1]
                                     part == 100 * bytes[Len(bytes) + 1 - k] + last.carry
                                 IN  [carry |-> part \div 256,
                                      bytes |-> <<part % 256>> \o last.bytes]]
           h == [k \in 1 .. n |-> [x \in Appendings |-> AppendStep(x, bytes[n + 1 - k])]]
<1>1. n \in Nat /\ \A k \in 1 .. n : bytes[n + 1 - k] \in Byte
  <2>1. ASSUME NEW k \in 1 .. n PROVE n + 1 - k \in 1 .. n
    OBVIOUS
  <2> QED BY <2>1, ElementOfSeq
<1>2. first \in Appendings
  BY DEF Appendings
<1>3. PICK f \in [0 .. n -> Appendings] :
        f[0] = first /\ \A k \in 1 .. n : f[k] = AppendStep(f[k - 1], bytes[n + 1 - k])
  <2>1. IsSteps(h, Appendings, n)
    BY ZenonT(60), <1>1, AppendStepType DEF IsSteps
  <2>2. PICK f : IsIteration(f, Appendings, first, h, n)
    <3> HIDE DEF h, first, n
    <3> QED BY <1>1, <1>2, <2>1, RecursionExists
  <2>3. f \in [0 .. n -> Appendings] /\ f[0] = first
    <3> HIDE DEF first, n
    <3> QED BY <2>2 DEF IsIteration
  <2>4. ASSUME NEW k \in 1 .. n PROVE f[k] = AppendStep(f[k - 1], bytes[n + 1 - k])
    <3>1. f[k] = h[k][f[k - 1]]
      <4> HIDE DEF h, first, n
      <4> QED BY <2>2 DEF IsIteration
    <3>2. k - 1 \in 0 .. n
      OBVIOUS
    <3>3. f[k - 1] \in Appendings
      <4> HIDE DEF Appendings
      <4> QED BY SMTT(40), <2>3, <3>2
    <3> QED BY <3>1, <3>3
  <2> QED BY <2>3, <2>4
<1>4. Is(f)
  <2> DEFINE g == [k \in 0 .. Len(bytes) |->
                      IF k = 0 THEN first ELSE AppendStep(f[k - 1], bytes[Len(bytes) + 1 - k])]
  <2>1. f = g
    <3> HIDE DEF first
    <3> QED BY <1>3
  <2>2. Is(f) <=> f = g
    BY DEF AppendStep
  <2> QED BY Zenon, <2>1, <2>2
<1>5. PICK done : Is(done) /\ AppendPair(bytes, pair) = done[n].bytes
  <2>1. Is(CHOOSE g : Is(g))
    <3> HIDE DEF Is
    <3> QED BY SMTT(40), <1>4
  <2> QED BY Zenon, <2>1 DEF AppendPair
<1>6. done = [k \in 0 .. n |->
                 IF k = 0 THEN first ELSE AppendStep(done[k - 1], bytes[n + 1 - k])]
  BY Zenon, <1>5 DEF AppendStep
<1>7. done[0] = first /\ \A k \in 1 .. n : done[k] = AppendStep(done[k - 1], bytes[n + 1 - k])
  <2>1. 0 \in 0 .. n /\ \A k \in 1 .. n : k \in 0 .. n /\ k # 0
    BY <1>1
  <2> HIDE DEF first, n
  <2> QED BY <1>6, <2>1
<1>8. done \in [0 .. n -> Appendings]
  <2> DEFINE S == {k \in 0 .. n : done[k] \in Appendings}
  <2> HIDE DEF first, n
  <2>1. 0 \in S
    BY <1>1, <1>2, <1>7
  <2>2. ASSUME NEW k \in 1 .. n, k - 1 \in S PROVE k \in S
    <3>1. done[k - 1] \in Appendings /\ bytes[n + 1 - k] \in Byte
      BY <1>1, <2>2
    <3>2. AppendStep(done[k - 1], bytes[n + 1 - k]) \in Appendings
      BY ZenonT(60), <3>1, AppendStepType
    <3>3. done[k] = AppendStep(done[k - 1], bytes[n + 1 - k])
      BY <1>7
    <3> QED BY <3>2, <3>3
  <2>3. 0 .. n \subseteq S
    <3> HIDE DEF S
    <3> QED BY <1>1, <2>1, <2>2, UptoInduction
  <2> QED BY <1>6, <2>3
<1> QED BY <1>5, <1>7, <1>8 DEF IsAppending

\* A carry goes from each byte to the one before it.
IsCarried(carry, bytes, pair, n) ==
    /\ carry \in [0 .. n -> 0 .. 99]
    /\ carry[0] = pair
    /\ \A k \in 1 .. n : carry[k] = (100 * bytes[n + 1 - k] + carry[k - 1]) \div 256
    /\ AppendPair(bytes, pair) = [j \in 1 .. n |-> (100 * bytes[j] + carry[n - j]) % 256]

LEMMA AppendedBytes ==
    ASSUME NEW bytes \in Seq(Byte), NEW pair \in 0 .. 99
    PROVE  \E carry : IsCarried(carry, bytes, pair, Len(bytes))
<1> DEFINE n == Len(bytes)
<1>1. n \in Nat /\ \A k \in 1 .. n : bytes[k] \in Byte
  BY ElementOfSeq
<1>2. PICK done : IsAppending(done, bytes, pair) /\ AppendPair(bytes, pair) = done[n].bytes
  BY AppendPairUnfolds
<1>3. /\ \A k \in 0 .. n : done[k] \in Appendings
      /\ done[0] = [carry |-> pair, bytes |-> << >>]
      /\ \A k \in 1 .. n : done[k] = AppendStep(done[k - 1], bytes[n + 1 - k])
  <2> HIDE DEF Appendings
  <2> QED BY <1>2 DEF IsAppending
<1> DEFINE carry == [k \in 0 .. n |-> done[k].carry]
           Written(j) == (100 * bytes[j] + carry[n - j]) % 256
<1> HIDE DEF n
<1>4. carry \in [0 .. n -> 0 .. 99]
  BY <1>3 DEF Appendings
<1>5. carry[0] = pair
  BY <1>1, <1>3
<1>6. ASSUME NEW k \in 1 .. n
      PROVE  /\ carry[k] = (100 * bytes[n + 1 - k] + carry[k - 1]) \div 256
             /\ done[k].bytes = <<(100 * bytes[n + 1 - k] + carry[k - 1]) % 256>>
                                   \o done[k - 1].bytes
  <2>1. k \in 0 .. n /\ k - 1 \in 0 .. n /\ n + 1 - k \in 1 .. n
    BY <1>1
  <2>2. done[k - 1] \in Appendings /\ bytes[n + 1 - k] \in Byte
    BY <1>1, <1>3, <2>1
  <2>3. carry[k] = done[k].carry /\ carry[k - 1] = done[k - 1].carry
    BY <2>1
  <2>4. done[k] = AppendStep(done[k - 1], bytes[n + 1 - k])
    BY <1>3
  <2> DEFINE b == bytes[n + 1 - k]
             old == done[k - 1]
  <2>5. old \in Appendings /\ b \in Byte
    BY <2>2
  <2>6. /\ carry[k] = AppendStep(old, b).carry /\ carry[k - 1] = old.carry
        /\ done[k].bytes = AppendStep(old, b).bytes
    BY <2>3, <2>4
  <2> HIDE DEF b, old, carry
  <2>7. /\ carry[k] = (100 * b + carry[k - 1]) \div 256
        /\ done[k].bytes = <<(100 * b + carry[k - 1]) % 256>> \o old.bytes
    BY <2>5, <2>6, AppendStepType
  <2> QED BY <2>7 DEF b, old
<1>7. 0 .. n \subseteq {k \in 0 .. n : done[k].bytes = [j \in 1 .. k |-> Written(n - k + j)]}
  <2> DEFINE S == {k \in 0 .. n : done[k].bytes = [j \in 1 .. k |-> Written(n - k + j)]}
  <2>1. 0 \in S
    <3>1. done[0].bytes = << >>
      BY <1>3
    <3> DEFINE none == [j \in 1 .. 0 |-> Written(n - 0 + j)]
    <3>2. none = << >>
      <4> HIDE DEF Written
      <4> QED OBVIOUS
    <3>3. 0 \in 0 .. n
      BY <1>1
    <3> QED BY <3>1, <3>2, <3>3
  <2>2. ASSUME NEW k \in 1 .. n, k - 1 \in S PROVE k \in S
    <3> DEFINE old == done[k - 1].bytes
               byte == Written(n + 1 - k)
    <3>1. done[k].bytes = <<byte>> \o old
      <4>1. n - (n + 1 - k) = k - 1
        BY <1>1
      <4> HIDE DEF carry
      <4> QED BY <1>6, <4>1
    <3>2. old = [j \in 1 .. k - 1 |-> Written(n - (k - 1) + j)] /\ old \in Seq(Byte)
      <4>1. done[k - 1] \in Appendings
        BY <1>1, <1>3
      <4>2. old \in Seq(Byte)
        BY <4>1 DEF Appendings
      <4> QED BY <2>2, <4>2
    <3>3. Len(old) = k - 1 /\ \A j \in 1 .. k - 1 : old[j] = Written(n - (k - 1) + j)
      <4> HIDE DEF Written
      <4> QED BY <3>2
    <3>4. done[k].bytes \in Seq(Byte)
      BY <1>1, <1>3 DEF Appendings
    <3>5. Len(done[k].bytes) = k
      <4> HIDE DEF byte, old
      <4> QED BY <3>1, <3>2, <3>3
    <3>6. ASSUME NEW j \in 1 .. k PROVE done[k].bytes[j] = Written(n - k + j)
      <4>1. CASE j = 1
        <5>1. done[k].bytes[1] = byte
          <6> HIDE DEF byte, old
          <6> QED BY <3>1, <3>2
        <5>2. n - k + 1 = n + 1 - k
          BY <1>1
        <5> QED BY <4>1, <5>1, <5>2
      <4>2. CASE j # 1
        <5>1. j - 1 \in 1 .. k - 1
          BY <4>2
        <5>2. done[k].bytes[j] = old[j - 1]
          <6> HIDE DEF byte, old
          <6> QED BY <3>1, <3>2, <3>3, <5>1
        <5>3. n - (k - 1) + (j - 1) = n - k + j
          BY <1>1
        <5>4. old[j - 1] = Written(n - (k - 1) + (j - 1))
          <6> HIDE DEF Written, old
          <6> QED BY <3>3, <5>1
        <5> QED BY <5>2, <5>3, <5>4
      <4> QED BY <4>1, <4>2
    <3>7. done[k].bytes = [j \in 1 .. k |-> Written(n - k + j)]
      <4>1. done[k].bytes \in [1 .. k -> Byte]
        BY <3>4, <3>5
      <4> HIDE DEF Written
      <4> QED BY <3>6, <4>1
    <3>8. k \in 0 .. n
      BY <1>1
    <3> QED BY <3>7, <3>8
  <2>3. 0 .. n \subseteq S
    <3> HIDE DEF S
    <3> QED BY <1>1, <2>1, <2>2, UptoInduction
  <2> QED BY <2>3
<1>8. AppendPair(bytes, pair) = [j \in 1 .. n |-> Written(j)]
  <2>1. n \in 0 .. n
    BY <1>1
  <2>2. done[n].bytes = [j \in 1 .. n |-> Written(n - n + j)]
    BY <1>7, <2>1
  <2>3. \A j \in 1 .. n : n - n + j = j
    BY <1>1
  <2>4. [j \in 1 .. n |-> Written(n - n + j)] = [j \in 1 .. n |-> Written(j)]
    <3> HIDE DEF Written
    <3> QED BY <2>3
  <2> QED BY <1>2, <2>2, <2>4
<1> HIDE DEF carry
<1>9. \A k \in 1 .. n : carry[k] = (100 * bytes[n + 1 - k] + carry[k - 1]) \div 256
  BY <1>6
<1> QED BY ZenonT(60), <1>4, <1>5, <1>8, <1>9 DEF n, IsCarried

LEMMA BytesAreNumbers ==
    ASSUME NEW bytes \in Seq(Byte)
    PROVE  bytes \in Seq(Int)
<1>1. Byte \subseteq Int
  BY DEF Byte
<1> QED BY <1>1, SeqMonotonic

LEMMA ByteIsInt ==
    Byte \subseteq Int
BY DEF Byte

LEMMA PlaceType ==
    ASSUME NEW b \in Byte, NEW l \in 0 .. 99
    PROVE  (100 * b + l) % 256 \in Byte
<1>1. PICK part : part = 100 * b + l
  OBVIOUS
<1>2. part \in Int
  BY <1>1 DEF Byte
<1>3. part % 256 \in Byte
  BY <1>2 DEF Byte
<1> QED BY <1>1, <1>3

LEMMA LastCarry ==
    ASSUME NEW l \in 0 .. 99
    PROVE  (100 * 0 + l) \div 256 = 0
OBVIOUS

LEMMA BigEndianUnfolds ==
    ASSUME NEW bytes \in Seq(Byte)
    PROVE  \E f : IsNumber(f, 0, bytes) /\ BigEndian(bytes) = f[Len(bytes)]
<1>1. bytes \in Seq(Int) /\ 0 \in Int
  BY BytesAreNumbers
<1> QED BY <1>1, NumberUnfolds DEF BigEndian

\* The arithmetic of one place: R and B are the numbers before it, b is the byte
\* that is multiplied, l the carry that comes and h the one that goes.
IsPlace(R, B, b, l, h) ==
    /\ R \in Int /\ B \in Int /\ b \in Byte /\ l \in 0 .. 99 /\ h \in Int
    /\ h = (100 * b + l) \div 256 /\ R = 100 * B + h

LEMMA PlaceSum ==
    ASSUME NEW R, NEW B, NEW b, NEW l, NEW h, IsPlace(R, B, b, l, h)
    PROVE  256 * R + ((100 * b + l) % 256) = 100 * (256 * B + b) + l
<1> USE DEF IsPlace
<1>1. PICK part : part = 100 * b + l
  OBVIOUS
<1>2. part \in Int
  BY <1>1 DEF Byte
<1>3. 256 * (part \div 256) + (part % 256) = part
  BY <1>2
<1>4. PICK r : r = part % 256
  OBVIOUS
<1>5. r \in Int /\ r = part - 256 * h
  BY <1>1, <1>2, <1>3, <1>4
<1>6. 256 * R + r = 100 * (256 * B + b) + l
  BY <1>1, <1>2, <1>5 DEF Byte
<1> QED BY <1>1, <1>4, <1>6

\* A pair of digits is appended, if there is room for it.
LEMMA AppendedNumber ==
    ASSUME NEW bytes \in Seq(Byte), NEW pair \in 0 .. 99, Len(bytes) > 0, bytes[1] = 0
    PROVE  /\ AppendPair(bytes, pair) \in Seq(Byte) /\ Len(AppendPair(bytes, pair)) = Len(bytes)
           /\ BigEndian(AppendPair(bytes, pair)) = 100 * BigEndian(bytes) + pair
<1> DEFINE n == Len(bytes)
           r == AppendPair(bytes, pair)
<1>1. n \in Nat /\ n > 0 /\ \A k \in 1 .. n : bytes[k] \in Byte
  BY ElementOfSeq
<1>0. PICK carry : IsCarried(carry, bytes, pair, n)
  BY AppendedBytes
<1>2. /\ carry[0] = pair
      /\ \A k \in 1 .. n : carry[k] = (100 * bytes[n + 1 - k] + carry[k - 1]) \div 256
      /\ r = [j \in 1 .. n |-> (100 * bytes[j] + carry[n - j]) % 256]
  BY <1>0 DEF IsCarried
<1> HIDE DEF n, r
<1>3. \A k \in 0 .. n : carry[k] \in 0 .. 99
  BY ZenonT(60), <1>0 DEF IsCarried
<1>4. r \in Seq(Byte) /\ Len(r) = n
  <2>1. ASSUME NEW j \in 1 .. n PROVE (100 * bytes[j] + carry[n - j]) % 256 \in Byte
    <3>1. n - j \in 0 .. n
      BY <1>1
    <3>2. bytes[j] \in Byte /\ carry[n - j] \in 0 .. 99
      BY <1>1, <1>3, <3>1
    <3> QED BY ZenonT(60), <3>2, PlaceType
  <2>2. r \in [1 .. n -> Byte]
    BY <1>2, <2>1
  <2> QED BY <1>1, <2>2
<1>5. carry[n] = 0
  <2>1. n \in 1 .. n /\ n + 1 - n = 1 /\ n - 1 \in 0 .. n
    BY <1>1
  <2>2. carry[n] = (100 * 0 + carry[n - 1]) \div 256 /\ carry[n - 1] \in 0 .. 99
    BY ZenonT(60), <1>2, <1>3, <2>1
  <2> QED BY <2>2, LastCarry
<1>7. PICK B : IsNumber(B, 0, bytes) /\ BigEndian(bytes) = B[n]
  BY BigEndianUnfolds DEF n
<1>8. PICK R : IsNumber(R, 0, r) /\ BigEndian(r) = R[n]
  BY <1>4, BigEndianUnfolds
<1>9. /\ B[0] = 0 /\ R[0] = 0
      /\ \A k \in 0 .. n : B[k] \in Int /\ R[k] \in Int
      /\ \A k \in 1 .. n : /\ B[k] = 256 * B[k - 1] + bytes[k]
                           /\ R[k] = 256 * R[k - 1] + r[k]
  <2>1. Len(bytes) = n
    BY DEF n
  <2> QED BY ZenonT(60), <1>4, <1>7, <1>8, <2>1 DEF IsNumber
<1>10. 0 .. n \subseteq {k \in 0 .. n : R[k] = 100 * B[k] + carry[n - k]}
  <2> DEFINE S == {k \in 0 .. n : R[k] = 100 * B[k] + carry[n - k]}
  <2>1. 0 \in S
    <3>1. n - 0 = n /\ 0 \in 0 .. n
      BY <1>1
    <3> QED BY <1>5, <1>9, <3>1
  <2>2. ASSUME NEW k \in 1 .. n, k - 1 \in S PROVE k \in S
    <3>1. /\ k - 1 \in 0 .. n /\ n - k \in 0 .. n /\ n - k + 1 \in 1 .. n
          /\ n - (k - 1) = n - k + 1 /\ n + 1 - (n - k + 1) = k /\ (n - k + 1) - 1 = n - k
      BY <1>1
    <3>2. PICK b, l, h : b = bytes[k] /\ l = carry[n - k] /\ h = carry[n - k + 1]
      OBVIOUS
    <3>3. b \in Byte /\ l \in 0 .. 99 /\ h \in Int /\ h = (100 * b + l) \div 256
      <4>1. n - k + 1 \in 0 .. n
        BY <1>1, <3>1
      <4>2. h \in 0 .. 99 /\ l \in 0 .. 99 /\ b \in Byte
        BY <1>1, <1>3, <3>1, <3>2, <4>1
      <4>3. h = (100 * b + l) \div 256
        BY SMTT(40), <1>2, <3>1, <3>2
      <4> QED BY <4>2, <4>3
    <3>4. r[k] = (100 * b + l) % 256
      BY <1>2, <3>2
    <3> DEFINE Rk == R[k - 1]
               Bk == B[k - 1]
    <3>5. Rk = 100 * Bk + h
      BY <2>2, <3>1, <3>2
    <3>6. B[k] = 256 * Bk + b /\ R[k] = 256 * Rk + r[k]
      BY <1>9, <3>2
    <3>7. Bk \in Int /\ Rk \in Int
      BY <1>9, <3>1
    <3> HIDE DEF Rk, Bk
    <3>8. 256 * Rk + ((100 * b + l) % 256) = 100 * (256 * Bk + b) + l
      <4>1. IsPlace(Rk, Bk, b, l, h)
        BY <3>3, <3>5, <3>7 DEF IsPlace
      <4> QED BY <4>1, PlaceSum
    <3>9. R[k] = 100 * B[k] + carry[n - k]
      BY <3>2, <3>4, <3>6, <3>8
    <3>10. k \in 0 .. n
      BY <1>1
    <3> QED BY <3>9, <3>10
  <2>3. 0 .. n \subseteq S
    <3> HIDE DEF S
    <3> QED BY <1>1, <2>1, <2>2, UptoInduction
  <2> QED BY <2>3
<1>11. R[n] = 100 * B[n] + pair
  <2>1. n \in 0 .. n /\ n - n = 0
    BY <1>1
  <2> QED BY <1>2, <1>10, <2>1
<1> QED BY <1>4, <1>7, <1>8, <1>11 DEF n, r

\* A number below 256^7 has a zero for the first of its eight bytes.
HasSevenBytes(v) == v < 16777216 * 4294967296

LEMMA FirstByteZero ==
    ASSUME NEW bytes \in Seq(Byte), Len(bytes) = 8, HasSevenBytes(BigEndian(bytes))
    PROVE  bytes[1] = 0
<1>1. PICK f : IsNumber(f, 0, bytes) /\ BigEndian(bytes) = f[Len(bytes)]
  BY BigEndianUnfolds
<1>2. IsNumber(f, 0, bytes) /\ BigEndian(bytes) = f[8]
  BY <1>1
<1>3. \A k \in 1 .. 8 : bytes[k] \in 0 .. 255
  BY ElementOfSeq DEF Byte
<1>4. f[0] = 0 /\ \A k \in 1 .. 8 : f[k] = 256 * f[k - 1] + bytes[k]
  BY <1>2 DEF IsNumber
<1>5. \A k \in 0 .. 8 : f[k] \in Int
  BY <1>2 DEF IsNumber
<1>6. ASSUME NEW k \in 1 .. 8 PROVE f[k] >= 256 * f[k - 1]
  <2>1. PICK x, b : x = f[k - 1] /\ b = bytes[k]
    OBVIOUS
  <2>2. k - 1 \in 0 .. 8
    OBVIOUS
  <2>3. x \in Int /\ b \in 0 .. 255
    BY <1>3, <1>5, <2>1, <2>2
  <2>4. f[k] = 256 * x + b
    BY SMTT(40), <1>4, <2>1
  <2>5. 256 * x + b >= 256 * x
    BY <2>3
  <2> QED BY <2>1, <2>4, <2>5
<1>7. f[1] = bytes[1] /\ bytes[1] \in 0 .. 255
  <2>1. 1 \in 1 .. 8 /\ 1 - 1 = 0
    OBVIOUS
  <2>2. PICK b : b = bytes[1]
    OBVIOUS
  <2>3. b \in 0 .. 255 /\ f[1] = 256 * 0 + b
    BY <1>3, <1>4, <2>1, <2>2
  <2>4. f[1] = b
    BY <2>3
  <2> QED BY <2>2, <2>3, <2>4
<1>8. /\ 1 - 1 = 0 /\ 2 - 1 = 1 /\ 3 - 1 = 2 /\ 4 - 1 = 3 /\ 5 - 1 = 4 /\ 6 - 1 = 5
      /\ 7 - 1 = 6 /\ 8 - 1 = 7
  OBVIOUS
<1>9. PICK f1, f2, f3, f4, f5, f6, f7, f8 :
        /\ f1 = f[1] /\ f2 = f[2] /\ f3 = f[3] /\ f4 = f[4]
        /\ f5 = f[5] /\ f6 = f[6] /\ f7 = f[7] /\ f8 = f[8]
  OBVIOUS
<1>10. /\ f2 >= 256 * f1 /\ f3 >= 256 * f2 /\ f4 >= 256 * f3
       /\ f5 >= 256 * f4 /\ f6 >= 256 * f5 /\ f7 >= 256 * f6 /\ f8 >= 256 * f7
  BY <1>6, <1>8, <1>9
<1>11. /\ f1 \in 0 .. 255 /\ f2 \in Int /\ f3 \in Int /\ f4 \in Int
       /\ f5 \in Int /\ f6 \in Int /\ f7 \in Int /\ f8 \in Int
  BY <1>5, <1>7, <1>9
<1>12. f4 >= 16777216 * f1
  BY SMT, <1>10, <1>11
<1>13. f8 >= 4294967296 * f4
  BY SMT, <1>10, <1>11
<1>14. f8 < 16777216 * 4294967296
  BY SMT, <1>2, <1>9 DEF HasSevenBytes
<1>15. f1 = 0
  BY SMT, <1>11, <1>12, <1>13, <1>14
<1> QED BY <1>7, <1>9, <1>15

\* The divisors that occur.
Divisors == {100, 10000}

Divisions(n) == [quotient : Seq(Byte), rest : 0 .. n - 1]

DivideStep(last, b, n) ==
    LET part == 256 * last.rest + b
    IN  [quotient |-> Append(last.quotient, part \div n), rest |-> part % n]

IsDivision(done, bytes, n) ==
    /\ done \in [0 .. Len(bytes) -> Divisions(n)]
    /\ done[0] = [quotient |-> << >>, rest |-> 0]
    /\ \A k \in 1 .. Len(bytes) : done[k] = DivideStep(done[k - 1], bytes[k], n)

LEMMA DivideByHundred ==
    ASSUME NEW p \in Int, p >= 0, p < 25600
    PROVE  /\ p \div 100 \in Int /\ p \div 100 >= 0 /\ p \div 100 < 256
           /\ p % 100 \in Int /\ p % 100 >= 0 /\ p % 100 < 100
           /\ p = 100 * (p \div 100) + (p % 100)
BY SMT

LEMMA DivideByTenThousand ==
    ASSUME NEW p \in Int, p >= 0, p < 2560000
    PROVE  /\ p \div 10000 \in Int /\ p \div 10000 >= 0 /\ p \div 10000 < 256
           /\ p % 10000 \in Int /\ p % 10000 >= 0 /\ p % 10000 < 10000
           /\ p = 10000 * (p \div 10000) + (p % 10000)
BY SMT

\* One place of a division: the rest goes on, and the quotient is a byte.
IsPart(part, rest, b, n) ==
    n \in Divisors /\ rest \in 0 .. n - 1 /\ b \in Byte /\ part = 256 * rest + b

LEMMA DivideOnce ==
    ASSUME NEW part, NEW rest, NEW b, NEW n, IsPart(part, rest, b, n)
    PROVE  /\ part \div n \in Byte /\ part % n \in 0 .. n - 1
           /\ part = n * (part \div n) + (part % n)
<1>1. part = 256 * rest + b /\ rest \in Int /\ rest >= 0 /\ rest < n /\ n \in {100, 10000}
  BY DEF IsPart, Divisors
<1>2. b \in Int /\ b >= 0 /\ b < 256
  BY DEF IsPart, Byte
<1>3. CASE n = 100
  <2>1. part \in Int /\ part >= 0 /\ part < 25600
    BY SMT, <1>1, <1>2, <1>3
  <2>2. /\ part \div 100 \in Int /\ part \div 100 >= 0 /\ part \div 100 < 256
        /\ part % 100 \in Int /\ part % 100 >= 0 /\ part % 100 < 100
        /\ part = 100 * (part \div 100) + (part % 100)
    BY <2>1, DivideByHundred
  <2> QED BY SMTT(40), <1>3, <2>2 DEF Byte
<1>4. CASE n = 10000
  <2>1. part \in Int /\ part >= 0 /\ part < 2560000
    BY SMT, <1>1, <1>2, <1>4
  <2>2. /\ part \div 10000 \in Int /\ part \div 10000 >= 0 /\ part \div 10000 < 256
        /\ part % 10000 \in Int /\ part % 10000 >= 0 /\ part % 10000 < 10000
        /\ part = 10000 * (part \div 10000) + (part % 10000)
    BY SMT, <2>1, DivideByTenThousand
  <2>3. PICK q, r : q = part \div 10000 /\ r = part % 10000
    OBVIOUS
  <2>4. /\ q \in Int /\ q >= 0 /\ q < 256 /\ r \in Int /\ r >= 0 /\ r < 10000
        /\ part = 10000 * q + r
    BY ONLY <2>2, <2>3
  <2>5. q \in Byte
    BY ONLY <2>4, SMT DEF Byte
  <2>6. r \in 0 .. 10000 - 1
    BY ONLY SMTT(40), <2>4
  <2>7. part = 10000 * q + r
    BY <2>4
  <2>8. part \div n = q /\ part % n = r
    BY ONLY <1>4, <2>3
  <2>9. r \in 0 .. n - 1
    BY ONLY <1>4, <2>6
  <2>10. part = n * q + r
    BY ONLY <1>4, <2>7
  <2> QED BY ONLY <2>5, <2>8, <2>9, <2>10
<1> QED BY <1>1, <1>3, <1>4

LEMMA DivideStepType ==
    ASSUME NEW n \in Divisors, NEW last \in Divisions(n), NEW b \in Byte
    PROVE  /\ DivideStep(last, b, n) \in Divisions(n)
           /\ DivideStep(last, b, n).rest = (256 * last.rest + b) % n
           /\ DivideStep(last, b, n).quotient =
                Append(last.quotient, (256 * last.rest + b) \div n)
<1>1. last.rest \in 0 .. n - 1 /\ last.quotient \in Seq(Byte)
  BY DEF Divisions
<1>2. PICK part : part = 256 * last.rest + b
  OBVIOUS
<1>3. PICK q, r : q = part \div n /\ r = part % n
  OBVIOUS
<1>4. q \in Byte /\ r \in 0 .. n - 1
  <2>1. IsPart(part, last.rest, b, n)
    BY <1>1, <1>2 DEF IsPart
  <2> QED BY <1>3, <2>1, DivideOnce
<1>5. DivideStep(last, b, n) = [quotient |-> Append(last.quotient, q), rest |-> r]
  BY <1>2, <1>3 DEF DivideStep
<1>6. Append(last.quotient, q) \in Seq(Byte)
  BY SMTT(40), <1>1, <1>4
<1> QED BY <1>2, <1>3, <1>4, <1>5, <1>6 DEF Divisions

LEMMA DivideUnfolds ==
    ASSUME NEW bytes \in Seq(Byte), NEW n \in Divisors
    PROVE  \E done : IsDivision(done, bytes, n) /\ Divide(bytes, n) = done[Len(bytes)]
<1> DEFINE last == Len(bytes)
           first == [quotient |-> << >>, rest |-> 0]
           Is(f) == f = [k \in 0 .. Len(bytes) |->
                            IF k = 0 THEN [quotient |-> << >>, rest |-> 0]
                            ELSE LET prior == f[k - 1]
                                     part == 256 * prior.rest + bytes[k]
                                 IN  [quotient |-> Append(prior.quotient, part \div n),
                                      rest |-> part % n]]
           X == Divisions(n)
           h == [k \in 1 .. last |-> [x \in X |-> DivideStep(x, bytes[k], n)]]
<1>1. last \in Nat /\ \A k \in 1 .. last : bytes[k] \in Byte
  BY ElementOfSeq
<1>2. first \in X
  BY DEF Divisions, Divisors
<1>3. PICK f \in [0 .. last -> X] :
        f[0] = first /\ \A k \in 1 .. last : f[k] = DivideStep(f[k - 1], bytes[k], n)
  <2>1. IsSteps(h, X, last)
    BY <1>1, DivideStepType DEF IsSteps
  <2>2. PICK f : IsIteration(f, X, first, h, last)
    <3> HIDE DEF h, first, last, X
    <3> QED BY <1>1, <1>2, <2>1, RecursionExists
  <2>3. f \in [0 .. last -> X] /\ f[0] = first
    <3> HIDE DEF first, last, X
    <3> QED BY <2>2 DEF IsIteration
  <2>4. ASSUME NEW k \in 1 .. last PROVE f[k] = DivideStep(f[k - 1], bytes[k], n)
    <3>1. f[k] = h[k][f[k - 1]]
      <4> HIDE DEF h, first, last, X
      <4> QED BY <2>2 DEF IsIteration
    <3>2. k - 1 \in 0 .. last
      OBVIOUS
    <3>3. f[k - 1] \in X
      <4> HIDE DEF X
      <4> QED BY <2>3, <3>2
    <3> QED BY <3>1, <3>3
  <2> QED BY <2>3, <2>4
<1>4. Is(f)
  <2> DEFINE g == [k \in 0 .. Len(bytes) |->
                      IF k = 0 THEN first ELSE DivideStep(f[k - 1], bytes[k], n)]
  <2>1. f = g
    <3> HIDE DEF first, X
    <3> QED BY <1>3
  <2>2. Is(f) <=> f = g
    BY DEF DivideStep
  <2> QED BY Zenon, <2>1, <2>2
<1>5. PICK done : Is(done) /\ Divide(bytes, n) = done[last]
  <2>1. Is(CHOOSE g : Is(g))
    <3> HIDE DEF Is
    <3> QED BY SMTT(40), <1>4
  <2> QED BY Zenon, <2>1 DEF Divide
<1>6. done = [k \in 0 .. last |-> IF k = 0 THEN first ELSE DivideStep(done[k - 1], bytes[k], n)]
  BY Zenon, <1>5 DEF DivideStep
<1>7. done[0] = first /\ \A k \in 1 .. last : done[k] = DivideStep(done[k - 1], bytes[k], n)
  <2>1. 0 \in 0 .. last /\ \A k \in 1 .. last : k \in 0 .. last /\ k # 0
    BY <1>1
  <2> HIDE DEF first, last
  <2> QED BY <1>6, <2>1
<1>8. done \in [0 .. last -> X]
  <2> DEFINE S == {k \in 0 .. last : done[k] \in X}
  <2> HIDE DEF first, last, X
  <2>1. 0 \in S
    BY <1>1, <1>2, <1>7
  <2>2. ASSUME NEW k \in 1 .. last, k - 1 \in S PROVE k \in S
    <3>1. done[k - 1] \in X /\ bytes[k] \in Byte
      BY <1>1, <2>2
    <3>2. DivideStep(done[k - 1], bytes[k], n) \in X
      BY <3>1, DivideStepType DEF X
    <3>3. done[k] = DivideStep(done[k - 1], bytes[k], n)
      BY <1>7
    <3> QED BY <3>2, <3>3
  <2>3. 0 .. last \subseteq S
    <3> HIDE DEF S
    <3> QED BY <1>1, <2>1, <2>2, UptoInduction
  <2> QED BY <1>6, <2>3
<1> QED BY <1>5, <1>7, <1>8 DEF IsDivision

IsDivided(bytes, n, d) ==
    /\ d.quotient \in Seq(Byte) /\ Len(d.quotient) = Len(bytes)
    /\ d.rest \in Int /\ d.rest >= 0 /\ d.rest < n
    /\ BigEndian(bytes) = n * BigEndian(d.quotient) + d.rest

LEMMA DividedNumber ==
    ASSUME NEW bytes \in Seq(Byte), NEW n \in Divisors
    PROVE  IsDivided(bytes, n, Divide(bytes, n))
<1> DEFINE last == Len(bytes)
<1>1. last \in Nat /\ \A k \in 1 .. last : bytes[k] \in Byte
  BY ElementOfSeq
<1>2. PICK done : IsDivision(done, bytes, n) /\ Divide(bytes, n) = done[last]
  BY DivideUnfolds
<1>3. /\ \A k \in 0 .. last : done[k] \in Divisions(n)
      /\ done[0] = [quotient |-> << >>, rest |-> 0]
      /\ \A k \in 1 .. last : done[k] = DivideStep(done[k - 1], bytes[k], n)
  BY <1>2 DEF IsDivision
<1> DEFINE quotient(k) == done[k].quotient
           rest(k) == done[k].rest
           Part(k) == 256 * rest(k - 1) + bytes[k]
<1> HIDE DEF last
<1>4. \A k \in 0 .. last : quotient(k) \in Seq(Byte) /\ rest(k) \in 0 .. n - 1
  BY <1>3 DEF Divisions
<1>5. quotient(0) = << >> /\ rest(0) = 0
  BY <1>3
<1>6. ASSUME NEW k \in 1 .. last
      PROVE  quotient(k) = Append(quotient(k - 1), Part(k) \div n) /\ rest(k) = Part(k) % n
  <2>1. k - 1 \in 0 .. last
    BY <1>1
  <2> DEFINE b == bytes[k]
             old == done[k - 1]
  <2>2. old \in Divisions(n) /\ b \in Byte /\ done[k] = DivideStep(old, b, n)
    BY <1>1, <1>3, <2>1
  <2> HIDE DEF b, old
  <2>3. /\ done[k].rest = (256 * old.rest + b) % n
        /\ done[k].quotient = Append(old.quotient, (256 * old.rest + b) \div n)
    BY <2>2, DivideStepType
  <2> QED BY <2>3 DEF b, old
<1> HIDE DEF quotient, rest
<1>7. ASSUME NEW k \in 1 .. last
      PROVE  /\ Part(k) \div n \in Byte
             /\ Part(k) = n * (Part(k) \div n) + rest(k)
  <2>1. k - 1 \in 0 .. last
    BY <1>1
  <2>2. IsPart(Part(k), rest(k - 1), bytes[k], n)
    BY <1>1, <1>4, <2>1 DEF IsPart
  <2> HIDE DEF Part
  <2>3. Part(k) \div n \in Byte /\ Part(k) = n * (Part(k) \div n) + (Part(k) % n)
    BY <2>2, DivideOnce
  <2> QED BY <1>6, <2>3 DEF Part
<1> DEFINE Digit(k) == Part(k) \div n
<1> HIDE DEF Part
<1>8. 0 .. last \subseteq {k \in 0 .. last : quotient(k) = [j \in 1 .. k |-> Digit(j)]}
  <2> DEFINE S == {k \in 0 .. last : quotient(k) = [j \in 1 .. k |-> Digit(j)]}
  <2>1. 0 \in S
    <3>1. 0 \in 0 .. last
      BY <1>1
    <3>2. [j \in 1 .. 0 |-> Digit(j)] = << >>
      <4> HIDE DEF Digit
      <4> QED OBVIOUS
    <3> HIDE DEF Digit
    <3> QED BY <1>5, <3>1, <3>2
  <2>2. ASSUME NEW k \in 1 .. last, k - 1 \in S PROVE k \in S
    <3>1. k - 1 \in 0 .. last /\ k \in 0 .. last
      BY <1>1
    <3>2. PICK old : old = quotient(k - 1)
      OBVIOUS
    <3>3. old = [j \in 1 .. k - 1 |-> Digit(j)] /\ old \in Seq(Byte)
      BY <1>4, <2>2, <3>1, <3>2
    <3>4. quotient(k) = Append(old, Digit(k)) /\ Digit(k) \in Byte
      BY <1>6, <1>7, <3>2 DEF Part
    <3>5. Len(old) = k - 1 /\ \A j \in 1 .. k - 1 : old[j] = Digit(j)
      <4> HIDE DEF Digit
      <4> QED BY <3>3
    <3> HIDE DEF Digit
    <3>6. /\ quotient(k) \in Seq(Byte) /\ Len(quotient(k)) = k /\ quotient(k)[k] = Digit(k)
          /\ \A j \in 1 .. k - 1 : quotient(k)[j] = old[j]
      BY <3>3, <3>4, <3>5, AppendProperties
    <3>7. quotient(k) \in [1 .. k -> Byte]
      BY <3>6
    <3>8. \A j \in 1 .. k : quotient(k)[j] = Digit(j)
      <4> SUFFICES ASSUME NEW j \in 1 .. k PROVE quotient(k)[j] = Digit(j)
        OBVIOUS
      <4>1. CASE j = k
        BY <3>6, <4>1
      <4>2. CASE j # k
        <5>1. j \in 1 .. k - 1
          BY <4>2
        <5> QED BY <3>5, <3>6, <5>1
      <4> QED BY <4>1, <4>2
    <3>9. quotient(k) = [j \in 1 .. k |-> Digit(j)]
      BY <3>7, <3>8
    <3> QED BY <3>1, <3>9
  <2>3. 0 .. last \subseteq S
    <3> HIDE DEF S
    <3> QED BY <1>1, <2>1, <2>2, UptoInduction
  <2> QED BY <2>3
<1>9. PICK q : q = quotient(last)
  OBVIOUS
<1>10. /\ q \in Seq(Byte) /\ Len(q) = last /\ \A j \in 1 .. last : q[j] = Digit(j)
  <2>1. last \in 0 .. last
    BY <1>1
  <2>2. q = [j \in 1 .. last |-> Digit(j)] /\ q \in Seq(Byte)
    BY <1>4, <1>8, <1>9, <2>1
  <2> HIDE DEF Digit
  <2> QED BY <1>1, <2>2
<1>11. PICK B : IsNumber(B, 0, bytes) /\ BigEndian(bytes) = B[last]
  BY BigEndianUnfolds DEF last
<1>12. PICK Q : IsNumber(Q, 0, q) /\ BigEndian(q) = Q[last]
  BY <1>10, BigEndianUnfolds
<1>13. /\ B[0] = 0 /\ Q[0] = 0
       /\ \A k \in 0 .. last : B[k] \in Int /\ Q[k] \in Int
       /\ \A k \in 1 .. last : /\ B[k] = 256 * B[k - 1] + bytes[k]
                               /\ Q[k] = 256 * Q[k - 1] + q[k]
  <2>1. Len(bytes) = last
    BY DEF last
  <2> QED BY ZenonT(60), <1>10, <1>11, <1>12, <2>1 DEF IsNumber
<1>14. 0 .. last \subseteq {k \in 0 .. last : B[k] = n * Q[k] + rest(k)}
  <2> DEFINE S == {k \in 0 .. last : B[k] = n * Q[k] + rest(k)}
  <2>1. 0 \in S
    <3>1. 0 \in 0 .. last
      BY <1>1
    <3>2. B[0] = n * Q[0] + rest(0)
      BY <1>5, <1>13 DEF Divisors
    <3> QED BY <3>1, <3>2
  <2>2. ASSUME NEW k \in 1 .. last, k - 1 \in S PROVE k \in S
    <3>1. k - 1 \in 0 .. last /\ k \in 0 .. last
      BY <1>1
    <3>2. PICK Bk, Qk, d, r, s : /\ Bk = B[k - 1] /\ Qk = Q[k - 1] /\ d = Digit(k)
                                 /\ r = rest(k - 1) /\ s = rest(k)
      OBVIOUS
    <3>3. Bk \in Int /\ Qk \in Int /\ r \in Int /\ s \in Int
      BY <1>4, <1>13, <3>1, <3>2 DEF Divisors
    <3>4. d \in Int /\ bytes[k] \in Int
      <4>1. d \in Byte /\ bytes[k] \in Byte
        BY <1>1, <1>7, <3>2
      <4> QED BY <4>1, ByteIsInt
    <3>5. Bk = n * Qk + r
      BY <2>2, <3>2
    <3>6. B[k] = 256 * Bk + bytes[k] /\ Q[k] = 256 * Qk + d
      BY <1>10, <1>13, <3>2
    <3>7. 256 * r + bytes[k] = n * d + s
      BY <1>7, <3>2 DEF Part
    <3>8. B[k] = n * Q[k] + s
      <4>1. CASE n = 100
        BY <3>3, <3>4, <3>5, <3>6, <3>7, <4>1
      <4>2. CASE n = 10000
        BY <3>3, <3>4, <3>5, <3>6, <3>7, <4>2
      <4> QED BY <4>1, <4>2 DEF Divisors
    <3> QED BY <3>1, <3>2, <3>8
  <2>3. 0 .. last \subseteq S
    <3> HIDE DEF S
    <3> QED BY <1>1, <2>1, <2>2, UptoInduction
  <2> QED BY <2>3
<1>15. BigEndian(bytes) = n * BigEndian(q) + rest(last) /\ rest(last) \in 0 .. n - 1
  <2>1. last \in 0 .. last
    BY <1>1
  <2> QED BY <1>4, <1>11, <1>12, <1>14, <2>1
<1>16. Divide(bytes, n).quotient = q /\ Divide(bytes, n).rest = rest(last)
  BY <1>2, <1>9 DEF quotient, rest
<1>17. rest(last) \in Int /\ rest(last) >= 0 /\ rest(last) < n
  BY <1>15 DEF Divisors
<1> QED BY <1>10, <1>15, <1>16, <1>17 DEF last, IsDivided

EightBytes == {b \in Seq(Byte) : Len(b) = 8}

LEMMA SequenceOfFunction ==
    ASSUME NEW n \in Nat, NEW S, NEW r \in [1 .. n -> S]
    PROVE  r \in Seq(S) /\ Len(r) = n
OBVIOUS

LEMMA AppendedType ==
    ASSUME NEW bytes \in EightBytes, NEW pair \in 0 .. 99
    PROVE  AppendPair(bytes, pair) \in EightBytes
<1>1. bytes \in Seq(Byte) /\ Len(bytes) = 8
  BY DEF EightBytes
<1>2. \A k \in 1 .. 8 : bytes[k] \in Byte
  BY <1>1, ElementOfSeq
<1>3. PICK carry : IsCarried(carry, bytes, pair, 8)
  BY <1>1, AppendedBytes
<1>4. /\ carry \in [0 .. 8 -> 0 .. 99]
      /\ AppendPair(bytes, pair) = [j \in 1 .. 8 |-> (100 * bytes[j] + carry[8 - j]) % 256]
  BY <1>3 DEF IsCarried
<1>5. ASSUME NEW j \in 1 .. 8 PROVE (100 * bytes[j] + carry[8 - j]) % 256 \in Byte
  <2>1. 8 - j \in 0 .. 8
    OBVIOUS
  <2>2. bytes[j] \in Byte /\ carry[8 - j] \in 0 .. 99
    BY <1>2, <1>4, <2>1
  <2> QED BY <2>2, PlaceType
<1>6. AppendPair(bytes, pair) \in [1 .. 8 -> Byte]
  BY <1>4, <1>5
<1>7. PICK r : r = AppendPair(bytes, pair)
  OBVIOUS
<1>8. r \in Seq(Byte) /\ Len(r) = 8
  <2>1. 8 \in Nat /\ r \in [1 .. 8 -> Byte]
    BY <1>6, <1>7
  <2> QED BY ONLY <2>1, SequenceOfFunction
<1> QED BY <1>7, <1>8 DEF EightBytes

LEMMA ZeroBytes ==
    ToBytes(0, 8) \in EightBytes /\ BigEndian(ToBytes(0, 8)) = 0
<1>1. PICK by : IsShifting(by, 0, 8) /\ Shifted(0, 8) = by[8]
  BY ShiftedUnfolds
<1>2. by[8] = 0
  <2> DEFINE S == {k \in 0 .. 8 : by[k] = 0}
  <2>1. 0 \in S
    BY <1>1 DEF IsShifting
  <2>2. ASSUME NEW k \in 1 .. 8, k - 1 \in S PROVE k \in S
    <3>1. by[k] = by[k - 1] \div 256
      BY <1>1 DEF IsShifting
    <3>2. by[k - 1] = 0
      BY <2>2
    <3>3. by[k] = 0
      BY <3>1, <3>2
    <3> QED BY <3>3
  <2>3. 0 .. 8 \subseteq S
    <3> HIDE DEF S
    <3> QED BY <2>1, <2>2, UptoInduction
  <2> QED BY <2>3
<1>3. UnsignedFits(0, 8)
  BY <1>1, <1>2 DEF UnsignedFits
<1>4. BigEndian(ToBytes(0, 8)) = 0
  BY <1>3, UnsignedRead
<1>5. ToBytes(0, 8) \in Seq(Byte) /\ Len(ToBytes(0, 8)) = 8
  <2>1. 0 \in Int /\ 8 \in Nat
    OBVIOUS
  <2> QED BY <2>1, NumberOfBytes
<1> QED BY <1>4, <1>5 DEF EightBytes

IsPaired(done, pairs) ==
    /\ done[0] = ToBytes(0, 8)
    /\ \A k \in 1 .. Len(pairs) : done[k] = AppendPair(done[k - 1], pairs[k])
    /\ FromPairs(pairs) = done[Len(pairs)]

LEMMA FromPairsUnfolds ==
    ASSUME NEW pairs \in Seq(0 .. 99)
    PROVE  \E done : IsPaired(done, pairs)
<1> DEFINE last == Len(pairs)
           Is(f) == f = [k \in 0 .. Len(pairs) |->
                            IF k = 0 THEN ToBytes(0, 8) ELSE AppendPair(f[k - 1], pairs[k])]
           X == EightBytes
           h == [k \in 1 .. last |-> [x \in X |-> AppendPair(x, pairs[k])]]
<1>1. last \in Nat /\ \A k \in 1 .. last : pairs[k] \in 0 .. 99
  BY ElementOfSeq
<1>2. ToBytes(0, 8) \in X
  BY ZeroBytes
<1>3. PICK f \in [0 .. last -> X] :
        f[0] = ToBytes(0, 8) /\ \A k \in 1 .. last : f[k] = AppendPair(f[k - 1], pairs[k])
  <2>1. IsSteps(h, X, last)
    BY <1>1, AppendedType DEF IsSteps
  <2>2. PICK f : IsIteration(f, X, ToBytes(0, 8), h, last)
    <3> HIDE DEF h, last, X
    <3> QED BY <1>1, <1>2, <2>1, RecursionExists
  <2>3. f \in [0 .. last -> X] /\ f[0] = ToBytes(0, 8)
    <3> HIDE DEF last, X
    <3> QED BY <2>2 DEF IsIteration
  <2>4. ASSUME NEW k \in 1 .. last PROVE f[k] = AppendPair(f[k - 1], pairs[k])
    <3>1. f[k] = h[k][f[k - 1]]
      <4> HIDE DEF h, last, X
      <4> QED BY <2>2 DEF IsIteration
    <3>2. k - 1 \in 0 .. last
      OBVIOUS
    <3>3. f[k - 1] \in X
      <4> HIDE DEF X
      <4> QED BY <2>3, <3>2
    <3> QED BY <3>1, <3>3
  <2> QED BY <2>3, <2>4
<1>4. Is(f)
  <2> HIDE DEF X
  <2> QED BY <1>3
<1>5. PICK done : Is(done) /\ FromPairs(pairs) = done[last]
  <2>1. Is(CHOOSE g : Is(g))
    <3> HIDE DEF Is
    <3> QED BY <1>4
  <2> QED BY <2>1 DEF FromPairs
<1>6. done[0] = ToBytes(0, 8) /\ \A k \in 1 .. last : done[k] = AppendPair(done[k - 1], pairs[k])
  <2>1. 0 \in 0 .. last /\ \A k \in 1 .. last : k \in 0 .. last /\ k # 0
    BY <1>1
  <2> QED BY <1>5, <2>1
<1> QED BY <1>5, <1>6 DEF IsPaired

\* Eight bytes with a number below 10^12, or twice one hundred times that.
Holds(bytes, v) == bytes \in EightBytes /\ v \in Int /\ v >= 0 /\ BigEndian(bytes) = v

IsSmall(v) == v < 1000000 * 1000000

LEMMA SmallFirstByte ==
    ASSUME NEW bytes, NEW v, Holds(bytes, v), v < 100000000 * 1000000
    PROVE  bytes[1] = 0
<1>1. HasSevenBytes(BigEndian(bytes))
  BY SMT DEF Holds, HasSevenBytes
<1> HIDE DEF HasSevenBytes
<1>2. bytes \in Seq(Byte) /\ Len(bytes) = 8
  BY SMT DEF Holds, EightBytes
<1> QED BY SMT, <1>1, <1>2, FirstByteZero

LEMMA PairAppended ==
    ASSUME NEW bytes, NEW v, NEW pair, Holds(bytes, v), IsSmall(v), pair \in 0 .. 99
    PROVE  Holds(AppendPair(bytes, pair), 100 * v + pair)
<1>1. v < 100000000 * 1000000
  BY SMT DEF IsSmall, Holds
<1>2. bytes[1] = 0
  BY SMT, <1>1, SmallFirstByte
<1>3. bytes \in EightBytes /\ v \in Int /\ v >= 0 /\ BigEndian(bytes) = v
  BY DEF Holds
<1>4. bytes \in Seq(Byte) /\ Len(bytes) > 0
  BY SMT, <1>3 DEF EightBytes
<1>5. BigEndian(AppendPair(bytes, pair)) = 100 * v + pair
  <2>1. BigEndian(AppendPair(bytes, pair)) = 100 * BigEndian(bytes) + pair
    BY ONLY pair \in 0 .. 99, <1>2, <1>4, AppendedNumber
  <2> QED BY SMT, <1>3, <2>1
<1>6. AppendPair(bytes, pair) \in EightBytes
  BY SMT, <1>3, AppendedType
<1>7. 100 * v + pair \in Int /\ 100 * v + pair >= 0
  BY SMT, <1>3
<1> QED BY SMT, <1>5, <1>6, <1>7 DEF Holds

\* Bytes of a number of which r is the last pair of digits.
EndsWith(bytes, w, r) ==
    Holds(bytes, 100 * w + r) /\ w \in Int /\ w >= 0 /\ r \in 0 .. 99

LEMMA LastPair ==
    ASSUME NEW bytes, NEW w, NEW r, EndsWith(bytes, w, r)
    PROVE  Holds(Divide(bytes, 100).quotient, w) /\ Divide(bytes, 100).rest = r
<1>1. /\ bytes \in Seq(Byte) /\ Len(bytes) = 8
      /\ BigEndian(bytes) = 100 * w + r
      /\ w \in Int /\ w >= 0 /\ r \in Int /\ r >= 0 /\ r < 100
  BY DEF EndsWith, Holds, EightBytes
<1>2. PICK q, s : q = Divide(bytes, 100).quotient /\ s = Divide(bytes, 100).rest
  OBVIOUS
<1>3. /\ q \in Seq(Byte) /\ Len(q) = 8
      /\ s \in Int /\ s >= 0 /\ s < 100
      /\ BigEndian(bytes) = 100 * BigEndian(q) + s
  <2>1. 100 \in Divisors
    BY DEF Divisors
  <2>2. IsDivided(bytes, 100, Divide(bytes, 100))
    BY <1>1, <2>1, DividedNumber
  <2> QED BY <1>1, <1>2, <2>2 DEF IsDivided
<1>4. PICK x : x = BigEndian(q)
  OBVIOUS
<1>5. x \in Int
  <2>1. PICK f : IsNumber(f, 0, q) /\ BigEndian(q) = f[Len(q)]
    BY <1>3, BigEndianUnfolds
  <2>2. Len(q) \in 0 .. Len(q)
    BY <1>3
  <2> QED BY <1>4, <2>1, <2>2 DEF IsNumber
<1>6. x = w /\ s = r
  BY <1>1, <1>3, <1>4, <1>5
<1> QED BY <1>1, <1>2, <1>3, <1>4, <1>6 DEF Holds, EightBytes

LEMMA FirstDigits ==
    ASSUME NEW bytes, NEW v, Holds(bytes, v), v <= 9999
    PROVE  Divide(bytes, 10000).rest = v
<1>1. bytes \in Seq(Byte) /\ BigEndian(bytes) = v /\ v \in Int /\ v >= 0
  BY DEF Holds, EightBytes
<1>2. PICK q, s : q = Divide(bytes, 10000).quotient /\ s = Divide(bytes, 10000).rest
  OBVIOUS
<1>3. /\ q \in Seq(Byte) /\ s \in Int /\ s >= 0 /\ s < 10000
      /\ BigEndian(bytes) = 10000 * BigEndian(q) + s
  <2>1. 10000 \in Divisors
    BY DEF Divisors
  <2>2. IsDivided(bytes, 10000, Divide(bytes, 10000))
    BY <1>1, <2>1, DividedNumber
  <2> QED BY <1>1, <1>2, <2>2 DEF IsDivided
<1>4. PICK x : x = BigEndian(q)
  OBVIOUS
<1>5. x \in Int
  <2>1. PICK f : IsNumber(f, 0, q) /\ BigEndian(q) = f[Len(q)]
    BY <1>3, BigEndianUnfolds
  <2>2. Len(q) \in 0 .. Len(q)
    BY <1>3
  <2> QED BY <1>4, <2>1, <2>2 DEF IsNumber
<1>6. s = v
  BY <1>1, <1>3, <1>4, <1>5
<1> QED BY <1>2, <1>6

LEMMA Prepended ==
    ASSUME NEW S, NEW x \in S, NEW t \in Seq(S)
    PROVE  LET u == <<x>> \o t
           IN  u \in Seq(S) /\ Len(u) = Len(t) + 1 /\ Head(u) = x /\ Tail(u) = t
<1> DEFINE n == Len(t)
           u == <<x>> \o t
<1>1. n \in Nat
  OBVIOUS
<1>2. u \in Seq(S) /\ Len(u) = n + 1 /\ u # << >> /\ u[1] = x
  OBVIOUS
<1>3. \A k \in 1 .. n : u[k + 1] = t[k]
  <2> SUFFICES ASSUME NEW k \in 1 .. n PROVE u[k + 1] = t[k]
    OBVIOUS
  <2> QED OBVIOUS
<1> HIDE DEF u
<1>4. Head(u) = x
  BY <1>2
<1>5. Tail(u) = t
  <2>1. Tail(u) \in Seq(S) /\ Len(Tail(u)) = n
    BY <1>1, <1>2, HeadTailProperties
  <2>2. ASSUME NEW k \in 1 .. n PROVE Tail(u)[k] = t[k]
    <3>1. Tail(u)[k] = u[k + 1]
      BY <1>2, <2>1, HeadTailProperties
    <3> QED BY <1>3, <3>1
  <2> QED BY <2>1, <2>2, SeqEqual
<1> QED BY <1>2, <1>4, <1>5 DEF u

LEMMA Rejoined ==
    ASSUME NEW S, NEW s \in Seq(S), s # << >>
    PROVE  /\ s[1] \in S /\ Tail(s) \in Seq(S) /\ Len(Tail(s)) = Len(s) - 1
           /\ Head(s) = s[1] /\ <<s[1]>> \o Tail(s) = s
<1>1. Len(s) \in Nat /\ Len(s) > 0 /\ 1 \in 1 .. Len(s) /\ Len(s) \in 1 .. Len(s)
  BY EmptySeq
<1>2. SubSeq(s, 1, Len(s)) = <<s[1]>> \o SubSeq(s, 1 + 1, Len(s))
  BY <1>1, SubSeqRecursiveFirst
<1>3. SubSeq(s, 1, Len(s)) = s /\ SubSeq(s, 2, Len(s)) = Tail(s)
  BY SubSeqFull, TailIsSubSeq
<1>4. Head(s) = s[1]
  OBVIOUS
<1>5. 1 + 1 = 2
  OBVIOUS
<1> QED BY <1>1, <1>2, <1>3, <1>4, <1>5, HeadTailProperties

\* The sign bit comes and goes.
LEMMA SignCleared ==
    ASSUME NEW bytes \in EightBytes, bytes[1] = 0
    PROVE  LET s == FlipSign(bytes)
           IN  /\ s \in EightBytes /\ <<Head(s) % 128>> \o Tail(s) = bytes
               /\ Head(s) % 128 = 0
<1>1. bytes \in Seq(Byte) /\ Len(bytes) = 8
  BY DEF EightBytes
<1>2. bytes # << >>
  BY <1>1
<1>3. PICK t : t = Tail(bytes)
  OBVIOUS
<1>4. t \in Seq(Byte) /\ Len(t) = Len(bytes) - 1 /\ Head(bytes) = 0 /\ <<0>> \o t = bytes
  BY <1>1, <1>2, <1>3, Rejoined
<1>5. FlipSign(bytes) = <<128>> \o t
  BY <1>3, <1>4 DEF FlipSign
<1>6. 128 \in Byte /\ 128 % 128 = 0
  BY DEF Byte
<1>7. PICK s : s = FlipSign(bytes)
  OBVIOUS
<1>8. s \in Seq(Byte) /\ Len(s) = Len(t) + 1 /\ Head(s) = 128 /\ Tail(s) = t
  BY <1>4, <1>5, <1>6, <1>7, Prepended
<1>9. Len(s) = 8
  BY <1>1, <1>4, <1>8
<1> QED BY ZenonT(60), <1>4, <1>6, <1>7, <1>8, <1>9 DEF EightBytes

\* The digits of a date and a time, pair by pair.
DigitPairs(value) ==
    <<value[1] \div 100, value[1] % 100, value[2], value[3], value[4], value[5], value[6]>>

IsDigits(value) ==
    /\ value \in Seq(Nat) /\ Len(value) = 7
    /\ value[1] <= 9999 /\ value[2] <= 12 /\ value[3] <= 31
    /\ value[4] <= 23 /\ value[5] <= 59 /\ value[6] <= 59

IsTwoDigits(p) == p \in 0 .. 99

LEMMA YearPairs ==
    ASSUME NEW y \in Nat, y <= 9999
    PROVE  /\ IsTwoDigits(y \div 100) /\ IsTwoDigits(y % 100)
           /\ 100 * (y \div 100) + (y % 100) = y
BY DEF IsTwoDigits

LEMMA SevenElements ==
    ASSUME NEW S, NEW s \in Seq(S), Len(s) = 7
    PROVE  /\ s[1] \in S /\ s[2] \in S /\ s[3] \in S /\ s[4] \in S
           /\ s[5] \in S /\ s[6] \in S /\ s[7] \in S
<1>1. /\ 1 \in 1 .. 7 /\ 2 \in 1 .. 7 /\ 3 \in 1 .. 7 /\ 4 \in 1 .. 7
      /\ 5 \in 1 .. 7 /\ 6 \in 1 .. 7 /\ 7 \in 1 .. 7
  OBVIOUS
<1> QED BY <1>1, ElementOfSeq

\* The parts of a DATETIME of a table before 5.6 are what the server stored.
LEMMA PartsOfPairs ==
    ASSUME NEW value, IsDigits(value)
    PROVE  /\ FlipSign(FromPairs(DigitPairs(value))) \in EightBytes
           /\ DecimalParts(FlipSign(FromPairs(DigitPairs(value)))) =
                <<value[1], value[2], value[3], value[4], value[5], value[6]>>
           /\ Head(FlipSign(FromPairs(DigitPairs(value)))) % 128 = 0
<1>1. PICK y, mo, d, h, mi, s : /\ y = value[1] /\ mo = value[2] /\ d = value[3]
                                /\ h = value[4] /\ mi = value[5] /\ s = value[6]
  OBVIOUS
<1>2. /\ y \in Nat /\ mo \in Nat /\ d \in Nat /\ h \in Nat /\ mi \in Nat /\ s \in Nat
      /\ y <= 9999 /\ mo <= 12 /\ d <= 31 /\ h <= 23 /\ mi <= 59 /\ s <= 59
  <2>1. value \in Seq(Nat) /\ Len(value) = 7
    BY DEF IsDigits
  <2>2. /\ value[1] <= 9999 /\ value[2] <= 12 /\ value[3] <= 31
        /\ value[4] <= 23 /\ value[5] <= 59 /\ value[6] <= 59
    BY DEF IsDigits
  <2>3. /\ value[1] \in Nat /\ value[2] \in Nat /\ value[3] \in Nat
        /\ value[4] \in Nat /\ value[5] \in Nat /\ value[6] \in Nat
    BY <2>1, SevenElements
  <2> QED BY <1>1, <2>2, <2>3
<1>3. PICK a, b : a = y \div 100 /\ b = y % 100
  OBVIOUS
<1>4. a \in 0 .. 99 /\ b \in 0 .. 99 /\ 100 * a + b = y
  BY <1>2, <1>3, YearPairs DEF IsTwoDigits
<1>5. /\ mo \in 0 .. 99 /\ d \in 0 .. 99 /\ h \in 0 .. 99 /\ mi \in 0 .. 99 /\ s \in 0 .. 99
  BY <1>2
<1>6. PICK pairs : pairs = DigitPairs(value)
  OBVIOUS
<1>7. pairs = <<a, b, mo, d, h, mi, s>>
  BY <1>1, <1>3, <1>6 DEF DigitPairs
<1>8. /\ pairs \in Seq(0 .. 99) /\ Len(pairs) = 7
      /\ pairs[1] = a /\ pairs[2] = b /\ pairs[3] = mo /\ pairs[4] = d
      /\ pairs[5] = h /\ pairs[6] = mi /\ pairs[7] = s
  BY <1>4, <1>5, <1>7
<1>9. PICK done : IsPaired(done, pairs)
  BY <1>8, FromPairsUnfolds
<1>10. /\ done[0] = ToBytes(0, 8)
       /\ \A k \in 1 .. 7 : done[k] = AppendPair(done[k - 1], pairs[k])
       /\ FromPairs(pairs) = done[7]
  BY <1>8, <1>9 DEF IsPaired
<1>11. /\ done[1] = AppendPair(done[0], a) /\ done[2] = AppendPair(done[1], b)
       /\ done[3] = AppendPair(done[2], mo) /\ done[4] = AppendPair(done[3], d)
       /\ done[5] = AppendPair(done[4], h) /\ done[6] = AppendPair(done[5], mi)
       /\ done[7] = AppendPair(done[6], s)
  <2>1. /\ 1 - 1 = 0 /\ 2 - 1 = 1 /\ 3 - 1 = 2 /\ 4 - 1 = 3 /\ 5 - 1 = 4
        /\ 6 - 1 = 5 /\ 7 - 1 = 6
        /\ 1 \in 1 .. 7 /\ 2 \in 1 .. 7 /\ 3 \in 1 .. 7 /\ 4 \in 1 .. 7
        /\ 5 \in 1 .. 7 /\ 6 \in 1 .. 7 /\ 7 \in 1 .. 7
    OBVIOUS
  <2> QED BY <1>8, <1>10, <2>1
<1>12. PICK v3, v4, v5, v6, v7 :
         /\ v3 = 100 * y + mo /\ v4 = 100 * v3 + d /\ v5 = 100 * v4 + h
         /\ v6 = 100 * v5 + mi /\ v7 = 100 * v6 + s
  OBVIOUS
<1>13. /\ v3 \in Int /\ v3 >= 0 /\ v3 < 1000000
       /\ v4 \in Int /\ v4 >= 0 /\ v4 < 100000000
  BY SMT, <1>2, <1>12
<1>14. /\ v5 \in Int /\ v5 >= 0 /\ v5 < 100 * 100000000
       /\ v6 \in Int /\ v6 >= 0 /\ v6 < 10000 * 100000000
  BY SMT, <1>2, <1>12, <1>13
<1>15. v7 < 100000000 * 1000000 /\ v7 \in Int /\ v7 >= 0
  BY SMT, <1>2, <1>12, <1>14
<1>16. /\ IsSmall(0) /\ IsSmall(a) /\ IsSmall(y) /\ IsSmall(v3) /\ IsSmall(v4)
       /\ IsSmall(v5) /\ IsSmall(v6)
  BY SMT, <1>2, <1>4, <1>13, <1>14 DEF IsSmall
<1>17. Holds(done[0], 0)
  BY SMT, <1>10, ZeroBytes DEF Holds
<1>18. Holds(done[1], a)
  <2>0. PICK z : z = 0
    OBVIOUS
  <2>1. Holds(AppendPair(done[0], a), 100 * z + a)
    <3>1. Holds(done[0], z) /\ IsSmall(z) /\ a \in 0 .. 99
      BY <1>4, <1>16, <1>17, <2>0
    <3> QED BY ONLY <3>1, PairAppended
  <2>2. 100 * z + a = a
    BY SMT, <1>4, <2>0
  <2> QED BY SMT, <1>11, <2>1, <2>2
<1>19. Holds(done[2], y)
  BY SMT, <1>4, <1>11, <1>16, <1>18, PairAppended
<1>20. Holds(done[3], v3)
  BY SMT, <1>5, <1>11, <1>12, <1>16, <1>19, PairAppended
<1>21. Holds(done[4], v4)
  BY SMT, <1>5, <1>11, <1>12, <1>16, <1>20, PairAppended
<1>22. Holds(done[5], v5)
  BY SMT, <1>5, <1>11, <1>12, <1>16, <1>21, PairAppended
<1>23. Holds(done[6], v6)
  BY SMT, <1>5, <1>11, <1>12, <1>16, <1>22, PairAppended
<1>24. Holds(done[7], v7)
  BY SMT, <1>5, <1>11, <1>12, <1>16, <1>23, PairAppended
<1>25. PICK b7, stored : b7 = done[7] /\ stored = FlipSign(b7)
  OBVIOUS
<1>26. /\ stored \in EightBytes /\ <<Head(stored) % 128>> \o Tail(stored) = b7
       /\ Head(stored) % 128 = 0
  <2>1. b7[1] = 0
    BY SMT, <1>15, <1>24, <1>25, SmallFirstByte
  <2>2. b7 \in EightBytes
    BY SMT, <1>24, <1>25 DEF Holds
  <2> QED BY SMT, <1>25, <2>1, <2>2, SignCleared
<1>27. PICK sec, min, hour, day, month :
         /\ sec = Divide(b7, 100) /\ min = Divide(sec.quotient, 100)
         /\ hour = Divide(min.quotient, 100) /\ day = Divide(hour.quotient, 100)
         /\ month = Divide(day.quotient, 100)
  OBVIOUS
<1>28. Holds(sec.quotient, v6) /\ sec.rest = s
  <2>1. EndsWith(b7, v6, s)
    BY SMT, <1>5, <1>12, <1>14, <1>24, <1>25 DEF EndsWith
  <2> QED BY SMT, <1>27, <2>1, LastPair
<1>29. Holds(min.quotient, v5) /\ min.rest = mi
  <2>1. EndsWith(sec.quotient, v5, mi)
    BY SMT, <1>5, <1>12, <1>14, <1>28 DEF EndsWith
  <2> QED BY SMT, <1>27, <2>1, LastPair
<1>30. Holds(hour.quotient, v4) /\ hour.rest = h
  <2>1. EndsWith(min.quotient, v4, h)
    BY SMT, <1>5, <1>12, <1>13, <1>29 DEF EndsWith
  <2> QED BY SMT, <1>27, <2>1, LastPair
<1>31. Holds(day.quotient, v3) /\ day.rest = d
  <2>1. EndsWith(hour.quotient, v3, d)
    BY SMT, <1>5, <1>12, <1>13, <1>30 DEF EndsWith
  <2> QED BY SMT, <1>27, <2>1, LastPair
<1>32. Holds(month.quotient, y) /\ month.rest = mo
  <2>1. EndsWith(day.quotient, y, mo)
    BY SMT, <1>2, <1>5, <1>12, <1>31 DEF EndsWith
  <2> QED BY SMT, <1>27, <2>1, LastPair
<1>33. Divide(month.quotient, 10000).rest = y
  BY SMT, <1>2, <1>32, FirstDigits
<1>34. DecimalParts(stored) = <<y, mo, d, h, mi, s>>
  <2> DEFINE unsigned == <<Head(stored) % 128>> \o Tail(stored)
             s1 == Divide(unsigned, 100)
             s2 == Divide(s1.quotient, 100)
             s3 == Divide(s2.quotient, 100)
             s4 == Divide(s3.quotient, 100)
             s5 == Divide(s4.quotient, 100)
  <2>0. DecimalParts(stored) =
          <<Divide(s5.quotient, 10000).rest, s5.rest, s4.rest, s3.rest, s2.rest, s1.rest>>
    BY ONLY DEF DecimalParts
  <2> HIDE DEF unsigned
  <2>2. s1 = sec
    BY <1>26, <1>27 DEF unsigned
  <2> HIDE DEF s1
  <2>3. s2 = min
    BY <1>27, <2>2
  <2> HIDE DEF s2
  <2>4. s3 = hour
    BY <1>27, <2>3
  <2> HIDE DEF s3
  <2>5. s4 = day
    BY <1>27, <2>4
  <2> HIDE DEF s4
  <2>6. s5 = month
    BY <1>27, <2>5
  <2> HIDE DEF s5
  <2>1. DecimalParts(stored) =
          <<Divide(month.quotient, 10000).rest, month.rest, day.rest, hour.rest,
            min.rest, sec.rest>>
    BY <2>0, <2>2, <2>3, <2>4, <2>5, <2>6
  <2> QED BY SMT, <2>1, <1>28, <1>29, <1>30, <1>31, <1>32, <1>33
<1> QED BY SMT, <1>1, <1>6, <1>10, <1>25, <1>26, <1>34

LEMMA FirstPart ==
    ASSUME NEW S, NEW s \in Seq(S), NEW t \in Seq(S), Len(s) > 0
    PROVE  SubSeq(s \o t, 1, Len(s)) = s
<1>1. 1 \in 1 .. Len(s) /\ Len(s) \in 1 .. Len(s)
  OBVIOUS
<1>2. SubSeq(s \o t, 1, Len(s)) = SubSeq(s, 1, Len(s))
  BY <1>1, SubSeqOfConcat1
<1> QED BY <1>2, SubSeqFull

\* A DATETIME of a table before 5.6 passes in the years that check_datetime
\* knows, whatever follows it in the page.
IsAcceptable(def, value) ==
    /\ def.type = "DATETIME" /\ ValueOK(def, value)
    /\ ~ def.version56 /\ value[1] \in 1950 .. 2050

LEMMA DatetimeAccepted ==
    ASSUME NEW def, NEW value, NEW after \in Seq(Byte), IsAcceptable(def, value)
    PROVE  check_datetime(SubSeq(Stored(def, value) \o after, 1, 8))
<1>1. IsDigits(value)
  BY DEF IsAcceptable, ValueOK, IsDigits, Clock
<1>2. PICK s : s = FlipSign(FromPairs(DigitPairs(value)))
  OBVIOUS
<1>3. Stored(def, value) = s
  <2>1. Stored(def, value) = StoredDatetime(def, value)
    BY DEF IsAcceptable, Stored, Texts
  <2>2. StoredDatetime(def, value) = s
    BY <1>2 DEF IsAcceptable, StoredDatetime, DigitPairs
  <2> QED BY <2>1, <2>2
<1>4. /\ s \in EightBytes
      /\ DecimalParts(s) =
           <<value[1], value[2], value[3], value[4], value[5], value[6]>>
  BY <1>1, <1>2, PartsOfPairs
<1>5. s \in Seq(Byte) /\ Len(s) = 8
  BY <1>4 DEF EightBytes
<1> DEFINE Eight(t) == SubSeq(t, 1, 8)
<1>6. Eight(s \o after) = s
  <2>1. s \in Seq(Byte) /\ after \in Seq(Byte) /\ Len(s) > 0
    BY <1>5
  <2>2. SubSeq(s \o after, 1, Len(s)) = s
    BY ONLY <2>1, FirstPart
  <2>3. PICK n : n = Len(s)
    OBVIOUS
  <2>4. SubSeq(s \o after, 1, n) = s /\ n = 8
    BY ONLY <1>5, <2>2, <2>3
  <2> QED BY ONLY <2>4
<1>7. /\ value[2] <= 12 /\ value[3] <= 31 /\ value[4] <= 23 /\ value[5] <= 59
      /\ value[6] <= 59
  BY <1>1 DEF IsDigits
<1>8. PICK parts : parts = DecimalParts(s)
  OBVIOUS
<1>9. /\ parts[1] = value[1] /\ parts[2] = value[2] /\ parts[3] = value[3]
      /\ parts[4] = value[4] /\ parts[5] = value[5] /\ parts[6] = value[6]
  BY <1>4, <1>8
<1>10. /\ parts[1] \in 1950 .. 2050 /\ parts[2] <= 12 /\ parts[3] <= 31
       /\ parts[4] <= 23 /\ parts[5] <= 59 /\ parts[6] <= 59
  BY <1>7, <1>9 DEF IsAcceptable
<1>11. check_datetime(s)
  BY <1>8, <1>10 DEF check_datetime
<1>12. check_datetime(Eight(Stored(def, value) \o after))
  <2> HIDE DEF Eight
  <2> QED BY ONLY <1>3, <1>6, <1>11
<1> QED BY <1>12
-----------------------------------------------------------------------------
(* check_constraints                                                       *)

\* A field that is allowed meets its clauses, or is a misread integer.
LEMMA AllowedMeets ==
    ASSUME NEW f, FieldOK(f), Filtered(f), Allowed(f), ~ Misread(f)
    PROVE  Meets(f)
<1>1. has_limits(f.def) /\ ~ f.damaged
  BY DEF Filtered
<1>2. CASE f.null
  <2>1. Limit(f.def, "CAN_BE_NULL", FALSE)
    BY <1>1, <1>2 DEF Allowed
  <2>2. Has(f.def, "CAN_BE_NULL") /\ f.def.filters["CAN_BE_NULL"]
    BY <2>1 DEF Limit
  <2> QED BY <1>2, <2>2 DEF Meets
<1>3. CASE ~ f.null
  <2>1. check_field_limits(f.def, f.bytes, f.after)
    BY <1>1, <1>3 DEF Allowed
  <2>2. ValueOK(f.def, f.value) /\ f.bytes = Stored(f.def, f.value)
    BY <1>1, <1>3 DEF FieldOK
  <2>3. CASE f.def.type = "INT"
    <3>1. get_int_value(f.bytes) = f.value[1]
      <4>1. ~ LossyNumber(f.def, f.value)
        BY <1>3, <2>3 DEF Misread
      <4> QED BY <2>2, <2>3, <4>1, IntegerRead
    <3>2. IntWithin(f.def, f.value[1],
                    SignedFits(f.value[1] - Late(f.def.length), f.def.length),
                    SignedFits(f.value[1], f.def.length))
      BY <2>1, <2>3, <3>1 DEF check_field_limits
    <3>3. /\ Has(f.def, "INT_MIN_VAL") => f.value[1] >= f.def.filters["INT_MIN_VAL"]
          /\ Has(f.def, "INT_MAX_VAL") => f.value[1] <= f.def.filters["INT_MAX_VAL"]
      BY <3>2 DEF IntWithin
    <3> QED BY <1>3, <2>3, <3>3 DEF Meets
  <2>4. CASE f.def.type = "UINT"
    <3>1. get_uint_value(f.bytes) = f.value[1]
      <4>1. ~ LossyNumber(f.def, f.value)
        BY <1>3, <2>4 DEF Misread
      <4> QED BY <2>2, <2>4, <4>1, UnsignedIntegerRead
    <3>2. IntWithin(f.def, f.value[1], f.value[1] >= 0,
                    UnsignedFits(f.value[1], f.def.length))
      BY <2>1, <2>4, <3>1 DEF check_field_limits
    <3>3. /\ Has(f.def, "INT_MIN_VAL") => f.value[1] >= f.def.filters["INT_MIN_VAL"]
          /\ Has(f.def, "INT_MAX_VAL") => f.value[1] <= f.def.filters["INT_MAX_VAL"]
      BY <3>2 DEF IntWithin
    <3> QED BY <1>3, <2>4, <3>3 DEF Meets
  <2>5. CASE f.def.type = "CHAR"
    <3>1. f.bytes = f.value
      BY <2>2, <2>5 DEF Stored, Texts
    <3>2. check_char(f.def, f.value)
      BY <2>1, <2>5, <3>1 DEF check_field_limits
    <3>3. /\ Has(f.def, "CHAR_MIN_LEN") => Len(f.value) >= f.def.filters["CHAR_MIN_LEN"]
          /\ Has(f.def, "CHAR_MAX_LEN") => Len(f.value) <= f.def.filters["CHAR_MAX_LEN"]
      BY <3>2 DEF check_char, Limit
    <3>4. Has(f.def, "CHAR_DIGITS_ONLY") /\ f.def.filters["CHAR_DIGITS_ONLY"] =>
             \A k \in DOMAIN f.value : f.value[k] \in 48 .. 57
      BY <3>2 DEF check_char, Limit
    <3> QED BY <1>3, <2>5, <3>3, <3>4 DEF Meets
  <2>6. CASE f.def.type \notin {"INT", "UINT", "CHAR"}
    BY <1>3, <2>6 DEF Meets
  <2> QED BY <2>3, <2>4, <2>5, <2>6
<1> QED BY <1>2, <1>3

\* Without the clause, the whole range of the type passes, except where Late
\* says that it begins later.
LEMMA LeastOfType ==
    ASSUME NEW def, NEW v \in Int, def.length \in {1, 2, 3, 4, 8}, SignedFits(v, def.length),
           ~ SignedFits(v - Late(def.length), def.length)
    PROVE  \/ def.length = 1 /\ v = -128
           \/ def.length = 8 /\ ~ SignedFits(v - 2, 8)
<1>1. CASE def.length = 1
  <2>1. Late(def.length) = 1
    BY <1>1 DEF Late
  <2>2. v - 1 \in Int /\ 1 - 1 = 0
    OBVIOUS
  <2>3. Shifted(v, 1 - 1) = v /\ Shifted(v - 1, 1 - 1) = v - 1
    <3>1. 0 \in Nat
      OBVIOUS
    <3> QED BY <2>2, <3>1, ShiftedFacts
  <2>4. v \in -128 .. 127 /\ ~ (v - 1 \in -128 .. 127)
    BY <1>1, <2>1, <2>3 DEF SignedFits
  <2> QED BY <1>1, <2>4
<1>2. CASE def.length = 8
  <2>1. Late(def.length) = 2
    BY <1>2 DEF Late
  <2> QED BY <1>2, <2>1
<1>3. CASE def.length \notin {1, 8}
  <2>1. Late(def.length) = 0 /\ v - 0 = v
    BY <1>3 DEF Late
  <2> QED BY <2>1
<1> QED BY <1>1, <1>2, <1>3

\* A field that is refused is one for which RefusedWithReason has a reason.
LEMMA RefusedReason ==
    ASSUME NEW f, FieldOK(f), ~ Allowed(f), ~ f.damaged, Meets(f), ~ Misread(f),
           ~ Has(f.def, "CHAR_ASCII_ONLY")
    PROVE  RefusedUnasked(f)
<1>1. CASE f.null
  <2>1. Has(f.def, "CAN_BE_NULL") /\ f.def.filters["CAN_BE_NULL"]
    BY <1>1 DEF Meets
  <2>2. ~ Limit(f.def, "CAN_BE_NULL", FALSE)
    BY <1>1 DEF Allowed
  <2> QED BY <2>1, <2>2 DEF Limit
<1>2. CASE ~ f.null
  <2>1. ~ check_field_limits(f.def, f.bytes, f.after)
    BY <1>2 DEF Allowed
  <2>2. ValueOK(f.def, f.value) /\ f.bytes = Stored(f.def, f.value)
    BY <1>2 DEF FieldOK
  <2>3. CASE f.def.type = "INT"
    <3>1. get_int_value(f.bytes) = f.value[1]
      <4>1. ~ LossyNumber(f.def, f.value)
        BY <1>2, <2>3 DEF Misread
      <4> QED BY <2>2, <2>3, <4>1, IntegerRead
    <3>2. PICK v : v = f.value[1]
      OBVIOUS
    <3>3. v \in Int /\ f.def.length \in {1, 2, 3, 4, 8} /\ SignedFits(v, f.def.length)
      <4>1. f.value \in Seq(Int) /\ Len(f.value) = 1 /\ f.def.length \in {1, 2, 3, 4, 8}
        BY <2>2, <2>3 DEF ValueOK
      <4>2. SignedFits(v, f.def.length)
        BY <2>2, <2>3, <3>2 DEF ValueOK
      <4> QED BY <3>2, <4>1, <4>2, OneElement
    <3>4. ~ IntWithin(f.def, v, SignedFits(v - Late(f.def.length), f.def.length),
                      SignedFits(v, f.def.length))
      BY <2>1, <2>3, <3>1, <3>2 DEF check_field_limits
    <3>5. /\ Has(f.def, "INT_MIN_VAL") => v >= f.def.filters["INT_MIN_VAL"]
          /\ Has(f.def, "INT_MAX_VAL") => v <= f.def.filters["INT_MAX_VAL"]
      BY <1>2, <2>3, <3>2 DEF Meets
    <3>6. /\ ~ Has(f.def, "INT_MIN_VAL")
          /\ ~ SignedFits(v - Late(f.def.length), f.def.length)
      BY <3>3, <3>4, <3>5 DEF IntWithin
    <3>7. \/ f.def.length = 1 /\ v = -128
          \/ f.def.length = 8 /\ ~ SignedFits(v - 2, 8)
      BY <3>3, <3>6, LeastOfType
    <3> QED BY <1>2, <2>3, <3>2, <3>6, <3>7 DEF RefusedUnasked
  <2>4. CASE f.def.type = "UINT"
    <3>1. get_uint_value(f.bytes) = f.value[1] /\ f.value[1] >= 0
      <4>1. ~ LossyNumber(f.def, f.value)
        BY <1>2, <2>4 DEF Misread
      <4> QED BY <2>2, <2>4, <4>1, UnsignedIntegerRead
    <3>2. UnsignedFits(f.value[1], f.def.length)
      BY <2>2, <2>4 DEF ValueOK
    <3>3. ~ IntWithin(f.def, f.value[1], f.value[1] >= 0,
                      UnsignedFits(f.value[1], f.def.length))
      BY <2>1, <2>4, <3>1 DEF check_field_limits
    <3>4. /\ Has(f.def, "INT_MIN_VAL") => f.value[1] >= f.def.filters["INT_MIN_VAL"]
          /\ Has(f.def, "INT_MAX_VAL") => f.value[1] <= f.def.filters["INT_MAX_VAL"]
      BY <1>2, <2>4 DEF Meets
    <3> QED BY <3>1, <3>2, <3>3, <3>4 DEF IntWithin
  <2>5. CASE f.def.type = "CHAR"
    <3>1. f.bytes = f.value /\ f.value \in Seq(Byte)
      BY <2>2, <2>5 DEF Stored, ValueOK, Texts
    <3>2. ~ check_char(f.def, f.value)
      BY <2>1, <2>5, <3>1 DEF check_field_limits
    <3>3. /\ Has(f.def, "CHAR_MIN_LEN") => Len(f.value) >= f.def.filters["CHAR_MIN_LEN"]
          /\ Has(f.def, "CHAR_MAX_LEN") => Len(f.value) <= f.def.filters["CHAR_MAX_LEN"]
          /\ Has(f.def, "CHAR_DIGITS_ONLY") /\ f.def.filters["CHAR_DIGITS_ONLY"] =>
                \A k \in DOMAIN f.value : f.value[k] \in 48 .. 57
      BY <1>2, <2>5 DEF Meets
    <3>4. Len(f.value) >= Limit(f.def, "CHAR_MIN_LEN", 0)
      BY <3>1, <3>3 DEF Limit
    <3>5. ~ Limit(f.def, "CHAR_ASCII_ONLY", FALSE)
      BY DEF Limit
    <3>6. Limit(f.def, "CHAR_DIGITS_ONLY", FALSE) =>
             \A k \in DOMAIN f.value : f.value[k] \in 48 .. 57
      BY <3>3 DEF Limit
    <3>7. ~ (Len(f.value) <= Limit(f.def, "CHAR_MAX_LEN", 0))
      BY <3>2, <3>4, <3>5, <3>6 DEF check_char
    <3>8. ~ Has(f.def, "CHAR_MAX_LEN") /\ ~ (Len(f.value) <= 0)
      BY <3>3, <3>7 DEF Limit
    <3>9. f.value # << >>
      BY <3>8
    <3> QED BY <1>2, <2>5, <3>8, <3>9 DEF RefusedUnasked
  <2>6. CASE f.def.type \in {"ENUM", "DATE"}
    BY <1>2, <2>6 DEF RefusedUnasked
  <2>7. CASE f.def.type = "DATETIME"
    <3>1. ~ check_datetime(SubSeq(Stored(f.def, f.value) \o f.after, 1, 8))
      BY <2>1, <2>2, <2>7 DEF check_field_limits
    <3>2. f.after \in Seq(Byte)
      BY DEF FieldOK
    <3>3. ~ IsAcceptable(f.def, f.value)
      BY <3>1, <3>2, DatetimeAccepted
    <3>4. f.def.version56 \/ ~ (f.value[1] \in 1950 .. 2050)
      BY <2>2, <2>7, <3>3 DEF IsAcceptable
    <3> QED BY <1>2, <2>7, <3>4 DEF RefusedUnasked
  <2>8. CASE f.def.type \notin {"INT", "UINT", "CHAR", "ENUM", "DATE", "DATETIME"}
    BY <2>1, <2>8 DEF check_field_limits
  <2> QED BY <2>3, <2>4, <2>5, <2>6, <2>7, <2>8
<1> QED BY <1>1, <1>2

(***************************************************************************)
(* The strengthened invariant: the fields before the one that is compared  *)
(* were allowed, all of them are where the row is printed, and one is not  *)
(* where it is refused.                                                    *)
(***************************************************************************)
Compared ==
    /\ row \in Rows /\ i \in 1 .. Len(row)
    /\ pc \in {"check", "internal", "fields", "file", "loaded", "refused"}
    /\ pc = "check" => \A k \in 1 .. i - 1 : Allowed(row[k])
    /\ pc \in {"internal", "fields", "file", "loaded"} => \A k \in 1 .. Len(row) : Allowed(row[k])
    /\ pc = "refused" => ~ Allowed(row[i])

LEMMA RowFields ==
    ASSUME NEW r \in Rows
    PROVE  /\ Len(r) \in Nat /\ Len(r) > 0 /\ DOMAIN r = 1 .. Len(r)
           /\ \A k \in 1 .. Len(r) : FieldOK(r[k])
<1>1. r \in Seq(Range(r)) /\ r # << >> /\ \A k \in DOMAIN r : FieldOK(r[k])
  BY RowAssumption
<1>2. Len(r) \in Nat /\ DOMAIN r = 1 .. Len(r) /\ Len(r) > 0
  BY <1>1, LenProperties, EmptySeq
<1> QED BY <1>1, <1>2

LEMMA InitCompared == Init => Compared
<1> SUFFICES ASSUME Init PROVE Compared
  OBVIOUS
<1>1. row \in Rows /\ pc = "check" /\ i = 1
  BY DEF Init
<1>2. Len(row) \in Nat /\ Len(row) > 0
  BY <1>1, RowFields
<1> QED BY <1>1, <1>2 DEF Compared

LEMMA NextCompared == Compared /\ [Next]_vars => Compared'
<1> SUFFICES ASSUME Compared, [Next]_vars PROVE Compared'
  OBVIOUS
<1>1. row \in Rows /\ i \in 1 .. Len(row) /\ Len(row) \in Nat /\ Len(row) > 0
  BY RowFields DEF Compared
<1>2. CASE CheckField
  <2>1. pc = "check" /\ Allowed(row[i]) /\ row' = row
    BY <1>2 DEF CheckField, given
  <2>2. \A k \in 1 .. i : Allowed(row[k])
    BY <1>1, <2>1 DEF Compared
  <2>3. Advance("internal")
    BY <1>2 DEF CheckField
  <2>4. CASE i < Len(row)
    <3>1. pc' = "check" /\ i' = i + 1
      BY <2>1, <2>3, <2>4 DEF Advance
    <3>2. i' \in 1 .. Len(row) /\ i' - 1 = i
      BY <1>1, <2>4, <3>1
    <3>3. \A k \in 1 .. i' - 1 : Allowed(row'[k])
      BY <2>1, <2>2, <3>2
    <3> QED BY <1>1, <2>1, <3>1, <3>2, <3>3 DEF Compared, Allowed
  <2>5. CASE ~ (i < Len(row))
    <3>1. pc' = "internal" /\ i' = 1 /\ i = Len(row)
      BY <1>1, <2>3, <2>5 DEF Advance
    <3> QED BY <1>1, <2>1, <2>2, <3>1 DEF Compared
  <2> QED BY <2>4, <2>5
<1>3. CASE RefuseRow
  <2>1. pc = "check" /\ ~ Allowed(row[i]) /\ pc' = "refused" /\ row' = row /\ i' = i
    BY <1>3 DEF RefuseRow, given
  <2> QED BY <1>1, <2>1 DEF Compared
<1>4. CASE PrintInternal
  <2>1. pc = "internal" /\ row' = row /\ Advance("fields")
    BY <1>4 DEF PrintInternal, given
  <2>2. pc' \in {"internal", "fields"} /\ i' \in 1 .. Len(row)
    BY <1>1, <2>1 DEF Advance
  <2> QED BY <1>1, <2>1, <2>2 DEF Compared
<1>5. CASE PrintField
  <2>1. pc = "fields" /\ row' = row /\ Advance("file")
    BY <1>5 DEF PrintField, given
  <2>2. pc' \in {"fields", "file"} /\ i' \in 1 .. Len(row)
    BY <1>1, <2>1 DEF Advance
  <2> QED BY <1>1, <2>1, <2>2 DEF Compared
<1>6. CASE LoadData
  <2>1. pc = "file" /\ pc' = "loaded" /\ row' = row /\ i' = i
    BY <1>6 DEF LoadData, given
  <2> QED BY <1>1, <2>1 DEF Compared
<1>7. CASE UNCHANGED vars
  BY <1>7 DEF vars, Compared
<1> QED BY <1>2, <1>3, <1>4, <1>5, <1>6, <1>7 DEF Next

\* The invariant holds wherever check_constraints, process_ibrec and the server
\* have come with a row (c_parser.c:190-246, 138-188).
THEOREM RowCompared == Spec => []Compared
<1>1. Init => Compared
  BY InitCompared
<1>2. Compared /\ [Next]_vars => Compared'
  BY NextCompared
<1> QED BY <1>1, <1>2, PTL DEF Spec

\* A row of which a value does not meet the clauses of its column is never
\* printed, unless the value is an integer that is misread.
THEOREM RowsPrintedWithinLimits == Spec => []PrintedWithinLimits
<1>1. ASSUME Compared PROVE PrintedWithinLimits
  <2> SUFFICES ASSUME pc \in {"internal", "fields", "file", "loaded"},
                      NEW k \in DOMAIN row, Filtered(row[k]), ~ Misread(row[k])
               PROVE  Meets(row[k])
    BY DEF PrintedWithinLimits
  <2>1. row \in Rows /\ \A m \in 1 .. Len(row) : Allowed(row[m])
    BY <1>1 DEF Compared
  <2>2. k \in 1 .. Len(row) /\ FieldOK(row[k])
    BY <2>1, RowFields
  <2> QED BY <2>1, <2>2, AllowedMeets
<1> QED BY <1>1, RowCompared, PTL

\* A row that meets the clauses of its columns is refused only for the reasons
\* that RefusedWithReason names.
THEOREM RowsRefusedWithReason == Spec => []RefusedWithReason
<1>1. ASSUME Compared PROVE RefusedWithReason
  <2> DEFINE f == row[i]
  <2> SUFFICES ASSUME pc = "refused", ~ f.damaged, Meets(f), ~ Misread(f),
                      ~ Has(f.def, "CHAR_ASCII_ONLY")
               PROVE  RefusedUnasked(f)
    BY DEF RefusedWithReason
  <2>1. row \in Rows /\ i \in 1 .. Len(row) /\ ~ Allowed(f)
    BY <1>1 DEF Compared
  <2>2. FieldOK(f)
    BY <2>1, RowFields
  <2> HIDE DEF f
  <2> QED BY <2>1, <2>2, RefusedReason
<1> QED BY <1>1, RowCompared, PTL
-----------------------------------------------------------------------------
(* Texts: pieces one behind the other, and what the server reads of them   *)

IsFlattened(upto, pieces, S) ==
    /\ upto \in [0 .. Len(pieces) -> Seq(S)]
    /\ upto[0] = << >> /\ \A k \in 1 .. Len(pieces) : upto[k] = upto[k - 1] \o pieces[k]
    /\ FlattenSeq(pieces) = upto[Len(pieces)]

LEMMA FlattenUnfolds ==
    ASSUME NEW S, NEW pieces \in Seq(Seq(S))
    PROVE  \E upto : IsFlattened(upto, pieces, S)
<1> DEFINE n == Len(pieces)
           X == Seq(S)
           Is(f) == f = [i_1 \in 1 .. Len(pieces) |->
                            IF i_1 = 1 THEN pieces[i_1] ELSE f[i_1 - 1] \o pieces[i_1]]
           h == [k \in 1 .. n |-> [x \in X |-> x \o pieces[k]]]
<1>1. n \in Nat /\ \A k \in 1 .. n : pieces[k] \in X
  BY ElementOfSeq
<1>2. << >> \in X
  OBVIOUS
<1>3. PICK f \in [0 .. n -> X] :
        f[0] = << >> /\ \A k \in 1 .. n : f[k] = f[k - 1] \o pieces[k]
  <2>1. IsSteps(h, X, n)
    BY <1>1 DEF IsSteps
  <2>2. PICK f : IsIteration(f, X, << >>, h, n)
    <3> HIDE DEF h, n, X
    <3> QED BY <1>1, <1>2, <2>1, RecursionExists
  <2>3. f \in [0 .. n -> X] /\ f[0] = << >>
    <3> HIDE DEF n, X
    <3> QED BY <2>2 DEF IsIteration
  <2>4. ASSUME NEW k \in 1 .. n PROVE f[k] = f[k - 1] \o pieces[k]
    <3>1. f[k] = h[k][f[k - 1]]
      <4> HIDE DEF h, n, X
      <4> QED BY <2>2 DEF IsIteration
    <3>2. k - 1 \in 0 .. n
      OBVIOUS
    <3>3. f[k - 1] \in X
      <4> HIDE DEF X
      <4> QED BY <2>3, <3>2
    <3> QED BY <3>1, <3>3
  <2> QED BY <2>3, <2>4
<1>4. Is([k \in 1 .. n |-> f[k]])
  <2> DEFINE g == [k \in 1 .. n |-> f[k]]
  <2>1. ASSUME NEW k \in 1 .. n
        PROVE  g[k] = IF k = 1 THEN pieces[k] ELSE g[k - 1] \o pieces[k]
    <3>1. CASE k = 1
      <4>0. k - 1 = 0
        BY <3>1
      <4>1. g[k] = f[0] \o pieces[k] /\ pieces[k] \in X
        <5> HIDE DEF X
        <5>1. f[k] = f[k - 1] \o pieces[k] /\ pieces[k] \in X
          BY <1>1, <1>3
        <5> QED BY <4>0, <5>1
      <4>2. << >> \o pieces[k] = pieces[k]
        BY <4>1, ConcatEmptySeq
      <4> QED BY <1>3, <3>1, <4>1, <4>2
    <3>2. CASE k # 1
      <4>1. k - 1 \in 1 .. n
        BY <3>2
      <4> QED BY <1>3, <3>2, <4>1
    <3> QED BY <3>1, <3>2
  <2> QED BY <2>1
<1>5. CASE n = 0
  <2> DEFINE upto == [k \in 0 .. n |-> << >>]
  <2>1. FlattenSeq(pieces) = << >>
    BY <1>1, <1>5 DEF FlattenSeq
  <2> QED BY <1>2, <1>5, <2>1 DEF IsFlattened
<1>6. CASE n # 0
  <2>1. PICK g : Is(g) /\ FlattenSeq(pieces) = g[n]
    <3>1. Is(CHOOSE g : Is(g))
      <4> HIDE DEF Is
      <4> QED BY <1>4
    <3> QED BY Zenon, <1>6, <3>1 DEF FlattenSeq
  <2> DEFINE upto == [k \in 0 .. n |-> IF k = 0 THEN << >> ELSE g[k]]
  <2>2. \A k \in 1 .. n : g[k] = IF k = 1 THEN pieces[k] ELSE g[k - 1] \o pieces[k]
    BY <2>1
  <2>3. ASSUME NEW k \in 1 .. n PROVE upto[k] = upto[k - 1] \o pieces[k]
    <3>1. CASE k = 1
      <4>1. upto[k] = pieces[k] /\ upto[k - 1] = << >> /\ pieces[k] \in X
        BY <1>1, <2>2, <3>1
      <4> QED BY <4>1, ConcatEmptySeq
    <3>2. CASE k # 1
      <4>1. k - 1 \in 1 .. n /\ k \in 0 .. n /\ k - 1 \in 0 .. n
        BY <3>2
      <4>2. upto[k] = g[k] /\ upto[k - 1] = g[k - 1]
        BY <1>1, <3>2, <4>1
      <4>3. g[k] = g[k - 1] \o pieces[k]
        BY <2>2, <3>2
      <4> HIDE DEF upto
      <4> QED BY <4>2, <4>3
    <3> QED BY <3>1, <3>2
  <2>4. upto[0] = << >> /\ FlattenSeq(pieces) = upto[n]
    BY <1>1, <1>6, <2>1
  <2>5. upto \in [0 .. n -> X]
    <3> DEFINE T == {k \in 0 .. n : upto[k] \in X}
    <3>1. 0 \in T
      BY <1>1, <1>2, <2>4
    <3>2. ASSUME NEW k \in 1 .. n, k - 1 \in T PROVE k \in T
      <4> HIDE DEF upto
      <4>1. upto[k - 1] \in X /\ pieces[k] \in X /\ k \in 0 .. n
        BY <1>1, <3>2
      <4>2. upto[k] \in X
        <5>1. upto[k] = upto[k - 1] \o pieces[k]
          BY <2>3
        <5> QED BY <4>1, <5>1
      <4> QED BY <4>1, <4>2
    <3>3. 0 .. n \subseteq T
      <4> HIDE DEF T, n
      <4> QED BY <1>1, <3>1, <3>2, UptoInduction
    <3>4. \A k \in 0 .. n : upto[k] \in X
      <4> HIDE DEF upto, X
      <4> QED BY <3>3
    <3>5. upto = [k \in 0 .. n |-> upto[k]]
      OBVIOUS
    <3> HIDE DEF upto, X, n
    <3> QED BY <3>4, <3>5
  <2> HIDE DEF upto
  <2> QED BY Zenon, <2>3, <2>4, <2>5 DEF IsFlattened
<1> QED BY <1>5, <1>6

IsKept(upto, s, S, T) ==
    /\ upto \in [0 .. Len(s) -> Seq(T)]
    /\ upto[0] = << >>
    /\ \A k \in 1 .. Len(s) :
          upto[k] = IF k \in S THEN Append(upto[k - 1], s[k]) ELSE upto[k - 1]
    /\ Kept(s, S) = upto[Len(s)]

LEMMA KeptUnfolds ==
    ASSUME NEW T, NEW s \in Seq(T), NEW S
    PROVE  \E upto : IsKept(upto, s, S, T)
<1> DEFINE n == Len(s)
           X == Seq(T)
           Is(f) == f = [k \in 0 .. Len(s) |->
                            IF k = 0 THEN << >>
                            ELSE IF k \in S THEN Append(f[k - 1], s[k]) ELSE f[k - 1]]
           h == [k \in 1 .. n |-> [x \in X |-> IF k \in S THEN Append(x, s[k]) ELSE x]]
<1>1. n \in Nat /\ \A k \in 1 .. n : s[k] \in T
  BY ElementOfSeq
<1>2. << >> \in X
  OBVIOUS
<1>3. PICK f \in [0 .. n -> X] :
        /\ f[0] = << >>
        /\ \A k \in 1 .. n : f[k] = IF k \in S THEN Append(f[k - 1], s[k]) ELSE f[k - 1]
  <2>1. IsSteps(h, X, n)
    BY <1>1 DEF IsSteps
  <2>2. PICK f : IsIteration(f, X, << >>, h, n)
    <3> HIDE DEF h, n, X
    <3> QED BY <1>1, <1>2, <2>1, RecursionExists
  <2>3. f \in [0 .. n -> X] /\ f[0] = << >>
    <3> HIDE DEF n, X
    <3> QED BY <2>2 DEF IsIteration
  <2>4. ASSUME NEW k \in 1 .. n
        PROVE  f[k] = IF k \in S THEN Append(f[k - 1], s[k]) ELSE f[k - 1]
    <3>1. f[k] = h[k][f[k - 1]]
      <4> HIDE DEF h, n, X
      <4> QED BY <2>2 DEF IsIteration
    <3>2. k - 1 \in 0 .. n
      OBVIOUS
    <3>3. f[k - 1] \in X
      <4> HIDE DEF X
      <4> QED BY <2>3, <3>2
    <3> QED BY <3>1, <3>3
  <2> QED BY <2>3, <2>4
<1>4. Is(f)
  <2> DEFINE g == [k \in 0 .. n |-> IF k = 0 THEN << >>
                                   ELSE IF k \in S THEN Append(f[k - 1], s[k]) ELSE f[k - 1]]
  <2>1. f \in [0 .. n -> X] /\ f[0] = << >>
    BY <1>3
  <2>2. ASSUME NEW k \in 0 .. n PROVE f[k] = g[k]
    <3>1. CASE k = 0
      BY <2>1, <3>1
    <3>2. CASE k # 0
      <4>1. k \in 1 .. n
        BY <3>2
      <4>2. f[k] = IF k \in S THEN Append(f[k - 1], s[k]) ELSE f[k - 1]
        BY <1>3, <4>1
      <4> QED BY <3>2, <4>2
    <3> QED BY <3>1, <3>2
  <2>3. f = [k \in 0 .. n |-> f[k]]
    <3> HIDE DEF X
    <3> QED BY <2>1
  <2>4. f = g
    BY SMTT(40), <2>2, <2>3
  <2> QED BY <2>4
<1>5. PICK upto : Is(upto) /\ Kept(s, S) = upto[n]
  <2>1. Is(CHOOSE g : Is(g))
    <3> HIDE DEF Is
    <3> QED BY <1>4
  <2> QED BY Zenon, <2>1 DEF Kept
<1>6. /\ upto[0] = << >>
      /\ \A k \in 1 .. n : upto[k] = IF k \in S THEN Append(upto[k - 1], s[k]) ELSE upto[k - 1]
  <2>1. 0 \in 0 .. n /\ \A k \in 1 .. n : k \in 0 .. n /\ k # 0
    BY <1>1
  <2> QED BY <1>5, <2>1
<1>7. upto \in [0 .. n -> X]
  <2> DEFINE U == {k \in 0 .. n : upto[k] \in X}
  <2>1. 0 \in U
    <3>1. 0 \in 0 .. n
      BY <1>1
    <3> HIDE DEF X
    <3> QED BY <1>2, <1>6, <3>1
  <2>2. ASSUME NEW k \in 1 .. n, k - 1 \in U PROVE k \in U
    <3>1. upto[k - 1] \in X /\ s[k] \in T /\ k \in 0 .. n
      BY <1>1, <2>2
    <3>2. upto[k] \in X
      <4>1. CASE k \in S
        <5>1. upto[k] = Append(upto[k - 1], s[k])
          BY <1>6, <4>1
        <5> QED BY <3>1, <5>1
      <4>2. CASE k \notin S
        <5>1. upto[k] = upto[k - 1]
          BY <1>6, <4>2
        <5> QED BY <3>1, <5>1
      <4> QED BY <4>1, <4>2
    <3> QED BY <3>1, <3>2
  <2>3. 0 .. n \subseteq U
    <3> HIDE DEF U, n
    <3> QED BY <1>1, <2>1, <2>2, UptoInduction
  <2>4. \A k \in 0 .. n : upto[k] \in X
    <3> HIDE DEF X
    <3> QED BY <2>3
  <2>5. upto = [k \in 0 .. n |-> upto[k]]
    BY <1>5
  <2> HIDE DEF X, n
  <2> QED BY <2>4, <2>5
<1> QED BY <1>5, <1>6, <1>7 DEF IsKept

Char == 0 .. 257
FieldsRead == [null : BOOLEAN, text : Seq(Char)]
Modes == {"start", "plain", "quote", "enclosed", "escape", "enclosed escape", "end"}
Readers == [mode : Modes, fields : Seq(FieldsRead), text : Seq(Char),
            enclosed : BOOLEAN, found : BOOLEAN]

\* The reader is in one of these modes and has read so many fields.
Stands(r, modes, n) == r \in Readers /\ r.mode \in modes /\ Len(r.fields) = n

Special == {Quote, Tab, Newline, Backslash}

LEMMA SpecialDiffer ==
    /\ Special \subseteq Char
    /\ Quote # Tab /\ Quote # Newline /\ Quote # Backslash
    /\ Tab # Newline /\ Tab # Backslash /\ Newline # Backslash
BY DEF Special, Quote, Tab, Newline, Backslash, Char

LEMMA FieldReadType ==
    ASSUME NEW r \in Readers
    PROVE  FieldRead(r) \in Seq(FieldsRead) /\ Len(FieldRead(r)) = Len(r.fields) + 1
<1>1. r.fields \in Seq(FieldsRead) /\ r.text \in Seq(Char)
  BY DEF Readers
<1> DEFINE null == (~ r.enclosed /\ r.text = NullWord) \/ (r.found /\ Len(r.text) = 1)
           field == [null |-> null, text |-> IF null THEN << >> ELSE r.text]
<1>2. field \in FieldsRead
  <2>1. null \in BOOLEAN
    OBVIOUS
  <2>2. (IF null THEN << >> ELSE r.text) \in Seq(Char)
    <3> HIDE DEF null
    <3> QED BY <1>1
  <2> HIDE DEF null
  <2> QED BY <2>1, <2>2 DEF FieldsRead
<1>3. FieldRead(r) = Append(r.fields, field)
  BY DEF FieldRead
<1> HIDE DEF field
<1> QED BY <1>1, <1>2, <1>3, AppendProperties

LEMMA EndFieldType ==
    ASSUME NEW r \in Readers, NEW mode \in Modes
    PROVE  Stands(EndField(r, mode), {mode}, Len(r.fields) + 1)
<1>1. PICK fields : fields = FieldRead(r)
  OBVIOUS
<1>2. fields \in Seq(FieldsRead) /\ Len(fields) = Len(r.fields) + 1
  BY <1>1, FieldReadType
<1>3. EndField(r, mode) = [Reader EXCEPT !.mode = mode, !.fields = fields]
  BY <1>1 DEF EndField
<1>4. Reader \in Readers
  <2>1. << >> \in Seq(Char) /\ << >> \in Seq(FieldsRead)
    OBVIOUS
  <2> QED BY <2>1 DEF Reader, Readers, Modes
<1> HIDE DEF Reader
<1> QED BY <1>2, <1>3, <1>4 DEF Stands, Readers

LEMMA TakeType ==
    ASSUME NEW r \in Readers, NEW mode \in Modes, NEW c \in Char
    PROVE  Stands(Take(r, mode, c), {mode}, Len(r.fields))
<1>1. PICK text : text = Append(r.text, c)
  OBVIOUS
<1>2. text \in Seq(Char)
  BY <1>1 DEF Readers
<1>3. Take(r, mode, c) = [r EXCEPT !.mode = mode, !.text = text]
  BY <1>1 DEF Take
<1> QED BY <1>2, <1>3 DEF Stands, Readers

LEMMA UnescapeType ==
    ASSUME NEW c \in Char
    PROVE  Unescape(c) \in Char
BY DEF Unescape, Char, Newline, Return, Tab

LEMMA ModeSet ==
    ASSUME NEW r \in Readers, NEW mode \in Modes
    PROVE  /\ Stands([r EXCEPT !.mode = mode], {mode}, Len(r.fields))
           /\ Stands([r EXCEPT !.mode = mode, !.enclosed = TRUE], {mode}, Len(r.fields))
BY DEF Stands, Readers

LEMMA FoundSet ==
    ASSUME NEW r, NEW modes, NEW n, Stands(r, modes, n), NEW more \in BOOLEAN
    PROVE  Stands([r EXCEPT !.found = @ \/ more], modes, n)
<1>1. PICK found : found = (r.found \/ more)
  OBVIOUS
<1>2. found \in BOOLEAN
  BY <1>1 DEF Stands, Readers
<1>3. [r EXCEPT !.found = @ \/ more] = [r EXCEPT !.found = found]
  BY <1>1
<1>4. [r EXCEPT !.found = found] \in Readers
  BY <1>2 DEF Stands, Readers
<1>5. [r EXCEPT !.found = found].mode = r.mode /\ [r EXCEPT !.found = found].fields = r.fields
  BY DEF Stands, Readers
<1> QED BY <1>3, <1>4, <1>5 DEF Stands

\* What a byte does in each mode.
LEMMA Separated ==
    ASSUME NEW r, NEW n, Stands(r, {"start", "plain", "quote"}, n)
    PROVE  /\ Stands(ReadByte(r, Tab), {"start"}, n + 1)
           /\ Stands(ReadByte(r, Newline), {"end"}, n + 1)
<1>1. r \in Readers /\ r.mode \in {"start", "plain", "quote"} /\ Len(r.fields) = n
  BY DEF Stands
<1>2. ReadByte(r, Tab) = EndField(r, "start") /\ ReadByte(r, Newline) = EndField(r, "end")
  BY <1>1, SpecialDiffer DEF ReadByte
<1> QED BY <1>1, <1>2, EndFieldType DEF Modes

LEMMA Opened ==
    ASSUME NEW r, NEW n, Stands(r, {"start"}, n)
    PROVE  Stands(ReadByte(r, Quote), {"enclosed"}, n)
<1>1. r \in Readers /\ r.mode = "start" /\ Len(r.fields) = n
  BY DEF Stands
<1>2. ReadByte(r, Quote) = [r EXCEPT !.mode = "enclosed", !.enclosed = TRUE]
  BY <1>1, SpecialDiffer DEF ReadByte
<1> QED BY <1>1, <1>2, ModeSet DEF Modes

LEMMA PlainByte ==
    ASSUME NEW r, NEW n, NEW c \in Char, Stands(r, {"start", "plain"}, n),
           c \notin {Tab, Newline, Backslash}, c # Quote \/ r.mode = "plain"
    PROVE  Stands(ReadByte(r, c), {"plain"}, n)
<1>1. r \in Readers /\ r.mode \in {"start", "plain"} /\ Len(r.fields) = n
  BY DEF Stands
<1>2. ReadByte(r, c) = Take(r, "plain", c)
  BY <1>1 DEF ReadByte
<1> QED BY <1>1, <1>2, TakeType DEF Modes

LEMMA EnclosedByte ==
    ASSUME NEW r, NEW n, Stands(r, {"enclosed"}, n)
    PROVE  /\ Stands(ReadByte(r, Backslash), {"enclosed escape"}, n)
           /\ Stands(ReadByte(r, Quote), {"quote"}, n)
           /\ \A c \in Char \ {Backslash, Quote} : Stands(ReadByte(r, c), {"enclosed"}, n)
<1>1. r \in Readers /\ r.mode = "enclosed" /\ Len(r.fields) = n
  BY DEF Stands
<1>2. /\ ReadByte(r, Backslash) = [r EXCEPT !.mode = "enclosed escape"]
      /\ ReadByte(r, Quote) = [r EXCEPT !.mode = "quote"]
  BY <1>1, SpecialDiffer DEF ReadByte
<1>3. ASSUME NEW c \in Char \ {Backslash, Quote} PROVE Stands(ReadByte(r, c), {"enclosed"}, n)
  <2>1. ReadByte(r, c) = Take(r, "enclosed", c)
    BY <1>1 DEF ReadByte
  <2> QED BY <1>1, <2>1, TakeType DEF Modes
<1>4. "enclosed escape" \in Modes /\ "quote" \in Modes
  BY DEF Modes
<1>5. /\ Stands([r EXCEPT !.mode = "enclosed escape"], {"enclosed escape"}, n)
      /\ Stands([r EXCEPT !.mode = "quote"], {"quote"}, n)
  BY <1>1, <1>4, ModeSet
<1> QED BY <1>2, <1>3, <1>5

LEMMA EscapedByte ==
    ASSUME NEW r, NEW n, NEW c \in Char, Stands(r, {"enclosed escape"}, n)
    PROVE  Stands(ReadByte(r, c), {"enclosed"}, n)
<1>1. r \in Readers /\ r.mode = "enclosed escape" /\ Len(r.fields) = n
  BY DEF Stands
<1>2. PICK taken : taken = Take(r, "enclosed", Unescape(c))
  OBVIOUS
<1>3. Stands(taken, {"enclosed"}, n)
  BY <1>1, <1>2, TakeType, UnescapeType DEF Modes
<1>4. ReadByte(r, c) = [taken EXCEPT !.found = @ \/ c = 78]
  BY <1>1, <1>2 DEF ReadByte
<1>5. (c = 78) \in BOOLEAN
  OBVIOUS
<1>6. \A more \in BOOLEAN : Stands([taken EXCEPT !.found = @ \/ more], {"enclosed"}, n)
  BY <1>3, FoundSet
<1> QED BY <1>4, <1>5, <1>6

LEMMA ReadByteType ==
    ASSUME NEW r \in Readers, NEW c \in Char
    PROVE  ReadByte(r, c) \in Readers
<1>1. r.mode \in Modes
  BY DEF Readers
<1>2. CASE r.mode = "end"
  <2>1. ReadByte(r, c) = r
    BY <1>2 DEF ReadByte
  <2> QED BY <2>1
<1>3. CASE r.mode \in {"start", "plain", "quote"} /\ c \in {Tab, Newline}
  <2>1. Stands(r, {"start", "plain", "quote"}, Len(r.fields))
    BY <1>3 DEF Stands
  <2>2. ReadByte(r, Tab) \in Readers /\ ReadByte(r, Newline) \in Readers
    BY <2>1, Separated DEF Stands
  <2> QED BY <1>3, <2>2
<1>4. CASE r.mode = "start" /\ c = Quote
  <2>1. Stands(r, {"start"}, Len(r.fields))
    BY <1>4 DEF Stands
  <2> QED BY <1>4, <2>1, Opened DEF Stands
<1>5. CASE r.mode \in {"start", "plain"} /\ c = Backslash
  <2>1. ReadByte(r, c) = [r EXCEPT !.mode = "escape"]
    BY <1>5, SpecialDiffer DEF ReadByte
  <2>2. "escape" \in Modes
    BY DEF Modes
  <2>3. Stands([r EXCEPT !.mode = "escape"], {"escape"}, Len(r.fields))
    BY <2>2, ModeSet
  <2> QED BY <2>1, <2>3 DEF Stands
<1>6. CASE /\ r.mode \in {"start", "plain"} /\ c \notin {Tab, Newline, Backslash}
           /\ c # Quote \/ r.mode = "plain"
  <2>1. Stands(r, {"start", "plain"}, Len(r.fields))
    BY <1>6 DEF Stands
  <2>2. Stands(ReadByte(r, c), {"plain"}, Len(r.fields))
    BY <1>6, <2>1, PlainByte
  <2> QED BY <2>2 DEF Stands
<1>7. CASE r.mode = "enclosed"
  <2>1. Stands(r, {"enclosed"}, Len(r.fields))
    BY <1>7 DEF Stands
  <2>2. /\ ReadByte(r, Backslash) \in Readers /\ ReadByte(r, Quote) \in Readers
        /\ c \notin {Backslash, Quote} => ReadByte(r, c) \in Readers
    BY <2>1, EnclosedByte DEF Stands
  <2> QED BY <2>2
<1>8. CASE r.mode = "quote" /\ c \notin {Tab, Newline}
  <2>1. Quote \in Char /\ {"enclosed", "enclosed escape"} \subseteq Modes
    BY SpecialDiffer DEF Special, Modes
  <2>2. \A x \in Char, mode \in {"enclosed", "enclosed escape"} : Take(r, mode, x) \in Readers
    BY <2>1, TakeType DEF Stands
  <2>3. CASE c = Quote
    <3>1. ReadByte(r, c) = Take(r, "enclosed", Quote)
      BY <1>8, <2>3, SpecialDiffer DEF ReadByte
    <3> QED BY <2>1, <2>2, <3>1
  <2>4. CASE c = Backslash
    <3>1. ReadByte(r, c) = Take(r, "enclosed escape", Quote)
      BY <1>8, <2>4, SpecialDiffer DEF ReadByte
    <3> QED BY <2>1, <2>2, <3>1
  <2>5. CASE c \notin {Quote, Backslash}
    <3>1. PICK taken : taken = Take(r, "enclosed", Quote)
      OBVIOUS
    <3>2. ReadByte(r, c) = Take(taken, "enclosed", c)
      BY <1>8, <2>5, <3>1 DEF ReadByte
    <3>3. taken \in Readers
      BY <2>1, <2>2, <3>1
    <3> QED BY <2>1, <3>2, <3>3, TakeType DEF Stands
  <2> QED BY <2>3, <2>4, <2>5
<1>9. CASE r.mode = "enclosed escape"
  <2>1. Stands(r, {"enclosed escape"}, Len(r.fields))
    BY <1>9 DEF Stands
  <2> QED BY <2>1, EscapedByte DEF Stands
<1>10. CASE r.mode = "escape"
  <2>1. PICK taken : taken = Take(r, "plain", Unescape(c))
    OBVIOUS
  <2>2. Stands(taken, {"plain"}, Len(r.fields))
    BY <2>1, TakeType, UnescapeType DEF Modes
  <2>3. ReadByte(r, c) = [taken EXCEPT !.found = @ \/ c = 78]
    BY <1>10, <2>1 DEF ReadByte
  <2>4. \A more \in BOOLEAN :
           Stands([taken EXCEPT !.found = @ \/ more], {"plain"}, Len(r.fields))
    BY <2>2, FoundSet
  <2>5. (c = 78) \in BOOLEAN
    OBVIOUS
  <2> QED BY <2>3, <2>4, <2>5 DEF Stands
<1>11. CASE r.mode \in {"start", "plain", "quote"}
  <2>1. CASE c \in {Tab, Newline}
    BY <1>3, <1>11, <2>1
  <2>2. CASE c \notin {Tab, Newline} /\ r.mode = "start"
    BY <1>4, <1>5, <1>6, <2>2
  <2>3. CASE c \notin {Tab, Newline} /\ r.mode = "plain"
    BY <1>5, <1>6, <2>3
  <2> QED BY <1>8, <1>11, <2>1, <2>2, <2>3
<1> QED BY <1>1, <1>2, <1>7, <1>9, <1>10, <1>11 DEF Modes

IsReading(after, r, text) ==
    /\ after \in [0 .. Len(text) -> Readers]
    /\ after[0] = r /\ \A k \in 1 .. Len(text) : after[k] = ReadByte(after[k - 1], text[k])
    /\ ReadFrom(r, text) = after[Len(text)]

LEMMA ReadUnfolds ==
    ASSUME NEW r \in Readers, NEW text \in Seq(Char)
    PROVE  \E after : IsReading(after, r, text)
<1> DEFINE n == Len(text)
           X == Readers
           Is(f) == f = [k \in 0 .. Len(text) |->
                            IF k = 0 THEN r ELSE ReadByte(f[k - 1], text[k])]
           h == [k \in 1 .. n |-> [x \in X |-> ReadByte(x, text[k])]]
<1>1. n \in Nat /\ \A k \in 1 .. n : text[k] \in Char
  BY ElementOfSeq
<1>2. PICK f \in [0 .. n -> X] :
        f[0] = r /\ \A k \in 1 .. n : f[k] = ReadByte(f[k - 1], text[k])
  <2>1. IsSteps(h, X, n)
    BY <1>1, ReadByteType DEF IsSteps
  <2>2. PICK f : IsIteration(f, X, r, h, n)
    <3> HIDE DEF h, n
    <3> QED BY <1>1, <2>1, RecursionExists
  <2>3. f \in [0 .. n -> X] /\ f[0] = r
    <3> HIDE DEF n, X
    <3> QED BY <2>2 DEF IsIteration
  <2>4. ASSUME NEW k \in 1 .. n PROVE f[k] = ReadByte(f[k - 1], text[k])
    <3>1. f[k] = h[k][f[k - 1]]
      <4> HIDE DEF h, n, X
      <4> QED BY <2>2 DEF IsIteration
    <3>2. k - 1 \in 0 .. n
      OBVIOUS
    <3>3. f[k - 1] \in X
      <4> HIDE DEF X
      <4> QED BY <2>3, <3>2
    <3> QED BY <3>1, <3>3
  <2> QED BY <2>3, <2>4
<1>3. Is(f)
  <2> HIDE DEF X
  <2> QED BY <1>2
<1>4. PICK after : Is(after) /\ ReadFrom(r, text) = after[n]
  <2>1. Is(CHOOSE g : Is(g))
    <3> HIDE DEF Is
    <3> QED BY <1>3
  <2> QED BY <2>1 DEF ReadFrom
<1>5. after[0] = r /\ \A k \in 1 .. n : after[k] = ReadByte(after[k - 1], text[k])
  <2>1. 0 \in 0 .. n /\ \A k \in 1 .. n : k \in 0 .. n /\ k # 0
    BY <1>1
  <2> QED BY <1>4, <2>1
<1>6. after \in [0 .. n -> X]
  <2> DEFINE U == {k \in 0 .. n : after[k] \in X}
  <2>1. 0 \in U
    BY <1>1, <1>5
  <2>2. ASSUME NEW k \in 1 .. n, k - 1 \in U PROVE k \in U
    <3>1. after[k - 1] \in X /\ text[k] \in Char /\ k \in 0 .. n
      BY <1>1, <2>2
    <3>2. after[k] \in X
      BY <1>5, <3>1, ReadByteType
    <3> QED BY <3>1, <3>2
  <2>3. 0 .. n \subseteq U
    <3> HIDE DEF U, n
    <3> QED BY <1>1, <2>1, <2>2, UptoInduction
  <2>4. \A k \in 0 .. n : after[k] \in X
    <3> HIDE DEF X
    <3> QED BY <2>3
  <2>5. after = [k \in 0 .. n |-> after[k]]
    BY <1>4
  <2> HIDE DEF X, n
  <2> QED BY <2>4, <2>5
<1> QED BY <1>4, <1>5, <1>6 DEF IsReading

\* A text is read on from where the text before it ends.
LEMMA ReadConcat ==
    ASSUME NEW r \in Readers, NEW a \in Seq(Char), NEW b \in Seq(Char)
    PROVE  /\ ReadFrom(r, a) \in Readers
           /\ ReadFrom(r, a \o b) = ReadFrom(ReadFrom(r, a), b)
<1> DEFINE m == Len(a)
           n == Len(b)
           c == a \o b
<1>1. m \in Nat /\ n \in Nat
  OBVIOUS
<1>2. /\ c \in Seq(Char) /\ Len(c) = m + n
      /\ \A k \in 1 .. m : c[k] = a[k]
      /\ \A k \in 1 .. n : c[m + k] = b[k]
  OBVIOUS
<1>3. PICK f : IsReading(f, r, a)
  BY ReadUnfolds
<1>4. PICK x : x = f[m]
  OBVIOUS
<1>5. x \in Readers /\ ReadFrom(r, a) = x
  <2>1. m \in 0 .. m
    BY <1>1
  <2> QED BY <1>3, <1>4, <2>1 DEF IsReading
<1>6. PICK g : IsReading(g, x, b)
  BY <1>5, ReadUnfolds
<1>7. PICK h : IsReading(h, r, c)
  BY <1>2, ReadUnfolds
<1>8. /\ f[0] = r /\ \A k \in 1 .. m : f[k] = ReadByte(f[k - 1], a[k])
      /\ g[0] = x /\ \A k \in 1 .. n : g[k] = ReadByte(g[k - 1], b[k])
      /\ ReadFrom(x, b) = g[n]
  BY <1>3, <1>6 DEF IsReading
<1>9. /\ h[0] = r /\ \A k \in 1 .. m + n : h[k] = ReadByte(h[k - 1], c[k])
      /\ ReadFrom(r, c) = h[m + n]
  BY <1>2, <1>7 DEF IsReading
<1> HIDE DEF m, n, c
<1>10. h[m] = f[m]
  <2> DEFINE S == {k \in 0 .. m : h[k] = f[k]}
  <2>1. 0 \in S
    BY <1>1, <1>8, <1>9
  <2>2. ASSUME NEW k \in 1 .. m, k - 1 \in S PROVE k \in S
    <3>1. k \in 0 .. m /\ k \in 1 .. m + n
      BY <1>1
    <3>2. h[k] = f[k]
      BY <1>2, <1>8, <1>9, <2>2, <3>1
    <3> QED BY <3>1, <3>2
  <2>3. 0 .. m \subseteq S
    <3> HIDE DEF S
    <3> QED BY <1>1, <2>1, <2>2, UptoInduction
  <2>4. m \in 0 .. m
    BY <1>1
  <2> QED BY <2>3, <2>4
<1>11. h[m + n] = g[n]
  <2> DEFINE S == {k \in 0 .. n : h[m + k] = g[k]}
  <2>1. 0 \in S
    <3>1. m + 0 = m /\ 0 \in 0 .. n
      BY <1>1
    <3> QED BY <1>4, <1>8, <1>10, <3>1
  <2>2. ASSUME NEW k \in 1 .. n, k - 1 \in S PROVE k \in S
    <3>1. k \in 0 .. n /\ m + k \in 1 .. m + n /\ (m + k) - 1 = m + (k - 1)
      BY <1>1
    <3>2. h[m + k] = ReadByte(h[m + (k - 1)], c[m + k])
      BY <1>9, <3>1
    <3>3. h[m + (k - 1)] = g[k - 1] /\ c[m + k] = b[k]
      BY <1>2, <2>2
    <3>4. h[m + k] = g[k]
      BY <1>8, <3>2, <3>3
    <3> QED BY <3>1, <3>4
  <2>3. 0 .. n \subseteq S
    <3> HIDE DEF S
    <3> QED BY <1>1, <2>1, <2>2, UptoInduction
  <2>4. n \in 0 .. n
    BY <1>1
  <2> QED BY <2>3, <2>4
<1> QED BY <1>5, <1>8, <1>9, <1>11 DEF c

LEMMA ReadOne ==
    ASSUME NEW r \in Readers, NEW c \in Char
    PROVE  ReadFrom(r, << >>) = r /\ ReadFrom(r, <<c>>) = ReadByte(r, c)
<1>0. PICK e : e = << >>
  OBVIOUS
<1>1. e \in Seq(Char) /\ Len(e) = 0
  BY <1>0
<1>2. ReadFrom(r, << >>) = r
  <2>1. PICK f : IsReading(f, r, e)
    BY <1>1, ReadUnfolds
  <2> QED BY <1>0, <1>1, <2>1 DEF IsReading
<1>3. PICK s : s = <<c>>
  OBVIOUS
<1>4. s \in Seq(Char) /\ Len(s) = 1 /\ s[1] = c
  BY <1>3
<1>5. PICK g : IsReading(g, r, s)
  BY <1>4, ReadUnfolds
<1>6. 1 \in 1 .. Len(s) /\ 1 - 1 = 0
  BY <1>4
<1>7. ReadFrom(r, s) = ReadByte(r, c)
  BY <1>4, <1>5, <1>6 DEF IsReading
<1> QED BY <1>2, <1>3, <1>7
-----------------------------------------------------------------------------
(* The text of a field                                                     *)

\* Characters that mean nothing to the reader are the text of a field.
LEMMA PlainRead ==
    ASSUME NEW r, NEW n, NEW text \in Seq(Char), Stands(r, {"start"}, n),
           \A k \in 1 .. Len(text) : text[k] \notin Special
    PROVE  Stands(ReadFrom(r, text), {IF text = << >> THEN "start" ELSE "plain"}, n)
<1> DEFINE m == Len(text)
<1>1. m \in Nat /\ \A k \in 1 .. m : text[k] \in Char
  BY ElementOfSeq
<1>2. PICK after : IsReading(after, r, text)
  BY ReadUnfolds DEF Stands
<1>3. /\ after[0] = r /\ \A k \in 1 .. m : after[k] = ReadByte(after[k - 1], text[k])
      /\ ReadFrom(r, text) = after[m]
  BY <1>2 DEF IsReading
<1> DEFINE Mode(k) == IF k = 0 THEN "start" ELSE "plain"
           S == {k \in 0 .. m : Stands(after[k], {Mode(k)}, n)}
<1>4. 0 \in S
  BY <1>1, <1>3
<1>5. ASSUME NEW k \in 1 .. m, k - 1 \in S PROVE k \in S
  <2>1. Stands(after[k - 1], {"start", "plain"}, n)
    BY <1>5 DEF Stands
  <2>2. /\ text[k] \in Char /\ text[k] \notin {Tab, Newline, Backslash} /\ text[k] # Quote
    BY <1>1 DEF Special
  <2>3. Stands(ReadByte(after[k - 1], text[k]), {"plain"}, n)
    BY <2>1, <2>2, PlainByte
  <2>4. after[k] = ReadByte(after[k - 1], text[k]) /\ k \in 0 .. m /\ k # 0
    BY <1>1, <1>3
  <2> QED BY <2>3, <2>4
<1>6. 0 .. m \subseteq S
  <2> HIDE DEF S, m
  <2> QED BY <1>1, <1>4, <1>5, UptoInduction
<1>7. m \in S
  <2>1. m \in 0 .. m
    BY <1>1
  <2> HIDE DEF S, m
  <2> QED BY <1>6, <2>1
<1>8. m = 0 <=> text = << >>
  BY EmptySeq
<1> HIDE DEF m
<1> QED BY <1>3, <1>7, <1>8

LEMMA ReadTwo ==
    ASSUME NEW r \in Readers, NEW b \in Char, NEW c \in Char
    PROVE  ReadFrom(r, <<b, c>>) = ReadByte(ReadByte(r, b), c)
<1>1. PICK x : x = <<b>>
  OBVIOUS
<1>2. PICK y : y = <<c>>
  OBVIOUS
<1>3. x \in Seq(Char) /\ y \in Seq(Char)
  BY <1>1, <1>2
<1>4. x \o y = <<b, c>>
  <2>1. Len(x) = 1 /\ x[1] = b /\ Len(y) = 1 /\ y[1] = c
    BY <1>1, <1>2
  <2>2. PICK z : z = x \o y
    OBVIOUS
  <2>3. z \in Seq(Char) /\ Len(z) = 2 /\ z[1] = b /\ z[2] = c
    <3>1. /\ z \in Seq(Char) /\ Len(z) = Len(x) + Len(y)
          /\ \A k \in 1 .. Len(x) + Len(y) :
                z[k] = IF k <= Len(x) THEN x[k] ELSE y[k - Len(x)]
      BY <1>3, <2>2, ConcatProperties
    <3>2. 1 \in 1 .. 1 + 1 /\ 2 \in 1 .. 1 + 1 /\ ~ (2 <= 1) /\ 2 - 1 = 1 /\ 1 + 1 = 2
      OBVIOUS
    <3> QED BY <2>1, <3>1, <3>2
  <2>4. PICK w : w = <<b, c>>
    OBVIOUS
  <2>5. w \in Seq(Char) /\ Len(w) = 2 /\ w[1] = b /\ w[2] = c
    BY <2>4
  <2>6. \A k \in 1 .. 2 : z[k] = w[k]
    BY <2>3, <2>5
  <2>7. z = w
    BY <2>3, <2>5, <2>6, SeqEqual
  <2> QED BY <2>2, <2>4, <2>7
<1>5. ReadFrom(r, x \o y) = ReadFrom(ReadFrom(r, x), y)
  BY <1>3, ReadConcat
<1>6. ReadFrom(r, <<b>>) = ReadByte(r, b) /\ ReadByte(r, b) \in Readers
  BY ReadOne, ReadByteType
<1>7. ReadFrom(ReadByte(r, b), <<c>>) = ReadByte(ReadByte(r, b), c)
  BY <1>6, ReadOne
<1> QED BY <1>1, <1>2, <1>4, <1>5, <1>6, <1>7

LEMMA EscapedPair ==
    ASSUME NEW r, NEW n, NEW c \in Char, Stands(r, {"enclosed"}, n)
    PROVE  Stands(ReadFrom(r, <<Backslash, c>>), {"enclosed"}, n)
<1>1. r \in Readers /\ Backslash \in Char
  BY SpecialDiffer DEF Stands, Special
<1>2. PICK x : x = ReadByte(r, Backslash)
  OBVIOUS
<1>3. Stands(x, {"enclosed escape"}, n)
  BY <1>2, EnclosedByte
<1>4. ReadFrom(r, <<Backslash, c>>) = ReadByte(x, c)
  BY <1>1, <1>2, ReadTwo
<1> QED BY <1>3, <1>4, EscapedByte

LEMMA EscapeCases ==
    ASSUME NEW b \in Byte
    PROVE  \/ Escape(b) = <<b>> /\ b \notin {Backslash, Quote}
           \/ \E c \in Char : Escape(b) = <<Backslash, c>>
<1>1. CASE b \in {Backslash, Quote, 37, 95}
  <2>1. Escape(b) = <<Backslash, b>>
    BY <1>1 DEF Escape, Backslash, Quote, Newline, Return, Tab
  <2> QED BY <2>1 DEF Byte, Char
<1>2. CASE b \in {Newline, Return, Tab, 0, 8, 26}
  <2>1. \E c \in {110, 114, 116, 48, 98, 90} : Escape(b) = <<Backslash, c>>
    BY <1>2 DEF Escape, Backslash, Quote, Newline, Return, Tab
  <2> QED BY <2>1 DEF Char
<1>3. CASE b \notin {Backslash, Quote, 37, 95} /\ b \notin {Newline, Return, Tab, 0, 8, 26}
  <2>1. Escape(b) = <<b>>
    BY <1>3 DEF Escape
  <2> QED BY <1>3, <2>1
<1> QED BY <1>1, <1>2, <1>3

\* A text that leaves an enclosed field open.
IsInside(text) ==
    /\ text \in Seq(Char)
    /\ \A r, n : Stands(r, {"enclosed"}, n) => Stands(ReadFrom(r, text), {"enclosed"}, n)

\* What print_string makes of a byte is one character of the field for the
\* reader.
LEMMA EscapeRead ==
    ASSUME NEW b \in Byte
    PROVE  IsInside(Escape(b))
<1>1. CASE Escape(b) = <<b>> /\ b \notin {Backslash, Quote}
  <2>1. b \in Char
    BY DEF Byte, Char
  <2>2. ASSUME NEW r, NEW n, Stands(r, {"enclosed"}, n)
        PROVE  Stands(ReadFrom(r, Escape(b)), {"enclosed"}, n)
    <3>1. Stands(ReadByte(r, b), {"enclosed"}, n)
      BY <1>1, <2>1, <2>2, EnclosedByte
    <3>2. r \in Readers
      BY <2>2 DEF Stands
    <3> QED BY <1>1, <2>1, <3>1, <3>2, ReadOne
  <2> QED BY <1>1, <2>1, <2>2 DEF IsInside
<1>2. ASSUME NEW c \in Char, Escape(b) = <<Backslash, c>>
      PROVE  IsInside(Escape(b))
  <2>1. Backslash \in Char
    BY SpecialDiffer DEF Special
  <2> QED BY <1>2, <2>1, EscapedPair DEF IsInside
<1> QED BY <1>1, <1>2, EscapeCases

LEMMA PiecesRead ==
    ASSUME NEW pieces \in Seq(Seq(Char)), \A k \in 1 .. Len(pieces) : IsInside(pieces[k])
    PROVE  IsInside(FlattenSeq(pieces))
<1> DEFINE m == Len(pieces)
<1>1. m \in Nat /\ \A k \in 1 .. m : pieces[k] \in Seq(Char)
  BY ElementOfSeq
<1>2. PICK upto : IsFlattened(upto, pieces, Char)
  BY FlattenUnfolds
<1>3. /\ upto \in [0 .. m -> Seq(Char)] /\ upto[0] = << >>
      /\ \A k \in 1 .. m : upto[k] = upto[k - 1] \o pieces[k]
      /\ FlattenSeq(pieces) = upto[m]
  BY <1>2 DEF IsFlattened
<1>4. m \in 0 .. m
  BY <1>1
<1>5. ASSUME NEW r, NEW n, Stands(r, {"enclosed"}, n)
      PROVE  Stands(ReadFrom(r, upto[m]), {"enclosed"}, n)
  <2> DEFINE S == {k \in 0 .. m : Stands(ReadFrom(r, upto[k]), {"enclosed"}, n)}
  <2>1. r \in Readers
    BY <1>5 DEF Stands
  <2>2. 0 \in S
    <3>1. ReadFrom(r, << >>) = r
      <4>1. Backslash \in Char
        BY SpecialDiffer DEF Special
      <4> QED BY <2>1, <4>1, ReadOne
    <3> QED BY <1>1, <1>3, <1>5, <3>1
  <2>3. ASSUME NEW k \in 1 .. m, k - 1 \in S PROVE k \in S
    <3>1. k \in 0 .. m /\ k - 1 \in 0 .. m
      BY <1>1
    <3>2. upto[k - 1] \in Seq(Char) /\ pieces[k] \in Seq(Char)
      BY <1>1, <1>3, <3>1
    <3>3. PICK x : x = ReadFrom(r, upto[k - 1])
      OBVIOUS
    <3>4. Stands(x, {"enclosed"}, n)
      BY <2>3, <3>3
    <3>5. ReadFrom(r, upto[k]) = ReadFrom(x, pieces[k])
      <4>1. ReadFrom(r, upto[k - 1] \o pieces[k]) = ReadFrom(x, pieces[k])
        BY <2>1, <3>2, <3>3, ReadConcat
      <4> QED BY <1>3, <4>1
    <3>6. Stands(ReadFrom(x, pieces[k]), {"enclosed"}, n)
      BY <3>4 DEF IsInside
    <3> QED BY <3>1, <3>5, <3>6
  <2>4. 0 .. m \subseteq S
    <3> HIDE DEF S, m
    <3> QED BY <1>1, <2>2, <2>3, UptoInduction
  <2> QED BY <1>4, <2>4
<1> HIDE DEF m
<1> QED BY <1>3, <1>4, <1>5 DEF IsInside

\* A text behind which a tab or the end of the line ends one field.
IsFieldText(text) ==
    /\ text \in Seq(Char)
    /\ \A r, n : Stands(r, {"start"}, n) =>
          Stands(ReadFrom(r, text), {"start", "plain", "quote"}, n)

LEMMA PlainFieldText ==
    ASSUME NEW text \in Seq(Char), \A k \in 1 .. Len(text) : text[k] \notin Special
    PROVE  IsFieldText(text)
<1>1. ASSUME NEW r, NEW n, Stands(r, {"start"}, n)
      PROVE  Stands(ReadFrom(r, text), {"start", "plain", "quote"}, n)
  <2>1. Stands(ReadFrom(r, text), {IF text = << >> THEN "start" ELSE "plain"}, n)
    BY <1>1, PlainRead
  <2> QED BY <2>1 DEF Stands
<1> QED BY <1>1 DEF IsFieldText

LEMMA QuotedFieldText ==
    ASSUME NEW text, IsInside(text)
    PROVE  IsFieldText(Quoted(text))
<1>1. PICK q : q = <<Quote>>
  OBVIOUS
<1>2. Quote \in Char /\ q \in Seq(Char) /\ text \in Seq(Char)
  <2>1. Quote \in Char
    BY SpecialDiffer DEF Special
  <2> QED BY <1>1, <2>1 DEF IsInside
<1>3. q \o text \in Seq(Char) /\ Quoted(text) = (q \o text) \o q /\ Quoted(text) \in Seq(Char)
  <2>1. Quoted(text) = (q \o text) \o q
    BY <1>1 DEF Quoted
  <2> QED BY <1>2, <2>1, ConcatProperties
<1>4. ASSUME NEW r, NEW n, Stands(r, {"start"}, n)
      PROVE  Stands(ReadFrom(r, Quoted(text)), {"quote"}, n)
  <2>1. r \in Readers
    BY <1>4 DEF Stands
  <2>2. PICK x : x = ReadFrom(r, q)
    OBVIOUS
  <2>3. Stands(x, {"enclosed"}, n)
    <3>1. x = ReadByte(r, Quote)
      BY <1>1, <1>2, <2>1, <2>2, ReadOne
    <3> QED BY <1>4, <3>1, Opened
  <2>4. PICK y : y = ReadFrom(x, text)
    OBVIOUS
  <2>5. Stands(y, {"enclosed"}, n)
    BY <2>3, <2>4 DEF IsInside
  <2>6. ReadFrom(r, q \o text) = y
    BY <1>2, <2>1, <2>2, <2>4, ReadConcat
  <2>7. ReadFrom(r, (q \o text) \o q) = ReadFrom(y, q)
    BY <1>2, <1>3, <2>1, <2>6, ReadConcat
  <2>8. y \in Readers
    BY <2>5 DEF Stands
  <2>9. ReadFrom(y, q) = ReadByte(y, Quote)
    BY <1>1, <1>2, <2>8, ReadOne
  <2>10. Stands(ReadByte(y, Quote), {"quote"}, n)
    BY <2>5, EnclosedByte
  <2> QED BY <1>3, <2>7, <2>9, <2>10
<1>5. ASSUME NEW r, NEW n, Stands(r, {"start"}, n)
      PROVE  Stands(ReadFrom(r, Quoted(text)), {"start", "plain", "quote"}, n)
  <2>1. Stands(ReadFrom(r, Quoted(text)), {"quote"}, n)
    BY <1>4, <1>5
  <2> QED BY <2>1 DEF Stands
<1> QED BY <1>3, <1>5 DEF IsFieldText

\* Whatever its bytes are, the text of print_string is one field.
LEMMA StringFieldText ==
    ASSUME NEW bytes \in Seq(Byte)
    PROVE  IsFieldText(print_string(bytes))
<1>1. PICK pieces : pieces = [k \in DOMAIN bytes |-> Escape(bytes[k])]
  OBVIOUS
<1>2. Len(bytes) \in Nat /\ DOMAIN bytes = 1 .. Len(bytes)
      /\ \A k \in 1 .. Len(bytes) : bytes[k] \in Byte
  BY ElementOfSeq
<1>3. \A k \in 1 .. Len(bytes) : IsInside(Escape(bytes[k]))
  BY <1>2, EscapeRead
<1>4. pieces \in [1 .. Len(bytes) -> Seq(Char)]
  <2>1. \A k \in 1 .. Len(bytes) : Escape(bytes[k]) \in Seq(Char)
    BY <1>3 DEF IsInside
  <2> QED BY <1>1, <1>2, <2>1
<1>5. pieces \in Seq(Seq(Char)) /\ Len(pieces) = Len(bytes)
  BY <1>2, <1>4, SequenceOfFunction
<1>6. \A k \in 1 .. Len(pieces) : IsInside(pieces[k])
  BY <1>1, <1>2, <1>3, <1>5
<1>7. IsInside(FlattenSeq(pieces))
  BY <1>5, <1>6, PiecesRead
<1> QED BY <1>1, <1>7, QuotedFieldText DEF print_string

LEMMA EscapeRawCases ==
    ASSUME NEW b \in Byte
    PROVE  \/ EscapeRaw(b) = <<b>> /\ b # Quote
           \/ \E c \in Char : /\ EscapeRaw(b) = <<Backslash, c>> /\ b # Backslash
                              /\ b # Quote => c \notin {Backslash, Quote}
<1>1. CASE b = Quote
  <2>1. EscapeRaw(b) = <<Backslash, b>>
    BY <1>1 DEF EscapeRaw, Quote, Newline, Return
  <2> QED BY <1>1, <2>1, SpecialDiffer DEF Special
<1>2. CASE b \in {Newline, Return}
  <2>1. \E c \in {110, 114} : EscapeRaw(b) = <<Backslash, c>>
    BY <1>2 DEF EscapeRaw, Quote, Newline, Return
  <2> QED BY <1>2, <2>1 DEF Char, Backslash, Quote, Newline, Return
<1>3. CASE b \notin {Quote, Newline, Return}
  <2>1. EscapeRaw(b) = <<b>>
    BY <1>3 DEF EscapeRaw
  <2> QED BY <1>3, <2>1
<1> QED BY <1>1, <1>2, <1>3

\* A byte of print_string_raw, behind a backslash that was printed as it is too.
LEMMA EscapeRawRead ==
    ASSUME NEW b \in Byte
    PROVE  /\ EscapeRaw(b) \in Seq(Char)
           /\ \A r, n : Stands(r, {"enclosed"}, n) =>
                 Stands(ReadFrom(r, EscapeRaw(b)),
                        {IF b = Backslash THEN "enclosed escape" ELSE "enclosed"}, n)
           /\ b # Quote =>
                 \A r, n : Stands(r, {"enclosed escape"}, n) =>
                    Stands(ReadFrom(r, EscapeRaw(b)), {"enclosed"}, n)
<1>0. b \in Char /\ Backslash \in Char /\ Backslash # Quote
  BY SpecialDiffer DEF Special, Byte, Char
<1>1. CASE EscapeRaw(b) = <<b>> /\ b # Quote
  <2>1. EscapeRaw(b) \in Seq(Char)
    BY <1>0, <1>1
  <2>2. ASSUME NEW r \in Readers PROVE ReadFrom(r, EscapeRaw(b)) = ReadByte(r, b)
    BY <1>0, <1>1, ReadOne
  <2>3. ASSUME NEW r, NEW n, Stands(r, {"enclosed"}, n)
        PROVE  Stands(ReadByte(r, b),
                      {IF b = Backslash THEN "enclosed escape" ELSE "enclosed"}, n)
    <3>1. CASE b = Backslash
      BY <2>3, <3>1, EnclosedByte
    <3>2. CASE b # Backslash
      BY <1>0, <1>1, <2>3, <3>2, EnclosedByte
    <3> QED BY <3>1, <3>2
  <2>4. ASSUME NEW r, NEW n, Stands(r, {"enclosed escape"}, n)
        PROVE  Stands(ReadByte(r, b), {"enclosed"}, n)
    BY <1>0, <2>4, EscapedByte
  <2>5. \A r, modes, n : Stands(r, modes, n) => r \in Readers
    BY DEF Stands
  <2> QED BY <2>1, <2>2, <2>3, <2>4, <2>5
<1>2. ASSUME NEW c \in Char, EscapeRaw(b) = <<Backslash, c>>, b # Backslash,
             b # Quote => c \notin {Backslash, Quote}
      PROVE  /\ EscapeRaw(b) \in Seq(Char)
             /\ \A r, n : Stands(r, {"enclosed"}, n) =>
                   Stands(ReadFrom(r, EscapeRaw(b)), {"enclosed"}, n)
             /\ b # Quote =>
                   \A r, n : Stands(r, {"enclosed escape"}, n) =>
                      Stands(ReadFrom(r, EscapeRaw(b)), {"enclosed"}, n)
  <2>1. EscapeRaw(b) \in Seq(Char)
    BY <1>0, <1>2
  <2>2. ASSUME NEW r, NEW n, Stands(r, {"enclosed"}, n)
        PROVE  Stands(ReadFrom(r, EscapeRaw(b)), {"enclosed"}, n)
    BY <1>2, <2>2, EscapedPair
  <2>3. ASSUME NEW r, NEW n, Stands(r, {"enclosed escape"}, n), b # Quote
        PROVE  Stands(ReadFrom(r, EscapeRaw(b)), {"enclosed"}, n)
    <3>1. r \in Readers
      BY <2>3 DEF Stands
    <3>2. PICK x : x = ReadByte(r, Backslash)
      OBVIOUS
    <3>3. Stands(x, {"enclosed"}, n)
      BY <1>0, <2>3, <3>2, EscapedByte
    <3>4. ReadFrom(r, EscapeRaw(b)) = ReadByte(x, c)
      BY <1>0, <1>2, <3>1, <3>2, ReadTwo
    <3>5. Stands(ReadByte(x, c), {"enclosed"}, n)
      BY <1>2, <2>3, <3>3, EnclosedByte
    <3> QED BY <3>4, <3>5
  <2> QED BY <2>1, <2>2, <2>3
<1> QED BY <1>1, <1>2, EscapeRawCases

\* The text of print_string_raw, if no backslash takes along the quote behind it.
LEMMA RawInside ==
    ASSUME NEW bytes \in Seq(Byte),
           \A k \in 1 .. Len(bytes) : bytes[k] = Backslash =>
              k < Len(bytes) /\ bytes[k + 1] # Quote
    PROVE  IsInside(print_string_raw(bytes))
<1> DEFINE m == Len(bytes)
<1>1. PICK pieces : pieces = [k \in DOMAIN bytes |-> EscapeRaw(bytes[k])]
  OBVIOUS
<1>2. m \in Nat /\ DOMAIN bytes = 1 .. m /\ \A k \in 1 .. m : bytes[k] \in Byte
  BY ElementOfSeq
<1>3. \A k \in 1 .. m : pieces[k] = EscapeRaw(bytes[k]) /\ pieces[k] \in Seq(Char)
  BY <1>1, <1>2, EscapeRawRead
<1>4. pieces \in Seq(Seq(Char)) /\ Len(pieces) = m
  <2>1. pieces \in [1 .. m -> Seq(Char)]
    BY <1>1, <1>2, <1>3
  <2> QED BY <1>2, <2>1, SequenceOfFunction
<1>5. PICK upto : IsFlattened(upto, pieces, Char)
  BY <1>4, FlattenUnfolds
<1>6. /\ upto \in [0 .. m -> Seq(Char)] /\ upto[0] = << >>
      /\ \A k \in 1 .. m : upto[k] = upto[k - 1] \o pieces[k]
      /\ print_string_raw(bytes) = upto[m]
  BY <1>1, <1>4, <1>5 DEF IsFlattened, print_string_raw
<1>7. m \in 0 .. m
  BY <1>2
<1>8. ASSUME NEW r, NEW n, Stands(r, {"enclosed"}, n)
      PROVE  Stands(ReadFrom(r, upto[m]), {"enclosed"}, n)
  <2> DEFINE Open(k) == Stands(ReadFrom(r, upto[k]), {"enclosed"}, n)
             Taken(k) == /\ k > 0 /\ bytes[k] = Backslash
                         /\ Stands(ReadFrom(r, upto[k]), {"enclosed escape"}, n)
             S == {k \in 0 .. m : Open(k) \/ Taken(k)}
  <2>1. r \in Readers
    BY <1>8 DEF Stands
  <2>2. 0 \in S
    <3>1. ReadFrom(r, << >>) = r
      <4>1. Backslash \in Char
        BY SpecialDiffer DEF Special
      <4> QED BY <2>1, <4>1, ReadOne
    <3> QED BY <1>2, <1>6, <1>8, <3>1
  <2>3. ASSUME NEW k \in 1 .. m, k - 1 \in S PROVE k \in S
    <3>1. k \in 0 .. m /\ k - 1 \in 0 .. m /\ k > 0
      BY <1>2
    <3>2. upto[k - 1] \in Seq(Char) /\ pieces[k] \in Seq(Char) /\ bytes[k] \in Byte
      BY <1>2, <1>3, <1>6, <3>1
    <3>3. PICK x : x = ReadFrom(r, upto[k - 1])
      OBVIOUS
    <3>4. ReadFrom(r, upto[k]) = ReadFrom(x, EscapeRaw(bytes[k]))
      <4>1. ReadFrom(r, upto[k - 1] \o pieces[k]) = ReadFrom(x, pieces[k])
        BY <2>1, <3>2, <3>3, ReadConcat
      <4> QED BY <1>3, <1>6, <4>1
    <3>5. CASE Open(k - 1)
      <4>1. Stands(x, {"enclosed"}, n)
        BY <3>3, <3>5
      <4>2. Stands(ReadFrom(x, EscapeRaw(bytes[k])),
                   {IF bytes[k] = Backslash THEN "enclosed escape" ELSE "enclosed"}, n)
        BY <3>2, <4>1, EscapeRawRead
      <4>3. Open(k) \/ Taken(k)
        BY <3>1, <3>4, <4>2
      <4> HIDE DEF Open, Taken
      <4> QED BY <3>1, <4>3
    <3>6. CASE Taken(k - 1)
      <4>1. Stands(x, {"enclosed escape"}, n)
        BY <3>3, <3>6
      <4>2. bytes[k] # Quote
        <5>1. k - 1 > 0 /\ bytes[k - 1] = Backslash
          BY <3>6
        <5>2. k - 1 \in 1 .. m /\ (k - 1) + 1 = k
          <6> HIDE DEF S, m
          <6> QED BY <1>2, <5>1
        <5> QED BY <5>1, <5>2
      <4>3. Open(k)
        BY <3>2, <3>4, <4>1, <4>2, EscapeRawRead
      <4> HIDE DEF Open, Taken
      <4> QED BY <3>1, <4>3
    <3>7. Open(k - 1) \/ Taken(k - 1)
      BY <2>3
    <3> QED BY <3>5, <3>6, <3>7
  <2>4. 0 .. m \subseteq S
    <3> HIDE DEF S, m
    <3> QED BY <1>2, <2>2, <2>3, UptoInduction
  <2>5. Open(m) \/ Taken(m)
    <3> HIDE DEF Open, Taken
    <3> QED BY <1>7, <2>4
  <2>6. ~ Taken(m)
    <3>1. ASSUME m > 0, bytes[m] = Backslash PROVE FALSE
      <4>1. m \in 1 .. m /\ ~ (m < m)
        BY <1>2, <3>1
      <4> QED BY <3>1, <4>1
    <3> QED BY <3>1
  <2> QED BY <2>5, <2>6
<1> HIDE DEF m
<1>9. upto[m] \in Seq(Char)
  BY <1>6, <1>7
<1> QED BY <1>6, <1>8, <1>9 DEF IsInside

HexDigits == (48 .. 57) \cup (65 .. 70)

LEMMA HexPair ==
    ASSUME NEW b \in Byte
    PROVE  HexDigit(b \div 16) \in HexDigits /\ HexDigit(b % 16) \in HexDigits
<1>1. b \div 16 \in 0 .. 15 /\ b % 16 \in 0 .. 15
  BY DEF Byte
<1>2. \A n \in 0 .. 15 : HexDigit(n) \in HexDigits
  BY DEF HexDigit, HexDigits
<1> QED BY <1>1, <1>2

LEMMA HexType ==
    ASSUME NEW bytes \in Seq(Byte)
    PROVE  /\ print_hex(bytes) \in Seq(HexDigits)
           /\ bytes # << >> => print_hex(bytes) # << >>
<1> DEFINE m == Len(bytes)
           X == Seq(HexDigits)
<1>1. PICK pieces : pieces = [k \in DOMAIN bytes |->
                                 <<HexDigit(bytes[k] \div 16), HexDigit(bytes[k] % 16)>>]
  OBVIOUS
<1>2. m \in Nat /\ DOMAIN bytes = 1 .. m /\ \A k \in 1 .. m : bytes[k] \in Byte
  BY ElementOfSeq
<1>3. \A k \in 1 .. m : pieces[k] \in X /\ Len(pieces[k]) = 2
  <2> SUFFICES ASSUME NEW k \in 1 .. m PROVE pieces[k] \in X /\ Len(pieces[k]) = 2
    OBVIOUS
  <2>1. PICK x, y : x = HexDigit(bytes[k] \div 16) /\ y = HexDigit(bytes[k] % 16)
    OBVIOUS
  <2>2. x \in HexDigits /\ y \in HexDigits
    BY <1>2, <2>1, HexPair
  <2>3. pieces[k] = <<x, y>>
    BY <1>1, <1>2, <2>1
  <2>4. <<x, y>> \in X /\ Len(<<x, y>>) = 2
    BY <2>2
  <2> QED BY <2>3, <2>4
<1>4. pieces \in Seq(X) /\ Len(pieces) = m
  <2>1. pieces \in [1 .. m -> X]
    <3>1. pieces = [k \in 1 .. m |-> pieces[k]]
      BY <1>1, <1>2
    <3> HIDE DEF m, X
    <3> QED BY <1>3, <3>1
  <2> HIDE DEF m, X
  <2> QED BY <1>2, <2>1, SequenceOfFunction
<1>5. PICK upto : IsFlattened(upto, pieces, HexDigits)
  BY <1>4, FlattenUnfolds
<1>6. /\ upto \in [0 .. m -> X]
      /\ \A k \in 1 .. m : upto[k] = upto[k - 1] \o pieces[k]
      /\ print_hex(bytes) = upto[m]
  BY <1>1, <1>4, <1>5 DEF IsFlattened, print_hex
<1>7. upto[m] \in X
  <2>1. m \in 0 .. m
    BY <1>2
  <2> HIDE DEF m, X
  <2> QED BY <1>6, <2>1
<1>8. ASSUME bytes # << >> PROVE upto[m] # << >>
  <2>1. m > 0
    BY <1>8, EmptySeq
  <2>2. m \in 1 .. m /\ m - 1 \in 0 .. m
    <3> HIDE DEF m
    <3> QED BY <1>2, <2>1
  <2>3. PICK x, y : x = upto[m - 1] /\ y = pieces[m]
    OBVIOUS
  <2>4. x \in X /\ y \in X /\ Len(y) = 2 /\ upto[m] = x \o y
    <3> HIDE DEF m, X
    <3> QED BY <1>3, <1>6, <2>2, <2>3
  <2>5. Len(x \o y) = Len(x) + Len(y) /\ Len(x) \in Nat
    BY <2>4, ConcatProperties, LenProperties
  <2>6. Len(upto[m]) # 0
    <3> HIDE DEF m, X
    <3> QED BY <2>4, <2>5
  <2> QED BY <2>6, EmptySeq
<1> HIDE DEF m
<1> QED BY <1>6, <1>7, <1>8

LEMMA HexPlain ==
    ASSUME NEW bytes \in Seq(Byte)
    PROVE  /\ print_hex(bytes) \in Seq(Char)
           /\ \A k \in 1 .. Len(print_hex(bytes)) : print_hex(bytes)[k] \notin Special
<1>1. PICK text : text = print_hex(bytes)
  OBVIOUS
<1>2. text \in Seq(HexDigits)
  BY <1>1, HexType
<1>3. \A c \in HexDigits : c \in Char /\ c \notin Special
  BY DEF HexDigits, Char, Special, Quote, Tab, Newline, Backslash
<1>4. \A k \in 1 .. Len(text) : text[k] \in HexDigits
  BY <1>2, ElementOfSeq
<1>5. text \in Seq(Char)
  BY <1>2, <1>3, <1>4
<1> QED BY <1>1, <1>3, <1>4, <1>5

LEMMA KeptType ==
    ASSUME NEW T, NEW s \in Seq(T), NEW S
    PROVE  Kept(s, S) \in Seq(T)
<1>1. PICK upto : IsKept(upto, s, S, T)
  BY KeptUnfolds
<1>2. upto \in [0 .. Len(s) -> Seq(T)] /\ Kept(s, S) = upto[Len(s)]
  BY <1>1 DEF IsKept
<1>3. Len(s) \in 0 .. Len(s)
  OBVIOUS
<1> DEFINE X == Seq(T)
<1> HIDE DEF X
<1>4. upto \in [0 .. Len(s) -> X]
  BY <1>2 DEF X
<1>5. upto[Len(s)] \in X
  BY <1>3, <1>4
<1> QED BY <1>2, <1>5 DEF X

LEMMA HexFieldText ==
    ASSUME NEW bytes \in Seq(Byte)
    PROVE  IsFieldText(print_hex(bytes))
<1>1. PICK text : text = print_hex(bytes)
  OBVIOUS
<1>2. text \in Seq(Char) /\ \A k \in 1 .. Len(text) : text[k] \notin Special
  BY <1>1, HexPlain
<1> QED BY <1>1, <1>2, PlainFieldText

LEMMA WordFieldText ==
    /\ IsFieldText(NullWord) /\ IsFieldText(<<Digits>>) /\ IsFieldText(<<ErrorWord>>)
    /\ IsFieldText(Quoted(<<Digits>>))
<1>1. IsFieldText(NullWord)
  <2>1. NullWord \in Seq(Char) /\ Len(NullWord) = 4
    BY DEF NullWord, Char
  <2>2. \A k \in 1 .. 4 : NullWord[k] \in {76, 78, 85}
    BY DEF NullWord
  <2>3. \A c \in {76, 78, 85} : c \notin Special
    BY DEF Special, Quote, Tab, Newline, Backslash
  <2> QED BY <2>1, <2>2, <2>3, PlainFieldText
<1>2. ASSUME NEW c \in {Digits, ErrorWord}
      PROVE  c \in Char /\ c \notin Special /\ IsFieldText(<<c>>)
  <2>1. c \in Char /\ c \notin Special
    BY DEF Special, Quote, Tab, Newline, Backslash, Digits, ErrorWord, Char
  <2>2. PICK text : text = <<c>>
    OBVIOUS
  <2>3. text \in Seq(Char) /\ \A k \in 1 .. Len(text) : text[k] \notin Special
    BY <2>1, <2>2
  <2> QED BY <2>1, <2>2, <2>3, PlainFieldText
<1>3. IsInside(<<Digits>>)
  <2>1. Digits \in Char /\ Digits \notin {Backslash, Quote}
    BY <1>2 DEF Special
  <2>2. <<Digits>> \in Seq(Char)
    BY <2>1
  <2>3. ASSUME NEW r, NEW n, Stands(r, {"enclosed"}, n)
        PROVE  Stands(ReadFrom(r, <<Digits>>), {"enclosed"}, n)
    <3>1. r \in Readers
      BY <2>3 DEF Stands
    <3>2. ReadFrom(r, <<Digits>>) = ReadByte(r, Digits)
      BY <2>1, <3>1, ReadOne
    <3> QED BY <2>1, <2>3, <3>2, EnclosedByte
  <2> QED BY <2>2, <2>3 DEF IsInside
<1> QED BY <1>1, <1>2, <1>3, QuotedFieldText

\* The zero of a bad DECIMAL is one field, whatever the buffer held before.
LEMMA DecimalFieldText ==
    ASSUME NEW def, NEW bytes, NEW leftover \in Seq(Byte)
    PROVE  IsFieldText(print_decimal(def, bytes, leftover))
<1>1. PICK rest : rest = IF def.digits > 0 THEN strip_space(leftover) ELSE << >>
  OBVIOUS
<1>2. rest \in Seq(Byte)
  <2>1. strip_space(leftover) \in Seq(Byte)
    BY KeptType DEF strip_space
  <2>2. << >> \in Seq(Byte)
    OBVIOUS
  <2> QED BY <1>1, <2>1, <2>2
<1>3. PICK text : text = <<48>> \o rest
  OBVIOUS
<1>4. text \in Seq(Byte)
  <2>1. 48 \in Byte
    BY DEF Byte
  <2> QED BY <1>2, <1>3, <2>1, Prepended
<1>5. \/ print_decimal(def, bytes, leftover) = Quoted(<<Digits>>)
      \/ print_decimal(def, bytes, leftover) = print_string(text)
  BY <1>1, <1>3 DEF print_decimal
<1> QED BY <1>4, <1>5, WordFieldText, StringFieldText

\* The quote behind a TEXT that is printed with -x.
LEMMA HexAndQuoteFieldText ==
    ASSUME NEW bytes \in Seq(Byte), bytes # << >>
    PROVE  IsFieldText(Append(print_hex(bytes), Quote))
<1>1. PICK text : text = print_hex(bytes)
  OBVIOUS
<1>2. /\ text \in Seq(Char) /\ text # << >>
      /\ \A k \in 1 .. Len(text) : text[k] \notin Special
  BY <1>1, HexPlain, HexType
<1>3. PICK q : q = <<Quote>>
  OBVIOUS
<1>4. Quote \in Char /\ q \in Seq(Char) /\ Quote \notin {Tab, Newline, Backslash}
  <2>1. Quote \in Char /\ Quote \notin {Tab, Newline, Backslash}
    BY SpecialDiffer DEF Special
  <2> QED BY <1>3, <2>1
<1>5. Append(text, Quote) = text \o q /\ text \o q \in Seq(Char)
  BY <1>2, <1>3, <1>4, AppendIsConcat, ConcatProperties
<1>6. ASSUME NEW r, NEW n, Stands(r, {"start"}, n)
      PROVE  Stands(ReadFrom(r, text \o q), {"start", "plain", "quote"}, n)
  <2>1. r \in Readers
    BY <1>6 DEF Stands
  <2>2. PICK x : x = ReadFrom(r, text)
    OBVIOUS
  <2>3. Stands(x, {"plain"}, n)
    BY <1>2, <1>6, <2>2, PlainRead
  <2>4. ReadFrom(r, text \o q) = ReadFrom(x, q)
    BY <1>2, <1>4, <2>1, <2>2, ReadConcat
  <2>5. x \in Readers /\ x.mode = "plain" /\ Stands(x, {"start", "plain"}, n)
    BY <2>3 DEF Stands
  <2>6. ReadFrom(x, q) = ReadByte(x, Quote)
    BY <1>3, <1>4, <2>5, ReadOne
  <2>7. Stands(ReadByte(x, Quote), {"plain"}, n)
    BY <1>4, <2>5, PlainByte
  <2> QED BY <2>4, <2>6, <2>7 DEF Stands
<1> QED BY <1>1, <1>5, <1>6 DEF IsFieldText

LEMMA ExternalFieldText ==
    ASSUME NEW f, FieldOK(f), ~ f.null, f.extern, ~ Spills(f)
    PROVE  IsFieldText(print_field_value_with_external(f))
<1>2. f.bytes \in Seq(Byte)
  BY DEF FieldOK, Texts
<1>3. CASE f.def.type = "TEXT" /\ ~ hex
  <2>1. print_field_value_with_external(f) = Quoted(print_string_raw(f.bytes))
    BY <1>3 DEF print_field_value_with_external
  <2>2. \A k \in DOMAIN f.bytes :
           ~ (f.bytes[k] = Backslash /\ (k = Len(f.bytes) \/ f.bytes[k + 1] = Quote))
    BY <1>3 DEF Spills
  <2>3. \A k \in 1 .. Len(f.bytes) : f.bytes[k] = Backslash =>
           k < Len(f.bytes) /\ f.bytes[k + 1] # Quote
    BY <1>2, <2>2
  <2>4. IsInside(print_string_raw(f.bytes))
    BY <1>2, <2>3, RawInside
  <2> QED BY <2>1, <2>4, QuotedFieldText
<1>4. CASE f.def.type = "TEXT" /\ hex
  <2>1. print_field_value_with_external(f) = Append(print_hex(f.bytes), Quote)
    BY <1>4 DEF print_field_value_with_external
  <2>2. f.bytes # << >>
    BY <1>4 DEF Spills
  <2> QED BY <1>2, <2>1, <2>2, HexAndQuoteFieldText
<1>5. CASE f.def.type # "TEXT"
  <2>1. \/ print_field_value_with_external(f) = print_hex(f.bytes)
        \/ print_field_value_with_external(f) = <<ErrorWord>>
    BY <1>5 DEF print_field_value_with_external
  <2> QED BY <1>2, <2>1, HexFieldText, WordFieldText
<1> QED BY <1>3, <1>4, <1>5

LEMMA InlineFieldText ==
    ASSUME NEW f, FieldOK(f), NEW leftover \in Seq(Byte)
    PROVE  IsFieldText(print_field_value(f, leftover))
<1>1. f.def.type # "FLOAT" => f.bytes \in Seq(Byte)
  BY DEF FieldOK
<1>2. CASE f.def.type \in {"INTERNAL", "BIN", "BLOB"}
  <2>1. print_field_value(f, leftover) = print_hex(f.bytes)
    BY <1>2 DEF print_field_value, Temporals
  <2> QED BY <1>1, <1>2, <2>1, HexFieldText
<1>3. CASE f.def.type \in {"CHAR", "TEXT"}
  <2>1. \/ print_field_value(f, leftover) = print_hex(f.bytes)
        \/ print_field_value(f, leftover) = print_string(f.bytes)
    BY <1>3 DEF print_field_value, Temporals
  <2> QED BY <1>1, <1>3, <2>1, HexFieldText, StringFieldText
<1>4. CASE f.def.type = "DECIMAL"
  <2>1. print_field_value(f, leftover) = print_decimal(f.def, f.bytes, leftover)
    BY <1>4 DEF print_field_value, Temporals
  <2> QED BY <2>1, DecimalFieldText
<1>5. CASE f.def.type \notin {"INTERNAL", "BIN", "BLOB", "CHAR", "TEXT", "DECIMAL"}
  <2>1. \/ print_field_value(f, leftover) = Quoted(<<Digits>>)
        \/ print_field_value(f, leftover) = <<Digits>>
    <3>1. CASE f.def.type \in Temporals
      BY <1>5, <3>1 DEF print_field_value
    <3>2. CASE f.def.type \notin Temporals
      BY <1>5, <3>2 DEF print_field_value
    <3> QED BY <3>1, <3>2
  <2> QED BY <2>1, WordFieldText
<1> QED BY <1>2, <1>3, <1>4, <1>5

\* Every text of a row that is Readable is one field.
LEMMA FieldTextRead ==
    ASSUME NEW f, FieldOK(f), ~ Spills(f), NEW leftover \in Seq(Byte)
    PROVE  IsFieldText(FieldText(f, leftover))
<1>1. f.null \in BOOLEAN /\ f.extern \in BOOLEAN
  BY DEF FieldOK
<1>2. CASE f.null
  <2>1. FieldText(f, leftover) = NullWord
    BY <1>2 DEF FieldText
  <2> QED BY <2>1, WordFieldText
<1>3. CASE ~ f.null /\ f.extern
  <2>1. FieldText(f, leftover) = print_field_value_with_external(f)
    BY <1>3 DEF FieldText
  <2> QED BY <1>3, <2>1, ExternalFieldText
<1>4. CASE ~ f.null /\ ~ f.extern
  <2>1. FieldText(f, leftover) = print_field_value(f, leftover)
    BY <1>4 DEF FieldText
  <2> QED BY <2>1, InlineFieldText
<1> QED BY <1>1, <1>2, <1>3, <1>4
-----------------------------------------------------------------------------
(* The name of the table, where the server begins to read                  *)

Tabless(s) == s \in Seq(Char) /\ \A k \in 1 .. Len(s) : s[k] # Tab

\* No tab of the text has the name before it.
Nameless(nm, text) ==
    /\ text \in Seq(Char)
    /\ \A t \in 1 .. Len(text) : text[t] = Tab /\ Len(nm) < t =>
          \E k \in 1 .. Len(nm) : text[(t - Len(nm)) - 1 + k] # nm[k]

\* The same of a text that may get another value.
Continues(nm, text) == Nameless(nm, text) /\ (text # << >> => text[Len(text)] = Tab)

\* The places of a text of two parts.
IsJoin(u, s, t) ==
    /\ u \in Seq(Char) /\ Len(s) \in Nat /\ Len(t) \in Nat
    /\ Len(u) = Len(s) + Len(t)
    /\ \A k \in 1 .. Len(s) : u[k] = s[k]
    /\ \A k \in 1 .. Len(t) : u[Len(s) + k] = t[k]

LEMMA Joined ==
    ASSUME NEW s \in Seq(Char), NEW t \in Seq(Char)
    PROVE  IsJoin(s \o t, s, t)
<1>1. /\ s \o t \in Seq(Char) /\ Len(s \o t) = Len(s) + Len(t)
      /\ \A k \in 1 .. Len(s) + Len(t) :
            (s \o t)[k] = IF k <= Len(s) THEN s[k] ELSE t[k - Len(s)]
  BY ConcatProperties
<1>2. Len(s) \in Nat /\ Len(t) \in Nat
  BY LenProperties
<1>3. ASSUME NEW k \in 1 .. Len(s) PROVE (s \o t)[k] = s[k]
  <2>1. k \in 1 .. Len(s) + Len(t) /\ k <= Len(s)
    BY <1>2
  <2> QED BY <1>1, <2>1
<1>4. ASSUME NEW k \in 1 .. Len(t) PROVE (s \o t)[Len(s) + k] = t[k]
  <2>1. Len(s) + k \in 1 .. Len(s) + Len(t) /\ ~ (Len(s) + k <= Len(s))
        /\ (Len(s) + k) - Len(s) = k
    BY <1>2
  <2> QED BY <1>1, <2>1
<1> QED BY <1>1, <1>2, <1>3, <1>4 DEF IsJoin

LEMMA SuffixAtEnd ==
    ASSUME NEW s \in Seq(Char), NEW t \in Seq(Char), Len(s) <= Len(t),
           \A k \in 1 .. Len(s) : t[(Len(t) - Len(s)) + k] = s[k]
    PROVE  IsSuffix(s, t)
<1> DEFINE m == Len(s)
           n == Len(t)
           p == Reverse(s)
           q == Reverse(t)
<1>1. m \in Nat /\ n \in Nat
  BY LenProperties
<1>2. p \in Seq(Char) /\ Len(p) = m /\ \A k \in 1 .. m : p[k] = s[(m - k) + 1]
  <2>1. \A k \in 1 .. m : s[(m - k) + 1] \in Char
    <3> SUFFICES ASSUME NEW k \in 1 .. m PROVE s[(m - k) + 1] \in Char
      OBVIOUS
    <3>1. (m - k) + 1 \in 1 .. m
      BY <1>1
    <3> QED BY <3>1, ElementOfSeq
  <2>2. p = [k \in 1 .. m |-> s[(m - k) + 1]]
    BY DEF Reverse
  <2>3. p \in [1 .. m -> Char]
    BY <2>1, <2>2
  <2> HIDE DEF p
  <2> QED BY <1>1, <2>2, <2>3, SequenceOfFunction
<1>3. q \in Seq(Char) /\ Len(q) = n /\ \A k \in 1 .. n : q[k] = t[(n - k) + 1]
  <2>1. \A k \in 1 .. n : t[(n - k) + 1] \in Char
    <3> SUFFICES ASSUME NEW k \in 1 .. n PROVE t[(n - k) + 1] \in Char
      OBVIOUS
    <3>1. (n - k) + 1 \in 1 .. n
      BY <1>1
    <3> QED BY <3>1, ElementOfSeq
  <2>2. q = [k \in 1 .. n |-> t[(n - k) + 1]]
    BY DEF Reverse
  <2>3. q \in [1 .. n -> Char]
    BY <2>1, <2>2
  <2> HIDE DEF q
  <2> QED BY <1>1, <2>2, <2>3, SequenceOfFunction
<1>4. ASSUME NEW k \in 1 .. m PROVE p[k] = q[k]
  <2>1. (m - k) + 1 \in 1 .. m /\ k \in 1 .. n
        /\ (n - m) + ((m - k) + 1) = (n - k) + 1
    BY <1>1
  <2> HIDE DEF p, q
  <2> QED BY <1>2, <1>3, <2>1
<1>5. SubSeq(p, 1, m) = p
  <2> HIDE DEF p, m
  <2> QED BY <1>2, SubSeqFull
<1>6. SubSeq(q, 1, m) = p
  <2> HIDE DEF p, q
  <2>1. \A k \in 1 .. m : q[k] \in Char
    <3> SUFFICES ASSUME NEW k \in 1 .. m PROVE q[k] \in Char
      OBVIOUS
    <3>1. k \in 1 .. Len(q)
      BY <1>1, <1>3
    <3> QED BY <1>3, <3>1, ElementOfSeq
  <2>2. PICK u : u = SubSeq(q, 1, m)
    OBVIOUS
  <2>3. /\ u \in Seq(Char) /\ Len(u) = (IF 1 <= m THEN m - 1 + 1 ELSE 0)
        /\ \A k \in 1 .. m - 1 + 1 : u[k] = q[1 + k - 1]
    BY <1>1, <2>1, <2>2, SubSeqProperties
  <2>4. Len(u) = m /\ \A k \in 1 .. m : u[k] = q[k]
    BY <1>1, <2>3
  <2>5. u = p
    BY <1>2, <1>4, <2>3, <2>4, SeqEqual
  <2> QED BY <2>2, <2>5
<1> HIDE DEF p, q
<1>7. IsPrefix(p, q)
  BY <1>2, <1>3, <1>5, <1>6 DEF IsPrefix
<1> QED BY <1>7 DEF IsSuffix, p, q

LEMMA TablessAdded ==
    ASSUME NEW nm, NEW u, NEW h, Nameless(nm, u), Tabless(nm), Tabless(h)
    PROVE  Nameless(nm, u \o h)
<1> DEFINE text == u \o h
           c == Len(nm)
<1>1. /\ u \in Seq(Char) /\ h \in Seq(Char) /\ nm \in Seq(Char) /\ c \in Nat
  BY LenProperties DEF Nameless, Tabless
<1>2. /\ text \in Seq(Char) /\ Len(u) \in Nat /\ Len(h) \in Nat
      /\ Len(text) = Len(u) + Len(h)
      /\ \A k \in 1 .. Len(u) : text[k] = u[k]
      /\ \A k \in 1 .. Len(h) : text[Len(u) + k] = h[k]
  <2>1. IsJoin(text, u, h)
    BY <1>1, Joined
  <2> HIDE DEF text
  <2> QED BY <2>1 DEF IsJoin
<1> HIDE DEF text, c
<1>3. ASSUME NEW t \in 1 .. Len(text), text[t] = Tab, c < t
      PROVE  \E k \in 1 .. c : text[(t - c) - 1 + k] # nm[k]
  <2>1. t \in 1 .. Len(u)
    <3> SUFFICES ASSUME t > Len(u) PROVE FALSE
      BY <1>2
    <3>1. t - Len(u) \in 1 .. Len(h) /\ Len(u) + (t - Len(u)) = t
      BY <1>2
    <3>2. h[t - Len(u)] = Tab
      BY <1>2, <1>3, <3>1
    <3> QED BY <3>1, <3>2 DEF Tabless
  <2>2. u[t] = Tab
    BY <1>2, <1>3, <2>1
  <2>3. PICK k \in 1 .. c : u[(t - c) - 1 + k] # nm[k]
    BY <1>3, <2>1, <2>2 DEF Nameless, c
  <2>4. (t - c) - 1 + k \in 1 .. Len(u)
    BY <1>1, <1>2, <1>3, <2>1
  <2>5. text[(t - c) - 1 + k] = u[(t - c) - 1 + k]
    BY <1>2, <2>4
  <2> QED BY <2>3, <2>5
<1> QED BY <1>2, <1>3 DEF Nameless, text, c

\* A value and the tab behind it, if the name is not the end of the value.
LEMMA ValueAdded ==
    ASSUME NEW nm, NEW u, NEW h, Continues(nm, u), Tabless(nm), Tabless(h), ~ IsSuffix(nm, h)
    PROVE  Continues(nm, u \o (h \o <<Tab>>))
<1> DEFINE v == u \o h
           text == v \o <<Tab>>
           c == Len(nm)
<1>1. /\ u \in Seq(Char) /\ h \in Seq(Char) /\ nm \in Seq(Char) /\ c \in Nat
      /\ <<Tab>> \in Seq(Char) /\ Len(<<Tab>>) = 1
  <2>1. Tab \in Char
    BY SpecialDiffer DEF Special
  <2> QED BY <2>1, LenProperties DEF Continues, Nameless, Tabless
<1>2. /\ v \in Seq(Char) /\ Len(u) \in Nat /\ Len(h) \in Nat
      /\ Len(v) = Len(u) + Len(h)
      /\ \A k \in 1 .. Len(u) : v[k] = u[k]
      /\ \A k \in 1 .. Len(h) : v[Len(u) + k] = h[k]
  <2>1. IsJoin(v, u, h)
    BY <1>1, Joined
  <2> HIDE DEF v
  <2> QED BY <2>1 DEF IsJoin
<1>3. Nameless(nm, v)
  BY TablessAdded DEF Continues
<1>4. u \o (h \o <<Tab>>) = text
  BY <1>1, ConcatAssociative
<1> HIDE DEF v
<1>5. /\ text \in Seq(Char) /\ Len(text) = Len(v) + 1
      /\ \A k \in 1 .. Len(v) : text[k] = v[k]
      /\ text[Len(v) + 1] = Tab
  <2>1. /\ text \in Seq(Char) /\ Len(text) = Len(v) + Len(<<Tab>>)
        /\ \A k \in 1 .. Len(v) : text[k] = v[k]
        /\ \A k \in 1 .. Len(<<Tab>>) : text[Len(v) + k] = <<Tab>>[k]
    <3>1. PICK w : w = <<Tab>>
      OBVIOUS
    <3>2. w \in Seq(Char)
      BY <1>1, <3>1
    <3>3. IsJoin(v \o w, v, w)
      BY <1>2, <3>2, Joined
    <3> QED BY <3>1, <3>3 DEF IsJoin
  <2>2. 1 \in 1 .. Len(<<Tab>>) /\ <<Tab>>[1] = Tab
    BY <1>1
  <2> HIDE DEF text
  <2> QED BY <1>1, <2>1, <2>2
<1> HIDE DEF text, c
<1>6. ASSUME NEW t \in 1 .. Len(text), text[t] = Tab, c < t
      PROVE  \E k \in 1 .. c : text[(t - c) - 1 + k] # nm[k]
  <2>1. CASE t <= Len(v)
    <3>1. t \in 1 .. Len(v) /\ v[t] = Tab
      BY <1>2, <1>5, <1>6, <2>1
    <3>2. PICK k \in 1 .. c : v[(t - c) - 1 + k] # nm[k]
      BY <1>3, <1>6, <3>1 DEF Nameless, c
    <3>3. (t - c) - 1 + k \in 1 .. Len(v)
      BY <1>1, <1>2, <1>6, <3>1
    <3> QED BY <1>5, <3>2, <3>3
  <2>2. CASE t > Len(v)
    <3>1. t = Len(v) + 1
      BY <1>2, <1>5, <2>2
    <3> SUFFICES ASSUME \A k \in 1 .. c : text[(t - c) - 1 + k] = nm[k] PROVE FALSE
      OBVIOUS
    <3>2. \A k \in 1 .. c : v[(Len(v) - c) + k] = nm[k]
      <4> SUFFICES ASSUME NEW k \in 1 .. c PROVE v[(Len(v) - c) + k] = nm[k]
        OBVIOUS
      <4>1. (t - c) - 1 + k = (Len(v) - c) + k /\ (Len(v) - c) + k \in 1 .. Len(v)
        BY <1>1, <1>2, <1>6, <3>1
      <4> QED BY <1>5, <4>1
    <3>3. CASE c <= Len(h)
      <4>1. \A k \in 1 .. c : h[(Len(h) - c) + k] = nm[k]
        <5> SUFFICES ASSUME NEW k \in 1 .. c PROVE h[(Len(h) - c) + k] = nm[k]
          OBVIOUS
        <5>1. (Len(h) - c) + k \in 1 .. Len(h)
              /\ Len(u) + ((Len(h) - c) + k) = (Len(v) - c) + k
          BY <1>1, <1>2, <3>3
        <5> QED BY <1>2, <3>2, <5>1
      <4>2. IsSuffix(nm, h)
        BY <1>1, <3>3, <4>1, SuffixAtEnd DEF c
      <4> QED BY <4>2
    <3>4. CASE c > Len(h)
      \* the name would go over the tab before the value
      <4>1. u # << >> /\ Len(u) \in 1 .. Len(u)
        <5>1. Len(u) > 0
          BY <1>1, <1>2, <1>6, <3>1, <3>4
        <5> QED BY <1>2, <5>1
      <4>2. v[Len(u)] = Tab
        BY <1>2, <4>1 DEF Continues
      <4>3. c - Len(h) \in 1 .. c /\ (Len(v) - c) + (c - Len(h)) = Len(u)
        BY <1>1, <1>2, <3>4
      <4>4. nm[c - Len(h)] = Tab
        BY <3>2, <4>2, <4>3
      <4> QED BY <4>3, <4>4 DEF Tabless, c
    <3> QED BY <1>1, <1>2, <3>3, <3>4
  <2> QED BY <1>2, <2>1, <2>2
<1>7. text[Len(text)] = Tab
  BY <1>5
<1>8. Nameless(nm, text)
  BY <1>5, <1>6 DEF Nameless, c
<1> QED BY <1>4, <1>7, <1>8 DEF Continues

IsExcerpt(u, s, m, n) ==
    /\ u \in Seq(Char) /\ Len(u) = (n - m) + 1
    /\ \A k \in 1 .. (n - m) + 1 : u[k] = s[(m + k) - 1]

LEMMA PartOfText ==
    ASSUME NEW s \in Seq(Char), NEW m \in Nat, NEW n \in Nat,
           1 <= m, n <= Len(s), m <= n + 1
    PROVE  IsExcerpt(SubSeq(s, m, n), s, m, n)
<1>1. \A k \in m .. n : s[k] \in Char
  <2> SUFFICES ASSUME NEW k \in m .. n PROVE s[k] \in Char
    OBVIOUS
  <2>1. k \in 1 .. Len(s)
    BY LenProperties
  <2> QED BY <2>1, ElementOfSeq
<1>2. PICK u : u = SubSeq(s, m, n)
  OBVIOUS
<1>3. /\ u \in Seq(Char) /\ Len(u) = (IF m <= n THEN n - m + 1 ELSE 0)
      /\ \A k \in 1 .. n - m + 1 : u[k] = s[m + k - 1]
  BY <1>1, <1>2, SubSeqProperties
<1>4. Len(u) = (n - m) + 1
  BY <1>3
<1> QED BY <1>2, <1>3, <1>4 DEF IsExcerpt

\* The server finds the name where the program has written it, and reads what
\* comes behind the tab.
IsLine(text, nm, before, behind) ==
    /\ Nameless(nm, before) /\ Tabless(nm) /\ behind \in Seq(Char)
    /\ text = (before \o (nm \o <<Tab>>)) \o behind

LEMMA NameFound ==
    ASSUME NEW text, NEW nm, NEW before, NEW behind, IsLine(text, nm, before, behind)
    PROVE  Read(text, nm \o <<Tab>>) = AtEnd(ReadFrom(Reader, behind))
<1>1. PICK start : start = nm \o <<Tab>>
  OBVIOUS
<1>2. PICK c, p : c = Len(nm) /\ p = Len(before) + 1
  OBVIOUS
<1>3. /\ nm \in Seq(Char) /\ before \in Seq(Char) /\ behind \in Seq(Char)
      /\ c \in Nat /\ p \in Nat /\ p = Len(before) + 1 /\ Len(before) \in Nat
  BY <1>2, LenProperties DEF IsLine, Nameless, Tabless
<1>4. /\ start \in Seq(Char) /\ Len(start) = c + 1
      /\ \A k \in 1 .. c : start[k] = nm[k]
      /\ start[c + 1] = Tab
  <2>1. PICK w : w = <<Tab>>
    OBVIOUS
  <2>2. w \in Seq(Char) /\ Len(w) = 1 /\ w[1] = Tab /\ 1 \in 1 .. Len(w)
    <3>1. Tab \in Char
      BY SpecialDiffer DEF Special
    <3> QED BY <2>1, <3>1
  <2>3. IsJoin(start, nm, w)
    BY <1>1, <1>3, <2>1, <2>2, Joined
  <2> QED BY <1>2, <2>2, <2>3 DEF IsJoin
<1>5. PICK u : u = before \o start
  OBVIOUS
<1>6. /\ u \in Seq(Char) /\ Len(u) = Len(before) + (c + 1)
      /\ \A k \in 1 .. Len(before) : u[k] = before[k]
      /\ \A k \in 1 .. c + 1 : u[Len(before) + k] = start[k]
  <2>1. IsJoin(u, before, start)
    BY <1>3, <1>4, <1>5, Joined
  <2> QED BY <1>4, <2>1 DEF IsJoin
<1>7. text = u \o behind
  BY <1>1, <1>5 DEF IsLine
<1>8. /\ text \in Seq(Char) /\ Len(behind) \in Nat
      /\ Len(text) = Len(u) + Len(behind)
      /\ \A k \in 1 .. Len(u) : text[k] = u[k]
      /\ \A k \in 1 .. Len(behind) : text[Len(u) + k] = behind[k]
  <2>1. IsJoin(text, u, behind)
    BY <1>3, <1>6, <1>7, Joined
  <2> QED BY <2>1 DEF IsJoin
<1>9. Len(u) = p + c
  BY <1>3, <1>6
<1>10. ASSUME NEW k \in 1 .. c + 1 PROVE text[(p + k) - 1] = start[k]
  <2>1. (p + k) - 1 = Len(before) + k /\ Len(before) + k \in 1 .. Len(u)
    BY <1>3, <1>6
  <2> QED BY <1>6, <1>8, <2>1
<1> DEFINE matches == {k \in 1 .. Len(text) - Len(start) + 1 :
                          SubSeq(text, k, k + Len(start) - 1) = start}
<1>11. p \in matches
  <2>1. p \in 1 .. Len(text) - Len(start) + 1 /\ p + Len(start) - 1 = p + c
    BY <1>3, <1>4, <1>8, <1>9
  <2>2. PICK v : v = SubSeq(text, p, p + c)
    OBVIOUS
  <2>3. /\ v \in Seq(Char) /\ Len(v) = ((p + c) - p) + 1
        /\ \A k \in 1 .. ((p + c) - p) + 1 : v[k] = text[(p + k) - 1]
    <3>1. p + c \in Nat /\ 1 <= p /\ p + c <= Len(text) /\ p <= (p + c) + 1
      BY <1>3, <1>8, <1>9
    <3>2. IsExcerpt(v, text, p, p + c)
      BY <1>3, <1>8, <2>2, <3>1, PartOfText
    <3> QED BY <3>2 DEF IsExcerpt
  <2>4. ((p + c) - p) + 1 = c + 1
    BY <1>3
  <2>5. Len(v) = Len(start) /\ \A k \in 1 .. Len(v) : v[k] = start[k]
    BY <1>4, <1>10, <2>3, <2>4
  <2>6. v = start
    BY <1>4, <2>3, <2>5, SeqEqual
  <2> QED BY <2>1, <2>2, <2>6
<1>12. ASSUME NEW k \in matches PROVE p <= k
  <2> SUFFICES ASSUME k < p PROVE FALSE
    BY <1>3
  <2>1. k \in 1 .. Len(text) - Len(start) + 1 /\ k + Len(start) - 1 = k + c
        /\ SubSeq(text, k, k + c) = start
    <3>1. k \in 1 .. Len(text) - Len(start) + 1
          /\ SubSeq(text, k, k + Len(start) - 1) = start
      OBVIOUS
    <3>2. k + Len(start) - 1 = k + c
      BY <1>3, <1>4, <3>1
    <3> QED BY <3>1, <3>2
  <2> HIDE DEF matches
  <2>2. k \in Nat /\ 1 <= k /\ k + c \in Nat /\ k + c <= Len(text) /\ k <= (k + c) + 1
        /\ ((k + c) - k) + 1 = c + 1
    BY <1>3, <1>4, <1>8, <1>9, <2>1
  <2>3. \A j \in 1 .. ((k + c) - k) + 1 : start[j] = text[(k + j) - 1]
    <3>1. IsExcerpt(start, text, k, k + c)
      BY <1>8, <2>1, <2>2, PartOfText
    <3> QED BY <3>1 DEF IsExcerpt
  <2>4. \A j \in 1 .. c + 1 : start[j] = text[(k + j) - 1]
    BY <2>2, <2>3
  <2>5. text[k + c] = Tab
    <3>1. c + 1 \in 1 .. c + 1 /\ (k + (c + 1)) - 1 = k + c
      BY <1>3, <2>2
    <3> QED BY <1>4, <2>4, <3>1
  <2>6. CASE k + c <= Len(before)
    <3>1. k + c \in 1 .. Len(before) /\ k + c \in 1 .. Len(u)
      BY <1>3, <1>6, <2>2, <2>6
    <3>2. before[k + c] = Tab
      BY <1>6, <1>8, <2>5, <3>1
    <3>3. c < k + c
      BY <1>3, <2>2
    <3>4. PICK j \in 1 .. c : before[((k + c) - c) - 1 + j] # nm[j]
      BY <1>2, <3>1, <3>2, <3>3 DEF IsLine, Nameless
    <3>5. /\ ((k + c) - c) - 1 + j = (k + j) - 1
          /\ (k + j) - 1 \in 1 .. Len(before) /\ (k + j) - 1 \in 1 .. Len(u)
          /\ j \in 1 .. c + 1
      BY <1>3, <1>6, <2>2, <2>6
    <3> QED BY <1>4, <1>6, <1>8, <2>4, <3>4, <3>5
  <2>7. CASE k + c > Len(before)
    \* the tab is in the name
    <3>1. PICK j : j = (k + c) - Len(before)
      OBVIOUS
    <3>2. j \in 1 .. c /\ j \in 1 .. c + 1 /\ Len(before) + j = k + c /\ k + c \in 1 .. Len(u)
      BY <1>3, <1>6, <1>9, <2>2, <2>7, <3>1
    <3>3. nm[j] = Tab
      BY SMTT(40), <1>4, <1>6, <1>8, <2>5, <3>2
    <3> QED BY <1>2, <3>2, <3>3 DEF IsLine, Tabless
  <2> QED BY <1>3, <2>2, <2>6, <2>7
<1>13. Min(matches) = p
  <2>1. \A k \in matches : k \in Nat
    OBVIOUS
  <2> HIDE DEF matches
  <2>2. \A k \in matches : (\A j \in matches : k <= j) => k = p
    BY <1>3, <1>11, <1>12, <2>1
  <2>3. \E k \in matches : \A j \in matches : k <= j
    BY <1>11, <1>12
  <2> QED BY <2>2, <2>3 DEF Min
<1>14. SubSeq(text, p + Len(start), Len(text)) = behind
  <2>1. PICK v : v = SubSeq(text, p + Len(start), Len(text))
    OBVIOUS
  <2>2. PICK m : m = p + Len(start)
    OBVIOUS
  <2>3. /\ m \in Nat /\ Len(text) \in Nat /\ 1 <= m /\ Len(text) <= Len(text)
        /\ m <= Len(text) + 1 /\ (Len(text) - m) + 1 = Len(behind) /\ m = Len(u) + 1
    BY <1>3, <1>4, <1>8, <1>9, <2>2
  <2>4. /\ v \in Seq(Char) /\ Len(v) = (Len(text) - m) + 1
        /\ \A k \in 1 .. (Len(text) - m) + 1 : v[k] = text[(m + k) - 1]
    <3>1. IsExcerpt(v, text, m, Len(text))
      BY <1>8, <2>1, <2>2, <2>3, PartOfText
    <3> QED BY <3>1 DEF IsExcerpt
  <2>5. \A k \in 1 .. Len(behind) : v[k] = behind[k]
    <3> SUFFICES ASSUME NEW k \in 1 .. Len(behind) PROVE v[k] = behind[k]
      OBVIOUS
    <3>1. (m + k) - 1 = Len(u) + k
      BY <1>3, <1>9, <2>3
    <3> QED BY <1>8, <2>3, <2>4, <3>1
  <2>6. v = behind
    BY <1>3, <2>3, <2>4, <2>5, SeqEqual
  <2> QED BY <2>1, <2>6
<1>15. Read(text, start) = AtEnd(ReadFrom(Reader, behind))
  <2>1. matches # {}
    BY <1>11
  <2>2. Read(text, start) =
           AtEnd(ReadFrom(Reader, SubSeq(text, Min(matches) + Len(start), Len(text))))
    BY <2>1 DEF Read
  <2> HIDE DEF matches
  <2> QED BY <1>13, <1>14, <2>2
<1> QED BY <1>1, <1>15
-----------------------------------------------------------------------------
(* The line                                                                *)

\* A text that takes the reader from the start of a field into one of these
\* modes, d fields later.
IsMore(more, modes, d) ==
    /\ more \in Seq(Char)
    /\ \A r, n : Stands(r, {"start"}, n) => Stands(ReadFrom(r, more), modes, n + d)

LEMMA FieldEnded ==
    ASSUME NEW text, IsFieldText(text)
    PROVE  IsMore(text \o <<Tab>>, {"start"}, 1) /\ IsMore(text \o <<Newline>>, {"end"}, 1)
<1>1. text \in Seq(Char)
  BY DEF IsFieldText
<1>2. ASSUME NEW c \in {Tab, Newline}, NEW modes,
             \A x, n : Stands(x, {"start", "plain", "quote"}, n) =>
                Stands(ReadByte(x, c), modes, n + 1)
      PROVE  IsMore(text \o <<c>>, modes, 1)
  <2>1. PICK q : q = <<c>>
    OBVIOUS
  <2>2. c \in Char /\ q \in Seq(Char)
    <3>1. c \in Char
      BY <1>2, SpecialDiffer DEF Special
    <3> QED BY <2>1, <3>1
  <2>3. text \o q \in Seq(Char)
    BY <1>1, <2>2, ConcatProperties
  <2>4. ASSUME NEW r, NEW n, Stands(r, {"start"}, n)
        PROVE  Stands(ReadFrom(r, text \o q), modes, n + 1)
    <3>1. r \in Readers
      BY <2>4 DEF Stands
    <3>2. PICK x : x = ReadFrom(r, text)
      OBVIOUS
    <3>3. Stands(x, {"start", "plain", "quote"}, n)
      BY <2>4, <3>2 DEF IsFieldText
    <3>4. ReadFrom(r, text \o q) = ReadFrom(x, q)
      BY <1>1, <2>2, <3>1, <3>2, ReadConcat
    <3>5. x \in Readers
      BY <3>3 DEF Stands
    <3>6. ReadFrom(x, q) = ReadByte(x, c)
      BY <2>1, <2>2, <3>5, ReadOne
    <3> QED BY <1>2, <3>3, <3>4, <3>6
  <2> QED BY <2>1, <2>3, <2>4 DEF IsMore
<1>3. \A x, n : Stands(x, {"start", "plain", "quote"}, n) =>
         Stands(ReadByte(x, Tab), {"start"}, n + 1) /\ Stands(ReadByte(x, Newline), {"end"}, n + 1)
  BY Separated
<1> QED BY <1>2, <1>3

LEMMA RowEnded == IsMore(<<Newline>>, {"end"}, 1)
<1>1. PICK e : e = << >>
  OBVIOUS
<1>2. e \in Seq(Char) /\ \A k \in 1 .. Len(e) : e[k] \notin Special
  BY <1>1
<1>3. IsFieldText(e)
  BY <1>2, PlainFieldText
<1>4. IsMore(e \o <<Newline>>, {"end"}, 1)
  BY <1>3, FieldEnded
<1>5. e \o <<Newline>> = <<Newline>>
  <2>1. <<Newline>> \in Seq(Char)
    <3>1. Newline \in Char
      BY SpecialDiffer DEF Special
    <3> QED BY <3>1
  <2> QED BY <1>1, <2>1, ConcatEmptySeq
<1> QED BY <1>4, <1>5

\* The line has the name once, and behind it so many fields.
IsWritten(text, nm, before, behind, modes, n) ==
    IsLine(text, nm, before, behind) /\ Stands(ReadFrom(Reader, behind), modes, n)

LEMMA ReaderStands == Reader \in Readers /\ Stands(Reader, {"start"}, 0)
<1>1. << >> \in Seq(Char) /\ << >> \in Seq(FieldsRead) /\ Len(<< >>) = 0
  OBVIOUS
<1> QED BY <1>1 DEF Stands, Reader, Readers, Modes

LEMMA HeadEnded ==
    ASSUME NEW nm, NEW before, Nameless(nm, before), Tabless(nm)
    PROVE  IsWritten(before \o (nm \o <<Tab>>), nm, before, << >>, {"start"}, 0)
<1>1. PICK e, w, t : e = << >> /\ w = <<Tab>> /\ t = before \o (nm \o w)
  OBVIOUS
<1>2. e \in Seq(Char) /\ w \in Seq(Char)
  <2>1. Tab \in Char
    BY SpecialDiffer DEF Special
  <2> QED BY <1>1, <2>1
<1>3. nm \o w \in Seq(Char) /\ before \in Seq(Char)
  BY <1>2, ConcatProperties DEF Nameless, Tabless
<1>4. t \in Seq(Char)
  BY <1>1, <1>3, ConcatProperties
<1>5. t = t \o e
  BY <1>1, <1>4, ConcatEmptySeq
<1>6. IsLine(t, nm, before, e)
  BY <1>1, <1>2, <1>5 DEF IsLine
<1>7. ReadFrom(Reader, e) = Reader
  <2>1. Tab \in Char
    BY SpecialDiffer DEF Special
  <2> QED BY <1>1, <2>1, ReaderStands, ReadOne
<1> QED BY <1>1, <1>6, <1>7, ReaderStands DEF IsWritten

LEMMA LineContinued ==
    ASSUME NEW text, NEW nm, NEW before, NEW behind, NEW n, NEW more, NEW modes, NEW d,
           IsWritten(text, nm, before, behind, {"start"}, n), IsMore(more, modes, d)
    PROVE  IsWritten(text \o more, nm, before, behind \o more, modes, n + d)
<1>1. PICK u : u = before \o (nm \o <<Tab>>)
  OBVIOUS
<1>2. /\ more \in Seq(Char) /\ behind \in Seq(Char) /\ text = u \o behind
      /\ before \in Seq(Char) /\ nm \in Seq(Char)
  BY <1>1 DEF IsWritten, IsLine, IsMore, Nameless, Tabless
<1>3. u \in Seq(Char)
  <2>1. PICK w : w = <<Tab>>
    OBVIOUS
  <2>2. w \in Seq(Char)
    <3>1. Tab \in Char
      BY SpecialDiffer DEF Special
    <3> QED BY <2>1, <3>1
  <2>3. nm \o w \in Seq(Char)
    BY <1>2, <2>2, ConcatProperties
  <2> QED BY <1>1, <1>2, <2>1, <2>3, ConcatProperties
<1>4. text \o more = u \o (behind \o more) /\ behind \o more \in Seq(Char)
  BY SMTT(40), <1>2, <1>3, ConcatAssociative, ConcatProperties
<1>5. IsLine(text \o more, nm, before, behind \o more)
  BY <1>1, <1>4 DEF IsWritten, IsLine
<1>6. ReadFrom(Reader, behind \o more) = ReadFrom(ReadFrom(Reader, behind), more)
  BY <1>2, ReaderStands, ReadConcat
<1>7. Stands(ReadFrom(ReadFrom(Reader, behind), more), modes, n + d)
  BY DEF IsWritten, IsMore
<1> QED BY <1>5, <1>6, <1>7 DEF IsWritten

LEMMA FieldsOfLine ==
    ASSUME NEW text, NEW nm, NEW before, NEW behind, NEW n,
           IsWritten(text, nm, before, behind, {"end"}, n)
    PROVE  Len(Read(text, nm \o <<Tab>>)) = n
<1>1. Read(text, nm \o <<Tab>>) = AtEnd(ReadFrom(Reader, behind))
  BY NameFound DEF IsWritten
<1>2. PICK r : r = ReadFrom(Reader, behind)
  OBVIOUS
<1>3. r.mode = "end" /\ Len(r.fields) = n
  BY <1>2 DEF IsWritten, Stands
<1> QED BY <1>1, <1>2, <1>3 DEF AtEnd

ColumnPlaces == {k \in DOMAIN row : ~ Internal(row[k])}

(***************************************************************************)
(* The strengthened invariant, for rows that are Readable: no value of the *)
(* first loop shows the name before the tab behind it, so that the server  *)
(* begins behind the name; and the second loop has written one field for   *)
(* each column of the definition that it has passed.                       *)
(***************************************************************************)
WrittenSoFar ==
    /\ pc = "check" => line = << >>
    /\ pc = "internal" => Continues(name, line)
    /\ pc = "fields" => \E upto, before, behind :
          /\ IsKept(upto, row, ColumnPlaces, Range(row))
          /\ IsWritten(line, name, before, behind, {"start"}, Len(upto[i - 1]))
    /\ pc \in {"file", "loaded"} => \E before, behind :
          IsWritten(line, name, before, behind, {"end"},
                    Len(Columns) + (IF Internal(row[Len(row)]) THEN 1 ELSE 0))

Written == name \in TableNames /\ (Readable => WrittenSoFar)

LEMMA InitWritten == Init => Written
BY DEF Init, Written, WrittenSoFar

LEMMA NamesAreTexts ==
    ASSUME name \in TableNames, Readable
    PROVE  Tabless(name)
<1>1. name \in Seq(Byte)
  BY RowAssumption
<1>2. \A b \in Byte : b \in Char
  BY DEF Byte, Char
<1>3. \A k \in 1 .. Len(name) : name[k] \in Byte
  BY <1>1, ElementOfSeq
<1>4. name \in Seq(Char) /\ DOMAIN name = 1 .. Len(name)
  BY <1>1, <1>2, <1>3
<1> QED BY <1>4 DEF Readable, Tabless

\* An internal value is printed in hexadecimal.
LEMMA InternalText ==
    ASSUME NEW f, FieldOK(f), Internal(f)
    PROVE  print_field_value(f, << >>) = print_hex(f.bytes) /\ Tabless(print_hex(f.bytes))
<1>1. f.def.type = "INTERNAL"
  BY DEF Internal
<1>2. f.bytes \in Seq(Byte)
  BY <1>1 DEF FieldOK
<1>3. print_field_value(f, << >>) = print_hex(f.bytes)
  BY <1>1 DEF print_field_value, Temporals
<1>4. PICK text : text = print_hex(f.bytes)
  OBVIOUS
<1>5. text \in Seq(Char) /\ \A k \in 1 .. Len(text) : text[k] \notin Special
  BY <1>2, <1>4, HexPlain
<1> QED BY <1>3, <1>4, <1>5 DEF Tabless, Special

LEMMA EmptyEnds ==
    ASSUME NEW s \in Seq(Char)
    PROVE  s \o << >> = s /\ << >> \o s = s
BY ConcatEmptySeq

LEMMA PrintInternalWritten ==
    ASSUME Compared, name \in TableNames, Readable, Continues(name, line), PrintInternal
    PROVE  /\ pc' = "internal" => Continues(name, line')
           /\ pc' = "fields" => i' = 1 /\ \E before :
                 IsWritten(line', name, before, << >>, {"start"}, 0)
<1>1. row \in Rows /\ i \in 1 .. Len(row) /\ Len(row) \in Nat
  BY RowFields DEF Compared
<1>2. PICK f : f = row[i]
  OBVIOUS
<1>3. FieldOK(f)
  BY <1>1, <1>2, RowFields
<1>4. Tabless(name) /\ line \in Seq(Char) /\ Nameless(name, line)
  BY NamesAreTexts DEF Continues, Nameless
<1>5. PICK last : last = name \o <<Tab>>
  OBVIOUS
<1>6. PICK h : h = print_hex(f.bytes)
  OBVIOUS
<1>7. /\ Internal(f) => print_field_value(f, << >>) = h /\ Tabless(h)
      /\ Tabless(h) => h \in Seq(Char)
  BY <1>3, <1>6, InternalText DEF Tabless
<1>8. line' = line \o (IF Internal(f) THEN print_field_value(f, << >>) \o Separator ELSE << >>)
                   \o (IF i = Len(row) THEN last ELSE << >>)
  BY <1>2, <1>5 DEF PrintInternal
<1>9. pc = "internal" /\ Advance("fields")
  BY DEF PrintInternal
<1>10. PICK e, w : e = << >> /\ w = <<Tab>>
  OBVIOUS
<1>11. e \in Seq(Char) /\ w \in Seq(Char)
  <2>1. Tab \in Char
    BY SpecialDiffer DEF Special
  <2> QED BY <1>10, <2>1
<1>12. CASE i < Len(row)
  <2>1. pc' = "internal" /\ i # Len(row) /\ Separator = w
    BY <1>1, <1>9, <1>10, <1>12 DEF Advance, Separator
  <2>2. CASE Internal(f)
    <3>1. line' = (line \o (h \o w)) \o e
      BY <1>7, <1>8, <1>10, <2>1, <2>2
    <3>2. h \o w \in Seq(Char)
      BY <1>7, <1>11, <2>2, ConcatProperties
    <3>3. line \o (h \o w) \in Seq(Char)
      BY <1>4, <3>2, ConcatProperties
    <3>4. line' = line \o (h \o w)
      BY <1>10, <3>1, <3>3, EmptyEnds
    <3>5. ~ IsSuffix(name, h)
      <4>1. i \in 1 .. Len(row) - 1
        BY <1>1, <1>12
      <4> QED BY <1>2, <1>6, <2>2, <4>1 DEF Readable, StartsTooEarly
    <3>6. Continues(name, line \o (h \o w))
      BY <1>4, <1>7, <1>10, <2>2, <3>5, ValueAdded
    <3> QED BY <2>1, <3>4, <3>6
  <2>3. CASE ~ Internal(f)
    <3>1. line' = (line \o e) \o e
      BY <1>8, <1>10, <2>1, <2>3
    <3>2. line' = line
      BY <1>4, <1>10, <3>1, EmptyEnds
    <3> QED BY <2>1, <3>2
  <2> QED BY <2>2, <2>3
<1>13. CASE ~ (i < Len(row))
  <2>1. pc' = "fields" /\ i' = 1 /\ i = Len(row) /\ Separator = e
    BY <1>1, <1>9, <1>10, <1>13 DEF Advance, Separator
  <2>2. CASE Internal(f)
    <3>1. line' = (line \o (h \o e)) \o last
      BY <1>7, <1>8, <1>10, <2>1, <2>2
    <3>2. h \o e = h
      BY <1>7, <1>10, <2>2, EmptyEnds
    <3>3. Nameless(name, line \o h)
      BY <1>4, <1>7, <2>2, TablessAdded
    <3>4. IsWritten((line \o h) \o last, name, line \o h, << >>, {"start"}, 0)
      BY <1>4, <1>5, <3>3, HeadEnded
    <3> QED BY <2>1, <3>1, <3>2, <3>4
  <2>3. CASE ~ Internal(f)
    <3>1. line' = (line \o e) \o last
      BY <1>8, <1>10, <2>1, <2>3
    <3>2. line' = line \o last
      BY <1>4, <1>10, <3>1, EmptyEnds
    <3>3. IsWritten(line \o last, name, line, << >>, {"start"}, 0)
      BY <1>4, <1>5, HeadEnded
    <3> QED BY <2>1, <3>2, <3>3
  <2> QED BY <2>2, <2>3
<1> QED BY <1>12, <1>13

LEMMA PrintFieldWritten ==
    ASSUME Compared, name \in TableNames, Readable, PrintField,
           NEW before, NEW behind, NEW n, IsWritten(line, name, before, behind, {"start"}, n)
    PROVE  LET d == IF Internal(row[i]) THEN 0 ELSE 1
           IN  /\ pc' = "fields" => i < Len(row) /\ i' = i + 1 /\ \E more :
                     IsWritten(line', name, before, more, {"start"}, n + d)
               /\ pc' = "file" => i = Len(row) /\ \E more :
                     IsWritten(line', name, before, more, {"end"}, n + 1)
<1>1. row \in Rows /\ i \in 1 .. Len(row) /\ Len(row) \in Nat
  BY RowFields DEF Compared
<1>2. PICK f : f = row[i]
  OBVIOUS
<1>3. FieldOK(f) /\ ~ Spills(f)
  <2>1. DOMAIN row = 1 .. Len(row)
    BY <1>1, RowFields
  <2> QED BY <1>1, <1>2, <2>1, RowFields DEF Readable
<1>4. PICK leftover \in Leftovers :
        line' = line \o (IF Internal(f) THEN << >> ELSE FieldText(f, leftover) \o Separator)
                     \o (IF i = Len(row) THEN <<Newline>> ELSE << >>)
  BY <1>2 DEF PrintField
<1>5. PICK text : text = FieldText(f, leftover)
  OBVIOUS
<1>6. IsFieldText(text) /\ text \in Seq(Char)
  <2>1. leftover \in Seq(Byte)
    BY RowAssumption
  <2> QED BY <1>3, <1>5, <2>1, FieldTextRead DEF IsFieldText
<1>7. pc = "fields" /\ Advance("file")
  BY DEF PrintField
<1>8. PICK e, w, z : e = << >> /\ w = <<Tab>> /\ z = <<Newline>>
  OBVIOUS
<1>9. e \in Seq(Char) /\ w \in Seq(Char) /\ z \in Seq(Char)
  <2>1. Tab \in Char /\ Newline \in Char
    BY SpecialDiffer DEF Special
  <2> QED BY <1>8, <2>1
<1>10. line \in Seq(Char) /\ n \in Nat
  <2>1. before \in Seq(Char) /\ name \in Seq(Char) /\ behind \in Seq(Char)
    BY DEF IsWritten, IsLine, Nameless, Tabless
  <2>2. name \o w \in Seq(Char)
    BY <1>9, <2>1, ConcatProperties
  <2>3. before \o (name \o w) \in Seq(Char)
    BY <2>1, <2>2, ConcatProperties
  <2>4. line = (before \o (name \o w)) \o behind
    BY <1>8 DEF IsWritten, IsLine
  <2>5. line \in Seq(Char)
    BY <2>1, <2>3, <2>4, ConcatProperties
  <2>6. n \in Nat
    BY DEF IsWritten, Stands, Readers
  <2> QED BY <2>5, <2>6
<1>11. /\ IsMore(text \o w, {"start"}, 1) /\ IsMore(text \o z, {"end"}, 1)
       /\ IsMore(z, {"end"}, 1)
  BY <1>6, <1>8, FieldEnded, RowEnded
<1>12. \A more, modes, d : IsMore(more, modes, d) =>
          IsWritten(line \o more, name, before, behind \o more, modes, n + d)
  BY LineContinued
<1>13. CASE i < Len(row)
  <2>1. pc' = "fields" /\ i' = i + 1 /\ i # Len(row) /\ Separator = w
    <3>1. pc' = "fields" /\ i' = i + 1
      BY <1>7, <1>13 DEF Advance
    <3>2. Separator = w
      BY <1>8, <1>13 DEF Separator
    <3> QED BY <1>1, <1>13, <3>1, <3>2
  <2>2. CASE Internal(f)
    <3>1. line' = (line \o e) \o e
      BY <1>4, <1>8, <2>1, <2>2
    <3>2. line' = line /\ n + 0 = n
      BY <1>8, <1>10, <3>1, EmptyEnds
    <3> QED BY <1>2, <1>13, <2>1, <2>2, <3>2
  <2>3. CASE ~ Internal(f)
    <3>1. line' = (line \o (text \o w)) \o e
      BY <1>4, <1>5, <1>8, <2>1, <2>3
    <3>2. text \o w \in Seq(Char)
      BY <1>6, <1>9, ConcatProperties
    <3>3. line \o (text \o w) \in Seq(Char)
      BY <1>10, <3>2, ConcatProperties
    <3>4. line' = line \o (text \o w)
      BY <1>8, <3>1, <3>3, EmptyEnds
    <3> QED BY <1>2, <1>11, <1>12, <1>13, <2>1, <2>3, <3>4
  <2> QED BY <2>2, <2>3
<1>14. CASE ~ (i < Len(row))
  <2>1. pc' = "file" /\ i = Len(row) /\ Separator = e
    <3>1. pc' = "file"
      BY <1>7, <1>14 DEF Advance
    <3>2. Separator = e
      BY <1>8, <1>14 DEF Separator
    <3> QED BY <1>1, <1>14, <3>1, <3>2
  <2>2. CASE Internal(f)
    <3>1. line' = (line \o e) \o z
      BY <1>4, <1>8, <2>1, <2>2
    <3>2. line' = line \o z
      BY <1>8, <1>10, <3>1, EmptyEnds
    <3> QED BY <1>11, <1>12, <2>1, <3>2
  <2>3. CASE ~ Internal(f)
    <3>1. line' = (line \o (text \o e)) \o z
      BY <1>4, <1>5, <1>8, <2>1, <2>3
    <3>2. text \o e = text
      BY <1>6, <1>8, EmptyEnds
    <3>3. (line \o text) \o z = line \o (text \o z)
      <4>1. text \in Seq(Char) /\ line \in Seq(Char) /\ z \in Seq(Char)
        BY <1>6, <1>9, <1>10
      <4> QED BY SMTT(40), <4>1, ConcatAssociative
    <3> QED BY <1>11, <1>12, <2>1, <3>1, <3>2, <3>3
  <2> QED BY <2>2, <2>3
<1> QED BY <1>13, <1>14

\* One more of the columns is kept, or none.
GrowsAt(upto, k, S) ==
    /\ k \in S => Len(upto[k]) = Len(upto[k - 1]) + 1
    /\ k \notin S => upto[k] = upto[k - 1]

LEMMA KeptOneMore ==
    ASSUME NEW upto, NEW s, NEW S, NEW T, IsKept(upto, s, S, T), Len(s) \in Nat
    PROVE  \A k \in 1 .. Len(s) : GrowsAt(upto, k, S)
<1> SUFFICES ASSUME NEW k \in 1 .. Len(s) PROVE GrowsAt(upto, k, S)
  OBVIOUS
<1>1. k - 1 \in 0 .. Len(s)
  OBVIOUS
<1>2. PICK a, b : a = upto[k - 1] /\ b = upto[k]
  OBVIOUS
<1>3. a \in Seq(T) /\ b = IF k \in S THEN Append(a, s[k]) ELSE a
  BY <1>1, <1>2 DEF IsKept
<1>4. ASSUME k \in S PROVE Len(b) = Len(a) + 1
  <2>1. Len(Append(a, s[k])) = Len(a) + 1
    BY <1>3
  <2> QED BY <1>3, <1>4, <2>1
<1> QED BY <1>2, <1>3, <1>4 DEF GrowsAt

LEMMA NextWritten == Compared /\ Written /\ [Next]_vars => Written'
<1> SUFFICES ASSUME Compared, Written, [Next]_vars PROVE Written'
  OBVIOUS
<1>1. row \in Rows /\ i \in 1 .. Len(row) /\ Len(row) \in Nat /\ Len(row) > 0
  BY RowFields DEF Compared
<1>2. row' = row /\ name' = name /\ hex' = hex
  BY DEF Next, CheckField, RefuseRow, PrintInternal, PrintField, LoadData, given, vars
<1>3. Readable' = Readable /\ ColumnPlaces' = ColumnPlaces /\ Columns' = Columns
  BY <1>2 DEF Readable, StartsTooEarly, Spills, Columns, ColumnPlaces
<1>4. name \in TableNames
  BY DEF Written
<1> SUFFICES ASSUME Readable PROVE WrittenSoFar'
  BY <1>2, <1>3, <1>4 DEF Written
<1>5. WrittenSoFar
  BY DEF Written
<1>6. Columns = Kept(row, ColumnPlaces)
  BY DEF Columns, ColumnPlaces
<1>7. CASE CheckField
  <2>1. pc = "check" /\ line' = line /\ pc' \in {"check", "internal"}
    BY <1>7 DEF CheckField, Advance
  <2>2. line = << >>
    BY <1>5, <2>1 DEF WrittenSoFar
  <2>3. Continues(name, << >>)
    BY DEF Continues, Nameless
  <2> QED BY <1>2, <2>1, <2>2, <2>3 DEF WrittenSoFar
<1>8. CASE RefuseRow
  <2>1. pc' = "refused"
    BY <1>8 DEF RefuseRow
  <2> QED BY <2>1 DEF WrittenSoFar
<1>9. CASE PrintInternal
  <2>1. pc = "internal" /\ pc' \in {"internal", "fields"}
    BY <1>9 DEF PrintInternal, Advance
  <2>2. Continues(name, line)
    BY <1>5, <2>1 DEF WrittenSoFar
  <2>3. CASE pc' = "internal"
    <3>1. Continues(name, line')
      BY <1>4, <1>9, <2>2, <2>3, PrintInternalWritten
    <3> QED BY <1>2, <2>3, <3>1 DEF WrittenSoFar
  <2>4. CASE pc' = "fields"
    <3>1. PICK before : i' = 1 /\ IsWritten(line', name, before, << >>, {"start"}, 0)
      BY <1>4, <1>9, <2>2, <2>4, PrintInternalWritten
    <3>2. row \in Seq(Range(row))
      BY <1>1, RowAssumption
    <3>3. PICK upto : IsKept(upto, row, ColumnPlaces, Range(row))
      BY <3>2, KeptUnfolds
    <3>4. Len(upto[i' - 1]) = 0
      BY <3>1, <3>3 DEF IsKept
    <3>5. /\ IsKept(upto, row', ColumnPlaces', Range(row'))
          /\ IsWritten(line', name', before, << >>, {"start"}, Len(upto[i' - 1]))
      BY <1>2, <1>3, <3>1, <3>3, <3>4
    <3> QED BY <2>4, <3>5 DEF WrittenSoFar
  <2> QED BY <2>1, <2>3, <2>4
<1>10. CASE PrintField
  <2>1. pc = "fields" /\ pc' \in {"fields", "file"}
    BY <1>10 DEF PrintField, Advance
  <2>2. PICK upto, before, behind :
          /\ IsKept(upto, row, ColumnPlaces, Range(row))
          /\ IsWritten(line, name, before, behind, {"start"}, Len(upto[i - 1]))
    BY <1>5, <2>1 DEF WrittenSoFar
  <2>3. PICK n : n = Len(upto[i - 1])
    OBVIOUS
  <2> DEFINE d == IF Internal(row[i]) THEN 0 ELSE 1
  <2>4. d = IF i \in ColumnPlaces THEN 1 ELSE 0
    <3>1. DOMAIN row = 1 .. Len(row)
      BY <1>1, RowFields
    <3> QED BY <1>1, <3>1 DEF ColumnPlaces
  <2>5. Len(upto[i]) = n + d
    <3>1. GrowsAt(upto, i, ColumnPlaces)
      BY <1>1, <2>2, KeptOneMore
    <3>2. n \in Nat
      BY <2>2, <2>3 DEF IsWritten, Stands, Readers
    <3>3. CASE i \in ColumnPlaces
      BY <2>3, <2>4, <3>1, <3>3 DEF GrowsAt
    <3>4. CASE i \notin ColumnPlaces
      <4>1. d = 0 /\ n + 0 = n
        BY <2>4, <3>2, <3>4
      <4>2. upto[i] = upto[i - 1]
        BY <3>1, <3>4 DEF GrowsAt
      <4>3. Len(upto[i]) = n
        BY <2>3, <4>2
      <4> HIDE DEF d
      <4> QED BY <4>1, <4>3
    <3> QED BY <3>3, <3>4
  <2>6. CASE pc' = "fields"
    <3>1. PICK more : /\ i < Len(row) /\ i' = i + 1
                      /\ IsWritten(line', name, before, more, {"start"}, n + d)
      BY <1>4, <1>10, <2>2, <2>3, <2>6, PrintFieldWritten
    <3>2. i' - 1 = i
      BY <1>1, <3>1
    <3>3. /\ IsKept(upto, row', ColumnPlaces', Range(row'))
          /\ IsWritten(line', name', before, more, {"start"}, Len(upto[i' - 1]))
      BY <1>2, <1>3, <2>2, <2>5, <3>1, <3>2
    <3> QED BY <2>6, <3>3 DEF WrittenSoFar
  <2>7. CASE pc' = "file"
    <3>1. PICK more : i = Len(row) /\ IsWritten(line', name, before, more, {"end"}, n + 1)
      BY <1>4, <1>10, <2>2, <2>3, <2>7, PrintFieldWritten
    <3>2. Len(Columns) = n + d
      BY <1>6, <2>2, <2>5, <3>1 DEF IsKept
    <3>3. n \in Nat
      BY <2>2, <2>3 DEF IsWritten, Stands, Readers
    <3>4. n + 1 = Len(Columns') + (IF Internal(row'[Len(row')]) THEN 1 ELSE 0)
      BY <1>2, <1>3, <3>1, <3>2, <3>3
    <3> QED BY <1>2, <2>7, <3>1, <3>4 DEF WrittenSoFar
  <2> QED BY <2>1, <2>6, <2>7
<1>11. CASE LoadData
  <2>1. pc = "file" /\ pc' = "loaded" /\ line' = line
    BY <1>11 DEF LoadData
  <2>2. PICK before, behind : IsWritten(line, name, before, behind, {"end"},
              Len(Columns) + (IF Internal(row[Len(row)]) THEN 1 ELSE 0))
    BY <1>5, <2>1 DEF WrittenSoFar
  <2> QED BY <1>2, <1>3, <2>1, <2>2 DEF WrittenSoFar
<1>12. CASE UNCHANGED vars
  <2>1. UNCHANGED <<row, name, hex, pc, i, line>>
    BY <1>12 DEF vars
  <2> QED BY <1>3, <1>5, <2>1 DEF WrittenSoFar
<1> QED BY <1>7, <1>8, <1>9, <1>10, <1>11, <1>12 DEF Next

\* The invariant holds wherever process_ibrec and the server have come with a
\* row (c_parser.c:138-188).
THEOREM RowWritten == Spec => []Written
<1>1. Init => Written
  BY InitWritten
<1>2. Compared /\ Written /\ [Next]_vars => Written'
  BY NextWritten
<1> QED BY <1>1, <1>2, RowCompared, PTL DEF Spec

\* Whatever a field holds, the server finds in its line one field for each
\* column, and an empty one behind them if the last of the definition is
\* internal, for every Readable row.
THEOREM RowsOneFieldPerColumn == Spec => []OneFieldPerColumn
<1>1. ASSUME Written PROVE OneFieldPerColumn
  <2> SUFFICES ASSUME pc \in {"file", "loaded"}, Readable
               PROVE  Len(Read(line, name \o <<Tab>>)) =
                         Len(Columns) + (IF Internal(row[Len(row)]) THEN 1 ELSE 0)
    BY DEF OneFieldPerColumn
  <2>1. PICK before, behind : IsWritten(line, name, before, behind, {"end"},
              Len(Columns) + (IF Internal(row[Len(row)]) THEN 1 ELSE 0))
    BY <1>1 DEF Written, WrittenSoFar
  <2> QED BY <2>1, FieldsOfLine
<1> QED BY <1>1, RowWritten, PTL
-----------------------------------------------------------------------------
(* What is printed of the numbers                                          *)

\* A number that n bytes have room for is not negative, and is smaller shifted.
LEMMA FitsNat ==
    ASSUME NEW v \in Int, NEW n \in Nat, UnsignedFits(v, n)
    PROVE  v >= 0
<1> DEFINE S == {k \in 0 .. n : Shifted(v, k) < 0}
<1> SUFFICES ASSUME v < 0 PROVE FALSE
  OBVIOUS
<1>1. 0 \in S
  BY ShiftedFacts
<1>2. ASSUME NEW k \in 1 .. n, k - 1 \in S PROVE k \in S
  <2>1. k - 1 \in Nat /\ (k - 1) + 1 = k
    OBVIOUS
  <2>2. PICK x : x = Shifted(v, k - 1)
    OBVIOUS
  <2>3. x \in Int /\ Shifted(v, k) = x \div 256
    BY <2>1, <2>2, ShiftedFacts
  <2> QED BY <1>2, <2>2, <2>3
<1>3. 0 .. n \subseteq S
  <2> HIDE DEF S
  <2> QED BY <1>1, <1>2, UptoInduction
<1>4. Shifted(v, n) < 0
  BY <1>3
<1> QED BY <1>4 DEF UnsignedFits

LEMMA ShiftedSmall ==
    ASSUME NEW v \in Nat, NEW n \in Nat, n > 0
    PROVE  Shifted(v, n) \in Nat /\ Shifted(v, n) <= v \div 256
<1> DEFINE Small(k) == Shifted(v, k) \in Nat /\ (k > 0 => Shifted(v, k) <= v \div 256)
           S == {k \in 0 .. n : Small(k)}
<1>1. 0 \in S
  BY ShiftedFacts
<1>2. ASSUME NEW k \in 1 .. n, k - 1 \in S PROVE k \in S
  <2>1. k - 1 \in Nat /\ (k - 1) + 1 = k
    OBVIOUS
  <2>2. PICK x : x = Shifted(v, k - 1)
    OBVIOUS
  <2>3. x \in Nat /\ x <= v
    <3>1. CASE k - 1 = 0
      <4>1. x = v
        BY <2>2, <3>1, ShiftedFacts
      <4> QED BY <4>1
    <3>2. CASE k - 1 # 0
      <4>1. x \in Nat /\ x <= v \div 256
        BY <1>2, <2>1, <2>2, <3>2
      <4> QED BY <4>1
    <3> QED BY <3>1, <3>2
  <2>4. Shifted(v, k) = x \div 256
    BY <2>1, <2>2, <2>3, ShiftedFacts
  <2>5. x \div 256 \in Nat /\ x \div 256 <= v \div 256
    BY <2>3
  <2> QED BY <2>4, <2>5
<1>3. 0 .. n \subseteq S
  <2> HIDE DEF S
  <2> QED BY <1>1, <1>2, UptoInduction
<1>4. n \in S
  <2> HIDE DEF S
  <2> QED BY <1>3
<1> QED BY <1>4

\* An unsigned number is read without the two upper bits of three bytes.
LEMMA UnsignedDecoded ==
    ASSUME NEW v \in Int, NEW n \in Nat, UnsignedFits(v, n)
    PROVE  get_uint_value(ToBytes(v, n)) = IF n = 3 THEN v % 4194304 ELSE v
<1>1. PICK b : b = ToBytes(v, n)
  OBVIOUS
<1>2. Len(b) = n /\ BigEndian(b) = v
  BY <1>1, NumberOfBytes, UnsignedRead
<1>3. 2^22 = 4194304
  BY SMT
<1>4. get_uint_value(b) = IF n = 3 THEN v % 4194304 ELSE v
  BY <1>2, <1>3 DEF get_uint_value
<1> QED BY <1>1, <1>4

LEMMA FirstOfBytes ==
    ASSUME NEW v \in Nat, NEW n \in Nat, n > 0, UnsignedFits(v, n)
    PROVE  Head(ToBytes(v, n)) = v <=> n = 1 \/ v = 0
<1>1. PICK x : x = Shifted(v, n - 1)
  OBVIOUS
<1>2. n - 1 \in Nat /\ (n - 1) + 1 = n
  OBVIOUS
<1>3. x \in Int /\ x \div 256 = 0
  BY <1>1, <1>2, ShiftedFacts DEF UnsignedFits
<1>4. x \in 0 .. 255 /\ x % 256 = x
  BY <1>3
<1>5. Head(ToBytes(v, n)) = x
  <2>1. Len(ToBytes(v, n)) = n /\ ToBytes(v, n) \in Seq(Byte)
    BY NumberOfBytes
  <2>2. Head(ToBytes(v, n)) = ToBytes(v, n)[1]
    BY <2>1
  <2>3. ToBytes(v, n)[1] = x % 256
    BY <1>1 DEF ToBytes
  <2> QED BY <1>4, <2>2, <2>3
<1>6. CASE n = 1
  <2>1. x = v
    BY <1>1, <1>6, ShiftedFacts
  <2> QED BY <1>5, <1>6, <2>1
<1>7. CASE n # 1
  <2>1. x <= v \div 256
    <3>1. PICK m : m = n - 1
      OBVIOUS
    <3>2. m \in Nat /\ m > 0
      BY <1>2, <1>7, <3>1
    <3> QED BY <1>1, <3>1, <3>2, ShiftedSmall
  <2>2. x = v <=> v = 0
    BY <1>4, <2>1
  <2> QED BY <1>5, <1>7, <2>2
<1> QED BY <1>6, <1>7

LEMMA FlippedParts ==
    ASSUME NEW v \in Int, NEW n \in Nat, n > 0, SignedFits(v, n),
           NEW b, b = FlipSign(ToBytes(v, n))
    PROVE  /\ b \in Seq(Byte) /\ Len(b) = n
           /\ Head(b) - 128 = Shifted(v, n - 1) /\ Tail(b) = ToBytes(v, n - 1)
BY FlippedBytes

LEMMA OneNumber ==
    ASSUME NEW S, NEW value \in Seq(S), Len(value) = 1, NEW x
    PROVE  value[1] \in S /\ (<<x>> = value <=> x = value[1])
<1>1. value = <<value[1]>>
  OBVIOUS
<1>2. value[1] \in S
  OBVIOUS
<1> QED BY <1>1, <1>2

IsTold(def, value, after, p56) ==
    Decoded(def, Stored(def, value), after, p56) = value <=> ~ Lossy(def, value, after, p56)

LEMMA IntegerTold ==
    ASSUME NEW def, NEW value, NEW after, NEW p56, def.type = "INT", ValueOK(def, value)
    PROVE  IsTold(def, value, after, p56)
<1>1. /\ value[1] \in Int /\ def.length \in {1, 2, 3, 4, 8}
      /\ SignedFits(value[1], def.length) /\ \A x : <<x>> = value <=> x = value[1]
  <2>1. value \in Seq(Int) /\ Len(value) = 1 /\ def.length \in {1, 2, 3, 4, 8}
    BY DEF ValueOK
  <2>2. SignedFits(value[1], def.length)
    BY DEF ValueOK
  <2> QED BY <2>1, <2>2, OneNumber
<1>2. Stored(def, value) = FlipSign(ToBytes(value[1], def.length))
  BY SMT DEF Stored, Texts
<1>3. Decoded(def, Stored(def, value), after, p56) = <<get_int_value(Stored(def, value))>>
  BY DEF Decoded
<1>4. Lossy(def, value, after, p56) <=> LossyNumber(def, value)
  BY DEF Lossy, Numbers
<1>5. ASSUME ~ LossyNumber(def, value)
      PROVE  get_int_value(Stored(def, value)) = value[1]
  BY <1>5, IntegerRead
<1>6. ASSUME LossyNumber(def, value)
      PROVE  get_int_value(Stored(def, value)) # value[1]
  <2>1. def.length = 3 /\ value[1] < -(2^15)
    BY <1>6 DEF LossyNumber
  <2>2. PICK v, b, n : v = value[1] /\ b = Stored(def, value) /\ n = def.length
    OBVIOUS
  <2>3. 2^15 = 32768
    BY SMT
  <2>4. /\ v \in Int /\ v < -32768 /\ SignedFits(v, n) /\ b = FlipSign(ToBytes(v, n))
        /\ n \in Nat /\ n > 0
    BY <1>1, <1>2, <2>1, <2>2, <2>3
  <2>0. n = 3
    BY <2>1, <2>2
  <2>5. b \in Seq(Byte) /\ Len(b) = n /\ Head(b) - 128 = Shifted(v, n - 1)
    BY <2>4, FlippedParts
  <2>6. PICK x, y : x = Shifted(v, 1) /\ y = Shifted(v, 2)
    OBVIOUS
  <2>7. x = v \div 256 /\ y = x \div 256 /\ x \in Int /\ y \in Int
    <3>1. 0 + 1 = 1 /\ 1 + 1 = 2 /\ 0 \in Nat /\ 1 \in Nat
      OBVIOUS
    <3> QED BY <2>4, <2>6, <3>1, ShiftedFacts
  <2>8. Head(b) < 128
    <3>1. Head(b) \in Int
      <4>1. Head(b) = b[1] /\ b[1] \in Byte
        BY <2>0, <2>5, ThreeElements
      <4> QED BY <4>1 DEF Byte
    <3>2. y < 0
      BY <2>4, <2>7
    <3>3. n - 1 = 2
      BY <2>0
    <3> QED BY <2>5, <2>6, <2>7, <3>1, <3>2, <3>3
  <2>9. get_int_value(b) = (BigEndian(b) % 32768) - 32768
    <3>1. Len(b) = 3
      BY <2>0, <2>5
    <3> QED BY <2>3, <2>8, <3>1 DEF get_int_value
  <2>10. BigEndian(b) \in Int
    <3>1. b[1] \in Byte /\ b[2] \in Byte /\ b[3] \in Byte
      BY <2>0, <2>5, ThreeElements
    <3>2. BigEndian(b) = 256 * (256 * (256 * 0 + b[1]) + b[2]) + b[3]
      BY <2>0, <2>5, NumberOfThree DEF BigEndian
    <3>3. PICK x1, x2, x3 : x1 = b[1] /\ x2 = b[2] /\ x3 = b[3]
      OBVIOUS
    <3>4. x1 \in 0 .. 255 /\ x2 \in 0 .. 255 /\ x3 \in 0 .. 255
      BY <3>1, <3>3 DEF Byte
    <3>5. BigEndian(b) = 256 * (256 * (256 * 0 + x1) + x2) + x3
      BY <3>2, <3>3
    <3> QED BY <3>4, <3>5
  <2>11. get_int_value(b) >= -32768
    BY <2>9, <2>10
  <2> QED BY <2>2, <2>4, <2>11
<1> QED BY <1>1, <1>3, <1>4, <1>5, <1>6 DEF IsTold

LEMMA UnsignedTold ==
    ASSUME NEW def, NEW value, NEW after, NEW p56, def.type \in {"UINT", "BIT", "ENUM", "SET"},
           ValueOK(def, value)
    PROVE  IsTold(def, value, after, p56)
<1>1. PICK v, n : v = value[1] /\ n = def.length
  OBVIOUS
<1>2. value \in Seq(Int) /\ Len(value) = 1
  <2>1. value \in Seq(Int) \/ value \in Seq(Nat)
    BY DEF ValueOK
  <2>2. Nat \subseteq Int
    OBVIOUS
  <2>3. value \in Seq(Int)
    BY <2>1, <2>2, SeqMonotonic
  <2> QED BY <2>3 DEF ValueOK
<1>3. v \in Int /\ \A x : <<x>> = value <=> x = v
  BY <1>1, <1>2, OneNumber
<1>4. n \in Nat /\ n > 0 /\ UnsignedFits(v, n)
  BY <1>1 DEF ValueOK
<1>5. v \in Nat
  BY <1>3, <1>4, FitsNat
<1>6. PICK b : b = ToBytes(v, n)
  OBVIOUS
<1>7. Stored(def, value) = b
  BY <1>1, <1>6, SMT DEF Stored, Texts
<1>8. Lossy(def, value, after, p56) <=> LossyNumber(def, value)
  BY DEF Lossy, Numbers
<1>9. CASE def.type \in {"UINT", "BIT"}
  <2>1. Decoded(def, b, after, p56) = <<get_uint_value(b)>>
    BY <1>9 DEF Decoded
  <2>2. get_uint_value(b) = IF n = 3 THEN v % 4194304 ELSE v
    BY <1>3, <1>4, <1>6, UnsignedDecoded
  <2>3. 2^22 = 4194304
    BY SMT
  <2>4. LossyNumber(def, value) <=> n = 3 /\ v >= 4194304
    BY <1>1, <1>9, <2>3 DEF LossyNumber
  <2>5. v % 4194304 = v <=> v < 4194304
    BY <1>5
  <2> QED BY <1>3, <1>5, <1>7, <1>8, <2>1, <2>2, <2>4, <2>5 DEF IsTold
<1>10. CASE def.type = "ENUM"
  <2>1. Decoded(def, b, after, p56) = <<BigEndian(b)>>
    BY <1>10 DEF Decoded, PrintedEnum
  <2>2. BigEndian(b) = v
    BY <1>3, <1>4, <1>6, UnsignedRead
  <2>3. ~ LossyNumber(def, value)
    BY <1>10 DEF LossyNumber
  <2> QED BY <1>3, <1>7, <1>8, <2>1, <2>2, <2>3 DEF IsTold
<1>11. CASE def.type = "SET"
  <2>1. Decoded(def, b, after, p56) = <<Head(b)>>
    BY <1>11 DEF Decoded
  <2>2. Head(b) = v <=> n = 1 \/ v = 0
    BY <1>4, <1>5, <1>6, FirstOfBytes
  <2>3. LossyNumber(def, value) <=> n > 1 /\ v # 0
    BY <1>1, <1>11 DEF LossyNumber
  <2>4. n > 1 <=> n # 1
    BY <1>4
  <2> QED BY <1>3, <1>7, <1>8, <2>1, <2>2, <2>3, <2>4 DEF IsTold
<1> QED BY <1>9, <1>10, <1>11

Years == {0} \cup 1901 .. 2155

LEMMA YearTold ==
    ASSUME NEW def, NEW value, NEW after, NEW p56, def.type = "YEAR", ValueOK(def, value)
    PROVE  IsTold(def, value, after, p56)
<1>1. PICK v : v = value[1]
  OBVIOUS
<1>2. value \in Seq(Years) /\ Len(value) = 1
  BY SMTT(40) DEF ValueOK, Years
<1>3. v \in Years /\ \A x : <<x>> = value <=> x = v
  BY <1>1, <1>2, OneNumber
<1>4. PICK b : b = IF v = 0 THEN 0 ELSE v - 1900
  OBVIOUS
<1>5. Stored(def, value) = <<b>>
  BY <1>1, <1>4, SMT DEF Stored, Texts
<1>6. Decoded(def, <<b>>, after, p56) = <<b + 1900>>
  BY DEF Decoded
<1>7. Lossy(def, value, after, p56) <=> v = 0
  BY <1>1 DEF Lossy, Numbers, LossyNumber
<1>8. b + 1900 = v <=> v # 0
  BY <1>3, <1>4 DEF Years
<1> QED BY <1>3, <1>5, <1>6, <1>7, <1>8 DEF IsTold

LEMMA FloatTold ==
    ASSUME NEW def, NEW value, NEW after, NEW p56, def.type = "FLOAT", ValueOK(def, value)
    PROVE  IsTold(def, value, after, p56)
<1>1. value \in Seq(Int) /\ Len(value) = 2
  BY DEF ValueOK
<1>2. PICK n, places : n = value[1] /\ places = value[2]
  OBVIOUS
<1>3. n \in Int /\ places \in Int /\ value = <<n, places>>
  <2>1. value = <<value[1], value[2]>>
    BY <1>1
  <2> QED BY SMTT(40), <1>1, <1>2, <2>1
<1>4. Stored(def, value) = value
  BY SMT DEF Stored, Texts
<1>5. Decoded(def, value, after, p56) = FloatText(n, places)
  BY <1>2 DEF Decoded
<1>6. Lossy(def, value, after, p56) <=> places > 6
  BY <1>2 DEF Lossy, Numbers, LossyNumber
<1>7. CASE places <= 6
  <2>1. FloatText(n, places) = value
    BY <1>3, <1>7 DEF FloatText
  <2> QED BY <1>3, <1>4, <1>5, <1>6, <1>7, <2>1 DEF IsTold
<1>8. CASE places > 6
  <2>1. PICK m : FloatText(n, places) = <<m, 6>>
    BY <1>3, <1>8 DEF FloatText
  <2>2. <<m, 6>> # <<n, places>>
    BY <1>8
  <2> QED BY <1>3, <1>4, <1>5, <1>6, <1>8, <2>1, <2>2 DEF IsTold
<1> QED BY <1>3, <1>7, <1>8
-----------------------------------------------------------------------------
(* What is printed of dates and times                                      *)

LEMMA NotEmpty ==
    ASSUME NEW S, NEW s \in Seq(S), Len(s) > 0
    PROVE  s # << >>
OBVIOUS

LEMMA TwoElements ==
    ASSUME NEW S, NEW s \in Seq(S), Len(s) = 2
    PROVE  s[1] \in S /\ s[2] \in S /\ s = <<s[1], s[2]>>
<1>1. PICK a, b : a = s[1] /\ b = s[2]
  OBVIOUS
<1>2. PICK t : t = <<a, b>>
  OBVIOUS
<1>3. a \in S /\ b \in S
  BY SMTT(40), <1>1
<1>4. t \in Seq(S) /\ Len(t) = 2
  BY <1>2, <1>3
<1>5. ASSUME NEW k \in 1 .. Len(s) PROVE s[k] = t[k]
  <2>1. k = 1 \/ k = 2
    OBVIOUS
  <2> QED BY <1>1, <1>2, <2>1
<1>6. s = t
  BY <1>4, <1>5, SeqEqual
<1> QED BY <1>1, <1>2, <1>3, <1>6

LEMMA TwoBehind ==
    ASSUME NEW S, NEW s \in Seq(S), Len(s) = 3, NEW t, t = Tail(s)
    PROVE  t[1] = s[2] /\ t[2] = s[3]
<1>1. PICK m, n : m = 1 /\ n = 2
  OBVIOUS
<1>2. m \in 1 .. Len(s) - 1 /\ n \in 1 .. Len(s) - 1 /\ s # << >>
  <2>1. PICK l : l = Len(s)
    OBVIOUS
  <2>2. l = 3 /\ m \in 1 .. l - 1 /\ n \in 1 .. l - 1
    BY <1>1, <2>1
  <2>3. Len(s) > 0
    BY <2>1, <2>2
  <2>4. s # << >>
    BY <2>3, NotEmpty
  <2> QED BY <2>1, <2>2, <2>4
<1>3. Tail(s)[m] = s[m + 1] /\ Tail(s)[n] = s[n + 1]
  BY <1>2, HeadTailProperties
<1>4. m + 1 = 2 /\ n + 1 = 3
  BY <1>1
<1>5. t[m] = s[2] /\ t[n] = s[3]
  BY <1>3, <1>4
<1>6. t[1] = t[m] /\ t[2] = t[n]
  BY <1>1
<1> QED BY <1>5, <1>6

\* Three bytes with their first bit flipped.
LEMMA ThreeFlipped ==
    ASSUME NEW v \in Nat, v \div 65536 <= 127
    PROVE  LET b == FlipSign(ToBytes(v, 3))
           IN  b \in Seq(Byte) /\ Len(b) = 3 /\ BigEndian(b) = v + 128 * 65536
<1>1. PICK n, b : n = 3 /\ b = FlipSign(ToBytes(v, n))
  OBVIOUS
<1>2. PICK x, y : x = Shifted(v, 1) /\ y = Shifted(v, 2)
  OBVIOUS
<1>3. x = v \div 256 /\ y = x \div 256 /\ x \in Int /\ y \in Int
  <2>1. 0 + 1 = 1 /\ 1 + 1 = 2 /\ 0 \in Nat /\ 1 \in Nat
    OBVIOUS
  <2> QED BY <1>2, <2>1, ShiftedFacts
<1>4. y \in -128 .. 127
  BY <1>3
<1>5. n \in Nat /\ n > 0 /\ n - 1 = 2
  BY <1>1
<1>6. n \in Nat /\ n > 0 /\ SignedFits(v, n)
  BY <1>2, <1>4, <1>5 DEF SignedFits
<1>7. /\ b \in Seq(Byte) /\ Len(b) = n
      /\ Head(b) - 128 = Shifted(v, n - 1) /\ Tail(b) = ToBytes(v, n - 1)
  <2>1. b = FlipSign(ToBytes(v, n))
    BY <1>1
  <2> QED BY <1>6, <2>1, FlippedParts
<1>8. b \in Seq(Byte) /\ Len(b) = 3 /\ Head(b) - 128 = y /\ Tail(b) = ToBytes(v, 2)
  <2>1. Shifted(v, n - 1) = y /\ ToBytes(v, n - 1) = ToBytes(v, 2)
    BY <1>2, <1>5
  <2> QED BY <1>1, <1>7, <2>1
<1>9. PICK b1, b2, b3 : b1 = b[1] /\ b2 = b[2] /\ b3 = b[3]
  OBVIOUS
<1>10. b1 \in 0 .. 255 /\ b1 - 128 = y /\ b2 = Tail(b)[1] /\ b3 = Tail(b)[2]
  BY <1>8, <1>9, ThreeElements DEF Byte
<1>11. b1 = y + 128 /\ b2 = x % 256 /\ b3 = v % 256
  <2>1. ToBytes(v, 2)[1] = Shifted(v, 1) % 256 /\ ToBytes(v, 2)[2] = Shifted(v, 0) % 256
    BY DEF ToBytes
  <2>2. Shifted(v, 0) = v
    BY ShiftedFacts
  <2>3. ToBytes(v, 2)[1] = x % 256 /\ ToBytes(v, 2)[2] = v % 256
    BY <1>2, <2>1, <2>2
  <2>4. b2 = x % 256 /\ b3 = v % 256
    <3>1. ToBytes(v, 2)[1] = b[2] /\ ToBytes(v, 2)[2] = b[3]
      BY <1>8, TwoBehind
    <3> QED BY <1>9, <2>3, <3>1
  <2>5. b1 = y + 128
    BY <1>3, <1>10
  <2> QED BY <2>4, <2>5
<1>12. BigEndian(b) = 256 * (256 * (256 * 0 + b1) + b2) + b3
  BY <1>8, <1>9, NumberOfThree DEF BigEndian
<1>13. BigEndian(b) = v + 128 * 65536
  <2>1. v = 256 * x + (v % 256) /\ x = 256 * y + (x % 256)
    BY <1>3
  <2>2. PICK r, s : r = v % 256 /\ s = x % 256
    OBVIOUS
  <2>3. r \in Int /\ s \in Int /\ v = 256 * x + r /\ x = 256 * y + s
    BY <1>3, <2>1, <2>2
  <2>4. BigEndian(b) = 256 * (256 * (256 * 0 + (y + 128)) + s) + r
    BY <1>11, <1>12, <2>2
  <2> QED BY <1>3, <2>3, <2>4
<1> QED BY <1>1, <1>8, <1>13

LEMMA DateTold ==
    ASSUME NEW def, NEW value, NEW after, NEW p56, def.type = "DATE", ValueOK(def, value)
    PROVE  IsTold(def, value, after, p56)
<1>1. value \in Seq(Nat) /\ Len(value) = 3
  BY DEF ValueOK
<1>2. PICK y, m, d : y = value[1] /\ m = value[2] /\ d = value[3]
  OBVIOUS
<1>3. /\ y \in Nat /\ m \in Nat /\ d \in Nat /\ y <= 9999 /\ m <= 12 /\ d <= 31
      /\ value = <<y, m, d>>
  <2>1. value = <<value[1], value[2], value[3]>>
    BY <1>1
  <2>2. value[1] \in Nat /\ value[2] \in Nat /\ value[3] \in Nat
    BY SMTT(40), <1>1
  <2>3. value[1] <= 9999 /\ value[2] <= 12 /\ value[3] <= 31
    BY DEF ValueOK
  <2>4. value = <<y, m, d>>
    BY <1>2, <2>1
  <2> QED BY <1>2, <2>2, <2>3, <2>4
<1>4. PICK v : v = y * 512 + m * 32 + d
  OBVIOUS
<1>5. v \in Nat /\ v \div 65536 <= 127
  BY <1>3, <1>4
<1>6. PICK b : b = FlipSign(ToBytes(v, 3))
  OBVIOUS
<1>7. Stored(def, value) = b
  BY <1>2, <1>4, <1>6, SMT DEF Stored, Texts
<1>8. BigEndian(b) = v + 128 * 65536
  BY <1>5, <1>6, ThreeFlipped
<1>9. 2^23 = 128 * 65536
  BY SMT
<1>10. BigEndian(b) % 2^23 = v
  BY <1>5, <1>8, <1>9
<1>11. print_date(b) = <<v \div 512, (v \div 32) % 16, v % 32>>
  BY <1>10 DEF print_date
<1>12. v \div 512 = y /\ (v \div 32) % 16 = m /\ v % 32 = d
  BY <1>3, <1>4
<1>13. Decoded(def, b, after, p56) = value
  BY <1>3, <1>11, <1>12 DEF Decoded
<1>14. ~ Lossy(def, value, after, p56)
  BY DEF Lossy, Numbers
<1> QED BY <1>7, <1>13, <1>14 DEF IsTold

LEMMA ShiftedOnce ==
    ASSUME NEW v \in Int, NEW n \in Nat, NEW m, m = n + 1
    PROVE  Shifted(v, m) = Shifted(v, n) \div 256
BY ShiftedFacts

LEMMA LessBelow ==
    ASSUME NEW x \in Nat, NEW m \in Nat, x < 256 * m
    PROVE  x \div 256 \in Nat /\ x \div 256 < m
BY SMT

\* Four bytes have room for the instants of a TIMESTAMP.
LEMMA TimestampFits ==
    ASSUME NEW t \in Nat, t <= LastInstant
    PROVE  UnsignedFits(t, 4)
<1>1. t \in Int /\ t < 256 * (256 * (256 * 128))
  BY SMT DEF LastInstant
<1>2. PICK a, b, c, d : /\ a = Shifted(t, 1) /\ b = Shifted(t, 2)
                        /\ c = Shifted(t, 3) /\ d = Shifted(t, 4)
  OBVIOUS
<1>3. a = t \div 256 /\ b = a \div 256 /\ c = b \div 256 /\ d = c \div 256
  <2>1. Shifted(t, 0) = t
    BY <1>1, ShiftedFacts
  <2>2. Shifted(t, 1) = Shifted(t, 0) \div 256
    <3>1. 0 \in Nat /\ 1 = 0 + 1
      OBVIOUS
    <3> QED BY <1>1, <3>1, ShiftedOnce
  <2>3. Shifted(t, 2) = Shifted(t, 1) \div 256
    <3>1. 1 \in Nat /\ 2 = 1 + 1
      OBVIOUS
    <3> QED BY <1>1, <3>1, ShiftedOnce
  <2>4. Shifted(t, 3) = Shifted(t, 2) \div 256
    <3>1. 2 \in Nat /\ 3 = 2 + 1
      OBVIOUS
    <3> QED BY <1>1, <3>1, ShiftedOnce
  <2>5. Shifted(t, 4) = Shifted(t, 3) \div 256
    <3>1. 3 \in Nat /\ 4 = 3 + 1
      OBVIOUS
    <3> QED BY <1>1, <3>1, ShiftedOnce
  <2> QED BY <1>2, <2>1, <2>2, <2>3, <2>4, <2>5
<1>4. a \in Nat /\ a < 256 * (256 * 128)
  BY SMT, <1>1, <1>3, LessBelow
<1>5. b \in Nat /\ b < 256 * 128
  BY SMT, <1>3, <1>4, LessBelow
<1>6. c \in Nat /\ c < 128
  BY SMT, <1>3, <1>5, LessBelow
<1>7. d = 0
  BY SMT, <1>3, <1>6
<1> QED BY <1>2, <1>7 DEF UnsignedFits

\* Two summers that have an instant in common are one.
LEMMA OneSummer ==
    ASSUME NEW zone, ZoneOK(zone), NEW t \in Int, NEW y \in zone.summers, NEW z \in zone.summers,
           Within(t, y), Within(t, z)
    PROVE  y = z
<1>1. y[1] \in Int /\ y[2] \in Int /\ z[1] \in Int /\ z[2] \in Int
  BY DEF ZoneOK
<1>2. y # z => y[2] <= z[1] \/ z[2] <= y[1]
  BY DEF ZoneOK
<1> QED BY <1>1, <1>2 DEF Within

\* What the server makes of the local time l of an instant t of its own clock.
LEMMA InstantFound ==
    ASSUME NEW zone, ZoneOK(zone), NEW t \in Int, NEW l \in Int, l = t + Offset(zone, t),
           NEW shift, shift = zone.summer - zone.standard
    PROVE  /\ Instant(zone, l) \in Int
           /\ Instant(zone, l) = t <=>
                 ~ (Offset(zone, t) = zone.standard /\ InSummer(zone, t - shift))
<1>1. PICK low, high : low = zone.standard /\ high = zone.summer
  OBVIOUS
<1>2. low \in Int /\ high \in Int /\ low < high /\ shift = high - low
  BY <1>1 DEF ZoneOK
<1>3. CASE InSummer(zone, t)
  <2>1. Offset(zone, t) = high /\ l - high = t
    BY <1>1, <1>2, <1>3 DEF Offset
  <2>2. Instant(zone, l) = t
    BY <1>1, <1>3, <2>1 DEF Instant, Skipped
  <2> QED BY <1>1, <1>2, <2>1, <2>2
<1>4. CASE ~ InSummer(zone, t)
  <2>1. Offset(zone, t) = low /\ l - low = t /\ l - high = t - shift
    BY <1>1, <1>2, <1>4 DEF Offset
  <2>2. CASE InSummer(zone, t - shift)
    <3>1. Instant(zone, l) = t - shift
      BY <1>1, <2>1, <2>2 DEF Instant, Skipped
    <3> QED BY <1>1, <1>2, <2>1, <2>2, <3>1
  <2>3. CASE ~ InSummer(zone, t - shift)
    <3>1. Instant(zone, l) = t
      BY <1>1, <1>4, <2>1, <2>3 DEF Instant, Skipped
    <3> QED BY <1>1, <2>1, <2>3, <3>1
  <2> QED BY <2>2, <2>3
<1> QED BY <1>3, <1>4

\* The same of a local time that its clock does not show at t.
LEMMA InstantMissed ==
    ASSUME NEW zone, ZoneOK(zone), NEW t \in Int, NEW l \in Int, l # t + Offset(zone, t)
    PROVE  /\ Instant(zone, l) \in Int
           /\ Instant(zone, l) = t <=>
                 /\ Skipped(zone, l)
                 /\ \E y \in zone.summers : y[1] = t /\ Within(l - zone.standard, y)
<1>1. PICK low, high : low = zone.standard /\ high = zone.summer
  OBVIOUS
<1>2. low \in Int /\ high \in Int /\ low < high
  BY <1>1 DEF ZoneOK
<1>3. CASE InSummer(zone, l - high)
  <2>1. Instant(zone, l) = l - high /\ ~ Skipped(zone, l)
    BY <1>1, <1>3 DEF Instant, Skipped
  <2>2. l - high # t
    <3>1. SUFFICES ASSUME l - high = t PROVE FALSE
      OBVIOUS
    <3>2. Offset(zone, t) = high
      BY <1>1, <1>3, <3>1 DEF Offset
    <3> QED BY <1>2, <3>1, <3>2
  <2> QED BY <1>2, <2>1, <2>2
<1>4. CASE Skipped(zone, l)
  <2>1. ~ InSummer(zone, l - high) /\ InSummer(zone, l - low)
    BY <1>1, <1>4 DEF Skipped
  <2>2. PICK y \in zone.summers : Within(l - low, y)
    BY <2>1 DEF InSummer
  <2>3. PICK z : z = CHOOSE x \in zone.summers : Within(l - low, x)
    OBVIOUS
  <2>4. z \in zone.summers /\ Within(l - low, z)
    BY <2>2, <2>3
  <2>5. l - low \in Int
    BY <1>2
  <2>6. \A x \in zone.summers : Within(l - low, x) => x = z
    BY <2>4, <2>5, OneSummer
  <2>7. Instant(zone, l) = z[1]
    BY <1>1, <1>4, <2>1, <2>3 DEF Instant
  <2>8. z[1] \in Int
    BY <2>4 DEF ZoneOK
  <2> QED BY <1>1, <1>4, <2>4, <2>6, <2>7, <2>8
<1>5. CASE ~ InSummer(zone, l - high) /\ ~ Skipped(zone, l)
  <2>1. Instant(zone, l) = l - low /\ ~ InSummer(zone, l - low)
    BY <1>1, <1>5 DEF Instant, Skipped
  <2>2. l - low # t
    <3>1. SUFFICES ASSUME l - low = t PROVE FALSE
      OBVIOUS
    <3>2. Offset(zone, t) = low
      BY <1>1, <2>1, <3>1 DEF Offset
    <3> QED BY <1>2, <3>1, <3>2
  <2> QED BY <1>2, <1>5, <2>1, <2>2
<1> QED BY <1>1, <1>3, <1>4, <1>5

LEMMA LastInstantIsNumber == LastInstant \in Int
BY SMT DEF LastInstant

LEMMA InstantTold ==
    ASSUME NEW t \in Nat, t <= LastInstant
    PROVE  ReadTimestamp(t + Offset(LocalZone, t)) = t <=> ~ LossyInstant(t)
<1>1. PICK own, theirs : own = Offset(LocalZone, t) /\ theirs = Offset(ServerZone, t)
  OBVIOUS
<1>2. own \in Int /\ theirs \in Int
  BY <1>1, ZoneAssumption DEF Offset, ZoneOK
<1>3. PICK l, r, shift : /\ l = t + own /\ r = Instant(ServerZone, l)
                         /\ shift = ServerZone.summer - ServerZone.standard
  OBVIOUS
<1>4. t \in Int /\ l \in Int
  BY <1>2, <1>3
<1>5. PICK missed : missed <=>
         /\ Skipped(ServerZone, l)
         /\ \E y \in ServerZone.summers : y[1] = t /\ Within(l - ServerZone.standard, y)
  OBVIOUS
<1>6. PICK repeated : repeated <=> /\ theirs = ServerZone.standard
                                   /\ InSummer(ServerZone, t - shift)
  OBVIOUS
<1>7. r \in Int /\ (own = theirs => (r = t <=> ~ repeated)) /\ (own # theirs => (r = t <=> missed))
  <2>1. CASE own = theirs
    BY <1>1, <1>3, <1>4, <1>6, <2>1, ZoneAssumption, InstantFound
  <2>2. CASE own # theirs
    <3>1. l # t + theirs
      BY <1>2, <1>3, <2>2
    <3> QED BY <1>1, <1>3, <1>4, <1>5, <2>2, <3>1, ZoneAssumption, InstantMissed
  <2> QED BY <2>1, <2>2
<1>8. ReadTimestamp(l) = IF r \in 1 .. LastInstant THEN r ELSE 0
  BY <1>3 DEF ReadTimestamp
<1>9. CASE t = 0
  <2>1. LossyInstant(t) <=> ReadTimestamp(l) # 0
    BY <1>1, <1>3, <1>9 DEF LossyInstant
  <2> QED BY <1>1, <1>3, <1>9, <2>1
<1>10. CASE t # 0
  <2>1. LossyInstant(t) <=> (theirs # own /\ ~ missed) \/ repeated
    BY <1>1, <1>3, <1>5, <1>6, <1>10 DEF LossyInstant
  <2>2. missed => ~ repeated
    <3>1. SUFFICES ASSUME missed PROVE theirs # ServerZone.standard
      BY <1>6
    <3>2. PICK y \in ServerZone.summers : y[1] = t /\ Within(l - ServerZone.standard, y)
      BY <1>5, <3>1
    <3>3. y[1] \in Int /\ y[2] \in Int /\ ServerZone.standard \in Int
          /\ ServerZone.standard < ServerZone.summer /\ ServerZone.summer \in Int
      BY ZoneAssumption DEF ZoneOK
    <3>4. Within(t, y)
      BY <1>4, <3>2, <3>3 DEF Within
    <3>5. theirs = ServerZone.summer
      BY <1>1, <3>4 DEF Offset, InSummer
    <3> QED BY <3>3, <3>5
  <2>3. r = t <=> ~ LossyInstant(t)
    BY <1>7, <2>1, <2>2
  <2>4. ReadTimestamp(l) = t <=> r = t
    <3>1. LastInstant \in Int
      BY LastInstantIsNumber
    <3>2. r = t => r \in 1 .. LastInstant
      BY <1>4, <1>10, <3>1
    <3> QED BY <1>8, <1>10, <3>2
  <2> QED BY <1>1, <1>3, <2>3, <2>4
<1> QED BY <1>9, <1>10

\* Of two instants that c_parser's clock shows as the same time, those of the
\* hour that its summer repeats, one at least does not come back, whatever the
\* zone of the server's session is (print_data.c:13-31).
THEOREM RepeatedHourCollapses ==
    ASSUME NEW t \in 0 .. LastInstant, NEW u \in 0 .. LastInstant, t # u,
           t + Offset(LocalZone, t) = u + Offset(LocalZone, u)
    PROVE  LossyInstant(t) \/ LossyInstant(u)
<1>1. t \in Nat /\ t <= LastInstant /\ u \in Nat /\ u <= LastInstant
  <2>1. LastInstant \in Int
    BY LastInstantIsNumber
  <2> QED BY <2>1
<1>2. PICK x : x = ReadTimestamp(t + Offset(LocalZone, t))
  OBVIOUS
<1>3. (x = t <=> ~ LossyInstant(t)) /\ (x = u <=> ~ LossyInstant(u))
  BY <1>1, <1>2, InstantTold
<1> QED BY <1>3

LEMMA TimestampTold ==
    ASSUME NEW def, NEW value, NEW after, NEW p56, def.type = "TIMESTAMP", ValueOK(def, value)
    PROVE  IsTold(def, value, after, p56)
<1>1. /\ value \in Seq(Nat) /\ Len(value) = 2
      /\ value[1] <= LastInstant /\ def.length \in 4 .. 7
  BY DEF ValueOK
<1>2. PICK t, f : t = value[1] /\ f = value[2]
  OBVIOUS
<1>3. t \in Nat /\ f \in Nat /\ value = <<t, f>>
  <2>0. value \in Seq(Nat) /\ Len(value) = 2
    BY <1>1
  <2>1. value = <<value[1], value[2]>>
    BY <2>0, TwoElements
  <2>2. value[1] \in Nat /\ value[2] \in Nat
    BY <2>0, TwoElements
  <2>3. value = <<t, f>>
    BY <1>2, <2>1
  <2> QED BY <1>2, <2>2, <2>3
<1>4. PICK n, k : n = 4 /\ k = def.length - 4
  OBVIOUS
<1>5. n \in Nat /\ n > 0 /\ k \in Nat /\ t <= LastInstant /\ UnsignedFits(t, n)
  BY <1>1, <1>2, <1>3, <1>4, TimestampFits
<1>6. PICK b, c : b = ToBytes(t, n) /\ c = ToBytes(f, k)
  OBVIOUS
<1>7. b \in Seq(Byte) /\ c \in Seq(Byte) /\ Len(b) = n
  BY <1>3, <1>5, <1>6, NumberOfBytes
<1>8. Stored(def, value) = b \o c
  BY <1>2, <1>4, <1>6, SMT DEF Stored, Texts
<1>9. SubSeq(b \o c, 1, n) = b
  BY <1>5, <1>7, FirstPart
<1>10. BigEndian(b) = t
  BY <1>3, <1>5, <1>6, UnsignedRead
<1>11. PICK l, x : l = t + Offset(LocalZone, t) /\ x = ReadTimestamp(l)
  OBVIOUS
<1>12. Decoded(def, b \o c, after, p56) = <<x, 0>>
  <2>1. BigEndian(SubSeq(b \o c, 1, 4)) = t
    BY <1>4, <1>9, <1>10
  <2>2. print_timestamp(b \o c) = <<l, 0>>
    BY <1>11, <2>1 DEF print_timestamp
  <2> QED BY <1>11, <2>2 DEF Decoded
<1>13. Lossy(def, value, after, p56) <=> f # 0 \/ x # t
  <2>1. x = t <=> ~ LossyInstant(t)
    BY <1>3, <1>5, <1>11, InstantTold
  <2> QED BY <1>2, <2>1 DEF Lossy, Numbers
<1>14. <<x, 0>> = <<t, f>> <=> x = t /\ f = 0
  OBVIOUS
<1> QED BY <1>3, <1>8, <1>12, <1>13, <1>14 DEF IsTold

\* A number of three bytes.
LEMMA ThreeBytes ==
    ASSUME NEW v \in Nat, v \div 65536 <= 255
    PROVE  UnsignedFits(v, 3)
<1>1. PICK x, y, z : x = Shifted(v, 1) /\ y = Shifted(v, 2) /\ z = Shifted(v, 3)
  OBVIOUS
<1>2. x = v \div 256 /\ y = x \div 256 /\ z = y \div 256
  <2>1. 0 + 1 = 1 /\ 1 + 1 = 2 /\ 2 + 1 = 3 /\ 0 \in Nat /\ 1 \in Nat /\ 2 \in Nat
    OBVIOUS
  <2> QED BY <1>1, <2>1, ShiftedFacts
<1>3. x \in Nat /\ y \in Nat /\ y <= 255
  BY <1>2
<1>4. z = 0
  BY <1>2, <1>3
<1> QED BY <1>1, <1>4 DEF UnsignedFits

\* The parts of a number of seconds, and those of a number of bits.
ClockParts(n, j, h, m, c) ==
    /\ j \in Nat /\ n = 86400 * j + 3600 * h + 60 * m + c
    /\ h \in 0 .. 23 /\ m \in 0 .. 59 /\ c \in 0 .. 59

AreSeconds(n, h, m, c) ==
    n \in Nat /\ h = (n \div 3600) % 24 /\ m = (n \div 60) % 60 /\ c = n % 60

AreBits(n, h, m, c) ==
    n \in Nat /\ h = (n \div 4096) % 1024 /\ m = (n \div 64) % 64 /\ c = n % 64

LEMMA SecondsParted ==
    ASSUME NEW n, NEW h, NEW m, NEW c, AreSeconds(n, h, m, c)
    PROVE  \E j : ClockParts(n, j, h, m, c)
<1>0. n \in Nat
  BY DEF AreSeconds
<1>1. PICK a, b, j : a = n \div 60 /\ b = a \div 60 /\ j = b \div 24
  OBVIOUS
<1>2. a \in Nat /\ b \in Nat /\ j \in Nat
  BY <1>0, <1>1
<1>3. n = 60 * a + (n % 60) /\ n % 60 \in 0 .. 59
  BY <1>0, <1>1
<1>4. a = 60 * b + (a % 60) /\ a % 60 \in 0 .. 59
  BY <1>1, <1>2
<1>5. b = 24 * j + (b % 24) /\ b % 24 \in 0 .. 23
  BY <1>1, <1>2
<1>6. b = n \div 3600
  BY <1>0, <1>1, <1>2, <1>3, <1>4
<1>7. c = n % 60 /\ m = a % 60 /\ h = b % 24
  BY <1>1, <1>6 DEF AreSeconds
<1>8. ClockParts(n, j, h, m, c)
  BY <1>0, <1>2, <1>3, <1>4, <1>5, <1>7 DEF ClockParts
<1> QED BY <1>8

BitsParted(n, j, h, m, c) ==
    /\ j \in Nat /\ n = 4194304 * j + 4096 * h + 64 * m + c
    /\ h \in 0 .. 1023 /\ m \in 0 .. 63 /\ c \in 0 .. 63

LEMMA BitsInParts ==
    ASSUME NEW n, NEW h, NEW m, NEW c, AreBits(n, h, m, c)
    PROVE  \E j : BitsParted(n, j, h, m, c)
<1>0. n \in Nat
  BY DEF AreBits
<1>1. PICK a, b, j : a = n \div 64 /\ b = a \div 64 /\ j = b \div 1024
  OBVIOUS
<1>2. a \in Nat /\ b \in Nat /\ j \in Nat
  BY <1>0, <1>1, SMT
<1>3. n = 64 * a + (n % 64) /\ n % 64 \in 0 .. 63
  BY <1>0, <1>1, SMT
<1>4. a = 64 * b + (a % 64) /\ a % 64 \in 0 .. 63
  BY SMTT(40), <1>1, <1>2
<1>5. b = 1024 * j + (b % 1024) /\ b % 1024 \in 0 .. 1023
  BY <1>1, <1>2, SMT
<1>6. b = n \div 4096
  BY <1>0, <1>1, <1>2, <1>3, <1>4, SMT
<1>7. c = n % 64 /\ m = a % 64 /\ h = b % 1024
  BY <1>1, <1>6 DEF AreBits
<1>8. BitsParted(n, j, h, m, c)
  BY <1>0, <1>2, <1>3, <1>4, <1>5, <1>7, SMT DEF BitsParted
<1> QED BY <1>8

\* A time, packed into bits or into decimal digits.
IsTime(h, m, c) ==
    /\ h \in Nat /\ m \in Nat /\ c \in Nat
    /\ h <= 838 /\ m <= 59 /\ c <= 59

PackedTime(version56, h, m, c) ==
    IF version56 THEN 4096 * h + 64 * m + c ELSE 10000 * h + 100 * m + c

\* Read as seconds, it is another one, unless it is in the first minute.
LEMMA SecondsTold ==
    ASSUME NEW version56, NEW h, NEW m, NEW c, IsTime(h, m, c),
           NEW j, NEW h2, NEW m2, NEW c2,
           ClockParts(PackedTime(version56, h, m, c), j, h2, m2, c2)
    PROVE  h2 = h /\ m2 = m /\ c2 = c <=> h = 0 /\ m = 0
<1>1. CASE version56
  <2>1. PackedTime(version56, h, m, c) = 4096 * h + 64 * m + c
    BY <1>1 DEF PackedTime
  <2>2. 4096 * h + 64 * m + c = 86400 * j + 3600 * h2 + 60 * m2 + c2
    BY <2>1 DEF ClockParts
  <2> QED BY <2>2 DEF IsTime, ClockParts
<1>2. CASE ~ version56
  <2>1. PackedTime(version56, h, m, c) = 10000 * h + 100 * m + c
    BY <1>2 DEF PackedTime
  <2>2. 10000 * h + 100 * m + c = 86400 * j + 3600 * h2 + 60 * m2 + c2
    BY <2>1 DEF ClockParts
  <2> QED BY <2>2 DEF IsTime, ClockParts
<1> QED BY <1>1, <1>2

LEMMA BitsTold ==
    ASSUME NEW version56, NEW h, NEW m, NEW c, IsTime(h, m, c),
           NEW j, NEW h2, NEW m2, NEW c2,
           BitsParted(128 * 65536 + PackedTime(version56, h, m, c), j, h2, m2, c2)
    PROVE  h2 = h /\ m2 = m /\ c2 = c <=> version56 \/ (h = 0 /\ m = 0)
<1>1. CASE version56
  <2>1. PackedTime(version56, h, m, c) = 4096 * h + 64 * m + c
    BY <1>1 DEF PackedTime
  <2>2. 128 * 65536 + (4096 * h + 64 * m + c) = 4194304 * j + 4096 * h2 + 64 * m2 + c2
    BY <2>1, SMT DEF BitsParted
  <2> QED BY <1>1, <2>2, SMT DEF IsTime, BitsParted
<1>2. CASE ~ version56
  <2>1. PackedTime(version56, h, m, c) = 10000 * h + 100 * m + c
    BY <1>2 DEF PackedTime
  <2>2. 128 * 65536 + (10000 * h + 100 * m + c) = 4194304 * j + 4096 * h2 + 64 * m2 + c2
    BY <2>1, SMT DEF BitsParted
  <2>3. ASSUME h2 = h, m2 = m, c2 = c PROVE h = 0 /\ m = 0
    <3>1. PICK k : k = j - 2
      OBVIOUS
    <3>2. 9 * (164 * h + m) = 1048576 * k
      BY <2>2, <2>3, <3>1, SMT DEF IsTime, BitsParted
    <3>3. k = 0 \/ k = 1
      BY <3>1, <3>2, SMT DEF IsTime, BitsParted
    <3>4. k # 1
      BY <3>2, SMT DEF IsTime
    <3> QED BY <3>2, <3>3, <3>4, SMT DEF IsTime
  <2>4. ASSUME h = 0, m = 0 PROVE h2 = h /\ m2 = m /\ c2 = c
    BY <2>2, <2>4, SMT DEF IsTime, BitsParted
  <2> QED BY <1>2, <2>3, <2>4
<1> QED BY <1>1, <1>2

LEMMA PackedFits ==
    ASSUME NEW version56, NEW h, NEW m, NEW c, IsTime(h, m, c)
    PROVE  /\ PackedTime(version56, h, m, c) \in Nat
           /\ PackedTime(version56, h, m, c) < 128 * 65536
BY SMT DEF IsTime, PackedTime

\* The printed time, of the number that the first three bytes stand for.
PrintedTime(N, bits) ==
    IF bits THEN <<0, (N \div 4096) % 1024, (N \div 64) % 64, N % 64, 0>>
    ELSE LET n == N % (128 * 65536)
         IN  <<0, (n \div 3600) % 24, (n \div 60) % 60, n % 60, 0>>

LEMMA PrintTimeParts ==
    ASSUME NEW bytes, NEW p56, NEW N, N = BigEndian(SubSeq(bytes, 1, 3))
    PROVE  print_time(bytes, p56) = PrintedTime(N, TimeAsBits(Len(bytes), p56))
<1>1. 2^23 = 128 * 65536 /\ 2^12 = 4096 /\ 2^10 = 1024 /\ 2^6 = 64
  BY SMT
<1> QED BY <1>1 DEF print_time, PrintedTime

LEMMA FiveElements ==
    ASSUME NEW S, NEW s \in Seq(S), Len(s) = 5
    PROVE  /\ s[1] \in S /\ s[2] \in S /\ s[3] \in S /\ s[4] \in S /\ s[5] \in S
           /\ s = <<s[1], s[2], s[3], s[4], s[5]>>
<1>1. PICK a, b, c, d, e : a = s[1] /\ b = s[2] /\ c = s[3] /\ d = s[4] /\ e = s[5]
  OBVIOUS
<1>2. PICK t : t = <<a, b, c, d, e>>
  OBVIOUS
<1>3. a \in S /\ b \in S /\ c \in S /\ d \in S /\ e \in S
  BY <1>1
<1>4. t \in Seq(S) /\ Len(t) = 5
  BY <1>2, <1>3
<1>5. ASSUME NEW k \in 1 .. Len(s) PROVE s[k] = t[k]
  <2>1. k = 1 \/ k = 2 \/ k = 3 \/ k = 4 \/ k = 5
    OBVIOUS
  <2> QED BY <1>1, <1>2, <2>1
<1>6. s = t
  BY <1>4, <1>5, SeqEqual
<1> QED BY <1>1, <1>2, <1>3, <1>6

LEMMA TimeTold ==
    ASSUME NEW def, NEW value, NEW after, NEW p56, def.type = "TIME", ValueOK(def, value)
    PROVE  IsTold(def, value, after, p56)
<1>1. PICK s, h, m, c, f :
         s = value[1] /\ h = value[2] /\ m = value[3] /\ c = value[4] /\ f = value[5]
  OBVIOUS
<1>2. value \in Seq(Nat) /\ Len(value) = 5
  BY DEF ValueOK
<1>3. value = <<s, h, m, c, f>> /\ s \in Nat /\ f \in Nat /\ IsTime(h, m, c)
  <2>1. value = <<value[1], value[2], value[3], value[4], value[5]>>
    BY <1>2, FiveElements
  <2>2. value = <<s, h, m, c, f>>
    BY <1>1, <2>1
  <2>3. /\ value[1] \in Nat /\ value[2] \in Nat /\ value[3] \in Nat
        /\ value[4] \in Nat /\ value[5] \in Nat
    BY <1>2, FiveElements
  <2>4. Clock(h, m, c, 838)
    BY <1>1 DEF ValueOK
  <2> QED BY <1>1, <2>2, <2>3, <2>4 DEF IsTime, Clock
<1>4. s = 0 \/ s = 1
  <2>1. s <= 1
    BY <1>1 DEF ValueOK
  <2> QED BY <1>3, <2>1
<1>5. def.length \in 3 .. 6
  <2>1. def.length \in 3 .. (IF def.version56 THEN 6 ELSE 3)
    BY DEF ValueOK
  <2> QED BY <2>1
<1>6. PICK packed, N : /\ packed = PackedTime(def.version56, h, m, c)
                       /\ N = 128 * 65536 + (IF s = 1 THEN -packed ELSE packed)
  OBVIOUS
<1>7. packed \in Nat /\ packed < 128 * 65536
  BY <1>3, <1>6, PackedFits
<1>8. N \in Nat /\ N \div 65536 <= 255
  BY <1>6, <1>7, SMT
<1>9. UnsignedFits(N, 3)
  BY <1>8, ThreeBytes
<1>10. PICK n, k : n = 3 /\ k = def.length - 3
  OBVIOUS
<1>11. n \in Nat /\ n > 0 /\ k \in Nat /\ UnsignedFits(N, n) /\ n + k = def.length
  BY <1>5, <1>9, <1>10
<1>12. PICK b, d : b = ToBytes(N, n) /\ d = ToBytes(f, k)
  OBVIOUS
<1>13. b \in Seq(Byte) /\ d \in Seq(Byte) /\ Len(b) = n /\ Len(d) = k
  <2>1. N \in Int /\ f \in Int
    BY <1>3, <1>8
  <2> QED BY <1>11, <1>12, <2>1, NumberOfBytes
<1>14. Stored(def, value) = b \o d
  <2>1. Stored(def, value) = StoredTime(def, value)
    BY SMT DEF Stored, Texts
  <2>2. 2^23 = 128 * 65536 /\ 2^12 = 4096 /\ 2^6 = 64
    BY SMT
  <2>3. packed = IF def.version56 THEN h * 4096 + m * 64 + c ELSE h * 10000 + m * 100 + c
    <3>1. h * 4096 = 4096 * h /\ m * 64 = 64 * m /\ h * 10000 = 10000 * h /\ m * 100 = 100 * m
      BY <1>3 DEF IsTime
    <3> QED BY <1>6, <3>1 DEF PackedTime
  <2>4. StoredTime(def, value) = ToBytes(N, 3) \o ToBytes(f, def.length - 3)
    BY <1>1, <1>6, <2>2, <2>3 DEF StoredTime
  <2> QED BY <1>10, <1>12, <2>1, <2>4
<1>15. SubSeq(b \o d, 1, 3) = b /\ Len(b \o d) = def.length
  <2>1. SubSeq(b \o d, 1, n) = b
    BY <1>11, <1>13, FirstPart
  <2>2. Len(b \o d) = n + k
    BY <1>13
  <2> QED BY <1>10, <1>11, <2>1, <2>2
<1>16. BigEndian(b) = N
  BY <1>8, <1>11, <1>12, UnsignedRead
<1>17. PICK bits \in BOOLEAN : bits = TimeAsBits(def.length, p56)
  BY DEF TimeAsBits
<1>18. Decoded(def, b \o d, after, p56) = PrintedTime(N, bits)
  <2>1. N = BigEndian(SubSeq(b \o d, 1, 3))
    BY <1>15, <1>16
  <2>2. print_time(b \o d, p56) = PrintedTime(N, TimeAsBits(Len(b \o d), p56))
    BY <2>1, PrintTimeParts
  <2> QED BY <1>15, <1>17, <2>2 DEF Decoded
<1>19. Lossy(def, value, after, p56) <=>
          s = 1 \/ f # 0 \/ (~ (def.version56 /\ bits) /\ (h > 0 \/ m > 0))
  BY <1>1, <1>17 DEF Lossy, Numbers, LossyTime
<1>20. PICK h2, m2, c2 : PrintedTime(N, bits) = <<0, h2, m2, c2, 0>> /\
          (s = 0 => ((h2 = h /\ m2 = m /\ c2 = c) <=>
                     ((def.version56 /\ bits) \/ (h = 0 /\ m = 0))))
  <2>1. CASE bits
    <3>1. PICK h2, m2, c2 : h2 = (N \div 4096) % 1024 /\ m2 = (N \div 64) % 64 /\ c2 = N % 64
      OBVIOUS
    <3>2. PrintedTime(N, bits) = <<0, h2, m2, c2, 0>>
      BY <2>1, <3>1 DEF PrintedTime
    <3>3. ASSUME s = 0
          PROVE  h2 = h /\ m2 = m /\ c2 = c <=> def.version56 \/ (h = 0 /\ m = 0)
      <4>1. N = 128 * 65536 + PackedTime(def.version56, h, m, c)
        BY <1>6, <3>3
      <4>2. PICK j : BitsParted(N, j, h2, m2, c2)
        <5>1. AreBits(N, h2, m2, c2)
          BY <1>8, <3>1 DEF AreBits
        <5> QED BY <5>1, BitsInParts
      <4> QED BY <1>3, <4>1, <4>2, BitsTold
    <3> QED BY <2>1, <3>2, <3>3
  <2>2. CASE ~ bits
    <3>1. PICK r : r = N % (128 * 65536)
      OBVIOUS
    <3>2. PICK h2, m2, c2 : h2 = (r \div 3600) % 24 /\ m2 = (r \div 60) % 60 /\ c2 = r % 60
      OBVIOUS
    <3>3. PrintedTime(N, bits) = <<0, h2, m2, c2, 0>>
      BY <2>2, <3>1, <3>2 DEF PrintedTime
    <3>4. ASSUME s = 0
          PROVE  h2 = h /\ m2 = m /\ c2 = c <=> h = 0 /\ m = 0
      <4>1. r = PackedTime(def.version56, h, m, c) /\ r \in Nat
        <5>1. N = 128 * 65536 + packed
          BY <1>6, <3>4
        <5>2. r = packed
          BY <1>7, <3>1, <5>1, SMT
        <5> QED BY <1>6, <1>7, <5>2
      <4>2. PICK j : ClockParts(r, j, h2, m2, c2)
        <5>1. AreSeconds(r, h2, m2, c2)
          BY <3>2, <4>1 DEF AreSeconds
        <5> QED BY <5>1, SecondsParted
      <4> QED BY <1>3, <4>1, <4>2, SecondsTold
    <3> QED BY <2>2, <3>3, <3>4
  <2> QED BY <2>1, <2>2
<1>21. <<0, h2, m2, c2, 0>> = <<s, h, m, c, f>> <=> s = 0 /\ f = 0 /\ h2 = h /\ m2 = m /\ c2 = c
  OBVIOUS
<1>22. (h > 0 \/ m > 0) <=> ~ (h = 0 /\ m = 0)
  BY <1>3 DEF IsTime
<1>23. <<0, h2, m2, c2, 0>> = value <=> ~ Lossy(def, value, after, p56)
  <2>1. <<0, h2, m2, c2, 0>> = value <=> s = 0 /\ f = 0 /\ h2 = h /\ m2 = m /\ c2 = c
    BY <1>3, <1>21
  <2>2. s = 0 <=> ~ (s = 1)
    BY <1>4
  <2> QED BY <1>19, <1>20, <1>22, <2>1, <2>2
<1>24. Decoded(def, Stored(def, value), after, p56) = <<0, h2, m2, c2, 0>>
  BY <1>14, <1>18, <1>20
<1> QED BY <1>23, <1>24 DEF IsTold

\* Eight bytes, one by one.
Eight(b1, b2, b3, b4, b5, b6, b7, b8) ==
    256 * (256 * (256 * (256 * (256 * (256 * (256 * b1 + b2) + b3) + b4) + b5) + b6) + b7) + b8

LEMMA EightElements ==
    ASSUME NEW S, NEW s \in Seq(S), Len(s) = 8
    PROVE  /\ s[1] \in S /\ s[2] \in S /\ s[3] \in S /\ s[4] \in S
           /\ s[5] \in S /\ s[6] \in S /\ s[7] \in S /\ s[8] \in S
<1>1. /\ 1 \in 1 .. 8 /\ 2 \in 1 .. 8 /\ 3 \in 1 .. 8 /\ 4 \in 1 .. 8
      /\ 5 \in 1 .. 8 /\ 6 \in 1 .. 8 /\ 7 \in 1 .. 8 /\ 8 \in 1 .. 8
  OBVIOUS
<1> QED BY <1>1, ElementOfSeq

LEMMA NumberOfEight ==
    ASSUME NEW bytes \in EightBytes
    PROVE  BigEndian(bytes) =
             Eight(bytes[1], bytes[2], bytes[3], bytes[4], bytes[5], bytes[6], bytes[7], bytes[8])
<1>1. bytes \in Seq(Byte) /\ Len(bytes) = 8
  BY DEF EightBytes
<1>2. PICK f : IsNumber(f, 0, bytes) /\ BigEndian(bytes) = f[Len(bytes)]
  BY <1>1, BigEndianUnfolds
<1>3. f[0] = 0 /\ \A k \in 1 .. 8 : f[k] = 256 * f[k - 1] + bytes[k]
  BY <1>1, <1>2 DEF IsNumber
<1>4. /\ f[1] = 256 * f[0] + bytes[1] /\ f[2] = 256 * f[1] + bytes[2]
      /\ f[3] = 256 * f[2] + bytes[3] /\ f[4] = 256 * f[3] + bytes[4]
      /\ f[5] = 256 * f[4] + bytes[5] /\ f[6] = 256 * f[5] + bytes[6]
      /\ f[7] = 256 * f[6] + bytes[7] /\ f[8] = 256 * f[7] + bytes[8]
  <2>1. /\ 1 - 1 = 0 /\ 2 - 1 = 1 /\ 3 - 1 = 2 /\ 4 - 1 = 3 /\ 5 - 1 = 4
        /\ 6 - 1 = 5 /\ 7 - 1 = 6 /\ 8 - 1 = 7
        /\ 1 \in 1 .. 8 /\ 2 \in 1 .. 8 /\ 3 \in 1 .. 8 /\ 4 \in 1 .. 8
        /\ 5 \in 1 .. 8 /\ 6 \in 1 .. 8 /\ 7 \in 1 .. 8 /\ 8 \in 1 .. 8
    OBVIOUS
  <2> QED BY <1>3, <2>1
<1>5. PICK b : b = bytes[1]
  OBVIOUS
<1>6. f[1] = b
  <2>1. b \in 0 .. 255
    BY <1>1, <1>5, EightElements DEF Byte
  <2>2. f[1] = 256 * 0 + b
    BY <1>3, <1>4, <1>5
  <2> QED BY <2>1, <2>2
<1>7. BigEndian(bytes) = f[8]
  BY <1>1, <1>2
<1> QED BY <1>4, <1>5, <1>6, <1>7 DEF Eight

LEMMA NumberIsInt ==
    ASSUME NEW bytes \in EightBytes
    PROVE  BigEndian(bytes) \in Int
<1>1. bytes \in Seq(Byte) /\ Len(bytes) = 8 /\ bytes # << >>
  <2>1. bytes \in Seq(Byte) /\ Len(bytes) = 8
    BY DEF EightBytes
  <2>2. bytes # << >>
    BY ONLY <2>1
  <2> QED BY <2>1, <2>2
<1>2. PICK f : IsNumber(f, 0, bytes) /\ BigEndian(bytes) = f[Len(bytes)]
  BY <1>1, BigEndianUnfolds
<1>3. 8 \in 0 .. Len(bytes)
  BY <1>1
<1> QED BY <1>1, <1>2, <1>3 DEF IsNumber

Digit(b) == b \in 0 .. 255

\* A date whose sign bit is set is never taken for one with decimal digits: the
\* year is read from a number that is larger by 2^63, which ends with 5808.
LEMMA NeverDecimal ==
    ASSUME NEW bytes \in EightBytes, bytes[1] >= 128
    PROVE  ~ Plausible(Divide(bytes, 10000).rest, DecimalParts(bytes))
<1>1. bytes \in Seq(Byte) /\ Len(bytes) = 8 /\ bytes # << >>
  <2>1. bytes \in Seq(Byte) /\ Len(bytes) = 8
    BY DEF EightBytes
  <2>2. bytes # << >>
    BY ONLY <2>1
  <2> QED BY <2>1, <2>2
<1>2. PICK b1, b2, b3, b4, b5, b6, b7, b8 :
        /\ b1 = bytes[1] /\ b2 = bytes[2] /\ b3 = bytes[3] /\ b4 = bytes[4]
        /\ b5 = bytes[5] /\ b6 = bytes[6] /\ b7 = bytes[7] /\ b8 = bytes[8]
  OBVIOUS
<1>3. /\ Digit(b1) /\ Digit(b2) /\ Digit(b3) /\ Digit(b4)
      /\ Digit(b5) /\ Digit(b6) /\ Digit(b7) /\ Digit(b8) /\ b1 >= 128
  <2>1. bytes \in Seq(Byte) /\ Len(bytes) = 8
    BY <1>1
  <2>2. /\ bytes[1] \in Byte /\ bytes[2] \in Byte /\ bytes[3] \in Byte /\ bytes[4] \in Byte
        /\ bytes[5] \in Byte /\ bytes[6] \in Byte /\ bytes[7] \in Byte /\ bytes[8] \in Byte
    BY <2>1, EightElements
  <2> QED BY <1>2, <2>2 DEF Digit, Byte
<1>4. PICK t : t = Tail(bytes)
  OBVIOUS
<1>5. t \in Seq(Byte) /\ Len(t) = 7 /\ Head(bytes) = b1
  BY <1>1, <1>2, <1>4, Rejoined
<1>6. PICK c1 : c1 = b1 % 128
  OBVIOUS
<1>7. Digit(c1) /\ b1 = c1 + 128 /\ c1 \in Byte
  BY <1>3, <1>6 DEF Digit, Byte
<1>8. PICK u : u = <<Head(bytes) % 128>> \o Tail(bytes)
  OBVIOUS
<1>9. u = <<c1>> \o t
  BY <1>4, <1>5, <1>6, <1>8
<1>10. u \in EightBytes
  <2>1. u \in Seq(Byte) /\ Len(u) = Len(t) + 1
    BY ZenonT(60), <1>5, <1>7, <1>9, Prepended
  <2> QED BY <1>5, <2>1 DEF EightBytes
<1>11. /\ u[1] = c1 /\ u[2] = b2 /\ u[3] = b3 /\ u[4] = b4
       /\ u[5] = b5 /\ u[6] = b6 /\ u[7] = b7 /\ u[8] = b8
  <2>1. u[1] = c1
    BY <1>5, <1>9
  <2>2. ASSUME NEW k \in 2 .. 8 PROVE u[k] = bytes[k]
    <3>1. k - 1 \in 1 .. 7 /\ (k - 1) + 1 = k
      OBVIOUS
    <3>2. u[k] = t[k - 1]
      BY <1>5, <1>9
    <3>3. t[k - 1] = bytes[(k - 1) + 1]
      BY <1>1, <1>4, <1>5, <3>1, HeadTailProperties
    <3> QED BY <3>1, <3>2, <3>3
  <2>3. /\ 2 \in 2 .. 8 /\ 3 \in 2 .. 8 /\ 4 \in 2 .. 8 /\ 5 \in 2 .. 8
        /\ 6 \in 2 .. 8 /\ 7 \in 2 .. 8 /\ 8 \in 2 .. 8
    OBVIOUS
  <2> QED BY <1>2, <2>1, <2>2, <2>3
<1>12. PICK V, U : V = BigEndian(bytes) /\ U = BigEndian(u)
  OBVIOUS
<1>13. /\ V = Eight(b1, b2, b3, b4, b5, b6, b7, b8)
       /\ U = Eight(c1, b2, b3, b4, b5, b6, b7, b8)
  <2>1. V = Eight(b1, b2, b3, b4, b5, b6, b7, b8)
    BY <1>2, <1>12, NumberOfEight
  <2>2. U = Eight(c1, b2, b3, b4, b5, b6, b7, b8)
    BY <1>10, <1>11, <1>12, NumberOfEight
  <2> QED BY <2>1, <2>2
<1>14. U \in Int /\ V \in Int /\ V = U + 9223372036854775808
  BY <1>3, <1>7, <1>13, SMT DEF Eight, Digit
<1>15. PICK sec, min : sec = Divide(u, 100) /\ min = Divide(sec.quotient, 100)
  OBVIOUS
<1>16. PICK Q1, Q2, s, m : /\ Q1 = BigEndian(sec.quotient) /\ Q2 = BigEndian(min.quotient)
                           /\ s = sec.rest /\ m = min.rest
  OBVIOUS
<1>17. U = 100 * Q1 + s /\ Q1 = 100 * Q2 + m /\ Q2 \in Int /\ Q1 \in Int
  <2>1. 100 \in Divisors
    BY DEF Divisors
  <2>2. u \in Seq(Byte) /\ Len(u) = 8
    BY <1>10 DEF EightBytes
  <2>3. IsDivided(u, 100, sec)
    BY <1>15, <2>1, <2>2, DividedNumber
  <2>4. sec.quotient \in Seq(Byte) /\ Len(sec.quotient) = 8
    BY <2>2, <2>3 DEF IsDivided
  <2>5. IsDivided(sec.quotient, 100, min)
    BY <1>15, <2>1, <2>4, DividedNumber
  <2>6. min.quotient \in Seq(Byte) /\ Len(min.quotient) = 8
    BY <2>4, <2>5 DEF IsDivided
  <2>7. sec.quotient \in EightBytes /\ min.quotient \in EightBytes
    BY <2>4, <2>6 DEF EightBytes
  <2>8. Q1 \in Int /\ Q2 \in Int
    BY <1>16, <2>7, NumberIsInt
  <2> QED BY <1>12, <1>16, <2>3, <2>5, <2>8 DEF IsDivided
<1>18. PICK d, r, Q : d = Divide(bytes, 10000) /\ r = d.rest /\ Q = BigEndian(d.quotient)
  OBVIOUS
<1>19. V = 10000 * Q + r /\ r \in Int /\ Q \in Int
  <2>1. 10000 \in Divisors
    BY DEF Divisors
  <2>2. IsDivided(bytes, 10000, d)
    BY <1>1, <1>18, <2>1, DividedNumber
  <2>3. d.quotient \in EightBytes
    BY <1>1, <2>2 DEF IsDivided, EightBytes
  <2>4. Q \in Int
    BY <1>18, <2>3, NumberIsInt
  <2> QED BY <1>12, <1>18, <2>2, <2>4 DEF IsDivided
<1>20. DecimalParts(bytes)[5] = m /\ DecimalParts(bytes)[6] = s
  <2> DEFINE s1 == Divide(u, 100)
             s2 == Divide(s1.quotient, 100)
             s3 == Divide(s2.quotient, 100)
             s4 == Divide(s3.quotient, 100)
             s5 == Divide(s4.quotient, 100)
  <2>1. DecimalParts(bytes) =
          <<Divide(s5.quotient, 10000).rest, s5.rest, s4.rest, s3.rest, s2.rest, s1.rest>>
    BY ONLY <1>8 DEF DecimalParts
  <2> HIDE DEF s3, s4, s5
  <2>2. s1.rest = s /\ s2.rest = m
    BY <1>15, <1>16
  <2> HIDE DEF s1, s2
  <2> QED BY <2>1, <2>2
<1>21. SUFFICES ASSUME 1990 < r, r < 2100, m <= 59, s <= 59 PROVE FALSE
  BY <1>18, <1>20 DEF Plausible
<1>22. s >= 0 /\ m >= 0 /\ s \in Int /\ m \in Int
  <2>1. 100 \in Divisors
    BY DEF Divisors
  <2>2. u \in Seq(Byte) /\ Len(u) = 8
    BY <1>10 DEF EightBytes
  <2>3. IsDivided(u, 100, sec)
    BY <1>15, <2>1, <2>2, DividedNumber
  <2>4. sec.quotient \in Seq(Byte) /\ Len(sec.quotient) = 8
    BY <2>2, <2>3 DEF IsDivided
  <2>5. IsDivided(sec.quotient, 100, min)
    BY <1>15, <2>1, <2>4, DividedNumber
  <2> QED BY <1>16, <2>3, <2>5 DEF IsDivided
<1>23. 10000 * Q + r = 100 * (100 * Q2 + m) + s + 9223372036854775808
  BY <1>14, <1>17, <1>19, <1>22, SMT
<1>24. r - (100 * m + s) - 5808 = 10000 * (Q2 - Q + 922337203685477)
  BY <1>17, <1>19, <1>22, <1>23, SMT
<1> QED BY <1>17, <1>19, <1>21, <1>22, <1>24, SMT

\* A date and a time in bits, and their parts.
PackedDate(y, mo, d, h, mi, s) ==
    LET ym == y * 13 + mo
    IN  <<128 + ym \div 1024, (ym \div 4) % 256, (ym % 4) * 64 + d * 2 + h \div 16,
          (h % 16) * 16 + mi \div 4, (mi % 4) * 64 + s>>

IsDate(y, mo, d, h, mi, s) ==
    /\ y \in Nat /\ mo \in Nat /\ d \in Nat /\ h \in Nat /\ mi \in Nat /\ s \in Nat
    /\ y <= 9999 /\ mo <= 12 /\ d <= 31 /\ h <= 23 /\ mi <= 59 /\ s <= 59

FirstFive(bytes, p) ==
    bytes[1] = p[1] /\ bytes[2] = p[2] /\ bytes[3] = p[3] /\ bytes[4] = p[4] /\ bytes[5] = p[5]

LEMMA PackedDateType ==
    ASSUME NEW y, NEW mo, NEW d, NEW h, NEW mi, NEW s, IsDate(y, mo, d, h, mi, s)
    PROVE  /\ PackedDate(y, mo, d, h, mi, s) \in Seq(Byte)
           /\ Len(PackedDate(y, mo, d, h, mi, s)) = 5
           /\ PackedDate(y, mo, d, h, mi, s)[1] >= 128
<1>1. PICK ym : ym = y * 13 + mo
  OBVIOUS
<1>2. ym \in Nat /\ ym <= 129999
  BY <1>1, SMT DEF IsDate
<1>3. PICK b1, b2, b3, b4, b5 :
        /\ b1 = 128 + ym \div 1024 /\ b2 = (ym \div 4) % 256
        /\ b3 = (ym % 4) * 64 + d * 2 + h \div 16 /\ b4 = (h % 16) * 16 + mi \div 4
        /\ b5 = (mi % 4) * 64 + s
  OBVIOUS
<1>4. b1 \in 128 .. 254 /\ b2 \in 0 .. 255
  BY <1>2, <1>3, SMT
<1>5. b3 \in 0 .. 255
  BY <1>2, <1>3, SMT DEF IsDate
<1>6. b4 \in 0 .. 255 /\ b5 \in 0 .. 255
  BY <1>3, SMT DEF IsDate
<1>7. PackedDate(y, mo, d, h, mi, s) = <<b1, b2, b3, b4, b5>>
  BY <1>1, <1>3 DEF PackedDate
<1>8. b1 \in Byte /\ b2 \in Byte /\ b3 \in Byte /\ b4 \in Byte /\ b5 \in Byte /\ b1 >= 128
  BY <1>4, <1>5, <1>6 DEF Byte
<1>9. PICK p : p = <<b1, b2, b3, b4, b5>>
  OBVIOUS
<1>10. p \in Seq(Byte) /\ Len(p) = 5 /\ p[1] >= 128
  BY <1>8, <1>9
<1> QED BY <1>7, <1>9, <1>10

LEMMA BitsOfDate ==
    ASSUME NEW y, NEW mo, NEW d, NEW h, NEW mi, NEW s, IsDate(y, mo, d, h, mi, s),
           NEW bytes, FirstFive(bytes, PackedDate(y, mo, d, h, mi, s))
    PROVE  BitParts(bytes) = <<y, mo, d, h, mi, s>>
<1>1. PICK ym : ym = y * 13 + mo
  OBVIOUS
<1>2. ym \in Nat /\ ym <= 129999 /\ ym \div 13 = y /\ ym % 13 = mo
  BY <1>1, SMT DEF IsDate
<1>3. PICK b1, b2, b3, b4, b5 :
        /\ b1 = 128 + ym \div 1024 /\ b2 = (ym \div 4) % 256
        /\ b3 = (ym % 4) * 64 + d * 2 + h \div 16 /\ b4 = (h % 16) * 16 + mi \div 4
        /\ b5 = (mi % 4) * 64 + s
  OBVIOUS
<1>4. PackedDate(y, mo, d, h, mi, s) = <<b1, b2, b3, b4, b5>>
  BY <1>1, <1>3 DEF PackedDate
<1>5. bytes[1] = b1 /\ bytes[2] = b2 /\ bytes[3] = b3 /\ bytes[4] = b4 /\ bytes[5] = b5
  BY <1>4 DEF FirstFive
<1>6. b3 \div 64 = ym % 4 /\ (b3 % 64) \div 2 = d /\ b3 % 2 = h \div 16
  <2>1. PICK q, r : q = ym % 4 /\ r = h \div 16
    OBVIOUS
  <2>2. q \in 0 .. 3 /\ r \in 0 .. 1
    BY <1>2, <2>1, SMT DEF IsDate
  <2>3. b3 = q * 64 + d * 2 + r
    BY <1>3, <2>1
  <2>4. PICK w : w = d * 2 + r
    OBVIOUS
  <2>5. w \in 0 .. 63 /\ w \div 2 = d /\ w % 2 = r
    BY <2>2, <2>4, SMT DEF IsDate
  <2>6. b3 = q * 64 + w
    BY <2>2, <2>3, <2>4, <2>5, SMT DEF IsDate
  <2>7. b3 \div 64 = q /\ b3 % 64 = w /\ b3 % 2 = w % 2
    BY <2>2, <2>5, <2>6, SMT
  <2> QED BY <2>1, <2>5, <2>7
<1>7. b4 \div 16 = h % 16 /\ b4 % 16 = mi \div 4
  BY <1>3, SMT DEF IsDate
<1>8. b5 \div 64 = mi % 4 /\ b5 % 64 = s
  BY <1>3, SMT DEF IsDate
<1>9. (b1 % 128) * 1024 + b2 * 4 + b3 \div 64 = ym
  <2>1. PICK q, r : q = ym \div 1024 /\ r = ym \div 4
    OBVIOUS
  <2>2. q \in 0 .. 126 /\ r \in Nat /\ ym = 4 * r + (ym % 4)
    BY <1>2, <2>1, SMT
  <2>3. r \div 256 = q
    BY <1>2, <2>1, SMT
  <2>4. r = 256 * q + (r % 256)
    BY <2>2, <2>3, SMT
  <2>5. b1 % 128 = q /\ b2 = r % 256
    BY <1>3, <2>1, <2>2, SMT
  <2> QED BY <1>6, <2>2, <2>4, <2>5, SMT
<1>10. (h \div 16) * 16 + (h % 16) = h /\ (mi \div 4) * 4 + (mi % 4) = mi
  BY SMT DEF IsDate
<1> DEFINE yd == (bytes[1] % 128) * 1024 + bytes[2] * 4 + bytes[3] \div 64
<1>11. BitParts(bytes) =
        <<yd \div 13, yd % 13, (bytes[3] % 64) \div 2, (bytes[3] % 2) * 16 + bytes[4] \div 16,
          (bytes[4] % 16) * 4 + bytes[5] \div 64, bytes[5] % 64>>
  BY DEF BitParts
<1>12. yd = ym
  BY <1>5, <1>9
<1> HIDE DEF yd
<1>13. BitParts(bytes) =
        <<ym \div 13, ym % 13, (b3 % 64) \div 2, (b3 % 2) * 16 + b4 \div 16,
          (b4 % 16) * 4 + b5 \div 64, b5 % 64>>
  BY <1>5, <1>11, <1>12
<1>14. (b3 % 2) * 16 + b4 \div 16 = h /\ (b4 % 16) * 4 + b5 \div 64 = mi
  BY <1>6, <1>7, <1>8, <1>10
<1> QED BY <1>2, <1>6, <1>8, <1>13, <1>14

\* The dates that guess_datetime_format recognises.
IsRecognised(y, mo, d) == 1990 < y /\ y < 2100 /\ mo # 0 /\ d # 0

\* What is printed of a DATETIME whose sign bit is set.
LEMMA PrintedBits ==
    ASSUME NEW y, NEW mo, NEW d, NEW h, NEW mi, NEW s, IsDate(y, mo, d, h, mi, s),
           NEW bytes \in EightBytes, FirstFive(bytes, PackedDate(y, mo, d, h, mi, s))
    PROVE  print_datetime(bytes) =
             Append(IF IsRecognised(y, mo, d) THEN <<y, mo, d, h, mi, s>>
                    ELSE DecimalParts(bytes), 0)
<1>1. bytes[1] >= 128
  <2>1. PackedDate(y, mo, d, h, mi, s)[1] >= 128
    BY PackedDateType
  <2> QED BY <2>1 DEF FirstFive
<1>2. ~ Plausible(Divide(bytes, 10000).rest, DecimalParts(bytes))
  BY <1>1, NeverDecimal
<1>3. BitParts(bytes) = <<y, mo, d, h, mi, s>>
  BY BitsOfDate
<1>4. Head(bytes) >= 128
  <2>1. bytes \in Seq(Byte) /\ Len(bytes) = 8
    BY DEF EightBytes
  <2>2. bytes # << >>
    BY ONLY <2>1
  <2>3. Head(bytes) = bytes[1]
    BY <2>1, <2>2, Rejoined
  <2> QED BY <1>1, <2>3
<1>5. PICK bits : bits = BitParts(bytes)
  OBVIOUS
<1>6. Plausible(bits[1], bits) <=> IsRecognised(y, mo, d)
  <2>1. /\ bits[1] = y /\ bits[2] = mo /\ bits[3] = d
        /\ bits[4] = h /\ bits[5] = mi /\ bits[6] = s
    BY <1>3, <1>5
  <2>2. (mo \in 1 .. 12 <=> mo # 0) /\ (d \in 1 .. 31 <=> d # 0)
    BY DEF IsDate
  <2>3. h <= 23 /\ mi <= 59 /\ s <= 59
    BY DEF IsDate
  <2> QED BY <2>1, <2>2, <2>3 DEF Plausible, IsRecognised
<1>7. guess_datetime_format(bytes) = 2 <=> IsRecognised(y, mo, d)
  <2>1. guess_datetime_format(bytes) = IF Plausible(bits[1], bits) THEN 2 ELSE 0
    BY <1>2, <1>4, <1>5 DEF guess_datetime_format
  <2> QED BY <1>6, <2>1
<1> QED BY <1>3, <1>7 DEF print_datetime

LEMMA SixAppended ==
    ASSUME NEW a, NEW b, NEW c, NEW d, NEW e, NEW f, NEW g
    PROVE  Append(<<a, b, c, d, e, f>>, g) = <<a, b, c, d, e, f, g>>
<1>1. PICK S : S = {a, b, c, d, e, f, g}
  BY Zenon
<1>2. PICK s, t : s = <<a, b, c, d, e, f>> /\ t = <<a, b, c, d, e, f, g>>
  OBVIOUS
<1>3. /\ a \in S /\ b \in S /\ c \in S /\ d \in S /\ e \in S /\ f \in S /\ g \in S
  BY <1>1
<1>4. s \in Seq(S) /\ Len(s) = 6 /\ t \in Seq(S) /\ Len(t) = 7
  BY <1>2, <1>3
<1>5. PICK u : u = Append(s, g)
  OBVIOUS
<1>6. /\ u \in Seq(S) /\ Len(u) = 7 /\ u[7] = g
      /\ \A k \in 1 .. 6 : u[k] = s[k]
  <2>1. s \in Seq(S) /\ g \in S
    BY <1>3, <1>4
  <2>2. /\ Append(s, g) \in Seq(S) /\ Len(Append(s, g)) = Len(s) + 1
        /\ \A k \in 1 .. Len(s) : Append(s, g)[k] = s[k]
        /\ Append(s, g)[Len(s) + 1] = g
    BY ONLY <2>1, AppendProperties
  <2> QED BY <1>4, <1>5, <2>2
<1>7. ASSUME NEW k \in 1 .. Len(u) PROVE u[k] = t[k]
  <2>1. k = 1 \/ k = 2 \/ k = 3 \/ k = 4 \/ k = 5 \/ k = 6 \/ k = 7
    BY <1>6
  <2>2. u[1] = a /\ u[2] = b /\ u[3] = c /\ u[4] = d /\ u[5] = e /\ u[6] = f /\ u[7] = g
    BY <1>2, <1>6
  <2>3. t[1] = a /\ t[2] = b /\ t[3] = c /\ t[4] = d /\ t[5] = e /\ t[6] = f /\ t[7] = g
    BY <1>2
  <2> QED BY <2>1, <2>2, <2>3
<1>8. u = t
  BY <1>4, <1>6, <1>7, SeqEqual
<1> QED BY <1>2, <1>5, <1>8

LEMMA SevenTuple ==
    ASSUME NEW S, NEW s \in Seq(S), Len(s) = 7
    PROVE  s = Append(<<s[1], s[2], s[3], s[4], s[5], s[6]>>, s[7])
<1>1. PICK a, b, c, d, e, f, g : /\ a = s[1] /\ b = s[2] /\ c = s[3] /\ d = s[4] /\ e = s[5]
                                 /\ f = s[6] /\ g = s[7]
  OBVIOUS
<1>2. PICK t : t = <<a, b, c, d, e, f, g>>
  OBVIOUS
<1>3. a \in S /\ b \in S /\ c \in S /\ d \in S /\ e \in S /\ f \in S /\ g \in S
  BY <1>1, SevenElements
<1>4. t \in Seq(S) /\ Len(t) = 7
  BY <1>2, <1>3
<1>5. ASSUME NEW k \in 1 .. Len(s) PROVE s[k] = t[k]
  <2>1. k = 1 \/ k = 2 \/ k = 3 \/ k = 4 \/ k = 5 \/ k = 6 \/ k = 7
    OBVIOUS
  <2> QED BY <1>1, <1>2, <2>1
<1>6. s = t
  BY <1>4, <1>5, SeqEqual
<1>7. <<a, b, c, d, e, f, g>> = Append(<<a, b, c, d, e, f>>, g)
  OBVIOUS
<1> QED BY <1>1, <1>2, <1>6, <1>7

LEMMA ConcatParts ==
    ASSUME NEW S, NEW p \in Seq(S), NEW q \in Seq(S), NEW t, t = p \o q
    PROVE  /\ t \in Seq(S) /\ Len(p) \in Nat /\ Len(q) \in Nat /\ Len(t) = Len(p) + Len(q)
           /\ \A k \in 1 .. Len(p) : t[k] = p[k]
           /\ \A k \in 1 .. Len(q) : t[Len(p) + k] = q[k]
<1>1. PICK m, n : m = Len(p) /\ n = Len(q)
  OBVIOUS
<1>2. m \in Nat /\ n \in Nat
  BY <1>1
<1>3. /\ t \in Seq(S) /\ Len(t) = m + n
      /\ \A k \in 1 .. m + n : t[k] = IF k <= m THEN p[k] ELSE q[k - m]
  BY <1>1, ConcatProperties
<1>4. ASSUME NEW k \in 1 .. m PROVE t[k] = p[k]
  BY <1>2, <1>3, <1>4
<1>5. ASSUME NEW k \in 1 .. n PROVE t[m + k] = q[k]
  <2>1. m + k \in 1 .. m + n /\ ~ (m + k <= m) /\ (m + k) - m = k
    BY <1>2, <1>5
  <2> QED BY <1>3, <2>1
<1> QED BY <1>1, <1>2, <1>3, <1>4, <1>5

\* Five bytes, what is behind them, and the page.
LEMMA FirstEight ==
    ASSUME NEW p \in Seq(Byte), Len(p) = 5, NEW q \in Seq(Byte), NEW after \in Seq(Byte),
           Len(after) >= 7
    PROVE  /\ SubSeq((p \o q) \o after, 1, 8) \in EightBytes
           /\ FirstFive(SubSeq((p \o q) \o after, 1, 8), p)
<1>1. PICK t : t = (p \o q) \o after
  OBVIOUS
<1>0. PICK v : v = p \o q
  OBVIOUS
<1>13. p \in Seq(Byte) /\ q \in Seq(Byte)
  OBVIOUS
<1>12. /\ v \in Seq(Byte) /\ Len(v) = Len(p) + Len(q) /\ Len(q) \in Nat
       /\ \A k \in 1 .. Len(p) : v[k] = p[k]
  BY ONLY <1>0, <1>13, ConcatParts
<1>10. v \in Seq(Byte) /\ Len(v) = 5 + Len(q) /\ Len(q) \in Nat
  BY <1>12
<1>11. \A k \in 1 .. 5 : v[k] = p[k]
  BY <1>12
<1>14. v \in Seq(Byte) /\ after \in Seq(Byte) /\ t = v \o after
  BY <1>0, <1>1, <1>10
<1>2. t \in Seq(Byte) /\ Len(t) >= 8
  <2>1. t \in Seq(Byte) /\ Len(t) = Len(v) + Len(after)
    BY ONLY <1>14, ConcatParts
  <2> QED BY <1>10, <2>1
<1>3. \A k \in 1 .. 5 : t[k] = p[k]
  <2>1. \A k \in 1 .. Len(v) : t[k] = v[k]
    BY ONLY <1>14, ConcatParts
  <2> QED BY <1>10, <1>11, <2>1
<1>4. PICK n : n = 8
  OBVIOUS
<1>5. PICK u : u = SubSeq(t, 1, n)
  OBVIOUS
<1>6. 1 \in 1 .. Len(t) + 1 /\ n \in 1 - 1 .. Len(t)
  BY <1>2, <1>4
<1>7. u \in Seq(Byte) /\ Len(u) = 8
  BY SMTT(40), <1>2, <1>4, <1>5
<1>8. \A k \in 1 .. 8 : u[k] = t[k]
  BY <1>2, <1>4, <1>5
<1>9. FirstFive(u, p)
  <2>1. /\ 1 \in 1 .. 8 /\ 2 \in 1 .. 8 /\ 3 \in 1 .. 8 /\ 4 \in 1 .. 8 /\ 5 \in 1 .. 8
        /\ 1 \in 1 .. 5 /\ 2 \in 1 .. 5 /\ 3 \in 1 .. 5 /\ 4 \in 1 .. 5 /\ 5 \in 1 .. 5
    OBVIOUS
  <2> QED BY <1>3, <1>8, <2>1 DEF FirstFive
<1> QED BY <1>1, <1>4, <1>5, <1>7, <1>9 DEF EightBytes

LEMMA DatetimeTold ==
    ASSUME NEW def, NEW value, NEW after \in Seq(Byte), Len(after) >= 7, NEW p56,
           def.type = "DATETIME", ValueOK(def, value)
    PROVE  IsTold(def, value, after, p56)
<1>1. PICK y, mo, d, h, mi, s, f :
        /\ y = value[1] /\ mo = value[2] /\ d = value[3]
        /\ h = value[4] /\ mi = value[5] /\ s = value[6] /\ f = value[7]
  OBVIOUS
<1>2. value \in Seq(Nat) /\ Len(value) = 7
  BY DEF ValueOK
<1>3. value = Append(<<y, mo, d, h, mi, s>>, f)
  <2>1. value = Append(<<value[1], value[2], value[3], value[4], value[5], value[6]>>, value[7])
    BY <1>2, SevenTuple
  <2> QED BY <1>1, <2>1
<1>4. IsDate(y, mo, d, h, mi, s) /\ f \in Nat
  <2>1. /\ value[1] \in Nat /\ value[2] \in Nat /\ value[3] \in Nat /\ value[4] \in Nat
        /\ value[5] \in Nat /\ value[6] \in Nat /\ value[7] \in Nat
    BY <1>2, SevenElements
  <2>2. value[1] <= 9999 /\ value[2] <= 12 /\ value[3] <= 31
    BY DEF ValueOK
  <2>3. Clock(h, mi, s, 23)
    BY <1>1 DEF ValueOK
  <2> QED BY <1>1, <2>1, <2>2, <2>3 DEF IsDate, Clock
<1>5. Stored(def, value) = StoredDatetime(def, value)
  BY SMT DEF Stored, Texts
<1>6. PICK bytes : bytes = SubSeq(Stored(def, value) \o after, 1, 8)
  OBVIOUS
<1>7. Decoded(def, Stored(def, value), after, p56) = print_datetime(bytes)
  BY <1>6 DEF Decoded
<1>8. Lossy(def, value, after, p56) <=> LossyDatetime(def, value, after)
  BY DEF Lossy, Numbers
<1>9. ASSUME NEW t, t = <<y, mo, d, h, mi, s>> PROVE Append(t, 0) = value <=> f = 0
  BY <1>3, <1>9
<1>10. CASE ~ def.version56
  <2>1. IsDigits(value)
    BY <1>10 DEF ValueOK, IsDigits, Clock
  <2>2. PICK u : u = FlipSign(FromPairs(DigitPairs(value)))
    OBVIOUS
  <2>3. u \in EightBytes /\ Head(u) % 128 = 0 /\ DecimalParts(u) = <<y, mo, d, h, mi, s>>
    <3>1. DecimalParts(u) = <<value[1], value[2], value[3], value[4], value[5], value[6]>>
      BY <2>1, <2>2, PartsOfPairs
    <3>2. u \in EightBytes /\ Head(u) % 128 = 0
      BY <2>1, <2>2, PartsOfPairs
    <3> QED BY <1>1, <3>1, <3>2
  <2>4. Stored(def, value) = u
    BY <1>5, <1>10, <2>2 DEF StoredDatetime, DigitPairs
  <2>5. u \in Seq(Byte) /\ Len(u) = 8
    BY <2>3 DEF EightBytes
  <2>6. bytes = u
    <3>1. SubSeq(u \o after, 1, Len(u)) = u
      <4>1. Len(u) > 0
        BY <2>5
      <4> QED BY <2>5, <4>1, FirstPart
    <3>2. bytes = SubSeq(u \o after, 1, 8)
      BY <1>6, <2>4
    <3> QED BY <2>5, <3>1, <3>2
  <2>7. guess_datetime_format(u) # 2
    <3>1. PICK b, c, e : b = u[1] /\ c = u[2] /\ e = u[3]
      OBVIOUS
    <3>2. b \in 0 .. 255 /\ c \in 0 .. 255 /\ e \in 0 .. 255 /\ b % 128 = 0
      <4>1. u # << >>
        <5>1. Len(u) > 0
          BY <2>5
        <5> QED BY <2>5, <5>1, NotEmpty
      <4>2. Head(u) = u[1]
        BY <2>5, <4>1, Rejoined
      <4>3. u[1] \in Byte /\ u[2] \in Byte /\ u[3] \in Byte
        BY <2>5, EightElements
      <4> QED BY <2>3, <3>1, <4>2, <4>3 DEF Byte
    <3>3. PICK yd : yd = (b % 128) * 1024 + c * 4 + e \div 64
      OBVIOUS
    <3>4. yd \div 13 <= 78
      BY <3>2, <3>3
    <3>5. BitParts(u)[1] = yd \div 13
      BY <3>1, <3>3 DEF BitParts
    <3>6. PICK z : z = BitParts(u)[1]
      OBVIOUS
    <3>7. ~ (1990 < z)
      <4>1. yd \in Int
        BY <3>2, <3>3
      <4> QED BY <3>4, <3>5, <3>6, <4>1
    <3>8. ~ Plausible(z, BitParts(u))
      BY <3>7 DEF Plausible
    <3> QED BY <3>6, <3>8 DEF guess_datetime_format
  <2>8. print_datetime(bytes) = Append(<<y, mo, d, h, mi, s>>, 0)
    BY <2>3, <2>6, <2>7 DEF print_datetime
  <2>9. f = 0
    BY <1>1, <1>10 DEF ValueOK
  <2>10. ~ LossyDatetime(def, value, after)
    BY <1>10 DEF LossyDatetime
  <2> QED BY <1>3, <1>7, <1>8, <2>8, <2>9, <2>10 DEF IsTold
<1>11. CASE def.version56
  <2>1. PICK p, q : p = PackedDate(y, mo, d, h, mi, s) /\ q = ToBytes(f, def.length - 5)
    OBVIOUS
  <2>2. Stored(def, value) = p \o q
    BY <1>1, <1>5, <1>11, <2>1 DEF StoredDatetime, PackedDate
  <2>3. q \in Seq(Byte)
    <3>1. def.length \in 5 .. 8
      BY <1>11 DEF ValueOK
    <3>2. PICK n : n = def.length - 5
      OBVIOUS
    <3>3. n \in Nat /\ f \in Int
      BY <1>4, <3>1, <3>2
    <3> QED BY <2>1, <3>2, <3>3, NumberOfBytes
  <2>4. p \in Seq(Byte) /\ Len(p) = 5
    BY <1>4, <2>1, PackedDateType
  <2>5. bytes \in EightBytes /\ FirstFive(bytes, p)
    BY <1>6, <2>2, <2>3, <2>4, FirstEight
  <2>7. print_datetime(bytes) =
          Append(IF IsRecognised(y, mo, d) THEN <<y, mo, d, h, mi, s>> ELSE DecimalParts(bytes), 0)
    <3>1. FirstFive(bytes, PackedDate(y, mo, d, h, mi, s))
      BY <2>1, <2>5
    <3> QED BY <1>4, <2>5, <3>1, PrintedBits
  <2>8. PICK t : t = <<y, mo, d, h, mi, s>>
    OBVIOUS
  <2>9. SubSeq(value, 1, 6) = t
    <3>1. PICK n, u : n = 6 /\ u = SubSeq(value, 1, n)
      OBVIOUS
    <3>2. u \in Seq(Nat) /\ Len(u) = 6 /\ \A k \in 1 .. 6 : u[k] = value[k]
      <4>1. value \in Seq(Nat) /\ Len(value) = 7
        BY <1>2
      <4>2. \A k \in 1 .. n : value[k] \in Nat
        <5>1. \A k \in 1 .. 7 : value[k] \in Nat
          BY <4>1, ElementOfSeq
        <5> QED BY SMTT(40), <3>1, <5>1
      <4>3. /\ u \in Seq(Nat) /\ Len(u) = IF 1 <= n THEN (n - 1) + 1 ELSE 0
            /\ \A k \in 1 .. (n - 1) + 1 : u[k] = value[(1 + k) - 1]
        <5>1. n \in Int /\ 1 \in Int
          BY <3>1
        <5> QED BY <3>1, <4>2, <5>1, SubSeqProperties
      <4> QED BY <3>1, <4>3
    <3>3. t \in Seq(Nat) /\ Len(t) = 6
      BY <1>4, <2>8 DEF IsDate
    <3>4. ASSUME NEW k \in 1 .. Len(u) PROVE u[k] = t[k]
      <4>1. k = 1 \/ k = 2 \/ k = 3 \/ k = 4 \/ k = 5 \/ k = 6
        BY <3>2
      <4>2. /\ u[1] = value[1] /\ u[2] = value[2] /\ u[3] = value[3]
            /\ u[4] = value[4] /\ u[5] = value[5] /\ u[6] = value[6]
        BY <3>2
      <4> QED BY <1>1, <2>8, <4>1, <4>2
    <3>5. u = t
      BY <3>2, <3>3, <3>4, SeqEqual
    <3> QED BY <3>1, <3>5
  <2>10. LossyDatetime(def, value, after) <=> 
          f # 0 \/ (~ IsRecognised(y, mo, d) /\ DecimalParts(bytes) # t)
    <3>0. PICK w, x :
            /\ w = DecimalParts(SubSeq(StoredDatetime(def, value) \o after, 1, 8))
            /\ x = SubSeq(value, 1, 6)
      OBVIOUS
    <3>1. LossyDatetime(def, value, after) <=>
            \/ value[7] # 0
            \/ /\ ~ (1990 < value[1] /\ value[1] < 2100 /\ value[2] # 0 /\ value[3] # 0)
               /\ w # x
      BY <1>11, <3>0 DEF LossyDatetime
    <3>2. w = DecimalParts(bytes) /\ x = t
      BY <1>5, <1>6, <2>9, <3>0
    <3>3. (1990 < value[1] /\ value[1] < 2100 /\ value[2] # 0 /\ value[3] # 0) <=>
            IsRecognised(y, mo, d)
      BY <1>1 DEF IsRecognised
    <3> QED BY <1>1, <3>1, <3>2, <3>3
  <2>11. CASE IsRecognised(y, mo, d)
    <3>1. print_datetime(bytes) = Append(t, 0)
      BY <2>7, <2>8, <2>11
    <3>2. Append(t, 0) = value <=> f = 0
      BY <1>9, <2>8
    <3> QED BY <1>7, <1>8, <2>10, <2>11, <3>1, <3>2 DEF IsTold
  <2>12. CASE ~ IsRecognised(y, mo, d)
    <3>1. PICK parts : parts = DecimalParts(bytes)
      OBVIOUS
    <3>2. print_datetime(bytes) = Append(parts, 0)
      BY <2>7, <2>12, <3>1
    <3>3. PICK a, b, c, x, z, w : parts = <<a, b, c, x, z, w>>
      <4> DEFINE s1 == Divide(<<Head(bytes) % 128>> \o Tail(bytes), 100)
                 s2 == Divide(s1.quotient, 100)
                 s3 == Divide(s2.quotient, 100)
                 s4 == Divide(s3.quotient, 100)
                 s5 == Divide(s4.quotient, 100)
      <4>1. DecimalParts(bytes) =
              <<Divide(s5.quotient, 10000).rest, s5.rest, s4.rest, s3.rest, s2.rest, s1.rest>>
        BY ONLY DEF DecimalParts
      <4> HIDE DEF s1, s2, s3, s4, s5
      <4>2. parts =
              <<Divide(s5.quotient, 10000).rest, s5.rest, s4.rest, s3.rest, s2.rest, s1.rest>>
        BY <3>1, <4>1
      <4> QED BY <4>2
    <3>4. Append(parts, 0) = value <=> parts = t /\ f = 0
      <4>1. Append(parts, 0) = <<a, b, c, x, z, w, 0>>
        BY <3>3, SixAppended
      <4>2. value = <<y, mo, d, h, mi, s, f>>
        BY <1>3, SixAppended
      <4>3. <<a, b, c, x, z, w, 0>> = <<y, mo, d, h, mi, s, f>> <=>
              <<a, b, c, x, z, w>> = <<y, mo, d, h, mi, s>> /\ f = 0
        OBVIOUS
      <4> QED BY <2>8, <3>3, <4>1, <4>2, <4>3
    <3> QED BY <1>7, <1>8, <2>10, <2>12, <3>1, <3>2, <3>4 DEF IsTold
  <2> QED BY <2>11, <2>12
<1> QED BY <1>10, <1>11
-----------------------------------------------------------------------------
(* Decimal numbers                                                         *)

\* A number in two's complement is read as it was written.
LEMMA TwosComplementRead ==
    ASSUME NEW v \in Int, NEW n \in Nat, n > 0, SignedFits(v, n), NEW b, b = ToBytes(v, n)
    PROVE  /\ TwosComplement(b) = v /\ b \in Seq(Byte) /\ Len(b) = n
           /\ Head(b) < 128 <=> Shifted(v, n - 1) >= 0
<1>1. PICK x, m : x = Shifted(v, n - 1) /\ m = n - 1
  OBVIOUS
<1>2. m \in Nat /\ x = Shifted(v, m) /\ x \in -128 .. 127
  BY <1>1 DEF SignedFits
<1>3. b \in Seq(Byte) /\ Len(b) = n
  BY NumberOfBytes
<1>4. b # << >>
  <2>1. Len(b) > 0
    BY <1>3
  <2> QED BY <1>3, <2>1, NotEmpty
<1>5. Head(b) = x % 256
  <2>1. Head(b) = b[1]
    BY <1>3, <1>4, Rejoined
  <2>2. b[1] = Shifted(v, n - 1) % 256
    BY DEF ToBytes
  <2> QED BY <1>1, <2>1, <2>2
<1>6. Tail(b) = ToBytes(v, m)
  <2>1. PICK t : t = Tail(b)
    OBVIOUS
  <2>2. t \in Seq(Byte) /\ Len(t) = m /\ \A k \in 1 .. Len(t) : t[k] = b[k + 1]
    <3>1. Tail(b) \in Seq(Byte) /\ Len(Tail(b)) = Len(b) - 1
      BY <1>3, <1>4, HeadTailProperties
    <3>2. \A k \in 1 .. Len(Tail(b)) : Tail(b)[k] = b[k + 1]
      BY <1>3, <1>4, HeadTailProperties
    <3> QED BY <1>1, <1>3, <2>1, <3>1, <3>2
  <2>3. PICK u : u = ToBytes(v, m)
    OBVIOUS
  <2>4. u \in Seq(Byte) /\ Len(u) = m
    BY <1>2, <2>3, NumberOfBytes
  <2>5. ASSUME NEW k \in 1 .. Len(t) PROVE t[k] = u[k]
    <3>1. k \in 1 .. m /\ k + 1 \in 1 .. n /\ n - (k + 1) = m - k
      BY <1>1, <2>2
    <3>2. b[k + 1] = Shifted(v, n - (k + 1)) % 256
      BY <3>1 DEF ToBytes
    <3>3. u[k] = Shifted(v, m - k) % 256
      BY <2>3, <3>1 DEF ToBytes
    <3> QED BY <2>2, <3>1, <3>2, <3>3
  <2>6. t = u
    BY <2>2, <2>4, <2>5, SeqEqual
  <2> QED BY <2>1, <2>3, <2>6
<1>7. Number(x, ToBytes(v, m)) = v
  BY <1>2, NumberOfBytes
<1>8. Head(b) < 128 <=> x >= 0
  BY <1>2, <1>5
<1>9. (IF Head(b) < 128 THEN Head(b) ELSE Head(b) - 256) = x
  BY <1>2, <1>5
<1>10. TwosComplement(b) = v
  BY <1>6, <1>7, <1>9 DEF TwosComplement
<1> QED BY <1>1, <1>3, <1>8, <1>10

\* The bytes of a number that is less than zero are those of the one above
\* zero with all bits turned.
LEMMA ShiftedTurned ==
    ASSUME NEW v \in Int, NEW n \in Nat
    PROVE  Shifted(-1 - v, n) = -1 - Shifted(v, n)
<1> DEFINE S == {k \in 0 .. n : Shifted(-1 - v, k) = -1 - Shifted(v, k)}
<1>0. -1 - v \in Int
  OBVIOUS
<1>1. 0 \in S
  BY <1>0, ShiftedFacts
<1>2. ASSUME NEW k \in 1 .. n, k - 1 \in S PROVE k \in S
  <2>1. PICK j : j = k - 1
    OBVIOUS
  <2>2. j \in Nat /\ j + 1 = k
    BY <2>1
  <2>3. PICK w, x, y : w = -1 - v /\ x = Shifted(v, j) /\ y = Shifted(w, j)
    OBVIOUS
  <2>4. x \in Int /\ Shifted(v, k) = x \div 256
    BY <2>2, <2>3, ShiftedFacts
  <2>5. Shifted(-1 - v, k) = y \div 256
    <3>1. w \in Int /\ j \in Nat
      BY <1>0, <2>2, <2>3
    <3>2. Shifted(w, j + 1) = Shifted(w, j) \div 256
      BY <3>1, ShiftedFacts
    <3> QED BY <2>2, <2>3, <3>2
  <2>6. y = -1 - x
    BY <1>2, <2>1, <2>3
  <2>7. (-1 - x) \div 256 = -1 - x \div 256
    BY <2>4, SMT
  <2> QED BY <2>4, <2>5, <2>6, <2>7
<1>3. 0 .. n \subseteq S
  <2> HIDE DEF S
  <2> QED BY <1>1, <1>2, UptoInduction
<1>4. n \in S
  <2> HIDE DEF S
  <2> QED BY <1>3
<1> QED BY <1>4

LEMMA BytesTurned ==
    ASSUME NEW v \in Int, NEW n \in Nat, NEW k \in 1 .. n
    PROVE  ToBytes(-1 - v, n)[k] = 255 - ToBytes(v, n)[k]
<1>1. n - k \in Nat
  OBVIOUS
<1>2. PICK x : x = Shifted(v, n - k)
  OBVIOUS
<1>3. x \in Int /\ Shifted(-1 - v, n - k) = -1 - x
  BY <1>1, <1>2, ShiftedFacts, ShiftedTurned
<1>4. ToBytes(-1 - v, n)[k] = Shifted(-1 - v, n - k) % 256 /\ ToBytes(v, n)[k] = x % 256
  BY <1>2 DEF ToBytes
<1>5. (-1 - x) % 256 = 255 - (x % 256)
  BY <1>3
<1> QED BY <1>3, <1>4, <1>5

\* So many digits have room in the bytes of their group.
LEMMA GroupFits ==
    ASSUME NEW w \in 1 .. 9, NEW v \in Nat, v < 10^w
    PROVE  LET n == dig2bytes[w]
           IN  n \in 1 .. 4 /\ Shifted(v, n - 1) \in 0 .. 127
<1>1. PICK x, y, z : x = Shifted(v, 1) /\ y = Shifted(v, 2) /\ z = Shifted(v, 3)
  OBVIOUS
<1>2. /\ Shifted(v, 0) = v /\ x = v \div 256 /\ y = x \div 256 /\ z = y \div 256
      /\ x \in Int /\ y \in Int /\ z \in Int
  <2>1. 0 + 1 = 1 /\ 1 + 1 = 2 /\ 2 + 1 = 3 /\ 0 \in Nat /\ 1 \in Nat /\ 2 \in Nat
    OBVIOUS
  <2> QED BY <1>1, <2>1, ShiftedFacts
<1>3. CASE w \in 1 .. 2
  <2>1. dig2bytes[w] = 1
    BY <1>3 DEF dig2bytes
  <2>2. 10^1 = 10 /\ 10^2 = 100
    BY SMT
  <2>3. v < 100
    <3>1. w = 1 \/ w = 2
      BY <1>3
    <3>2. CASE w = 1
      <4>1. 10^w = 10^1
        BY <3>2
      <4> QED BY <2>2, <4>1, SMT
    <3>3. CASE w = 2
      <4>1. 10^w = 10^2
        BY <3>3
      <4> QED BY <2>2, <4>1, SMT
    <3> QED BY <3>1, <3>2, <3>3
  <2> QED BY <1>2, <2>1, <2>3
<1>4. CASE w \in 3 .. 4
  <2>1. dig2bytes[w] = 2
    BY <1>4 DEF dig2bytes
  <2>2. 10^3 = 1000 /\ 10^4 = 10000
    BY SMT
  <2>3. v < 10000
    <3>1. w = 3 \/ w = 4
      BY <1>4
    <3>2. CASE w = 3
      <4>1. 10^w = 10^3
        BY <3>2
      <4> QED BY <2>2, <4>1, SMT
    <3>3. CASE w = 4
      <4>1. 10^w = 10^4
        BY <3>3
      <4> QED BY <2>2, <4>1, SMT
    <3> QED BY <3>1, <3>2, <3>3
  <2> QED BY <1>1, <1>2, <2>1, <2>3
<1>5. CASE w \in 5 .. 6
  <2>1. dig2bytes[w] = 3
    BY <1>5 DEF dig2bytes
  <2>2. 10^5 = 100000 /\ 10^6 = 1000000
    BY SMT
  <2>3. v < 1000000
    <3>1. w = 5 \/ w = 6
      BY <1>5
    <3>2. CASE w = 5
      <4>1. 10^w = 10^5
        BY <3>2
      <4> QED BY <2>2, <4>1, SMT
    <3>3. CASE w = 6
      <4>1. 10^w = 10^6
        BY <3>3
      <4> QED BY <2>2, <4>1, SMT
    <3> QED BY <3>1, <3>2, <3>3
  <2>4. y \in 0 .. 127
    BY <1>2, <2>3, SMT
  <2> QED BY <1>1, <2>1, <2>4
<1>6. CASE w \in 7 .. 9
  <2>1. dig2bytes[w] = 4
    BY <1>6 DEF dig2bytes
  <2>2. 10^7 = 10000000 /\ 10^8 = 100000000 /\ 10^9 = 1000000000
    BY SMT
  <2>3. v < 1000000000
    <3>1. w = 7 \/ w = 8 \/ w = 9
      BY <1>6
    <3>2. CASE w = 7
      <4>1. 10^w = 10^7
        BY <3>2
      <4> QED BY <2>2, <4>1, SMT
    <3>3. CASE w = 8
      <4>1. 10^w = 10^8
        BY <3>3
      <4> QED BY <2>2, <4>1, SMT
    <3>4. CASE w = 9
      <4>1. 10^w = 10^9
        BY <3>4
      <4> QED BY <2>2, <4>1, SMT
    <3> QED BY <3>1, <3>2, <3>3, <3>4
  <2>4. z \in 0 .. 127
    BY <1>2, <2>3, SMT
  <2> QED BY <1>1, <2>1, <2>4
<1> QED BY <1>3, <1>4, <1>5, <1>6

\* The places where the groups of these sizes begin.
IsCut(begin, sizes) ==
    /\ begin \in [0 .. Len(sizes) -> Nat]
    /\ begin[0] = 0 /\ \A k \in 1 .. Len(sizes) : begin[k] = begin[k - 1] + sizes[k]

LEMMA GroupsUnfold ==
    ASSUME NEW sizes \in Seq(Nat)
    PROVE  \E begin : /\ IsCut(begin, sizes)
                      /\ \A bytes : Groups(sizes, bytes) =
                            [k \in DOMAIN sizes |-> SubSeq(bytes, begin[k - 1] + 1, begin[k])]
<1> DEFINE n == Len(sizes)
           Is(f) == f = [k \in 0 .. Len(sizes) |-> IF k = 0 THEN 0 ELSE f[k - 1] + sizes[k]]
           h == [k \in 1 .. n |-> [x \in Nat |-> x + sizes[k]]]
<1>0. n \in Nat /\ \A k \in 1 .. n : sizes[k] \in Nat
  BY ElementOfSeq
<1>1. PICK f \in [0 .. n -> Nat] : f[0] = 0 /\ \A k \in 1 .. n : f[k] = f[k - 1] + sizes[k]
  <2>1. IsSteps(h, Nat, n)
    <3> HIDE DEF n
    <3> QED BY <1>0 DEF IsSteps
  <2>2. PICK f : IsIteration(f, Nat, 0, h, n)
    <3> HIDE DEF h
    <3> QED BY <2>1, RecursionExists
  <2>3. f \in [0 .. n -> Nat] /\ f[0] = 0
    BY <2>2 DEF IsIteration
  <2>4. ASSUME NEW k \in 1 .. n PROVE f[k] = f[k - 1] + sizes[k]
    <3>1. f[k] = h[k][f[k - 1]]
      <4> HIDE DEF h
      <4> QED BY <2>2 DEF IsIteration
    <3>2. k - 1 \in 0 .. n
      BY <1>0
    <3>3. f[k - 1] \in Nat
      BY <2>3, <3>2
    <3> QED BY <3>1, <3>3
  <2> QED BY <2>3, <2>4
<1>2. Is(f)
  BY <1>1
<1>3. PICK begin : Is(begin)
                   /\ \A bytes : Groups(sizes, bytes) =
                         [k \in DOMAIN sizes |-> SubSeq(bytes, begin[k - 1] + 1, begin[k])]
  <2>1. Is(CHOOSE g : Is(g))
    BY <1>2
  <2> QED BY <2>1 DEF Groups
<1>4. begin[0] = 0 /\ \A k \in 1 .. n : begin[k] = begin[k - 1] + sizes[k]
  <2>1. ASSUME NEW k \in 1 .. n PROVE begin[k] = begin[k - 1] + sizes[k]
    <3>1. k \in 0 .. Len(sizes) /\ k # 0
      OBVIOUS
    <3> QED BY <1>3, <3>1
  <2>2. 0 \in 0 .. Len(sizes)
    OBVIOUS
  <2> QED BY <1>3, <2>1, <2>2
<1>5. begin \in [0 .. n -> Nat]
  <2> DEFINE S == {k \in 0 .. n : begin[k] \in Nat}
  <2>1. 0 \in S
    BY <1>0, <1>4
  <2>2. ASSUME NEW k \in 1 .. n, k - 1 \in S PROVE k \in S
    BY SMTT(40), <1>0, <1>4, <2>2
  <2>3. 0 .. n \subseteq S
    <3> HIDE DEF S, n
    <3> QED BY <1>0, <2>1, <2>2, UptoInduction
  <2> QED BY <1>3, <2>3
<1> QED BY <1>3, <1>4, <1>5 DEF IsCut

\* The pieces up to one of them, each at its place.
IsLaid(t, pieces, begin, sizes, j) ==
    /\ Len(t) = begin[j]
    /\ \A k \in 1 .. j : \A m \in 1 .. sizes[k] :
          begin[k - 1] + m <= begin[j] /\ t[begin[k - 1] + m] = pieces[k][m]

AreSizes(sizes, pieces, S) ==
    /\ sizes \in Seq(Nat) /\ pieces \in Seq(Seq(S)) /\ Len(sizes) = Len(pieces)
    /\ \A k \in 1 .. Len(sizes) : Len(pieces[k]) = sizes[k]

LEMMA PiecesLaid ==
    ASSUME NEW S, NEW sizes, NEW pieces, AreSizes(sizes, pieces, S),
           NEW begin, IsCut(begin, sizes)
    PROVE  /\ FlattenSeq(pieces) \in Seq(S)
           /\ IsLaid(FlattenSeq(pieces), pieces, begin, sizes, Len(sizes))
<1>1. PICK n : n = Len(sizes)
  OBVIOUS
<1>2. /\ n \in Nat /\ sizes \in Seq(Nat) /\ pieces \in Seq(Seq(S)) /\ Len(pieces) = n
      /\ \A k \in 1 .. n : Len(pieces[k]) = sizes[k] /\ pieces[k] \in Seq(S) /\ sizes[k] \in Nat
  <2>1. sizes \in Seq(Nat) /\ pieces \in Seq(Seq(S)) /\ Len(pieces) = n
    BY <1>1 DEF AreSizes
  <2>2. n \in Nat
    BY <1>1, <2>1
  <2>3. \A k \in 1 .. n : pieces[k] \in Seq(S)
    BY <2>1, ElementOfSeq
  <2>4. \A k \in 1 .. n : sizes[k] \in Nat
    BY <1>1, <2>1, ElementOfSeq
  <2>5. \A k \in 1 .. n : Len(pieces[k]) = sizes[k]
    BY <1>1 DEF AreSizes
  <2> QED BY <2>1, <2>2, <2>3, <2>4, <2>5
<1>3. PICK upto : IsFlattened(upto, pieces, S)
  BY <1>2, FlattenUnfolds
<1>4. /\ upto \in [0 .. n -> Seq(S)] /\ upto[0] = << >> /\ FlattenSeq(pieces) = upto[n]
      /\ \A k \in 1 .. n : upto[k] = upto[k - 1] \o pieces[k]
  BY <1>2, <1>3 DEF IsFlattened
<1>5. /\ begin \in [0 .. n -> Nat] /\ begin[0] = 0
      /\ \A k \in 1 .. n : begin[k] = begin[k - 1] + sizes[k]
  BY <1>1 DEF IsCut
<1> DEFINE Laid == {j \in 0 .. n : IsLaid(upto[j], pieces, begin, sizes, j)}
<1>6. 0 \in Laid
  BY <1>2, <1>4, <1>5 DEF IsLaid
<1>7. ASSUME NEW j \in 1 .. n, j - 1 \in Laid PROVE j \in Laid
  <2>1. PICK i_1, s, t, p : i_1 = j - 1 /\ s = upto[i_1] /\ t = upto[j] /\ p = pieces[j]
    OBVIOUS
  <2>2. i_1 \in 0 .. n /\ IsLaid(s, pieces, begin, sizes, i_1)
    BY <1>7, <2>1
  <2>3. s \in Seq(S) /\ p \in Seq(S) /\ t = s \o p
    BY <1>2, <1>4, <2>1, <2>2
  <2>4. /\ t \in Seq(S) /\ Len(s) \in Nat /\ Len(p) \in Nat /\ Len(t) = Len(s) + Len(p)
        /\ \A k \in 1 .. Len(s) : t[k] = s[k]
        /\ \A k \in 1 .. Len(p) : t[Len(s) + k] = p[k]
    BY <2>3, ConcatParts
  <2>5. Len(s) = begin[i_1] /\ Len(p) = sizes[j] /\ begin[j] = begin[i_1] + sizes[j]
    BY <1>2, <1>5, <2>1, <2>2 DEF IsLaid
  <2>6. Len(t) = begin[j]
    BY <2>4, <2>5
  <2>7. ASSUME NEW k \in 1 .. j, NEW m \in 1 .. sizes[k]
        PROVE  begin[k - 1] + m <= begin[j] /\ t[begin[k - 1] + m] = pieces[k][m]
    <3>1. CASE k = j
      <4>1. begin[k - 1] = Len(s) /\ pieces[k] = p /\ m \in 1 .. Len(p)
        BY <2>1, <2>5, <2>7, <3>1
      <4>2. Len(s) + m <= Len(t) /\ t[Len(s) + m] = p[m]
        BY <2>4, <4>1
      <4> QED BY <2>6, <4>1, <4>2
    <3>2. CASE k # j
      <4>1. k \in 1 .. i_1 /\ k - 1 \in 0 .. n /\ k \in 1 .. n
        BY <1>2, <2>1, <3>2
      <4>2. PICK x : x = begin[k - 1] + m
        OBVIOUS
      <4>3. x <= begin[i_1] /\ s[x] = pieces[k][m]
        BY <2>2, <2>7, <4>1, <4>2 DEF IsLaid
      <4>4. x \in 1 .. Len(s)
        <5>1. begin[k - 1] \in Nat /\ m \in Nat /\ m >= 1
          BY <1>2, <1>5, <2>7, <4>1
        <5> QED BY SMTT(40), <2>4, <2>5, <4>2, <4>3, <5>1
      <4>5. t[x] = s[x] /\ x <= Len(t)
        BY <2>4, <4>4
      <4> QED BY <2>6, <4>2, <4>3, <4>5
    <3> QED BY <3>1, <3>2
  <2> QED BY <2>1, <2>6, <2>7 DEF IsLaid
<1>8. n \in Laid
  <2>1. 0 .. n \subseteq Laid
    <3> HIDE DEF Laid
    <3> QED BY <1>2, <1>6, <1>7, UptoInduction
  <2> HIDE DEF Laid
  <2> QED BY <1>2, <2>1
<1> QED BY <1>1, <1>2, <1>4, <1>8

\* Groups of digits and what StoredDecimal makes of them.
AreGroups(widths, v) ==
    /\ widths \in Seq(1 .. 9) /\ Len(widths) > 0 /\ v \in [1 .. Len(widths) -> Nat]
    /\ \A k \in 1 .. Len(widths) : v[k] < 10^widths[k]

Plain(widths, v) ==
    FlattenSeq([k \in DOMAIN widths |-> ToBytes(v[k], dig2bytes[widths[k]])])

Turned(plain, negative) ==
    IF negative THEN [k \in DOMAIN plain |-> 255 - plain[k]] ELSE plain

Cut(widths, bytes) == Groups([k \in DOMAIN widths |-> dig2bytes[widths[k]]], bytes)

AreRead(parts, v, n, negative) ==
    DOMAIN parts = 1 .. n /\ \A k \in 1 .. n : GroupValue(parts[k], negative) = v[k]

LEMMA TurnedType ==
    ASSUME NEW plain \in Seq(Byte), NEW negative \in BOOLEAN
    PROVE  /\ Turned(plain, negative) \in Seq(Byte) /\ Len(Turned(plain, negative)) = Len(plain)
           /\ \A k \in 1 .. Len(plain) :
                 Turned(plain, negative)[k] = IF negative THEN 255 - plain[k] ELSE plain[k]
<1>1. CASE ~ negative
  BY <1>1 DEF Turned
<1>2. CASE negative
  <2>1. PICK n : n = Len(plain)
    OBVIOUS
  <2>2. n \in Nat /\ DOMAIN plain = 1 .. n
    BY <2>1
  <2>3. \A k \in 1 .. n : plain[k] \in Byte
    BY <2>1, ElementOfSeq
  <2>4. Turned(plain, negative) = [k \in 1 .. n |-> 255 - plain[k]]
    BY <1>2, <2>2 DEF Turned
  <2>5. PICK r : r = [k \in 1 .. n |-> 255 - plain[k]]
    OBVIOUS
  <2>6. r \in [1 .. n -> Byte]
    <3>1. \A x \in Byte : 255 - x \in Byte
      BY DEF Byte
    <3>2. \A k \in 1 .. n : 255 - plain[k] \in Byte
      BY <2>3, <3>1
    <3> QED BY <2>5, <3>2
  <2>7. r \in Seq(Byte) /\ Len(r) = n
    BY <2>2, <2>6, SequenceOfFunction
  <2>8. \A k \in 1 .. n : r[k] = 255 - plain[k]
    BY <2>5
  <2> QED BY ZenonT(60), <1>2, <2>1, <2>4, <2>5, <2>7, <2>8
<1> QED BY <1>1, <1>2

LEMMA GroupsRead ==
    ASSUME NEW widths, NEW v, AreGroups(widths, v), NEW negative \in BOOLEAN,
           NEW c, c = Turned(Plain(widths, v), negative)
    PROVE  /\ c \in Seq(Byte) /\ Len(c) > 0 /\ (c[1] >= 128 <=> negative)
           /\ AreRead(Cut(widths, c), v, Len(widths), negative)
<1>1. PICK n : n = Len(widths)
  OBVIOUS
<1>2. /\ widths \in Seq(1 .. 9) /\ n \in Nat /\ n > 0 /\ DOMAIN widths = 1 .. n
      /\ v \in [1 .. n -> Nat] /\ \A k \in 1 .. n : v[k] < 10^widths[k]
  <2>1. widths \in Seq(1 .. 9) /\ n > 0
    BY <1>1 DEF AreGroups
  <2>2. n \in Nat /\ DOMAIN widths = 1 .. n
    BY <1>1, <2>1
  <2> QED BY <1>1, <2>1, <2>2 DEF AreGroups
<1>3. \A k \in 1 .. n : widths[k] \in 1 .. 9
  BY <1>1, <1>2, ElementOfSeq
<1>4. PICK sizes : sizes = [k \in 1 .. n |-> dig2bytes[widths[k]]]
  OBVIOUS
<1>5. ASSUME NEW k \in 1 .. n
      PROVE  sizes[k] \in 1 .. 4 /\ Shifted(v[k], sizes[k] - 1) \in 0 .. 127
  <2>1. PICK w, x : w = widths[k] /\ x = v[k]
    OBVIOUS
  <2>2. w \in 1 .. 9 /\ x \in Nat /\ x < 10^w
    BY <1>2, <1>3, <2>1
  <2>3. sizes[k] = dig2bytes[w]
    BY <1>4, <2>1
  <2>4. dig2bytes[w] \in 1 .. 4 /\ Shifted(x, dig2bytes[w] - 1) \in 0 .. 127
    BY <2>2, GroupFits
  <2> QED BY <2>1, <2>3, <2>4
<1>6. PICK pieces : pieces = [k \in 1 .. n |-> ToBytes(v[k], sizes[k])]
  OBVIOUS
<1>7. ASSUME NEW k \in 1 .. n
      PROVE  /\ sizes[k] \in Nat /\ v[k] \in Int /\ pieces[k] = ToBytes(v[k], sizes[k])
             /\ pieces[k] \in Seq(Byte) /\ Len(pieces[k]) = sizes[k]
  <2>1. sizes[k] \in Nat /\ v[k] \in Int
    <3>1. \A z \in 1 .. 4 : z \in Nat
      OBVIOUS
    <3>2. \A z \in Nat : z \in Int
      OBVIOUS
    <3>3. sizes[k] \in 1 .. 4
      BY <1>5
    <3>4. v[k] \in Nat
      BY <1>2
    <3> QED BY ONLY <3>1, <3>2, <3>3, <3>4
  <2>2. pieces[k] = ToBytes(v[k], sizes[k])
    BY <1>6
  <2> QED BY <2>1, <2>2, NumberOfBytes
<1>8. AreSizes(sizes, pieces, Byte)
  <2>1. sizes \in [1 .. n -> Nat]
    BY <1>4, <1>7
  <2>2. sizes \in Seq(Nat) /\ Len(sizes) = n
    BY <1>2, <2>1, SequenceOfFunction
  <2>3. pieces \in [1 .. n -> Seq(Byte)]
    BY <1>6, <1>7
  <2>4. pieces \in Seq(Seq(Byte)) /\ Len(pieces) = n
    BY <1>2, <2>3, SequenceOfFunction
  <2> QED BY <1>7, <2>2, <2>4 DEF AreSizes
<1>9. sizes \in Seq(Nat) /\ DOMAIN sizes = 1 .. n /\ Len(sizes) = n
  <2>1. sizes \in [1 .. n -> Nat]
    BY <1>4, <1>7
  <2> QED BY <1>2, <2>1, SequenceOfFunction
<1>10. PICK begin :
         /\ IsCut(begin, sizes)
         /\ \A bytes : Groups(sizes, bytes) =
               [k \in DOMAIN sizes |-> SubSeq(bytes, begin[k - 1] + 1, begin[k])]
  BY <1>9, GroupsUnfold
<1>11. PICK plain : plain = Plain(widths, v)
  OBVIOUS
<1>12. plain = FlattenSeq(pieces)
  <2>1. [k \in DOMAIN widths |-> ToBytes(v[k], dig2bytes[widths[k]])] = pieces
    BY <1>2, <1>4, <1>6
  <2> QED BY <1>11, <2>1 DEF Plain
<1>13. plain \in Seq(Byte) /\ IsLaid(plain, pieces, begin, sizes, n)
  <2>1. /\ FlattenSeq(pieces) \in Seq(Byte)
        /\ IsLaid(FlattenSeq(pieces), pieces, begin, sizes, Len(sizes))
    BY <1>8, <1>10, PiecesLaid
  <2> QED BY <1>9, <1>12, <2>1
<1>14. /\ c \in Seq(Byte) /\ Len(c) = Len(plain)
       /\ \A k \in 1 .. Len(plain) : c[k] = IF negative THEN 255 - plain[k] ELSE plain[k]
  BY <1>11, <1>13, TurnedType
<1>15. /\ begin \in [0 .. n -> Nat] /\ begin[0] = 0
       /\ \A k \in 1 .. n : begin[k] = begin[k - 1] + sizes[k]
  BY <1>9, <1>10 DEF IsCut
<1>16. Len(plain) = begin[n]
  BY <1>13 DEF IsLaid
<1> DEFINE Num(k) == IF negative THEN -1 - v[k] ELSE v[k]
<1>17. ASSUME NEW k \in 1 .. n, NEW m \in 1 .. sizes[k]
       PROVE  /\ begin[k - 1] + m \in 1 .. Len(c)
              /\ c[begin[k - 1] + m] = ToBytes(Num(k), sizes[k])[m]
  <2>1. PICK x : x = begin[k - 1] + m
    OBVIOUS
  <2>2. x <= Len(plain) /\ plain[x] = ToBytes(v[k], sizes[k])[m]
    BY <1>7, <1>13, <1>16, <2>1 DEF IsLaid
  <2>3. x \in Nat /\ x >= 1
    <3>1. begin[k - 1] \in Nat /\ m \in Nat /\ m >= 1
      <4>1. k - 1 \in 0 .. n
        BY <1>2
      <4>2. begin[k - 1] \in Nat
        BY <1>15, <4>1
      <4>3. sizes[k] \in Nat
        BY <1>7
      <4> QED BY <4>2, <4>3
    <3> QED BY <2>1, <3>1
  <2>4. x \in 1 .. Len(plain)
    BY <1>13, <2>2, <2>3
  <2>5. c[x] = IF negative THEN 255 - plain[x] ELSE plain[x]
    BY <1>14, <2>4
  <2>6. ToBytes(-1 - v[k], sizes[k])[m] = 255 - ToBytes(v[k], sizes[k])[m]
    BY SMTT(40), <1>7, BytesTurned
  <2>7. c[x] = ToBytes(Num(k), sizes[k])[m]
    BY <2>2, <2>5, <2>6
  <2> QED BY <1>14, <2>1, <2>4, <2>7
<1>18. ASSUME NEW k \in 1 .. n
       PROVE  /\ Num(k) \in Int /\ SignedFits(Num(k), sizes[k])
              /\ Shifted(Num(k), sizes[k] - 1) < 0 <=> negative
  <2>1. PICK s, x, y : s = sizes[k] - 1 /\ x = v[k] /\ y = Shifted(x, s)
    OBVIOUS
  <2>2. x \in Int /\ s \in Nat /\ y \in 0 .. 127
    BY <1>5, <1>7, <2>1
  <2>3. Shifted(-1 - x, s) = -1 - y
    BY <2>1, <2>2, ShiftedTurned
  <2>4. Shifted(Num(k), s) = IF negative THEN -1 - y ELSE y
    BY <2>1, <2>3
  <2>5. Num(k) \in Int
    BY <2>1, <2>2
  <2> HIDE DEF Num
  <2>6. Shifted(Num(k), s) \in -128 .. 127 /\ (Shifted(Num(k), s) < 0 <=> negative)
    BY <2>2, <2>4
  <2> QED BY <2>1, <2>5, <2>6 DEF SignedFits
<1>19. ASSUME NEW k \in 1 .. n
       PROVE  SubSeq(c, begin[k - 1] + 1, begin[k]) = ToBytes(Num(k), sizes[k])
  <2>1. PICK a, b, u, t : /\ a = begin[k - 1] /\ b = begin[k]
                          /\ u = SubSeq(c, a + 1, b) /\ t = ToBytes(Num(k), sizes[k])
    OBVIOUS
  <2>2. a \in Nat /\ b \in Nat /\ b = a + sizes[k] /\ sizes[k] \in Nat /\ sizes[k] >= 1
    <3>1. k - 1 \in 0 .. n /\ k \in 0 .. n
      BY <1>2
    <3>2. a \in Nat /\ b \in Nat
      BY <1>15, <2>1, <3>1
    <3>3. b = a + sizes[k]
      BY <1>15, <2>1
    <3>4. sizes[k] \in 1 .. 4
      BY <1>5
    <3> QED BY ONLY <3>2, <3>3, <3>4
  <2>3. t \in Seq(Byte) /\ Len(t) = sizes[k]
    BY <1>7, <1>18, <2>1, NumberOfBytes
  <2>4. ASSUME NEW m \in 1 .. sizes[k]
        PROVE  a + m \in 1 .. Len(c) /\ c[a + m] = t[m]
    BY <1>17, <2>1, <2>4
  <2>5. \A x \in a + 1 .. b : c[x] \in Byte
    <3>1. SUFFICES ASSUME NEW x \in a + 1 .. b PROVE c[x] \in Byte
      OBVIOUS
    <3>2. x - a \in 1 .. sizes[k] /\ a + (x - a) = x
      BY <2>2
    <3>3. x \in 1 .. Len(c)
      BY <2>4, <3>2
    <3> QED BY <1>14, <3>3, ElementOfSeq
  <2>6. /\ u \in Seq(Byte) /\ Len(u) = (IF a + 1 <= b THEN b - (a + 1) + 1 ELSE 0)
        /\ \A m \in 1 .. (b - (a + 1)) + 1 : u[m] = c[((a + 1) + m) - 1]
    <3>1. a + 1 \in Int /\ b \in Int
      BY <2>2
    <3> QED BY SMTT(40), <2>1, <2>5, <3>1, SubSeqProperties
  <2>7. Len(u) = sizes[k]
    BY SMTT(40), <2>2, <2>6
  <2>8. ASSUME NEW m \in 1 .. Len(u) PROVE u[m] = t[m]
    <3>1. m \in 1 .. sizes[k] /\ m \in 1 .. (b - (a + 1)) + 1 /\ ((a + 1) + m) - 1 = a + m
      BY SMTT(40), <2>2, <2>7
    <3>2. u[m] = c[((a + 1) + m) - 1]
      BY <2>6, <3>1
    <3>3. c[a + m] = t[m]
      BY <2>4, <3>1
    <3> QED BY <3>1, <3>2, <3>3
  <2>9. u = t
    BY <2>3, <2>6, <2>7, <2>8, SeqEqual
  <2> QED BY <2>1, <2>9
<1>20. AreRead(Cut(widths, c), v, n, negative)
  <2>1. [k \in DOMAIN widths |-> dig2bytes[widths[k]]] = sizes
    BY <1>2, <1>4
  <2>2. Cut(widths, c) = [k \in 1 .. n |-> SubSeq(c, begin[k - 1] + 1, begin[k])]
    BY <1>9, <1>10, <2>1 DEF Cut
  <2>3. ASSUME NEW k \in 1 .. n PROVE GroupValue(Cut(widths, c)[k], negative) = v[k]
    <3>1. PICK b : b = ToBytes(Num(k), sizes[k])
      OBVIOUS
    <3>2. Cut(widths, c)[k] = b
      BY <1>19, <2>2, <3>1
    <3>3. TwosComplement(b) = Num(k)
      <4>1. sizes[k] \in Nat /\ sizes[k] > 0
        BY <1>5
      <4>2. Num(k) \in Int /\ SignedFits(Num(k), sizes[k])
        BY <1>18
      <4> HIDE DEF Num
      <4> QED BY <3>1, <4>1, <4>2, TwosComplementRead
    <3>4. v[k] \in Int
      BY <1>7
    <3>5. GroupValue(b, negative) = v[k]
      BY <3>3, <3>4 DEF GroupValue
    <3> QED BY <3>2, <3>5
  <2> QED BY <2>2, <2>3 DEF AreRead
<1>21. Len(c) > 0 /\ (c[1] >= 128 <=> negative)
  <2>1. 1 \in 1 .. n /\ 1 - 1 = 0
    BY <1>2
  <2>2. PICK s : s = sizes[1]
    OBVIOUS
  <2>3. s \in Nat /\ s > 0 /\ 1 \in 1 .. s
    BY <1>5, <2>1, <2>2
  <2>4. PICK b, u : u = Num(1) /\ b = ToBytes(u, s)
    OBVIOUS
  <2>5. u \in Int /\ SignedFits(u, s) /\ (Shifted(u, s - 1) < 0 <=> negative)
    BY <1>18, <2>1, <2>2, <2>4
  <2>6. b \in Seq(Byte) /\ Len(b) = s /\ (Head(b) < 128 <=> Shifted(u, s - 1) >= 0)
    BY <2>3, <2>4, <2>5, TwosComplementRead
  <2>7. Head(b) = b[1] /\ b[1] \in 0 .. 255
    <3>1. b # << >>
      BY <2>3, <2>6, NotEmpty
    <3>2. Head(b) = b[1] /\ b[1] \in Byte
      BY <2>6, <3>1, Rejoined
    <3> QED BY <3>2 DEF Byte
  <2>8. 1 \in 1 .. Len(c) /\ c[1] = b[1]
    <3>1. begin[0] + 1 = 1
      BY <1>15
    <3>2. begin[1 - 1] + 1 \in 1 .. Len(c) /\ c[begin[1 - 1] + 1] = ToBytes(Num(1), sizes[1])[1]
      <4>1. 1 \in 1 .. sizes[1]
        BY <2>2, <2>3
      <4> HIDE DEF Num
      <4> QED BY <1>17, <2>1, <4>1
    <3> QED BY <2>1, <2>2, <2>4, <3>1, <3>2
  <2>9. Shifted(u, s - 1) \in Int
    <3>1. s - 1 \in Nat
      BY <2>3
    <3> QED BY <2>5, <3>1, ShiftedFacts
  <2>10. Len(c) > 0
    <3>1. Len(c) \in Nat
      BY <1>14
    <3> QED BY <2>8, <3>1
  <2>11. c[1] < 128 <=> Shifted(u, s - 1) >= 0
    <3>1. Head(b) < 128 <=> Shifted(u, s - 1) >= 0
      BY <2>6
    <3>2. c[1] = Head(b)
      BY <2>7, <2>8
    <3> QED BY ONLY <3>1, <3>2
  <2>12. c[1] \in Int
    <3>1. \A x \in 0 .. 255 : x \in Int
      OBVIOUS
    <3>2. b[1] \in 0 .. 255
      BY <2>7
    <3> QED BY <2>8, <3>1, <3>2
  <2>13. c[1] >= 128 <=> Shifted(u, s - 1) < 0
    BY ONLY <2>9, <2>11, <2>12
  <2> QED BY <2>5, <2>10, <2>13
<1> QED BY <1>1, <1>14, <1>20, <1>21

\* The sign bit comes and goes.
LEMMA FlippedTwice ==
    ASSUME NEW c \in Seq(Byte), Len(c) > 0, NEW s, s = FlipSign(c)
    PROVE  /\ s \in Seq(Byte) /\ Len(s) = Len(c) /\ (Head(s) < 128 <=> c[1] >= 128)
           /\ <<(Head(s) + 128) % 256>> \o Tail(s) = c
<1>1. c # << >>
  BY NotEmpty
<1>2. PICK x, t : x = c[1] /\ t = Tail(c)
  OBVIOUS
<1>3. /\ x \in Byte /\ t \in Seq(Byte) /\ Len(t) = Len(c) - 1 /\ Head(c) = x /\ <<x>> \o t = c
  BY <1>1, <1>2, Rejoined
<1>4. PICK y : y = (x + 128) % 256
  OBVIOUS
<1>5. y \in Byte /\ (y < 128 <=> x >= 128) /\ (y + 128) % 256 = x
  <2>1. x \in 0 .. 255
    BY <1>3 DEF Byte
  <2>2. y \in 0 .. 255 /\ (y < 128 <=> x >= 128) /\ (y + 128) % 256 = x
    <3>1. CASE x < 128
      <4>1. y = x + 128
        BY <1>4, <2>1, <3>1
      <4>2. (y + 128) % 256 = x
        BY <2>1, <4>1
      <4> QED BY <2>1, <3>1, <4>1, <4>2
    <3>2. CASE x >= 128
      <4>1. y = x - 128
        BY <1>4, <2>1, <3>2
      <4>2. (y + 128) % 256 = x
        BY <2>1, <4>1
      <4> QED BY <2>1, <3>2, <4>1, <4>2
    <3> QED BY <2>1, <3>1, <3>2
  <2> QED BY <2>2 DEF Byte
<1>6. s = <<y>> \o t
  BY <1>2, <1>3, <1>4 DEF FlipSign
<1>7. s \in Seq(Byte) /\ Len(s) = Len(t) + 1 /\ Head(s) = y /\ Tail(s) = t
  BY <1>3, <1>5, <1>6, Prepended
<1>8. Len(s) = Len(c)
  <2>1. Len(c) \in Nat /\ Len(t) \in Nat
    BY <1>3
  <2> QED BY <1>3, <1>7, <2>1
<1>9. <<(Head(s) + 128) % 256>> \o Tail(s) = c
  BY <1>3, <1>5, <1>7
<1>10. Head(s) < 128 <=> c[1] >= 128
  BY <1>2, <1>5, <1>7
<1> QED BY <1>7, <1>8, <1>9, <1>10

LEMMA FourJoined ==
    ASSUME NEW S, NEW a \in Seq(S), NEW b \in Seq(S), NEW c \in Seq(S), NEW d \in Seq(S)
    PROVE  /\ ((a \o b) \o c) \o d \in Seq(S)
           /\ Len(((a \o b) \o c) \o d) = ((Len(a) + Len(b)) + Len(c)) + Len(d)
<1>1. PICK u, w, t : u = a \o b /\ w = u \o c /\ t = w \o d
  OBVIOUS
<1>2. u \in Seq(S) /\ Len(u) = Len(a) + Len(b)
  BY <1>1, ConcatParts
<1>3. w \in Seq(S) /\ Len(w) = Len(u) + Len(c)
  BY <1>1, <1>2, ConcatParts
<1>4. t \in Seq(S) /\ Len(t) = Len(w) + Len(d)
  BY <1>1, <1>3, ConcatParts
<1> QED BY <1>1, <1>2, <1>3, <1>4

\* The groups of a DECIMAL: none has more than nine digits.
LEMMA WidthsType ==
    ASSUME NEW precision \in 1 .. 65, NEW digits \in 0 .. precision,
           NEW widths, widths = GroupDigits(precision, digits)
    PROVE  widths \in Seq(1 .. 9) /\ Len(widths) > 0
<1>1. PICK intg : intg = precision - digits
  OBVIOUS
<1>2. PICK q, r, a, b : q = intg \div 9 /\ r = intg % 9 /\ a = digits \div 9 /\ b = digits % 9
  OBVIOUS
<1>3. /\ q \in Nat /\ r \in 0 .. 8 /\ a \in Nat /\ b \in 0 .. 8
      /\ ~ (q = 0 /\ r = 0 /\ a = 0 /\ b = 0)
  <2>1. intg \in Nat /\ digits \in Nat /\ intg + digits > 0
    BY <1>1
  <2>2. /\ intg = 9 * q + r /\ digits = 9 * a + b
        /\ q \in Nat /\ r \in 0 .. 8 /\ a \in Nat /\ b \in 0 .. 8
    BY <1>2, <2>1
  <2> QED BY <2>1, <2>2
<1>4. PICK s1, s2, s3, s4 :
         /\ s1 = (IF r > 0 THEN <<r>> ELSE << >>) /\ s2 = [k \in 1 .. q |-> 9]
         /\ s3 = [k \in 1 .. a |-> 9] /\ s4 = (IF b > 0 THEN <<b>> ELSE << >>)
  OBVIOUS
<1>5. widths = ((s1 \o s2) \o s3) \o s4
  BY <1>1, <1>2, <1>4 DEF GroupDigits
<1>6. /\ s1 \in Seq(1 .. 9) /\ (Len(s1) = IF r > 0 THEN 1 ELSE 0)
      /\ s4 \in Seq(1 .. 9) /\ (Len(s4) = IF b > 0 THEN 1 ELSE 0)
  <2>1. ASSUME NEW x \in 0 .. 8, NEW s, s = IF x > 0 THEN <<x>> ELSE << >>
        PROVE  s \in Seq(1 .. 9) /\ (Len(s) = IF x > 0 THEN 1 ELSE 0)
    <3>1. CASE x > 0
      <4>1. x \in 1 .. 9
        BY <3>1
      <4>2. s = <<x>>
        BY <2>1, <3>1
      <4> QED BY <3>1, <4>1, <4>2
    <3>2. CASE ~ (x > 0)
      BY <2>1, <3>2
    <3> QED BY <3>1, <3>2
  <2> QED BY <1>3, <1>4, <2>1
<1>7. s2 \in Seq(1 .. 9) /\ Len(s2) = q /\ s3 \in Seq(1 .. 9) /\ Len(s3) = a
  <2>1. s2 \in [1 .. q -> 1 .. 9] /\ s3 \in [1 .. a -> 1 .. 9]
    BY <1>4
  <2> QED BY <1>3, <2>1, SequenceOfFunction
<1>8. PICK S : S = 1 .. 9
  OBVIOUS
<1>9. s1 \in Seq(S) /\ s2 \in Seq(S) /\ s3 \in Seq(S) /\ s4 \in Seq(S)
  BY <1>6, <1>7, <1>8
<1>10. widths \in Seq(S) /\ Len(widths) = ((Len(s1) + Len(s2)) + Len(s3)) + Len(s4)
  BY <1>5, <1>9, FourJoined
<1>11. Len(widths) > 0
  <2>1. Len(s1) \in Nat /\ Len(s4) \in Nat
    BY <1>9
  <2>2. (r > 0 => Len(s1) = 1) /\ (b > 0 => Len(s4) = 1)
    BY <1>6
  <2>3. Len(widths) = ((Len(s1) + q) + a) + Len(s4)
    BY <1>7, <1>10
  <2> QED BY <1>3, <2>1, <2>2, <2>3
<1> QED BY <1>8, <1>10, <1>11

LEMMA TenMore ==
    ASSUME NEW w \in 1 .. 9
    PROVE  10^w \in Nat /\ 10^(w + 1) \in Nat /\ 10^w > 0 /\ 10^w <= 10^(w + 1)
<1>1. /\ 10^1 = 10 /\ 10^2 = 100 /\ 10^3 = 1000 /\ 10^4 = 10000 /\ 10^5 = 100000
      /\ 10^6 = 10 * 100000 /\ 10^7 = 100 * 100000 /\ 10^8 = 1000 * 100000
      /\ 10^9 = 10000 * 100000 /\ 10^10 = 100000 * 100000
  BY SMT
<1>2. CASE w = 1
  BY <1>1, <1>2
<1>3. CASE w = 2
  BY <1>1, <1>3
<1>4. CASE w = 3
  BY <1>1, <1>4
<1>5. CASE w = 4
  BY <1>1, <1>5
<1>6. CASE w = 5
  BY <1>1, <1>6
<1>7. CASE w = 6
  BY <1>1, <1>7
<1>8. CASE w = 7
  BY <1>1, <1>8
<1>9. CASE w = 8
  BY <1>1, <1>9
<1>10. CASE w = 9
  BY <1>1, <1>10
<1> QED BY <1>2, <1>3, <1>4, <1>5, <1>6, <1>7, <1>8, <1>9, <1>10

\* The two halves of reading a DECIMAL.
PartsRead(parts, bytes) == [k \in DOMAIN parts |-> GroupValue(parts[k], Head(bytes) < 128)]

WithGroups(precision, digits, bytes, widths, group) ==
    LET Leading(k) == k = 1 /\ (precision - digits) % 9 > 0
        Bound(k) == IF Leading(k) THEN 10^(widths[k] + 1) ELSE 10^widths[k]
    IN  IF \E k \in DOMAIN group : group[k] < 0 \/ group[k] >= Bound(k)
        THEN BadNumber
        ELSE <<IF Head(bytes) < 128 THEN 1 ELSE 0>>
             \o [k \in DOMAIN group |-> group[k] % 10^widths[k]]

IsFlipped(c, bytes) == c = <<(Head(bytes) + 128) % 256>> \o Tail(bytes)

IsSign(sign, bytes) == sign \in {0, 1} /\ (sign = 1 <=> Head(bytes) < 128)

AreSigned(parts, v, n, sign) ==
    /\ DOMAIN parts = 1 .. n
    /\ \A k \in 1 .. n : (IF sign = 1 THEN -1 - TwosComplement(parts[k])
                                       ELSE TwosComplement(parts[k])) = v[k]

\* What is read of groups that are in order.
LEMMA DecimalOf ==
    ASSUME NEW precision, NEW digits, NEW bytes, NEW sign, IsSign(sign, bytes),
           NEW widths, widths = GroupDigits(precision, digits), NEW c, IsFlipped(c, bytes),
           NEW v, AreGroups(widths, v), AreSigned(Cut(widths, c), v, Len(widths), sign)
    PROVE  Decimal(precision, digits, bytes) = <<sign>> \o v
<1>1. PICK n : n = Len(widths)
  OBVIOUS
<1>2. /\ n \in Nat /\ DOMAIN widths = 1 .. n /\ v \in [1 .. n -> Nat]
      /\ \A k \in 1 .. n : widths[k] \in 1 .. 9 /\ v[k] < 10^widths[k]
  <2>1. widths \in Seq(1 .. 9)
    BY DEF AreGroups
  <2>2. n \in Nat /\ DOMAIN widths = 1 .. n
    BY <1>1, <2>1
  <2>3. \A k \in 1 .. n : widths[k] \in 1 .. 9
    BY <1>1, <2>1, ElementOfSeq
  <2> QED BY <1>1, <2>2, <2>3 DEF AreGroups
<1>3. PICK parts : parts = Cut(widths, c)
  OBVIOUS
<1>4. DOMAIN parts = 1 .. n /\ \A k \in 1 .. n : GroupValue(parts[k], Head(bytes) < 128) = v[k]
  <2>1. /\ DOMAIN parts = 1 .. n
        /\ \A k \in 1 .. n : (IF sign = 1 THEN -1 - TwosComplement(parts[k])
                                           ELSE TwosComplement(parts[k])) = v[k]
    BY <1>1, <1>3 DEF AreSigned
  <2>2. sign = 1 <=> Head(bytes) < 128
    BY DEF IsSign
  <2> QED BY <2>1, <2>2 DEF GroupValue
<1>5. PICK group : group = [k \in DOMAIN parts |-> GroupValue(parts[k], Head(bytes) < 128)]
  OBVIOUS
<1>6. group = v /\ DOMAIN group = 1 .. n
  <2>1. group = [k \in 1 .. n |-> v[k]]
    BY <1>4, <1>5
  <2> QED BY <1>2, <2>1
<1> DEFINE Leading(k) == k = 1 /\ (precision - digits) % 9 > 0
           Bound(k) == IF Leading(k) THEN 10^(widths[k] + 1) ELSE 10^widths[k]
<1>7. Decimal(precision, digits, bytes) =
         IF \E k \in DOMAIN group : group[k] < 0 \/ group[k] >= Bound(k)
         THEN BadNumber
         ELSE <<IF Head(bytes) < 128 THEN 1 ELSE 0>>
              \o [k \in DOMAIN group |-> group[k] % 10^widths[k]]
  <2>1. Decimal(precision, digits, bytes) =
        WithGroups(precision, digits, bytes, GroupDigits(precision, digits),
            PartsRead(Cut(GroupDigits(precision, digits),
                          <<(Head(bytes) + 128) % 256>> \o Tail(bytes)), bytes))
    BY DEF Decimal, WithGroups, PartsRead, Cut
  <2>2. group = PartsRead(Cut(GroupDigits(precision, digits),
                              <<(Head(bytes) + 128) % 256>> \o Tail(bytes)), bytes)
    BY <1>3, <1>5 DEF PartsRead, IsFlipped
  <2>3. Decimal(precision, digits, bytes) = WithGroups(precision, digits, bytes, widths, group)
    BY <2>1, <2>2
  <2> QED BY <2>3 DEF WithGroups
<1>8. ASSUME NEW k \in 1 .. n
      PROVE  ~ (v[k] < 0 \/ v[k] >= Bound(k)) /\ v[k] % 10^widths[k] = v[k]
  <2>1. PICK x, p, q : x = v[k] /\ p = 10^widths[k] /\ q = 10^(widths[k] + 1)
    OBVIOUS
  <2>2. x \in Nat /\ x < p
    BY <1>2, <2>1
  <2>3. p \in Nat /\ q \in Nat /\ p > 0 /\ p <= q
    BY <1>2, <2>1, TenMore
  <2>4. Bound(k) = IF Leading(k) THEN q ELSE p
    BY <2>1
  <2> HIDE DEF Bound, Leading
  <2>5. ~ (x < 0 \/ x >= Bound(k))
    BY ONLY <2>2, <2>3, <2>4
  <2>6. x % p = x
    BY ONLY <2>2, <2>3
  <2> QED BY <2>1, <2>5, <2>6
<1>9. ~ \E k \in DOMAIN group : group[k] < 0 \/ group[k] >= Bound(k)
  <2> HIDE DEF Bound
  <2> QED BY <1>6, <1>8
<1>10. [k \in DOMAIN group |-> group[k] % 10^widths[k]] = v
  <2>1. [k \in DOMAIN group |-> group[k] % 10^widths[k]] = [k \in 1 .. n |-> v[k]]
    <3> HIDE DEF Bound
    <3> QED BY <1>6, <1>8
  <2> QED BY <1>2, <2>1
<1>11. Decimal(precision, digits, bytes) = <<IF Head(bytes) < 128 THEN 1 ELSE 0>> \o v
  <2> HIDE DEF Bound
  <2> QED BY <1>7, <1>9, <1>10
<1>12. (IF Head(bytes) < 128 THEN 1 ELSE 0) = sign
  BY DEF IsSign
<1> QED BY <1>11, <1>12

\* A DECIMAL is printed as it was.
LEMMA DecimalTold ==
    ASSUME NEW def, NEW value, NEW after, NEW p56, def.type = "DECIMAL", ValueOK(def, value)
    PROVE  /\ Decimal(def.precision, def.digits, Stored(def, value)) = value
           /\ value # BadNumber /\ IsTold(def, value, after, p56)
<1>1. PICK widths, n : widths = GroupDigits(def.precision, def.digits) /\ n = Len(widths)
  OBVIOUS
<1>2. DecimalOK(def, value)
  BY DEF ValueOK
<1>3. /\ def.precision \in 1 .. 65 /\ def.digits \in 0 .. def.precision
      /\ value \in Seq(Nat) /\ Len(value) = n + 1 /\ value[1] <= 1
      /\ \A k \in DOMAIN widths : value[k + 1] < 10^widths[k]
  BY <1>1, <1>2 DEF DecimalOK
<1>4. widths \in Seq(1 .. 9) /\ n > 0 /\ n \in Nat /\ DOMAIN widths = 1 .. n
  <2>1. widths \in Seq(1 .. 9) /\ n > 0
    BY <1>1, <1>3, WidthsType
  <2> QED BY <1>1, <2>1
<1>5. PICK v : v = [k \in 1 .. n |-> value[k + 1]]
  OBVIOUS
<1>6. value[1] \in 0 .. 1 /\ \A k \in 1 .. n : value[k + 1] \in Nat
  <2>1. 1 \in 1 .. Len(value) /\ \A k \in 1 .. n : k + 1 \in 1 .. Len(value)
    BY <1>3, <1>4
  <2>2. \A k \in 1 .. Len(value) : value[k] \in Nat
    BY <1>3, ElementOfSeq
  <2> QED BY <1>3, <2>1, <2>2
<1>7. AreGroups(widths, v)
  <2>1. v \in [1 .. n -> Nat]
    BY <1>5, <1>6
  <2>2. \A k \in 1 .. n : v[k] < 10^widths[k]
    BY <1>3, <1>4, <1>5
  <2> QED BY <1>1, <1>4, <2>1, <2>2 DEF AreGroups
<1>8. PICK c, s : c = Turned(Plain(widths, v), value[1] = 1) /\ s = FlipSign(c)
  OBVIOUS
<1>9. Stored(def, value) = s
  <2>1. Stored(def, value) = StoredDecimal(def, value)
    BY SMT DEF Stored, Texts
  <2>2. [k \in DOMAIN widths |-> ToBytes(value[k + 1], dig2bytes[widths[k]])] =
        [k \in DOMAIN widths |-> ToBytes(v[k], dig2bytes[widths[k]])]
    BY <1>4, <1>5
  <2> QED BY <1>1, <1>8, <2>1, <2>2 DEF StoredDecimal, Plain, Turned
<1>10. PICK negative \in BOOLEAN : negative <=> value[1] = 1
  OBVIOUS
<1>11. c = Turned(Plain(widths, v), negative)
  BY <1>8, <1>10 DEF Turned
<1>12. /\ c \in Seq(Byte) /\ Len(c) > 0 /\ (c[1] >= 128 <=> negative)
       /\ AreRead(Cut(widths, c), v, Len(widths), negative)
  BY <1>7, <1>11, GroupsRead
<1>13. (Head(s) < 128 <=> negative) /\ <<(Head(s) + 128) % 256>> \o Tail(s) = c
  BY <1>8, <1>12, FlippedTwice
<1>14. PICK sign : sign = IF negative THEN 1 ELSE 0
  OBVIOUS
<1>15. Decimal(def.precision, def.digits, s) = <<sign>> \o v
  <2>1. negative <=> Head(s) < 128
    BY <1>13
  <2>2. IsFlipped(c, s)
    BY <1>13 DEF IsFlipped
  <2>3. widths = GroupDigits(def.precision, def.digits)
    BY <1>1
  <2>4. AreSigned(Cut(widths, c), v, Len(widths), sign)
    BY <1>12, <1>14 DEF AreRead, AreSigned, GroupValue
  <2>5. IsSign(sign, s)
    BY <1>14, <2>1 DEF IsSign
  <2>6. PICK p, d : p = def.precision /\ d = def.digits
    OBVIOUS
  <2>7. widths = GroupDigits(p, d)
    BY <2>3, <2>6
  <2>8. Decimal(p, d, s) = <<sign>> \o v
    BY ONLY <1>7, <2>2, <2>4, <2>5, <2>7, DecimalOf
  <2> QED BY <2>6, <2>8
<1>16. sign = value[1]
  BY <1>6, <1>10, <1>14
<1>17. <<sign>> \o v = value
  <2>1. sign \in Nat
    BY <1>14
  <2>2. <<sign>> \in Seq(Nat) /\ Len(<<sign>>) = 1 /\ <<sign>>[1] = sign
    BY <2>1
  <2>3. v \in Seq(Nat) /\ Len(v) = n
    <3>1. v \in [1 .. n -> Nat]
      BY <1>5, <1>6
    <3> QED BY <1>4, <3>1, SequenceOfFunction
  <2>4. PICK t : t = <<sign>> \o v
    OBVIOUS
  <2>5. t \in Seq(Nat) /\ Len(t) = 1 + n /\ t[1] = sign /\ \A k \in 1 .. n : t[1 + k] = v[k]
    <3>1. 1 \in 1 .. Len(<<sign>>)
      BY <2>2
    <3> QED BY <2>2, <2>3, <2>4, <3>1, ConcatParts
  <2>6. Len(t) = Len(value)
    BY <1>3, <1>4, <2>5
  <2>7. ASSUME NEW k \in 1 .. Len(t) PROVE t[k] = value[k]
    <3>1. CASE k = 1
      BY <1>16, <2>5, <3>1
    <3>2. CASE k > 1
      <4>1. PICK j \in 1 .. n : k = 1 + j /\ k = j + 1
        <5>1. k - 1 \in 1 .. n /\ k = 1 + (k - 1) /\ k = (k - 1) + 1
          BY <1>4, <2>5, <3>2
        <5> QED BY <5>1
      <4>2. t[k] = v[j]
        BY <2>5, <4>1
      <4>3. value[k] = v[j]
        BY <1>5, <4>1
      <4> QED BY <4>2, <4>3
    <3> QED BY <2>5, <3>1, <3>2
  <2> QED BY <1>3, <2>4, <2>5, <2>6, <2>7, SeqEqual
<1>18. Decoded(def, Stored(def, value), after, p56) =
       Decimal(def.precision, def.digits, Stored(def, value))
  BY DEF Decoded
<1>19. ~ Lossy(def, value, after, p56)
  BY DEF Lossy, LossyNumber, Numbers
<1>20. value # BadNumber
  BY <1>3, <1>4 DEF BadNumber
<1> QED BY <1>9, <1>15, <1>17, <1>18, <1>19, <1>20 DEF IsTold

\* Of every number, date or time that a column can hold, the value that the
\* server reads in what print_field_value prints is its own if and only if Lossy
\* does not name it, in any two time zones (print_data.c:13-31, 359-412).
THEOREM ValueTold ==
    ASSUME NEW def, NEW value, NEW after \in Seq(Byte), Len(after) >= 7, NEW p56,
           def.type \in Numbers \cup Temporals, ValueOK(def, value)
    PROVE  IsTold(def, value, after, p56)
<1>1. /\ def.type = "INT" => IsTold(def, value, after, p56)
      /\ def.type \in {"UINT", "BIT", "ENUM", "SET"} => IsTold(def, value, after, p56)
      /\ def.type = "YEAR" => IsTold(def, value, after, p56)
      /\ def.type = "DECIMAL" => IsTold(def, value, after, p56)
      /\ def.type = "FLOAT" => IsTold(def, value, after, p56)
  BY IntegerTold, UnsignedTold, YearTold, DecimalTold, FloatTold
<1>2. /\ def.type = "DATE" => IsTold(def, value, after, p56)
      /\ def.type = "TIME" => IsTold(def, value, after, p56)
      /\ def.type = "DATETIME" => IsTold(def, value, after, p56)
      /\ def.type = "TIMESTAMP" => IsTold(def, value, after, p56)
  BY DateTold, TimeTold, DatetimeTold, TimestampTold
<1> QED BY <1>1, <1>2 DEF Numbers, Temporals
-----------------------------------------------------------------------------
(* The content of a field                                                  *)

\* The reader is in an enclosed field of which it has read t.
Encloses(r, mode, fs, t) ==
    r \in Readers /\ r.mode = mode /\ r.fields = fs /\ r.text = t /\ r.enclosed = TRUE

\* The same of a field that has no quotes and no escapes.
Exposes(r, modes, fs, t) ==
    /\ r \in Readers /\ r.mode \in modes /\ r.fields = fs /\ r.text = t
    /\ r.enclosed = FALSE /\ r.found = FALSE

Begins(r, fs) == Exposes(r, {"start"}, fs, << >>)

LEMMA OpenedText ==
    ASSUME NEW r, NEW fs, Begins(r, fs), NEW x, x = ReadByte(r, Quote)
    PROVE  Encloses(x, "enclosed", fs, << >>) /\ x.found = FALSE
<1>1. r \in Readers /\ r.mode = "start" /\ r.fields = fs /\ r.text = << >> /\ r.found = FALSE
  BY DEF Begins, Exposes
<1>2. x = [r EXCEPT !.mode = "enclosed", !.enclosed = TRUE]
  BY <1>1, SpecialDiffer DEF ReadByte
<1> QED BY <1>1, <1>2 DEF Encloses, Readers, Modes

IsTaken(x, r, mode, c) ==
    /\ x \in Readers /\ x.mode = mode /\ x.fields = r.fields
    /\ x.text = Append(r.text, c) /\ x.enclosed = r.enclosed /\ x.found = r.found

LEMMA TakenText ==
    ASSUME NEW r \in Readers, NEW mode \in Modes, NEW c \in Char, NEW x, x = Take(r, mode, c)
    PROVE  IsTaken(x, r, mode, c)
<1>1. PICK text : text = Append(r.text, c)
  OBVIOUS
<1>2. text \in Seq(Char)
  <2>1. r.text \in Seq(Char)
    BY DEF Readers
  <2> QED BY <1>1, <2>1, AppendProperties
<1>3. x = [r EXCEPT !.mode = mode, !.text = text]
  BY <1>1 DEF Take
<1> QED BY <1>1, <1>2, <1>3 DEF Readers, IsTaken

LEMMA EnclosedText ==
    ASSUME NEW r, NEW fs, NEW t, Encloses(r, "enclosed", fs, t), NEW c \in Char,
           NEW x, x = ReadByte(r, c)
    PROVE  /\ c = Backslash => Encloses(x, "enclosed escape", fs, t)
           /\ c = Quote => Encloses(x, "quote", fs, t)
           /\ c \notin {Backslash, Quote} => Encloses(x, "enclosed", fs, Append(t, c))
           /\ x.found = r.found
<1>1. /\ r \in Readers /\ r.mode = "enclosed" /\ r.fields = fs /\ r.text = t /\ r.enclosed = TRUE
  BY DEF Encloses, Readers
<1>2. CASE c = Backslash
  <2>1. x = [r EXCEPT !.mode = "enclosed escape"] /\ c # Quote
    BY <1>1, <1>2, SpecialDiffer DEF ReadByte
  <2> QED BY <1>1, <1>2, <2>1 DEF Encloses, Readers, Modes
<1>3. CASE c = Quote
  <2>1. x = [r EXCEPT !.mode = "quote"] /\ c # Backslash
    BY <1>1, <1>3, SpecialDiffer DEF ReadByte
  <2> QED BY <1>1, <1>3, <2>1 DEF Encloses, Readers, Modes
<1>4. CASE c \notin {Backslash, Quote}
  <2>1. x = Take(r, "enclosed", c)
    BY <1>1, <1>4 DEF ReadByte
  <2>2. "enclosed" \in Modes
    BY DEF Modes
  <2>3. IsTaken(x, r, "enclosed", c)
    BY <1>1, <2>1, <2>2, TakenText
  <2> QED BY <1>1, <1>4, <2>3 DEF Encloses, IsTaken
<1> QED BY <1>2, <1>3, <1>4

LEMMA EscapedText ==
    ASSUME NEW r, NEW fs, NEW t, Encloses(r, "enclosed escape", fs, t), NEW c \in Char,
           NEW x, x = ReadByte(r, c)
    PROVE  /\ Encloses(x, "enclosed", fs, Append(t, Unescape(c)))
           /\ c # 78 /\ r.found = FALSE => x.found = FALSE
<1>1. /\ r \in Readers /\ r.mode = "enclosed escape" /\ r.fields = fs /\ r.text = t
      /\ r.enclosed = TRUE
  BY DEF Encloses, Readers
<1>2. PICK y : y = Take(r, "enclosed", Unescape(c))
  OBVIOUS
<1>3. x = [y EXCEPT !.found = @ \/ c = 78]
  BY <1>1, <1>2 DEF ReadByte
<1>4. Unescape(c) \in Char /\ "enclosed" \in Modes
  BY UnescapeType DEF Modes
<1>5. /\ y \in Readers /\ y.mode = "enclosed" /\ y.fields = fs
      /\ y.text = Append(t, Unescape(c)) /\ y.enclosed = TRUE /\ y.found = r.found
  <2>1. IsTaken(y, r, "enclosed", Unescape(c))
    BY <1>1, <1>2, <1>4, TakenText
  <2> QED BY <1>1, <2>1 DEF IsTaken
<1>6. /\ x \in Readers /\ x.mode = y.mode /\ x.fields = y.fields /\ x.text = y.text
      /\ x.enclosed = y.enclosed
  BY <1>3, <1>5 DEF Readers
<1>7. c # 78 /\ r.found = FALSE => x.found = FALSE
  BY <1>3, <1>5 DEF Readers
<1> QED BY <1>5, <1>6, <1>7 DEF Encloses

LEMMA ExposedText ==
    ASSUME NEW r, NEW fs, NEW t, NEW c \in Char, Exposes(r, {"start", "plain"}, fs, t),
           c \notin {Tab, Newline, Backslash}, c # Quote \/ r.mode = "plain"
    PROVE  Exposes(ReadByte(r, c), {"plain"}, fs, Append(t, c))
<1>1. /\ r \in Readers /\ r.mode \in {"start", "plain"} /\ r.fields = fs /\ r.text = t
      /\ r.enclosed = FALSE /\ r.found = FALSE
  BY DEF Exposes
<1>2. ReadByte(r, c) = Take(r, "plain", c)
  <2>1. CASE r.mode = "plain"
    BY <2>1 DEF ReadByte
  <2>2. CASE r.mode = "start"
    BY <1>1, <2>2 DEF ReadByte
  <2> QED BY <1>1, <2>1, <2>2
<1>3. "plain" \in Modes
  BY DEF Modes
<1>4. IsTaken(ReadByte(r, c), r, "plain", c)
  BY <1>1, <1>2, <1>3, TakenText
<1> QED BY <1>1, <1>4 DEF Exposes, IsTaken

\* The end of a field.
LEMMA EndedText ==
    ASSUME NEW r \in Readers, r.mode \in {"start", "plain", "quote"}
    PROVE  /\ Begins(ReadByte(r, Tab), FieldRead(r))
           /\ ReadByte(r, Newline) \in Readers /\ ReadByte(r, Newline).mode = "end"
           /\ ReadByte(r, Newline).fields = FieldRead(r)
<1>1. PICK fields : fields = FieldRead(r)
  OBVIOUS
<1>2. fields \in Seq(FieldsRead)
  BY <1>1, FieldReadType
<1>3. /\ ReadByte(r, Tab) = EndField(r, "start") /\ ReadByte(r, Newline) = EndField(r, "end")
  BY SpecialDiffer DEF ReadByte
<1>4. << >> \in Seq(Char) /\ "start" \in Modes /\ "end" \in Modes
  BY DEF Modes
<1>5. PICK x, y : x = EndField(r, "start") /\ y = EndField(r, "end")
  OBVIOUS
<1>6. x = [mode |-> "start", fields |-> fields, text |-> << >>, enclosed |-> FALSE, found |-> FALSE]
  BY <1>1, <1>5 DEF EndField, Reader
<1>7. y = [mode |-> "end", fields |-> fields, text |-> << >>, enclosed |-> FALSE, found |-> FALSE]
  BY <1>1, <1>5 DEF EndField, Reader
<1>8. Begins(x, fields)
  BY <1>2, <1>4, <1>6 DEF Begins, Exposes, Readers
<1>9. y \in Readers /\ y.mode = "end" /\ y.fields = fields
  BY <1>2, <1>4, <1>7 DEF Readers
<1> QED BY <1>1, <1>3, <1>5, <1>8, <1>9

Inside(r, fs, t) == Encloses(r, "enclosed", fs, t) /\ r.found = FALSE

\* A text that the reader takes for another one.
IsContent(piece, out) ==
    /\ piece \in Seq(Char) /\ out \in Seq(Char)
    /\ \A r, fs, t : Inside(r, fs, t) => Inside(ReadFrom(r, piece), fs, t \o out)

LEMMA AppendedOne ==
    ASSUME NEW S, NEW t \in Seq(S), NEW c \in S
    PROVE  Append(t, c) = t \o <<c>> /\ <<c>> \in Seq(S)
OBVIOUS

LEMMA ByteContent ==
    ASSUME NEW c \in Char, c \notin {Backslash, Quote}
    PROVE  IsContent(<<c>>, <<c>>)
<1>1. ASSUME NEW r, NEW fs, NEW t, Inside(r, fs, t)
      PROVE  Inside(ReadFrom(r, <<c>>), fs, t \o <<c>>)
  <2>1. Encloses(r, "enclosed", fs, t) /\ r.found = FALSE /\ r \in Readers /\ t \in Seq(Char)
    BY <1>1 DEF Inside, Encloses, Readers
  <2>2. PICK x : x = ReadByte(r, c)
    OBVIOUS
  <2>3. Encloses(x, "enclosed", fs, Append(t, c)) /\ x.found = r.found
    BY <2>1, <2>2, EnclosedText
  <2>4. ReadFrom(r, <<c>>) = x
    BY <2>1, <2>2, ReadOne
  <2>5. Append(t, c) = t \o <<c>>
    BY <2>1, AppendedOne
  <2> QED BY <2>1, <2>3, <2>4, <2>5 DEF Inside
<1>2. <<c>> \in Seq(Char)
  OBVIOUS
<1> QED BY <1>1, <1>2 DEF IsContent

LEMMA PairContent ==
    ASSUME NEW c \in Char, c # 78
    PROVE  IsContent(<<Backslash, c>>, <<Unescape(c)>>)
<1>1. PICK u, b : u = Unescape(c) /\ b = Backslash
  OBVIOUS
<1>2. u \in Char /\ b \in Char
  BY <1>1, UnescapeType, SpecialDiffer DEF Special
<1>3. ASSUME NEW r, NEW fs, NEW t, Inside(r, fs, t)
      PROVE  Inside(ReadFrom(r, <<b, c>>), fs, t \o <<u>>)
  <2>1. Encloses(r, "enclosed", fs, t) /\ r.found = FALSE /\ r \in Readers /\ t \in Seq(Char)
    BY <1>3 DEF Inside, Encloses, Readers
  <2>2. PICK x, y : x = ReadByte(r, b) /\ y = ReadByte(x, c)
    OBVIOUS
  <2>3. Encloses(x, "enclosed escape", fs, t) /\ x.found = FALSE
    BY ZenonT(60), <1>1, <1>2, <2>1, <2>2, EnclosedText
  <2>4. Encloses(y, "enclosed", fs, Append(t, u)) /\ y.found = FALSE
    <3>1. y = ReadByte(x, c)
      BY <2>2
    <3>2. Encloses(x, "enclosed escape", fs, t)
      BY <2>3
    <3>3. /\ Encloses(y, "enclosed", fs, Append(t, Unescape(c)))
          /\ c # 78 /\ x.found = FALSE => y.found = FALSE
      BY ONLY ZenonT(60), c \in Char, <3>1, <3>2, EscapedText
    <3> QED BY <1>1, <2>3, <3>3
  <2>5. ReadFrom(r, <<b, c>>) = y
    BY <1>2, <2>1, <2>2, ReadTwo
  <2>6. Append(t, u) = t \o <<u>>
    BY <1>2, <2>1, AppendedOne
  <2> QED BY <2>4, <2>5, <2>6 DEF Inside
<1>4. <<b, c>> \in Seq(Char) /\ <<u>> \in Seq(Char)
  BY <1>2
<1> QED BY <1>1, <1>3, <1>4 DEF IsContent

\* The reader undoes print_string for every byte, and print_string_raw for every
\* one but the backslash.
LEMMA EscapeContent ==
    ASSUME NEW b \in Byte
    PROVE  IsContent(Escape(b), <<b>>) /\ (b # Backslash => IsContent(EscapeRaw(b), <<b>>))
<1>1. \A c \in Byte : c \in Char
  BY DEF Byte, Char
<1>2. 110 \in Char /\ 114 \in Char /\ 116 \in Char /\ 48 \in Char /\ 98 \in Char /\ 90 \in Char
  BY DEF Char
<1>3. /\ Unescape(110) = Newline /\ Unescape(114) = Return /\ Unescape(116) = Tab
      /\ Unescape(48) = 0 /\ Unescape(98) = 8 /\ Unescape(90) = 26
  BY DEF Unescape
<1>4. /\ IsContent(<<Backslash, 110>>, <<Newline>>) /\ IsContent(<<Backslash, 114>>, <<Return>>)
      /\ IsContent(<<Backslash, 116>>, <<Tab>>) /\ IsContent(<<Backslash, 48>>, <<0>>)
      /\ IsContent(<<Backslash, 98>>, <<8>>) /\ IsContent(<<Backslash, 90>>, <<26>>)
  <2>1. 110 # 78 /\ 114 # 78 /\ 116 # 78 /\ 48 # 78 /\ 98 # 78 /\ 90 # 78
    OBVIOUS
  <2> QED BY <1>2, <1>3, <2>1, PairContent
<1>5. ASSUME NEW c \in {Backslash, Quote, 37, 95}
      PROVE  IsContent(<<Backslash, c>>, <<c>>)
  <2>1. c \in Char /\ c # 78 /\ Unescape(c) = c
    BY DEF Char, Backslash, Quote, Unescape
  <2>2. IsContent(<<Backslash, c>>, <<Unescape(c)>>)
    BY <2>1, PairContent
  <2> QED BY <2>1, <2>2
<1>6. /\ b \in {Backslash, Quote, 37, 95} => Escape(b) = <<Backslash, b>>
      /\ b = Newline => Escape(b) = <<Backslash, 110>>
      /\ b = Return => Escape(b) = <<Backslash, 114>>
      /\ b = Tab => Escape(b) = <<Backslash, 116>>
      /\ b = 0 => Escape(b) = <<Backslash, 48>>
      /\ b = 8 => Escape(b) = <<Backslash, 98>>
      /\ b = 26 => Escape(b) = <<Backslash, 90>>
      /\ b \notin {Backslash, Quote, 37, 95, Newline, Return, Tab, 0, 8, 26} => Escape(b) = <<b>>
  BY DEF Escape, Backslash, Quote, Newline, Return, Tab
<1>7. IsContent(Escape(b), <<b>>)
  <2>1. CASE b \notin {Backslash, Quote, 37, 95, Newline, Return, Tab, 0, 8, 26}
    <3>1. IsContent(<<b>>, <<b>>)
      BY <1>1, <2>1, ByteContent
    <3> QED BY <1>6, <2>1, <3>1
  <2>2. CASE b \in {Backslash, Quote, 37, 95}
    BY <1>5, <1>6, <2>2
  <2>3. CASE b \in {Newline, Return, Tab, 0, 8, 26}
    BY <1>4, <1>6, <2>3
  <2> QED BY <2>1, <2>2, <2>3
<1>8. ASSUME b # Backslash PROVE IsContent(EscapeRaw(b), <<b>>)
  <2>1. /\ b = Quote => EscapeRaw(b) = <<Backslash, b>>
        /\ b = Newline => EscapeRaw(b) = <<Backslash, 110>>
        /\ b = Return => EscapeRaw(b) = <<Backslash, 114>>
        /\ b \notin {Quote, Newline, Return} => EscapeRaw(b) = <<b>>
    BY DEF EscapeRaw, Quote, Newline, Return
  <2>2. CASE b \notin {Quote, Newline, Return}
    <3>1. IsContent(<<b>>, <<b>>)
      BY <1>1, <1>8, <2>2, ByteContent
    <3> QED BY <2>1, <2>2, <3>1
  <2>3. CASE b = Quote
    BY <1>5, <2>1, <2>3
  <2>4. CASE b \in {Newline, Return}
    BY <1>4, <2>1, <2>4
  <2> QED BY <2>2, <2>3, <2>4
<1> QED BY <1>7, <1>8

LEMMA ReadNothing ==
    ASSUME NEW r \in Readers
    PROVE  ReadFrom(r, << >>) = r
<1>1. Backslash \in Char
  BY SpecialDiffer DEF Special
<1> QED BY <1>1, ReadOne

\* The first elements of a sequence.
Upto(s, k) == SubSeq(s, 1, k)

LEMMA UptoGrows ==
    ASSUME NEW S, NEW s \in Seq(S)
    PROVE  /\ Upto(s, 0) = << >> /\ Upto(s, Len(s)) = s
           /\ \A k \in 1 .. Len(s) : Upto(s, k) = Append(Upto(s, k - 1), s[k])
           /\ \A k \in 0 .. Len(s) : Upto(s, k) \in Seq(S) /\ Len(Upto(s, k)) = k
<1>1. Len(s) \in Nat
  OBVIOUS
<1>2. ASSUME NEW k \in 0 .. Len(s)
      PROVE  /\ Upto(s, k) \in Seq(S) /\ Len(Upto(s, k)) = k
             /\ \A x \in 1 .. k : Upto(s, k)[x] = s[x]
  <2>1. k \in Nat /\ k <= Len(s) /\ 1 \in Int /\ k \in Int
    BY <1>1
  <2>2. \A x \in 1 .. k : s[x] \in S
    <3>1. \A x \in 1 .. k : x \in 1 .. Len(s)
      BY <1>1, <2>1
    <3> QED BY <3>1, ElementOfSeq
  <2>3. PICK u : u = SubSeq(s, 1, k)
    OBVIOUS
  <2>4. /\ u \in Seq(S) /\ Len(u) = (IF 1 <= k THEN (k - 1) + 1 ELSE 0)
        /\ \A x \in 1 .. (k - 1) + 1 : u[x] = s[(1 + x) - 1]
    BY <2>1, <2>2, <2>3, SubSeqProperties
  <2>5. Len(u) = k
    BY <2>1, <2>4
  <2>6. ASSUME NEW x \in 1 .. k PROVE u[x] = s[x]
    <3>1. x \in 1 .. (k - 1) + 1 /\ (1 + x) - 1 = x
      BY <2>1
    <3> QED BY <2>4, <3>1
  <2> QED BY <2>3, <2>4, <2>5, <2>6 DEF Upto
<1>3. Upto(s, 0) = << >>
  <2>1. 0 \in 0 .. Len(s)
    BY <1>1
  <2>2. Upto(s, 0) \in Seq(S) /\ Len(Upto(s, 0)) = 0
    BY <1>2, <2>1
  <2> QED BY <2>2, EmptySeq
<1>4. Upto(s, Len(s)) = s
  <2>1. Len(s) \in 0 .. Len(s)
    BY <1>1
  <2> QED BY <1>2, <2>1, SeqEqual
<1>5. ASSUME NEW k \in 1 .. Len(s)
      PROVE  Upto(s, k) = Append(Upto(s, k - 1), s[k])
  <2>1. k \in 0 .. Len(s) /\ k - 1 \in 0 .. Len(s) /\ k \in Nat
    BY <1>1
  <2>2. PICK u, v, a : u = Upto(s, k - 1) /\ v = Upto(s, k) /\ a = Append(u, s[k])
    OBVIOUS
  <2>3. /\ u \in Seq(S) /\ Len(u) = k - 1 /\ v \in Seq(S) /\ Len(v) = k
        /\ \A x \in 1 .. k - 1 : u[x] = s[x]
        /\ \A x \in 1 .. k : v[x] = s[x]
    BY <1>2, <2>1, <2>2
  <2>4. s[k] \in S
    BY ElementOfSeq
  <2>5. /\ a \in Seq(S) /\ Len(a) = Len(u) + 1 /\ a[Len(u) + 1] = s[k]
        /\ \A x \in 1 .. Len(u) : a[x] = u[x]
    BY <2>2, <2>3, <2>4, AppendProperties
  <2>6. Len(a) = k /\ a[k] = s[k]
    BY <2>1, <2>3, <2>5
  <2>7. ASSUME NEW x \in 1 .. Len(a) PROVE a[x] = v[x]
    <3>1. CASE x = k
      BY <2>1, <2>3, <2>6, <3>1
    <3>2. CASE x # k
      <4>1. x \in 1 .. k - 1
        BY <2>1, <2>6, <3>2
      <4>2. a[x] = u[x]
        BY <2>3, <2>5, <4>1
      <4>3. u[x] = s[x]
        BY <2>3, <4>1
      <4>4. v[x] = s[x]
        BY <2>3, <2>6
      <4> QED BY <4>2, <4>3, <4>4
    <3> QED BY <3>1, <3>2
  <2>8. a = v
    BY <2>3, <2>5, <2>6, <2>7, SeqEqual
  <2> QED BY <2>2, <2>8
<1> QED BY <1>2, <1>3, <1>4, <1>5

\* The content of a sequence of texts.
LEMMA PiecesContent ==
    ASSUME NEW pieces \in Seq(Seq(Char)), NEW out \in Seq(Char), Len(out) = Len(pieces),
           \A k \in 1 .. Len(pieces) : IsContent(pieces[k], <<out[k]>>)
    PROVE  IsContent(FlattenSeq(pieces), out)
<1>1. PICK m : m = Len(pieces)
  OBVIOUS
<1>2. m \in Nat /\ (\A k \in 1 .. m : pieces[k] \in Seq(Char)) /\ m \in 0 .. m
  <2>1. m \in Nat
    BY <1>1
  <2> QED BY <1>1, <2>1, ElementOfSeq
<1>3. PICK upto : IsFlattened(upto, pieces, Char)
  BY FlattenUnfolds
<1>4. /\ upto \in [0 .. m -> Seq(Char)] /\ upto[0] = << >>
      /\ \A k \in 1 .. m : upto[k] = upto[k - 1] \o pieces[k]
      /\ FlattenSeq(pieces) = upto[m]
  BY <1>1, <1>3 DEF IsFlattened
<1>5. /\ Upto(out, 0) = << >> /\ Upto(out, m) = out
      /\ \A k \in 1 .. m : Upto(out, k) = Append(Upto(out, k - 1), out[k])
      /\ \A k \in 0 .. m : Upto(out, k) \in Seq(Char)
  BY <1>1, UptoGrows
<1>6. ASSUME NEW r, NEW fs, NEW t, Inside(r, fs, t)
      PROVE  Inside(ReadFrom(r, upto[m]), fs, t \o out)
  <2> DEFINE S == {k \in 0 .. m : Inside(ReadFrom(r, upto[k]), fs, t \o Upto(out, k))}
  <2>1. r \in Readers /\ t \in Seq(Char)
    BY <1>6 DEF Inside, Encloses, Readers
  <2>2. 0 \in S
    <3>1. ReadFrom(r, upto[0]) = r
      BY <1>4, <2>1, ReadNothing
    <3>2. t \o Upto(out, 0) = t
      BY <1>5, <2>1, EmptyEnds
    <3>3. 0 \in 0 .. m
      BY <1>2
    <3> QED BY <1>6, <3>1, <3>2, <3>3
  <2>3. ASSUME NEW k \in 1 .. m, k - 1 \in S PROVE k \in S
    <3>1. k \in 0 .. m /\ k - 1 \in 0 .. m
      BY <1>2
    <3>2. upto[k - 1] \in Seq(Char) /\ pieces[k] \in Seq(Char)
      BY <1>2, <1>4, <3>1
    <3>3. PICK x, u : x = ReadFrom(r, upto[k - 1]) /\ u = Upto(out, k - 1)
      OBVIOUS
    <3>4. Inside(x, fs, t \o u) /\ u \in Seq(Char)
      BY <1>5, <2>3, <3>1, <3>3
    <3>5. ReadFrom(r, upto[k]) = ReadFrom(x, pieces[k])
      <4>1. ReadFrom(r, upto[k - 1] \o pieces[k]) = ReadFrom(x, pieces[k])
        BY <2>1, <3>2, <3>3, ReadConcat
      <4> QED BY <1>4, <4>1
    <3>6. IsContent(pieces[k], <<out[k]>>)
      BY <1>1
    <3>7. Inside(ReadFrom(x, pieces[k]), fs, (t \o u) \o <<out[k]>>)
      BY <3>4, <3>6 DEF IsContent
    <3>8. (t \o u) \o <<out[k]>> = t \o Upto(out, k)
      <4>1. out[k] \in Char
        BY <1>1, ElementOfSeq
      <4>2. <<out[k]>> \in Seq(Char) /\ Append(u, out[k]) = u \o <<out[k]>>
        BY <3>4, <4>1, AppendedOne
      <4>3. (t \o u) \o <<out[k]>> = t \o (u \o <<out[k]>>)
        <5>1. PICK w : w = <<out[k]>>
          OBVIOUS
        <5>2. t \in Seq(Char) /\ u \in Seq(Char) /\ w \in Seq(Char)
          BY <2>1, <3>4, <4>2, <5>1
        <5>3. (t \o u) \o w = t \o (u \o w)
          BY ONLY SMTT(40), <5>2, ConcatAssociative
        <5> QED BY <5>1, <5>3
      <4>4. Upto(out, k) = Append(u, out[k])
        BY <1>5, <3>3
      <4> QED BY <4>2, <4>3, <4>4
    <3> QED BY <3>1, <3>5, <3>7, <3>8
  <2>4. m \in S
    <3>1. 0 .. m \subseteq S
      <4> HIDE DEF S
      <4> QED BY <1>2, <2>2, <2>3, UptoInduction
    <3> HIDE DEF S
    <3> QED BY <1>2, <3>1
  <2> QED BY <1>5, <2>4
<1>7. upto[m] \in Seq(Char)
  BY <1>2, <1>4
<1> QED BY <1>4, <1>6, <1>7 DEF IsContent

\* A text behind which a tab or the end of the line ends a field that is in S.
GivesField(text, S) ==
    /\ text \in Seq(Char)
    /\ \A r, fs : Begins(r, fs) =>
          LET x == ReadFrom(r, text)
          IN  /\ x \in Readers /\ x.mode \in {"start", "plain", "quote"}
              /\ \E field \in S : FieldRead(x) = Append(fs, field)

\* Characters that mean nothing to the reader are read as they are.
LEMMA PlainContent ==
    ASSUME NEW text \in Seq(Char), \A k \in 1 .. Len(text) : text[k] \notin Special,
           NEW r, NEW fs, Begins(r, fs)
    PROVE  Exposes(ReadFrom(r, text), {IF text = << >> THEN "start" ELSE "plain"}, fs, text)
<1>1. PICK m : m = Len(text)
  OBVIOUS
<1>2. m \in Nat /\ m \in 0 .. m /\ \A k \in 1 .. m : text[k] \in Char /\ text[k] \notin Special
  <2>1. m \in Nat
    BY <1>1
  <2> QED BY <1>1, <2>1, ElementOfSeq
<1>3. r \in Readers
  BY DEF Begins, Exposes
<1>4. PICK after : IsReading(after, r, text)
  BY <1>3, ReadUnfolds
<1>5. /\ after \in [0 .. m -> Readers] /\ after[0] = r /\ ReadFrom(r, text) = after[m]
      /\ \A k \in 1 .. m : after[k] = ReadByte(after[k - 1], text[k])
  BY <1>1, <1>4 DEF IsReading
<1>6. /\ Upto(text, 0) = << >> /\ Upto(text, m) = text
      /\ \A k \in 1 .. m : Upto(text, k) = Append(Upto(text, k - 1), text[k])
  BY <1>1, UptoGrows
<1> DEFINE Mode(k) == IF k = 0 THEN "start" ELSE "plain"
           S == {k \in 0 .. m : Exposes(after[k], {Mode(k)}, fs, Upto(text, k))}
<1>7. 0 \in S
  <2>1. Exposes(after[0], {"start"}, fs, Upto(text, 0))
    BY <1>5, <1>6 DEF Begins
  <2>2. 0 \in 0 .. m
    BY <1>2
  <2> QED BY <2>1, <2>2
<1>8. ASSUME NEW k \in 1 .. m, k - 1 \in S PROVE k \in S
  <2>1. PICK x, c, u : x = after[k - 1] /\ c = text[k] /\ u = Upto(text, k - 1)
    OBVIOUS
  <2>2. Exposes(x, {"start", "plain"}, fs, u)
    <3>1. Exposes(x, {Mode(k - 1)}, fs, u)
      BY <1>8, <2>1
    <3>2. Mode(k - 1) \in {"start", "plain"}
      OBVIOUS
    <3> HIDE DEF Mode
    <3> QED BY <3>1, <3>2 DEF Exposes
  <2>3. c \in Char /\ c \notin {Tab, Newline, Backslash} /\ c # Quote
    BY <1>2, <2>1 DEF Special
  <2>4. Exposes(ReadByte(x, c), {"plain"}, fs, Append(u, c))
    BY <2>2, <2>3, ExposedText
  <2>5. after[k] = ReadByte(x, c) /\ Upto(text, k) = Append(u, c)
    BY <1>5, <1>6, <2>1
  <2>6. Mode(k) = "plain" /\ k \in 0 .. m
    BY <1>2
  <2> HIDE DEF Mode
  <2> QED BY <2>4, <2>5, <2>6
<1>9. m \in S
  <2>1. 0 .. m \subseteq S
    <3> HIDE DEF S
    <3> QED BY <1>2, <1>7, <1>8, UptoInduction
  <2> HIDE DEF S
  <2> QED BY <1>2, <2>1
<1>10. text = << >> <=> m = 0
  BY <1>1, EmptySeq
<1>11. Exposes(after[m], {Mode(m)}, fs, text)
  BY <1>6, <1>9
<1> QED BY <1>5, <1>10, <1>11

LEMMA PlainGives ==
    ASSUME NEW text \in Seq(Char), \A k \in 1 .. Len(text) : text[k] \notin Special
    PROVE  /\ text # NullWord => GivesField(text, {[null |-> FALSE, text |-> text]})
           /\ text = NullWord => GivesField(text, {[null |-> TRUE, text |-> << >>]})
<1>1. ASSUME NEW r, NEW fs, Begins(r, fs), NEW x, x = ReadFrom(r, text)
      PROVE  /\ x \in Readers /\ x.mode \in {"start", "plain", "quote"}
             /\ text # NullWord => FieldRead(x) = Append(fs, [null |-> FALSE, text |-> text])
             /\ text = NullWord => FieldRead(x) = Append(fs, [null |-> TRUE, text |-> << >>])
  <2>1. Exposes(x, {IF text = << >> THEN "start" ELSE "plain"}, fs, text)
    BY <1>1, PlainContent
  <2>2. /\ x \in Readers /\ x.mode \in {"start", "plain"} /\ x.fields = fs /\ x.text = text
        /\ x.enclosed = FALSE /\ x.found = FALSE
    BY <2>1 DEF Exposes
  <2>3. CASE text # NullWord
    BY <2>2, <2>3 DEF FieldRead
  <2>4. CASE text = NullWord
    BY <2>2, <2>4 DEF FieldRead
  <2> QED BY <2>2, <2>3, <2>4
<1>2. ASSUME NEW field,
             \A r, fs : Begins(r, fs) => FieldRead(ReadFrom(r, text)) = Append(fs, field)
      PROVE  GivesField(text, {field})
  BY <1>1, <1>2 DEF GivesField
<1> QED BY <1>1, <1>2

\* A quoted text is its content.
LEMMA QuotedGives ==
    ASSUME NEW inner, NEW out, IsContent(inner, out)
    PROVE  GivesField(Quoted(inner), {[null |-> FALSE, text |-> out]})
<1>1. PICK q : q = <<Quote>>
  OBVIOUS
<1>2. q \in Seq(Char) /\ inner \in Seq(Char) /\ Quote \in Char /\ out \in Seq(Char)
  <2>1. Quote \in Char
    BY SpecialDiffer DEF Special
  <2> QED BY <1>1, <2>1 DEF IsContent
<1>3. Quoted(inner) = (q \o inner) \o q /\ q \o inner \in Seq(Char)
      /\ (q \o inner) \o q \in Seq(Char)
  <2>1. q \o inner \in Seq(Char)
    BY <1>2, ConcatProperties
  <2>2. (q \o inner) \o q \in Seq(Char)
    BY <1>2, <2>1, ConcatProperties
  <2> QED BY <1>1, <2>1, <2>2 DEF Quoted
<1>4. ASSUME NEW r, NEW fs, Begins(r, fs)
      PROVE  LET x == ReadFrom(r, Quoted(inner))
             IN  /\ x \in Readers /\ x.mode \in {"start", "plain", "quote"}
                 /\ FieldRead(x) = Append(fs, [null |-> FALSE, text |-> out])
  <2>1. r \in Readers
    BY <1>4 DEF Begins, Exposes
  <2>2. PICK a, b, x : /\ a = ReadByte(r, Quote) /\ b = ReadFrom(a, inner)
                       /\ x = ReadByte(b, Quote)
    OBVIOUS
  <2>3. Inside(a, fs, << >>) /\ a \in Readers
    <3>1. Encloses(a, "enclosed", fs, << >>) /\ a.found = FALSE
      BY <1>4, <2>2, OpenedText
    <3> QED BY <3>1 DEF Inside, Encloses
  <2>4. Inside(b, fs, out) /\ b \in Readers
    <3>1. Inside(b, fs, << >> \o out)
      BY <2>2, <2>3 DEF IsContent
    <3>2. << >> \o out = out
      BY <1>2, EmptyEnds
    <3>3. Inside(b, fs, out)
      BY <3>1, <3>2
    <3> QED BY <3>3 DEF Inside, Encloses
  <2>5. Encloses(x, "quote", fs, out) /\ x.found = FALSE
    <3>1. Encloses(b, "enclosed", fs, out) /\ b.found = FALSE
      BY <2>4 DEF Inside
    <3>2. PICK c \in Char : c = Quote
      BY <1>2
    <3>3. x = ReadByte(b, c)
      BY <2>2, <3>2
    <3>4. (c = Quote => Encloses(x, "quote", fs, out)) /\ x.found = b.found
      BY ONLY <3>1, <3>3, c \in Char, EnclosedText
    <3> QED BY <3>1, <3>2, <3>4
  <2>6. ReadFrom(r, Quoted(inner)) = x
    <3>1. ReadFrom(r, q) = a
      BY <1>1, <1>2, <2>1, <2>2, ReadOne
    <3>2. ReadFrom(r, q \o inner) = b
      BY <1>2, <2>1, <2>2, <3>1, ReadConcat
    <3>3. ReadFrom(b, q) = x
      BY <1>1, <1>2, <2>2, <2>4, ReadOne
    <3>4. ReadFrom(r, (q \o inner) \o q) = ReadFrom(b, q)
      BY <1>2, <1>3, <2>1, <3>2, ReadConcat
    <3> QED BY <1>3, <3>3, <3>4
  <2>7. FieldRead(x) = Append(fs, [null |-> FALSE, text |-> out])
    BY <2>5 DEF Encloses, FieldRead
  <2>8. x \in Readers /\ x.mode = "quote"
    BY <2>5 DEF Encloses
  <2> QED BY <2>6, <2>7, <2>8
<1> QED BY <1>3, <1>4 DEF GivesField

\* print_string is undone by the reader, whatever the bytes are.
LEMMA StringGives ==
    ASSUME NEW bytes \in Seq(Byte)
    PROVE  GivesField(print_string(bytes), {[null |-> FALSE, text |-> bytes]})
<1>1. PICK m, pieces : m = Len(bytes) /\ pieces = [k \in DOMAIN bytes |-> Escape(bytes[k])]
  OBVIOUS
<1>2. m \in Nat /\ DOMAIN bytes = 1 .. m /\ \A k \in 1 .. m : bytes[k] \in Byte
  BY <1>1, ElementOfSeq
<1>3. \A k \in 1 .. m : IsContent(pieces[k], <<bytes[k]>>)
  BY <1>1, <1>2, EscapeContent
<1>4. pieces \in Seq(Seq(Char)) /\ Len(pieces) = m
  <2>1. pieces \in [1 .. m -> Seq(Char)]
    BY <1>1, <1>2, <1>3 DEF IsContent
  <2> QED BY <1>2, <2>1, SequenceOfFunction
<1>5. bytes \in Seq(Char)
  <2>1. \A b \in Byte : b \in Char
    BY DEF Byte, Char
  <2> QED BY <1>1, <1>2, <2>1
<1>6. IsContent(FlattenSeq(pieces), bytes)
  BY <1>1, <1>3, <1>4, <1>5, PiecesContent
<1> QED BY <1>1, <1>6, QuotedGives DEF print_string

\* A text without a backslash comes back from print_string_raw.
LEMMA RawGives ==
    ASSUME NEW bytes \in Seq(Byte), \A k \in 1 .. Len(bytes) : bytes[k] # Backslash
    PROVE  GivesField(Quoted(print_string_raw(bytes)), {[null |-> FALSE, text |-> bytes]})
<1>1. PICK m, pieces : m = Len(bytes) /\ pieces = [k \in DOMAIN bytes |-> EscapeRaw(bytes[k])]
  OBVIOUS
<1>2. m \in Nat /\ DOMAIN bytes = 1 .. m /\ \A k \in 1 .. m : bytes[k] \in Byte
  BY <1>1, ElementOfSeq
<1>3. \A k \in 1 .. m : IsContent(pieces[k], <<bytes[k]>>)
  BY <1>1, <1>2, EscapeContent
<1>4. pieces \in Seq(Seq(Char)) /\ Len(pieces) = m
  <2>1. pieces \in [1 .. m -> Seq(Char)]
    BY <1>1, <1>2, <1>3 DEF IsContent
  <2> QED BY <1>2, <2>1, SequenceOfFunction
<1>5. bytes \in Seq(Char)
  <2>1. \A b \in Byte : b \in Char
    BY DEF Byte, Char
  <2> QED BY <1>1, <1>2, <2>1
<1>6. IsContent(FlattenSeq(pieces), bytes)
  BY <1>1, <1>3, <1>4, <1>5, PiecesContent
<1> QED BY <1>1, <1>6, QuotedGives DEF print_string_raw

\* What is read of so many bytes is not these bytes, and never more.
Differs(t, bytes, k) ==
    Len(t) < k \/ (Len(t) = k /\ \E j \in 1 .. k : t[j] # bytes[j])

\* The reader behind k bytes of print_string_raw: in the field, or behind a
\* backslash that takes along the next byte.
IsAstray(x, fs, bytes, k) ==
    /\ x.text \in Seq(Char) /\ Len(x.text) <= k
    /\ \/ Encloses(x, "enclosed", fs, x.text)
       \/ /\ Encloses(x, "enclosed escape", fs, x.text)
          /\ k > 0 /\ bytes[k] = Backslash /\ Len(x.text) < k
    /\ (\E j \in 1 .. k : bytes[j] = Backslash) => Differs(x.text, bytes, k)

\* A text is one character longer, or two.
LEMMA DiffersStill ==
    ASSUME NEW t \in Seq(Char), NEW bytes \in Seq(Byte), NEW k \in 1 .. Len(bytes),
           Len(t) <= k - 1, NEW c \in Char
    PROVE  /\ Append(t, c) \in Seq(Char) /\ Len(Append(t, c)) <= k
           /\ Differs(t, bytes, k - 1) => Differs(Append(t, c), bytes, k)
           /\ Len(t) < k - 1 => Differs(Append(t, c), bytes, k)
           /\ c # bytes[k] => Differs(Append(t, c), bytes, k)
<1>1. PICK n, u : n = Len(t) /\ u = Append(t, c)
  OBVIOUS
<1>2. n \in Nat /\ k \in Nat /\ n <= k - 1
  <2>1. Len(bytes) \in Nat
    OBVIOUS
  <2> QED BY <1>1, <2>1
<1>3. u \in Seq(Char) /\ Len(u) = n + 1 /\ u[n + 1] = c /\ \A j \in 1 .. n : u[j] = t[j]
  BY <1>1, AppendProperties
<1>4. ASSUME n < k - 1 PROVE Differs(u, bytes, k)
  BY <1>2, <1>3, <1>4 DEF Differs
<1>5. ASSUME Differs(t, bytes, k - 1) PROVE Differs(u, bytes, k)
  <2>1. CASE n = k - 1
    <3>1. PICK j \in 1 .. k - 1 : t[j] # bytes[j]
      BY <1>1, <1>2, <1>5, <2>1 DEF Differs
    <3>2. j \in 1 .. n /\ j \in 1 .. k
      BY <1>2, <2>1
    <3>3. u[j] # bytes[j]
      BY <1>3, <3>1, <3>2
    <3>4. Len(u) = k
      BY <1>2, <1>3, <2>1
    <3> QED BY <3>2, <3>3, <3>4 DEF Differs
  <2> QED BY <1>2, <1>4, <2>1
<1>6. ASSUME c # bytes[k] PROVE Differs(u, bytes, k)
  <2>1. CASE n = k - 1
    <3>1. n + 1 = k /\ k \in 1 .. k
      BY <1>2, <2>1
    <3>2. Len(u) = k /\ u[k] # bytes[k]
      BY <1>3, <1>6, <3>1
    <3> QED BY <3>1, <3>2 DEF Differs
  <2> QED BY <1>2, <1>4, <2>1
<1>7. Len(u) <= k
  BY <1>2, <1>3
<1> QED BY <1>1, <1>3, <1>4, <1>5, <1>6, <1>7

LEMMA EnclosedChar ==
    ASSUME NEW r, NEW fs, NEW t, Encloses(r, "enclosed", fs, t), NEW c \in Char,
           c \notin {Backslash, Quote}, NEW x, x = ReadByte(r, c)
    PROVE  Encloses(x, "enclosed", fs, Append(t, c))
BY EnclosedText

\* A byte in an enclosed field.
LEMMA RawInField ==
    ASSUME NEW b \in Byte, b # Backslash, NEW x, NEW fs, NEW t, Encloses(x, "enclosed", fs, t)
    PROVE  Encloses(ReadFrom(x, EscapeRaw(b)), "enclosed", fs, Append(t, b))
<1>1. b \in Char /\ x \in Readers
  BY DEF Byte, Char, Encloses
<1>2. CASE b \notin {Quote, Newline, Return}
  <2>1. EscapeRaw(b) = <<b>>
    BY <1>2 DEF EscapeRaw
  <2>2. PICK y : y = ReadByte(x, b)
    OBVIOUS
  <2>3. b \notin {Backslash, Quote} => Encloses(y, "enclosed", fs, Append(t, b))
    BY <1>1, <2>2, EnclosedText
  <2> QED BY <1>1, <1>2, <2>1, <2>2, <2>3, ReadOne
<1>3. ASSUME NEW c \in Char, EscapeRaw(b) = <<Backslash, c>>, Unescape(c) = b
      PROVE  Encloses(ReadFrom(x, EscapeRaw(b)), "enclosed", fs, Append(t, b))
  <2>1. PICK d \in Char : d = Backslash
    BY SpecialDiffer DEF Special
  <2>2. PICK y, z : y = ReadByte(x, d) /\ z = ReadByte(y, c)
    OBVIOUS
  <2>3. d = Backslash => Encloses(y, "enclosed escape", fs, t)
    BY <2>2, EnclosedText
  <2>4. Encloses(y, "enclosed escape", fs, t)
    BY <2>1, <2>3
  <2>5. Encloses(z, "enclosed", fs, Append(t, Unescape(c)))
    BY <2>2, <2>4, EscapedText
  <2>6. ReadFrom(x, <<d, c>>) = z
    BY <1>1, <2>2, ReadTwo
  <2> QED BY <1>3, <2>1, <2>5, <2>6
<1>4. CASE b \in {Quote, Newline, Return}
  <2>1. PICK c \in {Quote, 110, 114} : EscapeRaw(b) = <<Backslash, c>> /\ Unescape(c) = b
    BY <1>4 DEF EscapeRaw, Unescape, Quote, Newline, Return, Tab
  <2>2. c \in Char
    BY DEF Char, Quote
  <2> QED BY <1>3, <2>1, <2>2
<1> QED BY <1>2, <1>4

\* A byte behind a backslash that was printed as it is.
IsSwallowed(z, b, fs, t) ==
    \/ \E c \in Char : Encloses(z, "enclosed", fs, Append(t, c))
    \/ \E c \in Char, d \in Char :
          d # b /\ Encloses(z, "enclosed", fs, Append(Append(t, c), d))

LEMMA BytesAreChars == \A b \in Byte : b \in Char
BY DEF Byte, Char

LEMMA LetterCodes ==
    /\ \A e \in {110, 114} : e \in Char /\ e \notin {Backslash, Quote}
    /\ EscapeRaw(Newline) = <<Backslash, 110>> /\ EscapeRaw(Return) = <<Backslash, 114>>
    /\ 110 # Newline /\ 114 # Return
BY DEF Char, Backslash, Quote, EscapeRaw, Newline, Return

LEMMA RawBehind ==
    ASSUME NEW b \in Byte, b # Quote, NEW x, NEW fs, NEW t,
           Encloses(x, "enclosed escape", fs, t), NEW z, z = ReadFrom(x, EscapeRaw(b))
    PROVE  IsSwallowed(z, b, fs, t)
<1>1. b \in Char /\ x \in Readers
  <2>1. x \in Readers
    BY DEF Encloses
  <2> QED BY <2>1, BytesAreChars
<1>2. CASE b \notin {Newline, Return}
  <2>1. EscapeRaw(b) = <<b>>
    BY <1>2 DEF EscapeRaw
  <2>2. z = ReadByte(x, b)
    BY <1>1, <2>1, ReadOne
  <2>3. Encloses(z, "enclosed", fs, Append(t, Unescape(b)))
    BY <1>1, <2>2, EscapedText
  <2>4. Unescape(b) \in Char
    BY <1>1, UnescapeType
  <2> QED BY <2>3, <2>4 DEF IsSwallowed
<1>3. CASE b \in {Newline, Return}
  <2>1. PICK d \in {110, 114} : EscapeRaw(b) = <<Backslash, d>> /\ d # b
    <3>1. CASE b = Newline
      <4>1. EscapeRaw(b) = <<Backslash, 110>> /\ 110 # b
        BY <3>1, LetterCodes
      <4> QED BY <4>1
    <3>2. CASE b = Return
      <4>1. EscapeRaw(b) = <<Backslash, 114>> /\ 114 # b
        BY <3>2, LetterCodes
      <4> QED BY <4>1
    <3> QED BY <1>3, <3>1, <3>2
  <2>2. PICK c \in Char : c = Backslash
    BY SpecialDiffer DEF Special
  <2>3. d \in Char /\ d \notin {Backslash, Quote}
    BY ZenonT(60), <2>1, LetterCodes
  <2>4. PICK y : y = ReadByte(x, c)
    OBVIOUS
  <2>5. Encloses(y, "enclosed", fs, Append(t, Unescape(c)))
    BY <2>4, EscapedText
  <2>6. PICK e \in Char : e = Unescape(c)
    BY UnescapeType
  <2>7. Encloses(y, "enclosed", fs, Append(t, e))
    BY <2>5, <2>6
  <2>8. z = ReadByte(y, d)
    <3>1. ReadFrom(x, <<c, d>>) = ReadByte(y, d)
      BY ZenonT(60), <1>1, <2>3, <2>4, ReadTwo
    <3> QED BY <2>1, <2>2, <3>1
  <2>9. d \notin {Backslash, Quote} => Encloses(z, "enclosed", fs, Append(Append(t, e), d))
    <3>1. d \in Char
      BY <2>3
    <3>2. PICK u : u = Append(t, e)
      OBVIOUS
    <3>3. Encloses(y, "enclosed", fs, u)
      BY <2>7, <3>2
    <3>4. Encloses(z, "enclosed", fs, Append(u, d))
      BY ONLY <2>3, <2>8, <3>3, EnclosedChar
    <3> QED BY <3>2, <3>4
  <2> QED BY <2>1, <2>3, <2>6, <2>9 DEF IsSwallowed
<1> QED BY <1>2, <1>3

LEMMA AstrayStep ==
    ASSUME NEW bytes \in Seq(Byte), NEW k \in 1 .. Len(bytes), NEW x, NEW fs,
           IsAstray(x, fs, bytes, k - 1), bytes[k] = Quote => x.mode = "enclosed",
           NEW z, z = ReadFrom(x, EscapeRaw(bytes[k]))
    PROVE  IsAstray(z, fs, bytes, k)
<1>1. PICK b, t : b = bytes[k] /\ t = x.text
  OBVIOUS
<1>2. b \in Byte /\ b \in Char /\ k \in Nat /\ k > 0 /\ k - 1 \in Nat
  <2>1. b \in Byte
    BY <1>1, ElementOfSeq
  <2> QED BY <2>1 DEF Byte, Char
<1>3. t \in Seq(Char) /\ Len(t) \in Nat /\ Len(t) <= k - 1 /\ x \in Readers
  <2>1. t \in Seq(Char) /\ Len(t) <= k - 1
    BY <1>1 DEF IsAstray
  <2>2. x \in Readers
    BY DEF IsAstray, Encloses
  <2>3. Len(t) \in Nat
    BY <2>1
  <2> QED BY <2>1, <2>2, <2>3
<1>4. \A c \in Char : /\ Append(t, c) \in Seq(Char) /\ Len(Append(t, c)) <= k
                      /\ Differs(t, bytes, k - 1) => Differs(Append(t, c), bytes, k)
                      /\ Len(t) < k - 1 => Differs(Append(t, c), bytes, k)
                      /\ c # b => Differs(Append(t, c), bytes, k)
  BY <1>1, <1>3, DiffersStill
<1>5. (\E j \in 1 .. k - 1 : bytes[j] = Backslash) => Differs(t, bytes, k - 1)
  BY <1>1 DEF IsAstray
<1>6. ASSUME b # Backslash, NEW j \in 1 .. k, bytes[j] = Backslash
      PROVE  Differs(t, bytes, k - 1)
  <2>1. j # k
    BY <1>1, <1>6
  <2>2. j \in 1 .. k - 1
    BY <1>2, <2>1
  <2> QED BY <1>5, <1>6, <2>2
<1>7. CASE Encloses(x, "enclosed", fs, t) /\ b = Backslash
  <2>1. EscapeRaw(b) = <<b>>
    BY <1>7 DEF EscapeRaw, Backslash, Quote, Newline, Return
  <2>2. z = ReadByte(x, b)
    BY <1>1, <1>2, <1>3, <2>1, ReadOne
  <2>3. Encloses(z, "enclosed escape", fs, t)
    <3>1. b = Backslash => Encloses(z, "enclosed escape", fs, t)
      BY <1>2, <1>7, <2>2, EnclosedText
    <3> QED BY <1>7, <3>1
  <2>4. z.text = t
    BY <2>3 DEF Encloses
  <2>5. Len(t) < k /\ Len(t) <= k
    BY <1>2, <1>3
  <2> QED BY <1>1, <1>2, <1>3, <1>7, <2>3, <2>4, <2>5 DEF IsAstray, Differs
<1>8. CASE Encloses(x, "enclosed", fs, t) /\ b # Backslash
  <2>2. Encloses(z, "enclosed", fs, Append(t, b))
    BY <1>1, <1>2, <1>8, RawInField
  <2>3. z.text = Append(t, b)
    BY <2>2 DEF Encloses
  <2>4. (\E j \in 1 .. k : bytes[j] = Backslash) => Differs(Append(t, b), bytes, k)
    BY <1>2, <1>4, <1>6, <1>8
  <2> QED BY <1>2, <1>4, <2>2, <2>3, <2>4 DEF IsAstray
<1>9. CASE Encloses(x, "enclosed escape", fs, t) /\ Len(t) < k - 1
  <2>1. b # Quote
    BY <1>1, <1>9 DEF Encloses
  <2>2. ASSUME NEW c \in Char, Encloses(z, "enclosed", fs, Append(t, c))
        PROVE  IsAstray(z, fs, bytes, k)
    <3>1. z.text = Append(t, c)
      BY <2>2 DEF Encloses
    <3>2. Append(t, c) \in Seq(Char) /\ Len(Append(t, c)) <= k /\ Differs(Append(t, c), bytes, k)
      BY <1>4, <1>9
    <3> QED BY <2>2, <3>1, <3>2 DEF IsAstray
  <2>3. ASSUME NEW c \in Char, NEW d \in Char, d # b,
               Encloses(z, "enclosed", fs, Append(Append(t, c), d))
        PROVE  IsAstray(z, fs, bytes, k)
    <3>1. PICK u : u = Append(t, c)
      OBVIOUS
    <3>2. u \in Seq(Char) /\ Len(u) <= k - 1
      <4>1. u \in Seq(Char) /\ Len(u) = Len(t) + 1
        BY <1>3, <3>1, AppendProperties
      <4>2. Len(t) \in Nat /\ Len(t) < k - 1 /\ k \in Nat
        BY <1>2, <1>3, <1>9
      <4>3. Len(u) <= k - 1
        BY ONLY <4>1, <4>2
      <4> QED BY <4>1, <4>3
    <3>3. Append(u, d) \in Seq(Char) /\ Len(Append(u, d)) <= k /\ Differs(Append(u, d), bytes, k)
      BY <1>1, <2>3, <3>2, DiffersStill
    <3>4. z.text = Append(u, d)
      BY <2>3, <3>1 DEF Encloses
    <3> QED BY <2>3, <3>1, <3>3, <3>4 DEF IsAstray
  <2>4. IsSwallowed(z, b, fs, t)
    <3>1. b \in Byte
      BY <1>2
    <3>2. Encloses(x, "enclosed escape", fs, t)
      BY <1>9
    <3>3. z = ReadFrom(x, EscapeRaw(b))
      BY <1>1
    <3> QED BY ONLY <2>1, <3>1, <3>2, <3>3, RawBehind
  <2> QED BY <2>2, <2>3, <2>4 DEF IsSwallowed
<1>10. Encloses(x, "enclosed", fs, t) \/ (Encloses(x, "enclosed escape", fs, t) /\ Len(t) < k - 1)
  BY <1>1 DEF IsAstray
<1> QED BY <1>7, <1>8, <1>9, <1>10

\* What a field is made of.
LEMMA FieldReadParts ==
    ASSUME NEW r \in Readers
    PROVE  \E field \in FieldsRead :
              FieldRead(r) = Append(r.fields, field) /\ (field.null = TRUE \/ field.text = r.text)
<1>1. r.fields \in Seq(FieldsRead) /\ r.text \in Seq(Char)
  BY DEF Readers
<1> DEFINE null == (~ r.enclosed /\ r.text = NullWord) \/ (r.found /\ Len(r.text) = 1)
           field == [null |-> null, text |-> IF null THEN << >> ELSE r.text]
<1>2. field \in FieldsRead
  <2>1. null \in BOOLEAN
    OBVIOUS
  <2>2. (IF null THEN << >> ELSE r.text) \in Seq(Char)
    <3> HIDE DEF null
    <3> QED BY <1>1
  <2> HIDE DEF null
  <2> QED BY <2>1, <2>2 DEF FieldsRead
<1>3. FieldRead(r) = Append(r.fields, field)
  BY DEF FieldRead
<1>4. field.null = TRUE \/ field.text = r.text
  <2>1. CASE null
    <3> HIDE DEF null
    <3> QED BY <2>1
  <2>2. CASE ~ null
    <3> HIDE DEF null
    <3> QED BY <2>2
  <2> QED BY <2>1, <2>2
<1> HIDE DEF field
<1> QED BY <1>2, <1>3, <1>4

\* The fields of a column that does not get the value of bytes.
OtherThan(bytes) == {field \in FieldsRead : field # [null |-> FALSE, text |-> bytes]}

\* A text with a backslash never comes back from print_string_raw.
LEMMA RawLost ==
    ASSUME NEW bytes \in Seq(Byte),
           \A k \in 1 .. Len(bytes) : bytes[k] = Backslash =>
              k < Len(bytes) /\ bytes[k + 1] # Quote,
           \E k \in 1 .. Len(bytes) : bytes[k] = Backslash
    PROVE  GivesField(Quoted(print_string_raw(bytes)), OtherThan(bytes))
<1>1. PICK m, pieces : m = Len(bytes) /\ pieces = [k \in DOMAIN bytes |-> EscapeRaw(bytes[k])]
  OBVIOUS
<1>2. /\ m \in Nat /\ m \in 0 .. m /\ DOMAIN bytes = 1 .. m
      /\ \A k \in 1 .. m : bytes[k] \in Byte
  <2>1. m \in Nat
    BY <1>1
  <2> QED BY <1>1, <2>1, ElementOfSeq
<1>3. \A k \in 1 .. m : pieces[k] = EscapeRaw(bytes[k]) /\ pieces[k] \in Seq(Char)
  BY <1>1, <1>2, EscapeRawRead
<1>4. pieces \in Seq(Seq(Char)) /\ Len(pieces) = m
  <2>1. pieces \in [1 .. m -> Seq(Char)]
    BY <1>1, <1>2, <1>3
  <2> QED BY <1>2, <2>1, SequenceOfFunction
<1>5. PICK upto : IsFlattened(upto, pieces, Char)
  BY <1>4, FlattenUnfolds
<1>6. /\ upto \in [0 .. m -> Seq(Char)] /\ upto[0] = << >>
      /\ \A k \in 1 .. m : upto[k] = upto[k - 1] \o pieces[k]
      /\ print_string_raw(bytes) = upto[m]
  BY <1>1, <1>4, <1>5 DEF IsFlattened, print_string_raw
<1>7. PICK inner : inner = upto[m]
  OBVIOUS
<1>8. ASSUME NEW r, NEW fs, Inside(r, fs, << >>)
      PROVE  /\ Encloses(ReadFrom(r, inner), "enclosed", fs, ReadFrom(r, inner).text)
             /\ Differs(ReadFrom(r, inner).text, bytes, m)
  <2> DEFINE S == {k \in 0 .. m : IsAstray(ReadFrom(r, upto[k]), fs, bytes, k)}
  <2>1. r \in Readers
    BY <1>8 DEF Inside, Encloses
  <2>2. 0 \in S
    <3>1. ReadFrom(r, upto[0]) = r
      BY <1>6, <2>1, ReadNothing
    <3>2. IsAstray(r, fs, bytes, 0)
      <4>1. Encloses(r, "enclosed", fs, r.text) /\ r.text = << >>
        BY <1>8 DEF Inside, Encloses
      <4>2. Len(<< >>) <= 0 /\ << >> \in Seq(Char) /\ 1 .. 0 = {}
        OBVIOUS
      <4> QED BY <4>1, <4>2 DEF IsAstray
    <3> QED BY <1>2, <3>1, <3>2
  <2>3. ASSUME NEW k \in 1 .. m, k - 1 \in S PROVE k \in S
    <3>1. k \in 0 .. m /\ k - 1 \in 0 .. m
      BY <1>2
    <3>2. upto[k - 1] \in Seq(Char) /\ pieces[k] \in Seq(Char)
      BY <1>3, <1>6, <3>1
    <3>3. PICK x : x = ReadFrom(r, upto[k - 1])
      OBVIOUS
    <3>4. ReadFrom(r, upto[k]) = ReadFrom(x, EscapeRaw(bytes[k]))
      <4>1. ReadFrom(r, upto[k - 1] \o pieces[k]) = ReadFrom(x, pieces[k])
        BY <2>1, <3>2, <3>3, ReadConcat
      <4> QED BY <1>3, <1>6, <4>1
    <3>5. IsAstray(x, fs, bytes, k - 1)
      BY <2>3, <3>3
    <3>6. bytes[k] = Quote => x.mode = "enclosed"
      <4>1. ASSUME x.mode # "enclosed" PROVE bytes[k] # Quote
        <5>1. k - 1 > 0 /\ bytes[k - 1] = Backslash
          BY <3>5, <4>1 DEF IsAstray, Encloses
        <5>2. k - 1 \in 1 .. m /\ (k - 1) + 1 = k
          BY <1>2, <3>1, <5>1
        <5> QED BY <1>1, <5>1, <5>2
      <4> QED BY <4>1
    <3>7. IsAstray(ReadFrom(x, EscapeRaw(bytes[k])), fs, bytes, k)
      BY <1>1, <3>5, <3>6, AstrayStep
    <3> QED BY <3>1, <3>4, <3>7
  <2>4. m \in S
    <3>1. 0 .. m \subseteq S
      <4> HIDE DEF S
      <4> QED BY <1>2, <2>2, <2>3, UptoInduction
    <3> HIDE DEF S
    <3> QED BY <1>2, <3>1
  <2>5. PICK z : z = ReadFrom(r, inner)
    OBVIOUS
  <2>6. IsAstray(z, fs, bytes, m)
    BY <1>7, <2>4, <2>5
  <2>7. ~ (m > 0 /\ bytes[m] = Backslash)
    <3>1. SUFFICES ASSUME m > 0, bytes[m] = Backslash PROVE FALSE
      OBVIOUS
    <3>2. m \in 1 .. m
      BY <1>2, <3>1
    <3>3. m < m
      BY <1>1, <3>1, <3>2
    <3> QED BY <1>2, <3>3
  <2>8. Encloses(z, "enclosed", fs, z.text)
    BY <2>6, <2>7 DEF IsAstray
  <2>9. Differs(z.text, bytes, m)
    BY <1>1, <2>6 DEF IsAstray
  <2> QED BY <2>5, <2>8, <2>9
<1>9. inner \in Seq(Char)
  BY <1>2, <1>6, <1>7
<1>10. PICK q : q = <<Quote>>
  OBVIOUS
<1>11. q \in Seq(Char) /\ Quote \in Char
  <2>1. Quote \in Char
    BY SpecialDiffer DEF Special
  <2> QED BY <1>10, <2>1
<1>12. Quoted(inner) = (q \o inner) \o q /\ q \o inner \in Seq(Char)
       /\ (q \o inner) \o q \in Seq(Char)
  <2>1. q \o inner \in Seq(Char)
    BY <1>9, <1>11, ConcatProperties
  <2>2. (q \o inner) \o q \in Seq(Char)
    BY <1>11, <2>1, ConcatProperties
  <2> QED BY <1>10, <2>1, <2>2 DEF Quoted
<1>13. ASSUME NEW r, NEW fs, Begins(r, fs)
       PROVE  LET x == ReadFrom(r, Quoted(inner))
              IN  /\ x \in Readers /\ x.mode \in {"start", "plain", "quote"}
                  /\ \E field \in OtherThan(bytes) : FieldRead(x) = Append(fs, field)
  <2>1. r \in Readers
    BY <1>13 DEF Begins, Exposes
  <2>2. PICK a, b, x : /\ a = ReadByte(r, Quote) /\ b = ReadFrom(a, inner)
                       /\ x = ReadByte(b, Quote)
    OBVIOUS
  <2>3. Inside(a, fs, << >>) /\ a \in Readers
    <3>1. Encloses(a, "enclosed", fs, << >>) /\ a.found = FALSE
      BY <1>13, <2>2, OpenedText
    <3> QED BY <3>1 DEF Inside, Encloses
  <2>4. PICK t : t = b.text
    OBVIOUS
  <2>5. Encloses(b, "enclosed", fs, t) /\ Differs(t, bytes, m) /\ b \in Readers
    <3>1. Encloses(b, "enclosed", fs, t) /\ Differs(t, bytes, m)
      BY <1>8, <2>2, <2>3, <2>4
    <3> QED BY <3>1 DEF Encloses
  <2>6. Encloses(x, "quote", fs, t)
    <3>1. PICK c \in Char : c = Quote
      BY <1>11
    <3>2. x = ReadByte(b, c)
      BY <2>2, <3>1
    <3>3. c = Quote => Encloses(x, "quote", fs, t)
      BY ONLY <2>5, <3>2, c \in Char, EnclosedText
    <3> QED BY <3>1, <3>3
  <2>7. ReadFrom(r, Quoted(inner)) = x
    <3>1. ReadFrom(r, q) = a
      BY <1>10, <1>11, <2>1, <2>2, ReadOne
    <3>2. ReadFrom(r, q \o inner) = b
      BY <1>9, <1>11, <2>1, <2>2, <3>1, ReadConcat
    <3>3. ReadFrom(b, q) = x
      BY <1>10, <1>11, <2>2, <2>5, ReadOne
    <3>4. ReadFrom(r, (q \o inner) \o q) = ReadFrom(b, q)
      BY <1>11, <1>12, <2>1, <3>2, ReadConcat
    <3> QED BY <1>12, <3>3, <3>4
  <2>8. x \in Readers /\ x.mode = "quote" /\ x.fields = fs /\ x.text = t
    BY <2>6 DEF Encloses
  <2>9. PICK field \in FieldsRead :
           FieldRead(x) = Append(fs, field) /\ (field.null = TRUE \/ field.text = t)
    BY <2>8, FieldReadParts
  <2>10. t # bytes
    <3>1. ASSUME t = bytes PROVE FALSE
      <4>1. Len(t) = m
        BY <1>1, <3>1
      <4>2. \E j \in 1 .. m : t[j] # bytes[j]
        BY <1>2, <2>5, <4>1 DEF Differs
      <4> QED BY <3>1, <4>2
    <3> QED BY <3>1
  <2>11. field # [null |-> FALSE, text |-> bytes]
    BY <2>9, <2>10
  <2> QED BY <2>7, <2>8, <2>9, <2>11 DEF OtherThan
<1> QED BY <1>6, <1>7, <1>12, <1>13 DEF GivesField

\* Two digits for each byte.
IsHexOf(t, bytes) ==
    /\ t \in Seq(HexDigits) /\ Len(t) = 2 * Len(bytes)
    /\ \A k \in 1 .. Len(bytes) :
          t[2 * k - 1] = HexDigit(bytes[k] \div 16) /\ t[2 * k] = HexDigit(bytes[k] % 16)

LEMMA HexParts ==
    ASSUME NEW bytes \in Seq(Byte)
    PROVE  IsHexOf(print_hex(bytes), bytes)
<1>1. PICK m, pieces : /\ m = Len(bytes)
                       /\ pieces = [k \in DOMAIN bytes |->
                             <<HexDigit(bytes[k] \div 16), HexDigit(bytes[k] % 16)>>]
  OBVIOUS
<1>2. m \in Nat /\ DOMAIN bytes = 1 .. m /\ \A k \in 1 .. m : bytes[k] \in Byte
  BY <1>1, ElementOfSeq
<1>3. \A k \in 1 .. m : /\ pieces[k] \in Seq(HexDigits) /\ Len(pieces[k]) = 2
                        /\ pieces[k][1] = HexDigit(bytes[k] \div 16)
                        /\ pieces[k][2] = HexDigit(bytes[k] % 16)
  <2> SUFFICES ASSUME NEW k \in 1 .. m
               PROVE  /\ pieces[k] \in Seq(HexDigits) /\ Len(pieces[k]) = 2
                      /\ pieces[k][1] = HexDigit(bytes[k] \div 16)
                      /\ pieces[k][2] = HexDigit(bytes[k] % 16)
    OBVIOUS
  <2>1. PICK x, y : x = HexDigit(bytes[k] \div 16) /\ y = HexDigit(bytes[k] % 16)
    OBVIOUS
  <2>2. x \in HexDigits /\ y \in HexDigits
    BY <1>2, <2>1, HexPair
  <2>3. pieces[k] = <<x, y>>
    BY <1>1, <1>2, <2>1
  <2>4. /\ <<x, y>> \in Seq(HexDigits) /\ Len(<<x, y>>) = 2
        /\ <<x, y>>[1] = x /\ <<x, y>>[2] = y
    BY <2>2
  <2> QED BY <2>1, <2>3, <2>4
<1>4. pieces \in Seq(Seq(HexDigits)) /\ Len(pieces) = m
  <2>1. pieces \in [1 .. m -> Seq(HexDigits)]
    BY <1>1, <1>2, <1>3
  <2> QED BY <1>2, <2>1, SequenceOfFunction
<1>5. PICK sizes, begin : sizes = [k \in 1 .. m |-> 2] /\ begin = [k \in 0 .. m |-> 2 * k]
  OBVIOUS
<1>6. sizes \in Seq(Nat) /\ Len(sizes) = m /\ \A k \in 1 .. m : sizes[k] = 2
  <2>1. sizes \in [1 .. m -> Nat]
    BY <1>5
  <2>2. \A k \in 1 .. m : sizes[k] = 2
    BY <1>5
  <2> QED BY <1>2, <2>1, <2>2, SequenceOfFunction
<1>7. /\ \A k \in 0 .. m : begin[k] = 2 * k
      /\ \A k \in 1 .. m : begin[k - 1] = 2 * k - 2 /\ begin[k] = 2 * k
  <2>1. \A k \in 0 .. m : begin[k] = 2 * k
    BY <1>5
  <2>2. ASSUME NEW k \in 1 .. m PROVE begin[k - 1] = 2 * k - 2 /\ begin[k] = 2 * k
    <3>1. k - 1 \in 0 .. m /\ k \in 0 .. m /\ 2 * (k - 1) = 2 * k - 2
      BY <1>2
    <3> QED BY <2>1, <3>1
  <2> QED BY <2>1, <2>2
<1>8. AreSizes(sizes, pieces, HexDigits)
  BY <1>3, <1>4, <1>6 DEF AreSizes
<1>9. IsCut(begin, sizes)
  <2>1. begin \in [0 .. m -> Nat]
    BY <1>2, <1>5
  <2>2. begin[0] = 0
    <3>1. 0 \in 0 .. m /\ 2 * 0 = 0
      BY <1>2
    <3> QED BY <1>7, <3>1
  <2>3. \A k \in 1 .. m : begin[k] = begin[k - 1] + sizes[k]
    <3> SUFFICES ASSUME NEW k \in 1 .. m PROVE begin[k] = begin[k - 1] + sizes[k]
      OBVIOUS
    <3>1. (2 * k - 2) + 2 = 2 * k
      BY <1>2
    <3> QED BY <1>6, <1>7, <3>1
  <2> QED BY <1>6, <2>1, <2>2, <2>3 DEF IsCut
<1>10. PICK t : t = FlattenSeq(pieces)
  OBVIOUS
<1>11. t \in Seq(HexDigits) /\ IsLaid(t, pieces, begin, sizes, m)
  BY <1>6, <1>8, <1>9, <1>10, PiecesLaid
<1>12. Len(t) = 2 * m
  <2>1. m \in 0 .. m
    BY <1>2
  <2> QED BY <1>7, <1>11, <2>1 DEF IsLaid
<1>13. ASSUME NEW k \in 1 .. m
       PROVE  t[2 * k - 1] = HexDigit(bytes[k] \div 16) /\ t[2 * k] = HexDigit(bytes[k] % 16)
  <2>1. \A j \in 1 .. 2 : t[begin[k - 1] + j] = pieces[k][j]
    BY <1>6, <1>11 DEF IsLaid
  <2>2. (2 * k - 2) + 1 = 2 * k - 1 /\ (2 * k - 2) + 2 = 2 * k
    BY <1>2
  <2>3. t[2 * k - 1] = pieces[k][1] /\ t[2 * k] = pieces[k][2]
    BY <1>7, <2>1, <2>2
  <2> QED BY <1>3, <2>3
<1>14. print_hex(bytes) = t
  BY <1>1, <1>10 DEF print_hex
<1> QED BY <1>1, <1>11, <1>12, <1>13, <1>14 DEF IsHexOf

LEMMA HexDigitValue ==
    ASSUME NEW b \in Byte
    PROVE  16 * HexValue(HexDigit(b \div 16)) + HexValue(HexDigit(b % 16)) = b
<1>1. PICK x, y : x = b \div 16 /\ y = b % 16
  OBVIOUS
<1>2. x \in 0 .. 15 /\ y \in 0 .. 15 /\ 16 * x + y = b
  BY <1>1 DEF Byte
<1>3. \A n \in 0 .. 15 : HexValue(HexDigit(n)) = n
  BY DEF HexValue, HexDigit
<1> QED BY <1>1, <1>2, <1>3

\* UNHEX() gives the bytes back.
LEMMA Unhexing ==
    ASSUME NEW bytes \in Seq(Byte), NEW def, Unhexed(def), NEW field,
           field = [null |-> FALSE, text |-> print_hex(bytes)]
    PROVE  Converted(def, field) = [null |-> FALSE, text |-> bytes]
<1>1. PICK t, m : t = print_hex(bytes) /\ m = Len(bytes)
  OBVIOUS
<1>2. IsHexOf(t, bytes) /\ m \in Nat /\ DOMAIN bytes = 1 .. m
  BY <1>1, HexParts
<1>3. /\ t \in Seq(HexDigits) /\ Len(t) = 2 * m
      /\ \A k \in 1 .. m :
            t[2 * k - 1] = HexDigit(bytes[k] \div 16) /\ t[2 * k] = HexDigit(bytes[k] % 16)
  BY <1>1, <1>2 DEF IsHexOf
<1>4. Len(t) % 2 = 0 /\ Len(t) \div 2 = m
  <2>1. (2 * m) % 2 = 0 /\ (2 * m) \div 2 = m
    BY <1>2
  <2> QED BY <1>3, <2>1
<1>5. IsHex(t)
  <2>1. \A k \in DOMAIN t : t[k] \in HexDigits
    BY <1>3, ElementOfSeq
  <2> QED BY <1>4, <2>1 DEF IsHex, HexDigits
<1>6. [k \in 1 .. Len(t) \div 2 |-> 16 * HexValue(t[2 * k - 1]) + HexValue(t[2 * k])] = bytes
  <2>1. ASSUME NEW k \in 1 .. m
        PROVE  16 * HexValue(t[2 * k - 1]) + HexValue(t[2 * k]) = bytes[k]
    <3>1. bytes[k] \in Byte
      BY <1>1, ElementOfSeq
    <3> QED BY <1>3, <3>1, HexDigitValue
  <2>2. [k \in 1 .. m |-> 16 * HexValue(t[2 * k - 1]) + HexValue(t[2 * k])] =
        [k \in 1 .. m |-> bytes[k]]
    BY <2>1
  <2>3. bytes = [k \in 1 .. m |-> bytes[k]]
    BY <1>2
  <2> QED BY <1>4, <2>2, <2>3
<1>7. field.null = FALSE /\ field.text = t
  BY <1>1
<1> QED BY <1>5, <1>6, <1>7 DEF Converted

\* The other conversions.
LEMMA Conversions ==
    ASSUME NEW def, NEW field
    PROVE  /\ ~ Unhexed(def) => Converted(def, field) = field
           /\ Unhexed(def) /\ (field.null = TRUE \/ Len(field.text) % 2 # 0) =>
                 Converted(def, field) = [null |-> TRUE, text |-> << >>]
BY DEF Converted, IsHex

\* The fields that were read before stay.
LEMMA TakenFields ==
    ASSUME NEW r \in Readers, NEW mode, NEW c
    PROVE  /\ Take(r, mode, c).fields = r.fields /\ [r EXCEPT !.mode = mode].fields = r.fields
           /\ [r EXCEPT !.mode = mode, !.enclosed = TRUE].fields = r.fields
           /\ \A d : Take(Take(r, mode, c), mode, d).fields = r.fields
           /\ \A d : [Take(r, mode, c) EXCEPT !.found = @ \/ d = 78].fields = r.fields
BY DEF Take, Readers

LEMMA ByteFields ==
    ASSUME NEW r \in Readers, NEW c \in Char
    PROVE  ReadByte(r, c).fields = r.fields \/ ReadByte(r, c).fields = FieldRead(r)
<1>1. r.mode \in Modes
  BY DEF Readers
<1> DEFINE x == ReadByte(r, c)
<1>2. CASE r.mode = "end"
  BY <1>2 DEF ReadByte
<1>3. CASE r.mode \in {"start", "plain", "quote"} /\ c \in {Tab, Newline}
  <2>1. ReadByte(r, Tab).fields = FieldRead(r) /\ ReadByte(r, Newline).fields = FieldRead(r)
    BY <1>3, EndedText DEF Begins, Exposes
  <2> QED BY <1>3, <2>1
<1>4. CASE r.mode = "start" /\ c = Quote
  <2>1. x = [r EXCEPT !.mode = "enclosed", !.enclosed = TRUE]
    BY <1>4, SpecialDiffer DEF ReadByte
  <2> QED BY <2>1, TakenFields
<1>5. CASE r.mode \in {"start", "plain"} /\ c = Backslash
  <2>1. x = [r EXCEPT !.mode = "escape"]
    BY <1>5, SpecialDiffer DEF ReadByte
  <2> QED BY <2>1, TakenFields
<1>6. CASE /\ r.mode \in {"start", "plain"} /\ c \notin {Tab, Newline, Backslash}
           /\ c # Quote \/ r.mode = "plain"
  <2>1. x = Take(r, "plain", c)
    <3>1. CASE r.mode = "plain"
      BY <1>6, <3>1 DEF ReadByte
    <3>2. CASE r.mode = "start"
      BY <1>6, <3>2 DEF ReadByte
    <3> QED BY <1>6, <3>1, <3>2
  <2> QED BY <2>1, TakenFields
<1>7. CASE r.mode = "enclosed"
  <2>1. CASE c = Backslash
    <3>1. x = [r EXCEPT !.mode = "enclosed escape"]
      BY <1>7, <2>1, SpecialDiffer DEF ReadByte
    <3>2. [r EXCEPT !.mode = "enclosed escape"].fields = r.fields
      BY DEF Readers
    <3> QED BY <3>1, <3>2
  <2>2. CASE c = Quote
    <3>1. x = [r EXCEPT !.mode = "quote"]
      BY <1>7, <2>2, SpecialDiffer DEF ReadByte
    <3> QED BY <3>1, TakenFields
  <2>3. CASE c \notin {Backslash, Quote}
    <3>1. x = Take(r, "enclosed", c)
      BY <1>7, <2>3 DEF ReadByte
    <3> QED BY <3>1, TakenFields
  <2> QED BY <2>1, <2>2, <2>3
<1>8. CASE r.mode = "quote" /\ c \notin {Tab, Newline}
  <2>1. CASE c = Quote
    <3>1. x = Take(r, "enclosed", Quote)
      BY <1>8, <2>1, SpecialDiffer DEF ReadByte
    <3> QED BY <3>1, TakenFields
  <2>2. CASE c = Backslash
    <3>1. x = Take(r, "enclosed escape", Quote)
      BY <1>8, <2>2, SpecialDiffer DEF ReadByte
    <3>2. Take(r, "enclosed escape", Quote).fields = r.fields
      BY DEF Take, Readers
    <3> QED BY <3>1, <3>2
  <2>3. CASE c \notin {Quote, Backslash}
    <3>1. x = Take(Take(r, "enclosed", Quote), "enclosed", c)
      BY <1>8, <2>3 DEF ReadByte
    <3>2. PICK y : y = Take(r, "enclosed", Quote)
      OBVIOUS
    <3>3. y \in Readers /\ y.fields = r.fields
      <4>1. "enclosed" \in Modes /\ Quote \in Char
        BY SpecialDiffer DEF Special, Modes
      <4> QED BY <3>2, <4>1, TakenText DEF IsTaken
    <3>4. Take(y, "enclosed", c).fields = y.fields
      BY <3>3, TakenFields
    <3> QED BY <3>1, <3>2, <3>3, <3>4
  <2> QED BY <2>1, <2>2, <2>3
<1>9. CASE r.mode \in {"escape", "enclosed escape"}
  <2>1. PICK mode : mode = IF r.mode = "escape" THEN "plain" ELSE "enclosed"
    OBVIOUS
  <2>2. x = [Take(r, mode, Unescape(c)) EXCEPT !.found = @ \/ c = 78]
    BY <1>9, <2>1 DEF ReadByte
  <2> QED BY <2>2, TakenFields
<1> QED BY <1>1, <1>2, <1>3, <1>4, <1>5, <1>6, <1>7, <1>8, <1>9 DEF Modes

IsPrefixOf(p, s) == Len(p) <= Len(s) /\ \A k \in 1 .. Len(p) : s[k] = p[k]

LEMMA FieldsStay ==
    ASSUME NEW r \in Readers, NEW text \in Seq(Char)
    PROVE  IsPrefixOf(r.fields, ReadFrom(r, text).fields)
<1>1. PICK m, fs : m = Len(text) /\ fs = r.fields
  OBVIOUS
<1>2. m \in Nat /\ m \in 0 .. m /\ \A k \in 1 .. m : text[k] \in Char
  <2>1. m \in Nat
    BY <1>1
  <2> QED BY <1>1, <2>1, ElementOfSeq
<1>3. PICK after : IsReading(after, r, text)
  BY ReadUnfolds
<1>4. /\ after \in [0 .. m -> Readers] /\ after[0] = r /\ ReadFrom(r, text) = after[m]
      /\ \A k \in 1 .. m : after[k] = ReadByte(after[k - 1], text[k])
  BY <1>1, <1>3 DEF IsReading
<1> DEFINE S == {k \in 0 .. m : IsPrefixOf(fs, after[k].fields)}
<1>5. fs \in Seq(FieldsRead) /\ Len(fs) \in Nat
  BY <1>1 DEF Readers
<1>6. 0 \in S
  <2>1. IsPrefixOf(fs, after[0].fields)
    BY <1>1, <1>4, <1>5 DEF IsPrefixOf
  <2> QED BY <1>2, <2>1
<1>7. ASSUME NEW k \in 1 .. m, k - 1 \in S PROVE k \in S
  <2>1. k \in 0 .. m /\ k - 1 \in 0 .. m
    BY <1>2
  <2>2. PICK x, c, y : x = after[k - 1] /\ c = text[k] /\ y = after[k]
    OBVIOUS
  <2>3. x \in Readers /\ c \in Char /\ y = ReadByte(x, c) /\ IsPrefixOf(fs, x.fields)
    BY <1>2, <1>4, <1>7, <2>1, <2>2
  <2>4. y.fields = x.fields \/ y.fields = FieldRead(x)
    BY <2>3, ByteFields
  <2>5. IsPrefixOf(fs, FieldRead(x))
    <3>1. PICK field \in FieldsRead : FieldRead(x) = Append(x.fields, field)
      BY <2>3, FieldReadParts
    <3>2. PICK g : g = x.fields
      OBVIOUS
    <3>3. g \in Seq(FieldsRead) /\ Len(g) \in Nat
      BY <2>3, <3>2 DEF Readers
    <3>4. Len(Append(g, field)) = Len(g) + 1 /\ \A j \in 1 .. Len(g) : Append(g, field)[j] = g[j]
      BY <3>3, AppendProperties
    <3>5. Len(fs) <= Len(g) /\ \A j \in 1 .. Len(fs) : g[j] = fs[j]
      BY <2>3, <3>2 DEF IsPrefixOf
    <3>6. \A j \in 1 .. Len(fs) : j \in 1 .. Len(g)
      BY <1>5, <3>3, <3>5
    <3>7. Len(fs) <= Len(Append(g, field))
      BY <1>5, <3>3, <3>4, <3>5
    <3> QED BY <3>1, <3>2, <3>4, <3>5, <3>6, <3>7 DEF IsPrefixOf
  <2> QED BY <2>1, <2>2, <2>3, <2>4, <2>5
<1>8. m \in S
  <2>1. 0 .. m \subseteq S
    <3> HIDE DEF S
    <3> QED BY <1>2, <1>6, <1>7, UptoInduction
  <2> HIDE DEF S
  <2> QED BY <1>2, <2>1
<1> QED BY <1>1, <1>4, <1>8

\* Of the text of one field only the field is new.
LEMMA AnyGives ==
    ASSUME NEW text, IsFieldText(text)
    PROVE  GivesField(text, FieldsRead)
<1>1. text \in Seq(Char)
  BY DEF IsFieldText
<1>2. ASSUME NEW r, NEW fs, Begins(r, fs)
      PROVE  LET x == ReadFrom(r, text)
             IN  /\ x \in Readers /\ x.mode \in {"start", "plain", "quote"}
                 /\ \E field \in FieldsRead : FieldRead(x) = Append(fs, field)
  <2>1. r \in Readers /\ r.mode = "start" /\ r.fields = fs
    BY <1>2 DEF Begins, Exposes
  <2>2. PICK x : x = ReadFrom(r, text)
    OBVIOUS
  <2>3. Stands(r, {"start"}, Len(fs))
    BY <2>1 DEF Stands
  <2>4. Stands(x, {"start", "plain", "quote"}, Len(fs))
    BY <2>2, <2>3 DEF IsFieldText
  <2>5. x \in Readers /\ x.mode \in {"start", "plain", "quote"} /\ Len(x.fields) = Len(fs)
    BY <2>4 DEF Stands
  <2>6. IsPrefixOf(fs, x.fields)
    BY <1>1, <2>1, <2>2, FieldsStay
  <2>7. x.fields = fs
    <3>1. fs \in Seq(FieldsRead) /\ x.fields \in Seq(FieldsRead)
      BY <2>1, <2>5 DEF Readers
    <3> QED BY <2>5, <2>6, <3>1, SeqEqual DEF IsPrefixOf
  <2> QED BY <2>2, <2>5, <2>7, FieldReadParts
<1> QED BY <1>1, <1>2 DEF GivesField

LEMMA GivesMore ==
    ASSUME NEW text, NEW S, NEW T, GivesField(text, S), \A field \in S : field \in T
    PROVE  GivesField(text, T)
BY DEF GivesField
-----------------------------------------------------------------------------
(* What arrives in the table                                               *)

\* The formula of Restored, for a column f that has become x.
AsStored(f, x) ==
    CASE f.null -> x.null
      [] ~ f.null /\ f.def.type \in Texts -> x = [null |-> FALSE, text |-> f.value]
      [] OTHER -> /\ x = [null |-> FALSE, text |-> <<Digits>>]
                  /\ Decoded(f.def, f.bytes, f.after, process_56) = f.value

\* A column becomes what ValuesRestored says.
IsDelivered(f, x) ==
    f.damaged \/ (AsStored(f, x) <=>
        f.null \/ ~ (Lossy(f.def, f.value, f.after, process_56) \/ LostExternal(f)))

\* The fields of a line that are good for a column.
Good(f) == {field \in FieldsRead : IsDelivered(f, Converted(f.def, field))}

LEMMA TextBytes ==
    ASSUME NEW f, FieldOK(f), f.null = FALSE, f.damaged = FALSE, f.def.type \in Texts
    PROVE  f.bytes = f.value /\ f.value \in Seq(Byte)
<1>1. ValueOK(f.def, f.value) /\ f.bytes = Stored(f.def, f.value)
  BY DEF FieldOK
<1>2. Stored(f.def, f.value) = f.value
  BY SMT DEF Stored, Texts
<1>3. f.value \in Seq(Byte)
  BY <1>1 DEF ValueOK
<1> QED BY <1>1, <1>2, <1>3

LEMMA TextNeverLossy ==
    ASSUME NEW def, NEW value, NEW after, def.type \in Texts
    PROVE  Lossy(def, value, after, process_56) = FALSE
BY SMT DEF Lossy, Texts, Numbers

LEMMA TextGood ==
    ASSUME NEW f, f.null = FALSE, f.def.type \in Texts, NEW field \in FieldsRead,
           Converted(f.def, field) = [null |-> FALSE, text |-> f.value] <=> ~ LostExternal(f)
    PROVE  field \in Good(f)
<1>1. PICK x : x = Converted(f.def, field)
  OBVIOUS
<1>2. AsStored(f, x) <=> ~ LostExternal(f)
  BY <1>1 DEF AsStored
<1>3. IsDelivered(f, x)
  BY <1>2, TextNeverLossy DEF IsDelivered
<1> QED BY <1>1, <1>3 DEF Good

LEMMA WordsRead ==
    /\ [null |-> TRUE, text |-> << >>] \in FieldsRead
    /\ [null |-> FALSE, text |-> <<Digits>>] \in FieldsRead
    /\ [null |-> FALSE, text |-> <<ErrorWord>>] \in FieldsRead
    /\ Digits \in Char /\ Digits \notin Special /\ Digits \notin Byte
    /\ ErrorWord \in Char /\ ErrorWord \notin Special /\ ErrorWord \notin Byte
<1>1. /\ Digits \in Char /\ Digits \notin Special /\ Digits \notin Byte
      /\ ErrorWord \in Char /\ ErrorWord \notin Special /\ ErrorWord \notin Byte
  BY DEF Char, Digits, ErrorWord, Byte, Special, Tab, Newline, Quote, Backslash
<1>2. << >> \in Seq(Char) /\ <<Digits>> \in Seq(Char) /\ <<ErrorWord>> \in Seq(Char)
  BY <1>1
<1> QED BY <1>1, <1>2 DEF FieldsRead

LEMMA DigitsGood ==
    ASSUME NEW f, FieldOK(f), f.null = FALSE, f.damaged = FALSE, f.extern = FALSE,
           f.def.type \in Numbers \cup Temporals
    PROVE  [null |-> FALSE, text |-> <<Digits>>] \in Good(f)
<1>1. PICK field : field = [null |-> FALSE, text |-> <<Digits>>]
  OBVIOUS
<1>2. /\ ValueOK(f.def, f.value) /\ f.bytes = Stored(f.def, f.value)
      /\ f.after \in Seq(Byte) /\ Len(f.after) >= 7
  BY DEF FieldOK
<1>3. ~ Unhexed(f.def) /\ f.def.type \notin Texts
  BY DEF Unhexed, Numbers, Temporals, Texts
<1>4. Converted(f.def, field) = field
  BY <1>3, Conversions
<1>5. IsTold(f.def, f.value, f.after, process_56)
  BY <1>2, ValueTold
<1>6. AsStored(f, field) <=> Decoded(f.def, f.bytes, f.after, process_56) = f.value
  BY <1>1, <1>3 DEF AsStored
<1>7. ~ LostExternal(f)
  BY DEF LostExternal
<1>8. IsDelivered(f, field)
  BY <1>2, <1>5, <1>6, <1>7 DEF IsDelivered, IsTold
<1>9. field \in FieldsRead
  BY <1>1, WordsRead
<1> QED BY <1>1, <1>4, <1>8, <1>9 DEF Good

LEMMA NullGood ==
    ASSUME NEW f, f.null = TRUE
    PROVE  [null |-> TRUE, text |-> << >>] \in Good(f)
<1>1. PICK field : field = [null |-> TRUE, text |-> << >>]
  OBVIOUS
<1>2. field.null = TRUE
  BY <1>1
<1>3. Converted(f.def, field) = field
  BY <1>1, <1>2, Conversions
<1>4. AsStored(f, field)
  BY <1>2 DEF AsStored
<1>5. IsDelivered(f, field)
  BY <1>4 DEF IsDelivered
<1>6. field \in FieldsRead
  BY <1>1, WordsRead
<1> QED BY <1>1, <1>3, <1>5, <1>6 DEF Good

LEMMA SingleGives ==
    ASSUME NEW text, NEW field, GivesField(text, {field}), NEW T, field \in T
    PROVE  GivesField(text, T)
BY GivesMore

\* A hexadecimal text is one field.
LEMMA HexGives ==
    ASSUME NEW bytes \in Seq(Byte)
    PROVE  /\ GivesField(print_hex(bytes), {[null |-> FALSE, text |-> print_hex(bytes)]})
           /\ [null |-> FALSE, text |-> print_hex(bytes)] \in FieldsRead
<1>1. PICK t : t = print_hex(bytes)
  OBVIOUS
<1>2. /\ t \in Seq(HexDigits) /\ t \in Seq(Char)
      /\ \A k \in 1 .. Len(t) : t[k] \notin Special
  BY <1>1, HexPlain, HexType
<1>3. t # NullWord
  <2>1. SUFFICES ASSUME t = NullWord PROVE FALSE
    OBVIOUS
  <2>2. Len(t) = 4 /\ t[1] = 78
    BY <2>1 DEF NullWord
  <2>3. \A k \in 1 .. Len(t) : t[k] \in HexDigits
    BY <1>2, ElementOfSeq
  <2>4. 78 \in HexDigits
    BY <2>2, <2>3
  <2> QED BY <2>4 DEF HexDigits
<1>4. GivesField(t, {[null |-> FALSE, text |-> t]})
  BY <1>2, <1>3, PlainGives
<1>5. [null |-> FALSE, text |-> t] \in FieldsRead
  BY <1>2 DEF FieldsRead
<1> QED BY <1>1, <1>4, <1>5

LEMMA WordGives ==
    ASSUME NEW c \in {Digits, ErrorWord}
    PROVE  GivesField(<<c>>, {[null |-> FALSE, text |-> <<c>>]})
<1>1. PICK t : t = <<c>>
  OBVIOUS
<1>2. c \in Char /\ c \notin Special
  BY WordsRead
<1>3. t \in Seq(Char) /\ Len(t) = 1 /\ \A k \in 1 .. Len(t) : t[k] \notin Special
  BY <1>1, <1>2
<1>4. t # NullWord
  BY <1>3 DEF NullWord
<1> QED BY <1>1, <1>3, <1>4, PlainGives

\* The quote behind a TEXT that is printed with -x is one more character.
LEMMA HexAndQuoteGives ==
    ASSUME NEW bytes \in Seq(Byte), bytes # << >>, NEW t, t = Append(print_hex(bytes), Quote)
    PROVE  /\ GivesField(t, {[null |-> FALSE, text |-> t]})
           /\ [null |-> FALSE, text |-> t] \in FieldsRead /\ Len(t) % 2 # 0
<1>1. PICK h : h = print_hex(bytes)
  OBVIOUS
<1>2. /\ h \in Seq(HexDigits) /\ h \in Seq(Char) /\ h # << >>
      /\ \A k \in 1 .. Len(h) : h[k] \notin Special
  BY <1>1, HexPlain, HexType
<1>3. PICK q : q = <<Quote>>
  OBVIOUS
<1>4. Quote \in Char /\ q \in Seq(Char) /\ Quote \notin {Tab, Newline, Backslash}
  <2>1. Quote \in Char /\ Quote \notin {Tab, Newline, Backslash}
    BY SpecialDiffer DEF Special
  <2> QED BY <1>3, <2>1
<1>5. t = h \o q /\ h \o q \in Seq(Char) /\ t \in Seq(Char)
  BY <1>1, <1>2, <1>3, <1>4, AppendIsConcat, ConcatProperties
<1>6. Len(t) % 2 # 0
  <2>1. IsHexOf(h, bytes)
    BY <1>1, HexParts
  <2>2. PICK n : n = Len(bytes)
    OBVIOUS
  <2>3. n \in Nat /\ Len(h) = 2 * n
    BY <2>1, <2>2 DEF IsHexOf
  <2>4. Len(t) = Len(h) + 1
    BY <1>1, <1>2, <1>4, AppendProperties
  <2>5. Len(t) = 2 * n + 1
    BY <2>3, <2>4
  <2>6. (2 * n + 1) % 2 = 1
    BY <2>3
  <2> QED BY <2>5, <2>6
<1>7. t # NullWord
  <2>1. Len(NullWord) % 2 = 0
    BY DEF NullWord
  <2>2. SUFFICES ASSUME t = NullWord PROVE FALSE
    OBVIOUS
  <2>3. Len(t) % 2 = 0
    BY <2>1, <2>2
  <2> QED BY <1>6, <2>3
<1>8. ASSUME NEW r, NEW fs, Begins(r, fs)
      PROVE  /\ ReadFrom(r, t) \in Readers
             /\ ReadFrom(r, t).mode \in {"start", "plain", "quote"}
             /\ FieldRead(ReadFrom(r, t)) = Append(fs, [null |-> FALSE, text |-> t])
  <2>1. r \in Readers
    BY <1>8 DEF Begins, Exposes
  <2>2. PICK x, y : x = ReadFrom(r, h) /\ y = ReadByte(x, Quote)
    OBVIOUS
  <2>3. Exposes(x, {"plain"}, fs, h)
    BY <1>2, <1>8, <2>2, PlainContent
  <2>4. x \in Readers /\ x.mode = "plain" /\ Exposes(x, {"start", "plain"}, fs, h)
    BY <2>3 DEF Exposes
  <2>5. Exposes(y, {"plain"}, fs, Append(h, Quote))
    BY ONLY <2>2, <2>4, <1>4, ExposedText
  <2>6. ReadFrom(r, t) = y
    <3>1. ReadFrom(x, q) = y
      BY <1>3, <1>4, <2>2, <2>4, ReadOne
    <3> QED BY <1>2, <1>4, <1>5, <2>1, <2>2, <3>1, ReadConcat
  <2>7. /\ y \in Readers /\ y.mode = "plain" /\ y.fields = fs /\ y.text = t
        /\ y.enclosed = FALSE /\ y.found = FALSE
    BY <1>1, <2>5 DEF Exposes
  <2>8. FieldRead(y) = Append(fs, [null |-> FALSE, text |-> t])
    BY <1>7, <2>7 DEF FieldRead
  <2> QED BY <2>6, <2>7, <2>8
<1>9. GivesField(t, {[null |-> FALSE, text |-> t]})
  BY <1>5, <1>8 DEF GivesField
<1>10. [null |-> FALSE, text |-> t] \in FieldsRead
  BY <1>5 DEF FieldsRead
<1> QED BY <1>6, <1>9, <1>10

LEMMA BytesFieldRead ==
    ASSUME NEW bytes \in Seq(Byte)
    PROVE  [null |-> FALSE, text |-> bytes] \in FieldsRead
<1>1. bytes \in Seq(Char)
  <2>1. \A k \in 1 .. Len(bytes) : bytes[k] \in Char
    BY ElementOfSeq, BytesAreChars
  <2> QED BY <2>1
<1> QED BY <1>1 DEF FieldsRead

\* A text that is printed in hexadecimal and unhexed.
LEMMA HexTextGood ==
    ASSUME NEW f, FieldOK(f), f.null = FALSE, f.damaged = FALSE, f.def.type \in Texts,
           Unhexed(f.def), ~ LostExternal(f)
    PROVE  GivesField(print_hex(f.bytes), Good(f))
<1>1. f.bytes = f.value /\ f.value \in Seq(Byte)
  BY TextBytes
<1>2. PICK t, field : t = print_hex(f.bytes) /\ field = [null |-> FALSE, text |-> t]
  OBVIOUS
<1>3. GivesField(t, {field}) /\ field \in FieldsRead
  BY <1>1, <1>2, HexGives
<1>4. Converted(f.def, field) = [null |-> FALSE, text |-> f.value]
  BY <1>1, <1>2, Unhexing
<1>5. field \in Good(f)
  BY <1>3, <1>4, TextGood
<1> QED BY <1>2, <1>3, <1>5, SingleGives

\* A text that is printed as it is.
LEMMA PlainTextGood ==
    ASSUME NEW f, FieldOK(f), f.null = FALSE, f.damaged = FALSE, f.def.type \in Texts,
           ~ Unhexed(f.def), ~ LostExternal(f),
           NEW text, GivesField(text, {[null |-> FALSE, text |-> f.bytes]})
    PROVE  GivesField(text, Good(f))
<1>1. f.bytes = f.value /\ f.value \in Seq(Byte)
  BY TextBytes
<1>2. PICK field : field = [null |-> FALSE, text |-> f.value]
  OBVIOUS
<1>3. GivesField(text, {field}) /\ field \in FieldsRead
  BY <1>1, <1>2, BytesFieldRead
<1>4. Converted(f.def, field) = [null |-> FALSE, text |-> f.value]
  BY <1>2, Conversions
<1>5. field \in Good(f)
  BY <1>3, <1>4, TextGood
<1> QED BY <1>3, <1>5, SingleGives

\* A text of which something else arrives.
LEMMA LostTextGood ==
    ASSUME NEW f, f.null = FALSE, f.def.type \in Texts, LostExternal(f),
           NEW text, NEW field \in FieldsRead, GivesField(text, {field}),
           Converted(f.def, field) # [null |-> FALSE, text |-> f.value]
    PROVE  GivesField(text, Good(f))
<1>1. field \in Good(f)
  BY TextGood
<1> QED BY <1>1, SingleGives

LEMMA InlineGood ==
    ASSUME NEW f, FieldOK(f), f.null = FALSE, f.damaged = FALSE, f.extern = FALSE,
           ~ Internal(f), NEW leftover
    PROVE  GivesField(print_field_value(f, leftover), Good(f))
<1>1. f.def.type \in Numbers \cup Temporals \cup Texts
  BY DEF FieldOK, Internal
<1>2. ~ LostExternal(f)
  BY DEF LostExternal
<1>3. CASE f.def.type \in Texts
  <2>1. f.bytes = f.value /\ f.value \in Seq(Byte)
    BY <1>3, TextBytes
  <2>2. CASE f.def.type \in {"BIN", "BLOB"}
    <3>1. print_field_value(f, leftover) = print_hex(f.bytes)
      BY <2>2 DEF print_field_value, Temporals
    <3>2. Unhexed(f.def)
      BY <2>2 DEF Unhexed
    <3> QED BY <1>2, <1>3, <3>1, <3>2, HexTextGood
  <2>3. CASE f.def.type \in {"CHAR", "TEXT"}
    <3>1. CASE hex
      <4>1. print_field_value(f, leftover) = print_hex(f.bytes)
        BY <2>3, <3>1 DEF print_field_value, Temporals
      <4>2. Unhexed(f.def)
        BY <2>3, <3>1 DEF Unhexed
      <4> QED BY <1>2, <1>3, <4>1, <4>2, HexTextGood
    <3>2. CASE ~ hex
      <4>1. print_field_value(f, leftover) = print_string(f.bytes)
        BY <2>3, <3>2 DEF print_field_value, Temporals
      <4>2. ~ Unhexed(f.def)
        BY <2>3, <3>2 DEF Unhexed
      <4>3. GivesField(print_string(f.bytes), {[null |-> FALSE, text |-> f.bytes]})
        BY <2>1, StringGives
      <4>4. GivesField(print_string(f.bytes), Good(f))
        BY <1>2, <1>3, <4>2, <4>3, PlainTextGood
      <4> QED BY <4>1, <4>4
    <3> QED BY <3>1, <3>2
  <2> QED BY <1>3, <2>2, <2>3 DEF Texts
<1>4. CASE f.def.type \in Numbers \cup Temporals
  <2>1. PICK field : field = [null |-> FALSE, text |-> <<Digits>>]
    OBVIOUS
  <2>2. field \in Good(f)
    BY <1>4, <2>1, DigitsGood
  <2>3. GivesField(<<Digits>>, {field})
    BY <2>1, WordGives
  <2>4. GivesField(Quoted(<<Digits>>), {field})
    <3>1. Digits \in Char /\ Digits \notin {Backslash, Quote}
      BY WordsRead DEF Special
    <3>2. IsContent(<<Digits>>, <<Digits>>)
      BY <3>1, ByteContent
    <3> QED BY <2>1, <3>2, QuotedGives
  <2>5. GivesField(<<Digits>>, Good(f)) /\ GivesField(Quoted(<<Digits>>), Good(f))
    BY <2>2, <2>3, <2>4, SingleGives
  <2>6. print_field_value(f, leftover) \in {<<Digits>>, Quoted(<<Digits>>)}
    <3>1. CASE f.def.type = "DECIMAL"
      <4>1. ValueOK(f.def, f.value) /\ f.bytes = Stored(f.def, f.value)
        BY DEF FieldOK
      <4>2. Decimal(f.def.precision, f.def.digits, f.bytes) # BadNumber
        BY <3>1, <4>1, DecimalTold
      <4>3. print_field_value(f, leftover) = print_decimal(f.def, f.bytes, leftover)
        BY <3>1 DEF print_field_value, Temporals
      <4>4. print_decimal(f.def, f.bytes, leftover) = Quoted(<<Digits>>)
        BY <4>2 DEF print_decimal
      <4> QED BY <4>3, <4>4
    <3>2. CASE f.def.type # "DECIMAL"
      BY <1>4, <3>2 DEF print_field_value, Numbers, Temporals
    <3> QED BY <3>1, <3>2
  <2> QED BY <2>5, <2>6
<1> QED BY <1>1, <1>3, <1>4

\* An external value that is not printed as it is.
LEMMA ErrorGood ==
    ASSUME NEW f, FieldOK(f), f.null = FALSE, f.damaged = FALSE, f.extern = TRUE,
           f.def.type \in {"CHAR", "BIN"}
    PROVE  GivesField(<<ErrorWord>>, Good(f))
<1>1. f.def.type \in Texts
  BY DEF Texts
<1>2. LostExternal(f)
  BY DEF LostExternal
<1>3. f.value \in Seq(Byte)
  BY <1>1, TextBytes
<1>4. PICK t, field : t = <<ErrorWord>> /\ field = [null |-> FALSE, text |-> t]
  OBVIOUS
<1>5. GivesField(t, {field}) /\ field \in FieldsRead /\ field.null = FALSE /\ field.text = t
  BY <1>4, WordGives, WordsRead
<1>6. Len(t) = 1 /\ t[1] = ErrorWord /\ Len(t) % 2 # 0
  BY <1>4
<1>7. field # [null |-> FALSE, text |-> f.value]
  <2>1. SUFFICES ASSUME t = f.value PROVE FALSE
    BY <1>5
  <2>2. 1 \in 1 .. Len(f.value)
    BY <1>6, <2>1
  <2>3. f.value[1] \in Byte
    BY <1>3, <2>2, ElementOfSeq
  <2> QED BY <1>6, <2>1, <2>3, WordsRead
<1>8. Converted(f.def, field) # [null |-> FALSE, text |-> f.value]
  <2>1. CASE ~ Unhexed(f.def)
    BY <1>7, <2>1, Conversions
  <2>2. CASE Unhexed(f.def)
    <3>1. Converted(f.def, field) = [null |-> TRUE, text |-> << >>]
      BY <1>5, <1>6, <2>2, Conversions
    <3>2. Converted(f.def, field).null = TRUE
      BY <3>1
    <3> QED BY <3>2
  <2> QED BY <2>1, <2>2
<1> QED BY <1>1, <1>2, <1>4, <1>5, <1>8, LostTextGood

\* An external TEXT with -x: the quote makes the text odd, and UNHEX() gives NULL.
LEMMA QuotedHexGood ==
    ASSUME NEW f, FieldOK(f), f.null = FALSE, f.damaged = FALSE, f.extern = TRUE,
           f.def.type = "TEXT", hex, f.bytes # << >>
    PROVE  GivesField(Append(print_hex(f.bytes), Quote), Good(f))
<1>1. f.def.type \in Texts
  BY DEF Texts
<1>2. LostExternal(f) /\ Unhexed(f.def)
  BY DEF LostExternal, Unhexed
<1>3. f.bytes \in Seq(Byte)
  BY <1>1, TextBytes
<1>4. PICK t, field : /\ t = Append(print_hex(f.bytes), Quote)
                      /\ field = [null |-> FALSE, text |-> t]
  OBVIOUS
<1>5. GivesField(t, {field}) /\ field \in FieldsRead /\ Len(t) % 2 # 0
  BY <1>3, <1>4, HexAndQuoteGives
<1>6. Len(field.text) % 2 # 0
  BY <1>4, <1>5
<1>7. Converted(f.def, field) = [null |-> TRUE, text |-> << >>]
  BY <1>2, <1>6, Conversions
<1>8. Converted(f.def, field) # [null |-> FALSE, text |-> f.value]
  <2>1. Converted(f.def, field).null = TRUE
    BY <1>7
  <2> QED BY <2>1
<1> QED BY <1>1, <1>2, <1>4, <1>5, <1>8, LostTextGood

\* An external TEXT without -x arrives if it has no backslash.
LEMMA RawTextGood ==
    ASSUME NEW f, FieldOK(f), f.null = FALSE, f.damaged = FALSE, f.extern = TRUE,
           f.def.type = "TEXT", ~ hex, ~ Spills(f)
    PROVE  GivesField(Quoted(print_string_raw(f.bytes)), Good(f))
<1>1. f.def.type \in Texts
  BY DEF Texts
<1>2. f.bytes = f.value /\ f.bytes \in Seq(Byte) /\ DOMAIN f.bytes = 1 .. Len(f.bytes)
  <2>1. f.bytes = f.value /\ f.value \in Seq(Byte)
    BY <1>1, TextBytes
  <2>2. f.bytes \in Seq(Byte)
    BY <2>1
  <2>3. DOMAIN f.bytes = 1 .. Len(f.bytes)
    BY <2>2
  <2> QED BY <2>1, <2>2, <2>3
<1>3. ~ Unhexed(f.def)
  BY DEF Unhexed
<1>4. PICK m : m = Len(f.bytes)
  OBVIOUS
<1>5. m \in Nat
  BY <1>2, <1>4
<1>6. LostExternal(f) <=> \E k \in 1 .. Len(f.bytes) : f.bytes[k] = Backslash
  BY <1>2 DEF LostExternal
<1>7. CASE \A k \in 1 .. Len(f.bytes) : f.bytes[k] # Backslash
  <2>1. GivesField(Quoted(print_string_raw(f.bytes)), {[null |-> FALSE, text |-> f.bytes]})
    BY <1>2, <1>7, RawGives
  <2> QED BY <1>1, <1>3, <1>6, <1>7, <2>1, PlainTextGood
<1>8. CASE \E k \in 1 .. Len(f.bytes) : f.bytes[k] = Backslash
  <2>1. \A k \in 1 .. Len(f.bytes) : f.bytes[k] = Backslash =>
           k < Len(f.bytes) /\ f.bytes[k + 1] # Quote
    <3>1. \A k \in 1 .. m : f.bytes[k] = Backslash => k # m /\ f.bytes[k + 1] # Quote
      BY <1>2, <1>4 DEF Spills
    <3>2. \A k \in 1 .. m : k # m => k < m
      BY <1>5
    <3> QED BY <1>4, <3>1, <3>2
  <2>2. GivesField(Quoted(print_string_raw(f.bytes)), OtherThan(f.bytes))
    BY <1>2, <1>8, <2>1, RawLost
  <2>3. ASSUME NEW field \in OtherThan(f.bytes) PROVE field \in Good(f)
    <3>1. field \in FieldsRead /\ field # [null |-> FALSE, text |-> f.value]
      BY <1>2, <2>3 DEF OtherThan
    <3>2. Converted(f.def, field) = field
      BY <1>3, Conversions
    <3> QED BY <1>1, <1>6, <1>8, <3>1, <3>2, TextGood
  <2> QED BY <2>2, <2>3, GivesMore
<1> QED BY <1>7, <1>8

LEMMA ExternalGood ==
    ASSUME NEW f, FieldOK(f), f.null = FALSE, f.damaged = FALSE, f.extern = TRUE, ~ Spills(f)
    PROVE  GivesField(print_field_value_with_external(f), Good(f))
<1>1. f.def.type \in Texts
  BY DEF FieldOK
<1>2. f.bytes \in Seq(Byte)
  BY <1>1, TextBytes
<1>3. CASE f.def.type \in {"CHAR", "BIN"}
  <2>1. print_field_value_with_external(f) = <<ErrorWord>>
    BY <1>3 DEF print_field_value_with_external
  <2> QED BY <1>3, <2>1, ErrorGood
<1>4. CASE f.def.type = "BLOB"
  <2>1. print_field_value_with_external(f) = print_hex(f.bytes)
    BY <1>4 DEF print_field_value_with_external
  <2>2. Unhexed(f.def) /\ ~ LostExternal(f)
    BY <1>4 DEF Unhexed, LostExternal
  <2> QED BY <1>1, <2>1, <2>2, HexTextGood
<1>5. CASE f.def.type = "TEXT" /\ hex
  <2>1. print_field_value_with_external(f) = Append(print_hex(f.bytes), Quote)
    BY <1>5 DEF print_field_value_with_external
  <2>2. f.bytes # << >>
    BY <1>5 DEF Spills
  <2> QED BY <1>5, <2>1, <2>2, QuotedHexGood
<1>6. CASE f.def.type = "TEXT" /\ ~ hex
  <2>1. print_field_value_with_external(f) = Quoted(print_string_raw(f.bytes))
    BY <1>6 DEF print_field_value_with_external
  <2> QED BY <1>6, <2>1, RawTextGood
<1> QED BY <1>1, <1>3, <1>4, <1>5, <1>6 DEF Texts

\* Whatever a field holds, the server finds in its text what is good for its
\* column.
LEMMA FieldGives ==
    ASSUME NEW f, FieldOK(f), ~ Spills(f), ~ Internal(f), NEW leftover \in Seq(Byte)
    PROVE  GivesField(FieldText(f, leftover), Good(f))
<1>1. f.null \in BOOLEAN /\ f.extern \in BOOLEAN /\ f.damaged \in BOOLEAN
  BY DEF FieldOK
<1>2. CASE f.damaged = TRUE
  <2>1. GivesField(FieldText(f, leftover), FieldsRead)
    BY FieldTextRead, AnyGives
  <2>2. \A field \in FieldsRead : field \in Good(f)
    BY <1>2 DEF Good, IsDelivered
  <2> QED BY <2>1, <2>2, GivesMore
<1>3. CASE f.null = TRUE
  <2>1. PICK w : w = NullWord
    OBVIOUS
  <2>2. w \in Seq(Char) /\ \A k \in 1 .. Len(w) : w[k] \notin Special
    <3>1. /\ w = <<78, 85, 76, 76>> /\ 78 \in Char /\ 85 \in Char /\ 76 \in Char
          /\ 78 \notin Special /\ 85 \notin Special /\ 76 \notin Special
      BY <2>1 DEF NullWord, Char, Special, Tab, Newline, Quote, Backslash
    <3>2. w \in Seq(Char) /\ Len(w) = 4
      BY <3>1
    <3>3. w[1] = 78 /\ w[2] = 85 /\ w[3] = 76 /\ w[4] = 76
      BY <3>1
    <3> QED BY <3>1, <3>2, <3>3
  <2>3. GivesField(w, {[null |-> TRUE, text |-> << >>]})
    BY <2>1, <2>2, PlainGives
  <2>4. FieldText(f, leftover) = w
    BY <1>3, <2>1 DEF FieldText
  <2> QED BY <1>3, <2>3, <2>4, NullGood, SingleGives
<1>4. CASE f.null = FALSE /\ f.damaged = FALSE /\ f.extern = TRUE
  <2>1. FieldText(f, leftover) = print_field_value_with_external(f)
    BY <1>4 DEF FieldText
  <2> QED BY <1>4, <2>1, ExternalGood
<1>5. CASE f.null = FALSE /\ f.damaged = FALSE /\ f.extern = FALSE
  <2>1. FieldText(f, leftover) = print_field_value(f, leftover)
    BY <1>5 DEF FieldText
  <2> QED BY <1>5, <2>1, InlineGood
<1> QED BY <1>1, <1>2, <1>3, <1>4, <1>5

\* Fields of a line that are good for these columns.
AreGood(fs, columns) == \A k \in 1 .. Len(columns) : k <= Len(fs) /\ fs[k] \in Good(columns[k])

\* The line has the name once, and behind it a good field for each of the columns,
\* with more to come.
IsPrinted(text, nm, columns) ==
    \E before, behind, fs :
        /\ IsLine(text, nm, before, behind) /\ Begins(ReadFrom(Reader, behind), fs)
        /\ Len(fs) = Len(columns) /\ AreGood(fs, columns)

\* The same of a line that has ended.
HasEnded(r, fs) == r \in Readers /\ r.mode = "end" /\ r.fields = fs

IsFinished(text, nm, columns) ==
    \E before, behind, fs :
        /\ IsLine(text, nm, before, behind) /\ HasEnded(ReadFrom(Reader, behind), fs)
        /\ AreGood(fs, columns)

LEMMA LineLengthened ==
    ASSUME NEW text, NEW nm, NEW before, NEW behind, IsLine(text, nm, before, behind),
           NEW more \in Seq(Char)
    PROVE  /\ IsLine(text \o more, nm, before, behind \o more)
           /\ ReadFrom(Reader, behind \o more) = ReadFrom(ReadFrom(Reader, behind), more)
<1>1. PICK u : u = before \o (nm \o <<Tab>>)
  OBVIOUS
<1>2. /\ behind \in Seq(Char) /\ text = u \o behind
      /\ before \in Seq(Char) /\ nm \in Seq(Char)
  BY <1>1 DEF IsLine, Nameless, Tabless
<1>3. u \in Seq(Char)
  <2>1. PICK w : w = <<Tab>>
    OBVIOUS
  <2>2. w \in Seq(Char)
    <3>1. Tab \in Char
      BY SpecialDiffer DEF Special
    <3> QED BY <2>1, <3>1
  <2>3. nm \o w \in Seq(Char)
    BY <1>2, <2>2, ConcatProperties
  <2> QED BY <1>1, <1>2, <2>1, <2>3, ConcatProperties
<1>4. text \o more = u \o (behind \o more) /\ behind \o more \in Seq(Char)
  BY SMTT(40), <1>2, <1>3, ConcatAssociative, ConcatProperties
<1>5. IsLine(text \o more, nm, before, behind \o more)
  BY <1>1, <1>4 DEF IsLine
<1>6. ReadFrom(Reader, behind \o more) = ReadFrom(ReadFrom(Reader, behind), more)
  BY <1>2, ReaderStands, ReadConcat
<1> QED BY <1>5, <1>6

\* What a field adds.
LEMMA GoodAdded ==
    ASSUME NEW T, NEW columns \in Seq(T), NEW f \in T, NEW fs \in Seq(FieldsRead),
           Len(fs) = Len(columns), AreGood(fs, columns), NEW field \in FieldsRead,
           field \in Good(f)
    PROVE  /\ Len(Append(fs, field)) = Len(Append(columns, f))
           /\ AreGood(Append(fs, field), Append(columns, f))
<1>1. PICK n, a, b : n = Len(columns) /\ a = Append(fs, field) /\ b = Append(columns, f)
  OBVIOUS
<1>2. /\ n \in Nat /\ Len(a) = n + 1 /\ Len(b) = n + 1 /\ a[n + 1] = field /\ b[n + 1] = f
      /\ \A k \in 1 .. n : a[k] = fs[k] /\ b[k] = columns[k]
  <2>1. n \in Nat /\ Len(fs) = n
    BY <1>1
  <2>2. Len(a) = Len(fs) + 1 /\ a[Len(fs) + 1] = field /\ \A k \in 1 .. Len(fs) : a[k] = fs[k]
    BY <1>1, AppendProperties
  <2>3. /\ Len(b) = Len(columns) + 1 /\ b[Len(columns) + 1] = f
        /\ \A k \in 1 .. Len(columns) : b[k] = columns[k]
    BY <1>1, AppendProperties
  <2> QED BY <1>1, <2>1, <2>2, <2>3
<1>3. ASSUME NEW k \in 1 .. n + 1 PROVE k <= n + 1 /\ a[k] \in Good(b[k])
  <2>1. k \in 1 .. n \/ k = n + 1
    BY <1>2
  <2>2. CASE k \in 1 .. n
    <3>1. fs[k] \in Good(columns[k])
      BY <1>1, <2>2 DEF AreGood
    <3> QED BY <1>2, <2>2, <3>1
  <2>3. CASE k = n + 1
    <3>1. a[n + 1] \in Good(b[n + 1])
      BY <1>2
    <3> QED BY <1>2, <2>3, <3>1
  <2> QED BY <2>1, <2>2, <2>3
<1>4. AreGood(a, b)
  BY <1>2, <1>3 DEF AreGood
<1> QED BY <1>1, <1>2, <1>4

LEMMA FieldPrinted ==
    ASSUME NEW T, NEW columns \in Seq(T), NEW f \in T, NEW text, NEW nm,
           IsPrinted(text, nm, columns), NEW t, GivesField(t, Good(f))
    PROVE  /\ IsPrinted(text \o (t \o <<Tab>>), nm, Append(columns, f))
           /\ IsFinished(text \o (t \o <<Newline>>), nm, Append(columns, f))
<1>1. PICK before, behind, fs :
         /\ IsLine(text, nm, before, behind) /\ Begins(ReadFrom(Reader, behind), fs)
         /\ Len(fs) = Len(columns) /\ AreGood(fs, columns)
  BY DEF IsPrinted
<1>2. PICK r, x, w, z : /\ r = ReadFrom(Reader, behind) /\ x = ReadFrom(r, t)
                        /\ w = <<Tab>> /\ z = <<Newline>>
  OBVIOUS
<1>3. t \in Seq(Char) /\ Tab \in Char /\ Newline \in Char /\ w \in Seq(Char) /\ z \in Seq(Char)
  <2>1. Tab \in Char /\ Newline \in Char
    BY SpecialDiffer DEF Special
  <2> QED BY <1>2, <2>1 DEF GivesField
<1>4. r \in Readers /\ fs \in Seq(FieldsRead)
  BY <1>1, <1>2 DEF Begins, Exposes, Readers
<1>5. /\ x \in Readers /\ x.mode \in {"start", "plain", "quote"}
      /\ \E field \in Good(f) : FieldRead(x) = Append(fs, field)
  BY <1>1, <1>2 DEF GivesField
<1>6. PICK field \in Good(f) : FieldRead(x) = Append(fs, field)
  BY <1>5
<1>7. PICK gs, cs : gs = Append(fs, field) /\ cs = Append(columns, f)
  OBVIOUS
<1>8. Len(gs) = Len(cs) /\ AreGood(gs, cs)
  <2>1. field \in FieldsRead
    BY <1>6 DEF Good
  <2> QED BY <1>1, <1>4, <1>6, <1>7, <2>1, GoodAdded
<1>9. /\ Begins(ReadByte(x, Tab), gs) /\ HasEnded(ReadByte(x, Newline), gs)
  BY <1>5, <1>6, <1>7, EndedText DEF HasEnded
<1>10. /\ ReadFrom(r, t \o w) = ReadByte(x, Tab) /\ t \o w \in Seq(Char)
       /\ ReadFrom(r, t \o z) = ReadByte(x, Newline) /\ t \o z \in Seq(Char)
  <2>1. ReadFrom(x, w) = ReadByte(x, Tab) /\ ReadFrom(x, z) = ReadByte(x, Newline)
    BY <1>2, <1>3, <1>5, ReadOne
  <2> QED BY <1>2, <1>3, <1>4, <2>1, ReadConcat, ConcatProperties
<1>11. IsPrinted(text \o (t \o w), nm, cs)
  <2>1. PICK more : more = t \o w
    OBVIOUS
  <2>2. more \in Seq(Char) /\ ReadFrom(r, more) = ReadByte(x, Tab)
    BY <1>10, <2>1
  <2>3. IsLine(text, nm, before, behind)
    BY <1>1
  <2>4. /\ IsLine(text \o more, nm, before, behind \o more)
        /\ ReadFrom(Reader, behind \o more) = ReadFrom(ReadFrom(Reader, behind), more)
    BY ONLY <2>2, <2>3, LineLengthened
  <2>5. ReadFrom(Reader, behind \o more) = ReadByte(x, Tab)
    BY <1>2, <2>2, <2>4
  <2> QED BY <1>8, <1>9, <2>1, <2>4, <2>5 DEF IsPrinted
<1>12. IsFinished(text \o (t \o z), nm, cs)
  <2>1. PICK more : more = t \o z
    OBVIOUS
  <2>2. more \in Seq(Char) /\ ReadFrom(r, more) = ReadByte(x, Newline)
    BY <1>10, <2>1
  <2>3. IsLine(text, nm, before, behind)
    BY <1>1
  <2>4. /\ IsLine(text \o more, nm, before, behind \o more)
        /\ ReadFrom(Reader, behind \o more) = ReadFrom(ReadFrom(Reader, behind), more)
    BY ONLY <2>2, <2>3, LineLengthened
  <2>5. ReadFrom(Reader, behind \o more) = ReadByte(x, Newline)
    BY <1>2, <2>2, <2>4
  <2> QED BY <1>8, <1>9, <2>1, <2>4, <2>5 DEF IsFinished
<1> QED BY <1>2, <1>7, <1>11, <1>12

\* Without a field a line ends with an empty one.
LEMMA LineEnded ==
    ASSUME NEW columns, Len(columns) \in Nat, NEW text, NEW nm, IsPrinted(text, nm, columns)
    PROVE  IsFinished(text \o <<Newline>>, nm, columns)
<1>1. PICK before, behind, fs :
         /\ IsLine(text, nm, before, behind) /\ Begins(ReadFrom(Reader, behind), fs)
         /\ Len(fs) = Len(columns) /\ AreGood(fs, columns)
  BY DEF IsPrinted
<1>2. PICK r, z : r = ReadFrom(Reader, behind) /\ z = <<Newline>>
  OBVIOUS
<1>3. Newline \in Char /\ z \in Seq(Char)
  <2>1. Newline \in Char
    BY SpecialDiffer DEF Special
  <2> QED BY <1>2, <2>1
<1>4. r \in Readers /\ r.mode = "start" /\ r.fields = fs /\ fs \in Seq(FieldsRead)
  BY <1>1, <1>2 DEF Begins, Exposes, Readers
<1>5. PICK field \in FieldsRead : FieldRead(r) = Append(fs, field)
  BY <1>4, FieldReadParts
<1>6. PICK gs : gs = Append(fs, field)
  OBVIOUS
<1>7. HasEnded(ReadByte(r, Newline), gs)
  BY <1>4, <1>5, <1>6, EndedText DEF HasEnded
<1>8. AreGood(gs, columns)
  <2>1. PICK n : n = Len(columns)
    OBVIOUS
  <2>2. Len(gs) = Len(fs) + 1 /\ \A k \in 1 .. Len(fs) : gs[k] = fs[k]
    BY <1>4, <1>6, AppendProperties
  <2>3. n \in Nat /\ Len(gs) = n + 1 /\ \A k \in 1 .. n : gs[k] = fs[k]
    BY <1>1, <2>1, <2>2
  <2>4. ASSUME NEW k \in 1 .. n PROVE k <= Len(gs) /\ gs[k] \in Good(columns[k])
    <3>1. fs[k] \in Good(columns[k])
      BY <1>1, <2>1 DEF AreGood
    <3> QED BY <2>3, <3>1
  <2> QED BY <2>1, <2>4 DEF AreGood
<1>9. /\ IsLine(text \o z, nm, before, behind \o z)
      /\ ReadFrom(Reader, behind \o z) = ReadByte(r, Newline)
  <2>1. ReadFrom(r, z) = ReadByte(r, Newline)
    BY <1>2, <1>3, <1>4, ReadOne
  <2>2. z \in Seq(Char) /\ IsLine(text, nm, before, behind)
    BY <1>1, <1>3
  <2>3. /\ IsLine(text \o z, nm, before, behind \o z)
        /\ ReadFrom(Reader, behind \o z) = ReadFrom(ReadFrom(Reader, behind), z)
    BY ONLY <2>2, LineLengthened
  <2> QED BY <1>2, <2>1, <2>3
<1> QED BY <1>2, <1>7, <1>8, <1>9 DEF IsFinished

LEMMA NothingPrinted ==
    ASSUME NEW text, NEW nm, NEW before, IsLine(text, nm, before, << >>)
    PROVE  IsPrinted(text, nm, << >>)
<1>1. PICK e : e = << >>
  OBVIOUS
<1>2. << >> \in Seq(Char) /\ << >> \in Seq(FieldsRead) /\ Len(e) = 0
  BY <1>1
<1>3. ReadFrom(Reader, e) = Reader
  BY <1>1, ReaderStands, ReadNothing
<1>4. Begins(Reader, e)
  BY <1>1, ReaderStands DEF Begins, Exposes, Reader
<1>5. AreGood(e, e)
  BY <1>2 DEF AreGood
<1>6. IsLine(text, nm, before, e)
  BY <1>1
<1>7. IsPrinted(text, nm, e)
  BY <1>3, <1>4, <1>5, <1>6 DEF IsPrinted
<1> QED BY <1>1, <1>7

LEMMA PrintedText ==
    ASSUME NEW text, NEW nm, NEW columns, IsPrinted(text, nm, columns)
    PROVE  text \in Seq(Char)
<1>1. PICK before, behind : IsLine(text, nm, before, behind)
  BY DEF IsPrinted
<1>2. PICK w : w = <<Tab>>
  OBVIOUS
<1>3. w \in Seq(Char)
  <2>1. Tab \in Char
    BY SpecialDiffer DEF Special
  <2> QED BY <1>2, <2>1
<1>4. before \in Seq(Char) /\ nm \in Seq(Char) /\ behind \in Seq(Char)
  BY <1>1 DEF IsLine, Nameless, Tabless
<1>5. nm \o w \in Seq(Char)
  BY <1>3, <1>4, ConcatProperties
<1>6. before \o (nm \o w) \in Seq(Char)
  BY <1>4, <1>5, ConcatProperties
<1>7. text = (before \o (nm \o w)) \o behind
  BY <1>1, <1>2 DEF IsLine
<1> QED BY <1>4, <1>6, <1>7, ConcatProperties

\* One step of the second loop.
LEMMA PrintFieldDelivered ==
    ASSUME Compared, Readable, PrintField, NEW columns \in Seq(Range(row)),
           IsPrinted(line, name, columns),
           NEW more, more = IF Internal(row[i]) THEN columns ELSE Append(columns, row[i])
    PROVE  /\ pc' = "fields" => i < Len(row) /\ i' = i + 1 /\ IsPrinted(line', name, more)
           /\ pc' = "file" => i = Len(row) /\ IsFinished(line', name, more)
<1>1. row \in Rows /\ i \in 1 .. Len(row) /\ Len(row) \in Nat
  BY RowFields DEF Compared
<1>2. PICK f : f = row[i]
  OBVIOUS
<1>3. FieldOK(f) /\ ~ Spills(f) /\ f \in Range(row)
  <2>1. DOMAIN row = 1 .. Len(row)
    BY <1>1, RowFields
  <2>2. FieldOK(f) /\ ~ Spills(f)
    BY <1>1, <1>2, <2>1, RowFields DEF Readable
  <2>3. f \in Range(row)
    BY <1>1, <1>2, <2>1 DEF Range
  <2> QED BY <2>2, <2>3
<1>4. PICK leftover \in Leftovers :
        line' = line \o (IF Internal(f) THEN << >> ELSE FieldText(f, leftover) \o Separator)
                     \o (IF i = Len(row) THEN <<Newline>> ELSE << >>)
  BY <1>2 DEF PrintField
<1>5. PICK text : text = FieldText(f, leftover)
  OBVIOUS
<1>6. text \in Seq(Char) /\ (~ Internal(f) => GivesField(text, Good(f)))
  <2>1. leftover \in Seq(Byte)
    BY RowAssumption
  <2> QED BY <1>3, <1>5, <2>1, FieldTextRead, FieldGives DEF IsFieldText
<1>7. pc = "fields" /\ Advance("file")
  BY DEF PrintField
<1>8. PICK e, w, z : e = << >> /\ w = <<Tab>> /\ z = <<Newline>>
  OBVIOUS
<1>9. e \in Seq(Char) /\ w \in Seq(Char) /\ z \in Seq(Char)
  <2>1. Tab \in Char /\ Newline \in Char
    BY SpecialDiffer DEF Special
  <2> QED BY <1>8, <2>1
<1>10. line \in Seq(Char)
  BY PrintedText
<1>11. ~ Internal(f) =>
          /\ IsPrinted(line \o (text \o w), name, more)
          /\ IsFinished(line \o (text \o z), name, more)
  <2> SUFFICES ASSUME ~ Internal(f)
               PROVE  /\ IsPrinted(line \o (text \o w), name, more)
                      /\ IsFinished(line \o (text \o z), name, more)
    OBVIOUS
  <2>1. GivesField(text, Good(f)) /\ f \in Range(row) /\ more = Append(columns, f)
    BY <1>2, <1>3, <1>6
  <2>2. /\ IsPrinted(line \o (text \o <<Tab>>), name, Append(columns, f))
        /\ IsFinished(line \o (text \o <<Newline>>), name, Append(columns, f))
    BY <2>1, FieldPrinted
  <2> QED BY <1>8, <2>1, <2>2
<1>12. Internal(f) => more = columns /\ IsFinished(line \o z, name, more)
  <2> SUFFICES ASSUME Internal(f) PROVE more = columns /\ IsFinished(line \o z, name, more)
    OBVIOUS
  <2>1. more = columns /\ Len(columns) \in Nat
    BY <1>2
  <2> QED BY <1>8, <2>1, LineEnded
<1>13. CASE i < Len(row)
  <2>1. pc' = "fields" /\ i' = i + 1 /\ i # Len(row) /\ Separator = w
    <3>1. pc' = "fields" /\ i' = i + 1
      BY <1>7, <1>13 DEF Advance
    <3>2. Separator = w
      BY <1>8, <1>13 DEF Separator
    <3> QED BY <1>1, <1>13, <3>1, <3>2
  <2>2. CASE Internal(f)
    <3>1. line' = (line \o e) \o e
      BY <1>4, <1>8, <2>1, <2>2
    <3>2. line' = line
      BY <1>8, <1>10, <3>1, EmptyEnds
    <3> QED BY <1>12, <1>13, <2>1, <2>2, <3>2
  <2>3. CASE ~ Internal(f)
    <3>1. line' = (line \o (text \o w)) \o e
      BY <1>4, <1>5, <1>8, <2>1, <2>3
    <3>2. text \o w \in Seq(Char)
      BY <1>6, <1>9, ConcatProperties
    <3>3. line \o (text \o w) \in Seq(Char)
      BY <1>10, <3>2, ConcatProperties
    <3>4. line' = line \o (text \o w)
      BY <1>8, <3>1, <3>3, EmptyEnds
    <3> QED BY <1>11, <1>13, <2>1, <2>3, <3>4
  <2> QED BY <2>2, <2>3
<1>14. CASE ~ (i < Len(row))
  <2>1. pc' = "file" /\ i = Len(row) /\ Separator = e
    <3>1. pc' = "file"
      BY <1>7, <1>14 DEF Advance
    <3>2. Separator = e
      BY <1>8, <1>14 DEF Separator
    <3> QED BY <1>1, <1>14, <3>1, <3>2
  <2>2. CASE Internal(f)
    <3>1. line' = (line \o e) \o z
      BY <1>4, <1>8, <2>1, <2>2
    <3>2. line' = line \o z
      BY <1>8, <1>10, <3>1, EmptyEnds
    <3> QED BY <1>12, <2>1, <2>2, <3>2
  <2>3. CASE ~ Internal(f)
    <3>1. line' = (line \o (text \o e)) \o z
      BY <1>4, <1>5, <1>8, <2>1, <2>3
    <3>2. text \o e = text
      BY <1>6, <1>8, EmptyEnds
    <3>3. (line \o text) \o z = line \o (text \o z)
      <4>1. text \in Seq(Char) /\ line \in Seq(Char) /\ z \in Seq(Char)
        BY <1>6, <1>9, <1>10
      <4> QED BY SMTT(40), <4>1, ConcatAssociative
    <3> QED BY <1>11, <2>1, <2>3, <3>1, <3>2, <3>3
  <2> QED BY <2>2, <2>3
<1> QED BY <1>13, <1>14

(***************************************************************************)
(* The strengthened invariant, for rows that are Readable: the line of the *)
(* dump has a good field for each column that the second loop has passed,  *)
(* one that the server and the conversions of the statement make the       *)
(* stored value of, if and only if ValuesRestored says so.                 *)
(***************************************************************************)
DeliveredSoFar ==
    /\ pc = "fields" => \E upto :
          IsKept(upto, row, ColumnPlaces, Range(row)) /\ IsPrinted(line, name, upto[i - 1])
    /\ pc = "file" => IsFinished(line, name, Columns)
    /\ pc = "loaded" => \A k \in DOMAIN loaded : IsDelivered(Columns[k], loaded[k])

Delivered == Readable => DeliveredSoFar

LEMMA InitDelivered == Init => Delivered
BY DEF Init, Delivered, DeliveredSoFar

\* The server makes good columns of good fields.
LEMMA LoadDelivered ==
    ASSUME row \in Rows, LoadData, IsFinished(line, name, Columns)
    PROVE  \A k \in DOMAIN loaded' : IsDelivered(Columns[k], loaded'[k])
<1>1. PICK before, behind, fs :
         /\ IsLine(line, name, before, behind) /\ HasEnded(ReadFrom(Reader, behind), fs)
         /\ AreGood(fs, Columns)
  BY DEF IsFinished
<1>2. Read(line, name \o <<Tab>>) = fs
  <2>1. Read(line, name \o <<Tab>>) = AtEnd(ReadFrom(Reader, behind))
    BY <1>1, NameFound
  <2>2. AtEnd(ReadFrom(Reader, behind)) = fs
    BY <1>1 DEF HasEnded, AtEnd
  <2> QED BY <2>1, <2>2
<1>3. fs \in Seq(FieldsRead) /\ Len(fs) \in Nat /\ DOMAIN fs = 1 .. Len(fs)
  <2>1. fs \in Seq(FieldsRead)
    BY <1>1 DEF HasEnded, Readers
  <2> QED BY <2>1
<1>4. PICK columns : columns = Columns
  OBVIOUS
<1>5. columns \in Seq(Range(row)) /\ DOMAIN columns = 1 .. Len(columns)
  <2>1. row \in Seq(Range(row))
    BY RowAssumption
  <2>2. columns = Kept(row, ColumnPlaces)
    BY <1>4 DEF Columns, ColumnPlaces
  <2>3. columns \in Seq(Range(row))
    BY <2>1, <2>2, KeptType
  <2> QED BY <2>3
<1>6. loaded' = [k \in DOMAIN columns |->
                    IF k \in DOMAIN fs THEN Converted(columns[k].def, fs[k])
                    ELSE [null |-> TRUE, text |-> << >>]]
  BY <1>2, <1>4 DEF LoadData
<1>7. ASSUME NEW k \in 1 .. Len(columns) PROVE IsDelivered(columns[k], loaded'[k])
  <2>1. k <= Len(fs) /\ fs[k] \in Good(columns[k])
    BY <1>1, <1>4 DEF AreGood
  <2>2. k \in DOMAIN fs
    BY <1>3, <2>1
  <2>3. loaded'[k] = Converted(columns[k].def, fs[k])
    BY <1>5, <1>6, <2>2
  <2> QED BY <2>1, <2>3 DEF Good
<1> QED BY <1>4, <1>5, <1>6, <1>7

LEMMA NextDelivered == Compared /\ Written /\ Delivered /\ [Next]_vars => Delivered'
<1> SUFFICES ASSUME Compared, Written, Delivered, [Next]_vars PROVE Delivered'
  OBVIOUS
<1>1. row \in Rows /\ i \in 1 .. Len(row) /\ Len(row) \in Nat
  BY RowFields DEF Compared
<1>2. row' = row /\ name' = name /\ hex' = hex /\ process_56' = process_56
  BY DEF Next, CheckField, RefuseRow, PrintInternal, PrintField, LoadData, given, vars
<1>3. Readable' = Readable /\ ColumnPlaces' = ColumnPlaces /\ Columns' = Columns
  BY <1>2 DEF Readable, StartsTooEarly, Spills, Columns, ColumnPlaces
<1>4. \A f, x : IsDelivered(f, x)' <=> IsDelivered(f, x)
  BY <1>2 DEF IsDelivered, AsStored, LostExternal
<1>5. \A f : Good(f)' = Good(f)
  <2>1. \A def, field : Converted(def, field)' = Converted(def, field)
    BY <1>2 DEF Converted, Unhexed
  <2> QED BY <1>4, <2>1 DEF Good
<1>6. \A text, nm, columns :
         /\ IsPrinted(text, nm, columns)' <=> IsPrinted(text, nm, columns)
         /\ IsFinished(text, nm, columns)' <=> IsFinished(text, nm, columns)
  <2>1. \A fs, columns : AreGood(fs, columns)' <=> AreGood(fs, columns)
    BY <1>5 DEF AreGood
  <2> QED BY <2>1 DEF IsPrinted, IsFinished
<1> SUFFICES ASSUME Readable PROVE DeliveredSoFar'
  BY <1>3 DEF Delivered
<1>7. DeliveredSoFar /\ WrittenSoFar /\ name \in TableNames
  BY DEF Delivered, Written
<1>8. Columns = Kept(row, ColumnPlaces) /\ row \in Seq(Range(row))
  BY <1>1, RowAssumption DEF Columns, ColumnPlaces
<1>9. CASE CheckField \/ RefuseRow
  <2>1. pc' \in {"check", "internal", "refused"}
    BY <1>9 DEF CheckField, RefuseRow, Advance
  <2> QED BY <2>1 DEF DeliveredSoFar
<1>10. CASE PrintInternal
  <2>1. pc = "internal" /\ pc' \in {"internal", "fields"}
    BY <1>10 DEF PrintInternal, Advance
  <2>2. Continues(name, line)
    BY <1>7, <2>1 DEF WrittenSoFar
  <2>3. CASE pc' = "internal"
    BY <2>3 DEF DeliveredSoFar
  <2>4. CASE pc' = "fields"
    <3>1. PICK before : i' = 1 /\ IsWritten(line', name, before, << >>, {"start"}, 0)
      BY <1>7, <1>10, <2>2, <2>4, PrintInternalWritten
    <3>2. PICK upto : IsKept(upto, row, ColumnPlaces, Range(row))
      BY <1>8, KeptUnfolds
    <3>3. upto[i' - 1] = << >>
      BY <3>1, <3>2 DEF IsKept
    <3>4. IsPrinted(line', name, << >>)
      BY <3>1, NothingPrinted DEF IsWritten
    <3>5. IsKept(upto, row', ColumnPlaces', Range(row')) /\ IsPrinted(line', name', upto[i' - 1])
      BY <1>2, <1>3, <3>2, <3>3, <3>4
    <3> QED BY <1>6, <2>4, <3>5 DEF DeliveredSoFar
  <2> QED BY <2>1, <2>3, <2>4
<1>11. CASE PrintField
  <2>1. pc = "fields" /\ pc' \in {"fields", "file"}
    BY <1>11 DEF PrintField, Advance
  <2>2. PICK upto :
          IsKept(upto, row, ColumnPlaces, Range(row)) /\ IsPrinted(line, name, upto[i - 1])
    BY <1>7, <2>1 DEF DeliveredSoFar
  <2>3. PICK columns, more : columns = upto[i - 1] /\ more = upto[i]
    OBVIOUS
  <2>4. columns \in Seq(Range(row))
    <3>1. i - 1 \in 0 .. Len(row)
      BY <1>1
    <3> QED BY <2>2, <2>3, <3>1 DEF IsKept
  <2>5. more = IF Internal(row[i]) THEN columns ELSE Append(columns, row[i])
    <3>1. DOMAIN row = 1 .. Len(row)
      BY <1>1, RowFields
    <3>2. i \in ColumnPlaces <=> ~ Internal(row[i])
      BY <1>1, <3>1 DEF ColumnPlaces
    <3> QED BY <1>1, <2>2, <2>3, <3>2 DEF IsKept
  <2>6. /\ pc' = "fields" => i < Len(row) /\ i' = i + 1 /\ IsPrinted(line', name, more)
        /\ pc' = "file" => i = Len(row) /\ IsFinished(line', name, more)
    BY <1>11, <2>2, <2>3, <2>4, <2>5, PrintFieldDelivered
  <2>7. CASE pc' = "fields"
    <3>1. i' - 1 = i
      BY <1>1, <2>6, <2>7
    <3>2. IsKept(upto, row', ColumnPlaces', Range(row')) /\ IsPrinted(line', name', upto[i' - 1])
      BY <1>2, <1>3, <2>2, <2>3, <2>6, <2>7, <3>1
    <3> QED BY <1>6, <2>7, <3>2 DEF DeliveredSoFar
  <2>8. CASE pc' = "file"
    <3>1. more = Columns
      BY <1>8, <2>2, <2>3, <2>6, <2>8 DEF IsKept
    <3>2. IsFinished(line', name', Columns')
      BY <1>2, <1>3, <2>6, <2>8, <3>1
    <3> QED BY <1>6, <2>8, <3>2 DEF DeliveredSoFar
  <2> QED BY <2>1, <2>7, <2>8
<1>12. CASE LoadData
  <2>1. pc = "file" /\ pc' = "loaded"
    BY <1>12 DEF LoadData
  <2>2. \A k \in DOMAIN loaded' : IsDelivered(Columns[k], loaded'[k])
    BY <1>1, <1>7, <1>12, <2>1, LoadDelivered DEF DeliveredSoFar
  <2> QED BY <1>3, <1>4, <2>1, <2>2 DEF DeliveredSoFar
<1>13. CASE UNCHANGED vars
  <2>1. UNCHANGED <<row, name, pc, i, line, loaded>>
    BY <1>13 DEF vars
  <2> QED BY <1>3, <1>4, <1>6, <1>7, <2>1 DEF DeliveredSoFar
<1> QED BY <1>9, <1>10, <1>11, <1>12, <1>13 DEF Next

\* The invariant holds wherever process_ibrec and the server have come with a
\* row (c_parser.c:138-188, 912-973).
THEOREM RowDelivered == Spec => []Delivered
<1>1. Init => Delivered
  BY InitDelivered
<1>2. Compared /\ Written /\ Delivered /\ [Next]_vars => Delivered'
  BY NextDelivered
<1> QED BY <1>1, <1>2, RowCompared, RowWritten, PTL DEF Spec

\* For every table and row, every value and its place, with -x and -6 and without
\* them: a value of a row that is Readable arrives in the table as the server had
\* stored it, except exactly those that Lossy and LostExternal name.
THEOREM RowsValuesRestored == Spec => []ValuesRestored
<1>1. ASSUME Delivered PROVE ValuesRestored
  <2> SUFFICES ASSUME pc = "loaded", Readable, NEW k \in DOMAIN loaded
               PROVE  LET f == Columns[k]
                      IN  f.damaged \/ (Restored(k) <=>
                             f.null \/ ~ (\/ Lossy(f.def, f.value, f.after, process_56)
                                          \/ LostExternal(f)))
    BY DEF ValuesRestored
  <2>1. IsDelivered(Columns[k], loaded[k])
    BY <1>1 DEF Delivered, DeliveredSoFar
  <2>2. Restored(k) <=> AsStored(Columns[k], loaded[k])
    BY DEF Restored, AsStored
  <2> QED BY <2>1, <2>2 DEF IsDelivered
<1> QED BY <1>1, RowDelivered, PTL
=============================================================================
