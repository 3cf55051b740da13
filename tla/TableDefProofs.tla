--------------------------- MODULE TableDefProofs ----------------------------
(***************************************************************************)
(* Proofs about TableDef, for tables of any number of columns and keys, in *)
(* any order.  What has to be shown is that the arrays that the grammar    *)
(* fills while it reads the statement hold the names of one key, each once *)
(* and each that of a column; the rest is how positions are counted.       *)
(***************************************************************************)
EXTENDS TableDef, FiniteSetTheorems, TLAPS

(***************************************************************************)
(* Positions in ascending order                                            *)
(***************************************************************************)
Increasing(p) == \A i, j \in DOMAIN p : i < j => p[i] < p[j]

\* Induction, with a set for the predicate.
LEMMA NatSetInduction ==
    ASSUME NEW S, 0 \in S, \A n \in Nat : n \in S => n + 1 \in S
    PROVE  Nat \subseteq S
<1> SUFFICES ASSUME Nat \ S # {} PROVE FALSE
  OBVIOUS
<1>1. \A m, n \in Nat : m < n => <<m, n>> \in OpToRel(<, Nat)
  BY DEF OpToRel
<1>2. PICK R : IsWellFoundedOn(R, Nat) /\ \A m, n \in Nat : m < n => <<m, n>> \in R
  BY <1>1, NatLessThanWellFounded
<1>3. IsWellFoundedOn(R, Nat)
  BY <1>2
<1>4. PICK m \in Nat \ S : \A n \in Nat \ S : ~ (<<n, m>> \in R)
  BY <1>3, WFMin
<1>5. m # 0 /\ m - 1 \in Nat /\ m = (m - 1) + 1 /\ m - 1 < m
  BY <1>4
<1>6. m - 1 \in S
  BY <1>2, <1>4, <1>5
<1> QED BY <1>4, <1>5, <1>6

LEMMA FinitePositions ==
    ASSUME NEW n \in Nat, NEW S \in SUBSET (1 .. n)
    PROVE  IsFiniteSet(S) /\ Cardinality(S) \in Nat
<1>1. IsFiniteSet(1 .. n)
  BY FS_Interval
<1>2. IsFiniteSet(S)
  BY <1>1, FS_Subset
<1> QED BY <1>2, FS_CardinalityType

\* Any set of positions can be put in ascending order.
LEMMA AscendingExists ==
    ASSUME NEW n \in Nat, NEW S \in SUBSET (1 .. n)
    PROVE  \E p \in [1 .. Cardinality(S) -> S] : Increasing(p)
<1> DEFINE Ordered(T) == \E p \in [1 .. Cardinality(T) -> T] : Increasing(p)
           Good == {m \in Nat : \A T \in SUBSET (1 .. m) : Ordered(T)}
<1>1. 0 \in Good
  <2> SUFFICES ASSUME NEW T \in SUBSET (1 .. 0) PROVE Ordered(T)
    OBVIOUS
  <2>1. T = {} /\ Cardinality(T) = 0
    <3>1. T = {}
      OBVIOUS
    <3> QED BY <3>1, FS_EmptySet
  <2>2. [i \in 1 .. 0 |-> 0] \in [1 .. Cardinality(T) -> T] /\ Increasing([i \in 1 .. 0 |-> 0])
    BY <2>1 DEF Increasing
  <2> QED BY <2>2
<1>2. ASSUME NEW m \in Nat, m \in Good
      PROVE  m + 1 \in Good
  <2> SUFFICES ASSUME NEW T \in SUBSET (1 .. m + 1) PROVE Ordered(T)
    OBVIOUS
  <2>1. CASE m + 1 \notin T
    <3>1. T \in SUBSET (1 .. m)
      BY <2>1
    <3> QED BY <1>2, <3>1
  <2>2. CASE m + 1 \in T
    <3>1. PICK U, c : U = T \ {m + 1} /\ c = Cardinality(U)
      OBVIOUS
    <3>2. U \in SUBSET (1 .. m) /\ c \in Nat /\ IsFiniteSet(U) /\ T = U \cup {m + 1}
      <4>1. U \in SUBSET (1 .. m)
        BY <3>1
      <4>2. T = U \cup {m + 1}
        BY <2>2, <3>1
      <4> QED BY <3>1, <4>1, <4>2, FinitePositions
    <3>3. Cardinality(T) = c + 1
      BY <3>1, <3>2, FS_AddElement
    <3>4. PICK p \in [1 .. c -> U] : Increasing(p)
      BY <1>2, <3>1, <3>2
    <3>5. PICK q : q = [i \in 1 .. c + 1 |-> IF i = c + 1 THEN m + 1 ELSE p[i]]
      OBVIOUS
    <3>6. ASSUME NEW i \in 1 .. c PROVE q[i] = p[i] /\ p[i] \in Nat /\ p[i] < m + 1
      <4>1. i \in 1 .. c + 1 /\ i # c + 1
        BY <3>2
      <4>2. p[i] \in U
        BY <3>4
      <4>3. p[i] \in 1 .. m
        BY <3>2, <4>2
      <4> QED BY <3>5, <4>1, <4>3
    <3>7. q[c + 1] = m + 1 /\ DOMAIN q = 1 .. c + 1
      BY <3>2, <3>5
    <3>8. q \in [1 .. c + 1 -> T]
      BY <3>2, <3>4, <3>5
    <3>9. ASSUME NEW i \in 1 .. c + 1, NEW j \in 1 .. c + 1, i < j
          PROVE  q[i] < q[j]
      <4>1. i \in 1 .. c
        BY <3>2, <3>9
      <4>2. CASE j = c + 1
        BY <3>6, <3>7, <4>1, <4>2
      <4>3. CASE j # c + 1
        <5>1. j \in 1 .. c
          BY <3>2, <4>3
        <5> QED BY <3>4, <3>6, <3>9, <4>1, <5>1 DEF Increasing
      <4> QED BY <4>2, <4>3
    <3>10. Increasing(q)
      BY <3>7, <3>9 DEF Increasing
    <3> QED BY <3>3, <3>8, <3>10
  <2> QED BY <2>1, <2>2
<1>3. n \in Good
  <2> HIDE DEF Good
  <2> QED BY <1>1, <1>2, NatSetInduction
<1> QED BY <1>3

\* p goes through S in c steps.
Enumerates(p, c, S) ==
    /\ p \in [1 .. c -> S] /\ Increasing(p)
    /\ \A i, j \in 1 .. c : p[i] = p[j] => i = j
    /\ \A k \in S : \E i \in 1 .. c : p[i] = k

\* The positions that are chosen are those of S, each once.
LEMMA AscendingFacts ==
    ASSUME NEW n \in Nat, NEW S \in SUBSET (1 .. n)
    PROVE  Cardinality(S) \in Nat /\ Enumerates(Ascending(S), Cardinality(S), S)
<1>1. IsFiniteSet(S) /\ Cardinality(S) \in Nat
  BY FinitePositions
<1>2. PICK p, c : p = Ascending(S) /\ c = Cardinality(S)
  OBVIOUS
<1>3. p \in [1 .. c -> S] /\ Increasing(p)
  <2>1. \E q \in [1 .. Cardinality(S) -> S] : Increasing(q)
    BY AscendingExists
  <2> QED BY <1>2, <2>1 DEF Ascending, Increasing
<1>4. ASSUME NEW i \in 1 .. c, NEW j \in 1 .. c, p[i] = p[j]
      PROVE  i = j
  <2>1. ~ (i < j) /\ ~ (j < i)
    <3>1. p[i] \in S /\ p[j] \in S
      BY <1>3
    <3>2. p[i] \in Nat /\ p[j] \in Nat
      <4>1. S \subseteq 1 .. n
        OBVIOUS
      <4>2. p[i] \in 1 .. n /\ p[j] \in 1 .. n
        BY <3>1, <4>1
      <4> QED BY <4>2
    <3>3. DOMAIN p = 1 .. c
      BY <1>3
    <3> QED BY <1>3, <1>4, <3>2, <3>3 DEF Increasing
  <2> QED BY <1>1, <1>2, <2>1
<1>5. p \in Injection(1 .. c, S)
  BY <1>3, <1>4 DEF Injection, IsInjective
<1>6. p \in Surjection(1 .. c, S)
  <2>1. Cardinality(1 .. c) = c
    BY <1>1, <1>2, FS_Interval
  <2> QED BY <1>1, <1>2, <1>5, <2>1, FS_Injection
<1>7. \A k \in S : \E i \in 1 .. c : p[i] = k
  BY <1>6 DEF Surjection
<1>8. Enumerates(p, c, S)
  BY <1>3, <1>4, <1>7 DEF Enumerates
<1> QED BY <1>1, <1>2, <1>8
-----------------------------------------------------------------------------
(***************************************************************************)
(* What is laid out when the fields of the key come first                  *)
(***************************************************************************)
Distinct(s) == \A i, j \in 1 .. Len(s) : s[i].name = s[j].name => i = j

\* The places of f at which x is.
Copies(f, x) == {j \in DOMAIN f : f[j] = x}

NotLaid(s, laid) == {i \in DOMAIN s : s[i].name \notin NamesOf(laid)}

LEMMA RestFacts ==
    ASSUME NEW X, NEW s \in Seq(X), NEW laid, NEW R, R = NotLaid(s, laid)
    PROVE  /\ R \in SUBSET (1 .. Len(s)) /\ Cardinality(R) \in Nat
           /\ Rest(s, laid) \in Seq(X) /\ Len(Rest(s, laid)) = Cardinality(R)
           /\ \A i \in 1 .. Cardinality(R) :
                 Rest(s, laid)[i] = s[Ascending(R)[i]] /\ Ascending(R)[i] \in R
           /\ Enumerates(Ascending(R), Cardinality(R), R)
<1>1. DOMAIN s = 1 .. Len(s) /\ Len(s) \in Nat
  OBVIOUS
<1>2. R \in SUBSET (1 .. Len(s))
  BY <1>1 DEF NotLaid
<1>3. PICK p, c : p = Ascending(R) /\ c = Cardinality(R)
  OBVIOUS
<1>4. c \in Nat /\ Enumerates(p, c, R) /\ p \in [1 .. c -> R]
  <2>1. c \in Nat /\ Enumerates(p, c, R)
    BY <1>1, <1>2, <1>3, AscendingFacts
  <2> QED BY <2>1 DEF Enumerates
<1>5. Rest(s, laid) = [i \in 1 .. c |-> s[p[i]]]
  BY <1>3 DEF Rest, Selected, NotLaid
<1>6. \A i \in 1 .. c : p[i] \in R /\ s[p[i]] \in X
  <2> SUFFICES ASSUME NEW i \in 1 .. c PROVE p[i] \in R /\ s[p[i]] \in X
    OBVIOUS
  <2>1. p[i] \in R
    BY <1>4
  <2>2. p[i] \in 1 .. Len(s)
    BY <1>2, <2>1
  <2> QED BY <2>1, <2>2
<1>7. Rest(s, laid) \in Seq(X) /\ Len(Rest(s, laid)) = c
  BY <1>4, <1>5, <1>6
<1> QED BY <1>2, <1>3, <1>4, <1>5, <1>6, <1>7

\* Where laid has the name of a field of s it has that field.
LaidOf(X, s, laid) ==
    /\ s \in Seq(X) /\ laid \in Seq(X) /\ Distinct(s) /\ Distinct(laid)
    /\ \A j \in 1 .. Len(laid) : \A k \in 1 .. Len(s) :
          laid[j].name = s[k].name => laid[j] = s[k]

\* A column is among the fields of the key or among the rest, and only once.
LEMMA LaidOnce ==
    ASSUME NEW X, NEW s, NEW laid, LaidOf(X, s, laid),
           NEW f, f = laid \o Rest(s, laid), NEW i \in DOMAIN s
    PROVE  Cardinality(Copies(f, s[i])) = 1
<1>0. /\ s \in Seq(X) /\ laid \in Seq(X) /\ Distinct(s) /\ Distinct(laid)
      /\ \A j \in 1 .. Len(laid) : \A k \in 1 .. Len(s) :
            laid[j].name = s[k].name => laid[j] = s[k]
  BY DEF LaidOf
<1>1. PICK R, rest, c, a, m :
        /\ R = NotLaid(s, laid) /\ rest = Rest(s, laid) /\ c = Cardinality(R)
        /\ a = Ascending(R) /\ m = Len(laid)
  OBVIOUS
<1>2. /\ R \in SUBSET (1 .. Len(s)) /\ c \in Nat /\ rest \in Seq(X) /\ Len(rest) = c
      /\ \A j \in 1 .. c : rest[j] = s[a[j]] /\ a[j] \in R
  BY <1>0, <1>1, RestFacts
<1>3. /\ \A j, k \in 1 .. c : a[j] = a[k] => j = k
      /\ \A k \in R : \E j \in 1 .. c : a[j] = k
  <2>1. Enumerates(a, c, R)
    BY <1>0, <1>1, RestFacts
  <2> QED BY <2>1 DEF Enumerates
<1>4. /\ m \in Nat /\ DOMAIN f = 1 .. m + c
      /\ \A j \in 1 .. m : f[j] = laid[j]
      /\ \A j \in m + 1 .. m + c : f[j] = rest[j - m]
  BY <1>0, <1>1, <1>2
<1>5. \A j \in 1 .. m + c : j \in 1 .. m \/ (j \in m + 1 .. m + c /\ j - m \in 1 .. c)
  BY <1>2, <1>4
<1>6. i \in 1 .. Len(s) /\ DOMAIN laid = 1 .. m
  BY <1>0, <1>1
<1>7. SUFFICES \E h \in DOMAIN f : f[h] = s[i] /\ \A j \in DOMAIN f : f[j] = s[i] => j = h
  <2>1. PICK h \in DOMAIN f : f[h] = s[i] /\ \A j \in DOMAIN f : f[j] = s[i] => j = h
    BY <1>7
  <2>2. Copies(f, s[i]) = {h}
    BY <2>1 DEF Copies
  <2>3. Cardinality({h}) = 1
    BY FS_Singleton
  <2> QED BY <2>2, <2>3
<1>8. CASE s[i].name \in NamesOf(laid)
  <2>1. PICK h \in 1 .. m : laid[h].name = s[i].name
    BY <1>6, <1>8 DEF NamesOf
  <2>2. h \in DOMAIN f /\ f[h] = s[i]
    <3>1. h \in 1 .. m + c
      BY <1>2, <1>4
    <3>2. laid[h] = s[i]
      BY <1>0, <1>1, <1>6, <2>1
    <3> QED BY <1>4, <3>1, <3>2
  <2>3. ASSUME NEW j \in DOMAIN f, f[j] = s[i] PROVE j = h
    <3>1. CASE j \in 1 .. m
      <4>1. laid[j].name = laid[h].name
        BY <1>4, <2>1, <2>3, <3>1
      <4> QED BY <1>0, <1>1, <3>1, <4>1 DEF Distinct
    <3>2. CASE j \in m + 1 .. m + c /\ j - m \in 1 .. c
      <4>1. s[a[j - m]] = s[i] /\ a[j - m] \in R
        BY <1>2, <1>4, <2>3, <3>2
      <4>2. s[i].name \notin NamesOf(laid)
        BY <1>1, <4>1 DEF NotLaid
      <4> QED BY <1>8, <4>2
    <3> QED BY <1>4, <1>5, <3>1, <3>2
  <2> QED BY <2>2, <2>3
<1>9. CASE s[i].name \notin NamesOf(laid)
  <2>1. i \in R
    BY <1>1, <1>9 DEF NotLaid
  <2>2. PICK k \in 1 .. c : a[k] = i
    BY <1>3, <2>1
  <2>3. m + k \in m + 1 .. m + c /\ m + k \in 1 .. m + c /\ (m + k) - m = k
    BY <1>2, <1>4
  <2>4. m + k \in DOMAIN f /\ f[m + k] = s[i]
    BY <1>2, <1>4, <2>2, <2>3
  <2>5. ASSUME NEW j \in DOMAIN f, f[j] = s[i] PROVE j = m + k
    <3>1. CASE j \in 1 .. m
      <4>1. laid[j].name \in NamesOf(laid) /\ laid[j] = s[i]
        BY <1>4, <1>6, <2>5, <3>1 DEF NamesOf
      <4> QED BY <1>9, <4>1
    <3>2. CASE j \in m + 1 .. m + c /\ j - m \in 1 .. c
      <4>1. s[a[j - m]] = s[i] /\ a[j - m] \in R
        BY <1>2, <1>4, <2>5, <3>2
      <4>2. a[j - m] = i
        <5>1. a[j - m] \in 1 .. Len(s)
          BY <1>2, <4>1
        <5> QED BY <1>0, <1>6, <4>1, <5>1 DEF Distinct
      <4>3. j - m = k
        BY <1>3, <2>2, <3>2, <4>2
      <4>4. j \in Int /\ m \in Int /\ k \in Int
        BY <1>2, <1>4, <3>2
      <4> QED BY ONLY <4>3, <4>4
    <3> QED BY <1>4, <1>5, <3>1, <3>2
  <2> QED BY <2>4, <2>5
<1> QED BY <1>8, <1>9

\* If the columns among the fields that are laid out first are those of names,
\* there are so many fewer in the rest.
LEMMA RestLength ==
    ASSUME NEW X, NEW s \in Seq(X), Distinct(s), NEW laid, NEW N, NEW names \in Seq(N),
           IsInjective(names),
           \A i \in 1 .. Len(names) : \E k \in 1 .. Len(s) : s[k].name = names[i],
           \A k \in 1 .. Len(s) :
              s[k].name \in NamesOf(laid) <=> \E i \in 1 .. Len(names) : names[i] = s[k].name
    PROVE  Cardinality(NotLaid(s, laid)) = Len(s) - Len(names)
<1>1. PICK R, K, n, m : /\ R = NotLaid(s, laid) /\ n = Len(s) /\ m = Len(names)
                        /\ K = (1 .. n) \ R
  OBVIOUS
<1>2. n \in Nat /\ m \in Nat /\ DOMAIN s = 1 .. n /\ DOMAIN names = 1 .. m
  BY <1>1
<1>3. \A k \in 1 .. n : k \in K <=> \E i \in 1 .. m : names[i] = s[k].name
  BY <1>1, <1>2 DEF NotLaid
<1>4. PICK g : g = [i \in 1 .. m |-> CHOOSE k \in 1 .. n : s[k].name = names[i]]
  OBVIOUS
<1>5. ASSUME NEW i \in 1 .. m PROVE g[i] \in K /\ s[g[i]].name = names[i]
  <2>1. g[i] \in 1 .. n /\ s[g[i]].name = names[i]
    BY <1>1, <1>4
  <2> QED BY <1>3, <2>1
<1>6. g \in [1 .. m -> K]
  BY <1>4, <1>5
<1>7. g \in Bijection(1 .. m, K)
  <2>1. ASSUME NEW i \in 1 .. m, NEW j \in 1 .. m, g[i] = g[j] PROVE i = j
    <3>1. names[i] = names[j]
      BY <1>5, <2>1
    <3> QED BY <1>2, <3>1 DEF IsInjective
  <2>2. g \in Injection(1 .. m, K)
    BY <1>6, <2>1 DEF Injection, IsInjective
  <2>3. ASSUME NEW k \in K PROVE \E i \in 1 .. m : g[i] = k
    <3>1. k \in 1 .. n
      BY <1>1
    <3>2. PICK i \in 1 .. m : names[i] = s[k].name
      BY <1>3, <3>1
    <3>3. s[g[i]].name = s[k].name /\ g[i] \in 1 .. n
      BY <1>1, <1>5, <3>2
    <3> QED BY <1>1, <3>1, <3>3 DEF Distinct
  <2>4. g \in Surjection(1 .. m, K)
    BY <1>6, <2>3 DEF Surjection
  <2> QED BY <2>2, <2>4 DEF Bijection
<1>8. Cardinality(K) = m
  <2>1. ExistsBijection(1 .. m, K)
    BY <1>7 DEF ExistsBijection
  <2> QED BY <1>2, <2>1, FS_CountingElements
<1>9. IsFiniteSet(1 .. n) /\ Cardinality(1 .. n) = n
  BY <1>2, FS_Interval
<1>10. R \in SUBSET (1 .. n)
  BY <1>1, <1>2 DEF NotLaid
<1>11. (1 .. n) \cap R = R
  BY <1>10
<1>12. Cardinality(K) = n - Cardinality(R)
  <2>1. Cardinality((1 .. n) \ R) = Cardinality(1 .. n) - Cardinality((1 .. n) \cap R)
    BY <1>9, FS_Difference
  <2> QED BY <1>1, <1>9, <1>11, <2>1
<1>13. Cardinality(R) \in Nat
  BY <1>2, <1>10, FinitePositions
<1> QED BY <1>1, <1>2, <1>8, <1>12, <1>13

(***************************************************************************)
(* The key: fields that are found by their names, and system columns       *)
(***************************************************************************)
LEMMA ConcatFacts ==
    ASSUME NEW N, NEW a \in Seq(N), NEW b \in Seq(N), NEW c, c = a \o b
    PROVE  /\ c \in Seq(N) /\ Len(c) = Len(a) + Len(b)
           /\ \A i \in 1 .. Len(a) + Len(b) : c[i] = IF i <= Len(a) THEN a[i] ELSE b[i - Len(a)]
OBVIOUS

LEMMA ThreeConcat ==
    ASSUME NEW x, NEW y, NEW z
    PROVE  <<x>> \o <<y, z>> = <<x, y, z>>
<1>1. PICK a, b, c, N : a = <<x>> /\ b = <<y, z>> /\ c = a \o b /\ N = {x, y, z}
  OBVIOUS
<1>2. a \in Seq(N) /\ b \in Seq(N) /\ Len(a) = 1 /\ Len(b) = 2
  BY <1>1
<1>3. /\ c \in Seq(N) /\ Len(c) = 3
      /\ \A i \in 1 .. 3 : c[i] = IF i <= 1 THEN a[i] ELSE b[i - 1]
  <2>1. /\ c \in Seq(N) /\ Len(c) = Len(a) + Len(b)
        /\ \A i \in 1 .. Len(a) + Len(b) : c[i] = IF i <= Len(a) THEN a[i] ELSE b[i - Len(a)]
    BY <1>1, <1>2, ConcatFacts
  <2> QED BY <1>2, <2>1
<1>4. c[1] = x /\ c[2] = y /\ c[3] = z
  BY <1>1, <1>3
<1>5. c = <<c[1], c[2], c[3]>>
  BY <1>3
<1> QED BY <1>1, <1>4, <1>5

LEMMA FunctionIsSequence ==
    ASSUME NEW N, NEW m \in Nat, NEW f \in [1 .. m -> N]
    PROVE  f \in Seq(N) /\ Len(f) = m
OBVIOUS

NameList(s) == [i \in DOMAIN s |-> s[i].name]

LEMMA NameListConcat ==
    ASSUME NEW X, NEW s \in Seq(X), NEW u \in Seq(X)
    PROVE  NameList(s \o u) = NameList(s) \o NameList(u)
<1>1. PICK m, n, f : m = Len(s) /\ n = Len(u) /\ f = s \o u
  OBVIOUS
<1>2. /\ m \in Nat /\ n \in Nat /\ DOMAIN s = 1 .. m /\ DOMAIN u = 1 .. n
      /\ DOMAIN f = 1 .. m + n
      /\ \A i \in 1 .. m + n : f[i] = IF i <= m THEN s[i] ELSE u[i - m]
  BY <1>1
<1>3. PICK N : N = {s[i].name : i \in 1 .. m} \cup {u[i].name : i \in 1 .. n}
  OBVIOUS
<1>4. PICK a, b : a = NameList(s) /\ b = NameList(u)
  OBVIOUS
<1>5. a \in Seq(N) /\ Len(a) = m /\ \A i \in 1 .. m : a[i] = s[i].name
  <2>1. a = [i \in 1 .. m |-> s[i].name] /\ \A i \in 1 .. m : s[i].name \in N
    BY <1>2, <1>3, <1>4 DEF NameList
  <2> QED BY <1>2, <2>1
<1>6. b \in Seq(N) /\ Len(b) = n /\ \A i \in 1 .. n : b[i] = u[i].name
  <2>1. b = [i \in 1 .. n |-> u[i].name] /\ \A i \in 1 .. n : u[i].name \in N
    BY <1>2, <1>3, <1>4 DEF NameList
  <2> QED BY <1>2, <2>1
<1>7. PICK c : c = a \o b
  OBVIOUS
<1>7a. /\ c \in Seq(N) /\ Len(c) = m + n
       /\ \A i \in 1 .. m + n : c[i] = IF i <= m THEN a[i] ELSE b[i - m]
  <2>1. a \in Seq(N) /\ b \in Seq(N)
    BY <1>5, <1>6
  <2>2. /\ c \in Seq(N) /\ Len(c) = Len(a) + Len(b)
        /\ \A i \in 1 .. Len(a) + Len(b) : c[i] = IF i <= Len(a) THEN a[i] ELSE b[i - Len(a)]
    BY ONLY <1>7, <2>1, ConcatFacts
  <2> QED BY <1>5, <1>6, <2>2
<1>8. ASSUME NEW i \in 1 .. m + n PROVE c[i] = f[i].name
  <2>1. CASE i <= m
    BY <1>2, <1>5, <1>7a, <2>1
  <2>2. CASE ~ (i <= m)
    <3>1. i - m \in 1 .. n
      BY <1>2, <2>2
    <3> QED BY <1>2, <1>6, <1>7a, <2>2, <3>1
  <2> QED BY <2>1, <2>2
<1>9. NameList(f) = [i \in 1 .. m + n |-> f[i].name]
  BY <1>2 DEF NameList
<1>10. c = [i \in 1 .. m + n |-> c[i]]
  BY <1>7a
<1> QED BY <1>1, <1>4, <1>7, <1>8, <1>9, <1>10

\* Some fields that are laid out first: those named by names, and others that
\* have the name of no column.
IsLaid(X, s, laid, names, others) ==
    /\ LaidOf(X, s, laid)
    /\ names \in Seq(Names) /\ IsInjective(names)
    /\ \A i \in 1 .. Len(names) : \E k \in 1 .. Len(s) : s[k].name = names[i]
    /\ \A k \in 1 .. Len(s) :
          s[k].name \in NamesOf(laid) <=> \E i \in 1 .. Len(names) : names[i] = s[k].name
    /\ Len(laid) = Len(names) + Len(others)
    /\ NameList(laid) = names \o NameList(others)

LEMMA KeyIsLaid ==
    ASSUME NEW X, NEW s \in Seq(X), Distinct(s), \A k \in 1 .. Len(s) : s[k].name \in Names,
           NEW names \in Seq(Names), IsInjective(names),
           \A i \in 1 .. Len(names) : \E k \in 1 .. Len(s) : s[k].name = names[i],
           NEW others \in Seq(X), Distinct(others),
           \A i \in 1 .. Len(others) : others[i].name \notin Names,
           NEW key, key = [i \in DOMAIN names |-> Find(s, names[i])],
           NEW laid, laid = key \o others
    PROVE  IsLaid(X, s, laid, names, others)
<1>1. PICK m, q, n : m = Len(names) /\ q = Len(others) /\ n = Len(s)
  OBVIOUS
<1>2. /\ m \in Nat /\ q \in Nat /\ n \in Nat /\ DOMAIN names = 1 .. m
      /\ DOMAIN s = 1 .. n /\ \A i \in 1 .. m : names[i] \in Names
  BY <1>1
<1>3. ASSUME NEW i \in 1 .. m
      PROVE  \E k \in 1 .. n : key[i] = s[k] /\ s[k].name = names[i]
  <2>1. PICK k : k = CHOOSE j \in DOMAIN s : s[j].name = names[i]
    OBVIOUS
  <2>2. k \in 1 .. n /\ s[k].name = names[i]
    BY <1>1, <1>2, <2>1
  <2>3. key[i] = s[k]
    BY <1>2, <2>1 DEF Find
  <2> QED BY <2>2, <2>3
<1>4. \A i \in 1 .. m : key[i] \in X /\ key[i].name = names[i]
  BY <1>1, <1>2, <1>3
<1>5. key \in Seq(X) /\ Len(key) = m
  <2>1. key = [i \in 1 .. m |-> Find(s, names[i])]
    BY <1>2
  <2>2. key \in [1 .. m -> X]
    BY <1>4, <2>1
  <2> QED BY <1>2, <2>2, FunctionIsSequence
<1>6. /\ laid \in Seq(X) /\ Len(laid) = m + q
      /\ \A i \in 1 .. m : laid[i] = key[i]
      /\ \A i \in m + 1 .. m + q : laid[i] = others[i - m] /\ i - m \in 1 .. q
  BY <1>1, <1>2, <1>5
<1>7. \A i \in 1 .. m + q : i \in 1 .. m \/ i \in m + 1 .. m + q
  BY <1>2
<1>8. ASSUME NEW i \in m + 1 .. m + q PROVE laid[i].name \notin Names
  BY <1>1, <1>6
<1>9. ASSUME NEW i \in 1 .. m PROVE laid[i].name = names[i] /\ laid[i].name \in Names
  BY <1>2, <1>4, <1>6
<1>10. Distinct(laid)
  <2>1. ASSUME NEW i \in 1 .. m + q, NEW j \in 1 .. m + q, laid[i].name = laid[j].name
        PROVE  i = j
    <3>1. CASE i \in 1 .. m /\ j \in 1 .. m
      <4>1. names[i] = names[j]
        BY <1>9, <2>1, <3>1
      <4> QED BY <1>2, <3>1, <4>1 DEF IsInjective
    <3>2. CASE i \in m + 1 .. m + q /\ j \in m + 1 .. m + q
      <4>1. i - m = j - m
        BY <1>1, <1>6, <2>1, <3>2 DEF Distinct
      <4> QED BY <1>2, <4>1
    <3> QED BY <1>7, <1>8, <1>9, <2>1, <3>1, <3>2
  <2> QED BY <1>6, <2>1 DEF Distinct
<1>11. ASSUME NEW j \in 1 .. m + q, NEW k \in 1 .. n, laid[j].name = s[k].name
       PROVE  laid[j] = s[k]
  <2>1. j \in 1 .. m
    BY <1>1, <1>7, <1>8, <1>11
  <2>2. PICK h \in 1 .. n : key[j] = s[h] /\ s[h].name = names[j]
    BY <1>3, <2>1
  <2>3. s[h].name = s[k].name
    BY <1>9, <1>11, <2>1, <2>2
  <2>4. h = k
    BY <1>1, <2>3 DEF Distinct
  <2> QED BY <1>6, <2>1, <2>2, <2>4
<1>12. ASSUME NEW k \in 1 .. n
       PROVE  s[k].name \in NamesOf(laid) <=> \E i \in 1 .. m : names[i] = s[k].name
  <2>1. DOMAIN laid = 1 .. m + q
    BY <1>6
  <2>2. ASSUME s[k].name \in NamesOf(laid)
        PROVE  \E i \in 1 .. m : names[i] = s[k].name
    <3>1. PICK j \in 1 .. m + q : laid[j].name = s[k].name
      BY <2>1, <2>2 DEF NamesOf
    <3>2. j \in 1 .. m
      BY <1>1, <1>7, <1>8, <3>1
    <3> QED BY <1>9, <3>1, <3>2
  <2>3. ASSUME NEW i \in 1 .. m, names[i] = s[k].name
        PROVE  s[k].name \in NamesOf(laid)
    <3>1. i \in DOMAIN laid /\ laid[i].name = s[k].name
      BY <1>2, <1>9, <2>1, <2>3
    <3> QED BY <3>1 DEF NamesOf
  <2> QED BY <2>2, <2>3
<1>13. NameList(laid) = names \o NameList(others)
  <2>1. NameList(key) = names
    <3>1. DOMAIN key = 1 .. m
      BY <1>2
    <3>2. NameList(key) = [i \in 1 .. m |-> names[i]]
      BY <1>4, <3>1 DEF NameList
    <3>3. names = [i \in 1 .. m |-> names[i]]
      BY <1>1
    <3> QED BY <3>2, <3>3
  <2> QED BY <1>5, <2>1, NameListConcat
<1>14. \A j \in 1 .. Len(laid) : \A k \in 1 .. Len(s) :
          laid[j].name = s[k].name => laid[j] = s[k]
  BY <1>1, <1>6, <1>11
<1>15. \A k \in 1 .. Len(s) :
          s[k].name \in NamesOf(laid) <=> \E i \in 1 .. Len(names) : names[i] = s[k].name
  BY <1>1, <1>12
<1> QED BY <1>1, <1>6, <1>10, <1>13, <1>14, <1>15 DEF IsLaid, LaidOf
-----------------------------------------------------------------------------
(***************************************************************************)
(* What the arrays hold while the statement is read                        *)
(***************************************************************************)
ColumnsInv ==
    /\ phase \in {"columns", "done"}
    /\ columns \in Seq([name : Names, decl : ColumnTypes]) /\ Distinct(columns)
    /\ (\E X : all_fields \in Seq(X)) /\ Len(all_fields) = Len(columns)
    /\ \A i \in 1 .. Len(columns) :
          /\ all_fields[i].name = columns[i].name
          /\ phase = "columns" =>
                \A charset \in Charsets :
                    Adjusted(all_fields[i], charset).name = columns[i].name

\* A key is a list of columns, each once.
Key == [kind : {"primary", "unique"}, cols : Seq(Names), inline : BOOLEAN]

KeyTypes ==
    /\ keys \in Seq(Key) /\ \A i \in 1 .. Len(keys) : IsInjective(keys[i].cols)
    /\ pk_fields \in Seq(Names) /\ uq_fields \in Seq(Names)
    /\ has_primary_key \in BOOLEAN /\ has_unique_key \in BOOLEAN /\ met_unique_index \in BOOLEAN

PrimaryInv ==
    /\ has_primary_key => \E i \in 1 .. Len(keys) : keys[i].kind = "primary"
    /\ \A i \in 1 .. Len(keys) :
          keys[i].kind = "primary" => has_primary_key /\ pk_fields = keys[i].cols
    /\ ~ has_primary_key => pk_fields = << >>

FirstUnique(i) ==
    keys[i].kind = "unique" /\ \A j \in 1 .. Len(keys) : keys[j].kind = "unique" => i <= j

\* A UNIQUE clause of a column disturbs the list of the first UNIQUE key.
UniqueInv ==
    /\ has_unique_key <=> \E i \in 1 .. Len(keys) : keys[i].kind = "unique"
    /\ \/ InlineUnique
       \/ ~ has_unique_key /\ ~ met_unique_index /\ uq_fields = << >>
       \/ /\ has_unique_key /\ met_unique_index
          /\ \E i \in 1 .. Len(keys) : FirstUnique(i) /\ uq_fields = keys[i].cols

KeysInv == KeyTypes /\ PrimaryInv /\ UniqueInv

\* What the action at the end of the statement makes of the fields s.
HasKey == has_primary_key \/ has_unique_key
KeyOf(s) == IF HasKey THEN [i \in DOMAIN KeyNames |-> Find(s, KeyNames[i])]
            ELSE <<System("DB_ROW_ID", 6)>>
LaidFirst(s) == KeyOf(s) \o <<System("DB_TRX_ID", 6), System("DB_ROLL_PTR", 7)>>

LayoutInv ==
    phase = "done" =>
        /\ \A i \in 1 .. Len(keys) : ToSet(keys[i].cols) \subseteq NamesOf(all_fields)
        /\ fields = LaidFirst(all_fields) \o Rest(all_fields, LaidFirst(all_fields))

IInv == ColumnsInv /\ KeysInv /\ LayoutInv

LEMMA InitIInv == Init => IInv
<1> SUFFICES ASSUME Init PROVE IInv
  OBVIOUS
<1>1. /\ phase = "columns" /\ all_fields = << >> /\ columns = << >> /\ keys = << >>
      /\ pk_fields = << >> /\ uq_fields = << >> /\ has_primary_key = FALSE
      /\ has_unique_key = FALSE /\ met_unique_index = FALSE
  BY DEF Init
<1>2. /\ << >> \in Seq([name : Names, decl : ColumnTypes]) /\ << >> \in Seq({})
      /\ << >> \in Seq(Key) /\ << >> \in Seq(Names) /\ Len(<< >>) = 0 /\ 1 .. 0 = {}
  OBVIOUS
<1>3. ColumnsInv
  BY <1>1, <1>2 DEF ColumnsInv, Distinct
<1>4. KeysInv
  BY <1>1, <1>2 DEF KeysInv, KeyTypes, PrimaryInv, UniqueInv
<1> QED BY <1>1, <1>3, <1>4 DEF IInv, LayoutInv
-----------------------------------------------------------------------------
\* The name of a field is that of its column, whatever happens to its sizes.
LEMMA DeclaredName ==
    ASSUME NEW name, NEW d, NEW charset
    PROVE  /\ Declared(name, d).name = name
           /\ Adjusted(Declared(name, d), charset).name = name
<1>1. PICK x : x = Declared(name, d)
  OBVIOUS
<1>2. /\ "name" \in DOMAIN x /\ "max_length" \in DOMAIN x /\ "fixed_length" \in DOMAIN x
      /\ x.name = name
  BY <1>1 DEF Declared
<1>3. ASSUME NEW m, NEW f
      PROVE  /\ [x EXCEPT !.max_length = m].name = name
             /\ [x EXCEPT !.max_length = m, !.fixed_length = f].name = name
  BY <1>2
<1>4. Adjusted(x, charset).name = name
  BY <1>2, <1>3 DEF Adjusted
<1> QED BY <1>1, <1>2, <1>4

LEMMA SequenceGrows ==
    ASSUME NEW X, NEW s \in Seq(X), NEW x, NEW u, u = s \o <<x>> \/ u = Append(s, x)
    PROVE  /\ u \in Seq(X \cup {x}) /\ Len(u) = Len(s) + 1 /\ Len(s) \in Nat
           /\ u[Len(s) + 1] = x /\ \A i \in 1 .. Len(s) : u[i] = s[i]
<1>1. CASE u = Append(s, x)
  <2>1. s \in Seq(X \cup {x})
    OBVIOUS
  <2> QED BY <1>1, <2>1
<1>2. CASE u = s \o <<x>>
  <2>1. s \in Seq(X \cup {x}) /\ <<x>> \in Seq(X \cup {x})
    OBVIOUS
  <2> QED BY <1>2, <2>1
<1> QED BY <1>1, <1>2

LEMMA ColumnAdded ==
    ASSUME ColumnsInv, NEW name \in Names, NEW d \in ColumnTypes, DefineColumn(name, d)
    PROVE  ColumnsInv'
<1>1. /\ phase = "columns" /\ phase' = phase /\ name \notin NamesOf(all_fields)
      /\ all_fields' = Append(all_fields, Declared(name, d))
      /\ columns' = Append(columns, [name |-> name, decl |-> d])
  BY DEF DefineColumn
<1>2. PICK n, c, x : n = Len(columns) /\ c = [name |-> name, decl |-> d] /\ x = Declared(name, d)
  OBVIOUS
<1>3. PICK X : all_fields \in Seq(X)
  BY DEF ColumnsInv
<1>4. /\ columns \in Seq([name : Names, decl : ColumnTypes]) /\ Len(all_fields) = n /\ n \in Nat
      /\ \A i \in 1 .. n : all_fields[i].name = columns[i].name
      /\ \A i \in 1 .. n : \A charset \in Charsets :
            Adjusted(all_fields[i], charset).name = columns[i].name
      /\ \A i, j \in 1 .. n : columns[i].name = columns[j].name => i = j
  BY <1>1, <1>2 DEF ColumnsInv, Distinct
<1>5. /\ all_fields' \in Seq(X \cup {x}) /\ Len(all_fields') = n + 1 /\ all_fields'[n + 1] = x
      /\ \A i \in 1 .. n : all_fields'[i] = all_fields[i]
  BY <1>1, <1>2, <1>3, <1>4, SequenceGrows
<1>6. c \in [name : Names, decl : ColumnTypes] /\ c.name = name
  BY <1>2
<1>7. /\ columns' \in Seq([name : Names, decl : ColumnTypes]) /\ Len(columns') = n + 1
      /\ columns'[n + 1] = c /\ \A i \in 1 .. n : columns'[i] = columns[i]
  BY <1>1, <1>2, <1>4, <1>6
<1>8. \A i \in 1 .. n + 1 : i = n + 1 \/ i \in 1 .. n
  BY <1>4
<1>9. \A i \in 1 .. n : columns[i].name # name
  BY <1>1, <1>3, <1>4 DEF NamesOf
<1>10. Distinct(columns')
  <2>1. ASSUME NEW i \in 1 .. n + 1, NEW j \in 1 .. n + 1, columns'[i].name = columns'[j].name
        PROVE  i = j
    BY <1>4, <1>6, <1>7, <1>8, <1>9, <2>1
  <2> QED BY <1>7, <2>1 DEF Distinct
<1>11. ASSUME NEW i \in 1 .. n + 1
       PROVE  /\ all_fields'[i].name = columns'[i].name
              /\ \A charset \in Charsets :
                    Adjusted(all_fields'[i], charset).name = columns'[i].name
  <2>1. CASE i = n + 1
    BY <1>2, <1>5, <1>6, <1>7, <2>1, DeclaredName
  <2>2. CASE i \in 1 .. n
    BY <1>4, <1>5, <1>7, <2>2
  <2> QED BY <1>8, <2>1, <2>2
<1> QED BY <1>1, <1>5, <1>7, <1>10, <1>11 DEF ColumnsInv, Distinct

LEMMA KeyAdded ==
    ASSUME keys \in Seq(Key), \A i \in 1 .. Len(keys) : IsInjective(keys[i].cols),
           NEW k \in Key, IsInjective(k.cols), keys' = keys \o <<k>> \/ keys' = Append(keys, k)
    PROVE  /\ keys' \in Seq(Key) /\ Len(keys') = Len(keys) + 1 /\ Len(keys) \in Nat
           /\ keys'[Len(keys) + 1] = k /\ \A i \in 1 .. Len(keys) : keys'[i] = keys[i]
           /\ \A i \in 1 .. Len(keys) + 1 : i = Len(keys) + 1 \/ i \in 1 .. Len(keys)
           /\ \A i \in 1 .. Len(keys') : IsInjective(keys'[i].cols)
<1>1. /\ keys' \in Seq(Key \cup {k}) /\ Len(keys') = Len(keys) + 1 /\ Len(keys) \in Nat
      /\ keys'[Len(keys) + 1] = k /\ \A i \in 1 .. Len(keys) : keys'[i] = keys[i]
  BY SequenceGrows
<1>2. Key \cup {k} = Key
  OBVIOUS
<1>3. \A i \in 1 .. Len(keys) + 1 : i = Len(keys) + 1 \/ i \in 1 .. Len(keys)
  BY <1>1
<1>4. \A i \in 1 .. Len(keys') : IsInjective(keys'[i].cols)
  BY <1>1, <1>3
<1> QED BY <1>1, <1>2, <1>3, <1>4

LEMMA EmptyAdded ==
    ASSUME NEW N, NEW s \in Seq(N)
    PROVE  s \o << >> = s /\ << >> \o s = s
OBVIOUS

LEMMA PrimaryAdded ==
    ASSUME KeysInv, NEW cols \in Seq(Names), IsInjective(cols),
           NEW k \in Key, k.kind = "primary", k.cols = cols,
           keys' = keys \o <<k>> \/ keys' = Append(keys, k),
           ~ has_primary_key, has_primary_key' = TRUE, pk_fields' = pk_fields \o cols,
           UNCHANGED <<has_unique_key, met_unique_index, uq_fields>>
    PROVE  KeysInv'
<1>1. /\ keys \in Seq(Key) /\ \A i \in 1 .. Len(keys) : IsInjective(keys[i].cols)
      /\ pk_fields = << >>
      /\ \A i \in 1 .. Len(keys) : keys[i].kind # "primary"
  BY DEF KeysInv, KeyTypes, PrimaryInv
<1>2. k \in Key /\ k.kind = "primary" /\ k.cols = cols
  OBVIOUS
<1>3. PICK n : n = Len(keys)
  OBVIOUS
<1>4. /\ keys' \in Seq(Key) /\ Len(keys') = n + 1 /\ n \in Nat
      /\ keys'[n + 1] = k /\ \A i \in 1 .. n : keys'[i] = keys[i]
      /\ \A i \in 1 .. n + 1 : i = n + 1 \/ i \in 1 .. n
      /\ \A i \in 1 .. Len(keys') : IsInjective(keys'[i].cols)
  BY <1>1, <1>2, <1>3, KeyAdded
<1>5. pk_fields' = cols
  BY <1>1, EmptyAdded
<1>6. KeyTypes'
  BY <1>4, <1>5 DEF KeysInv, KeyTypes
<1>7. PrimaryInv'
  <2>1. n + 1 \in 1 .. Len(keys')
    BY <1>4
  <2>2. \A i \in 1 .. n : keys'[i].kind # "primary"
    BY <1>1, <1>3, <1>4
  <2> QED BY <1>2, <1>4, <1>5, <2>1, <2>2 DEF PrimaryInv
<1>8. UniqueInv'
  <2>1. \A i \in 1 .. n : i \in 1 .. n + 1
    BY <1>4
  <2>2. DOMAIN keys = 1 .. n /\ DOMAIN keys' = 1 .. n + 1
    BY <1>1, <1>3, <1>4
  <2>3. InlineUnique => InlineUnique'
    BY <1>4, <2>1, <2>2 DEF InlineUnique
  <2>4. (\E i \in 1 .. n + 1 : keys'[i].kind = "unique")
           <=> \E i \in 1 .. n : keys[i].kind = "unique"
    BY <1>2, <1>4, <2>1
  <2>5. ASSUME NEW i \in 1 .. n, FirstUnique(i) PROVE FirstUnique(i)'
    <3>1. ASSUME NEW j \in 1 .. n + 1, keys'[j].kind = "unique" PROVE i <= j
      <4>1. j \in 1 .. n
        BY <1>2, <1>4, <3>1
      <4> QED BY <1>3, <1>4, <2>5, <3>1, <4>1 DEF FirstUnique
    <3> QED BY <1>3, <1>4, <2>5, <3>1 DEF FirstUnique
  <2>6. has_unique_key' <=> \E i \in 1 .. Len(keys') : keys'[i].kind = "unique"
    BY <1>3, <1>4, <2>4 DEF KeysInv, UniqueInv
  <2>7. CASE InlineUnique
    BY <2>3, <2>6, <2>7 DEF UniqueInv
  <2>8. CASE ~ has_unique_key /\ ~ met_unique_index /\ uq_fields = << >>
    BY <2>6, <2>8 DEF UniqueInv
  <2>9. ASSUME has_unique_key, met_unique_index, NEW i \in 1 .. n,
               FirstUnique(i), uq_fields = keys[i].cols
        PROVE  UniqueInv'
    <3>1. i \in 1 .. Len(keys') /\ FirstUnique(i)' /\ uq_fields' = keys'[i].cols
      BY <1>4, <2>1, <2>5, <2>9
    <3> QED BY <2>6, <2>9, <3>1 DEF UniqueInv
  <2> QED BY <1>3, <2>7, <2>8, <2>9 DEF KeysInv, UniqueInv
<1> QED BY <1>6, <1>7, <1>8 DEF KeysInv

LEMMA UniqueAdded ==
    ASSUME KeysInv, NEW cols \in Seq(Names), IsInjective(cols),
           NEW k \in Key, k.kind = "unique", k.cols = cols,
           keys' = keys \o <<k>> \/ keys' = Append(keys, k),
           has_unique_key' = TRUE,
           uq_fields' = uq_fields \o (IF met_unique_index THEN << >> ELSE cols),
           met_unique_index' \in BOOLEAN, k.inline \/ met_unique_index' = TRUE,
           UNCHANGED <<has_primary_key, pk_fields>>
    PROVE  KeysInv'
<1>1. /\ keys \in Seq(Key) /\ \A i \in 1 .. Len(keys) : IsInjective(keys[i].cols)
      /\ uq_fields \in Seq(Names) /\ met_unique_index \in BOOLEAN
  BY DEF KeysInv, KeyTypes
<1>2. k \in Key /\ k.kind = "unique" /\ k.cols = cols
  OBVIOUS
<1>3. PICK n : n = Len(keys)
  OBVIOUS
<1>4. /\ keys' \in Seq(Key) /\ Len(keys') = n + 1 /\ n \in Nat
      /\ keys'[n + 1] = k /\ \A i \in 1 .. n : keys'[i] = keys[i]
      /\ \A i \in 1 .. n + 1 : i = n + 1 \/ i \in 1 .. n
      /\ \A i \in 1 .. Len(keys') : IsInjective(keys'[i].cols)
  BY <1>1, <1>2, <1>3, KeyAdded
<1>5. KeyTypes'
  <2>1. uq_fields' \in Seq(Names)
    <3>1. CASE met_unique_index
      BY <1>1, <3>1, EmptyAdded
    <3>2. CASE ~ met_unique_index
      BY <1>1, <3>2
    <3> QED BY <3>1, <3>2
  <2>2. met_unique_index' \in BOOLEAN
    BY <1>1
  <2> QED BY <1>4, <2>1, <2>2 DEF KeysInv, KeyTypes
<1>6. n + 1 \in 1 .. Len(keys') /\ \A i \in 1 .. n : i \in 1 .. n + 1
  BY <1>4
<1>7. PrimaryInv'
  BY <1>2, <1>3, <1>4, <1>6 DEF KeysInv, PrimaryInv
<1>8. UniqueInv'
  <2>1. DOMAIN keys = 1 .. n /\ DOMAIN keys' = 1 .. n + 1
    BY <1>1, <1>3, <1>4
  <2>2. has_unique_key' <=> \E i \in 1 .. Len(keys') : keys'[i].kind = "unique"
    BY <1>2, <1>4, <1>6
  <2>3. CASE k.inline
    <3>1. InlineUnique'
      BY <1>2, <1>4, <1>6, <2>1, <2>3 DEF InlineUnique
    <3> QED BY <2>2, <3>1 DEF UniqueInv
  <2>4. CASE InlineUnique
    <3>1. InlineUnique'
      BY <1>4, <1>6, <2>1, <2>4 DEF InlineUnique
    <3> QED BY <2>2, <3>1 DEF UniqueInv
  <2>5. CASE ~ k.inline /\ ~ has_unique_key /\ ~ met_unique_index /\ uq_fields = << >>
    <3>1. uq_fields' = cols /\ met_unique_index' = TRUE
      BY <2>5, EmptyAdded
    <3>2. \A j \in 1 .. n : keys'[j].kind # "unique"
      BY <1>3, <1>4, <2>5 DEF KeysInv, UniqueInv
    <3>3. ASSUME NEW j \in 1 .. Len(keys'), keys'[j].kind = "unique" PROVE n + 1 <= j
      BY <1>4, <3>2, <3>3
    <3>4. FirstUnique(n + 1)'
      BY <1>2, <1>3, <1>4, <3>3 DEF FirstUnique
    <3> QED BY <1>2, <1>3, <1>4, <1>6, <2>2, <3>1, <3>4 DEF UniqueInv
  <2>6. ASSUME ~ k.inline, has_unique_key, met_unique_index, NEW i \in 1 .. n,
               FirstUnique(i), uq_fields = keys[i].cols
        PROVE  UniqueInv'
    <3>1. uq_fields' = uq_fields /\ met_unique_index' = TRUE
      BY <1>1, <2>6, EmptyAdded
    <3>2. ASSUME NEW j \in 1 .. Len(keys'), keys'[j].kind = "unique" PROVE i <= j
      <4>1. CASE j = n + 1
        BY <1>4, <4>1
      <4>2. CASE j \in 1 .. n
        BY <1>3, <1>4, <2>6, <3>2, <4>2 DEF FirstUnique
      <4> QED BY <1>4, <4>1, <4>2
    <3>3. FirstUnique(i)'
      BY <1>3, <1>4, <2>6, <3>2 DEF FirstUnique
    <3>4. i \in 1 .. Len(keys') /\ uq_fields' = keys'[i].cols
      BY <1>4, <1>6, <2>6, <3>1
    <3> QED BY <2>2, <3>1, <3>3, <3>4 DEF UniqueInv
  <2> QED BY <1>3, <2>3, <2>4, <2>5, <2>6 DEF KeysInv, UniqueInv
<1> QED BY <1>5, <1>7, <1>8 DEF KeysInv
-----------------------------------------------------------------------------
(***************************************************************************)
(* The parts of the statement                                              *)
(***************************************************************************)
LEMMA ColumnKeepsKeys ==
    ASSUME KeysInv, NEW name \in Names, NEW d \in ColumnTypes, DefineColumn(name, d)
    PROVE  KeysInv'
<1>1. d.key \in {"none", "primary", "unique"}
  BY TableAssumption DEF DeclarationType
<1>2. /\ keys \in Seq(Key) /\ pk_fields \in Seq(Names) /\ uq_fields \in Seq(Names)
      /\ has_primary_key \in BOOLEAN /\ has_unique_key \in BOOLEAN
      /\ met_unique_index \in BOOLEAN
  BY DEF KeysInv, KeyTypes
<1>3. PICK cols, k : cols = <<name>> /\ k = [kind |-> d.key, cols |-> cols, inline |-> TRUE]
  OBVIOUS
<1>4. cols \in Seq(Names) /\ IsInjective(cols)
  BY <1>3 DEF IsInjective
<1>5. CASE d.key = "none"
  <2>1. /\ keys' = keys \o << >> /\ pk_fields' = pk_fields \o << >>
        /\ uq_fields' = uq_fields \o << >> /\ has_primary_key' = has_primary_key
        /\ has_unique_key' = has_unique_key /\ met_unique_index' = met_unique_index
    BY <1>2, <1>5 DEF DefineColumn
  <2>2. keys' = keys /\ pk_fields' = pk_fields /\ uq_fields' = uq_fields
    BY <1>2, <2>1, EmptyAdded
  <2> QED BY <2>1, <2>2
      DEF KeysInv, KeyTypes, PrimaryInv, UniqueInv, InlineUnique, FirstUnique
<1>6. CASE d.key = "primary"
  <2>1. /\ keys' = keys \o <<k>> /\ pk_fields' = pk_fields \o cols
        /\ uq_fields' = uq_fields \o << >> /\ has_primary_key' = TRUE /\ ~ has_primary_key
        /\ has_unique_key' = has_unique_key /\ met_unique_index' = met_unique_index
    BY <1>2, <1>3, <1>6 DEF DefineColumn
  <2>2. uq_fields' = uq_fields
    BY <1>2, <2>1, EmptyAdded
  <2>3. k \in Key /\ k.kind = "primary" /\ k.cols = cols
    BY <1>3, <1>4, <1>6 DEF Key
  <2> QED BY <1>4, <2>1, <2>2, <2>3, PrimaryAdded
<1>7. CASE d.key = "unique"
  <2>1. /\ keys' = keys \o <<k>> /\ pk_fields' = pk_fields \o << >>
        /\ uq_fields' = uq_fields \o (IF met_unique_index THEN << >> ELSE cols)
        /\ has_primary_key' = has_primary_key /\ has_unique_key' = TRUE
        /\ met_unique_index' = met_unique_index
    BY <1>2, <1>3, <1>7 DEF DefineColumn
  <2>2. pk_fields' = pk_fields
    BY <1>2, <2>1, EmptyAdded
  <2>3. k \in Key /\ k.kind = "unique" /\ k.cols = cols
    BY <1>3, <1>4, <1>7 DEF Key
  <2>4. k.inline
    BY <1>3
  <2> QED BY <1>2, <1>4, <2>1, <2>2, <2>3, <2>4, UniqueAdded
<1> QED BY <1>1, <1>5, <1>6, <1>7

\* The columns of a key are one or two columns.
LEMMA KeyListFacts ==
    ASSUME NEW cols \in KeyLists
    PROVE  cols \in Seq(Names)
<1>1. CASE cols \in {<<n>> : n \in Names}
  <2>1. PICK n \in Names : cols = <<n>>
    BY <1>1
  <2> QED BY <2>1
<1>2. CASE cols \in {<<m, n>> : m \in Names, n \in Names}
  <2>1. PICK m \in Names, n \in Names : cols = <<m, n>>
    BY <1>2
  <2> QED BY <2>1
<1> QED BY <1>1, <1>2 DEF KeyLists

LEMMA KeyKeepsIInv ==
    ASSUME IInv, NEW cols \in KeyLists, IsInjective(cols),
           DefinePrimary(cols) \/ DefineUnique(cols)
    PROVE  IInv'
<1>1. phase = "columns" /\ UNCHANGED <<phase, all_fields, fields, columns>>
  BY DEF DefinePrimary, DefineUnique
<1>2. ColumnsInv'
  BY <1>1 DEF IInv, ColumnsInv, Distinct
<1>3. LayoutInv'
  BY <1>1 DEF LayoutInv
<1>4. cols \in Seq(Names) /\ KeysInv
  BY KeyListFacts DEF IInv
<1>5. ASSUME DefinePrimary(cols) PROVE KeysInv'
  <2>1. PICK k : k = [kind |-> "primary", cols |-> cols, inline |-> FALSE]
    OBVIOUS
  <2>2. /\ keys' = Append(keys, k) /\ ~ has_primary_key /\ has_primary_key' = TRUE
        /\ pk_fields' = pk_fields \o cols
        /\ UNCHANGED <<has_unique_key, met_unique_index, uq_fields>>
    BY <1>5, <2>1 DEF DefinePrimary
  <2>3. k \in Key /\ k.kind = "primary" /\ k.cols = cols
    BY <1>4, <2>1 DEF Key
  <2> QED BY <1>4, <2>2, <2>3, PrimaryAdded
<1>6. ASSUME DefineUnique(cols) PROVE KeysInv'
  <2>1. PICK k : k = [kind |-> "unique", cols |-> cols, inline |-> FALSE]
    OBVIOUS
  <2>2. /\ keys' = Append(keys, k) /\ has_unique_key' = TRUE
        /\ uq_fields' = uq_fields \o (IF met_unique_index THEN << >> ELSE cols)
        /\ met_unique_index' = TRUE
        /\ UNCHANGED <<has_primary_key, pk_fields>>
    BY <1>6, <2>1 DEF DefineUnique, Collected
  <2>3. k \in Key /\ k.kind = "unique" /\ k.cols = cols
    BY <1>4, <2>1 DEF Key
  <2> QED BY <1>4, <2>2, <2>3, UniqueAdded
<1> QED BY <1>2, <1>3, <1>5, <1>6 DEF IInv

LEMMA EndKeepsIInv ==
    ASSUME IInv, NEW charset \in Charsets, EndTable(charset)
    PROVE  IInv'
<1>1. /\ phase = "columns" /\ phase' = "done"
      /\ \A i \in DOMAIN keys : ToSet(keys[i].cols) \subseteq NamesOf(all_fields)
      /\ all_fields' = [i \in DOMAIN all_fields |-> Adjusted(all_fields[i], charset)]
      /\ UNCHANGED <<pk_fields, uq_fields, has_primary_key, has_unique_key,
                     met_unique_index, columns, keys>>
  BY DEF EndTable
<1>2. PICK adjusted : adjusted = [i \in DOMAIN all_fields |-> Adjusted(all_fields[i], charset)]
  OBVIOUS
<1>3. fields' = LaidFirst(adjusted) \o Rest(adjusted, LaidFirst(adjusted))
  BY <1>2 DEF EndTable, LaidFirst, KeyOf, HasKey
<1>4. KeysInv'
  BY <1>1 DEF IInv, KeysInv, KeyTypes, PrimaryInv, UniqueInv, InlineUnique, FirstUnique
<1>5. PICK X, n : all_fields \in Seq(X) /\ n = Len(columns)
  BY DEF IInv, ColumnsInv
<1>6. /\ n \in Nat /\ Len(all_fields) = n /\ DOMAIN all_fields = 1 .. n
      /\ \A i \in 1 .. n : all_fields[i].name = columns[i].name
      /\ \A i \in 1 .. n : Adjusted(all_fields[i], charset).name = columns[i].name
  BY <1>1, <1>5 DEF IInv, ColumnsInv
<1>7. PICK Y : Y = {Adjusted(all_fields[i], charset) : i \in 1 .. n}
  OBVIOUS
<1>8. adjusted \in [1 .. n -> Y] /\ \A i \in 1 .. n : adjusted[i].name = columns[i].name
  BY <1>2, <1>6, <1>7
<1>9. adjusted \in Seq(Y) /\ Len(adjusted) = n
  BY <1>6, <1>8, FunctionIsSequence
<1>10. ColumnsInv'
  BY <1>1, <1>2, <1>5, <1>8, <1>9 DEF IInv, ColumnsInv, Distinct
<1>11. NamesOf(adjusted) = NamesOf(all_fields)
  <2>1. DOMAIN adjusted = 1 .. n
    BY <1>8
  <2> QED BY <1>6, <1>8, <2>1 DEF NamesOf
<1>12. all_fields' = adjusted
  BY <1>1, <1>2
<1>13. LaidFirst(all_fields)' = LaidFirst(adjusted)
  BY <1>1, <1>12 DEF LaidFirst, KeyOf, HasKey, KeyNames
<1>14. \A i \in 1 .. Len(keys') : ToSet(keys'[i].cols) \subseteq NamesOf(all_fields')
  <2>1. DOMAIN keys = 1 .. Len(keys)
    BY DEF IInv, KeysInv, KeyTypes
  <2> QED BY <1>1, <1>11, <1>12, <2>1
<1>15. LayoutInv'
  BY <1>3, <1>12, <1>13, <1>14 DEF LayoutInv
<1> QED BY <1>4, <1>10, <1>15 DEF IInv

LEMMA StepIInv == IInv /\ [Next]_vars => IInv'
<1> SUFFICES ASSUME IInv, [Next]_vars PROVE IInv'
  OBVIOUS
<1>1. ASSUME NEW name \in Names, NEW d \in ColumnTypes, DefineColumn(name, d) PROVE IInv'
  <2>1. ColumnsInv' /\ KeysInv'
    BY <1>1, ColumnAdded, ColumnKeepsKeys DEF IInv
  <2>2. phase' = "columns"
    BY <1>1 DEF DefineColumn
  <2> QED BY <2>1, <2>2 DEF IInv, LayoutInv
<1>2. CASE UNCHANGED vars
  BY <1>2
  DEF vars, IInv, ColumnsInv, Distinct, KeysInv, KeyTypes, PrimaryInv, UniqueInv,
      InlineUnique, FirstUnique, LayoutInv, LaidFirst, KeyOf, HasKey, KeyNames
<1> QED BY <1>1, <1>2, KeyKeepsIInv, EndKeepsIInv DEF Next, Done
-----------------------------------------------------------------------------
(***************************************************************************)
(* The fields at the end of the statement                                  *)
(***************************************************************************)
\* A table whose UNIQUE clauses, if any, play no part.
Regular == has_primary_key \/ ~ InlineUnique

LaidNames == IF HasKey THEN KeyNames ELSE << >>
Others == IF HasKey THEN <<System("DB_TRX_ID", 6), System("DB_ROLL_PTR", 7)>>
          ELSE <<System("DB_ROW_ID", 6), System("DB_TRX_ID", 6), System("DB_ROLL_PTR", 7)>>

\* The key that is laid out is one of the keys of the statement.
LEMMA KeyNamesFacts ==
    ASSUME IInv, HasKey, Regular
    PROVE  \E i \in 1 .. Len(keys) :
              /\ KeyNames = keys[i].cols
              /\ IF has_primary_key THEN keys[i].kind = "primary" ELSE FirstUnique(i)
<1>1. CASE has_primary_key
  <2>1. PICK i \in 1 .. Len(keys) : keys[i].kind = "primary" /\ pk_fields = keys[i].cols
    BY <1>1 DEF IInv, KeysInv, PrimaryInv
  <2> QED BY <1>1, <2>1 DEF KeyNames
<1>2. CASE ~ has_primary_key
  <2>1. has_unique_key /\ ~ InlineUnique
    BY <1>2 DEF HasKey, Regular
  <2>2. PICK i \in 1 .. Len(keys) : FirstUnique(i) /\ uq_fields = keys[i].cols
    BY <2>1 DEF IInv, KeysInv, UniqueInv
  <2> QED BY <1>2, <2>2 DEF KeyNames
<1> QED BY <1>1, <1>2

LEMMA OthersFacts ==
    ASSUME NEW X, {System("DB_ROW_ID", 6), System("DB_TRX_ID", 6), System("DB_ROLL_PTR", 7)}
                     \subseteq X
    PROVE  /\ Others \in Seq(X) /\ Distinct(Others)
           /\ \A i \in 1 .. Len(Others) : Others[i].name \notin Names
           /\ Len(Others) = IF HasKey THEN 2 ELSE 3
           /\ NameList(Others) = IF HasKey THEN <<"DB_TRX_ID", "DB_ROLL_PTR">>
                                 ELSE <<"DB_ROW_ID", "DB_TRX_ID", "DB_ROLL_PTR">>
<1>1. PICK r, t, p : /\ r = System("DB_ROW_ID", 6) /\ t = System("DB_TRX_ID", 6)
                     /\ p = System("DB_ROLL_PTR", 7)
  OBVIOUS
<1>2. /\ r.name = "DB_ROW_ID" /\ t.name = "DB_TRX_ID" /\ p.name = "DB_ROLL_PTR"
      /\ r \in X /\ t \in X /\ p \in X
  BY <1>1 DEF System
<1>3. /\ "DB_ROW_ID" \notin Names /\ "DB_TRX_ID" \notin Names /\ "DB_ROLL_PTR" \notin Names
  BY TableAssumption
<1>4. CASE HasKey
  <2>1. Others = <<t, p>>
    BY <1>1, <1>4 DEF Others
  <2>2. Others \in Seq(X) /\ Len(Others) = 2
    BY <1>2, <2>1
  <2>3. \A i \in 1 .. 2 : Others[i].name \notin Names
    BY <1>2, <1>3, <2>1
  <2>4. Distinct(Others)
    BY <1>2, <2>1 DEF Distinct
  <2>5. NameList(Others) = <<"DB_TRX_ID", "DB_ROLL_PTR">>
    BY <1>2, <2>1 DEF NameList
  <2> QED BY <1>4, <2>2, <2>3, <2>4, <2>5
<1>5. CASE ~ HasKey
  <2>1. Others = <<r, t, p>>
    BY <1>1, <1>5 DEF Others
  <2>2. Others \in Seq(X) /\ Len(Others) = 3
    BY <1>2, <2>1
  <2>3. \A i \in 1 .. 3 : Others[i].name \notin Names
    BY <1>2, <1>3, <2>1
  <2>4. Distinct(Others)
    BY <1>2, <2>1 DEF Distinct
  <2>5. NameList(Others) = <<"DB_ROW_ID", "DB_TRX_ID", "DB_ROLL_PTR">>
    BY <1>2, <2>1 DEF NameList
  <2> QED BY <1>5, <2>2, <2>3, <2>4, <2>5
<1> QED BY <1>4, <1>5

LEMMA DoneIsLaid ==
    ASSUME IInv, phase = "done", Regular
    PROVE  \E X : /\ IsLaid(X, all_fields, LaidFirst(all_fields), LaidNames, Others)
                  /\ fields = LaidFirst(all_fields) \o Rest(all_fields, LaidFirst(all_fields))
                  /\ Len(Others) = IF HasKey THEN 2 ELSE 3
                  /\ NameList(Others) = IF HasKey THEN <<"DB_TRX_ID", "DB_ROLL_PTR">>
                                        ELSE <<"DB_ROW_ID", "DB_TRX_ID", "DB_ROLL_PTR">>
<1>1. PICK Y, s : all_fields \in Seq(Y) /\ s = all_fields
  BY DEF IInv, ColumnsInv
<1>2. PICK r, t, p : /\ r = System("DB_ROW_ID", 6) /\ t = System("DB_TRX_ID", 6)
                     /\ p = System("DB_ROLL_PTR", 7)
  OBVIOUS
<1>3. PICK X : X = Y \cup {r, t, p}
  OBVIOUS
<1>4. s \in Seq(X)
  BY <1>1, <1>3
<1>5. /\ Others \in Seq(X) /\ Distinct(Others)
      /\ \A i \in 1 .. Len(Others) : Others[i].name \notin Names
      /\ Len(Others) = IF HasKey THEN 2 ELSE 3
      /\ NameList(Others) = IF HasKey THEN <<"DB_TRX_ID", "DB_ROLL_PTR">>
                            ELSE <<"DB_ROW_ID", "DB_TRX_ID", "DB_ROLL_PTR">>
  BY <1>2, <1>3, OthersFacts
<1>6. /\ Len(s) \in Nat /\ Len(s) = Len(columns) /\ Distinct(columns) /\ DOMAIN s = 1 .. Len(s)
      /\ columns \in Seq([name : Names, decl : ColumnTypes])
      /\ \A i \in 1 .. Len(s) : s[i].name = columns[i].name
  BY <1>1 DEF IInv, ColumnsInv
<1>7. Distinct(s) /\ \A k \in 1 .. Len(s) : s[k].name \in Names
  <2>1. ASSUME NEW k \in 1 .. Len(s) PROVE columns[k].name \in Names
    <3>1. PICK C : C = [name : Names, decl : ColumnTypes]
      OBVIOUS
    <3>2. columns \in Seq(C) /\ k \in 1 .. Len(columns)
      BY <1>6, <3>1
    <3>3. columns[k] \in C
      BY <3>2
    <3> QED BY <3>1, <3>3
  <2> QED BY <1>6, <2>1 DEF Distinct
<1>8. PICK key : key = [i \in DOMAIN LaidNames |-> Find(s, LaidNames[i])]
  OBVIOUS
<1>9. PICK laid : laid = key \o Others
  OBVIOUS
<1>10. /\ LaidNames \in Seq(Names) /\ IsInjective(LaidNames)
       /\ \A i \in 1 .. Len(LaidNames) : \E k \in 1 .. Len(s) : s[k].name = LaidNames[i]
  <2>1. CASE HasKey
    <3>1. PICK i \in 1 .. Len(keys) : LaidNames = keys[i].cols
      BY <2>1, KeyNamesFacts DEF LaidNames
    <3>2. keys[i] \in Key /\ IsInjective(keys[i].cols)
      BY DEF IInv, KeysInv, KeyTypes
    <3>3. LaidNames \in Seq(Names) /\ IsInjective(LaidNames)
      BY <3>1, <3>2 DEF Key
    <3>4. ToSet(LaidNames) \subseteq NamesOf(s)
      BY <1>1, <3>1 DEF IInv, LayoutInv
    <3>5. \A j \in 1 .. Len(LaidNames) : LaidNames[j] \in NamesOf(s)
      BY <3>3, <3>4 DEF ToSet
    <3> QED BY <1>6, <3>3, <3>5 DEF NamesOf
  <2>2. CASE ~ HasKey
    <3>1. LaidNames = << >>
      BY <2>2 DEF LaidNames
    <3>2. << >> \in Seq(Names) /\ Len(<< >>) = 0 /\ 1 .. 0 = {}
      OBVIOUS
    <3> QED BY <3>1, <3>2 DEF IsInjective
  <2> QED BY <2>1, <2>2
<1>11. IsLaid(X, s, laid, LaidNames, Others)
  BY <1>4, <1>5, <1>7, <1>8, <1>9, <1>10, KeyIsLaid
<1>12. laid = LaidFirst(s)
  <2>1. CASE HasKey
    BY <1>2, <1>8, <1>9, <2>1 DEF LaidFirst, KeyOf, LaidNames, Others
  <2>2. CASE ~ HasKey
    <3>1. LaidNames = << >> /\ Others = <<r, t, p>>
      BY <1>2, <2>2 DEF LaidNames, Others
    <3>2. key = << >>
      BY <1>8, <3>1
    <3>3. laid = <<r, t, p>>
      <4>1. <<r, t, p>> \in Seq(X)
        BY <1>5, <3>1
      <4> QED BY <1>9, <3>1, <3>2, <4>1, EmptyAdded
    <3>4. LaidFirst(s) = <<r>> \o <<t, p>>
      BY <1>2, <2>2 DEF LaidFirst, KeyOf
    <3>5. <<r>> \o <<t, p>> = <<r, t, p>>
      BY ThreeConcat
    <3> QED BY <3>3, <3>4, <3>5
  <2> QED BY <2>1, <2>2
<1>13. fields = LaidFirst(s) \o Rest(s, LaidFirst(s))
  BY <1>1 DEF IInv, LayoutInv
<1> QED BY <1>1, <1>5, <1>11, <1>12, <1>13

LEMMA IInvEveryColumnOnce == IInv => EveryColumnOnce
<1> SUFFICES ASSUME IInv, phase = "done", has_primary_key \/ ~ InlineUnique
             PROVE  /\ \A i \in DOMAIN all_fields :
                          Cardinality({j \in DOMAIN fields : fields[j] = all_fields[i]}) = 1
                    /\ Len(fields) = Len(all_fields)
                                     + (IF has_primary_key \/ has_unique_key THEN 2 ELSE 3)
  BY DEF EveryColumnOnce
<1>1. PICK s, laid : s = all_fields /\ laid = LaidFirst(all_fields)
  OBVIOUS
<1>2. PICK X : /\ IsLaid(X, s, laid, LaidNames, Others)
               /\ fields = laid \o Rest(s, laid)
               /\ Len(Others) = IF HasKey THEN 2 ELSE 3
  <2>1. Regular
    BY DEF Regular
  <2> QED BY <1>1, <2>1, DoneIsLaid
<1>3. s \in Seq(X) /\ laid \in Seq(X) /\ Distinct(s) /\ LaidOf(X, s, laid)
  BY <1>2 DEF IsLaid, LaidOf
<1>4. ASSUME NEW i \in DOMAIN s
      PROVE  Cardinality({j \in DOMAIN fields : fields[j] = s[i]}) = 1
  <2>1. Cardinality(Copies(fields, s[i])) = 1
    BY <1>2, <1>3, LaidOnce
  <2> QED BY <2>1 DEF Copies
<1>5. PICK R : R = NotLaid(s, laid)
  OBVIOUS
<1>6. Cardinality(R) = Len(s) - Len(LaidNames)
  <2>1. /\ LaidNames \in Seq(Names) /\ IsInjective(LaidNames)
        /\ \A i \in 1 .. Len(LaidNames) : \E k \in 1 .. Len(s) : s[k].name = LaidNames[i]
        /\ \A k \in 1 .. Len(s) : s[k].name \in NamesOf(laid)
              <=> \E i \in 1 .. Len(LaidNames) : LaidNames[i] = s[k].name
    BY <1>2 DEF IsLaid
  <2> QED BY <1>3, <1>5, <2>1, RestLength
<1>7. /\ Rest(s, laid) \in Seq(X) /\ Len(Rest(s, laid)) = Cardinality(R)
      /\ Cardinality(R) \in Nat
  BY <1>3, <1>5, RestFacts
<1>8. Len(laid) = Len(LaidNames) + Len(Others) /\ LaidNames \in Seq(Names)
  BY <1>2 DEF IsLaid
<1>9. Len(fields) = Len(s) + Len(Others)
  <2>1. Len(fields) = Len(laid) + Len(Rest(s, laid))
    <3>1. PICK u, f : u = Rest(s, laid) /\ f = fields
      OBVIOUS
    <3>2. laid \in Seq(X) /\ u \in Seq(X) /\ f = laid \o u
      BY <1>2, <1>3, <1>7, <3>1
    <3>3. Len(f) = Len(laid) + Len(u)
      BY ONLY <3>2, ConcatFacts
    <3> QED BY <3>1, <3>3
  <2>2. Len(LaidNames) \in Nat /\ Len(s) \in Nat /\ Len(Others) \in Nat
    BY <1>2, <1>3, <1>8
  <2> QED BY <1>6, <1>7, <1>8, <2>1, <2>2
<1>10. Len(fields) = Len(all_fields) + (IF has_primary_key \/ has_unique_key THEN 2 ELSE 3)
  BY <1>1, <1>2, <1>9 DEF HasKey
<1> QED BY <1>1, <1>4, <1>10

(***************************************************************************)
(* Every column of the statement is laid out exactly once, with the sizes  *)
(* it has got, and the system columns besides (sql_parser.y:142-198): for  *)
(* any columns and keys in any order, but for the tables that              *)
(* EveryColumnOnce excepts.                                                *)
(***************************************************************************)
THEOREM TableEveryColumnOnce == Spec => []EveryColumnOnce
<1>1. IInv => EveryColumnOnce
  BY IInvEveryColumnOnce
<1> QED BY <1>1, InitIInv, StepIInv, PTL DEF Spec
-----------------------------------------------------------------------------
(***************************************************************************)
(* The order in which the server stores the columns                        *)
(***************************************************************************)
LEMMA LeastExists ==
    ASSUME NEW S \in SUBSET Nat, S # {}
    PROVE  \E i \in S : \A j \in S : i <= j
<1>1. \A m, n \in Nat : m < n => <<m, n>> \in OpToRel(<, Nat)
  BY DEF OpToRel
<1>2. PICK R : IsWellFoundedOn(R, Nat) /\ \A m, n \in Nat : m < n => <<m, n>> \in R
  BY <1>1, NatLessThanWellFounded
<1>3. IsWellFoundedOn(R, Nat)
  BY <1>2
<1>4. PICK i \in S : \A j \in S : ~ (<<j, i>> \in R)
  BY <1>3, WFMin
<1>5. \A j \in S : ~ (j < i)
  BY <1>2, <1>4
<1> QED BY <1>4, <1>5

LEMMA FirstFacts ==
    ASSUME NEW S \in SUBSET Nat, S # {}
    PROVE  First(S) \in S /\ \A j \in S : First(S) <= j
<1>1. \E i \in S : \A j \in S : i <= j
  BY LeastExists
<1> QED BY <1>1 DEF First

\* The server clusters the table by the key whose columns are laid out.
LEMMA ServerKeyFacts ==
    ASSUME IInv, Regular,
           has_primary_key \/ \A i \in DOMAIN keys : \A n \in ToSet(keys[i].cols) : NotNull(n)
    PROVE  ServerKey = IF HasKey THEN LaidNames ELSE <<"DB_ROW_ID">>
<1>1. PICK P, U : /\ P = {i \in DOMAIN keys : keys[i].kind = "primary"}
                  /\ U = {i \in DOMAIN keys : /\ keys[i].kind = "unique"
                                              /\ \A n \in ToSet(keys[i].cols) : NotNull(n)}
  OBVIOUS
<1>2. ServerKey = IF P # {} THEN keys[First(P)].cols
                  ELSE IF U # {} THEN keys[First(U)].cols
                  ELSE <<"DB_ROW_ID">>
  BY <1>1 DEF ServerKey
<1>3. DOMAIN keys = 1 .. Len(keys) /\ Len(keys) \in Nat
  BY DEF IInv, KeysInv, KeyTypes
<1>4. P \in SUBSET Nat /\ U \in SUBSET Nat
  <2>1. P \subseteq 1 .. Len(keys) /\ U \subseteq 1 .. Len(keys)
    BY <1>1, <1>3
  <2> QED BY <1>3, <2>1
<1>5. CASE has_primary_key
  <2>1. P # {} /\ \A i \in P : keys[i].cols = pk_fields
    BY <1>1, <1>3, <1>5 DEF IInv, KeysInv, PrimaryInv
  <2>2. First(P) \in P
    BY <1>4, <2>1, FirstFacts
  <2> QED BY <1>2, <1>5, <2>1, <2>2 DEF HasKey, LaidNames, KeyNames
<1>6. CASE ~ has_primary_key
  <2>1. P = {}
    BY <1>1, <1>3, <1>6 DEF IInv, KeysInv, PrimaryInv
  <2>2. U = {i \in 1 .. Len(keys) : keys[i].kind = "unique"}
    BY <1>1, <1>3, <1>6
  <2>3. CASE has_unique_key
    <3>1. PICK i \in 1 .. Len(keys) : KeyNames = keys[i].cols /\ FirstUnique(i)
      BY <1>6, <2>3, KeyNamesFacts DEF HasKey
    <3>2. i \in U /\ \A j \in U : i <= j
      BY <2>2, <3>1 DEF FirstUnique
    <3>3. First(U) \in U /\ First(U) <= i
      BY <1>4, <3>2, FirstFacts
    <3>4. First(U) = i
      <4>1. i \in Nat /\ First(U) \in Nat /\ i <= First(U)
        BY <1>4, <3>2, <3>3
      <4> QED BY <3>3, <4>1
    <3> QED BY <1>2, <2>1, <2>3, <3>1, <3>2, <3>4 DEF HasKey, LaidNames
  <2>4. CASE ~ has_unique_key
    <3>1. U = {}
      BY <2>2, <2>4 DEF IInv, KeysInv, UniqueInv
    <3> QED BY <1>2, <1>6, <2>1, <2>4, <3>1 DEF HasKey
  <2> QED BY <2>3, <2>4
<1> QED BY <1>5, <1>6

LEMMA IInvLaidOutAsStored == IInv => LaidOutAsStored
<1> SUFFICES ASSUME IInv, phase = "done",
                    has_primary_key
                    \/ (~ InlineUnique /\ \A i \in DOMAIN keys :
                           \A n \in ToSet(keys[i].cols) : NotNull(n))
             PROVE  NameList(fields) = ServerLayout
  BY DEF LaidOutAsStored, NameList
<1>1. /\ Regular
      /\ has_primary_key \/ \A i \in DOMAIN keys : \A n \in ToSet(keys[i].cols) : NotNull(n)
  BY DEF Regular
<1>2. PICK s, laid : s = all_fields /\ laid = LaidFirst(all_fields)
  OBVIOUS
<1>3. PICK X : /\ IsLaid(X, s, laid, LaidNames, Others)
               /\ fields = laid \o Rest(s, laid)
               /\ NameList(Others) = IF HasKey THEN <<"DB_TRX_ID", "DB_ROLL_PTR">>
                                     ELSE <<"DB_ROW_ID", "DB_TRX_ID", "DB_ROLL_PTR">>
  BY <1>1, <1>2, DoneIsLaid
<1>4. /\ s \in Seq(X) /\ laid \in Seq(X) /\ LaidNames \in Seq(Names)
      /\ NameList(laid) = LaidNames \o NameList(Others)
  BY <1>3 DEF IsLaid, LaidOf
<1>5. PICK key : key = ServerKey \o <<"DB_TRX_ID", "DB_ROLL_PTR">>
  OBVIOUS
<1>6. key = NameList(laid)
  <2>1. ServerKey = IF HasKey THEN LaidNames ELSE <<"DB_ROW_ID">>
    BY <1>1, ServerKeyFacts
  <2>2. CASE HasKey
    BY <1>3, <1>4, <1>5, <2>1, <2>2
  <2>3. CASE ~ HasKey
    <3>1. NameList(laid) = << >> \o <<"DB_ROW_ID", "DB_TRX_ID", "DB_ROLL_PTR">>
      BY <1>3, <1>4, <2>3 DEF LaidNames
    <3>2. ASSUME NEW x, NEW y, NEW z PROVE << >> \o <<x, y, z>> = <<x, y, z>>
      <4>1. <<x, y, z>> \in Seq({x, y, z})
        OBVIOUS
      <4> QED BY <4>1, EmptyAdded
    <3>3. NameList(laid) = <<"DB_ROW_ID", "DB_TRX_ID", "DB_ROLL_PTR">>
      BY <3>1, <3>2
    <3> QED BY <1>5, <2>1, <2>3, <3>3, ThreeConcat
  <2> QED BY <2>2, <2>3
<1>7. PICK names, R, T : /\ names = [i \in DOMAIN columns |-> columns[i].name]
                         /\ R = NotLaid(s, laid)
                         /\ T = {i \in DOMAIN names : names[i] \notin ToSet(key)}
  OBVIOUS
<1>8. ServerLayout = key \o Selected(names, T)
  BY <1>5, <1>7 DEF ServerLayout
<1>9. /\ DOMAIN s = 1 .. Len(s) /\ DOMAIN names = 1 .. Len(s)
      /\ \A i \in 1 .. Len(s) : names[i] = s[i].name
  <2>1. /\ Len(s) = Len(columns) /\ \A i \in 1 .. Len(s) : s[i].name = columns[i].name
        /\ DOMAIN columns = 1 .. Len(columns)
    BY <1>2 DEF IInv, ColumnsInv
  <2> QED BY <1>4, <1>7, <2>1
<1>10. T = R
  <2>1. ToSet(key) = NamesOf(laid)
    BY <1>6 DEF ToSet, NamesOf, NameList
  <2> QED BY <1>7, <1>9, <2>1 DEF NotLaid
<1>11. /\ R \in SUBSET (1 .. Len(s)) /\ Cardinality(R) \in Nat
       /\ Rest(s, laid) \in Seq(X) /\ Len(Rest(s, laid)) = Cardinality(R)
       /\ \A i \in 1 .. Cardinality(R) :
             Rest(s, laid)[i] = s[Ascending(R)[i]] /\ Ascending(R)[i] \in R
  BY <1>4, <1>7, RestFacts
<1>12. NameList(Rest(s, laid)) = Selected(names, R)
  <2>1. PICK c, u : c = Cardinality(R) /\ u = Rest(s, laid)
    OBVIOUS
  <2>2. DOMAIN u = 1 .. c
    BY <1>11, <2>1
  <2>3. ASSUME NEW i \in 1 .. c PROVE u[i].name = names[Ascending(R)[i]]
    <3>1. u[i] = s[Ascending(R)[i]] /\ Ascending(R)[i] \in 1 .. Len(s)
      BY <1>11, <2>1
    <3> QED BY <1>9, <3>1
  <2> QED BY <2>1, <2>2, <2>3 DEF NameList, Selected
<1>13. NameList(fields) = NameList(laid) \o NameList(Rest(s, laid))
  BY <1>3, <1>4, <1>11, NameListConcat
<1> QED BY <1>6, <1>8, <1>10, <1>12, <1>13

(***************************************************************************)
(* The fields come in the order in which the server stores them            *)
(* (sql_parser.y:142-198, 254-266, 335-355), for any columns and keys in   *)
(* any order, but for the tables that LaidOutAsStored excepts.             *)
(***************************************************************************)
THEOREM TableLaidOutAsStored == Spec => []LaidOutAsStored
<1>1. IInv => LaidOutAsStored
  BY IInvLaidOutAsStored
<1> QED BY <1>1, InitIInv, StepIInv, PTL DEF Spec
-----------------------------------------------------------------------------
(***************************************************************************)
(* The length of a DECIMAL                                                 *)
(***************************************************************************)
LEMMA DivisionByNine ==
    ASSUME NEW n \in Nat
    PROVE  \E q \in Nat, r \in 0 .. 8 : n = 9 * q + r /\ q = n \div 9 /\ r = n % 9
OBVIOUS

\* Bytes for the digits on one side of the point: so many as groups of nine take.
LEMMA GroupBytesFacts ==
    ASSUME NEW n \in Nat
    PROVE  CeilDiv(n * 4, 9) = GroupBytes(n)
<1>1. PICK q \in Nat, r \in 0 .. 8 : n = 9 * q + r /\ q = n \div 9 /\ r = n % 9
  BY DivisionByNine
<1>2. CeilDiv(n * 4, 9) = (9 * (4 * q) + (4 * r + 8)) \div 9
  BY <1>1 DEF CeilDiv
<1>3. (9 * (4 * q) + (4 * r + 8)) \div 9 = 4 * q + ((4 * r + 8) \div 9)
  BY <1>1
<1>4. GroupBytes(n) = q * 4 + (IF r = 0 THEN 0 ELSE dig2bytes[r])
  BY <1>1 DEF GroupBytes
<1>5. (4 * r + 8) \div 9 = IF r = 0 THEN 0 ELSE dig2bytes[r]
  <2>1. r \in {0, 1, 2, 3, 4, 5, 6, 7, 8}
    BY <1>1
  <2> QED BY <2>1 DEF dig2bytes
<1>6. PICK b : b = IF r = 0 THEN 0 ELSE dig2bytes[r]
  OBVIOUS
<1>7. CeilDiv(n * 4, 9) = 4 * q + b /\ GroupBytes(n) = q * 4 + b
  BY <1>2, <1>3, <1>4, <1>5, <1>6
<1>8. 4 * q = q * 4
  BY <1>1
<1> QED BY <1>7, <1>8

(***************************************************************************)
(* The length that a DECIMAL is given is the number of bytes that          *)
(* bin2decimal reads (sql_parser.y:461-468, include/decimal.c:1322-1335):  *)
(* so for digits without bound, not only for those the server allows.      *)
(***************************************************************************)
THEOREM TableDecimalLengthsAgree == Spec => []DecimalLengthsAgree
<1>1. DecimalLengthsAgree
  <2> SUFFICES ASSUME NEW precision \in 1 .. 65, NEW scale \in 0 .. 30, scale <= precision
               PROVE  DecimalBytes(precision, scale) = decimal_bin_size(precision, scale)
    BY DEF DecimalLengthsAgree
  <2>1. precision - scale \in Nat /\ scale \in Nat
    OBVIOUS
  <2> QED BY <2>1, GroupBytesFacts DEF DecimalBytes, decimal_bin_size
<1> QED BY <1>1, PTL
=============================================================================
