--------------------------- MODULE RecoveryProofs ----------------------------
(***************************************************************************)
(* Proofs about Recovery, for any dictionary on disk, any number of        *)
(* failures and repetitions and any number of pages that workers without a *)
(* parent save.  What has to be shown is that no scan appends to the pages *)
(* of another one: a directory that exists keeps a scan from starting, and *)
(* without it there are no pages.  What the workers of killed parents add  *)
(* does not disturb the pages of the scan among which it lies.             *)
(***************************************************************************)
EXTENDS Recovery, WellFoundedInduction, TLAPS

(***************************************************************************)
(* What functions defined by recursion compute.  A set of natural numbers  *)
(* with 0 in it and n + 1 for every n holds them all; this is induction,   *)
(* with a set for the predicate.                                           *)
(***************************************************************************)
LEMMA NatSetInduction ==
    ASSUME NEW S, 0 \in S, \A n \in Nat : n \in S => n + 1 \in S
    PROVE  Nat \subseteq S
<1> SUFFICES ASSUME Nat \ S # {} PROVE FALSE
  OBVIOUS
<1>1. \A m, n \in Nat : m < n => <<m, n>> \in OpToRel(<, Nat)
  BY DEF OpToRel
<1>2. PICK R : IsWellFoundedOn(R, Nat) /\ \A m, n \in Nat : m < n => <<m, n>> \in R
  BY <1>1, NatLessThanWellFounded
<1>3. IsWellFoundedOn(R, Nat)
  BY <1>2
<1>4. PICK m \in Nat \ S : \A n \in Nat \ S : ~ (<<n, m>> \in R)
  BY <1>3, WFMin
<1>5. m # 0 /\ m - 1 \in Nat /\ m = (m - 1) + 1 /\ m - 1 < m
  BY <1>4
<1>6. m - 1 \in S
  BY <1>2, <1>4, <1>5
<1> QED BY <1>4, <1>5, <1>6

\* f begins with a and goes on as h says, one function for each step.
IsSteps(h, X, last) == last \in Nat /\ h \in [1 .. last -> [X -> X]]
IsIteration(f, X, a, h, last) ==
    /\ f \in [0 .. last -> X]
    /\ f[0] = a /\ \A n \in 1 .. last : f[n] = h[n][f[n - 1]]

\* A function that is defined by recursion over 0 .. last exists.
LEMMA RecursionExists ==
    ASSUME NEW X, NEW a, a \in X, NEW last, NEW h, IsSteps(h, X, last)
    PROVE  \E f : IsIteration(f, X, a, h, last)
<1> USE DEF IsSteps
<1> DEFINE Upto(m, f) == f[0] = a /\ \A n \in 1 .. m : f[n] = h[n][f[n - 1]]
           S == {m \in Nat : m <= last => \E f \in [0 .. m -> X] : Upto(m, f)}
<1>1. 0 \in S
  <2>1. [n \in 0 .. 0 |-> a] \in [0 .. 0 -> X] /\ Upto(0, [n \in 0 .. 0 |-> a])
    OBVIOUS
  <2> QED BY <2>1
<1>2. ASSUME NEW m \in Nat, m \in S
      PROVE  m + 1 \in S
  <2> SUFFICES ASSUME m + 1 <= last
               PROVE  \E f \in [0 .. m + 1 -> X] : Upto(m + 1, f)
    OBVIOUS
  <2>1. PICK f \in [0 .. m -> X] : Upto(m, f)
    BY <1>2
  <2>2. f[m] \in X /\ m + 1 \in 1 .. last
    OBVIOUS
  <2>3. h[m + 1][f[m]] \in X
    BY <2>2
  <2> DEFINE g == [n \in 0 .. m + 1 |-> IF n = m + 1 THEN h[m + 1][f[m]] ELSE f[n]]
  <2>4. g \in [0 .. m + 1 -> X]
    BY <2>3
  <2>5. g[0] = a /\ \A n \in 1 .. m + 1 : g[n] = h[n][g[n - 1]]
    <3>1. g[0] = a
      BY <2>1
    <3>2. ASSUME NEW n \in 1 .. m + 1 PROVE g[n] = h[n][g[n - 1]]
      <4>1. CASE n = m + 1
        <5>1. n \in Nat /\ n - 1 \in 0 .. m /\ g[n - 1] = f[m]
          BY <4>1
        <5> QED BY <4>1, <5>1
      <4>2. CASE n # m + 1
        <5>1. n \in 1 .. m /\ g[n] = f[n] /\ g[n - 1] = f[n - 1]
          BY <4>2
        <5> QED BY <2>1, <5>1
      <4> QED BY <4>1, <4>2
    <3> QED BY <3>1, <3>2
  <2> QED BY <2>4, <2>5
<1>3. last \in S
  <2> HIDE DEF S
  <2> QED BY <1>1, <1>2, NatSetInduction
<1> QED BY <1>3 DEF IsIteration

\* The recursion of Loaded.
LEMMA LoadedUnfolds ==
    ASSUME NEW Row, NEW rows \in SUBSET Row, NEW lines \in Seq(Row)
    PROVE  \E load :
              /\ load[0] = rows
              /\ \A n \in 1 .. Len(lines) : load[n] = LoadRow(load[n - 1], lines[n])
              /\ Loaded(rows, lines) = load[Len(lines)]
<1> DEFINE last == Len(lines)
           Is(f) == f = [n \in 0 .. last |->
                            IF n = 0 THEN rows ELSE LoadRow(f[n - 1], lines[n])]
<1>1. PICK X, h : X = SUBSET Row /\ h = [n \in 1 .. last |-> [x \in X |-> LoadRow(x, lines[n])]]
  OBVIOUS
<1>2. h \in [1 .. last -> [X -> X]]
  <2>1. ASSUME NEW x \in X, NEW n \in 1 .. last PROVE LoadRow(x, lines[n]) \in X
    BY <1>1 DEF LoadRow
  <2> QED BY <1>1, <2>1
<1>3. last \in Nat /\ rows \in X
  BY <1>1
<1>4. PICK f \in [0 .. last -> X] :
        f[0] = rows /\ \A n \in 1 .. last : f[n] = h[n][f[n - 1]]
  <2>1. IsSteps(h, X, last)
    BY <1>2, <1>3 DEF IsSteps
  <2>2. PICK f : IsIteration(f, X, rows, h, last)
    BY <1>3, <2>1, RecursionExists
  <2> QED BY <2>2 DEF IsIteration
<1>5. ASSUME NEW n \in 1 .. last PROVE f[n] = LoadRow(f[n - 1], lines[n])
  <2>1. n - 1 \in 0 .. last
    OBVIOUS
  <2>2. f[n - 1] \in X
    BY <1>4, <2>1
  <2> QED BY <1>1, <1>4, <2>2
<1>6. Is(f)
  BY <1>4, <1>5
<1>7. PICK load : Is(load) /\ Loaded(rows, lines) = load[last]
  <2>1. Is(CHOOSE g : Is(g))
    BY <1>6
  <2> QED BY <2>1 DEF Loaded
<1>8. load[0] = rows
  BY <1>7
<1>9. \A n \in 1 .. last : load[n] = LoadRow(load[n - 1], lines[n])
  BY <1>7
<1> QED BY <1>7, <1>8, <1>9

\* That of Selected.
LEMMA SelectedUnfolds ==
    ASSUME NEW Row, NEW rows \in Seq(Row), NEW S
    PROVE  \E sel :
              /\ sel[0] = << >>
              /\ \A n \in 1 .. Len(rows) :
                    sel[n] = (IF n \in S THEN Append(sel[n - 1], rows[n]) ELSE sel[n - 1])
              /\ Selected(rows, S) = sel[Len(rows)]
<1> DEFINE last == Len(rows)
           Is(f) == f = [n \in 0 .. last |->
                            IF n = 0 THEN << >>
                            ELSE IF n \in S THEN Append(f[n - 1], rows[n]) ELSE f[n - 1]]
<1>1. PICK X, h : /\ X = Seq(Row)
                  /\ h = [n \in 1 .. last |->
                            [x \in X |-> IF n \in S THEN Append(x, rows[n]) ELSE x]]
  OBVIOUS
<1>2. h \in [1 .. last -> [X -> X]]
  <2>1. ASSUME NEW x \in X, NEW n \in 1 .. last
        PROVE  (IF n \in S THEN Append(x, rows[n]) ELSE x) \in X
    <3>1. rows[n] \in Row
      OBVIOUS
    <3> QED BY <1>1, <3>1
  <2> QED BY <1>1, <2>1
<1>3. last \in Nat /\ << >> \in X
  <2>1. << >> \in Seq(Row)
    OBVIOUS
  <2> QED BY <1>1, <2>1
<1>4. PICK f \in [0 .. last -> X] :
        f[0] = << >> /\ \A n \in 1 .. last : f[n] = h[n][f[n - 1]]
  <2>1. IsSteps(h, X, last)
    BY <1>2, <1>3 DEF IsSteps
  <2>2. PICK f : IsIteration(f, X, << >>, h, last)
    BY <1>3, <2>1, RecursionExists
  <2> QED BY <2>2 DEF IsIteration
<1>5. ASSUME NEW n \in 1 .. last
      PROVE  f[n] = (IF n \in S THEN Append(f[n - 1], rows[n]) ELSE f[n - 1])
  <2>1. n - 1 \in 0 .. last
    OBVIOUS
  <2>2. f[n - 1] \in X
    BY <1>4, <2>1
  <2> QED BY <1>1, <1>4, <2>2
<1>6. Is(f)
  <2>1. ASSUME NEW n \in 0 .. last
        PROVE  f[n] = (IF n = 0 THEN << >>
                       ELSE IF n \in S THEN Append(f[n - 1], rows[n]) ELSE f[n - 1])
    <3>1. CASE n = 0
      BY <1>4, <3>1
    <3>2. CASE n # 0
      <4>1. n \in 1 .. last
        BY <3>2
      <4> QED BY <1>5, <3>2, <4>1
    <3> QED BY <3>1, <3>2
  <2>2. f \in [0 .. last -> X]
    BY <1>4
  <2> QED BY <2>1, <2>2
<1>7. PICK sel : Is(sel) /\ Selected(rows, S) = sel[last]
  <2>1. Is(CHOOSE g : Is(g))
    BY <1>6
  <2> QED BY <2>1 DEF Selected
<1>8. sel[0] = << >>
  BY <1>7
<1>9. \A n \in 1 .. last :
        sel[n] = (IF n \in S THEN Append(sel[n - 1], rows[n]) ELSE sel[n - 1])
  <2> SUFFICES ASSUME NEW n \in 1 .. last
               PROVE  sel[n] = (IF n \in S THEN Append(sel[n - 1], rows[n]) ELSE sel[n - 1])
    OBVIOUS
  <2>1. n \in 0 .. last /\ n # 0
    OBVIOUS
  <2> QED BY <1>7, <2>1
<1> QED BY <1>7, <1>8, <1>9
\* No line of the first n has the key of the j-th and comes behind it.
Final(lines, j, n) == \A i \in j + 1 .. n : lines[i].key # lines[j].key

\* Loading the lines into an empty table leaves the last one of each key.
LEMMA LoadedFacts ==
    ASSUME NEW Row, NEW lines \in Seq(Row)
    PROVE  /\ \A r : r \in Loaded({}, lines) <=>
                       \E k \in 1 .. Len(lines) : r = lines[k] /\ Final(lines, k, Len(lines))
           /\ \A k \in 1 .. Len(lines) : \E r \in Loaded({}, lines) : r.key = lines[k].key
<1>1. PICK load :
        /\ load[0] = {}
        /\ \A n \in 1 .. Len(lines) : load[n] = LoadRow(load[n - 1], lines[n])
        /\ Loaded({}, lines) = load[Len(lines)]
  <2>1. {} \in SUBSET Row
    OBVIOUS
  <2> QED BY <2>1, LoadedUnfolds
<1> DEFINE Holds(n) ==
             /\ \A r : r \in load[n] <=> \E k \in 1 .. n : r = lines[k] /\ Final(lines, k, n)
             /\ \A k \in 1 .. n : \E r \in load[n] : r.key = lines[k].key
           S == {n \in Nat : n <= Len(lines) => Holds(n)}
<1>2. 0 \in S
  BY <1>1
<1>3. ASSUME NEW n \in Nat, n \in S, n + 1 <= Len(lines)
      PROVE  Holds(n + 1)
  <2>1. Holds(n)
    BY <1>3
  <2>2. n + 1 \in 1 .. Len(lines) /\ (n + 1) - 1 = n
    BY <1>3
  <2>3. load[n + 1] = {r \in load[n] : r.key # lines[n + 1].key} \cup {lines[n + 1]}
    BY <1>1, <2>2 DEF LoadRow
  <2>4. ASSUME NEW k \in 1 .. n
        PROVE  Final(lines, k, n + 1) <=>
                  Final(lines, k, n) /\ lines[n + 1].key # lines[k].key
    <3>1. k + 1 .. n + 1 = (k + 1 .. n) \cup {n + 1}
      OBVIOUS
    <3> QED BY <3>1 DEF Final
  <2>5. Final(lines, n + 1, n + 1)
    <3>1. (n + 1) + 1 .. n + 1 = {}
      OBVIOUS
    <3> QED BY <3>1 DEF Final
  <2>6. ASSUME NEW r
        PROVE  r \in load[n + 1] <=>
                  \E k \in 1 .. n + 1 : r = lines[k] /\ Final(lines, k, n + 1)
    <3>1. ASSUME r \in load[n + 1]
          PROVE  \E k \in 1 .. n + 1 : r = lines[k] /\ Final(lines, k, n + 1)
      <4>1. CASE r = lines[n + 1]
        <5>1. n + 1 \in 1 .. n + 1
          OBVIOUS
        <5> QED BY <2>5, <4>1, <5>1
      <4>2. CASE r \in load[n] /\ r.key # lines[n + 1].key
        <5>1. PICK k \in 1 .. n : r = lines[k] /\ Final(lines, k, n)
          BY <2>1, <4>2
        <5>2. k \in 1 .. n + 1
          OBVIOUS
        <5> QED BY <2>4, <4>2, <5>1, <5>2
      <4> QED BY <2>3, <3>1, <4>1, <4>2
    <3>2. ASSUME NEW k \in 1 .. n + 1, r = lines[k], Final(lines, k, n + 1)
          PROVE  r \in load[n + 1]
      <4>1. CASE k = n + 1
        BY <2>3, <3>2, <4>1
      <4>2. CASE k # n + 1
        <5>1. k \in 1 .. n
          BY <4>2
        <5>2. Final(lines, k, n) /\ lines[n + 1].key # lines[k].key
          BY <2>4, <3>2, <5>1
        <5>3. r \in load[n]
          BY <2>1, <3>2, <5>1, <5>2
        <5> QED BY <2>3, <3>2, <5>2, <5>3
      <4> QED BY <4>1, <4>2
    <3> QED BY <3>1, <3>2
  <2>7. ASSUME NEW k \in 1 .. n + 1
        PROVE  \E r \in load[n + 1] : r.key = lines[k].key
    <3>1. CASE lines[k].key = lines[n + 1].key
      BY <2>3, <3>1
    <3>2. CASE lines[k].key # lines[n + 1].key
      <4>1. k \in 1 .. n
        BY <3>2
      <4>2. PICK r \in load[n] : r.key = lines[k].key
        BY <2>1, <4>1
      <4> QED BY <2>3, <3>2, <4>2
    <3> QED BY <3>1, <3>2
  <2> QED BY <2>6, <2>7
<1>4. ASSUME NEW n \in Nat, n \in S
      PROVE  n + 1 \in S
  <2>1. n + 1 <= Len(lines) => Holds(n + 1)
    BY <1>3, <1>4
  <2> HIDE DEF Holds
  <2> QED BY <2>1
<1>5. Len(lines) \in S
  <2> HIDE DEF S
  <2>1. Len(lines) \in Nat
    OBVIOUS
  <2> QED BY <1>2, <1>4, <2>1, NatSetInduction
<1>6. Holds(Len(lines))
  <2>1. Len(lines) \in Nat
    OBVIOUS
  <2> QED BY <1>5, <2>1
<1> QED BY <1>1, <1>6

\* s has the rows at the first n positions that are in S, in their order; ix
\* says from where.
IsSelection(s, ix, rows, S, n) ==
    /\ ix \in [1 .. Len(s) -> 1 .. n]
    /\ \A i \in 1 .. Len(s) : ix[i] \in S /\ s[i] = rows[ix[i]]
    /\ \A i, j \in 1 .. Len(s) : i < j => ix[i] < ix[j]
    /\ \A k \in 1 .. n : k \in S => \E i \in 1 .. Len(s) : ix[i] = k

LEMMA SelectedFacts ==
    ASSUME NEW Row, NEW rows \in Seq(Row), NEW S
    PROVE  /\ Selected(rows, S) \in Seq(Row)
           /\ \E ix : IsSelection(Selected(rows, S), ix, rows, S, Len(rows))
<1>1. PICK sel :
        /\ sel[0] = << >>
        /\ \A n \in 1 .. Len(rows) :
              sel[n] = (IF n \in S THEN Append(sel[n - 1], rows[n]) ELSE sel[n - 1])
        /\ Selected(rows, S) = sel[Len(rows)]
  BY SelectedUnfolds
<1> DEFINE Holds(n) == sel[n] \in Seq(Row) /\ \E ix : IsSelection(sel[n], ix, rows, S, n)
           T == {n \in Nat : n <= Len(rows) => Holds(n)}
<1>2. 0 \in T
  <2>1. sel[0] \in Seq(Row) /\ Len(sel[0]) = 0
    BY <1>1
  <2>2. PICK ix : ix = [i \in 1 .. 0 |-> 0]
    OBVIOUS
  <2>3. IsSelection(sel[0], ix, rows, S, 0)
    BY <2>1, <2>2 DEF IsSelection
  <2> QED BY <2>1, <2>3
<1>3. ASSUME NEW n \in Nat, n \in T, n + 1 <= Len(rows)
      PROVE  Holds(n + 1)
  <2>1. sel[n] \in Seq(Row) /\ \E ix : IsSelection(sel[n], ix, rows, S, n)
    BY <1>3
  <2>2. PICK ix : IsSelection(sel[n], ix, rows, S, n)
    BY <2>1
  <2>3. n + 1 \in 1 .. Len(rows) /\ (n + 1) - 1 = n /\ rows[n + 1] \in Row
    BY <1>3
  <2>4. CASE n + 1 \notin S
    <3>1. sel[n + 1] = sel[n]
      BY <1>1, <2>3, <2>4
    <3>2. IsSelection(sel[n], ix, rows, S, n + 1)
      <4>1. \A k \in 1 .. n + 1 : k \in S => k \in 1 .. n
        BY <2>4
      <4> QED BY <2>2, <4>1 DEF IsSelection
    <3> QED BY <2>1, <3>1, <3>2
  <2>5. CASE n + 1 \in S
    <3>1. sel[n + 1] = Append(sel[n], rows[n + 1])
      BY <1>1, <2>3, <2>5
    <3>2. PICK s, m : s = sel[n + 1] /\ m = Len(sel[n])
      OBVIOUS
    <3>3. /\ s \in Seq(Row) /\ m \in Nat /\ Len(s) = m + 1
          /\ s[m + 1] = rows[n + 1]
          /\ \A i \in 1 .. m : s[i] = sel[n][i]
      BY <2>1, <2>3, <3>1, <3>2
    <3>4. PICK jx : jx = [i \in 1 .. m + 1 |-> IF i = m + 1 THEN n + 1 ELSE ix[i]]
      OBVIOUS
    <3>5. /\ \A i \in 1 .. m : /\ ix[i] \in 1 .. n /\ ix[i] \in S /\ s[i] = rows[ix[i]]
                               /\ jx[i] = ix[i]
          /\ jx[m + 1] = n + 1
      BY <2>2, <3>2, <3>3, <3>4 DEF IsSelection
    <3>6. jx \in [1 .. m + 1 -> 1 .. n + 1]
      <4>1. ASSUME NEW i \in 1 .. m + 1 PROVE jx[i] \in 1 .. n + 1
        <5>1. i = m + 1 \/ i \in 1 .. m
          BY <3>3
        <5> QED BY <3>5, <5>1
      <4> QED BY <3>4, <4>1
    <3>7. \A i \in 1 .. m + 1 : jx[i] \in S /\ s[i] = rows[jx[i]]
      <4> SUFFICES ASSUME NEW i \in 1 .. m + 1 PROVE jx[i] \in S /\ s[i] = rows[jx[i]]
        OBVIOUS
      <4>1. i = m + 1 \/ i \in 1 .. m
        BY <3>3
      <4> QED BY <2>5, <3>3, <3>5, <4>1
    <3>8. \A i, j \in 1 .. m + 1 : i < j => jx[i] < jx[j]
      <4> SUFFICES ASSUME NEW i \in 1 .. m + 1, NEW j \in 1 .. m + 1, i < j
                   PROVE  jx[i] < jx[j]
        OBVIOUS
      <4>1. i \in 1 .. m
        BY <3>3
      <4>2. CASE j = m + 1
        BY <3>5, <4>1, <4>2
      <4>3. CASE j # m + 1
        <5>1. j \in 1 .. m
          BY <3>3, <4>3
        <5>2. ix[i] < ix[j]
          BY <2>2, <3>2, <4>1, <5>1 DEF IsSelection
        <5> QED BY <3>5, <4>1, <5>1, <5>2
      <4> QED BY <4>2, <4>3
    <3>9. \A k \in 1 .. n + 1 : k \in S => \E i \in 1 .. m + 1 : jx[i] = k
      <4> SUFFICES ASSUME NEW k \in 1 .. n + 1, k \in S
                   PROVE  \E i \in 1 .. m + 1 : jx[i] = k
        OBVIOUS
      <4>1. CASE k = n + 1
        <5>1. m + 1 \in 1 .. m + 1
          BY <3>3
        <5> QED BY <3>5, <4>1, <5>1
      <4>2. CASE k # n + 1
        <5>1. k \in 1 .. n
          BY <4>2
        <5>2. PICK i \in 1 .. m : ix[i] = k
          BY <2>2, <3>2, <5>1 DEF IsSelection
        <5>3. i \in 1 .. m + 1
          BY <3>3
        <5> QED BY <3>5, <5>2, <5>3
      <4> QED BY <4>1, <4>2
    <3>10. IsSelection(s, jx, rows, S, n + 1)
      BY <3>3, <3>6, <3>7, <3>8, <3>9 DEF IsSelection
    <3> QED BY <3>2, <3>3, <3>10
  <2> QED BY <2>4, <2>5
<1>4. ASSUME NEW n \in Nat, n \in T
      PROVE  n + 1 \in T
  <2>1. n + 1 <= Len(rows) => Holds(n + 1)
    BY <1>3, <1>4
  <2> HIDE DEF Holds
  <2> QED BY <2>1
<1>5. Len(rows) \in T
  <2> HIDE DEF T
  <2>1. Len(rows) \in Nat
    OBVIOUS
  <2> QED BY <1>2, <1>4, <2>1, NatSetInduction
<1>6. Holds(Len(rows))
  <2>1. Len(rows) \in Nat
    OBVIOUS
  <2> QED BY <1>5, <2>1
<1> QED BY <1>1, <1>6

(***************************************************************************)
(* Selected of sequences that begin with the same rows                     *)
(***************************************************************************)

IsUnfolding(sel, rows, S) ==
    /\ sel[0] = << >>
    /\ \A n \in 1 .. Len(rows) :
          sel[n] = (IF n \in S THEN Append(sel[n - 1], rows[n]) ELSE sel[n - 1])

\* Two sequences have the same rows at the first n positions, and two sets the
\* same positions among them.
Agree(rows, S, more, T, n) ==
    /\ n \in Nat /\ n <= Len(rows) /\ n <= Len(more)
    /\ \A k \in 1 .. n : rows[k] = more[k] /\ (k \in S <=> k \in T)

LEMMA UnfoldingsAgree ==
    ASSUME NEW Row, NEW rows \in Seq(Row), NEW more \in Seq(Row), NEW S, NEW T, NEW last,
           Agree(rows, S, more, T, last),
           NEW f, IsUnfolding(f, rows, S), NEW g, IsUnfolding(g, more, T)
    PROVE  f[last] = g[last]
<1> DEFINE N == {n \in Nat : n <= last => f[n] = g[n]}
<1>1. 0 \in N
  BY DEF IsUnfolding
<1>2. ASSUME NEW n \in Nat, n \in N
      PROVE  n + 1 \in N
  <2> SUFFICES ASSUME n + 1 <= last PROVE f[n + 1] = g[n + 1]
    OBVIOUS
  <2>1. /\ n + 1 \in 1 .. last /\ n + 1 \in 1 .. Len(rows) /\ n + 1 \in 1 .. Len(more)
        /\ (n + 1) - 1 = n
    BY DEF Agree
  <2>2. f[n] = g[n] /\ rows[n + 1] = more[n + 1] /\ (n + 1 \in S <=> n + 1 \in T)
    BY <1>2, <2>1 DEF Agree
  <2>3. f[n + 1] = (IF n + 1 \in S THEN Append(f[n], rows[n + 1]) ELSE f[n])
    BY <2>1 DEF IsUnfolding
  <2>4. g[n + 1] = (IF n + 1 \in T THEN Append(g[n], more[n + 1]) ELSE g[n])
    BY <2>1 DEF IsUnfolding
  <2> QED BY <2>2, <2>3, <2>4
<1>3. last \in Nat
  BY DEF Agree
<1>4. last \in N
  <2> HIDE DEF N
  <2> QED BY <1>1, <1>2, <1>3, NatSetInduction
<1> QED BY <1>3, <1>4

\* Rows behind that are not selected make no difference.
LEMMA SelectedSkips ==
    ASSUME NEW Row, NEW rows \in Seq(Row), NEW more \in Seq(Row), NEW S, NEW T,
           Agree(rows, S, more, T, Len(rows)),
           \A k \in Len(rows) + 1 .. Len(more) : k \notin T
    PROVE  Selected(more, T) = Selected(rows, S)
<1>1. PICK f : IsUnfolding(f, rows, S) /\ Selected(rows, S) = f[Len(rows)]
  BY SelectedUnfolds DEF IsUnfolding
<1>2. PICK g : IsUnfolding(g, more, T) /\ Selected(more, T) = g[Len(more)]
  BY SelectedUnfolds DEF IsUnfolding
<1>3. f[Len(rows)] = g[Len(rows)]
  BY <1>1, <1>2, UnfoldingsAgree
<1>4. Len(rows) \in Nat /\ Len(more) \in Nat /\ Len(rows) <= Len(more)
  BY DEF Agree
<1> DEFINE N == {n \in Nat : Len(rows) + n <= Len(more) =>
                                g[Len(rows) + n] = g[Len(rows)]}
<1>5. 0 \in N
  BY <1>4
<1>6. ASSUME NEW n \in Nat, n \in N
      PROVE  n + 1 \in N
  <2> SUFFICES ASSUME Len(rows) + (n + 1) <= Len(more)
               PROVE  g[Len(rows) + (n + 1)] = g[Len(rows)]
    OBVIOUS
  <2>1. PICK k : k = Len(rows) + (n + 1)
    OBVIOUS
  <2>2. k \in Len(rows) + 1 .. Len(more) /\ k \in 1 .. Len(more) /\ k - 1 = Len(rows) + n
    BY <1>4, <2>1
  <2>3. g[k] = g[k - 1]
    BY <1>2, <2>2 DEF IsUnfolding
  <2>4. g[Len(rows) + n] = g[Len(rows)]
    BY <1>4, <1>6
  <2> QED BY <2>1, <2>2, <2>3, <2>4
<1>7. Len(more) - Len(rows) \in N
  <2>1. Len(more) - Len(rows) \in Nat
    BY <1>4
  <2> HIDE DEF N
  <2> QED BY <1>5, <1>6, <2>1, NatSetInduction
<1>8. g[Len(more)] = g[Len(rows)]
  <2>1. Len(rows) + (Len(more) - Len(rows)) = Len(more) /\ Len(more) - Len(rows) \in Nat
    BY <1>4
  <2> QED BY <1>4, <1>7, <2>1
<1> QED BY <1>1, <1>2, <1>3, <1>8

\* A row behind that is selected comes behind.
LEMMA SelectedAppends ==
    ASSUME NEW Row, NEW rows \in Seq(Row), NEW r \in Row, NEW S, NEW T,
           \A k \in 1 .. Len(rows) : k \in S <=> k \in T, Len(rows) + 1 \in T
    PROVE  Selected(Append(rows, r), T) = Append(Selected(rows, S), r)
<1>1. PICK more, n : more = Append(rows, r) /\ n = Len(rows)
  OBVIOUS
<1>2. /\ more \in Seq(Row) /\ n \in Nat /\ Len(more) = n + 1 /\ more[n + 1] = r
      /\ \A k \in 1 .. n : more[k] = rows[k]
  BY <1>1
<1>3. PICK f : IsUnfolding(f, rows, S) /\ Selected(rows, S) = f[n]
  BY <1>1, SelectedUnfolds DEF IsUnfolding
<1>4. PICK g : IsUnfolding(g, more, T) /\ Selected(more, T) = g[n + 1]
  BY <1>2, SelectedUnfolds DEF IsUnfolding
<1>5. Agree(rows, S, more, T, n)
  BY <1>1, <1>2 DEF Agree
<1>6. f[n] = g[n]
  BY <1>2, <1>3, <1>4, <1>5, UnfoldingsAgree
<1>7. g[n + 1] = Append(g[n], r)
  <2>1. n + 1 \in 1 .. Len(more) /\ (n + 1) - 1 = n
    BY <1>2
  <2> QED BY <1>1, <1>2, <1>4, <2>1 DEF IsUnfolding
<1> QED BY <1>1, <1>3, <1>4, <1>6, <1>7

\* All rows selected are the sequence itself.
LEMMA SelectedAll ==
    ASSUME NEW Row, NEW rows \in Seq(Row), NEW S, \A k \in 1 .. Len(rows) : k \in S
    PROVE  Selected(rows, S) = rows
<1>1. PICK f : IsUnfolding(f, rows, S) /\ Selected(rows, S) = f[Len(rows)]
  BY SelectedUnfolds DEF IsUnfolding
<1> DEFINE Begins(n) == /\ f[n] \in Seq(Row) /\ Len(f[n]) = n
                        /\ \A k \in 1 .. n : f[n][k] = rows[k]
           N == {n \in Nat : n <= Len(rows) => Begins(n)}
<1>2. 0 \in N
  <2>1. f[0] \in Seq(Row) /\ Len(f[0]) = 0
    BY <1>1 DEF IsUnfolding
  <2> QED BY <2>1
<1>3. ASSUME NEW n \in Nat, n \in N, n + 1 <= Len(rows)
      PROVE  Begins(n + 1)
  <2>1. PICK s : s = f[n]
    OBVIOUS
  <2>2. s \in Seq(Row) /\ Len(s) = n /\ \A k \in 1 .. n : s[k] = rows[k]
    BY <1>3, <2>1
  <2>3. n + 1 \in 1 .. Len(rows) /\ (n + 1) - 1 = n /\ rows[n + 1] \in Row
    BY <1>3
  <2>4. f[n + 1] = Append(s, rows[n + 1])
    BY <1>1, <2>1, <2>3 DEF IsUnfolding
  <2>5. PICK u : u = Append(s, rows[n + 1])
    OBVIOUS
  <2>6. u \in Seq(Row) /\ Len(u) = n + 1 /\ \A k \in 1 .. n + 1 : u[k] = rows[k]
    BY <2>2, <2>3, <2>5
  <2> QED BY <2>4, <2>5, <2>6
<1>4. ASSUME NEW n \in Nat, n \in N
      PROVE  n + 1 \in N
  <2>1. n + 1 <= Len(rows) => Begins(n + 1)
    BY <1>3, <1>4
  <2> HIDE DEF Begins
  <2> QED BY <2>1
<1>5. Len(rows) \in N
  <2> HIDE DEF N
  <2>1. Len(rows) \in Nat
    OBVIOUS
  <2> QED BY <1>2, <1>4, <2>1, NatSetInduction
<1>6. Begins(Len(rows))
  <2>1. Len(rows) \in Nat
    OBVIOUS
  <2> QED BY <1>5, <2>1
<1>7. PICK s : s = f[Len(rows)]
  OBVIOUS
<1>8. s \in Seq(Row) /\ Len(s) = Len(rows) /\ \A k \in 1 .. Len(rows) : s[k] = rows[k]
  BY <1>6, <1>7
<1>9. s = rows
  BY <1>8
<1> QED BY <1>1, <1>7, <1>9
-----------------------------------------------------------------------------
(***************************************************************************)
(* The pages that were saved                                               *)
(***************************************************************************)

\* The rows that a scan has saved, without those of workers that have lost
\* their parents, are the beginning of what is on disk.
OwnMirrorsImage ==
    /\ pos \in 0 .. Len(image)
    /\ Own(pages) \in Seq(Rows) /\ Len(Own(pages)) = pos
    /\ \A k \in 1 .. pos : Own(pages)[k] = image[k]

\* Those of the others are from the disk, too.
StrayInv ==
    /\ pages \in Seq(Rows) /\ \A k \in 1 .. Len(pages) : pages[k] \in ToSet(image)
    /\ stray \subseteq 1 .. Len(pages)
    /\ orphans \in Seq(Nat)
    /\ stray # {} => \E k \in DOMAIN orphans : orphans[k] > 0

PagesMirrorImage == OwnMirrorsImage /\ StrayInv

\* Pages are there only in a directory, and the worker only during a scan.
ScanInv ==
    /\ image \in Images /\ faults \in Nat
    /\ "FIL_PAGE_INDEX" \in dirs => "dst_dir" \in dirs
    /\ "dst_dir" \notin dirs => pos = 0
    /\ scan \in {"index", "blob", "scanning"} => "dst_dir" \in dirs
    /\ scan \in {"index", "blob"} => pos = 0
    /\ scan \in {"idle", "index", "blob"} => worker = "none"
    /\ worker = "scans" => scan = "scanning"
    /\ worker = "finished" => pos = Len(image)
    /\ worker = "dead" => faults > 0
    /\ scan = "success" => worker \in {"finished", "dead"}

Busy == {"live", "deleted", "database", "create", "load", "done"}

\* The script works on the pages of a scan that has ended.
ScriptInv == script \in Busy => scan = "success"

IInv == PagesMirrorImage /\ ScanInv /\ ScriptInv
-----------------------------------------------------------------------------
LEMMA ImageIsSequence ==
    ASSUME ScanInv
    PROVE  /\ image \in Seq(Rows) /\ Len(image) \in Nat
           /\ \A k \in 1 .. Len(image) : image[k] \in Rows /\ image[k] \in ToSet(image)
<1>1. image \in Seq(Rows)
  BY ScanJobAssumption DEF ScanInv
<1> QED BY <1>1 DEF ToSet

\* Without pages there is nothing of the last scan either.
LEMMA NoPages ==
    ASSUME NEW read, read = << >>
    PROVE  /\ read \in Seq(Rows) /\ Len(read) = 0
           /\ Own(read) \in Seq(Rows) /\ Len(Own(read)) = 0
<1>1. read \in Seq(Rows) /\ Len(read) = 0
  OBVIOUS
<1>2. PICK ix : IsSelection(Own(read), ix, read, DOMAIN read \ stray, Len(read))
  BY <1>1, SelectedFacts DEF Own
<1>3. Own(read) \in Seq(Rows)
  BY <1>1, SelectedFacts DEF Own
<1>4. Len(Own(read)) \in Nat /\ \A i \in 1 .. Len(Own(read)) : ix[i] \in 1 .. 0
  BY <1>1, <1>2, <1>3 DEF IsSelection
<1>5. ~ (1 \in 1 .. Len(Own(read)))
  BY <1>4
<1>6. Len(Own(read)) = 0
  BY <1>4, <1>5
<1> QED BY <1>1, <1>3, <1>6

LEMMA InitIInv == Init => IInv
<1> SUFFICES ASSUME Init PROVE IInv
  OBVIOUS
<1>1. /\ image \in Images /\ faults = 0 /\ dirs = {} /\ scan = "idle" /\ worker = "none"
      /\ pos = 0 /\ pages = << >> /\ script = "idle" /\ orphans = << >> /\ stray = {}
  BY DEF Init, ScanInit, ScriptInit
<1>2. ScanInv
  BY <1>1 DEF ScanInv
<1>3. PagesMirrorImage
  <2>1. /\ pages \in Seq(Rows) /\ Len(pages) = 0
        /\ Own(pages) \in Seq(Rows) /\ Len(Own(pages)) = 0
    BY <1>1, NoPages
  <2>2. OwnMirrorsImage
    BY <1>1, <1>2, <2>1, ImageIsSequence DEF OwnMirrorsImage
  <2>3. orphans \in Seq(Nat)
    BY <1>1
  <2>4. StrayInv
    BY <1>1, <2>1, <2>3 DEF StrayInv
  <2> QED BY <2>2, <2>4 DEF PagesMirrorImage
<1>4. ScriptInv
  BY <1>1 DEF ScriptInv, Busy
<1> QED BY <1>2, <1>3, <1>4 DEF IInv
-----------------------------------------------------------------------------
(* The steps of stream_parser                                              *)

\* A page of the scan itself comes behind those that it has saved.
LEMMA SaveKeepsPages ==
    ASSUME PagesMirrorImage, ScanInv, SavePage
    PROVE  PagesMirrorImage'
<1>1. /\ image \in Seq(Rows) /\ Len(image) \in Nat
      /\ \A k \in 1 .. Len(image) : image[k] \in Rows /\ image[k] \in ToSet(image)
  BY ImageIsSequence
<1>2. PICK own, r, n : own = Own(pages) /\ r = image[pos + 1] /\ n = Len(pages)
  OBVIOUS
<1>3. /\ pos \in 0 .. Len(image) /\ pos < Len(image)
      /\ pos' = pos + 1 /\ pages' = Append(pages, r) /\ image' = image
      /\ stray' = stray /\ orphans' = orphans
  BY <1>2 DEF SavePage, PagesMirrorImage, OwnMirrorsImage, orphanVars
<1>4. /\ own \in Seq(Rows) /\ Len(own) = pos /\ \A k \in 1 .. pos : own[k] = image[k]
      /\ pages \in Seq(Rows) /\ \A k \in 1 .. n : pages[k] \in ToSet(image)
      /\ n \in Nat /\ stray \subseteq 1 .. n
  BY <1>2 DEF PagesMirrorImage, OwnMirrorsImage, StrayInv
<1>5. r \in Rows /\ r \in ToSet(image)
  BY <1>1, <1>2, <1>3
<1>6. /\ pages' \in Seq(Rows) /\ Len(pages') = n + 1 /\ pages'[n + 1] = r
      /\ \A k \in 1 .. n : pages'[k] = pages[k]
  BY <1>2, <1>3, <1>4, <1>5
<1>7. Own(pages)' = Append(own, r)
  <2>1. PICK S, T : S = DOMAIN pages \ stray /\ T = DOMAIN pages' \ stray'
    OBVIOUS
  <2>2. (\A k \in 1 .. Len(pages) : k \in S <=> k \in T) /\ Len(pages) + 1 \in T
    BY <1>2, <1>3, <1>4, <1>6, <2>1
  <2>3. Selected(Append(pages, r), T) = Append(Selected(pages, S), r)
    BY <1>4, <1>5, <2>2, SelectedAppends
  <2> QED BY <1>2, <1>3, <2>1, <2>3 DEF Own
<1>8. PICK u : u = Append(own, r)
  OBVIOUS
<1>9. /\ u \in Seq(Rows) /\ Len(u) = pos + 1 /\ u[pos + 1] = r
      /\ \A k \in 1 .. pos : u[k] = own[k]
  BY <1>3, <1>4, <1>5, <1>8
<1>10. \A k \in 1 .. pos + 1 : u[k] = image[k]
  BY <1>2, <1>3, <1>4, <1>9
<1>11. OwnMirrorsImage'
  BY <1>1, <1>3, <1>7, <1>8, <1>9, <1>10 DEF OwnMirrorsImage
<1>12. \A k \in 1 .. n + 1 : pages'[k] \in ToSet(image)
  BY <1>4, <1>5, <1>6
<1>13. stray' \subseteq 1 .. n + 1
  BY <1>3, <1>4
<1>14. StrayInv'
  BY <1>3, <1>6, <1>12, <1>13 DEF StrayInv, PagesMirrorImage
<1> QED BY <1>11, <1>14 DEF PagesMirrorImage

\* A page of another worker is not among them.
LEMMA StrayNotOwn ==
    ASSUME PagesMirrorImage, OrphanSaves, ScanInv
    PROVE  /\ Own(pages)' = Own(pages)
           /\ \E r \in Rows :
                 /\ r \in ToSet(image) /\ pages' = Append(pages, r)
                 /\ stray' = stray \cup {Len(pages) + 1}
<1>1. /\ image \in Seq(Rows) /\ Len(image) \in Nat
      /\ \A k \in 1 .. Len(image) : image[k] \in Rows /\ image[k] \in ToSet(image)
  BY ImageIsSequence
<1>2. PICK k \in DOMAIN orphans :
        /\ orphans[k] < Len(image)
        /\ pages' = Append(pages, image[orphans[k] + 1])
        /\ stray' = stray \cup {Len(pages) + 1}
  BY DEF OrphanSaves
<1>3. PICK r, n : r = image[orphans[k] + 1] /\ n = Len(pages)
  OBVIOUS
<1>4. orphans[k] \in Nat
  BY <1>2 DEF PagesMirrorImage, StrayInv
<1>5. r \in Rows /\ r \in ToSet(image)
  BY <1>1, <1>2, <1>3, <1>4
<1>6. pages \in Seq(Rows) /\ n \in Nat /\ stray \subseteq 1 .. n
  BY <1>3 DEF PagesMirrorImage, StrayInv
<1>7. PICK more, S, T : more = pages' /\ S = DOMAIN pages \ stray /\ T = DOMAIN pages' \ stray'
  OBVIOUS
<1>8. more \in Seq(Rows) /\ Len(more) = n + 1 /\ \A j \in 1 .. n : pages[j] = more[j]
  BY <1>2, <1>3, <1>5, <1>6, <1>7
<1>9. /\ \A j \in 1 .. n : j \in S <=> j \in T
      /\ \A j \in n + 1 .. n + 1 : j \notin T
  BY <1>2, <1>3, <1>6, <1>7, <1>8
<1>10. Agree(pages, S, more, T, Len(pages))
  BY <1>3, <1>6, <1>8, <1>9 DEF Agree
<1>11. \A j \in Len(pages) + 1 .. Len(more) : j \notin T
  BY <1>3, <1>8, <1>9
<1>12. Selected(more, T) = Selected(pages, S)
  BY <1>6, <1>8, <1>10, <1>11, SelectedSkips
<1> QED BY <1>2, <1>3, <1>5, <1>7, <1>12 DEF Own

LEMMA OrphanKeepsPages ==
    ASSUME PagesMirrorImage, ScanInv, OrphanSaves
    PROVE  PagesMirrorImage' /\ ScanInv'
<1>1. UNCHANGED <<image, faults, dirs, scan, worker, pos>>
  BY DEF OrphanSaves
<1>2. OwnMirrorsImage'
  <2>1. PICK own : own = Own(pages)
    OBVIOUS
  <2>2. Own(pages)' = own
    BY <2>1, StrayNotOwn
  <2> QED BY <1>1, <2>1, <2>2 DEF OwnMirrorsImage, PagesMirrorImage
<1>3. StrayInv'
  <2>1. PICK r \in Rows : /\ r \in ToSet(image) /\ pages' = Append(pages, r)
                          /\ stray' = stray \cup {Len(pages) + 1}
    BY StrayNotOwn
  <2>2. /\ pages \in Seq(Rows) /\ stray \subseteq 1 .. Len(pages)
        /\ \A k \in 1 .. Len(pages) : pages[k] \in ToSet(image)
    BY DEF PagesMirrorImage, StrayInv
  <2>3. /\ pages' \in Seq(Rows) /\ Len(pages') = Len(pages) + 1
        /\ \A k \in 1 .. Len(pages) + 1 : pages'[k] \in ToSet(image)
    BY <2>1, <2>2
  <2>4. stray' \subseteq 1 .. Len(pages')
    <3>1. PICK n : n = Len(pages)
      OBVIOUS
    <3>2. n \in Nat /\ stray \subseteq 1 .. n /\ Len(pages') = n + 1 /\ stray' = stray \cup {n + 1}
      BY <2>1, <2>2, <2>3, <3>1
    <3> QED BY ONLY <3>2
  <2>5. orphans' \in Seq(Nat) /\ \E k \in DOMAIN orphans' : orphans'[k] > 0
    <3>1. PICK k \in DOMAIN orphans : orphans' = [orphans EXCEPT ![k] = orphans[k] + 1]
      BY DEF OrphanSaves
    <3>2. orphans \in Seq(Nat) /\ orphans[k] \in Nat
      BY DEF PagesMirrorImage, StrayInv
    <3>3. orphans' \in Seq(Nat) /\ k \in DOMAIN orphans' /\ orphans'[k] = orphans[k] + 1
      BY <3>1, <3>2
    <3> QED BY <3>2, <3>3
  <2> QED BY <1>1, <2>3, <2>4, <2>5 DEF StrayInv
<1>4. ScanInv'
  BY <1>1 DEF ScanInv
<1> QED BY <1>2, <1>3, <1>4 DEF PagesMirrorImage

LEMMA SaveKeepsScan ==
    ASSUME PagesMirrorImage, ScanInv, SavePage
    PROVE  ScanInv'
<1>1. /\ worker = "scans" /\ pos' = pos + 1
      /\ UNCHANGED <<image, faults, dirs, scan, worker>>
  BY DEF SavePage
<1> QED BY <1>1 DEF ScanInv

\* What the pages are depends on these variables.
LEMMA PagesFrame ==
    ASSUME PagesMirrorImage, UNCHANGED <<image, pos, pages, stray>>,
           \/ orphans' = orphans
           \/ orphans' = Append(orphans, pos)
    PROVE  PagesMirrorImage'
<1>1. PICK own : own = Own(pages)
  OBVIOUS
<1>2. Own(pages)' = own
  BY <1>1 DEF Own
<1>3. OwnMirrorsImage'
  BY <1>1, <1>2 DEF OwnMirrorsImage, PagesMirrorImage
<1>4. orphans \in Seq(Nat) /\ pos \in Nat
  BY DEF PagesMirrorImage, OwnMirrorsImage, StrayInv
<1>5. /\ orphans' \in Seq(Nat)
      /\ \A k \in DOMAIN orphans : k \in DOMAIN orphans' /\ orphans'[k] = orphans[k]
  <2>1. CASE orphans' = orphans
    BY <1>4, <2>1
  <2>2. CASE orphans' = Append(orphans, pos)
    BY <1>4, <2>2
  <2> QED BY <2>1, <2>2
<1>6. StrayInv'
  BY <1>5 DEF StrayInv, PagesMirrorImage
<1> QED BY <1>3, <1>6 DEF PagesMirrorImage

\* A directory is made only where the scan has no pages.
LEMMA MakeKeepsScan ==
    ASSUME PagesMirrorImage, ScanInv, NEW stage, NEW dir, NEW next,
           MakeDirectory(stage, dir, next),
           \/ stage = "idle" /\ dir = "dst_dir" /\ next = "index"
           \/ stage = "index" /\ next = "blob"
           \/ stage = "blob" /\ next = "scanning"
    PROVE  PagesMirrorImage' /\ ScanInv'
<1>1. /\ scan = stage /\ dir \notin dirs /\ dirs' = dirs \cup {dir} /\ scan' = next
      /\ worker' = (IF next = "scanning" THEN "scans" ELSE worker)
      /\ pos' = 0 /\ image' = image /\ faults' = faults /\ pages' = pages
      /\ stray' = stray /\ orphans' = orphans
  BY DEF MakeDirectory, Usable, orphanVars
<1>2. pos = 0 /\ worker = "none"
  BY <1>1 DEF ScanInv
<1>3. PagesMirrorImage'
  BY <1>1, <1>2, PagesFrame
<1>4. "dst_dir" \in dirs'
  BY <1>1 DEF ScanInv
<1>5. ScanInv'
  BY <1>1, <1>2, <1>4 DEF ScanInv
<1> QED BY <1>3, <1>5

\* The other steps of a scan leave what was saved as it is.
LEMMA OthersKeepScan ==
    ASSUME PagesMirrorImage, ScanInv,
           RefuseToStart \/ EndScan \/ ReportScan \/ WorkerFails \/ InterruptScan
    PROVE  PagesMirrorImage' /\ ScanInv'
<1>1. UNCHANGED <<image, pos, pages, dirs, stray>>
  BY DEF RefuseToStart, EndScan, ReportScan, WorkerFails, InterruptScan, orphanVars
<1>2. orphans' = orphans \/ orphans' = Append(orphans, pos)
  BY DEF RefuseToStart, EndScan, ReportScan, WorkerFails, InterruptScan, KillParent, orphanVars
<1>3. PagesMirrorImage'
  BY <1>1, <1>2, PagesFrame
<1>4. CASE RefuseToStart
  BY <1>1, <1>3, <1>4 DEF RefuseToStart, ScanInv
<1>5. CASE EndScan
  BY <1>1, <1>3, <1>5 DEF EndScan, ScanInv
<1>6. CASE ReportScan
  BY <1>1, <1>3, <1>6 DEF ReportScan, ScanInv
<1>7. CASE WorkerFails
  BY <1>1, <1>3, <1>7 DEF WorkerFails, Fault, ScanInv
<1>8. CASE InterruptScan
  <2>1. scan' = "failure" /\ faults' = faults + 1
    BY <1>8 DEF InterruptScan, Fault
  <2>2. worker' \in {"none", "dead"} \/ (worker' = worker /\ worker # "scans")
    <3>1. CASE worker = "scans"
      BY <1>8, <3>1 DEF InterruptScan, KillParent
    <3>2. CASE worker # "scans"
      BY <1>8, <3>2 DEF InterruptScan
    <3> QED BY <3>1, <3>2
  <2> QED BY <1>1, <1>3, <2>1, <2>2 DEF ScanInv
<1> QED BY <1>3, <1>4, <1>5, <1>6, <1>7, <1>8

LEMMA ScanKeepsIInv ==
    ASSUME IInv, Scan
    PROVE  IInv'
<1>1. PagesMirrorImage /\ ScanInv /\ ScriptInv
  BY DEF IInv
<1>2. script' = script
  BY DEF Scan, scriptVars
<1>3. CASE StartScan
  <2>1. PagesMirrorImage' /\ ScanInv'
    BY <1>1, <1>3, MakeKeepsScan DEF StartScan
  <2>2. scan # "success"
    BY <1>3 DEF StartScan, MakeDirectory
  <2> QED BY <1>1, <1>2, <2>1, <2>2 DEF IInv, ScriptInv
<1>4. CASE SavePage
  <2>1. PagesMirrorImage' /\ ScanInv'
    BY <1>1, <1>4, SaveKeepsPages, SaveKeepsScan
  <2>2. scan # "success"
    BY <1>1, <1>4 DEF SavePage, ScanInv
  <2> QED BY <1>1, <1>2, <2>1, <2>2 DEF IInv, ScriptInv
<1>5. CASE RefuseToStart \/ EndScan \/ ReportScan \/ WorkerFails \/ InterruptScan
  <2>1. PagesMirrorImage' /\ ScanInv'
    BY <1>1, <1>5, OthersKeepScan
  <2>2. scan # "success"
    BY <1>1, <1>5
    DEF RefuseToStart, EndScan, ReportScan, WorkerFails, InterruptScan, ScanInv
  <2> QED BY <1>1, <1>2, <2>1, <2>2 DEF IInv, ScriptInv
<1>6. CASE OrphanSaves
  <2>1. PagesMirrorImage' /\ ScanInv' /\ scan' = scan
    BY <1>1, <1>6, OrphanKeepsPages DEF OrphanSaves
  <2> QED BY <1>1, <1>2, <2>1 DEF IInv, ScriptInv
<1> QED BY <1>3, <1>4, <1>5, <1>6 DEF Scan, ScanStep, ScanFault
-----------------------------------------------------------------------------
(* The steps of the script, of sys_parser and of the operator              *)

LEMMA ScanVarsKept ==
    ASSUME PagesMirrorImage, ScanInv, UNCHANGED scanVars
    PROVE  PagesMirrorImage' /\ ScanInv'
<1>1. UNCHANGED <<image, faults, dirs, scan, worker, pos, pages, orphans, stray>>
  BY DEF scanVars, orphanVars
<1>2. PagesMirrorImage'
  BY <1>1, PagesFrame
<1>3. ScanInv'
  BY <1>1 DEF ScanInv
<1> QED BY <1>2, <1>3

LEMMA ScriptKeepsIInv ==
    ASSUME IInv, Script
    PROVE  IInv'
<1>1. PagesMirrorImage /\ ScanInv /\ ScriptInv
  BY DEF IInv
<1>2. CASE ScriptStep
  <2>1. UNCHANGED scanVars
    BY <1>2 DEF ScriptStep
  <2>2. script \in Busy
    BY <1>2 DEF ScriptStep, DumpLive, DumpDeleted, CreateDatabase, CreateTable, LoadTable, Busy
  <2>3. ScriptInv'
    BY <1>1, <2>1, <2>2 DEF ScriptInv, scanVars
  <2> QED BY <1>1, <2>1, <2>3, ScanVarsKept DEF IInv
<1>3. CASE ScriptFails
  <2>1. /\ faults' = faults + 1 /\ script' = "failed"
        /\ UNCHANGED <<image, dirs, scan, worker, pos, pages, orphans, stray>>
    BY <1>3 DEF ScriptFails, Fault, orphanVars
  <2>2. PagesMirrorImage'
    BY <1>1, <2>1, PagesFrame
  <2>3. ScanInv'
    BY <1>1, <2>1 DEF ScanInv
  <2>4. ScriptInv'
    BY <2>1 DEF ScriptInv, Busy
  <2> QED BY <2>2, <2>3, <2>4 DEF IInv
<1> QED BY <1>2, <1>3 DEF Script

LEMMA ParserKeepsIInv ==
    ASSUME IInv, ParserStep
    PROVE  IInv'
<1>1. PagesMirrorImage /\ ScanInv /\ ScriptInv
  BY DEF IInv
<1>2. UNCHANGED scanVars /\ UNCHANGED scriptVars
  BY DEF ParserStep
<1>3. ScriptInv'
  BY <1>1, <1>2 DEF ScriptInv, scanVars, scriptVars
<1> QED BY <1>1, <1>2, <1>3, ScanVarsKept DEF IInv

LEMMA OperatorKeepsIInv ==
    ASSUME IInv,
           \/ OperatorCleansUp \/ OperatorRestarts \/ OperatorRunsScript
           \/ OperatorRunsAgain \/ OperatorDropsTables
    PROVE  IInv'
<1>1. PagesMirrorImage /\ ScanInv /\ ScriptInv
  BY DEF IInv
<1>2. CASE OperatorCleansUp
  <2>1. /\ pos' = 0 /\ pages' = << >> /\ scan' = "idle" /\ worker' = "none" /\ stray' = {}
        /\ dirs' = {} /\ image' = image /\ faults' = faults /\ script' = script
        /\ orphans' = orphans
    BY <1>2 DEF OperatorCleansUp, RemoveDirectories, scriptVars
  <2>2. PagesMirrorImage'
    <3>1. /\ pages' \in Seq(Rows) /\ Len(pages') = 0
          /\ Own(pages)' \in Seq(Rows) /\ Len(Own(pages)') = 0
      <4>1. \A k \in 1 .. 0 : FALSE
        OBVIOUS
      <4>2. PICK none : none = << >>
        OBVIOUS
      <4>3. none \in Seq(Rows) /\ Len(none) = 0
        BY <4>2
      <4>4. PICK S : S = DOMAIN none \ {}
        OBVIOUS
      <4>5. Own(pages)' = Selected(none, S)
        BY <2>1, <4>2, <4>4 DEF Own
      <4>6. Selected(none, S) = none
        <5>1. \A k \in 1 .. Len(none) : k \in S
          BY <4>1, <4>3
        <5> QED BY <4>3, <5>1, SelectedAll
      <4> QED BY <2>1, <4>2, <4>3, <4>5, <4>6
    <3>2. OwnMirrorsImage'
      BY <1>1, <2>1, <3>1, ImageIsSequence DEF OwnMirrorsImage
    <3>3. StrayInv'
      BY <1>1, <2>1, <3>1 DEF StrayInv, PagesMirrorImage
    <3> QED BY <3>2, <3>3 DEF PagesMirrorImage
  <2>3. ScanInv'
    BY <1>1, <2>1 DEF ScanInv
  <2>4. script \notin Busy
    BY <1>1, <1>2 DEF OperatorCleansUp, ScriptInv, Busy
  <2> QED BY <2>1, <2>2, <2>3, <2>4 DEF IInv, ScriptInv
<1>3. CASE OperatorRestarts
  <2>1. /\ scan = "failure" /\ scan' = "idle" /\ worker' = "none" /\ script' = script
        /\ UNCHANGED <<image, faults, dirs, pos, pages, orphans, stray>>
    BY <1>3 DEF OperatorRestarts, RestartScan, scriptVars, orphanVars
  <2>2. PagesMirrorImage'
    BY <1>1, <2>1, PagesFrame
  <2>3. ScanInv'
    BY <1>1, <2>1 DEF ScanInv
  <2>4. script \notin Busy
    BY <1>1, <2>1 DEF ScriptInv
  <2> QED BY <2>1, <2>2, <2>3, <2>4 DEF IInv, ScriptInv
<1>4. CASE OperatorRunsScript
  <2>1. UNCHANGED scanVars /\ scan = "success"
    BY <1>4 DEF OperatorRunsScript, StartScript
  <2>2. ScriptInv'
    BY <2>1 DEF ScriptInv, scanVars
  <2> QED BY <1>1, <2>1, <2>2, ScanVarsKept DEF IInv
<1>5. CASE OperatorRunsAgain \/ OperatorDropsTables
  <2>1. UNCHANGED scanVars /\ script' = "idle"
    BY <1>5 DEF OperatorRunsAgain, OperatorDropsTables, DropTables
  <2>2. ScriptInv'
    BY <2>1 DEF ScriptInv, Busy
  <2> QED BY <1>1, <2>1, <2>2, ScanVarsKept DEF IInv
<1> QED BY <1>2, <1>3, <1>4, <1>5

LEMMA StepIInv == IInv /\ [Next]_vars => IInv'
<1> SUFFICES ASSUME IInv, [Next]_vars PROVE IInv'
  OBVIOUS
<1>1. CASE Scan
  BY <1>1, ScanKeepsIInv
<1>2. CASE Script
  BY <1>2, ScriptKeepsIInv
<1>3. CASE Parser
  BY <1>3, ParserKeepsIInv DEF Parser
<1>4. CASE \/ OperatorCleansUp \/ OperatorRestarts \/ OperatorRunsScript
           \/ OperatorRunsAgain \/ OperatorDropsTables
  BY <1>4, OperatorKeepsIInv
<1>5. CASE UNCHANGED vars
  <2>1. UNCHANGED scanVars /\ UNCHANGED scriptVars
    BY <1>5 DEF vars
  <2>2. ScriptInv'
    BY <2>1 DEF IInv, ScriptInv, scanVars, scriptVars
  <2> QED BY <2>1, <2>2, ScanVarsKept DEF IInv
<1> QED BY <1>1, <1>2, <1>3, <1>4, <1>5 DEF Next
-----------------------------------------------------------------------------
-----------------------------------------------------------------------------
(***************************************************************************)
(* What a table holds after a dump was loaded into it                      *)
(***************************************************************************)

\* The dump of a page file: its live rows and behind them its deleted ones, of
\* the file as it is by then.
Dump(live, gone) == Appended(Live(live), Deleted(gone))

\* Of the rows of one kind the last one of its key is also the last in the dump.
LEMMA FinalOfKind ==
    ASSUME NEW rows, NEW del \in BOOLEAN, NEW S, NEW s, NEW ix,
           \A k \in 1 .. Len(rows) : rows[k].deleted \in BOOLEAN,
           \A k \in 1 .. Len(rows) : k \in S <=> rows[k].deleted = del,
           Len(rows) \in Nat, Len(s) \in Nat, IsSelection(s, ix, rows, S, Len(rows)),
           NEW i \in 1 .. Len(s)
    PROVE  Final(s, i, Len(s)) <=> LastWith(rows, ix[i], del)
<1>1. /\ \A h \in 1 .. Len(s) : /\ ix[h] \in 1 .. Len(rows) /\ ix[h] \in S
                                /\ s[h] = rows[ix[h]]
      /\ \A h, j \in 1 .. Len(s) : h < j => ix[h] < ix[j]
      /\ \A k \in 1 .. Len(rows) : k \in S => \E h \in 1 .. Len(s) : ix[h] = k
  BY DEF IsSelection
<1>2. rows[ix[i]].deleted = del /\ s[i] = rows[ix[i]] /\ ix[i] \in 1 .. Len(rows)
  BY <1>1
<1>3. ASSUME Final(s, i, Len(s))
      PROVE  LastWith(rows, ix[i], del)
  <2>1. ASSUME NEW j \in ix[i] + 1 .. Len(rows), rows[j].key = rows[ix[i]].key,
               rows[j].deleted = del
        PROVE  FALSE
    <3>1. j \in 1 .. Len(rows) /\ ix[i] < j
      BY <1>2
    <3>2. PICK h \in 1 .. Len(s) : ix[h] = j
      BY <1>1, <2>1, <3>1
    <3>3. h # i /\ ~ (h < i)
      <4>1. h < i => ix[h] < ix[i]
        BY <1>1
      <4> QED BY <1>2, <3>1, <3>2, <4>1
    <3>4. h \in i + 1 .. Len(s)
      BY <3>3
    <3>5. s[h].key = s[i].key
      BY <1>1, <1>2, <2>1, <3>2
    <3> QED BY <1>3, <3>4, <3>5 DEF Final
  <2> QED BY <1>2, <2>1 DEF LastWith
<1>4. ASSUME LastWith(rows, ix[i], del), NEW h \in i + 1 .. Len(s), s[h].key = s[i].key
      PROVE  FALSE
  <2>1. h \in 1 .. Len(s) /\ i < h
    OBVIOUS
  <2>2. ix[i] < ix[h] /\ ix[h] \in 1 .. Len(rows) /\ rows[ix[h]].deleted = del
    BY <1>1, <2>1
  <2>3. ix[h] \in ix[i] + 1 .. Len(rows)
    BY <1>2, <2>2
  <2>4. rows[ix[h]].key = rows[ix[i]].key
    BY <1>1, <1>2, <1>4, <2>1
  <2> QED BY <1>4, <2>2, <2>3, <2>4 DEF LastWith
<1> QED BY <1>3, <1>4 DEF Final

\* Where the lines of a dump come from: a and b are the positions of the live and
\* of the deleted rows.
DumpFrom(lines, L, D, a, b, live, gone) ==
    /\ L = Live(live) /\ D = Deleted(gone) /\ lines = L \o D
    /\ IsSelection(L, a, live, {k \in DOMAIN live : ~ live[k].deleted}, Len(live))
    /\ IsSelection(D, b, gone, {k \in DOMAIN gone : gone[k].deleted}, Len(gone))

LEMMA DumpFacts ==
    ASSUME NEW Row, NEW live \in Seq(Row), NEW gone \in Seq(Row)
    PROVE  /\ Dump(live, gone) \in Seq(Row)
           /\ Live(live) \in Seq(Row) /\ Deleted(gone) \in Seq(Row)
           /\ \E a, b : DumpFrom(Dump(live, gone), Live(live), Deleted(gone), a, b, live, gone)
<1>1. /\ Live(live) \in Seq(Row)
      /\ \E a : IsSelection(Live(live), a, live, {k \in DOMAIN live : ~ live[k].deleted},
                            Len(live))
  BY SelectedFacts DEF Live
<1>2. /\ Deleted(gone) \in Seq(Row)
      /\ \E b : IsSelection(Deleted(gone), b, gone, {k \in DOMAIN gone : gone[k].deleted},
                            Len(gone))
  BY SelectedFacts DEF Deleted
<1>3. Dump(live, gone) = Live(live) \o Deleted(gone)
  BY DEF Dump, Appended
<1>4. Dump(live, gone) \in Seq(Row)
  BY <1>1, <1>2, <1>3
<1> QED BY <1>1, <1>2, <1>3, <1>4 DEF DumpFrom

\* A line is the last one of its key if it is so in its part of the dump, and, if
\* it is of a live row, there is no line of its key in the other part.
LinesOf(lines, L, D) ==
    /\ Len(lines) = Len(L) + Len(D)
    /\ \A i \in 1 .. Len(L) :
          /\ lines[i] = L[i]
          /\ Final(lines, i, Len(lines)) <=>
               Final(L, i, Len(L)) /\ \A j \in 1 .. Len(D) : D[j].key # L[i].key
    /\ \A j \in 1 .. Len(D) :
          /\ lines[Len(L) + j] = D[j]
          /\ Final(lines, Len(L) + j, Len(lines)) <=> Final(D, j, Len(D))

LEMMA FinalInDump ==
    ASSUME NEW Row, NEW L \in Seq(Row), NEW D \in Seq(Row)
    PROVE  LinesOf(L \o D, L, D)
<1>1. PICK lines, m, q : lines = L \o D /\ m = Len(L) /\ q = Len(D)
  OBVIOUS
<1>2. /\ m \in Nat /\ q \in Nat /\ lines \in Seq(Row) /\ Len(lines) = m + q
      /\ \A i \in 1 .. m : lines[i] = L[i]
      /\ \A j \in 1 .. q : lines[m + j] = D[j]
  BY <1>1
<1>3. ASSUME NEW i \in 1 .. m
      PROVE  Final(lines, i, m + q) <=>
                Final(L, i, m) /\ \A j \in 1 .. q : D[j].key # L[i].key
  <2>1. ASSUME Final(lines, i, m + q)
        PROVE  Final(L, i, m) /\ \A j \in 1 .. q : D[j].key # L[i].key
    <3>1. ASSUME NEW h \in i + 1 .. m PROVE L[h].key # L[i].key
      <4>1. h \in 1 .. m /\ h \in i + 1 .. m + q
        BY <1>2
      <4>2. lines[h].key # lines[i].key
        BY <2>1, <4>1 DEF Final
      <4> QED BY <1>2, <4>1, <4>2
    <3>2. ASSUME NEW j \in 1 .. q PROVE D[j].key # L[i].key
      <4>1. m + j \in i + 1 .. m + q
        BY <1>2
      <4>2. lines[m + j].key # lines[i].key
        BY <2>1, <4>1 DEF Final
      <4> QED BY <1>2, <4>2
    <3> QED BY <3>1, <3>2 DEF Final
  <2>2. ASSUME Final(L, i, m), \A j \in 1 .. q : D[j].key # L[i].key,
               NEW h \in i + 1 .. m + q
        PROVE  lines[h].key # lines[i].key
    <3>1. CASE h <= m
      <4>1. h \in i + 1 .. m /\ h \in 1 .. m
        BY <1>2, <3>1
      <4>2. L[h].key # L[i].key
        BY <2>2, <4>1 DEF Final
      <4> QED BY <1>2, <4>1, <4>2
    <3>2. CASE ~ (h <= m)
      <4>1. PICK j : j = h - m
        OBVIOUS
      <4>2. j \in 1 .. q /\ h = m + j
        BY <1>2, <3>2, <4>1
      <4> QED BY <1>2, <2>2, <4>2
    <3> QED BY <3>1, <3>2
  <2> QED BY <2>1, <2>2 DEF Final
<1>4. ASSUME NEW j \in 1 .. q
      PROVE  Final(lines, m + j, m + q) <=> Final(D, j, q)
  <2>1. ASSUME Final(lines, m + j, m + q), NEW h \in j + 1 .. q
        PROVE  D[h].key # D[j].key
    <3>1. h \in 1 .. q /\ m + h \in m + j + 1 .. m + q
      BY <1>2
    <3>2. lines[m + h].key # lines[m + j].key
      BY <1>2, <2>1, <3>1 DEF Final
    <3> QED BY <1>2, <3>1, <3>2
  <2>2. ASSUME Final(D, j, q), NEW h \in m + j + 1 .. m + q
        PROVE  lines[h].key # lines[m + j].key
    <3>1. PICK g : g = h - m
      OBVIOUS
    <3>2. g \in j + 1 .. q /\ g \in 1 .. q /\ h = m + g
      BY <1>2, <3>1
    <3>3. D[g].key # D[j].key
      BY <2>2, <3>2 DEF Final
    <3> QED BY <1>2, <3>2, <3>3
  <2> QED BY <2>1, <2>2 DEF Final
<1> QED BY <1>1, <1>2, <1>3, <1>4 DEF LinesOf

\* A table holds the last deleted row of each key, and the last live one of those
\* keys that have no deleted row.
Expected(live, gone) ==
    {gone[k] : k \in {j \in DOMAIN gone : LastWith(gone, j, TRUE)}} \cup
    {live[k] : k \in {j \in DOMAIN live :
                 LastWith(live, j, FALSE) /\ ~ HasDeleted(gone, live[j].key)}}

LEMMA DumpLoaded ==
    ASSUME NEW Row, NEW live \in Seq(Row), NEW gone \in Seq(Row),
           \A r \in Row : r.deleted \in BOOLEAN
    PROVE  Loaded({}, Dump(live, gone)) = Expected(live, gone)
<1>1. PICK lines, L, D : lines = Dump(live, gone) /\ L = Live(live) /\ D = Deleted(gone)
  OBVIOUS
<1>2. lines \in Seq(Row) /\ L \in Seq(Row) /\ D \in Seq(Row)
  BY <1>1, DumpFacts
<1>3. PICK a, b : DumpFrom(lines, L, D, a, b, live, gone)
  BY <1>1, DumpFacts
<1>4. PICK S, T : /\ S = {k \in DOMAIN live : ~ live[k].deleted}
                  /\ T = {k \in DOMAIN gone : gone[k].deleted}
  OBVIOUS
<1>5. /\ lines = L \o D /\ IsSelection(L, a, live, S, Len(live))
      /\ IsSelection(D, b, gone, T, Len(gone))
  BY <1>3, <1>4 DEF DumpFrom
<1>6. /\ \A k \in 1 .. Len(live) : live[k].deleted \in BOOLEAN
      /\ \A k \in 1 .. Len(live) : k \in S <=> live[k].deleted = FALSE
      /\ \A k \in 1 .. Len(gone) : gone[k].deleted \in BOOLEAN
      /\ \A k \in 1 .. Len(gone) : k \in T <=> gone[k].deleted = TRUE
      /\ DOMAIN live = 1 .. Len(live) /\ DOMAIN gone = 1 .. Len(gone)
      /\ Len(live) \in Nat /\ Len(gone) \in Nat /\ Len(L) \in Nat /\ Len(D) \in Nat
  BY <1>2, <1>4
<1>7. \A i \in 1 .. Len(L) : Final(L, i, Len(L)) <=> LastWith(live, a[i], FALSE)
  BY <1>5, <1>6, FinalOfKind
<1>8. \A j \in 1 .. Len(D) : Final(D, j, Len(D)) <=> LastWith(gone, b[j], TRUE)
  BY <1>5, <1>6, FinalOfKind
<1>9. /\ \A i \in 1 .. Len(L) : a[i] \in DOMAIN live /\ L[i] = live[a[i]]
      /\ \A k \in DOMAIN live : ~ live[k].deleted => \E i \in 1 .. Len(L) : a[i] = k
      /\ \A j \in 1 .. Len(D) : b[j] \in DOMAIN gone /\ D[j] = gone[b[j]] /\ gone[b[j]].deleted
      /\ \A k \in DOMAIN gone : gone[k].deleted => \E j \in 1 .. Len(D) : b[j] = k
  <2>1. \A i \in 1 .. Len(L) : a[i] \in DOMAIN live /\ L[i] = live[a[i]]
    BY <1>5, <1>6 DEF IsSelection
  <2>2. \A k \in DOMAIN live : ~ live[k].deleted => \E i \in 1 .. Len(L) : a[i] = k
    BY <1>4, <1>5, <1>6 DEF IsSelection
  <2>3. \A j \in 1 .. Len(D) : b[j] \in DOMAIN gone /\ D[j] = gone[b[j]] /\ gone[b[j]].deleted
    BY <1>4, <1>5, <1>6 DEF IsSelection
  <2>4. \A k \in DOMAIN gone : gone[k].deleted => \E j \in 1 .. Len(D) : b[j] = k
    BY <1>4, <1>5, <1>6 DEF IsSelection
  <2> QED BY <2>1, <2>2, <2>3, <2>4
<1>10. \A key1 : HasDeleted(gone, key1) <=> \E j \in 1 .. Len(D) : D[j].key = key1
  <2> SUFFICES ASSUME NEW key1
               PROVE  HasDeleted(gone, key1) <=> \E j \in 1 .. Len(D) : D[j].key = key1
    OBVIOUS
  <2>1. ASSUME HasDeleted(gone, key1) PROVE \E j \in 1 .. Len(D) : D[j].key = key1
    <3>1. PICK k \in DOMAIN gone : gone[k].key = key1 /\ gone[k].deleted
      BY <2>1 DEF HasDeleted
    <3>2. PICK j \in 1 .. Len(D) : b[j] = k
      BY <1>9, <3>1
    <3> QED BY <1>9, <3>1, <3>2
  <2>2. ASSUME NEW j \in 1 .. Len(D), D[j].key = key1 PROVE HasDeleted(gone, key1)
    BY <1>9, <2>2 DEF HasDeleted
  <2> QED BY <2>1, <2>2
<1>11. /\ Len(lines) = Len(L) + Len(D)
       /\ \A i \in 1 .. Len(L) :
             /\ lines[i] = L[i]
             /\ Final(lines, i, Len(lines)) <=>
                  Final(L, i, Len(L)) /\ \A j \in 1 .. Len(D) : D[j].key # L[i].key
       /\ \A j \in 1 .. Len(D) :
             /\ lines[Len(L) + j] = D[j]
             /\ Final(lines, Len(L) + j, Len(lines)) <=> Final(D, j, Len(D))
  <2>1. LinesOf(L \o D, L, D)
    BY <1>2, FinalInDump
  <2>2. LinesOf(lines, L, D)
    BY <1>5, <2>1
  <2> QED BY <2>2 DEF LinesOf
<1>12. \A r : r \in Loaded({}, lines) <=>
                \E i \in 1 .. Len(lines) : r = lines[i] /\ Final(lines, i, Len(lines))
  BY <1>2, LoadedFacts
<1> DEFINE G == {k \in DOMAIN gone : LastWith(gone, k, TRUE)}
           V == {k \in DOMAIN live : LastWith(live, k, FALSE) /\ ~ HasDeleted(gone, live[k].key)}
<1>13. ASSUME NEW r \in Loaded({}, lines)
       PROVE  (\E k \in G : r = gone[k]) \/ \E k \in V : r = live[k]
  <2>1. PICK i \in 1 .. Len(lines) : r = lines[i] /\ Final(lines, i, Len(lines))
    BY <1>12
  <2>2. CASE i <= Len(L)
    <3>1. i \in 1 .. Len(L)
      BY <1>6, <2>2
    <3>2. r = live[a[i]] /\ a[i] \in DOMAIN live
      BY <1>9, <1>11, <2>1, <3>1
    <3>3. LastWith(live, a[i], FALSE) /\ \A j \in 1 .. Len(D) : D[j].key # L[i].key
      BY <1>7, <1>11, <2>1, <3>1
    <3>4. ~ HasDeleted(gone, live[a[i]].key)
      BY <1>9, <1>10, <3>1, <3>3
    <3> QED BY <3>2, <3>3, <3>4
  <2>3. CASE ~ (i <= Len(L))
    <3>1. PICK j : j = i - Len(L)
      OBVIOUS
    <3>2. j \in 1 .. Len(D) /\ i = Len(L) + j
      BY <1>6, <1>11, <2>3, <3>1
    <3>3. r = gone[b[j]] /\ b[j] \in DOMAIN gone
      BY <1>9, <1>11, <2>1, <3>2
    <3>4. LastWith(gone, b[j], TRUE)
      BY <1>8, <1>11, <2>1, <3>2
    <3> QED BY <3>3, <3>4
  <2> QED BY <2>2, <2>3
<1>14. ASSUME NEW k \in G
       PROVE  gone[k] \in Loaded({}, lines)
  <2>1. k \in DOMAIN gone /\ LastWith(gone, k, TRUE) /\ gone[k].deleted
    BY DEF LastWith
  <2>2. PICK j \in 1 .. Len(D) : b[j] = k
    BY <1>9, <2>1
  <2>3. Len(L) + j \in 1 .. Len(lines)
    BY <1>6, <1>11
  <2>4. lines[Len(L) + j] = gone[k] /\ Final(lines, Len(L) + j, Len(lines))
    BY <1>8, <1>9, <1>11, <2>1, <2>2
  <2> QED BY <1>12, <2>3, <2>4
<1>15. ASSUME NEW k \in V
       PROVE  live[k] \in Loaded({}, lines)
  <2>1. /\ k \in DOMAIN live /\ LastWith(live, k, FALSE) /\ ~ live[k].deleted
        /\ ~ HasDeleted(gone, live[k].key)
    BY DEF LastWith
  <2>2. PICK i \in 1 .. Len(L) : a[i] = k
    BY <1>9, <2>1
  <2>3. i \in 1 .. Len(lines)
    BY <1>6, <1>11
  <2>4. lines[i] = live[k] /\ Final(lines, i, Len(lines))
    BY <1>7, <1>9, <1>10, <1>11, <2>1, <2>2
  <2> QED BY <1>12, <2>3, <2>4
<1>16. Loaded({}, lines) = {gone[k] : k \in G} \cup {live[k] : k \in V}
  BY <1>13, <1>14, <1>15
<1> QED BY <1>1, <1>16 DEF Expected

\* It holds a row for each key, and no second one.
LEMMA DumpKeys ==
    ASSUME NEW Row, NEW live \in Seq(Row), NEW gone \in Seq(Row),
           NEW found, found = ToSet(Live(live)) \cup ToSet(Deleted(gone))
    PROVE  /\ \A c \in found : \E r \in Loaded({}, Dump(live, gone)) : r.key = c.key
           /\ Loaded({}, Dump(live, gone)) \subseteq found
           /\ \A r, s \in Loaded({}, Dump(live, gone)) : r.key = s.key => r = s
<1>1. PICK lines, L, D : lines = Dump(live, gone) /\ L = Live(live) /\ D = Deleted(gone)
  OBVIOUS
<1>2. L \in Seq(Row) /\ D \in Seq(Row) /\ lines \in Seq(Row) /\ lines = L \o D
  BY <1>1, DumpFacts DEF DumpFrom
<1>3. /\ Len(lines) = Len(L) + Len(D) /\ Len(L) \in Nat /\ Len(D) \in Nat
      /\ \A i \in 1 .. Len(L) : lines[i] = L[i]
      /\ \A j \in 1 .. Len(D) : lines[Len(L) + j] = D[j]
  BY <1>2
<1>4. /\ \A r : r \in Loaded({}, lines) <=>
                   \E i \in 1 .. Len(lines) : r = lines[i] /\ Final(lines, i, Len(lines))
      /\ \A i \in 1 .. Len(lines) : \E r \in Loaded({}, lines) : r.key = lines[i].key
  BY <1>2, LoadedFacts
<1>5. found = {L[i] : i \in 1 .. Len(L)} \cup {D[j] : j \in 1 .. Len(D)}
  BY <1>1, <1>2 DEF ToSet
<1>6. ASSUME NEW c \in found
      PROVE  \E i \in 1 .. Len(lines) : c = lines[i]
  <2>1. CASE \E i \in 1 .. Len(L) : c = L[i]
    <3>1. PICK i \in 1 .. Len(L) : c = L[i]
      BY <2>1
    <3>2. i \in 1 .. Len(lines)
      BY <1>3
    <3> QED BY <1>3, <3>1, <3>2
  <2>2. CASE \E j \in 1 .. Len(D) : c = D[j]
    <3>1. PICK j \in 1 .. Len(D) : c = D[j]
      BY <2>2
    <3>2. Len(L) + j \in 1 .. Len(lines)
      BY <1>3
    <3> QED BY <1>3, <3>1, <3>2
  <2> QED BY <1>5, <2>1, <2>2
<1>7. ASSUME NEW i \in 1 .. Len(lines)
      PROVE  lines[i] \in found
  <2>1. CASE i <= Len(L)
    BY <1>3, <1>5, <2>1
  <2>2. CASE ~ (i <= Len(L))
    <3>1. PICK j : j = i - Len(L)
      OBVIOUS
    <3>2. j \in 1 .. Len(D) /\ i = Len(L) + j
      BY <1>3, <2>2, <3>1
    <3> QED BY <1>3, <1>5, <3>2
  <2> QED BY <2>1, <2>2
<1>8. ASSUME NEW r \in Loaded({}, lines), NEW s \in Loaded({}, lines), r.key = s.key
      PROVE  r = s
  <2>1. PICK i \in 1 .. Len(lines) : r = lines[i] /\ Final(lines, i, Len(lines))
    BY <1>4
  <2>2. PICK j \in 1 .. Len(lines) : s = lines[j] /\ Final(lines, j, Len(lines))
    BY <1>4
  <2>3. ~ (i < j)
    <3>1. i < j => j \in i + 1 .. Len(lines)
      OBVIOUS
    <3> QED BY <1>8, <2>1, <2>2, <3>1 DEF Final
  <2>4. ~ (j < i)
    <3>1. j < i => i \in j + 1 .. Len(lines)
      OBVIOUS
    <3> QED BY <1>8, <2>1, <2>2, <3>1 DEF Final
  <2>5. i = j
    BY <2>3, <2>4
  <2> QED BY <2>1, <2>2, <2>5
<1>9. \A c \in found : \E r \in Loaded({}, lines) : r.key = c.key
  BY <1>4, <1>6
<1>10. Loaded({}, lines) \subseteq found
  <2> SUFFICES ASSUME NEW r \in Loaded({}, lines) PROVE r \in found
    OBVIOUS
  <2>1. PICK i \in 1 .. Len(lines) : r = lines[i]
    BY <1>4
  <2> QED BY <1>7, <2>1
<1> QED BY <1>1, <1>8, <1>9, <1>10
-----------------------------------------------------------------------------
(***************************************************************************)
(* What the dumps hold while the script goes through the tables            *)
(***************************************************************************)

\* The pages are those that were read, and perhaps more from workers that have
\* lost their parents.
Grown(read) ==
    /\ read \in Seq(Rows) /\ Len(read) <= Len(pages)
    /\ \A k \in 1 .. Len(read) : read[k] = pages[k]
    /\ \A k \in Len(read) + 1 .. Len(pages) : k \in stray

\* The dump of a table is that of its page file.
Copied(x) ==
    /\ dumps[x] = Dump(ReadLive(x), ReadDeleted(x))
    /\ Grown(dumped[x].live) /\ Grown(dumped[x].deleted)

\* The tables before the t-th are dumped, the t-th one perhaps by half; later on
\* all of them are.
DumpInv ==
    /\ dumps \in [Tables -> Seq(Rows)] /\ t \in 1 .. Len(TableOrder)
    /\ dumped \in [Tables -> [live : Seq(Rows), deleted : Seq(Rows)]]
    /\ script \in {"live", "deleted"} => \A k \in 1 .. t - 1 : Copied(TableOrder[k])
    /\ script = "deleted" =>
          dumps[Table] = Live(ReadLive(Table)) /\ Grown(dumped[Table].live)
    /\ script = "database" => t = 1
    /\ script \in {"database", "create", "load", "done"} => \A x \in Tables : Copied(x)

LEMMA OrderFacts ==
    /\ Len(TableOrder) \in Nat /\ Len(TableOrder) > 0
    /\ \A k \in 1 .. Len(TableOrder) : TableOrder[k] \in Tables
    /\ \A x \in Tables : \E k \in 1 .. Len(TableOrder) : TableOrder[k] = x
    /\ \A j, k \in 1 .. Len(TableOrder) : TableOrder[j] = TableOrder[k] => j = k
BY OrderAssumption

LEMMA RowsOfPages ==
    ASSUME PagesMirrorImage, NEW x
    PROVE  /\ PageFile(x) \in Seq(Rows) /\ Live(PageFile(x)) \in Seq(Rows)
           /\ Deleted(PageFile(x)) \in Seq(Rows)
           /\ Grown(pages)
<1>1. pages \in Seq(Rows)
  BY DEF PagesMirrorImage, StrayInv
<1>2. PageFile(x) \in Seq(Rows)
  BY <1>1, SelectedFacts DEF PageFile, RowsOf
<1>3. Grown(pages)
  BY <1>1 DEF Grown
<1> QED BY <1>2, <1>3, SelectedFacts DEF Live, Deleted

\* What was read stays the beginning of the pages, but for those of the others.
LEMMA GrownKept ==
    ASSUME PagesMirrorImage, ScanInv, NEW read, Grown(read),
           OrphanSaves \/ UNCHANGED <<pages, stray>>
    PROVE  Grown(read)'
<1>1. CASE UNCHANGED <<pages, stray>>
  BY <1>1 DEF Grown
<1>2. CASE OrphanSaves
  <2>1. PICK r \in Rows : pages' = Append(pages, r) /\ stray' = stray \cup {Len(pages) + 1}
    BY <1>2, StrayNotOwn
  <2>2. pages \in Seq(Rows) /\ Len(pages) \in Nat
    BY DEF PagesMirrorImage, StrayInv
  <2>3. Len(pages') = Len(pages) + 1 /\ \A k \in 1 .. Len(pages) : pages'[k] = pages[k]
    BY <2>1, <2>2
  <2>4. /\ read \in Seq(Rows) /\ Len(read) \in Nat /\ Len(read) <= Len(pages)
        /\ \A k \in 1 .. Len(read) : read[k] = pages[k]
        /\ \A k \in Len(read) + 1 .. Len(pages) : k \in stray
    BY DEF Grown
  <2>5. Len(read) <= Len(pages') /\ \A k \in 1 .. Len(read) : read[k] = pages'[k]
    BY <2>2, <2>3, <2>4
  <2>6. ASSUME NEW k \in Len(read) + 1 .. Len(pages') PROVE k \in stray'
    <3>1. k = Len(pages) + 1 \/ k \in Len(read) + 1 .. Len(pages)
      BY <2>2, <2>3, <2>4
    <3> QED BY <2>1, <2>4, <3>1
  <2> QED BY <2>4, <2>5, <2>6 DEF Grown
<1> QED BY <1>1, <1>2

LEMMA InitDumpInv == Init => DumpInv
<1> SUFFICES ASSUME Init PROVE DumpInv
  OBVIOUS
<1>1. /\ script = "idle" /\ t = 1 /\ dumps = [x \in Tables |-> << >>]
      /\ dumped = [x \in Tables |-> NotRead]
  BY DEF Init, ScriptInit
<1>2. << >> \in Seq(Rows)
  OBVIOUS
<1>3. NotRead \in [live : Seq(Rows), deleted : Seq(Rows)]
  BY <1>2 DEF NotRead
<1>4. dumps \in [Tables -> Seq(Rows)] /\ t \in 1 .. Len(TableOrder)
  BY <1>1, <1>2, OrderFacts
<1>5. dumped \in [Tables -> [live : Seq(Rows), deleted : Seq(Rows)]]
  BY <1>1, <1>3
<1> QED BY <1>1, <1>4, <1>5 DEF DumpInv

\* The script does nothing, and the pages are not in use or only grow.
LEMMA DumpFrame ==
    ASSUME IInv, DumpInv, UNCHANGED scriptVars,
           script \notin Busy \/ OrphanSaves \/ UNCHANGED <<pages, stray>>
    PROVE  DumpInv'
<1>1. script' = script /\ t' = t /\ dumps' = dumps /\ dumped' = dumped
  BY DEF scriptVars
<1>2. CASE script \notin Busy
  BY <1>1, <1>2 DEF DumpInv, Busy
<1>3. CASE OrphanSaves \/ UNCHANGED <<pages, stray>>
  <2>1. \A read : Grown(read) => Grown(read)'
    BY <1>3, GrownKept DEF IInv
  <2>2. \A x : ReadLive(x)' = ReadLive(x) /\ ReadDeleted(x)' = ReadDeleted(x)
    BY <1>1 DEF ReadLive, ReadDeleted
  <2>3. ASSUME NEW x, Copied(x) PROVE Copied(x)'
    BY <1>1, <2>1, <2>2, <2>3 DEF Copied
  <2>4. Table' = Table
    BY <1>1 DEF Table
  <2>5. ASSUME script = "deleted"
        PROVE  (dumps[Table] = Live(ReadLive(Table)) /\ Grown(dumped[Table].live))'
    <3>1. dumps[Table] = Live(ReadLive(Table)) /\ Grown(dumped[Table].live)
      BY <2>5 DEF DumpInv
    <3>2. Grown(dumped[Table].live)'
      BY <1>1, <2>1, <2>4, <3>1
    <3>3. ReadLive(Table)' = ReadLive(Table)
      BY <1>1, <2>4 DEF ReadLive
    <3> QED BY <1>1, <2>4, <3>1, <3>2, <3>3
  <2> QED BY <1>1, <2>3, <2>5 DEF DumpInv
<1> QED BY <1>2, <1>3

\* A script that begins, or has failed, has nothing to keep.
LEMMA DumpRestart ==
    ASSUME DumpInv, dumps' = dumps,
           dumped' = dumped \/ dumped' = [x \in Tables |-> NotRead],
           \/ script' = "live" /\ t' = 1
           \/ script' \in {"idle", "failed"} /\ t' \in {1, t}
    PROVE  DumpInv'
<1>1. t' \in 1 .. Len(TableOrder)
  BY OrderFacts DEF DumpInv
<1>2. \A k \in 1 .. t' - 1 : script' = "live" => FALSE
  OBVIOUS
<1>3. dumps' \in [Tables -> Seq(Rows)]
  BY DEF DumpInv
<1>4. dumped' \in [Tables -> [live : Seq(Rows), deleted : Seq(Rows)]]
  <2>1. NotRead \in [live : Seq(Rows), deleted : Seq(Rows)]
    <3>1. << >> \in Seq(Rows)
      OBVIOUS
    <3> QED BY <3>1 DEF NotRead
  <2> QED BY <2>1 DEF DumpInv
<1> QED BY <1>1, <1>2, <1>3, <1>4 DEF DumpInv

\* A table that is not the one at work keeps its dump.
LEMMA CopiedKept ==
    ASSUME NEW x, NEW y, Copied(y), UNCHANGED <<pages, stray>>,
           dumps'[y] = dumps[y], dumped'[y] = dumped[y]
    PROVE  Copied(y)'
BY DEF Copied, Grown, ReadLive, ReadDeleted

LEMMA DumpLiveKeepsDumpInv ==
    ASSUME IInv, DumpInv, DumpLive, UNCHANGED scanVars
    PROVE  DumpInv'
<1>1. PICK x, rows : x = Table /\ rows = PageFile(Table)
  OBVIOUS
<1>2. /\ script = "live" /\ dumps' = [dumps EXCEPT ![x] = Live(rows)]
      /\ script' \in {"failed", "deleted"} /\ t' = t
      /\ dumped' = [dumped EXCEPT ![x].live = pages]
      /\ pages' = pages /\ stray' = stray
  BY <1>1 DEF DumpLive, scanVars, orphanVars
<1>3. PagesMirrorImage /\ pages \in Seq(Rows)
  BY DEF IInv, PagesMirrorImage, StrayInv
<1>4. /\ dumps \in [Tables -> Seq(Rows)] /\ t \in 1 .. Len(TableOrder)
      /\ dumped \in [Tables -> [live : Seq(Rows), deleted : Seq(Rows)]]
      /\ \A k \in 1 .. t - 1 : Copied(TableOrder[k])
  BY <1>2 DEF DumpInv
<1>5. x \in Tables /\ x = TableOrder[t]
  BY <1>1, <1>4, OrderFacts DEF Table
<1>6. Live(rows) \in Seq(Rows) /\ rows = RowsOf(pages, x) /\ Grown(pages)
  BY <1>1, <1>3, RowsOfPages DEF PageFile
<1>7. dumps' \in [Tables -> Seq(Rows)] /\ dumps'[x] = Live(rows)
  BY <1>2, <1>4, <1>5, <1>6
<1>8. /\ dumped' \in [Tables -> [live : Seq(Rows), deleted : Seq(Rows)]]
      /\ dumped'[x].live = pages
      /\ \A y \in Tables \ {x} : dumped'[y] = dumped[y]
  BY <1>2, <1>3, <1>4, <1>5
<1>9. ASSUME NEW k \in 1 .. t - 1 PROVE Copied(TableOrder[k])'
  <2>1. TableOrder[k] # x /\ TableOrder[k] \in Tables
    <3>1. k \in 1 .. Len(TableOrder) /\ k # t
      BY <1>4, OrderFacts
    <3> QED BY <1>4, <1>5, <3>1, OrderFacts
  <2>2. dumps'[TableOrder[k]] = dumps[TableOrder[k]]
    BY <1>2, <1>4, <2>1
  <2>3. dumped'[TableOrder[k]] = dumped[TableOrder[k]]
    BY <1>8, <2>1
  <2> QED BY <1>2, <1>4, <2>2, <2>3, CopiedKept
<1>10. (dumps[Table] = Live(ReadLive(Table)) /\ Grown(dumped[Table].live))'
  <2>1. Table' = x
    BY <1>2, <1>5 DEF Table
  <2>2. Grown(pages)'
    BY <1>2, <1>6 DEF Grown
  <2>3. ReadLive(Table)' = rows
    BY <1>6, <1>8, <2>1 DEF ReadLive
  <2>4. Grown(dumped[Table].live)'
    BY <1>2, <1>8, <2>1, <2>2
  <2> QED BY <1>7, <2>1, <2>3, <2>4
<1> QED BY <1>2, <1>4, <1>7, <1>8, <1>9, <1>10 DEF DumpInv

LEMMA DumpDeletedKeepsDumpInv ==
    ASSUME IInv, DumpInv, DumpDeleted, UNCHANGED scanVars
    PROVE  DumpInv'
<1>1. PICK x, rows : x = Table /\ rows = PageFile(Table)
  OBVIOUS
<1>2. /\ script = "deleted"
      /\ dumped' = [dumped EXCEPT ![x].deleted = pages]
      /\ dumps' = [dumps EXCEPT ![x] = Appended(@, Deleted(rows))]
      /\ IF t < Len(TableOrder) THEN script' = "live" /\ t' = t + 1
         ELSE script' = "database" /\ t' = 1
      /\ pages' = pages /\ stray' = stray
  BY <1>1 DEF DumpDeleted, scanVars, orphanVars
<1>3. PagesMirrorImage /\ pages \in Seq(Rows)
  BY DEF IInv, PagesMirrorImage, StrayInv
<1>4. /\ dumps \in [Tables -> Seq(Rows)] /\ t \in 1 .. Len(TableOrder)
      /\ dumped \in [Tables -> [live : Seq(Rows), deleted : Seq(Rows)]]
      /\ \A k \in 1 .. t - 1 : Copied(TableOrder[k])
      /\ dumps[x] = Live(ReadLive(x)) /\ Grown(dumped[x].live)
  BY <1>1, <1>2 DEF DumpInv
<1>5. x \in Tables /\ x = TableOrder[t]
  BY <1>1, <1>4, OrderFacts DEF Table
<1>6. PICK live : live = ReadLive(x)
  OBVIOUS
<1>7. /\ Live(live) \in Seq(Rows) /\ Deleted(rows) \in Seq(Rows)
      /\ rows = RowsOf(pages, x) /\ Grown(pages)
  <2>1. dumped[x].live \in Seq(Rows)
    BY <1>4, <1>5
  <2>2. live \in Seq(Rows)
    BY <1>6, <2>1, SelectedFacts DEF ReadLive, RowsOf
  <2>3. Live(live) \in Seq(Rows)
    BY <2>2, SelectedFacts DEF Live
  <2> QED BY <1>1, <1>3, <2>3, RowsOfPages DEF PageFile
<1>8. Appended(Live(live), Deleted(rows)) \in Seq(Rows)
  BY <1>7 DEF Appended
<1>9. dumps' \in [Tables -> Seq(Rows)] /\ dumps'[x] = Dump(live, rows)
  BY <1>2, <1>4, <1>5, <1>6, <1>8 DEF Dump
<1>10. /\ dumped' \in [Tables -> [live : Seq(Rows), deleted : Seq(Rows)]]
       /\ dumped'[x].live = dumped[x].live /\ dumped'[x].deleted = pages
       /\ \A y \in Tables \ {x} : dumped'[y] = dumped[y]
  BY <1>2, <1>3, <1>4, <1>5
<1>11. Copied(x)'
  <2>1. ReadLive(x)' = live /\ ReadDeleted(x)' = rows
    BY <1>6, <1>7, <1>10 DEF ReadLive, ReadDeleted
  <2>2. Grown(dumped[x].live)' /\ Grown(dumped[x].deleted)'
    BY <1>2, <1>4, <1>7, <1>10 DEF Grown
  <2> QED BY <1>9, <2>1, <2>2 DEF Copied
<1>12. ASSUME NEW k \in 1 .. t PROVE Copied(TableOrder[k])'
  <2>1. CASE k = t
    BY <1>5, <1>11, <2>1
  <2>2. CASE k # t
    <3>1. k \in 1 .. Len(TableOrder) /\ k \in 1 .. t - 1
      BY <1>4, <2>2, OrderFacts
    <3>2. TableOrder[k] # x /\ TableOrder[k] \in Tables
      BY <1>4, <1>5, <2>2, <3>1, OrderFacts
    <3>3. dumps'[TableOrder[k]] = dumps[TableOrder[k]]
      BY <1>2, <1>4, <3>2
    <3>4. dumped'[TableOrder[k]] = dumped[TableOrder[k]]
      BY <1>10, <3>2
    <3> QED BY <1>2, <1>4, <3>1, <3>3, <3>4, CopiedKept
  <2> QED BY <2>1, <2>2
<1>13. CASE t < Len(TableOrder)
  <2>1. script' = "live" /\ t' = t + 1 /\ t' \in 1 .. Len(TableOrder)
    BY <1>2, <1>4, <1>13, OrderFacts
  <2>2. 1 .. t' - 1 = 1 .. t
    BY <1>4, <2>1
  <2> QED BY <1>9, <1>10, <1>12, <2>1, <2>2 DEF DumpInv
<1>14. CASE ~ (t < Len(TableOrder))
  <2>1. script' = "database" /\ t' = 1 /\ t' \in 1 .. Len(TableOrder)
    BY <1>2, <1>14, OrderFacts
  <2>2. 1 .. t = 1 .. Len(TableOrder)
    BY <1>4, <1>14, OrderFacts
  <2>3. ASSUME NEW y \in Tables PROVE Copied(y)'
    <3>1. PICK k \in 1 .. Len(TableOrder) : TableOrder[k] = y
      BY OrderFacts
    <3> QED BY <1>12, <2>2, <3>1
  <2> QED BY <1>9, <1>10, <2>1, <2>3 DEF DumpInv
<1> QED BY <1>13, <1>14

LEMMA LoadKeepsDumpInv ==
    ASSUME DumpInv, CreateDatabase \/ CreateTable \/ LoadTable, UNCHANGED scanVars
    PROVE  DumpInv'
<1>1. /\ dumps' = dumps /\ dumped' = dumped
      /\ script \in {"database", "create", "load"}
      /\ script' \in {"create", "load", "done", "failed"}
      /\ t' = 1 \/ t' = t \/ (t < Len(TableOrder) /\ t' = t + 1)
  <2>1. CASE CreateDatabase
    BY <2>1 DEF CreateDatabase
  <2>2. CASE CreateTable
    BY <2>2 DEF CreateTable, Goto
  <2>3. CASE LoadTable
    BY <2>3 DEF LoadTable, Goto
  <2> QED BY <2>1, <2>2, <2>3
<1>2. t' \in 1 .. Len(TableOrder)
  BY <1>1, OrderFacts DEF DumpInv
<1>3. UNCHANGED <<pages, stray>>
  BY DEF scanVars, orphanVars
<1>4. \A x \in Tables : Copied(x)'
  BY <1>1, <1>3, CopiedKept DEF DumpInv
<1> QED BY <1>1, <1>2, <1>4 DEF DumpInv

LEMMA StepDumpInv ==
    ASSUME IInv, DumpInv, [Next]_vars
    PROVE  DumpInv'
<1>1. CASE Scan
  <2>1. UNCHANGED scriptVars
    BY <1>1 DEF Scan
  <2>2. script \notin Busy \/ OrphanSaves
    <3> SUFFICES ASSUME ~ OrphanSaves, script \in Busy PROVE FALSE
      OBVIOUS
    <3>1. scan = "success" /\ worker # "scans"
      BY DEF IInv, ScriptInv, ScanInv
    <3> QED BY <1>1, <3>1
        DEF Scan, ScanStep, ScanFault, RefuseToStart, StartScan, MakeDirectory, SavePage,
            EndScan, ReportScan, WorkerFails, InterruptScan
  <2> QED BY <2>1, <2>2, DumpFrame
<1>2. CASE OperatorCleansUp \/ OperatorRestarts
  <2>1. UNCHANGED scriptVars
    BY <1>2 DEF OperatorCleansUp, OperatorRestarts
  <2>2. script \notin Busy
    BY <1>2 DEF OperatorCleansUp, OperatorRestarts, IInv, ScriptInv, Busy
  <2> QED BY <2>1, <2>2, DumpFrame
<1>3. CASE Parser \/ UNCHANGED vars
  <2>1. UNCHANGED scriptVars /\ UNCHANGED <<pages, stray>>
    BY <1>3 DEF Parser, ParserStep, vars, scanVars, orphanVars
  <2> QED BY <2>1, DumpFrame
<1>4. CASE ScriptStep
  BY <1>4, DumpLiveKeepsDumpInv, DumpDeletedKeepsDumpInv, LoadKeepsDumpInv DEF ScriptStep
<1>5. CASE ScriptFails
  BY <1>5, DumpRestart DEF ScriptFails
<1>6. CASE OperatorRunsScript
  BY <1>6, DumpRestart DEF OperatorRunsScript, StartScript
<1>7. CASE OperatorRunsAgain \/ OperatorDropsTables
  BY <1>7, DumpRestart DEF OperatorRunsAgain, OperatorDropsTables, DropTables
<1> QED BY <1>1, <1>2, <1>3, <1>4, <1>5, <1>6, <1>7 DEF Next, Script
-----------------------------------------------------------------------------
(* What the script has read of the scan                                    *)

\* The scan's own pages are the same in all that was read.
LEMMA OwnOfGrown ==
    ASSUME PagesMirrorImage, NEW read, Grown(read)
    PROVE  Own(read) = Own(pages)
<1>1. PICK S, T : S = DOMAIN read \ stray /\ T = DOMAIN pages \ stray
  OBVIOUS
<1>2. /\ read \in Seq(Rows) /\ pages \in Seq(Rows) /\ Len(read) <= Len(pages)
      /\ \A k \in 1 .. Len(read) : read[k] = pages[k]
      /\ \A k \in Len(read) + 1 .. Len(pages) : k \in stray
      /\ DOMAIN read = 1 .. Len(read) /\ DOMAIN pages = 1 .. Len(pages)
  BY DEF Grown, PagesMirrorImage, StrayInv
<1>3. /\ \A k \in 1 .. Len(read) : k \in S <=> k \in T
      /\ \A k \in Len(read) + 1 .. Len(pages) : k \notin T
  BY <1>1, <1>2
<1>4. Agree(read, S, pages, T, Len(read))
  BY <1>2, <1>3 DEF Agree
<1>5. Selected(pages, T) = Selected(read, S)
  BY <1>2, <1>3, <1>4, SelectedSkips
<1> QED BY <1>1, <1>5 DEF Own

\* A script that has ended well has read all that is on the disk, or its
\* beginning if a worker died, and in their places among them pages of workers
\* whose parents were killed, if there are such workers: however often the
\* recovery was interrupted, no page of an earlier scan is among them
\* (stream_parser.c:340-367, 653-726).
THEOREM RecoveryLosesOnlyByDeadWorkers == Spec => []OnlyDeadWorkersLosePages
<1>1. ASSUME IInv, DumpInv, script = "done", NEW read \in Reads
      PROVE  /\ Own(read) # image =>
                  worker = "dead" /\ IsStrictPrefix(Own(read), image) /\ faults > 0
             /\ Own(read) # read =>
                  /\ \E k \in DOMAIN orphans : orphans[k] > 0
                  /\ ToSet(read) \subseteq ToSet(image)
  <2>1. PagesMirrorImage /\ ScanInv /\ scan = "success"
    BY <1>1 DEF IInv, ScriptInv, Busy
  <2>2. image \in Seq(Rows) /\ Len(image) \in Nat
    BY <2>1, ImageIsSequence
  <2>3. Grown(read)
    <3>1. PICK x \in Tables : read \in {dumped[x].live, dumped[x].deleted}
      BY <1>1 DEF Reads
    <3> QED BY <1>1, <3>1 DEF DumpInv, Copied
  <2>4. PICK own : own = Own(read)
    OBVIOUS
  <2>5. own \in Seq(Rows) /\ Len(own) = pos /\ pos \in 0 .. Len(image)
        /\ \A k \in 1 .. pos : own[k] = image[k]
    BY <2>1, <2>3, <2>4, OwnOfGrown DEF PagesMirrorImage, OwnMirrorsImage
  <2>6. ASSUME own # image
        PROVE  worker = "dead" /\ IsStrictPrefix(own, image) /\ faults > 0
    <3>1. pos # Len(image)
      BY <2>2, <2>5, <2>6
    <3>2. worker = "dead" /\ faults > 0
      BY <2>1, <3>1 DEF ScanInv
    <3>3. SubSeq(own, 1, Len(own)) = SubSeq(image, 1, Len(own))
      BY <2>2, <2>5
    <3>4. IsStrictPrefix(own, image)
      BY <2>2, <2>5, <2>6, <3>3 DEF IsStrictPrefix, IsPrefix
    <3> QED BY <3>2, <3>4
  <2>7. /\ read \in Seq(Rows) /\ Len(read) <= Len(pages)
        /\ \A k \in 1 .. Len(read) : read[k] = pages[k]
    BY <2>3 DEF Grown
  <2>8. ASSUME own # read
        PROVE  \E k \in DOMAIN orphans : orphans[k] > 0
    <3>1. stray # {}
      <4> SUFFICES ASSUME stray = {} PROVE own = read
        BY <2>8
      <4>1. PICK S : S = DOMAIN read \ stray
        OBVIOUS
      <4>2. \A k \in 1 .. Len(read) : k \in S
        BY <2>7, <4>1
      <4>3. Selected(read, S) = read
        BY <2>7, <4>2, SelectedAll
      <4> QED BY <2>4, <4>1, <4>3 DEF Own
    <3> QED BY <2>1, <3>1 DEF PagesMirrorImage, StrayInv
  <2>9. ToSet(read) \subseteq ToSet(image)
    <3>1. \A k \in 1 .. Len(pages) : pages[k] \in ToSet(image)
      BY <2>1 DEF PagesMirrorImage, StrayInv
    <3>2. pages \in Seq(Rows)
      BY <2>1 DEF PagesMirrorImage, StrayInv
    <3>3. ASSUME NEW r \in ToSet(read) PROVE r \in ToSet(image)
      <4>1. PICK k \in 1 .. Len(read) : r = read[k]
        BY <2>7 DEF ToSet
      <4>2. k \in 1 .. Len(pages)
        BY <2>7, <3>2
      <4> QED BY <2>7, <3>1, <4>1, <4>2
    <3> QED BY <3>3
  <2> QED BY <2>4, <2>6, <2>8, <2>9
<1>2. IInv /\ DumpInv => OnlyDeadWorkersLosePages
  BY <1>1 DEF OnlyDeadWorkersLosePages
<1>3. Init /\ [][Next]_vars => [](IInv /\ DumpInv)
  <2>1. Init => IInv /\ DumpInv
    BY InitIInv, InitDumpInv
  <2>2. IInv /\ DumpInv /\ [Next]_vars => (IInv /\ DumpInv)'
    BY StepIInv, StepDumpInv
  <2> QED BY <2>1, <2>2, PTL
<1> QED BY <1>2, <1>3, PTL DEF Spec
-----------------------------------------------------------------------------
(***************************************************************************)
(* What the server holds: the tables are empty until a dump is loaded      *)
(***************************************************************************)

Exists(k) == server[TableOrder[k]].exists
RowsIn(k) == server[TableOrder[k]].rows

ServerInv ==
    /\ server \in [Tables -> [exists : BOOLEAN, rows : SUBSET Rows]]
    /\ \A x \in Tables : ~ server[x].exists => server[x].rows = {}
    /\ script = "create" => \A k \in 1 .. t - 1 : Exists(k) /\ RowsIn(k) = {}
    /\ script = "load" =>
          /\ \A x \in Tables : server[x].exists
          /\ \A k \in 1 .. t - 1 : RowsIn(k) = Loaded({}, dumps[TableOrder[k]])
          /\ \A k \in t .. Len(TableOrder) : RowsIn(k) = {}
    /\ script = "done" => \A x \in Tables : server[x].rows = Loaded({}, dumps[x])

LEMMA EmptyServer ==
    ASSUME NEW s, s = [x \in Tables |-> Absent]
    PROVE  /\ s \in [Tables -> [exists : BOOLEAN, rows : SUBSET Rows]]
           /\ \A x \in Tables : s[x].rows = {}
<1>1. Absent \in [exists : BOOLEAN, rows : SUBSET Rows] /\ Absent.rows = {}
  BY DEF Absent
<1> QED BY <1>1

LEMMA InitServerInv == Init => ServerInv
<1> SUFFICES ASSUME Init PROVE ServerInv
  OBVIOUS
<1>1. script = "idle" /\ server = [x \in Tables |-> Absent]
  BY DEF Init, ScriptInit
<1> QED BY <1>1, EmptyServer DEF ServerInv

LEMMA ServerFrame ==
    ASSUME ServerInv, UNCHANGED scriptVars
    PROVE  ServerInv'
<1>1. script' = script /\ t' = t /\ dumps' = dumps /\ server' = server
  BY DEF scriptVars
<1> QED BY <1>1 DEF ServerInv, Exists, RowsIn

\* Before the first table is created the server may hold anything.
LEMMA ServerRestart ==
    ASSUME ServerInv, server' = server,
           script' \in {"idle", "live", "deleted", "database", "failed"}
    PROVE  ServerInv'
BY DEF ServerInv

LEMMA CreateKeepsServerInv ==
    ASSUME DumpInv, ServerInv, CreateTable
    PROVE  ServerInv'
<1>1. CASE ~ Creatable(Table)
  BY <1>1, ServerRestart DEF CreateTable
<1>2. CASE Creatable(Table)
  <2>1. PICK x : x = Table
    OBVIOUS
  <2>2. /\ script = "create" /\ server' = [server EXCEPT ![x].exists = TRUE] /\ Goto("load")
    BY <1>2, <2>1 DEF CreateTable
  <2>3. /\ server \in [Tables -> [exists : BOOLEAN, rows : SUBSET Rows]]
        /\ \A y \in Tables : ~ server[y].exists => server[y].rows = {}
        /\ \A k \in 1 .. t - 1 : Exists(k) /\ RowsIn(k) = {}
    BY <2>2 DEF ServerInv
  <2>4. t \in 1 .. Len(TableOrder) /\ x \in Tables /\ x = TableOrder[t]
    BY <2>1, OrderFacts DEF DumpInv, Table
  <2>5. ~ server[x].exists /\ server[x].rows = {}
    BY <1>2, <2>1, <2>3, <2>4 DEF Creatable
  <2>6. server' \in [Tables -> [exists : BOOLEAN, rows : SUBSET Rows]]
    <3>1. server[x] \in [exists : BOOLEAN, rows : SUBSET Rows]
      BY <2>3, <2>4
    <3>2. [server[x] EXCEPT !.exists = TRUE] \in [exists : BOOLEAN, rows : SUBSET Rows]
      BY <3>1
    <3>3. server' = [server EXCEPT ![x] = [server[x] EXCEPT !.exists = TRUE]]
      BY <2>2, <2>3, <2>4
    <3> QED BY <2>3, <2>4, <3>2, <3>3
  <2>7. ASSUME NEW y \in Tables
        PROVE  /\ server'[y].rows = server[y].rows
               /\ y = x \/ server[y].exists => server'[y].exists
    <3>1. CASE y = x
      <4>1. server'[x] = [server[x] EXCEPT !.exists = TRUE]
        BY <2>2, <2>3, <2>4
      <4>2. server[x] \in [exists : BOOLEAN, rows : SUBSET Rows]
        BY <2>3, <2>4
      <4> QED BY <3>1, <4>1, <4>2
    <3>2. CASE y # x
      BY <2>2, <2>3, <3>2
    <3> QED BY <3>1, <3>2
  <2>8. ASSUME NEW k \in 1 .. t PROVE Exists(k)' /\ RowsIn(k)' = {}
    <3>1. k \in 1 .. Len(TableOrder) /\ TableOrder[k] \in Tables
      BY <2>4, OrderFacts
    <3>2. (TableOrder[k] = x \/ Exists(k)) /\ RowsIn(k) = {}
      <4>1. CASE k = t
        BY <2>4, <2>5, <4>1 DEF RowsIn
      <4>2. CASE k # t
        <5>1. k \in 1 .. t - 1
          BY <2>4, <4>2, OrderFacts
        <5> QED BY <2>3, <5>1
      <4> QED BY <4>1, <4>2
    <3> QED BY <2>7, <3>1, <3>2 DEF Exists, RowsIn
  <2>9. CASE t < Len(TableOrder)
    <3>1. script' = "create" /\ t' = t + 1
      BY <2>2, <2>9 DEF Goto
    <3>2. 1 .. t' - 1 = 1 .. t
      BY <2>4, <3>1, OrderFacts
    <3> QED BY <2>3, <2>6, <2>7, <2>8, <3>1, <3>2 DEF ServerInv
  <2>10. CASE ~ (t < Len(TableOrder))
    <3>1. script' = "load" /\ t' = 1
      BY <2>2, <2>10 DEF Goto
    <3>2. t' .. Len(TableOrder) = 1 .. t /\ 1 .. t' - 1 = {}
      BY <2>4, <2>10, <3>1, OrderFacts
    <3>3. ASSUME NEW y \in Tables PROVE server'[y].exists
      <4>1. PICK k \in 1 .. t : TableOrder[k] = y
        BY <2>4, <2>10, OrderFacts
      <4> QED BY <2>8, <4>1 DEF Exists
    <3> QED BY <2>3, <2>6, <2>7, <2>8, <3>1, <3>2, <3>3 DEF ServerInv
  <2> QED BY <2>9, <2>10
<1> QED BY <1>1, <1>2

LEMMA LoadKeepsServerInv ==
    ASSUME DumpInv, ServerInv, LoadTable
    PROVE  ServerInv'
<1>1. PICK x, lines : x = Table /\ lines = dumps[Table]
  OBVIOUS
<1>2. /\ script = "load" /\ dumps' = dumps /\ Goto("done")
      /\ server' = [server EXCEPT ![x].rows = Loaded(@, lines)]
  BY <1>1 DEF LoadTable
<1>3. /\ server \in [Tables -> [exists : BOOLEAN, rows : SUBSET Rows]]
      /\ \A y \in Tables : server[y].exists
      /\ \A k \in 1 .. t - 1 : RowsIn(k) = Loaded({}, dumps[TableOrder[k]])
      /\ \A k \in t .. Len(TableOrder) : RowsIn(k) = {}
  BY <1>2 DEF ServerInv
<1>4. /\ t \in 1 .. Len(TableOrder) /\ x \in Tables /\ x = TableOrder[t]
      /\ lines \in Seq(Rows)
  BY <1>1, OrderFacts DEF DumpInv, Table
<1>5. server[x].rows = {}
  <2>1. t \in t .. Len(TableOrder)
    BY <1>4, OrderFacts
  <2> QED BY <1>3, <1>4, <2>1 DEF RowsIn
<1>6. Loaded({}, lines) \in SUBSET Rows
  BY <1>4, LoadedFacts
<1>7. /\ server' \in [Tables -> [exists : BOOLEAN, rows : SUBSET Rows]]
      /\ server'[x].rows = Loaded({}, lines)
  BY <1>2, <1>3, <1>4, <1>5, <1>6
<1>8. \A y \in Tables \ {x} : server'[y] = server[y]
  BY <1>2, <1>3
<1>9. \A y \in Tables : server'[y].exists
  BY <1>2, <1>3, <1>4
<1>10. ASSUME NEW k \in 1 .. t PROVE RowsIn(k)' = Loaded({}, dumps'[TableOrder[k]])
  <2>1. CASE k = t
    BY <1>1, <1>2, <1>4, <1>7, <2>1 DEF RowsIn
  <2>2. CASE k # t
    <3>1. k \in 1 .. Len(TableOrder) /\ k \in 1 .. t - 1
      BY <1>4, <2>2, OrderFacts
    <3>2. TableOrder[k] \in Tables \ {x}
      BY <1>4, <2>2, <3>1, OrderFacts
    <3> QED BY <1>2, <1>3, <1>8, <3>1, <3>2 DEF RowsIn
  <2> QED BY <2>1, <2>2
<1>11. ASSUME NEW k \in t + 1 .. Len(TableOrder) PROVE RowsIn(k)' = {}
  <2>1. k \in 1 .. Len(TableOrder) /\ k \in t .. Len(TableOrder) /\ k # t
    BY <1>4, OrderFacts
  <2>2. TableOrder[k] \in Tables \ {x}
    BY <1>4, <2>1, OrderFacts
  <2> QED BY <1>3, <1>8, <2>1, <2>2 DEF RowsIn
<1>12. CASE t < Len(TableOrder)
  <2>1. script' = "load" /\ t' = t + 1
    BY <1>2, <1>12 DEF Goto
  <2>2. 1 .. t' - 1 = 1 .. t
    BY <1>4, <2>1, OrderFacts
  <2> QED BY <1>7, <1>9, <1>10, <1>11, <2>1, <2>2 DEF ServerInv
<1>13. CASE ~ (t < Len(TableOrder))
  <2>1. script' = "done" /\ 1 .. t = 1 .. Len(TableOrder)
    BY <1>2, <1>4, <1>13, OrderFacts DEF Goto
  <2>2. ASSUME NEW y \in Tables PROVE server'[y].rows = Loaded({}, dumps'[y])
    <3>1. PICK k \in 1 .. Len(TableOrder) : TableOrder[k] = y
      BY OrderFacts
    <3> QED BY <1>10, <2>1, <3>1 DEF RowsIn
  <2> QED BY <1>7, <1>9, <2>1, <2>2 DEF ServerInv
<1> QED BY <1>12, <1>13

LEMMA StepServerInv ==
    ASSUME DumpInv, ServerInv, [Next]_vars
    PROVE  ServerInv'
<1>1. CASE \/ Scan \/ Parser \/ OperatorCleansUp \/ OperatorRestarts
           \/ UNCHANGED vars
  <2>1. UNCHANGED scriptVars
    BY <1>1 DEF Scan, Parser, ParserStep, OperatorCleansUp, OperatorRestarts, vars
  <2> QED BY <2>1, ServerFrame
<1>2. CASE ScriptStep
  <2>1. CASE DumpLive \/ DumpDeleted
    BY <2>1, ServerRestart DEF DumpLive, DumpDeleted
  <2>2. CASE CreateDatabase
    <3>1. script' = "create" /\ server' = server /\ t' = t /\ t = 1
      BY <2>2 DEF CreateDatabase, DumpInv
    <3>2. 1 .. t' - 1 = {}
      BY <3>1
    <3> QED BY <3>1, <3>2 DEF ServerInv
  <2> QED BY <1>2, <2>1, <2>2, CreateKeepsServerInv, LoadKeepsServerInv DEF ScriptStep
<1>3. CASE ScriptFails \/ OperatorRunsScript \/ OperatorRunsAgain
  BY <1>3, ServerRestart DEF ScriptFails, OperatorRunsScript, StartScript, OperatorRunsAgain
<1>4. CASE OperatorDropsTables
  <2>1. script' = "idle" /\ server' = [x \in Tables |-> Absent]
    BY <1>4 DEF OperatorDropsTables, DropTables
  <2> QED BY <2>1, EmptyServer DEF ServerInv
<1> QED BY <1>1, <1>2, <1>3, <1>4 DEF Next, Script
-----------------------------------------------------------------------------
LEMMA RowFacts ==
    ASSUME NEW r \in Rows
    PROVE  r.table \in Tables /\ r.deleted \in BOOLEAN
<1>1. PICK im \in Images : r \in ToSet(im)
  BY DEF Rows
<1>2. PICK k \in DOMAIN im : r = im[k]
  BY <1>1 DEF ToSet
<1> QED BY <1>2, ScanJobAssumption

\* A page file has the rows of one table.
LEMMA RowsOfFacts ==
    ASSUME NEW rows \in Seq(Rows), NEW x
    PROVE  /\ RowsOf(rows, x) \in Seq(Rows)
           /\ \A k \in DOMAIN RowsOf(rows, x) :
                 RowsOf(rows, x)[k] \in Rows /\ RowsOf(rows, x)[k].table = x
<1>1. PICK S, f : S = {k \in DOMAIN rows : rows[k].table = x} /\ f = RowsOf(rows, x)
  OBVIOUS
<1>2. f = Selected(rows, S)
  BY <1>1 DEF RowsOf
<1>3. f \in Seq(Rows) /\ \E ix : IsSelection(f, ix, rows, S, Len(rows))
  BY <1>2, SelectedFacts
<1>4. ASSUME NEW k \in DOMAIN f PROVE f[k] \in Rows /\ f[k].table = x
  BY <1>1, <1>3 DEF IsSelection
<1> QED BY <1>1, <1>3, <1>4

\* Rows that are selected from some of a table are some of that table.
LEMMA SelectedIn ==
    ASSUME NEW Row, NEW rows \in Seq(Row), NEW S
    PROVE  ToSet(Selected(rows, S)) \subseteq ToSet(rows)
<1>1. PICK s, ix : s = Selected(rows, S) /\ s \in Seq(Row) /\ IsSelection(s, ix, rows, S, Len(rows))
  BY SelectedFacts
<1>2. ASSUME NEW r \in ToSet(s) PROVE r \in ToSet(rows)
  <2>1. PICK i \in 1 .. Len(s) : r = s[i]
    BY <1>1, <1>2 DEF ToSet
  <2>2. ix[i] \in 1 .. Len(rows) /\ s[i] = rows[ix[i]]
    BY <1>1, <2>1 DEF IsSelection
  <2>3. ix[i] \in DOMAIN rows
    BY <2>2
  <2> QED BY <2>1, <2>2, <2>3 DEF ToSet
<1> QED BY <1>1, <1>2

\* When the script has ended well, a table is what loading its dump makes of it.
LEMMA DoneLoaded ==
    ASSUME IInv, DumpInv, ServerInv, script = "done", NEW x \in Tables
    PROVE  /\ server[x].rows = Loaded({}, Dump(ReadLive(x), ReadDeleted(x)))
           /\ ReadLive(x) \in Seq(Rows) /\ ReadDeleted(x) \in Seq(Rows)
           /\ DumpedRows(x) \subseteq {r \in Rows : r.table = x}
<1>1. dumped[x].live \in Seq(Rows) /\ dumped[x].deleted \in Seq(Rows)
  BY DEF DumpInv
<1>2. server[x].rows = Loaded({}, dumps[x]) /\ Copied(x)
  BY DEF DumpInv, ServerInv
<1>3. PICK live, gone : live = ReadLive(x) /\ gone = ReadDeleted(x)
  OBVIOUS
<1>4. /\ live \in Seq(Rows) /\ \A k \in DOMAIN live : live[k] \in Rows /\ live[k].table = x
      /\ gone \in Seq(Rows) /\ \A k \in DOMAIN gone : gone[k] \in Rows /\ gone[k].table = x
  BY <1>1, <1>3, RowsOfFacts DEF ReadLive, ReadDeleted
<1>5. ToSet(Live(live)) \subseteq ToSet(live) /\ ToSet(Deleted(gone)) \subseteq ToSet(gone)
  BY <1>4, SelectedIn DEF Live, Deleted
<1>6. ToSet(live) \subseteq {r \in Rows : r.table = x}
  BY <1>4 DEF ToSet
<1>7. ToSet(gone) \subseteq {r \in Rows : r.table = x}
  BY <1>4 DEF ToSet
<1>8. DumpedRows(x) = ToSet(Live(live)) \cup ToSet(Deleted(gone))
  BY <1>3 DEF DumpedRows
<1> QED BY <1>2, <1>3, <1>4, <1>5, <1>6, <1>7, <1>8 DEF Copied

\* When the script has ended well, a table has one row for each key of its page
\* file: its last deleted one, or its last one if none is deleted, whatever was
\* interrupted before, and of the page file as it was when c_parser read it, if
\* a worker without a parent goes on saving (recover_dictionary.sh:33-62).
THEOREM RecoveryTablesHoldPageFiles == Spec => []TablesHoldPageFiles
<1>1. ASSUME IInv, DumpInv, ServerInv PROVE TablesHoldPageFiles
  <2> SUFFICES ASSUME script = "done", NEW x \in Tables
               PROVE  server[x].rows = Expected(ReadLive(x), ReadDeleted(x))
    BY DEF TablesHoldPageFiles, Expected
  <2>1. PICK live, gone : live = ReadLive(x) /\ gone = ReadDeleted(x)
    OBVIOUS
  <2>2. /\ server[x].rows = Loaded({}, Dump(live, gone))
        /\ live \in Seq(Rows) /\ gone \in Seq(Rows)
    BY <1>1, <2>1, DoneLoaded
  <2>3. \A r \in Rows : r.deleted \in BOOLEAN
    BY RowFacts
  <2>4. Loaded({}, Dump(live, gone)) = Expected(live, gone)
    BY <2>2, <2>3, DumpLoaded
  <2> QED BY <2>1, <2>2, <2>4
<1>2. Init /\ [][Next]_vars => [](IInv /\ DumpInv /\ ServerInv)
  <2>1. Init => IInv /\ DumpInv /\ ServerInv
    BY InitIInv, InitDumpInv, InitServerInv
  <2>2. IInv /\ DumpInv /\ ServerInv /\ [Next]_vars => (IInv /\ DumpInv /\ ServerInv)'
    BY StepIInv, StepDumpInv, StepServerInv
  <2> QED BY <2>1, <2>2, PTL
<1> QED BY <1>1, <1>2, PTL DEF Spec
-----------------------------------------------------------------------------
(***************************************************************************)
(* What sys_parser prints: it runs when the script has ended well, so the  *)
(* server does not change any more.                                        *)
(***************************************************************************)

ParserInv ==
    /\ parser # "idle" => script = "done"
    /\ parser \in {"idle", "table", "indexes"} => columns = << >>
    /\ \E S : columns \in Seq(S)
    /\ parser = "columns" => todo \subseteq Select("SYS_COLUMNS", table_id)
    /\ parser \in {"columns", "printed"} =>
          index_id = Clustered(Select("SYS_INDEXES", table_id)).key[2]
    /\ parser = "printed" => key = Select("SYS_FIELDS", index_id)

LEMMA InitParserInv == Init => ParserInv /\ LengthsKept
<1> SUFFICES ASSUME Init PROVE ParserInv /\ LengthsKept
  OBVIOUS
<1>1. parser = "idle" /\ columns = << >>
  BY DEF Init, ParserInit
<1>2. columns \in Seq({}) /\ DOMAIN columns = {}
  BY <1>1
<1> QED BY <1>1, <1>2 DEF ParserInv, LengthsKept

\* Nothing printed agrees with everything.
LEMMA NothingPrinted ==
    ASSUME columns' = << >>
    PROVE  LengthsKept' /\ \E S : columns' \in Seq(S)
<1>1. columns' \in Seq({}) /\ DOMAIN columns' = {}
  OBVIOUS
<1> QED BY <1>1 DEF LengthsKept

LEMMA ParserFrame ==
    ASSUME ParserInv, LengthsKept, UNCHANGED parserVars,
           parser = "idle" \/ UNCHANGED scriptVars
    PROVE  ParserInv' /\ LengthsKept'
<1>1. /\ parser' = parser /\ table_id' = table_id /\ index_id' = index_id
      /\ todo' = todo /\ columns' = columns /\ key' = key
  BY DEF parserVars
<1>2. CASE UNCHANGED scriptVars
  <2>1. script' = script /\ server' = server
    BY <1>2 DEF scriptVars
  <2> QED BY <1>1, <2>1 DEF ParserInv, LengthsKept, Select
<1>3. CASE parser = "idle"
  <2>1. columns = << >>
    BY <1>3 DEF ParserInv
  <2>2. LengthsKept' /\ \E S : columns' \in Seq(S)
    BY <1>1, <2>1, NothingPrinted
  <2> QED BY <1>1, <1>3, <2>1, <2>2 DEF ParserInv
<1> QED BY <1>2, <1>3

\* A DECIMAL of n bytes: 2 * n digits need n bytes again as long as n is small.
LEMMA DecimalBytes ==
    ASSUME NEW n \in Nat
    PROVE  (DecimalSize(n * 2) = n) <=> n < 9
<1>1. PICK q, r : q = (n * 2) \div 9 /\ r = (n * 2) % 9
  OBVIOUS
<1>2. q \in Nat /\ r \in 0 .. 8 /\ n * 2 = 9 * q + r
  BY <1>1
<1>3. PICK h : h = (r + 1) \div 2
  OBVIOUS
<1>4. h \in Nat /\ (2 * h = r + 1 \/ 2 * h = r)
  BY <1>2, <1>3
<1>5. DecimalSize(n * 2) = q * 4 + h
  BY <1>1, <1>3 DEF DecimalSize
<1>6. (q * 4 + h = n) <=> n < 9
  BY <1>2, <1>4
<1> QED BY <1>5, <1>6

\* What PrintColumn says of a column.
Kept(c, r) ==
    /\ r.key[1] = table_id /\ r.val[1] = c.name
    /\ r.val[2] = Char /\ r.val[3] \in 1 .. 255 => c.length = r.val[4] \div Maxlen[r.val[3]]
    /\ r.val[2] = Decimal => ((DecimalSize(c.length) = r.val[4]) <=> r.val[4] < 9)

LEMMA ColumnKept ==
    ASSUME NEW r \in Rows, r.table = "SYS_COLUMNS", r.key[1] = table_id, NEW c,
           c = [name |-> r.val[1], kind |-> r.val[2], length |-> PrintedLength(r)]
    PROVE  Kept(c, r)
<1>1. r.val[4] \in Nat
  BY DictionaryAssumption
<1>2. c.name = r.val[1] /\ c.length = PrintedLength(r)
  OBVIOUS
<1>3. ASSUME r.val[2] = Char, r.val[3] \in 1 .. 255
      PROVE  c.length = r.val[4] \div Maxlen[r.val[3]]
  <2>1. c_code(r) = r.val[3] /\ c_code(r) # 0
    BY <1>3 DEF c_code
  <2>2. MaxlenFor(r) = Maxlen[r.val[3]]
    BY <2>1 DEF MaxlenFor
  <2> QED BY <1>2, <1>3, <2>2 DEF PrintedLength, Char, Decimal
<1>4. ASSUME r.val[2] = Decimal
      PROVE  (DecimalSize(c.length) = r.val[4]) <=> r.val[4] < 9
  <2>1. c.length = r.val[4] * 2
    BY <1>2, <1>4 DEF PrintedLength, Char, Decimal
  <2> QED BY <1>1, <2>1, DecimalBytes
<1> QED BY <1>2, <1>3, <1>4 DEF Kept

LEMMA PrintColumnKeepsParserInv ==
    ASSUME ParserInv, LengthsKept, PrintColumn, UNCHANGED <<script, server>>,
           server["SYS_COLUMNS"].rows \subseteq {r \in Rows : r.table = "SYS_COLUMNS"}
    PROVE  ParserInv' /\ LengthsKept'
<1>1. parser = "columns" /\ script = "done"
  BY DEF PrintColumn, ParserInv
<1>2. CASE Exit
  <2>1. parser' = "failed" /\ table_id' = table_id /\ columns' = columns
    BY <1>2 DEF Exit
  <2> QED BY <1>1, <2>1 DEF ParserInv, LengthsKept
<1>3. CASE ~ Exit
  <2>1. PICK row \in todo :
          /\ columns' = Append(columns, [name |-> row.val[1], kind |-> row.val[2],
                                         length |-> PrintedLength(row)])
          /\ todo' = todo \ {row}
          /\ UNCHANGED <<parser, table_id, index_id, key>>
    BY <1>3 DEF PrintColumn
  <2>2. PICK c : c = [name |-> row.val[1], kind |-> row.val[2], length |-> PrintedLength(row)]
    OBVIOUS
  <2>3. PICK S : columns \in Seq(S)
    BY DEF ParserInv
  <2>4. columns \in Seq(S \cup {c}) /\ columns' = Append(columns, c)
    BY <2>1, <2>2, <2>3
  <2>5. /\ columns' \in Seq(S \cup {c})
        /\ \A k \in DOMAIN columns' : \/ k \in DOMAIN columns /\ columns'[k] = columns[k]
                                      \/ columns'[k] = c
    BY <2>4
  <2>6. row \in server["SYS_COLUMNS"].rows /\ row.key[1] = table_id
    BY <1>1, <2>1 DEF ParserInv, Select
  <2>7. Kept(c, row)
    BY <2>2, <2>6, ColumnKept
  <2>8. ASSUME NEW k \in DOMAIN columns'
        PROVE  \E r \in server["SYS_COLUMNS"].rows : Kept(columns'[k], r)
    <3>1. CASE columns'[k] = c
      BY <2>6, <2>7, <3>1
    <3>2. CASE k \in DOMAIN columns /\ columns'[k] = columns[k]
      BY <3>2 DEF LengthsKept, Kept
    <3> QED BY <2>5, <3>1, <3>2
  <2>9. LengthsKept'
    BY <2>1, <2>8 DEF LengthsKept, Kept
  <2>10. ParserInv'
    BY <1>1, <2>1, <2>5 DEF ParserInv, Select
  <2> QED BY <2>9, <2>10
<1> QED BY <1>2, <1>3

\* The rows of a table come from its page file, and so from its own pages.
LEMMA RowsOfServer ==
    ASSUME IInv, DumpInv, ServerInv, script = "done", NEW x \in Tables
    PROVE  server[x].rows \subseteq {r \in Rows : r.table = x}
<1>1. PICK live, gone, found : /\ live = ReadLive(x) /\ gone = ReadDeleted(x)
                               /\ found = DumpedRows(x)
  OBVIOUS
<1>2. /\ server[x].rows = Loaded({}, Dump(live, gone))
      /\ live \in Seq(Rows) /\ gone \in Seq(Rows)
      /\ found \subseteq {r \in Rows : r.table = x}
  BY <1>1, DoneLoaded
<1>3. found = ToSet(Live(live)) \cup ToSet(Deleted(gone))
  BY <1>1 DEF DumpedRows
<1>4. server[x].rows \subseteq found
  BY <1>2, <1>3, DumpKeys
<1> QED BY <1>2, <1>4

LEMMA ParserKeepsParserInv ==
    ASSUME IInv, DumpInv, ServerInv, ParserInv, LengthsKept, Parser
    PROVE  ParserInv' /\ LengthsKept'
<1>1. /\ script = "done" /\ script' = script /\ server' = server
  BY DEF Parser, ParserStep, scriptVars
<1>2. CASE StartParser \/ FindTable
  <2>1. columns' = columns /\ columns = << >> /\ parser' \in {"table", "indexes", "failed"}
    BY <1>2 DEF StartParser, FindTable, Exit, ParserInv
  <2> QED BY <1>1, <2>1, NothingPrinted DEF ParserInv
<1>3. CASE FindIndexes
  <2>1. columns' = columns /\ columns = << >>
    BY <1>3 DEF FindIndexes, Exit, ParserInv
  <2>2. CASE Select("SYS_INDEXES", table_id) = {}
    <3>1. parser' = "failed"
      BY <1>3, <2>2 DEF FindIndexes, Exit
    <3> QED BY <1>1, <2>1, <3>1, NothingPrinted DEF ParserInv
  <2>3. CASE Select("SYS_INDEXES", table_id) # {}
    <3>1. /\ parser' = "columns" /\ table_id' = table_id
          /\ index_id' = Clustered(Select("SYS_INDEXES", table_id)).key[2]
          /\ todo' = Select("SYS_COLUMNS", table_id)
      BY <1>3, <2>3 DEF FindIndexes
    <3>2. LengthsKept' /\ \E S : columns' \in Seq(S)
      BY <2>1, NothingPrinted
    <3> QED BY <1>1, <3>1, <3>2 DEF ParserInv, Select
  <2> QED BY <2>2, <2>3
<1>4. CASE PrintColumn
  <2>1. server["SYS_COLUMNS"].rows \subseteq {r \in Rows : r.table = "SYS_COLUMNS"}
    BY <1>1, RowsOfServer, DictionaryAssumption
  <2> QED BY <1>1, <1>4, <2>1, PrintColumnKeepsParserInv
<1>5. CASE PrintKey
  <2>1. /\ parser = "columns" /\ parser' = "printed" /\ key' = Select("SYS_FIELDS", index_id)
        /\ table_id' = table_id /\ index_id' = index_id /\ columns' = columns
    BY <1>5 DEF PrintKey
  <2>2. LengthsKept'
    BY <1>1, <2>1 DEF LengthsKept
  <2> QED BY <1>1, <2>1, <2>2 DEF ParserInv, Select
<1> QED BY <1>2, <1>3, <1>4, <1>5 DEF Parser, ParserStep

AllInv == IInv /\ DumpInv /\ ServerInv /\ ParserInv /\ LengthsKept

LEMMA AllInvariant == Init /\ [][Next]_vars => []AllInv
<1>1. Init => AllInv
  BY InitIInv, InitDumpInv, InitServerInv, InitParserInv DEF AllInv
<1>2. AllInv /\ [Next]_vars => AllInv'
  <2> SUFFICES ASSUME AllInv, [Next]_vars PROVE AllInv'
    OBVIOUS
  <2>1. IInv' /\ DumpInv' /\ ServerInv'
    BY StepIInv, StepDumpInv, StepServerInv DEF AllInv
  <2>2. ParserInv' /\ LengthsKept'
    <3>1. CASE Parser
      BY <3>1, ParserKeepsParserInv DEF AllInv
    <3>2. CASE \/ Scan \/ OperatorCleansUp \/ OperatorRestarts \/ UNCHANGED vars
      <4>1. UNCHANGED parserVars /\ UNCHANGED scriptVars
        BY <3>2 DEF Scan, OperatorCleansUp, OperatorRestarts, vars
      <4> QED BY <4>1, ParserFrame DEF AllInv
    <3>3. CASE Script \/ OperatorRunsScript \/ OperatorRunsAgain \/ OperatorDropsTables
      <4>1. UNCHANGED parserVars
        BY <3>3
        DEF Script, OperatorRunsScript, OperatorRunsAgain, OperatorDropsTables, parserVars
      <4>2. script # "done"
        BY <3>3
        DEF Script, ScriptStep, DumpLive, DumpDeleted, CreateDatabase, CreateTable,
            LoadTable, ScriptFails, OperatorRunsScript, StartScript, OperatorRunsAgain,
            OperatorDropsTables
      <4>3. parser = "idle"
        BY <4>2 DEF AllInv, ParserInv
      <4> QED BY <4>1, <4>3, ParserFrame DEF AllInv
    <3> QED BY <3>1, <3>2, <3>3 DEF Next
  <2> QED BY <2>1, <2>2 DEF AllInv
<1> QED BY <1>1, <1>2, PTL

\* A column is printed with its declared length, a DECIMAL with one that has the
\* size of its values up to eight bytes and not beyond (sys_parser.c:324-359).
THEOREM RecoveryLengthsKept == Spec => []LengthsKept
<1>1. AllInv => LengthsKept
  BY DEF AllInv
<1> QED BY <1>1, AllInvariant, PTL DEF Spec

\* Every index of a table that the server has comes from the pages, and none has
\* a smaller id than the clustered one.
LEMMA ClusteredFound ==
    ASSUME NEW found \in SUBSET Rows, NEW id, NEW r \in found,
           \A row \in found : row.table = "SYS_INDEXES" /\ row.key[1] = id,
           NEW c \in Rows, c.table = "SYS_INDEXES", c.key[1] = id, c.val[1] = ClusteredType,
           r.key = c.key
    PROVE  Clustered(found).key[2] = c.key[2]
<1>1. ASSUME NEW row \in found PROVE row.key[2] \in Nat /\ c.key[2] <= row.key[2]
  BY DictionaryAssumption
<1>2. ComesFirst(r, found)
  BY <1>1 DEF ComesFirst
<1>3. ComesFirst(Clustered(found), found) /\ Clustered(found) \in found
  BY <1>2 DEF Clustered
<1>4. Clustered(found).key[2] <= r.key[2]
  BY <1>3 DEF ComesFirst
<1>5. c.key[2] \in Nat
  BY DictionaryAssumption
<1> QED BY <1>1, <1>3, <1>4, <1>5

\* The key that is printed is the one of the clustered index, if the row of this
\* index was among the pages, and each field is there once
\* (sys_parser.c:278-294, 377-397).
THEOREM RecoveryKeyOfClusteredIndex == Spec => []KeyOfClusteredIndex
<1>1. ASSUME AllInv, parser = "printed",
             NEW c \in DumpedRows("SYS_INDEXES"), c.key[1] = table_id,
             c.val[1] = ClusteredType
      PROVE  /\ index_id = c.key[2]
             /\ {r.key : r \in key} =
                  {r.key : r \in {f \in DumpedRows("SYS_FIELDS") : f.key[1] = index_id}}
             /\ \A r, s \in key : r.key = s.key => r = s
  <2>1. /\ IInv /\ DumpInv /\ ServerInv /\ script = "done"
        /\ index_id = Clustered(Select("SYS_INDEXES", table_id)).key[2]
        /\ key = Select("SYS_FIELDS", index_id)
    BY <1>1 DEF AllInv, ParserInv
  <2>2. "SYS_INDEXES" \in Tables /\ "SYS_FIELDS" \in Tables
    BY DictionaryAssumption
  <2>3. ASSUME NEW x \in Tables
        PROVE  /\ \A e \in DumpedRows(x) : \E r \in server[x].rows : r.key = e.key
               /\ server[x].rows \subseteq DumpedRows(x)
               /\ \A r, s \in server[x].rows : r.key = s.key => r = s
               /\ DumpedRows(x) \subseteq {r \in Rows : r.table = x}
    <3>1. PICK live, gone, found : /\ live = ReadLive(x) /\ gone = ReadDeleted(x)
                                   /\ found = DumpedRows(x)
      OBVIOUS
    <3>2. /\ server[x].rows = Loaded({}, Dump(live, gone))
          /\ live \in Seq(Rows) /\ gone \in Seq(Rows)
          /\ found \subseteq {r \in Rows : r.table = x}
      BY <2>1, <3>1, DoneLoaded
    <3>3. found = ToSet(Live(live)) \cup ToSet(Deleted(gone))
      BY <3>1 DEF DumpedRows
    <3>4. /\ \A e \in found : \E r \in Loaded({}, Dump(live, gone)) : r.key = e.key
          /\ Loaded({}, Dump(live, gone)) \subseteq found
          /\ \A r, s \in Loaded({}, Dump(live, gone)) : r.key = s.key => r = s
      BY <3>2, <3>3, DumpKeys
    <3> QED BY <3>1, <3>2, <3>4
  <2>4. index_id = c.key[2]
    <3>1. c \in Rows /\ c.table = "SYS_INDEXES"
      BY <2>2, <2>3
    <3>2. PICK r \in server["SYS_INDEXES"].rows : r.key = c.key
      BY <2>2, <2>3
    <3>3. PICK chosen : chosen = Select("SYS_INDEXES", table_id)
      OBVIOUS
    <3>4. r \in chosen
      BY <1>1, <3>2, <3>3 DEF Select
    <3>5. server["SYS_INDEXES"].rows \subseteq {row \in Rows : row.table = "SYS_INDEXES"}
      BY <2>2, <2>3
    <3>6. /\ chosen \in SUBSET Rows
          /\ \A row \in chosen : row.table = "SYS_INDEXES" /\ row.key[1] = table_id
      BY <3>3, <3>5 DEF Select
    <3>7. Clustered(chosen).key[2] = c.key[2]
      BY <1>1, <3>1, <3>2, <3>4, <3>6, ClusteredFound
    <3> QED BY <2>1, <3>3, <3>7
  <2>5. key = {r \in server["SYS_FIELDS"].rows : r.key[1] = index_id}
    BY <2>1 DEF Select
  <2>6. PICK fields : fields = DumpedRows("SYS_FIELDS")
    OBVIOUS
  <2>7. /\ \A e \in fields : \E r \in server["SYS_FIELDS"].rows : r.key = e.key
        /\ server["SYS_FIELDS"].rows \subseteq fields
        /\ \A r, s \in server["SYS_FIELDS"].rows : r.key = s.key => r = s
    BY <2>2, <2>3, <2>6
  <2>8. ASSUME NEW r \in key
        PROVE  \E f \in {e \in fields : e.key[1] = index_id} : r.key = f.key
    BY <2>5, <2>7
  <2>9. ASSUME NEW f \in fields, f.key[1] = index_id
        PROVE  \E r \in key : r.key = f.key
    BY <2>5, <2>7, <2>9
  <2>10. {r.key : r \in key} = {r.key : r \in {f \in fields : f.key[1] = index_id}}
    BY <2>8, <2>9
  <2> QED BY <2>4, <2>5, <2>6, <2>7, <2>10
<1>2. AllInv => KeyOfClusteredIndex
  BY <1>1 DEF KeyOfClusteredIndex
<1> QED BY <1>2, AllInvariant, PTL DEF Spec
=============================================================================
