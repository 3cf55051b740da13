------------------------ MODULE RecordOffsetsProofs -------------------------
(***************************************************************************)
(* Proofs about RecordOffsets, for all tables, page sizes up to 65536 and  *)
(* all bytes: what check_for_a_record accepts has ends inside the page,    *)
(* from which follows that a size modulo 2^30 is either a true difference  *)
(* of ends or too large for any field but a LONGTEXT or LONGBLOB.          *)
(***************************************************************************)
EXTENDS RecordOffsets, WellFoundedInduction, TLAPS

\* How far offsets[] is filled.
Filled ==
    /\ offsets \in Seq(EntryType)
    /\ phase = "origin" => field = 0 /\ offsets = << >>
    /\ phase = "offsets" => Len(offsets) = field
    /\ phase = "size" => field = 0
    /\ phase \in {"size", "fields", "yes"} => Len(offsets) = Len(table)

\* The fields that check_fields_sizes has passed.
Passed ==
    /\ phase = "fields" => \A k \in 1 .. field : SizeOK(k)
    /\ phase = "yes" => \A k \in 1 .. Len(table) : SizeOK(k)

\* The length of an external part is not checked, but it is not negative.
External == \A k \in DOMAIN offsets : offsets[k].ext => Size(k) >= 0

IInv == TypeOK /\ Filled /\ Passed /\ External

-----------------------------------------------------------------------------
LEMMA TableFacts ==
    ASSUME TypeOK
    PROVE  /\ table \in Seq(FieldType) /\ Len(table) \in Nat \ {0}
           /\ DOMAIN table = 1 .. Len(table)
           /\ origin \in Nat
<1>1. table \in Seq(FieldType) /\ table # << >>
  BY OffsetsAssumption DEF TypeOK
<1>2. origin \in Nat
  BY OffsetsAssumption DEF TypeOK
<1> QED BY <1>1, <1>2

\* A definition of a field is one of the table.
LEMMA FieldFacts ==
    ASSUME TypeOK, NEW k \in 1 .. Len(table)
    PROVE  /\ table[k] \in FieldType
           /\ table[k].fixed_length \in Nat /\ table[k].max_length \in Nat
<1>1. table[k] \in FieldType
  BY TableFacts
<1> QED BY <1>1 DEF FieldType

\* The end of the field before is a number.
LEMMA PrevEndFacts ==
    ASSUME TypeOK, Filled, phase = "offsets"
    PROVE  PrevEnd \in Nat
BY DEF PrevEnd, Filled, TypeOK, EntryType

\* A length read is a natural number.
LEMMA LengthFacts ==
    ASSUME NEW b1 \in Nat, NEW b2 \in Nat
    PROVE  LengthRead(<<b1, b2>>) \in Nat
<1>1. (b1 % 64) * 256 + b2 \in Nat
  OBVIOUS
<1> QED BY <1>1 DEF LengthRead

\* A value of a row is a value.
LEMMA ValueFacts ==
    ASSUME NEW x \in FieldType, NEW value \in Values(x)
    PROVE  value \in ValueType
<1>1. x.fixed_length \in Nat /\ Lengths \subseteq Nat
  BY OffsetsAssumption DEF FieldType
<1>2. value \in [null : BOOLEAN, ext : BOOLEAN, len : Lengths \cup {0, x.fixed_length}]
  BY DEF Values
<1>3. /\ value.null \in BOOLEAN /\ value.ext \in BOOLEAN
      /\ value.len \in Lengths \cup {0, x.fixed_length}
      /\ value = [null |-> value.null, ext |-> value.ext, len |-> value.len]
  BY <1>2, Zenon
<1>4. value.len \in Nat
  BY <1>1, <1>3
<1> QED BY <1>3, <1>4, Zenon DEF ValueType

\* The bytes of a length are numbers.
LEMMA LengthReadFacts ==
    ASSUME TypeOK, field < Len(table), NEW b \in LengthReads
    PROVE  LengthRead(b) \in Nat /\ ExternalRead(b) \in BOOLEAN
<1>1. field + 1 \in 1 .. Len(table)
  BY TableFacts DEF TypeOK
<1>2. \E b1, b2 \in Nat : b = <<b1, b2>>
  <2>1. CASE row = NoRow
    <3>1. b \in Bytes \X Bytes
      BY <2>1 DEF LengthReads
    <3>2. Bytes \subseteq Nat
      BY OffsetsAssumption
    <3>3. PICK b1 \in Bytes, b2 \in Bytes : b = <<b1, b2>>
      BY <3>1
    <3> QED BY <3>2, <3>3
  <2>2. CASE row # NoRow
    <3> DEFINE value == row[field + 1]
    <3>1. value.len \in Nat
      BY <1>1, <2>2, TableFacts DEF TypeOK, ValueType
    <3>2. b = Written(f, value)
      BY <2>2 DEF LengthReads
    <3> HIDE DEF value
    <3>3. value.len \div 256 \in Nat /\ value.len % 256 \in Nat
      BY <3>1
    <3> QED BY <3>1, <3>2, <3>3 DEF Written
  <2> QED BY <2>1, <2>2
<1>3. LengthRead(b) \in Nat
  BY <1>2, LengthFacts
<1>4. ExternalRead(b) \in BOOLEAN
  BY Zenon DEF ExternalRead
<1> QED BY <1>3, <1>4

\* Storing an entry keeps every entry in the page.
LEMMA StoreFacts ==
    ASSUME IInv, phase = "offsets", field < Len(table),
           NEW e \in Nat, NEW n \in BOOLEAN, NEW x \in BOOLEAN,
           x => e >= PrevEnd, Store([end |-> e, null |-> n, ext |-> x]),
           UNCHANGED <<table, comp, origin, row>>
    PROVE  IInv'
<1> DEFINE entry == [end |-> e, null |-> n, ext |-> x]
<1> USE DEF IInv
<1>0. entry \in EntryType /\ entry.end = e /\ (entry.ext => e >= PrevEnd)
  BY DEF EntryType
<1> HIDE DEF entry
<1>1. CASE InPage(entry.end)
  <2>1. /\ offsets' = Append(offsets, entry) /\ field' = field + 1 /\ phase' = phase
    BY <1>1 DEF Store, entry
  <2>2. offsets \in Seq(EntryType) /\ Len(offsets) = field /\ field \in Nat
    BY DEF Filled, TypeOK
  <2>3. /\ offsets' \in Seq(EntryType) /\ Len(offsets') = field'
        /\ \A k \in DOMAIN offsets' :
              (k \in DOMAIN offsets /\ offsets'[k] = offsets[k]) \/ offsets'[k] = entry
    BY <1>0, <2>1, <2>2
  <2>4. origin + entry.end <= UNIV_PAGE_SIZE
    BY <1>1 DEF InPage
  <2>5. field' \in 0 .. Len(table)
    BY <2>1, <2>2, TableFacts
  <2>6. \A k \in DOMAIN offsets' :
          offsets'[k] \in EntryType /\ origin + offsets'[k].end <= UNIV_PAGE_SIZE
    BY <1>0, <2>3, <2>4 DEF TypeOK
  <2>7. TypeOK'
    BY <2>1, <2>5, <2>6 DEF TypeOK
  <2>8. External'
    <3> SUFFICES ASSUME NEW k \in DOMAIN offsets', offsets'[k].ext
                 PROVE  Size(k)' >= 0
      BY DEF External
    <3>1. CASE k \in DOMAIN offsets
      <4>1. Size(k)' = Size(k)
        BY <2>1, <2>2, <3>1 DEF Size
      <4>2. offsets'[k] = offsets[k]
        BY <2>1, <2>2, <3>1
      <4> QED BY <3>1, <4>1, <4>2 DEF External
    <3>2. CASE k \notin DOMAIN offsets
      <4>1. k = field + 1 /\ offsets'[k] = entry
        BY <2>1, <2>2, <3>2
      <4>2. k # 1 => offsets'[k - 1] = offsets[field]
        BY <2>1, <2>2, <4>1
      <4>3. e >= PrevEnd /\ PrevEnd \in Nat
        BY <1>0, <4>1, PrevEndFacts
      <4> QED BY <1>0, <2>2, <4>1, <4>2, <4>3 DEF Size, PrevEnd
    <3> QED BY <3>1, <3>2
  <2> QED BY <2>1, <2>3, <2>7, <2>8 DEF Filled, Passed
<1>2. CASE ~ InPage(entry.end)
  <2>1. phase' = "no" /\ UNCHANGED <<offsets, field>>
    BY <1>2 DEF Store, entry
  <2> QED BY <2>1 DEF TypeOK, Filled, Passed, External, Size
<1> QED BY <1>1, <1>2

-----------------------------------------------------------------------------
THEOREM InitIInv == Init => IInv
<1> SUFFICES ASSUME Init PROVE IInv
  OBVIOUS
<1>1. table \in Seq(FieldType) /\ Len(table) \in Nat /\ DOMAIN table = 1 .. Len(table)
  BY OffsetsAssumption DEF Init
<1>2. row # NoRow => \A k \in DOMAIN table : row[k] \in ValueType
  BY <1>1, ValueFacts DEF Init, Rows
<1>3. TypeOK
  <2>1. offsets = << >> /\ \A k \in DOMAIN offsets : FALSE
    BY DEF Init
  <2>2. field \in 0 .. Len(table)
    BY <1>1 DEF Init
  <2> QED BY <1>2, <2>1, <2>2 DEF Init, TypeOK
<1>4. offsets \in Seq(EntryType)
  BY DEF Init
<1>5. External
  BY DEF Init, External
<1> QED BY <1>3, <1>4, <1>5 DEF Init, IInv, Filled, Passed

LEMMA ReadNewStep ==
    ASSUME IInv, ReadNew
    PROVE  IInv'
<1>1. phase = "offsets" /\ field < Len(table) /\ UNCHANGED <<table, comp, origin, row>>
  BY DEF ReadNew
<1>2. f.fixed_length \in Nat
  BY <1>1, TableFacts, FieldFacts DEF IInv, TypeOK, f
<1>3. PrevEnd \in Nat
  BY <1>1, PrevEndFacts DEF IInv
<1>4. CASE Store([end |-> PrevEnd, null |-> TRUE, ext |-> FALSE])
  BY <1>1, <1>3, <1>4, StoreFacts
<1>5. CASE Store([end |-> PrevEnd + f.fixed_length, null |-> FALSE, ext |-> FALSE])
  <2>1. PrevEnd + f.fixed_length \in Nat
    BY <1>2, <1>3
  <2> QED BY <1>1, <1>5, <2>1, StoreFacts
<1>6. ASSUME NEW b \in LengthReads,
             Store([end |-> PrevEnd + LengthRead(b), null |-> FALSE, ext |-> ExternalRead(b)])
      PROVE  IInv'
  <2>1. LengthRead(b) \in Nat /\ ExternalRead(b) \in BOOLEAN
    BY <1>1, LengthReadFacts DEF IInv
  <2>2. PrevEnd + LengthRead(b) \in Nat /\ PrevEnd + LengthRead(b) >= PrevEnd
    BY <1>3, <2>1
  <2> QED BY <1>1, <1>6, <2>1, <2>2, StoreFacts
<1> QED BY <1>4, <1>5, <1>6 DEF ReadNew

LEMMA ReadOldStep ==
    ASSUME IInv, ReadOld
    PROVE  IInv'
<1>1. phase = "offsets" /\ field < Len(table) /\ UNCHANGED <<table, comp, origin, row>>
  BY DEF ReadOld
<1>2. PICK end \in EndReads : Store([end |-> end, null |-> FALSE, ext |-> FALSE])
  BY DEF ReadOld
<1>3. PrevEnd \in Nat
  BY <1>1, PrevEndFacts DEF IInv
<1>4. end \in Nat
  <2>1. CASE row # NoRow
    <3>1. field + 1 \in DOMAIN table
      BY <1>1, TableFacts DEF IInv, TypeOK
    <3> QED BY <1>2, <1>3, <2>1, <3>1 DEF EndReads, IInv, TypeOK, ValueType
  <2>2. CASE row = NoRow
    <3>1. Bytes \subseteq Nat
      BY OffsetsAssumption
    <3>2. \/ \E b \in Bytes : end = b % 128
          \/ \E b \in Bytes \X Bytes : end = (b[1] % 64) * 256 + b[2]
      BY <1>2, <2>2, Zenon DEF EndReads
    <3>3. CASE \E b \in Bytes : end = b % 128
      BY <3>1, <3>3
    <3>4. CASE \E b \in Bytes \X Bytes : end = (b[1] % 64) * 256 + b[2]
      <4>1. PICK b \in Bytes \X Bytes : end = (b[1] % 64) * 256 + b[2]
        BY <3>4
      <4>2. b[1] \in Nat /\ b[2] \in Nat
        BY <3>1
      <4> QED BY <4>1, <4>2
    <3> QED BY <3>2, <3>3, <3>4
  <2> QED BY <2>1, <2>2
<1> QED BY <1>1, <1>2, <1>4, StoreFacts

\* Every step preserves the invariant.
THEOREM StepIInv == IInv /\ [Next]_vars => IInv'
<1> SUFFICES ASSUME IInv, [Next]_vars PROVE IInv'
  OBVIOUS
<1> USE DEF IInv
<1>0. Len(table) \in Nat /\ field \in 0 .. Len(table)
  BY TableFacts DEF TypeOK
<1>1. CASE CheckOrigin
  BY <1>1 DEF CheckOrigin, TypeOK, Filled, Passed, External, Size
<1>2. CASE ReadNew
  BY <1>2, ReadNewStep
<1>3. CASE ReadOld
  BY <1>3, ReadOldStep
<1>4. CASE OffsetsRead
  BY <1>0, <1>4 DEF OffsetsRead, TypeOK, Filled, Passed, External, Size
<1>5. CASE CheckDataSize
  <2>1. field = 0
    BY <1>5 DEF CheckDataSize, Filled
  <2> QED BY <1>0, <1>5, <2>1 DEF CheckDataSize, TypeOK, Filled, Passed, External, Size
<1>6. CASE CheckField
  <2>1. \A k : SizeOK(k)' <=> SizeOK(k)
    BY <1>6 DEF CheckField, SizeOK, nth_size
  <2>2. TypeOK' /\ Filled' /\ External'
    BY <1>0, <1>6 DEF CheckField, TypeOK, Filled, External, Size
  <2>3. CASE SizeOK(field + 1)
    <3>1. phase' = "fields" /\ field' = field + 1
      BY <1>6, <2>3 DEF CheckField
    <3>2. ASSUME NEW k \in 1 .. field' PROVE SizeOK(k)'
      <4>1. k \in 1 .. field \/ k = field + 1
        BY <1>0, <3>1
      <4> QED BY <1>6, <2>1, <2>3, <4>1 DEF CheckField, Passed
    <3> QED BY <2>2, <3>1, <3>2 DEF Passed
  <2>4. CASE ~ SizeOK(field + 1)
    <3>1. phase' = "no"
      BY <1>6, <2>4 DEF CheckField
    <3> QED BY <2>2, <3>1 DEF Passed
  <2> QED BY <2>3, <2>4
<1>7. CASE Accept
  <2>1. \A k : SizeOK(k)' <=> SizeOK(k)
    BY <1>7 DEF Accept, SizeOK, nth_size
  <2> QED BY <1>7, <2>1 DEF Accept, TypeOK, Filled, Passed, External, Size
<1>8. CASE Done \/ UNCHANGED vars
  <2>1. UNCHANGED vars
    BY <1>8 DEF Done
  <2> QED BY <2>1 DEF vars, TypeOK, Filled, Passed, SizeOK, nth_size, External, Size
<1> QED BY <1>1, <1>2, <1>3, <1>4, <1>5, <1>6, <1>7, <1>8 DEF Next

THEOREM OffsetsIInv == Spec => []IInv
BY InitIInv, StepIInv, PTL DEF Spec

-----------------------------------------------------------------------------
\* A size modulo 2^30 that is not among the largest is a difference of ends.
LEMMA SizeFacts ==
    ASSUME NEW a \in 0 .. UNIV_PAGE_SIZE, NEW b \in 0 .. UNIV_PAGE_SIZE,
           (a - b) % REC_OFFS_EXTERNAL < REC_OFFS_EXTERNAL - UNIV_PAGE_SIZE
    PROVE  a >= b /\ (a - b) % REC_OFFS_EXTERNAL = a - b
BY SMT, OffsetsAssumption DEF REC_OFFS_EXTERNAL

\* A size is a number, also when an end decreases.
LEMMA ModuloFacts ==
    ASSUME NEW n \in Int
    PROVE  n % REC_OFFS_EXTERNAL \in Nat /\ REC_OFFS_EXTERNAL \in Nat
BY SMT DEF REC_OFFS_EXTERNAL

\* Every field of what is accepted fits.
LEMMA PassedFits ==
    ASSUME IInv, phase = "yes", NEW k \in 1 .. Len(table), ~ Unlimited(k)
    PROVE  Fits(k)
<1> DEFINE start == IF k = 1 THEN 0 ELSE offsets[k - 1].end
<1>1. /\ UNIV_PAGE_SIZE \in Nat /\ origin \in Nat
      /\ table[k].fixed_length \in Nat /\ table[k].max_length \in Nat
  BY OffsetsAssumption, TableFacts, FieldFacts DEF IInv
<1>2. \A i \in 1 .. Len(table) : offsets[i].end \in 0 .. UNIV_PAGE_SIZE
  <2> SUFFICES ASSUME NEW i \in 1 .. Len(table)
               PROVE  offsets[i].end \in 0 .. UNIV_PAGE_SIZE
    OBVIOUS
  <2>1. offsets[i].end \in Nat /\ origin + offsets[i].end <= UNIV_PAGE_SIZE
    BY DEF IInv, Filled, TypeOK, EntryType
  <2> QED BY <1>1, <2>1
<1>3. start \in 0 .. UNIV_PAGE_SIZE /\ offsets[k].end \in 0 .. UNIV_PAGE_SIZE
  BY <1>1, <1>2
<1>4. nth_size(k) = (offsets[k].end - start) % REC_OFFS_EXTERNAL /\ Size(k) = offsets[k].end - start
  BY DEF nth_size, Size
<1> HIDE DEF start
<1>5. SizeOK(k)
  BY DEF IInv, Passed
<1>6. CASE offsets[k].ext /\ table[k].fixed_length = 0
  <2>1. Size(k) >= 0
    BY <1>6 DEF IInv, Filled, External
  <2> QED BY <1>5, <1>6, <2>1 DEF SizeOK, Fits
<1>7. CASE ~ (offsets[k].ext /\ table[k].fixed_length = 0)
  <2>1. nth_size(k) <= table[k].max_length + table[k].fixed_length
    BY <1>1, <1>5, <1>7 DEF SizeOK
  <2>2. nth_size(k) \in Nat /\ REC_OFFS_EXTERNAL \in Nat
    <3>1. offsets[k].end - start \in Int
      BY <1>1, <1>3
    <3> QED BY <1>4, <3>1, ModuloFacts
  <2>3. nth_size(k) < REC_OFFS_EXTERNAL - UNIV_PAGE_SIZE
    BY <1>1, <2>1, <2>2 DEF Unlimited
  <2>4. Size(k) >= 0 /\ Size(k) = nth_size(k)
    BY <1>3, <1>4, <2>3, SizeFacts
  <2> QED BY <1>5, <1>7, <2>4 DEF SizeOK, Fits
<1> QED BY <1>6, <1>7

\* Every variable keeps its type, and every end stored is inside the page.
THEOREM OffsetsTypeOK == Spec => []TypeOK
<1>1. IInv => TypeOK
  BY DEF IInv
<1> QED BY <1>1, OffsetsIInv, PTL

\* What is accepted as a record has a legal value in every field.
THEOREM OffsetsAcceptedFits == Spec => []AcceptedFits
<1>1. IInv => AcceptedFits
  <2>1. IInv => DOMAIN table = 1 .. Len(table)
    BY TableFacts DEF IInv
  <2> QED BY <2>1, PassedFits DEF AcceptedFits
<1> QED BY <1>1, OffsetsIInv, PTL
-----------------------------------------------------------------------------
(***************************************************************************)
(* Sums of sequences.  A set of natural numbers with 0 in it and n + 1 for *)
(* every n holds them all: induction, with a set for the predicate.        *)
(***************************************************************************)
LEMMA NatSetInduction ==
    ASSUME NEW S, 0 \in S, \A n \in Nat : n \in S => n + 1 \in S
    PROVE  Nat \subseteq S
<1> SUFFICES ASSUME Nat \ S # {} PROVE FALSE
  OBVIOUS
<1>1. \A m, n \in Nat : m < n => <<m, n>> \in OpToRel(<, Nat)
  BY DEF OpToRel
<1>2. PICK R : IsWellFoundedOn(R, Nat) /\ \A m, n \in Nat : m < n => <<m, n>> \in R
  BY <1>1, NatLessThanWellFounded
<1>3. IsWellFoundedOn(R, Nat)
  BY <1>2
<1>4. PICK m \in Nat \ S : \A n \in Nat \ S : ~ (<<n, m>> \in R)
  BY <1>3, WFMin
<1>5. m # 0 /\ m - 1 \in Nat /\ m = (m - 1) + 1 /\ m - 1 < m
  BY <1>4
<1>6. m - 1 \in S
  BY <1>2, <1>4, <1>5
<1> QED BY <1>4, <1>5, <1>6

\* u has the sums of the first numbers of s.
Sums(u, s) ==
    /\ u \in [0 .. Len(s) -> Nat]
    /\ u[0] = 0 /\ \A k \in 1 .. Len(s) : u[k] = u[k - 1] + s[k]

LEMMA SumsExist ==
    ASSUME NEW s \in Seq(Nat)
    PROVE  \E u : Sums(u, s)
<1>0. PICK n : n = Len(s) /\ n \in Nat
  OBVIOUS
<1> DEFINE Upto(m, u) == u[0] = 0 /\ \A k \in 1 .. m : u[k] = u[k - 1] + s[k]
           Extends(m) == \E u \in [0 .. m -> Nat] : Upto(m, u)
           S == {m \in Nat : m <= n => Extends(m)}
<1>1. 0 \in S
  <2>1. PICK z : z = [k \in 0 .. 0 |-> 0]
    OBVIOUS
  <2>2. z \in [0 .. 0 -> Nat] /\ z[0] = 0 /\ \A k \in 1 .. 0 : z[k] = z[k - 1] + s[k]
    BY <2>1
  <2> QED BY <2>2
<1>2. ASSUME NEW m \in Nat, m \in S
      PROVE  m + 1 \in S
  <2> HIDE DEF Extends
  <2> SUFFICES ASSUME m + 1 <= n PROVE Extends(m + 1)
    OBVIOUS
  <2> USE DEF Extends
  <2>1. PICK u \in [0 .. m -> Nat] : Upto(m, u)
    <3>1. m <= n
      BY <1>0
    <3> QED BY <1>2, <3>1
  <2>2. PICK a : a = u[m] + s[m + 1]
    OBVIOUS
  <2>3. a \in Nat
    <3>1. u[m] \in Nat /\ m + 1 \in 1 .. Len(s)
      BY <1>0, <2>1
    <3>2. s[m + 1] \in Nat
      BY <3>1
    <3> QED BY <2>2, <3>1, <3>2
  <2>4. PICK v : v = [k \in 0 .. m + 1 |-> IF k = m + 1 THEN a ELSE u[k]]
    OBVIOUS
  <2>5. v \in [0 .. m + 1 -> Nat] /\ v[0] = 0
    BY <2>1, <2>3, <2>4
  <2>6. ASSUME NEW k \in 1 .. m + 1 PROVE v[k] = v[k - 1] + s[k]
    <3>1. CASE k = m + 1
      <4>1. k \in 0 .. m + 1 /\ k - 1 = m /\ m \in 0 .. m + 1 /\ m # m + 1
        BY <3>1
      <4> QED BY <2>2, <2>4, <3>1, <4>1
    <3>2. CASE k # m + 1
      <4>1. /\ k \in 1 .. m /\ k \in 0 .. m + 1 /\ k - 1 \in 0 .. m + 1 /\ k - 1 # m + 1
        BY <3>2
      <4>2. v[k] = u[k] /\ v[k - 1] = u[k - 1]
        BY <2>4, <3>2, <4>1
      <4> QED BY <2>1, <4>1, <4>2
    <3> QED BY <3>1, <3>2
  <2> QED BY <2>5, <2>6
<1>3. n \in S
  <2> HIDE DEF S
  <2> QED BY <1>0, <1>1, <1>2, NatSetInduction
<1> QED BY <1>0, <1>3 DEF Sums

LEMMA TotalFacts ==
    ASSUME NEW s \in Seq(Nat)
    PROVE  \E u : Sums(u, s) /\ Total(s) = u[Len(s)]
<1> DEFINE n == Len(s)
           Is(u) == u = [k \in 0 .. n |-> IF k = 0 THEN 0 ELSE u[k - 1] + s[k]]
<1>1. PICK u : Sums(u, s)
  BY SumsExist
<1>2. Is(u)
  <2>1. u \in [0 .. n -> Nat] /\ u[0] = 0
    BY <1>1 DEF Sums
  <2>2. ASSUME NEW k \in 0 .. n PROVE u[k] = IF k = 0 THEN 0 ELSE u[k - 1] + s[k]
    <3>1. CASE k # 0
      <4>1. k \in 1 .. n
        BY <3>1
      <4> QED BY <1>1, <3>1, <4>1 DEF Sums
    <3> QED BY <2>1, <3>1
  <2>3. u = [k \in 0 .. n |-> u[k]]
    BY <2>1
  <2> QED BY <2>2, <2>3
<1>3. PICK v : Is(v) /\ Total(s) = v[n]
  <2>1. Is(CHOOSE w : Is(w))
    BY <1>2
  <2> QED BY <2>1 DEF Total
<1>4. v[0] = 0 /\ \A k \in 1 .. n : v[k] = v[k - 1] + s[k]
  <2>1. n \in Nat
    OBVIOUS
  <2>2. 0 \in 0 .. n /\ \A k \in 1 .. n : k \in 0 .. n /\ k # 0
    BY <2>1
  <2> QED BY <1>3, <2>2
<1>5. DOMAIN v = 0 .. n
  BY <1>3
<1>6. \A k \in 0 .. n : v[k] \in Nat
  <2> DEFINE S == {m \in Nat : m <= n => v[m] \in Nat}
  <2>1. 0 \in S
    BY <1>4
  <2>2. ASSUME NEW m \in Nat, m \in S PROVE m + 1 \in S
    <3> SUFFICES ASSUME m + 1 <= n PROVE v[m + 1] \in Nat
      OBVIOUS
    <3>1. m + 1 \in 1 .. n /\ v[m] \in Nat /\ (m + 1) - 1 = m
      BY <2>2
    <3>2. s[m + 1] \in Nat
      BY <3>1
    <3> QED BY <1>4, <3>1, <3>2
  <2>3. Nat \subseteq S
    <3> HIDE DEF S
    <3> QED BY <2>1, <2>2, NatSetInduction
  <2> QED BY <2>3
<1>7. v \in [0 .. n -> Nat]
  BY <1>3, <1>5, <1>6
<1>8. Sums(v, s)
  BY <1>4, <1>7 DEF Sums
<1> QED BY <1>3, <1>8

\* Where no number is greater, no sum is.
LEMMA SumsMonotone ==
    ASSUME NEW s \in Seq(Nat), NEW t \in Seq(Nat), Len(s) = Len(t),
           \A k \in 1 .. Len(s) : s[k] <= t[k],
           NEW u, NEW v, Sums(u, s), Sums(v, t)
    PROVE  \A k \in 0 .. Len(s) : u[k] <= v[k]
<1> DEFINE n == Len(s)
           S == {m \in Nat : m <= n => u[m] <= v[m]}
<1>1. 0 \in S
  BY DEF Sums
<1>2. ASSUME NEW m \in Nat, m \in S PROVE m + 1 \in S
  <2> SUFFICES ASSUME m + 1 <= n PROVE u[m + 1] <= v[m + 1]
    OBVIOUS
  <2>1. m + 1 \in 1 .. n /\ (m + 1) - 1 = m /\ m \in 0 .. n /\ u[m] <= v[m]
    BY <1>2
  <2>2. /\ u[m + 1] = u[m] + s[m + 1] /\ v[m + 1] = v[m] + t[m + 1]
        /\ u[m] \in Nat /\ v[m] \in Nat
    BY <2>1 DEF Sums
  <2>3. s[m + 1] \in Nat /\ t[m + 1] \in Nat /\ s[m + 1] <= t[m + 1]
    BY <2>1
  <2> QED BY <2>1, <2>2, <2>3
<1>3. Nat \subseteq S
  <2> HIDE DEF S
  <2> QED BY <1>1, <1>2, NatSetInduction
<1> QED BY <1>3

\* No sum is greater than that of all.
LEMMA SumsGrow ==
    ASSUME NEW s \in Seq(Nat), NEW u, Sums(u, s), NEW k \in 0 .. Len(s)
    PROVE  u[k] <= u[Len(s)]
<1> DEFINE n == Len(s)
           S == {m \in Nat : k + m <= n => u[k] <= u[k + m]}
<1>1. 0 \in S
  <2>1. u[k] \in Nat /\ k + 0 = k
    BY DEF Sums
  <2> QED BY <2>1
<1>2. ASSUME NEW m \in Nat, m \in S PROVE m + 1 \in S
  <2> SUFFICES ASSUME k + (m + 1) <= n PROVE u[k] <= u[k + (m + 1)]
    OBVIOUS
  <2>1. PICK j : j = k + (m + 1)
    OBVIOUS
  <2>2. j \in 1 .. n /\ j - 1 = k + m /\ j - 1 \in 0 .. n /\ u[k] <= u[j - 1]
    BY <1>2, <2>1
  <2>3. u[j] = u[j - 1] + s[j] /\ u[j - 1] \in Nat /\ u[k] \in Nat
    BY <2>2 DEF Sums
  <2>4. s[j] \in Nat
    BY <2>2
  <2> QED BY <2>1, <2>2, <2>3, <2>4
<1>3. Nat \subseteq S
  <2> HIDE DEF S
  <2> QED BY <1>1, <1>2, NatSetInduction
<1>4. n - k \in Nat /\ k + (n - k) = n
  OBVIOUS
<1>5. n - k \in S
  BY <1>3, <1>4
<1> QED BY <1>4, <1>5
-----------------------------------------------------------------------------
(***************************************************************************)
(* A row that stands at the origin                                         *)
(***************************************************************************)
\* A value of a column, in a COMPACT page (c) or a REDUNDANT one.
ValueOK(c, x, v) ==
    /\ v \in ValueType
    /\ \/ /\ v.null = TRUE /\ x.can_be_null = TRUE /\ v.ext = FALSE
          /\ v.len = IF c = TRUE THEN 0 ELSE x.fixed_length
       \/ v.null = FALSE /\ x.fixed_length # 0 /\ v.ext = FALSE /\ v.len = x.fixed_length
       \/ /\ v.null = FALSE /\ x.fixed_length = 0 /\ v.len <= x.max_length
          /\ v.ext = TRUE => IsLong(x)

SizesOf(r) == [k \in DOMAIN r |-> r[k].len]

RowInv ==
    row # NoRow =>
        /\ DOMAIN row = DOMAIN table
        /\ \A k \in DOMAIN table : ValueOK(comp, table[k], row[k])
        /\ DataSize(row) < REC_MAX_DATA_SIZE /\ origin + DataSize(row) <= UNIV_PAGE_SIZE

\* The ends that are stored are sums of the lengths of the values.
Placed(u) == \A k \in 1 .. Len(offsets) : offsets[k].end = u[k]

\* The flags are those of the row; in a REDUNDANT record none is stored.
FlagOK(entry, v) ==
    IF comp THEN entry.null = v.null /\ entry.ext = v.ext ELSE entry.ext = FALSE
Flagged == \A k \in 1 .. Len(offsets) : FlagOK(offsets[k], row[k])

RowRead ==
    row # NoRow /\ HasRoom =>
        /\ phase = "no" => comp /\ \E k \in DOMAIN row : ExternalVarchar(k)
        /\ phase # "no" => Flagged /\ \A u : Sums(u, SizesOf(row)) => Placed(u)

LEMMA ValuesOK ==
    ASSUME comp \in BOOLEAN, NEW x \in FieldType, NEW v \in Values(x)
    PROVE  ValueOK(comp, x, v)
<1>1. v \in ValueType
  BY ValueFacts
<1>2. v.null \in BOOLEAN /\ v.ext \in BOOLEAN /\ x.can_be_null \in BOOLEAN
  BY <1>1 DEF ValueType, FieldType
<1>3. \/ /\ v.null /\ x.can_be_null /\ ~ v.ext
         /\ v.len = IF comp THEN 0 ELSE x.fixed_length
      \/ ~ v.null /\ x.fixed_length # 0 /\ ~ v.ext /\ v.len = x.fixed_length
      \/ /\ ~ v.null /\ x.fixed_length = 0
         /\ v.len \in Lengths /\ v.len <= x.max_length
         /\ v.ext => IsLong(x) /\ v.len >= 20
  BY DEF Values
<1> QED BY <1>1, <1>2, <1>3 DEF ValueOK

LEMMA InitRowInv == Init => RowInv
<1> SUFFICES ASSUME Init, row # NoRow
             PROVE  /\ DOMAIN row = DOMAIN table
                    /\ \A k \in DOMAIN table : ValueOK(comp, table[k], row[k])
                    /\ DataSize(row) < REC_MAX_DATA_SIZE
                    /\ origin + DataSize(row) <= UNIV_PAGE_SIZE
  BY DEF RowInv
<1>1. row \in Rows(table, origin) /\ table \in Seq(FieldType) /\ comp \in BOOLEAN
  BY OffsetsAssumption DEF Init
<1>2. /\ DOMAIN row = DOMAIN table
      /\ \A k \in DOMAIN table : row[k] \in Values(table[k])
      /\ DataSize(row) < REC_MAX_DATA_SIZE /\ origin + DataSize(row) <= UNIV_PAGE_SIZE
  BY <1>1 DEF Rows
<1>3. \A k \in DOMAIN table : ValueOK(comp, table[k], row[k])
  BY <1>1, <1>2, ValuesOK
<1> QED BY <1>2, <1>3

LEMMA StepRowInv == RowInv /\ [Next]_vars => RowInv'
<1> SUFFICES ASSUME RowInv, [Next]_vars PROVE RowInv'
  OBVIOUS
<1>1. UNCHANGED <<table, comp, origin, row>>
  BY DEF Next, CheckOrigin, ReadNew, ReadOld, OffsetsRead, CheckDataSize, CheckField, Accept,
         Done, vars
<1> QED BY <1>1 DEF RowInv

\* The sums of the lengths of the row's values.
LEMMA RowSums ==
    ASSUME TypeOK, RowInv, row # NoRow
    PROVE  /\ SizesOf(row) \in Seq(Nat) /\ Len(SizesOf(row)) = Len(table)
           /\ DOMAIN row = 1 .. Len(table)
           /\ \A k \in 1 .. Len(table) : SizesOf(row)[k] = row[k].len /\ row[k].len \in Nat
           /\ \E u : Sums(u, SizesOf(row)) /\ u[Len(table)] = DataSize(row)
<1>1. DOMAIN table = 1 .. Len(table) /\ Len(table) \in Nat
  BY TableFacts
<1>2. DOMAIN row = 1 .. Len(table)
  BY <1>1 DEF RowInv
<1>3. \A k \in 1 .. Len(table) : row[k].len \in Nat
  BY <1>1 DEF TypeOK, ValueType
<1>4. SizesOf(row) = [k \in 1 .. Len(table) |-> row[k].len]
  BY <1>2 DEF SizesOf
<1>5. /\ SizesOf(row) \in Seq(Nat) /\ Len(SizesOf(row)) = Len(table)
      /\ \A k \in 1 .. Len(table) : SizesOf(row)[k] = row[k].len
  BY <1>1, <1>3, <1>4
<1>6. DataSize(row) = Total(SizesOf(row))
  BY DEF DataSize, SizesOf
<1>7. \E u : Sums(u, SizesOf(row)) /\ u[Len(table)] = DataSize(row)
  BY <1>5, <1>6, TotalFacts
<1> QED BY <1>2, <1>3, <1>5, <1>7

\* A value is so long as its row at most, so that its length has 14 bits.
SizeInRow(u, k) ==
    /\ u[k - 1] \in Nat /\ u[k] \in Nat /\ u[k] = u[k - 1] + row[k].len
    /\ row[k].len \in Nat /\ row[k].len < 16384
    /\ origin + u[k] <= UNIV_PAGE_SIZE /\ u[Len(table)] = DataSize(row)

LEMMA RowSizes ==
    ASSUME TypeOK, RowInv, row # NoRow, NEW k \in 1 .. Len(table),
           NEW u, Sums(u, SizesOf(row))
    PROVE  SizeInRow(u, k)
<1>1. PICK s, n : s = SizesOf(row) /\ n = Len(table)
  OBVIOUS
<1>2. /\ s \in Seq(Nat) /\ Len(s) = n /\ n \in Nat
      /\ s[k] = row[k].len /\ row[k].len \in Nat
  BY <1>1, RowSums, TableFacts
<1>3. PICK w : Sums(w, s) /\ w[n] = DataSize(row)
  BY <1>1, RowSums
<1>4. \A i \in 1 .. Len(s) : s[i] <= s[i]
  BY <1>2
<1>5. u[n] <= w[n] /\ w[n] <= u[n]
  <2>1. n \in 0 .. Len(s)
    BY <1>2
  <2>2. \A i \in 0 .. Len(s) : u[i] <= w[i]
    BY <1>1, <1>2, <1>3, <1>4, SumsMonotone
  <2>3. \A i \in 0 .. Len(s) : w[i] <= u[i]
    BY <1>1, <1>2, <1>3, <1>4, SumsMonotone
  <2> QED BY <2>1, <2>2, <2>3
<1>6. k - 1 \in 0 .. n /\ k \in 0 .. n /\ n \in 0 .. n
  BY <1>1, <1>2
<1>7. u[k - 1] \in Nat /\ u[k] \in Nat /\ u[n] \in Nat /\ w[n] \in Nat
  BY <1>1, <1>2, <1>3, <1>6 DEF Sums
<1>8. u[k] = u[k - 1] + row[k].len
  BY <1>1, <1>2 DEF Sums
<1>9. u[k] <= u[n]
  BY <1>1, <1>2, <1>6, SumsGrow
<1>10. u[n] = DataSize(row)
  BY <1>3, <1>5, <1>7
<1>11. DataSize(row) < 16384 /\ origin + DataSize(row) <= UNIV_PAGE_SIZE
  BY DEF RowInv, REC_MAX_DATA_SIZE
<1>12. origin \in Nat /\ UNIV_PAGE_SIZE \in Nat
  BY OffsetsAssumption, TableFacts
<1>13. origin + u[k] <= UNIV_PAGE_SIZE /\ u[k] < 16384
  BY <1>7, <1>9, <1>10, <1>11, <1>12
<1>14. row[k].len < 16384
  <2>1. ASSUME NEW a \in Nat, NEW b \in Nat, NEW c \in Nat, c = a + b, c < 16384
        PROVE  b < 16384
    BY <2>1
  <2> QED BY <1>2, <1>7, <1>8, <1>13, <2>1
<1> QED BY <1>1, <1>2, <1>7, <1>8, <1>10, <1>13, <1>14 DEF SizeInRow

\* Storing what stands in the row.
LEMMA RowStored ==
    ASSUME IInv, RowInv, RowRead, row # NoRow, HasRoom, phase = "offsets", field < Len(table),
           NEW entry, entry.end = PrevEnd + row[field + 1].len,
           FlagOK(entry, row[field + 1]), Store(entry), UNCHANGED <<table, comp, origin, row>>
    PROVE  RowRead'
<1>1. PICK k : k = field + 1
  OBVIOUS
<1>2. /\ k \in 1 .. Len(table) /\ field \in Nat /\ Len(offsets) = field
      /\ offsets \in Seq(EntryType)
  BY <1>1, TableFacts DEF IInv, TypeOK, Filled
<1>3. TypeOK /\ RowInv /\ row # NoRow
  BY DEF IInv
<1>4. ASSUME NEW u, Sums(u, SizesOf(row))
      PROVE  entry.end = u[k]
  <2>1. PrevEnd = u[k - 1]
    <3>1. CASE field = 0
      BY <1>1, <1>4, <3>1 DEF Sums, PrevEnd
    <3>2. CASE field # 0
      <4>1. field \in 1 .. Len(offsets)
        BY <1>2, <3>2
      <4> QED BY <1>1, <1>2, <1>4, <3>2, <4>1 DEF RowRead, Placed, PrevEnd
    <3> QED BY <3>1, <3>2
  <2>2. u[k] = u[k - 1] + row[k].len
    <3>1. SizeInRow(u, k)
      BY ONLY <1>2, <1>3, <1>4, RowSizes
    <3> QED BY <3>1 DEF SizeInRow
  <2> QED BY <1>1, <2>1, <2>2
<1>5. InPage(entry.end)
  <2>1. PICK u : Sums(u, SizesOf(row))
    BY <1>3, RowSums
  <2>2. origin + u[k] <= UNIV_PAGE_SIZE
    <3>1. SizeInRow(u, k)
      BY ONLY <1>2, <1>3, <2>1, RowSizes
    <3> QED BY <3>1 DEF SizeInRow
  <2> QED BY <1>4, <2>1, <2>2 DEF InPage
<1>6. offsets' = Append(offsets, entry) /\ phase' = phase
  BY <1>5 DEF Store
<1>7. /\ Len(offsets') = k /\ offsets'[k] = entry
      /\ \A i \in 1 .. k : i = k \/ (i \in 1 .. Len(offsets) /\ offsets'[i] = offsets[i])
  BY <1>1, <1>2, <1>6
<1>8. ASSUME NEW u, Sums(u, SizesOf(row))
      PROVE  \A i \in 1 .. k : offsets'[i].end = u[i]
  <2>1. Placed(u)
    BY <1>8 DEF RowRead
  <2> QED BY <1>4, <1>7, <1>8, <2>1 DEF Placed
<1>9. ASSUME NEW i \in 1 .. k
      PROVE  FlagOK(offsets'[i], row[i])
  <2>1. Flagged
    BY DEF RowRead
  <2> QED BY <1>1, <1>7, <2>1 DEF Flagged
<1>10. Flagged'
  <2>1. \A i \in 1 .. Len(offsets') : FlagOK(offsets[i], row[i])'
    BY <1>7, <1>9 DEF FlagOK
  <2> QED BY <2>1 DEF Flagged
<1> QED BY <1>6, <1>7, <1>8, <1>10 DEF RowRead, Placed

LEMMA DivisionFacts ==
    ASSUME NEW n \in Nat, n < 16384
    PROVE  /\ n \div 256 \in Nat /\ n \div 256 < 64 /\ n % 256 \in Nat /\ n % 256 < 256
           /\ n = 256 * (n \div 256) + (n % 256)
OBVIOUS

LongIfExternal(x, v) == v.ext = TRUE => IsLong(x)
ReadAs(b, v) == LengthRead(b) = v.len /\ (ExternalRead(b) <=> v.ext = TRUE)

\* What was written of a length is read.
LEMMA WrittenRead ==
    ASSUME NEW v \in ValueType, v.len \in Nat, v.len < 16384, LongIfExternal(f, v)
    PROVE  ReadAs(Written(f, v), v)
<1>1. v.ext \in BOOLEAN
  BY DEF ValueType
<1>2. PICK b, q, r, n, e : /\ b = Written(f, v) /\ n = v.len /\ e = v.ext
                           /\ q = v.len \div 256 /\ r = v.len % 256
  OBVIOUS
<1>3. n \in Nat /\ q \in Nat /\ q < 64 /\ r \in Nat /\ n = 256 * q + r
  BY <1>2, DivisionFacts
<1>4. SUFFICES LengthRead(b) = n /\ (ExternalRead(b) <=> e = TRUE)
  BY <1>2 DEF ReadAs
<1>5. CASE IsLong(f) /\ e = TRUE
  <2>1. b = <<128 + 64 + q, r>>
    <3>1. v.ext
      BY <1>2, <1>5
    <3> QED BY <1>2, <1>5, <3>1 DEF Written
  <2>2. b[1] = 192 + q /\ b[2] = r
    BY <1>3, <2>1
  <2>3. b[1] >= 128 /\ b[1] % 64 = q /\ (b[1] \div 64) % 2 = 1
    BY <1>3, <2>2
  <2>4. IsTwoBytes(b)
    BY <1>5, <2>3 DEF IsTwoBytes
  <2>5. LengthRead(b) = q * 256 + r
    BY <2>2, <2>3, <2>4 DEF LengthRead
  <2> QED BY <1>3, <1>5, <2>3, <2>4, <2>5 DEF ExternalRead
<1>6. CASE IsLong(f) /\ n > 127 /\ e = FALSE
  <2>1. b = <<128 + 0 + q, r>>
    <3>1. ~ v.ext
      BY <1>2, <1>6
    <3> QED BY <1>2, <1>6, <3>1 DEF Written
  <2>2. b[1] = 128 + q /\ b[2] = r
    BY <1>3, <2>1
  <2>3. b[1] >= 128 /\ b[1] % 64 = q /\ (b[1] \div 64) % 2 = 0
    BY <1>3, <2>2
  <2>4. IsTwoBytes(b)
    BY <1>6, <2>3 DEF IsTwoBytes
  <2>5. LengthRead(b) = q * 256 + r
    BY <2>2, <2>3, <2>4 DEF LengthRead
  <2> QED BY <1>3, <1>6, <2>3, <2>4, <2>5 DEF ExternalRead
<1>7. CASE ~ (IsLong(f) /\ n > 127) /\ e = FALSE
  <2>1. b = <<n, 0>>
    <3>1. ~ v.ext
      BY <1>2, <1>7
    <3> QED BY <1>2, <1>7, <3>1 DEF Written
  <2>2. ~ IsTwoBytes(b)
    BY <1>3, <1>7, <2>1 DEF IsTwoBytes
  <2> QED BY <1>7, <2>1, <2>2 DEF LengthRead, ExternalRead
<1>8. e = TRUE => IsLong(f)
  BY <1>2 DEF LongIfExternal
<1>9. e = TRUE \/ e = FALSE
  BY <1>1, <1>2
<1> QED BY ONLY <1>5, <1>6, <1>7, <1>8, <1>9

LEMMA SameBoolean ==
    ASSUME NEW a \in BOOLEAN, NEW b \in BOOLEAN, a <=> b = TRUE
    PROVE  a = b
OBVIOUS

LEMMA ReadNewRow ==
    ASSUME IInv, RowInv, RowRead, row # NoRow, HasRoom, ReadNew
    PROVE  RowRead'
<1>1. phase = "offsets" /\ comp /\ field < Len(table) /\ UNCHANGED <<table, comp, origin, row>>
  BY DEF ReadNew
<1>2. PICK k, v : k = field + 1 /\ v = row[k]
  OBVIOUS
<1>3. TypeOK /\ RowInv /\ row # NoRow
  BY DEF IInv
<1>4. k \in 1 .. Len(table) /\ f = table[k] /\ PrevEnd \in Nat
  <2>1. k \in 1 .. Len(table)
    BY <1>1, <1>2, <1>3, TableFacts DEF TypeOK
  <2>2. f = table[k]
    BY <1>2 DEF f
  <2> QED BY <1>1, <2>1, <2>2, PrevEndFacts DEF IInv
<1>5. /\ v \in ValueType
      /\ \/ v.null = TRUE /\ f.can_be_null = TRUE /\ v.ext = FALSE /\ v.len = 0
         \/ v.null = FALSE /\ f.fixed_length # 0 /\ v.ext = FALSE /\ v.len = f.fixed_length
         \/ v.null = FALSE /\ f.fixed_length = 0 /\ (v.ext = TRUE => IsLong(f))
  <2>1. ValueOK(comp, f, v)
    <3>1. \A i \in DOMAIN table : ValueOK(comp, table[i], row[i])
      BY <1>3 DEF RowInv
    <3>2. k \in DOMAIN table
      BY <1>3, <1>4, TableFacts
    <3> QED BY <1>2, <1>4, <3>1, <3>2
  <2>2. comp = TRUE
    BY <1>1, <1>3 DEF TypeOK
  <2> QED BY <2>1, <2>2 DEF ValueOK
<1>6. v.len \in Nat /\ v.len < 16384
  <2>1. PICK u : Sums(u, SizesOf(row))
    BY <1>3, RowSums
  <2>2. SizeInRow(u, k)
    BY ONLY <1>3, <1>4, <2>1, RowSizes
  <2> QED BY <1>2, <2>2 DEF SizeInRow
<1>7. NullBits = {v.null}
  BY <1>2 DEF NullBits
<1>8. ASSUME NEW entry, entry.end = PrevEnd + v.len, entry.null = v.null, entry.ext = v.ext,
             Store(entry)
      PROVE  RowRead'
  <2>1. FlagOK(entry, row[field + 1])
    BY <1>1, <1>2, <1>8 DEF FlagOK
  <2> QED BY <1>1, <1>2, <1>8, <2>1, RowStored
<1>9. CASE v.null = TRUE
  <2>1. PICK entry : /\ entry = [end |-> PrevEnd, null |-> TRUE, ext |-> FALSE]
                     /\ Store(entry)
    <3>1. f.can_be_null = TRUE /\ ~ (FALSE \in NullBits)
      BY <1>5, <1>7, <1>9
    <3> QED BY <3>1 DEF ReadNew
  <2>2. v.len = 0 /\ v.ext = FALSE
    BY <1>5, <1>9
  <2>3. entry.end = PrevEnd + v.len
    BY <1>4, <2>1, <2>2
  <2>4. entry.null = v.null /\ entry.ext = v.ext
    BY <1>9, <2>1, <2>2
  <2> QED BY <1>8, <2>1, <2>3, <2>4
<1>10. CASE v.null = FALSE
  <2>1. ~ (TRUE \in NullBits)
    BY <1>7, <1>10
  <2>2. CASE f.fixed_length # 0
    <3>1. PICK entry :
            /\ entry = [end |-> PrevEnd + f.fixed_length, null |-> FALSE, ext |-> FALSE]
            /\ Store(entry)
      BY <2>1, <2>2 DEF ReadNew
    <3>2. entry.end = PrevEnd + v.len /\ entry.null = v.null /\ entry.ext = v.ext
      BY <1>5, <1>10, <2>2, <3>1
    <3> QED BY <1>8, <3>1, <3>2
  <2>3. CASE f.fixed_length = 0
    <3> DEFINE Read(b) == [end |-> PrevEnd + LengthRead(b), null |-> FALSE,
                           ext |-> ExternalRead(b)]
    <3>0. PICK b \in LengthReads : Store(Read(b))
      BY <2>1, <2>3 DEF ReadNew
    <3>1. PICK entry : entry = Read(b) /\ Store(entry)
      BY <3>0
    <3>2. b = Written(f, v)
      BY <1>2, <3>0 DEF LengthReads
    <3>3. LengthRead(b) = v.len /\ (ExternalRead(b) <=> v.ext = TRUE)
      <4>1. LongIfExternal(f, v)
        BY <1>5, <1>10, <2>3 DEF LongIfExternal
      <4>2. ReadAs(Written(f, v), v)
        BY <1>5, <1>6, <4>1, WrittenRead
      <4> QED BY <3>2, <4>2 DEF ReadAs
    <3>4. ExternalRead(b) = v.ext
      <4>1. ExternalRead(b) \in BOOLEAN /\ v.ext \in BOOLEAN
        BY <1>1, <1>3, <1>5, LengthReadFacts DEF ValueType
      <4> QED BY <3>3, <4>1, SameBoolean
    <3>5. entry.end = PrevEnd + v.len /\ entry.null = v.null /\ entry.ext = v.ext
      BY <1>10, <3>1, <3>3, <3>4
    <3> QED BY <1>8, <3>1, <3>5
  <2> QED BY <2>2, <2>3
<1> QED BY <1>5, <1>9, <1>10

LEMMA ReadOldRow ==
    ASSUME IInv, RowInv, RowRead, row # NoRow, HasRoom, ReadOld
    PROVE  RowRead'
<1>1. phase = "offsets" /\ ~ comp /\ field < Len(table) /\ UNCHANGED <<table, comp, origin, row>>
  BY DEF ReadOld
<1>2. PICK entry : /\ entry.end = PrevEnd + row[field + 1].len /\ Store(entry)
                   /\ entry.ext = FALSE
  <2>1. PICK end \in EndReads : Store([end |-> end, null |-> FALSE, ext |-> FALSE])
    BY DEF ReadOld
  <2>2. end = PrevEnd + row[field + 1].len
    BY <2>1 DEF EndReads
  <2> QED BY <2>1, <2>2
<1>3. FlagOK(entry, row[field + 1])
  BY <1>1, <1>2 DEF FlagOK
<1> QED BY <1>1, <1>2, <1>3, RowStored

\* The size of the row is within the limits of its table.
LEMMA SizeWithinLimits ==
    ASSUME TypeOK, RowInv, row # NoRow
    PROVE  data_min_size(table) <= DataSize(row) /\ DataSize(row) <= data_max_size(table)
<1>1. PICK n, s, lo, hi :
        /\ n = Len(table) /\ s = SizesOf(row)
        /\ lo = [k \in DOMAIN table |-> IF table[k].can_be_null THEN 0
                                        ELSE table[k].fixed_length]
        /\ hi = [k \in DOMAIN table |-> table[k].max_length + table[k].fixed_length]
  OBVIOUS
<1>2. /\ DOMAIN table = 1 .. n /\ n \in Nat
      /\ s \in Seq(Nat) /\ Len(s) = n /\ \A k \in 1 .. n : s[k] = row[k].len
  BY <1>1, RowSums, TableFacts
<1>3. ASSUME NEW k \in 1 .. n
      PROVE  /\ lo[k] \in Nat /\ hi[k] \in Nat /\ s[k] \in Nat
             /\ lo[k] <= s[k] /\ s[k] <= hi[k]
  <2>1. PICK x, v : x = table[k] /\ v = row[k]
    OBVIOUS
  <2>2. ValueOK(comp, x, v) /\ x.fixed_length \in Nat /\ x.max_length \in Nat
    BY <1>1, <1>2, <2>1, FieldFacts DEF RowInv
  <2>3. v.len \in Nat
    BY <2>2 DEF ValueOK, ValueType
  <2>4. /\ lo[k] = IF x.can_be_null THEN 0 ELSE x.fixed_length
        /\ hi[k] = x.max_length + x.fixed_length /\ s[k] = v.len
    BY <1>1, <1>2, <2>1
  <2>5. CASE v.null = TRUE
    <3>1. x.can_be_null = TRUE /\ (v.len = 0 \/ v.len = x.fixed_length)
      BY <2>2, <2>5 DEF ValueOK
    <3>2. lo[k] = 0
      BY <2>4, <3>1
    <3> QED BY <2>2, <2>3, <2>4, <3>1, <3>2
  <2>6. CASE v.null = FALSE
    <3>1. v.len = x.fixed_length \/ (x.fixed_length = 0 /\ v.len <= x.max_length)
      BY <2>2, <2>6 DEF ValueOK
    <3>2. lo[k] = 0 \/ lo[k] = x.fixed_length
      BY <2>4
    <3> QED BY <2>2, <2>3, <2>4, <3>1, <3>2
  <2> QED BY <2>2, <2>5, <2>6 DEF ValueOK
<1>4. lo \in Seq(Nat) /\ Len(lo) = n /\ hi \in Seq(Nat) /\ Len(hi) = n
  <2>1. lo \in [1 .. n -> Nat] /\ hi \in [1 .. n -> Nat]
    BY <1>1, <1>2, <1>3
  <2> QED BY <1>2, <2>1
<1>5. PICK u : Sums(u, s) /\ u[n] = DataSize(row)
  BY <1>1, RowSums
<1>6. PICK v : Sums(v, lo) /\ Total(lo) = v[n]
  BY <1>4, TotalFacts
<1>7. PICK w : Sums(w, hi) /\ Total(hi) = w[n]
  BY <1>4, TotalFacts
<1>8. n \in 0 .. n
  BY <1>2
<1>9. v[n] <= u[n]
  <2>1. Len(lo) = Len(s) /\ \A k \in 1 .. Len(lo) : lo[k] <= s[k]
    BY <1>2, <1>3, <1>4
  <2>2. \A k \in 0 .. Len(lo) : v[k] <= u[k]
    BY ONLY <1>2, <1>4, <1>5, <1>6, <2>1, SumsMonotone
  <2> QED BY <1>4, <1>8, <2>2
<1>10. u[n] <= w[n]
  <2>1. Len(s) = Len(hi) /\ \A k \in 1 .. Len(s) : s[k] <= hi[k]
    BY <1>2, <1>3, <1>4
  <2>2. \A k \in 0 .. Len(s) : u[k] <= w[k]
    BY ONLY <1>2, <1>4, <1>5, <1>7, <2>1, SumsMonotone
  <2> QED BY <1>2, <1>8, <2>2
<1>11. data_min_size(table) = Total(lo) /\ data_max_size(table) = Total(hi)
  BY <1>1 DEF data_min_size, data_max_size
<1> QED BY <1>5, <1>6, <1>7, <1>9, <1>10, <1>11

\* The lengths of the row pass, but for those of external VARCHARs.
LEMMA CheckFieldRow ==
    ASSUME IInv, RowInv, RowRead, row # NoRow, HasRoom, CheckField
    PROVE  RowRead'
<1>1. /\ phase = "fields" /\ field < Len(table) /\ UNCHANGED <<table, comp, origin, row, offsets>>
  BY DEF CheckField
<1>2. TypeOK /\ RowInv /\ row # NoRow
  BY DEF IInv
<1>3. Flagged /\ \A u : Sums(u, SizesOf(row)) => Placed(u)
  BY <1>1 DEF RowRead
<1>4. PICK k, x, v, e : k = field + 1 /\ x = table[k] /\ v = row[k] /\ e = offsets[k]
  OBVIOUS
<1>5. k \in 1 .. Len(table) /\ Len(table) = Len(offsets) /\ DOMAIN table = 1 .. Len(table)
  BY <1>1, <1>2, <1>4, TableFacts DEF IInv, TypeOK, Filled
<1>6. /\ ValueOK(comp, x, v) /\ x.fixed_length \in Nat /\ x.max_length \in Nat
      /\ comp \in BOOLEAN /\ DOMAIN row = 1 .. Len(table)
  BY <1>2, <1>4, <1>5, FieldFacts DEF RowInv, TypeOK
<1>7. PICK u : Sums(u, SizesOf(row))
  BY <1>2, RowSums
<1>8. /\ u[k - 1] \in Nat /\ u[k] \in Nat /\ u[k] = u[k - 1] + v.len
      /\ v.len \in Nat /\ v.len < 16384
  <2>1. SizeInRow(u, k)
    BY ONLY <1>2, <1>5, <1>7, RowSizes
  <2> QED BY <1>4, <2>1 DEF SizeInRow
<1>9. nth_size(k) = v.len
  <2>1. PICK start : start = IF k = 1 THEN 0 ELSE offsets[k - 1].end
    OBVIOUS
  <2>2. start = u[k - 1]
    <3>1. CASE k = 1
      BY <1>7, <2>1, <3>1 DEF Sums
    <3>2. CASE k # 1
      <4>1. k - 1 \in 1 .. Len(offsets)
        BY <1>5, <3>2
      <4> QED BY <1>3, <1>7, <2>1, <3>2, <4>1 DEF Placed
    <3> QED BY <3>1, <3>2
  <2>3. offsets[k].end = u[k]
    BY <1>3, <1>5, <1>7 DEF Placed
  <2>4. nth_size(k) = (u[k] - u[k - 1]) % REC_OFFS_EXTERNAL
    BY <2>1, <2>2, <2>3 DEF nth_size
  <2>5. u[k] - u[k - 1] = v.len
    BY <1>8
  <2>6. v.len % REC_OFFS_EXTERNAL = v.len
    BY <1>8 DEF REC_OFFS_EXTERNAL
  <2> QED BY <2>4, <2>5, <2>6
<1>10. CASE SizeOK(k)
  <2>1. phase' = "fields"
    BY <1>1, <1>4, <1>10 DEF CheckField
  <2> QED BY <1>1, <1>3, <2>1 DEF RowRead, Flagged, FlagOK, Placed
<1>11. CASE ~ SizeOK(k)
  <2>1. phase' = "no"
    BY <1>1, <1>4, <1>11 DEF CheckField
  <2>2. FlagOK(e, v)
    BY <1>3, <1>4, <1>5 DEF Flagged
  <2>3. SizeOK(k) <=> IF x.fixed_length # 0
                      THEN v.len = x.fixed_length \/ (v.len = 0 /\ x.can_be_null)
                      ELSE IF e.ext THEN x.lob ELSE v.len <= x.max_length
    BY <1>4, <1>9 DEF SizeOK
  <2>4. x.fixed_length = 0
    BY <1>6, <1>11, <2>3 DEF ValueOK
  <2>5. v.len <= x.max_length
    BY <1>6, <2>4 DEF ValueOK
  <2>6. e.ext /\ ~ x.lob
    BY <1>11, <2>3, <2>4, <2>5
  <2>7. comp /\ v.ext
    BY <2>2, <2>6 DEF FlagOK
  <2>8. ExternalVarchar(k) /\ k \in DOMAIN row
    BY <1>4, <1>5, <1>6, <2>6, <2>7 DEF ExternalVarchar
  <2> QED BY <1>1, <2>1, <2>7, <2>8 DEF RowRead, ExternalVarchar
<1> QED BY <1>10, <1>11

LEMMA CheckDataSizeRow ==
    ASSUME IInv, RowInv, RowRead, row # NoRow, HasRoom, CheckDataSize
    PROVE  RowRead'
<1>1. phase = "size" /\ UNCHANGED <<table, comp, origin, row, field, offsets>>
  BY DEF CheckDataSize
<1>2. TypeOK /\ RowInv /\ row # NoRow
  BY DEF IInv
<1>3. Flagged /\ \A u : Sums(u, SizesOf(row)) => Placed(u)
  BY <1>1 DEF RowRead
<1>4. PICK n : n = Len(table)
  OBVIOUS
<1>5. n \in 1 .. Len(table) /\ Len(offsets) = n
  BY <1>1, <1>2, <1>4, TableFacts DEF IInv, Filled
<1>6. PICK u : Sums(u, SizesOf(row)) /\ u[n] = DataSize(row)
  BY <1>2, <1>4, RowSums
<1>7. offsets[n].end = DataSize(row)
  BY <1>3, <1>4, <1>5, <1>6 DEF Placed
<1>8. phase' = "fields"
  BY <1>2, <1>4, <1>7, SizeWithinLimits DEF CheckDataSize
<1> QED BY <1>1, <1>3, <1>8 DEF RowRead, Flagged, FlagOK, Placed

LEMMA InitRowRead == Init => RowRead
<1> SUFFICES ASSUME Init PROVE RowRead
  OBVIOUS
<1>1. offsets = << >> /\ phase = "origin"
  BY DEF Init
<1>2. Len(offsets) = 0 /\ 1 .. 0 = {}
  BY <1>1
<1> QED BY <1>1, <1>2 DEF RowRead, Flagged, Placed

LEMMA StepRowRead ==
    IInv /\ RowInv /\ RowRead /\ [Next]_vars => RowRead'
<1> SUFFICES ASSUME IInv, RowInv, RowRead, [Next]_vars PROVE RowRead'
  OBVIOUS
<1>1. UNCHANGED <<table, comp, origin, row>>
  BY DEF Next, CheckOrigin, ReadNew, ReadOld, OffsetsRead, CheckDataSize, CheckField, Accept,
         Done, vars
<1>2. CASE ~ (row # NoRow /\ HasRoom)
  <2>1. ~ (row # NoRow /\ HasRoom)'
    BY <1>1, <1>2 DEF HasRoom, record_extra_bytes
  <2> QED BY <2>1 DEF RowRead
<1>3. CASE row # NoRow /\ HasRoom
  <2>1. ASSUME UNCHANGED <<phase, offsets>> \/ (phase # "no" /\ phase' # "no" /\ offsets' = offsets)
        PROVE  RowRead'
    BY <1>1, <1>3, <2>1 DEF RowRead, Flagged, FlagOK, Placed, ExternalVarchar
  <2>2. CASE CheckOrigin
    <3>1. phase' = "offsets" /\ phase = "origin" /\ offsets' = offsets
      BY <1>3, <2>2 DEF CheckOrigin, HasRoom
    <3> QED BY <2>1, <3>1
  <2>3. CASE OffsetsRead
    BY <2>1, <2>3 DEF OffsetsRead
  <2>4. CASE Accept
    BY <2>1, <2>4 DEF Accept
  <2>5. CASE Done \/ UNCHANGED vars
    BY <2>1, <2>5 DEF Done, vars
  <2> QED BY <1>3, <2>2, <2>3, <2>4, <2>5, ReadNewRow, ReadOldRow, CheckDataSizeRow,
             CheckFieldRow DEF Next
<1> QED BY <1>2, <1>3

\* The places of the values are those of the row.
LEMMA RowReadRecognised ==
    ASSUME IInv, RowInv, RowRead
    PROVE  RowRecognised
<1> SUFFICES ASSUME row # NoRow, HasRoom
             PROVE  /\ phase = "no" => comp /\ \E k \in DOMAIN row : ExternalVarchar(k)
                    /\ phase = "yes" => \A k \in DOMAIN row :
                          /\ Size(k) = row[k].len
                          /\ comp => offsets[k].null = row[k].null /\ offsets[k].ext = row[k].ext
  BY DEF RowRecognised
<1>1. TypeOK /\ RowInv /\ row # NoRow
  BY DEF IInv
<1>2. phase = "no" => comp /\ \E k \in DOMAIN row : ExternalVarchar(k)
  BY DEF RowRead
<1>3. ASSUME phase = "yes", NEW k \in DOMAIN row
      PROVE  /\ Size(k) = row[k].len
             /\ comp => offsets[k].null = row[k].null /\ offsets[k].ext = row[k].ext
  <2>1. Flagged /\ \A u : Sums(u, SizesOf(row)) => Placed(u)
    BY <1>3 DEF RowRead
  <2>2. Len(offsets) = Len(table) /\ k \in 1 .. Len(table)
    BY <1>1, <1>3, RowSums DEF IInv, Filled
  <2>3. PICK u : Sums(u, SizesOf(row))
    BY <1>1, RowSums
  <2>4. u[k - 1] \in Nat /\ row[k].len \in Nat /\ u[k] = u[k - 1] + row[k].len
    <3>1. SizeInRow(u, k)
      BY ONLY <1>1, <2>2, <2>3, RowSizes
    <3> QED BY <3>1 DEF SizeInRow
  <2>5. offsets[k].end = u[k]
    BY <2>1, <2>2, <2>3 DEF Placed
  <2>6. (IF k = 1 THEN 0 ELSE offsets[k - 1].end) = u[k - 1]
    <3>1. CASE k = 1
      BY <2>3, <3>1 DEF Sums
    <3>2. CASE k # 1
      <4>1. k - 1 \in 1 .. Len(offsets)
        BY <2>2, <3>2
      <4> QED BY <2>1, <2>3, <3>2, <4>1 DEF Placed
    <3> QED BY <3>1, <3>2
  <2>7. Size(k) = row[k].len
    BY <2>4, <2>5, <2>6 DEF Size
  <2>8. FlagOK(offsets[k], row[k])
    BY <2>1, <2>2 DEF Flagged
  <2> QED BY <2>7, <2>8 DEF FlagOK
<1> QED BY <1>2, <1>3

(***************************************************************************)
(* A row that the server wrote is recognised, with its values where they   *)
(* are (c_parser.c:311-394, 397-455, 249-308): for every table, every row  *)
(* that fits a page and every length of 14 bits, but for the external      *)
(* VARCHARs that RowRecognised excepts.                                    *)
(***************************************************************************)
THEOREM OffsetsRowRecognised == Spec => []RowRecognised
<1>1. Init => IInv /\ RowInv /\ RowRead
  BY InitIInv, InitRowInv, InitRowRead
<1>2. (IInv /\ RowInv /\ RowRead) /\ [Next]_vars => (IInv /\ RowInv /\ RowRead)'
  BY StepIInv, StepRowInv, StepRowRead
<1>3. IInv /\ RowInv /\ RowRead => RowRecognised
  BY RowReadRecognised
<1> QED BY <1>1, <1>2, <1>3, PTL DEF Spec
=============================================================================
