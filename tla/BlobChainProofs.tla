--------------------------- MODULE BlobChainProofs ---------------------------
(***************************************************************************)
(* Proofs about BlobChain, for any pages, lengths and limits.  What reading *)
(* a page gives is arbitrary, so nothing is assumed of the chains: the loop *)
(* alone keeps the number of bytes and of open descriptors bounded.         *)
(***************************************************************************)
EXTENDS BlobChain, FiniteSetTheorems, TLAPS

\* With -i the one descriptor is there if and only if fn says so. With -b the
\* value that is being printed has not lost a descriptor yet.
Descriptors ==
    IF external_in_ibdata
    THEN descriptors = (IF fn = "open" THEN 1 ELSE 0)
    ELSE /\ fn = "0"
         /\ descriptors <= values
         /\ pc = "loop" => descriptors < values

IInv == TypeOK /\ Descriptors /\ StopsAtLength
-----------------------------------------------------------------------------
\* What a page of the disk that is a part has.
LEMMA PartFacts ==
    ASSUME TypeOK, NEW p \in Pages, store[p].kind = "part"
    PROVE  store[p].len \in Nat /\ store[p].next \in Pages \cup {0, FIL_NULL}
<1>1. store[p] \in Contents
  BY DEF TypeOK
<1>2. store[p] # Absent /\ store[p] # Short
  BY DEF Absent, Short
<1>3. PICK len \in PartLens, next \in Pages \cup {0, FIL_NULL} : store[p] = Part(len, next)
  BY <1>1, <1>2 DEF Contents
<1>4. store[p].len = len /\ store[p].next = next
  BY <1>3 DEF Part
<1> QED BY <1>4, BlobAssumption

LEMMA InitIInv == Init => IInv
<1> SUFFICES ASSUME Init PROVE IInv
  OBVIOUS
<1>1. TypeOK
  <2>1. parts \in Seq(Pages)
    BY DEF Init
  <2>2. /\ store \in [Pages -> Contents] /\ {ibdata, external_in_ibdata} \subseteq BOOLEAN
        /\ pc = "idle" /\ fn = "0" /\ far = FALSE
    BY DEF Init
  <2>3. page_no = 0 /\ extern_len = 0 /\ len_sum = 0 /\ descriptors = 0 /\ root = 0 /\ values = 0
    BY DEF Init
  <2>4. len_sum \in Nat /\ descriptors \in 0 .. MaxOpen /\ values \in 0 .. MaxValues
    BY <2>3, BlobAssumption
  <2>5. fn \in {"0", "-1", "open"} /\ pc \in {"idle", "loop"} /\ pc # "loop"
    BY <2>2
  <2>6. page_no \in Pages \cup {0, FIL_NULL} /\ extern_len \in Lengths \cup {0}
        /\ root \in Pages \cup {0} /\ far \in BOOLEAN
    BY <2>2, <2>3
  <2> QED BY <2>1, <2>2, <2>4, <2>5, <2>6 DEF TypeOK
<1>2. Descriptors
  BY DEF Init, Descriptors
<1>3. StopsAtLength
  BY BlobAssumption DEF Init, StopsAtLength, Wanted
<1> QED BY <1>1, <1>2, <1>3 DEF IInv

LEMMA StartKeepsIInv ==
    ASSUME IInv, NEW page \in Pages, NEW beyond \in BOOLEAN, NEW len \in Lengths,
           StartValue(page, beyond, len)
    PROVE  IInv'
<1>1. TypeOK /\ Descriptors
  BY DEF IInv
<1>2. TypeOK'
  BY <1>1, BlobAssumption DEF TypeOK, StartValue, disk
<1>3. Descriptors'
  BY <1>1, BlobAssumption DEF TypeOK, Descriptors, StartValue, disk
<1>4. StopsAtLength'
  BY BlobAssumption DEF StopsAtLength, Wanted, StartValue
<1> QED BY <1>2, <1>3, <1>4 DEF IInv

LEMMA CannotOpenKeepsIInv ==
    ASSUME IInv, CannotOpen
    PROVE  IInv'
<1>1. TypeOK /\ Descriptors /\ StopsAtLength
  BY DEF IInv
<1>2. external_in_ibdata => fn # "open"
  BY DEF CannotOpen, Opens
<1>3. TypeOK'
  BY <1>1, BlobAssumption DEF TypeOK, CannotOpen, disk
<1>4. Descriptors'
  BY <1>1, <1>2, BlobAssumption DEF TypeOK, Descriptors, CannotOpen, disk
<1>5. StopsAtLength'
  BY <1>1 DEF StopsAtLength, Wanted, CannotOpen
<1> QED BY <1>3, <1>4, <1>5 DEF IInv

\* What open() has left: one descriptor more, except that the file of -i is
\* opened once.
LEMMA OpenedFacts ==
    ASSUME TypeOK, Descriptors, Opens, pc = "loop"
    PROVE  /\ Opened \in 1 .. MaxOpen
           /\ external_in_ibdata => Opened = 1
           /\ ~ external_in_ibdata => Opened = descriptors + 1 /\ Opened <= values
<1>1. CASE external_in_ibdata
  BY <1>1, BlobAssumption DEF TypeOK, Descriptors, Opens, Opened, MayOpen
<1>2. CASE ~ external_in_ibdata
  BY <1>2, BlobAssumption DEF TypeOK, Descriptors, Opens, Opened, MayOpen
<1> QED BY <1>1, <1>2

LEMMA LeaveKeepsIInv ==
    ASSUME IInv, LeaveAtBadPage
    PROVE  IInv'
<1>1. TypeOK /\ Descriptors /\ StopsAtLength
  BY DEF IInv
<1>2. pc = "loop" /\ Opens
  BY DEF LeaveAtBadPage
<1>3. /\ Opened \in 1 .. MaxOpen
      /\ external_in_ibdata => Opened = 1
      /\ ~ external_in_ibdata => Opened <= values
  BY <1>1, <1>2, OpenedFacts
<1>4. /\ descriptors' = Opened /\ pc' = "idle" /\ UNCHANGED <<disk, values>>
      /\ fn' = (IF external_in_ibdata THEN "open" ELSE fn)
  BY DEF LeaveAtBadPage
<1>5. TypeOK'
  BY <1>1, <1>3, BlobAssumption DEF TypeOK, LeaveAtBadPage, disk
<1>6. Descriptors'
  BY <1>1, <1>3, <1>4 DEF Descriptors, disk
<1>7. StopsAtLength'
  BY <1>1 DEF StopsAtLength, Wanted, LeaveAtBadPage
<1> QED BY <1>5, <1>6, <1>7 DEF IInv

LEMMA PrintKeepsIInv ==
    ASSUME IInv, PrintPart
    PROVE  IInv'
<1> DEFINE page == store[page_no]
           last == LastPart(page.next, Sum(page.len))
<1>1. TypeOK /\ Descriptors /\ StopsAtLength
  BY DEF IInv
<1>2. pc = "loop" /\ Opens /\ page.kind = "part" /\ page.len <= UNIV_PAGE_SIZE
  BY DEF PrintPart, Believable
<1>3. page_no \in Pages
  BY <1>1, <1>2 DEF TypeOK
<1>4. page.len \in Nat /\ page.next \in Pages \cup {0, FIL_NULL}
  BY <1>1, <1>2, <1>3, PartFacts
<1>5. /\ Opened \in 1 .. MaxOpen
      /\ external_in_ibdata => Opened = 1
      /\ ~ external_in_ibdata => Opened = descriptors + 1
  BY <1>1, <1>2, OpenedFacts
<1>6. /\ len_sum' = len_sum + page.len /\ parts' = Printed(page.len) /\ page_no' = page.next
      /\ pc' = (IF last THEN "idle" ELSE "loop") /\ far' = FALSE
      /\ fn' = (IF external_in_ibdata THEN "open" ELSE fn)
      /\ descriptors' = Closed(Opened)
      /\ UNCHANGED <<disk, extern_len, root, values>>
  BY DEF PrintPart, Sum
<1>7. ~ last => page.next \in Pages /\ len_sum + page.len < extern_len
  BY <1>1, <1>4, BlobAssumption DEF LastPart, Sum, TypeOK
<1>8. Closed(Opened) = (IF external_in_ibdata THEN 1 ELSE descriptors)
  BY <1>1, <1>5, BlobAssumption DEF Closed, TypeOK
<1>9. Printed(page.len) \in Seq(Pages)
  BY <1>1, <1>3 DEF Printed, TypeOK
<1>10. TypeOK'
  <2>1. /\ store' \in [Pages -> Contents]
        /\ {ibdata', external_in_ibdata'} \subseteq BOOLEAN
        /\ extern_len' \in Lengths \cup {0} /\ root' \in Pages \cup {0}
        /\ values' \in 0 .. MaxValues
    BY <1>1, <1>6 DEF TypeOK, disk
  <2>2. pc' \in {"idle", "loop"} /\ (pc' = "loop" => page_no' \in Pages)
    BY <1>6, <1>7
  <2>3. page_no' \in Pages \cup {0, FIL_NULL} /\ parts' \in Seq(Pages) /\ far' \in BOOLEAN
    BY <1>4, <1>6, <1>9
  <2>4. len_sum' \in Nat
    BY <1>1, <1>4, <1>6 DEF TypeOK
  <2>5. descriptors' \in 0 .. MaxOpen
    BY <1>1, <1>5, <1>6, <1>8, BlobAssumption DEF TypeOK
  <2>6. fn' \in {"0", "-1", "open"}
    BY <1>1, <1>6 DEF TypeOK
  <2> QED BY <2>1, <2>2, <2>3, <2>4, <2>5, <2>6 DEF TypeOK
<1>11. Descriptors'
  BY <1>1, <1>2, <1>6, <1>8, BlobAssumption DEF TypeOK, Descriptors, disk
<1>12. StopsAtLength'
  BY <1>1, <1>2, <1>4, <1>6, <1>7, BlobAssumption DEF TypeOK, StopsAtLength, Wanted
<1> QED BY <1>10, <1>11, <1>12 DEF IInv

LEMMA StepIInv == IInv /\ [Next]_vars => IInv'
<1> SUFFICES ASSUME IInv, [Next]_vars PROVE IInv'
  OBVIOUS
<1>1. ASSUME NEW page \in Pages, NEW beyond \in BOOLEAN, NEW len \in Lengths,
             StartValue(page, beyond, len)
      PROVE  IInv'
  BY <1>1, StartKeepsIInv
<1>2. CASE CannotOpen
  BY <1>2, CannotOpenKeepsIInv
<1>3. CASE LeaveAtBadPage
  BY <1>3, LeaveKeepsIInv
<1>4. CASE PrintPart
  BY <1>4, PrintKeepsIInv
<1>5. CASE UNCHANGED vars
  BY <1>5 DEF vars, disk, IInv, TypeOK, Descriptors, StopsAtLength, Wanted
<1> QED BY <1>1, <1>2, <1>3, <1>4, <1>5 DEF Next, Start, Loop, Done

LEMMA AlwaysIInv == Spec => []IInv
BY InitIInv, StepIInv, PTL DEF Spec
-----------------------------------------------------------------------------
\* Whatever the pages hold, every variable has its type: no page is looked for
\* that has no number, and the descriptors never exceed what the process may
\* have (print_data.c:436-488).
THEOREM BlobTypeOK == Spec => []TypeOK
<1>1. IInv => TypeOK
  BY DEF IInv
<1> QED BY <1>1, AlwaysIInv, PTL

\* Each value costs at most one descriptor with -b, and all of them one with -i
\* (print_data.c:441-453, 476).
THEOREM BlobOneLeakPerValue == Spec => []OneLeakPerValue
<1>1. IInv => OneLeakPerValue
  BY DEF IInv, TypeOK, Descriptors, OneLeakPerValue
<1> QED BY <1>1, AlwaysIInv, PTL

\* Along any chain, a cycle included, and whatever the reference says, less than
\* a page is printed beyond the length of the value, or up to a page if it is 0
\* (print_data.c:424-482).
THEOREM BlobStopsAtLength == Spec => []StopsAtLength
<1>1. IInv => StopsAtLength
  BY DEF IInv
<1> QED BY <1>1, AlwaysIInv, PTL
-----------------------------------------------------------------------------
(***************************************************************************)
(* A value whose chain is intact.  No page of it stops the loop, and the   *)
(* descriptors that are left are enough; so the loop is always at the page *)
(* that follows the parts it has printed.                                  *)
(***************************************************************************)
Intact(c, sums) ==
    /\ \A i \in DOMAIN c :
          store[c[i]].kind = "part" /\ store[c[i]].len \in 1 .. UNIV_PAGE_SIZE
    /\ \A i \in DOMAIN c :
          store[c[i]].next = (IF i = Len(c) THEN FIL_NULL ELSE c[i + 1])
    /\ AddUpTo(c, sums, extern_len)

\* The value is not one of those behind MaxOpen damaged ones, and its file is there.
Served == values \in 1 .. MaxOpen /\ (external_in_ibdata => ibdata) /\ ~ far

\* The parts printed so far are the first ones of the chain, and the loop is at
\* the next of them.
At(c, sums) ==
    /\ Len(parts) < Len(c)
    /\ \A i \in 1 .. Len(parts) : parts[i] = c[i]
    /\ page_no = c[Len(parts) + 1]
    /\ len_sum = sums[Len(parts)]

Follows ==
    \A c \in Chains : \A sums \in [0 .. Len(c) -> 0 .. extern_len] :
        Served /\ Intact(c, sums) =>
            /\ pc = "loop" => At(c, sums)
            /\ pc = "idle" => parts = c

\* The file of -i is refused only when it is not there or nothing may be opened.
FileServed == external_in_ibdata /\ ibdata /\ MaxOpen > 0 => fn # "-1"

CInv == IInv /\ FileServed /\ Follows
-----------------------------------------------------------------------------
\* What is known of a chain.
LEMMA ChainFacts ==
    ASSUME NEW c \in Chains
    PROVE  /\ Len(c) \in 1 .. Cardinality(Pages) /\ DOMAIN c = 1 .. Len(c)
           /\ c \in Seq(Pages) /\ c \in [1 .. Len(c) -> Pages] /\ c[1] = root
<1>1. Cardinality(Pages) \in Nat
  BY BlobAssumption, FS_CardinalityType
<1>2. PICK n \in 1 .. Cardinality(Pages) : c \in [1 .. n -> Pages]
  BY DEF Chains
<1>3. n \in Nat /\ c \in Seq(Pages)
  BY <1>1, <1>2
<1>4. Len(c) = n
  BY <1>2, <1>3
<1>5. c[1] = root
  BY DEF Chains
<1> QED BY <1>2, <1>3, <1>4, <1>5

\* With descriptors left the next page can be opened.
LEMMA ServedOpens ==
    ASSUME IInv, FileServed, Served, pc = "loop", store[page_no].kind = "part"
    PROVE  Opens
<1>1. TypeOK /\ Descriptors
  BY DEF IInv
<1>2. values \in Nat /\ MaxOpen \in Nat /\ values <= MaxOpen /\ MaxOpen > 0
  BY <1>1, BlobAssumption DEF TypeOK, Served
<1>3. CASE external_in_ibdata
  <2>1. fn \in {"0", "open"} /\ ibdata
    BY <1>1, <1>2, <1>3 DEF TypeOK, FileServed, Served
  <2>2. fn = "0" => descriptors = 0
    BY <1>1, <1>3 DEF Descriptors
  <2> QED BY <1>2, <1>3, <2>1, <2>2 DEF Opens, MayOpen
<1>4. CASE ~ external_in_ibdata
  <2>1. descriptors < values /\ descriptors \in Nat
    BY <1>1, <1>4 DEF Descriptors, TypeOK
  <2>2. store[page_no] # Absent
    BY DEF Absent
  <2> QED BY <1>2, <1>4, <2>1, <2>2 DEF Opens, MayOpen
<1> QED BY <1>3, <1>4

\* At a page of an intact chain the loop prints: no check fails there.
LEMMA ServedPrints ==
    ASSUME IInv, FileServed, Served, pc = "loop", NEW c \in Chains,
           NEW sums \in [0 .. Len(c) -> 0 .. extern_len], Intact(c, sums), At(c, sums)
    PROVE  Opens /\ Believable(store[page_no])
<1>1. Len(parts) \in Nat
  BY DEF IInv, TypeOK
<1>2. Len(parts) + 1 \in DOMAIN c
  BY <1>1, ChainFacts DEF At
<1>3. store[page_no].kind = "part" /\ store[page_no].len \in 1 .. UNIV_PAGE_SIZE
  BY <1>2 DEF At, Intact
<1>4. store[page_no].len <= UNIV_PAGE_SIZE
  BY <1>3, BlobAssumption
<1> QED BY <1>3, <1>4, ServedOpens DEF Believable, Served

LEMMA InitCInv == Init => CInv
<1> SUFFICES ASSUME Init PROVE CInv
  OBVIOUS
<1>1. FileServed
  BY DEF Init, FileServed
<1>2. Follows
  BY BlobAssumption DEF Init, Follows, Served
<1> QED BY <1>1, <1>2, InitIInv DEF CInv

LEMMA StartKeepsFollows ==
    ASSUME CInv, NEW page \in Pages, NEW beyond \in BOOLEAN, NEW len \in Lengths,
           StartValue(page, beyond, len)
    PROVE  Follows'
<1> SUFFICES ASSUME NEW c \in Chains', NEW sums \in [0 .. Len(c) -> 0 .. extern_len'],
                    Intact(c, sums)'
             PROVE  pc' = "loop" /\ At(c, sums)'
  BY DEF Follows
<1>1. pc' = "loop" /\ page_no' = page /\ root' = page /\ len_sum' = 0 /\ parts' = << >>
  BY DEF StartValue
<1>2. Cardinality(Pages) \in Nat
  BY BlobAssumption, FS_CardinalityType
<1>3. PICK n \in 1 .. Cardinality(Pages) : c \in [1 .. n -> Pages]
  BY DEF Chains
<1>4. n \in Nat /\ c \in Seq(Pages) /\ Len(c) = n /\ n >= 1
  BY <1>2, <1>3
<1>5. c[1] = page
  BY <1>1 DEF Chains
<1>6. sums[0] = 0
  BY DEF Intact, AddUpTo
<1>7. Len(parts') = 0
  BY <1>1
<1> QED BY <1>1, <1>4, <1>5, <1>6, <1>7 DEF At

\* A step that neither prints nor starts a value ends one that is not served.
LEMMA EndKeepsFollows ==
    ASSUME CInv, CannotOpen \/ LeaveAtBadPage
    PROVE  Follows'
<1>1. pc = "loop" /\ ~ (Opens /\ Believable(store[page_no]))
  BY DEF CannotOpen, LeaveAtBadPage
<1>2. /\ store' = store /\ ibdata' = ibdata /\ external_in_ibdata' = external_in_ibdata
      /\ far' = far /\ extern_len' = extern_len /\ root' = root /\ values' = values
  BY DEF CannotOpen, LeaveAtBadPage, disk
<1> SUFFICES ASSUME NEW c \in Chains', NEW sums \in [0 .. Len(c) -> 0 .. extern_len'],
                    Served', Intact(c, sums)'
             PROVE  FALSE
  BY DEF Follows
<1>3. c \in Chains /\ sums \in [0 .. Len(c) -> 0 .. extern_len] /\ Served /\ Intact(c, sums)
  BY <1>2 DEF Chains, Served, Intact, AddUpTo
<1>4. At(c, sums)
  BY <1>1, <1>3 DEF CInv, Follows
<1> QED BY <1>1, <1>3, <1>4, ServedPrints DEF CInv

LEMMA PrintKeepsFollows ==
    ASSUME CInv, PrintPart
    PROVE  Follows'
<1> DEFINE page == store[page_no]
           k == Len(parts)
<1>1. pc = "loop" /\ Believable(page)
  BY DEF PrintPart
<1>2. /\ store' = store /\ ibdata' = ibdata /\ external_in_ibdata' = external_in_ibdata
      /\ extern_len' = extern_len /\ root' = root /\ values' = values
      /\ far = FALSE /\ far' = FALSE
      /\ len_sum' = len_sum + page.len /\ parts' = Printed(page.len) /\ page_no' = page.next
      /\ pc' = (IF LastPart(page.next, len_sum + page.len) THEN "idle" ELSE "loop")
  BY <1>1 DEF PrintPart, Sum, disk, IInv, CInv, TypeOK, Believable
<1>3. TypeOK
  BY DEF CInv, IInv
<1> SUFFICES ASSUME NEW c \in Chains', NEW sums \in [0 .. Len(c) -> 0 .. extern_len'],
                    Served', Intact(c, sums)'
             PROVE  (pc' = "loop" => At(c, sums)') /\ (pc' = "idle" => parts' = c)
  BY DEF Follows
<1>4. c \in Chains /\ sums \in [0 .. Len(c) -> 0 .. extern_len] /\ Served /\ Intact(c, sums)
  BY <1>2 DEF Chains, Served, Intact, AddUpTo
<1>5. At(c, sums)
  BY <1>1, <1>4 DEF CInv, Follows
<1>6. /\ Len(c) \in 1 .. Cardinality(Pages) /\ DOMAIN c = 1 .. Len(c) /\ c \in Seq(Pages)
      /\ Cardinality(Pages) \in Nat
  BY <1>4, ChainFacts, BlobAssumption, FS_CardinalityType
<1>7. parts \in Seq(Pages) /\ k \in Nat /\ k < Len(c) /\ k + 1 \in 1 .. Len(c)
  BY <1>3, <1>5, <1>6 DEF TypeOK, At
<1>8. page_no = c[k + 1] /\ page_no \in Pages
  BY <1>1, <1>3, <1>5 DEF At, TypeOK
<1>9. /\ page.len \in 1 .. UNIV_PAGE_SIZE
      /\ page.next = (IF k + 1 = Len(c) THEN FIL_NULL ELSE c[k + 2])
  <2>1. k + 1 \in DOMAIN c /\ (k + 1) + 1 = k + 2
    BY <1>6, <1>7
  <2> QED BY <1>4, <1>8, <2>1 DEF Intact
<1>10. parts' = Append(parts, page_no)
  <2>1. page.len # 0
    BY <1>9, BlobAssumption
  <2>2. ~ (k > Cardinality(Pages))
    BY <1>6, <1>7
  <2> QED BY <1>2, <2>1, <2>2 DEF Printed
<1>11. /\ parts' \in Seq(Pages) /\ Len(parts') = k + 1
       /\ \A i \in 1 .. k + 1 : parts'[i] = c[i]
  BY <1>5, <1>7, <1>8, <1>10 DEF At
<1>12. sums[k + 1] = sums[k] + page.len /\ len_sum = sums[k]
  BY <1>4, <1>5, <1>7, <1>8 DEF Intact, AddUpTo, At
<1>13. len_sum' = sums[k + 1]
  BY <1>2, <1>12
<1>14. CASE k + 1 = Len(c)
  <2>1. pc' = "idle"
    BY <1>2, <1>9, <1>14 DEF LastPart
  <2>2. parts' = c
    BY <1>6, <1>11, <1>14
  <2> QED BY <2>1, <2>2
<1>15. CASE k + 1 # Len(c)
  <2>1. k + 2 \in 1 .. Len(c) /\ page.next = c[k + 2]
    <3>1. k + 2 \in 1 .. Len(c)
      <4>1. k \in Nat /\ Len(c) \in Nat /\ k < Len(c) /\ k + 1 # Len(c)
        <5>1. k + 1 # Len(c)
          BY <1>15
        <5>2. Len(c) \in Nat
          BY <1>6
        <5> QED BY <1>7, <5>1, <5>2
      <4> HIDE DEF k
      <4> QED BY <4>1
    <3> QED BY <1>9, <1>15, <3>1
  <2>2. c[k + 2] \in Pages /\ page.next \notin {FIL_NULL, 0}
    <3>1. c[k + 2] \notin {0, FIL_NULL}
      BY <1>4, <1>6, <2>1 DEF Chains
    <3> QED BY <1>6, <2>1, <3>1
  <2>3. /\ sums[k + 2] = sums[k + 1] + store[c[k + 2]].len
        /\ store[c[k + 2]].len \in 1 .. UNIV_PAGE_SIZE
    <3>1. (k + 2) - 1 = k + 1
      BY <1>7
    <3> QED BY <1>4, <1>6, <2>1, <3>1 DEF Intact, AddUpTo
  <2>4. sums[k + 1] \in 0 .. extern_len /\ sums[k + 2] \in 0 .. extern_len
    BY <1>4, <1>6, <1>7, <2>1
  <2>5. extern_len \in Nat
    BY <1>3, BlobAssumption DEF TypeOK
  <2>6. len_sum' < extern_len
    BY <1>13, <2>3, <2>4, <2>5, BlobAssumption
  <2>7. pc' = "loop"
    BY <1>2, <2>2, <2>5, <2>6, <2>4, <1>13 DEF LastPart
  <2>8. At(c, sums)'
    <3>1. Len(parts') < Len(c) /\ Len(parts') + 1 = k + 2
      <4> HIDE DEF k
      <4>1. k \in Nat /\ Len(c) \in Nat /\ k + 2 \in 1 .. Len(c) /\ Len(parts') = k + 1
        BY <1>6, <1>7, <1>11, <2>1
      <4> QED BY <4>1
    <3>2. \A i \in 1 .. Len(parts') : parts'[i] = c[i]
      BY <1>11
    <3>3. page_no' = c[Len(parts') + 1] /\ len_sum' = sums[Len(parts')]
      BY <1>2, <1>11, <1>13, <2>1, <3>1
    <3> QED BY <3>1, <3>2, <3>3 DEF At
  <2> QED BY <2>7, <2>8
<1> QED BY <1>14, <1>15

LEMMA StepFileServed == IInv /\ FileServed /\ [Next]_vars => FileServed'
<1> SUFFICES ASSUME IInv, FileServed, [Next]_vars PROVE FileServed'
  OBVIOUS
<1>1. TypeOK /\ Descriptors
  BY DEF IInv
<1>2. CASE Start
  BY <1>2 DEF Start, StartValue, FileServed, disk
<1>3. CASE CannotOpen
  <2>1. external_in_ibdata /\ ibdata /\ MaxOpen > 0 /\ fn # "-1" => Opens
    BY <1>1, BlobAssumption DEF TypeOK, Descriptors, Opens, MayOpen
  <2> QED BY <1>3, <2>1 DEF CannotOpen, FileServed, disk
<1>4. CASE LeaveAtBadPage
  BY <1>4 DEF LeaveAtBadPage, FileServed, disk
<1>5. CASE PrintPart
  BY <1>5 DEF PrintPart, FileServed, disk
<1>6. CASE UNCHANGED vars
  BY <1>6 DEF vars, disk, FileServed
<1> QED BY <1>2, <1>3, <1>4, <1>5, <1>6 DEF Next, Loop, Done

LEMMA StepCInv == CInv /\ [Next]_vars => CInv'
<1> SUFFICES ASSUME CInv, [Next]_vars PROVE CInv'
  OBVIOUS
<1>1. IInv' /\ FileServed'
  BY StepIInv, StepFileServed DEF CInv
<1>2. Follows'
  <2>1. ASSUME NEW page \in Pages, NEW beyond \in BOOLEAN, NEW len \in Lengths,
               StartValue(page, beyond, len)
        PROVE  Follows'
    BY <2>1, StartKeepsFollows
  <2>2. CASE CannotOpen \/ LeaveAtBadPage
    BY <2>2, EndKeepsFollows
  <2>3. CASE PrintPart
    BY <2>3, PrintKeepsFollows
  <2>4. CASE UNCHANGED vars
    <3>1. /\ store' = store /\ ibdata' = ibdata /\ external_in_ibdata' = external_in_ibdata
          /\ pc' = pc /\ far' = far /\ extern_len' = extern_len /\ root' = root
          /\ values' = values /\ page_no' = page_no /\ len_sum' = len_sum /\ parts' = parts
      BY <2>4 DEF vars, disk
    <3> SUFFICES ASSUME NEW c \in Chains', NEW sums \in [0 .. Len(c) -> 0 .. extern_len'],
                        Served', Intact(c, sums)'
                 PROVE  (pc' = "loop" => At(c, sums)') /\ (pc' = "idle" => parts' = c)
      BY DEF Follows
    <3>2. /\ c \in Chains /\ sums \in [0 .. Len(c) -> 0 .. extern_len]
          /\ Served /\ Intact(c, sums)
      BY <3>1 DEF Chains, Served, Intact, AddUpTo
    <3>3. (pc = "loop" => At(c, sums)) /\ (pc = "idle" => parts = c)
      BY <3>2 DEF CInv, Follows
    <3> QED BY <3>1, <3>3 DEF At
  <2> QED BY <2>1, <2>2, <2>3, <2>4 DEF Next, Start, Loop, Done
<1> QED BY <1>1, <1>2 DEF CInv

\* A value whose chain is intact is printed whole, every part once and in
\* order, whatever pages were met before, for any number of pages and any
\* limit on descriptors (print_data.c:436-488).
THEOREM BlobIntactPrintedWhole == Spec => []IntactPrintedWhole
<1>1. CInv => IntactPrintedWhole
  <2> SUFFICES ASSUME CInv, pc = "idle", values \in 1 .. MaxOpen,
                      external_in_ibdata => ibdata,
                      NEW c \in Chains, IsChain(c, extern_len), ~ far
               PROVE  parts = c
    BY DEF IntactPrintedWhole
  <2>1. PICK sums \in [0 .. Len(c) -> 0 .. extern_len] : AddUpTo(c, sums, extern_len)
    BY DEF IsChain
  <2>2. Served /\ Intact(c, sums)
    BY <2>1 DEF IsChain, Served, Intact
  <2> QED BY <2>2 DEF CInv, Follows
<1>2. Spec => []CInv
  BY InitCInv, StepCInv, PTL DEF Spec
<1> QED BY <1>1, <1>2, PTL
=============================================================================
