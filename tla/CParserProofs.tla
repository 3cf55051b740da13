--------------------------- MODULE CParserProofs ----------------------------
(***************************************************************************)
(* Proofs about CParser, for every page size, every place of the infimum   *)
(* and the supremum in the page, all pointers, records and options.  Why   *)
(* the walk stays inside the page although it tests no pointer: the        *)
(* pointers that check_page has followed form a set that is closed, up to  *)
(* the supremum, under following pointers, and the wider variable of the   *)
(* walk makes no difference to a pointer that check_page has accepted.     *)
(***************************************************************************)
EXTENDS CParser, FiniteSetTheorems, WellFoundedInduction, TLAPS

USE ParserAssumption

Followed == DOMAIN links

\* While check_page runs: what it followed leads to what it followed or to p.
CheckInv ==
    pc = "check" =>
        /\ header \in Headers
        /\ Followed \subseteq 2 .. UNIV_PAGE_SIZE
        /\ supremum(comp) \notin Followed
        /\ \A q \in Followed : NextPointer(q, links[q]) \in Followed \cup {p}
        /\ infimum(comp) \in Followed \cup {p}
        /\ hops = 0 => p = infimum(comp)

\* In the walk through a valid page: the same, with the supremum for p.
ValidInv ==
    pc = "walk" /\ is_page_valid =>
        /\ Followed \subseteq 2 .. UNIV_PAGE_SIZE
        /\ \A q \in Followed :
              NextPointer(q, links[q]) \in Followed \cup {supremum(comp)}
        /\ offset \in Followed \cup {supremum(comp)}

\* In the walk through a bad page: every dumped record is one and has a size.
BadInv ==
    pc = "walk" /\ ~ is_page_valid =>
        /\ links = << >>
        /\ offset >= data_start + record_extra_bytes(comp)
        /\ \A q \in found : recs[q].is /\ recs[q].size \in Nat \ {0} /\ q < offset
        /\ found \subseteq Int

WalkInv == pc = "walk" => header \in Headers

\* Between two pages nothing of a page is kept.
IdleInv ==
    /\ pc \in {"file", "exit"} => links = << >>
    /\ pc # "walk" => found = {} /\ recs = << >>

IInv == /\ TypeOK /\ CheckInv /\ ValidInv /\ BadInv /\ WalkInv /\ IdleInv
        /\ PointersInPage /\ DumpedDisjoint /\ EveryOriginTried

-----------------------------------------------------------------------------
\* Reading a pointer adds it to those read and changes none of them.
LEMMA ReadsLinkFacts ==
    ASSUME NEW q, NEW v, ReadsLink(q, v)
    PROVE  /\ DOMAIN links' = DOMAIN links \cup {q}
           /\ links'[q] = v
           /\ \A r \in DOMAIN links : links'[r] = links[r]
BY DEF ReadsLink

\* The same of a record.
LEMMA ReadsRecordFacts ==
    ASSUME NEW q, NEW rec, ReadsRecord(q, rec)
    PROVE  /\ DOMAIN recs' = DOMAIN recs \cup {q}
           /\ recs'[q] = rec
           /\ \A r \in DOMAIN recs : recs'[r] = recs[r]
BY DEF ReadsRecord

\* Where check_page and the walk come to after a pointer is the same place, if
\* check_page comes to one inside the page.
LEMMA SameNext ==
    ASSUME NEW q \in 2 .. UNIV_PAGE_SIZE, NEW v \in Links,
           NextPointer(q, v) \in 2 .. UNIV_PAGE_SIZE
    PROVE  NextOffset(q, v) = NextPointer(q, v)
<1>1. v \in 0 .. TwoBytes - 1
  OBVIOUS
<1>2. CASE comp
  <2> DEFINE b == Int16(v)
  <2>1. b \in Int /\ -(2 * UNIV_PAGE_SIZE) <= b /\ b < 2 * UNIV_PAGE_SIZE
    BY <1>1 DEF Int16, TwoBytes
  <2>2. NextPointer(q, v) = Int16(q + b) /\ NextOffset(q, v) = q + b
    BY <1>2, <2>1 DEF NextPointer, NextOffset
  <2>3. Int16(q + b) >= 2
    BY <2>2
  <2> HIDE DEF b
  <2> QED BY <2>1, <2>2, <2>3 DEF Int16, TwoBytes
<1>3. CASE ~ comp
  BY <1>3 DEF NextPointer, NextOffset
<1> QED BY <1>2, <1>3

\* A 16-bit number is an integer.
LEMMA NextInt ==
    ASSUME NEW q \in Int, NEW v \in Links
    PROVE  NextPointer(q, v) \in Int /\ NextOffset(q, v) \in Int
BY DEF NextPointer, NextOffset, Int16, TwoBytes

\* A record of the table has a size.
LEMMA RecordSize ==
    ASSUME NEW rec \in RecordType, rec.is
    PROVE  rec.size \in Nat \ {0}
BY DEF RecordType

\* The header of a page is one of those considered.
LEMMA HeaderFacts ==
    ASSUME header \in Headers
    PROVE  /\ comp \in BOOLEAN /\ header.n_recs \in Nat
           /\ infimum(comp) \in 2 .. UNIV_PAGE_SIZE
           /\ supremum(comp) \in 2 .. UNIV_PAGE_SIZE
           /\ infimum(comp) # supremum(comp)
           /\ record_extra_bytes(comp) \in Nat
<1>1. header \in HeaderType
  OBVIOUS
<1>2. comp \in BOOLEAN /\ header.n_recs \in Nat
  BY <1>1 DEF comp, HeaderType
<1> QED BY <1>2

LEMMA MaxRecs == max_recs \in Nat
BY DEF max_recs

\* What TypeOK says of the two maps of the page holds of empty ones.
EmptyMap(f) == \A S : \A q \in DOMAIN f : f[q] \in S

LEMMA EmptyMaps == EmptyMap(<< >>)
BY DOMAIN << >> = {} DEF EmptyMap

-----------------------------------------------------------------------------
\* The invariant holds initially.
THEOREM InitIInv == Init => IInv
<1> SUFFICES ASSUME Init PROVE IInv
  OBVIOUS
<1>1. opts \in OptionType
  BY DEF Init, Parsed, OptionType
<1>2. TypeOK
  <2>1. /\ \A q \in DOMAIN recs : recs[q] \in RecordType
        /\ \A q \in DOMAIN links : links[q] \in Links
    BY EmptyMaps DEF Init, EmptyMap
  <2>2. hops \in 0 .. max_recs + 1 /\ expected_records \in 0 .. max_recs
    BY MaxRecs DEF Init
  <2>3. pages \in 0 .. MaxPages /\ p \in Int /\ p_prev \in Int
    BY DEF Init
  <2>4. offset \in Nat /\ actual_records \in Nat /\ found \subseteq DOMAIN recs
    BY DEF Init
  <2>5. records_expected_total \in Nat /\ records_dumped_total \in Nat
    BY DEF Init
  <2> QED BY <1>1, <2>1, <2>2, <2>3, <2>4, <2>5 DEF Init, TypeOK
<1> QED BY <1>2 DEF Init, IInv, CheckInv, ValidInv, BadInv, WalkInv, IdleInv,
        PointersInPage, DumpedDisjoint, EveryOriginTried

\* The page is skipped or the input ends.
LEMMA IdleStep ==
    ASSUME IInv, SkipPage \/ FileEnds \/ UNCHANGED vars
    PROVE  IInv'
<1>1. CASE SkipPage
  BY <1>1 DEF SkipPage, IInv, TypeOK, CheckInv, ValidInv, BadInv, WalkInv, IdleInv,
       PointersInPage, DumpedDisjoint, EveryOriginTried, page, check, walk, totals,
       Followed, comp, NextPointer
<1>2. CASE FileEnds
  BY <1>2 DEF FileEnds, IInv, TypeOK, CheckInv, ValidInv, BadInv, WalkInv, IdleInv,
       PointersInPage, DumpedDisjoint, EveryOriginTried, page, check, walk, totals,
       Followed, comp, NextPointer
<1>3. CASE UNCHANGED vars
  <2> USE <1>3 DEF vars, page, check, walk, totals, IInv
  <2>1. TypeOK'
    BY DEF TypeOK
  <2>2. CheckInv' /\ ValidInv' /\ WalkInv'
    BY DEF CheckInv, ValidInv, WalkInv, Followed, comp, NextPointer
  <2>3. BadInv' /\ IdleInv'
    BY DEF BadInv, IdleInv, comp
  <2>4. PointersInPage' /\ DumpedDisjoint' /\ EveryOriginTried'
    BY DEF PointersInPage, DumpedDisjoint, EveryOriginTried, InsidePage, Followed, comp
  <2> QED BY <2>1, <2>2, <2>3, <2>4
<1> QED BY <1>1, <1>2, <1>3

LEMMA StartPageStep ==
    ASSUME IInv, StartPage
    PROVE  IInv'
<1> USE DEF StartPage, IInv, page, check, walk, totals
<1>1. PICK h \in Headers : header' = h /\ p' = infimum(h.comp)
  OBVIOUS
<1>2. h.comp \in BOOLEAN
  BY DEF HeaderType
<1>3. comp' = h.comp
  BY <1>1 DEF comp
<1>4. TypeOK'
  BY <1>1, <1>2 DEF TypeOK
<1>5. CheckInv'
  BY <1>1, <1>2, <1>3 DEF CheckInv, IdleInv, Followed
<1>6. /\ ValidInv' /\ BadInv' /\ WalkInv' /\ IdleInv' /\ PointersInPage'
      /\ DumpedDisjoint' /\ EveryOriginTried'
  BY DEF ValidInv, BadInv, WalkInv, IdleInv, PointersInPage, DumpedDisjoint, EveryOriginTried
<1> QED BY <1>4, <1>5, <1>6

LEMMA CheckFailsStep ==
    ASSUME IInv, CheckFails
    PROVE  IInv'
<1> USE DEF CheckFails, IInv
<1>1. header \in Headers /\ comp' = comp /\ found = {} /\ recs = << >>
  BY DEF CheckInv, IdleInv, comp
<1>2. data_start + record_extra_bytes(comp) \in Nat
  BY <1>1, HeaderFacts
<1>3. TypeOK'
  <2>1. \A q \in DOMAIN links' : links'[q] \in Links
    BY EmptyMaps DEF EmptyMap
  <2>2. hops' \in 0 .. max_recs + 1 /\ expected_records' \in 0 .. max_recs
    BY MaxRecs
  <2>3. \A q \in DOMAIN recs' : recs'[q] \in RecordType
    BY DEF TypeOK
  <2>4. offset' \in Nat /\ found' \subseteq DOMAIN recs' /\ is_page_valid' \in BOOLEAN
    BY <1>1, <1>2 DEF TypeOK
  <2>5. p' \in Int /\ p_prev' \in Int
    OBVIOUS
  <2> QED BY <1>1, <2>1, <2>2, <2>3, <2>4, <2>5 DEF TypeOK, totals
<1>4. BadInv' /\ DumpedDisjoint' /\ EveryOriginTried'
  BY <1>1, <1>2 DEF BadInv, DumpedDisjoint, EveryOriginTried
<1>5. CheckInv' /\ ValidInv' /\ WalkInv' /\ IdleInv' /\ PointersInPage'
  BY <1>1 DEF CheckInv, ValidInv, WalkInv, IdleInv, PointersInPage
<1> QED BY <1>3, <1>4, <1>5

LEMMA CheckFollowsStep ==
    ASSUME IInv, CheckFollows
    PROVE  IInv'
<1> USE DEF CheckFollows, IInv
<1>1. PICK v \in Links : ReadsLink(p, v) /\ p' = NextPointer(p, v)
  OBVIOUS
<1>2. header \in Headers /\ p \in 2 .. UNIV_PAGE_SIZE /\ hops \in 0 .. max_recs
  BY MaxRecs DEF CheckInv, BadPointer, TypeOK
<1>3. comp' = comp
  BY DEF comp
<1>4. /\ Followed' = Followed \cup {p} /\ links'[p] = v
      /\ \A r \in Followed : links'[r] = links[r]
  BY <1>1, ReadsLinkFacts DEF Followed
<1>5. TypeOK'
  <2>1. p' \in Int /\ hops' \in 0 .. max_recs + 1
    BY <1>1, <1>2, NextInt, MaxRecs
  <2> QED BY <1>1, <1>2, <1>4, <2>1 DEF TypeOK, Followed, walk, totals
<1>6. CheckInv'
  <2>1. \A q \in Followed' : NextPointer(q, links'[q]) \in Followed' \cup {p'}
    BY <1>1, <1>4 DEF CheckInv
  <2>2. (\A q \in Followed : NextPointer(q, links[q]) \in Followed \cup {p})'
    BY <1>3, <2>1 DEF NextPointer
  <2> QED BY <1>2, <1>3, <1>4, <2>2 DEF CheckInv
<1>7. /\ ValidInv' /\ BadInv' /\ WalkInv' /\ IdleInv' /\ DumpedDisjoint' /\ EveryOriginTried'
  BY DEF CheckInv, ValidInv, BadInv, WalkInv, IdleInv, DumpedDisjoint, EveryOriginTried, walk
<1>8. PointersInPage'
  BY <1>2, <1>4 DEF PointersInPage, Followed
<1> QED BY <1>5, <1>6, <1>7, <1>8

LEMMA CheckPassesStep ==
    ASSUME IInv, CheckPasses
    PROVE  IInv'
<1> USE DEF CheckPasses, IInv
<1> DEFINE i == infimum(comp)
<1>1. PICK v \in Links : ReadsLink(i, v) /\ offset' = NextOffset(i, v)
  OBVIOUS
<1>2. header \in Headers /\ comp' = comp
  BY DEF CheckInv, comp
<1>3. hops \in 1 .. max_recs + 1
  BY <1>2, HeaderFacts, MaxRecs DEF CheckInv, TypeOK
<1>4. i \in Followed /\ i \in 2 .. UNIV_PAGE_SIZE
  BY <1>2, HeaderFacts DEF CheckInv
<1>5. Followed' = Followed /\ (\A r \in Followed : links'[r] = links[r]) /\ v = links[i]
  BY <1>1, <1>4, ReadsLinkFacts DEF Followed
<1>6. NextPointer(i, v) \in Followed \cup {supremum(comp)}
  BY <1>4, <1>5 DEF CheckInv
<1>7. offset' = NextPointer(i, v) /\ offset' \in 2 .. UNIV_PAGE_SIZE
  <2>1. NextPointer(i, v) \in 2 .. UNIV_PAGE_SIZE
    BY <1>2, <1>6, HeaderFacts DEF CheckInv
  <2> HIDE DEF i
  <2> QED BY <1>1, <1>4, <2>1, SameNext
<1>8. TypeOK'
  <2>1. expected_records' \in 0 .. max_recs
    BY <1>3, MaxRecs DEF Counted
  <2> QED BY <1>5, <1>7, <2>1, MaxRecs DEF TypeOK, Followed, totals
<1>9. ValidInv'
  <2>1. (\A q \in Followed : NextPointer(q, links[q]) \in Followed \cup {supremum(comp)})'
    BY <1>2, <1>5 DEF CheckInv, NextPointer
  <2> QED BY <1>2, <1>5, <1>6, <1>7, <2>1 DEF ValidInv, CheckInv
<1>10. /\ CheckInv' /\ BadInv' /\ WalkInv' /\ IdleInv' /\ DumpedDisjoint' /\ EveryOriginTried'
  BY <1>2 DEF CheckInv, BadInv, WalkInv, IdleInv, DumpedDisjoint, EveryOriginTried
<1>11. PointersInPage'
  BY <1>5 DEF PointersInPage, Followed
<1> QED BY <1>8, <1>9, <1>10, <1>11

\* A turn of the walk through a valid page.
LEMMA ValidWalkStep ==
    ASSUME IInv, WalkStep, is_page_valid
    PROVE  IInv'
<1> USE DEF IInv
<1>1. PICK rec \in RecordType :
        /\ ReadsRecord(offset, rec)
        /\ IF check_for_a_record(offset, rec)
           THEN actual_records' = actual_records + 1 /\ found' = found \cup {offset}
           ELSE UNCHANGED <<actual_records, found>>
        /\ \E v \in Links : ReadsLink(offset, v) /\ offset' = NextOffset(offset, v)
  BY DEF WalkStep
<1>2. PICK v \in Links : ReadsLink(offset, v) /\ offset' = NextOffset(offset, v)
  BY <1>1
<1>3. /\ pc = "walk" /\ pc' = "walk" /\ header' = header /\ comp' = comp
      /\ is_page_valid' = is_page_valid /\ expected_records' = expected_records
      /\ UNCHANGED <<opts, pages, p, p_prev, hops, totals>>
      /\ offset # supremum(comp)
  BY DEF WalkStep, InsidePage, comp, check
<1>4. offset \in Followed /\ offset \in 2 .. UNIV_PAGE_SIZE
  BY <1>3 DEF ValidInv
<1>5. Followed' = Followed /\ (\A r \in Followed : links'[r] = links[r]) /\ v = links[offset]
  BY <1>2, <1>4, ReadsLinkFacts DEF Followed
<1>6. NextPointer(offset, v) \in Followed \cup {supremum(comp)}
  BY <1>3, <1>4, <1>5 DEF ValidInv
<1>7. offset' = NextPointer(offset, v) /\ offset' \in 2 .. UNIV_PAGE_SIZE
  <2>1. NextPointer(offset, v) \in 2 .. UNIV_PAGE_SIZE
    BY <1>3, <1>6, HeaderFacts DEF ValidInv, WalkInv
  <2> QED BY <1>2, <1>4, <2>1, SameNext
<1>8. TypeOK'
  <2>1. /\ DOMAIN recs' = DOMAIN recs \cup {offset}
        /\ \A q \in DOMAIN recs' : recs'[q] \in RecordType
    BY <1>1, ReadsRecordFacts DEF TypeOK
  <2>2. found' \subseteq DOMAIN recs' /\ actual_records' \in Nat
    BY <1>1, <2>1 DEF TypeOK
  <2>3. offset' \in Nat
    BY <1>7
  <2>4. \A q \in DOMAIN links' : links'[q] \in Links
    BY <1>5 DEF TypeOK, Followed
  <2> QED BY <1>3, <2>1, <2>2, <2>3, <2>4 DEF TypeOK, totals
<1>9. ValidInv'
  <2>1. (\A q \in Followed : NextPointer(q, links[q]) \in Followed \cup {supremum(comp)})'
    BY <1>3, <1>5 DEF ValidInv, NextPointer
  <2> QED BY <1>3, <1>5, <1>6, <1>7, <2>1 DEF ValidInv
<1>10. /\ CheckInv' /\ BadInv' /\ WalkInv' /\ IdleInv' /\ DumpedDisjoint' /\ EveryOriginTried'
  BY <1>3 DEF CheckInv, BadInv, WalkInv, IdleInv, DumpedDisjoint, EveryOriginTried
<1>11. PointersInPage'
  BY <1>5 DEF PointersInPage, Followed
<1> QED BY <1>8, <1>9, <1>10, <1>11

\* A turn of the walk through a bad page.
LEMMA BadWalkStep ==
    ASSUME IInv, WalkStep, ~ is_page_valid
    PROVE  IInv'
<1> USE DEF IInv
<1>1. PICK rec \in RecordType :
        /\ ReadsRecord(offset, rec)
        /\ IF check_for_a_record(offset, rec)
           THEN actual_records' = actual_records + 1 /\ found' = found \cup {offset}
           ELSE UNCHANGED <<actual_records, found>>
        /\ offset' = Advance(offset, rec)
        /\ UNCHANGED links
  BY DEF WalkStep
<1>2. /\ pc = "walk" /\ pc' = "walk" /\ header' = header /\ comp' = comp
      /\ is_page_valid' = is_page_valid /\ expected_records' = expected_records
      /\ UNCHANGED <<opts, pages, p, p_prev, hops, totals>>
  BY DEF WalkStep, comp, check
<1>3. /\ DOMAIN recs' = DOMAIN recs \cup {offset} /\ recs'[offset] = rec
      /\ \A q \in DOMAIN recs : recs'[q] = recs[q]
  BY <1>1, ReadsRecordFacts
<1>4. /\ offset \in Nat /\ header \in Headers /\ found \subseteq DOMAIN recs
      /\ record_extra_bytes(comp) \in Nat
  BY <1>2, HeaderFacts DEF TypeOK, WalkInv
<1>5. \/ /\ check_for_a_record(offset, rec) /\ rec.is /\ rec.size \in Nat \ {0}
         /\ found' = found \cup {offset} /\ offset' = offset + rec.size
      \/ found' = found /\ offset' = offset + 1
  <2>1. check_for_a_record(offset, rec) => rec.is
    BY DEF check_for_a_record
  <2> QED BY <1>1, <2>1, RecordSize DEF Advance
<1>6. TypeOK'
  <2>1. found' \subseteq DOMAIN recs' /\ actual_records' \in Nat
    BY <1>1, <1>3 DEF TypeOK
  <2>2. \A q \in DOMAIN recs' : recs'[q] \in RecordType
    BY <1>1, <1>3 DEF TypeOK
  <2>3. offset' \in Nat
    BY <1>4, <1>5
  <2> QED BY <1>1, <1>2, <2>1, <2>2, <2>3 DEF TypeOK, totals
<1>7. /\ offset' > offset
      /\ \A q \in found : recs'[q] = recs[q]
      /\ offset \notin found
  BY <1>2, <1>3, <1>4, <1>5 DEF BadInv
<1>8. BadInv'
  <2>1. \A q \in found' : recs'[q].is /\ recs'[q].size \in Nat \ {0} /\ q < offset'
    BY <1>2, <1>3, <1>4, <1>5, <1>7 DEF BadInv
  <2> QED BY <1>1, <1>2, <1>4, <1>5, <1>7, <2>1 DEF BadInv
<1>9. DumpedDisjoint'
  <2> SUFFICES ASSUME NEW q \in found'
               PROVE  /\ q + recs'[q].size <= offset'
                      /\ \A r \in found' : q < r => q + recs'[q].size <= r
    BY DEF DumpedDisjoint
  <2>1. CASE q = offset
    BY <1>2, <1>3, <1>4, <1>5, <1>7, <2>1 DEF BadInv
  <2>2. CASE q \in found
    BY <1>2, <1>3, <1>4, <1>5, <1>7, <2>2 DEF BadInv, DumpedDisjoint
  <2> QED BY <1>5, <2>1, <2>2
<1>10. EveryOriginTried'
  <2> SUFFICES ASSUME NEW q \in data_start + record_extra_bytes(comp) .. offset' - 1
               PROVE  \/ q \in DOMAIN recs'
                      \/ \E r \in found' : r < q /\ q < r + recs'[r].size
    BY <1>2 DEF EveryOriginTried
  <2>1. q \in Int
    BY <1>4, <1>5
  <2>2. CASE q < offset
    <3>1. q \in data_start + record_extra_bytes(comp) .. offset - 1
      BY <1>4, <2>1, <2>2
    <3> QED BY <1>2, <1>3, <1>5, <1>7, <3>1 DEF EveryOriginTried
  <2>3. CASE q = offset
    BY <1>3, <2>3
  <2>4. CASE q > offset
    BY <1>3, <1>4, <1>5, <2>1, <2>4
  <2> QED BY <1>4, <2>1, <2>2, <2>3, <2>4
<1>11. CheckInv' /\ ValidInv' /\ WalkInv' /\ IdleInv'
  BY <1>2 DEF CheckInv, ValidInv, WalkInv, IdleInv
<1>12. PointersInPage'
  BY <1>1 DEF PointersInPage
<1> QED BY <1>6, <1>8, <1>9, <1>10, <1>11, <1>12

LEMMA PageEndsStep ==
    ASSUME IInv, PageEnds
    PROVE  IInv'
<1> USE DEF PageEnds, IInv
<1>1. header \in Headers /\ header.n_recs \in Nat
  BY HeaderFacts DEF WalkInv
<1>2. TypeOK'
  <2>1. records_expected_total' \in Nat /\ records_dumped_total' \in Nat
    <3>1. /\ records_expected_total \in Nat /\ records_dumped_total \in Nat
          /\ actual_records \in Nat
      BY DEF TypeOK
    <3>2. CASE header.leaf
      BY <1>1, <3>1, <3>2
    <3>3. CASE ~ header.leaf
      BY <3>1, <3>3 DEF totals
    <3> QED BY <3>2, <3>3
  <2>2. records_lost' \in BOOLEAN /\ sound' \in BOOLEAN
    BY DEF TypeOK, totals, LostSoFar
  <2>3. /\ \A q \in DOMAIN recs' : recs'[q] \in RecordType
        /\ \A q \in DOMAIN links' : links'[q] \in Links
    BY EmptyMaps DEF EmptyMap
  <2>4. hops' \in 0 .. max_recs + 1 /\ expected_records' \in 0 .. max_recs
    BY MaxRecs DEF TypeOK, check
  <2> QED BY <2>1, <2>2, <2>3, <2>4 DEF TypeOK, check
<1>3. /\ CheckInv' /\ ValidInv' /\ BadInv' /\ WalkInv' /\ IdleInv'
      /\ PointersInPage' /\ DumpedDisjoint' /\ EveryOriginTried'
  BY DEF CheckInv, ValidInv, BadInv, WalkInv, IdleInv, PointersInPage,
       DumpedDisjoint, EveryOriginTried
<1> QED BY <1>2, <1>3

\* Every step preserves the invariant.
THEOREM StepIInv == IInv /\ [Next]_vars => IInv'
<1> SUFFICES ASSUME IInv, [Next]_vars PROVE IInv'
  OBVIOUS
<1>1. CASE SkipPage \/ FileEnds \/ Exited \/ UNCHANGED vars
  BY <1>1, IdleStep DEF Exited
<1>2. CASE StartPage
  BY <1>2, StartPageStep
<1>3. CASE CheckFails
  BY <1>3, CheckFailsStep
<1>4. CASE CheckFollows
  BY <1>4, CheckFollowsStep
<1>5. CASE CheckPasses
  BY <1>5, CheckPassesStep
<1>6. CASE WalkStep
  BY <1>6, ValidWalkStep, BadWalkStep
<1>7. CASE PageEnds
  BY <1>7, PageEndsStep
<1> QED BY <1>1, <1>2, <1>3, <1>4, <1>5, <1>6, <1>7 DEF Next

\* The inductive invariant holds in every reachable state.
THEOREM ParserIInv == Spec => []IInv
BY InitIInv, StepIInv, PTL DEF Spec

\* Every variable of c_parser keeps its type: lists are bounded, and no offset
\* is negative.
THEOREM ParserTypeOK == Spec => []TypeOK
<1>1. IInv => TypeOK
  BY DEF IInv
<1> QED BY <1>1, ParserIInv, PTL

\* c_parser reads a next-record pointer only inside the page.
THEOREM ParserPointersInPage == Spec => []PointersInPage
<1>1. IInv => PointersInPage
  BY DEF IInv
<1> QED BY <1>1, ParserIInv, PTL

\* No byte of a bad page is dumped as part of two records.
THEOREM ParserDumpedDisjoint == Spec => []DumpedDisjoint
<1>1. IInv => DumpedDisjoint
  BY DEF IInv
<1> QED BY <1>1, ParserIInv, PTL

\* Every origin of a bad page is tried, except those inside dumped records.
THEOREM ParserTriesEveryOrigin == Spec => []EveryOriginTried
<1>1. IInv => EveryOriginTried
  BY DEF IInv
<1> QED BY <1>1, ParserIInv, PTL
-----------------------------------------------------------------------------
(***************************************************************************)
(* The walk and check_page count the same records.  Since a pointer is     *)
(* read with one value, the places that check_page has followed form a     *)
(* path; a path that arrives at the supremum has visited no place twice,   *)
(* for what follows a place that comes twice comes twice as well, up to    *)
(* the supremum, which is left never.                                      *)
(***************************************************************************)

\* path leads in n steps from the infimum to last.
IsPath(path, n, last) ==
    /\ path \in [0 .. n -> Int]
    /\ path[0] = infimum(comp) /\ path[n] = last
    /\ \A i \in 0 .. n - 1 :
          /\ path[i] \in Followed /\ path[i] # supremum(comp)
          /\ path[i + 1] = NextPointer(path[i], links[path[i]])

CheckPath == pc = "check" => \E path : IsPath(path, hops, p)

\* The walk is at the k-th place of the path; it has tried those before it.
WalkAt(path, k) ==
    /\ offset = path[k]
    /\ DOMAIN recs = {path[j] : j \in 1 .. k - 1}
    /\ IsFiniteSet(DOMAIN recs) /\ Cardinality(DOMAIN recs) = k - 1
    /\ actual_records <= k - 1

WalkPath ==
    pc = "walk" /\ is_page_valid =>
        \E path : /\ IsPath(path, expected_records + 1, supremum(comp))
                  /\ \E k \in 1 .. expected_records + 1 : WalkAt(path, k)

\* Between the walks nothing is counted yet, and the totals agree.
StatusInv ==
    /\ pc # "check" => hops = 0
    /\ pc # "walk" => actual_records = 0
    /\ sound => /\ records_dumped_total <= records_expected_total
                /\ records_lost <=> records_dumped_total < records_expected_total

PInv == IInv /\ CheckPath /\ WalkPath /\ StatusInv
-----------------------------------------------------------------------------
\* A set of natural numbers has a smallest one.
LEMMA LeastOfNats ==
    ASSUME NEW T, T \subseteq Nat, T # {}
    PROVE  \E m \in T : \A n \in T : m <= n
<1>1. \A m, n \in Nat : m < n => <<m, n>> \in OpToRel(<, Nat)
  BY DEF OpToRel
<1>2. PICK R : IsWellFoundedOn(R, Nat) /\ \A m, n \in Nat : m < n => <<m, n>> \in R
  BY <1>1, NatLessThanWellFounded
<1>3. IsWellFoundedOn(R, Nat)
  BY <1>2
<1>4. PICK m \in T : \A n \in T : ~ (<<n, m>> \in R)
  BY <1>3, WFMin
<1>5. \A n \in T : n \in Nat /\ m \in Nat /\ ~ (n < m)
  BY <1>2, <1>4
<1>6. \A n \in T : m <= n
  BY <1>5
<1> QED BY <1>6

\* A path to the supremum visits no place twice.
LEMMA PathInjective ==
    ASSUME NEW n \in Nat, NEW path, IsPath(path, n, supremum(comp)),
           NEW i \in 0 .. n, NEW j \in 0 .. n, i < j
    PROVE  path[i] # path[j]
<1> SUFFICES ASSUME path[i] = path[j] PROVE FALSE
  OBVIOUS
<1> DEFINE T == {m \in 0 .. n : \E h \in 0 .. n : h < n - m /\ path[h] = path[n - m]}
<1>1. n - j \in T
  <2>1. n - j \in 0 .. n /\ n - (n - j) = j
    OBVIOUS
  <2> QED BY <2>1
<1>2. PICK m \in T : \A l \in T : m <= l
  <2>1. T \subseteq Nat /\ T # {}
    <3>1. 0 .. n \subseteq Nat
      OBVIOUS
    <3> QED BY <1>1, <3>1
  <2> HIDE DEF T
  <2> QED BY <2>1, LeastOfNats
<1>3. PICK h \in 0 .. n : h < n - m /\ path[h] = path[n - m]
  BY <1>2
<1>4. m \in 0 .. n /\ h \in 0 .. n - 1
  BY <1>2, <1>3
<1>5. m # 0
  <2>1. path[h] # supremum(comp)
    BY <1>4 DEF IsPath
  <2> QED BY <1>3, <2>1 DEF IsPath
<1>6. n - m \in 0 .. n - 1 /\ (n - m) + 1 = n - (m - 1) /\ m - 1 \in 0 .. n
  BY <1>4, <1>5
<1>7. path[h + 1] = path[n - (m - 1)]
  <2>1. path[h + 1] = NextPointer(path[h], links[path[h]])
    BY <1>4 DEF IsPath
  <2>2. path[(n - m) + 1] = NextPointer(path[n - m], links[path[n - m]])
    BY <1>6 DEF IsPath
  <2> QED BY <1>3, <1>6, <2>1, <2>2
<1>8. h + 1 \in 0 .. n /\ h + 1 < n - (m - 1)
  BY <1>3, <1>4, <1>6
<1>9. m - 1 \in T
  BY <1>6, <1>7, <1>8
<1>10. m <= m - 1
  BY <1>2, <1>9
<1> QED BY <1>4, <1>10

LEMMA InitPInv == Init => PInv
<1> SUFFICES ASSUME Init PROVE PInv
  OBVIOUS
<1>1. CheckPath /\ WalkPath /\ StatusInv
  BY DEF Init, CheckPath, WalkPath, StatusInv
<1> QED BY <1>1, InitIInv DEF PInv

\* A path is one of the page: it stays when what was read of the page stays.
LEMMA PathStays ==
    ASSUME NEW path, NEW n \in Nat, NEW last, IsPath(path, n, last),
           header' = header, Followed \subseteq Followed',
           \A r \in Followed : links'[r] = links[r]
    PROVE  IsPath(path, n, last)'
<1>1. comp' = comp
  BY DEF comp
<1>2. \A i \in 0 .. n - 1 : NextPointer(path[i], links[path[i]])'
                                = NextPointer(path[i], links[path[i]])
  BY <1>1 DEF NextPointer, IsPath
<1> QED BY <1>1, <1>2 DEF IsPath

LEMMA StartPagePath ==
    ASSUME PInv, StartPage
    PROVE  CheckPath' /\ WalkPath' /\ StatusInv'
<1>1. PICK h \in Headers : header' = h /\ p' = infimum(h.comp)
  BY DEF StartPage
<1>2. /\ pc' = "check" /\ p' = infimum(comp') /\ hops' = hops
  BY <1>1 DEF StartPage, comp
<1>3. StatusInv'
  BY DEF StartPage, PInv, StatusInv, walk, totals
<1>4. hops = 0 /\ p' \in Int
  BY <1>1 DEF PInv, StatusInv, StartPage, HeaderType
<1> PICK path : path = [i \in 0 .. 0 |-> p']
  OBVIOUS
<1>5. IsPath(path, hops, p)'
  BY <1>2, <1>4 DEF IsPath
<1> QED BY <1>2, <1>3, <1>5 DEF CheckPath, WalkPath

LEMMA CheckFollowsPath ==
    ASSUME PInv, CheckFollows
    PROVE  CheckPath' /\ WalkPath' /\ StatusInv'
<1>1. PICK v \in Links : ReadsLink(p, v) /\ p' = NextPointer(p, v)
  BY DEF CheckFollows
<1>2. /\ pc = "check" /\ pc' = "check" /\ header' = header /\ comp' = comp
      /\ hops' = hops + 1 /\ p # supremum(comp)
  BY DEF CheckFollows, comp
<1>3. PICK path : IsPath(path, hops, p)
  BY <1>2 DEF PInv, CheckPath
<1>4. hops \in Nat /\ p \in Int /\ p' \in Int
  BY <1>1, NextInt DEF PInv, IInv, TypeOK
<1>5. /\ Followed' = Followed \cup {p} /\ links'[p] = v
      /\ \A r \in Followed : links'[r] = links[r]
  BY <1>1, ReadsLinkFacts DEF Followed
<1>6. PICK longer : longer = [i \in 0 .. hops + 1 |-> IF i = hops + 1 THEN p' ELSE path[i]]
  OBVIOUS
<1>7. longer \in [0 .. hops + 1 -> Int] /\ longer[0] = infimum(comp) /\ longer[hops + 1] = p'
  BY <1>3, <1>4, <1>6 DEF IsPath
<1>8. ASSUME NEW i \in 0 .. hops
      PROVE  /\ longer[i] \in Followed' /\ longer[i] # supremum(comp)
             /\ longer[i + 1] = NextPointer(longer[i], links'[longer[i]])
  <2>1. longer[i] = path[i]
    BY <1>4, <1>6
  <2>2. CASE i = hops
    BY <1>1, <1>2, <1>3, <1>4, <1>5, <1>6, <2>1, <2>2 DEF IsPath
  <2>3. CASE i # hops
    <3>1. i \in 0 .. hops - 1 /\ longer[i + 1] = path[i + 1]
      BY <1>4, <1>6, <2>3
    <3> QED BY <1>3, <1>5, <2>1, <3>1 DEF IsPath
  <2> QED BY <2>2, <2>3
<1>9. IsPath(longer, hops, p)'
  <2>1. \A i \in 0 .. hops' - 1 : i \in 0 .. hops
    BY <1>2, <1>4
  <2>2. \A i \in 0 .. hops' - 1 : NextPointer(longer[i], links[longer[i]])'
                                    = NextPointer(longer[i], links'[longer[i]])
    BY <1>2 DEF NextPointer
  <2> QED BY <1>2, <1>7, <1>8, <2>1, <2>2 DEF IsPath
<1>10. StatusInv'
  BY DEF CheckFollows, PInv, StatusInv, walk, totals
<1> QED BY <1>2, <1>9, <1>10 DEF CheckPath, WalkPath

\* check_page rejects the page, or c_parser is between pages.
LEMMA OtherPath ==
    ASSUME PInv, SkipPage \/ FileEnds \/ CheckFails
    PROVE  CheckPath' /\ WalkPath' /\ StatusInv'
<1>1. CASE SkipPage
  BY <1>1 DEF SkipPage, PInv, StatusInv, CheckPath, WalkPath, walk, check, totals
<1>2. CASE FileEnds
  BY <1>2 DEF FileEnds, PInv, StatusInv, CheckPath, WalkPath, walk, check, totals
<1>3. CASE CheckFails
  BY <1>3 DEF CheckFails, PInv, StatusInv, CheckPath, WalkPath, totals
<1> QED BY <1>1, <1>2, <1>3

LEMMA CheckPassesPath ==
    ASSUME PInv, CheckPasses
    PROVE  CheckPath' /\ WalkPath' /\ StatusInv'
<1>1. PICK v \in Links : ReadsLink(infimum(comp), v) /\ offset' = NextOffset(infimum(comp), v)
  BY DEF CheckPasses
<1>2. /\ pc = "check" /\ pc' = "walk" /\ header' = header /\ comp' = comp /\ recs' = recs
      /\ p = supremum(comp) /\ expected_records' = hops - 1 /\ is_page_valid' = TRUE
      /\ actual_records' = actual_records /\ header \in Headers
  BY DEF CheckPasses, comp, Counted, PInv, IInv, CheckInv
<1>3. PICK path : IsPath(path, hops, p)
  BY <1>2 DEF PInv, CheckPath
<1>4. infimum(comp) # supremum(comp) /\ infimum(comp) \in 2 .. UNIV_PAGE_SIZE
  BY <1>2, HeaderFacts
<1>5. hops \in Nat /\ hops >= 1
  BY <1>2, <1>3, <1>4 DEF IsPath, PInv, IInv, TypeOK
<1>6. /\ infimum(comp) = path[0] /\ infimum(comp) \in Followed
      /\ path[1] = NextPointer(path[0], links[path[0]])
  BY <1>3, <1>5 DEF IsPath
<1>7. /\ Followed' = Followed /\ (\A r \in Followed : links'[r] = links[r])
      /\ v = links[infimum(comp)]
  <2> DEFINE i == infimum(comp)
  <2>1. i \in DOMAIN links
    BY <1>6 DEF Followed
  <2>2. /\ DOMAIN links' = DOMAIN links \cup {i} /\ links'[i] = v
        /\ \A r \in DOMAIN links : links'[r] = links[r]
    BY <1>1, ReadsLinkFacts
  <2> QED BY <2>1, <2>2 DEF Followed
<1>8. IsPath(path, expected_records + 1, supremum(comp))'
  <2>1. PICK n, last : n = hops /\ last = supremum(comp)
    OBVIOUS
  <2>2. IsPath(path, n, last)'
    BY <1>2, <1>3, <1>5, <1>7, <2>1, PathStays
  <2>3. n = expected_records' + 1 /\ last = supremum(comp)'
    BY <1>2, <1>5, <2>1
  <2> QED BY <2>2, <2>3
<1>9. offset' = path[1]
  <2>1. path[1] \in Followed \cup {supremum(comp)}
    BY <1>2, <1>3, <1>5 DEF IsPath
  <2>2. path[1] \in 2 .. UNIV_PAGE_SIZE
    BY <1>2, <2>1, HeaderFacts DEF PInv, IInv, CheckInv
  <2> QED BY <1>1, <1>4, <1>6, <1>7, <2>2, SameNext
<1>10. WalkAt(path, 1)'
  <2>1. DOMAIN recs' = {}
    BY <1>2, EmptyMaps DEF PInv, IInv, IdleInv, EmptyMap
  <2>2. IsFiniteSet({}) /\ Cardinality({}) = 0
    BY FS_EmptySet
  <2>3. {path[j] : j \in 1 .. 1 - 1} = {}
    OBVIOUS
  <2>4. actual_records' = 0
    BY <1>2 DEF PInv, StatusInv
  <2> QED BY <1>9, <2>1, <2>2, <2>3, <2>4 DEF WalkAt
<1>11. StatusInv'
  BY <1>2 DEF CheckPasses, PInv, StatusInv, totals
<1>12. WalkPath'
  <2>1. 1 \in 1 .. expected_records' + 1
    BY <1>2, <1>5
  <2> QED BY <1>8, <1>10, <2>1 DEF WalkPath
<1> QED BY <1>2, <1>11, <1>12 DEF CheckPath

\* A turn of the walk through a valid page tries the next place of the path.
LEMMA ValidWalkPath ==
    ASSUME PInv, WalkStep, is_page_valid
    PROVE  WalkPath'
<1>1. PICK rec \in RecordType :
        /\ ReadsRecord(offset, rec)
        /\ actual_records' \in {actual_records, actual_records + 1}
        /\ \E v \in Links : ReadsLink(offset, v) /\ offset' = NextOffset(offset, v)
  BY DEF WalkStep
<1>2. PICK v \in Links : ReadsLink(offset, v) /\ offset' = NextOffset(offset, v)
  BY <1>1
<1>3. /\ pc = "walk" /\ header' = header /\ comp' = comp
      /\ is_page_valid' = is_page_valid /\ expected_records' = expected_records
      /\ offset # supremum(comp)
  BY DEF WalkStep, InsidePage, comp
<1>4. PICK n, last : n = expected_records + 1 /\ last = supremum(comp)
  OBVIOUS
<1>5. PICK path : IsPath(path, n, last) /\ \E k \in 1 .. n : WalkAt(path, k)
  BY <1>3, <1>4 DEF PInv, WalkPath
<1>6. PICK k \in 1 .. n : WalkAt(path, k)
  BY <1>5
<1>7. n \in Nat /\ actual_records \in Nat /\ header \in Headers
  BY <1>3, <1>4, MaxRecs DEF PInv, IInv, TypeOK, WalkInv
<1>8. k \in 1 .. n - 1
  BY <1>3, <1>4, <1>5, <1>6, <1>7 DEF IsPath, WalkAt
<1>9. /\ offset = path[k] /\ offset \in Followed
      /\ path[k + 1] = NextPointer(offset, links[offset])
  BY <1>5, <1>6, <1>7, <1>8 DEF IsPath, WalkAt
<1>10. /\ Followed' = Followed /\ (\A r \in Followed : links'[r] = links[r])
       /\ v = links[offset]
  <2>1. offset \in DOMAIN links
    BY <1>9 DEF Followed
  <2>2. /\ DOMAIN links' = DOMAIN links \cup {offset} /\ links'[offset] = v
        /\ \A r \in DOMAIN links : links'[r] = links[r]
    BY <1>2, ReadsLinkFacts
  <2> QED BY <2>1, <2>2 DEF Followed
<1>11. IsPath(path, n, last)'
  BY <1>3, <1>5, <1>7, <1>10, PathStays
<1>12. offset' = path[k + 1]
  <2>1. path[k + 1] \in Followed \cup {supremum(comp)}
    BY <1>4, <1>5, <1>7, <1>8 DEF IsPath
  <2>2. /\ path[k + 1] \in 2 .. UNIV_PAGE_SIZE /\ offset \in 2 .. UNIV_PAGE_SIZE
    BY <1>3, <1>7, <1>9, <2>1, HeaderFacts DEF PInv, IInv, ValidInv
  <2> QED BY <1>2, <1>9, <1>10, <2>2, SameNext
<1>13. DOMAIN recs' = DOMAIN recs \cup {offset}
  BY <1>1, ReadsRecordFacts
<1>14. offset \notin DOMAIN recs
  <2> SUFFICES ASSUME NEW j \in 1 .. k - 1, path[j] = offset PROVE FALSE
    BY <1>6 DEF WalkAt
  <2>1. j \in 0 .. n /\ k \in 0 .. n /\ j < k
    BY <1>7, <1>8
  <2> QED BY <1>4, <1>5, <1>7, <1>9, <2>1, PathInjective
<1>15. WalkAt(path, k + 1)'
  <2>1. DOMAIN recs' = {path[j] : j \in 1 .. (k + 1) - 1}
    <3>1. DOMAIN recs = {path[j] : j \in 1 .. k - 1}
      BY <1>6 DEF WalkAt
    <3>2. 1 .. (k + 1) - 1 = (1 .. k - 1) \cup {k}
      BY <1>8
    <3> QED BY <1>9, <1>13, <3>1, <3>2
  <2>2. IsFiniteSet(DOMAIN recs') /\ Cardinality(DOMAIN recs') = (k - 1) + 1
    <3>1. IsFiniteSet(DOMAIN recs) /\ Cardinality(DOMAIN recs) = k - 1
      BY <1>6 DEF WalkAt
    <3> QED BY <1>13, <1>14, <3>1, FS_AddElement
  <2>3. actual_records' <= (k + 1) - 1
    BY <1>1, <1>6, <1>7, <1>8 DEF WalkAt
  <2>4. (k - 1) + 1 = (k + 1) - 1
    BY <1>8
  <2> QED BY <1>12, <2>1, <2>2, <2>3, <2>4 DEF WalkAt
<1>16. n = expected_records' + 1 /\ last = supremum(comp)' /\ k + 1 \in 1 .. n
  BY <1>3, <1>4, <1>7, <1>8
<1> QED BY <1>11, <1>15, <1>16 DEF WalkPath

LEMMA WalkStepPath ==
    ASSUME PInv, WalkStep
    PROVE  CheckPath' /\ WalkPath' /\ StatusInv'
<1>1. /\ pc' = "walk" /\ is_page_valid' = is_page_valid
      /\ UNCHANGED <<check, totals>>
  BY DEF WalkStep
<1>2. StatusInv'
  BY <1>1 DEF PInv, StatusInv, WalkStep, check, totals
<1>3. CASE is_page_valid
  BY <1>1, <1>2, <1>3, ValidWalkPath DEF CheckPath
<1>4. CASE ~ is_page_valid
  BY <1>1, <1>2, <1>4 DEF CheckPath, WalkPath
<1> QED BY <1>3, <1>4

\* The end of a page: if its list is valid and has n_recs records, no more than
\* those were dumped.
LEMMA PageEndsPath ==
    ASSUME PInv, PageEnds
    PROVE  CheckPath' /\ WalkPath' /\ StatusInv'
<1>1. /\ pc = "walk" /\ pc' = "file" /\ actual_records' = 0 /\ hops' = hops
  BY DEF PageEnds, check
<1>2. hops = 0
  BY <1>1 DEF PInv, StatusInv
<1>3. /\ header.n_recs \in Nat /\ actual_records \in Nat /\ expected_records \in Nat
      /\ records_expected_total \in Nat /\ records_dumped_total \in Nat
      /\ sound \in BOOLEAN /\ records_lost \in BOOLEAN /\ is_page_valid \in BOOLEAN
  BY <1>1, HeaderFacts, MaxRecs DEF PInv, IInv, TypeOK, WalkInv
<1>4. is_page_valid => actual_records <= expected_records
  <2> SUFFICES ASSUME is_page_valid PROVE actual_records <= expected_records
    OBVIOUS
  <2>1. PICK path : \E k \in 1 .. expected_records + 1 : WalkAt(path, k)
    BY <1>1 DEF PInv, WalkPath
  <2>2. PICK k \in 1 .. expected_records + 1 : actual_records <= k - 1
    BY <2>1 DEF WalkAt
  <2> QED BY <1>3, <2>2
<1>5. sound' => /\ records_dumped_total' <= records_expected_total'
                /\ records_lost' <=> records_dumped_total' < records_expected_total'
  <2>1. sound => /\ records_dumped_total <= records_expected_total
                 /\ records_lost <=> records_dumped_total < records_expected_total
    BY DEF PInv, StatusInv
  <2>2. CASE header.leaf
    <3>1. /\ records_expected_total' = records_expected_total + header.n_recs
          /\ records_dumped_total' = records_dumped_total + actual_records
          /\ records_lost' = (records_lost \/ (/\ actual_records # expected_records
                                              /\ actual_records # header.n_recs))
          /\ sound' = (sound /\ is_page_valid /\ expected_records = header.n_recs)
      BY <2>2 DEF PageEnds, LostSoFar, lost_records
    <3> SUFFICES ASSUME sound'
                 PROVE  /\ records_dumped_total' <= records_expected_total'
                        /\ records_lost' <=> records_dumped_total' < records_expected_total'
      OBVIOUS
    <3>2. sound /\ is_page_valid /\ expected_records = header.n_recs
      BY <3>1
    <3>3. actual_records <= header.n_recs
      BY <1>4, <3>2
    <3>4. records_lost' <=> records_lost \/ actual_records < header.n_recs
      BY <1>3, <3>1, <3>2, <3>3
    <3>5. /\ records_dumped_total <= records_expected_total
          /\ records_lost <=> records_dumped_total < records_expected_total
      BY <2>1, <3>2
    <3> QED BY <1>3, <3>1, <3>3, <3>4, <3>5
  <2>3. CASE ~ header.leaf
    BY <2>1, <2>3 DEF PageEnds, totals
  <2> QED BY <2>2, <2>3
<1> QED BY <1>1, <1>2, <1>5 DEF CheckPath, WalkPath, StatusInv

LEMMA StepPInv == PInv /\ [Next]_vars => PInv'
<1> SUFFICES ASSUME PInv, [Next]_vars PROVE PInv'
  OBVIOUS
<1>1. IInv'
  BY StepIInv DEF PInv
<1>2. CASE SkipPage \/ FileEnds \/ CheckFails
  BY <1>1, <1>2, OtherPath DEF PInv
<1>3. CASE StartPage
  BY <1>1, <1>3, StartPagePath DEF PInv
<1>4. CASE CheckFollows
  BY <1>1, <1>4, CheckFollowsPath DEF PInv
<1>5. CASE CheckPasses
  BY <1>1, <1>5, CheckPassesPath DEF PInv
<1>6. CASE WalkStep
  BY <1>1, <1>6, WalkStepPath DEF PInv
<1>7. CASE PageEnds
  BY <1>1, <1>7, PageEndsPath DEF PInv
<1>8. CASE UNCHANGED vars
  <2> USE <1>8 DEF vars, page, check, walk, totals
  <2>1. comp' = comp /\ \A q, v : NextPointer(q, v)' = NextPointer(q, v)
    BY DEF comp, NextPointer
  <2>2. CheckPath'
    BY <2>1 DEF PInv, CheckPath, IsPath, Followed
  <2>3. WalkPath'
    BY <2>1 DEF PInv, WalkPath, IsPath, WalkAt, Followed
  <2>4. StatusInv'
    BY DEF PInv, StatusInv
  <2> QED BY <1>1, <2>2, <2>3, <2>4 DEF PInv
<1> QED BY <1>2, <1>3, <1>4, <1>5, <1>6, <1>7, <1>8 DEF Next, Exited

LEMMA AlwaysPInv == Spec => []PInv
BY InitPInv, StepPInv, PTL DEF Spec

\* The walk through a list that check_page accepted visits no record twice and
\* meets as many as were counted, for every page size and all pointers
\* (c_parser.c:518-554, 616-648).
THEOREM ParserWalkMatchesCheck == Spec => []WalkMatchesCheck
<1>1. PInv => WalkMatchesCheck
  <2> SUFFICES ASSUME PInv, pc = "walk", is_page_valid
               PROVE  /\ Cardinality(DOMAIN recs) <= expected_records
                      /\ offset = supremum(comp) =>
                             Cardinality(DOMAIN recs) = expected_records
                      /\ offset \notin DOMAIN recs
    BY DEF WalkMatchesCheck
  <2>1. PICK path, n : /\ n = expected_records + 1 /\ IsPath(path, n, supremum(comp))
                       /\ \E k \in 1 .. n : WalkAt(path, k)
    BY DEF PInv, WalkPath
  <2>2. PICK k \in 1 .. n : WalkAt(path, k)
    BY <2>1
  <2>3. expected_records \in Nat /\ n \in Nat /\ n = expected_records + 1
    BY <2>1, MaxRecs DEF PInv, IInv, TypeOK
  <2>4. Cardinality(DOMAIN recs) = k - 1 /\ offset = path[k]
    BY <2>2 DEF WalkAt
  <2>5. offset = supremum(comp) => k = n
    <3>1. \A i \in 0 .. n - 1 : path[i] # supremum(comp)
      BY <2>1 DEF IsPath
    <3>2. k # n => k \in 0 .. n - 1
      BY <2>3
    <3> QED BY <2>4, <3>1, <3>2
  <2>6. offset \notin DOMAIN recs
    <3> SUFFICES ASSUME NEW j \in 1 .. k - 1, path[j] = offset PROVE FALSE
      BY <2>2 DEF WalkAt
    <3>1. j \in 0 .. n /\ k \in 0 .. n /\ j < k
      BY <2>3
    <3> QED BY <2>1, <2>3, <2>4, <3>1, PathInjective
  <2> QED BY <2>3, <2>4, <2>5, <2>6
<1> QED BY <1>1, AlwaysPInv, PTL

\* The two ways in which the STATUS line tells of lost records agree on an input
\* whose lists are intact and agree with the page headers
\* (c_parser.c:657-670, 975-976).
THEOREM ParserStatusAgrees == Spec => []StatusAgrees
<1>1. PInv => StatusAgrees
  BY DEF PInv, StatusInv, StatusAgrees
<1> QED BY <1>1, AlwaysPInv, PTL
=============================================================================
