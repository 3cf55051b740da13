----------------------------- MODULE ToolProofs -----------------------------
(***************************************************************************)
(* Proofs about the two tools that work beside the recovery: InnoChecksum, *)
(* on a tablespace that is still in order, and FetchData, on a table that  *)
(* a server can still read most of.  They share nothing; the first part of *)
(* the module is about the one, the second part about the other.           *)
(***************************************************************************)
EXTENDS InnoChecksum, FetchData, FiniteSetTheorems, TLAPS

(***************************************************************************)
(* InnoChecksum, for all files, options, numbers of runs and for any two   *)
(* functions in the place of the checksums.  The heart is that the order   *)
(* of the three repairs (LSN, new checksum, old checksum) leaves a page    *)
(* good: each field is computed after everything it covers.                *)
(***************************************************************************)

\* The current page is in the range of the options.
InRange ==
    /\ ct >= opt.start_page
    /\ (status = "running" /\ opt.use_end_page) =>
          ct <= opt.end_page \/ ct = opt.start_page

InnoInv == InnoTypes /\ InRange /\ CheckedPagesAreGood /\ StopsAtBadPage

\* The step of TouchesOnlyBadPages for one page.
TouchAllowed(i) ==
    /\ ~ Good(file[i])
    /\ opt.fix_checksum \/ opt.fix_lsn
    /\ opt.start_page < i
    /\ opt.use_end_page => i - 1 <= opt.end_page \/ i - 1 = opt.start_page
    /\ file'[i].body = file[i].body

-----------------------------------------------------------------------------
LEMMA WithLsnFacts ==
    ASSUME InnoTypes, NEW p \in PageType
    PROVE  WithLsn(p) \in PageType /\ ~ BadLsn(WithLsn(p)) /\ WithLsn(p).body = p.body
BY DEF InnoTypes, OptionType, PageType, WithLsn, BadLsn

LEMMA WithNewFacts ==
    ASSUME NEW p \in PageType, ~ BadLsn(p)
    PROVE  /\ WithNew(p) \in PageType /\ WithNew(p).body = p.body
           /\ ~ BadLsn(WithNew(p)) /\ ~ BadNew(WithNew(p))
<1>1. CASE ~ BadNew(p)
  BY <1>1 DEF WithNew
<1>2. CASE BadNew(p)
  <2>1. NewChecksum(p) \in Checksums
    BY ChecksumAssumption DEF NewChecksum, PageType
  <2>2. WithNew(p) = [p EXCEPT !.csum = NewChecksum(p)]
    BY <1>2 DEF WithNew
  <2>3. /\ WithNew(p).csum = NewChecksum(p) /\ WithNew(p).lsn = p.lsn
        /\ WithNew(p).end_lsn = p.end_lsn /\ WithNew(p).body = p.body
        /\ WithNew(p) \in PageType
    BY <2>1, <2>2 DEF PageType
  <2>4. NewChecksum(WithNew(p)) = NewChecksum(p)
    BY <2>3 DEF NewChecksum
  <2> QED BY <2>3, <2>4 DEF BadLsn, BadNew
<1> QED BY <1>1, <1>2

LEMMA WithOldFacts ==
    ASSUME NEW p \in PageType, ~ BadLsn(p), ~ BadNew(p)
    PROVE  WithOld(p) \in PageType /\ WithOld(p).body = p.body /\ Good(WithOld(p))
<1>1. CASE ~ BadOld(p)
  BY <1>1 DEF WithOld, Good, valid_innodb_checksum
<1>2. CASE BadOld(p)
  <2>1. OldChecksum(p) \in Checksums
    BY ChecksumAssumption DEF OldChecksum, PageType
  <2>2. WithOld(p) = [p EXCEPT !.end_csum = OldChecksum(p)]
    BY <1>2 DEF WithOld
  <2>3. /\ WithOld(p).end_csum = OldChecksum(p) /\ WithOld(p).csum = p.csum
        /\ WithOld(p).lsn = p.lsn /\ WithOld(p).end_lsn = p.end_lsn
        /\ WithOld(p).body = p.body /\ WithOld(p) \in PageType
    BY <2>1, <2>2 DEF PageType
  <2>4. NewChecksum(WithOld(p)) = NewChecksum(p) /\ OldChecksum(WithOld(p)) = OldChecksum(p)
    BY <2>3 DEF NewChecksum, OldChecksum
  <2> QED BY <2>3, <2>4 DEF Good, valid_innodb_checksum, BadLsn, BadNew, BadOld
<1> QED BY <1>1, <1>2

\* The repair of any page is good, keeps its contents, and is the page itself
\* when that was good.
LEMMA RepairedIsGood ==
    ASSUME InnoTypes, NEW p \in PageType
    PROVE  /\ Repaired(p) \in PageType /\ Good(Repaired(p))
           /\ Repaired(p).body = p.body
           /\ Good(p) => Repaired(p) = p
<1>1. /\ Repaired(p) \in PageType /\ Good(Repaired(p)) /\ Repaired(p).body = p.body
  BY WithLsnFacts, WithNewFacts, WithOldFacts DEF Repaired
<1>2. Good(p) => Repaired(p) = p
  BY DEF Good, valid_innodb_checksum, Repaired, WithLsn, WithNew, WithOld
<1> QED BY <1>1, <1>2

\* A page that was refused was not good.
LEMMA RefusedIsBad ==
    ASSUME NEW p, Good(p) PROVE ~ Refused(p)
BY DEF Good, valid_innodb_checksum, Refused, WithLsn, WithNew

-----------------------------------------------------------------------------
THEOREM InnoInitially == InnoInit => InnoInv
<1> SUFFICES ASSUME InnoInit PROVE InnoInv
  OBVIOUS
<1>1. InnoTypes
  BY InputsAssumption DEF InnoInit, InnoTypes, OptionType
<1>2. \A i \in Nat : ~ Checked(i)
  BY <1>1 DEF InnoInit, Checked, InnoTypes, OptionType
<1>3. CheckedPagesAreGood
  BY <1>1, <1>2 DEF CheckedPagesAreGood, InnoTypes
<1>4. InRange
  BY <1>1 DEF InnoInit, InRange, InnoTypes, OptionType
<1> QED BY <1>1, <1>3, <1>4 DEF InnoInv, InnoInit, StopsAtBadPage

LEMMA CheckPageStep ==
    ASSUME InnoInv, CheckPage PROVE InnoInv'
<1> USE DEF InnoInv
<1>1. /\ ct \in Nat /\ ct + 1 \in 1 .. Len(file) /\ Page \in PageType
      /\ file \in Seq(PageType)
  BY DEF InnoTypes, CheckPage, Page
<1>2. Repaired(Page) \in PageType /\ Good(Repaired(Page))
  BY <1>1, RepairedIsGood
<1>3. /\ file' = [file EXCEPT ![ct + 1] = Repaired(Page)]
      /\ UNCHANGED <<trailing, opt, runs>>
      /\ status = "running"
      /\ (status' = "exit0" /\ ct' = ct) \/ (status' = "running" /\ ct' = ct + 1)
  BY DEF CheckPage, Running
<1>4. /\ file' \in Seq(PageType) /\ Len(file') = Len(file)
      /\ file'[ct + 1] = Repaired(Page)
      /\ \A i \in 1 .. Len(file) : i # ct + 1 => file'[i] = file[i]
  BY <1>1, <1>2, <1>3
<1>5. InnoTypes'
  BY <1>1, <1>3, <1>4 DEF InnoTypes
<1>6. CheckedPagesAreGood'
  <2> SUFFICES ASSUME NEW i \in 1 .. Len(file), Checked(i - 1)'
               PROVE  Good(file'[i])
    BY <1>4 DEF CheckedPagesAreGood, Good, valid_innodb_checksum, BadLsn, BadNew, BadOld,
                NewChecksum, OldChecksum
  <2>1. CASE i = ct + 1
    BY <2>1, <1>2, <1>4
  <2>2. CASE i # ct + 1
    <3>1. Checked(i - 1)
      BY <1>1, <1>3, <2>2 DEF Checked, InnoTypes, OptionType
    <3> QED BY <1>4, <2>2, <3>1 DEF CheckedPagesAreGood
  <2> QED BY <2>1, <2>2
<1>7. StopsAtBadPage'
  BY <1>3 DEF StopsAtBadPage
<1>8. InRange'
  BY <1>1, <1>3 DEF InRange, CheckPage, InnoTypes, OptionType
<1> QED BY <1>5, <1>6, <1>7, <1>8

LEMMA RefusePageStep ==
    ASSUME InnoInv, RefusePage PROVE InnoInv'
<1> USE DEF InnoInv, RefusePage, Running
<1>1. InnoTypes'
  BY DEF InnoTypes
<1>2. CheckedPagesAreGood'
  BY DEF CheckedPagesAreGood, Checked, Good, valid_innodb_checksum, BadLsn, BadNew, BadOld,
         NewChecksum, OldChecksum
<1>3. ~ Good(Page)
  BY RefusedIsBad
<1>4. StopsAtBadPage'
  BY <1>3 DEF StopsAtBadPage, Page, Good, valid_innodb_checksum, BadLsn, BadNew, BadOld,
              NewChecksum, OldChecksum
<1>5. InRange'
  BY DEF InRange
<1> QED BY <1>1, <1>2, <1>4, <1>5

\* A page that is torn by a failed write lies behind the checked ones.
LEMMA WriteInterruptedStep ==
    ASSUME InnoInv, WriteInterrupted PROVE InnoInv'
<1> USE DEF InnoInv
<1>1. /\ ct \in Nat /\ ct + 1 \in 1 .. Len(file) /\ Page \in PageType
      /\ file \in Seq(PageType)
  BY DEF InnoTypes, WriteInterrupted, Page
<1>2. Repaired(Page) \in PageType
  BY <1>1, RepairedIsGood
<1>3. /\ status = "running" /\ status' = "interrupted"
      /\ UNCHANGED <<trailing, opt, ct, runs>>
  BY DEF WriteInterrupted, Running
<1>4. /\ file' \in Seq(PageType) /\ Len(file') = Len(file)
      /\ \A i \in 1 .. Len(file) : i # ct + 1 => file'[i] = file[i]
  <2> DEFINE torn == [Repaired(Page) EXCEPT !.end_lsn = Page.end_lsn,
                                            !.end_csum = Page.end_csum]
  <2>1. torn \in PageType
    BY <1>1, <1>2 DEF PageType
  <2>2. file' = file \/ file' = [file EXCEPT ![ct + 1] = torn]
    BY DEF WriteInterrupted
  <2> HIDE DEF torn
  <2> QED BY <1>1, <2>1, <2>2
<1>5. InnoTypes' /\ InRange' /\ StopsAtBadPage'
  BY <1>3, <1>4 DEF InnoTypes, InRange, StopsAtBadPage
<1>6. CheckedPagesAreGood'
  <2> SUFFICES ASSUME NEW i \in 1 .. Len(file), Checked(i - 1)'
               PROVE  Good(file'[i])
    BY <1>4 DEF CheckedPagesAreGood, Good, valid_innodb_checksum, BadLsn, BadNew, BadOld,
                NewChecksum, OldChecksum
  <2>1. Checked(i - 1) /\ i # ct + 1
    BY <1>1, <1>3 DEF Checked, InnoTypes, OptionType
  <2> QED BY <1>4, <2>1 DEF CheckedPagesAreGood
<1> QED BY <1>5, <1>6

LEMMA EndOfFileStep ==
    ASSUME InnoInv, EndOfFile PROVE InnoInv'
<1> USE DEF InnoInv, EndOfFile, Running
<1>1. InnoTypes' /\ InRange'
  BY DEF InnoTypes, InRange
<1>2. StopsAtBadPage'
  BY DEF StopsAtBadPage
<1>3. CheckedPagesAreGood'
  <2> SUFFICES ASSUME NEW i \in 1 .. Len(file), Checked(i - 1)'
               PROVE  Good(file[i])
    BY DEF CheckedPagesAreGood, Good, valid_innodb_checksum, BadLsn, BadNew, BadOld,
           NewChecksum, OldChecksum
  <2>1. Checked(i - 1)
    BY DEF Checked, InnoTypes, OptionType
  <2> QED BY <2>1 DEF CheckedPagesAreGood
<1> QED BY <1>1, <1>2, <1>3

\* A new run has checked nothing yet.
LEMMA RunAgainStep ==
    ASSUME InnoInv, RunAgain PROVE InnoInv'
<1> USE DEF InnoInv, RunAgain
<1>1. InnoTypes'
  BY InputsAssumption DEF InnoTypes, OptionType
<1>2. InRange' /\ StopsAtBadPage'
  BY <1>1 DEF InRange, StopsAtBadPage, InnoTypes, OptionType
<1>3. CheckedPagesAreGood'
  <2> SUFFICES ASSUME NEW i \in 1 .. Len(file)', Checked(i - 1)'
               PROVE  FALSE
    BY DEF CheckedPagesAreGood
  <2> QED BY <1>1 DEF Checked, InnoTypes, OptionType
<1> QED BY <1>1, <1>2, <1>3

\* InnoInv is inductive.
THEOREM InnoInductive == InnoInv /\ [InnoStep]_innoVars => InnoInv'
<1> SUFFICES ASSUME InnoInv, [InnoStep]_innoVars PROVE InnoInv'
  OBVIOUS
<1>1. CASE UNCHANGED innoVars
  BY <1>1 DEF innoVars, InnoInv, InnoTypes, InRange, CheckedPagesAreGood, Checked, StopsAtBadPage, Page,
              Good, valid_innodb_checksum, BadLsn, BadNew, BadOld, NewChecksum, OldChecksum
<1> QED BY <1>1, CheckPageStep, RefusePageStep, WriteInterruptedStep, EndOfFileStep,
           RunAgainStep DEF InnoStep

THEOREM InnoIInv == InnoSpec => []InnoInv
BY InnoInitially, InnoInductive, PTL DEF InnoSpec

\* Every variable keeps its type.
THEOREM InnoTypeOK == InnoSpec => []InnoTypes
BY InnoIInv, PTL DEF InnoInv

\* What a run has gone through is good, and acceptable to stream_parser.
THEOREM InnoCheckedPagesAreGood == InnoSpec => []CheckedPagesAreGood
BY InnoIInv, PTL DEF InnoInv

\* A refusal is at a page that is not good.
THEOREM InnoStopsAtBadPage == InnoSpec => []StopsAtBadPage
BY InnoIInv, PTL DEF InnoInv

-----------------------------------------------------------------------------
\* A page that gets another content was not good; with neither -f nor -l
\* there is none.
LEMMA RepairNeedsOption ==
    ASSUME NEW p, ~ Refused(p), Repaired(p) # p
    PROVE  opt.fix_checksum \/ opt.fix_lsn
BY DEF Refused, Repaired, WithLsn, WithNew, WithOld

LEMMA TouchStep ==
    ASSUME InnoInv, CheckPage \/ WriteInterrupted,
           NEW i \in 1 .. Len(file), file'[i] # file[i]
    PROVE  TouchAllowed(i)
<1> USE DEF InnoInv
<1>1. /\ ct \in Nat /\ ct + 1 \in 1 .. Len(file) /\ Page \in PageType
      /\ file \in Seq(PageType) /\ ~ Refused(Page) /\ status = "running"
  BY DEF InnoTypes, CheckPage, WriteInterrupted, Page, Running
<1>2. Repaired(Page).body = Page.body /\ Repaired(Page) \in PageType
      /\ (Good(Page) => Repaired(Page) = Page)
  BY <1>1, RepairedIsGood
<1>3. i = ct + 1 /\ file[i] = Page
  BY <1>1 DEF CheckPage, WriteInterrupted, Page
<1>4. Repaired(Page) # Page /\ file'[i].body = Page.body
  <2>1. CASE CheckPage
    BY <1>1, <1>2, <1>3, <2>1 DEF CheckPage
  <2>2. CASE WriteInterrupted
    <3> DEFINE torn == [Repaired(Page) EXCEPT !.end_lsn = Page.end_lsn,
                                              !.end_csum = Page.end_csum]
    <3>1. torn.body = Repaired(Page).body
      BY <1>2 DEF PageType
    <3>2. file' = [file EXCEPT ![ct + 1] = torn] \/ file' = file
      BY <2>2 DEF WriteInterrupted
    <3> HIDE DEF torn
    <3>3. file'[i] = torn
      BY <1>1, <1>3, <3>2
    <3> QED BY <1>2, <2>2, <3>1, <3>3 DEF WriteInterrupted
  <2> QED BY <2>1, <2>2
<1>5. opt.fix_checksum \/ opt.fix_lsn
  BY <1>1, <1>4, RepairNeedsOption
<1>6. /\ opt.start_page < i
      /\ opt.use_end_page => i - 1 <= opt.end_page \/ i - 1 = opt.start_page
  BY <1>1, <1>3 DEF InRange, InnoTypes, OptionType
<1> QED BY <1>2, <1>3, <1>4, <1>5, <1>6 DEF TouchAllowed

\* The tool never changes a page that is good, out of range, or when it was
\* not asked to repair; and never the contents of a page.
THEOREM InnoTouchesOnlyBadPages == InnoSpec => TouchesOnlyBadPages
<1>1. InnoInv /\ [InnoStep]_innoVars =>
        [\A i \in 1 .. Len(file) : file'[i] # file[i] => TouchAllowed(i)]_innoVars
  <2> SUFFICES ASSUME InnoInv, InnoStep, NEW i \in 1 .. Len(file), file'[i] # file[i]
               PROVE  TouchAllowed(i)
    OBVIOUS
  <2>1. CheckPage \/ WriteInterrupted
    BY DEF InnoStep, RefusePage, EndOfFile, RunAgain
  <2> QED BY <2>1, TouchStep
<1> QED BY <1>1, InnoIInv, PTL DEF InnoSpec, TouchesOnlyBadPages, TouchAllowed

-----------------------------------------------------------------------------
(***************************************************************************)
(* FetchData, for every table, every set of corrupted rows and every       *)
(* number of outages.  The invariant says how long the range is (at most   *)
(* chunk + 1 keys, so that a range that cannot be halved has at most two)  *)
(* and which failure the script is waiting out: when it is about to give   *)
(* up a key, that key is beside a corrupted row or an outage is yet to be  *)
(* charged.                                                                *)
(***************************************************************************)

\* Good rows passed for no corrupted row.
Wasted == {r \in Lost : ~ Given(r)}

\* The script is about to give up a key for an outage, or may have to.
Pending == \/ pc = "insert" /\ server = "down"
           \/ pc = "ping" /\ chunk = 0 /\ ~ Given(a)

Debt == IF Pending THEN 1 ELSE 0

FetchInv ==
    /\ FetchTypes
    /\ pc = "insert" => b - a <= chunk /\ (chunk > 0 \/ b >= maxPK)
    /\ pc = "ping" => b - a = chunk
    /\ Cardinality(Wasted) + Debt <= outages

-----------------------------------------------------------------------------
LEMMA WastedIsFinite == IsFiniteSet(Wasted) /\ Cardinality(Wasted) \in Nat
<1>1. IsFiniteSet(minPK .. maxPK)
  BY FS_Interval, KeysAssumption
<1>2. Wasted \subseteq minPK .. maxPK
  BY KeysAssumption DEF Wasted, Lost
<1> QED BY <1>1, <1>2, FS_Subset, FS_CardinalityType

\* What the end of the loop's body leaves: the old range, or the range behind
\* the first key when the chunk was 0.
LEMMA RestOfBodyValues ==
    ASSUME NEW x \in Int, NEW y \in Int, NEW c \in Nat, NEW t \in Nat,
           y - x <= c, RestOfBody(x, y, c, t)
    PROVE  /\ a' \in Int /\ b' \in Int /\ chunk' \in Nat /\ successful_tries' \in Nat
           /\ pc' \in {"insert", "done"}
           /\ a' = x \/ (c = 0 /\ x <= maxPK /\ a' = x + 1)
           /\ pc' = "insert" => b' - a' <= chunk' /\ chunk' > 0
<1>1. CASE x > maxPK
  BY <1>1, KeysAssumption DEF RestOfBody
<1>2. CASE ~ (x > maxPK) /\ c = 0
  BY <1>2, KeysAssumption DEF RestOfBody
<1>3. CASE ~ (x > maxPK) /\ c # 0
  BY <1>3, KeysAssumption DEF RestOfBody
<1> QED BY <1>1, <1>2, <1>3

\* Rows that get copied only shrink what is wasted.
LEMMA WastedShrinks ==
    ASSUME Wasted' \subseteq Wasted
    PROVE  Cardinality(Wasted') <= Cardinality(Wasted) /\ Cardinality(Wasted') \in Nat
BY WastedIsFinite, FS_Subset, FS_CardinalityType

THEOREM FetchInitially == FetchInit => FetchInv
<1> SUFFICES ASSUME FetchInit PROVE FetchInv
  OBVIOUS
<1>1. FetchTypes
  BY KeysAssumption DEF FetchInit, FetchTypes
<1>2. Wasted = {}
  <2> SUFFICES ASSUME NEW r \in Rows, r < a PROVE FALSE
    BY DEF Wasted, Lost
  <2> QED BY KeysAssumption DEF FetchInit
<1>3. Cardinality(Wasted) = 0
  BY <1>2, FS_EmptySet
<1>4. ~ Pending
  BY DEF FetchInit, Pending
<1> QED BY <1>1, <1>3, <1>4, KeysAssumption DEF FetchInv, FetchInit, Debt

-----------------------------------------------------------------------------
\* A copied range is passed; nothing is given up.
LEMMA InsertSucceedsStep ==
    ASSUME FetchInv, InsertSucceeds PROVE FetchInv'
<1> USE DEF FetchInv
<1>1. /\ a' \in Int /\ b' \in Int /\ chunk' \in Nat /\ successful_tries' \in Nat
      /\ pc' \in {"insert", "done"}
      /\ a' = b + 1
      /\ pc' = "insert" => b' - a' <= chunk' /\ chunk' > 0
  <2>1. b + 1 \in Int /\ b + chunk \in Int /\ (b + chunk) - (b + 1) <= chunk
        /\ successful_tries + 1 \in Nat
    BY DEF FetchTypes
  <2>2. chunk = 0 => b + 1 > maxPK
    BY KeysAssumption DEF FetchTypes, InsertSucceeds
  <2>3. ~ (b + 1 > maxPK /\ b + 1 <= maxPK)
    BY <2>1, KeysAssumption
  <2>4. RestOfBody(b + 1, b + chunk, chunk, successful_tries + 1)
    BY DEF InsertSucceeds
  <2>5. chunk \in Nat
    BY DEF FetchTypes
  <2>6. /\ a' \in Int /\ b' \in Int /\ chunk' \in Nat /\ successful_tries' \in Nat
        /\ pc' \in {"insert", "done"}
        /\ a' = b + 1 \/ (chunk = 0 /\ b + 1 <= maxPK /\ a' = (b + 1) + 1)
        /\ pc' = "insert" => b' - a' <= chunk' /\ chunk' > 0
    BY <2>1, <2>4, <2>5, RestOfBodyValues
  <2> QED BY <2>2, <2>3, <2>6
<1>2. /\ UNCHANGED <<Bad, server, outages>> /\ server = "up"
      /\ copied' = copied \cup Between(a, b)
      /\ pc = "insert"
  BY DEF InsertSucceeds
<1>3. FetchTypes'
  BY <1>1, <1>2 DEF FetchTypes, Between
<1>4. Wasted' \subseteq Wasted
  <2> SUFFICES ASSUME NEW r \in Rows, r < a', r \notin copied', ~ Given(r)
               PROVE  r \in Wasted
    BY <1>2 DEF Wasted, Lost, Given
  <2>1. r \in Int /\ a \in Int /\ b \in Int
    BY KeysAssumption DEF FetchTypes
  <2>2. r \notin copied /\ r \notin Between(a, b)
    BY <1>2
  <2>3. r < a
    BY <1>1, <2>1, <2>2 DEF Between
  <2> QED BY <2>2, <2>3 DEF Wasted, Lost
<1>5. ~ Pending'
  BY <1>1, <1>2 DEF Pending
<1>6. (Cardinality(Wasted) + Debt <= outages)'
  BY <1>2, <1>4, <1>5, WastedShrinks, WastedIsFinite DEF Debt, FetchTypes
<1> QED BY <1>1, <1>3, <1>6

\* Halving the range: what is to be given up if it was the smallest.
LEMMA ShrinkValues ==
    ASSUME FetchTypes, Shrink
    PROVE  /\ a' = a /\ b' \in Int /\ chunk' \in Nat
           /\ pc' = "ping" /\ successful_tries' = successful_tries
           /\ b' - a' = chunk'
           /\ chunk' = 0 => chunk <= 1
BY DEF Shrink, FetchTypes

\* A corrupted row in a range that cannot be halved is its first or second.
LEMMA InsertMeetsBadRowStep ==
    ASSUME FetchInv, InsertMeetsBadRow PROVE FetchInv'
<1> USE DEF FetchInv
<1>1. /\ a' = a /\ b' \in Int /\ chunk' \in Nat
      /\ pc' = "ping" /\ successful_tries' = successful_tries
      /\ b' - a' = chunk'
      /\ chunk' = 0 => chunk <= 1
  BY ShrinkValues DEF InsertMeetsBadRow
<1>2. /\ UNCHANGED <<Bad, outages>> /\ pc = "insert"
      /\ copied \subseteq copied' /\ copied' \subseteq Rows
      /\ server' \in {"up", "down"}
  BY DEF InsertMeetsBadRow, FetchTypes, Between
<1>3. FetchTypes'
  BY <1>1, <1>2 DEF FetchTypes
<1>4. Wasted' \subseteq Wasted
  BY <1>1, <1>2 DEF Wasted, Lost, Given
<1>5. ~ Pending'
  <2> SUFFICES ASSUME chunk' = 0 PROVE Given(a)
    BY <1>1, <1>2 DEF Pending, Given
  <2>1. PICK s \in Bad : a <= s /\ s <= b
    BY DEF InsertMeetsBadRow, Between
  <2>2. s \in Int
    BY <2>1, KeysAssumption DEF FetchTypes
  <2>3. b - a <= 1
    BY <1>1, <1>2 DEF FetchTypes
  <2>4. s = a \/ s = a + 1
    BY <2>1, <2>2, <2>3 DEF FetchTypes
  <2> QED BY <1>1, <1>2, <2>1, <2>4 DEF Given
<1>6. (Cardinality(Wasted) + Debt <= outages)'
  BY <1>2, <1>4, <1>5, WastedShrinks, WastedIsFinite DEF Debt, FetchTypes
<1> QED BY <1>1, <1>3, <1>6

\* An outage that hits a query is charged for at most one key.
LEMMA OutageStep ==
    ASSUME FetchInv, InsertUnanswered \/ InsertReplyLost PROVE FetchInv'
<1> USE DEF FetchInv
<1>1. /\ a' = a /\ b' \in Int /\ chunk' \in Nat
      /\ pc' = "ping" /\ successful_tries' = successful_tries
      /\ b' - a' = chunk'
  BY ShrinkValues DEF InsertUnanswered, InsertReplyLost
<1>2. /\ Bad' = Bad /\ pc = "insert" /\ server' = "down"
      /\ copied \subseteq copied' /\ copied' \subseteq Rows
      /\ outages' \in 0 .. MaxOutages
      /\ (server = "down" /\ outages' = outages) \/ outages' = outages + 1
  <2>1. CASE InsertUnanswered
    BY <2>1 DEF InsertUnanswered, FetchTypes
  <2>2. CASE InsertReplyLost
    <3>1. outages' = outages + 1 /\ outages' \in 0 .. MaxOutages
      BY <2>2, KeysAssumption DEF InsertReplyLost, FetchTypes
    <3>2. copied' = copied \cup Between(a, b) /\ Between(a, b) \subseteq Rows
      BY <2>2 DEF InsertReplyLost, Between
    <3> QED BY <2>2, <3>1, <3>2 DEF InsertReplyLost, FetchTypes
  <2> QED BY <2>1, <2>2
<1>3. FetchTypes'
  BY <1>1, <1>2 DEF FetchTypes
<1>4. Wasted' \subseteq Wasted
  BY <1>1, <1>2 DEF Wasted, Lost, Given
<1>5. Cardinality(Wasted) + 1 <= outages'
  BY <1>2, WastedIsFinite DEF Debt, Pending, FetchTypes
<1>6. (Cardinality(Wasted) + Debt <= outages)'
  BY <1>3, <1>4, <1>5, WastedShrinks, WastedIsFinite DEF Debt, FetchTypes
<1> QED BY <1>1, <1>3, <1>6

\* Behind the answered ping the first key is given up, or nothing is.
LEMMA PingAnsweredStep ==
    ASSUME FetchInv, PingAnswered PROVE FetchInv'
<1> USE DEF FetchInv
<1>1. /\ a' \in Int /\ b' \in Int /\ chunk' \in Nat /\ successful_tries' \in Nat
      /\ pc' \in {"insert", "done"}
      /\ a' = a \/ (chunk = 0 /\ a <= maxPK /\ a' = a + 1)
      /\ pc' = "insert" => b' - a' <= chunk' /\ chunk' > 0
  BY RestOfBodyValues DEF PingAnswered, FetchTypes
<1>2. /\ UNCHANGED <<Bad, server, outages, copied>> /\ pc = "ping" /\ server = "up"
  BY DEF PingAnswered
<1>3. FetchTypes'
  BY <1>1, <1>2 DEF FetchTypes
<1>4. ~ Pending'
  BY <1>1, <1>2 DEF Pending
<1>5. Wasted' \subseteq Wasted \cup (IF Pending THEN {a} ELSE {})
  <2> SUFFICES ASSUME NEW r \in Wasted', r \notin Wasted
               PROVE  r = a /\ Pending
    OBVIOUS
  <2>1. r \in Rows /\ r \in Int /\ r < a' /\ r \notin copied /\ ~ Given(r)
    BY <1>2, KeysAssumption DEF Wasted, Lost, Given
  <2>2. ~ (r < a)
    BY <2>1 DEF Wasted, Lost
  <2>3. r = a /\ chunk = 0
    BY <1>1, <2>1, <2>2 DEF FetchTypes
  <2> QED BY <1>2, <2>1, <2>3 DEF Pending
<1>6. Cardinality(Wasted') <= Cardinality(Wasted) + Debt
  <2>1. CASE Pending
    <3>1. /\ IsFiniteSet(Wasted \cup {a})
          /\ Cardinality(Wasted \cup {a}) <= Cardinality(Wasted) + 1
      BY FS_AddElement, WastedIsFinite
    <3>2. Wasted' \subseteq Wasted \cup {a}
      BY <1>5, <2>1
    <3>3. Cardinality(Wasted') <= Cardinality(Wasted \cup {a})
          /\ Cardinality(Wasted') \in Nat /\ Cardinality(Wasted \cup {a}) \in Nat
      BY <3>1, <3>2, FS_Subset, FS_CardinalityType
    <3> QED BY <2>1, <3>1, <3>3, WastedIsFinite DEF Debt
  <2>2. CASE ~ Pending
    BY <1>5, <2>2, WastedShrinks, WastedIsFinite DEF Debt
  <2> QED BY <2>1, <2>2
<1>7. (Cardinality(Wasted) + Debt <= outages)'
  <2>1. Cardinality(Wasted') \in Nat
    <3>1. IsFiniteSet(Wasted \cup {a})
      BY FS_AddElement, WastedIsFinite
    <3>2. Wasted' \subseteq Wasted \cup {a}
      BY <1>5
    <3> QED BY <3>1, <3>2, FS_Subset, FS_CardinalityType
  <2> QED BY <1>2, <1>4, <1>6, <2>1, WastedIsFinite DEF Debt, FetchTypes
<1> QED BY <1>1, <1>3, <1>7

\* The server comes and goes; the script stands still.
LEMMA ServerStep ==
    ASSUME FetchInv, ServerCrashes \/ ServerStarts PROVE FetchInv'
<1> USE DEF FetchInv
<1>1. /\ UNCHANGED <<Bad, copied, pc, a, b, chunk, successful_tries>>
      /\ server' \in {"up", "down"}
      /\ outages' \in 0 .. MaxOutages
      /\ (server' = "up" /\ outages' = outages) \/ outages' = outages + 1
  BY KeysAssumption DEF ServerCrashes, ServerStarts, FetchTypes
<1>2. FetchTypes'
  BY <1>1 DEF FetchTypes
<1>3. Wasted' = Wasted
  BY <1>1 DEF Wasted, Lost, Given
<1>4. outages' = outages => (Pending' => Pending)
  BY <1>1 DEF Pending, Given, FetchTypes
<1>5. (Cardinality(Wasted) + Debt <= outages)'
  BY <1>1, <1>3, <1>4, WastedIsFinite DEF Debt, FetchTypes
<1> QED BY <1>1, <1>2, <1>5

THEOREM FetchInductive == FetchInv /\ [FetchStep]_fetchVars => FetchInv'
<1> SUFFICES ASSUME FetchInv, [FetchStep]_fetchVars PROVE FetchInv'
  OBVIOUS
<1>1. CASE InsertSucceeds
  BY <1>1, InsertSucceedsStep
<1>2. CASE InsertMeetsBadRow
  BY <1>2, InsertMeetsBadRowStep
<1>3. CASE InsertUnanswered \/ InsertReplyLost
  BY <1>3, OutageStep
<1>4. CASE PingAnswered
  BY <1>4, PingAnsweredStep
<1>5. CASE ServerCrashes \/ ServerStarts
  BY <1>5, ServerStep
<1>6. CASE UNCHANGED fetchVars
  BY <1>6 DEF fetchVars, FetchInv, FetchTypes, Wasted, Lost, Given, Debt, Pending
<1> QED BY <1>1, <1>2, <1>3, <1>4, <1>5, <1>6 DEF FetchStep, Script, PingFails, Exited

\* The counters keep their types: the chunk never becomes negative.
THEOREM FetchTypeOK == FetchSpec => []FetchTypes
BY FetchInitially, FetchInductive, PTL DEF FetchSpec, FetchInv

\* However the outages fall, each of them costs at most one good row that is
\* not beside a corrupted one.
THEOREM FetchOutageCostsOneRow == FetchSpec => []OutageCostsOneRow
<1>1. FetchInv => OutageCostsOneRow
  BY WastedIsFinite DEF FetchInv, FetchTypes, OutageCostsOneRow, Wasted, Debt
<1> QED BY <1>1, FetchInitially, FetchInductive, PTL DEF FetchSpec

\* Without outages every row lost is corrupted or precedes a corrupted one.
THEOREM FetchLosesOnlyBesideBad == FetchSpec => []LostOnlyBesideBad
<1>1. FetchInv => LostOnlyBesideBad
  <2> SUFFICES ASSUME FetchInv, outages = 0, NEW r \in Lost PROVE Given(r)
    BY DEF LostOnlyBesideBad
  <2>1. Cardinality(Wasted) = 0
    BY WastedIsFinite DEF FetchInv, FetchTypes, Debt
  <2>2. Wasted = {}
    BY <2>1, WastedIsFinite, FS_EmptySet
  <2> QED BY <2>2 DEF Wasted
<1> QED BY <1>1, FetchInitially, FetchInductive, PTL DEF FetchSpec
=============================================================================
