------------------------------ MODULE CParser -------------------------------
(***************************************************************************)
(* c_parser.c: read the page files that stream_parser wrote, walk through  *)
(* each page (process_ibfile, check_page, process_ibpage) and dump every   *)
(* record that looks like one of the table (check_for_a_record,            *)
(* check_constraints); the totals go into the STATUS line of main().       *)
(*                                                                         *)
(* A page is corrupted more often than not: every value read from it is    *)
(* chosen when it is first read, and kept.  links holds the next-record    *)
(* pointers read so far (the two bytes before an origin), recs what was    *)
(* found at an origin.  Two-byte signed arithmetic is kept, scaled to the  *)
(* page of the model: INT16_MAX is twice the page size, less one, as it is *)
(* for pages of 16384 bytes.  There is one table definition                *)
(* (table_definitions[] has one element).                                  *)
(***************************************************************************)
EXTENDS Integers, Sequences, FiniteSets

CONSTANTS
    UNIV_PAGE_SIZE,
    infimum(_), supremum(_),   \* PAGE_NEW_..., PAGE_OLD_..., by page_is_comp
    record_extra_bytes(_),     \* set by init_table_defs, by page_is_comp
    data_start,                \* 100: where records may start in any page
    min_rec_header_len,        \* of the table, set by init_table_defs
    Links,       \* values of a next-record pointer, unsigned
    Headers,     \* page headers considered
    Sizes,       \* values of rec_offs_data_size of a record of the table
    CommandLines, \* sequences of the options "D", "U", "d", "T"
    MaxPages     \* bound on the pages of the input

TwoBytes == 4 * UNIV_PAGE_SIZE

\* The conversion to int16_t, of what lies less than 65536 outside its range.
Int16(x) == IF x >= 2 * UNIV_PAGE_SIZE THEN x - TwoBytes
            ELSE IF x < -(2 * UNIV_PAGE_SIZE) THEN x + TwoBytes
            ELSE x

HeaderType ==
    [index_ok : BOOLEAN,   \* its index id is the one of -T
     comp : BOOLEAN, leaf : BOOLEAN,
     n_recs : Nat, free : Nat, garbage : Nat]

max_recs == UNIV_PAGE_SIZE \div 5

(***************************************************************************)
(* Every record has the system columns DB_TRX_ID and DB_ROLL_PTR, so its   *)
(* size is not 0 (data_min_size, tables_dict.c:46).                        *)
(***************************************************************************)
ASSUME ParserAssumption ==
    /\ UNIV_PAGE_SIZE \in Nat \ {0} /\ data_start \in Nat /\ data_start > 2
    /\ min_rec_header_len \in Nat /\ MaxPages \in Nat
    /\ Links \subseteq 0 .. TwoBytes - 1
    /\ Sizes \subseteq Nat \ {0}
    /\ Headers \subseteq HeaderType
    /\ \A comp \in BOOLEAN :
          /\ infimum(comp) \in 2 .. UNIV_PAGE_SIZE
          /\ supremum(comp) \in 2 .. UNIV_PAGE_SIZE
          /\ infimum(comp) # supremum(comp)
          /\ record_extra_bytes(comp) \in Nat

VARIABLES
    opts,       \* the flags that getopt() has set
    pc,         \* "file", "check", "walk" or "exit"
    pages,      \* pages read so far
    header, links, recs,             \* the current page
    p, p_prev, hops,                 \* check_page (hops is its recs)
    is_page_valid, expected_records,
    offset, actual_records, found,   \* process_ibpage; found: offsets dumped
    records_expected_total, records_dumped_total, records_lost,
    sound       \* history: every leaf page so far had a valid list of n_recs

page == <<header, links, recs>>
check == <<p, p_prev, hops>>
walk == <<is_page_valid, expected_records, offset, actual_records, found>>
totals == <<records_expected_total, records_dumped_total, records_lost, sound>>
vars == <<opts, pc, pages, page, check, walk, totals>>
-----------------------------------------------------------------------------
(* getopt() in main                                                        *)

OptionType == [deleted_pages_only : BOOLEAN, deleted_records_only : BOOLEAN,
               undeleted_records_only : BOOLEAN, use_filter_id : BOOLEAN]

\* -D also takes the default back; -U, when it comes later, sets it again.
Parsed(line) ==
    LET Given(ch) == \E i \in DOMAIN line : line[i] = ch
    IN  [deleted_pages_only |-> Given("d"),
         deleted_records_only |-> Given("D"),
         undeleted_records_only |->
             \A i \in DOMAIN line : line[i] = "D" =>
                 \E j \in DOMAIN line : i < j /\ line[j] = "U",
         use_filter_id |-> Given("T")]
-----------------------------------------------------------------------------
(* Reading the current page                                                *)

comp == header.comp

\* mach_read_from_2(page + q - 2) is v.
ReadsLink(q, v) ==
    /\ q \in DOMAIN links => links[q] = v
    /\ links' = [r \in DOMAIN links \cup {q} |-> IF r = q THEN v ELSE links[r]]

\* The pointer that follows q, as check_page computes it.
NextPointer(q, v) == IF comp THEN Int16(q + Int16(v)) ELSE Int16(v)

\* The same in process_ibpage, where only the pointer itself is 16 bits wide.
NextOffset(q, v) == IF comp THEN q + Int16(v) ELSE Int16(v)

\* What may be found at an origin: nothing, or a record with its deleted flag.
RecordType == [is : {FALSE}] \cup [is : {TRUE}, deleted : BOOLEAN, size : Sizes]

ReadsRecord(q, rec) ==
    /\ q \in DOMAIN recs => recs[q] = rec
    /\ recs' = [r \in DOMAIN recs \cup {q} |-> IF r = q THEN rec ELSE recs[r]]

\* Only an origin that leaves room for a header is looked at.
OriginOK(q) == q >= record_extra_bytes(comp) + min_rec_header_len

check_for_a_record(q, rec) ==
    /\ OriginOK(q)
    /\ rec.is
    /\ opts.deleted_records_only => rec.deleted
    /\ opts.undeleted_records_only => ~ rec.deleted
-----------------------------------------------------------------------------
(* The initial state and the actions                                       *)

NoHeader == [index_ok |-> FALSE, comp |-> FALSE, leaf |-> FALSE,
             n_recs |-> 0, free |-> 0, garbage |-> 0]

Init ==
    /\ \E line \in CommandLines : opts = Parsed(line)
    /\ pc = "file"
    /\ pages = 0
    /\ header = NoHeader /\ links = << >> /\ recs = << >>
    /\ p = 0 /\ p_prev = 0 /\ hops = 0
    /\ is_page_valid = FALSE /\ expected_records = 0
    /\ offset = 0 /\ actual_records = 0 /\ found = {}
    /\ records_expected_total = 0 /\ records_dumped_total = 0
    /\ records_lost = FALSE /\ sound = TRUE

\* -d: pages without deleted records are skipped.
Skipped(h) ==
    /\ opts.deleted_pages_only
    /\ \/ h.n_recs = 0 /\ h.free = 0
       \/ h.free > 0 /\ h.garbage = 0
       \/ h.free > UNIV_PAGE_SIZE

FilteredOut(h) == opts.use_filter_id /\ ~ h.index_ok

\* read() has returned a whole page that is not to be processed.
SkipPage ==
    /\ pc = "file" /\ pages < MaxPages
    /\ \E h \in Headers : Skipped(h) \/ FilteredOut(h)
    /\ pages' = pages + 1
    /\ UNCHANGED <<opts, pc, page, check, walk, totals>>

\* process_ibpage up to check_page's loop.
StartPage ==
    /\ pc = "file" /\ pages < MaxPages
    /\ \E h \in Headers :
          /\ ~ Skipped(h) /\ ~ FilteredOut(h)
          /\ header' = h
          /\ p' = infimum(h.comp)
    /\ pages' = pages + 1
    /\ pc' = "check"
    /\ UNCHANGED <<opts, links, recs, p_prev, hops, walk, totals>>

\* read() returns less than a page: the file ends, whole or torn.
FileEnds ==
    /\ pc = "file"
    /\ pc' = "exit"
    /\ UNCHANGED <<opts, pages, page, check, walk, totals>>

\* Defect: a pointer before the page's second byte is followed.
BadPointerUnsigned == hops > max_recs \/ p > UNIV_PAGE_SIZE \/ p = p_prev

\* Defect: nothing bounds the length of a list.
BadPointerUnlimited == p < 2 \/ p > UNIV_PAGE_SIZE \/ p = p_prev

BadPointer == hops > max_recs \/ p < 2 \/ p > UNIV_PAGE_SIZE \/ p = p_prev

\* check_page returns 0, for every page when only deleted records are wanted.
\* Every byte behind data_start will be tried as an origin; the pointers read
\* so far are not read again.
CheckFails ==
    /\ pc = "check"
    /\ opts.deleted_records_only \/ (p # supremum(comp) /\ BadPointer)
    /\ is_page_valid' = FALSE
    /\ expected_records' = 0
    /\ offset' = data_start + record_extra_bytes(comp)
    /\ links' = << >>
    /\ p' = 0 /\ p_prev' = 0 /\ hops' = 0
    /\ pc' = "walk"
    /\ UNCHANGED <<opts, pages, header, recs, actual_records, found, totals>>

\* Defect: the pointers followed are not counted.
CheckFollowsUncounted ==
    /\ pc = "check"
    /\ ~ opts.deleted_records_only
    /\ p # supremum(comp)
    /\ ~ BadPointer
    /\ p_prev' = p
    /\ \E v \in Links : ReadsLink(p, v) /\ p' = NextPointer(p, v)
    /\ UNCHANGED <<hops, opts, pc, pages, header, recs, walk, totals>>

CheckFollows ==
    /\ pc = "check"
    /\ ~ opts.deleted_records_only
    /\ p # supremum(comp)
    /\ ~ BadPointer
    /\ p_prev' = p
    /\ \E v \in Links : ReadsLink(p, v) /\ p' = NextPointer(p, v)
    /\ hops' = hops + 1
    /\ UNCHANGED <<opts, pc, pages, header, recs, walk, totals>>

\* Defect: the infimum is counted too.
CountedAll == hops

Counted == hops - 1

\* check_page returns 1; the walk starts behind the infimum.
CheckPasses ==
    /\ pc = "check"
    /\ ~ opts.deleted_records_only
    /\ p = supremum(comp)
    /\ is_page_valid' = TRUE
    /\ expected_records' = Counted
    /\ \E v \in Links :
          ReadsLink(infimum(comp), v) /\ offset' = NextOffset(infimum(comp), v)
    /\ p' = 0 /\ p_prev' = 0 /\ hops' = 0
    /\ pc' = "walk"
    /\ UNCHANGED <<opts, pages, header, recs, actual_records, found, totals>>

\* The condition of process_ibpage's loop; offset is unsigned.
InsidePage ==
    /\ 0 <= offset /\ offset < UNIV_PAGE_SIZE - record_extra_bytes(comp)
    /\ is_page_valid => offset # supremum(comp)

\* Defect: only the first byte of a dumped record is left behind.
AdvanceByByte(q, rec) == q + 1

\* Defect: what could not be dumped is left behind whole.
AdvanceByRecord(q, rec) == q + (IF rec.is THEN rec.size ELSE 1)

\* The next origin in a bad page: behind the record or one byte further.
Advance(q, rec) == q + (IF check_for_a_record(q, rec) THEN rec.size ELSE 1)

\* One turn: a record is dumped or not, and the next origin is the next one of
\* the list or, in a bad page, the next one that may be one.
WalkStep ==
    /\ pc = "walk" /\ InsidePage
    /\ \E rec \in RecordType :
          /\ ReadsRecord(offset, rec)
          /\ IF check_for_a_record(offset, rec)
             THEN /\ actual_records' = actual_records + 1
                  /\ found' = found \cup {offset}
             ELSE UNCHANGED <<actual_records, found>>
          /\ IF is_page_valid
             THEN \E v \in Links : ReadsLink(offset, v) /\ offset' = NextOffset(offset, v)
             ELSE /\ offset' = Advance(offset, rec)
                  /\ UNCHANGED links
    /\ UNCHANGED <<opts, pc, pages, header, check, is_page_valid, expected_records, totals>>

lost_records == actual_records # expected_records /\ actual_records # header.n_recs

\* Defect: the last page decides.
LostLast == lost_records

LostSoFar == records_lost \/ lost_records

\* The end of the page: only leaf pages are counted. Nothing else of the page
\* is kept.
PageEnds ==
    /\ pc = "walk" /\ ~ InsidePage
    /\ IF header.leaf
       THEN /\ records_expected_total' = records_expected_total + header.n_recs
            /\ records_dumped_total' = records_dumped_total + actual_records
            /\ records_lost' = LostSoFar
            /\ sound' = (sound /\ is_page_valid /\ expected_records = header.n_recs)
       ELSE UNCHANGED totals
    /\ header' = NoHeader /\ links' = << >> /\ recs' = << >>
    /\ is_page_valid' = FALSE /\ expected_records' = 0
    /\ offset' = 0 /\ actual_records' = 0 /\ found' = {}
    /\ pc' = "file"
    /\ UNCHANGED <<opts, pages, check>>

Exited == pc = "exit" /\ UNCHANGED vars

Next == \/ SkipPage \/ StartPage \/ FileEnds
        \/ CheckFails \/ CheckFollows \/ CheckPasses
        \/ WalkStep \/ PageEnds \/ Exited

\* One process, which stops only when it has exited.
Spec == Init /\ [][Next]_vars /\ WF_vars(Next)
-----------------------------------------------------------------------------
(* Properties                                                              *)

\* Every variable has its type. The length of a list is bounded, however its
\* pointers go round, and no offset is negative (c_parser.c:502-557, 600-655).
TypeOK ==
    /\ opts \in OptionType
    /\ pc \in {"file", "check", "walk", "exit"}
    /\ pages \in 0 .. MaxPages
    /\ header = NoHeader \/ header \in Headers
    /\ p \in Int /\ p_prev \in Int /\ hops \in 0 .. max_recs + 1
    /\ is_page_valid \in BOOLEAN /\ expected_records \in 0 .. max_recs
    /\ offset \in Nat /\ actual_records \in Nat
    /\ found \subseteq DOMAIN recs
    /\ \A q \in DOMAIN recs : recs[q] \in RecordType
    /\ \A q \in DOMAIN links : links[q] \in Links
    /\ records_expected_total \in Nat /\ records_dumped_total \in Nat
    /\ records_lost \in BOOLEAN /\ sound \in BOOLEAN

\* A pointer is read only from inside the page, whatever the pointers of a
\* corrupted page are: check_page tests each before it follows it, and
\* process_ibpage, which follows them again without a test and with a wider
\* variable, only follows those (c_parser.c:519-553, 600-648).
PointersInPage == DOMAIN links \subseteq 2 .. UNIV_PAGE_SIZE

\* The walk through a list that check_page accepted visits no record twice,
\* and when it arrives at the supremum it has visited as many as were counted
\* (c_parser.c:518-554, 616-648).
WalkMatchesCheck ==
    pc = "walk" /\ is_page_valid =>
        /\ Cardinality(DOMAIN recs) <= expected_records
        /\ offset = supremum(comp) => Cardinality(DOMAIN recs) = expected_records
        /\ InsidePage => offset \notin DOMAIN recs

\* In a page whose list is bad no byte of a dumped record is part of another
\* dumped record (c_parser.c:638-651).
DumpedDisjoint ==
    pc = "walk" /\ ~ is_page_valid =>
        \A q \in found :
            /\ q + recs[q].size <= offset
            /\ \A r \in found : q < r => q + recs[q].size <= r

\* In a page whose list is bad every origin behind data_start has been tried,
\* except those inside the records dumped (c_parser.c:600-651).
EveryOriginTried ==
    pc = "walk" /\ ~ is_page_valid =>
        \A q \in data_start + record_extra_bytes(comp) .. offset - 1 :
            \/ q \in DOMAIN recs
            \/ \E r \in found : r < q /\ q < r + recs[r].size

\* The STATUS line says that records were lost exactly when it says that fewer
\* were dumped than expected, if all lists are intact and agree with the
\* page headers (c_parser.c:657-670, 975-976).
StatusAgrees ==
    sound => (records_lost <=> records_dumped_total < records_expected_total)

\* c_parser comes to the end of its input, whatever the pages hold: neither a
\* circular list nor a record of no size can hold it up
\* (c_parser.c:518-553, 616-655, 694-712).
Termination == <>(pc = "exit")
=============================================================================
