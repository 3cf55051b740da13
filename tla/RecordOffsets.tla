---------------------------- MODULE RecordOffsets ---------------------------
(***************************************************************************)
(* check_for_a_record of c_parser.c: what stands at an origin is taken for *)
(* a record of the table when the lengths found in front of the origin     *)
(* (ibrec_init_offsets_new for COMPACT pages, ibrec_init_offsets_old for   *)
(* REDUNDANT ones) fit the table (check_fields_sizes).                     *)
(*                                                                         *)
(* There is a row of the table at the origin, written by the server, or    *)
(* anything else; the bytes of the latter are chosen as they are read,     *)
(* none being read twice.  An entry of offsets[] is a record: an end, and  *)
(* the flags that the code keeps in its bits 31 and 30.                    *)
(***************************************************************************)
EXTENDS Integers, Sequences, FiniteSets

CONSTANTS
    UNIV_PAGE_SIZE,
    Tables,    \* sequences of field definitions
    Origins,   \* offsets in the page of an origin
    Lengths,   \* lengths of variable-length values of rows
    Bytes      \* bytes of what is not a row

\* fixed_length is 0 for a variable length; lob is FT_BLOB or FT_TEXT.
\* min_length is 0 in every field: the statement's parser sets it for columns, and
\* finds it so, never having written to that memory, in the system columns.
FieldType == [can_be_null : BOOLEAN, fixed_length : Nat, max_length : Nat, lob : BOOLEAN]

ASSUME OffsetsAssumption ==
    /\ UNIV_PAGE_SIZE \in Nat /\ UNIV_PAGE_SIZE <= 65536
    /\ \A t \in Tables : t \in Seq(FieldType) /\ t # << >>
    /\ Origins \subseteq 0 .. UNIV_PAGE_SIZE - 1
    /\ Lengths \subseteq Nat
    /\ Bytes \subseteq 0 .. 255

VARIABLES
    table, comp, origin,
    row,        \* the row at the origin, or NoRow
    phase,      \* "origin", "offsets", "size", "fields", "yes", "no"
    field,      \* the fields done in this phase
    offsets     \* the entries of offsets[] behind the first

vars == <<table, comp, origin, row, phase, field, offsets>>
-----------------------------------------------------------------------------
(* init_table_defs                                                         *)

\* The sum of a sequence of numbers.
Total(s) ==
    LET upto[k \in 0 .. Len(s)] == IF k = 0 THEN 0 ELSE upto[k - 1] + s[k]
    IN  upto[Len(s)]

n_nullable(t) == Cardinality({k \in DOMAIN t : t[k].can_be_null})

data_max_size(t) == Total([k \in DOMAIN t |-> t[k].max_length + t[k].fixed_length])

data_min_size(t) ==
    Total([k \in DOMAIN t |-> IF t[k].can_be_null THEN 0 ELSE t[k].fixed_length])

LengthBytes(x) ==
    IF x.can_be_null THEN 0
    ELSE IF (IF x.fixed_length # 0 THEN x.fixed_length ELSE x.max_length) > 255 THEN 2
    ELSE 1

NullBytes(t) == (n_nullable(t) + 7) \div 8

min_rec_header_len(t) == Total([k \in DOMAIN t |-> LengthBytes(t[k])]) + NullBytes(t)

record_extra_bytes == IF comp THEN 5 ELSE 6
-----------------------------------------------------------------------------
(* What the server writes                                                  *)

NoRow == << >>

\* A long column may be stored outside the page, with 20 bytes left in it.
IsLong(x) == x.max_length > 255 \/ x.lob

Values(x) ==
    {v \in [null : BOOLEAN, ext : BOOLEAN, len : Lengths \cup {0, x.fixed_length}] :
        \/ /\ v.null /\ x.can_be_null /\ ~ v.ext
           /\ v.len = IF comp THEN 0 ELSE x.fixed_length
        \/ ~ v.null /\ x.fixed_length # 0 /\ ~ v.ext /\ v.len = x.fixed_length
        \/ /\ ~ v.null /\ x.fixed_length = 0
           /\ v.len \in Lengths /\ v.len <= x.max_length
           /\ v.ext => IsLong(x) /\ v.len >= 20}

\* The one or two bytes of the length of a value in a COMPACT record.
Written(x, value) ==
    IF IsLong(x) /\ (value.len > 127 \/ value.ext)
    THEN <<128 + (IF value.ext THEN 64 ELSE 0) + value.len \div 256, value.len % 256>>
    ELSE <<value.len, 0>>

\* The bytes in front of the origin, at least, and where the first of them may be.
HeaderBytes(t, r) ==
    IF comp THEN 5 + NullBytes(t)
                 + Cardinality({k \in DOMAIN t : t[k].fixed_length = 0 /\ ~ r[k].null})
            ELSE 6 + Len(t)

SupremumEnd == IF comp THEN 120 ELSE 125

REC_MAX_DATA_SIZE == 16384   \* an end has 14 bits

DataSize(r) == Total([k \in DOMAIN r |-> r[k].len])

Rows(t, at) ==
    {r \in [DOMAIN t -> UNION {Values(t[k]) : k \in DOMAIN t}] :
        /\ \A k \in DOMAIN t : r[k] \in Values(t[k])
        /\ SupremumEnd + HeaderBytes(t, r) <= at
        /\ DataSize(r) < REC_MAX_DATA_SIZE /\ at + DataSize(r) <= UNIV_PAGE_SIZE}
-----------------------------------------------------------------------------
(* Reading the header of what stands at the origin                         *)

f == table[field + 1]

PrevEnd == IF field = 0 THEN 0 ELSE offsets[field].end

\* The bit of a field that can be NULL.
NullBits == IF row # NoRow THEN {row[field + 1].null} ELSE BOOLEAN

\* The bytes in front of the lengths read so far.
LengthReads == IF row # NoRow THEN {Written(f, row[field + 1])} ELSE Bytes \X Bytes

\* A length that takes both bytes: a bit that says so, a flag for an external
\* value, and 14 bits of the length.
IsTwoBytes(b) == IsLong(f) /\ b[1] >= 128

\* Defect: the flag is taken for a bit of the length.
LengthReadUnmasked(b) == IF IsTwoBytes(b) THEN (b[1] % 128) * 256 + b[2] ELSE b[1]

LengthRead(b) == IF IsTwoBytes(b) THEN (b[1] % 64) * 256 + b[2] ELSE b[1]

ExternalRead(b) == IsTwoBytes(b) /\ (b[1] \div 64) % 2 = 1

\* The end of a field in a REDUNDANT record, of 7 or 14 bits. The flags of NULL
\* and external values are read, but masked away before they are stored.
EndReads ==
    IF row # NoRow THEN {PrevEnd + row[field + 1].len}
    ELSE {b % 128 : b \in Bytes} \cup {(b[1] % 64) * 256 + b[2] : b \in Bytes \X Bytes}

\* Defect: the origin is forgotten.
InPageOfRecord(end) == end <= UNIV_PAGE_SIZE

InPage(end) == origin + end <= UNIV_PAGE_SIZE

Store(entry) ==
    IF InPage(entry.end)
    THEN /\ offsets' = Append(offsets, entry)
         /\ field' = field + 1
         /\ UNCHANGED phase
    ELSE phase' = "no" /\ UNCHANGED <<offsets, field>>
-----------------------------------------------------------------------------
Init ==
    /\ table \in Tables /\ comp \in BOOLEAN /\ origin \in Origins
    /\ row \in {NoRow} \cup Rows(table, origin)
    /\ phase = "origin" /\ field = 0 /\ offsets = << >>

\* The origin leaves room for a header; in a COMPACT page only an ordinary
\* record, which a row is, goes on.
CheckOrigin ==
    /\ phase = "origin"
    /\ IF origin < record_extra_bytes + min_rec_header_len(table)
       THEN phase' = "no"
       ELSE phase' \in {"offsets"} \cup (IF comp /\ row = NoRow THEN {"no"} ELSE {})
    /\ UNCHANGED <<table, comp, origin, row, field, offsets>>

\* A turn of ibrec_init_offsets_new's loop.
ReadNew ==
    /\ phase = "offsets" /\ comp /\ field < Len(table)
    /\ \/ /\ f.can_be_null /\ TRUE \in NullBits
          /\ Store([end |-> PrevEnd, null |-> TRUE, ext |-> FALSE])
       \/ /\ f.can_be_null => FALSE \in NullBits
          /\ IF f.fixed_length # 0
             THEN Store([end |-> PrevEnd + f.fixed_length, null |-> FALSE, ext |-> FALSE])
             ELSE \E b \in LengthReads :
                    Store([end |-> PrevEnd + LengthRead(b), null |-> FALSE,
                           ext |-> ExternalRead(b)])
    /\ UNCHANGED <<table, comp, origin, row>>

\* A turn of a loop of ibrec_init_offsets_old.
ReadOld ==
    /\ phase = "offsets" /\ ~ comp /\ field < Len(table)
    /\ \E end \in EndReads : Store([end |-> end, null |-> FALSE, ext |-> FALSE])
    /\ UNCHANGED <<table, comp, origin, row>>

OffsetsRead ==
    /\ phase = "offsets" /\ field = Len(table)
    /\ phase' = "size" /\ field' = 0
    /\ UNCHANGED <<table, comp, origin, row, offsets>>

CheckDataSize ==
    /\ phase = "size"
    /\ LET size == offsets[Len(table)].end
       IN  phase' = IF data_min_size(table) <= size /\ size <= data_max_size(table)
                    THEN "fields" ELSE "no"
    /\ UNCHANGED <<table, comp, origin, row, field, offsets>>

REC_OFFS_EXTERNAL == 1073741824   \* 2^30

\* rec_offs_nth_size: a difference of ends, modulo 2^30. It is no size of a
\* NULL value, which ends where it starts.
nth_size(k) ==
    LET start == IF k = 1 THEN 0 ELSE offsets[k - 1].end
    IN  (offsets[k].end - start) % REC_OFFS_EXTERNAL

\* Defect: a field may be as long as its table's longest.
SizeOKAnyField(k) ==
    LET size == nth_size(k)
    IN  IF table[k].fixed_length # 0
        THEN size = table[k].fixed_length \/ (size = 0 /\ table[k].can_be_null)
        ELSE IF offsets[k].ext THEN table[k].lob
        ELSE size <= data_max_size(table)

SizeOK(k) ==
    LET size == nth_size(k)
    IN  IF table[k].fixed_length # 0
        THEN size = table[k].fixed_length \/ (size = 0 /\ table[k].can_be_null)
        ELSE IF offsets[k].ext THEN table[k].lob
        ELSE size <= table[k].max_length

\* A turn of check_fields_sizes's loop.
CheckField ==
    /\ phase = "fields" /\ field < Len(table)
    /\ IF SizeOK(field + 1) THEN field' = field + 1 /\ UNCHANGED phase
       ELSE phase' = "no" /\ UNCHANGED field
    /\ UNCHANGED <<table, comp, origin, row, offsets>>

Accept ==
    /\ phase = "fields" /\ field = Len(table)
    /\ phase' = "yes"
    /\ UNCHANGED <<table, comp, origin, row, field, offsets>>

Done == phase \in {"yes", "no"} /\ UNCHANGED vars

Next == \/ CheckOrigin \/ ReadNew \/ ReadOld \/ OffsetsRead
        \/ CheckDataSize \/ CheckField \/ Accept \/ Done

Spec == Init /\ [][Next]_vars
-----------------------------------------------------------------------------
(* Properties                                                              *)

ValueType == [null : BOOLEAN, ext : BOOLEAN, len : Nat]
EntryType == [end : Nat, null : BOOLEAN, ext : BOOLEAN]

\* Every variable has its type, and no entry is stored that ends behind the
\* page (c_parser.c:384-390, 415, 439): print_field_value reads up to it.
TypeOK ==
    /\ table \in Tables /\ comp \in BOOLEAN /\ origin \in Origins
    /\ phase \in {"origin", "offsets", "size", "fields", "yes", "no"}
    /\ field \in 0 .. Len(table)
    /\ row # NoRow => \A k \in DOMAIN table : row[k] \in ValueType
    /\ \A k \in DOMAIN offsets :
          offsets[k] \in EntryType /\ origin + offsets[k].end <= UNIV_PAGE_SIZE

Size(k) == offsets[k].end - (IF k = 1 THEN 0 ELSE offsets[k - 1].end)

HasRoom == ~ (origin < record_extra_bytes + min_rec_header_len(table))

\* A long column that is not a BLOB or TEXT and is stored outside the page.
ExternalVarchar(k) == row[k].ext /\ ~ table[k].lob

\* A row of a COMPACT page is recognised with all its values, NULLs and external
\* parts where the server put them, unless it has an external VARCHAR; a row of
\* a REDUNDANT page is recognised with the places of its values
\* (c_parser.c:311-394, 397-455, 249-308).
RowRecognised ==
    row # NoRow /\ HasRoom =>
        /\ phase = "no" => comp /\ \E k \in DOMAIN row : ExternalVarchar(k)
        /\ phase = "yes" => \A k \in DOMAIN row :
              /\ Size(k) = row[k].len
              /\ comp => offsets[k].null = row[k].null /\ offsets[k].ext = row[k].ext

\* The value of a field is behind the one before, and its length is legal.
Fits(k) ==
    /\ Size(k) >= 0
    /\ table[k].fixed_length # 0 =>
          Size(k) = table[k].fixed_length \/ (Size(k) = 0 /\ table[k].can_be_null)
    /\ table[k].fixed_length = 0 /\ ~ offsets[k].ext => Size(k) <= table[k].max_length
    /\ table[k].fixed_length = 0 /\ offsets[k].ext => table[k].lob

\* A LONGTEXT or LONGBLOB may be longer than any size modulo 2^30.
Unlimited(k) == table[k].max_length + table[k].fixed_length >= REC_OFFS_EXTERNAL - UNIV_PAGE_SIZE

\* Whatever the bytes in front of the origin are, what is taken for a record has
\* a value of a legal length in every field that is not a LONGTEXT or LONGBLOB,
\* one behind the other (check_fields_sizes, c_parser.c:249-308).
AcceptedFits ==
    phase = "yes" => \A k \in DOMAIN table : Unlimited(k) \/ Fits(k)

\* The claim of REC_OFFS_SQL_NULL and REC_OFFS_EXTERNAL (include/rem0rec.ic:15-18):
\* they flag, in offsets[], the NULL and the external values.
FlagsKept ==
    phase = "yes" /\ row # NoRow =>
        \A k \in DOMAIN row :
            offsets[k].null = row[k].null /\ offsets[k].ext = row[k].ext
=============================================================================
