------------------------------ MODULE TableDef -------------------------------
(***************************************************************************)
(* sql_parser.y: turn a CREATE TABLE statement into the list of fields by  *)
(* which c_parser reads records.  Columns and keys come in the order of    *)
(* the statement; the semantic actions of the grammar collect them in      *)
(* global arrays, and the action at the end of the statement lays the      *)
(* fields out as a clustered index: key, DB_TRX_ID, DB_ROLL_PTR, the rest. *)
(*                                                                         *)
(* A statement is what SHOW CREATE TABLE may print, without names that     *)
(* clash: a column has a type, a length, a character set and perhaps a key *)
(* clause; indexes that are neither PRIMARY nor UNIQUE change nothing.     *)
(***************************************************************************)
EXTENDS Integers, Sequences, SequencesExt, FiniteSets

CONSTANTS
    Names,        \* of columns
    ColumnTypes,  \* declarations of a column
    Charsets,     \* of the table: "utf8", "utf8mb4" or another one
    MaxKeys,      \* bound on the keys declared
    MaxColumns,   \* bound on the columns declared
    uint_range,   \* 2^32, the number of values of max_length
    process_56    \* option -6

NoLength == -1
NoCharset == "none"

\* Bytes of the types that have no other length.
FixedBytes == [TINYINT |-> 1, SMALLINT |-> 2, MEDIUMINT |-> 3, INT |-> 4,
               INTEGER |-> 4, BIGINT |-> 8, REAL |-> 4, FLOAT |-> 4,
               DOUBLE |-> 8, DATE |-> 3, YEAR |-> 1]

\* Lengths, in bytes, up to which the BLOB and TEXT types go.
LobBytes == [TINYBLOB |-> 255, BLOB |-> 65535, MEDIUMBLOB |-> 16777215,
             LONGBLOB |-> uint_range - 1, TINYTEXT |-> 255, TEXT |-> 65535,
             MEDIUMTEXT |-> 16777215, LONGTEXT |-> uint_range - 1]

OtherTypes == {"BIT", "DECIMAL", "NUMERIC", "TIME", "TIMESTAMP", "DATETIME", "CHAR",
               "VARCHAR", "BINARY", "VARBINARY", "ENUM", "SET"}

DeclarationType ==
    [sql : DOMAIN FixedBytes \cup DOMAIN LobBytes \cup OtherTypes,
     length : Nat \cup {NoLength}, decimals : Nat, n_values : Nat,
     charset : STRING, not_null : BOOLEAN,
     key : {"none", "primary", "unique"}]   \* the column's own key clause

ASSUME TableAssumption ==
    /\ ColumnTypes \subseteq DeclarationType
    /\ \A d \in ColumnTypes : d.sql \in {"DECIMAL", "NUMERIC"} => d.decimals <= d.length
    /\ \A d \in ColumnTypes : d.sql \in {"VARCHAR", "VARBINARY"} => d.length # NoLength
    /\ Names \cap {"DB_ROW_ID", "DB_TRX_ID", "DB_ROLL_PTR"} = {}
    /\ MaxColumns \in Nat /\ MaxKeys \in Nat
    /\ uint_range \in Nat /\ uint_range > 16777215 * 4
    /\ process_56 \in BOOLEAN

VARIABLES
    phase,          \* "columns" or "done"
    all_fields,     \* in the order of declaration; a field has a name and sizes
    pk_fields, uq_fields,   \* names of columns
    has_primary_key, has_unique_key, met_unique_index,
    fields,         \* table_definitions[0].fields
    columns, keys   \* history: the declarations; the keys, as sets of options

vars == <<phase, all_fields, pk_fields, uq_fields, has_primary_key, has_unique_key,
          met_unique_index, fields, columns, keys>>
-----------------------------------------------------------------------------
(* data_type                                                               *)

CeilDiv(n, k) == (n + k - 1) \div k

\* Defect: the digits on both sides of the point are packed together.
DecimalBytesPacked(precision, digits) == CeilDiv(precision * 4, 9)

\* ceil((float)(length - decimals) * 4 / 9) + ceil((float) decimals * 4 / 9)
DecimalBytes(precision, digits) ==
    CeilDiv((precision - digits) * 4, 9) + CeilDiv(digits * 4, 9)

LengthOrOne(d) == IF d.length = NoLength THEN 1 ELSE d.length

\* Bytes behind the fixed part of a temporal type with a precision.
FractionBytes(d) == IF d.length = NoLength THEN 0 ELSE CeilDiv(d.length, 2)

SetBytes(n) == IF CeilDiv(n, 8) > 4 THEN 8 ELSE CeilDiv(n, 8)

TypeFixedLength(d) ==
    CASE d.sql \in DOMAIN FixedBytes -> FixedBytes[d.sql]
      [] d.sql = "BIT" -> CeilDiv(LengthOrOne(d), 8)
      [] d.sql \in {"DECIMAL", "NUMERIC"} -> DecimalBytes(d.length, d.decimals)
      [] d.sql = "TIME" -> 3 + FractionBytes(d)
      [] d.sql = "TIMESTAMP" -> 4 + FractionBytes(d)
      [] d.sql = "DATETIME" -> IF d.length # NoLength THEN 5 + FractionBytes(d)
                               ELSE IF process_56 THEN 5 ELSE 8
      [] d.sql = "CHAR" -> LengthOrOne(d)
      [] d.sql = "BINARY" -> IF d.length = NoLength THEN 0 ELSE d.length
      [] d.sql = "ENUM" -> IF d.n_values > 255 THEN 2 ELSE 1
      [] d.sql = "SET" -> SetBytes(d.n_values)
      [] OTHER -> 0

TypeMaxLength(d) ==
    CASE d.sql \in {"VARCHAR", "VARBINARY"} -> d.length
      [] d.sql \in DOMAIN LobBytes -> LobBytes[d.sql]
      [] OTHER -> 0

IsChar(d) == d.sql \in {"CHAR", "VARCHAR"}   \* FT_CHAR

Factor(charset) ==
    CASE charset = "utf8" -> 3
      [] charset = "utf8mb4" -> 4
      [] OTHER -> 1

\* What all_fields has of a column when its declaration ends: the factor of its
\* own character set is applied at once.
Declared(name, d) ==
    [name |-> name, char |-> IsChar(d), can_be_null |-> ~ d.not_null,
     fixed_length |-> TypeFixedLength(d) * Factor(d.charset),
     max_length |-> (TypeMaxLength(d) * Factor(d.charset)) % uint_range]

System(name, size) ==
    [name |-> name, char |-> FALSE, can_be_null |-> FALSE,
     fixed_length |-> size, max_length |-> 0]
-----------------------------------------------------------------------------
Init ==
    /\ phase = "columns"
    /\ all_fields = << >> /\ pk_fields = << >> /\ uq_fields = << >>
    /\ has_primary_key = FALSE /\ has_unique_key = FALSE /\ met_unique_index = FALSE
    /\ fields = << >>
    /\ columns = << >> /\ keys = << >>

NamesOf(s) == {s[i].name : i \in DOMAIN s}

\* create_definition with a column. Its own UNIQUE is remembered unless a
\* UNIQUE key came before.
DefineColumn(name, d) ==
    /\ phase = "columns" /\ Len(all_fields) < MaxColumns
    /\ name \notin NamesOf(all_fields)
    /\ d.key = "primary" => ~ has_primary_key
    /\ all_fields' = Append(all_fields, Declared(name, d))
    /\ has_primary_key' = (has_primary_key \/ d.key = "primary")
    /\ pk_fields' = pk_fields \o (IF d.key = "primary" THEN <<name>> ELSE << >>)
    /\ has_unique_key' = (has_unique_key \/ d.key = "unique")
    /\ uq_fields' = uq_fields \o
          (IF d.key = "unique" /\ ~ met_unique_index THEN <<name>> ELSE << >>)
    /\ columns' = Append(columns, [name |-> name, decl |-> d])
    /\ keys' = keys \o (IF d.key = "none" THEN << >>
                        ELSE <<[kind |-> d.key, cols |-> <<name>>, inline |-> TRUE]>>)
    /\ UNCHANGED <<phase, met_unique_index, fields>>

\* create_definition with PRIMARY KEY (...).
DefinePrimary(cols) ==
    /\ phase = "columns" /\ ~ has_primary_key /\ Len(keys) < MaxKeys
    /\ has_primary_key' = TRUE
    /\ pk_fields' = pk_fields \o cols
    /\ keys' = Append(keys, [kind |-> "primary", cols |-> cols, inline |-> FALSE])
    /\ UNCHANGED <<phase, all_fields, uq_fields, has_unique_key, met_unique_index,
                   fields, columns>>

\* Defect: the columns of every UNIQUE key are collected.
CollectedAlways(cols) == cols

Collected(cols) == IF met_unique_index THEN << >> ELSE cols

\* create_definition with UNIQUE KEY (...): only the first one is collected.
DefineUnique(cols) ==
    /\ phase = "columns" /\ Len(keys) < MaxKeys
    /\ has_unique_key' = TRUE
    /\ uq_fields' = uq_fields \o Collected(cols)
    /\ met_unique_index' = TRUE
    /\ keys' = Append(keys, [kind |-> "unique", cols |-> cols, inline |-> FALSE])
    /\ UNCHANGED <<phase, all_fields, pk_fields, has_primary_key, fields, columns>>

\* The factor of the table's character set, for the character columns. (No
\* column's character set is ever stored: charset == NULL holds for all.)
Adjusted(x, charset) ==
    IF ~ x.char THEN x
    ELSE IF x.fixed_length # 0 /\ Factor(charset) > 1
    THEN [x EXCEPT !.max_length = x.fixed_length * Factor(charset), !.fixed_length = 0]
    ELSE [x EXCEPT !.max_length = (x.max_length * Factor(charset)) % uint_range]

\* find_field
Find(s, name) == s[CHOOSE i \in DOMAIN s : s[i].name = name]

KeyNames == IF has_primary_key THEN pk_fields ELSE uq_fields

\* The positions of S in ascending order, and the members of s at these positions.
Ascending(S) ==
    CHOOSE p \in [1 .. Cardinality(S) -> S] : \A i, j \in DOMAIN p : i < j => p[i] < p[j]
Selected(s, S) == [i \in 1 .. Cardinality(S) |-> s[Ascending(S)[i]]]

\* Defect: the columns of the key are laid out twice.
RestAll(s, laid) == s

\* The columns that have not been laid out.
Rest(s, laid) == Selected(s, {i \in DOMAIN s : s[i].name \notin NamesOf(laid)})

\* The action at the end of create_table.
EndTable(charset) ==
    /\ phase = "columns" /\ all_fields # << >>
    /\ \A i \in DOMAIN keys : ToSet(keys[i].cols) \subseteq NamesOf(all_fields)
    /\ LET adjusted == [i \in DOMAIN all_fields |-> Adjusted(all_fields[i], charset)]
           key == IF has_primary_key \/ has_unique_key
                  THEN [i \in DOMAIN KeyNames |-> Find(adjusted, KeyNames[i])]
                  ELSE <<System("DB_ROW_ID", 6)>>
           laid == key \o <<System("DB_TRX_ID", 6), System("DB_ROLL_PTR", 7)>>
       IN  /\ all_fields' = adjusted
           /\ fields' = laid \o Rest(adjusted, laid)
    /\ phase' = "done"
    /\ UNCHANGED <<pk_fields, uq_fields, has_primary_key, has_unique_key,
                   met_unique_index, columns, keys>>

\* The columns of a key: one or two names.
KeyLists == {<<n>> : n \in Names} \cup {<<m, n>> : m \in Names, n \in Names}

Done == phase = "done" /\ UNCHANGED vars

Next == \/ \E name \in Names, d \in ColumnTypes : DefineColumn(name, d)
        \/ \E cols \in KeyLists : IsInjective(cols) /\ DefinePrimary(cols)
        \/ \E cols \in KeyLists : IsInjective(cols) /\ DefineUnique(cols)
        \/ \E charset \in Charsets : EndTable(charset)
        \/ Done

Spec == Init /\ [][Next]_vars
-----------------------------------------------------------------------------
(* Properties                                                              *)

InlineUnique == \E i \in DOMAIN keys : keys[i].inline /\ keys[i].kind = "unique"

(***************************************************************************)
(* Every column of the statement is laid out exactly once, with the sizes  *)
(* it has got at the end of the statement, also when it belongs to the key *)
(* and the key was declared before the column's or the table's character   *)
(* set was known (sql_parser.y:142-198).  A table without a primary key    *)
(* that has columns with a UNIQUE clause of their own is excepted: such a  *)
(* column may also belong to the first UNIQUE key, and comes twice.        *)
(***************************************************************************)
EveryColumnOnce ==
    phase = "done" /\ (has_primary_key \/ ~ InlineUnique) =>
        /\ \A i \in DOMAIN all_fields :
              Cardinality({j \in DOMAIN fields : fields[j] = all_fields[i]}) = 1
        /\ Len(fields) = Len(all_fields) + (IF has_primary_key \/ has_unique_key THEN 2 ELSE 3)

NotNull(name) == \E i \in DOMAIN columns : columns[i].name = name /\ columns[i].decl.not_null

First(S) == CHOOSE i \in S : \A j \in S : i <= j

\* The key that the server clusters a table by (external): the primary key, the
\* first UNIQUE key without a column that may be NULL, or a row number.
ServerKey ==
    LET primary == {i \in DOMAIN keys : keys[i].kind = "primary"}
        unique == {i \in DOMAIN keys : /\ keys[i].kind = "unique"
                                       /\ \A n \in ToSet(keys[i].cols) : NotNull(n)}
    IN  IF primary # {} THEN keys[First(primary)].cols
        ELSE IF unique # {} THEN keys[First(unique)].cols
        ELSE <<"DB_ROW_ID">>

ServerLayout ==
    LET key == ServerKey \o <<"DB_TRX_ID", "DB_ROLL_PTR">>
        names == [i \in DOMAIN columns |-> columns[i].name]
    IN  key \o Selected(names, {i \in DOMAIN names : names[i] \notin ToSet(key)})

(***************************************************************************)
(* The fields are in the order in which the server stores them, whatever   *)
(* the order of columns and keys in the statement, if the table has a      *)
(* primary key, or no UNIQUE key that may hold a NULL and no column with a *)
(* UNIQUE clause of its own (sql_parser.y:142-198, 254-266, 335-355).      *)
(***************************************************************************)
LaidOutAsStored ==
    phase = "done" /\ (has_primary_key
                       \/ (~ InlineUnique /\ \A i \in DOMAIN keys :
                              \A n \in ToSet(keys[i].cols) : NotNull(n))) =>
        [i \in DOMAIN fields |-> fields[i].name] = ServerLayout

\* decimal_bin_size of include/decimal.c: groups of nine digits take four bytes,
\* what is left of them on either side of the point fewer.
dig2bytes == <<1, 1, 2, 2, 3, 3, 4, 4>>

GroupBytes(digits) ==
    (digits \div 9) * 4 + (IF digits % 9 = 0 THEN 0 ELSE dig2bytes[digits % 9])

decimal_bin_size(precision, scale) == GroupBytes(precision - scale) + GroupBytes(scale)

(***************************************************************************)
(* The length that the statement's parser gives a DECIMAL is the number of *)
(* bytes that bin2decimal reads when the value is printed, for every       *)
(* precision and scale that the server allows: the fields behind a DECIMAL *)
(* are found where they are (sql_parser.y:461-468, print_data.c:330,       *)
(* include/decimal.c:1322-1335).  Nothing that was declared before matters,*)
(* so this is stated where a statement begins.                             *)
(***************************************************************************)
DecimalLengthsAgree ==
    columns = << >> => \A precision \in 1 .. 65 : \A scale \in 0 .. 30 :
        scale <= precision =>
            DecimalBytes(precision, scale) = decimal_bin_size(precision, scale)

(***************************************************************************)
(* The comment "If charset isn't set explicitely apply table-wide factor"  *)
(* (sql_parser.y:132): the table's character set changes no column that    *)
(* has a character set of its own.                                         *)
(***************************************************************************)
ExplicitCharsetKept ==
    phase = "done" => \A i \in DOMAIN columns :
        columns[i].decl.charset # NoCharset =>
            all_fields[i] = Declared(columns[i].name, columns[i].decl)
=============================================================================
