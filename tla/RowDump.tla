------------------------------- MODULE RowDump --------------------------------
(***************************************************************************)
(* What happens to a record that c_parser recognised: check_constraints    *)
(* compares its fields with the limits of the table definition,            *)
(* process_ibrec prints it as a line of the dump, and the LOAD DATA        *)
(* statement that main writes reads the line into the table again.         *)
(*                                                                         *)
(* The reader of the line is the MySQL server, which is not part of the    *)
(* repository: Read follows its rules for the options of the statement.    *)
(* A line is a sequence of bytes, in which the digits of a number, a date  *)
(* or a time are the one symbol Digits.                                    *)
(***************************************************************************)
EXTENDS FieldValues, FiniteSetsExt

CONSTANTS
    Rows,           \* sequences of fields
    TableNames,     \* as sequences of bytes
    Leftovers       \* bytes that the stack may hold where a DECIMAL is printed

Tab == 9
Newline == 10
Return == 13
Quote == 34
Backslash == 92
NullWord == <<78, 85, 76, 76>>
Digits == 256       \* what a number, a date or a time is printed as
ErrorWord == 257    \* error(type)

\* A field has a definition and, unless it is NULL, bytes in the record or, if
\* it is external, at the end of a chain of BLOB pages; `after' is what follows
\* them in the page. Of a damaged field only the bytes are known.
FieldOK(f) ==
    /\ f.def.type \in Numbers \cup Temporals \cup Texts \cup {"INTERNAL"}
    /\ f.null \in BOOLEAN /\ f.extern \in BOOLEAN /\ f.damaged \in BOOLEAN
    /\ f.extern => f.def.type \in Texts
    /\ ~ (f.null \/ f.damaged) => ValueOK(f.def, f.value) /\ f.bytes = Stored(f.def, f.value)
    /\ f.def.type # "FLOAT" => f.bytes \in Seq(Byte)
    /\ f.after \in Seq(Byte) /\ Len(f.after) >= 7

ASSUME RowAssumption ==
    /\ \A row \in Rows :
          row \in Seq(Range(row)) /\ row # << >> /\ \A k \in DOMAIN row : FieldOK(row[k])
    /\ TableNames \subseteq Seq(Byte) /\ Leftovers \subseteq Seq(Byte)

VARIABLES
    row, name, hex, process_56,     \* the record, the table's name, options -x and -6
    pc, i,          \* "check", "internal", "fields", "file", "loaded" or "refused"
    line,           \* what f_result has of the row
    loaded          \* the columns of the table after LOAD DATA

vars == <<row, name, hex, process_56, pc, i, line, loaded>>
-----------------------------------------------------------------------------
(* check_constraints                                                       *)

\* INT_MIN_VAL and the like: filters is a function on the clauses that the
\* column has, and any clause makes has_limits true.
Has(def, clause) == clause \in DOMAIN def.filters

has_limits(def) == DOMAIN def.filters # {}

\* A limit that is not stated is zero or FALSE, except for an integer: it is the
\* range of its type, but that of TINYINT begins with -127 and that of BIGINT
\* two numbers late.
Limit(def, clause, otherwise) == IF Has(def, clause) THEN def.filters[clause] ELSE otherwise

Late(length) == CASE length = 1 -> 1 [] length = 8 -> 2 [] OTHER -> 0

\* `least' and `most' say whether v is in the range of the type.
\* Defect: the highest value is refused.
IntWithinStrict(def, v, least, most) ==
    /\ IF Has(def, "INT_MIN_VAL") THEN v >= def.filters["INT_MIN_VAL"] ELSE least
    /\ IF Has(def, "INT_MAX_VAL") THEN v < def.filters["INT_MAX_VAL"] ELSE most

IntWithin(def, v, least, most) ==
    /\ IF Has(def, "INT_MIN_VAL") THEN v >= def.filters["INT_MIN_VAL"] ELSE least
    /\ IF Has(def, "INT_MAX_VAL") THEN v <= def.filters["INT_MAX_VAL"] ELSE most

Printable(b) == b \in 32 .. 126 \/ b \in {Newline, Tab, Return}

check_char(def, bytes) ==
    /\ Len(bytes) >= Limit(def, "CHAR_MIN_LEN", 0)
    /\ Len(bytes) <= Limit(def, "CHAR_MAX_LEN", 0)
    /\ Limit(def, "CHAR_ASCII_ONLY", FALSE) => \A k \in DOMAIN bytes : Printable(bytes[k])
    /\ Limit(def, "CHAR_DIGITS_ONLY", FALSE) => \A k \in DOMAIN bytes : bytes[k] \in 48 .. 57

\* A date of eight bytes: all zero, or the parts of its decimal digits in range.
check_datetime(bytes) ==
    LET parts == DecimalParts(bytes)
    IN  \/ Head(bytes) % 128 = 0 /\ \A k \in 2 .. 8 : bytes[k] = 0
        \/ /\ parts[1] \in 1950 .. 2050 /\ parts[2] <= 12 /\ parts[3] <= 31
           /\ parts[4] <= 23 /\ parts[5] <= 59 /\ parts[6] <= 59

\* The values of an ENUM are not counted, so none is allowed. The other types
\* are not checked.
check_field_limits(def, bytes, after) ==
    CASE def.type = "INT" ->
            LET v == get_int_value(bytes)
            IN  IntWithin(def, v, SignedFits(v - Late(def.length), def.length),
                          SignedFits(v, def.length))
      [] def.type = "UINT" ->
            LET v == get_uint_value(bytes)
            IN  IntWithin(def, v, v >= 0, UnsignedFits(v, def.length))
      [] def.type = "CHAR" -> check_char(def, bytes)
      [] def.type \in {"DATE", "DATETIME"} -> check_datetime(SubSeq(bytes \o after, 1, 8))
      [] def.type = "ENUM" -> FALSE
      [] OTHER -> TRUE

\* Defect: a NULL passes although it was filtered out.
AllowedAnyNull(f) ==
    has_limits(f.def) => IF f.null THEN TRUE ELSE check_field_limits(f.def, f.bytes, f.after)

Allowed(f) ==
    has_limits(f.def) =>
        IF f.null THEN Limit(f.def, "CAN_BE_NULL", FALSE)
                  ELSE check_field_limits(f.def, f.bytes, f.after)
-----------------------------------------------------------------------------
(* process_ibrec                                                           *)

HexDigit(n) == IF n < 10 THEN 48 + n ELSE 55 + n

print_hex(bytes) ==
    FlattenSeq([k \in DOMAIN bytes |-> <<HexDigit(bytes[k] \div 16), HexDigit(bytes[k] % 16)>>])

\* Defect: a backslash is printed as it is.
EscapeNoBackslash(b) ==
    CASE b \in {Quote, 37, 95} -> <<Backslash, b>>
      [] b = Newline -> <<Backslash, 110>>
      [] b = Return -> <<Backslash, 114>>
      [] b = Tab -> <<Backslash, 116>>
      [] b = 0 -> <<Backslash, 48>>
      [] b = 8 -> <<Backslash, 98>>
      [] b = 26 -> <<Backslash, 90>>
      [] OTHER -> <<b>>

\* The characters that print_string escapes: \ " % _ and control characters.
Escape(b) ==
    CASE b \in {Backslash, Quote, 37, 95} -> <<Backslash, b>>
      [] b = Newline -> <<Backslash, 110>>
      [] b = Return -> <<Backslash, 114>>
      [] b = Tab -> <<Backslash, 116>>
      [] b = 0 -> <<Backslash, 48>>
      [] b = 8 -> <<Backslash, 98>>
      [] b = 26 -> <<Backslash, 90>>
      [] OTHER -> <<b>>

Quoted(text) == <<Quote>> \o text \o <<Quote>>

\* (char_rstrip_spaces is never set: spaces at the end are printed.)
print_string(bytes) == Quoted(FlattenSeq([k \in DOMAIN bytes |-> Escape(bytes[k])]))

\* print_string_raw escapes three of them, and no backslash.
EscapeRaw(b) ==
    CASE b = Quote -> <<Backslash, Quote>>
      [] b = Newline -> <<Backslash, 110>>
      [] b = Return -> <<Backslash, 114>>
      [] OTHER -> <<b>>

print_string_raw(bytes) == FlattenSeq([k \in DOMAIN bytes |-> EscapeRaw(bytes[k])])

\* The elements of a sequence at the places of S.
Kept(s, S) ==
    LET upto[k \in 0 .. Len(s)] ==
            IF k = 0 THEN << >>
            ELSE IF k \in S THEN Append(upto[k - 1], s[k]) ELSE upto[k - 1]
    IN  upto[Len(s)]

strip_space(text) == Kept(text, {k \in DOMAIN text : text[k] # 32})

\* Of a bad number only the 0 before the point is written, and what the buffer
\* held before follows it.
print_decimal(def, bytes, leftover) ==
    IF Decimal(def.precision, def.digits, bytes) # BadNumber THEN Quoted(<<Digits>>)
    ELSE print_string(<<48>> \o (IF def.digits > 0 THEN strip_space(leftover) ELSE << >>))

print_field_value(f, leftover) ==
    CASE f.def.type \in {"INTERNAL", "BIN", "BLOB"} -> print_hex(f.bytes)
      [] f.def.type \in {"CHAR", "TEXT"} ->
            IF hex THEN print_hex(f.bytes) ELSE print_string(f.bytes)
      [] f.def.type = "DECIMAL" -> print_decimal(f.def, f.bytes, leftover)
      [] f.def.type \in Temporals -> Quoted(<<Digits>>)
      [] OTHER -> <<Digits>>

\* The quote before a TEXT depends on -x, the one behind it does not. A long
\* VARCHAR or VARBINARY may be external too, and is not printed.
print_field_value_with_external(f) ==
    CASE f.def.type = "TEXT" /\ ~ hex -> Quoted(print_string_raw(f.bytes))
      [] f.def.type = "TEXT" /\ hex -> Append(print_hex(f.bytes), Quote)
      [] f.def.type = "BLOB" -> print_hex(f.bytes)
      [] OTHER -> <<ErrorWord>>

FieldText(f, leftover) ==
    CASE f.null -> NullWord
      [] ~ f.null /\ f.extern -> print_field_value_with_external(f)
      [] OTHER -> print_field_value(f, leftover)

\* A tab follows every field but the last one of the definition.
Separator == IF i < Len(row) THEN <<Tab>> ELSE << >>

Internal(f) == f.def.type = "INTERNAL"
-----------------------------------------------------------------------------
(* The LOAD DATA statement: its column list has the fields that are not    *)
(* internal, in the order of the definition, and some are converted.       *)

Columns == Kept(row, {k \in DOMAIN row : ~ Internal(row[k])})

\* Defect: hexadecimal text of a CHAR or TEXT is stored as it is.
UnhexBinaryOnly(def) == def.type \in {"BIN", "BLOB"}

Unhexed(def) == def.type \in {"BIN", "BLOB"} \/ (hex /\ def.type \in {"CHAR", "TEXT"})

HexValue(c) == IF c \in 48 .. 57 THEN c - 48 ELSE c - 55

IsHex(text) ==
    Len(text) % 2 = 0 /\ \A k \in DOMAIN text : text[k] \in 48 .. 57 \cup 65 .. 70

\* UNHEX() gives NULL for anything but hexadecimal digits. CAST leaves digits
\* what they are.
Converted(def, field) ==
    CASE ~ Unhexed(def) -> field
      [] Unhexed(def) /\ ~ field.null /\ IsHex(field.text) ->
            [null |-> FALSE,
             text |-> [k \in 1 .. Len(field.text) \div 2 |->
                          16 * HexValue(field.text[2 * k - 1]) + HexValue(field.text[2 * k])]]
      [] OTHER -> [null |-> TRUE, text |-> << >>]

\* The server's reader: FIELDS TERMINATED BY '\t' OPTIONALLY ENCLOSED BY '"',
\* escapes with a backslash. Its state has the fields read and the text of the
\* one that is being read; \N sets found.
Reader == [mode |-> "start", fields |-> << >>, text |-> << >>, enclosed |-> FALSE, found |-> FALSE]

Unescape(c) ==
    CASE c = 48 -> 0 [] c = 98 -> 8 [] c = 110 -> Newline [] c = 114 -> Return
      [] c = 116 -> Tab [] c = 90 -> 26 [] OTHER -> c

FieldRead(r) ==
    LET null == (~ r.enclosed /\ r.text = NullWord) \/ (r.found /\ Len(r.text) = 1)
    IN  Append(r.fields, [null |-> null, text |-> IF null THEN << >> ELSE r.text])

EndField(r, mode) == [Reader EXCEPT !.mode = mode, !.fields = FieldRead(r)]

Take(r, mode, c) == [r EXCEPT !.mode = mode, !.text = Append(@, c)]

ReadByte(r, c) ==
    CASE r.mode = "end" -> r
      [] r.mode \in {"start", "plain", "quote"} /\ c = Tab -> EndField(r, "start")
      [] r.mode \in {"start", "plain", "quote"} /\ c = Newline -> EndField(r, "end")
      [] r.mode = "start" /\ c = Quote -> [r EXCEPT !.mode = "enclosed", !.enclosed = TRUE]
      [] r.mode \in {"start", "plain"} /\ c = Backslash -> [r EXCEPT !.mode = "escape"]
      [] \/ r.mode = "start" /\ c \notin {Tab, Newline, Quote, Backslash}
         \/ r.mode = "plain" /\ c \notin {Tab, Newline, Backslash} -> Take(r, "plain", c)
      [] r.mode = "enclosed" /\ c = Backslash -> [r EXCEPT !.mode = "enclosed escape"]
      [] r.mode = "enclosed" /\ c = Quote -> [r EXCEPT !.mode = "quote"]
      [] r.mode = "enclosed" /\ c \notin {Backslash, Quote} -> Take(r, "enclosed", c)
      \* a quote that ends nothing stands for itself
      [] r.mode = "quote" /\ c = Quote -> Take(r, "enclosed", Quote)
      [] r.mode = "quote" /\ c = Backslash -> Take(r, "enclosed escape", Quote)
      [] r.mode = "quote" /\ c \notin {Tab, Newline, Quote, Backslash} ->
            Take(Take(r, "enclosed", Quote), "enclosed", c)
      [] r.mode \in {"escape", "enclosed escape"} ->
            [Take(r, IF r.mode = "escape" THEN "plain" ELSE "enclosed", Unescape(c))
             EXCEPT !.found = @ \/ c = 78]

\* At the end of the file an open quote is text.
AtEnd(r) ==
    IF r.mode = "end" THEN r.fields
    ELSE FieldRead([r EXCEPT !.text = <<Quote>> \o @, !.enclosed = FALSE])

ReadFrom(r, text) ==
    LET after[k \in 0 .. Len(text)] == IF k = 0 THEN r ELSE ReadByte(after[k - 1], text[k])
    IN  after[Len(text)]

\* LINES STARTING BY: what comes before the first match is skipped.
Read(text, start) ==
    LET matches == {k \in 1 .. Len(text) - Len(start) + 1 :
                       SubSeq(text, k, k + Len(start) - 1) = start}
    IN  IF matches = {} THEN << >>
        ELSE AtEnd(ReadFrom(Reader, SubSeq(text, Min(matches) + Len(start), Len(text))))
-----------------------------------------------------------------------------
Init ==
    /\ row \in Rows /\ name \in TableNames
    /\ hex \in BOOLEAN /\ process_56 \in BOOLEAN
    /\ pc = "check" /\ i = 1
    /\ line = << >> /\ loaded = << >>

given == <<row, name, hex, process_56>>

Advance(next) == IF i < Len(row) THEN pc' = pc /\ i' = i + 1 ELSE pc' = next /\ i' = 1

CheckField ==
    /\ pc = "check" /\ Allowed(row[i])
    /\ Advance("internal")
    /\ UNCHANGED <<given, line, loaded>>

RefuseRow ==
    /\ pc = "check" /\ ~ Allowed(row[i])
    /\ pc' = "refused"
    /\ UNCHANGED <<given, i, line, loaded>>

\* The first loop prints the internal fields; the name of the table follows.
PrintInternal ==
    /\ pc = "internal"
    /\ line' = line \o (IF Internal(row[i]) THEN print_field_value(row[i], << >>) \o Separator
                                            ELSE << >>)
                    \o (IF i = Len(row) THEN name \o <<Tab>> ELSE << >>)
    /\ Advance("fields")
    /\ UNCHANGED <<given, loaded>>

\* The second loop prints the others, and ends the line.
PrintField ==
    /\ pc = "fields"
    /\ \E leftover \in Leftovers :
          line' = line \o (IF Internal(row[i]) THEN << >>
                           ELSE FieldText(row[i], leftover) \o Separator)
                       \o (IF i = Len(row) THEN <<Newline>> ELSE << >>)
    /\ Advance("file")
    /\ UNCHANGED <<given, loaded>>

\* The statement is executed. Columns for which the line has no field become
\* NULL; fields for which there is no column are ignored.
LoadData ==
    /\ pc = "file"
    /\ LET fields == Read(line, name \o <<Tab>>)
       IN  loaded' = [k \in DOMAIN Columns |->
                         IF k \in DOMAIN fields THEN Converted(Columns[k].def, fields[k])
                         ELSE [null |-> TRUE, text |-> << >>]]
    /\ pc' = "loaded"
    /\ UNCHANGED <<given, i, line>>

Next == CheckField \/ RefuseRow \/ PrintInternal \/ PrintField \/ LoadData

Spec == Init /\ [][Next]_vars
-----------------------------------------------------------------------------
\* The name of the table is the end of an internal value that a tab follows.
StartsTooEarly ==
    \E k \in 1 .. Len(row) - 1 : Internal(row[k]) /\ IsSuffix(name, print_hex(row[k].bytes))

\* A backslash that is printed as it is takes the quote behind it along; the
\* quote behind a TEXT of which nothing was found opens a field with -x.
Spills(f) ==
    /\ ~ f.null /\ f.extern /\ f.def.type = "TEXT"
    /\ IF hex THEN f.bytes = << >>
       ELSE \E k \in DOMAIN f.bytes :
               f.bytes[k] = Backslash /\ (k = Len(f.bytes) \/ f.bytes[k + 1] = Quote)

\* The lines of which the reader finds the columns. A name with a tab, which the
\* statement parser takes, could begin in one value and end in the next one.
Readable ==
    /\ ~ StartsTooEarly /\ \A k \in DOMAIN name : name[k] # Tab
    /\ \A k \in DOMAIN row : ~ Spills(row[k])

\* External values that are not printed as they are: long VARCHARs and
\* VARBINARYs, TEXT with -x, TEXT with a backslash without it.
LostExternal(f) ==
    /\ f.extern
    /\ \/ f.def.type \in {"CHAR", "BIN"}
       \/ f.def.type = "TEXT" /\ (hex \/ \E k \in DOMAIN f.bytes : f.bytes[k] = Backslash)

Restored(k) ==
    LET f == Columns[k]
    IN  CASE f.null -> loaded[k].null
          [] ~ f.null /\ f.def.type \in Texts -> loaded[k] = [null |-> FALSE, text |-> f.value]
          [] OTHER -> /\ loaded[k] = [null |-> FALSE, text |-> <<Digits>>]
                      /\ Decoded(f.def, f.bytes, f.after, process_56) = f.value

(***************************************************************************)
(* A value arrives in the table as the server had stored it, whatever its  *)
(* type, its place in the row and the options -x and -6, except exactly    *)
(* the values of Lossy and LostExternal: among them MEDIUMINTs beyond      *)
(* their 15 or 22 bits, SETs of more than eight members, times of an old   *)
(* table after the first minute of a day, the zero DATETIME of MySQL 5.6   *)
(* if something follows it in the page, TIMESTAMPs at which the clocks of  *)
(* c_parser and of the server's session differ or the latter repeats an    *)
(* hour, and external TEXT with a backslash (print_data.c:13-498 against   *)
(* the statement of c_parser.c:912-973, which sets no time zone).          *)
(***************************************************************************)
ValuesRestored ==
    pc = "loaded" /\ Readable =>
        \A k \in DOMAIN loaded :
            LET f == Columns[k]
            IN  f.damaged \/ (Restored(k) <=>
                    f.null \/ ~ (Lossy(f.def, f.value, f.after, process_56) \/ LostExternal(f)))

\* Whatever a field holds, a damaged DECIMAL included, its line has one field
\* for each column, in their order; a table with nothing but its key has an
\* empty one behind them (c_parser.c:149, 182). A table's name and an
\* unescaped backslash are the exceptions (see Readable).
OneFieldPerColumn ==
    pc \in {"file", "loaded"} /\ Readable =>
        Len(Read(line, name \o <<Tab>>)) =
            Len(Columns) + (IF Internal(row[Len(row)]) THEN 1 ELSE 0)

\* What the clauses of the column say of the value that the server stored.
Meets(f) ==
    LET Says(clause) == Has(f.def, clause)
        stated == f.def.filters
    IN  IF f.null THEN Says("CAN_BE_NULL") /\ stated["CAN_BE_NULL"]
        ELSE /\ f.def.type \in {"INT", "UINT"} =>
                  /\ Says("INT_MIN_VAL") => f.value[1] >= stated["INT_MIN_VAL"]
                  /\ Says("INT_MAX_VAL") => f.value[1] <= stated["INT_MAX_VAL"]
             /\ f.def.type = "CHAR" =>
                  /\ Says("CHAR_MIN_LEN") => Len(f.value) >= stated["CHAR_MIN_LEN"]
                  /\ Says("CHAR_MAX_LEN") => Len(f.value) <= stated["CHAR_MAX_LEN"]
                  /\ Says("CHAR_DIGITS_ONLY") /\ stated["CHAR_DIGITS_ONLY"] =>
                        \A k \in DOMAIN f.value : f.value[k] \in 48 .. 57

Filtered(f) == has_limits(f.def) /\ ~ f.damaged

Misread(f) == ~ f.null /\ f.def.type \in {"INT", "UINT"} /\ LossyNumber(f.def, f.value)

\* A row of which a value does not meet the clauses of its column is not
\* printed, unless the value is an integer that get_int_value or get_uint_value
\* misreads (c_parser.c:190-246, check_data.c:147-220).
PrintedWithinLimits ==
    pc \in {"internal", "fields", "file", "loaded"} =>
        \A k \in DOMAIN row : Filtered(row[k]) => Meets(row[k]) \/ Misread(row[k])

\* The clauses that are not there count too: without them a NULL is refused, a
\* CHAR must be empty, an ENUM is never good, and the least of the TINYINTs and the
\* two least of the BIGINTs are refused.
RefusedUnasked(f) ==
    IF f.null THEN ~ Has(f.def, "CAN_BE_NULL") ELSE
    CASE f.def.type = "CHAR" -> ~ Has(f.def, "CHAR_MAX_LEN") /\ f.value # << >>
      [] f.def.type = "INT" ->
            /\ ~ Has(f.def, "INT_MIN_VAL")
            /\ \/ f.def.length = 1 /\ f.value[1] = -128
               \/ f.def.length = 8 /\ ~ SignedFits(f.value[1] - 2, 8)
      [] f.def.type \in {"ENUM", "DATE"} -> TRUE
      [] f.def.type = "DATETIME" -> f.def.version56 \/ f.value[1] \notin 1950 .. 2050
      [] OTHER -> FALSE

\* A row that meets the clauses of its columns is refused only for the reasons
\* of RefusedUnasked, for a character that is not ASCII, or for a misread
\* integer. A DATE is compared with what follows it in the page
\* (check_data.c:205-207), so that nothing can be said of it.
RefusedWithReason ==
    pc = "refused" =>
        LET f == row[i]
        IN  \/ f.damaged \/ ~ Meets(f) \/ Misread(f) \/ RefusedUnasked(f)
            \/ Has(f.def, "CHAR_ASCII_ONLY")
=============================================================================
