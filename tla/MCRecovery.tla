------------------------------ MODULE MCRecovery ------------------------------
(***************************************************************************)
(* A table that was created, dropped and created again.  Its first version *)
(* has left deleted rows, live rows on old copies of pages, or nothing.    *)
(***************************************************************************)
EXTENDS Recovery

Row(table, id, val) == [table |-> table, key |-> id, val |-> val, deleted |-> FALSE]
Gone(row) == [row EXCEPT !.deleted = TRUE]

TableRow(id) == Row("SYS_TABLES", <<1>>, <<id>>)
ColumnRow(id, p, val) == Row("SYS_COLUMNS", <<id, p>>, val)
IndexRow(id, index, type) == Row("SYS_INDEXES", <<id, index>>, <<type>>)
FieldRow(index, p, column) == Row("SYS_FIELDS", <<index, p>>, <<column>>)

\* The first version: one DECIMAL column, which is its key.
Columns1(size) == <<ColumnRow(1, 0, <<11, Decimal, 0, size>>)>>
Rows1 == <<IndexRow(1, 1, 3), FieldRow(1, 0, 11)>>

\* The second one: columns with another collation or none, two indexes.
Columns2(collation) ==
    <<ColumnRow(2, 1, <<22, Char, 8, 10>>), ColumnRow(2, 0, <<21, Char, collation, 30>>)>>
Index2 == <<IndexRow(2, 2, 3)>>
Rows2 == <<IndexRow(2, 3, 0), FieldRow(2, 0, 21), FieldRow(3, 0, 22)>>

\* Copies of a row of SYS_TABLES; columns and collations; what may be missing.
MCImages ==
    {names \o Columns1(9) \o Rows1 : names \in {<<Gone(TableRow(1)), TableRow(2)>>,
         <<TableRow(2), Gone(TableRow(1))>>, <<TableRow(1), TableRow(2)>>,
         <<Gone(TableRow(2)), Gone(TableRow(1))>>}} \cup
    {<<TableRow(2)>> \o Columns2(c) \o Index2 \o Rows2 : c \in {0, 33}} \cup
    {<<TableRow(2)>> \o Columns2(c) \o Rows2 : c \in {200, 264}} \cup
    {<<TableRow(2)>> \o Columns1(8) \o Index2 \o <<FieldRow(2, 0, 21)>>,
     <<Row("SYS_TABLES", <<2>>, <<1>>)>> \o Columns1(8) \o Rows1,
     <<TableRow(1)>> \o Columns1(8) \o Rows1}

MCTables == {"SYS_TABLES", "SYS_COLUMNS", "SYS_INDEXES", "SYS_FIELDS"}
MCTableOrder == <<"SYS_TABLES", "SYS_COLUMNS", "SYS_INDEXES", "SYS_FIELDS">>

\* latin1 and utf8
MCMaxlen == [c \in {8, 33} |-> IF c = 33 THEN 3 ELSE 1]
=============================================================================
