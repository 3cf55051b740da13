------------------------------ MODULE SysParser -------------------------------
(***************************************************************************)
(* sys_parser: print the CREATE TABLE statement of a table from the four   *)
(* tables of the dictionary.  It asks for the table's id, for its indexes  *)
(* in the order of their ids, for its columns and for the fields of its    *)
(* first index, one query after the other.                                 *)
(*                                                                         *)
(* A row of SYS_TABLES has the key <<NAME>> and the value <<ID>>; the keys *)
(* of SYS_INDEXES are <<TABLE_ID, ID>>; those of SYS_COLUMNS are           *)
(* <<TABLE_ID, POS>> with <<NAME, kind, collation, LEN>> and those of      *)
(* SYS_FIELDS <<INDEX_ID, POS>> with <<COL_NAME>>.  What a query returns   *)
(* is a set of rows: LOAD DATA with REPLACE leaves one row for a key, so   *)
(* ORDER BY the second column of the key says which one comes next.        *)
(***************************************************************************)
EXTENDS RecoverDictionary

CONSTANTS
    Name,       \* of the table asked for
    Maxlen,     \* bytes of a character, [collations of the server -> Nat]
    StackValues \* what a variable may hold that is not initialised

\* Kinds of columns: those with a character set, DECIMALs, all others.
Plain == 0
Char == 1
Decimal == 2

\* The type of an index that is the clustered one, and unique.
ClusteredType == 3

(***************************************************************************)
(* The ids of indexes and the lengths of columns are numbers.  The server  *)
(* makes the clustered index of a table before the others, so its id is    *)
(* the smallest: sys_parser.c:278 relies on it.                            *)
(***************************************************************************)
ASSUME DictionaryAssumption ==
    /\ {"SYS_TABLES", "SYS_COLUMNS", "SYS_INDEXES", "SYS_FIELDS"} \subseteq Tables
    /\ \A r \in Rows : r.table = "SYS_COLUMNS" => r.val[4] \in Nat
    /\ \A r \in Rows : r.table = "SYS_INDEXES" =>
          /\ r.key[2] \in Nat
          /\ \A s \in Rows :
                s.table = r.table /\ s.key[1] = r.key[1] /\ s.val[1] = ClusteredType =>
                    s.key[2] <= r.key[2]

VARIABLES
    parser,     \* "idle", "table", "indexes", "columns", "key", "printed" or "failed"
    table_id, index_id,
    todo,       \* the rows of the columns that are not printed yet
    maxlen,     \* of the collation looked up last, not initialised
    columns,    \* printed: name, kind and length of each
    key         \* printed: the rows of the columns of the PRIMARY KEY

parserVars == <<parser, table_id, index_id, todo, maxlen, columns, key>>

ParserInit ==
    /\ parser = "idle"
    /\ table_id = 0 /\ index_id = 0 /\ todo = {}
    /\ maxlen \in StackValues
    /\ columns = << >> /\ key = {}

\* SELECT ... FROM table WHERE <first column of the key> = id
Select(table, id) == {r \in server[table].rows : r.key[1] = id}

\* ORDER BY <second column of the key>: row is the next one.
ComesFirst(row, rows) == row \in rows /\ \A r \in rows : row.key[2] <= r.key[2]

StartParser ==
    /\ parser = "idle"
    /\ parser' = "table"
    /\ UNCHANGED <<table_id, index_id, todo, maxlen, columns, key>>

Exit == parser' = "failed" /\ UNCHANGED <<table_id, index_id, todo, maxlen, columns, key>>

FindTable ==
    /\ parser = "table"
    /\ LET found == {r \in server["SYS_TABLES"].rows : r.key[1] = Name}
       IN  IF found = {} THEN Exit
           ELSE /\ \E r \in found : table_id' = r.val[1]
                /\ parser' = "indexes"
                /\ UNCHANGED <<index_id, todo, maxlen, columns, key>>

\* Defect: the index found last is taken.
ClusteredLast(found) == CHOOSE row \in found : \A r \in found : r.key[2] <= row.key[2]

\* The index with the smallest id is taken for the clustered one.
Clustered(found) == CHOOSE row \in found : ComesFirst(row, found)

FindIndexes ==
    /\ parser = "indexes"
    /\ LET found == Select("SYS_INDEXES", table_id)
       IN  IF found = {} THEN Exit
           ELSE /\ index_id' = Clustered(found).key[2]
                /\ parser' = "columns"
                /\ todo' = Select("SYS_COLUMNS", table_id)
                /\ UNCHANGED <<table_id, maxlen, columns, key>>

\* Eight bits of PRTYPE.
c_code(row) == row.val[3] % 256

\* Defect: the collation of the first column is kept.
MaxlenOnce(row) == IF c_code(row) # 0 /\ columns = << >> THEN Maxlen[c_code(row)] ELSE maxlen

\* A column without a code leaves the last one's.
MaxlenFor(row) == IF c_code(row) # 0 THEN Maxlen[c_code(row)] ELSE maxlen

Unknown(row) == c_code(row) # 0 /\ c_code(row) \notin DOMAIN Maxlen

\* Digits of a DECIMAL without those behind the point: two for each byte.
PrintedLength(row) ==
    CASE row.val[2] = Char -> row.val[4] \div MaxlenFor(row)
      [] row.val[2] = Decimal -> row.val[4] * 2
      [] OTHER -> 0

DividesByZero(row) == row.val[2] = Char /\ MaxlenFor(row) = 0

\* No column is an error, and so is an unknown collation; a division by zero
\* ends the program too.
PrintColumn ==
    /\ parser = "columns"
    /\ \/ columns = << >> /\ todo = {} /\ Exit
       \/ \E row \in todo :
             /\ ComesFirst(row, todo)
             /\ IF Unknown(row) \/ DividesByZero(row) THEN Exit
                ELSE /\ columns' = Append(columns, [name |-> row.val[1], kind |-> row.val[2],
                                                    length |-> PrintedLength(row)])
                     /\ maxlen' = MaxlenFor(row)
                     /\ todo' = todo \ {row}
                     /\ UNCHANGED <<parser, table_id, index_id, key>>

\* An index without fields is a warning, and the statement has no key.
PrintKey ==
    /\ parser = "columns" /\ columns # << >> /\ todo = {}
    /\ key' = Select("SYS_FIELDS", index_id)
    /\ parser' = "printed"
    /\ UNCHANGED <<table_id, index_id, todo, maxlen, columns>>

ParserStep ==
    /\ StartParser \/ FindTable \/ FindIndexes \/ PrintColumn \/ PrintKey
    /\ UNCHANGED <<scanVars, scriptVars>>
=============================================================================
