-------------------------- MODULE RecoverDictionary ---------------------------
(***************************************************************************)
(* recover_dictionary.sh on the output of stream_parser: for each of the   *)
(* four tables of the dictionary dump the live rows, append the deleted    *)
(* ones, create the table and load the dump with REPLACE.  `set -eu' ends  *)
(* the script at the first command that fails.  The MySQL server and its   *)
(* client are known by the commands that the script gives them.            *)
(***************************************************************************)
EXTENDS ScanJob

CONSTANT TableOrder     \* the order in which the script goes through the tables

ASSUME OrderAssumption ==
    /\ TableOrder \in Seq(Tables) /\ Len(TableOrder) > 0
    /\ \A table \in Tables : \E k \in DOMAIN TableOrder : TableOrder[k] = table
    /\ \A j, k \in DOMAIN TableOrder : TableOrder[j] = TableOrder[k] => j = k

Absent == [exists |-> FALSE, rows |-> {}]
NotRead == [live |-> << >>, deleted |-> << >>]

VARIABLES
    script,         \* "idle", "live", "deleted", "database", "create", "load",
                    \* "done" or "failed"
    t,              \* which table of TableOrder
    dumps,          \* the rows in dumps/default/<table>, [Tables -> Seq(row)]
    server,         \* the tables of database test: whether they exist, their rows
    dumped          \* history: pages when c_parser read a table's live rows and when
                    \* it read the deleted ones, [Tables -> [live, deleted : Seq(row)]]

scriptVars == <<script, t, dumps, server, dumped>>

ScriptInit ==
    /\ script = "idle" /\ t = 1
    /\ dumps = [x \in Tables |-> << >>]
    /\ server = [x \in Tables |-> Absent]
    /\ dumped = [x \in Tables |-> NotRead]

Table == TableOrder[t]

\* The rows at the positions of S, in their order.
Selected(rows, S) ==
    LET selected[n \in 0 .. Len(rows)] ==
            IF n = 0 THEN << >>
            ELSE IF n \in S THEN Append(selected[n - 1], rows[n]) ELSE selected[n - 1]
    IN  selected[Len(rows)]

RowsOf(rows, table) == Selected(rows, {k \in DOMAIN rows : rows[k].table = table})

\* The page file of an index: its pages in the order in which they were saved.
PageFile(table) == RowsOf(pages, table)

\* c_parser's records, without -D or with it, go in the order of the file.
Live(rows) == Selected(rows, {k \in DOMAIN rows : ~ rows[k].deleted})
Deleted(rows) == Selected(rows, {k \in DOMAIN rows : rows[k].deleted})

\* Defect: the statement is INSERT IGNORE.
LoadRowIgnored(rows, row) ==
    IF \E r \in rows : r.key = row.key THEN rows ELSE rows \cup {row}

\* LOAD DATA ... REPLACE of a line.
LoadRow(rows, row) == {r \in rows : r.key # row.key} \cup {row}

Loaded(rows, lines) ==
    LET loaded[n \in 0 .. Len(lines)] ==
            IF n = 0 THEN rows ELSE LoadRow(loaded[n - 1], lines[n])
    IN  loaded[Len(lines)]
-----------------------------------------------------------------------------
Goto(next) ==
    IF t < Len(TableOrder) THEN script' = script /\ t' = t + 1
    ELSE script' = next /\ t' = 1

\* test -d "$pages_dir"
StartScript ==
    /\ script = "idle"
    /\ script' = (IF "dst_dir" \in dirs THEN "live" ELSE "failed")
    /\ t' = 1 /\ dumped' = [x \in Tables |-> NotRead]
    /\ UNCHANGED <<dumps, server>>

\* c_parser -4f ... > dump: the dump is emptied even if there is no page file.
DumpLive ==
    /\ script = "live"
    /\ dumps' = [dumps EXCEPT ![Table] = Live(PageFile(Table))]
    /\ script' = (IF PageFile(Table) = << >> THEN "failed" ELSE "deleted")
    /\ dumped' = [dumped EXCEPT ![Table].live = pages]
    /\ UNCHANGED <<t, server>>

Appended(rows, more) == rows \o more

\* c_parser -4Df ... >> dump, and on to the next table.
DumpDeleted ==
    /\ script = "deleted"
    /\ dumps' = [dumps EXCEPT ![Table] = Appended(@, Deleted(PageFile(Table)))]
    /\ IF t < Len(TableOrder) THEN script' = "live" /\ t' = t + 1
       ELSE script' = "database" /\ t' = 1
    /\ dumped' = [dumped EXCEPT ![Table].deleted = pages]
    /\ UNCHANGED server

\* CREATE DATABASE IF NOT EXISTS
CreateDatabase ==
    /\ script = "database"
    /\ script' = "create"
    /\ UNCHANGED <<t, dumps, server, dumped>>

\* Defect: no other table may be there either.
CreatableIfNone(table) == \A x \in Tables : ~ server[x].exists

\* CREATE TABLE fails if the table is there.
Creatable(table) == ~ server[table].exists

CreateTable ==
    /\ script = "create"
    /\ IF Creatable(Table)
       THEN server' = [server EXCEPT ![Table].exists = TRUE] /\ Goto("load")
       ELSE server' = server /\ script' = "failed" /\ t' = t
    /\ UNCHANGED <<dumps, dumped>>

LoadTable ==
    /\ script = "load"
    /\ server' = [server EXCEPT ![Table].rows = Loaded(@, dumps[Table])]
    /\ Goto("done")
    /\ UNCHANGED <<dumps, dumped>>

\* The script is interrupted, or the server does not answer, or a table cannot
\* be loaded.
ScriptFails ==
    /\ script \in {"live", "deleted", "database", "create", "load"} /\ Fault
    /\ script' = "failed"
    /\ UNCHANGED <<image, dirs, scan, worker, pos, pages, orphanVars>>
    /\ UNCHANGED <<t, dumps, server, dumped>>

ScriptStep ==
    /\ DumpLive \/ DumpDeleted \/ CreateDatabase \/ CreateTable \/ LoadTable
    /\ UNCHANGED scanVars

\* The operator drops what an earlier script created.
DropTables ==
    /\ server' = [x \in Tables |-> Absent]
    /\ script' = "idle" /\ t' = 1
    /\ UNCHANGED <<dumps, dumped>>
=============================================================================
