------------------------------- MODULE Recovery -------------------------------
(***************************************************************************)
(* The recovery of the InnoDB dictionary as its operator goes through it:  *)
(* stream_parser, recover_dictionary.sh, sys_parser.  Each of them may     *)
(* fail or be interrupted.  stream_parser does not start over an old       *)
(* directory, and the script does not get past tables that exist: what an  *)
(* earlier attempt left has to be removed by hand.  A worker that has lost *)
(* its parent may go on meanwhile, during the next scan and the script.    *)
(***************************************************************************)
EXTENDS SysParser

vars == <<scanVars, scriptVars, parserVars>>

Init == ScanInit /\ ScriptInit /\ ParserInit

\* The operator sees what stream_parser says, and that a page file is missing.
SomePageFileMissing == \E x \in Tables : PageFile(x) = << >>

OperatorCleansUp ==
    /\ scan = "failure" \/ (script = "failed" /\ scan = "success" /\ SomePageFileMissing)
    /\ RemoveDirectories
    /\ UNCHANGED <<scriptVars, parserVars>>

OperatorRestarts ==
    /\ scan = "failure"
    /\ RestartScan
    /\ UNCHANGED <<scriptVars, parserVars>>

OperatorRunsScript ==
    /\ scan = "success" /\ StartScript
    /\ UNCHANGED <<scanVars, parserVars>>

\* The script is run again, on what the last one left.
OperatorRunsAgain ==
    /\ scan = "success" /\ script = "failed"
    /\ script' = "idle" /\ t' = 1
    /\ UNCHANGED <<scanVars, parserVars, dumps, server, dumped>>

OperatorDropsTables ==
    /\ scan = "success" /\ script = "failed"
    /\ DropTables
    /\ UNCHANGED <<scanVars, parserVars>>

Scan == (ScanStep \/ ScanFault \/ OrphanSaves) /\ UNCHANGED <<scriptVars, parserVars>>
Script == (ScriptStep \/ ScriptFails) /\ UNCHANGED parserVars
Parser == script = "done" /\ ParserStep

Next ==
    \/ Scan \/ Script \/ Parser
    \/ OperatorCleansUp \/ OperatorRestarts \/ OperatorRunsScript
    \/ OperatorRunsAgain \/ OperatorDropsTables

\* The programs go on; the operator tries again, and sometimes after cleaning up.
Fairness ==
    /\ WF_vars(ScanStep /\ UNCHANGED <<scriptVars, parserVars>>)
    /\ WF_vars(ScriptStep /\ UNCHANGED parserVars)
    /\ WF_vars(Parser)
    /\ WF_vars(OperatorRunsScript)
    /\ SF_vars(OperatorCleansUp) /\ SF_vars(OperatorDropsTables)

Spec == Init /\ [][Next]_vars /\ Fairness
-----------------------------------------------------------------------------
\* A table's page file when its live rows, and when its deleted rows were read.
ReadLive(table) == RowsOf(dumped[table].live, table)
ReadDeleted(table) == RowsOf(dumped[table].deleted, table)

\* The rows in the dump of a table.
DumpedRows(table) == ToSet(Live(ReadLive(table))) \cup ToSet(Deleted(ReadDeleted(table)))

\* The last of the rows with a key that are deleted, or that are not.
LastWith(rows, k, deleted) ==
    /\ rows[k].deleted = deleted
    /\ \A j \in k + 1 .. Len(rows) : rows[j].key = rows[k].key => rows[j].deleted # deleted

HasDeleted(rows, key1) == \E j \in DOMAIN rows : rows[j].key = key1 /\ rows[j].deleted

\* When the script has ended well, a table has one row for each key of its page
\* file and no other: the last deleted one, if the file has one with this key,
\* however old it is, otherwise the last one that is not deleted, of the copies
\* of a page that the scan found.  If a worker without a parent goes on saving,
\* the live rows are those of the file when the first c_parser read it and the
\* deleted ones those of the second (recover_dictionary.sh:33-62, c_parser.c:912).
TablesHoldPageFiles ==
    script = "done" =>
        \A x \in Tables :
            LET live == ReadLive(x)
                gone == ReadDeleted(x)
            IN  server[x].rows =
                    {gone[k] : k \in {j \in DOMAIN gone : LastWith(gone, j, TRUE)}} \cup
                    {live[k] : k \in {j \in DOMAIN live :
                                 LastWith(live, j, FALSE) /\ ~ HasDeleted(gone, live[j].key)}}

\* The pages that the script has read.
Reads == UNION {{dumped[x].live, dumped[x].deleted} : x \in Tables}

\* Those of them that the worker of the last scan has saved.
Own(read) == Selected(read, DOMAIN read \ stray)

\* A script that has ended well has read all that is in the image, unless a worker
\* died, of which the parent says nothing.  Of the scan itself no page is there
\* twice, and none is left from an earlier scan.  What is there besides was
\* saved by workers whose parents were killed: they may still append to the
\* files, before, while and after the script reads them, but only pages of the
\* same image (stream_parser.c:340-367, 653-726, recover_dictionary.sh:7-39).
OnlyDeadWorkersLosePages ==
    script = "done" =>
        \A read \in Reads :
            /\ Own(read) # image =>
                  worker = "dead" /\ IsStrictPrefix(Own(read), image) /\ faults > 0
            /\ Own(read) # read =>
                  /\ \E k \in DOMAIN orphans : orphans[k] > 0
                  /\ ToSet(read) \subseteq ToSet(image)

\* The PRIMARY KEY is that of the clustered index, with every field of it once,
\* unless the row of the index was not among the pages: then it may be that of
\* another index (sys_parser.c:278-294, 377-397).
KeyOfClusteredIndex ==
    parser = "printed" =>
        \A c \in DumpedRows("SYS_INDEXES") :
            c.key[1] = table_id /\ c.val[1] = ClusteredType =>
                /\ index_id = c.key[2]
                /\ {r.key : r \in key} =
                      {r.key : r \in {f \in DumpedRows("SYS_FIELDS") : f.key[1] = index_id}}
                /\ \A r, s \in key : r.key = s.key => r = s

\* Bytes of a DECIMAL with so many digits before the point.
DecimalSize(digits) == (digits \div 9) * 4 + ((digits % 9) + 1) \div 2

\* A column is printed with the length that it was declared with if it has a
\* collation with an id below 256; a DECIMAL keeps the size of its values, but
\* not its scale, up to eight bytes and not beyond them
\* (sys_parser.c:324-359).
LengthsKept ==
    \A k \in DOMAIN columns :
        \E r \in server["SYS_COLUMNS"].rows :
            /\ r.key[1] = table_id /\ r.val[1] = columns[k].name
            /\ r.val[2] = Char /\ r.val[3] \in 1 .. 255 =>
                  columns[k].length = r.val[4] \div Maxlen[r.val[3]]
            /\ r.val[2] = Decimal => ((DecimalSize(columns[k].length) = r.val[4]) <=> r.val[4] < 9)

\* However often it is interrupted, and although each attempt leaves something
\* in the way of the next one, the recovery comes to its end if the operator
\* cleans up between attempts (stream_parser.c:653, recover_dictionary.sh:50).
RecoveryEnds == <>(script = "done")
=============================================================================
