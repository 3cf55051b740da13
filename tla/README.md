# undrop-for-innodb in TLA+

Specifications of the recovery tools of this repository, the TLC
configurations that check them on small instances, and proofs that TLAPS
checks for every size.  Paths are relative to the repository's root.

## 1. The system

The tools recover InnoDB tables from a damaged tablespace or a raw device.
They are separate sequential programs that communicate through files:

    tablespace, device --stream_parser--> one file per index, one per BLOB page
    page files + CREATE TABLE --c_parser--> a dump, a LOAD DATA statement, a STATUS line
    dictionary dumps --recover_dictionary.sh, sys_parser--> CREATE TABLE statements
    tablespace --innochecksum--> the same tablespace, checked or repaired
    a server that crashes --fetch_data.sh--> a copy of a table, range by range

| component | state it keeps | operations | what makes it correct |
|---|---|---|---|
| stream_parser, worker (`stream_parser.c`) | file position, cache, pointer into the cache, page files | read, test a place for a page, save a page, step, move the remainder | no page missed, repeated or torn, at any offset, whatever `read` returns |
| stream_parser, start-up | directories, semaphores, the process of the worker | parse options, create directories, fork, wait | the files of one scan are never mixed with those of another; failures are reported (they are not) |
| c_parser, page walk (`c_parser.c`) | flags, pointers within the page, record counts, totals | skip a page, check its list, walk, add up | stays inside a page that holds anything; a sound list is dumped completely; ends; the totals are right |
| c_parser, record recognition (`c_parser.c`, `tables_dict.c`) | `offsets[]`, derived sizes of the table | read the lengths, check sizes | a row is recognised with its values; what cannot be a row is not |
| c_parser, statement parser (`sql_parser.y`) | arrays of columns and key columns, flags | declare a column, a key; lay the fields out | the fields are what the server stores, in its order |
| c_parser, external values (`print_data.c`) | page number, sum of lengths, file descriptor | open, read, print a part, follow the link | intact chains whole; damaged ones end and cost little |
| c_parser, constraints (`check_data.c`) | none | compare a field with its limits | a row is refused for a value that breaks a limit, and for nothing else |
| c_parser, printing and LOAD DATA (`print_data.c`, `c_parser.c`) | the line, the statement | decode, quote, escape; column list, conversions | the value loaded is the one stored, in its own column |
| sys_parser (`sys_parser.c`) | the connection, ids found, the character set of the last column | query, print | the printed key and lengths are the table's |
| innochecksum (`innochecksum.c`) | page number, options, the file | check, repair, write, stop | checked pages are good; good pages untouched; stops only where it must |
| fetch_data.sh | range `a..b`, `chunk`, run of successes | insert a range, halve, wait, double | no row passed over except beside a corrupted one; ends |
| recover_dictionary.sh | files of dumps, four tables of a server | dump, create, load | the tables hold what was on the disk; an interrupted run can be repeated |

What is hard here is not concurrency.  stream_parser forks one worker and
waits for it (`ncpu = 1`, stream_parser.c:684), and its semaphores are never
contended; all else is sequential, except for a worker whose parent was killed.  It is hard because the *input is not
trusted to be anything*: pointers of a corrupted page form cycles, pages start
anywhere, lengths are arbitrary; and because of partial failures: short reads
and writes, interrupted repairs, servers that die between a commit and the
answer; programs that are killed and started again on what they left, while a worker of theirs may still be alive.  In the
modules, whatever comes from a damaged medium is chosen
nondeterministically when it is first read and kept after that.

PROJECT.json lists each of these hazards at its line, with the properties that
cover it or the reason why none does yet.

## 2. The modules

| module | models | theorems in | TLC instances in |
|---|---|---|---|
| `StreamScan` | the worker of stream_parser | `StreamScanProofs` | `MCStreamScan` |
| `PageCarving` | what that worker promises (abstract) | refined in `StreamScanProofs` | as above |
| `CParser` | the page walk of c_parser | `CParserProofs` | `MCCParser` |
| `RecordOffsets` | the recognition of a record | `RecordOffsetsProofs` | `MCRecordOffsets` |
| `TableDef` | the layout of a table's fields | `TableDefProofs` | `MCTableDef` |
| `BlobChain` | the pages of external values | `BlobChainProofs` | `MCBlobChain` |
| `InnoChecksum` | innochecksum | `ToolProofs` | `MCInnoChecksum` |
| `FetchData` | fetch_data.sh and its server | `ToolProofs` | `MCFetchData` |
| `FieldValues` | the decoders of print_data.c, and how the server encodes | `RowDumpProofs` (operators) | as `RowDump` |
| `RowDump` | a record from its check to the table that LOAD DATA fills | `RowDumpProofs` | `MCRowDump` |
| `ScanJob` | `main` of stream_parser around an abstract worker | `RecoveryProofs` | `MCRecovery` |
| `RecoverDictionary` | recover_dictionary.sh and its server | `RecoveryProofs` | `MCRecovery` |
| `SysParser` | sys_parser | `RecoveryProofs` | `MCRecovery` |
| `Recovery` | the three of them and their operator, composed | `RecoveryProofs` | `MCRecovery` |

Operators whose comment begins with "Defect" are not part of a specification.
Each is a plausible mistake in the definition that follows it, kept to make
sure that the properties notice it ("mutants" in PROJECT.json).

### StreamScan and PageCarving

`img` has the length of the file, the set of its zero bytes, a function from
offsets to page headers, and the room on the destination's disk; that is all
`valid_blob_page` and `valid_innodb_page` can tell apart
once the infimum and supremum strings or the checksums are known to be there.
A cell of `cache` holds *the file offset of its byte*, so stale cells are
distinguishable from fresh ones.  `Read` takes any part of what was asked for;
`TakePage`, `SkipZeros` and `SkipByte` are the turns of the inner loop;
`MoveRemainder` is what follows it; `ReadError`, `TakePageFails`, `Eof` and
`RangeDone` are the exits.  A run of zeros that reaches the end of the data
makes the program read the byte behind it (stream_parser.c:208-213); the value
is nondeterministic.

Two limits of the code are in the definition of `Certain` and not hidden by
the model: an INDEX page whose checksum is 0 is never recognised, and a page
whose checksum begins with three zero bytes can be stepped into if a run of
zeros before it was cut by the end of the data.

`PageCarving` has a cursor over the whole file and no cache: it takes a page
at the cursor or passes over offsets without a certain page.  `CarvesWholeFile`
says that the scan implements it, with the file position of the next byte to
look at as the cursor.

The room on the destination (`free`) never grows.  `TornPageIsLast` therefore says nothing of
space that is freed after a short write, which `process_ibpage` ignores (stream_parser.c:367): the
pages that follow are then appended behind a torn one in the middle of a file.

### CParser

The next-record pointers (`links`) and what is found at each origin (`recs`)
are read lazily.  `CheckFollows`, `CheckFails` and `CheckPasses` are
`check_page`, with its 16-bit arithmetic; `WalkStep` is a turn of
`process_ibpage`, whose pointer is wider.  The 16-bit numbers are scaled to the
size of the page: for a page of 16384 bytes they hold twice as much as a page
on either side of zero, and so they do in the model.  `PageEnds` adds up the
totals.  The options are parsed in the order of the command line.

### RecordOffsets

At an origin there is a row the server wrote (`Rows`, `Written`: modelled from
what the code expects of the server, whose rows have less than `REC_MAX_DATA_SIZE`
bytes in the page) or anything at all.  `ReadNew` and
`ReadOld` are turns of the two `ibrec_init_offsets_*` loops; the latter has no
flags in its entries because `offs &= 0xffff` (c_parser.c:420, 444) removes
them.  In `ReadNew` that mask changes nothing: an end never exceeds the page by
more than 16383.  The members min_length and max_length of the system columns are
never set (sql_parser.y:169-189); they are 0 because nothing has used that part
of the stack before, and the model takes them for 0.

### TableDef

Columns and keys arrive in any order.  `DefineColumn`, `DefinePrimary` and
`DefineUnique` are the semantic actions of a definition, `EndTable` the action
at the end of the statement, which applies the table's character set and lays
the fields out.  `ServerLayout` and `decimal_bin_size` say what that has to
agree with.  Key parts are whole columns.

### BlobChain

`store` says what reading each page gives.  One iteration of the loop is
`CannotOpen`, `LeaveAtBadPage` or `PrintPart`.  The option -i keeps one
descriptor open over all values, -b opens one for each page; `descriptors`
counts those not closed, and `MaxOpen` is the limit of the process.  The length
and the first page of a value are read from the record and not checked
(print_data.c:424-426): the length may be 0 and the page 0 or FIL_NULL, as in a
reference of zeros.  The loop looks at the length only behind a part, so that of
such a value up to a whole page is printed; `Wanted` in `StopsAtLength`
is one byte for it.

### InnoChecksum

The checksum functions are constants, so all that is used of them is what they
cover.  `CheckPage` is the loop's body for a page that passes or is repaired,
`RefusePage` its `return 1`.  `WriteInterrupted` leaves none or the first part
of the page on the disk, and `RunAgain` starts the tool again with other options.

### FetchData

One action per outcome of `insert_range`, up to the wait for the server, and
`PingAnswered` for the rest of the body.  The server is external: it fails a
query that meets a corrupted row, may die of it, may die at other times up to
`MaxOutages` times, also after a commit, and is started again.

### FieldValues and RowDump

A field is its definition, the bytes in the page, what follows them there, and
the value that the server encoded (`Stored`: external, written from the
formats that the decoders expect).  `Decoded` is what `print_field_value` makes of
the bytes, as the server reads it.  Numbers are exact, in TLC's range; those of eight bytes are worked
on byte by byte (`Divide`).  A FLOAT is a decimal number, of which printing keeps
six places.  `ValueOK` has the values that a column of each type can hold, and `Lossy` the
ones that come back as another: for a DATETIME of MySQL 5.6 whose year, month or day no
format is guessed from, `LossyDatetime` compares the value with the digits that are read instead,
since those of a few dates are the date's own.

A TIMESTAMP is an instant, and `print_timestamp` prints the local time of it in c_parser's zone
(`LocalZone`).  The LOAD DATA statement sets no `time_zone`, so the server takes the text
for a local time of its session (`ServerZone`, `Instant`: external; the earlier instant of an hour
that is repeated, the edge of one that is skipped, zero if it is out of range).  A zone has two
offsets and a set of summers, so that changes of a zone's standard offset are left out.  `LossyInstant` has
the instants that do not come back: those at which the two clocks differ, except the one at which
the server's skips the time that is printed; those whose time the server's clock has shown
before; and the zero TIMESTAMP if the server reads the local time of 1970 as a later instant.

`CheckField` and `RefuseRow` are the turns of `check_constraints`,
`PrintInternal` and `PrintField` those of the two loops of `process_ibrec`,
`LoadData` is the statement that `main` writes, executed by the server's reader
(`Read`, external: the documented rules for FIELDS, LINES and escapes).  A line is a
sequence of bytes, because quotes, tabs and backslashes are what may go wrong;
digits, which cannot, are one symbol.  A damaged DECIMAL prints bytes that the stack
held before: any of `Leftovers`.

### ScanJob, RecoverDictionary, SysParser, Recovery

`ScanJob` is `main` of stream_parser: three `mkdir`s, a fork, `waitpid`.  Its
worker saves the pages of `image` one by one and may die; that it finds them is
what `StreamScan` is about.  The parent may be killed with its worker or alone (`KillParent`).  In
the second case the worker becomes one of the `orphans` and goes on: it opens the page files by name
for each page (stream_parser.c:340-367), so that `OrphanSaves` appends to whatever has that
name, the files of the next scan included, before, while and after the script reads them.  It saves at
most `MaxStray` pages into one set of directories; `stray` notes where.  It need not make any step, which
stands for its end and for a failure of `open` between two scans.
Its copy of a page may come behind the one of the scan.  `RecoverDictionary` has one action for each command
of the script and each table; `set -eu` makes any failure its last.  `dumped` notes the page files as the two
runs of c_parser on a table found them.  That a run reads its file in one step, and that
`rm -rf` of the operator removes the directories in one, are abstractions.
`SysParser` is one action per query, and one per printed column.  What a query
returns is a set of rows, which have different keys; `ComesFirst` is its ORDER BY.
Each module EXTENDS the one before it, as each program reads what the one before it wrote.

`Recovery` adds the operator: cleans the directories, starts again without
cleaning, runs the script, runs it again on what the last run left, drops its
tables.  `faults` counts the failures and interruptions of programs; after
`MaxFaults` of them everything succeeds that can.

## 3. The runs

| run | question | instance | result |
|---|---|---|---|
| `scan` | is any page missed, repeated, misread or torn? | pages of 5 bytes (4 of checksum), file of 12, cache of 7, three kinds of page, -T, a destination that may take 3 bytes | holds |
| `pages` | can pages that hold anything mislead the walk, or its STATUS line? | two pages of 10 bytes, 17 pointers, both formats, 5 command lines | holds |
| `records` | which rows are recognised, what else is? | four tables of three fields, three origins, lengths around 127 and 255 | holds |
| `rec_flags` | do NULL and external flags reach `offsets[]`? | the same | violated |
| `table` | are the fields laid out as stored, with the lengths they are read by? | up to 3 columns of 6 kinds and 2 keys; every DECIMAL(p, s) with p up to 65, s up to 30 | holds |
| `charset` | is a column's own character set respected? | CHAR and VARCHAR columns, two tables | violated |
| `blob` | are intact values printed after damaged ones? | -b and -i, pages 0 to 2 of 2 bytes, every content, 3 values of length 0 or 2, 2 descriptors | holds |
| `inno` | are checked pages good and good pages untouched? | two pages, each field right or wrong, two runs with any options | holds |
| `inno_lsn` | does -l write what it is given? | the same | violated |
| `fetch` | which rows are lost, does it end? | 18 rows among 20 keys, two of them bad anywhere, two outages anywhere | holds |
| `rows` | which values come back from the dump, which rows are refused? | every type at its edges, two time zones, 208 000 states; each field at the beginning, at the end and alone in a row; -x, -6 | holds |
| `recovery` | what do the dictionary tables hold after interruptions, what is printed from them? | 11 images of a table that was created, dropped and created again, 2 failures anywhere, 1 page of an orphaned worker in each set of directories, 1 130 000 states | holds |

Why the bounds are enough.  In `scan` a page (5 bytes) straddles reads and
refills at every position because the cache (7) is not a multiple of it; two
pages may overlap, touch, or have zeros between and before them.  In `pages` a
list may have two records, so that there are cycles of length one and two,
wrong orders and early ends; the 17 pointers are every place of the page, what is
just behind it, and both ends of 16 bits, which are tried at each place.  A page
of 10 bytes has max_recs = 2, so the count that breaks cycles is reached; the second
page is there for the totals.  In `fetch`
twenty keys allow a run of more than five successes, after which the range
doubles.  In `blob` the third value meets a process that has no descriptor
left.  `uint_range` is 10^8 in the runs of `TableDef`, because TLC's integers
have 32 bits; what matters is that a long length times four passes it.  In `rows`
a value is at both ends of what its type holds and on both sides of every mask
and limit of the decoders; strings have up to three of the characters that quotes, tabs
and escapes are about; fields do not interact except through the reader's place in
the line, for which one neighbour on either side is enough.  The clocks of the two zones of `rows` agree in winter and in one summer, and differ in
another one; TIMESTAMPs are on both sides of each change and of the hour before and behind it.
In `recovery` two failures
are enough for one in the attempt that repeats a failed one, and for two orphaned
workers; what is left of an attempt are directories, page files, tables and such workers.  One
stray page can come at any place of a file, before, between and after the two reads of it.

Deadlock is checked in all runs except those of `InnoChecksum`, `rows` and
`recovery`: there the tools may stop for good, after the last run, after a row, or
after the statement is printed.  The other modules have an explicit
stuttering action for a program that has exited.

Fairness.  `StreamScan`, `CParser` and `BlobChain` assume that a single process that
can take a step takes one (system calls return).  `FetchData` assumes that too
and that a server that is down is started again, as mysqld_safe does; the
script has no other way to go on.  `Recovery` assumes that the programs
go on, that the operator runs the script when there are pages, and (strongly fair,
because other repetitions come between) that an operator who meets a failure
again and again cleans the directories and drops the tables at last: neither tool
does this itself, and without it `RecoveryEnds` does not hold.  `BlobChain` promises an end only when no
page of the chain claims to be an empty part: with empty parts in a cycle the
code does not end.

The properties that are violated are quoted from a usage text or a comment of
the code; see "findings" in PROJECT.json.

Three limits of the code are written into the properties and have no run of
their own.  In a table of more than 120 NOT NULL columns of fixed length the
first row of a COMPACT page is refused, because `min_rec_header_len`
(tables_dict.c:47) counts a length byte for each of them: `HasRoom` in
`RowRecognised`.  A REDUNDANT record in which a LONGTEXT or LONGBLOB ends before it starts
passes the size check, because the difference of the ends is taken modulo 2^30
(c_parser.c:298): `Unlimited` in `AcceptedFits`.  A long VARCHAR stored outside
its record is refused with the record (c_parser.c:292): `ExternalVarchar` in
`RowRecognised`.

## 4. The proofs

The theorems hold for every value of the constants that satisfies the
`ASSUME`s of the module; these say what the program itself ensures (the cache is
not smaller than a page) or what the format does (a page's number is not 0).

* `StreamScanProofs`.  `IInv` adds to the properties what the loop keeps between
  its turns (`Bounds`): less than a page is left in the cache when it is refilled,
  the pointer is not behind the data, and the scan is never before its start.
  None of the properties is inductive alone: that a page is at the position where it is
  found needs `WindowMirrorsFile`, which needs `Bounds`.  For `NoPageMissed`,
  a step over zeros leaves three of them, and a page whose first three bytes are
  not all zeros cannot start inside what was stepped over.
  `ScanImplementsCarving` maps each action to a step of `PageCarving` or to a
  stutter.
* `CParserProofs`.  `PointersInPage` needs that in a page with a valid list the
  walk is at a place whose pointer `check_page` has read already: the set of places
  read is closed under following pointers, up to the supremum.  The two computations
  of the next pointer differ in width, and agree on these places because what
  `check_page` followed was inside the page.
  `WalkMatchesCheck` compares two numbers of records that are counted by
  different loops.  The invariant `PInv` has the list as a sequence of places, each
  the successor of the one before and none twice (`IsPath`): the check builds it one
  place at a time, and the walk moves along it.  A place that came
  twice would lead round for ever, and the path ends in the supremum
  (`PathInjective`).  `StatusAgrees` needs that neither loop
  leaves a count behind for the next page.
* `RecordOffsetsProofs`.  `AcceptedFits` needs that sizes modulo 2^30 are
  sizes unless an end decreases, and that a decrease gives a number no column
  but the largest allows.  For `RowRecognised` the invariant says that the ends
  read so far are the sums of the lengths that the server wrote (`RowRead`): a
  length is read as it was written (`WrittenRead`), the sum is below 2^14 and so free
  of the bits that the masks cut off, and what the table requires, field by field and
  in total, is between the sums of the least and of the largest lengths
  (`SizeWithinLimits`).
* `TableDefProofs`.  While the statement is read, `pk_fields` is the primary key
  and `uq_fields` is the first UNIQUE key, unless a column had a UNIQUE clause of its
  own (`PrimaryInv`, `UniqueInv`).  From there on it is about positions: the fields
  are a list of different columns, then the system columns, then the columns whose
  names have not come yet, so that each is there once (`LaidOnce`), in the order of
  `ServerLayout` (`KeyIsLaid`).  A DECIMAL's length is the same by rounding as by
  groups for any number of digits (`GroupBytesFacts`).
* `ToolProofs`, about two components that share nothing.  innochecksum: repairing the three
  fields in the order of the code gives a good page; the invariant says so for every page
  gone through (`InnoInv`).  fetch_data.sh: the invariant relates `chunk`, `a` and `b`,
  and counts a debt of one row while a key is about to be given up for an outage
  (`FetchInv`).
* `BlobChainProofs`.  `Descriptors` relates the count of open descriptors to the state
  of the loop: a value that is being printed has not lost one yet.  Nothing is assumed
  of the chains.
  `StopsAtLength` holds for any length and any first page, also those of no value that the server
  wrote.  For `IntactPrintedWhole` the loop is followed along any chain that is
  intact (`Follows`): it is at the k-th page, has printed the k - 1 before it, and
  the sum of the lengths is theirs, which is less than the whole because no part of
  an intact chain is empty.  A descriptor is left because a value has lost at most one (`Descriptors`).
* `RecoveryProofs`.  What the worker of the scan saved is the beginning of the disk: the page files
  without the positions in `stray` (`Own`, `PagesMirrorImage`).  What other workers append moves none of it, and a file that
  was read keeps being the beginning of what it becomes; so the statement about the pages that the script has
  read follows from the one about the pages that are there, for any `MaxStray`.
  To append to the files of an earlier scan a new one would need a directory that exists,
  which keeps it from starting (`ScanInv`); and while the script is busy no
  scan can begin, since it started after a success (`ScriptInv`).
  `TablesHoldPageFiles` follows in two halves.  `DumpInv` says which dumps hold what
  while the script goes through the tables, `ServerInv` which tables are
  empty and which are loaded.  What loading leaves is, for each key, the last row of
  the dump (`LoadedFacts`), and a dump is the live rows of a page file as it was when they were read, in their order, and
  behind them the deleted ones of the file as it was then (`SelectedFacts`, `FinalInDump`).  `ParserInv` adds
  what sys_parser has found; a DECIMAL of s bytes below nine is printed with 2s digits,
  which take s bytes again (`DecimalBytes`).

* `RowDumpProofs`.  The invariant of the two theorems about limits is short (`Compared`: the fields
  before the one that is compared were allowed).  The work is in what
  `check_field_limits` reads: an integer of any length is decoded to the number that the
  server stored, unless `LossyNumber` says that bits are lost (`IntegerRead`,
  `UnsignedIntegerRead`), and so are the parts of a DATETIME of a table before 5.6
  (`PartsOfPairs`).  The server multiplies a number of eight bytes by 100 and adds
  a pair of digits, byte by byte from the last one (`AppendedNumber`); the program divides
  it from the first one (`DividedNumber`).  Between the two stands the number itself, which
  never needs its first byte (`FirstByteZero`).
  That is done for every type in `ValueTold`: what `Decoded` makes of what the server
  stored is the value if and only if `Lossy` does not name it.  Both halves need work.  A
  DATETIME of 5.6 has its top bit set, which the guess counts for the year and not for the
  minutes, so that its digits are never plausible (`NeverDecimal`) and its bits are read; a
  TIME packed by one rule and read by the other is another time unless it has nothing but
  seconds (`SecondsTold`, `BitsTold`); a TIMESTAMP comes back exactly if the two clocks agree and the
  server's has not shown its time before, but for one instant of a summer (`InstantFound`,
  `InstantMissed`), so that of two that are printed alike one is always lost
  (`RepeatedHourCollapses`); of a
  DECIMAL the places of the groups in the bytes are followed (`PiecesLaid`, `GroupsRead`), and
  a negative one is inverted byte by byte on both sides (`ShiftedTurned`, `BytesTurned`).

  `OneFieldPerColumn` follows the reader through the line.  Whatever the bytes of a field
  are, its text takes the reader from the start of a field to a mode in which a tab
  ends it (`IsFieldText`, `FieldTextRead`): plain text, an enclosed text in which nothing
  that `print_string` writes closes the quote (`EscapeRead`), or one of `print_string_raw`
  in which a backslash escapes what comes behind it, which `Spills` keeps from being the
  quote (`RawInside`).  A text is read on from where the one before it ends
  (`ReadConcat`).  The invariant `Written` says of the first loop that no tab of the line
  has the name before it (`Nameless`), so that the server begins behind the name
  (`NameFound`), and of the second that the reader would be at the start of a field, with
  one field read for each column that the loop has passed.

  `ValuesRestored` joins the two.  `IsContent` says which bytes the reader takes a text for,
  and `GivesField` which field it ends with; `print_string` gives back any bytes
  (`StringGives`), `print_string_raw` those without a backslash, and never the right ones with one,
  because a backslash takes the next character along and the text stays shorter or different
  to its end (`AstrayStep`, `RawLost`).  UNHEX() undoes `print_hex` (`Unhexing`), and gives NULL for
  the odd text that the quote behind a TEXT makes (`QuotedHexGood`).  `Good` has, for a column, the
  fields from which the statement makes what `ValuesRestored` promises, and
  `FieldGives` puts what is printed of any field among them.  The invariant
  `Delivered` says that the reader would have a good field for each column that the loop has
  passed, in their order.

For each invariant there is a lemma that it holds initially and one that a step keeps it
(`InitIInv` and `StepIInv`, in `ToolProofs` `InnoInitially`, `InnoInductive` and so on), with
one step per action, and the theorems that follow from them.

`TornPageIsLast` needs one more fact: as long as the destination has room, every
page written is whole (`WholeWhileRoom`).

What is assumed of constants.  `DictionaryAssumption` has the clustered index of a
table for the one with the smallest id, which sys_parser relies on and the server
does; `OrderAssumption` names the tables of the script each once; `TableAssumption`
that a DECIMAL has no more decimals than digits and that no column is called like a
system column; `OffsetsAssumption` that offsets fit into 16 bits; `RowAssumption` that a field which is neither NULL nor
damaged has the bytes that the server writes for a value of its type (`FieldOK`, `ValueOK`: the
ranges of the server, for columns of either version), `ZoneAssumption` that the summers of a zone do not overlap and
have the greater offset; further `RowAssumption` that seven bytes at least follow it in
the page (the trailer alone has eight), and that a row has at least one field.

Some of these proofs are about what a recursive function computes from a sequence
of any length: a sum, a selection of rows, a load row by row.  An
induction principle with an operator for the predicate cannot be used with these
back ends; `NatSetInduction` has a set of numbers instead, and follows
from the fact that < is well-founded.  A lemma on each recursive function first shows
that the function exists, as the limit of its initial parts (`SumsExist`,
`RecursionExists`), and from then on only its two equations are used
(`TotalFacts`, `LoadedUnfolds`, `SelectedUnfolds`, `NumberUnfolds`, `DivideUnfolds`,
`FlattenUnfolds`, `ReadUnfolds`, `GroupsUnfold`).

The type invariants are checked where a run needs them, and proved for
`StreamScan`, `CParser`, `RecordOffsets`, `InnoChecksum`, `FetchData` and `BlobChain`.

Every safety property of the passing runs is a theorem.  Liveness properties are
model-checked only, since these back ends have no rule for fairness.

## 5. Not modelled

* Of stream_parser the option parser, `open_ibfile` and `show_progress`: the sizes
  and offsets they compute are fields of the image or constants of `StreamScan`.
* The lexer of `sql_parser`, statements that do not parse, and prefix lengths of key
  parts.  The limits of FILTER comments are inputs of `RowDump`.  Of `check_data.c` regular
  expressions, which the grammar cannot state.
* The digits of FLOAT and DOUBLE, which printf chooses; characters of more than a byte,
  which c_parser treats as bytes; debug output; names of directories and files.
* The names of types and the clauses behind the key in the statement of sys_parser, which are
  text.
* test.sh, Makefile, vagrant, omnibus, sakila.
* The vendored code in `include/`, apart from the functions that the modules name.  It is
  some nine tenths of the lines of the repository; the tools call a few
  dozen of them (accessors of record and page headers, checksums, decimals) and the rest
  declares types or is never called.  Of the eleven files that are the tools themselves
  the modules stand for about 2800 of 4300 lines.

## 6. Plan

Written so far, in this order: `PageCarving`, `StreamScan`, `CParser`,
`FetchData`, `InnoChecksum`, `RecordOffsets`, `TableDef`, `BlobChain`;
`FieldValues` and `RowDump`; `ScanJob`, `RecoverDictionary`, `SysParser`,
`Recovery`; the proofs named above.  To come:

1. Composition of `TableDef` with `RecordOffsets`: the fields that the one lays out
   are the table that the other reads by.
2. Several copies of a page in one file of option -b in `BlobChain`, of which the first
   is read.
