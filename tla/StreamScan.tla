----------------------------- MODULE StreamScan -----------------------------
(***************************************************************************)
(* The scan loop of stream_parser.c: one worker (process_ibfile) reads a   *)
(* tablespace or a raw device through a bounded cache, looks for InnoDB    *)
(* pages at EVERY byte offset and appends each page it finds to the file   *)
(* of its index (FIL_PAGE_INDEX/<index id>.page) or to the file of its     *)
(* page number (FIL_PAGE_TYPE_BLOB/<page id>.page).                        *)
(*                                                                         *)
(* Bytes are abstracted to what the scan can tell apart: an image says     *)
(* which offsets hold a zero byte, and at which offsets a page starts      *)
(* (everything behind the first four bytes is in order: the infimum and    *)
(* supremum strings for an INDEX page, type, lengths and checksums for a   *)
(* BLOB page); with them goes the length of the range main() hands to the  *)
(* worker, ib_size / ncpu, which may exceed what can be read (option -t),  *)
(* and disk_space, the bytes the destination can still take.               *)
(* A cell of the cache holds the offset of the file byte that was read     *)
(* into it, so the content of the cache is exact, stale cells included.    *)
(***************************************************************************)
EXTENDS Integers, Sequences

CONSTANTS
    UNIV_PAGE_SIZE,  \* bytes of a page; the first 4 are its checksum field
    cache_size,      \* option -s
    file_size,       \* bytes that can really be read from the file
    start_offset,    \* first byte of the worker's range, 0 for the only worker
    max_page_id,     \* ib_size / UNIV_PAGE_SIZE
    filter_id,       \* option -T, 0 when it is not given
    Images           \* the inputs considered

NoByte == -1     \* a cache cell that was never written (malloc'ed memory)

Offsets == 0 .. file_size - 1

\* What the page at an offset says of itself.  "other" is a page that has the
\* infimum and supremum records of an index page and another FIL_PAGE_TYPE.
PageHeaders == [kind : {"index", "blob", "other"}, index_id : Nat, page_id : Nat]

(***************************************************************************)
(* main() refuses a cache smaller than a page (only when -s is given; the  *)
(* default of 100M is larger).  A page that exists has a non-zero byte     *)
(* behind its checksum: its page number is not 0.                          *)
(***************************************************************************)
ASSUME SizesAssumption ==
    /\ UNIV_PAGE_SIZE \in Nat /\ UNIV_PAGE_SIZE > 4
    /\ cache_size \in Nat /\ cache_size >= UNIV_PAGE_SIZE
    /\ file_size \in Nat /\ start_offset \in Nat
    /\ max_page_id \in Nat /\ filter_id \in Nat

IsImage(image) ==
    /\ image.length \in Nat /\ image.disk_space \in Nat
    /\ image.zero \subseteq Offsets
    /\ DOMAIN image.page \subseteq {o \in Offsets : o + UNIV_PAGE_SIZE <= file_size}
    /\ \A o \in DOMAIN image.page :
          /\ image.page[o] \in PageHeaders
          /\ \E k \in 4 .. UNIV_PAGE_SIZE - 1 : o + k \notin image.zero

ASSUME ImagesAssumption == \A image \in Images : IsImage(image)

VARIABLES
    img,                \* the input, never changed
    pc,                 \* "read", "scan", "done", or, with exit status 1,
                        \* "read_failed" or "write_failed"
    curr_disk_offset,   \* position of the file descriptor
    cache,              \* cell -> offset of the byte it holds
    bytes_in_cache,
    curr_cache_offset,
    free,               \* room left on the destination file system
    out,                \* every write(), in order
    taken               \* history: offsets handed to process_ibpage, in order

vars == <<img, pc, curr_disk_offset, cache, bytes_in_cache, curr_cache_offset,
          free, out, taken>>
-----------------------------------------------------------------------------
(* What valid_blob_page and valid_innodb_page decide                       *)

Lesser(x, y) == IF x < y THEN x ELSE y

\* The cells from c on hold the whole page that starts at offset o.
Holds(c, o) == \A k \in 0 .. UNIV_PAGE_SIZE - 1 : cache[c + k] = o + k

\* mach_read_from_4(page) == 0
ChecksumIsZero(c) == \A k \in 0 .. 3 : cache[c + k] \in img.zero

page_id_ok(o) == img.page[o].page_id \in 1 .. max_page_id

valid_blob_page(c, o) ==
    /\ Holds(c, o)
    /\ img.page[o].kind = "blob"
    /\ page_id_ok(o)

valid_innodb_page(c, o) ==
    /\ Holds(c, o)
    /\ ~ ChecksumIsZero(c)
    /\ img.page[o].kind \in {"index", "other"}
    /\ page_id_ok(o)

IsPage(c, o) == valid_blob_page(c, o) \/ valid_innodb_page(c, o)

\* May the byte in cell c read as zero (as non-zero)?  The byte behind the
\* data is stale, was never initialised, or lies behind the heap block.
MayBeZero(c) == c >= cache_size \/ cache[c] = NoByte \/ cache[c] \in img.zero
MayBeData(c) == c >= cache_size \/ cache[c] \notin img.zero

(***************************************************************************)
(* The counter i when "while(page[i] == 0){ i++; if(i > block_size) break;}"*)
(* ends.  A run that reaches the end of the data reads page[block_size],   *)
(* one byte too far.                                                       *)
(***************************************************************************)
ZeroRuns(c, block_size) ==
    {i \in 4 .. block_size + 1 :
        /\ \A k \in 0 .. Lesser(i, block_size) - 1 : cache[c + k] \in img.zero
        /\ i < block_size => cache[c + i] \notin img.zero
        /\ i = block_size => MayBeData(c + i)
        /\ i = block_size + 1 => MayBeZero(c + block_size)}
-----------------------------------------------------------------------------
(* process_ibpage                                                          *)

Filtered(o) == filter_id # 0 /\ filter_id # img.page[o].index_id

Destination(o) ==
    IF img.page[o].kind = "index"
    THEN <<"FIL_PAGE_INDEX", img.page[o].index_id>>
    ELSE <<"FIL_PAGE_TYPE_BLOB", img.page[o].page_id>>

\* (Defect: the result of write() is not looked at.)
process_ibpage_unchecked(o) ==
    \/ /\ Filtered(o)
       /\ UNCHANGED <<out, free>>
    \/ /\ ~ Filtered(o)
       /\ LET len == Lesser(UNIV_PAGE_SIZE, free) IN
            /\ out' = Append(out, [file |-> Destination(o), off |-> o, len |-> len])
            /\ free' = free - len

\* write() takes what the file system has room for, and returns -1 when that
\* is nothing; a short count is not looked at.
process_ibpage(o) ==
    \/ /\ Filtered(o)
       /\ UNCHANGED <<out, free>>
    \/ /\ ~ Filtered(o)
       /\ free > 0
       /\ LET len == Lesser(UNIV_PAGE_SIZE, free) IN
            /\ out' = Append(out, [file |-> Destination(o), off |-> o, len |-> len])
            /\ free' = free - len

WriteFails(o) == ~ Filtered(o) /\ free = 0
-----------------------------------------------------------------------------
Init ==
    /\ img \in Images
    /\ pc = "read"
    /\ curr_disk_offset = start_offset
    /\ cache = [c \in 0 .. cache_size - 1 |-> NoByte]
    /\ bytes_in_cache = 0
    /\ curr_cache_offset = 0
    /\ free = img.disk_space
    /\ out = << >>
    /\ taken = << >>

\* (Defect: the loop stops when less than a whole cache is left to read.)
InRangeByCache == curr_disk_offset - start_offset + cache_size <= img.length

InRange == curr_disk_offset - start_offset < img.length

\* read() may return any part of what was asked for, 0 at the end of the file
\* (or when there is no room in the cache).
Readable == Lesser(cache_size - curr_cache_offset, file_size - curr_disk_offset)

Read(disk_read) ==
    /\ pc = "read" /\ InRange
    /\ disk_read <= Readable
    /\ cache' = [c \in DOMAIN cache |->
                   IF c \in curr_cache_offset .. curr_cache_offset + disk_read - 1
                   THEN curr_disk_offset + (c - curr_cache_offset)
                   ELSE cache[c]]
    /\ bytes_in_cache' = curr_cache_offset + disk_read
    /\ curr_cache_offset' = 0
    /\ curr_disk_offset' = curr_disk_offset + disk_read
    /\ pc' = "scan"
    /\ UNCHANGED <<img, free, out, taken>>

\* disk_read == 0: break
Eof ==
    /\ pc = "read" /\ InRange
    /\ Readable <= 0
    /\ pc' = "done"
    /\ UNCHANGED <<img, curr_disk_offset, cache, bytes_in_cache,
                   curr_cache_offset, free, out, taken>>

\* disk_read == -1: exit(EXIT_FAILURE)
ReadError ==
    /\ pc = "read" /\ InRange
    /\ pc' = "read_failed"
    /\ UNCHANGED <<img, curr_disk_offset, cache, bytes_in_cache,
                   curr_cache_offset, free, out, taken>>

RangeDone ==
    /\ pc = "read" /\ ~ InRange
    /\ pc' = "done"
    /\ UNCHANGED <<img, curr_disk_offset, cache, bytes_in_cache,
                   curr_cache_offset, free, out, taken>>

Remaining == bytes_in_cache - curr_cache_offset

Scanning == pc = "scan" /\ Remaining >= UNIV_PAGE_SIZE

NoPageHere == \A o \in DOMAIN img.page : ~ IsPage(curr_cache_offset, o)

\* (Defect: after a page the pointer moves by one byte, as after anything else.)
TakePageByByte ==
    /\ Scanning
    /\ \E o \in DOMAIN img.page :
          /\ IsPage(curr_cache_offset, o)
          /\ process_ibpage(o)
          /\ taken' = Append(taken, o)
    /\ curr_cache_offset' = curr_cache_offset + 1
    /\ UNCHANGED <<img, pc, curr_disk_offset, cache, bytes_in_cache>>

\* A page is in the cache: save it and step over it.
TakePage ==
    /\ Scanning
    /\ \E o \in DOMAIN img.page :
          /\ IsPage(curr_cache_offset, o)
          /\ process_ibpage(o)
          /\ taken' = Append(taken, o)
    /\ curr_cache_offset' = curr_cache_offset + UNIV_PAGE_SIZE
    /\ UNCHANGED <<img, pc, curr_disk_offset, cache, bytes_in_cache>>

\* The write of a page returns -1: exit(EXIT_FAILURE).
TakePageFails ==
    /\ Scanning
    /\ \E o \in DOMAIN img.page : IsPage(curr_cache_offset, o) /\ WriteFails(o)
    /\ pc' = "write_failed"
    /\ UNCHANGED <<img, curr_disk_offset, cache, bytes_in_cache,
                   curr_cache_offset, free, out, taken>>

\* (Defect: the whole run of zeros is stepped over.)
SkipAllZeros ==
    /\ Scanning
    /\ NoPageHere
    /\ ChecksumIsZero(curr_cache_offset)
    /\ \E i \in ZeroRuns(curr_cache_offset, Remaining) :
          curr_cache_offset' = curr_cache_offset + i
    /\ UNCHANGED <<img, pc, curr_disk_offset, cache, bytes_in_cache,
                   free, out, taken>>

\* (Defect: a run of zeros that ends the data is not stepped over.)
SkipInnerZeros ==
    /\ Scanning
    /\ NoPageHere
    /\ ChecksumIsZero(curr_cache_offset)
    /\ \E i \in ZeroRuns(curr_cache_offset, Remaining) :
          curr_cache_offset' = curr_cache_offset + (IF i < Remaining THEN i - 3 ELSE 0)
    /\ UNCHANGED <<img, pc, curr_disk_offset, cache, bytes_in_cache,
                   free, out, taken>>

\* No page here and the first four bytes are zero: step over the run of
\* zeros, but for three of them.
SkipZeros ==
    /\ Scanning
    /\ NoPageHere
    /\ ChecksumIsZero(curr_cache_offset)
    /\ \E i \in ZeroRuns(curr_cache_offset, Remaining) :
          curr_cache_offset' = curr_cache_offset + (i - 3)
    /\ UNCHANGED <<img, pc, curr_disk_offset, cache, bytes_in_cache,
                   free, out, taken>>

SkipByte ==
    /\ Scanning
    /\ NoPageHere
    /\ ~ ChecksumIsZero(curr_cache_offset)
    /\ curr_cache_offset' = curr_cache_offset + 1
    /\ UNCHANGED <<img, pc, curr_disk_offset, cache, bytes_in_cache,
                   free, out, taken>>

\* (Defect: the remainder is overwritten by the next read.)
ForgetRemainder ==
    /\ pc = "scan" /\ Remaining < UNIV_PAGE_SIZE
    /\ curr_cache_offset' = 0
    /\ pc' = "read"
    /\ UNCHANGED <<img, curr_disk_offset, cache, bytes_in_cache, free, out, taken>>

\* (Defect: the remainder is counted but not copied.)
KeepRemainderInPlace ==
    /\ pc = "scan" /\ Remaining < UNIV_PAGE_SIZE
    /\ curr_cache_offset' = Remaining
    /\ pc' = "read"
    /\ UNCHANGED <<img, curr_disk_offset, cache, bytes_in_cache, free, out, taken>>

\* Less than a page is left: move it to the beginning of the cache.
MoveRemainder ==
    /\ pc = "scan" /\ Remaining < UNIV_PAGE_SIZE
    /\ IF curr_cache_offset < bytes_in_cache
       THEN /\ cache' = [c \in DOMAIN cache |->
                           IF c < Remaining THEN cache[curr_cache_offset + c]
                           ELSE cache[c]]
            /\ curr_cache_offset' = Remaining
       ELSE /\ curr_cache_offset' = 0
            /\ UNCHANGED cache
    /\ pc' = "read"
    /\ UNCHANGED <<img, curr_disk_offset, bytes_in_cache, free, out, taken>>

Stopped == pc \in {"done", "read_failed", "write_failed"}

Terminated == Stopped /\ UNCHANGED vars

Next ==
    \/ \E disk_read \in 1 .. cache_size : Read(disk_read)
    \/ Eof
    \/ ReadError
    \/ RangeDone
    \/ TakePage
    \/ TakePageFails
    \/ SkipZeros
    \/ SkipByte
    \/ MoveRemainder
    \/ Terminated

\* A single process runs the loop; it stops only in a system call, and the
\* system calls return.
Fairness == WF_vars(Next)

Spec == Init /\ [][Next]_vars /\ Fairness
-----------------------------------------------------------------------------
(* Properties                                                              *)

\* Every variable has its type: the pointer never leaves the cache, also where
\* the run of zeros is read one byte too far (stream_parser.c:206-221, 447).
TypeOK ==
    /\ IsImage(img)
    /\ pc \in {"read", "scan", "done", "read_failed", "write_failed"}
    /\ curr_disk_offset \in Nat
    /\ cache \in [0 .. cache_size - 1 -> Offsets \cup {NoByte}]
    /\ bytes_in_cache \in 0 .. cache_size
    /\ curr_cache_offset \in 0 .. cache_size
    /\ free \in 0 .. img.disk_space
    /\ out \in Seq([file : {"FIL_PAGE_INDEX", "FIL_PAGE_TYPE_BLOB"} \X Nat,
                    off : Offsets, len : 0 .. UNIV_PAGE_SIZE])
    /\ taken \in Seq(Offsets)

\* The offset up to which the file has been looked at.
Position ==
    IF pc \in {"scan", "write_failed"}
    THEN curr_disk_offset - bytes_in_cache + curr_cache_offset
    ELSE curr_disk_offset - curr_cache_offset

(***************************************************************************)
(* What the loop still has to look at is exactly the part of the file that *)
(* ends at the descriptor's position: no byte is skipped, repeated or      *)
(* taken from a stale cell when the remainder of one read is moved in      *)
(* front of the next (stream_parser.c:416-471).                            *)
(***************************************************************************)
WindowMirrorsFile ==
    /\ pc = "scan" =>
         /\ curr_cache_offset <= bytes_in_cache
         /\ \A c \in curr_cache_offset .. bytes_in_cache - 1 :
               cache[c] = Position + (c - curr_cache_offset)
    /\ pc = "read" =>
         \A c \in 0 .. curr_cache_offset - 1 : cache[c] = Position + c

(***************************************************************************)
(* Each page found lies behind the end of the one found before it and not  *)
(* beyond what has been looked at: no byte of the file ends up in two      *)
(* pages, and no page is saved twice, whatever the sizes of the reads      *)
(* (stream_parser.c:441-442, the step over a page).                        *)
(***************************************************************************)
TakenDisjoint ==
    /\ \A i, j \in 1 .. Len(taken) :
         i < j => taken[i] + UNIV_PAGE_SIZE <= taken[j]
    /\ pc \in {"read", "scan"} =>
         \A i \in 1 .. Len(taken) : taken[i] + UNIV_PAGE_SIZE <= Position

(***************************************************************************)
(* A page the scan is sure to recognise: the header is in order and its    *)
(* checksum does not begin with three zero bytes.  A page whose checksum   *)
(* is 000000xx may be stepped into when a run of zeros before it is cut by *)
(* the end of the data in the cache (stream_parser.c:206-221); an INDEX    *)
(* page with checksum 0 is never recognised.                               *)
(***************************************************************************)
Certain(o) == page_id_ok(o) /\ \E k \in 0 .. 2 : o + k \notin img.zero

Overlapped(o) ==
    \E i \in 1 .. Len(taken) : taken[i] <= o /\ o < taken[i] + UNIV_PAGE_SIZE

(***************************************************************************)
(* Every such page that starts before the current position was handed to   *)
(* process_ibpage, or starts inside a page that was: neither the step over *)
(* a run of zeros nor the refill of the cache loses a page                 *)
(* (stream_parser.c:206-221, 428-471).                                     *)
(***************************************************************************)
NoPageMissed ==
    \A o \in DOMAIN img.page :
        (Certain(o) /\ start_offset <= o /\ o < Position) => Overlapped(o)

(***************************************************************************)
(* A worker that ends without an error has looked at every offset of its   *)
(* range at which a whole page of the range could start: the loop never    *)
(* takes a full cache for the end of the file (stream_parser.c:410-425).   *)
(***************************************************************************)
RangeCovered ==
    pc = "done" =>
        Position + UNIV_PAGE_SIZE > Lesser(start_offset + img.length, file_size)

(***************************************************************************)
(* When the destination fills up at most one page is torn, and it is the   *)
(* last one written: every page file keeps whole pages in front of it, so  *)
(* that reading it back page by page stays aligned (stream_parser.c:365-   *)
(* 370, c_parser.c:694).                                                   *)
(***************************************************************************)
TornPageIsLast ==
    \A i \in 1 .. Len(out) : out[i].len = UNIV_PAGE_SIZE
                               \/ (i = Len(out) /\ out[i].len > 0)

\* The scan comes to an end: every turn of the inner loop moves forward, also
\* over a run of zeros (stream_parser.c:428-447).
Termination == <> Stopped
-----------------------------------------------------------------------------
(***************************************************************************)
(* The scan through the cache implements carving over the whole file: its  *)
(* reads and refills are invisible, its steps over bytes and zeros advance *)
(* the cursor over offsets without a certain page, and it is complete only *)
(* when no whole page of its range is left (stream_parser.c:388-485).      *)
(***************************************************************************)
Recognisable(o) ==
    /\ page_id_ok(o)
    /\ img.page[o].kind = "blob" \/ \E k \in 0 .. 3 : o + k \notin img.zero

Carve == INSTANCE PageCarving WITH
    PageSize <- UNIV_PAGE_SIZE,
    First    <- start_offset,
    goal     <- Lesser(start_offset + img.length, file_size),
    found    <- {o \in DOMAIN img.page : Recognisable(o)},
    certain  <- {o \in DOMAIN img.page : Certain(o)},
    cursor   <- Position,
    complete <- pc = "done"

CarvesWholeFile == Carve!Carving
=============================================================================
