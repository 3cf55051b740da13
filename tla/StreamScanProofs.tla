-------------------------- MODULE StreamScanProofs --------------------------
(***************************************************************************)
(* Proofs about StreamScan, for every page size, cache size, file size and *)
(* every set of images.  One inductive invariant, IInv, carries all the    *)
(* safety properties; it adds to them what the loop maintains between its  *)
(* turns: how much may be left in the cache when it is refilled, and where *)
(* the scan stands in its range.                                           *)
(***************************************************************************)
EXTENDS StreamScan, TLAPS

\* Bounds the loop keeps: a refill leaves less than a page in the cache, the
\* pointer stays inside the data, and the scan never falls behind its start.
Bounds ==
    /\ img \in Images
    /\ pc = "read" => curr_cache_offset < UNIV_PAGE_SIZE
    /\ pc = "scan" => curr_cache_offset <= bytes_in_cache
    /\ pc \in {"read", "scan", "done"} => Position >= start_offset

IInv == /\ TypeOK /\ Bounds /\ WindowMirrorsFile
        /\ TakenDisjoint /\ NoPageMissed /\ RangeCovered

-----------------------------------------------------------------------------
LEMMA TakenAreInts == TypeOK => \A i \in 1 .. Len(taken) : taken[i] \in Int
BY SizesAssumption DEF TypeOK, Offsets

LEMMA PositionIsInt == TypeOK => Position \in Int
BY SizesAssumption DEF TypeOK, Position

\* A page found in the window starts at the current position.
LEMMA PageIsAtPosition ==
    ASSUME TypeOK, WindowMirrorsFile, Scanning,
           NEW o \in DOMAIN img.page, IsPage(curr_cache_offset, o)
    PROVE  o = Position /\ o \in Offsets
<1>1. Holds(curr_cache_offset, o)
  BY DEF IsPage, valid_blob_page, valid_innodb_page
<1>2. cache[curr_cache_offset] = o
  <2>1. 0 \in 0 .. UNIV_PAGE_SIZE - 1
    BY SizesAssumption
  <2>2. cache[curr_cache_offset + 0] = o + 0
    BY <1>1, <2>1 DEF Holds
  <2>3. o \in Int /\ curr_cache_offset \in Int
    BY SizesAssumption DEF TypeOK, IsImage, Offsets
  <2> QED BY <2>2, <2>3
<1>3. cache[curr_cache_offset] = Position + (curr_cache_offset - curr_cache_offset)
  BY SizesAssumption DEF TypeOK, WindowMirrorsFile, Scanning, Remaining
<1>4. Position \in Int /\ o \in Offsets
  BY SizesAssumption DEF TypeOK, Position, IsImage, Scanning
<1> QED BY <1>2, <1>3, <1>4 DEF TypeOK

\* A certain page at the current position is found when the window holds it.
LEMMA CertainPageIsFound ==
    ASSUME TypeOK, WindowMirrorsFile, Scanning,
           NEW o \in DOMAIN img.page, Certain(o), o = Position
    PROVE  IsPage(curr_cache_offset, o)
<1>1. \A k \in 0 .. UNIV_PAGE_SIZE - 1 : cache[curr_cache_offset + k] = o + k
  <2> SUFFICES ASSUME NEW k \in 0 .. UNIV_PAGE_SIZE - 1
               PROVE  cache[curr_cache_offset + k] = o + k
    OBVIOUS
  <2>1. curr_cache_offset + k \in curr_cache_offset .. bytes_in_cache - 1
    BY SizesAssumption DEF TypeOK, Scanning, Remaining
  <2>2. cache[curr_cache_offset + k] = Position + ((curr_cache_offset + k) - curr_cache_offset)
    BY <2>1 DEF WindowMirrorsFile, Scanning
  <2>3. Position \in Int /\ curr_cache_offset \in Int
    BY SizesAssumption DEF TypeOK, Position, Scanning
  <2> QED BY <2>2, <2>3
<1>2. Holds(curr_cache_offset, o)
  BY <1>1 DEF Holds
<1>3. ~ ChecksumIsZero(curr_cache_offset)
  <2>1. PICK k \in 0 .. 2 : o + k \notin img.zero
    BY DEF Certain
  <2>2. cache[curr_cache_offset + k] = o + k
    BY <1>1, <2>1, SizesAssumption
  <2> QED BY <2>1, <2>2 DEF ChecksumIsZero
<1>4. img.page[o].kind \in {"index", "blob", "other"}
  BY DEF TypeOK, IsImage, PageHeaders
<1> QED BY <1>2, <1>3, <1>4 DEF IsPage, valid_blob_page, valid_innodb_page, Certain

-----------------------------------------------------------------------------
\* The loop starts in the invariant: an empty window, at the range's start.
THEOREM InitIInv == Init => IInv
<1> SUFFICES ASSUME Init PROVE IInv
  OBVIOUS
<1> USE DEF Init
<1>1. TypeOK
  BY SizesAssumption, ImagesAssumption DEF TypeOK
<1>2. Bounds
  BY SizesAssumption DEF Bounds, Position
<1>3. WindowMirrorsFile
  BY SizesAssumption DEF WindowMirrorsFile
<1>4. TakenDisjoint
  BY DEF TakenDisjoint
<1>5. NoPageMissed
  <2> SUFFICES ASSUME NEW o \in DOMAIN img.page, start_offset <= o, o < Position
               PROVE  FALSE
    BY DEF NoPageMissed
  <2>1. o \in Int
    BY <1>1, SizesAssumption DEF TypeOK, IsImage, Offsets
  <2> QED BY <2>1, SizesAssumption DEF Position
<1>6. RangeCovered
  BY DEF RangeCovered
<1> QED BY <1>1, <1>2, <1>3, <1>4, <1>5, <1>6 DEF IInv
-----------------------------------------------------------------------------
\* NoPageMissed survives a step that finds nothing new and passes no certain
\* page.
LEMMA AdvanceKeepsNoPageMissed ==
    ASSUME TypeOK, NoPageMissed, UNCHANGED <<img, taken>>,
           \A o \in DOMAIN img.page :
              (Certain(o) /\ start_offset <= o /\ o < Position') => o < Position
    PROVE  NoPageMissed'
BY DEF NoPageMissed, Certain, page_id_ok, Overlapped

\* read() appends file bytes behind the remainder: the window grows, the
\* position stays.
LEMMA ReadStep ==
    ASSUME IInv, NEW disk_read \in 1 .. cache_size, Read(disk_read)
    PROVE  IInv'
<1> USE DEF IInv
<1>1. /\ disk_read \in Nat /\ disk_read > 0
      /\ curr_cache_offset + disk_read <= cache_size
      /\ curr_disk_offset + disk_read <= file_size
      /\ curr_cache_offset \in Nat /\ curr_disk_offset \in Nat
  BY SizesAssumption DEF Read, Readable, Lesser, TypeOK
<1>2. TypeOK'
  <2>1. cache' \in [0 .. cache_size - 1 -> Offsets \cup {NoByte}]
    <3>1. \A c \in curr_cache_offset .. curr_cache_offset + disk_read - 1 :
             curr_disk_offset + (c - curr_cache_offset) \in Offsets
      BY <1>1, SizesAssumption DEF Offsets
    <3> QED BY <3>1 DEF TypeOK, Read
  <2>2. IsImage(img)'
    BY DEF TypeOK, Read, IsImage
  <2>3. UNCHANGED <<img, free, out, taken>> /\ pc' = "scan"
    BY DEF Read
  <2>4. /\ curr_disk_offset' \in Nat
        /\ bytes_in_cache' \in 0 .. cache_size
        /\ curr_cache_offset' \in 0 .. cache_size
    BY <1>1, SizesAssumption DEF Read
  <2> QED BY <2>1, <2>2, <2>3, <2>4 DEF TypeOK
<1>3. Position' = Position
  BY <1>1 DEF Position, Read
<1>4. WindowMirrorsFile'
  <2> SUFFICES ASSUME NEW c \in 0 .. curr_cache_offset + disk_read - 1
               PROVE  cache'[c] = Position + c
    <3>1. pc' = "scan" /\ curr_cache_offset' = 0
          /\ bytes_in_cache' = curr_cache_offset + disk_read
      BY DEF Read
    <3>2. \A c \in 0 .. curr_cache_offset + disk_read - 1 :
             Position + (c - 0) = Position + c
      BY <1>1, SizesAssumption DEF Position, TypeOK
    <3> QED BY <1>1, <1>3, <3>1, <3>2 DEF WindowMirrorsFile
  <2>1. c \in DOMAIN cache
    BY <1>1, SizesAssumption DEF TypeOK
  <2>2. CASE c < curr_cache_offset
    <3>1. cache'[c] = cache[c]
      BY <1>1, <2>1, <2>2 DEF Read
    <3> QED BY <3>1, <2>2, <1>1 DEF WindowMirrorsFile, Read
  <2>3. CASE c >= curr_cache_offset
    <3>1. cache'[c] = curr_disk_offset + (c - curr_cache_offset)
      BY <1>1, <2>1, <2>3 DEF Read
    <3> QED BY <3>1, <1>1 DEF Position, Read
  <2> QED BY <2>2, <2>3, <1>1
<1>5. Bounds'
  BY <1>1, <1>3, SizesAssumption DEF Bounds, Read, TypeOK
<1>6. TakenDisjoint'
  BY <1>3 DEF TakenDisjoint, Read
<1>7. NoPageMissed'
  BY <1>3, AdvanceKeepsNoPageMissed DEF Read
<1>8. RangeCovered'
  BY DEF RangeCovered, Read
<1> QED BY <1>2, <1>4, <1>5, <1>6, <1>7, <1>8

\* The three ways out of the read: only an error may leave the range before
\* its end, because there is always room for a read.
LEMMA StopStep ==
    ASSUME IInv, Eof \/ ReadError \/ RangeDone
    PROVE  IInv'
<1> USE DEF IInv, Eof, ReadError, RangeDone
<1>1. TypeOK'
  BY DEF TypeOK, IsImage
<1>2. Position' = Position
  BY DEF Position
<1>3. Bounds'
  BY <1>2 DEF Bounds
<1>4. WindowMirrorsFile'
  BY DEF WindowMirrorsFile
<1>5. TakenDisjoint'
  BY DEF TakenDisjoint
<1>6. NoPageMissed'
  BY <1>2, AdvanceKeepsNoPageMissed
<1>7. RangeCovered'
  <2>1. img.length \in Nat /\ img' = img
    BY DEF TypeOK, IsImage
  <2>2. /\ curr_disk_offset \in Nat /\ cache_size \in Nat /\ cache_size >= UNIV_PAGE_SIZE
        /\ curr_cache_offset \in Nat /\ UNIV_PAGE_SIZE \in Nat /\ file_size \in Nat
    BY SizesAssumption DEF TypeOK
  <2>3. CASE RangeDone
    BY <2>1, <2>2, <2>3, <1>2, SizesAssumption
       DEF RangeCovered, Bounds, Position, InRange, Lesser
  <2>4. CASE Eof
    BY <2>1, <2>2, <2>4, <1>2, SizesAssumption
       DEF RangeCovered, Bounds, Position, InRange, Readable, Lesser
  <2>5. CASE ReadError
    BY <2>5 DEF RangeCovered
  <2> QED BY <2>3, <2>4, <2>5
<1> QED BY <1>1, <1>3, <1>4, <1>5, <1>6, <1>7

\* A page is taken at the position, and the position jumps behind it.
LEMMA TakePageStep ==
    ASSUME IInv, TakePage
    PROVE  IInv'
<1> USE DEF IInv
<1>1. PICK o \in DOMAIN img.page :
         /\ IsPage(curr_cache_offset, o)
         /\ process_ibpage(o)
         /\ taken' = Append(taken, o)
  BY DEF TakePage
<1>2. o = Position /\ o \in Offsets
  BY <1>1, PageIsAtPosition DEF TakePage
<1>3. /\ curr_cache_offset' = curr_cache_offset + UNIV_PAGE_SIZE
      /\ curr_cache_offset' <= bytes_in_cache
      /\ UNCHANGED <<img, pc, curr_disk_offset, cache, bytes_in_cache>>
      /\ pc = "scan"
  BY SizesAssumption DEF TakePage, Scanning, Remaining, TypeOK
<1>4. Position' = Position + UNIV_PAGE_SIZE /\ Position \in Int
  BY <1>3, SizesAssumption DEF Position, TypeOK
<1>5. TypeOK'
  <2>1. /\ out' \in Seq([file : {"FIL_PAGE_INDEX", "FIL_PAGE_TYPE_BLOB"} \X Nat,
                         off : Offsets, len : 0 .. UNIV_PAGE_SIZE])
        /\ free' \in 0 .. img.disk_space
    <3>1. CASE Filtered(o)
      BY <1>1, <3>1 DEF process_ibpage, TypeOK
    <3>2. CASE ~ Filtered(o)
      <4>1. Lesser(UNIV_PAGE_SIZE, free) \in 0 .. UNIV_PAGE_SIZE
            /\ free - Lesser(UNIV_PAGE_SIZE, free) \in 0 .. img.disk_space
        BY SizesAssumption DEF Lesser, TypeOK
      <4>2. Destination(o) \in {"FIL_PAGE_INDEX", "FIL_PAGE_TYPE_BLOB"} \X Nat
        BY DEF Destination, TypeOK, IsImage, PageHeaders
      <4> DEFINE len == Lesser(UNIV_PAGE_SIZE, free)
                 entry == [file |-> Destination(o), off |-> o, len |-> len]
      <4>3. out' = Append(out, entry) /\ free' = free - len
        BY <1>1, <3>2 DEF process_ibpage
      <4>4. entry \in [file : {"FIL_PAGE_INDEX", "FIL_PAGE_TYPE_BLOB"} \X Nat,
                       off : Offsets, len : 0 .. UNIV_PAGE_SIZE]
        BY <1>2, <4>1, <4>2
      <4> HIDE DEF entry
      <4> QED BY <4>1, <4>3, <4>4 DEF TypeOK
    <3> QED BY <3>1, <3>2
  <2>2. taken' \in Seq(Offsets)
    BY <1>1, <1>2 DEF TypeOK
  <2>3. IsImage(img)' /\ curr_cache_offset' \in 0 .. cache_size
    BY <1>3, SizesAssumption DEF TypeOK, IsImage
  <2> QED BY <1>3, <2>1, <2>2, <2>3 DEF TypeOK
<1>6. Bounds'
  BY <1>3, <1>4, SizesAssumption DEF Bounds
<1>7. WindowMirrorsFile'
  BY <1>3, <1>4, SizesAssumption DEF WindowMirrorsFile, TypeOK
<1>8. Len(taken') = Len(taken) + 1 /\ taken'[Len(taken) + 1] = o
      /\ \A i \in 1 .. Len(taken) : taken'[i] = taken[i]
  BY <1>1 DEF TypeOK
<1>9. TakenDisjoint'
  <2>1. Len(taken) \in Nat /\ \A i \in 1 .. Len(taken) : taken[i] \in Int
    BY SizesAssumption DEF TypeOK, Offsets
  <2>2. \A i \in 1 .. Len(taken) : taken[i] + UNIV_PAGE_SIZE <= o
    BY <1>2, <1>3 DEF TakenDisjoint
  <2>3. \A i \in 1 .. Len(taken') : taken'[i] + UNIV_PAGE_SIZE <= Position'
    BY <2>1, <2>2, <1>2, <1>4, <1>8, SizesAssumption
  <2>4. \A i, j \in 1 .. Len(taken') : i < j => taken'[i] + UNIV_PAGE_SIZE <= taken'[j]
    <3> SUFFICES ASSUME NEW i \in 1 .. Len(taken'), NEW j \in 1 .. Len(taken'), i < j
                 PROVE  taken'[i] + UNIV_PAGE_SIZE <= taken'[j]
      OBVIOUS
    <3>1. i \in 1 .. Len(taken) /\ j \in 1 .. Len(taken) + 1
      BY <2>1, <1>8
    <3>2. CASE j \in 1 .. Len(taken)
      <4>1. taken[i] + UNIV_PAGE_SIZE <= taken[j]
        BY <3>1, <3>2 DEF TakenDisjoint
      <4> QED BY <3>1, <3>2, <4>1, <1>8
    <3>3. CASE j = Len(taken) + 1
      BY <3>1, <3>3, <2>2, <1>8
    <3> QED BY <2>1, <3>1, <3>2, <3>3
  <2> QED BY <2>3, <2>4 DEF TakenDisjoint
<1>10. NoPageMissed'
  <2> SUFFICES ASSUME NEW p \in DOMAIN img.page,
                      Certain(p), start_offset <= p, p < Position'
               PROVE  Overlapped(p)'
    BY <1>3 DEF NoPageMissed, Certain, page_id_ok
  <2>1. p \in Int
    BY SizesAssumption DEF TypeOK, IsImage, Offsets
  <2>2. CASE p < Position
    <3>1. PICK i \in 1 .. Len(taken) : taken[i] <= p /\ p < taken[i] + UNIV_PAGE_SIZE
      BY <2>2 DEF NoPageMissed, Overlapped
    <3>2. i \in 1 .. Len(taken') /\ taken'[i] = taken[i]
      BY <1>8 DEF TypeOK
    <3> QED BY <3>1, <3>2 DEF Overlapped
  <2>3. CASE p >= Position
    <3>1. Len(taken) + 1 \in 1 .. Len(taken')
      BY <1>8 DEF TypeOK
    <3>2. o <= p /\ p < o + UNIV_PAGE_SIZE
      BY <2>1, <2>3, <1>2, <1>4, SizesAssumption
    <3> QED BY <3>1, <3>2, <1>8 DEF Overlapped
  <2> QED BY <2>1, <2>2, <2>3, <1>4
<1>11. RangeCovered'
  BY <1>3 DEF RangeCovered
<1> QED BY <1>5, <1>6, <1>7, <1>9, <1>10, <1>11

\* A failed write stops the worker where it stands.
LEMMA TakePageFailsStep ==
    ASSUME IInv, TakePageFails
    PROVE  IInv'
<1> USE DEF IInv, TakePageFails
<1>1. TypeOK'
  BY DEF TypeOK, IsImage
<1>2. Position' = Position
  BY DEF Position, Scanning
<1>3. Bounds' /\ WindowMirrorsFile' /\ TakenDisjoint' /\ RangeCovered'
  BY DEF Bounds, WindowMirrorsFile, TakenDisjoint, RangeCovered
<1>4. NoPageMissed'
  BY <1>2, AdvanceKeepsNoPageMissed
<1> QED BY <1>1, <1>3, <1>4

\* Moving the pointer forward inside the data keeps the window and the order.
LEMMA ForwardStep ==
    ASSUME IInv, pc = "scan", NEW step \in Nat,
           curr_cache_offset + step <= bytes_in_cache,
           curr_cache_offset' = curr_cache_offset + step,
           UNCHANGED <<img, pc, curr_disk_offset, cache, bytes_in_cache,
                       free, out, taken>>
    PROVE  /\ TypeOK' /\ Bounds' /\ WindowMirrorsFile'
           /\ TakenDisjoint' /\ RangeCovered'
           /\ Position' = Position + step
<1> USE DEF IInv
<1>1. curr_cache_offset' \in 0 .. cache_size
  BY SizesAssumption DEF TypeOK
<1>2. IsImage(img)'
  BY DEF TypeOK, IsImage
<1>3. TypeOK'
  BY <1>1, <1>2 DEF TypeOK
<1>4. Position' = Position + step /\ Position \in Int
  BY SizesAssumption DEF Position, TypeOK
<1>5. Bounds'
  BY <1>4, SizesAssumption DEF Bounds
<1>6. WindowMirrorsFile'
  BY <1>4, SizesAssumption DEF WindowMirrorsFile, TypeOK
<1>7. TakenDisjoint'
  <2>1. \A i \in 1 .. Len(taken) : taken[i] \in Int
    BY SizesAssumption DEF TypeOK, Offsets
  <2> QED BY <1>4, <2>1, SizesAssumption DEF TakenDisjoint
<1>8. RangeCovered'
  BY DEF RangeCovered
<1> QED BY <1>3, <1>4, <1>5, <1>6, <1>7, <1>8

\* One byte forward: a certain page at that byte would have been found.
LEMMA SkipByteStep ==
    ASSUME IInv, SkipByte
    PROVE  IInv' /\ Position' > Position
<1> USE DEF IInv
<1>1. /\ curr_cache_offset + 1 <= bytes_in_cache
      /\ curr_cache_offset' = curr_cache_offset + 1
      /\ UNCHANGED <<img, pc, curr_disk_offset, cache, bytes_in_cache,
                     free, out, taken>>
      /\ pc = "scan"
  BY SizesAssumption DEF SkipByte, Scanning, Remaining, TypeOK
<1>2. /\ TypeOK' /\ Bounds' /\ WindowMirrorsFile' /\ TakenDisjoint' /\ RangeCovered'
      /\ Position' = Position + 1
  BY <1>1, ForwardStep
<1>3. NoPageMissed'
  <2> SUFFICES ASSUME NEW o \in DOMAIN img.page, Certain(o), o < Position'
               PROVE  o < Position
    BY <1>1, AdvanceKeepsNoPageMissed
  <2>1. o \in Int /\ Position \in Int
    BY SizesAssumption DEF TypeOK, IsImage, Offsets, Position
  <2>2. o # Position
    BY CertainPageIsFound DEF SkipByte, NoPageHere
  <2> QED BY <2>1, <2>2, <1>2
<1> QED BY <1>2, <1>3, PositionIsInt

\* A step over a run of zeros but for three of them: a certain page has a
\* byte that is not zero among its first, and the step passes only offsets
\* at which zeros of the run stand.
LEMMA SkipZerosStep ==
    ASSUME IInv, SkipZeros
    PROVE  IInv' /\ Position' > Position
<1> USE DEF IInv
<1>1. PICK i \in ZeroRuns(curr_cache_offset, Remaining) :
         curr_cache_offset' = curr_cache_offset + (i - 3)
  BY DEF SkipZeros
<1>2. /\ i \in 4 .. Remaining + 1
      /\ Remaining \in Nat /\ Remaining = bytes_in_cache - curr_cache_offset
      /\ curr_cache_offset \in Nat /\ bytes_in_cache \in Nat
      /\ pc = "scan"
      /\ UNCHANGED <<img, pc, curr_disk_offset, cache, bytes_in_cache,
                     free, out, taken>>
  <2>1. curr_cache_offset \in Nat /\ bytes_in_cache \in Nat
    BY DEF TypeOK
  <2>2. Remaining = bytes_in_cache - curr_cache_offset /\ Remaining \in Nat
        /\ pc = "scan"
    BY <2>1, SizesAssumption DEF SkipZeros, Scanning, Remaining
  <2>3. i \in 4 .. Remaining + 1
    BY DEF ZeroRuns
  <2> QED BY <2>1, <2>2, <2>3 DEF SkipZeros
<1>3. \A k \in 0 .. i - 2 : cache[curr_cache_offset + k] \in img.zero
  BY <1>2 DEF ZeroRuns, Lesser
<1>4. i - 3 \in Nat /\ curr_cache_offset + (i - 3) <= bytes_in_cache
  BY <1>2
<1>5. /\ TypeOK' /\ Bounds' /\ WindowMirrorsFile' /\ TakenDisjoint' /\ RangeCovered'
      /\ Position' = Position + (i - 3)
  BY <1>1, <1>2, <1>4, ForwardStep
<1>6. Position \in Int
  BY SizesAssumption DEF TypeOK, Position
<1>7. \A k \in 0 .. i - 2 : Position + k \in img.zero
  <2> SUFFICES ASSUME NEW k \in 0 .. i - 2 PROVE Position + k \in img.zero
    OBVIOUS
  <2>1. curr_cache_offset + k \in curr_cache_offset .. bytes_in_cache - 1
    BY <1>2
  <2>2. cache[curr_cache_offset + k] = Position + ((curr_cache_offset + k) - curr_cache_offset)
    BY <1>2, <2>1 DEF WindowMirrorsFile
  <2>3. cache[curr_cache_offset + k] = Position + k
    BY <1>2, <1>6, <2>2
  <2> QED BY <1>3, <2>3
<1>8. NoPageMissed'
  <2> SUFFICES ASSUME NEW o \in DOMAIN img.page, Certain(o), o < Position',
                      ~ (o < Position)
               PROVE  FALSE
    BY <1>2, AdvanceKeepsNoPageMissed
  <2>1. o \in Int
    BY SizesAssumption DEF TypeOK, IsImage, Offsets
  <2>2. PICK k \in 0 .. 2 : o + k \notin img.zero
    BY DEF Certain
  <2>3. (o - Position) + k \in 0 .. i - 2
    BY <1>2, <1>5, <1>6, <2>1, <2>2
  <2>4. Position + ((o - Position) + k) = o + k
    BY <1>6, <2>1
  <2> QED BY <1>7, <2>2, <2>3, <2>4
<1> QED BY <1>1, <1>2, <1>5, <1>6, <1>8

\* The remainder moves to the front of the cache: the position stays.
LEMMA MoveRemainderStep ==
    ASSUME IInv, MoveRemainder
    PROVE  IInv' /\ Position' = Position
<1> USE DEF IInv
<1>1. /\ pc = "scan" /\ pc' = "read"
      /\ Remaining = bytes_in_cache - curr_cache_offset
      /\ Remaining \in 0 .. UNIV_PAGE_SIZE - 1
      /\ UNCHANGED <<img, curr_disk_offset, bytes_in_cache, free, out, taken>>
  BY SizesAssumption DEF MoveRemainder, Bounds, Remaining, TypeOK
<1>2. curr_cache_offset' = Remaining
  BY <1>1 DEF MoveRemainder, Bounds, TypeOK
<1>3. /\ cache' \in [0 .. cache_size - 1 -> Offsets \cup {NoByte}]
      /\ \A c \in 0 .. Remaining - 1 : cache'[c] = cache[curr_cache_offset + c]
  <2>1. curr_cache_offset \in Nat /\ bytes_in_cache \in 0 .. cache_size
    BY DEF TypeOK
  <2>2. CASE curr_cache_offset < bytes_in_cache
    <3>1. cache' = [c \in DOMAIN cache |->
                      IF c < Remaining THEN cache[curr_cache_offset + c] ELSE cache[c]]
      BY <2>2 DEF MoveRemainder
    <3>2. DOMAIN cache = 0 .. cache_size - 1
      BY DEF TypeOK
    <3>3. \A c \in 0 .. cache_size - 1 :
             c < Remaining => cache[curr_cache_offset + c] \in Offsets \cup {NoByte}
      BY <1>1, <2>1, SizesAssumption DEF TypeOK
    <3>4. \A c \in 0 .. Remaining - 1 : c \in 0 .. cache_size - 1 /\ c < Remaining
      BY <1>1, SizesAssumption
    <3>5. \A c \in 0 .. cache_size - 1 : cache[c] \in Offsets \cup {NoByte}
      BY DEF TypeOK
    <3> QED BY <3>1, <3>2, <3>3, <3>4, <3>5
  <2>3. CASE ~ (curr_cache_offset < bytes_in_cache)
    BY <1>1, <2>1, <2>3 DEF MoveRemainder, TypeOK
  <2> QED BY <2>2, <2>3
<1>4. Position' = Position /\ Position \in Int
  BY <1>1, <1>2, SizesAssumption DEF Position, TypeOK
<1>5. TypeOK'
  <2>1. IsImage(img)'
    BY <1>1 DEF TypeOK, IsImage
  <2> QED BY <1>1, <1>2, <1>3, <2>1, SizesAssumption DEF TypeOK
<1>6. WindowMirrorsFile'
  <2> SUFFICES ASSUME NEW c \in 0 .. Remaining - 1
               PROVE  cache'[c] = Position + c
    BY <1>1, <1>2, <1>4 DEF WindowMirrorsFile
  <2>1. curr_cache_offset + c \in curr_cache_offset .. bytes_in_cache - 1
    BY <1>1 DEF TypeOK
  <2>2. cache[curr_cache_offset + c] = Position + ((curr_cache_offset + c) - curr_cache_offset)
    BY <1>1, <2>1 DEF WindowMirrorsFile
  <2>3. (curr_cache_offset + c) - curr_cache_offset = c
    BY DEF TypeOK
  <2> QED BY <1>3, <2>2, <2>3
<1>7. Bounds'
  BY <1>1, <1>2, <1>4, SizesAssumption DEF Bounds
<1>8. TakenDisjoint'
  BY <1>1, <1>4 DEF TakenDisjoint
<1>9. NoPageMissed'
  BY <1>1, <1>4, AdvanceKeepsNoPageMissed
<1>10. RangeCovered'
  BY <1>1 DEF RangeCovered
<1> QED BY <1>4, <1>5, <1>6, <1>7, <1>8, <1>9, <1>10

-----------------------------------------------------------------------------
\* IInv is inductive.
THEOREM StepIInv == IInv /\ [Next]_vars => IInv'
<1> SUFFICES ASSUME IInv, [Next]_vars PROVE IInv'
  OBVIOUS
<1>1. ASSUME NEW disk_read \in 1 .. cache_size, Read(disk_read) PROVE IInv'
  BY <1>1, ReadStep
<1>2. CASE Eof \/ ReadError \/ RangeDone
  BY <1>2, StopStep
<1>3. CASE TakePage
  BY <1>3, TakePageStep
<1>4. CASE TakePageFails
  BY <1>4, TakePageFailsStep
<1>5. CASE SkipZeros
  BY <1>5, SkipZerosStep
<1>6. CASE SkipByte
  BY <1>6, SkipByteStep
<1>7. CASE MoveRemainder
  BY <1>7, MoveRemainderStep
<1>8. CASE UNCHANGED vars
  BY <1>8 DEF vars, IInv, TypeOK, IsImage, Bounds, Position, WindowMirrorsFile,
              TakenDisjoint, NoPageMissed, Certain, page_id_ok, Overlapped, RangeCovered
<1> QED BY <1>1, <1>2, <1>3, <1>4, <1>5, <1>6, <1>7, <1>8 DEF Next, Terminated

\* Every state of a scan satisfies the invariant.
THEOREM ScanIInv == Spec => []IInv
BY InitIInv, StepIInv, PTL DEF Spec

\* The cache never shows the scan a byte that is not the next one of the file,
\* whatever the sizes of cache, page, file and reads.
THEOREM ScanWindow == Spec => []WindowMirrorsFile
BY ScanIInv, PTL DEF IInv

\* No byte of the file is saved twice.
THEOREM ScanDisjoint == Spec => []TakenDisjoint
BY ScanIInv, PTL DEF IInv

\* No page that is sure to be recognised is passed over, for any image, any
\* cache of at least a page and any sizes of the reads.
THEOREM ScanMissesNothing == Spec => []NoPageMissed
BY ScanIInv, PTL DEF IInv

\* A scan that ends without an error has covered its range.
THEOREM ScanCoversRange == Spec => []RangeCovered
BY ScanIInv, PTL DEF IInv

\* Every variable keeps its type; the cache pointer stays inside the cache.
THEOREM ScanTypeOK == Spec => []TypeOK
BY ScanIInv, PTL DEF IInv
-----------------------------------------------------------------------------
(* StreamScan implements PageCarving                                       *)

\* A step that leaves the saved pages alone but moves the position is one that
\* carving may take: what it passes is not certain.
LEMMA ForwardIsAdvance ==
    ASSUME IInv, IInv', pc = "scan", Position' > Position,
           UNCHANGED <<img, pc, taken>>
    PROVE  Carve!Advance
<1> USE DEF IInv
<1>1. \A o \in {p \in DOMAIN img.page : Certain(p)} :
         ~ (Position <= o /\ o < Position')
  <2> SUFFICES ASSUME NEW o \in DOMAIN img.page, Certain(o),
                      Position <= o, o < Position'
               PROVE  FALSE
    OBVIOUS
  <2>1. o \in Int /\ Position \in Int /\ Position >= start_offset /\ start_offset \in Int
    <3>1. o \in Int
      BY SizesAssumption DEF TypeOK, IsImage, Offsets
    <3>2. Position >= start_offset
      BY DEF Bounds
    <3> QED BY <3>1, <3>2, PositionIsInt, SizesAssumption
  <2>2. Certain(o)' /\ o \in DOMAIN img'.page /\ start_offset <= o
    BY <2>1 DEF Certain, page_id_ok
  <2>3. Overlapped(o)
    BY <2>2 DEF NoPageMissed, Overlapped
  <2>4. PICK i \in 1 .. Len(taken) : o < taken[i] + UNIV_PAGE_SIZE
    BY <2>3 DEF Overlapped
  <2>5. taken[i] + UNIV_PAGE_SIZE <= Position /\ taken[i] \in Int
    <3>1. taken[i] + UNIV_PAGE_SIZE <= Position
      BY <2>4 DEF TakenDisjoint
    <3>2. taken[i] \in Int
      BY <2>4, TakenAreInts
    <3> QED BY <3>1, <3>2
  <2> QED BY <2>1, <2>4, <2>5, SizesAssumption
<1>2. /\ UNCHANGED {o \in DOMAIN img.page : Recognisable(o)}
      /\ UNCHANGED {o \in DOMAIN img.page : Certain(o)}
      /\ UNCHANGED Lesser(start_offset + img.length, file_size)
  BY DEF Recognisable, Certain, page_id_ok
<1> QED BY <1>1, <1>2 DEF Carve!Advance

\* A page the loop takes is one carving may take at its cursor.
LEMMA TakePageIsTake ==
    ASSUME IInv, TakePage
    PROVE  Carve!Take
<1> USE DEF IInv
<1>1. PICK o \in DOMAIN img.page :
         IsPage(curr_cache_offset, o) /\ taken' = Append(taken, o)
  BY DEF TakePage
<1>2. o = Position
  BY <1>1, PageIsAtPosition DEF TakePage
<1>3. Recognisable(o)
  <2>1. CASE valid_blob_page(curr_cache_offset, o)
    BY <2>1 DEF valid_blob_page, Recognisable
  <2>2. CASE valid_innodb_page(curr_cache_offset, o)
    <3>1. PICK k \in 0 .. 3 : cache[curr_cache_offset + k] \notin img.zero
      BY <2>2 DEF valid_innodb_page, ChecksumIsZero
    <3>2. k \in 0 .. UNIV_PAGE_SIZE - 1
      BY SizesAssumption
    <3>3. cache[curr_cache_offset + k] = o + k
      BY <2>2, <3>2 DEF valid_innodb_page, Holds
    <3> QED BY <2>2, <3>1, <3>3 DEF valid_innodb_page, Recognisable
  <2> QED BY <1>1, <2>1, <2>2 DEF IsPage
<1>4. Position' = Position + UNIV_PAGE_SIZE
  BY SizesAssumption DEF TakePage, Scanning, Position, TypeOK
<1>5. pc = "scan" /\ pc' = "scan" /\ img' = img
  BY DEF TakePage, Scanning
<1>6. /\ UNCHANGED {p \in DOMAIN img.page : Recognisable(p)}
      /\ UNCHANGED {p \in DOMAIN img.page : Certain(p)}
      /\ UNCHANGED Lesser(start_offset + img.length, file_size)
  BY <1>5 DEF Recognisable, Certain, page_id_ok
<1> QED BY <1>1, <1>2, <1>3, <1>4, <1>5, <1>6 DEF Carve!Take

\* Steps that carving does not see: reads, refills and failures.
LEMMA HiddenSteps ==
    ASSUME IInv, UNCHANGED <<img, taken>>, Position' = Position,
           (pc = "done") <=> (pc' = "done")
    PROVE  UNCHANGED Carve!carvingVars
<1>1. /\ UNCHANGED {p \in DOMAIN img.page : Recognisable(p)}
      /\ UNCHANGED {p \in DOMAIN img.page : Certain(p)}
      /\ UNCHANGED Lesser(start_offset + img.length, file_size)
  BY DEF Recognisable, Certain, page_id_ok
<1>2. (pc = "done") = (pc' = "done")
  OBVIOUS
<1> QED BY <1>1, <1>2 DEF Carve!carvingVars

\* The scan of a worker through its cache implements the carving of the whole
\* file: initial states map to initial states, steps to steps or stutters.
THEOREM ScanImplementsCarving == Spec => CarvesWholeFile
<1>1. Init => Carve!CarvingInit
  <2> SUFFICES ASSUME Init PROVE Carve!CarvingInit
    OBVIOUS
  <2>1. DOMAIN img.page \subseteq Nat
    BY ImagesAssumption DEF Init, IsImage, Offsets
  <2>2. \A o \in DOMAIN img.page : Certain(o) => Recognisable(o)
    BY DEF Certain, Recognisable
  <2>3. Position = start_offset /\ taken = << >> /\ ~ (pc = "done")
    BY SizesAssumption DEF Init, Position
  <2>4. Lesser(start_offset + img.length, file_size) \in Nat
    BY SizesAssumption, ImagesAssumption DEF Init, IsImage, Lesser
  <2> QED BY <2>1, <2>2, <2>3, <2>4 DEF Carve!CarvingInit
<1>2. IInv /\ IInv' /\ [Next]_vars => [Carve!CarvingNext]_(Carve!carvingVars)
  <2> SUFFICES ASSUME IInv, IInv', [Next]_vars
               PROVE  [Carve!CarvingNext]_(Carve!carvingVars)
    OBVIOUS
  <2> USE DEF IInv
  <2>1. ASSUME NEW disk_read \in 1 .. cache_size, Read(disk_read)
        PROVE  UNCHANGED Carve!carvingVars
    <3>1. Position' = Position
      BY <2>1 DEF Read, Position, TypeOK
    <3> QED BY <2>1, <3>1, HiddenSteps DEF Read
  <2>2. CASE ReadError
    <3>1. Position' = Position
      BY <2>2 DEF ReadError, Position
    <3> QED BY <2>2, <3>1, HiddenSteps DEF ReadError
  <2>3. CASE Eof \/ RangeDone
    <3>1. /\ UNCHANGED <<img, taken>> /\ Position' = Position
          /\ pc = "read" /\ pc' = "done"
      BY <2>3 DEF Eof, RangeDone, Position
    <3>2. Position + UNIV_PAGE_SIZE > Lesser(start_offset + img.length, file_size)
      BY <3>1 DEF RangeCovered
    <3>3. /\ UNCHANGED {p \in DOMAIN img.page : Recognisable(p)}
          /\ UNCHANGED {p \in DOMAIN img.page : Certain(p)}
          /\ UNCHANGED Lesser(start_offset + img.length, file_size)
      BY <3>1 DEF Recognisable, Certain, page_id_ok
    <3> QED BY <3>1, <3>2, <3>3 DEF Carve!CarvingNext, Carve!Complete
  <2>4. CASE TakePage
    BY <2>4, TakePageIsTake DEF Carve!CarvingNext
  <2>5. CASE TakePageFails
    <3>1. Position' = Position
      BY <2>5 DEF TakePageFails, Scanning, Position
    <3> QED BY <2>5, <3>1, HiddenSteps DEF TakePageFails, Scanning
  <2>6. CASE SkipZeros \/ SkipByte
    <3>1. pc = "scan" /\ UNCHANGED <<img, pc, taken>>
      BY <2>6 DEF SkipZeros, SkipByte, Scanning
    <3>2. Position' > Position
      BY <2>6, SkipZerosStep, SkipByteStep
    <3> QED BY <3>1, <3>2, ForwardIsAdvance DEF Carve!CarvingNext
  <2>7. CASE MoveRemainder
    <3>1. pc = "scan" /\ pc' = "read" /\ UNCHANGED <<img, taken>>
      BY <2>7 DEF MoveRemainder
    <3>2. Position' = Position
      BY <2>7, MoveRemainderStep
    <3> QED BY <3>1, <3>2, HiddenSteps
  <2>8. CASE UNCHANGED vars
    <3>1. Position' = Position
      BY <2>8 DEF vars, Position
    <3> QED BY <2>8, <3>1, HiddenSteps DEF vars
  <2> QED BY <2>1, <2>2, <2>3, <2>4, <2>5, <2>6, <2>7, <2>8 DEF Next, Terminated
<1> QED BY <1>1, <1>2, ScanIInv, PTL DEF Spec, CarvesWholeFile, Carve!Carving
-----------------------------------------------------------------------------
\* While there is room on the destination no page is torn.
WholeWhileRoom ==
    free > 0 => \A i \in 1 .. Len(out) : out[i].len = UNIV_PAGE_SIZE

\* A page is written whole, or takes all that is left of the room.
LEMMA TakePageTearsLast ==
    ASSUME IInv, TornPageIsLast, WholeWhileRoom, TakePage
    PROVE  TornPageIsLast' /\ WholeWhileRoom'
<1>1. PICK o \in DOMAIN img.page : process_ibpage(o)
  BY DEF TakePage
<1>2. CASE Filtered(o)
  BY <1>1, <1>2 DEF process_ibpage, TornPageIsLast, WholeWhileRoom
<1>3. CASE ~ Filtered(o)
  <2> DEFINE len == Lesser(UNIV_PAGE_SIZE, free)
             entry == [file |-> Destination(o), off |-> o, len |-> len]
  <2>1. out' = Append(out, entry) /\ free' = free - len /\ free > 0
    BY <1>1, <1>3 DEF process_ibpage
  <2>2. free \in Nat /\ out \in Seq([file : {"FIL_PAGE_INDEX", "FIL_PAGE_TYPE_BLOB"} \X Nat,
                                   off : Offsets, len : 0 .. UNIV_PAGE_SIZE])
    BY DEF IInv, TypeOK, IsImage
  <2>3. entry.len = len
    OBVIOUS
  <2>4. /\ len > 0
        /\ free - len > 0 => len = UNIV_PAGE_SIZE
        /\ len = UNIV_PAGE_SIZE \/ len = free
    BY <2>1, <2>2, SizesAssumption DEF Lesser
  <2> HIDE DEF entry
  <2>5. /\ Len(out') = Len(out) + 1 /\ out'[Len(out) + 1] = entry /\ Len(out) \in Nat
        /\ \A i \in 1 .. Len(out) : out'[i] = out[i]
    BY <2>1, <2>2
  <2>6. \A i \in 1 .. Len(out) : out'[i].len = UNIV_PAGE_SIZE
    BY <2>1, <2>5 DEF WholeWhileRoom
  <2>7. \A i \in 1 .. Len(out') : i \in 1 .. Len(out) \/ i = Len(out')
    BY <2>5
  <2>8. out'[Len(out')].len = len
    BY <2>3, <2>5
  <2> HIDE DEF len
  <2>9. TornPageIsLast'
    BY <2>4, <2>6, <2>7, <2>8 DEF TornPageIsLast
  <2>10. WholeWhileRoom'
    BY <2>1, <2>4, <2>6, <2>7, <2>8 DEF WholeWhileRoom
  <2> QED BY <2>9, <2>10
<1> QED BY <1>2, <1>3

\* At most one page is torn by a full destination, and nothing is written
\* behind it, whatever the sizes, the file and the reads.
THEOREM TornPageIsLastHolds == Spec => []TornPageIsLast
<1>1. Init => TornPageIsLast /\ WholeWhileRoom
  BY DEF Init, TornPageIsLast, WholeWhileRoom
<1>2. IInv /\ TornPageIsLast /\ WholeWhileRoom /\ [Next]_vars
         => TornPageIsLast' /\ WholeWhileRoom'
  <2> SUFFICES ASSUME IInv, TornPageIsLast, WholeWhileRoom, [Next]_vars
               PROVE  TornPageIsLast' /\ WholeWhileRoom'
    OBVIOUS
  <2>1. CASE TakePage
    BY <2>1, TakePageTearsLast
  <2>2. CASE UNCHANGED <<out, free>>
    BY <2>2 DEF TornPageIsLast, WholeWhileRoom
  <2>3. ASSUME NEW disk_read \in 1 .. cache_size, Read(disk_read)
        PROVE  UNCHANGED <<out, free>>
    BY <2>3 DEF Read
  <2>4. Eof \/ ReadError \/ RangeDone \/ TakePageFails \/ SkipZeros \/ SkipByte
          \/ MoveRemainder \/ Terminated => UNCHANGED <<out, free>>
    BY DEF Eof, ReadError, RangeDone, TakePageFails, SkipZeros, SkipByte,
           MoveRemainder, Terminated, vars
  <2> QED BY <2>1, <2>2, <2>3, <2>4 DEF Next, vars
<1> QED BY <1>1, <1>2, ScanIInv, PTL DEF Spec
=============================================================================
