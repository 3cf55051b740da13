---------------------------- MODULE MCStreamScan ----------------------------
(***************************************************************************)
(* An instance of StreamScan for TLC.  A page has 5 bytes (4 of checksum   *)
(* and one that is not zero), the file room for two pages and some bytes   *)
(* between, before and after them; the cache is larger than a page, and no *)
(* multiple of it, so that pages straddle the reads.                       *)
(***************************************************************************)
EXTENDS StreamScan, FiniteSets

CONSTANTS
    MaxPages,  \* at most so many (possibly overlapping) pages in an image
    MaxZeros   \* the longest run of zeros

Starts == 0 .. file_size - UNIV_PAGE_SIZE

Placements(headers) ==
    UNION {[S -> headers] : S \in {T \in SUBSET Starts : Cardinality(T) <= MaxPages}}

Header(kind, index_id, page_id) ==
    [kind |-> kind, index_id |-> index_id, page_id |-> page_id]

\* One run of zeros, anywhere; the range ends with the file.
ZeroSets == {run \in {lo .. hi : lo \in 0 .. file_size, hi \in -1 .. file_size - 1} :
                Cardinality(run) <= MaxZeros}

\* No page starts where its page number would be zero.
PageNumberNotZero(zero, page) ==
    \A o \in DOMAIN page : \E k \in 4 .. UNIV_PAGE_SIZE - 1 : o + k \notin zero

AroundZeros ==
    {image \in [zero : ZeroSets, length : {file_size}, disk_space : {100},
                page : Placements({Header("index", 1, 1), Header("blob", 2, 1)})] :
        PageNumberNotZero(image.zero, image.page)}

\* No zeros, but pages of three kinds, two indexes, and a page number beyond the
\* tablespace; the range is longer than the file (option -t), and the
\* destination fills up inside a page.
OfAllKinds ==
    [zero : {{}}, length : {file_size + 8}, disk_space : {3},
     page : Placements({Header("index", 1, 1), Header("index", 2, 1), Header("blob", 1, 1),
                        Header("blob", 2, 1), Header("other", 1, 1), Header("index", 1, 9)})]

MCImages == AroundZeros \cup OfAllKinds
=============================================================================
