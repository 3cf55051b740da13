\* Every placement of up to two pages around one run of zeros, every
\* partition of the file into reads; pages of all kinds, the -T filter, and a
\* destination that fills up inside a page.
CONSTANTS
    UNIV_PAGE_SIZE = 5
    cache_size = 7
    file_size = 12
    start_offset = 0
    max_page_id = 4
    filter_id = 1
    Images <- MCImages
    MaxPages = 2
    MaxZeros = 12
SPECIFICATION Spec
INVARIANTS
    TypeOK
    WindowMirrorsFile
    TakenDisjoint
    NoPageMissed
    RangeCovered
    TornPageIsLast
PROPERTIES
    CarvesWholeFile
    Termination
