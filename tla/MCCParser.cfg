\* Two pages with pointers of every kind in every place, and the options.
SPECIFICATION Spec
CONSTANTS
    UNIV_PAGE_SIZE = 10
    infimum <- MCInfimum
    supremum <- MCSupremum
    record_extra_bytes <- MCExtra
    data_start = 3
    min_rec_header_len = 1
    Links <- MCLinks
    Headers <- MCHeaders
    Sizes = {1, 2}
    CommandLines <- Options
    MaxPages = 2
INVARIANTS
    TypeOK
    PointersInPage
    WalkMatchesCheck
    DumpedDisjoint
    EveryOriginTried
    StatusAgrees
PROPERTY
    Termination
