\* Two runs over two pages; the tool may stop for good after them.
CONSTANTS
    buf_calc_page_new_checksum <- MCNewChecksum
    buf_calc_page_old_checksum <- MCOldChecksum
    Checksums <- MCChecksums
    Lsns <- MCLsns
    Bodies <- MCBodies
    Files <- MCFiles
    Options <- MCOptions
    MaxRuns = 2
SPECIFICATION InnoSpec
CHECK_DEADLOCK FALSE
INVARIANTS
    CheckedPagesAreGood
    StopsAtBadPage
PROPERTIES
    TouchesOnlyBadPages
