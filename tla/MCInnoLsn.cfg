\* -l without -f: the given LSN does not reach the file.
CONSTANTS
    buf_calc_page_new_checksum <- MCNewChecksum
    buf_calc_page_old_checksum <- MCOldChecksum
    Checksums <- MCChecksums
    Lsns <- MCLsns
    Bodies <- MCBodies
    Files <- MCFiles
    Options <- MCOptions
    MaxRuns = 1
SPECIFICATION InnoSpec
CHECK_DEADLOCK FALSE
INVARIANTS
    GivenLsnIsWritten
