SPECIFICATION Spec
CONSTANTS
    UNIV_PAGE_SIZE = 16384
    Tables <- MCTables
    Origins <- MCOrigins
    Lengths <- MCLengths
    Bytes <- MCBytes
INVARIANT
    FlagsKept
