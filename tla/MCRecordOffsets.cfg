SPECIFICATION Spec
CONSTANTS
    UNIV_PAGE_SIZE = 16384
    Tables <- MCTables
    Origins <- MCOrigins
    Lengths <- MCLengths
    Bytes <- MCBytes
INVARIANTS
    TypeOK
    RowRecognised
    AcceptedFits
