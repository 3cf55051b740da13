\* Up to three columns and two keys beside their own, in any order.
CONSTANTS
    Names = {"a", "b", "c"}
    ColumnTypes <- MCColumnTypes
    Charsets = {"utf8"}
    MaxKeys = 2
    MaxColumns = 3
    uint_range = 100000000
    process_56 = FALSE
SPECIFICATION Spec
INVARIANTS
    EveryColumnOnce
    LaidOutAsStored
    DecimalLengthsAgree
