\* Columns with a character set of their own in a table that has one.
CONSTANTS
    Names = {"a"}
    ColumnTypes <- MCCharColumns
    Charsets = {"latin1", "utf8"}
    MaxKeys = 0
    MaxColumns = 1
    uint_range = 100000000
    process_56 = FALSE
SPECIFICATION Spec
INVARIANTS
    ExplicitCharsetKept
