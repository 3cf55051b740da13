\* Up to two corrupted rows of eighteen and two outages, everywhere.
CONSTANTS
    minPK = 1
    maxPK = 20
    Rows <- MCRows
    BadSets <- MCBadSets
    MaxBad = 2
    MaxOutages = 2
SPECIFICATION FetchSpec
INVARIANTS
    LostOnlyBesideBad
    OutageCostsOneRow
PROPERTIES
    ScriptEnds
