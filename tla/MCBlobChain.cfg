\* Chains of two-byte pages, read from the files of a directory or at their
\* places in one file.
CONSTANTS
    Pages <- MCPages
    PartLens <- MCPartLens
    Lengths = {0, 2}
    UNIV_PAGE_SIZE = 2
    MaxOpen = 2
    MaxValues = 3
SPECIFICATION Spec
INVARIANTS
    IntactPrintedWhole
    OneLeakPerValue
    StopsAtLength
PROPERTIES
    ValuesEnd
