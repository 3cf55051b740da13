SPECIFICATION Spec
CONSTANTS
    Tables <- MCTables
    TableOrder <- MCTableOrder
    Images <- MCImages
    MaxFaults = 2
    MaxStray = 1
    Name = 1
    Maxlen <- MCMaxlen
    StackValues = {0, 4}
INVARIANTS
    TablesHoldPageFiles
    OnlyDeadWorkersLosePages
    KeyOfClusteredIndex
    LengthsKept
PROPERTIES
    RecoveryEnds
CHECK_DEADLOCK FALSE
