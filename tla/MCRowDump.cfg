SPECIFICATION Spec
CONSTANTS
    Rows <- MCRows
    TableNames <- MCTableNames
    Leftovers <- MCLeftovers
    LocalZone <- MCLocalZone
    ServerZone <- MCServerZone
INVARIANTS
    ValuesRestored
    OneFieldPerColumn
    PrintedWithinLimits
    RefusedWithReason
CHECK_DEADLOCK FALSE
