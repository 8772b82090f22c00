SPECIFICATION Spec
CONSTANTS
    Plans <- PlansDef
    Meta <- MetaDef
    Builds = {1, 2}
    MaxFaults = 3
    MaxActs = 1
    MaxRemovals = 1
CHECK_DEADLOCK FALSE
PROPERTIES
    ForeignKept
    JournalLast
    Settles
