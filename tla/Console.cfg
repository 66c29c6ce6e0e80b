\* Two changes, two panes opened, one search, one lost answer.
SPECIFICATION Spec
CONSTANTS
    www = www  v1 = v1  v2 = v2
    Host = {www}
    Val = {v1, v2}
    Line <- MCLine
    Seed <- MCSeed
    Keyword = {v1}
    MaxWrites = 2
    MaxVisits = 1
    MaxTyped = 1
    MaxFaults = 1
    NoVal = NoVal  NoRec = NoRec  NoKw = NoKw
CHECK_DEADLOCK FALSE
INVARIANTS
    TypeOK
    OwnChangesShown
    RowsFollowData
PROPERTIES
    EditKeepsRecord
    OwnChangesArrive
