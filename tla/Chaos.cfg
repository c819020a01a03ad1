CONSTANTS
    Cells = {"viz-svc"}
    MaxFaults = 1
SPECIFICATION LiveSpec
CHECK_DEADLOCK FALSE
INVARIANTS BlamesOnlyFaults OnlyVictimIsStopped
PROPERTIES StackRecovers CellFollows
