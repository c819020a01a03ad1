CONSTANTS
    MaxCommands = 3
    MaxFaults = 3
SPECIFICATION LiveSpec
CHECK_DEADLOCK FALSE
INVARIANTS OneClient RefusedUnsentStaysUnsent AcceptedInOrder
PROPERTIES Promise EveryPostAnswered RunRecovers
