CONSTANTS
    Capacity = 2
    MessagesPerState = 3
    MaxStates = 5
    MaxBreaks = 2
SPECIFICATION LiveSpec
CHECK_DEADLOCK FALSE
INVARIANTS EachFaultTearsOne
PROPERTIES Promise BacklogDrains
