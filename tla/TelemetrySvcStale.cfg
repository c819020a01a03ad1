CONSTANTS
    MaxInbox = 1
    MaxFaults = 1
SPECIFICATION LiveSpec
CHECK_DEADLOCK FALSE
PROPERTIES ReadinessIsCurrent
