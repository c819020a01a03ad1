CONSTANTS
    MaxCommands = 1
    MaxFaults = 1
SPECIFICATION LiveSpec
CHECK_DEADLOCK FALSE
PROPERTIES PublishingRecovers
