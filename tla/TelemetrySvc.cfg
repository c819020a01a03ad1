CONSTANTS
    MaxInbox = 2
    MaxFaults = 4
SPECIFICATION LiveSpec
CHECK_DEADLOCK FALSE
INVARIANTS SessionIsReported
PROPERTIES IngestionFollows InfluxShows
