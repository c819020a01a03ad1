CONSTANTS
    MaxSockets = 3
    MaxWire = 2
    MaxFaults = 2
SPECIFICATION LiveSpec
CHECK_DEADLOCK FALSE
INVARIANTS GaugeCountsCalls OneSocket ChannelIsFollowed
PROPERTIES DepartedAreDropped ViewerReturns ReadinessFollows OutageShows
