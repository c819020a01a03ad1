CONSTANTS
    shoulder = shoulder
    uncapped = uncapped
    capped = capped
    Joints <- MCJoints
    SourceNames <- MCSource
    Width = 1
    MaxStamp = 2
    MaxFaults = 1
    MaxRewinds = 0
    MaxOvertakings = 1
    Streams <- MCStreams
    MinInterval <- MCMinInterval
    MaxStates = 6
SPECIFICATION LiveFeedSpec
INVARIANTS Registered MailboxIsCurrent NothingOwedToViewers
PROPERTIES Promise ViewersAdvance MeasurementsArrive
