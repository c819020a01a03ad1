CONSTANTS
    shoulder = shoulder
    elbow = elbow
    gripper = gripper
    Joints <- MCJoints
    SourceNames <- MCSourceWithForeign
    Width = 1
    MaxStamp = 3
    MaxFaults = 2
    MaxRewinds = 2
    MaxOvertakings = 1
SPECIFICATION LiveSpec
CHECK_DEADLOCK FALSE
INVARIANTS CleanMeansPublished TearIsBounded HistoryIsWindow
PROPERTIES AnswersAdvance ReadinessFollows
