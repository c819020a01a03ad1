CONSTANTS
    shoulder = shoulder
    elbow = elbow
    gripper = gripper
    Joints <- MCOneJoint
    SourceNames <- MCOneName
    Width = 2
    MaxStamp = 4
    MaxFaults = 1
    MaxRewinds = 1
    MaxOvertakings = 0
SPECIFICATION Spec
CHECK_DEADLOCK FALSE
INVARIANTS HistoryIsTimeBounded
