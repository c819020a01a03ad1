CONSTANTS
    Table <- UR5
SPECIFICATION Spec
CHECK_DEADLOCK FALSE
INVARIANTS ChainFollowsArm PoseIsFrame
