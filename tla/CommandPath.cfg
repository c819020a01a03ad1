CONSTANTS
    pan = pan
    wrist = wrist
    gripper = gripper
    Joints <- MCJoints
    Names <- MCNames
    Bodies <- MCBodies
    MaxPosts = 2
    MaxBreaks = 2
SPECIFICATION LiveSpec
CHECK_DEADLOCK FALSE
INVARIANTS ArmObeys
PROPERTIES CommandsArrive WorkerReturns
