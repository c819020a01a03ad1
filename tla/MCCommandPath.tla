---------------------------- MODULE MCCommandPath ----------------------------
(* Two joints and a name that is none, and a body for each way through the  *)
(* validation.                                                              *)
EXTENDS CommandPath

CONSTANTS pan, wrist, gripper

MCJoints == {pan, wrist}
MCNames == MCJoints \cup {gripper}

Only(value) == [j \in {pan} |-> value]
Body(kind, positions) == [kind |-> kind, positions |-> positions]

MCBodies ==
    {Body("home", <<>>), Body("home", Only("angle")),
     Body("move_joints", <<>>), Body("move_joints", [j \in {pan, gripper} |-> "angle"]),
     Body("move_joints", [j \in MCJoints |-> IF j = pan THEN "angle" ELSE "infinite"])}
=============================================================================
