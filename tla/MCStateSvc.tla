----------------------------- MODULE MCStateSvc -----------------------------
(* Two joints of the vocabulary; the source also knows one outside it.        *)
EXTENDS StateSvc

CONSTANTS shoulder, elbow, gripper

MCJoints == {shoulder, elbow}
MCSourceWithForeign == <<elbow, gripper, shoulder>>
MCOneJoint == {shoulder}
MCOneName == <<shoulder>>
=============================================================================
