------------------------------ MODULE Handover ------------------------------
(***************************************************************************)
(* What the bridge promises of telemetry between the rclpy thread and the  *)
(* worker, whatever queue, waiting coroutines and outages there are: each  *)
(* JointState that arrived is taken at most once, is pending until it is,  *)
(* and is taken before every later one unless it was told to wait.         *)
(***************************************************************************)
EXTENDS Naturals, Sequences

VARIABLES
    arrived,    \* how many JointStates arrived; they are numbered
    pending,    \* the ones nobody has taken
    delayed,    \* the ones that were told to wait
    taken       \* the ones that were taken, in order

vars == <<arrived, pending, delayed, taken>>

Init == arrived = 0 /\ pending = {} /\ delayed = {} /\ taken = <<>>

Arrive ==
    /\ arrived' = arrived + 1
    /\ pending' = pending \cup {arrived + 1}
    /\ UNCHANGED <<delayed, taken>>

Delay(n) ==
    /\ n \in pending
    /\ delayed' = delayed \cup {n}
    /\ UNCHANGED <<arrived, pending, taken>>

Take(n) ==
    /\ n \in pending
    /\ \A m \in pending : m < n => m \in delayed
    /\ pending' = pending \ {n}
    /\ taken' = Append(taken, n)
    /\ UNCHANGED <<arrived, delayed>>

Next == Arrive \/ \E n \in pending : Delay(n) \/ Take(n)

Spec == Init /\ [][Next]_vars
=============================================================================
