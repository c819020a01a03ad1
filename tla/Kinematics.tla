----------------------------- MODULE Kinematics -----------------------------
(***************************************************************************)
(* kinematics.py: forward() multiplies one Denavit-Hartenberg transform per *)
(* joint into a 4x4 matrix and turns its rotation into a quaternion.  The   *)
(* model takes the angles from the quarter turns, where sine and cosine are *)
(* integers, and the lengths in micrometres, so that all of it is exact.    *)
(*                                                                          *)
(* Beside the matrix a frame is walked along the arm, by geometry alone: it *)
(* is moved along its axes and turned about them, without any matrix.       *)
(***************************************************************************)
EXTENDS Integers, Sequences

CONSTANT Table      \* the DH parameters, joint by joint

Quarters == 0..3

ASSUME TableAssumption ==
    /\ Len(Table) \in Nat
    /\ \A i \in 1..Len(Table) :
          Table[i].d \in Int /\ Table[i].a \in Int /\ Table[i].alpha \in Quarters

VARIABLES
    angles,         \* joint_angles[:i], the ones multiplied so far
    transform,      \* forward()'s local variable
    frame           \* history: the frame walked along these joints

vars == <<angles, transform, frame>>

\* _A, _D, _ALPHA.
UR5 ==
    << [d |-> 89159,  a |-> 0,       alpha |-> 1],
       [d |-> 0,      a |-> -425000, alpha |-> 0],
       [d |-> 0,      a |-> -392250, alpha |-> 0],
       [d |-> 109150, a |-> 0,       alpha |-> 1],
       [d |-> 94650,  a |-> 0,       alpha |-> 3],
       [d |-> 82300,  a |-> 0,       alpha |-> 0] >>

Cos(k) == CASE k = 0 -> 1 [] k = 2 -> -1 [] OTHER -> 0
Sin(k) == CASE k = 1 -> 1 [] k = 3 -> -1 [] OTHER -> 0

Eye == << <<1, 0, 0, 0>>, <<0, 1, 0, 0>>, <<0, 0, 1, 0>>, <<0, 0, 0, 1>> >>

\* One row of m @ n.
RowTimes(row, n) ==
    LET Entry(k) == row[1] * n[1][k] + row[2] * n[2][k] + row[3] * n[3][k] + row[4] * n[4][k]
    IN  <<Entry(1), Entry(2), Entry(3), Entry(4)>>

Times(m, n) ==
    <<RowTimes(m[1], n), RowTimes(m[2], n), RowTimes(m[3], n), RowTimes(m[4], n)>>

\* Mutant: the modified convention's transform, which turns about x before z.
DHModified(theta, d, a, alpha) ==
    LET ct == Cos(theta)  st == Sin(theta)  ca == Cos(alpha)  sa == Sin(alpha)
    IN  << <<ct,      -st,     0,   a>>,
           <<st * ca, ct * ca, -sa, -d * sa>>,
           <<st * sa, ct * sa, ca,  d * ca>>,
           <<0,       0,       0,   1>> >>

DHTransform(theta, d, a, alpha) ==
    LET ct == Cos(theta)  st == Sin(theta)  ca == Cos(alpha)  sa == Sin(alpha)
    IN  << <<ct, -(st * ca), st * sa,    a * ct>>,
           <<st, ct * ca,    -(ct * sa), a * st>>,
           <<0,  sa,         ca,         d>>,
           <<0,  0,          0,          1>> >>

-----------------------------------------------------------------------------
(* The reference: quarter turns and moves of a frame.                       *)

Add(u, v) == <<u[1] + v[1], u[2] + v[2], u[3] + v[3]>>
Scale(c, u) == <<c * u[1], c * u[2], c * u[3]>>
Neg(u) == <<-u[1], -u[2], -u[3]>>

\* u after k quarter turns from u towards v.
Turned(u, v, k) == CASE k = 0 -> u [] k = 1 -> v [] k = 2 -> Neg(u) [] OTHER -> Neg(v)

BaseFrame == [at |-> <<0, 0, 0>>, x |-> <<1, 0, 0>>, y |-> <<0, 1, 0>>, z |-> <<0, 0, 1>>]

\* Turn by theta about z, go d along z and a along the new x, turn by alpha about x.
Walk(f, theta, joint) ==
    LET x == Turned(f.x, f.y, theta)
        y == Turned(f.y, Neg(f.x), theta)
    IN  [at |-> Add(f.at, Add(Scale(joint.d, f.z), Scale(joint.a, x))),
         x  |-> x,
         y  |-> Turned(y, f.z, joint.alpha),
         z  |-> Turned(f.z, Neg(y), joint.alpha)]

-----------------------------------------------------------------------------
Init ==
    /\ angles = <<>>
    /\ transform = Eye
    /\ frame = BaseFrame

\* One turn of the loop in forward().
Multiply(theta) ==
    /\ Len(angles) < Len(Table)
    /\ LET joint == Table[Len(angles) + 1]
       IN  /\ transform' = Times(transform, DHTransform(theta, joint.d, joint.a, joint.alpha))
           /\ frame' = Walk(frame, theta, joint)
    /\ angles' = Append(angles, theta)

Next == \E theta \in Quarters : Multiply(theta)

Spec == Init /\ [][Next]_vars

-----------------------------------------------------------------------------
(* _quaternion_from_rotation.  Every component is an integer over s, the    *)
(* pivot included (0.25 * s = s * s / 4 / s), and s * s is four times the   *)
(* pivot's numerator.  Sines and cosines are rounded, so that a comparison  *)
(* of equal entries may come out either way: the result is a set.           *)

Quat(x, y, z, w, pivot) == [v |-> <<x, y, z, w>>, square |-> 4 * pivot]

Trace(r) == r[1][1] + r[2][2] + r[3][3]

\* Mutant: the trace is taken as the pivot whatever it is.
QuaternionByTrace(r) ==
    {Quat(r[3][2] - r[2][3], r[1][3] - r[3][1], r[2][1] - r[1][2], Trace(r) + 1, Trace(r) + 1)}

QuaternionFromRotation(r) ==
    LET w == Trace(r) + 1
        x == 1 + r[1][1] - r[2][2] - r[3][3]
        y == 1 + r[2][2] - r[1][1] - r[3][3]
        z == 1 + r[3][3] - r[1][1] - r[2][2]
        NotFirst == r[1][1] <= r[2][2] \/ r[1][1] <= r[3][3]
        Branches ==
            {[taken |-> Trace(r) >= 0,
              q |-> Quat(r[3][2] - r[2][3], r[1][3] - r[3][1], r[2][1] - r[1][2], w, w)],
             [taken |-> Trace(r) <= 0 /\ r[1][1] >= r[2][2] /\ r[1][1] >= r[3][3],
              q |-> Quat(x, r[1][2] + r[2][1], r[1][3] + r[3][1], r[3][2] - r[2][3], x)],
             [taken |-> Trace(r) <= 0 /\ NotFirst /\ r[2][2] >= r[3][3],
              q |-> Quat(r[1][2] + r[2][1], y, r[2][3] + r[3][2], r[1][3] - r[3][1], y)],
             [taken |-> Trace(r) <= 0 /\ NotFirst /\ r[2][2] <= r[3][3],
              q |-> Quat(r[1][3] + r[3][1], r[2][3] + r[3][2], z, r[2][1] - r[1][2], z)]}
    IN  {b.q : b \in {c \in Branches : c.taken}}

\* The poses forward() may return once every joint is multiplied; any other number
\* of angles is a ValueError.
Poses ==
    IF Len(angles) # Len(Table) THEN {}
    ELSE [at : {<<transform[1][4], transform[2][4], transform[3][4]>>},
          orientation : QuaternionFromRotation(transform)]

\* The rotation of a quaternion v / s, times s * s.
RotationOf(q) ==
    LET x == q.v[1]  y == q.v[2]  z == q.v[3]  w == q.v[4]
    IN  << <<q.square - 2 * (y * y + z * z), 2 * (x * y - z * w), 2 * (x * z + y * w)>>,
           <<2 * (x * y + z * w), q.square - 2 * (x * x + z * z), 2 * (y * z - x * w)>>,
           <<2 * (x * z - y * w), 2 * (y * z + x * w), q.square - 2 * (x * x + y * y)>> >>

-----------------------------------------------------------------------------
\* The product of the DH transforms is the frame walked along the arm: its columns
\* are the frame's axes and origin (_dh_transform, the order of the product in
\* forward, the vocabulary's order of joints in the table).
ChainFollowsArm ==
    /\ \A i \in 1..3 : transform[i] = <<frame.x[i], frame.y[i], frame.z[i], frame.at[i]>>
    /\ transform[4] = <<0, 0, 0, 1>>

\* The quaternion of a pose is defined, of unit length, and the rotation of the
\* matrix, in whichever branch of _quaternion_from_rotation it is computed, also
\* where rounding decides which one that is; the position is the frame's.
PoseIsFrame ==
    \A pose \in Poses :
        LET q == pose.orientation
        IN  /\ pose.at = frame.at
            /\ q.square > 0
            /\ q.v[1] * q.v[1] + q.v[2] * q.v[2] + q.v[3] * q.v[3] + q.v[4] * q.v[4] = q.square
            /\ \A i \in 1..3 :
                  RotationOf(q)[i] = Scale(q.square, <<frame.x[i], frame.y[i], frame.z[i]>>)
=============================================================================
