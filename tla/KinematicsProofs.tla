-------------------------- MODULE KinematicsProofs --------------------------
(***************************************************************************)
(* The chain of transforms follows the arm, and the quaternion read off it   *)
(* is the rotation of its last frame, for every table of DH parameters with *)
(* quarter turns between its links.                                         *)
(***************************************************************************)
EXTENDS Kinematics, SequenceTheorems, TLAPS

Vectors == Int \X Int \X Int

Frames == [at : Vectors, x : Vectors, y : Vectors, z : Vectors]

Joints == [d : Int, a : Int, alpha : Quarters]

\* Row i of the matrix that a frame stands for.
RowOf(f, i) == <<f.x[i], f.y[i], f.z[i], f.at[i]>>

\* Turned, for one coordinate.
TurnedBy(u, v, k) == CASE k = 0 -> u [] k = 1 -> v [] k = 2 -> -u [] OTHER -> -v

LEMMA TurnedType ==
    ASSUME NEW u \in Vectors, NEW v \in Vectors, NEW k \in Quarters
    PROVE  /\ Turned(u, v, k) \in Vectors
           /\ \A i \in 1..3 : Turned(u, v, k)[i] = TurnedBy(u[i], v[i], k)
<1>1. k \in {0, 1, 2, 3}
  BY DEF Quarters
<1>2. CASE k = 0
  BY <1>2 DEF Turned, TurnedBy
<1>3. CASE k = 1
  BY <1>3 DEF Turned, TurnedBy
<1>4. CASE k = 2
  BY <1>4 DEF Turned, TurnedBy, Neg, Vectors
<1>5. CASE k = 3
  BY <1>5 DEF Turned, TurnedBy, Neg, Vectors
<1> QED
  BY <1>1, <1>2, <1>3, <1>4, <1>5

LEMMA TurnedEntry ==
    ASSUME NEW u \in Vectors, NEW v \in Vectors, NEW k \in Quarters, NEW i \in 1..3
    PROVE  Turned(u, v, k)[i] = TurnedBy(u[i], v[i], k)
  BY TurnedType

\* One coordinate of Walk is one row of the product with the DH transform: the axes
\* here; the origin is linear in them.
LEMMA AxesFollow ==
    ASSUME NEW x \in Int, NEW y \in Int, NEW z \in Int,
           NEW theta \in Quarters, NEW alpha \in Quarters
    PROVE  LET ct == Cos(theta)  st == Sin(theta)  ca == Cos(alpha)  sa == Sin(alpha)
               ux == TurnedBy(x, y, theta)
               uy == TurnedBy(y, -x, theta)
           IN  /\ x * ct + y * st = ux
               /\ x * (-(st * ca)) + y * (ct * ca) + z * sa = TurnedBy(uy, z, alpha)
               /\ x * (st * sa) + y * (-(ct * sa)) + z * ca = TurnedBy(z, -uy, alpha)
<1>1. theta \in {0, 1, 2, 3} /\ alpha \in {0, 1, 2, 3}
  BY DEF Quarters
<1>2. CASE theta = 0
  BY <1>1, <1>2 DEF Cos, Sin, TurnedBy
<1>3. CASE theta = 1
  BY <1>1, <1>3 DEF Cos, Sin, TurnedBy
<1>4. CASE theta = 2
  BY <1>1, <1>4 DEF Cos, Sin, TurnedBy
<1>5. CASE theta = 3
  BY <1>1, <1>5 DEF Cos, Sin, TurnedBy
<1> QED
  BY <1>1, <1>2, <1>3, <1>4, <1>5

LEMMA WalkType ==
    ASSUME NEW f \in Frames, NEW theta \in Quarters, NEW joint \in Joints
    PROVE  Walk(f, theta, joint) \in Frames
<1> DEFINE x == Turned(f.x, f.y, theta)
           y == Turned(f.y, Neg(f.x), theta)
<1>1. /\ f.at \in Vectors /\ f.x \in Vectors /\ f.y \in Vectors /\ f.z \in Vectors
      /\ joint.d \in Int /\ joint.a \in Int /\ joint.alpha \in Quarters
  BY DEF Frames, Joints
<1>2. \A u \in Vectors : Neg(u) \in Vectors
  BY DEF Vectors, Neg
<1>3. x \in Vectors /\ y \in Vectors
  BY <1>1, <1>2, TurnedType
<1> HIDE DEF x, y
<1>4. Turned(y, f.z, joint.alpha) \in Vectors /\ Turned(f.z, Neg(y), joint.alpha) \in Vectors
  BY <1>1, <1>2, <1>3, TurnedType
<1>5. \A c \in Int : \A u \in Vectors : Scale(c, u) \in Vectors
  BY DEF Vectors, Scale
<1>6. \A u, v \in Vectors : Add(u, v) \in Vectors
  BY DEF Vectors, Add
<1>7. Add(f.at, Add(Scale(joint.d, f.z), Scale(joint.a, x))) \in Vectors
  BY <1>1, <1>3, <1>5, <1>6
<1> QED
  BY <1>3, <1>4, <1>7 DEF Walk, Frames, x, y

\* A row of the product is the row of the frame that walked on.
LEMMA RowFollows ==
    ASSUME NEW f \in Frames, NEW theta \in Quarters, NEW joint \in Joints, NEW i \in 1..3
    PROVE  RowTimes(RowOf(f, i), DHTransform(theta, joint.d, joint.a, joint.alpha))
             = RowOf(Walk(f, theta, joint), i)
<1> DEFINE x == Turned(f.x, f.y, theta)
           y == Turned(f.y, Neg(f.x), theta)
           g == Walk(f, theta, joint)
           alpha == joint.alpha
<1>1. /\ f.at \in Vectors /\ f.x \in Vectors /\ f.y \in Vectors /\ f.z \in Vectors
      /\ joint.d \in Int /\ joint.a \in Int /\ alpha \in Quarters
  BY DEF Frames, Joints
<1>2. \A u \in Vectors : Neg(u) \in Vectors /\ u[i] \in Int /\ Neg(u)[i] = -u[i]
  BY DEF Vectors, Neg
<1>3. /\ x \in Vectors /\ x[i] = TurnedBy(f.x[i], f.y[i], theta)
      /\ y \in Vectors /\ y[i] = TurnedBy(f.y[i], -f.x[i], theta)
  <2>1. Neg(f.x) \in Vectors /\ Neg(f.x)[i] = -f.x[i]
    BY <1>1, <1>2
  <2>2. x \in Vectors /\ y \in Vectors
    BY <1>1, <2>1, TurnedType
  <2>3. x[i] = TurnedBy(f.x[i], f.y[i], theta)
    BY <1>1, TurnedEntry
  <2>4. y[i] = TurnedBy(f.y[i], Neg(f.x)[i], theta)
    BY <1>1, <2>1, TurnedEntry
  <2> QED
    BY <2>1, <2>2, <2>3, <2>4, Zenon
<1> HIDE DEF x, y
<1>4. /\ g.x = x /\ g.y = Turned(y, f.z, alpha) /\ g.z = Turned(f.z, Neg(y), alpha)
      /\ g.at = Add(f.at, Add(Scale(joint.d, f.z), Scale(joint.a, x)))
  BY DEF Walk, x, y
<1> HIDE DEF g
<1>5. g.y[i] = TurnedBy(y[i], f.z[i], alpha) /\ g.z[i] = TurnedBy(f.z[i], -y[i], alpha)
  <2>1. g.y[i] = TurnedBy(y[i], f.z[i], alpha)
    BY <1>1, <1>3, <1>4, TurnedEntry
  <2>3. Neg(y) \in Vectors /\ Neg(y)[i] = -y[i]
    BY <1>2, <1>3
  <2>2. g.z[i] = TurnedBy(f.z[i], Neg(y)[i], alpha)
    BY <1>1, <1>4, <2>3, TurnedEntry
  <2> QED
    BY <2>1, <2>2, <2>3, Zenon
<1>6. g.at[i] = f.at[i] + (joint.d * f.z[i] + joint.a * x[i])
  BY <1>1, <1>3, <1>4 DEF Vectors, Add, Scale
<1> DEFINE ct == Cos(theta)  st == Sin(theta)  ca == Cos(alpha)  sa == Sin(alpha)
<1>7. /\ f.x[i] * ct + f.y[i] * st = g.x[i]
      /\ f.x[i] * (-(st * ca)) + f.y[i] * (ct * ca) + f.z[i] * sa = g.y[i]
      /\ f.x[i] * (st * sa) + f.y[i] * (-(ct * sa)) + f.z[i] * ca = g.z[i]
  <2>1. f.x[i] \in Int /\ f.y[i] \in Int /\ f.z[i] \in Int
    BY <1>1, <1>2
  <2>3. alpha \in Quarters
    BY <1>1
  <2> HIDE DEF alpha
  <2>2. /\ f.x[i] * ct + f.y[i] * st = x[i]
        /\ f.x[i] * (-(st * ca)) + f.y[i] * (ct * ca) + f.z[i] * sa
             = TurnedBy(y[i], f.z[i], alpha)
        /\ f.x[i] * (st * sa) + f.y[i] * (-(ct * sa)) + f.z[i] * ca
             = TurnedBy(f.z[i], -y[i], alpha)
    BY <1>3, <2>1, <2>3, AxesFollow
  <2> QED
    BY <1>4, <1>5, <2>2, Zenon
<1>8. ct \in Int /\ st \in Int /\ ca \in Int /\ sa \in Int
  BY DEF Cos, Sin
<1>9. f.x[i] * (joint.a * ct) + f.y[i] * (joint.a * st) + f.z[i] * joint.d + f.at[i] = g.at[i]
  <2> DEFINE X == f.x[i]  Y == f.y[i]  Z == f.z[i]  P == f.at[i]  d == joint.d  a == joint.a
  <2>1. /\ X \in Int /\ Y \in Int /\ Z \in Int /\ P \in Int /\ d \in Int /\ a \in Int
        /\ x[i] = X * ct + Y * st
    BY <1>1, <1>2, <1>4, <1>7
  <2> HIDE DEF X, Y, Z, P, d, a, ct, st
  <2>2. X * (a * ct) + Y * (a * st) + Z * d + P = P + (d * Z + a * (X * ct + Y * st))
    BY <2>1, <1>8
  <2>3. g.at[i] = P + (d * Z + a * (X * ct + Y * st))
    BY <1>6, <2>1, Zenon DEF P, Z, d, a
  <2> QED
    BY <2>2, <2>3, Zenon DEF X, Y, Z, P, d, a
<1> HIDE DEF ct, st, ca, sa, alpha
<1>10. DHTransform(theta, joint.d, joint.a, joint.alpha) =
         << <<ct, -(st * ca), st * sa,    joint.a * ct>>,
            <<st, ct * ca,    -(ct * sa), joint.a * st>>,
            <<0,  sa,         ca,         joint.d>>,
            <<0,  0,          0,          1>> >>
  BY DEF DHTransform, ct, st, ca, sa, alpha
<1> DEFINE r == RowOf(f, i)
           n == DHTransform(theta, joint.d, joint.a, joint.alpha)
<1>11. /\ r[1] = f.x[i] /\ r[2] = f.y[i] /\ r[3] = f.z[i] /\ r[4] = f.at[i]
       /\ r[1] \in Int /\ r[2] \in Int /\ r[3] \in Int /\ r[4] \in Int
  BY <1>1, <1>2 DEF RowOf
<1>12. /\ n[1][1] = ct /\ n[1][2] = -(st * ca) /\ n[1][3] = st * sa /\ n[1][4] = joint.a * ct
       /\ n[2][1] = st /\ n[2][2] = ct * ca /\ n[2][3] = -(ct * sa) /\ n[2][4] = joint.a * st
       /\ n[3][1] = 0 /\ n[3][2] = sa /\ n[3][3] = ca /\ n[3][4] = joint.d
       /\ n[4][1] = 0 /\ n[4][2] = 0 /\ n[4][3] = 0 /\ n[4][4] = 1
  BY <1>10
<1> HIDE DEF r, n
<1>13. RowTimes(r, n) = <<g.x[i], g.y[i], g.z[i], g.at[i]>>
  <2>1. r[1] * n[1][1] + r[2] * n[2][1] + r[3] * n[3][1] + r[4] * n[4][1] = g.x[i]
    BY <1>7, <1>8, <1>11, <1>12
  <2>2. r[1] * n[1][2] + r[2] * n[2][2] + r[3] * n[3][2] + r[4] * n[4][2] = g.y[i]
    BY <1>7, <1>8, <1>11, <1>12
  <2>3. r[1] * n[1][3] + r[2] * n[2][3] + r[3] * n[3][3] + r[4] * n[4][3] = g.z[i]
    BY <1>7, <1>8, <1>11, <1>12
  <2>4. r[1] * n[1][4] + r[2] * n[2][4] + r[3] * n[3][4] + r[4] * n[4][4] = g.at[i]
    BY <1>9, <1>8, <1>11, <1>12
  <2> QED
    BY <2>1, <2>2, <2>3, <2>4 DEF RowTimes
<1> QED
  BY <1>13 DEF r, n, g, RowOf

LEMMA LastRowFollows ==
    ASSUME NEW theta \in Quarters, NEW joint \in Joints
    PROVE  RowTimes(<<0, 0, 0, 1>>, DHTransform(theta, joint.d, joint.a, joint.alpha))
             = <<0, 0, 0, 1>>
<1> DEFINE n == DHTransform(theta, joint.d, joint.a, joint.alpha)
<1>1. \A i \in 1..3 : \A k \in 1..4 : n[i][k] \in Int
  <2>1. joint.d \in Int /\ joint.a \in Int
    BY DEF Joints
  <2>2. /\ Cos(theta) \in Int /\ Sin(theta) \in Int
        /\ Cos(joint.alpha) \in Int /\ Sin(joint.alpha) \in Int
    BY DEF Cos, Sin
  <2> QED
    BY <2>1, <2>2 DEF DHTransform
<1>2. n[4][1] = 0 /\ n[4][2] = 0 /\ n[4][3] = 0 /\ n[4][4] = 1
  BY DEF DHTransform
<1> HIDE DEF n
<1>3. \A k \in 1..4 : 0 * n[1][k] + 0 * n[2][k] + 0 * n[3][k] + 1 * n[4][k] = n[4][k]
  BY <1>1, <1>2
<1>4. RowTimes(<<0, 0, 0, 1>>, n) = <<0, 0, 0, 1>>
  BY <1>2, <1>3 DEF RowTimes
<1> QED
  BY <1>4 DEF n
-----------------------------------------------------------------------------
(* An orientation of quarter turns: three axes of the base, right-handed.   *)

Units == {<<1, 0, 0>>, <<-1, 0, 0>>, <<0, 1, 0>>, <<0, -1, 0>>, <<0, 0, 1>>, <<0, 0, -1>>}

Cross(u, v) ==
    <<u[2] * v[3] - u[3] * v[2], u[3] * v[1] - u[1] * v[3], u[1] * v[2] - u[2] * v[1]>>

RightHanded(x, y, z) ==
    /\ x \in Units /\ y \in Units /\ z \in Units
    /\ Cross(x, y) = z /\ Cross(y, z) = x /\ Cross(z, x) = y

LEMMA CrossOfUnits ==
    ASSUME NEW u \in Units, NEW v \in Units
    PROVE  /\ Cross(v, u) = Neg(Cross(u, v))
           /\ Cross(Neg(u), v) = Neg(Cross(u, v))
           /\ Cross(u, Neg(v)) = Neg(Cross(u, v))
<1>1. \A p, q \in Int : p * (-q) = -(p * q) /\ (-p) * q = -(p * q) /\ p * q = q * p
  OBVIOUS
<1>2. /\ u[1] \in Int /\ u[2] \in Int /\ u[3] \in Int
      /\ v[1] \in Int /\ v[2] \in Int /\ v[3] \in Int
  BY DEF Units
<1> DEFINE a == u[1]  b == u[2]  c == u[3]  d == v[1]  e == v[2]  f == v[3]
<1>3. /\ e * c - f * b = -(b * f - c * e)
      /\ f * a - d * c = -(c * d - a * f)
      /\ d * b - e * a = -(a * e - b * d)
  BY <1>2
<1>4. /\ (-b) * f - (-c) * e = -(b * f - c * e)
      /\ (-c) * d - (-a) * f = -(c * d - a * f)
      /\ (-a) * e - (-b) * d = -(a * e - b * d)
  BY <1>2
<1>5. /\ b * (-f) - c * (-e) = -(b * f - c * e)
      /\ c * (-d) - a * (-f) = -(c * d - a * f)
      /\ a * (-e) - b * (-d) = -(a * e - b * d)
  <2> HIDE DEF a, b, c, d, e, f
  <2>1. \A p, q, s, t \in Int : p * (-q) - s * (-t) = -(p * q - s * t)
    BY <1>1
  <2>2. a \in Int /\ b \in Int /\ c \in Int /\ d \in Int /\ e \in Int /\ f \in Int
    BY <1>2 DEF a, b, c, d, e, f
  <2> QED
    BY <2>1, <2>2
<1> QED
  BY <1>3, <1>4, <1>5 DEF Cross, Neg

LEMMA NegOfUnit ==
    ASSUME NEW u \in Units
    PROVE  Neg(u) \in Units /\ Neg(Neg(u)) = u
BY DEF Units, Neg

\* A quarter turn about one axis takes the other two to each other.
LEMMA QuarterTurn ==
    ASSUME NEW x, NEW y, NEW z, RightHanded(x, y, z)
    PROVE  RightHanded(y, Neg(x), z) /\ RightHanded(x, z, Neg(y))
<1>1. /\ x \in Units /\ y \in Units /\ z \in Units
      /\ Neg(x) \in Units /\ Neg(y) \in Units
      /\ Neg(Neg(x)) = x /\ Neg(Neg(y)) = y /\ Neg(Neg(z)) = z
      /\ Cross(x, y) = z /\ Cross(y, z) = x /\ Cross(z, x) = y
  BY NegOfUnit DEF RightHanded
<1>2. Cross(y, Neg(x)) = z /\ Cross(Neg(x), z) = y /\ Cross(z, y) = Neg(x)
  <2>1. Cross(y, x) = Neg(z) /\ Cross(x, z) = Neg(y) /\ Cross(z, y) = Neg(x)
    BY <1>1, CrossOfUnits
  <2> QED
    BY <1>1, <2>1, CrossOfUnits
<1>3. Cross(x, z) = Neg(y) /\ Cross(z, Neg(y)) = x /\ Cross(Neg(y), x) = z
  <2>1. Cross(y, x) = Neg(z) /\ Cross(x, z) = Neg(y) /\ Cross(z, y) = Neg(x)
    BY <1>1, CrossOfUnits
  <2> QED
    BY <1>1, <2>1, CrossOfUnits
<1> QED
  BY <1>1, <1>2, <1>3 DEF RightHanded

LEMMA TurnKeepsHand ==
    ASSUME NEW x, NEW y, NEW z, RightHanded(x, y, z), NEW k \in Quarters
    PROVE  /\ RightHanded(Turned(x, y, k), Turned(y, Neg(x), k), z)
           /\ RightHanded(x, Turned(y, z, k), Turned(z, Neg(y), k))
<1>1. x \in Units /\ y \in Units /\ z \in Units
  BY DEF RightHanded
<1>2. Neg(Neg(x)) = x /\ Neg(Neg(y)) = y
  BY <1>1, NegOfUnit
<1>3. k \in {0, 1, 2, 3}
  BY DEF Quarters
<1>4. RightHanded(y, Neg(x), z) /\ RightHanded(x, z, Neg(y))
  BY QuarterTurn
<1>5. RightHanded(Neg(x), Neg(y), z) /\ RightHanded(x, Neg(y), Neg(z))
  BY <1>4, QuarterTurn
<1>6. RightHanded(Neg(y), x, z) /\ RightHanded(x, Neg(z), y)
  BY <1>2, <1>5, QuarterTurn
<1> QED
  BY <1>2, <1>3, <1>4, <1>5, <1>6 DEF Turned

LEMMA WalkKeepsHand ==
    ASSUME NEW f, RightHanded(f.x, f.y, f.z), NEW theta \in Quarters,
           NEW joint, joint.alpha \in Quarters
    PROVE  RightHanded(Walk(f, theta, joint).x, Walk(f, theta, joint).y, Walk(f, theta, joint).z)
<1> DEFINE x == Turned(f.x, f.y, theta)
           y == Turned(f.y, Neg(f.x), theta)
<1>1. RightHanded(x, y, f.z)
  BY TurnKeepsHand
<1> HIDE DEF x, y
<1>2. RightHanded(x, Turned(y, f.z, joint.alpha), Turned(f.z, Neg(y), joint.alpha))
  BY <1>1, TurnKeepsHand
<1> QED
  BY <1>2 DEF Walk, x, y

-----------------------------------------------------------------------------
(* The four branches of _quaternion_from_rotation.                          *)

\* What PoseIsFrame asks of a quaternion of the rotation with these axes.
Represents(q, x, y, z) ==
    /\ q.square > 0
    /\ q.v[1] * q.v[1] + q.v[2] * q.v[2] + q.v[3] * q.v[3] + q.v[4] * q.v[4] = q.square
    /\ \A i \in 1..3 : RotationOf(q)[i] = Scale(q.square, <<x[i], y[i], z[i]>>)

LEMMA BranchTaken ==
    ASSUME NEW r, NEW q \in QuaternionFromRotation(r)
    PROVE  \/ /\ Trace(r) >= 0
              /\ q = Quat(r[3][2] - r[2][3], r[1][3] - r[3][1], r[2][1] - r[1][2],
                          Trace(r) + 1, Trace(r) + 1)
           \/ /\ Trace(r) <= 0 /\ r[1][1] >= r[2][2] /\ r[1][1] >= r[3][3]
              /\ q = Quat(1 + r[1][1] - r[2][2] - r[3][3], r[1][2] + r[2][1], r[1][3] + r[3][1],
                          r[3][2] - r[2][3], 1 + r[1][1] - r[2][2] - r[3][3])
           \/ /\ Trace(r) <= 0 /\ (r[1][1] <= r[2][2] \/ r[1][1] <= r[3][3]) /\ r[2][2] >= r[3][3]
              /\ q = Quat(r[1][2] + r[2][1], 1 + r[2][2] - r[1][1] - r[3][3], r[2][3] + r[3][2],
                          r[1][3] - r[3][1], 1 + r[2][2] - r[1][1] - r[3][3])
           \/ /\ Trace(r) <= 0 /\ (r[1][1] <= r[2][2] \/ r[1][1] <= r[3][3]) /\ r[2][2] <= r[3][3]
              /\ q = Quat(r[1][3] + r[3][1], r[2][3] + r[3][2], 1 + r[3][3] - r[1][1] - r[2][2],
                          r[2][1] - r[1][2], 1 + r[3][3] - r[1][1] - r[2][2])
<1> DEFINE t1 == Trace(r) >= 0
           t2 == Trace(r) <= 0 /\ r[1][1] >= r[2][2] /\ r[1][1] >= r[3][3]
           t3 == Trace(r) <= 0 /\ (r[1][1] <= r[2][2] \/ r[1][1] <= r[3][3]) /\ r[2][2] >= r[3][3]
           t4 == Trace(r) <= 0 /\ (r[1][1] <= r[2][2] \/ r[1][1] <= r[3][3]) /\ r[2][2] <= r[3][3]
           q1 == Quat(r[3][2] - r[2][3], r[1][3] - r[3][1], r[2][1] - r[1][2],
                      Trace(r) + 1, Trace(r) + 1)
           q2 == Quat(1 + r[1][1] - r[2][2] - r[3][3], r[1][2] + r[2][1], r[1][3] + r[3][1],
                      r[3][2] - r[2][3], 1 + r[1][1] - r[2][2] - r[3][3])
           q3 == Quat(r[1][2] + r[2][1], 1 + r[2][2] - r[1][1] - r[3][3], r[2][3] + r[3][2],
                      r[1][3] - r[3][1], 1 + r[2][2] - r[1][1] - r[3][3])
           q4 == Quat(r[1][3] + r[3][1], r[2][3] + r[3][2], 1 + r[3][3] - r[1][1] - r[2][2],
                      r[2][1] - r[1][2], 1 + r[3][3] - r[1][1] - r[2][2])
           Branches == {[taken |-> t1, q |-> q1], [taken |-> t2, q |-> q2],
                        [taken |-> t3, q |-> q3], [taken |-> t4, q |-> q4]}
<1>1. QuaternionFromRotation(r) = {b.q : b \in {c \in Branches : c.taken}}
  BY DEF QuaternionFromRotation
<1> HIDE DEF t1, t2, t3, t4, q1, q2, q3, q4
<1>2. (t1 /\ q = q1) \/ (t2 /\ q = q2) \/ (t3 /\ q = q3) \/ (t4 /\ q = q4)
  BY <1>1
<1> QED
  BY <1>2, Zenon DEF t1, t2, t3, t4, q1, q2, q3, q4

LEMMA BranchOfRotation ==
    ASSUME NEW x \in Units, NEW y \in Units, NEW z \in Units, NEW r,
           r[1][1] = x[1], r[2][1] = x[2], r[3][1] = x[3],
           r[1][2] = y[1], r[2][2] = y[2], r[3][2] = y[3],
           r[1][3] = z[1], r[2][3] = z[2], r[3][3] = z[3],
           RightHanded(x, y, z), NEW q \in QuaternionFromRotation(r)
    PROVE  Represents(q, x, y, z)
<1> DEFINE w == x[1] + y[2] + z[3] + 1
           a == 1 + x[1] - y[2] - z[3]
           b == 1 + y[2] - x[1] - z[3]
           c == 1 + z[3] - x[1] - y[2]
<1>2. Trace(r) = x[1] + y[2] + z[3]
  BY DEF Trace
<1>3. \/ /\ x[1] + y[2] + z[3] >= 0
         /\ q = Quat(y[3] - z[2], z[1] - x[3], x[2] - y[1], w, w)
      \/ /\ x[1] + y[2] + z[3] <= 0 /\ x[1] >= y[2] /\ x[1] >= z[3]
         /\ q = Quat(a, y[1] + x[2], z[1] + x[3], y[3] - z[2], a)
      \/ /\ x[1] + y[2] + z[3] <= 0 /\ (x[1] <= y[2] \/ x[1] <= z[3]) /\ y[2] >= z[3]
         /\ q = Quat(y[1] + x[2], b, z[2] + y[3], z[1] - x[3], b)
      \/ /\ x[1] + y[2] + z[3] <= 0 /\ (x[1] <= y[2] \/ x[1] <= z[3]) /\ y[2] <= z[3]
         /\ q = Quat(z[1] + x[3], z[2] + y[3], c, x[2] - y[1], c)
  BY <1>2, BranchTaken
<1>4. y \in Units /\ z = Cross(x, y) /\ z \in Units
  BY DEF RightHanded
<1>5. CASE x = <<1, 0, 0>>
  BY <1>3, <1>4, <1>5, SMTT(30) DEF Represents, Quat, RotationOf, Scale, Units, Cross
<1>6. CASE x = <<-1, 0, 0>>
  BY <1>3, <1>4, <1>6, SMTT(30) DEF Represents, Quat, RotationOf, Scale, Units, Cross
<1>7. CASE x = <<0, 1, 0>>
  BY <1>3, <1>4, <1>7, SMTT(30) DEF Represents, Quat, RotationOf, Scale, Units, Cross
<1>8. CASE x = <<0, -1, 0>>
  BY <1>3, <1>4, <1>8, SMTT(30) DEF Represents, Quat, RotationOf, Scale, Units, Cross
<1>9. CASE x = <<0, 0, 1>>
  BY <1>3, <1>4, <1>9, SMTT(30) DEF Represents, Quat, RotationOf, Scale, Units, Cross
<1>10. CASE x = <<0, 0, -1>>
  BY <1>3, <1>4, <1>10, SMTT(30) DEF Represents, Quat, RotationOf, Scale, Units, Cross
<1> QED
  BY <1>5, <1>6, <1>7, <1>8, <1>9, <1>10 DEF Units
-----------------------------------------------------------------------------
(* The invariant: the frame is right-handed, and the matrix is the frame.   *)

IInv ==
    /\ angles \in Seq(Quarters)
    /\ frame \in Frames
    /\ RightHanded(frame.x, frame.y, frame.z)
    /\ ChainFollowsArm

LEMMA InitInvariant == Init => IInv
<1> SUFFICES ASSUME Init PROVE IInv
  OBVIOUS
<1>1. RightHanded(frame.x, frame.y, frame.z)
  BY DEF Init, BaseFrame, RightHanded, Units, Cross
<1> QED
  BY <1>1 DEF Init, IInv, Frames, Vectors, BaseFrame, Eye, ChainFollowsArm

LEMMA StepKeeps == ASSUME IInv, NEW theta \in Quarters, Multiply(theta) PROVE IInv'
<1> DEFINE i == Len(angles) + 1
           joint == Table[i]
           n == DHTransform(theta, joint.d, joint.a, joint.alpha)
<1>1. i \in 1..Len(Table)
  BY TableAssumption DEF IInv, Multiply
<1>2. joint.d \in Int /\ joint.a \in Int /\ joint.alpha \in Quarters
  BY <1>1, TableAssumption
<1>3. /\ transform' = Times(transform, n)
      /\ frame' = Walk(frame, theta, joint)
      /\ angles' = Append(angles, theta)
  BY DEF Multiply
<1> DEFINE link == [d |-> joint.d, a |-> joint.a, alpha |-> joint.alpha]
<1>4. /\ link \in Joints
      /\ n = DHTransform(theta, link.d, link.a, link.alpha)
      /\ Walk(frame, theta, joint) = Walk(frame, theta, link)
  BY <1>2 DEF Joints, Walk
<1> HIDE DEF link, joint, n, i
<1>5. frame' \in Frames /\ angles' \in Seq(Quarters)
  BY <1>3, <1>4, WalkType DEF IInv
<1>6. ASSUME NEW k \in 1..3 PROVE RowTimes(transform[k], n) = RowOf(frame', k)
  <2>1. transform[k] = RowOf(frame, k)
    BY DEF IInv, ChainFollowsArm, RowOf
  <2> QED
    BY <1>3, <1>4, <2>1, RowFollows DEF IInv
<1>7. RowTimes(transform[4], n) = <<0, 0, 0, 1>>
  BY <1>4, LastRowFollows DEF IInv, ChainFollowsArm
<1>8. /\ transform'[1] = RowOf(frame', 1) /\ transform'[2] = RowOf(frame', 2)
      /\ transform'[3] = RowOf(frame', 3) /\ transform'[4] = <<0, 0, 0, 1>>
  BY <1>3, <1>6, <1>7 DEF Times
<1>9. ChainFollowsArm'
  BY <1>8 DEF ChainFollowsArm, RowOf
<1>10. RightHanded(frame'.x, frame'.y, frame'.z)
  <2>1. RightHanded(frame.x, frame.y, frame.z) /\ joint.alpha \in Quarters
    BY <1>2 DEF IInv
  <2> QED
    BY <1>3, <2>1, WalkKeepsHand
<1> QED
  BY <1>5, <1>9, <1>10 DEF IInv

LEMMA NextKeeps == IInv /\ [Next]_vars => IInv'
<1> SUFFICES ASSUME IInv, [Next]_vars PROVE IInv'
  OBVIOUS
<1>1. CASE UNCHANGED vars
  BY <1>1 DEF vars, IInv, ChainFollowsArm
<1> QED
  BY <1>1, StepKeeps DEF Next

LEMMA PoseFromFrame == IInv => PoseIsFrame
<1> SUFFICES ASSUME IInv, NEW pose \in Poses
             PROVE  pose.at = frame.at /\ Represents(pose.orientation, frame.x, frame.y, frame.z)
  BY Zenon DEF PoseIsFrame, Represents
<1>1. /\ pose.at = <<transform[1][4], transform[2][4], transform[3][4]>>
      /\ pose.orientation \in QuaternionFromRotation(transform)
  BY DEF Poses
<1>2. /\ transform[1] = <<frame.x[1], frame.y[1], frame.z[1], frame.at[1]>>
      /\ transform[2] = <<frame.x[2], frame.y[2], frame.z[2], frame.at[2]>>
      /\ transform[3] = <<frame.x[3], frame.y[3], frame.z[3], frame.at[3]>>
  BY DEF IInv, ChainFollowsArm
<1>3. frame.at \in Vectors
  BY DEF IInv, Frames
<1>4. pose.at = frame.at
  BY <1>1, <1>2, <1>3 DEF Vectors
<1>5. RightHanded(frame.x, frame.y, frame.z)
  BY DEF IInv
<1>6. Represents(pose.orientation, frame.x, frame.y, frame.z)
  <2> DEFINE x == frame.x  y == frame.y  z == frame.z  r == transform  q == pose.orientation
  <2>1. /\ r[1][1] = x[1] /\ r[2][1] = x[2] /\ r[3][1] = x[3]
        /\ r[1][2] = y[1] /\ r[2][2] = y[2] /\ r[3][2] = y[3]
        /\ r[1][3] = z[1] /\ r[2][3] = z[2] /\ r[3][3] = z[3]
    BY <1>2
  <2>2. x \in Units /\ y \in Units /\ z \in Units /\ RightHanded(x, y, z)
    BY <1>5 DEF RightHanded
  <2>3. q \in QuaternionFromRotation(r)
    BY <1>1
  <2> HIDE DEF x, y, z, r, q
  <2>4. Represents(q, x, y, z)
    BY <2>1, <2>2, <2>3, BranchOfRotation
  <2> QED
    BY <2>4 DEF x, y, z, q
<1> QED
  BY <1>4, <1>6

\* Whatever the lengths of the links and however many there are, the product of the
\* transforms is the frame at the end of the arm.
THEOREM ChainIsArm == Spec => []ChainFollowsArm
<1>1. IInv => ChainFollowsArm
  BY DEF IInv
<1> QED
  BY <1>1, InitInvariant, NextKeeps, PTL DEF Spec

\* Whatever the arm, as long as its links meet at quarter turns: the pose of every
\* set of quarter-turn angles has the position of the frame at the end of the arm
\* and a quaternion, defined and of unit length, that is the frame's rotation, in
\* each of the four branches of _quaternion_from_rotation and in either of two
\* where rounding decides between them.
THEOREM PoseIsRight == Spec => []PoseIsFrame
<1> QED
  BY InitInvariant, NextKeeps, PoseFromFrame, PTL DEF Spec
=============================================================================
