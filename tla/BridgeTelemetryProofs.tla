----------------------- MODULE BridgeTelemetryProofs -----------------------
(***************************************************************************)
(* What the bridge guarantees for any queue size and any number of          *)
(* JointStates and faults: no JointState is lost before the worker took it, *)
(* only those that waited are overtaken, a fault tears no more than one, and *)
(* all of it is a Handover.                                                  *)
(***************************************************************************)
EXTENDS BridgeTelemetry, TLAPS

(* Lines of JointStates.  In a settled line only members of W are overtaken. *)

Settled(s, W) == \A i, k \in 1..Len(s) : i < k /\ s[k] < s[i] => s[k] \in W
Before(s, t, W) == \A x \in Entries(s), y \in Entries(t) : y < x => y \in W

LEMMA EmptyLine == Entries(<<>>) = {} /\ \A W : Settled(<<>>, W)
BY DEF Entries, Settled

LEMMA AppendLine ==
    ASSUME NEW s \in Seq(States), NEW x \in States, NEW W
    PROVE  /\ Append(s, x) \in Seq(States) /\ Len(Append(s, x)) = Len(s) + 1
           /\ Entries(Append(s, x)) = Entries(s) \cup {x}
           /\ Settled(s, W) /\ (\A y \in Entries(s) : x < y => x \in W)
                => Settled(Append(s, x), W)
<1> DEFINE a == Append(s, x)
           n == Len(s)
<1>1. /\ a \in Seq(States) /\ Len(a) = n + 1 /\ n \in Nat
      /\ \A i \in 1..n : a[i] = s[i]
      /\ a[n + 1] = x
  OBVIOUS
<1> HIDE DEF a
<1>2. Entries(a) = Entries(s) \cup {x}
  <2>1. ASSUME NEW y \in Entries(a) PROVE y \in Entries(s) \cup {x}
    <3>1. PICK i \in 1..Len(a) : y = a[i]
      BY DEF Entries
    <3> QED
      BY <3>1, <1>1 DEF Entries
  <2>2. ASSUME NEW y \in Entries(s) PROVE y \in Entries(a)
    <3>1. PICK i \in 1..n : y = s[i]
      BY DEF Entries
    <3>2. i \in 1..Len(a) /\ y = a[i]
      BY <3>1, <1>1
    <3> QED
      BY <3>2 DEF Entries
  <2>3. x \in Entries(a)
    <3>1. n + 1 \in 1..Len(a)
      BY <1>1
    <3> QED
      BY <3>1, <1>1 DEF Entries
  <2> QED
    BY <2>1, <2>2, <2>3
<1>3. ASSUME Settled(s, W), \A y \in Entries(s) : x < y => x \in W
      PROVE  Settled(a, W)
  <2> SUFFICES ASSUME NEW i \in 1..Len(a), NEW k \in 1..Len(a), i < k, a[k] < a[i]
               PROVE  a[k] \in W
    BY DEF Settled
  <2> HIDE DEF n
  <2>1. i \in 1..n
    BY <1>1
  <2>2. CASE k = n + 1
    <3>1. s[i] \in Entries(s)
      BY <2>1 DEF Entries, n
    <3> QED
      BY <2>1, <2>2, <3>1, <1>1, <1>3
  <2>3. CASE k # n + 1
    <3>1. k \in 1..n
      BY <2>3, <1>1
    <3> QED
      BY <2>1, <3>1, <1>1, <1>3 DEF Settled, n
  <2> QED
    BY <2>2, <2>3
<1> QED
  BY <1>1, <1>2, <1>3 DEF a

LEMMA HeadOfLine ==
    ASSUME NEW s \in Seq(States), s # <<>>, NEW W
    PROVE  /\ Head(s) \in States /\ Tail(s) \in Seq(States)
           /\ Len(s) > 0 /\ Len(Tail(s)) = Len(s) - 1
           /\ Entries(s) = Entries(Tail(s)) \cup {Head(s)}
           /\ Settled(s, W) => /\ Settled(Tail(s), W)
                               /\ \A y \in Entries(Tail(s)) : y < Head(s) => y \in W
<1> DEFINE t == Tail(s)
           n == Len(s)
<1>1. /\ n \in Nat /\ n >= 1 /\ Head(s) = s[1] /\ s[1] \in States
      /\ t \in Seq(States) /\ Len(t) = n - 1
      /\ \A i \in 1..(n - 1) : t[i] = s[i + 1]
  OBVIOUS
<1> HIDE DEF t
<1>2. \A y \in Entries(t) : \E i \in 1..(n - 1) : y = s[i + 1]
  BY <1>1 DEF Entries
<1>3. Entries(s) = Entries(t) \cup {Head(s)}
  <2>1. ASSUME NEW y \in Entries(s) PROVE y \in Entries(t) \cup {Head(s)}
    <3>1. PICK i \in 1..n : y = s[i]
      BY DEF Entries
    <3>2. CASE i = 1
      BY <3>1, <3>2, <1>1
    <3>3. CASE i # 1
      <4>1. i - 1 \in 1..Len(t) /\ t[i - 1] = s[i]
        BY <3>3, <1>1
      <4> QED
        BY <4>1, <3>1 DEF Entries
    <3> QED
      BY <3>2, <3>3
  <2>2. ASSUME NEW y \in Entries(t) PROVE y \in Entries(s)
    <3>1. PICK i \in 1..(n - 1) : y = s[i + 1]
      BY <1>2
    <3>2. i + 1 \in 1..Len(s)
      BY <1>1
    <3> QED
      BY <3>1, <3>2 DEF Entries
  <2>3. Head(s) \in Entries(s)
    <3>1. 1 \in 1..Len(s)
      BY <1>1
    <3> QED
      BY <3>1, <1>1 DEF Entries
  <2> QED
    BY <2>1, <2>2, <2>3
<1>4. ASSUME Settled(s, W) PROVE Settled(t, W)
  <2> SUFFICES ASSUME NEW i \in 1..Len(t), NEW k \in 1..Len(t), i < k, t[k] < t[i]
               PROVE  t[k] \in W
    BY DEF Settled
  <2>1. t[i] = s[i + 1] /\ t[k] = s[k + 1]
    BY <1>1
  <2>2. i + 1 \in 1..Len(s) /\ k + 1 \in 1..Len(s) /\ i + 1 < k + 1
    BY <1>1
  <2> QED
    BY <2>1, <2>2, <1>4 DEF Settled
<1>5. ASSUME Settled(s, W), NEW y \in Entries(t), y < Head(s) PROVE y \in W
  <2>1. PICK i \in 1..(n - 1) : y = s[i + 1]
    BY <1>2
  <2>2. i + 1 \in 1..Len(s) /\ 1 \in 1..Len(s) /\ 1 < i + 1
    BY <1>1
  <2> QED
    BY <2>1, <2>2, <1>1, <1>5 DEF Settled
<1> QED
  BY <1>1, <1>3, <1>4, <1>5 DEF t
-----------------------------------------------------------------------------
(* The inductive invariant.                                                  *)

\* While the connection lives, the broker has what was written of the JointState in
\* hand; once it does not, the part the broker has is a tear to be counted.
TearToCome == IF worker = "publishing" /\ link # "open" THEN Torn(got) ELSE 0
TearsAreCounted ==
    /\ worker = "publishing" /\ link = "open" => got = sent
    /\ torn + TearToCome <= breaks

\* Whoever is behind in the line taken, queue, ready, waiting arrived later or waited.
LineInOrder ==
    /\ Settled(taken, waited) /\ Settled(queue, waited) /\ Settled(ready, waited)
    /\ Before(taken, queue, waited) /\ Before(taken, ready, waited)
    /\ Before(queue, ready, waited)
    /\ Entries(waiting) \subseteq waited

IInv == TypeOK /\ EachInOnePlace /\ TearsAreCounted /\ LineInOrder

LEMMA InitInvariant == Init => IInv
<1> SUFFICES ASSUME Init PROVE IInv
  OBVIOUS
<1> USE BridgeAssumption
<1>1. TypeOK
  BY DEF Init, TypeOK, States, Nothing, Workers, Links
<1>2. EachInOnePlace
  BY EmptyLine DEF Init, EachInOnePlace
<1>3. LineInOrder
  BY EmptyLine DEF Init, LineInOrder, Before
<1> QED
  BY <1>1, <1>2, <1>3 DEF Init, IInv, TearsAreCounted, TearToCome

\* The steps of the worker and of the network do not touch the line.
LineUnchanged == UNCHANGED <<inbound, queue, taken>>

LEMMA LineStutters ==
    ASSUME IInv, LineUnchanged
    PROVE  EachInOnePlace' /\ LineInOrder'
BY DEF IInv, LineUnchanged, inbound, EachInOnePlace, LineInOrder,
       Settled, Before, Entries

\* The steps of the line do not touch the connection.
LEMMA TearsStutter ==
    ASSUME IInv, UNCHANGED <<worker, sent, got, torn, link, breaks>>
    PROVE  TearsAreCounted'
BY DEF IInv, TearsAreCounted, TearToCome, Torn

\* A JointState that moves along the line stays in one place.
LEMMA MovesKeep ==
    ASSUME IInv, arrived' = arrived,
           Len(ready') + Len(waiting') + Len(queue') + Len(taken')
             = Len(ready) + Len(waiting) + Len(queue) + Len(taken),
           Entries(ready') \cup Entries(waiting') \cup Entries(queue') \cup Entries(taken')
             = Entries(ready) \cup Entries(waiting) \cup Entries(queue) \cup Entries(taken)
    PROVE  EachInOnePlace'
BY Zenon DEF IInv, EachInOnePlace

LEMMA ArriveKeeps == ASSUME IInv, Arrive PROVE IInv'
<1> USE BridgeAssumption
<1> DEFINE x == arrived + 1
<1>1. /\ x \in States /\ arrived \in Nat /\ arrived' = x /\ ready' = Append(ready, x)
      /\ ready \in Seq(States)
      /\ UNCHANGED <<waiting, waited, queue, taken, outbound, network>>
  BY DEF Arrive, IInv, TypeOK, States
<1>2. \A y \in Entries(ready) \cup Entries(waiting) \cup Entries(queue) \cup Entries(taken) :
         y \in Int /\ y < x
  BY <1>1 DEF IInv, EachInOnePlace
<1> HIDE DEF x
<1>3. /\ ready' \in Seq(States) /\ Len(ready') = Len(ready) + 1
      /\ Entries(ready') = Entries(ready) \cup {x}
      /\ Settled(ready, waited) => Settled(ready', waited)
  <2>1. \A y \in Entries(ready) : x < y => x \in waited
    BY <1>1, <1>2 DEF States
  <2> QED
    BY <1>1, <2>1, AppendLine
<1>4. TypeOK'
  BY <1>1, <1>3 DEF x, Arrive, IInv, TypeOK, outbound, network
<1>5. EachInOnePlace'
  <2>1. 1..arrived' = 1..arrived \cup {x}
    BY <1>1 DEF x
  <2>2. Len(ready) \in Nat /\ Len(waiting) \in Nat /\ Len(queue) \in Nat /\ Len(taken) \in Nat
    BY DEF IInv, TypeOK
  <2>3. Len(ready') + Len(waiting') + Len(queue') + Len(taken') = arrived'
    <3>1. Len(ready) + Len(waiting) + Len(queue) + Len(taken) = arrived
      BY DEF IInv, EachInOnePlace
    <3>2. /\ Len(ready') = Len(ready) + 1 /\ Len(waiting') = Len(waiting)
          /\ Len(queue') = Len(queue) /\ Len(taken') = Len(taken)
      BY <1>1, <1>3
    <3> QED
      BY <1>1, <2>2, <3>1, <3>2 DEF x
  <2>4. Entries(ready') \cup Entries(waiting') \cup Entries(queue') \cup Entries(taken')
          = 1..arrived'
    BY <1>1, <1>3, <2>1 DEF IInv, EachInOnePlace
  <2> QED
    BY <2>3, <2>4 DEF EachInOnePlace
<1>7. TearsAreCounted'
  BY <1>1, TearsStutter DEF outbound, network
<1>8. LineInOrder'
  <2>1. \A y \in Entries(taken) \cup Entries(queue) : ~(x < y)
    BY <1>1, <1>2 DEF States
  <2> QED
    BY <1>1, <1>3, <2>1 DEF IInv, LineInOrder, Before
<1> QED
  BY <1>4, <1>5, <1>7, <1>8 DEF IInv

LEMMA ResumeKeeps == ASSUME IInv, Resume PROVE IInv'
<1> USE BridgeAssumption
<1> DEFINE x == Head(ready)
<1>1. /\ ready # <<>> /\ ready \in Seq(States) /\ queue \in Seq(States) /\ waiting \in Seq(States)
      /\ ready' = Tail(ready)
      /\ UNCHANGED <<arrived, taken, outbound, network>>
      /\ arrived \in Nat /\ waited \subseteq States
      /\ Len(waiting) \in Nat /\ Len(queue) \in Nat /\ Len(ready) \in Nat /\ Len(taken) \in Nat
  <2>1. /\ arrived \in Nat /\ waited \subseteq States /\ taken \in Seq(States)
        /\ ready \in Seq(States) /\ queue \in Seq(States) /\ waiting \in Seq(States)
    BY DEF IInv, TypeOK
  <2>2. Len(waiting) \in Nat /\ Len(queue) \in Nat /\ Len(ready) \in Nat /\ Len(taken) \in Nat
    BY <2>1
  <2> QED
    BY <2>1, <2>2 DEF Resume
<1>2. /\ x \in States /\ ready' \in Seq(States) /\ Len(ready) > 0 /\ Len(ready') = Len(ready) - 1
      /\ Entries(ready) = Entries(ready') \cup {x}
      /\ Settled(ready', waited)
      /\ \A y \in Entries(ready') : y < x => y \in waited
  BY <1>1, HeadOfLine DEF IInv, LineInOrder
<1> HIDE DEF x
<1>3. TearsAreCounted'
  BY <1>1, TearsStutter DEF outbound, network
<1>4. CASE Len(queue) < Capacity /\ queue' = Append(queue, x) /\ UNCHANGED <<waiting, waited>>
  <2>1. /\ queue' \in Seq(States) /\ Len(queue') = Len(queue) + 1
        /\ Entries(queue') = Entries(queue) \cup {x}
        /\ Settled(queue', waited)
    <3>1. \A y \in Entries(queue) : x < y => x \in waited
      BY <1>2 DEF IInv, LineInOrder, Before
    <3> QED
      BY <1>1, <1>2, <1>4, <3>1, AppendLine DEF IInv, LineInOrder
  <2>2. TypeOK'
    BY <1>1, <1>2, <1>4, <2>1 DEF IInv, TypeOK, outbound, network
  <2>3. EachInOnePlace'
    <3>1. Len(ready') + Len(waiting') + Len(queue') + Len(taken')
            = Len(ready) + Len(waiting) + Len(queue) + Len(taken)
      BY <1>1, <1>2, <1>4, <2>1
    <3>2. Entries(ready') \cup Entries(waiting') \cup Entries(queue') \cup Entries(taken')
            = Entries(ready) \cup Entries(waiting) \cup Entries(queue) \cup Entries(taken)
      BY <1>1, <1>2, <1>4, <2>1
    <3> QED
      BY <1>1, <3>1, <3>2, MovesKeep
  <2>5. LineInOrder'
    BY <1>1, <1>2, <1>4, <2>1 DEF IInv, LineInOrder, Before
  <2> QED
    BY <1>3, <2>2, <2>3, <2>5 DEF IInv
<1>5. CASE /\ Len(queue) = Capacity /\ waiting' = Append(waiting, x)
           /\ waited' = waited \cup {x} /\ UNCHANGED queue
  <2>1. /\ waiting' \in Seq(States) /\ Len(waiting') = Len(waiting) + 1
        /\ Entries(waiting') = Entries(waiting) \cup {x}
    BY <1>1, <1>2, <1>5, AppendLine
  <2>2. TypeOK'
    BY <1>1, <1>2, <1>5, <2>1 DEF IInv, TypeOK, outbound, network
  <2>3. EachInOnePlace'
    <3>0. /\ Len(ready') = Len(ready) - 1 /\ Len(waiting') = Len(waiting) + 1
          /\ Len(queue') = Len(queue) /\ Len(taken') = Len(taken)
      BY <1>1, <1>2, <1>5, <2>1
    <3>1. Len(ready') + Len(waiting') + Len(queue') + Len(taken')
            = Len(ready) + Len(waiting) + Len(queue) + Len(taken)
      BY <1>1, <3>0
    <3>2. Entries(ready') \cup Entries(waiting') \cup Entries(queue') \cup Entries(taken')
            = Entries(ready) \cup Entries(waiting) \cup Entries(queue) \cup Entries(taken)
      BY <1>1, <1>2, <1>5, <2>1
    <3> QED
      BY <1>1, <3>1, <3>2, MovesKeep
  <2>5. LineInOrder'
    <3>1. /\ Settled(taken', waited') /\ Settled(queue', waited') /\ Settled(ready', waited')
      BY <1>1, <1>2, <1>5 DEF IInv, LineInOrder, Settled
    <3> QED
      BY <3>1, <1>1, <1>2, <1>5, <2>1 DEF IInv, LineInOrder, Before
  <2> QED
    BY <1>3, <2>2, <2>3, <2>5 DEF IInv
<1> QED
  BY <1>4, <1>5 DEF Resume, x

LEMMA TakeTypes ==
    ASSUME TypeOK, Take
    PROVE  /\ worker' \in Workers /\ hand' \in States \cup {Nothing}
           /\ sent' \in 0..(MessagesPerState - 1) /\ got' \in 0..sent'
<1>1. Head(queue) \in States
  BY DEF TypeOK, Take
<1>2. 0 \in 0..(MessagesPerState - 1)
  BY BridgeAssumption
<1> QED
  BY <1>1, <1>2 DEF Take, TypeOK, Workers

\* What queue.get() does to the line: the head is taken, and one waiting put() wakes.
LEMMA TakeKeeps == ASSUME IInv, Take PROVE IInv'
<1> USE BridgeAssumption
<1> DEFINE x == Head(queue)
           w == Head(waiting)
<1>1. /\ queue # <<>> /\ ready \in Seq(States) /\ queue \in Seq(States) /\ waiting \in Seq(States)
      /\ taken \in Seq(States)
      /\ queue' = Tail(queue) /\ taken' = Append(taken, x)
      /\ UNCHANGED <<arrived, waited, torn, network>>
      /\ arrived \in Nat /\ waited \subseteq States
      /\ Len(waiting) \in Nat /\ Len(queue) \in Nat /\ Len(ready) \in Nat /\ Len(taken) \in Nat
  <2>1. /\ queue # <<>> /\ queue' = Tail(queue) /\ taken' = Append(taken, x)
        /\ UNCHANGED <<arrived, waited, torn, network>>
    BY Zenon DEF Take
  <2> QED
    BY <2>1 DEF IInv, TypeOK
<1>2. /\ x \in States /\ queue' \in Seq(States) /\ Len(queue) > 0 /\ Len(queue') = Len(queue) - 1
      /\ Entries(queue) = Entries(queue') \cup {x}
      /\ Settled(queue', waited)
      /\ \A y \in Entries(queue') : y < x => y \in waited
  BY <1>1, HeadOfLine DEF IInv, LineInOrder
<1> HIDE DEF x
<1>3. /\ taken' \in Seq(States) /\ Len(taken') = Len(taken) + 1
      /\ Entries(taken') = Entries(taken) \cup {x}
      /\ Settled(taken', waited)
  <2>1. \A y \in Entries(taken) : x < y => x \in waited
    BY <1>2 DEF IInv, LineInOrder, Before
  <2> QED
    BY <1>1, <1>2, <2>1, AppendLine DEF IInv, LineInOrder
<1>4. TearsAreCounted'
  <2>1. UNCHANGED <<torn, link, breaks>> /\ worker = "getting"
    BY Zenon DEF Take, network
  <2>2. \/ worker' = "publishing" /\ sent' = 0 /\ got' = 0
        \/ UNCHANGED <<worker, sent, got>>
    BY Zenon DEF Take
  <2> QED
    BY <2>1, <2>2 DEF IInv, TypeOK, TearsAreCounted, TearToCome, Torn
<1>5. CASE waiting = <<>> /\ UNCHANGED <<ready, waiting>>
  <2>1. TypeOK'
    <3>1. Len(queue') <= Capacity
      BY <1>1, <1>2 DEF IInv, TypeOK
    <3>2. UNCHANGED <<arrived, waited, torn, brokerUp, link, breaks>>
      BY <1>1 DEF network
    <3> QED
      BY <1>2, <1>3, <1>5, <3>1, <3>2, TakeTypes DEF IInv, TypeOK
  <2>2. EachInOnePlace'
    <3>1. Len(ready') + Len(waiting') + Len(queue') + Len(taken')
            = Len(ready) + Len(waiting) + Len(queue) + Len(taken)
      BY <1>1, <1>2, <1>3, <1>5
    <3>2. Entries(ready') \cup Entries(waiting') \cup Entries(queue') \cup Entries(taken')
            = Entries(ready) \cup Entries(waiting) \cup Entries(queue) \cup Entries(taken)
      BY <1>1, <1>2, <1>3, <1>5
    <3> QED
      BY <1>1, <3>1, <3>2, MovesKeep
  <2>4. LineInOrder'
    BY <1>1, <1>2, <1>3, <1>5 DEF IInv, LineInOrder, Before
  <2> QED
    BY <1>4, <2>1, <2>2, <2>4 DEF IInv
<1>6. CASE waiting # <<>> /\ ready' = Append(ready, w) /\ waiting' = Tail(waiting)
  <2>1. /\ w \in States /\ waiting' \in Seq(States)
        /\ Len(waiting') = Len(waiting) - 1
        /\ Entries(waiting) = Entries(waiting') \cup {w}
    BY <1>1, <1>6, HeadOfLine
  <2>2. w \in waited
    BY <2>1 DEF IInv, LineInOrder
  <2> HIDE DEF w
  <2>3. /\ ready' \in Seq(States) /\ Len(ready') = Len(ready) + 1
        /\ Entries(ready') = Entries(ready) \cup {w}
        /\ Settled(ready', waited)
    BY <1>1, <1>6, <2>1, <2>2, AppendLine DEF IInv, LineInOrder
  <2>4. TypeOK'
    <3>1. /\ ready' \in Seq(States) /\ waiting' \in Seq(States) /\ queue' \in Seq(States)
          /\ taken' \in Seq(States)
      BY <1>2, <1>3, <2>1, <2>3
    <3>2. Len(queue') <= Capacity
      BY <1>1, <1>2 DEF IInv, TypeOK
    <3>3. UNCHANGED <<arrived, waited, torn, brokerUp, link, breaks>>
      BY <1>1 DEF network
    <3> QED
      BY <3>1, <3>2, <3>3, TakeTypes DEF IInv, TypeOK
  <2>5. EachInOnePlace'
    <3>1. Len(ready') + Len(waiting') + Len(queue') + Len(taken')
            = Len(ready) + Len(waiting) + Len(queue) + Len(taken)
      BY <1>1, <1>2, <1>3, <2>1, <2>3
    <3>2. Entries(ready') \cup Entries(waiting') \cup Entries(queue') \cup Entries(taken')
            = Entries(ready) \cup Entries(waiting) \cup Entries(queue) \cup Entries(taken)
      BY <1>1, <1>2, <1>3, <2>1, <2>3
    <3> QED
      BY <1>1, <3>1, <3>2, MovesKeep
  <2>7. LineInOrder'
    BY <1>1, <1>2, <1>3, <2>1, <2>2, <2>3 DEF IInv, LineInOrder, Before
  <2> QED
    BY <1>4, <2>4, <2>5, <2>7 DEF IInv
<1> QED
  BY <1>5, <1>6 DEF Take, w

\* The steps of the worker around the line, and those of the network.
LEMMA WorkerKeeps ==
    ASSUME IInv, Connect \/ ConnectFails \/ Wake \/ Publish \/ PublishFails PROVE IInv'
<1> USE BridgeAssumption
<1>1. LineUnchanged
  BY DEF Connect, ConnectFails, Wake, Publish, PublishFails, LineUnchanged, network
<1>2. TypeOK'
  <2>1. UNCHANGED brokerUp /\ breaks' \in 0..MaxBreaks
    BY DEF Connect, ConnectFails, Wake, Publish, PublishFails, CannotWrite, network, IInv, TypeOK
  <2>2. worker' \in Workers /\ link' \in Links /\ hand' \in States \cup {Nothing}
    BY DEF Connect, ConnectFails, Wake, Publish, PublishFails, network, IInv, TypeOK,
           Workers, Links
  <2>3. torn' \in Nat
    BY DEF Connect, ConnectFails, Wake, Publish, PublishFails, CannotWrite, Torn, IInv, TypeOK
  <2>4. sent' \in 0..(MessagesPerState - 1) /\ got' \in 0..sent'
    <3>1. CASE Publish /\ sent + 1 < MessagesPerState
      BY <3>1 DEF Publish, GotNow, IInv, TypeOK
    <3>2. CASE ~(Publish /\ sent + 1 < MessagesPerState)
      <4>1. UNCHANGED <<sent, got>> \/ (sent' = 0 /\ got' = 0)
        BY <3>2 DEF Connect, ConnectFails, Wake, Publish, PublishFails
      <4> QED
        BY <4>1 DEF IInv, TypeOK
    <3> QED
      BY <3>1, <3>2
  <2> QED
    BY <1>1, <2>1, <2>2, <2>3, <2>4 DEF LineUnchanged, inbound, IInv, TypeOK
<1>3. TearsAreCounted'
  <2>1. CASE Connect \/ ConnectFails \/ Wake
    <3>1. worker # "publishing" /\ worker' # "publishing" /\ UNCHANGED <<torn, breaks>>
      BY <2>1 DEF Connect, ConnectFails, Wake, network
    <3> QED
      BY <3>1 DEF IInv, TearsAreCounted, TearToCome
  <2>2. CASE Publish
    BY <2>2 DEF Publish, GotNow, IInv, TypeOK, TearsAreCounted, TearToCome, Torn, network
  <2>3. CASE PublishFails
    BY <2>3 DEF PublishFails, CannotWrite, IInv, TypeOK, TearsAreCounted, TearToCome, Torn
  <2> QED
    BY <2>1, <2>2, <2>3
<1> QED
  BY <1>1, <1>2, <1>3, LineStutters DEF IInv

LEMMA NetworkKeeps ==
    ASSUME IInv, BrokerCrashes \/ BrokerReturns \/ LinkBreaks \/ LossDetected PROVE IInv'
<1> USE BridgeAssumption
<1>1. LineUnchanged
  BY DEF BrokerCrashes, BrokerReturns, LinkBreaks, LossDetected, LineUnchanged
<1>2. TypeOK'
  <2>1. brokerUp' \in BOOLEAN
    BY Zenon DEF BrokerCrashes, BrokerReturns, LinkBreaks, LossDetected, IInv, TypeOK
  <2>2. UNCHANGED outbound
    BY DEF BrokerCrashes, BrokerReturns, LinkBreaks, LossDetected
  <2>3. link' \in Links /\ breaks' \in 0..MaxBreaks
    BY DEF BrokerCrashes, BrokerReturns, LinkBreaks, LossDetected, Broken, IInv, TypeOK, Links
  <2> QED
    BY <1>1, <2>1, <2>2, <2>3 DEF LineUnchanged, inbound, outbound, IInv, TypeOK
<1>3. TearsAreCounted'
  BY DEF BrokerCrashes, BrokerReturns, LinkBreaks, LossDetected, Broken, IInv, TypeOK,
         TearsAreCounted, TearToCome, Torn, outbound
<1> QED
  BY <1>1, <1>2, <1>3, LineStutters DEF IInv

LEMMA Invariance == Spec => []IInv
<1>1. ASSUME IInv, [Next]_vars PROVE IInv'
  <2>1. ASSUME UNCHANGED vars PROVE IInv'
    <3>1. LineUnchanged /\ UNCHANGED <<worker, sent, got, torn, link, breaks>>
      BY <2>1 DEF vars, LineUnchanged, outbound, network
    <3>2. TypeOK'
      BY <1>1, <2>1 DEF vars, inbound, outbound, network, IInv, TypeOK
    <3> QED
      BY <1>1, <3>1, <3>2, LineStutters, TearsStutter DEF IInv
  <2> QED
    BY <1>1, <2>1, ArriveKeeps, ResumeKeeps, TakeKeeps, WorkerKeeps, NetworkKeeps DEF Next
<1> QED
  BY <1>1, InitInvariant, PTL DEF Spec
-----------------------------------------------------------------------------
\* The variables keep their types; above all, the queue keeps its bound.
THEOREM TypeCorrect == Spec => []TypeOK
BY Invariance, PTL DEF IInv

\* Between the rclpy thread and the worker no JointState is lost or doubled.
THEOREM NoneIsLost == Spec => []EachInOnePlace
BY Invariance, PTL DEF IInv

\* As long as the queue does not fill, JointStates are published as they arrived.
THEOREM OrderKept == Spec => []OnlyWaitersAreOvertaken
<1>1. IInv => OnlyWaitersAreOvertaken
  BY DEF IInv, LineInOrder, Settled, OnlyWaitersAreOvertaken
<1> QED
  BY <1>1, Invariance, PTL

\* However long the broker is away, it gets a torn JointState at most once per fault.
THEOREM TearsAreRare == Spec => []EachFaultTearsOne
<1>1. IInv => EachFaultTearsOne
  BY DEF IInv, TypeOK, TearsAreCounted, TearToCome, Torn, EachFaultTearsOne
<1> QED
  BY <1>1, Invariance, PTL

-----------------------------------------------------------------------------
(* The line is a Handover.                                                  *)

Once(s) == \A i, k \in 1..Len(s) : s[i] = s[k] => i = k
Apart(s, t) == Entries(s) \cap Entries(t) = {}

\* No JointState is in the line twice.
NoneTwice ==
    /\ Once(ready) /\ Once(waiting) /\ Once(queue)
    /\ Apart(ready, waiting) /\ Apart(ready, queue) /\ Apart(waiting, queue)

LEMMA AppendOnce ==
    ASSUME NEW s \in Seq(States), NEW x \in States, x \notin Entries(s), Once(s)
    PROVE  Once(Append(s, x))
<1> DEFINE a == Append(s, x)
           n == Len(s)
<1>1. /\ Len(a) = n + 1 /\ n \in Nat
      /\ \A i \in 1..n : a[i] = s[i]
      /\ a[n + 1] = x
  OBVIOUS
<1> HIDE DEF a
<1>2. \A i \in 1..n : a[i] # x
  BY <1>1 DEF Entries
<1>3. \A i \in 1..Len(a) : i \in 1..n \/ i = n + 1
  BY <1>1
<1>4. Once(a)
  BY <1>1, <1>2, <1>3 DEF Once
<1> QED
  BY <1>4 DEF a

LEMMA TailOnce ==
    ASSUME NEW s \in Seq(States), s # <<>>, Once(s)
    PROVE  Once(Tail(s)) /\ Head(s) \notin Entries(Tail(s))
<1> DEFINE t == Tail(s)
           n == Len(s)
<1>1. /\ n \in Nat /\ n >= 1 /\ Head(s) = s[1] /\ Len(t) = n - 1
      /\ \A i \in 1..(n - 1) : t[i] = s[i + 1]
  OBVIOUS
<1> HIDE DEF t
<1>2. \A i \in 1..Len(t) : i + 1 \in 1..n /\ i + 1 # 1 /\ 1 \in 1..n /\ t[i] = s[i + 1]
  BY <1>1
<1>3. Once(t)
  BY <1>2 DEF Once
<1>4. Head(s) \notin Entries(t)
  BY <1>1, <1>2 DEF Once, Entries
<1> QED
  BY <1>3, <1>4 DEF t

LEMMA NoneTwiceArrive == ASSUME IInv, NoneTwice, Arrive PROVE NoneTwice'
<1> USE BridgeAssumption
<1> DEFINE x == arrived + 1
<1>1. /\ x \in States /\ ready \in Seq(States) /\ ready' = Append(ready, x)
      /\ waiting' = waiting /\ queue' = queue
  BY DEF Arrive, IInv, TypeOK, States
<1>2. x \notin Entries(ready) \cup Entries(waiting) \cup Entries(queue)
  BY DEF IInv, TypeOK, EachInOnePlace
<1> HIDE DEF x
<1>3. Once(ready') /\ Entries(ready') = Entries(ready) \cup {x}
  BY <1>1, <1>2, AppendOnce, AppendLine DEF NoneTwice
<1> QED
  BY <1>1, <1>2, <1>3 DEF NoneTwice, Apart

LEMMA NoneTwiceResume == ASSUME IInv, NoneTwice, Resume PROVE NoneTwice'
<1> DEFINE x == Head(ready)
<1>1. /\ ready # <<>> /\ ready \in Seq(States) /\ waiting \in Seq(States) /\ queue \in Seq(States)
      /\ ready' = Tail(ready)
  BY DEF Resume, IInv, TypeOK
<1>2. /\ x \in States /\ Once(ready') /\ x \notin Entries(ready')
      /\ Entries(ready) = Entries(ready') \cup {x}
  BY <1>1, HeadOfLine, TailOnce DEF NoneTwice
<1>3. x \notin Entries(queue) /\ x \notin Entries(waiting)
  BY <1>2 DEF NoneTwice, Apart
<1>4. CASE queue' = Append(queue, x) /\ waiting' = waiting
  <2>1. Once(queue') /\ Entries(queue') = Entries(queue) \cup {x}
    BY <1>1, <1>2, <1>3, <1>4, AppendOnce, AppendLine DEF NoneTwice
  <2> QED
    BY <1>2, <1>3, <1>4, <2>1 DEF NoneTwice, Apart
<1>5. CASE waiting' = Append(waiting, x) /\ queue' = queue
  <2>1. Once(waiting') /\ Entries(waiting') = Entries(waiting) \cup {x}
    BY <1>1, <1>2, <1>3, <1>5, AppendOnce, AppendLine DEF NoneTwice
  <2> QED
    BY <1>2, <1>3, <1>5, <2>1 DEF NoneTwice, Apart
<1> QED
  BY <1>4, <1>5 DEF Resume

LEMMA NoneTwiceTake == ASSUME IInv, NoneTwice, Take PROVE NoneTwice'
<1> DEFINE w == Head(waiting)
<1>1. /\ queue # <<>> /\ ready \in Seq(States) /\ waiting \in Seq(States) /\ queue \in Seq(States)
      /\ queue' = Tail(queue)
  BY DEF Take, IInv, TypeOK
<1>2. Once(queue') /\ Entries(queue') \subseteq Entries(queue)
  BY <1>1, HeadOfLine, TailOnce DEF NoneTwice
<1>3. CASE UNCHANGED <<ready, waiting>>
  BY <1>2, <1>3 DEF NoneTwice, Apart
<1>4. CASE waiting # <<>> /\ ready' = Append(ready, w) /\ waiting' = Tail(waiting)
  <2>1. /\ w \in States /\ Once(waiting') /\ w \notin Entries(waiting')
        /\ Entries(waiting) = Entries(waiting') \cup {w}
    BY <1>1, <1>4, HeadOfLine, TailOnce DEF NoneTwice
  <2>2. w \notin Entries(ready) /\ w \notin Entries(queue)
    BY <2>1 DEF NoneTwice, Apart
  <2>3. Once(ready') /\ Entries(ready') = Entries(ready) \cup {w}
    BY <1>1, <1>4, <2>1, <2>2, AppendOnce, AppendLine DEF NoneTwice
  <2> QED
    BY <1>2, <2>1, <2>2, <2>3 DEF NoneTwice, Apart
<1> QED
  BY <1>3, <1>4 DEF Take

\* The actions of Handover, and its mapping.
Pending == Entries(ready) \cup Entries(waiting) \cup Entries(queue)

LEMMA RestOfNext ==
    ASSUME [Next]_vars
    PROVE  Arrive \/ Resume \/ Take \/ LineUnchanged
BY DEF Next, Connect, ConnectFails, Wake, Publish, PublishFails, BrokerCrashes, BrokerReturns,
       LinkBreaks, LossDetected, LineUnchanged, vars, inbound

LEMMA TwiceKeeps == ASSUME IInv, NoneTwice, [Next]_vars PROVE NoneTwice'
<1>1. CASE LineUnchanged
  <2>1. ready' = ready /\ waiting' = waiting /\ queue' = queue
    BY <1>1 DEF LineUnchanged, inbound
  <2> QED
    BY <2>1 DEF NoneTwice, Apart
<1> QED
  BY <1>1, RestOfNext, NoneTwiceArrive, NoneTwiceResume, NoneTwiceTake

LEMMA ArriveIsArrive == ASSUME IInv, Arrive PROVE Line!Arrive
<1> USE BridgeAssumption
<1>1. /\ arrived + 1 \in States /\ ready \in Seq(States)
      /\ ready' = Append(ready, arrived + 1) /\ arrived' = arrived + 1
      /\ UNCHANGED <<waiting, waited, queue, taken>>
  BY DEF Arrive, IInv, TypeOK, States
<1>2. Entries(ready') = Entries(ready) \cup {arrived + 1}
  BY <1>1, AppendLine
<1>3. Pending' = Pending \cup {arrived + 1}
  BY <1>1, <1>2 DEF Pending
<1> QED
  BY <1>1, <1>3 DEF Line!Arrive, Pending

LEMMA ResumeMoves == ASSUME IInv, Resume PROVE Line!Next \/ UNCHANGED Line!vars
<1> DEFINE x == Head(ready)
<1>1. /\ ready # <<>> /\ ready \in Seq(States) /\ waiting \in Seq(States) /\ queue \in Seq(States)
      /\ ready' = Tail(ready) /\ UNCHANGED <<arrived, taken>>
  BY DEF Resume, IInv, TypeOK
<1>2. x \in States /\ Entries(ready) = Entries(ready') \cup {x}
  BY <1>1, HeadOfLine
<1>3. CASE queue' = Append(queue, x) /\ UNCHANGED <<waiting, waited>>
  <2>1. Entries(queue') = Entries(queue) \cup {x}
    BY <1>1, <1>2, <1>3, AppendLine
  <2>2. Pending' = Pending
    BY <1>2, <1>3, <2>1 DEF Pending
  <2> QED
    BY <1>1, <1>3, <2>2 DEF Line!vars, Pending
<1>4. CASE waiting' = Append(waiting, x) /\ waited' = waited \cup {x} /\ UNCHANGED queue
  <2>1. Entries(waiting') = Entries(waiting) \cup {x}
    BY <1>1, <1>2, <1>4, AppendLine
  <2>2. Pending' = Pending /\ x \in Pending
    BY <1>2, <1>4, <2>1 DEF Pending
  <2>3. Line!Delay(x)
    BY <1>1, <1>4, <2>2 DEF Line!Delay, Pending
  <2> QED
    BY <2>2, <2>3 DEF Line!Next, Pending
<1> QED
  BY <1>3, <1>4 DEF Resume

\* What is taken is the head of the line; who arrived before it and is still in the
\* line has waited.
LEMMA TakeIsTake == ASSUME IInv, NoneTwice, Take PROVE Line!Next
<1> DEFINE x == Head(queue)
           w == Head(waiting)
<1>1. /\ queue # <<>> /\ ready \in Seq(States) /\ waiting \in Seq(States) /\ queue \in Seq(States)
      /\ queue' = Tail(queue) /\ taken' = Append(taken, x)
      /\ UNCHANGED <<arrived, waited>>
  BY DEF Take, IInv, TypeOK
<1>2. /\ x \in States /\ Entries(queue) = Entries(queue') \cup {x}
      /\ \A y \in Entries(queue') : y < x => y \in waited
      /\ x \notin Entries(queue')
  BY <1>1, HeadOfLine, TailOnce DEF IInv, LineInOrder, NoneTwice
<1>3. x \notin Entries(ready) /\ x \notin Entries(waiting)
  BY <1>2 DEF NoneTwice, Apart
<1>4. Entries(ready') \cup Entries(waiting') = Entries(ready) \cup Entries(waiting)
  <2>1. CASE UNCHANGED <<ready, waiting>>
    BY <2>1
  <2>2. CASE waiting # <<>> /\ ready' = Append(ready, w) /\ waiting' = Tail(waiting)
    <3>1. w \in States /\ Entries(waiting) = Entries(waiting') \cup {w}
      BY <1>1, <2>2, HeadOfLine
    <3>2. Entries(ready') = Entries(ready) \cup {w}
      BY <1>1, <2>2, <3>1, AppendLine
    <3> QED
      BY <3>1, <3>2
  <2> QED
    BY <2>1, <2>2 DEF Take
<1>5. Pending' = Pending \ {x} /\ x \in Pending
  BY <1>2, <1>3, <1>4 DEF Pending
<1>6. \A m \in Pending : m < x => m \in waited
  <2>1. x \in Entries(queue) /\ ~(x < x)
    BY <1>2 DEF States
  <2> QED
    BY <1>2, <2>1 DEF Pending, IInv, LineInOrder, Before
<1>7. Line!Take(x)
  BY <1>1, <1>5, <1>6 DEF Line!Take, Pending
<1> QED
  BY <1>5, <1>7 DEF Line!Next, Pending

\* The bridge hands telemetry over as Handover says: queue, waiting puts and worker
\* take each JointState once and overtake only those that were told to wait, for any
\* size of the queue and any outages (main.py:69-80 and 139).
THEOREM ImplementsHandover == Spec => Promise
<1>1. Init => NoneTwice /\ Line!Init
  BY EmptyLine DEF Init, NoneTwice, Once, Apart, Line!Init
<1>2. IInv /\ NoneTwice /\ [Next]_vars => NoneTwice'
  BY TwiceKeeps
<1>3. ASSUME IInv, NoneTwice, [Next]_vars PROVE [Line!Next]_(Line!vars)
  <2>1. CASE LineUnchanged
    BY <2>1 DEF LineUnchanged, inbound, Line!vars, Entries
  <2>2. Line!Arrive => Line!Next
    BY DEF Line!Next
  <2> QED
    BY <1>3, <2>1, <2>2, RestOfNext, ArriveIsArrive, ResumeMoves, TakeIsTake
<1> QED
  BY <1>1, <1>2, <1>3, Invariance, PTL DEF Spec, Promise, Line!Spec
=============================================================================
