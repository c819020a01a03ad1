-------------------------- MODULE BridgeTelemetry --------------------------
(***************************************************************************)
(* The telemetry half of the bridge (bridge/main.py): the rclpy thread      *)
(* hands each validated JointState to the event loop as a queue.put() of    *)
(* its own, the queue takes Capacity of them, and telemetry_worker takes    *)
(* them out one by one and publishes each as several messages.              *)
(*                                                                          *)
(* External, modelled from how the bridge uses it: asyncio runs what is     *)
(* ready in the order it became ready; a put() that finds the queue full    *)
(* waits, a get() wakes the one that waited longest, and a put() that was   *)
(* woken looks again.  aiomqtt writes a QoS 0 message to a connection that  *)
(* looks alive and forgets it; when it cannot write, because the connection *)
(* is gone or stalled, publish() raises.  A JointState is the number of its *)
(* arrival.                                                                 *)
(***************************************************************************)
EXTENDS Integers, Sequences

CONSTANTS
    Capacity,           \* maxsize of the queue
    MessagesPerState,   \* joints times fields of a JointState
    MaxStates,          \* bound: JointStates that arrive
    MaxBreaks           \* bound: broker crashes, broken and stalled connections

ASSUME BridgeAssumption ==
    /\ Capacity \in Nat \ {0} /\ MessagesPerState \in Nat \ {0}
    /\ MaxStates \in Nat /\ MaxBreaks \in Nat

States == 1..MaxStates
Nothing == 0

VARIABLES
    arrived,    \* JointStates the rclpy thread handed over
    ready,      \* the put() coroutines the event loop is going to resume, in order
    waiting,    \* the put() coroutines that wait for a free slot, in order
    queue,      \* the asyncio.Queue
    worker,     \* where telemetry_worker is
    hand,       \* the JointState it is publishing
    sent,       \* how many messages of it are written
    got,        \* history: how many of those the broker got
    brokerUp,   \* Mosquitto accepts connections
    link,       \* the connection of the worker's client
    taken,      \* history: the JointStates the worker took, in order
    waited,     \* history: the JointStates whose put() ever waited
    torn,       \* history: how many JointStates the broker got a part of and no more
    breaks      \* how many faults there were

inbound == <<arrived, ready, waiting, waited>>
outbound == <<worker, hand, sent, got, torn>>
network == <<brokerUp, link, breaks>>
vars == <<inbound, queue, taken, outbound, network>>

Workers == {"connecting", "getting", "publishing", "sleeping"}
Links == {"none", "open", "dead", "closed"}

Init ==
    /\ arrived = 0 /\ ready = <<>> /\ waiting = <<>> /\ waited = {}
    /\ queue = <<>> /\ taken = <<>>
    /\ worker = "connecting" /\ hand = Nothing /\ sent = 0 /\ got = 0 /\ torn = 0
    /\ brokerUp \in BOOLEAN /\ link = "none" /\ breaks = 0

-----------------------------------------------------------------------------
(* _on_msg, and the puts it leaves behind.                                  *)

\* run_coroutine_threadsafe: the rclpy thread does not wait for the put.  A message
\* that fails validation is logged by _on_msg and goes no further.
Arrive ==
    /\ arrived < MaxStates
    /\ arrived' = arrived + 1
    /\ ready' = Append(ready, arrived + 1)
    /\ UNCHANGED <<waiting, waited, queue, taken, outbound, network>>

\* A put() runs, for the first time or woken: while the queue is full it waits at
\* the end of the line.
Resume ==
    /\ ready # <<>>
    /\ ready' = Tail(ready)
    /\ \/ /\ Len(queue) < Capacity
          /\ queue' = Append(queue, Head(ready))
          /\ UNCHANGED <<waiting, waited>>
       \/ /\ Len(queue) = Capacity
          /\ waiting' = Append(waiting, Head(ready))
          /\ waited' = waited \cup {Head(ready)}
          /\ UNCHANGED queue
    /\ UNCHANGED <<arrived, taken, outbound, network>>

-----------------------------------------------------------------------------
(* telemetry_worker and publish_joint_states                                *)

Connect ==
    /\ worker = "connecting" /\ brokerUp
    /\ worker' = "getting"
    /\ link' = "open"
    /\ UNCHANGED <<inbound, queue, taken, hand, sent, got, torn, brokerUp, breaks>>

ConnectFails ==
    /\ worker = "connecting" /\ ~brokerUp
    /\ worker' = "sleeping"
    /\ UNCHANGED <<inbound, queue, taken, hand, sent, got, torn, network>>

Wake ==
    /\ worker = "sleeping"
    /\ worker' = "connecting"
    /\ UNCHANGED <<inbound, queue, taken, hand, sent, got, torn, network>>

\* queue.get(): the slot it frees wakes one waiting put().  A JointState whose field
\* lengths differ is logged and left; any other is published.
Take ==
    /\ worker = "getting" /\ queue # <<>>
    /\ queue' = Tail(queue)
    /\ taken' = Append(taken, Head(queue))
    /\ IF waiting = <<>>
       THEN UNCHANGED <<ready, waiting>>
       ELSE ready' = Append(ready, Head(waiting)) /\ waiting' = Tail(waiting)
    /\ \/ worker' = "publishing" /\ hand' = Head(queue) /\ sent' = 0 /\ got' = 0
       \/ UNCHANGED <<worker, hand, sent, got>>
    /\ UNCHANGED <<arrived, waited, torn, network>>

\* The broker is left with n messages of a JointState: is that a part of it?
Torn(n) == IF n \in 1..(MessagesPerState - 1) THEN 1 ELSE 0

\* How many messages of the one in hand the broker has after the next is written: on
\* a dead connection that message goes nowhere.
GotNow == IF link = "open" THEN got + 1 ELSE got

\* Mutant: a JointState that waits in the queue ends the one in hand.
PublishPreempted ==
    /\ worker = "publishing" /\ link \in {"open", "dead"}
    /\ IF sent + 1 < MessagesPerState /\ queue = <<>>
       THEN sent' = sent + 1 /\ got' = GotNow /\ UNCHANGED <<worker, hand, torn>>
       ELSE /\ worker' = "getting" /\ hand' = Nothing /\ sent' = 0 /\ got' = 0
            /\ torn' = torn + Torn(GotNow)
    /\ UNCHANGED <<inbound, queue, taken, network>>

\* One message of the JointState in hand is written; after the last one the worker
\* goes back to the queue.
Publish ==
    /\ worker = "publishing" /\ link \in {"open", "dead"}
    /\ IF sent + 1 < MessagesPerState
       THEN sent' = sent + 1 /\ got' = GotNow /\ UNCHANGED <<worker, hand, torn>>
       ELSE /\ worker' = "getting" /\ hand' = Nothing /\ sent' = 0 /\ got' = 0
            /\ torn' = torn + Torn(GotNow)
    /\ UNCHANGED <<inbound, queue, taken, network>>

\* MqttError from publish(): aiomqtt knows that the connection is gone, or nothing can
\* be written any more.  That can also happen on a connection that lives but stalls,
\* a fault of its own, and then the message may have got through or not.
CannotWrite ==
    /\ worker = "publishing"
    /\ \/ link \in {"dead", "closed"} /\ torn' = torn + Torn(got) /\ UNCHANGED breaks
       \/ /\ link = "open" /\ breaks < MaxBreaks
          /\ breaks' = breaks + 1
          /\ \E n \in {got, got + 1} : torn' = torn + Torn(n)

\* Mutants: the failure puts the JointState in hand back; it ends the worker.
PublishFailsRequeues ==
    /\ CannotWrite
    /\ worker' = "sleeping" /\ hand' = Nothing /\ sent' = 0 /\ got' = 0
    /\ link' = "none"
    /\ queue' = IF Len(queue) < Capacity THEN Append(queue, hand) ELSE queue
    /\ UNCHANGED <<inbound, taken, brokerUp>>
PublishFailsForGood == FALSE

\* The rest of the JointState in hand is lost, the client is left, and the worker
\* sleeps before it connects again.
PublishFails ==
    /\ CannotWrite
    /\ worker' = "sleeping" /\ hand' = Nothing /\ sent' = 0 /\ got' = 0
    /\ link' = "none"
    /\ UNCHANGED <<inbound, queue, taken, brokerUp>>

-----------------------------------------------------------------------------
(* The broker and the network.  The worker reads no messages, so a loss that *)
(* aiomqtt detects reaches it with the next publish only.                    *)

Broken(l) == IF l = "open" THEN "dead" ELSE l

BrokerCrashes ==
    /\ brokerUp /\ breaks < MaxBreaks
    /\ brokerUp' = FALSE
    /\ link' = Broken(link)
    /\ breaks' = breaks + 1
    /\ UNCHANGED <<inbound, queue, taken, outbound>>

BrokerReturns ==
    /\ ~brokerUp
    /\ brokerUp' = TRUE
    /\ UNCHANGED <<inbound, queue, taken, outbound, link, breaks>>

LinkBreaks ==
    /\ link = "open" /\ breaks < MaxBreaks
    /\ link' = "dead"
    /\ breaks' = breaks + 1
    /\ UNCHANGED <<inbound, queue, taken, outbound, brokerUp>>

LossDetected ==
    /\ link = "dead"
    /\ link' = "closed"
    /\ UNCHANGED <<inbound, queue, taken, outbound, brokerUp, breaks>>

-----------------------------------------------------------------------------
Work == Connect \/ ConnectFails \/ Wake \/ Take \/ Publish \/ PublishFails

Next ==
    \/ Arrive \/ Resume
    \/ Connect \/ ConnectFails \/ Wake \/ Take \/ Publish \/ PublishFails
    \/ BrokerCrashes \/ BrokerReturns \/ LinkBreaks \/ LossDetected

Spec == Init /\ [][Next]_vars

\* The event loop resumes what is ready, and the worker goes on when it can.  The
\* broker and the simulation owe nothing.
LiveSpec == Spec /\ WF_vars(Resume) /\ WF_vars(Work)

-----------------------------------------------------------------------------
Entries(s) == {s[i] : i \in 1..Len(s)}

TypeOK ==
    /\ arrived \in 0..MaxStates
    /\ ready \in Seq(States) /\ waiting \in Seq(States) /\ waited \subseteq States
    /\ queue \in Seq(States) /\ Len(queue) <= Capacity
    /\ taken \in Seq(States)
    /\ worker \in Workers /\ hand \in States \cup {Nothing}
    /\ sent \in 0..(MessagesPerState - 1) /\ got \in 0..sent
    /\ torn \in Nat /\ breaks \in 0..MaxBreaks
    /\ brokerUp \in BOOLEAN /\ link \in Links

\* Every JointState that arrived is in exactly one place: about to be put, waiting
\* for a slot, queued, or taken.  None is lost on the way and none is taken twice,
\* through overtaking and outages (queue.put from another thread, and queue.get).
EachInOnePlace ==
    /\ Len(ready) + Len(waiting) + Len(queue) + Len(taken) = arrived
    /\ Entries(ready) \cup Entries(waiting) \cup Entries(queue) \cup Entries(taken) = 1..arrived

\* Telemetry is published in the order it arrived as long as the queue does not fill:
\* only a JointState whose put() waited is ever overtaken.
OnlyWaitersAreOvertaken ==
    \A i, k \in 1..Len(taken) :
        i < k /\ taken[k] < taken[i] => taken[k] \in waited

Line == INSTANCE Handover WITH
    pending <- Entries(ready) \cup Entries(waiting) \cup Entries(queue),
    delayed <- waited

\* The queue, the puts around it and the worker are a Handover, step by step: a get()
\* takes one pending JointState, once, and leaves no earlier one behind that was not
\* told to wait; every other step moves JointStates without losing or doubling one.
Promise == Line!Spec

\* What the broker gets of a JointState is all of it or nothing, but for one JointState
\* of each fault: the one in hand when the connection died, was lost or stalled.  Those
\* the worker wrote to a dead connection before it noticed are lost whole.
EachFaultTearsOne == torn <= breaks

\* Once the broker stays, the backlog drains: every JointState that arrived is taken.
BacklogDrains ==
    <>[]brokerUp =>
        \A n \in States : arrived >= n ~> n \in Entries(taken)
=============================================================================
