------------------------------ MODULE StateSvc ------------------------------
(***************************************************************************)
(* state-svc: the Consumer (consumer.py) that reads telemetry from the      *)
(* broker, folds it into the RollingWindow and, on its own clock, publishes *)
(* a TwinState to the StateHub.  Around it: the broker, the link to it, and *)
(* the bridge, which cuts each JointState into one message per joint and    *)
(* field, all with the stamp of that JointState, at QoS 0.  The bridge      *)
(* publishes in the order of the stamps until its queue was full: then one  *)
(* JointState can be overtaken by later ones (BridgeTelemetry, Handover).   *)
(*                                                                          *)
(* The two tasks of Consumer.run interleave at their awaits only, so an     *)
(* action is the code between two awaits.  The way of a message through the *)
(* broker and aiomqtt's queue is one step: telemetry keeps its order on it. *)
(***************************************************************************)
EXTENDS RollingWindow

CONSTANTS
    SourceNames,    \* the joints of a JointState in its order, foreign ones included
    MaxStamp,       \* bound: stamp of the last JointState
    MaxFaults,      \* bound: faults of any kind, together
    MaxRewinds,     \* bound: those of them that start the simulation again
    MaxOvertakings  \* bound: those of them that change the order of publication

ASSUME StateSvcAssumption ==
    /\ Len(SourceNames) \in Nat \ {0}
    /\ MaxStamp \in Nat /\ MaxFaults \in Nat
    /\ MaxRewinds \in Nat /\ MaxOvertakings \in Nat

VARIABLES
    brokerUp,   \* Mosquitto accepts connections
    linked,     \* the consumer's TCP connection to it is alive
    session,    \* where _consume_forever is
    connected,  \* Consumer._mqtt_connected, the readiness check
    source,     \* the JointStates of the bridge: the one being published (its stamp and
                \* its next message), the next fresh stamp, and the late ones: overtaken,
                \* and still to be published
    window,     \* Consumer._window
    dirty,      \* Consumer._dirty
    hub,        \* StateHub._latest
    heard,      \* history: heard[j], stamps of the velocity samples j's window was given
    faults      \* how many faults of each kind there were

consumer == <<linked, session, connected>>
pipeline == <<window, dirty, hub, heard>>
vars == <<brokerUp, consumer, source, pipeline, faults>>

\* breaks: broker crashes and cut links; losses: QoS 0 messages lost on a live
\* subscription; restarts: of the process; rewinds: the simulation starts again;
\* overtakings: the bridge publishes a JointState before an earlier one.
FaultKinds == {"breaks", "losses", "restarts", "rewinds", "overtakings"}

NoFaults == [kind \in FaultKinds |-> 0]

FaultCount ==
    faults.breaks + faults.losses + faults.restarts + faults.rewinds + faults.overtakings

Fault(kind) ==
    /\ FaultCount < MaxFaults
    /\ faults' = [faults EXCEPT ![kind] = @ + 1]

Sessions == {"connecting", "subscribing", "consuming", "sleeping"}

Init ==
    /\ brokerUp \in BOOLEAN
    /\ linked = FALSE
    /\ session = "connecting"
    /\ connected = FALSE
    /\ source = [stamp |-> 1, next |-> 1, fresh |-> 2, late |-> {}]
    /\ window = EmptyWindow
    /\ dirty = FALSE
    /\ hub = NoState
    /\ heard = [j \in Joints |-> {}]
    /\ faults = NoFaults

-----------------------------------------------------------------------------
(* _consume_forever                                                         *)

\* aiomqtt.Client's __aenter__ succeeds: ready before the subscription exists.
Connect ==
    /\ session = "connecting" /\ brokerUp
    /\ session' = "subscribing"
    /\ connected' = TRUE
    /\ linked' = TRUE
    /\ UNCHANGED <<brokerUp, source, pipeline, faults>>

Subscribe ==
    /\ session = "subscribing" /\ linked
    /\ session' = "consuming"
    /\ UNCHANGED <<brokerUp, linked, connected, source, pipeline, faults>>

\* Mutant: a failed subscribe is not caught.
MqttFailsLate ==
    /\ \/ session = "connecting" /\ ~brokerUp
       \/ session = "consuming" /\ ~linked
    /\ session' = "sleeping"
    /\ connected' = FALSE
    /\ UNCHANGED <<brokerUp, linked, source, pipeline, faults>>

\* MqttError: from the connect, the subscribe or the message iterator.
MqttFails ==
    /\ \/ session = "connecting" /\ ~brokerUp
       \/ session \in {"subscribing", "consuming"} /\ ~linked
    /\ session' = "sleeping"
    /\ connected' = FALSE
    /\ UNCHANGED <<brokerUp, linked, source, pipeline, faults>>

Wake ==
    /\ session = "sleeping"
    /\ session' = "connecting"
    /\ UNCHANGED <<brokerUp, linked, connected, source, pipeline, faults>>

-----------------------------------------------------------------------------
(* The bridge's publish loop and the consumer's _observe.                   *)

FieldOrder == <<"position", "velocity", "effort">>

\* The joint and field of the i-th message of a JointState.
JointAt(i) == SourceNames[((i - 1) \div 3) + 1]
FieldAt(i) == FieldOrder[((i - 1) % 3) + 1]

\* The bridge hands its next message to the broker: the next one of this
\* JointState, or the first one of the JointState that waited longest.
SourceMovesOn ==
    IF source.next < 3 * Len(SourceNames)
    THEN source' = [source EXCEPT !.next = @ + 1]
    ELSE \/ /\ source.late = {}
            /\ source' = [stamp |-> source.fresh, next |-> 1,
                          fresh |-> source.fresh + 1, late |-> {}]
         \/ \E n \in source.late :
               /\ \A m \in source.late : n <= m
               /\ source' = [source EXCEPT !.stamp = n, !.next = 1, !.late = @ \ {n}]

Subscribed == session = "consuming" /\ linked

\* A message reaches _observe.  One for a joint outside the vocabulary is rejected
\* there; any other is folded into the window.
Deliver ==
    /\ Subscribed /\ source.stamp <= MaxStamp
    /\ SourceMovesOn
    /\ LET joint == JointAt(source.next)
           field == FieldAt(source.next)
       IN  IF joint \in Joints
           THEN /\ window' = Observe(window, joint, field, source.stamp)
                /\ dirty' = TRUE
                /\ heard' = IF field = "velocity"
                            THEN [heard EXCEPT ![joint] = @ \cup {source.stamp}]
                            ELSE heard
           ELSE UNCHANGED <<window, dirty, heard>>
    /\ UNCHANGED <<brokerUp, consumer, hub, faults>>

\* A message nobody subscribed to yet, or that QoS 0 loses, or that fails the
\* contract and is rejected by _observe: the window never hears of it.
Lose ==
    /\ source.stamp <= MaxStamp
    /\ SourceMovesOn
    /\ IF Subscribed THEN Fault("losses") ELSE UNCHANGED faults
    /\ UNCHANGED <<brokerUp, consumer, pipeline>>

\* Mutant: a state without a newer stamp is taken for an old one.
BroadcastNewerOnly ==
    /\ dirty
    /\ dirty' = FALSE
    /\ hub' = IF Complete(window) /\ window.stamp > hub.stamp THEN BuildState(window) ELSE hub
    /\ UNCHANGED <<brokerUp, consumer, source, window, heard, faults>>

\* One turn of _broadcast_forever with something new.  build_state has no await,
\* so no message arrives between the reset of the flag and the publication.
Broadcast ==
    /\ dirty
    /\ dirty' = FALSE
    /\ hub' = IF Complete(window) THEN BuildState(window) ELSE hub
    /\ UNCHANGED <<brokerUp, consumer, source, window, heard, faults>>

-----------------------------------------------------------------------------
(* The environment                                                          *)

BrokerCrashes ==
    /\ brokerUp
    /\ brokerUp' = FALSE
    /\ linked' = FALSE
    /\ Fault("breaks")
    /\ UNCHANGED <<session, connected, source, pipeline>>

BrokerReturns ==
    /\ ~brokerUp
    /\ brokerUp' = TRUE
    /\ UNCHANGED <<consumer, source, pipeline, faults>>

LinkBreaks ==
    /\ linked
    /\ linked' = FALSE
    /\ Fault("breaks")
    /\ UNCHANGED <<brokerUp, session, connected, source, pipeline>>

\* An unexpected error ends the TaskGroup, the process exits and comes back: the
\* window, the flag and the hub live in its memory only.
Restart ==
    /\ Fault("restarts")
    /\ linked' = FALSE
    /\ session' = "connecting"
    /\ connected' = FALSE
    /\ window' = EmptyWindow
    /\ dirty' = FALSE
    /\ hub' = NoState
    /\ heard' = [j \in Joints |-> {}]
    /\ UNCHANGED <<brokerUp, source>>

\* The simulation is started again under a running state-svc: stamps begin again.
Rewind ==
    /\ faults.rewinds < MaxRewinds
    /\ Fault("rewinds")
    /\ source' = [source EXCEPT !.stamp = 1, !.next = 1, !.fresh = 2]
    /\ UNCHANGED <<brokerUp, consumer, pipeline>>

\* The bridge's queue was full: the put() of the JointState whose turn it is waits
\* again, behind a later one that also waited or just arrived (see Handover).
Overtake ==
    /\ faults.overtakings < MaxOvertakings
    /\ Fault("overtakings")
    /\ source.next = 1
    /\ \/ /\ source.fresh <= MaxStamp
          /\ source' = [stamp |-> source.fresh, next |-> 1, fresh |-> source.fresh + 1,
                        late |-> source.late \cup {source.stamp}]
       \/ \E n \in source.late :
             /\ n > source.stamp
             /\ source' = [source EXCEPT !.stamp = n,
                                          !.late = (@ \ {n}) \cup {source.stamp}]
    /\ UNCHANGED <<brokerUp, consumer, pipeline>>

-----------------------------------------------------------------------------
Consume == Connect \/ Subscribe \/ MqttFails \/ Wake

Environment == BrokerCrashes \/ BrokerReturns \/ LinkBreaks \/ Rewind \/ Overtake

Next == Consume \/ Deliver \/ Lose \/ Broadcast \/ Restart \/ Environment

Spec == Init /\ [][Next]_vars

\* The event loop runs a task that can run: connection attempts and sleeps end,
\* keepalive reports a dead link, the broadcast clock goes on.  The broker, the
\* bridge and the simulation owe nothing.
LiveSpec == Spec /\ WF_vars(Consume) /\ WF_vars(Broadcast)

-----------------------------------------------------------------------------
StateRecords == [stamp : Nat, values : [Channels -> Nat], rms : [Joints -> Seq(Nat)]]

TypeOK ==
    /\ brokerUp \in BOOLEAN /\ linked \in BOOLEAN /\ connected \in BOOLEAN
    /\ session \in Sessions
    /\ source \in [stamp : Nat \ {0}, next : 1..(3 * Len(SourceNames)),
                   fresh : Nat \ {0}, late : SUBSET (Nat \ {0})]
    /\ window \in WindowRecords
    /\ dirty \in BOOLEAN
    /\ hub \in StateRecords
    /\ heard \in [Joints -> SUBSET Nat]
    /\ faults \in [FaultKinds -> Nat]

\* A clear flag means that nothing is owed: what the hub serves is what the
\* window holds, to the last sample (the _dirty hand-over of _observe and
\* _broadcast_forever, through losses, reconnections and restarts).  And before every
\* field of every joint arrived once, nothing is published (snapshot() is None).
CleanMeansPublished ==
    /\ ~dirty /\ Complete(window) => hub = BuildState(window)
    /\ ~Complete(window) => hub = NoState

\* How far apart the values of one published state can be.  The broadcast clock
\* cuts through a JointState, so the older part is one measurement behind, plus one
\* for each message QoS 0 lost and each JointState the bridge published before an
\* earlier one (no broken connection, no new simulation).
TearIsBounded ==
    faults.breaks = 0 /\ faults.rewinds = 0 /\ hub # NoState =>
        \A c \in Channels : hub.values[c] >= hub.stamp - 1 - faults.losses - faults.overtakings

\* While stamps only grow (one simulation, nothing overtaken in the bridge), a joint's
\* history is exactly the velocity samples it was given that are within the window of
\* its newest one, in their order (append, cutoff and popleft loop of observe).
HistoryIsWindow ==
    faults.rewinds = 0 /\ faults.overtakings = 0 =>
        \A j \in Joints :
            LET h == window.velocities[j]
            IN  /\ \A i, k \in 1..Len(h) : i < k => h[i] <= h[k]
                /\ {h[i] : i \in 1..Len(h)} =
                      {t \in heard[j] : \A u \in heard[j] : t >= u - Width}

\* What GetState answers never gets older and never turns into NOT_FOUND again,
\* not even while the service is degraded or after the simulation's clock went
\* back.  A single value can get older, because observe() does not look at the stamp
\* of what it replaces: in one simulation by no more JointStates than the bridge
\* published out of their turn, so not at all while it kept the order, whatever the
\* order in which fields arrive.  Only a restart of the process forgets.
AnswersAdvance ==
    [][\/ faults'.restarts > faults.restarts
       \/ /\ hub'.stamp >= hub.stamp
          /\ faults.rewinds = 0 =>
                \A c \in Channels :
                    hub'.values[c] >= hub.values[c] - faults.overtakings]_vars

\* The consumer recovers by itself and says so: once the broker stays, so do the
\* subscription and the readiness, which does not stay green for a broker that is
\* gone for good.
ReadinessFollows ==
    /\ <>[]brokerUp => <>[](session = "consuming" /\ linked /\ connected)
    /\ <>[]~brokerUp => <>[]~connected

\* window.py:4-5 promises "a time-bounded velocity history": no two samples behind
\* one RMS are further apart than the window is wide.
HistoryIsTimeBounded ==
    \A j \in Joints :
        LET h == window.velocities[j]
        IN  \A i, k \in 1..Len(h) : h[i] - h[k] <= Width
=============================================================================
