---------------------------- MODULE TelemetrySvc ----------------------------
(***************************************************************************)
(* telemetry-svc: the Ingestor (ingest.py), which writes the telemetry it   *)
(* reads from the broker to InfluxDB, and the readiness it leaves behind    *)
(* for the gauge of health.py.  _consume suspends at the connection, the    *)
(* ping, the subscribe, the next message and each write.                    *)
(*                                                                          *)
(* External, modelled from how the service uses it: aiomqtt queues what     *)
(* arrives during a write and hands the queue out before it reports a lost  *)
(* connection; ping() of an InfluxDB that does not answer raises, it has no *)
(* false answer; a write may fail or be answered too late although InfluxDB *)
(* is there.                                                                *)
(* Messages have no identity: what matters of one is whether it satisfies   *)
(* the contract, so telemetry may flow for ever in finitely many states.    *)
(***************************************************************************)
EXTENDS Integers, Sequences

CONSTANTS
    MaxInbox,       \* bound: messages in aiomqtt's queue
    MaxFaults       \* bound: faults of any kind, together

ASSUME TelemetrySvcAssumption ==
    MaxInbox \in Nat \ {0} /\ MaxFaults \in Nat

VARIABLES
    brokerUp,   \* Mosquitto accepts connections
    influxUp,   \* InfluxDB answers
    linked,     \* the ingestor's TCP connection to the broker is alive
    session,    \* where Ingestor.run is
    inbox,      \* the messages aiomqtt queued
    point,      \* the point that is being written
    connected,  \* Ingestor._mqtt_connected
    influxOk,   \* Ingestor._influx_ok
    gauge,      \* twin_service_ready of this service, as last refreshed
    faults      \* how many faults there were

readiness == <<connected, influxOk>>
reading == <<session, inbox, point>>
vars == <<brokerUp, influxUp, linked, reading, readiness, gauge, faults>>

Kinds == {"valid", "invalid"}
NoPoint == "none"
Sessions == {"connecting", "pinging", "subscribing", "consuming", "writing", "sleeping"}

Fault == faults < MaxFaults /\ faults' = faults + 1

Init ==
    /\ brokerUp \in BOOLEAN /\ influxUp \in BOOLEAN
    /\ linked = FALSE
    /\ session = "connecting" /\ inbox = <<>> /\ point = NoPoint
    /\ connected = FALSE /\ influxOk = FALSE
    /\ gauge = FALSE
    /\ faults = 0

-----------------------------------------------------------------------------
(* Ingestor.run and _consume                                                *)

Connect ==
    /\ session = "connecting" /\ brokerUp
    /\ session' = "pinging"
    /\ linked' = TRUE
    /\ connected' = TRUE
    /\ UNCHANGED <<brokerUp, influxUp, inbox, point, influxOk, gauge, faults>>

\* ping() answers, and then it answers true.
Ping ==
    /\ session = "pinging" /\ influxUp
    /\ influxOk' = TRUE
    /\ session' = "subscribing"
    /\ UNCHANGED <<brokerUp, influxUp, linked, inbox, point, connected, gauge, faults>>

Subscribe ==
    /\ session = "subscribing" /\ linked
    /\ session' = "consuming"
    /\ UNCHANGED <<brokerUp, influxUp, linked, inbox, point, readiness, gauge, faults>>

\* Mutant: a failed subscribe is not caught.
MqttFailsLate ==
    /\ \/ session = "connecting" /\ ~brokerUp
       \/ session = "consuming" /\ ~linked /\ inbox = <<>>
    /\ session' = "sleeping"
    /\ connected' = FALSE
    /\ UNCHANGED <<brokerUp, influxUp, linked, inbox, point, influxOk, gauge, faults>>

\* Mutant: the handler of MqttError forgets to report the loss.
MqttFailsQuietly ==
    /\ \/ session = "connecting" /\ ~brokerUp
       \/ session = "subscribing" /\ ~linked
       \/ session = "consuming" /\ ~linked /\ inbox = <<>>
    /\ session' = "sleeping"
    /\ UNCHANGED <<brokerUp, influxUp, linked, inbox, point, readiness, gauge, faults>>

\* MqttError: from the connect, the subscribe, or the iterator once it is empty.
MqttFails ==
    /\ \/ session = "connecting" /\ ~brokerUp
       \/ session = "subscribing" /\ ~linked
       \/ session = "consuming" /\ ~linked /\ inbox = <<>>
    /\ session' = "sleeping"
    /\ connected' = FALSE
    /\ UNCHANGED <<brokerUp, influxUp, linked, inbox, point, influxOk, gauge, faults>>

Wake ==
    /\ session = "sleeping"
    /\ session' = "connecting"
    /\ UNCHANGED <<brokerUp, influxUp, linked, inbox, point, readiness, gauge, faults>>

\* _to_point is None, or the payload is neither bytes nor text.
Reject ==
    /\ session = "consuming" /\ inbox # <<>> /\ Head(inbox) = "invalid"
    /\ inbox' = Tail(inbox)
    /\ UNCHANGED <<brokerUp, influxUp, linked, session, point, readiness, gauge, faults>>

BeginWrite ==
    /\ session = "consuming" /\ inbox # <<>> /\ Head(inbox) = "valid"
    /\ session' = "writing"
    /\ point' = Head(inbox)
    /\ inbox' = Tail(inbox)
    /\ UNCHANGED <<brokerUp, influxUp, linked, readiness, gauge, faults>>

\* Mutant: a failed write does not reach _influx_ok.
WriteFailsSilently ==
    /\ session = "writing"
    /\ IF influxUp THEN Fault ELSE UNCHANGED faults
    /\ session' = "consuming" /\ point' = NoPoint
    /\ UNCHANGED <<brokerUp, influxUp, linked, inbox, readiness, gauge>>

WriteSucceeds ==
    /\ session = "writing" /\ influxUp
    /\ influxOk' = TRUE
    /\ session' = "consuming" /\ point' = NoPoint
    /\ UNCHANGED <<brokerUp, influxUp, linked, inbox, connected, gauge, faults>>

\* Any exception of the client: the point is dropped and the loop goes on.
WriteFails ==
    /\ session = "writing"
    /\ IF influxUp THEN Fault ELSE UNCHANGED faults
    /\ influxOk' = FALSE
    /\ session' = "consuming" /\ point' = NoPoint
    /\ UNCHANGED <<brokerUp, influxUp, linked, inbox, connected, gauge>>

-----------------------------------------------------------------------------
(* The process, its gauge, and the environment                              *)

\* /metrics, which Prometheus scrapes, and /healthz/ready refresh the gauge.
Scrape ==
    /\ gauge' = (connected /\ influxOk)
    /\ UNCHANGED <<brokerUp, influxUp, linked, reading, readiness, faults>>

\* The TaskGroup and the process end, and the process comes back: what readiness
\* knows lives in its memory only.
StartsAgain ==
    /\ linked' = FALSE
    /\ session' = "connecting" /\ inbox' = <<>> /\ point' = NoPoint
    /\ connected' = FALSE /\ influxOk' = FALSE
    /\ gauge' = FALSE
    /\ UNCHANGED <<brokerUp, influxUp>>

\* The exception of ping() is no MqttError: it ends the process.
PingFails ==
    /\ session = "pinging" /\ ~influxUp
    /\ StartsAgain
    /\ UNCHANGED faults

\* An unexpected error anywhere does the same.
Restart == Fault /\ StartsAgain

\* A message reaches aiomqtt's queue.
Deliver ==
    /\ session \in {"consuming", "writing"} /\ linked
    /\ Len(inbox) < MaxInbox
    /\ \E kind \in Kinds : inbox' = Append(inbox, kind)
    /\ UNCHANGED <<brokerUp, influxUp, linked, session, point, readiness, gauge, faults>>

BrokerCrashes ==
    /\ brokerUp /\ Fault
    /\ brokerUp' = FALSE
    /\ linked' = FALSE
    /\ UNCHANGED <<influxUp, reading, readiness, gauge>>

BrokerReturns ==
    /\ ~brokerUp
    /\ brokerUp' = TRUE
    /\ UNCHANGED <<influxUp, linked, reading, readiness, gauge, faults>>

LinkBreaks ==
    /\ linked /\ Fault
    /\ linked' = FALSE
    /\ UNCHANGED <<brokerUp, influxUp, reading, readiness, gauge>>

InfluxCrashes ==
    /\ influxUp /\ Fault
    /\ influxUp' = FALSE
    /\ UNCHANGED <<brokerUp, linked, reading, readiness, gauge>>

InfluxReturns ==
    /\ ~influxUp
    /\ influxUp' = TRUE
    /\ UNCHANGED <<brokerUp, linked, reading, readiness, gauge, faults>>

-----------------------------------------------------------------------------
Consume ==
    \/ Connect \/ Ping \/ PingFails \/ Subscribe \/ MqttFails \/ Wake
    \/ Reject \/ BeginWrite \/ WriteSucceeds \/ WriteFails

Next ==
    \/ Connect \/ Ping \/ PingFails \/ Subscribe \/ MqttFails \/ Wake
    \/ Reject \/ BeginWrite \/ WriteSucceeds \/ WriteFails
    \/ Scrape \/ Restart \/ Deliver
    \/ BrokerCrashes \/ BrokerReturns \/ LinkBreaks \/ InfluxCrashes \/ InfluxReturns

Spec == Init /\ [][Next]_vars

\* The event loop runs the ingest task when it can go on (a ping or a write ends, by
\* its timeout if need be), a process that a failing ping ended is started again, and
\* Prometheus keeps scraping.  The broker, InfluxDB and the source of telemetry owe
\* nothing.
LiveSpec == Spec /\ WF_vars(Consume) /\ WF_vars(Scrape)

-----------------------------------------------------------------------------
TypeOK ==
    /\ brokerUp \in BOOLEAN /\ influxUp \in BOOLEAN /\ linked \in BOOLEAN
    /\ session \in Sessions
    /\ inbox \in Seq(Kinds) /\ Len(inbox) <= MaxInbox
    /\ point \in {NoPoint} \cup Kinds
    /\ connected \in BOOLEAN /\ influxOk \in BOOLEAN /\ gauge \in BOOLEAN
    /\ faults \in 0..MaxFaults

\* What is reported of a session is so: readiness says mqtt as long as a session is
\* open, hence whenever the link lives; no session ends before the last message that
\* arrived in it was handled; and invalid input is never written (ingest.py:4).
SessionIsReported ==
    /\ TypeOK
    /\ connected <=> session \in {"pinging", "subscribing", "consuming", "writing"}
    /\ linked => connected
    /\ inbox # <<>> => session \in {"consuming", "writing"}
    /\ point = IF session = "writing" THEN "valid" ELSE NoPoint

\* Ingestion comes back by itself: once the broker and InfluxDB stay, so does the
\* subscription, whatever failed before and whatever the messages contain.  The gauge
\* does not stay green for a broker that is gone for good.
IngestionFollows ==
    /\ <>[](brokerUp /\ influxUp) => <>[](linked /\ session \in {"consuming", "writing"})
    /\ <>[]~brokerUp => <>[]~gauge

\* While telemetry is being written, the gauge follows InfluxDB: an outage that lasts
\* turns it red, and the return of InfluxDB turns it green again.
Writes == session = "writing"
InfluxShows ==
    /\ []<>Writes /\ <>[]~influxUp => <>[]~gauge
    /\ []<>Writes /\ <>[](brokerUp /\ influxUp) => <>[]gauge

\* health.py:3-4, "readiness means every dependency this service needs is currently
\* usable": usable dependencies make the service ready, also when no telemetry flows.
ReadinessIsCurrent == <>[](brokerUp /\ influxUp) => <>[]gauge
=============================================================================
