------------------------- MODULE TelemetrySvcProofs -------------------------
(***************************************************************************)
(* What telemetry-svc reports of its session and writes of its input, for   *)
(* any queue length and any number of faults.  SessionIsReported, with the  *)
(* types, is inductive as it stands.                                        *)
(***************************************************************************)
EXTENDS TelemetrySvc, TLAPS

LEMMA InitReports ==
    ASSUME Init
    PROVE  SessionIsReported
<1>1. inbox = <<>> /\ inbox \in Seq(Kinds) /\ Len(inbox) <= MaxInbox
  BY TelemetrySvcAssumption DEF Init
<1> QED
  <2>1. faults \in 0..MaxFaults
    BY TelemetrySvcAssumption DEF Init
  <2>2. TypeOK
    BY <1>1, <2>1, Zenon DEF Init, TypeOK, Sessions, NoPoint
  <2> QED
    BY <2>2 DEF Init, SessionIsReported

\* A fault is counted, and the count stays in its bound.
LEMMA FaultType ==
    ASSUME faults \in 0..MaxFaults, Fault \/ UNCHANGED faults
    PROVE  faults' \in 0..MaxFaults
  BY TelemetrySvcAssumption DEF Fault

\* The steps of _consume up to the first message, and the end of a session.
LEMMA SessionReports ==
    ASSUME SessionIsReported, Connect \/ Ping \/ Subscribe \/ MqttFails \/ Wake
    PROVE  SessionIsReported'
<1>1. UNCHANGED <<brokerUp, influxUp, inbox, point, gauge, faults>>
  BY DEF Connect, Ping, Subscribe, MqttFails, Wake, readiness
<1>2. session' \in Sessions /\ linked' \in BOOLEAN
      /\ connected' \in BOOLEAN /\ influxOk' \in BOOLEAN
  BY DEF Connect, Ping, Subscribe, MqttFails, Wake, readiness, SessionIsReported, TypeOK,
         Sessions
<1>3. TypeOK'
  BY <1>1, <1>2 DEF SessionIsReported, TypeOK
<1>4. /\ connected' <=> session' \in {"pinging", "subscribing", "consuming", "writing"}
      /\ linked' => connected'
      /\ inbox # <<>> => session' \in {"consuming", "writing"}
      /\ session # "writing" /\ session' # "writing"
  BY DEF Connect, Ping, Subscribe, MqttFails, Wake, readiness, SessionIsReported
<1> QED
  BY <1>1, <1>3, <1>4 DEF SessionIsReported

\* A message leaves the queue, by a rejection or for the write it asks for.
LEMMA MessageReports ==
    ASSUME SessionIsReported, Reject \/ BeginWrite
    PROVE  SessionIsReported'
<1>1. /\ UNCHANGED <<brokerUp, influxUp, linked, connected, influxOk, gauge, faults>>
      /\ session = "consuming" /\ inbox # <<>> /\ inbox' = Tail(inbox)
  BY DEF Reject, BeginWrite, readiness
<1>2. inbox \in Seq(Kinds) /\ Len(inbox) <= MaxInbox
  BY DEF SessionIsReported, TypeOK
<1>3. inbox' \in Seq(Kinds) /\ Len(inbox') = Len(inbox) - 1 /\ Len(inbox) \in Nat
  BY <1>1, <1>2
<1>4. Len(inbox') <= MaxInbox
  <2>1. Len(inbox) - 1 <= MaxInbox
    BY <1>2, <1>3, TelemetrySvcAssumption
  <2> QED
    BY <1>3, <2>1
<1>5. \/ session' = "consuming" /\ point' = "none" /\ point = "none"
      \/ session' = "writing" /\ point' = "valid"
  BY <1>1 DEF Reject, BeginWrite, SessionIsReported, NoPoint
<1>6. TypeOK'
  BY <1>1, <1>3, <1>4, <1>5 DEF SessionIsReported, TypeOK, Sessions, NoPoint, Kinds
<1> QED
  BY <1>1, <1>5, <1>6 DEF SessionIsReported, NoPoint

LEMMA WriteReports ==
    ASSUME SessionIsReported, WriteSucceeds \/ WriteFails
    PROVE  SessionIsReported'
<1>1. /\ UNCHANGED <<brokerUp, influxUp, linked, inbox, connected, gauge>>
      /\ session = "writing" /\ session' = "consuming" /\ point' = "none"
      /\ influxOk' \in BOOLEAN
      /\ Fault \/ UNCHANGED faults
  BY DEF WriteSucceeds, WriteFails, NoPoint
<1>2. faults' \in 0..MaxFaults
  BY <1>1, FaultType DEF SessionIsReported, TypeOK
<1>3. TypeOK'
  BY <1>1, <1>2 DEF SessionIsReported, TypeOK, Sessions, NoPoint
<1> QED
  BY <1>1, <1>3 DEF SessionIsReported, NoPoint

LEMMA RestartReports ==
    ASSUME SessionIsReported, PingFails \/ Restart
    PROVE  SessionIsReported'
<1>1. StartsAgain /\ (Fault \/ UNCHANGED faults)
  BY DEF PingFails, Restart
<1>2. inbox' = <<>> /\ inbox' \in Seq(Kinds) /\ Len(inbox') <= MaxInbox
  BY <1>1, TelemetrySvcAssumption DEF StartsAgain
<1>3. faults' \in 0..MaxFaults
  BY <1>1, FaultType DEF SessionIsReported, TypeOK
<1> QED
  BY <1>1, <1>2, <1>3 DEF StartsAgain, SessionIsReported, TypeOK, Sessions, NoPoint

LEMMA DeliverReports ==
    ASSUME SessionIsReported, Deliver
    PROVE  SessionIsReported'
<1>1. PICK kind \in Kinds : inbox' = Append(inbox, kind)
  BY DEF Deliver
<1>2. inbox \in Seq(Kinds) /\ Len(inbox) < MaxInbox
  BY DEF Deliver, SessionIsReported, TypeOK
<1>3. inbox' \in Seq(Kinds) /\ Len(inbox') = Len(inbox) + 1 /\ Len(inbox) \in Nat
  BY <1>1, <1>2
<1>4. Len(inbox') <= MaxInbox
  <2>1. Len(inbox) + 1 <= MaxInbox
    BY <1>2, <1>3, TelemetrySvcAssumption
  <2> QED
    BY <1>3, <2>1
<1>5. /\ UNCHANGED <<brokerUp, influxUp, linked, session, point, connected, influxOk,
                     gauge, faults>>
      /\ session \in {"consuming", "writing"}
  BY DEF Deliver, readiness
<1>6. TypeOK'
  BY <1>3, <1>4, <1>5 DEF SessionIsReported, TypeOK
<1> QED
  BY <1>5, <1>6 DEF SessionIsReported

\* The broker, the network, InfluxDB and Prometheus leave the session alone.
LEMMA WorldReports ==
    ASSUME SessionIsReported,
           \/ Scrape \/ BrokerCrashes \/ BrokerReturns
           \/ LinkBreaks \/ InfluxCrashes \/ InfluxReturns
           \/ UNCHANGED vars
    PROVE  SessionIsReported'
<1>1. UNCHANGED <<session, inbox, point, connected, influxOk>>
  BY DEF Scrape, BrokerCrashes, BrokerReturns, LinkBreaks, InfluxCrashes, InfluxReturns,
         vars, reading, readiness
<1>2. /\ brokerUp' \in BOOLEAN /\ influxUp' \in BOOLEAN
      /\ linked' = FALSE \/ linked' = linked
  BY DEF Scrape, BrokerCrashes, BrokerReturns, LinkBreaks, InfluxCrashes, InfluxReturns,
         vars, reading, readiness, SessionIsReported, TypeOK
<1>3. Fault \/ UNCHANGED faults
  BY DEF Scrape, BrokerCrashes, BrokerReturns, LinkBreaks, InfluxCrashes, InfluxReturns,
         vars, reading, readiness
<1>4. gauge' \in BOOLEAN
  BY DEF Scrape, BrokerCrashes, BrokerReturns, LinkBreaks, InfluxCrashes, InfluxReturns,
         vars, SessionIsReported, TypeOK
<1>5. faults' \in 0..MaxFaults
  BY <1>3, FaultType DEF SessionIsReported, TypeOK
<1>6. TypeOK'
  BY <1>1, <1>2, <1>4, <1>5 DEF SessionIsReported, TypeOK
<1> QED
  BY <1>1, <1>2, <1>6 DEF SessionIsReported

\* Readiness says mqtt exactly while a session is open, no session of telemetry-svc
\* leaves a message behind, and invalid input is never written.
THEOREM ReportsItsSession == Spec => []SessionIsReported
<1>1. Init => SessionIsReported
  BY InitReports
<1>2. SessionIsReported /\ [Next]_vars => SessionIsReported'
  BY SessionReports, MessageReports, WriteReports, RestartReports, DeliverReports,
     WorldReports DEF Next
<1> QED
  BY <1>1, <1>2, PTL DEF Spec

\* Type correctness of the ingest loop and of what it leaves for /healthz/ready.
THEOREM TypeCorrect == Spec => []TypeOK
<1>1. SessionIsReported => TypeOK
  BY DEF SessionIsReported
<1> QED
  BY <1>1, ReportsItsSession, PTL
=============================================================================
