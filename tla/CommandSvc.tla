----------------------------- MODULE CommandSvc -----------------------------
(***************************************************************************)
(* command-svc: POST /command (api.py) over the Publisher (publisher.py),   *)
(* whose run() task owns the connection to the broker while any number of   *)
(* publish() calls share it.  run() and the publish() calls interleave at   *)
(* their awaits: publish() reads self._client before its await and writes   *)
(* it after.                                                                *)
(*                                                                          *)
(* External, modelled from how the service uses it: an aiomqtt client sends *)
(* a QoS 1 message once, waits for its PUBACK up to a timeout that raises   *)
(* MqttError, and never reconnects; a connection that ends does not wake a  *)
(* publish that is waiting.  Each POST is a command, numbered as they come. *)
(***************************************************************************)
EXTENDS Integers, Sequences

CONSTANTS
    MaxCommands,    \* bound: commands posted
    MaxFaults       \* bound: faults of any kind, together

ASSUME CommandSvcAssumption ==
    MaxCommands \in Nat /\ MaxFaults \in Nat

Commands == 1..MaxCommands

\* Client objects, in the order run() creates them; each takes a fault
\* to replace.  None is self._client = None.
Clients == 1..(MaxFaults + 1)
None == 0

VARIABLES
    brokerUp,   \* Mosquitto accepts connections
    link,       \* link[c]: the connection of client c
    pipe,       \* pipe[c]: commands written to it that the broker has not read
    received,   \* the commands the broker read, in that order
    acked,      \* the commands whose PUBACK the broker sent
    loop,       \* where run() is
    current,    \* the client object of run()'s async with, the last one created
    client,     \* Publisher._client
    status,     \* status[r]: the POST of command r
    via,        \* via[r]: the client publish() captured for command r
    faults      \* how many faults of each kind there were

network == <<brokerUp, link, pipe, received, acked>>
runner == <<loop, current>>
posts == <<status, via>>
vars == <<network, runner, client, posts, faults>>

\* breaks: broker crashes and broken connections; late: timeouts on a connection
\* that is alive; restarts: of the process.
NoFaults == [breaks |-> 0, late |-> 0, restarts |-> 0]

Fault(kind) ==
    /\ faults.breaks + faults.late + faults.restarts < MaxFaults
    /\ faults' = [faults EXCEPT ![kind] = @ + 1]

\* open; dead: nothing comes back any more and aiomqtt does not know; closed: it does.
Links == {"unused", "open", "dead", "closed"}
Loops == {"connecting", "iterating", "sleeping"}
Statuses == {"idle", "awaiting", "accepted", "refused", "broken"}

Init ==
    /\ brokerUp \in BOOLEAN
    /\ link = [c \in Clients |-> "unused"]
    /\ pipe = [c \in Clients |-> <<>>]
    /\ received = <<>>
    /\ acked = {}
    /\ loop = "connecting"
    /\ current = None
    /\ client = None
    /\ status = [r \in Commands |-> "idle"]
    /\ via = [r \in Commands |-> None]
    /\ faults = NoFaults

-----------------------------------------------------------------------------
(* Publisher.run                                                            *)

Connect ==
    /\ loop = "connecting" /\ brokerUp /\ current + 1 \in Clients
    /\ current' = current + 1
    /\ link' = [link EXCEPT ![current + 1] = "open"]
    /\ client' = current + 1
    /\ loop' = "iterating"
    /\ UNCHANGED <<brokerUp, pipe, received, acked, posts, faults>>

\* Mutants: the lost client stays in self._client; run() does not iterate over the
\* messages and learns of a loss from a failing publish only.
RunFailsKeepsClient ==
    /\ \/ loop = "connecting" /\ ~brokerUp
       \/ loop = "iterating" /\ link[current] = "closed"
    /\ loop' = "sleeping"
    /\ UNCHANGED <<network, current, client, posts, faults>>
RunFailsWhenCleared ==
    /\ \/ loop = "connecting" /\ ~brokerUp
       \/ loop = "iterating" /\ link[current] = "closed" /\ client = None
    /\ client' = None
    /\ loop' = "sleeping"
    /\ UNCHANGED <<network, current, posts, faults>>

\* MqttError, from the connection attempt or from the message iterator once
\* aiomqtt knows that the connection is gone.
RunFails ==
    /\ \/ loop = "connecting" /\ ~brokerUp
       \/ loop = "iterating" /\ link[current] = "closed"
    /\ client' = None
    /\ loop' = "sleeping"
    /\ UNCHANGED <<network, current, posts, faults>>

Wake ==
    /\ loop = "sleeping"
    /\ loop' = "connecting"
    /\ UNCHANGED <<network, current, client, posts, faults>>

-----------------------------------------------------------------------------
(* POST /command and Publisher.publish                                      *)

Posted(r) == status[r] # "idle"
NextPost(r) == ~Posted(r) /\ \A q \in Commands : q < r => Posted(q)

\* Mutant: buffer, don't fail.
PostBuffered(r) ==
    /\ NextPost(r) /\ client = None
    /\ status' = [status EXCEPT ![r] = "refused"]
    /\ pipe' = [c \in Clients |-> IF c = current THEN Append(pipe[c], r) ELSE pipe[c]]
    /\ UNCHANGED <<brokerUp, link, received, acked, runner, client, via, faults>>

\* No client: 503 without an attempt.
PostWithoutClient(r) ==
    /\ NextPost(r) /\ client = None
    /\ status' = [status EXCEPT ![r] = "refused"]
    /\ UNCHANGED <<network, runner, client, via, faults>>

\* aiomqtt knows that the connection is gone, run() has not been told yet: the
\* publish fails at once and takes the client away.
PostOnClosed(r) ==
    /\ NextPost(r) /\ client # None /\ link[client] = "closed"
    /\ status' = [status EXCEPT ![r] = "refused"]
    /\ via' = [via EXCEPT ![r] = client]
    /\ client' = None
    /\ UNCHANGED <<network, runner, faults>>

\* Mutant: QoS 0, accepted without a PUBACK.
PostUnconfirmed(r) ==
    /\ NextPost(r) /\ client # None /\ link[client] \in {"open", "dead"}
    /\ status' = [status EXCEPT ![r] = "accepted"]
    /\ via' = [via EXCEPT ![r] = client]
    /\ pipe' = [pipe EXCEPT ![client] = Append(@, r)]
    /\ UNCHANGED <<brokerUp, link, received, acked, runner, client, faults>>

\* The message is written and publish() waits for its PUBACK.
PostWritten(r) ==
    /\ NextPost(r) /\ client # None /\ link[client] \in {"open", "dead"}
    /\ status' = [status EXCEPT ![r] = "awaiting"]
    /\ via' = [via EXCEPT ![r] = client]
    /\ pipe' = [pipe EXCEPT ![client] = Append(@, r)]
    /\ UNCHANGED <<brokerUp, link, received, acked, runner, client, faults>>

\* 202 with the CommandReceipt.
PubackArrives(r) ==
    /\ status[r] = "awaiting" /\ r \in acked /\ link[via[r]] = "open"
    /\ status' = [status EXCEPT ![r] = "accepted"]
    /\ UNCHANGED <<network, runner, client, via, faults>>

\* Mutants: a publish waits for ever; one that timed out is sent again on the client
\* of the day.
TimeoutNever(r) == FALSE
TimeoutRetries(r) ==
    /\ status[r] = "awaiting" /\ link[via[r]] # "open" /\ client # None
    /\ via' = [via EXCEPT ![r] = client]
    /\ pipe' = [pipe EXCEPT ![client] = Append(@, r)]
    /\ UNCHANGED <<brokerUp, link, received, acked, runner, client, status, faults>>

\* No PUBACK in time: publish() clears self._client, whichever client that is by
\* now, and the POST is answered 503.
Timeout(r) ==
    /\ status[r] = "awaiting"
    /\ IF link[via[r]] = "open" THEN Fault("late") ELSE UNCHANGED faults
    /\ client' = None
    /\ status' = [status EXCEPT ![r] = "refused"]
    /\ UNCHANGED <<network, runner, via>>

-----------------------------------------------------------------------------
(* The broker, the network, and the process                                 *)

\* What was written before a connection broke may still be read after it.
BrokerReads(c) ==
    /\ brokerUp /\ pipe[c] # <<>>
    /\ received' = Append(received, Head(pipe[c]))
    /\ acked' = acked \cup {Head(pipe[c])}
    /\ pipe' = [pipe EXCEPT ![c] = Tail(@)]
    /\ UNCHANGED <<brokerUp, link, runner, client, posts, faults>>

Broken(l) == IF l = "open" THEN "dead" ELSE l

BrokerCrashes ==
    /\ brokerUp /\ Fault("breaks")
    /\ brokerUp' = FALSE
    /\ link' = [c \in Clients |-> Broken(link[c])]
    /\ pipe' = [c \in Clients |-> <<>>]
    /\ UNCHANGED <<received, acked, runner, client, posts>>

BrokerReturns ==
    /\ ~brokerUp
    /\ brokerUp' = TRUE
    /\ UNCHANGED <<link, pipe, received, acked, runner, client, posts, faults>>

LinkBreaks(c) ==
    /\ link[c] = "open" /\ Fault("breaks")
    /\ link' = [link EXCEPT ![c] = "dead"]
    /\ UNCHANGED <<brokerUp, pipe, received, acked, runner, client, posts>>

\* A reset, or the keepalive, tells aiomqtt that its connection is gone.
LossDetected(c) ==
    /\ c = current /\ link[c] = "dead"
    /\ link' = [link EXCEPT ![c] = "closed"]
    /\ UNCHANGED <<brokerUp, pipe, received, acked, runner, client, posts, faults>>

\* An unexpected error ends the TaskGroup and the process comes back; the POSTs
\* that were waiting see their HTTP connection break.
Restart ==
    /\ Fault("restarts")
    /\ link' = [c \in Clients |-> IF link[c] = "unused" THEN "unused" ELSE "closed"]
    /\ loop' = "connecting"
    /\ client' = None
    /\ status' = [r \in Commands |-> IF status[r] = "awaiting" THEN "broken" ELSE status[r]]
    /\ UNCHANGED <<brokerUp, pipe, received, acked, current, via>>

-----------------------------------------------------------------------------
Run == Connect \/ RunFails \/ Wake

Next ==
    \/ Connect \/ RunFails \/ Wake
    \/ \E r \in Commands :
          \/ PostWithoutClient(r) \/ PostOnClosed(r) \/ PostWritten(r)
          \/ PubackArrives(r) \/ Timeout(r)
    \/ \E c \in Clients : BrokerReads(c) \/ LinkBreaks(c) \/ LossDetected(c)
    \/ BrokerCrashes \/ BrokerReturns \/ Restart

Spec == Init /\ [][Next]_vars

\* The event loop runs what can run: attempts and sleeps end, a dead connection is
\* detected, a waiting publish gets its PUBACK or times out, and a broker reads
\* the connections that are alive.  That a broker comes back is not assumed.
LiveSpec ==
    /\ Spec
    /\ WF_vars(Run)
    /\ \A c \in Clients :
          /\ WF_vars(LossDetected(c))
          /\ WF_vars(link[c] = "open" /\ BrokerReads(c))
    /\ \A r \in Commands : WF_vars(PubackArrives(r) \/ Timeout(r))

-----------------------------------------------------------------------------
TypeOK ==
    /\ brokerUp \in BOOLEAN
    /\ link \in [Clients -> Links]
    /\ pipe \in [Clients -> Seq(Commands)]
    /\ received \in Seq(Commands)
    /\ acked \subseteq Commands
    /\ loop \in Loops
    /\ current \in Clients \cup {None}
    /\ client \in Clients \cup {None}
    /\ status \in [Commands -> Statuses]
    /\ via \in [Commands -> Clients \cup {None}]
    /\ faults \in [{"breaks", "late", "restarts"} -> Nat]

Published == {received[i] : i \in 1..Len(received)}

\* A publish never goes to a client run() has given up: what publish() captures is
\* the connection run() is iterating over (the writes of self._client in run and
\* publish, in any order).
ClientIsCurrent ==
    client # None => client = current /\ loop = "iterating"

\* "Keep one connection open" (publisher.py:48): no earlier client leaks one.
OneConnection ==
    \A c \in Clients : link[c] = "open" => c = current

\* Both together: one connection, and it is the one that publish() captures.
OneClient == ClientIsCurrent /\ OneConnection

\* A command answered 503 because there was no client is not published later.
RefusedUnsentStaysUnsent ==
    \A r \in Commands : status[r] = "refused" /\ via[r] = None => r \notin Published

\* Commands that were accepted took effect in the order they were posted, also when
\* a reconnection came between them: of the accepted setpoints the last one posted is
\* the last one received.  A refused one may still be read after it.
AcceptedInOrder ==
    \A i, k \in 1..Len(received) :
        /\ i < k
        /\ status[received[i]] = "accepted"
        /\ status[received[k]] = "accepted"
        => received[i] < received[k]

Owed == INSTANCE CommandPromise
          WITH answer <- [r \in Commands |->
                            IF status[r] \in {"idle", "awaiting"} THEN "none" ELSE status[r]],
               published <- Published

\* The detailed protocol keeps the promise of the endpoint.
Promise == Owed!Spec

\* Every POST is answered.
EveryPostAnswered == \A r \in Commands : status[r] = "awaiting" ~> status[r] # "awaiting"

\* run() gets a working connection back by itself once the broker stays.
RunRecovers ==
    <>[]brokerUp => <>[](loop = "iterating" /\ current # None /\ link[current] = "open")

\* publisher.py:48 "Keep one connection open forever; reconnect on loss": once the
\* broker stays, commands can be published again.
PublishingRecovers == <>[]brokerUp => <>[](client # None)
=============================================================================
