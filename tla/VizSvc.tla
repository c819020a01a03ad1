------------------------------- MODULE VizSvc -------------------------------
(***************************************************************************)
(* viz-svc and its viewer: the channel watcher and the frames of            *)
(* stream.py, the websocket handler of app.py, and the reconnecting socket   *)
(* of useTwinState.ts.  Each socket has a handler of its own, and each       *)
(* handler a StreamState call; a state is no more than "there is one", for   *)
(* LatestWins says what a call delivers.                                     *)
(*                                                                          *)
(* External, modelled from how viz-svc uses it: a gRPC channel that lost its *)
(* connection is idle until somebody asks it to connect; a call begun while  *)
(* it cannot connect fails, and one begun while it tries waits; uvicorn      *)
(* learns of a browser that left some time later, and only then does         *)
(* send_text raise; a generator that nobody iterates any more is finalised   *)
(* by the event loop, which also cancels its call.                           *)
(***************************************************************************)
EXTENDS Integers, Sequences, FiniteSets

CONSTANTS
    MaxSockets,     \* bound: sockets that exist at a time, in browser or server
    MaxWire,        \* bound: what is under way to the browser before a send blocks
    MaxFaults       \* bound: crashes, broken connections, and pages that are left

ASSUME VizAssumption ==
    MaxSockets \in Nat \ {0} /\ MaxWire \in Nat \ {0} /\ MaxFaults \in Nat

Sockets == 1..MaxSockets
NoSocket == 0

VARIABLES
    stateUp,    \* state-svc serves its gRPC port
    linked,     \* the channel's connection to it is alive
    channel,    \* the connectivity of the channel
    vizUp,      \* the viz-svc process runs
    ready,      \* StateStream._ready
    changed,    \* whether the channel changed since run() read its connectivity
    handler,    \* where the handler of each socket is
    rpc,        \* its StreamState call
    pending,    \* whether a state is ready to be read from that call
    lost,       \* whether uvicorn knows that the browser left
    clients,    \* the gauge twin_viz_clients
    page,       \* whether the hook is mounted
    socket,     \* the sockets in the browser
    wire,       \* what is under way to the browser on each
    current,    \* the hook's socket
    timer,      \* whether the reconnect timer is set
    status,     \* the hook's status
    faults      \* how many faults there were

upstream == <<stateUp, linked, channel>>
watcher == <<ready, changed>>
server == <<handler, rpc, pending, lost, clients>>
browser == <<page, socket, wire, current, timer, status>>
vars == <<upstream, vizUp, watcher, server, browser, faults>>

Connectivity == {"idle", "connecting", "ready", "failed"}
Handlers == {"none", "streaming", "sending", "leaving"}
Calls == {"none", "waiting", "flowing", "broken"}
Events == {"accept", "frame", "close"}

Fault == faults < MaxFaults /\ faults' = faults + 1

Init ==
    /\ stateUp \in BOOLEAN /\ linked = FALSE /\ channel = "idle"
    /\ vizUp = TRUE /\ ready = FALSE /\ changed = TRUE
    /\ handler = [s \in Sockets |-> "none"]
    /\ rpc = [s \in Sockets |-> "none"]
    /\ pending = [s \in Sockets |-> FALSE]
    /\ lost = [s \in Sockets |-> FALSE]
    /\ clients = 0
    /\ page = FALSE /\ timer = FALSE /\ status = "connecting"
    /\ socket = [s \in Sockets |-> "closed"]
    /\ wire = [s \in Sockets |-> <<>>]
    /\ current = NoSocket
    /\ faults = 0

-----------------------------------------------------------------------------
(* The channel, and StateStream.run, which watches it                       *)

Connecting ==
    /\ vizUp /\ channel = "connecting"
    /\ channel' = IF stateUp THEN "ready" ELSE "failed"
    /\ linked' = stateUp
    /\ rpc' = [s \in Sockets |->
                 IF rpc[s] # "waiting" THEN rpc[s] ELSE IF stateUp THEN "flowing" ELSE "broken"]
    /\ changed' = TRUE
    /\ UNCHANGED <<stateUp, vizUp, ready, handler, pending, lost, clients, browser, faults>>

BackoffEnds ==
    /\ vizUp /\ channel = "failed"
    /\ channel' = "connecting"
    /\ changed' = TRUE
    /\ UNCHANGED <<stateUp, linked, vizUp, ready, server, browser, faults>>

ChannelLost ==
    /\ vizUp /\ channel = "ready" /\ ~linked
    /\ channel' = "idle"
    /\ rpc' = [s \in Sockets |-> IF rpc[s] = "flowing" THEN "broken" ELSE rpc[s]]
    /\ changed' = TRUE
    /\ UNCHANGED <<stateUp, linked, vizUp, ready, handler, pending, lost, clients, browser, faults>>

Asked(connectivity) == IF connectivity = "idle" THEN "connecting" ELSE connectivity

\* Mutants: get_state() without try_to_connect; a readiness that is only ever set.
WatchPassively ==
    /\ vizUp /\ changed
    /\ ready' = (channel = "ready")
    /\ changed' = FALSE
    /\ UNCHANGED <<upstream, vizUp, server, browser, faults>>
WatchForReady ==
    /\ vizUp /\ changed
    /\ ready' = (ready \/ channel = "ready")
    /\ channel' = Asked(channel)
    /\ changed' = (channel = "idle")
    /\ UNCHANGED <<stateUp, linked, vizUp, server, browser, faults>>

\* wait_for_state_change() returned, for good even if the channel changed back: its
\* connectivity is read, and an idle channel is asked to connect.
Watch ==
    /\ vizUp /\ changed
    /\ ready' = (channel = "ready")
    /\ channel' = Asked(channel)
    /\ changed' = (channel = "idle")
    /\ UNCHANGED <<stateUp, linked, vizUp, server, browser, faults>>

-----------------------------------------------------------------------------
(* ws_state, and the frames() it iterates                                   *)

\* accept(), CLIENTS.inc() and the beginning of the call.
Accept(s) ==
    /\ vizUp /\ socket[s] = "opening" /\ wire[s] = <<>>
    /\ handler' = [handler EXCEPT ![s] = "streaming"]
    /\ rpc' = [rpc EXCEPT ![s] =
                 CASE channel = "ready" -> "flowing"
                   [] channel = "failed" -> "broken"
                   [] OTHER -> "waiting"]
    /\ channel' = Asked(channel)
    /\ changed' = (changed \/ channel = "idle")
    /\ wire' = [wire EXCEPT ![s] = <<"accept">>]
    /\ clients' = clients + 1
    /\ UNCHANGED <<stateUp, linked, vizUp, ready, pending, lost,
                   page, socket, current, timer, status, faults>>

\* The call has a state: FRAMES.inc(), and the frame is yielded to the handler.
ReadState(s) ==
    /\ handler[s] = "streaming" /\ pending[s]
    /\ handler' = [handler EXCEPT ![s] = "sending"]
    /\ pending' = [pending EXCEPT ![s] = FALSE]
    /\ UNCHANGED <<upstream, vizUp, watcher, rpc, lost, clients, browser, faults>>

Reaches(s) == socket[s] # "closed" /\ \A i \in 1..Len(wire[s]) : wire[s][i] # "close"

\* send_text: blocks while too much is under way; into the void when the browser left
\* and uvicorn does not know it yet.
Send(s) ==
    /\ handler[s] = "sending" /\ ~lost[s]
    /\ \/ Reaches(s) /\ Len(wire[s]) < MaxWire /\ wire' = [wire EXCEPT ![s] = Append(@, "frame")]
       \/ ~Reaches(s) /\ UNCHANGED wire
    /\ handler' = [handler EXCEPT ![s] = "streaming"]
    /\ UNCHANGED <<upstream, vizUp, watcher, rpc, pending, lost, clients,
                   page, socket, current, timer, status, faults>>

\* Mutant: the handler goes on with the next frame.
DisconnectIgnored(s) ==
    /\ handler[s] = "sending" /\ lost[s]
    /\ handler' = [handler EXCEPT ![s] = "streaming"]
    /\ UNCHANGED <<upstream, vizUp, watcher, rpc, pending, lost, clients, browser, faults>>

\* send_text raises WebSocketDisconnect: the handler ends, with frames() at its yield.
Disconnect(s) ==
    /\ handler[s] = "sending" /\ lost[s]
    /\ handler' = [handler EXCEPT ![s] = "leaving"]
    /\ UNCHANGED <<upstream, vizUp, watcher, rpc, pending, lost, clients, browser, faults>>

\* The call ends, and nothing of the socket is left in the server.
Ended(s) ==
    /\ handler' = [handler EXCEPT ![s] = "none"]
    /\ rpc' = [rpc EXCEPT ![s] = "none"]
    /\ pending' = [pending EXCEPT ![s] = FALSE]
    /\ lost' = [lost EXCEPT ![s] = FALSE]

\* The finally block of frames(), by the finalisation of the generator.
Finalise(s) ==
    /\ handler[s] = "leaving"
    /\ Ended(s)
    /\ clients' = clients - 1
    /\ UNCHANGED <<upstream, vizUp, watcher, browser, faults>>

\* Mutant: the gauge is lowered when the browser left, and not when the call failed.
RpcFailsCounted(s) ==
    /\ handler[s] = "streaming" /\ rpc[s] = "broken"
    /\ Ended(s)
    /\ wire' = IF Reaches(s) THEN [wire EXCEPT ![s] = Append(@, "close")] ELSE wire
    /\ UNCHANGED <<upstream, vizUp, watcher, clients, page, socket, current, timer, status, faults>>

\* AioRpcError: the finally block, and the socket is closed with 1011.  What the call
\* still had may be lost.
RpcFails(s) ==
    /\ handler[s] = "streaming" /\ rpc[s] = "broken"
    /\ Ended(s)
    /\ clients' = clients - 1
    /\ wire' = IF Reaches(s) THEN [wire EXCEPT ![s] = Append(@, "close")] ELSE wire
    /\ UNCHANGED <<upstream, vizUp, watcher, page, socket, current, timer, status, faults>>

-----------------------------------------------------------------------------
(* useTwinState                                                             *)

\* connect(): a new socket.  The smallest free number names it.
Dials(s) ==
    /\ socket[s] = "closed" /\ handler[s] = "none"
    /\ \A t \in 1..(s - 1) : socket[t] # "closed" \/ handler[t] # "none"
    /\ socket' = [socket EXCEPT ![s] = "opening"]
    /\ current' = s

Mount ==
    /\ ~page
    /\ page' = TRUE
    /\ status' = "connecting"
    /\ \E s \in Sockets : Dials(s)
    /\ UNCHANGED <<upstream, vizUp, watcher, server, wire, timer, faults>>

Reconnect ==
    /\ timer
    /\ timer' = FALSE
    /\ \E s \in Sockets : Dials(s)
    /\ UNCHANGED <<upstream, vizUp, watcher, server, page, wire, status, faults>>

OnOpen(s) ==
    /\ socket[s] = "opening" /\ wire[s] # <<>> /\ Head(wire[s]) = "accept"
    /\ socket' = [socket EXCEPT ![s] = "open"]
    /\ wire' = [wire EXCEPT ![s] = Tail(@)]
    /\ status' = "live"
    /\ UNCHANGED <<upstream, vizUp, watcher, server, page, current, timer, faults>>

OnMessage(s) ==
    /\ wire[s] # <<>> /\ Head(wire[s]) = "frame"
    /\ wire' = [wire EXCEPT ![s] = Tail(@)]
    /\ UNCHANGED <<upstream, vizUp, watcher, server, page, socket, current, timer, status, faults>>

\* Mutants: the close event sets no timer; it leaves the status.
OnCloseForGood(s) ==
    /\ \/ wire[s] # <<>> /\ Head(wire[s]) = "close"
       \/ socket[s] = "opening" /\ wire[s] = <<>> /\ ~vizUp
    /\ socket' = [socket EXCEPT ![s] = "closed"]
    /\ wire' = [wire EXCEPT ![s] = <<>>]
    /\ status' = "reconnecting"
    /\ UNCHANGED <<upstream, vizUp, watcher, server, page, current, timer, faults>>
OnCloseSilently(s) ==
    /\ \/ wire[s] # <<>> /\ Head(wire[s]) = "close"
       \/ socket[s] = "opening" /\ wire[s] = <<>> /\ ~vizUp
    /\ socket' = [socket EXCEPT ![s] = "closed"]
    /\ wire' = [wire EXCEPT ![s] = <<>>]
    /\ timer' = TRUE
    /\ UNCHANGED <<upstream, vizUp, watcher, server, page, current, status, faults>>

\* The socket is closed, broken, or refused.
OnClose(s) ==
    /\ \/ wire[s] # <<>> /\ Head(wire[s]) = "close"
       \/ socket[s] = "opening" /\ wire[s] = <<>> /\ ~vizUp
    /\ socket' = [socket EXCEPT ![s] = "closed"]
    /\ wire' = [wire EXCEPT ![s] = <<>>]
    /\ status' = "reconnecting"
    /\ timer' = TRUE
    /\ UNCHANGED <<upstream, vizUp, watcher, server, page, current, faults>>

\* Mutant: the effect's cleanup forgets the socket.
UnmountLeaks ==
    /\ page /\ Fault
    /\ page' = FALSE
    /\ timer' = FALSE
    /\ UNCHANGED <<upstream, vizUp, watcher, server, socket, wire, current, status>>

\* The effect's cleanup, or the tab is closed: the timer and the socket go, and what
\* is still under way goes nowhere.
Unmount ==
    /\ page /\ Fault
    /\ page' = FALSE
    /\ timer' = FALSE
    /\ socket' = [socket EXCEPT ![current] = "closed"]
    /\ wire' = [wire EXCEPT ![current] = <<>>]
    /\ UNCHANGED <<upstream, vizUp, watcher, server, current, status>>

-----------------------------------------------------------------------------
(* The environment                                                          *)

\* A call that has no state waiting gets one.
Serve(s) ==
    /\ stateUp /\ linked /\ rpc[s] = "flowing" /\ ~pending[s]
    /\ pending' = [pending EXCEPT ![s] = TRUE]
    /\ UNCHANGED <<upstream, vizUp, watcher, handler, rpc, lost, clients, browser, faults>>

\* uvicorn learns that the browser left, by a close frame or its keepalive.
Notice(s) ==
    /\ handler[s] \in {"streaming", "sending"} /\ ~lost[s] /\ ~Reaches(s)
    /\ lost' = [lost EXCEPT ![s] = TRUE]
    /\ UNCHANGED <<upstream, vizUp, watcher, handler, rpc, pending, clients, browser, faults>>

SocketBreaks(s) ==
    /\ Reaches(s) /\ Fault
    /\ wire' = [wire EXCEPT ![s] = Append(@, "close")]
    /\ UNCHANGED <<upstream, vizUp, watcher, server, page, socket, current, timer, status>>

StateSvcCrashes ==
    /\ stateUp /\ Fault
    /\ stateUp' = FALSE /\ linked' = FALSE
    /\ UNCHANGED <<channel, vizUp, watcher, server, browser>>

StateSvcReturns ==
    /\ ~stateUp
    /\ stateUp' = TRUE
    /\ UNCHANGED <<linked, channel, vizUp, watcher, server, browser, faults>>

LinkBreaks ==
    /\ linked /\ Fault
    /\ linked' = FALSE
    /\ UNCHANGED <<stateUp, channel, vizUp, watcher, server, browser>>

\* Fail fast: the process ends and takes channel, calls and sockets with it.
Crash ==
    /\ vizUp /\ Fault
    /\ vizUp' = FALSE
    /\ linked' = FALSE /\ channel' = "idle"
    /\ ready' = FALSE /\ changed' = TRUE
    /\ handler' = [s \in Sockets |-> "none"]
    /\ rpc' = [s \in Sockets |-> "none"]
    /\ pending' = [s \in Sockets |-> FALSE]
    /\ lost' = [s \in Sockets |-> FALSE]
    /\ clients' = 0
    /\ wire' = [s \in Sockets |-> IF Reaches(s) THEN Append(wire[s], "close") ELSE wire[s]]
    /\ UNCHANGED <<stateUp, page, socket, current, timer, status>>

Restart ==
    /\ ~vizUp
    /\ vizUp' = TRUE
    /\ UNCHANGED <<upstream, watcher, server, browser, faults>>

-----------------------------------------------------------------------------
Handle(s) ==
    Accept(s) \/ ReadState(s) \/ Send(s) \/ Disconnect(s) \/ Finalise(s) \/ RpcFails(s)
Receive(s) == OnOpen(s) \/ OnMessage(s) \/ OnClose(s)

Next ==
    \/ Connecting \/ BackoffEnds \/ ChannelLost \/ Watch
    \/ \E s \in Sockets :
          \/ Accept(s) \/ ReadState(s) \/ Send(s) \/ Disconnect(s) \/ Finalise(s) \/ RpcFails(s)
          \/ OnOpen(s) \/ OnMessage(s) \/ OnClose(s)
          \/ Serve(s) \/ Notice(s) \/ SocketBreaks(s)
    \/ Mount \/ Reconnect \/ Unmount
    \/ StateSvcCrashes \/ StateSvcReturns \/ LinkBreaks \/ Crash \/ Restart

Spec == Init /\ [][Next]_vars

\* gRPC and the event loop do what they can, each handler and each socket of the
\* browser for itself, and the timer fires.  state-svc, the broken processes and the
\* people who open pages owe nothing.
LiveSpec ==
    /\ Spec
    /\ WF_vars(Connecting) /\ WF_vars(BackoffEnds) /\ WF_vars(ChannelLost) /\ WF_vars(Watch)
    /\ WF_vars(Reconnect)
    /\ \A s \in Sockets : WF_vars(Handle(s)) /\ WF_vars(Notice(s)) /\ WF_vars(Receive(s))

-----------------------------------------------------------------------------
TypeOK ==
    /\ stateUp \in BOOLEAN /\ linked \in BOOLEAN /\ vizUp \in BOOLEAN
    /\ channel \in Connectivity /\ ready \in BOOLEAN /\ changed \in BOOLEAN
    /\ handler \in [Sockets -> Handlers] /\ rpc \in [Sockets -> Calls]
    /\ pending \in [Sockets -> BOOLEAN] /\ lost \in [Sockets -> BOOLEAN]
    /\ clients \in 0..MaxSockets
    /\ page \in BOOLEAN /\ timer \in BOOLEAN
    /\ socket \in [Sockets -> {"closed", "opening", "open"}]
    /\ wire \in [Sockets -> Seq(Events)] /\ \A s \in Sockets : Len(wire[s]) <= MaxWire + 1
    /\ current \in Sockets \cup {NoSocket}
    /\ status \in {"connecting", "live", "reconnecting"}
    /\ faults \in 0..MaxFaults

\* twin_viz_clients is raised and lowered once for each call, by whichever way its
\* handler ends: a failed call, a browser that left, a crash (stream.py:95-101).
GaugeCountsCalls == clients = Cardinality({s \in Sockets : rpc[s] # "none"})

\* A mounted hook has exactly one of a socket and a reconnect timer, and an unmounted
\* one has neither, through failures, remounts and reconnections: two feeds would show
\* the arm jumping back, and with neither no feed would ever return.  The pill says
\* "live" exactly while that socket is open (useTwinState.ts:31-61).
OneSocket ==
    /\ \A s, t \in Sockets : socket[s] # "closed" /\ socket[t] # "closed" => s = t
    /\ timer => \A s \in Sockets : socket[s] = "closed"
    /\ page <=> timer \/ \E s \in Sockets : socket[s] # "closed"
    /\ page => (status = "live" <=> \E s \in Sockets : socket[s] = "open")

\* Nobody is left behind by the channel, however often it changes between two looks
\* at it: readiness tells whether it is connected unless run() is about to look again,
\* nobody waits on a channel that is not trying to connect, and no call outlives the
\* connection it is on (stream.py:83-86 and 95-101).
ChannelIsFollowed ==
    /\ ~changed => channel # "idle" /\ (ready <=> channel = "ready")
    /\ \A s \in Sockets : /\ rpc[s] = "waiting" => channel = "connecting"
                          /\ rpc[s] = "flowing" => channel = "ready"

\* As long as state-svc keeps sending, a browser that left does not keep its handler,
\* its call and its place in the gauge (app.py:54, "frames() cleans up").
Departed(s) == socket[s] = "closed" /\ handler[s] # "none"
Fed(s) == rpc[s] # "flowing" \/ pending[s]
DepartedAreDropped ==
    \A s \in Sockets : []<>Fed(s) => (Departed(s) ~> handler[s] = "none")

\* A page that stays open gets its feed back, and keeps it, once both services stay
\* (useTwinState.ts:28-30, "one retry timer covers every failure mode").
ViewerReturns == <>[](vizUp /\ stateUp /\ page) => <>[](status = "live")

\* Readiness goes down with state-svc and comes back with it, also without a browser.
ReadinessFollows ==
    /\ <>[](vizUp /\ stateUp) => <>[]ready
    /\ <>[]~stateUp => <>[]~ready

\* main.tsx:13, "Degradation must be visible": a viz-svc that is gone ends "live" for
\* good, and a state-svc that is gone ends it again and again.
OutageShows ==
    /\ <>[](~vizUp /\ page) => <>[](status # "live")
    /\ <>[](~stateUp /\ page) => []<>(status # "live")
=============================================================================
