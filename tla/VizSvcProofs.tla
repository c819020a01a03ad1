---------------------------- MODULE VizSvcProofs ----------------------------
(***************************************************************************)
(* An honest gauge, one socket or timer, an honest pill, and a channel that  *)
(* nobody loses sight of, for any number of sockets and faults.             *)
(***************************************************************************)
EXTENDS VizSvc, FiniteSetTheorems, TLAPS

NoClose(w) == \A i \in 1..Len(w) : w[i] # "close"

\* What is under way to the browser leaves room for the close event.
WiresFit == \A s \in Sockets : NoClose(wire[s]) => Len(wire[s]) <= MaxWire

\* The browser has one socket at most, the hook's, and only while the page is there;
\* events are under way to sockets that exist.
SocketIsCurrent ==
    /\ \A s \in Sockets : socket[s] # "closed" => s = current /\ page
    /\ \A s \in Sockets : wire[s] # <<>> => socket[s] # "closed"
    /\ timer => page /\ \A s \in Sockets : socket[s] = "closed"

\* A socket that is opening and has a handler has not read that it was accepted, so
\* that no second handler accepts it.
AcceptUnread ==
    \A s \in Sockets :
        socket[s] = "opening" /\ handler[s] # "none" => wire[s] # <<>> /\ wire[s][1] # "frame"

\* A handler has a call for as long as it is there.
CallsAreHandled == \A s \in Sockets : rpc[s] # "none" <=> handler[s] # "none"

BrowserInv == WiresFit /\ SocketIsCurrent /\ AcceptUnread
CallsInv == CallsAreHandled /\ GaugeCountsCalls

IInv == TypeOK /\ BrowserInv /\ CallsInv

-----------------------------------------------------------------------------
LEMMA AppendEvent ==
    ASSUME NEW w \in Seq(Events), NEW e \in Events
    PROVE  /\ Append(w, e) \in Seq(Events) /\ Append(w, e) # <<>>
           /\ Len(Append(w, e)) = Len(w) + 1 /\ Len(w) \in Nat
           /\ NoClose(Append(w, e)) => NoClose(w) /\ e # "close"
           /\ w # <<>> => Append(w, e)[1] = w[1]
           /\ w = <<>> => Append(w, e)[1] = e
<1> DEFINE v == Append(w, e)
<1>1. /\ v \in Seq(Events) /\ Len(v) = Len(w) + 1 /\ Len(w) \in Nat
      /\ \A i \in 1..Len(w) : v[i] = w[i]
      /\ v[Len(w) + 1] = e
  OBVIOUS
<1>2. v # <<>>
  BY <1>1
<1>3. w # <<>> => 1 \in 1..Len(w)
  OBVIOUS
<1>4. w = <<>> => Len(w) = 0
  OBVIOUS
<1> HIDE DEF v
<1>5. Len(w) + 1 \in 1..Len(v) /\ \A i \in 1..Len(w) : i \in 1..Len(v)
  BY <1>1
<1>6. NoClose(v) => NoClose(w) /\ e # "close"
  BY <1>1, <1>5 DEF NoClose
<1>7. (w # <<>> => v[1] = w[1]) /\ (w = <<>> => v[1] = e)
  BY <1>1, <1>3, <1>4
<1> QED
  BY <1>1, <1>2, <1>6, <1>7 DEF v

LEMMA TailEvent ==
    ASSUME NEW w \in Seq(Events), w # <<>>
    PROVE  /\ Tail(w) \in Seq(Events) /\ Len(w) \in Nat /\ Len(Tail(w)) = Len(w) - 1
           /\ Head(w) = w[1]
           /\ NoClose(Tail(w)) /\ Head(w) # "close" => NoClose(w)
<1>1. /\ Tail(w) \in Seq(Events) /\ Len(w) \in Nat /\ Len(Tail(w)) = Len(w) - 1
      /\ Head(w) = w[1]
      /\ \A i \in 1..Len(w) - 1 : Tail(w)[i] = w[i + 1]
  OBVIOUS
<1>2. \A i \in 1..Len(w) : i = 1 \/ (i - 1 \in 1..Len(w) - 1 /\ (i - 1) + 1 = i)
  BY <1>1
<1>3. NoClose(Tail(w)) /\ Head(w) # "close" => NoClose(w)
  <2> SUFFICES ASSUME NoClose(Tail(w)), Head(w) # "close", NEW i \in 1..Len(w)
               PROVE  w[i] # "close"
    BY DEF NoClose
  <2>1. CASE i = 1
    BY <1>1, <2>1
  <2>2. CASE i - 1 \in 1..Len(w) - 1 /\ (i - 1) + 1 = i
    <3>1. Tail(w)[i - 1] = w[i]
      BY <1>1, <2>2
    <3>2. i - 1 \in 1..Len(Tail(w))
      BY <1>1, <2>2
    <3> QED
      BY <3>1, <3>2 DEF NoClose
  <2> QED
    BY <1>2, <2>1, <2>2
<1> QED
  BY <1>1, <1>3

\* The sockets that have a call.
CallsOf(r) == {s \in Sockets : r[s] # "none"}

LEMMA CallsAreFinite ==
    ASSUME NEW r
    PROVE  IsFiniteSet(CallsOf(r)) /\ Cardinality(CallsOf(r)) \in 0..MaxSockets
<1>1. MaxSockets \in Nat /\ 1 \in Int /\ MaxSockets \in Int
  BY VizAssumption
<1>2. IsFiniteSet(Sockets) /\ Cardinality(Sockets) = MaxSockets
  BY <1>1, FS_Interval DEF Sockets
<1>3. CallsOf(r) \subseteq Sockets
  BY DEF CallsOf
<1>4. /\ IsFiniteSet(CallsOf(r))
      /\ Cardinality(CallsOf(r)) <= Cardinality(Sockets)
  BY <1>2, <1>3, FS_Subset
<1>5. Cardinality(CallsOf(r)) \in Nat
  BY <1>4, FS_CardinalityType
<1> QED
  BY <1>1, <1>2, <1>4, <1>5

LEMMA CallBegins ==
    ASSUME NEW r, NEW q, NEW s \in Sockets, r[s] = "none", q[s] # "none",
           \A t \in Sockets : t # s => q[t] = r[t]
    PROVE  Cardinality(CallsOf(q)) = Cardinality(CallsOf(r)) + 1
<1>1. CallsOf(q) = CallsOf(r) \cup {s} /\ s \notin CallsOf(r)
  BY DEF CallsOf
<1> QED
  BY <1>1, CallsAreFinite, FS_AddElement

LEMMA CallEnds ==
    ASSUME NEW r, NEW q, NEW s \in Sockets, r[s] # "none", q[s] = "none",
           \A t \in Sockets : t # s => q[t] = r[t]
    PROVE  Cardinality(CallsOf(q)) = Cardinality(CallsOf(r)) - 1
<1>1. CallsOf(q) = CallsOf(r) \ {s} /\ s \in CallsOf(r)
  BY DEF CallsOf
<1> QED
  BY <1>1, CallsAreFinite, FS_RemoveElement

LEMMA GaugeIsCalls ==
    /\ GaugeCountsCalls <=> clients = Cardinality(CallsOf(rpc))
    /\ GaugeCountsCalls' <=> clients' = Cardinality(CallsOf(rpc'))
BY DEF GaugeCountsCalls, CallsOf

-----------------------------------------------------------------------------
LEMMA InitInvariant == Init => IInv
<1> SUFFICES ASSUME Init PROVE IInv
  OBVIOUS
<1>1. CallsOf(rpc) = {}
  BY DEF Init, CallsOf
<1>2. clients = Cardinality(CallsOf(rpc))
  BY <1>1, FS_EmptySet DEF Init
<1>3. MaxSockets \in Nat \ {0} /\ MaxWire \in Nat \ {0} /\ MaxFaults \in Nat
  BY VizAssumption DEF VizAssumption
<1>4. TypeOK
  <2>1. wire = [s \in Sockets |-> <<>>] /\ <<>> \in Seq(Events)
    BY DEF Init
  <2>2. wire \in [Sockets -> Seq(Events)] /\ \A s \in Sockets : Len(wire[s]) = 0
    BY <2>1
  <2>3. /\ handler \in [Sockets -> Handlers] /\ rpc \in [Sockets -> Calls]
        /\ pending \in [Sockets -> BOOLEAN] /\ lost \in [Sockets -> BOOLEAN]
        /\ socket \in [Sockets -> {"closed", "opening", "open"}]
    BY DEF Init, Handlers, Calls
  <2>4. clients \in 0..MaxSockets /\ faults \in 0..MaxFaults
    BY <1>3 DEF Init
  <2>5. \A s \in Sockets : Len(wire[s]) <= MaxWire + 1
    BY <1>3, <2>2
  <2> QED
    BY <2>2, <2>3, <2>4, <2>5 DEF Init, TypeOK, Connectivity
<1>5. BrowserInv
  <2>1. \A s \in Sockets : wire[s] = <<>> /\ Len(wire[s]) = 0
    BY DEF Init
  <2> QED
    BY <1>3, <2>1 DEF Init, BrowserInv, WiresFit, SocketIsCurrent, AcceptUnread
<1>6. CallsInv
  BY <1>2, GaugeIsCalls DEF Init, CallsInv, CallsAreHandled
<1> QED
  BY <1>4, <1>5, <1>6 DEF IInv

\* A step that touches neither the browser nor the gauge and begins and ends no
\* handler and no call.
LEMMA QuietKeeps ==
    ASSUME IInv, TypeOK', UNCHANGED <<clients, page, socket, wire, current, timer>>,
           \A s \in Sockets : /\ handler'[s] = "none" <=> handler[s] = "none"
                              /\ rpc'[s] = "none" <=> rpc[s] = "none"
    PROVE  IInv'
<1>1. BrowserInv'
  BY DEF IInv, BrowserInv, WiresFit, SocketIsCurrent, AcceptUnread, NoClose
<1>2. CallsAreHandled'
  BY DEF IInv, CallsInv, CallsAreHandled
<1>3. CallsOf(rpc') = CallsOf(rpc)
  BY DEF CallsOf
<1>4. GaugeCountsCalls'
  BY <1>3, GaugeIsCalls DEF IInv, CallsInv
<1> QED
  BY <1>1, <1>2, <1>4 DEF IInv, CallsInv

LEMMA ChannelKeeps ==
    ASSUME IInv, Connecting \/ BackoffEnds \/ ChannelLost \/ Watch
    PROVE  IInv'
<1>1. CASE Connecting \/ ChannelLost
  <2>1. \A s \in Sockets : rpc'[s] \in Calls /\ (rpc'[s] = "none" <=> rpc[s] = "none")
    BY <1>1 DEF IInv, TypeOK, Connecting, ChannelLost, Calls
  <2>2. rpc' \in [Sockets -> Calls]
    BY <1>1, <2>1 DEF Connecting, ChannelLost
  <2>3. channel' \in Connectivity /\ linked' \in BOOLEAN /\ changed' \in BOOLEAN
    BY <1>1 DEF IInv, TypeOK, Connecting, ChannelLost, Connectivity
  <2>4. UNCHANGED <<stateUp, vizUp, ready, handler, pending, lost, clients, browser, faults>>
    BY <1>1 DEF Connecting, ChannelLost
  <2>5. TypeOK'
    BY <2>2, <2>3, <2>4 DEF IInv, TypeOK, browser
  <2> QED
    BY <2>1, <2>4, <2>5, QuietKeeps DEF browser
<1>2. CASE BackoffEnds \/ Watch
  <2>1. channel' \in Connectivity /\ ready' \in BOOLEAN /\ changed' \in BOOLEAN
    BY <1>2 DEF IInv, TypeOK, BackoffEnds, Watch, Asked, Connectivity
  <2>2. UNCHANGED <<stateUp, linked, vizUp, server, browser, faults>>
    BY <1>2 DEF BackoffEnds, Watch
  <2>3. TypeOK'
    BY <2>1, <2>2 DEF IInv, TypeOK, server, browser
  <2> QED
    BY <2>2, <2>3, QuietKeeps DEF server, browser
<1> QED
  BY <1>1, <1>2

LEMMA HandlerKeeps ==
    ASSUME IInv, NEW s \in Sockets, ReadState(s) \/ Disconnect(s) \/ Serve(s) \/ Notice(s)
    PROVE  IInv'
<1>1. /\ handler' \in [Sockets -> Handlers]
      /\ \A t \in Sockets : handler'[t] = "none" <=> handler[t] = "none"
  BY DEF IInv, TypeOK, ReadState, Disconnect, Serve, Notice, Handlers
<1>2. pending' \in [Sockets -> BOOLEAN] /\ lost' \in [Sockets -> BOOLEAN]
  BY DEF IInv, TypeOK, ReadState, Disconnect, Serve, Notice
<1>3. UNCHANGED <<upstream, vizUp, watcher, rpc, clients, browser, faults>>
  BY DEF ReadState, Disconnect, Serve, Notice
<1>4. TypeOK'
  BY <1>1, <1>2, <1>3 DEF IInv, TypeOK, upstream, watcher, browser
<1> QED
  BY <1>1, <1>3, <1>4, QuietKeeps DEF browser

LEMMA OutsideKeeps ==
    ASSUME IInv, StateSvcCrashes \/ StateSvcReturns \/ LinkBreaks \/ Restart
    PROVE  IInv'
<1>1. stateUp' \in BOOLEAN /\ linked' \in BOOLEAN /\ vizUp' \in BOOLEAN
  BY DEF IInv, TypeOK, StateSvcCrashes, StateSvcReturns, LinkBreaks, Restart, upstream
<1>2. faults' \in 0..MaxFaults
  BY VizAssumption
     DEF VizAssumption, IInv, TypeOK, StateSvcCrashes, StateSvcReturns, LinkBreaks, Restart, Fault
<1>3. UNCHANGED <<channel, watcher, server, browser>>
  BY DEF StateSvcCrashes, StateSvcReturns, LinkBreaks, Restart, upstream
<1>4. TypeOK'
  BY <1>1, <1>2, <1>3 DEF IInv, TypeOK, watcher, server, browser
<1> QED
  BY <1>3, <1>4, QuietKeeps DEF server, browser

-----------------------------------------------------------------------------
(* The steps of a handler that change what the browser sees, or the gauge    *)

LEMMA AcceptKeeps == ASSUME IInv, NEW s \in Sockets, Accept(s) PROVE IInv'
<1>1. socket[s] = "opening" /\ wire[s] = <<>> /\ handler[s] = "none" /\ rpc[s] = "none"
  BY DEF Accept, IInv, BrowserInv, AcceptUnread, CallsInv, CallsAreHandled
<1>2. /\ handler' \in [Sockets -> Handlers] /\ handler'[s] = "streaming"
      /\ rpc' \in [Sockets -> Calls] /\ rpc'[s] # "none"
      /\ \A t \in Sockets : t # s => rpc'[t] = rpc[t] /\ handler'[t] = handler[t]
  BY DEF Accept, IInv, TypeOK, Handlers, Calls
<1>3. /\ <<"accept">> \in Seq(Events) /\ Len(<<"accept">>) = 1
      /\ <<"accept">> # <<>> /\ <<"accept">>[1] = "accept"
  BY DEF Events
<1>4. /\ wire' \in [Sockets -> Seq(Events)] /\ wire'[s] = <<"accept">>
      /\ \A t \in Sockets : t # s => wire'[t] = wire[t]
  BY <1>3 DEF Accept, IInv, TypeOK
<1>5. MaxWire \in Nat /\ MaxWire >= 1
  BY VizAssumption DEF VizAssumption
<1>6. UNCHANGED <<stateUp, linked, vizUp, ready, pending, lost,
                  page, socket, current, timer, status, faults>>
  BY DEF Accept
<1>7. CallsInv'
  <2>1. CallsAreHandled'
    BY <1>2 DEF IInv, CallsInv, CallsAreHandled
  <2>2. Cardinality(CallsOf(rpc')) = Cardinality(CallsOf(rpc)) + 1
    BY <1>1, <1>2, CallBegins
  <2>3. clients' = Cardinality(CallsOf(rpc'))
    BY <2>2, GaugeIsCalls DEF IInv, CallsInv, Accept
  <2> QED
    BY <2>1, <2>3, GaugeIsCalls DEF CallsInv
<1>8. TypeOK'
  <2>1. channel' \in Connectivity /\ changed' \in BOOLEAN
    BY DEF Accept, IInv, TypeOK, Asked, Connectivity
  <2>2. clients' \in 0..MaxSockets
    BY <1>7, GaugeIsCalls, CallsAreFinite DEF CallsInv
  <2>3. \A t \in Sockets : Len(wire'[t]) <= MaxWire + 1
    <3>1. Len(wire'[s]) <= MaxWire + 1
      BY <1>3, <1>4, <1>5
    <3>2. \A t \in Sockets : Len(wire[t]) <= MaxWire + 1
      BY DEF IInv, TypeOK
    <3> QED
      BY <1>4, <3>1, <3>2
  <2> QED
    BY <1>2, <1>4, <1>6, <2>1, <2>2, <2>3 DEF IInv, TypeOK
<1>9. BrowserInv'
  <2>1. WiresFit'
    BY <1>3, <1>4, <1>5 DEF IInv, BrowserInv, WiresFit
  <2>2. SocketIsCurrent'
    BY <1>1, <1>4, <1>6 DEF IInv, BrowserInv, SocketIsCurrent
  <2>3. AcceptUnread'
    BY <1>2, <1>3, <1>4, <1>6 DEF IInv, BrowserInv, AcceptUnread
  <2> QED
    BY <2>1, <2>2, <2>3 DEF BrowserInv
<1> QED
  BY <1>7, <1>8, <1>9 DEF IInv

\* An event is put on the wire of a socket that is there.
LEMMA WriteKeeps ==
    ASSUME IInv, NEW s \in Sockets, NEW e \in Events, Reaches(s),
           e = "close" \/ Len(wire[s]) < MaxWire,
           wire[s] = <<>> => e = "close" \/ socket[s] = "open" \/ handler[s] = "none",
           wire' = [wire EXCEPT ![s] = Append(@, e)],
           UNCHANGED <<page, socket, current, timer>>,
           \A t \in Sockets : handler[t] = "none" => handler'[t] = "none"
    PROVE  /\ BrowserInv'
           /\ wire' \in [Sockets -> Seq(Events)]
           /\ \A t \in Sockets : Len(wire'[t])  <= MaxWire + 1
<1>1. MaxWire \in Nat
  BY VizAssumption DEF VizAssumption
<1>2. wire[s] \in Seq(Events) /\ NoClose(wire[s]) /\ socket[s] # "closed"
  BY DEF IInv, TypeOK, Reaches, NoClose
<1>3. /\ wire'[s] = Append(wire[s], e) /\ wire' \in [Sockets -> Seq(Events)]
      /\ \A t \in Sockets : t # s => wire'[t] = wire[t]
  BY <1>2, AppendEvent DEF IInv, TypeOK
<1>4. Len(wire'[s]) = Len(wire[s]) + 1 /\ Len(wire[s]) \in Nat /\ Len(wire[s]) <= MaxWire
  BY <1>2, <1>3, AppendEvent DEF IInv, BrowserInv, WiresFit
<1>5. \A t \in Sockets : Len(wire'[t])  <= MaxWire + 1
  BY <1>1, <1>3, <1>4 DEF IInv, TypeOK
<1>6. WiresFit'
  <2>1. NoClose(wire'[s]) => Len(wire'[s]) <= MaxWire
    BY <1>1, <1>2, <1>3, <1>4, AppendEvent
  <2> QED
    BY <1>3, <2>1 DEF IInv, BrowserInv, WiresFit
<1>7. SocketIsCurrent'
  BY <1>2, <1>3 DEF IInv, BrowserInv, SocketIsCurrent
<1>8. AcceptUnread'
  <2>1. wire'[s] # <<>> /\ (wire[s] # <<>> => wire'[s][1] = wire[s][1])
        /\ (wire[s] = <<>> => wire'[s][1] = e)
    BY <1>2, <1>3, AppendEvent
  <2> QED
    BY <1>3, <2>1 DEF IInv, BrowserInv, AcceptUnread
<1> QED
  BY <1>3, <1>5, <1>6, <1>7, <1>8 DEF BrowserInv

LEMMA SendKeeps == ASSUME IInv, NEW s \in Sockets, Send(s) PROVE IInv'
<1>1. handler' \in [Sockets -> Handlers]
      /\ \A t \in Sockets : handler'[t] = "none" <=> handler[t] = "none"
  BY DEF Send, IInv, TypeOK, Handlers
<1>2. UNCHANGED <<upstream, vizUp, watcher, rpc, pending, lost, clients,
                  page, socket, current, timer, status, faults>>
  BY DEF Send
<1>3. CASE UNCHANGED wire
  <2>1. TypeOK'
    BY <1>1, <1>2, <1>3 DEF IInv, TypeOK, upstream, watcher
  <2> QED
    BY <1>1, <1>2, <1>3, <2>1, QuietKeeps
<1>4. CASE Reaches(s) /\ Len(wire[s]) < MaxWire /\ wire' = [wire EXCEPT ![s] = Append(@, "frame")]
  <2>1. "frame" \in Events
    BY DEF Events
  <2>2. wire[s] = <<>> => socket[s] = "open"
    BY <1>4 DEF Send, IInv, TypeOK, BrowserInv, AcceptUnread, Reaches
  <2>3. /\ BrowserInv' /\ wire' \in [Sockets -> Seq(Events)]
        /\ \A t \in Sockets : Len(wire'[t]) <= MaxWire + 1
    BY <1>1, <1>2, <1>4, <2>1, <2>2, WriteKeeps
  <2>4. TypeOK'
    BY <1>1, <1>2, <2>3 DEF IInv, TypeOK, upstream, watcher
  <2>5. CallsInv'
    BY <1>1, <1>2, GaugeIsCalls DEF IInv, CallsInv, CallsAreHandled
  <2> QED
    BY <2>3, <2>4, <2>5 DEF IInv
<1> QED
  BY <1>3, <1>4 DEF Send

LEMMA EndKeeps == ASSUME IInv, NEW s \in Sockets, Finalise(s) \/ RpcFails(s) PROVE IInv'
<1>1. handler[s] # "none" /\ rpc[s] # "none" /\ clients' = clients - 1 /\ Ended(s)
  BY DEF Finalise, RpcFails, IInv, CallsInv, CallsAreHandled
<1>2. /\ handler' \in [Sockets -> Handlers] /\ handler'[s] = "none"
      /\ rpc' \in [Sockets -> Calls] /\ rpc'[s] = "none"
      /\ pending' \in [Sockets -> BOOLEAN] /\ lost' \in [Sockets -> BOOLEAN]
      /\ \A t \in Sockets : t # s => rpc'[t] = rpc[t] /\ handler'[t] = handler[t]
  BY <1>1 DEF Ended, IInv, TypeOK, Handlers, Calls
<1>3. UNCHANGED <<upstream, vizUp, watcher, page, socket, current, timer, status, faults>>
  BY DEF Finalise, RpcFails, browser
<1>4. CallsInv'
  <2>1. CallsAreHandled'
    BY <1>2 DEF IInv, CallsInv, CallsAreHandled
  <2>2. Cardinality(CallsOf(rpc')) = Cardinality(CallsOf(rpc)) - 1
    BY <1>1, <1>2, CallEnds
  <2>3. clients' = Cardinality(CallsOf(rpc'))
    BY <1>1, <2>2, GaugeIsCalls DEF IInv, CallsInv
  <2> QED
    BY <2>1, <2>3, GaugeIsCalls DEF CallsInv
<1>5. /\ BrowserInv' /\ wire' \in [Sockets -> Seq(Events)]
      /\ \A t \in Sockets : Len(wire'[t]) <= MaxWire + 1
  <2>1. CASE UNCHANGED wire
    <3>1. WiresFit' /\ SocketIsCurrent'
      BY <1>3, <2>1 DEF IInv, BrowserInv, WiresFit, NoClose, SocketIsCurrent
    <3>2. AcceptUnread'
      BY <1>2, <1>3, <2>1 DEF IInv, BrowserInv, AcceptUnread
    <3> QED
      BY <2>1, <3>1, <3>2 DEF IInv, TypeOK, BrowserInv
  <2>2. CASE Reaches(s) /\ wire' = [wire EXCEPT ![s] = Append(@, "close")]
    <3>1. "close" \in Events
      BY DEF Events
    <3>2. \A t \in Sockets : handler[t] = "none" => handler'[t] = "none"
      BY <1>2
    <3> QED
      BY <1>3, <2>2, <3>1, <3>2, WriteKeeps
  <2> QED
    BY <2>1, <2>2 DEF Finalise, RpcFails, browser
<1>6. clients' \in 0..MaxSockets
  BY <1>4, GaugeIsCalls, CallsAreFinite DEF CallsInv
<1>7. TypeOK'
  BY <1>2, <1>3, <1>5, <1>6 DEF IInv, TypeOK, upstream, watcher
<1> QED
  BY <1>4, <1>5, <1>7 DEF IInv

-----------------------------------------------------------------------------
(* The steps of the browser, the network and the process                    *)

\* What the gauge counts is not the browser's.
LEMMA BrowserKeepsCalls ==
    ASSUME IInv, UNCHANGED <<handler, rpc, clients>>
    PROVE  CallsInv'
BY GaugeIsCalls DEF IInv, CallsInv, CallsAreHandled

LEMMA DialKeeps == ASSUME IInv, Mount \/ Reconnect PROVE IInv'
<1>1. PICK s \in Sockets : Dials(s)
  BY DEF Mount, Reconnect
<1>2. \A t \in Sockets : socket[t] = "closed"
  BY DEF Mount, Reconnect, IInv, BrowserInv, SocketIsCurrent
<1>3. page' = TRUE /\ timer' = FALSE /\ status' \in {"connecting", "live", "reconnecting"}
  BY DEF Mount, Reconnect, IInv, TypeOK, BrowserInv, SocketIsCurrent
<1>4. UNCHANGED <<upstream, vizUp, watcher, server, wire, faults>>
  BY DEF Mount, Reconnect
<1>5. /\ socket' \in [Sockets -> {"closed", "opening", "open"}] /\ socket'[s] = "opening"
      /\ current' = s /\ handler[s] = "none"
      /\ \A t \in Sockets : t # s => socket'[t] = "closed"
  BY <1>1, <1>2 DEF Dials, IInv, TypeOK
<1>6. TypeOK'
  <2>1. UNCHANGED <<stateUp, linked, channel, ready, changed, handler, rpc, pending, lost, clients>>
    BY <1>4 DEF upstream, watcher, server
  <2> QED
    BY <1>3, <1>4, <1>5, <2>1 DEF IInv, TypeOK
<1>7. \A t \in Sockets : wire[t] = <<>>
  BY <1>2 DEF IInv, BrowserInv, SocketIsCurrent
<1>8. BrowserInv'
  <2>1. WiresFit'
    BY <1>4 DEF IInv, BrowserInv, WiresFit, NoClose
  <2>2. SocketIsCurrent'
    BY <1>3, <1>4, <1>5, <1>7 DEF SocketIsCurrent
  <2>3. AcceptUnread'
    BY <1>4, <1>5 DEF AcceptUnread, server
  <2> QED
    BY <2>1, <2>2, <2>3 DEF BrowserInv
<1>9. CallsInv'
  BY <1>4, BrowserKeepsCalls DEF server
<1> QED
  BY <1>6, <1>8, <1>9 DEF IInv

LEMMA ReadKeeps == ASSUME IInv, NEW s \in Sockets, OnOpen(s) \/ OnMessage(s) PROVE IInv'
<1>1. /\ wire[s] # <<>> /\ wire[s] \in Seq(Events) /\ Head(wire[s]) \in {"accept", "frame"}
      /\ wire' = [wire EXCEPT ![s] = Tail(@)]
  BY DEF OnOpen, OnMessage, IInv, TypeOK
<1>2. /\ wire' \in [Sockets -> Seq(Events)] /\ wire'[s] = Tail(wire[s])
      /\ Len(wire'[s]) = Len(wire[s]) - 1 /\ Len(wire[s]) \in Nat
      /\ \A t \in Sockets : t # s => wire'[t] = wire[t]
  BY <1>1, TailEvent DEF IInv, TypeOK
<1>3. MaxWire \in Nat /\ Len(wire[s]) <= MaxWire + 1
  BY VizAssumption DEF VizAssumption, IInv, TypeOK
<1>4. /\ socket' \in [Sockets -> {"closed", "opening", "open"}]
      /\ status' \in {"connecting", "live", "reconnecting"}
      /\ \A t \in Sockets : t # s => socket'[t] = socket[t]
      /\ (socket'[s] = "closed") <=> (socket[s] = "closed")
      /\ socket[s] # "closed"
      /\ socket'[s] = "opening" => OnMessage(s) /\ socket[s] = "opening"
  BY <1>1 DEF OnOpen, OnMessage, IInv, TypeOK, BrowserInv, SocketIsCurrent
<1>5. UNCHANGED <<upstream, vizUp, watcher, server, page, current, timer, faults>>
  BY DEF OnOpen, OnMessage
<1>6. TypeOK'
  <2>1. \A t \in Sockets : Len(wire'[t]) <= MaxWire + 1
    <3>1. Len(wire'[s]) <= MaxWire + 1
      BY <1>2, <1>3
    <3>2. \A t \in Sockets : Len(wire[t]) <= MaxWire + 1
      BY DEF IInv, TypeOK
    <3> QED
      BY <1>2, <3>1, <3>2
  <2>2. UNCHANGED <<stateUp, linked, channel, ready, changed, handler, rpc, pending, lost, clients>>
    BY <1>5 DEF upstream, watcher, server
  <2> QED
    BY <1>2, <1>4, <1>5, <2>1, <2>2 DEF IInv, TypeOK
<1>7. BrowserInv'
  <2>1. WiresFit'
    <3>1. NoClose(wire'[s]) => Len(wire'[s]) <= MaxWire
      BY <1>2, <1>3
    <3> QED
      BY <1>2, <3>1 DEF IInv, BrowserInv, WiresFit
  <2>2. SocketIsCurrent'
    BY <1>2, <1>4, <1>5 DEF IInv, BrowserInv, SocketIsCurrent
  <2>3. socket'[s] = "opening" => handler[s] = "none"
    BY <1>1, <1>4, TailEvent DEF IInv, BrowserInv, AcceptUnread, OnMessage
  <2>4. AcceptUnread'
    BY <1>2, <1>4, <1>5, <2>3 DEF IInv, BrowserInv, AcceptUnread, server
  <2> QED
    BY <2>1, <2>2, <2>4 DEF BrowserInv
<1>8. CallsInv'
  BY <1>5, BrowserKeepsCalls DEF server
<1> QED
  BY <1>6, <1>7, <1>8 DEF IInv

LEMMA CloseKeeps == ASSUME IInv, NEW s \in Sockets, OnClose(s) PROVE IInv'
<1>1. socket[s] # "closed" /\ page
  BY DEF OnClose, IInv, BrowserInv, SocketIsCurrent
<1>2. <<>> \in Seq(Events) /\ Len(<<>>) = 0
  OBVIOUS
<1>3. /\ wire' \in [Sockets -> Seq(Events)] /\ wire'[s] = <<>>
      /\ \A t \in Sockets : t # s => wire'[t] = wire[t]
      /\ socket' \in [Sockets -> {"closed", "opening", "open"}] /\ socket'[s] = "closed"
      /\ \A t \in Sockets : t # s => socket'[t] = socket[t]
  BY <1>2 DEF OnClose, IInv, TypeOK
<1>4. MaxWire \in Nat
  BY VizAssumption DEF VizAssumption
<1>5. timer' = TRUE /\ status' = "reconnecting"
      /\ UNCHANGED <<upstream, vizUp, watcher, server, page, current, faults>>
  BY DEF OnClose
<1>6. TypeOK'
  <2>1. \A t \in Sockets : Len(wire'[t]) <= MaxWire + 1
    <3>1. Len(wire'[s]) <= MaxWire + 1
      BY <1>2, <1>3, <1>4
    <3>2. \A t \in Sockets : Len(wire[t]) <= MaxWire + 1
      BY DEF IInv, TypeOK
    <3> QED
      BY <1>3, <3>1, <3>2
  <2>2. UNCHANGED <<stateUp, linked, channel, ready, changed, handler, rpc, pending, lost, clients>>
    BY <1>5 DEF upstream, watcher, server
  <2> QED
    BY <1>3, <1>5, <2>1, <2>2 DEF IInv, TypeOK
<1>7. BrowserInv'
  <2>1. WiresFit'
    <3>1. Len(wire'[s]) <= MaxWire
      BY <1>2, <1>3, <1>4
    <3>2. \A t \in Sockets : NoClose(wire[t]) => Len(wire[t]) <= MaxWire
      BY DEF IInv, BrowserInv, WiresFit
    <3> QED
      BY <1>3, <3>1, <3>2 DEF WiresFit
  <2>2. \A t \in Sockets : socket'[t] = "closed"
    BY <1>1, <1>3 DEF IInv, BrowserInv, SocketIsCurrent
  <2>3. SocketIsCurrent'
    BY <1>1, <1>3, <1>5, <2>2 DEF IInv, BrowserInv, SocketIsCurrent
  <2>4. AcceptUnread'
    BY <2>2 DEF AcceptUnread
  <2> QED
    BY <2>1, <2>3, <2>4 DEF BrowserInv
<1>8. CallsInv'
  BY <1>5, BrowserKeepsCalls DEF server
<1> QED
  BY <1>6, <1>7, <1>8 DEF IInv

LEMMA UnmountKeeps == ASSUME IInv, Unmount PROVE IInv'
<1>1. <<>> \in Seq(Events) /\ Len(<<>>) = 0
  OBVIOUS
<1>2. /\ wire' \in [Sockets -> Seq(Events)]
      /\ \A t \in Sockets : wire'[t] = IF t = current THEN <<>> ELSE wire[t]
      /\ socket' \in [Sockets -> {"closed", "opening", "open"}]
      /\ \A t \in Sockets : socket'[t] = IF t = current THEN "closed" ELSE socket[t]
  BY <1>1 DEF Unmount, IInv, TypeOK
<1>3. MaxWire \in Nat /\ MaxFaults \in Nat
  BY VizAssumption DEF VizAssumption
<1>4. page' = FALSE /\ timer' = FALSE /\ faults' \in 0..MaxFaults
      /\ UNCHANGED <<upstream, vizUp, watcher, server, current, status>>
  BY <1>3 DEF Unmount, Fault, IInv, TypeOK
<1>5. TypeOK'
  <2>1. \A t \in Sockets : Len(wire'[t]) <= MaxWire + 1
    <3>1. \A t \in Sockets : Len(wire[t]) <= MaxWire + 1
      BY DEF IInv, TypeOK
    <3> QED
      BY <1>1, <1>2, <1>3, <3>1
  <2>2. UNCHANGED <<stateUp, linked, channel, ready, changed, handler, rpc, pending, lost, clients>>
    BY <1>4 DEF upstream, watcher, server
  <2> QED
    BY <1>2, <1>4, <2>1, <2>2 DEF IInv, TypeOK
<1>6. BrowserInv'
  <2>1. WiresFit'
    BY <1>1, <1>2, <1>3 DEF IInv, BrowserInv, WiresFit
  <2>2. \A t \in Sockets : socket'[t] = "closed" /\ wire'[t] = <<>>
    BY <1>2 DEF IInv, BrowserInv, SocketIsCurrent
  <2>3. SocketIsCurrent' /\ AcceptUnread'
    BY <1>4, <2>2 DEF SocketIsCurrent, AcceptUnread
  <2> QED
    BY <2>1, <2>3 DEF BrowserInv
<1>7. CallsInv'
  BY <1>4, BrowserKeepsCalls DEF server
<1> QED
  BY <1>5, <1>6, <1>7 DEF IInv

LEMMA SocketBreaksKeeps == ASSUME IInv, NEW s \in Sockets, SocketBreaks(s) PROVE IInv'
<1>1. "close" \in Events
  BY DEF Events
<1>2. faults' \in 0..MaxFaults
      /\ UNCHANGED <<upstream, vizUp, watcher, server, page, socket, current, timer, status>>
  BY VizAssumption DEF VizAssumption, SocketBreaks, Fault, IInv, TypeOK
<1>3. \A t \in Sockets : handler[t] = "none" => handler'[t] = "none"
  BY <1>2 DEF server
<1>4. Reaches(s) /\ wire' = [wire EXCEPT ![s] = Append(@, "close")]
  BY DEF SocketBreaks
<1>5. /\ BrowserInv' /\ wire' \in [Sockets -> Seq(Events)]
      /\ \A t \in Sockets : Len(wire'[t]) <= MaxWire + 1
  BY <1>1, <1>2, <1>3, <1>4, WriteKeeps
<1>6. TypeOK'
  <2>1. UNCHANGED <<stateUp, linked, channel, ready, changed, handler, rpc, pending, lost, clients>>
    BY <1>2 DEF upstream, watcher, server
  <2> QED
    BY <1>2, <1>5, <2>1 DEF IInv, TypeOK
<1>7. CallsInv'
  BY <1>2, BrowserKeepsCalls DEF server
<1> QED
  BY <1>5, <1>6, <1>7 DEF IInv

LEMMA CrashKeeps == ASSUME IInv, Crash PROVE IInv'
<1>1. "close" \in Events
  BY DEF Events
<1>2. MaxWire \in Nat /\ MaxFaults \in Nat
  BY VizAssumption DEF VizAssumption
<1>3. /\ handler' = [s \in Sockets |-> "none"] /\ rpc' = [s \in Sockets |-> "none"]
      /\ pending' = [s \in Sockets |-> FALSE] /\ lost' = [s \in Sockets |-> FALSE]
      /\ clients' = 0 /\ linked' = FALSE /\ channel' = "idle" /\ vizUp' = FALSE
      /\ ready' = FALSE /\ changed' = TRUE
      /\ UNCHANGED <<stateUp, page, socket, current, timer, status>>
      /\ wire' = [s \in Sockets |-> IF Reaches(s) THEN Append(wire[s], "close") ELSE wire[s]]
  BY DEF Crash
<1>4. faults' \in 0..MaxFaults
  BY <1>2 DEF Crash, Fault, IInv, TypeOK
<1>5. ASSUME NEW s \in Sockets
      PROVE  /\ wire'[s] \in Seq(Events) /\ Len(wire'[s]) <= MaxWire + 1
             /\ NoClose(wire'[s]) => Len(wire'[s]) <= MaxWire
             /\ wire'[s] # <<>> => socket[s] # "closed"
  <2>1. wire[s] \in Seq(Events) /\ Len(wire[s]) <= MaxWire + 1
        /\ (NoClose(wire[s]) => Len(wire[s]) <= MaxWire)
        /\ (wire[s] # <<>> => socket[s] # "closed")
    BY DEF IInv, TypeOK, BrowserInv, WiresFit, SocketIsCurrent
  <2>2. CASE Reaches(s)
    <3>1. wire'[s] = Append(wire[s], "close")
      BY <1>3, <2>2
    <3>2. NoClose(wire[s]) /\ socket[s] # "closed"
      BY <2>2 DEF Reaches, NoClose
    <3>3. /\ wire'[s] \in Seq(Events) /\ Len(wire'[s]) = Len(wire[s]) + 1
          /\ Len(wire[s]) \in Nat /\ ~NoClose(wire'[s])
      BY <1>1, <2>1, <3>1, AppendEvent
    <3> QED
      BY <1>2, <2>1, <3>2, <3>3
  <2>3. CASE ~Reaches(s)
    <3>1. wire'[s] = wire[s]
      BY <1>3, <2>3
    <3> QED
      BY <2>1, <3>1
  <2> QED
    BY <2>2, <2>3
<1>6. TypeOK'
  <2>1. wire' \in [Sockets -> Seq(Events)]
    BY <1>3, <1>5
  <2>2. clients' \in 0..MaxSockets
    BY <1>3, VizAssumption DEF VizAssumption
  <2>3. /\ handler' \in [Sockets -> Handlers] /\ rpc' \in [Sockets -> Calls]
        /\ pending' \in [Sockets -> BOOLEAN] /\ lost' \in [Sockets -> BOOLEAN]
    BY <1>3 DEF Handlers, Calls
  <2> QED
    BY <1>3, <1>4, <1>5, <2>1, <2>2, <2>3 DEF IInv, TypeOK, Connectivity
<1>7. BrowserInv'
  <2>1. WiresFit'
    BY <1>5 DEF WiresFit
  <2>2. SocketIsCurrent'
    BY <1>3, <1>5 DEF IInv, BrowserInv, SocketIsCurrent
  <2>3. AcceptUnread'
    BY <1>3 DEF AcceptUnread
  <2> QED
    BY <2>1, <2>2, <2>3 DEF BrowserInv
<1>8. CallsInv'
  <2>1. CallsOf(rpc') = {}
    BY <1>3 DEF CallsOf
  <2>2. clients' = Cardinality(CallsOf(rpc'))
    BY <1>3, <2>1, FS_EmptySet
  <2> QED
    BY <1>3, <2>2, GaugeIsCalls DEF CallsInv, CallsAreHandled
<1> QED
  BY <1>6, <1>7, <1>8 DEF IInv

-----------------------------------------------------------------------------
LEMMA StepKeeps == ASSUME IInv, [Next]_vars PROVE IInv'
<1>1. CASE Connecting \/ BackoffEnds \/ ChannelLost \/ Watch
  BY <1>1, ChannelKeeps
<1>2. ASSUME NEW s \in Sockets, ReadState(s) \/ Disconnect(s) \/ Serve(s) \/ Notice(s)
      PROVE  IInv'
  BY <1>2, HandlerKeeps
<1>3. ASSUME NEW s \in Sockets, Accept(s) PROVE IInv'
  BY <1>3, AcceptKeeps
<1>4. ASSUME NEW s \in Sockets, Send(s) PROVE IInv'
  BY <1>4, SendKeeps
<1>5. ASSUME NEW s \in Sockets, Finalise(s) \/ RpcFails(s) PROVE IInv'
  BY <1>5, EndKeeps
<1>6. ASSUME NEW s \in Sockets, OnOpen(s) \/ OnMessage(s) PROVE IInv'
  BY <1>6, ReadKeeps
<1>7. ASSUME NEW s \in Sockets, OnClose(s) PROVE IInv'
  BY <1>7, CloseKeeps
<1>8. ASSUME NEW s \in Sockets, SocketBreaks(s) PROVE IInv'
  BY <1>8, SocketBreaksKeeps
<1>9. CASE Mount \/ Reconnect
  BY <1>9, DialKeeps
<1>10. CASE Unmount
  BY <1>10, UnmountKeeps
<1>11. CASE StateSvcCrashes \/ StateSvcReturns \/ LinkBreaks \/ Restart
  BY <1>11, OutsideKeeps
<1>12. CASE Crash
  BY <1>12, CrashKeeps
<1>13. CASE UNCHANGED vars
  <2>1. TypeOK'
    BY <1>13 DEF IInv, TypeOK, vars, upstream, watcher, server, browser
  <2> QED
    BY <1>13, <2>1, QuietKeeps DEF vars, server, browser
<1> QED
  BY <1>1, <1>2, <1>3, <1>4, <1>5, <1>6, <1>7, <1>8, <1>9, <1>10, <1>11, <1>12, <1>13 DEF Next

LEMMA Invariance == Spec => []IInv
<1>1. IInv /\ [Next]_vars => IInv'
  BY StepKeeps
<1> QED
  BY InitInvariant, <1>1, PTL DEF Spec

\* Type correctness: what is under way to the browser included, which the close
\* event may exceed by one (stream.py, app.py, useTwinState.ts).
THEOREM TypeCorrect == Spec => []TypeOK
<1>1. IInv => TypeOK
  BY DEF IInv
<1> QED
  BY Invariance, <1>1, PTL

\* The gauge twin_viz_clients counts the calls there are, whatever ends them
\* (stream.py:95-101).
THEOREM GaugeCounts == Spec => []GaugeCountsCalls
<1>1. IInv => GaugeCountsCalls
  BY DEF IInv, CallsInv
<1> QED
  BY Invariance, <1>1, PTL

-----------------------------------------------------------------------------
(* The hook: a socket or a timer, and its pill.                              *)

HookInv ==
    /\ page <=> timer \/ \E s \in Sockets : socket[s] # "closed"
    /\ page => (status = "live" <=> \E s \in Sockets : socket[s] = "open")

LEMMA HookStutters ==
    ASSUME HookInv, UNCHANGED <<page, socket, timer, status>>
    PROVE  HookInv'
BY DEF HookInv

LEMMA HookDials == ASSUME IInv, HookInv, Mount \/ Reconnect PROVE HookInv'
<1>1. PICK s \in Sockets : Dials(s)
  BY DEF Mount, Reconnect
<1>2. \A t \in Sockets : socket[t] = "closed"
  BY DEF Mount, Reconnect, IInv, BrowserInv, SocketIsCurrent
<1>3. socket'[s] = "opening" /\ \A t \in Sockets : t # s => socket'[t] = "closed"
  BY <1>1, <1>2 DEF Dials, IInv, TypeOK
<1>4. page' = TRUE
  BY DEF Mount, Reconnect, IInv, BrowserInv, SocketIsCurrent
<1>5. status' # "live"
  BY <1>2 DEF Mount, Reconnect, HookInv, IInv, BrowserInv, SocketIsCurrent
<1> QED
  BY <1>3, <1>4, <1>5 DEF HookInv

LEMMA HookHears ==
    ASSUME IInv, HookInv, NEW s \in Sockets, OnOpen(s) \/ OnClose(s)
    PROVE  HookInv'
<1>1. socket[s] # "closed" /\ page /\ \A t \in Sockets : t # s => socket[t] = "closed"
  BY DEF OnOpen, OnClose, IInv, BrowserInv, SocketIsCurrent
<1>2. \A t \in Sockets : t # s => socket'[t] = "closed"
  BY <1>1 DEF OnOpen, OnClose, IInv, TypeOK
<1>3. CASE OnOpen(s)
  <2>1. socket'[s] = "open" /\ status' = "live" /\ page' = page
    BY <1>3 DEF OnOpen, IInv, TypeOK
  <2> QED
    BY <1>1, <2>1 DEF HookInv
<1>4. CASE OnClose(s)
  <2>1. socket'[s] = "closed" /\ status' = "reconnecting" /\ timer' = TRUE /\ page' = page
    BY <1>4 DEF OnClose, IInv, TypeOK
  <2>2. \A t \in Sockets : socket'[t] = "closed"
    BY <1>2, <2>1
  <2> QED
    BY <1>1, <2>1, <2>2 DEF HookInv
<1> QED
  BY <1>3, <1>4

LEMMA HookGoes == ASSUME IInv, HookInv, Unmount PROVE HookInv'
<1>1. \A t \in Sockets : socket'[t] = "closed"
  BY DEF Unmount, IInv, TypeOK, BrowserInv, SocketIsCurrent
<1> QED
  BY <1>1 DEF Unmount, HookInv

LEMMA HookKeeps == ASSUME IInv, HookInv, [Next]_vars PROVE HookInv'
<1>1. CASE Mount \/ Reconnect
  BY <1>1, HookDials
<1>2. ASSUME NEW s \in Sockets, OnOpen(s) \/ OnClose(s) PROVE HookInv'
  BY <1>2, HookHears
<1>3. CASE Unmount
  BY <1>3, HookGoes
<1>4. ASSUME NEW s \in Sockets,
             \/ Accept(s) \/ ReadState(s) \/ Send(s) \/ Disconnect(s) \/ Finalise(s) \/ RpcFails(s)
             \/ OnMessage(s) \/ Serve(s) \/ Notice(s) \/ SocketBreaks(s)
      PROVE  HookInv'
  <2>1. UNCHANGED <<page, socket, timer, status>>
    BY <1>4 DEF Accept, ReadState, Send, Disconnect, Finalise, RpcFails, OnMessage, Serve,
                Notice, SocketBreaks, browser
  <2> QED
    BY <2>1, HookStutters
<1>5. CASE \/ Connecting \/ BackoffEnds \/ ChannelLost \/ Watch \/ UNCHANGED vars
           \/ StateSvcCrashes \/ StateSvcReturns \/ LinkBreaks \/ Crash \/ Restart
  <2>1. UNCHANGED <<page, socket, timer, status>>
    BY <1>5 DEF Connecting, BackoffEnds, ChannelLost, Watch, vars, StateSvcCrashes,
                StateSvcReturns, LinkBreaks, Crash, Restart, browser
  <2> QED
    BY <2>1, HookStutters
<1> QED
  BY <1>1, <1>2, <1>3, <1>4, <1>5 DEF Next

\* A mounted hook has exactly one of a socket and a timer, an unmounted one neither,
\* and the pill says "live" exactly while the socket is open (useTwinState.ts:31-61):
\* no order of failures, remounts and late events leaves a viewer without a next try.
THEOREM KeepsOneSocket == Spec => []OneSocket
<1>1. Init => HookInv
  BY DEF Init, HookInv
<1>2. IInv /\ HookInv /\ [Next]_vars => HookInv'
  BY HookKeeps
<1>3. IInv /\ HookInv => OneSocket
  BY DEF IInv, BrowserInv, SocketIsCurrent, HookInv, OneSocket
<1> QED
  BY <1>1, <1>2, <1>3, Invariance, PTL DEF Spec

-----------------------------------------------------------------------------
(* The channel, its watcher and its calls.                                  *)

\* A step that leaves the channel and the watcher alone and begins no call.
LEMMA ChannelRests ==
    ASSUME ChannelIsFollowed, UNCHANGED <<channel, ready, changed>>,
           \A s \in Sockets : rpc'[s] \in {rpc[s], "none"}
    PROVE  ChannelIsFollowed'
BY DEF ChannelIsFollowed

LEMMA ChannelMoves ==
    ASSUME TypeOK, ChannelIsFollowed, Connecting \/ BackoffEnds \/ ChannelLost \/ Watch \/ Crash
    PROVE  ChannelIsFollowed'
<1>1. CASE Connecting
  <2>1. \A s \in Sockets : /\ rpc'[s] # "waiting"
                           /\ rpc'[s] = "flowing" => channel' = "ready"
    BY <1>1 DEF Connecting, ChannelIsFollowed
  <2> QED
    BY <1>1, <2>1 DEF Connecting, ChannelIsFollowed
<1>2. CASE BackoffEnds
  BY <1>2 DEF BackoffEnds, ChannelIsFollowed, server
<1>3. CASE ChannelLost
  <2>1. \A s \in Sockets : rpc'[s] # "waiting" /\ rpc'[s] # "flowing"
    BY <1>3 DEF ChannelLost, ChannelIsFollowed
  <2> QED
    BY <1>3, <2>1 DEF ChannelLost, ChannelIsFollowed
<1>4. CASE Watch
  BY <1>4 DEF Watch, Asked, ChannelIsFollowed, server
<1>5. CASE Crash
  BY <1>5 DEF Crash, ChannelIsFollowed
<1> QED
  BY <1>1, <1>2, <1>3, <1>4, <1>5

LEMMA CallJoinsChannel ==
    ASSUME TypeOK, ChannelIsFollowed, NEW s \in Sockets, Accept(s)
    PROVE  ChannelIsFollowed'
<1>1. /\ channel' = Asked(channel) /\ ready' = ready
      /\ changed' = (changed \/ channel = "idle")
  BY DEF Accept
<1>2. \A t \in Sockets : t # s => rpc'[t] = rpc[t]
  BY DEF Accept, TypeOK
<1>3. /\ rpc'[s] = "flowing" => channel = "ready"
      /\ rpc'[s] = "waiting" => channel \in {"idle", "connecting"}
  BY DEF Accept, TypeOK, Connectivity
<1> QED
  BY <1>1, <1>2, <1>3 DEF Asked, ChannelIsFollowed

LEMMA FollowedKeeps == ASSUME TypeOK, ChannelIsFollowed, [Next]_vars PROVE ChannelIsFollowed'
<1>1. CASE Connecting \/ BackoffEnds \/ ChannelLost \/ Watch \/ Crash
  BY <1>1, ChannelMoves
<1>2. ASSUME NEW s \in Sockets, Accept(s) PROVE ChannelIsFollowed'
  BY <1>2, CallJoinsChannel
<1>3. ASSUME NEW s \in Sockets,
             \/ ReadState(s) \/ Send(s) \/ Disconnect(s) \/ OnOpen(s) \/ OnMessage(s) \/ OnClose(s)
             \/ Serve(s) \/ Notice(s) \/ SocketBreaks(s)
      PROVE  ChannelIsFollowed'
  <2>1. UNCHANGED <<channel, ready, changed, rpc>>
    BY <1>3 DEF ReadState, Send, Disconnect, OnOpen, OnMessage, OnClose, Serve, Notice,
                SocketBreaks, upstream, watcher, server
  <2> QED
    BY <2>1, ChannelRests
<1>4. ASSUME NEW s \in Sockets, Finalise(s) \/ RpcFails(s) PROVE ChannelIsFollowed'
  <2>1. UNCHANGED <<channel, ready, changed>>
    BY <1>4 DEF Finalise, RpcFails, upstream, watcher
  <2>2. \A t \in Sockets : rpc'[t] \in {rpc[t], "none"}
    BY <1>4 DEF Finalise, RpcFails, Ended, TypeOK
  <2> QED
    BY <2>1, <2>2, ChannelRests
<1>5. CASE \/ Mount \/ Reconnect \/ Unmount \/ StateSvcCrashes \/ StateSvcReturns
           \/ LinkBreaks \/ Restart \/ UNCHANGED vars
  <2>1. UNCHANGED <<channel, ready, changed, rpc>>
    BY <1>5 DEF Mount, Reconnect, Unmount, StateSvcCrashes, StateSvcReturns, LinkBreaks,
                Restart, vars, upstream, watcher, server
  <2> QED
    BY <2>1, ChannelRests
<1> QED
  BY <1>1, <1>2, <1>3, <1>4, <1>5 DEF Next

\* Readiness is what the channel is, unless run() is about to look at it again, and no
\* call waits on a channel that does not try or outlives its connection: a change that
\* falls between two looks at the channel is never missed (stream.py:83-86, 95-101).
THEOREM FollowsChannel == Spec => []ChannelIsFollowed
<1>1. Init => ChannelIsFollowed
  BY DEF Init, ChannelIsFollowed
<1>2. TypeOK /\ ChannelIsFollowed /\ [Next]_vars => ChannelIsFollowed'
  BY FollowedKeeps
<1> QED
  BY <1>1, <1>2, TypeCorrect, PTL DEF Spec
=============================================================================
