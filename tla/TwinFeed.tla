------------------------------ MODULE TwinFeed ------------------------------
(***************************************************************************)
(* state-svc as one process (main.py): the Consumer of StateSvc publishes   *)
(* what it builds to the StateHub whose streams StateHub follows.  They     *)
(* share the call of StateHub.publish and the end of the process, and are   *)
(* otherwise tasks of one event loop that interleave.  StateHub numbers the *)
(* TwinStates; here each number gets its state back.                        *)
(***************************************************************************)
EXTENDS StateSvc, StateHub

VARIABLE states     \* history: the TwinStates this process published, in their order

feedVars == <<vars, hubVars, states>>

FeedInit == Init /\ HubInit /\ states = <<>>

\* A turn of _broadcast_forever: the window's state, once it has one, goes to the
\* hub and into every registered mailbox before anything else runs.
PublishState ==
    /\ Broadcast
    /\ IF Complete(window)
       THEN Publish /\ states' = Append(states, hub')
       ELSE UNCHANGED <<hubVars, states>>

\* The TaskGroup of main() ends all its tasks together, the gRPC server with them.
ProcessRestart == Restart /\ HubRestart /\ states' = <<>>

\* The other steps of the consumer, the broker and the bridge.
ConsumerStep ==
    /\ Consume \/ Deliver \/ Lose \/ Environment
    /\ UNCHANGED <<hubVars, states>>

\* The other steps of the hub: its streams and the clock they read.
StreamStep ==
    /\ Tick \/ \E s \in Streams : Handle(s)
    /\ UNCHANGED <<vars, states>>

FeedNext == PublishState \/ ProcessRestart \/ ConsumerStep \/ StreamStep

FeedSpec == FeedInit /\ [][FeedNext]_feedVars

\* On top of the hub's fairness, the broadcast clock goes on.
LiveFeedSpec == FeedSpec /\ HubFairness /\ WF_feedVars(PublishState)

-----------------------------------------------------------------------------
\* The state stream s has come to: the one it yielded last, or the one GetState
\* answered when it subscribed.
At(s) == IF reached[s] = 0 THEN NoState ELSE states[reached[s]]

\* From the sample to the viewer: when nothing is left to broadcast and nothing
\* waits in the mailbox of an uncapped stream, the stream has come to the very
\* state of the window (the _dirty hand-over, publish() and the mailbox together).
NothingOwedToViewers ==
    ~dirty /\ Complete(window) =>
        \A s \in subscribers :
            MinInterval[s] = 0 /\ mailbox[s] = <<>> => At(s) = BuildState(window)

\* While a call is open, its stream only goes forward: the stamp of what it yields
\* never gets older, and until the simulation's clock went back no value in it does
\* by more JointStates than the bridge published out of their turn, however long the
\* client was away and whatever it skipped.
ViewersAdvance ==
    [][\A s \in Streams :
          pc[s] # "closed" /\ pc'[s] # "closed" =>
             /\ At(s)'.stamp >= At(s).stamp
             /\ faults.rewinds = 0 =>
                   \A c \in Channels :
                       At(s)'.values[c] >= At(s).values[c] - faults.overtakings]_feedVars

Reading(s) == pc[s] \in {"waiting", "sending"}

\* A measurement in a complete window reaches every uncapped client that keeps
\* reading: it or a newer one is yielded, through any number of reconnections of
\* the consumer, unless the client or the process goes.
MeasurementsArrive ==
    \A s \in {r \in Streams : MinInterval[r] = 0} : \A t \in 1..MaxStamp :
        (Complete(window) /\ window.stamp >= t /\ Reading(s))
            ~> (~Reading(s) \/ At(s).stamp >= t)
=============================================================================
