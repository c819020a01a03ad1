------------------------------ MODULE StateHub ------------------------------
(***************************************************************************)
(* The fan-out of state-svc (grpc_server.py): StateHub.publish, the         *)
(* mailbox of size one that StateHub.subscribe gives each stream, and the   *)
(* StreamState handlers that empty those mailboxes.                         *)
(*                                                                          *)
(* Everything runs on one asyncio loop, so an action is the code between    *)
(* two suspension points: publish() has none; a handler suspends in         *)
(* queue.get() (pc "waiting") and at the yield, while gRPC writes the       *)
(* message (pc "sending").  A TwinState is its publication number.          *)
(***************************************************************************)
EXTENDS Integers, Sequences

CONSTANTS
    Streams,       \* StreamState calls that may be open
    MinInterval,   \* MinInterval[s]: 1 / max_rate_hz in clock ticks, 0 when uncapped
    MaxStates      \* bound: publications explored

ASSUME StateHubAssumption ==
    /\ MinInterval \in [Streams -> Nat]
    /\ MaxStates \in Nat

VARIABLES
    latest,        \* number of the state in StateHub._latest, 0 for None
    subscribers,   \* StateHub._subscribers: the streams whose queue is registered
    mailbox,       \* mailbox[s]: the asyncio.Queue(maxsize=1) of stream s
    pc,            \* pc[s]: where the handler of stream s is suspended
    reached,       \* reached[s]: the state last yielded, or the latest one at subscription
    since          \* since[s]: ticks since last_sent, saturating at MinInterval[s]

hubVars == <<latest, subscribers, mailbox, pc, reached, since>>

PCs == {"closed", "waiting", "sending", "abandoned"}

HubInit ==
    /\ latest = 0
    /\ subscribers = {}
    /\ mailbox = [s \in Streams |-> <<>>]
    /\ pc = [s \in Streams |-> "closed"]
    /\ reached = [s \in Streams |-> 0]
    /\ since = [s \in Streams |-> MinInterval[s]]

-----------------------------------------------------------------------------
\* Mutants of Deposit: a full queue refuses the new state; a LIFO without a size.
DepositKeepsOld(queue, state) == IF queue = <<>> THEN <<state>> ELSE queue
DepositStacks(queue, state) == <<state>> \o queue

\* A full queue loses its stale state to make room for the new one.
Deposit(queue, state) == Append(IF queue = <<>> THEN queue ELSE Tail(queue), state)

Publish ==
    /\ latest < MaxStates
    /\ latest' = latest + 1
    /\ mailbox' = [s \in Streams |->
          IF s \in subscribers THEN Deposit(mailbox[s], latest + 1) ELSE mailbox[s]]
    /\ UNCHANGED <<subscribers, pc, reached, since>>

\* StreamState up to its first queue.get(): a fresh queue, last_sent = -inf.  A
\* request for another asset is refused before it gets here and touches nothing.
Open(s) ==
    /\ pc[s] = "closed"
    /\ subscribers' = subscribers \cup {s}
    /\ mailbox' = [mailbox EXCEPT ![s] = <<>>]
    /\ pc' = [pc EXCEPT ![s] = "waiting"]
    /\ reached' = [reached EXCEPT ![s] = latest]
    /\ since' = [since EXCEPT ![s] = MinInterval[s]]
    /\ UNCHANGED latest

\* queue.get() resumes with the state that is in the mailbox by then.
Get(s) ==
    /\ pc[s] = "waiting"
    /\ mailbox[s] # <<>>
    /\ mailbox' = [mailbox EXCEPT ![s] = Tail(@)]

\* Mutant: `<=' for `<', which makes an uncapped stream skip too.
SkipAtBoundary(s) ==
    /\ Get(s)
    /\ since[s] <= MinInterval[s]
    /\ UNCHANGED <<latest, subscribers, pc, reached, since>>

Skip(s) ==
    /\ Get(s)
    /\ since[s] < MinInterval[s]
    /\ UNCHANGED <<latest, subscribers, pc, reached, since>>

Yield(s) ==
    /\ Get(s)
    /\ since[s] >= MinInterval[s]
    /\ pc' = [pc EXCEPT ![s] = "sending"]
    /\ reached' = [reached EXCEPT ![s] = Head(mailbox[s])]
    /\ since' = [since EXCEPT ![s] = 0]
    /\ UNCHANGED <<latest, subscribers>>

\* gRPC's flow control let the message out and asks for the next one.
Written(s) ==
    /\ pc[s] = "sending"
    /\ pc' = [pc EXCEPT ![s] = "waiting"]
    /\ UNCHANGED <<latest, subscribers, mailbox, reached, since>>

\* The client goes away while the handler waits: the cancellation is raised in
\* queue.get() and the finally of subscribe() runs at once.
Cancel(s) ==
    /\ pc[s] = "waiting"
    /\ pc' = [pc EXCEPT ![s] = "closed"]
    /\ subscribers' = subscribers \ {s}
    /\ UNCHANGED <<latest, mailbox, reached, since>>

\* The client goes away during a write: the cancellation hits gRPC's write, the
\* generator stays suspended at its yield and its queue stays registered...
Abandon(s) ==
    /\ pc[s] = "sending"
    /\ pc' = [pc EXCEPT ![s] = "abandoned"]
    /\ UNCHANGED <<latest, subscribers, mailbox, reached, since>>

\* Mutant: subscribe() without its finally.
FinaliseLeaks(s) ==
    /\ pc[s] = "abandoned"
    /\ pc' = [pc EXCEPT ![s] = "closed"]
    /\ UNCHANGED <<latest, subscribers, mailbox, reached, since>>

\* ... until the event loop closes the collected generator.
Finalise(s) ==
    /\ pc[s] = "abandoned"
    /\ pc' = [pc EXCEPT ![s] = "closed"]
    /\ subscribers' = subscribers \ {s}
    /\ UNCHANGED <<latest, mailbox, reached, since>>

\* time.monotonic() moves on.
Tick ==
    /\ \E s \in Streams : since[s] < MinInterval[s]
    /\ since' = [s \in Streams |->
          IF since[s] < MinInterval[s] THEN since[s] + 1 ELSE since[s]]
    /\ UNCHANGED <<latest, subscribers, mailbox, pc, reached>>

\* The process ends, every call breaks with it, and it comes back with an empty hub.
HubRestart ==
    /\ latest' = 0
    /\ subscribers' = {}
    /\ mailbox' = [s \in Streams |-> <<>>]
    /\ pc' = [s \in Streams |-> "closed"]
    /\ reached' = [s \in Streams |-> 0]
    /\ since' = [s \in Streams |-> MinInterval[s]]

Handle(s) ==
    \/ Open(s) \/ Skip(s) \/ Yield(s) \/ Written(s)
    \/ Cancel(s) \/ Abandon(s) \/ Finalise(s)

HubNext == Publish \/ Tick \/ HubRestart \/ \E s \in Streams : Handle(s)

HubSpec == HubInit /\ [][HubNext]_hubVars

\* The loop runs a ready handler, a collected generator is closed, time passes,
\* and a client that stays connected keeps reading what is written to it.
HubFairness ==
    /\ WF_hubVars(Tick)
    /\ \A s \in Streams :
          /\ WF_hubVars(Skip(s) \/ Yield(s))
          /\ WF_hubVars(Written(s) \/ Abandon(s))
          /\ WF_hubVars(Finalise(s))

-----------------------------------------------------------------------------
HubTypeOK ==
    /\ latest \in 0..MaxStates
    /\ subscribers \subseteq Streams
    /\ mailbox \in [Streams -> Seq(1..MaxStates)]
    /\ pc \in [Streams -> PCs]
    /\ reached \in [Streams -> 0..MaxStates]
    /\ since \in [Streams -> Nat]

\* No queue outlives its handler and no handler waits on a queue that publish()
\* does not feed (subscribe's add and its discard in finally).
Registered == subscribers = {s \in Streams : pc[s] # "closed"}

\* Latest wins: what waits in a registered mailbox is the newest state there is,
\* alone, and the stream has not been past it (the eviction in publish()).
MailboxIsNewest ==
    \A s \in subscribers : mailbox[s] # <<>> =>
        mailbox[s] = <<latest>> /\ reached[s] < latest

\* No lost wake-up: an uncapped handler that has nothing left to read has
\* yielded every state it is going to be asked for, the newest included.
EmptyMeansCurrent ==
    \A s \in subscribers :
        MinInterval[s] = 0 /\ mailbox[s] = <<>> => reached[s] = latest

\* Both together: a subscriber has read the newest state or has it in its mailbox.
MailboxIsCurrent == MailboxIsNewest /\ EmptyMeansCurrent

\* The hub implements the promise: per stream, newer and newer states only.
Stream == INSTANCE LatestWins
Promise == Stream!Spec
=============================================================================
