----------------------------- MODULE CommandPath -----------------------------
(***************************************************************************)
(* A command from its POST to the arm: the body and its validation          *)
(* (contracts), command-svc, whose part is played by CommandPromise, the    *)
(* broker, and the bridge's command_worker with publish_command.            *)
(*                                                                          *)
(* CommandSvc implements CommandPromise, so what holds here of the path     *)
(* holds with the publisher that the repository has.                        *)
(***************************************************************************)
EXTENDS Integers, Sequences

CONSTANTS
    Joints,         \* UR5_JOINT_NAMES
    Names,          \* the keys positions may have: the model takes any
    Bodies,         \* the bodies that are posted
    MaxPosts,       \* bound: commands posted
    MaxBreaks       \* bound: crashes of the broker and broken connections

\* A position is an angle, not finite, or the null that JSON has for it.
Values == {"zero", "angle", "infinite", "null"}
Positions == UNION {[J -> Values] : J \in SUBSET Names}

\* positions left out is the empty function: the code asks for its truth only.
AllBodies == [kind : {"home", "move_joints"}, positions : Positions]

ASSUME CommandPathAssumption ==
    /\ MaxPosts \in Nat /\ MaxBreaks \in Nat
    /\ Joints \subseteq Names
    /\ Bodies \subseteq {b \in AllBodies : \A j \in DOMAIN b.positions : b.positions[j] # "null"}

VARIABLES
    posts,          \* the bodies posted, in that order: command r is posts[r]
    answer,         \* of CommandPromise
    published,      \* of CommandPromise
    order,          \* history: the commands as the broker read them
    brokerUp,       \* Mosquitto accepts connections
    worker,         \* where command_worker is
    link,           \* its connection
    channel,        \* the commands on their way to it and in client.messages
    moves,          \* the trajectories that publish_command published
    breaks          \* how often the broker crashed or the connection broke

front == <<posts, answer, published, order>>
bridge == <<worker, link, channel, moves>>
vars == <<front, brokerUp, bridge, breaks>>

Commands == 1..MaxPosts
Promise == INSTANCE CommandPromise

Workers == {"connecting", "subscribing", "listening", "sleeping"}
Links == {"none", "open", "dead", "closed"}

Init ==
    /\ posts = <<>> /\ order = <<>>
    /\ Promise!Init
    /\ brokerUp \in BOOLEAN
    /\ worker = "connecting" /\ link = "none" /\ channel = <<>>
    /\ moves = <<>>
    /\ breaks = 0

-----------------------------------------------------------------------------
(* The contract                                                             *)

\* JointCommand: every position is a float, and positions go with move_joints only.
Valid(body) ==
    /\ \A j \in DOMAIN body.positions : body.positions[j] # "null"
    /\ body.kind = "move_joints" => DOMAIN body.positions # {}
    /\ body.kind = "home" => DOMAIN body.positions = {}

\* Mutant: ser_json_inf_nan = "constants".
SerialisedVerbatim(body) == body

\* model_dump_json writes null for a float that is not finite.
Serialised(body) ==
    [body EXCEPT !.positions =
        [j \in DOMAIN body.positions |->
            IF body.positions[j] = "infinite" THEN "null" ELSE body.positions[j]]]

\* The point of the trajectory, by joint.
Target(command) ==
    IF command.kind = "home" THEN [j \in Joints |-> "zero"] ELSE command.positions

-----------------------------------------------------------------------------
(* POST /command                                                            *)

Pending(r) == r \in 1..Len(posts) /\ answer[r] = "none"

\* FastAPI validates the body: 422 or into the handler.
Post(body) ==
    /\ Len(posts) < MaxPosts
    /\ posts' = Append(posts, body)
    /\ IF Valid(body) THEN UNCHANGED <<answer, published>>
       ELSE Promise!Answer(Len(posts) + 1, "refused")
    /\ UNCHANGED <<order, brokerUp, bridge, breaks>>

\* The broker reads command r, whatever its POST was told, and passes it to the
\* subscription of the bridge if there is one: nothing is retained, and the session
\* of the bridge is a clean one.
Publish(r) ==
    /\ brokerUp /\ r \in 1..Len(posts) /\ Valid(posts[r])
    /\ Promise!Publish(r)
    /\ order' = Append(order, r)
    /\ channel' = IF worker = "listening" /\ link = "open" THEN Append(channel, r) ELSE channel
    /\ UNCHANGED <<posts, brokerUp, worker, link, moves, breaks>>

\* 202 or 503.
Reply(r, a) ==
    /\ Pending(r)
    /\ Promise!Answer(r, a)
    /\ UNCHANGED <<posts, order, brokerUp, bridge, breaks>>

\* command-svc restarts under the POSTs that are pending.
BreakOff ==
    /\ Promise!BreakOff
    /\ \A r \in Commands : answer'[r] # answer[r] => Pending(r)
    /\ UNCHANGED <<posts, order, brokerUp, bridge, breaks>>

-----------------------------------------------------------------------------
(* command_worker                                                           *)

Connect ==
    /\ worker = "connecting" /\ brokerUp
    /\ worker' = "subscribing"
    /\ link' = "open"
    /\ UNCHANGED <<front, brokerUp, channel, moves, breaks>>

Subscribe ==
    /\ worker = "subscribing" /\ link = "open"
    /\ worker' = "listening"
    /\ UNCHANGED <<front, brokerUp, link, channel, moves, breaks>>

\* Mutant: the connection is taken up again inside the loop, without a subscription.
FailsInside ==
    /\ \/ worker = "connecting" /\ ~brokerUp
       \/ worker \in {"subscribing", "listening"} /\ link = "closed"
    /\ worker' = IF worker = "connecting" THEN "sleeping" ELSE "subscribing"
    /\ link' = "none" /\ channel' = <<>>
    /\ UNCHANGED <<front, brokerUp, moves, breaks>>

\* MqttError, from the attempt, the subscription or the message iterator: the client
\* is left, with the messages that the worker has not read.
Fails ==
    /\ \/ worker = "connecting" /\ ~brokerUp
       \/ worker \in {"subscribing", "listening"} /\ link = "closed"
    /\ worker' = "sleeping"
    /\ link' = "none" /\ channel' = <<>>
    /\ UNCHANGED <<front, brokerUp, moves, breaks>>

Wake ==
    /\ worker = "sleeping"
    /\ worker' = "connecting"
    /\ UNCHANGED <<front, brokerUp, link, channel, moves, breaks>>

\* Mutant: a payload that is not a JointCommand ends the worker.
HandleOrDie ==
    /\ worker = "listening" /\ channel # <<>>
    /\ LET command == Serialised(posts[Head(channel)])
       IN  IF Valid(command)
           THEN /\ moves' = Append(moves, [of |-> Head(channel), target |-> Target(command)])
                /\ UNCHANGED worker
           ELSE /\ worker' = "dead"
                /\ UNCHANGED moves
    /\ channel' = Tail(channel)
    /\ UNCHANGED <<front, brokerUp, link, breaks>>

\* One message: what the bridge cannot validate is left, the rest goes to the arm.
\* There is no await in it.
Handle ==
    /\ worker = "listening" /\ channel # <<>>
    /\ LET command == Serialised(posts[Head(channel)])
       IN  moves' = IF Valid(command)
                    THEN Append(moves, [of |-> Head(channel), target |-> Target(command)])
                    ELSE moves
    /\ channel' = Tail(channel)
    /\ UNCHANGED <<front, brokerUp, worker, link, breaks>>

-----------------------------------------------------------------------------
(* The broker and the network.  A break loses what is still on its way.      *)

Break ==
    /\ breaks < MaxBreaks
    /\ breaks' = breaks + 1
    /\ link' = IF link = "open" THEN "dead" ELSE link
    /\ \E n \in 0..Len(channel) : channel' = SubSeq(channel, 1, n)
    /\ UNCHANGED <<front, worker, moves>>

BrokerCrashes == brokerUp /\ brokerUp' = FALSE /\ Break

LinkBreaks == link = "open" /\ Break /\ UNCHANGED brokerUp

BrokerReturns ==
    /\ ~brokerUp
    /\ brokerUp' = TRUE
    /\ UNCHANGED <<front, bridge, breaks>>

\* aiomqtt notices, at the latest by its keepalive.
LossDetected ==
    /\ link = "dead"
    /\ link' = "closed"
    /\ UNCHANGED <<front, brokerUp, worker, channel, moves, breaks>>

-----------------------------------------------------------------------------
Work == Connect \/ Subscribe \/ Fails \/ Wake \/ Handle

Next ==
    \/ \E body \in Bodies : Post(body)
    \/ \E r \in Commands : Publish(r) \/ Reply(r, "accepted") \/ Reply(r, "refused")
    \/ BreakOff
    \/ Connect \/ Subscribe \/ Fails \/ Wake \/ Handle
    \/ BrokerCrashes \/ LinkBreaks \/ BrokerReturns \/ LossDetected

Spec == Init /\ [][Next]_vars

\* The worker goes on when it can, and a lost connection is noticed.  Clients,
\* command-svc and the broker owe nothing.
LiveSpec == Spec /\ WF_vars(Work) /\ WF_vars(LossDetected)

-----------------------------------------------------------------------------
TypeOK ==
    /\ posts \in Seq(Bodies) /\ Len(posts) <= MaxPosts
    /\ answer \in [Commands -> {"none", "accepted", "refused", "broken"}]
    /\ published \subseteq 1..Len(posts)
    /\ order \in Seq(Commands) /\ channel \in Seq(Commands)
    /\ moves \in Seq([of : Commands, target : Positions])
    /\ brokerUp \in BOOLEAN /\ worker \in Workers /\ link \in Links
    /\ breaks \in 0..MaxBreaks

Finite(body) == \A j \in DOMAIN body.positions : body.positions[j] # "infinite"

Entries(s) == {s[i] : i \in 1..Len(s)}

\* order[i] is before order[k]; each command occurs once.
ReadBefore(r, s) == \E i, k \in 1..Len(order) : i < k /\ order[i] = r /\ order[k] = s

\* The arm is told what was posted and nothing else: every trajectory is the meaning
\* of a body that passed the validation, with finite targets for exactly the names it
\* gives, known to the contract or not (for home: the known joints at zero), whatever POST and worker went through
\* meanwhile.  None comes twice, and they come in the order of the broker.
ArmObeys ==
    /\ \A i \in 1..Len(moves) :
          LET body == posts[moves[i].of]
          IN  /\ moves[i].of \in published
              /\ \A j \in DOMAIN moves[i].target : moves[i].target[j] \in {"zero", "angle"}
              /\ IF body.kind = "home"
                 THEN DOMAIN body.positions = {} /\ moves[i].target = [j \in Joints |-> "zero"]
                 ELSE DOMAIN body.positions # {} /\ moves[i].target = body.positions
    /\ \A i, k \in 1..Len(moves) :
          i < k => moves[i].of # moves[k].of /\ ReadBefore(moves[i].of, moves[k].of)

\* A command that is on the bridge's connection moves the arm or the connection
\* breaks, also behind commands that the bridge cannot read.  The exception is a
\* command that is not finite: it is accepted and the bridge drops it.
CommandsArrive ==
    \A r \in Commands :
        (r \in Entries(channel) /\ Finite(posts[r]))
            ~> (link # "open" \/ \E i \in 1..Len(moves) : moves[i].of = r)

\* Once the broker stays, the bridge listens again and goes on listening.
WorkerReturns == <>[]brokerUp => <>[](worker = "listening" /\ link = "open")
=============================================================================
