# twin-services in TLA+

This directory models the services of twin-services, a digital twin of a robot
arm, as TLA+ modules. TLC checks them on small instances, and TLAPS proves the
main safety properties for every value of the constants. `PROJECT.json` records,
for each definition, the source lines it stands for, and for each property a
mutation of the code that breaks it.

    tlc -config StateSvc.cfg MCStateSvc      # one run of the table below
    tlapm StateSvcProofs.tla                 # one proof module

## The system

```
 Gazebo/ROS 2 --JointState--> bridge --telemetry, QoS 0--> Mosquitto --+--> state-svc --gRPC--> viz-svc --WebSocket--> viewer
      ^                          |                            ^        |
      +------JointTrajectory-----+<--command, QoS 1-----------+        +--> telemetry-svc --> InfluxDB
                                                              |
                                    POST /command --> command-svc
```

Each service is one asyncio process. Its tasks share plain attributes without
locks and interleave at `await`s only, so an action of a model is the code
between two awaits. The bridge also has a thread, which runs rclpy.

| component | state it keeps | operations | what is hard | what makes it correct |
|---|---|---|---|---|
| bridge, telemetry (`bridge/main.py`) | a queue of 1000, the puts waiting for it, the worker's connection | `_on_msg`, `queue.put`, `telemetry_worker`, `publish_joint_states` | a thread feeds the loop; puts wait outside the queue; a JointState is many messages; the broker goes away | no JointState is lost before it is taken, order but for puts that waited, a fault tears at most one JointState (those written to a dead connection are lost whole: QoS 0), the backlog drains |
| bridge, commands (`bridge/main.py`) | the connection and the messages read from it | `command_worker`, `publish_command` | no subscription while it is away; a second validation behind the broker | what the arm is told was posted and valid, once, in order; a command on the connection arrives; the worker returns |
| state-svc consumer (`consumer.py`, `window.py`) | session, `_mqtt_connected`, the rolling window, `_dirty` | `_consume`, `_observe`, `_broadcast_forever`, `observe`, `snapshot` | two tasks on different clocks share the window; QoS 0 loss; restarts; a simulation clock that goes back | nothing is forgotten by the hand-over, values of one state belong together, the history is the window, recovery |
| state-svc hub (`grpc_server.py`) | the latest state, a mailbox of size one per stream | `publish`, `subscribe`, `GetState`, `StreamState` | publications during a blocked write; cancellation at two points; decimation | latest wins, no lost wake-up, no leaked queue |
| command-svc (`publisher.py`, `api.py`) | `self._client`, shared by `run()` and all `publish()` calls | `run`, `publish`, `POST /command` | the client is read before an await and cleared after it; late or lost PUBACKs; reconnections | at most once, 202 means published, order, a 503 without attempt is never sent, recovery |
| telemetry-svc (`ingest.py`) | session, `_mqtt_connected`, `_influx_ok` | `run`, `_consume`, `_to_point` | two dependencies fail independently; readiness is remembered, not measured | ingestion recovers, readiness shows outages and returns |
| viz-svc (`stream.py`, `app.py`) | the gRPC channel, `_ready`, the client gauge, a handler per socket | `run`, `frames`, `ws_state` | handlers never read their socket; three ways to end; a channel that changes twice | each call is counted once, departed browsers are dropped, readiness follows |
| viewer (`useTwinState.ts`) | socket, timer, `disposed`, status | `connect`, `onopen`, `onmessage`, `onclose`, cleanup | sockets that linger in the server while the next one opens | one socket at a time, it comes back, the pill shows outages |
| contracts (`models.py`) | none | validation and serialisation of commands, the vocabulary | both sides validate, with a lossy JSON between them | what passes twice is what was posted |
| kinematics (`kinematics.py`) | none | `forward`, `_dh_transform`, `_quaternion_from_rotation` | signs and conventions; the pivot where rounding decides | the product is the arm's geometry, the quaternion its rotation |
| health endpoints, status cell | the `twin_service_ready` gauge, the series of a target | `/healthz/*`, `/metrics`, the cell's expression | a gauge goes stale with its target | the cell tells dead or degraded from ready |
| chaos script (`chaos.py`), restart policy | the victim, `ok`, the failures | `all_ready`, `wait_until`, `run_cycle`, `docker compose kill` and `start` | probes one by one while services degrade, notice and recover; Docker restarts nothing that was killed by hand | blames only what happened; leaves a whole stack behind |

Components talk by messages (MQTT, gRPC, WebSocket, HTTP), and inside a process
by attributes (`_client`, `_dirty`, `_latest`, `_ready`). Nothing is persisted
but InfluxDB's points: a restarted service starts from nothing.

## The modules

| module | models | how it corresponds |
|---|---|---|
| `LatestWins` | what a subscriber of `StreamState` is promised (`state.proto`) | `Produce`, `Advance`: newer and newer states, some skipped; `Restart`: the source and its streams begin again |
| `StateHub` | `grpc_server.py`: `StateHub` and `StreamState` | `latest` is `_latest`, `subscribers` and `mailbox` are `_subscribers` and their queues, `pc` the await a handler is at, `reached` what it yielded, `since` the clock of decimation. `Deposit` is the eviction in `publish`, `Skip` and `Yield` are the two branches after `get()`, `Abandon` and `Finalise` the end of a stream cancelled in a write, `HubRestart` the end of the process |
| `RollingWindow` | `window.py` and `build_state`, as operators | a value is the stamp of its sample. `Observe` is `observe` with `Replace`, `Later` and `Prune`, `Complete` and `BuildState` are `snapshot` and `build_state` |
| `StateSvc` | `consumer.py` between broker and hub | `session` and `connected` are `_consume_forever` and `_mqtt_connected`, `window`, `dirty` and `hub` the attributes of these names. `Deliver` is a message through `_observe`, `Broadcast` a tick of `_broadcast_forever`; the source is `publish_joint_states`, joint by joint and field by field. `Overtake` is what a full queue does to the order: the JointState whose turn it is becomes one of the `late` ones, published after a later one |
| `TwinFeed` | state-svc as one process (`main.py`): `StateSvc` and `StateHub` together | `PublishState` is `Broadcast` and `Publish` in one step, `ProcessRestart` the restart of both; every other step belongs to one of them and leaves the other alone. `states` gives each number of `StateHub` its TwinState, `At(s)` is the state a stream has come to |
| `CommandPromise` | what the endpoint owes its callers | `Publish`, `Answer`, `BreakOff`: at most one publication, one answer, accepted only if published |
| `CommandSvc` | `publisher.py`, `api.py` | `client` is `_client`, `loop` the place of `run()`, `via[r]` the client a `publish()` captured, `link` and `pipe` the connection of each client object. The three ways of a POST are `PostWithoutClient`, `PostOnClosed` and `PostWritten`, ended by `PubackArrives` or `Timeout` |
| `Handover` | what the bridge promises of telemetry between the thread and the worker | `Arrive`, `Delay`, `Take`: taken once, and overtaken only if told to wait |
| `BridgeTelemetry` | the telemetry half of `bridge/main.py` | `ready` and `waiting` are the put() coroutines the loop will resume and those parked in the queue; `hand` and `sent` the JointState the worker publishes, `got` how much of it the broker has. On a dead connection `Publish` still succeeds and the broker gets nothing; `PublishFails` is MqttError from a connection that is known to be lost or cannot be written to, or from a live one that stalls |
| `TelemetrySvc` | `ingest.py`, the gauge of `health.py` | `session` is the place of `_consume`, `inbox` aiomqtt's queue, `connected` and `influxOk` the two checks, `gauge` the readiness last scraped. `Ping` answers true or, when InfluxDB is away, raises: `PingFails` ends the process, which starts again |
| `VizSvc` | `stream.py`, `app.py`, `useTwinState.ts` | per socket: `handler` the place of `ws_state`, `rpc` its StreamState call, `wire` what is under way to the browser, `socket` the browser's end. `timer`, `page` and `status` are the hook's |
| `CommandPath` | a command from its POST to the arm: the contract, `CommandPromise` in command-svc's part, broker, `command_worker`, `publish_command` | `Valid` is the validator and the types of `JointCommand`, on either side; `Serialised` is `model_dump_json`; `channel` is what is on its way to the bridge and in `client.messages`; `moves` are the trajectories published |
| `Chaos` | `chaos.py`, the health endpoints, Docker's restart policy, scrape and status cell | `pc`, `victim`, `at`, `alive`, `ok`, `failures` are the script's variables, and an action is one probe. The endpoints are the same in all services, so `Live`, `Ready` and `ReadySeries` each name one of the copies. `cell` is what Grafana shows last |
| `Kinematics` | `kinematics.py` | `Multiply` is one turn of the loop in `forward`; beside `transform` a `frame` is walked along the arm by turns and moves, without a matrix. `QuaternionFromRotation` is a set: where entries are equal, rounding may choose either branch |
| `MCTwinFeed`, `MCStateSvc`, `MCCommandPath` | the instances TLC checks | |
| `StateSvcProofs` (of `StateSvc`, `StateHub` and `TwinFeed`), `CommandSvcProofs`, `TelemetrySvcProofs`, `BridgeTelemetryProofs`, `CommandPathProofs`, `KinematicsProofs`, `VizSvcProofs`, `ChaosProofs` | theorems | |

`StateSvc` ends at the hub's `_latest`, where `StateHub` begins; `TwinFeed` composes
the two, and `VizSvc` takes from a stream what `LatestWins` promises. `TwinFeed`
implements `StateSvc` and `StateHub`, `StateHub` implements `LatestWins`, `CommandSvc` implements `CommandPromise` under a refinement
mapping (the answers are the statuses, the published commands are the ones the
broker read), and `BridgeTelemetry` implements `Handover`: what is pending there is
what is ready, waiting or queued here. `CommandPath` is built on the promise: every publication and answer
in it is a step of `CommandPromise`, so that what it shows holds with the publisher
`CommandSvc` describes, and would hold with any other that keeps the promise. It
takes from the promise less than the code gives: answers and publications of several
commands come in any order. The readiness that `Chaos` takes for granted (a service
whose dependencies are there becomes ready, one that lost them says so in the end) is
what `ReadinessFollows`, `IngestionFollows` and `RunRecovers` show of the services;
the channel of viz-svc, whose loss is noticed late, is kept as a variable of its own.

The abstraction is one of data. A sample is its stamp, a JointState in the
bridge its arrival number, a telemetry message in telemetry-svc its validity, a
state in viz-svc the fact that there is one. A position of a command is zero, an
angle, not finite, or the `null` JSON has for that; a service in `Chaos` is what its
endpoints say. An angle in `Kinematics` is a quarter turn and a length an integer of
micrometres, so that sine and cosine are integers and the product is exact; the square
root of the quaternion is carried as its square. Control is kept: every branch,
exception path and order of assignments. Left out are logging, counters,
formatting, and the time a delay takes (a sleep ends sometime).

External code is modelled as the services use it, and named in each module's
header: an aiomqtt client does not reconnect and does not wake a publish when
its connection ends; `run()` and the services' iterators see a lost connection
sometime after it is lost; asyncio.Queue wakes the put that waited longest; a
gRPC channel without a connection is idle until it is asked to connect;
uvicorn's `send_text` raises only when it has learnt that the browser left; the ping of
an InfluxDB that does not answer raises and has no false answer; a QoS 0 publish on a
dead connection succeeds until aiomqtt knows better.

## The runs

| run | instance | what it shows |
|---|---|---|
| `twin_feed` | state-svc as one process: one joint, 2 measurements, 1 fault, an uncapped stream and one capped at two ticks | a waiting mailbox holds the newest state and an empty one owes nothing, registered queues are exactly the live handlers'; with a clear `_dirty` an uncapped stream that has read its mailbox is at the window's state; no open stream is taken back in time, and none of its values by more than the overtakings in the bridge; a measurement reaches every uncapped client that keeps reading; the hub implements `LatestWins` |
| `state_svc` | two joints of the vocabulary and a foreign one, 3 measurements, window 1, 2 faults, one of them may be an overtaking | a clear `_dirty` owes nothing and an incomplete window publishes nothing, a torn state is at most one measurement old plus one per lost message and per overtaking, the history is the window, an answer does not get older and, until a new simulation, a value in it by no more than the overtakings, subscription and readiness follow the broker |
| `state_svc_unbounded` | one joint, one restarted simulation | finding: the history outgrows the window |
| `command_svc` | 3 commands, 3 faults, 4 client objects | see `CommandPromise`; the client a POST captures is the one `run()` iterates, and the only one connected; accepted commands in order; every POST is answered; the connection comes back |
| `command_svc_stuck` | 1 command, 1 fault | finding: a late timeout clears the new client for good |
| `bridge_telemetry` | queue of 2, 3 messages per state, 5 states, 2 faults (crashes, broken or stalled connections) | the bridge implements `Handover` (every state in one place, only waiters overtaken), a fault tears at most one state, the backlog drains |
| `telemetry_svc` | an inbox of 2, 4 faults, messages for ever | readiness says `mqtt` exactly while a session is open, only valid input is written, none that arrived is left behind by a session; ingestion and its readiness follow the broker; while telemetry is written the gauge turns red and green again with InfluxDB |
| `command_path` | two joints, a body for each way through the validation, 2 posts, 2 breaks | the arm obeys what was posted and nothing else; a command on the bridge's connection arrives, also behind one it cannot read; the worker returns |
| `chaos` | all four services, the cell of viz-svc, 1 crash or dip | no cycle fails without something to fail of; nothing but the victim is kept from reviving, and that only from kill to start; every way through the script leaves a whole stack; the cell follows |
| `kinematics` | the UR5 at quarter turns, 4096 poses | the DH chain is the arm's geometry; the quaternion is defined, of unit length and the chain's rotation |
| `telemetry_svc_stale` | 1 fault | finding: after a failed write and without valid telemetry readiness stays red, although InfluxDB is there |
| `viz_svc` | one viewer, 3 sockets, 2 faults | the gauge counts each call once; a mounted viewer has one socket or one timer, and a pill that says which; nobody misses a change of the channel; departed browsers are dropped while the feed flows; the viewer returns; readiness follows state-svc; an outage shows |

Runs that end in a violation check a sentence of the repository that the code
does not keep. `PROJECT.json` quotes the sentence.

**Bounds.** Each is a constant or a guard named in its module. Counts of
messages, commands and states are chosen so that the longest scenario of a
property fits: two measurements of one joint give four complete windows, a delivered one, an
evicted one, the newest and one published during a write; three stamps with a window of one make pruning drop
an entry, keep one and add one; three commands and three faults give two
reconnections with a pending command on each lost connection; five JointStates
against two slots leave two puts waiting, so that a fresh put overtakes one. Two
joints are needed because a joint's history is pruned by its own samples only,
and the foreign joint because `_observe` drops it. Sockets and client objects are
as many as the faults can retire, plus one, so that a bound never stops the
service. Two POSTs put a valid command behind one the bridge drops, and two breaks
let the second meet the recovery from the first. In `Chaos` one fault is enough to
meet every step of every cycle, a cycle kills on top of it, and viz-svc's cell is
watched because viz-svc degrades, dies and cascades. Four quarter turns of each of
the six joints reach every branch of the quaternion and all its ties. The number of faults is the number of disturbances in one behaviour;
two let a second one meet the recovery from the first.

`MaxStates` of
`twin_feed` is the number of messages, so that it stops no publication there. That run
starts no new simulation (`MaxRewinds` is 0): the states published before and after it
multiply, `state_svc` has two, and the theorems hold for any number. `MaxOvertakings` is 1 in both: one
JointState overtaken is enough for an older value to replace a newer one, and leaves `state_svc` a lost message or a broken
connection beside it; the theorems hold for any
number. Three messages of a JointState let a connection die before, in the middle of and behind
what the broker gets of it.

**Fairness.** It stands for three facts: the event loop runs every task that is
ready, timeouts, sleeps and keepalives end, and a peer that is connected answers
or is found lost. Weak fairness of each task's step is enough everywhere. No
fairness is given to the environment: brokers, InfluxDB, state-svc and the
processes return only if the premise of a property says so (`<>[]brokerUp => ..`),
the simulation need not move, and a fault may strike until they are used up. In
`TwinFeed` a client that stays connected keeps reading, because the handler's
write would block otherwise: that is the case the property is about. In `Chaos` the
script, Docker's restart policy and Prometheus run, and a running service reaches
dependencies that are there (the premise of the demo, README and `just healthz`);
crashes, dips, timeouts and the interruption are owed by nobody.

**Deadlock** is not checked, except in `twin_feed`, where a client may always call: the other services may stop,
because a broker that never returns or a source without telemetry is legal, and
because bounded inputs run out. Liveness properties say what must not stop.

**History variables** (`heard`, `reached`, `states`, `taken`, `waited`, `got`, `torn`, `order`, `frame`,
`excuses`, the counts of faults and breaks) are read by no guard of the services; only the bounds read the counts.

## The proofs

Every invariant and every action property that a passing run checks is a theorem
here. All theorems hold for every value of the constants under the named assumptions of
the modules, which say only that bounds are natural numbers, that sizes are not
zero, that a JointState names a joint, and that the joints are among the names a body may give.

- `StateSvcProofs`: `TypeCorrect`, `NothingOwed` (`CleanMeansPublished`),
  `WindowIsExact` (`HistoryIsWindow`), `AnswersOnlyAdvance`, `TearsAreBounded`. The invariant adds
  that the hub is never ahead of the window, and that without a new simulation
  everything in the window is older than the next fresh JointState, and everything the bridge
  has still to publish is behind that by the overtakings so far at most (`SourceLeads`). While
  there are none, a
  history ascends, and the popleft loop, which drops the leading entries older
  than the cutoff, drops all of them; lemmas say what appending and pruning do to
  an ascending sequence and to the set of its entries. The bound on a torn state
  rests on the window, not on the hub (`WindowIsUpToDate`): every value in it is due
  to the last message of its channel, of the current JointState if that one is out
  already, of the one before otherwise, less one for each message lost and one for each overtaking; a window
  with any value in it is still subscribed. A layout that names a joint twice is
  covered: a channel is due to the last of its messages. How far a value of an answer can get
  older (`AnswersOnlyAdvance`) needs inequalities per channel: hub and window are behind the
  next fresh JointState, and the window behind the hub by the overtakings at most (`ValuesLag`).
  A step either leaves a value of the window or brings one from the bridge's line
  (`ValueMoves`).
- `StateSvcProofs`, of the hub: `HubTypeCorrect`, and, over `HubSpec`, the lemmas behind
  `StaysRegistered`, `MailboxesStayCurrent` and `ImplementsPromise` (the hub implements
  `LatestWins`). `MailboxIsCurrent` is not inductive: only a handler whose queue is
  registered may read it, so `Registered` is needed, and a stream has yielded only
  states that exist.
- `StateSvcProofs`, of the process: `FeedIsConsumer` and `FeedIsHub`, by projection: a step
  of `TwinFeed` is a step of either part or leaves it alone, so each theorem about a part
  holds of the process. What neither part can say is proved from both: `NothingOwedToAnyone`
  and `ViewersOnlyAdvance`. The invariant adds that the newest number stands for the state
  in the hub (`Numbered`), that states are ordered by stamp as by number, and by value but for
  the overtakings (`Chronological`), and that the window is as close behind each of them
  (`StatesLag`), which is what a publication makes the next one of. Then
  only a `Yield` moves an open stream, and to the newest number.
- `TelemetrySvcProofs`: `TypeCorrect` and `ReportsItsSession`. `SessionIsReported` has the
  types as its first conjunct and is inductive as it stands: `connected` and the session
  change together, a link is alive in an open session only, and what was accepted for
  writing is kept in `point` until the write has ended, one way or the other.
- `CommandSvcProofs`: `TypeCorrect`, `KeepsOneClient`, `NothingBuffered`, `OrderKept`, and `KeepsThePromise` (the protocol implements
  `CommandPromise`). Order rests on three facts that hold together: commands
  capture clients in ascending order, each client's pipe holds its own commands in
  order, and what a broker still reads from a lost connection is never accepted
  (`ViaAscends`, `PipesAreQueues`, `LateReadsAreLost`).
- `BridgeTelemetryProofs`: `TypeCorrect`, `NoneIsLost`,
  `OrderKept`, `TearsAreRare`, `ImplementsHandover`. The invariant is about the whole line from the
  thread to the worker, taken, queue, ready, waiting: whoever stands behind an
  earlier arrival's successor has waited. A dead connection under a
  JointState of which the broker has a part counts as a tear to come (`TearToCome`). For the refinement no JointState may be in the line twice
  (`NoneTwice`), which counting alone does not say step by step; then the three moves
  of the line are an arrival, a delay or a stutter, and a `Take`, and all other steps
  leave the line alone.

- `CommandPathProofs`: `TypeCorrect` and `ArmObeysAlways`. The invariant adds that
  what the broker read is valid and read once, and that the commands on the bridge's
  connection follow those that moved the arm, in the broker's order; a lemma says
  that a body which is still valid after serialisation was finite, so that what the
  bridge reads is what was posted.
- `KinematicsProofs`: `ChainIsArm` and `PoseIsRight` (`PoseIsFrame`), for every table
  of DH parameters and any number of joints. A turned axis is the sum its cosine and
  sine say (`TurnedEntry`, `AxesFollow`), so one row of the product is the row of the
  walked frame (`RowFollows`). The quaternion is right for rotations only, so the
  invariant adds that the frame is right-handed, with axes of the base
  (`RightHanded`): quarter turns keep that because the cross product changes its sign
  with the order and the sign of its factors. Of such orientations there are 24, and
  each branch of the quaternion is computed for each that takes it
  (`BranchOfRotation`).

- `VizSvcProofs`: `TypeCorrect`, `GaugeCounts`, `KeepsOneSocket`, `FollowsChannel`. A socket could be
  accepted twice, and be counted twice, if a browser had read the acceptance and were
  still opening (`AcceptUnread`); a close event could set the timer beside another
  socket if anything were under way to one that is closed (`SocketIsCurrent`).
  `OneSocket` and `ChannelIsFollowed` are the safe half of `ViewerReturns` and
  `ReadinessFollows`: no state is reached from which the hook has no next try, or in
  which readiness is wrong and run() is not about to look.
- `ChaosProofs`: `TypeCorrect`, `BlamesFairly` and `LeavesNoneStopped`. The invariant says, for each place of
  the script, what it may rely on as long as there is nothing to fail of: what
  all_ready() has already found ready is whole, whoever is not the victim is whole
  but for the channel that went down with state-svc, and the victim stays stopped.
  `OnlyVictimIsStopped` is the safe half of `StackRecovers`, and inductive with the
  types: the script gives its victim up only where it sees it run or starts it.

Each proof module has one lemma per action and a lemma for the invariant from
which the theorems follow.

Only model-checked are the liveness properties, because the prover does not reason
about fairness. The type invariants are proved (`TypeCorrect`) and, but for that of
`TelemetrySvc`, not run; so are `EachInOnePlace` and `OnlyWaitersAreOvertaken` of
`BridgeTelemetry`, which its `Promise` says step by step. `Kinematics`, a search over grid points, has none. No
module uses a recursive operator.

## Findings

Each is a violation that its run ends in, against a sentence of the repository.

1. `publisher.py:73` clears `_client` without looking whether `run()` has replaced
   it: a publish that times out on the lost connection after the reconnection
   takes the new client away, and every POST is 503 until the connection breaks
   again (`command_svc_stuck`).
2. `window.py:55` stops pruning at the first entry of a simulation that ran before:
   the history mixes two runs and is averaged whole (`state_svc_unbounded`).
3. `telemetry-svc/ingest.py:88`: a failed write turns readiness red, and only the next
   write can turn it green again: when no valid telemetry follows, it stays red although
   InfluxDB is there (`telemetry_svc_stale`; in the trace the write came too late, an
   outage of InfluxDB does the same).

What the models show of the code besides, and a reader of its comments might not
expect:

- A POST that is answered 503 for want of a PUBACK may have moved the arm
  (`publisher.py:74`); `CommandPromise` lets a refused command be published.
- `publisher.py:9` calls the commands at-least-once, after their QoS. What reaches the broker
  is at most once: an aiomqtt client never reconnects, so it sends a command once, and
  `publish()` tries it once (`CommandPromise`). A command may be refused and still be read,
  even after newer ones that were accepted (`AcceptedInOrder` is about the accepted ones).
- A name that is no joint of the arm passes both validations (`models.py:100`) and is handed
  to the trajectory controller (`bridge/main.py:152`); `CommandPath` posts one.
- `window.py:49` replaces a value without a look at its stamp. Once the bridge's queue of
  1000 was full (`bridge/main.py:139`), a JointState that was overtaken puts older values back
  into the window: hence the overtakings in `AnswersAdvance`, `ViewersAdvance` and
  `TearIsBounded`. Its velocity can also hide behind a newer head of the history, where the
  popleft loop does not look: `HistoryIsWindow` is stated without overtakings.
- What the bridge publishes on a connection that is dead and not yet known to be is lost
  without an error, JointState after JointState (`bridge/main.py:62`, QoS 0);
  `EachFaultTearsOne` is about those the broker gets in part.
- A 202 says that the broker has the command. While the bridge is not subscribed the
  broker has nobody to pass it to, because nothing is retained and the bridge's
  session is a clean one (`bridge/main.py:89`).
- A position that is not finite passes command-svc, is serialised as `null` and
  dropped by the bridge, with a 202 for the caller (`models.py:100`), although
  `publisher.py:5-6` calls an accepted command that silently goes nowhere a lie. That
  is the exception in `CommandsArrive`.
- The broadcast clock cuts between the messages of one joint, so that position and
  velocity of a published joint may be of two measurements (`consumer.py:105`);
  `TearIsBounded` says how far apart.
- A capped client misses the last state before a pause of the feed
  (`grpc_server.py:117`); only an uncapped one converges.
- A new stream is not given the state that GetState would answer: a client that
  subscribes while the feed stands still is sent nothing until the next publication
  (`grpc_server.py:112`). So `At` begins with that state, and `ViewersAdvance` says that
  what comes is not older.
- viz-svc notices a lost channel some time after it is lost, so that a cycle of
  `chaos.py` may begin before the last one's cascade is over and blame viz-svc for it
  (the excuse "late" of `BlamesOnlyFaults`). An interrupted script leaves its victim
  stopped, and Docker does not start it (`StackRecovers`).

## Not modelled, and the plan

Not modelled: generated gRPC code, the three.js scene, the demo trajectory, start-up,
configuration and logging. They keep no state the properties are about. Topics and
their parsing are left out, because one asset and one topic of each kind are all that
the services use; so are frames, points and counters, whose contents nothing decides
on. `VizSvc` takes state-svc as a peer that serves or is gone.

Out of the tools' reach: floating point, so that `Kinematics` is exact where the
code rounds, and angles other than quarter turns.

Open: a second publisher on the telemetry topic with a clock of its own
(`window.py:50`), which would freeze the window's stamp; the code promises nothing of
it. And `VizSvc` and `TwinFeed` in one instance, which TLC cannot search: what the two
share is `LatestWins`.
