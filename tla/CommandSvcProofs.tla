-------------------------- MODULE CommandSvcProofs --------------------------
(***************************************************************************)
(* What command-svc guarantees for any number of commands, connections and  *)
(* faults: one connection, which is the one publish() captures; what a 202  *)
(* and a 503 without an attempt are worth; the order of what was accepted.  *)
(***************************************************************************)
EXTENDS CommandSvc, TLAPS

(* Queues of commands.                                                       *)

Entries(s) == {s[i] : i \in 1..Len(s)}
Increasing(s) == \A i, k \in 1..Len(s) : i < k => s[i] < s[k]

LEMMA EmptyQueue == Entries(<<>>) = {} /\ Increasing(<<>>)
BY DEF Entries, Increasing

LEMMA AppendQueue ==
    ASSUME NEW s \in Seq(Commands), NEW x \in Commands
    PROVE  /\ Append(s, x) \in Seq(Commands)
           /\ Entries(Append(s, x)) = Entries(s) \cup {x}
           /\ Increasing(s) /\ (\A y \in Entries(s) : y < x) => Increasing(Append(s, x))
<1> DEFINE a == Append(s, x)
           n == Len(s)
<1>1. /\ a \in Seq(Commands) /\ Len(a) = n + 1 /\ n \in Nat
      /\ \A i \in 1..n : a[i] = s[i]
      /\ a[n + 1] = x
  OBVIOUS
<1> HIDE DEF a
<1>2. Entries(a) = Entries(s) \cup {x}
  <2>1. ASSUME NEW y \in Entries(a) PROVE y \in Entries(s) \cup {x}
    <3>1. PICK i \in 1..Len(a) : y = a[i]
      BY DEF Entries
    <3> QED
      BY <3>1, <1>1 DEF Entries
  <2>2. ASSUME NEW y \in Entries(s) PROVE y \in Entries(a)
    <3>1. PICK i \in 1..n : y = s[i]
      BY DEF Entries
    <3>2. i \in 1..Len(a) /\ y = a[i]
      BY <3>1, <1>1
    <3> QED
      BY <3>2 DEF Entries
  <2>3. x \in Entries(a)
    <3>1. n + 1 \in 1..Len(a)
      BY <1>1
    <3> QED
      BY <3>1, <1>1 DEF Entries
  <2> QED
    BY <2>1, <2>2, <2>3
<1>3. ASSUME Increasing(s), \A y \in Entries(s) : y < x
      PROVE  Increasing(a)
  <2> SUFFICES ASSUME NEW i \in 1..Len(a), NEW k \in 1..Len(a), i < k PROVE a[i] < a[k]
    BY DEF Increasing
  <2> HIDE DEF n
  <2>1. i \in 1..n
    BY <1>1
  <2>2. CASE k = n + 1
    <3>1. s[i] \in Entries(s)
      BY <2>1 DEF Entries, n
    <3> QED
      BY <2>1, <2>2, <3>1, <1>1, <1>3
  <2>3. CASE k # n + 1
    <3>1. k \in 1..n
      BY <2>3, <1>1
    <3> QED
      BY <2>1, <3>1, <1>1, <1>3 DEF Increasing, n
  <2> QED
    BY <2>2, <2>3
<1> QED
  BY <1>1, <1>2, <1>3 DEF a

LEMMA HeadOfQueue ==
    ASSUME NEW s \in Seq(Commands), s # <<>>
    PROVE  /\ Head(s) \in Commands /\ Tail(s) \in Seq(Commands)
           /\ Head(s) \in Entries(s)
           /\ Entries(Tail(s)) \subseteq Entries(s)
           /\ Increasing(s) => /\ Increasing(Tail(s))
                               /\ \A y \in Entries(Tail(s)) : Head(s) < y
<1> DEFINE t == Tail(s)
           n == Len(s)
<1>1. /\ n \in Nat /\ n >= 1 /\ Head(s) = s[1] /\ s[1] \in Commands
      /\ t \in Seq(Commands) /\ Len(t) = n - 1
      /\ \A i \in 1..(n - 1) : t[i] = s[i + 1]
  OBVIOUS
<1> HIDE DEF t
<1>2. Head(s) \in Entries(s)
  <2>1. 1 \in 1..Len(s)
    BY <1>1
  <2> QED
    BY <2>1, <1>1 DEF Entries
<1>3. \A y \in Entries(t) : \E i \in 1..(n - 1) : y = s[i + 1]
  BY <1>1 DEF Entries
<1>4. Entries(t) \subseteq Entries(s)
  <2> SUFFICES ASSUME NEW y \in Entries(t) PROVE y \in Entries(s)
    OBVIOUS
  <2>1. PICK i \in 1..(n - 1) : y = s[i + 1]
    BY <1>3
  <2>2. i + 1 \in 1..Len(s)
    BY <1>1
  <2> QED
    BY <2>1, <2>2 DEF Entries
<1>5. ASSUME Increasing(s) PROVE Increasing(t)
  <2> SUFFICES ASSUME NEW i \in 1..Len(t), NEW k \in 1..Len(t), i < k PROVE t[i] < t[k]
    BY DEF Increasing
  <2>1. t[i] = s[i + 1] /\ t[k] = s[k + 1]
    BY <1>1
  <2>2. i + 1 \in 1..Len(s) /\ k + 1 \in 1..Len(s) /\ i + 1 < k + 1
    BY <1>1
  <2> QED
    BY <2>1, <2>2, <1>5 DEF Increasing
<1>6. ASSUME Increasing(s), NEW y \in Entries(t) PROVE Head(s) < y
  <2>1. PICK i \in 1..(n - 1) : y = s[i + 1]
    BY <1>3
  <2>2. i + 1 \in 1..Len(s) /\ 1 \in 1..Len(s) /\ 1 < i + 1
    BY <1>1
  <2> QED
    BY <2>1, <2>2, <1>1, <1>6 DEF Increasing
<1> QED
  BY <1>1, <1>2, <1>4, <1>5, <1>6 DEF t

LEMMA PublishedEntries == Published = Entries(received) /\ Published' = Entries(received')
BY DEF Published, Entries
-----------------------------------------------------------------------------
(* The inductive invariant.                                                  *)

\* run() iterates over the messages of a client it created.
LoopHasClient == loop = "iterating" => current # None

\* A connection that is open is the one run() iterates over.
OpenIsIterated == \A c \in Clients : link[c] = "open" => c = current /\ loop = "iterating"

\* A command is published through a client exactly if a publish() captured one.
CapturedByStatus ==
    \A r \in Commands :
        /\ status[r] \in {"awaiting", "accepted", "broken"} => via[r] # None
        /\ status[r] = "idle" => via[r] = None

\* Commands are posted in their order.
PostedInOrder == \A p, q \in Commands : p < q /\ Posted(q) => Posted(p)

\* Later commands capture later clients.
ViaAscends ==
    \A p, q \in Commands :
        /\ via[p] <= current
        /\ p < q /\ via[p] # None /\ via[q] # None => via[p] <= via[q]

\* What a connection still holds is in its order, went through its client, and comes
\* after all the broker read from it.
PipesAreQueues ==
    \A c \in Clients :
        /\ Increasing(pipe[c])
        /\ \A x \in Entries(pipe[c]) :
              via[x] = c /\ \A y \in Published : via[y] = c => y < x

\* The broker confirms what it read, and publish() believes nothing else.
Confirmed ==
    /\ acked = Published
    /\ \A r \in Commands : status[r] = "accepted" => r \in acked
    /\ \A y \in Published : via[y] # None

\* The broker reads no command twice, and one it read after a later one came through a connection that is
\* given up: it was not accepted and never will be.
LateReadsAreLost ==
    \A i, k \in 1..Len(received) :
        i < k /\ received[k] <= received[i] =>
            status[received[k]] # "accepted" /\ via[received[k]] < current

\* The fields of IInv in three groups: the connection, the posts, the data.
ConnectionInv == TypeOK /\ LoopHasClient /\ OpenIsIterated /\ ClientIsCurrent
PostsInv == CapturedByStatus /\ PostedInOrder /\ ViaAscends
DataInv == PipesAreQueues /\ Confirmed /\ LateReadsAreLost

IInv == ConnectionInv /\ PostsInv /\ DataInv

LEMMA Numbers ==
    /\ \A r \in Commands : r \in Int /\ r >= 1
    /\ \A c \in Clients : c \in Int /\ c >= 1 /\ c # None
    /\ None = 0
BY CommandSvcAssumption DEF Commands, Clients, None

LEMMA ClientsAreNumbers ==
    /\ TypeOK => current \in Int /\ \A r \in Commands : via[r] \in Int
    /\ TypeOK' => current' \in Int /\ \A r \in Commands : via'[r] \in Int
<1>1. Clients \cup {None} \subseteq Int
  BY Numbers
<1> QED
  BY <1>1 DEF TypeOK

LEMMA InitIInv == Init => IInv
<1> SUFFICES ASSUME Init PROVE IInv
  OBVIOUS
<1>1. TypeOK
  BY CommandSvcAssumption
     DEF Init, TypeOK, Links, Loops, Statuses, NoFaults, Commands, Clients
<1>2. LoopHasClient /\ OpenIsIterated /\ ClientIsCurrent
  BY DEF Init, LoopHasClient, OpenIsIterated, ClientIsCurrent
<1>3. PostsInv
  BY DEF Init, PostsInv, CapturedByStatus, PostedInOrder, Posted, ViaAscends, None
<1>4. Published = {} /\ \A c \in Clients : pipe[c] = <<>>
  BY PublishedEntries, EmptyQueue DEF Init
<1>5. DataInv
  BY <1>4, EmptyQueue DEF Init, DataInv, PipesAreQueues, Confirmed, LateReadsAreLost
<1> QED
  BY <1>1, <1>2, <1>3, <1>5 DEF IInv, ConnectionInv

\* A fault counts up and keeps the type of the counters.
LEMMA FaultType ==
    ASSUME TypeOK, NEW kind \in {"breaks", "late", "restarts"}, Fault(kind)
    PROVE  faults' \in [{"breaks", "late", "restarts"} -> Nat]
<1>1. faults \in [{"breaks", "late", "restarts"} -> Nat]
  BY DEF TypeOK
<1> QED
  BY <1>1 DEF Fault

\* A step that touches neither the queues nor what the broker read keeps DataInv
\* when it accepts nothing and goes back to no earlier client.
LEMMA DataKept ==
    ASSUME IInv, UNCHANGED <<pipe, received, acked>>, TypeOK',
           current' >= current,
           \A r \in Commands : via'[r] # via[r] => via[r] = None /\ status[r] = "idle"
                                                  /\ via'[r] # None,
           \A r \in Commands : status'[r] = "accepted" => status[r] = "accepted"
    PROVE  DataInv'
<1>1. Published' = Published /\ Published \subseteq Commands
  <2>1. \A i \in 1..Len(received) : received[i] \in Commands
    BY DEF IInv, ConnectionInv, TypeOK
  <2> QED
    BY <2>1 DEF Published
<1>2. \A y \in Published : via'[y] = via[y]
  BY <1>1 DEF IInv, DataInv, Confirmed
<1>3. \A c \in Clients : \A x \in Entries(pipe[c]) : via'[x] = via[x]
  <2> SUFFICES ASSUME NEW c \in Clients, NEW x \in Entries(pipe[c]) PROVE via'[x] = via[x]
    OBVIOUS
  <2>1. via[x] = c /\ c # None
    BY Numbers DEF IInv, DataInv, PipesAreQueues
  <2>2. x \in Commands
    <3>1. pipe[c] \in Seq(Commands)
      BY DEF IInv, ConnectionInv, TypeOK
    <3> QED
      BY <3>1 DEF Entries
  <2> QED
    BY <2>1, <2>2
<1>4. PipesAreQueues'
  <2> SUFFICES ASSUME NEW c \in Clients
               PROVE  /\ Increasing(pipe'[c])
                      /\ \A x \in Entries(pipe'[c]) :
                            via'[x] = c /\ \A y \in Published' : via'[y] = c => y < x
    BY DEF PipesAreQueues
  <2>1. pipe'[c] = pipe[c]
    OBVIOUS
  <2> QED
    BY <2>1, <1>1, <1>2, <1>3 DEF IInv, DataInv, PipesAreQueues
<1>5. Confirmed'
  BY <1>1, <1>2 DEF IInv, DataInv, Confirmed
<1>6. LateReadsAreLost'
  <2> SUFFICES ASSUME NEW i \in 1..Len(received), NEW k \in 1..Len(received),
                      i < k, received[k] <= received[i]
               PROVE  status'[received[k]] # "accepted" /\ via'[received[k]] < current'
    BY DEF LateReadsAreLost
  <2>1. received[k] \in Published /\ received[k] \in Commands
    BY <1>1 DEF Published
  <2>2. status[received[k]] # "accepted" /\ via[received[k]] < current
    BY DEF IInv, DataInv, LateReadsAreLost
  <2>3. via[received[k]] \in Int /\ current \in Int /\ current' \in Int
    BY <2>1, ClientsAreNumbers DEF IInv, ConnectionInv
  <2> QED
    BY <2>1, <2>2, <2>3, <1>2
<1> QED
  BY <1>4, <1>5, <1>6 DEF DataInv
-----------------------------------------------------------------------------
(* Publisher.run, and the losses aiomqtt and the broker cause.               *)

LEMMA RunIInv == IInv /\ (Connect \/ RunFails \/ Wake) => IInv'
<1> SUFFICES ASSUME IInv, Connect \/ RunFails \/ Wake PROVE IInv'
  OBVIOUS
<1>1. /\ UNCHANGED <<brokerUp, pipe, received, acked, status, via, faults>>
      /\ current \in Int /\ current' \in {current, current + 1}
  BY Numbers DEF IInv, ConnectionInv, TypeOK, Connect, RunFails, Wake, posts, network
<1>2. ConnectionInv'
  <2>1. CASE Connect
    <3>1. TypeOK'
      BY <2>1 DEF IInv, ConnectionInv, TypeOK, Connect, Loops, Links, posts
    <3>2. OpenIsIterated'
      BY <2>1 DEF IInv, ConnectionInv, OpenIsIterated, Connect, TypeOK
    <3>3. LoopHasClient' /\ ClientIsCurrent'
      BY <2>1, Numbers DEF Connect, LoopHasClient, ClientIsCurrent
    <3> QED
      BY <3>1, <3>2, <3>3 DEF ConnectionInv
  <2>2. CASE RunFails
    <3>1. TypeOK'
      BY <2>2 DEF IInv, ConnectionInv, TypeOK, RunFails, Loops, posts, network
    <3>2. OpenIsIterated'
      BY <2>2 DEF IInv, ConnectionInv, OpenIsIterated, RunFails, network
    <3>3. LoopHasClient' /\ ClientIsCurrent'
      BY <2>2 DEF RunFails, LoopHasClient, ClientIsCurrent
    <3> QED
      BY <3>1, <3>2, <3>3 DEF ConnectionInv
  <2>3. CASE Wake
    <3>1. TypeOK'
      BY <2>3 DEF IInv, ConnectionInv, TypeOK, Wake, Loops, posts, network
    <3>2. OpenIsIterated'
      BY <2>3 DEF IInv, ConnectionInv, OpenIsIterated, Wake, network
    <3>3. LoopHasClient' /\ ClientIsCurrent'
      BY <2>3 DEF IInv, ConnectionInv, Wake, LoopHasClient, ClientIsCurrent
    <3> QED
      BY <3>1, <3>2, <3>3 DEF ConnectionInv
  <2> QED
    BY <2>1, <2>2, <2>3
<1>3. PostsInv'
  <2>1. CapturedByStatus' /\ PostedInOrder'
    BY <1>1 DEF IInv, PostsInv, CapturedByStatus, PostedInOrder, Posted
  <2>2. ViaAscends'
    <3>1. \A p \in Commands : via[p] \in Int /\ via[p] <= current
      BY Numbers DEF IInv, ConnectionInv, TypeOK, PostsInv, ViaAscends
    <3> QED
      BY <3>1, <1>1 DEF IInv, PostsInv, ViaAscends
  <2> QED
    BY <2>1, <2>2 DEF PostsInv
<1>4. DataInv'
  <2>1. TypeOK' /\ current' >= current
    BY <1>1, <1>2 DEF ConnectionInv
  <2> QED
    BY <1>1, <2>1, DataKept
<1> QED
  BY <1>2, <1>3, <1>4 DEF IInv

LEMMA LinkIInv ==
    IInv /\ (BrokerReturns \/ \E c \in Clients : LinkBreaks(c) \/ LossDetected(c)) => IInv'
<1> SUFFICES ASSUME IInv,
                    BrokerReturns \/ \E c \in Clients : LinkBreaks(c) \/ LossDetected(c)
             PROVE  IInv'
  OBVIOUS
<1>1. UNCHANGED <<pipe, received, acked, loop, current, client, status, via>>
  BY DEF BrokerReturns, LinkBreaks, LossDetected, runner, posts
<1>2. faults' \in [{"breaks", "late", "restarts"} -> Nat]
  BY FaultType DEF IInv, ConnectionInv, TypeOK, BrokerReturns, LinkBreaks, LossDetected
<1>3. /\ brokerUp' \in BOOLEAN /\ link' \in [Clients -> Links]
      /\ \A c \in Clients : link'[c] = "open" => link[c] = "open"
  BY DEF IInv, ConnectionInv, TypeOK, Links, BrokerReturns, LinkBreaks, LossDetected
<1>4. TypeOK'
  BY <1>1, <1>2, <1>3 DEF IInv, ConnectionInv, TypeOK
<1>5. ConnectionInv'
  BY <1>1, <1>3, <1>4
     DEF IInv, ConnectionInv, LoopHasClient, OpenIsIterated, ClientIsCurrent
<1>6. PostsInv'
  BY <1>1 DEF IInv, PostsInv, CapturedByStatus, PostedInOrder, Posted, ViaAscends
<1>7. DataInv'
  <2>1. current' >= current
    BY <1>1, Numbers DEF IInv, ConnectionInv, TypeOK
  <2> QED
    BY <1>1, <1>4, <2>1, DataKept
<1> QED
  BY <1>5, <1>6, <1>7 DEF IInv

LEMMA CrashIInv == IInv /\ BrokerCrashes => IInv'
<1> SUFFICES ASSUME IInv, BrokerCrashes PROVE IInv'
  OBVIOUS
<1>1. UNCHANGED <<received, acked, loop, current, client, status, via>>
  BY DEF BrokerCrashes, runner, posts
<1>2. faults' \in [{"breaks", "late", "restarts"} -> Nat]
  BY FaultType DEF IInv, ConnectionInv, BrokerCrashes
<1>3. /\ brokerUp' \in BOOLEAN /\ link' \in [Clients -> Links]
      /\ \A c \in Clients : link'[c] = "open" => link[c] = "open"
  <2>1. \A c \in Clients : Broken(link[c]) \in Links /\ Broken(link[c]) # "open"
    BY DEF IInv, ConnectionInv, TypeOK, Links, Broken
  <2> QED
    BY <2>1 DEF BrokerCrashes
<1>4. pipe' = [c \in Clients |-> <<>>]
  BY DEF BrokerCrashes
<1>5. TypeOK'
  BY <1>1, <1>2, <1>3, <1>4 DEF IInv, ConnectionInv, TypeOK
<1>6. ConnectionInv'
  BY <1>1, <1>3, <1>5
     DEF IInv, ConnectionInv, LoopHasClient, OpenIsIterated, ClientIsCurrent
<1>7. PostsInv'
  BY <1>1 DEF IInv, PostsInv, CapturedByStatus, PostedInOrder, Posted, ViaAscends
<1>8. PipesAreQueues'
  BY <1>4, EmptyQueue DEF PipesAreQueues
<1>9. Confirmed' /\ LateReadsAreLost'
  <2>1. Published' = Published
    BY <1>1 DEF Published
  <2>2. Confirmed'
    BY <2>1, <1>1 DEF IInv, DataInv, Confirmed
  <2>3. LateReadsAreLost'
    BY <1>1 DEF IInv, DataInv, LateReadsAreLost
  <2> QED
    BY <2>2, <2>3
<1> QED
  BY <1>6, <1>7, <1>8, <1>9 DEF IInv, DataInv
-----------------------------------------------------------------------------
(* POST /command.                                                            *)

\* The next command to be posted comes after all that were.
LEMMA NextIsLast ==
    ASSUME IInv, NEW r \in Commands, NextPost(r)
    PROVE  /\ via[r] = None /\ status[r] = "idle"
           /\ \A q \in Commands : via[q] # None => q < r
<1>1. via[r] = None /\ status[r] = "idle"
  BY DEF NextPost, Posted, IInv, PostsInv, CapturedByStatus
<1>2. ASSUME NEW q \in Commands, via[q] # None PROVE q < r
  <2>1. Posted(q)
    BY <1>2 DEF Posted, IInv, PostsInv, CapturedByStatus
  <2>2. q # r
    BY <2>1 DEF NextPost
  <2>3. ~(r < q)
    BY <2>1 DEF NextPost, IInv, PostsInv, PostedInOrder
  <2> QED
    BY <2>2, <2>3, Numbers
<1> QED
  BY <1>1, <1>2

\* A post, with or without a captured client, keeps the order of the posts.
LEMMA PostKeepsOrder ==
    ASSUME IInv, NEW r \in Commands, NextPost(r), NEW s \in Statuses \ {"idle"},
           status' = [status EXCEPT ![r] = s],
           \/ UNCHANGED via /\ s = "refused"
           \/ client # None /\ via' = [via EXCEPT ![r] = client],
           UNCHANGED current
    PROVE  PostsInv'
<1>1. /\ via[r] = None /\ status[r] = "idle"
      /\ \A q \in Commands : via[q] # None => q < r
  BY NextIsLast
<1>2. status \in [Commands -> Statuses] /\ via \in [Commands -> Clients \cup {None}]
  BY DEF IInv, ConnectionInv, TypeOK
<1>3. CapturedByStatus'
  BY <1>2 DEF IInv, PostsInv, CapturedByStatus
<1>4. PostedInOrder'
  <2> SUFFICES ASSUME NEW p \in Commands, NEW q \in Commands, p < q, status'[q] # "idle"
               PROVE  status'[p] # "idle"
    BY DEF PostedInOrder, Posted
  <2>1. CASE q = r
    BY <2>1, <1>2 DEF NextPost, Posted
  <2>2. CASE q # r
    BY <2>2, <1>2 DEF IInv, PostsInv, PostedInOrder, Posted
  <2> QED
    BY <2>1, <2>2
<1>5. ViaAscends'
  <2>1. \A p \in Commands : via[p] \in Int /\ via[p] <= current
    BY ClientsAreNumbers DEF IInv, ConnectionInv, PostsInv, ViaAscends
  <2>2. CASE UNCHANGED via
    BY <2>2 DEF IInv, PostsInv, ViaAscends
  <2>3. CASE client # None /\ via' = [via EXCEPT ![r] = client]
    <3>1. client = current /\ current \in Int
      BY <2>3, ClientsAreNumbers DEF IInv, ConnectionInv, ClientIsCurrent
    <3> SUFFICES ASSUME NEW p \in Commands, NEW q \in Commands
                 PROVE  /\ via'[p] <= current
                        /\ p < q /\ via'[p] # None /\ via'[q] # None => via'[p] <= via'[q]
      BY DEF ViaAscends
    <3>2. via'[p] <= current
      BY <2>1, <2>3, <3>1, <1>2
    <3>3. ASSUME p < q, via'[p] # None, via'[q] # None PROVE via'[p] <= via'[q]
      <4>1. CASE q = r
        BY <4>1, <2>3, <3>1, <3>2, <1>2
      <4>2. CASE q # r
        <5>1. via'[q] = via[q] /\ q < r
          BY <4>2, <3>3, <2>3, <1>1, <1>2
        <5>2. p # r /\ via'[p] = via[p]
          BY <5>1, <3>3, <2>3, <1>2, Numbers
        <5> QED
          BY <5>1, <5>2, <3>3 DEF IInv, PostsInv, ViaAscends
      <4> QED
        BY <4>1, <4>2
    <3> QED
      BY <3>2, <3>3
  <2> QED
    BY <2>2, <2>3
<1> QED
  BY <1>3, <1>4, <1>5 DEF PostsInv

\* A step of the posts alone keeps the connection, whether or not it clears the client.
LEMMA ConnectionKept ==
    ASSUME IInv, UNCHANGED <<link, loop, current>>, client' \in {client, None}, TypeOK'
    PROVE  ConnectionInv'
BY DEF IInv, ConnectionInv, LoopHasClient, OpenIsIterated, ClientIsCurrent

LEMMA RefusedPostIInv ==
    IInv /\ (\E r \in Commands : PostWithoutClient(r) \/ PostOnClosed(r)) => IInv'
<1> SUFFICES ASSUME IInv, NEW r \in Commands, PostWithoutClient(r) \/ PostOnClosed(r)
             PROVE  IInv'
  OBVIOUS
<1>1. /\ UNCHANGED <<brokerUp, link, pipe, received, acked, loop, current, faults>>
      /\ client' \in {client, None}
      /\ NextPost(r) /\ status' = [status EXCEPT ![r] = "refused"]
      /\ \/ UNCHANGED via
         \/ client # None /\ via' = [via EXCEPT ![r] = client]
  BY DEF PostWithoutClient, PostOnClosed, network, runner
<1>2. TypeOK'
  BY <1>1 DEF IInv, ConnectionInv, TypeOK, Statuses
<1>3. ConnectionInv'
  BY <1>1, <1>2, ConnectionKept
<1>4. PostsInv'
  <2>1. "refused" \in Statuses \ {"idle"}
    BY DEF Statuses
  <2> QED
    BY <1>1, <2>1, PostKeepsOrder
<1>5. DataInv'
  <2>1. current' >= current
    BY <1>1, ClientsAreNumbers DEF IInv, ConnectionInv
  <2>2. \A q \in Commands : via'[q] # via[q] =>
            via[q] = None /\ status[q] = "idle" /\ via'[q] # None
    BY <1>1, NextIsLast DEF IInv, ConnectionInv, TypeOK
  <2>3. \A q \in Commands : status'[q] = "accepted" => status[q] = "accepted"
    BY <1>1 DEF IInv, ConnectionInv, TypeOK
  <2> QED
    BY <1>1, <1>2, <2>1, <2>2, <2>3, DataKept
<1> QED
  BY <1>3, <1>4, <1>5 DEF IInv

LEMMA TimeoutIInv == IInv /\ (\E r \in Commands : Timeout(r)) => IInv'
<1> SUFFICES ASSUME IInv, NEW r \in Commands, Timeout(r) PROVE IInv'
  OBVIOUS
<1>1. /\ UNCHANGED <<brokerUp, link, pipe, received, acked, loop, current, via>>
      /\ client' = None /\ status[r] = "awaiting"
      /\ status' = [status EXCEPT ![r] = "refused"]
  BY DEF Timeout, network, runner
<1>2. faults' \in [{"breaks", "late", "restarts"} -> Nat]
  <2>1. CASE link[via[r]] = "open"
    BY <2>1, FaultType DEF IInv, ConnectionInv, Timeout
  <2>2. CASE link[via[r]] # "open"
    BY <2>2 DEF IInv, ConnectionInv, TypeOK, Timeout
  <2> QED
    BY <2>1, <2>2
<1>3. TypeOK'
  BY <1>1, <1>2 DEF IInv, ConnectionInv, TypeOK, Statuses
<1>4. ConnectionInv'
  BY <1>1, <1>3, ConnectionKept
<1>5. PostsInv'
  BY <1>1 DEF IInv, ConnectionInv, TypeOK, PostsInv, CapturedByStatus, PostedInOrder,
              Posted, ViaAscends
<1>6. DataInv'
  <2>1. current' >= current
    BY <1>1, ClientsAreNumbers DEF IInv, ConnectionInv
  <2>2. \A q \in Commands : status'[q] = "accepted" => status[q] = "accepted"
    BY <1>1 DEF IInv, ConnectionInv, TypeOK
  <2> QED
    BY <1>1, <1>3, <2>1, <2>2, DataKept
<1> QED
  BY <1>4, <1>5, <1>6 DEF IInv


LEMMA WrittenPostIInv == IInv /\ (\E r \in Commands : PostWritten(r)) => IInv'
<1> SUFFICES ASSUME IInv, NEW r \in Commands, PostWritten(r) PROVE IInv'
  OBVIOUS
<1>1. /\ UNCHANGED <<brokerUp, link, received, acked, loop, current, client, faults>>
      /\ client # None /\ NextPost(r)
      /\ status' = [status EXCEPT ![r] = "awaiting"]
      /\ via' = [via EXCEPT ![r] = client]
      /\ pipe' = [pipe EXCEPT ![client] = Append(pipe[client], r)]
  BY DEF PostWritten, runner
<1>2. /\ client \in Clients /\ pipe \in [Clients -> Seq(Commands)]
      /\ via \in [Commands -> Clients \cup {None}] /\ status \in [Commands -> Statuses]
      /\ received \in Seq(Commands)
  BY <1>1 DEF IInv, ConnectionInv, TypeOK
<1>3. /\ via[r] = None /\ status[r] = "idle"
      /\ \A q \in Commands : via[q] # None => q < r
  BY <1>1, NextIsLast
<1>4. TypeOK'
  <2>1. pipe' \in [Clients -> Seq(Commands)]
    BY <1>1, <1>2, AppendQueue
  <2> QED
    BY <1>1, <1>2, <2>1 DEF IInv, ConnectionInv, TypeOK, Statuses
<1>5. ConnectionInv'
  BY <1>1, <1>4, ConnectionKept
<1>6. PostsInv'
  <2>1. "awaiting" \in Statuses \ {"idle"}
    BY DEF Statuses
  <2> QED
    BY <1>1, <2>1, PostKeepsOrder
<1>7. Published' = Published /\ Published \subseteq Commands
  <2>1. \A i \in 1..Len(received) : received[i] \in Commands
    BY <1>2
  <2> QED
    BY <1>1, <2>1 DEF Published
<1>8. /\ \A y \in Published : via[y] # None /\ y # r /\ via'[y] = via[y]
      /\ \A c \in Clients : \A x \in Entries(pipe[c]) :
            x \in Commands /\ via[x] = c /\ x # r /\ via'[x] = via[x]
  <2>1. \A y \in Published : via[y] # None
    BY DEF IInv, DataInv, Confirmed
  <2>2. \A c \in Clients : \A x \in Entries(pipe[c]) : x \in Commands /\ via[x] = c /\ c # None
    <3>1. \A c \in Clients : Entries(pipe[c]) \subseteq Commands
      BY <1>2 DEF Entries
    <3> QED
      BY <3>1, Numbers DEF IInv, DataInv, PipesAreQueues
  <2> QED
    BY <2>1, <2>2, <1>1, <1>2, <1>3, <1>7
<1>9. PipesAreQueues'
  <2> SUFFICES ASSUME NEW c \in Clients
               PROVE  /\ Increasing(pipe'[c])
                      /\ \A x \in Entries(pipe'[c]) :
                            via'[x] = c /\ \A y \in Published' : via'[y] = c => y < x
    BY DEF PipesAreQueues
  <2>1. /\ Increasing(pipe[c])
        /\ \A x \in Entries(pipe[c]) : \A y \in Published : via[y] = c => y < x
    BY DEF IInv, DataInv, PipesAreQueues
  <2>2. CASE c # client
    <3>1. pipe'[c] = pipe[c]
      BY <2>2, <1>1, <1>2
    <3> QED
      BY <3>1, <2>1, <1>7, <1>8
  <2>3. CASE c = client
    <3>1. pipe'[c] = Append(pipe[c], r) /\ pipe[c] \in Seq(Commands)
      BY <2>3, <1>1, <1>2
    <3>2. \A x \in Entries(pipe[c]) : x < r
      BY <1>3, <1>8, Numbers
    <3>3. Increasing(pipe'[c]) /\ Entries(pipe'[c]) = Entries(pipe[c]) \cup {r}
      BY <2>1, <3>1, <3>2, AppendQueue
    <3>4. via'[r] = c /\ \A y \in Published : y < r
      BY <2>3, <1>1, <1>2, <1>3, <1>7, <1>8
    <3> QED
      BY <2>1, <3>3, <3>4, <1>7, <1>8
  <2> QED
    BY <2>2, <2>3
<1>10. Confirmed'
  <2>1. \A q \in Commands : status'[q] = "accepted" => status[q] = "accepted"
    BY <1>1, <1>2
  <2> QED
    BY <1>1, <1>7, <1>8, <2>1 DEF IInv, DataInv, Confirmed
<1>11. LateReadsAreLost'
  <2> SUFFICES ASSUME NEW i \in 1..Len(received), NEW k \in 1..Len(received),
                      i < k, received[k] <= received[i]
               PROVE  status'[received[k]] # "accepted" /\ via'[received[k]] < current'
    BY <1>1 DEF LateReadsAreLost
  <2>1. received[k] \in Published /\ received[k] \in Commands
    BY <1>7 DEF Published
  <2>2. status[received[k]] # "accepted" /\ via[received[k]] < current
    BY DEF IInv, DataInv, LateReadsAreLost
  <2> QED
    BY <2>1, <2>2, <1>1, <1>2, <1>8
<1> QED
  BY <1>5, <1>6, <1>9, <1>10, <1>11 DEF IInv, DataInv

\* The PUBACK comes over an open connection, so the command was not read late.
LEMMA PubackIInv == IInv /\ (\E r \in Commands : PubackArrives(r)) => IInv'
<1> SUFFICES ASSUME IInv, NEW r \in Commands, PubackArrives(r) PROVE IInv'
  OBVIOUS
<1>1. /\ UNCHANGED <<brokerUp, link, pipe, received, acked, loop, current, client, via, faults>>
      /\ status[r] = "awaiting" /\ r \in acked /\ link[via[r]] = "open"
      /\ status' = [status EXCEPT ![r] = "accepted"]
  BY DEF PubackArrives, network, runner
<1>2. status \in [Commands -> Statuses] /\ via \in [Commands -> Clients \cup {None}]
  BY DEF IInv, ConnectionInv, TypeOK
<1>3. TypeOK'
  BY <1>1 DEF IInv, ConnectionInv, TypeOK, Statuses
<1>4. ConnectionInv'
  BY <1>1, <1>3, ConnectionKept
<1>5. PostsInv'
  BY <1>1, <1>2 DEF IInv, PostsInv, CapturedByStatus, PostedInOrder, Posted, ViaAscends
<1>6. via[r] = current
  <2>1. via[r] \in Clients
    BY <1>1, <1>2 DEF IInv, PostsInv, CapturedByStatus
  <2> QED
    BY <1>1, <2>1 DEF IInv, ConnectionInv, OpenIsIterated
<1>7. Published' = Published
  BY <1>1 DEF Published
<1>8. PipesAreQueues'
  BY <1>1, <1>7 DEF IInv, DataInv, PipesAreQueues
<1>9. Confirmed'
  BY <1>1, <1>2, <1>7 DEF IInv, DataInv, Confirmed
<1>10. LateReadsAreLost'
  <2> SUFFICES ASSUME NEW i \in 1..Len(received), NEW k \in 1..Len(received),
                      i < k, received[k] <= received[i]
               PROVE  status'[received[k]] # "accepted" /\ via[received[k]] < current
    BY <1>1 DEF LateReadsAreLost
  <2>1. status[received[k]] # "accepted" /\ via[received[k]] < current
    BY DEF IInv, DataInv, LateReadsAreLost
  <2>2. received[k] # r
    BY <2>1, <1>6, ClientsAreNumbers DEF IInv, ConnectionInv
  <2> QED
    BY <2>1, <2>2, <1>1, <1>2
<1> QED
  BY <1>4, <1>5, <1>8, <1>9, <1>10 DEF IInv, DataInv
-----------------------------------------------------------------------------
(* The broker reads, and the process restarts.                               *)

\* What a read makes of the published commands.
LEMMA ReadPublishes ==
    ASSUME IInv, NEW c \in Clients, BrokerReads(c)
    PROVE  /\ Head(pipe[c]) \in Commands /\ Head(pipe[c]) \notin Published
           /\ via[Head(pipe[c])] = c
           /\ Published \subseteq Commands
           /\ Published' = Published \cup {Head(pipe[c])}
           /\ received' = Append(received, Head(pipe[c])) /\ received \in Seq(Commands)
<1>1. /\ pipe[c] \in Seq(Commands) /\ pipe[c] # <<>> /\ received \in Seq(Commands)
      /\ received' = Append(received, Head(pipe[c]))
  BY DEF IInv, ConnectionInv, TypeOK, BrokerReads
<1>2. Head(pipe[c]) \in Commands /\ Head(pipe[c]) \in Entries(pipe[c])
  BY <1>1, HeadOfQueue
<1>3. via[Head(pipe[c])] = c /\ Head(pipe[c]) \notin Published
  BY <1>2, Numbers DEF IInv, DataInv, PipesAreQueues
<1>4. Published' = Published \cup {Head(pipe[c])}
  BY <1>1, <1>2, AppendQueue, PublishedEntries
<1>5. Published \subseteq Commands
  <2>1. \A i \in 1..Len(received) : received[i] \in Commands
    BY <1>1
  <2> QED
    BY <2>1 DEF Published
<1> QED
  BY <1>1, <1>2, <1>3, <1>4, <1>5

LEMMA ReadIInv == IInv /\ (\E c \in Clients : BrokerReads(c)) => IInv'
<1> SUFFICES ASSUME IInv, NEW d \in Clients, BrokerReads(d) PROVE IInv'
  OBVIOUS
<1> DEFINE x == Head(pipe[d])
<1>1. /\ UNCHANGED <<brokerUp, link, loop, current, client, status, via, faults>>
      /\ pipe[d] # <<>>
      /\ acked' = acked \cup {x}
      /\ pipe' = [pipe EXCEPT ![d] = Tail(pipe[d])]
  BY DEF BrokerReads, runner, posts
<1>2. /\ x \in Commands /\ x \notin Published /\ via[x] = d
      /\ Published \subseteq Commands
      /\ Published' = Published \cup {x}
      /\ received' = Append(received, x) /\ received \in Seq(Commands)
  BY ReadPublishes
<1>3. pipe \in [Clients -> Seq(Commands)] /\ pipe[d] \in Seq(Commands)
  BY DEF IInv, ConnectionInv, TypeOK
<1>4. /\ Tail(pipe[d]) \in Seq(Commands) /\ x \in Entries(pipe[d])
      /\ Entries(Tail(pipe[d])) \subseteq Entries(pipe[d])
      /\ Increasing(Tail(pipe[d]))
      /\ \A y \in Entries(Tail(pipe[d])) : x < y
  BY <1>1, <1>3, HeadOfQueue DEF IInv, DataInv, PipesAreQueues
<1> HIDE DEF x
<1>5. TypeOK'
  <2>1. pipe' \in [Clients -> Seq(Commands)] /\ received' \in Seq(Commands)
    BY <1>1, <1>2, <1>3, <1>4, AppendQueue
  <2> QED
    BY <1>1, <1>2, <2>1 DEF IInv, ConnectionInv, TypeOK
<1>6. ConnectionInv'
  BY <1>1, <1>5, ConnectionKept
<1>7. PostsInv'
  BY <1>1 DEF IInv, PostsInv, CapturedByStatus, PostedInOrder, Posted, ViaAscends
<1>8. PipesAreQueues'
  <2> SUFFICES ASSUME NEW c \in Clients
               PROVE  /\ Increasing(pipe'[c])
                      /\ \A z \in Entries(pipe'[c]) :
                            via[z] = c /\ \A y \in Published' : via[y] = c => y < z
    BY <1>1 DEF PipesAreQueues
  <2>1. /\ Increasing(pipe[c])
        /\ \A z \in Entries(pipe[c]) :
              via[z] = c /\ \A y \in Published : via[y] = c => y < z
    BY DEF IInv, DataInv, PipesAreQueues
  <2>2. CASE c # d
    <3>1. pipe'[c] = pipe[c]
      BY <2>2, <1>1, <1>3
    <3> QED
      BY <2>1, <2>2, <3>1, <1>2
  <2>3. CASE c = d
    <3>1. pipe'[c] = Tail(pipe[c])
      BY <2>3, <1>1, <1>3
    <3> QED
      BY <2>1, <2>3, <3>1, <1>2, <1>4
  <2> QED
    BY <2>2, <2>3
<1>9. Confirmed'
  <2>1. via[x] # None
    BY <1>2, Numbers
  <2> QED
    BY <2>1, <1>1, <1>2 DEF IInv, DataInv, Confirmed
<1>10. LateReadsAreLost'
  <2> DEFINE n == Len(received)
  <2>1. /\ Len(received') = n + 1 /\ n \in Nat /\ received'[n + 1] = x
        /\ \A i \in 1..n : received'[i] = received[i]
    BY <1>2
  <2> HIDE DEF n
  <2> SUFFICES ASSUME NEW i \in 1..(n + 1), NEW k \in 1..(n + 1), i < k,
                      received'[k] <= received'[i]
               PROVE  status[received'[k]] # "accepted" /\ via[received'[k]] < current
    BY <1>1, <2>1 DEF LateReadsAreLost
  <2>2. i \in 1..n /\ received'[i] = received[i]
    BY <2>1
  <2>3. CASE k # n + 1
    <3>1. k \in 1..n /\ received'[k] = received[k]
      BY <2>1, <2>3
    <3> QED
      BY <2>2, <3>1 DEF IInv, DataInv, LateReadsAreLost, n
  <2>4. CASE k = n + 1
    <3> DEFINE y == received[i]
    <3>1. y \in Published /\ y \in Commands /\ via[y] # None
      BY <2>2, <1>2 DEF Published, n, IInv, DataInv, Confirmed
    <3>2. x < y
      <4>1. x <= y /\ x # y
        BY <2>1, <2>2, <2>4, <3>1, <1>2
      <4> QED
        BY <4>1, <3>1, <1>2, Numbers
    <3> HIDE DEF y
    <3>3. via[y] # d
      <4>1. via[y] = d => y < x
        BY <3>1, <1>4 DEF IInv, DataInv, PipesAreQueues
      <4> QED
        BY <4>1, <3>1, <3>2, <1>2, Numbers
    <3>4. via[x] <= via[y] /\ via[y] <= current
      BY <3>1, <3>2, <1>2, Numbers DEF IInv, PostsInv, ViaAscends
    <3>5. via[x] < current
      <4>1. via[x] \in Int /\ via[y] \in Int /\ current \in Int
        BY <3>1, <1>2, ClientsAreNumbers DEF IInv, ConnectionInv
      <4> QED
        BY <4>1, <3>3, <3>4, <1>2
    <3>6. status[x] # "accepted"
      BY <1>2 DEF IInv, DataInv, Confirmed
    <3> QED
      BY <3>5, <3>6, <2>1, <2>4
  <2> QED
    BY <2>3, <2>4
<1> QED
  BY <1>6, <1>7, <1>8, <1>9, <1>10 DEF IInv, DataInv

LEMMA RestartIInv == IInv /\ Restart => IInv'
<1> SUFFICES ASSUME IInv, Restart PROVE IInv'
  OBVIOUS
<1>1. /\ UNCHANGED <<brokerUp, pipe, received, acked, current, via>>
      /\ link' = [c \in Clients |-> IF link[c] = "unused" THEN "unused" ELSE "closed"]
      /\ loop' = "connecting" /\ client' = None
      /\ status' = [r \in Commands |-> IF status[r] = "awaiting" THEN "broken" ELSE status[r]]
  BY DEF Restart
<1>2. faults' \in [{"breaks", "late", "restarts"} -> Nat]
  BY FaultType DEF IInv, ConnectionInv, Restart
<1>3. TypeOK'
  <2>1. link' \in [Clients -> Links] /\ status' \in [Commands -> Statuses]
    BY <1>1 DEF IInv, ConnectionInv, TypeOK, Links, Statuses
  <2> QED
    BY <1>1, <1>2, <2>1 DEF IInv, ConnectionInv, TypeOK, Loops
<1>4. ConnectionInv'
  BY <1>1, <1>3 DEF ConnectionInv, LoopHasClient, OpenIsIterated, ClientIsCurrent
<1>5. PostsInv'
  BY <1>1 DEF IInv, PostsInv, CapturedByStatus, PostedInOrder, Posted, ViaAscends
<1>6. DataInv'
  <2>1. current' >= current
    BY <1>1, ClientsAreNumbers DEF IInv, ConnectionInv
  <2>2. \A q \in Commands : status'[q] = "accepted" => status[q] = "accepted"
    BY <1>1
  <2> QED
    BY <1>1, <1>3, <2>1, <2>2, DataKept
<1> QED
  BY <1>4, <1>5, <1>6 DEF IInv
-----------------------------------------------------------------------------
(* The theorems.                                                             *)

\* Every reachable state satisfies the inductive invariant.
THEOREM Invariance == Spec => []IInv
<1>1. IInv /\ [Next]_vars => IInv'
  <2> SUFFICES ASSUME IInv, [Next]_vars PROVE IInv'
    OBVIOUS
  <2>1. CASE Connect \/ RunFails \/ Wake
    BY <2>1, RunIInv
  <2>2. CASE \E r \in Commands : PostWithoutClient(r) \/ PostOnClosed(r)
    BY <2>2, RefusedPostIInv
  <2>3. CASE \E r \in Commands : PostWritten(r)
    BY <2>3, WrittenPostIInv
  <2>4. CASE \E r \in Commands : PubackArrives(r)
    BY <2>4, PubackIInv
  <2>5. CASE \E r \in Commands : Timeout(r)
    BY <2>5, TimeoutIInv
  <2>6. CASE \E c \in Clients : BrokerReads(c)
    BY <2>6, ReadIInv
  <2>7. CASE BrokerReturns \/ \E c \in Clients : LinkBreaks(c) \/ LossDetected(c)
    BY <2>7, LinkIInv
  <2>8. CASE BrokerCrashes
    BY <2>8, CrashIInv
  <2>9. CASE Restart
    BY <2>9, RestartIInv
  <2>10. CASE UNCHANGED vars
    <3>1. /\ UNCHANGED <<brokerUp, link, pipe, received, acked, loop, current>>
          /\ UNCHANGED <<client, status, via, faults>>
      BY <2>10 DEF vars, network, runner, posts
    <3>2. TypeOK' /\ current' >= current
      BY <3>1, ClientsAreNumbers DEF IInv, ConnectionInv, TypeOK
    <3>3. ConnectionInv'
      BY <3>1, <3>2, ConnectionKept
    <3>4. PostsInv'
      BY <3>1 DEF IInv, PostsInv, CapturedByStatus, PostedInOrder, Posted, ViaAscends
    <3>5. DataInv'
      BY <3>1, <3>2, DataKept
    <3> QED
      BY <3>3, <3>4, <3>5 DEF IInv
  <2> QED
    BY <2>1, <2>2, <2>3, <2>4, <2>5, <2>6, <2>7, <2>8, <2>9, <2>10 DEF Next
<1> QED
  BY InitIInv, <1>1, PTL DEF Spec

\* Types hold for any number of commands, clients and faults.
THEOREM TypeCorrect == Spec => []TypeOK
<1>1. IInv => TypeOK
  BY DEF IInv, ConnectionInv
<1> QED
  BY Invariance, <1>1, PTL

\* publish() never captures a client that run() has given up, and no reconnection
\* leaves an earlier connection open (Publisher.run and publish).
THEOREM KeepsOneClient == Spec => []OneClient
<1>1. IInv => OneClient
  BY DEF IInv, ConnectionInv, OpenIsIterated, OneConnection, OneClient
<1> QED
  BY Invariance, <1>1, PTL

\* Fail, don't buffer: a 503 without an attempt is not followed by a publication.
THEOREM NothingBuffered == Spec => []RefusedUnsentStaysUnsent
<1>1. IInv => RefusedUnsentStaysUnsent
  BY DEF IInv, DataInv, Confirmed, RefusedUnsentStaysUnsent
<1> QED
  BY Invariance, <1>1, PTL

\* Accepted commands were received in the order of their posts, across any number of
\* reconnections: what was read late belongs to a connection that is given up.
THEOREM OrderKept == Spec => []AcceptedInOrder
<1>1. IInv => AcceptedInOrder
  <2> SUFFICES ASSUME IInv, NEW i \in 1..Len(received), NEW k \in 1..Len(received),
                      i < k, status[received[i]] = "accepted", status[received[k]] = "accepted"
               PROVE  received[i] < received[k]
    BY DEF AcceptedInOrder
  <2>1. received[i] \in Commands /\ received[k] \in Commands
    BY DEF IInv, ConnectionInv, TypeOK
  <2>2. ~(received[k] <= received[i])
    BY DEF IInv, DataInv, LateReadsAreLost
  <2> QED
    BY <2>1, <2>2, Numbers
<1> QED
  BY Invariance, <1>1, PTL


(* The protocol implements the promise of the endpoint.                      *)

answers == [r \in Commands |-> IF status[r] \in {"idle", "awaiting"} THEN "none" ELSE status[r]]

\* A step that reads nothing and answers nobody is a stutter of the promise.
LEMMA QuietStep ==
    ASSUME UNCHANGED received, answers' = answers
    PROVE  UNCHANGED <<answers, Published>>
BY DEF Published

\* A POST without an answer gets one.
LEMMA AnswerStep ==
    ASSUME TypeOK, NEW r \in Commands, status[r] \in {"idle", "awaiting"},
           NEW a \in {"accepted", "refused"}, status' = [status EXCEPT ![r] = a]
    PROVE  answers[r] = "none" /\ answers' = [answers EXCEPT ![r] = a]
BY DEF TypeOK, answers

LEMMA PromiseStep ==
    ASSUME IInv, [Next]_vars
    PROVE  [Owed!Next]_<<answers, Published>>
<1>1. TypeOK
  BY DEF IInv, ConnectionInv
<1>2. ASSUME UNCHANGED received PROVE Published' = Published
  BY <1>2 DEF Published
<1>3. ASSUME Connect \/ RunFails \/ Wake \/ BrokerCrashes \/ BrokerReturns
                \/ \E c \in Clients : LinkBreaks(c) \/ LossDetected(c)
      PROVE  UNCHANGED <<answers, Published>>
  <2>1. UNCHANGED <<received, status>>
    BY <1>3 DEF Connect, RunFails, Wake, BrokerCrashes, BrokerReturns, LinkBreaks,
                LossDetected, network, posts
  <2> QED
    BY <2>1, <1>2 DEF answers
<1>4. ASSUME NEW r \in Commands, PostWritten(r) PROVE UNCHANGED <<answers, Published>>
  <2>1. status[r] = "idle" /\ status' = [status EXCEPT ![r] = "awaiting"] /\ UNCHANGED received
    BY <1>4 DEF PostWritten, NextPost, Posted
  <2> QED
    BY <2>1, <1>1, <1>2 DEF answers, TypeOK
<1>5. ASSUME NEW r \in Commands, PostWithoutClient(r) \/ PostOnClosed(r) \/ Timeout(r)
      PROVE  Owed!Answer(r, "refused")
  <2>1. /\ status[r] \in {"idle", "awaiting"} /\ UNCHANGED received
        /\ status' = [status EXCEPT ![r] = "refused"]
    BY <1>5 DEF PostWithoutClient, PostOnClosed, Timeout, NextPost, Posted, network
  <2>2. answers[r] = "none" /\ answers' = [answers EXCEPT ![r] = "refused"]
    BY <2>1, <1>1, AnswerStep
  <2> QED
    BY <2>1, <2>2, <1>2 DEF Owed!Answer, answers
<1>6. ASSUME NEW r \in Commands, PubackArrives(r) PROVE Owed!Answer(r, "accepted")
  <2>1. /\ status[r] \in {"idle", "awaiting"} /\ UNCHANGED received
        /\ status' = [status EXCEPT ![r] = "accepted"] /\ r \in acked
    BY <1>6 DEF PubackArrives, network
  <2>2. answers[r] = "none" /\ answers' = [answers EXCEPT ![r] = "accepted"]
    BY <2>1, <1>1, AnswerStep
  <2>3. r \in Published
    BY <2>1 DEF IInv, DataInv, Confirmed
  <2> QED
    BY <2>1, <2>2, <2>3, <1>2 DEF Owed!Answer, answers
<1>7. ASSUME NEW c \in Clients, BrokerReads(c) PROVE Owed!Publish(Head(pipe[c]))
  <2>1. answers' = answers
    BY <1>7 DEF BrokerReads, posts, answers
  <2> QED
    BY <2>1, <1>7, ReadPublishes DEF Owed!Publish, answers
<1>8. ASSUME Restart PROVE Owed!BreakOff
  <2> DEFINE pending == {r \in Commands : status[r] = "awaiting"}
  <2>1. /\ UNCHANGED received
        /\ status' = [r \in Commands |-> IF status[r] = "awaiting" THEN "broken" ELSE status[r]]
    BY <1>8 DEF Restart
  <2>2. answers' = [r \in Commands |-> IF r \in pending THEN "broken" ELSE answers[r]]
    BY <2>1 DEF answers
  <2>3. pending \in SUBSET {r \in Commands : answers[r] = "none"}
    BY DEF answers
  <2> QED
    BY <2>1, <2>2, <2>3, <1>2 DEF Owed!BreakOff, answers
<1>9. ASSUME UNCHANGED vars PROVE UNCHANGED <<answers, Published>>
  <2>1. UNCHANGED <<received, status>>
    BY <1>9 DEF vars, network, posts
  <2> QED
    BY <2>1, <1>2 DEF answers
<1>10. \A c \in Clients : BrokerReads(c) => Head(pipe[c]) \in Commands
  BY ReadPublishes
<1> QED
  BY <1>3, <1>4, <1>5, <1>6, <1>7, <1>8, <1>9, <1>10 DEF Next, Owed!Next

\* At most once, 202 for published commands only, one answer: the Publisher with its
\* reconnections, timeouts and restarts implements CommandPromise.
THEOREM KeepsThePromise == Spec => Promise
<1>1. Init => Owed!Init
  BY EmptyQueue, PublishedEntries DEF Init, Owed!Init
<1>2. IInv /\ [Next]_vars => [Owed!Next]_Owed!vars
  BY PromiseStep DEF Owed!vars, answers
<1> QED
  BY Invariance, <1>1, <1>2, PTL DEF Spec, Promise, Owed!Spec
=============================================================================
