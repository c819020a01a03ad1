--------------------------- MODULE StateSvcProofs ---------------------------
(***************************************************************************)
(* What StateSvc guarantees for any vocabulary, any JointState layout, any  *)
(* window width and any number of measurements and faults: types, the       *)
(* hand-over between the two tasks, the advance of the answers, that the    *)
(* pruning loop keeps exactly the samples of the window, and how far apart  *)
(* the values of one published state can be.  Then the same of StateHub,    *)
(* for any set of streams, any intervals and any number of publications:    *)
(* its mailboxes and its refinement of LatestWins.  Last of TwinFeed, which *)
(* implements both and takes each sample on to the streams.                 *)
(***************************************************************************)
EXTENDS TwinFeed, FiniteSetTheorems, SequenceTheorems, TLAPS

(* The loop of RollingWindow.observe.                                        *)

\* What popleft() leaves is a suffix; everything before it is older than the
\* cutoff, and if anything is left its first entry is not.
LEMMA PruneSuffix ==
    ASSUME NEW h \in Seq(Nat), NEW cutoff \in Int
    PROVE  \E p \in 1..(Len(h) + 1) :
              /\ Prune(h, cutoff) = SubSeq(h, p, Len(h))
              /\ \A i \in 1..(p - 1) : h[i] < cutoff
              /\ p <= Len(h) => h[p] >= cutoff
<1> DEFINE stale == {i \in 1..Len(h) : \A k \in 1..i : h[k] < cutoff}
           c == Cardinality(stale)
<1>1. Len(h) \in Nat
  OBVIOUS
<1>2. IsFiniteSet(1..Len(h)) /\ Cardinality(1..Len(h)) = Len(h)
  <2>1. 1 \in Int /\ Len(h) \in Int
    BY <1>1
  <2>2. /\ IsFiniteSet(1..Len(h))
        /\ Cardinality(1..Len(h)) = IF 1 > Len(h) THEN 0 ELSE Len(h) - 1 + 1
    BY <2>1, FS_Interval
  <2> QED
    BY <2>2, <1>1
<1>3. IsFiniteSet(stale) /\ c \in Nat /\ c <= Len(h)
  BY <1>2, FS_Subset, FS_CardinalityType
<1>4. \A i \in stale : 1..i \subseteq stale
  BY <1>1
<1>5. stale \subseteq 1..c
  <2> SUFFICES ASSUME NEW i \in stale PROVE i \in 1..c
    OBVIOUS
  <2>1. i \in Nat /\ i >= 1
    BY <1>1
  <2>2. Cardinality(1..i) = i
    BY <2>1, FS_Interval
  <2>3. 1..i \in SUBSET stale
    BY <1>4
  <2>4. Cardinality(1..i) <= c
    BY <2>3, <1>3, FS_Subset
  <2> QED
    BY <2>1, <2>2, <2>4, <1>3
<1>6. stale = 1..c
  <2>1. IsFiniteSet(1..c) /\ Cardinality(1..c) = c
    BY <1>3, FS_Interval
  <2>2. stale \in SUBSET (1..c)
    BY <1>5
  <2> QED
    BY <2>1, <2>2, FS_Subset
<1>7. Prune(h, cutoff) = SubSeq(h, c + 1, Len(h))
  BY DEF Prune
<1> HIDE DEF c
<1>8. \A i \in 1..c : h[i] < cutoff
  <2> SUFFICES ASSUME NEW i \in 1..c PROVE h[i] < cutoff
    OBVIOUS
  <2>1. i \in stale /\ i \in 1..i
    BY <1>6, <1>3
  <2> QED
    BY <2>1
<1>9. ASSUME c + 1 <= Len(h) PROVE h[c + 1] >= cutoff
  <2> SUFFICES ASSUME ~(h[c + 1] >= cutoff) PROVE FALSE
    OBVIOUS
  <2>1. c + 1 \in 1..Len(h)
    BY <1>9, <1>3, <1>1
  <2>2. h[c + 1] \in Nat
    BY <2>1, ElementOfSeq
  <2>3. \A k \in 1..(c + 1) : h[k] < cutoff
    BY <1>8, <2>2, <1>3
  <2>4. c + 1 \in stale
    BY <2>1, <2>3
  <2>5. c + 1 \notin 1..c
    BY <1>3
  <2> QED
    BY <2>4, <2>5, <1>6
<1>10. c + 1 \in 1..(Len(h) + 1) /\ (c + 1) - 1 = c
  BY <1>3, <1>1
<1> HIDE DEF c
<1> QED
  BY <1>7, <1>8, <1>9, <1>10

LEMMA PruneType ==
    ASSUME NEW h \in Seq(Nat), NEW cutoff \in Int
    PROVE  Prune(h, cutoff) \in Seq(Nat)
<1>1. PICK p \in 1..(Len(h) + 1) : Prune(h, cutoff) = SubSeq(h, p, Len(h))
  BY PruneSuffix
<1>2. Len(h) \in Nat /\ p \in Int
  OBVIOUS
<1>3. \A i \in p..Len(h) : h[i] \in Nat
  <2> SUFFICES ASSUME NEW i \in p..Len(h) PROVE h[i] \in Nat
    OBVIOUS
  <2>1. i \in 1..Len(h)
    BY <1>2
  <2> QED
    BY <2>1, ElementOfSeq
<1> QED
  BY <1>1, <1>2, <1>3, SubSeqProperties

Ascending(h) == \A i, k \in 1..Len(h) : i < k => h[i] <= h[k]
Entries(h) == {h[i] : i \in 1..Len(h)}

\* The samples that are within the width of the newest one.
InWindow(samples) == {t \in samples : \A u \in samples : t >= u - Width}

\* On an ascending history the loop is a filter: exactly the entries that are not
\* older than the cutoff stay, and they stay in order.
LEMMA PruneFilters ==
    ASSUME NEW h \in Seq(Nat), NEW cutoff \in Int, Ascending(h)
    PROVE  /\ Ascending(Prune(h, cutoff))
           /\ Entries(Prune(h, cutoff)) = {t \in Entries(h) : t >= cutoff}
<1> DEFINE n == Len(h)
           g == Prune(h, cutoff)
<1>1. PICK p \in 1..(n + 1) :
          /\ g = SubSeq(h, p, n)
          /\ \A i \in 1..(p - 1) : h[i] < cutoff
          /\ p <= n => h[p] >= cutoff
  BY PruneSuffix
<1>2. n \in Nat /\ p \in Nat /\ 1 <= p /\ p <= n + 1
  OBVIOUS
<1>3. \A i \in 1..n : h[i] \in Nat
  BY ElementOfSeq
<1>4. \A i \in p..n : h[i] \in Nat
  BY <1>2, <1>3
<1>5. /\ Len(g) = n - p + 1
      /\ \A i \in 1..(n - p + 1) : g[i] = h[p + i - 1]
  <2>1. /\ Len(g) = IF p <= n THEN n - p + 1 ELSE 0
        /\ \A i \in 1..(n - p + 1) : g[i] = h[p + i - 1]
    BY <1>1, <1>2, <1>4, SubSeqProperties
  <2> QED
    BY <2>1, <1>2
<1> HIDE DEF g, n
<1>6. \A i, k \in 1..n : i < k => h[i] <= h[k]
  BY DEF Ascending, n
<1>7. Ascending(g)
  <2> SUFFICES ASSUME NEW i \in 1..Len(g), NEW k \in 1..Len(g), i < k
               PROVE  g[i] <= g[k]
    BY DEF Ascending
  <2>1. g[i] = h[p + i - 1] /\ g[k] = h[p + k - 1]
    BY <1>5
  <2>2. p + i - 1 \in 1..n /\ p + k - 1 \in 1..n /\ p + i - 1 < p + k - 1
    BY <1>2, <1>5
  <2> QED
    BY <2>1, <2>2, <1>6
<1>8. ASSUME NEW t \in Entries(g) PROVE t \in Entries(h) /\ t >= cutoff
  <2>1. PICK i \in 1..Len(g) : t = g[i]
    BY DEF Entries
  <2>2. t = h[p + i - 1] /\ p + i - 1 \in 1..n /\ p \in 1..n /\ p <= p + i - 1
    BY <2>1, <1>2, <1>5
  <2>3. h[p] <= t /\ h[p] >= cutoff /\ h[p] \in Nat /\ t \in Nat
    <3>1. CASE p = p + i - 1
      BY <3>1, <2>2, <1>1, <1>3
    <3>2. CASE p < p + i - 1
      BY <3>2, <2>2, <1>1, <1>3, <1>6
    <3> QED
      BY <3>1, <3>2, <2>2
  <2>4. t >= cutoff
    BY <2>3
  <2>5. PICK j \in 1..n : t = h[j]
    BY <2>2
  <2>6. t \in Entries(h)
    BY <2>5 DEF Entries, n
  <2> QED
    BY <2>4, <2>6
<1>9. ASSUME NEW t \in Entries(h), t >= cutoff PROVE t \in Entries(g)
  <2>1. PICK k \in 1..n : t = h[k]
    BY DEF Entries, n
  <2>2. k >= p
    <3>1. h[k] \in Nat /\ ~(h[k] < cutoff)
      BY <2>1, <1>3, <1>9
    <3> QED
      BY <3>1, <1>1, <1>2
  <2>3. k - p + 1 \in 1..Len(g) /\ p + (k - p + 1) - 1 = k
    BY <2>2, <1>2, <1>5
  <2>4. g[k - p + 1] = h[k]
    BY <2>3, <1>5
  <2> QED
    BY <2>1, <2>3, <2>4 DEF Entries
<1> QED
  BY <1>7, <1>8, <1>9 DEF g
-----------------------------------------------------------------------------
(* Types: every operation of the window yields a window.                     *)

LEMMA EmptyWindowType == EmptyWindow \in WindowRecords
BY DEF EmptyWindow, WindowRecords, Absent

LEMMA WindowRecord ==
    ASSUME NEW v \in [Channels -> Nat], NEW h \in [Joints -> Seq(Nat)], NEW s \in Nat
    PROVE  [values |-> v, velocities |-> h, stamp |-> s] \in WindowRecords
BY DEF WindowRecords

LEMMA ObserveType ==
    ASSUME NEW w \in WindowRecords, NEW joint, NEW field \in Fields, NEW stamp \in Nat
    PROVE  Observe(w, joint, field, stamp) \in WindowRecords
<1>1. CASE joint \notin Joints
  BY <1>1 DEF Observe
<1>2. CASE joint \in Joints
  <2> DEFINE newest == Later(w.stamp, stamp)
             longer == Append(w.velocities[joint], stamp)
  <2>1. newest \in Nat /\ newest - Width \in Int
    BY WindowAssumption DEF WindowRecords, Later
  <2>2. w.velocities \in [Joints -> Seq(Nat)] /\ longer \in Seq(Nat)
    BY <1>2 DEF WindowRecords
  <2>3. Prune(longer, newest - Width) \in Seq(Nat)
    BY <2>1, <2>2, PruneType
  <2>4. Replace(w.values, <<joint, field>>, stamp) \in [Channels -> Nat]
    BY DEF Replace, WindowRecords
  <2>5. [w.velocities EXCEPT ![joint] = Prune(longer, newest - Width)] \in [Joints -> Seq(Nat)]
    BY <2>2, <2>3
  <2>6. Observe(w, joint, field, stamp) =
          [values |-> Replace(w.values, <<joint, field>>, stamp),
           velocities |-> IF field = "velocity"
                          THEN [w.velocities EXCEPT ![joint] = Prune(longer, newest - Width)]
                          ELSE w.velocities,
           stamp |-> newest]
    BY <1>2 DEF Observe
  <2> DEFINE kept == IF field = "velocity"
                     THEN [w.velocities EXCEPT ![joint] = Prune(longer, newest - Width)]
                     ELSE w.velocities
  <2>7. kept \in [Joints -> Seq(Nat)]
    BY <2>2, <2>5
  <2>8. Observe(w, joint, field, stamp) =
          [values |-> Replace(w.values, <<joint, field>>, stamp),
           velocities |-> kept, stamp |-> newest]
    BY <2>6
  <2> HIDE DEF newest, longer, kept
  <2> QED
    BY <2>1, <2>4, <2>7, <2>8, WindowRecord
<1> QED
  BY <1>1, <1>2

LEMMA BuildStateType ==
    ASSUME NEW w \in WindowRecords PROVE BuildState(w) \in StateRecords
BY DEF BuildState, WindowRecords, StateRecords

LEMMA FieldAtType == ASSUME NEW i \in Nat \ {0} PROVE FieldAt(i) \in Fields
<1>1. ((i - 1) % 3) + 1 \in 1..3
  OBVIOUS
<1> QED
  BY <1>1 DEF FieldAt, FieldOrder, Fields

SourceRecords ==
    [stamp : Nat \ {0}, next : 1..(3 * Len(SourceNames)),
     fresh : Nat \ {0}, late : SUBSET (Nat \ {0})]

LEMMA SourceRecord ==
    ASSUME NEW a \in Nat \ {0}, NEW b \in 1..(3 * Len(SourceNames)),
           NEW c \in Nat \ {0}, NEW d \in SUBSET (Nat \ {0})
    PROVE  [stamp |-> a, next |-> b, fresh |-> c, late |-> d] \in SourceRecords
BY DEF SourceRecords

\* The JointStates the bridge is about to publish: the one whose turn it is, and those
\* that were overtaken.
Pending == {source.stamp} \cup source.late

\* How the bridge's line moves: by one message, to a fresh JointState, or to a late one.
LEMMA SourceMoves ==
    ASSUME TypeOK, SourceMovesOn
    PROVE  /\ source' \in SourceRecords
           /\ \/ /\ source.next < 3 * Len(SourceNames)
                 /\ source'.next = source.next + 1 /\ source'.stamp = source.stamp
                 /\ UNCHANGED <<source.fresh, source.late>>
              \/ /\ ~(source.next < 3 * Len(SourceNames))
                 /\ source'.next = 1 /\ source'.stamp = source.fresh
                 /\ source'.fresh = source.fresh + 1 /\ source'.late = {}
              \/ /\ ~(source.next < 3 * Len(SourceNames))
                 /\ source'.next = 1 /\ source'.stamp \in source.late
                 /\ source'.late \subseteq source.late /\ UNCHANGED source.fresh
<1> DEFINE n == 3 * Len(SourceNames)
<1>1. n \in Nat /\ n >= 1
  BY StateSvcAssumption
<1>2. source \in SourceRecords
  BY DEF TypeOK, SourceRecords
<1>3. /\ source.stamp \in Nat \ {0} /\ source.next \in 1..n
      /\ source.fresh \in Nat \ {0} /\ source.late \in SUBSET (Nat \ {0})
  BY <1>2 DEF SourceRecords
<1>4. source = [stamp |-> source.stamp, next |-> source.next,
                fresh |-> source.fresh, late |-> source.late]
  BY <1>2 DEF SourceRecords
<1>5. CASE source.next < n
  <2>1. source' = [source EXCEPT !.next = source.next + 1]
    BY <1>5 DEF SourceMovesOn
  <2>2. source' = [stamp |-> source.stamp, next |-> source.next + 1,
                   fresh |-> source.fresh, late |-> source.late]
    BY <1>4, <2>1
  <2>3. source.next + 1 \in 1..n
    <3> HIDE DEF n
    <3> QED
      BY <1>1, <1>3, <1>5
  <2>4. source' \in SourceRecords
    BY <1>3, <2>2, <2>3, SourceRecord
  <2> QED
    BY <1>5, <2>2, <2>4
<1>6. CASE ~(source.next < n)
  <2>0. 1 \in 1..n
    <3> HIDE DEF n
    <3> QED
      BY <1>1
  <2>1. CASE source' = [stamp |-> source.fresh, next |-> 1,
                        fresh |-> source.fresh + 1, late |-> {}]
    <3>1. source.fresh + 1 \in Nat \ {0} /\ {} \in SUBSET (Nat \ {0})
      BY <1>3
    <3>2. source' \in SourceRecords
      BY <1>3, <2>0, <2>1, <3>1, SourceRecord
    <3> QED
      BY <1>6, <2>1, <3>2
  <2>2. ASSUME NEW m \in source.late,
               source' = [source EXCEPT !.stamp = m, !.next = 1, !.late = source.late \ {m}]
        PROVE  /\ source' \in SourceRecords
               /\ source'.next = 1 /\ source'.stamp \in source.late
               /\ source'.late \subseteq source.late /\ UNCHANGED source.fresh
    <3>1. source' = [stamp |-> m, next |-> 1, fresh |-> source.fresh, late |-> source.late \ {m}]
      BY <1>4, <2>2
    <3>2. m \in Nat \ {0} /\ source.late \ {m} \in SUBSET (Nat \ {0})
      BY <1>3
    <3>3. source' \in SourceRecords
      BY <1>3, <2>0, <3>1, <3>2, SourceRecord
    <3> QED
      BY <3>1, <3>3
  <2> QED
    BY <1>6, <2>1, <2>2 DEF SourceMovesOn
<1> QED
  BY <1>5, <1>6

\* An overtaking puts the JointState whose turn it is back among the late ones.
LEMMA OvertakeMoves ==
    ASSUME TypeOK, Overtake
    PROVE  /\ source' \in SourceRecords
           /\ source'.next = source.next /\ source.next = 1
           /\ \/ /\ source'.stamp = source.fresh /\ source'.fresh = source.fresh + 1
                 /\ source'.late = Pending
              \/ /\ source'.stamp \in source.late /\ UNCHANGED source.fresh
                 /\ source'.late \subseteq Pending
<1>1. source \in SourceRecords
  BY DEF TypeOK, SourceRecords
<1>2. /\ source.stamp \in Nat \ {0} /\ source.next \in 1..(3 * Len(SourceNames))
      /\ source.fresh \in Nat \ {0} /\ source.late \in SUBSET (Nat \ {0})
      /\ source.next = 1
      /\ source = [stamp |-> source.stamp, next |-> source.next,
                   fresh |-> source.fresh, late |-> source.late]
  BY <1>1 DEF SourceRecords, Overtake
<1>3. CASE source' = [stamp |-> source.fresh, next |-> 1, fresh |-> source.fresh + 1,
                      late |-> source.late \cup {source.stamp}]
  <2>1. /\ source.fresh + 1 \in Nat \ {0} /\ 1 \in 1..(3 * Len(SourceNames))
        /\ source.late \cup {source.stamp} \in SUBSET (Nat \ {0})
    BY <1>2
  <2>2. source' \in SourceRecords
    BY <1>2, <1>3, <2>1, SourceRecord
  <2> QED
    BY <1>2, <1>3, <2>2 DEF Pending
<1>4. ASSUME NEW m \in source.late,
             source' = [source EXCEPT !.stamp = m,
                                      !.late = (source.late \ {m}) \cup {source.stamp}]
      PROVE  /\ source' \in SourceRecords
             /\ source'.next = source.next /\ source'.stamp \in source.late
             /\ UNCHANGED source.fresh /\ source'.late \subseteq Pending
  <2>1. source' = [stamp |-> m, next |-> source.next, fresh |-> source.fresh,
                   late |-> (source.late \ {m}) \cup {source.stamp}]
    BY <1>2, <1>4
  <2>2. m \in Nat \ {0} /\ (source.late \ {m}) \cup {source.stamp} \in SUBSET (Nat \ {0})
    BY <1>2
  <2>3. source' \in SourceRecords
    BY <1>2, <2>1, <2>2, SourceRecord
  <2> QED
    BY <2>1, <2>3 DEF Pending
<1> QED
  BY <1>2, <1>3, <1>4 DEF Overtake

-----------------------------------------------------------------------------
(* The inductive invariant.                                                  *)

\* The hub serves nothing newer than the window: a later build_state advances.
HubBehind == hub.stamp <= window.stamp

\* While no simulation started again, what is still to be published is behind the
\* newest JointState by the overtakings so far at most, and nothing in the window is
\* newer than that: in order, the next sample is the newest one.
SourceLeads ==
    faults.rewinds = 0 =>
        /\ \A n \in Pending : n <= source.fresh - 1 /\ n >= source.fresh - 1 - faults.overtakings
        /\ window.stamp <= source.fresh - 1
        /\ \A j \in Joints : \A u \in heard[j] : u <= source.fresh - 1

IInv ==
    /\ TypeOK
    /\ HubBehind
    /\ SourceLeads
    /\ CleanMeansPublished
    /\ HistoryIsWindow

\* HistoryIsWindow for one joint.
JointHistory(j) ==
    /\ Ascending(window.velocities[j])
    /\ Entries(window.velocities[j]) = InWindow(heard[j])

LEMMA HistoryPerJoint ==
    /\ HistoryIsWindow <=>
          (faults.rewinds = 0 /\ faults.overtakings = 0 => \A j \in Joints : JointHistory(j))
    /\ HistoryIsWindow' <=>
          (faults'.rewinds = 0 /\ faults'.overtakings = 0 => \A j \in Joints : JointHistory(j)')
BY DEF HistoryIsWindow, JointHistory, Ascending, Entries, InWindow

LEMMA HistoryKept ==
    ASSUME HistoryIsWindow, window' = window, heard' = heard, faults'.rewinds = faults.rewinds,
           faults'.overtakings = faults.overtakings
    PROVE  HistoryIsWindow'
BY HistoryPerJoint DEF JointHistory

LEMMA InitIInv == Init => IInv
<1> SUFFICES ASSUME Init PROVE IInv
  OBVIOUS
<1> USE StateSvcAssumption
<1>1. EmptyWindow \in WindowRecords /\ NoState \in StateRecords
  BY EmptyWindowType, BuildStateType DEF NoState
<1>2. TypeOK
  <2>1. source \in SourceRecords
    <3>1. 1 \in 1..(3 * Len(SourceNames)) /\ {} \in SUBSET (Nat \ {0})
      OBVIOUS
    <3> QED
      BY <3>1, SourceRecord DEF Init
  <2>2. faults \in [FaultKinds -> Nat]
    BY DEF Init, NoFaults
  <2> QED
    BY <1>1, <2>1, <2>2 DEF Init, TypeOK, Sessions, SourceRecords
<1>3. HubBehind
  BY DEF Init, HubBehind, NoState, BuildState, EmptyWindow
<1>4. SourceLeads
  BY DEF Init, SourceLeads, EmptyWindow, Pending, NoFaults, FaultKinds
<1>5. CleanMeansPublished
  BY DEF Init, CleanMeansPublished, NoState
<1>6. HistoryIsWindow
  <2> SUFFICES ASSUME NEW j \in Joints PROVE JointHistory(j)
    BY HistoryPerJoint
  <2>1. window.velocities[j] = <<>> /\ heard[j] = {}
    BY DEF Init, EmptyWindow
  <2> QED
    BY <2>1 DEF JointHistory, Ascending, Entries, InWindow
<1> QED
  BY <1>2, <1>3, <1>4, <1>5, <1>6 DEF IInv

\* The steps of _consume_forever and of the broker move neither data nor source.
LEMMA SessionIInv ==
    IInv /\ (Connect \/ Subscribe \/ MqttFails \/ Wake \/ BrokerReturns) => IInv'
<1> SUFFICES ASSUME IInv, Connect \/ Subscribe \/ MqttFails \/ Wake \/ BrokerReturns
             PROVE  IInv'
  OBVIOUS
<1>1. UNCHANGED <<source, window, dirty, hub, heard, faults>>
  BY DEF Connect, Subscribe, MqttFails, Wake, BrokerReturns, pipeline
<1>2. TypeOK'
  <2>1. /\ brokerUp' \in BOOLEAN /\ linked' \in BOOLEAN /\ connected' \in BOOLEAN
        /\ session' \in Sessions
    BY DEF IInv, TypeOK, Sessions, Connect, Subscribe, MqttFails, Wake, BrokerReturns, consumer
  <2> QED
    BY <1>1, <2>1 DEF IInv, TypeOK
<1>3. HubBehind' /\ CleanMeansPublished'
  BY <1>1 DEF IInv, HubBehind, CleanMeansPublished
<1>4. SourceLeads'
  BY <1>1 DEF IInv, SourceLeads, Pending
<1>5. HistoryIsWindow'
  BY <1>1, HistoryKept DEF IInv
<1> QED
  BY <1>2, <1>3, <1>4, <1>5 DEF IInv

LEMMA FaultType ==
    ASSUME TypeOK, NEW kind \in FaultKinds, Fault(kind)
    PROVE  /\ faults' \in [FaultKinds -> Nat]
           /\ faults'[kind] = faults[kind] + 1 /\ faults[kind] \in Nat
           /\ \A k \in FaultKinds : k # kind => faults'[k] = faults[k]
<1>1. faults \in [FaultKinds -> Nat] /\ faults' = [faults EXCEPT ![kind] = @ + 1]
  BY DEF TypeOK, Fault
<1> QED
  BY <1>1

LEMMA BreakIInv == IInv /\ (BrokerCrashes \/ LinkBreaks) => IInv'
<1> SUFFICES ASSUME IInv, BrokerCrashes \/ LinkBreaks PROVE IInv'
  OBVIOUS
<1>1. UNCHANGED <<source, window, dirty, hub, heard>> /\ Fault("breaks")
  BY DEF BrokerCrashes, LinkBreaks, pipeline
<1>2. /\ faults' \in [FaultKinds -> Nat]
      /\ faults'.rewinds = faults.rewinds /\ faults'.overtakings = faults.overtakings
  BY <1>1, FaultType DEF IInv, FaultKinds
<1>3. TypeOK'
  <2>1. /\ brokerUp' \in BOOLEAN /\ linked' \in BOOLEAN /\ connected' \in BOOLEAN
        /\ session' \in Sessions
    BY DEF IInv, TypeOK, BrokerCrashes, LinkBreaks
  <2> QED
    BY <1>1, <1>2, <2>1 DEF IInv, TypeOK
<1>4. HubBehind' /\ CleanMeansPublished'
  BY <1>1 DEF IInv, HubBehind, CleanMeansPublished
<1>5. SourceLeads'
  BY <1>1, <1>2 DEF IInv, SourceLeads, Pending
<1>6. HistoryIsWindow'
  BY <1>1, <1>2, HistoryKept DEF IInv
<1> QED
  BY <1>3, <1>4, <1>5, <1>6 DEF IInv

LEMMA RewindIInv == IInv /\ Rewind => IInv'
<1> SUFFICES ASSUME IInv, Rewind PROVE IInv'
  OBVIOUS
<1>1. /\ UNCHANGED <<brokerUp, linked, session, connected, window, dirty, hub, heard>>
      /\ Fault("rewinds")
      /\ source' \in SourceRecords
  <2>1. source \in SourceRecords
    BY DEF IInv, TypeOK, SourceRecords
  <2>2. source' = [stamp |-> 1, next |-> 1, fresh |-> 2, late |-> source.late]
    BY <2>1 DEF Rewind, SourceRecords
  <2>3. source.late \in SUBSET (Nat \ {0})
    BY <2>1 DEF SourceRecords
  <2>4. 1 \in 1..(3 * Len(SourceNames))
    BY StateSvcAssumption, SourceRecord, <2>1
  <2>5. source' \in SourceRecords
    BY <2>2, <2>3, <2>4 DEF SourceRecords
  <2> QED
    BY <2>5 DEF Rewind, consumer, pipeline
<1>2. /\ faults' \in [FaultKinds -> Nat]
      /\ faults'.rewinds # 0
  <2>1. "rewinds" \in FaultKinds
    BY DEF FaultKinds
  <2>2. faults' \in [FaultKinds -> Nat] /\ faults'["rewinds"] = faults["rewinds"] + 1
        /\ faults["rewinds"] \in Nat
    BY <1>1, <2>1, FaultType DEF IInv
  <2> QED
    BY <2>2
<1>3. TypeOK'
  BY <1>1, <1>2 DEF IInv, TypeOK, SourceRecords
<1> QED
  BY <1>1, <1>2, <1>3 DEF IInv, HubBehind, SourceLeads, CleanMeansPublished, HistoryIsWindow

\* One more overtaking, and what is still to be published may be one further behind.
LEMMA OvertakeIInv == IInv /\ Overtake => IInv'
<1> SUFFICES ASSUME IInv, Overtake PROVE IInv'
  OBVIOUS
<1>1. UNCHANGED <<brokerUp, linked, session, connected, window, dirty, hub, heard>>
  BY DEF Overtake, consumer, pipeline
<1>2. /\ faults' \in [FaultKinds -> Nat] /\ faults'.rewinds = faults.rewinds
      /\ faults'.overtakings = faults.overtakings + 1 /\ faults.overtakings \in Nat
  <2>1. "overtakings" \in FaultKinds /\ "rewinds" \in FaultKinds /\ Fault("overtakings")
    BY DEF FaultKinds, Overtake
  <2>2. /\ faults' \in [FaultKinds -> Nat]
        /\ faults'["overtakings"] = faults["overtakings"] + 1
        /\ faults["overtakings"] \in Nat
        /\ faults'["rewinds"] = faults["rewinds"]
    BY <2>1, FaultType DEF IInv
  <2> QED
    BY <2>2
<1>3. /\ source' \in SourceRecords /\ source.fresh \in Nat /\ Pending \subseteq Nat
      /\ \/ /\ source'.stamp = source.fresh /\ source'.fresh = source.fresh + 1
            /\ source'.late = Pending
         \/ /\ source'.stamp \in source.late /\ source'.fresh = source.fresh
            /\ source'.late \subseteq Pending
  BY OvertakeMoves DEF IInv, TypeOK, Pending
<1>4. TypeOK'
  BY <1>1, <1>2, <1>3 DEF IInv, TypeOK, SourceRecords
<1>5. SourceLeads'
  <2> SUFFICES ASSUME faults'.rewinds = 0
               PROVE  /\ \A n \in Pending' : /\ n <= source'.fresh - 1
                                            /\ n >= source'.fresh - 1 - faults'.overtakings
                      /\ window'.stamp <= source'.fresh - 1
                      /\ \A j \in Joints : \A u \in heard'[j] : u <= source'.fresh - 1
    BY DEF SourceLeads
  <2>1. /\ \A n \in Pending : /\ n <= source.fresh - 1
                              /\ n >= source.fresh - 1 - faults.overtakings
        /\ window.stamp <= source.fresh - 1
        /\ \A j \in Joints : \A u \in heard[j] : u <= source.fresh - 1
    BY <1>2 DEF IInv, SourceLeads
  <2>2. Pending' \subseteq Pending \cup {source.fresh}
        /\ (source'.fresh = source.fresh + 1 \/ (source'.fresh = source.fresh /\ Pending' \subseteq Pending))
    BY <1>3 DEF Pending
  <2>3. /\ window.stamp \in Nat
        /\ \A j \in Joints : \A u \in heard[j] : u \in Nat
    BY DEF IInv, TypeOK, WindowRecords
  <2> QED
    BY <1>1, <1>2, <1>3, <2>1, <2>2, <2>3
<1>6. HubBehind' /\ CleanMeansPublished'
  BY <1>1 DEF IInv, HubBehind, CleanMeansPublished
<1>7. HistoryIsWindow'
  BY <1>2 DEF HistoryIsWindow
<1> QED
  BY <1>4, <1>5, <1>6, <1>7 DEF IInv

LEMMA RestartIInv == IInv /\ Restart => IInv'
<1> SUFFICES ASSUME IInv, Restart PROVE IInv'
  OBVIOUS
<1>1. EmptyWindow \in WindowRecords /\ NoState \in StateRecords
  BY EmptyWindowType, BuildStateType DEF NoState
<1>2. /\ faults' \in [FaultKinds -> Nat]
      /\ faults'.rewinds = faults.rewinds /\ faults'.overtakings = faults.overtakings
  BY FaultType DEF IInv, Restart, FaultKinds
<1>3. TypeOK'
  <2>1. heard' \in [Joints -> SUBSET Nat]
    BY DEF Restart
  <2> QED
    BY <1>1, <1>2, <2>1 DEF IInv, TypeOK, Restart, Sessions
<1>4. HubBehind'
  BY DEF Restart, HubBehind, NoState, BuildState, EmptyWindow
<1>5. SourceLeads'
  <2>1. source.fresh \in Nat \ {0} /\ source' = source
    BY DEF IInv, TypeOK, Restart
  <2> QED
    BY <1>2, <2>1 DEF IInv, Restart, SourceLeads, Pending, EmptyWindow
<1>6. CleanMeansPublished'
  BY DEF Restart, CleanMeansPublished, NoState
<1>7. HistoryIsWindow'
  <2> SUFFICES ASSUME NEW j \in Joints PROVE JointHistory(j)'
    BY HistoryPerJoint
  <2>1. window'.velocities[j] = <<>> /\ heard'[j] = {}
    BY DEF Restart, EmptyWindow
  <2> QED
    BY <2>1 DEF JointHistory, Ascending, Entries, InWindow
<1> QED
  BY <1>3, <1>4, <1>5, <1>6, <1>7 DEF IInv

LEMMA BroadcastIInv == IInv /\ Broadcast => IInv'
<1> SUFFICES ASSUME IInv, Broadcast PROVE IInv'
  OBVIOUS
<1>1. hub' \in StateRecords
  BY BuildStateType DEF IInv, TypeOK, Broadcast
<1>2. TypeOK'
  BY <1>1 DEF IInv, TypeOK, Broadcast, consumer
<1>3. HubBehind'
  <2>1. window.stamp \in Nat
    BY DEF IInv, TypeOK, WindowRecords
  <2> QED
    BY <2>1 DEF IInv, HubBehind, Broadcast, BuildState
<1>4. CleanMeansPublished'
  BY DEF IInv, CleanMeansPublished, Broadcast
<1>5. UNCHANGED <<source, window, heard, faults>>
  BY DEF Broadcast
<1>6. SourceLeads'
  BY <1>5 DEF IInv, SourceLeads, Pending
<1>7. HistoryIsWindow'
  BY <1>5, HistoryKept DEF IInv
<1> QED
  BY <1>2, <1>3, <1>4, <1>6, <1>7 DEF IInv

\* A message sent in turn leaves the line as far behind as it was.
LEMMA LineKeepsUp ==
    ASSUME TypeOK, SourceLeads, SourceMovesOn, faults.rewinds = 0
    PROVE  /\ source.fresh \in Nat /\ source'.fresh \in Nat /\ source'.fresh >= source.fresh
           /\ \A n \in Pending' : /\ n <= source'.fresh - 1
                                /\ n >= source'.fresh - 1 - faults.overtakings
<1>1. /\ source.fresh \in Nat /\ source'.fresh \in Nat /\ Pending \subseteq Nat
      /\ faults.overtakings \in Nat
  BY SourceMoves DEF TypeOK, SourceRecords, Pending, FaultKinds
<1>2. \/ Pending' \subseteq Pending /\ source'.fresh = source.fresh
      \/ Pending' = {source.fresh} /\ source'.fresh = source.fresh + 1
  BY SourceMoves DEF Pending
<1>3. \A n \in Pending : n <= source.fresh - 1 /\ n >= source.fresh - 1 - faults.overtakings
  BY DEF SourceLeads
<1>4. CASE Pending' \subseteq Pending /\ source'.fresh = source.fresh
  BY <1>1, <1>3, <1>4
<1>5. CASE Pending' = {source.fresh} /\ source'.fresh = source.fresh + 1
  BY <1>1, <1>5
<1> QED
  BY <1>2, <1>4, <1>5

\* What a step of the source leaves of SourceLeads, window and heard untouched.
LEMMA LoseIInv == IInv /\ Lose => IInv'
<1> SUFFICES ASSUME IInv, Lose PROVE IInv'
  OBVIOUS
<1>1. UNCHANGED <<brokerUp, linked, session, connected, window, dirty, hub, heard>>
  BY DEF Lose, consumer, pipeline
<1>2. source' \in SourceRecords
  BY SourceMoves DEF IInv, Lose
<1>3. /\ faults' \in [FaultKinds -> Nat]
      /\ faults'.rewinds = faults.rewinds /\ faults'.overtakings = faults.overtakings
  <2>1. CASE Subscribed
    BY <2>1, FaultType DEF Lose, IInv, FaultKinds
  <2>2. CASE ~Subscribed
    BY <2>2 DEF Lose, IInv, TypeOK
  <2> QED
    BY <2>1, <2>2
<1>4. TypeOK'
  BY <1>1, <1>2, <1>3 DEF IInv, TypeOK, SourceRecords
<1>5. SourceLeads'
  <2> SUFFICES ASSUME faults'.rewinds = 0
               PROVE  /\ \A n \in Pending' : /\ n <= source'.fresh - 1
                                            /\ n >= source'.fresh - 1 - faults'.overtakings
                      /\ window'.stamp <= source'.fresh - 1
                      /\ \A j \in Joints : \A u \in heard'[j] : u <= source'.fresh - 1
    BY DEF SourceLeads
  <2>1. /\ source.fresh \in Nat /\ source'.fresh \in Nat /\ source'.fresh >= source.fresh
        /\ \A n \in Pending' : n <= source'.fresh - 1 /\ n >= source'.fresh - 1 - faults.overtakings
    BY <1>3, LineKeepsUp DEF IInv, Lose
  <2>2. /\ window.stamp <= source.fresh - 1
        /\ \A j \in Joints : \A u \in heard[j] : u <= source.fresh - 1
    BY <1>3 DEF IInv, SourceLeads
  <2>3. /\ window.stamp \in Nat
        /\ \A j \in Joints : \A u \in heard[j] : u \in Nat
    BY DEF IInv, TypeOK, WindowRecords
  <2> QED
    BY <1>1, <1>3, <2>1, <2>2, <2>3
<1>6. HubBehind' /\ CleanMeansPublished'
  BY <1>1 DEF IInv, HubBehind, CleanMeansPublished
<1>7. HistoryIsWindow'
  BY <1>1, <1>3, HistoryKept DEF IInv
<1> QED
  BY <1>4, <1>5, <1>6, <1>7 DEF IInv

\* One velocity sample that is the newest of its joint: after append and loop the
\* history is again the window over what the joint was given.
LEMMA WindowOverNewest ==
    ASSUME NEW h \in Seq(Nat), NEW given \in SUBSET Nat, NEW t \in Nat,
           Ascending(h),
           Entries(h) = InWindow(given),
           \A u \in given : u <= t
    PROVE  LET kept == Prune(Append(h, t), t - Width)
           IN  /\ Ascending(kept)
               /\ Entries(kept) = InWindow(given \cup {t})
<1> DEFINE longer == Append(h, t)
           kept == Prune(longer, t - Width)
<1>1. Width \in Nat
  BY WindowAssumption
<1>2. /\ longer \in Seq(Nat) /\ Len(longer) = Len(h) + 1 /\ Len(h) \in Nat
      /\ \A i \in 1..Len(h) : longer[i] = h[i]
      /\ longer[Len(h) + 1] = t
  OBVIOUS
<1>3. \A i \in 1..Len(h) : h[i] \in Nat /\ h[i] <= t
  <2> SUFFICES ASSUME NEW i \in 1..Len(h) PROVE h[i] \in Nat /\ h[i] <= t
    OBVIOUS
  <2>1. h[i] \in Entries(h)
    BY DEF Entries
  <2> QED
    BY <2>1, ElementOfSeq DEF InWindow
<1>4. Ascending(longer)
  <2> HIDE DEF longer
  <2> SUFFICES ASSUME NEW i \in 1..Len(longer), NEW k \in 1..Len(longer), i < k
               PROVE  longer[i] <= longer[k]
    BY DEF Ascending
  <2>1. CASE k = Len(h) + 1
    <3>1. i \in 1..Len(h) /\ longer[k] = t
      BY <2>1, <1>2
    <3>2. longer[i] = h[i] /\ h[i] <= t
      BY <3>1, <1>2, <1>3
    <3> QED
      BY <3>1, <3>2
  <2>2. CASE k # Len(h) + 1
    <3>1. i \in 1..Len(h) /\ k \in 1..Len(h)
      <4>1. Len(longer) = Len(h) + 1 /\ Len(h) \in Nat
        BY <1>2
      <4> HIDE DEF longer
      <4> QED
        BY <2>2, <4>1
    <3> QED
      BY <3>1, <1>2 DEF Ascending
  <2> QED
    BY <2>1, <2>2
<1>5. Entries(longer) = Entries(h) \cup {t}
  <2> HIDE DEF longer
  <2>1. ASSUME NEW s \in Entries(longer) PROVE s \in Entries(h) \cup {t}
    <3>1. PICK i \in 1..Len(longer) : s = longer[i]
      BY DEF Entries
    <3>2. CASE i = Len(h) + 1
      BY <3>1, <3>2, <1>2
    <3>3. CASE i \in 1..Len(h)
      BY <3>1, <3>3, <1>2 DEF Entries
    <3> QED
      BY <3>2, <3>3, <1>2
  <2>2. ASSUME NEW s \in Entries(h) PROVE s \in Entries(longer)
    <3>1. PICK i \in 1..Len(h) : s = h[i]
      BY <2>2 DEF Entries
    <3>2. i \in 1..Len(longer) /\ s = longer[i]
      BY <3>1, <1>2
    <3> QED
      BY <3>2 DEF Entries
  <2>3. t \in Entries(longer)
    <3>1. Len(longer) \in 1..Len(longer) /\ longer[Len(longer)] = t
      BY <1>2
    <3> QED
      BY <3>1 DEF Entries
  <2> QED
    BY <2>1, <2>2, <2>3
<1>6. /\ Ascending(kept)
      /\ Entries(kept) = {s \in Entries(longer) : s >= t - Width}
  <2>1. t - Width \in Int
    BY <1>1
  <2> QED
    BY <1>2, <1>4, <2>1, PruneFilters
<1>7. \A s : s \in Entries(kept) <=>
             s \in given \cup {t} /\ \A u \in given \cup {t} : s >= u - Width
  <2> HIDE DEF kept, longer
  <2> TAKE s
  <2>1. ASSUME s \in Entries(kept)
        PROVE  s \in given \cup {t} /\ \A u \in given \cup {t} : s >= u - Width
    <3>1. s \in given \cup {t} /\ s >= t - Width
      BY <2>1, <1>5, <1>6 DEF InWindow
    <3> QED
      BY <3>1, <1>1
  <2>2. ASSUME s \in given \cup {t}, \A u \in given \cup {t} : s >= u - Width
        PROVE  s \in Entries(kept)
    <3>1. s >= t - Width
      BY <2>2
    <3>2. s = t \/ s \in Entries(h)
      BY <2>2 DEF InWindow
    <3> QED
      BY <3>1, <3>2, <1>5, <1>6 DEF InWindow
  <2> QED
    BY <2>1, <2>2
<1>8. Entries(kept) = InWindow(given \cup {t})
  <2> HIDE DEF kept
  <2> QED
    BY <1>7 DEF InWindow
<1> QED
  BY <1>6, <1>8

\* A message of a vocabulary joint is folded into the window.
LEMMA FoldIInv ==
    ASSUME IInv, Deliver, JointAt(source.next) \in Joints
    PROVE  IInv'
<1> DEFINE joint == JointAt(source.next)
           field == FieldAt(source.next)
           t == source.stamp
<1>1. /\ SourceMovesOn /\ source.stamp <= MaxStamp
      /\ window' = Observe(window, joint, field, t)
      /\ dirty' = TRUE
      /\ heard' = IF field = "velocity"
                  THEN [heard EXCEPT ![joint] = heard[joint] \cup {t}]
                  ELSE heard
      /\ UNCHANGED <<brokerUp, linked, session, connected, hub, faults>>
  BY DEF Deliver, consumer
<1>2. /\ t \in Nat /\ t >= 1 /\ t \in Pending /\ source.next \in Nat \ {0}
      /\ window \in WindowRecords /\ hub \in StateRecords
      /\ heard \in [Joints -> SUBSET Nat]
  BY StateSvcAssumption DEF IInv, TypeOK, Pending
<1>3. field \in Fields
  BY <1>2, FieldAtType
<1>4. source' \in SourceRecords
  BY <1>1, SourceMoves DEF IInv
<1>5. window' \in WindowRecords
  BY <1>1, <1>2, <1>3, ObserveType
<1>6. joint \in Joints
  OBVIOUS
<1> HIDE DEF joint, field
<1>7. heard' \in [Joints -> SUBSET Nat]
  BY <1>1, <1>2, <1>6
<1>8. TypeOK'
  BY <1>1, <1>4, <1>5, <1>7 DEF IInv, TypeOK, SourceRecords
<1>9. window'.stamp = Later(window.stamp, t) /\ window.stamp \in Nat /\ hub.stamp \in Nat
  BY <1>1, <1>2, <1>6 DEF Observe, WindowRecords, StateRecords
<1>10. HubBehind'
  BY <1>1, <1>2, <1>9 DEF IInv, HubBehind, Later
<1>11. faults'.rewinds = 0 =>
          /\ t <= source.fresh - 1 /\ window.stamp <= source.fresh - 1
          /\ \A j \in Joints : \A u \in heard[j] : u <= source.fresh - 1
          /\ faults.overtakings = 0 => t = source.fresh - 1
  BY <1>1, <1>2 DEF IInv, SourceLeads, TypeOK
<1>12. SourceLeads'
  <2> SUFFICES ASSUME faults'.rewinds = 0
               PROVE  /\ \A n \in Pending' : /\ n <= source'.fresh - 1
                                            /\ n >= source'.fresh - 1 - faults'.overtakings
                      /\ window'.stamp <= source'.fresh - 1
                      /\ \A j \in Joints : \A u \in heard'[j] : u <= source'.fresh - 1
    BY DEF SourceLeads
  <2>1. /\ source.fresh \in Nat /\ source'.fresh \in Nat /\ source'.fresh >= source.fresh
        /\ \A n \in Pending' : n <= source'.fresh - 1 /\ n >= source'.fresh - 1 - faults.overtakings
    BY <1>1, LineKeepsUp DEF IInv
  <2>2. window'.stamp \in Nat /\ window'.stamp <= source.fresh - 1
    BY <1>2, <1>9, <1>11 DEF Later
  <2>3. \A j \in Joints : \A u \in heard'[j] : u \in Nat /\ u <= source.fresh - 1
    <3> SUFFICES ASSUME NEW j \in Joints, NEW u \in heard'[j]
                 PROVE  u \in Nat /\ u <= source.fresh - 1
      OBVIOUS
    <3>1. u \in heard[j] \/ u = t
      BY <1>1, <1>2, <1>6
    <3> QED
      BY <3>1, <1>2, <1>11
  <2> QED
    BY <1>1, <2>1, <2>2, <2>3
<1>13. CleanMeansPublished'
  <2>1. ~Complete(window)' => ~Complete(window)
    <3> SUFFICES ASSUME NEW c \in Channels, window.values[c] # Absent
                 PROVE  window'.values[c] # Absent
      BY DEF Complete
    <3>1. window'.values = [window.values EXCEPT ![<<joint, field>>] = t]
      BY <1>1, <1>6 DEF Observe, Replace
    <3> QED
      BY <1>2, <3>1 DEF WindowRecords, Absent
  <2> QED
    BY <1>1, <2>1 DEF IInv, CleanMeansPublished
<1>14. HistoryIsWindow'
  <2> SUFFICES ASSUME faults'.rewinds = 0, faults'.overtakings = 0, NEW j \in Joints
               PROVE  JointHistory(j)'
    BY HistoryPerJoint
  <2>1. JointHistory(j)
    BY <1>1, HistoryPerJoint DEF IInv
  <2>0. /\ t = source.fresh - 1 /\ window.stamp <= t
        /\ \A u \in heard[j] : u <= t
    BY <1>1, <1>11
  <2>2. CASE field = "velocity" /\ j = joint
    <3> DEFINE h == window.velocities[j]
    <3>1. Later(window.stamp, t) = t
      BY <1>2, <1>9, <2>0 DEF Later
    <3>2. window'.velocities[j] = Prune(Append(h, t), t - Width)
      BY <1>1, <1>2, <1>6, <2>2, <3>1 DEF Observe, WindowRecords
    <3>3. heard'[j] = heard[j] \cup {t}
      BY <1>1, <1>2, <2>2
    <3>4. h \in Seq(Nat) /\ heard[j] \in SUBSET Nat
      BY <1>2 DEF WindowRecords
    <3>5. Ascending(h) /\ Entries(h) = InWindow(heard[j])
      BY <2>1 DEF JointHistory
    <3>6. \A u \in heard[j] : u <= t
      BY <2>0
    <3> HIDE DEF h, t
    <3>7. LET kept == Prune(Append(h, t), t - Width)
          IN  /\ Ascending(kept)
              /\ Entries(kept) = InWindow(heard[j] \cup {t})
      BY <1>2, <3>4, <3>5, <3>6, WindowOverNewest
    <3> QED
      BY <3>2, <3>3, <3>7 DEF JointHistory
  <2>3. CASE ~(field = "velocity" /\ j = joint)
    <3>1. window'.velocities[j] = window.velocities[j]
      BY <1>1, <1>2, <1>6, <2>3 DEF Observe, WindowRecords
    <3>2. heard'[j] = heard[j]
      BY <1>1, <1>2, <1>6, <2>3
    <3> QED
      BY <2>1, <3>1, <3>2 DEF JointHistory
  <2> QED
    BY <2>2, <2>3
<1> QED
  BY <1>8, <1>10, <1>12, <1>13, <1>14 DEF IInv

LEMMA DeliverIInv == IInv /\ Deliver => IInv'
<1> SUFFICES ASSUME IInv, Deliver PROVE IInv'
  OBVIOUS
<1>1. CASE JointAt(source.next) \in Joints
  BY <1>1, FoldIInv
<1>2. CASE JointAt(source.next) \notin Joints
  <2>1. UNCHANGED <<brokerUp, linked, session, connected, window, dirty, hub, heard, faults>>
    BY <1>2 DEF Deliver, consumer
  <2>2. source' \in SourceRecords
    BY SourceMoves DEF IInv, Deliver
  <2>3. TypeOK'
    BY <2>1, <2>2 DEF IInv, TypeOK, SourceRecords
  <2>4. SourceLeads'
    <3> SUFFICES ASSUME faults'.rewinds = 0
                 PROVE  /\ \A n \in Pending' : /\ n <= source'.fresh - 1
                                              /\ n >= source'.fresh - 1 - faults'.overtakings
                        /\ window'.stamp <= source'.fresh - 1
                        /\ \A j \in Joints : \A u \in heard'[j] : u <= source'.fresh - 1
      BY DEF SourceLeads
    <3>1. /\ source.fresh \in Nat /\ source'.fresh \in Nat /\ source'.fresh >= source.fresh
          /\ \A n \in Pending' : n <= source'.fresh - 1 /\ n >= source'.fresh - 1 - faults.overtakings
      BY <2>1, LineKeepsUp DEF IInv, Deliver
    <3>2. /\ window.stamp <= source.fresh - 1
          /\ \A j \in Joints : \A u \in heard[j] : u <= source.fresh - 1
      BY <2>1 DEF IInv, SourceLeads
    <3>3. /\ window.stamp \in Nat
          /\ \A j \in Joints : \A u \in heard[j] : u \in Nat
      BY DEF IInv, TypeOK, WindowRecords
    <3> QED
      BY <2>1, <3>1, <3>2, <3>3
  <2>5. HubBehind' /\ CleanMeansPublished'
    BY <2>1 DEF IInv, HubBehind, CleanMeansPublished
  <2>6. HistoryIsWindow'
    BY <2>1, HistoryKept DEF IInv
  <2> QED
    BY <2>3, <2>4, <2>5, <2>6 DEF IInv
<1> QED
  BY <1>1, <1>2
-----------------------------------------------------------------------------
(* The theorems.                                                             *)

\* Every reachable state satisfies the inductive invariant.
THEOREM Invariance == Spec => []IInv
<1>1. IInv /\ [Next]_vars => IInv'
  <2> SUFFICES ASSUME IInv, [Next]_vars PROVE IInv'
    OBVIOUS
  <2>1. CASE Connect \/ Subscribe \/ MqttFails \/ Wake \/ BrokerReturns
    BY <2>1, SessionIInv
  <2>2. CASE Deliver
    BY <2>2, DeliverIInv
  <2>3. CASE Lose
    BY <2>3, LoseIInv
  <2>4. CASE Broadcast
    BY <2>4, BroadcastIInv
  <2>5. CASE BrokerCrashes \/ LinkBreaks
    BY <2>5, BreakIInv
  <2>6. CASE Restart
    BY <2>6, RestartIInv
  <2>7. CASE Rewind
    BY <2>7, RewindIInv
  <2>9. CASE Overtake
    BY <2>9, OvertakeIInv
  <2>8. CASE UNCHANGED vars
    <3>1. /\ UNCHANGED <<brokerUp, linked, session, connected, source>>
          /\ UNCHANGED <<window, dirty, hub, heard, faults>>
      BY <2>8 DEF vars, consumer, pipeline
    <3>2. TypeOK'
      BY <3>1 DEF IInv, TypeOK
    <3>3. HubBehind' /\ SourceLeads' /\ CleanMeansPublished'
      BY <3>1 DEF IInv, HubBehind, SourceLeads, Pending, CleanMeansPublished
    <3>4. HistoryIsWindow'
      BY <3>1, HistoryKept DEF IInv
    <3> QED
      BY <3>2, <3>3, <3>4 DEF IInv
  <2> QED
    BY <2>1, <2>2, <2>3, <2>4, <2>5, <2>6, <2>7, <2>8, <2>9 DEF Next, Consume, Environment
<1> QED
  BY InitIInv, <1>1, PTL DEF Spec

\* The window is always a window and the hub always holds a state of the contract's
\* shape, whatever the broker, the source and the process do.
THEOREM TypeCorrect == Spec => []TypeOK
<1>1. IInv => TypeOK
  BY DEF IInv
<1> QED
  BY Invariance, <1>1, PTL

\* A clear _dirty flag means that the hub serves the window to the last sample, and
\* before the window is complete the hub serves nothing.
THEOREM NothingOwed == Spec => []CleanMeansPublished
<1>1. IInv => CleanMeansPublished
  BY DEF IInv
<1> QED
  BY Invariance, <1>1, PTL

\* The popleft loop is a window: each joint's history is exactly the velocity samples
\* it was given within the width of its newest, while stamps only grow.
THEOREM WindowIsExact == Spec => []HistoryIsWindow
<1>1. IInv => HistoryIsWindow
  BY DEF IInv
<1> QED
  BY Invariance, <1>1, PTL
-----------------------------------------------------------------------------
(* How far apart the values of one state can be.  The strengthening says of  *)
(* every value in the window that it comes from the last message of its      *)
(* channel but for the losses: of the current JointState if that message is  *)
(* out already, of the one before otherwise.                                 *)

Positions == 1..(3 * Len(SourceNames))

ChannelAt(i) == <<JointAt(i), FieldAt(i)>>

\* The stamp of the last i-th message, less one for each JointState published out of
\* its turn and for each message lost.
Due(i) ==
    (IF source.next > i THEN source.fresh - 1 ELSE source.fresh - 2)
      - faults.overtakings - faults.losses

UpToDate(c) ==
    /\ Subscribed
    /\ \E i \in Positions : ChannelAt(i) = c
    /\ \A i \in Positions : ChannelAt(i) = c => window.values[c] >= Due(i)

WindowIsUpToDate ==
    faults.breaks = 0 /\ faults.rewinds = 0 =>
        \A c \in Channels : window.values[c] # Absent => UpToDate(c)

TInv == WindowIsUpToDate /\ TearIsBounded

LEMMA Counters ==
    ASSUME TypeOK
    PROVE  /\ faults.breaks \in Nat /\ faults.losses \in Nat /\ faults.rewinds \in Nat
           /\ faults.overtakings \in Nat
           /\ source.fresh \in Nat /\ source.fresh >= 1 /\ source.next \in Positions
           /\ source.stamp \in Nat /\ window.stamp \in Nat
           /\ \A c \in Channels : window.values[c] \in Nat /\ hub.values[c] \in Nat
           /\ hub.stamp \in Nat
  BY DEF TypeOK, WindowRecords, StateRecords, Positions, FaultKinds

\* Faults are only ever counted up.
LEMMA FaultsGrow ==
    ASSUME TypeOK, [Next]_vars
    PROVE  /\ \A kind \in FaultKinds : faults'[kind] \in Nat /\ faults'[kind] >= faults[kind]
           /\ faults'.breaks >= faults.breaks /\ faults'.losses >= faults.losses
           /\ faults'.rewinds >= faults.rewinds /\ faults'.overtakings >= faults.overtakings
           /\ faults'.losses \in Nat /\ faults'.overtakings \in Nat
<1>1. faults \in [FaultKinds -> Nat]
  BY DEF TypeOK
<1>2. faults' = faults \/ \E kind \in FaultKinds : Fault(kind)
  BY DEF Next, Consume, Environment, vars, Connect, Subscribe, MqttFails, Wake, Deliver, Lose, Broadcast,
         BrokerCrashes, BrokerReturns, LinkBreaks, Restart, Rewind, Overtake, FaultKinds
<1>3. \A kind \in FaultKinds : faults'[kind] \in Nat /\ faults'[kind] >= faults[kind]
  <2>1. CASE faults' = faults
    BY <1>1, <2>1
  <2>2. ASSUME NEW k \in FaultKinds, Fault(k), NEW kind \in FaultKinds
        PROVE  faults'[kind] \in Nat /\ faults'[kind] >= faults[kind]
    <3>1. /\ faults' \in [FaultKinds -> Nat] /\ faults'[k] = faults[k] + 1
          /\ kind # k => faults'[kind] = faults[kind]
      BY <2>2, FaultType
    <3> QED
      BY <1>1, <3>1
  <2> QED
    BY <1>2, <2>1, <2>2
<1> QED
  BY <1>3 DEF FaultKinds

\* What a step does to a value of the window: it comes from the bridge's line, or it
\* stays what it was, or the process forgets it.
LEMMA ValueMoves ==
    ASSUME IInv, IInv', [Next]_vars, faults'.rewinds = 0, NEW c \in Channels,
           window.values[c] <= source.fresh - 1
    PROVE  /\ source'.fresh >= source.fresh
           /\ window'.values[c] <= source'.fresh - 1
           /\ \/ Restart
              \/ window'.values[c] = window.values[c]
              \/ window'.values[c] >= source.fresh - 1 - faults'.overtakings
<1>1. TypeOK /\ TypeOK'
  BY DEF IInv
<1>2. /\ window.values[c] \in Nat /\ source.fresh \in Nat /\ source'.fresh \in Nat
      /\ source.fresh >= 1 /\ window \in WindowRecords
  <2>1. source'.fresh \in Nat \ {0} /\ window \in WindowRecords
    BY <1>1 DEF TypeOK
  <2> QED
    BY <1>1, <2>1, Counters
<1>3. faults.rewinds = 0
  BY <1>1, FaultsGrow, Counters
<1>4. ~Rewind
  BY <1>1, FaultType DEF Rewind, FaultKinds
<1>5. CASE Deliver
  <2>1. source'.fresh >= source.fresh /\ faults' = faults
    BY <1>1, <1>3, <1>5, LineKeepsUp DEF IInv, Deliver
  <2>2. window'.values[c] = window.values[c] \/ window'.values[c] = source.stamp
    <3>1. CASE JointAt(source.next) \in Joints
      <4>1. window'.values = [window.values EXCEPT
                                ![<<JointAt(source.next), FieldAt(source.next)>>] = source.stamp]
        BY <1>5, <3>1 DEF Deliver, Observe, Replace
      <4> QED
        BY <1>2, <4>1 DEF WindowRecords
    <3>2. CASE JointAt(source.next) \notin Joints
      BY <1>5, <3>2 DEF Deliver
    <3> QED
      BY <3>1, <3>2
  <2>3. /\ source.stamp <= source.fresh - 1
        /\ source.stamp >= source.fresh - 1 - faults.overtakings
    BY <1>3 DEF IInv, SourceLeads, Pending
  <2>4. source.stamp \in Nat
    BY <1>1, Counters
  <2> QED
    BY <1>2, <2>1, <2>2, <2>3, <2>4
<1>6. CASE Lose
  <2>1. source'.fresh >= source.fresh /\ UNCHANGED window
    BY <1>1, <1>3, <1>6, LineKeepsUp DEF IInv, Lose, pipeline
  <2> QED
    BY <1>2, <2>1
<1>7. CASE Overtake
  <2>1. UNCHANGED window
    BY <1>7 DEF Overtake, pipeline
  <2>2. source'.fresh >= source.fresh
    BY <1>1, <1>2, <1>7, OvertakeMoves
  <2> QED
    BY <1>2, <2>1, <2>2
<1>8. CASE Restart
  BY <1>2, <1>8 DEF Restart, EmptyWindow, Absent
<1>9. CASE ~Deliver /\ ~Lose /\ ~Overtake /\ ~Restart
  <2>1. UNCHANGED <<window, source>>
    BY <1>4, <1>9 DEF Next, Consume, Environment, vars, Connect, Subscribe, MqttFails, Wake, Broadcast,
                      BrokerCrashes, BrokerReturns, LinkBreaks, pipeline
  <2> QED
    BY <1>2, <2>1
<1> QED
  BY <1>5, <1>6, <1>7, <1>8, <1>9

\* Without a new simulation every value comes from the bridge's past, and the window's
\* is behind the hub's copy of it by the overtakings so far at most.
ValuesLag ==
    faults.rewinds = 0 =>
        \A c \in Channels :
            /\ window.values[c] <= source.fresh - 1 /\ hub.values[c] <= source.fresh - 1
            /\ window.values[c] >= hub.values[c] - faults.overtakings

LEMMA ValuesKeepLagging ==
    ASSUME IInv, IInv', [Next]_vars, ValuesLag
    PROVE  ValuesLag'
<1> SUFFICES ASSUME faults'.rewinds = 0, NEW c \in Channels
             PROVE  /\ window'.values[c] <= source'.fresh - 1 /\ hub'.values[c] <= source'.fresh - 1
                    /\ window'.values[c] >= hub'.values[c] - faults'.overtakings
  BY DEF ValuesLag
<1>1. TypeOK /\ TypeOK'
  BY DEF IInv
<1>2. /\ hub.values[c] \in Nat /\ window.values[c] \in Nat /\ source.fresh \in Nat
      /\ source'.fresh \in Nat /\ source'.fresh >= 1 /\ window'.values[c] \in Nat
      /\ faults.overtakings \in Nat /\ faults'.overtakings \in Nat
      /\ faults'.overtakings >= faults.overtakings
  <2>1. source'.fresh \in Nat \ {0} /\ window' \in WindowRecords
    BY <1>1 DEF TypeOK
  <2> QED
    BY <1>1, <2>1, Counters, FaultsGrow DEF WindowRecords
<1>3. /\ window.values[c] <= source.fresh - 1 /\ hub.values[c] <= source.fresh - 1
      /\ window.values[c] >= hub.values[c] - faults.overtakings
  <2>1. faults.rewinds = 0
    BY <1>1, FaultsGrow, Counters
  <2> QED
    BY <2>1 DEF ValuesLag
<1>4. /\ source'.fresh >= source.fresh
      /\ window'.values[c] <= source'.fresh - 1
      /\ \/ Restart
         \/ window'.values[c] = window.values[c]
         \/ window'.values[c] >= source.fresh - 1 - faults'.overtakings
  BY <1>3, ValueMoves
<1>5. CASE Restart
  <2>1. hub'.values[c] = 0
    BY <1>5 DEF Restart, NoState, BuildState, EmptyWindow, Absent
  <2> QED
    BY <1>2, <1>4, <2>1
<1>6. CASE Broadcast
  <2>1. UNCHANGED window /\ hub'.values \in {hub.values, window.values}
    BY <1>6 DEF Broadcast, BuildState
  <2> QED
    BY <1>2, <1>3, <1>4, <2>1
<1>7. CASE ~Restart /\ ~Broadcast
  <2>1. UNCHANGED hub
    BY <1>7 DEF Next, Consume, Environment, vars, Connect, Subscribe, MqttFails, Wake, Deliver, Lose,
                BrokerCrashes, BrokerReturns, LinkBreaks, Rewind, Overtake, pipeline
  <2> QED
    BY <1>2, <1>3, <1>4, <1>7, <2>1
<1> QED
  BY <1>5, <1>6, <1>7

LEMMA ValuesAlwaysLag == Spec => []ValuesLag
<1>1. Init => ValuesLag
  BY DEF Init, ValuesLag, NoState, BuildState, EmptyWindow, Absent, NoFaults, FaultKinds
<1>2. IInv /\ IInv' /\ ValuesLag /\ [Next]_vars => ValuesLag'
  BY ValuesKeepLagging
<1> QED
  BY <1>1, <1>2, Invariance, PTL DEF Spec

\* The answers of GetState get neither older nor lost but by a restart, also across
\* lost messages, reconnections and a simulation that starts again; and within one
\* simulation no value in them gets older by more JointStates than the bridge
\* published out of their turn: by none while it keeps the order.
THEOREM AnswersOnlyAdvance == Spec => AnswersAdvance
<1> DEFINE Advance ==
               \/ faults'.restarts > faults.restarts
               \/ /\ hub'.stamp >= hub.stamp
                  /\ faults.rewinds = 0 =>
                        \A c \in Channels :
                            hub'.values[c] >= hub.values[c] - faults.overtakings
<1>1. IInv /\ ValuesLag /\ [Next]_vars => [Advance]_vars
  <2> SUFFICES ASSUME IInv, ValuesLag, Next PROVE Advance
    OBVIOUS
  <2>1. /\ hub.stamp \in Nat /\ window.stamp \in Nat /\ faults.overtakings \in Nat
        /\ \A c \in Channels : hub.values[c] \in Nat /\ window.values[c] \in Nat
    BY Counters DEF IInv
  <2>2. CASE Restart
    <3>1. /\ faults'["restarts"] = faults["restarts"] + 1
          /\ faults["restarts"] \in Nat
      BY <2>2, FaultType DEF IInv, Restart, FaultKinds
    <3> QED
      BY <3>1
  <2>3. CASE hub' = BuildState(window)
    <3>1. hub'.stamp = window.stamp /\ hub'.values = window.values
      BY <2>3 DEF BuildState
    <3> QED
      BY <2>1, <3>1 DEF IInv, HubBehind, ValuesLag
  <2>4. CASE hub' = hub
    BY <2>1, <2>4
  <2>5. Restart \/ hub' = BuildState(window) \/ hub' = hub
    BY DEF Next, Consume, Environment, Connect, Subscribe, MqttFails, Wake, Deliver, Lose, Broadcast,
           BrokerCrashes, BrokerReturns, LinkBreaks, Rewind, Overtake, pipeline
  <2> QED
    BY <2>2, <2>3, <2>4, <2>5
<1> QED
  BY Invariance, ValuesAlwaysLag, <1>1, PTL DEF Spec, AnswersAdvance

\* What a step of the source asks of a value: nothing more than before, but for the
\* channel whose message it was.
LEMMA DueMoves ==
    ASSUME TypeOK, SourceMovesOn, NEW i \in Positions,
           faults'.losses \in Nat, faults'.overtakings = faults.overtakings
    PROVE  /\ Due(i)' <= source.fresh - 1 - faults.overtakings - faults'.losses
           /\ i # source.next => Due(i)' <= Due(i) + faults.losses - faults'.losses
           /\ Due(i)' <= Due(i) + 1 + faults.losses - faults'.losses
           /\ Due(i)' \in Int
<1> DEFINE n == 3 * Len(SourceNames)
           f == source.fresh
           k == source.next
           o == faults.overtakings
<1>1. /\ n \in Nat /\ i \in Nat /\ 1 <= i /\ i <= n /\ f \in Nat /\ k \in Nat /\ 1 <= k /\ k <= n
      /\ faults.losses \in Nat /\ o \in Nat
  BY Counters, StateSvcAssumption DEF Positions
<1>2. Due(i) = (IF k > i THEN f - 1 ELSE f - 2) - o - faults.losses
  BY DEF Due
<1>3. Due(i)' = (IF source'.next > i THEN source'.fresh - 1 ELSE source'.fresh - 2) - o - faults'.losses
  BY DEF Due
<1>4. \/ k < n /\ source'.next = k + 1 /\ source'.fresh = f
      \/ ~(k < n) /\ source'.next = 1 /\ source'.fresh \in {f, f + 1}
  BY SourceMoves
<1>5. /\ Due(i)' <= f - 1 - o - faults'.losses
      /\ i # k => Due(i)' <= Due(i) + faults.losses - faults'.losses
      /\ Due(i)' <= Due(i) + 1 + faults.losses - faults'.losses
      /\ Due(i)' \in Int
  <2> HIDE DEF n, f, k, o
  <2>1. CASE k < n /\ source'.next = k + 1 /\ source'.fresh = f
    BY <1>1, <1>2, <1>3, <2>1
  <2>2. CASE ~(k < n) /\ source'.next = 1 /\ source'.fresh \in {f, f + 1}
    BY <1>1, <1>2, <1>3, <2>2
  <2> QED
    BY <1>4, <2>1, <2>2
<1> QED
  BY <1>5

LEMMA DueType ==
    ASSUME TypeOK, NEW i \in Positions
    PROVE  Due(i) \in Int
BY Counters DEF Due

\* A state that is published is no further apart than the window.
LEMMA UpToDateIsBounded ==
    ASSUME TypeOK, NEW c \in Channels, UpToDate(c), window.stamp <= source.fresh - 1
    PROVE  window.values[c] >= window.stamp - 1 - faults.losses - faults.overtakings
<1>1. PICK i \in Positions : ChannelAt(i) = c
  BY DEF UpToDate
<1>2. window.values[c] >= Due(i)
  BY <1>1 DEF UpToDate
<1> QED
  BY <1>2, Counters DEF Due

\* The source moves on past a message that is lost.
LEMMA LoseUpToDate ==
    ASSUME IInv, TypeOK', Lose, NEW c \in Channels, UpToDate(c)
    PROVE  UpToDate(c)'
<1>1. /\ UNCHANGED <<linked, session, window>> /\ SourceMovesOn
      /\ Subscribed => Fault("losses")
  BY DEF Lose, consumer, pipeline
<1>2. TypeOK
  BY DEF IInv
<1>3. Subscribed /\ Subscribed'
  BY <1>1 DEF UpToDate, Subscribed
<1>4. /\ faults'.losses = faults.losses + 1 /\ faults.losses \in Nat
      /\ faults'.overtakings = faults.overtakings
  <2>1. /\ faults'["losses"] = faults["losses"] + 1 /\ faults["losses"] \in Nat
        /\ faults'["overtakings"] = faults["overtakings"]
    BY <1>1, <1>2, <1>3, FaultType DEF FaultKinds
  <2> QED
    BY <2>1
<1>5. ASSUME NEW i \in Positions, ChannelAt(i) = c PROVE window'.values[c] >= Due(i)'
  <2>1. window.values[c] >= Due(i)
    BY <1>5 DEF UpToDate
  <2>2. Due(i)' <= Due(i) + 1 + faults.losses - faults'.losses
    BY <1>1, <1>2, <1>4, DueMoves
  <2>3. Due(i) \in Int /\ Due(i)' \in Int /\ window.values[c] \in Int
    BY <1>1, <1>2, <1>4, DueMoves, DueType, Counters
  <2> QED
    BY <1>1, <1>4, <2>1, <2>2, <2>3
<1> QED
  BY <1>3, <1>5 DEF UpToDate, ChannelAt, JointAt, FieldAt

\* The source moves on past a message that arrives: its channel has the newest value,
\* and of the others nothing more is asked.
LEMMA DeliverUpToDate ==
    ASSUME IInv, TypeOK', Deliver, NEW c \in Channels,
           window.values[c] # Absent => UpToDate(c), window'.values[c] # Absent,
           faults.rewinds = 0
    PROVE  UpToDate(c)'
<1> DEFINE k == source.next
           t == source.stamp
<1>1. /\ UNCHANGED <<linked, session, faults>> /\ SourceMovesOn
      /\ Subscribed /\ Subscribed'
  BY DEF Deliver, consumer, Subscribed
<1>2. /\ TypeOK /\ k \in Positions /\ t \in Nat /\ window \in WindowRecords
      /\ faults.losses \in Nat /\ faults'.losses = faults.losses
      /\ faults.overtakings \in Nat /\ faults'.overtakings = faults.overtakings
      /\ source.fresh \in Nat /\ t >= source.fresh - 1 - faults.overtakings
  BY <1>1, Counters DEF IInv, TypeOK, SourceLeads, Pending
<1>3. CASE c = ChannelAt(k) /\ window'.values[c] = t
  <2>1. ASSUME NEW i \in Positions PROVE window'.values[c] >= Due(i)'
    <3>1. Due(i)' <= source.fresh - 1 - faults.overtakings - faults'.losses /\ Due(i)' \in Int
      BY <1>1, <1>2, DueMoves
    <3> QED
      BY <1>2, <1>3, <3>1
  <2> QED
    BY <1>1, <1>2, <1>3, <2>1 DEF UpToDate, ChannelAt, JointAt, FieldAt
<1>4. CASE c # ChannelAt(k) /\ window'.values[c] = window.values[c]
  <2>1. UpToDate(c)
    BY <1>4
  <2>2. ASSUME NEW i \in Positions, ChannelAt(i) = c PROVE window'.values[c] >= Due(i)'
    <3>1. window.values[c] >= Due(i)
      BY <2>1, <2>2 DEF UpToDate
    <3>2. i # k
      BY <1>4, <2>2
    <3>3. Due(i)' <= Due(i) + faults.losses - faults'.losses
      BY <1>1, <1>2, <3>2, DueMoves
    <3>4. Due(i) \in Int /\ Due(i)' \in Int /\ window.values[c] \in Int
      BY <1>1, <1>2, DueMoves, DueType, Counters
    <3> QED
      BY <1>2, <1>4, <3>1, <3>3, <3>4
  <2> QED
    BY <1>1, <2>1, <2>2 DEF UpToDate, ChannelAt, JointAt, FieldAt
<1>5. \/ c = ChannelAt(k) /\ window'.values[c] = t
      \/ c # ChannelAt(k) /\ window'.values[c] = window.values[c]
  <2>1. CASE JointAt(k) \in Joints
    <3>1. window' = Observe(window, JointAt(k), FieldAt(k), t)
      BY <2>1 DEF Deliver
    <3>2. window'.values = [window.values EXCEPT ![<<JointAt(k), FieldAt(k)>>] = t]
      BY <2>1, <3>1 DEF Observe, Replace
    <3>3. window.values \in [Channels -> Nat]
      BY <1>2 DEF WindowRecords
    <3> QED
      BY <3>2, <3>3 DEF ChannelAt
  <2>2. CASE JointAt(k) \notin Joints
    <3>1. window' = window
      BY <2>2 DEF Deliver
    <3>2. c # ChannelAt(k)
      BY <2>2 DEF ChannelAt, Channels
    <3> QED
      BY <3>1, <3>2
  <2> QED
    BY <2>1, <2>2
<1> QED
  BY <1>3, <1>4, <1>5

\* An overtaking asks nothing more of a value: what it adds to the newest stamp it
\* grants as an excuse.
LEMMA OvertakeUpToDate ==
    ASSUME IInv, Overtake, NEW c \in Channels, UpToDate(c)
    PROVE  UpToDate(c)'
<1>1. TypeOK /\ UNCHANGED <<linked, session, window>>
  BY DEF IInv, Overtake, consumer, pipeline
<1>2. /\ faults'.losses = faults.losses /\ faults.losses \in Nat
      /\ faults'.overtakings = faults.overtakings + 1 /\ faults.overtakings \in Nat
  <2>1. /\ faults'["overtakings"] = faults["overtakings"] + 1 /\ faults["overtakings"] \in Nat
        /\ faults'["losses"] = faults["losses"]
    BY <1>1, FaultType DEF Overtake, FaultKinds
  <2> QED
    BY <1>1, <2>1, Counters
<1>3. /\ source.fresh \in Nat /\ source.next = 1 /\ source'.next = 1
      /\ source'.fresh \in {source.fresh, source.fresh + 1}
  BY <1>1, OvertakeMoves, Counters
<1>4. ASSUME NEW i \in Positions, ChannelAt(i) = c PROVE window'.values[c] >= Due(i)'
  <2>1. window.values[c] >= Due(i) /\ window.values[c] \in Nat
    BY <1>1, <1>4, Counters DEF UpToDate
  <2>2. ~(1 > i) /\ i \in Int
    BY StateSvcAssumption DEF Positions
  <2>3. Due(i) = source.fresh - 2 - faults.overtakings - faults.losses
    BY <1>3, <2>2 DEF Due
  <2>4. Due(i)' = source'.fresh - 2 - (faults.overtakings + 1) - faults.losses
    BY <1>2, <1>3, <2>2 DEF Due
  <2> QED
    BY <1>1, <1>2, <1>3, <2>1, <2>3, <2>4
<1> QED
  BY <1>1, <1>4 DEF UpToDate, Subscribed, ChannelAt, JointAt, FieldAt

\* Every other step leaves source and window alone, or empties the window; one that
\* ends the subscription counts as a break or found it ended.
LEMMA RestUpToDate ==
    ASSUME IInv, [Next]_vars, ~Lose, ~Deliver, ~Overtake, faults'.breaks = 0, faults'.rewinds = 0,
           NEW c \in Channels, window.values[c] # Absent => UpToDate(c),
           window'.values[c] # Absent
    PROVE  UpToDate(c)'
<1>1. TypeOK
  BY DEF IInv
<1>2. ~Fault("breaks") /\ ~Fault("rewinds")
  BY <1>1, FaultType DEF FaultKinds
<1>3. ~Restart
  BY DEF Restart, EmptyWindow
<1>4. UNCHANGED <<source, window>> /\ faults' = faults
  BY <1>2, <1>3 DEF Next, Consume, Environment, vars, Connect, Subscribe, MqttFails, Wake, Broadcast,
     BrokerCrashes, BrokerReturns, LinkBreaks, Rewind, consumer, pipeline
<1>5. UpToDate(c)
  BY <1>4
<1>6. Subscribed'
  <2>1. session = "consuming" /\ linked
    BY <1>5 DEF UpToDate, Subscribed
  <2> QED
    BY <1>2, <1>3, <2>1 DEF Next, Consume, Environment, vars, Connect, Subscribe, MqttFails, Wake, Broadcast,
       BrokerCrashes, BrokerReturns, LinkBreaks, Rewind, consumer, Subscribed
<1> QED
  BY <1>4, <1>5, <1>6 DEF UpToDate, Due, ChannelAt, JointAt, FieldAt

LEMMA WindowStaysUpToDate ==
    ASSUME IInv, IInv', [Next]_vars, WindowIsUpToDate
    PROVE  WindowIsUpToDate'
<1> SUFFICES ASSUME faults'.breaks = 0, faults'.rewinds = 0,
                    NEW c \in Channels, window'.values[c] # Absent
             PROVE  UpToDate(c)'
  BY DEF WindowIsUpToDate
<1>1. TypeOK /\ TypeOK'
  BY DEF IInv
<1>2. window.values[c] # Absent => UpToDate(c)
  <2>1. faults.breaks = 0 /\ faults.rewinds = 0
    BY <1>1, FaultsGrow, Counters
  <2> QED
    BY <2>1 DEF WindowIsUpToDate
<1>3. CASE Lose
  <2>1. window' = window
    BY <1>3 DEF Lose, pipeline
  <2> QED
    BY <1>1, <1>2, <1>3, <2>1, LoseUpToDate
<1>4. CASE Deliver
  <2>1. faults.rewinds = 0
    BY <1>1, FaultsGrow, Counters
  <2> QED
    BY <1>1, <1>2, <1>4, <2>1, DeliverUpToDate
<1>5. CASE Overtake
  <2>1. window' = window
    BY <1>5 DEF Overtake, pipeline
  <2> QED
    BY <1>2, <1>5, <2>1, OvertakeUpToDate
<1> QED
  BY <1>2, <1>3, <1>4, <1>5, RestUpToDate

LEMMA TearStaysBounded ==
    ASSUME IInv, [Next]_vars, TInv
    PROVE  TearIsBounded'
<1> SUFFICES ASSUME faults'.breaks = 0, faults'.rewinds = 0, hub' # NoState, NEW c \in Channels
             PROVE  hub'.values[c] >= hub'.stamp - 1 - faults'.losses - faults'.overtakings
  BY DEF TearIsBounded
<1>1. TypeOK
  BY DEF IInv
<1>2. /\ faults.breaks = 0 /\ faults.rewinds = 0
      /\ faults.losses \in Nat /\ faults'.losses \in Nat /\ faults'.losses >= faults.losses
      /\ faults.overtakings \in Nat /\ faults'.overtakings \in Nat
      /\ faults'.overtakings >= faults.overtakings
  BY <1>1, FaultsGrow, Counters
<1>3. /\ window.values[c] \in Nat /\ hub.values[c] \in Nat /\ window.stamp \in Nat
      /\ hub.stamp \in Nat
  BY <1>1, Counters
<1>4. CASE UNCHANGED hub
  <2>1. hub.values[c] >= hub.stamp - 1 - faults.losses - faults.overtakings
    BY <1>2, <1>4 DEF TInv, TearIsBounded
  <2> QED
    BY <1>2, <1>3, <1>4, <2>1
<1>5. CASE Broadcast /\ Complete(window) /\ hub' = BuildState(window) /\ faults' = faults
  <2>1. UpToDate(c)
    BY <1>2, <1>5 DEF TInv, WindowIsUpToDate, Complete
  <2>2. window.stamp <= source.fresh - 1
    BY <1>2 DEF IInv, SourceLeads
  <2>3. window.values[c] >= window.stamp - 1 - faults.losses - faults.overtakings
    BY <1>1, <2>1, <2>2, UpToDateIsBounded
  <2> QED
    BY <1>5, <2>3 DEF BuildState
<1>6. UNCHANGED hub \/ Restart \/ (Broadcast /\ Complete(window) /\ hub' = BuildState(window) /\ faults' = faults)
  BY DEF Next, Consume, Environment, vars, Connect, Subscribe, MqttFails, Wake, Deliver, Lose, Broadcast,
     BrokerCrashes, BrokerReturns, LinkBreaks, Rewind, Overtake, pipeline
<1>7. ~Restart
  BY DEF Restart
<1> QED
  BY <1>4, <1>5, <1>6, <1>7

\* While no connection broke and no simulation started again, the values of one state
\* are one measurement apart, plus one for each lost message and for each JointState
\* published out of its turn: wherever the broadcast clock cuts through a JointState,
\* however long it is and however often the service was restarted.
THEOREM TearsAreBounded == Spec => []TearIsBounded
<1>1. Init => TInv
  <2> SUFFICES ASSUME Init PROVE TInv
    OBVIOUS
  <2>1. WindowIsUpToDate
    BY DEF Init, WindowIsUpToDate, EmptyWindow
  <2>2. TearIsBounded
    BY DEF Init, TearIsBounded
  <2> QED
    BY <2>1, <2>2 DEF TInv
<1>2. IInv /\ IInv' /\ TInv /\ [Next]_vars => TInv'
  BY WindowStaysUpToDate, TearStaysBounded DEF TInv
<1>3. TInv => TearIsBounded
  BY DEF TInv
<1> QED
  BY <1>1, <1>2, <1>3, Invariance, PTL DEF Spec

-----------------------------------------------------------------------------
(* The hub and its streams.                                                  *)

\* No stream is ahead of the hub.
ReachedExists == \A s \in Streams : reached[s] <= latest

\* The inductive invariant.  MailboxIsNewest needs Registered (only a handler
\* whose queue is registered reads it), EmptyMeansCurrent needs MailboxIsNewest
\* (what is read last is the newest), the refinement needs ReachedExists.
HubInv ==
    /\ HubTypeOK
    /\ Registered
    /\ MailboxIsNewest
    /\ EmptyMeansCurrent
    /\ ReachedExists

-----------------------------------------------------------------------------
\* Depositing never leaves more than the deposited state in a mailbox of size one.
LEMMA DepositReplaces ==
    ASSUME NEW S, NEW queue \in Seq(S), NEW x \in S,
           queue = <<>> \/ \E y \in S : queue = <<y>>
    PROVE  Deposit(queue, x) = <<x>>
<1>1. CASE queue = <<>>
  BY <1>1 DEF Deposit
<1>2. CASE \E y \in S : queue = <<y>>
  <2>1. PICK y \in S : queue = <<y>>
    BY <1>2
  <2>2. queue # <<>> /\ Tail(queue) = <<>>
    BY <2>1
  <2>3. Append(<<>>, x) = <<x>>
    OBVIOUS
  <2> QED
    BY <2>2, <2>3 DEF Deposit
<1> QED
  BY <1>1, <1>2

LEMMA InitHubInv == HubInit => HubInv
BY StateHubAssumption
   DEF HubInit, HubInv, HubTypeOK, Registered, MailboxIsNewest, EmptyMeansCurrent, ReachedExists, PCs

LEMMA PublishHubInv == HubInv /\ Publish => HubInv'
<1> SUFFICES ASSUME HubInv, Publish PROVE HubInv'
  OBVIOUS
<1> USE StateHubAssumption
<1>1. latest' = latest + 1 /\ latest' \in 1..MaxStates /\ latest \in 0..MaxStates
  BY DEF HubInv, HubTypeOK, Publish
<1>2. \A s \in subscribers : mailbox'[s] = <<latest'>>
  <2> SUFFICES ASSUME NEW s \in subscribers PROVE mailbox'[s] = <<latest'>>
    OBVIOUS
  <2>1. s \in Streams /\ mailbox[s] \in Seq(1..MaxStates)
    BY DEF HubInv, HubTypeOK
  <2>2. mailbox[s] = <<>> \/ (mailbox[s] = <<latest>> /\ latest \in 1..MaxStates)
    <3>1. CASE mailbox[s] # <<>>
      <4>1. mailbox[s] = <<latest>> /\ reached[s] < latest /\ reached[s] \in 0..MaxStates
        BY <3>1, <2>1 DEF HubInv, MailboxIsNewest, HubTypeOK
      <4> QED
        BY <4>1, <1>1
    <3> QED
      BY <3>1
  <2>3. Deposit(mailbox[s], latest + 1) = <<latest + 1>>
    BY <2>1, <2>2, <1>1, DepositReplaces
  <2> QED
    BY <2>1, <2>3, <1>1 DEF Publish
<1>3. HubTypeOK'
  <2>1. ASSUME NEW s \in Streams
        PROVE  mailbox'[s] \in Seq(1..MaxStates)
    <3>1. CASE s \in subscribers
      <4>1. mailbox'[s] = <<latest'>> /\ latest' \in 1..MaxStates
        BY <1>1, <1>2, <3>1
      <4> QED
        BY <4>1
    <3>2. CASE s \notin subscribers
      BY <3>2 DEF HubInv, HubTypeOK, Publish
    <3> QED
      BY <3>1, <3>2
  <2>2. mailbox' = [s \in Streams |-> mailbox'[s]]
    BY DEF Publish
  <2>3. mailbox' \in [Streams -> Seq(1..MaxStates)]
    BY <2>1, <2>2
  <2> QED
    BY <2>3, <1>1 DEF HubInv, HubTypeOK, Publish
<1>4. Registered'
  BY DEF HubInv, Registered, Publish
<1>5. MailboxIsNewest' /\ EmptyMeansCurrent' /\ ReachedExists'
  <2>1. \A s \in Streams : reached[s] \in Nat /\ reached[s] <= latest
    <3> TAKE s \in Streams
    <3>1. reached[s] \in 0..MaxStates
      BY DEF HubInv, HubTypeOK
    <3>2. reached[s] \in Nat
      BY <3>1
    <3>3. reached[s] <= latest
      BY DEF HubInv, ReachedExists
    <3> QED
      BY <3>2, <3>3
  <2>2. subscribers \subseteq Streams /\ subscribers' = subscribers /\ reached' = reached
    BY DEF HubInv, HubTypeOK, Publish
  <2>3. \A s \in subscribers : mailbox'[s] # <<>>
    BY <1>2
  <2>4. MailboxIsNewest'
    BY <1>1, <1>2, <2>1, <2>2 DEF MailboxIsNewest
  <2>5. EmptyMeansCurrent'
    BY <2>2, <2>3 DEF EmptyMeansCurrent
  <2>6. ReachedExists'
    BY <1>1, <2>1, <2>2 DEF ReachedExists
  <2> QED
    BY <2>4, <2>5, <2>6
<1> QED
  BY <1>3, <1>4, <1>5 DEF HubInv

LEMMA OpenHubInv == ASSUME NEW s \in Streams PROVE HubInv /\ Open(s) => HubInv'
<1> SUFFICES ASSUME HubInv, Open(s) PROVE HubInv'
  OBVIOUS
<1> USE StateHubAssumption
<1>1. HubTypeOK'
  <2>1. <<>> \in Seq(1..MaxStates)
    OBVIOUS
  <2> QED
    BY <2>1 DEF HubInv, HubTypeOK, Open, PCs
<1>2. Registered'
  BY DEF HubInv, HubTypeOK, Registered, Open
<1>3. MailboxIsNewest'
  BY DEF HubInv, HubTypeOK, MailboxIsNewest, Open
<1>4. EmptyMeansCurrent'
  BY DEF HubInv, HubTypeOK, EmptyMeansCurrent, Open
<1>5. ReachedExists'
  BY DEF HubInv, HubTypeOK, ReachedExists, Open
<1> QED
  BY <1>1, <1>2, <1>3, <1>4, <1>5 DEF HubInv

\* What a handler takes from its mailbox is the newest state, and leaves it empty.
LEMMA GetNewest ==
    ASSUME NEW s \in Streams, HubInv, Get(s)
    PROVE  /\ s \in subscribers
           /\ Head(mailbox[s]) = latest
           /\ mailbox' = [mailbox EXCEPT ![s] = <<>>]
           /\ latest \in 1..MaxStates
<1>1. s \in subscribers
  BY DEF HubInv, Registered, Get
<1>2. mailbox[s] = <<latest>> /\ reached[s] < latest
  BY <1>1 DEF HubInv, MailboxIsNewest, Get
<1>3. latest \in 1..MaxStates
  BY <1>2, StateHubAssumption DEF HubInv, HubTypeOK
<1>4. Head(mailbox[s]) = latest /\ Tail(mailbox[s]) = <<>>
  BY <1>2
<1> QED
  BY <1>1, <1>3, <1>4 DEF Get

LEMMA SkipHubInv == ASSUME NEW s \in Streams PROVE HubInv /\ Skip(s) => HubInv'
<1> SUFFICES ASSUME HubInv, Skip(s) PROVE HubInv'
  OBVIOUS
<1> USE StateHubAssumption
<1>1. Get(s) /\ since[s] < MinInterval[s]
  BY DEF Skip
<1>2. mailbox' = [mailbox EXCEPT ![s] = <<>>]
  BY <1>1, GetNewest
<1>3. HubTypeOK' /\ Registered' /\ ReachedExists'
  BY <1>2 DEF HubInv, HubTypeOK, Registered, ReachedExists, Skip
<1>4. MailboxIsNewest'
  BY <1>2 DEF HubInv, HubTypeOK, MailboxIsNewest, Skip
<1>5. MinInterval[s] # 0
  BY <1>1 DEF HubInv, HubTypeOK
<1>6. EmptyMeansCurrent'
  BY <1>2, <1>5 DEF HubInv, HubTypeOK, EmptyMeansCurrent, Skip
<1> QED
  BY <1>3, <1>4, <1>6 DEF HubInv

LEMMA YieldHubInv == ASSUME NEW s \in Streams PROVE HubInv /\ Yield(s) => HubInv'
<1> SUFFICES ASSUME HubInv, Yield(s) PROVE HubInv'
  OBVIOUS
<1> USE StateHubAssumption
<1>1. Get(s)
  BY DEF Yield
<1>2. /\ mailbox' = [mailbox EXCEPT ![s] = <<>>]
      /\ reached' = [reached EXCEPT ![s] = latest]
      /\ s \in subscribers
  BY <1>1, GetNewest DEF Yield
<1>3. HubTypeOK'
  BY <1>2 DEF HubInv, HubTypeOK, Yield, PCs
<1>4. Registered'
  BY <1>2 DEF HubInv, HubTypeOK, Registered, Yield
<1>5. MailboxIsNewest'
  BY <1>2 DEF HubInv, HubTypeOK, MailboxIsNewest, Yield
<1>6. EmptyMeansCurrent'
  BY <1>2 DEF HubInv, HubTypeOK, EmptyMeansCurrent, Yield
<1>7. ReachedExists'
  BY <1>2 DEF HubInv, HubTypeOK, ReachedExists, Yield
<1> QED
  BY <1>3, <1>4, <1>5, <1>6, <1>7 DEF HubInv

\* A write that ends, or that the client breaks off, moves the handler only.
LEMMA WriteHubInv ==
    ASSUME NEW s \in Streams PROVE HubInv /\ (Written(s) \/ Abandon(s)) => HubInv'
<1> SUFFICES ASSUME HubInv, Written(s) \/ Abandon(s) PROVE HubInv'
  OBVIOUS
<1>1. HubTypeOK'
  BY DEF HubInv, HubTypeOK, Written, Abandon, PCs
<1>2. Registered'
  BY DEF HubInv, HubTypeOK, Registered, Written, Abandon
<1>3. UNCHANGED <<latest, subscribers, mailbox, reached>>
  BY DEF Written, Abandon
<1> QED
  BY <1>1, <1>2, <1>3 DEF HubInv, MailboxIsNewest, EmptyMeansCurrent, ReachedExists

\* A handler that ends takes its queue with it.
LEMMA LeaveHubInv ==
    ASSUME NEW s \in Streams PROVE HubInv /\ (Cancel(s) \/ Finalise(s)) => HubInv'
<1> SUFFICES ASSUME HubInv, Cancel(s) \/ Finalise(s) PROVE HubInv'
  OBVIOUS
<1>1. HubTypeOK'
  BY DEF HubInv, HubTypeOK, Cancel, Finalise, PCs
<1>2. Registered'
  BY DEF HubInv, HubTypeOK, Registered, Cancel, Finalise
<1>3. UNCHANGED <<latest, mailbox, reached>> /\ subscribers' \subseteq subscribers
  BY DEF Cancel, Finalise
<1> QED
  BY <1>1, <1>2, <1>3 DEF HubInv, MailboxIsNewest, EmptyMeansCurrent, ReachedExists

LEMMA TickHubInv == HubInv /\ Tick => HubInv'
<1> SUFFICES ASSUME HubInv, Tick PROVE HubInv'
  OBVIOUS
<1>1. HubTypeOK'
  BY StateHubAssumption DEF HubInv, HubTypeOK, Tick
<1> QED
  BY <1>1 DEF HubInv, Registered, MailboxIsNewest, EmptyMeansCurrent, ReachedExists, Tick

\* A process that starts again begins where the first one did.
LEMMA RestartHubInv == HubRestart => HubInv'
BY StateHubAssumption
   DEF HubRestart, HubInv, HubTypeOK, Registered, MailboxIsNewest, EmptyMeansCurrent,
       ReachedExists, PCs

\* Every state the hub and its streams can reach satisfies the invariant.
THEOREM HubInvariance == HubSpec => []HubInv
<1>1. HubInit => HubInv
  BY InitHubInv
<1>2. HubInv /\ [HubNext]_hubVars => HubInv'
  <2> SUFFICES ASSUME HubInv, [HubNext]_hubVars PROVE HubInv'
    OBVIOUS
  <2>1. CASE Publish
    BY <2>1, PublishHubInv
  <2>2. CASE Tick
    BY <2>2, TickHubInv
  <2>3. ASSUME NEW s \in Streams, Handle(s)
        PROVE  HubInv'
    BY <2>3, OpenHubInv, SkipHubInv, YieldHubInv, WriteHubInv, LeaveHubInv DEF Handle
  <2>4. CASE UNCHANGED hubVars
    BY <2>4 DEF hubVars, HubInv, HubTypeOK, Registered, MailboxIsNewest, EmptyMeansCurrent, ReachedExists
  <2>5. CASE HubRestart
    BY <2>5, RestartHubInv
  <2> QED
    BY <2>1, <2>2, <2>3, <2>4, <2>5 DEF HubNext
<1> QED
  BY <1>1, <1>2, PTL DEF HubSpec

\* Type correctness of the hub and its handlers.
THEOREM HubTypeCorrect == HubSpec => []HubTypeOK
<1>1. HubInv => HubTypeOK
  BY DEF HubInv
<1> QED
  BY <1>1, HubInvariance, PTL

\* Each stream's queue is registered from its subscription to its finalisation, and
\* no other is: nothing leaks, and no handler waits on a queue nobody feeds.
THEOREM HubStaysRegistered == HubSpec => []Registered
BY HubInvariance, PTL DEF HubInv

\* Latest wins, and no wake-up is lost: what waits in a registered mailbox is the newest
\* state, and an uncapped stream with an empty one has reached it (StateHub.publish,
\* StateServicer.StreamState).
THEOREM HubMailboxesStayCurrent == HubSpec => []MailboxIsCurrent
<1>1. HubInv => MailboxIsCurrent
  BY DEF HubInv, MailboxIsCurrent
<1> QED
  BY <1>1, HubInvariance, PTL

-----------------------------------------------------------------------------
\* StateHub implements LatestWins: publish() produces a state, subscribing and
\* yielding advance a stream, a new process begins again, and every other step is
\* invisible to the promise.
THEOREM HubKeepsPromise == HubSpec => Promise
<1>1. HubInit => Stream!Init
  BY DEF HubInit, Stream!Init
<1>2. HubInv /\ [HubNext]_hubVars => [Stream!Next]_(Stream!vars)
  <2> SUFFICES ASSUME HubInv, [HubNext]_hubVars PROVE [Stream!Next]_(Stream!vars)
    OBVIOUS
  <2> USE DEF Stream!Next, Stream!vars, Stream!Produce, Stream!Restart, Stream!Advance
  <2>1. CASE Publish
    BY <2>1 DEF Publish
  <2>2. CASE Tick
    BY <2>2 DEF Tick
  <2>3. ASSUME NEW s \in Streams, Open(s) PROVE [Stream!Next]_(Stream!vars)
    <3>1. /\ reached[s] \in Nat /\ latest \in Nat /\ reached[s] <= latest
          /\ reached' = [reached EXCEPT ![s] = latest] /\ latest' = latest
          /\ reached \in [Streams -> Nat]
      BY <2>3 DEF HubInv, HubTypeOK, ReachedExists, Open
    <3>2. CASE reached[s] = latest
      BY <3>1, <3>2
    <3>3. CASE reached[s] # latest
      <4>1. latest \in (reached[s] + 1)..latest
        BY <3>1, <3>3
      <4> QED
        BY <3>1, <4>1
    <3> QED
      BY <3>2, <3>3
  <2>4. ASSUME NEW s \in Streams, Yield(s) PROVE [Stream!Next]_(Stream!vars)
    <3>1. Get(s)
      BY <2>4 DEF Yield
    <3>2. /\ reached' = [reached EXCEPT ![s] = latest] /\ latest' = latest
          /\ s \in subscribers /\ mailbox[s] # <<>>
      BY <2>4, <3>1, GetNewest DEF Yield, Get
    <3>3. latest \in (reached[s] + 1)..latest
      <4>1. reached[s] < latest /\ reached[s] \in Nat /\ latest \in Nat
        BY <3>2, StateHubAssumption DEF HubInv, HubTypeOK, MailboxIsNewest
      <4> QED
        BY <4>1
    <3> QED
      BY <3>2, <3>3
  <2>5. ASSUME NEW s \in Streams,
               Skip(s) \/ Written(s) \/ Cancel(s) \/ Abandon(s) \/ Finalise(s)
        PROVE  [Stream!Next]_(Stream!vars)
    BY <2>5 DEF Skip, Written, Cancel, Abandon, Finalise
  <2>6. CASE UNCHANGED hubVars
    BY <2>6 DEF hubVars
  <2>7. CASE HubRestart
    BY <2>7 DEF HubRestart
  <2> QED
    BY <2>1, <2>2, <2>3, <2>4, <2>5, <2>6, <2>7 DEF HubNext, Handle
<1> QED
  BY <1>1, <1>2, HubInvariance, PTL DEF HubSpec, Promise, Stream!Spec

-----------------------------------------------------------------------------
(* The process.  Each step of TwinFeed is a step of the consumer or leaves   *)
(* it alone, and a step of the hub or leaves it alone.                       *)

\* state-svc does with its window and its hub what StateSvc allows.
THEOREM FeedIsConsumer == FeedSpec => Spec
<1>1. FeedInit => Init
  BY DEF FeedInit
<1>2. [FeedNext]_feedVars => [Next]_vars
  BY DEF FeedNext, PublishState, ProcessRestart, ConsumerStep, StreamStep, feedVars,
         Next
<1> QED
  BY <1>1, <1>2, PTL DEF FeedSpec, Spec

\* ... and with its streams what StateHub allows, to which the consumer is publish().
THEOREM FeedIsHub == FeedSpec => HubSpec
<1>1. FeedInit => HubInit
  BY DEF FeedInit
<1>2. [FeedNext]_feedVars => [HubNext]_hubVars
  BY DEF FeedNext, PublishState, ProcessRestart, ConsumerStep, StreamStep, feedVars,
         HubNext
<1> QED
  BY <1>1, <1>2, PTL DEF FeedSpec, HubSpec

\* What the numbers of StateHub stand for: the newest is the state in the hub, and in
\* the order of their publication states do not get older, nor, until the simulation's
\* clock goes back, do their values by more than the overtakings there were.
Numbered ==
    /\ states \in Seq(StateRecords)
    /\ Len(states) = latest
    /\ hub = IF latest = 0 THEN NoState ELSE states[latest]

Chronological ==
    \A i, k \in 1..latest : i <= k =>
        /\ states[i].stamp <= states[k].stamp
        /\ faults.rewinds = 0 =>
              \A c \in Channels :
                  states[k].values[c] >= states[i].values[c] - faults.overtakings

\* The same between what was published and the window, which the next state is built of:
\* no published value is newer than the bridge's line, whose head is at most the
\* overtakings behind.
StatesLag ==
    faults.rewinds = 0 =>
        \A i \in 1..latest : \A c \in Channels :
            /\ states[i].values[c] <= source.fresh - 1
            /\ window.values[c] >= states[i].values[c] - faults.overtakings

FeedInv ==
    /\ IInv
    /\ ValuesLag
    /\ HubInv
    /\ Numbered
    /\ Chronological
    /\ StatesLag

\* The numbers the comparisons of states are made of.
LEMMA FeedCounters ==
    ASSUME FeedInv
    PROVE  /\ states \in Seq(StateRecords) /\ Len(states) = latest /\ latest \in Nat
           /\ hub \in StateRecords
           /\ faults.overtakings \in Nat /\ source.fresh \in Nat
           /\ \A c \in Channels : window.values[c] \in Nat
           /\ \A i \in 1..latest : /\ states[i].stamp \in Nat
                                  /\ \A c \in Channels : states[i].values[c] \in Nat
<1>1. states \in Seq(StateRecords) /\ Len(states) = latest /\ latest \in Nat
  BY StateHubAssumption DEF FeedInv, Numbered, HubInv, HubTypeOK
<1>2. \A i \in 1..latest : states[i] \in StateRecords
  BY <1>1
<1>3. TypeOK
  BY DEF FeedInv, IInv
<1> QED
  BY <1>1, <1>2, <1>3, Counters DEF StateRecords, TypeOK

\* A publication takes the next number, and what it publishes is no older than what
\* the hub served before.
LEMMA PublishKeepsOrder ==
    ASSUME FeedInv, PublishState, TypeOK'
    PROVE  Numbered' /\ Chronological' /\ StatesLag'
<1>1. /\ states \in Seq(StateRecords) /\ Len(states) = latest /\ latest \in Nat
      /\ hub \in StateRecords /\ hub' \in StateRecords
      /\ UNCHANGED <<faults, source, window>>
  BY FeedCounters DEF TypeOK, PublishState, Broadcast
<1>2. CASE ~Complete(window)
  <2>1. UNCHANGED <<latest, states, hub>>
    BY <1>2 DEF PublishState, Broadcast, hubVars
  <2> QED
    BY <1>1, <2>1 DEF FeedInv, Numbered, Chronological, StatesLag
<1>3. CASE Complete(window)
  <2>1. /\ latest' = latest + 1 /\ states' = Append(states, hub')
        /\ hub' = BuildState(window)
    BY <1>3 DEF PublishState, Broadcast, Publish
  <2>2. /\ Len(states') = latest' /\ states' \in Seq(StateRecords)
        /\ states'[latest'] = hub'
        /\ \A i \in 1..latest : states'[i] = states[i]
    BY <1>1, <2>1
  <2>3. Numbered'
    BY <1>1, <2>1, <2>2 DEF Numbered
  <2>4. /\ hub.stamp <= hub'.stamp /\ hub'.values = window.values
        /\ hub.stamp \in Nat /\ hub'.stamp \in Nat
    BY <1>1, <2>1 DEF BuildState, FeedInv, IInv, HubBehind, StateRecords
  <2>5. \A i \in 1..latest :
           /\ states[i].stamp <= hub'.stamp
           /\ faults.rewinds = 0 =>
                 \A c \in Channels :
                     hub'.values[c] >= states[i].values[c] - faults.overtakings
    <3> SUFFICES ASSUME NEW i \in 1..latest
                 PROVE  /\ states[i].stamp <= hub'.stamp
                        /\ faults.rewinds = 0 =>
                              \A c \in Channels :
                                  hub'.values[c] >= states[i].values[c] - faults.overtakings
      OBVIOUS
    <3>1. i <= latest /\ latest \in 1..latest /\ hub = states[latest]
      BY <1>1 DEF FeedInv, Numbered
    <3>2. states[i].stamp <= hub.stamp /\ states[i].stamp \in Nat
      BY <3>1, FeedCounters DEF FeedInv, Chronological
    <3> QED
      BY <2>4, <3>2 DEF FeedInv, StatesLag
  <2>6. Chronological'
    <3> SUFFICES ASSUME NEW i \in 1..latest', NEW k \in 1..latest', i <= k
                 PROVE  /\ states'[i].stamp <= states'[k].stamp
                        /\ faults.rewinds = 0 =>
                              \A c \in Channels :
                                  states'[k].values[c] >= states'[i].values[c] - faults.overtakings
      BY <1>1 DEF Chronological
    <3>1. CASE k \in 1..latest
      <4>1. i \in 1..latest
        BY <1>1, <3>1
      <4> QED
        BY <2>2, <3>1, <4>1 DEF FeedInv, Chronological
    <3>2. CASE k = latest' /\ i \in 1..latest
      BY <2>2, <2>5, <3>2
    <3>3. CASE i = latest' /\ k = latest'
      <4>1. hub'.stamp \in Nat /\ \A c \in Channels : hub'.values[c] \in Nat
        BY <1>1 DEF StateRecords
      <4> QED
        BY <2>2, <3>3, <4>1, FeedCounters
    <3> QED
      BY <1>1, <2>1, <3>1, <3>2, <3>3
  <2>7. StatesLag'
    <3> SUFFICES ASSUME faults.rewinds = 0, NEW i \in 1..latest', NEW c \in Channels
                 PROVE  /\ states'[i].values[c] <= source.fresh - 1
                        /\ window.values[c] >= states'[i].values[c] - faults.overtakings
      BY <1>1 DEF StatesLag
    <3>1. CASE i \in 1..latest
      BY <2>2, <3>1 DEF FeedInv, StatesLag
    <3>2. CASE i = latest'
      <4>1. states'[i].values[c] = window.values[c]
        BY <2>2, <2>4, <3>2
      <4>2. window.values[c] <= source.fresh - 1
        BY DEF FeedInv, ValuesLag
      <4> QED
        BY <4>1, <4>2, FeedCounters
    <3> QED
      BY <1>1, <2>1, <3>1, <3>2
  <2> QED
    BY <2>3, <2>6, <2>7
<1> QED
  BY <1>2, <1>3

\* Nothing else publishes: the numbers and the hub stay what they were, a value that
\* reaches the window comes from the bridge's line, and the start of a new simulation
\* ends what is asked of the values.
LEMMA OtherStepsKeepOrder ==
    ASSUME FeedInv, IInv', ConsumerStep \/ StreamStep \/ UNCHANGED feedVars
    PROVE  Numbered' /\ Chronological' /\ StatesLag'
<1>1. UNCHANGED <<latest, states, hub>>
  BY DEF ConsumerStep, StreamStep, feedVars, hubVars, vars, Consume, Environment, Connect,
         Subscribe, MqttFails, Wake, Deliver, Lose, BrokerCrashes, BrokerReturns, LinkBreaks,
         Rewind, Overtake, Tick, Handle, Open, Skip, Yield, Written, Cancel, Abandon, Finalise,
         pipeline
<1>2. [Next]_vars /\ IInv /\ TypeOK /\ TypeOK'
  BY DEF ConsumerStep, StreamStep, feedVars, Next, FeedInv, IInv
<1>3. /\ faults'.rewinds = 0 => faults.rewinds = 0
      /\ faults'.overtakings \in Nat /\ faults'.overtakings >= faults.overtakings
  BY <1>2, FaultsGrow, Counters
<1>4. Numbered'
  BY <1>1 DEF FeedInv, Numbered
<1>5. Chronological'
  <2> SUFFICES ASSUME NEW i \in 1..latest, NEW k \in 1..latest, i <= k
               PROVE  /\ states[i].stamp <= states[k].stamp
                      /\ faults'.rewinds = 0 =>
                            \A c \in Channels :
                                states[k].values[c] >= states[i].values[c] - faults'.overtakings
    BY <1>1 DEF Chronological
  <2>1. states[i].stamp <= states[k].stamp
    BY DEF FeedInv, Chronological
  <2>2. ASSUME faults'.rewinds = 0, NEW c \in Channels
        PROVE  states[k].values[c] >= states[i].values[c] - faults'.overtakings
    <3>1. states[k].values[c] >= states[i].values[c] - faults.overtakings
      BY <1>3, <2>2 DEF FeedInv, Chronological
    <3> QED
      BY <1>3, <3>1, FeedCounters
  <2> QED
    BY <2>1, <2>2
<1>6. StatesLag'
  <2> SUFFICES ASSUME faults'.rewinds = 0, NEW i \in 1..latest, NEW c \in Channels
               PROVE  /\ states[i].values[c] <= source'.fresh - 1
                      /\ window'.values[c] >= states[i].values[c] - faults'.overtakings
    BY <1>1 DEF StatesLag
  <2>1. /\ states[i].values[c] <= source.fresh - 1
        /\ window.values[c] >= states[i].values[c] - faults.overtakings
        /\ window.values[c] <= source.fresh - 1
    BY <1>3 DEF FeedInv, StatesLag, ValuesLag
  <2>2. /\ source'.fresh >= source.fresh
        /\ \/ Restart
           \/ window'.values[c] = window.values[c]
           \/ window'.values[c] >= source.fresh - 1 - faults'.overtakings
    BY <1>2, <2>1, ValueMoves
  <2>3. CASE StreamStep \/ UNCHANGED feedVars
    <3>1. UNCHANGED <<window, source>>
      BY <2>3 DEF StreamStep, feedVars, vars, pipeline
    <3> QED
      BY <1>3, <2>1, <3>1, FeedCounters
  <2>4. source'.fresh \in Nat /\ window'.values[c] \in Nat
    BY <1>2 DEF TypeOK, WindowRecords
  <2>5. CASE ConsumerStep
    <3>1. faults' = faults \/ \E kind \in FaultKinds \ {"restarts"} : Fault(kind)
      BY <2>5 DEF ConsumerStep, Consume, Environment, Connect, Subscribe, MqttFails, Wake, Deliver,
                  Lose, BrokerCrashes, BrokerReturns, LinkBreaks, Rewind, Overtake, FaultKinds
    <3>2. "restarts" \in FaultKinds
      BY DEF FaultKinds
    <3>3. faults'["restarts"] = faults["restarts"]
      BY <1>2, <3>1, <3>2, FaultType
    <3>4. Restart => faults'["restarts"] = faults["restarts"] + 1 /\ faults["restarts"] \in Nat
      BY <1>2, <3>2, FaultType DEF Restart
    <3>5. ~Restart
      BY <3>3, <3>4
    <3> QED
      BY <1>3, <2>1, <2>2, <2>4, <3>5, FeedCounters
  <2> QED
    BY <2>3, <2>5
<1> QED
  BY <1>4, <1>5, <1>6

LEMMA FeedInvariance == FeedSpec => []FeedInv
<1>1. FeedInit => Numbered /\ Chronological /\ StatesLag
  BY DEF FeedInit, HubInit, Init, Numbered, Chronological, StatesLag
<1>2. FeedInv /\ IInv' /\ [FeedNext]_feedVars => Numbered' /\ Chronological' /\ StatesLag'
  <2> SUFFICES ASSUME FeedInv, IInv', [FeedNext]_feedVars
               PROVE  Numbered' /\ Chronological' /\ StatesLag'
    OBVIOUS
  <2>1. CASE PublishState
    BY <2>1, PublishKeepsOrder DEF IInv
  <2>2. CASE ProcessRestart
    BY <2>2 DEF ProcessRestart, Restart, HubRestart, Numbered, Chronological, StatesLag
  <2>3. CASE ConsumerStep \/ StreamStep \/ UNCHANGED feedVars
    BY <2>3, OtherStepsKeepOrder
  <2> QED
    BY <2>1, <2>2, <2>3 DEF FeedNext
<1> DEFINE Order == Numbered /\ Chronological /\ StatesLag
<1>4. FeedInit => Order
  BY <1>1
<1>5. IInv /\ IInv' /\ ValuesLag /\ HubInv /\ Order /\ [FeedNext]_feedVars => Order'
  BY <1>2 DEF FeedInv
<1>6. IInv /\ ValuesLag /\ HubInv /\ Order => FeedInv
  BY DEF FeedInv
<1> HIDE DEF Order
<1> QED
  BY <1>4, <1>5, <1>6, FeedIsConsumer, FeedIsHub, Invariance, ValuesAlwaysLag, HubInvariance,
     PTL DEF FeedSpec

-----------------------------------------------------------------------------
\* The mailboxes of the running service: registered with their handler, and current.
THEOREM StaysRegistered == FeedSpec => []Registered
BY FeedIsHub, HubStaysRegistered, PTL

THEOREM MailboxesStayCurrent == FeedSpec => []MailboxIsCurrent
BY FeedIsHub, HubMailboxesStayCurrent, PTL

\* state-svc keeps the promise of state.proto.
THEOREM ImplementsPromise == FeedSpec => Promise
BY FeedIsHub, HubKeepsPromise, PTL

\* From the sample to the viewer nothing is forgotten: with a clear flag and an empty
\* mailbox an uncapped stream has come to the state of the window.
THEOREM NothingOwedToAnyone == FeedSpec => []NothingOwedToViewers
<1>1. FeedInv => NothingOwedToViewers
  <2> SUFFICES ASSUME FeedInv, ~dirty, Complete(window), NEW s \in subscribers,
                      MinInterval[s] = 0, mailbox[s] = <<>>
               PROVE  At(s) = BuildState(window)
    BY DEF NothingOwedToViewers
  <2>1. reached[s] = latest
    BY DEF FeedInv, HubInv, EmptyMeansCurrent
  <2>2. At(s) = hub
    BY <2>1 DEF At, FeedInv, Numbered
  <2>3. hub = BuildState(window)
    BY DEF FeedInv, IInv, CleanMeansPublished
  <2> QED
    BY <2>2, <2>3
<1> QED
  BY <1>1, FeedInvariance, PTL

\* What a stream yields comes after what it yielded before, in number and so in time.
LEMMA YieldAdvances ==
    ASSUME FeedInv, NEW s \in Streams, NEW r \in Streams, Yield(r), UNCHANGED states
    PROVE  /\ At(s)'.stamp >= At(s).stamp
           /\ faults.rewinds = 0 =>
                 \A c \in Channels : At(s)'.values[c] >= At(s).values[c] - faults.overtakings
<1>1. /\ reached[s] \in 0..latest /\ latest \in Nat
      /\ states \in Seq(StateRecords) /\ Len(states) = latest
  BY StateHubAssumption DEF FeedInv, HubInv, HubTypeOK, ReachedExists, Numbered
<1>2. reached' = [reached EXCEPT ![r] = latest]
  BY GetNewest DEF FeedInv, Yield
<1>3. reached'[s] = reached[s] \/ reached'[s] = latest
  BY <1>2 DEF FeedInv, HubInv, HubTypeOK
<1>4. /\ At(s) \in StateRecords /\ NoState \in StateRecords
      /\ NoState.stamp = 0 /\ \A c \in Channels : NoState.values[c] = 0
  <2>1. /\ NoState \in StateRecords
        /\ NoState.stamp = 0 /\ \A c \in Channels : NoState.values[c] = 0
    BY EmptyWindowType, BuildStateType DEF NoState, BuildState, EmptyWindow, Absent
  <2> QED
    BY <1>1, <2>1 DEF At
<1>5. CASE reached'[s] = reached[s]
  <2>1. At(s)' = At(s)
    BY <1>5 DEF At
  <2> QED
    BY <1>4, <2>1, FeedCounters DEF StateRecords
<1>6. CASE reached'[s] = latest /\ reached[s] # latest
  <2>1. latest \in 1..latest /\ At(s)' = states[latest] /\ states[latest] \in StateRecords
    BY <1>1, <1>6 DEF At
  <2>2. CASE reached[s] = 0
    <3>1. At(s) = NoState
      BY <2>2 DEF At
    <3> QED
      BY <1>4, <2>1, <3>1, FeedCounters DEF StateRecords
  <2>3. CASE reached[s] # 0
    <3>1. reached[s] \in 1..latest /\ reached[s] <= latest /\ At(s) = states[reached[s]]
      BY <1>1, <2>3 DEF At
    <3>2. /\ states[reached[s]].stamp <= states[latest].stamp
          /\ faults.rewinds = 0 =>
                \A c \in Channels :
                    states[latest].values[c] >= states[reached[s]].values[c] - faults.overtakings
      BY <2>1, <3>1 DEF FeedInv, Chronological
    <3> QED
      BY <1>4, <2>1, <3>1, <3>2 DEF StateRecords
  <2> QED
    BY <2>2, <2>3
<1> QED
  BY <1>3, <1>5, <1>6

\* A stream that stays open comes to another state by yielding it only.
LEMMA OthersStay ==
    ASSUME FeedInv, [FeedNext]_feedVars, NEW s \in Streams,
           pc[s] # "closed", pc'[s] # "closed",
           ~ \E r \in Streams : Yield(r) /\ UNCHANGED states
    PROVE  At(s)' = At(s)
<1>1. /\ reached[s] \in 0..latest /\ latest \in Nat
      /\ states \in Seq(StateRecords) /\ Len(states) = latest
  BY StateHubAssumption DEF FeedInv, HubInv, HubTypeOK, ReachedExists, Numbered
<1>2. CASE PublishState
  <2>1. reached' = reached /\ (states' = states \/ states' = Append(states, hub'))
    BY <1>2 DEF PublishState, Publish, hubVars
  <2> QED
    BY <1>1, <2>1 DEF At
<1>3. CASE ProcessRestart
  BY <1>3 DEF ProcessRestart, HubRestart
<1>4. CASE ConsumerStep \/ UNCHANGED feedVars
  BY <1>4 DEF ConsumerStep, feedVars, hubVars, At
<1>5. CASE StreamStep
  <2>1. states' = states
    BY <1>5 DEF StreamStep
  <2>2. reached'[s] = reached[s]
    <3>1. CASE Tick
      BY <3>1 DEF Tick
    <3>2. ASSUME NEW r \in Streams, Handle(r)
          PROVE  reached'[s] = reached[s]
      <4>1. CASE Open(r)
        BY <4>1 DEF Open, FeedInv, HubInv, HubTypeOK
      <4>2. CASE ~Open(r)
        BY <2>1, <3>2, <4>2 DEF Handle, Skip, Written, Cancel, Abandon, Finalise
      <4> QED
        BY <4>1, <4>2
    <3> QED
      BY <1>5, <3>1, <3>2 DEF StreamStep
  <2> QED
    BY <2>1, <2>2 DEF At
<1> QED
  BY <1>2, <1>3, <1>4, <1>5 DEF FeedNext

\* While its call is open no viewer is taken back in time, whatever it skips and
\* however often the consumer reconnects; and until the simulation's clock goes back,
\* no single value is taken back further than the bridge published JointStates out of
\* their turn.
THEOREM ViewersOnlyAdvance == FeedSpec => ViewersAdvance
<1> DEFINE Advance ==
               \A s \in Streams :
                  pc[s] # "closed" /\ pc'[s] # "closed" =>
                     /\ At(s)'.stamp >= At(s).stamp
                     /\ faults.rewinds = 0 =>
                           \A c \in Channels :
                               At(s)'.values[c] >= At(s).values[c] - faults.overtakings
<1>1. FeedInv /\ [FeedNext]_feedVars => [Advance]_feedVars
  <2> SUFFICES ASSUME FeedInv, [FeedNext]_feedVars, NEW s \in Streams,
                      pc[s] # "closed", pc'[s] # "closed"
               PROVE  /\ At(s)'.stamp >= At(s).stamp
                      /\ faults.rewinds = 0 =>
                            \A c \in Channels :
                               At(s)'.values[c] >= At(s).values[c] - faults.overtakings
    OBVIOUS
  <2>1. CASE \E r \in Streams : Yield(r) /\ UNCHANGED states
    BY <2>1, YieldAdvances
  <2>2. CASE ~ \E r \in Streams : Yield(r) /\ UNCHANGED states
    <3>1. At(s)' = At(s)
      BY <2>2, OthersStay
    <3>2. At(s).stamp \in Nat /\ \A c \in Channels : At(s).values[c] \in Nat
      <4>1. NoState \in StateRecords
        BY EmptyWindowType, BuildStateType DEF NoState
      <4>2. reached[s] \in 0..Len(states) /\ states \in Seq(StateRecords)
        BY StateHubAssumption DEF FeedInv, HubInv, HubTypeOK, ReachedExists, Numbered
      <4>3. At(s) \in StateRecords
        BY <4>1, <4>2 DEF At
      <4> QED
        BY <4>3 DEF StateRecords
    <3> QED
      BY <3>1, <3>2, FeedCounters
  <2> QED
    BY <2>1, <2>2
<1> QED
  BY <1>1, FeedInvariance, PTL DEF FeedSpec, ViewersAdvance
=============================================================================
