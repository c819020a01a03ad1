---------------------------- MODULE RollingWindow ----------------------------
(***************************************************************************)
(* state_svc/window.py: the class RollingWindow as a record and the         *)
(* operators that compute the next one.  A measured value is identified by  *)
(* the stamp of the sample that carried it, so that values of different     *)
(* ages can be told apart; a dictionary entry that is missing is Absent.    *)
(***************************************************************************)
EXTENDS Integers, Sequences, FiniteSets

CONSTANTS
    Joints,     \* the contract vocabulary, UR5_JOINT_NAMES
    Width       \* _window_ns, in units of the stamps

ASSUME WindowAssumption == Width \in Nat

Absent == 0     \* no sample is stamped 0: also the initial _stamp_ns

Fields == {"position", "velocity", "effort"}
Channels == Joints \X Fields

WindowRecords ==
    [values : [Channels -> Nat], velocities : [Joints -> Seq(Nat)], stamp : Nat]

EmptyWindow ==
    [values |-> [c \in Channels |-> Absent],
     velocities |-> [j \in Joints |-> <<>>],
     stamp |-> 0]

\* Mutant: the last stamp wins, not the newest.
LastStamp(a, b) == b

Later(a, b) == IF a >= b THEN a ELSE b

\* Mutant: a value that is there already stays (setdefault for the assignment).
KeepFirst(values, channel, stamp) ==
    IF values[channel] = Absent THEN [values EXCEPT ![channel] = stamp] ELSE values

Replace(values, channel, stamp) == [values EXCEPT ![channel] = stamp]

\* Mutant: `<=' for `<' in the popleft loop.
PruneInclusive(history, cutoff) == SelectSeq(history, LAMBDA t : t > cutoff)

\* popleft() while the head is older than the cutoff: the leading entries that are
\* go, and the first one that is not keeps everything behind it.
Prune(history, cutoff) ==
    LET stale == {i \in 1..Len(history) : \A k \in 1..i : history[k] < cutoff}
    IN  SubSeq(history, Cardinality(stale) + 1, Len(history))

\* RollingWindow.observe: the value replaces the previous one whatever its stamp,
\* the stamp never goes back, and only the observed joint's history is pruned.
Observe(w, joint, field, stamp) ==
    IF joint \notin Joints THEN w
    ELSE LET newest == Later(w.stamp, stamp)
         IN  [values |-> Replace(w.values, <<joint, field>>, stamp),
              velocities |->
                 IF field = "velocity"
                 THEN [w.velocities EXCEPT ![joint] =
                          Prune(Append(@, stamp), newest - Width)]
                 ELSE w.velocities,
              stamp |-> newest]

\* snapshot() is not None once every field of every joint arrived.
Complete(w) == \A c \in Channels : w.values[c] # Absent

\* build_state: the values, the stamp, and per joint the samples _velocity_rms
\* averages.  The pose is a function of the position values and adds nothing.
BuildState(w) == [stamp |-> w.stamp, values |-> w.values, rms |-> w.velocities]

\* StateHub._latest = None; no complete window is stamped 0.
NoState == BuildState(EmptyWindow)
=============================================================================
