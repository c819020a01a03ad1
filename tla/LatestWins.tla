----------------------------- MODULE LatestWins -----------------------------
(***************************************************************************)
(* What state.proto promises of StreamState: the source produces states    *)
(* 1, 2, 3, ...; a stream may skip any number of them, and what it         *)
(* delivers is always newer than everything it delivered before and never  *)
(* ahead of the source ("drop, don't queue").  A source that starts again  *)
(* counts from nothing, and its streams with it.                           *)
(***************************************************************************)
EXTENDS Naturals

CONSTANT Streams

VARIABLES
    latest,   \* the number of states produced so far; the newest is `latest'
    reached   \* reached[s]: the newest state stream s has gone past

vars == <<latest, reached>>

Init == latest = 0 /\ reached = [s \in Streams |-> 0]

Produce == latest' = latest + 1 /\ UNCHANGED reached

Advance(s) ==
    /\ \E n \in (reached[s] + 1)..latest : reached' = [reached EXCEPT ![s] = n]
    /\ UNCHANGED latest

Restart == latest' = 0 /\ reached' = [s \in Streams |-> 0]

Next == Produce \/ Restart \/ \E s \in Streams : Advance(s)

Spec == Init /\ [][Next]_vars
=============================================================================
