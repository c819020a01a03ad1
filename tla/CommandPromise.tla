--------------------------- MODULE CommandPromise ---------------------------
(***************************************************************************)
(* What command-svc owes to whoever posts commands: a command is published  *)
(* at most once, "accepted" is said of published commands only, and an      *)
(* answer is given once ("An accepted command that silently goes nowhere    *)
(* would be a lie", ADR-0004).                                              *)
(***************************************************************************)

CONSTANT Commands

VARIABLES
    answer,      \* answer[r]: "none" until the POST of command r is answered
    published    \* the commands that reached the broker

vars == <<answer, published>>

Init == answer = [r \in Commands |-> "none"] /\ published = {}

Publish(r) ==
    /\ r \notin published
    /\ published' = published \cup {r}
    /\ UNCHANGED answer

Answer(r, a) ==
    /\ answer[r] = "none"
    /\ a = "accepted" => r \in published
    /\ answer' = [answer EXCEPT ![r] = a]
    /\ UNCHANGED published

\* A restart answers every POST that is pending, with a broken connection.
BreakOff ==
    /\ \E pending \in SUBSET {r \in Commands : answer[r] = "none"} :
          answer' = [r \in Commands |-> IF r \in pending THEN "broken" ELSE answer[r]]
    /\ UNCHANGED published

Next ==
    \/ BreakOff
    \/ \E r \in Commands : Publish(r) \/ Answer(r, "accepted") \/ Answer(r, "refused")

Spec == Init /\ [][Next]_vars
=============================================================================
