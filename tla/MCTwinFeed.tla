----------------------------- MODULE MCTwinFeed -----------------------------
(* One joint; an uncapped stream and one capped at a send every two ticks.    *)
EXTENDS TwinFeed

CONSTANTS shoulder, uncapped, capped

MCJoints == {shoulder}
MCSource == <<shoulder>>
MCStreams == {uncapped, capped}
MCMinInterval == [s \in MCStreams |-> IF s = capped THEN 2 ELSE 0]
=============================================================================
