-------------------------- MODULE MCScenarioRunner --------------------------
(* A short scenario with a stream of each kind, then a longer flood.        *)
EXTENDS ScenarioRunner, TLC

CONSTANTS normal, spoofed, flood

MCScenarios == <<{normal, spoofed}, {flood}>>
MCLength == <<2, 4>>
MCInterval == normal :> 1 @@ spoofed :> 1 @@ flood :> 1
MCDuration == normal :> 2 @@ spoofed :> 1 @@ flood :> 4
MCStart == normal :> 0 @@ spoofed :> 1 @@ flood :> 0
MCKinds == normal :> {"handshake"} @@ spoofed :> {"syn"} @@ flood :> {"syn"}
=============================================================================
