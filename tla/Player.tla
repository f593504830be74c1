-------------------------------- MODULE Player --------------------------------
(***************************************************************************)
(* What the playback engine takes the audio player for: a track that was   *)
(* accepted starts, is heard, fails to start or ends, once each, and too   *)
(* many failures in a row make the player refuse.  Playback is built on    *)
(* these stages (its variables air and fails); AudioPlayer implements      *)
(* them.                                                                   *)
(***************************************************************************)
EXTENDS Naturals

CONSTANT MaxFailures     \* MAX_CONSECUTIVE_FAILURES

VARIABLES stage, fails

vars == <<stage, fails>>

Init == stage = "idle" /\ fails = 0

\* play(), which replaces whatever is on air.
Play ==
    /\ fails < MaxFailures
    /\ stage' = "starting"
    /\ UNCHANGED fails

\* play() after too many failures, and stop().
Silence == stage' = "idle" /\ UNCHANGED fails

Sounds ==
    /\ stage = "starting" /\ stage' = "sounding"
    /\ fails' = 0

SpawnFails ==
    /\ stage = "starting" /\ stage' = "dead"
    /\ fails' = fails + 1

TrackEnds ==
    /\ stage # "idle" /\ stage' = "idle"
    /\ fails' = 0

ResetFailures == fails' = 0 /\ UNCHANGED stage

Next == Play \/ Silence \/ Sounds \/ SpawnFails \/ TrackEnds \/ ResetFailures

Spec == Init /\ [][Next]_vars
=============================================================================
