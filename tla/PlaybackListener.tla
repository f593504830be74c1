-------------------------- MODULE PlaybackListener ---------------------------
(***************************************************************************)
(* The playback engine seen by somebody who has called !stop: from then on *)
(* until the next request for music the channel is expected to be silent.  *)
(* The variable does not exist in the code; every action is Playback's.    *)
(***************************************************************************)
EXTENDS Playback

VARIABLE hushed     \* stopped, and nobody has asked for music since

lvars == <<vars, hushed>>

LInit == Init /\ hushed = FALSE

Hush == Stop /\ hushed' = TRUE

Request ==
    /\ \/ \E s \in Songs :
            \/ PlayNow(s) \/ Test(s) \/ Add(s) \/ Jump(s) \/ JumpNew(s)
            \/ Pick(s) \/ Prev(s)
       \/ Skip \/ Resume
    /\ hushed' = FALSE

Otherwise ==
    /\ \/ \E s \in Songs : RemoveSong(s)
       \/ Pause \/ Clear
       \/ JobStarts \/ JobRefused \/ JobFails
       \/ Sounds \/ SpawnFails \/ TrackEnds \/ Disconnect
    /\ UNCHANGED hushed

LNext == Hush \/ Request \/ Otherwise

LSpec == LInit /\ [][LNext]_lvars

\* "Stopped and queue cleared": a stopped bot is silent until it is asked to
\* play again.
StoppedStaysSilent == hushed => Idle

=============================================================================
