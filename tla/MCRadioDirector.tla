---------------------------- MODULE MCRadioDirector ----------------------------
(***************************************************************************)
(* The radio director, disturbed a bounded number of times.                *)
(***************************************************************************)
EXTENDS RadioDirector

CONSTANT MaxDisturbed      \* bound: commands, comings and goings, and failures

VARIABLE left              \* how many are still to come

MCInit == Init /\ left = MaxDisturbed

MCNext ==
    \/ Runs /\ UNCHANGED left
    \/ left > 0 /\ Disturbed /\ left' = left - 1

MCSpec == MCInit /\ [][MCNext]_<<vars, left>> /\ Fairness

-----------------------------------------------------------------------------
(* Properties *)

\* The station heals itself: undisturbed, with somebody there, the radio on and
\* not paused, something goes on the air again and again (docs/radio.md 5.3).
DeadAirIsFilled ==
    left = 0 /\ enabled /\ here /\ ~paused ~> ~Idle

\* Undisturbed, in an empty channel, the radio falls silent for good, although
\* a restock that was under way still starts its song.
EmptyRoomGoesQuiet ==
    left = 0 /\ enabled /\ ~here ~> []Idle

\* A bumper that an operator cued goes on the air or is given up; it is not
\* stuck behind timers, restocks or slots (director.ts:290-294).
CueIsConsumed ==
    left = 0 /\ enabled /\ here /\ ~paused /\ cue ~> ~cue

\* A pause under which nothing is waited for holds (director.ts:322, 433): no
\* timer armed before it, poll, cue, owed restock, or stop of an empty station
\* and return to it puts anything on the air.
PauseHolds ==
    [](left = 0 /\ paused /\ Idle /\ waits = <<>> /\ run = <<>> => []Idle)

=============================================================================
