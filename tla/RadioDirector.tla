----------------------------- MODULE RadioDirector ------------------------------
(***************************************************************************)
(* The radio director (bot/src/radio/director.ts) between the player, the  *)
(* playback engine, the channel's head count and the operator: at every    *)
(* track boundary it injects a bumper or advances the queue, it fills dead *)
(* air, and it stops and resumes the station as people leave and come.     *)
(*                                                                         *)
(* Its handlers run concurrently.  What a handler does between two waits   *)
(* is one turn of the event loop: `run` holds the continuations the turn   *)
(* still has to execute, and nothing else happens before it is empty.      *)
(* `waits` holds, in the order in which they began, what the handlers and  *)
(* the users' commands are waiting for.                                    *)
(*                                                                         *)
(* Songs have no names here, and neither have bumpers: PlayQueue and       *)
(* Playback are about those, and a command here is only what it does to    *)
(* the director.  Which slots, gates and limits apply to a bumper (wheel,  *)
(* cooldown, quiet hours, hourly cap, !radio skip) is a choice.  The       *)
(* alone-stop has a grace period, a fill bumper is followed by a restock,  *)
(* and one listener is enough to broadcast: the defaults.                  *)
(***************************************************************************)
EXTENDS Naturals, SequencesExt

CONSTANT MaxWaits     \* bound: no new handler or command while that many wait

ASSUME RadioAssumption == MaxWaits \in Nat

VARIABLES
    enabled,     \* cfg.enabled
    here,        \* somebody is in the bot's channel
    seen,        \* lastHumanCount >= 1
    alone,       \* emptySinceMs and emptyStopped
    air,         \* the player
    queue,       \* whether next has a song, and whether there is a current one
    paused,      \* userPause
    pending,     \* pendingAfterBumper
    restock,     \* autoProgramAfterBumper
    cue,         \* cued
    timer,       \* the dead-air timer is armed
    waits,
    run

station == <<enabled, here, seen, alone, air, queue, paused, pending, restock, cue, timer>>
vars == <<station, waits, run>>

\* "new": songs, but no current one; "last": the current song is the last one.
Queues == {"empty", "new", "last", "more"}
Stocked == {"last", "more"}

\* Who is alone for how long: not at all, within the grace period, beyond it,
\* beyond it with the station stopped.
Loneliness == {"no", "counting", "over", "stopped"}

\* What is waited for: the head count, the songs of a restock, the bumper of a
\* cue or of a slot, and - on the engine's serial chain - the URL of a restock's
\* first song, of the next song, or of a song a command plays.
Chained == {"restart", "next", "play"}
Waited == {"presence", "search", "cue", "build"} \cup Chained

Wait(at, by) == [at |-> at, by |-> by]
Without(k) == RemoveAt(waits, k)

Init ==
    /\ enabled \in BOOLEAN
    /\ here \in BOOLEAN
    /\ seen = FALSE
    /\ alone = "no"
    /\ air = "idle"
    /\ queue = "empty"
    /\ paused = FALSE /\ pending = FALSE /\ restock = FALSE /\ cue = FALSE /\ timer = FALSE
    /\ waits = <<>>
    /\ run = <<>>

Waiting(at) == \E k \in DOMAIN waits : waits[k].at = at

Building == Waiting("build")                            \* bumperInFlight
Advancing == Waiting("next")                            \* isAdvancing
Programming ==                                          \* autoProgramInFlight
    \E k \in DOMAIN waits :
        waits[k].at \in {"search", "restart"} /\ waits[k].by # "ops"

Idle == air = "idle"
Room == run = <<>> /\ Len(waits) < MaxWaits

-----------------------------------------------------------------------------
(* Building blocks of a turn. *)

Turn(step) == run # <<>> /\ Head(run) = step
Go(steps) == run' = steps \o Tail(run)
Done == Go(<<>>)
Await(at, by) == Done /\ waits' = Append(waits, Wait(at, by))

MayProgramTwice == ~paused /\ seen     \* mutation: autoProgramInFlight is not looked at
MayProgram == ~Programming /\ ~paused /\ seen

Armable == enabled /\ ~paused /\ ~Programming

\* armDeadAir: an operator's cue does not wait for the timer.
Arm ==
    IF ~Armable
      THEN Done /\ UNCHANGED <<cue, timer, waits>>
      ELSE IF cue /\ Idle
             THEN cue' = FALSE /\ timer' = FALSE /\ Await("cue", "idle")
             ELSE timer' = TRUE /\ Done /\ UNCHANGED <<cue, waits>>

\* playNext up to its first wait, awaited by `by`; dry is what it goes on with
\* when it returns false at once.
PlayNext(by, dry) ==
    IF Advancing
      THEN Go(dry) /\ UNCHANGED <<air, queue, waits>>
      ELSE IF queue \in {"new", "more"}
             THEN queue' \in Stocked /\ Await("next", by) /\ UNCHANGED air
             ELSE air' = "idle" /\ Go(dry) /\ UNCHANGED <<queue, waits>>

-----------------------------------------------------------------------------
(* The steps of the handlers. *)

\* enforceAloneStop, where each handler begins or goes on.
Past == [boundary |-> "boundary2", advance |-> "advance2", poll |-> "poll2", deadAir |-> "deadAir2"]

InGraceAnew == alone # "stopped"       \* mutation: each check starts the period anew
InGrace == alone \in {"no", "counting"}

Accompanied(step) ==
    /\ Turn(step)
    /\ seen \/ InGrace
    /\ ~(seen /\ alone = "stopped")
    /\ alone' = IF seen THEN "no" ELSE "counting"
    /\ Go(<<Past[step]>>)
    /\ UNCHANGED <<enabled, here, seen, air, queue, paused, pending, restock, cue, timer, waits>>

\* Somebody is back: restock and go on the air.
Resumed(step) ==
    /\ Turn(step)
    /\ seen /\ alone = "stopped"
    /\ alone' = "no"
    /\ IF ~enabled \/ paused
         THEN Go(<<Past[step]>>) /\ UNCHANGED <<timer, waits>>
         ELSE /\ timer' = FALSE
              /\ IF MayProgram
                   THEN Await("search", Past[step])
                   ELSE Go(<<Past[step]>>) /\ UNCHANGED waits
    /\ UNCHANGED <<enabled, here, seen, air, queue, paused, pending, restock, cue>>

\* Nobody has been there for long enough: stop once, and end the handler.
AloneStop(step) ==
    /\ Turn(step)
    /\ ~seen /\ alone \in {"over", "stopped"}
    /\ alone' = "stopped"
    /\ timer' = FALSE
    /\ restock' = FALSE
    /\ IF alone = "over"
         THEN paused' = FALSE /\ air' = "idle" /\ queue' = "empty"
         ELSE UNCHANGED <<paused, air, queue>>
    /\ Done
    /\ UNCHANGED <<enabled, here, seen, pending, cue, waits>>

\* onTrackBoundary asks for the head count first; with radio off it advances.
Boundary ==
    /\ Turn("trackBoundary")
    /\ IF enabled
         THEN Await("presence", "boundary") /\ UNCHANGED <<air, queue>>
         ELSE PlayNext("nobody", <<>>)
    /\ UNCHANGED <<enabled, here, seen, alone, paused, pending, restock, cue, timer>>

\* The director's own bumper has ended: no other one, restock if that is due.
AfterBumper ==
    /\ Turn("boundary2")
    /\ pending
    /\ pending' = FALSE
    /\ restock' = FALSE
    /\ IF restock /\ MayProgram
         THEN timer' = FALSE /\ Await("search", "bumper")
         ELSE Go(<<"advance">>) /\ UNCHANGED <<timer, waits>>
    /\ UNCHANGED <<enabled, here, seen, alone, air, queue, paused, cue>>

\* A cue, a bumper slot that no gate closes, or music.
NextSlot ==
    /\ Turn("boundary2")
    /\ ~pending
    /\ cue' = FALSE
    /\ IF cue
         THEN Await("cue", "boundary")
         ELSE \/ ~Building /\ Await("build", "boundary")
              \/ Go(<<"advance">>) /\ UNCHANGED waits
    /\ UNCHANGED <<enabled, here, seen, alone, air, queue, paused, pending, restock, timer>>

Advance ==
    /\ Turn("advance2")
    /\ PlayNext("advance", <<"dry">>)
    /\ UNCHANGED <<enabled, here, seen, alone, paused, pending, restock, cue, timer>>

\* Nothing was started: arm the timer, if this is about listeners.
Dry ==
    /\ Turn("dry")
    /\ IF seen THEN Arm ELSE Done /\ UNCHANGED <<cue, timer, waits>>
    /\ UNCHANGED <<enabled, here, seen, alone, air, queue, paused, pending, restock>>

\* A fill that could not restock.
ArmAgain ==
    /\ Turn("arm")
    /\ Arm
    /\ UNCHANGED <<enabled, here, seen, alone, air, queue, paused, pending, restock>>

\* A resume that could not restock.
Rearm ==
    /\ Turn("rearm")
    /\ IF Idle THEN Arm ELSE Done /\ UNCHANGED <<cue, timer, waits>>
    /\ UNCHANGED <<enabled, here, seen, alone, air, queue, paused, pending, restock>>

\* onPoll: a silent station with listeners, or at least a voice, needs the timer.
PollGoesOn ==
    /\ Turn("poll2")
    /\ IF paused \/ ~Idle \/ Programming
         THEN Done /\ UNCHANGED <<cue, timer, waits>>
         ELSE \/ cue /\ enabled /\ cue' = FALSE /\ Await("cue", "idle") /\ UNCHANGED timer
              \/ ~cue /\ ~timer /\ Arm
              \/ /\ IF cue THEN ~enabled ELSE timer \/ ~seen
                 /\ Done /\ UNCHANGED <<cue, timer, waits>>
    /\ UNCHANGED <<enabled, here, seen, alone, air, queue, paused, pending, restock>>

\* fillDeadAir: the cue, else a bumper, else music.  Whether somebody listens
\* is decided now and used after the waits.
DeadAir ==
    /\ Turn("deadAir2")
    /\ LET by == IF seen THEN "fill" ELSE "fillAlone"
       IN IF cue /\ Idle /\ enabled
            THEN cue' = FALSE /\ Await("cue", by)
            ELSE Go(<<by>>) /\ UNCHANGED <<cue, waits>>
    /\ UNCHANGED <<enabled, here, seen, alone, air, queue, paused, pending, restock, timer>>

FillBumper(by) ==
    /\ Turn(by)
    /\ \/ ~Building /\ Await("build", by)
       \/ (IF by = "fill" THEN Go(<<"program">>) ELSE Done) /\ UNCHANGED waits
    /\ UNCHANGED station

\* tryAutoProgram, when a fill has no bumper: music, or the timer again.
Program ==
    /\ Turn("program")
    /\ IF MayProgram
         THEN timer' = FALSE /\ Await("search", "fill") /\ UNCHANGED cue
         ELSE Arm
    /\ UNCHANGED <<enabled, here, seen, alone, air, queue, paused, pending, restock>>

\* A playNext nobody waits for: the error handler's.
Error ==
    /\ Turn("playNext")
    /\ PlayNext("nobody", <<>>)
    /\ UNCHANGED <<enabled, here, seen, alone, paused, pending, restock, cue, timer>>

Step ==
    \/ \E step \in DOMAIN Past : Accompanied(step) \/ Resumed(step) \/ AloneStop(step)
    \/ Boundary \/ AfterBumper \/ NextSlot \/ Advance \/ Dry \/ ArmAgain \/ Rearm
    \/ PollGoesOn \/ DeadAir \/ Program \/ Error
    \/ \E by \in {"fill", "fillAlone"} : FillBumper(by)

-----------------------------------------------------------------------------
(* What was waited for is there. *)

\* The chain is served in order.
Answered(k, at) ==
    /\ run = <<>>
    /\ waits[k].at = at
    /\ at \in Chained => \A j \in 1 .. k - 1 : waits[j].at \notin Chained

Ended(k, steps) == waits' = Without(k) /\ run' = steps

\* onPoll, with the radio on.
BackstopNever == <<>>                  \* mutation: a poll only counts heads
Backstop == IF enabled THEN <<"poll">> ELSE <<>>

\* The recount; a later one has overtaken it, or it has failed.
Counted(k) ==
    /\ Answered(k, "presence")
    /\ \/ seen' = here /\ Ended(k, Backstop \o <<"boundary">>)
       \/ seen' = seen /\ Ended(k, <<"boundary">>)
    /\ UNCHANGED <<enabled, here, alone, air, queue, paused, pending, restock, cue, timer>>

\* How those who restock go on.
Resumes == {Past[step] : step \in DOMAIN Past}

Restocked(by) == IF by \in Resumes THEN <<by>> ELSE <<>>

NotRestocked(by) ==
    CASE by \in Resumes  -> <<"rearm", by>>
      [] by = "bumper"   -> <<"advance">>
      [] by = "fill"     -> <<"arm">>
      [] by = "ops"      -> <<>>

\* The restock has its songs: what plays goes on, else the first one starts.
SongsFound(k) ==
    /\ Answered(k, "search")
    /\ queue' \in Stocked
    /\ IF ~Idle /\ queue \in Stocked
         THEN Ended(k, Restocked(waits[k].by))
         ELSE waits' = Append(Without(k), Wait("restart", waits[k].by)) /\ UNCHANGED run
    /\ UNCHANGED <<enabled, here, seen, alone, air, paused, pending, restock, cue, timer>>

\* It has none, or none that may be played: the latter counts as a success.
NoSongsFound(k) ==
    /\ Answered(k, "search")
    /\ \/ Ended(k, NotRestocked(waits[k].by)) /\ UNCHANGED queue
       \/ Ended(k, Restocked(waits[k].by)) /\ queue' = "empty"
    /\ UNCHANGED <<enabled, here, seen, alone, air, paused, pending, restock, cue, timer>>

\* A bumper goes on the air, whatever is there by now.
Owed(k) ==
    CASE waits[k].by \in {"idle", "fill"} -> TRUE
      [] waits[k].at = "build" /\ waits[k].by = "fillAlone" -> FALSE
      [] OTHER -> restock

BumperBuilt(k) ==
    /\ Answered(k, "cue") \/ Answered(k, "build")
    /\ pending' = TRUE
    /\ air' = "bumper"
    /\ timer' = (timer /\ waits[k].at = "build")
    /\ restock' = Owed(k)
    /\ Ended(k, <<>>)
    /\ UNCHANGED <<enabled, here, seen, alone, queue, paused, cue>>

\* There is none, or the build has thrown: then the director also forgets a
\* bumper that somebody else has put on the air in the meantime.
NoBumper(k) ==
    /\ Answered(k, "cue") \/ Answered(k, "build")
    /\ pending' \in {pending, FALSE}
    /\ Ended(k, CASE waits[k].by = "boundary" -> <<"advance">>
                  [] waits[k].by \in {"idle", "now"} -> <<>>
                  [] waits[k].at = "cue" /\ waits[k].by \in {"fill", "fillAlone"} -> <<waits[k].by>>
                  [] waits[k].at = "build" /\ waits[k].by = "fill" -> <<"program">>
                  [] OTHER -> <<>>)
    /\ UNCHANGED <<enabled, here, seen, alone, air, queue, paused, restock, cue, timer>>

\* A song starts, which ends a pause - unless it is the demo of !test.
SongStarts(k) ==
    /\ \E at \in Chained : Answered(k, at)
    /\ air' = "song"
    /\ paused' = (paused /\ waits[k].by = "test")
    /\ timer' = (timer /\ waits[k].by \in {"nobody", "user", "test", "ops"})
    /\ Ended(k, IF waits[k].at = "restart" THEN Restocked(waits[k].by) ELSE <<>>)
    /\ UNCHANGED <<enabled, here, seen, alone, queue, pending, restock, cue>>

\* It fails: playNext and a restock try another one, as long as there is one.  A
\* restock that gives up counts as a success all the same; a library copy of
\* the demo that does not play takes the queue with it.
SongFails(k) ==
    /\ \E at \in Chained : Answered(k, at)
    /\ \/ /\ waits[k].at # "play" /\ queue \in {"new", "more"}
          /\ queue' \in Stocked
          /\ waits' = Append(Without(k), waits[k])
          /\ UNCHANGED <<air, run>>
       \/ /\ air' = IF waits[k].at = "next" THEN "idle" ELSE air
          /\ Ended(k, CASE waits[k].at = "restart" -> Restocked(waits[k].by)
                        [] waits[k].by = "advance" -> <<"dry">>
                        [] OTHER -> <<>>)
          /\ queue' \in {queue} \cup (IF waits[k].by = "test" THEN {"empty"} ELSE {})
    /\ UNCHANGED <<enabled, here, seen, alone, paused, pending, restock, cue, timer>>

-----------------------------------------------------------------------------
(* What begins a turn *)

TrackEnds ==
    /\ Room /\ ~Idle
    /\ air' = "idle"
    /\ run' = <<"trackBoundary">>
    /\ UNCHANGED <<enabled, here, seen, alone, queue, paused, pending, restock, cue, timer, waits>>

\* The player's error: the session is dead, and playNext replaces it.
PlayerFails ==
    /\ Room /\ ~Idle
    /\ run' = <<"playNext">>
    /\ UNCHANGED <<station, waits>>

TimerFiresPaused ==     \* mutation: the timer does not look at the pause
    /\ Room /\ timer
    /\ timer' = FALSE
    /\ run' = IF enabled /\ Idle THEN <<"deadAir">> ELSE <<>>
    /\ UNCHANGED <<enabled, here, seen, alone, air, queue, paused, pending, restock, cue, waits>>

TimerFires ==
    /\ Room /\ timer
    /\ timer' = FALSE
    /\ run' = IF enabled /\ ~paused /\ Idle THEN <<"deadAir">> ELSE <<>>
    /\ UNCHANGED <<enabled, here, seen, alone, air, queue, paused, pending, restock, cue, waits>>

\* The idle poller, or somebody who came or left.
Poll ==
    /\ Room
    /\ seen' = here
    /\ run' = Backstop
    /\ UNCHANGED <<enabled, here, alone, air, queue, paused, pending, restock, cue, timer, waits>>

GraceOver ==
    /\ alone = "counting"
    /\ alone' = "over"
    /\ UNCHANGED <<enabled, here, seen, air, queue, paused, pending, restock, cue, timer, waits, run>>

Commute ==
    /\ Room
    /\ here' = ~here
    /\ UNCHANGED <<enabled, seen, alone, air, queue, paused, pending, restock, cue, timer, waits, run>>

\* !radio on, !radio off
Switch ==
    /\ Room
    /\ enabled' = ~enabled
    /\ UNCHANGED <<here, seen, alone, air, queue, paused, pending, restock, cue, timer, waits, run>>

\* !radio bumper, !radio say
Cue ==
    /\ Room /\ enabled
    /\ IF Idle
         THEN cue' = FALSE /\ timer' = FALSE /\ waits' = Append(waits, Wait("cue", "now"))
         ELSE cue' = TRUE /\ UNCHANGED <<timer, waits>>
    /\ UNCHANGED <<enabled, here, seen, alone, air, queue, paused, pending, restock, run>>

\* !radio skip drops the cue.
SkipBumper ==
    /\ Room /\ cue
    /\ cue' = FALSE
    /\ UNCHANGED <<enabled, here, seen, alone, air, queue, paused, pending, restock, timer, waits, run>>

\* !radio ops restocks for an operator.
Ops ==
    /\ Room
    /\ waits' = Append(waits, Wait("search", "ops"))
    /\ UNCHANGED <<station, run>>

Skip ==
    /\ Room
    /\ paused' = FALSE
    /\ run' = <<"trackBoundary">>
    /\ UNCHANGED <<enabled, here, seen, alone, air, queue, pending, restock, cue, timer, waits>>

\* !play
Play ==
    /\ Room
    /\ queue' \in Stocked
    /\ waits' = Append(waits, Wait("play", "user"))
    /\ UNCHANGED <<enabled, here, seen, alone, air, paused, pending, restock, cue, timer, run>>

\* !test: the demo alone; once for a copy in the library, and again for the
\* stream when that copy does not play.
Test ==
    /\ Room
    /\ queue' = "last"
    /\ waits' = Append(waits, Wait("play", "test"))
    /\ UNCHANGED <<enabled, here, seen, alone, air, paused, pending, restock, cue, timer, run>>

\* !add
Add ==
    /\ Room
    /\ IF Idle
         THEN queue' \in Stocked /\ waits' = Append(waits, Wait("play", "user"))
         ELSE queue' = (IF queue \in {"empty", "new"} THEN "new" ELSE "more") /\ UNCHANGED waits
    /\ UNCHANGED <<enabled, here, seen, alone, air, paused, pending, restock, cue, timer, run>>

Stop ==
    /\ Room
    /\ air' = "idle" /\ queue' = "empty" /\ paused' = FALSE
    /\ UNCHANGED <<enabled, here, seen, alone, pending, restock, cue, timer, waits, run>>

Pause ==
    /\ Room
    /\ queue \in Stocked
    /\ paused' = TRUE
    /\ air' = "idle"
    /\ UNCHANGED <<enabled, here, seen, alone, queue, pending, restock, cue, timer, waits, run>>

Resume ==
    /\ Room
    /\ Idle \/ paused
    /\ IF queue \in Stocked
         THEN waits' = Append(waits, Wait("play", "user")) /\ UNCHANGED paused
         ELSE paused' = FALSE /\ UNCHANGED waits
    /\ UNCHANGED <<enabled, here, seen, alone, air, queue, pending, restock, cue, timer, run>>

-----------------------------------------------------------------------------

Answer ==
    \E k \in DOMAIN waits :
        Counted(k) \/ SongsFound(k) \/ BumperBuilt(k) \/ NoBumper(k) \/ SongStarts(k)

\* The station runs by itself,
Runs == Step \/ TrackEnds \/ TimerFires \/ Poll \/ GraceOver \/ Answer

\* and is disturbed by operators, listeners and failures.
Disturbed ==
    \/ PlayerFails \/ \E k \in DOMAIN waits : NoSongsFound(k) \/ SongFails(k)
    \/ Commute \/ Switch \/ Cue \/ SkipBumper \/ Ops
    \/ Skip \/ Play \/ Test \/ Add \/ Stop \/ Pause \/ Resume

Next == Runs \/ Disturbed

\* Turns come to an end, time passes, and whatever is ready is dealt with some
\* day, although other turns may come first.
Fairness ==
    /\ WF_vars(Step) /\ WF_vars(GraceOver)
    /\ SF_vars(TrackEnds) /\ SF_vars(TimerFires) /\ SF_vars(Poll) /\ SF_vars(Answer)

Spec == Init /\ [][Next]_vars /\ Fairness

-----------------------------------------------------------------------------
(* Properties *)

Askers == Resumes \cup {"boundary", "bumper", "advance", "nobody", "idle", "now", "fill",
                        "fillAlone", "ops", "user", "test"}

Steps == DOMAIN Past \cup Resumes \cup
    {"trackBoundary", "dry", "arm", "rearm", "fill", "fillAlone", "program", "playNext"}

TypeOK ==
    /\ {enabled, here, seen, paused, pending, restock, cue, timer} \subseteq BOOLEAN
    /\ alone \in Loneliness
    /\ air \in {"idle", "song", "bumper"}
    /\ queue \in Queues
    /\ waits \in Seq([at : Waited, by : Askers])
    /\ run \in Seq(Steps)

\* The director never runs two restocks at once, of which the second would
\* kill the first one's song (director.ts:101-105), in whatever order its
\* boundaries, polls and timers come.
SingleRestock ==
    \A j, k \in DOMAIN waits :
        {waits[j].at, waits[k].at} \subseteq {"search", "restart"} /\ j # k
            => "ops" \in {waits[j].by, waits[k].by}

\* docs/radio.md:218: bumpers play at song boundaries and on dead air, in
\* sequence with the music; none starts over a song, but by a !skip.
BumpersBetweenSongs ==
    [][air = "song" /\ air' = "bumper" =>
         \E k \in DOMAIN waits : waits[k].by = "boundary" /\ waits' = Without(k)]_vars

=============================================================================
