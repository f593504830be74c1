----------------------------- MODULE AudioPlayer ------------------------------
(***************************************************************************)
(* The audio player in detail: an ffmpeg process per session, the events   *)
(* of current and earlier processes, the buffer between its output and the *)
(* 20 ms frame loop, back-pressure, and the ways a track ends.             *)
(*                                                                         *)
(* stop() and play() begin a new session; what belongs to an earlier one - *)
(* the armed timer of its loop, its process until it dies, the output that *)
(* is still to be read - goes on and must be told apart.  A frame stands   *)
(* for any stretch of sound.  seek() is a play() of the same track.        *)
(* pause() is not called by anything, so the player is idle or plays.      *)
(***************************************************************************)
EXTENDS Naturals, Sequences

CONSTANTS
    MaxSessions,      \* bound: calls of play and stop
    Length,           \* bound: the frames a process puts out
    PipeCap,          \* frames a process can leave unread when it exits
    Low, High,        \* BUFFER_LOW_WATER, BUFFER_HIGH_WATER
    MaxFailures,      \* MAX_CONSECUTIVE_FAILURES
    HealthyFrames,    \* HEALTHY_FRAME_RESET
    NearEndTicks,     \* MAX_EMPTY_ATTEMPTS
    MidTrackTicks     \* MAX_MIDTRACK_STALL_ATTEMPTS

PlayerAssumption ==
    /\ MaxSessions \in Nat /\ Length \in Nat /\ PipeCap \in Nat
    /\ Low \in Nat /\ High \in Nat
    /\ MaxFailures \in Nat \ {0} /\ HealthyFrames \in Nat \ {0}
    /\ NearEndTicks \in Nat \ {0} /\ MidTrackTicks \in Nat \ {0}
    /\ NearEndTicks <= MidTrackTicks

VARIABLES
    session,        \* sessionId
    playing,        \* state is not idle
    ffmpeg,         \* the session of this.ffmpeg, or 0
    source,         \* the process of each session and what it has left to say
    buffer,         \* pcmChunks: of which session each frame is
    held,           \* ffmpegPaused
    looping,        \* frameLoopRunning
    timers,         \* the armed frame timers of each session
    spawnFailed,
    heard,          \* healthyFrames, up to the first second
    fails,          \* consecutiveFailures
    nearEnd,        \* the decoded position is in the track's tail
    empties         \* emptyFrameAttempts

audioVars == <<session, playing, ffmpeg, source, buffer, held, looping, timers,
          spawnFailed, heard, fails, nearEnd, empties>>

Sessions == 1 .. MaxSessions
NoProcess == 0
Unused == [is |-> "unused", left |-> 0]

AudioInit ==
    /\ session = 0
    /\ playing = FALSE
    /\ ffmpeg = NoProcess
    /\ source = [s \in Sessions |-> Unused]
    /\ buffer = <<>> /\ held = FALSE
    /\ looping = FALSE /\ timers = [s \in Sessions |-> 0]
    /\ spawnFailed = FALSE /\ heard = 0 /\ fails = 0
    /\ nearEnd = FALSE /\ empties = 0

-----------------------------------------------------------------------------
(* stop() and play().                                                      *)

\* The current process is told to terminate, if it has been spawned.
Killed ==
    [s \in Sessions |->
       IF s = ffmpeg /\ source[s].is = "running"
         THEN [source[s] EXCEPT !.is = "killed"] ELSE source[s]]

NextSession == session + 1

EndSession ==
    /\ session < MaxSessions
    /\ session' = NextSession
    /\ buffer' = <<>> /\ held' = FALSE
    /\ spawnFailed' = FALSE /\ heard' = 0

Silent ==
    /\ playing' = FALSE /\ looping' = FALSE
    /\ ffmpeg' = NoProcess
    /\ source' = Killed
    /\ nearEnd' = FALSE
    /\ UNCHANGED timers

Stop ==
    /\ EndSession
    /\ Silent
    /\ UNCHANGED <<fails, empties>>

\* A process of n frames, or one that cannot be spawned; the play may seek
\* into the track's tail.
Play(n, spawns) ==
    /\ EndSession
    /\ fails < MaxFailures
    /\ playing' = TRUE /\ looping' = TRUE
    /\ ffmpeg' = session'
    /\ source' = [Killed EXCEPT ![session'] =
                    [is |-> IF spawns THEN "running" ELSE "failing", left |-> n]]
    /\ timers' = [timers EXCEPT ![session'] = @ + 1]
    /\ nearEnd' \in BOOLEAN /\ empties' = 0
    /\ UNCHANGED fails

\* play() after too many failures: it emits an error.
Refuse ==
    /\ EndSession
    /\ fails >= MaxFailures
    /\ Silent
    /\ empties' = 0
    /\ UNCHANGED fails

ResetFailures ==
    /\ fails' = 0
    /\ UNCHANGED <<session, playing, ffmpeg, source, buffer, held, looping,
                   timers, spawnFailed, heard, nearEnd, empties>>

-----------------------------------------------------------------------------
(* The events of a process.                                                *)

OfAnySession(s) == TRUE     \* mutation: the events of earlier processes count
OfThisSession(s) == s = session

\* Some of its output is read.
Data(s) ==
    /\ source[s].is \in {"running", "killed", "gone"} /\ source[s].left > 0
    /\ s = session => ~held
    /\ source' = [source EXCEPT ![s].left = @ - 1]
    /\ IF OfThisSession(s)
         THEN /\ buffer' = Append(buffer, s)
              /\ held' = (held \/ (Len(buffer') > High /\ ffmpeg # NoProcess))
         ELSE UNCHANGED <<buffer, held>>
    /\ UNCHANGED <<session, playing, ffmpeg, looping, timers, spawnFailed,
                   heard, fails, nearEnd, empties>>

ForgetsAny(s) == ffmpeg' = NoProcess     \* mutation: any exit clears this.ffmpeg
Forgets(s) == ffmpeg' = IF OfThisSession(s) THEN NoProcess ELSE ffmpeg

Exit(s) ==
    /\ \/ source[s].is = "killed"
       \/ source[s].is = "running" /\ source[s].left <= PipeCap
    /\ source' = [source EXCEPT ![s].is = "gone"]
    /\ Forgets(s)
    /\ UNCHANGED <<session, playing, buffer, held, looping, timers,
                   spawnFailed, heard, fails, nearEnd, empties>>

\* The process could not be spawned; this.ffmpeg stays.  The error comes as
\* soon as the caller of play() is done, before any timer.
Reported == \A s \in Sessions : source[s].is # "failing"

SpawnError(s) ==
    /\ source[s].is = "failing"
    /\ source' = [source EXCEPT ![s] = [is |-> "gone", left |-> 0]]
    /\ IF OfThisSession(s)
         THEN spawnFailed' = TRUE /\ fails' = fails + 1
         ELSE UNCHANGED <<spawnFailed, fails>>
    /\ UNCHANGED <<session, playing, ffmpeg, buffer, held, looping, timers,
                   heard, nearEnd, empties>>

-----------------------------------------------------------------------------
(* The frame loop.                                                         *)

Rest == IF buffer = <<>> THEN buffer ELSE Tail(buffer)

\* The next frame is taken and sent; when it cannot be encoded, an error is
\* emitted and the track goes on.
SendNextFrame(encoded) ==
    /\ buffer' = Rest
    /\ held' = (held /\ ~(buffer # <<>> /\ Len(Rest) < Low /\ ffmpeg # NoProcess))
    /\ heard' = IF buffer # <<>> /\ encoded /\ heard < HealthyFrames
                  THEN heard + 1 ELSE heard
    /\ nearEnd' \in {nearEnd, nearEnd \/ (buffer # <<>> /\ encoded)}

Starved == ffmpeg # NoProcess /\ Rest = <<>>
Empties ==     \* beyond the thresholds the count makes no difference
    IF ~Starved THEN 0
    ELSE IF empties < MidTrackTicks THEN empties + 1 ELSE empties

MidTrackNever == nearEnd' /\ Empties >= NearEndTicks     \* mutation: the tail only
Stalled ==
    \/ (nearEnd' /\ Empties >= NearEndTicks)
    \/ Empties >= MidTrackTicks

Exhausted == ffmpeg = NoProcess /\ Rest = <<>>

\* A timer fires, of an earlier session or of this one.
StaleTick(s) ==
    /\ timers[s] > 0
    /\ s # session \/ ~looping
    /\ timers' = [timers EXCEPT ![s] = @ - 1]
    /\ UNCHANGED <<session, playing, ffmpeg, source, buffer, held, looping,
                   spawnFailed, heard, fails, nearEnd, empties>>

Tick(encoded) ==
    /\ looping /\ timers[session] > 0 /\ Reported
    /\ SendNextFrame(encoded)
    /\ empties' = Empties
    /\ IF Stalled \/ Exhausted
         THEN /\ looping' = FALSE /\ playing' = FALSE
              /\ source' = Killed /\ ffmpeg' = NoProcess
              /\ fails' = IF Exhausted /\ spawnFailed THEN fails ELSE 0
              /\ timers' = [timers EXCEPT ![session] = @ - 1]
         ELSE /\ fails' = IF heard' = HealthyFrames THEN 0 ELSE fails
              /\ UNCHANGED <<looping, playing, source, ffmpeg, timers>>
    /\ UNCHANGED <<session, spawnFailed>>

AudioNext ==
    \/ Stop \/ Refuse \/ ResetFailures
    \/ \E n \in 0 .. Length, spawns \in BOOLEAN : Play(n, spawns)
    \/ \E s \in Sessions : Data(s) \/ Exit(s) \/ SpawnError(s) \/ StaleTick(s)
    \/ \E encoded \in BOOLEAN : Tick(encoded)

\* The frame loop's timers fire; nothing is assumed of the processes, which
\* may hang for ever.
AudioSpec ==
    /\ AudioInit
    /\ [][AudioNext]_audioVars
    /\ WF_audioVars(\E s \in Sessions : SpawnError(s))
    /\ WF_audioVars(\E encoded \in BOOLEAN : Tick(encoded))

-----------------------------------------------------------------------------

AudioTypeOK ==
    /\ session \in 0 .. MaxSessions /\ ffmpeg \in 0 .. MaxSessions
    /\ playing \in BOOLEAN /\ looping \in BOOLEAN /\ spawnFailed \in BOOLEAN
    /\ held \in BOOLEAN /\ nearEnd \in BOOLEAN
    /\ source \in [Sessions -> [is : {"unused", "running", "failing", "killed", "gone"},
                                left : Nat]]
    /\ buffer \in Seq(Sessions)
    /\ timers \in [Sessions -> Nat]
    /\ heard \in 0 .. HealthyFrames
    /\ fails \in Nat /\ empties \in 0 .. MidTrackTicks

\* What is sent is of the track that was last asked for, at its own speed (a
\* second timer of the same session would double it), and every process but
\* the current one has been told to stop: no stop, play or late event of an
\* earlier process mixes two tracks or leaves an ffmpeg behind.
OnlyThisSession ==
    /\ \A k \in DOMAIN buffer : buffer[k] = session
    /\ \A s \in Sessions : timers[s] <= 1
    /\ \A s \in Sessions : source[s].is = "running" => ffmpeg = s

\* A track ends by itself only when all that was read of it has been sent and
\* its own process has exited or starved the loop - never because an earlier
\* process did.
EndsOnItsOwn ==
    [][playing /\ ~playing' /\ session' = session =>
         /\ Len(buffer) <= 1
         /\ source[session].is = "gone" \/ empties + 1 >= NearEndTicks]_audioVars

\* A track that is not replaced gets over, whatever its process does: one
\* that hangs, before its first frame or later, does not leave dead air.
TrackGetsOver == []<>(~playing) \/ []<><<session' # session>>_session

\* The player is what Playback takes it for.
Stage == IF ~playing THEN "idle"
         ELSE IF spawnFailed THEN "dead"
         ELSE IF heard = HealthyFrames THEN "sounding" ELSE "starting"
P == INSTANCE Player WITH stage <- Stage
ImplementsPlayer == P!Spec
=============================================================================
