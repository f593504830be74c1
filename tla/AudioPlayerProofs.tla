-------------------------- MODULE AudioPlayerProofs ---------------------------
(***************************************************************************)
(* The audio player never mixes two tracks, leaves no ffmpeg process       *)
(* behind, and implements the stages Playback is built on: for any number  *)
(* of sessions, processes of any length and any thresholds.                *)
(***************************************************************************)
EXTENDS AudioPlayer, SequenceTheorems, TLAPS

\* Sessions that have not begun have left no trace.
LaterUnused == \A s \in Sessions : s > session => source[s] = Unused /\ timers[s] = 0

OneAtATime ==
    /\ ffmpeg \in {NoProcess, session}
    /\ looping = playing
    /\ playing => session \in Sessions

\* A process whose spawn error is still to come belongs to a track that has
\* not been heard.
FailingIsUnheard ==
    session \in Sessions /\ source[session].is = "failing" =>
        playing /\ ~spawnFailed /\ heard = 0

Inv == AudioTypeOK /\ LaterUnused /\ OneAtATime /\ FailingIsUnheard /\ OnlyThisSession

States == {"unused", "running", "failing", "killed", "gone"}
Sources == [is : States, left : Nat]

-----------------------------------------------------------------------------
(* What the helpers leave. *)

\* After a kill no process runs, and nothing else has happened to any.
LEMMA KilledEffect ==
  ASSUME Inv
  PROVE  /\ Killed \in [Sessions -> Sources]
         /\ \A s \in Sessions : Killed[s].is # "running"
         /\ \A s \in Sessions : Killed[s].is = "failing" <=> source[s].is = "failing"
         /\ \A s \in Sessions : source[s] = Unused => Killed[s] = Unused
  <1>1. source \in [Sessions -> Sources]
    BY DEF Inv, AudioTypeOK, Sources, States
  <1>2. \A s \in Sessions : source[s].is = "running" => ffmpeg = s
    BY DEF Inv, OnlyThisSession
  <1>3. ASSUME NEW s \in Sessions
        PROVE  /\ Killed[s] \in Sources /\ Killed[s].is # "running"
               /\ Killed[s].is = "failing" <=> source[s].is = "failing"
               /\ source[s] = Unused => Killed[s] = Unused
    <2>1. CASE s = ffmpeg /\ source[s].is = "running"
      <3>1. Killed[s] = [source[s] EXCEPT !.is = "killed"]
        BY <2>1 DEF Killed
      <3> QED BY <1>1, <2>1, <3>1 DEF Sources, States, Unused
    <2>2. CASE ~(s = ffmpeg /\ source[s].is = "running")
      <3>1. Killed[s] = source[s]
        BY <2>2 DEF Killed
      <3> QED BY <1>1, <1>2, <2>2, <3>1
    <2> QED BY <2>1, <2>2
  <1> QED BY <1>3 DEF Killed

\* Taking a frame from the buffer takes no other track's.
LEMMA RestEffect ==
  ASSUME Inv
  PROVE  /\ Rest \in Seq(Sessions)
         /\ \A k \in DOMAIN Rest : Rest[k] = session
  <1>1. CASE buffer = <<>>
    BY <1>1 DEF Rest, Inv, AudioTypeOK, OnlyThisSession
  <1>2. CASE buffer # <<>>
    <2>1. Rest = Tail(buffer) /\ buffer \in Seq(Sessions)
      BY <1>2 DEF Rest, Inv, AudioTypeOK
    <2>2. /\ Tail(buffer) \in Seq(Sessions)
          /\ Len(Tail(buffer)) = Len(buffer) - 1
          /\ \A k \in 1 .. Len(Tail(buffer)) : Tail(buffer)[k] = buffer[k + 1]
      BY <1>2, <2>1, HeadTailProperties
    <2>3. \A k \in 1 .. Len(buffer) : buffer[k] = session
      BY <2>1 DEF Inv, OnlyThisSession
    <2> QED BY <2>1, <2>2, <2>3
  <1> QED BY <1>1, <1>2

\* stop(), and play() after too many failures, leave nothing of the old track.
LEMMA SilentInv ==
  ASSUME PlayerAssumption, Inv, EndSession, Silent,
         fails' = fails, empties' \in 0 .. MidTrackTicks
  PROVE  Inv'
<1>0. session' = session + 1 /\ session' \in Sessions
  BY DEF EndSession, NextSession, Inv, AudioTypeOK, Sessions, PlayerAssumption
<1>1. AudioTypeOK'
  <2>1. source' \in [Sessions -> Sources]
    BY KilledEffect DEF Silent
  <2>2. session' \in 0 .. MaxSessions /\ ffmpeg' \in 0 .. MaxSessions
    BY <1>0 DEF Silent, NoProcess, Sessions, PlayerAssumption
  <2>3. buffer' \in Seq(Sessions) /\ timers' \in [Sessions -> Nat]
    BY EmptySeq DEF EndSession, Silent, Inv, AudioTypeOK
  <2>4. /\ playing' \in BOOLEAN /\ looping' \in BOOLEAN /\ spawnFailed' \in BOOLEAN
        /\ held' \in BOOLEAN /\ nearEnd' \in BOOLEAN
    BY DEF EndSession, Silent
  <2>5. heard' \in 0 .. HealthyFrames /\ fails' \in Nat /\ empties' \in 0 .. MidTrackTicks
    BY DEF EndSession, Inv, AudioTypeOK, PlayerAssumption
  <2> QED BY <2>1, <2>2, <2>3, <2>4, <2>5 DEF AudioTypeOK, Sources, States
<1>2. LaterUnused'
  BY <1>0, KilledEffect DEF Silent, Inv, LaterUnused, AudioTypeOK, Sessions
<1>3. OneAtATime'
  BY DEF Silent, OneAtATime, NoProcess
<1>4. FailingIsUnheard'
  <2>1. source[session'] = Unused
    BY <1>0 DEF Inv, LaterUnused, AudioTypeOK, Sessions
  <2>2. source'[session'] = Unused
    BY <1>0, <2>1, KilledEffect DEF Silent
  <2> QED BY <2>2 DEF FailingIsUnheard, Unused
<1>5. OnlyThisSession'
  BY KilledEffect DEF EndSession, Silent, Inv, OnlyThisSession
<1> QED BY <1>1, <1>2, <1>3, <1>4, <1>5 DEF Inv

\* play() begins a session with a process and a timer of its own.
LEMMA PlayInv ==
  ASSUME PlayerAssumption, Inv, NEW n \in Nat, NEW spawns \in BOOLEAN, Play(n, spawns)
  PROVE  Inv'
<1> DEFINE new == [is |-> IF spawns THEN "running" ELSE "failing", left |-> n]
<1>0. session' = session + 1 /\ session' \in Sessions
  BY DEF Play, EndSession, NextSession, Inv, AudioTypeOK, Sessions, PlayerAssumption
<1>1. new \in Sources
  BY DEF Sources, States
<1>2. source' = [Killed EXCEPT ![session'] = new] /\ timers' = [timers EXCEPT ![session'] = @ + 1]
  BY DEF Play
<1>3. source'[session'] = new /\ \A s \in Sessions \ {session'} : source'[s] = Killed[s]
  BY <1>0, <1>2, KilledEffect
<1>4. timers[session'] = 0 /\ timers \in [Sessions -> Nat]
  BY <1>0 DEF Inv, LaterUnused, AudioTypeOK, Sessions
<1>5. timers'[session'] = 1 /\ \A s \in Sessions \ {session'} : timers'[s] = timers[s]
  BY <1>0, <1>2, <1>4
<1>6. AudioTypeOK'
  <2>1. source' \in [Sessions -> Sources]
    BY <1>1, <1>2, KilledEffect
  <2>2. timers' \in [Sessions -> Nat]
    <3>1. timers[session'] + 1 \in Nat
      BY <1>4
    <3> QED BY <1>2, <1>4, <3>1
  <2>3. session' \in 0 .. MaxSessions /\ ffmpeg' \in 0 .. MaxSessions
    BY <1>0 DEF Play, Sessions, PlayerAssumption
  <2>4. buffer' \in Seq(Sessions)
    BY EmptySeq DEF Play, EndSession
  <2>5. /\ playing' \in BOOLEAN /\ looping' \in BOOLEAN /\ spawnFailed' \in BOOLEAN
        /\ held' \in BOOLEAN /\ nearEnd' \in BOOLEAN
    BY DEF Play, EndSession
  <2>6. heard' \in 0 .. HealthyFrames /\ fails' \in Nat /\ empties' \in 0 .. MidTrackTicks
    BY DEF Play, EndSession, Inv, AudioTypeOK, PlayerAssumption
  <2> QED BY <2>1, <2>2, <2>3, <2>4, <2>5, <2>6 DEF AudioTypeOK, Sources, States
<1>7. LaterUnused'
  <2> SUFFICES ASSUME NEW s \in Sessions, s > session'
               PROVE  source'[s] = Unused /\ timers'[s] = 0
    BY DEF LaterUnused
  <2>1. s # session' /\ s > session
    BY <1>0 DEF Inv, AudioTypeOK, Sessions
  <2> QED BY <1>3, <1>5, <2>1, KilledEffect DEF Inv, LaterUnused
<1>8. OneAtATime'
  BY <1>0 DEF Play, OneAtATime
<1>9. FailingIsUnheard'
  BY DEF Play, EndSession, FailingIsUnheard
<1>10. OnlyThisSession'
  <2>1. \A s \in Sessions : timers'[s] <= 1
    BY <1>5 DEF Inv, OnlyThisSession
  <2>2. \A s \in Sessions : source'[s].is = "running" => ffmpeg' = s
    BY <1>3, KilledEffect DEF Play
  <2> QED BY <2>1, <2>2 DEF Play, EndSession, OnlyThisSession
<1> QED BY <1>6, <1>7, <1>8, <1>9, <1>10 DEF Inv

\* Output that is read is dropped unless it is this session's.
LEMMA DataInv == ASSUME Inv, NEW s \in Sessions, Data(s) PROVE Inv'
<1>0. source \in [Sessions -> Sources] /\ source[s].left \in Nat \ {0}
  BY DEF Data, Inv, AudioTypeOK, Sources, States
<1>1. /\ source' = [source EXCEPT ![s].left = @ - 1]
      /\ \A t \in Sessions : source'[t].is = source[t].is
      /\ \A t \in Sessions \ {s} : source'[t] = source[t]
      /\ source[s] # Unused
  BY <1>0 DEF Data, Sources, Unused
<1>2. source' \in [Sessions -> Sources]
  <2>1. [source[s] EXCEPT !.left = @ - 1] \in Sources
    BY <1>0 DEF Sources
  <2>2. source' = [source EXCEPT ![s] = [source[s] EXCEPT !.left = @ - 1]]
    BY <1>0, <1>1
  <2> QED BY <1>0, <2>1, <2>2
<1>3. buffer' \in Seq(Sessions) /\ \A k \in DOMAIN buffer' : buffer'[k] = session
  <2>1. CASE OfThisSession(s)
    <3>1. s = session /\ buffer' = Append(buffer, s)
      BY <2>1 DEF Data, OfThisSession
    <3>2. buffer \in Seq(Sessions) /\ \A k \in 1 .. Len(buffer) : buffer[k] = session
      BY DEF Inv, AudioTypeOK, OnlyThisSession
    <3>3. /\ buffer' \in Seq(Sessions) /\ Len(buffer') = Len(buffer) + 1
          /\ \A k \in 1 .. Len(buffer) : buffer'[k] = buffer[k]
          /\ buffer'[Len(buffer) + 1] = s
      BY <3>1, <3>2, AppendProperties
    <3> QED BY <3>1, <3>2, <3>3
  <2>2. CASE ~OfThisSession(s)
    BY <2>2 DEF Data, Inv, AudioTypeOK, OnlyThisSession
  <2> QED BY <2>1, <2>2
<1>4. held' \in BOOLEAN
  BY DEF Data, Inv, AudioTypeOK
<1>5. UNCHANGED <<session, playing, ffmpeg, looping, timers, spawnFailed,
                  heard, fails, nearEnd, empties>>
  BY DEF Data
<1>6. AudioTypeOK'
  BY <1>2, <1>3, <1>4, <1>5 DEF Inv, AudioTypeOK, Sources, States
<1>7. LaterUnused' /\ OneAtATime' /\ FailingIsUnheard'
  BY <1>1, <1>5 DEF Inv, LaterUnused, OneAtATime, FailingIsUnheard
<1>8. OnlyThisSession'
  BY <1>1, <1>3, <1>5 DEF Inv, OnlyThisSession
<1> QED BY <1>6, <1>7, <1>8 DEF Inv

\* An exit forgets the process only when it is this session's.
LEMMA ExitInv == ASSUME PlayerAssumption, Inv, NEW s \in Sessions, Exit(s) PROVE Inv'
<1>0. source \in [Sessions -> Sources]
  BY DEF Inv, AudioTypeOK, Sources, States
<1>1. /\ source' = [source EXCEPT ![s] = [source[s] EXCEPT !.is = "gone"]]
      /\ source'[s].is = "gone" /\ source[s] # Unused
      /\ \A t \in Sessions \ {s} : source'[t] = source[t]
  BY <1>0 DEF Exit, Sources, Unused
<1>2. source' \in [Sessions -> Sources]
  <2>1. [source[s] EXCEPT !.is = "gone"] \in Sources
    BY <1>0 DEF Sources, States
  <2> QED BY <1>0, <1>1, <2>1
<1>3. ffmpeg' \in {ffmpeg, NoProcess} /\ (s # session => ffmpeg' = ffmpeg)
  BY DEF Exit, Forgets, OfThisSession
<1>4. UNCHANGED <<session, playing, buffer, held, looping, timers, spawnFailed,
                  heard, fails, nearEnd, empties>>
  BY DEF Exit
<1>5. AudioTypeOK'
  <2>1. ffmpeg' \in 0 .. MaxSessions
    BY <1>3 DEF Inv, AudioTypeOK, NoProcess, PlayerAssumption
  <2> QED BY <1>2, <1>4, <2>1 DEF Inv, AudioTypeOK, Sources, States
<1>6. LaterUnused' /\ OneAtATime'
  BY <1>1, <1>3, <1>4 DEF Inv, LaterUnused, OneAtATime
<1>7. FailingIsUnheard'
  BY <1>1, <1>4 DEF Inv, FailingIsUnheard
<1>8. OnlyThisSession'
  <2>1. ASSUME NEW t \in Sessions, source'[t].is = "running" PROVE ffmpeg' = t
    <3>1. t # s /\ source[t].is = "running" /\ ffmpeg = t
      BY <1>1, <2>1 DEF Inv, OnlyThisSession
    <3>2. t = session /\ s # session
      BY <3>1 DEF Inv, OneAtATime, NoProcess, Sessions
    <3> QED BY <1>3, <3>1, <3>2
  <2> QED BY <1>4, <2>1 DEF Inv, OnlyThisSession
<1> QED BY <1>5, <1>6, <1>7, <1>8 DEF Inv

\* A spawn error of this session fails its track, before it was heard.
LEMMA SpawnErrorInv == ASSUME Inv, NEW s \in Sessions, SpawnError(s) PROVE Inv'
<1> DEFINE gone == [is |-> "gone", left |-> 0]
<1>0. source \in [Sessions -> Sources]
  BY DEF Inv, AudioTypeOK, Sources, States
<1>1. /\ source' = [source EXCEPT ![s] = gone]
      /\ source'[s] = gone /\ source[s] # Unused
      /\ \A t \in Sessions \ {s} : source'[t] = source[t]
  BY <1>0 DEF SpawnError, Unused
<1>2. source' \in [Sessions -> Sources]
  BY <1>0, <1>1 DEF Sources, States
<1>3. UNCHANGED <<session, playing, ffmpeg, buffer, held, looping, timers,
                  heard, nearEnd, empties>>
  BY DEF SpawnError
<1>4. /\ spawnFailed' \in BOOLEAN /\ fails' \in Nat
      /\ s # session => spawnFailed' = spawnFailed
  <2>1. spawnFailed \in BOOLEAN /\ fails \in Nat
    BY DEF Inv, AudioTypeOK
  <2>2. CASE OfThisSession(s)
    BY <2>1, <2>2 DEF SpawnError, OfThisSession
  <2>3. CASE ~OfThisSession(s)
    BY <2>1, <2>3 DEF SpawnError, OfThisSession
  <2> QED BY <2>2, <2>3
<1>5. AudioTypeOK'
  BY <1>2, <1>3, <1>4 DEF Inv, AudioTypeOK, Sources, States
<1>6. LaterUnused' /\ OneAtATime'
  BY <1>1, <1>3 DEF Inv, LaterUnused, OneAtATime
<1>7. FailingIsUnheard'
  BY <1>1, <1>3, <1>4 DEF Inv, FailingIsUnheard
<1>8. OnlyThisSession'
  BY <1>1, <1>3 DEF Inv, OnlyThisSession
<1> QED BY <1>5, <1>6, <1>7, <1>8 DEF Inv

\* A timer of an earlier session, or of a loop that has ended, dies.
LEMMA StaleTickInv == ASSUME Inv, NEW s \in Sessions, StaleTick(s) PROVE Inv'
<1>1. /\ timers \in [Sessions -> Nat] /\ timers[s] > 0
      /\ timers' = [timers EXCEPT ![s] = @ - 1]
      /\ UNCHANGED <<session, playing, ffmpeg, source, buffer, held, looping,
                     spawnFailed, heard, fails, nearEnd, empties>>
  BY DEF StaleTick, Inv, AudioTypeOK
<1>2. /\ timers' \in [Sessions -> Nat] /\ timers'[s] = timers[s] - 1
      /\ \A t \in Sessions \ {s} : timers'[t] = timers[t]
  BY <1>1
<1>3. AudioTypeOK'
  BY <1>1, <1>2 DEF Inv, AudioTypeOK
<1>4. LaterUnused'
  BY <1>1, <1>2 DEF Inv, LaterUnused
<1>5. OneAtATime' /\ FailingIsUnheard'
  BY <1>1 DEF Inv, OneAtATime, FailingIsUnheard
<1>6. OnlyThisSession'
  BY <1>1, <1>2 DEF Inv, OnlyThisSession
<1> QED BY <1>3, <1>4, <1>5, <1>6 DEF Inv

\* The frame loop sends a frame, and goes on or ends the track.
LEMMA TickInv ==
  ASSUME PlayerAssumption, Inv, NEW encoded \in BOOLEAN, Tick(encoded)
  PROVE  Inv'
<1>0. /\ session \in Sessions /\ session' = session
      /\ spawnFailed' = spawnFailed
      /\ \A s \in Sessions : source[s].is # "failing"
  BY DEF Tick, Reported, Inv, OneAtATime
<1>1. buffer' \in Seq(Sessions) /\ \A k \in DOMAIN buffer' : buffer'[k] = session
  BY RestEffect DEF Tick, SendNextFrame
<1>2. held' \in BOOLEAN /\ nearEnd' \in BOOLEAN
  BY DEF Tick, SendNextFrame, Inv, AudioTypeOK
<1>3. heard' \in 0 .. HealthyFrames
  BY DEF Tick, SendNextFrame, Inv, AudioTypeOK, PlayerAssumption
<1>4. empties' \in 0 .. MidTrackTicks
  <2>1. empties' = Empties
    BY DEF Tick
  <2> QED BY <2>1 DEF Empties, Inv, AudioTypeOK, PlayerAssumption
<1>5. fails' \in Nat
  <2>1. fails \in Nat
    BY DEF Inv, AudioTypeOK
  <2>2. fails' \in {fails, 0}
    <3>1. CASE Stalled \/ Exhausted
      BY <3>1 DEF Tick
    <3>2. CASE ~(Stalled \/ Exhausted)
      BY <3>2 DEF Tick
    <3> QED BY <3>1, <3>2
  <2> QED BY <2>1, <2>2
<1>6. CASE Stalled \/ Exhausted
  <2>1. /\ looping' = FALSE /\ playing' = FALSE
        /\ source' = Killed /\ ffmpeg' = NoProcess
        /\ timers' = [timers EXCEPT ![session] = @ - 1]
    BY <1>6 DEF Tick
  <2>2. timers' \in [Sessions -> Nat] /\ \A s \in Sessions : timers'[s] <= timers[s]
    <3>1. timers \in [Sessions -> Nat] /\ timers[session] > 0
      BY DEF Tick, Inv, AudioTypeOK
    <3> QED BY <1>0, <2>1, <3>1
  <2>3. source' \in [Sessions -> Sources]
    BY <2>1, KilledEffect
  <2>4. AudioTypeOK'
    <3>1. session' \in 0 .. MaxSessions /\ ffmpeg' \in 0 .. MaxSessions
      BY <1>0, <2>1 DEF NoProcess, Inv, AudioTypeOK, PlayerAssumption
    <3>2. playing' \in BOOLEAN /\ looping' \in BOOLEAN /\ spawnFailed' \in BOOLEAN
      BY <1>0, <2>1 DEF Inv, AudioTypeOK
    <3> QED BY <1>1, <1>2, <1>3, <1>4, <1>5, <2>2, <2>3, <3>1, <3>2
             DEF AudioTypeOK, Sources, States
  <2>5. LaterUnused'
    <3> SUFFICES ASSUME NEW s \in Sessions, s > session
                 PROVE  source'[s] = Unused /\ timers'[s] = 0
      BY <1>0 DEF LaterUnused
    <3>1. source[s] = Unused /\ timers[s] = 0
      BY DEF Inv, LaterUnused
    <3> QED BY <2>1, <2>2, <3>1, KilledEffect
  <2>6. OneAtATime'
    BY <2>1 DEF OneAtATime
  <2>7. FailingIsUnheard'
    BY <1>0, <2>1, KilledEffect DEF FailingIsUnheard
  <2>8. OnlyThisSession'
    <3>1. \A s \in Sessions : timers'[s] <= 1
      BY <2>2 DEF Inv, OnlyThisSession, AudioTypeOK
    <3>2. \A s \in Sessions : source'[s].is # "running"
      BY <2>1, KilledEffect
    <3> QED BY <1>0, <1>1, <3>1, <3>2 DEF OnlyThisSession
  <2> QED BY <2>4, <2>5, <2>6, <2>7, <2>8 DEF Inv
<1>7. CASE ~(Stalled \/ Exhausted)
  <2>1. UNCHANGED <<looping, playing, source, ffmpeg, timers>>
    BY <1>7 DEF Tick
  <2>2. AudioTypeOK'
    BY <1>0, <1>1, <1>2, <1>3, <1>4, <1>5, <2>1 DEF Inv, AudioTypeOK
  <2>3. LaterUnused' /\ OneAtATime' /\ FailingIsUnheard'
    BY <1>0, <2>1 DEF Inv, LaterUnused, OneAtATime, FailingIsUnheard
  <2>4. OnlyThisSession'
    BY <1>0, <1>1, <2>1 DEF Inv, OnlyThisSession
  <2> QED BY <2>2, <2>3, <2>4 DEF Inv
<1> QED BY <1>6, <1>7

\* Nothing is playing at first, and no session has begun.
LEMMA InitInv == ASSUME PlayerAssumption, AudioInit PROVE Inv
<1>1. AudioTypeOK
  <2>1. session \in 0 .. MaxSessions /\ ffmpeg \in 0 .. MaxSessions
    BY DEF AudioInit, NoProcess, PlayerAssumption
  <2>2. source \in [Sessions -> Sources]
    BY DEF AudioInit, Unused, Sources, States
  <2>3. buffer \in Seq(Sessions) /\ timers \in [Sessions -> Nat]
    BY EmptySeq DEF AudioInit
  <2>4. heard \in 0 .. HealthyFrames /\ fails \in Nat /\ empties \in 0 .. MidTrackTicks
    BY DEF AudioInit, PlayerAssumption
  <2> QED BY <2>1, <2>2, <2>3, <2>4 DEF AudioInit, AudioTypeOK, Sources, States
<1>2. LaterUnused
  BY DEF AudioInit, LaterUnused
<1>3. OneAtATime /\ FailingIsUnheard
  <2>1. /\ session \notin Sessions /\ ffmpeg = NoProcess
        /\ playing = FALSE /\ looping = FALSE
    BY DEF AudioInit, Sessions
  <2> QED BY <2>1 DEF OneAtATime, FailingIsUnheard
<1>4. OnlyThisSession
  BY DEF AudioInit, OnlyThisSession, Unused
<1> QED BY <1>1, <1>2, <1>3, <1>4 DEF Inv

\* The failure counter is no part of the sessions.
LEMMA ResetInv == ASSUME Inv, ResetFailures PROVE Inv'
<1>1. AudioTypeOK'
  BY DEF ResetFailures, Inv, AudioTypeOK
<1>2. LaterUnused' /\ OneAtATime' /\ FailingIsUnheard' /\ OnlyThisSession'
  BY DEF ResetFailures, Inv, LaterUnused, OneAtATime, FailingIsUnheard, OnlyThisSession
<1> QED BY <1>1, <1>2 DEF Inv

\* Every step of the player keeps the invariant.
LEMMA StepInv == ASSUME PlayerAssumption, Inv, [AudioNext]_audioVars PROVE Inv'
<1>1. CASE Stop
  <2>1. empties' \in 0 .. MidTrackTicks
    BY <1>1 DEF Stop, Inv, AudioTypeOK
  <2> QED BY <1>1, <2>1, SilentInv DEF Stop
<1>2. CASE Refuse
  <2>1. empties' \in 0 .. MidTrackTicks
    BY <1>2 DEF Refuse, PlayerAssumption
  <2> QED BY <1>2, <2>1, SilentInv DEF Refuse
<1>3. CASE ResetFailures
  BY <1>3, ResetInv
<1>4. ASSUME NEW n \in 0 .. Length, NEW spawns \in BOOLEAN, Play(n, spawns) PROVE Inv'
  <2>1. n \in Nat
    BY <1>4 DEF PlayerAssumption
  <2> QED BY <1>4, <2>1, PlayInv
<1>5. ASSUME NEW s \in Sessions, Data(s) PROVE Inv'
  BY <1>5, DataInv
<1>6. ASSUME NEW s \in Sessions, Exit(s) PROVE Inv'
  BY <1>6, ExitInv
<1>7. ASSUME NEW s \in Sessions, SpawnError(s) PROVE Inv'
  BY <1>7, SpawnErrorInv
<1>8. ASSUME NEW s \in Sessions, StaleTick(s) PROVE Inv'
  BY <1>8, StaleTickInv
<1>9. ASSUME NEW encoded \in BOOLEAN, Tick(encoded) PROVE Inv'
  BY <1>9, TickInv
<1>10. CASE UNCHANGED audioVars
  <2>1. AudioTypeOK'
    BY <1>10 DEF audioVars, Inv, AudioTypeOK
  <2>2. LaterUnused' /\ OneAtATime' /\ FailingIsUnheard' /\ OnlyThisSession'
    BY <1>10 DEF audioVars, Inv, LaterUnused, OneAtATime, FailingIsUnheard, OnlyThisSession
  <2> QED BY <2>1, <2>2 DEF Inv
<1> QED BY <1>1, <1>2, <1>3, <1>4, <1>5, <1>6, <1>7, <1>8, <1>9, <1>10 DEF AudioNext

-----------------------------------------------------------------------------
(* The stages of Player. *)

\* stop() and a refused play() silence the player; play() starts a track that
\* has not been heard.
LEMMA SessionMapsTo ==
  ASSUME PlayerAssumption, Inv
  PROVE  /\ Stop \/ Refuse => P!Silence
         /\ \A n \in 0 .. Length, spawns \in BOOLEAN : Play(n, spawns) => P!Play
<1>1. ASSUME Stop \/ Refuse PROVE P!Silence
  <2>1. playing' = FALSE /\ fails' = fails
    BY <1>1 DEF Stop, Refuse, Silent
  <2> QED BY <2>1 DEF Stage, P!Silence
<1>2. ASSUME NEW n \in 0 .. Length, NEW spawns \in BOOLEAN, Play(n, spawns)
      PROVE  P!Play
  <2>1. /\ playing' = TRUE /\ spawnFailed' = FALSE /\ heard' = 0
        /\ fails' = fails /\ fails < MaxFailures
    BY <1>2 DEF Play, EndSession
  <2>2. Stage' = "starting"
    BY <2>1 DEF Stage, PlayerAssumption
  <2> QED BY <2>1, <2>2 DEF P!Play
<1> QED BY <1>1, <1>2

\* A spawn error is a failed start, and of an earlier session nothing.
LEMMA SpawnErrorMapsTo ==
  ASSUME PlayerAssumption, Inv, NEW s \in Sessions, SpawnError(s)
  PROVE  P!SpawnFails \/ UNCHANGED P!vars
<1>1. UNCHANGED <<playing, heard>>
  BY DEF SpawnError
<1>2. CASE s = session
  <2>1. playing /\ ~spawnFailed /\ heard = 0
    BY <1>2 DEF SpawnError, Inv, FailingIsUnheard
  <2>2. spawnFailed' = TRUE /\ fails' = fails + 1
    BY <1>2 DEF SpawnError, OfThisSession
  <2>3. Stage = "starting" /\ Stage' = "dead"
    BY <1>1, <2>1, <2>2 DEF Stage, PlayerAssumption
  <2> QED BY <2>2, <2>3 DEF P!SpawnFails
<1>3. CASE s # session
  <2>1. UNCHANGED <<spawnFailed, fails>>
    BY <1>3 DEF SpawnError, OfThisSession
  <2> QED BY <1>1, <2>1 DEF Stage, P!vars
<1> QED BY <1>2, <1>3

\* The end of a track, whose failure to start is not forgotten when it was
\* that which ended it.
LEMMA LastTickMapsTo ==
  ASSUME Inv, NEW encoded \in BOOLEAN, Tick(encoded), Stalled \/ Exhausted
  PROVE  P!TrackEnds \/ P!Silence
<1>1. playing = TRUE /\ playing' = FALSE
  BY DEF Tick, Inv, OneAtATime
<1>2. Stage # "idle" /\ Stage' = "idle"
  BY <1>1 DEF Stage
<1>3. fails' \in {fails, 0}
  BY DEF Tick
<1> QED BY <1>2, <1>3 DEF P!TrackEnds, P!Silence

\* The frame that completes the first second is when the track sounds; every
\* later one resets the failures again.
LEMMA FrameMapsTo ==
  ASSUME PlayerAssumption, Inv, NEW encoded \in BOOLEAN, Tick(encoded),
         ~(Stalled \/ Exhausted)
  PROVE  P!Sounds \/ P!ResetFailures \/ UNCHANGED P!vars
<1>1. playing = TRUE /\ playing' = TRUE /\ spawnFailed' = spawnFailed
  BY DEF Tick, Inv, AudioTypeOK, OneAtATime
<1>2. /\ heard \in 0 .. HealthyFrames
      /\ heard' \in {heard, heard + 1} /\ (heard = HealthyFrames => heard' = heard)
  BY DEF Tick, SendNextFrame, Inv, AudioTypeOK, PlayerAssumption
<1>3. fails' = IF heard' = HealthyFrames THEN 0 ELSE fails
  BY DEF Tick
<1>4. CASE heard' # HealthyFrames
  <2>1. heard # HealthyFrames
    BY <1>2, <1>4
  <2> QED BY <1>1, <1>3, <1>4, <2>1 DEF Stage, P!vars
<1>5. CASE heard' = HealthyFrames /\ (spawnFailed \/ heard = HealthyFrames)
  BY <1>1, <1>3, <1>5 DEF Stage, P!ResetFailures
<1>6. CASE heard' = HealthyFrames /\ ~spawnFailed /\ heard # HealthyFrames
  BY <1>1, <1>3, <1>6 DEF Stage, P!Sounds
<1> QED BY <1>4, <1>5, <1>6

\* Every step of the player is a step of its stages or none.
LEMMA StepMapsTo == ASSUME PlayerAssumption, Inv, [AudioNext]_audioVars PROVE [P!Next]_(P!vars)
<1>1. CASE Stop \/ Refuse
  BY <1>1, SessionMapsTo DEF P!Next
<1>2. CASE ResetFailures
  BY <1>2 DEF ResetFailures, Stage, P!Next, P!ResetFailures
<1>3. ASSUME NEW n \in 0 .. Length, NEW spawns \in BOOLEAN, Play(n, spawns)
      PROVE  P!Next
  BY <1>3, SessionMapsTo DEF P!Next
<1>4. ASSUME NEW s \in Sessions, Data(s) \/ Exit(s) \/ StaleTick(s)
      PROVE  UNCHANGED P!vars
  <2>1. UNCHANGED <<playing, spawnFailed, heard, fails>>
    BY <1>4 DEF Data, Exit, StaleTick
  <2> QED BY <2>1 DEF Stage, P!vars
<1>5. ASSUME NEW s \in Sessions, SpawnError(s) PROVE [P!Next]_(P!vars)
  BY <1>5, SpawnErrorMapsTo DEF P!Next
<1>6. ASSUME NEW encoded \in BOOLEAN, Tick(encoded) PROVE [P!Next]_(P!vars)
  BY <1>6, LastTickMapsTo, FrameMapsTo DEF P!Next
<1>7. CASE UNCHANGED audioVars
  BY <1>7 DEF audioVars, Stage, P!vars
<1> QED BY <1>1, <1>2, <1>3, <1>4, <1>5, <1>6, <1>7 DEF AudioNext

-----------------------------------------------------------------------------

\* The variables of the player keep their types.
THEOREM TypeCorrect == PlayerAssumption => (AudioSpec => []AudioTypeOK)
<1> SUFFICES ASSUME PlayerAssumption PROVE AudioSpec => []AudioTypeOK
  OBVIOUS
<1>1. AudioInit => Inv
  BY InitInv
<1>2. Inv /\ [AudioNext]_audioVars => Inv'
  BY StepInv
<1>3. Inv => AudioTypeOK
  BY DEF Inv
<1> QED BY <1>1, <1>2, <1>3, PTL DEF AudioSpec

\* No stop, play or late event of an earlier process mixes two tracks, doubles
\* the frame loop of a session or leaves a process running (audio/player.ts:
\* every handler compares its session with the current one).
THEOREM NoTrackMixing == PlayerAssumption => (AudioSpec => []OnlyThisSession)
<1> SUFFICES ASSUME PlayerAssumption PROVE AudioSpec => []OnlyThisSession
  OBVIOUS
<1>1. AudioInit => Inv
  BY InitInv
<1>2. Inv /\ [AudioNext]_audioVars => Inv'
  BY StepInv
<1>3. Inv => OnlyThisSession
  BY DEF Inv
<1> QED BY <1>1, <1>2, <1>3, PTL DEF AudioSpec

\* The player is what the playback engine takes it for: a track is started,
\* heard, failed or ended in that order, and counts its failures once each.
THEOREM PlayerImplemented == PlayerAssumption => (AudioSpec => ImplementsPlayer)
<1> SUFFICES ASSUME PlayerAssumption PROVE AudioSpec => P!Spec
  BY DEF ImplementsPlayer
<1>1. AudioInit => Inv /\ P!Init
  BY InitInv DEF AudioInit, Stage, P!Init
<1>2. Inv /\ [AudioNext]_audioVars => Inv'
  BY StepInv
<1>3. Inv /\ [AudioNext]_audioVars => [P!Next]_(P!vars)
  BY StepMapsTo
<1> QED BY <1>1, <1>2, <1>3, PTL DEF AudioSpec, P!Spec

-----------------------------------------------------------------------------
(* How a track ends. *)

\* A track without a process had one that has exited.
EndedIsGone == playing /\ ffmpeg = NoProcess => source[session].is = "gone"

LEMMA EndedIsGoneStep ==
  ASSUME PlayerAssumption, Inv, EndedIsGone, [AudioNext]_audioVars
  PROVE  EndedIsGone'
<1>0. /\ source \in [Sessions -> Sources] /\ session \in 0 .. MaxSessions
      /\ playing => session \in Sessions
  BY DEF Inv, AudioTypeOK, Sources, States, OneAtATime
<1>1. CASE Stop \/ Refuse
  BY <1>1 DEF Stop, Refuse, Silent, EndedIsGone
<1>2. CASE ResetFailures \/ UNCHANGED audioVars
  BY <1>2 DEF ResetFailures, audioVars, EndedIsGone
<1>3. ASSUME NEW n \in 0 .. Length, NEW spawns \in BOOLEAN, Play(n, spawns)
      PROVE  EndedIsGone'
  BY <1>0, <1>3 DEF Play, EndSession, NextSession, NoProcess, EndedIsGone
<1>4. ASSUME NEW s \in Sessions, Data(s) PROVE EndedIsGone'
  <2>1. \A t \in Sessions : source'[t].is = source[t].is
    BY <1>0, <1>4 DEF Data, Sources
  <2> QED  BY <1>0, <1>4, <2>1 DEF Data, EndedIsGone
<1>5. ASSUME NEW s \in Sessions, Exit(s) PROVE EndedIsGone'
  <2>1. /\ source' = [source EXCEPT ![s] = [source[s] EXCEPT !.is = "gone"]]
        /\ UNCHANGED <<session, playing>>
    BY <1>0, <1>5 DEF Exit
  <2>2. CASE s = session
    BY <1>0, <2>1, <2>2 DEF Sources, EndedIsGone
  <2>3. CASE s # session
    BY <1>0, <1>5, <2>1, <2>3 DEF Exit, Forgets, OfThisSession, EndedIsGone
  <2> QED  BY <2>2, <2>3
<1>6. ASSUME NEW s \in Sessions, SpawnError(s) PROVE EndedIsGone'
  BY <1>0, <1>6 DEF SpawnError, EndedIsGone
<1>7. ASSUME NEW s \in Sessions, StaleTick(s) PROVE EndedIsGone'
  BY <1>7 DEF StaleTick, EndedIsGone
<1>8. ASSUME NEW encoded \in BOOLEAN, Tick(encoded) PROVE EndedIsGone'
  BY <1>8 DEF Tick, EndedIsGone
<1> QED  BY <1>1, <1>2, <1>3, <1>4, <1>5, <1>6, <1>7, <1>8 DEF AudioNext

\* The loop only stops with nothing left to send, after the process has gone
\* or the loop has starved for long enough.
LEMMA LastTick ==
  ASSUME PlayerAssumption, Inv, EndedIsGone, NEW encoded \in BOOLEAN, Tick(encoded),
         playing, Stalled \/ Exhausted
  PROVE  /\ Len(buffer) <= 1
         /\ source[session].is = "gone" \/ empties + 1 >= NearEndTicks
<1>1. /\ NearEndTicks \in Nat \ {0} /\ MidTrackTicks \in Nat /\ NearEndTicks <= MidTrackTicks
      /\ empties \in 0 .. MidTrackTicks
  BY DEF PlayerAssumption, Inv, AudioTypeOK
<1>2. Stalled => Starved /\ empties + 1 >= NearEndTicks
  <2>1. Stalled => Empties >= NearEndTicks
    BY <1>1 DEF Stalled, Empties
  <2> QED  BY <1>1, <2>1 DEF Empties
<1>3. Rest = <<>>
  BY <1>2 DEF Starved, Exhausted
<1>4. Len(buffer) <= 1
  <2>1. CASE buffer = <<>>
    BY <2>1
  <2>2. CASE buffer # <<>>
    <3>1. buffer \in Seq(Sessions) /\ Tail(buffer) = <<>>
      BY <1>3, <2>2 DEF Rest, Inv, AudioTypeOK
    <3>2. Len(Tail(buffer)) = Len(buffer) - 1
      BY <2>2, <3>1, HeadTailProperties
    <3> QED  BY <3>1, <3>2
  <2> QED  BY <2>1, <2>2
<1> QED  BY <1>2, <1>4 DEF Exhausted, EndedIsGone

\* A track that is not replaced ends when all that was read of it has been sent
\* and its own process is gone, or has starved the loop: however many earlier
\* processes still report, exit or are read.
THEOREM TracksEndOnTheirOwn == PlayerAssumption => (AudioSpec => EndsOnItsOwn)
<1> SUFFICES ASSUME PlayerAssumption PROVE AudioSpec => EndsOnItsOwn
  OBVIOUS
<1>1. AudioInit => Inv /\ EndedIsGone
  BY InitInv DEF AudioInit, EndedIsGone
<1>2. Inv /\ EndedIsGone /\ [AudioNext]_audioVars => Inv' /\ EndedIsGone'
  BY StepInv, EndedIsGoneStep
<1>3. Inv /\ EndedIsGone /\ [AudioNext]_audioVars =>
        [playing /\ ~playing' /\ session' = session =>
           /\ Len(buffer) <= 1
           /\ source[session].is = "gone" \/ empties + 1 >= NearEndTicks]_audioVars
  <2> SUFFICES ASSUME Inv, EndedIsGone, AudioNext, playing, ~playing', session' = session
               PROVE  /\ Len(buffer) <= 1
                      /\ source[session].is = "gone" \/ empties + 1 >= NearEndTicks
    BY DEF audioVars
  <2>1. ~Stop /\ ~Refuse /\ ~ResetFailures
    <3>1. session + 1 # session
      BY DEF Inv, AudioTypeOK
    <3> QED  BY <3>1 DEF Stop, Refuse, ResetFailures, EndSession, NextSession
  <2>2. \A n \in 0 .. Length, spawns \in BOOLEAN : ~Play(n, spawns)
    BY DEF Play
  <2>3. \A s \in Sessions : ~Data(s) /\ ~Exit(s) /\ ~SpawnError(s) /\ ~StaleTick(s)
    BY DEF Data, Exit, SpawnError, StaleTick
  <2>4. PICK encoded \in BOOLEAN : Tick(encoded)
    BY <2>1, <2>2, <2>3 DEF AudioNext
  <2>5. Stalled \/ Exhausted
    BY <2>4 DEF Tick
  <2> QED  BY <2>4, <2>5, LastTick
<1> QED  BY <1>1, <1>2, <1>3, PTL DEF AudioSpec, EndsOnItsOwn
==============================================================================
