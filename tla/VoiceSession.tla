---------------------------- MODULE VoiceSession -----------------------------
(***************************************************************************)
(* The voice loop of one bot: a wake word arms a speaker and ducks the     *)
(* music, the transcript is routed and executed, and the reply is spoken   *)
(* on the player that was playing the music.                               *)
(*                                                                         *)
(* Three things are handed from one handler to a later one and nothing but *)
(* the order of events keeps them straight: the music a duck or a reply    *)
(* interrupted (captureDuck, savedMusic), the order to ignore the end of   *)
(* the "Paused" that is about to be spoken (suppressNextTrackAdvance), and *)
(* the turn a speaker's latest transcript belongs to (voiceTurnGen).       *)
(*                                                                         *)
(* Audio, speech recognition and synthesis are external: a chunk of audio  *)
(* is one of the results the recogniser can return for it.  The play queue *)
(* and the engine are reduced to the current song, the operator's pause    *)
(* and what is on the player; a track boundary is a playNext (radio off).  *)
(***************************************************************************)
EXTENDS Integers, Sequences, FiniteSets

CONSTANTS
    Songs, NoSong,
    Speakers, Nobody,
    Turns,             \* bound: transcripts being worked on at a time
    MaxGen,            \* bound: generations; a turn of the last is not overtaken
    MaxResuming,       \* bound: no reply starts while that many songs resolve
    TextWake           \* voice.textWakeFallback: a recogniser without KWS

ASSUME VoiceAssumption ==
    /\ NoSong \notin Songs
    /\ "speech" \notin Songs \cup {NoSong}
    /\ Nobody \notin Speakers
    /\ MaxResuming \in Nat /\ MaxGen \in Nat
    /\ TextWake \in BOOLEAN

VARIABLES
    current, paused,   \* the queue's current song, the operator's pause
    air,               \* what is on the player: a song, "speech" or NoSong
    ducked,            \* the player plays at the volume of a duck
    connected,
    saved,             \* savedMusic's song
    suppress,          \* suppressNextTrackAdvance, "stale" past its TTL
    capture,           \* captureDuck's song
    watchdog,          \* duckWatchdog is set
    armed,             \* the speakers whose window is open
    speech, talking,   \* the speech queue; whether its head is on
    turns, latest,     \* the turns in progress; voiceTurnGen, 0 for no entry
    resuming           \* songs whose URL tryResumeMusic awaits

player == <<current, paused, air>>
duck == <<ducked, capture, watchdog>>
handoff == <<saved, suppress>>
pipeline == <<turns, latest>>
vars == <<player, connected, duck, handoff, armed, speech, talking, pipeline,
          resuming>>

Starts == {"playing"}                           \* isPlaybackStartReply
Clears == {"paused", "stopped"}                 \* voiceReplyClearsSavedMusic
Controls == Clears \cup {"resumed", "skipped"}  \* isPlaybackControlReply
Replies == Starts \cup Controls \cup {"answer", "none"}

\* What finishCaptureDuck tells apart of a reply.
Outcome(reply) == CASE reply \in Clears -> "parked"
                    [] reply \in (Starts \cup Controls) \ Clears -> "playback"
                    [] OTHER -> "other"

\* A turn goes from routing to executing to finishing; before the last two it
\* may be voicing (the text is being synthesized) and speaking (the audio is
\* in the speech queue) what `then` is to follow.
Stages == {"free", "routing", "voicing", "speaking", "executing", "finishing"}
Turn(s, gen, stage, then, outcome) ==
    [by |-> s, gen |-> gen, stage |-> stage, then |-> then, outcome |-> outcome]
NoTurn == Turn(Nobody, 0, "free", "finishing", "other")

\* The turn is the one its speaker's entry of voiceTurnGen counts.
Latest(t) == turns[t].gen = latest[turns[t].by]

\* The continuations of a finished reply run before anything else happens.
Quiet == \A t \in Turns : turns[t].stage # "finishing"

MusicPlayingAny == air # NoSong     \* mutation: the bot's own voice counts
MusicPlaying == air # NoSong /\ ~talking

Init ==
    /\ current \in Songs \cup {NoSong} /\ air = current /\ paused = FALSE
    /\ ducked = FALSE /\ capture = NoSong /\ watchdog = FALSE
    /\ connected = TRUE
    /\ saved = NoSong /\ suppress = "off"
    /\ armed = {}
    /\ speech = <<>> /\ talking = FALSE
    /\ turns = [t \in Turns |-> NoTurn] /\ latest = [s \in Speakers |-> 0]
    /\ resuming = {}

-----------------------------------------------------------------------------
(* The player, as the engine's commands leave it.  None of them ends the   *)
(* speech that waits for an event of the player; but play() and stop() of  *)
(* the player lift the duck, which the session still holds for its own.    *)

OnAir(s) == air' = (IF connected THEN s ELSE NoSong) /\ ducked' = FALSE
Play(s) == current' = s /\ OnAir(s) /\ paused' = FALSE

\* playNext: the queue's next song, or the end of the queue.
Advance == \E n \in Songs \cup {NoSong} : Play(n)

StopAll == current' = NoSong /\ air' = NoSong /\ ducked' = FALSE /\ paused' = FALSE

\* The player is stopped, unless it was idle.
Pause ==
    /\ current # NoSong /\ (air # NoSong \/ ~paused)
    /\ air' = NoSong /\ ducked' = (ducked /\ air = NoSong)
    /\ paused' = TRUE
    /\ UNCHANGED current

Resume ==
    /\ connected /\ current # NoSong /\ (paused \/ air = NoSong)
    /\ OnAir(current) /\ paused' = FALSE
    /\ UNCHANGED current

\* A command with the effect its reply names; the reply of !now reads as if a
\* song had been started.
Executed(reply) ==
    \/ reply = "playing" /\ \E s \in Songs : Play(s)
    \/ reply = "playing" /\ current # NoSong /\ UNCHANGED <<player, ducked>>
    \/ reply = "paused" /\ Pause
    \/ reply = "stopped" /\ StopAll
    \/ reply = "resumed" /\ Resume
    \/ reply = "skipped" /\ Advance
    \/ reply \in {"answer", "none"} /\ UNCHANGED player

\* Somebody types the command in chat or presses the button.
ChatCommand ==
    /\ connected
    /\ \E reply \in Starts \cup Controls : Executed(reply)
    /\ UNCHANGED <<connected, capture, watchdog, handoff, armed, speech,
                   talking, pipeline, resuming>>

-----------------------------------------------------------------------------
(* The duck and the windows.                                               *)

EnsureDucked ==
    IF MusicPlaying /\ current # NoSong
      THEN /\ ducked' = TRUE
           /\ capture' = IF capture = NoSong THEN current ELSE capture
           /\ watchdog' = (watchdog \/ capture = NoSong)
      ELSE UNCHANGED duck

Release == ducked' = FALSE /\ capture' = NoSong /\ watchdog' = FALSE

Wake(s) ==
    /\ connected
    /\ EnsureDucked
    /\ armed' = armed \cup {s}
    /\ UNCHANGED <<player, connected, handoff, speech, talking, pipeline,
                   resuming>>

\* Speech energy ducks the music before the recogniser has heard a word.
TextWakeDuck(s) ==
    /\ connected /\ TextWake /\ s \notin armed /\ capture = NoSong
    /\ EnsureDucked
    /\ UNCHANGED <<player, connected, handoff, armed, speech, talking,
                   pipeline, resuming>>

ArmExpires(s) ==
    /\ s \in armed
    /\ armed' = armed \ {s}
    /\ Release
    /\ UNCHANGED <<player, connected, handoff, speech, talking, pipeline,
                   resuming>>

WatchdogFires ==
    /\ watchdog
    /\ IF capture # NoSong /\ armed = {}
         THEN Release
         ELSE watchdog' = FALSE /\ UNCHANGED <<ducked, capture>>
    /\ UNCHANGED <<player, connected, handoff, armed, speech, talking,
                   pipeline, resuming>>

\* The recogniser failed, or the capture ended without a final transcript.
CaptureEnds ==
    /\ capture # NoSong /\ armed = {}
    /\ Release
    /\ UNCHANGED <<player, connected, handoff, armed, speech, talking,
                   pipeline, resuming>>

\* The recogniser says that it listens to s for commands no longer.
CommandWindowCloses(s) ==
    /\ s \notin armed
    /\ Release
    /\ UNCHANGED <<player, connected, handoff, armed, speech, talking,
                   pipeline, resuming>>

LeavesDucked(s) ==     \* mutation: the window closes, the duck stays
    /\ connected
    /\ armed' = armed \ {s}
    /\ latest' = [latest EXCEPT ![s] = 0]
    /\ UNCHANGED <<player, connected, duck, handoff, speech, talking, turns,
                   resuming>>

\* The roster no longer lists s.  The count of its turns goes, and an old turn
\* of its may be taken for the latest when it counts that far again.
Leaves(s) ==
    /\ connected
    /\ IF s \in armed THEN Release ELSE UNCHANGED duck
    /\ armed' = armed \ {s}
    /\ latest' = [latest EXCEPT ![s] = 0]
    /\ UNCHANGED <<player, connected, handoff, speech, talking, turns,
                   resuming>>

-----------------------------------------------------------------------------
(* A turn.                                                                 *)

Stage(t, stage) == turns' = [turns EXCEPT ![t].stage = stage]
Forget(t) == turns' = [turns EXCEPT ![t] = NoTurn]

\* The next generation of s.  It begins anew, as far as a turn can tell, when
\* none of s's turns is in progress.
NextGen(s) ==
    IF \E t \in Turns : turns[t].by = s THEN latest[s] + 1 ELSE 1

Final(s, t) ==
    /\ connected /\ turns[t] = NoTurn
    /\ NextGen(s) <= MaxGen /\ \A u \in Turns : turns[u].by = s => turns[u].gen < MaxGen
    /\ turns' = [turns EXCEPT ![t] = Turn(s, NextGen(s), "routing", "finishing", "other")]
    /\ latest' = [latest EXCEPT ![s] = NextGen(s)]
    /\ watchdog' = FALSE
    /\ UNCHANGED <<player, connected, ducked, capture, handoff, armed, speech,
                   talking, resuming>>

\* Not in the command window: nothing is routed.
Ignored(t) ==
    /\ turns[t].stage = "routing" /\ turns[t].by \notin armed
    /\ Stage(t, "finishing")
    /\ UNCHANGED <<player, connected, duck, handoff, armed, speech, talking,
                   latest, resuming>>

\* The wake word alone, or noise after it: the window opens again.
HeldForCommand(t) ==
    /\ turns[t].stage = "routing"
    /\ armed' = armed \cup {turns[t].by}
    /\ EnsureDucked
    /\ Forget(t)
    /\ UNCHANGED <<player, connected, handoff, speech, talking, latest,
                   resuming>>

\* "On it." before a search, or "Still working on that." and nothing else.
InstantPhrase(t) ==
    /\ turns[t].stage = "routing"
    /\ \E then \in {"executing", "finishing"} :
         turns' = [turns EXCEPT ![t].stage = "voicing", ![t].then = then]
    /\ UNCHANGED <<player, connected, duck, handoff, armed, speech, talking,
                   latest, resuming>>

\* The synthesized audio is there: it waits for its place on the player.
Voiced(t) ==
    /\ turns[t].stage = "voicing" /\ connected
    /\ Stage(t, "speaking")
    /\ speech' = Append(speech, t)
    /\ UNCHANGED <<player, connected, duck, handoff, armed, talking, latest,
                   resuming>>

\* The synthesis failed, or there is no channel to speak to.
Unvoiced(t) ==
    /\ turns[t].stage = "voicing"
    /\ Stage(t, turns[t].then)
    /\ UNCHANGED <<player, connected, duck, handoff, armed, speech, talking,
                   latest, resuming>>

\* preparePlaybackControlReply.
Prepare(reply) ==
    CASE reply \in Clears -> saved' = NoSong /\ suppress' = "on"
      [] reply \in Controls \ Clears -> suppress' = "off" /\ UNCHANGED saved
      [] OTHER -> UNCHANGED handoff

\* The command runs; its reply is to be spoken, or is too long for that.
Execute(t, reply) ==
    /\ turns[t].stage \in {"routing", "executing"}
    /\ Executed(reply)
    /\ IF reply \in Starts \cup Controls
         THEN armed' = armed \ {turns[t].by} /\ UNCHANGED <<capture, watchdog>>
         ELSE IF reply = "answer"
         THEN armed' = armed \cup {turns[t].by}
              /\ EnsureDucked
         ELSE UNCHANGED <<armed, duck>>
    /\ Prepare(reply)
    /\ \E stage \in {"finishing"} \cup IF reply = "none" THEN {} ELSE {"voicing"} :
         turns' = [turns EXCEPT ![t] = Turn(@.by, @.gen, stage, "finishing", Outcome(reply))]
    /\ UNCHANGED <<connected, speech, talking, latest, resuming>>

\* finishCaptureDuck, after the reply has been spoken.
FinishCaptureDuck(s, outcome) ==
    IF outcome = "other"
      THEN /\ CASE capture = NoSong -> UNCHANGED duck
                [] capture # NoSong /\ saved # NoSong ->
                     capture' = NoSong /\ watchdog' = FALSE /\ UNCHANGED ducked
                [] capture # NoSong /\ saved = NoSong /\ s \in armed -> UNCHANGED duck
                [] OTHER -> Release
           /\ UNCHANGED <<armed, handoff>>
      ELSE /\ armed' = armed \ {s}
           /\ Release
           /\ IF outcome = "parked"
                THEN saved' = NoSong
                     /\ suppress' \in IF suppress = "off" THEN {"on", "stale"} ELSE {suppress}
                ELSE UNCHANGED handoff

FinishTurn(t) ==
    /\ turns[t].stage = "finishing"
    /\ Forget(t)
    /\ IF Latest(t)
         THEN FinishCaptureDuck(turns[t].by, turns[t].outcome)
         ELSE UNCHANGED <<duck, handoff, armed>>
    /\ UNCHANGED <<player, connected, speech, talking, latest, resuming>>

-----------------------------------------------------------------------------
(* Speaking.                                                               *)

SettleInPlace ==     \* mutation: the chain keeps the reply that ended
    /\ talking' = FALSE
    /\ UNCHANGED speech
    /\ Stage(Head(speech), turns[Head(speech)].then)

\* The head of the queue ends: whoever awaits it goes on.
Settle ==
    /\ talking' = FALSE
    /\ speech' = Tail(speech)
    /\ Stage(Head(speech), turns[Head(speech)].then)

StartSpeech ==
    /\ speech # <<>> /\ ~talking
    /\ connected
    /\ Cardinality(resuming) < MaxResuming
    /\ talking' = TRUE
    /\ air' = "speech" /\ ducked' = FALSE
    /\ saved' = CASE suppress # "off" -> NoSong
                  [] suppress = "off" /\ capture # NoSong -> capture
                  [] suppress = "off" /\ capture = NoSong ->
                       IF current # NoSong THEN current ELSE saved
    /\ capture' = NoSong
    /\ watchdog' = (watchdog /\ capture = NoSong)
    /\ UNCHANGED <<current, paused, connected, suppress, armed, speech,
                   pipeline, resuming>>

SpeechDropped ==
    /\ speech # <<>> /\ ~talking /\ ~connected
    /\ Settle
    /\ UNCHANGED <<player, connected, duck, handoff, armed, latest, resuming>>

SpeechBegins == StartSpeech \/ SpeechDropped

SpeechFailsafeNever == FALSE     \* mutation: only the player ends a reply

\* TTS_MAX_PLAYBACK_MS: the player went on to something else.
SpeechFailsafe ==
    /\ talking
    /\ Settle
    /\ UNCHANGED <<player, connected, duck, handoff, armed, latest, resuming>>

\* tryResumeMusic up to its await; with `next` it plays another song rather
\* than none, otherwise a barge-in has stopped the player.
TryResume(next, giveUp) ==
    /\ saved' = NoSong
    /\ IF saved = current
         THEN /\ resuming' = resuming \cup {[song |-> saved, next |-> next]}
              /\ air' = NoSong /\ ducked' = (ducked /\ next)
              /\ UNCHANGED <<current, paused>>
         ELSE giveUp /\ UNCHANGED resuming

Swallows == suppress = "on"

\* The player's trackEnd: a song's or a reply's audio is over.
TrackEnd ==
    /\ air # NoSong /\ connected
    /\ suppress' = "off"
    /\ IF Swallows
         THEN /\ saved' = NoSong /\ air' = NoSong
              /\ UNCHANGED <<current, paused, ducked, resuming>>
         ELSE IF saved = NoSong THEN Advance /\ UNCHANGED <<saved, resuming>>
         ELSE TryResume(TRUE, Advance)
    /\ IF talking THEN Settle ELSE UNCHANGED <<talking, speech, turns>>
    /\ UNCHANGED <<connected, capture, watchdog, armed, latest>>

PlayerError ==
    /\ air # NoSong /\ connected
    /\ saved' = NoSong
    /\ Advance
    /\ IF talking THEN Settle ELSE UNCHANGED <<talking, speech, turns>>
    /\ UNCHANGED <<connected, suppress, capture, watchdog, armed, latest,
                   resuming>>

\* Hushed: the player is stopped.
Hush == air' = NoSong /\ ducked' = FALSE /\ UNCHANGED <<current, paused>>

\* Someone talks over the reply.
BargeIn ==
    /\ talking /\ connected
    /\ Settle
    /\ IF saved = NoSong
         THEN Hush /\ UNCHANGED <<saved, resuming>>
         ELSE TryResume(FALSE, Hush)
    /\ UNCHANGED <<connected, suppress, capture, watchdog, armed, latest>>

\* The URL of a song to resume is there, or there is none.
Resumed(r) ==
    /\ resuming' = resuming \ {r}
    /\ \/ connected /\ OnAir(r.song) /\ UNCHANGED <<current, paused>>
       \/ IF r.next THEN Advance ELSE UNCHANGED <<player, ducked>>
    /\ UNCHANGED <<connected, capture, watchdog, handoff, armed, speech,
                   talking, pipeline>>

SuppressExpires ==
    /\ suppress = "on" /\ suppress' = "stale"
    /\ UNCHANGED <<player, connected, duck, saved, armed, speech, talking,
                   pipeline, resuming>>

-----------------------------------------------------------------------------
(* The connection: the player is stopped, cleanup() forgets the rest.      *)

Disconnect ==
    /\ connected
    /\ connected' = FALSE
    /\ air' = NoSong /\ ducked' = FALSE
    /\ suppress' = "off" /\ saved' = NoSong
    /\ capture' = NoSong /\ watchdog' = FALSE
    /\ UNCHANGED <<current, paused, armed, speech, talking, pipeline, resuming>>

Connect ==
    /\ ~connected /\ connected' = TRUE
    /\ UNCHANGED <<player, duck, handoff, armed, speech, talking, pipeline,
                   resuming>>

\* The operator saves the voice settings: disable() and enable().
Reconfigure ==
    /\ Release
    /\ armed' = {}
    /\ suppress' = "off" /\ saved' = NoSong
    /\ latest' = [s \in Speakers |-> 0]
    /\ UNCHANGED <<player, connected, speech, talking, turns, resuming>>

\* What runs as the continuation of something else.
Continuation ==
    \/ \E t \in Turns : FinishTurn(t)
    \/ SpeechBegins
    \/ \E r \in resuming : Resumed(r)

Event ==
    \/ ChatCommand
    \/ \E s \in Speakers :
         Wake(s) \/ TextWakeDuck(s) \/ ArmExpires(s) \/ CommandWindowCloses(s)
         \/ Leaves(s) \/ \E t \in Turns : Final(s, t)
    \/ WatchdogFires \/ CaptureEnds
    \/ \E t \in Turns :
         Ignored(t) \/ HeldForCommand(t) \/ InstantPhrase(t) \/ Voiced(t) \/ Unvoiced(t)
         \/ \E reply \in Replies : Execute(t, reply)
    \/ SpeechFailsafe \/ TrackEnd \/ PlayerError \/ BargeIn \/ SuppressExpires
    \/ Disconnect \/ Connect \/ Reconfigure

Next == Continuation \/ (Quiet /\ Event)

Spec == Init /\ [][Next]_vars

-----------------------------------------------------------------------------

TypeOK ==
    /\ current \in Songs \cup {NoSong} /\ paused \in BOOLEAN
    /\ air \in Songs \cup {NoSong, "speech"}
    /\ ducked \in BOOLEAN /\ watchdog \in BOOLEAN /\ connected \in BOOLEAN
    /\ saved \in Songs \cup {NoSong} /\ capture \in Songs \cup {NoSong}
    /\ suppress \in {"off", "on", "stale"}
    /\ armed \subseteq Speakers
    /\ talking \in BOOLEAN /\ speech \in Seq(Turns)
    /\ turns \in [Turns -> [by : Speakers \cup {Nobody}, gen : 0 .. MaxGen, stage : Stages,
                           then : {"executing", "finishing"},
                           outcome : {"parked", "playback", "other"}]]
    /\ latest \in [Speakers -> 0 .. MaxGen]
    /\ resuming \subseteq [song : Songs, next : BOOLEAN]

\* The volume of a duck is for music that somebody will turn up again: a reply
\* is never spoken at it (ensureMusicDuckedOnWake: "heard as her dropping to a
\* mutter"), and no song is played at it once its capture is gone, unless a
\* reply has taken the song over.
DuckIsHeld ==
    /\ talking => ~ducked
    /\ ducked /\ air \in Songs => capture # NoSong \/ saved # NoSong

\* "Arming must also duck music so the follow-up is audible" (session.ts): as
\* long as a window is open the music is ducked, or what is said is dropped.
ArmedIsAudible == armed # {} /\ MusicPlaying => ducked

\* Every reply that is being spoken has its place in the queue, and nobody
\* waits for a reply that is not in it: no turn waits for ever on the chain.
WaitersAreQueued ==
    /\ \A t \in Turns : turns[t].stage = "speaking" <=> \E i \in DOMAIN speech : speech[i] = t
    /\ \A i, j \in DOMAIN speech : speech[i] = speech[j] => i = j
    /\ talking => speech # <<>>

\* Somebody is bound to lift the duck: a window that runs out, the watchdog,
\* or the end of a turn that is its speaker's latest.
LiveTurn(t) == turns[t] # NoTurn /\ Latest(t)
Held == capture # NoSong => armed # {} \/ watchdog \/ \E t \in Turns : LiveTurn(t)

\* The duck loses all of them in one way only: a turn that is no longer its
\* speaker's latest (a later transcript, or the speaker left) still runs; it
\* disarms the speaker and then ends as a stale turn, without lifting the duck.
OnlyStaleTurnsStrand ==
    [][Held /\ ~Held' =>
         \E t \in Turns : turns[t] # NoTurn /\ latest'[turns[t].by] # turns[t].gen]_vars

\* The end of a spoken reply gives the player back to the song it interrupted;
\* it does not move the queue to another song (playback-reply.ts says that the
\* music restarts after the spoken ack of a skip).
ReplyKeepsCurrent ==
    [][TrackEnd /\ air = "speech" /\ saved # NoSong /\ current # NoSong => current' = current]_vars

-----------------------------------------------------------------------------
(* The failsafe timer fires unless the reply ended before, and what has    *)
(* been promised runs; nothing makes the audio of a reply end by itself.   *)

Fairness ==
    /\ WF_vars(\E t \in Turns : FinishTurn(t))
    /\ WF_vars(SpeechBegins \/ \E r \in resuming : Resumed(r))
    /\ SF_vars(Quiet /\ SpeechFailsafe)

FairSpec == Spec /\ Fairness

\* A reply in the speech queue is spoken or dropped in the end, whatever other
\* commands do to the player in the meantime.
RepliesSettle == \A t \in Turns : turns[t].stage = "speaking" ~> turns[t].stage # "speaking"
=============================================================================
