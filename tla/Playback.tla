------------------------------ MODULE Playback -------------------------------
(***************************************************************************)
(* The playback engine between the play queue and the audio player: chat   *)
(* and dashboard commands, the ends and failures of tracks, and the serial *)
(* chain on which every song waits until its URL is resolved.              *)
(*                                                                         *)
(* A command changes the queue at once and then awaits its place on the    *)
(* chain; by the time its song starts, other commands may have stopped,    *)
(* paused, cleared or replaced everything.  The head of `jobs` is the song *)
(* being resolved.  When it has started or failed, whoever awaits it goes  *)
(* on before anything else happens (the promise continuations run without  *)
(* a turn of the event loop in between).                                   *)
(*                                                                         *)
(* The engine is modelled from the moment its instance is connected, with  *)
(* radio off (a track boundary is a playNext), without voice; a search     *)
(* that precedes a command is over when the command's action happens.      *)
(***************************************************************************)
EXTENDS Integers, SequencesExt

CONSTANTS
    Songs, NoSong,
    MaxRetries,       \* further songs playNext and !prev try, 3 in the code
    MaxFailures,      \* MAX_CONSECUTIVE_FAILURES, 3 in the code
    MaxJobs           \* bound: no command while that many songs wait

ASSUME PlaybackAssumption ==
    /\ NoSong \notin Songs
    /\ MaxRetries \in Nat
    /\ MaxFailures \in Nat \ {0}
    /\ MaxJobs \in Nat

VARIABLES
    line, now,        \* the play queue
    air,              \* the player: its song, how far it got, and whether !test put it on
    fails,            \* consecutiveFailures
    jobs,             \* playResolveSerial
    advancing,        \* isAdvancing
    paused,           \* userPause: the checkpoint's song and whose position it holds
    connected

vars == <<line, now, air, fails, jobs, advancing, paused, connected>>

Queue == INSTANCE QueueView

\* A player that is not idle is about to play, plays, or its ffmpeg failed.
Stages == {"starting", "sounding", "dead"}
Silence == [song |-> NoSong, stage |-> "idle", test |-> FALSE]

\* At NoSong, a resume starts from the beginning.
NotPaused == [song |-> NoSong, at |-> NoSong]

\* Who awaits a job, the retries it has left, and the position it seeks to.
Askers == {"user", "test", "prev", "resume", "playNext"}
Ask(s, by, left, at) == [song |-> s, by |-> by, left |-> left, at |-> at]
UserAsk(s) == Ask(s, "user", 0, NoSong)

Idle == air = Silence

Init ==
    /\ Queue!Init
    /\ air = Silence
    /\ fails = 0
    /\ jobs = <<>>
    /\ advancing = FALSE
    /\ paused = NotPaused
    /\ connected = TRUE

-----------------------------------------------------------------------------
(* playNext up to its first wait, with the player in state a and q waiting. *)

LockedNever == ~connected     \* mutation: isAdvancing is not looked at
Locked == advancing \/ ~connected

PlayNext(q, a) ==
    IF Locked
      THEN jobs' = q /\ air' = a /\ UNCHANGED <<line, now, advancing>>
      ELSE \/ \E s \in Songs :
                /\ Queue!Go(s)
                /\ jobs' = Append(q, Ask(s, "playNext", MaxRetries, NoSong))
                /\ advancing' = TRUE
                /\ air' = a
           \/ /\ jobs' = q        \* the queue has no next song: stop
              /\ air' = Silence
              /\ UNCHANGED <<line, now, advancing>>

-----------------------------------------------------------------------------
(* Commands *)

Room == Len(jobs) < MaxJobs

\* !play, !playlist, !album: the queue is replaced and started from its first
\* song.  Only the first of them forgets the failures.
PlayNow(s) ==
    /\ Room
    /\ line' \in {<<s>>} \cup {<<s, t>> : t \in Songs \ {s}}
    /\ now' = s
    /\ fails' \in {0, fails}
    /\ jobs' = Append(jobs, UserAsk(s))
    /\ UNCHANGED <<air, advancing, paused, connected>>

\* !test: the demo replaces the queue.  Once for a copy in the library, and
\* again for the stream when that copy does not play.
Test(s) ==
    /\ Room
    /\ line' = <<s>>
    /\ now' = s
    /\ fails' = 0
    /\ jobs' = Append(jobs, Ask(s, "test", 0, NoSong))
    /\ UNCHANGED <<air, advancing, paused, connected>>

\* !add, !playnext: start the song when nothing is on air.
Add(s) ==
    /\ Room
    /\ Queue!Insert(s)
    /\ IF Idle
         THEN now' = s /\ fails' = 0 /\ jobs' = Append(jobs, UserAsk(s))
         ELSE UNCHANGED <<now, fails, jobs>>
    /\ UNCHANGED <<air, advancing, paused, connected>>

\* !jump to a queued song.
Jump(s) ==
    /\ Room
    /\ Queue!Go(s)
    /\ fails' = 0
    /\ jobs' = Append(jobs, UserAsk(s))
    /\ paused' = NotPaused
    /\ UNCHANGED <<air, advancing, connected>>

\* !jump to a song that a search found.  The checkpoint is cleared before the
\* search, during which the bot may be paused again.
JumpNew(s) ==
    /\ Room
    /\ Queue!Insert(s)
    /\ now' = s
    /\ fails' = 0
    /\ jobs' = Append(jobs, UserAsk(s))
    /\ paused' \in {NotPaused, paused}
    /\ UNCHANGED <<air, advancing, connected>>

\* A row picked in the dashboard: like a jump, but the player stops at once.
Pick(s) ==
    /\ Room
    /\ Queue!Go(s)
    /\ air' = Silence
    /\ fails' = 0
    /\ jobs' = Append(jobs, UserAsk(s))
    /\ UNCHANGED <<advancing, paused, connected>>

Prev(s) ==
    /\ Room
    /\ Queue!Go(s)
    /\ jobs' = Append(jobs, Ask(s, "prev", MaxRetries, NoSong))
    /\ UNCHANGED <<air, fails, advancing, paused, connected>>

Skip ==
    /\ Room
    /\ PlayNext(jobs, air)
    /\ paused' = NotPaused
    /\ UNCHANGED <<fails, connected>>

\* The checkpoint is the queue's current song at the player's position.
Pause ==
    /\ now # NoSong
    /\ ~Idle \/ paused = NotPaused
    /\ paused' = [song |-> now, at |-> air.song]
    /\ air' = Silence
    /\ UNCHANGED <<line, now, fails, jobs, advancing, connected>>

Resume ==
    /\ Room
    /\ Idle \/ paused # NotPaused
    /\ IF now = NoSong
         THEN paused' = NotPaused /\ UNCHANGED jobs
         ELSE /\ jobs' = Append(jobs, Ask(now, "resume", 0, paused.at))
              /\ UNCHANGED paused
    /\ UNCHANGED <<line, now, air, fails, advancing, connected>>

\* !stop, and clearQueueAndStop.
Stop ==
    /\ Queue!Empty
    /\ air' = Silence
    /\ paused' = NotPaused
    /\ UNCHANGED <<fails, jobs, advancing, connected>>

\* !clear keeps the checkpoint.
Clear ==
    /\ Queue!Empty
    /\ air' = Silence
    /\ UNCHANGED <<fails, jobs, advancing, paused, connected>>

RemoveSong(s) ==
    /\ Queue!Dequeue(s)
    /\ UNCHANGED <<air, fails, jobs, advancing, paused, connected>>

-----------------------------------------------------------------------------
(* The chain *)

Job == Head(jobs)

\* What starting the job's song does to the checkpoint: an intentional play
\* clears it at once, a resume when it has started.  !test leaves it, for the
\* engine knows a resume by the play history it skips, and so does !test.
CheckpointKept == paused     \* mutation: a start leaves the checkpoint
CheckpointLeft == IF Job.by = "test" THEN paused ELSE NotPaused

\* What the one who awaits the job still holds when it has started.
StillAdvancing == advancing /\ Job.by # "playNext"

AcceptedUnchecked == fails < MaxFailures     \* mutation: the connection is not looked at again
Accepted == connected /\ fails < MaxFailures

\* The URL is resolved and the player accepts it.
JobStarts ==
    /\ jobs # <<>>
    /\ Accepted
    /\ air' = [song |-> Job.song, stage |-> "starting", test |-> Job.by = "test"]
    /\ paused' = CheckpointLeft
    /\ jobs' = Tail(jobs)
    /\ advancing' = StillAdvancing
    /\ UNCHANGED <<line, now, fails, connected>>

\* After too many failures the player refuses: from within play() it emits an
\* error, whose handler calls playNext - in vain when a playNext started the
\* song, which counts as started.
JobRefused ==
    /\ jobs # <<>>
    /\ connected
    /\ fails = MaxFailures
    /\ paused' = CheckpointLeft
    /\ IF Job.by = "playNext"
         THEN /\ jobs' = Tail(jobs)
              /\ air' = Silence
              /\ advancing' = FALSE
              /\ UNCHANGED <<line, now>>
         ELSE PlayNext(Tail(jobs), Silence)
    /\ UNCHANGED <<fails, connected>>

RetryUncounted(by) ==     \* mutation: the retries are not counted
    /\ Job.left > 0
    /\ \E s \in Songs :
         /\ Queue!Go(s)
         /\ jobs' = Append(Tail(jobs), Ask(s, by, Job.left, NoSong))
    /\ UNCHANGED <<air, advancing>>

Retry(by) ==
    /\ Job.left > 0
    /\ \E s \in Songs :
         /\ Queue!Go(s)
         /\ jobs' = Append(Tail(jobs), Ask(s, by, Job.left - 1, NoSong))
    /\ UNCHANGED <<air, advancing>>

\* No URL, a blocked or unsafe one, or no connection: the job has failed.  A
\* playNext and a !prev go on with another song behind the waiting jobs, as
\* long as there is one; a playNext that gives up stops the player; a library
\* copy of the demo is taken out of the queue with whatever else is there.
JobFails ==
    /\ jobs # <<>>
    /\ \/ Job.by = "prev" /\ Retry("prev")
       \/ /\ Job.by # "playNext"
          /\ jobs' = Tail(jobs)
          /\ UNCHANGED <<line, now, air, advancing>>
       \/ /\ Job.by = "test"
          /\ jobs' = Tail(jobs)
          /\ Queue!Empty
          /\ UNCHANGED <<air, advancing>>
       \/ Job.by = "playNext" /\ connected /\ Retry("playNext")
       \/ /\ Job.by = "playNext"
          /\ jobs' = Tail(jobs)
          /\ air' = Silence
          /\ advancing' = FALSE
          /\ UNCHANGED <<line, now>>
    /\ UNCHANGED <<fails, paused, connected>>

-----------------------------------------------------------------------------
(* The player and the connection *)

\* One second of audio has been sent.
Sounds ==
    /\ air.stage = "starting"
    /\ air' = [air EXCEPT !.stage = "sounding"]
    /\ fails' = 0
    /\ UNCHANGED <<line, now, jobs, advancing, paused, connected>>

\* ffmpeg could not be started; the session is dead until it is replaced or
\* the stall detection ends it.
SpawnFails ==
    /\ air.stage = "starting"
    /\ fails' = fails + 1
    /\ PlayNext(jobs, [air EXCEPT !.stage = "dead"])
    /\ UNCHANGED <<paused, connected>>

\* The track is over, or has stalled.
TrackEnds ==
    /\ ~Idle
    /\ fails' = 0
    /\ PlayNext(jobs, Silence)
    /\ UNCHANGED <<paused, connected>>

Disconnect ==
    /\ connected
    /\ connected' = FALSE
    /\ air' = Silence
    /\ UNCHANGED <<line, now, fails, jobs, advancing, paused>>

Next ==
    \/ \E s \in Songs :
         \/ PlayNow(s) \/ Test(s) \/ Add(s) \/ Jump(s) \/ JumpNew(s) \/ Pick(s) \/ Prev(s)
         \/ RemoveSong(s)
    \/ Skip \/ Pause \/ Resume \/ Stop \/ Clear
    \/ JobStarts \/ JobRefused \/ JobFails
    \/ Sounds \/ SpawnFails \/ TrackEnds
    \/ Disconnect

\* Resolving a URL ends: every step of it has a timeout.
Spec ==
    /\ Init
    /\ [][Next]_vars
    /\ WF_vars(JobStarts \/ JobRefused \/ JobFails)

-----------------------------------------------------------------------------
(* Properties *)

JobRecords ==
    [song : Songs, by : Askers, left : 0 .. MaxRetries, at : Songs \cup {NoSong}]

\* In particular, queue.current()! never was null: every job has a song.
TypeOK ==
    /\ line \in Seq(Songs)
    /\ now = NoSong \/ Queue!Queued(now)
    /\ air \in [song : Songs, stage : Stages, test : BOOLEAN] \cup {Silence}
    /\ fails \in 0 .. MaxFailures
    /\ jobs \in Seq(JobRecords)
    /\ advancing \in BOOLEAN
    /\ paused \in [song : Songs, at : Songs \cup {NoSong}] \cup {NotPaused}
    /\ connected \in BOOLEAN

\* At most one playNext is under way, and the flag is set exactly while its
\* song is on the chain: it neither runs twice nor blocks the next advance.
SingleAdvance ==
    /\ advancing <=> \E k \in DOMAIN jobs : jobs[k].by = "playNext"
    /\ \A j, k \in DOMAIN jobs :
         jobs[j].by = "playNext" /\ jobs[k].by = "playNext" => j = k

\* The checkpoint keeps the radio from programming a song until somebody
\* resumes.  It is set only while nothing is on air or under the demo: whatever
\* else starts clears it, however many commands, ends and failures lie between
\* the pause and a song that was resolved across it.
PauseEndsWithMusic == paused # NotPaused => Idle \/ air.test

\* A song that was being resolved when the connection was lost stays off air.
SilentWhenDisconnected == ~connected => Idle

\* Every advance comes to an end, although its retries queue up behind
\* whatever other commands are put on the chain.
AdvanceEnds == advancing ~> ~advancing

=============================================================================
