# Moneypenny: specifications and proofs

Moneypenny is a TeamSpeak bot: it plays music from several providers into a
voice channel, runs a radio station on the same queue, understands chat and
voice commands, and serves a dashboard. The program is TypeScript
(`bot/src`), single-threaded, and nearly everything difficult about it comes
from `await`: a handler reads some state, waits for a URL, a connection or an
answer, and goes on in a world that other handlers have changed.

This directory models the parts where that matters most in TLA+, checks them
with TLC, and proves the main safety properties with TLAPS.

## 1. Inventory

Paths are relative to `bot/src` unless they begin with `bot/`. The last column
names the modules; a dash means the part is not modelled (section 6).

| Component | Code | State it keeps | Operations | Modules |
|---|---|---|---|---|
| Play queue | `audio/queue.ts` | array, cursor, mode, shuffle bag, back stack, forward stack | add, addMany, addNext, remove, clear, play, playAt, next, prev, setMode | PlayQueue, PlayQueueListener, EntryQueue, QueueView |
| Playback engine | `bot/playback/engine.ts`, `bot/commands/executor.ts`, `web/api/player.ts` | `playResolveSerial` (a promise chain), `isAdvancing`, `userPause`, votes | play, add, playnext, test, jump, prev, skip, pause, resume, stop, clear, remove, playNext | Playback, PlaybackListener |
| Audio player | `audio/player.ts` | session, ffmpeg process, PCM buffer, back-pressure, failure and stall counters | play, stop, seek, resetFailures; events of the processes, frame loop | AudioPlayer, Player |
| Bot manager | `bot/manager.ts` | map id to instance, the database's rows | create, start, stop, remove, update, load saved bots | Reconnect, Presence |
| Reconnect scheduler | `bot/reconnect-scheduler.ts` | timers, in-flight set, generations, attempts | schedule, cancel, reset, run | Reconnect |
| Bot instance | `bot/instance.ts` | `connected`, `disconnectEmitted`, `localDisconnect`, its sub-components | connect, disconnect, the wiring of polls and events | Reconnect, ChannelPresence, SessionRoles |
| TeamSpeak client | `bot/packages/ts6-client/src/client.ts` | library client, detected protocol | connect, disconnect, client lists, commands, voice | Reconnect, ChannelPresence |
| Watchdog | `watchdog.ts` | a tick at a time | tick | Reconnect |
| Event bindings | `bot/lifecycle/event-bindings.ts` | none | trackEnd, error, disconnected, chat, membership | Reconnect, Playback, VoiceSession |
| Idle poller | `bot/lifecycle/idle-poller.ts` | poll chain, idle timer | poll, arm, cancel, fire | ChannelPresence |
| Channel presence, auto-follow | `bot/lifecycle/auto-follow.ts`, `ts6-client/src/channel-presence.ts` | membership epoch, cooldown, cached AFK channel | recount, follow | ChannelPresence |
| Session roles | `bot/lifecycle/session-roles.ts` | empty-server clock, clear in flight | poll, clear by the clock or a moderator | SessionRoles |
| TeamSpeak profile | `bot/profile.ts` | generation, denied features, transfers | song change, custom avatar, connect | Profile |
| Radio director | `radio/director.ts`, `clock.ts`, `floor.ts` | pending bumper, cue, dead-air timer, empty-since | onTrackEnd, onPoll, cue, dead air, restock | RadioDirector |
| Radio relay | `radio/relay.ts` | generation, timer | start, stop, fire | Relay |
| Icecast tee, bumpers, rotation | `radio/*` | ffmpeg process, bumper cache, play history | apply, build, pick | - |
| Voice session, pipeline | `bot/voice/session.ts`, `voice/pipeline.ts`, `voice/playback-reply.ts` | capture duck, interrupted music, suppress flag, turn generations | wake, arm, transcript, speak, barge in, resume | VoiceSession |
| Speech queue, speaker windows | `voice/speech-queue.ts`, `bot/voice/speaker-arm.ts` | chain of replies, armed speakers | enqueue, abort, arm, expire | VoiceSession |
| LLM client, router, clarification | `llm/*`, `control/*` | history, injection log, pending questions | ask, chatForIntent, evaluate | Conversation |
| Doctrine corpus | `rag/doctrine-ingest.ts`, `data/doctrine.ts` | files, registry, vector store, debounce timer | sync, upload, delete, re-index, watch | Doctrine |
| Memory palace, brain | `memory/*`, `brain/*` | rows of external services | recall, remember | - |
| File-drop ingest | `ingest/file-drop.ts`, `data/file-drop.ts` | seen-set, attempts, library | poll, read, save, record | FileDrop |
| Music providers | `music/*` | in-flight downloads, generation slot and rate | search, getSongUrl, generate, uploadSong | FileDrop (uploadSong) |
| Economy | `economy/uex.ts`, `economy/cache/*` | list in memory, row, requests in flight | get, refresh, prune | Prices |
| Rights, configuration | `rights/*`, `data/config.ts`, `web/api/bot.ts` | the configuration file and its copy in memory | start-up with migrations, edit, save | Settings |
| Web server, users, MCP server | `web/*`, `data/*`, `mcp/*` | rows, sessions, confirmation tokens | CRUD | - |
| Rust rewrite, native audio, UI, sidecars | `crates/`, `bot/packages/audio-native`, `bot/web`, `services/` | | | - |

### How they interact

* A command (chat, voice or dashboard) changes the **queue** at once and calls
  `resolveAndPlay`, which appends a job to the **engine's** promise chain. The
  job asks a provider for a URL and then calls `player.play`.
* The **player** emits `trackEnd` and `error`; the **event bindings** hand both
  to the voice session, the radio director and finally to `playNext`, which
  takes the queue's next song and awaits a job of its own.
* The **voice session** speaks on the same player. It ducks or interrupts the
  music, remembers which song that was, and gives the player back afterwards;
  a reply's `trackEnd` comes to it first.
* `disconnected` (from the **TeamSpeak client**) stops the player, and reaches
  the **manager**, which asks the **reconnect scheduler** for a retry. The
  **watchdog** and the operator call `startBot` as well; every `startBot`
  builds a new **instance** and disconnects the old one.
* The **idle poller** may disconnect the instance; it also feeds the head count
  to the radio director, auto-follow and session roles. Membership events ask
  for a recount of their own, so counts answer one another out of order.
* A change of song starts an update of the **profile**, a profile that relays a
  stream starts the **relay** in the place of the director.
* `!ask` reads the **conversation** and the **doctrine** index; the corpus is
  changed by files on disk, uploads and the settings page.

### What is hard

* *State read before an `await` and used after it*: a job on the chain may
  start after a stop, a pause, a clear or a lost connection; a count of people
  is older than the moment it is used; a song a reply interrupted may no longer
  be the current one.
* *Two actors advancing the queue*: track end, error event, skip, voice, radio.
* *Index bookkeeping*: four structures hold indices into one array that shifts.
* *Several instances of one bot* alive at a time, each in the middle of its
  `connect()`, with a timer, a run in flight, a watchdog tick and an operator
  behind them. Several ffmpegs, of which only the last counts. Several updates
  of one profile.
* *Retries* of something that meanwhile succeeded another way, or was called off.
* *Crashes* between saving a file and recording it, in the middle of writing
  the configuration, between an upgrade and the next save.
* *Liveness*: a busy flag that is never reset stops a bot, or a queue, for good.

`PROJECT.json` lists these hazards one by one at the line where they bite, with
the property that covers each, or the reason why none does yet.

### What makes each part correct

* Queue: indices never leave the array or come to name another song; the cursor
  stays on the playing song; no immediate repeat; no starvation.
* Engine: one advance at a time, and every advance ends; what starts after a
  pause clears its checkpoint; a lost connection is silent; a stop is final.
* Player: a track ends by itself only when it is over, and gets over whatever
  its process does; nothing of an earlier process is heard.
* Connection: single-flight reconnects; stop and remove are final; no session
  left on the server; a healthy connection left alone; a wanted bot comes back.
* Channel: the radio learns who is there, an empty channel is left, temporary
  roles go, the nickname is the song's.
* Radio: one restock at a time; an empty channel stops; dead air is filled
  unless paused, and a pause holds; a relay has one timer.
* Voice: no reply is spoken and no orphaned song played at a duck's volume; who
  waits for a reply gets it or learns that it was dropped; an open window hears.
* Conversation: exchanges stay whole, questions are grounded, nobody is asked
  back twice running.
* Persistent state: a recorded file is in the library, a document on disk is in
  the index, a shipped right is granted once, no older price follows a newer.

## 2. Modules

```
EntryQueue   QueueView ---------------+       Presence        Player
     ^          ^                     | INSTANCE   ^             ^
     | implements                     v            | implements  | implements
     +---- PlayQueueListener      Playback      Reconnect    AudioPlayer
                |                     |            |             |
            PlayQueue          PlaybackListener    |             |
                |                     |            |             |
        PlayQueueProofs        PlaybackProofs  ReconnectProofs  AudioPlayerProofs
         (SpliceFacts)          (SpliceFacts)

RadioDirector (a coarse player and queue)  Relay     - RadioDirectorProofs
VoiceSession  (a coarse player, queue and engine)    - VoiceSessionProofs
Conversation  FileDrop  Settings  Prices             - ServiceProofs
ChannelPresence  SessionRoles  Profile  Doctrine
        MCServices: these last two lines, with AudioPlayer and Relay
```

`Sift` (taking an entry out of a stack) is shared by `PlayQueue` and `EntryQueue`.
A module of proofs extends the modules it is about; small ones share one.

### PlayQueue, PlayQueueListener, EntryQueue, QueueView

`PlayQueue.tla` models `audio/queue.ts` method by method. The methods are
synchronous, so one call is one action. The variables are the fields: `songs`,
`cur` (`currentIndex + 1`), `mode`, `played` (`playedIndices`), `history`,
`forward` (`forwardStack`). `next` is split by the branch it takes
(`NextSequential`, `NextLoop`, `NextResume`, `NextPick`, `NextCycle`,
`NextDry`), `prev` likewise (`PrevBack`, `PrevStep`, `PrevNone`); the random
draw is a choice. A member of `Songs` is one queue entry (the code's object),
not a title, so that "the same song" means the same entry.

`PlayQueueListener.tla` adds what somebody in the channel knows (which song was
last handed to the player, what the last call promised);
the user-visible properties are stated over it.

`EntryQueue.tla` is the abstract queue: all of its bookkeeping names songs, so
inserting or removing one cannot shift anything. `PlayQueue` implements it under
the mapping that replaces every index by the song it points to; a slip in the
index arithmetic is a step `EntryQueue` does not have.

`Sift.tla` is the `filter` of `remove`, by counting positions instead of by
recursion, so that the prover can follow it; `MCPlayQueue` has TLC compare it
with the library's recursive `Remove`.

`QueueView.tla` is the queue as others use it (order and current song, with
`next` and `prev` leading anywhere). `PlayQueue` implements it, and `Playback`
is built on it, so that a property of `Playback` holds for every choice the
real queue makes.

### Playback, PlaybackListener

`Playback.tla` composes the engine, the player and the queue. `jobs` is
`playResolveSerial`; its head is the song whose URL is being resolved. Each job
knows who awaits it (`user`, `prev`, `resume`, `playNext`) and how many retries
that caller has left, so that one action is everything that happens from a wait
to the next one: `JobStarts`, `JobRefused` (the player's failure limit, whose
error event calls `playNext` from within `play`), `JobFails` (with the
continuation of the caller: another song, or giving up). The player's state is
the song it plays, whether it is the demo of `!test` (which keeps the checkpoint of
a pause, as a resume does), and how far it got: `starting`, `sounding` (a second of
frames resets the failure counter), `dead` (ffmpeg could not be spawned).
A command is one action up to its wait: the queue's change, the checkpoint, the
player's stop, the new job.

Left out: votes, volume, history rows, status events, what a song is called; a
provider is a URL or none; radio is off and voice absent, so a track boundary is
a `playNext`. A search that precedes a command is over when the command's action
happens, except that `!jump` may be overtaken by a pause during its search.

### AudioPlayer, Player

`AudioPlayer.tla` is `audio/player.ts` with what it depends on: one ffmpeg per
session, whose events (`data`, `close`, `error`) may arrive after the player has
gone on to another session; the buffer with its water marks and the paused
stdout; the 20 ms loop that drifts, stalls and gives up (`empties`,
`nearEnd`); `fails`. A frame stands for any stretch of sound. What is still in
a pipe when its process exits may be lost, as Node's stream leaves it. `Player.tla`
is the five-stage player that `Playback` uses (`idle`, `starting`, `sounding`,
`dead`, and the refusal); `AudioPlayer` implements it.

### Reconnect, Presence

`Reconnect.tla` models one saved bot. `bot[i]` is an instance: where its
`connect()` stands (`detect`, `handshake`), who awaits it, whether its library
client holds a session, and the three flags of `instance.ts`. `timer`,
`inFlight` and the owner `timer`/`cancelled` (the generation token) are the
scheduler, `watch` is the watchdog's tick. `saved` is the row's `autoStart`.
`Presence.tla` is what the manager promises about the bot: on line only while
wanted, and on line again only because it is wanted or was just started.

`Detects` is FALSE for a bot whose protocol is set by hand: `connect()` then
has no detection phase.

### RadioDirector

`RadioDirector.tla` models `radio/director.ts` with what its callers do to it:
the player's events, the poll and the membership events, the commands, and the
restock of `programFromProfile`. Its handlers are asynchronous and overlap, so the
state is the director's fields, the channel, a coarse player and queue, and two
sequences: `run` is what the current turn of the event loop still has to execute
(the continuations, by name, in the order the promises resume them), `waits` is
what handlers and commands are waiting for. An action is either one step of a turn
(`Step`), an answer that continues a handler (`Answer`), or an event that begins a
turn; the last two need `run = <<>>`. The flags `bumperInFlight`, `isAdvancing` and
`autoProgramInFlight` are set exactly while something is awaited, and are defined
from `waits`. Songs have no names: the queue is empty, without a current song, at
its last song or has more; `Playback` and `PlayQueue` are about the rest.

Choices stand for the wheel, the broadcast gates, a bumper's success (it is built,
is not ready, or its build throws, which also clears `pendingAfterBumper`) and what a
profile's search finds. Voice precedence at a track's end, the failure limit and
lost connections are left out here.

### VoiceSession

`VoiceSession.tla` composes `bot/voice/session.ts` with the speech queue, the
speaker windows, the pipeline's order of steps and the player's two volumes.
`armed` are the open windows; `capture` is `captureDuck`, the song the wake word
ducked; `saved` is what a reply interrupted; `suppress` is the order to ignore the
end that stopping for a reply causes; `latest` is `voiceTurnGen`, 0 when a speaker
has no entry; `turns` are the transcripts being worked on, with the generation and
the stage of each. Leaving the channel deletes the entry, and the count begins
again at 1, so that a turn from before can become current again; `speech` is the
promise chain of replies; `resuming` are the songs that resolve after a reply. A
chunk of audio is one of the results the recogniser can return for it. Every
handler is cut at its awaits. Commands in chat, a lost connection and changed
settings are actions of their own.

### ChannelPresence, SessionRoles, Profile

`ChannelPresence.tla` has the people, the bot's channel, the poll with its
answer, the recounts after membership events (the epoch protects them from one
another, not from the poll), the idle timer, and auto-follow with its awaits,
cooldown and cached AFK channel. A client list that fails is an empty one, as
the library's wrapper makes it. `SessionRoles.tla` is the count of the whole
server, the grace period and the clear, which lists and then removes one by one
and may be run by the clock and a moderator at once. `Profile.tla` is one job per
song change, custom avatar and connect, named by the generation it captured; a
transfer that times out goes on in the background and takes effect later.

### Relay

`Relay.tla` is `radio/relay.ts`: generations, the handle, and the chains of
timers, each of which is armed or waits for its bumper.

### FileDrop, Doctrine, Settings, Prices

`FileDrop.tla`: what the channel lists (nothing, a partial upload, a whole one),
the seen-set and the library's numbered copies, which survive a crash, and the
watchers, which do not; a stopped watcher finishes its poll. A save is the look-up
of a free number, the write of a temporary file named after it, and the rename;
two that chose one number write one temporary file, and what each of them renames
may be anything they have read, or torn. `clashed` names their keys.
`Doctrine.tla`: disk, vector store and registry, the file system's events, the
debounce timer, and two jobs (the watcher's and a command's) that wait for
services between documents. An event has a document's name, none, or a folder's,
which the watcher ignores; `missed` names the documents that changed without an
event that counts. `Settings.tla`: the configuration file, its copy in memory and
what the bots go by; a write may be torn by a crash; a start-up loads, migrates
and saves. `Prices.tla`: the list in memory, the row, the requests in flight and
what was given to whom last.

### Conversation

`Conversation.tla`: the calls of several people over one history: an `!ask`
waits for retrieval and then for the model, an intent that is ambiguous asks back
and leaves a pending question; history is capped by turns and tokens, the
injection log keeps what was already given.

### MCServices

`MCServices.tla` puts the ten services that share no state side by side. `service`
is chosen at the start and only that service's actions are taken, so the run
explores the sum of their state spaces, not the product, and each keeps the
fairness and the properties of its own module.

## 3. Runs

| Run | Question | Bounds | Result |
|---|---|---|---|
| MCPlayQueue | does the index machine do what a machine naming songs does, is it the queue the engine is built on, does every song come round in the default mode? | 2 requests, 1 fill song, stacks of 2 | holds, 35 880 states |
| MCReconnect | single-flight, final stops, no leaked session, a wanted bot comes back? | 3 live instances, detection on | holds, 249 280 states |
| MCReconnectRestart | is a healthy connection left alone? | 3 instances, no detection | violated: retry of an overtaken run |
| MCReconnectBoot | does every session belong to somebody? | 3 instances, detection on | violated: boot's `connect()` |
| MCPlayback | one advance at a time, no checkpoint under music, lost connections silent, advances end? | 2 songs, 2 retries, 2 failures, 2 waiting jobs | holds, 350 234 states |
| MCPlaybackStop | is a stopped bot silent? | as MCPlayback | violated: the song being resolved starts |
| MCRadioDirector | single restocks, pauses hold, dead air filled, an empty room quiet, cues consumed? | 2 waiting handlers, 2 disturbances | holds, 91 660 states |
| MCRadioDirectorCut | does a bumper play between songs only? | as MCRadioDirector | violated: the bumper's synthesis is awaited |
| MCVoiceSession | who is heard at a duck's volume, who is left ducked, does every reply settle? | 1 song, 1 speaker, 2 turns, 2 generations, text wake on | holds, 534 589 states |
| MCVoiceSkip | does a spoken reply give back the current song? | 2 songs, 1 speaker, 2 turns, 2 generations | violated: a spoken skip is followed by another |
| MCVoiceDeaf | is an open window heard? | as MCVoiceSkip | violated: another song comes at full volume |
| MCServices | ten services, each on its own (section 2) | below | holds, 277 692 states |

MCServices' bounds: one person, three channels, auto-follow on; one temporary role;
three player sessions of two frames, water marks of one, one failure allowed; four
starts and stops of the relay; one song, three profile updates; one file, two reads,
two watchers; one document with a twin and a blank version, two changes; three calls
of two people, two chunks of which one fits, four turns of history, short and long
answers; two releases, three tokens, two groups; three versions of the price list,
two requests.

Why the bounds are enough. Three entries make every relation between an
insertion or removal point, the cursor, a bag member and a stack entry occur
(before, at, behind), and put a fill song before or behind a request; stacks of
two overflow. Three instances are the current one, one replaced during its
detection and one replaced during its handshake, which is every state an old
instance can be in when it matters; a fourth would repeat one of them. Two
waiting jobs put a user's song before or behind an advance's, and an advance's
retry behind a user's; the limits of two retries and two failures are reached
and reset. Undisturbed, the radio goes through boundaries, bumpers, restocks,
alone-stops and resumes by itself; two disturbances put any two commands,
failures, comings or goings at any two points of that. `MaxJobs` is in the
guards of commands only: the chain may still grow by the jobs that a track end
or a retry puts on it. Two turns let a reply queue behind another and a turn be
overtaken by its speaker's next one; two generations (`MaxGen`, in the guard of
`Final`) are the one that is overtaken and the one that overtakes, or an old 1 beside
a new 1. The generation is counted anew when none of a speaker's turns is in
progress, which no turn can tell. Three player sessions are the current one,
one that is dying and one that has died; four generations of a relay or three of
a profile have two old jobs beside a new one. Two watchers, two requests, a
watcher's job and a command's are one that is overtaken and one that overtakes.
Three calls let two people be asked back and one of them come again while the
history is being cut. One person and three channels let the bot follow, be
alone, and find the person in the AFK channel. One document is enough for the
runs of one job to overlap with its next event; two documents with two changes
were explored apart from the runs (1 386 645 states) and show nothing else.

`CHECK_DEADLOCK FALSE`: a queue with nothing in it, a removed bot, an engine
whose connection is lost and whose chain is empty, and services at their bounds
may really stop. The radio and the voice loop always go on; their runs check it.

The properties that hold are also tried against plausible slips of the code
(operators ending in a `mutation` comment stand beside the definition they
replace): each property catches the one named for it in `PROJECT.json`.

### Fairness

* `MCPlayQueue`: tracks end, so `next` is called again and again.
* `Playback`: the head of the chain starts, is refused or fails. Every wait in
  it has a deadline (yt-dlp 30 s and 45 s, name resolution 1.5 s, bridges
  10 s). Nothing else is assumed: `AdvanceEnds` holds although users may keep
  putting songs on the chain.
* `MCReconnect`: probes and handshakes have deadlines (3 s, 15 s, the
  library's 60 s), the backoff is at most a minute, the watchdog's interval
  always runs. Drops and refusals are not fair; `ComesBack` is about what
  follows the last of them.
* `MCRadioDirector`: turns of the event loop end and the grace period passes (weak);
  the poll, the dead-air timer, a track's end and an answer that is ready are dealt
  with although other turns may come first (strong: they are disabled during a
  turn). Polls come every 30 s, timers fire, tracks are finite, provider and
  synthesis calls have deadlines. Disturbances are bounded.
* `VoiceSession`: a turn whose reply is over goes on to its end, and of the replies
  that are synthesised and the interrupted songs that resolve some one comes (weak). The
  reply's failsafe timer (`TTS_MAX_PLAYBACK_MS`) fires unless the reply is over
  before (strong: the continuations of a finished reply come first, and disable
  it for as long). Nothing makes the audio of a reply end by itself.
* `ChannelPresence`, `SessionRoles`: the 30 s polls go on while the bot is on
  line, the server answers or fails, timers fire. `RolesGoInTheEnd` is about what
  follows the last failure, as `RadioSeesTheRoom` and `EmptyRoomIsLeft` are.
* `AudioPlayer`: the frame loop ticks while it is armed and a spawn error is
  reported. Nothing is assumed of ffmpeg, which may hang.
* `Profile`: a job goes on, by an answer, a refusal or its timeout.
* `FileDrop`: a watcher is started after a crash and polls. `Doctrine`: events
  are delivered, the debounce timer fires and services answer or fail.
* `Relay`, `Conversation`, `Settings`, `Prices`: none; only safety is claimed.

## 4. What disagreed

Six things the comments, the replies or the interplay of the code promise do not
hold; each has a run whose counterexample shows it and an entry under `findings`:
a reconnect run overtaken by an operator's start that replaces the healthy bot; a
session orphaned when a booting bot is disconnected during detection; a song that
starts after `!stop`; a bumper built for a silent channel that cuts off the song a
user started meanwhile; a spoken skip whose reply skips once more; an open window
whose speaker is not heard once another song has lifted the duck.

More was met on the way, without a run of its own:

* Queue: `addNext` does not play next in the random modes (`queue.ts:98`);
  removing the current song puts the cursor on a neighbour nobody heard, which
  then counts as heard (`queue.ts:134`).
* Engine: after `!pause`, `!test` plays its demo with `skipHistory: true`, and
  `engine.ts:407` keeps the checkpoint for it, although the comment above says
  that a "new intentional play (not a pause-resume seek) clears operator pause":
  when the demo is over the radio programs nothing until somebody resumes or plays
  a song, and a resume during the demo starts it again at the paused song's
  position. `PauseEndsWithMusic` excepts the demo. A pause while the next song
  resolves makes the resume seek that song to the previous one's position
  (`engine.ts:612`); an advance whose song fails goes on with `queue.next()` after
  the user has replaced the queue (`engine.ts:467-480`); a failed `!jump` leaves
  the cursor on a song that is not playing (`executor.ts:393`).
* Player: an ffmpeg that exits while its stdout is paused loses up to 0.67 s of
  the end; `seek()` drops `maxSeconds`; a track's end resets the failure counter
  although no frame was heard (`player.ts:520`).
* Radio: a build that throws while a bumper is on air clears that bumper's
  `pendingAfterBumper` (`director.ts:285`, 417): its end is then taken for a song's,
  and a restock it owed stays owed until the end of some later bumper. A restock
  whose search was overtaken by a pause replaces the paused queue
  (`radio-commands.ts:706`); the re-arming in `tryAutoProgram` after a failure never
  happens, because the flag it sets is still up (`director.ts:564`, 585), and only
  the callers and the poll bring the timer back; a lost connection stops the relay's
  timer and nothing starts it again (`instance.ts:767`); a restarted Icecast tee is
  forgotten when its old process exits (`icecast-tee.ts:171`); the draw after the
  separation of artists undoes it (`smart-rotation.ts:272-296`, against
  `docs/radio.md:850-853`).
* Connection: the idle timer disconnects a bot that keeps its `autoStart`, and the
  watchdog connects it again (`idle-poller.ts:97`).
* Voice: the order to ignore a track's end, given again by the end of a duck's
  hand-off, swallows a song's own end; a reply spoken during a pause restarts the
  music; one speaker's window running out lifts the duck while another's is open;
  a barge-in after the current song has changed leaves silence; `voiceTurnGen`
  begins again when a speaker leaves (`session.ts:241`), so that a turn from
  before the leave is taken for the current one; a resume that awaited its song
  plays it over a newer one (`session.ts:496`).
* Channel: the wrappers around the client lists turn an error into an empty
  channel (`client.ts:630`, 647), so the fallback at `instance.ts:1242` is never
  used; the poll's count has no epoch guard (`instance.ts:589`); auto-follow acts
  on counts older than its awaits; an AFK channel that was not found once is never
  looked for again (`auto-follow.ts:60`).
* Profile: `profile.ts:48-53` promises that an overtaken job says nothing, but an
  upload that finishes late sets the avatar flag (`profile.ts:192-207`), the
  description is unguarded after the first check, and a custom avatar bumps the
  generation so that a stop's reset of the nickname is dropped.
* File drop: `data/file-drop.ts:18-20` says "ingested exactly once"; a crash
  between saving and recording, or two watchers, bring a file in twice, and a
  partial upload is ingested as it is. Two watchers (a disconnection in the middle of a
  poll is enough) that save one file at once find the same number free and share
  `<target>.uploading` (`local.ts:682-686`): a part of the file, or a mixture, may be
  left under a key recorded as the whole. `RecordedIsKept` is stated for the other
  keys.
* Doctrine: `doctrine-ingest.ts:137-138` says that "dir-level events (rsync
  --delete, ambiguous watch payloads) run a full sync with orphan purge", but
  `onFsEvent` drops every event whose name does not end in `.md` or `.markdown`
  (206): a folder moved out of the corpus stays in the index, one moved in stays
  out, until something else runs a full sync. Where only the top level can be
  watched (230-235), changes in subfolders make no event at all. An edit that keeps
  length and front matter is never re-indexed (`doctrine-ingest.ts:67-79`); purging
  an orphan deletes a file that came back meanwhile (`data/doctrine.ts:130-136`); an
  emptied document keeps its chunks (`rag/index.ts:87`); overlapping jobs leave
  index and registry apart, and a failed job is not tried again. `ChangesAreIndexed`
  is therefore stated for jobs that neither overlap nor fail, and for documents
  whose changes an event reported or a sync, an upload or a deletion has dealt with
  since.
* Rights: a downgrade lowers the schema version (`migrations.ts:176`), so a later
  upgrade adds what an administrator removed; a torn file falls back to defaults,
  which start-up saves (`config.ts:384-398`); a settings request refused at a later
  key has changed the rights in memory, and the next one saves them.
* Economy: `!econ refresh` bypasses the single flight (`economy/service.ts:164`,
  against `cache/refresh.ts:267-269`) and is answered from the fresh cache; a row
  that cannot be written gives an older list back after the newer one expires.
* Conversation: a pending question is consumed by an unrelated later intent; of
  two ambiguous intents in the air the second runs unquestioned; a failed `!ask`
  uses up its chunks; what is sent may begin with an answer whose question is gone.
* Elsewhere: overlapping refreshes of the local library list files twice; the
  pruning of generated songs can remove the one that is playing
  (`generate-provider.ts:28`); the fallback client's `lastUsedFallback` is shared
  by concurrent chats; the dashboard files a queue under the bot that is active
  when the answer comes (`bot/web` `player.ts:266`).

## 5. Proofs

All theorems are checked by TLAPS with no unproved leaf, for every value of the
constants that satisfies the modules' named assumptions: null values are not
members of the sets they stand beside, limits are natural numbers, at least one
failure or history entry is allowed. `QueueAssumption`, `ReconnectAssumption`,
`PlaybackAssumption`, `RadioAssumption`, `VoiceAssumption` and
`ConversationAssumption` are assumed where the constants are declared;
`PlayerAssumption`, `RelayAssumption`, `FileDropAssumption`, `SettingsAssumption`
and `PricesAssumption` are hypotheses of their theorems, because those modules are
also put side by side in `MCServices`. TLC evaluates all of them in the runs.

Every safety property that a passing run checks, invariants, action properties and
the four refinements, is a theorem. Between them the proofs rest on these arguments.

**PlayQueueProofs.** `IndexCorrect`: the array, cursor and bag stay in range and
an entry is queued once; `StacksCorrect`: so do the two stacks, within their limit,
which is why the code's checks for stale entries never fire. `CursorCorrect` adds
the listener's `handed` to the invariant: a removal at or before the cursor moves
both, an insertion is always behind the cursor. `NeverRepeatsAtOnce` follows from
it action by action: the forward stack skips the cursor, and the bag holds it. For
the pick from the bag this needs that the cursor's index is in the bag whenever the
random modes hand out a song, which is part of the listener's invariant.
`PromisesAreKept` needs `PromiseInv`: what `prev` left is on top of the forward
stack and not current, what `addNext` inserted is right behind the cursor.
`ViewImplemented`: every step of the queue is a step of `QueueView` or leaves its
two variables alone.

`EntriesImplemented` is the refinement that says the index arithmetic is right. The
mapping reads each record through the array (`Named` for a stack, `Marked` for the
bag), and one lemma per method shows that its step is the step `EntryQueue` has for
it: `SpliceNames` and `RemovalNames` for the shifts, `RememberIsSeen` and
`LeaveIsSeen` for the two stacks at their limits, `ShufflingIsSeen` for a forward
stack that holds nothing but the playing song. That the same positions are left of
a stack of indices and of the stack of songs it names (`SiftedTogether`) is where
the uniqueness of entries is used. `PlayQueue` was changed for this proof in one
place: the `filter` is `Sift`'s and not the library's, which is recursive.

**ReconnectProofs.** The properties are not inductive on their own: that a stop is
final needs that a pending run whose owner is still `timer` is wanted, that a
replaced instance was told so (`emitted`), and that a connected instance holds a
live session. `ConnectionInv` is the conjunction of `TypeOK`, `SingleFlight`,
`OnlineIsWanted`, `StartBotLeaksNothing` with those three, and one lemma per
action shows it is kept. `PresenceImplemented` then maps every step to `Presence`:
only `ConnectOk` brings the bot on line, and the invariant gives that a run whose
bot is not wanted disconnects instead.

**PlaybackProofs.** `EngineInv` says of the chain what `SingleAdvance` says, with
the jobs' types; that the queue's current song is queued; that a song that is
starting has not reached the failure limit; that a checkpoint is left only beside an
idle player or the demo; and that a lost connection is silent. The chain's part is
preserved by three lemmas (a job is appended, the head leaves, the head leaves and a
retry is appended), whoever asked for the job.

**RadioDirectorProofs.** The invariant bounds the waiting handlers: `Waiters` says
that `waits` holds answers to continuations the handlers have, and at most one
restock. Appending
a wait (`Awaited`) needs that none is under way, which the guards give through the
flags defined from `waits`; removing one (`Gone`) keeps the rest. A lemma each for
a step of the turn, an answer and a beginning, by the continuation's name, shows it
is kept; `OneRestockAtATime` is its part. That a restock is owed only together with a
pending bumper is not part of it, and does not hold: a build that throws clears the
one and leaves the other. `PausesHold` needs more than the pause: a poll may stop an
empty station under it, which ends the pause in a silence of another kind. `AtRest` is
both kinds, with the turns in which the station may find itself there, and `RestStays`
shows that nothing the station does by itself leaves it. For the
relay, `OneScheduleAtATime` needs that a chain's closure carries the generation it
began in (`ChainsKeepTheirGeneration`), that an armed chain is the one whose handle
is kept (`ArmedIsHeld`), and that the last chain runs while the relay does
(`LastChainRuns`).

**AudioPlayerProofs.** What keeps an earlier ffmpeg out is that sessions above
`session` are unused (`LaterUnused`), at most one process is not killed and it is
the session's own (`OneAtATime`), and a process that could not be spawned has
produced nothing (`FailingIsUnheard`). `NoTrackMixing`: buffer and counters belong
to the current session. `PlayerImplemented`: under the mapping from `playing`,
`spawnFailed` and `heard` to a stage, every tick, event and command is a step of
`Player` or a stutter; only the last frame of `HealthyFrames` resets the counter.
`TracksEndOnTheirOwn` needs that a track without a process had one that has exited
(`EndedIsGone`), and that the patience near the end of a track is not
longer than the patience in its middle: `PlayerAssumption` says so since this proof
(250 and 500 ticks in the code, `player.ts:204`, 210).

**VoiceSessionProofs.** `DuckIsHeld` and `WaitersAreQueued` hold for different
reasons, and the invariant `VoiceInv` is proved in two halves. The chain's half
needs that a turn that is not free is some speaker's (`TurnsAreOwned`); appending,
settling and aborting a reply then keep one place per waiter. The duck's half
relates the player's volumes, the song that `captureDuck` remembers and the hand-off
to a reply (`PlayerOK`, `DuckOK`, `HandoffOK`): a reply lifts the duck before it
starts, and whatever puts another song on either keeps the memory or lifts the duck.
A turn keeps its speaker and its generation from stage to stage (`SameTurn`).
`OthersNeverStrand` goes through every handler once more: only a turn that its
speaker has overtaken gives up its window without lifting or handing on the duck.

**ServiceProofs.** *Conversation*: a history that is whole stays so when it is cut
in front (`CutIsWhole`, `TrimProperties`) and when an exchange is appended
(`RecordedIsWhole`), hence also in the part that is sent (`HistoryStaysWhole`).
`Grounded`: the best chunks of a set that is not empty are not none (`BestIsSome`).
`NobodyIsAskedTwice`: who was asked has a pending question. *File drop*: `DropInv`
adds to `RecordedIsKept` that a watcher holds what it has read of the upload it
listed (`WorkIsSound`); that whoever is about to rename to a number found it free, and
still alone has it unless its save clashed (`SavesAreApart`); and that what is
recorded, or about to be, has a copy in the library that nobody is about to replace
(`ClaimsAreStored`). *Ruleset*: `DeltasComeOnce` needs
that the version in the file is the release that saved it, and the one in memory
the release that runs (`VersionsTell`). *Price list*: as long as every row could be
written, `ListInv` has one request at a time (`OneRequest`), whose answer is the
newest list there is (`AnswersAreNewest`) and whose fallback is what memory holds
(`FallbacksAreHeld`), and memory and row neither differ nor are older than what was
given last (`CopiesAgree`, `NoneIsAhead`).

`SpliceFacts` holds the lemmas about inserting into a sequence, removing one
position, and removing an entry wherever it occurs; that the j-th of a set of
positions exists (`NthProperties`) is by a least element, without induction.

Only model-checked: the liveness properties (`EverySongComesRound`, `ComesBack`,
`AdvanceEnds`, `DeadAirIsFilled`, `EmptyRoomGoesQuiet`, `CueIsConsumed`,
`RepliesSettle`, `RadioSeesTheRoom`, `EmptyRoomIsLeft`, `RolesGoInTheEnd`,
`TrackGetsOver`, `NicknameFollows`, `EveryDropIsSettled`, `ChangesAreIndexed`),
because the prover reasons neither about fairness nor about ENABLED, and the type
invariants of `ChannelPresence`, `SessionRoles`, `Profile` and `Doctrine`, which
support liveness only. The refuted properties of section 4 are refuted by TLC.

## 6. Not modelled

* Pure computation: frames, codecs, mixing and the native kernels, speech
  recognition and synthesis, text matching of the router, rotation (a weighted
  reordering), the wheel and gates of the radio, rule evaluation, price parsing.
  The models take their results as choices.
* Processes and services: the Icecast tee (a byte stream into ffmpeg), bumper
  synthesis and its cache, music providers and the generator, embeddings, the
  memory palace, the model server and its fallback, the MCP server. They are an
  answer, an error or a delay where a model waits for them.
* Rows changed by one synchronous statement: users, accounts and sessions, orders
  and work orders, history, the bots' identities. No `await` divides such a change.
* The dashboard (views, its store and web socket), the routes that only hand on a
  request, the Rust port, which is unfinished and follows the TypeScript program,
  and the Python services.
* Of the modelled parts: votes, volume, synthetic voice turns, the classification
  floor and pinning, the now-playing message, documents among dropped files,
  `createBot`, `updateBot` and shutdown, TeamSpeak queries.

## 7. Plan

Done: the play queue and its abstract forms; the connection manager; the playback
engine over the queue; the radio director; the voice session with the speech queue;
channel presence and session roles; the player and its abstraction; relay, profile,
file drop, doctrine corpus, conversation, ruleset and price list; theorems for every
safety property of the passing runs and for the four refinements.

Left, in this order:

1. The safety facts behind the liveness properties, as theorems: a song leaves the
   bag's complement only by being played; an epoch is never overtaken by an older
   recount; of two jobs of the profile only the younger one names the song.
2. `VoiceSession` over `Playback` in the place of its coarse engine, so that a
   reply's resumption goes through the serial chain.
3. `RadioDirector` as an implementation of an abstract station that alternates
   songs and inserts.
4. The manager's `updateBot` and identity writes beside a running bot.
5. Pending mass moves and MCP confirmations; the generation slot and the download
   set; voice transport health.
