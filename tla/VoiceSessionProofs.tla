------------------------- MODULE VoiceSessionProofs --------------------------
(***************************************************************************)
(* Proofs about the voice loop: the duck and the chain of spoken replies,  *)
(* for any number of speakers, songs and transcripts at a time.            *)
(***************************************************************************)
EXTENDS VoiceSession, SequenceTheorems, TLAPS

Silent == Songs \cup {NoSong}
TurnRecords == [by : Speakers \cup {Nobody}, gen : 0 .. MaxGen, stage : Stages,
                then : {"executing", "finishing"},
                outcome : {"parked", "playback", "other"}]

\* A turn that is not free is some speaker's.
TurnsAreOwned ==
    \A t \in Turns : turns[t] # NoTurn => turns[t].by \in Speakers /\ turns[t].stage # "free"

VoiceInv == TypeOK /\ DuckIsHeld /\ WaitersAreQueued /\ TurnsAreOwned

PlayerOK ==
    /\ current \in Silent /\ paused \in BOOLEAN /\ air \in Silent \cup {"speech"}
DuckOK == ducked \in BOOLEAN /\ watchdog \in BOOLEAN /\ capture \in Silent
HandoffOK == saved \in Silent /\ suppress \in {"off", "on", "stale"}
ChainOK == talking \in BOOLEAN /\ speech \in Seq(Turns) /\ turns \in [Turns -> TurnRecords]
RestOK ==
    /\ connected \in BOOLEAN /\ armed \subseteq Speakers
    /\ latest \in [Speakers -> 0 .. MaxGen]
    /\ resuming \subseteq [song : Songs, next : BOOLEAN]

LEMMA TypeParts == TypeOK <=> PlayerOK /\ DuckOK /\ HandoffOK /\ ChainOK /\ RestOK
  BY DEF TypeOK, PlayerOK, DuckOK, HandoffOK, ChainOK, RestOK, Silent, TurnRecords

-----------------------------------------------------------------------------
(* What the parts of the handlers do.                                      *)

\* A song is put on the air at full volume.
LEMMA PlayFacts ==
    ASSUME PlayerOK, NEW s \in Silent, Play(s)
    PROVE  PlayerOK' /\ ducked' = FALSE
  BY DEF Play, OnAir, PlayerOK, Silent

LEMMA AdvanceFacts == ASSUME PlayerOK, Advance PROVE PlayerOK' /\ ducked' = FALSE
  BY PlayFacts DEF Advance, Silent

LEMMA HushFacts ==
    ASSUME PlayerOK, Hush PROVE PlayerOK' /\ ducked' = FALSE /\ air' = NoSong
  BY DEF Hush, PlayerOK, Silent

\* A command leaves the player in order; it does not duck, and a song that it
\* starts is not played at the volume of a duck.
LEMMA ExecutedFacts ==
    ASSUME PlayerOK, ducked \in BOOLEAN, NEW reply, Executed(reply)
    PROVE  /\ PlayerOK'
           /\ reply \in Clears => air' = NoSong
           /\ \/ ducked' = FALSE
              \/ ducked' = ducked /\ air' = air
              \/ reply \in {"answer", "none"} /\ air' = air
<1>1. ASSUME NEW s \in Songs, Play(s), reply = "playing"
      PROVE  PlayerOK' /\ ducked' = FALSE /\ reply \notin Clears
  BY <1>1, PlayFacts DEF Silent, Clears
<1>7. CASE reply = "playing" /\ UNCHANGED <<player, ducked>>
  BY <1>7 DEF player, PlayerOK, Clears
<1>2. CASE reply = "skipped" /\ Advance
  BY <1>2, AdvanceFacts DEF Clears
<1>3. CASE reply = "paused" /\ Pause
  BY <1>3 DEF Pause, PlayerOK, Silent
<1>4. CASE reply = "stopped" /\ StopAll
  BY <1>4 DEF StopAll, PlayerOK, Silent
<1>5. CASE reply = "resumed" /\ Resume
  BY <1>5 DEF Resume, OnAir, PlayerOK, Silent, Clears
<1>6. CASE reply \in {"answer", "none"} /\ UNCHANGED player
  BY <1>6 DEF player, PlayerOK, Clears
<1> QED  BY <1>1, <1>2, <1>3, <1>4, <1>5, <1>6, <1>7 DEF Executed

\* What ducks the music holds it for a song, and ducks no reply.
LEMMA EnsureDuckedFacts ==
    ASSUME VoiceAssumption, PlayerOK, DuckOK, EnsureDucked
    PROVE  /\ DuckOK'
           /\ UNCHANGED duck \/ (~talking /\ capture' # NoSong)
           /\ capture = NoSong /\ capture' # NoSong => watchdog'
  BY DEF EnsureDucked, PlayerOK, DuckOK, Silent, duck, MusicPlaying

LEMMA ReleaseFacts == ASSUME Release PROVE DuckOK' /\ ducked' = FALSE /\ capture' = NoSong
  BY DEF Release, DuckOK, Silent

LEMMA PrepareFacts ==
    ASSUME HandoffOK, NEW reply \in Replies, Prepare(reply)
    PROVE  HandoffOK' /\ (reply \notin Clears => saved' = saved)
  BY DEF HandoffOK, Prepare, Silent, Replies, Starts, Clears, Controls, handoff

LEMMA OutcomeFacts ==
    ASSUME NEW reply \in Replies PROVE Outcome(reply) \in {"parked", "playback", "other"}
  BY DEF Outcome, Replies, Starts, Clears, Controls

\* A finished turn lifts the duck, or leaves it to the reply that took the song.
LEMMA FinishFacts ==
    ASSUME DuckOK, HandoffOK, RestOK,
           NEW s, NEW outcome \in {"parked", "playback", "other"}, FinishCaptureDuck(s, outcome)
    PROVE  /\ DuckOK' /\ HandoffOK' /\ armed' \subseteq Speakers
           /\ \/ ducked' = FALSE
              \/ UNCHANGED <<ducked, capture, saved>>
              \/ ducked' = ducked /\ saved' = saved /\ saved # NoSong
           /\ UNCHANGED <<duck, armed>> \/ capture' = NoSong
<1>1. CASE outcome = "other"
  <2>1. UNCHANGED <<armed, handoff>>
    BY <1>1 DEF FinishCaptureDuck
  <2>2. CASE UNCHANGED duck
    BY <2>1, <2>2 DEF duck, handoff, DuckOK, HandoffOK, RestOK
  <2>3. CASE saved # NoSong /\ capture' = NoSong /\ watchdog' = FALSE /\ UNCHANGED ducked
    BY <2>1, <2>3 DEF handoff, DuckOK, HandoffOK, RestOK, Silent
  <2>4. CASE Release
    BY <2>1, <2>4, ReleaseFacts DEF handoff, HandoffOK, RestOK
  <2> QED  BY <1>1, <2>2, <2>3, <2>4 DEF FinishCaptureDuck
<1>2. CASE outcome # "other"
  <2>1. armed' = armed \ {s} /\ Release
    BY <1>2 DEF FinishCaptureDuck
  <2>2. HandoffOK'
    BY <1>2 DEF FinishCaptureDuck, HandoffOK, Silent, handoff
  <2> QED  BY <2>1, <2>2, ReleaseFacts DEF RestOK
<1> QED  BY <1>1, <1>2

\* What the end of a reply leaves of the song it interrupted: the player has
\* stopped, or something else is put on at full volume.
LEMMA TryResumeFacts ==
    ASSUME PlayerOK, HandoffOK, RestOK, ducked \in BOOLEAN, saved # NoSong,
           TryResume(TRUE, Advance) \/ TryResume(FALSE, Hush)
    PROVE  /\ PlayerOK' /\ ducked' \in BOOLEAN /\ saved' \in Silent
           /\ resuming' \subseteq [song : Songs, next : BOOLEAN]
           /\ ducked' = FALSE \/ air' = NoSong
<1>1. saved' = NoSong /\ saved \in Songs
  BY DEF TryResume, HandoffOK, Silent
<1>2. ASSUME NEW next \in BOOLEAN,
             resuming' = resuming \cup {[song |-> saved, next |-> next]}
      PROVE  resuming' \subseteq [song : Songs, next : BOOLEAN]
  BY <1>1, <1>2 DEF RestOK
<1>3. CASE saved = current
  BY <1>1, <1>2, <1>3 DEF TryResume, PlayerOK, Silent
<1>4. CASE saved # current
  <2>1. Advance \/ Hush
    BY <1>4 DEF TryResume
  <2>2. UNCHANGED resuming
    BY <1>4 DEF TryResume
  <2> QED  BY <1>1, <2>1, <2>2, AdvanceFacts, HushFacts DEF RestOK, Silent
<1> QED  BY <1>3, <1>4

-----------------------------------------------------------------------------
(* The chain of replies and the turns that wait on it.                     *)

ChainInv == ChainOK /\ WaitersAreQueued /\ TurnsAreOwned

\* Whatever its stage, the turn is the same speaker's and of the same generation.
SameTurn(t) == turns'[t].by = turns[t].by /\ turns'[t].gen = turns[t].gen

\* The count of a transcript stays within its bound.
LEMMA GenFacts ==
    ASSUME VoiceAssumption, RestOK, NEW s \in Speakers, NextGen(s) <= MaxGen
    PROVE  NextGen(s) \in 0 .. MaxGen
<1>1. latest[s] \in Nat
  BY DEF RestOK, VoiceAssumption
<1> QED  BY <1>1 DEF NextGen, VoiceAssumption

\* A turn that is not waiting for a reply changes, and does not begin to.
LEMMA OffChain ==
    ASSUME ChainInv, NEW t \in Turns, turns[t].stage # "speaking",
           NEW new \in TurnRecords, new.stage # "speaking",
           new # NoTurn => new.by \in Speakers /\ new.stage # "free",
           turns' = [turns EXCEPT ![t] = new], UNCHANGED <<speech, talking>>
    PROVE  ChainInv'
<1>1. ChainOK' /\ turns'[t] = new /\ \A u \in Turns \ {t} : turns'[u] = turns[u]
  BY DEF ChainInv, ChainOK
<1>2. WaitersAreQueued'
  BY <1>1 DEF ChainInv, WaitersAreQueued
<1>3. TurnsAreOwned'
  BY <1>1 DEF ChainInv, TurnsAreOwned, NoTurn, Turn
<1> QED  BY <1>1, <1>2, <1>3 DEF ChainInv

\* A turn that goes on to another stage stays its speaker's.
LEMMA StageFacts ==
    ASSUME ChainInv, NEW t \in Turns, turns[t].stage # "free",
           NEW stage \in Stages \ {"free"}, Stage(t, stage)
    PROVE  /\ turns' \in [Turns -> TurnRecords]
           /\ turns'[t] = [turns[t] EXCEPT !.stage = stage]
           /\ turns'[t].stage = stage /\ SameTurn(t)
           /\ \A u \in Turns \ {t} : turns'[u] = turns[u]
           /\ TurnsAreOwned'
<1>1. turns[t] \in TurnRecords /\ [turns[t] EXCEPT !.stage = stage] \in TurnRecords
  BY DEF ChainInv, ChainOK, TurnRecords
<1>2. /\ turns' \in [Turns -> TurnRecords]
      /\ turns'[t] = [turns[t] EXCEPT !.stage = stage]
      /\ \A u \in Turns \ {t} : turns'[u] = turns[u]
  BY <1>1 DEF Stage, ChainInv, ChainOK
<1>3. turns'[t].stage = stage /\ SameTurn(t)
  BY <1>1, <1>2 DEF TurnRecords, SameTurn
<1>4. turns[t] # NoTurn
  BY DEF NoTurn, Turn
<1>5. TurnsAreOwned'
  BY <1>2, <1>3, <1>4 DEF ChainInv, TurnsAreOwned, NoTurn, Turn, SameTurn
<1> QED  BY <1>2, <1>3, <1>5

\* A turn with a stage is some speaker's.
LEMMA OwnedFacts ==
    ASSUME ChainInv, NEW t \in Turns, turns[t].stage # "free"
    PROVE  turns[t] \in TurnRecords /\ turns[t] # NoTurn /\ turns[t].by \in Speakers
  BY DEF ChainInv, ChainOK, TurnsAreOwned, NoTurn, Turn

\* A turn that is over, or goes on without having been spoken for.
LEMMA Forgotten ==
    ASSUME ChainInv, NEW t \in Turns, turns[t].stage # "speaking", Forget(t),
           UNCHANGED <<speech, talking>>
    PROVE  ChainInv'
<1>1. NoTurn \in TurnRecords /\ NoTurn.stage # "speaking"
  BY VoiceAssumption DEF NoTurn, Turn, TurnRecords, Stages, VoiceAssumption
<1> QED  BY <1>1, OffChain DEF Forget

LEMMA GoesOn ==
    ASSUME ChainInv, NEW t \in Turns, turns[t].stage \notin {"free", "speaking"},
           NEW stage \in Stages \ {"free", "speaking"}, Stage(t, stage),
           UNCHANGED <<speech, talking>>
    PROVE  ChainInv'
<1> DEFINE new == [turns[t] EXCEPT !.stage = stage]
<1>1. turns[t] \in TurnRecords /\ turns[t].by \in Speakers
  BY OwnedFacts
<1>2. new \in TurnRecords /\ new.stage = stage /\ new.by = turns[t].by
  BY <1>1 DEF TurnRecords
<1>3. turns' = [turns EXCEPT ![t] = new]
  BY DEF Stage, ChainInv, ChainOK
<1> HIDE DEF new
<1> QED  BY <1>1, <1>2, <1>3, OffChain

\* A reply that is to be spoken goes to the end of the chain.
LEMMA VoicedChain ==
    ASSUME ChainInv, NEW t \in Turns, Voiced(t) PROVE ChainInv'
<1>1. /\ turns[t].stage = "voicing" /\ Stage(t, "speaking")
      /\ speech' = Append(speech, t) /\ talking' = talking
  BY DEF Voiced
<1>2. /\ turns' \in [Turns -> TurnRecords] /\ turns'[t].stage = "speaking"
      /\ \A u \in Turns \ {t} : turns'[u] = turns[u]
      /\ TurnsAreOwned'
  BY <1>1, StageFacts DEF Stages
<1>3. /\ speech' \in Seq(Turns) /\ Len(speech') = Len(speech) + 1
      /\ \A i \in 1 .. Len(speech) : speech'[i] = speech[i]
      /\ speech'[Len(speech) + 1] = t
  BY <1>1 DEF ChainInv, ChainOK
<1>4. \A i \in 1 .. Len(speech) : speech[i] # t
  BY <1>1 DEF ChainInv, ChainOK, WaitersAreQueued
<1>5. \A u \in Turns : turns'[u].stage = "speaking" <=> \E i \in DOMAIN speech' : speech'[i] = u
  <2>1. ASSUME NEW u \in Turns, u # t
        PROVE  turns'[u].stage = "speaking" <=> \E i \in 1 .. Len(speech') : speech'[i] = u
    <3>1. turns[u].stage = "speaking" <=> \E i \in 1 .. Len(speech) : speech[i] = u
      BY DEF ChainInv, ChainOK, WaitersAreQueued
    <3> QED  BY <1>2, <1>3, <2>1, <3>1 DEF ChainInv, ChainOK
  <2>2. Len(speech) + 1 \in 1 .. Len(speech') /\ DOMAIN speech' = 1 .. Len(speech')
    BY <1>3 DEF ChainInv, ChainOK
  <2> QED  BY <1>2, <1>3, <2>1, <2>2
<1>6. \A i, j \in DOMAIN speech' : speech'[i] = speech'[j] => i = j
  <2>1. \A i, j \in 1 .. Len(speech) : speech[i] = speech[j] => i = j
    BY DEF ChainInv, ChainOK, WaitersAreQueued
  <2> QED  BY <1>3, <1>4, <2>1 DEF ChainInv, ChainOK
<1>7. talking' => speech' # <<>>
  BY <1>3 DEF ChainInv, ChainOK
<1> QED  BY <1>1, <1>2, <1>3, <1>5, <1>6, <1>7 DEF ChainInv, ChainOK, WaitersAreQueued

\* The reply at the head ends: its turn goes on, and nobody else's.
LEMMA SettleChain ==
    ASSUME ChainInv, speech # <<>>, Settle
    PROVE  /\ ChainInv' /\ talking' = FALSE
           /\ \A t \in Turns : turns[t] # NoTurn =>
                turns'[t] # NoTurn /\ SameTurn(t)
<1> DEFINE t == Head(speech)
<1>1. /\ Len(speech) \in Nat \ {0} /\ t \in Turns /\ t = speech[1]
      /\ 1 \in DOMAIN speech
  BY DEF ChainInv, ChainOK
<1>2. turns[t].stage = "speaking"
  BY <1>1 DEF ChainInv, WaitersAreQueued
<1>3. turns[t].then \in {"executing", "finishing"}
  BY <1>1 DEF ChainInv, ChainOK, TurnRecords
<1>4. Stage(t, turns[t].then)
  BY DEF Settle
<1> HIDE DEF t
<1>5. /\ turns' \in [Turns -> TurnRecords] /\ turns'[t].stage = turns[t].then
      /\ SameTurn(t)
      /\ \A u \in Turns \ {t} : turns'[u] = turns[u]
      /\ TurnsAreOwned'
  BY <1>1, <1>2, <1>3, <1>4, StageFacts DEF Stages
<1>6. /\ speech' \in Seq(Turns) /\ Len(speech') = Len(speech) - 1
      /\ \A i \in 1 .. Len(speech) - 1 : speech'[i] = speech[i + 1]
  BY <1>1 DEF Settle, ChainInv, ChainOK
<1>7. \A i, j \in 1 .. Len(speech) : speech[i] = speech[j] => i = j
  BY DEF ChainInv, ChainOK, WaitersAreQueued
<1>8. \A u \in Turns : turns'[u].stage = "speaking" <=> \E i \in DOMAIN speech' : speech'[i] = u
  <2>1. ASSUME NEW u \in Turns, u # t
        PROVE  turns'[u].stage = "speaking" <=> \E i \in 1 .. Len(speech') : speech'[i] = u
    <3>1. turns[u].stage = "speaking" <=> \E i \in 1 .. Len(speech) : speech[i] = u
      BY DEF ChainInv, ChainOK, WaitersAreQueued
    <3>2. ASSUME NEW i \in 1 .. Len(speech), speech[i] = u
          PROVE  i - 1 \in 1 .. Len(speech') /\ speech'[i - 1] = u
      <4>1. i # 1
        BY <1>1, <2>1, <3>2
      <4>2. i - 1 \in 1 .. Len(speech) - 1
        BY <1>1, <4>1
      <4>3. speech'[i - 1] = speech[(i - 1) + 1] /\ (i - 1) + 1 = i
        BY <1>6, <4>2
      <4> QED  BY <1>6, <3>2, <4>2, <4>3
    <3>3. ASSUME NEW i \in 1 .. Len(speech'), speech'[i] = u
          PROVE  i + 1 \in 1 .. Len(speech) /\ speech[i + 1] = u
      BY <1>1, <1>6, <3>3
    <3> QED  BY <1>5, <2>1, <3>1, <3>2, <3>3
  <2>2. turns'[t].stage # "speaking" /\ \A i \in 1 .. Len(speech') : speech'[i] # t
    BY <1>1, <1>3, <1>5, <1>6, <1>7
  <2> QED  BY <1>6, <2>1, <2>2
<1>9. \A i, j \in DOMAIN speech' : speech'[i] = speech'[j] => i = j
  <2> SUFFICES ASSUME NEW i \in 1 .. Len(speech) - 1, NEW j \in 1 .. Len(speech) - 1,
                      speech'[i] = speech'[j]
               PROVE  i = j
    BY <1>6
  <2>1. i + 1 \in 1 .. Len(speech) /\ j + 1 \in 1 .. Len(speech)
    BY <1>1
  <2>2. speech[i + 1] = speech[j + 1]
    BY <1>6
  <2>3. i + 1 = j + 1
    BY <1>7, <2>1, <2>2
  <2> QED  BY <2>3
<1>10. talking' = FALSE
  BY DEF Settle
<1>11. ChainInv'
  BY <1>5, <1>6, <1>8, <1>9, <1>10 DEF ChainInv, ChainOK, WaitersAreQueued
<1>12. \A u \in Turns : turns[u] # NoTurn => turns'[u] # NoTurn /\ SameTurn(u)
  BY <1>1, <1>3, <1>5 DEF NoTurn, Turn, SameTurn
<1> QED  BY <1>10, <1>11, <1>12

\* Every step keeps each reply's place in the chain.
LEMMA ChainStep == ASSUME VoiceAssumption, VoiceInv, [Next]_vars PROVE ChainInv'
<1>0. ChainInv
  BY TypeParts DEF VoiceInv, ChainInv
<1>1. CASE UNCHANGED <<speech, talking, turns>>
  BY <1>0, <1>1 DEF ChainInv, ChainOK, WaitersAreQueued, TurnsAreOwned
<1>2. ASSUME NEW s \in Speakers, NEW t \in Turns, Final(s, t) PROVE ChainInv'
  <2> DEFINE new == Turn(s, NextGen(s), "routing", "finishing", "other")
  <2>1. new \in TurnRecords /\ new.by = s /\ new.stage = "routing"
    <3>1. NextGen(s) \in 0 .. MaxGen
      BY <1>2, GenFacts, TypeParts DEF Final, VoiceInv
    <3> QED  BY <3>1 DEF Turn, TurnRecords, Stages
  <2>2. turns[t].stage # "speaking"
    BY <1>2 DEF Final, NoTurn, Turn
  <2>3. turns' = [turns EXCEPT ![t] = new] /\ UNCHANGED <<speech, talking>>
    BY <1>2 DEF Final
  <2> HIDE DEF new
  <2> QED  BY <1>0, <2>1, <2>2, <2>3, OffChain
<1>3. ASSUME NEW t \in Turns, Ignored(t) PROVE ChainInv'
  BY <1>0, <1>3, GoesOn DEF Ignored, Stages
<1>4. ASSUME NEW t \in Turns, HeldForCommand(t) PROVE ChainInv'
  BY <1>0, <1>4, Forgotten DEF HeldForCommand
<1>5. ASSUME NEW t \in Turns, InstantPhrase(t) PROVE ChainInv'
  <2>1. PICK then \in {"executing", "finishing"} :
          turns' = [turns EXCEPT ![t].stage = "voicing", ![t].then = then]
    BY <1>5 DEF InstantPhrase
  <2> DEFINE new == [turns[t] EXCEPT !.stage = "voicing", !.then = then]
  <2>2. turns[t] \in TurnRecords /\ turns[t].stage = "routing" /\ turns[t].by \in Speakers
    BY <1>0, <1>5, OwnedFacts DEF InstantPhrase, ChainInv, ChainOK
  <2>3. new \in TurnRecords /\ new.stage = "voicing" /\ new.by = turns[t].by
    BY <2>2 DEF TurnRecords, Stages
  <2>4. turns' = [turns EXCEPT ![t] = new] /\ UNCHANGED <<speech, talking>>
    BY <1>0, <1>5, <2>1 DEF InstantPhrase, ChainInv, ChainOK
  <2> HIDE DEF new
  <2> QED  BY <1>0, <2>2, <2>3, <2>4, OffChain
<1>6. ASSUME NEW t \in Turns, Voiced(t) PROVE ChainInv'
  BY <1>0, <1>6, VoicedChain
<1>7. ASSUME NEW t \in Turns, Unvoiced(t) PROVE ChainInv'
  <2>1. turns[t].then \in {"executing", "finishing"}
    BY <1>0 DEF ChainInv, ChainOK, TurnRecords
  <2> QED  BY <1>0, <1>7, <2>1, GoesOn DEF Unvoiced, Stages
<1>8. ASSUME NEW t \in Turns, NEW reply \in Replies, Execute(t, reply) PROVE ChainInv'
  <2>1. PICK stage \in {"finishing", "voicing"} :
          turns' = [turns EXCEPT ![t] = Turn(@.by, @.gen, stage, "finishing", Outcome(reply))]
    BY <1>8 DEF Execute
  <2> DEFINE new == Turn(turns[t].by, turns[t].gen, stage, "finishing", Outcome(reply))
  <2>2. /\ turns[t].by \in Speakers /\ turns[t].stage # "speaking"
        /\ UNCHANGED <<speech, talking>>
    BY <1>0, <1>8, OwnedFacts DEF Execute
  <2>3. new \in TurnRecords /\ new.by \in Speakers /\ new.stage = stage
    <3>1. turns[t].gen \in 0 .. MaxGen
      BY <1>0 DEF ChainInv, ChainOK, TurnRecords
    <3> QED  BY <2>2, <3>1, OutcomeFacts DEF Turn, TurnRecords, Stages
  <2>4. turns' = [turns EXCEPT ![t] = new]
    BY <1>0, <2>1 DEF ChainInv, ChainOK
  <2> HIDE DEF new
  <2> QED  BY <1>0, <2>2, <2>3, <2>4, OffChain
<1>9. ASSUME NEW t \in Turns, FinishTurn(t) PROVE ChainInv'
  BY <1>0, <1>9, Forgotten DEF FinishTurn
<1>10. CASE StartSpeech
  BY <1>0, <1>10
     DEF StartSpeech, pipeline, ChainInv, ChainOK, WaitersAreQueued, TurnsAreOwned
<1>11. CASE speech # <<>> /\ Settle
  BY <1>0, <1>11, SettleChain
<1>12. talking => speech # <<>>
  BY DEF VoiceInv, WaitersAreQueued
<1>13. SpeechBegins \/ SpeechFailsafe \/ TrackEnd \/ PlayerError \/ BargeIn => ChainInv'
  BY <1>1, <1>10, <1>11, <1>12
     DEF SpeechBegins, SpeechDropped, SpeechFailsafe, TrackEnd, PlayerError, BargeIn
<1>14. ASSUME NEW r \in resuming, Resumed(r) PROVE ChainInv'
  BY <1>1, <1>14 DEF Resumed, pipeline
<1>15. ASSUME NEW s \in Speakers,
              \/ Wake(s) \/ TextWakeDuck(s) \/ ArmExpires(s)
              \/ CommandWindowCloses(s) \/ Leaves(s)
       PROVE  ChainInv'
  BY <1>1, <1>15 DEF Wake, TextWakeDuck, ArmExpires, CommandWindowCloses, Leaves, pipeline
<1>16. ChatCommand \/ WatchdogFires \/ CaptureEnds \/ SuppressExpires
         \/ Disconnect \/ Connect \/ Reconfigure \/ UNCHANGED vars => ChainInv'
  BY <1>1 DEF ChatCommand, WatchdogFires, CaptureEnds, SuppressExpires, Disconnect,
              Connect, Reconfigure, pipeline, vars
<1> QED
  BY <1>2, <1>3, <1>4, <1>5, <1>6, <1>7, <1>8, <1>9, <1>13, <1>14, <1>15, <1>16
     DEF Next, Continuation, Event

-----------------------------------------------------------------------------
(* The duck.                                                               *)

DuckInv == PlayerOK /\ DuckOK /\ HandoffOK /\ RestOK /\ DuckIsHeld

\* The duck is lifted, or its song is still held for whoever lifts it.
LEMMA StillHeld ==
    ASSUME DuckInv,
           \/ ducked' = FALSE
           \/ air' = NoSong /\ ducked' \in BOOLEAN /\ ~talking'
           \/ /\ ducked' = ducked /\ air' = air /\ (talking' => talking)
              /\ \/ UNCHANGED <<capture, saved>>
                 \/ saved' # NoSong
           \/ air' = air /\ ~talking' /\ capture' # NoSong,
           VoiceAssumption
    PROVE  DuckIsHeld'
  BY DEF DuckInv, DuckIsHeld, DuckOK, VoiceAssumption

LEMMA DuckStep == ASSUME VoiceAssumption, VoiceInv, [Next]_vars PROVE DuckInv'
<1>0. DuckInv /\ (talking => speech # <<>>)
  BY TypeParts DEF VoiceInv, DuckInv, WaitersAreQueued
<1> USE DEF DuckInv
<1>1. ASSUME UNCHANGED <<player, connected, handoff, speech, talking, resuming>>,
             latest' \in [Speakers -> 0 .. MaxGen], armed' \subseteq Speakers,
             EnsureDucked \/ Release \/ UNCHANGED duck
                \/ (watchdog' = FALSE /\ UNCHANGED <<ducked, capture>>)
      PROVE  DuckInv'
  <2>1. PlayerOK' /\ HandoffOK' /\ RestOK'
    BY <1>0, <1>1 DEF PlayerOK, HandoffOK, RestOK, player, handoff
  <2>2. DuckOK' /\ (\/ ducked' = FALSE
                    \/ UNCHANGED <<ducked, capture>>
                    \/ ~talking /\ capture' # NoSong)
    BY <1>0, <1>1, EnsureDuckedFacts, ReleaseFacts DEF DuckOK, duck
  <2>3. DuckIsHeld'
    BY <1>0, <1>1, <2>2, StillHeld DEF player, handoff
  <2> QED  BY <2>1, <2>2, <2>3
<1>2. latest \in [Speakers -> 0 .. MaxGen] /\ armed \subseteq Speakers
  BY <1>0 DEF RestOK
<1>3. ASSUME NEW s \in Speakers,
             \/ Wake(s) \/ TextWakeDuck(s) \/ ArmExpires(s)
             \/ CommandWindowCloses(s) \/ Leaves(s) \/ \E t \in Turns : Final(s, t)
      PROVE  DuckInv'
  <2>1. CASE Wake(s)
    BY <1>1, <1>2, <2>1 DEF Wake, pipeline
  <2>2. CASE TextWakeDuck(s)
    BY <1>1, <1>2, <2>2 DEF TextWakeDuck, pipeline
  <2>3. CASE ArmExpires(s)
    BY <1>1, <1>2, <2>3 DEF ArmExpires, pipeline
  <2>4. CASE CommandWindowCloses(s)
    BY <1>1, <1>2, <2>4 DEF CommandWindowCloses, pipeline
  <2>5. CASE Leaves(s)
    <3>1. latest' \in [Speakers -> 0 .. MaxGen]
      BY <1>2, <2>5 DEF Leaves, VoiceAssumption
    <3> QED  BY <1>1, <1>2, <2>5, <3>1 DEF Leaves
  <2>6. ASSUME NEW t \in Turns, Final(s, t) PROVE DuckInv'
    <3>1. NextGen(s) \in 0 .. MaxGen
      BY <1>0, <2>6, GenFacts DEF Final
    <3>2. latest' \in [Speakers -> 0 .. MaxGen]
      BY <1>2, <2>6, <3>1 DEF Final
    <3> QED  BY <1>1, <1>2, <2>6, <3>2 DEF Final
  <2> QED  BY <1>3, <2>1, <2>2, <2>3, <2>4, <2>5, <2>6
<1>4. CASE WatchdogFires
  BY <1>1, <1>2, <1>4 DEF WatchdogFires, pipeline
<1>5. CASE CaptureEnds
  BY <1>1, <1>2, <1>5 DEF CaptureEnds, pipeline
<1>6. ASSUME NEW t \in Turns,
             Ignored(t) \/ HeldForCommand(t) \/ InstantPhrase(t) \/ Unvoiced(t)
      PROVE  DuckInv'
  <2>1. CASE HeldForCommand(t)
    <3>1. turns[t].by \in Speakers
      BY <2>1, TypeParts, OwnedFacts DEF HeldForCommand, VoiceInv, ChainInv
    <3> QED  BY <1>1, <1>2, <2>1, <3>1 DEF HeldForCommand
  <2> QED  BY <1>1, <1>2, <1>6, <2>1 DEF Ignored, InstantPhrase, Unvoiced
<1>7. ASSUME UNCHANGED <<player, connected, duck, handoff, armed, latest, resuming>>,
             talking' => talking
      PROVE  DuckInv'
  BY <1>0, <1>7, StillHeld
     DEF player, duck, handoff, PlayerOK, DuckOK, HandoffOK, RestOK
<1>8. ASSUME NEW t \in Turns, Voiced(t) PROVE DuckInv'
  BY <1>7, <1>8 DEF Voiced
<1>9. CASE SpeechDropped \/ SpeechFailsafe \/ UNCHANGED vars
  BY <1>7, <1>9 DEF SpeechDropped, SpeechFailsafe, Settle, vars, pipeline
<1>10. ASSUME NEW t \in Turns, NEW reply \in Replies, Execute(t, reply) PROVE DuckInv'
  <2>1. /\ PlayerOK' /\ HandoffOK' /\ (reply \notin Clears => saved' = saved)
        /\ reply \in Clears => air' = NoSong
        /\ \/ ducked' = FALSE
           \/ ducked' = ducked /\ air' = air
           \/ reply \in {"answer", "none"} /\ air' = air
    BY <1>0, <1>10, ExecutedFacts, PrepareFacts DEF Execute, DuckOK
  <2>2. UNCHANGED <<connected, speech, talking, latest, resuming>>
    BY <1>10 DEF Execute
  <2>3. turns[t].by \in Speakers
    BY <1>10, TypeParts, OwnedFacts DEF Execute, VoiceInv, ChainInv
  <2>4. RestOK'
    BY <1>0, <1>10, <2>2, <2>3 DEF Execute, RestOK
  <2>5. CASE reply \in Starts \cup Controls
    <3>1. UNCHANGED <<capture, watchdog>> /\ reply \notin {"answer", "none"}
      BY <1>10, <2>5 DEF Execute, Starts, Controls, Clears
    <3>2. DuckOK' /\ (ducked' = FALSE \/ (ducked' = ducked /\ air' = air))
      BY <1>0, <2>1, <3>1 DEF DuckOK
    <3>3. DuckIsHeld'
      <4>1. CASE air' = NoSong
        <5>1. talking => ~ducked'
          BY <1>0, <3>2 DEF DuckIsHeld, DuckOK
        <5> QED  BY <4>1, <2>2, <5>1 DEF DuckIsHeld, VoiceAssumption
      <4>2. CASE air' # NoSong
        BY <1>0, <2>1, <2>2, <3>1, <3>2, <4>2, StillHeld
      <4> QED  BY <4>1, <4>2
    <3> QED  BY <2>1, <2>4, <3>2, <3>3
  <2>6. CASE reply \notin Starts \cup Controls
    <3>1. air' = air /\ saved' = saved
      BY <1>10, <2>1, <2>6 DEF Execute, Executed, Starts, Controls, Clears, player
    <3>2. EnsureDucked \/ UNCHANGED duck
      BY <1>10, <2>6 DEF Execute
    <3>3. DuckOK' /\ (UNCHANGED duck \/ (~talking /\ capture' # NoSong))
      BY <1>0, <3>2, EnsureDuckedFacts DEF duck, DuckOK
    <3>4. DuckIsHeld'
      BY <1>0, <2>2, <3>1, <3>3, StillHeld DEF duck
    <3> QED  BY <2>1, <2>4, <3>3, <3>4
  <2> QED  BY <2>5, <2>6
<1>11. ASSUME NEW t \in Turns, FinishTurn(t) PROVE DuckInv'
  <2>1. turns[t].outcome \in {"parked", "playback", "other"}
    BY TypeParts DEF VoiceInv, ChainOK, TurnRecords
  <2>2. UNCHANGED <<player, connected, speech, talking, latest, resuming>>
    BY <1>11 DEF FinishTurn
  <2>3. CASE FinishCaptureDuck(turns[t].by, turns[t].outcome)
    BY <1>0, <2>1, <2>2, <2>3, FinishFacts, StillHeld DEF player, PlayerOK, RestOK
  <2>4. CASE UNCHANGED <<duck, handoff, armed>>
    BY <1>7, <2>2, <2>4
  <2> QED  BY <1>11, <2>3, <2>4 DEF FinishTurn
<1>12. CASE StartSpeech
  <2>1. PlayerOK' /\ DuckOK' /\ HandoffOK' /\ RestOK' /\ ducked' = FALSE
    BY <1>0, <1>12
       DEF StartSpeech, PlayerOK, DuckOK, HandoffOK, RestOK, Silent, pipeline
  <2> QED  BY <1>0, <2>1, StillHeld
<1>13. CASE TrackEnd
  <2>1. ~talking' /\ UNCHANGED <<connected, capture, watchdog, armed, latest>>
    BY <1>0, <1>13 DEF TrackEnd, Settle
  <2>2. /\ PlayerOK' /\ ducked' \in BOOLEAN /\ saved' \in Silent
        /\ resuming' \subseteq [song : Songs, next : BOOLEAN]
        /\ ducked' = FALSE \/ air' = NoSong
    <3>1. CASE Swallows
      BY <1>0, <1>13, <3>1 DEF TrackEnd, PlayerOK, DuckOK, RestOK, Silent
    <3>2. CASE ~Swallows /\ saved = NoSong
      BY <1>0, <1>13, <3>2, AdvanceFacts DEF TrackEnd, RestOK, Silent
    <3>3. CASE ~Swallows /\ saved # NoSong
      BY <1>0, <1>13, <3>3, TryResumeFacts DEF TrackEnd, DuckOK
    <3> QED  BY <3>1, <3>2, <3>3
  <2>3. suppress' = "off"
    BY <1>13 DEF TrackEnd
  <2>4. DuckOK' /\ HandoffOK' /\ RestOK'
    BY <1>0, <2>1, <2>2, <2>3 DEF DuckOK, HandoffOK, RestOK
  <2> QED  BY <1>0, <2>1, <2>2, <2>4, StillHeld
<1>14. CASE PlayerError
  <2>1. PlayerOK' /\ ducked' = FALSE
    BY <1>0, <1>14, AdvanceFacts DEF PlayerError
  <2>2. DuckOK' /\ HandoffOK' /\ RestOK'
    BY <1>0, <1>14, <2>1 DEF PlayerError, DuckOK, HandoffOK, RestOK, Silent
  <2> QED  BY <1>0, <2>1, <2>2, StillHeld
<1>15. CASE BargeIn
  <2>1. ~talking' /\ UNCHANGED <<connected, suppress, capture, watchdog, armed, latest>>
    BY <1>15 DEF BargeIn, Settle
  <2>2. /\ PlayerOK' /\ ducked' \in BOOLEAN /\ saved' \in Silent
        /\ resuming' \subseteq [song : Songs, next : BOOLEAN]
        /\ ducked' = FALSE \/ air' = NoSong
    <3>1. CASE saved = NoSong
      BY <1>0, <1>15, <3>1, HushFacts DEF BargeIn, RestOK, Silent
    <3>2. CASE saved # NoSong
      BY <1>0, <1>15, <3>2, TryResumeFacts DEF BargeIn, DuckOK
    <3> QED  BY <3>1, <3>2
  <2>3. DuckOK' /\ HandoffOK' /\ RestOK'
    BY <1>0, <2>1, <2>2 DEF DuckOK, HandoffOK, RestOK
  <2> QED  BY <1>0, <2>1, <2>2, <2>3, StillHeld
<1>16. ASSUME NEW r \in resuming, Resumed(r) PROVE DuckInv'
  <2>1. r.song \in Silent
    BY <1>0 DEF RestOK, Silent
  <2>2. /\ resuming' = resuming \ {r}
        /\ UNCHANGED <<connected, capture, watchdog, saved, suppress, armed, talking, latest>>
    BY <1>16 DEF Resumed, handoff, pipeline
  <2>3. PlayerOK' /\ (ducked' = FALSE \/ (ducked' = ducked /\ air' = air))
    <3>1. CASE OnAir(r.song) /\ UNCHANGED <<current, paused>>
      BY <1>0, <2>1, <3>1 DEF OnAir, PlayerOK, Silent
    <3>2. CASE Advance
      BY <1>0, <3>2, AdvanceFacts
    <3>3. CASE UNCHANGED <<player, ducked>>
      BY <1>0, <3>3 DEF player, PlayerOK
    <3> QED  BY <1>16, <3>1, <3>2, <3>3 DEF Resumed
  <2>4. DuckOK' /\ HandoffOK' /\ RestOK'
    BY <1>0, <2>2, <2>3 DEF DuckOK, HandoffOK, RestOK
  <2> QED  BY <1>0, <2>2, <2>3, <2>4, StillHeld
<1>17. CASE ChatCommand
  <2>1. PICK reply \in Starts \cup Controls : Executed(reply)
    BY <1>17 DEF ChatCommand
  <2>2. PlayerOK' /\ (ducked' = FALSE \/ (ducked' = ducked /\ air' = air))
    BY <1>0, <2>1, ExecutedFacts DEF DuckOK, Starts, Controls, Clears
  <2>3. UNCHANGED <<connected, capture, watchdog, saved, suppress, armed, talking, latest, resuming>>
    BY <1>17 DEF ChatCommand, handoff, pipeline
  <2>4. DuckOK' /\ HandoffOK' /\ RestOK'
    BY <1>0, <2>2, <2>3 DEF DuckOK, HandoffOK, RestOK
  <2> QED  BY <1>0, <2>2, <2>3, <2>4, StillHeld
<1>18. CASE Disconnect \/ Reconfigure
  <2>0. 0 \in 0 .. MaxGen
    BY VoiceAssumption DEF VoiceAssumption
  <2>1. PlayerOK' /\ DuckOK' /\ HandoffOK' /\ RestOK' /\ ducked' = FALSE
    BY <1>0, <1>18, <2>0, ReleaseFacts
       DEF Disconnect, Reconfigure, player, pipeline, PlayerOK, DuckOK, HandoffOK, RestOK, Silent
  <2> QED  BY <1>0, <2>1, StillHeld
<1>19. CASE Connect \/ SuppressExpires
  <2>1. /\ PlayerOK' /\ DuckOK' /\ HandoffOK' /\ RestOK'
        /\ UNCHANGED <<ducked, air, talking, capture, saved>>
    BY <1>0, <1>19
       DEF Connect, SuppressExpires, player, duck, handoff, pipeline,
           PlayerOK, DuckOK, HandoffOK, RestOK
  <2> QED  BY <1>0, <2>1, StillHeld
<1>20. Continuation => DuckInv'
  BY <1>9, <1>11, <1>12, <1>16 DEF Continuation, SpeechBegins
<1>21. Event => DuckInv'
  BY <1>3, <1>4, <1>5, <1>6, <1>8, <1>9, <1>10, <1>13, <1>14, <1>15, <1>17, <1>18, <1>19
     DEF Event
<1> QED  BY <1>9, <1>20, <1>21 DEF Next

LEMMA VoiceInit == ASSUME VoiceAssumption, Init PROVE VoiceInv
<1>1. NoTurn \in TurnRecords /\ NoTurn.stage # "speaking"
  BY VoiceAssumption DEF NoTurn, Turn, TurnRecords, Stages, VoiceAssumption
<1>2. ChainOK /\ WaitersAreQueued /\ TurnsAreOwned
  <2>1. speech \in Seq(Turns) /\ Len(speech) = 0 /\ DOMAIN speech = 1 .. 0
    BY EmptySeq DEF Init
  <2>2. turns \in [Turns -> TurnRecords] /\ \A t \in Turns : turns[t] = NoTurn
    BY <1>1 DEF Init
  <2>3. talking = FALSE
    BY DEF Init
  <2>4. DOMAIN speech = {} /\ \A t \in Turns : turns[t].stage # "speaking"
    BY <1>1, <2>1, <2>2
  <2>5. ChainOK /\ TurnsAreOwned
    BY <2>1, <2>2, <2>3 DEF ChainOK, TurnsAreOwned
  <2>6. WaitersAreQueued
    BY <2>3, <2>4 DEF WaitersAreQueued
  <2> QED  BY <2>5, <2>6
<1>3. PlayerOK /\ DuckOK /\ HandoffOK /\ RestOK /\ DuckIsHeld
  <2>1. 0 \in 0 .. MaxGen
    BY VoiceAssumption DEF VoiceAssumption
  <2> QED
    BY <2>1 DEF Init, PlayerOK, DuckOK, HandoffOK, RestOK, Silent, DuckIsHeld
<1> QED  BY <1>2, <1>3, TypeParts DEF VoiceInv

LEMMA VoiceStep == ASSUME VoiceAssumption, VoiceInv, [Next]_vars PROVE VoiceInv'
<1>1. ChainInv' /\ DuckInv'
  BY ChainStep, DuckStep
<1>2. TypeOK'
  BY <1>1, TypeParts, PTL DEF ChainInv, DuckInv
<1> QED  BY <1>1, <1>2 DEF ChainInv, DuckInv, VoiceInv

\* The invariant of the voice loop: the types, the duck, the chain of replies.
THEOREM VoiceInvariant == Spec => []VoiceInv
<1>1. Init => VoiceInv
  BY VoiceInit, VoiceAssumption
<1>2. VoiceInv /\ [Next]_vars => VoiceInv'
  BY VoiceStep, VoiceAssumption
<1> QED  BY <1>1, <1>2, PTL DEF Spec

\* The variables of the voice loop keep their types, whatever chunks, replies,
\* commands and expired windows interleave.
THEOREM TypeCorrect == Spec => []TypeOK
  BY VoiceInvariant, PTL DEF VoiceInv

\* Whatever is said, typed, or lost while somebody is being listened to: no
\* reply is muttered at the volume of a duck, and no song is left at it
\* without anything that remembers to turn it up.
THEOREM DuckNeverLingers == Spec => []DuckIsHeld
  BY VoiceInvariant, PTL DEF VoiceInv

\* Every turn that awaits its reply has one place in the chain, and what is
\* being spoken is the chain's head.
THEOREM WaitersHaveAPlace == Spec => []WaitersAreQueued
  BY VoiceInvariant, PTL DEF VoiceInv

-----------------------------------------------------------------------------
(* Who will lift the duck.                                                 *)

\* What is held before a step is held after it if one of its holders stays.
LEMMA HoldsOn ==
    ASSUME Held,
           \/ capture' = NoSong
           \/ armed' # {}
           \/ watchdog'
           \/ \E t \in Turns : LiveTurn(t)'
           \/ /\ capture' # NoSong => capture # NoSong
              /\ armed \subseteq armed'
              /\ watchdog => watchdog'
              /\ \A t \in Turns : LiveTurn(t) => LiveTurn(t)'
    PROVE  Held'
  BY DEF Held

\* The end of the speaker's latest turn drops the capture or leaves the
\* speaker's window open.
LEMMA FinishHolds ==
    ASSUME NEW s, NEW outcome, FinishCaptureDuck(s, outcome)
    PROVE  Held'
<1>1. CASE outcome = "other"
  <2>1. armed' = armed
    BY <1>1 DEF FinishCaptureDuck
  <2>2. \/ UNCHANGED duck /\ capture = NoSong
        \/ UNCHANGED duck /\ s \in armed
        \/ capture' = NoSong
        \/ Release
    BY <1>1 DEF FinishCaptureDuck
  <2> QED  BY <2>1, <2>2, ReleaseFacts DEF Held, duck
<1>2. CASE outcome # "other"
  BY <1>2, ReleaseFacts DEF FinishCaptureDuck, Held
<1> QED  BY <1>1, <1>2

\* A turn that only goes on stays as live as it was.
LEMMA LivesOn ==
    ASSUME NEW t \in Turns, LiveTurn(t), turns'[t] # NoTurn,
           SameTurn(t), latest'[turns[t].by] = latest[turns[t].by]
    PROVE  LiveTurn(t)'
  BY DEF LiveTurn, Latest, SameTurn

\* A step that changes no holder but the stages of the turns.
LEMMA OnlyStages ==
    ASSUME Held, UNCHANGED <<capture, watchdog, armed, latest>>,
           \A t \in Turns : turns[t] # NoTurn =>
             turns'[t] # NoTurn /\ SameTurn(t)
    PROVE  Held'
<1>1. \A t \in Turns : LiveTurn(t) => LiveTurn(t)'
  BY LivesOn DEF LiveTurn
<1> QED  BY <1>1, HoldsOn

\* A turn's next stage is not the end of the turn.
LEMMA StageGoesOn ==
    ASSUME ChainInv, NEW t \in Turns, turns[t].stage # "free",
           NEW stage \in Stages \ {"free"}, Stage(t, stage)
    PROVE  \A u \in Turns : turns[u] # NoTurn =>
             turns'[u] # NoTurn /\ SameTurn(u)
<1>1. /\ turns'[t].stage = stage /\ SameTurn(t)
      /\ \A u \in Turns \ {t} : turns'[u] = turns[u]
  BY StageFacts
<1>2. turns'[t] # NoTurn
  BY <1>1 DEF NoTurn, Turn
<1> QED  BY <1>1, <1>2 DEF SameTurn

\* As long as every turn in progress is its speaker's latest, no step leaves
\* the duck without anybody to lift it.
LEMMA StrandStep ==
    ASSUME VoiceAssumption, VoiceInv, [Next]_vars, Held,
           \A t \in Turns : turns[t] # NoTurn => latest'[turns[t].by] = turns[t].gen
    PROVE  Held'
<1>0. ChainInv /\ (talking => speech # <<>>)
  BY TypeParts DEF VoiceInv, ChainInv, WaitersAreQueued
<1>1. CASE UNCHANGED <<capture, watchdog, armed, latest, turns>>
  BY <1>1, OnlyStages DEF SameTurn
<1>2. ASSUME NEW s \in Speakers, NEW t \in Turns, Final(s, t) PROVE Held'
  <2>1. turns'[t] = Turn(s, NextGen(s), "routing", "finishing", "other") /\ latest'[s] = NextGen(s)
    BY <1>0, <1>2, TypeParts DEF Final, ChainInv, ChainOK, VoiceInv, RestOK
  <2>2. LiveTurn(t)'
    BY <2>1 DEF LiveTurn, Latest, NoTurn, Turn
  <2> QED  BY <2>2, HoldsOn
<1>3. ASSUME NEW s \in Speakers,
             Wake(s) \/ TextWakeDuck(s) \/ ArmExpires(s) \/ CommandWindowCloses(s)
      PROVE  Held'
  <2>1. CASE Wake(s)
    BY <2>1, HoldsOn DEF Wake
  <2>2. CASE TextWakeDuck(s)
    <3>1. capture = NoSong /\ EnsureDucked
      BY <2>2 DEF TextWakeDuck
    <3>2. capture' # NoSong => watchdog'
      BY <3>1, EnsureDuckedFacts, TypeParts DEF VoiceInv
    <3> QED  BY <3>2, HoldsOn
  <2>3. CASE ArmExpires(s)
    BY <2>3, ReleaseFacts, HoldsOn DEF ArmExpires
  <2>4. CASE CommandWindowCloses(s)
    BY <2>4, ReleaseFacts, HoldsOn DEF CommandWindowCloses
  <2> QED  BY <1>3, <2>1, <2>2, <2>3, <2>4
<1>4. ASSUME NEW s \in Speakers, Leaves(s) PROVE Held'
  <2>1. CASE s \in armed
    BY <1>4, <2>1, ReleaseFacts, HoldsOn DEF Leaves
  <2>2. CASE s \notin armed
    <3>1. /\ armed' = armed /\ UNCHANGED <<capture, watchdog, turns>>
          /\ latest' = [latest EXCEPT ![s] = 0]
      BY <1>4, <2>2 DEF Leaves, duck
    <3>2. ASSUME NEW t \in Turns, LiveTurn(t) PROVE LiveTurn(t)'
      <4>1. latest'[turns[t].by] = turns[t].gen
        BY <3>2 DEF LiveTurn
      <4> QED  BY <3>1, <3>2, <4>1 DEF LiveTurn, Latest
    <3> QED  BY <3>1, <3>2, HoldsOn
  <2> QED  BY <2>1, <2>2
<1>5. CASE WatchdogFires
  <2>1. CASE capture # NoSong /\ armed = {}
    BY <1>5, <2>1, ReleaseFacts, HoldsOn DEF WatchdogFires
  <2>2. CASE ~(capture # NoSong /\ armed = {})
    BY <1>5, <2>2, HoldsOn DEF WatchdogFires
  <2> QED  BY <2>1, <2>2
<1>6. CaptureEnds \/ Disconnect \/ Reconfigure \/ StartSpeech => Held'
  BY ReleaseFacts, HoldsOn DEF CaptureEnds, Disconnect, Reconfigure, StartSpeech
<1>7. ASSUME NEW t \in Turns,
             Ignored(t) \/ InstantPhrase(t) \/ Voiced(t) \/ Unvoiced(t)
      PROVE  Held'
  <2>1. UNCHANGED <<capture, watchdog, armed, latest>>
    BY <1>7 DEF Ignored, InstantPhrase, Voiced, Unvoiced, duck
  <2>2. CASE InstantPhrase(t)
    <3>1. turns[t] \in TurnRecords
      BY <1>0 DEF ChainInv, ChainOK
    <3>2. PICK then \in {"executing", "finishing"} :
            turns' = [turns EXCEPT ![t] = [turns[t] EXCEPT !.stage = "voicing", !.then = then]]
      BY <1>0, <2>2 DEF InstantPhrase, ChainInv, ChainOK
    <3>3. /\ turns'[t].stage = "voicing" /\ SameTurn(t)
          /\ \A u \in Turns \ {t} : turns'[u] = turns[u]
      BY <1>0, <3>1, <3>2 DEF ChainInv, ChainOK, TurnRecords, SameTurn
    <3>4. turns'[t] # NoTurn
      BY <3>3 DEF NoTurn, Turn
    <3> QED  BY <2>1, <3>3, <3>4, OnlyStages DEF SameTurn
  <2>3. ASSUME NEW stage \in Stages \ {"free"}, turns[t].stage # "free", Stage(t, stage)
        PROVE  Held'
    BY <1>0, <2>1, <2>3, StageGoesOn, OnlyStages
  <2>4. turns[t].then \in {"executing", "finishing"}
    BY <1>0 DEF ChainInv, ChainOK, TurnRecords
  <2> QED  BY <1>7, <2>2, <2>3, <2>4 DEF Ignored, Voiced, Unvoiced, Stages
<1>8. ASSUME NEW t \in Turns, HeldForCommand(t) PROVE Held'
  BY <1>8, HoldsOn DEF HeldForCommand
<1>9. ASSUME NEW t \in Turns, NEW reply \in Replies, Execute(t, reply) PROVE Held'
  <2>1. latest'[turns[t].by] = turns[t].gen /\ turns[t].by \in Speakers
    BY <1>0, <1>9, OwnedFacts DEF Execute
  <2>2. PICK stage \in {"finishing", "voicing"} :
          turns' = [turns EXCEPT ![t] = Turn(@.by, @.gen, stage, "finishing", Outcome(reply))]
    BY <1>9 DEF Execute
  <2>3. turns'[t] = Turn(turns[t].by, turns[t].gen, stage, "finishing", Outcome(reply))
    BY <1>0, <2>2 DEF ChainInv, ChainOK
  <2>4. LiveTurn(t)'
    BY <2>1, <2>3 DEF LiveTurn, Latest, NoTurn, Turn
  <2> QED  BY <2>4, HoldsOn
<1>10. ASSUME NEW t \in Turns, FinishTurn(t) PROVE Held'
  <2>1. Latest(t)
    BY <1>0, <1>10, OwnedFacts DEF FinishTurn, Latest
  <2>2. FinishCaptureDuck(turns[t].by, turns[t].outcome)
    BY <1>10, <2>1 DEF FinishTurn
  <2> QED  BY <2>2, FinishHolds
<1>11. ASSUME speech # <<>>, Settle, UNCHANGED <<capture, watchdog, armed, latest>>
       PROVE  Held'
  BY <1>0, <1>11, SettleChain, OnlyStages
<1>12. SpeechDropped \/ SpeechFailsafe \/ TrackEnd \/ PlayerError \/ BargeIn => Held'
  BY <1>0, <1>1, <1>11
     DEF SpeechDropped, SpeechFailsafe, TrackEnd, PlayerError, BargeIn, duck
<1>13. ASSUME NEW r \in resuming, Resumed(r) PROVE Held'
  BY <1>1, <1>13 DEF Resumed, pipeline
<1>14. ChatCommand \/ Connect \/ SuppressExpires \/ UNCHANGED vars => Held'
  BY <1>1 DEF ChatCommand, Connect, SuppressExpires, duck, pipeline, vars
<1> QED
  BY <1>2, <1>3, <1>4, <1>5, <1>6, <1>7, <1>8, <1>9, <1>10, <1>12, <1>13, <1>14
     DEF Next, Continuation, Event, SpeechBegins

\* Only a turn that is no longer its speaker's latest can leave the music
\* ducked for good: each other way the handlers have of giving up a window, a
\* watchdog or a turn hands the duck to the next one or lifts it.
THEOREM OthersNeverStrand == Spec => OnlyStaleTurnsStrand
<1>1. VoiceInv /\ [Next]_vars =>
        [Held /\ ~Held' => \E t \in Turns : turns[t] # NoTurn /\ latest'[turns[t].by] # turns[t].gen]_vars
  BY StrandStep, VoiceAssumption
<1> QED  BY <1>1, VoiceInvariant, PTL DEF Spec, OnlyStaleTurnsStrand
==============================================================================
