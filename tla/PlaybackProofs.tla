---------------------------- MODULE PlaybackProofs ----------------------------
(***************************************************************************)
(* Proofs about the playback engine, for every set of songs and every      *)
(* bound on retries and failures: the chain never holds two songs of       *)
(* playNext and its flag is never left set, a pause ends with the music    *)
(* that is put on, and a bot that has lost its connection is silent.       *)
(***************************************************************************)
EXTENDS Playback, SpliceFacts

-----------------------------------------------------------------------------
(* The queue *)

QueueOK ==
    /\ line \in Seq(Songs)
    /\ now = NoSong \/ Queue!Queued(now)

\* A song is inserted, and becomes the current one or leaves it as it is.
LEMMA InsertKeepsQueue ==
    ASSUME QueueOK, NEW s \in Songs, Queue!Insert(s), now' = now \/ now' = s
    PROVE  QueueOK'
<1>1. PICK at \in 1 .. Len(line) + 1 : line' = Queue!InsertAt(line, at, s)
  BY DEF Queue!Insert
<1>2. line' = InsertAt(line, at, s)
  BY <1>1 DEF InsertAt, Queue!InsertAt
<1>3. line \in Seq(Songs) /\ DOMAIN line = 1 .. Len(line) /\ Len(line) \in Nat
  BY DEF QueueOK
<1>4. /\ line' \in Seq(Songs)
      /\ Len(line') = Len(line) + 1
      /\ \A i \in 1 .. Len(line) + 1 :
           line'[i] = IF i < at THEN line[i] ELSE IF i = at THEN s ELSE line[i - 1]
  <2>1. /\ InsertAt(line, at, s) \in Seq(Songs)
        /\ Len(InsertAt(line, at, s)) = Len(line) + 1
        /\ \A i \in 1 .. Len(line) + 1 :
             InsertAt(line, at, s)[i] =
               IF i < at THEN line[i] ELSE IF i = at THEN s ELSE line[i - 1]
    BY <1>3, InsertAtProperties
  <2> QED  BY <1>2, <2>1
<1>5. DOMAIN line' = 1 .. Len(line) + 1
  BY <1>3, <1>4
<1>6. ASSUME NEW i \in DOMAIN line PROVE \E j \in DOMAIN line' : line'[j] = line[i]
  <2>1. CASE i < at
    BY <1>3, <1>4, <1>5, <2>1
  <2>2. CASE ~(i < at)
    <3>1. i + 1 \in 1 .. Len(line) + 1 /\ ~(i + 1 < at) /\ i + 1 # at /\ (i + 1) - 1 = i
      BY <1>3, <2>2
    <3> QED  BY <1>4, <1>5, <3>1
  <2> QED  BY <2>1, <2>2
<1>7. \E j \in DOMAIN line' : line'[j] = s
  BY <1>3, <1>4, <1>5
<1> QED  BY <1>4, <1>6, <1>7 DEF QueueOK, Queue!Queued

\* The current song moves to a queued one.
LEMMA GoKeepsQueue ==
    ASSUME QueueOK, NEW s, Queue!Go(s)
    PROVE  QueueOK' /\ s \in Songs
  BY DEF QueueOK, Queue!Go, Queue!Queued

\* A song is removed; the current song, or else its predecessor, remains.
LEMMA DequeueKeepsQueue ==
    ASSUME QueueOK, NEW s \in Songs, Queue!Dequeue(s)
    PROVE  QueueOK'
<1>1. PICK r \in DOMAIN line :
        /\ line[r] = s
        /\ line' = Queue!RemoveAt(line, r)
        /\ now' = IF s # now THEN now ELSE IF r = 1 THEN NoSong ELSE line[r - 1]
  BY DEF Queue!Dequeue
<1>2. line' = RemoveAt(line, r)
  BY <1>1 DEF RemoveAt, Queue!RemoveAt
<1>3. /\ line \in Seq(Songs) /\ DOMAIN line = 1 .. Len(line) /\ Len(line) \in Nat
      /\ r \in 1 .. Len(line)
  BY DEF QueueOK
<1>4. /\ line' \in Seq(Songs)
      /\ Len(line') = Len(line) - 1
      /\ \A i \in 1 .. Len(line) - 1 :
           line'[i] = IF i < r THEN line[i] ELSE line[i + 1]
  <2>1. /\ RemoveAt(line, r) \in Seq(Songs)
        /\ Len(RemoveAt(line, r)) = Len(line) - 1
        /\ \A i \in 1 .. Len(line) - 1 :
             RemoveAt(line, r)[i] = IF i < r THEN line[i] ELSE line[i + 1]
    BY <1>3, RemoveAtProperties
  <2> QED  BY <1>2, <2>1
<1>5. DOMAIN line' = 1 .. Len(line) - 1
  BY <1>3, <1>4
<1>6. ASSUME NEW i \in DOMAIN line, i # r PROVE \E j \in DOMAIN line' : line'[j] = line[i]
  <2>1. CASE i < r
    <3>1. i \in 1 .. Len(line) - 1
      BY <1>3, <2>1
    <3> QED  BY <1>4, <1>5, <2>1, <3>1
  <2>2. CASE ~(i < r)
    <3>1. i - 1 \in 1 .. Len(line) - 1 /\ ~(i - 1 < r) /\ (i - 1) + 1 = i
      BY <1>3, <1>6, <2>2
    <3> QED  BY <1>4, <1>5, <3>1
  <2> QED  BY <2>1, <2>2
<1>7. CASE s # now
  <2>1. now' = now /\ (now = NoSong \/ \E i \in DOMAIN line : line[i] = now /\ i # r)
    BY <1>1, <1>7 DEF QueueOK, Queue!Queued
  <2> QED  BY <1>4, <1>6, <2>1 DEF QueueOK, Queue!Queued
<1>8. CASE s = now /\ r = 1
  BY <1>1, <1>4, <1>8 DEF QueueOK
<1>9. CASE s = now /\ r # 1
  <2>1. now' = line[r - 1] /\ r - 1 \in DOMAIN line /\ r - 1 # r
    BY <1>1, <1>3, <1>9
  <2> QED  BY <1>4, <1>6, <2>1 DEF QueueOK, Queue!Queued
<1> QED  BY <1>7, <1>8, <1>9

-----------------------------------------------------------------------------
(* The chain *)

\* The flag b is set exactly while the one playNext job is on the chain q.
Guarded(q, b) ==
    /\ b <=> \E k \in DOMAIN q : q[k].by = "playNext"
    /\ \A j, k \in DOMAIN q : q[j].by = "playNext" /\ q[k].by = "playNext" => j = k

ChainOK(q, b) == q \in Seq(JobRecords) /\ b \in BOOLEAN /\ Guarded(q, b)

\* A job is put on the chain; one of playNext's only if there is none yet.
LEMMA AppendedChain ==
    ASSUME NEW q, NEW b, NEW r \in JobRecords, ChainOK(q, b), r.by = "playNext" => ~b
    PROVE  ChainOK(Append(q, r), b \/ r.by = "playNext")
<1>1. q \in Seq(JobRecords) /\ DOMAIN q = 1 .. Len(q) /\ Len(q) \in Nat /\ Guarded(q, b)
  BY DEF ChainOK
<1>2. /\ Append(q, r) \in Seq(JobRecords)
      /\ DOMAIN Append(q, r) = 1 .. Len(q) + 1
      /\ \A i \in 1 .. Len(q) : Append(q, r)[i] = q[i]
      /\ Append(q, r)[Len(q) + 1] = r
  BY <1>1
<1>3. (b \/ r.by = "playNext") <=>
        \E k \in DOMAIN Append(q, r) : Append(q, r)[k].by = "playNext"
  <2>1. ASSUME b PROVE \E k \in DOMAIN Append(q, r) : Append(q, r)[k].by = "playNext"
    <3>1. PICK k \in DOMAIN q : q[k].by = "playNext"
      BY <1>1, <2>1 DEF Guarded
    <3>2. k \in DOMAIN Append(q, r) /\ Append(q, r)[k] = q[k]
      BY <1>1, <1>2
    <3> QED  BY <3>1, <3>2
  <2>2. ASSUME r.by = "playNext"
        PROVE  \E k \in DOMAIN Append(q, r) : Append(q, r)[k].by = "playNext"
    <3>1. Len(q) + 1 \in DOMAIN Append(q, r)
      BY <1>1, <1>2
    <3> QED  BY <1>2, <2>2, <3>1
  <2>3. ASSUME NEW k \in DOMAIN Append(q, r), Append(q, r)[k].by = "playNext"
        PROVE  b \/ r.by = "playNext"
    <3>1. k \in 1 .. Len(q) \/ k = Len(q) + 1
      BY <1>1, <1>2
    <3> QED  BY <1>1, <1>2, <2>3, <3>1 DEF Guarded
  <2> QED  BY <2>1, <2>2, <2>3
<1>4. ASSUME NEW j \in DOMAIN Append(q, r), NEW k \in DOMAIN Append(q, r),
             Append(q, r)[j].by = "playNext", Append(q, r)[k].by = "playNext"
      PROVE  j = k
  <2>1. /\ j \in 1 .. Len(q) \/ j = Len(q) + 1
        /\ k \in 1 .. Len(q) \/ k = Len(q) + 1
    BY <1>1, <1>2
  <2>2. CASE r.by = "playNext"
    <3>1. \A i \in 1 .. Len(q) : q[i].by # "playNext"
      BY <1>1, <2>2 DEF Guarded
    <3> QED  BY <1>2, <1>4, <2>1, <3>1
  <2>3. CASE r.by # "playNext"
    <3>1. j \in 1 .. Len(q) /\ k \in 1 .. Len(q)
      BY <1>2, <1>4, <2>1, <2>3
    <3> QED  BY <1>1, <1>2, <1>4, <3>1 DEF Guarded
  <2> QED  BY <2>2, <2>3
<1>5. (b \/ r.by = "playNext") \in BOOLEAN
  BY DEF ChainOK
<1> QED  BY <1>2, <1>3, <1>4, <1>5 DEF ChainOK, Guarded

\* The head leaves the chain; with it the flag goes if it was playNext's.
LEMMA ShortenedChain ==
    ASSUME NEW q, NEW b, ChainOK(q, b), q # <<>>
    PROVE  /\ Head(q) \in JobRecords
           /\ ChainOK(Tail(q), b /\ Head(q).by # "playNext")
           /\ Head(q).by = "playNext" => b
<1>1. /\ q \in Seq(JobRecords) /\ DOMAIN q = 1 .. Len(q) /\ Len(q) \in Nat
      /\ Guarded(q, b) /\ b \in BOOLEAN
  BY DEF ChainOK
<1>2. /\ Len(q) >= 1 /\ Head(q) = q[1] /\ 1 \in DOMAIN q
      /\ Tail(q) \in Seq(JobRecords)
      /\ DOMAIN Tail(q) = 1 .. Len(q) - 1
      /\ \A i \in 1 .. Len(q) - 1 : Tail(q)[i] = q[i + 1]
  BY <1>1
<1>3. (b /\ Head(q).by # "playNext") <=> \E k \in DOMAIN Tail(q) : Tail(q)[k].by = "playNext"
  <2>1. ASSUME b, Head(q).by # "playNext"
        PROVE  \E k \in DOMAIN Tail(q) : Tail(q)[k].by = "playNext"
    <3>1. PICK k \in DOMAIN q : q[k].by = "playNext"
      BY <1>1, <2>1 DEF Guarded
    <3>2. k # 1
      BY <1>2, <2>1, <3>1
    <3>3. k - 1 \in 1 .. Len(q) - 1 /\ (k - 1) + 1 = k
      BY <1>1, <3>2
    <3> QED  BY <1>2, <3>1, <3>3
  <2>2. ASSUME NEW k \in DOMAIN Tail(q), Tail(q)[k].by = "playNext"
        PROVE  b /\ Head(q).by # "playNext"
    <3>1. k + 1 \in DOMAIN q /\ q[k + 1].by = "playNext" /\ k + 1 # 1
      BY <1>1, <1>2, <2>2
    <3> QED  BY <1>1, <1>2, <3>1 DEF Guarded
  <2> QED  BY <2>1, <2>2
<1>4. ASSUME NEW j \in DOMAIN Tail(q), NEW k \in DOMAIN Tail(q),
             Tail(q)[j].by = "playNext", Tail(q)[k].by = "playNext"
      PROVE  j = k
  <2>1. /\ j + 1 \in DOMAIN q /\ q[j + 1].by = "playNext"
        /\ k + 1 \in DOMAIN q /\ q[k + 1].by = "playNext"
    BY <1>1, <1>2, <1>4
  <2>2. j + 1 = k + 1
    BY <1>1, <2>1 DEF Guarded
  <2> QED  BY <1>2, <2>2
<1>5. Head(q).by = "playNext" => b
  BY <1>1, <1>2 DEF Guarded
<1>6. Head(q) \in JobRecords
  BY <1>1, <1>2
<1> QED  BY <1>1, <1>2, <1>3, <1>4, <1>5, <1>6 DEF ChainOK, Guarded

\* A user's, !prev's or resume's song is put on the chain; the flag stays.
LEMMA AskedChain ==
    ASSUME NEW q, NEW b, NEW r \in JobRecords, ChainOK(q, b), r.by # "playNext"
    PROVE  ChainOK(Append(q, r), b)
<1>1. ChainOK(Append(q, r), b \/ r.by = "playNext")
  BY AppendedChain
<1>2. (b \/ r.by = "playNext") = b
  BY DEF ChainOK
<1> QED  BY <1>1, <1>2

\* What a command asks for is a job.
LEMMA AsksAreJobs ==
    ASSUME NEW s \in Songs, NEW by \in Askers, NEW left \in 0 .. MaxRetries,
           NEW at \in Songs \cup {NoSong}
    PROVE  Ask(s, by, left, at) \in JobRecords /\ Ask(s, by, left, at).by = by
  BY DEF Ask, JobRecords

LEMMA UserAsksAreJobs ==
    ASSUME NEW s \in Songs
    PROVE  UserAsk(s) \in JobRecords /\ UserAsk(s).by = "user"
<1>1. 0 \in 0 .. MaxRetries /\ "user" \in Askers /\ NoSong \in Songs \cup {NoSong}
  BY PlaybackAssumption DEF Askers
<1> QED  BY <1>1, AsksAreJobs DEF UserAsk

-----------------------------------------------------------------------------
(* The inductive invariant *)

\* The player; a song that is about to play was accepted below the limit, so
\* that its failure does not exceed it.
AirOK ==
    /\ air \in [song : Songs, stage : Stages, test : BOOLEAN] \cup {Silence}
    /\ fails \in 0 .. MaxFailures
    /\ air.stage = "starting" => fails < MaxFailures

PauseOK == paused \in [song : Songs, at : Songs \cup {NoSong}] \cup {NotPaused}

EngineInv ==
    /\ QueueOK
    /\ ChainOK(jobs, advancing)
    /\ AirOK
    /\ PauseOK
    /\ PauseEndsWithMusic
    /\ connected \in BOOLEAN
    /\ SilentWhenDisconnected

\* playNext keeps the queue and the chain in order; it leaves the player in
\* the state it was found in or stops it.
LEMMA PlayNextKeeps ==
    ASSUME QueueOK, NEW q, NEW a, ChainOK(q, advancing), PlayNext(q, a)
    PROVE  /\ QueueOK'
           /\ ChainOK(jobs', advancing')
           /\ air' = a \/ air' = Silence
           /\ ~connected => air' = a
<1>1. CASE Locked
  BY <1>1 DEF PlayNext, QueueOK, Queue!Queued
<1>2. CASE ~Locked
  <2>1. ~advancing /\ connected
    BY <1>2 DEF Locked
  <2>2. CASE /\ jobs' = q
             /\ air' = Silence
             /\ UNCHANGED <<line, now, advancing>>
    BY <2>1, <2>2 DEF QueueOK, Queue!Queued
  <2>3. ASSUME NEW s \in Songs, Queue!Go(s), advancing' = TRUE, air' = a,
               jobs' = Append(q, Ask(s, "playNext", MaxRetries, NoSong))
        PROVE  QueueOK' /\ ChainOK(jobs', advancing')
    <3>1. QueueOK'
      BY <2>3, GoKeepsQueue
    <3>2. MaxRetries \in 0 .. MaxRetries /\ "playNext" \in Askers
      BY PlaybackAssumption DEF Askers
    <3> DEFINE r == Ask(s, "playNext", MaxRetries, NoSong)
    <3>3. r \in JobRecords /\ r.by = "playNext"
      BY <3>2, AsksAreJobs
    <3> HIDE DEF r
    <3>4. ChainOK(Append(q, r), advancing \/ r.by = "playNext")
      BY <2>1, <3>3, AppendedChain
    <3>5. (advancing \/ r.by = "playNext") = advancing'
      BY <2>3, <3>3
    <3>6. jobs' = Append(q, r)
      BY <2>3 DEF r
    <3> QED  BY <3>1, <3>4, <3>5, <3>6
  <2> QED  BY <1>2, <2>1, <2>2, <2>3 DEF PlayNext
<1> QED  BY <1>1, <1>2

\* Initially nothing is queued, waits or plays.
LEMMA EngineInvInit == Init => EngineInv
<1> SUFFICES ASSUME Init PROVE EngineInv
  OBVIOUS
<1>1. QueueOK
  BY DEF Init, Queue!Init, QueueOK
<1>2. ChainOK(jobs, advancing)
  <2>1. jobs = <<>> /\ advancing = FALSE /\ <<>> \in Seq(JobRecords) /\ DOMAIN <<>> = {}
    BY DEF Init
  <2>2. Guarded(<<>>, FALSE)
    BY <2>1 DEF Guarded
  <2> QED  BY <2>1, <2>2 DEF ChainOK
<1>3. AirOK /\ PauseOK /\ PauseEndsWithMusic
  BY PlaybackAssumption DEF Init, AirOK, Silence, PauseOK, PauseEndsWithMusic, NotPaused
<1> QED  BY <1>1, <1>2, <1>3 DEF Init, EngineInv, SilentWhenDisconnected

\* A command that puts the user's song on the chain.
LEMMA UserAskedChain ==
    ASSUME NEW s \in Songs, ChainOK(jobs, advancing),
           jobs' = Append(jobs, UserAsk(s)), advancing' = advancing
    PROVE  ChainOK(jobs', advancing')
<1> DEFINE r == UserAsk(s)
<1>1. r \in JobRecords /\ r.by # "playNext"
  BY UserAsksAreJobs
<1> HIDE DEF r
<1>2. ChainOK(Append(jobs, r), advancing)
  BY <1>1, AskedChain
<1>3. jobs' = Append(jobs, r)
  BY DEF r
<1> QED  BY <1>2, <1>3

\* !test puts its song on the chain.
LEMMA TestAskedChain ==
    ASSUME NEW s \in Songs, ChainOK(jobs, advancing),
           jobs' = Append(jobs, Ask(s, "test", 0, NoSong)), advancing' = advancing
    PROVE  ChainOK(jobs', advancing')
<1> DEFINE r == Ask(s, "test", 0, NoSong)
<1>1. 0 \in 0 .. MaxRetries /\ "test" \in Askers /\ NoSong \in Songs \cup {NoSong}
  BY PlaybackAssumption DEF Askers
<1>2. r \in JobRecords /\ r.by # "playNext"
  BY <1>1, AsksAreJobs
<1> HIDE DEF r
<1>3. ChainOK(Append(jobs, r), advancing)
  BY <1>2, AskedChain
<1>4. jobs' = Append(jobs, r)
  BY DEF r
<1> QED  BY <1>3, <1>4

\* A queue with one song, its current one, and a queue without any.
LEMMA ReplacedQueue ==
    ASSUME NEW s \in Songs, line' = <<s>>, now' = s
    PROVE  QueueOK'
<1>1. <<s>> \in Seq(Songs) /\ 1 \in DOMAIN <<s>> /\ <<s>>[1] = s
  OBVIOUS
<1> QED  BY <1>1 DEF QueueOK, Queue!Queued

LEMMA EmptiedQueue ==
    ASSUME Queue!Empty
    PROVE  QueueOK'
<1>1. line' = <<>> /\ now' = NoSong
  BY DEF Queue!Empty
<1>2. line' \in Seq(Songs)
  BY <1>1
<1> QED  BY <1>1, <1>2 DEF QueueOK

\* The player is left alone or stopped, and so is the checkpoint.
LEMMA PlayerLeftAlone ==
    ASSUME AirOK, PauseOK, PauseEndsWithMusic, SilentWhenDisconnected, connected \in BOOLEAN,
           air' = air \/ air' = Silence, fails' = fails \/ fails' = 0,
           paused' = paused \/ paused' = NotPaused,
           connected' = connected \/ (connected' = FALSE /\ air' = Silence)
    PROVE  /\ AirOK' /\ PauseOK' /\ PauseEndsWithMusic'
           /\ connected' \in BOOLEAN /\ SilentWhenDisconnected'
<1>1. Silence.stage # "starting" /\ 0 < MaxFailures /\ 0 \in 0 .. MaxFailures
  BY PlaybackAssumption DEF Silence
<1>2. AirOK'
  BY <1>1 DEF AirOK
<1> QED  BY <1>2 DEF PauseOK, PauseEndsWithMusic, SilentWhenDisconnected, Idle

\* One step per action: no command, job, event of the player or loss of the
\* connection breaks the invariant.
LEMMA EngineInvNext == EngineInv /\ [Next]_vars => EngineInv'
<1> SUFFICES ASSUME EngineInv, [Next]_vars PROVE EngineInv'
  OBVIOUS
<1>0. /\ QueueOK /\ ChainOK(jobs, advancing) /\ AirOK /\ PauseOK /\ PauseEndsWithMusic
      /\ connected \in BOOLEAN /\ SilentWhenDisconnected
  BY DEF EngineInv
<1> DEFINE PlayerOK == /\ AirOK' /\ PauseOK' /\ PauseEndsWithMusic'
                       /\ connected' \in BOOLEAN /\ SilentWhenDisconnected'
<1>A. ASSUME QueueOK', ChainOK(jobs', advancing'), PlayerOK PROVE EngineInv'
  BY <1>A DEF EngineInv, ChainOK, Guarded
<1> HIDE DEF PlayerOK
<1>1. ASSUME NEW s \in Songs, PlayNow(s) PROVE EngineInv'
  <2>1. QueueOK'
    <3>1. PICK l \in {<<s>>} \cup {<<s, t>> : t \in Songs \ {s}} : line' = l /\ now' = s
      BY <1>1 DEF PlayNow
    <3>2. l \in Seq(Songs) /\ 1 \in DOMAIN l /\ l[1] = s
      <4>1. CASE l = <<s>>
        BY <4>1
      <4>2. ASSUME NEW t \in Songs, l = <<s, t>> PROVE l \in Seq(Songs) /\ 1 \in DOMAIN l /\ l[1] = s
        BY <4>2
      <4> QED  BY <4>1, <4>2
    <3> QED  BY <3>1, <3>2 DEF QueueOK, Queue!Queued
  <2>2. ChainOK(jobs', advancing')
    BY <1>0, <1>1, UserAskedChain DEF PlayNow
  <2>3. PlayerOK
    BY <1>0, <1>1, PlayerLeftAlone DEF PlayNow, PlayerOK
  <2> QED  BY <1>A, <2>1, <2>2, <2>3
<1>2. ASSUME NEW s \in Songs, Add(s) PROVE EngineInv'
  <2>1. QueueOK'
    BY <1>0, <1>2, InsertKeepsQueue DEF Add
  <2>2. ChainOK(jobs', advancing')
    <3>1. CASE jobs' = Append(jobs, UserAsk(s))
      BY <1>0, <1>2, <3>1, UserAskedChain DEF Add
    <3>2. CASE jobs' = jobs
      BY <1>0, <1>2, <3>2 DEF Add
    <3> QED  BY <1>2, <3>1, <3>2 DEF Add
  <2>3. PlayerOK
    <3>1. fails' = fails \/ fails' = 0
      BY <1>2 DEF Add
    <3> QED  BY <1>0, <1>2, <3>1, PlayerLeftAlone DEF Add, PlayerOK
  <2> QED  BY <1>A, <2>1, <2>2, <2>3
<1>3. ASSUME NEW s \in Songs, Jump(s) PROVE EngineInv'
  <2>1. QueueOK'
    BY <1>0, <1>3, GoKeepsQueue DEF Jump
  <2>2. ChainOK(jobs', advancing')
    BY <1>0, <1>3, UserAskedChain DEF Jump
  <2>3. PlayerOK
    BY <1>0, <1>3, PlayerLeftAlone DEF Jump, PlayerOK
  <2> QED  BY <1>A, <2>1, <2>2, <2>3
<1>4. ASSUME NEW s \in Songs, JumpNew(s) PROVE EngineInv'
  <2>1. QueueOK'
    BY <1>0, <1>4, InsertKeepsQueue DEF JumpNew
  <2>2. ChainOK(jobs', advancing')
    BY <1>0, <1>4, UserAskedChain DEF JumpNew
  <2>3. PlayerOK
    BY <1>0, <1>4, PlayerLeftAlone DEF JumpNew, PlayerOK
  <2> QED  BY <1>A, <2>1, <2>2, <2>3
<1>5. ASSUME NEW s \in Songs, Pick(s) PROVE EngineInv'
  <2>1. QueueOK'
    BY <1>0, <1>5, GoKeepsQueue DEF Pick
  <2>2. ChainOK(jobs', advancing')
    BY <1>0, <1>5, UserAskedChain DEF Pick
  <2>3. PlayerOK
    BY <1>0, <1>5, PlayerLeftAlone DEF Pick, PlayerOK
  <2> QED  BY <1>A, <2>1, <2>2, <2>3
<1>6. ASSUME NEW s \in Songs, Prev(s) PROVE EngineInv'
  <2>1. QueueOK'
    BY <1>0, <1>6, GoKeepsQueue DEF Prev
  <2>2. ChainOK(jobs', advancing')
    <3> DEFINE r == Ask(s, "prev", MaxRetries, NoSong)
    <3>1. MaxRetries \in 0 .. MaxRetries /\ "prev" \in Askers
      BY PlaybackAssumption DEF Askers
    <3>2. r \in JobRecords /\ r.by = "prev"
      BY <3>1, AsksAreJobs
    <3>3. jobs' = Append(jobs, r) /\ advancing' = advancing
      BY <1>6 DEF Prev
    <3> HIDE DEF r
    <3>4. ChainOK(Append(jobs, r), advancing)
      BY <1>0, <3>2, AskedChain
    <3> QED  BY <3>3, <3>4
  <2>3. PlayerOK
    BY <1>0, <1>6, PlayerLeftAlone DEF Prev, PlayerOK
  <2> QED  BY <1>A, <2>1, <2>2, <2>3
<1>7. ASSUME NEW s \in Songs, RemoveSong(s) PROVE EngineInv'
  <2>1. QueueOK'
    BY <1>0, <1>7, DequeueKeepsQueue DEF RemoveSong
  <2>2. ChainOK(jobs', advancing')
    BY <1>0, <1>7 DEF RemoveSong
  <2>3. PlayerOK
    BY <1>0, <1>7, PlayerLeftAlone DEF RemoveSong, PlayerOK
  <2> QED  BY <1>A, <2>1, <2>2, <2>3
<1>8. ASSUME Skip PROVE EngineInv'
  <2>1. QueueOK' /\ ChainOK(jobs', advancing') /\ (air' = air \/ air' = Silence)
    BY <1>0, <1>8, PlayNextKeeps DEF Skip
  <2>2. PlayerOK
    BY <1>0, <1>8, <2>1, PlayerLeftAlone DEF Skip, PlayerOK
  <2> QED  BY <1>A, <2>1, <2>2
<1>9. ASSUME Pause PROVE EngineInv'
  <2>1. QueueOK' /\ ChainOK(jobs', advancing')
    BY <1>0, <1>9 DEF Pause, QueueOK, Queue!Queued
  <2>2. now \in Songs /\ air.song \in Songs \cup {NoSong}
    BY <1>0, <1>9 DEF Pause, QueueOK, Queue!Queued, AirOK, Silence
  <2>3. PauseOK' /\ PauseEndsWithMusic'
    BY <1>9, <2>2 DEF Pause, PauseOK, PauseEndsWithMusic, Idle
  <2>4. AirOK' /\ connected' \in BOOLEAN /\ SilentWhenDisconnected'
    BY <1>0, <1>9 DEF Pause, AirOK, Silence, SilentWhenDisconnected, Idle
  <2> QED  BY <1>A, <2>1, <2>3, <2>4 DEF PlayerOK
<1>10. ASSUME Resume PROVE EngineInv'
  <2>1. QueueOK'
    BY <1>0, <1>10 DEF Resume, QueueOK, Queue!Queued
  <2>2. ChainOK(jobs', advancing')
    <3>1. CASE now = NoSong
      BY <1>0, <1>10, <3>1 DEF Resume
    <3>2. CASE now # NoSong
      <4> DEFINE r == Ask(now, "resume", 0, paused.at)
      <4>1. now \in Songs /\ paused.at \in Songs \cup {NoSong}
        BY <1>0, <3>2 DEF QueueOK, Queue!Queued, PauseOK, NotPaused
      <4>2. 0 \in 0 .. MaxRetries /\ "resume" \in Askers
        BY PlaybackAssumption DEF Askers
      <4>3. r \in JobRecords /\ r.by = "resume"
        BY <4>1, <4>2, AsksAreJobs
      <4>4. jobs' = Append(jobs, r) /\ advancing' = advancing
        BY <1>10, <3>2 DEF Resume
      <4> HIDE DEF r
      <4>5. ChainOK(Append(jobs, r), advancing)
        BY <1>0, <4>3, AskedChain
      <4> QED  BY <4>4, <4>5
    <3> QED  BY <3>1, <3>2
  <2>3. PlayerOK
    <3>1. paused' = paused \/ paused' = NotPaused
      BY <1>10 DEF Resume
    <3> QED  BY <1>0, <1>10, <3>1, PlayerLeftAlone DEF Resume, PlayerOK
  <2> QED  BY <1>A, <2>1, <2>2, <2>3
<1>11. ASSUME Stop \/ Clear PROVE EngineInv'
  <2>1. QueueOK'
    BY <1>11, EmptiedQueue DEF Stop, Clear
  <2>2. ChainOK(jobs', advancing')
    BY <1>0, <1>11 DEF Stop, Clear
  <2>3. PlayerOK
    BY <1>0, <1>11, PlayerLeftAlone DEF Stop, Clear, PlayerOK
  <2> QED  BY <1>A, <2>1, <2>2, <2>3
<1>12. ASSUME jobs # <<>>
       PROVE  /\ Job \in JobRecords
              /\ ChainOK(Tail(jobs), advancing /\ Job.by # "playNext")
              /\ Job.by = "playNext" => advancing
  BY <1>0, <1>12, ShortenedChain DEF Job
<1>13. ASSUME jobs # <<>>, Job.by # "playNext" PROVE ChainOK(Tail(jobs), advancing)
  <2>1. (advancing /\ Job.by # "playNext") = advancing
    BY <1>0, <1>13 DEF ChainOK
  <2> QED  BY <1>12, <1>13, <2>1
<1>14. ASSUME jobs # <<>>, Job.by = "playNext" PROVE ChainOK(Tail(jobs), FALSE)
  <2>1. (advancing /\ Job.by # "playNext") = FALSE
    BY <1>14
  <2> QED  BY <1>12, <1>14, <2>1
<1>15. ASSUME JobStarts PROVE EngineInv'
  <2>1. QueueOK'
    BY <1>0, <1>15 DEF JobStarts, QueueOK, Queue!Queued
  <2>2. ChainOK(jobs', advancing')
    BY <1>12, <1>15 DEF JobStarts, StillAdvancing
  <2>3. Job.song \in Songs
    BY <1>12, <1>15 DEF JobStarts, JobRecords
  <2>4. AirOK'
    BY <1>0, <1>15, <2>3 DEF JobStarts, Accepted, AirOK, Stages
  <2>5. PauseOK' /\ PauseEndsWithMusic' /\ connected' \in BOOLEAN /\ SilentWhenDisconnected'
    BY <1>0, <1>15 DEF JobStarts, CheckpointLeft, Accepted, PauseOK, PauseEndsWithMusic,
                       SilentWhenDisconnected
  <2> QED  BY <1>A, <2>1, <2>2, <2>4, <2>5 DEF PlayerOK
<1>16. ASSUME JobRefused PROVE EngineInv'
  <2>1. CASE Job.by = "playNext"
    <3>1. QueueOK' /\ ChainOK(jobs', advancing')
      BY <1>0, <1>14, <1>16, <2>1 DEF JobRefused, QueueOK, Queue!Queued
    <3>2. PlayerOK
      BY <1>0, <1>16, <2>1, PlayerLeftAlone DEF JobRefused, CheckpointLeft, PlayerOK
    <3> QED  BY <1>A, <3>1, <3>2
  <2>2. CASE Job.by # "playNext"
    <3>1. ChainOK(Tail(jobs), advancing) /\ PlayNext(Tail(jobs), Silence)
      BY <1>13, <1>16, <2>2 DEF JobRefused
    <3>2. QueueOK' /\ ChainOK(jobs', advancing') /\ air' = Silence
      BY <1>0, <3>1, PlayNextKeeps
    <3>3. PlayerOK
      BY <1>0, <1>16, <3>2, PlayerLeftAlone DEF JobRefused, CheckpointLeft, PlayerOK
    <3> QED  BY <1>A, <3>2, <3>3
  <2> QED  BY <2>1, <2>2
<1>17. ASSUME JobFails PROVE EngineInv'
  <2>1. ASSUME NEW by \in {"prev", "playNext"}, Job.by = by, Retry(by)
        PROVE  QueueOK' /\ ChainOK(jobs', advancing') /\ air' = air
    <3>1. PICK s \in Songs :
            Queue!Go(s) /\ jobs' = Append(Tail(jobs), Ask(s, by, Job.left - 1, NoSong))
      BY <2>1 DEF Retry
    <3> DEFINE r == Ask(s, by, Job.left - 1, NoSong)
    <3>2. Job.left - 1 \in 0 .. MaxRetries /\ by \in Askers
      BY <1>12, <1>17, <2>1, PlaybackAssumption DEF JobFails, JobRecords, Retry, Askers
    <3>3. r \in JobRecords /\ r.by = by
      BY <3>2, AsksAreJobs
    <3> HIDE DEF r
    <3>4. jobs' = Append(Tail(jobs), r) /\ advancing' = advancing /\ air' = air
      BY <2>1, <3>1 DEF r, Retry
    <3>5. ChainOK(Append(Tail(jobs), r), advancing)
      <4>1. CASE by = "prev"
        BY <1>13, <1>17, <2>1, <3>3, <4>1, AskedChain DEF JobFails
      <4>2. CASE by = "playNext"
        <5>1. ChainOK(Tail(jobs), FALSE) /\ advancing
          BY <1>12, <1>14, <1>17, <2>1, <4>2 DEF JobFails
        <5>2. ChainOK(Append(Tail(jobs), r), FALSE \/ r.by = "playNext")
          BY <3>3, <5>1, AppendedChain
        <5>3. (FALSE \/ r.by = "playNext") = advancing
          BY <1>0, <3>3, <4>2, <5>1 DEF ChainOK
        <5> QED  BY <5>2, <5>3
      <4> QED  BY <4>1, <4>2
    <3>6. QueueOK'
      BY <1>0, <3>1, GoKeepsQueue
    <3> QED  BY <3>4, <3>5, <3>6
  <2>2. ASSUME Job.by # "playNext", jobs' = Tail(jobs), UNCHANGED <<line, now, air, advancing>>
        PROVE  QueueOK' /\ ChainOK(jobs', advancing') /\ air' = air
    BY <1>0, <1>13, <1>17, <2>2 DEF JobFails, QueueOK, Queue!Queued
  <2>3. ASSUME Job.by = "playNext", jobs' = Tail(jobs), air' = Silence, advancing' = FALSE,
               UNCHANGED <<line, now>>
        PROVE  QueueOK' /\ ChainOK(jobs', advancing') /\ air' = Silence
    BY <1>0, <1>14, <1>17, <2>3 DEF JobFails, QueueOK, Queue!Queued
  <2>4. ASSUME Job.by = "test", jobs' = Tail(jobs), Queue!Empty, UNCHANGED <<air, advancing>>
        PROVE  QueueOK' /\ ChainOK(jobs', advancing') /\ air' = air
    BY <1>13, <1>17, <2>4, EmptiedQueue DEF JobFails
  <2>5. QueueOK' /\ ChainOK(jobs', advancing') /\ (air' = air \/ air' = Silence)
    BY <1>17, <2>1, <2>2, <2>3, <2>4 DEF JobFails
  <2>6. PlayerOK
    BY <1>0, <1>17, <2>5, PlayerLeftAlone DEF JobFails, PlayerOK
  <2> QED  BY <1>A, <2>5, <2>6
<1>18. ASSUME Sounds PROVE EngineInv'
  <2>1. QueueOK' /\ ChainOK(jobs', advancing')
    BY <1>0, <1>18 DEF Sounds, QueueOK, Queue!Queued
  <2>2. ~Idle /\ air \in [song : Songs, stage : Stages, test : BOOLEAN]
    BY <1>0, <1>18 DEF Sounds, Idle, Silence, AirOK
  <2>3. air' \in [song : Songs, stage : Stages, test : BOOLEAN] /\ air'.stage = "sounding"
    BY <1>18, <2>2 DEF Sounds, Stages
  <2>4. AirOK'
    BY <1>18, <2>3, PlaybackAssumption DEF Sounds, AirOK
  <2>5. PauseOK' /\ PauseEndsWithMusic' /\ connected' \in BOOLEAN /\ SilentWhenDisconnected'
    BY <1>0, <1>18, <2>2 DEF Sounds, PauseOK, PauseEndsWithMusic, SilentWhenDisconnected
  <2> QED  BY <1>A, <2>1, <2>4, <2>5 DEF PlayerOK
<1>19. ASSUME SpawnFails PROVE EngineInv'
  <2> DEFINE a == [air EXCEPT !.stage = "dead"]
  <2>1. ~Idle /\ air \in [song : Songs, stage : Stages, test : BOOLEAN]
    BY <1>0, <1>19 DEF SpawnFails, Idle, Silence, AirOK
  <2>2. a \in [song : Songs, stage : Stages, test : BOOLEAN] /\ a.stage = "dead"
        /\ a.test = air.test
    BY <2>1 DEF Stages
  <2>3. PlayNext(jobs, a)
    BY <1>19 DEF SpawnFails
  <2> HIDE DEF a
  <2>4. QueueOK' /\ ChainOK(jobs', advancing') /\ (air' = a \/ air' = Silence)
    BY <1>0, <2>3, PlayNextKeeps
  <2>5. fails' \in 0 .. MaxFailures
    BY <1>0, <1>19, PlaybackAssumption DEF SpawnFails, AirOK
  <2>6. AirOK'
    BY <2>2, <2>4, <2>5 DEF AirOK, Silence
  <2>7. PauseOK' /\ PauseEndsWithMusic' /\ connected' \in BOOLEAN /\ SilentWhenDisconnected'
    BY <1>0, <1>19, <2>1, <2>2, <2>4 DEF SpawnFails, PauseOK, PauseEndsWithMusic,
                                         SilentWhenDisconnected, Idle
  <2> QED  BY <1>A, <2>4, <2>6, <2>7 DEF PlayerOK
<1>20. ASSUME TrackEnds PROVE EngineInv'
  <2>1. QueueOK' /\ ChainOK(jobs', advancing') /\ air' = Silence
    BY <1>0, <1>20, PlayNextKeeps DEF TrackEnds
  <2>2. PlayerOK
    BY <1>0, <1>20, <2>1, PlayerLeftAlone DEF TrackEnds, PlayerOK
  <2> QED  BY <1>A, <2>1, <2>2
<1>21. ASSUME Disconnect PROVE EngineInv'
  <2>1. QueueOK' /\ ChainOK(jobs', advancing')
    BY <1>0, <1>21 DEF Disconnect, QueueOK, Queue!Queued
  <2>2. PlayerOK
    BY <1>0, <1>21, PlayerLeftAlone DEF Disconnect, PlayerOK
  <2> QED  BY <1>A, <2>1, <2>2
<1>22. ASSUME NEW s \in Songs, Test(s) PROVE EngineInv'
  <2>1. QueueOK'
    BY <1>22, ReplacedQueue DEF Test
  <2>2. ChainOK(jobs', advancing')
    BY <1>0, <1>22, TestAskedChain DEF Test
  <2>3. PlayerOK
    BY <1>0, <1>22, PlayerLeftAlone DEF Test, PlayerOK
  <2> QED  BY <1>A, <2>1, <2>2, <2>3
<1>23. ASSUME UNCHANGED vars PROVE EngineInv'
  <2>1. QueueOK' /\ ChainOK(jobs', advancing')
    BY <1>0, <1>23 DEF vars, QueueOK, Queue!Queued
  <2>2. PlayerOK
    BY <1>0, <1>23, PlayerLeftAlone DEF vars, PlayerOK
  <2> QED  BY <1>A, <2>1, <2>2
<1> QED
  BY <1>1, <1>2, <1>3, <1>4, <1>5, <1>6, <1>7, <1>8, <1>9, <1>10, <1>11, <1>15, <1>16,
     <1>17, <1>18, <1>19, <1>20, <1>21, <1>22, <1>23 DEF Next

-----------------------------------------------------------------------------
(* Theorems *)

\* The inductive invariant holds in every reachable state.
THEOREM EngineInvariant == Spec => []EngineInv
  BY EngineInvInit, EngineInvNext, PTL DEF Spec

\* Every variable has its type; in particular a waiting job always has a song,
\* so the engine's queue.current()! is never null.
THEOREM TypeCorrect == Spec => []TypeOK
<1>1. EngineInv => TypeOK
  BY DEF EngineInv, TypeOK, QueueOK, ChainOK, AirOK, PauseOK
<1> QED  BY <1>1, EngineInvariant, PTL

\* playNext is never under way twice, and isAdvancing is never left set.
THEOREM AdvancesAreSingle == Spec => []SingleAdvance
<1>1. EngineInv => SingleAdvance
  BY DEF EngineInv, SingleAdvance, ChainOK, Guarded
<1> QED  BY <1>1, EngineInvariant, PTL

\* A bot that holds a pause checkpoint has nothing on air but the demo.
THEOREM PausesEndWithMusic == Spec => []PauseEndsWithMusic
<1>1. EngineInv => PauseEndsWithMusic
  BY DEF EngineInv
<1> QED  BY <1>1, EngineInvariant, PTL

\* A song resolved after the connection was lost is not put on air.
THEOREM LostConnectionIsSilent == Spec => []SilentWhenDisconnected
<1>1. EngineInv => SilentWhenDisconnected
  BY DEF EngineInv
<1> QED  BY <1>1, EngineInvariant, PTL

=============================================================================
