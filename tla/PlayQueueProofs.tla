--------------------------- MODULE PlayQueueProofs ---------------------------
(***************************************************************************)
(* Proofs about the play queue, for every set of songs and every history   *)
(* limit: the index invariant, and with it that the cursor never slips off *)
(* the song that is playing and a shuffle never repeats it at once; that   *)
(* next keeps what prev and addNext promised; and that the queue           *)
(* implements its two abstract forms, QueueView and EntryQueue.            *)
(***************************************************************************)
EXTENDS PlayQueueListener, SpliceFacts

-----------------------------------------------------------------------------
(* The index invariant, one lemma per kind of operation *)

\* The song under the cursor is still marked as played if it was.
CursorMarkKept == mode' = mode /\ (cur \in played => cur' \in played')

\* Inserting a fresh song behind the cursor: the cursor's song stays.
LEMMA SpliceStep ==
    ASSUME IndexOK, NEW s \in Fresh, NEW at \in cur + 1 .. Len(songs) + 1, Splice(s, at)
    PROVE  IndexOK' /\ Current' = Current /\ CursorMarkKept
<1>1. /\ songs' = InsertAt(songs, at, s)
      /\ played' = {ShiftUp(i, at) : i \in played}
      /\ cur' = cur /\ mode' = mode
  BY DEF Splice
<1>2. /\ songs \in Seq(Songs) /\ DOMAIN songs = 1 .. Len(songs) /\ Len(songs) \in Nat
      /\ \A i, j \in 1 .. Len(songs) : songs[i] = songs[j] => i = j
      /\ cur \in 0 .. Len(songs)
      /\ played \subseteq 1 .. Len(songs)
      /\ mode \in Modes
  BY DEF IndexOK
<1>3. /\ s \in Songs
      /\ \A i \in 1 .. Len(songs) : songs[i] # s
      /\ at \in 1 .. Len(songs) + 1
  BY <1>2 DEF Fresh, ToSet
<1>4. /\ songs' \in Seq(Songs)
      /\ Len(songs') = Len(songs) + 1
      /\ \A i \in 1 .. Len(songs) + 1 :
           songs'[i] = IF i < at THEN songs[i] ELSE IF i = at THEN s ELSE songs[i - 1]
  <2> HIDE <1>1
  <2>1. /\ InsertAt(songs, at, s) \in Seq(Songs)
        /\ Len(InsertAt(songs, at, s)) = Len(songs) + 1
        /\ \A i \in 1 .. Len(songs) + 1 :
             InsertAt(songs, at, s)[i] =
               IF i < at THEN songs[i] ELSE IF i = at THEN s ELSE songs[i - 1]
    BY <1>2, <1>3, InsertAtProperties
  <2> QED  BY <1>1, <2>1
<1>5. ASSUME NEW i \in 1 .. Len(songs) + 1, NEW j \in 1 .. Len(songs) + 1,
             songs'[i] = songs'[j]
      PROVE  i = j
  <2>1. CASE i = at \/ j = at
    BY <1>3, <1>4, <1>5, <2>1
  <2>2. CASE i # at /\ j # at
    <3> DEFINE old(k) == IF k < at THEN k ELSE k - 1
    <3>1. old(i) \in 1 .. Len(songs) /\ old(j) \in 1 .. Len(songs)
      BY <1>2, <1>3, <2>2
    <3>2. songs'[i] = songs[old(i)] /\ songs'[j] = songs[old(j)]
      BY <1>3, <1>4, <2>2
    <3>3. old(i) = old(j)
      BY <1>2, <1>5, <3>1, <3>2
    <3> QED  BY <1>3, <2>2, <3>3
  <2> QED  BY <2>1, <2>2
<1>6. played' \subseteq 1 .. Len(songs')
  BY <1>1, <1>2, <1>3, <1>4 DEF ShiftUp
<1>7. DOMAIN songs' = 1 .. Len(songs')
  BY <1>4
<1>8. Current' = Current
  BY <1>1, <1>2, <1>3, <1>4, <1>7 DEF Current
<1>9. IndexOK'
  BY <1>1, <1>2, <1>4, <1>5, <1>6, <1>7 DEF IndexOK
<1>10. CursorMarkKept
  BY <1>1, <1>2, <1>3 DEF CursorMarkKept, ShiftUp
<1> QED  BY <1>8, <1>9, <1>10

\* Appending is splicing behind the last song.
LEMMA PushStep ==
    ASSUME IndexOK, NEW s \in Fresh, Push(s)
    PROVE  IndexOK' /\ Current' = Current /\ CursorMarkKept
<1>1. /\ songs' = Append(songs, s)
      /\ played' = played
      /\ cur' = cur /\ mode' = mode
  BY DEF Push
<1>2. /\ songs \in Seq(Songs) /\ DOMAIN songs = 1 .. Len(songs) /\ Len(songs) \in Nat
      /\ \A i, j \in 1 .. Len(songs) : songs[i] = songs[j] => i = j
      /\ cur \in 0 .. Len(songs)
      /\ played \subseteq 1 .. Len(songs)
      /\ mode \in Modes
  BY DEF IndexOK
<1>3. /\ s \in Songs
      /\ \A i \in 1 .. Len(songs) : songs[i] # s
  BY <1>2 DEF Fresh, ToSet
<1>4. /\ songs' \in Seq(Songs)
      /\ Len(songs') = Len(songs) + 1
      /\ DOMAIN songs' = 1 .. Len(songs) + 1
      /\ \A i \in 1 .. Len(songs) : songs'[i] = songs[i]
      /\ songs'[Len(songs) + 1] = s
  BY <1>1, <1>2, <1>3
<1>5. ASSUME NEW i \in 1 .. Len(songs) + 1, NEW j \in 1 .. Len(songs) + 1,
             songs'[i] = songs'[j]
      PROVE  i = j
  BY <1>2, <1>3, <1>4, <1>5
<1>6. Current' = Current
  BY <1>1, <1>2, <1>4 DEF Current
<1>7. IndexOK'
  BY <1>1, <1>2, <1>4, <1>5 DEF IndexOK
<1>8. CursorMarkKept
  BY <1>1 DEF CursorMarkKept
<1> QED  BY <1>6, <1>7, <1>8

\* Both ways of adding a song are one of the two above.
LEMMA AddStep ==
    ASSUME IndexOK, NEW s \in Songs, Add(s) \/ AddNext(s)
    PROVE  IndexOK' /\ Current' = Current /\ CursorMarkKept
<1>1. s \in Fresh
  BY DEF Add, AddNext
<1>2. CASE Push(s)
  BY <1>1, <1>2, PushStep
<1>3. CASE \E at \in DOMAIN songs : FirstFill(at) /\ Splice(s, at)
  <2>1. PICK at \in DOMAIN songs : FirstFill(at) /\ Splice(s, at)
    BY <1>3
  <2>2. at \in cur + 1 .. Len(songs) + 1
    BY <2>1 DEF FirstFill, IndexOK
  <2> QED  BY <1>1, <2>1, <2>2, SpliceStep
<1>4. CASE cur # 0 /\ Splice(s, cur + 1)
  <2>1. cur + 1 \in cur + 1 .. Len(songs) + 1
    BY DEF IndexOK
  <2> QED  BY <1>1, <1>4, <2>1, SpliceStep
<1> QED  BY <1>2, <1>3, <1>4 DEF Add, AddNext

\* Removing another song leaves the cursor on its song.
LEMMA RemoveStep ==
    ASSUME IndexOK, NEW r \in DOMAIN songs, RemoveSong(r)
    PROVE  IndexOK' /\ (r # cur => Current' = Current /\ CursorMarkKept)
<1>1. /\ songs' = RemoveAt(songs, r)
      /\ cur' = IF r <= cur THEN cur - 1 ELSE cur
      /\ played' = {ShiftDown(k, r) : k \in played \ {r}}
      /\ mode' = mode
  BY DEF RemoveSong
<1>2. /\ songs \in Seq(Songs) /\ DOMAIN songs = 1 .. Len(songs) /\ Len(songs) \in Nat
      /\ \A i, j \in 1 .. Len(songs) : songs[i] = songs[j] => i = j
      /\ cur \in 0 .. Len(songs)
      /\ played \subseteq 1 .. Len(songs)
      /\ mode \in Modes
      /\ r \in 1 .. Len(songs)
  BY DEF IndexOK
<1>3. /\ songs' \in Seq(Songs)
      /\ Len(songs') = Len(songs) - 1
      /\ \A k \in 1 .. Len(songs) - 1 :
           songs'[k] = IF k < r THEN songs[k] ELSE songs[k + 1]
  <2>1. /\ RemoveAt(songs, r) \in Seq(Songs)
        /\ Len(RemoveAt(songs, r)) = Len(songs) - 1
        /\ \A k \in 1 .. Len(songs) - 1 :
             RemoveAt(songs, r)[k] = IF k < r THEN songs[k] ELSE songs[k + 1]
    BY <1>2, RemoveAtProperties
  <2> QED  BY <1>1, <2>1
<1>4. DOMAIN songs' = 1 .. Len(songs) - 1
  BY <1>3
<1>5. ASSUME NEW i \in 1 .. Len(songs) - 1, NEW j \in 1 .. Len(songs) - 1,
             songs'[i] = songs'[j]
      PROVE  i = j
  <2> DEFINE old(k) == IF k < r THEN k ELSE k + 1
  <2>1. old(i) \in 1 .. Len(songs) /\ old(j) \in 1 .. Len(songs)
    BY <1>2
  <2>2. songs'[i] = songs[old(i)] /\ songs'[j] = songs[old(j)]
    BY <1>3
  <2>3. old(i) = old(j)
    BY <1>2, <1>5, <2>1, <2>2
  <2> QED  BY <1>2, <2>3
<1>6. played' \subseteq 1 .. Len(songs) - 1
  BY <1>1, <1>2 DEF ShiftDown
<1>7. cur' \in 0 .. Len(songs')
  BY <1>1, <1>2, <1>3
<1>8. ASSUME r # cur PROVE Current' = Current
  <2>1. CASE r < cur
    <3>1. cur' = cur - 1 /\ cur - 1 \in 1 .. Len(songs) - 1 /\ ~(cur - 1 < r)
      BY <1>1, <1>2, <2>1
    <3>2. songs'[cur - 1] = songs[(cur - 1) + 1] /\ (cur - 1) + 1 = cur
      BY <1>2, <1>3, <3>1
    <3> QED  BY <1>2, <1>4, <2>1, <3>1, <3>2 DEF Current
  <2>2. CASE r > cur
    <3>1. cur' = cur /\ (cur \in 1 .. Len(songs) <=> cur \in 1 .. Len(songs) - 1)
      BY <1>1, <1>2, <2>2
    <3>2. cur \in 1 .. Len(songs) => songs'[cur] = songs[cur]
      BY <1>2, <1>3, <2>2, <3>1
    <3> QED  BY <1>2, <1>4, <3>1, <3>2 DEF Current
  <2> QED  BY <1>2, <1>8, <2>1, <2>2
<1>9. IndexOK'
  BY <1>1, <1>2, <1>3, <1>4, <1>5, <1>6, <1>7 DEF IndexOK
<1>10. ASSUME r # cur PROVE CursorMarkKept
  BY <1>1, <1>2, <1>10 DEF CursorMarkKept, ShiftDown
<1> QED  BY <1>8, <1>9, <1>10

\* Every operation that starts a song moves the cursor to a queued one.
LEMMA StartStep ==
    ASSUME IndexOK,
           \/ Play \/ (\E i \in DOMAIN songs : PlayAt(i)) \/ NextSong
           \/ PrevStep \/ (\E k \in DOMAIN history : PrevBack(k))
    PROVE  /\ IndexOK' /\ songs' = songs /\ cur' \in DOMAIN songs
           /\ mode' = mode /\ (mode \in RandomModes => cur' \in played')
<1>1. /\ songs \in Seq(Songs) /\ DOMAIN songs = 1 .. Len(songs) /\ Len(songs) \in Nat
      /\ cur \in 0 .. Len(songs)
      /\ played \subseteq DOMAIN songs
      /\ songs # <<>> => Len(songs) > 0
  BY DEF IndexOK
<1>2. ASSUME songs' = songs, mode' = mode, cur' \in DOMAIN songs, played' \subseteq DOMAIN songs
      PROVE  IndexOK' /\ songs' = songs /\ cur' \in DOMAIN songs /\ mode' = mode
  BY <1>1, <1>2 DEF IndexOK
<1>3. CASE Play
  BY <1>1, <1>2, <1>3 DEF Play
<1>4. CASE \E i \in DOMAIN songs : PlayAt(i)
  BY <1>2, <1>4 DEF PlayAt
<1>5. CASE NextSequential
  BY <1>1, <1>2, <1>5 DEF NextSequential, AdvanceTo, RandomModes
<1>6. CASE NextLoop
  <2>1. (cur % Len(songs)) + 1 \in DOMAIN songs
    BY <1>1, <1>6 DEF NextLoop
  <2> QED  BY <1>1, <1>2, <1>6, <2>1 DEF NextLoop, AdvanceTo, RandomModes
<1>7. CASE \E k \in DOMAIN forward : NextResume(k)
  BY <1>1, <1>2, <1>7 DEF NextResume, Resumable, AdvanceTo
<1>8. CASE \E i \in DOMAIN songs : NextPick(i)
  BY <1>1, <1>2, <1>8 DEF NextPick, AdvanceTo
<1>9. CASE \E i \in DOMAIN songs : NextCycle(i)
  BY <1>2, <1>9 DEF NextCycle, AdvanceTo
<1>10. CASE PrevStep
  <2>1. /\ cur' \in DOMAIN songs
        /\ songs' = songs /\ mode' = mode /\ played' = played \cup {cur'}
    BY <1>1, <1>10 DEF PrevStep
  <2> QED  BY <1>1, <1>2, <2>1
<1>11. CASE \E k \in DOMAIN history : PrevBack(k)
  BY <1>1, <1>2, <1>11 DEF PrevBack, Reachable
<1> QED  BY <1>3, <1>4, <1>5, <1>6, <1>7, <1>8, <1>9, <1>10, <1>11 DEF NextSong

\* The calls that return null, and setMode: array and cursor stay.
LEMMA QuietStep ==
    ASSUME IndexOK, NextDry \/ PrevNone \/ (\E m \in Modes : SetMode(m)) \/ UNCHANGED vars
    PROVE  /\ IndexOK' /\ songs' = songs /\ cur' = cur
           /\ CursorMarkKept \/ (cur > 0 => cur \in played')
<1>1. songs' = songs /\ cur' = cur
  BY DEF NextDry, PrevNone, SetMode, vars
<1>2. mode' \in Modes
  BY DEF NextDry, PrevNone, SetMode, vars, IndexOK
<1>3. played' \subseteq DOMAIN songs
  BY DEF NextDry, PrevNone, SetMode, vars, IndexOK
<1>4. CursorMarkKept \/ (cur > 0 => cur \in played')
  BY DEF NextDry, PrevNone, SetMode, vars, CursorMarkKept
<1> QED  BY <1>1, <1>2, <1>3, <1>4 DEF IndexOK

\* clear leaves an empty array and no cursor.
LEMMA ClearStep ==
    ASSUME Clear, IndexOK
    PROVE  IndexOK'
<1>1. songs' = <<>> /\ cur' = 0 /\ played' = {} /\ mode' = mode
  BY DEF Clear
<1>2. songs' \in Seq(Songs) /\ DOMAIN songs' = {} /\ cur' \in 0 .. Len(songs')
  BY <1>1
<1> QED  BY <1>1, <1>2 DEF IndexOK

-----------------------------------------------------------------------------
(* Theorems *)

\* Neither the cursor nor the shuffle bag ever points outside the array, and
\* no entry is queued twice, whatever calls are made in whatever order.
THEOREM IndexCorrect == Spec => []IndexOK
<1>1. Init => IndexOK
  <2> SUFFICES ASSUME Init PROVE IndexOK
    OBVIOUS
  <2>1. songs = <<>> /\ cur = 0 /\ played = {} /\ mode = "rloop"
    BY DEF Init
  <2>2. songs \in Seq(Songs) /\ DOMAIN songs = {} /\ cur \in 0 .. Len(songs)
    BY <2>1
  <2> QED  BY <2>1, <2>2 DEF IndexOK, Modes
<1>2. IndexOK /\ [Next]_vars => IndexOK'
  BY AddStep, RemoveStep, StartStep, QuietStep, ClearStep DEF Next
<1> QED  BY <1>1, <1>2, PTL DEF Spec

\* What the listener adds to the index invariant: the song handed out is the
\* one under the cursor, unless it left the queue, and a shuffle has marked it.
ListenerInv ==
    /\ IndexOK
    /\ handed \in Songs \cup {NoSong}
    /\ CursorOnPlayingSong
    /\ mode \in RandomModes /\ handed # NoSong => cur \in played

\* Nothing is queued and nothing plays when the bot comes up.
LEMMA ListenerInit == LInit => ListenerInv
<1> SUFFICES ASSUME LInit PROVE ListenerInv
  OBVIOUS
<1>1. songs = <<>> /\ cur = 0 /\ played = {} /\ mode = "rloop" /\ handed = NoSong
  BY DEF LInit, Init
<1>2. songs \in Seq(Songs) /\ DOMAIN songs = {} /\ cur \in 0 .. Len(songs)
  BY <1>1
<1> QED  BY <1>1, <1>2 DEF ListenerInv, IndexOK, Modes, CursorOnPlayingSong

\* Every call keeps the cursor on the playing song, and that song in the bag.
LEMMA ListenerStep == ListenerInv /\ [LNext]_lvars => ListenerInv'
<1> SUFFICES ASSUME ListenerInv, [LNext]_lvars PROVE ListenerInv'
  OBVIOUS
<1>1. /\ IndexOK /\ handed \in Songs \cup {NoSong}
      /\ handed # NoSong => Current = handed
      /\ mode \in RandomModes /\ handed # NoSong => cur \in played
  BY DEF ListenerInv, CursorOnPlayingSong
<1>2. CASE Start \/ Rewind
  <2>1. /\ IndexOK' /\ songs' = songs /\ cur' \in DOMAIN songs
        /\ mode' = mode /\ (mode \in RandomModes => cur' \in played')
    BY <1>1, <1>2, StartStep DEF Start, Rewind
  <2>2. handed' = songs'[cur'] /\ handed' \in Songs
    BY <1>1, <1>2, <2>1 DEF Start, Rewind, HandOut, IndexOK
  <2> QED  BY <2>1, <2>2 DEF ListenerInv, CursorOnPlayingSong, Current
<1>3. CASE Drop
  <2>1. PICK r \in DOMAIN songs :
          /\ RemoveSong(r)
          /\ handed' = IF songs[r] = handed THEN NoSong ELSE handed
    BY <1>3 DEF Drop
  <2>2. IndexOK' /\ (r # cur => Current' = Current /\ CursorMarkKept)
    BY <1>1, <2>1, RemoveStep
  <2>3. handed' # NoSong => handed' = handed /\ r # cur
    BY <1>1, <2>1 DEF Current
  <2> QED  BY <1>1, <2>1, <2>2, <2>3 DEF ListenerInv, CursorOnPlayingSong, CursorMarkKept
<1>4. CASE DropAll
  BY <1>1, <1>4, ClearStep DEF DropAll, ListenerInv, CursorOnPlayingSong
<1>5. CASE RunDry
  BY <1>1, <1>5, QuietStep DEF RunDry, ListenerInv, CursorOnPlayingSong
<1>6. CASE Insert
  <2>1. IndexOK' /\ Current' = Current /\ handed' = handed /\ CursorMarkKept
    BY <1>1, <1>6, AddStep DEF Insert
  <2> QED  BY <1>1, <2>1 DEF ListenerInv, CursorOnPlayingSong, CursorMarkKept
<1>7. CASE Quiet \/ UNCHANGED lvars
  <2>1. /\ IndexOK' /\ songs' = songs /\ cur' = cur /\ handed' = handed
        /\ CursorMarkKept \/ (cur > 0 => cur \in played')
    BY <1>1, <1>7, QuietStep DEF Quiet, lvars, vars
  <2>2. handed # NoSong => cur > 0
    BY <1>1 DEF Current, IndexOK
  <2>3. mode' \in RandomModes /\ handed # NoSong => cur' \in played'
    BY <1>1, <2>1, <2>2 DEF CursorMarkKept
  <2> QED  BY <1>1, <2>1, <2>3 DEF ListenerInv, CursorOnPlayingSong, Current
<1> QED  BY <1>2, <1>3, <1>4, <1>5, <1>6, <1>7 DEF LNext

\* Through any sequence of insertions, removals and starts the cursor names
\* the song that plays, as long as that song is queued.
THEOREM CursorCorrect == LSpec => []CursorOnPlayingSong
<1>1. ListenerInv => CursorOnPlayingSong
  BY DEF ListenerInv
<1> QED  BY <1>1, ListenerInit, ListenerStep, PTL DEF LSpec

\* In the shuffle modes next never starts the playing song once more while
\* another one is queued.
THEOREM NeverRepeatsAtOnce == LSpec => NoImmediateRepeat
<1>1. ListenerInv /\ [LNext]_lvars =>
        [NextSong /\ mode \in RandomModes /\ Len(songs) > 1 => songs'[cur'] # handed]_lvars
  <2> SUFFICES ASSUME ListenerInv, NextSong, mode \in RandomModes, Len(songs) > 1
               PROVE  songs'[cur'] # handed
    OBVIOUS
  <2>1. /\ IndexOK
        /\ handed # NoSong => cur \in DOMAIN songs /\ songs[cur] = handed /\ cur \in played
    BY DEF ListenerInv, CursorOnPlayingSong, Current
  <2>2. songs' = songs /\ cur' \in DOMAIN songs
    BY <2>1, StartStep
  <2>3. songs[cur'] # NoSong
    BY <2>1, <2>2, QueueAssumption DEF IndexOK
  <2>4. ~NextSequential /\ ~NextLoop
    BY DEF NextSequential, NextLoop, RandomModes
  <2>5. CASE handed # NoSong
    <3>1. ASSUME NEW k \in DOMAIN forward, NextResume(k) PROVE cur' # cur
      BY <3>1 DEF NextResume, Resumable, AdvanceTo
    <3>2. ASSUME NEW i \in DOMAIN songs, NextPick(i) PROVE cur' # cur
      BY <2>1, <2>5, <3>2 DEF NextPick, AdvanceTo, Unplayed
    <3>3. ASSUME NEW i \in DOMAIN songs, NextCycle(i) PROVE cur' # cur
      <4>1. Len(songs) # 1
        BY <2>1 DEF IndexOK
      <4> QED  BY <3>3, <4>1 DEF NextCycle, AdvanceTo
    <3>4. cur' # cur
      BY <2>4, <3>1, <3>2, <3>3 DEF NextSong
    <3> QED  BY <2>1, <2>2, <2>5, <3>4 DEF IndexOK
  <2> QED  BY <2>2, <2>3, <2>5
<1> QED  BY <1>1, ListenerInit, ListenerStep, PTL DEF LSpec, NoImmediateRepeat

-----------------------------------------------------------------------------
(* The queue as the playback engine sees it *)

\* Insertions put a new song somewhere behind the current one.
LEMMA InsertIsSeen ==
    ASSUME IndexOK, NEW s \in Songs, Add(s) \/ AddNext(s)
    PROVE  View!Enqueue(s)
<1>1. /\ songs \in Seq(Songs) /\ DOMAIN songs = 1 .. Len(songs) /\ Len(songs) \in Nat
      /\ \A i, j \in 1 .. Len(songs) : songs[i] = songs[j] => i = j
      /\ cur \in 0 .. Len(songs)
  BY DEF IndexOK
<1>2. s \in Fresh
  BY DEF Add, AddNext
<1>3. ~View!Queued(s)
  BY <1>1, <1>2 DEF View!Queued, Fresh, ToSet
<1>4. Current' = Current
  BY AddStep
<1>5. ASSUME NEW at \in cur + 1 .. Len(songs) + 1, songs' = InsertAt(songs, at, s)
      PROVE  View!Enqueue(s)
  <2>1. at \in 1 .. Len(songs) + 1
    BY <1>1
  <2>2. ASSUME NEW i \in DOMAIN songs, songs[i] = Current PROVE i < at
    <3>1. cur \in DOMAIN songs
      BY <1>1, <2>2, QueueAssumption, ElementOfSeq DEF Current
    <3>2. i = cur
      BY <1>1, <2>2, <3>1 DEF Current
    <3> QED  BY <1>1, <3>2
  <2>3. InsertAt(songs, at, s) = View!InsertAt(songs, at, s)
    BY DEF InsertAt, View!InsertAt
  <2>4. View!Insert(s)
    BY <1>3, <1>5, <2>1, <2>2, <2>3 DEF View!Insert
  <2> QED  BY <1>4, <2>4 DEF View!Enqueue
<1>6. CASE Push(s)
  <2>1. songs' = InsertAt(songs, Len(songs) + 1, s)
    BY <1>1, <1>6, AppendIsInsertAt DEF Push
  <2>2. Len(songs) + 1 \in cur + 1 .. Len(songs) + 1
    BY <1>1
  <2> QED  BY <1>5, <2>1, <2>2
<1>7. CASE \E at \in DOMAIN songs : FirstFill(at) /\ Splice(s, at)
  <2>1. PICK at \in DOMAIN songs : FirstFill(at) /\ Splice(s, at)
    BY <1>7
  <2>2. at \in cur + 1 .. Len(songs) + 1
    BY <1>1, <2>1 DEF FirstFill
  <2> QED  BY <1>5, <2>1, <2>2 DEF Splice
<1>8. CASE cur # 0 /\ Splice(s, cur + 1)
  <2>1. cur + 1 \in cur + 1 .. Len(songs) + 1
    BY <1>1
  <2> QED  BY <1>5, <1>8, <2>1 DEF Splice
<1> QED  BY <1>6, <1>7, <1>8 DEF Add, AddNext

\* A removal takes one song out and leaves the cursor on its song, or on the
\* predecessor of the song that is gone.
LEMMA RemovalIsSeen ==
    ASSUME IndexOK, NEW r \in DOMAIN songs, RemoveSong(r)
    PROVE  View!Dequeue(songs[r])
<1>1. /\ songs \in Seq(Songs) /\ DOMAIN songs = 1 .. Len(songs) /\ Len(songs) \in Nat
      /\ \A i, j \in 1 .. Len(songs) : songs[i] = songs[j] => i = j
      /\ cur \in 0 .. Len(songs)
      /\ r \in 1 .. Len(songs)
      /\ songs[r] \in Songs
  BY DEF IndexOK
<1>2. /\ songs' = RemoveAt(songs, r) /\ cur' = IF r <= cur THEN cur - 1 ELSE cur
      /\ RemoveAt(songs, r) = View!RemoveAt(songs, r)
  BY DEF RemoveSong, RemoveAt, View!RemoveAt
<1>3. CASE r # cur
  <2>1. Current' = Current
    BY <1>3, RemoveStep
  <2>2. songs[r] # Current
    BY <1>1, <1>3, QueueAssumption DEF Current
  <2> QED  BY <1>1, <1>2, <2>1, <2>2 DEF View!Dequeue
<1>4. CASE r = cur
  <2>1. songs[r] = Current /\ cur' = r - 1
    BY <1>1, <1>2, <1>4 DEF Current
  <2>2. /\ songs' \in Seq(Songs) /\ Len(songs') = Len(songs) - 1
        /\ \A i \in 1 .. Len(songs) - 1 :
             songs'[i] = IF i < r THEN songs[i] ELSE songs[i + 1]
    <3>1. /\ RemoveAt(songs, r) \in Seq(Songs)
          /\ Len(RemoveAt(songs, r)) = Len(songs) - 1
          /\ \A i \in 1 .. Len(songs) - 1 :
               RemoveAt(songs, r)[i] = IF i < r THEN songs[i] ELSE songs[i + 1]
      BY <1>1, RemoveAtProperties
    <3> QED  BY <1>2, <3>1
  <2>3. DOMAIN songs' = 1 .. Len(songs) - 1
    BY <1>1, <2>2
  <2>4. Current' = IF r = 1 THEN NoSong ELSE songs[r - 1]
    <3>1. CASE r = 1
      BY <1>1, <2>1, <2>3, <3>1 DEF Current
    <3>2. CASE r # 1
      <4>1. r - 1 \in 1 .. Len(songs) - 1 /\ r - 1 < r
        BY <1>1, <3>2
      <4> QED  BY <2>1, <2>2, <2>3, <3>2, <4>1 DEF Current
    <3> QED  BY <3>1, <3>2
  <2> QED  BY <1>1, <1>2, <2>1, <2>4 DEF View!Dequeue
<1> QED  BY <1>3, <1>4

\* Every call is a step of the view, or invisible to it.
LEMMA ViewStep == IndexOK /\ [LNext]_lvars => [View!Next]_<<songs, Current>>
<1> SUFFICES ASSUME IndexOK, [LNext]_lvars PROVE [View!Next]_<<songs, Current>>
  OBVIOUS
<1>1. CASE Start \/ Rewind
  <2>1. /\ IndexOK' /\ songs' = songs /\ cur' \in DOMAIN songs
    BY <1>1, StartStep DEF Start, Rewind
  <2>2. Current' = songs[cur'] /\ songs[cur'] \in Songs
    BY <2>1 DEF Current, IndexOK
  <2>3. View!Go(songs[cur'])
    BY <2>1, <2>2 DEF View!Go, View!Queued
  <2> QED  BY <2>2, <2>3 DEF View!Next
<1>2. CASE Drop
  <2>1. PICK r \in DOMAIN songs : RemoveSong(r)
    BY <1>2 DEF Drop
  <2>2. View!Dequeue(songs[r]) /\ songs[r] \in Songs
    BY <2>1, RemovalIsSeen DEF IndexOK
  <2> QED  BY <2>2 DEF View!Next
<1>3. CASE DropAll
  <2>1. songs' = <<>> /\ cur' = 0
    BY <1>3 DEF DropAll, Clear
  <2>2. Current' = NoSong
    BY <2>1 DEF Current
  <2> QED  BY <2>1, <2>2 DEF View!Next, View!Empty
<1>4. CASE Insert
  <2>1. PICK s \in Songs : Add(s) \/ AddNext(s)
    BY <1>4 DEF Insert
  <2> QED  BY <2>1, InsertIsSeen DEF View!Next
<1>5. CASE RunDry \/ Quiet \/ UNCHANGED lvars
  <2>1. songs' = songs /\ cur' = cur
    BY <1>5, QuietStep DEF RunDry, Quiet, lvars, vars
  <2> QED  BY <2>1 DEF Current
<1> QED  BY <1>1, <1>2, <1>3, <1>4, <1>5 DEF LNext

\* The array, the cursor and the three pieces of index bookkeeping together
\* behave as the ordered list with a current song that the engine relies on.
THEOREM ViewImplemented == LSpec => ImplementsView
<1>1. LInit => View!Init
  BY DEF LInit, Init, View!Init, Current
<1>2. ListenerInv => IndexOK
  BY DEF ListenerInv
<1> QED  BY <1>1, <1>2, ListenerInit, ListenerStep, ViewStep, PTL
         DEF LSpec, ImplementsView, View!Spec

-----------------------------------------------------------------------------
(* The two stacks *)

StackOK(stack) == stack \in Seq(DOMAIN songs) /\ Len(stack) <= HistoryLimit

\* What the index invariant says of the array, its domain written out.
LEMMA ArrayFacts ==
    ASSUME IndexOK
    PROVE  /\ songs \in Seq(Songs) /\ DOMAIN songs = 1 .. Len(songs) /\ Len(songs) \in Nat
           /\ \A i, j \in 1 .. Len(songs) : songs[i] = songs[j] => i = j
           /\ \A i \in 1 .. Len(songs) : songs[i] \in Songs /\ songs[i] # NoSong
           /\ cur \in 0 .. Len(songs) /\ played \subseteq 1 .. Len(songs)
<1>1. /\ songs \in Seq(Songs) /\ DOMAIN songs = 1 .. Len(songs) /\ Len(songs) \in Nat
      /\ \A i, j \in 1 .. Len(songs) : songs[i] = songs[j] => i = j
      /\ cur \in 0 .. Len(songs) /\ played \subseteq 1 .. Len(songs)
  BY DEF IndexOK
<1>2. \A i \in 1 .. Len(songs) : songs[i] \in Songs /\ songs[i] # NoSong
  BY <1>1, ElementOfSeq, QueueAssumption
<1> QED  BY <1>1, <1>2

\* A splice moves the entries of a stack along with their songs.
LEMMA StackShiftsUp ==
    ASSUME NEW n \in Nat, NEW at \in 1 .. n + 1, NEW stack \in Seq(1 .. n)
    PROVE  /\ [k \in DOMAIN stack |-> ShiftUp(stack[k], at)] \in Seq(1 .. n + 1)
           /\ Len([k \in DOMAIN stack |-> ShiftUp(stack[k], at)]) = Len(stack)
<1>1. DOMAIN stack = 1 .. Len(stack) /\ Len(stack) \in Nat
  OBVIOUS
<1>2. \A k \in 1 .. Len(stack) : ShiftUp(stack[k], at) \in 1 .. n + 1
  BY ElementOfSeq DEF ShiftUp
<1>3. [k \in DOMAIN stack |-> ShiftUp(stack[k], at)] \in [1 .. Len(stack) -> 1 .. n + 1]
  BY <1>1, <1>2
<1> QED  BY <1>1, <1>3

\* A removal takes the entries of the removed song out and moves the others.
LEMMA StackShiftsDown ==
    ASSUME NEW n \in Nat, NEW r \in 1 .. n, NEW stack \in Seq(1 .. n)
    PROVE  /\ ShiftedOut(stack, r) \in Seq(1 .. n - 1)
           /\ Len(ShiftedOut(stack, r)) = Len(Sifted(stack, r))
           /\ Len(ShiftedOut(stack, r)) <= Len(stack)
           /\ \A k \in 1 .. Len(Sifted(stack, r)) :
                ShiftedOut(stack, r)[k] = ShiftDown(Sifted(stack, r)[k], r)
<1> DEFINE kept == Sifted(stack, r)
<1>1. kept \in Seq((1 .. n) \ {r}) /\ Len(kept) <= Len(stack)
  BY SiftedProperties
<1>2. ShiftedOut(stack, r) = [k \in DOMAIN kept |-> ShiftDown(kept[k], r)]
  BY DEF ShiftedOut
<1> HIDE DEF kept
<1>3. DOMAIN kept = 1 .. Len(kept) /\ Len(kept) \in Nat
  BY <1>1
<1>4. \A k \in 1 .. Len(kept) : ShiftDown(kept[k], r) \in 1 .. n - 1
  <2> SUFFICES ASSUME NEW k \in 1 .. Len(kept) PROVE ShiftDown(kept[k], r) \in 1 .. n - 1
    OBVIOUS
  <2>1. kept[k] \in 1 .. n /\ kept[k] # r
    BY <1>1, ElementOfSeq
  <2> QED  BY <2>1 DEF ShiftDown
<1>5. ShiftedOut(stack, r) \in [1 .. Len(kept) -> 1 .. n - 1]
  BY <1>2, <1>3, <1>4
<1>6. /\ ShiftedOut(stack, r) \in Seq(1 .. n - 1) /\ Len(ShiftedOut(stack, r)) = Len(kept)
      /\ \A k \in 1 .. Len(kept) : ShiftedOut(stack, r)[k] = ShiftDown(kept[k], r)
  BY <1>2, <1>3, <1>5
<1> QED  BY <1>1, <1>6 DEF kept

\* The stack prev reads is never longer than HISTORY_LIMIT.
LEMMA PushHistoryFacts ==
    ASSUME IndexOK, NEW stack \in Seq(DOMAIN songs), Len(stack) <= HistoryLimit
    PROVE  /\ PushHistory(stack, cur) \in Seq(DOMAIN songs)
           /\ Len(PushHistory(stack, cur)) <= HistoryLimit
<1>1. HistoryLimit \in Nat \ {0}
  BY QueueAssumption
<1>2. CASE cur \notin DOMAIN songs
  BY <1>2 DEF PushHistory
<1>3. CASE cur \in DOMAIN songs /\ Len(stack) < HistoryLimit
  BY <1>1, <1>3 DEF PushHistory
<1>4. CASE cur \in DOMAIN songs /\ ~(Len(stack) < HistoryLimit)
  <2> DEFINE longer == Append(stack, cur)
  <2>1. longer \in Seq(DOMAIN songs) /\ Len(longer) = Len(stack) + 1 /\ longer # <<>>
    BY <1>4
  <2>2. Tail(longer) \in Seq(DOMAIN songs) /\ Len(Tail(longer)) = Len(stack)
    BY <2>1, HeadTailProperties
  <2> QED  BY <1>4, <2>2 DEF PushHistory
<1> QED  BY <1>2, <1>3, <1>4

LEMMA PrevForwardFacts ==
    ASSUME IndexOK, StackOK(forward)
    PROVE  PrevForward \in Seq(DOMAIN songs) /\ Len(PrevForward) <= HistoryLimit
<1>1. cur > 0 => cur \in DOMAIN songs
  BY ArrayFacts
<1>2. CASE cur > 0 /\ Len(forward) < HistoryLimit
  <2>1. /\ Append(forward, cur) \in Seq(DOMAIN songs)
        /\ Len(Append(forward, cur)) = Len(forward) + 1
    BY <1>1, <1>2 DEF StackOK
  <2> QED  BY <1>2, <2>1, QueueAssumption DEF PrevForward
<1>3. CASE ~(cur > 0 /\ Len(forward) < HistoryLimit)
  BY <1>3 DEF PrevForward, StackOK
<1> QED  BY <1>2, <1>3

\* The songs stay: what was in the stacks' range still is.
LEMMA StacksStay ==
    ASSUME TypeOK, songs' = songs, IndexOK',
           history' \in Seq(DOMAIN songs), Len(history') <= HistoryLimit,
           forward' \in Seq(DOMAIN songs), Len(forward') <= HistoryLimit
    PROVE  TypeOK'
  BY DEF TypeOK

LEMMA TypeStep == ASSUME TypeOK, [Next]_vars PROVE TypeOK'
<1>1. IndexOK /\ StackOK(history) /\ StackOK(forward)
  BY DEF TypeOK, StackOK
<1>2. /\ HistoryLimit \in Nat \ {0} /\ 0 <= HistoryLimit
      /\ history \in Seq(DOMAIN songs) /\ Len(history) <= HistoryLimit
      /\ forward \in Seq(DOMAIN songs) /\ Len(forward) <= HistoryLimit
      /\ <<>> \in Seq(DOMAIN songs) /\ Len(<<>>) = 0
  BY <1>1, QueueAssumption DEF StackOK
<1>3. /\ PushHistory(history, cur) \in Seq(DOMAIN songs)
      /\ Len(PushHistory(history, cur)) <= HistoryLimit
  BY <1>1, <1>2, PushHistoryFacts
<1>4. ASSUME NEW stack \in Seq(DOMAIN songs), Len(stack) <= HistoryLimit,
             NEW a \in {1}, NEW b \in 0 .. Len(stack)
      PROVE  SubSeq(stack, a, b) \in Seq(DOMAIN songs) /\ Len(SubSeq(stack, a, b)) <= HistoryLimit
  BY <1>2, <1>4, SubSeqProperties, ElementOfSeq
<1>5. ASSUME NEW s \in Fresh, NEW at \in cur + 1 .. Len(songs) + 1, Splice(s, at)
      PROVE  TypeOK'
  <2>1. IndexOK'
    BY <1>1, <1>5, SpliceStep
  <2>2. at \in 1 .. Len(songs) + 1 /\ s \in Songs /\ songs \in Seq(Songs)
        /\ DOMAIN songs = 1 .. Len(songs) /\ Len(songs) \in Nat
    BY <1>1, ArrayFacts DEF Fresh
  <2>3. DOMAIN songs' = 1 .. Len(songs) + 1
    <3>1. Len(songs') = Len(songs) + 1
      BY <1>5, <2>2, InsertAtProperties DEF Splice
    <3> QED  BY <2>1, <3>1, ArrayFacts DEF IndexOK
  <2>4. /\ history' = [k \in DOMAIN history |-> ShiftUp(history[k], at)]
        /\ forward' = [k \in DOMAIN forward |-> ShiftUp(forward[k], at)]
    BY <1>5 DEF Splice
  <2> QED  BY <1>2, <2>1, <2>2, <2>3, <2>4, StackShiftsUp DEF TypeOK
<1>6. ASSUME NEW s \in Fresh, Push(s) PROVE TypeOK'
  <2>1. IndexOK'
    BY <1>1, <1>6, PushStep
  <2>2. DOMAIN songs \subseteq DOMAIN songs' /\ UNCHANGED <<history, forward>>
    BY <1>1, <1>6, ArrayFacts DEF Push, Fresh
  <2> QED  BY <1>2, <2>1, <2>2, ElementOfSeq DEF TypeOK
<1>7. ASSUME NEW s \in Songs, Add(s) \/ AddNext(s) PROVE TypeOK'
  <2>1. s \in Fresh
    BY <1>7 DEF Add, AddNext
  <2>2. CASE \E at \in DOMAIN songs : FirstFill(at) /\ Splice(s, at)
    <3>1. PICK at \in DOMAIN songs : FirstFill(at) /\ Splice(s, at)
      BY <2>2
    <3>2. at \in cur + 1 .. Len(songs) + 1
      BY <1>1, <3>1, ArrayFacts DEF FirstFill
    <3> QED  BY <1>5, <2>1, <3>1, <3>2
  <2>3. CASE cur # 0 /\ Splice(s, cur + 1)
    <3>1. cur + 1 \in cur + 1 .. Len(songs) + 1
      BY <1>1, ArrayFacts
    <3> QED  BY <1>5, <2>1, <2>3, <3>1
  <2> QED  BY <1>6, <1>7, <2>1, <2>2, <2>3 DEF Add, AddNext
<1>8. ASSUME NEW r \in DOMAIN songs, RemoveSong(r) PROVE TypeOK'
  <2>1. IndexOK'
    BY <1>1, <1>8, RemoveStep
  <2>2. r \in 1 .. Len(songs) /\ DOMAIN songs = 1 .. Len(songs) /\ Len(songs) \in Nat
        /\ songs \in Seq(Songs)
    BY <1>1, ArrayFacts
  <2>3. DOMAIN songs' = 1 .. Len(songs) - 1
    <3>1. Len(songs') = Len(songs) - 1
      BY <1>8, <2>2, RemoveAtProperties DEF RemoveSong
    <3> QED  BY <2>1, <3>1, ArrayFacts DEF IndexOK
  <2>4. history' = ShiftedOut(history, r) /\ forward' = ShiftedOut(forward, r)
    BY <1>8 DEF RemoveSong
  <2>5. /\ ShiftedOut(history, r) \in Seq(1 .. Len(songs) - 1)
        /\ Len(ShiftedOut(history, r)) <= Len(history)
    BY <1>2, <2>2, StackShiftsDown
  <2>6. /\ ShiftedOut(forward, r) \in Seq(1 .. Len(songs) - 1)
        /\ Len(ShiftedOut(forward, r)) <= Len(forward)
    BY <1>2, <2>2, StackShiftsDown
  <2> QED  BY <1>2, <2>1, <2>3, <2>4, <2>5, <2>6 DEF TypeOK
<1>9. CASE Clear
  <2>1. IndexOK'
    BY <1>1, <1>9, ClearStep
  <2>2. history' = <<>> /\ forward' = <<>>
    BY <1>9 DEF Clear
  <2> QED  BY <1>2, <2>1, <2>2 DEF TypeOK
<1>10. CASE Play \/ \E m \in Modes : SetMode(m)
  <2>1. IndexOK' /\ songs' = songs
    BY <1>1, <1>10, StartStep, QuietStep
  <2>2. history' = <<>> /\ forward' = <<>>
    BY <1>10 DEF Play, SetMode
  <2> QED  BY <1>2, <2>1, <2>2 DEF TypeOK
<1>11. ASSUME NEW i \in DOMAIN songs, PlayAt(i) PROVE TypeOK'
  <2>1. IndexOK' /\ songs' = songs
    BY <1>1, <1>11, StartStep
  <2> QED  BY <1>2, <1>3, <1>11, <2>1, StacksStay DEF PlayAt
<1>12. CASE NextSong
  <2>1. IndexOK' /\ songs' = songs
    BY <1>1, <1>12, StartStep
  <2>2. history' = PushHistory(history, cur)
    BY <1>12 DEF NextSong, NextSequential, NextLoop, NextResume, NextPick, NextCycle, AdvanceTo
  <2>3. \/ forward' = forward \/ forward' = <<>>
        \/ \E k \in DOMAIN forward : forward' = SubSeq(forward, 1, k - 1)
    BY <1>12 DEF NextSong, NextSequential, NextLoop, NextResume, NextPick, NextCycle, Shuffling
  <2>4. forward' \in Seq(DOMAIN songs) /\ Len(forward') <= HistoryLimit
    <3>1. \A k \in DOMAIN forward : k - 1 \in 0 .. Len(forward)
      BY <1>2
    <3> QED  BY <1>2, <1>4, <2>3, <3>1
  <2> QED  BY <1>3, <2>1, <2>2, <2>4, StacksStay
<1>13. CASE NextDry
  <2>1. IndexOK' /\ songs' = songs
    BY <1>1, <1>13, QuietStep
  <2> QED  BY <1>2, <1>13, <2>1, StacksStay DEF NextDry, Shuffling
<1>14. ASSUME NEW k \in DOMAIN history, PrevBack(k) PROVE TypeOK'
  <2>1. IndexOK' /\ songs' = songs
    BY <1>1, <1>14, StartStep
  <2>2. k - 1 \in 0 .. Len(history)
    BY <1>2
  <2> QED  BY <1>1, <1>2, <1>4, <1>14, <2>1, <2>2, PrevForwardFacts, StacksStay DEF PrevBack
<1>15. CASE PrevStep \/ PrevNone
  <2>1. IndexOK' /\ songs' = songs
    BY <1>1, <1>15, StartStep, QuietStep
  <2>2. forward' = PrevForward /\ history' = <<>>
    BY <1>15 DEF PrevStep, PrevNone
  <2> QED  BY <1>1, <1>2, <2>1, <2>2, PrevForwardFacts, StacksStay
<1>16. CASE UNCHANGED vars
  BY <1>16 DEF vars, TypeOK, IndexOK
<1> QED
  BY <1>7, <1>8, <1>9, <1>10, <1>11, <1>12, <1>13, <1>14, <1>15, <1>16 DEF Next

LEMMA TypeInit == Init => TypeOK
<1> SUFFICES ASSUME Init PROVE TypeOK
  OBVIOUS
<1>1. /\ songs = <<>> /\ cur = 0 /\ played = {} /\ mode = "rloop"
      /\ history = <<>> /\ forward = <<>>
  BY DEF Init
<1>2. songs \in Seq(Songs) /\ DOMAIN songs = {} /\ cur \in 0 .. Len(songs)
  BY <1>1
<1>3. <<>> \in Seq(DOMAIN songs) /\ Len(<<>>) <= HistoryLimit
  BY QueueAssumption
<1> QED  BY <1>1, <1>2, <1>3 DEF TypeOK, IndexOK, Modes

\* With the array and the cursor, the back and the forward stack stay inside
\* the array and within HISTORY_LIMIT: the checks for stale entries in next and
\* prev never find one.
THEOREM StacksCorrect == Spec => []TypeOK
<1>1. TypeOK /\ [Next]_vars => TypeOK'
  BY TypeStep
<1> QED  BY <1>1, TypeInit, PTL DEF Spec

-----------------------------------------------------------------------------
(* What a call promises of the next one *)

\* After prev, in a shuffle, the song that was left is on top of the forward
\* stack and is not the current one; after addNext, in the ordered modes, the
\* inserted song is right behind the cursor.
PromiseInv ==
    \/ owed.by = "nobody"
    \/ /\ mode \in RandomModes /\ forward # <<>>
       /\ forward[Len(forward)] # cur
       /\ songs[forward[Len(forward)]] = owed.song
    \/ /\ mode \in {"seq", "loop"}
       /\ cur < Len(songs) /\ songs[cur + 1] = owed.song

LEMMA PromiseStep ==
    ASSUME TypeOK, PromiseInv, [LNext]_lvars
    PROVE  PromiseInv'
<1>1. IndexOK /\ StackOK(forward) /\ StackOK(history)
  BY DEF TypeOK, StackOK
<1>2. ASSUME owed' = Nothing PROVE PromiseInv'
  BY <1>2 DEF PromiseInv, Nothing
<1>3. CASE Rewind
  <2>1. PICK k \in DOMAIN history : PrevBack(k)
    BY <1>3 DEF Rewind
  <2>2. CASE mode \in RandomModes /\ forward' # forward /\ cur' # cur
    <3>1. /\ owed'.song = Current
          /\ songs' = songs /\ mode' = mode /\ forward' = PrevForward
      BY <1>3, <2>1, <2>2 DEF Rewind, PrevBack
    <3>2. cur > 0 /\ forward' = Append(forward, cur)
      BY <2>2, <3>1 DEF PrevForward
    <3>3. cur \in DOMAIN songs /\ forward \in Seq(DOMAIN songs)
      BY <1>1, <3>2, ArrayFacts DEF StackOK
    <3>4. forward' # <<>> /\ forward'[Len(forward')] = cur
      BY <3>2, <3>3
    <3>5. Current = songs[cur]
      BY <3>3 DEF Current
    <3> QED  BY <2>2, <3>1, <3>4, <3>5 DEF PromiseInv
  <2>3. CASE ~(mode \in RandomModes /\ forward' # forward /\ cur' # cur)
    BY <1>2, <1>3, <2>3 DEF Rewind
  <2> QED  BY <2>2, <2>3
<1>4. CASE Insert
  <2>1. PICK s \in Songs :
          \/ Add(s) /\ owed' = Nothing
          \/ /\ AddNext(s)
             /\ owed' = IF cur > 0 /\ mode \notin RandomModes
                          THEN [by |-> "addNext", song |-> s] ELSE Nothing
    BY <1>4 DEF Insert
  <2>2. CASE AddNext(s) /\ cur > 0 /\ mode \notin RandomModes /\ owed'.song = s
    <3>1. s \in Songs /\ songs' = InsertAt(songs, cur + 1, s) /\ UNCHANGED <<cur, mode>>
      BY <2>2 DEF AddNext, Splice
    <3>2. /\ songs \in Seq(Songs) /\ Len(songs) \in Nat
          /\ cur \in 0 .. Len(songs) /\ cur + 1 \in 1 .. Len(songs) + 1
      BY <1>1, ArrayFacts
    <3>3. /\ Len(songs') = Len(songs) + 1
          /\ songs'[cur + 1] = s
      BY <3>1, <3>2, InsertAtProperties
    <3>4. mode \in {"seq", "loop"}
      BY <1>1, <2>2 DEF IndexOK, Modes, RandomModes
    <3> QED  BY <2>2, <3>1, <3>2, <3>3, <3>4 DEF PromiseInv
  <2> QED  BY <1>2, <2>1, <2>2
<1>5. CASE UNCHANGED lvars
  BY <1>5 DEF lvars, PromiseInv
<1> QED
  BY <1>2, <1>3, <1>4, <1>5 DEF LNext, Start, Drop, DropAll, RunDry, Quiet

LEMMA PromiseKept ==
    ASSUME TypeOK, PromiseInv, NextSong, owed.by # "nobody"
    PROVE  songs'[cur'] = owed.song
<1>1. /\ DOMAIN songs = 1 .. Len(songs) /\ Len(songs) \in Nat /\ cur \in 0 .. Len(songs)
      /\ forward \in Seq(DOMAIN songs) /\ DOMAIN forward = 1 .. Len(forward)
  BY ArrayFacts DEF TypeOK
<1>2. songs' = songs
  BY DEF NextSong, NextSequential, NextLoop, NextResume, NextPick, NextCycle, AdvanceTo
<1>3. CASE mode \in RandomModes /\ forward # <<>>
           /\ forward[Len(forward)] # cur /\ songs[forward[Len(forward)]] = owed.song
  <2>1. Len(forward) \in DOMAIN forward /\ Resumable(Len(forward))
    <3>1. Len(forward) \in 1 .. Len(forward)
      BY <1>1, <1>3
    <3> QED  BY <1>1, <1>3, <3>1, ElementOfSeq DEF Resumable
  <2>2. ~Shuffling /\ ~NextSequential /\ ~NextLoop
    BY <1>3, <2>1 DEF Shuffling, NextSequential, NextLoop, RandomModes
  <2>3. PICK k \in DOMAIN forward : NextResume(k)
    BY <2>2 DEF NextSong, NextPick, NextCycle
  <2>4. k = Len(forward)
    BY <1>1, <2>1, <2>3 DEF NextResume
  <2> QED  BY <1>2, <1>3, <2>3, <2>4 DEF NextResume, AdvanceTo
<1>4. CASE mode \in {"seq", "loop"} /\ cur < Len(songs) /\ songs[cur + 1] = owed.song
  <2>1. NextSequential \/ NextLoop
    BY <1>4 DEF NextSong, NextResume, NextPick, NextCycle, Shuffling, RandomModes
  <2>2. cur % Len(songs) = cur
    <3>1. \A a, b \in Nat : a < b => a % b = a
      OBVIOUS
    <3> QED  BY <1>1, <1>4, <3>1
  <2> QED  BY <1>2, <1>4, <2>1, <2>2 DEF NextSequential, NextLoop, AdvanceTo
<1> QED  BY <1>3, <1>4 DEF PromiseInv

\* The listener only watches: its steps are steps of the queue.
LEMMA ListenerIsQueue == [LNext]_lvars => [Next]_vars
  BY DEF LNext, lvars, vars, Next, Start, Rewind, Drop, DropAll, RunDry, Insert, Quiet

LEMMA ListenerTypes == LSpec => []TypeOK
<1>1. LInit => TypeOK
  BY TypeInit DEF LInit
<1>2. TypeOK /\ [LNext]_lvars => TypeOK'
  BY ListenerIsQueue, TypeStep
<1> QED  BY <1>1, <1>2, PTL DEF LSpec

\* Whatever was inserted, removed and played before it: the call of next after a
\* prev in a shuffle goes back to the song that was left, and the one after an
\* addNext in the ordered modes to the inserted song.
THEOREM PromisesAreKept == LSpec => NextIsAsPromised
<1>1. LInit => PromiseInv
  BY DEF LInit, PromiseInv, Nothing
<1>2. TypeOK /\ PromiseInv /\ [LNext]_lvars => PromiseInv'
  BY PromiseStep
<1>3. TypeOK /\ PromiseInv /\ [LNext]_lvars =>
        [NextSong /\ owed.by # "nobody" => songs'[cur'] = owed.song]_lvars
  BY PromiseKept
<1> QED  BY <1>1, <1>2, <1>3, ListenerTypes, PTL DEF LSpec, NextIsAsPromised

-----------------------------------------------------------------------------
(* The queue that names songs *)

\* A stack of indices, as the songs it stands for.
Named(stack) == [k \in DOMAIN stack |-> songs[stack[k]]]

LEMMA NamedFacts ==
    ASSUME IndexOK, NEW stack \in Seq(DOMAIN songs)
    PROVE  /\ Named(stack) \in Seq(Songs) /\ Len(Named(stack)) = Len(stack)
           /\ DOMAIN Named(stack) = 1 .. Len(stack)
           /\ \A k \in 1 .. Len(stack) :
                /\ stack[k] \in 1 .. Len(songs)
                /\ Named(stack)[k] = songs[stack[k]]
<1>1. DOMAIN stack = 1 .. Len(stack) /\ Len(stack) \in Nat
  OBVIOUS
<1>2. \A k \in 1 .. Len(stack) : stack[k] \in 1 .. Len(songs) /\ songs[stack[k]] \in Songs
  BY ArrayFacts, ElementOfSeq
<1>3. Named(stack) \in [1 .. Len(stack) -> Songs]
  BY <1>1, <1>2 DEF Named
<1> QED  BY <1>1, <1>2, <1>3 DEF Named

LEMMA NamedIs ==
    ASSUME IndexOK, NEW stack \in Seq(DOMAIN songs), NEW t \in Seq(Songs), Len(t) = Len(stack),
           \A k \in 1 .. Len(stack) : t[k] = songs[stack[k]]
    PROVE  Named(stack) = t
  BY NamedFacts, SeqEqual

LEMMA NamedAppend ==
    ASSUME IndexOK, NEW stack \in Seq(DOMAIN songs), NEW i \in DOMAIN songs
    PROVE  Named(Append(stack, i)) = Append(Named(stack), songs[i])
<1>1. songs[i] \in Songs
  BY ArrayFacts
<1>2. /\ Append(stack, i) \in Seq(DOMAIN songs) /\ Len(Append(stack, i)) = Len(stack) + 1
      /\ \A k \in 1 .. Len(stack) + 1 :
           Append(stack, i)[k] = IF k <= Len(stack) THEN stack[k] ELSE i
  OBVIOUS
<1>3. /\ Named(stack) \in Seq(Songs) /\ Len(Named(stack)) = Len(stack)
      /\ \A k \in 1 .. Len(stack) : Named(stack)[k] = songs[stack[k]]
  BY NamedFacts
<1>4. /\ Append(Named(stack), songs[i]) \in Seq(Songs)
      /\ Len(Append(Named(stack), songs[i])) = Len(stack) + 1
      /\ \A k \in 1 .. Len(stack) + 1 :
           Append(Named(stack), songs[i])[k] =
             IF k <= Len(stack) THEN songs[stack[k]] ELSE songs[i]
  <2> DEFINE names == Named(stack)
  <2>1. /\ names \in Seq(Songs) /\ Len(names) = Len(stack)
        /\ \A k \in 1 .. Len(stack) : names[k] = songs[stack[k]]
    BY <1>3
  <2> HIDE DEF names
  <2> QED  BY <1>1, <2>1 DEF names
<1>5. \A k \in 1 .. Len(stack) + 1 :
        Append(Named(stack), songs[i])[k] = songs[Append(stack, i)[k]]
  BY <1>2, <1>4
<1> QED  BY <1>2, <1>4, <1>5, NamedIs

LEMMA NamedFront ==
    ASSUME IndexOK, NEW stack \in Seq(DOMAIN songs), NEW m \in 0 .. Len(stack)
    PROVE  Named(SubSeq(stack, 1, m)) = SubSeq(Named(stack), 1, m)
<1>1. /\ SubSeq(stack, 1, m) \in Seq(DOMAIN songs) /\ Len(SubSeq(stack, 1, m)) = m
      /\ \A k \in 1 .. m : SubSeq(stack, 1, m)[k] = stack[k]
  OBVIOUS
<1> DEFINE names == Named(stack)
<1>2. /\ names \in Seq(Songs) /\ Len(names) = Len(stack)
      /\ \A k \in 1 .. Len(stack) : names[k] = songs[stack[k]]
  BY NamedFacts
<1> HIDE DEF names
<1>3. /\ SubSeq(names, 1, m) \in Seq(Songs) /\ Len(SubSeq(names, 1, m)) = m
      /\ \A k \in 1 .. m : SubSeq(names, 1, m)[k] = names[k]
  BY <1>2
<1>4. \A k \in 1 .. m : SubSeq(names, 1, m)[k] = songs[SubSeq(stack, 1, m)[k]]
  BY <1>1, <1>2, <1>3
<1>5. Named(SubSeq(stack, 1, m)) = SubSeq(names, 1, m)
  BY <1>1, <1>3, <1>4, NamedIs
<1> QED  BY <1>5 DEF names

LEMMA NamedTail ==
    ASSUME IndexOK, NEW stack \in Seq(DOMAIN songs), stack # <<>>
    PROVE  Named(Tail(stack)) = Tail(Named(stack))
<1>1. /\ Tail(stack) \in Seq(DOMAIN songs) /\ Len(Tail(stack)) = Len(stack) - 1
      /\ \A k \in 1 .. Len(stack) - 1 : Tail(stack)[k] = stack[k + 1]
  BY HeadTailProperties
<1> DEFINE names == Named(stack)
<1>2. /\ names \in Seq(Songs) /\ Len(names) = Len(stack)
      /\ \A k \in 1 .. Len(stack) : names[k] = songs[stack[k]]
  BY NamedFacts
<1> HIDE DEF names
<1>3. names # <<>>
  BY <1>2
<1>4. /\ Tail(names) \in Seq(Songs) /\ Len(Tail(names)) = Len(names) - 1
      /\ \A k \in 1 .. Len(names) - 1 : Tail(names)[k] = names[k + 1]
  BY <1>2, <1>3, HeadTailProperties
<1>5. \A k \in 1 .. Len(stack) - 1 : Tail(names)[k] = songs[Tail(stack)[k]]
  BY <1>1, <1>2, <1>4
<1> QED  BY <1>1, <1>2, <1>4, <1>5, NamedIs DEF names

LEMMA NamedEmpty == ASSUME NEW f PROVE [k \in DOMAIN <<>> |-> f[<<>>[k]]] = <<>>
<1> DEFINE empty == [k \in DOMAIN <<>> |-> f[<<>>[k]]]
<1>1. <<>> \in Seq({}) /\ Len(<<>>) = 0 /\ DOMAIN <<>> = 1 .. 0 /\ ~(\E k \in 1 .. 0 : TRUE)
  OBVIOUS
<1>2. empty \in [1 .. 0 -> {}]
  BY <1>1
<1> HIDE DEF empty
<1>3. empty \in Seq({}) /\ Len(empty) = 0
  BY <1>2
<1>4. empty = <<>>
  BY <1>1, <1>3, SeqEqual
<1> QED  BY <1>4 DEF empty

\* A song has one position, and the current song's is the cursor.
LEMMA PositionFacts ==
    ASSUME IndexOK
    PROVE  /\ \A i \in 1 .. Len(songs) : Entries!Position(songs[i]) = i
           /\ Entries!Position(Current) = cur
           /\ Current = NoSong <=> cur = 0
           /\ cur # 0 => cur \in 1 .. Len(songs) /\ Current = songs[cur]
<1>1. \A i \in 1 .. Len(songs) : Entries!Position(songs[i]) = i
  BY ArrayFacts DEF Entries!Position
<1>2. Current = NoSong <=> cur = 0
  BY ArrayFacts DEF Current
<1>3. cur # 0 => cur \in 1 .. Len(songs) /\ Current = songs[cur]
  BY ArrayFacts DEF Current
<1>4. Entries!Position(NoSong) = 0
  BY DEF Entries!Position
<1> QED  BY <1>1, <1>2, <1>3, <1>4

\* What pushHistory leaves stands for what Remember says.
LEMMA RememberIsSeen ==
    ASSUME IndexOK, StackOK(history)
    PROVE  Named(PushHistory(history, cur)) = Entries!Remember(Named(history))
<1>1. /\ history \in Seq(DOMAIN songs) /\ Len(history) <= HistoryLimit /\ Len(history) \in Nat
      /\ HistoryLimit \in Nat \ {0}
      /\ Len(Named(history)) = Len(history)
  BY NamedFacts, QueueAssumption DEF StackOK
<1>2. CASE cur = 0
  BY <1>2, PositionFacts, ArrayFacts DEF PushHistory, Entries!Remember
<1>3. CASE cur # 0 /\ Len(history) < HistoryLimit
  <2>1. cur \in DOMAIN songs /\ Current = songs[cur] /\ Current # NoSong
    BY <1>3, PositionFacts, ArrayFacts
  <2> QED  BY <1>1, <1>3, <2>1, NamedAppend DEF PushHistory, Entries!Remember
<1>4. CASE cur # 0 /\ ~(Len(history) < HistoryLimit)
  <2>1. cur \in DOMAIN songs /\ Current = songs[cur] /\ Current # NoSong
    BY <1>4, PositionFacts, ArrayFacts
  <2>2. history # <<>> /\ PushHistory(history, cur) = Tail(Append(history, cur))
    BY <1>1, <1>4, <2>1 DEF PushHistory
  <2>3. Tail(Append(history, cur)) = Append(Tail(history), cur)
    <3>1. /\ Tail(history) \in Seq(DOMAIN songs) /\ Len(Tail(history)) = Len(history) - 1
          /\ \A k \in 1 .. Len(history) - 1 : Tail(history)[k] = history[k + 1]
      BY <1>1, <2>2, HeadTailProperties
    <3>2. /\ Append(Tail(history), cur) \in Seq(DOMAIN songs)
          /\ Len(Append(Tail(history), cur)) = Len(history)
          /\ \A k \in 1 .. Len(history) :
               Append(Tail(history), cur)[k] =
                 IF k <= Len(history) - 1 THEN Tail(history)[k] ELSE cur
      BY <1>1, <2>1, <3>1
    <3> DEFINE longer == Append(history, cur)
    <3>3. /\ longer \in Seq(DOMAIN songs) /\ Len(longer) = Len(history) + 1 /\ longer # <<>>
          /\ \A k \in 1 .. Len(history) + 1 :
               longer[k] = IF k <= Len(history) THEN history[k] ELSE cur
      BY <1>1, <2>1
    <3> HIDE DEF longer
    <3>4. /\ Tail(longer) \in Seq(DOMAIN songs) /\ Len(Tail(longer)) = Len(history)
          /\ \A k \in 1 .. Len(history) : Tail(longer)[k] = longer[k + 1]
      BY <1>1, <3>3, HeadTailProperties
    <3>5. \A k \in 1 .. Len(history) : Tail(longer)[k] = Append(Tail(history), cur)[k]
      BY <1>1, <3>1, <3>2, <3>3, <3>4
    <3> QED  BY <3>2, <3>4, <3>5, SeqEqual DEF longer
  <2>4. Tail(history) \in Seq(DOMAIN songs)
    BY <1>1, <2>2, HeadTailProperties
  <2> QED  BY <1>1, <1>4, <2>1, <2>2, <2>3, <2>4, NamedAppend, NamedTail DEF Entries!Remember
<1> QED  BY <1>2, <1>3, <1>4

\* So does what prev leaves on the forward stack.
LEMMA LeaveIsSeen ==
    ASSUME IndexOK, StackOK(forward), songs' = songs, forward' = PrevForward
    PROVE  Entries!Leave
<1>1. forward \in Seq(DOMAIN songs) /\ Len(Named(forward)) = Len(forward)
  BY NamedFacts DEF StackOK
<1>2. Named(forward)' = Named(PrevForward)
  BY DEF Named
<1>3. Named(PrevForward) = IF Current # NoSong /\ Len(Named(forward)) < HistoryLimit
                             THEN Append(Named(forward), Current) ELSE Named(forward)
  <2>1. CASE cur > 0 /\ Len(forward) < HistoryLimit
    <3>1. cur \in DOMAIN songs /\ Current = songs[cur] /\ Current # NoSong
      BY <2>1, PositionFacts, ArrayFacts
    <3> QED  BY <1>1, <2>1, <3>1, NamedAppend DEF PrevForward
  <2>2. CASE ~(cur > 0 /\ Len(forward) < HistoryLimit)
    <3>1. cur > 0 <=> Current # NoSong
      BY PositionFacts, ArrayFacts
    <3> QED  BY <1>1, <2>2, <3>1 DEF PrevForward
  <2> QED  BY <2>1, <2>2
<1> QED  BY <1>2, <1>3 DEF Entries!Leave, Named

\* The songs marked as played.
Marked == {songs[i] : i \in played}

\* A splice moves the entries of a stack along with their songs.
LEMMA SpliceNames ==
    ASSUME IndexOK, NEW s \in Fresh, NEW at \in 1 .. Len(songs) + 1,
           songs' = InsertAt(songs, at, s)
    PROVE  /\ \A i \in 1 .. Len(songs) : songs'[ShiftUp(i, at)] = songs[i]
           /\ \A stack \in Seq(DOMAIN songs) :
                LET shifted == [k \in DOMAIN stack |-> ShiftUp(stack[k], at)]
                IN  [k \in DOMAIN shifted |-> songs'[shifted[k]]] = Named(stack)
<1>1. songs \in Seq(Songs) /\ DOMAIN songs = 1 .. Len(songs) /\ Len(songs) \in Nat /\ s \in Songs
  BY ArrayFacts DEF Fresh
<1>2. \A i \in 1 .. Len(songs) + 1 :
        songs'[i] = IF i < at THEN songs[i] ELSE IF i = at THEN s ELSE songs[i - 1]
  BY <1>1, InsertAtProperties
<1>3. \A i \in 1 .. Len(songs) : songs'[ShiftUp(i, at)] = songs[i]
  <2> TAKE i \in 1 .. Len(songs)
  <2>1. CASE i >= at
    <3>1. i + 1 \in 1 .. Len(songs) + 1 /\ ~(i + 1 < at) /\ i + 1 # at /\ (i + 1) - 1 = i
      BY <1>1, <2>1
    <3> QED  BY <1>2, <2>1, <3>1 DEF ShiftUp
  <2>2. CASE ~(i >= at)
    BY <1>1, <1>2, <2>2 DEF ShiftUp
  <2> QED  BY <2>1, <2>2
<1>4. ASSUME NEW stack \in Seq(DOMAIN songs)
      PROVE  LET shifted == [k \in DOMAIN stack |-> ShiftUp(stack[k], at)]
             IN  [k \in DOMAIN shifted |-> songs'[shifted[k]]] = Named(stack)
  <2>1. \A k \in DOMAIN stack : stack[k] \in 1 .. Len(songs)
    BY <1>1, ElementOfSeq
  <2> QED  BY <1>3, <2>1 DEF Named
<1> QED  BY <1>3, <1>4

\* Whatever is inserted behind the cursor: every record names what it named.
LEMMA SpliceIsInsert ==
    ASSUME TypeOK, NEW s \in Fresh, NEW at \in cur + 1 .. Len(songs) + 1, Splice(s, at)
    PROVE  Entries!Insert(s, at)
<1>1. IndexOK /\ history \in Seq(DOMAIN songs) /\ forward \in Seq(DOMAIN songs)
      /\ played \subseteq 1 .. Len(songs) /\ at \in 1 .. Len(songs) + 1
  BY ArrayFacts DEF TypeOK
<1>2. Current' = Current /\ mode' = mode /\ songs' = InsertAt(songs, at, s)
  BY <1>1, SpliceStep DEF Splice
<1>3. /\ played' = {ShiftUp(i, at) : i \in played}
      /\ history' = [k \in DOMAIN history |-> ShiftUp(history[k], at)]
      /\ forward' = [k \in DOMAIN forward |-> ShiftUp(forward[k], at)]
  BY DEF Splice
<1>4. Marked' = Marked
  <2>1. \A i \in 1 .. Len(songs) : songs'[ShiftUp(i, at)] = songs[i]
    BY <1>1, <1>2, SpliceNames
  <2>2. Marked' = {songs'[ShiftUp(i, at)] : i \in played}
    BY <1>3 DEF Marked
  <2> QED  BY <1>1, <2>1, <2>2 DEF Marked
<1>5. Named(history)' = Named(history) /\ Named(forward)' = Named(forward)
  BY <1>1, <1>2, <1>3, SpliceNames DEF Named
<1>6. s \in Songs /\ s \notin Entries!Queued
  BY DEF Fresh, Entries!Queued, ToSet, Entries!ToSet
<1>7. InsertAt(songs, at, s) = Entries!InsertAt(songs, at, s)
  BY DEF InsertAt, Entries!InsertAt
<1> QED  BY <1>2, <1>4, <1>5, <1>6, <1>7 DEF Entries!Insert, Marked, Named

LEMMA PushIsInsert ==
    ASSUME TypeOK, NEW s \in Fresh, Push(s)
    PROVE  Entries!Insert(s, Len(songs) + 1)
<1>1. IndexOK /\ history \in Seq(DOMAIN songs) /\ forward \in Seq(DOMAIN songs)
  BY DEF TypeOK
<1>2. /\ songs \in Seq(Songs) /\ DOMAIN songs = 1 .. Len(songs) /\ Len(songs) \in Nat
      /\ played \subseteq 1 .. Len(songs) /\ s \in Songs
  BY <1>1, ArrayFacts DEF Fresh
<1>3. Current' = Current /\ UNCHANGED <<mode, played, history, forward>>
      /\ songs' = Append(songs, s)
  BY <1>1, PushStep DEF Push
<1>4. \A i \in 1 .. Len(songs) : songs'[i] = songs[i]
  BY <1>2, <1>3
<1>5. Marked' = Marked
  BY <1>2, <1>3, <1>4 DEF Marked
<1>6. ASSUME NEW stack \in Seq(DOMAIN songs)
      PROVE  [k \in DOMAIN stack |-> songs'[stack[k]]] = Named(stack)
  <2>1. \A k \in DOMAIN stack : stack[k] \in 1 .. Len(songs)
    BY <1>2, ElementOfSeq
  <2> QED  BY <1>4, <2>1 DEF Named
<1>7. Named(history)' = Named(history) /\ Named(forward)' = Named(forward)
  BY <1>1, <1>3, <1>6 DEF Named
<1>8. s \notin Entries!Queued
  BY DEF Fresh, Entries!Queued, ToSet, Entries!ToSet
<1>9. songs' = Entries!InsertAt(songs, Len(songs) + 1, s)
  <2>1. songs' = InsertAt(songs, Len(songs) + 1, s)
    BY <1>2, <1>3, AppendIsInsertAt
  <2> QED  BY <2>1 DEF InsertAt, Entries!InsertAt
<1> QED  BY <1>2, <1>3, <1>5, <1>7, <1>8, <1>9 DEF Entries!Insert, Marked, Named

\* Fill goes to the end, a request before the first fill behind the cursor.
LEMMA AddIsSeen ==
    ASSUME TypeOK, NEW s \in Songs, Add(s)
    PROVE  Entries!Add(s)
<1>1. IndexOK /\ s \in Fresh
  BY DEF TypeOK, Add
<1>2. Entries!Position(Current) = cur /\ cur \in 0 .. Len(songs) /\ Len(songs) \in Nat
  BY <1>1, PositionFacts, ArrayFacts
<1>3. CASE Push(s) /\ (s \in Radio \/ \A i \in cur + 1 .. Len(songs) : songs[i] \notin Radio)
  <2>1. Entries!Insert(s, Len(songs) + 1) /\ Len(songs) + 1 \in cur + 1 .. Len(songs) + 1
    BY <1>1, <1>2, <1>3, PushIsInsert
  <2> QED  BY <1>2, <1>3, <2>1 DEF Entries!Add
<1>4. CASE /\ s \notin Radio
           /\ \E at \in DOMAIN songs : FirstFill(at) /\ Splice(s, at)
  <2>1. PICK at \in DOMAIN songs : FirstFill(at) /\ Splice(s, at)
    BY <1>4
  <2>2. at \in cur + 1 .. Len(songs) + 1
    BY <1>2, <2>1 DEF FirstFill
  <2>3. Entries!Insert(s, at)
    BY <1>1, <2>1, <2>2, SpliceIsInsert
  <2> QED  BY <1>2, <1>4, <2>1, <2>2, <2>3 DEF Entries!Add, FirstFill
<1> QED  BY <1>3, <1>4 DEF Add

LEMMA AddNextIsSeen ==
    ASSUME TypeOK, NEW s \in Songs, AddNext(s)
    PROVE  Entries!AddNext(s)
<1>1. IndexOK /\ s \in Fresh
  BY DEF TypeOK, AddNext
<1>2. /\ Entries!Position(Current) = cur /\ (Current = NoSong <=> cur = 0)
      /\ cur \in 0 .. Len(songs) /\ Len(songs) \in Nat
  BY <1>1, PositionFacts, ArrayFacts
<1>3. CASE cur = 0
  BY <1>1, <1>2, <1>3, PushIsInsert DEF AddNext, Entries!AddNext
<1>4. CASE cur # 0
  <2>1. cur + 1 \in cur + 1 .. Len(songs) + 1 /\ Splice(s, cur + 1)
    BY <1>2, <1>4 DEF AddNext
  <2> QED  BY <1>1, <1>2, <1>4, <2>1, SpliceIsInsert DEF Entries!AddNext
<1> QED  BY <1>3, <1>4

\* A removal takes its song out of every record, and no other.
LEMMA RemovalNames ==
    ASSUME IndexOK, NEW r \in 1 .. Len(songs), NEW stack \in Seq(DOMAIN songs),
           songs' = RemoveAt(songs, r)
    PROVE  LET left == ShiftedOut(stack, r)
           IN  [k \in DOMAIN left |-> songs'[left[k]]] = Entries!Sifted(Named(stack), songs[r])
<1> DEFINE names == Named(stack)
           kept == Sifted(stack, r)
           keptNames == Sifted(names, songs[r])
           left == ShiftedOut(stack, r)
<1>1. /\ songs \in Seq(Songs) /\ DOMAIN songs = 1 .. Len(songs) /\ Len(songs) \in Nat
      /\ \A i, j \in 1 .. Len(songs) : songs[i] = songs[j] => i = j
  BY ArrayFacts
<1>2. \A i \in 1 .. Len(songs) : i # r => songs'[ShiftDown(i, r)] = songs[i]
  <2>1. \A k \in 1 .. Len(songs) - 1 : songs'[k] = IF k < r THEN songs[k] ELSE songs[k + 1]
    BY <1>1, RemoveAtProperties
  <2> SUFFICES ASSUME NEW i \in 1 .. Len(songs), i # r
               PROVE  songs'[ShiftDown(i, r)] = songs[i]
    OBVIOUS
  <2>2. CASE i > r
    <3>1. i - 1 \in 1 .. Len(songs) - 1 /\ ~(i - 1 < r) /\ (i - 1) + 1 = i
      BY <1>1, <2>2
    <3> QED  BY <2>1, <2>2, <3>1 DEF ShiftDown
  <2>3. CASE ~(i > r)
    <3>1. i \in 1 .. Len(songs) - 1 /\ i < r
      BY <1>1, <2>3
    <3> QED  BY <2>1, <2>3, <3>1 DEF ShiftDown
  <2> QED  BY <2>2, <2>3
<1>3. /\ stack \in Seq(1 .. Len(songs)) /\ names \in Seq(Songs) /\ Len(stack) = Len(names)
      /\ \A k \in 1 .. Len(stack) :
           stack[k] \in 1 .. Len(songs) /\ names[k] = songs[stack[k]]
  BY <1>1, NamedFacts
<1>4. \A k \in 1 .. Len(stack) : stack[k] = r <=> names[k] = songs[r]
  BY <1>1, <1>3
<1>5. /\ keptNames \in Seq(Songs \ {songs[r]})
      /\ left \in Seq(1 .. Len(songs) - 1) /\ Len(left) = Len(kept)
      /\ \A j \in 1 .. Len(kept) : left[j] = ShiftDown(kept[j], r)
  BY <1>1, <1>3, SiftedProperties, StackShiftsDown
<1> HIDE DEF names
<1>6. LeftAlike(stack, r, names, songs[r])
  BY <1>3, <1>4, SiftedTogether
<1>7. PICK n \in Nat : \E p \in [1 .. n -> 1 .. Len(stack)] :
        /\ Len(kept) = n /\ Len(keptNames) = n
        /\ \A j \in 1 .. n :
             stack[p[j]] # r /\ kept[j] = stack[p[j]] /\ keptNames[j] = names[p[j]]
  BY <1>6 DEF kept, keptNames, LeftAlike
<1>8. PICK p \in [1 .. n -> 1 .. Len(stack)] :
        /\ Len(kept) = n /\ Len(keptNames) = n
        /\ \A j \in 1 .. n :
             stack[p[j]] # r /\ kept[j] = stack[p[j]] /\ keptNames[j] = names[p[j]]
  BY <1>7
<1> HIDE DEF kept, keptNames, left
<1>9. ASSUME NEW j \in 1 .. Len(left)
      PROVE  songs'[left[j]] = keptNames[j]
  <2>1. /\ j \in 1 .. n /\ p[j] \in 1 .. Len(stack)
        /\ left[j] = ShiftDown(stack[p[j]], r) /\ keptNames[j] = names[p[j]]
    BY <1>5, <1>8
  <2> QED  BY <1>2, <1>3, <1>8, <2>1
<1>10. DOMAIN left = 1 .. Len(left) /\ keptNames = [j \in 1 .. Len(left) |-> keptNames[j]]
  BY <1>5, <1>7, <1>8
<1>11. [k \in DOMAIN left |-> songs'[left[k]]] = keptNames
  BY <1>9, <1>10
<1>12. keptNames = Entries!Sifted(names, songs[r])
  BY Zenon DEF keptNames, Sifted, Entries!Sifted, Nth, Entries!Nth,
               Cardinality, Entries!Cardinality
<1> QED  BY <1>11, <1>12 DEF left, names

LEMMA RemoveIsSeen ==
    ASSUME TypeOK, NEW r \in DOMAIN songs, RemoveSong(r), NEW s, s = songs[r]
    PROVE  Entries!RemoveSong(s)
<1>1. IndexOK /\ history \in Seq(DOMAIN songs) /\ forward \in Seq(DOMAIN songs)
  BY DEF TypeOK
<1>2. /\ songs \in Seq(Songs) /\ DOMAIN songs = 1 .. Len(songs) /\ Len(songs) \in Nat
      /\ \A i, j \in 1 .. Len(songs) : songs[i] = songs[j] => i = j
      /\ \A i \in 1 .. Len(songs) : songs[i] \in Songs /\ songs[i] # NoSong
      /\ cur \in 0 .. Len(songs) /\ played \subseteq 1 .. Len(songs) /\ r \in 1 .. Len(songs)
  BY <1>1, ArrayFacts
<1>3. /\ songs' = RemoveAt(songs, r) /\ cur' = IF r <= cur THEN cur - 1 ELSE cur
      /\ played' = {ShiftDown(k, r) : k \in played \ {r}} /\ mode' = mode
      /\ history' = ShiftedOut(history, r) /\ forward' = ShiftedOut(forward, r)
  BY DEF RemoveSong
<1>4. /\ Named(history)' = Entries!Sifted(Named(history), songs[r])
      /\ Named(forward)' = Entries!Sifted(Named(forward), songs[r])
  BY <1>1, <1>2, <1>3, RemovalNames DEF Named
<1>5. /\ Len(songs') = Len(songs) - 1
      /\ \A k \in 1 .. Len(songs) - 1 : songs'[k] = IF k < r THEN songs[k] ELSE songs[k + 1]
  BY <1>2, <1>3, RemoveAtProperties
<1>6. \A i \in 1 .. Len(songs) : i # r => songs'[ShiftDown(i, r)] = songs[i]
  <2> SUFFICES ASSUME NEW i \in 1 .. Len(songs), i # r
               PROVE  songs'[ShiftDown(i, r)] = songs[i]
    OBVIOUS
  <2>1. CASE i > r
    <3>1. i - 1 \in 1 .. Len(songs) - 1 /\ ~(i - 1 < r) /\ (i - 1) + 1 = i
      BY <1>2, <2>1
    <3> QED  BY <1>5, <2>1, <3>1 DEF ShiftDown
  <2>2. CASE ~(i > r)
    <3>1. i \in 1 .. Len(songs) - 1 /\ i < r
      BY <1>2, <2>2
    <3> QED  BY <1>5, <2>2, <3>1 DEF ShiftDown
  <2> QED  BY <2>1, <2>2
<1>7. Marked' = Marked \ {songs[r]}
  <2>1. Marked' = {songs[i] : i \in played \ {r}}
    <3>1. Marked' = {songs'[ShiftDown(i, r)] : i \in played \ {r}}
      BY <1>3 DEF Marked
    <3>2. \A i \in played \ {r} : songs'[ShiftDown(i, r)] = songs[i]
      BY <1>2, <1>6
    <3> QED  BY <3>1, <3>2
  <2>2. {songs[i] : i \in played \ {r}} = Marked \ {songs[r]}
    BY <1>2 DEF Marked
  <2> QED  BY <2>1, <2>2
<1>8. Current' = IF songs[r] = Current THEN Entries!SongAt(Entries!Position(Current) - 1)
                                       ELSE Current
  <2>1. CASE r # cur
    <3>1. songs[r] # Current
      BY <1>2, <2>1 DEF Current
    <3> QED  BY <1>1, <2>1, <3>1, RemoveStep
  <2>2. CASE r = cur
    <3>1. songs[r] = Current /\ cur' = r - 1 /\ Entries!Position(Current) = r
      BY <1>1, <1>2, <1>3, <2>2, PositionFacts DEF Current
    <3>2. DOMAIN songs' = 1 .. Len(songs) - 1
      <4>1. IndexOK'
        BY <1>1, RemoveStep
      <4> QED  BY <1>5, <4>1, ArrayFacts DEF IndexOK
    <3>3. CASE r = 1
      BY <1>2, <3>1, <3>2, <3>3 DEF Current, Entries!SongAt
    <3>4. CASE r # 1
      <4>1. r - 1 \in 1 .. Len(songs) - 1 /\ r - 1 < r /\ r - 1 # 0
        BY <1>2, <3>4
      <4> QED  BY <1>5, <3>1, <3>2, <4>1 DEF Current, Entries!SongAt
    <3> QED  BY <3>3, <3>4
  <2> QED  BY <2>1, <2>2
<1>9. songs[r] \in Entries!Queued
  BY <1>2 DEF Entries!Queued, Entries!ToSet
<1>10. songs' = Entries!RemoveAt(songs, Entries!Position(songs[r]))
  <2>1. Entries!Position(songs[r]) = r
    BY <1>1, <1>2, PositionFacts
  <2> QED  BY <1>3, <2>1 DEF RemoveAt, Entries!RemoveAt
<1> QED
  BY <1>3, <1>4, <1>7, <1>8, <1>9, <1>10 DEF Entries!RemoveSong, Named, Marked

\* A step that leaves the array alone: each record is read through it.
LEMMA SameArray ==
    ASSUME songs' = songs
    PROVE  /\ Named(history)' = Named(history') /\ Named(forward)' = Named(forward')
           /\ Marked' = {songs[i] : i \in played'}
           /\ cur' \in DOMAIN songs => Current' = songs[cur']
  BY DEF Named, Marked, Current

LEMMA HistoryIsSeen ==
    ASSUME TypeOK, songs' = songs, history' = PushHistory(history, cur)
    PROVE  Named(history)' = Entries!Remember(Named(history))
<1>1. IndexOK /\ StackOK(history)
  BY DEF TypeOK, StackOK
<1>2. Named(history)' = Named(PushHistory(history, cur))
  BY SameArray
<1> QED  BY <1>1, <1>2, RememberIsSeen

\* Entry by entry, what a stack of indices names.
LEMMA StackFacts ==
    ASSUME TypeOK, NEW stack \in {history, forward}
    PROVE  /\ IndexOK /\ stack \in Seq(DOMAIN songs)
           /\ Len(stack) \in Nat /\ DOMAIN stack = 1 .. Len(stack)
           /\ Named(stack) \in Seq(Songs) /\ Len(Named(stack)) = Len(stack)
           /\ DOMAIN Named(stack) = 1 .. Len(stack)
           /\ \A k \in 1 .. Len(stack) :
                stack[k] \in 1 .. Len(songs) /\ Named(stack)[k] = songs[stack[k]]
<1>1. IndexOK /\ stack \in Seq(DOMAIN songs)
  BY DEF TypeOK
<1>2. Len(stack) \in Nat /\ DOMAIN stack = 1 .. Len(stack)
  BY <1>1
<1> QED  BY <1>1, <1>2, NamedFacts

LEMMA ClearIsSeen == ASSUME TypeOK, Clear PROVE Entries!Clear
<1>1. Current' = NoSong
  BY DEF Clear, Current
<1>2. Named(history)' = <<>> /\ Named(forward)' = <<>>
  BY NamedEmpty DEF Clear, Named
<1>3. Marked' = {}
  BY DEF Clear, Marked
<1> QED  BY <1>1, <1>2, <1>3 DEF Clear, Entries!Clear, Named, Marked

LEMMA PlayIsSeen == ASSUME TypeOK, Play PROVE Entries!Restart
<1>1. 1 \in DOMAIN songs
  BY ArrayFacts DEF TypeOK, Play
<1>2. Current' = songs[1] /\ Marked' = {songs[1]}
  BY <1>1, SameArray DEF Play
<1>3. Named(history)' = <<>> /\ Named(forward)' = <<>>
  BY NamedEmpty DEF Play, Named
<1> QED  BY <1>2, <1>3 DEF Play, Entries!Restart, Named, Marked

LEMMA PlayAtIsSeen ==
    ASSUME TypeOK, NEW i \in DOMAIN songs, PlayAt(i), NEW s, s = songs[i]
    PROVE  Entries!Jump(s)
<1>1. Current' = songs[i] /\ Marked' = {songs[i]}
  BY SameArray DEF PlayAt
<1>2. Named(history)' = Entries!Remember(Named(history))
  BY HistoryIsSeen DEF PlayAt
<1>3. Named(forward)' = <<>>
  BY NamedEmpty DEF PlayAt, Named
<1>4. songs[i] \in Entries!Queued
  BY DEF Entries!Queued, Entries!ToSet
<1> QED  BY <1>1, <1>2, <1>3, <1>4 DEF PlayAt, Entries!Jump, Named, Marked

LEMMA SetModeIsSeen ==
    ASSUME TypeOK, NEW m \in Modes, SetMode(m)
    PROVE  Entries!SetMode(m)
<1>1. Current' = Current
  BY DEF SetMode, Current
<1>2. Named(history)' = <<>> /\ Named(forward)' = <<>>
  BY NamedEmpty DEF SetMode, Named
<1>3. Marked' = {Current} \ {NoSong}
  <2>1. /\ Current = NoSong <=> cur = 0
        /\ cur # 0 => Current = songs[cur]
        /\ cur > 0 <=> cur # 0
    BY PositionFacts, ArrayFacts DEF TypeOK
  <2>2. Marked' = {songs[i] : i \in played'}
    BY SameArray DEF SetMode
  <2> QED  BY <2>1, <2>2 DEF SetMode
<1> QED  BY <1>1, <1>2, <1>3 DEF SetMode, Entries!SetMode, Named, Marked

-----------------------------------------------------------------------------
(* next *)

\* The cursor's way to song i, as the songs see it.
LEMMA AdvanceIsSeen ==
    ASSUME TypeOK, NEW i \in DOMAIN songs, AdvanceTo(i)
    PROVE  /\ Current' = songs[i] /\ songs' = songs /\ mode' = mode
           /\ Named(history)' = Entries!Remember(Named(history))
<1>1. Current' = songs[i]
  BY SameArray DEF AdvanceTo
<1> QED  BY <1>1, HistoryIsSeen DEF AdvanceTo

LEMMA NextInLineIsSeen ==
    ASSUME TypeOK, NextSequential \/ NextLoop
    PROVE  Entries!NextInLine
<1> DEFINE next == (cur % Len(songs)) + 1
<1>1. /\ Entries!Position(Current) = cur
      /\ DOMAIN songs = 1 .. Len(songs) /\ Len(songs) \in Nat /\ cur \in 0 .. Len(songs)
  BY PositionFacts, ArrayFacts DEF TypeOK
<1>2. songs # <<>> /\ Len(songs) > 0 /\ (cur < Len(songs) \/ mode = "loop")
  BY <1>1 DEF NextSequential, NextLoop
<1>3. next \in DOMAIN songs /\ AdvanceTo(next)
  <2>1. CASE NextSequential
    <3>1. cur < Len(songs) /\ AdvanceTo(cur + 1)
      BY <2>1 DEF NextSequential
    <3>2. cur % Len(songs) = cur
      <4>1. \A a, b \in Nat : a < b => a % b = a
        OBVIOUS
      <4> QED  BY <1>1, <3>1, <4>1
    <3> QED  BY <1>1, <3>1, <3>2
  <2>2. CASE NextLoop
    <3>1. \A a, b \in Nat : b > 0 => a % b \in 0 .. b - 1
      OBVIOUS
    <3>2. cur % Len(songs) \in 0 .. Len(songs) - 1
      BY <1>1, <1>2, <3>1
    <3> HIDE DEF next
    <3>3. next \in 1 .. Len(songs)
      BY <1>1, <3>2 DEF next
    <3> QED  BY <1>1, <2>2, <3>3 DEF NextLoop, next
  <2> QED  BY <2>1, <2>2
<1> HIDE DEF next
<1>4. /\ Current' = songs[next] /\ songs' = songs /\ mode' = mode
      /\ Named(history)' = Entries!Remember(Named(history))
  BY <1>3, AdvanceIsSeen
<1>5. Marked' = Marked /\ Named(forward)' = Named(forward)
  BY <1>4 DEF NextSequential, NextLoop, Marked, Named
<1>6. ~Entries!Random
  BY DEF NextSequential, NextLoop, Entries!Random
<1>7. songs[next] = songs[(Entries!Position(Current) % Len(songs)) + 1]
  BY <1>1 DEF next
<1> QED  BY <1>1, <1>2, <1>4, <1>5, <1>6, <1>7 DEF Entries!NextInLine, Marked, Named

LEMMA ResumeIsSeen ==
    ASSUME TypeOK, NEW k \in DOMAIN forward, NextResume(k)
    PROVE  Entries!Resume
<1> DEFINE i == forward[k]
<1>1. /\ IndexOK /\ forward \in Seq(DOMAIN songs) /\ DOMAIN forward = 1 .. Len(forward)
      /\ Len(forward) \in Nat
      /\ Len(Named(forward)) = Len(forward) /\ DOMAIN Named(forward) = 1 .. Len(forward)
      /\ \A j \in 1 .. Len(forward) :
           forward[j] \in 1 .. Len(songs) /\ Named(forward)[j] = songs[forward[j]]
  BY StackFacts
<1>2. /\ DOMAIN songs = 1 .. Len(songs)
      /\ \A a, b \in 1 .. Len(songs) : songs[a] = songs[b] => a = b
      /\ \A a \in 1 .. Len(songs) : songs[a] # NoSong
      /\ Current = NoSong <=> cur = 0
      /\ cur # 0 => cur \in 1 .. Len(songs) /\ Current = songs[cur]
  BY <1>1, ArrayFacts, PositionFacts
<1>3. /\ i \in DOMAIN songs /\ i # cur /\ AdvanceTo(i) /\ mode \in RandomModes
      /\ \A j \in DOMAIN forward : j > k => ~Resumable(j)
      /\ forward' = SubSeq(forward, 1, k - 1) /\ played' = played \cup {i}
  BY DEF NextResume, Resumable
<1>4. \A j \in k + 1 .. Len(forward) : Named(forward)[j] = Current
  <2> SUFFICES ASSUME NEW j \in k + 1 .. Len(forward) PROVE Named(forward)[j] = Current
    OBVIOUS
  <2>1. j \in 1 .. Len(forward) /\ j > k
    BY <1>1
  <2>2. forward[j] = cur
    BY <1>1, <1>2, <1>3, <2>1 DEF Resumable
  <2> QED  BY <1>1, <1>2, <2>1, <2>2
<1>5. Named(forward)[k] = songs[i] /\ songs[i] # Current
  BY <1>1, <1>2, <1>3
<1>6. /\ Current' = songs[i] /\ songs' = songs /\ mode' = mode
      /\ Named(history)' = Entries!Remember(Named(history))
  BY <1>3, AdvanceIsSeen
<1>7. Marked' = Marked \cup {songs[i]}
  BY <1>3, <1>6, SameArray DEF Marked
<1>8. Named(forward)' = SubSeq(Named(forward), 1, k - 1)
  <2>1. k - 1 \in 0 .. Len(forward)
    BY <1>1
  <2> QED  BY <1>1, <1>3, <1>6, <2>1, NamedFront, SameArray
<1>9. Entries!Random
  BY <1>3 DEF Entries!Random, RandomModes
<1>10. k \in DOMAIN Named(forward)
  BY <1>1
<1> HIDE DEF i
<1> QED
  BY <1>1, <1>4, <1>5, <1>6, <1>7, <1>8, <1>9, <1>10 DEF Entries!Resume, Marked, Named

\* Popped empty, the forward stack held nothing but the playing song.
LEMMA ShufflingIsSeen ==
    ASSUME TypeOK, Shuffling, songs' = songs
    PROVE  /\ Entries!Random /\ Named(forward)' = <<>>
           /\ Entries!ToSet(Named(forward)) \subseteq {Current}
<1>1. /\ DOMAIN forward = 1 .. Len(forward) /\ DOMAIN Named(forward) = 1 .. Len(forward)
      /\ IndexOK
      /\ \A j \in 1 .. Len(forward) :
           forward[j] \in 1 .. Len(songs) /\ Named(forward)[j] = songs[forward[j]]
  BY StackFacts
<1>2. /\ DOMAIN songs = 1 .. Len(songs) /\ 0 \notin 1 .. Len(songs)
      /\ cur # 0 => Current = songs[cur]
  BY <1>1, ArrayFacts, PositionFacts
<1>3. \A j \in 1 .. Len(forward) : Named(forward)[j] = Current
  BY <1>1, <1>2 DEF Shuffling, Resumable
<1>4. Named(forward)' = <<>>
  BY NamedEmpty DEF Shuffling, Named
<1> QED  BY <1>1, <1>3, <1>4 DEF Shuffling, Entries!Random, RandomModes, Entries!ToSet

LEMMA DrawIsSeen ==
    ASSUME TypeOK, NEW i \in DOMAIN songs, NextPick(i) \/ NextCycle(i), NEW s, s = songs[i]
    PROVE  Entries!Draw(s)
<1>1. /\ DOMAIN songs = 1 .. Len(songs) /\ Len(songs) \in Nat
      /\ \A a, b \in 1 .. Len(songs) : songs[a] = songs[b] => a = b
      /\ \A a \in 1 .. Len(songs) : songs[a] # NoSong
      /\ Current = NoSong <=> cur = 0
      /\ cur # 0 => cur \in 1 .. Len(songs) /\ Current = songs[cur]
      /\ played \subseteq 1 .. Len(songs)
  BY ArrayFacts, PositionFacts DEF TypeOK
<1>2. Shuffling /\ AdvanceTo(i)
  BY DEF NextPick, NextCycle
<1>3. /\ Current' = songs[i] /\ songs' = songs /\ mode' = mode
      /\ Named(history)' = Entries!Remember(Named(history))
  BY <1>2, AdvanceIsSeen
<1>4. /\ Entries!Random /\ Named(forward)' = <<>>
      /\ Entries!ToSet(Named(forward)) \subseteq {Current}
  BY <1>2, <1>3, ShufflingIsSeen
<1>5. Entries!Queued = {songs[a] : a \in 1 .. Len(songs)}
  BY <1>1 DEF Entries!Queued, Entries!ToSet
<1>6. \/ songs[i] \notin Marked /\ Marked' = Marked \cup {songs[i]}
      \/ /\ Entries!Queued \subseteq Marked
         /\ mode = "rloop"
         /\ songs[i] # Current \/ Entries!Queued = {songs[i]}
         /\ Marked' = {songs[i]}
  <2>1. CASE NextPick(i)
    <3>1. i \notin played /\ played' = played \cup {i}
      BY <2>1 DEF NextPick, Unplayed
    <3>2. songs[i] \notin Marked
      BY <1>1, <3>1 DEF Marked
    <3>3. Marked' = Marked \cup {songs[i]}
      BY <1>3, <3>1, SameArray DEF Marked
    <3> QED  BY <3>2, <3>3
  <2>2. CASE NextCycle(i)
    <3>1. /\ DOMAIN songs \subseteq played /\ mode = "rloop" /\ played' = {i}
          /\ i # cur \/ Len(songs) = 1
      BY <2>2 DEF NextCycle, Unplayed
    <3>2. Entries!Queued \subseteq Marked
      BY <1>1, <1>5, <3>1 DEF Marked
    <3>3. Marked' = {songs[i]}
      BY <1>3, <3>1, SameArray
    <3>4. songs[i] # Current \/ Entries!Queued = {songs[i]}
      <4>1. CASE i # cur
        BY <1>1, <4>1
      <4>2. CASE Len(songs) = 1
        <5>1. 1 .. Len(songs) = {i}
          BY <1>1, <4>2
        <5> QED  BY <1>5, <5>1
      <4> QED  BY <3>1, <4>1, <4>2
    <3> QED  BY <3>1, <3>2, <3>3, <3>4
  <2> QED  BY <2>1, <2>2
<1>7. songs[i] \in Entries!Queued
  BY <1>1, <1>5
<1> QED  BY <1>3, <1>4, <1>6, <1>7 DEF Entries!Draw, Marked, Named

LEMMA DryIsSeen == ASSUME TypeOK, NextDry PROVE Entries!Exhausted
<1>1. /\ Shuffling /\ DOMAIN songs \subseteq played /\ mode = "random"
      /\ UNCHANGED <<songs, cur, mode, played, history>>
  BY DEF NextDry, Unplayed
<1>2. Entries!ToSet(Named(forward)) \subseteq {Current} /\ Named(forward)' = <<>>
  BY <1>1, ShufflingIsSeen
<1>3. Entries!Queued \subseteq Marked
  BY <1>1 DEF Entries!Queued, Entries!ToSet, Marked
<1>4. Current' = Current /\ Marked' = Marked /\ Named(history)' = Named(history)
  BY <1>1 DEF Current, Marked, Named
<1> QED  BY <1>1, <1>2, <1>3, <1>4 DEF Entries!Exhausted, Marked, Named

-----------------------------------------------------------------------------
(* prev *)

LEMMA BackIsSeen ==
    ASSUME TypeOK, NEW k \in DOMAIN history, PrevBack(k)
    PROVE  Entries!Back
<1>1. /\ IndexOK /\ StackOK(forward) /\ history \in Seq(DOMAIN songs)
      /\ DOMAIN history = 1 .. Len(history) /\ Len(history) \in Nat
      /\ Named(history) \in Seq(Songs) /\ Len(Named(history)) = Len(history)
      /\ \A j \in 1 .. Len(history) :
           history[j] \in 1 .. Len(songs) /\ Named(history)[j] = songs[history[j]]
  BY StackFacts DEF TypeOK, StackOK
<1>2. DOMAIN songs = 1 .. Len(songs)
  BY <1>1, ArrayFacts
<1>3. k = Len(history)
  BY <1>1, <1>2 DEF PrevBack, Reachable
<1>4. /\ songs' = songs /\ mode' = mode /\ forward' = PrevForward /\ cur' = history[k]
      /\ history' = SubSeq(history, 1, k - 1) /\ played' = played \cup {history[k]}
  BY DEF PrevBack
<1>5. Current' = songs[history[k]] /\ Marked' = Marked \cup {songs[history[k]]}
  BY <1>1, <1>2, <1>4, SameArray DEF Marked
<1>6. songs[history[k]] = Entries!Last(Named(history))
  BY <1>1, <1>3 DEF Entries!Last
<1>7. Named(history)' = Entries!Front(Named(history))
  <2>1. k - 1 \in 0 .. Len(history)
    BY <1>1
  <2>2. Named(history)' = SubSeq(Named(history), 1, k - 1)
    BY <1>1, <1>4, <2>1, NamedFront, SameArray
  <2> QED  BY <1>1, <1>3, <2>2 DEF Entries!Front
<1>8. Entries!Leave
  BY <1>1, <1>4, LeaveIsSeen
<1>9. Named(history) # <<>>
  BY <1>1
<1> QED  BY <1>4, <1>5, <1>6, <1>7, <1>8, <1>9 DEF Entries!Back, Marked, Named

\* With every entry in the array, no way back is an empty stack.
LEMMA NoWayBackIsEmpty == ASSUME TypeOK, NoWayBack PROVE history = <<>> /\ Named(history) = <<>>
<1>1. /\ history \in Seq(DOMAIN songs) /\ Len(history) \in Nat
      /\ DOMAIN history = 1 .. Len(history) /\ IndexOK
      /\ \A j \in 1 .. Len(history) : history[j] \in 1 .. Len(songs)
  BY StackFacts
<1>2. DOMAIN songs = 1 .. Len(songs)
  BY <1>1, ArrayFacts
<1>3. Len(history) = 0
  <2>1. 1 \notin 1 .. Len(history)
    BY <1>1, <1>2 DEF NoWayBack, Reachable
  <2> QED  BY <1>1, <2>1
<1>4. history = <<>>
  BY <1>1, <1>3, SeqEqual
<1> QED  BY <1>4, NamedEmpty DEF Named

LEMMA PrevStepIsSeen == ASSUME TypeOK, PrevStep PROVE Entries!BackInLine
<1>1. /\ Entries!Position(Current) = cur
      /\ DOMAIN songs = 1 .. Len(songs) /\ Len(songs) \in Nat /\ cur \in 0 .. Len(songs)
      /\ IndexOK /\ StackOK(forward)
  BY PositionFacts, ArrayFacts DEF TypeOK, StackOK
<1>2. /\ songs # <<>> /\ NoWayBack /\ mode \notin RandomModes /\ (cur > 1 \/ mode = "loop")
      /\ cur' = IF cur > 1 THEN cur - 1 ELSE Len(songs)
      /\ forward' = PrevForward /\ history' = <<>> /\ played' = played \cup {cur'}
      /\ songs' = songs /\ mode' = mode
  BY DEF PrevStep
<1>3. history = <<>> /\ Named(history) = <<>>
  BY <1>2, NoWayBackIsEmpty
<1>4. cur' \in 1 .. Len(songs)
  BY <1>1, <1>2
<1>5. Current' = songs[cur'] /\ Marked' = Marked \cup {songs[cur']}
  BY <1>1, <1>2, <1>4, SameArray DEF Marked
<1>6. Entries!Leave
  BY <1>1, <1>2, LeaveIsSeen
<1>7. Named(history)' = Named(history)
  BY <1>2, <1>3 DEF Named
<1>8. ~Entries!Random
  BY <1>2 DEF Entries!Random, RandomModes
<1> QED
  BY <1>1, <1>2, <1>3, <1>5, <1>6, <1>7, <1>8 DEF Entries!BackInLine, Marked, Named

LEMMA PrevNoneIsSeen == ASSUME TypeOK, PrevNone PROVE Entries!NoWayBack
<1>1. Entries!Position(Current) = cur /\ IndexOK /\ StackOK(forward)
  BY PositionFacts DEF TypeOK, StackOK
<1>2. /\ NoWayBack /\ (mode \in RandomModes \/ (mode = "seq" /\ cur <= 1))
      /\ forward' = PrevForward /\ history' = <<>>
      /\ UNCHANGED <<songs, cur, mode, played>>
  BY DEF PrevNone
<1>3. history = <<>> /\ Named(history) = <<>>
  BY <1>2, NoWayBackIsEmpty
<1>4. Entries!Leave
  BY <1>1, <1>2, LeaveIsSeen
<1>5. Current' = Current /\ Marked' = Marked /\ Named(history)' = Named(history)
  BY <1>2, <1>3 DEF Current, Marked, Named
<1>6. Entries!Random \/ (mode = "seq" /\ Entries!Position(Current) <= 1)
  BY <1>1, <1>2 DEF Entries!Random, RandomModes
<1> QED
  BY <1>2, <1>3, <1>4, <1>5, <1>6 DEF Entries!NoWayBack, Marked, Named

-----------------------------------------------------------------------------

LEMMA EntriesStep == ASSUME TypeOK, [Next]_vars PROVE [Entries!Next]_(Entries!vars)
<1>1. ASSUME NEW s \in Songs, Add(s) \/ AddNext(s)
      PROVE  Entries!Next
  BY <1>1, AddIsSeen, AddNextIsSeen DEF Entries!Next
<1>2. ASSUME NEW i \in DOMAIN songs, RemoveSong(i) \/ PlayAt(i) \/ NextPick(i) \/ NextCycle(i)
      PROVE  Entries!Next
  <2>1. songs[i] \in Songs
    BY ArrayFacts DEF TypeOK
  <2>2. PICK s \in Songs : s = songs[i]
    BY <2>1
  <2>3. Entries!RemoveSong(s) \/ Entries!Jump(s) \/ Entries!Draw(s)
    BY <1>2, <2>2, RemoveIsSeen, PlayAtIsSeen, DrawIsSeen
  <2> QED  BY <2>3 DEF Entries!Next
<1>3. ASSUME NEW m \in Modes, SetMode(m)
      PROVE  Entries!Next
  BY <1>3, SetModeIsSeen DEF Entries!Next, Modes
<1>4. CASE Clear \/ Play
  BY <1>4, ClearIsSeen, PlayIsSeen DEF Entries!Next
<1>5. CASE NextSong
  <2>1. CASE NextSequential \/ NextLoop
    BY <2>1, NextInLineIsSeen DEF Entries!Next
  <2>2. CASE \E k \in DOMAIN forward : NextResume(k)
    BY <2>2, ResumeIsSeen DEF Entries!Next
  <2> QED  BY <1>2, <1>5, <2>1, <2>2 DEF NextSong
<1>6. CASE NextDry
  BY <1>6, DryIsSeen DEF Entries!Next
<1>7. CASE PrevStep \/ PrevNone \/ \E k \in DOMAIN history : PrevBack(k)
  BY <1>7, PrevStepIsSeen, PrevNoneIsSeen, BackIsSeen DEF Entries!Next
<1>8. CASE UNCHANGED vars
  BY <1>8 DEF vars, Entries!vars, Current
<1> QED
  BY <1>1, <1>2, <1>3, <1>4, <1>5, <1>6, <1>7, <1>8 DEF Next

\* The machine of indices implements the machine that names songs: whatever was
\* spliced in or out, cursor, bag and stacks mean the songs they meant before.
THEOREM EntriesImplemented == LSpec => ImplementsEntries
<1>1. LInit => Entries!Init
  <2> SUFFICES ASSUME LInit PROVE Entries!Init
    OBVIOUS
  <2>1. Current = NoSong /\ Marked = {}
    BY DEF LInit, Init, Current, Marked
  <2>2. Named(history) = <<>> /\ Named(forward) = <<>>
    BY NamedEmpty DEF LInit, Init, Named
  <2> QED  BY <2>1, <2>2 DEF LInit, Init, Entries!Init, Marked, Named
<1>2. TypeOK /\ [LNext]_lvars => [Entries!Next]_(Entries!vars)
  BY ListenerIsQueue, EntriesStep
<1> QED  BY <1>1, <1>2, ListenerTypes, PTL DEF LSpec, ImplementsEntries, Entries!Spec

=============================================================================
