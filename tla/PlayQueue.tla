------------------------------ MODULE PlayQueue ------------------------------
(***************************************************************************)
(* The play queue of the bot (bot/src/audio/queue.ts): an array of queued  *)
(* songs, a cursor into it, the play mode, and three pieces of bookkeeping *)
(* that hold INDICES into the array - the shuffle bag of songs played this *)
(* cycle, the back stack `prev` pops and the forward stack `next` returns  *)
(* to.  Every insertion and removal has to re-index all of them.           *)
(*                                                                         *)
(* Positions are 1-based here (0-based in the code); cur = 0 stands for    *)
(* currentIndex = -1.  A member of Songs is one QueuedSong object, that is *)
(* one entry of the array, so it is in the queue at most once.  The        *)
(* methods are synchronous: one call is one action.  addMany is a loop of  *)
(* add, so its steps are Add steps.  A call that returns null and changes  *)
(* nothing (an empty queue, an index out of range) is a stuttering step.   *)
(***************************************************************************)
EXTENDS Integers, SequencesExt, Sift

CONSTANTS Songs,         \* the songs that callers may enqueue
          Radio,         \* those with source "radio": auto-DJ fill
          NoSong,        \* the null of the code
          HistoryLimit   \* HISTORY_LIMIT, 50 in the code

ASSUME QueueAssumption ==
    /\ Radio \subseteq Songs
    /\ NoSong \notin Songs
    /\ HistoryLimit \in Nat \ {0}

Modes == {"seq", "loop", "random", "rloop"}
RandomModes == {"random", "rloop"}

VARIABLES
    songs,     \* the array
    cur,       \* the cursor, 0 when nothing was started
    mode,
    played,    \* playedIndices: the shuffle bag's used part
    history,   \* back stack, oldest first
    forward    \* forwardStack, top last

vars == <<songs, cur, mode, played, history, forward>>

Init ==
    /\ songs = <<>>
    /\ cur = 0
    /\ mode = "rloop"
    /\ played = {}
    /\ history = <<>>
    /\ forward = <<>>

-----------------------------------------------------------------------------
(* Helpers *)

\* The song under the cursor: current().
Current == IF cur \in DOMAIN songs THEN songs[cur] ELSE NoSong

\* pushHistory: ignores the empty cursor, drops the oldest at the limit.
PushHistory(stack, i) ==
    IF i \notin DOMAIN songs THEN stack
    ELSE IF Len(stack) < HistoryLimit THEN Append(stack, i)
    ELSE Tail(Append(stack, i))

ShiftUpPast(i, at) == IF i > at THEN i + 1 ELSE i     \* mutation: off by one

\* Bookkeeping re-indexed after a song was spliced in at position at.
ShiftUp(i, at) == IF i >= at THEN i + 1 ELSE i

\* Bookkeeping re-indexed after the song at position at was spliced out.
ShiftDown(i, at) == IF i > at THEN i - 1 ELSE i

ShiftedOut(stack, at) ==
    LET kept == Sifted(stack, at)
    IN  [k \in DOMAIN kept |-> ShiftDown(kept[k], at)]

\* Position at holds the first auto-DJ song after the cursor.
FirstFill(at) ==
    /\ at \in cur + 1 .. Len(songs)
    /\ songs[at] \in Radio
    /\ \A i \in cur + 1 .. at - 1 : songs[i] \notin Radio

Unplayed == DOMAIN songs \ played

Fresh == Songs \ ToSet(songs)

-----------------------------------------------------------------------------
(* Insertions and removals *)

\* Splice s in at position at and shift the bookkeeping at or above it.
Splice(s, at) ==
    /\ songs' = InsertAt(songs, at, s)
    /\ played' = {ShiftUp(i, at) : i \in played}
    /\ history' = [k \in DOMAIN history |-> ShiftUp(history[k], at)]
    /\ forward' = [k \in DOMAIN forward |-> ShiftUp(forward[k], at)]
    /\ UNCHANGED <<cur, mode>>

Push(s) ==
    /\ songs' = Append(songs, s)
    /\ UNCHANGED <<cur, mode, played, history, forward>>

\* add: fill goes to the end, a human request before the first fill song
\* that follows the cursor.
Add(s) ==
    /\ s \in Fresh
    /\ IF s \in Radio \/ \A i \in cur + 1 .. Len(songs) : songs[i] \notin Radio
         THEN Push(s)
         ELSE \E at \in DOMAIN songs : FirstFill(at) /\ Splice(s, at)

\* addNext: right behind the cursor, at the end when nothing was started.
AddNext(s) ==
    /\ s \in Fresh
    /\ IF cur = 0 THEN Push(s) ELSE Splice(s, cur + 1)

RemoveCursorStays(i) ==     \* mutation: only the current song's removal moves the cursor
    /\ i \in DOMAIN songs
    /\ songs' = RemoveAt(songs, i)
    /\ cur' = IF i = cur THEN cur - 1 ELSE cur
    /\ played' = {ShiftDown(k, i) : k \in played \ {i}}
    /\ history' = ShiftedOut(history, i)
    /\ forward' = ShiftedOut(forward, i)
    /\ UNCHANGED mode

\* remove: removing the current song, or one before it, moves the cursor left.
RemoveSong(i) ==
    /\ i \in DOMAIN songs
    /\ songs' = RemoveAt(songs, i)
    /\ cur' = IF i <= cur THEN cur - 1 ELSE cur
    /\ played' = {ShiftDown(k, i) : k \in played \ {i}}
    /\ history' = ShiftedOut(history, i)
    /\ forward' = ShiftedOut(forward, i)
    /\ UNCHANGED mode

Clear ==
    /\ songs' = <<>>
    /\ cur' = 0
    /\ played' = {}
    /\ history' = <<>>
    /\ forward' = <<>>
    /\ UNCHANGED mode

-----------------------------------------------------------------------------
(* Starting a song *)

\* play: start over from the first song.
Play ==
    /\ songs # <<>>
    /\ cur' = 1
    /\ played' = {1}
    /\ history' = <<>>
    /\ forward' = <<>>
    /\ UNCHANGED <<songs, mode>>

\* playAt: an explicit pick restarts the shuffle from here.
PlayAt(i) ==
    /\ i \in DOMAIN songs
    /\ cur' = i
    /\ played' = {i}
    /\ history' = PushHistory(history, cur)
    /\ forward' = <<>>
    /\ UNCHANGED <<songs, mode>>

\* setMode forgets all bookkeeping except that the current song was played.
SetMode(m) ==
    /\ mode' = m
    /\ played' = IF cur > 0 THEN {cur} ELSE {}
    /\ history' = <<>>
    /\ forward' = <<>>
    /\ UNCHANGED <<songs, cur>>

-----------------------------------------------------------------------------
(* next *)

\* The cursor moves on to song i, leaving a trace in the back stack.
AdvanceTo(i) ==
    /\ cur' = i
    /\ history' = PushHistory(history, cur)
    /\ UNCHANGED <<songs, mode>>

NextSequential ==
    /\ mode = "seq"
    /\ cur < Len(songs)
    /\ AdvanceTo(cur + 1)
    /\ UNCHANGED <<played, forward>>

NextLoop ==
    /\ mode = "loop"
    /\ songs # <<>>
    /\ AdvanceTo((cur % Len(songs)) + 1)
    /\ UNCHANGED <<played, forward>>

\* Entries of the forward stack out of range or naming the current song are
\* popped and skipped; `next` returns to the topmost other one.
Resumable(k) == forward[k] \in DOMAIN songs \ {cur}

NextResumeOldest(k) ==     \* mutation: the stack is read from its bottom
    /\ mode \in RandomModes
    /\ Resumable(k)
    /\ \A j \in DOMAIN forward : j < k => ~Resumable(j)
    /\ AdvanceTo(forward[k])
    /\ forward' = SubSeq(forward, k + 1, Len(forward))
    /\ played' = played \cup {forward[k]}

NextResume(k) ==
    /\ mode \in RandomModes
    /\ Resumable(k)
    /\ \A j \in DOMAIN forward : j > k => ~Resumable(j)
    /\ AdvanceTo(forward[k])
    /\ forward' = SubSeq(forward, 1, k - 1)
    /\ played' = played \cup {forward[k]}

\* Nothing to resume: the forward stack has been popped empty.
Shuffling ==
    /\ mode \in RandomModes
    /\ songs # <<>>
    /\ \A k \in DOMAIN forward : ~Resumable(k)
    /\ forward' = <<>>

NextPickForgotten(i) ==     \* mutation: the pick is not taken out of the bag
    /\ Shuffling
    /\ i \in Unplayed
    /\ AdvanceTo(i)
    /\ UNCHANGED played

NextPick(i) ==
    /\ Shuffling
    /\ i \in Unplayed
    /\ AdvanceTo(i)
    /\ played' = played \cup {i}

NextCycleAny(i) ==     \* mutation: a new cycle may begin with the song just played
    /\ Shuffling
    /\ Unplayed = {}
    /\ mode = "rloop"
    /\ i \in DOMAIN songs
    /\ AdvanceTo(i)
    /\ played' = {i}

\* Random loop, bag empty: a new cycle that does not begin with the song that
\* just played, unless it is the only one.
NextCycle(i) ==
    /\ Shuffling
    /\ Unplayed = {}
    /\ mode = "rloop"
    /\ i \in DOMAIN songs
    /\ i # cur \/ Len(songs) = 1
    /\ AdvanceTo(i)
    /\ played' = {i}

\* Random, bag empty: next returns null.
NextDry ==
    /\ Shuffling
    /\ Unplayed = {}
    /\ mode = "random"
    /\ UNCHANGED <<songs, cur, mode, played, history>>

\* The calls of next that return a song.
NextSong ==
    \/ NextSequential
    \/ NextLoop
    \/ \E k \in DOMAIN forward : NextResume(k)
    \/ \E i \in DOMAIN songs : NextPick(i)
    \/ \E i \in DOMAIN songs : NextCycle(i)

-----------------------------------------------------------------------------
(* prev *)

PrevForward ==
    IF cur > 0 /\ Len(forward) < HistoryLimit THEN Append(forward, cur) ELSE forward

\* Stale entries are popped; prev returns to the topmost one still in range.
Reachable(k) == history[k] \in DOMAIN songs
NoWayBack == \A k \in DOMAIN history : ~Reachable(k)

PrevBack(k) ==
    /\ Reachable(k)
    /\ \A j \in DOMAIN history : j > k => ~Reachable(j)
    /\ forward' = PrevForward
    /\ cur' = history[k]
    /\ history' = SubSeq(history, 1, k - 1)
    /\ played' = played \cup {history[k]}
    /\ UNCHANGED <<songs, mode>>

\* No way back left: step the index in the ordered modes, Loop wrapping around.
PrevStep ==
    /\ songs # <<>>
    /\ NoWayBack
    /\ mode \notin RandomModes
    /\ cur > 1 \/ mode = "loop"
    /\ cur' = IF cur > 1 THEN cur - 1 ELSE Len(songs)
    /\ forward' = PrevForward
    /\ history' = <<>>
    /\ played' = played \cup {cur'}
    /\ UNCHANGED <<songs, mode>>

\* prev returns null, with the stacks already touched.
PrevNone ==
    /\ songs # <<>>
    /\ NoWayBack
    /\ mode \in RandomModes \/ (mode = "seq" /\ cur <= 1)
    /\ forward' = PrevForward
    /\ history' = <<>>
    /\ UNCHANGED <<songs, cur, mode, played>>

-----------------------------------------------------------------------------

Next ==
    \/ \E s \in Songs : Add(s) \/ AddNext(s)
    \/ \E i \in DOMAIN songs : RemoveSong(i) \/ PlayAt(i)
    \/ Clear
    \/ Play
    \/ \E m \in Modes : SetMode(m)
    \/ NextSong
    \/ NextDry
    \/ \E k \in DOMAIN history : PrevBack(k)
    \/ PrevStep
    \/ PrevNone

Spec == Init /\ [][Next]_vars

-----------------------------------------------------------------------------

\* The array, the cursor and the shuffle bag: an entry is queued once, and
\* neither cursor nor bag ever points outside the array.
IndexOK ==
    /\ songs \in Seq(Songs)
    /\ \A i, j \in DOMAIN songs : songs[i] = songs[j] => i = j
    /\ mode \in Modes
    /\ cur \in 0 .. Len(songs)
    /\ played \subseteq DOMAIN songs

\* Type and index correctness: with IndexOK, the two stacks stay inside the
\* array (so the code's checks for stale entries never fire) and within
\* HISTORY_LIMIT.
TypeOK ==
    /\ IndexOK
    /\ \A stack \in {history, forward} :
         stack \in Seq(DOMAIN songs) /\ Len(stack) <= HistoryLimit

=============================================================================
