------------------------------ MODULE QueueView ------------------------------
(***************************************************************************)
(* What the rest of the bot sees of the play queue: the queued songs in    *)
(* order and the current one.  Where next and prev lead depends on the     *)
(* mode, the shuffle bag and the stacks of PlayQueue; here it may be any   *)
(* queued song.                                                            *)
(***************************************************************************)
EXTENDS Integers, SequencesExt

CONSTANTS Songs, NoSong

VARIABLES
    line,      \* the queued songs
    now        \* current(): the song under the cursor

Init == line = <<>> /\ now = NoSong

Queued(s) == \E i \in DOMAIN line : line[i] = s

\* A song is inserted somewhere behind the current one.
Insert(s) ==
    /\ s \in Songs
    /\ ~Queued(s)
    /\ \E at \in 1 .. Len(line) + 1 :
         /\ \A i \in DOMAIN line : line[i] = now => i < at
         /\ line' = InsertAt(line, at, s)

Enqueue(s) == Insert(s) /\ UNCHANGED now

\* playAt, or next and prev when they return a song.
Go(s) ==
    /\ Queued(s)
    /\ now' = s
    /\ UNCHANGED line

\* The removal of the current song leaves the cursor on its predecessor.
Dequeue(s) ==
    \E i \in DOMAIN line :
        /\ line[i] = s
        /\ line' = RemoveAt(line, i)
        /\ now' = IF s # now THEN now ELSE IF i = 1 THEN NoSong ELSE line[i - 1]

Empty == line' = <<>> /\ now' = NoSong

Next ==
    \/ \E s \in Songs : Enqueue(s) \/ Go(s) \/ Dequeue(s)
    \/ Empty

Spec == Init /\ [][Next]_<<line, now>>

=============================================================================
