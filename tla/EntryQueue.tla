----------------------------- MODULE EntryQueue -----------------------------
(***************************************************************************)
(* What the play queue promises, said without any index: every piece of    *)
(* bookkeeping names SONGS, so inserting or removing a song cannot make it *)
(* mean another one.  PlayQueue.tla implements this specification; a slip  *)
(* in its index arithmetic is a step this specification does not have.     *)
(***************************************************************************)
EXTENDS Integers, SequencesExt, Sift

CONSTANTS Songs, Radio, NoSong, HistoryLimit

VARIABLES
    line,      \* the queue
    now,       \* the song under the cursor, or NoSong
    mode,
    bag,       \* the songs already played in this shuffle cycle
    back,      \* the songs prev walks back through, latest last
    ahead      \* the songs next returns to after prev, nearest last

vars == <<line, now, mode, bag, back, ahead>>

Random == mode \in {"random", "rloop"}
Queued == ToSet(line)
Position(s) == IF s = NoSong THEN 0 ELSE CHOOSE i \in DOMAIN line : line[i] = s
SongAt(i) == IF i = 0 THEN NoSong ELSE line[i]

Init ==
    /\ line = <<>>
    /\ now = NoSong
    /\ mode = "rloop"
    /\ bag = {}
    /\ back = <<>>
    /\ ahead = <<>>

Insert(s, at) ==
    /\ s \in Songs \ Queued
    /\ line' = InsertAt(line, at, s)
    /\ UNCHANGED <<now, mode, bag, back, ahead>>

\* Fill waits at the end; a request waits behind the current song and behind
\* other requests only.
Add(s) ==
    \E at \in Position(now) + 1 .. Len(line) + 1 :
        /\ IF s \in Radio THEN at = Len(line) + 1
           ELSE /\ \A i \in Position(now) + 1 .. at - 1 : line[i] \notin Radio
                /\ at <= Len(line) => line[at] \in Radio
        /\ Insert(s, at)

AddNext(s) == Insert(s, IF now = NoSong THEN Len(line) + 1 ELSE Position(now) + 1)

\* Everything forgets the removed song and nothing else.
RemoveSong(s) ==
    /\ s \in Queued
    /\ line' = RemoveAt(line, Position(s))
    /\ now' = IF s = now THEN SongAt(Position(now) - 1) ELSE now
    /\ bag' = bag \ {s}
    /\ back' = Sifted(back, s)
    /\ ahead' = Sifted(ahead, s)
    /\ UNCHANGED mode

Clear ==
    /\ line' = <<>>
    /\ now' = NoSong
    /\ bag' = {}
    /\ back' = <<>>
    /\ ahead' = <<>>
    /\ UNCHANGED mode

Remember(stack) ==
    IF now = NoSong THEN stack
    ELSE IF Len(stack) < HistoryLimit THEN Append(stack, now)
    ELSE Append(Tail(stack), now)

Restart ==
    /\ line # <<>>
    /\ now' = line[1]
    /\ bag' = {line[1]}
    /\ back' = <<>>
    /\ ahead' = <<>>
    /\ UNCHANGED <<line, mode>>

Jump(s) ==
    /\ s \in Queued
    /\ now' = s
    /\ bag' = {s}
    /\ back' = Remember(back)
    /\ ahead' = <<>>
    /\ UNCHANGED <<line, mode>>

SetMode(m) ==
    /\ mode' = m
    /\ bag' = {now} \ {NoSong}
    /\ back' = <<>>
    /\ ahead' = <<>>
    /\ UNCHANGED <<line, now>>

\* The ordered modes: the neighbour in line, Loop closing the circle.
NextInLine ==
    /\ ~Random
    /\ line # <<>>
    /\ Position(now) < Len(line) \/ mode = "loop"
    /\ now' = line[(Position(now) % Len(line)) + 1]
    /\ back' = Remember(back)
    /\ UNCHANGED <<line, mode, bag, ahead>>

\* The part of the forward stack below the nearest song that is not playing.
Resume ==
    \E k \in DOMAIN ahead :
        /\ Random
        /\ ahead[k] # now
        /\ \A j \in k + 1 .. Len(ahead) : ahead[j] = now
        /\ now' = ahead[k]
        /\ ahead' = SubSeq(ahead, 1, k - 1)
        /\ bag' = bag \cup {ahead[k]}
        /\ back' = Remember(back)
        /\ UNCHANGED <<line, mode>>

\* A shuffle draws a song that has not played in this cycle; a new cycle
\* starts only when all have, and not with the song that is playing.
Draw(s) ==
    /\ Random
    /\ s \in Queued
    /\ ToSet(ahead) \subseteq {now}
    /\ ahead' = <<>>
    /\ \/ s \notin bag /\ bag' = bag \cup {s}
       \/ /\ Queued \subseteq bag
          /\ mode = "rloop"
          /\ s # now \/ Queued = {s}
          /\ bag' = {s}
    /\ now' = s
    /\ back' = Remember(back)
    /\ UNCHANGED <<line, mode>>

Exhausted ==
    /\ Queued \subseteq bag
    /\ mode = "random"
    /\ ToSet(ahead) \subseteq {now}
    /\ ahead' = <<>>
    /\ UNCHANGED <<line, now, mode, bag, back>>

Leave ==
    ahead' = IF now # NoSong /\ Len(ahead) < HistoryLimit THEN Append(ahead, now) ELSE ahead

\* prev goes to the song that was current before this one; with no such song
\* the ordered modes step back in line and the random ones stay.
Back ==
    /\ back # <<>>
    /\ Leave
    /\ now' = Last(back)
    /\ back' = Front(back)
    /\ bag' = bag \cup {Last(back)}
    /\ UNCHANGED <<line, mode>>

BackInLine ==
    /\ back = <<>>
    /\ ~Random
    /\ line # <<>>
    /\ Position(now) > 1 \/ mode = "loop"
    /\ Leave
    /\ now' = line[IF Position(now) > 1 THEN Position(now) - 1 ELSE Len(line)]
    /\ bag' = bag \cup {now'}
    /\ UNCHANGED <<line, mode, back>>

NoWayBack ==
    /\ back = <<>>
    /\ Random \/ (mode = "seq" /\ Position(now) <= 1)
    /\ Leave
    /\ UNCHANGED <<line, now, mode, bag, back>>

Next ==
    \/ \E s \in Songs : Add(s) \/ AddNext(s) \/ RemoveSong(s) \/ Jump(s) \/ Draw(s)
    \/ \E m \in {"seq", "loop", "random", "rloop"} : SetMode(m)
    \/ Clear \/ Restart
    \/ NextInLine \/ Resume \/ Exhausted
    \/ Back \/ BackInLine \/ NoWayBack

Spec == Init /\ [][Next]_vars

=============================================================================
