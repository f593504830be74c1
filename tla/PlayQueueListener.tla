-------------------------- MODULE PlayQueueListener --------------------------
(***************************************************************************)
(* The play queue seen by somebody listening: which song the queue last    *)
(* handed to the player, and which one the last call promised that the     *)
(* next one would return.  None of this state exists in the code; every    *)
(* action is one of PlayQueue.                                             *)
(***************************************************************************)
EXTENDS PlayQueue

VARIABLES
    handed,    \* the song last returned to be played, NoSong once it is gone
    owed       \* what a call of next is expected to return, and why

lvars == <<songs, cur, mode, played, history, forward, handed, owed>>

Nothing == [by |-> "nobody", song |-> NoSong]

LInit ==
    /\ Init
    /\ handed = NoSong
    /\ owed = Nothing

\* The queue starts a song: it is handed to the player.
HandOut == handed' = songs'[cur']

Start ==
    /\ Play \/ (\E i \in DOMAIN songs : PlayAt(i)) \/ NextSong \/ PrevStep
    /\ HandOut
    /\ owed' = Nothing

\* prev in a random mode records the song it leaves, if the stack has room.
\* (It may also return the playing song itself, which was started twice.)
Rewind ==
    /\ \E k \in DOMAIN history : PrevBack(k)
    /\ HandOut
    /\ owed' = IF mode \in RandomModes /\ forward' # forward /\ cur' # cur
                 THEN [by |-> "prev", song |-> Current]
                 ELSE Nothing

\* A song that leaves the queue while it plays is not the queue's any more.
Drop ==
    \E i \in DOMAIN songs :
        /\ RemoveSong(i)
        /\ handed' = IF songs[i] = handed THEN NoSong ELSE handed
        /\ owed' = Nothing

DropAll ==
    /\ Clear
    /\ handed' = NoSong
    /\ owed' = Nothing

\* next returned null: the player is stopped.
RunDry ==
    /\ NextDry
    /\ handed' = NoSong
    /\ owed' = Nothing

Insert ==
    \E s \in Songs :
        \/ /\ Add(s)
           /\ owed' = Nothing
           /\ UNCHANGED handed
        \/ /\ AddNext(s)
           /\ owed' = IF cur > 0 /\ mode \notin RandomModes
                        THEN [by |-> "addNext", song |-> s] ELSE Nothing
           /\ UNCHANGED handed

Quiet ==
    /\ PrevNone \/ \E m \in Modes : SetMode(m)
    /\ owed' = Nothing
    /\ UNCHANGED handed

LNext ==
    \/ Start \/ Rewind
    \/ Drop \/ DropAll
    \/ RunDry
    \/ Insert
    \/ Quiet

LSpec == LInit /\ [][LNext]_lvars

-----------------------------------------------------------------------------
(* Properties *)

\* The cursor stays on the song that is playing through every insertion and
\* removal of other songs: !now, !ban, pause checkpoints and the highlighted
\* row all read the cursor.
CursorOnPlayingSong == handed # NoSong => Current = handed

\* A shuffle never starts the song that is playing once more while another
\* one is queued - not across a cycle boundary, not through the forward
\* stack, and not after the bookkeeping was shifted.
NoImmediateRepeat ==
    [][NextSong /\ mode \in RandomModes /\ Len(songs) > 1 => songs'[cur'] # handed]_lvars

\* next keeps what was promised before it: after prev, in a shuffle, it returns
\* to the song that was left, although history, forward stack and bag are three
\* separate records of it; after addNext it returns the inserted song (in seq
\* and loop: a shuffle does not look at the place in the array).
NextIsAsPromised ==
    [][NextSong /\ owed.by # "nobody" => songs'[cur'] = owed.song]_lvars

\* The index machine implements the machine that names songs.
Entries == INSTANCE EntryQueue WITH
    line <- songs,
    now <- Current,
    bag <- {songs[i] : i \in played},
    back <- [k \in DOMAIN history |-> songs[history[k]]],
    ahead <- [k \in DOMAIN forward |-> songs[forward[k]]]

ImplementsEntries == Entries!Spec

\* The queue as the playback engine sees it.
View == INSTANCE QueueView WITH
    line <- songs,
    now <- Current

ImplementsView == View!Spec

=============================================================================
