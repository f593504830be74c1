---------------------------- MODULE MCPlayQueue ----------------------------
(* TLC instance of the play queue: model values for the songs, and the     *)
(* player, which asks for another song at the end of every track.          *)
EXTENDS PlayQueueListener

CONSTANTS s1, s2, r1

Requests == {s1, s2}
Fill == {r1}
MCSongs == Requests \cup Fill

\* Taking an entry out by its positions is what filtering it out is.
ASSUME SiftingIsRemoving ==
    \A n \in 0 .. 5 : \A s \in [1 .. n -> 1 .. 3] : Sifted(s, 1) = Remove(s, 1)

\* Tracks end one after the other (the player's trackEnd event calls next),
\* so a call of next that can return a song happens eventually.
Advance == NextSong /\ HandOut /\ owed' = Nothing

MCSpec == LSpec /\ WF_lvars(Advance)

\* No starvation in the default mode: once nobody edits the queue any more,
\* every queued song - request or fill, whatever was added, removed, jumped to
\* or rewound before - is played again and again.
EverySongComesRound ==
    \A s \in MCSongs :
        <>[][NextSong]_vars /\ <>[](mode = "rloop" /\ s \in ToSet(songs))
            => []<>(Current = s)

=============================================================================
