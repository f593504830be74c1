--------------------------- MODULE MCVoiceSession ----------------------------
(* Two transcripts at a time are enough for a reply to queue behind        *)
(* another, for a turn to be overtaken by its speaker's next one, and for  *)
(* the speaker to leave in the middle of either.  One song tells "the song *)
(* that was interrupted" from "no song"; the runs about which song is      *)
(* played next have two, and the songs and the turns are then symmetric.   *)
EXTENDS VoiceSession, TLC

CONSTANTS a, b, t1, t2

OneSong == {a}
TwoSongs == {a, b}
TwoTurns == {t1, t2}

Interchangeable == Permutations(TwoSongs) \cup Permutations(TwoTurns)
=============================================================================
