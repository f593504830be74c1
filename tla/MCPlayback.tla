----------------------------- MODULE MCPlayback ------------------------------
(* TLC instance of the playback engine. *)
EXTENDS Playback

CONSTANTS s1, s2

MCSongs == {s1, s2}

=============================================================================
