--------------------------- MODULE MCPlaybackStop ----------------------------
(* TLC instance of the playback engine and its listener. *)
EXTENDS PlaybackListener

CONSTANTS s1, s2

MCSongs == {s1, s2}

=============================================================================
