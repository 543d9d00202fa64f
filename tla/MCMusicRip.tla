----------------------------- MODULE MCMusicRip -----------------------------
(* A disc of two tracks, of which MusicBrainz may know one more or one less. *)
EXTENDS MusicRip

Lengths == {0, 1, 3}
=============================================================================
