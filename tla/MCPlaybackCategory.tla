-------------------------- MODULE MCPlaybackCategory --------------------------
(* A small instance of PlaybackCategory for TLC; sounds are interchangeable. *)
EXTENDS PlaybackCategory, TLC

Sounds == Permutations(Handles)
=============================================================================
