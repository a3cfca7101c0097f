----------------------------- MODULE MCStreamer -----------------------------
(***************************************************************************)
(* Streamer on two slots, two voices and two samples of three frames.      *)
(***************************************************************************)
EXTENDS Streamer, TLC

Symmetry == Permutations(Voices) \cup Permutations(Samples)
=============================================================================
