-------------------------- MODULE MCPublisherQueue --------------------------
(***************************************************************************)
(* Small instances of PublisherQueue for TLC.                              *)
(***************************************************************************)
EXTENDS PublisherQueue, TLC

Symmetry == Permutations(Events) \cup Permutations(Workers)
=============================================================================
