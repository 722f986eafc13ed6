------------------------------- MODULE MCRouter -------------------------------
(* Instances of Router for TLC. *)
EXTENDS Router, TLC

MCModes == {"file", "memory"}

Alike == Permutations(Workers) \cup Permutations(Events)

=============================================================================
