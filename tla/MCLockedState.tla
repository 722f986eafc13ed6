---------------------------- MODULE MCLockedState ----------------------------
(* Instances of LockedState for TLC. *)
EXTENDS LockedState, TLC

Alike == Permutations(Processes) \cup Permutations(Operations)

=============================================================================
