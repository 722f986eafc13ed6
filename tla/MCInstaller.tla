------------------------------ MODULE MCInstaller ------------------------------
(* An instance of Installer for TLC. *)
EXTENDS Installer, TLC

Alike == Permutations(Installers) \cup Permutations(Wrappers)

=============================================================================
