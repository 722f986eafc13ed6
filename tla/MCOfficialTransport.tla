------------------------- MODULE MCOfficialTransport -------------------------
(* An instance of OfficialTransport for TLC. *)
EXTENDS OfficialTransport, TLC

Alike == Permutations(Threads)

=============================================================================
