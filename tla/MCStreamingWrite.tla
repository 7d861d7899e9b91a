-------------------------- MODULE MCStreamingWrite --------------------------
(* Instances of StreamingWrite for TLC. *)
EXTENDS StreamingWrite, TLC
CONSTANTS c1, c2
TwoClients == {c1, c2}
ClientSymmetry == Permutations(TwoClients)
=============================================================================
