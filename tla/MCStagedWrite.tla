--------------------------- MODULE MCStagedWrite ---------------------------
(* Instances of StagedWrite for TLC. *)
EXTENDS StagedWrite, TLC
CONSTANTS c1, c2
OneClient == {c1}
TwoClients == {c1, c2}
ClientSymmetry == Permutations(TwoClients)
==============================================================================
