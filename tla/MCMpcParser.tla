---------------------------- MODULE MCMpcParser ----------------------------
(* Instances of MpcParser small enough for TLC. *)
EXTENDS MpcParser, TLC

Symmetry == Permutations(Nodes)
=============================================================================
