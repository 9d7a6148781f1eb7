----------------------------- MODULE MCMpcPool -----------------------------
(* An instance of MpcPool small enough for TLC. *)
EXTENDS MpcPool, TLC

CONSTANTS h1, h2, h3, x, y

MCHandles == {h1, h2, h3}
MCData    == {x, y}
MCSizes   == {1, 2, 3}
=============================================================================
