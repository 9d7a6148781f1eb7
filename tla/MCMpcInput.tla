---------------------------- MODULE MCMpcInput ----------------------------
(* Instances of MpcInput small enough for TLC. *)
EXTENDS MpcInput, TLC

CONSTANTS a, nl

MCChars     == {a, nl}
MCTexts     == UNION {[1..n -> MCChars] : n \in 0..3}
MCLiterals  == {<<>>, <<a>>, <<a, nl>>, <<a, a>>}
=============================================================================
