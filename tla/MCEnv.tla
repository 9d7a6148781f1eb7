------------------------------- MODULE MCEnv -------------------------------
(* Instances of Env small enough for TLC. *)
EXTENDS Env, TLC

CONSTANTS x, amp, add, num, lst

XAmp     == {x, amp}
AmpOnly  == {amp}
Add      == <<add>>
None     == <<>>
NumLst   == {num, lst}
UpToTwo  == ListsOf(Names, 2)
ChainFormals == {<<>>, <<amp, amp>>, <<add, amp, amp>>}
LstOnly  == {lst}
=============================================================================
