------------------------------ MODULE LvalRead ------------------------------
(* lval_read of core/eval.c: the value that is read from a tree Reader builds. *)
EXTENDS ReadRules

RECURSIVE lval_read(_)
lval_read(t) ==
    LET read == SelectSeq(t.children, LAMBDA c : ~Skipped(c))
    IN  OfNode(t, [i \in 1..Len(read) |-> lval_read(read[i])])
=============================================================================
