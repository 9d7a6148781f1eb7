------------------------------ MODULE LvalSaid ------------------------------
(* What lval_eq of core/eval.c compares, and what is printed of a value. *)
EXTENDS Lval

\* What a value says, without the conditions it carries and what a function has
\* bound so far.
RECURSIVE EqualPart(_)
EqualPart(v) ==
    CASE v.type \in {"sexpr", "qexpr"} ->
           [type |-> v.type, cell |-> [i \in 1..Len(v.cell) |-> EqualPart(v.cell[i])]]
      [] IsLambda(v) -> [type |-> "fun", formals |-> EqualPart(v.formals), body |-> EqualPart(v.body)]
      [] OTHER -> [v EXCEPT !.cond = "unset"]
=============================================================================
