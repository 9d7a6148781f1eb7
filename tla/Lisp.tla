-------------------------------- MODULE Lisp --------------------------------
(***************************************************************************)
(* What an expression means: the reference that Eval is compared with.     *)
(* Meaning(e, chain, out, d) gives the value, the chain and the output     *)
(* that evaluating e leaves, or Endless if more than d environments would  *)
(* be needed.                                                              *)
(***************************************************************************)
EXTENDS Lval

CONSTANT Files  \* what `use` finds

Endless == [ends |-> FALSE]

Is(v, chain, out) == [ends |-> TRUE, value |-> v, chain |-> chain, out |-> out]

RECURSIVE Meaning(_, _, _, _), Meanings(_, _, _, _), WithRest(_, _, _), Combined(_, _, _),
          Applied(_, _, _, _, _), Bound(_, _, _, _), Loaded(_, _, _, _), LoadedAfter(_, _, _)

\* The values of a list of expressions, each in what the one before has left.
Meanings(es, chain, out, d) ==
    IF es = <<>> THEN [ends |-> TRUE, values |-> <<>>, chain |-> chain, out |-> out]
    ELSE WithRest(Meaning(Head(es), chain, out, d), Tail(es), d)

Preceded(v, r) == IF r.ends THEN [r EXCEPT !.values = <<v>> \o @] ELSE Endless

WithRest(m, es, d) ==
    IF m.ends THEN Preceded(m.value, Meanings(es, m.chain, m.out, d)) ELSE Endless

\* The expressions of a file in turn; errors are printed.
Loaded(es, chain, out, d) ==
    IF es = <<>> THEN Is(lval_sexpr(<<>>), chain, out)
    ELSE LoadedAfter(Meaning(Head(es), chain, out, d), Tail(es), d)

LoadedAfter(m, es, d) ==
    IF ~m.ends THEN Endless
    ELSE Loaded(es, m.chain,
                m.out \o IF IsErr(m.value) THEN <<<<lval_print(m.value)>>>> ELSE <<>>, d)

Meaning(e, chain, out, d) ==
    CASE e.type = "sym" -> Is(lenv_get(chain, e.symbol), chain, out)
      [] e.type = "sexpr" /\ e.cell # <<>> -> Combined(Meanings(e.cell, chain, out, d), e, d)
      [] OTHER -> Is(e, chain, out)

\* The first error, the only value, or the first value applied to the others.
Combined(r, e, d) ==
    LET errs == {i \in 1..Len(e.cell) : IsErr(r.values[i])}
    IN  CASE ~r.ends -> Endless
          [] r.ends /\ errs # {} -> Is(r.values[Min(errs)], r.chain, r.out)
          [] r.ends /\ errs = {} /\ Len(e.cell) = 1 -> Is(r.values[1], r.chain, r.out)
          [] OTHER -> Applied(r.values[1], [e EXCEPT !.cell = Tail(r.values)],
                              r.chain, r.out, d)

Wrong(e, chain, out) == Is(lval_err(e), chain, out)

Defined(r, at, chain, out) == Is(r.value, [chain EXCEPT ![at] = r.env], out)

Applied(f, args, chain, out, d) ==
    IF f.type # "fun" THEN Wrong("not a function", chain, out)
    ELSE LET b == f.builtin
             x == args.cell[1]
         IN  CASE b \in Computing -> Is(Computed(b, args), chain, out)
               [] b \in Definers ->
                    LET at == IF b \in {"let", "letc"} THEN Len(chain) ELSE 1
                    IN  Defined(btinfn_define(chain[at], args, b), at, chain, out)
               [] b = "print" ->
                    Is(lval_sexpr(<<>>), chain,
                       Append(out, [i \in 1..Len(args.cell) |-> lval_print(args.cell[i])]))
               [] b = "eval" ->
                    IF Counted(args, 1) /\ x.type = "qexpr"
                    THEN Meaning(AsSexpr(x), chain, out, d)
                    ELSE Wrong("eval takes", chain, out)
               [] b = "if" ->
                    IF /\ Counted(args, 3) /\ x.type = "num"
                       /\ Typed(args, 2, "qexpr") /\ Typed(args, 3, "qexpr")
                    THEN Meaning(AsSexpr(args.cell[IF x.number = 0 THEN 3 ELSE 2]),
                                 chain, out, d)
                    ELSE Wrong("if takes", chain, out)
               [] b = "use" ->
                    IF Counted(args, 1) /\ x.type = "str" /\ x.string \in DOMAIN Files
                    THEN Loaded(Files[x.string], chain, out, d)
                    ELSE Wrong("use fails", chain, out)
               [] b = "none" -> Bound(lval_bind(f, args), chain, out, d)

\* The environment of a call is gone when the call has a value.
Returned(m) == IF m.ends THEN Is(m.value, Front(m.chain), m.out) ELSE Endless

\* A function that has got its arguments, or those there were.
Bound(r, chain, out, d) ==
    IF r.errs # {} THEN Is(CHOOSE e \in r.errs : TRUE, chain, out)
    ELSE IF r.fun.formals.cell # <<>> THEN Is(r.fun, chain, out)
    ELSE IF Len(chain) = d THEN Endless
    ELSE Returned(Meaning(AsSexpr(r.fun.body), Append(chain, r.fun.environment), out, d))
=============================================================================
