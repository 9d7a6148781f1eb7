-------------------------------- MODULE Lval --------------------------------
(***************************************************************************)
(* The values of the interpreter (core/type.h, the constructors of         *)
(* core/eval.c), environments as maps, and the builtins that compute a     *)
(* value without evaluating anything (core/builtin.c).                     *)
(*                                                                         *)
(* Every value has its condition field (cond).  Numbers are integers and   *)
(* div keeps the whole part: the rounding of doubles is left out, and with *)
(* it mod, pow and sqrt.                                                   *)
(***************************************************************************)
EXTENDS Integers, Sequences, FiniteSetsExt, SequencesExt

CONSTANT Said(_)  \* what lval_eq compares of a value: LvalSaid

lval_num(n)  == [type |-> "num", number |-> n, cond |-> "unset"]
lval_str(s)  == [type |-> "str", string |-> s, cond |-> "unset"]
lval_sym(s)  == [type |-> "sym", symbol |-> s, cond |-> "unset"]
lval_err(e)  == [type |-> "err", error |-> e, cond |-> "unset"]
lval_sexpr(xs) == [type |-> "sexpr", cell |-> xs, cond |-> "unset"]
lval_qexpr(xs) == [type |-> "qexpr", cell |-> xs, cond |-> "unset"]
lval_fun(b)  == [type |-> "fun", builtin |-> b, cond |-> "unset"]

Empty == [s \in {} |-> lval_num(0)]

\* formals and body are Q-expressions.
lval_lambda(formals, body) ==
    [type |-> "fun", builtin |-> "none", formals |-> formals, body |-> body,
     environment |-> Empty, cond |-> "unset"]

IsErr(v)    == v.type = "err"
IsLambda(v) == v.type = "fun" /\ v.builtin = "none"

\* A quoted expression seen as one to evaluate, and the reverse.
AsSexpr(v) == [v EXCEPT !.type = "sexpr"]
AsQexpr(v) == [v EXCEPT !.type = "qexpr"]

lval_eq(v, w) == Said(v) = Said(w)

\* What is printed of a value tells apart what lval_eq tells apart.
lval_print(v) == Said(v)

lval_join(vs) == FlattenSeq([i \in 1..Len(vs) |-> vs[i].cell])

----------------------------------------------------------------------------
(* Environments *)

\* lenv_put refuses to change a condition and to change a constant.
PutFails(env, s, cond) ==
    s \in DOMAIN env /\ (env[s].cond # cond \/ env[s].cond = "constant")

\* A new variable gets a condition if its value has none.
Put(env, s, v, cond) ==
    LET new == IF s \in DOMAIN env \/ v.cond # "unset" THEN v ELSE [v EXCEPT !.cond = cond]
    IN  [t \in DOMAIN env \cup {s} |-> IF t = s THEN new ELSE env[t]]

TryPut(env, s, v, cond) ==
    IF PutFails(env, s, cond) THEN env ELSE Put(env, s, v, cond)

\* The environments that storing vs under syms leaves, value after value; what cannot be
\* stored is passed over.
Stores(env, syms, vs, conds) ==
    LET after[i \in 0..Len(syms)] ==
            IF i = 0 THEN env ELSE TryPut(after[i - 1], syms[i], vs[i], conds[i])
    IN  after

\* lenv_get climbs the chain of environments; the last one is the innermost.
Binding(chain, s) == {d \in 1..Len(chain) : s \in DOMAIN chain[d]}

lenv_get(chain, s) ==
    IF Binding(chain, s) = {} THEN lval_err("unbound") ELSE chain[Max(Binding(chain, s))][s]

Numeric == {"add", "sub", "mul", "div", "min", "max"}
Order   == {"gt", "ge", "lt", "le"}
Equality == {"eq", "ne"}
Lists   == {"head", "tail", "list", "join"}
Definers == {"let", "letc", "global", "globalc"}
Builtins == Numeric \cup Order \cup Equality \cup Lists \cup Definers
                \cup {"if", "use", "eval", "lambda", "error", "print"}

lenv_init == [b \in Builtins |-> [lval_fun(b) EXCEPT !.cond = "constant"]]

----------------------------------------------------------------------------
(* The builtins that only compute.  args is the list of evaluated arguments *)

Counted(args, n) == Len(args.cell) = n
Typed(args, i, type) == i <= Len(args.cell) /\ args.cell[i].type = type
AllTyped(args, type) == \A i \in 1..Len(args.cell) : args.cell[i].type = type

Operate(op, x, y) ==
    CASE op = "add" -> x + y
      [] op = "sub" -> x - y
      [] op = "mul" -> x * y
      [] op = "div" -> x \div y
      [] op = "min" -> IF x > y THEN y ELSE x
      [] op = "max" -> IF x > y THEN x ELSE y

Result(op, xs) == FoldLeft(LAMBDA x, y : Operate(op, x, y), Head(xs), Tail(xs))

\* The first operand is the accumulator; a division by zero ends the loop.
builtin_numop(args, op) ==
    IF ~AllTyped(args, "num") THEN lval_err("type")
    ELSE LET xs == [i \in 1..Len(args.cell) |-> args.cell[i].number]
         IN  IF op = "div" /\ \E i \in 2..Len(xs) : xs[i] = 0 THEN lval_err("div zero")
             ELSE [args.cell[1] EXCEPT !.number = Result(op, xs)]

Truth(b) == lval_num(IF b THEN 1 ELSE 0)

builtin_order(args, op) ==
    IF ~Counted(args, 2) THEN lval_err("count")
    ELSE IF ~AllTyped(args, "num") THEN lval_err("type")
    ELSE LET x == args.cell[1].number
             y == args.cell[2].number
         IN  Truth(CASE op = "gt" -> x > y [] op = "ge" -> x >= y
                     [] op = "lt" -> x < y [] op = "le" -> x <= y)

builtin_eq(args, op) ==
    IF ~Counted(args, 2) THEN lval_err("count")
    ELSE Truth((op = "eq") <=> lval_eq(args.cell[1], args.cell[2]))

\* head and tail take one list that is not empty.
ListError(args) ==
    IF ~Counted(args, 1) THEN {lval_err("count")}
    ELSE IF ~Typed(args, 1, "qexpr") THEN {lval_err("type")}
    ELSE IF args.cell[1].cell = <<>> THEN {lval_err("nil")} ELSE {}

\* head gives a list of one element.
btinfn_head(args) ==
    IF ListError(args) # {} THEN CHOOSE e \in ListError(args) : TRUE
    ELSE [args.cell[1] EXCEPT !.cell = <<Head(@)>>]

btinfn_tail(args) ==
    IF ListError(args) # {} THEN CHOOSE e \in ListError(args) : TRUE
    ELSE [args.cell[1] EXCEPT !.cell = Tail(@)]

btinfn_list(args) == AsQexpr(args)

btinfn_join(args) ==
    IF ~AllTyped(args, "qexpr") THEN lval_err("type")
    ELSE [args.cell[1] EXCEPT !.cell = lval_join(args.cell)]

btinfn_lambda(args) ==
    IF ~Counted(args, 2) THEN lval_err("count")
    ELSE IF ~AllTyped(args, "qexpr") THEN lval_err("type")
    ELSE IF ~AllTyped(args.cell[1], "sym") THEN lval_err("non-symbol")
    ELSE lval_lambda(args.cell[1], args.cell[2])

btinfn_error(args) ==
    IF ~Counted(args, 1) THEN lval_err("count")
    ELSE IF ~Typed(args, 1, "str") THEN lval_err("type")
    ELSE lval_err(args.cell[1].string)

Computing == Numeric \cup Order \cup Equality \cup Lists \cup {"lambda", "error"}

Computed(b, args) ==
    CASE b \in Numeric  -> builtin_numop(args, b)
      [] b \in Order    -> builtin_order(args, b)
      [] b \in Equality -> builtin_eq(args, b)
      [] b = "head"     -> btinfn_head(args)
      [] b = "tail"     -> btinfn_tail(args)
      [] b = "list"     -> btinfn_list(args)
      [] b = "join"     -> btinfn_join(args)
      [] b = "lambda"   -> btinfn_lambda(args)
      [] b = "error"    -> btinfn_error(args)

----------------------------------------------------------------------------
(* let, letc, global and globalc.  The answer is [env, value] *)

Cond(b) == IF b \in {"let", "global"} THEN "dynamic" ELSE "constant"

\* What the checks before the first store say.
DefineError(args) ==
    IF ~Typed(args, 1, "qexpr") THEN {lval_err("type")}
    ELSE IF ~AllTyped(args.cell[1], "sym") THEN {lval_err("non-symbol")}
    ELSE IF Len(args.cell[1].cell) # Len(args.cell) - 1 THEN {lval_err("count")} ELSE {}

\* Symbol after symbol, up to the first that cannot be stored.
btinfn_define(env, args, b) ==
    IF DefineError(args) # {} THEN [env |-> env, value |-> CHOOSE e \in DefineError(args) : TRUE]
    ELSE LET syms    == [i \in 1..Len(args.cell[1].cell) |-> args.cell[1].cell[i].symbol]
             after   == Stores(env, syms, Tail(args.cell), [i \in DOMAIN syms |-> Cond(b)])
             refused == {i \in DOMAIN syms : PutFails(after[i - 1], syms[i], Cond(b))}
         IN  IF refused = {} THEN [env |-> after[Len(syms)], value |-> lval_sexpr(<<>>)]
             ELSE [env |-> after[Min(refused) - 1], value |-> lval_err("assign")]

----------------------------------------------------------------------------
(* Binding the formals of a lambda.  The answer is [fun, value]: the function *)
(* with what has been bound, and an error or nothing                          *)

lval_bind(f, args) ==
    LET syms  == [i \in 1..Len(f.formals.cell) |-> f.formals.cell[i].symbol]
        amps  == {i \in 1..Len(syms) : syms[i] = "&"}
        plain == IF amps = {} THEN Len(syms) ELSE Min(amps) - 1
        n     == Len(args.cell)
        given == IF n < plain THEN n ELSE plain
        bound == Stores(f.environment, SubSeq(syms, 1, given), args.cell,
                        [i \in 1..n |-> args.cell[i].cond])[given]
        rest  == IF n > plain THEN AsQexpr([args EXCEPT !.cell = SubSeq(@, plain + 1, n)])
                 ELSE lval_qexpr(<<>>)
        left  == IF n < plain THEN SubSeq(f.formals.cell, n + 1, Len(syms)) ELSE <<>>
        With(env) == [f EXCEPT !.environment = env, !.formals = [@ EXCEPT !.cell = left]]
    IN  IF n < plain \/ (n = plain /\ amps = {}) THEN [fun |-> With(bound), errs |-> {}]
        ELSE IF amps = {} THEN [fun |-> f, errs |-> {lval_err("too many")}]
        ELSE IF Len(syms) # plain + 2 THEN [fun |-> f, errs |-> {lval_err("variadic")}]
        ELSE [fun |-> With(TryPut(bound, syms[plain + 2], rest, "dynamic")), errs |-> {}]
=============================================================================
