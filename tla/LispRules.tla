------------------------------ MODULE LispRules ------------------------------
(***************************************************************************)
(* What a program answers, by rules: what an expression means is derived   *)
(* from what its parts mean.  Whatever keeps the rules may be taken for    *)
(* the meaning; the least that does is what can be derived.                *)
(***************************************************************************)
EXTENDS Lexy

CONSTANTS
    Means(_, _, _),   \* [value, chain, out] an expression may give, from a chain and an output
    Valued(_, _, _),  \* [values, chain, out]: the values of the first expressions of a list
    Ran(_, _, _),     \* [rest, chain, out]: what is left of a file that is being loaded
    Replied(_)        \* [rest, chain, out]: what is left of the lines typed at the prompt

Is(v, c, o)      == [value |-> v, chain |-> c, out |-> o]
Got(vs, c, o)    == [values |-> vs, chain |-> c, out |-> o]
Left(rest, c, o) == [rest |-> rest, chain |-> c, out |-> o]

Nil == lval_sexpr(<<>>)
Finished(runs) == {l \in runs : l.rest = <<>>}

----------------------------------------------------------------------------
(* Expressions *)

Wrong(e, c, o) == {Is(lval_err(e), c, o)}

\* let and letc write where they are called, global and globalc in the root.
Defined(b, args, c, o) ==
    LET at == IF b \in {"let", "letc"} THEN Len(c) ELSE 1
        r  == btinfn_define(c[at], args, b)
    IN  {Is(r.value, [c EXCEPT ![at] = r.env], o)}

\* A call is evaluated below its caller, and its environment is gone when it has a value.
Called(r, c, o) ==
    IF r.errs # {} THEN {Is(e, c, o) : e \in r.errs}
    ELSE IF r.fun.formals.cell # <<>> THEN {Is(r.fun, c, o)}
    ELSE IF Len(c) < MaxDepth
    THEN {Is(m.value, Front(m.chain), m.out) :
             m \in Means(AsSexpr(r.fun.body), Append(c, r.fun.environment), o)}
    ELSE {}

Applied(f, args, c, o) ==
    IF f.type # "fun" THEN Wrong("not a function", c, o)
    ELSE LET b == f.builtin
             x == args.cell[1]
         IN  CASE b \in Computing -> {Is(Computed(b, args), c, o)}
               [] b \in Definers -> Defined(b, args, c, o)
               [] b = "print" ->
                    {Is(Nil, c, Append(o, [i \in 1..Len(args.cell) |-> lval_print(args.cell[i])]))}
               [] b = "eval" ->
                    IF Counted(args, 1) /\ Typed(args, 1, "qexpr")
                    THEN Means(AsSexpr(x), c, o) ELSE Wrong("eval takes", c, o)
               [] b = "if" ->
                    IF /\ Counted(args, 3) /\ Typed(args, 1, "num")
                       /\ Typed(args, 2, "qexpr") /\ Typed(args, 3, "qexpr")
                    THEN Means(AsSexpr(args.cell[IF x.number = 0 THEN 3 ELSE 2]), c, o)
                    ELSE Wrong("if takes", c, o)
               [] b = "use" ->
                    IF Counted(args, 1) /\ Typed(args, 1, "str") /\ x.string \in DOMAIN Library
                    THEN {Is(Nil, l.chain, l.out) : l \in Finished(Ran(Library[x.string], c, o))}
                    ELSE Wrong("use fails", c, o)
               [] b = "none" -> Called(lval_bind(f, args), c, o)

\* A list with the values of its cells: the first error, the only value, or the first
\* value applied to the others.
Combined(e, r) ==
    LET errs == {i \in 1..Len(r.values) : IsErr(r.values[i])}
    IN  IF errs # {} THEN {Is(r.values[Min(errs)], r.chain, r.out)}
        ELSE IF Len(r.values) = 1 THEN {Is(r.values[1], r.chain, r.out)}
        ELSE Applied(r.values[1], [e EXCEPT !.cell = Tail(r.values)], r.chain, r.out)

Meanings(e, c, o) ==
    IF e.type = "sym" THEN {Is(lenv_get(c, e.symbol), c, o)}
    ELSE IF e.type = "sexpr" /\ e.cell # <<>>
    THEN UNION {Combined(e, r) : r \in {q \in Valued(e.cell, c, o) : Len(q.values) = Len(e.cell)}}
    ELSE {Is(e, c, o)}

----------------------------------------------------------------------------
(* Expressions one after the other: arguments, a file, the lines at the prompt *)

NextValue(es, r) ==
    {Got(Append(r.values, m.value), m.chain, m.out) :
        m \in Means(es[Len(r.values) + 1], r.chain, r.out)}

\* The error of an expression in a file is printed.
Reported(v, o) == IF IsErr(v) THEN Append(o, <<lval_print(v)>>) ELSE o

NextRun(l) ==
    {Left(Tail(l.rest), m.chain, Reported(m.value, m.out)) :
        m \in Means(Head(l.rest), l.chain, l.out)}

\* A line is one list, and its value is printed.
OfLine(text, c, o) ==
    IF text = {} THEN {Is(Unparsed, c, o)}
    ELSE UNION {Means(lval_sexpr(cells), c, o) : cells \in text}

NextReply(l) ==
    {Left(Tail(l.rest), m.chain, Append(m.out, <<lval_print(m.value)>>)) :
        m \in OfLine(Head(l.rest), l.chain, l.out)}

KeepsMeanings(e, c, o) == Meanings(e, c, o) \subseteq Means(e, c, o)

KeepsValues(es, c, o) ==
    LET all == Valued(es, c, o)
    IN  /\ Got(<<>>, c, o) \in all
        /\ \A r \in all : Len(r.values) < Len(es) => NextValue(es, r) \subseteq all

KeepsRuns(es, c, o) ==
    LET all == Ran(es, c, o)
    IN  /\ Left(es, c, o) \in all
        /\ \A l \in all : l.rest # <<>> => NextRun(l) \subseteq all

KeepsReplies(typed) ==
    LET all == Replied(typed)
    IN  /\ Left(typed, <<lenv_init>>, <<>>) \in all
        /\ \A l \in all : l.rest # <<>> => NextReply(l) \subseteq all

\* The rules are kept, of whatever expressions, environments and output.
RulesKept ==
    /\ \A e, c, o : KeepsMeanings(e, c, o) /\ KeepsValues(e, c, o) /\ KeepsRuns(e, c, o)
    /\ \A typed : KeepsReplies(typed)

----------------------------------------------------------------------------
(* Programs *)

\* What the process leaves: the environments, what it has printed and the exit status.
Ends(c, o, exit) == [chain |-> c, out |-> o, status |-> exit]

Untouched(exit) == Ends(<<lenv_init>>, <<>>, exit)
NoMatch == Ends(<<lenv_init>>, <<<<lval_print(Unparsed)>>>>, {1})

\* The last error among these values.
LastError(vs) ==
    LET errs == {i \in 1..Len(vs) : IsErr(vs[i])}
    IN  IF errs = {} THEN {} ELSE {vs[Max(errs)]}

\* The code of -e fails if one of its expressions does, and says so of the last.
CodeEnds(r) ==
    IF LastError(r.values) = {} THEN {Ends(r.chain, r.out, {0})}
    ELSE {Ends(r.chain, Append(r.out, <<lval_print(err)>>), {1}) : err \in LastError(r.values)}

OfCode(text) ==
    IF text = {} THEN {NoMatch}
    ELSE UNION {UNION {CodeEnds(r) :
                    r \in {q \in Valued(cells, <<lenv_init>>, <<>>) : Len(q.values) = Len(cells)}} :
                cells \in text}

\* A script fails only if it does not match.
OfScript(text) ==
    IF text = {} THEN {NoMatch}
    ELSE UNION {{Ends(l.chain, l.out, {0}) : l \in Finished(Ran(cells, <<lenv_init>>, <<>>))} :
                cells \in text}

OfLines(typed) == {Ends(l.chain, l.out, {}) : l \in Finished(Replied(typed))}

\* The first option that ends the process does; then the last operand of -e goes before
\* a script.
Flagged(p, flags) == {i \in 1..Len(p.options) : p.options[i].flag \in flags}

Answers(p) ==
    LET ending == Flagged(p, {"help", "wrong"})
        codes  == Flagged(p, {"eval"})
    IN  IF ending # {}
        THEN {Untouched({IF p.options[Min(ending)].flag = "help" THEN 0 ELSE 2})}
        ELSE IF codes # {} THEN OfCode(p.options[Max(codes)].text)
        ELSE IF Len(p.args) = 0 THEN OfLines(p.typed)
        ELSE IF Len(p.args) = 1 THEN OfScript(p.args[1])
        ELSE {Untouched({2})}

\* Evaluating in place, cell by cell, with an explicit chain of environments, prints
\* what the expressions mean and leaves the root environment they mean, and the exit
\* status tells a script that cannot be loaded, code that has an error and a command line
\* that cannot be followed: eval.c:461-589, lexy.c:116-297.
AnswersAsMeant == Done => Ends(chain, output, status) \in Answers(program)

\* A program ends unless it calls itself for ever.
ProgramEnds == Answers(program) # {} ~> Done
=============================================================================
