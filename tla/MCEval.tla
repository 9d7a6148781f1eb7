------------------------------- MODULE MCEval -------------------------------
(***************************************************************************)
(* Instances of Lexy small enough for TLC, and the comparison with Lisp.   *)
(* A program is two definitions and an expression, or two.                 *)
(***************************************************************************)
EXTENDS LispRules, LvalSaid

Sym(s)  == lval_sym(s)
Num(n)  == lval_num(n)
Q(xs)   == lval_qexpr(xs)
App(h, xs) == lval_sexpr(<<Sym(h)>> \o xs)

x == Sym("x")
y == Sym("y")
f == Sym("f")

Define(b, s, e) == App(b, <<Q(<<s>>), e>>)
Lambda(formals, body) == App("lambda", <<Q(formals), Q(body)>>)

\* Functions that take one argument, two, or any number, that define in their own
\* environment and in the root, read a variable of their caller, call themselves,
\* load a file; and one that never ends.
Functions ==
    {Lambda(<<x, y>>, <<Sym("list"), y, x>>),
     Lambda(<<x, Sym("&"), y>>, <<Sym("join"), y, y>>),
     Lambda(<<Sym("&"), x, y>>, <<x>>),
     Lambda(<<x>>, <<Sym("let"), Q(<<y>>), x>>),
     Lambda(<<x>>, <<Sym("global"), Q(<<y>>), x>>),
     Lambda(<<y>>, <<App("add", <<x, y>>)>>),
     Lambda(<<x>>, <<Sym("if"), x, Q(<<f, Num(0)>>), Q(<<Sym("add"), y, x>>)>>),
     Lambda(<<y>>, <<Sym("use"), lval_str("lib")>>),
     Lambda(<<x>>, <<f, x>>)}

MCLibrary ==
    [s \in {"lib"} |-> <<Define("let", x, y), App("print", <<x, y>>), App("f", <<x, x>>)>>]

Vars == {Define("let", x, Num(1)), Define("letc", x, Q(<<y, Num(1)>>)),
         Define("global", y, Num(0)), Define("globalc", y, App("div", <<Num(1), Num(0)>>))}

Atoms == {Num(0), Num(1), x, y, f, Q(<<>>), Q(<<x>>), Q(<<x, Num(1)>>), lval_str("lib"),
          lval_sexpr(<<>>)}

Heads == Builtins \cup {"f", "x"}

\* Every builtin, a function and a variable, on one argument of each kind and on two.
Apps == {App(h, <<a>>) : h \in Heads, a \in Atoms}
            \cup {App(h, <<a, b>>) : h \in Heads, a, b \in {Num(0), x, f, Q(<<x>>), lval_str("lib")}}

Ifs == {App("if", <<a, Q(<<b>>), Q(<<c, b>>)>>) : a, b, c \in {Num(0), x, f}}

\* Two expressions whose values are passed on, in this order.
Some == {App("f", <<Num(1)>>), App("let", <<Q(<<y>>), x>>), y,
         App("f", <<App("error", <<lval_str("e")>>)>>), App("f", <<x, y>>)}

Twice == {App("f", <<a, b>>) : a, b \in Some} \cup {lval_sexpr(<<App("f", <<a>>), y>>) : a \in Atoms}

MCCalls == {<<v, Define("let", f, g), e>> : v \in Vars, g \in Functions, e \in Twice}

\* x is a number, or a list and a constant.
Settings == {Define("let", x, Num(1)), Define("letc", x, Q(<<y, Num(1)>>))}

Given(v, e) == <<v, Define("let", f, Lambda(<<x>>, <<y>>)), e>>

Scripts == UNION {MCCalls, {Given(v, e) : v \in Settings, e \in Apps},
                  {Given(v, e) : v \in Vars, e \in Ifs}}

\* Lines of one expression, of several and of none.
Lines == {<<>>, <<x>>, <<Num(1), x>>, <<App("f", <<x>>)>>, <<Sym("f"), Num(0)>>,
          <<App("f", <<y>>), App("use", <<lval_str("lib")>>)>>, <<App("div", <<x, Num(0)>>), y>>}

Command(opts, args, typed) == [options |-> opts, args |-> args, typed |-> typed]
Flag(name)   == [flag |-> name]
EvalOf(text) == [flag |-> "eval", text |-> text]

Script1(text) == Command(<<>>, <<text>>, <<>>)
Code1(text)   == Command(<<EvalOf(text)>>, <<>>, <<>>)
AtPrompt(texts)  == Command(<<>>, <<>>, texts)

FewFunctions ==
    {Lambda(<<x>>, <<Sym("global"), Q(<<y>>), x>>), Lambda(<<y>>, <<Sym("use"), lval_str("lib")>>),
     Lambda(<<x>>, <<f, x>>)}

\* Options in several orders, with an argument or two.
CommandLines ==
    LET one == {<<Define("let", x, Num(1)), x>>}
        two == {<<x>>}
    IN  {Command(opts, args, <<one>>) :
            args \in {<<>>, <<two>>, <<one, two>>},
            opts \in {<<>>, <<EvalOf(one)>>, <<EvalOf(one), EvalOf(two)>>,
                      <<EvalOf(two), EvalOf(one)>>, <<Flag("debug"), EvalOf(two)>>,
                      <<EvalOf(one), Flag("help")>>, <<Flag("help"), Flag("wrong")>>,
                      <<Flag("debug"), Flag("wrong"), EvalOf(one)>>}}

\* Before them something is defined.  What does not match is one of the texts.
MCPrograms ==
    {Script1({}), Code1({})} \cup CommandLines
    \cup {Script1({cells}) : cells \in Scripts}
    \cup {Code1({<<Define("let", x, Num(1)), Define("let", f, g)>> \o l \o k}) :
             g \in FewFunctions, l, k \in Lines}
    \cup {AtPrompt(<<{<<Define("let", x, Num(1)), Define("let", f, g)>>}, {l}, {k}>>) :
             g \in FewFunctions, l, k \in Lines}
    \cup {AtPrompt(<<{<<v>>}, {}, {l}>>) : v \in Vars, l \in Lines}

\* The expressions of all these texts, and their parts.
RECURSIVE Parts(_)
Parts(v) ==
    {v} \cup IF v.type \in {"sexpr", "qexpr"}
             THEN UNION {Parts(v.cell[i]) : i \in 1..Len(v.cell)} ELSE {}

PartsOf(cells) == UNION {Parts(cells[i]) : i \in 1..Len(cells)}

CodeOf(p) ==
    {p.options[i].text : i \in {j \in 1..Len(p.options) : p.options[j].flag = "eval"}}

MCExpressions ==
    UNION {PartsOf(MCLibrary[s]) : s \in DOMAIN MCLibrary}
    \cup UNION {UNION {PartsOf(cells) : cells \in text} :
              text \in UNION {CodeOf(p) \cup Range(p.args) \cup Range(p.typed) : p \in MCPrograms}}

----------------------------------------------------------------------------

L == INSTANCE Lisp WITH Files <- Library

Of(m) == IF m.ends THEN {Is(m.value, m.chain, m.out)} ELSE {}

MCMeans(e, c, o) == Of(L!Meaning(e, c, o, MaxDepth))

\* After each number of the expressions.
MCValued(es, c, o) ==
    UNION {LET m == L!Meanings(SubSeq(es, 1, n), c, o, MaxDepth)
           IN  IF m.ends THEN {Got(m.values, m.chain, m.out)} ELSE {} : n \in 0..Len(es)}

MCRan(es, c, o) ==
    UNION {{Left(SubSeq(es, n + 1, Len(es)), m.chain, m.out) :
               m \in Of(L!Loaded(SubSeq(es, 1, n), c, o, MaxDepth))} : n \in 0..Len(es)}

\* A line is a list and its value is printed.
LineMeaning(text, c, o) ==
    IF text = {} THEN L!Is(Unparsed, c, o)
    ELSE L!Meaning(lval_sexpr(CHOOSE cells \in text : TRUE), c, o, MaxDepth)

RECURSIVE LinesMeaning(_, _, _)
LinesMeaning(texts, c, o) ==
    IF texts = <<>> THEN {Is(Nil, c, o)}
    ELSE UNION {LinesMeaning(Tail(texts), m.chain, Append(m.out, <<lval_print(m.value)>>)) :
                   m \in Of(LineMeaning(Head(texts), c, o))}

MCReplied(typed) ==
    UNION {{Left(SubSeq(typed, n + 1, Len(typed)), m.chain, m.out) :
               m \in LinesMeaning(SubSeq(typed, 1, n), <<lenv_init>>, <<>>)} : n \in 0..Len(typed)}

\* What Lisp computes keeps the rules: in the first environment, below a call, and where
\* no call can be made.
MCChains ==
    LET root == <<Put(lenv_init, "x", Num(1), "dynamic")>>
        call == [s \in {"y"} |-> Q(<<x, Num(1)>>)]
        fun  == [s \in {"f"} |-> lval_lambda(Q(<<y>>), Q(<<App("global", <<Q(<<x>>), y>>)>>))]
    IN  {<<lenv_init>>, root, root \o <<call, fun>>, root \o <<call, fun, call>>}

ASSUME MeaningsKept ==
    \A e \in MCExpressions, c \in MCChains : KeepsMeanings(e, c, <<>>)

ASSUME ListsKept ==
    \A e \in MCExpressions, c \in MCChains :
        "cell" \in DOMAIN e => KeepsValues(e.cell, c, <<>>) /\ KeepsRuns(e.cell, c, <<>>)

ASSUME RepliesKept == \A p \in MCPrograms : KeepsReplies(p.typed)
=============================================================================
