------------------------------- MODULE Reader -------------------------------
(***************************************************************************)
(* Reading a program: the grammar of core/parser.c, and the trees that the *)
(* parsers mpca_lang makes of it build (core/mpc.c).  ReadRules turns them *)
(* into values.                                                            *)
(*                                                                         *)
(* The text is a sequence of tokens: what one regular expression or one    *)
(* character of the grammar matches.  The rules that are being matched are *)
(* a stack of frames with the trees of the atoms found so far.  A tag is   *)
(* the sequence of the names that "|" separates in the code.               *)
(***************************************************************************)
EXTENDS Integers, Sequences, SequencesExt

CONSTANT Texts  \* bound: the programs that are read

\* A token is [rule, is]: the rule it is matched by and its characters, which for one
\* that a regular expression matches are more than a bracket.
Brackets == [open |-> [sexpr |-> "(", qexpr |-> "{"], close |-> [sexpr |-> ")", qexpr |-> "}"]]
Bracket(c) == [rule |-> "char", is |-> c]
Lists == {"sexpr", "qexpr"}

Tokens ==
    [rule : {"number", "string", "symbol", "comment"}, is : STRING \ {"(", ")", "{", "}"}]
    \cup {Bracket(c) : c \in {"(", ")", "{", "}"}}

ASSUME TextsAssumption == Texts \subseteq Seq(Tokens)

VARIABLES
    text,   \* the program
    pos,    \* tokens matched
    stack,  \* rules in progress, the rule lisp first: [rule, atoms]
    ast     \* {} or the tree of the program, Null if it does not match

vars == <<text, pos, stack, ast>>

----------------------------------------------------------------------------
(* Trees *)

Null == [tag |-> <<>>, contents |-> "", children |-> <<>>]

mpc_ast_new(tag, contents) == [tag |-> tag, contents |-> contents, children |-> <<>>]

mpc_ast_add_tag(a, t) == IF a = Null THEN a ELSE [a EXCEPT !.tag = <<t>> \o @]

\* The last character of the parent's tag goes: it is the ">" every node with children
\* ends in.
mpc_ast_add_root_tag(a, tag) == [a EXCEPT !.tag = Front(tag) \o @]

\* Bug: a node with children is not wrapped.
AddRootNever(a) == a

\* A node with several children becomes the only child of a new one, so that folding
\* it does not mix its children with its neighbours.
mpc_ast_add_root(a) ==
    IF Len(a.children) <= 1 THEN a ELSE [mpc_ast_new(<<">">>, "") EXCEPT !.children = <<a>>]

\* What a tree adds to the children of the node it is folded into.
Spliced(a) ==
    CASE a = Null               -> <<>>
      [] Len(a.children) = 1    -> <<mpc_ast_add_root_tag(a.children[1], a.tag)>>
      [] Len(a.children) > 1    -> a.children
      [] OTHER                  -> <<a>>

\* Bug: the children of a node are not taken out of it.
FoldNested(xs) ==
    IF xs = <<>> THEN Null
    ELSE IF Len(xs) = 1 THEN xs[1]
    ELSE IF Len(xs) = 2 /\ xs[2] = Null THEN xs[1]
    ELSE IF Len(xs) = 2 /\ xs[1] = Null THEN xs[2]
    ELSE [mpc_ast_new(<<">">>, "") EXCEPT !.children = SelectSeq(xs, LAMBDA a : a # Null)]

mpcf_fold_ast(xs) ==
    IF xs = <<>> THEN Null
    ELSE IF Len(xs) = 1 THEN xs[1]
    ELSE IF Len(xs) = 2 /\ xs[2] = Null THEN xs[1]
    ELSE IF Len(xs) = 2 /\ xs[1] = Null THEN xs[2]
    ELSE [mpc_ast_new(<<">">>, "") EXCEPT
             !.children = FlattenSeq([i \in 1..Len(xs) |-> Spliced(xs[i])])]

----------------------------------------------------------------------------
(* Rules *)

\* <name>, of a rule that has matched a
Named(name, a) == mpc_ast_add_root(mpc_ast_add_tag(a, name))

Lexeme(token) ==
    mpc_ast_new(<<IF token.rule = "char" THEN "char" ELSE "regex">>, token.is)

\* Of <number>, <string>, <symbol>, <comment>, <sexpr> and <qexpr>.
Atom(rule, a) == Named("atom", Named(rule, a))

\* A sequence of three as mpcaf_grammar_and puts it together, pair after pair.
InPairs(x, y, z) == mpcf_fold_ast(<<mpcf_fold_ast(<<mpcf_fold_ast(<<Null, x>>), y>>), z>>)

\* The same after mpc_optimise has removed the pass and merged the pairs.
InTurn(x, y, z) == mpcf_fold_ast(<<x, y, z>>)

\* Before, <atom>*, and after.
Around(frame) ==
    IF frame.rule = "lisp" THEN <<mpc_ast_new(<<"regex">>, ""), mpc_ast_new(<<"regex">>, "")>>
    ELSE <<Lexeme(Bracket(Brackets.open[frame.rule])), Lexeme(Bracket(Brackets.close[frame.rule]))>>

Matched(frame) == InTurn(Around(frame)[1], mpcf_fold_ast(frame.atoms), Around(frame)[2])

----------------------------------------------------------------------------
(* Matching *)

Top == stack[Len(stack)]
Found(frames, a) == [frames EXCEPT ![Len(frames)].atoms = Append(@, a)]

Init ==
    /\ text \in Texts
    /\ pos = 0 /\ ast = {}
    /\ stack = <<[rule |-> "lisp", atoms |-> <<>>]>>

Ahead(token) == ast = {} /\ pos < Len(text) /\ text[pos + 1] = token

MatchRegex ==
    /\ ast = {} /\ pos < Len(text) /\ text[pos + 1].rule # "char"
    /\ stack' = Found(stack, Atom(text[pos + 1].rule, Lexeme(text[pos + 1])))
    /\ pos' = pos + 1
    /\ UNCHANGED <<text, ast>>

MatchOpen ==
    /\ \E rule \in Lists :
          /\ Ahead(Bracket(Brackets.open[rule]))
          /\ stack' = Append(stack, [rule |-> rule, atoms |-> <<>>])
    /\ pos' = pos + 1
    /\ UNCHANGED <<text, ast>>

Closes(frame, rule) == frame.rule = rule /\ Ahead(Bracket(Brackets.close[rule]))

\* Bug: any bracket closes a list.
MatchCloseAny ==
    /\ Top.rule # "lisp"
    /\ \E rule \in Lists : Ahead(Bracket(Brackets.close[rule]))
    /\ stack' = Found(Front(stack), Atom(Top.rule, Matched(Top)))
    /\ pos' = pos + 1
    /\ UNCHANGED <<text, ast>>

MatchClose ==
    /\ \E rule \in Lists : Closes(Top, rule)
    /\ stack' = Found(Front(stack), Atom(Top.rule, Matched(Top)))
    /\ pos' = pos + 1
    /\ UNCHANGED <<text, ast>>

MatchEnd ==
    /\ ast = {} /\ pos = Len(text) /\ Top.rule = "lisp"
    /\ ast' = {Matched(Top)}
    /\ UNCHANGED <<text, pos, stack>>

\* Neither an atom nor the end of the rule: the list fails, and with it every rule it
\* is in, since no other rule begins with a bracket.
Mismatch ==
    /\ ast = {}
    /\ IF pos = Len(text) THEN Top.rule # "lisp"
       ELSE /\ \E rule \in Lists : Ahead(Bracket(Brackets.close[rule]))
            /\ \A rule \in Lists : ~Closes(Top, rule)
    /\ ast' = {Null}
    /\ UNCHANGED <<text, pos, stack>>

Next == MatchRegex \/ MatchOpen \/ MatchClose \/ MatchEnd \/ Mismatch

Spec == Init /\ [][Next]_vars

----------------------------------------------------------------------------
(* Properties *)

Opening(i, rule) == text[i] = Bracket(Brackets.open[rule])
Closing(i, rule) == text[i] = Bracket(Brackets.close[rule])

Openings == {i \in 1..Len(text) : \E rule \in Lists : Opening(i, rule)}
Closings == {i \in 1..Len(text) : \E rule \in Lists : Closing(i, rule)}

\* Every bracket has a partner of its own kind, and no two pairs cross.
PairsUp(pair) ==
    /\ \A j \in Closings : \E i \in Openings : pair[i] = j
    /\ \A i \in Openings :
          i < pair[i] /\ \E rule \in Lists : Opening(i, rule) /\ Closing(pair[i], rule)
    /\ \A i, j \in Openings : i < j => pair[i] < j \/ pair[j] < pair[i]

\* A program matches if and only if its brackets pair up: parser.c:55-66.
MatchesIfPaired ==
    \A t \in ast : (t # Null) <=> \E pair \in [Openings -> Closings] : PairsUp(pair)

\* Folding a list keeps each of its atoms one child, between the two ends, whatever
\* lists the atoms are: mpc.c:2932-2943 and 3198-3234.
AtomsStayWhole ==
    \A k \in 1..Len(stack) : Len(Matched(stack[k]).children) = Len(stack[k].atoms) + 2

\* What mpc_optimise makes of a rule builds the tree the rule as written builds, up to
\* the last fold: mpc.c:3945-3992.
OptimisedAsWritten ==
    \A k \in 1..Len(stack) :
        LET ends == Around(stack[k])
            found == mpcf_fold_ast(stack[k].atoms)
        IN  InTurn(ends[1], found, ends[2]) = InPairs(ends[1], found, ends[2])
=============================================================================
