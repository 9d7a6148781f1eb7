------------------------------ MODULE MCReader ------------------------------
(***************************************************************************)
(* Instances of Reader small enough for TLC, and what reading should give. *)
(***************************************************************************)
EXTENDS LvalRead, FiniteSets

Token(rule, is) == [rule |-> rule, is |-> is]

Words == {Token("number", "1"), Token("number", "huge"), Token("string", "\"(\""),
          Token("symbol", "x"), Token("comment", ";")}
FewWords == {Token("symbol", "x"), Token("comment", ";")}
Punctuation == {Bracket(c) : c \in {"(", ")", "{", "}"}}

MCTexts ==
    UNION {[1..n -> Words \cup Punctuation] : n \in 0..4}
    \cup UNION {[1..n -> FewWords \cup Punctuation] : n \in 5..6}

----------------------------------------------------------------------------

\* The tokens a value stands for; what has no value stands for none of a program.
RECURSIVE Written(_)
Written(v) ==
    CASE v.type \in {"sexpr", "qexpr"} ->
           <<Bracket(Brackets.open[v.type])>>
           \o FlattenSeq([i \in 1..Len(v.cell) |-> Written(v.cell[i])])
           \o <<Bracket(Brackets.close[v.type])>>
      [] v.type \in {"num", "err"} ->
           <<Token(IF (v.type = "err") = (v.of = "huge") THEN "number" ELSE "none", v.of)>>
      [] v.type = "str" -> <<Token("string", v.of)>>
      [] v.type = "sym" -> <<Token("symbol", v.of)>>
      [] v.type = "none" -> <<Token("none", "")>>

MCRead(t) == {lval_read(t)}

MCReadAll(ts) ==
    LET read == SelectSeq(ts, LAMBDA t : ~Skipped(t))
    IN  {[i \in 1..Len(read) |-> lval_read(read[i])]}

MCSays(w, cells) ==
    FlattenSeq([i \in 1..Len(cells) |-> Written(cells[i])])
      = SelectSeq(w, LAMBDA token : token.rule # "comment")

Lines(S, n) == UNION {[1..m -> S] : m \in 0..n}

\* What is computed keeps the rules: of lists in lists and the ends of them, and of what
\* texts of three tokens say.
SomeTrees ==
    LET leaves == {Atom(w.rule, Lexeme(w)) : w \in Words}
        List(rule, atoms) == Atom(rule, Matched([rule |-> rule, atoms |-> atoms]))
        lists == {List(rule, atoms) : rule \in Lists, atoms \in Lines(leaves, 2)}
        nested == {List(rule, <<a, b>>) : rule \in Lists, a \in lists, b \in leaves}
        ends == UNION {Range(Around([rule |-> rule])) : rule \in Lists \cup {"lisp"}}
        programs == {Matched([rule |-> "lisp", atoms |-> <<a>>]) : a \in lists}
    IN  {Spliced(a)[1] : a \in leaves \cup lists \cup nested} \cup ends \cup programs

ASSUME TreesKept ==
    /\ <<>> \in ReadAll(<<>>)
    /\ \A t \in SomeTrees : KeepsTree(t) /\ KeepsTrees(t.children, t) /\ KeepsTrees(<<>>, t)

SomeValues ==
    LET words == {Word(w) : w \in Words \ {Token("comment", ";")}}
    IN  words \cup {[type |-> rule, cell |-> vs] : rule \in Lists, vs \in Lines(words, 1)}

ASSUME TextsKept ==
    /\ Says(<<>>, <<>>)
    /\ \A w \in Lines(Words \cup Punctuation, 3), cells \in Lines(SomeValues, 2) :
          Says(w, cells) =>
              /\ \A token \in Words \cup Punctuation : KeepsWord(w, cells, token)
              /\ \A u \in Lines(Words, 1), inner \in Lines(SomeValues, 1) :
                    KeepsList(w, cells, u, inner)
=============================================================================
