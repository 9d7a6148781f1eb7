----------------------------- MODULE ReadRules -----------------------------
(***************************************************************************)
(* What lval_read of core/eval.c makes of one node of a tree, and, by      *)
(* rules, what it makes of a tree and how a value is written.  Whatever    *)
(* keeps the rules may be taken for them; the least that does is what can  *)
(* be derived.                                                             *)
(***************************************************************************)
EXTENDS Reader

CONSTANTS
    Read(_),     \* the values a tree may be read as
    ReadAll(_),  \* the cells that trees, one after the other, may be read as
    Says(_, _)   \* tokens say the values of a sequence

----------------------------------------------------------------------------
(* A node *)

Tagged(t, name) == \E i \in 1..Len(t.tag) : t.tag[i] = name

\* Bug: comments are read.
SkippedNoComments(t) == t.contents \in {"(", ")", "{", "}"} \/ t.tag = <<"regex">>

\* What is not read: brackets, the ends of the program and comments.
Skipped(t) ==
    \/ t.contents \in {"(", ")", "{", "}"}
    \/ t.tag = <<"regex">>
    \/ Tagged(t, "comment")

\* A number out of range ("huge") is an error.
lval_rnum(t) == [type |-> IF t.contents = "huge" THEN "err" ELSE "num", of |-> t.contents]

\* Of a node whose children are read as cells.
OfNode(t, cells) ==
    CASE Tagged(t, "number") -> lval_rnum(t)
      [] ~Tagged(t, "number") /\ Tagged(t, "string") -> [type |-> "str", of |-> t.contents]
      [] ~Tagged(t, "number") /\ ~Tagged(t, "string") /\ Tagged(t, "symbol") ->
           [type |-> "sym", of |-> t.contents]
      [] OTHER ->
           [type |-> IF Tagged(t, "qexpr") THEN "qexpr"
                     ELSE IF t.tag = <<">">> \/ Tagged(t, "sexpr") THEN "sexpr" ELSE "none",
            cell |-> cells]

----------------------------------------------------------------------------
(* The rules *)

KeepsTree(t) == \A cells \in ReadAll(t.children) : OfNode(t, cells) \in Read(t)

\* One more tree.
KeepsTrees(ts, t) ==
    \A cells \in ReadAll(ts) :
        IF Skipped(t) THEN cells \in ReadAll(Append(ts, t))
        ELSE {Append(cells, v) : v \in Read(t)} \subseteq ReadAll(Append(ts, t))

\* What an atom that is one token is; a number out of range is an error.
WordType(token) ==
    CASE token.rule = "number" -> IF token.is = "huge" THEN "err" ELSE "num"
      [] token.rule = "string" -> "str"
      [] token.rule = "symbol" -> "sym"

Word(token) == [type |-> WordType(token), of |-> token.is]

\* One more token, which says nothing or an atom.
KeepsWord(w, cells, token) ==
    Says(w, cells) =>
        /\ token.rule = "comment" => Says(Append(w, token), cells)
        /\ token.rule \notin {"comment", "char"} =>
              Says(Append(w, token), Append(cells, Word(token)))

\* One more list, between its brackets.
KeepsList(w, cells, u, inner) ==
    Says(w, cells) /\ Says(u, inner) =>
        \A type \in Lists :
            Says(Append(Append(w, Bracket(Brackets.open[type])) \o u,
                        Bracket(Brackets.close[type])),
                 Append(cells, [type |-> type, cell |-> inner]))

\* The rules are kept, of whatever trees and values.
RulesKept ==
    /\ <<>> \in ReadAll(<<>>) /\ Says(<<>>, <<>>)
    /\ \A t : KeepsTree(t)
    /\ \A T : \A ts \in Seq(T), t \in T : KeepsTrees(ts, t)
    /\ \A w, u \in Seq(Tokens) : \A cells, inner :
          /\ \A token \in Tokens : KeepsWord(w, cells, token)
          /\ KeepsList(w, cells, u, inner)

----------------------------------------------------------------------------
(* Property *)

\* A program that matches reads as it is written, without its comments: eval.c:229-260.
ReadsAsWritten ==
    \A t \in ast \ {Null} : \E v \in Read(t) : v.type = "sexpr" /\ Says(text, v.cell)
=============================================================================
