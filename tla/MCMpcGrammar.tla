---------------------------- MODULE MCMpcGrammar ----------------------------
(***************************************************************************)
(* Instances of MpcGrammar small enough for TLC, and the comparison of     *)
(* what is compiled with what was written, by way of Peg.                  *)
(***************************************************************************)
EXTENDS MpcGrammar, Peg, TLC

CONSTANTS a, x, y, z

MCArgs  == <<x, y>>
MCTexts == {<<y>>} \cup UNION {[1..n -> {a, x}] : n \in 0..3}

\* The parser a node stands for; one given as an argument matches its own name.
RECURSIVE Meaning(_), Body(_)
Body(n) ==
    LET parts == [i \in 1..Len(node[n].xs) |-> Meaning(node[n].xs[i])]
        type  == node[n].type
    IN  CASE type = "item"               -> Item(node[n].is)
          [] type \in {"pass", "lift"}   -> [type |-> "pass"]
          [] type \in {"and", "or"}      -> [type |-> type, xs |-> parts]
          [] type = "ref"                -> parts[1]
          [] type = "count"              -> Counted(node[n].is, parts[1])
          [] type \in {"fail", "undefined", "free"} -> Failing
          [] OTHER                       -> [type |-> type, x |-> parts[1]]
Meaning(n) == IF node[n].retained THEN Item(Args[n]) ELSE Body(n)

Parts(p) ==
    CASE p.type \in {"and", "or"}           -> p.xs
      [] p.type \in {"one", "pass", "fail"} -> <<>>
      [] OTHER                              -> <<p.x>>

\* A failing count leaves the input where its last match ended; the sequence around it
\* rewinds.  The optimiser removes that sequence if the count is alone in it, or beside
\* empty sequences only, and what follows then starts further on.
RECURSIVE Empty(_), LoneCount(_)
Empty(p) == p.type = "and" /\ \A i \in 1..Len(p.xs) : Empty(p.xs[i])

LoneCount(p) ==
    \/ /\ p.type = "and"
       /\ \E i \in 1..Len(p.xs) :
             p.xs[i].type = "count" /\ \A j \in 1..Len(p.xs) : i = j \/ Empty(p.xs[j])
    \/ \E i \in 1..Len(Parts(p)) : LoneCount(Parts(p)[i])

\* p with every count as so many copies in a sequence, which does rewind.
RECURSIVE Copied(_)
Copied(p) ==
    LET parts == [i \in 1..Len(Parts(p)) |-> Copied(Parts(p)[i])]
    IN  CASE p.type \in {"and", "or"} -> [p EXCEPT !.xs = parts]
          [] p.type = "count"         -> [type |-> "and", xs |-> [i \in 1..p.n |-> parts[1]]]
          [] parts = <<>>             -> p
          [] OTHER                    -> [p EXCEPT !.x = parts[1]]

SameMatch(p, q) ==
    p = q \/ \A t \in MCTexts :
        Match(t, p, [pos |-> 0, term |-> 0], TRUE) = Match(t, q, [pos |-> 0, term |-> 0], TRUE)

\* Where a count is alone in a sequence the two are compared but for its rewinding.
Means(parser, as) ==
    IF LoneCount(as) THEN SameMatch(Copied(parser), Copied(as)) ELSE SameMatch(parser, as)

\* mpc.c:2142 and 3356: "<base> "{" <digits> "}"".  What a fold builds matches what was
\* written, a number in braces included.
PartsMeanAsWritten == \A i \in 1..Len(vals) : Means(Meaning(vals[i].p), vals[i].as)

\* What is compiled matches what was written, whichever folds have been applied and
\* between any two rewritings of the optimiser, and a parser that a rule defines
\* matches the last rule of its name: mpc.c:2152-2202, 3372-3402, 3641-3661, 3881-4048.
MeansAsWritten ==
    /\ PartsMeanAsWritten
    /\ \A i \in 1..Len(stmts) : Means(Meaning(stmts[i].p), stmts[i].as)
    /\ \A i \in 1..Len(result) : Means(Meaning(result[i].p), result[i].as)
    /\ \A i \in 1..Len(Args) : Means(Body(i), rules[i])
=============================================================================
