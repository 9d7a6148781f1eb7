---------------------------- MODULE MpcOptimise ----------------------------
(***************************************************************************)
(* mpc_optimise of core/mpc.c: the rewriting of a graph of parser nodes.   *)
(*                                                                         *)
(* A node of type "or" or "and" with a part of the same kind as its first  *)
(* or last one takes over the parts of that one; a sequence of two that    *)
(* begins with the neutral parser of its fold becomes its second part.     *)
(* Only unretained parts are touched, because nobody else refers to them.  *)
(***************************************************************************)
EXTENDS Integers, Sequences, SequencesExt

CONSTANT MaxNode  \* bound: the nodes that can be live at a time

ASSUME MaxNodeAssumption == MaxNode \in Nat

VARIABLES
    node,  \* what each pointer points to
    walk   \* calls of mpc_optimise_unretained: [p, parts], the innermost first

Nodes == 1..MaxNode

\* fold is the fold function of a sequence: "ast", "re", or "" for every other.
Free == [type |-> "free", fold |-> "", is |-> "", xs |-> <<>>, retained |-> FALSE]

Node(type, fold, is, xs) ==
    [type |-> type, fold |-> fold, is |-> is, xs |-> xs, retained |-> FALSE]

Live == {n \in Nodes : node[n].type # "free"}

----------------------------------------------------------------------------

\* mpc_optimise: the parser given is optimised even if it is retained.
CallOf(p) == [p |-> p, parts |-> node[p].xs]
Optimise(p) == walk' = <<CallOf(p)>>

Caller == Head(walk)
P      == node[Caller.p]

\* Bug: only the parser itself is looked at.
VisitNone ==
    /\ walk # <<>> /\ Caller.parts # <<>>
    /\ walk' = <<[Caller EXCEPT !.parts = Tail(@)]>> \o Tail(walk)
    /\ UNCHANGED node

\* First the parts, one after the other.
VisitPart ==
    /\ walk # <<>> /\ Caller.parts # <<>>
    /\ LET part == Head(Caller.parts)
           rest == <<[Caller EXCEPT !.parts = Tail(@)]>> \o Tail(walk)
       IN  walk' = IF node[part].retained THEN rest ELSE <<CallOf(part)>> \o rest
    /\ UNCHANGED node

\* Whether a sequence or an alternative can take over the parts of one of its parts.
Joins(n, part) ==
    /\ node[n].type \in {"or", "and"} /\ (node[n].type = "and" => node[n].fold # "")
    /\ node[part].type = node[n].type /\ node[part].fold = node[n].fold
    /\ ~node[part].retained

JoinsFirst(n) == node[n].xs # <<>> /\ Joins(n, Head(node[n].xs))
JoinsLast(n)  == node[n].xs # <<>> /\ Joins(n, Last(node[n].xs))

\* What a fold ignores: the pass of a rule, the empty string of a regular expression.
Neutral(fold) == IF fold = "ast" THEN "pass" ELSE "lift"

BeginsNeutral(n) ==
    /\ node[n].type = "and" /\ node[n].fold # "" /\ Len(node[n].xs) = 2
    /\ node[Head(node[n].xs)].type = Neutral(node[n].fold)
    /\ ~node[Head(node[n].xs)].retained

\* The parts have been visited: the node is rewritten until nothing is left to do.
Rewriting == walk # <<>> /\ Caller.parts = <<>>

Rewrite(n, xs, part) ==
    /\ node' = [node EXCEPT ![n].xs = xs, ![part] = Free]
    /\ UNCHANGED walk

\* Bug: the array with the parts taken over is not stored in the node.
MergeLastNotStored ==
    /\ Rewriting /\ JoinsLast(Caller.p)
    /\ P.type = "and" => ~BeginsNeutral(Caller.p) /\ ~JoinsFirst(Caller.p)
    /\ UNCHANGED <<node, walk>>

MergeLast ==
    /\ Rewriting /\ JoinsLast(Caller.p)
    /\ P.type = "and" => ~BeginsNeutral(Caller.p) /\ ~JoinsFirst(Caller.p)
    /\ Rewrite(Caller.p, Front(P.xs) \o node[Last(P.xs)].xs, Last(P.xs))

\* Bug: the parts taken over are put behind the others.
MergeFirstBehind ==
    /\ Rewriting /\ JoinsFirst(Caller.p)
    /\ IF P.type = "or" THEN ~JoinsLast(Caller.p) ELSE ~BeginsNeutral(Caller.p)
    /\ Rewrite(Caller.p, Tail(P.xs) \o node[Head(P.xs)].xs, Head(P.xs))

MergeFirst ==
    /\ Rewriting /\ JoinsFirst(Caller.p)
    /\ IF P.type = "or" THEN ~JoinsLast(Caller.p) ELSE ~BeginsNeutral(Caller.p)
    /\ Rewrite(Caller.p, node[Head(P.xs)].xs \o Tail(P.xs), Head(P.xs))

\* Bug: the node that was copied is not freed.
RemoveNeutralKeepsNode ==
    /\ Rewriting /\ BeginsNeutral(Caller.p)
    /\ node' = [node EXCEPT ![Caller.p] = node[P.xs[2]], ![P.xs[1]] = Free]
    /\ UNCHANGED walk

\* The second part is copied over the node, flags included, and its own node freed.
RemoveNeutral ==
    /\ Rewriting /\ BeginsNeutral(Caller.p)
    /\ node' = [node EXCEPT ![Caller.p] = node[P.xs[2]], ![P.xs[1]] = Free, ![P.xs[2]] = Free]
    /\ UNCHANGED walk

NothingToDo(n) == ~JoinsFirst(n) /\ ~JoinsLast(n) /\ ~BeginsNeutral(n)

Return ==
    /\ Rewriting /\ NothingToDo(Caller.p)
    /\ walk' = Tail(walk)
    /\ UNCHANGED node

OptimiseStep == VisitPart \/ MergeLast \/ MergeFirst \/ RemoveNeutral \/ Return
=============================================================================
