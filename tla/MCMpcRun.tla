------------------------------ MODULE MCMpcRun ------------------------------
(***************************************************************************)
(* Instances of MpcRun small enough for TLC, and the comparison with Peg.  *)
(* Every parser of up to three levels over a few leaves is run on every    *)
(* text of up to three characters.                                         *)
(***************************************************************************)
EXTENDS MpcMatch, Peg, TLC

CONSTANTS a, nl

MCChars    == {a, nl}
MCTexts    == UNION {[1..n -> MCChars] : n \in 0..3}
MCLiterals == {<<a, nl>>}
MCKinds    == {"string"}

One(of)  == [type |-> "one", of |-> of]
Of(type) == [type |-> type]

Unary(S) ==
    {[type |-> t, x |-> x] : t \in {"apply", "predict", "not", "maybe",
                                    "many", "many1"}, x \in S}
    \cup {[type |-> "expect", x |-> x, m |-> "part"] : x \in S}
    \cup {[type |-> "count", n |-> 2, x |-> x] : x \in S}
    \cup {[type |-> "check", of |-> {a}, x |-> x] : x \in S}

Binary(S, T) ==
    {[type |-> t, xs |-> <<x, y>>] : t \in {"and", "or"}, x \in S, y \in T}

\* mpc_string, like the other constructors, says what it expects.
Literal == [type |-> "expect", x |-> [type |-> "string", w |-> <<a, nl>>], m |-> "literal"]

Leaves     == {One({a}), One({a, nl}), Literal, Of("eoi"), Of("fail")}
SomeLeaves == {One({a}), Literal}
Others ==
    {Of("pass"), Of("soi"), [type |-> "anchor", c |-> nl],
     [type |-> "and", xs |-> <<>>], [type |-> "or", xs |-> <<>>]}

Small == Leaves \cup Others \cup Unary(Leaves \cup Others) \cup Binary(Leaves, Leaves)

Nested ==
    Unary(Small) \cup Binary(Small, SomeLeaves) \cup Binary(SomeLeaves, Small)

MCParsers == Nested \cup Small \cup {Of("pass"), Literal.x}

----------------------------------------------------------------------------

\* What Peg says of a parser keeps the rules of MpcMatch.
MCAnswers(t, p, on, from) ==
    LET m == Match(t, p, from, on) IN IF m.ends THEN {Gives(m.ok, m.at)} ELSE {}

RECURSIVE Along(_, _, _, _, _)

\* How far p gets from where j of its parts have run and the next begins at to.
Along(t, p, on, j, to) ==
    LET m == Match(t, Part(p, j), to, PartOn(p, on))
    IN  {Got(j, to)} \cup
        IF m.ends /\ WantsMore(p, j, m.ok) /\ j < MaxResults
        THEN Along(t, p, on, j + 1, m.at) ELSE {}

MCReaches(t, p, on, from) == IF HasParts(p) THEN Along(t, p, on, 0, from) ELSE {}

\* A parse ends, unless a part that matches nothing is repeated.
ParseEnds == Match(text, root, Origin, TRUE).ends ~> Done
=============================================================================
