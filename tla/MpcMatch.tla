------------------------------ MODULE MpcMatch ------------------------------
(***************************************************************************)
(* What a parser matches, as rules: the reference that MpcRun is proved    *)
(* against.                                                                *)
(*                                                                         *)
(* Answers(t, p, on, from) are the answers p may give where it starts at   *)
(* from in text t, with backtracking on or off: whether it matches, and    *)
(* where it leaves the input.  Reaches(t, p, on, from) says how far p may  *)
(* get through its parts: how many of them have run, and where the next    *)
(* one begins.  Both are any that keep the rules, Closed; what is true of  *)
(* all of them is true of the smallest, the answers that can be derived.   *)
(***************************************************************************)
EXTENDS MpcRun

CONSTANTS Answers(_, _, _, _), Reaches(_, _, _, _)

\* Where the input may be; the end is recorded at the end only.
Spots(t) == {s \in [pos : 0..Len(t), term : {0, 1}] : s.term = 1 => s.pos = Len(t)}

Spot(place) == [pos |-> place.pos, term |-> place.term]

Origin == [pos |-> 0, term |-> 0]

Gives(ok, to) == [ok |-> ok, to |-> to]
Got(j, to)    == [j |-> j, to |-> to]

Past(from, n) == [pos |-> from.pos + n, term |-> from.term]

Before(t, spot) == IF spot.pos = 0 THEN Nul ELSE t[spot.pos]

----------------------------------------------------------------------------
(* Parsers without parts *)

\* The text goes on with n characters of w, and with no more of them.
Spells(t, w, from, n) ==
    \A k \in 1..n : from.pos + k <= Len(t) /\ t[from.pos + k] = w[k]

SpellsOnly(t, w, from, n) ==
    Spells(t, w, from, n) /\ (n < Len(w) => ~Spells(t, w, from, n + 1))

\* A string that fails goes back, if backtracking is on.
StringAnswers(t, w, on, from) ==
    {Gives(n = Len(w), IF n < Len(w) /\ on THEN from ELSE Past(from, n))
     : n \in {m \in 0..Len(w) : SpellsOnly(t, w, from, m)}}

LeafAnswers(t, p, on, from) ==
    CASE p.type = "one" ->
           {IF from.pos < Len(t) /\ t[from.pos + 1] \in p.of
            THEN Gives(TRUE, Past(from, 1)) ELSE Gives(FALSE, from)}
      [] p.type = "soi" -> {Gives(from.pos = 0, from)}
      [] p.type = "anchor" -> {Gives(Before(t, from) = NL, from)}
      [] p.type = "eoi" ->
           {IF from.term = 0 /\ from.pos = Len(t)
            THEN Gives(TRUE, [pos |-> from.pos, term |-> 1]) ELSE Gives(FALSE, from)}
      [] p.type = "pass" \/ Empty(p) -> {Gives(TRUE, from)}
      [] p.type = "fail" -> {Gives(FALSE, from)}
      [] p.type = "string" -> StringAnswers(t, p.w, on, from)
      [] OTHER -> {}

----------------------------------------------------------------------------
(* Parsers with parts *)

HasParts(p) == p.type \in OnePart \/ (p.type \in {"and", "or"} /\ p.xs # <<>>)

\* The part that runs when j have, and whether it backtracks.
Part(p, j)     == IF p.type \in OnePart THEN p.x ELSE p.xs[j + 1]
PartOn(p, on)  == on /\ p.type # "predict"

\* With the answer ok of that part, another one is to be run.
WantsMore(p, j, ok) ==
    \/ p.type \in {"many", "many1"} /\ ok
    \/ p.type = "count" /\ ok /\ j + 1 # p.n
    \/ p.type = "and" /\ ok /\ j + 1 < Len(p.xs)
    \/ p.type = "or" /\ ~ok /\ j + 1 < Len(p.xs)

\* Otherwise this is what p makes of it, where the part has left the input at to.
Verdict(t, p, j, ok, to) ==
    CASE p.type = "check"             -> ok /\ Before(t, to) \in p.of
      [] p.type = "not"               -> ~ok
      [] p.type \in {"maybe", "many"} -> TRUE
      [] p.type = "many1"             -> j > 0
      [] OTHER                        -> ok

\* Only a not and a sequence that fail go back to where they began.
LeftAt(p, on, from, ok, to) ==
    IF ~ok /\ on /\ p.type \in {"not", "and"} THEN from ELSE to

----------------------------------------------------------------------------
(* The rules *)

\* A parser without parts gives its answer; one with parts begins where it is called.
Starts(t, p, on, from) ==
    /\ LeafAnswers(t, p, on, from) \subseteq Answers(t, p, on, from)
    /\ HasParts(p) => Got(0, from) \in Reaches(t, p, on, from)

\* The answer of its part takes a parser to the next part or to an answer of its own.
Continues(t, p, on, from) ==
    HasParts(p) =>
        \A g \in Reaches(t, p, on, from) :
            \A a \in Answers(t, Part(p, g.j), PartOn(p, on), g.to) :
                IF WantsMore(p, g.j, a.ok)
                THEN (p.type \in {"many", "many1"} => g.j < MaxResults)
                        => Got(g.j + 1, a.to) \in Reaches(t, p, on, from)
                ELSE LET ok == Verdict(t, p, g.j, a.ok, a.to)
                     IN  Gives(ok, LeftAt(p, on, from, ok, a.to)) \in Answers(t, p, on, from)

ASSUME Closed ==
    \A t \in Texts, p \in Parsers, on \in BOOLEAN :
        \A from \in Spots(t) : Starts(t, p, on, from) /\ Continues(t, p, on, from)

----------------------------------------------------------------------------
(* Property *)

\* The stack machine of marks, rewinds and switched-off backtracking answers what the
\* parser means and leaves the input where it means to, unless the input is a pipe.
AnswersAsMeant ==
    kind # "pipe" =>
        \A o \in out : Done =>
            Gives(o.ok, Spot(at)) \in Answers(text, root, TRUE, Origin)
=============================================================================
