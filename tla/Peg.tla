-------------------------------- MODULE Peg --------------------------------
(***************************************************************************)
(* What a parser matches, as a function: the reference that MpcRun is      *)
(* compared with.  A place is [pos, term]; bt says whether a failing       *)
(* parser gets its place back, which mpc_predictive turns off.  A parser   *)
(* that repeats a match of nothing never ends.                             *)
(***************************************************************************)
EXTENDS Integers, Sequences

Yes(place) == [ends |-> TRUE, ok |-> TRUE, at |-> place]
No(place)  == [ends |-> TRUE, ok |-> FALSE, at |-> place]
Never      == [ends |-> FALSE]

Ahead(t, place) == place.pos < Len(t)

\* How many characters of w the text has at a place.
Prefix(t, w, place) ==
    CHOOSE n \in 0..Len(w) :
        /\ \A k \in 1..n : place.pos + k <= Len(t) /\ t[place.pos + k] = w[k]
        /\ n < Len(w) => place.pos + n + 1 > Len(t) \/ t[place.pos + n + 1] # w[n + 1]

On(place, n) == [pos |-> place.pos + n, term |-> place.term]

RECURSIVE Match(_, _, _, _), Times(_, _, _, _, _), InTurn(_, _, _, _), FirstOf(_, _, _, _)

\* p up to n times (without end if n = -1), each from where the last one ended.
Times(t, p, n, place, bt) ==
    IF n = 0 THEN [ends |-> TRUE, done |-> 0, at |-> place]
    ELSE LET m == Match(t, p, place, bt)
         IN  IF ~m.ends \/ (m.ok /\ n < 0 /\ m.at = place) THEN Never
             ELSE IF ~m.ok THEN [ends |-> TRUE, done |-> 0, at |-> m.at]
             ELSE LET r == Times(t, p, n - 1, m.at, bt)
                  IN  IF r.ends THEN [r EXCEPT !.done = @ + 1] ELSE Never

InTurn(t, xs, place, bt) ==
    IF xs = <<>> THEN Yes(place)
    ELSE LET m == Match(t, Head(xs), place, bt)
         IN  IF m.ends /\ m.ok THEN InTurn(t, Tail(xs), m.at, bt) ELSE m

FirstOf(t, xs, place, bt) ==
    IF xs = <<>> THEN No(place)
    ELSE LET m == Match(t, Head(xs), place, bt)
         IN  IF m.ends /\ ~m.ok THEN FirstOf(t, Tail(xs), m.at, bt) ELSE m

\* A failure gives the place back, if backtracking is on.
Back(m, place, bt) == IF m.ends /\ ~m.ok /\ bt THEN No(place) ELSE m

Match(t, p, place, bt) ==
    CASE p.type = "one" ->
           IF Ahead(t, place) /\ t[place.pos + 1] \in p.of
           THEN Yes(On(place, 1)) ELSE No(place)
      [] p.type = "soi"    -> IF place.pos = 0 THEN Yes(place) ELSE No(place)
      [] p.type = "anchor" ->
           IF place.pos > 0 /\ t[place.pos] = p.c THEN Yes(place) ELSE No(place)
      [] p.type = "eoi" ->
           IF place.term = 0 /\ ~Ahead(t, place)
           THEN Yes([place EXCEPT !.term = 1]) ELSE No(place)
      [] p.type = "pass" -> Yes(place)
      [] p.type = "fail" -> No(place)
      [] p.type = "string" ->
           LET n == Prefix(t, p.w, place)
           IN  IF n = Len(p.w) THEN Yes(On(place, n))
               ELSE Back(No(On(place, n)), place, bt)
      [] p.type \in {"apply", "expect"} -> Match(t, p.x, place, bt)
      [] p.type = "check" ->
           LET m == Match(t, p.x, place, bt)
           IN  IF m.ends /\ m.ok /\ ~(m.at.pos > 0 /\ t[m.at.pos] \in p.of)
               THEN No(m.at) ELSE m
      [] p.type = "predict" -> Match(t, p.x, place, FALSE)
      [] p.type = "not" ->
           LET m == Match(t, p.x, place, bt)
           IN  IF ~m.ends THEN m
               ELSE IF m.ok THEN Back(No(m.at), place, bt) ELSE Yes(m.at)
      [] p.type = "maybe" ->
           LET m == Match(t, p.x, place, bt) IN IF m.ends THEN Yes(m.at) ELSE m
      [] p.type \in {"many", "many1"} ->
           LET r == Times(t, p.x, -1, place, bt)
           IN  IF ~r.ends THEN r
               ELSE IF p.type = "many" \/ r.done > 0 THEN Yes(r.at) ELSE No(r.at)
      [] p.type = "count" ->
           LET r == Times(t, p.x, p.n, place, bt)
           IN  IF ~r.ends THEN r
               ELSE IF r.done = p.n THEN Yes(r.at) ELSE No(r.at)
      [] p.type = "or" ->
           IF p.xs = <<>> THEN Yes(place) ELSE FirstOf(t, p.xs, place, bt)
      [] p.type = "and" -> Back(InTurn(t, p.xs, place, bt), place, bt)
=============================================================================
