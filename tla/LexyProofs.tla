----------------------------- MODULE LexyProofs -----------------------------
(* Proofs about Lexy and Eval, for any programs. *)
EXTENDS LispRules, Facts, FiniteSetTheorems

----------------------------------------------------------------------------
(* Calls and environments *)

Bodies(s) == {i \in 1..Len(s) : s[i].what = "body"}
CallsIn(s) == Cardinality(Bodies(s))

LEMMA BodiesCount ==
    ASSUME NEW F, NEW s \in Seq(F)
    PROVE  IsFiniteSet(Bodies(s)) /\ CallsIn(s) \in Nat
<1>1. IsFiniteSet(1..Len(s))
  BY FS_Interval
<1>2. IsFiniteSet(Bodies(s))
  BY <1>1, FS_Subset DEF Bodies
<1> QED BY <1>2, FS_CardinalityType DEF CallsIn

LEMMA CallsPushed ==
    ASSUME NEW F, NEW s \in Seq(F), NEW fr
    PROVE  CallsIn(Append(s, fr)) = IF fr.what = "body" THEN CallsIn(s) + 1 ELSE CallsIn(s)
<1> DEFINE t == Append(s, fr)
           n == Len(s)
<1>1. /\ n \in Nat /\ Len(t) = n + 1 /\ t[n + 1] = fr
      /\ \A i \in 1..n : t[i] = s[i]
  OBVIOUS
<1> HIDE DEF t
<1>2. CASE fr.what = "body"
  <2>1. Bodies(t) = Bodies(s) \cup {n + 1}
    BY <1>1, <1>2 DEF Bodies
  <2>2. n + 1 \notin Bodies(s) /\ IsFiniteSet(Bodies(s))
    BY <1>1, BodiesCount DEF Bodies
  <2> QED BY <1>2, <2>1, <2>2, FS_AddElement DEF CallsIn, t
<1>3. CASE fr.what # "body"
  <2>1. Bodies(t) = Bodies(s)
    BY <1>1, <1>3 DEF Bodies
  <2> QED BY <1>3, <2>1 DEF CallsIn, t
<1> QED BY <1>2, <1>3

LEMMA CallsPopped ==
    ASSUME NEW F, NEW s \in Seq(F), s # <<>>
    PROVE  /\ Front(s) \in Seq(F)
           /\ CallsIn(s) = IF s[Len(s)].what = "body" THEN CallsIn(Front(s)) + 1
                         ELSE CallsIn(Front(s))
<1> DEFINE t == Front(s)
           n == Len(s)
<1>1. /\ n \in Nat \ {0} /\ t \in Seq(F) /\ Len(t) = n - 1
      /\ \A i \in 1..(n - 1) : t[i] = s[i]
  BY FrontFacts DEF Front
<1> HIDE DEF t
<1>2. CASE s[n].what = "body"
  <2>1. Bodies(s) = Bodies(t) \cup {n}
    BY <1>1, <1>2 DEF Bodies
  <2>2. n \notin Bodies(t) /\ IsFiniteSet(Bodies(t))
    BY <1>1, BodiesCount DEF Bodies
  <2> QED BY <1>1, <1>2, <2>1, <2>2, FS_AddElement DEF CallsIn, t
<1>3. CASE s[n].what # "body"
  <2>1. Bodies(t) = Bodies(s)
    BY <1>1, <1>3 DEF Bodies
  <2> QED BY <1>1, <1>3, <2>1 DEF CallsIn, t
<1> QED BY <1>2, <1>3

LEMMA CallsOfNew ==
    ASSUME NEW a, NEW b, a.what # "body", b.what # "body"
    PROVE  CallsIn(<<>>) = 0 /\ CallsIn(<<a>>) = 0 /\ CallsIn(<<a, b>>) = 0
<1>1. Bodies(<<>>) = {} /\ Bodies(<<a>>) = {}
  BY DEF Bodies
<1>2. Bodies(<<a, b>>) = {}
  <2> DEFINE s == <<a, b>>
  <2>1. Len(s) = 2 /\ s[1] = a /\ s[2] = b
    OBVIOUS
  <2> HIDE DEF s
  <2>2. \A i \in 1..2 : i = 1 \/ i = 2
    OBVIOUS
  <2> QED BY <2>1, <2>2 DEF Bodies, s
<1> QED BY <1>1, <1>2, FS_EmptySet DEF CallsIn

\* The expressions of -e are evaluated below nothing else.
CodeFirst(s) == \A i \in 1..Len(s) : s[i].what = "code" => i = 1

LEMMA CodeFirstPushed ==
    ASSUME NEW F, NEW s \in Seq(F), CodeFirst(s), NEW fr, fr.what # "code"
    PROVE  CodeFirst(Append(s, fr))
<1> DEFINE t == Append(s, fr)
           n == Len(s)
<1>1. n \in Nat /\ Len(t) = n + 1 /\ t[n + 1] = fr /\ \A i \in 1..n : t[i] = s[i]
  OBVIOUS
<1> HIDE DEF t
<1> QED BY <1>1 DEF CodeFirst, t

LEMMA CodeFirstPopped ==
    ASSUME NEW F, NEW s \in Seq(F), s # <<>>, CodeFirst(s)
    PROVE  CodeFirst(Front(s))
<1> DEFINE t == Front(s)
           n == Len(s)
<1>1. n \in Nat \ {0} /\ Len(t) = n - 1 /\ \A i \in 1..(n - 1) : t[i] = s[i]
  BY FrontFacts DEF Front
<1> HIDE DEF t
<1> QED BY <1>1 DEF CodeFirst, t

\* As many environments below the root as there are calls.
NestOf(c, s) ==
    /\ \E S : c \in Seq(S)
    /\ \E F : s \in Seq(F)
    /\ CodeFirst(s)
    /\ Len(c) = 1 + CallsIn(s)

Nested == NestOf(chain, stack)

LEMMA NestedPush ==
    ASSUME NEW c, NEW s, NestOf(c, s), NEW fr, fr.what \notin {"body", "code"}
    PROVE  NestOf(c, Append(s, fr))
<1>1. PICK F : s \in Seq(F)
  BY DEF NestOf
<1>2. Append(s, fr) \in Seq(F \cup {fr})
  <2>1. s \in Seq(F \cup {fr})
    BY <1>1, SeqMonotonic
  <2> QED BY <2>1
<1>3. CallsIn(Append(s, fr)) = CallsIn(s)
  BY <1>1, CallsPushed
<1>4. CodeFirst(Append(s, fr))
  BY <1>1, CodeFirstPushed DEF NestOf
<1> QED BY <1>2, <1>3, <1>4 DEF NestOf

LEMMA NestedPop ==
    ASSUME NEW c, NEW s, NestOf(c, s), s # <<>>, s[Len(s)].what # "body"
    PROVE  NestOf(c, Front(s))
<1>1. PICK F : s \in Seq(F)
  BY DEF NestOf
<1> QED BY <1>1, CallsPopped, CodeFirstPopped DEF NestOf

LEMMA NestedReplace ==
    ASSUME NEW c, NEW s, NestOf(c, s), s # <<>>, s[Len(s)].what # "body",
           NEW fr, fr.what \notin {"body", "code"}
    PROVE  NestOf(c, Append(Front(s), fr))
BY NestedPop, NestedPush

LEMMA NestedEnter ==
    ASSUME NEW c, NEW s, NestOf(c, s), s # <<>>, s[Len(s)].what # "body",
           NEW e, NEW fr, fr.what = "body"
    PROVE  NestOf(Append(c, e), Append(Front(s), fr))
<1> DEFINE t == Front(s)
<1>1. NestOf(c, t)
  BY NestedPop
<1> HIDE DEF t
<1>2. PICK S, F : c \in Seq(S) /\ t \in Seq(F)
  BY <1>1 DEF NestOf
<1>3. Append(c, e) \in Seq(S \cup {e}) /\ Len(Append(c, e)) = Len(c) + 1
  <2>1. c \in Seq(S \cup {e})
    BY <1>2, SeqMonotonic
  <2> QED BY <2>1
<1>4. Append(t, fr) \in Seq(F \cup {fr})
  <2>1. t \in Seq(F \cup {fr})
    BY <1>2, SeqMonotonic
  <2> QED BY <2>1
<1>5. CallsIn(Append(t, fr)) = CallsIn(t) + 1 /\ CallsIn(t) \in Nat
  BY <1>2, CallsPushed, BodiesCount
<1>6. Len(Append(c, e)) = 1 + CallsIn(Append(t, fr))
  BY <1>1, <1>3, <1>5 DEF NestOf
<1>7. CodeFirst(Append(t, fr))
  BY <1>1, <1>2, CodeFirstPushed DEF NestOf
<1> QED BY <1>3, <1>4, <1>6, <1>7 DEF NestOf, t

LEMMA NestedLeave ==
    ASSUME NEW c, NEW s, NestOf(c, s), s # <<>>, s[Len(s)].what = "body"
    PROVE  NestOf(Front(c), Front(s)) /\ Len(c) \in Nat /\ Len(c) >= 2
<1> DEFINE t == Front(s)
<1>1. PICK S, F : c \in Seq(S) /\ s \in Seq(F)
  BY DEF NestOf
<1>2. t \in Seq(F) /\ CallsIn(s) = CallsIn(t) + 1
  BY <1>1, CallsPopped
<1> HIDE DEF t
<1>3. CallsIn(t) \in Nat
  BY <1>2, BodiesCount
<1>4. Len(c) = CallsIn(t) + 2
  BY <1>2, <1>3 DEF NestOf
<1>5. c # <<>>
  BY <1>3, <1>4
<1>6. Front(c) \in Seq(S) /\ Len(Front(c)) = Len(c) - 1
  BY <1>1, <1>5, FrontFacts DEF Front
<1>7. Len(Front(c)) = 1 + CallsIn(t)
  BY <1>3, <1>4, <1>6
<1>8. CodeFirst(t)
  BY <1>1, CodeFirstPopped DEF NestOf, t
<1> QED BY <1>2, <1>3, <1>4, <1>6, <1>7, <1>8, SMTT(20), ZenonT(40) DEF NestOf, t

LEMMA NestedNew ==
    ASSUME NEW c, NestOf(c, <<>>), NEW a, NEW b, a.what # "body",
           b.what \notin {"body", "code"}
    PROVE  NestOf(c, <<a>>) /\ NestOf(c, <<a, b>>)
<1>1. <<a>> \in Seq({a, b}) /\ <<a, b>> \in Seq({a, b})
  OBVIOUS
<1>2. CallsIn(<<a>>) = CallsIn(<<>>) /\ CallsIn(<<a, b>>) = CallsIn(<<>>)
  BY CallsOfNew
<1>3. CodeFirst(<<a>>) /\ CodeFirst(<<a, b>>)
  <2> DEFINE s == <<a, b>>
  <2>1. Len(s) = 2 /\ s[2] = b
    OBVIOUS
  <2> HIDE DEF s
  <2>2. \A i \in 1..2 : i = 1 \/ i = 2
    OBVIOUS
  <2>3. CodeFirst(s)
    BY <2>1, <2>2 DEF CodeFirst
  <2>4. CodeFirst(<<a>>)
    BY DEF CodeFirst
  <2> QED BY <2>3, <2>4 DEF s
<1> QED BY <1>1, <1>2, <1>3 DEF NestOf

LEMMA NestedWrite ==
    ASSUME NEW c, NEW s, NestOf(c, s), NEW d, NEW e
    PROVE  NestOf([c EXCEPT ![d] = e], s)
<1>1. PICK S : c \in Seq(S)
  BY DEF NestOf
<1> DEFINE g == [c EXCEPT ![d] = e]
<1>2. DOMAIN g = 1..Len(c) /\ Len(c) \in Nat /\ \A i \in 1..Len(c) : g[i] \in S \cup {e}
  BY <1>1
<1>3. g = [i \in 1..Len(c) |-> g[i]]
  OBVIOUS
<1> HIDE DEF g
<1>4. g \in Seq(S \cup {e}) /\ Len(g) = Len(c)
  BY <1>2, <1>3
<1> QED BY <1>4 DEF NestOf, g

LEMMA NestedInit == Init => Nested
<1> SUFFICES ASSUME Init PROVE Nested
  OBVIOUS
<1>1. chain = <<lenv_init>> /\ stack = <<>>
  BY DEF Init, NewEvaluation
<1> DEFINE e == lenv_init
<1>2. <<e>> \in Seq({e}) /\ Len(<<e>>) = 1 /\ <<>> \in Seq({e})
  OBVIOUS
<1>4. CodeFirst(<<>>)
  BY DEF CodeFirst
<1>3. CallsIn(<<>>) = 0
  <2>1. Script.what # "body"
    BY DEF Script
  <2> QED BY <2>1, CallsOfNew
<1> HIDE DEF e
<1>5. NestOf(<<e>>, <<>>)
  <2> DEFINE none == <<>>
             c == <<e>>
  <2>1. \E S : c \in Seq(S)
    BY <1>2
  <2>2. \E F : none \in Seq(F)
    BY <1>2
  <2>3. Len(c) = 1 + CallsIn(none) /\ CodeFirst(none)
    BY <1>2, <1>3, <1>4
  <2> HIDE DEF none, c
  <2>4. NestOf(c, none)
    BY <2>1, <2>2, <2>3 DEF NestOf
  <2> QED BY <2>4 DEF none, c
<1> QED BY <1>1, <1>5 DEF Nested, e

\* The frames of the command line and of loading are no calls.
LEMMA NoBody ==
    /\ \A list, at : Cells(list, at).what \notin {"body", "code"}
    /\ \A rest : Load(rest).what \notin {"body", "code"}
    /\ \A rest, err : Code(rest, err).what # "body"
    /\ Script.what \notin {"body", "code"} /\ Line.what \notin {"body", "code"}
    /\ Body.what = "body"
BY DEF Cells, Load, Code, Script, Line, Body

LEMMA NestedEvaluates == Nested /\ Evaluates => Nested'
<1> SUFFICES ASSUME Nested, Evaluates PROVE Nested'
  OBVIOUS
<1> DEFINE Popped == stack # <<>> /\ stack[Len(stack)].what # "body" /\ stack' = Front(stack)
           Kind(what) == stack # <<>> /\ stack[Len(stack)].what = what
<1>1. CASE UNCHANGED <<chain, stack>>
  BY <1>1 DEF Nested, NestOf
<1>2. CASE UNCHANGED chain /\ Popped
  BY <1>2, NestedPop DEF Nested
<1>3. ASSUME UNCHANGED chain, Kind("cells") \/ Kind("load"),
             NEW fr, fr.what \notin {"body", "code"}, stack' = Append(Front(stack), fr)
      PROVE  Nested'
  BY <1>3, NestedReplace DEF Nested
<1>4. \A what : Giving(what) => Kind(what)
  BY DEF Giving, Top
<1>5. AllCells => Kind("cells")
  BY <1>4 DEF AllCells
<1>6. \A b : Calls(b) => Kind("cells")
  BY <1>5 DEF Calls, Applies
<1>7. CASE EvalSymbol \/ EvalSelf
  BY <1>1, <1>7 DEF EvalSymbol, EvalSelf
<1>8. CASE EvalList
  <2>1. NestOf(chain, Append(stack, Cells(ctl.v, 1)))
    BY NestedPush, NoBody DEF Nested
  <2> QED BY <1>8, <2>1 DEF EvalList, Push, Nested
<1>9. CASE NextCell
  <2>1. /\ UNCHANGED chain /\ Kind("cells")
        /\ stack' = Append(Front(stack), Cells(List, Top.at + 1))
    BY <1>4, <1>9 DEF NextCell, Pop
  <2> QED BY <1>3, <2>1, NoBody
<1>10. CASE FirstError \/ Single \/ NotAFunction
  BY <1>2, <1>5, <1>10 DEF FirstError, Single, NotAFunction, Applies, Pop
<1>11. CASE CallComputing \/ CallEval \/ CallIf \/ CallPrint \/ CallFails \/ PartialCall
  BY <1>2, <1>6, <1>11
     DEF CallComputing, CallEval, CallIf, CallPrint, CallFails, PartialCall, Pop
<1>12. CASE CallDefine
  <2>1. PICK b \in Definers :
           /\ Calls(b)
           /\ chain' = [chain EXCEPT ![DefinerFrame(b)] =
                            btinfn_define(chain[DefinerFrame(b)], Args, b).env]
    BY <1>12 DEF CallDefine
  <2>2. Popped
    BY <1>6, <1>12, <2>1 DEF CallDefine, Pop
  <2>3. NestOf(chain, stack')
    BY <2>2, NestedPop DEF Nested
  <2> QED BY <2>1, <2>3, NestedWrite DEF Nested
<1>13. CASE CallLoad
  <2>1. UNCHANGED chain /\ Kind("cells")
    BY <1>6, <1>13 DEF CallLoad
  <2>2. CASE stack' = Front(stack)
    BY <1>2, <2>1, <2>2
  <2>3. CASE stack' # Front(stack)
    <3>1. stack' = Append(Front(stack), Load(Library[Args.cell[1].string]))
      BY <1>13, <2>3 DEF CallLoad, Pop
    <3> QED BY <1>3, <2>1, <3>1, NoBody
  <2> QED BY <2>2, <2>3
<1>14. CASE Enter
  <2>1. /\ Kind("cells") /\ chain' = Append(chain, Bound.fun.environment)
        /\ stack' = Append(Front(stack), Body)
    BY <1>6, <1>14 DEF Enter, Pop
  <2> QED BY <2>1, NestedEnter, NoBody DEF Nested
<1>15. CASE Leave
  <2>1. Kind("body") /\ chain' = Front(chain) /\ stack' = Front(stack)
    BY <1>4, <1>15 DEF Leave, Pop
  <2> QED BY <2>1, NestedLeave DEF Nested
<1>16. CASE LoadNext
  <2>1. /\ UNCHANGED chain /\ Kind("load")
        /\ stack' = Append(Front(stack), Load(Tail(Top.rest)))
    BY <1>4, <1>16 DEF LoadNext, Pop
  <2> QED BY <1>3, <2>1, NoBody
<1>17. CASE LoadDone
  BY <1>2, <1>4, <1>17 DEF LoadDone, Pop
<1> QED BY <1>7, <1>8, <1>9, <1>10, <1>11, <1>12, <1>13, <1>14, <1>15, <1>16, <1>17
        DEF Evaluates

LEMMA NestedNext == Nested /\ [Next]_vars => Nested'
<1> SUFFICES ASSUME Nested, [Next]_vars PROVE Nested'
  OBVIOUS
<1>1. CASE UNCHANGED <<chain, stack>>
  BY <1>1 DEF Nested, NestOf
<1>2. ASSUME UNCHANGED chain, stack # <<>>, stack[Len(stack)].what # "body",
             stack' = Front(stack)
      PROVE  Nested'
  BY <1>2, NestedPop DEF Nested
<1>3. CASE Evaluates
  BY <1>3, NestedEvaluates
<1>4. CASE UNCHANGED vars
  BY <1>1, <1>4 DEF vars, evaluation
<1>5. CASE Option \/ OptionsEnd
  BY <1>1, <1>5 DEF Option, OptionsEnd, evaluation
<1>6. \A how : Reads(how) => UNCHANGED chain /\ NestOf(chain, <<>>)
  BY DEF Reads, Nested
<1>7. CASE RunScript
  <2>1. UNCHANGED chain /\ NestOf(chain, <<>>)
    BY <1>6, <1>7 DEF RunScript
  <2>2. CASE stack' = <<Script>>
    BY <2>1, <2>2, NestedNew, NoBody DEF Nested
  <2>3. CASE \E cells \in Head(lines) : stack' = <<Script, Load(cells)>>
    <3>1. PICK cells : stack' = <<Script, Load(cells)>>
      BY <2>3
    <3>2. NestOf(chain, <<Script, Load(cells)>>)
      BY <2>1, NestedNew, NoBody
    <3> QED BY <2>1, <3>1, <3>2 DEF Nested
  <2> QED BY <1>7, <2>2, <2>3 DEF RunScript
<1>8. CASE RunCode
  <2>1. UNCHANGED chain /\ NestOf(chain, <<>>)
    BY <1>6, <1>8 DEF RunCode
  <2>2. PICK rest, err : stack' = <<Code(rest, err)>>
    BY <1>8 DEF RunCode
  <2> DEFINE fr == Code(rest, err)
  <2>3. fr.what # "body"
    BY NoBody
  <2> HIDE DEF fr
  <2>4. NestOf(chain, <<fr>>)
    BY <2>1, <2>3, NestedNew, NoBody
  <2> QED BY <2>1, <2>2, <2>4 DEF Nested, fr
<1>9. CASE RunLine
  <2>1. UNCHANGED chain /\ NestOf(chain, <<>>) /\ stack' = <<Line>>
    BY <1>6, <1>9 DEF RunLine
  <2>2. NestOf(chain, <<Line>>)
    BY <2>1, NestedNew, NoBody
  <2> QED BY <2>1, <2>2 DEF Nested
<1>10. CASE CodeNext
  <2>1. /\ UNCHANGED chain /\ stack # <<>> /\ stack[Len(stack)].what = "code"
        /\ stack' = <<Code(Tail(Top.rest), Kept)>>
    BY <1>10 DEF CodeNext, Giving, Top
  <2>2. PICK F : stack \in Seq(F)
    BY DEF Nested, NestOf
  <2>3. Len(stack) = 1
    BY <2>1, <2>2 DEF Nested, NestOf, CodeFirst
  <2>4. Front(stack) = <<>>
    <3>1. Front(stack) \in Seq(F) /\ Len(Front(stack)) = 0
      BY <2>1, <2>2, <2>3, FrontFacts DEF Front
    <3> QED BY <3>1
  <2>5. NestOf(chain, <<>>)
    BY <2>1, <2>4, NestedPop DEF Nested
  <2> DEFINE fr == Code(Tail(Top.rest), Kept)
  <2>6. fr.what # "body"
    BY NoBody
  <2> HIDE DEF fr
  <2>7. NestOf(chain, <<fr>>)
    BY <2>5, <2>6, NestedNew, NoBody
  <2> QED BY <2>1, <2>7 DEF Nested, fr
<1>11. CASE ScriptDone \/ CodeDone \/ LineDone
  BY <1>2, <1>11 DEF ScriptDone, CodeDone, LineDone, Giving, Top, Pop
<1> QED BY <1>3, <1>4, <1>5, <1>7, <1>8, <1>9, <1>10, <1>11 DEF Next

\* Environments are hung up and taken down with the calls they belong to, whatever
\* errors, nested calls and loads happen inside: eval.c:461-589.
THEOREM EnvironmentsNest == Spec => []CallsNest
<1>1. Nested => CallsNest
  BY DEF Nested, NestOf, CallsNest, CallsIn, Bodies, Here
<1> QED BY <1>1, NestedInit, NestedNext, PTL DEF Spec

----------------------------------------------------------------------------
(* Values *)

Conditions == {"unset", "dynamic", "constant"}

\* What an environment binds, in V, needs no further evaluation.
Settled(env, V) == \A s \in DOMAIN env : env[s] \in V /\ Final(env[s]) /\ ~IsErr(env[s])

\* A value with the fields of its type, its parts in V.
Fits(v, V) ==
    /\ "type" \in DOMAIN v /\ "cond" \in DOMAIN v /\ v.cond \in Conditions
    /\ v.type = "num" => "number" \in DOMAIN v
    /\ v.type = "fun" => "builtin" \in DOMAIN v
    /\ v.type \in {"sexpr", "qexpr"} => "cell" \in DOMAIN v /\ v.cell \in Seq(V)
    /\ IsLambda(v) =>
          /\ "formals" \in DOMAIN v /\ "body" \in DOMAIN v /\ "environment" \in DOMAIN v
          /\ v.formals \in V /\ v.formals.type = "qexpr"
          /\ v.body \in V /\ v.body.type = "qexpr"
          /\ Settled(v.environment, V)

\* V has the parts of its values, whatever their condition.
Sound(V) == \A v \in V : Fits(v, V) /\ \A c \in Conditions : [v EXCEPT !.cond = c] \in V

LEMMA CondExcept ==
    ASSUME NEW v, "type" \in DOMAIN v, "cond" \in DOMAIN v, NEW c
    PROVE  /\ [v EXCEPT !.cond = c].type = v.type /\ [v EXCEPT !.cond = c].cond = c
           /\ DOMAIN [v EXCEPT !.cond = c] = DOMAIN v
           /\ \A f \in DOMAIN v : f # "cond" => [v EXCEPT !.cond = c][f] = v[f]
OBVIOUS

Conditioned(v, c) == [v EXCEPT !.cond = c]

LEMMA CondTwice ==
    ASSUME NEW v, NEW c, NEW d
    PROVE  Conditioned(Conditioned(v, c), d) = Conditioned(v, d)
BY DEF Conditioned

LEMMA CondFits ==
    ASSUME NEW V, NEW v, Fits(v, V), NEW c \in Conditions
    PROVE  /\ Fits([v EXCEPT !.cond = c], V)
           /\ Final([v EXCEPT !.cond = c]) <=> Final(v)
           /\ IsErr([v EXCEPT !.cond = c]) <=> IsErr(v)
<1> DEFINE w == [v EXCEPT !.cond = c]
<1>1. w.type = v.type /\ w.cond = c /\ DOMAIN w = DOMAIN v
      /\ \A f \in DOMAIN v : f # "cond" => w[f] = v[f]
  BY CondExcept DEF Fits
<1> HIDE DEF w
<1>2. v.type \in {"sexpr", "qexpr"} => w.cell = v.cell
  BY <1>1 DEF Fits
<1>3. IsLambda(w) <=> IsLambda(v)
  BY <1>1 DEF Fits, IsLambda
<1>4. (Final(w) <=> Final(v)) /\ (IsErr(w) <=> IsErr(v))
  BY <1>1, <1>2 DEF Final, IsErr
<1>5. IsLambda(v) => w.formals = v.formals /\ w.body = v.body /\ w.environment = v.environment
  BY <1>1 DEF Fits
<1>6. Fits(w, V)
  BY <1>1, <1>2, <1>3, <1>5 DEF Fits
<1> QED BY <1>4, <1>6 DEF w

LEMMA FitsMore ==
    ASSUME NEW V, NEW W, V \subseteq W, NEW v, Fits(v, V)
    PROVE  Fits(v, W)
<1>1. v.type \in {"sexpr", "qexpr"} => v.cell \in Seq(W)
  BY SeqMonotonic DEF Fits
<1> QED BY <1>1 DEF Fits, Settled

\* A set with the parts of its values grows into one that has them whatever their
\* condition.
LEMMA Closing ==
    ASSUME NEW U, \A u \in U : Fits(u, U)
    PROVE  \E W : Sound(W) /\ U \subseteq W
<1> DEFINE W == U \cup {[u EXCEPT !.cond = c] : u \in U, c \in Conditions}
<1>1. U \subseteq W
  OBVIOUS
<1>2. ASSUME NEW w \in W PROVE Fits(w, W)
  <2>1. Fits(w, U)
    BY <1>2, CondFits
  <2> HIDE DEF W
  <2> QED BY <1>1, <2>1, FitsMore
<1>3. ASSUME NEW w \in W, NEW c \in Conditions PROVE [w EXCEPT !.cond = c] \in W
  <2>1. CASE w \in U
    BY <2>1
  <2>2. CASE w \in {[u EXCEPT !.cond = d] : u \in U, d \in Conditions}
    <3>1. PICK u \in U, d \in Conditions : w = [u EXCEPT !.cond = d]
      BY <2>2
    <3>2. Conditioned(Conditioned(u, d), c) = Conditioned(u, c)
      BY CondTwice
    <3>3. [w EXCEPT !.cond = c] = Conditioned(Conditioned(u, d), c)
      BY <3>1 DEF Conditioned
    <3>4. Conditioned(u, c) \in W
      BY DEF Conditioned
    <3> QED BY <3>2, <3>3, <3>4
  <2> QED BY <2>1, <2>2
<1>4. Sound(W)
  <2> HIDE DEF W
  <2> QED BY <1>2, <1>3 DEF Sound
<1> QED BY <1>1, <1>4

\* A value joins its parts.
LEMMA Joining ==
    ASSUME NEW V, Sound(V), NEW v, Fits(v, V)
    PROVE  \E W : Sound(W) /\ V \subseteq W /\ v \in W
<1> DEFINE U == V \cup {v}
<1>1. \A u \in U : Fits(u, V)
  BY DEF Sound
<1>2. V \subseteq U /\ v \in U
  OBVIOUS
<1> HIDE DEF U
<1>3. \A u \in U : Fits(u, U)
  BY <1>1, <1>2, FitsMore
<1>4. PICK W : Sound(W) /\ U \subseteq W
  BY <1>3, Closing
<1> QED BY <1>2, <1>4

LEMMA FieldExcept ==
    ASSUME NEW v, "type" \in DOMAIN v, "cond" \in DOMAIN v, NEW x
    PROVE  /\ "cell" \in DOMAIN v =>
                /\ DOMAIN [v EXCEPT !.cell = x] = DOMAIN v /\ [v EXCEPT !.cell = x].cell = x
                /\ [v EXCEPT !.cell = x].type = v.type /\ [v EXCEPT !.cell = x].cond = v.cond
           /\ "number" \in DOMAIN v =>
                /\ DOMAIN [v EXCEPT !.number = x] = DOMAIN v
                /\ [v EXCEPT !.number = x].type = v.type /\ [v EXCEPT !.number = x].cond = v.cond
           /\ DOMAIN [v EXCEPT !.type = x] = DOMAIN v /\ [v EXCEPT !.type = x].type = x
           /\ [v EXCEPT !.type = x].cond = v.cond
           /\ "cell" \in DOMAIN v => [v EXCEPT !.type = x].cell = v.cell
OBVIOUS

\* What evaluation may give.
Answer(v, V) == Fits(v, V) /\ Final(v)

LEMMA Plain ==
    ASSUME NEW V
    PROVE  /\ \A e : Answer(lval_err(e), V) /\ IsErr(lval_err(e))
           /\ \A n : Answer(lval_num(n), V) /\ ~IsErr(lval_num(n))
           /\ Answer(lval_sexpr(<<>>), V) /\ ~IsErr(lval_sexpr(<<>>))
           /\ Answer(lval_qexpr(<<>>), V) /\ ~IsErr(lval_qexpr(<<>>))
<1>1. ASSUME NEW e PROVE Answer(lval_err(e), V) /\ IsErr(lval_err(e))
  BY DEF Answer, Fits, Final, IsErr, IsLambda, Conditions, lval_err
<1>2. ASSUME NEW n PROVE Answer(lval_num(n), V) /\ ~IsErr(lval_num(n))
  BY DEF Answer, Fits, Final, IsErr, IsLambda, Conditions, lval_num
<1>3. Answer(lval_sexpr(<<>>), V) /\ ~IsErr(lval_sexpr(<<>>))
  BY DEF Answer, Fits, Final, IsErr, IsLambda, Conditions, lval_sexpr
<1>4. Answer(lval_qexpr(<<>>), V) /\ ~IsErr(lval_qexpr(<<>>))
  BY DEF Answer, Fits, Final, IsErr, IsLambda, Conditions, lval_qexpr
<1> QED BY <1>1, <1>2, <1>3, <1>4

\* A list whose cells are given a new content.
LEMMA Refilled ==
    ASSUME NEW V, NEW v, Fits(v, V), v.type \in {"sexpr", "qexpr"}, NEW xs \in Seq(V)
    PROVE  /\ Fits([v EXCEPT !.cell = xs], V)
           /\ [v EXCEPT !.cell = xs].type = v.type /\ [v EXCEPT !.cell = xs].cell = xs
<1> DEFINE w == [v EXCEPT !.cell = xs]
<1>1. w.type = v.type /\ w.cond = v.cond /\ w.cell = xs /\ DOMAIN w = DOMAIN v
  BY FieldExcept DEF Fits
<1> HIDE DEF w
<1>2. Fits(w, V)
  BY <1>1 DEF Fits, IsLambda
<1> QED BY <1>1, <1>2 DEF w

\* A list quoted, or one to evaluate.
LEMMA Retyped ==
    ASSUME NEW V, NEW v, Fits(v, V), v.type \in {"sexpr", "qexpr"},
           NEW t \in {"sexpr", "qexpr"}
    PROVE  /\ Fits([v EXCEPT !.type = t], V)
           /\ [v EXCEPT !.type = t].type = t /\ [v EXCEPT !.type = t].cell = v.cell
<1> DEFINE w == [v EXCEPT !.type = t]
<1>1. w.type = t /\ w.cond = v.cond /\ w.cell = v.cell /\ DOMAIN w = DOMAIN v
  BY FieldExcept DEF Fits
<1> HIDE DEF w
<1>2. Fits(w, V)
  BY <1>1 DEF Fits, IsLambda
<1> QED BY <1>1, <1>2 DEF w

\* The evaluated arguments of a call.
Ready(args, V) ==
    /\ Fits(args, V) /\ args.type = "sexpr" /\ args.cell # <<>>
    /\ \A i \in 1..Len(args.cell) : Final(args.cell[i]) /\ ~IsErr(args.cell[i])

LEMMA ReadyFacts ==
    ASSUME NEW V, Sound(V), NEW args, Ready(args, V)
    PROVE  /\ args.cell \in Seq(V) /\ Len(args.cell) \in Nat \ {0}
           /\ \A i \in 1..Len(args.cell) : args.cell[i] \in V /\ Fits(args.cell[i], V)
<1>1. args.cell \in Seq(V) /\ args.cell # <<>>
  BY DEF Ready, Fits
<1>2. Len(args.cell) \in Nat \ {0} /\ \A i \in 1..Len(args.cell) : args.cell[i] \in V
  BY <1>1
<1> QED BY <1>1, <1>2 DEF Sound

LEMMA NumbersAnswer ==
    ASSUME NEW V, Sound(V), NEW args, Ready(args, V), NEW op
    PROVE  Answer(builtin_numop(args, op), V)
<1>1. \A e : Answer(lval_err(e), V)
  BY Plain
<1> DEFINE first == args.cell[1]
<1>2. ASSUME AllTyped(args, "num"), NEW n PROVE Answer([first EXCEPT !.number = n], V)
  <2>1. Fits(first, V) /\ first.type = "num"
    BY <1>2, ReadyFacts DEF AllTyped
  <2> DEFINE w == [first EXCEPT !.number = n]
  <2> HIDE DEF first
  <2>2. w.type = "num" /\ w.cond = first.cond /\ DOMAIN w = DOMAIN first
    BY <2>1, FieldExcept DEF Fits
  <2> HIDE DEF w
  <2>3. Answer(w, V)
    BY <2>1, <2>2 DEF Answer, Fits, Final, IsLambda
  <2> QED BY <2>3 DEF w
<1> QED BY <1>1, <1>2 DEF builtin_numop

LEMMA ComparisonsAnswer ==
    ASSUME NEW V, NEW args, NEW op
    PROVE  Answer(builtin_order(args, op), V) /\ Answer(builtin_eq(args, op), V)
<1>1. \A e : Answer(lval_err(e), V) /\ Answer(Truth(e), V)
  BY Plain DEF Truth
<1> QED BY <1>1 DEF builtin_order, builtin_eq

\* What head and tail refuse is an error; what they take is a list that is not empty.
LEMMA ListErrorFacts ==
    ASSUME NEW V, Sound(V), NEW args, Ready(args, V)
    PROVE  /\ ListError(args) # {} => Answer(CHOOSE e \in ListError(args) : TRUE, V)
           /\ ListError(args) = {} =>
                 /\ Fits(args.cell[1], V) /\ args.cell[1].type = "qexpr"
                 /\ args.cell[1].cell \in Seq(V) /\ args.cell[1].cell # <<>>
<1>1. \A e : Answer(lval_err(e), V)
  BY Plain
<1>2. \A e \in ListError(args) : Answer(e, V)
  BY <1>1 DEF ListError
<1>3. ASSUME ListError(args) = {}
      PROVE  args.cell[1].type = "qexpr" /\ args.cell[1].cell # <<>>
  BY <1>3 DEF ListError, Typed
<1>4. Fits(args.cell[1], V)
  BY ReadyFacts
<1> QED BY <1>2, <1>3, <1>4 DEF Fits

LEMMA ListsAnswer ==
    ASSUME NEW V, Sound(V), NEW args, Ready(args, V)
    PROVE  /\ Answer(btinfn_head(args), V) /\ Answer(btinfn_tail(args), V)
           /\ Answer(btinfn_list(args), V) /\ Answer(btinfn_join(args), V)
<1> DEFINE first == args.cell[1]
<1>1. ASSUME NEW xs \in Seq(V), Fits(first, V), first.type = "qexpr"
      PROVE  Answer([first EXCEPT !.cell = xs], V)
  BY <1>1, Refilled DEF Answer, Final
<1>2. Answer(btinfn_head(args), V)
  <2>1. CASE ListError(args) # {}
    BY <2>1, ListErrorFacts DEF btinfn_head
  <2>2. CASE ListError(args) = {}
    <3>1. <<Head(first.cell)>> \in Seq(V) /\ Fits(first, V) /\ first.type = "qexpr"
      BY <2>2, ListErrorFacts
    <3> QED BY <1>1, <2>2, <3>1 DEF btinfn_head
  <2> QED BY <2>1, <2>2
<1>3. Answer(btinfn_tail(args), V)
  <2>1. CASE ListError(args) # {}
    BY <2>1, ListErrorFacts DEF btinfn_tail
  <2>2. CASE ListError(args) = {}
    <3>1. Tail(first.cell) \in Seq(V) /\ Fits(first, V) /\ first.type = "qexpr"
      BY <2>2, ListErrorFacts
    <3> QED BY <1>1, <2>2, <3>1 DEF btinfn_tail
  <2> QED BY <2>1, <2>2
<1>4. Answer(btinfn_list(args), V)
  BY Retyped DEF Ready, Answer, Final, btinfn_list, AsQexpr
<1>5. Answer(btinfn_join(args), V)
  <2>1. CASE ~AllTyped(args, "qexpr")
    BY <2>1, Plain DEF btinfn_join
  <2>2. CASE AllTyped(args, "qexpr")
    <3>1. \A i \in 1..Len(args.cell) : args.cell[i].type = "qexpr" /\ args.cell[i].cell \in Seq(V)
      BY <2>2, ReadyFacts DEF AllTyped, Fits
    <3>2. first.type = "qexpr" /\ Fits(first, V)
      BY <3>1, ReadyFacts
    <3> DEFINE cells == [i \in 1..Len(args.cell) |-> args.cell[i].cell]
    <3>3. cells \in Seq(Seq(V))
      BY <3>1, ReadyFacts
    <3> HIDE DEF cells
    <3>4. FlattenSeq(cells) \in Seq(V)
      BY <3>3, FlattenType
    <3>5. lval_join(args.cell) \in Seq(V)
      BY <3>4 DEF lval_join, cells
    <3> QED BY <1>1, <2>2, <3>2, <3>5 DEF btinfn_join
  <2> QED BY <2>1, <2>2
<1> QED BY <1>2, <1>3, <1>4, <1>5

LEMMA NothingSettled == \A V : Settled(Empty, V)
BY DEF Settled, Empty

LEMMA LambdaAnswers ==
    ASSUME NEW V, Sound(V), NEW args, Ready(args, V)
    PROVE  Answer(btinfn_lambda(args), V) /\ Answer(btinfn_error(args), V)
<1>1. \A e : Answer(lval_err(e), V)
  BY Plain
<1>2. Answer(btinfn_error(args), V)
  BY <1>1 DEF btinfn_error
<1>3. ASSUME Counted(args, 2), AllTyped(args, "qexpr")
      PROVE  Answer(lval_lambda(args.cell[1], args.cell[2]), V)
  <2> DEFINE f == lval_lambda(args.cell[1], args.cell[2])
  <2>1. /\ args.cell[1] \in V /\ args.cell[1].type = "qexpr"
        /\ args.cell[2] \in V /\ args.cell[2].type = "qexpr"
    BY <1>3, ReadyFacts DEF Counted, AllTyped
  <2>2. /\ {"type", "cond", "builtin", "formals", "body", "environment"} \subseteq DOMAIN f
        /\ f.type = "fun" /\ f.cond = "unset" /\ f.builtin = "none"
        /\ f.formals = args.cell[1] /\ f.body = args.cell[2] /\ f.environment = Empty
    BY DEF lval_lambda
  <2> HIDE DEF f
  <2>3. Answer(f, V)
    BY <2>1, <2>2, NothingSettled DEF Answer, Fits, Final, Conditions
  <2> QED BY <2>3 DEF f
<1>4. Answer(btinfn_lambda(args), V)
  BY <1>1, <1>3 DEF btinfn_lambda
<1> QED BY <1>2, <1>4

\* A builtin that computes gives a value that is final.
LEMMA ComputedAnswers ==
    ASSUME NEW V, Sound(V), NEW args, Ready(args, V), NEW b \in Computing
    PROVE  Answer(Computed(b, args), V)
<1>1. CASE b \in Numeric
  BY <1>1, NumbersAnswer DEF Computed, Numeric, Order, Equality
<1>2. CASE b \in Order
  BY <1>2, ComparisonsAnswer DEF Computed, Numeric, Order, Equality
<1>3. CASE b \in Equality
  BY <1>3, ComparisonsAnswer DEF Computed, Numeric, Order, Equality
<1>4. CASE b \in Lists \cup {"lambda", "error"}
  BY <1>4, ListsAnswer, LambdaAnswers DEF Computed, Numeric, Order, Equality, Lists
<1> QED BY <1>1, <1>2, <1>3, <1>4 DEF Computing

----------------------------------------------------------------------------
(* Storing *)

LEMMA PutSettled ==
    ASSUME NEW V, Sound(V), NEW env, Settled(env, V), NEW s, NEW v \in V, Final(v), ~IsErr(v),
           NEW c \in Conditions
    PROVE  Settled(TryPut(env, s, v, c), V)
<1> DEFINE new == IF s \in DOMAIN env \/ v.cond # "unset" THEN v ELSE [v EXCEPT !.cond = c]
<1>1. new \in V /\ Final(new) /\ ~IsErr(new)
  BY CondFits DEF Sound
<1> HIDE DEF new
<1>2. Settled([t \in DOMAIN env \cup {s} |-> IF t = s THEN new ELSE env[t]], V)
  BY <1>1 DEF Settled
<1>3. Settled(Put(env, s, v, c), V)
  BY <1>2 DEF Put, new
<1> QED BY <1>3 DEF TryPut

\* after stores the first m of the values.
StoresOf(after, m, env, syms, vs, conds) ==
    after = [i \in 0..m |->
                IF i = 0 THEN env ELSE TryPut(after[i - 1], syms[i], vs[i], conds[i])]

\* There is such an after for every m: there is no least m without.
LEMMA StoresExist ==
    ASSUME NEW env, NEW syms, NEW vs, NEW conds, NEW n \in Nat
    PROVE  \E after : StoresOf(after, n, env, syms, vs, conds)
<1> DEFINE Ok(f, m) == StoresOf(f, m, env, syms, vs, conds)
           Bad == {m \in Nat : ~\E f : Ok(f, m)}
<1>1. SUFFICES ASSUME Bad # {} PROVE FALSE
  OBVIOUS
<1>2. PICK m \in Bad : \A k \in Bad : m <= k
  <2>1. Bad \in SUBSET Nat
    OBVIOUS
  <2> HIDE DEF Bad
  <2> QED BY <1>1, <2>1, LeastNatural
<1>3. m # 0
  <2>1. Ok([i \in 0..0 |-> env], 0)
    BY DEF StoresOf
  <2> HIDE DEF Ok
  <2> QED BY <2>1
<1>4. PICK f : Ok(f, m - 1)
  <2>1. m - 1 \in Nat /\ ~(m <= m - 1)
    BY <1>3
  <2>2. m - 1 \notin Bad
    BY <1>2, <2>1
  <2> HIDE DEF Ok
  <2> QED BY <2>1, <2>2
<1> DEFINE last == TryPut(f[m - 1], syms[m], vs[m], conds[m])
           g == [i \in 0..m |-> IF i = m THEN last ELSE f[i]]
<1>5. \A i \in 0..m :
         g[i] = IF i = 0 THEN env ELSE TryPut(g[i - 1], syms[i], vs[i], conds[i])
  <2> SUFFICES ASSUME NEW i \in 0..m
               PROVE  g[i] = IF i = 0 THEN env ELSE TryPut(g[i - 1], syms[i], vs[i], conds[i])
    OBVIOUS
  <2>1. i # 0 => i - 1 \in 0..(m - 1) /\ i - 1 # m
    OBVIOUS
  <2>2. i # 0 => g[i - 1] = f[i - 1]
    BY <2>1
  <2>3. CASE i = m
    <3>1. g[i] = last
      BY <2>3
    <3> HIDE DEF g
    <3> QED BY <1>3, <2>2, <2>3, <3>1
  <2>4. CASE i # m
    <3>1. i \in 0..(m - 1)
      BY <2>4
    <3>2. f[i] = IF i = 0 THEN env ELSE TryPut(f[i - 1], syms[i], vs[i], conds[i])
      BY <1>4, <3>1 DEF StoresOf
    <3>3. g[i] = f[i]
      BY <2>4
    <3> HIDE DEF g
    <3> QED BY <2>2, <3>2, <3>3
  <2> QED BY <2>3, <2>4
<1>6. g = [i \in 0..m |-> g[i]]
  OBVIOUS
<1>7. Ok(g, m)
  <2> HIDE DEF g
  <2> QED BY <1>5, <1>6 DEF StoresOf
<1> HIDE DEF Ok
<1> QED BY <1>2, <1>7

\* Every environment on the way is settled.
LEMMA StoresSettled ==
    ASSUME NEW V, Sound(V), NEW env, Settled(env, V), NEW syms, Len(syms) \in Nat,
           NEW vs, NEW conds,
           \A i \in 1..Len(syms) : vs[i] \in V /\ Final(vs[i]) /\ ~IsErr(vs[i])
                                   /\ conds[i] \in Conditions
    PROVE  \A i \in 0..Len(syms) : Settled(Stores(env, syms, vs, conds)[i], V)
<1> DEFINE n == Len(syms)
           after == CHOOSE f : StoresOf(f, n, env, syms, vs, conds)
<1>1. StoresOf(after, n, env, syms, vs, conds)
  BY StoresExist
<1>2. Stores(env, syms, vs, conds) = after
  BY DEF Stores, StoresOf
<1> HIDE DEF after
<1>3. \A i \in 0..n :
         after[i] = IF i = 0 THEN env ELSE TryPut(after[i - 1], syms[i], vs[i], conds[i])
  BY <1>1 DEF StoresOf
<1> DEFINE Bad == {i \in 0..n : ~Settled(after[i], V)}
<1>4. SUFFICES ASSUME Bad # {} PROVE FALSE
  BY <1>2
<1>5. PICK m \in Bad : \A k \in Bad : m <= k
  <2>1. Bad \in SUBSET Nat
    OBVIOUS
  <2> HIDE DEF Bad
  <2> QED BY <1>4, <2>1, LeastNatural
<1>6. m # 0
  BY <1>3
<1>7. Settled(after[m - 1], V)
  <2>1. m - 1 \in 0..n /\ ~(m <= m - 1)
    BY <1>6
  <2>2. m - 1 \notin Bad
    BY <1>5, <2>1
  <2> QED BY <2>1, <2>2
<1>8. after[m] = TryPut(after[m - 1], syms[m], vs[m], conds[m])
  BY <1>3, <1>6
<1>9. m \in 1..n
  BY <1>6
<1>10. Settled(after[m], V)
  BY <1>7, <1>8, <1>9, PutSettled
<1> QED BY <1>10

LEMMA MinOf ==
    ASSUME NEW T \in SUBSET Nat, T # {}
    PROVE  Min(T) \in T
<1>1. PICK x \in T : \A y \in T : x <= y
  BY LeastNatural
<1> QED BY <1>1 DEF Min

LEMMA MaxOf ==
    ASSUME NEW n \in Nat, NEW T \in SUBSET (1..n), T # {}
    PROVE  Max(T) \in T
<1>1. T \in SUBSET Nat /\ \A y \in T : y <= n
  OBVIOUS
<1>2. PICK x \in T : \A y \in T : y <= x
  BY <1>1, GreatestNatural
<1>3. \A y \in T : x >= y
  BY <1>1, <1>2
<1> QED BY <1>2, <1>3 DEF Max

\* A definition leaves the environment settled and gives a final value.
LEMMA DefineAnswers ==
    ASSUME NEW V, Sound(V), NEW args, Ready(args, V), NEW env, Settled(env, V),
           NEW b \in Definers
    PROVE  /\ Settled(btinfn_define(env, args, b).env, V)
           /\ Answer(btinfn_define(env, args, b).value, V)
<1> DEFINE r == btinfn_define(env, args, b)
<1>1. \A e : Answer(lval_err(e), V)
  BY Plain
<1>2. CASE DefineError(args) # {}
  <2>1. \A e \in DefineError(args) : Answer(e, V)
    BY <1>1 DEF DefineError
  <2> DEFINE e == CHOOSE e \in DefineError(args) : TRUE
  <2>2. Answer(e, V)
    BY <1>2, <2>1
  <2> HIDE DEF e
  <2>3. r = [env |-> env, value |-> e]
    BY <1>2 DEF btinfn_define, e
  <2> HIDE DEF r
  <2> QED BY <2>2, <2>3 DEF r
<1>3. CASE DefineError(args) = {}
  <2> DEFINE first == args.cell[1]
             syms == [i \in 1..Len(first.cell) |-> first.cell[i].symbol]
             conds == [i \in DOMAIN syms |-> Cond(b)]
             after == Stores(env, syms, Tail(args.cell), conds)
             refused == {i \in DOMAIN syms : PutFails(after[i - 1], syms[i], Cond(b))}
  <2>1. /\ Len(first.cell) = Len(args.cell) - 1
        /\ args.cell \in Seq(V) /\ Len(args.cell) \in Nat \ {0}
    BY <1>3, ReadyFacts DEF DefineError
  <2>2. PICK m \in Nat : m = Len(first.cell) /\ Len(args.cell) = m + 1
    BY <2>1
  <2>3. Len(syms) = m /\ DOMAIN syms = 1..m
    BY <2>2
  <2>4. \A i \in 1..m : conds[i] \in Conditions
    BY <2>3 DEF Cond, Conditions
  <2>5. ASSUME NEW i \in 1..m
        PROVE  LET v == Tail(args.cell)[i] IN v \in V /\ Final(v) /\ ~IsErr(v)
    <3>1. Tail(args.cell)[i] = args.cell[i + 1] /\ i + 1 \in 1..Len(args.cell)
      BY <2>1, <2>2
    <3> QED BY <3>1, ReadyFacts DEF Ready
  <2> HIDE DEF conds, syms
  <2>6. \A i \in 0..m : Settled(after[i], V)
    <3>1. Len(syms) \in Nat /\ \A i \in 1..Len(syms) :
             Tail(args.cell)[i] \in V /\ Final(Tail(args.cell)[i]) /\ ~IsErr(Tail(args.cell)[i])
             /\ conds[i] \in Conditions
      BY <2>3, <2>4, <2>5
    <3> QED BY <2>3, <3>1, StoresSettled
  <2> HIDE DEF after
  <2>7. r = IF refused = {} THEN [env |-> after[Len(syms)], value |-> lval_sexpr(<<>>)]
            ELSE [env |-> after[Min(refused) - 1], value |-> lval_err("assign")]
    BY <1>3 DEF btinfn_define, syms, conds, after
  <2> HIDE DEF r
  <2>8. CASE refused = {}
    <3>1. r = [env |-> after[m], value |-> lval_sexpr(<<>>)]
      BY <2>3, <2>7, <2>8
    <3> QED BY <2>6, <3>1, Plain DEF r
  <2>9. CASE refused # {}
    <3>1. refused \in SUBSET Nat
      BY <2>3
    <3> DEFINE k == Min(refused)
    <3>2. k \in refused
      BY <2>9, <3>1, MinOf
    <3>3. k - 1 \in 0..m
      BY <2>3, <3>2
    <3>4. r = [env |-> after[k - 1], value |-> lval_err("assign")]
      BY <2>7, <2>9
    <3> HIDE DEF k
    <3> QED BY <1>1, <2>6, <3>3, <3>4 DEF r
  <2> QED BY <2>8, <2>9
<1> QED BY <1>2, <1>3

LEMMA WithExcept ==
    ASSUME NEW f, "formals" \in DOMAIN f, "environment" \in DOMAIN f, NEW env, NEW fs
    PROVE  LET g == [f EXCEPT !.environment = env, !.formals = fs]
           IN  /\ DOMAIN g = DOMAIN f /\ g.environment = env /\ g.formals = fs
               /\ \A x \in DOMAIN f : x \notin {"environment", "formals"} => g[x] = f[x]
OBVIOUS

\* A function with other formals and another environment.
LEMMA Bindable ==
    ASSUME NEW V, NEW f, Fits(f, V), IsLambda(f), NEW env, Settled(env, V),
           NEW fs \in V, fs.type = "qexpr"
    PROVE  LET g == [f EXCEPT !.environment = env, !.formals = fs]
           IN  /\ Fits(g, V) /\ IsLambda(g) /\ g.formals = fs /\ g.environment = env
<1> DEFINE g == [f EXCEPT !.environment = env, !.formals = fs]
<1>1. /\ "type" \in DOMAIN f /\ "cond" \in DOMAIN f /\ "builtin" \in DOMAIN f
      /\ "formals" \in DOMAIN f /\ "body" \in DOMAIN f /\ "environment" \in DOMAIN f
      /\ f.type = "fun" /\ f.builtin = "none" /\ f.cond \in Conditions
      /\ f.body \in V /\ f.body.type = "qexpr"
  BY DEF Fits, IsLambda
<1>2. /\ DOMAIN g = DOMAIN f /\ g.environment = env /\ g.formals = fs
      /\ \A x \in DOMAIN f : x \notin {"environment", "formals"} => g[x] = f[x]
  BY <1>1, WithExcept
<1>3. g.type = f.type /\ g.cond = f.cond /\ g.builtin = f.builtin /\ g.body = f.body
  BY <1>1, <1>2
<1> HIDE DEF g
<1>4. Fits(g, V) /\ IsLambda(g)
  BY <1>1, <1>2, <1>3 DEF Fits, IsLambda
<1> QED BY <1>2, <1>4 DEF g

\* The function with what a call has bound in it.
LEMMA BindAnswers ==
    ASSUME NEW V, Sound(V), NEW args, Ready(args, V), NEW f, Fits(f, V), IsLambda(f)
    PROVE  /\ \A e \in lval_bind(f, args).errs : Answer(e, V)
           /\ \E W : /\ Sound(W) /\ V \subseteq W
                     /\ lval_bind(f, args).errs = {} =>
                           Fits(lval_bind(f, args).fun, W) /\ IsLambda(lval_bind(f, args).fun)
<1> DEFINE syms  == [i \in 1..Len(f.formals.cell) |-> f.formals.cell[i].symbol]
           amps  == {i \in 1..Len(syms) : syms[i] = "&"}
           plain == IF amps = {} THEN Len(syms) ELSE Min(amps) - 1
           n     == Len(args.cell)
           given == IF n < plain THEN n ELSE plain
           bound == Stores(f.environment, SubSeq(syms, 1, given), args.cell,
                           [i \in 1..n |-> args.cell[i].cond])[given]
           rest  == IF n > plain THEN AsQexpr([args EXCEPT !.cell = SubSeq(@, plain + 1, n)])
                    ELSE lval_qexpr(<<>>)
           left  == IF n < plain THEN SubSeq(f.formals.cell, n + 1, Len(syms)) ELSE <<>>
           With(env) == [f EXCEPT !.environment = env, !.formals = [@ EXCEPT !.cell = left]]
           r == lval_bind(f, args)
<1>1. r = IF n < plain \/ (n = plain /\ amps = {}) THEN [fun |-> With(bound), errs |-> {}]
          ELSE IF amps = {} THEN [fun |-> f, errs |-> {lval_err("too many")}]
          ELSE IF Len(syms) # plain + 2 THEN [fun |-> f, errs |-> {lval_err("variadic")}]
          ELSE [fun |-> With(TryPut(bound, syms[plain + 2], rest, "dynamic")), errs |-> {}]
  BY DEF lval_bind
<1>2. /\ f.formals \in V /\ Fits(f.formals, V) /\ f.formals.type = "qexpr"
      /\ f.formals.cell \in Seq(V) /\ Settled(f.environment, V)
  BY DEF Fits, Sound
<1>3. PICK m \in Nat : m = Len(f.formals.cell) /\ Len(syms) = m
  BY <1>2
<1>4. args.cell \in Seq(V) /\ n \in Nat \ {0}
      /\ \A i \in 1..n : /\ args.cell[i] \in V /\ Final(args.cell[i]) /\ ~IsErr(args.cell[i])
                         /\ args.cell[i].cond \in Conditions
  BY ReadyFacts DEF Ready, Fits
<1>5. plain \in 0..m
  <2>1. CASE amps = {}
    BY <1>3, <2>1
  <2>2. CASE amps # {}
    <3>1. amps \in SUBSET Nat /\ amps \subseteq 1..m
      BY <1>3
    <3> HIDE DEF amps
    <3>2. Min(amps) \in 1..m
      BY <2>2, <3>1, MinOf
    <3> QED BY <2>2, <3>2
  <2> QED BY <2>1, <2>2
<1>6. given \in 0..m /\ given <= n
  <2> HIDE DEF plain, n
  <2> QED BY <1>3, <1>4, <1>5
<1>7. Len(SubSeq(syms, 1, given)) = given
  <2> HIDE DEF syms, given
  <2>1. \A i \in 1..given : syms[i] \in {syms[j] : j \in 1..m}
    BY <1>6
  <2>2. Len(SubSeq(syms, 1, given)) = IF 1 <= given THEN given - 1 + 1 ELSE 0
    BY <1>6, <2>1, SubSeqProperties
  <2> QED BY <1>6, <2>2
<1>8. Settled(bound, V)
  <2> DEFINE conds == [i \in 1..n |-> args.cell[i].cond]
             few == SubSeq(syms, 1, given)
  <2>0. \A i \in 1..n : conds[i] = args.cell[i].cond
    OBVIOUS
  <2> HIDE DEF conds, syms, plain, given, n
  <2>1. \A i \in 1..given : args.cell[i] \in V /\ Final(args.cell[i]) /\ ~IsErr(args.cell[i])
                            /\ conds[i] \in Conditions
    BY <1>4, <1>6, <2>0
  <2>2. Len(few) = given /\ given \in 0..given /\ Len(few) \in Nat
    BY <1>6, <1>7
  <2> HIDE DEF few
  <2>3. Settled(Stores(f.environment, few, args.cell, conds)[given], V)
    BY <1>2, <2>1, <2>2, StoresSettled, SMTT(20), ZenonT(40)
  <2> QED BY <2>3 DEF conds, few, n
<1>9. rest.type = "qexpr" /\ Fits(rest, V)
  <2>1. CASE n > plain
    <3>1. SubSeq(args.cell, plain + 1, n) \in Seq(V)
      <4> HIDE DEF plain, n
      <4>1. plain \in Nat /\ n \in Nat /\ plain <= n
        BY <1>4, <1>5, <2>1
      <4> QED BY <1>4, <4>1, StretchFacts DEF n
    <3> DEFINE xs == SubSeq(args.cell, plain + 1, n)
    <3> HIDE DEF xs
    <3>2. Fits([args EXCEPT !.cell = xs], V) /\ [args EXCEPT !.cell = xs].type = "sexpr"
      <4>1. xs \in Seq(V)
        BY <3>1 DEF xs
      <4>2. Fits(args, V) /\ args.type \in {"sexpr", "qexpr"} /\ args.type = "sexpr"
        BY DEF Ready
      <4> QED BY <4>1, <4>2, Refilled
    <3>3. rest = AsQexpr([args EXCEPT !.cell = xs])
      BY <2>1 DEF xs
    <3> QED BY <3>2, <3>3, Retyped, ZenonT(90) DEF AsQexpr
  <2>2. CASE ~(n > plain)
    BY <2>2, Plain DEF Answer, lval_qexpr
  <2> QED BY <2>1, <2>2
<1>10. left \in Seq(V)
  <2>1. CASE n < plain
    <3> HIDE DEF plain, n
    <3>1. n \in Nat /\ m \in Nat /\ n <= m /\ m <= Len(f.formals.cell)
      BY <1>3, <1>4, <1>5, <2>1
    <3>2. SubSeq(f.formals.cell, n + 1, m) \in Seq(V)
      BY <1>2, <3>1, StretchFacts
    <3> QED BY <1>3, <2>1, <3>2
  <2>2. CASE ~(n < plain)
    BY <2>2
  <2> QED BY <2>1, <2>2
<1> DEFINE fs == [f.formals EXCEPT !.cell = left]
<1>11. Fits(fs, V) /\ fs.type = "qexpr"
  <2> HIDE DEF left
  <2> QED BY <1>2, <1>10, Refilled
<1> HIDE DEF rest, left, bound
<1>12. PICK W1 : Sound(W1) /\ V \subseteq W1 /\ rest \in W1
  BY <1>9, Joining
<1>13. PICK W : Sound(W) /\ W1 \subseteq W /\ fs \in W
  <2>1. Fits(fs, W1)
    BY <1>11, <1>12, FitsMore
  <2> HIDE DEF fs
  <2> QED BY <1>12, <2>1, Joining
<1>14. V \subseteq W /\ rest \in W /\ Fits(f, W) /\ Settled(bound, W)
  BY <1>8, <1>12, <1>13, FitsMore DEF Settled
<1>15. ASSUME NEW env, Settled(env, W) PROVE Fits(With(env), W) /\ IsLambda(With(env))
  <2>1. With(env) = [f EXCEPT !.environment = env, !.formals = fs]
    OBVIOUS
  <2> HIDE DEF fs, With
  <2>2. fs \in W /\ fs.type = "qexpr" /\ Fits(f, W)
    BY <1>11, <1>13, <1>14
  <2> DEFINE g == [f EXCEPT !.environment = env, !.formals = fs]
  <2>3. Fits(g, W) /\ IsLambda(g)
    BY <1>15, <2>2, Bindable, SMTT(20), ZenonT(40)
  <2> QED BY <2>1, <2>3
<1>16. Settled(TryPut(bound, syms[plain + 2], rest, "dynamic"), W)
  <2>1. Final(rest) /\ ~IsErr(rest)
    BY <1>9 DEF Final, IsErr
  <2> DEFINE s == syms[plain + 2]
  <2>2. "dynamic" \in Conditions
    BY DEF Conditions
  <2> HIDE DEF s
  <2> QED BY <1>13, <1>14, <2>1, <2>2, PutSettled
<1> HIDE DEF fs, With, amps, syms, plain, n, r
<1>17. \A e \in r.errs : Answer(e, V)
  BY <1>1, Plain
<1>18. r.errs = {} => Fits(r.fun, W) /\ IsLambda(r.fun)
  BY <1>1, <1>14, <1>15, <1>16
<1> QED BY <1>13, <1>14, <1>17, <1>18 DEF r

----------------------------------------------------------------------------
(* The state *)

FrameFits(fr, V) ==
    /\ fr.what = "cells" =>
          /\ fr.list \in V /\ fr.list.type = "sexpr" /\ fr.at \in 1..Len(fr.list.cell)
          /\ \A i \in 1..(fr.at - 1) : Final(fr.list.cell[i])
    /\ fr.what \in {"load", "code"} => fr.rest \in Content

StateFits(c, s, k, V, S, F) ==
    /\ Sound(V) /\ Expressions \subseteq V
    /\ c \in Seq(S) /\ \A e \in S : Settled(e, V)
    /\ s \in Seq(F) /\ \A fr \in F : FrameFits(fr, V)
    /\ k.v \in V /\ (k.op = "give" => Final(k.v))

Finite(c, s, k) == \E V, S, F : StateFits(c, s, k, V, S, F)

\* What is read, and the builtins.
LEMMA StartFits ==
    \E V : Sound(V) /\ Expressions \subseteq V /\ Settled(lenv_init, V)
<1> DEFINE Funs == {lval_fun(b) : b \in Builtins}
           U == Expressions \cup Funs
<1>1. Expressions \subseteq U /\ Funs \subseteq U
  OBVIOUS
<1>2. \A b \in Builtins : b # "none"
  BY DEF Builtins, Numeric, Order, Equality, Lists, Definers
<1> HIDE DEF U
<1>3. ASSUME NEW u \in Expressions PROVE Fits(u, Expressions)
  <2>1. CASE u.type = "num" /\ u = lval_num(u.number)
    BY <2>1 DEF Fits, IsLambda, Conditions, lval_num
  <2>2. CASE u.type = "str" /\ u = lval_str(u.string)
    BY <2>2 DEF Fits, IsLambda, Conditions, lval_str
  <2>3. CASE u.type = "sym" /\ u = lval_sym(u.symbol)
    BY <2>3 DEF Fits, IsLambda, Conditions, lval_sym
  <2>4. CASE u.type = "err" /\ u = lval_err(u.error)
    BY <2>4 DEF Fits, IsLambda, Conditions, lval_err
  <2>5. CASE u.type = "sexpr" /\ u = lval_sexpr(u.cell) /\ u.cell \in Content
    BY <2>5 DEF Fits, IsLambda, Conditions, lval_sexpr, Content
  <2>6. CASE u.type = "qexpr" /\ u = lval_qexpr(u.cell) /\ u.cell \in Content
    BY <2>6 DEF Fits, IsLambda, Conditions, lval_qexpr, Content
  <2> QED BY <2>1, <2>2, <2>3, <2>4, <2>5, <2>6, ExpressionsAssumption DEF Readable
<1>4. ASSUME NEW u \in Funs PROVE Fits(u, U) /\ Final(u) /\ ~IsErr(u)
  <2>1. PICK b \in Builtins : u = lval_fun(b)
    OBVIOUS
  <2>2. b # "none"
    BY <1>2
  <2> QED BY <2>1, <2>2 DEF Fits, IsLambda, Conditions, lval_fun, Final, IsErr
<1>5. \A u \in U : Fits(u, U)
  <2>1. \A u \in Expressions : Fits(u, U)
    BY <1>1, <1>3, FitsMore
  <2>2. \A u \in Funs : Fits(u, U)
    BY <1>4
  <2> QED BY <2>1, <2>2 DEF U
<1>6. PICK V : Sound(V) /\ U \subseteq V
  BY <1>5, Closing
<1>7. Settled(lenv_init, V)
  <2> SUFFICES ASSUME NEW b \in Builtins
               PROVE  LET v == [lval_fun(b) EXCEPT !.cond = "constant"]
                      IN  v \in V /\ Final(v) /\ ~IsErr(v)
    BY DEF Settled, lenv_init
  <2> DEFINE u == lval_fun(b)
  <2>1. u \in V /\ Fits(u, U) /\ Final(u) /\ ~IsErr(u)
    BY <1>1, <1>4, <1>6
  <2>2. "constant" \in Conditions
    BY DEF Conditions
  <2> HIDE DEF u
  <2>3. [u EXCEPT !.cond = "constant"] \in V
    BY <1>6, <2>1, <2>2 DEF Sound
  <2>4. /\ Final([u EXCEPT !.cond = "constant"])
        /\ ~IsErr([u EXCEPT !.cond = "constant"])
    BY <2>1, <2>2, CondFits
  <2> QED BY <2>3, <2>4 DEF u
<1> QED BY <1>1, <1>6, <1>7

LEMMA FitsFrame ==
    ASSUME NEW c, NEW s, NEW k, NEW V, NEW S, NEW F, StateFits(c, s, k, V, S, F),
           NEW fr, FrameFits(fr, V)
    PROVE  StateFits(c, Append(s, fr), k, V, S, F \cup {fr})
<1>1. s \in Seq(F \cup {fr})
  <2>1. s \in Seq(F)
    BY DEF StateFits
  <2> QED BY <2>1, SeqMonotonic
<1>2. Append(s, fr) \in Seq(F \cup {fr})
  BY <1>1
<1> QED BY <1>2 DEF StateFits

LEMMA FitsWider ==
    ASSUME NEW c, NEW s, NEW k, NEW V, NEW S, NEW F, StateFits(c, s, k, V, S, F),
           NEW W, Sound(W), V \subseteq W
    PROVE  StateFits(c, s, k, W, S, F)
<1>1. \A fr \in F : FrameFits(fr, W)
  BY DEF StateFits, FrameFits
<1>2. \A e \in S : Settled(e, W)
  BY DEF StateFits, Settled
<1> QED BY <1>1, <1>2 DEF StateFits

LEMMA FitsControl ==
    ASSUME NEW c, NEW s, NEW k, NEW V, NEW S, NEW F, StateFits(c, s, k, V, S, F),
           NEW v, Fits(v, V)
    PROVE  Finite(c, s, Eval(v)) /\ (Final(v) => Finite(c, s, Give(v)))
<1>1. PICK W : Sound(W) /\ V \subseteq W /\ v \in W
  BY Joining DEF StateFits
<1>2. StateFits(c, s, k, W, S, F)
  BY <1>1, FitsWider
<1>3. /\ Eval(v).op = "eval" /\ Eval(v).v = v
      /\ Give(v).op = "give" /\ Give(v).v = v
  BY DEF Eval, Give
<1>4. StateFits(c, s, Eval(v), W, S, F)
  BY <1>1, <1>2, <1>3 DEF StateFits
<1>5. Final(v) => StateFits(c, s, Give(v), W, S, F)
  BY <1>1, <1>2, <1>3 DEF StateFits
<1> QED BY <1>4, <1>5 DEF Finite

LEMMA FitsEntered ==
    ASSUME NEW c, NEW s, NEW k, NEW V, NEW S, NEW F, StateFits(c, s, k, V, S, F),
           NEW e, Settled(e, V)
    PROVE  StateFits(Append(c, e), s, k, V, S \cup {e}, F)
<1>1. c \in Seq(S \cup {e})
  <2>1. c \in Seq(S)
    BY DEF StateFits
  <2> QED BY <2>1, SeqMonotonic
<1>2. Append(c, e) \in Seq(S \cup {e})
  BY <1>1
<1> QED BY <1>2 DEF StateFits

LEMMA FitsWritten ==
    ASSUME NEW c, NEW s, NEW k, NEW V, NEW S, NEW F, StateFits(c, s, k, V, S, F),
           NEW d, NEW e, Settled(e, V)
    PROVE  StateFits([c EXCEPT ![d] = e], s, k, V, S \cup {e}, F)
<1>1. c \in Seq(S)
  BY DEF StateFits
<1> DEFINE g == [c EXCEPT ![d] = e]
<1>2. DOMAIN g = 1..Len(c) /\ Len(c) \in Nat /\ \A i \in 1..Len(c) : g[i] \in S \cup {e}
  BY <1>1
<1>3. g = [i \in 1..Len(c) |-> g[i]]
  BY <1>1
<1> HIDE DEF g
<1>4. g \in Seq(S \cup {e})
  BY <1>2, <1>3
<1>5. StateFits(g, s, k, V, S \cup {e}, F)
  BY <1>4 DEF StateFits
<1> QED BY <1>5 DEF g

LEMMA Overwritten ==
    ASSUME NEW V, NEW s \in Seq(V), NEW i \in 1..Len(s), NEW v \in V
    PROVE  /\ [s EXCEPT ![i] = v] \in Seq(V) /\ Len([s EXCEPT ![i] = v]) = Len(s)
           /\ \A j \in 1..Len(s) : [s EXCEPT ![i] = v][j] = IF j = i THEN v ELSE s[j]
OBVIOUS

LEMMA TailFacts ==
    ASSUME NEW V, NEW s \in Seq(V), Len(s) > 1
    PROVE  /\ Tail(s) \in Seq(V) /\ Len(Tail(s)) = Len(s) - 1 /\ Tail(s) # <<>>
           /\ \A i \in 1..(Len(s) - 1) : Tail(s)[i] = s[i + 1] /\ i + 1 \in 1..Len(s)
<1>1. Tail(s) \in Seq(V) /\ Len(Tail(s)) = Len(s) - 1 /\ s # <<>> /\ Len(s) \in Nat
  OBVIOUS
<1>2. Tail(s) # <<>>
  <2> DEFINE t == Tail(s)
  <2>1. Len(t) > 0
    BY <1>1
  <2> HIDE DEF t
  <2>2. t # <<>>
    BY <2>1
  <2> QED BY <2>2 DEF t
<1>3. \A i \in 1..(Len(s) - 1) : Tail(s)[i] = s[i + 1] /\ i + 1 \in 1..Len(s)
  BY <1>1
<1> QED BY <1>1, <1>2, <1>3

\* The list with the cell just evaluated.
LEMMA CellExcept ==
    ASSUME NEW l, NEW i, NEW v
    PROVE  [l EXCEPT !.cell[i] = v] = [l EXCEPT !.cell = [l.cell EXCEPT ![i] = v]]
OBVIOUS

LEMMA EvaluatedCells ==
    ASSUME NEW V, NEW S, NEW F, StateFits(chain, stack, ctl, V, S, F), Giving("cells")
    PROVE  /\ Front(stack) \in Seq(F)
           /\ Top.list.cell \in Seq(V) /\ Top.at \in 1..Len(Top.list.cell)
           /\ Fits(List, V) /\ List.type = "sexpr" /\ List.cell \in Seq(V)
           /\ Len(List.cell) = Len(Top.list.cell)
           /\ \A i \in 1..Top.at : Final(List.cell[i])
<1>1. stack \in Seq(F) /\ stack # <<>> /\ Top \in F /\ Top.what = "cells"
  BY DEF StateFits, Giving, Top
<1>2. Front(stack) \in Seq(F)
  BY <1>1, FrontFacts DEF Front
<1> DEFINE list == Top.list
           at == Top.at
           xs == [list.cell EXCEPT ![at] = ctl.v]
<1>3. /\ list \in V /\ list.type = "sexpr" /\ at \in 1..Len(list.cell)
      /\ \A i \in 1..(at - 1) : Final(list.cell[i])
  BY <1>1 DEF StateFits, FrameFits
<1>4. Fits(list, V) /\ list.cell \in Seq(V)
  BY <1>3 DEF StateFits, Sound, Fits
<1>5. ctl.v \in V /\ Final(ctl.v)
  BY DEF StateFits, Giving
<1>6. List = [list EXCEPT !.cell = xs]
  BY CellExcept DEF List
<1> HIDE DEF list, at
<1> DEFINE ys == list.cell
           n == Len(ys)
<1>7. ys \in Seq(V) /\ n \in Nat /\ at \in 1..n
  BY <1>3, <1>4
<1>8. /\ xs \in Seq(V) /\ Len(xs) = n
      /\ \A i \in 1..n : xs[i] = IF i = at THEN ctl.v ELSE ys[i]
  <2> DEFINE v == ctl.v
  <2>1. ys \in Seq(V) /\ at \in 1..Len(ys) /\ v \in V
    BY <1>5, <1>7
  <2>2. xs = [ys EXCEPT ![at] = v]
    OBVIOUS
  <2> HIDE DEF ys, v, xs
  <2>3. /\ xs \in Seq(V) /\ Len(xs) = Len(ys)
        /\ \A i \in 1..Len(ys) : xs[i] = IF i = at THEN v ELSE ys[i]
    BY <2>1, <2>2, Overwritten
  <2> QED BY <2>3 DEF v
<1>9. \A i \in 1..at : Final(xs[i])
  <2> HIDE DEF xs, n
  <2>1. \A i \in 1..at : i \in 1..n /\ (i = at \/ i \in 1..(at - 1))
    BY <1>7 DEF n
  <2> QED BY <1>3, <1>5, <1>8, <2>1
<1> HIDE DEF xs
<1>10. Fits(List, V) /\ List.type = "sexpr" /\ List.cell = xs
  BY <1>3, <1>4, <1>6, <1>8, Refilled
<1> QED BY <1>2, <1>3, <1>4, <1>8, <1>9, <1>10 DEF list, at

\* The arguments of a call.
LEMMA ArgsReady ==
    ASSUME NEW V, NEW S, NEW F, StateFits(chain, stack, ctl, V, S, F), Applies
    PROVE  Ready(Args, V) /\ Fun \in V /\ Fits(Fun, V)
<1>1. Giving("cells") /\ Top.at = Len(Top.list.cell) /\ Errors = {} /\ Len(List.cell) > 1
  BY DEF Applies, AllCells
<1> DEFINE xs == List.cell
           n == Len(xs)
<1>2. /\ Fits(List, V) /\ List.type = "sexpr" /\ xs \in Seq(V)
      /\ \A i \in 1..n : Final(xs[i])
  BY <1>1, EvaluatedCells
<1>3. \A i \in 1..n : ~IsErr(xs[i])
  BY <1>1 DEF Errors
<1>4. n \in Nat /\ n > 1
  BY <1>1, <1>2
<1> DEFINE ys == Tail(xs)
<1> HIDE DEF xs
<1>5. /\ ys \in Seq(V) /\ Len(ys) = n - 1 /\ ys # <<>>
      /\ \A i \in 1..(n - 1) : ys[i] = xs[i + 1] /\ i + 1 \in 1..n
  BY <1>2, <1>4, TailFacts
<1> HIDE DEF n, ys
<1>6. Args = [List EXCEPT !.cell = ys]
  BY DEF Args, ys, xs
<1>7. Fits(Args, V) /\ Args.type = "sexpr" /\ Args.cell = ys
  BY <1>2, <1>5, <1>6, Refilled
<1>8. Ready(Args, V)
  BY <1>2, <1>3, <1>5, <1>7 DEF Ready
<1>9. Fun \in V
  BY <1>2, <1>4 DEF Fun, xs, n
<1> QED BY <1>8, <1>9 DEF StateFits, Sound

\* What the environments bind.
LEMMA LookedUp ==
    ASSUME NEW V, NEW S, NEW F, NEW s, NEW k, NEW c, StateFits(c, s, k, V, S, F), NEW x
    PROVE  Answer(lenv_get(c, x), V)
<1>1. c \in Seq(S) /\ \A e \in S : Settled(e, V)
  BY DEF StateFits
<1>2. CASE Binding(c, x) = {}
  BY <1>2, Plain DEF lenv_get
<1>3. CASE Binding(c, x) # {}
  <2> DEFINE T == Binding(c, x)
             d == Max(T)
  <2>1. T \in SUBSET (1..Len(c)) /\ Len(c) \in Nat
    BY <1>1 DEF Binding
  <2> HIDE DEF T
  <2>2. d \in T
    BY <1>3, <2>1, MaxOf DEF T
  <2> HIDE DEF d
  <2>3. d \in 1..Len(c) /\ x \in DOMAIN c[d]
    BY <2>2 DEF T, Binding
  <2>4. c[d][x] \in V /\ Final(c[d][x])
    BY <1>1, <2>3 DEF Settled
  <2>5. lenv_get(c, x) = c[d][x]
    BY <1>3 DEF lenv_get, d, T
  <2> QED BY <2>4, <2>5 DEF Answer, StateFits, Sound
<1> QED BY <1>2, <1>3

LEMMA FitsCalls ==
    ASSUME NEW V, NEW S, NEW F, StateFits(chain, stack, ctl, V, S, F), stack # <<>>
    PROVE  StateFits(chain, Front(stack), ctl, V, S, F) /\ FrameFits(Top, V)
<1>1. stack \in Seq(F)
  BY DEF StateFits
<1>2. Front(stack) \in Seq(F) /\ Top \in F
  BY <1>1, FrontFacts DEF Front, Top
<1> QED BY <1>2 DEF StateFits

\* A step that pops the frame on top and gives, or evaluates, a value.
LEMMA FinitePop ==
    ASSUME NEW V, NEW S, NEW F, StateFits(chain, stack, ctl, V, S, F), stack # <<>>,
           NEW v, Fits(v, V)
    PROVE  Finite(chain, Front(stack), Eval(v))
           /\ (Final(v) => Finite(chain, Front(stack), Give(v)))
<1> DEFINE t == Front(stack)
<1>1. StateFits(chain, t, ctl, V, S, F)
  BY FitsCalls
<1> HIDE DEF t
<1>2. Finite(chain, t, Eval(v)) /\ (Final(v) => Finite(chain, t, Give(v)))
  BY <1>1, FitsControl
<1> QED BY <1>2 DEF t

\* One that puts another frame in its place.
LEMMA FiniteReplace ==
    ASSUME NEW V, NEW S, NEW F, StateFits(chain, stack, ctl, V, S, F), stack # <<>>,
           NEW fr, FrameFits(fr, V), NEW v, Fits(v, V)
    PROVE  Finite(chain, Append(Front(stack), fr), Eval(v))
           /\ (Final(v) => Finite(chain, Append(Front(stack), fr), Give(v)))
<1> DEFINE t == Front(stack)
           u == Append(t, fr)
<1>1. StateFits(chain, t, ctl, V, S, F)
  BY FitsCalls
<1> HIDE DEF t
<1>2. StateFits(chain, u, ctl, V, S, F \cup {fr})
  BY <1>1, FitsFrame
<1> DEFINE G == F \cup {fr}
<1> HIDE DEF u, G
<1>3. Finite(chain, u, Eval(v)) /\ (Final(v) => Finite(chain, u, Give(v)))
  BY <1>2, FitsControl DEF G
<1> QED BY <1>3 DEF t, u

LEMMA FiniteEvaluates ==
  Nested /\ Finite(chain, stack, ctl) /\ Evaluates => Finite(chain, stack, ctl)'
<1> SUFFICES ASSUME Nested, Finite(chain, stack, ctl), Evaluates
             PROVE  Finite(chain', stack', ctl')
  OBVIOUS
<1> USE DEF Pop
<1>1. PICK V, S, F : StateFits(chain, stack, ctl, V, S, F)
  BY DEF Finite
<1>2. Sound(V) /\ ctl.v \in V /\ Fits(ctl.v, V) /\ Expressions \subseteq V
  BY <1>1 DEF StateFits, Sound
<1>3. \A v \in V : Fits(v, V)
  BY <1>2 DEF Sound
<1>4. ASSUME UNCHANGED chain, stack # <<>>, stack' = Front(stack),
             NEW v, Answer(v, V), ctl' = Give(v)
      PROVE  Finite(chain', stack', ctl')
  BY <1>1, <1>4, FinitePop DEF Answer
<1>5. ASSUME UNCHANGED chain, stack # <<>>, stack' = Front(stack),
             NEW v, Fits(v, V), ctl' = Eval(v)
      PROVE  Finite(chain', stack', ctl')
  BY <1>1, <1>5, FinitePop
<1>6. \A what : Giving(what) => stack # <<>>
  BY DEF Giving
<1>7. AllCells => Giving("cells") /\ stack # <<>>
  BY <1>6 DEF AllCells
<1>8. \A b : Calls(b) =>
         /\ Ready(Args, V) /\ Fits(Fun, V) /\ Fun \in V /\ stack # <<>>
         /\ Fun.type = "fun" /\ Fun.builtin = b
  BY <1>1, <1>7, ArgsReady DEF Calls, Applies
<1>9. \A e : Answer(lval_err(e), V)
  BY Plain
<1>10. Answer(lval_sexpr(<<>>), V)
  BY Plain
<1>11. CASE EvalSymbol
  <2>1. Answer(lenv_get(chain, ctl.v.symbol), V)
    BY <1>1, LookedUp
  <2> DEFINE v == lenv_get(chain, ctl.v.symbol)
  <2>2. UNCHANGED <<chain, stack>> /\ ctl' = Give(v)
    BY <1>11 DEF EvalSymbol
  <2> HIDE DEF v
  <2>3. Finite(chain, stack, Give(v))
    BY <1>1, <2>1, FitsControl DEF Answer, v
  <2> QED BY <2>2, <2>3
<1>12. CASE EvalSelf
  <2>1. Finite(chain, stack, Give(ctl.v))
    BY <1>1, <1>2, <1>12, FitsControl DEF EvalSelf
  <2> QED BY <1>12, <2>1 DEF EvalSelf
<1>13. CASE EvalList
  <2> DEFINE fr == Cells(ctl.v, 1)
             v == ctl.v.cell[1]
             u == Append(stack, fr)
  <2>1. ctl.v.type = "sexpr" /\ ctl.v.cell # <<>> /\ ctl.v.cell \in Seq(V)
    BY <1>2, <1>13 DEF EvalList, Fits
  <2>2. 1 \in 1..Len(ctl.v.cell) /\ v \in V
    BY <2>1
  <2>3. FrameFits(fr, V)
    BY <1>2, <2>1, <2>2 DEF FrameFits, Cells
  <2>4. UNCHANGED chain /\ stack' = u /\ ctl' = Eval(v)
    BY <1>13 DEF EvalList, Push
  <2> HIDE DEF fr, v
  <2>5. StateFits(chain, u, ctl, V, S, F \cup {fr})
    BY <1>1, <2>3, FitsFrame
  <2> HIDE DEF u
  <2>6. Finite(chain, u, Eval(v))
    BY <1>3, <2>2, <2>5, FitsControl
  <2> QED BY <2>4, <2>6
<1>14. CASE NextCell
  <2>1. Giving("cells") /\ Top.at < Len(Top.list.cell) /\ stack # <<>>
    BY <1>6, <1>14 DEF NextCell
  <2>2. /\ Top.list.cell \in Seq(V) /\ Top.at \in 1..Len(Top.list.cell)
        /\ Fits(List, V) /\ List.type = "sexpr"
        /\ Len(List.cell) = Len(Top.list.cell)
        /\ \A i \in 1..Top.at : Final(List.cell[i])
    BY <1>1, <2>1, EvaluatedCells
  <2> DEFINE fr == Cells(List, Top.at + 1)
             v == Top.list.cell[Top.at + 1]
  <2>3. PICK W : Sound(W) /\ V \subseteq W /\ List \in W
    BY <1>2, <2>2, Joining
  <2>4. StateFits(chain, stack, ctl, W, S, F)
    BY <1>1, <2>3, FitsWider
  <2>5. Top.at + 1 \in 1..Len(List.cell) /\ Top.at \in Int
    BY <2>1, <2>2
  <2>6. v \in V
    BY <2>2, <2>5
  <2>7. FrameFits(fr, W)
    <3>1. fr.what = "cells" /\ fr.list = List /\ fr.at = Top.at + 1
      BY DEF Cells
    <3>2. fr.at - 1 = Top.at
      BY <2>5, <3>1
    <3> HIDE DEF fr
    <3> QED BY <2>2, <2>3, <2>5, <3>1, <3>2 DEF FrameFits
  <2>8. UNCHANGED chain /\ stack' = Append(Front(stack), fr) /\ ctl' = Eval(v)
    BY <1>14 DEF NextCell
  <2>9. Fits(v, W)
    BY <2>3, <2>6 DEF Sound
  <2> HIDE DEF fr, v
  <2>10. Finite(chain, Append(Front(stack), fr), Eval(v))
    BY <2>1, <2>4, <2>7, <2>9, FiniteReplace
  <2> QED BY <2>8, <2>10
<1>15. CASE FirstError
  <2>1. AllCells /\ Errors # {} /\ UNCHANGED chain /\ stack' = Front(stack)
    BY <1>15 DEF FirstError
  <2>2. List.cell \in Seq(V)
    BY <1>1, <1>7, <2>1, EvaluatedCells
  <2>3. Errors \in SUBSET Nat
    BY DEF Errors
  <2> DEFINE i == Min(Errors)
             v == List.cell[i]
  <2>4. i \in Errors
    BY <2>1, <2>3, MinOf
  <2>5. ctl' = Give(v)
    BY <1>15 DEF FirstError
  <2> HIDE DEF i
  <2>6. v \in V /\ IsErr(v)
    BY <2>2, <2>4 DEF Errors
  <2>7. Answer(v, V)
    BY <1>3, <2>6 DEF Answer, Final, IsErr
  <2> HIDE DEF v
  <2> QED BY <1>4, <1>7, <2>1, <2>5, <2>7
<1>16. CASE Single
  <2>1. AllCells /\ UNCHANGED chain /\ stack' = Front(stack) /\ ctl' = Eval(List.cell[1])
        /\ Len(List.cell) = 1
    BY <1>16 DEF Single
  <2>2. List.cell \in Seq(V)
    BY <1>1, <1>7, <2>1, EvaluatedCells
  <2>3. Fits(List.cell[1], V)
    BY <1>3, <2>1, <2>2
  <2> QED BY <1>5, <1>7, <2>1, <2>3
<1>17. CASE NotAFunction
  BY <1>4, <1>7, <1>9, <1>17 DEF NotAFunction, Applies
<1>18. CASE CallComputing
  <2>1. PICK b \in Computing : Calls(b) /\ ctl' = Give(Computed(b, Args))
    BY <1>18 DEF CallComputing
  <2>2. Answer(Computed(b, Args), V)
    BY <1>2, <1>8, <2>1, ComputedAnswers
  <2> QED BY <1>4, <1>8, <1>18, <2>1, <2>2 DEF CallComputing
<1>19. CASE CallEval
  <2>1. Calls("eval") /\ UNCHANGED chain /\ stack' = Front(stack)
    BY <1>19 DEF CallEval
  <2>2. CASE ~EvalTakes
    BY <1>4, <1>8, <1>9, <1>19, <2>1, <2>2 DEF CallEval
  <2>3. CASE EvalTakes
    <3>1. Fits(AsSexpr(Args.cell[1]), V)
      <4>1. Fits(Args.cell[1], V) /\ Args.cell[1].type = "qexpr"
        BY <1>2, <1>8, <2>1, <2>3, ReadyFacts DEF EvalTakes, Counted, Typed
      <4> QED BY <4>1, Retyped DEF AsSexpr
    <3> QED BY <1>5, <1>8, <1>19, <2>1, <2>3, <3>1 DEF CallEval
  <2> QED BY <2>2, <2>3
<1>20. CASE CallIf
  <2>1. Calls("if") /\ UNCHANGED chain /\ stack' = Front(stack)
    BY <1>20 DEF CallIf
  <2>2. CASE ~IfTakes
    BY <1>4, <1>8, <1>9, <1>20, <2>1, <2>2 DEF CallIf
  <2>3. CASE IfTakes
    <3> DEFINE i == IF Args.cell[1].number # 0 THEN 2 ELSE 3
    <3>1. i \in 1..Len(Args.cell) /\ Args.cell[i].type = "qexpr"
      BY <2>3 DEF IfTakes, Counted, Typed
    <3>2. ctl' = Eval(AsSexpr(Args.cell[i]))
      BY <1>20, <2>3 DEF CallIf
    <3> HIDE DEF i
    <3>3. Fits(Args.cell[i], V)
      BY <1>2, <1>8, <2>1, <3>1, ReadyFacts
    <3>4. Fits(AsSexpr(Args.cell[i]), V)
      BY <3>1, <3>3, Retyped DEF AsSexpr
    <3> QED BY <1>5, <1>8, <2>1, <3>2, <3>4
  <2> QED BY <2>2, <2>3
<1>21. CASE CallPrint
  BY <1>4, <1>8, <1>10, <1>21 DEF CallPrint
<1>22. CASE CallLoad
  <2>1. Calls("use") /\ UNCHANGED chain
    BY <1>22 DEF CallLoad
  <2>2. CASE LoadTakes /\ Args.cell[1].string \in DOMAIN Library
    <3> DEFINE fr == Load(Library[Args.cell[1].string])
               v == lval_sexpr(<<>>)
    <3>1. FrameFits(fr, V)
      BY <2>2, LibraryAssumption DEF FrameFits, Load
    <3>2. stack' = Append(Front(stack), fr) /\ ctl' = Give(v)
      BY <1>22, <2>2 DEF CallLoad
    <3>3. Fits(v, V) /\ Final(v)
      BY <1>10 DEF Answer
    <3> HIDE DEF fr, v
    <3>4. Finite(chain, Append(Front(stack), fr), Give(v))
      BY <1>1, <1>8, <2>1, <3>1, <3>3, FiniteReplace
    <3> QED BY <2>1, <3>2, <3>4
  <2>3. CASE ~(LoadTakes /\ Args.cell[1].string \in DOMAIN Library)
    BY <1>4, <1>8, <1>9, <1>22, <2>1, <2>3 DEF CallLoad
  <2> QED BY <2>2, <2>3
<1>23. CASE CallFails
  <2>1. Calls("none") /\ UNCHANGED chain /\ stack' = Front(stack)
    BY <1>23 DEF CallFails
  <2>2. PICK e \in Bound.errs : ctl' = Give(e)
    BY <1>23 DEF CallFails
  <2>3. Answer(e, V)
    BY <1>2, <1>8, <2>1, BindAnswers DEF Bound, IsLambda
  <2> QED BY <1>4, <1>8, <2>1, <2>2, <2>3
<1>24. CASE PartialCall
  <2>1. /\ Calls("none") /\ Bound.errs = {} /\ UNCHANGED chain /\ stack' = Front(stack)
        /\ ctl' = Give(Bound.fun)
    BY <1>24 DEF PartialCall
  <2>2. PICK W : /\ Sound(W) /\ V \subseteq W
                 /\ Bound.errs = {} => Fits(Bound.fun, W) /\ IsLambda(Bound.fun)
    BY <1>2, <1>8, <2>1, BindAnswers DEF Bound, IsLambda
  <2>3. StateFits(chain, stack, ctl, W, S, F)
    BY <1>1, <2>2, FitsWider
  <2>4. Fits(Bound.fun, W) /\ Final(Bound.fun)
    BY <2>1, <2>2 DEF Final, IsLambda
  <2>5. Finite(chain, Front(stack), Give(Bound.fun))
    BY <1>8, <2>1, <2>3, <2>4, FinitePop
  <2> QED BY <2>1, <2>5
<1>25. CASE Enter
  <2>1. /\ Calls("none") /\ Bound.errs = {}
        /\ chain' = Append(chain, Bound.fun.environment)
        /\ stack' = Append(Front(stack), Body) /\ ctl' = Eval(AsSexpr(Bound.fun.body))
    BY <1>25 DEF Enter
  <2>2. PICK W : /\ Sound(W) /\ V \subseteq W
                 /\ Bound.errs = {} => Fits(Bound.fun, W) /\ IsLambda(Bound.fun)
    BY <1>2, <1>8, <2>1, BindAnswers DEF Bound, IsLambda
  <2> DEFINE e == Bound.fun.environment
             body == Bound.fun.body
             t == Front(stack)
             u == Append(t, Body)
             c == Append(chain, e)
  <2>3. Settled(e, W) /\ body \in W /\ body.type = "qexpr"
    BY <2>1, <2>2 DEF Fits
  <2>4. FrameFits(Body, W)
    BY DEF FrameFits, Body
  <2>5. chain' = c /\ stack' = u /\ ctl' = Eval(AsSexpr(body))
    BY <2>1
  <2>6. StateFits(chain, t, ctl, W, S, F)
    <3>1. StateFits(chain, t, ctl, V, S, F)
      BY <1>1, <1>8, <2>1, FitsCalls
    <3> HIDE DEF t
    <3> QED BY <2>2, <3>1, FitsWider
  <2> HIDE DEF e, body, t
  <2> DEFINE G == F \cup {Body}
             T == S \cup {e}
  <2>7. StateFits(chain, u, ctl, W, S, G)
    BY <2>4, <2>6, FitsFrame
  <2> HIDE DEF u, G
  <2>8. StateFits(c, u, ctl, W, T, G)
    BY <2>3, <2>7, FitsEntered
  <2> HIDE DEF c, T
  <2>9. Fits(AsSexpr(body), W)
    BY <2>2, <2>3, Retyped DEF AsSexpr, Sound
  <2>10. Finite(c, u, Eval(AsSexpr(body)))
    BY <2>8, <2>9, FitsControl
  <2> QED BY <2>5, <2>10
<1>26. CASE Leave
  <2>1. /\ stack # <<>> /\ stack[Len(stack)].what = "body"
        /\ chain' = Front(chain) /\ stack' = Front(stack) /\ ctl' = ctl
    BY <1>26 DEF Leave, Giving, Top
  <2>2. chain # <<>>
    BY <2>1, NestedLeave DEF Nested
  <2>3. chain \in Seq(S)
    BY <1>1 DEF StateFits
  <2>4. Front(chain) \in Seq(S)
    BY <2>2, <2>3, FrontFacts DEF Front
  <2>5. StateFits(chain, Front(stack), ctl, V, S, F)
    BY <1>1, <2>1, FitsCalls
  <2> DEFINE c == Front(chain)
             t == Front(stack)
  <2> HIDE DEF c, t
  <2>6. StateFits(c, t, ctl, V, S, F)
    BY <2>4, <2>5 DEF StateFits, c, t
  <2>7. Finite(c, t, ctl)
    BY <2>6 DEF Finite
  <2> QED BY <2>1, <2>7 DEF c, t
<1>27. CASE CallDefine
  <2>1. PICK b \in Definers :
           LET r == btinfn_define(chain[DefinerFrame(b)], Args, b)
           IN  /\ Calls(b) /\ chain' = [chain EXCEPT ![DefinerFrame(b)] = r.env]
               /\ ctl' = Give(r.value)
    BY <1>27 DEF CallDefine
  <2> DEFINE d == DefinerFrame(b)
             r == btinfn_define(chain[d], Args, b)
             e == r.env
             v == r.value
             c == [chain EXCEPT ![d] = e]
             t == Front(stack)
             T == S \cup {e}
  <2>2. chain' = c /\ ctl' = Give(v) /\ stack' = t /\ Calls(b)
    BY <1>27, <2>1 DEF CallDefine
  <2>3. chain \in Seq(S) /\ \A f \in S : Settled(f, V)
    BY <1>1 DEF StateFits
  <2>4. Len(chain) \in Nat \ {0}
    <3>1. PICK G : stack \in Seq(G)
      BY DEF Nested, NestOf
    <3>2. CallsIn(stack) \in Nat /\ Len(chain) = 1 + CallsIn(stack)
      BY <3>1, BodiesCount DEF Nested, NestOf
    <3> QED BY <3>2
  <2>5. d \in 1..Len(chain)
    BY <2>4 DEF DefinerFrame, Here
  <2>6. Settled(chain[d], V)
    BY <2>3, <2>5
  <2>7. StateFits(chain, t, ctl, V, S, F)
    BY <1>1, <1>8, <2>2, FitsCalls
  <2> HIDE DEF d, t
  <2>8. Settled(e, V) /\ Answer(v, V)
    BY <1>2, <1>8, <2>2, <2>6, DefineAnswers
  <2> HIDE DEF e, v
  <2>9. StateFits(c, t, ctl, V, T, F)
    BY <2>7, <2>8, FitsWritten
  <2> HIDE DEF c, T
  <2>10. Finite(c, t, Give(v))
    BY <2>8, <2>9, FitsControl DEF Answer
  <2> QED BY <2>2, <2>10
<1>28. CASE LoadNext
  <2>1. /\ stack # <<>> /\ Top.what = "load" /\ Top.rest # <<>> /\ UNCHANGED chain
        /\ stack' = Append(Front(stack), Load(Tail(Top.rest)))
        /\ ctl' = Eval(Head(Top.rest))
    BY <1>28 DEF LoadNext, Giving
  <2>2. Top.rest \in Seq(Expressions)
    BY <1>1, <2>1, FitsCalls DEF FrameFits, Content
  <2> DEFINE fr == Load(Tail(Top.rest))
             v == Head(Top.rest)
  <2>3. Tail(Top.rest) \in Content /\ v \in Expressions
    BY <2>1, <2>2 DEF Content
  <2>4. FrameFits(fr, V) /\ Fits(v, V)
    BY <1>2, <1>3, <2>3 DEF FrameFits, Load
  <2> HIDE DEF fr, v
  <2>5. Finite(chain, Append(Front(stack), fr), Eval(v))
    BY <1>1, <2>1, <2>4, FiniteReplace
  <2> QED BY <2>1, <2>5 DEF fr, v
<1>29. CASE LoadDone
  BY <1>4, <1>6, <1>10, <1>29 DEF LoadDone
<1> QED BY <1>11, <1>12, <1>13, <1>14, <1>15, <1>16, <1>17, <1>18, <1>19, <1>20, <1>21,
           <1>22, <1>23, <1>24, <1>25, <1>26, <1>27, <1>28, <1>29 DEF Evaluates

----------------------------------------------------------------------------
(* The command line *)

\* What is still to be read.
Reading ==
    /\ program \in Programs /\ options \in Seq(Options) /\ code \in SUBSET Text
    /\ lines \in Seq(Text)

Evaluable == Nested /\ Reading /\ Finite(chain, stack, ctl)

LEMMA ProgramFacts ==
    ASSUME NEW p \in Programs
    PROVE  p.options \in Seq(Options) /\ p.args \in Seq(Text) /\ p.typed \in Seq(Text)
BY ProgramsAssumption

LEMMA ReadingInit == Init => Reading
BY ProgramFacts DEF Init, Reading

LEMMA ReadingNext == Reading /\ [Next]_vars => Reading'
<1> SUFFICES ASSUME Reading, [Next]_vars PROVE Reading'
  OBVIOUS
<1>1. CASE UNCHANGED <<command, lines>>
  BY <1>1 DEF Reading, command
<1>2. CASE Option
  <2>1. options \in Seq(Options) /\ options # <<>> /\ options' = Tail(options)
    BY <1>2 DEF Option, Reading
  <2>2. options' \in Seq(Options) /\ Head(options) \in Options
    BY <2>1
  <2>3. Head(options).flag = "eval" => Head(options).text \in Text
    BY <2>2 DEF Options
  <2>4. code' \in SUBSET Text
    BY <1>2, <2>3 DEF Option, Reading
  <2> QED BY <1>2, <2>2, <2>4 DEF Option, Reading
<1>3. CASE OptionsEnd
  <2>1. program.args \in Seq(Text) /\ program.typed \in Seq(Text)
    BY ProgramFacts DEF Reading
  <2>2. \A text \in code : <<text>> \in Seq(Text)
    BY DEF Reading
  <2>3. lines' \in Seq(Text)
    BY <1>3, <2>1, <2>2 DEF OptionsEnd, Reading
  <2> QED BY <1>3, <2>3 DEF OptionsEnd, Reading
<1>4. ASSUME NEW how, Reads(how) PROVE Reading'
  <2>1. lines \in Seq(Text) /\ lines # <<>> /\ lines' = Tail(lines) /\ UNCHANGED command
    BY <1>4 DEF Reads, Reading
  <2>2. lines' \in Seq(Text)
    BY <2>1
  <2> QED BY <2>1, <2>2 DEF Reading, command
<1>5. CASE RunScript \/ RunCode \/ RunLine
  BY <1>4, <1>5 DEF RunScript, RunCode, RunLine
<1>6. CASE ScriptDone \/ CodeNext \/ CodeDone \/ LineDone
  BY <1>1, <1>6 DEF ScriptDone, CodeNext, CodeDone, LineDone
<1>7. CASE Evaluates /\ UNCHANGED <<command, lines, status>>
  BY <1>1, <1>7
<1>8. CASE UNCHANGED vars
  BY <1>1, <1>8 DEF vars
<1> QED BY <1>2, <1>3, <1>5, <1>6, <1>7, <1>8 DEF Next

\* What a text holds is what is read.
LEMMA TextFits ==
    ASSUME Reading, lines # <<>>
    PROVE  Head(lines) \in SUBSET Content
<1>1. Head(lines) \in Text
  BY DEF Reading
<1> QED BY <1>1 DEF Text

\* A run starts below nothing.
LEMMA StackOf ==
    ASSUME NEW V, NEW S, NEW F, NEW c, NEW k, StateFits(c, <<>>, k, V, S, F),
           NEW a, FrameFits(a, V), NEW b, FrameFits(b, V)
    PROVE  /\ StateFits(c, <<a>>, k, V, S, {a, b})
           /\ StateFits(c, <<a, b>>, k, V, S, {a, b})
<1>1. <<a>> \in Seq({a, b}) /\ <<a, b>> \in Seq({a, b})
  OBVIOUS
<1>2. \A fr \in {a, b} : FrameFits(fr, V)
  OBVIOUS
<1> DEFINE s == <<a>>
           t == <<a, b>>
           G == {a, b}
<1> HIDE DEF s, t, G
<1>3. StateFits(c, s, k, V, S, G) /\ StateFits(c, t, k, V, S, G)
  BY <1>1, <1>2 DEF StateFits, s, t, G
<1> QED BY <1>3 DEF s, t, G

LEMMA FiniteInit == Init => Finite(chain, stack, ctl)
<1> SUFFICES ASSUME Init PROVE Finite(chain, stack, ctl)
  OBVIOUS
<1>1. PICK V : Sound(V) /\ Expressions \subseteq V /\ Settled(lenv_init, V)
  BY StartFits
<1> DEFINE e == lenv_init
           c == <<e>>
           none == <<>>
           v == lval_sexpr(<<>>)
<1>2. c \in Seq({e}) /\ none \in Seq({}) /\ \A f \in {e} : Settled(f, V)
  BY <1>1
<1>3. Fits(v, V) /\ Final(v)
  BY Plain DEF Answer
<1>4. PICK W : Sound(W) /\ V \subseteq W /\ v \in W
  <2> HIDE DEF v
  <2> QED BY <1>1, <1>3, Joining
<1>5. Settled(e, W)
  BY <1>1, <1>4 DEF Settled
<1>6. Give(v).v = v /\ Give(v).op = "give"
  BY DEF Give
<1>7. chain = c /\ stack = none /\ ctl = Give(v)
  BY DEF Init, NewEvaluation
<1> DEFINE S == {e}
           F == {}
<1>8. \A f \in S : Settled(f, W)
  BY <1>5
<1>9. \A fr \in F : FrameFits(fr, W)
  OBVIOUS
<1> HIDE DEF c, none, v, e, S, F
<1>10. StateFits(c, none, Give(v), W, S, F)
  BY <1>1, <1>2, <1>3, <1>4, <1>6, <1>8, <1>9 DEF StateFits, S, F
<1> QED BY <1>7, <1>10 DEF Finite

LEMMA FiniteNext == Evaluable /\ [Next]_vars => Finite(chain, stack, ctl)'
<1> SUFFICES ASSUME Evaluable, [Next]_vars PROVE Finite(chain', stack', ctl')
  OBVIOUS
<1>1. PICK V, S, F : StateFits(chain, stack, ctl, V, S, F)
  BY DEF Evaluable, Finite
<1>2. Sound(V) /\ ctl.v \in V /\ Fits(ctl.v, V) /\ Expressions \subseteq V
  BY <1>1 DEF StateFits, Sound
<1>3. \A v \in V : Fits(v, V)
  BY <1>2 DEF Sound
<1>4. CASE UNCHANGED <<chain, stack, ctl>>
  BY <1>4 DEF Evaluable
<1>5. CASE Evaluates
  BY <1>5, FiniteEvaluates DEF Evaluable
<1>6. CASE Option \/ OptionsEnd \/ UNCHANGED vars
  BY <1>4, <1>6 DEF Option, OptionsEnd, vars, evaluation
<1>7. CASE ScriptDone \/ CodeDone \/ LineDone
  <2>1. stack # <<>> /\ UNCHANGED <<chain, ctl>> /\ stack' = Front(stack)
    BY <1>7 DEF ScriptDone, CodeDone, LineDone, Giving, Pop
  <2>2. StateFits(chain, Front(stack), ctl, V, S, F)
    BY <1>1, <2>1, FitsCalls
  <2> QED BY <2>1, <2>2 DEF Finite
<1>8. \A how : Reads(how) => UNCHANGED chain /\ StateFits(chain, <<>>, ctl, V, S, F)
                             /\ Head(lines) \in SUBSET Content
  BY <1>1, TextFits DEF Reads, Evaluable
<1>9. Answer(lval_sexpr(<<>>), V) /\ Answer(Unparsed, V)
  BY Plain DEF Unparsed
<1>10. FrameFits(Script, V) /\ FrameFits(Line, V)
  BY DEF FrameFits, Script, Line
<1>11. CASE RunScript
  <2>1. UNCHANGED chain /\ StateFits(chain, <<>>, ctl, V, S, F) /\ Head(lines) \in SUBSET Content
    BY <1>8, <1>11 DEF RunScript
  <2>2. CASE stack' = <<Script>> /\ ctl' = Give(Unparsed)
    <3>1. StateFits(chain, <<Script>>, ctl, V, S, {Script, Script})
      BY <1>10, <2>1, StackOf
    <3> DEFINE s == <<Script>>
               G == {Script, Script}
    <3> HIDE DEF s, G
    <3>2. Finite(chain, s, Give(Unparsed))
      BY <1>9, <3>1, FitsControl DEF Answer, s, G
    <3> QED BY <2>1, <2>2, <3>2 DEF s
  <2>3. ASSUME NEW cells \in Head(lines), stack' = <<Script, Load(cells)>>,
               ctl' = Give(lval_sexpr(<<>>))
        PROVE  Finite(chain', stack', ctl')
    <3> DEFINE fr == Load(cells)
               v == lval_sexpr(<<>>)
               s == <<Script, fr>>
               G == {Script, fr}
    <3>1. FrameFits(fr, V)
      BY <2>1, <2>3 DEF FrameFits, Load
    <3>2. Answer(v, V)
      BY <1>9
    <3> HIDE DEF fr, v
    <3>3. StateFits(chain, s, ctl, V, S, G)
      BY <1>10, <2>1, <3>1, StackOf
    <3> HIDE DEF s, G
    <3>4. Finite(chain, s, Give(v))
      BY <3>2, <3>3, FitsControl DEF Answer
    <3> QED BY <2>1, <2>3, <3>4 DEF s, fr, v
  <2> QED BY <1>11, <2>2, <2>3 DEF RunScript
<1>12. CASE RunCode
  <2>1. UNCHANGED chain /\ StateFits(chain, <<>>, ctl, V, S, F) /\ Head(lines) \in SUBSET Content
    BY <1>8, <1>12 DEF RunCode
  <2>2. PICK rest, err : rest \in Content /\ stack' = <<Code(rest, err)>>
    <3>1. <<>> \in Content
      BY DEF Content
    <3> QED BY <1>12, <2>1, <3>1 DEF RunCode
  <2> DEFINE fr == Code(rest, err)
             v == lval_sexpr(<<>>)
             s == <<fr>>
             G == {fr, fr}
  <2>3. FrameFits(fr, V) /\ Answer(v, V)
    BY <1>9, <2>2 DEF FrameFits, Code
  <2>4. ctl' = Give(v)
    BY <1>12 DEF RunCode
  <2> HIDE DEF fr, v
  <2>5. StateFits(chain, s, ctl, V, S, G)
    BY <2>1, <2>3, StackOf
  <2> HIDE DEF s, G
  <2>6. Finite(chain, s, Give(v))
    BY <2>3, <2>5, FitsControl DEF Answer
  <2> QED BY <2>1, <2>2, <2>4, <2>6 DEF s, fr
<1>13. CASE RunLine
  <2>1. /\ UNCHANGED chain /\ StateFits(chain, <<>>, ctl, V, S, F)
        /\ Head(lines) \in SUBSET Content /\ stack' = <<Line>>
    BY <1>8, <1>13 DEF RunLine
  <2> DEFINE s == <<Line>>
             G == {Line, Line}
  <2>2. StateFits(chain, s, ctl, V, S, G)
    BY <1>10, <2>1, StackOf
  <2> HIDE DEF s, G
  <2>3. CASE ctl' = Give(Unparsed)
    <3>1. Finite(chain, s, Give(Unparsed))
      BY <1>9, <2>2, FitsControl DEF Answer
    <3> QED BY <2>1, <2>3, <3>1 DEF s
  <2>4. ASSUME NEW cells \in Head(lines), ctl' = Eval(lval_sexpr(cells))
        PROVE  Finite(chain', stack', ctl')
    <3> DEFINE v == lval_sexpr(cells)
    <3>1. cells \in Seq(V)
      <4>1. cells \in Seq(Expressions)
        BY <2>1, <2>4 DEF Content
      <4> QED BY <1>2, <4>1, SeqMonotonic
    <3>2. Fits(v, V)
      BY <3>1 DEF Fits, IsLambda, Conditions, lval_sexpr
    <3> HIDE DEF v
    <3>3. Finite(chain, s, Eval(v))
      BY <2>2, <3>2, FitsControl
    <3> QED BY <2>1, <2>4, <3>3 DEF s, v
  <2> QED BY <1>13, <2>3, <2>4 DEF RunLine
<1>14. CASE CodeNext
  <2>1. /\ stack # <<>> /\ Top.what = "code" /\ Top.rest # <<>> /\ UNCHANGED chain
        /\ stack' = <<Code(Tail(Top.rest), Kept)>> /\ ctl' = Eval(Head(Top.rest))
    BY <1>14 DEF CodeNext, Giving
  <2>2. Top.rest \in Seq(Expressions)
    BY <1>1, <2>1, FitsCalls DEF FrameFits, Content
  <2> DEFINE fr == Code(Tail(Top.rest), Kept)
             v == Head(Top.rest)
             s == <<fr>>
             G == {fr, fr}
             none == <<>>
  <2>3. Tail(Top.rest) \in Content /\ v \in Expressions
    BY <2>1, <2>2 DEF Content
  <2>4. FrameFits(fr, V) /\ Fits(v, V)
    BY <1>2, <1>3, <2>3 DEF FrameFits, Code
  <2>5. none \in Seq(F)
    OBVIOUS
  <2> HIDE DEF fr, v, none
  <2>6. StateFits(chain, none, ctl, V, S, F)
    BY <1>1, <2>5 DEF StateFits
  <2>7. StateFits(chain, s, ctl, V, S, G)
    BY <2>4, <2>6, StackOf DEF none
  <2> HIDE DEF s, G
  <2>8. Finite(chain, s, Eval(v))
    BY <2>4, <2>7, FitsControl
  <2> QED BY <2>1, <2>8 DEF s, fr, v
<1> QED BY <1>5, <1>6, <1>7, <1>11, <1>12, <1>13, <1>14 DEF Next

\* Evaluation never gives a symbol or an expression that is left to evaluate, and no
\* variable holds one, nor an error: eval.c:461-589, env.c:113-145.
THEOREM NothingLeftToEvaluate == Spec => []ValuesAreFinal
<1>1. Evaluable => ValuesAreFinal
  <2> SUFFICES ASSUME Evaluable PROVE ValuesAreFinal
    OBVIOUS
  <2>1. PICK V, S, F : StateFits(chain, stack, ctl, V, S, F)
    BY DEF Evaluable, Finite
  <2>2. \A d \in 1..Len(chain) : Settled(chain[d], V)
    BY <2>1 DEF StateFits
  <2> QED BY <2>1, <2>2 DEF ValuesAreFinal, StateFits, Settled, Here
<1>2. Init => Evaluable
  BY NestedInit, ReadingInit, FiniteInit DEF Evaluable
<1>3. Evaluable /\ [Next]_vars => Evaluable'
  <2> SUFFICES ASSUME Evaluable, [Next]_vars PROVE Evaluable'
    OBVIOUS
  <2>1. Nested' /\ Reading'
    BY NestedNext, ReadingNext DEF Evaluable
  <2>2. Finite(chain, stack, ctl)'
    BY FiniteNext
  <2> QED BY <2>1, <2>2 DEF Evaluable
<1> QED BY <1>1, <1>2, <1>3, PTL DEF Spec

----------------------------------------------------------------------------
(* The rules of LispRules.  The stack is read as tasks that are under way: each frame    *)
(* has an expression, a list or a file to work on, and what its task may answer is what  *)
(* the frame below may be given.                                                         *)

\* What each frame of the stack works on: an expression, or several, from a chain and an
\* output.
Task(e, c, o) == [goal |-> e, chain |-> c, out |-> o]

\* A script that is loaded, or does not match.
ScriptTakes(text, m) ==
    \/ text = {} /\ m = Is(Unparsed, <<lenv_init>>, <<>>)
    \/ /\ m.value = Nil
       /\ \E cells \in text : \E l \in Finished(Ran(cells, <<lenv_init>>, <<>>)) :
             m.chain = l.chain /\ m.out = l.out

ErrorOf(v, err) == IF IsErr(v) THEN {v} ELSE err

\* The code of -e with the values it has given so far.
CodeTakes(fr, text, m) ==
    \/ /\ text = {} /\ fr.rest = <<>> /\ fr.err = {Unparsed}
       /\ m = Is(Nil, <<lenv_init>>, <<>>)
    \/ \E cells \in text : \E vs :
          /\ \E S : vs \in Seq(S)
          /\ cells \in Content /\ Len(vs) <= Len(cells)
          /\ fr.rest = SubSeq(cells, Len(vs) + 1, Len(cells))
          /\ Got(vs, m.chain, m.out) \in Valued(cells, <<lenv_init>>, <<>>)
          /\ LastError(vs) = ErrorOf(m.value, fr.err)

\* What a frame may be given: it then has, by the rules, one step more of its task.
Takes(fr, r, m) ==
    /\ fr.what = "cells" =>
          Got(Append(SubSeq(fr.list.cell, 1, fr.at - 1), m.value), m.chain, m.out)
              \in Valued(r.goal.cell, r.chain, r.out)
    /\ fr.what = "body" => m \in Means(r.goal, r.chain, r.out)
    /\ fr.what = "load" =>
          Left(fr.rest, m.chain, Reported(m.value, m.out)) \in Ran(r.goal, r.chain, r.out)
    /\ fr.what = "script" => ScriptTakes(r.goal, m)
    /\ fr.what = "code" => CodeTakes(fr, r.goal, m)
    /\ fr.what = "line" =>
          Left(r.goal.rest, m.chain, Append(m.out, <<lval_print(m.value)>>))
              \in Replied(r.goal.typed)

\* The answers of its task are what the frame below may be given.
Hands(fr, r, below, q) ==
    /\ fr.what = "cells" => \A m \in Means(r.goal, r.chain, r.out) : Takes(below, q, m)
    /\ fr.what = "body" =>
          \A m \in Means(r.goal, r.chain, r.out) :
              Takes(below, q, Is(m.value, Front(m.chain), m.out))
    /\ fr.what = "load" =>
          \A l \in Finished(Ran(r.goal, r.chain, r.out)) :
              Takes(below, q, Is(Nil, l.chain, l.out))

\* The list being evaluated in place is that of the task from the current cell on.
Agrees(fr, r) ==
    fr.what = "cells" =>
        /\ r.goal.type = "sexpr" /\ r.goal.cell # <<>>
        /\ fr.list \in {r.goal, [r.goal EXCEPT !.cell = fr.list.cell]}
        /\ "cell" \in DOMAIN r.goal
        /\ \E S : fr.list.cell \in Seq(S) /\ r.goal.cell \in Seq(S)
        /\ Len(fr.list.cell) = Len(r.goal.cell) /\ fr.at \in 1..Len(r.goal.cell)
        /\ \A i \in fr.at..Len(r.goal.cell) : fr.list.cell[i] = r.goal.cell[i]

Inner == {"cells", "body", "load"}

\* b has the tasks of the calls s, above one that is what and has this goal.
Accounts(s, b, what, goal) ==
    /\ \E F : s \in Seq(F)
    /\ \E R : b \in Seq(R)
    /\ Len(b) = Len(s)
    /\ what \notin Inner
    /\ s # <<>> => s[1].what = what /\ b[1].goal = goal
    /\ \A k \in 1..Len(s) : Agrees(s[k], b[k])
    /\ \A k \in 2..Len(s) : s[k].what \in Inner /\ Hands(s[k], b[k], s[k - 1], b[k - 1])

\* What evaluating v may give is what the frame may be given; or v is a value already.
Seeks(v, c, o, fr, r) ==
    \/ \A m \in Means(v, c, o) : Takes(fr, r, m)
    \/ Final(v) /\ Takes(fr, r, Is(v, c, o))

Controls(k, c, o, fr, r) ==
    \/ k.op = "give" /\ Takes(fr, r, Is(k.v, c, o))
    \/ k.op = "eval" /\ Seeks(k.v, c, o, fr, r)

Following(s, k, c, o, what, goal) ==
    /\ s # <<>>
    /\ \E b : Accounts(s, b, what, goal) /\ Controls(k, c, o, s[Len(s)], b[Len(s)])

LEMMA AccountsPopped ==
    ASSUME NEW s, NEW b, NEW what, NEW goal, Accounts(s, b, what, goal), s # <<>>
    PROVE  /\ Accounts(Front(s), Front(b), what, goal)
           /\ Len(s) \in Nat \ {0} /\ Len(Front(s)) = Len(s) - 1
           /\ (Front(s) = <<>> <=> Len(s) = 1)
           /\ \A k \in 1..(Len(s) - 1) : Front(s)[k] = s[k] /\ Front(b)[k] = b[k]
<1>1. PICK F : s \in Seq(F)
  BY DEF Accounts
<1>2. PICK R : b \in Seq(R)
  BY DEF Accounts
<1>3. Len(b) = Len(s) /\ Len(s) \in Nat
  BY <1>1 DEF Accounts
<1>4. b # <<>>
  BY <1>1, <1>2, <1>3, EmptySeq
<1> DEFINE t == Front(s)
           d == Front(b)
           n == Len(s)
<1>5. n \in Nat \ {0} /\ t \in Seq(F) /\ Len(t) = n - 1 /\ \A k \in 1..(n - 1) : t[k] = s[k]
  BY <1>1, FrontFacts DEF Front
<1>6. d \in Seq(R) /\ Len(d) = n - 1 /\ \A k \in 1..(n - 1) : d[k] = b[k]
  BY <1>2, <1>3, <1>4, FrontFacts DEF Front
<1> HIDE DEF t, d, n
<1>7. t = <<>> <=> Len(t) = 0
  BY <1>5, EmptySeq
<1>8. \A k \in 1..(n - 1) : k \in 1..n
  BY <1>5
<1>9. \A k \in 2..(n - 1) : k \in 2..n /\ k \in 1..(n - 1) /\ k - 1 \in 1..(n - 1)
  BY <1>5
<1>10. t # <<>> => 1 \in 1..(n - 1)
  BY <1>5, <1>7
<1>11. Accounts(t, d, what, goal)
  BY <1>5, <1>6, <1>8, <1>9, <1>10 DEF Accounts, n
<1> QED BY <1>5, <1>6, <1>7, <1>11 DEF t, d, n

LEMMA BelowTop ==
    ASSUME NEW s, NEW b, NEW what, NEW goal, Accounts(s, b, what, goal), s # <<>>
    PROVE  \A k \in 1..(Len(s) - 1) : Front(s)[k] = s[k] /\ Front(b)[k] = b[k]
<1>1. PICK F : s \in Seq(F)
  BY DEF Accounts
<1>2. PICK R : b \in Seq(R)
  BY DEF Accounts
<1>3. Len(b) = Len(s) /\ Len(s) \in Nat
  BY <1>1 DEF Accounts
<1>4. b # <<>>
  BY <1>1, <1>2, <1>3, EmptySeq
<1> DEFINE n == Len(s)
<1>5. \A k \in 1..(n - 1) : Front(s)[k] = s[k]
  BY <1>1, FrontFacts DEF Front
<1>6. \A k \in 1..(n - 1) : Front(b)[k] = b[k]
  BY <1>2, <1>3, <1>4, FrontFacts DEF Front
<1> HIDE DEF n
<1>7. \A k \in 1..(n - 1) : Front(s)[k] = s[k] /\ Front(b)[k] = b[k]
  BY <1>5, <1>6, Zenon
<1> QED BY <1>7 DEF n

LEMMA AccountsPushed ==
    ASSUME NEW s, NEW b, NEW what, NEW goal, Accounts(s, b, what, goal), s # <<>>,
           NEW fr, NEW r, fr.what \in Inner, Agrees(fr, r),
           Hands(fr, r, s[Len(s)], b[Len(s)])
    PROVE  /\ Accounts(Append(s, fr), Append(b, r), what, goal)
           /\ Append(s, fr) # <<>> /\ Len(Append(s, fr)) = Len(s) + 1
           /\ Append(s, fr)[Len(s) + 1] = fr
           /\ Append(b, r)[Len(s) + 1] = r
<1>1. PICK F : s \in Seq(F)
  BY DEF Accounts
<1>2. PICK R : b \in Seq(R)
  BY DEF Accounts
<1> DEFINE t == Append(s, fr)
           d == Append(b, r)
           n == Len(s)
<1>3. n \in Nat \ {0} /\ Len(b) = n
  BY <1>1 DEF Accounts
<1>4. t \in Seq(F \cup {fr}) /\ Len(t) = n + 1 /\ t[n + 1] = fr /\ \A k \in 1..n : t[k] = s[k]
  <2>1. s \in Seq(F \cup {fr})
    BY <1>1, SeqMonotonic
  <2> QED BY <2>1
<1>5. d \in Seq(R \cup {r}) /\ Len(d) = n + 1 /\ d[n + 1] = r /\ \A k \in 1..n : d[k] = b[k]
  <2>1. b \in Seq(R \cup {r})
    BY <1>2, SeqMonotonic
  <2> QED BY <1>3, <2>1
<1> HIDE DEF t, d, n
<1>6. t # <<>>
  BY <1>3, <1>4, EmptySeq
<1>7. 1 \in 1..n /\ n \in 1..n
  BY <1>3
<1>8. \A k \in 1..(n + 1) : k \in 1..n \/ k = n + 1
  BY <1>3
<1>9. \A k \in 2..(n + 1) :
         (k \in 2..n /\ k \in 1..n /\ k - 1 \in 1..n) \/ (k = n + 1 /\ k - 1 = n)
  BY <1>3
<1>10. \A k \in 1..(n + 1) : Agrees(t[k], d[k])
  BY <1>4, <1>5, <1>8 DEF Accounts, n
<1>11. \A k \in 2..(n + 1) : t[k].what \in Inner /\ Hands(t[k], d[k], t[k - 1], d[k - 1])
  BY <1>4, <1>5, <1>7, <1>9 DEF Accounts, n
<1>12. Accounts(t, d, what, goal)
  BY <1>3, <1>4, <1>5, <1>7, <1>10, <1>11 DEF Accounts, n
<1> QED BY <1>4, <1>5, <1>6, <1>12 DEF t, d, n

\* A call that is over gives its answer to the one below.
LEMMA GivesBack ==
    ASSUME NEW s, NEW b, NEW what, NEW goal, Accounts(s, b, what, goal), Len(s) > 1,
           NEW v, NEW c, NEW o
    PROVE  /\ Takes(s[Len(s) - 1], b[Len(s) - 1], Is(v, c, o))
                => Following(Front(s), Give(v), c, o, what, goal)
           /\ Seeks(v, c, o, s[Len(s) - 1], b[Len(s) - 1])
                => Following(Front(s), Eval(v), c, o, what, goal)
<1> DEFINE t == Front(s)
           d == Front(b)
           n == Len(s)
<1>1. s # <<>>
  <2>1. PICK F : s \in Seq(F)
    BY DEF Accounts
  <2> QED BY <2>1, EmptySeq
<1>2. Accounts(t, d, what, goal)
  BY <1>1, AccountsPopped
<1>3. n \in Nat \ {0} /\ Len(t) = n - 1
  BY <1>1, AccountsPopped
<1>4. t = <<>> <=> n = 1
  BY <1>1, AccountsPopped
<1>5. \A k \in 1..(n - 1) : t[k] = s[k] /\ d[k] = b[k]
  BY <1>1, BelowTop, Zenon
<1>6. n - 1 \in 1..(n - 1) /\ n # 1
  BY <1>3
<1> HIDE DEF t, d
<1>7. t # <<>> /\ t[Len(t)] = s[n - 1] /\ d[Len(t)] = b[n - 1]
  BY <1>3, <1>4, <1>5, <1>6
<1>8. /\ Give(v).op = "give" /\ Give(v).v = v
      /\ Eval(v).op = "eval" /\ Eval(v).v = v
  BY DEF Give, Eval
<1> HIDE DEF n
<1>9. ASSUME Takes(s[n - 1], b[n - 1], Is(v, c, o))
      PROVE  Following(t, Give(v), c, o, what, goal)
  BY <1>2, <1>7, <1>8, <1>9 DEF Following, Controls
<1>10. ASSUME Seeks(v, c, o, s[n - 1], b[n - 1])
      PROVE  Following(t, Eval(v), c, o, what, goal)
  BY <1>2, <1>7, <1>8, <1>10 DEF Following, Controls
<1> QED BY <1>9, <1>10 DEF t, n

\* A call above another one, or in the place of the one on top.
LEMMA GoesDeeper ==
    ASSUME NEW s, NEW b, NEW what, NEW goal, Accounts(s, b, what, goal), s # <<>>,
           NEW fr, NEW r, fr.what \in Inner, Agrees(fr, r),
           Hands(fr, r, s[Len(s)], b[Len(s)]), NEW v, NEW c, NEW o
    PROVE  /\ Takes(fr, r, Is(v, c, o))
                => Following(Append(s, fr), Give(v), c, o, what, goal)
           /\ Seeks(v, c, o, fr, r)
                => Following(Append(s, fr), Eval(v), c, o, what, goal)
<1> DEFINE t == Append(s, fr)
           d == Append(b, r)
           n == Len(s) + 1
<1>1. Accounts(t, d, what, goal)
  BY AccountsPushed
<1>2. t # <<>> /\ Len(t) = n
  BY AccountsPushed
<1>3. t[n] = fr
  BY AccountsPushed
<1>4. d[n] = r
  <2>1. PICK R : b \in Seq(R)
    BY DEF Accounts
  <2>2. b \in Seq(R \cup {r})
    BY <2>1, SeqMonotonic
  <2>3. Len(b) = Len(s)
    BY DEF Accounts
  <2> QED BY <2>2, <2>3
<1> HIDE DEF t, d, n
<1>5. /\ Give(v).op = "give" /\ Give(v).v = v
      /\ Eval(v).op = "eval" /\ Eval(v).v = v
  BY DEF Give, Eval
<1>6. ASSUME Takes(fr, r, Is(v, c, o))
      PROVE  Following(t, Give(v), c, o, what, goal)
  BY <1>1, <1>2, <1>3, <1>4, <1>5, <1>6 DEF Following, Controls
<1>7. ASSUME Seeks(v, c, o, fr, r)
      PROVE  Following(t, Eval(v), c, o, what, goal)
  BY <1>1, <1>2, <1>3, <1>4, <1>5, <1>7 DEF Following, Controls
<1> QED BY <1>6, <1>7 DEF t

LEMMA TakesPlace ==
    ASSUME NEW s, NEW b, NEW what, NEW goal, Accounts(s, b, what, goal), Len(s) > 1,
           NEW fr, NEW r, fr.what \in Inner, Agrees(fr, r),
           Hands(fr, r, s[Len(s) - 1], b[Len(s) - 1]), NEW v, NEW c, NEW o
    PROVE  /\ Takes(fr, r, Is(v, c, o))
                => Following(Append(Front(s), fr), Give(v), c, o, what, goal)
           /\ Seeks(v, c, o, fr, r)
                => Following(Append(Front(s), fr), Eval(v), c, o, what, goal)
<1> DEFINE t == Front(s)
           d == Front(b)
           n == Len(s)
<1>1. s # <<>>
  <2>1. PICK F : s \in Seq(F)
    BY DEF Accounts
  <2> QED BY <2>1, EmptySeq
<1>2. Accounts(t, d, what, goal)
  BY <1>1, AccountsPopped
<1>3. n \in Nat \ {0} /\ Len(t) = n - 1
  BY <1>1, AccountsPopped
<1>4. t = <<>> <=> n = 1
  BY <1>1, AccountsPopped
<1>5. \A k \in 1..(n - 1) : t[k] = s[k] /\ d[k] = b[k]
  BY <1>1, BelowTop, Zenon
<1>6. n - 1 \in 1..(n - 1) /\ n # 1
  BY <1>3
<1> HIDE DEF t, d
<1>7. t # <<>> /\ t[Len(t)] = s[n - 1] /\ d[Len(t)] = b[n - 1]
  BY <1>3, <1>4, <1>5, <1>6
<1>8. /\ Takes(fr, r, Is(v, c, o)) => Following(Append(t, fr), Give(v), c, o, what, goal)
      /\ Seeks(v, c, o, fr, r) => Following(Append(t, fr), Eval(v), c, o, what, goal)
  BY <1>2, <1>7, GoesDeeper
<1> QED BY <1>8 DEF t

LEMMA FilledTo ==
    ASSUME NEW S, NEW w \in Seq(S), NEW i \in 1..Len(w), NEW v
    PROVE  /\ [w EXCEPT ![i] = v] \in Seq(S \cup {v}) /\ Len([w EXCEPT ![i] = v]) = Len(w)
           /\ \A j \in 1..Len(w) : j # i => [w EXCEPT ![i] = v][j] = w[j]
           /\ SubSeq([w EXCEPT ![i] = v], 1, i) = Append(SubSeq(w, 1, i - 1), v)
           /\ Len(SubSeq([w EXCEPT ![i] = v], 1, i)) = i
           /\ SubSeq([w EXCEPT ![i] = v], 1, Len(w)) = [w EXCEPT ![i] = v]
<1> DEFINE V == S \cup {v}
           x == [w EXCEPT ![i] = v]
<1>1. w \in Seq(V) /\ v \in V
  BY SeqMonotonic
<1>2. /\ x \in Seq(V) /\ Len(x) = Len(w)
      /\ \A j \in 1..Len(w) : x[j] = IF j = i THEN v ELSE w[j]
  BY <1>1, Overwritten
<1> HIDE DEF V, x
<1>3. i \in Nat \ {0} /\ i - 1 \in Nat /\ 0 <= i - 1 /\ i - 1 < Len(w) /\ i <= Len(w)
  OBVIOUS
<1>4. SubSeq(x, 0 + 1, (i - 1) + 1) = Append(SubSeq(x, 0 + 1, i - 1), x[(i - 1) + 1])
  BY <1>2, <1>3, GrownFacts
<1>5. SubSeq(x, 1, i) = Append(SubSeq(x, 1, i - 1), v)
  BY <1>2, <1>3, <1>4
<1>6. SubSeq(x, 1, i - 1) = SubSeq(w, 1, i - 1)
  <2> DEFINE y == SubSeq(x, 0 + 1, i - 1)
             z == SubSeq(w, 0 + 1, i - 1)
  <2>1. y \in Seq(V) /\ Len(y) = (i - 1) - 0 /\ \A k \in 1..((i - 1) - 0) : y[k] = x[0 + k]
    BY <1>2, <1>3, StretchFacts
  <2>2. z \in Seq(V) /\ Len(z) = (i - 1) - 0 /\ \A k \in 1..((i - 1) - 0) : z[k] = w[0 + k]
    BY <1>1, <1>3, StretchFacts
  <2>3. \A k \in 1..(i - 1) : x[k] = w[k]
    BY <1>2, <1>3
  <2> HIDE DEF y, z
  <2>4. y = z
    BY <1>3, <2>1, <2>2, <2>3
  <2> QED BY <2>4 DEF y, z
<1>7. Len(SubSeq(x, 0 + 1, i)) = i - 0
  BY <1>2, <1>3, StretchFacts
<1>8. SubSeq(x, 1, Len(w)) = x
  BY <1>2
<1>9. SubSeq(x, 1, i) = Append(SubSeq(w, 1, i - 1), v)
  BY <1>5, <1>6
<1>10. Len(SubSeq(x, 1, i)) = i
  BY <1>3, <1>7
<1>11. x \in Seq(V) /\ Len(x) = Len(w) /\ \A j \in 1..Len(w) : j # i => x[j] = w[j]
  BY <1>2
<1> QED BY <1>8, <1>9, <1>10, <1>11 DEF V, x

\* Fields of a list with other cells.
LEMMA OtherCells ==
    ASSUME NEW l, "cell" \in DOMAIN l, NEW x, NEW y
    PROVE  /\ [l EXCEPT !.cell = x].cell = x /\ "cell" \in DOMAIN [l EXCEPT !.cell = x]
           /\ [[l EXCEPT !.cell = x] EXCEPT !.cell = y] = [l EXCEPT !.cell = y]
OBVIOUS

\* The list after the current cell has got its value.
LEMMA CellFilled ==
    ASSUME Top.what = "cells", NEW r, Agrees(Top, r)
    PROVE  /\ List = [r.goal EXCEPT !.cell = List.cell]
           /\ \E S : List.cell \in Seq(S) /\ r.goal.cell \in Seq(S)
           /\ Len(List.cell) = Len(r.goal.cell) /\ Len(Top.list.cell) = Len(r.goal.cell)
           /\ Top.at \in 1..Len(r.goal.cell)
           /\ SubSeq(List.cell, 1, Top.at) = Append(SubSeq(Top.list.cell, 1, Top.at - 1), ctl.v)
           /\ Len(Append(SubSeq(Top.list.cell, 1, Top.at - 1), ctl.v)) = Top.at
           /\ SubSeq(List.cell, 1, Len(List.cell)) = List.cell
           /\ \A i \in (Top.at + 1)..Len(r.goal.cell) :
                 List.cell[i] = r.goal.cell[i] /\ Top.list.cell[i] = r.goal.cell[i]
<1> DEFINE g == r.goal
           l == Top.list
           w == l.cell
           i == Top.at
           v == ctl.v
           x == [w EXCEPT ![i] = v]
<1>1. /\ l \in {g, [g EXCEPT !.cell = w]} /\ "cell" \in DOMAIN g
      /\ Len(w) = Len(g.cell) /\ i \in 1..Len(g.cell)
      /\ \A k \in i..Len(g.cell) : w[k] = g.cell[k]
  BY DEF Agrees
<1>2. PICK S : w \in Seq(S) /\ g.cell \in Seq(S)
  BY DEF Agrees
<1>3. List = [l EXCEPT !.cell = x]
  BY CellExcept DEF List
<1>4. i \in 1..Len(w)
  BY <1>1
<1> HIDE DEF g, w, i, v, x, l
<1>5. List = [g EXCEPT !.cell = x] /\ List.cell = x
  BY <1>1, <1>3, OtherCells
<1>6. /\ x \in Seq(S \cup {v}) /\ Len(x) = Len(w)
      /\ \A j \in 1..Len(w) : j # i => x[j] = w[j]
      /\ SubSeq(x, 1, i) = Append(SubSeq(w, 1, i - 1), v)
      /\ Len(SubSeq(x, 1, i)) = i /\ SubSeq(x, 1, Len(w)) = x
  BY <1>2, <1>4, FilledTo DEF x
<1>7. g.cell \in Seq(S \cup {v})
  BY <1>2, SeqMonotonic
<1>8. \A k \in (i + 1)..Len(g.cell) : x[k] = g.cell[k] /\ w[k] = g.cell[k]
  <2>1. Len(g.cell) \in Nat
    BY <1>2
  <2>2. \A k \in (i + 1)..Len(g.cell) : k \in i..Len(g.cell) /\ k \in 1..Len(w) /\ k # i
    BY <1>1, <2>1
  <2> QED BY <1>1, <1>6, <2>2
<1>9. /\ List = [g EXCEPT !.cell = List.cell]
      /\ \E T : List.cell \in Seq(T) /\ g.cell \in Seq(T)
      /\ Len(List.cell) = Len(g.cell) /\ SubSeq(List.cell, 1, Len(List.cell)) = List.cell
  BY <1>1, <1>5, <1>6, <1>7
<1>10. /\ SubSeq(List.cell, 1, i) = Append(SubSeq(w, 1, i - 1), v)
       /\ Len(Append(SubSeq(w, 1, i - 1), v)) = i
       /\ \A k \in (i + 1)..Len(g.cell) : List.cell[k] = g.cell[k] /\ w[k] = g.cell[k]
  BY <1>5, <1>6, <1>8
<1> QED BY <1>1, <1>9, <1>10 DEF g, w, i, v, l

\* The call on top of the stack and the one below.
LEMMA OnTop ==
    ASSUME NEW s, NEW b, NEW what, NEW goal, Accounts(s, b, what, goal), s # <<>>
    PROVE  /\ Len(s) \in Nat \ {0} /\ Agrees(s[Len(s)], b[Len(s)])
           /\ s[Len(s)].what \in Inner =>
                 /\ Len(s) > 1
                 /\ Hands(s[Len(s)], b[Len(s)], s[Len(s) - 1], b[Len(s) - 1])
<1> DEFINE n == Len(s)
<1>1. n \in Nat \ {0}
  <2>1. PICK F : s \in Seq(F)
    BY DEF Accounts
  <2> QED BY <2>1, EmptySeq
<1> HIDE DEF n
<1>2. n \in 1..n /\ (n > 1 => n \in 2..n) /\ (~(n > 1) => n = 1)
  BY <1>1
<1>3. Agrees(s[n], b[n])
  BY <1>2 DEF Accounts, n
<1>4. n > 1 => Hands(s[n], b[n], s[n - 1], b[n - 1])
  BY <1>2 DEF Accounts, n
<1>5. ~(n > 1) => s[n].what \notin Inner
  BY <1>2 DEF Accounts
<1> QED BY <1>1, <1>3, <1>4, <1>5 DEF n

\* What a list with the values of its cells may give.
LEMMA Combines ==
    ASSUME RulesKept, NEW b, NEW what, NEW goal, Accounts(stack, b, what, goal),
           Controls(ctl, chain, output, Top, b[Len(stack)]), AllCells
    PROVE  /\ Len(stack) > 1
           /\ \A m \in Combined(b[Len(stack)].goal, Got(List.cell, chain, output)) :
                 Takes(stack[Len(stack) - 1], b[Len(stack) - 1], m)
           /\ List = [b[Len(stack)].goal EXCEPT !.cell = List.cell]
           /\ "cell" \in DOMAIN b[Len(stack)].goal
           /\ \E S : List.cell \in Seq(S)
<1> DEFINE n == Len(stack)
           r == b[n]
           g == r.goal
           K == Got(List.cell, chain, output)
           q == b[n - 1]
           below == stack[n - 1]
<1>1. stack # <<>> /\ Top.what = "cells" /\ Top.at = Len(Top.list.cell) /\ ctl.op = "give"
  BY DEF AllCells, Giving
<1>2. n > 1 /\ Agrees(Top, r) /\ Hands(Top, r, below, q)
  BY <1>1, OnTop DEF Inner, Top
<1>3. Takes(Top, r, Is(ctl.v, chain, output))
  BY <1>1 DEF Controls
<1> HIDE DEF r, q, below
<1>4. /\ List = [g EXCEPT !.cell = List.cell]
      /\ \E S : List.cell \in Seq(S) /\ g.cell \in Seq(S)
      /\ Len(List.cell) = Len(g.cell) /\ Len(Top.list.cell) = Len(g.cell)
      /\ SubSeq(List.cell, 1, Top.at) = Append(SubSeq(Top.list.cell, 1, Top.at - 1), ctl.v)
      /\ SubSeq(List.cell, 1, Len(List.cell)) = List.cell
  BY <1>1, <1>2, CellFilled
<1>5. g.type = "sexpr" /\ g.cell # <<>> /\ "cell" \in DOMAIN g
  BY <1>1, <1>2 DEF Agrees
<1>6. /\ Is(ctl.v, chain, output).value = ctl.v /\ Is(ctl.v, chain, output).chain = chain
      /\ Is(ctl.v, chain, output).out = output
  BY DEF Is
<1>7. K \in Valued(g.cell, r.chain, r.out)
  <2>1. Got(Append(SubSeq(Top.list.cell, 1, Top.at - 1), ctl.v), chain, output)
          \in Valued(g.cell, r.chain, r.out)
    BY <1>1, <1>3, <1>6 DEF Takes
  <2> QED BY <1>1, <1>4, <2>1
<1>8. Len(K.values) = Len(g.cell)
  BY <1>4 DEF Got
<1> HIDE DEF K
<1>9. Combined(g, K) \subseteq Meanings(g, r.chain, r.out)
  BY <1>5, <1>7, <1>8 DEF Meanings
<1>10. Meanings(g, r.chain, r.out) \subseteq Means(g, r.chain, r.out)
  BY DEF RulesKept, KeepsMeanings
<1>11. \A m \in Means(g, r.chain, r.out) : Takes(below, q, m)
  BY <1>1, <1>2 DEF Hands
<1>12. \A m \in Combined(g, K) : Takes(below, q, m)
  BY <1>9, <1>10, <1>11
<1> QED BY <1>2, <1>4, <1>5, <1>12 DEF n, r, q, below, K

LEMMA Applying ==
    ASSUME RulesKept, NEW b, NEW what, NEW goal, Accounts(stack, b, what, goal),
           Controls(ctl, chain, output, Top, b[Len(stack)]), Applies
    PROVE  /\ Len(stack) > 1
           /\ \A m \in Applied(Fun, Args, chain, output) :
                 Takes(stack[Len(stack) - 1], b[Len(stack) - 1], m)
<1> DEFINE n == Len(stack)
           g == b[n].goal
           K == Got(List.cell, chain, output)
           ms == Combined(g, K)
<1>1. AllCells /\ Errors = {} /\ Len(List.cell) > 1
  BY DEF Applies
<1>2. /\ n > 1
      /\ \A m \in ms : Takes(stack[n - 1], b[n - 1], m)
      /\ List = [g EXCEPT !.cell = List.cell]
      /\ "cell" \in DOMAIN g
      /\ \E S : List.cell \in Seq(S)
  BY <1>1, Combines
<1>3. /\ K.values = List.cell /\ K.chain = chain /\ K.out = output
  BY DEF Got
<1> HIDE DEF g, K, ms
<1>4. Args = [g EXCEPT !.cell = Tail(List.cell)]
  <2>1. Args = [List EXCEPT !.cell = Tail(List.cell)]
    BY DEF Args
  <2> QED BY <1>2, <2>1, OtherCells
<1>5. {i \in 1..Len(K.values) : IsErr(K.values[i])} = {}
  BY <1>1, <1>3 DEF Errors
<1>6. Len(K.values) # 1
  BY <1>1, <1>2, <1>3
<1>7. ms = Applied(Fun, Args, chain, output)
  BY <1>3, <1>4, <1>5, <1>6 DEF ms, Combined, Fun
<1> QED BY <1>2, <1>7 DEF n

LEMMA BuiltinsApart ==
    /\ Computing \cap Definers = {}
    /\ \A b \in {"print", "eval", "if", "use", "none"} : b \notin Computing \cup Definers
BY DEF Computing, Numeric, Order, Equality, Lists, Definers

LEMMA BuiltinCalled ==
    ASSUME NEW bi, Calls(bi)
    PROVE  Applies /\ Fun.type = "fun" /\ Fun.builtin = bi
BY DEF Calls

\* A step that pops the call on top and gives, or evaluates, a value.
LEMMA PopFollows ==
    ASSUME NEW b, NEW what, NEW goal, Accounts(stack, b, what, goal), Len(stack) > 1,
           stack' = Front(stack), NEW v, ctl' = Give(v),
           Takes(stack[Len(stack) - 1], b[Len(stack) - 1], Is(v, chain', output'))
    PROVE  Following(stack', ctl', chain', output', what, goal)
<1>1. PICK c : c = chain'
  OBVIOUS
<1>2. PICK o : o = output'
  OBVIOUS
<1>3. Takes(stack[Len(stack) - 1], b[Len(stack) - 1], Is(v, c, o))
  BY <1>1, <1>2
<1>4. Following(Front(stack), Give(v), c, o, what, goal)
  BY <1>3, GivesBack
<1> QED BY <1>1, <1>2, <1>4

LEMMA PopSeeks ==
    ASSUME NEW b, NEW what, NEW goal, Accounts(stack, b, what, goal), Len(stack) > 1,
           stack' = Front(stack), NEW v, ctl' = Eval(v),
           Seeks(v, chain', output', stack[Len(stack) - 1], b[Len(stack) - 1])
    PROVE  Following(stack', ctl', chain', output', what, goal)
<1>1. PICK c : c = chain'
  OBVIOUS
<1>2. PICK o : o = output'
  OBVIOUS
<1>3. Seeks(v, c, o, stack[Len(stack) - 1], b[Len(stack) - 1])
  BY <1>1, <1>2
<1>4. Following(Front(stack), Eval(v), c, o, what, goal)
  BY <1>3, GivesBack
<1> QED BY <1>1, <1>2, <1>4

\* lval_eval
LEMMA SymbolFollows ==
    ASSUME RulesKept, NEW what, NEW goal, Following(stack, ctl, chain, output, what, goal),
           EvalSymbol \/ EvalSelf
    PROVE  Following(stack', ctl', chain', output', what, goal)
<1>1. PICK b : /\ Accounts(stack, b, what, goal)
               /\ Controls(ctl, chain, output, stack[Len(stack)], b[Len(stack)])
  BY DEF Following
<1> DEFINE fr == stack[Len(stack)]
           r == b[Len(stack)]
<1>2. ctl.op = "eval" /\ stack # <<>> /\ UNCHANGED <<chain, stack, output>>
  BY DEF EvalSymbol, EvalSelf, Following
<1> HIDE DEF fr, r
<1>3. Seeks(ctl.v, chain, output, fr, r)
  BY <1>1, <1>2 DEF Controls, fr, r
<1>4. Meanings(ctl.v, chain, output) \subseteq Means(ctl.v, chain, output)
  BY DEF RulesKept, KeepsMeanings
<1>5. PICK v : ctl' = Give(v) /\ Takes(fr, r, Is(v, chain, output))
  <2>1. CASE EvalSymbol
    <3>1. ctl.v.type = "sym" /\ ctl' = Give(lenv_get(chain, ctl.v.symbol))
      BY <2>1 DEF EvalSymbol
    <3>2. Is(lenv_get(chain, ctl.v.symbol), chain, output) \in Means(ctl.v, chain, output)
      BY <1>4, <3>1 DEF Meanings
    <3>3. ~Final(ctl.v)
      BY <3>1 DEF Final
    <3> QED BY <1>3, <3>1, <3>2, <3>3 DEF Seeks
  <2>2. CASE EvalSelf
    <3>1. Final(ctl.v) /\ ctl' = Give(ctl.v)
      BY <2>2 DEF EvalSelf
    <3>2. Is(ctl.v, chain, output) \in Means(ctl.v, chain, output)
      BY <1>4, <3>1 DEF Meanings, Final
    <3> QED BY <1>3, <3>1, <3>2 DEF Seeks
  <2> QED BY <2>1, <2>2
<1>6. /\ Give(v).op = "give" /\ Give(v).v = v
  BY DEF Give
<1>7. Following(stack, Give(v), chain, output, what, goal)
  BY <1>1, <1>5, <1>6 DEF Following, Controls, fr, r
<1> QED BY <1>2, <1>5, <1>7

LEMMA ListFollows ==
    ASSUME RulesKept, NEW what, NEW goal, Following(stack, ctl, chain, output, what, goal),
           Finite(chain, stack, ctl), EvalList
    PROVE  Following(stack', ctl', chain', output', what, goal)
<1>1. PICK b : /\ Accounts(stack, b, what, goal)
               /\ Controls(ctl, chain, output, stack[Len(stack)], b[Len(stack)])
  BY DEF Following
<1> DEFINE e == ctl.v
           fr == Cells(e, 1)
           r == Task(e, chain, output)
<1>2. /\ ctl.op = "eval" /\ stack # <<>> /\ UNCHANGED <<chain, output>>
      /\ e.type = "sexpr" /\ e.cell # <<>>
      /\ stack' = Append(stack, fr) /\ ctl' = Eval(e.cell[1])
  BY DEF EvalList, Following, Push
<1>3. PICK V : e.cell \in Seq(V) /\ "cell" \in DOMAIN e
  <2>1. PICK V, S, F : StateFits(chain, stack, ctl, V, S, F)
    BY DEF Finite
  <2>2. Fits(e, V)
    BY <2>1 DEF StateFits, Sound
  <2> QED BY <1>2, <2>2 DEF Fits
<1>4. 1 \in 1..Len(e.cell)
  BY <1>2, <1>3
<1>5. /\ fr.what = "cells" /\ fr.list = e /\ fr.at = 1
      /\ r.goal = e /\ r.chain = chain /\ r.out = output
  BY DEF Cells, Task
<1>6. \A m \in Means(e, chain, output) : Takes(stack[Len(stack)], b[Len(stack)], m)
  <2>1. ~Final(e)
    BY <1>2 DEF Final
  <2> QED BY <1>1, <1>2, <2>1 DEF Controls, Seeks
<1> HIDE DEF e, fr, r
<1>7. Agrees(fr, r)
  BY <1>2, <1>3, <1>4, <1>5 DEF Agrees
<1>8. Hands(fr, r, stack[Len(stack)], b[Len(stack)])
  BY <1>5, <1>6 DEF Hands
<1>9. Seeks(e.cell[1], chain, output, fr, r)
  <2> DEFINE none == <<>>
             es == e.cell
             all == Valued(es, chain, output)
             K == Got(none, chain, output)
  <2>1. K \in all /\ \A q \in all : Len(q.values) < Len(es) => NextValue(es, q) \subseteq all
    BY DEF RulesKept, KeepsValues
  <2>2. K.values = none /\ Len(none) = 0 /\ K.chain = chain /\ K.out = output
    BY DEF Got
  <2>3. SubSeq(es, 1, 1 - 1) = none
    BY <1>3
  <2> HIDE DEF none, all, K
  <2>4. Len(none) < Len(es) /\ Len(none) + 1 = 1
    BY <1>3, <1>4, <2>2 DEF es
  <2>5. NextValue(es, K) \subseteq all
    BY <2>1, <2>2, <2>4
  <2> SUFFICES ASSUME NEW m \in Means(es[1], chain, output) PROVE Takes(fr, r, m)
    BY DEF Seeks
  <2>6. Got(Append(none, m.value), m.chain, m.out) \in NextValue(es, K)
    BY <2>2, <2>4 DEF NextValue
  <2>7. Got(Append(SubSeq(es, 1, 1 - 1), m.value), m.chain, m.out) \in all
    BY <2>3, <2>5, <2>6
  <2> QED BY <1>5, <2>7 DEF Takes, all
<1>10. "cells" \in Inner
  BY DEF Inner
<1>11. PICK c, o : c = chain /\ o = output
  OBVIOUS
<1>12. Following(Append(stack, fr), Eval(e.cell[1]), chain, output, what, goal)
  BY <1>1, <1>2, <1>5, <1>7, <1>8, <1>9, <1>10, GoesDeeper
<1> QED BY <1>2, <1>12

\* lval_evsexp
LEMMA CellsFollow ==
    ASSUME RulesKept, NEW what, NEW goal, Following(stack, ctl, chain, output, what, goal),
           NextCell
    PROVE  Following(stack', ctl', chain', output', what, goal)
<1>1. PICK b : /\ Accounts(stack, b, what, goal)
               /\ Controls(ctl, chain, output, stack[Len(stack)], b[Len(stack)])
  BY DEF Following
<1> DEFINE n == Len(stack)
           r == b[n]
           g == r.goal
           at == Top.at
           fr == Cells(List, at + 1)
           v == Top.list.cell[at + 1]
<1>2. /\ ctl.op = "give" /\ stack # <<>> /\ UNCHANGED <<chain, output>>
      /\ Top.what = "cells" /\ at < Len(Top.list.cell)
      /\ stack' = Append(Front(stack), fr) /\ ctl' = Eval(v)
  BY DEF NextCell, Giving, Pop
<1>3. n > 1 /\ Agrees(Top, r) /\ Hands(Top, r, stack[n - 1], b[n - 1])
  BY <1>1, <1>2, OnTop DEF Top, Inner
<1>4. Takes(Top, r, Is(ctl.v, chain, output))
  BY <1>1, <1>2 DEF Controls, Top
<1> HIDE DEF r
<1>5. /\ List = [g EXCEPT !.cell = List.cell]
      /\ \E S : List.cell \in Seq(S) /\ g.cell \in Seq(S)
      /\ Len(List.cell) = Len(g.cell) /\ Len(Top.list.cell) = Len(g.cell)
      /\ at \in 1..Len(g.cell)
      /\ SubSeq(List.cell, 1, at) = Append(SubSeq(Top.list.cell, 1, at - 1), ctl.v)
      /\ Len(Append(SubSeq(Top.list.cell, 1, at - 1), ctl.v)) = at
      /\ \A i \in (at + 1)..Len(g.cell) :
            List.cell[i] = g.cell[i] /\ Top.list.cell[i] = g.cell[i]
  BY <1>2, <1>3, CellFilled
<1>6. g.type = "sexpr" /\ g.cell # <<>> /\ "cell" \in DOMAIN g
  BY <1>2, <1>3 DEF Agrees
<1>7. fr.what = "cells" /\ fr.list = List /\ fr.at = at + 1
  BY DEF Cells
<1>8. at \in Nat /\ at + 1 \in 1..Len(g.cell) /\ at + 1 \in (at + 1)..Len(g.cell)
  <2> DEFINE m == Len(g.cell)
  <2>1. \E S : g.cell \in Seq(S)
    BY <1>5
  <2>2. m \in Nat
    BY <2>1
  <2>3. at \in 1..m /\ at < m
    BY <1>2, <1>5
  <2> HIDE DEF m
  <2>4. at \in Nat /\ at + 1 \in 1..m /\ at + 1 \in (at + 1)..m
    BY <2>2, <2>3
  <2> QED BY <2>4 DEF m
<1>9. v = g.cell[at + 1]
  BY <1>5, <1>8
<1> HIDE DEF g, at, fr, v
<1>10. Agrees(fr, r)
  BY <1>5, <1>6, <1>7, <1>8 DEF Agrees, g
<1>11. Hands(fr, r, stack[n - 1], b[n - 1])
  BY <1>2, <1>3, <1>7 DEF Hands
<1>12. Seeks(v, chain, output, fr, r)
  <2> DEFINE vs == Append(SubSeq(Top.list.cell, 1, at - 1), ctl.v)
             all == Valued(g.cell, r.chain, r.out)
             K == Got(vs, chain, output)
  <2>1. K \in all
    <3>1. /\ Is(ctl.v, chain, output).value = ctl.v /\ Is(ctl.v, chain, output).chain = chain
          /\ Is(ctl.v, chain, output).out = output
      BY DEF Is
    <3> QED BY <1>2, <1>4, <3>1 DEF Takes, at, g
  <2>2. \A q \in all : Len(q.values) < Len(g.cell) => NextValue(g.cell, q) \subseteq all
    BY DEF RulesKept, KeepsValues
  <2>3. K.values = vs /\ K.chain = chain /\ K.out = output /\ Len(vs) = at
    BY <1>5 DEF Got
  <2>4. SubSeq(List.cell, 1, (at + 1) - 1) = vs
    BY <1>5, <1>8
  <2> HIDE DEF vs, all, K
  <2>5. Len(vs) < Len(g.cell)
    BY <1>5, <1>8, <2>3
  <2>6. NextValue(g.cell, K) \subseteq all
    BY <2>1, <2>2, <2>3, <2>5
  <2> SUFFICES ASSUME NEW m \in Means(v, chain, output) PROVE Takes(fr, r, m)
    BY DEF Seeks
  <2>7. Got(Append(vs, m.value), m.chain, m.out) \in NextValue(g.cell, K)
    BY <1>9, <2>3 DEF NextValue
  <2>8. Got(Append(SubSeq(fr.list.cell, 1, fr.at - 1), m.value), m.chain, m.out) \in all
    BY <1>7, <2>4, <2>6, <2>7
  <2> QED BY <1>7, <2>8 DEF Takes, all, g
<1>13. fr.what \in Inner
  BY <1>7 DEF Inner
<1>14. Following(Append(Front(stack), fr), Eval(v), chain, output, what, goal)
  BY <1>1, <1>3, <1>10, <1>11, <1>12, <1>13, TakesPlace
<1> QED BY <1>2, <1>14

LEMMA ValuesFollow ==
    ASSUME RulesKept, NEW what, NEW goal, Following(stack, ctl, chain, output, what, goal),
           Finite(chain, stack, ctl), FirstError \/ Single
    PROVE  Following(stack', ctl', chain', output', what, goal)
<1>1. PICK b : /\ Accounts(stack, b, what, goal)
               /\ Controls(ctl, chain, output, stack[Len(stack)], b[Len(stack)])
  BY DEF Following
<1>2. AllCells /\ stack # <<>> /\ UNCHANGED <<chain, output>> /\ stack' = Front(stack)
  BY DEF FirstError, Single, AllCells, Giving, Pop
<1> DEFINE n == Len(stack)
           g == b[n].goal
           K == Got(List.cell, chain, output)
           ms == Combined(g, K)
<1>3. n > 1 /\ \A m \in ms : Takes(stack[n - 1], b[n - 1], m)
  BY <1>1, <1>2, Combines DEF Top
<1>4. /\ K.values = List.cell /\ K.chain = chain /\ K.out = output
  BY DEF Got
<1> HIDE DEF g, K, ms
<1>5. {i \in 1..Len(K.values) : IsErr(K.values[i])} = Errors
  BY <1>4 DEF Errors
<1>6. CASE FirstError
  <2>1. Errors # {} /\ ctl' = Give(List.cell[Min(Errors)])
    BY <1>6 DEF FirstError
  <2> DEFINE v == List.cell[Min(Errors)]
  <2>2. Is(v, chain, output) \in ms
    BY <1>4, <1>5, <2>1 DEF ms, Combined
  <2>3. Takes(stack[n - 1], b[n - 1], Is(v, chain', output'))
    BY <1>2, <1>3, <2>2
  <2> HIDE DEF v
  <2> QED BY <1>1, <1>2, <1>3, <2>1, <2>3, PopFollows DEF v
<1>7. CASE Single
  <2>1. Errors = {} /\ Len(List.cell) = 1 /\ ctl' = Eval(List.cell[1])
    BY <1>7 DEF Single
  <2> DEFINE v == List.cell[1]
  <2>2. Is(v, chain, output) \in ms
    BY <1>4, <1>5, <2>1 DEF ms, Combined
  <2>3. Takes(stack[n - 1], b[n - 1], Is(v, chain', output'))
    BY <1>2, <1>3, <2>2
  <2>4. Final(v)
    <3>1. PICK V, S, F : StateFits(chain, stack, ctl, V, S, F)
      BY DEF Finite
    <3>2. Giving("cells") /\ Top.at = Len(Top.list.cell)
      BY <1>2 DEF AllCells
    <3>3. Len(List.cell) = Len(Top.list.cell) /\ \A i \in 1..Top.at : Final(List.cell[i])
      BY <3>1, <3>2, EvaluatedCells
    <3> QED BY <2>1, <3>2, <3>3
  <2> HIDE DEF v
  <2>5. Seeks(v, chain', output', stack[n - 1], b[n - 1])
    BY <2>3, <2>4 DEF Seeks
  <2> QED BY <1>1, <1>2, <1>3, <2>1, <2>5, PopSeeks DEF v
<1> QED BY <1>6, <1>7

\* A call that has its value at once, and one whose value is that of an expression.
LEMMA AppliedFollows ==
    ASSUME RulesKept, NEW what, NEW goal, Following(stack, ctl, chain, output, what, goal),
           Applies, stack' = Front(stack), NEW v
    PROVE  /\ ctl' = Give(v) /\ Is(v, chain', output') \in Applied(Fun, Args, chain, output)
                => Following(stack', ctl', chain', output', what, goal)
           /\ (/\ ctl' = Eval(v)
               /\ Means(v, chain', output') \subseteq Applied(Fun, Args, chain, output))
                => Following(stack', ctl', chain', output', what, goal)
<1>1. PICK b : /\ Accounts(stack, b, what, goal)
               /\ Controls(ctl, chain, output, stack[Len(stack)], b[Len(stack)])
  BY DEF Following
<1>2. stack # <<>>
  BY DEF Applies, AllCells, Giving
<1> DEFINE n == Len(stack)
           ms == Applied(Fun, Args, chain, output)
<1>3. n > 1 /\ \A m \in ms : Takes(stack[n - 1], b[n - 1], m)
  BY <1>1, <1>2, Applying DEF Top
<1> HIDE DEF ms
<1>4. ASSUME ctl' = Give(v), Is(v, chain', output') \in ms
      PROVE  Following(stack', ctl', chain', output', what, goal)
  <2>1. Takes(stack[n - 1], b[n - 1], Is(v, chain', output'))
    BY <1>3, <1>4
  <2> QED BY <1>1, <1>3, <1>4, <2>1, PopFollows
<1>5. ASSUME ctl' = Eval(v), Means(v, chain', output') \subseteq ms
      PROVE  Following(stack', ctl', chain', output', what, goal)
  <2>1. Seeks(v, chain', output', stack[n - 1], b[n - 1])
    BY <1>3, <1>5 DEF Seeks
  <2> QED BY <1>1, <1>3, <1>5, <2>1, PopSeeks
<1> QED BY <1>4, <1>5 DEF ms

LEMMA BuiltinsFollow ==
    ASSUME RulesKept, NEW what, NEW goal, Following(stack, ctl, chain, output, what, goal),
           NotAFunction \/ CallComputing \/ CallDefine \/ CallEval \/ CallIf \/ CallPrint
    PROVE  Following(stack', ctl', chain', output', what, goal)
<1> USE DEF Pop
<1> DEFINE ms == Applied(Fun, Args, chain, output)
<1>1. \A bi : Calls(bi) => Applies /\ Fun.type = "fun" /\ Fun.builtin = bi
  BY BuiltinCalled
<1>2. ASSUME Applies, stack' = Front(stack), NEW v, ctl' = Give(v), Is(v, chain', output') \in ms
      PROVE  Following(stack', ctl', chain', output', what, goal)
  BY <1>2, AppliedFollows
<1>3. ASSUME Applies, stack' = Front(stack), NEW v, ctl' = Eval(v),
             Means(v, chain', output') \subseteq ms
      PROVE  Following(stack', ctl', chain', output', what, goal)
  BY <1>3, AppliedFollows
<1> HIDE DEF ms
<1>4. CASE NotAFunction
  <2>1. /\ Applies /\ stack' = Front(stack) /\ ctl' = Give(lval_err("not a function"))
        /\ UNCHANGED <<chain, output>> /\ Fun.type # "fun"
    BY <1>4 DEF NotAFunction
  <2>2. Is(lval_err("not a function"), chain, output) \in ms
    BY <2>1 DEF ms, Applied, Wrong
  <2> QED BY <1>2, <2>1, <2>2
<1>5. CASE CallComputing
  <2>1. PICK bi \in Computing : Calls(bi) /\ ctl' = Give(Computed(bi, Args))
    BY <1>5 DEF CallComputing
  <2>2. stack' = Front(stack) /\ UNCHANGED <<chain, output>>
    BY <1>5 DEF CallComputing
  <2>3. Applies /\ Fun.type = "fun" /\ Fun.builtin = bi
    BY <1>1, <2>1
  <2>4. Is(Computed(bi, Args), chain, output) \in ms
    BY <2>3, BuiltinsApart DEF ms, Applied
  <2> QED BY <1>2, <2>1, <2>2, <2>3, <2>4
<1>6. CASE CallDefine
  <2>1. PICK bi \in Definers :
           LET r == btinfn_define(chain[DefinerFrame(bi)], Args, bi)
           IN  /\ Calls(bi) /\ chain' = [chain EXCEPT ![DefinerFrame(bi)] = r.env]
               /\ ctl' = Give(r.value)
    BY <1>6 DEF CallDefine
  <2>2. stack' = Front(stack) /\ UNCHANGED output
    BY <1>6 DEF CallDefine
  <2> DEFINE d == DefinerFrame(bi)
             r == btinfn_define(chain[d], Args, bi)
  <2>3. Applies /\ Fun.type = "fun" /\ Fun.builtin = bi
    BY <1>1, <2>1
  <2>4. ms = Defined(bi, Args, chain, output)
    BY <2>3, BuiltinsApart DEF ms, Applied
  <2>5. Is(r.value, [chain EXCEPT ![d] = r.env], output) \in ms
    BY <2>4 DEF Defined, DefinerFrame, Here
  <2>6. chain' = [chain EXCEPT ![d] = r.env] /\ ctl' = Give(r.value)
    BY <2>1
  <2> HIDE DEF r, d
  <2> QED BY <1>2, <2>2, <2>3, <2>5, <2>6
<1>7. CASE CallEval
  <2>1. Calls("eval") /\ stack' = Front(stack) /\ UNCHANGED <<chain, output>>
    BY <1>7 DEF CallEval
  <2>2. Applies /\ Fun.type = "fun" /\ Fun.builtin = "eval"
    BY <1>1, <2>1
  <2>3. ms = IF EvalTakes THEN Means(AsSexpr(Args.cell[1]), chain, output)
             ELSE Wrong("eval takes", chain, output)
    BY <2>2, BuiltinsApart DEF ms, Applied, EvalTakes
  <2>4. CASE EvalTakes
    BY <1>3, <1>7, <2>1, <2>2, <2>3, <2>4 DEF CallEval
  <2>5. CASE ~EvalTakes
    <3>1. Is(lval_err("eval takes"), chain, output) \in ms
      BY <2>3, <2>5 DEF Wrong
    <3> QED BY <1>2, <1>7, <2>1, <2>2, <2>5, <3>1 DEF CallEval
  <2> QED BY <2>4, <2>5
<1>8. CASE CallIf
  <2>1. Calls("if") /\ stack' = Front(stack) /\ UNCHANGED <<chain, output>>
    BY <1>8 DEF CallIf
  <2>2. Applies /\ Fun.type = "fun" /\ Fun.builtin = "if"
    BY <1>1, <2>1
  <2> DEFINE i == IF Args.cell[1].number # 0 THEN 2 ELSE 3
             j == IF Args.cell[1].number = 0 THEN 3 ELSE 2
  <2>3. ms = IF IfTakes THEN Means(AsSexpr(Args.cell[j]), chain, output)
             ELSE Wrong("if takes", chain, output)
    BY <2>2, BuiltinsApart DEF ms, Applied, IfTakes
  <2>4. i = j
    OBVIOUS
  <2>5. ctl' = IF ~IfTakes THEN Give(lval_err("if takes")) ELSE Eval(AsSexpr(Args.cell[i]))
    BY <1>8 DEF CallIf
  <2> HIDE DEF i, j
  <2>6. CASE IfTakes
    BY <1>3, <2>1, <2>2, <2>3, <2>4, <2>5, <2>6
  <2>7. CASE ~IfTakes
    <3>1. Is(lval_err("if takes"), chain, output) \in ms
      BY <2>3, <2>7 DEF Wrong
    <3> QED BY <1>2, <2>1, <2>2, <2>5, <2>7, <3>1
  <2> QED BY <2>6, <2>7
<1>9. CASE CallPrint
  <2> DEFINE o == Append(output, [i \in 1..Len(Args.cell) |-> lval_print(Args.cell[i])])
  <2>1. /\ Calls("print") /\ stack' = Front(stack) /\ UNCHANGED chain
        /\ output' = o /\ ctl' = Give(Nil)
    BY <1>9 DEF CallPrint, Nil
  <2>2. Applies /\ Fun.type = "fun" /\ Fun.builtin = "print"
    BY <1>1, <2>1
  <2>3. Is(Nil, chain, o) \in ms
    BY <2>2, BuiltinsApart DEF ms, Applied
  <2> HIDE DEF o
  <2> QED BY <1>2, <2>1, <2>2, <2>3
<1> QED BY <1>4, <1>5, <1>6, <1>7, <1>8, <1>9

LEMMA UseFollows ==
    ASSUME RulesKept, NEW what, NEW goal, Following(stack, ctl, chain, output, what, goal),
           CallLoad
    PROVE  Following(stack', ctl', chain', output', what, goal)
<1>1. PICK b : /\ Accounts(stack, b, what, goal)
               /\ Controls(ctl, chain, output, stack[Len(stack)], b[Len(stack)])
  BY DEF Following
<1>2. Calls("use") /\ UNCHANGED <<chain, output>>
  BY DEF CallLoad
<1>3. Applies /\ Fun.type = "fun" /\ Fun.builtin = "use" /\ stack # <<>>
  BY <1>2, BuiltinCalled DEF Applies, AllCells, Giving
<1> DEFINE n == Len(stack)
           ms == Applied(Fun, Args, chain, output)
           es == Library[Args.cell[1].string]
           takes == LoadTakes /\ Args.cell[1].string \in DOMAIN Library
<1>4. n > 1 /\ \A m \in ms : Takes(stack[n - 1], b[n - 1], m)
  BY <1>1, <1>3, Applying DEF Top
<1>5. ms = IF takes THEN {Is(Nil, l.chain, l.out) : l \in Finished(Ran(es, chain, output))}
           ELSE Wrong("use fails", chain, output)
  BY <1>3, BuiltinsApart DEF LoadTakes, Applied
<1>6. IF takes THEN stack' = Append(Front(stack), Load(es)) /\ ctl' = Give(Nil)
      ELSE stack' = Front(stack) /\ ctl' = Give(lval_err("use fails"))
  BY DEF CallLoad, Pop, Nil
<1> HIDE DEF ms, takes, es
<1>7. CASE ~takes
  <2>1. Is(lval_err("use fails"), chain', output') \in ms
    BY <1>2, <1>5, <1>7 DEF Wrong
  <2> QED BY <1>3, <1>6, <1>7, <2>1, AppliedFollows DEF ms
<1>8. CASE takes
  <2> DEFINE fr == Load(es)
             r == Task(es, chain, output)
             all == Ran(es, chain, output)
  <2>1. /\ fr.what = "load" /\ fr.rest = es
        /\ r.goal = es /\ r.chain = chain /\ r.out = output
    BY DEF Load, Task
  <2> HIDE DEF fr, r, all
  <2>2. fr.what \in Inner /\ Agrees(fr, r)
    BY <2>1 DEF Inner, Agrees
  <2>3. ms = {Is(Nil, l.chain, l.out) : l \in Finished(all)}
    BY <1>5, <1>8 DEF all
  <2>4. \A l \in Finished(all) : Takes(stack[n - 1], b[n - 1], Is(Nil, l.chain, l.out))
    BY <1>4, <2>3
  <2>5. Hands(fr, r, stack[n - 1], b[n - 1])
    BY <2>1, <2>4 DEF Hands, all
  <2>6. Takes(fr, r, Is(Nil, chain, output))
    <3>1. Left(es, chain, output) \in all
      BY DEF RulesKept, KeepsRuns, all
    <3>2. ~IsErr(Nil)
      BY DEF IsErr, Nil, lval_sexpr
    <3>3. /\ Is(Nil, chain, output).value = Nil /\ Is(Nil, chain, output).chain = chain
          /\ Is(Nil, chain, output).out = output
      BY DEF Is
    <3>4. Reported(Nil, output) = output
      BY <3>2 DEF Reported
    <3> QED BY <2>1, <3>1, <3>3, <3>4 DEF Takes, all
  <2>7. Following(Append(Front(stack), fr), Give(Nil), chain, output, what, goal)
    BY <1>1, <1>4, <2>2, <2>5, <2>6, TakesPlace
  <2> QED BY <1>2, <1>6, <1>8, <2>7 DEF fr
<1> QED BY <1>7, <1>8

\* Lambdas
LEMMA LambdasFollow ==
    ASSUME RulesKept, NEW what, NEW goal, Following(stack, ctl, chain, output, what, goal),
           CallFails \/ PartialCall \/ Enter
    PROVE  Following(stack', ctl', chain', output', what, goal)
<1>1. PICK b : /\ Accounts(stack, b, what, goal)
               /\ Controls(ctl, chain, output, stack[Len(stack)], b[Len(stack)])
  BY DEF Following
<1>2. Calls("none") /\ UNCHANGED output
  BY DEF CallFails, PartialCall, Enter
<1>3. Applies /\ Fun.type = "fun" /\ Fun.builtin = "none" /\ stack # <<>>
  BY <1>2, BuiltinCalled DEF Applies, AllCells, Giving
<1> DEFINE n == Len(stack)
           ms == Applied(Fun, Args, chain, output)
<1>4. n > 1 /\ \A m \in ms : Takes(stack[n - 1], b[n - 1], m)
  BY <1>1, <1>3, Applying DEF Top
<1>5. ms = Called(Bound, chain, output)
  BY <1>3, BuiltinsApart DEF Applied, Bound
<1> HIDE DEF ms
<1>6. CASE CallFails
  <2>1. PICK e \in Bound.errs : ctl' = Give(e)
    BY <1>6 DEF CallFails
  <2>2. stack' = Front(stack) /\ UNCHANGED chain /\ Bound.errs # {}
    BY <1>6 DEF CallFails, Pop
  <2>3. Is(e, chain', output') \in ms
    BY <1>2, <1>5, <2>1, <2>2 DEF Called
  <2> QED BY <1>3, <2>1, <2>2, <2>3, AppliedFollows DEF ms
<1>7. CASE PartialCall
  <2>1. /\ Bound.errs = {} /\ Bound.fun.formals.cell # <<>> /\ UNCHANGED chain
        /\ stack' = Front(stack) /\ ctl' = Give(Bound.fun)
    BY <1>7 DEF PartialCall, Pop
  <2>2. Is(Bound.fun, chain', output') \in ms
    BY <1>2, <1>5, <2>1 DEF Called
  <2> QED BY <1>3, <2>1, <2>2, AppliedFollows DEF ms
<1>8. CASE Enter
  <2> DEFINE e == AsSexpr(Bound.fun.body)
             c == Append(chain, Bound.fun.environment)
             r == Task(e, c, output)
  <2>1. /\ Bound.errs = {} /\ Bound.fun.formals.cell = <<>> /\ Len(chain) < MaxDepth
        /\ chain' = c /\ stack' = Append(Front(stack), Body) /\ ctl' = Eval(e)
    BY <1>8 DEF Enter, Pop, Here
  <2>2. ms = {Is(m.value, Front(m.chain), m.out) : m \in Means(e, c, output)}
    BY <1>5, <2>1 DEF Called
  <2>3. Body.what = "body" /\ r.goal = e /\ r.chain = c /\ r.out = output
    BY DEF Body, Task
  <2> HIDE DEF e, c, r
  <2>4. Body.what \in Inner /\ Agrees(Body, r)
    BY <2>3 DEF Inner, Agrees
  <2>5. \A m \in Means(e, c, output) :
           Takes(stack[n - 1], b[n - 1], Is(m.value, Front(m.chain), m.out))
    BY <1>4, <2>2
  <2>6. Hands(Body, r, stack[n - 1], b[n - 1])
    BY <2>3, <2>5 DEF Hands
  <2>7. \A m \in Means(e, c, output) : Takes(Body, r, m)
    BY <2>3 DEF Takes
  <2>8. Seeks(e, c, output, Body, r)
    BY <2>7 DEF Seeks
  <2>9. Following(Append(Front(stack), Body), Eval(e), c, output, what, goal)
    BY <1>1, <1>4, <2>4, <2>6, <2>8, TakesPlace
  <2> QED BY <1>2, <2>1, <2>9
<1> QED BY <1>6, <1>7, <1>8

LEMMA LeaveFollows ==
    ASSUME NEW what, NEW goal, Following(stack, ctl, chain, output, what, goal), Leave
    PROVE  Following(stack', ctl', chain', output', what, goal)
<1>1. PICK b : /\ Accounts(stack, b, what, goal)
               /\ Controls(ctl, chain, output, stack[Len(stack)], b[Len(stack)])
  BY DEF Following
<1> DEFINE n == Len(stack)
           r == b[n]
           v == ctl.v
<1>2. /\ ctl.op = "give" /\ stack # <<>> /\ Top.what = "body"
      /\ chain' = Front(chain) /\ stack' = Front(stack) /\ UNCHANGED <<ctl, output>>
  BY DEF Leave, Giving, Pop
<1>3. n > 1 /\ Hands(Top, r, stack[n - 1], b[n - 1])
  BY <1>1, <1>2, OnTop DEF Top, Inner
<1>4. Takes(Top, r, Is(v, chain, output))
  BY <1>1, <1>2 DEF Controls, Top
<1>5. /\ Is(v, chain, output).value = v /\ Is(v, chain, output).chain = chain
      /\ Is(v, chain, output).out = output
  BY DEF Is
<1> HIDE DEF r, v
<1>6. Is(v, chain, output) \in Means(r.goal, r.chain, r.out)
  BY <1>2, <1>4 DEF Takes
<1>7. Takes(stack[n - 1], b[n - 1], Is(v, Front(chain), output))
  BY <1>2, <1>3, <1>5, <1>6 DEF Hands
<1> DEFINE t == Front(stack)
           c == Front(chain)
<1>8. Following(t, Give(v), c, output, what, goal)
  BY <1>1, <1>3, <1>7, GivesBack
<1> HIDE DEF t, c
<1>9. Give(v).op = ctl.op /\ Give(v).v = ctl.v
  BY <1>2 DEF Give, v
<1>10. Following(t, ctl, c, output, what, goal)
  BY <1>8, <1>9 DEF Following, Controls
<1> QED BY <1>2, <1>10 DEF t, c

\* btinfn_load
LEMMA LoadFollows ==
    ASSUME RulesKept, NEW what, NEW goal, Following(stack, ctl, chain, output, what, goal),
           LoadNext \/ LoadDone
    PROVE  Following(stack', ctl', chain', output', what, goal)
<1>1. PICK b : /\ Accounts(stack, b, what, goal)
               /\ Controls(ctl, chain, output, stack[Len(stack)], b[Len(stack)])
  BY DEF Following
<1> DEFINE n == Len(stack)
           r == b[n]
           v == ctl.v
           o == Reported(v, output)
           all == Ran(r.goal, r.chain, r.out)
           l == Left(Top.rest, chain, o)
<1>2. /\ ctl.op = "give" /\ stack # <<>> /\ Top.what = "load" /\ UNCHANGED chain
      /\ output' = o
  BY DEF LoadNext, LoadDone, Giving, Shown, Reported
<1>3. n > 1 /\ Hands(Top, r, stack[n - 1], b[n - 1])
  BY <1>1, <1>2, OnTop DEF Top, Inner
<1>4. Takes(Top, r, Is(v, chain, output))
  BY <1>1, <1>2 DEF Controls, Top
<1>5. /\ Is(v, chain, output).value = v /\ Is(v, chain, output).chain = chain
      /\ Is(v, chain, output).out = output
  BY DEF Is
<1>6. l.rest = Top.rest /\ l.chain = chain /\ l.out = o
  BY DEF Left
<1> HIDE DEF r, v, l
<1>7. l \in all
  BY <1>2, <1>4, <1>5 DEF Takes, l
<1>8. \A k \in all : k.rest # <<>> => NextRun(k) \subseteq all
  BY DEF RulesKept, KeepsRuns
<1> HIDE DEF o, all
<1>9. CASE LoadDone
  <2>1. Top.rest = <<>> /\ stack' = Front(stack) /\ ctl' = Give(Nil)
    BY <1>9 DEF LoadDone, Pop, Nil
  <2>2. l \in Finished(all)
    BY <1>6, <1>7, <2>1 DEF Finished
  <2>3. Takes(stack[n - 1], b[n - 1], Is(Nil, chain, o))
    BY <1>2, <1>3, <1>6, <2>2 DEF Hands, all
  <2>4. Following(Front(stack), Give(Nil), chain, o, what, goal)
    BY <1>1, <1>3, <2>3, GivesBack
  <2> QED BY <1>2, <2>1, <2>4
<1>10. CASE LoadNext
  <2> DEFINE fr == Load(Tail(Top.rest))
             e == Head(Top.rest)
  <2>1. Top.rest # <<>> /\ stack' = Append(Front(stack), fr) /\ ctl' = Eval(e)
    BY <1>10 DEF LoadNext, Pop
  <2>2. fr.what = "load" /\ fr.rest = Tail(Top.rest)
    BY DEF Load
  <2>3. NextRun(l) \subseteq all
    BY <1>6, <1>7, <1>8, <2>1
  <2>4. \A m \in Means(e, chain, o) :
           Left(Tail(Top.rest), m.chain, Reported(m.value, m.out)) \in NextRun(l)
    BY <1>6 DEF NextRun
  <2> HIDE DEF fr, e
  <2>5. fr.what \in Inner /\ Agrees(fr, r)
    BY <2>2 DEF Inner, Agrees
  <2>6. Hands(fr, r, stack[n - 1], b[n - 1])
    BY <1>2, <1>3, <2>2 DEF Hands
  <2>7. \A m \in Means(e, chain, o) : Takes(fr, r, m)
    BY <2>2, <2>3, <2>4 DEF Takes, all
  <2>8. Seeks(e, chain, o, fr, r)
    BY <2>7 DEF Seeks
  <2>9. Following(Append(Front(stack), fr), Eval(e), chain, o, what, goal)
    BY <1>1, <1>3, <2>5, <2>6, <2>8, TakesPlace
  <2> QED BY <1>2, <2>1, <2>9
<1> QED BY <1>9, <1>10

LEMMA EvaluatesFollows ==
    ASSUME RulesKept, NEW what, NEW goal, Following(stack, ctl, chain, output, what, goal),
           Finite(chain, stack, ctl), Evaluates
    PROVE  Following(stack', ctl', chain', output', what, goal)
<1>1. CASE EvalSymbol \/ EvalSelf
  BY <1>1, SymbolFollows
<1>2. CASE EvalList
  BY <1>2, ListFollows
<1>3. CASE NextCell
  BY <1>3, CellsFollow
<1>4. CASE FirstError \/ Single
  BY <1>4, ValuesFollow
<1>5. CASE \/ NotAFunction \/ CallComputing \/ CallDefine \/ CallEval \/ CallIf \/ CallPrint
  BY <1>5, BuiltinsFollow
<1>6. CASE CallLoad
  BY <1>6, UseFollows
<1>7. CASE CallFails \/ PartialCall \/ Enter
  BY <1>7, LambdasFollow
<1>8. CASE Leave
  BY <1>8, LeaveFollows
<1>9. CASE LoadNext \/ LoadDone
  BY <1>9, LoadFollows
<1> QED BY <1>1, <1>2, <1>3, <1>4, <1>5, <1>6, <1>7, <1>8, <1>9, Zenon DEF Evaluates

----------------------------------------------------------------------------
(* The command line, by the rules *)

LEMMA MinIs ==
    ASSUME NEW T \in SUBSET Nat, NEW x \in T, \A y \in T : x <= y
    PROVE  Min(T) = x
<1> DEFINE z == Min(T)
<1>1. z \in T /\ \A y \in T : z <= y
  BY DEF Min
<1> HIDE DEF z
<1>2. z <= x /\ x <= z /\ z \in Nat /\ x \in Nat
  BY <1>1
<1> QED BY <1>2 DEF z

LEMMA MaxIs ==
    ASSUME NEW T \in SUBSET Nat, NEW x \in T, \A y \in T : y <= x
    PROVE  Max(T) = x
<1> DEFINE z == Max(T)
<1>0. \A y \in T : x >= y
  OBVIOUS
<1>1. z \in T /\ \A y \in T : z >= y
  BY <1>0 DEF Max
<1> HIDE DEF z
<1>2. z >= x /\ x >= z /\ z \in Nat /\ x \in Nat
  BY <1>0, <1>1
<1> QED BY <1>2 DEF z

\* What is left of a sequence.
LEMMA RestFacts ==
    ASSUME NEW S, NEW s \in Seq(S), NEW k \in 0..Len(s)
    PROVE  /\ SubSeq(s, k + 1, Len(s)) = <<>> => k = Len(s)
           /\ SubSeq(s, k + 1, Len(s)) # <<>> =>
                 /\ k + 1 \in 1..Len(s) /\ Head(SubSeq(s, k + 1, Len(s))) = s[k + 1]
                 /\ Tail(SubSeq(s, k + 1, Len(s))) = SubSeq(s, (k + 1) + 1, Len(s))
<1> DEFINE n == Len(s)
           t == SubSeq(s, k + 1, n)
           u == SubSeq(s, (k + 1) + 1, n)
<1>1. n \in Nat /\ k \in Nat /\ k <= n
  OBVIOUS
<1>2. t \in Seq(S) /\ Len(t) = n - k /\ \A i \in 1..(n - k) : t[i] = s[k + i]
  BY <1>1, StretchFacts
<1>3. ASSUME k < n
      PROVE  u \in Seq(S) /\ Len(u) = n - (k + 1) /\ \A i \in 1..(n - (k + 1)) : u[i] = s[(k + 1) + i]
  <2>1. k + 1 \in Nat /\ k + 1 <= n
    BY <1>1, <1>3
  <2> QED BY <1>1, <2>1, StretchFacts
<1> HIDE DEF n, t, u
<1>4. t = <<>> => k = n
  <2>1. t = <<>> => Len(t) = 0
    BY <1>2, EmptySeq
  <2> QED BY <1>1, <1>2, <2>1
<1>5. ASSUME t # <<>>
      PROVE  k + 1 \in 1..n /\ Head(t) = s[k + 1] /\ Tail(t) = u
  <2>1. Len(t) # 0
    BY <1>2, <1>5, EmptySeq
  <2>2. k < n /\ k + 1 \in 1..n /\ 1 \in 1..(n - k)
    BY <1>1, <1>2, <2>1
  <2>3. Head(t) = t[1]
    BY <1>2, <1>5
  <2>4. /\ Tail(t) \in Seq(S) /\ Len(Tail(t)) = (n - k) - 1
        /\ \A i \in 1..((n - k) - 1) : Tail(t)[i] = t[i + 1]
    BY <1>1, <1>2, <1>5
  <2>5. \A i \in 1..((n - k) - 1) : i + 1 \in 1..(n - k) /\ k + (i + 1) = (k + 1) + i
    BY <1>1
  <2> DEFINE w == Tail(t)
  <2> HIDE DEF w
  <2>6. \A i \in 1..((n - k) - 1) : w[i] = u[i]
    BY <1>1, <1>2, <1>3, <2>2, <2>4, <2>5 DEF w
  <2>7. w = u
    BY <1>1, <1>3, <2>2, <2>4, <2>6, SMTT(20), ZenonT(40) DEF w
  <2> QED BY <1>2, <2>2, <2>3, <2>7 DEF w
<1> QED BY <1>4, <1>5 DEF n, t, u

LEMMA LastErrorAppended ==
    ASSUME NEW S, NEW vs \in Seq(S), NEW v
    PROVE  LastError(Append(vs, v)) = ErrorOf(v, LastError(vs))
<1> DEFINE n == Len(vs)
           ws == Append(vs, v)
           T == {i \in 1..n : IsErr(vs[i])}
           U == {i \in 1..Len(ws) : IsErr(ws[i])}
<1>1. n \in Nat /\ Len(ws) = n + 1 /\ ws[n + 1] = v /\ \A i \in 1..n : ws[i] = vs[i]
  <2>1. vs \in Seq(S \cup {v})
    BY SeqMonotonic
  <2> QED BY <2>1
<1>2. \A i \in 1..(n + 1) : i \in 1..n \/ i = n + 1
  BY <1>1
<1>3. CASE IsErr(v)
  <2>1. n + 1 \in U /\ U \in SUBSET Nat /\ \A y \in U : y <= n + 1
    BY <1>1, <1>3
  <2> HIDE DEF n, ws, T, U
  <2>2. Max(U) = n + 1 /\ U # {}
    BY <2>1, MaxIs
  <2>3. LastError(ws) = {ws[Max(U)]}
    BY <2>2 DEF LastError, U
  <2> QED BY <1>1, <1>3, <2>2, <2>3 DEF ErrorOf, ws
<1>4. CASE ~IsErr(v)
  <2>1. U = T
    BY <1>1, <1>2, <1>4
  <2>2. T \in SUBSET (1..n)
    OBVIOUS
  <2> HIDE DEF n, ws, T, U
  <2>3. T # {} => Max(T) \in 1..n
    BY <1>1, <2>2, MaxOf
  <2>4. LastError(vs) = IF T = {} THEN {} ELSE {vs[Max(T)]}
    BY DEF LastError, T, n
  <2>5. LastError(ws) = IF U = {} THEN {} ELSE {ws[Max(U)]}
    BY DEF LastError, U
  <2>6. LastError(ws) = LastError(vs)
    BY <1>1, <2>1, <2>3, <2>4, <2>5
  <2> QED BY <1>4, <2>6 DEF ErrorOf, ws
<1> QED BY <1>3, <1>4

\* Nothing has been evaluated.
Fresh == chain = <<lenv_init>> /\ output = <<>>

\* Nothing is being evaluated.
AtRest == stack = <<>> /\ ctl.op = "give"

EvalsTo(p, k) == {i \in 1..k : p.options[i].flag = "eval"}

CodeTo(p, k) ==
    IF EvalsTo(p, k) = {} THEN {} ELSE {p.options[Max(EvalsTo(p, k))].text}

\* The first k options have been handled.
Handled(k) ==
    /\ options = SubSeq(program.options, k + 1, Len(program.options))
    /\ code = CodeTo(program, k)
    /\ \A i \in 1..k : program.options[i].flag \notin {"help", "wrong"}

\* The text has not been read, or is being evaluated.
Runs(what, text) ==
    \/ AtRest /\ lines = <<text>> /\ Fresh
    \/ Following(stack, ctl, chain, output, what, text)

Typing == [rest |-> lines, typed |-> program.typed]

\* Where the process is, and what its answer is among.
Answering ==
    \/ status # {} /\ AtRest /\ Ends(chain, output, status) \in Answers(program)
    \/ /\ status = {} /\ mode = "options" /\ AtRest /\ Fresh
       /\ \E k \in 0..Len(program.options) : Handled(k)
    \/ /\ status = {} /\ mode = "code"
       /\ \E text : Answers(program) = OfCode(text) /\ text \in Text /\ Runs("code", text)
    \/ /\ status = {} /\ mode = "script"
       /\ \E text : Answers(program) = OfScript(text) /\ text \in Text /\ Runs("script", text)
    \/ /\ status = {} /\ mode = "repl" /\ Answers(program) = OfLines(program.typed)
       /\ \/ AtRest /\ Left(lines, chain, output) \in Replied(program.typed)
          \/ Following(stack, ctl, chain, output, "line", Typing)

\* A first call with nothing above it.
LEMMA StartsAccounts ==
    ASSUME NEW fr, NEW what, fr.what = what, what \notin Inner, NEW goal, NEW r, r.goal = goal
    PROVE  /\ Accounts(<<fr>>, <<r>>, what, goal) /\ <<fr>> # <<>>
           /\ Len(<<fr>>) = 1 /\ <<fr>>[1] = fr /\ <<r>>[1] = r
<1> DEFINE s == <<fr>>
           b == <<r>>
<1>1. /\ s \in Seq({fr}) /\ b \in Seq({r}) /\ Len(s) = 1 /\ Len(b) = 1
      /\ s[1] = fr /\ b[1] = r
  OBVIOUS
<1>2. s # <<>>
  BY <1>1, EmptySeq
<1> HIDE DEF s, b
<1>3. \A i \in 1..1 : i = 1
  OBVIOUS
<1>4. \A i \in 2..1 : FALSE
  OBVIOUS
<1>5. Agrees(fr, r)
  BY DEF Agrees, Inner
<1>6. Accounts(s, b, what, goal)
  BY <1>1, <1>2, <1>3, <1>4, <1>5 DEF Accounts
<1> QED BY <1>1, <1>2, <1>6 DEF s, b

LEMMA StartsFollowing ==
    ASSUME NEW fr, NEW what, fr.what = what, what \notin Inner, NEW goal,
           NEW k, NEW c, NEW o, Controls(k, c, o, fr, Task(goal, c, o))
    PROVE  Following(<<fr>>, k, c, o, what, goal)
<1> DEFINE s == <<fr>>
           r == Task(goal, c, o)
           b == <<r>>
<1>1. r.goal = goal
  BY DEF Task
<1> HIDE DEF r
<1>2. Accounts(s, b, what, goal)
  BY <1>1, StartsAccounts
<1>3. s # <<>> /\ Len(s) = 1 /\ s[1] = fr /\ b[1] = r
  BY <1>1, StartsAccounts
<1> HIDE DEF s, b
<1> QED BY <1>2, <1>3 DEF Following, s, r

LEMMA AnsweringInit == Init => Answering
<1> SUFFICES ASSUME Init PROVE Answering
  OBVIOUS
<1>1. /\ program \in Programs /\ options = program.options /\ code = {}
      /\ mode = "options" /\ status = {} /\ AtRest /\ Fresh
  BY DEF Init, NewEvaluation, Fresh, AtRest, Give
<1>2. program.options \in Seq(Options)
  BY <1>1, ProgramFacts
<1>3. 0 \in 0..Len(program.options) /\ \A i \in 1..0 : FALSE
  BY <1>2
<1>4. options = SubSeq(program.options, 0 + 1, Len(program.options))
  BY <1>1, <1>2
<1>5. EvalsTo(program, 0) = {}
  BY <1>3 DEF EvalsTo
<1>6. Handled(0)
  BY <1>1, <1>3, <1>4, <1>5 DEF Handled, CodeTo
<1> QED BY <1>1, <1>3, <1>6 DEF Answering

LEMMA OptionAnswers ==
    ASSUME Reading, Answering, Option
    PROVE  Answering'
<1> DEFINE p == program
           os == p.options
           n == Len(os)
<1>1. /\ status = {} /\ mode = "options" /\ options # <<>>
      /\ UNCHANGED <<program, mode, chain, stack, ctl, output>>
  BY DEF Option, evaluation
<1>2. AtRest /\ Fresh
  BY <1>1 DEF Answering
<1>3. PICK k \in 0..n : Handled(k)
  BY <1>1 DEF Answering
<1>4. os \in Seq(Options)
  BY ProgramFacts DEF Reading
<1>5. n \in Nat /\ k \in Nat
  BY <1>4
<1> DEFINE o == os[k + 1]
<1>6. k + 1 \in 1..n /\ Head(options) = o /\ Tail(options) = SubSeq(os, (k + 1) + 1, n)
  BY <1>1, <1>3, <1>4, RestFacts DEF Handled
<1>7. \A i \in 1..k : os[i].flag \notin {"help", "wrong"}
  BY <1>3 DEF Handled
<1>8. \A i \in 1..(k + 1) : i \in 1..k \/ i = k + 1
  BY <1>5
<1>9. k + 1 \in 1..(k + 1) /\ k + 1 \in 0..n /\ \A i \in 1..k : i \in 1..(k + 1)
  BY <1>5, <1>6
<1>10. Fresh' /\ AtRest'
  BY <1>1, <1>2 DEF Fresh, AtRest
<1>11. program' = p
  BY <1>1
<1> HIDE DEF p, os, n, o
<1>12. CASE o.flag \in {"help", "wrong"}
  <2> DEFINE T == Flagged(p, {"help", "wrong"})
             c == IF o.flag = "help" THEN 0 ELSE 2
  <2>1. k + 1 \in T
    BY <1>6, <1>12 DEF Flagged, os, n, o
  <2>2. T \in SUBSET Nat /\ \A y \in T : k + 1 <= y
    <3>1. \A y \in T : y \in 1..n /\ os[y].flag \in {"help", "wrong"}
      BY DEF Flagged, os, n
    <3>2. \A y \in T : y \in Nat /\ y \notin 1..k
      BY <1>5, <1>7, <3>1
    <3>3. \A y \in Nat \ {0} : y \notin 1..k => k + 1 <= y
      BY <1>5
    <3> QED BY <1>5, <3>1, <3>2, <3>3
  <2> HIDE DEF T
  <2>3. Min(T) = k + 1 /\ T # {}
    BY <2>1, <2>2, MinIs
  <2>4. Answers(p) = {Untouched({c})}
    BY <2>3 DEF Answers, T, o, os
  <2>5. status' = {c}
    BY <1>6, <1>12 DEF Option
  <2>6. Ends(chain', output', status') = Untouched({c})
    BY <1>10, <2>5 DEF Fresh, Untouched
  <2>7. Ends(chain', output', status') \in Answers(program')
    BY <1>11, <2>4, <2>6
  <2>8. AtRest' /\ status' # {}
    BY <1>10, <2>5
  <2> QED BY <2>7, <2>8 DEF Answering
<1>13. CASE o.flag \notin {"help", "wrong"}
  <2>1. status' = {} /\ options' = Tail(options)
        /\ ((o.flag = "debug" /\ code' = code) \/ (o.flag = "eval" /\ code' = {o.text}))
    BY <1>1, <1>6, <1>13 DEF Option
  <2>2. \A i \in 1..(k + 1) : os[i].flag \notin {"help", "wrong"}
    BY <1>7, <1>8, <1>13 DEF o
  <2>3. code' = CodeTo(p, k + 1)
    <3>1. code = CodeTo(p, k)
      BY <1>3 DEF Handled, p
    <3>2. CASE o.flag = "debug" /\ code' = code
      <4>1. o.flag # "eval"
        BY <3>2
      <4>2. EvalsTo(p, k + 1) = EvalsTo(p, k)
        BY <1>8, <1>9, <4>1 DEF EvalsTo, o, os
      <4> QED BY <3>1, <3>2, <4>2 DEF CodeTo
    <3>3. CASE o.flag = "eval" /\ code' = {o.text}
      <4> DEFINE T == EvalsTo(p, k + 1)
      <4>1. k + 1 \in T
        BY <1>9, <3>3 DEF EvalsTo, o, os
      <4>2. T \in SUBSET Nat /\ \A y \in T : y <= k + 1
        BY <1>5 DEF EvalsTo
      <4> HIDE DEF T
      <4>3. Max(T) = k + 1 /\ T # {}
        BY <4>1, <4>2, MaxIs
      <4> QED BY <3>3, <4>3 DEF CodeTo, T, o, os
    <3> QED BY <2>1, <3>2, <3>3
  <2>4. PICK j : j = k + 1
    OBVIOUS
  <2>5. options' = SubSeq(os, j + 1, n)
    BY <1>6, <2>1, <2>4
  <2>6. Handled(j)'
    BY <1>11, <2>2, <2>3, <2>4, <2>5 DEF Handled, os, n, p
  <2>7. j \in 0..Len(program'.options)
    BY <1>9, <1>11, <2>4 DEF os, n
  <2>8. \E i \in 0..Len(program'.options) : Handled(i)'
    BY <2>6, <2>7
  <2> QED BY <1>1, <1>2, <1>10, <2>1, <2>8 DEF Answering
<1> QED BY <1>12, <1>13

LEMMA OptionsEndAnswers ==
    ASSUME RulesKept, Reading, Answering, OptionsEnd
    PROVE  Answering'
<1> DEFINE p == program
           os == p.options
           n == Len(os)
<1>1. /\ status = {} /\ mode = "options" /\ options = <<>>
      /\ UNCHANGED <<program, chain, stack, ctl, output>>
  BY DEF OptionsEnd, evaluation
<1>2. AtRest /\ Fresh
  BY <1>1 DEF Answering
<1>3. PICK k \in 0..n : Handled(k)
  BY <1>1 DEF Answering
<1>4. os \in Seq(Options) /\ p.args \in Seq(Text)
  BY ProgramFacts DEF Reading
<1>5. k = n /\ n \in Nat
  <2>1. SubSeq(os, k + 1, n) = <<>>
    BY <1>1, <1>3 DEF Handled
  <2>2. os \in Seq(Options)
    BY <1>4
  <2> HIDE DEF os
  <2>3. k = n
    BY <2>1, <2>2, RestFacts
  <2> QED BY <2>2, <2>3
<1>6. Flagged(p, {"help", "wrong"}) = {}
  BY <1>3, <1>5 DEF Handled, Flagged
<1>7. Flagged(p, {"eval"}) = EvalsTo(p, n)
  BY DEF Flagged, EvalsTo
<1>8. code = CodeTo(p, n)
  BY <1>3, <1>5 DEF Handled
<1>9. Fresh' /\ AtRest'
  BY <1>1, <1>2 DEF Fresh, AtRest
<1>10. program' = p
  BY <1>1
<1> HIDE DEF p, os, n
<1>11. ASSUME NEW text \in code, mode' = "code", lines' = <<text>>, status' = status
       PROVE  Answering'
  <2>1. EvalsTo(p, n) # {} /\ text = p.options[Max(EvalsTo(p, n))].text
    BY <1>8, <1>11 DEF CodeTo
  <2>2. Answers(p) = OfCode(text)
    BY <1>6, <1>7, <2>1 DEF Answers
  <2>3. text \in Text
    BY <1>11 DEF Reading
  <2>4. Runs("code", text)'
    BY <1>9, <1>11 DEF Runs
  <2>5. \E t : Answers(program') = OfCode(t) /\ t \in Text /\ Runs("code", t)'
    BY <1>10, <2>2, <2>3, <2>4
  <2> QED BY <1>1, <1>11, <2>5 DEF Answering
<1>12. code = {} => EvalsTo(p, n) = {}
  BY <1>8 DEF CodeTo
<1>13. ASSUME code = {}, Len(p.args) = 0, mode' = "repl", lines' = p.typed, status' = status
       PROVE  Answering'
  <2>1. Answers(p) = OfLines(p.typed)
    BY <1>6, <1>7, <1>12, <1>13 DEF Answers
  <2>2. Left(p.typed, <<lenv_init>>, <<>>) \in Replied(p.typed)
    BY DEF RulesKept, KeepsReplies
  <2>3. Left(lines', chain', output') \in Replied(program'.typed)
    BY <1>9, <1>10, <1>13, <2>2 DEF Fresh
  <2> QED BY <1>1, <1>9, <1>10, <1>13, <2>1, <2>3 DEF Answering
<1>14. ASSUME code = {}, Len(p.args) = 1, mode' = "script", lines' = p.args, status' = status
       PROVE  Answering'
  <2> DEFINE text == p.args[1]
  <2>1. Answers(p) = OfScript(text)
    BY <1>6, <1>7, <1>12, <1>14 DEF Answers
  <2>2. text \in Text /\ p.args = <<text>>
    BY <1>4, <1>14
  <2> HIDE DEF text
  <2>3. PICK t : t = text
    OBVIOUS
  <2>4. lines' = <<t>>
    BY <1>14, <2>2, <2>3
  <2>5. Runs("script", t)'
    BY <1>9, <2>4 DEF Runs
  <2>6. \E u : Answers(program') = OfScript(u) /\ u \in Text /\ Runs("script", u)'
    BY <1>10, <2>1, <2>2, <2>3, <2>5
  <2> QED BY <1>1, <1>14, <2>6 DEF Answering
<1>15. ASSUME code = {}, Len(p.args) # 0, Len(p.args) # 1, status' = {2}
       PROVE  Answering'
  <2>1. Answers(p) = {Untouched({2})}
    BY <1>6, <1>7, <1>12, <1>15 DEF Answers
  <2>2. Ends(chain', output', status') = Untouched({2})
    BY <1>9, <1>15 DEF Fresh, Untouched
  <2>3. Ends(chain', output', status') \in Answers(program') /\ status' # {}
    BY <1>10, <1>15, <2>1, <2>2
  <2> QED BY <1>9, <2>3 DEF Answering
<1>16. \/ \E text \in code : mode' = "code" /\ lines' = <<text>> /\ UNCHANGED status
       \/ code = {} /\ CASE Len(p.args) = 0 ->
                               mode' = "repl" /\ lines' = p.typed /\ UNCHANGED status
                         [] Len(p.args) = 1 ->
                               mode' = "script" /\ lines' = p.args /\ UNCHANGED status
                         [] OTHER -> status' = {2} /\ UNCHANGED <<mode, lines>>
  BY DEF OptionsEnd, p
<1>17. CASE Len(p.args) = 0
  BY <1>11, <1>13, <1>16, <1>17
<1>18. CASE Len(p.args) = 1
  BY <1>11, <1>14, <1>16, <1>18
<1>19. CASE Len(p.args) # 0 /\ Len(p.args) # 1
  BY <1>11, <1>15, <1>16, <1>19
<1> QED BY <1>17, <1>18, <1>19

\* The first call is on top, and has something to give.
LEMMA AtBase ==
    ASSUME NEW what, NEW goal, Following(stack, ctl, chain, output, what, goal),
           Top.what \notin Inner, ctl.op = "give"
    PROVE  /\ Top.what = what /\ Front(stack) = <<>>
           /\ \E r : r.goal = goal /\ Takes(Top, r, Is(ctl.v, chain, output))
<1>1. PICK b : /\ Accounts(stack, b, what, goal)
               /\ Controls(ctl, chain, output, stack[Len(stack)], b[Len(stack)])
  BY DEF Following
<1>2. stack # <<>>
  BY DEF Following
<1> DEFINE n == Len(stack)
           r == b[n]
<1>3. n \in Nat \ {0}
  BY <1>1, <1>2, OnTop
<1>4. Front(stack) = <<>> <=> n = 1
  BY <1>1, <1>2, AccountsPopped
<1>5. n \in 2..n => stack[n].what \in Inner
  BY <1>1 DEF Accounts
<1>6. Top = stack[n]
  BY DEF Top
<1>7. n \notin 2..n
  BY <1>5, <1>6
<1> HIDE DEF n
<1>8. n = 1
  BY <1>3, <1>7
<1> USE DEF n
<1>9. stack[1].what = what /\ b[1].goal = goal
  BY <1>1, <1>2 DEF Accounts
<1>10. Takes(Top, r, Is(ctl.v, chain, output))
  BY <1>1 DEF Controls, Top
<1> HIDE DEF n
<1>11. Top.what = what /\ r.goal = goal
  BY <1>8, <1>9 DEF Top, n
<1> QED BY <1>4, <1>8, <1>10, <1>11

\* What the first call is, and what it is then given.
LEMMA BaseIs ==
    ASSUME Answering, stack # <<>>, Top.what \notin Inner, ctl.op = "give"
    PROVE  /\ status = {} /\ Front(stack) = <<>>
           /\ \/ /\ mode = "code" /\ Top.what = "code"
                 /\ \E text \in Text : /\ Answers(program) = OfCode(text)
                                       /\ CodeTakes(Top, text, Is(ctl.v, chain, output))
              \/ /\ mode = "script" /\ Top.what = "script"
                 /\ \E text \in Text : /\ Answers(program) = OfScript(text)
                                       /\ ScriptTakes(text, Is(ctl.v, chain, output))
              \/ /\ mode = "repl" /\ Top.what = "line"
                 /\ Answers(program) = OfLines(program.typed)
                 /\ Left(lines, chain, Append(output, <<lval_print(ctl.v)>>))
                       \in Replied(program.typed)
<1>1. ~AtRest
  BY DEF AtRest
<1>2. CASE /\ status = {} /\ mode = "code"
           /\ \E text : Answers(program) = OfCode(text) /\ text \in Text /\ Runs("code", text)
  <2>1. PICK text : Answers(program) = OfCode(text) /\ text \in Text /\ Runs("code", text)
    BY <1>2
  <2>2. Following(stack, ctl, chain, output, "code", text)
    BY <1>1, <2>1 DEF Runs
  <2>3. Top.what = "code" /\ Front(stack) = <<>>
    BY <2>2, AtBase
  <2>4. PICK r : r.goal = text /\ Takes(Top, r, Is(ctl.v, chain, output))
    BY <2>2, AtBase
  <2>5. CodeTakes(Top, text, Is(ctl.v, chain, output))
    BY <2>3, <2>4 DEF Takes
  <2> QED BY <1>2, <2>1, <2>3, <2>5
<1>3. CASE /\ status = {} /\ mode = "script"
           /\ \E text : Answers(program) = OfScript(text) /\ text \in Text /\ Runs("script", text)
  <2>1. PICK text : Answers(program) = OfScript(text) /\ text \in Text /\ Runs("script", text)
    BY <1>3
  <2>2. Following(stack, ctl, chain, output, "script", text)
    BY <1>1, <2>1 DEF Runs
  <2>3. Top.what = "script" /\ Front(stack) = <<>>
    BY <2>2, AtBase
  <2>4. PICK r : r.goal = text /\ Takes(Top, r, Is(ctl.v, chain, output))
    BY <2>2, AtBase
  <2>5. ScriptTakes(text, Is(ctl.v, chain, output))
    BY <2>3, <2>4 DEF Takes
  <2> QED BY <1>3, <2>1, <2>3, <2>5
<1>4. CASE /\ status = {} /\ mode = "repl" /\ Answers(program) = OfLines(program.typed)
           /\ Following(stack, ctl, chain, output, "line", Typing)
  <2>1. PICK goal : goal = Typing
    OBVIOUS
  <2>2. Following(stack, ctl, chain, output, "line", goal)
    BY <1>4, <2>1
  <2>3. Top.what = "line" /\ Front(stack) = <<>>
    BY <2>2, AtBase
  <2>4. PICK r : r.goal = goal /\ Takes(Top, r, Is(ctl.v, chain, output))
    BY <2>2, AtBase
  <2> DEFINE m == Is(ctl.v, chain, output)
  <2>5. m.value = ctl.v /\ m.chain = chain /\ m.out = output
    BY DEF Is
  <2>6. goal.rest = lines /\ goal.typed = program.typed
    BY <2>1 DEF Typing
  <2> HIDE DEF m
  <2>7. Takes(Top, r, m)
    BY <2>4 DEF m
  <2>8. Left(lines, chain, Append(output, <<lval_print(ctl.v)>>)) \in Replied(program.typed)
    BY <2>3, <2>4, <2>5, <2>6, <2>7 DEF Takes
  <2> QED BY <1>4, <2>3, <2>8
<1> QED BY <1>1, <1>2, <1>3, <1>4 DEF Answering

LEMMA ScriptDoneAnswers ==
    ASSUME Answering, ScriptDone
    PROVE  Answering'
<1>1. /\ ctl.op = "give" /\ stack # <<>> /\ Top.what = "script" /\ stack' = Front(stack)
      /\ UNCHANGED <<program, chain, ctl>>
      /\ IF IsErr(ctl.v) THEN Printed(ctl.v) ELSE UNCHANGED output
      /\ status' = {IF IsErr(ctl.v) THEN 1 ELSE 0}
  BY DEF ScriptDone, Giving, Pop, command
<1>2. Front(stack) = <<>>
  BY <1>1, BaseIs DEF Inner
<1>3. PICK text \in Text : /\ Answers(program) = OfScript(text)
                           /\ ScriptTakes(text, Is(ctl.v, chain, output))
  BY <1>1, BaseIs DEF Inner
<1>4. AtRest' /\ status' # {}
  BY <1>1, <1>2 DEF AtRest
<1> DEFINE m == Is(ctl.v, chain, output)
<1>5. m.value = ctl.v /\ m.chain = chain /\ m.out = output
  BY DEF Is
<1> HIDE DEF m
<1>6. ScriptTakes(text, m)
  BY <1>3 DEF m
<1>7. PICK o : o = output'
  OBVIOUS
<1>8. PICK st : st = status'
  OBVIOUS
<1>9. CASE text = {} /\ m = Is(Unparsed, <<lenv_init>>, <<>>)
  <2>1. ctl.v = Unparsed /\ chain = <<lenv_init>> /\ output = <<>>
    BY <1>5, <1>9 DEF Is
  <2>2. IsErr(Unparsed)
    BY DEF IsErr, Unparsed, lval_err
  <2>3. o = <<<<lval_print(Unparsed)>>>> /\ st = {1}
    BY <1>1, <1>7, <1>8, <2>1, <2>2 DEF Printed
  <2>4. Ends(chain, o, st) \in OfScript(text)
    BY <1>9, <2>1, <2>3 DEF OfScript, NoMatch
  <2>5. Ends(chain', output', status') \in Answers(program')
    BY <1>1, <1>3, <1>7, <1>8, <2>4
  <2> QED BY <1>4, <2>5 DEF Answering
<1>10. ASSUME m.value = Nil, NEW cells \in text,
              NEW l \in Finished(Ran(cells, <<lenv_init>>, <<>>)), m.chain = l.chain, m.out = l.out
       PROVE  Answering'
  <2>1. ~IsErr(Nil)
    BY DEF Nil, IsErr, lval_sexpr
  <2>2. o = output /\ st = {0}
    BY <1>1, <1>5, <1>7, <1>8, <1>10, <2>1
  <2>3. Ends(chain, o, st) = Ends(l.chain, l.out, {0})
    BY <1>5, <1>10, <2>2
  <2>4. Ends(chain, o, st) \in OfScript(text)
    BY <2>3 DEF OfScript
  <2>5. Ends(chain', output', status') \in Answers(program')
    BY <1>1, <1>3, <1>7, <1>8, <2>4
  <2> QED BY <1>4, <2>5 DEF Answering
<1> QED BY <1>6, <1>9, <1>10 DEF ScriptTakes

LEMMA LineDoneAnswers ==
    ASSUME Answering, LineDone
    PROVE  Answering'
<1>1. /\ ctl.op = "give" /\ stack # <<>> /\ Top.what = "line" /\ stack' = Front(stack)
      /\ UNCHANGED <<program, mode, lines, status, chain, ctl>>
      /\ output' = Append(output, <<lval_print(ctl.v)>>)
  BY DEF LineDone, Giving, Pop, command, Printed
<1>2. Front(stack) = <<>> /\ status = {} /\ mode = "repl"
  BY <1>1, BaseIs DEF Inner
<1>3. /\ Answers(program) = OfLines(program.typed)
      /\ Left(lines, chain, Append(output, <<lval_print(ctl.v)>>)) \in Replied(program.typed)
  BY <1>1, BaseIs DEF Inner
<1>4. AtRest'
  BY <1>1, <1>2 DEF AtRest
<1>5. PICK p : p = program
  OBVIOUS
<1>6. Answers(p) = OfLines(p.typed)
  BY <1>3, <1>5
<1>7. Left(lines', chain', output') \in Replied(p.typed)
  BY <1>1, <1>3, <1>5
<1>8. program' = p
  BY <1>1, <1>5
<1>9. /\ Answers(program') = OfLines(program'.typed)
      /\ Left(lines', chain', output') \in Replied(program'.typed)
  BY <1>6, <1>7, <1>8
<1> QED BY <1>1, <1>2, <1>4, <1>9 DEF Answering

\* A step of evaluation.
LEMMA EvaluatesAnswers ==
    ASSUME RulesKept, Answering, Finite(chain, stack, ctl), Evaluates,
           UNCHANGED <<command, lines, status>>
    PROVE  Answering'
<1>1. UNCHANGED <<program, mode, lines, status>>
  BY DEF command
<1>2. ~AtRest
  BY DEF AtRest, Evaluates, EvalSymbol, EvalSelf, EvalList, NextCell, FirstError, Single,
         NotAFunction, CallComputing, CallDefine, CallEval, CallIf, CallPrint, CallLoad,
         CallFails, PartialCall, Enter, Leave, LoadNext, LoadDone, Applies, AllCells, Calls,
         Giving
<1>3. PICK p : p = program
  OBVIOUS
<1>4. CASE /\ status = {} /\ mode = "code"
           /\ \E text : Answers(program) = OfCode(text) /\ text \in Text /\ Runs("code", text)
  <2>1. PICK text : Answers(program) = OfCode(text) /\ text \in Text /\ Runs("code", text)
    BY <1>4
  <2>2. Following(stack, ctl, chain, output, "code", text)
    BY <1>2, <2>1 DEF Runs
  <2>3. Following(stack', ctl', chain', output', "code", text)
    BY <2>2, EvaluatesFollows
  <2>4. Runs("code", text)'
    BY <2>3 DEF Runs
  <2>5. Answers(program') = OfCode(text)
    BY <1>1, <2>1
  <2>6. \E t : Answers(program') = OfCode(t) /\ t \in Text /\ Runs("code", t)'
    BY <2>1, <2>4, <2>5
  <2> QED BY <1>1, <1>4, <2>6 DEF Answering
<1>5. CASE /\ status = {} /\ mode = "script"
           /\ \E text : Answers(program) = OfScript(text) /\ text \in Text /\ Runs("script", text)
  <2>1. PICK text : Answers(program) = OfScript(text) /\ text \in Text /\ Runs("script", text)
    BY <1>5
  <2>2. Following(stack, ctl, chain, output, "script", text)
    BY <1>2, <2>1 DEF Runs
  <2>3. Following(stack', ctl', chain', output', "script", text)
    BY <2>2, EvaluatesFollows
  <2>4. Runs("script", text)'
    BY <2>3 DEF Runs
  <2>5. Answers(program') = OfScript(text)
    BY <1>1, <2>1
  <2>6. \E t : Answers(program') = OfScript(t) /\ t \in Text /\ Runs("script", t)'
    BY <2>1, <2>4, <2>5
  <2> QED BY <1>1, <1>5, <2>6 DEF Answering
<1>6. CASE /\ status = {} /\ mode = "repl" /\ Answers(program) = OfLines(program.typed)
           /\ Following(stack, ctl, chain, output, "line", Typing)
  <2>1. PICK goal : goal = Typing
    OBVIOUS
  <2>2. Following(stack, ctl, chain, output, "line", goal)
    BY <1>6, <2>1
  <2>3. Following(stack', ctl', chain', output', "line", goal)
    BY <2>2, EvaluatesFollows
  <2>4. Typing' = goal
    BY <1>1, <2>1 DEF Typing
  <2>5. Following(stack', ctl', chain', output', "line", Typing')
    BY <2>3, <2>4
  <2>6. Answers(program') = OfLines(program'.typed)
    <3>1. Answers(p) = OfLines(p.typed)
      BY <1>3, <1>6
    <3>2. program' = p
      BY <1>1, <1>3
    <3> QED BY <3>1, <3>2
  <2> QED BY <1>1, <1>6, <2>5, <2>6 DEF Answering
<1> QED BY <1>2, <1>4, <1>5, <1>6 DEF Answering

\* Reading a text from the top.
LEMMA ReadsFirst ==
    ASSUME Reading, Answering, NEW how, Reads(how)
    PROVE  /\ AtRest /\ status = {} /\ mode = how /\ lines # <<>>
           /\ lines' = Tail(lines) /\ Head(lines) \in Text
           /\ UNCHANGED <<program, mode, status, chain, output>>
           /\ how = "code" => Fresh /\ Answers(program) = OfCode(Head(lines))
           /\ how = "script" => Fresh /\ Answers(program) = OfScript(Head(lines))
           /\ how = "repl" => /\ Answers(program) = OfLines(program.typed)
                              /\ Left(lines, chain, output) \in Replied(program.typed)
<1>1. /\ status = {} /\ mode = how /\ lines # <<>> /\ stack = <<>> /\ lines' = Tail(lines)
      /\ UNCHANGED <<program, mode, status, chain, output>>
  BY DEF Reads, command
<1>2. Head(lines) \in Text
  BY <1>1 DEF Reading
<1>3. \A what, goal : ~Following(stack, ctl, chain, output, what, goal)
  BY <1>1 DEF Following
<1>4. AtRest
  BY <1>1, <1>3 DEF Answering, Runs
<1>5. ASSUME how = "code" PROVE Fresh /\ Answers(program) = OfCode(Head(lines))
  <2>1. PICK text : Answers(program) = OfCode(text) /\ Runs("code", text)
    BY <1>1, <1>5 DEF Answering
  <2>2. lines = <<text>> /\ Fresh
    BY <1>3, <2>1 DEF Runs
  <2>3. Head(lines) = text
    BY <2>2
  <2> QED BY <2>1, <2>2, <2>3
<1>6. ASSUME how = "script" PROVE Fresh /\ Answers(program) = OfScript(Head(lines))
  <2>1. PICK text : Answers(program) = OfScript(text) /\ Runs("script", text)
    BY <1>1, <1>6 DEF Answering
  <2>2. lines = <<text>> /\ Fresh
    BY <1>3, <2>1 DEF Runs
  <2>3. Head(lines) = text
    BY <2>2
  <2> QED BY <2>1, <2>2, <2>3
<1>7. ASSUME how = "repl"
      PROVE  /\ Answers(program) = OfLines(program.typed)
             /\ Left(lines, chain, output) \in Replied(program.typed)
  BY <1>1, <1>3, <1>7 DEF Answering
<1> QED BY <1>1, <1>2, <1>4, <1>5, <1>6, <1>7

LEMMA CodeHas ==
    ASSUME NEW rest, NEW err
    PROVE  Code(rest, err).what = "code" /\ Code(rest, err).rest = rest /\ Code(rest, err).err = err
BY DEF Code

LEMMA RunCodeAnswers ==
    ASSUME RulesKept, Reading, Answering, RunCode
    PROVE  Answering'
<1>1. /\ status = {} /\ mode = "code" /\ UNCHANGED <<program, mode, status, chain, output>>
      /\ Fresh /\ Answers(program) = OfCode(Head(lines)) /\ Head(lines) \in Text
  BY ReadsFirst DEF RunCode
<1>2. PICK text : text = Head(lines)
  OBVIOUS
<1>3. ctl' = Give(Nil)
  BY DEF RunCode, Nil
<1> DEFINE m == Is(Nil, <<lenv_init>>, <<>>)
<1>4. m.value = Nil /\ m.chain = <<lenv_init>> /\ m.out = <<>>
  BY DEF Is
<1>5. ~IsErr(Nil)
  BY DEF Nil, IsErr, lval_sexpr
<1> HIDE DEF m
<1>6. ASSUME NEW fr, fr.what = "code", stack' = <<fr>>, CodeTakes(fr, text, m)
      PROVE  Answering'
  <2> DEFINE k == Give(Nil)
             c == <<lenv_init>>
             o == <<>>
             r == Task(text, c, o)
  <2>1. r.goal = text
    BY DEF Task
  <2>2. k.op = "give" /\ k.v = Nil
    BY DEF Give
  <2> HIDE DEF r, k
  <2>3. Takes(fr, r, m)
    BY <1>6, <2>1 DEF Takes
  <2>4. Controls(k, c, o, fr, r)
    BY <2>2, <2>3 DEF Controls, m
  <2>5. "code" \notin Inner
    BY DEF Inner
  <2>6. Following(<<fr>>, k, c, o, "code", text)
    BY <1>6, <2>4, <2>5, StartsFollowing DEF r
  <2>7. stack' = <<fr>> /\ ctl' = k /\ chain' = c /\ output' = o
    BY <1>1, <1>3, <1>6 DEF Fresh, k
  <2>8. Following(stack', ctl', chain', output', "code", text)
    BY <2>6, <2>7
  <2>9. Runs("code", text)'
    BY <2>8 DEF Runs
  <2>10. Answers(program') = OfCode(text) /\ text \in Text
    BY <1>1, <1>2
  <2>11. \E t : Answers(program') = OfCode(t) /\ t \in Text /\ Runs("code", t)'
    BY <2>9, <2>10
  <2> QED BY <1>1, <2>11 DEF Answering
<1>7. ASSUME NEW cells \in text, stack' = <<Code(cells, {})>>
      PROVE  Answering'
  <2> DEFINE fr == Code(cells, {})
             vs == <<>>
  <2>1. fr.what = "code" /\ fr.rest = cells /\ fr.err = {}
    BY CodeHas
  <2>2. cells \in Content
    BY <1>1, <1>2, <1>7 DEF Text
  <2>3. vs \in Seq({}) /\ Len(vs) = 0
    OBVIOUS
  <2>4. Len(cells) \in Nat /\ SubSeq(cells, 0 + 1, Len(cells)) = cells
    BY <2>2 DEF Content
  <2>5. Got(vs, <<lenv_init>>, <<>>) \in Valued(cells, <<lenv_init>>, <<>>)
    BY DEF RulesKept, KeepsValues
  <2>6. LastError(vs) = {}
    <3>1. {i \in 1..Len(vs) : IsErr(vs[i])} = {}
      BY <2>3
    <3> HIDE DEF vs
    <3> QED BY <3>1 DEF LastError
  <2> HIDE DEF vs, fr
  <2>7. LastError(vs) = ErrorOf(m.value, fr.err)
    BY <1>4, <1>5, <2>1, <2>6 DEF ErrorOf
  <2>8. fr.rest = SubSeq(cells, Len(vs) + 1, Len(cells)) /\ Len(vs) <= Len(cells)
    BY <2>1, <2>3, <2>4
  <2>9. Got(vs, m.chain, m.out) \in Valued(cells, <<lenv_init>>, <<>>)
    BY <1>4, <2>5
  <2>10. \E S : vs \in Seq(S)
    BY <2>3
  <2>11. CodeTakes(fr, text, m)
    BY <1>7, <2>2, <2>7, <2>8, <2>9, <2>10 DEF CodeTakes
  <2> QED BY <1>6, <1>7, <2>1, <2>11 DEF fr
<1>8. ASSUME text = {}, stack' = <<Code(<<>>, {Unparsed})>>
      PROVE  Answering'
  <2> DEFINE fr == Code(<<>>, {Unparsed})
  <2>1. fr.what = "code" /\ fr.rest = <<>> /\ fr.err = {Unparsed}
    BY CodeHas
  <2> HIDE DEF fr
  <2>2. CodeTakes(fr, text, m)
    BY <1>8, <2>1 DEF CodeTakes, m
  <2> QED BY <1>6, <1>8, <2>1, <2>2 DEF fr
<1> QED BY <1>2, <1>7, <1>8 DEF RunCode

LEMMA RunLineAnswers ==
    ASSUME RulesKept, Reading, Answering, RunLine
    PROVE  Answering'
<1>1. /\ status = {} /\ mode = "repl" /\ UNCHANGED <<program, mode, status, chain, output>>
      /\ lines # <<>> /\ lines' = Tail(lines) /\ Head(lines) \in Text
      /\ Answers(program) = OfLines(program.typed)
      /\ Left(lines, chain, output) \in Replied(program.typed)
  BY ReadsFirst DEF RunLine
<1>2. PICK p : p = program
  OBVIOUS
<1>3. PICK c : c = chain
  OBVIOUS
<1>4. PICK o : o = output
  OBVIOUS
<1>5. PICK text : text = Head(lines)
  OBVIOUS
<1>6. PICK rest : rest = Tail(lines)
  OBVIOUS
<1>7. stack' = <<Line>> /\ Line.what = "line" /\ "line" \notin Inner
  BY DEF RunLine, Line, Inner
<1> DEFINE goal == [rest |-> rest, typed |-> p.typed]
           r == Task(goal, c, o)
           l == Left(lines, chain, output)
<1>8. goal.rest = rest /\ goal.typed = p.typed /\ r.goal = goal
  BY DEF Task
<1>9. l \in Replied(p.typed) /\ l.rest = lines /\ l.chain = c /\ l.out = o
  BY <1>1, <1>2, <1>3, <1>4 DEF Left
<1> HIDE DEF l
<1>10. NextReply(l) \subseteq Replied(p.typed)
  BY <1>1, <1>9 DEF RulesKept, KeepsReplies
<1>11. \A m \in OfLine(text, c, o) :
          Left(rest, m.chain, Append(m.out, <<lval_print(m.value)>>)) \in Replied(p.typed)
  BY <1>5, <1>6, <1>9, <1>10 DEF NextReply
<1> HIDE DEF goal, r
<1>12. \A m \in OfLine(text, c, o) : Takes(Line, r, m)
  BY <1>7, <1>8, <1>11 DEF Takes
<1>13. ASSUME NEW k, ctl' = k, Controls(k, c, o, Line, r)
      PROVE  Answering'
  <2>1. Following(<<Line>>, k, c, o, "line", goal)
    BY <1>7, <1>13, StartsFollowing DEF r
  <2>2. stack' = <<Line>> /\ ctl' = k /\ chain' = c /\ output' = o
    BY <1>1, <1>3, <1>4, <1>7, <1>13
  <2>3. Typing' = goal
    BY <1>1, <1>2, <1>6 DEF Typing, goal
  <2>4. Following(stack', ctl', chain', output', "line", Typing')
    BY <2>1, <2>2, <2>3
  <2>5. Answers(p) = OfLines(p.typed)
    BY <1>1, <1>2
  <2>6. program' = p
    BY <1>1, <1>2
  <2>7. Answers(program') = OfLines(program'.typed)
    BY <2>5, <2>6
  <2> QED BY <1>1, <2>4, <2>7 DEF Answering
<1>14. ASSUME NEW cells \in text, ctl' = Eval(lval_sexpr(cells))
       PROVE  Answering'
  <2> DEFINE v == lval_sexpr(cells)
             k == Eval(v)
  <2>1. Means(v, c, o) \subseteq OfLine(text, c, o)
    BY <1>14 DEF OfLine
  <2>2. k.op = "eval" /\ k.v = v
    BY DEF Eval
  <2> HIDE DEF v, k
  <2>3. Controls(k, c, o, Line, r)
    BY <1>12, <2>1, <2>2 DEF Controls, Seeks
  <2> QED BY <1>13, <1>14, <2>3 DEF v, k
<1>15. ASSUME text = {}, ctl' = Give(Unparsed)
       PROVE  Answering'
  <2> DEFINE k == Give(Unparsed)
  <2>1. Is(Unparsed, c, o) \in OfLine(text, c, o)
    BY <1>15 DEF OfLine
  <2>2. k.op = "give" /\ k.v = Unparsed
    BY DEF Give
  <2> HIDE DEF k
  <2>3. Controls(k, c, o, Line, r)
    BY <1>12, <2>1, <2>2 DEF Controls
  <2> QED BY <1>13, <1>15, <2>3 DEF k
<1> QED BY <1>5, <1>14, <1>15 DEF RunLine

LEMMA TwoCalls ==
    ASSUME NEW a, NEW b
    PROVE  Append(<<a>>, b) = <<a, b>>
<1>1. PICK S : S = {a, b}
  OBVIOUS
<1>2. PICK s : s = <<a>>
  OBVIOUS
<1>3. PICK t : t = <<a, b>>
  OBVIOUS
<1>4. s \in Seq(S) /\ b \in S
  BY <1>1, <1>2
<1>5. Len(s) = 1 /\ s[1] = a
  BY <1>1, <1>2
<1>6. t \in Seq(S) /\ Len(t) = 2 /\ t[1] = a /\ t[2] = b
  BY <1>1, <1>3
<1>7. PICK u : u = Append(s, b)
  OBVIOUS
<1>8. u \in Seq(S) /\ Len(u) = 2 /\ u[1] = a /\ u[2] = b
  <2>1. /\ u \in Seq(S) /\ Len(u) = Len(s) + 1 /\ u[Len(s) + 1] = b
        /\ \A i \in 1..Len(s) : u[i] = s[i]
    BY <1>7, <1>4
  <2> QED BY <1>5, <2>1
<1>9. u = t
  BY <1>6, <1>8
<1> QED BY <1>2, <1>3, <1>7, <1>9

LEMMA RunScriptAnswers ==
    ASSUME RulesKept, Reading, Answering, RunScript
    PROVE  Answering'
<1>1. /\ status = {} /\ mode = "script" /\ UNCHANGED <<program, mode, status, chain, output>>
      /\ Fresh /\ Answers(program) = OfScript(Head(lines)) /\ Head(lines) \in Text
  BY ReadsFirst DEF RunScript
<1>2. PICK text : text = Head(lines)
  OBVIOUS
<1>3. Script.what = "script" /\ "script" \notin Inner
  BY DEF Script, Inner
<1> DEFINE c == <<lenv_init>>
           o == <<>>
           r == Task(text, c, o)
<1>4. chain' = c /\ output' = o
  BY <1>1 DEF Fresh
<1>5. r.goal = text
  BY DEF Task
<1> HIDE DEF r
<1>6. \A m : ScriptTakes(text, m) => Takes(Script, r, m)
  BY <1>3, <1>5 DEF Takes
<1>7. ASSUME NEW s, NEW k, stack' = s, ctl' = k, Following(s, k, c, o, "script", text)
      PROVE  Answering'
  <2>1. Following(stack', ctl', chain', output', "script", text)
    BY <1>4, <1>7
  <2>2. Runs("script", text)'
    BY <2>1 DEF Runs
  <2>3. Answers(program') = OfScript(text) /\ text \in Text
    BY <1>1, <1>2
  <2>4. \E t : Answers(program') = OfScript(t) /\ t \in Text /\ Runs("script", t)'
    BY <2>2, <2>3
  <2> QED BY <1>1, <2>4 DEF Answering
<1>8. ASSUME NEW cells \in text, stack' = <<Script, Load(cells)>>, ctl' = Give(Nil)
      PROVE  Answering'
  <2> DEFINE s == <<Script>>
             b == <<r>>
             fr == Load(cells)
             q == Task(cells, c, o)
             all == Ran(cells, c, o)
             m == Is(Nil, c, o)
  <2>1. Accounts(s, b, "script", text) /\ s # <<>> /\ Len(s) = 1 /\ s[1] = Script /\ b[1] = r
    BY <1>3, <1>5, StartsAccounts
  <2>2. fr.what = "load" /\ fr.rest = cells
    BY DEF Load
  <2>3. q.goal = cells /\ q.chain = c /\ q.out = o
    BY DEF Task
  <2>4. m.value = Nil /\ m.chain = c /\ m.out = o
    BY DEF Is
  <2>5. Reported(Nil, o) = o
    BY DEF Reported, Nil, IsErr, lval_sexpr
  <2>6. Left(cells, c, o) \in all
    BY DEF RulesKept, KeepsRuns
  <2>7. Append(s, fr) = <<Script, fr>>
    BY TwoCalls
  <2> HIDE DEF s, b, fr, q, m
  <2>8. fr.what \in Inner /\ Agrees(fr, q)
    BY <2>2 DEF Inner, Agrees
  <2>9. \A l \in Finished(all) : Takes(Script, r, Is(Nil, l.chain, l.out))
    <3> SUFFICES ASSUME NEW l \in Finished(all) PROVE Takes(Script, r, Is(Nil, l.chain, l.out))
      OBVIOUS
    <3> DEFINE a == Is(Nil, l.chain, l.out)
    <3>1. a.value = Nil /\ a.chain = l.chain /\ a.out = l.out
      BY DEF Is
    <3> HIDE DEF a
    <3>2. ScriptTakes(text, a)
      BY <1>8, <3>1 DEF ScriptTakes
    <3> QED BY <1>6, <3>2 DEF a
  <2>10. Hands(fr, q, s[Len(s)], b[Len(s)])
    BY <2>1, <2>2, <2>3, <2>9 DEF Hands
  <2>11. Takes(fr, q, m)
    BY <2>2, <2>3, <2>4, <2>5, <2>6 DEF Takes
  <2>12. Following(Append(s, fr), Give(Nil), c, o, "script", text)
    BY <2>1, <2>8, <2>10, <2>11, GoesDeeper DEF m
  <2>13. stack' = Append(s, fr)
    BY <1>8, <2>7 DEF fr
  <2> QED BY <1>7, <1>8, <2>12, <2>13
<1>9. ASSUME text = {}, stack' = <<Script>>, ctl' = Give(Unparsed)
      PROVE  Answering'
  <2> DEFINE k == Give(Unparsed)
  <2>1. ScriptTakes(text, Is(Unparsed, c, o))
    BY <1>9 DEF ScriptTakes
  <2>2. Takes(Script, r, Is(Unparsed, c, o))
    BY <1>6, <2>1
  <2>3. k.op = "give" /\ k.v = Unparsed
    BY DEF Give
  <2> HIDE DEF k
  <2>4. Controls(k, c, o, Script, r)
    BY <2>2, <2>3 DEF Controls
  <2>5. Following(<<Script>>, k, c, o, "script", text)
    BY <1>3, <2>4, StartsFollowing DEF r
  <2> QED BY <1>7, <1>9, <2>5 DEF k
<1> QED BY <1>2, <1>8, <1>9 DEF RunScript, Nil

\* The code of -e after some of its expressions.
LEMMA CodeStep ==
    ASSUME RulesKept, Answering, ctl.op = "give", stack # <<>>, Top.what = "code"
    PROVE  /\ status = {} /\ mode = "code" /\ Front(stack) = <<>>
           /\ Kept = ErrorOf(ctl.v, Top.err)
           /\ \E text \in Text :
                 /\ Answers(program) = OfCode(text)
                 /\ \/ /\ text = {} /\ Top.rest = <<>> /\ Top.err = {Unparsed}
                       /\ ctl.v = Nil /\ Fresh
                    \/ \E cells \in text : \E vs :
                          /\ \E S : vs \in Seq(S)
                          /\ cells \in Content /\ Len(vs) \in 0..Len(cells)
                          /\ Top.rest = SubSeq(cells, Len(vs) + 1, Len(cells))
                          /\ Got(vs, chain, output) \in Valued(cells, <<lenv_init>>, <<>>)
                          /\ LastError(vs) = Kept
<1> DEFINE m == Is(ctl.v, chain, output)
<1>1. status = {} /\ mode = "code" /\ Front(stack) = <<>>
  BY BaseIs DEF Inner
<1>2. Kept = ErrorOf(ctl.v, Top.err)
  BY DEF Kept, ErrorOf
<1>3. PICK text \in Text : Answers(program) = OfCode(text) /\ CodeTakes(Top, text, m)
  BY BaseIs DEF Inner
<1>4. m.value = ctl.v /\ m.chain = chain /\ m.out = output
  BY DEF Is
<1>5. CASE /\ text = {} /\ Top.rest = <<>> /\ Top.err = {Unparsed}
           /\ m = Is(Nil, <<lenv_init>>, <<>>)
  <2>1. ctl.v = Nil /\ chain = <<lenv_init>> /\ output = <<>>
    BY <1>4, <1>5 DEF Is
  <2> QED BY <1>1, <1>2, <1>3, <1>5, <2>1 DEF Fresh
<1> HIDE DEF m
<1>6. ASSUME NEW cells \in text, NEW vs, \E S : vs \in Seq(S),
             cells \in Content, Len(vs) <= Len(cells),
             Top.rest = SubSeq(cells, Len(vs) + 1, Len(cells)),
             Got(vs, m.chain, m.out) \in Valued(cells, <<lenv_init>>, <<>>),
             LastError(vs) = ErrorOf(m.value, Top.err)
      PROVE  /\ Len(vs) \in 0..Len(cells) /\ LastError(vs) = Kept
             /\ Got(vs, chain, output) \in Valued(cells, <<lenv_init>>, <<>>)
  <2>1. Len(vs) \in Nat /\ Len(cells) \in Nat
    BY <1>6 DEF Content
  <2> QED BY <1>2, <1>4, <1>6, <2>1
<1>7. CASE \E cells \in text : \E vs :
             /\ \E S : vs \in Seq(S)
             /\ cells \in Content /\ Len(vs) <= Len(cells)
             /\ Top.rest = SubSeq(cells, Len(vs) + 1, Len(cells))
             /\ Got(vs, m.chain, m.out) \in Valued(cells, <<lenv_init>>, <<>>)
             /\ LastError(vs) = ErrorOf(m.value, Top.err)
  BY <1>1, <1>2, <1>3, <1>6, <1>7
<1> QED BY <1>3, <1>5, <1>7 DEF CodeTakes, m

LEMMA CodeNextAnswers ==
    ASSUME RulesKept, Answering, CodeNext
    PROVE  Answering'
<1>1. /\ ctl.op = "give" /\ stack # <<>> /\ Top.what = "code" /\ Top.rest # <<>>
      /\ stack' = <<Code(Tail(Top.rest), Kept)>> /\ ctl' = Eval(Head(Top.rest))
      /\ UNCHANGED <<program, mode, status, chain, output>>
  BY DEF CodeNext, Giving, command
<1>2. status = {} /\ mode = "code"
  BY <1>1, CodeStep
<1>3. PICK text \in Text :
         /\ Answers(program) = OfCode(text)
         /\ \/ text = {} /\ Top.rest = <<>>
            \/ \E cells \in text : \E vs :
                  /\ \E S : vs \in Seq(S)
                  /\ cells \in Content /\ Len(vs) \in 0..Len(cells)
                  /\ Top.rest = SubSeq(cells, Len(vs) + 1, Len(cells))
                  /\ Got(vs, chain, output) \in Valued(cells, <<lenv_init>>, <<>>)
                  /\ LastError(vs) = Kept
  BY <1>1, CodeStep
<1>4. PICK cells \in text : \E vs :
         /\ \E S : vs \in Seq(S)
         /\ cells \in Content /\ Len(vs) \in 0..Len(cells)
         /\ Top.rest = SubSeq(cells, Len(vs) + 1, Len(cells))
         /\ Got(vs, chain, output) \in Valued(cells, <<lenv_init>>, <<>>)
         /\ LastError(vs) = Kept
  BY <1>1, <1>3
<1>5. PICK vs : /\ \E S : vs \in Seq(S)
                /\ cells \in Content /\ Len(vs) \in 0..Len(cells)
                /\ Top.rest = SubSeq(cells, Len(vs) + 1, Len(cells))
                /\ Got(vs, chain, output) \in Valued(cells, <<lenv_init>>, <<>>)
                /\ LastError(vs) = Kept
  BY <1>4
<1>6. PICK S : vs \in Seq(S)
  BY <1>5
<1>7. PICK c : c = chain
  OBVIOUS
<1>8. PICK o : o = output
  OBVIOUS
<1>9. PICK errs : errs = Kept
  OBVIOUS
<1> DEFINE n == Len(vs)
           e == cells[n + 1]
           rest == SubSeq(cells, (n + 1) + 1, Len(cells))
           fr == Code(rest, errs)
           r == Task(text, c, o)
           all == Valued(cells, <<lenv_init>>, <<>>)
           g == Got(vs, c, o)
<1>10. cells \in Seq(Expressions)
  BY <1>5 DEF Content
<1>11. n + 1 \in 1..Len(cells) /\ Head(Top.rest) = e /\ Tail(Top.rest) = rest
  <2>1. SubSeq(cells, n + 1, Len(cells)) # <<>>
    BY <1>1, <1>5
  <2>2. n \in 0..Len(cells)
    BY <1>5
  <2> HIDE DEF n
  <2>3. /\ n + 1 \in 1..Len(cells) /\ Head(SubSeq(cells, n + 1, Len(cells))) = e
        /\ Tail(SubSeq(cells, n + 1, Len(cells))) = rest
    BY <1>10, <2>1, <2>2, RestFacts
  <2> QED BY <1>5, <2>3 DEF n
<1>12. g.values = vs /\ g.chain = c /\ g.out = o /\ g \in all
  BY <1>5, <1>7, <1>8 DEF Got
<1>13. fr.what = "code" /\ fr.rest = rest /\ fr.err = errs
  BY CodeHas
<1>14. r.goal = text
  BY DEF Task
<1>15. n \in Nat /\ Len(cells) \in Nat /\ n < Len(cells)
  BY <1>6, <1>10, <1>11
<1> HIDE DEF g, fr, r, rest
<1>16. NextValue(cells, g) \subseteq all
  BY <1>12, <1>15 DEF RulesKept, KeepsValues
<1>17. ASSUME NEW m \in Means(e, c, o)
       PROVE  Takes(fr, r, m)
  <2> DEFINE ws == Append(vs, m.value)
  <2>1. Got(ws, m.chain, m.out) \in all
    BY <1>12, <1>16, <1>17 DEF NextValue
  <2>2. LastError(ws) = ErrorOf(m.value, errs)
    BY <1>5, <1>6, <1>9, LastErrorAppended
  <2>3. ws \in Seq(S \cup {m.value}) /\ Len(ws) = n + 1
    <3>1. vs \in Seq(S \cup {m.value})
      BY <1>6, SeqMonotonic
    <3> QED BY <3>1
  <2>4. \E Z : ws \in Seq(Z)
    BY <2>3
  <2> HIDE DEF ws
  <2>5. Len(ws) <= Len(cells)
    BY <1>15, <2>3
  <2>6. fr.rest = SubSeq(cells, Len(ws) + 1, Len(cells))
    BY <1>13, <2>3 DEF rest
  <2>7. LastError(ws) = ErrorOf(m.value, fr.err)
    BY <1>13, <2>2
  <2>8. CodeTakes(fr, text, m)
    BY <1>5, <2>1, <2>4, <2>5, <2>6, <2>7 DEF CodeTakes
  <2> QED BY <1>13, <1>14, <2>8 DEF Takes
<1> DEFINE k == Eval(e)
<1>18. k.op = "eval" /\ k.v = e
  BY DEF Eval
<1>19. stack' = <<fr>> /\ ctl' = k /\ chain' = c /\ output' = o
  BY <1>1, <1>7, <1>8, <1>9, <1>11 DEF fr
<1> HIDE DEF k, e
<1>20. Controls(k, c, o, fr, r)
  BY <1>17, <1>18 DEF Controls, Seeks
<1>21. "code" \notin Inner
  BY DEF Inner
<1>22. Following(<<fr>>, k, c, o, "code", text)
  BY <1>13, <1>20, <1>21, StartsFollowing DEF r
<1>23. Following(stack', ctl', chain', output', "code", text)
  BY <1>19, <1>22
<1>24. Runs("code", text)'
  BY <1>23 DEF Runs
<1>25. Answers(program') = OfCode(text)
  BY <1>1, <1>3
<1>26. \E t : Answers(program') = OfCode(t) /\ t \in Text /\ Runs("code", t)'
  BY <1>24, <1>25
<1> QED BY <1>1, <1>2, <1>26 DEF Answering

LEMMA CodeDoneAnswers ==
    ASSUME RulesKept, Answering, CodeDone
    PROVE  Answering'
<1>1. /\ ctl.op = "give" /\ stack # <<>> /\ Top.what = "code" /\ Top.rest = <<>>
      /\ stack' = Front(stack) /\ UNCHANGED <<program, chain, ctl>>
      /\ \/ \E err \in Kept : Printed(err) /\ status' = {1}
         \/ Kept = {} /\ UNCHANGED output /\ status' = {0}
  BY DEF CodeDone, Giving, Pop, command
<1>2. Front(stack) = <<>> /\ Kept = ErrorOf(ctl.v, Top.err)
  BY <1>1, CodeStep
<1>3. AtRest'
  BY <1>1, <1>2 DEF AtRest
<1>4. PICK text \in Text :
         /\ Answers(program) = OfCode(text)
         /\ \/ /\ text = {} /\ Top.rest = <<>> /\ Top.err = {Unparsed} /\ ctl.v = Nil /\ Fresh
            \/ \E cells \in text : \E vs :
                  /\ \E S : vs \in Seq(S)
                  /\ cells \in Content /\ Len(vs) \in 0..Len(cells)
                  /\ Top.rest = SubSeq(cells, Len(vs) + 1, Len(cells))
                  /\ Got(vs, chain, output) \in Valued(cells, <<lenv_init>>, <<>>)
                  /\ LastError(vs) = Kept
  BY <1>1, CodeStep
<1>5. PICK o : o = output'
  OBVIOUS
<1>6. PICK st : st = status'
  OBVIOUS
<1>7. PICK errs : errs = Kept
  OBVIOUS
<1>8. \/ \E err \in errs : o = Append(output, <<lval_print(err)>>) /\ st = {1}
      \/ errs = {} /\ o = output /\ st = {0}
  BY <1>1, <1>5, <1>6, <1>7 DEF Printed
<1>9. ASSUME Ends(chain, o, st) \in OfCode(text)
      PROVE  Answering'
  <2>1. Ends(chain', output', status') \in Answers(program')
    BY <1>1, <1>4, <1>5, <1>6, <1>9
  <2>2. status' # {}
    BY <1>1
  <2> QED BY <1>3, <2>1, <2>2 DEF Answering
<1>10. CASE text = {} /\ Top.err = {Unparsed} /\ ctl.v = Nil /\ Fresh
  <2>1. ~IsErr(Nil)
    BY DEF Nil, IsErr, lval_sexpr
  <2>2. errs = {Unparsed}
    BY <1>2, <1>7, <1>10, <2>1 DEF ErrorOf
  <2>3. o = <<<<lval_print(Unparsed)>>>> /\ st = {1} /\ chain = <<lenv_init>>
    BY <1>8, <1>10, <2>2 DEF Fresh
  <2>4. Ends(chain, o, st) \in OfCode(text)
    BY <1>10, <2>3 DEF OfCode, NoMatch
  <2> QED BY <1>9, <2>4
<1>11. ASSUME NEW cells \in text, NEW vs, \E S : vs \in Seq(S),
              cells \in Content, Len(vs) \in 0..Len(cells),
              Top.rest = SubSeq(cells, Len(vs) + 1, Len(cells)),
              Got(vs, chain, output) \in Valued(cells, <<lenv_init>>, <<>>),
              LastError(vs) = Kept
       PROVE  Answering'
  <2> DEFINE g == Got(vs, chain, output)
  <2>1. g.values = vs /\ g.chain = chain /\ g.out = output
    BY DEF Got
  <2>2. Len(vs) = Len(cells)
    <3>1. cells \in Seq(Expressions)
      BY <1>11 DEF Content
    <3>2. SubSeq(cells, Len(vs) + 1, Len(cells)) = <<>>
      BY <1>1, <1>11
    <3> QED BY <1>11, <3>1, <3>2, RestFacts
  <2> HIDE DEF g
  <2>3. g \in {q \in Valued(cells, <<lenv_init>>, <<>>) : Len(q.values) = Len(cells)}
    BY <1>11, <2>1, <2>2 DEF g
  <2>4. LastError(g.values) = errs
    BY <1>7, <1>11, <2>1
  <2>5. Ends(chain, o, st) \in CodeEnds(g)
    <3>1. CASE \E err \in errs : o = Append(output, <<lval_print(err)>>) /\ st = {1}
      BY <2>1, <2>4, <3>1 DEF CodeEnds
    <3>2. CASE errs = {} /\ o = output /\ st = {0}
      BY <2>1, <2>4, <3>2 DEF CodeEnds
    <3> QED BY <1>8, <3>1, <3>2
  <2>6. Ends(chain, o, st) \in OfCode(text)
    <3> DEFINE Q == {q \in Valued(cells, <<lenv_init>>, <<>>) : Len(q.values) = Len(cells)}
    <3>1. g \in Q
      BY <2>3
    <3> HIDE DEF Q
    <3>2. Ends(chain, o, st) \in UNION {CodeEnds(q) : q \in Q}
      BY <2>5, <3>1
    <3> QED BY <1>11, <3>2 DEF OfCode, Q
  <2> QED BY <1>9, <2>6
<1>12. CASE \E cells \in text : \E vs :
                  /\ \E S : vs \in Seq(S)
                  /\ cells \in Content /\ Len(vs) \in 0..Len(cells)
                  /\ Top.rest = SubSeq(cells, Len(vs) + 1, Len(cells))
                  /\ Got(vs, chain, output) \in Valued(cells, <<lenv_init>>, <<>>)
                  /\ LastError(vs) = Kept
  BY <1>11, <1>12
<1> QED BY <1>4, <1>10, <1>12

LEMMA AnsweringNext == RulesKept /\ Evaluable /\ Answering /\ [Next]_vars => Answering'
<1> SUFFICES ASSUME RulesKept, Evaluable, Answering, [Next]_vars PROVE Answering'
  OBVIOUS
<1>1. Reading /\ Finite(chain, stack, ctl)
  BY DEF Evaluable
<1>2. CASE Option
  BY <1>1, <1>2, OptionAnswers
<1>3. CASE OptionsEnd
  BY <1>1, <1>3, OptionsEndAnswers
<1>4. CASE RunScript
  BY <1>1, <1>4, RunScriptAnswers
<1>5. CASE ScriptDone
  BY <1>5, ScriptDoneAnswers
<1>6. CASE RunCode
  BY <1>1, <1>6, RunCodeAnswers
<1>7. CASE CodeNext
  BY <1>7, CodeNextAnswers
<1>8. CASE CodeDone
  BY <1>8, CodeDoneAnswers
<1>9. CASE RunLine
  BY <1>1, <1>9, RunLineAnswers
<1>10. CASE LineDone
  BY <1>10, LineDoneAnswers
<1>11. CASE Evaluates /\ UNCHANGED <<command, lines, status>>
  BY <1>1, <1>11, EvaluatesAnswers
<1>12. CASE UNCHANGED vars
  <2>1. UNCHANGED <<program, options, code, mode, lines, status, chain, stack, ctl, output>>
    BY <1>12 DEF vars, command, evaluation
  <2> QED BY <2>1 DEF Answering, AtRest, Fresh, Handled, Runs, Typing, Following
<1> QED
  BY <1>2, <1>3, <1>4, <1>5, <1>6, <1>7, <1>8, <1>9, <1>10, <1>11, <1>12, Zenon DEF Next

\* A process that has ended has an answer.
LEMMA AnsweringDone == Answering => AnswersAsMeant
<1> SUFFICES ASSUME Answering, Done PROVE Ends(chain, output, status) \in Answers(program)
  BY DEF AnswersAsMeant
<1>1. stack = <<>> /\ (status # {} \/ (mode = "repl" /\ lines = <<>>))
  BY DEF Done
<1>2. \A what, goal : ~Following(stack, ctl, chain, output, what, goal)
  BY <1>1 DEF Following
<1>3. CASE status # {}
  BY <1>3 DEF Answering
<1>4. CASE status = {} /\ mode = "repl" /\ lines = <<>>
  <2>1. /\ Answers(program) = OfLines(program.typed)
        /\ Left(lines, chain, output) \in Replied(program.typed)
    BY <1>2, <1>4 DEF Answering
  <2> DEFINE l == Left(lines, chain, output)
  <2>2. l.rest = <<>> /\ l.chain = chain /\ l.out = output
    BY <1>4 DEF Left
  <2> HIDE DEF l
  <2>3. l \in Finished(Replied(program.typed))
    BY <2>1, <2>2 DEF Finished, l
  <2>4. Ends(chain, output, {}) \in OfLines(program.typed)
    BY <2>2, <2>3 DEF OfLines
  <2> QED BY <1>4, <2>1, <2>4
<1> QED BY <1>1, <1>3, <1>4

\* Whatever keeps the rules of LispRules, a process that has ended has printed what the
\* program means, leaves the root environment it means and exits with the status it
\* means: lval_eval and lval_evsexp work in place, cell by cell, lval_call hangs an
\* environment below its caller's, use reads a file in the middle of a list, and -e keeps
\* the last error: eval.c:461-589, builtin.c:561-612, lexy.c:116-297.
THEOREM EvaluatesAsMeant == RulesKept => (Spec => []AnswersAsMeant)
<1> SUFFICES ASSUME RulesKept PROVE Spec => []AnswersAsMeant
  OBVIOUS
<1> DEFINE IInv == Evaluable /\ Answering
<1>1. Init => IInv
  BY NestedInit, ReadingInit, FiniteInit, AnsweringInit DEF Evaluable
<1>2. IInv /\ [Next]_vars => IInv'
  <2> SUFFICES ASSUME Evaluable, Answering, [Next]_vars PROVE IInv'
    OBVIOUS
  <2>1. Nested' /\ Reading'
    BY NestedNext, ReadingNext DEF Evaluable
  <2>2. Finite(chain, stack, ctl)'
    BY FiniteNext
  <2>3. Answering'
    BY AnsweringNext
  <2> QED BY <2>1, <2>2, <2>3 DEF Evaluable
<1>3. IInv => AnswersAsMeant
  BY AnsweringDone
<1> QED BY <1>1, <1>2, <1>3, PTL DEF Spec
=============================================================================
