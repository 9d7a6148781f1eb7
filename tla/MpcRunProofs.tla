---------------------------- MODULE MpcRunProofs ----------------------------
(* Proofs about MpcRun, for any parsers, texts and bounds. *)
EXTENDS MpcMatch, MpcPool, Facts, FiniteSetTheorems, SequenceTheorems, TLAPS

----------------------------------------------------------------------------
(* Types *)

Obligation == [what : {"mark", "predict"}, was : Int]

Rooms == {r \in Nat : r >= 2}

Frames ==
    [p : Parsers, j : Nat, lit : Seq(Chars), room : Rooms, open : Seq(Obligation)]

\* The calls, what is called and what has returned.
CallsType ==
    /\ stack \in Seq(Frames)
    /\ todo \in SUBSET Parsers /\ (todo = {} \/ \E p \in Parsers : todo = {p})
    /\ \/ out = {}
       \/ todo = {} /\ \E ok \in BOOLEAN : \E err : out = {[ok |-> ok, err |-> err]}
    /\ backtrack \in Int

\* mpc_string calls nothing: while it is under way nothing is called or has returned.
StringsOnTop ==
    \A k \in 1..Len(stack) :
        stack[k].p.type = "string" => k = Len(stack) /\ todo = {} /\ out = {}

----------------------------------------------------------------------------
(* The calls in progress *)

\* A call is added to the calls in progress.
LEMMA PushFacts ==
    ASSUME CallsType, NEW f \in Frames, Push(f)
    PROVE  /\ stack' \in Seq(Frames) /\ Len(stack') = Len(stack) + 1 /\ Len(stack) \in Nat
           /\ stack'[Len(stack) + 1] = f
           /\ \A k \in 1..Len(stack) : stack'[k] = stack[k]
BY DEF CallsType, Push

\* The last call is replaced.
LEMMA TurnFacts ==
    ASSUME CallsType, stack # <<>>, NEW f \in Frames, Turn(f)
    PROVE  /\ stack' \in Seq(Frames) /\ Len(stack') = Len(stack) /\ Len(stack) \in Nat \ {0}
           /\ stack'[Len(stack)] = f
           /\ \A k \in 1..(Len(stack) - 1) : stack'[k] = stack[k]
BY DEF CallsType, Turn

\* The last call returns.
LEMMA PopFacts ==
    ASSUME CallsType, stack # <<>>, Pop
    PROVE  /\ stack' \in Seq(Frames) /\ Len(stack') = Len(stack) - 1
           /\ Len(stack) \in Nat \ {0}
           /\ \A k \in 1..(Len(stack) - 1) : stack'[k] = stack[k]
<1>1. stack \in Seq(Frames)
  BY DEF CallsType
<1> QED BY <1>1, FrontFacts DEF Pop

\* The last call is one of the calls.
LEMMA TopType ==
    ASSUME CallsType, stack # <<>>
    PROVE  Top \in Frames /\ Len(stack) \in Nat \ {0} /\ Len(stack) \in 1..Len(stack)
BY DEF CallsType, Top

\* A parser that has been called.
LEMMA TodoType ==
    ASSUME CallsType, NEW p \in todo
    PROVE  p \in Parsers /\ todo = {p} /\ out = {}
BY DEF CallsType

\* A new call.
LEMMA FrameType ==
    ASSUME CallsType, NEW p \in Parsers, NEW lit \in Seq(Chars)
    PROVE  /\ Frame(p, lit) \in Frames
           /\ Frame(p, lit).p = p /\ Frame(p, lit).j = 0 /\ Frame(p, lit).lit = lit
           /\ Frame(p, lit).room = StackMin /\ Frame(p, lit).open = Open \o Owes(p)
<1>1. Open \in Seq(Obligation)
  <2>1. CASE stack = <<>>
    BY <2>1 DEF Open
  <2>2. CASE stack # <<>>
    BY <2>2, TopType DEF Open, Frames
  <2> QED BY <2>1, <2>2
<1>2. Owes(p) \in Seq(Obligation)
  <2>1. /\ [what |-> "mark", was |-> backtrack] \in Obligation
        /\ [what |-> "predict", was |-> backtrack] \in Obligation
    BY DEF Obligation, CallsType
  <2>2. \A o \in Obligation : <<o>> \in Seq(Obligation)
    OBVIOUS
  <2> QED BY <2>1, <2>2 DEF Owes
<1>3. Open \o Owes(p) \in Seq(Obligation)
  BY <1>1, <1>2, ConcatProperties
<1> QED BY <1>3, RunAssumption DEF Frame, Frames, Rooms

\* An answer.
LEMMA AnswerFacts ==
    ASSUME NEW ok \in BOOLEAN, NEW err, Answer(ok, err)
    PROVE  /\ todo' = {} /\ out' = {[ok |-> ok, err |-> err]} /\ Err' = err
           /\ \A o \in out' : o.ok = ok
<1>1. todo' = {} /\ out' = {[ok |-> ok, err |-> err]}
  BY DEF Answer
<1>2. Err' = err
  BY <1>1 DEF Err
<1> QED BY <1>1, <1>2

----------------------------------------------------------------------------
(* The invariant *)

\* The calls that have errors suppressed.
Quiet    == {"expect", "not"}
Quieting == {k \in 1..Len(stack) : stack[k].p.type \in Quiet}

\* 1 if a value has been returned.
Given == Cardinality({o \in out : o.ok})

\* A set of at most one error.
MaybeOne(S) == S = {} \/ \E e : S = {e}

\* There is an error for at most one reason: a failure while errors are not suppressed.
ErrorsType ==
    /\ \A o \in out : (o.ok => o.err = {}) /\ MaybeOne(o.err)
    /\ suppress > 0 => Err = {}

Counters ==
    /\ suppress \in Nat /\ live \in Int /\ errs \in Int /\ rejected \in Nat
    /\ suppress = Cardinality(Quieting)
    /\ IsFiniteSet(HeldResults)

IInv ==
    /\ CallsType /\ StringsOnTop /\ ErrorsType /\ Counters
    /\ EveryValueOwned /\ EveryErrorOwned /\ ResultsFit

LEMMA AtMostOne ==
    ASSUME NEW S, MaybeOne(S)
    PROVE  IsFiniteSet(S) /\ Cardinality(S) = (IF S = {} THEN 0 ELSE 1)
<1>1. CASE S = {}
  BY <1>1, FS_EmptySet
<1>2. CASE S # {}
  <2>1. PICK e : S = {e}
    BY <1>2 DEF MaybeOne
  <2> QED BY <1>2, <2>1, FS_Singleton
<1> QED BY <1>1, <1>2

\* The answer of a part.
LEMMA OutFacts ==
    ASSUME CallsType, ErrorsType
    PROVE  /\ out = {} => Err = {} /\ Given = 0
           /\ out # {} => todo = {}
           /\ \A o \in out : o.ok => Err = {} /\ Given = 1
           /\ \A o \in out : ~o.ok => Given = 0
           /\ IsFiniteSet(Err) /\ MaybeOne(Err)
<1>1. CASE out = {}
  <2>1. Err = {} /\ {o \in out : o.ok} = {}
    BY <1>1 DEF Err
  <2> QED BY <1>1, <2>1, FS_EmptySet DEF Given, MaybeOne
<1>2. CASE out # {}
  <2>1. PICK ok, err : ok \in BOOLEAN /\ out = {[ok |-> ok, err |-> err]} /\ todo = {}
    BY <1>2 DEF CallsType
  <2>2. Err = err
    BY <2>1 DEF Err
  <2>3. CASE ok
    <3>1. {o \in out : o.ok} = {[ok |-> ok, err |-> err]}
      BY <2>1, <2>3
    <3>2. Given = 1
      BY <3>1, FS_Singleton DEF Given
    <3>3. err = {}
      BY <2>1, <2>3 DEF ErrorsType
    <3>4. \A o \in out : o.ok
      BY <2>1, <2>3
    <3>5. Err = {} /\ MaybeOne(Err) /\ IsFiniteSet(Err)
      BY <2>2, <3>3, FS_EmptySet DEF MaybeOne
    <3> QED BY <1>2, <2>1, <3>2, <3>4, <3>5
  <2>4. CASE ~ok
    <3>1. {o \in out : o.ok} = {}
      BY <2>1, <2>4
    <3>2. Given = 0
      BY <3>1, FS_EmptySet DEF Given
    <3>3. MaybeOne(err)
      BY <2>1 DEF ErrorsType
    <3>4. IsFiniteSet(err)
      BY <3>3, AtMostOne
    <3>5. \A o \in out : ~o.ok
      BY <2>1, <2>4
    <3> QED BY <1>2, <2>1, <2>2, <3>2, <3>3, <3>4, <3>5
  <2> QED BY <2>3, <2>4
<1> QED BY <1>1, <1>2

\* A call that suppresses errors is counted.
LEMMA QuietTop ==
    ASSUME CallsType, Counters, ErrorsType, stack # <<>>, Top.p.type \in Quiet
    PROVE  suppress > 0 /\ Err = {}
<1>1. Len(stack) \in Quieting
  BY TopType DEF Quieting, Top
<1>2. IsFiniteSet(Quieting)
  <2>1. Quieting \subseteq 1..Len(stack) /\ Len(stack) \in Int
    BY TopType DEF Quieting
  <2>2. IsFiniteSet(1..Len(stack))
    BY <2>1, FS_Interval
  <2> QED BY <2>1, <2>2, FS_Subset
<1>3. Cardinality(Quieting) # 0
  BY <1>1, <1>2, FS_EmptySet
<1> QED BY <1>3 DEF Counters, ErrorsType

----------------------------------------------------------------------------
(* What a step does *)

\* What is left of the errors when a part's has been given up for err.
ErrorsFor(err) ==
    /\ MaybeOne(err) /\ (err = {} \/ suppress' = 0)
    /\ errs' = errs - Cardinality(Err) + Cardinality(err)

\* A parser without parts answers.
Leaf ==
    /\ todo # {} /\ stack' = stack
    /\ suppress' = suppress /\ rejected' = rejected /\ backtrack' = backtrack
    /\ \E ok \in BOOLEAN : \E err :
          /\ Answer(ok, err) /\ ErrorsFor(err) /\ (ok => err = {})
          /\ live' = IF ok THEN live + 1 ELSE live

\* A parser with parts, or mpc_string, begins.
Enter ==
    \E p \in todo, lit \in Seq(Chars) :
        /\ Push(Frame(p, lit))
        /\ live' = live /\ errs' = errs /\ rejected' = rejected /\ backtrack' \in Int
        /\ suppress' = IF p.type \in Quiet THEN suppress + 1 ELSE suppress
        /\ out' = {} /\ todo' \in SUBSET Parsers
        /\ IF p.type = "string" THEN todo' = {} ELSE \E q \in Parsers : todo' = {q}

\* The last call goes on, with one more result if a value was returned.
GoesOn ==
    /\ stack # <<>> /\ suppress' = suppress /\ rejected' = rejected /\ live' = live
    /\ errs' = errs - Cardinality(Err) /\ backtrack' = backtrack /\ out' = {}
    /\ IF Top.p.type = "string" THEN todo' = {} ELSE \E q \in Parsers : todo' = {q}
    /\ \E f \in Frames :
          /\ Turn(f) /\ f.p = Top.p /\ f.open = Top.open
          /\ Results(f) = Results(Top) + Given
          /\ f.p.type \in {"many", "many1"} => f.j < f.room

\* The results of a call and the value returned to it are folded into its answer, released,
\* or left behind.
Balanced(ok) ==
    live' = live - Results(Top) - Given + (IF ok THEN 1 ELSE 0) + (rejected' - rejected)

SuppressAfter == suppress' = IF Top.p.type \in Quiet THEN suppress - 1 ELSE suppress

\* The last call returns.
Return ==
    /\ stack # <<>> /\ Pop /\ backtrack' \in Int /\ rejected' \in Nat /\ SuppressAfter
    /\ \E ok \in BOOLEAN : \E err :
          /\ Answer(ok, err) /\ ErrorsFor(err) /\ (ok => err = {}) /\ Balanced(ok)

\* Only predict turns backtracking off and on.
LEMMA BacktrackAfter ==
    /\ In!Accept \/ In!Eoi \/ In!Mark \/ In!Unmark \/ In!Rewind \/ UNCHANGED input
          => backtrack' = backtrack
    /\ \A by : In!Backtracking(by) => backtrack' = backtrack + by
BY DEF In!Accept, In!Eoi, In!Mark, In!Unmark, In!Rewind, In!Backtracking, input

\* The errors a step makes.
LEMMA ErrorsAfter ==
    ASSUME CallsType, ErrorsType, Counters
    PROVE  /\ NoError /\ Err = {} => ErrorsFor({})
           /\ Merged => ErrorsFor({})
           /\ \A place, fails, expects :
                 LET err == NewError(place, suppress', fails, expects)
                 IN  Made(err) /\ Err = {} /\ suppress' \in Nat => ErrorsFor(err)
           /\ NoError /\ UNCHANGED suppress => ErrorsFor(Err)
           /\ \A prefix : NoError /\ UNCHANGED suppress => ErrorsFor(Repeated(prefix, Err))
<1>1. IsFiniteSet(Err) /\ MaybeOne(Err)
  BY OutFacts
<1>2. Cardinality(Err) \in {0, 1} /\ (Err = {} => Cardinality(Err) = 0)
  BY <1>1, AtMostOne
<1>3. errs \in Int /\ suppress \in Nat /\ (suppress > 0 => Err = {})
  BY DEF Counters, ErrorsType
<1>4. Cardinality({}) = 0 /\ MaybeOne({})
  BY FS_EmptySet DEF MaybeOne
<1>5. NoError /\ Err = {} => ErrorsFor({})
  BY <1>2, <1>3, <1>4 DEF NoError, ErrorsFor
<1>6. Merged => ErrorsFor({})
  BY <1>2, <1>3, <1>4 DEF Merged, ErrorsFor
<1>7. ASSUME NEW place, NEW fails, NEW expects,
             Made(NewError(place, suppress', fails, expects)), Err = {}, suppress' \in Nat
      PROVE  ErrorsFor(NewError(place, suppress', fails, expects))
  <2> DEFINE err == NewError(place, suppress', fails, expects)
  <2>1. MaybeOne(err) /\ (err = {} \/ suppress' = 0)
    BY <1>7 DEF NewError, MaybeOne
  <2>2. Cardinality(err) \in {0, 1}
    <3> HIDE DEF err
    <3> QED BY <2>1, AtMostOne
  <2>3. errs' = errs + Cardinality(err)
    BY <1>7 DEF Made
  <2> HIDE DEF err
  <2>4. ErrorsFor(err)
    BY <1>2, <1>3, <1>7, <2>1, <2>2, <2>3 DEF ErrorsFor
  <2> QED BY <2>4 DEF err
<1>8. ASSUME NoError, UNCHANGED suppress PROVE ErrorsFor(Err)
  BY <1>1, <1>2, <1>3, <1>8 DEF NoError, ErrorsFor
<1>9. ASSUME NEW prefix, NoError, UNCHANGED suppress PROVE ErrorsFor(Repeated(prefix, Err))
  <2> DEFINE err == Repeated(prefix, Err)
  <2>1. MaybeOne(err) /\ (err = {} <=> Err = {})
    <3>1. CASE Err = {}
      BY <3>1 DEF Repeated, MaybeOne
    <3>2. CASE Err # {}
      <4>1. PICK e : Err = {e}
        BY <1>1, <3>2 DEF MaybeOne
      <4>2. err = {IF e.fails # {} THEN e ELSE Error(e.pos, {}, {<<prefix, Messages(e.expects)>>})}
        BY <4>1 DEF Repeated
      <4> HIDE DEF err
      <4> QED BY <3>2, <4>2 DEF MaybeOne
    <3> QED BY <3>1, <3>2
  <2> HIDE DEF err
  <2>3. Cardinality(err) = Cardinality(Err)
    BY <1>1, <2>1, AtMostOne
  <2>4. errs' = errs - Cardinality(Err) + Cardinality(err)
    BY <1>2, <1>3, <1>9, <2>3 DEF NoError
  <2>5. ErrorsFor(err)
    BY <1>3, <1>9, <2>1, <2>4 DEF ErrorsFor
  <2> QED BY <2>5 DEF err
<1> QED BY <1>5, <1>6, <1>7, <1>8, <1>9

\* A parser without parts.
LEMMA LeafSteps ==
    ASSUME IInv, RunOne \/ RunAnchor \/ RunEoi \/ RunPass \/ RunFail
    PROVE  Leaf
<1>1. CallsType /\ ErrorsType /\ Counters /\ suppress \in Nat /\ live \in Int
  BY DEF IInv, Counters
<1>2. todo # {} => Err = {}
  BY <1>1, OutFacts DEF CallsType
<1>3. CASE RunOne
  BY <1>1, <1>2, <1>3, BacktrackAfter, ErrorsAfter DEF RunOne, Leaf
<1>4. CASE RunAnchor
  <2>1. PICK p \in todo : /\ Answer(Holds(p), {})
                          /\ live' = IF Holds(p) THEN live + 1 ELSE live
    BY <1>4 DEF RunAnchor
  <2>2. Holds(p) \in BOOLEAN
    BY DEF Holds
  <2> QED BY <1>1, <1>2, <1>4, <2>1, <2>2, BacktrackAfter, ErrorsAfter DEF RunAnchor, Leaf
<1>5. CASE RunEoi
  BY <1>1, <1>2, <1>5, BacktrackAfter, ErrorsAfter DEF RunEoi, Leaf
<1>6. CASE RunPass
  BY <1>1, <1>2, <1>6, BacktrackAfter, ErrorsAfter DEF RunPass, Leaf
<1>7. CASE RunFail
  <2> DEFINE err == Failure(at, suppress, "fail")
  <2>1. Answer(FALSE, err) /\ Made(err) /\ suppress' = suppress /\ todo # {}
    BY <1>7 DEF RunFail
  <2>2. ErrorsFor(err)
    BY <1>1, <1>2, <2>1, ErrorsAfter DEF Failure
  <2> HIDE DEF err
  <2> QED BY <1>1, <1>7, <2>1, <2>2, BacktrackAfter DEF RunFail, Leaf
<1> QED BY <1>3, <1>4, <1>5, <1>6, <1>7

\* A parser that has parts, and mpc_string.
LEMMA EnterSteps ==
    ASSUME IInv, StringBegin \/ Begin
    PROVE  Enter
<1>1. CallsType /\ errs' = errs /\ backtrack \in Int
  BY DEF IInv, CallsType, StringBegin, Begin, NoError
<1>2. CASE StringBegin
  <2>1. PICK p \in todo : p.type = "string" /\ Push(Frame(p, p.w))
    BY <1>2 DEF StringBegin
  <2>2. p.w \in Seq(Chars) /\ p.type \notin Quiet
    BY <1>1, <2>1, TodoType, ParsersAssumption, TextsAssumption DEF Quiet
  <2>3. out' = {}
    BY <1>1, <1>2, TodoType DEF StringBegin
  <2> QED BY <1>1, <1>2, <2>1, <2>2, <2>3, BacktrackAfter DEF StringBegin, Enter
<1>3. CASE Begin
  <2>1. PICK p \in todo :
           /\ Push(Frame(p, <<>>)) /\ p.type # "string"
           /\ \/ p.type \in OnePart /\ Call(p.x)
              \/ p.type \in {"and", "or"} /\ p.xs # <<>> /\ Call(Head(p.xs))
           /\ suppress' = IF p.type \in Quiet THEN suppress + 1 ELSE suppress
           /\ In!Mark \/ In!Backtracking(-1) \/ UNCHANGED input
    BY <1>3 DEF Begin, OnePart, Quiet
  <2>2. \E q \in Parsers : Call(q)
    <3>1. p \in Parsers
      BY <1>1, TodoType
    <3>2. CASE p.type \in OnePart
      BY <2>1, <3>1, <3>2, ParsersAssumption DEF OnePart
    <3>3. CASE p.type \in {"and", "or"}
      <4>1. p.xs \in Seq(Parsers) /\ p.xs # <<>> /\ Call(Head(p.xs))
        BY <2>1, <3>1, <3>3, ParsersAssumption DEF OnePart
      <4> QED BY <4>1
    <3> QED BY <2>1, <3>2, <3>3
  <2>3. backtrack' \in Int
    BY <1>1, <2>1, BacktrackAfter
  <2>4. <<>> \in Seq(Chars)
    OBVIOUS
  <2> QED BY <1>1, <1>3, <2>1, <2>2, <2>3, <2>4 DEF Begin, Call, Enter
<1> QED BY <1>2, <1>3

\* What may be done with the last call, with more results or fewer characters to match.
LEMMA TurnedType ==
    ASSUME CallsType, stack # <<>>
    PROVE  /\ Top.j \in Nat /\ Top.room \in Rooms /\ Top.p \in Parsers
           /\ \A w \in Seq(Chars) :
                 LET f == [Top EXCEPT !.lit = w]
                 IN  f \in Frames /\ f.p = Top.p /\ f.open = Top.open /\ f.j = Top.j
           /\ LET f == [Top EXCEPT !.j = @ + 1]
              IN  f \in Frames /\ f.p = Top.p /\ f.open = Top.open /\ f.j = Top.j + 1
           /\ \A r \in Rooms :
                 LET f == [Top EXCEPT !.j = Top.j + 1, !.room = r]
                 IN  /\ f \in Frames /\ f.p = Top.p /\ f.open = Top.open
                     /\ f.j = Top.j + 1 /\ f.room = r
<1>1. Top \in Frames /\ Top.j \in Nat /\ Top.room \in Rooms /\ Top.p \in Parsers
  BY TopType DEF Frames
<1>2. ASSUME NEW w \in Seq(Chars)
      PROVE  LET f == [Top EXCEPT !.lit = w]
             IN  f \in Frames /\ f.p = Top.p /\ f.open = Top.open /\ f.j = Top.j
  BY <1>1 DEF Frames
<1>3. ASSUME NEW n \in Nat
      PROVE  LET f == [Top EXCEPT !.j = n]
             IN  f \in Frames /\ f.p = Top.p /\ f.open = Top.open /\ f.j = n
  BY <1>1 DEF Frames
<1>4. ASSUME NEW n \in Nat, NEW r \in Rooms
      PROVE  LET f == [Top EXCEPT !.j = n, !.room = r]
             IN  /\ f \in Frames /\ f.p = Top.p /\ f.open = Top.open
                 /\ f.j = n /\ f.room = r
  BY <1>1 DEF Frames
<1>5. Top.j + 1 \in Nat
  BY <1>1
<1> QED BY <1>1, <1>2, <1>3, <1>4, <1>5

\* The array of results has room for the result after the next.
LEMMA OneMoreFits ==
    ASSUME NEW n \in Nat, NEW r \in Rooms
    PROVE  LET s == IF n = StackMin \/ n >= r THEN n + n \div 2 ELSE r
           IN  s \in Rooms /\ n < s
<1>1. n >= 2 => n \div 2 >= 1
  OBVIOUS
<1>2. n \div 2 \in Nat
  OBVIOUS
<1> QED BY <1>1, <1>2, RunAssumption DEF Rooms

\* A call that goes on.
LEMMA GoOnSteps ==
    ASSUME IInv, \/ StringChar \/ ManyMore \/ CountMore \/ AndNext
                 \/ OrNext /\ Top.j + 1 < Len(Top.p.xs)
    PROVE  GoesOn
<1>1. CallsType /\ ErrorsType /\ Counters /\ errs \in Int /\ StringsOnTop
  BY DEF IInv, Counters
<1>2. stack # <<>>
  BY DEF StringChar, InString, ManyMore, CountMore, AndNext, OrNext, Succeeded, Failed
<1>3. /\ \A types : Succeeded(types) =>
            Top.p.type \in types /\ Err = {} /\ Cardinality(Err) = 0 /\ Given = 1
      /\ \A types : Failed(types) => Top.p.type \in types /\ Given = 0
      /\ out = {} => Cardinality(Err) = 0 /\ Given = 0
      /\ Cardinality(Err) \in {0, 1}
  BY <1>1, OutFacts, AtMostOne, FS_EmptySet DEF Succeeded, Failed
<1>4. /\ Top.j \in Nat /\ Top.room \in Rooms /\ Top.p \in Parsers
      /\ LET f == [Top EXCEPT !.j = @ + 1]
         IN  f \in Frames /\ f.p = Top.p /\ f.open = Top.open /\ f.j = Top.j + 1
  BY <1>1, <1>2, TurnedType
<1>5. CASE StringChar
  <2> DEFINE f == [Top EXCEPT !.lit = Tail(@)]
  <2>1. Tail(Top.lit) \in Seq(Chars)
    BY <1>1, <1>2, <1>5, TopType DEF StringChar, Frames
  <2>2. f \in Frames /\ f.p = Top.p /\ f.open = Top.open /\ f.j = Top.j /\ Turn(f)
    BY <1>1, <1>2, <1>5, <2>1, TurnedType DEF StringChar
  <2>3. Results(f) = 0 /\ Results(Top) = 0 /\ f.p.type = "string"
    BY <1>5, <2>2 DEF Results, StringChar, InString
  <2>4. errs' = errs - Cardinality(Err) /\ out' = {} /\ Given = 0
    BY <1>1, <1>3, <1>5 DEF StringChar, InString, NoError
  <2> HIDE DEF f
  <2> QED BY <1>2, <1>3, <1>5, <2>2, <2>3, <2>4, BacktrackAfter
          DEF StringChar, InString, GoesOn
<1>6. CASE ManyMore
  <2> DEFINE f == OneMore(Top)
             n == Top.j + 1
             r == IF n = StackMin \/ n >= Top.room THEN n + n \div 2 ELSE Top.room
  <2>1. r \in Rooms /\ n < r
    <3>1. n \in Nat /\ Top.room \in Rooms
      BY <1>4
    <3> HIDE DEF n
    <3> QED BY <3>1, OneMoreFits
  <2>2. f = [Top EXCEPT !.j = Top.j + 1, !.room = r]
    BY DEF OneMore
  <2> HIDE DEF r
  <2>3. f \in Frames /\ f.p = Top.p /\ f.open = Top.open /\ f.j = n /\ f.room = r
    BY <1>1, <1>2, <2>1, <2>2, TurnedType
  <2>4. Turn(f) /\ Call(Top.p.x) /\ Succeeded({"many", "many1"})
    BY <1>6 DEF ManyMore
  <2> HIDE DEF f
  <2>5. Top.p.type \in {"many", "many1"} /\ Top.p.x \in Parsers
    BY <1>3, <1>4, <2>4, ParsersAssumption DEF OnePart
  <2>6. Results(f) = Results(Top) + Given
    BY <1>3, <1>4, <2>3, <2>4, <2>5 DEF Results
  <2>7. errs' = errs - Cardinality(Err)
    BY <1>1, <1>3, <1>6, <2>4 DEF ManyMore, NoError
  <2> QED BY <1>2, <1>6, <2>1, <2>3, <2>4, <2>5, <2>6, <2>7, BacktrackAfter
          DEF ManyMore, Call, GoesOn
<1>7. CASE CountMore \/ AndNext
  <2> DEFINE f == [Top EXCEPT !.j = @ + 1]
  <2>1. /\ Turn(f) /\ Top.p.type \in {"count", "and"} /\ Given = 1
        /\ \E q \in Parsers : Call(q)
    <3>1. CASE CountMore
      BY <1>3, <1>4, <3>1, ParsersAssumption DEF CountMore, OnePart
    <3>2. CASE AndNext
      <4>1. Top.p.type = "and" /\ Top.j + 2 \in 1..Len(Top.p.xs)
        BY <1>3, <1>4, <3>2 DEF AndNext
      <4>2. Top.p.xs[Top.j + 2] \in Parsers
        BY <1>4, <4>1, ParsersAssumption
      <4> QED BY <1>3, <3>2, <4>1, <4>2 DEF AndNext
    <3> QED BY <1>7, <3>1, <3>2
  <2>2. Results(f) = Results(Top) + Given
    BY <1>4, <2>1 DEF Results
  <2>3. errs' = errs - Cardinality(Err)
    BY <1>1, <1>3, <1>7 DEF CountMore, AndNext, NoError
  <2>4. f \in Frames /\ f.p = Top.p /\ f.open = Top.open
    BY <1>4
  <2> HIDE DEF f
  <2> QED BY <1>2, <1>7, <2>1, <2>2, <2>3, <2>4, BacktrackAfter
          DEF CountMore, AndNext, Call, GoesOn
<1>8. CASE OrNext /\ Top.j + 1 < Len(Top.p.xs)
  <2> DEFINE f == [Top EXCEPT !.j = @ + 1]
  <2>1. Turn(f) /\ Top.p.type = "or" /\ Given = 0 /\ Call(Top.p.xs[Top.j + 2]) /\ Merged
    BY <1>3, <1>8 DEF OrNext
  <2>2. Top.p.xs[Top.j + 2] \in Parsers
    <3>1. Top.p.xs \in Seq(Parsers)
      BY <1>4, <2>1, ParsersAssumption
    <3>2. Top.j + 2 \in 1..Len(Top.p.xs)
      BY <1>4, <1>8, <3>1
    <3> QED BY <3>1, <3>2
  <2>3. f \in Frames /\ f.p = Top.p /\ f.open = Top.open
    BY <1>4
  <2>4. Results(f) = 0 /\ Results(Top) = 0
    BY <2>1, <2>3 DEF Results
  <2> HIDE DEF f
  <2> QED BY <1>2, <1>8, <2>1, <2>2, <2>3, <2>4, BacktrackAfter
          DEF OrNext, Call, GoesOn, Merged
<1> QED BY <1>5, <1>6, <1>7, <1>8

\* What a call that returns has got.
LEMMA ReturnFacts ==
    ASSUME IInv
    PROVE  /\ CallsType /\ ErrorsType /\ Counters
           /\ live \in Int /\ rejected \in Nat /\ suppress \in Nat /\ backtrack \in Int
           /\ \A o \in out : o.ok => Err = {} /\ Given = 1
           /\ \A o \in out : ~o.ok => Given = 0
           /\ out = {} => Err = {} /\ Given = 0
           /\ stack # <<>> => Top.j \in Nat /\ (Top.p.type \in Quiet => suppress > 0 /\ Err = {})
<1>1. CallsType /\ ErrorsType /\ Counters
  BY DEF IInv
<1>2. stack # <<>> => Top.j \in Nat
  BY <1>1, TurnedType
<1>3. stack # <<>> => (Top.p.type \in Quiet => suppress > 0 /\ Err = {})
  BY <1>1, QuietTop
<1>4. live \in Int /\ rejected \in Nat /\ suppress \in Nat /\ backtrack \in Int
  BY <1>1 DEF Counters, CallsType
<1> QED BY <1>1, <1>2, <1>3, <1>4, OutFacts

\* mpc_string returns.
LEMMA StringReturns ==
    ASSUME IInv, StringFails \/ StringDone
    PROVE  Return
<1>1. /\ CallsType /\ ErrorsType /\ Counters /\ live \in Int /\ rejected \in Nat
      /\ suppress \in Nat /\ backtrack \in Int
  BY ReturnFacts
<1>2. /\ stack # <<>> /\ Top.p.type = "string" /\ NoError /\ Pop
      /\ suppress' = suppress /\ rejected' = rejected /\ backtrack' = backtrack
      /\ Err = {} /\ Given = 0
  BY ReturnFacts, BacktrackAfter DEF StringFails, StringDone, InString
<1>3. ErrorsFor({})
  BY <1>1, <1>2, ErrorsAfter
<1>4. Results(Top) = 0 /\ Top.p.type \notin Quiet
  BY <1>2 DEF Results, Quiet
<1>5. stack # <<>> /\ Pop /\ backtrack' \in Int /\ rejected' \in Nat /\ SuppressAfter
  BY <1>1, <1>2, <1>4 DEF SuppressAfter
<1>6. CASE StringFails
  <2>1. Balanced(FALSE)
    BY <1>1, <1>2, <1>4, <1>6 DEF StringFails, Balanced
  <2>2. Answer(FALSE, {})
    BY <1>6 DEF StringFails
  <2> QED BY <1>3, <1>5, <2>1, <2>2 DEF Return
<1>7. CASE StringDone
  <2>1. Balanced(TRUE)
    BY <1>1, <1>2, <1>4, <1>7 DEF StringDone, Balanced
  <2>2. Answer(TRUE, {})
    BY <1>7 DEF StringDone
  <2> QED BY <1>3, <1>5, <2>1, <2>2 DEF Return
<1> QED BY <1>6, <1>7

\* A call that answers with the answer of its part returns.
LEMMA HandsOn ==
    ASSUME IInv, HandOn \/ HandOnFailure \/ CheckPasses \/ OrDone \/ Many1Fails
    PROVE  Return
<1>1. /\ CallsType /\ ErrorsType /\ Counters /\ live \in Int /\ rejected \in Nat
      /\ suppress \in Nat /\ backtrack \in Int
  BY ReturnFacts
<1>2. stack # <<>> /\ Top.j \in Nat /\ Pop /\ NoError /\ rejected' = rejected /\ live' = live
  BY ReturnFacts DEF HandOn, HandOnFailure, CheckPasses, OrDone, Many1Fails, Succeeded, Failed
<1>3. backtrack' \in Int
  <2>1. UNCHANGED input \/ In!Backtracking(1)
    BY DEF HandOn, HandOnFailure, CheckPasses, OrDone, Many1Fails
  <2> QED BY <1>1, <2>1, BacktrackAfter
<1>4. rejected' \in Nat
  BY <1>1, <1>2
<1>5. CASE HandOn \/ CheckPasses \/ OrDone
  <2>1. Answer(TRUE, {}) /\ Err = {} /\ Given = 1
    BY <1>5, ReturnFacts DEF HandOn, CheckPasses, OrDone, Succeeded
  <2>2. Results(Top) = 0
    BY <1>5, ReturnFacts DEF HandOn, CheckPasses, OrDone, Succeeded, Results
  <2>3. SuppressAfter
    BY <1>5, ReturnFacts DEF HandOn, CheckPasses, OrDone, Succeeded, Quiet, SuppressAfter
  <2>4. ErrorsFor({})
    BY <1>1, <1>2, <2>1, ErrorsAfter
  <2>5. Balanced(TRUE)
    BY <1>1, <1>2, <2>1, <2>2 DEF Balanced
  <2> QED BY <1>2, <1>3, <1>4, <2>1, <2>3, <2>4, <2>5 DEF Return
<1>6. CASE HandOnFailure \/ Many1Fails
  <2>1. Given = 0 /\ suppress' = suppress /\ Top.p.type \notin Quiet
    BY <1>6, ReturnFacts DEF HandOnFailure, Many1Fails, Failed, Quiet
  <2>2. Results(Top) = 0
    BY <1>6, ReturnFacts DEF HandOnFailure, Many1Fails, Failed, Results
  <2>3. PICK err : Answer(FALSE, err) /\ ErrorsFor(err)
    BY <1>1, <1>2, <1>6, <2>1, ErrorsAfter DEF HandOnFailure, Many1Fails
  <2>4. Balanced(FALSE)
    BY <1>1, <1>2, <2>1, <2>2 DEF Balanced
  <2>5. SuppressAfter
    BY <2>1 DEF SuppressAfter
  <2> QED BY <1>2, <1>3, <1>4, <2>3, <2>4, <2>5 DEF Return
<1> QED BY <1>5, <1>6

\* A call that fails with an error of its own returns.
LEMMA FailsItself ==
    ASSUME IInv, CheckFails \/ ExpectFails \/ NotFails
    PROVE  Return
<1>1. /\ CallsType /\ ErrorsType /\ Counters /\ live \in Int /\ rejected \in Nat
      /\ suppress \in Nat /\ backtrack \in Int
  BY ReturnFacts
<1>2. stack # <<>> /\ Pop /\ rejected' \in Nat /\ Results(Top) = 0
  <2>1. stack # <<>> /\ Pop /\ Top.p.type \in {"check", "expect", "not"}
    BY DEF CheckFails, ExpectFails, NotFails, Succeeded, Failed
  <2>2. rejected' = rejected \/ rejected' = rejected + 1
    BY DEF CheckFails, ExpectFails, NotFails
  <2> QED BY <1>1, <2>1, <2>2 DEF Results
<1>3. backtrack' \in Int
  <2>1. UNCHANGED input \/ In!Rewind
    BY DEF CheckFails, ExpectFails, NotFails
  <2> QED BY <1>1, <2>1, BacktrackAfter
<1>4. SuppressAfter /\ suppress' \in Nat /\ Err = {}
  <2>1. CASE CheckFails
    BY <1>1, <2>1, ReturnFacts DEF CheckFails, Succeeded, Quiet, SuppressAfter
  <2>2. CASE ExpectFails
    BY <1>1, <2>2, ReturnFacts DEF ExpectFails, Failed, Quiet, SuppressAfter
  <2>3. CASE NotFails
    BY <1>1, <2>3, ReturnFacts DEF NotFails, Succeeded, Quiet, SuppressAfter
  <2> QED BY <2>1, <2>2, <2>3
<1>5. \E err : Answer(FALSE, err) /\ ErrorsFor(err)
  <2>1. CASE CheckFails
    <3> DEFINE err == Failure(at, suppress, "check")
    <3>1. Answer(FALSE, err) /\ Made(err) /\ suppress' = suppress
      BY <2>1 DEF CheckFails
    <3>2. ErrorsFor(err)
      BY <1>1, <1>4, <3>1, ErrorsAfter DEF Failure
    <3> QED BY <3>1, <3>2
  <2>2. CASE ExpectFails
    <3> DEFINE err == Expected(at, suppress', Top.p.m)
    <3>1. Answer(FALSE, err) /\ Made(err)
      BY <2>2 DEF ExpectFails
    <3>2. ErrorsFor(err)
      BY <1>1, <1>4, <3>1, ErrorsAfter DEF Expected
    <3> QED BY <3>1, <3>2
  <2>3. CASE NotFails
    <3> DEFINE err == Expected(at', suppress', "opposite")
    <3>1. Answer(FALSE, err) /\ Made(err)
      BY <2>3 DEF NotFails
    <3>2. ErrorsFor(err)
      BY <1>1, <1>4, <3>1, ErrorsAfter DEF Expected
    <3> QED BY <3>1, <3>2
  <2> QED BY <2>1, <2>2, <2>3
<1>6. Balanced(FALSE)
  <2>1. CASE CheckFails
    BY <1>1, <1>2, <2>1, ReturnFacts DEF CheckFails, Succeeded, Balanced
  <2>2. CASE ExpectFails
    BY <1>1, <1>2, <2>2, ReturnFacts DEF ExpectFails, Failed, Balanced
  <2>3. CASE NotFails
    BY <1>1, <1>2, <2>3, ReturnFacts DEF NotFails, Succeeded, Balanced
  <2> QED BY <2>1, <2>2, <2>3
<1> QED BY <1>2, <1>3, <1>4, <1>5, <1>6 DEF Return

\* A call that succeeds with a value made of its results returns.
LEMMA Folds ==
    ASSUME IInv, NotSucceeds \/ MaybeNot \/ ManyEnds \/ CountDone \/ AndDone
    PROVE  Return
<1>1. /\ CallsType /\ ErrorsType /\ Counters /\ live \in Int /\ rejected \in Nat
      /\ suppress \in Nat /\ backtrack \in Int
  BY ReturnFacts
<1>2. stack # <<>> /\ Pop /\ rejected' = rejected /\ Answer(TRUE, {}) /\ Top.j \in Nat
  BY <1>1, ReturnFacts
     DEF NotSucceeds, MaybeNot, ManyEnds, CountDone, AndDone, Succeeded, Failed
<1>3. backtrack' \in Int
  <2>1. UNCHANGED input \/ In!Unmark
    BY DEF NotSucceeds, MaybeNot, ManyEnds, CountDone, AndDone
  <2> QED BY <1>1, <2>1, BacktrackAfter
<1>4. SuppressAfter
  <2>1. CASE NotSucceeds
    BY <2>1 DEF NotSucceeds, Failed, Quiet, SuppressAfter
  <2>2. CASE ~NotSucceeds
    BY <2>2 DEF MaybeNot, ManyEnds, CountDone, AndDone, Succeeded, Failed, Quiet, SuppressAfter
  <2> QED BY <2>1, <2>2
<1>5. ErrorsFor({})
  <2>1. CASE Merged
    BY <1>1, <2>1, ErrorsAfter
  <2>2. CASE NoError /\ Err = {}
    BY <1>1, <2>2, ErrorsAfter
  <2>3. CASE NotSucceeds
    BY <2>2, <2>3, ReturnFacts DEF NotSucceeds, Failed, Quiet
  <2>4. CASE CountDone \/ AndDone
    BY <2>2, <2>4, ReturnFacts DEF CountDone, AndDone, Succeeded
  <2> QED BY <2>1, <2>3, <2>4 DEF MaybeNot, ManyEnds
<1>6. Balanced(TRUE)
  <2>1. CASE NotSucceeds \/ MaybeNot
    <3>1. Given = 0 /\ Results(Top) = 0 /\ live' = live + 1
      BY <2>1, ReturnFacts DEF NotSucceeds, MaybeNot, Failed, Results
    <3> QED BY <1>1, <1>2, <3>1 DEF Balanced
  <2>2. CASE ManyEnds
    <3>1. Given = 0 /\ Results(Top) = Top.j /\ live' = (live - Top.j) + 1
      BY <2>2, ReturnFacts DEF ManyEnds, Failed, Results
    <3> QED BY <1>1, <1>2, <3>1 DEF Balanced
  <2>3. CASE CountDone \/ AndDone
    <3>1. Given = 1 /\ Results(Top) = Top.j /\ live' = (live - (Top.j + 1)) + 1
      BY <2>3, ReturnFacts DEF CountDone, AndDone, Succeeded, Results
    <3> QED BY <1>1, <1>2, <3>1 DEF Balanced
  <2> QED BY <2>1, <2>2, <2>3
<1> QED BY <1>1, <1>2, <1>3, <1>4, <1>5, <1>6 DEF Return

\* A call that fails because of its part, and releases its results, returns.
LEMMA FailsForPart ==
    ASSUME IInv, CountFails \/ AndFails \/ (OrNext /\ ~(Top.j + 1 < Len(Top.p.xs)))
    PROVE  Return
<1>1. /\ CallsType /\ ErrorsType /\ Counters /\ live \in Int /\ rejected \in Nat
      /\ suppress \in Nat /\ backtrack \in Int
  BY ReturnFacts
<1>2. /\ stack # <<>> /\ Pop /\ rejected' = rejected /\ Top.j \in Nat
      /\ Given = 0 /\ suppress' = suppress /\ Top.p.type \notin Quiet
  BY <1>1, ReturnFacts DEF CountFails, AndFails, OrNext, Failed, Quiet
<1>3. backtrack' \in Int
  <2>1. UNCHANGED input \/ In!Rewind
    BY DEF CountFails, AndFails, OrNext
  <2> QED BY <1>1, <2>1, BacktrackAfter
<1>4. SuppressAfter
  BY <1>2 DEF SuppressAfter
<1>5. \E err : Answer(FALSE, err) /\ ErrorsFor(err)
  <2>1. CASE CountFails
    BY <1>1, <1>2, <2>1, ErrorsAfter DEF CountFails
  <2>2. CASE AndFails
    BY <1>1, <1>2, <2>2, ErrorsAfter DEF AndFails
  <2>3. CASE OrNext /\ ~(Top.j + 1 < Len(Top.p.xs))
    BY <1>1, <1>2, <2>3, ErrorsAfter DEF OrNext
  <2> QED BY <2>1, <2>2, <2>3
<1>6. Balanced(FALSE)
  <2>1. live' = live - Results(Top)
    <3>1. CASE CountFails \/ AndFails
      BY <1>1, <1>2, <3>1 DEF CountFails, AndFails, Failed, Results
    <3>2. CASE OrNext
      BY <1>1, <1>2, <3>2 DEF OrNext, Failed, Results
    <3> QED BY <3>1, <3>2
  <2>2. Results(Top) \in Nat
    BY <1>2 DEF Results
  <2> QED BY <1>1, <1>2, <2>1, <2>2 DEF Balanced
<1> QED BY <1>1, <1>2, <1>3, <1>4, <1>5, <1>6 DEF Return

\* Every step is one of these.
Stays == UNCHANGED <<stack, todo, out, suppress, live, errs, rejected, backtrack>>

LEMMA Steps ==
    ASSUME IInv, [Next]_vars
    PROVE  Leaf \/ Enter \/ GoesOn \/ Return \/ Stays
<1>1. CASE RunOne \/ RunAnchor \/ RunEoi \/ RunPass \/ RunFail
  BY <1>1, LeafSteps
<1>2. CASE StringBegin \/ Begin
  BY <1>2, EnterSteps
<1>3. CASE \/ StringChar \/ ManyMore \/ CountMore \/ AndNext
           \/ OrNext /\ Top.j + 1 < Len(Top.p.xs)
  BY <1>3, GoOnSteps
<1>4. CASE StringFails \/ StringDone
  BY <1>4, StringReturns
<1>5. CASE HandOn \/ HandOnFailure \/ CheckPasses \/ OrDone \/ Many1Fails
  BY <1>5, HandsOn
<1>6. CASE CheckFails \/ ExpectFails \/ NotFails
  BY <1>6, FailsItself
<1>7. CASE NotSucceeds \/ MaybeNot \/ ManyEnds \/ CountDone \/ AndDone
  BY <1>7, Folds
<1>8. CASE CountFails \/ AndFails \/ (OrNext /\ ~(Top.j + 1 < Len(Top.p.xs)))
  BY <1>8, FailsForPart
<1>9. CASE UNCHANGED vars
  BY <1>9 DEF vars, input, Stays
<1>10. CASE Next
  <2>1. \/ RunOne \/ RunAnchor \/ RunEoi \/ RunPass \/ RunFail
        \/ StringBegin \/ Begin
        \/ StringChar \/ ManyMore \/ CountMore \/ AndNext \/ OrNext
        \/ StringFails \/ StringDone
        \/ HandOn \/ HandOnFailure \/ CheckPasses \/ OrDone \/ Many1Fails
        \/ CheckFails \/ ExpectFails \/ NotFails
        \/ NotSucceeds \/ MaybeNot \/ ManyEnds \/ CountDone \/ AndDone
        \/ CountFails \/ AndFails
    BY <1>10, Zenon DEF Next
  <2>2. CASE OrNext
    BY <1>3, <1>8, <2>2
  <2> QED BY <1>1, <1>2, <1>3, <1>4, <1>5, <1>6, <1>7, <1>8, <2>1, <2>2
<1>11. Next \/ UNCHANGED vars
  OBVIOUS
<1> QED BY <1>9, <1>10, <1>11, Zenon

----------------------------------------------------------------------------
(* What it keeps *)

\* An answer has the type of one.
LEMMA AnswerType ==
    ASSUME NEW ok \in BOOLEAN, NEW err, Answer(ok, err)
    PROVE  /\ todo' = {} /\ out' # {} /\ Err' = err
           /\ \E k \in BOOLEAN : \E e : out' = {[ok |-> k, err |-> e]}
           /\ \A o \in out' : o.ok = ok /\ o.err = err
           /\ Given' = IF ok THEN 1 ELSE 0
<1>1. todo' = {} /\ out' = {[ok |-> ok, err |-> err]} /\ Err' = err
  BY AnswerFacts
<1>2. \E k \in BOOLEAN : \E e : out' = {[ok |-> k, err |-> e]}
  BY <1>1
<1>3. out' # {} /\ \A o \in out' : o.ok = ok /\ o.err = err
  BY <1>1
<1>4. CASE ok
  <2>1. {o \in out' : o.ok} = {[ok |-> ok, err |-> err]}
    BY <1>1, <1>4
  <2>2. Given' = 1
    BY <2>1, FS_Singleton DEF Given
  <2> QED BY <1>1, <1>4, <1>2, <1>3, <2>2
<1>5. CASE ~ok
  <2>1. {o \in out' : o.ok} = {}
    BY <1>1, <1>5
  <2>2. Given' = 0
    BY <2>1, FS_EmptySet DEF Given
  <2> QED BY <1>1, <1>5, <1>2, <1>3, <2>2
<1> QED BY <1>4, <1>5

\* When nothing has returned there is no value and no error.
LEMMA NoAnswer ==
    ASSUME out' = {}
    PROVE  Given' = 0 /\ Err' = {}
<1>1. {o \in out' : o.ok} = {} /\ Err' = {}
  BY DEF Err
<1> QED BY <1>1, FS_EmptySet DEF Given

\* The calls keep their types.
LEMMA CallsKept ==
    ASSUME IInv, Leaf \/ Enter \/ GoesOn \/ Return \/ Stays
    PROVE  CallsType' /\ StringsOnTop'
<1>1. CallsType /\ StringsOnTop
  BY DEF IInv
<1>2. CASE Leaf
  <2>1. /\ todo' = {} /\ stack' = stack /\ backtrack' = backtrack
        /\ \E k \in BOOLEAN : \E e : out' = {[ok |-> k, err |-> e]}
    BY <1>2, AnswerType DEF Leaf
  <2>2. \A k \in 1..Len(stack) : stack[k].p.type # "string"
    BY <1>1, <1>2 DEF Leaf, StringsOnTop
  <2> QED BY <1>1, <2>1, <2>2 DEF CallsType, StringsOnTop
<1>3. CASE Enter
  <2>1. PICK p \in todo, lit \in Seq(Chars) :
          /\ Push(Frame(p, lit)) /\ out' = {} /\ todo' \in SUBSET Parsers
          /\ backtrack' \in Int
          /\ IF p.type = "string" THEN todo' = {} ELSE \E q \in Parsers : todo' = {q}
    BY <1>3 DEF Enter
  <2>2. p \in Parsers /\ todo # {}
    BY <1>1, TodoType
  <2>3. Frame(p, lit) \in Frames /\ Frame(p, lit).p = p
    BY <1>1, <2>2, FrameType
  <2>4. /\ stack' \in Seq(Frames) /\ Len(stack') = Len(stack) + 1 /\ Len(stack) \in Nat
        /\ stack'[Len(stack) + 1] = Frame(p, lit)
        /\ \A k \in 1..Len(stack) : stack'[k] = stack[k]
    BY <1>1, <2>1, <2>3, PushFacts
  <2>5. \A k \in 1..Len(stack) : stack[k].p.type # "string"
    BY <1>1, <2>2 DEF StringsOnTop
  <2>6. CallsType'
    BY <2>1, <2>4 DEF CallsType
  <2>7. StringsOnTop'
    BY <2>1, <2>3, <2>4, <2>5 DEF StringsOnTop
  <2> QED BY <2>6, <2>7
<1>4. CASE GoesOn
  <2>1. PICK f \in Frames : Turn(f) /\ f.p = Top.p
    BY <1>4 DEF GoesOn
  <2>2. /\ stack' \in Seq(Frames) /\ Len(stack') = Len(stack) /\ Len(stack) \in Nat \ {0}
        /\ stack'[Len(stack)] = f
        /\ \A k \in 1..(Len(stack) - 1) : stack'[k] = stack[k]
    BY <1>1, <1>4, <2>1, TurnFacts DEF GoesOn
  <2>3. CallsType'
    BY <1>1, <1>4, <2>2 DEF CallsType, GoesOn
  <2>4. StringsOnTop'
    BY <1>1, <1>4, <2>1, <2>2 DEF StringsOnTop, GoesOn, Top
  <2> QED BY <2>3, <2>4
<1>5. CASE Return
  <2>1. /\ todo' = {} /\ backtrack' \in Int
        /\ \E k \in BOOLEAN : \E e : out' = {[ok |-> k, err |-> e]}
    BY <1>5, AnswerType DEF Return
  <2>2. /\ stack' \in Seq(Frames) /\ Len(stack') = Len(stack) - 1 /\ Len(stack) \in Nat \ {0}
        /\ \A k \in 1..(Len(stack) - 1) : stack'[k] = stack[k]
    BY <1>1, <1>5, PopFacts DEF Return
  <2>3. CallsType'
    BY <2>1, <2>2 DEF CallsType
  <2>4. StringsOnTop'
    BY <1>1, <2>2 DEF StringsOnTop
  <2> QED BY <2>3, <2>4
<1>6. CASE Stays
  BY <1>1, <1>6 DEF Stays, CallsType, StringsOnTop
<1> QED BY <1>2, <1>3, <1>4, <1>5, <1>6

\* There is room for the next result.
LEMMA RoomKept ==
    ASSUME IInv, Leaf \/ Enter \/ GoesOn \/ Return \/ Stays
    PROVE  ResultsFit'
<1>1. CallsType /\ ResultsFit
  BY DEF IInv
<1>2. CASE Leaf \/ Stays
  BY <1>1, <1>2 DEF Leaf, Stays, ResultsFit
<1>3. CASE Enter
  <2>1. PICK p \in todo, lit \in Seq(Chars) : Push(Frame(p, lit))
    BY <1>3 DEF Enter
  <2>2. p \in Parsers
    BY <1>1, TodoType
  <2>3. Frame(p, lit) \in Frames /\ Frame(p, lit).j < Frame(p, lit).room
    BY <1>1, <2>2, FrameType, RunAssumption
  <2>4. /\ Len(stack') = Len(stack) + 1 /\ Len(stack) \in Nat
        /\ stack'[Len(stack) + 1] = Frame(p, lit)
        /\ \A k \in 1..Len(stack) : stack'[k] = stack[k]
    BY <1>1, <2>1, <2>3, PushFacts
  <2>5. ASSUME NEW k \in 1..(Len(stack) + 1) PROVE k = Len(stack) + 1 \/ k \in 1..Len(stack)
    BY <2>4
  <2> QED BY <1>1, <2>3, <2>4, <2>5 DEF ResultsFit
<1>4. CASE GoesOn
  <2>1. PICK f \in Frames : Turn(f) /\ (f.p.type \in {"many", "many1"} => f.j < f.room)
    BY <1>4 DEF GoesOn
  <2>2. /\ Len(stack') = Len(stack) /\ Len(stack) \in Nat \ {0}
        /\ stack'[Len(stack)] = f
        /\ \A k \in 1..(Len(stack) - 1) : stack'[k] = stack[k]
    BY <1>1, <1>4, <2>1, TurnFacts DEF GoesOn
  <2>3. ASSUME NEW k \in 1..Len(stack) PROVE k = Len(stack) \/ k \in 1..(Len(stack) - 1)
    BY <2>2
  <2> QED BY <1>1, <2>1, <2>2, <2>3 DEF ResultsFit
<1>5. CASE Return
  <2>1. /\ Len(stack') = Len(stack) - 1 /\ Len(stack) \in Nat \ {0}
        /\ \A k \in 1..(Len(stack) - 1) : stack'[k] = stack[k]
    BY <1>1, <1>5, PopFacts DEF Return
  <2>2. 1..(Len(stack) - 1) \subseteq 1..Len(stack)
    BY <2>1
  <2> QED BY <1>1, <2>1, <2>2 DEF ResultsFit
<1> QED BY <1>2, <1>3, <1>4, <1>5

\* Errors are made, merged and released so that each has an owner, and errors are
\* suppressed as many times as there are calls that ask for it.
LEMMA ErrorsKept ==
    ASSUME IInv, Leaf \/ Enter \/ GoesOn \/ Return \/ Stays
    PROVE  /\ ErrorsType' /\ EveryErrorOwned' /\ errs' \in Int
           /\ suppress' \in Nat /\ (suppress = Cardinality(Quieting))'
<1>1. /\ CallsType /\ ErrorsType /\ Counters /\ suppress \in Nat /\ errs \in Int
      /\ suppress = Cardinality(Quieting) /\ errs = 1 + Cardinality(Err)
  BY DEF IInv, Counters, EveryErrorOwned
<1>2. /\ (out = {} => Err = {}) /\ MaybeOne(Err) /\ Cardinality(Err) \in {0, 1}
      /\ (Err = {} => Cardinality(Err) = 0)
  BY <1>1, OutFacts, AtMostOne
<1>3. IsFiniteSet(Quieting)
  <2>1. Quieting \subseteq 1..Len(stack) /\ Len(stack) \in Int
    BY <1>1 DEF Quieting, CallsType
  <2>2. IsFiniteSet(1..Len(stack))
    BY <2>1, FS_Interval
  <2> QED BY <2>1, <2>2, FS_Subset
<1>4. Cardinality({}) = 0 /\ MaybeOne({})
  BY FS_EmptySet DEF MaybeOne
<1>5. ASSUME NEW ok \in BOOLEAN, NEW err, Answer(ok, err), ErrorsFor(err), ok => err = {}
      PROVE  ErrorsType' /\ EveryErrorOwned' /\ errs' \in Int
  <2>1. Err' = err /\ \A o \in out' : o.ok = ok /\ o.err = err
    BY <1>5, AnswerType
  <2>2. Cardinality(err) \in {0, 1}
    BY <1>5, AtMostOne DEF ErrorsFor
  <2>3. EveryErrorOwned' /\ errs' \in Int
    BY <1>1, <1>2, <1>5, <2>1, <2>2 DEF ErrorsFor, EveryErrorOwned
  <2>4. suppress' > 0 => Err' = {}
    BY <1>5, <2>1 DEF ErrorsFor
  <2>5. MaybeOne(err) /\ (ok => err = {})
    BY <1>5 DEF ErrorsFor
  <2>6. \A o \in out' : (o.ok => o.err = {}) /\ MaybeOne(o.err)
    BY <2>1, <2>5, Zenon
  <2>7. ErrorsType'
    BY <2>4, <2>6 DEF ErrorsType
  <2> QED BY <2>3, <2>7
<1>6. ASSUME out' = {}, errs' = errs - Cardinality(Err)
      PROVE  ErrorsType' /\ EveryErrorOwned' /\ errs' \in Int
  <2>1. Err' = {}
    BY <1>6, NoAnswer
  <2>2. ErrorsType'
    BY <1>6, <2>1 DEF ErrorsType
  <2>3. EveryErrorOwned' /\ errs' \in Int
    BY <1>1, <1>2, <1>4, <1>6, <2>1, SMTT(20), ZenonT(40) DEF EveryErrorOwned
  <2> QED BY <2>2, <2>3
<1>7. CASE Leaf
  <2>1. Quieting' = Quieting
    BY <1>7 DEF Leaf, Quieting
  <2> QED BY <1>1, <1>5, <1>7, <2>1 DEF Leaf
<1>8. CASE Enter
  <2>1. PICK p \in todo, lit \in Seq(Chars) :
          /\ Push(Frame(p, lit)) /\ out' = {} /\ errs' = errs
          /\ suppress' = IF p.type \in Quiet THEN suppress + 1 ELSE suppress
    BY <1>8 DEF Enter
  <2>2. p \in Parsers /\ out = {}
    BY <1>1, TodoType
  <2>3. Frame(p, lit) \in Frames /\ Frame(p, lit).p = p
    BY <1>1, <2>2, FrameType
  <2>4. /\ Len(stack') = Len(stack) + 1 /\ Len(stack) \in Nat
        /\ stack'[Len(stack) + 1] = Frame(p, lit)
        /\ \A k \in 1..Len(stack) : stack'[k] = stack[k]
    BY <1>1, <2>1, <2>3, PushFacts
  <2>5. /\ Quieting' = IF p.type \in Quiet THEN Quieting \cup {Len(stack) + 1} ELSE Quieting
        /\ Len(stack) + 1 \notin Quieting
    BY <2>3, <2>4 DEF Quieting
  <2>6. Cardinality(Quieting') = suppress'
    BY <1>1, <1>3, <2>1, <2>5, FS_AddElement
  <2>7. suppress' \in Nat
    BY <1>1, <2>1
  <2>8. errs' = errs - Cardinality(Err)
    BY <1>1, <1>2, <2>1, <2>2
  <2> QED BY <1>6, <2>1, <2>6, <2>7, <2>8
<1>9. CASE GoesOn
  <2>1. PICK f \in Frames : Turn(f) /\ f.p = Top.p
    BY <1>9 DEF GoesOn
  <2>2. /\ Len(stack') = Len(stack) /\ Len(stack) \in Nat \ {0}
        /\ stack'[Len(stack)] = f
        /\ \A k \in 1..(Len(stack) - 1) : stack'[k] = stack[k]
    BY <1>1, <1>9, <2>1, TurnFacts DEF GoesOn
  <2>3. \A k \in 1..Len(stack) : stack'[k].p = stack[k].p
    BY <2>1, <2>2 DEF Top
  <2>4. Quieting' = Quieting
    BY <2>2, <2>3 DEF Quieting
  <2> QED BY <1>1, <1>6, <1>9, <2>4 DEF GoesOn
<1>10. CASE Return
  <2>1. PICK ok, err : ok \in BOOLEAN /\ Answer(ok, err) /\ ErrorsFor(err) /\ (ok => err = {})
    BY <1>10 DEF Return
  <2>2. /\ Len(stack') = Len(stack) - 1 /\ Len(stack) \in Nat \ {0}
        /\ \A k \in 1..(Len(stack) - 1) : stack'[k] = stack[k]
    BY <1>1, <1>10, PopFacts DEF Return
  <2>3. /\ Quieting' = Quieting \ {Len(stack)}
        /\ Len(stack) \in Quieting <=> Top.p.type \in Quiet
    BY <2>2 DEF Quieting, Top
  <2>4. Cardinality(Quieting') = suppress'
    BY <1>1, <1>3, <1>10, <2>3, FS_RemoveElement DEF Return, SuppressAfter
  <2>5. IsFiniteSet(Quieting')
    BY <1>3, <2>3, FS_RemoveElement
  <2>6. suppress' \in Nat
    BY <2>4, <2>5, FS_CardinalityType
  <2> QED BY <1>5, <2>1, <2>4, <2>6
<1>11. CASE Stays
  <2>1. Quieting' = Quieting /\ Err' = Err
    BY <1>11 DEF Stays, Quieting, Err
  <2> QED BY <1>1, <1>11, <2>1 DEF Stays, ErrorsType, EveryErrorOwned
<1> QED BY <1>7, <1>8, <1>9, <1>10, <1>11

----------------------------------------------------------------------------
(* The results the calls hold *)

\* The results held by the calls s: HeldResults is Of(stack).
Of(s) == UNION {{k} \X (1..Results(s[k])) : k \in 1..Len(s)}

LEMMA OfMember ==
    ASSUME NEW s
    PROVE  \A x : x \in Of(s) <=> \E k \in 1..Len(s) : x \in {k} \X (1..Results(s[k]))
BY DEF Of

\* Calls that hold as many results hold the same.
LEMMA OfSame ==
    ASSUME NEW s, NEW t, Len(t) = Len(s),
           \A k \in 1..Len(s) : Results(t[k]) = Results(s[k])
    PROVE  Of(t) = Of(s)
<1>1. \A x : x \in Of(t) <=> x \in Of(s)
  BY OfMember
<1> QED BY <1>1

\* A new call holds none.
LEMMA OfGrown ==
    ASSUME NEW s, NEW t, Len(s) \in Nat, Len(t) = Len(s) + 1,
           \A k \in 1..Len(s) : t[k] = s[k], Results(t[Len(s) + 1]) = 0
    PROVE  Of(t) = Of(s)
<1>1. {Len(s) + 1} \X (1..Results(t[Len(s) + 1])) = {}
  <2>1. 1..Results(t[Len(s) + 1]) = {}
    OBVIOUS
  <2> QED BY <2>1
<1>2. \A k \in 1..Len(t) : k \in 1..Len(s) \/ k = Len(s) + 1
  OBVIOUS
<1>3. 1..Len(s) \subseteq 1..Len(t)
  OBVIOUS
<1>4. ASSUME NEW x \in Of(t) PROVE x \in Of(s)
  <2>1. PICK k \in 1..Len(t) : x \in {k} \X (1..Results(t[k]))
    BY OfMember
  <2>2. k \in 1..Len(s) /\ t[k] = s[k]
    BY <1>1, <1>2, <2>1
  <2> QED BY <2>1, <2>2, OfMember
<1>5. ASSUME NEW x \in Of(s) PROVE x \in Of(t)
  <2>1. PICK k \in 1..Len(s) : x \in {k} \X (1..Results(s[k]))
    BY OfMember
  <2>2. k \in 1..Len(t) /\ t[k] = s[k]
    BY <1>3, <2>1
  <2> QED BY <2>1, <2>2, OfMember
<1> QED BY <1>4, <1>5

\* The last call holds one more.
LEMMA OfMore ==
    ASSUME NEW s, NEW t, NEW n \in Nat \ {0}, Len(s) = n, Len(t) = n,
           \A k \in 1..(n - 1) : t[k] = s[k],
           NEW r \in Nat, Results(s[n]) = r, Results(t[n]) = r + 1
    PROVE  Of(t) = Of(s) \cup {<<n, r + 1>>} /\ <<n, r + 1>> \notin Of(s)
<1>1. \A k \in 1..n : k \in 1..(n - 1) \/ k = n
  OBVIOUS
<1>2. n \in 1..n /\ n \notin 1..(n - 1) /\ 1..(n - 1) \subseteq 1..n
  OBVIOUS
<1>3. 1..(r + 1) = (1..r) \cup {r + 1} /\ r + 1 \notin 1..r
  OBVIOUS
<1>4. {n} \X (1..(r + 1)) = ({n} \X (1..r)) \cup {<<n, r + 1>>}
  BY <1>3
<1>5. ASSUME NEW x \in Of(t) PROVE x \in Of(s) \cup {<<n, r + 1>>}
  <2>1. PICK k \in 1..n : x \in {k} \X (1..Results(t[k]))
    BY OfMember
  <2>2. CASE k \in 1..(n - 1)
    BY <1>2, <2>1, <2>2, OfMember
  <2>3. CASE k = n
    <3>1. x \in ({n} \X (1..Results(s[n]))) \cup {<<n, r + 1>>}
      BY <1>4, <2>1, <2>3
    <3> QED BY <1>2, <3>1, OfMember
  <2> QED BY <1>1, <2>2, <2>3
<1>6. ASSUME NEW x \in Of(s) PROVE x \in Of(t)
  <2>1. PICK k \in 1..n : x \in {k} \X (1..Results(s[k]))
    BY OfMember
  <2>2. CASE k \in 1..(n - 1)
    BY <1>2, <2>1, <2>2, OfMember
  <2>3. CASE k = n
    <3>1. x \in {n} \X (1..Results(t[n]))
      BY <1>4, <2>1, <2>3
    <3> QED BY <1>2, <3>1, OfMember
  <2> QED BY <1>1, <2>2, <2>3
<1>7. <<n, r + 1>> \in Of(t)
  <2>1. <<n, r + 1>> \in {n} \X (1..Results(t[n]))
    BY <1>4
  <2> QED BY <1>2, <2>1, OfMember
<1>8. <<n, r + 1>> \notin Of(s)
  <2>1. SUFFICES ASSUME NEW k \in 1..n, <<n, r + 1>> \in {k} \X (1..Results(s[k]))
                 PROVE  FALSE
    BY OfMember
  <2>2. k = n
    BY <2>1
  <2> QED BY <1>3, <2>1, <2>2
<1> QED BY <1>5, <1>6, <1>7, <1>8

\* The last call is gone.
LEMMA OfLess ==
    ASSUME NEW s, NEW t, NEW n \in Nat \ {0}, Len(s) = n, Len(t) = n - 1,
           \A k \in 1..(n - 1) : t[k] = s[k]
    PROVE  /\ Of(t) = Of(s) \ ({n} \X (1..Results(s[n])))
           /\ {n} \X (1..Results(s[n])) \subseteq Of(s)
<1>1. \A k \in 1..n : k \in 1..(n - 1) \/ k = n
  OBVIOUS
<1>2. n \in 1..n /\ n \notin 1..(n - 1) /\ 1..(n - 1) \subseteq 1..n
  OBVIOUS
<1>3. {n} \X (1..Results(s[n])) \subseteq Of(s)
  BY <1>2, OfMember
<1>4. ASSUME NEW x \in Of(t) PROVE x \in Of(s) /\ x \notin {n} \X (1..Results(s[n]))
  <2>1. PICK k \in 1..(n - 1) : x \in {k} \X (1..Results(t[k]))
    BY OfMember
  <2>2. x \in Of(s)
    BY <1>2, <2>1, OfMember
  <2>3. x[1] = k /\ k # n
    BY <1>2, <2>1
  <2> QED BY <2>2, <2>3
<1>5. ASSUME NEW x \in Of(s), x \notin {n} \X (1..Results(s[n])) PROVE x \in Of(t)
  <2>1. PICK k \in 1..n : x \in {k} \X (1..Results(s[k]))
    BY OfMember
  <2>2. k \in 1..(n - 1)
    BY <1>1, <1>5, <2>1
  <2> QED BY <2>1, <2>2, OfMember
<1> QED BY <1>3, <1>4, <1>5

\* Values are made, folded and released so that each has an owner.
LEMMA ValuesKept ==
    ASSUME IInv, Leaf \/ Enter \/ GoesOn \/ Return \/ Stays
    PROVE  /\ EveryValueOwned' /\ IsFiniteSet(HeldResults)'
           /\ live' \in Int /\ rejected' \in Nat
<1>1. /\ CallsType /\ ErrorsType /\ live \in Int /\ rejected \in Nat
      /\ IsFiniteSet(HeldResults) /\ HeldResults = Of(stack)
      /\ live = Held + Given + rejected /\ Held = Cardinality(HeldResults)
  BY DEF IInv, Counters, EveryValueOwned, HeldResults, Of, Held, Given
<1>2. Held \in Nat
  BY <1>1, FS_CardinalityType
<1>3. Given \in {0, 1} /\ (out = {} => Given = 0)
  BY <1>1, OutFacts DEF CallsType
<1>4. ASSUME NEW k \in 1..Len(stack) PROVE Results(stack[k]) \in Nat
  <2>1. stack[k] \in Frames
    BY <1>1 DEF CallsType
  <2>2. stack[k].j \in Nat
    BY <2>1 DEF Frames
  <2> QED BY <2>2 DEF Results
<1>5. HeldResults' = Of(stack')
  BY DEF HeldResults, Of
<1>6. SUFFICES /\ IsFiniteSet(Of(stack'))
               /\ live' = Cardinality(Of(stack')) + Given' + rejected'
               /\ live' \in Int /\ rejected' \in Nat
  BY <1>5 DEF EveryValueOwned, Held, Given
<1>7. CASE Leaf
  <2>1. PICK ok, err : ok \in BOOLEAN /\ Answer(ok, err) /\ live' = IF ok THEN live + 1 ELSE live
    BY <1>7 DEF Leaf
  <2>2. Given' = (IF ok THEN 1 ELSE 0) /\ stack' = stack /\ rejected' = rejected /\ Given = 0
    BY <1>1, <1>3, <1>7, <2>1, AnswerType DEF Leaf, CallsType
  <2> QED BY <1>1, <1>2, <2>1, <2>2
<1>8. CASE Enter
  <2>1. PICK p \in todo, lit \in Seq(Chars) : Push(Frame(p, lit)) /\ out' = {}
    BY <1>8 DEF Enter
  <2>2. p \in Parsers /\ out = {}
    BY <1>1, TodoType
  <2>3. Frame(p, lit) \in Frames /\ Results(Frame(p, lit)) = 0
    BY <1>1, <2>2, FrameType DEF Results
  <2>4. /\ Len(stack') = Len(stack) + 1 /\ Len(stack) \in Nat
        /\ stack'[Len(stack) + 1] = Frame(p, lit)
        /\ \A k \in 1..Len(stack) : stack'[k] = stack[k]
    BY <1>1, <2>1, <2>3, PushFacts
  <2>5. Of(stack') = Of(stack)
    BY <2>3, <2>4, OfGrown
  <2>6. Given' = 0 /\ Given = 0 /\ live' = live /\ rejected' = rejected
    BY <1>3, <1>8, <2>1, <2>2, NoAnswer DEF Enter
  <2> QED BY <1>1, <1>2, <2>5, <2>6
<1>9. CASE GoesOn
  <2>1. PICK f \in Frames : Turn(f) /\ Results(f) = Results(Top) + Given
    BY <1>9 DEF GoesOn
  <2>2. /\ Len(stack') = Len(stack) /\ Len(stack) \in Nat \ {0}
        /\ stack'[Len(stack)] = f
        /\ \A k \in 1..(Len(stack) - 1) : stack'[k] = stack[k]
    BY <1>1, <1>9, <2>1, TurnFacts DEF GoesOn
  <2>3. Given' = 0 /\ live' = live /\ rejected' = rejected
    BY <1>9, NoAnswer DEF GoesOn
  <2>4. PICK r \in Nat : Results(stack[Len(stack)]) = r /\ Results(Top) = r
    BY <1>4, <2>2 DEF Top
  <2>5. CASE Given = 0
    <3>1. \A k \in 1..Len(stack) : Results(stack'[k]) = Results(stack[k])
      BY <2>1, <2>2, <2>4, <2>5
    <3>2. Of(stack') = Of(stack)
      BY <2>2, <3>1, OfSame
    <3> QED BY <1>1, <1>2, <2>3, <2>5, <3>2
  <2>6. CASE Given = 1
    <3>1. Results(stack'[Len(stack)]) = r + 1
      BY <2>1, <2>2, <2>4, <2>6
    <3>2. /\ Of(stack') = Of(stack) \cup {<<Len(stack), r + 1>>}
          /\ <<Len(stack), r + 1>> \notin Of(stack)
      BY <2>2, <2>4, <3>1, OfMore
    <3> DEFINE x == <<Len(stack), r + 1>>
    <3>3. x \notin Of(stack) /\ Of(stack') = Of(stack) \cup {x}
      BY <3>2
    <3> HIDE DEF x
    <3>4. IsFiniteSet(Of(stack)) /\ Cardinality(Of(stack)) \in Nat
      BY <1>1, FS_CardinalityType
    <3>5. /\ IsFiniteSet(Of(stack) \cup {x})
          /\ Cardinality(Of(stack) \cup {x}) = Cardinality(Of(stack)) + 1
      BY <3>3, <3>4, FS_AddElement
    <3>6. IsFiniteSet(Of(stack')) /\ Cardinality(Of(stack')) = Cardinality(Of(stack)) + 1
      BY <3>3, <3>5
    <3> QED BY <1>1, <1>2, <2>3, <2>6, <3>6
  <2> QED BY <1>3, <2>5, <2>6
<1>10. CASE Return
  <2>1. PICK ok, err : ok \in BOOLEAN /\ Answer(ok, err) /\ Balanced(ok)
    BY <1>10 DEF Return
  <2>2. /\ Len(stack') = Len(stack) - 1 /\ Len(stack) \in Nat \ {0}
        /\ \A k \in 1..(Len(stack) - 1) : stack'[k] = stack[k]
    BY <1>1, <1>10, PopFacts DEF Return
  <2>3. PICK r \in Nat : Results(stack[Len(stack)]) = r /\ Results(Top) = r
    BY <1>4, <2>2 DEF Top
  <2>4. /\ Of(stack') = Of(stack) \ ({Len(stack)} \X (1..r))
        /\ {Len(stack)} \X (1..r) \subseteq Of(stack)
    BY <2>2, <2>3, OfLess
  <2>5. Cardinality({Len(stack)} \X (1..r)) = r
    <3>1. IsFiniteSet(1..r) /\ Cardinality(1..r) = r
      BY FS_Interval
    <3>2. IsFiniteSet({Len(stack)}) /\ Cardinality({Len(stack)}) = 1
      BY FS_Singleton
    <3>3. Cardinality({Len(stack)} \X (1..r)) = 1 * r
      BY <3>1, <3>2, FS_Product, SMTT(20), ZenonT(40)
    <3> QED BY <3>3
  <2>6. IsFiniteSet(Of(stack')) /\ Cardinality(Of(stack')) = Cardinality(Of(stack)) - r
    <3>1. Of(stack) \cap ({Len(stack)} \X (1..r)) = {Len(stack)} \X (1..r)
      BY <2>4
    <3>2. /\ IsFiniteSet(Of(stack) \ ({Len(stack)} \X (1..r)))
          /\ Cardinality(Of(stack) \ ({Len(stack)} \X (1..r)))
                = Cardinality(Of(stack)) - Cardinality(Of(stack) \cap ({Len(stack)} \X (1..r)))
      BY <1>1, FS_Difference
    <3> QED BY <2>4, <2>5, <3>1, <3>2
  <2>7. Given' = (IF ok THEN 1 ELSE 0) /\ rejected' \in Nat
    BY <1>10, <2>1, AnswerType DEF Return
  <2>8. live' = live - r - Given + (IF ok THEN 1 ELSE 0) + (rejected' - rejected)
    BY <2>1, <2>3 DEF Balanced
  <2> QED BY <1>1, <1>2, <1>3, <2>6, <2>7, <2>8
<1>11. CASE Stays
  <2>1. stack' = stack /\ Given' = Given /\ live' = live /\ rejected' = rejected
    BY <1>11 DEF Stays, Given
  <2> QED BY <1>1, <2>1
<1> QED BY <1>7, <1>8, <1>9, <1>10, <1>11

----------------------------------------------------------------------------
(* The theorems *)

LEMMA InitInv == Init => IInv
<1> SUFFICES ASSUME Init PROVE IInv
  OBVIOUS
<1>1. /\ stack = <<>> /\ todo = {root} /\ root \in Parsers /\ out = {} /\ backtrack = 1
      /\ errs = 1 /\ suppress = 0 /\ live = 0 /\ rejected = 0
  BY ParsersAssumption DEF Init, In!NewInput
<1>2. Len(stack) = 0 /\ 1..Len(stack) = {}
  BY <1>1
<1>3. CallsType /\ StringsOnTop /\ ResultsFit
  BY <1>1, <1>2 DEF CallsType, StringsOnTop, ResultsFit
<1>4. Err = {} /\ {o \in out : o.ok} = {} /\ Quieting = {} /\ HeldResults = {}
  BY <1>1, <1>2 DEF Err, Quieting, HeldResults
<1>5. Cardinality({}) = 0 /\ IsFiniteSet({})
  BY FS_EmptySet
<1>6. ErrorsType
  BY <1>1, <1>4 DEF ErrorsType
<1>7. Counters
  BY <1>1, <1>4, <1>5 DEF Counters
<1>8. EveryValueOwned /\ EveryErrorOwned
  BY <1>1, <1>4, <1>5 DEF EveryValueOwned, EveryErrorOwned, Held
<1> QED BY <1>3, <1>6, <1>7, <1>8 DEF IInv

LEMMA NextInv == IInv /\ [Next]_vars => IInv'
<1> SUFFICES ASSUME IInv, [Next]_vars PROVE IInv'
  OBVIOUS
<1>1. Leaf \/ Enter \/ GoesOn \/ Return \/ Stays
  BY Steps
<1>2. Counters'
  BY <1>1, ErrorsKept, ValuesKept DEF Counters
<1> QED BY <1>1, <1>2, CallsKept, RoomKept, ErrorsKept, ValuesKept DEF IInv

LEMMA IInvHolds == Spec => []IInv
BY InitInv, NextInv, PTL DEF Spec

\* No value is lost or released twice, whatever parser is run on whatever text.
THEOREM ValuesOwned == Spec => []EveryValueOwned
<1>1. IInv => EveryValueOwned
  BY DEF IInv
<1> QED BY <1>1, IInvHolds, PTL

\* No error is lost or released twice, suppressed or not.
THEOREM ErrorsOwned == Spec => []EveryErrorOwned
<1>1. IInv => EveryErrorOwned
  BY DEF IInv
<1> QED BY <1>1, IInvHolds, PTL

\* A repetition has room for the next result, however many there are.
THEOREM RoomForResults == Spec => []ResultsFit
<1>1. IInv => ResultsFit
  BY DEF IInv
<1> QED BY <1>1, IInvHolds, PTL

----------------------------------------------------------------------------
(* A parser that runs keeps the protocol of the input: MpcRun implements MpcInput.  *)
(* What the calls owe the input *)

Marking == {"string", "not", "and"}
Owing   == Marking \cup {"predict"}
What(p) == IF p.type = "predict" THEN "predict" ELSE "mark"

\* MpcInput's lit.
Lit == IF stack # <<>> /\ Top.p.type = "string" THEN {Top.lit} ELSE {}

\* t is s with the obligation of p, if it has one.
Added(t, s, p) ==
    IF p.type \in Owing THEN \E o \in Obligation : o.what = What(p) /\ t = Append(s, o)
    ELSE t = s

Below(k) == IF k = 1 THEN <<>> ELSE stack[k - 1].open

\* A call owes what the calls above it owe, and its own.
Linked == \A k \in 1..Len(stack) : Added(stack[k].open, Below(k), stack[k].p)

PInv == IInv /\ Linked

LEMMA OwesAdds ==
    ASSUME CallsType, NEW p, NEW s \in Seq(Obligation)
    PROVE  /\ Added(s \o Owes(p), s, p)
           /\ p.type \in Owing => s \o Owes(p) = Append(s, [what |-> What(p), was |-> backtrack])
           /\ p.type \notin Owing => s \o Owes(p) = s
<1>1. ASSUME p.type \in Owing
      PROVE  s \o Owes(p) = Append(s, [what |-> What(p), was |-> backtrack])
  <2>1. Owes(p) = <<[what |-> What(p), was |-> backtrack]>>
    BY <1>1 DEF Owes, Owing, Marking, What
  <2>2. [what |-> What(p), was |-> backtrack] \in Obligation
    BY DEF What, Obligation, CallsType
  <2> HIDE DEF What
  <2> QED BY <2>1, <2>2
<1>2. ASSUME p.type \notin Owing PROVE s \o Owes(p) = s
  <2>1. Owes(p) = <<>>
    BY <1>2 DEF Owes, Owing, Marking
  <2> QED BY <2>1
<1>3. [what |-> What(p), was |-> backtrack] \in Obligation
  BY DEF What, Obligation, CallsType
<1> QED BY <1>1, <1>2, <1>3 DEF Added

\* The obligation added last.
LEMMA AddedLast ==
    ASSUME NEW s \in Seq(Obligation), NEW t \in Seq(Obligation), NEW p,
           p.type \in Owing, Added(t, s, p)
    PROVE  t # <<>> /\ t[Len(t)].what = What(p) /\ SubSeq(t, 1, Len(t) - 1) = s
<1>1. PICK o \in Obligation : o.what = What(p) /\ t = Append(s, o)
  BY DEF Added
<1>2. Len(t) = Len(s) + 1 /\ Len(s) \in Nat /\ t[Len(t)] = o
  BY <1>1
<1>3. t # <<>> /\ Len(t) - 1 = Len(s)
  BY <1>2
<1>4. SubSeq(t, 1, Len(t) - 1) = s
  <2> DEFINE u == SubSeq(t, 1, Len(t) - 1)
  <2>1. u \in Seq(Obligation) /\ Len(u) = Len(t) - 1 /\ \A k \in 1..(Len(t) - 1) : u[k] = t[k]
    BY <1>3, FrontFacts
  <2> HIDE DEF u
  <2>2. \A k \in 1..Len(s) : t[k] = s[k]
    BY <1>1
  <2>3. Len(u) = Len(s) /\ \A k \in 1..Len(s) : u[k] = s[k]
    BY <1>3, <2>1, <2>2
  <2>4. u = s
    BY <2>1, <2>3, SeqEqual
  <2> QED BY <2>4 DEF u
<1> QED BY <1>1, <1>2, <1>3, <1>4

LEMMA OpenType ==
    ASSUME CallsType
    PROVE  Open \in Seq(Obligation) /\ \A k \in 1..Len(stack) : Below(k) \in Seq(Obligation)
<1>1. \A k \in 1..Len(stack) : stack[k] \in Frames /\ stack[k].open \in Seq(Obligation)
  <2>1. \A k \in 1..Len(stack) : stack[k] \in Frames
    BY DEF CallsType
  <2> QED BY <2>1 DEF Frames
<1>2. ASSUME NEW k \in 1..Len(stack) PROVE Below(k) \in Seq(Obligation)
  <2>1. CASE k = 1
    BY <2>1 DEF Below
  <2>2. CASE k # 1
    <3>1. k - 1 \in 1..Len(stack)
      BY <2>2 DEF CallsType
    <3> QED BY <1>1, <2>2, <3>1 DEF Below
  <2> QED BY <2>1, <2>2
<1>3. Open \in Seq(Obligation)
  <2>1. CASE stack = <<>>
    BY <2>1 DEF Open
  <2>2. CASE stack # <<>>
    BY <1>1, <2>2, TopType DEF Open, Top
  <2> QED BY <2>1, <2>2
<1> QED BY <1>2, <1>3

----------------------------------------------------------------------------
(* A call that begins, goes on and returns *)

\* A call that begins takes on the obligation of its parser.
LEMMA PushOpens ==
    ASSUME PInv, NEW p \in Parsers, NEW lit \in Seq(Chars), Push(Frame(p, lit))
    PROVE  /\ Linked'
           /\ p.type \in Owing => In!Push(What(p))
           /\ p.type \notin Owing => Open' = Open
           /\ Lit' = IF p.type = "string" THEN {lit} ELSE {}
<1>1. CallsType /\ Linked
  BY DEF PInv, IInv
<1>2. /\ Frame(p, lit) \in Frames /\ Frame(p, lit).p = p /\ Frame(p, lit).lit = lit
      /\ Frame(p, lit).open = Open \o Owes(p)
  BY <1>1, FrameType
<1>3. /\ stack' \in Seq(Frames) /\ Len(stack') = Len(stack) + 1 /\ Len(stack) \in Nat
      /\ stack'[Len(stack) + 1] = Frame(p, lit)
      /\ \A k \in 1..Len(stack) : stack'[k] = stack[k]
  BY <1>1, <1>2, PushFacts
<1>4. stack' # <<>> /\ Top' = Frame(p, lit)
  BY <1>3 DEF Top
<1>5. Open' = Open \o Owes(p) /\ Lit' = IF p.type = "string" THEN {lit} ELSE {}
  BY <1>2, <1>4 DEF Open, Lit
<1>6. /\ Added(Open', Open, p)
      /\ p.type \in Owing => Open' = Append(Open, [what |-> What(p), was |-> backtrack])
      /\ p.type \notin Owing => Open' = Open
  <2>1. Open \in Seq(Obligation)
    BY <1>1, OpenType
  <2> QED BY <1>1, <1>5, <2>1, OwesAdds
<1>7. ASSUME p.type \in Owing PROVE Len(Open) < MaxOpen
  <2>1. Len(Open') <= MaxOpen
    BY <1>2, <1>5 DEF Push
  <2>2. Open \in Seq(Obligation)
    BY <1>1, OpenType
  <2>3. PICK o \in Obligation : Open' = Append(Open, o)
    BY <1>6, <1>7 DEF Added
  <2>4. Len(Open') = Len(Open) + 1 /\ Len(Open) \in Nat
    BY <2>2, <2>3
  <2> QED BY <2>1, <2>4, MarksAssumption
<1>8. Linked'
  <2>1. SUFFICES ASSUME NEW k \in 1..(Len(stack) + 1)
                 PROVE  Added(stack'[k].open, IF k = 1 THEN <<>> ELSE stack'[k - 1].open,
                              stack'[k].p)
    BY <1>3 DEF Linked, Below
  <2>2. CASE k \in 1..Len(stack)
    <3>1. k # 1 => k - 1 \in 1..Len(stack)
      BY <1>3, <2>2
    <3>2. /\ stack'[k] = stack[k]
          /\ (IF k = 1 THEN <<>> ELSE stack'[k - 1].open) = Below(k)
      BY <1>3, <2>2, <3>1 DEF Below
    <3> QED BY <1>1, <2>2, <3>2 DEF Linked
  <2>3. CASE k = Len(stack) + 1
    <3>1. (IF k = 1 THEN <<>> ELSE stack'[k - 1].open) = Open
      <4>1. CASE stack = <<>>
        BY <2>3, <4>1 DEF Open
      <4>2. CASE stack # <<>>
        <5>1. Len(stack) \in 1..Len(stack) /\ k # 1 /\ k - 1 = Len(stack)
          BY <1>1, <2>3, <4>2, TopType
        <5>2. stack'[k - 1] = Top
          BY <1>3, <5>1 DEF Top
        <5> QED BY <4>2, <5>1, <5>2 DEF Open
      <4> QED BY <4>1, <4>2
    <3>2. stack'[k].open = Open' /\ stack'[k].p = p
      BY <1>2, <1>3, <1>5, <2>3
    <3> QED BY <1>6, <3>1, <3>2
  <2> QED BY <1>3, <2>2, <2>3
<1> QED BY <1>5, <1>6, <1>7, <1>8 DEF In!Push

\* A call that goes on owes the same.
LEMMA TurnOpens ==
    ASSUME PInv, stack # <<>>, NEW f \in Frames, Turn(f), f.p = Top.p, f.open = Top.open
    PROVE  /\ Linked' /\ Open' = Open
           /\ Lit' = IF Top.p.type = "string" THEN {f.lit} ELSE {}
<1>1. CallsType /\ Linked
  BY DEF PInv, IInv
<1>2. /\ Len(stack') = Len(stack) /\ Len(stack) \in Nat \ {0}
      /\ stack'[Len(stack)] = f
      /\ \A k \in 1..(Len(stack) - 1) : stack'[k] = stack[k]
  BY <1>1, TurnFacts
<1>3. stack' # <<>> /\ Top' = f
  BY <1>2 DEF Top
<1>4. \A k \in 1..Len(stack) : stack'[k].p = stack[k].p /\ stack'[k].open = stack[k].open
  <2>1. \A k \in 1..Len(stack) : k \in 1..(Len(stack) - 1) \/ k = Len(stack)
    BY <1>2
  <2> QED BY <1>2, <2>1 DEF Top
<1>5. SUFFICES Linked'
  BY <1>3 DEF Open, Lit
<1>6. SUFFICES ASSUME NEW k \in 1..Len(stack)
               PROVE  Added(stack'[k].open, IF k = 1 THEN <<>> ELSE stack'[k - 1].open,
                            stack'[k].p)
  BY <1>2 DEF Linked, Below
<1>7. k # 1 => k - 1 \in 1..Len(stack)
  BY <1>2
<1>8. (IF k = 1 THEN <<>> ELSE stack'[k - 1].open) = Below(k)
  BY <1>4, <1>7 DEF Below
<1> QED BY <1>1, <1>4, <1>8 DEF Linked

\* A call that returns has met its obligation.
LEMMA PopOpens ==
    ASSUME PInv, stack # <<>>, Pop
    PROVE  /\ Linked' /\ Lit' = {}
           /\ Top.p.type \in Owing => In!Pop(What(Top.p))
           /\ Top.p.type \notin Owing => Open' = Open
<1>1. CallsType /\ Linked /\ StringsOnTop
  BY DEF PInv, IInv
<1>2. /\ Len(stack') = Len(stack) - 1 /\ Len(stack) \in Nat \ {0}
      /\ stack' \in Seq(Frames)
      /\ \A k \in 1..(Len(stack) - 1) : stack'[k] = stack[k]
  BY <1>1, PopFacts
<1>3. Linked'
  <2>1. SUFFICES ASSUME NEW k \in 1..(Len(stack) - 1)
                 PROVE  Added(stack'[k].open, IF k = 1 THEN <<>> ELSE stack'[k - 1].open,
                              stack'[k].p)
    BY <1>2 DEF Linked, Below
  <2>2. k \in 1..Len(stack) /\ (k # 1 => k - 1 \in 1..(Len(stack) - 1))
    BY <1>2
  <2>3. (IF k = 1 THEN <<>> ELSE stack'[k - 1].open) = Below(k) /\ stack'[k] = stack[k]
    BY <1>2, <2>2 DEF Below
  <2> QED BY <1>1, <2>2, <2>3 DEF Linked
<1>4. Open' = Below(Len(stack)) /\ Lit' = {}
  <2>1. CASE Len(stack) = 1
    <3>1. stack' = <<>>
      BY <1>2, <2>1
    <3> QED BY <2>1, <3>1 DEF Open, Below, Lit
  <2>2. CASE Len(stack) # 1
    <3>1. Len(stack) - 1 \in 1..(Len(stack) - 1) /\ Len(stack) - 1 # Len(stack)
      BY <1>2, <2>2
    <3>2. stack' # <<>> /\ Top' = stack[Len(stack) - 1]
      BY <1>2, <3>1 DEF Top
    <3>3. stack[Len(stack) - 1].p.type # "string"
      BY <1>1, <1>2, <3>1 DEF StringsOnTop
    <3> QED BY <2>2, <3>2, <3>3 DEF Open, Below, Lit
  <2> QED BY <2>1, <2>2
<1>5. Added(Open, Open', Top.p)
  <2>1. Len(stack) \in 1..Len(stack)
    BY <1>2
  <2> QED BY <1>1, <1>4, <2>1 DEF Linked, Open, Top
<1>6. Open \in Seq(Obligation) /\ Open' \in Seq(Obligation)
  <2>1. Len(stack) \in 1..Len(stack)
    BY <1>2
  <2> QED BY <1>1, <1>4, <2>1, OpenType
<1>7. ASSUME Top.p.type \in Owing PROVE In!Pop(What(Top.p))
  BY <1>5, <1>6, <1>7, AddedLast DEF In!Pop
<1>8. ASSUME Top.p.type \notin Owing PROVE Open' = Open
  BY <1>5, <1>8 DEF Added
<1> QED BY <1>3, <1>4, <1>7, <1>8

LEMMA LinkedKept ==
    ASSUME PInv, Leaf \/ Enter \/ GoesOn \/ Return \/ Stays
    PROVE  Linked'
<1>1. CallsType /\ Linked
  BY DEF PInv, IInv
<1>2. CASE Leaf \/ Stays
  BY <1>1, <1>2 DEF Leaf, Stays, Linked, Below
<1>3. CASE Enter
  <2>1. PICK p \in todo, lit \in Seq(Chars) : Push(Frame(p, lit))
    BY <1>3 DEF Enter
  <2>2. p \in Parsers
    BY <1>1, TodoType
  <2> QED BY <2>1, <2>2, PushOpens
<1>4. CASE GoesOn
  BY <1>4, TurnOpens DEF GoesOn
<1>5. CASE Return
  BY <1>5, PopOpens DEF Return
<1> QED BY <1>2, <1>3, <1>4, <1>5

----------------------------------------------------------------------------
(* Each step is one of the input's caller, or none *)

Same == UNCHANGED <<Open, Lit>>

\* Steps of the caller that is the parser.
LEMMA CallerSteps ==
    /\ UNCHANGED input /\ Same => UNCHANGED In!vars
    /\ Lit = {} /\ In!Accept /\ Same => In!Next
    /\ Lit = {} /\ In!Eoi /\ Same => In!Next
    /\ Lit = {} /\ Lit' = {} /\ In!Mark /\ In!Push("mark") => In!Next
    /\ Lit = {} /\ Lit' = {} /\ In!Pop("mark") /\ In!Unmark => In!Next
    /\ Lit = {} /\ Lit' = {} /\ In!Pop("mark") /\ In!Rewind => In!Next
    /\ Lit = {} /\ Lit' = {} /\ In!Push("predict") /\ In!Backtracking(-1) => In!Next
    /\ Lit = {} /\ Lit' = {} /\ In!Pop("predict") /\ In!Backtracking(1) => In!Next
<1>1. UNCHANGED input /\ Same => UNCHANGED In!vars
  BY DEF Same, input, In!vars, In!input, Lit
<1>2. Lit = {} /\ In!Accept /\ Same => In!Next
  BY DEF Same, Lit, In!Read, In!Next
<1>3. Lit = {} /\ In!Eoi /\ Same => In!Next
  BY DEF Same, Lit, In!ReadEnd, In!Next
<1>4. Lit = {} /\ Lit' = {} /\ In!Mark /\ In!Push("mark") => In!Next
  BY DEF Lit, In!OpenMark, In!Next
<1>5. Lit = {} /\ Lit' = {} /\ In!Pop("mark") /\ In!Unmark => In!Next
  BY DEF Lit, In!CloseMark, In!Next
<1>6. Lit = {} /\ Lit' = {} /\ In!Pop("mark") /\ In!Rewind => In!Next
  BY DEF Lit, In!BackToMark, In!Next
<1>7. Lit = {} /\ Lit' = {} /\ In!Push("predict") /\ In!Backtracking(-1) => In!Next
  BY DEF Lit, In!BacktrackDisable, In!Next
<1>8. Lit = {} /\ Lit' = {} /\ In!Pop("predict") /\ In!Backtracking(1) => In!Next
  BY DEF Lit, In!BacktrackEnable, In!Next
<1> QED BY <1>1, <1>2, <1>3, <1>4, <1>5, <1>6, <1>7, <1>8

\* While mpc_string is not under way there is nothing to match.
LEMMA NoLit ==
    ASSUME PInv, todo # {} \/ out # {}
    PROVE  Lit = {} /\ (stack # <<>> => Top.p.type # "string")
<1>1. CallsType /\ StringsOnTop
  BY DEF PInv, IInv
<1>2. CASE stack = <<>>
  BY <1>2 DEF Lit
<1>3. CASE stack # <<>>
  BY <1>1, <1>3, TopType DEF Lit, Top, StringsOnTop
<1> QED BY <1>2, <1>3

LEMMA LeavesImplement ==
    ASSUME PInv, RunOne \/ RunAnchor \/ RunEoi \/ RunPass \/ RunFail
    PROVE  In!Next \/ UNCHANGED In!vars
<1>1. stack' = stack /\ todo # {}
  BY DEF RunOne, RunAnchor, RunEoi, RunPass, RunFail
<1>2. Same /\ Lit = {}
  BY <1>1, NoLit DEF Same, Open, Lit, Top
<1>3. UNCHANGED input \/ In!Accept \/ In!Eoi
  BY DEF RunOne, RunAnchor, RunEoi, RunPass, RunFail
<1> QED BY <1>2, <1>3, CallerSteps

LEMMA StringsImplement ==
    ASSUME PInv, StringBegin \/ StringChar \/ StringFails \/ StringDone
    PROVE  In!Next
<1>1. CallsType
  BY DEF PInv, IInv
<1>2. CASE StringBegin
  <2>1. PICK p \in todo : p.type = "string" /\ Push(Frame(p, p.w))
    BY <1>2 DEF StringBegin
  <2>2. p \in Parsers /\ p.w \in Literals /\ p.w \in Seq(Chars)
    BY <1>1, <2>1, TodoType, ParsersAssumption, TextsAssumption
  <2>3. In!Push("mark") /\ Lit' = {p.w} /\ Lit = {}
    BY <2>1, <2>2, PushOpens, NoLit DEF Owing, Marking, What
  <2>4. In!StringBegin
    BY <1>2, <2>2, <2>3 DEF StringBegin, Lit, In!StringBegin
  <2> QED BY <2>4 DEF In!Next
<1>3. CASE StringChar
  <2>1. /\ stack # <<>> /\ Top.p.type = "string" /\ Top.lit # <<>> /\ In!Accept
        /\ In!Peek = Head(Top.lit) /\ Turn([Top EXCEPT !.lit = Tail(@)])
    BY <1>3 DEF StringChar, InString
  <2>2. Top.lit \in Seq(Chars)
    BY <1>1, <2>1, TopType DEF Frames
  <2>3. Tail(Top.lit) \in Seq(Chars)
    BY <2>1, <2>2
  <2> DEFINE f == [Top EXCEPT !.lit = Tail(Top.lit)]
  <2>4. f \in Frames /\ f.p = Top.p /\ f.open = Top.open
    BY <1>1, <2>1, <2>3, TurnedType
  <2>5. f.lit = Tail(Top.lit)
    BY <1>1, <2>1, TopType DEF Frames
  <2>6. Turn(f)
    BY <2>1
  <2> HIDE DEF f
  <2>7. Open' = Open /\ Lit' = {Tail(Top.lit)} /\ Lit = {Top.lit}
    BY <2>1, <2>4, <2>5, <2>6, TurnOpens DEF Lit
  <2>8. In!StringChar
    BY <2>1, <2>7 DEF Lit, In!StringChar
  <2> QED BY <2>8 DEF In!Next
<1>4. CASE StringFails
  <2>1. /\ stack # <<>> /\ Top.p.type = "string" /\ Top.lit # <<>> /\ In!Rewind /\ Pop
        /\ In!Peek # Head(Top.lit)
    BY <1>4 DEF StringFails, InString
  <2>2. In!Pop("mark") /\ Lit' = {} /\ Lit = {Top.lit}
    BY <2>1, PopOpens DEF Owing, Marking, What, Lit
  <2>3. In!StringFails
    BY <2>1, <2>2 DEF Lit, In!StringFails
  <2> QED BY <2>3 DEF In!Next
<1>5. CASE StringDone
  <2>1. stack # <<>> /\ Top.p.type = "string" /\ Top.lit = <<>> /\ In!Unmark /\ Pop
    BY <1>5 DEF StringDone, InString
  <2>2. In!Pop("mark") /\ Lit' = {} /\ Lit = {<<>>}
    BY <2>1, PopOpens DEF Owing, Marking, What, Lit
  <2>3. In!StringDone
    BY <2>1, <2>2 DEF Lit, In!StringDone
  <2> QED BY <2>3 DEF In!Next
<1> QED BY <1>2, <1>3, <1>4, <1>5

LEMMA BeginImplements ==
    ASSUME PInv, Begin
    PROVE  In!Next \/ UNCHANGED In!vars
<1>1. CallsType
  BY DEF PInv, IInv
<1>2. PICK p \in todo :
        /\ Push(Frame(p, <<>>)) /\ p.type # "string"
        /\ \/ p.type \notin Owing /\ UNCHANGED input
           \/ p.type = "predict" /\ In!Backtracking(-1)
           \/ p.type \in {"not", "and"} /\ In!Mark
  BY DEF Begin, Owing, Marking
<1>3. p \in Parsers /\ <<>> \in Seq(Chars)
  BY <1>1, TodoType
<1>4. Lit = {} /\ Lit' = {}
  BY <1>2, <1>3, PushOpens, NoLit
<1>5. CASE p.type \notin Owing /\ UNCHANGED input
  BY <1>2, <1>3, <1>4, <1>5, PushOpens, CallerSteps DEF Same
<1>6. CASE p.type = "predict" /\ In!Backtracking(-1)
  <2>1. In!Push("predict")
    BY <1>2, <1>3, <1>6, PushOpens DEF Owing, What
  <2> QED BY <1>4, <1>6, <2>1, CallerSteps
<1>7. CASE p.type \in {"not", "and"} /\ In!Mark
  <2>1. In!Push("mark")
    BY <1>2, <1>3, <1>7, PushOpens DEF Owing, Marking, What
  <2> QED BY <1>4, <1>7, <2>1, CallerSteps
<1> QED BY <1>2, <1>5, <1>6, <1>7

\* A step that goes on leaves the input alone.
LEMMA GoOnImplements ==
    ASSUME PInv, \/ ManyMore \/ CountMore \/ AndNext
                 \/ OrNext /\ Top.j + 1 < Len(Top.p.xs)
    PROVE  UNCHANGED In!vars
<1>1. UNCHANGED input /\ stack # <<>> /\ out # {}
  BY DEF ManyMore, CountMore, AndNext, OrNext, Succeeded, Failed
<1>2. GoesOn
  BY GoOnSteps DEF PInv
<1>3. PICK f \in Frames : Turn(f) /\ f.p = Top.p /\ f.open = Top.open
  BY <1>2 DEF GoesOn
<1>4. Open' = Open /\ Lit = {} /\ Lit' = {}
  BY <1>1, <1>3, NoLit, TurnOpens
<1> QED BY <1>1, <1>4, CallerSteps DEF Same

\* A call that returns closes its mark, or ends its predictive stretch.
LEMMA ReturnsImplement ==
    ASSUME PInv, \/ HandOn \/ HandOnFailure \/ CheckPasses \/ CheckFails
                 \/ ExpectFails \/ NotFails \/ NotSucceeds \/ MaybeNot
                 \/ ManyEnds \/ Many1Fails \/ CountDone \/ CountFails
                 \/ OrDone \/ AndDone \/ AndFails
                 \/ OrNext /\ ~(Top.j + 1 < Len(Top.p.xs))
    PROVE  In!Next \/ UNCHANGED In!vars
<1>1. /\ stack # <<>> /\ out # {} /\ Pop
      /\ \/ Top.p.type = "predict" /\ In!Backtracking(1)
         \/ Top.p.type \in {"not", "and"} /\ (In!Unmark \/ In!Rewind)
         \/ Top.p.type \notin Owing /\ UNCHANGED input
  <2>1. CASE HandOn \/ HandOnFailure
    BY <2>1 DEF HandOn, HandOnFailure, Succeeded, Failed, Owing, Marking
  <2>2. CASE CheckPasses \/ CheckFails \/ ExpectFails
    BY <2>2 DEF CheckPasses, CheckFails, ExpectFails, Succeeded, Failed, Owing, Marking
  <2>3. CASE NotFails \/ NotSucceeds \/ AndDone \/ AndFails
    BY <2>3 DEF NotFails, NotSucceeds, AndDone, AndFails, Succeeded, Failed
  <2>4. CASE MaybeNot \/ ManyEnds \/ Many1Fails
    BY <2>4 DEF MaybeNot, ManyEnds, Many1Fails, Succeeded, Failed, Owing, Marking
  <2>5. CASE CountDone \/ CountFails \/ OrDone
    BY <2>5 DEF CountDone, CountFails, OrDone, Succeeded, Failed, Owing, Marking
  <2>6. CASE OrNext /\ ~(Top.j + 1 < Len(Top.p.xs))
    BY <2>6 DEF OrNext, Failed, Owing, Marking
  <2> QED BY <2>1, <2>2, <2>3, <2>4, <2>5, <2>6
<1>2. /\ Lit = {} /\ Lit' = {}
      /\ Top.p.type \in Owing => In!Pop(What(Top.p))
      /\ Top.p.type \notin Owing => Open' = Open
  BY <1>1, NoLit, PopOpens
<1>3. CASE Top.p.type = "predict" /\ In!Backtracking(1)
  <2>1. In!Pop("predict")
    BY <1>2, <1>3 DEF Owing, What
  <2> QED BY <1>2, <1>3, <2>1, CallerSteps
<1>4. CASE Top.p.type \in {"not", "and"} /\ (In!Unmark \/ In!Rewind)
  <2>1. In!Pop("mark")
    BY <1>2, <1>4 DEF Owing, Marking, What
  <2> QED BY <1>2, <1>4, <2>1, CallerSteps
<1>5. CASE Top.p.type \notin Owing /\ UNCHANGED input
  BY <1>2, <1>5, CallerSteps DEF Same
<1> QED BY <1>1, <1>3, <1>4, <1>5

LEMMA StepsImplement == PInv /\ [Next]_vars => [In!Next]_(In!vars)
<1> SUFFICES ASSUME PInv, [Next]_vars PROVE In!Next \/ UNCHANGED In!vars
  OBVIOUS
<1>1. CASE RunOne \/ RunAnchor \/ RunEoi \/ RunPass \/ RunFail
  BY <1>1, LeavesImplement
<1>2. CASE StringBegin \/ StringChar \/ StringFails \/ StringDone
  BY <1>2, StringsImplement
<1>3. CASE Begin
  BY <1>3, BeginImplements
<1>4. CASE ManyMore \/ CountMore \/ AndNext
  BY <1>4, GoOnImplements
<1>5. CASE OrNext
  BY <1>5, GoOnImplements, ReturnsImplement
<1>6. CASE \/ HandOn \/ HandOnFailure \/ CheckPasses \/ CheckFails
           \/ ExpectFails \/ NotFails \/ NotSucceeds \/ MaybeNot
           \/ ManyEnds \/ Many1Fails \/ CountDone \/ CountFails
           \/ OrDone \/ AndDone \/ AndFails
  BY <1>6, ReturnsImplement
<1>7. CASE UNCHANGED vars
  BY <1>7 DEF vars, input, In!vars, In!input, Open, Top
<1> QED BY <1>1, <1>2, <1>3, <1>4, <1>5, <1>6, <1>7, Zenon DEF Next

LEMMA PInvInit == Init => PInv /\ In!Init
<1> SUFFICES ASSUME Init PROVE PInv /\ In!Init
  OBVIOUS
<1>1. stack = <<>> /\ Len(stack) = 0
  BY DEF Init
<1>2. Linked
  BY <1>1 DEF Linked
<1>3. In!Init
  BY <1>1 DEF Init, In!Init, Open
<1> QED BY <1>2, <1>3, InitInv DEF PInv

LEMMA PInvNext == PInv /\ [Next]_vars => PInv'
<1> SUFFICES ASSUME PInv, [Next]_vars PROVE PInv'
  OBVIOUS
<1>1. Leaf \/ Enter \/ GoesOn \/ Return \/ Stays
  BY Steps DEF PInv
<1> QED BY <1>1, LinkedKept, NextInv DEF PInv

\* Whatever parser is run on whatever text, the marks it takes are closed in order, those
\* of mpc_string too, and it turns backtracking off and on in properly nested stretches.
\* MpcInputProofs is about every caller that does.
THEOREM KeepsProtocol == Spec => KeepsInputProtocol
BY PInvInit, PInvNext, StepsImplement, PTL DEF Spec, KeepsInputProtocol, In!Spec

----------------------------------------------------------------------------
(* The input is in its text: what MpcInputProofs proves of every caller is true of *)
(* this one.                                                                       *)

InP == INSTANCE MpcInputProofs WITH
    open <- Open,
    lit  <- IF stack # <<>> /\ Top.p.type = "string" THEN {Top.lit} ELSE {}

InText == text \in Seq(Chars) /\ at.pos \in Nat /\ at.pos <= Len(text)

LEMMA ParsesTheInput == Spec => InP!Spec
<1>1. In!Init => InP!Init
  BY DEF In!Init, InP!Init, In!NewInput, InP!NewInput, In!Start, InP!Start
<1>2. [In!Next]_(In!vars) => [InP!Next]_(InP!vars)
  BY Zenon DEF In!Accept, InP!Accept, In!Backtracking, InP!Backtracking,
               In!BackToMark, InP!BackToMark,
               In!BacktrackDisable, InP!BacktrackDisable,
               In!BacktrackEnable, InP!BacktrackEnable, In!Buffering, InP!Buffering,
               In!CharAt, InP!CharAt, In!CloseMark, InP!CloseMark,
               In!DropMark, InP!DropMark, In!Eoi, InP!Eoi, In!InBuffer, InP!InBuffer,
               In!Mark, InP!Mark, In!Next, InP!Next, In!OpenMark, InP!OpenMark,
               In!Past, InP!Past, In!Peek, InP!Peek, In!Pop, InP!Pop,
               In!Push, InP!Push, In!Read, InP!Read, In!ReadEnd, InP!ReadEnd,
               In!Rewind, InP!Rewind, In!StringBegin, InP!StringBegin,
               In!StringChar, InP!StringChar, In!StringDone, InP!StringDone,
               In!StringFails, InP!StringFails, In!Terminated, InP!Terminated,
               In!Unmark, InP!Unmark, In!input, InP!input, In!vars, InP!vars
<1> QED BY <1>1, <1>2, KeepsProtocol, PTL DEF KeepsInputProtocol, In!Spec, InP!Spec

LEMMA InTextHolds == Spec => []InText
<1>1. InP!InText => InText
  BY DEF InP!InText, InText
<1> QED BY <1>1, ParsesTheInput, InP!InTextHolds, CharsAssumption, TextsAssumption,
           KindsAssumption, MarksAssumption, PTL

\* What is true of the input of every caller that keeps to the protocol is true of the one
\* of a parse: its arrays of marks have room, each unmark and each rewind is for the mark
\* it was meant for, the place is the text's, and it moves on only while backtracking is off.
THEOREM ParsesReadTheText ==
    Spec => [](In!MarksFit /\ In!MarksPaired /\ In!ReadsTheText) /\ In!PredictiveMovesOn
<1>1. InP!MarksFit => In!MarksFit
  BY DEF InP!MarksFit, In!MarksFit
<1>2. InP!MarksPaired => In!MarksPaired
  BY DEF InP!MarksPaired, In!MarksPaired
<1>3. InP!ReadsTheText => In!ReadsTheText
  <2>1. \A S : InP!Cardinality(S) = In!Cardinality(S)
    BY Zenon DEF InP!Cardinality, In!Cardinality
  <2>2. \A k : InP!Lines(k) = In!Lines(k)
    BY DEF InP!Lines, In!Lines
  <2>3. \A p : InP!RightPlace(p) = In!RightPlace(p)
    BY <2>1, <2>2, Zenon DEF InP!RightPlace, In!RightPlace
  <2> QED BY <2>3 DEF InP!ReadsTheText, In!ReadsTheText, InP!InTheText, In!InTheText
<1>4. [backtrack < 1 => at'.pos >= at.pos]_(InP!vars) => [backtrack < 1 => at'.pos >= at.pos]_(In!vars)
  BY DEF InP!vars, In!vars, InP!input, In!input
<1> QED BY <1>1, <1>2, <1>3, <1>4, InP!PredictiveForward, ParsesTheInput, InP!MarksHaveRoom, InP!MarksAreTheCallers,
           InP!StringsAndFilesAreRead, CharsAssumption, TextsAssumption, KindsAssumption,
           MarksAssumption, PTL DEF InP!PredictiveMovesOn, In!PredictiveMovesOn

----------------------------------------------------------------------------
(* What is known of the errors *)

\* An error that says something of a place in the text, or of none.
RightError(e) == e.pos \in NoPlace..Len(text) /\ e.fails \cup e.expects # {}

ErrorsKnown ==
    /\ RightError(far) /\ RightError(tried) /\ \A e \in Err : RightError(e)
    /\ FurthestErrorKept

\* What a step does to the errors: it leaves them, puts a prefix to the part's, makes one,
\* or puts the part's together with the furthest.
ErrorsLeft     == far' = far /\ tried' = tried /\ Err' = Err
ErrorsPrefixed == far' = far /\ tried' = tried /\ \E prefix : Err' = Repeated(prefix, Err)
ErrorMade ==
    /\ far' = far /\ Err = {}
    /\ \E e : RightError(e) /\ Err' = {e} /\ tried' = Record(tried, e)
ErrorsMerged   == far' = Merge(far, Err) /\ tried' = tried /\ Err' = {}

\* The error that mpc_err_or makes tells what there is to tell of both.
LEMMA TogetherTells ==
    ASSUME NEW x, NEW t, NEW e, x.pos \in Int, e.pos \in Int, Tells(x, t)
    PROVE  Tells(Together(x, e), Record(t, e))
<1>1. x.pos = t.pos
  BY DEF Tells
<1>2. CASE x.pos > e.pos
  BY <1>1, <1>2 DEF Tells, Together, Record
<1>3. CASE x.pos < e.pos
  <2>1. Together(x, e) = e /\ Record(t, e) = e
    BY <1>1, <1>3 DEF Together, Record
  <2> QED BY <2>1 DEF Tells
<1>4. CASE x.pos = e.pos /\ x.fails # {}
  <2>1. Together(x, e) = x /\ t.fails # {} /\ x.fails \subseteq t.fails
    BY <1>4 DEF Together, Tells
  <2>2. Record(t, e).pos = t.pos /\ Record(t, e).fails = t.fails \cup e.fails
    BY <1>1, <1>4 DEF Record, Error
  <2> QED BY <1>1, <1>4, <2>1, <2>2 DEF Tells
<1>5. CASE x.pos = e.pos /\ x.fails = {}
  <2>1. t.fails = {} /\ Messages(x.expects) = Messages(t.expects)
    BY <1>5 DEF Tells
  <2>2. /\ Record(t, e).pos = t.pos /\ Record(t, e).fails = e.fails
        /\ Record(t, e).expects = t.expects \cup e.expects
    BY <1>1, <1>5, <2>1 DEF Record, Error
  <2>3. CASE e.fails # {}
    <3>1. Together(x, e) = e
      BY <1>5, <2>3 DEF Together
    <3> QED BY <1>1, <1>5, <2>2, <2>3, <3>1 DEF Tells
  <2>4. CASE e.fails = {}
    <3>1. Together(x, e) = Error(x.pos, {}, x.expects \cup e.expects)
      BY <1>5, <2>4 DEF Together
    <3>2. Messages(x.expects \cup e.expects) = Messages(t.expects \cup e.expects)
      BY <2>1 DEF Messages
    <3> QED BY <1>1, <2>2, <2>4, <3>1, <3>2 DEF Tells, Error
  <2> QED BY <2>3, <2>4
<1> QED BY <1>2, <1>3, <1>4, <1>5

\* A prefix to the expectations of an error takes none of their messages away.
LEMMA PrefixTells ==
    ASSUME NEW x, NEW t, NEW e, NEW prefix, e.fails = {}, Tells(Together(x, e), t)
    PROVE  Tells(Together(x, Error(e.pos, {}, {<<prefix, Messages(e.expects)>>})), t)
<1> DEFINE r == Error(e.pos, {}, {<<prefix, Messages(e.expects)>>})
<1>1. r.pos = e.pos /\ r.fails = {} /\ Messages(r.expects) = Messages(e.expects)
  BY DEF Error, Messages
<1>2. Messages(x.expects \cup r.expects) = Messages(x.expects \cup e.expects)
  <2>1. /\ Messages(x.expects \cup r.expects) = Messages(x.expects) \cup Messages(r.expects)
        /\ Messages(x.expects \cup e.expects) = Messages(x.expects) \cup Messages(e.expects)
    <3> HIDE DEF r
    <3> QED BY DEF Messages
  <2> HIDE DEF r
  <2> QED BY <1>1, <2>1
<1> HIDE DEF r
<1>3. /\ Together(x, r).pos = Together(x, e).pos
      /\ Together(x, r).fails = Together(x, e).fails
      /\ Messages(Together(x, r).expects) = Messages(Together(x, e).expects)
  BY <1>1, <1>2 DEF Together, Error
<1> QED BY <1>3 DEF Tells, r

\* What is put together says as much as its parts.
LEMMA TogetherRight ==
    ASSUME NEW x, NEW e, RightError(x), RightError(e)
    PROVE  RightError(Together(x, e))
<1>1. Together(x, e) \in {x, e} \/ Together(x, e) = Error(x.pos, {}, x.expects \cup e.expects)
  BY DEF Together
<1>2. x.fails = {} => RightError(Error(x.pos, {}, x.expects \cup e.expects))
  BY DEF RightError, Error
<1> QED BY <1>1, <1>2 DEF Together, RightError

\* A new error is at a place of the input.
LEMMA NewIsRight ==
    ASSUME NEW place, NEW quiet, NEW message, NEW err, Made(err),
           err = Expected(place, quiet, message) \/ err = Failure(place, quiet, message),
           place.pos \in Nat, place.pos <= Len(text), text \in Seq(Chars),
           Err = {}, Err' = err, far' = far
    PROVE  ErrorsLeft \/ ErrorMade
<1>1. CASE err = {}
  BY <1>1 DEF Made, ErrorsLeft
<1>2. CASE err # {}
  <2>1. PICK e : /\ err = {e} /\ e.pos = place.pos
                 /\ e.fails \cup e.expects # {}
    <3>1. CASE err = Expected(place, quiet, message)
      <4> DEFINE e == Error(place.pos, {}, {Plain(message)})
      <4>1. err = {e}
        BY <1>2, <3>1 DEF Expected, NewError
      <4>2. e.pos = place.pos /\ e.fails \cup e.expects # {}
        BY DEF Error
      <4> HIDE DEF e
      <4> QED BY <4>1, <4>2
    <3>2. CASE err = Failure(place, quiet, message)
      <4> DEFINE e == Error(place.pos, {message}, {})
      <4>1. err = {e}
        BY <1>2, <3>2 DEF Failure, NewError
      <4>2. e.pos = place.pos /\ e.fails \cup e.expects # {}
        BY DEF Error
      <4> HIDE DEF e
      <4> QED BY <4>1, <4>2
    <3> QED BY <3>1, <3>2
  <2>2. tried' = Record(tried, e)
    BY <2>1 DEF Made
  <2>3. RightError(e)
    BY <2>1 DEF RightError, NoPlace
  <2> QED BY <2>1, <2>2, <2>3 DEF ErrorMade
<1> QED BY <1>1, <1>2

\* No parser writes the text.
LEMMA TextKept ==
    ASSUME Next
    PROVE  text' = text
<1>1. \/ In!Accept \/ In!Eoi \/ In!Mark \/ In!Unmark \/ In!Rewind \/ UNCHANGED input
      \/ \E by : In!Backtracking(by)
  BY DEF Next, RunOne, RunAnchor, RunEoi, RunPass, RunFail, StringBegin, StringChar,
         StringFails, StringDone, Begin, HandOn, HandOnFailure, CheckPasses, CheckFails,
         ExpectFails, NotFails, NotSucceeds, MaybeNot, ManyMore, ManyEnds, Many1Fails,
         CountMore, CountDone, CountFails, OrDone, OrNext, AndNext, AndDone, AndFails
<1> QED BY <1>1 DEF In!Accept, In!Eoi, In!Mark, In!Unmark, In!Rewind, In!Backtracking, input

LEMMA ErrorSteps ==
    ASSUME IInv, InText, InText', [Next]_vars
    PROVE  text' = text /\ (ErrorsLeft \/ ErrorsPrefixed \/ ErrorMade \/ ErrorsMerged)
<1>1. CallsType /\ ErrorsType
  BY DEF IInv
<1>2. /\ out = {} => Err = {}
      /\ todo # {} => out = {}
      /\ \A types : Succeeded(types) => Err = {}
      /\ stack # <<>> => (Top.p.type \in Quiet => Err = {})
  BY <1>1, ReturnFacts DEF Succeeded, CallsType
<1>3. /\ \A ok \in BOOLEAN : \A err : Answer(ok, err) => Err' = err
      /\ \A p : Call(p) => Err' = {}
      /\ out' = {} => Err' = {}
  BY AnswerFacts DEF Call, Err
<1>4. CASE UNCHANGED vars
  BY <1>4 DEF vars, input, ErrorsLeft, Err
<1>5. text' = text
  BY <1>4, TextKept DEF vars, input
<1>6. CASE RunOne \/ RunAnchor \/ RunEoi \/ RunPass
  <2>1. Err = {} /\ Err' = {} /\ NoError /\ far' = far
    BY <1>2, <1>3, <1>6 DEF RunOne, RunAnchor, RunEoi, RunPass, Holds
  <2> QED BY <1>5, <2>1 DEF NoError, ErrorsLeft
<1>7. CASE RunFail
  <2> DEFINE err == Failure(at, suppress, "fail")
  <2>1. Made(err) /\ Err = {} /\ Err' = err /\ far' = far
    BY <1>2, <1>3, <1>7 DEF RunFail
  <2> HIDE DEF err
  <2> QED BY <1>5, <2>1, NewIsRight DEF err, InText
<1>8. CASE StringBegin \/ StringChar \/ StringFails \/ StringDone \/ Begin
  <2>1. Err = {} /\ Err' = {} /\ NoError /\ far' = far
    <3>1. CASE StringBegin
      BY <1>1, <1>2, <1>3, <3>1 DEF StringBegin
    <3>2. CASE StringChar \/ StringFails \/ StringDone
      BY <1>2, <1>3, <3>2 DEF StringChar, StringFails, StringDone, InString
    <3>3. CASE Begin
      <4>1. todo # {} /\ out' = {}
        BY <3>3 DEF Begin, Call
      <4> QED BY <1>2, <1>3, <3>3, <4>1 DEF Begin
    <3> QED BY <1>8, <3>1, <3>2, <3>3
  <2> QED BY <1>5, <2>1 DEF NoError, ErrorsLeft
<1>9. CASE HandOn \/ CheckPasses \/ NotSucceeds \/ CountDone \/ OrDone \/ AndDone
  <2>1. Err = {}
    BY <1>2, <1>9 DEF HandOn, CheckPasses, NotSucceeds, CountDone, OrDone, AndDone,
                      Failed, Quiet
  <2>2. Err' = {} /\ NoError /\ far' = far
    BY <1>3, <1>9 DEF HandOn, CheckPasses, NotSucceeds, CountDone, OrDone, AndDone
  <2> QED BY <1>5, <2>1, <2>2 DEF NoError, ErrorsLeft
<1>10. CASE ManyMore \/ CountMore \/ AndNext
  <2>1. Err = {} /\ Err' = {} /\ NoError /\ far' = far
    BY <1>2, <1>3, <1>10 DEF ManyMore, CountMore, AndNext
  <2> QED BY <1>5, <2>1 DEF NoError, ErrorsLeft
<1>11. CASE HandOnFailure \/ AndFails
  <2>1. Err' = Err /\ NoError /\ far' = far
    BY <1>3, <1>11 DEF HandOnFailure, AndFails
  <2> QED BY <1>5, <2>1 DEF NoError, ErrorsLeft
<1>12. CASE Many1Fails \/ CountFails
  BY <1>3, <1>5, <1>12 DEF Many1Fails, CountFails, NoError, ErrorsPrefixed
<1>13. CASE MaybeNot \/ ManyEnds \/ OrNext
  <2>1. Merged /\ Err' = {}
    BY <1>3, <1>13 DEF MaybeNot, ManyEnds, OrNext
  <2> QED BY <1>5, <2>1 DEF Merged, ErrorsMerged
<1>14. CASE CheckFails
  <2> DEFINE err == Failure(at, suppress, "check")
  <2>1. Made(err) /\ Err = {} /\ Err' = err /\ far' = far
    BY <1>2, <1>3, <1>14 DEF CheckFails
  <2> HIDE DEF err
  <2> QED BY <1>5, <2>1, NewIsRight DEF err, InText
<1>15. CASE ExpectFails
  <2> DEFINE err == Expected(at, suppress', Top.p.m)
  <2>1. Made(err) /\ Err = {} /\ Err' = err /\ far' = far
    BY <1>2, <1>3, <1>15 DEF ExpectFails, Failed, Quiet
  <2> HIDE DEF err
  <2> QED BY <1>5, <2>1, NewIsRight DEF err, InText
<1>16. CASE NotFails
  <2> DEFINE err == Expected(at', suppress', "opposite")
  <2>1. Made(err) /\ Err = {} /\ Err' = err /\ far' = far
    BY <1>2, <1>3, <1>16 DEF NotFails
  <2> HIDE DEF err
  <2> QED BY <1>5, <2>1, NewIsRight DEF err, InText
<1> QED BY <1>4, <1>6, <1>7, <1>8, <1>9, <1>10, <1>11, <1>12, <1>13, <1>14, <1>15, <1>16,
           Zenon DEF Next

LEMMA ErrorsKnownNext ==
    ASSUME IInv, InText, InText', ErrorsKnown, [Next]_vars
    PROVE  ErrorsKnown'
<1>1. text' = text /\ text \in Seq(Chars) /\ Len(text) \in Nat
  BY ErrorSteps DEF InText
<1>2. /\ RightError(far) /\ RightError(tried) /\ \A e \in Err : RightError(e)
      /\ Tells(Merge(far, Err), tried)
      /\ MaybeOne(Err)
  BY OutFacts DEF ErrorsKnown, FurthestErrorKept, IInv
<1>3. \A e : RightError(e) => e.pos \in Int
  BY <1>1 DEF RightError, NoPlace
<1>4. SUFFICES /\ RightError(far') /\ RightError(tried') /\ \A e \in Err' : RightError(e)
               /\ Tells(Merge(far', Err'), tried')
  BY <1>1 DEF ErrorsKnown, RightError, FurthestErrorKept
<1>5. CASE ErrorsLeft
  BY <1>2, <1>5 DEF ErrorsLeft
<1>6. CASE ErrorsPrefixed
  <2>1. PICK prefix : Err' = Repeated(prefix, Err)
    BY <1>6 DEF ErrorsPrefixed
  <2>2. CASE Err = {}
    <3>1. Err' = {}
      BY <2>1, <2>2 DEF Repeated
    <3> QED BY <1>2, <1>6, <2>2, <3>1 DEF ErrorsPrefixed
  <2>3. CASE Err # {}
    <3>1. PICK e : Err = {e}
      BY <1>2, <2>3 DEF MaybeOne
    <3> DEFINE r == Error(e.pos, {}, {<<prefix, Messages(e.expects)>>})
    <3>2. CASE e.fails # {}
      <4>1. Err' = {e}
        BY <2>1, <3>1, <3>2 DEF Repeated
      <4> QED BY <1>2, <1>6, <3>1, <4>1 DEF ErrorsPrefixed
    <3>3. CASE e.fails = {}
      <4>1. Err' = {r}
        BY <2>1, <3>1, <3>3 DEF Repeated
      <4>2. RightError(r)
        BY <1>2, <3>1 DEF RightError, Error
      <4>3. Merge(far, Err) = Together(far, e) /\ Merge(far, Err') = Together(far, r)
        <5> HIDE DEF r
        <5> QED BY <3>1, <4>1 DEF Merge
      <4>4. Tells(Together(far, r), tried)
        BY <1>2, <3>3, <4>3, PrefixTells
      <4> HIDE DEF r
      <4> QED BY <1>2, <1>6, <4>1, <4>2, <4>3, <4>4 DEF ErrorsPrefixed
    <3> QED BY <3>2, <3>3
  <2> QED BY <2>2, <2>3
<1>7. CASE ErrorMade
  <2>1. PICK e : RightError(e) /\ Err' = {e} /\ tried' = Record(tried, e)
    BY <1>7 DEF ErrorMade
  <2>2. far' = far /\ Tells(far, tried)
    BY <1>2, <1>7 DEF ErrorMade, Merge
  <2>3. Merge(far', Err') = Together(far, e)
    BY <2>1, <2>2 DEF Merge
  <2>4. Tells(Together(far, e), Record(tried, e))
    BY <1>2, <1>3, <2>1, <2>2, TogetherTells
  <2>5. RightError(Record(tried, e))
    BY <1>2, <2>1 DEF RightError, Record, Error
  <2> QED BY <1>2, <2>1, <2>2, <2>3, <2>4, <2>5
<1>8. CASE ErrorsMerged
  <2>1. far' = Merge(far, Err) /\ tried' = tried /\ Err' = {}
    BY <1>8 DEF ErrorsMerged
  <2>2. RightError(Merge(far, Err))
    <3>1. CASE Err = {}
      BY <1>2, <3>1 DEF Merge
    <3>2. CASE Err # {}
      <4>1. PICK e : Err = {e}
        BY <1>2, <3>2 DEF MaybeOne
      <4>2. Merge(far, Err) = Together(far, e)
        BY <4>1 DEF Merge
      <4> QED BY <1>2, <4>1, <4>2, TogetherRight
    <3> QED BY <3>1, <3>2
  <2>3. Merge(far', Err') = Merge(far, Err)
    BY <2>1 DEF Merge
  <2> QED BY <1>2, <2>1, <2>2, <2>3
<1> QED BY <1>5, <1>6, <1>7, <1>8, ErrorSteps

LEMMA ErrorsKnownHolds == Spec => [](IInv /\ InText /\ ErrorsKnown)
<1>1. Init /\ InText => ErrorsKnown
  <2> SUFFICES ASSUME Init, InText PROVE ErrorsKnown
    OBVIOUS
  <2>1. out = {} /\ far = Unknown /\ tried = Unknown /\ Len(text) \in Nat
    BY DEF Init, InText
  <2>2. Err = {} /\ Merge(far, Err) = far
    BY <2>1 DEF Err, Merge
  <2>3. RightError(Unknown)
    BY <2>1 DEF RightError, Unknown, Error, NoPlace
  <2>4. Tells(far, tried)
    BY <2>1 DEF Tells
  <2> QED BY <2>1, <2>2, <2>3, <2>4 DEF ErrorsKnown, FurthestErrorKept
<1> QED BY <1>1, ErrorsKnownNext, IInvHolds, InTextHolds, PTL DEF Spec

\* The error that is reported is about the furthest place any parser failed at and names
\* all that was expected there, or a failure there, whatever was retried since.
THEOREM FurthestErrorReported == Spec => []FurthestErrorKept
<1>1. ErrorsKnown => FurthestErrorKept
  BY DEF ErrorsKnown
<1> QED BY <1>1, ErrorsKnownHolds, PTL

\* The counters stay natural, there is one answer at a time, and every error is about a
\* place of the text.
THEOREM TypeCorrect == Spec => []TypeOK
<1>1. IInv /\ InText /\ ErrorsKnown => TypeOK
  <2> SUFFICES ASSUME IInv, InText, ErrorsKnown PROVE TypeOK
    OBVIOUS
  <2>1. CallsType /\ ErrorsType /\ Counters /\ EveryValueOwned /\ EveryErrorOwned
    BY DEF IInv
  <2>2. suppress \in Nat /\ rejected \in Nat /\ IsFiniteSet(HeldResults)
    BY <2>1 DEF Counters
  <2>3. Given \in {0, 1} /\ MaybeOne(Err)
    BY <2>1, OutFacts DEF CallsType
  <2>4. Cardinality(Err) \in {0, 1}
    BY <2>3, AtMostOne
  <2>5. live \in Nat
    <3>1. Held \in Nat
      BY <2>2, FS_CardinalityType DEF Held
    <3> QED BY <2>1, <2>2, <2>3, <3>1 DEF EveryValueOwned, Given
  <2>6. errs \in Nat
    BY <2>1, <2>4 DEF EveryErrorOwned
  <2>7. Cardinality(todo) <= 1 /\ Cardinality(out) <= 1
    <3>1. MaybeOne(todo) /\ MaybeOne(out)
      BY <2>1 DEF CallsType, MaybeOne
    <3> QED BY <3>1, AtMostOne
  <2>8. \A e \in {far, tried} \cup Err :
           e.pos \in NoPlace..Len(text) /\ e.fails \cup e.expects # {}
    BY DEF ErrorsKnown, RightError
  <2> QED BY <2>2, <2>4, <2>5, <2>6, <2>7, <2>8 DEF TypeOK
<1> QED BY <1>1, ErrorsKnownHolds, PTL

----------------------------------------------------------------------------
(* What a parser matches.  The invariant says of each call in progress where it began and *)
(* whether it could backtrack: b[k] is that of stack[k].                                  *)

Beginning == [from : [pos : Nat, term : {0, 1}], was : Int]

PartWas(p, was) == IF p.type = "predict" THEN was - 1 ELSE was

\* Call k, having run j of its parts, runs p from there now; the caller of the first is
\* mpc_parse_input.
Runs(b, k, p, from, was) ==
    IF k = 0 THEN p = root /\ from = Origin /\ was = 1
    ELSE /\ HasParts(stack[k].p) /\ p = Part(stack[k].p, stack[k].j)
         /\ was = PartWas(stack[k].p, b[k].was)
         /\ Got(stack[k].j, from) \in Reaches(text, stack[k].p, b[k].was >= 1, b[k].from)

CallsExplained(b) ==
    /\ b \in Seq(Beginning) /\ Len(b) = Len(stack)
    /\ \A k \in 1..Len(stack) :
          /\ Runs(b, k - 1, stack[k].p, b[k].from, b[k].was)
          /\ b[k].was <= 1 /\ b[k].from \in Spots(text)

TodoExplained(b) == \A p \in todo : Runs(b, Len(stack), p, Spot(at), backtrack)

OutExplained(b) ==
    \A o \in out : \E p \in Parsers, from \in Spots(text) :
        /\ Runs(b, Len(stack), p, from, backtrack)
        /\ Gives(o.ok, Spot(at)) \in Answers(text, p, backtrack >= 1, from)

\* The mark of a call that has one is where it began.
MarksExplained(b) ==
    /\ \A i, k \in 1..Len(stack) : i <= k => Len(stack[i].open) <= Len(stack[k].open)
    /\ \A k \in 1..Len(stack) :
          stack[k].p.type \in Marking /\ b[k].was >= 1 =>
              /\ Len(stack[k].open) \in 1..Len(marks)
              /\ Spot(marks[Len(stack[k].open)]) = b[k].from

\* So far the text goes on with the characters of the string.
StringExplained(b) ==
    stack # <<>> /\ Top.p.type = "string" =>
        \E n \in 0..Len(Top.p.w) :
            /\ backtrack = b[Len(stack)].was
            /\ Spot(at) = Past(b[Len(stack)].from, n)
            /\ Spells(text, Top.p.w, b[Len(stack)].from, n)
            /\ Top.lit = SubSeq(Top.p.w, n + 1, Len(Top.p.w))

Explained(b) ==
    /\ backtrack <= 1
    /\ CallsExplained(b) /\ TodoExplained(b) /\ OutExplained(b)
    /\ MarksExplained(b) /\ StringExplained(b)

\* What the input promises a parse that is not of a pipe.
InputInv ==
    /\ PInv /\ kind # "pipe"
    /\ In!TypeOK /\ In!MarksPaired /\ In!InTheText

----------------------------------------------------------------------------
(* The place in the text *)

LEMMA Here ==
    ASSUME InputInv
    PROVE  /\ text \in Texts /\ text \in Seq(Chars) /\ Len(text) \in Nat
           /\ at.pos \in 0..Len(text) /\ at.term \in {0, 1} /\ Spot(at) \in Spots(text)
           /\ Before(text, Spot(at)) = at.last
           /\ marks \in Seq(In!Place) /\ backtrack \in Int
<1>1. /\ text \in Texts /\ at \in In!Place /\ In!RightPlace(at)
      /\ marks \in Seq(In!Place) /\ backtrack \in Int
  BY DEF InputInv, In!TypeOK, In!InTheText
<1>2. text \in Seq(Chars) /\ Len(text) \in Nat
  BY <1>1, TextsAssumption
<1>3. at.pos \in Nat /\ at.term \in {0, 1}
  BY <1>1 DEF In!Place
<1>4. /\ at.pos <= Len(text) /\ (at.term = 1 => at.pos = Len(text))
      /\ at.last = IF at.pos = 0 THEN Nul ELSE text[at.pos]
  BY <1>1 DEF In!RightPlace
<1>5. Spot(at).pos = at.pos /\ Spot(at).term = at.term
  BY DEF Spot
<1>6. at.pos \in 0..Len(text)
  BY <1>2, <1>3, <1>4
<1>7. Spot(at) \in [pos : 0..Len(text), term : {0, 1}]
  BY <1>3, <1>6 DEF Spot
<1>8. Spot(at) \in Spots(text)
  BY <1>4, <1>5, <1>7 DEF Spots
<1>9. Before(text, Spot(at)) = at.last
  BY <1>4, <1>5 DEF Before
<1> QED BY <1>1, <1>2, <1>3, <1>6, <1>8, <1>9

\* The next character is the text's.
LEMMA NextChar ==
    ASSUME InputInv
    PROVE  /\ In!Peek = IF at.pos < Len(text) THEN text[at.pos + 1] ELSE Nul
           /\ In!Terminated <=> at.pos = Len(text)
           /\ In!Peek # Nul => at.pos < Len(text)
<1>1. In!Peek = In!CharAt(at.pos)
  <2>1. ~In!InBuffer
    BY DEF InputInv, In!InBuffer, In!Buffering
  <2>2. kind \in {"string", "file"}
    BY KindsAssumption DEF InputInv, In!TypeOK
  <2>3. kind = "file" => off = at.pos
    BY DEF InputInv, In!InTheText
  <2> QED BY <2>1, <2>2, <2>3 DEF In!Peek
<1>2. In!Peek = IF at.pos < Len(text) THEN text[at.pos + 1] ELSE Nul
  BY <1>1 DEF In!CharAt
<1>3. at.pos < Len(text) => text[at.pos + 1] # Nul
  <2>1. ASSUME at.pos < Len(text) PROVE text[at.pos + 1] \in Chars
    <3>1. at.pos + 1 \in 1..Len(text)
      BY <2>1, Here
    <3> QED BY <3>1, Here
  <2> QED BY <2>1, CharsAssumption
<1>4. at.pos \in 0..Len(text) /\ Len(text) \in Nat
  BY Here
<1> QED BY <1>2, <1>3, <1>4 DEF In!Terminated

\* The input a step leaves.
LEMMA InputAfter ==
    ASSUME InputInv
    PROVE  /\ In!Accept => /\ Spot(at') = Past(Spot(at), 1) /\ marks' = marks
                           /\ backtrack' = backtrack /\ at.pos < Len(text)
           /\ In!Eoi => /\ Spot(at') = [pos |-> at.pos, term |-> 1] /\ marks' = marks
                        /\ backtrack' = backtrack /\ at.pos = Len(text) /\ at.term = 0
           /\ In!Mark => /\ at' = at /\ backtrack' = backtrack
                         /\ marks' = IF backtrack < 1 THEN marks ELSE Append(marks, at)
           /\ In!Unmark => /\ at' = at /\ backtrack' = backtrack
                           /\ marks' = IF backtrack < 1 THEN marks
                                       ELSE SubSeq(marks, 1, Len(marks) - 1)
           /\ In!Rewind => /\ at' = IF backtrack < 1 THEN at ELSE marks[Len(marks)]
                           /\ backtrack' = backtrack
                           /\ marks' = IF backtrack < 1 THEN marks
                                       ELSE SubSeq(marks, 1, Len(marks) - 1)
           /\ \A by : In!Backtracking(by) =>
                  at' = at /\ marks' = marks /\ backtrack' = backtrack + by
           /\ UNCHANGED input => at' = at /\ marks' = marks /\ backtrack' = backtrack
<1>1. In!Accept => /\ Spot(at') = Past(Spot(at), 1) /\ marks' = marks
                   /\ backtrack' = backtrack /\ at.pos < Len(text)
  <2>1. SUFFICES ASSUME In!Accept PROVE Spot(at') = Past(Spot(at), 1) /\ at.pos < Len(text)
    BY DEF In!Accept
  <2>2. at' = In!Past(In!Peek) /\ ~In!Terminated
    BY <2>1 DEF In!Accept
  <2>3. at'.pos = at.pos + 1 /\ at'.term = at.term
    BY <2>2 DEF In!Past
  <2>4. at.pos < Len(text)
    BY <2>2, NextChar, Here
  <2> QED BY <2>3, <2>4 DEF Spot, Past
<1>2. In!Eoi => /\ Spot(at') = [pos |-> at.pos, term |-> 1] /\ marks' = marks
                /\ backtrack' = backtrack /\ at.pos = Len(text) /\ at.term = 0
  BY NextChar DEF In!Eoi, Spot
<1>3. In!Mark => /\ at' = at /\ backtrack' = backtrack
                 /\ marks' = IF backtrack < 1 THEN marks ELSE Append(marks, at)
  BY DEF In!Mark
<1>4. In!Unmark => /\ at' = at /\ backtrack' = backtrack
                   /\ marks' = IF backtrack < 1 THEN marks
                               ELSE SubSeq(marks, 1, Len(marks) - 1)
  BY DEF In!Unmark, In!DropMark
<1>5. In!Rewind => /\ at' = IF backtrack < 1 THEN at ELSE marks[Len(marks)]
                   /\ backtrack' = backtrack
                   /\ marks' = IF backtrack < 1 THEN marks
                               ELSE SubSeq(marks, 1, Len(marks) - 1)
  BY DEF In!Rewind, In!DropMark
<1>6. \A by : In!Backtracking(by) =>
          at' = at /\ marks' = marks /\ backtrack' = backtrack + by
  BY DEF In!Backtracking
<1>7. UNCHANGED input => at' = at /\ marks' = marks /\ backtrack' = backtrack
  BY DEF input
<1> QED BY <1>1, <1>2, <1>3, <1>4, <1>5, <1>6, <1>7

----------------------------------------------------------------------------
(* The rules *)

LEMMA Rules ==
    ASSUME NEW t \in Texts, NEW p \in Parsers, NEW on \in BOOLEAN, NEW from \in Spots(t)
    PROVE  /\ LeafAnswers(t, p, on, from) \subseteq Answers(t, p, on, from)
           /\ HasParts(p) => Got(0, from) \in Reaches(t, p, on, from)
BY Closed DEF Starts

LEMMA GoOnRule ==
    ASSUME NEW t \in Texts, NEW p \in Parsers, NEW on \in BOOLEAN, NEW from \in Spots(t),
           HasParts(p), NEW j, NEW c, Got(j, c) \in Reaches(t, p, on, from),
           NEW ok, NEW to, Gives(ok, to) \in Answers(t, Part(p, j), PartOn(p, on), c)
    PROVE  /\ WantsMore(p, j, ok) /\ (p.type \in {"many", "many1"} => j < MaxResults)
                 => Got(j + 1, to) \in Reaches(t, p, on, from)
           /\ ~WantsMore(p, j, ok) =>
                 LET v == Verdict(t, p, j, ok, to)
                 IN  Gives(v, LeftAt(p, on, from, v, to)) \in Answers(t, p, on, from)
<1>1. Continues(t, p, on, from)
  BY Closed
<1>2. /\ Got(j, c).j = j /\ Got(j, c).to = c
      /\ Gives(ok, to).ok = ok /\ Gives(ok, to).to = to
  BY DEF Got, Gives
<1>3. \A g \in Reaches(t, p, on, from) :
        \A a \in Answers(t, Part(p, g.j), PartOn(p, on), g.to) :
            IF WantsMore(p, g.j, a.ok)
            THEN (p.type \in {"many", "many1"} => g.j < MaxResults)
                    => Got(g.j + 1, a.to) \in Reaches(t, p, on, from)
            ELSE LET v == Verdict(t, p, g.j, a.ok, a.to)
                 IN  Gives(v, LeftAt(p, on, from, v, a.to)) \in Answers(t, p, on, from)
  BY <1>1, Zenon DEF Continues
<1> QED BY <1>2, <1>3

----------------------------------------------------------------------------
(* A call that answers without parts *)

Fixed == text' = text /\ root' = root

LEMMA FixedStep == [Next]_vars => Fixed /\ kind' = kind
<1> SUFFICES ASSUME [Next]_vars PROVE Fixed /\ kind' = kind
  OBVIOUS
<1>1. In!Accept \/ In!Eoi \/ In!Mark \/ In!Unmark \/ In!Rewind \/ (\E by : In!Backtracking(by))
         \/ UNCHANGED input => text' = text /\ kind' = kind
  BY DEF In!Accept, In!Eoi, In!Mark, In!Unmark, In!Rewind, In!Backtracking, input
<1>2. CASE RunOne \/ RunAnchor \/ RunEoi \/ RunPass \/ RunFail
  BY <1>1, <1>2 DEF RunOne, RunAnchor, RunEoi, RunPass, RunFail, Fixed
<1>3. CASE StringBegin \/ StringChar \/ StringFails \/ StringDone
  BY <1>1, <1>3 DEF StringBegin, StringChar, StringFails, StringDone, Fixed
<1>4. CASE Begin
  BY <1>1, <1>4 DEF Begin, Fixed
<1>5. CASE HandOn \/ HandOnFailure \/ CheckPasses \/ CheckFails \/ ExpectFails
  BY <1>1, <1>5 DEF HandOn, HandOnFailure, CheckPasses, CheckFails, ExpectFails, Fixed
<1>6. CASE NotFails \/ NotSucceeds \/ MaybeNot \/ ManyMore \/ ManyEnds \/ Many1Fails
  BY <1>1, <1>6 DEF NotFails, NotSucceeds, MaybeNot, ManyMore, ManyEnds, Many1Fails, Fixed
<1>7. CASE CountMore \/ CountDone \/ CountFails \/ OrDone \/ OrNext
  BY <1>1, <1>7 DEF CountMore, CountDone, CountFails, OrDone, OrNext, Fixed
<1>8. CASE AndNext \/ AndDone \/ AndFails
  BY <1>1, <1>8 DEF AndNext, AndDone, AndFails, Fixed
<1>9. CASE UNCHANGED vars
  BY <1>9 DEF vars, input, Fixed
<1> QED BY <1>2, <1>3, <1>4, <1>5, <1>6, <1>7, <1>8, <1>9, Zenon DEF Next

\* What call k runs depends on that call alone.
LEMMA RunsSame ==
    ASSUME Fixed, NEW b, NEW d, NEW k,
           k # 0 => stack'[k].p = stack[k].p /\ stack'[k].j = stack[k].j /\ d[k] = b[k]
    PROVE  \A p, from, was : Runs(b, k, p, from, was) => Runs(d, k, p, from, was)'
<1> SUFFICES ASSUME NEW p, NEW from, NEW was, Runs(b, k, p, from, was)
             PROVE  Runs(d, k, p, from, was)'
  OBVIOUS
<1>1. CASE k = 0
  BY <1>1 DEF Runs, Fixed
<1>2. CASE k # 0
  BY <1>2 DEF Runs, Fixed
<1> QED BY <1>1, <1>2

\* A parser without parts answers as LeafAnswers says.
AnswersLeaf ==
    \E p \in todo, ok \in BOOLEAN : \E err :
        /\ Answer(ok, err) /\ stack' = stack /\ marks' = marks /\ backtrack' = backtrack
        /\ Gives(ok, Spot(at')) \in LeafAnswers(text, p, backtrack >= 1, Spot(at))

LEMMA LeavesAnswer ==
    ASSUME InputInv, RunOne \/ RunAnchor \/ RunEoi \/ RunPass \/ RunFail
    PROVE  AnswersLeaf
<1>1. /\ at.pos \in 0..Len(text) /\ at.term \in {0, 1} /\ Len(text) \in Nat
      /\ Before(text, Spot(at)) = at.last /\ Spot(at).pos = at.pos /\ Spot(at).term = at.term
  BY Here DEF Spot
<1>2. UNCHANGED input => at' = at /\ marks' = marks /\ backtrack' = backtrack
  BY InputAfter
<1>3. CASE RunOne
  <2>1. PICK p \in todo :
          /\ p.type = "one"
          /\ \/ In!Peek \in p.of /\ In!Accept /\ Answer(TRUE, {})
             \/ In!Peek \notin p.of /\ Answer(FALSE, {}) /\ UNCHANGED input
    BY <1>3 DEF RunOne
  <2>2. LeafAnswers(text, p, backtrack >= 1, Spot(at)) =
          {IF at.pos < Len(text) /\ text[at.pos + 1] \in p.of
           THEN Gives(TRUE, Past(Spot(at), 1)) ELSE Gives(FALSE, Spot(at))}
    BY <1>1, <2>1 DEF LeafAnswers, Empty
  <2>3. stack' = stack
    BY <1>3 DEF RunOne
  <2>4. CASE In!Peek \in p.of /\ In!Accept /\ Answer(TRUE, {})
    <3>1. /\ Spot(at') = Past(Spot(at), 1) /\ marks' = marks /\ backtrack' = backtrack
          /\ at.pos < Len(text)
      BY <2>4, InputAfter
    <3>2. text[at.pos + 1] \in p.of
      BY <2>4, <3>1, NextChar
    <3>3. Gives(TRUE, Spot(at')) \in LeafAnswers(text, p, backtrack >= 1, Spot(at))
      BY <2>2, <3>1, <3>2
    <3> QED BY <2>3, <2>4, <3>1, <3>3 DEF AnswersLeaf
  <2>5. CASE In!Peek \notin p.of /\ Answer(FALSE, {}) /\ UNCHANGED input
    <3>1. ~(at.pos < Len(text) /\ text[at.pos + 1] \in p.of)
      BY <2>5, NextChar
    <3>2. Gives(FALSE, Spot(at')) \in LeafAnswers(text, p, backtrack >= 1, Spot(at))
      BY <1>2, <2>2, <2>5, <3>1
    <3> QED BY <1>2, <2>3, <2>5, <3>2 DEF AnswersLeaf
  <2> QED BY <2>1, <2>4, <2>5
<1>4. CASE RunAnchor
  <2>1. PICK p \in todo :
          p.type \in {"soi", "anchor"} /\ Answer(Holds(p), {})
    BY <1>4 DEF RunAnchor
  <2>2. stack' = stack /\ UNCHANGED input
    BY <1>4 DEF RunAnchor
  <2>3. at.last = Nul <=> at.pos = 0
    <3>1. at.last = IF at.pos = 0 THEN Nul ELSE text[at.pos]
      BY DEF InputInv, In!InTheText, In!RightPlace
    <3>2. at.pos # 0 => text[at.pos] \in Chars
      BY <1>1, Here
    <3> QED BY <3>1, <3>2, CharsAssumption
  <2>4. LeafAnswers(text, p, backtrack >= 1, Spot(at)) = {Gives(Holds(p), Spot(at))}
    <3>1. CASE p.type = "soi"
      BY <1>1, <2>3, <3>1 DEF LeafAnswers, Empty, Holds
    <3>2. CASE p.type = "anchor"
      BY <1>1, <3>2 DEF LeafAnswers, Empty, Holds
    <3> QED BY <2>1, <3>1, <3>2
  <2>5. Holds(p) \in BOOLEAN
    BY DEF Holds
  <2>6. Spot(at') = Spot(at)
    BY <1>2, <2>2
  <2> QED BY <1>2, <2>1, <2>2, <2>4, <2>5, <2>6 DEF AnswersLeaf
<1>5. CASE RunEoi
  <2>1. PICK p \in todo : p.type = "eoi"
    BY <1>5 DEF RunEoi
  <2>2. LeafAnswers(text, p, backtrack >= 1, Spot(at)) =
          {IF at.term = 0 /\ at.pos = Len(text)
           THEN Gives(TRUE, [pos |-> at.pos, term |-> 1]) ELSE Gives(FALSE, Spot(at))}
    BY <1>1, <2>1 DEF LeafAnswers, Empty
  <2>3. stack' = stack
    BY <1>5 DEF RunEoi
  <2>4. CASE In!Eoi /\ Answer(TRUE, {})
    <3>1. Gives(TRUE, Spot(at')) \in LeafAnswers(text, p, backtrack >= 1, Spot(at))
      BY <2>2, <2>4, InputAfter
    <3> QED BY <2>1, <2>3, <2>4, <3>1, InputAfter DEF AnswersLeaf
  <2>5. CASE ~(at.term = 0 /\ In!Terminated) /\ Answer(FALSE, {}) /\ UNCHANGED input
    <3>1. ~(at.term = 0 /\ at.pos = Len(text))
      BY <2>5, NextChar
    <3>2. Gives(FALSE, Spot(at')) \in LeafAnswers(text, p, backtrack >= 1, Spot(at))
      BY <1>2, <2>2, <2>5, <3>1
    <3> QED BY <1>2, <2>1, <2>3, <2>5, <3>2 DEF AnswersLeaf
  <2> QED BY <1>5, <2>4, <2>5 DEF RunEoi
<1>6. CASE RunPass
  <2>1. PICK p \in todo : p.type = "pass" \/ Empty(p)
    BY <1>6 DEF RunPass
  <2>2. LeafAnswers(text, p, backtrack >= 1, Spot(at)) = {Gives(TRUE, Spot(at))}
    BY <2>1 DEF LeafAnswers, Empty
  <2>3. stack' = stack /\ Answer(TRUE, {}) /\ UNCHANGED input
    BY <1>6 DEF RunPass
  <2>4. Gives(TRUE, Spot(at')) \in LeafAnswers(text, p, backtrack >= 1, Spot(at))
    BY <1>2, <2>2, <2>3
  <2> QED BY <1>2, <2>1, <2>3, <2>4 DEF AnswersLeaf
<1>7. CASE RunFail
  <2>1. PICK p \in todo : p.type = "fail"
    BY <1>7 DEF RunFail
  <2>2. LeafAnswers(text, p, backtrack >= 1, Spot(at)) = {Gives(FALSE, Spot(at))}
    BY <2>1 DEF LeafAnswers, Empty
  <2>3. stack' = stack /\ UNCHANGED input /\ Answer(FALSE, Failure(at, suppress, "fail"))
    BY <1>7 DEF RunFail
  <2>4. Gives(FALSE, Spot(at')) \in LeafAnswers(text, p, backtrack >= 1, Spot(at))
    BY <1>2, <2>2, <2>3
  <2> QED BY <1>2, <2>1, <2>3, <2>4 DEF AnswersLeaf
<1> QED BY <1>3, <1>4, <1>5, <1>6, <1>7

LEMMA LeafExplained ==
    ASSUME InputInv, Fixed, AnswersLeaf, NEW b, Explained(b)
    PROVE  Explained(b)'
<1>1. PICK p \in todo, ok \in BOOLEAN : \E err :
        /\ Answer(ok, err) /\ stack' = stack /\ marks' = marks /\ backtrack' = backtrack
        /\ Gives(ok, Spot(at')) \in LeafAnswers(text, p, backtrack >= 1, Spot(at))
  BY DEF AnswersLeaf
<1>2. CallsType /\ PInv
  BY DEF InputInv, PInv, IInv
<1>3. p \in Parsers
  BY <1>1, <1>2, TodoType
<1>4. todo' = {} /\ \A o \in out' : o.ok = ok
  BY <1>1, AnswerFacts
<1>5. /\ backtrack <= 1 /\ CallsExplained(b) /\ MarksExplained(b)
      /\ Runs(b, Len(stack), p, Spot(at), backtrack)
  BY <1>1 DEF Explained, TodoExplained
<1>6. CallsExplained(b)'
  BY <1>1, <1>5 DEF CallsExplained, Fixed, Runs
<1>7. OutExplained(b)'
  <2>1. text \in Texts /\ Spot(at) \in Spots(text)
    BY Here
  <2>2. Gives(ok, Spot(at')) \in Answers(text, p, backtrack >= 1, Spot(at))
    <3>1. (backtrack >= 1) \in BOOLEAN
      OBVIOUS
    <3> QED BY <1>1, <1>3, <2>1, <3>1, Rules
  <2> DEFINE s == Spot(at)
             x == backtrack
  <2>3. PICK c \in Spots(text) : c = s
    BY <2>1
  <2>4. PICK w : w = x
    OBVIOUS
  <2>5. Runs(b, Len(stack), p, c, w)'
    BY <1>1, <1>5, <2>3, <2>4 DEF Runs, Fixed
  <2> QED BY <1>1, <1>3, <1>4, <2>2, <2>3, <2>4, <2>5 DEF OutExplained, Fixed
<1>8. MarksExplained(b)'
  BY <1>1, <1>5 DEF MarksExplained
<1>9. StringExplained(b)'
  <2>1. stack # <<>> => Top.p.type # "string"
    BY <1>1, <1>2, NoLit
  <2> QED BY <1>1, <2>1 DEF StringExplained, Top
<1> QED BY <1>1, <1>4, <1>5, <1>6, <1>7, <1>8, <1>9 DEF Explained, TodoExplained

----------------------------------------------------------------------------
(* The calls, when one begins, goes on and returns *)

LEMMA OpenLengths ==
    ASSUME InputInv
    PROVE  /\ Open \in Seq(Obligation) /\ Len(Open) \in Nat /\ Len(marks) \in Nat
           /\ backtrack >= 1 => Len(marks) = Len(Open)
           /\ \A k \in 1..Len(stack) : Len(stack[k].open) \in Nat /\ stack[k].p \in Parsers
           /\ stack # <<>> => Open = stack[Len(stack)].open
<1>1. CallsType /\ Len(marks) \in Nat /\ backtrack \in Int
  BY Here DEF InputInv, PInv, IInv
<1>2. Open \in Seq(Obligation)
  BY <1>1, OpenType
<1>3. ASSUME backtrack >= 1 PROVE Len(marks) = Len(Open)
  <2>1. ~(backtrack < 1)
    BY <1>1, <1>3
  <2> QED BY <2>1 DEF InputInv, In!MarksPaired
<1>4. ASSUME NEW k \in 1..Len(stack) PROVE Len(stack[k].open) \in Nat /\ stack[k].p \in Parsers
  <2>1. stack[k] \in Frames
    BY <1>1 DEF CallsType
  <2> QED BY <2>1 DEF Frames
<1> QED BY <1>1, <1>2, <1>3, <1>4 DEF Open, Top

\* A call begins where the input is.
LEMMA PushExplained ==
    ASSUME InputInv, Fixed, NEW b, Explained(b), NEW p \in todo, NEW lit \in Seq(Chars),
           Push(Frame(p, lit)),
           marks' = IF p.type \in Marking /\ backtrack >= 1 THEN Append(marks, at) ELSE marks,
           NEW d, d = Append(b, [from |-> Spot(at), was |-> backtrack])
    PROVE  /\ CallsExplained(d)' /\ MarksExplained(d)'
           /\ Len(stack') = Len(stack) + 1 /\ Len(stack) \in Nat
           /\ stack'[Len(stack) + 1] = Frame(p, lit)
           /\ d[Len(stack) + 1] = [from |-> Spot(at), was |-> backtrack]
<1>1. CallsType /\ PInv
  BY DEF InputInv, PInv, IInv
<1>2. p \in Parsers
  BY <1>1, TodoType
<1>3. /\ Frame(p, lit) \in Frames /\ Frame(p, lit).p = p
      /\ Frame(p, lit).open = Open \o Owes(p)
  BY <1>1, <1>2, FrameType
<1>4. /\ stack' \in Seq(Frames) /\ Len(stack') = Len(stack) + 1 /\ Len(stack) \in Nat
      /\ stack'[Len(stack) + 1] = Frame(p, lit)
      /\ \A k \in 1..Len(stack) : stack'[k] = stack[k]
  BY <1>1, <1>3, PushFacts
<1>5. /\ backtrack <= 1 /\ CallsExplained(b) /\ MarksExplained(b)
      /\ Runs(b, Len(stack), p, Spot(at), backtrack)
  BY DEF Explained, TodoExplained
<1>6. Spot(at) \in Spots(text) /\ backtrack \in Int
  BY Here
<1> DEFINE x == [from |-> Spot(at), was |-> backtrack]
<1>7. x \in Beginning /\ x.from = Spot(at) /\ x.was = backtrack
  <2>1. \A s \in Spots(text) : s \in [pos : Nat, term : {0, 1}]
    BY Here DEF Spots
  <2> QED BY <1>6, <2>1 DEF Beginning
<1>8. b \in Seq(Beginning) /\ Len(b) = Len(stack)
  BY <1>5 DEF CallsExplained
<1>9. /\ d \in Seq(Beginning) /\ Len(d) = Len(stack) + 1 /\ d[Len(stack) + 1] = x
      /\ \A k \in 1..Len(stack) : d[k] = b[k]
  <2> HIDE DEF x
  <2>1. d = Append(b, x)
    BY DEF x
  <2> QED BY <1>4, <1>7, <1>8, <2>1
<1>10. CallsExplained(d)'
  <2>1. SUFFICES ASSUME NEW k \in 1..(Len(stack) + 1)
                 PROVE  /\ Runs(d, k - 1, stack[k].p, d[k].from, d[k].was)'
                        /\ d[k].was <= 1 /\ d[k].from \in Spots(text)
    BY <1>4, <1>9 DEF CallsExplained, Fixed
  <2>2. \A q, from, was : Runs(b, k - 1, q, from, was) => Runs(d, k - 1, q, from, was)'
    <3>1. k - 1 # 0 => k - 1 \in 1..Len(stack)
      BY <1>4
    <3>2. k - 1 # 0 => /\ stack'[k - 1].p = stack[k - 1].p /\ stack'[k - 1].j = stack[k - 1].j
                       /\ d[k - 1] = b[k - 1]
      BY <1>4, <1>9, <3>1
    <3> QED BY <3>2, RunsSame
  <2>3. CASE k \in 1..Len(stack)
    <3>1. /\ Runs(b, k - 1, stack[k].p, b[k].from, b[k].was)
          /\ b[k].was <= 1 /\ b[k].from \in Spots(text)
      BY <1>5, <2>3 DEF CallsExplained
    <3>2. stack'[k].p = stack[k].p /\ d[k] = b[k]
      BY <1>4, <1>9, <2>3
    <3>3. PICK q : q = stack[k].p
      OBVIOUS
    <3>4. Runs(d, k - 1, q, d[k].from, d[k].was)'
      BY <2>2, <3>1, <3>2, <3>3
    <3> QED BY <3>1, <3>2, <3>3, <3>4 DEF Runs
  <2>4. CASE k = Len(stack) + 1
    <3>1. stack'[k].p = p /\ d[k].from = Spot(at) /\ d[k].was = backtrack /\ k - 1 = Len(stack)
      BY <1>3, <1>4, <1>7, <1>9, <2>4
    <3>2. PICK s, w : s = Spot(at) /\ w = backtrack
      OBVIOUS
    <3>3. Runs(d, k - 1, p, s, w)'
      BY <1>5, <2>2, <3>1, <3>2
    <3>4. Runs(d, k - 1, stack[k].p, d[k].from, d[k].was)'
      BY <3>1, <3>2, <3>3 DEF Runs
    <3> QED BY <1>5, <1>6, <3>1, <3>4
  <2>5. k \in 1..Len(stack) \/ k = Len(stack) + 1
    BY <1>4
  <2> QED BY <2>3, <2>4, <2>5, Zenon
<1>11. MarksExplained(d)'
  <2>1. /\ Len(Open) \in Nat /\ Len(marks) \in Nat /\ marks \in Seq(In!Place)
        /\ backtrack >= 1 => Len(marks) = Len(Open)
        /\ \A k \in 1..Len(stack) : Len(stack[k].open) \in Nat
        /\ stack # <<>> => Open = stack[Len(stack)].open
        /\ at \in In!Place
    BY OpenLengths, Here DEF InputInv, In!TypeOK
  <2>2. \A i \in 1..Len(stack) : Len(stack[i].open) <= Len(Open)
    BY <1>4, <1>5, <2>1 DEF MarksExplained
  <2>3. stack'[Len(stack) + 1].p = p /\ stack'[Len(stack) + 1].open = Open'
    <3>1. Open' = stack'[Len(stack) + 1].open
      BY <1>4 DEF Open, Top
    <3> QED BY <1>3, <1>4, <3>1
  <2>4. /\ p.type \in Owing => Len(Open') = Len(Open) + 1
        /\ p.type \notin Owing => Open' = Open
    <3>1. p.type \in Owing => In!Push(What(p))
      BY <1>1, <1>2, PushOpens
    <3>2. p.type \in Owing => Open' = Append(Open, [what |-> What(p), was |-> backtrack])
      BY <3>1 DEF In!Push
    <3> QED BY <1>1, <1>2, <3>2, PushOpens, OpenLengths
  <2>5. Len(marks') >= Len(marks) /\ Len(marks') \in Nat
        /\ \A k \in 1..Len(marks) : marks'[k] = marks[k]
    BY <2>1
  <2>6. \A k \in 1..(Len(stack) + 1) : k = Len(stack) + 1 \/ (k \in 1..Len(stack) /\ stack'[k] = stack[k])
    BY <1>4
  <2>7. ASSUME NEW i \in 1..(Len(stack) + 1), NEW k \in 1..(Len(stack) + 1), i <= k
        PROVE  Len(stack'[i].open) <= Len(stack'[k].open)
    <3>1. Len(Open') >= Len(Open) /\ Len(Open') \in Nat
      BY <2>1, <2>4
    <3>2. CASE k = Len(stack) + 1
      <4>1. CASE i = Len(stack) + 1
        BY <2>3, <3>1, <3>2, <4>1
      <4>2. CASE i \in 1..Len(stack) /\ stack'[i] = stack[i]
        BY <2>1, <2>2, <2>3, <3>1, <3>2, <4>2
      <4> QED BY <2>6, <4>1, <4>2
    <3>3. CASE k \in 1..Len(stack) /\ stack'[k] = stack[k]
      <4>1. i \in 1..Len(stack) /\ stack'[i] = stack[i]
        BY <1>4, <2>6, <2>7, <3>3
      <4> QED BY <1>5, <2>7, <3>3, <4>1 DEF MarksExplained
    <3> QED BY <2>6, <3>2, <3>3
  <2>8. ASSUME NEW k \in 1..(Len(stack) + 1), stack'[k].p.type \in Marking, d[k].was >= 1
        PROVE  /\ Len(stack'[k].open) \in 1..Len(marks')
               /\ Spot(marks'[Len(stack'[k].open)]) = d[k].from
    <3>1. CASE k \in 1..Len(stack) /\ stack'[k] = stack[k]
      <4>1. d[k] = b[k]
        BY <1>9, <3>1
      <4>2. /\ Len(stack[k].open) \in 1..Len(marks)
            /\ Spot(marks[Len(stack[k].open)]) = b[k].from
        BY <1>5, <2>8, <3>1, <4>1 DEF MarksExplained
      <4>3. marks'[Len(stack[k].open)] = marks[Len(stack[k].open)]
        BY <2>5, <4>2
      <4>4. Len(stack[k].open) \in 1..Len(marks')
        BY <2>1, <2>5, <4>2
      <4> QED BY <3>1, <4>1, <4>2, <4>3, <4>4
    <3>2. CASE k = Len(stack) + 1
      <4>1. p.type \in Marking /\ backtrack >= 1 /\ d[k].from = Spot(at)
        BY <1>7, <1>9, <2>3, <2>8, <3>2
      <4>2. marks' = Append(marks, at) /\ Len(Open') = Len(marks) + 1
        BY <2>1, <2>4, <4>1 DEF Owing
      <4>3. Len(marks') = Len(marks) + 1 /\ marks'[Len(marks) + 1] = at
        BY <2>1, <4>2
      <4>4. Len(stack'[k].open) = Len(marks) + 1
        BY <2>3, <3>2, <4>2
      <4>5. Len(marks) + 1 \in 1..Len(marks')
        BY <2>1, <4>3
      <4> QED BY <4>1, <4>3, <4>4, <4>5
    <3> QED BY <2>6, <3>1, <3>2
  <2> QED BY <1>4, <2>7, <2>8 DEF MarksExplained
<1> QED BY <1>4, <1>9, <1>10, <1>11

\* A call that goes on has begun where it had.
LEMMA TurnExplained ==
    ASSUME InputInv, Fixed, NEW b, Explained(b), stack # <<>>, NEW f \in Frames, Turn(f),
           f.p = Top.p, f.open = Top.open, marks' = marks
    PROVE  /\ CallsExplained(b)' /\ MarksExplained(b)'
           /\ Len(stack') = Len(stack) /\ Len(stack) \in Nat \ {0} /\ stack'[Len(stack)] = f
<1>1. CallsType
  BY DEF InputInv, PInv, IInv
<1>2. /\ Len(stack') = Len(stack) /\ Len(stack) \in Nat \ {0}
      /\ stack'[Len(stack)] = f
      /\ \A k \in 1..(Len(stack) - 1) : stack'[k] = stack[k]
  BY <1>1, TurnFacts
<1>3. CallsExplained(b) /\ MarksExplained(b)
  BY DEF Explained
<1>4. \A k \in 1..Len(stack) : stack'[k].p = stack[k].p /\ stack'[k].open = stack[k].open
  <2>1. \A k \in 1..Len(stack) : k \in 1..(Len(stack) - 1) \/ k = Len(stack)
    BY <1>2
  <2> QED BY <1>2, <2>1 DEF Top
<1>5. CallsExplained(b)'
  <2>1. SUFFICES ASSUME NEW k \in 1..Len(stack)
                 PROVE  Runs(b, k - 1, stack[k].p, b[k].from, b[k].was)'
    BY <1>2, <1>3 DEF CallsExplained, Fixed
  <2>2. Runs(b, k - 1, stack[k].p, b[k].from, b[k].was)
    BY <1>3 DEF CallsExplained
  <2>3. k - 1 # 0 => stack'[k - 1] = stack[k - 1]
    BY <1>2
  <2>4. PICK q : q = stack[k].p
    OBVIOUS
  <2>5. Runs(b, k - 1, q, b[k].from, b[k].was)'
    BY <2>2, <2>3, <2>4, RunsSame
  <2> QED BY <1>4, <2>4, <2>5 DEF Runs
<1>6. MarksExplained(b)'
  BY <1>2, <1>3, <1>4 DEF MarksExplained
<1> QED BY <1>2, <1>5, <1>6

\* When a call returns, the one below it had called it.
LEMMA PopExplained ==
    ASSUME InputInv, Fixed, NEW b, Explained(b), stack # <<>>, Pop,
           marks' = IF Top.p.type \in Marking /\ backtrack >= 1
                    THEN SubSeq(marks, 1, Len(marks) - 1) ELSE marks,
           NEW d, d = SubSeq(b, 1, Len(b) - 1)
    PROVE  /\ CallsExplained(d)' /\ MarksExplained(d)' /\ StringExplained(d)'
           /\ \A q, from, was : /\ q = Top.p /\ from = b[Len(stack)].from
                                /\ was = b[Len(stack)].was
                  => Runs(d, Len(stack), q, from, was)'
<1>1. CallsType /\ PInv /\ StringsOnTop
  BY DEF InputInv, PInv, IInv
<1>2. /\ Len(stack') = Len(stack) - 1 /\ Len(stack) \in Nat \ {0}
      /\ stack' \in Seq(Frames)
      /\ \A k \in 1..(Len(stack) - 1) : stack'[k] = stack[k]
  BY <1>1, PopFacts
<1>3. CallsExplained(b) /\ MarksExplained(b)
  BY DEF Explained
<1>4. /\ Len(d) = Len(stack) - 1 /\ d \in Seq(Beginning)
      /\ \A k \in 1..(Len(stack) - 1) : d[k] = b[k]
  <2>1. b \in Seq(Beginning) /\ Len(b) = Len(stack)
    BY <1>3 DEF CallsExplained
  <2>2. b # <<>>
    BY <1>2, <2>1
  <2> QED BY <1>2, <2>1, <2>2, FrontFacts
<1>5. ASSUME NEW k \in 1..Len(stack)
      PROVE  /\ Runs(b, k - 1, stack[k].p, b[k].from, b[k].was)
             /\ \A q, from, was : Runs(b, k - 1, q, from, was) => Runs(d, k - 1, q, from, was)'
  <2>1. Runs(b, k - 1, stack[k].p, b[k].from, b[k].was)
    BY <1>3 DEF CallsExplained
  <2>2. k - 1 # 0 => stack'[k - 1] = stack[k - 1] /\ d[k - 1] = b[k - 1]
    BY <1>2, <1>4, SMTT(20), ZenonT(40)
  <2>3. k - 1 # 0 => /\ stack'[k - 1].p = stack[k - 1].p /\ stack'[k - 1].j = stack[k - 1].j
                     /\ d[k - 1] = b[k - 1]
    BY <2>2
  <2> QED BY <2>1, <2>3, RunsSame
<1>6. CallsExplained(d)'
  <2>1. SUFFICES ASSUME NEW k \in 1..(Len(stack) - 1)
                 PROVE  /\ Runs(d, k - 1, stack[k].p, d[k].from, d[k].was)'
                        /\ d[k].was <= 1 /\ d[k].from \in Spots(text)
    BY <1>2, <1>4 DEF CallsExplained, Fixed
  <2>2. k \in 1..Len(stack) /\ stack'[k] = stack[k] /\ d[k] = b[k]
    <3>1. k \in 1..Len(stack)
      BY <1>2
    <3>2. stack'[k] = stack[k]
      BY <1>2
    <3>3. d[k] = b[k]
      BY <1>4
    <3> QED BY <3>1, <3>2, <3>3
  <2>3. PICK q : q = stack[k].p
    OBVIOUS
  <2>4. Runs(d, k - 1, q, d[k].from, d[k].was)'
    BY <1>5, <2>2, <2>3
  <2>5. b[k].was <= 1 /\ b[k].from \in Spots(text)
    BY <1>3, <2>2 DEF CallsExplained
  <2> QED BY <2>2, <2>3, <2>4, <2>5 DEF Runs
<1>7. MarksExplained(d)'
  <2>1. \A k \in 1..(Len(stack) - 1) : k \in 1..Len(stack) /\ stack'[k] = stack[k] /\ d[k] = b[k]
    <3>1. 1..(Len(stack) - 1) \subseteq 1..Len(stack)
      BY <1>2
    <3>2. /\ \A k \in 1..(Len(stack) - 1) : stack'[k] = stack[k]
          /\ \A k \in 1..(Len(stack) - 1) : d[k] = b[k]
      BY <1>2, <1>4
    <3> QED BY <3>1, <3>2, Zenon
  <2>2. ASSUME NEW k \in 1..(Len(stack) - 1), stack'[k].p.type \in Marking, d[k].was >= 1
        PROVE  /\ Len(stack'[k].open) \in 1..Len(marks')
               /\ Spot(marks'[Len(stack'[k].open)]) = d[k].from
    <3>1. /\ Len(stack[k].open) \in 1..Len(marks)
          /\ Spot(marks[Len(stack[k].open)]) = b[k].from
      BY <1>3, <2>1, <2>2 DEF MarksExplained
    <3>2. CASE ~(Top.p.type \in Marking /\ backtrack >= 1)
      BY <2>1, <3>1, <3>2
    <3>3. CASE Top.p.type \in Marking /\ backtrack >= 1
      <4>1. /\ Len(marks) = Len(Open) /\ Len(marks) \in Nat /\ marks \in Seq(In!Place)
            /\ Len(stack[k].open) \in Nat
        BY <2>1, <3>3, OpenLengths, Here
      <4>2. Len(Open) = Len(Open') + 1 /\ Len(Open') \in Nat
        <5>1. In!Pop(What(Top.p))
          BY <1>1, <3>3, PopOpens DEF Owing
        <5>2. Open # <<>> /\ Open' = SubSeq(Open, 1, Len(Open) - 1) /\ Open \in Seq(Obligation)
          BY <5>1, OpenLengths DEF In!Pop
        <5> QED BY <5>2, FrontFacts
      <4>3. Len(stack[k].open) <= Len(Open')
        <5>1. stack' # <<>> /\ Open' = stack[Len(stack) - 1].open
          BY <1>2 DEF Open, Top
        <5>2. k \in 1..Len(stack) /\ Len(stack) - 1 \in 1..Len(stack) /\ k <= Len(stack) - 1
          BY <1>2
        <5> QED BY <1>3, <5>1, <5>2 DEF MarksExplained
      <4>4. Len(stack[k].open) \in 1..(Len(marks) - 1)
        BY <3>1, <4>1, <4>2, <4>3
      <4>5. marks # <<>>
        BY <3>1, <4>1
      <4>6. /\ Len(marks') = Len(marks) - 1
            /\ \A i \in 1..(Len(marks) - 1) : marks'[i] = marks[i]
        BY <3>3, <4>1, <4>5, FrontFacts
      <4> QED BY <2>1, <3>1, <4>4, <4>6
    <3> QED BY <3>2, <3>3
  <2> QED BY <1>2, <1>3, <2>1, <2>2 DEF MarksExplained
<1>8. StringExplained(d)'
  <2>1. ASSUME stack' # <<>> PROVE Top'.p.type # "string"
    <3>1. Len(stack') # 0
      BY <1>2, <2>1
    <3>2. Len(stack) - 1 \in 1..(Len(stack) - 1) /\ Len(stack) - 1 \in 1..Len(stack)
          /\ Len(stack) - 1 # Len(stack)
      BY <1>2, <3>1
    <3>3. Top' = stack[Len(stack) - 1]
      BY <1>2, <3>2 DEF Top
    <3> QED BY <1>1, <3>2, <3>3 DEF StringsOnTop
  <2> QED BY <2>1 DEF StringExplained
<1>9. ASSUME NEW q, NEW from, NEW was,
             q = Top.p, from = b[Len(stack)].from, was = b[Len(stack)].was
      PROVE  Runs(d, Len(stack), q, from, was)'
  <2>1. Len(stack) \in 1..Len(stack) /\ Top = stack[Len(stack)]
    BY <1>2 DEF Top
  <2>2. PICK n : n = Len(stack) - 1
    OBVIOUS
  <2>3. Runs(d, n, q, from, was)'
    BY <1>5, <1>9, <2>1, <2>2
  <2> QED BY <1>2, <2>2, <2>3 DEF Runs
<1> QED BY <1>6, <1>7, <1>8, <1>9

----------------------------------------------------------------------------
(* A call that begins *)

\* A parser with parts calls the first.
CallsFirst ==
    \E p \in todo :
        /\ HasParts(p) /\ p.type # "string" /\ Push(Frame(p, <<>>)) /\ Call(Part(p, 0))
        /\ at' = at /\ backtrack' = PartWas(p, backtrack)
        /\ marks' = IF p.type \in Marking /\ backtrack >= 1 THEN Append(marks, at) ELSE marks

LEMMA BeginCalls ==
    ASSUME InputInv, Begin
    PROVE  CallsFirst
<1>1. backtrack \in Int /\ CallsType
  BY Here DEF InputInv, PInv, IInv
<1>2. PICK p \in todo :
        /\ Push(Frame(p, <<>>))
        /\ \/ p.type \in {"apply", "check", "maybe", "many", "many1", "count", "expect"}
              /\ Call(p.x) /\ UNCHANGED input
           \/ p.type = "predict" /\ Call(p.x) /\ In!Backtracking(-1)
           \/ p.type = "not" /\ Call(p.x) /\ In!Mark
           \/ p.type = "or" /\ p.xs # <<>> /\ Call(Head(p.xs)) /\ UNCHANGED input
           \/ p.type = "and" /\ p.xs # <<>> /\ Call(Head(p.xs)) /\ In!Mark
  BY DEF Begin
<1>3. p \in Parsers
  BY <1>1, TodoType
<1>4. HasParts(p) /\ p.type # "string"
  BY <1>2 DEF HasParts, OnePart
<1>5. Call(Part(p, 0))
  <2>1. p.type \in {"and", "or"} => Head(p.xs) = p.xs[0 + 1]
    BY <1>3, ParsersAssumption
  <2> QED BY <1>2, <2>1 DEF Part, OnePart
<1>6. at' = at /\ backtrack' = PartWas(p, backtrack)
  BY <1>1, <1>2, InputAfter DEF PartWas
<1>7. marks' = IF p.type \in Marking /\ backtrack >= 1 THEN Append(marks, at) ELSE marks
  <2>1. backtrack < 1 <=> ~(backtrack >= 1)
    BY <1>1
  <2> QED BY <1>2, <2>1, InputAfter DEF Marking
<1> QED BY <1>2, <1>4, <1>5, <1>6, <1>7 DEF CallsFirst

LEMMA BeginExplained ==
    ASSUME InputInv, Fixed, CallsFirst, NEW b, Explained(b)
    PROVE  \E d : Explained(d)'
<1>1. PICK p \in todo :
        /\ HasParts(p) /\ p.type # "string" /\ Push(Frame(p, <<>>)) /\ Call(Part(p, 0))
        /\ at' = at /\ backtrack' = PartWas(p, backtrack)
        /\ marks' = IF p.type \in Marking /\ backtrack >= 1 THEN Append(marks, at) ELSE marks
  BY DEF CallsFirst
<1>2. PICK d : d = Append(b, [from |-> Spot(at), was |-> backtrack])
  OBVIOUS
<1>3. <<>> \in Seq(Chars)
  OBVIOUS
<1>4. /\ CallsExplained(d)' /\ MarksExplained(d)'
      /\ Len(stack') = Len(stack) + 1 /\ Len(stack) \in Nat
      /\ stack'[Len(stack) + 1] = Frame(p, <<>>)
      /\ d[Len(stack) + 1] = [from |-> Spot(at), was |-> backtrack]
  BY <1>1, <1>2, <1>3, PushExplained
<1>5. CallsType /\ backtrack \in Int /\ backtrack <= 1
  BY Here DEF InputInv, PInv, IInv, Explained
<1>6. p \in Parsers
  BY <1>1, <1>5, TodoType
<1>7. Frame(p, <<>>).p = p /\ Frame(p, <<>>).j = 0
  BY <1>3, <1>5, <1>6, FrameType
<1>8. todo' = {Part(p, 0)} /\ out' = {}
  BY <1>1 DEF Call
<1>9. TodoExplained(d)'
  <2>1. Got(0, Spot(at)) \in Reaches(text, p, backtrack >= 1, Spot(at))
    <3>1. (backtrack >= 1) \in BOOLEAN /\ text \in Texts /\ Spot(at) \in Spots(text)
      BY Here
    <3> QED BY <1>1, <1>6, <3>1, Rules
  <2>2. /\ stack'[Len(stack')].p = p /\ stack'[Len(stack')].j = 0 /\ Len(stack') # 0
        /\ d[Len(stack')].from = Spot(at) /\ d[Len(stack')].was = backtrack
    BY <1>4, <1>7
  <2>3. text' = text /\ Spot(at') = Spot(at)
    BY <1>1 DEF Fixed
  <2>4. ASSUME NEW q \in todo' PROVE Runs(d, Len(stack), q, Spot(at), backtrack)'
    BY <1>1, <1>8, <2>1, <2>2, <2>3, <2>4 DEF Runs
  <2> QED BY <2>4 DEF TodoExplained
<1>10. OutExplained(d)'
  BY <1>8 DEF OutExplained
<1>11. StringExplained(d)'
  <2>1. Top'.p = p
    BY <1>4, <1>7 DEF Top
  <2> QED BY <1>1, <2>1 DEF StringExplained
<1>12. backtrack' <= 1
  BY <1>1, <1>5 DEF PartWas
<1> QED BY <1>4, <1>9, <1>10, <1>11, <1>12 DEF Explained

----------------------------------------------------------------------------
(* A call whose part has answered *)

LEMMA PartAnswered ==
    ASSUME InputInv, NEW b, Explained(b), stack # <<>>, NEW o \in out,
           NEW f, f = b[Len(stack)], NEW on, on = (f.was >= 1),
           NEW v, v = Verdict(text, Top.p, Top.j, o.ok, Spot(at))
    PROVE  /\ HasParts(Top.p) /\ Top.p \in Parsers
           /\ f.from \in Spots(text) /\ f.was <= 1 /\ f.was \in Int
           /\ backtrack = PartWas(Top.p, f.was)
           /\ WantsMore(Top.p, Top.j, o.ok) /\ (Top.p.type \in {"many", "many1"} => Top.j < MaxResults)
                 => Got(Top.j + 1, Spot(at)) \in Reaches(text, Top.p, on, f.from)
           /\ ~WantsMore(Top.p, Top.j, o.ok) =>
                 Gives(v, LeftAt(Top.p, on, f.from, v, Spot(at))) \in Answers(text, Top.p, on, f.from)
<1>1. CallsType /\ Len(stack) \in 1..Len(stack) /\ Len(stack) # 0
  BY TopType DEF InputInv, PInv, IInv
<1>2. Top \in Frames /\ Top.p \in Parsers /\ stack[Len(stack)] = Top
  BY <1>1, TopType DEF Frames, Top
<1>3. f.from \in Spots(text) /\ f.was <= 1 /\ f.was \in Int
  <2>1. CallsExplained(b)
    BY DEF Explained
  <2>2. b[Len(stack)] \in Beginning
    BY <1>1, <2>1 DEF CallsExplained
  <2> QED BY <1>1, <2>1, <2>2 DEF CallsExplained, Beginning
<1>4. PICK p \in Parsers, c \in Spots(text) :
        /\ Runs(b, Len(stack), p, c, backtrack)
        /\ Gives(o.ok, Spot(at)) \in Answers(text, p, backtrack >= 1, c)
  BY DEF Explained, OutExplained
<1>5. /\ HasParts(Top.p) /\ p = Part(Top.p, Top.j) /\ backtrack = PartWas(Top.p, f.was)
      /\ Got(Top.j, c) \in Reaches(text, Top.p, on, f.from)
  BY <1>1, <1>2, <1>4 DEF Runs
<1>6. on \in BOOLEAN /\ text \in Texts
  BY Here
<1>7. (backtrack >= 1) = PartOn(Top.p, on)
  <2>1. CASE Top.p.type = "predict"
    <3>1. (backtrack >= 1) = FALSE
      BY <1>3, <1>5, <2>1 DEF PartWas
    <3>2. PartOn(Top.p, on) = FALSE
      BY <1>6, <2>1 DEF PartOn
    <3> QED BY <3>1, <3>2
  <2>2. CASE Top.p.type # "predict"
    <3>1. backtrack = f.was
      BY <1>5, <2>2 DEF PartWas
    <3>2. PartOn(Top.p, on) = on
      BY <1>6, <2>2 DEF PartOn
    <3> QED BY <3>1, <3>2
  <2> QED BY <2>1, <2>2
<1>8. Gives(o.ok, Spot(at)) \in Answers(text, Part(Top.p, Top.j), PartOn(Top.p, on), c)
  BY <1>4, <1>5, <1>7
<1>9. /\ WantsMore(Top.p, Top.j, o.ok) /\ (Top.p.type \in {"many", "many1"} => Top.j < MaxResults)
           => Got(Top.j + 1, Spot(at)) \in Reaches(text, Top.p, on, f.from)
      /\ ~WantsMore(Top.p, Top.j, o.ok) =>
           LET w == Verdict(text, Top.p, Top.j, o.ok, Spot(at))
           IN  Gives(w, LeftAt(Top.p, on, f.from, w, Spot(at))) \in Answers(text, Top.p, on, f.from)
  BY <1>2, <1>3, <1>5, <1>6, <1>8, GoOnRule
<1> QED BY <1>2, <1>3, <1>5, <1>9

\* A call goes on to the next of its parts.
CallsNext ==
    /\ stack # <<>> /\ at' = at /\ marks' = marks /\ backtrack' = backtrack
    /\ Top.p.type \in {"many", "many1"} => Top.j < MaxResults
    /\ \E o \in out : WantsMore(Top.p, Top.j, o.ok)
    /\ \E f \in Frames : Turn(f) /\ f.p = Top.p /\ f.open = Top.open /\ f.j = Top.j + 1
    /\ Call(Part(Top.p, Top.j + 1))

LEMMA GoOnCalls ==
    ASSUME InputInv, \/ ManyMore \/ CountMore \/ AndNext
                     \/ OrNext /\ Top.j + 1 < Len(Top.p.xs)
    PROVE  CallsNext
<1>1. CallsType /\ stack # <<>> /\ UNCHANGED input
  BY DEF InputInv, PInv, IInv, ManyMore, CountMore, AndNext, OrNext, Succeeded, Failed
<1>2. at' = at /\ marks' = marks /\ backtrack' = backtrack
  BY <1>1, InputAfter
<1>3. /\ Top.j \in Nat /\ Top.room \in Rooms /\ Top.p \in Parsers
      /\ LET f == [Top EXCEPT !.j = @ + 1]
         IN  f \in Frames /\ f.p = Top.p /\ f.open = Top.open /\ f.j = Top.j + 1
  BY <1>1, TurnedType
<1>4. CASE ManyMore
  <2>1. Turn(OneMore(Top)) /\ Call(Top.p.x) /\ Top.j < MaxResults /\ Succeeded({"many", "many1"})
    BY <1>4 DEF ManyMore
  <2> DEFINE n == Top.j + 1
             r == IF n = StackMin \/ n >= Top.room THEN n + n \div 2 ELSE Top.room
  <2>2. r \in Rooms
    <3>1. n \in Nat /\ Top.room \in Rooms
      BY <1>3
    <3> HIDE DEF n
    <3> QED BY <3>1, OneMoreFits
  <2>3. OneMore(Top) = [Top EXCEPT !.j = Top.j + 1, !.room = r]
    BY DEF OneMore
  <2> HIDE DEF r
  <2>4. /\ OneMore(Top) \in Frames /\ OneMore(Top).p = Top.p
        /\ OneMore(Top).open = Top.open /\ OneMore(Top).j = Top.j + 1
    BY <1>1, <2>2, <2>3, TurnedType
  <2>5. Part(Top.p, Top.j + 1) = Top.p.x /\ \E o \in out : WantsMore(Top.p, Top.j, o.ok)
    BY <2>1 DEF Succeeded, Part, OnePart, WantsMore
  <2> QED BY <1>1, <1>2, <2>1, <2>4, <2>5 DEF CallsNext
<1>5. CASE CountMore
  <2>1. /\ Turn([Top EXCEPT !.j = @ + 1]) /\ Call(Top.p.x) /\ Top.p.type = "count"
        /\ \E o \in out : WantsMore(Top.p, Top.j, o.ok)
    BY <1>5 DEF CountMore, Succeeded, WantsMore
  <2>2. Part(Top.p, Top.j + 1) = Top.p.x
    BY <2>1 DEF Part, OnePart
  <2> QED BY <1>1, <1>2, <1>3, <2>1, <2>2 DEF CallsNext
<1>6. CASE AndNext \/ (OrNext /\ Top.j + 1 < Len(Top.p.xs))
  <2>1. /\ Turn([Top EXCEPT !.j = @ + 1]) /\ Call(Top.p.xs[Top.j + 2])
        /\ Top.p.type \in {"and", "or"}
        /\ \E o \in out : WantsMore(Top.p, Top.j, o.ok)
    BY <1>6 DEF AndNext, OrNext, Succeeded, Failed, WantsMore
  <2>2. Part(Top.p, Top.j + 1) = Top.p.xs[Top.j + 2]
    <3>1. Top.j + 1 + 1 = Top.j + 2
      BY <1>3
    <3> QED BY <2>1, <3>1 DEF Part, OnePart
  <2> QED BY <1>1, <1>2, <1>3, <2>1, <2>2 DEF CallsNext
<1> QED BY <1>4, <1>5, <1>6

LEMMA GoOnExplained ==
    ASSUME InputInv, Fixed, CallsNext, NEW b, Explained(b)
    PROVE  Explained(b)'
<1>1. /\ stack # <<>> /\ at' = at /\ marks' = marks /\ backtrack' = backtrack
      /\ Top.p.type \in {"many", "many1"} => Top.j < MaxResults
      /\ todo' = {Part(Top.p, Top.j + 1)} /\ out' = {}
  BY DEF CallsNext, Call
<1>2. PICK o \in out : WantsMore(Top.p, Top.j, o.ok)
  BY DEF CallsNext
<1>3. PICK f \in Frames : Turn(f) /\ f.p = Top.p /\ f.open = Top.open /\ f.j = Top.j + 1
  BY DEF CallsNext
<1>4. /\ CallsExplained(b)' /\ MarksExplained(b)'
      /\ Len(stack') = Len(stack) /\ Len(stack) \in Nat \ {0} /\ stack'[Len(stack)] = f
  BY <1>1, <1>3, TurnExplained
<1>5. PICK g, on, v : /\ g = b[Len(stack)] /\ on = (g.was >= 1)
                      /\ v = Verdict(text, Top.p, Top.j, o.ok, Spot(at))
  OBVIOUS
<1>6. /\ HasParts(Top.p) /\ backtrack = PartWas(Top.p, g.was)
      /\ Got(Top.j + 1, Spot(at)) \in Reaches(text, Top.p, on, g.from)
  BY <1>1, <1>2, <1>5, PartAnswered
<1>7. TodoExplained(b)'
  <2>1. ASSUME NEW q \in todo' PROVE Runs(b, Len(stack), q, Spot(at), backtrack)'
    <3>1. q = Part(f.p, f.j)
      BY <1>1, <1>3, <2>1
    <3>2. text' = text /\ Spot(at') = Spot(at) /\ Len(stack') # 0 /\ stack'[Len(stack')] = f
      BY <1>1, <1>4 DEF Fixed
    <3>3. /\ HasParts(f.p) /\ backtrack' = PartWas(f.p, b[Len(stack')].was)
          /\ Got(f.j, Spot(at')) \in Reaches(text', f.p, b[Len(stack')].was >= 1, b[Len(stack')].from)
      BY <1>1, <1>3, <1>4, <1>5, <1>6, <3>2
    <3> QED BY <3>1, <3>2, <3>3 DEF Runs
  <2> QED BY <2>1 DEF TodoExplained
<1>8. OutExplained(b)'
  BY <1>1 DEF OutExplained
<1>9. StringExplained(b)'
  <2>1. Top'.p = Top.p
    BY <1>3, <1>4 DEF Top
  <2>2. Top.p.type # "string"
    BY <1>6 DEF HasParts, OnePart
  <2> QED BY <2>1, <2>2 DEF StringExplained
<1> QED BY <1>1, <1>4, <1>7, <1>8, <1>9 DEF Explained

----------------------------------------------------------------------------
(* A call that returns *)

AnswersForPart ==
    /\ stack # <<>> /\ Pop
    /\ \E o \in out, ok \in BOOLEAN : \E err :
          /\ Answer(ok, err) /\ ~WantsMore(Top.p, Top.j, o.ok)
          /\ ok = Verdict(text, Top.p, Top.j, o.ok, Spot(at))
          /\ \/ Top.p.type = "predict" /\ In!Backtracking(1)
             \/ Top.p.type \in {"not", "and"} /\ (IF ok THEN In!Unmark ELSE In!Rewind)
             \/ Top.p.type \notin Owing /\ UNCHANGED input

LEMMA HandOnAnswers ==
    ASSUME InputInv, HandOn \/ HandOnFailure \/ CheckPasses \/ CheckFails \/ ExpectFails
    PROVE  AnswersForPart
<1>1. Before(text, Spot(at)) = at.last
  BY Here
<1>2. CASE HandOn
  <2>1. PICK o \in out : o.ok
    BY <1>2 DEF HandOn, Succeeded
  <2>2. Top.p.type \in {"apply", "expect", "predict", "maybe"}
    BY <1>2 DEF HandOn, Succeeded
  <2>3. ~WantsMore(Top.p, Top.j, o.ok) /\ Verdict(text, Top.p, Top.j, o.ok, Spot(at)) = o.ok
    BY <2>1, <2>2 DEF WantsMore, Verdict
  <2> QED BY <1>2, <2>1, <2>2, <2>3 DEF HandOn, Succeeded, Owing, Marking, AnswersForPart
<1>3. CASE HandOnFailure
  <2>1. PICK o \in out : ~o.ok
    BY <1>3 DEF HandOnFailure, Failed
  <2>2. Top.p.type \in {"apply", "check", "predict"}
    BY <1>3 DEF HandOnFailure, Failed
  <2>3. ~WantsMore(Top.p, Top.j, o.ok) /\ Verdict(text, Top.p, Top.j, o.ok, Spot(at)) = FALSE
    BY <2>1, <2>2 DEF WantsMore, Verdict
  <2> QED BY <1>3, <2>1, <2>2, <2>3 DEF HandOnFailure, Failed, Owing, Marking, AnswersForPart
<1>4. CASE CheckPasses
  <2>1. PICK o \in out : o.ok
    BY <1>4 DEF CheckPasses, Succeeded
  <2>2. Top.p.type = "check" /\ at.last \in Top.p.of
    BY <1>4 DEF CheckPasses, Succeeded
  <2>3. ~WantsMore(Top.p, Top.j, o.ok) /\ Verdict(text, Top.p, Top.j, o.ok, Spot(at)) = TRUE
    BY <1>1, <2>1, <2>2 DEF WantsMore, Verdict
  <2> QED BY <1>4, <2>1, <2>2, <2>3 DEF CheckPasses, Succeeded, Owing, Marking, AnswersForPart
<1>5. CASE CheckFails
  <2>1. PICK o \in out : o.ok
    BY <1>5 DEF CheckFails, Succeeded
  <2>2. Top.p.type = "check" /\ at.last \notin Top.p.of
    BY <1>5 DEF CheckFails, Succeeded
  <2>3. ~WantsMore(Top.p, Top.j, o.ok) /\ Verdict(text, Top.p, Top.j, o.ok, Spot(at)) = FALSE
    BY <1>1, <2>1, <2>2 DEF WantsMore, Verdict
  <2>4. stack # <<>> /\ Pop /\ UNCHANGED input /\ \E err : Answer(FALSE, err)
    BY <1>5 DEF CheckFails, Succeeded, input
  <2> QED BY <2>1, <2>2, <2>3, <2>4 DEF Owing, Marking, AnswersForPart
<1>6. CASE ExpectFails
  <2>1. PICK o \in out : ~o.ok
    BY <1>6 DEF ExpectFails, Failed
  <2>2. Top.p.type = "expect"
    BY <1>6 DEF ExpectFails, Failed
  <2>3. ~WantsMore(Top.p, Top.j, o.ok) /\ Verdict(text, Top.p, Top.j, o.ok, Spot(at)) = FALSE
    BY <2>1, <2>2 DEF WantsMore, Verdict
  <2>4. stack # <<>> /\ Pop /\ UNCHANGED input /\ \E err : Answer(FALSE, err)
    BY <1>6 DEF ExpectFails, Failed, input
  <2> QED BY <2>1, <2>2, <2>3, <2>4 DEF Owing, Marking, AnswersForPart
<1> QED BY <1>2, <1>3, <1>4, <1>5, <1>6

LEMMA NotAnswers ==
    ASSUME InputInv, NotFails \/ NotSucceeds \/ MaybeNot
    PROVE  AnswersForPart
<1>1. CASE NotFails
  <2>1. PICK o \in out : o.ok
    BY <1>1 DEF NotFails, Succeeded
  <2>2. Top.p.type = "not" /\ stack # <<>> /\ Pop /\ In!Rewind /\ \E err : Answer(FALSE, err)
    BY <1>1 DEF NotFails, Succeeded
  <2>3. ~WantsMore(Top.p, Top.j, o.ok) /\ Verdict(text, Top.p, Top.j, o.ok, Spot(at)) = FALSE
    BY <2>1, <2>2 DEF WantsMore, Verdict
  <2> QED BY <2>1, <2>2, <2>3 DEF AnswersForPart
<1>2. CASE NotSucceeds
  <2>1. PICK o \in out : ~o.ok
    BY <1>2 DEF NotSucceeds, Failed
  <2>2. Top.p.type = "not" /\ stack # <<>> /\ Pop /\ In!Unmark /\ Answer(TRUE, {})
    BY <1>2 DEF NotSucceeds, Failed
  <2>3. ~WantsMore(Top.p, Top.j, o.ok) /\ Verdict(text, Top.p, Top.j, o.ok, Spot(at)) = TRUE
    BY <2>1, <2>2 DEF WantsMore, Verdict
  <2> QED BY <2>1, <2>2, <2>3 DEF AnswersForPart
<1>3. CASE MaybeNot
  <2>1. PICK o \in out : ~o.ok
    BY <1>3 DEF MaybeNot, Failed
  <2>2. Top.p.type = "maybe" /\ stack # <<>> /\ Pop /\ UNCHANGED input /\ Answer(TRUE, {})
    BY <1>3 DEF MaybeNot, Failed
  <2>3. ~WantsMore(Top.p, Top.j, o.ok) /\ Verdict(text, Top.p, Top.j, o.ok, Spot(at)) = TRUE
    BY <2>1, <2>2 DEF WantsMore, Verdict
  <2> QED BY <2>1, <2>2, <2>3 DEF Owing, Marking, AnswersForPart
<1> QED BY <1>1, <1>2, <1>3

LEMMA RepeatAnswers ==
    ASSUME InputInv, ManyEnds \/ Many1Fails \/ CountDone \/ CountFails
    PROVE  AnswersForPart
<1>1. CallsType /\ (stack # <<>> => Top.j \in Nat)
  BY TurnedType DEF InputInv, PInv, IInv
<1>2. CASE ManyEnds
  <2>1. PICK o \in out : ~o.ok
    BY <1>2 DEF ManyEnds, Failed
  <2>2. /\ Top.p.type \in {"many", "many1"} /\ (Top.p.type = "many1" => Top.j > 0)
        /\ stack # <<>> /\ Pop /\ UNCHANGED input /\ Answer(TRUE, {})
    BY <1>2 DEF ManyEnds, Failed
  <2>3. ~WantsMore(Top.p, Top.j, o.ok) /\ Verdict(text, Top.p, Top.j, o.ok, Spot(at)) = TRUE
    BY <1>1, <2>1, <2>2 DEF WantsMore, Verdict
  <2> QED BY <2>1, <2>2, <2>3 DEF Owing, Marking, AnswersForPart
<1>3. CASE Many1Fails
  <2>1. PICK o \in out : ~o.ok
    BY <1>3 DEF Many1Fails, Failed
  <2>2. /\ Top.p.type = "many1" /\ Top.j = 0
        /\ stack # <<>> /\ Pop /\ UNCHANGED input /\ \E err : Answer(FALSE, err)
    BY <1>3 DEF Many1Fails, Failed
  <2>3. ~WantsMore(Top.p, Top.j, o.ok) /\ Verdict(text, Top.p, Top.j, o.ok, Spot(at)) = FALSE
    BY <2>1, <2>2 DEF WantsMore, Verdict
  <2> QED BY <2>1, <2>2, <2>3 DEF Owing, Marking, AnswersForPart
<1>4. CASE CountDone
  <2>1. PICK o \in out : o.ok
    BY <1>4 DEF CountDone, Succeeded
  <2>2. /\ Top.p.type = "count" /\ Top.j + 1 = Top.p.n
        /\ stack # <<>> /\ Pop /\ UNCHANGED input /\ Answer(TRUE, {})
    BY <1>4 DEF CountDone, Succeeded
  <2>3. ~WantsMore(Top.p, Top.j, o.ok) /\ Verdict(text, Top.p, Top.j, o.ok, Spot(at)) = o.ok
    BY <2>1, <2>2 DEF WantsMore, Verdict
  <2> QED BY <2>1, <2>2, <2>3 DEF Owing, Marking, AnswersForPart
<1>5. CASE CountFails
  <2>1. PICK o \in out : ~o.ok
    BY <1>5 DEF CountFails, Failed
  <2>2. /\ Top.p.type = "count"
        /\ stack # <<>> /\ Pop /\ UNCHANGED input /\ \E err : Answer(FALSE, err)
    BY <1>5 DEF CountFails, Failed
  <2>3. ~WantsMore(Top.p, Top.j, o.ok) /\ Verdict(text, Top.p, Top.j, o.ok, Spot(at)) = FALSE
    BY <2>1, <2>2 DEF WantsMore, Verdict
  <2> QED BY <2>1, <2>2, <2>3 DEF Owing, Marking, AnswersForPart
<1> QED BY <1>2, <1>3, <1>4, <1>5

LEMMA ChoiceAnswers ==
    ASSUME InputInv, \/ OrDone \/ AndDone \/ AndFails
                     \/ OrNext /\ ~(Top.j + 1 < Len(Top.p.xs))
    PROVE  AnswersForPart
<1>1. CASE OrDone
  <2>1. PICK o \in out : o.ok
    BY <1>1 DEF OrDone, Succeeded
  <2>2. Top.p.type = "or" /\ stack # <<>> /\ Pop /\ UNCHANGED input /\ Answer(TRUE, {})
    BY <1>1 DEF OrDone, Succeeded
  <2>3. ~WantsMore(Top.p, Top.j, o.ok) /\ Verdict(text, Top.p, Top.j, o.ok, Spot(at)) = o.ok
    BY <2>1, <2>2 DEF WantsMore, Verdict
  <2> QED BY <2>1, <2>2, <2>3 DEF Owing, Marking, AnswersForPart
<1>2. CASE AndDone
  <2>1. PICK o \in out : o.ok
    BY <1>2 DEF AndDone, Succeeded
  <2>2. /\ Top.p.type = "and" /\ Top.j + 1 = Len(Top.p.xs)
        /\ stack # <<>> /\ Pop /\ In!Unmark /\ Answer(TRUE, {})
    BY <1>2 DEF AndDone, Succeeded
  <2>3. CallsType /\ Top.j \in Nat
    BY <2>2, TurnedType DEF InputInv, PInv, IInv
  <2>4. ~(Top.j + 1 < Len(Top.p.xs))
    BY <2>2, <2>3
  <2>5. ~WantsMore(Top.p, Top.j, o.ok) /\ Verdict(text, Top.p, Top.j, o.ok, Spot(at)) = o.ok
    BY <2>1, <2>2, <2>4 DEF WantsMore, Verdict
  <2> QED BY <2>1, <2>2, <2>5 DEF AnswersForPart
<1>3. CASE AndFails
  <2>1. PICK o \in out : ~o.ok
    BY <1>3 DEF AndFails, Failed
  <2>2. Top.p.type = "and" /\ stack # <<>> /\ Pop /\ In!Rewind /\ \E err : Answer(FALSE, err)
    BY <1>3 DEF AndFails, Failed
  <2>3. ~WantsMore(Top.p, Top.j, o.ok) /\ Verdict(text, Top.p, Top.j, o.ok, Spot(at)) = FALSE
    BY <2>1, <2>2 DEF WantsMore, Verdict
  <2> QED BY <2>1, <2>2, <2>3 DEF AnswersForPart
<1>4. CASE OrNext /\ ~(Top.j + 1 < Len(Top.p.xs))
  <2>1. PICK o \in out : ~o.ok
    BY <1>4 DEF OrNext, Failed
  <2>2. /\ Top.p.type = "or" /\ ~(Top.j + 1 < Len(Top.p.xs))
        /\ stack # <<>> /\ Pop /\ UNCHANGED input /\ Answer(FALSE, {})
    BY <1>4 DEF OrNext, Failed
  <2>3. ~WantsMore(Top.p, Top.j, o.ok) /\ Verdict(text, Top.p, Top.j, o.ok, Spot(at)) = FALSE
    BY <2>1, <2>2 DEF WantsMore, Verdict
  <2> QED BY <2>1, <2>2, <2>3 DEF Owing, Marking, AnswersForPart
<1> QED BY <1>1, <1>2, <1>3, <1>4

LEMMA ReturnExplained ==
    ASSUME InputInv, Fixed, AnswersForPart, NEW b, Explained(b)
    PROVE  \E d : Explained(d)'
<1>1. stack # <<>> /\ Pop
  BY DEF AnswersForPart
<1>2. PICK o \in out, ok \in BOOLEAN : \E err :
        /\ Answer(ok, err) /\ ~WantsMore(Top.p, Top.j, o.ok)
        /\ ok = Verdict(text, Top.p, Top.j, o.ok, Spot(at))
        /\ \/ Top.p.type = "predict" /\ In!Backtracking(1)
           \/ Top.p.type \in {"not", "and"} /\ (IF ok THEN In!Unmark ELSE In!Rewind)
           \/ Top.p.type \notin Owing /\ UNCHANGED input
  BY DEF AnswersForPart
<1>3. todo' = {} /\ \A a \in out' : a.ok = ok
  BY <1>2, AnswerFacts
<1>4. PICK f, on : f = b[Len(stack)] /\ on = (f.was >= 1)
  OBVIOUS
<1>5. /\ HasParts(Top.p) /\ Top.p \in Parsers
      /\ f.from \in Spots(text) /\ f.was <= 1 /\ f.was \in Int
      /\ backtrack = PartWas(Top.p, f.was)
      /\ Gives(ok, LeftAt(Top.p, on, f.from, ok, Spot(at))) \in Answers(text, Top.p, on, f.from)
  BY <1>1, <1>2, <1>4, PartAnswered
<1>6. Top.p.type # "string"
  BY <1>5 DEF HasParts, OnePart
<1>7. backtrack \in Int /\ (backtrack < 1 <=> ~(backtrack >= 1))
  BY Here
<1>8. /\ marks' = IF Top.p.type \in Marking /\ backtrack >= 1
                  THEN SubSeq(marks, 1, Len(marks) - 1) ELSE marks
      /\ backtrack' = f.was
  <2>1. CASE Top.p.type = "predict" /\ In!Backtracking(1)
    BY <1>5, <2>1, InputAfter DEF Marking, PartWas
  <2>2. CASE Top.p.type \in {"not", "and"} /\ (IF ok THEN In!Unmark ELSE In!Rewind)
    BY <1>5, <1>7, <2>2, InputAfter DEF Marking, PartWas
  <2>3. CASE Top.p.type \notin Owing /\ UNCHANGED input
    BY <1>5, <2>3, InputAfter DEF Owing, Marking, PartWas
  <2> QED BY <1>2, <2>1, <2>2, <2>3
<1>9. Spot(at') = LeftAt(Top.p, on, f.from, ok, Spot(at))
  <2>1. CASE Top.p.type \notin {"not", "and"}
    <3>1. at' = at
      BY <1>2, <2>1, InputAfter
    <3> QED BY <2>1, <3>1 DEF LeftAt
  <2>2. CASE Top.p.type \in {"not", "and"} /\ ok
    <3>1. at' = at
      BY <1>2, <2>2, InputAfter DEF Owing, Marking
    <3> QED BY <2>2, <3>1 DEF LeftAt
  <2>3. CASE Top.p.type \in {"not", "and"} /\ ~ok
    <3>1. In!Rewind /\ f.was = backtrack
      BY <1>2, <1>5, <2>3 DEF Owing, Marking, PartWas
    <3>2. CASE ~(backtrack >= 1)
      <4>1. at' = at
        BY <1>7, <3>1, <3>2, InputAfter
      <4> QED BY <1>4, <3>1, <3>2, <4>1 DEF LeftAt
    <3>3. CASE backtrack >= 1
      <4>1. at' = marks[Len(marks)]
        BY <1>7, <3>1, <3>3, InputAfter
      <4>2. CallsType /\ Len(stack) \in 1..Len(stack) /\ Top = stack[Len(stack)]
        BY <1>1, TopType DEF InputInv, PInv, IInv, Top
      <4>3. Len(marks) = Len(stack[Len(stack)].open)
        BY <1>1, <3>3, OpenLengths
      <4>4. MarksExplained(b)
        BY DEF Explained
      <4>5. Spot(marks[Len(marks)]) = f.from
        BY <1>4, <2>3, <3>1, <3>3, <4>2, <4>3, <4>4 DEF MarksExplained, Marking
      <4> QED BY <1>4, <2>3, <3>1, <3>3, <4>1, <4>5 DEF LeftAt
    <3> QED BY <3>2, <3>3
  <2> QED BY <2>1, <2>2, <2>3
<1>10. PICK d : d = SubSeq(b, 1, Len(b) - 1)
  OBVIOUS
<1>11. /\ CallsExplained(d)' /\ MarksExplained(d)' /\ StringExplained(d)'
       /\ \A q, from, was : q = Top.p /\ from = f.from /\ was = f.was
             => Runs(d, Len(stack), q, from, was)'
  BY <1>1, <1>4, <1>8, <1>10, PopExplained
<1>12. OutExplained(d)'
  <2>1. PICK q \in Parsers, from \in Spots(text) : q = Top.p /\ from = f.from
    BY <1>5
  <2>8. PICK was : was = f.was
    OBVIOUS
  <2>2. Runs(d, Len(stack), q, from, was)'
    BY <1>11, <2>1, <2>8
  <2>3. Runs(d, Len(stack), q, from, backtrack)'
    BY <1>8, <2>1, <2>2, <2>8 DEF Runs
  <2>4. (backtrack' >= 1) = on
    BY <1>4, <1>8
  <2>5. Gives(ok, Spot(at')) \in Answers(text, q, on, from)
    BY <1>5, <1>9, <2>1
  <2>6. ASSUME NEW a \in out'
        PROVE  Gives(a.ok, Spot(at')) \in Answers(text', q, backtrack' >= 1, from)
    BY <1>3, <2>4, <2>5, <2>6 DEF Fixed
  <2>7. from \in Spots(text')
    BY DEF Fixed
  <2> QED BY <2>3, <2>6, <2>7 DEF OutExplained
<1> QED BY <1>3, <1>5, <1>8, <1>11, <1>12 DEF Explained, TodoExplained

----------------------------------------------------------------------------
(* A string *)

LEMMA StringBeginExplained ==
    ASSUME InputInv, Fixed, StringBegin, NEW b, Explained(b)
    PROVE  \E d : Explained(d)'
<1>1. PICK p \in todo : p.type = "string" /\ Push(Frame(p, p.w))
  BY DEF StringBegin
<1>2. CallsType /\ backtrack \in Int /\ backtrack <= 1 /\ (backtrack < 1 <=> ~(backtrack >= 1))
  BY Here DEF InputInv, PInv, IInv, Explained
<1>3. p \in Parsers /\ p.w \in Seq(Chars) /\ out = {}
  BY <1>1, <1>2, TodoType, ParsersAssumption, TextsAssumption
<1>4. /\ todo' = {} /\ out' = {} /\ at' = at /\ backtrack' = backtrack
      /\ marks' = IF backtrack < 1 THEN marks ELSE Append(marks, at)
  BY <1>3, InputAfter DEF StringBegin
<1>5. marks' = IF p.type \in Marking /\ backtrack >= 1 THEN Append(marks, at) ELSE marks
  BY <1>1, <1>2, <1>4 DEF Marking
<1>6. PICK d : d = Append(b, [from |-> Spot(at), was |-> backtrack])
  OBVIOUS
<1>7. /\ CallsExplained(d)' /\ MarksExplained(d)'
      /\ Len(stack') = Len(stack) + 1 /\ Len(stack) \in Nat
      /\ stack'[Len(stack) + 1] = Frame(p, p.w)
      /\ d[Len(stack) + 1] = [from |-> Spot(at), was |-> backtrack]
  BY <1>1, <1>3, <1>5, <1>6, PushExplained
<1>8. StringExplained(d)'
  <2>1. Top' = Frame(p, p.w) /\ d[Len(stack')] = [from |-> Spot(at), was |-> backtrack]
    BY <1>7 DEF Top
  <2>2. Top'.p = p /\ Top'.lit = p.w
    BY <1>2, <1>3, <2>1, FrameType
  <2>3. Past(Spot(at), 0) = Spot(at)
    <3>1. at.pos \in Nat
      BY Here
    <3> QED BY <3>1 DEF Past, Spot
  <2>4. SubSeq(p.w, 0 + 1, Len(p.w)) = p.w /\ 0 \in 0..Len(p.w)
    BY <1>3
  <2>5. Spells(text, p.w, Spot(at), 0)
    BY DEF Spells
  <2>6. /\ backtrack' = d[Len(stack')].was
        /\ Spot(at') = Past(d[Len(stack')].from, 0)
        /\ Spells(text', Top'.p.w, d[Len(stack')].from, 0)
        /\ Top'.lit = SubSeq(Top'.p.w, 0 + 1, Len(Top'.p.w))
        /\ 0 \in 0..Len(Top'.p.w)
    BY <1>4, <2>1, <2>2, <2>3, <2>4, <2>5 DEF Fixed
  <2> QED BY <2>6 DEF StringExplained
<1>9. TodoExplained(d)' /\ OutExplained(d)'
  BY <1>4 DEF TodoExplained, OutExplained
<1> QED BY <1>2, <1>4, <1>7, <1>8, <1>9 DEF Explained

\* A string in progress.
Spelling(b, w, from, n) ==
    /\ n \in 0..Len(w) /\ w \in Seq(Chars) /\ w = Top.p.w /\ from = b[Len(stack)].from
    /\ Top.p \in Parsers /\ from \in Spots(text) /\ from.pos \in Nat
    /\ backtrack = b[Len(stack)].was /\ Spot(at) = Past(from, n) /\ at.pos = from.pos + n
    /\ Spells(text, w, from, n) /\ Top.lit = SubSeq(w, n + 1, Len(w))

LEMMA StringInProgress ==
    ASSUME InputInv, NEW b, Explained(b), InString
    PROVE  \E w, from, n : Spelling(b, w, from, n)
<1>1. CallsType /\ stack # <<>> /\ Top.p.type = "string"
  BY DEF InString, InputInv, PInv, IInv
<1>2. PICK w, from : w = Top.p.w /\ from = b[Len(stack)].from
  OBVIOUS
<1>3. Top.p \in Parsers /\ w \in Seq(Chars) /\ Len(stack) \in 1..Len(stack)
  <2>1. Top \in Frames /\ Len(stack) \in 1..Len(stack)
    BY <1>1, TopType
  <2>2. Top.p \in Parsers
    BY <2>1 DEF Frames
  <2> QED BY <1>1, <1>2, <2>1, <2>2, ParsersAssumption, TextsAssumption
<1>4. PICK n \in 0..Len(w) :
          /\ backtrack = b[Len(stack)].was /\ Spot(at) = Past(from, n)
          /\ Spells(text, w, from, n) /\ Top.lit = SubSeq(w, n + 1, Len(w))
  BY <1>1, <1>2 DEF Explained, StringExplained
<1>5. from \in Spots(text)
  BY <1>2, <1>3 DEF Explained, CallsExplained
<1>6. from.pos \in Nat /\ at.pos = from.pos + n
  <2>1. from.pos \in 0..Len(text)
    BY <1>5 DEF Spots
  <2>2. Len(text) \in Nat
    BY Here
  <2> QED BY <1>4, <2>1, <2>2 DEF Spot, Past
<1> QED BY <1>2, <1>3, <1>4, <1>5, <1>6 DEF Spelling

\* While there are characters to come, the first of them is the next of the string; the
\* text goes on with it when the input does.
LEMMA NextOfString ==
    ASSUME InputInv, NEW b, NEW w, NEW from, NEW n, Spelling(b, w, from, n)
    PROVE  /\ n \in Nat /\ Len(w) \in Nat
           /\ Top.lit = <<>> <=> n = Len(w)
           /\ Top.lit # <<>> =>
                 /\ n < Len(w) /\ Head(Top.lit) = w[n + 1]
                 /\ Tail(Top.lit) = SubSeq(w, n + 2, Len(w))
                 /\ In!Peek = Head(Top.lit) <=> Spells(text, w, from, n + 1)
<1>1. n \in 0..Len(w) /\ w \in Seq(Chars) /\ Top.lit = SubSeq(w, n + 1, Len(w))
  BY DEF Spelling
<1>2. n \in Nat /\ Len(w) \in Nat
  BY <1>1
<1>3. Top.lit = <<>> <=> n = Len(w)
  <2>1. Len(Top.lit) = Len(w) - n /\ Top.lit \in Seq(Chars)
    BY <1>1
  <2>2. Top.lit = <<>> <=> Len(Top.lit) = 0
    BY <2>1, EmptySeq
  <2> QED BY <1>2, <2>1, <2>2
<1>4. ASSUME Top.lit # <<>>
      PROVE  /\ n < Len(w) /\ Head(Top.lit) = w[n + 1]
             /\ Tail(Top.lit) = SubSeq(w, n + 2, Len(w))
  <2>1. n < Len(w)
    BY <1>1, <1>3, <1>4
  <2>2. Head(Top.lit) = w[n + 1]
    BY <1>1, <2>1
  <2>3. Tail(Top.lit) = SubSeq(w, n + 2, Len(w))
    BY <1>1, <2>1
  <2> QED BY <2>1, <2>2, <2>3
<1>5. ASSUME Top.lit # <<>> PROVE In!Peek = w[n + 1] <=> Spells(text, w, from, n + 1)
  <2>1. n + 1 \in 1..Len(w)
    BY <1>2, <1>4, <1>5
  <2>2. w[n + 1] # Nul
    BY <1>1, <2>1, CharsAssumption
  <2>3. at.pos = from.pos + n /\ from.pos \in Nat /\ Spells(text, w, from, n)
    BY DEF Spelling
  <2>4. In!Peek = w[n + 1] <=> at.pos < Len(text) /\ text[at.pos + 1] = w[n + 1]
    BY <2>2, NextChar
  <2>5. at.pos < Len(text) <=> from.pos + (n + 1) <= Len(text)
    BY <1>2, <2>3, Here
  <2>6. at.pos + 1 = from.pos + (n + 1)
    BY <1>2, <2>3
  <2>7. \A k \in 1..(n + 1) : k \in 1..n \/ k = n + 1
    BY <1>2
  <2>8. n + 1 \in 1..(n + 1)
    BY <1>2
  <2> QED BY <2>3, <2>4, <2>5, <2>6, <2>7, <2>8 DEF Spells
<1> QED BY <1>2, <1>3, <1>4, <1>5

LEMMA StringCharExplained ==
    ASSUME InputInv, Fixed, StringChar, NEW b, Explained(b)
    PROVE  Explained(b)'
<1>1. /\ InString /\ stack # <<>> /\ Top.lit # <<>> /\ In!Peek = Head(Top.lit) /\ In!Accept
      /\ todo' = {} /\ out' = {} /\ Turn([Top EXCEPT !.lit = Tail(@)])
  BY DEF StringChar, InString
<1>2. PICK w, from, n : Spelling(b, w, from, n)
  BY <1>1, StringInProgress
<1>3. /\ n \in Nat /\ Len(w) \in Nat /\ n < Len(w)
      /\ Tail(Top.lit) = SubSeq(w, n + 2, Len(w)) /\ Spells(text, w, from, n + 1)
  BY <1>1, <1>2, NextOfString
<1>4. CallsType /\ backtrack <= 1
  BY DEF InputInv, PInv, IInv, Explained
<1>5. Top.lit \in Seq(Chars)
  BY <1>1, <1>4, TopType DEF Frames
<1>6. Tail(Top.lit) \in Seq(Chars)
  BY <1>1, <1>5
<1>7. PICK f : f = [Top EXCEPT !.lit = Tail(Top.lit)]
  OBVIOUS
<1>8. f \in Frames /\ f.p = Top.p /\ f.open = Top.open /\ f.lit = Tail(Top.lit) /\ Turn(f)
  <2>1. f \in Frames /\ f.p = Top.p /\ f.open = Top.open
    BY <1>1, <1>4, <1>6, <1>7, TurnedType
  <2>2. f.lit = Tail(Top.lit)
    BY <1>1, <1>4, <1>7, TopType DEF Frames
  <2> QED BY <1>1, <1>7, <2>1, <2>2
<1>9. Spot(at') = Past(Spot(at), 1) /\ marks' = marks /\ backtrack' = backtrack
  BY <1>1, InputAfter
<1>10. /\ CallsExplained(b)' /\ MarksExplained(b)'
       /\ Len(stack') = Len(stack) /\ stack'[Len(stack)] = f
  BY <1>1, <1>8, <1>9, TurnExplained
<1>11. StringExplained(b)'
  <2>1. Top' = f /\ Len(stack') = Len(stack)
    BY <1>10 DEF Top
  <2>2. /\ w = Top.p.w /\ from = b[Len(stack)].from /\ backtrack = b[Len(stack)].was
        /\ Spot(at) = Past(from, n) /\ from.pos \in Nat
    BY <1>2 DEF Spelling
  <2>3. Past(Past(from, n), 1) = Past(from, n + 1)
    <3>1. /\ Past(from, n).pos = from.pos + n /\ Past(from, n).term = from.term
          /\ (from.pos + n) + 1 = from.pos + (n + 1)
      BY <1>3, <2>2 DEF Past
    <3> QED BY <3>1 DEF Past
  <2>4. n + 1 \in 0..Len(w) /\ n + 2 = (n + 1) + 1
    BY <1>3
  <2>5. /\ backtrack' = b[Len(stack')].was
        /\ Spot(at') = Past(b[Len(stack')].from, n + 1)
        /\ Spells(text', Top'.p.w, b[Len(stack')].from, n + 1)
        /\ Top'.lit = SubSeq(Top'.p.w, (n + 1) + 1, Len(Top'.p.w))
        /\ n + 1 \in 0..Len(Top'.p.w)
    BY <1>3, <1>8, <1>9, <2>1, <2>2, <2>3, <2>4 DEF Fixed
  <2> QED BY <2>5 DEF StringExplained
<1>12. TodoExplained(b)' /\ OutExplained(b)'
  BY <1>1 DEF TodoExplained, OutExplained
<1> QED BY <1>4, <1>9, <1>10, <1>11, <1>12 DEF Explained

LEMMA StringEndExplained ==
    ASSUME InputInv, Fixed, StringFails \/ StringDone, NEW b, Explained(b)
    PROVE  \E d : Explained(d)'
<1>1. InString /\ stack # <<>> /\ Pop /\ Top.p.type = "string"
  BY DEF StringFails, StringDone, InString
<1>2. PICK w, from, n : Spelling(b, w, from, n)
  BY <1>1, StringInProgress
<1>3. /\ n \in 0..Len(w) /\ w = Top.p.w /\ from = b[Len(stack)].from
      /\ Top.p \in Parsers /\ from \in Spots(text)
      /\ backtrack = b[Len(stack)].was /\ Spot(at) = Past(from, n) /\ Spells(text, w, from, n)
  BY <1>2 DEF Spelling
<1>4. CallsType /\ backtrack \in Int /\ backtrack <= 1 /\ (backtrack < 1 <=> ~(backtrack >= 1))
  BY Here DEF InputInv, PInv, IInv, Explained
<1>5. PICK ok \in BOOLEAN :
          /\ ok <=> n = Len(w)
          /\ ~ok => n < Len(w) /\ ~Spells(text, w, from, n + 1)
          /\ IF ok THEN In!Unmark ELSE In!Rewind
          /\ Answer(ok, {})
  <2>1. CASE StringFails
    BY <1>2, <2>1, NextOfString DEF StringFails
  <2>2. CASE StringDone
    BY <1>2, <2>2, NextOfString DEF StringDone
  <2> QED BY <2>1, <2>2
<1>6. todo' = {} /\ \A a \in out' : a.ok = ok
  BY <1>5, AnswerFacts
<1>7. /\ marks' = IF Top.p.type \in Marking /\ backtrack >= 1
                  THEN SubSeq(marks, 1, Len(marks) - 1) ELSE marks
      /\ backtrack' = backtrack
  BY <1>1, <1>4, <1>5, InputAfter DEF Marking
<1>8. PICK on : on = (backtrack >= 1)
  OBVIOUS
<1>9. Spot(at') = IF n < Len(w) /\ on THEN from ELSE Past(from, n)
  <2>1. n \in Nat /\ Len(w) \in Nat
    BY <1>2, NextOfString
  <2>2. CASE ok \/ backtrack < 1
    BY <1>3, <1>4, <1>5, <1>8, <2>1, <2>2, InputAfter
  <2>3. CASE ~ok /\ ~(backtrack < 1)
    <3>1. at' = marks[Len(marks)]
      BY <1>5, <2>3, InputAfter
    <3>2. Len(stack) \in 1..Len(stack) /\ Top = stack[Len(stack)]
      BY <1>1, <1>4, TopType DEF Top
    <3>3. Len(marks) = Len(stack[Len(stack)].open)
      BY <1>1, <1>4, <2>3, OpenLengths
    <3>4. MarksExplained(b)
      BY DEF Explained
    <3>5. Spot(marks[Len(marks)]) = from
      BY <1>1, <1>3, <1>4, <2>3, <3>2, <3>3, <3>4 DEF MarksExplained, Marking
    <3> QED BY <1>4, <1>5, <1>8, <2>3, <3>1, <3>5
  <2> QED BY <2>2, <2>3
<1>10. Gives(ok, Spot(at')) \in Answers(text, Top.p, on, from)
  <2>1. on \in BOOLEAN /\ text \in Texts
    BY <1>8, Here
  <2>2. LeafAnswers(text, Top.p, on, from) \subseteq Answers(text, Top.p, on, from)
    BY <1>3, <2>1, Rules
  <2>3. LeafAnswers(text, Top.p, on, from) = StringAnswers(text, w, on, from)
    BY <1>1, <1>3 DEF LeafAnswers, Empty
  <2>4. SpellsOnly(text, w, from, n)
    BY <1>3, <1>5 DEF SpellsOnly
  <2>5. ok = (n = Len(w))
    BY <1>5
  <2>6. Gives(ok, Spot(at')) \in StringAnswers(text, w, on, from)
    BY <1>3, <1>9, <2>4, <2>5 DEF StringAnswers
  <2> QED BY <2>2, <2>3, <2>6
<1>11. PICK d : d = SubSeq(b, 1, Len(b) - 1)
  OBVIOUS
<1>12. /\ CallsExplained(d)' /\ MarksExplained(d)' /\ StringExplained(d)'
       /\ \A q, s, was : /\ q = Top.p /\ s = b[Len(stack)].from /\ was = b[Len(stack)].was
             => Runs(d, Len(stack), q, s, was)'
  BY <1>1, <1>7, <1>11, PopExplained
<1>13. OutExplained(d)'
  <2>1. PICK q \in Parsers, s \in Spots(text) : q = Top.p /\ s = from
    BY <1>3
  <2>8. PICK was : was = backtrack
    OBVIOUS
  <2>2. Runs(d, Len(stack), q, s, was)'
    BY <1>3, <1>12, <2>1, <2>8
  <2>3. Runs(d, Len(stack), q, s, backtrack)'
    BY <1>7, <2>1, <2>2, <2>8 DEF Runs
  <2>4. (backtrack' >= 1) = on
    BY <1>7, <1>8
  <2>5. Gives(ok, Spot(at')) \in Answers(text, q, on, s)
    BY <1>10, <2>1
  <2>6. ASSUME NEW a \in out'
        PROVE  Gives(a.ok, Spot(at')) \in Answers(text', q, backtrack' >= 1, s)
    BY <1>6, <2>4, <2>5, <2>6 DEF Fixed
  <2>7. s \in Spots(text')
    BY DEF Fixed
  <2> QED BY <2>3, <2>6, <2>7 DEF OutExplained
<1> QED BY <1>4, <1>6, <1>7, <1>12, <1>13 DEF Explained, TodoExplained

----------------------------------------------------------------------------
(* The invariant and the theorem *)

LEMMA ExplainedStays ==
    ASSUME Fixed, UNCHANGED vars, NEW b, Explained(b)
    PROVE  Explained(b)'
<1>1. /\ text' = text /\ root' = root /\ stack' = stack /\ todo' = todo /\ out' = out
      /\ at' = at /\ marks' = marks /\ backtrack' = backtrack
  BY DEF vars, input
<1> QED BY <1>1 DEF Explained, CallsExplained, TodoExplained, OutExplained, MarksExplained,
                    StringExplained, Runs, Top

LEMMA ExplainedNext ==
    ASSUME InputInv, [Next]_vars, NEW b, Explained(b)
    PROVE  \E d : Explained(d)'
<1>1. Fixed
  BY FixedStep
<1>2. CASE RunOne \/ RunAnchor \/ RunEoi \/ RunPass \/ RunFail
  BY <1>1, <1>2, LeavesAnswer, LeafExplained
<1>3. CASE StringBegin \/ StringFails \/ StringDone
  BY <1>1, <1>3, StringBeginExplained, StringEndExplained
<1>4. CASE StringChar
  BY <1>1, <1>4, StringCharExplained
<1>5. CASE Begin
  BY <1>1, <1>5, BeginCalls, BeginExplained
<1>6. CASE ManyMore \/ CountMore \/ AndNext
  BY <1>1, <1>6, GoOnCalls, GoOnExplained
<1>7. CASE \/ HandOn \/ HandOnFailure \/ CheckPasses \/ CheckFails \/ ExpectFails
           \/ NotFails \/ NotSucceeds \/ MaybeNot
           \/ ManyEnds \/ Many1Fails \/ CountDone \/ CountFails \/ OrDone \/ AndDone
           \/ AndFails
  <2>1. AnswersForPart
    BY <1>7, HandOnAnswers, NotAnswers, RepeatAnswers, ChoiceAnswers
  <2> QED BY <1>1, <2>1, ReturnExplained
<1>8. CASE UNCHANGED vars
  BY <1>1, <1>8, ExplainedStays
<1>9. CASE OrNext
  <2>1. CASE Top.j + 1 < Len(Top.p.xs)
    BY <1>1, <1>9, <2>1, GoOnCalls, GoOnExplained
  <2>2. CASE ~(Top.j + 1 < Len(Top.p.xs))
    <3>1. AnswersForPart
      BY <1>9, <2>2, ChoiceAnswers
    <3> QED BY <1>1, <3>1, ReturnExplained
  <2> QED BY <2>1, <2>2
<1> QED BY <1>2, <1>3, <1>4, <1>5, <1>6, <1>7, <1>8, <1>9, Zenon DEF Next

LEMMA ExplainedInit == Init => Explained(<<>>)
<1> SUFFICES ASSUME Init PROVE Explained(<<>>)
  OBVIOUS
<1>1. /\ stack = <<>> /\ todo = {root} /\ out = {} /\ backtrack = 1
      /\ at = In!Start
  BY DEF Init, In!NewInput
<1>2. Len(stack) = 0 /\ 1..Len(stack) = {} /\ <<>> \in Seq(Beginning) /\ Len(<<>>) = 0
  BY <1>1
<1>3. Spot(at) = Origin
  BY <1>1 DEF Spot, Origin, In!Start
<1>4. CallsExplained(<<>>)
  BY <1>2 DEF CallsExplained
<1>5. TodoExplained(<<>>)
  BY <1>1, <1>2, <1>3 DEF TodoExplained, Runs
<1>6. OutExplained(<<>>) /\ MarksExplained(<<>>) /\ StringExplained(<<>>)
  BY <1>1, <1>2 DEF OutExplained, MarksExplained, StringExplained
<1> QED BY <1>1, <1>4, <1>5, <1>6 DEF Explained

\* Beside a pipe the input is where the text and the marks say.
LEMMA InputHolds == Spec => [](kind # "pipe" => InputInv)
<1>1. InP!TypeOK => In!TypeOK
  BY DEF InP!TypeOK, In!TypeOK, InP!Place, In!Place
<1>2. PInv /\ In!TypeOK /\ In!MarksPaired /\ In!ReadsTheText => (kind # "pipe" => InputInv)
  BY KindsAssumption DEF InputInv, In!TypeOK, In!ReadsTheText
<1> QED BY <1>1, <1>2, PInvInit, PInvNext, ParsesTheInput, ParsesReadTheText, InP!TypeCorrect,
           CharsAssumption, TextsAssumption, KindsAssumption, MarksAssumption, PTL DEF Spec

Meant == kind # "pipe" => \E b : Explained(b)

LEMMA MeantHolds == Spec => []Meant
<1>1. Init => Meant
  BY ExplainedInit DEF Meant
<1>2. (kind # "pipe" => InputInv) /\ Meant /\ [Next]_vars => Meant'
  <2> SUFFICES ASSUME kind # "pipe" => InputInv, Meant, [Next]_vars, kind' # "pipe"
               PROVE  \E d : Explained(d)'
    BY DEF Meant
  <2>1. kind' = kind
    BY FixedStep
  <2>2. InputInv
    BY <2>1
  <2>3. PICK b : Explained(b)
    BY <2>1 DEF Meant
  <2> QED BY <2>2, <2>3, ExplainedNext
<1> QED BY <1>1, <1>2, InputHolds, PTL DEF Spec

\* Whatever parser is run on whatever text of a string or a file, what the stack machine of
\* marks, rewinds and switched-off backtracking answers, and where it leaves the input, can
\* be derived by the rules of what its parsers mean.
THEOREM ParsesAsMeant == Spec => []AnswersAsMeant
<1>1. Meant => AnswersAsMeant
  <2> SUFFICES ASSUME Meant, kind # "pipe", NEW o \in out, Done
               PROVE  Gives(o.ok, Spot(at)) \in Answers(text, root, TRUE, Origin)
    BY DEF AnswersAsMeant
  <2>1. PICK b : Explained(b)
    BY DEF Meant
  <2>2. Len(stack) = 0
    BY DEF Done
  <2>3. PICK p \in Parsers, from \in Spots(text) :
            /\ Runs(b, Len(stack), p, from, backtrack)
            /\ Gives(o.ok, Spot(at)) \in Answers(text, p, backtrack >= 1, from)
    BY <2>1 DEF Explained, OutExplained
  <2>4. p = root /\ from = Origin /\ backtrack = 1
    BY <2>2, <2>3 DEF Runs
  <2>5. (backtrack >= 1) = TRUE
    BY <2>4
  <2> QED BY <2>3, <2>4, <2>5
<1> QED BY <1>1, MeantHolds, PTL

----------------------------------------------------------------------------
(* The memory of the input, for any number of cells, handles and sizes *)

\* A cell that is tried is a cell.
LEMMA TriedIsCell ==
    ASSUME NEW i \in Cells, NEW d \in Cells
    PROVE  (i + d) % CellNum \in Cells
BY PoolAssumption DEF Cells

\* Cells are not the other two kinds of pointer.
LEMMA PointersApart == Malloced \notin Cells /\ Null \notin Cells /\ Malloced # Null
BY PoolAssumption DEF Cells, Malloced, Null

PoolInv == PoolTypeOK /\ CellsAccounted /\ BlocksKeepData

LEMMA PoolInvInit == PoolInit => PoolInv
<1> SUFFICES ASSUME PoolInit PROVE PoolInv
  OBVIOUS
<1>1. 0 \in Cells
  BY PoolAssumption DEF Cells
<1>2. PoolTypeOK
  BY <1>1 DEF PoolInit, PoolTypeOK
<1>3. \A h \in Handles : ptr[h] = Null
  BY DEF PoolInit
<1>4. CellsAccounted
  BY <1>3, PointersApart DEF PoolInit, CellsAccounted, Pooled
<1>5. BlocksKeepData
  BY <1>3 DEF BlocksKeepData
<1> QED BY <1>2, <1>4, <1>5 DEF PoolInv

\* What a step does to the flags, the pointers and the blocks: it gives a handle that
\* has none a pointer, it lets a handle write, it takes a pointer away, it moves a
\* block out of its cell, or it leaves the blocks alone.
BlockGiven(h, x) ==
    /\ ptr[h] = Null /\ mem_index' \in Cells
    /\ wrote' = [wrote EXCEPT ![h] = x]
    /\ \/ \E c \in Cells :
             /\ ~mem_full[c]
             /\ ptr' = [ptr EXCEPT ![h] = c]
             /\ mem' = [mem EXCEPT ![c] = x] /\ heap' = heap
             /\ mem_full' = [mem_full EXCEPT ![c] = TRUE]
       \/ /\ ptr' = [ptr EXCEPT ![h] = Malloced]
          /\ heap' = [heap EXCEPT ![h] = x] /\ mem' = mem
          /\ mem_full' = mem_full

BlockWritten(h, x) ==
    /\ ptr[h] # Null /\ ptr' = [ptr EXCEPT ![h] = ptr[h]]
    /\ wrote' = [wrote EXCEPT ![h] = x]
    /\ IF Pooled(h) THEN mem' = [mem EXCEPT ![ptr[h]] = x] /\ heap' = heap
       ELSE heap' = [heap EXCEPT ![h] = x] /\ mem' = mem
    /\ UNCHANGED <<mem_full, mem_index>>

BlockMoved(h) ==
    /\ Pooled(h) /\ ptr' = [ptr EXCEPT ![h] = Malloced]
    /\ heap' = [heap EXCEPT ![h] = mem[ptr[h]]] /\ mem' = mem
    /\ mem_full' = [mem_full EXCEPT ![ptr[h]] = FALSE]
    /\ UNCHANGED <<mem_index, wrote>>

BlockDropped(h) ==
    /\ ptr[h] # Null /\ ptr' = [ptr EXCEPT ![h] = Null]
    /\ mem_full' = IF Pooled(h) THEN [mem_full EXCEPT ![ptr[h]] = FALSE] ELSE mem_full
    /\ UNCHANGED <<mem_index, mem, heap, wrote>>

BlocksLeft ==
    /\ UNCHANGED <<mem_full, mem_index, heap, ptr, wrote>>
    /\ mem' \in [Cells -> Data]
    /\ mem' = mem \/ \A h \in Handles : ~Pooled(h)

\* Every step is one of these.
LEMMA PoolSteps ==
    ASSUME PoolTypeOK, [PoolNext]_pool
    PROVE  /\ alive' \in BOOLEAN
           /\ \/ \E h \in Handles :
                    \/ \E x \in Data : BlockGiven(h, x) \/ BlockWritten(h, x)
                    \/ BlockMoved(h) \/ BlockDropped(h)
              \/ BlocksLeft
<1>1. CASE UNCHANGED pool
  BY <1>1 DEF pool, BlocksLeft, PoolTypeOK
<1>2. CASE Delete
  BY <1>2 DEF Delete, BlocksLeft, PoolTypeOK
<1>3. ASSUME NEW h \in Handles, NEW n \in Sizes, NEW x \in Data, MallocCell(h, n, x)
      PROVE  alive' \in BOOLEAN /\ BlockGiven(h, x)
  <2>1. PICK d \in Cells :
          /\ ~mem_full[Tried(d)] /\ Store(h, Tried(d), x)
          /\ mem_full' = [mem_full EXCEPT ![Tried(d)] = TRUE]
          /\ mem_index' = (Tried(d) + 1) % CellNum
    BY <1>3 DEF MallocCell
  <2>2. Tried(d) \in Cells
    BY TriedIsCell DEF Tried, PoolTypeOK
  <2>3. mem_index' \in Cells
    BY <2>1, <2>2, PoolAssumption DEF Cells
  <2> QED BY <1>3, <2>1, <2>2, <2>3 DEF MallocCell, Store, BlockGiven, PoolTypeOK
<1>4. ASSUME NEW h \in Handles, NEW n \in Sizes, NEW x \in Data, MallocBlock(h, n, x)
      PROVE  alive' \in BOOLEAN /\ BlockGiven(h, x)
  BY <1>4, PointersApart DEF MallocBlock, Store, BlockGiven, PoolTypeOK
<1>5. ASSUME NEW h \in Handles, NEW x \in Data, Write(h, x)
      PROVE  alive' \in BOOLEAN /\ BlockWritten(h, x)
  BY <1>5 DEF Write, Store, BlockWritten, Pooled, PoolTypeOK
<1>6. ASSUME NEW h \in Handles, Free(h)
      PROVE  alive' \in BOOLEAN /\ BlockDropped(h)
  BY <1>6 DEF Free, Release, BlockDropped, PoolTypeOK
<1>7. ASSUME NEW h \in Handles, Export(h)
      PROVE  alive' \in BOOLEAN /\ (BlockMoved(h) \/ BlocksLeft)
  BY <1>7, PointersApart DEF Export, Store, Release, BlockMoved, BlocksLeft, PoolTypeOK
<1>8. ASSUME NEW h \in Handles, NEW n \in Sizes, Realloc(h, n)
      PROVE  alive' \in BOOLEAN /\ (BlockMoved(h) \/ BlocksLeft)
  BY <1>8, PointersApart DEF Realloc, Store, Release, BlockMoved, BlocksLeft, PoolTypeOK
<1>9. ASSUME NEW h \in Handles, NEW x \in Data, ReallocNull(h, x)
      PROVE  alive' \in BOOLEAN /\ BlockGiven(h, x)
  BY <1>9, PointersApart DEF ReallocNull, Store, BlockGiven, PoolTypeOK
<1> QED BY <1>1, <1>2, <1>3, <1>4, <1>5, <1>6, <1>7, <1>8, <1>9 DEF PoolNext

LEMMA PoolInvNext == PoolInv /\ [PoolNext]_pool => PoolInv'
<1> SUFFICES ASSUME PoolInv, [PoolNext]_pool PROVE PoolInv'
  OBVIOUS
<1>1. PoolTypeOK /\ CellsAccounted /\ BlocksKeepData /\ alive' \in BOOLEAN
  BY PoolSteps DEF PoolInv
<1>2. ASSUME NEW h \in Handles, NEW x \in Data, BlockGiven(h, x)
      PROVE  PoolInv'
  <2>1. PoolTypeOK'
    BY <1>1, <1>2, ZenonT(30) DEF BlockGiven, PoolTypeOK
  <2>2. CellsAccounted'
    BY <1>1, <1>2, PointersApart DEF BlockGiven, PoolTypeOK, CellsAccounted, Pooled
  <2>3. BlocksKeepData'
    BY <1>1, <1>2, PointersApart DEF BlockGiven, PoolTypeOK, CellsAccounted, BlocksKeepData, Contents, Pooled
  <2> QED BY <2>1, <2>2, <2>3 DEF PoolInv
<1>3. ASSUME NEW h \in Handles, NEW x \in Data, BlockWritten(h, x)
      PROVE  PoolInv'
  <2>1. PoolTypeOK'
    BY <1>1, <1>3 DEF BlockWritten, PoolTypeOK
  <2>2. ptr' = ptr /\ mem_full' = mem_full
    BY <1>1, <1>3 DEF BlockWritten, PoolTypeOK
  <2>3. BlocksKeepData'
    BY <1>1, <1>3, PointersApart DEF BlockWritten, PoolTypeOK, CellsAccounted, BlocksKeepData, Contents, Pooled
  <2> QED BY <1>1, <2>1, <2>2, <2>3 DEF PoolInv, CellsAccounted, Pooled
<1>4. ASSUME NEW h \in Handles, BlockMoved(h)
      PROVE  PoolInv'
  <2>1. PoolTypeOK'
    BY <1>1, <1>4 DEF BlockMoved, Pooled, PoolTypeOK
  <2>2. CellsAccounted'
    BY <1>1, <1>4, PointersApart DEF BlockMoved, PoolTypeOK, CellsAccounted, Pooled
  <2>3. BlocksKeepData'
    BY <1>1, <1>4, PointersApart DEF BlockMoved, PoolTypeOK, CellsAccounted, BlocksKeepData, Contents, Pooled
  <2> QED BY <2>1, <2>2, <2>3 DEF PoolInv
<1>5. ASSUME NEW h \in Handles, BlockDropped(h)
      PROVE  PoolInv'
  <2>1. PoolTypeOK'
    BY <1>1, <1>5 DEF BlockDropped, Pooled, PoolTypeOK
  <2>2. CellsAccounted'
    BY <1>1, <1>5, PointersApart DEF BlockDropped, PoolTypeOK, CellsAccounted, Pooled
  <2>3. BlocksKeepData'
    BY <1>1, <1>5, PointersApart DEF BlockDropped, PoolTypeOK, CellsAccounted, BlocksKeepData, Contents, Pooled
  <2> QED BY <2>1, <2>2, <2>3 DEF PoolInv
<1>6. CASE BlocksLeft
  BY <1>1, <1>6 DEF BlocksLeft, PoolInv, PoolTypeOK, CellsAccounted, BlocksKeepData, Contents, Pooled
<1> QED BY <1>1, <1>2, <1>3, <1>4, <1>5, <1>6, PoolSteps

LEMMA PoolInvHolds == PoolSpec => []PoolInv
BY PoolInvInit, PoolInvNext, PTL DEF PoolSpec

\* A cell is marked taken exactly while one pointer refers to it: no cell is lost
\* and none has two owners, for any number of cells, pointers and sizes.
THEOREM CellsHaveOneOwner == PoolSpec => []CellsAccounted
<1>1. PoolInv => CellsAccounted
  BY DEF PoolInv
<1> QED BY <1>1, PoolInvHolds, PTL

\* A block holds what its owner wrote last, for any number of cells, owners and sizes.
THEOREM PoolIsInvisible == PoolSpec => []BlocksKeepData
<1>1. PoolInv => BlocksKeepData
  BY DEF PoolInv
<1> QED BY <1>1, PoolInvHolds, PTL

\* Flags, cells and pointers have the values the code gives them.
THEOREM PoolTypeCorrect == PoolSpec => []PoolTypeOK
<1>1. PoolInv => PoolTypeOK
  BY DEF PoolInv
<1> QED BY <1>1, PoolInvHolds, PTL
=============================================================================
