------------------------------- MODULE MpcRun -------------------------------
(***************************************************************************)
(* Running a parser: mpc_parse_run of core/mpc.c, over the input of        *)
(* MpcInput.                                                               *)
(*                                                                         *)
(* A parser is a record [type, ...] of the kind its constructor builds.    *)
(* The C recursion is a stack of frames; todo is the parser about to be    *)
(* run and out the answer of the one that has just ended.  A value is      *)
(* counted, not represented: live is the number of values that were made   *)
(* and are neither released nor folded into another.  Of an error are kept *)
(* its position, its failure message and the set of its expectations; the  *)
(* order and the wording of a message are left out.                        *)
(***************************************************************************)
EXTENDS Integers, Sequences, FiniteSets

CONSTANTS
    Chars, NL, Nul, Texts, Kinds, Literals, MarksMin, MaxOpen,  \* of MpcInput
    Parsers,     \* bound: the parsers, with all their parts
    Roots,       \* bound: those given to mpc_parse_input
    StackMin,    \* MPC_PARSE_STACK_MIN: the results a frame has room for
    MaxResults   \* bound: results of one repetition

\* The parsers that have one part.
OnePart == {"apply", "check", "expect", "predict", "not", "maybe", "many", "many1", "count"}

\* Those of MpcInput.
ASSUME CharsAssumption == NL \in Chars /\ Nul \notin Chars
ASSUME TextsAssumption == Texts \subseteq Seq(Chars) /\ Literals \subseteq Seq(Chars)
ASSUME KindsAssumption == Kinds \subseteq {"string", "file", "pipe"}
ASSUME MarksAssumption == MarksMin \in Nat \ {0} /\ MaxOpen \in Nat

\* A count is of one or more: mpc_count takes 0 too, but mpc.c:1215-1223 looks at the limit
\* only after a match, so that a count of 0 succeeds if its part fails first, gives that
\* error up, and otherwise writes past the results it has room for.
ASSUME ParsersAssumption ==
    /\ Roots \subseteq Parsers
    /\ \A p \in Parsers :
          /\ p.type = "string" => p.w \in Literals
          /\ p.type \in OnePart => p.x \in Parsers
          /\ p.type = "count" => p.n \in Nat \ {0}
          /\ p.type \in {"and", "or"} => p.xs \in Seq(Parsers)

\* With room for one result only, growing by half would make no room.
ASSUME RunAssumption ==
    StackMin \in Nat /\ StackMin >= 2 /\ MaxResults \in Nat

VARIABLES
    text, kind, at, off, buf, marks, slots, backtrack,  \* the input
    root,      \* the parser given to mpc_parse_input
    stack,     \* calls of mpc_parse_run in progress
    todo,      \* {} or the parser to run next
    out,       \* {} or the answer of the call that has returned
    far,       \* *e: what is known of the furthest errors so far
    suppress,
    live,      \* values in memory
    errs,      \* errors in memory
    rejected,  \* history: values a failed check left behind
    tried      \* history: what was expected and what failed at the furthest place

input == <<text, kind, at, off, buf, marks, slots, backtrack>>
vars  == <<input, root, stack, todo, out, far, suppress, live, errs, rejected, tried>>

Top == stack[Len(stack)]

\* What the calls in progress owe the input, in MpcInput's terms.
Open == IF stack = <<>> THEN <<>> ELSE Top.open

In == INSTANCE MpcInput WITH
    open <- Open,
    lit  <- IF stack # <<>> /\ Top.p.type = "string" THEN {Top.lit} ELSE {}

----------------------------------------------------------------------------
(* Calls, answers and errors *)

\* The error of the part that has returned, if there is one.
Err == UNION {o.err : o \in out}

\* An error is about failures or about expectations: mpc_err_string shows no expectation
\* beside a failure, and mpc_err_or takes none along.
Error(pos, fails, expects) == [pos |-> pos, fails |-> fails, expects |-> expects]

NoPlace == -1  \* mpc_state_invalid

Unknown == Error(NoPlace, {"unknown"}, {})

\* An expectation: the prefix mpc_err_repeat has put to it, and the messages it names.
Plain(message) == <<"", {message}>>

Messages(expects) == UNION {e[2] : e \in expects}

\* Bug: of two errors at the same place the later one is dropped.
TogetherFirst(x, y) == IF y.pos > x.pos THEN y ELSE x

\* mpc_err_or takes what is furthest on; of the failures there, the first one.
Together(x, y) ==
    IF x.pos # y.pos THEN IF x.pos > y.pos THEN x ELSE y
    ELSE IF x.fails # {} THEN x
    ELSE IF y.fails # {} THEN y
    ELSE Error(x.pos, {}, x.expects \cup y.expects)

\* mpc_err_merge
Merge(x, err) == IF err = {} THEN x ELSE Together(x, CHOOSE y \in err : TRUE)

\* mpc_err_repeat, for mpc_err_many1 and mpc_err_count: the expectations become one.
Repeated(prefix, err) ==
    {IF e.fails # {} THEN e ELSE Error(e.pos, {}, {<<prefix, Messages(e.expects)>>})
     : e \in err}

\* Bug: errors are made while they are suppressed.
NewErrorAlways(place, quiet, fails, expects) == {Error(place.pos, fails, expects)}

\* mpc_err_new and mpc_err_fail make no error while errors are suppressed.
NewError(place, quiet, fails, expects) ==
    IF quiet > 0 THEN {} ELSE {Error(place.pos, fails, expects)}

Expected(place, quiet, message) == NewError(place, quiet, {}, {Plain(message)})
Failure(place, quiet, message)  == NewError(place, quiet, {message}, {})

\* Everything that was expected or failed at the furthest place any error was about.
Record(t, e) ==
    IF e.pos # t.pos THEN IF e.pos > t.pos THEN e ELSE t
    ELSE Error(t.pos, t.fails \cup e.fails, t.expects \cup e.expects)

Made(err) ==
    /\ errs' = errs + Cardinality(err)
    /\ tried' = IF err = {} THEN tried ELSE Record(tried, CHOOSE e \in err : TRUE)

NoError == UNCHANGED <<errs, tried>>

\* *e and the error of the part are released for one made of the two.
Merged == far' = Merge(far, Err) /\ errs' = errs - Cardinality(Err) /\ UNCHANGED tried

Answer(ok, err) == todo' = {} /\ out' = {[ok |-> ok, err |-> err]}

Call(p) == todo' = {p} /\ out' = {}

\* What a parser owes the input until it returns, and the backtrack it found.
Owes(p) ==
    IF p.type \in {"string", "not", "and"} THEN <<[what |-> "mark", was |-> backtrack]>>
    ELSE IF p.type = "predict" THEN <<[what |-> "predict", was |-> backtrack]>>
    ELSE <<>>

\* History: open, what this call and those above it owe the input.
Frame(p, lit) ==
    [p |-> p, j |-> 0, lit |-> lit, room |-> StackMin, open |-> Open \o Owes(p)]

Push(f) == Len(f.open) <= MaxOpen /\ stack' = Append(stack, f)
Pop     == stack' = SubSeq(stack, 1, Len(stack) - 1)
Turn(f) == stack' = [stack EXCEPT ![Len(stack)] = f]

Init ==
    /\ In!NewInput
    /\ root \in Roots /\ todo = {root} /\ stack = <<>> /\ out = {}
    /\ far = Unknown /\ tried = Unknown /\ errs = 1
    /\ suppress = 0 /\ live = 0 /\ rejected = 0

----------------------------------------------------------------------------
(* Parsers without parts *)

\* any, single, range, oneof, noneof, satisfy: a character of the set p.of.
RunOne ==
    /\ \E p \in todo :
          /\ p.type = "one"
          /\ \/ /\ In!Peek \in p.of /\ In!Accept
                /\ Answer(TRUE, {}) /\ live' = live + 1
             \/ /\ In!Peek \notin p.of
                /\ Answer(FALSE, {}) /\ UNCHANGED <<input, live>>
    /\ NoError /\ UNCHANGED <<root, stack, far, suppress, rejected>>

\* soi, and the anchor for the start of a line.
Holds(p) == IF p.type = "soi" THEN at.last = Nul ELSE at.last = NL

RunAnchor ==
    /\ \E p \in todo :
          /\ p.type \in {"soi", "anchor"}
          /\ Answer(Holds(p), {}) /\ live' = IF Holds(p) THEN live + 1 ELSE live
    /\ NoError /\ UNCHANGED <<input, root, stack, far, suppress, rejected>>

RunEoi ==
    /\ \E p \in todo : p.type = "eoi"
    /\ \/ In!Eoi /\ Answer(TRUE, {}) /\ live' = live + 1
       \/ /\ ~(at.term = 0 /\ In!Terminated)
          /\ Answer(FALSE, {}) /\ UNCHANGED <<input, live>>
    /\ NoError /\ UNCHANGED <<root, stack, far, suppress, rejected>>

\* pass, lift, lift_val and state, and the empty and and or, read nothing.
Empty(p) == p.type \in {"and", "or"} /\ p.xs = <<>>

RunPass ==
    /\ \E p \in todo : p.type = "pass" \/ Empty(p)
    /\ Answer(TRUE, {}) /\ live' = live + 1
    /\ NoError /\ UNCHANGED <<input, root, stack, far, suppress, rejected>>

\* fail, and a parser that is not defined.
RunFail ==
    /\ \E p \in todo : p.type = "fail"
    /\ LET err == Failure(at, suppress, "fail") IN Answer(FALSE, err) /\ Made(err)
    /\ UNCHANGED <<input, root, stack, far, suppress, live, rejected>>

StringBegin ==
    /\ \E p \in todo : p.type = "string" /\ Push(Frame(p, p.w))
    /\ todo' = {} /\ In!Mark
    /\ NoError /\ UNCHANGED <<root, out, far, suppress, live, rejected>>

InString == todo = {} /\ out = {} /\ stack # <<>> /\ Top.p.type = "string"

StringChar ==
    /\ InString /\ Top.lit # <<>> /\ In!Peek = Head(Top.lit)
    /\ In!Accept
    /\ Turn([Top EXCEPT !.lit = Tail(@)])
    /\ NoError /\ UNCHANGED <<root, todo, out, far, suppress, live, rejected>>

StringFails ==
    /\ InString /\ Top.lit # <<>> /\ In!Peek # Head(Top.lit)
    /\ In!Rewind /\ Pop /\ Answer(FALSE, {})
    /\ NoError /\ UNCHANGED <<root, far, suppress, live, rejected>>

StringDone ==
    /\ InString /\ Top.lit = <<>>
    /\ In!Unmark /\ Pop /\ Answer(TRUE, {}) /\ live' = live + 1
    /\ NoError /\ UNCHANGED <<root, far, suppress, rejected>>

----------------------------------------------------------------------------
(* Calling the first part of a parser *)

Begin ==
    /\ \E p \in todo :
          \/ /\ p.type \in {"apply", "check", "maybe", "many", "many1", "count"}
             /\ Push(Frame(p, <<>>)) /\ Call(p.x)
             /\ UNCHANGED <<input, suppress>>
          \/ /\ p.type = "expect"
             /\ Push(Frame(p, <<>>)) /\ Call(p.x)
             /\ suppress' = suppress + 1 /\ UNCHANGED input
          \/ /\ p.type = "predict"
             /\ Push(Frame(p, <<>>)) /\ Call(p.x)
             /\ In!Backtracking(-1) /\ UNCHANGED suppress
          \/ /\ p.type = "not"
             /\ Push(Frame(p, <<>>)) /\ Call(p.x)
             /\ In!Mark /\ suppress' = suppress + 1
          \/ /\ p.type = "or" /\ p.xs # <<>>
             /\ Push(Frame(p, <<>>)) /\ Call(Head(p.xs))
             /\ UNCHANGED <<input, suppress>>
          \/ /\ p.type = "and" /\ p.xs # <<>>
             /\ Push(Frame(p, <<>>)) /\ Call(Head(p.xs))
             /\ In!Mark /\ UNCHANGED suppress
    /\ NoError /\ UNCHANGED <<root, far, live, rejected>>

----------------------------------------------------------------------------
(* Going on with the answer of a part *)

\* The answer of the top frame's part: it succeeded, or failed with error err.
Succeeded(types) ==
    stack # <<>> /\ Top.p.type \in types /\ \E o \in out : o.ok
Failed(types) ==
    stack # <<>> /\ Top.p.type \in types /\ \E o \in out : ~o.ok

\* Bug: suppression ends with any parser that hands a success on.
HandOnUnsuppressed ==
    /\ Succeeded({"apply", "expect", "predict", "maybe"})
    /\ Pop /\ Answer(TRUE, {})
    /\ suppress' = suppress - 1
    /\ IF Top.p.type = "predict" THEN In!Backtracking(1) ELSE UNCHANGED input
    /\ NoError /\ UNCHANGED <<root, far, live, rejected>>

\* apply, expect and predict hand a success on; for maybe it is the value.
HandOn ==
    /\ Succeeded({"apply", "expect", "predict", "maybe"})
    /\ Pop /\ Answer(TRUE, {})
    /\ suppress' = IF Top.p.type = "expect" THEN suppress - 1 ELSE suppress
    /\ IF Top.p.type = "predict" THEN In!Backtracking(1) ELSE UNCHANGED input
    /\ NoError /\ UNCHANGED <<root, far, live, rejected>>

\* apply, check and predict hand a failure on.
HandOnFailure ==
    /\ Failed({"apply", "check", "predict"})
    /\ Pop /\ Answer(FALSE, Err)
    /\ IF Top.p.type = "predict" THEN In!Backtracking(1) ELSE UNCHANGED input
    /\ NoError /\ UNCHANGED <<root, far, suppress, live, rejected>>

\* The check's function looks at the value; here, at its last character.
CheckPasses ==
    /\ Succeeded({"check"}) /\ at.last \in Top.p.of
    /\ Pop /\ Answer(TRUE, {})
    /\ NoError /\ UNCHANGED <<input, root, far, suppress, live, rejected>>

\* A value the check turns down is not released.
CheckFails ==
    /\ Succeeded({"check"}) /\ at.last \notin Top.p.of
    /\ LET err == Failure(at, suppress, "check") IN Pop /\ Answer(FALSE, err) /\ Made(err)
    /\ rejected' = rejected + 1
    /\ UNCHANGED <<input, root, far, suppress, live>>

\* The part's own error is given up for one made of the expectation.
ExpectFails ==
    /\ Failed({"expect"})
    /\ suppress' = suppress - 1
    /\ LET err == Expected(at, suppress', Top.p.m) IN Pop /\ Answer(FALSE, err) /\ Made(err)
    /\ UNCHANGED <<input, root, far, live, rejected>>

NotFails ==
    /\ Succeeded({"not"})
    /\ In!Rewind /\ suppress' = suppress - 1 /\ live' = live - 1
    /\ LET err == Expected(at', suppress', "opposite")
       IN  Pop /\ Answer(FALSE, err) /\ Made(err)
    /\ UNCHANGED <<root, far, rejected>>

\* Bug: the mark of a not stays open.
NotSucceedsMarked ==
    /\ Failed({"not"})
    /\ suppress' = suppress - 1 /\ live' = live + 1
    /\ Pop /\ Answer(TRUE, {})
    /\ NoError /\ UNCHANGED <<input, root, far, rejected>>

NotSucceeds ==
    /\ Failed({"not"})
    /\ In!Unmark /\ suppress' = suppress - 1 /\ live' = live + 1
    /\ Pop /\ Answer(TRUE, {})
    /\ NoError /\ UNCHANGED <<root, far, rejected>>

MaybeNot ==
    /\ Failed({"maybe"})
    /\ Merged /\ live' = live + 1
    /\ Pop /\ Answer(TRUE, {})
    /\ UNCHANGED <<input, root, suppress, rejected>>

\* Bug: the array of results grows one result late.
OneMoreLate(f) ==
    LET n == f.j + 1
    IN  [f EXCEPT !.j = n, !.room = IF n > f.room THEN n + n \div 2 ELSE f.room]

\* One more result, for which many and many1 may need a larger array.
OneMore(f) ==
    LET n == f.j + 1
    IN  [f EXCEPT !.j = n,
                  !.room = IF n = StackMin \/ n >= f.room THEN n + n \div 2 ELSE f.room]

ManyMore ==
    /\ Succeeded({"many", "many1"})
    /\ Top.j < MaxResults
    /\ Turn(OneMore(Top)) /\ Call(Top.p.x)
    /\ NoError /\ UNCHANGED <<input, root, far, suppress, live, rejected>>

ManyEnds ==
    /\ Failed({"many", "many1"})
    /\ Top.p.type = "many1" => Top.j > 0
    /\ Merged /\ live' = (live - Top.j) + 1
    /\ Pop /\ Answer(TRUE, {})
    /\ UNCHANGED <<input, root, suppress, rejected>>

Many1Fails ==
    /\ Failed({"many1"}) /\ Top.j = 0
    /\ Pop /\ Answer(FALSE, Repeated("one or more of", Err))
    /\ NoError /\ UNCHANGED <<input, root, far, suppress, live, rejected>>

CountMore ==
    /\ Succeeded({"count"})
    /\ Top.j + 1 # Top.p.n
    /\ Turn([Top EXCEPT !.j = @ + 1]) /\ Call(Top.p.x)
    /\ NoError /\ UNCHANGED <<input, root, far, suppress, live, rejected>>

CountDone ==
    /\ Succeeded({"count"})
    /\ Top.j + 1 = Top.p.n
    /\ live' = (live - Top.p.n) + 1
    /\ Pop /\ Answer(TRUE, {})
    /\ NoError /\ UNCHANGED <<input, root, far, suppress, rejected>>

\* The results are released; the input stays where the last one ended.
CountFails ==
    /\ Failed({"count"})
    /\ live' = live - Top.j
    /\ Pop /\ Answer(FALSE, Repeated("count of", Err))
    /\ NoError /\ UNCHANGED <<input, root, far, suppress, rejected>>

OrDone ==
    /\ Succeeded({"or"})
    /\ Pop /\ Answer(TRUE, {})
    /\ NoError /\ UNCHANGED <<input, root, far, suppress, live, rejected>>

\* Bug: the same alternative is tried again.
OrNextStays ==
    /\ Failed({"or"})
    /\ Merged
    /\ IF Top.j + 1 < Len(Top.p.xs)
       THEN Turn(Top) /\ Call(Top.p.xs[Top.j + 1])
       ELSE Pop /\ Answer(FALSE, {})
    /\ UNCHANGED <<input, root, suppress, live, rejected>>

OrNext ==
    /\ Failed({"or"})
    /\ Merged
    /\ IF Top.j + 1 < Len(Top.p.xs)
       THEN Turn([Top EXCEPT !.j = @ + 1]) /\ Call(Top.p.xs[Top.j + 2])
       ELSE Pop /\ Answer(FALSE, {})
    /\ UNCHANGED <<input, root, suppress, live, rejected>>

AndNext ==
    /\ Succeeded({"and"}) /\ Top.j + 1 < Len(Top.p.xs)
    /\ Turn([Top EXCEPT !.j = @ + 1]) /\ Call(Top.p.xs[Top.j + 2])
    /\ NoError /\ UNCHANGED <<input, root, far, suppress, live, rejected>>

AndDone ==
    /\ Succeeded({"and"}) /\ Top.j + 1 = Len(Top.p.xs)
    /\ In!Unmark /\ live' = (live - Len(Top.p.xs)) + 1
    /\ Pop /\ Answer(TRUE, {})
    /\ NoError /\ UNCHANGED <<root, far, suppress, rejected>>

\* Bug: the values of the parts that matched are not released.
AndFailsKeeps ==
    /\ Failed({"and"})
    /\ In!Rewind
    /\ Pop /\ Answer(FALSE, Err)
    /\ NoError /\ UNCHANGED <<root, far, suppress, live, rejected>>

\* Bug: a sequence that fails keeps what its parts have read.
AndFailsForward ==
    /\ Failed({"and"})
    /\ In!Unmark /\ live' = live - Top.j
    /\ Pop /\ Answer(FALSE, Err)
    /\ NoError /\ UNCHANGED <<root, far, suppress, rejected>>

AndFails ==
    /\ Failed({"and"})
    /\ In!Rewind /\ live' = live - Top.j
    /\ Pop /\ Answer(FALSE, Err)
    /\ NoError /\ UNCHANGED <<root, far, suppress, rejected>>

----------------------------------------------------------------------------

Next ==
    \/ RunOne \/ RunAnchor \/ RunEoi \/ RunPass \/ RunFail
    \/ StringBegin \/ StringChar \/ StringFails \/ StringDone
    \/ Begin \/ HandOn \/ HandOnFailure \/ CheckPasses \/ CheckFails
    \/ ExpectFails \/ NotFails \/ NotSucceeds \/ MaybeNot
    \/ ManyMore \/ ManyEnds \/ Many1Fails
    \/ CountMore \/ CountDone \/ CountFails
    \/ OrDone \/ OrNext \/ AndNext \/ AndDone \/ AndFails

Spec == Init /\ [][Next]_vars

\* A parse is one call on one thread: it runs on.
FairSpec == Spec /\ WF_vars(Next)

Done == stack = <<>> /\ todo = {}

----------------------------------------------------------------------------
(* Properties *)

\* The counters stay natural and the answers are what mpc_parse_run can return.
TypeOK ==
    /\ suppress \in Nat /\ live \in Nat /\ errs \in Nat /\ rejected \in Nat
    /\ \A e \in {far, tried} \cup Err :
          e.pos \in NoPlace..Len(text) /\ e.fails \cup e.expects # {}
    /\ Cardinality(todo) <= 1 /\ Cardinality(out) <= 1 /\ Cardinality(Err) <= 1

\* mpc_parse_run keeps the protocol of the input: the marks it takes are closed in
\* order, and it turns backtracking off and on in properly nested stretches.
KeepsInputProtocol == In!Spec

\* The results a frame holds: those of many, many1, count and and.
Results(f) == IF f.p.type \in {"many", "many1", "count", "and"} THEN f.j ELSE 0

HeldResults == UNION {{k} \X (1..Results(stack[k])) : k \in 1..Len(stack)}

Held == Cardinality(HeldResults)

\* No value is lost or released twice on any path through failing parts: the values
\* alive are the results the frames hold, the one just returned, and those a failed
\* check left behind.
EveryValueOwned ==
    live = Held + Cardinality({o \in out : o.ok}) + rejected

\* No error is lost or released twice either: those in memory are the furthest one and
\* the one just returned.  expect and not give up their part's error without releasing
\* it, which is right because it was never made.
EveryErrorOwned == errs = 1 + Cardinality(Err)

\* What is said of an error: where it is, and that it names a failure recorded there or,
\* when there is none, all the messages expected there.
Tells(e, t) ==
    /\ e.pos = t.pos
    /\ IF t.fails # {} THEN e.fails # {} /\ e.fails \subseteq t.fails
       ELSE e.fails = {} /\ Messages(e.expects) = Messages(t.expects)

\* The error that is reported, now or when the parse ends in failure, is about the
\* furthest place any parser failed at, whatever was retried since, and names all that
\* was expected there, unless it names a failure there.
FurthestErrorKept == Tells(Merge(far, Err), tried)

\* There is room for the next result in every frame.
ResultsFit ==
    \A k \in 1..Len(stack) :
        LET f == stack[k]
        IN  f.p.type \in {"many", "many1"} => f.j < f.room
=============================================================================
