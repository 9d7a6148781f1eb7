-------------------------------- MODULE Env --------------------------------
(***************************************************************************)
(* The environments of the interpreter (core/env.c), the four defining     *)
(* builtins let, letc, global and globalc (core/builtin.c) and the binding *)
(* of a function's parameters (lval_call in core/eval.c).                  *)
(*                                                                         *)
(* A lenv_T is a growable table of symbols and values searched from the    *)
(* front, so an environment is a sequence of bindings.  The parent of a    *)
(* called function's environment is the environment of the caller, so the  *)
(* chain that lenv_get climbs is a stack: frames[1] is the root, the last  *)
(* frame is the environment of the expression under evaluation.            *)
(*                                                                         *)
(* What a function body does is left open: between two operations any      *)
(* operation may come next.  An operation that stores several values       *)
(* stores one per step.                                                    *)
(***************************************************************************)
EXTENDS Integers, Sequences

CONSTANTS
    Symbols,       \* names a program defines, "&" among them
    BuiltinNames,  \* the names lenv_init installs, in its order
    Data,          \* payloads of computed values: numbers, strings, lists...
    ListData,      \* the payload of a list built from surplus arguments
    Amp,           \* the symbol "&"
    MaxDepth,      \* bound: frames alive at once
    MaxDefs,       \* bound: symbols of one definition
    Formals,       \* bound: the formals of the lambdas of a program
    MaxArgs        \* bound: arguments of one call

Builtins == {BuiltinNames[i] : i \in 1..Len(BuiltinNames)}
Names    == Symbols \cup Builtins

ASSUME BuiltinsAssumption ==
    /\ BuiltinNames \in Seq(Builtins)
    /\ \A i, j \in 1..Len(BuiltinNames) :
          BuiltinNames[i] = BuiltinNames[j] => i = j
ASSUME DataAssumption   == ListData \in Data /\ Data \cap Builtins = {}
ASSUME AmpAssumption    == Amp \in Symbols
ASSUME FormalsAssumption == Formals \subseteq Seq(Names)
ASSUME BoundsAssumption ==
    MaxDepth \in Nat \ {0} /\ MaxDefs \in Nat /\ MaxArgs \in Nat

Conditions == {"unset", "dynamic", "constant"}
Definers   == {"let", "letc", "global", "globalc"}

\* A value is its payload and its condition field; a builtin function is its
\* own payload.
Value   == [data : Data \cup Builtins, cond : Conditions]
Binding == [sym : Names, data : Data \cup Builtins, cond : Conditions]

VARIABLES
    frames,  \* the environments of the calls in progress, root first
    pc,      \* "idle" between operations, else the operation in progress
    fn,      \* the builtin that is defining
    names,   \* symbols or formals still to bind
    vals,    \* evaluated arguments still to bind
    fenv,    \* the environment of the function whose formals are being bound
    held,    \* closures left by a partial application: {} or one of them
    given,   \* history: literals, and the values that variables have had
    result   \* outcome of the last finished operation, ok while one runs

vars == <<frames, pc, fn, names, vals, fenv, held, given, result>>

----------------------------------------------------------------------------
(* One environment *)

Binds(env, s) == \E i \in 1..Len(env) : env[i].sym = s

\* The scan stops at the first match.
Index(env, s) == CHOOSE i \in 1..Len(env) :
                    /\ env[i].sym = s
                    /\ \A j \in 1..(i - 1) : env[j].sym # s

\* Bug: a constant may be replaced by a constant.
PutFailsOnMismatch(env, s, cond) ==
    Binds(env, s) /\ env[Index(env, s)].cond # cond

\* The two early returns of lenv_put.
PutFails(env, s, cond) ==
    /\ Binds(env, s)
    /\ LET old == env[Index(env, s)].cond
       IN  old # cond \/ old = "constant"

\* Bug: a symbol defined again gets a second entry.
PutAppends(env, s, v, cond) ==
    Append(env, [sym |-> s, data |-> v.data,
                 cond |-> IF v.cond = "unset" THEN cond ELSE v.cond])

\* Bug: the condition of a new binding is never set.
PutAsIs(env, s, v, cond) ==
    LET b == [sym |-> s, data |-> v.data, cond |-> v.cond]
    IN  IF Binds(env, s) THEN [env EXCEPT ![Index(env, s)] = b] ELSE Append(env, b)

\* A value whose condition is already set keeps it, and an overwritten
\* binding takes the condition of the value that replaces it.
Put(env, s, v, cond) ==
    IF Binds(env, s)
    THEN [env EXCEPT ![Index(env, s)] =
             [sym |-> s, data |-> v.data, cond |-> v.cond]]
    ELSE Append(env,
             [sym |-> s, data |-> v.data,
              cond |-> IF v.cond = "unset" THEN cond ELSE v.cond])

\* lenv_put when the caller ignores the result.
TryPut(env, s, v, cond) ==
    IF PutFails(env, s, cond) THEN env ELSE Put(env, s, v, cond)

----------------------------------------------------------------------------
(* The chain of environments *)

Here == Len(frames)

\* Bug: the search begins at the root.
FrameOfOutermost(fs, s) == CHOOSE d \in 1..Len(fs) :
                              /\ Binds(fs[d], s)
                              /\ \A e \in 1..(d - 1) : ~Binds(fs[e], s)

\* The innermost frame of the chain fs that binds s.
FrameOf(fs, s) == CHOOSE d \in 1..Len(fs) :
                     /\ Binds(fs[d], s)
                     /\ \A e \in (d + 1)..Len(fs) : ~Binds(fs[e], s)

\* lenv_get on a symbol some environment of the chain binds.
Get(fs, s) == LET env == fs[FrameOf(fs, s)]
                  b   == env[Index(env, s)]
              IN  [data |-> b.data, cond |-> b.cond]

Visible == {s \in Names : \E d \in 1..Here : Binds(frames[d], s)}

\* A value outlives its variable: a call gives it back, a list keeps it in a cell, an
\* argument waits for the next one to be evaluated.  How long it does is left open.
\* A literal is unset; an arithmetic result is the first operand reused and a list is
\* often the copy of a quoted one, so both carry a condition along.
LiveConditions == {v.cond : v \in {w \in given : w.data \in Data}}

\* What evaluating an argument can give.
EvalResults == given \cup [data : Data, cond : LiveConditions]

\* The values of an environment.
ValuesOf(env) == {[data |-> env[i].data, cond |-> env[i].cond] : i \in 1..Len(env)}

ListsOf(S, max) == UNION {[1..n -> S] : n \in 0..max}

----------------------------------------------------------------------------
(* Start: lenv_new, then lenv_init *)

Root0 == [i \in 1..Len(BuiltinNames) |->
             [sym |-> BuiltinNames[i], data |-> BuiltinNames[i],
              cond |-> "constant"]]

Init ==
    /\ frames = <<Root0>>
    /\ pc = "idle" /\ fn = "let"
    /\ names = <<>> /\ vals = <<>> /\ fenv = <<>>
    /\ held = {} /\ given = ValuesOf(Root0) \cup [data : Data, cond : {"unset"}]
    /\ result = "ok"

Finish(r) ==
    /\ pc' = "idle" /\ fn' = "let"
    /\ names' = <<>> /\ vals' = <<>> /\ fenv' = <<>>
    /\ result' = r

----------------------------------------------------------------------------
(* let, letc, global, globalc *)

\* An argument does not evaluate, or a type or a count check fails: the error
\* comes back before anything is stored.
Reject ==
    /\ pc = "idle"
    /\ Finish("error")
    /\ UNCHANGED <<frames, held, given>>

\* Bug: the symbols and the values are not counted.
DefineUncounted ==
    /\ pc = "idle"
    /\ \E f \in Definers, syms \in ListsOf(Names, MaxDefs),
          args \in ListsOf(EvalResults, MaxDefs) :
          pc' = "define" /\ fn' = f /\ names' = syms /\ vals' = args
    /\ result' = "ok"
    /\ UNCHANGED <<frames, fenv, held, given>>

Define ==
    /\ pc = "idle"
    /\ \E f \in Definers, syms \in ListsOf(Names, MaxDefs),
          args \in ListsOf(EvalResults, MaxDefs) :
          /\ Len(syms) = Len(args)
          /\ pc' = "define" /\ fn' = f /\ names' = syms /\ vals' = args
    /\ result' = "ok"
    /\ UNCHANGED <<frames, fenv, held, given>>

DefineCond  == IF fn \in {"let", "global"} THEN "dynamic" ELSE "constant"
\* Bug: let writes the variable where it is visible.
DefineFrameVisible ==
    IF fn \in {"global", "globalc"} THEN 1
    ELSE IF Head(names) \in Visible THEN FrameOf(frames, Head(names)) ELSE Here

DefineFrame == IF fn \in {"let", "letc"} THEN Here ELSE 1

DefinePut ==
    /\ pc = "define" /\ names # <<>>
    /\ ~PutFails(frames[DefineFrame], Head(names), DefineCond)
    /\ frames' = [frames EXCEPT ![DefineFrame] =
                     Put(@, Head(names), Head(vals), DefineCond)]
    /\ given' = given \cup ValuesOf(frames'[DefineFrame])
    /\ names' = Tail(names) /\ vals' = Tail(vals)
    /\ UNCHANGED <<pc, fn, fenv, held, result>>

\* The symbols stored so far stay stored.
DefineFails ==
    /\ pc = "define" /\ names # <<>>
    /\ PutFails(frames[DefineFrame], Head(names), DefineCond)
    /\ Finish("error")
    /\ UNCHANGED <<frames, held, given>>

DefineDone ==
    /\ pc = "define" /\ names = <<>>
    /\ Finish("ok")
    /\ UNCHANGED <<frames, held, given>>

----------------------------------------------------------------------------
(* lval_call on a lambda *)

Closures == {[formals |-> f, env |-> <<>>] : f \in Formals}
            \cup held

\* A list of one element evaluates to the element, so a call has arguments.
Call ==
    /\ pc = "idle" /\ Here < MaxDepth
    /\ \E c \in Closures, args \in ListsOf(EvalResults, MaxArgs) \ {<<>>} :
          pc' = "call" /\ names' = c.formals /\ fenv' = c.env /\ vals' = args
    /\ result' = "ok"
    /\ UNCHANGED <<frames, fn, held, given>>

BindFormal ==
    /\ pc = "call" /\ vals # <<>> /\ names # <<>> /\ Head(names) # Amp
    /\ fenv' = TryPut(fenv, Head(names), Head(vals), Head(vals).cond)
    /\ given' = given \cup ValuesOf(fenv')
    /\ names' = Tail(names) /\ vals' = Tail(vals)
    /\ UNCHANGED <<frames, pc, fn, held, result>>

TooManyArguments ==
    /\ pc = "call" /\ vals # <<>> /\ names = <<>>
    /\ Finish("error")
    /\ UNCHANGED <<frames, held, given>>

\* "& xs" takes the list of the surplus arguments; the list is the call's own
\* S-expression, whose condition is unset unless it was quoted in a variable.
BindRest ==
    /\ pc = "call" /\ vals # <<>> /\ Len(names) = 2 /\ Head(names) = Amp
    /\ \E c \in LiveConditions :
          fenv' = TryPut(fenv, names[2], [data |-> ListData, cond |-> c], "dynamic")
    /\ given' = given \cup ValuesOf(fenv')
    /\ names' = <<>> /\ vals' = <<>>
    /\ UNCHANGED <<frames, pc, fn, held, result>>

\* With no argument left "& xs" is bound to the empty list.
BindNoRest ==
    /\ pc = "call" /\ vals = <<>> /\ Len(names) = 2 /\ Head(names) = Amp
    /\ fenv' = TryPut(fenv, names[2], [data |-> ListData, cond |-> "unset"], "dynamic")
    /\ given' = given \cup ValuesOf(fenv')
    /\ names' = <<>>
    /\ UNCHANGED <<frames, pc, fn, vals, held, result>>

BadVariadic ==
    /\ pc = "call" /\ names # <<>> /\ Head(names) = Amp /\ Len(names) # 2
    /\ Finish("error")
    /\ UNCHANGED <<frames, held, given>>

\* All formals bound: the caller becomes the parent and the body is evaluated.
Enter ==
    /\ pc = "call" /\ vals = <<>> /\ names = <<>>
    /\ frames' = Append(frames, fenv)
    /\ Finish("ok")
    /\ UNCHANGED <<held, given>>

\* Formals left over: the call gives back a copy of the function.
PartialApplication ==
    /\ pc = "call" /\ vals = <<>> /\ names # <<>> /\ Head(names) # Amp
    /\ held' = {[formals |-> names, env |-> fenv]}
    /\ Finish("ok")
    /\ UNCHANGED <<frames, given>>

\* The body is done and its environment is deleted.  Its value is one of those that an
\* argument can have.
Return ==
    /\ pc = "idle" /\ Here > 1
    /\ result' \in {"ok", "error"}
    /\ frames' = SubSeq(frames, 1, Here - 1)
    /\ UNCHANGED <<pc, fn, names, vals, fenv, held, given>>

----------------------------------------------------------------------------

Step == \/ DefinePut \/ DefineFails \/ DefineDone
        \/ BindFormal \/ TooManyArguments \/ BindRest \/ BindNoRest
        \/ BadVariadic \/ Enter \/ PartialApplication

Next == Reject \/ Define \/ Call \/ Return \/ Step

Spec == Init /\ [][Next]_vars

----------------------------------------------------------------------------
(* Properties *)

\* Every variable holds what the code can hold there: environments are tables
\* of bindings, a definition or a call has one value per symbol it still binds.
TypeOK ==
    /\ frames \in Seq(Seq(Binding)) /\ Here \in 1..MaxDepth
    /\ pc \in {"idle", "define", "call"} /\ fn \in Definers
    /\ names \in Seq(Names) /\ vals \in Seq(Value) /\ fenv \in Seq(Binding)
    /\ pc = "define" => Len(names) = Len(vals)
    /\ held \subseteq [formals : Seq(Names), env : Seq(Binding)]
    /\ given \subseteq Value
    /\ result \in {"ok", "error"}

UniqueIn(env) == \A i, j \in 1..Len(env) : env[i].sym = env[j].sym => i = j

\* No environment binds a symbol twice, so the first match of lenv_put and of
\* lenv_get is the only one.  This holds in frames, in the environment a call
\* is filling and in the closure of a partial application.
SymbolsUnique ==
    /\ \A d \in 1..Here : UniqueIn(frames[d])
    /\ UniqueIn(fenv)
    /\ \A c \in held : UniqueIn(c.env)

\* Whatever a program defines, the builtins lenv_init installed stay where they
\* are in the root environment, each bound to its own function and constant.
RootIntact ==
    /\ Len(frames[1]) >= Len(Root0)
    /\ \A i \in 1..Len(Root0) : frames[1][i] = Root0[i]

\* A stored binding is never dropped or renamed while its environment lives, and
\* lenv_put alters it only when its condition is dynamic: a constant is final,
\* and so is a binding whose condition was left unset.
OnlyDynamicChanges ==
    [][\A d \in 1..Here : d \in 1..Here' =>
          /\ Len(frames'[d]) >= Len(frames[d])
          /\ \A i \in 1..Len(frames[d]) :
                /\ frames'[d][i].sym = frames[d][i].sym
                /\ frames[d][i].cond # "dynamic" => frames'[d][i] = frames[d][i]]_vars

\* A value stored by let or letc is what the symbol evaluates to next; one stored
\* by global or globalc is too, unless a call in progress has a variable of that
\* name, and then the symbol keeps the value it had.
StoredIsSeen ==
    [][DefinePut =>
          LET s == Head(names)
              v == Head(vals).data
          IN  IF fn \in {"global", "globalc"} /\ \E d \in 2..Here : Binds(frames[d], s)
              THEN Get(frames', s) = Get(frames, s)
              ELSE Get(frames', s).data = v]_vars

\* While a call runs, the environments of its callers, the root excepted, do not
\* change: the body sees them (the parent chain) and writes none of them.
CallersUntouched ==
    [][\A d \in 2..(Here - 1) : frames'[d] = frames[d]]_vars

\* An environment read as a map.
AsMap(env) == [s \in {env[i].sym : i \in 1..Len(env)} |->
                  [data |-> env[Index(env, s)].data, cond |-> env[Index(env, s)].cond]]

AsScopes == [d \in 1..Here |-> AsMap(frames[d])]

S == INSTANCE Scopes WITH scopes <- AsScopes, Root <- AsMap(Root0)

\* The tables, their linear search and the step-by-step binding of parameters
\* implement a stack of maps in which only new and dynamic variables are written,
\* in the innermost and the outermost map.
ScopesSpec == S!Spec

\* README.md:38 "constant and dynamic variables (`letc` and `let` respectively)", and
\* builtin.h:58-59: a symbol that letc has just stored is a constant, and one that let
\* has just stored is dynamic and can be stored by let again.
DefinedAsNamed ==
    [][DefinePut =>
          /\ fn = "letc" => Get(frames', Head(names)).cond = "constant"
          /\ fn = "let"  => Get(frames', Head(names)).cond = "dynamic"]_vars

=============================================================================
