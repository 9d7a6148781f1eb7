----------------------------- MODULE EnvProofs -----------------------------
(* Proofs about Env, for any symbols, builtins, payloads and bounds. *)
EXTENDS Env, Facts, TLAPS

----------------------------------------------------------------------------
(* The linear search *)

\* The search of a table that binds s stops at a binding of s.
LEMMA IndexFinds ==
    ASSUME NEW env \in Seq(Binding), NEW s, Binds(env, s)
    PROVE  /\ Index(env, s) \in 1..Len(env)
           /\ env[Index(env, s)].sym = s
<1> DEFINE T == {i \in 1..Len(env) : env[i].sym = s}
<1>1. T \in SUBSET Nat /\ T # {}
  BY DEF Binds
<1>2. PICK i \in T : \A j \in T : i <= j
  <2> HIDE DEF T
  <2> QED BY <1>1, LeastNatural
<1>3. /\ i \in 1..Len(env) /\ env[i].sym = s
      /\ \A j \in 1..(i - 1) : env[j].sym # s
  BY <1>2
<1> QED BY <1>3 DEF Index

\* The climb to an environment that binds s ends in the innermost such one.
LEMMA FrameFinds ==
    ASSUME NEW fs \in Seq(Seq(Binding)), NEW s,
           \E d \in 1..Len(fs) : Binds(fs[d], s)
    PROVE  /\ FrameOf(fs, s) \in 1..Len(fs)
           /\ Binds(fs[FrameOf(fs, s)], s)
           /\ \A e \in (FrameOf(fs, s) + 1)..Len(fs) : ~Binds(fs[e], s)
<1> DEFINE T == {d \in 1..Len(fs) : Binds(fs[d], s)}
<1>1. T \in SUBSET Nat /\ T # {} /\ Len(fs) \in Nat /\ \A d \in T : d <= Len(fs)
  OBVIOUS
<1>2. PICK d \in T : \A e \in T : e <= d
  <2> HIDE DEF T
  <2> QED BY <1>1, GreatestNatural
<1>3. /\ d \in 1..Len(fs) /\ Binds(fs[d], s)
      /\ \A e \in (d + 1)..Len(fs) : ~Binds(fs[e], s)
  BY <1>2
<1> QED BY <1>3 DEF FrameOf

\* The values of a table are values.
LEMMA ValuesType ==
    ASSUME NEW env \in Seq(Binding)
    PROVE  ValuesOf(env) \subseteq Value
<1>1. \A i \in 1..Len(env) : env[i] \in Binding
  OBVIOUS
<1>2. \A i \in 1..Len(env) : [data |-> env[i].data, cond |-> env[i].cond] \in Value
  BY <1>1 DEF Binding, Value
<1> QED BY <1>2 DEF ValuesOf

\* Every argument a program can compute is a value.
LEMMA EvalResultsType ==
    ASSUME TypeOK
    PROVE  EvalResults \subseteq Value /\ LiveConditions \subseteq Conditions
<1>1. given \subseteq Value
  BY DEF TypeOK
<1>2. LiveConditions \subseteq Conditions
  BY <1>1 DEF LiveConditions, Value
<1> QED BY <1>1, <1>2 DEF EvalResults, Value

----------------------------------------------------------------------------
(* lenv_put *)

\* A stored value leaves a table of bindings a table of bindings.
LEMMA PutType ==
    ASSUME NEW env \in Seq(Binding), NEW s \in Names, NEW v \in Value,
           NEW c \in Conditions
    PROVE  Put(env, s, v, c) \in Seq(Binding)
<1> DEFINE b == [sym |-> s, data |-> v.data, cond |-> v.cond]
           n == [sym |-> s, data |-> v.data,
                 cond |-> IF v.cond = "unset" THEN c ELSE v.cond]
<1>1. b \in Binding /\ n \in Binding
  BY DEF Value, Binding
<1>2. CASE Binds(env, s)
  BY <1>1, <1>2, IndexFinds DEF Put
<1>3. CASE ~Binds(env, s)
  BY <1>1, <1>3 DEF Put
<1> QED BY <1>2, <1>3

\* The same for a call that ignores lenv_put's refusal.
LEMMA TryPutType ==
    ASSUME NEW env \in Seq(Binding), NEW s \in Names, NEW v \in Value,
           NEW c \in Conditions
    PROVE  TryPut(env, s, v, c) \in Seq(Binding)
BY PutType DEF TryPut

\* lenv_put never makes a second binding of a symbol.
LEMMA PutUnique ==
    ASSUME NEW env \in Seq(Binding), NEW s \in Names, NEW v \in Value,
           NEW c \in Conditions, UniqueIn(env)
    PROVE  UniqueIn(Put(env, s, v, c))
<1>1. CASE Binds(env, s)
  <2>1. /\ Len(Put(env, s, v, c)) = Len(env)
        /\ \A i \in 1..Len(env) : Put(env, s, v, c)[i].sym = env[i].sym
    BY <1>1, IndexFinds DEF Put
  <2> QED BY <2>1 DEF UniqueIn
<1>2. CASE ~Binds(env, s)
  <2>1. /\ Len(Put(env, s, v, c)) = Len(env) + 1
        /\ \A i \in 1..Len(env) : Put(env, s, v, c)[i] = env[i]
        /\ Put(env, s, v, c)[Len(env) + 1].sym = s
    BY <1>2 DEF Put
  <2> QED BY <1>2, <2>1 DEF UniqueIn, Binds
<1> QED BY <1>1, <1>2

\* The same for a call that ignores lenv_put's refusal.
LEMMA TryPutUnique ==
    ASSUME NEW env \in Seq(Binding), NEW s \in Names, NEW v \in Value,
           NEW c \in Conditions, UniqueIn(env)
    PROVE  UniqueIn(TryPut(env, s, v, c))
BY PutUnique DEF TryPut

\* A store that lenv_put accepts from a definer drops and renames nothing and
\* changes a dynamic binding only.
LEMMA PutKeeps ==
    ASSUME NEW env \in Seq(Binding), NEW s \in Names, NEW v \in Value,
           NEW c \in {"dynamic", "constant"}, ~PutFails(env, s, c)
    PROVE  /\ Len(Put(env, s, v, c)) >= Len(env)
           /\ \A i \in 1..Len(env) :
                 /\ Put(env, s, v, c)[i].sym = env[i].sym
                 /\ env[i].cond # "dynamic" => Put(env, s, v, c)[i] = env[i]
<1>1. CASE Binds(env, s)
  <2>1. env[Index(env, s)].cond = "dynamic"
    BY <1>1 DEF PutFails
  <2> QED BY <1>1, <2>1, IndexFinds DEF Put
<1>2. CASE ~Binds(env, s)
  BY <1>2 DEF Put
<1> QED BY <1>1, <1>2
\* The sequences an operation is given are sequences.
LEMMA ListsAreSeqs ==
    ASSUME NEW U, NEW max \in Nat, NEW l \in ListsOf(U, max)
    PROVE  l \in Seq(U)
BY DEF ListsOf

----------------------------------------------------------------------------
(* The inductive invariant: a call under way left room for its own frame,   *)
(* and the root was there before anything else.                             *)

CallHasRoom == pc = "call" => Here < MaxDepth

IInv == TypeOK /\ CallHasRoom /\ SymbolsUnique /\ RootIntact

\* Every action leaves the types as they are.
LEMMA TypeStep ==
    ASSUME TypeOK, CallHasRoom, [Next]_vars
    PROVE  TypeOK' /\ CallHasRoom'
<1> USE BoundsAssumption
<1>0. /\ EvalResults \subseteq Value /\ LiveConditions \subseteq Conditions
      /\ Here \in Nat /\ Len(frames) = Here
  BY EvalResultsType DEF TypeOK, Here
<1>t. {<<>>} \subseteq Seq(Names) /\ {<<>>} \subseteq Seq(Value)
      /\ {<<>>} \subseteq Seq(Binding)
  OBVIOUS
<1>1. CASE Reject
  BY <1>1, <1>t DEF Reject, Finish, TypeOK, CallHasRoom, Here, Definers
<1>2. CASE Define
  <2>1. PICK f \in Definers, syms \in ListsOf(Names, MaxDefs),
             args \in ListsOf(EvalResults, MaxDefs) :
          /\ Len(syms) = Len(args)
          /\ pc' = "define" /\ fn' = f /\ names' = syms /\ vals' = args
    BY <1>2 DEF Define
  <2>2. syms \in Seq(Names) /\ args \in Seq(EvalResults)
    BY ListsAreSeqs
  <2>3. args \in Seq(Value)
    BY <2>2, <1>0
  <2> QED BY <1>2, <2>1, <2>2, <2>3 DEF Define, TypeOK, CallHasRoom, Here
<1>3. CASE Call
  <2>1. PICK c \in Closures, args \in ListsOf(EvalResults, MaxArgs) \ {<<>>} :
          pc' = "call" /\ names' = c.formals /\ fenv' = c.env /\ vals' = args
    BY <1>3 DEF Call
  <2>2. args \in Seq(EvalResults)
    BY ListsAreSeqs
  <2>3. args \in Seq(Value)
    BY <2>2, <1>0
  <2>4. c.formals \in Seq(Names) /\ c.env \in Seq(Binding)
    <3>1. CASE c \in held
      BY <3>1 DEF TypeOK
    <3>2. CASE c \in {[formals |-> f, env |-> <<>>] : f \in Formals}
      <4>1. PICK f \in Formals : c = [formals |-> f, env |-> <<>>]
        BY <3>2
      <4>2. f \in Seq(Names)
        BY FormalsAssumption
      <4> QED BY <1>t, <4>1, <4>2
    <3> QED BY <3>1, <3>2 DEF Closures
  <2> QED BY <1>3, <2>1, <2>3, <2>4 DEF Call, TypeOK, CallHasRoom, Here
<1>4. CASE Return
  <2>1. given' \subseteq Value /\ result' \in {"ok", "error"}
    BY <1>4 DEF Return, TypeOK
  <2>2. frames' \in Seq(Seq(Binding)) /\ Len(frames') = Here - 1
    BY <1>4, <1>0 DEF Return, TypeOK
  <2> QED BY <1>4, <1>0, <2>1, <2>2, SMTT(20), ZenonT(40) DEF Return, TypeOK, CallHasRoom, Here
<1>5. CASE DefinePut
  <2>1. /\ Head(names) \in Names /\ Head(vals) \in Value /\ DefineCond \in Conditions
        /\ DefineFrame \in 1..Here
        /\ Tail(names) \in Seq(Names) /\ Tail(vals) \in Seq(Value)
        /\ Len(Tail(names)) = Len(Tail(vals))
    BY <1>5 DEF DefinePut, TypeOK, DefineCond, DefineFrame, Conditions
  <2>2. Put(frames[DefineFrame], Head(names), Head(vals), DefineCond) \in Seq(Binding)
    <3>1. frames[DefineFrame] \in Seq(Binding)
      BY <2>1 DEF TypeOK, Here
    <3> QED BY <2>1, <3>1, PutType
  <2>3. frames' \in Seq(Seq(Binding)) /\ Len(frames') = Len(frames)
    <3> DEFINE env == Put(frames[DefineFrame], Head(names), Head(vals), DefineCond)
    <3>1. frames' = [frames EXCEPT ![DefineFrame] = env]
      BY <1>5 DEF DefinePut
    <3>2. frames \in Seq(Seq(Binding)) /\ DefineFrame \in 1..Len(frames)
      BY <2>1 DEF TypeOK, Here
    <3> HIDE DEF env
    <3> QED BY <2>2, <3>1, <3>2 DEF env
  <2>4. given' \subseteq Value
    <3>1. frames'[DefineFrame] \in Seq(Binding)
      BY <2>1, <2>3 DEF TypeOK, Here
    <3>2. ValuesOf(frames'[DefineFrame]) \subseteq Value
      BY <3>1, ValuesType
    <3> QED BY <1>5, <3>2 DEF DefinePut, TypeOK
  <2> QED BY <1>5, <2>1, <2>3, <2>4 DEF DefinePut, TypeOK, CallHasRoom, Here
<1>6. CASE DefineFails \/ DefineDone \/ TooManyArguments \/ BadVariadic
  BY <1>6, <1>t DEF DefineFails, DefineDone, TooManyArguments, BadVariadic, Finish,
                    TypeOK, CallHasRoom, Here, Definers
<1>7. CASE BindFormal
  <2>0. /\ Head(names) \in Names /\ Head(vals) \in Value
        /\ Tail(names) \in Seq(Names) /\ Tail(vals) \in Seq(Value)
    BY <1>7 DEF BindFormal, TypeOK
  <2>1. Head(vals).cond \in Conditions
    BY <2>0 DEF Value
  <2>2. fenv' \in Seq(Binding)
    BY <1>7, <2>0, <2>1, TryPutType DEF BindFormal, TypeOK
  <2>3. given' \subseteq Value
    BY <1>7, <2>2, ValuesType DEF BindFormal, TypeOK
  <2> QED BY <1>7, <2>0, <2>2, <2>3 DEF BindFormal, TypeOK, CallHasRoom, Here
<1>8. CASE BindRest
  <2>1. PICK c \in LiveConditions :
          fenv' = TryPut(fenv, names[2], [data |-> ListData, cond |-> c], "dynamic")
    BY <1>8 DEF BindRest
  <2>2. [data |-> ListData, cond |-> c] \in Value /\ "dynamic" \in Conditions
    BY <1>0, <2>1, DataAssumption DEF Value, Conditions
  <2>4. names[2] \in Names
    <3>1. names \in Seq(Names) /\ Len(names) = 2
      BY <1>8 DEF BindRest, TypeOK
    <3> QED BY <3>1
  <2>3. fenv' \in Seq(Binding)
    BY <2>1, <2>2, <2>4, TryPutType DEF TypeOK
  <2>5. given' \subseteq Value
    BY <1>8, <2>3, ValuesType DEF BindRest, TypeOK
  <2> QED BY <1>8, <1>t, <2>3, <2>5 DEF BindRest, TypeOK, CallHasRoom, Here
<1>9. CASE BindNoRest
  <2>1. [data |-> ListData, cond |-> "unset"] \in Value /\ "dynamic" \in Conditions
    BY DataAssumption DEF Value, Conditions
  <2>3. names[2] \in Names
    <3>1. names \in Seq(Names) /\ Len(names) = 2
      BY <1>9 DEF BindNoRest, TypeOK
    <3> QED BY <3>1
  <2>2. fenv' \in Seq(Binding)
    BY <1>9, <2>1, <2>3, TryPutType DEF BindNoRest, TypeOK
  <2>4. given' \subseteq Value
    BY <1>9, <2>2, ValuesType DEF BindNoRest, TypeOK
  <2> QED BY <1>9, <1>t, <2>2, <2>4 DEF BindNoRest, TypeOK, CallHasRoom, Here
<1>10. CASE Enter
  <2>1. frames' \in Seq(Seq(Binding)) /\ Len(frames') = Here + 1 /\ Here < MaxDepth
    BY <1>10, <1>0 DEF Enter, TypeOK, CallHasRoom
  <2> QED BY <1>10, <1>t, <1>0, <2>1 DEF Enter, Finish, TypeOK, CallHasRoom, Here, Definers
<1>11. CASE PartialApplication
  BY <1>11, <1>t DEF PartialApplication, Finish, TypeOK, CallHasRoom, Here, Definers
<1>12. CASE UNCHANGED vars
  BY <1>12 DEF vars, TypeOK, CallHasRoom, Here
<1> QED BY <1>1, <1>2, <1>3, <1>4, <1>5, <1>6, <1>7, <1>8, <1>9, <1>10, <1>11, <1>12
        DEF Next, Step
\* What a definition stores, and where.
LEMMA DefinePutFacts ==
    ASSUME TypeOK, DefinePut
    PROVE  /\ Head(names) \in Names /\ Head(vals) \in Value
           /\ DefineCond \in {"dynamic", "constant"} /\ DefineCond \in Conditions
           /\ DefineFrame \in 1..Here /\ DefineFrame \in {1, Here}
           /\ frames[DefineFrame] \in Seq(Binding)
           /\ frames \in Seq(Seq(Binding)) /\ Here = Len(frames)
           /\ ~PutFails(frames[DefineFrame], Head(names), DefineCond)
           /\ Len(frames') = Len(frames)
           /\ frames'[DefineFrame] =
                  Put(frames[DefineFrame], Head(names), Head(vals), DefineCond)
           /\ \A d \in 1..Here : d # DefineFrame => frames'[d] = frames[d]
<1>1. frames \in Seq(Seq(Binding)) /\ Here = Len(frames) /\ Here >= 1
  BY DEF TypeOK, Here
<1>2. DefineFrame \in 1..Here /\ DefineFrame \in {1, Here}
  BY <1>1 DEF DefineFrame
<1>3. Head(names) \in Names /\ Head(vals) \in Value
  BY DEF DefinePut, TypeOK
<1>4. frames' = [frames EXCEPT ![DefineFrame] =
             Put(frames[DefineFrame], Head(names), Head(vals), DefineCond)]
  BY DEF DefinePut
<1>5. /\ Len(frames') = Len(frames)
      /\ frames'[DefineFrame] =
             Put(frames[DefineFrame], Head(names), Head(vals), DefineCond)
      /\ \A d \in 1..Here : d # DefineFrame => frames'[d] = frames[d]
  BY <1>1, <1>2, <1>4
<1>6. ~PutFails(frames[DefineFrame], Head(names), DefineCond)
  BY DEF DefinePut
<1>7. DefineCond \in {"dynamic", "constant"} /\ DefineCond \in Conditions
  BY DEF DefineCond, Conditions
<1> QED BY <1>1, <1>2, <1>3, <1>5, <1>6, <1>7

\* No action binds a symbol of an environment again.
LEMMA UniqueStep ==
    ASSUME TypeOK, SymbolsUnique, [Next]_vars
    PROVE  SymbolsUnique'
<1>e. UniqueIn(<<>>)
  BY DEF UniqueIn
<1>t. /\ frames \in Seq(Seq(Binding)) /\ Here = Len(frames)
      /\ fenv \in Seq(Binding)
  BY DEF TypeOK, Here
<1>1. CASE Reject \/ DefineFails \/ DefineDone \/ TooManyArguments \/ BadVariadic
  BY <1>1, <1>e DEF Reject, DefineFails, DefineDone, TooManyArguments, BadVariadic,
                    Finish, SymbolsUnique, Here
<1>2. CASE Define
  BY <1>2 DEF Define, SymbolsUnique, Here
<1>3. CASE Call
  <2>1. PICK c \in Closures : fenv' = c.env
    BY <1>3 DEF Call
  <2>2. UniqueIn(c.env)
    BY <1>e DEF Closures, SymbolsUnique
  <2> QED BY <1>3, <2>1, <2>2 DEF Call, SymbolsUnique, Here
<1>4. CASE Return
  <2>1. /\ Len(frames') = Here - 1
        /\ \A d \in 1..(Here - 1) : frames'[d] = frames[d]
    BY <1>4, <1>t DEF Return
  <2>2. fenv' = fenv /\ held' = held
    BY <1>4 DEF Return
  <2>3. \A d \in 1..Here' : UniqueIn(frames'[d])
    BY <1>t, <2>1 DEF SymbolsUnique, Here
  <2> QED BY <2>2, <2>3 DEF SymbolsUnique
<1>5. CASE DefinePut
  <2>1. UniqueIn(Put(frames[DefineFrame], Head(names), Head(vals), DefineCond))
    BY <1>5, DefinePutFacts, PutUnique DEF SymbolsUnique
  <2>2. Len(frames') = Len(frames) /\ \A d \in 1..Len(frames) : UniqueIn(frames'[d])
    BY <1>5, <2>1, DefinePutFacts DEF SymbolsUnique
  <2> QED BY <1>5, <2>2 DEF DefinePut, SymbolsUnique, Here
<1>6. CASE BindFormal
  <2>1. Head(names) \in Names /\ Head(vals) \in Value /\ Head(vals).cond \in Conditions
    <3>1. Head(names) \in Names /\ Head(vals) \in Value
      BY <1>6 DEF BindFormal, TypeOK
    <3> QED BY <3>1 DEF Value
  <2>2. UniqueIn(fenv')
    BY <1>6, <1>t, <2>1, TryPutUnique DEF BindFormal, SymbolsUnique
  <2> QED BY <1>6, <2>2 DEF BindFormal, SymbolsUnique, Here
<1>7. CASE BindRest
  <2>1. PICK c \in LiveConditions :
          fenv' = TryPut(fenv, names[2], [data |-> ListData, cond |-> c], "dynamic")
    BY <1>7 DEF BindRest
  <2>2. /\ [data |-> ListData, cond |-> c] \in Value /\ names[2] \in Names
        /\ "dynamic" \in Conditions
    <3>1. names \in Seq(Names) /\ Len(names) = 2
      BY <1>7 DEF BindRest, TypeOK
    <3>2. c \in Conditions
      BY <2>1, EvalResultsType
    <3> QED BY <3>1, <3>2, DataAssumption DEF Value, Conditions
  <2>3. UniqueIn(fenv')
    BY <1>t, <2>1, <2>2, TryPutUnique DEF SymbolsUnique
  <2> QED BY <1>7, <2>3 DEF BindRest, SymbolsUnique, Here
<1>8. CASE BindNoRest
  <2>1. /\ [data |-> ListData, cond |-> "unset"] \in Value /\ names[2] \in Names
        /\ "dynamic" \in Conditions
    <3>1. names \in Seq(Names) /\ Len(names) = 2
      BY <1>8 DEF BindNoRest, TypeOK
    <3> QED BY <3>1, DataAssumption DEF Value, Conditions
  <2>2. UniqueIn(fenv')
    BY <1>8, <1>t, <2>1, TryPutUnique DEF BindNoRest, SymbolsUnique
  <2> QED BY <1>8, <2>2 DEF BindNoRest, SymbolsUnique, Here
<1>9. CASE Enter
  <2>1. /\ Len(frames') = Here + 1 /\ frames'[Here + 1] = fenv
        /\ \A d \in 1..Here : frames'[d] = frames[d]
    BY <1>9, <1>t DEF Enter
  <2> QED BY <1>9, <1>e, <1>t, <2>1 DEF Enter, Finish, SymbolsUnique, Here
<1>10. CASE PartialApplication
  BY <1>10, <1>e DEF PartialApplication, Finish, SymbolsUnique, Here
<1>11. CASE UNCHANGED vars
  BY <1>11 DEF vars, SymbolsUnique, Here
<1> QED BY <1>1, <1>2, <1>3, <1>4, <1>5, <1>6, <1>7, <1>8, <1>9, <1>10, <1>11
        DEF Next, Step

\* What any action may do to the frames: nothing, push, pop, or store.
LEMMA FramesStep ==
    ASSUME TypeOK, [Next]_vars
    PROVE  \/ frames' = frames
           \/ frames' = Append(frames, fenv)
           \/ Here > 1 /\ frames' = SubSeq(frames, 1, Here - 1)
           \/ DefinePut
BY DEF Next, Step, Reject, Define, Call, Return, DefineFails, DefineDone, BindFormal,
       TooManyArguments, BindRest, BindNoRest, BadVariadic, Enter,
       PartialApplication, vars

\* Over a step, a surviving frame keeps its bindings, and its constants as they are.
LEMMA FramesKeep ==
    ASSUME TypeOK, [Next]_vars, NEW d \in 1..Here, d \in 1..Here'
    PROVE  /\ Len(frames'[d]) >= Len(frames[d])
           /\ \A i \in 1..Len(frames[d]) :
                 /\ frames'[d][i].sym = frames[d][i].sym
                 /\ frames[d][i].cond # "dynamic" => frames'[d][i] = frames[d][i]
           /\ d \notin {1, Here} => frames'[d] = frames[d]
<1>1. frames \in Seq(Seq(Binding)) /\ Here = Len(frames)
      /\ frames[d] \in Seq(Binding) /\ Len(frames[d]) \in Nat
  BY DEF TypeOK, Here
<1>2. CASE frames' = frames
  BY <1>1, <1>2
<1>3. CASE frames' = Append(frames, fenv)
  BY <1>1, <1>3
<1>4. CASE Here > 1 /\ frames' = SubSeq(frames, 1, Here - 1)
  <2>1. frames'[d] = frames[d]
    BY <1>1, <1>4 DEF Here
  <2> QED BY <1>1, <2>1
<1>5. CASE DefinePut
  <2>1. CASE d = DefineFrame
    <3>1. frames'[d] = Put(frames[d], Head(names), Head(vals), DefineCond)
      BY <1>1, <1>5, <2>1, DefinePutFacts
    <3> QED BY <1>5, <2>1, <3>1, DefinePutFacts, PutKeeps
  <2>2. CASE d # DefineFrame
    <3>1. frames'[d] = frames[d]
      BY <1>1, <1>5, <2>2, DefinePutFacts
    <3> QED BY <1>1, <3>1
  <2> QED BY <2>1, <2>2
<1> QED BY <1>2, <1>3, <1>4, <1>5, FramesStep

\* The root keeps the builtins.
LEMMA RootStep ==
    ASSUME TypeOK, RootIntact, TypeOK', [Next]_vars
    PROVE  RootIntact'
<1>1. 1 \in 1..Here /\ 1 \in 1..Here' /\ Len(Root0) \in Nat
      /\ Len(frames[1]) \in Nat /\ Len(frames'[1]) \in Nat
  <2>1. Len(Root0) \in Nat
    BY BuiltinsAssumption DEF Root0
  <2>2. 1 \in 1..Here /\ frames[1] \in Seq(Binding)
    BY DEF TypeOK, Here
  <2>3. 1 \in 1..Here' /\ frames'[1] \in Seq(Binding)
    BY DEF TypeOK, Here
  <2> QED BY <2>1, <2>2, <2>3
<1>2. \A i \in 1..Len(Root0) : i \in 1..Len(frames[1]) /\ frames[1][i].cond # "dynamic"
  <2> SUFFICES ASSUME NEW i \in 1..Len(Root0)
               PROVE  i \in 1..Len(frames[1]) /\ frames[1][i].cond # "dynamic"
    OBVIOUS
  <2>1. i \in 1..Len(frames[1]) /\ frames[1][i] = Root0[i]
    BY <1>1 DEF RootIntact
  <2>2. Root0[i].cond = "constant"
    BY BuiltinsAssumption DEF Root0
  <2> QED BY <2>1, <2>2
<1>3. /\ Len(frames'[1]) >= Len(frames[1])
      /\ \A i \in 1..Len(frames[1]) :
            frames[1][i].cond # "dynamic" => frames'[1][i] = frames[1][i]
  BY <1>1, FramesKeep
<1> QED BY <1>1, <1>2, <1>3 DEF RootIntact

----------------------------------------------------------------------------
(* The theorems *)

\* The invariant holds when lenv_init has installed the builtins.
LEMMA InitIInv == Init => IInv
<1> SUFFICES ASSUME Init PROVE IInv
  OBVIOUS
<1>1. Root0 \in Seq(Binding)
  <2>1. \A i \in 1..Len(BuiltinNames) : BuiltinNames[i] \in Builtins
    BY DEF Builtins
  <2> QED BY <2>1, BuiltinsAssumption DEF Root0, Binding, Names, Conditions
<1>2. Len(Root0) = Len(BuiltinNames) /\ Len(BuiltinNames) \in Nat
  BY BuiltinsAssumption DEF Root0
<1>3. frames \in Seq(Seq(Binding)) /\ Here = 1 /\ frames[1] = Root0
  BY <1>1 DEF Init, Here
<1>4. given \subseteq Value
  BY <1>1, ValuesType DEF Init, Value, Conditions
<1>5. TypeOK
  BY <1>3, <1>4, BoundsAssumption DEF Init, TypeOK, Definers
<1>6. UniqueIn(Root0) /\ UniqueIn(<<>>)
  BY <1>2, BuiltinsAssumption DEF UniqueIn, Root0
<1>7. SymbolsUnique
  BY <1>3, <1>6 DEF Init, SymbolsUnique
<1>8. RootIntact /\ CallHasRoom
  BY <1>2, <1>3 DEF Init, RootIntact, CallHasRoom
<1> QED BY <1>5, <1>7, <1>8 DEF IInv

\* Every step keeps it.
LEMMA NextIInv == IInv /\ [Next]_vars => IInv'
<1> SUFFICES ASSUME IInv, [Next]_vars PROVE IInv'
  OBVIOUS
<1>1. TypeOK' /\ CallHasRoom'
  BY TypeStep DEF IInv
<1>2. SymbolsUnique'
  BY UniqueStep DEF IInv
<1>3. RootIntact'
  BY <1>1, RootStep DEF IInv
<1> QED BY <1>1, <1>2, <1>3 DEF IInv

\* The inductive invariant holds in every reachable state.
LEMMA IInvHolds == Spec => []IInv
BY InitIInv, NextIInv, PTL DEF Spec

\* Environments, operations in progress and values keep their types.
THEOREM TypeCorrect == Spec => []TypeOK
<1>1. IInv => TypeOK
  BY DEF IInv
<1> QED BY <1>1, IInvHolds, PTL

\* No environment, attached or being filled, ever binds a symbol twice.
THEOREM UniqueSymbols == Spec => []SymbolsUnique
<1>1. IInv => SymbolsUnique
  BY DEF IInv
<1> QED BY <1>1, IInvHolds, PTL

\* No program can rebind a builtin in the root environment.
THEOREM BuiltinsStay == Spec => []RootIntact
<1>1. IInv => RootIntact
  BY DEF IInv
<1> QED BY <1>1, IInvHolds, PTL

\* A binding that is not dynamic never changes while its environment lives.
THEOREM ConstantsStay == Spec => OnlyDynamicChanges
<1> DEFINE A == \A d \in 1..Here : d \in 1..Here' =>
          /\ Len(frames'[d]) >= Len(frames[d])
          /\ \A i \in 1..Len(frames[d]) :
                /\ frames'[d][i].sym = frames[d][i].sym
                /\ frames[d][i].cond # "dynamic" => frames'[d][i] = frames[d][i]
<1>1. IInv /\ [Next]_vars => [A]_vars
  BY FramesKeep DEF IInv
<1> HIDE DEF A
<1>2. Spec => [][A]_vars
  BY <1>1, IInvHolds, PTL DEF Spec
<1> QED BY <1>2 DEF A, OnlyDynamicChanges

\* A callee never writes the environment of one of its callers.
THEOREM CallersStay == Spec => CallersUntouched
<1> DEFINE A == \A d \in 2..(Here - 1) : frames'[d] = frames[d]
<1>1. IInv /\ [Next]_vars => [A]_vars
  <2> SUFFICES ASSUME IInv, [Next]_vars, NEW d \in 2..(Here - 1) PROVE frames'[d] = frames[d]
    OBVIOUS
  <2>1. TypeOK /\ Here \in Nat /\ frames \in Seq(Seq(Binding)) /\ Here = Len(frames)
    BY DEF IInv, TypeOK, Here
  <2>2. d \in 1..Here' /\ d \in 1..Here
    BY <2>1, FramesStep, DefinePutFacts DEF Here
  <2> QED BY <2>1, <2>2, FramesKeep
<1> HIDE DEF A
<1>2. Spec => [][A]_vars
  BY <1>1, IInvHolds, PTL DEF Spec
<1> QED BY <1>2 DEF A, CallersUntouched

----------------------------------------------------------------------------
(* What a definition stores is found again *)

\* What lenv_put has stored is what a search of the table finds.
LEMMA PutFound ==
    ASSUME NEW env \in Seq(Binding), UniqueIn(env), NEW s \in Names,
           NEW v \in Value, NEW c \in Conditions
    PROVE  /\ Binds(Put(env, s, v, c), s)
           /\ Put(env, s, v, c)[Index(Put(env, s, v, c), s)].data = v.data
<1> DEFINE new == Put(env, s, v, c)
<1>1. new \in Seq(Binding) /\ UniqueIn(new)
  BY PutType, PutUnique
<1>2. PICK i \in 1..Len(new) : new[i].sym = s /\ new[i].data = v.data
  <2>1. CASE Binds(env, s)
    <3>1. Index(env, s) \in 1..Len(env)
      BY <2>1, IndexFinds
    <3>2. Len(new) = Len(env) /\ new[Index(env, s)] = [sym |-> s, data |-> v.data, cond |-> v.cond]
      BY <2>1, <3>1 DEF Put
    <3> QED BY <3>1, <3>2
  <2>2. CASE ~Binds(env, s)
    <3>1. /\ Len(new) = Len(env) + 1 /\ Len(env) + 1 \in 1..Len(new)
          /\ new[Len(env) + 1].sym = s /\ new[Len(env) + 1].data = v.data
      BY <2>2 DEF Put
    <3> QED BY <3>1
  <2> QED BY <2>1, <2>2
<1> HIDE DEF new
<1>3. Binds(new, s)
  BY <1>2 DEF Binds
<1>4. Index(new, s) = i
  BY <1>1, <1>2, <1>3, IndexFinds DEF UniqueIn
<1> QED BY <1>2, <1>3, <1>4 DEF new

\* The innermost environment that binds a symbol is the only one the climb ends in.
LEMMA FrameIs ==
    ASSUME NEW fs \in Seq(Seq(Binding)), NEW s, NEW d \in 1..Len(fs), Binds(fs[d], s),
           \A e \in (d + 1)..Len(fs) : ~Binds(fs[e], s)
    PROVE  FrameOf(fs, s) = d
<1> DEFINE f == FrameOf(fs, s)
<1>1. /\ f \in 1..Len(fs) /\ Binds(fs[f], s) /\ Len(fs) \in Nat
      /\ \A e \in (f + 1)..Len(fs) : ~Binds(fs[e], s)
  BY FrameFinds
<1> HIDE DEF f
<1>2. ~(f < d) /\ ~(d < f)
  BY <1>1
<1> QED BY <1>1, <1>2 DEF f

\* A stored value is found next, and a global one unless a call hides it.
LEMMA StoredIsFound ==
    ASSUME TypeOK, TypeOK', SymbolsUnique, DefinePut
    PROVE  LET s == Head(names)
               v == Head(vals).data
           IN  IF fn \in {"global", "globalc"} /\ \E d \in 2..Here : Binds(frames[d], s)
               THEN Get(frames', s) = Get(frames, s)
               ELSE Get(frames', s).data = v
<1> DEFINE s      == Head(names)
           d      == DefineFrame
           hidden == fn \in {"global", "globalc"} /\ \E e \in 2..Here : Binds(frames[e], s)
           new    == frames'
<1>1. /\ s \in Names /\ Head(vals) \in Value /\ DefineCond \in Conditions
      /\ d \in 1..Here /\ frames[d] \in Seq(Binding)
      /\ frames \in Seq(Seq(Binding)) /\ Here = Len(frames) /\ Len(new) = Len(frames)
      /\ new[d] = Put(frames[d], s, Head(vals), DefineCond)
      /\ \A e \in 1..Here : e # d => new[e] = frames[e]
  BY DefinePutFacts
<1>2. new \in Seq(Seq(Binding)) /\ Here \in Nat
  BY <1>1 DEF TypeOK
<1>3. UniqueIn(frames[d])
  BY <1>1 DEF SymbolsUnique
<1>4. d = IF fn \in {"let", "letc"} THEN Here ELSE 1
  BY DEF DefineFrame
<1>5. fn \in {"let", "letc", "global", "globalc"}
  BY DEF TypeOK, Definers
<1> HIDE DEF s, d, new
<1>6. CASE hidden
  <2>1. PICK e \in 2..Here : Binds(frames[e], s)
    BY <1>6
  <2> DEFINE f == FrameOf(frames, s)
  <2>2. /\ f \in 1..Len(frames) /\ Binds(frames[f], s)
        /\ \A g \in (f + 1)..Len(frames) : ~Binds(frames[g], s)
    <3>1. e \in 1..Len(frames)
      BY <1>1, <1>2
    <3> QED BY <1>1, <2>1, <3>1, FrameFinds
  <2> HIDE DEF f
  <2>3. f >= 2 /\ d = 1
    BY <1>1, <1>2, <1>4, <1>6, <2>1, <2>2, SMTT(20), ZenonT(40)
  <2>4. new[f] = frames[f] /\ \A g \in (f + 1)..Len(new) : new[g] = frames[g]
    BY <1>1, <1>2, <2>2, <2>3
  <2>5. FrameOf(new, s) = f
    BY <1>1, <1>2, <2>2, <2>4, FrameIs
  <2>6. Get(new, s) = Get(frames, s)
    BY <2>4, <2>5 DEF Get, f
  <2> QED BY <1>6, <2>6 DEF s, new
<1>7. CASE ~hidden
  <2>1. \A e \in (d + 1)..Len(new) : ~Binds(new[e], s)
    BY <1>1, <1>2, <1>4, <1>5, <1>7
  <2>2. Binds(new[d], s) /\ new[d][Index(new[d], s)].data = Head(vals).data
    BY <1>1, <1>3, PutFound
  <2>3. FrameOf(new, s) = d
    BY <1>1, <1>2, <2>1, <2>2, FrameIs
  <2>4. Get(new, s).data = Head(vals).data
    BY <2>2, <2>3 DEF Get
  <2> QED BY <1>7, <2>4 DEF s, new
<1> QED BY <1>6, <1>7

\* What let, letc, global or globalc has stored is what the symbol evaluates to next,
\* whatever is in the chain; a variable of a call in progress hides a global one.
THEOREM WhatIsStoredIsSeen == Spec => StoredIsSeen
<1> DEFINE A == DefinePut =>
          LET s == Head(names)
              v == Head(vals).data
          IN  IF fn \in {"global", "globalc"} /\ \E d \in 2..Here : Binds(frames[d], s)
              THEN Get(frames', s) = Get(frames, s)
              ELSE Get(frames', s).data = v
<1>1. IInv /\ IInv' => A
  BY StoredIsFound DEF IInv
<1> HIDE DEF A
<1>2. Spec => [][A]_vars
  BY <1>1, IInvHolds, PTL DEF Spec
<1> QED BY <1>2 DEF A, StoredIsSeen

----------------------------------------------------------------------------
(* Env implements Scopes *)

\* The one binding of a symbol is what the map has for it.
LEMMA AsMapValue ==
    ASSUME NEW env \in Seq(Binding), UniqueIn(env), NEW i \in 1..Len(env)
    PROVE  /\ env[i].sym \in DOMAIN AsMap(env)
           /\ AsMap(env)[env[i].sym] = [data |-> env[i].data, cond |-> env[i].cond]
<1>1. Binds(env, env[i].sym)
  BY DEF Binds
<1>2. Index(env, env[i].sym) = i
  BY <1>1, IndexFinds DEF UniqueIn
<1> QED BY <1>2 DEF AsMap

\* The map of a table is a scope, and its domain is what the table binds.
LEMMA AsMapType ==
    ASSUME NEW env \in Seq(Binding)
    PROVE  /\ AsMap(env) \in S!Scope
           /\ \A s : s \in DOMAIN AsMap(env) <=> Binds(env, s)
<1>1. \A s : s \in DOMAIN AsMap(env) <=> Binds(env, s)
  BY DEF AsMap, Binds
<1>2. DOMAIN AsMap(env) \in SUBSET Names
  <2> SUFFICES ASSUME NEW i \in 1..Len(env) PROVE env[i].sym \in Names
    BY DEF AsMap
  <2>1. env[i] \in Binding
    OBVIOUS
  <2> QED BY <2>1 DEF Binding
<1>3. \A s \in DOMAIN AsMap(env) : AsMap(env)[s] \in Value
  <2> SUFFICES ASSUME NEW s \in DOMAIN AsMap(env) PROVE AsMap(env)[s] \in Value
    OBVIOUS
  <2>1. Index(env, s) \in 1..Len(env)
    BY <1>1, IndexFinds
  <2>2. env[Index(env, s)] \in Binding
    BY <2>1
  <2> QED BY <2>2 DEF AsMap, Binding, Value
<1>4. AsMap(env) = [s \in DOMAIN AsMap(env) |-> AsMap(env)[s]]
  BY DEF AsMap
<1>5. AsMap(env) \in [DOMAIN AsMap(env) -> Value]
  BY <1>3, <1>4
<1> QED BY <1>1, <1>2, <1>5 DEF S!Scope

\* The value lenv_put leaves in the table.
Stored(env, v, s, c) ==
    IF Binds(env, s) THEN [data |-> v.data, cond |-> v.cond]
    ELSE [data |-> v.data, cond |-> IF v.cond = "unset" THEN c ELSE v.cond]

\* Two maps with the same values at the same names are the same map.
LEMMA SameMap ==
    ASSUME NEW f, NEW g, f = [t \in DOMAIN f |-> f[t]], g = [t \in DOMAIN g |-> g[t]],
           DOMAIN f = DOMAIN g, \A t \in DOMAIN g : f[t] = g[t]
    PROVE  f = g
OBVIOUS

\* The update of one name that a store is, seen on the table's map.
Update(env, v, s, c) ==
    [t \in DOMAIN AsMap(env) \cup {s} |->
        IF t = s THEN Stored(env, v, s, c) ELSE AsMap(env)[t]]

\* On maps, lenv_put is an update of one name.
LEMMA PutIsUpdate ==
    ASSUME NEW env \in Seq(Binding), UniqueIn(env), NEW s \in Names,
           NEW v \in Value, NEW c \in Conditions
    PROVE  AsMap(Put(env, s, v, c)) = Update(env, v, s, c)
<1> DEFINE new == Put(env, s, v, c)
           upd == [t \in DOMAIN AsMap(env) \cup {s} |->
                      IF t = s THEN Stored(env, v, s, c) ELSE AsMap(env)[t]]
<1> SUFFICES AsMap(new) = upd
  BY DEF Update
<1>1. new \in Seq(Binding) /\ UniqueIn(new)
  BY PutType, PutUnique
<1>2. CASE Binds(env, s)
  <2>1. PICK k \in 1..Len(env) :
           /\ env[k].sym = s /\ Len(new) = Len(env)
           /\ new[k] = [sym |-> s, data |-> v.data, cond |-> v.cond]
           /\ \A i \in 1..Len(env) : i # k => new[i] = env[i]
    BY <1>2, IndexFinds DEF Put
  <2>2. \A t : Binds(new, t) <=> Binds(env, t)
    BY <2>1 DEF Binds
  <2>3. DOMAIN AsMap(new) = DOMAIN upd
    BY <1>1, <1>2, <2>2, AsMapType
  <2>4. ASSUME NEW t \in DOMAIN upd PROVE AsMap(new)[t] = upd[t]
    <3>1. PICK i \in 1..Len(env) : env[i].sym = t
      BY <1>2, AsMapType DEF Binds
    <3>2. AsMap(new)[new[i].sym] = [data |-> new[i].data, cond |-> new[i].cond]
      BY <1>1, <2>1, AsMapValue
    <3>3. AsMap(env)[env[i].sym] = [data |-> env[i].data, cond |-> env[i].cond]
      BY AsMapValue
    <3>4. CASE i = k
      BY <1>2, <2>1, <3>1, <3>2, <3>4 DEF Stored
    <3>5. CASE i # k
      BY <2>1, <3>1, <3>2, <3>3, <3>5 DEF UniqueIn
    <3> QED BY <3>4, <3>5
  <2>5. AsMap(new) = [t \in DOMAIN AsMap(new) |-> AsMap(new)[t]]
    BY DEF AsMap
  <2>6. upd = [t \in DOMAIN upd |-> upd[t]]
    OBVIOUS
  <2> HIDE DEF new, upd
  <2> QED BY <2>3, <2>4, <2>5, <2>6, SameMap
<1>3. CASE ~Binds(env, s)
  <2>1. /\ Len(new) = Len(env) + 1
        /\ new[Len(env) + 1] =
              [sym |-> s, data |-> v.data,
               cond |-> IF v.cond = "unset" THEN c ELSE v.cond]
        /\ \A i \in 1..Len(env) : new[i] = env[i]
    BY <1>3 DEF Put
  <2>2. \A t : Binds(new, t) <=> Binds(env, t) \/ t = s
    BY <2>1 DEF Binds
  <2>3. DOMAIN AsMap(new) = DOMAIN upd
    BY <1>1, <2>2, AsMapType
  <2>4. ASSUME NEW t \in DOMAIN upd PROVE AsMap(new)[t] = upd[t]
    <3>1. CASE t = s
      <4>1. AsMap(new)[new[Len(env) + 1].sym] =
               [data |-> new[Len(env) + 1].data, cond |-> new[Len(env) + 1].cond]
        BY <1>1, <2>1, AsMapValue
      <4> QED BY <1>3, <2>1, <3>1, <4>1 DEF Stored
    <3>2. CASE t # s
      <4>1. PICK i \in 1..Len(env) : env[i].sym = t
        BY <3>2, AsMapType DEF Binds
      <4>2. AsMap(new)[new[i].sym] = [data |-> new[i].data, cond |-> new[i].cond]
        BY <1>1, <2>1, AsMapValue
      <4>3. AsMap(env)[env[i].sym] = [data |-> env[i].data, cond |-> env[i].cond]
        BY AsMapValue
      <4> QED BY <2>1, <3>2, <4>1, <4>2, <4>3
    <3> QED BY <3>1, <3>2
  <2>5. AsMap(new) = [t \in DOMAIN AsMap(new) |-> AsMap(new)[t]]
    BY DEF AsMap
  <2>6. upd = [t \in DOMAIN upd |-> upd[t]]
    OBVIOUS
  <2> HIDE DEF new, upd
  <2> QED BY <2>3, <2>4, <2>5, <2>6, SameMap
<1> QED BY <1>2, <1>3

\* A store of a definer is a store of the abstract specification.
LEMMA DefineRefines ==
    ASSUME TypeOK, SymbolsUnique, DefinePut
    PROVE  S!Store(DefineFrame, Head(names),
              Stored(frames[DefineFrame], Head(vals), Head(names), DefineCond))
<1> DEFINE d == DefineFrame
           s == Head(names)
           w == Stored(frames[d], Head(vals), s, DefineCond)
<1>1. /\ d \in 1..Here /\ frames[d] \in Seq(Binding) /\ UniqueIn(frames[d])
      /\ AsScopes[d] = AsMap(frames[d]) /\ Here' = Here
  BY DefinePutFacts DEF SymbolsUnique, AsScopes, Here
<1>2. AsMap(frames'[d]) = [t \in DOMAIN AsMap(frames[d]) \cup {s} |->
                              IF t = s THEN w ELSE AsMap(frames[d])[t]]
  <2>1. /\ frames'[d] = Put(frames[d], s, Head(vals), DefineCond)
        /\ s \in Names /\ Head(vals) \in Value /\ DefineCond \in Conditions
    BY DefinePutFacts
  <2>2. AsMap(Put(frames[d], s, Head(vals), DefineCond)) =
           [t \in DOMAIN AsMap(frames[d]) \cup {s} |->
               IF t = s THEN w ELSE AsMap(frames[d])[t]]
    <3>1. frames[d] \in Seq(Binding) /\ UniqueIn(frames[d])
      BY <1>1
    <3>2. s \in Names /\ Head(vals) \in Value /\ DefineCond \in Conditions
      BY <2>1
    <3> HIDE DEF d, s
    <3>3. AsMap(Put(frames[d], s, Head(vals), DefineCond)) =
             Update(frames[d], Head(vals), s, DefineCond)
      BY <3>1, <3>2, PutIsUpdate
    <3> QED BY <3>3 DEF Update
  <2> QED BY <2>1, <2>2
<1>3. AsScopes' = [AsScopes EXCEPT ![d] = AsMap(frames'[d])]
  <2>1. \A e \in 1..Here : e # d => frames'[e] = frames[e]
    BY DefinePutFacts
  <2> QED BY <1>1, <2>1 DEF AsScopes
<1>4. CASE s \in DOMAIN AsMap(frames[d])
  <2>1. Binds(frames[d], s)
    BY <1>1, <1>4, AsMapType
  <2>2. frames[d][Index(frames[d], s)].cond = "dynamic"
    BY <2>1, DefinePutFacts DEF PutFails
  <2>3. AsMap(frames[d])[s].cond = "dynamic"
    BY <1>4, <2>2 DEF AsMap
  <2> QED BY <1>1, <1>2, <1>3, <1>4, <2>3 DEF S!Store
<1>5. CASE s \notin DOMAIN AsMap(frames[d])
  <2>1. ~Binds(frames[d], s)
    BY <1>1, <1>5, AsMapType
  <2>2. w.cond # "unset"
    BY <2>1, DefinePutFacts DEF Stored
  <2> QED BY <1>1, <1>2, <1>3, <1>5, <2>2 DEF S!Store
<1> QED BY <1>4, <1>5

\* The tables, searches and step-by-step bindings implement a stack of maps in
\* which only new and dynamic variables are written, innermost or outermost.
THEOREM ImplementsScopes == Spec => ScopesSpec
<1>1. Init => S!Init
  <2> SUFFICES ASSUME Init PROVE AsScopes = <<AsMap(Root0)>>
    BY DEF S!Init
  <2> QED BY DEF Init, AsScopes, Here
<1>2. IInv /\ [Next]_vars => [S!Next]_AsScopes
  <2> SUFFICES ASSUME IInv, [Next]_vars, AsScopes' # AsScopes PROVE S!Next
    OBVIOUS
  <2>0. /\ TypeOK /\ SymbolsUnique
        /\ frames \in Seq(Seq(Binding)) /\ Here = Len(frames) /\ Here \in Nat \ {0}
        /\ fenv \in Seq(Binding)
    BY DEF IInv, TypeOK, Here
  <2>1. AsScopes \in Seq(S!Scope) /\ Len(AsScopes) = Here
    BY <2>0, AsMapType DEF AsScopes
  <2>2. CASE frames' = frames
    BY <2>2 DEF AsScopes, Here
  <2>3. CASE frames' = Append(frames, fenv)
    <3>1. Here' = Here + 1 /\ frames'[Here + 1] = fenv
          /\ \A d \in 1..Here : frames'[d] = frames[d]
      BY <2>0, <2>3 DEF Here
    <3>2. AsScopes' = [d \in 1..(Here + 1) |-> AsMap(frames'[d])]
      BY <3>1 DEF AsScopes
    <3>3. AsScopes' = Append(AsScopes, AsMap(fenv))
      BY <2>0, <2>1, <3>1, <3>2 DEF AsScopes
    <3>4. AsMap(fenv) \in S!Scope
      BY <2>0, AsMapType
    <3> QED BY <3>3, <3>4 DEF S!Next, S!Open
  <2>4. CASE Here > 1 /\ frames' = SubSeq(frames, 1, Here - 1)
    <3>1. Here' = Here - 1 /\ \A d \in 1..(Here - 1) : frames'[d] = frames[d]
      BY <2>0, <2>4 DEF Here
    <3>2. AsScopes' = [d \in 1..(Here - 1) |-> AsMap(frames[d])]
      BY <3>1 DEF AsScopes
    <3>3. AsScopes' = SubSeq(AsScopes, 1, Here - 1)
      <4>1. \A d \in 1..(Here - 1) : AsScopes[d] = AsMap(frames[d])
        BY <2>0 DEF AsScopes
      <4>2. SubSeq(AsScopes, 1, Here - 1) = [d \in 1..(Here - 1) |-> AsScopes[d]]
        BY <2>0, <2>1, <2>4
      <4> QED BY <3>2, <4>1, <4>2
    <3> QED BY <2>1, <2>4, <3>3 DEF S!Next, S!Close
  <2>5. CASE DefinePut
    <3>1. DefineFrame \in {1, Len(AsScopes)} /\ Head(names) \in Names
      BY <2>0, <2>1, <2>5, DefinePutFacts
    <3>2. Stored(frames[DefineFrame], Head(vals), Head(names), DefineCond) \in Value
      BY <2>0, <2>5, DefinePutFacts DEF Stored, Value
    <3> QED BY <2>0, <2>5, <3>1, <3>2, DefineRefines DEF S!Next
  <2> QED BY <2>0, <2>2, <2>3, <2>4, <2>5, FramesStep
<1> QED BY <1>1, <1>2, IInvHolds, PTL DEF Spec, S!Spec, ScopesSpec
=============================================================================
