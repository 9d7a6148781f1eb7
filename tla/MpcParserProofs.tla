-------------------------- MODULE MpcParserProofs --------------------------
(* Proofs about MpcParser, for any number of nodes and parts. *)
EXTENDS MpcParser, FiniteSetTheorems, TLAPS

----------------------------------------------------------------------------
(* The graph of nodes *)

\* A closure holds the set it starts from and is closed.
LEMMA ClosureHolds ==
    ASSUME NEW S \in SUBSET Nodes, NEW stop, parts \in [Nodes -> Seq(Nodes)]
    PROVE  /\ Closure(S, stop) \in SUBSET Nodes /\ S \subseteq Closure(S, stop)
           /\ \A m \in Closure(S, stop) \ stop : PartsOf(m) \subseteq Closure(S, stop)
<1> DEFINE C == Closure(S, stop)
<1>1. C \in SUBSET Nodes /\ S \subseteq C
  BY DEF Closure
<1>2. ASSUME NEW m \in C \ stop, NEW n \in PartsOf(m) PROVE n \in C
  <2>1. n \in Nodes /\ m \in Nodes
    BY <1>1, <1>2 DEF PartsOf
  <2>2. ASSUME NEW T \in SUBSET Nodes, S \subseteq T, \A k \in T \ stop : PartsOf(k) \subseteq T
        PROVE  n \in T
    <3>1. m \in T
      BY <2>2 DEF Closure
    <3> QED BY <2>2, <3>1
  <2> QED BY <2>1, <2>2 DEF Closure
<1> QED BY <1>1, <1>2

\* It is the smallest such set.
LEMMA ClosureLeast ==
    ASSUME NEW S \in SUBSET Nodes, NEW stop, NEW T \in SUBSET Nodes, S \subseteq T,
           \A m \in T \ stop : PartsOf(m) \subseteq T
    PROVE  Closure(S, stop) \subseteq T
BY DEF Closure

\* A node of a closure was there from the start or is a part of another of its nodes.
LEMMA ClosureBack ==
    ASSUME NEW S \in SUBSET Nodes, NEW stop, parts \in [Nodes -> Seq(Nodes)],
           NEW n \in Closure(S, stop), n \notin S
    PROVE  \E m \in Closure(S, stop) \ stop : n \in PartsOf(m)
<1> DEFINE C == Closure(S, stop)
           T == C \ {n}
<1>1. C \in SUBSET Nodes /\ S \subseteq C /\ \A m \in C \ stop : PartsOf(m) \subseteq C
  BY ClosureHolds
<1> SUFFICES ASSUME \A m \in C \ stop : n \notin PartsOf(m) PROVE FALSE
  OBVIOUS
<1>2. T \in SUBSET Nodes /\ S \subseteq T /\ \A m \in T \ stop : PartsOf(m) \subseteq T
  BY <1>1
<1> HIDE DEF C, T
<1>3. Closure(S, stop) \subseteq T
  BY <1>2, ClosureLeast
<1> QED BY <1>3 DEF T

----------------------------------------------------------------------------
(* The invariant *)

Todo == {todo[i] : i \in 1..Len(todo)}

\* Place i of the parts of m is where n is owned.
IsPart(m, i, n) == m \in Live \ lost /\ i \in 1..Len(parts[m]) /\ parts[m][i] = n

InTodo(n) == \E i \in 1..Len(todo) : todo[i] = n
InPart(n) == \E m \in Nodes : \E i \in Nat : IsPart(m, i, n)

\* What Owners counts, kind by kind: there is an owner, and no second one.
Owned(n) == n \in held \/ n \in lost \/ InTodo(n) \/ InPart(n)

Once(n) ==
    /\ n \in held => n \notin lost /\ ~InTodo(n) /\ ~InPart(n)
    /\ n \in lost => ~InTodo(n) /\ ~InPart(n)
    /\ InTodo(n) => ~InPart(n)
    /\ \A i, j \in 1..Len(todo) : todo[i] = n /\ todo[j] = n => i = j
    /\ \A m, k \in Nodes : \A i, j \in Nat :
          IsPart(m, i, n) /\ IsPart(k, j, n) => m = k /\ i = j

OwnedOnce == \A n \in Live \ retained : Owned(n) /\ Once(n)

\* The caller keeps its pointers to retained parsers, and they are never lost.
RetainedHeld == retained \subseteq held /\ lost \cap retained = {}

FreeIsEmpty == \A n \in Nodes : type[n] = "free" => parts[n] = <<>>

\* Only what is lost may refer to nodes that have been freed.
RefersToLive == Todo \subseteq Live /\ \A m \in Live \ lost : PartsOf(m) \subseteq Live

\* Every other node can be got at.
Rooted == Live \ lost \subseteq Reach(held \cup Todo)

CleanupType == cleanup \in [undefine : SUBSET Nodes, delete : SUBSET Nodes]

\* What mpc_cleanup has undefined has no parts, and no parser that stays refers to one
\* that goes.
CleanupSafe ==
    /\ \A p \in cleanup.delete \ cleanup.undefine : parts[p] = <<>>
    /\ Reach(held \ cleanup.delete) \cap cleanup.delete = {}

IInv ==
    /\ TypeOK /\ CleanupType
    /\ RetainedHeld /\ FreeIsEmpty
    /\ OwnedOnce /\ RefersToLive /\ Rooted
    /\ CleanupSafe

LEMMA InitInv == Init => IInv
<1> SUFFICES ASSUME Init PROVE IInv
  OBVIOUS
<1>1. Live = {} /\ Todo = {} /\ retained = {} /\ held = {} /\ lost = {}
  BY DEF Init, Live, Todo
<1>2. TypeOK /\ CleanupType
  BY <1>1 DEF Init, TypeOK, CleanupType, Nothing
<1>3. RetainedHeld /\ FreeIsEmpty /\ OwnedOnce /\ RefersToLive /\ Rooted
  BY <1>1 DEF Init, RetainedHeld, FreeIsEmpty, OwnedOnce, RefersToLive, Rooted
<1>4. CleanupSafe
  BY DEF Init, CleanupSafe, Nothing
<1> QED BY <1>2, <1>3, <1>4 DEF IInv

----------------------------------------------------------------------------
(* What the invariant says of the nodes below a node *)

\* The unretained nodes that belong to a node that is not lost are owned by it and by
\* each other, and by nobody else.
LEMMA BelowFacts ==
    ASSUME IInv, NEW p \in Live \ lost
    PROVE  /\ PartsOf(p) \subseteq Below(p) \cup retained
           /\ \A m \in Below(p) : PartsOf(m) \subseteq Below(p) \cup retained
           /\ Below(p) \subseteq Live \ (lost \cup retained \cup held \cup Todo)
           /\ \A n \in Below(p) : \E m \in {p} \cup Below(p) : \E i \in Nat : IsPart(m, i, n)
<1> DEFINE C == Closure(PartsOf(p), retained)
           L == Live \ lost
<1>1. /\ type \in [Nodes -> {"free", "undefined", "defined"}]
      /\ parts \in [Nodes -> Seq(Nodes)] /\ todo \in Seq(Nodes)
      /\ retained \subseteq Live /\ held \subseteq Live /\ lost \subseteq Live
      /\ Live \subseteq Nodes
  BY DEF IInv, TypeOK, Live
<1>2. PartsOf(p) \in SUBSET Nodes
  BY <1>1 DEF PartsOf
<1>3. /\ C \in SUBSET Nodes /\ PartsOf(p) \subseteq C
      /\ \A m \in C \ retained : PartsOf(m) \subseteq C
  BY <1>1, <1>2, ClosureHolds
<1>4. Below(p) = C \ retained
  BY DEF Below
<1>5. \A n \in C : n \notin PartsOf(p) => \E m \in C \ retained : n \in PartsOf(m)
  BY <1>1, <1>2, ClosureBack
<1>6. \A m \in L : PartsOf(m) \subseteq L
  <2> SUFFICES ASSUME NEW m \in L, NEW n \in PartsOf(m) PROVE n \in Live /\ n \notin lost
    OBVIOUS
  <2>1. n \in Live
    BY DEF IInv, RefersToLive
  <2>2. PICK i \in 1..Len(parts[m]) : parts[m][i] = n
    BY DEF PartsOf
  <2>3. m \in Nodes /\ i \in Nat /\ IsPart(m, i, n)
    BY <1>1, <2>2 DEF IsPart
  <2>4. CASE n \in retained
    BY <2>1, <2>4 DEF IInv, RetainedHeld
  <2>5. CASE n \notin retained
    <3>1. Once(n)
      BY <2>1, <2>5 DEF IInv, OwnedOnce
    <3> QED BY <2>1, <2>3, <3>1 DEF Once, InPart
  <2> QED BY <2>4, <2>5
<1>7. C \subseteq L
  <2> HIDE DEF L, C
  <2>1. L \in SUBSET Nodes
    BY <1>1 DEF L
  <2>2. PartsOf(p) \subseteq L
    BY <1>6 DEF L
  <2> QED BY <1>2, <1>6, <2>1, <2>2, ClosureLeast DEF C
<1>8. ASSUME NEW n \in Below(p)
      PROVE  \E m \in {p} \cup Below(p) : \E i \in Nat : IsPart(m, i, n)
  <2>1. PICK m \in {p} \cup Below(p) : n \in PartsOf(m)
    BY <1>4, <1>5
  <2>2. m \in L
    BY <1>4, <1>7
  <2>3. PICK i \in 1..Len(parts[m]) : parts[m][i] = n
    BY <2>1 DEF PartsOf
  <2>4. i \in Nat /\ IsPart(m, i, n)
    BY <1>1, <2>2, <2>3 DEF IsPart
  <2> QED BY <2>4
<1>9. ASSUME NEW n \in Below(p) PROVE n \in Live \ (lost \cup retained \cup held \cup Todo)
  <2>1. n \in L /\ n \notin retained
    BY <1>4, <1>7
  <2>2. Once(n)
    BY <2>1 DEF IInv, OwnedOnce
  <2>3. InPart(n)
    BY <1>1, <1>3, <1>4, <1>8 DEF InPart
  <2>4. n \notin held /\ ~InTodo(n)
    BY <2>2, <2>3 DEF Once
  <2>5. n \notin Todo
    BY <2>4 DEF InTodo, Todo
  <2> QED BY <2>1, <2>4, <2>5
<1> QED BY <1>3, <1>4, <1>8, <1>9

----------------------------------------------------------------------------
(* What the invariant implies *)

LEMMA OwnersOnce ==
    ASSUME NEW n \in Live, parts \in [Nodes -> Seq(Nodes)], todo \in Seq(Nodes),
           Owned(n), Once(n)
    PROVE  Cardinality(Owners(n)) = 1
<1>1. Live \subseteq Nodes /\ \A m \in Live : Len(parts[m]) \in Nat
  BY DEF Live
<1>2. ASSUME NEW o
      PROVE  o \in Owners(n) <=>
                \/ n \in held /\ o = <<"held", 0, 0>>
                \/ n \in lost /\ o = <<"lost", 0, 0>>
                \/ \E i \in 1..Len(todo) : todo[i] = n /\ o = <<"todo", 0, i>>
                \/ \E m \in Nodes : \E i \in Nat : IsPart(m, i, n) /\ o = <<"part", m, i>>
  <2> DEFINE P == UNION {{<<"part", m, i>> : i \in {j \in 1..Len(parts[m]) : parts[m][j] = n}} :
                            m \in Live \ lost}
  <2>1. o \in P <=> \E m \in Nodes : \E i \in Nat : IsPart(m, i, n) /\ o = <<"part", m, i>>
    <3>1. ASSUME o \in P
          PROVE  \E m \in Nodes : \E i \in Nat : IsPart(m, i, n) /\ o = <<"part", m, i>>
      <4>1. PICK m \in Live \ lost :
                o \in {<<"part", m, i>> : i \in {j \in 1..Len(parts[m]) : parts[m][j] = n}}
        BY <3>1
      <4>2. PICK i \in 1..Len(parts[m]) : parts[m][i] = n /\ o = <<"part", m, i>>
        BY <4>1
      <4> QED BY <1>1, <4>1, <4>2 DEF IsPart
    <3>2. ASSUME NEW m \in Nodes, NEW i \in Nat, IsPart(m, i, n), o = <<"part", m, i>>
          PROVE  o \in P
      BY <3>2 DEF IsPart
    <3> QED BY <3>1, <3>2
  <2>2. o \in {<<"todo", 0, i>> : i \in {j \in 1..Len(todo) : todo[j] = n}}
           <=> \E i \in 1..Len(todo) : todo[i] = n /\ o = <<"todo", 0, i>>
    OBVIOUS
  <2> QED BY <2>1, <2>2 DEF Owners
<1>3. CASE n \in held
  <2>1. \A o : o \in Owners(n) <=> o = <<"held", 0, 0>>
    BY <1>2, <1>3 DEF Once, InTodo, InPart
  <2>2. Owners(n) = {<<"held", 0, 0>>}
    BY <2>1
  <2> QED BY <2>2, FS_Singleton
<1>4. CASE n \in lost
  <2>1. \A o : o \in Owners(n) <=> o = <<"lost", 0, 0>>
    BY <1>2, <1>4 DEF Once, InTodo, InPart
  <2>2. Owners(n) = {<<"lost", 0, 0>>}
    BY <2>1
  <2> QED BY <2>2, FS_Singleton
<1>5. CASE InTodo(n)
  <2>1. PICK i \in 1..Len(todo) : todo[i] = n
    BY <1>5 DEF InTodo
  <2>2. \A o : o \in Owners(n) <=> o = <<"todo", 0, i>>
    BY <1>2, <1>5, <2>1 DEF Once, InPart
  <2>3. Owners(n) = {<<"todo", 0, i>>}
    BY <2>2
  <2> QED BY <2>3, FS_Singleton
<1>6. CASE InPart(n)
  <2>1. PICK m \in Nodes, i \in Nat : IsPart(m, i, n)
    BY <1>6 DEF InPart
  <2>2. \A o : o \in Owners(n) <=> o = <<"part", m, i>>
    BY <1>2, <1>6, <2>1 DEF Once, InTodo
  <2>3. Owners(n) = {<<"part", m, i>>}
    BY <2>2
  <2> QED BY <2>3, FS_Singleton
<1> QED BY <1>3, <1>4, <1>5, <1>6 DEF Owned

\* What the caller and the walk have pointers to is not lost, nor are its parts.
LEMMA LiveFacts ==
    ASSUME IInv
    PROVE  /\ type \in [Nodes -> {"free", "undefined", "defined"}]
           /\ parts \in [Nodes -> Seq(Nodes)] /\ todo \in Seq(Nodes)
           /\ Live \subseteq Nodes /\ lost \subseteq Live
           /\ retained \subseteq held /\ held \cup Todo \subseteq Live \ lost
           /\ \A m \in Live \ lost : PartsOf(m) \subseteq Live \ lost
<1>1. /\ type \in [Nodes -> {"free", "undefined", "defined"}]
      /\ parts \in [Nodes -> Seq(Nodes)] /\ todo \in Seq(Nodes)
      /\ retained \subseteq held /\ held \subseteq Live /\ lost \subseteq Live
      /\ Live \subseteq Nodes
  BY DEF IInv, TypeOK, RetainedHeld, Live
<1>2. held \cup Todo \subseteq Live \ lost
  <2> SUFFICES ASSUME NEW n \in held \cup Todo PROVE n \in Live \ lost
    OBVIOUS
  <2>1. n \in Live
    BY <1>1 DEF IInv, RefersToLive
  <2>2. CASE n \in retained
    BY <2>1, <2>2 DEF IInv, RetainedHeld
  <2>3. CASE n \notin retained
    BY <2>1, <2>3 DEF IInv, OwnedOnce, Once, InTodo, Todo
  <2> QED BY <2>2, <2>3
<1>3. \A m \in Live \ lost : PartsOf(m) \subseteq Live \ lost
  <2> SUFFICES ASSUME NEW m \in Live \ lost, NEW n \in PartsOf(m) PROVE n \in Live \ lost
    OBVIOUS
  <2>1. n \in Live
    BY DEF IInv, RefersToLive
  <2>2. n \in Below(m) \cup retained
    BY BelowFacts
  <2>3. CASE n \in Below(m)
    BY <2>3, BelowFacts
  <2>4. CASE n \in retained
    BY <2>1, <2>4 DEF IInv, RetainedHeld
  <2> QED BY <2>2, <2>3, <2>4
<1> QED BY <1>1, <1>2, <1>3

LEMMA InvImplies == IInv => TypeOK /\ OneOwner /\ NothingDangles /\ NothingLeaks
<1> SUFFICES ASSUME IInv PROVE TypeOK /\ OneOwner /\ NothingDangles /\ NothingLeaks
  OBVIOUS
<1>1. /\ parts \in [Nodes -> Seq(Nodes)] /\ todo \in Seq(Nodes)
      /\ retained \subseteq Live /\ held \subseteq Live /\ lost \subseteq Live
      /\ Live \subseteq Nodes /\ TypeOK
  BY DEF IInv, TypeOK, Live
<1>2. OneOwner
  <2> SUFFICES ASSUME NEW n \in Live \ retained PROVE Cardinality(Owners(n)) = 1
    BY DEF OneOwner
  <2> QED BY <1>1, OwnersOnce DEF IInv, OwnedOnce
<1>3. held \cup Todo \subseteq Live \ lost /\ \A m \in Live \ lost : PartsOf(m) \subseteq Live \ lost
  BY LiveFacts
<1>5. Reach(held \cup Todo) \subseteq Live \ lost
  <2> DEFINE L == Live \ lost
  <2>1. L \in SUBSET Nodes /\ held \cup Todo \in SUBSET Nodes
    BY <1>1, <1>3
  <2> HIDE DEF L
  <2> QED BY <1>3, <2>1, ClosureLeast DEF Reach, L
<1>6. NothingDangles
  BY <1>5 DEF NothingDangles, Todo
<1>7. NothingLeaks
  <2> DEFINE S == held \cup lost \cup Todo
             R == Reach(S)
  <2>1. S \in SUBSET Nodes /\ held \cup Todo \in SUBSET Nodes
    BY <1>1, <1>3
  <2>2. R \in SUBSET Nodes /\ S \subseteq R /\ \A m \in R : PartsOf(m) \subseteq R
    BY <1>1, <2>1, ClosureHolds DEF Reach
  <2> HIDE DEF R
  <2>3. Reach(held \cup Todo) \subseteq R
    BY <2>1, <2>2, ClosureLeast DEF Reach
  <2>4. Live \subseteq R
    BY <2>2, <2>3 DEF IInv, Rooted
  <2> QED BY <2>4 DEF NothingLeaks, Todo, R
<1> QED BY <1>1, <1>2, <1>6, <1>7

----------------------------------------------------------------------------
(* The steps *)

\* Outside a cleanup there is nothing to show about one.
LEMMA NoCleanup == cleanup' = Nothing => CleanupType' /\ CleanupSafe'
BY DEF Nothing, CleanupType, CleanupSafe

LEMMA IdleFacts == Idle => todo = <<>> /\ Todo = {} /\ cleanup = Nothing
BY DEF Idle, Todo

LEMMA NewKeeps ==
    ASSUME IInv, NEW n \in Nodes, New(n)
    PROVE  IInv'
<1>1. Live' = Live \cup {n} /\ n \notin Live /\ parts[n] = <<>>
  BY LiveFacts DEF New, Live, IInv, FreeIsEmpty
<1>2. todo = <<>> /\ Todo = {} /\ Todo' = {} /\ cleanup = Nothing
  BY IdleFacts DEF New, Todo
<1>3. TypeOK'
  BY <1>1, <1>2 DEF IInv, TypeOK, New, Nothing
<1>4. CleanupType' /\ CleanupSafe'
  BY <1>2, NoCleanup DEF New
<1>5. RetainedHeld' /\ FreeIsEmpty'
  BY <1>1, LiveFacts DEF IInv, RetainedHeld, FreeIsEmpty, New, Live
<1>6. \A m \in Nodes : PartsOf(m)' = PartsOf(m)
  BY DEF PartsOf, New
<1>7. \A m \in Nodes, i \in Nat, k \in Nodes : IsPart(m, i, k)' <=> IsPart(m, i, k)
  BY <1>1, LiveFacts DEF IsPart, New
<1>8. OwnedOnce'
  BY <1>1, <1>7, LiveFacts DEF IInv, OwnedOnce, Owned, Once, InTodo, InPart, New
<1>9. RefersToLive'
  BY <1>1, <1>2, <1>6, LiveFacts DEF IInv, RefersToLive, New, PartsOf
<1>10. Rooted'
  <2> SUFFICES ASSUME NEW m \in (Live \ lost)', NEW T \in SUBSET Nodes,
                      (held \cup Todo)' \subseteq T, \A k \in T : PartsOf(k)' \subseteq T
               PROVE  m \in T
    BY <1>1, LiveFacts DEF Rooted, Reach, Closure
  <2>1. \A k \in T : PartsOf(k) \subseteq T
    BY <1>6
  <2>2. held \cup Todo \subseteq T /\ n \in T /\ held \cup Todo \in SUBSET Nodes
    BY <1>2 DEF New
  <2>3. Reach(held \cup Todo) \subseteq T
    BY <2>1, <2>2, ClosureLeast DEF Reach
  <2> QED BY <1>1, <2>2, <2>3 DEF IInv, Rooted, New
<1> QED BY <1>3, <1>4, <1>5, <1>8, <1>9, <1>10 DEF IInv

LEMMA MadeKeeps ==
    ASSUME IInv, NEW n \in Nodes, NEW xs \in Seq(Nodes), Made(n, xs)
    PROVE  IInv'
<1> DEFINE X == {xs[i] : i \in 1..Len(xs)}
<1>1. Live' = Live \cup {n} /\ n \notin Live /\ parts[n] = <<>> /\ n \notin retained
  BY LiveFacts DEF Made, Live, IInv, FreeIsEmpty
<1>2. todo = <<>> /\ Todo = {} /\ Todo' = {} /\ cleanup = Nothing
  BY IdleFacts DEF Made, Todo
<1>3. X \subseteq held /\ held' = (held \ (X \ retained)) \cup {n} /\ retained' = retained
  BY DEF Made
<1>4. parts' = [parts EXCEPT ![n] = xs] /\ parts' \in [Nodes -> Seq(Nodes)]
  BY LiveFacts DEF Made
<1>5. TypeOK'
  BY <1>1, <1>2, <1>3, <1>4, LiveFacts DEF IInv, TypeOK, Made, Nothing
<1>6. CleanupType' /\ CleanupSafe'
  BY <1>2, NoCleanup DEF Made
<1>7. RetainedHeld' /\ FreeIsEmpty'
  BY <1>1, <1>3, LiveFacts DEF IInv, RetainedHeld, FreeIsEmpty, Made, Live
<1>8. PartsOf(n)' = X /\ \A m \in Nodes \ {n} : PartsOf(m)' = PartsOf(m)
  BY <1>4, LiveFacts DEF PartsOf
<1>9. ASSUME NEW m \in Nodes, NEW i \in Nat, NEW k \in Nodes
      PROVE  IsPart(m, i, k)' <=> IF m = n THEN i \in 1..Len(xs) /\ xs[i] = k
                                  ELSE IsPart(m, i, k)
  BY <1>1, <1>4, LiveFacts DEF IsPart, Made
<1>10. ASSUME NEW m \in Nodes, NEW i \in Nat PROVE ~IsPart(m, i, n)
  BY <1>1, LiveFacts DEF IsPart, PartsOf
<1>11. ASSUME NEW k \in (Live \ retained)' PROVE Owned(k)' /\ Once(k)'
  <2>1. CASE k = n
    <3>1. k \in held' /\ k \notin lost' /\ ~InTodo(k)'
      BY <1>1, <1>2, <1>3, <2>1, LiveFacts DEF InTodo, Made
    <3>2. n \notin X
      BY <1>1, <1>3, LiveFacts
    <3>3. \A m \in Nodes, i \in Nat : ~IsPart(m, i, k)'
      BY <1>9, <1>10, <2>1, <3>2
    <3> QED BY <1>2, <3>1, <3>3 DEF Owned, Once, InPart, Made
  <2>2. CASE k # n /\ k \in X
    <3>1. k \in held /\ k \notin held' /\ k \in Live \ retained
      BY <1>1, <1>3, <2>2
    <3>2. Once(k) /\ k \notin lost' /\ ~InTodo(k)'
      BY <1>2, <3>1 DEF IInv, OwnedOnce, Once, InTodo, Made
    <3>3. ASSUME NEW m \in Nodes, NEW i \in Nat, IsPart(m, i, k)'
          PROVE  m = n /\ i \in 1..Len(xs) /\ xs[i] = k
      BY <1>1, <1>9, <3>1, <3>2, <3>3, LiveFacts DEF Once, InPart
    <3>4. InPart(k)'
      <4>1. PICK i \in 1..Len(xs) : xs[i] = k
        BY <2>2
      <4> QED BY <1>1, <1>9, <4>1, LiveFacts DEF InPart
    <3>5. \A i, j \in 1..Len(xs) : xs[i] = k /\ xs[j] = k => i = j
      BY <3>1 DEF Made
    <3> QED BY <1>2, <3>1, <3>2, <3>3, <3>4, <3>5 DEF Owned, Once, InTodo
  <2>3. CASE k # n /\ k \notin X
    <3>1. k \in Live \ retained /\ (k \in held' <=> k \in held)
      BY <1>1, <1>3, <2>3
    <3>2. Owned(k) /\ Once(k)
      BY <3>1 DEF IInv, OwnedOnce
    <3>3. \A m \in Nodes, i \in Nat : IsPart(m, i, k)' <=> IsPart(m, i, k)
      <4>1. \A i \in Nat : ~IsPart(n, i, k)
        BY <1>1 DEF IsPart
      <4>2. \A i \in 1..Len(xs) : xs[i] # k
        BY <2>3
      <4>3. k \in Nodes
        BY <3>1, LiveFacts
      <4> HIDE DEF X
      <4> QED BY <1>9, <4>1, <4>2, <4>3
    <3> QED BY <3>1, <3>2, <3>3 DEF Owned, Once, InTodo, InPart, Made
  <2> QED BY <2>1, <2>2, <2>3
<1>12. OwnedOnce'
  BY <1>11 DEF OwnedOnce
<1>13. RefersToLive'
  <2>1. \A m \in (Live \ lost)' : PartsOf(m)' \subseteq Live'
    BY <1>1, <1>3, <1>8, LiveFacts DEF Made
  <2> QED BY <1>2, <2>1 DEF RefersToLive
<1>14. Rooted'
  <2> SUFFICES ASSUME NEW m \in (Live \ lost)', NEW T \in SUBSET Nodes,
                      (held \cup Todo)' \subseteq T, \A k \in T : PartsOf(k)' \subseteq T
               PROVE  m \in T
    BY <1>1, LiveFacts DEF Rooted, Reach, Closure
  <2>1. n \in T /\ X \subseteq T
    BY <1>3, <1>8
  <2>2. PartsOf(n) = {}
    BY <1>1 DEF PartsOf
  <2>3. \A k \in T : PartsOf(k) \subseteq T
    BY <1>8, <2>1, <2>2
  <2>4. held \cup Todo \subseteq T /\ held \cup Todo \in SUBSET Nodes
    BY <1>2, <1>3, <2>1
  <2>5. Reach(held \cup Todo) \subseteq T
    BY <2>3, <2>4, ClosureLeast DEF Reach
  <2> QED BY <1>1, <2>1, <2>5 DEF IInv, Rooted, Made
<1> QED BY <1>5, <1>6, <1>7, <1>12, <1>13, <1>14 DEF IInv

\* A copy has a node of its own for each node the original owns, and owns it in the
\* corresponding place.
LEMMA CopyKeeps ==
    ASSUME IInv, NEW a \in Nodes, Copy(a)
    PROVE  IInv'
<1> DEFINE A == Tree(a)
<1>1. a \in held \ retained /\ a \in Live \ lost /\ A = {a} \cup Below(a)
  BY LiveFacts DEF Copy, Tree
<1>2. /\ A \subseteq Live \ (lost \cup retained) /\ a \notin Below(a)
      /\ Below(a) \cap held = {}
      /\ \A m \in A : PartsOf(m) \subseteq A \cup retained
  BY <1>1, BelowFacts
<1>3. todo = <<>> /\ Todo = {} /\ Todo' = {} /\ cleanup = Nothing
  BY IdleFacts DEF Copy, Todo
<1> HIDE DEF A
<1> DEFINE Copied(new, m) == IF m \in A THEN new[m] ELSE m
           Old(new, n) == CHOOSE m \in A : new[m] = n
           Made1(new) == {new[m] : m \in A}
<1>4. PICK new \in [A -> Nodes \ Live] :
          /\ \A m, k \in A : new[m] = new[k] => m = k
          /\ type' = [n \in Nodes |-> IF n \in Made1(new) THEN type[Old(new, n)] ELSE type[n]]
          /\ parts' = [n \in Nodes |->
                IF n \notin Made1(new) THEN parts[n]
                ELSE [i \in 1..Len(parts[Old(new, n)]) |->
                        Copied(new, parts[Old(new, n)][i])]]
          /\ held' = held \cup {new[a]}
  BY DEF Copy, A
<1> DEFINE M == {new[m] : m \in A}
<1>5. A \subseteq Nodes /\ M \subseteq Nodes \ Live /\ a \in A
  BY <1>1, <1>2, LiveFacts
<1>6. \A m \in A : Old(new, new[m]) = m
  BY <1>4
<1>7. /\ \A n \in Nodes \ M : type'[n] = type[n] /\ parts'[n] = parts[n]
      /\ \A m \in A : type'[new[m]] = type[m]
  BY <1>4, <1>5, <1>6
<1>8. ASSUME NEW m \in A
      PROVE  /\ Len(parts'[new[m]]) = Len(parts[m]) /\ parts'[new[m]] \in Seq(Nodes)
             /\ \A i \in 1..Len(parts[m]) :
                   parts'[new[m]][i] = IF parts[m][i] \in A THEN new[parts[m][i]]
                                       ELSE parts[m][i]
  <2> DEFINE s == [i \in 1..Len(parts[m]) |-> Copied(new, parts[m][i])]
  <2>1. parts[m] \in Seq(Nodes) /\ new[m] \in M /\ new[m] \in Nodes
    BY <1>5, LiveFacts
  <2>2. parts'[new[m]] = s
    BY <1>4, <1>6, <2>1
  <2>3. \A i \in 1..Len(parts[m]) : Copied(new, parts[m][i]) \in Nodes
    BY <1>5, <2>1
  <2>4. s \in Seq(Nodes) /\ Len(s) = Len(parts[m])
    BY <2>1, <2>3
  <2> QED BY <2>2, <2>4
<1> HIDE DEF M
<1>9. Live' = Live \cup M
  <2>1. \A m \in A : type'[new[m]] # "free" /\ new[m] \in M
    BY <1>2, <1>7 DEF Live, M
  <2>2. \A n \in M : \E m \in A : n = new[m]
    BY DEF M
  <2> QED BY <1>5, <1>7, <2>1, <2>2 DEF Live
<1>10. type' \in [Nodes -> {"free", "undefined", "defined"}] /\ parts' \in [Nodes -> Seq(Nodes)]
  <2>1. \A n \in M : \E m \in A : n = new[m]
    BY DEF M
  <2>2. ASSUME NEW n \in Nodes
        PROVE  type'[n] \in {"free", "undefined", "defined"} /\ parts'[n] \in Seq(Nodes)
    <3>1. CASE n \in M
      <4>1. PICK m \in A : n = new[m]
        BY <2>1, <3>1
      <4>2. type'[n] = type[m] /\ parts'[n] \in Seq(Nodes) /\ m \in Nodes
        BY <1>5, <1>7, <1>8, <4>1
      <4> QED BY <4>2, LiveFacts
    <3>2. CASE n \notin M
      BY <1>7, <3>2, LiveFacts
    <3> QED BY <3>1, <3>2
  <2>3. DOMAIN type' = Nodes /\ DOMAIN parts' = Nodes
        /\ type' = [n \in Nodes |-> type'[n]] /\ parts' = [n \in Nodes |-> parts'[n]]
    BY <1>4
  <2> QED BY <2>2, <2>3
<1>11. TypeOK'
  BY <1>3, <1>4, <1>5, <1>9, <1>10, LiveFacts DEF IInv, TypeOK, Copy, Nothing, M
<1>12. CleanupType' /\ CleanupSafe'
  BY <1>3, NoCleanup DEF Copy
<1>13. RetainedHeld' /\ FreeIsEmpty'
  <2>1. RetainedHeld'
    BY <1>4 DEF IInv, RetainedHeld, Copy
  <2>2. ASSUME NEW n \in Nodes, type'[n] = "free" PROVE parts'[n] = <<>>
    <3>1. n \notin M
      BY <1>5, <1>9, <2>2 DEF Live
    <3> QED BY <1>7, <2>2, <3>1 DEF IInv, FreeIsEmpty
  <2> QED BY <2>1, <2>2 DEF FreeIsEmpty
\* Where nodes are owned as parts afterwards: old nodes in old nodes, as before, and the
\* copies in the copies.
<1>14. ASSUME NEW k \in Nodes \ M, NEW i \in Nat, NEW n
       PROVE  IsPart(k, i, n)' <=> IsPart(k, i, n)
  BY <1>7, <1>9 DEF IsPart, Copy
<1>15. ASSUME NEW q \in A, NEW i \in Nat, NEW n
       PROVE  IsPart(new[q], i, n)'
                <=> /\ i \in 1..Len(parts[q])
                    /\ n = IF parts[q][i] \in A THEN new[parts[q][i]] ELSE parts[q][i]
  <2>1. new[q] \in M /\ new[q] \in Live' /\ new[q] \notin lost'
    BY <1>5, <1>9, LiveFacts DEF Copy, M
  <2> QED BY <1>8, <2>1 DEF IsPart
<1>16. ASSUME NEW n \in Live \ retained PROVE Owned(n)' /\ Once(n)'
  <2>1. Owned(n) /\ Once(n) /\ n \notin M /\ n \in Nodes
    BY <1>5, <1>16, LiveFacts DEF IInv, OwnedOnce
  <2>2. n \in held' <=> n \in held
    BY <1>4, <1>5, <2>1 DEF M
  <2>3. ASSUME NEW q \in A, NEW i \in Nat PROVE ~IsPart(new[q], i, n)'
    <3>1. SUFFICES ASSUME IsPart(new[q], i, n)' PROVE FALSE
      OBVIOUS
    <3>2. i \in 1..Len(parts[q]) /\ n = IF parts[q][i] \in A THEN new[parts[q][i]] ELSE parts[q][i]
      BY <1>15, <3>1
    <3>3. parts[q][i] \notin A /\ n = parts[q][i]
      BY <2>1, <3>2 DEF M
    <3>4. n \in PartsOf(q)
      BY <3>2, <3>3 DEF PartsOf
    <3> QED BY <1>2, <1>16, <3>3, <3>4
  <2>4. ASSUME NEW k \in Nodes, NEW i \in Nat PROVE IsPart(k, i, n)' <=> IsPart(k, i, n)
    <3>1. CASE k \in Nodes \ M
      BY <1>14, <3>1
    <3>2. CASE k \in M
      <4>1. PICK q \in A : k = new[q]
        BY <3>2 DEF M
      <4>2. ~IsPart(k, i, n)'
        BY <2>3, <4>1
      <4>3. ~IsPart(k, i, n)
        BY <1>5, <3>2 DEF IsPart
      <4> QED BY <4>2, <4>3
    <3> QED BY <3>1, <3>2
  <2> QED BY <2>1, <2>2, <2>4 DEF Owned, Once, InTodo, InPart, Copy
<1>17. ASSUME NEW m \in A PROVE Owned(new[m])' /\ Once(new[m])'
  <2>1. new[m] \in M /\ new[m] \in Nodes /\ new[m] \notin Live
    BY <1>5 DEF M
  <2>2. Owned(m) /\ Once(m) /\ m \notin lost
    BY <1>2 DEF IInv, OwnedOnce
  <2>3. new[m] \in held' <=> m = a
    BY <1>4, <1>5, <2>1, LiveFacts
  <2>4. new[m] \notin lost' /\ ~InTodo(new[m])'
    BY <1>3, <2>1, LiveFacts DEF Copy, InTodo
  <2>5. ASSUME NEW k \in Nodes \ M, NEW i \in Nat PROVE ~IsPart(k, i, new[m])'
    <3>1. SUFFICES ASSUME IsPart(k, i, new[m]) PROVE FALSE
      BY <1>14
    <3>2. new[m] \in PartsOf(k) /\ k \in Live \ lost
      BY <3>1 DEF IsPart, PartsOf
    <3> QED BY <2>1, <3>2, LiveFacts
  <2>6. ASSUME NEW q \in A, NEW i \in Nat
        PROVE  IsPart(new[q], i, new[m])' <=> IsPart(q, i, m)
    <3>1. IsPart(q, i, m) <=> i \in 1..Len(parts[q]) /\ parts[q][i] = m
      BY <1>2 DEF IsPart
    <3>2. ASSUME i \in 1..Len(parts[q]), parts[q][i] \notin A PROVE parts[q][i] # new[m]
      <4>1. parts[q][i] \in retained
        BY <1>2, <3>2 DEF PartsOf
      <4> QED BY <2>1, <4>1, LiveFacts
    <3>3. ASSUME i \in 1..Len(parts[q]), parts[q][i] \in A
          PROVE  new[parts[q][i]] = new[m] <=> parts[q][i] = m
      BY <1>4, <3>3
    <3> QED BY <1>15, <3>1, <3>2, <3>3
  <2>7. ASSUME NEW k \in Nodes, NEW i \in Nat, IsPart(k, i, new[m])'
        PROVE  \E q \in A : k = new[q] /\ IsPart(q, i, m)
    <3>1. k \in M
      BY <2>5, <2>7
    <3>2. PICK q \in A : k = new[q]
      BY <3>1 DEF M
    <3> QED BY <2>6, <2>7, <3>2
  <2>8. InPart(new[m])' => m # a
    <3>1. SUFFICES ASSUME NEW k \in Nodes, NEW i \in Nat, IsPart(k, i, new[m])' PROVE m # a
      BY DEF InPart
    <3>2. InPart(m)
      BY <1>5, <2>7, <3>1 DEF InPart
    <3> QED BY <1>1, <2>2, <3>2 DEF Once
  <2>9. m = a \/ InPart(new[m])'
    <3>1. SUFFICES ASSUME m # a PROVE InPart(new[m])'
      OBVIOUS
    <3>2. m \in Below(a)
      BY <1>1, <3>1 DEF A
    <3>3. PICK q \in {a} \cup Below(a), i \in Nat : IsPart(q, i, m)
      BY <1>1, <3>2, BelowFacts
    <3>4. q \in A
      BY <1>1, <3>3 DEF A
    <3>5. IsPart(new[q], i, new[m])' /\ new[q] \in Nodes
      BY <1>4, <2>6, <3>3, <3>4
    <3> QED BY <3>5 DEF InPart
  <2>10. ASSUME NEW k \in Nodes, NEW j \in Nodes, NEW i \in Nat, NEW l \in Nat,
                IsPart(k, i, new[m])', IsPart(j, l, new[m])'
         PROVE  k = j /\ i = l
    <3>1. PICK q \in A : k = new[q] /\ IsPart(q, i, m)
      BY <2>7, <2>10
    <3>2. PICK r \in A : j = new[r] /\ IsPart(r, l, m)
      BY <2>7, <2>10
    <3> QED BY <1>5, <2>2, <3>1, <3>2 DEF Once
  <2>11. Owned(new[m])'
    BY <2>3, <2>9 DEF Owned
  <2>12. Once(new[m])'
    BY <1>3, <2>3, <2>4, <2>8, <2>10 DEF Once, Copy
  <2> QED BY <2>11, <2>12
<1>18. OwnedOnce'
  <2> SUFFICES ASSUME NEW n \in (Live \ retained)' PROVE Owned(n)' /\ Once(n)'
    BY DEF OwnedOnce
  <2>1. CASE n \in Live
    BY <1>16, <2>1 DEF Copy
  <2>2. CASE n \in M
    BY <1>17, <2>2 DEF M
  <2> QED BY <1>9, <2>1, <2>2
<1>19. RefersToLive'
  <2> SUFFICES ASSUME NEW k \in (Live \ lost)', NEW n \in PartsOf(k)' PROVE n \in Live'
    BY <1>3 DEF RefersToLive
  <2>1. CASE k \in Live
    <3>1. k \in Live \ lost /\ k \in Nodes \ M
      BY <1>5, <2>1, LiveFacts DEF Copy
    <3>2. n \in PartsOf(k)
      BY <1>7, <3>1 DEF PartsOf
    <3> QED BY <1>9, <3>1, <3>2, LiveFacts
  <2>2. CASE k \in M
    <3>1. PICK q \in A : k = new[q]
      BY <2>2 DEF M
    <3>2. PICK i \in 1..Len(parts'[k]) : n = parts'[k][i]
      BY DEF PartsOf
    <3>3. i \in 1..Len(parts[q]) /\ n = IF parts[q][i] \in A THEN new[parts[q][i]] ELSE parts[q][i]
      BY <1>8, <3>1, <3>2
    <3>4. CASE parts[q][i] \in A
      BY <1>9, <3>3, <3>4 DEF M
    <3>5. CASE parts[q][i] \notin A
      <4>1. n \in retained
        BY <1>2, <3>3, <3>5 DEF PartsOf
      <4> QED BY <1>9, <4>1, LiveFacts
    <3> QED BY <3>4, <3>5
  <2> QED BY <1>9, <2>1, <2>2
<1>20. Rooted'
  <2> SUFFICES ASSUME NEW n \in (Live \ lost)', NEW T \in SUBSET Nodes,
                      (held \cup Todo)' \subseteq T, \A k \in T : PartsOf(k)' \subseteq T
               PROVE  n \in T
    BY <1>9, <1>5, LiveFacts DEF Rooted, Reach, Closure
  <2>1. ASSUME NEW k \in T PROVE PartsOf(k) \subseteq T
    <3>1. CASE k \in M
      <4>1. parts[k] = <<>>
        BY <1>5, <3>1 DEF IInv, FreeIsEmpty, Live
      <4> QED BY <4>1 DEF PartsOf
    <3>2. CASE k \notin M
      BY <1>7, <3>2 DEF PartsOf
    <3> QED BY <3>1, <3>2
  <2>2. held \cup Todo \subseteq T /\ held \cup Todo \in SUBSET Nodes /\ new[a] \in T
    BY <1>3, <1>4
  <2>3. Reach(held \cup Todo) \subseteq T
    BY <2>1, <2>2, ClosureLeast DEF Reach
  <2>4. CASE n \in Live
    BY <2>3, <2>4 DEF IInv, Rooted, Copy
  <2>5. CASE n \in M
    <3> DEFINE U == {m \in A : new[m] \in T} \cup retained
    <3>1. U \in SUBSET Nodes
      BY <1>5, LiveFacts
    <3>2. ASSUME NEW m \in A, new[m] \in T PROVE PartsOf(m) \subseteq U
      <4> SUFFICES ASSUME NEW i \in 1..Len(parts[m]), parts[m][i] \notin retained
                   PROVE  parts[m][i] \in A /\ new[parts[m][i]] \in T
        BY DEF PartsOf
      <4>1. parts[m][i] \in A
        BY <1>2 DEF PartsOf
      <4>2. i \in 1..Len(parts'[new[m]]) /\ parts'[new[m]][i] = new[parts[m][i]]
        BY <1>8, <4>1
      <4>3. new[parts[m][i]] \in PartsOf(new[m])'
        BY <4>2 DEF PartsOf
      <4> QED BY <3>2, <4>1, <4>3
    <3>3. PartsOf(a) \subseteq U /\ PartsOf(a) \in SUBSET Nodes
      BY <1>5, <2>2, <3>1, <3>2
    <3>4. \A m \in U \ retained : PartsOf(m) \subseteq U
      BY <3>2
    <3> HIDE DEF U
    <3>5. Closure(PartsOf(a), retained) \subseteq U
      BY <3>1, <3>3, <3>4, ClosureLeast
    <3>6. Below(a) \subseteq {m \in A : new[m] \in T}
      BY <3>5 DEF Below, U
    <3>7. A \subseteq {m \in A : new[m] \in T}
      BY <1>1, <1>5, <2>2, <3>6 DEF A
    <3> QED BY <2>5, <3>7 DEF M
  <2> QED BY <1>9, <2>4, <2>5
<1> QED BY <1>11, <1>12, <1>13, <1>18, <1>19, <1>20 DEF IInv

\* mpc_define takes the definition out of a's node, and gives up what p had.
LEMMA DefineKeeps ==
    ASSUME IInv, NEW p \in Nodes, NEW a \in Nodes, Define(p, a)
    PROVE  IInv'
<1>1. /\ p \in held \cap retained /\ a \in held \ retained /\ p # a
      /\ p \in Live \ lost /\ a \in Live \ lost
  BY LiveFacts DEF Define
<1>2. todo = <<>> /\ Todo = {} /\ Todo' = {} /\ cleanup = Nothing
  BY IdleFacts DEF Define, Todo
<1>3. /\ PartsOf(p) \subseteq Below(p) \cup retained
      /\ \A m \in Below(p) : PartsOf(m) \subseteq Below(p) \cup retained
      /\ Below(p) \subseteq Live \ (lost \cup retained \cup held \cup Todo)
      /\ \A n \in Below(p) : \E m \in {p} \cup Below(p) : \E i \in Nat : IsPart(m, i, n)
  BY <1>1, BelowFacts
<1>4. Once(a)
  BY <1>1 DEF IInv, OwnedOnce
<1>5. \A k \in Nodes, i \in Nat : ~IsPart(k, i, a)
  BY <1>1, <1>4 DEF Once, InPart
<1>6. /\ type' = [type EXCEPT ![p] = type[a], ![a] = "free"]
      /\ parts' = [parts EXCEPT ![p] = parts[a], ![a] = <<>>]
      /\ held' = held \ {a} /\ lost' = lost \cup Below(p) /\ retained' = retained
      /\ UNCHANGED <<todo, cleanup>>
  BY DEF Define
<1>7. Live' = Live \ {a}
  BY <1>1, <1>6, LiveFacts DEF Live
<1>8. a \notin Below(p)
  BY <1>1, <1>3
<1>9. type' \in [Nodes -> {"free", "undefined", "defined"}] /\ parts' \in [Nodes -> Seq(Nodes)]
  <2>1. /\ type[a] \in {"free", "undefined", "defined"} /\ parts[a] \in Seq(Nodes)
        /\ parts \in [Nodes -> Seq(Nodes)] /\ <<>> \in Seq(Nodes)
    BY LiveFacts
  <2>2. type' \in [Nodes -> {"free", "undefined", "defined"}]
    BY <1>6, <2>1, LiveFacts
  <2>3. parts' \in [Nodes -> Seq(Nodes)]
    BY <1>6, <2>1
  <2> QED BY <2>2, <2>3
<1>10. TypeOK'
  BY <1>1, <1>2, <1>3, <1>6, <1>7, <1>8, <1>9, LiveFacts DEF IInv, TypeOK, Nothing
<1>11. CleanupType' /\ CleanupSafe'
  BY <1>2, <1>6, NoCleanup
<1>12. RetainedHeld' /\ FreeIsEmpty'
  <2>1. RetainedHeld'
    BY <1>1, <1>3, <1>6 DEF IInv, RetainedHeld
  <2>2. FreeIsEmpty'
    BY <1>1, <1>6, LiveFacts DEF IInv, FreeIsEmpty, Live
  <2> QED BY <2>1, <2>2
<1>13. /\ \A m \in Nodes \ {p, a} : parts'[m] = parts[m]
       /\ parts'[p] = parts[a] /\ parts'[a] = <<>>
  BY <1>1, <1>6, LiveFacts
<1>14. /\ \A m \in Nodes \ {p, a} : PartsOf(m)' = PartsOf(m)
       /\ PartsOf(p)' = PartsOf(a) /\ PartsOf(a)' = {}
  BY <1>13 DEF PartsOf
<1>15. ASSUME NEW m \in Nodes, NEW i \in Nat, NEW n
       PROVE  IsPart(m, i, n)' <=> \/ m = p /\ IsPart(a, i, n)
                                   \/ m \notin {p, a} \cup Below(p) /\ IsPart(m, i, n)
  <2>1. CASE m = p
    BY <1>1, <1>3, <1>6, <1>7, <1>13, <2>1 DEF IsPart
  <2>2. CASE m = a
    BY <1>1, <1>7, <2>2 DEF IsPart
  <2>3. CASE m \notin {p, a}
    BY <1>6, <1>7, <1>13, <2>3 DEF IsPart
  <2> QED BY <2>1, <2>2, <2>3
<1>16. ASSUME NEW n \in (Live \ retained)' PROVE Owned(n)' /\ Once(n)'
  <2>1. n \in Live \ retained /\ n # a /\ n \in Nodes
    BY <1>6, <1>7, LiveFacts
  <2>2. Owned(n) /\ Once(n)
    BY <2>1 DEF IInv, OwnedOnce
  <2>3. n \in held' <=> n \in held
    BY <1>6, <2>1
  <2>4. ~InTodo(n) /\ ~InTodo(n)'
    BY <1>2, <1>6 DEF InTodo
  <2>5. CASE n \in Below(p)
    <3>1. PICK m \in {p} \cup Below(p), i \in Nat : IsPart(m, i, n)
      BY <1>3, <2>5
    <3>2. \A k \in Nodes, j \in Nat : IsPart(k, j, n) => k = m
      BY <1>3, <2>2, <3>1, LiveFacts DEF Once
    <3>3. \A k \in Nodes, j \in Nat : ~IsPart(k, j, n)'
      BY <1>1, <1>8, <1>15, <3>1, <3>2
    <3>4. n \notin held' /\ n \in lost'
      BY <1>3, <1>6, <2>5
    <3> QED BY <1>2, <1>6, <2>4, <3>3, <3>4 DEF Owned, Once, InPart
  <2>6. CASE n \notin Below(p)
    <3>1. n \in lost' <=> n \in lost
      BY <1>6, <2>6
    <3>2. ASSUME NEW m \in {p} \cup Below(p), NEW i \in Nat PROVE ~IsPart(m, i, n)
      <4>1. n \notin PartsOf(m)
        BY <1>3, <2>1, <2>6
      <4> QED BY <4>1 DEF IsPart, PartsOf
    <3>3. ASSUME NEW m \in Nodes, NEW i \in Nat
          PROVE  IsPart(m, i, n)' <=> \/ m = p /\ IsPart(a, i, n)
                                      \/ m \notin {p, a} /\ IsPart(m, i, n)
      BY <1>15, <3>2
    <3>4. InPart(n)' <=> InPart(n)
      <4>1. InPart(n)' => InPart(n)
        BY <3>3 DEF InPart
      <4>2. ASSUME NEW m \in Nodes, NEW i \in Nat, IsPart(m, i, n) PROVE InPart(n)'
        <5>1. CASE m = a
          BY <3>3, <4>2, <5>1 DEF InPart
        <5>2. CASE m # a
          <6>1. IsPart(m, i, n)'
            BY <3>2, <3>3, <4>2, <5>2
          <6> QED BY <6>1 DEF InPart
        <5> QED BY <5>1, <5>2
      <4> QED BY <4>1, <4>2 DEF InPart
    <3>5. ASSUME NEW m \in Nodes, NEW k \in Nodes, NEW i \in Nat, NEW j \in Nat,
                 IsPart(m, i, n)', IsPart(k, j, n)'
          PROVE  m = k /\ i = j
      <4>1. \/ m = p /\ IsPart(a, i, n)
            \/ m \notin {p, a} /\ IsPart(m, i, n)
        BY <3>3, <3>5
      <4>2. \/ k = p /\ IsPart(a, j, n)
            \/ k \notin {p, a} /\ IsPart(k, j, n)
        BY <3>3, <3>5
      <4> QED BY <2>2, <4>1, <4>2 DEF Once
    <3> QED BY <1>2, <1>6, <2>2, <2>3, <2>4, <3>1, <3>4, <3>5 DEF Owned, Once
  <2> QED BY <2>5, <2>6
<1>17. OwnedOnce'
  BY <1>16 DEF OwnedOnce
<1>18. RefersToLive'
  <2> SUFFICES ASSUME NEW m \in (Live \ lost)', NEW n \in PartsOf(m)' PROVE n \in Live'
    BY <1>2 DEF RefersToLive
  <2>1. PICK k \in Live \ lost : n \in PartsOf(k)
    BY <1>1, <1>6, <1>7, <1>14, LiveFacts
  <2>2. n \in Live
    BY <2>1, LiveFacts
  <2>3. n # a
    <3>1. PICK i \in 1..Len(parts[k]) : parts[k][i] = n
      BY <2>1 DEF PartsOf
    <3>2. k \in Nodes /\ i \in Nat /\ IsPart(k, i, n)
      BY <2>1, <3>1, LiveFacts DEF IsPart
    <3> QED BY <1>5, <3>2
  <2> QED BY <1>7, <2>2, <2>3
<1>19. Rooted'
  <2> SUFFICES ASSUME NEW n \in (Live \ lost)', NEW T \in SUBSET Nodes,
                      (held \cup Todo)' \subseteq T, \A k \in T : PartsOf(k)' \subseteq T
               PROVE  n \in T
    BY <1>7, LiveFacts DEF Rooted, Reach, Closure
  <2> DEFINE U == T \cup {a} \cup Below(p)
  <2>1. U \in SUBSET Nodes /\ held \cup Todo \subseteq U /\ held \cup Todo \in SUBSET Nodes
    BY <1>2, <1>3, <1>6, LiveFacts
  <2>2. retained \subseteq U /\ p \in T
    BY <1>1, <1>6, <2>1, LiveFacts
  <2>3. \A k \in U : PartsOf(k) \subseteq U
    BY <1>3, <1>14, <2>2
  <2>4. Reach(held \cup Todo) \subseteq U
    <3> HIDE DEF U
    <3> QED BY <2>1, <2>3, ClosureLeast DEF Reach
  <2>5. n \in Live \ lost /\ n # a /\ n \notin Below(p)
    BY <1>6, <1>7
  <2> QED BY <2>4, <2>5 DEF IInv, Rooted
<1> QED BY <1>10, <1>11, <1>12, <1>17, <1>18, <1>19 DEF IInv

LEMMA DefineUnretainedKeeps ==
    ASSUME IInv, NEW p \in Nodes, NEW a \in Nodes, DefineUnretained(p, a)
    PROVE  IInv'
<1> DEFINE B == Below(p) \cup Below(a)
<1>1. /\ p \in held \ retained /\ a \in held \ retained /\ p # a
      /\ p \in Live \ lost /\ a \in Live \ lost
  BY LiveFacts DEF DefineUnretained
<1>2. todo = <<>> /\ Todo = {} /\ Todo' = {} /\ cleanup = Nothing
  BY IdleFacts DEF DefineUnretained, Todo
<1>3. /\ PartsOf(p) \cup PartsOf(a) \subseteq B \cup retained
      /\ \A m \in B : PartsOf(m) \subseteq B \cup retained
      /\ B \subseteq Live \ (lost \cup retained \cup held \cup Todo)
      /\ \A n \in B : \E m \in {p, a} \cup B : \E i \in Nat : IsPart(m, i, n)
  BY <1>1, BelowFacts
<1>4. /\ type' = [type EXCEPT ![p] = "defined", ![a] = "free"]
      /\ parts' = [parts EXCEPT ![p] = <<>>, ![a] = <<>>]
      /\ held' = held \ {a} /\ lost' = lost \cup B /\ retained' = retained
      /\ UNCHANGED <<todo, cleanup>>
  BY DEF DefineUnretained
<1> HIDE DEF B
<1>5. Once(a)
  BY <1>1 DEF IInv, OwnedOnce
<1>6. \A k \in Nodes, i \in Nat : ~IsPart(k, i, a)
  BY <1>1, <1>5 DEF Once, InPart
<1>7. Live' = Live \ {a}
  BY <1>1, <1>4, LiveFacts DEF Live
<1>8. p \notin B /\ a \notin B
  BY <1>1, <1>3
<1>9. type' \in [Nodes -> {"free", "undefined", "defined"}] /\ parts' \in [Nodes -> Seq(Nodes)]
  <2>1. <<>> \in Seq(Nodes) /\ parts \in [Nodes -> Seq(Nodes)]
    BY LiveFacts
  <2>2. type' \in [Nodes -> {"free", "undefined", "defined"}]
    BY <1>4, LiveFacts
  <2>3. parts' \in [Nodes -> Seq(Nodes)]
    BY <1>4, <2>1
  <2> QED BY <2>2, <2>3
<1>10. TypeOK'
  BY <1>1, <1>2, <1>3, <1>4, <1>7, <1>8, <1>9, LiveFacts DEF IInv, TypeOK, Nothing
<1>11. CleanupType' /\ CleanupSafe'
  BY <1>2, <1>4, NoCleanup
<1>12. RetainedHeld' /\ FreeIsEmpty'
  <2>1. RetainedHeld'
    BY <1>1, <1>3, <1>4 DEF IInv, RetainedHeld
  <2>2. FreeIsEmpty'
    BY <1>1, <1>4, LiveFacts DEF IInv, FreeIsEmpty, Live
  <2> QED BY <2>1, <2>2
<1>13. /\ \A m \in Nodes \ {p, a} : parts'[m] = parts[m]
       /\ parts'[p] = <<>> /\ parts'[a] = <<>>
  BY <1>1, <1>4, LiveFacts
<1>14. /\ \A m \in Nodes \ {p, a} : PartsOf(m)' = PartsOf(m)
       /\ PartsOf(p)' = {} /\ PartsOf(a)' = {}
  BY <1>13 DEF PartsOf
<1>15. ASSUME NEW m \in Nodes, NEW i \in Nat, NEW n
       PROVE  IsPart(m, i, n)' <=> m \notin {p, a} \cup B /\ IsPart(m, i, n)
  <2>1. CASE m \in {p, a}
    BY <1>13, <2>1 DEF IsPart
  <2>2. CASE m \notin {p, a}
    BY <1>4, <1>7, <1>13, <2>2 DEF IsPart
  <2> QED BY <2>1, <2>2
<1>16. ASSUME NEW n \in (Live \ retained)' PROVE Owned(n)' /\ Once(n)'
  <2>1. n \in Live \ retained /\ n # a /\ n \in Nodes
    BY <1>4, <1>7, LiveFacts
  <2>2. Owned(n) /\ Once(n)
    BY <2>1 DEF IInv, OwnedOnce
  <2>3. n \in held' <=> n \in held
    BY <1>4, <2>1
  <2>4. ~InTodo(n) /\ ~InTodo(n)'
    BY <1>2, <1>4 DEF InTodo
  <2>5. CASE n \in B
    <3>1. PICK m \in {p, a} \cup B, i \in Nat : IsPart(m, i, n)
      BY <1>3, <2>5
    <3>2. \A k \in Nodes, j \in Nat : IsPart(k, j, n) => k = m
      BY <1>3, <2>2, <3>1, LiveFacts DEF Once
    <3>3. \A k \in Nodes, j \in Nat : ~IsPart(k, j, n)'
      BY <1>15, <3>1, <3>2
    <3>4. n \notin held' /\ n \in lost'
      BY <1>3, <1>4, <2>5
    <3> QED BY <1>2, <1>4, <2>4, <3>3, <3>4 DEF Owned, Once, InPart
  <2>6. CASE n \notin B
    <3>1. n \in lost' <=> n \in lost
      BY <1>4, <2>6
    <3>2. ASSUME NEW m \in {p, a} \cup B, NEW i \in Nat PROVE ~IsPart(m, i, n)
      <4>1. n \notin PartsOf(m)
        BY <1>3, <2>1, <2>6
      <4> QED BY <4>1 DEF IsPart, PartsOf
    <3>3. \A m \in Nodes, i \in Nat : IsPart(m, i, n)' <=> IsPart(m, i, n)
      BY <1>15, <3>2
    <3> QED BY <1>2, <1>4, <2>2, <2>3, <2>4, <3>1, <3>3 DEF Owned, Once, InPart
  <2> QED BY <2>5, <2>6
<1>17. OwnedOnce'
  BY <1>16 DEF OwnedOnce
<1>18. RefersToLive'
  <2> SUFFICES ASSUME NEW m \in (Live \ lost)', NEW n \in PartsOf(m)' PROVE n \in Live'
    BY <1>2 DEF RefersToLive
  <2>1. m \in Live \ lost /\ n \in PartsOf(m)
    BY <1>4, <1>7, <1>14, LiveFacts
  <2>2. n \in Live
    BY <2>1, LiveFacts
  <2>3. PICK i \in 1..Len(parts[m]) : parts[m][i] = n
    BY <2>1 DEF PartsOf
  <2>4. m \in Nodes /\ i \in Nat /\ IsPart(m, i, n)
    BY <2>1, <2>3, LiveFacts DEF IsPart
  <2> QED BY <1>6, <1>7, <2>2, <2>4
<1>19. Rooted'
  <2> SUFFICES ASSUME NEW n \in (Live \ lost)', NEW T \in SUBSET Nodes,
                      (held \cup Todo)' \subseteq T, \A k \in T : PartsOf(k)' \subseteq T
               PROVE  n \in T
    BY <1>7, LiveFacts DEF Rooted, Reach, Closure
  <2> DEFINE U == T \cup {a} \cup B
  <2>1. U \in SUBSET Nodes /\ held \cup Todo \subseteq U /\ held \cup Todo \in SUBSET Nodes
    BY <1>2, <1>3, <1>4, LiveFacts
  <2>2. retained \subseteq U
    BY <2>1, LiveFacts
  <2>3. \A k \in U : PartsOf(k) \subseteq U
    BY <1>3, <1>14, <2>2
  <2>4. Reach(held \cup Todo) \subseteq U
    <3> HIDE DEF U
    <3> QED BY <2>1, <2>3, ClosureLeast DEF Reach
  <2>5. n \in Live \ lost /\ n # a /\ n \notin B
    BY <1>4, <1>7
  <2> QED BY <2>4, <2>5 DEF IInv, Rooted
<1> QED BY <1>10, <1>11, <1>12, <1>17, <1>18, <1>19 DEF IInv

----------------------------------------------------------------------------
(* Steps that only take parts away *)

\* They keep what a cleanup in progress relies on.
LEMMA CleanupStays ==
    ASSUME IInv, cleanup' \in [undefine : SUBSET Nodes, delete : SUBSET Nodes],
           held' \ cleanup'.delete \subseteq held \ cleanup.delete,
           cleanup'.delete \subseteq cleanup.delete,
           \A m \in Nodes : PartsOf(m)' \subseteq PartsOf(m),
           \A m \in cleanup'.delete \ cleanup'.undefine : parts'[m] = <<>>
    PROVE  CleanupType' /\ CleanupSafe'
<1> DEFINE R == Reach(held \ cleanup.delete)
<1>1. held \ cleanup.delete \in SUBSET Nodes
  BY LiveFacts
<1>2. /\ R \in SUBSET Nodes /\ held \ cleanup.delete \subseteq R
      /\ \A m \in R : PartsOf(m) \subseteq R
  BY <1>1, LiveFacts, ClosureHolds DEF Reach
<1>3. R \cap cleanup.delete = {}
  BY DEF IInv, CleanupSafe
<1> HIDE DEF R
<1>4. Reach(held \ cleanup.delete)' \subseteq R
  <2>1. (held \ cleanup.delete)' \subseteq R /\ \A m \in R : PartsOf(m)' \subseteq R
    BY <1>2
  <2> QED BY <1>2, <2>1 DEF Reach, Closure
<1> QED BY <1>3, <1>4 DEF CleanupType, CleanupSafe

\* A sequence put before what is left of another one.
LEMMA PutBefore ==
    ASSUME NEW s \in Seq(Nodes), NEW t \in Seq(Nodes), t # <<>>
    PROVE  /\ s \o Tail(t) \in Seq(Nodes)
           /\ Len(s) \in Nat /\ Len(t) \in Nat \ {0}
           /\ Len(s \o Tail(t)) = Len(s) + Len(t) - 1
           /\ \A i \in 1..Len(s) : (s \o Tail(t))[i] = s[i]
           /\ \A i \in 2..Len(t) : (s \o Tail(t))[Len(s) + i - 1] = t[i]
           /\ \A i \in 1..Len(s \o Tail(t)) :
                 \/ i \in 1..Len(s)
                 \/ i + 1 - Len(s) \in 2..Len(t) /\ (s \o Tail(t))[i] = t[i + 1 - Len(s)]
<1>1. Tail(t) \in Seq(Nodes) /\ Len(Tail(t)) = Len(t) - 1 /\ Len(t) \in Nat \ {0} /\ Len(s) \in Nat
  OBVIOUS
<1>2. \A i \in 1..(Len(t) - 1) : Tail(t)[i] = t[i + 1]
  OBVIOUS
<1>3. s \o Tail(t) \in Seq(Nodes) /\ Len(s \o Tail(t)) = Len(s) + Len(t) - 1
  BY <1>1
<1>4. \A i \in 1..(Len(s) + Len(t) - 1) :
        (s \o Tail(t))[i] = IF i <= Len(s) THEN s[i] ELSE Tail(t)[i - Len(s)]
  BY <1>1
<1>5. ASSUME NEW i \in 2..Len(t) PROVE (s \o Tail(t))[Len(s) + i - 1] = t[i]
  <2>1. /\ Len(s) + i - 1 \in 1..(Len(s) + Len(t) - 1) /\ ~(Len(s) + i - 1 <= Len(s))
        /\ Len(s) + i - 1 - Len(s) = i - 1 /\ i - 1 \in 1..(Len(t) - 1) /\ i - 1 + 1 = i
    BY <1>1
  <2> QED BY <1>2, <1>4, <2>1
<1>6. ASSUME NEW i \in 1..(Len(s) + Len(t) - 1), i \notin 1..Len(s)
      PROVE  i + 1 - Len(s) \in 2..Len(t) /\ (s \o Tail(t))[i] = t[i + 1 - Len(s)]
  <2>1. /\ ~(i <= Len(s)) /\ i - Len(s) \in 1..(Len(t) - 1)
        /\ i - Len(s) + 1 = i + 1 - Len(s) /\ i + 1 - Len(s) \in 2..Len(t)
    BY <1>1, <1>6
  <2> QED BY <1>2, <1>4, <2>1
<1>7. \A i \in 1..Len(s) : (s \o Tail(t))[i] = s[i]
  BY <1>1, <1>4
<1> QED BY <1>1, <1>3, <1>5, <1>6, <1>7

\* The head of the walk: it is not retained, and its parts take its place.
LEMMA VisitFrees ==
    ASSUME IInv, todo # <<>>, Head(todo) \notin retained, Visit
    PROVE  IInv'
<1>head. todo \in Seq(Nodes) /\ Len(todo) \in Nat \ {0} /\ todo[1] \in Nodes /\ Head(todo) = todo[1]
  BY LiveFacts
<1>node. PICK n \in Nodes : n = todo[1]
  BY <1>head
<1>1. /\ type' = [type EXCEPT ![n] = "free"] /\ parts' = [parts EXCEPT ![n] = <<>>]
      /\ todo' = parts[n] \o Tail(todo)
      /\ UNCHANGED <<retained, held, cleanup, lost>>
  BY <1>head, <1>node DEF Visit
<1>2. todo \in Seq(Nodes) /\ Len(todo) \in Nat \ {0} /\ n = todo[1] /\ n \notin retained
  BY <1>head, <1>node
<1>3. n \in Live \ lost /\ n \notin held /\ n \notin retained /\ InTodo(n)
  <2>1. n \in Todo /\ InTodo(n) /\ n \in Live \ lost /\ n \notin retained
    BY <1>2, LiveFacts DEF Todo, InTodo
  <2>2. Once(n)
    BY <2>1 DEF IInv, OwnedOnce
  <2> QED BY <2>1, <2>2 DEF Once
<1>4. /\ \A k \in Nodes, i \in Nat : ~IsPart(k, i, n)
      /\ \A i \in 2..Len(todo) : todo[i] # n
  <2>1. Once(n)
    BY <1>3 DEF IInv, OwnedOnce
  <2> QED BY <1>2, <1>3, <2>1 DEF Once, InPart
<1>5. Live' = Live \ {n}
  BY <1>1, <1>3, LiveFacts DEF Live
<1>6. type' \in [Nodes -> {"free", "undefined", "defined"}] /\ parts' \in [Nodes -> Seq(Nodes)]
  <2>1. <<>> \in Seq(Nodes) /\ parts \in [Nodes -> Seq(Nodes)]
    BY LiveFacts
  <2>2. type' \in [Nodes -> {"free", "undefined", "defined"}]
    BY <1>1, LiveFacts
  <2>3. parts' \in [Nodes -> Seq(Nodes)]
    BY <1>1, <2>1
  <2> QED BY <2>2, <2>3
<1>7. parts'[n] = <<>> /\ \A m \in Nodes \ {n} : parts'[m] = parts[m]
  BY <1>1, <1>2, LiveFacts
<1>8. PartsOf(n)' = {} /\ \A m \in Nodes \ {n} : PartsOf(m)' = PartsOf(m)
  <2>1. PartsOf(n)' = {}
    BY <1>7 DEF PartsOf
  <2>2. ASSUME NEW m \in Nodes \ {n} PROVE PartsOf(m)' = PartsOf(m)
    BY <1>7 DEF PartsOf
  <2> QED BY <2>1, <2>2
<1>9. parts[n] \in Seq(Nodes)
  BY <1>2, LiveFacts
\* The walk afterwards: the parts of n, then what was left.
<1> DEFINE L == Len(parts[n])
<1>10. /\ todo' \in Seq(Nodes) /\ L \in Nat
       /\ Len(todo') = L + Len(todo) - 1
       /\ \A i \in 1..L : todo'[i] = parts[n][i]
       /\ \A i \in 2..Len(todo) : todo'[L + i - 1] = todo[i]
       /\ \A i \in 1..Len(todo') :
             \/ i \in 1..L
             \/ i + 1 - L \in 2..Len(todo) /\ todo'[i] = todo[i + 1 - L]
  <2> DEFINE s == parts[n]
  <2>1. s \in Seq(Nodes) /\ todo \in Seq(Nodes) /\ todo # <<>> /\ todo' = s \o Tail(todo)
    BY <1>1, <1>2, <1>9
  <2> HIDE DEF s
  <2>2. /\ s \o Tail(todo) \in Seq(Nodes) /\ Len(s) \in Nat
        /\ Len(s \o Tail(todo)) = Len(s) + Len(todo) - 1
        /\ \A i \in 1..Len(s) : (s \o Tail(todo))[i] = s[i]
        /\ \A i \in 2..Len(todo) : (s \o Tail(todo))[Len(s) + i - 1] = todo[i]
        /\ \A i \in 1..Len(s \o Tail(todo)) :
              \/ i \in 1..Len(s)
              \/ /\ i + 1 - Len(s) \in 2..Len(todo)
                 /\ (s \o Tail(todo))[i] = todo[i + 1 - Len(s)]
    BY <2>1, PutBefore
  <2> QED BY <2>1, <2>2 DEF s
<1>11. TypeOK'
  BY <1>1, <1>3, <1>5, <1>6, <1>10, LiveFacts DEF IInv, TypeOK
<1>12. CleanupType' /\ CleanupSafe'
  <2>1. ASSUME NEW m \in Nodes PROVE PartsOf(m)' \subseteq PartsOf(m)
    <3>1. CASE m = n
      BY <1>8, <3>1
    <3>2. CASE m # n
      BY <1>8, <3>2
    <3> QED BY <3>1, <3>2
  <2>2. \A m \in cleanup'.delete \ cleanup'.undefine : parts'[m] = <<>>
    BY <1>1, <1>2, <1>7 DEF IInv, CleanupSafe, CleanupType
  <2> QED BY <1>1, <2>1, <2>2, CleanupStays DEF IInv, CleanupType
<1>13. RetainedHeld' /\ FreeIsEmpty'
  <2>1. RetainedHeld'
    BY <1>1 DEF IInv, RetainedHeld
  <2>2. FreeIsEmpty'
    BY <1>1, <1>7, LiveFacts DEF IInv, FreeIsEmpty
  <2> QED BY <2>1, <2>2
<1>14. ASSUME NEW m \in Nodes, NEW i \in Nat, NEW k
       PROVE  IsPart(m, i, k)' <=> m # n /\ IsPart(m, i, k)
  <2>1. CASE m = n
    BY <1>5, <2>1 DEF IsPart
  <2>2. CASE m # n
    BY <1>1, <1>5, <1>7, <2>2 DEF IsPart
  <2> QED BY <2>1, <2>2
<1>15. ASSUME NEW i \in Nat, NEW k PROVE IsPart(n, i, k) <=> i \in 1..L /\ parts[n][i] = k
  BY <1>3 DEF IsPart
<1> HIDE DEF L
<1>16. ASSUME NEW k \in (Live \ retained)' PROVE Owned(k)' /\ Once(k)'
  <2>1. k \in Live \ retained /\ k # n /\ k \in Nodes
    BY <1>1, <1>5, LiveFacts
  <2>2. Owned(k) /\ Once(k)
    BY <2>1 DEF IInv, OwnedOnce
  <2>3. (k \in held' <=> k \in held) /\ (k \in lost' <=> k \in lost)
    BY <1>1
  <2>4. InTodo(k)' <=> InTodo(k) \/ \E i \in Nat : IsPart(n, i, k)
    <3>1. ASSUME InTodo(k)' PROVE InTodo(k) \/ \E i \in Nat : IsPart(n, i, k)
      <4>1. PICK i \in 1..Len(todo') : todo'[i] = k
        BY <3>1 DEF InTodo
      <4>2. CASE i \in 1..L
        <5>1. i \in Nat /\ IsPart(n, i, k)
          BY <1>10, <1>15, <4>1, <4>2
        <5> QED BY <5>1
      <4>3. CASE i + 1 - L \in 2..Len(todo) /\ todo'[i] = todo[i + 1 - L]
        <5>1. i + 1 - L \in 1..Len(todo)
          BY <1>2, <4>3
        <5> QED BY <4>1, <4>3, <5>1 DEF InTodo
      <4> QED BY <1>10, <4>2, <4>3
    <3>2. ASSUME InTodo(k) PROVE InTodo(k)'
      <4>1. PICK i \in 1..Len(todo) : todo[i] = k
        BY <3>2 DEF InTodo
      <4>2. i \in 2..Len(todo)
        BY <1>2, <2>1, <4>1
      <4>3. L + i - 1 \in 1..Len(todo') /\ todo'[L + i - 1] = k
        BY <1>2, <1>10, <4>1, <4>2
      <4> QED BY <4>3 DEF InTodo
    <3>3. ASSUME NEW i \in Nat, IsPart(n, i, k) PROVE InTodo(k)'
      <4>1. i \in 1..L /\ parts[n][i] = k
        BY <1>15, <3>3
      <4>2. i \in 1..Len(todo') /\ todo'[i] = k
        BY <1>2, <1>10, <4>1
      <4> QED BY <4>2 DEF InTodo
    <3> QED BY <3>1, <3>2, <3>3
  <2>5. InPart(k)' => InPart(k)
    BY <1>14 DEF InPart
  <2>6. InPart(k) => InPart(k)' \/ \E i \in Nat : IsPart(n, i, k)
    BY <1>14 DEF InPart
  <2>7. (\E i \in Nat : IsPart(n, i, k)) => InPart(k) /\ ~InPart(k)'
    BY <1>2, <1>14, <2>2 DEF InPart, Once
  <2>8. ASSUME NEW i \in 1..Len(todo'), NEW j \in 1..Len(todo'), todo'[i] = k, todo'[j] = k
        PROVE  i = j
    <3>1. CASE i \in 1..L /\ j \in 1..L
      <4>1. i \in Nat /\ j \in Nat /\ IsPart(n, i, k) /\ IsPart(n, j, k)
        <5>1. i \in Nat /\ j \in Nat /\ parts[n][i] = k /\ parts[n][j] = k
          BY <1>10, <2>8, <3>1
        <5> QED BY <1>15, <3>1, <5>1
      <4> QED BY <1>2, <2>2, <4>1 DEF Once
    <3>2. CASE i \notin 1..L /\ j \notin 1..L
      <4>1. /\ i + 1 - L \in 1..Len(todo) /\ todo[i + 1 - L] = k
            /\ j + 1 - L \in 1..Len(todo) /\ todo[j + 1 - L] = k
        BY <1>2, <1>10, <2>8, <3>2, SMTT(20), ZenonT(40)
      <4>2. i + 1 - L = j + 1 - L
        BY <2>2, <4>1 DEF Once
      <4> QED BY <1>10, <4>2
    <3>3. ASSUME NEW x \in 1..Len(todo'), NEW y \in 1..Len(todo'), todo'[x] = k, todo'[y] = k,
                 x \in 1..L, y \notin 1..L
          PROVE  FALSE
      <4>1. x \in Nat /\ IsPart(n, x, k)
        <5>1. x \in Nat /\ parts[n][x] = k
          BY <1>10, <3>3
        <5> QED BY <1>15, <3>3, <5>1
      <4>2. y + 1 - L \in 1..Len(todo) /\ todo[y + 1 - L] = k
        BY <1>2, <1>10, <3>3
      <4>3. InTodo(k)
        BY <4>2 DEF InTodo
      <4> QED BY <2>2, <2>7, <4>1, <4>3 DEF Once
    <3> QED BY <2>8, <3>1, <3>2, <3>3
  <2>9. \A m, l \in Nodes : \A i, j \in Nat :
          IsPart(m, i, k)' /\ IsPart(l, j, k)' => m = l /\ i = j
    BY <1>14, <2>2 DEF Once
  <2>10. Owned(k)'
    BY <2>2, <2>3, <2>4, <2>6 DEF Owned
  <2>11. Once(k)'
    BY <2>2, <2>3, <2>4, <2>5, <2>7, <2>8, <2>9 DEF Once
  <2> QED BY <2>10, <2>11
<1>17. OwnedOnce'
  BY <1>16 DEF OwnedOnce
<1>18. RefersToLive'
  <2>1. ASSUME NEW m \in (Live \ lost)', NEW k \in PartsOf(m)' PROVE k \in Live'
    <3>1. m \in Live \ lost /\ m # n /\ k \in PartsOf(m) /\ m \in Nodes
      BY <1>1, <1>5, <1>8, <2>1, LiveFacts
    <3>2. PICK i \in 1..Len(parts[m]) : parts[m][i] = k
      BY <3>1 DEF PartsOf
    <3>3. i \in Nat /\ IsPart(m, i, k)
      BY <3>1, <3>2, LiveFacts DEF IsPart
    <3>4. k # n
      BY <1>4, <3>1, <3>3
    <3> QED BY <1>5, <3>1, <3>4, LiveFacts
  <2>2. ASSUME NEW i \in 1..Len(todo') PROVE todo'[i] \in Live'
    <3>1. CASE i \in 1..L
      <4>1. i \in Nat /\ IsPart(n, i, todo'[i]) /\ todo'[i] \in PartsOf(n)
        BY <1>10, <1>15, <3>1 DEF PartsOf, L
      <4>2. todo'[i] # n
        BY <1>2, <1>4, <4>1
      <4> QED BY <1>3, <1>5, <4>1, <4>2, LiveFacts
    <3>2. CASE i + 1 - L \in 2..Len(todo) /\ todo'[i] = todo[i + 1 - L]
      <4>1. i + 1 - L \in 1..Len(todo)
        BY <1>2, <3>2
      <4>2. todo'[i] \in Todo /\ todo'[i] # n
        BY <1>4, <3>2, <4>1 DEF Todo
      <4> QED BY <1>5, <4>2, LiveFacts
    <3> QED BY <1>10, <3>1, <3>2
  <2> QED BY <2>1, <2>2 DEF RefersToLive, Todo
<1>19. Rooted'
  <2> SUFFICES ASSUME NEW k \in (Live \ lost)', NEW T \in SUBSET Nodes,
                      (held \cup Todo)' \subseteq T, \A m \in T : PartsOf(m)' \subseteq T
               PROVE  k \in T
    BY <1>5, LiveFacts DEF Rooted, Reach, Closure
  <2> DEFINE U == T \cup {n}
  <2>1. PartsOf(n) \subseteq T
    <3> SUFFICES ASSUME NEW i \in 1..L PROVE parts[n][i] \in T
      BY DEF PartsOf, L
    <3>1. i \in 1..Len(todo') /\ todo'[i] = parts[n][i]
      BY <1>2, <1>10
    <3> QED BY <3>1 DEF Todo
  <2>2. Todo \subseteq U
    <3> SUFFICES ASSUME NEW i \in 1..Len(todo) PROVE todo[i] \in U
      BY DEF Todo
    <3>1. CASE i = 1
      BY <1>2, <3>1
    <3>2. CASE i \in 2..Len(todo)
      <4>1. L + i - 1 \in 1..Len(todo') /\ todo'[L + i - 1] = todo[i]
        BY <1>2, <1>10, <3>2
      <4> QED BY <4>1 DEF Todo
    <3> QED BY <1>2, <3>1, <3>2
  <2>3. U \in SUBSET Nodes /\ held \cup Todo \subseteq U /\ held \cup Todo \in SUBSET Nodes
    BY <1>1, <1>2, <2>2, LiveFacts
  <2>4. \A m \in U : PartsOf(m) \subseteq U
    BY <1>8, <2>1
  <2>5. Reach(held \cup Todo) \subseteq U
    <3> HIDE DEF U
    <3> QED BY <2>3, <2>4, ClosureLeast DEF Reach
  <2> QED BY <1>1, <1>5, <2>5 DEF IInv, Rooted
<1> QED BY <1>11, <1>12, <1>13, <1>17, <1>18, <1>19 DEF IInv

LEMMA VisitPasses ==
    ASSUME IInv, todo # <<>>, Head(todo) \in retained, Visit
    PROVE  IInv'
<1>1. /\ todo \in Seq(Nodes) /\ Len(todo) \in Nat \ {0} /\ todo[1] \in retained
      /\ todo' \in Seq(Nodes) /\ Len(todo') = Len(todo) - 1
      /\ \A i \in 1..Len(todo') : todo'[i] = todo[i + 1]
      /\ UNCHANGED <<type, parts, retained, held, cleanup, lost>>
  <2>1. todo' = Tail(todo) /\ UNCHANGED <<type, parts, retained, held, cleanup, lost>>
    BY DEF Visit
  <2>2. todo \in Seq(Nodes)
    BY LiveFacts
  <2> QED BY <2>1, <2>2
<1>2. \A i \in 1..Len(todo') : i + 1 \in 1..Len(todo)
  BY <1>1
<1>3. \A i \in 1..Len(todo) : i = 1 \/ (i - 1 \in 1..Len(todo') /\ todo'[i - 1] = todo[i])
  <2> SUFFICES ASSUME NEW i \in 1..Len(todo), i # 1
               PROVE  i - 1 \in 1..Len(todo') /\ todo'[i - 1] = todo[i]
    OBVIOUS
  <2>1. i - 1 \in 1..Len(todo') /\ i - 1 + 1 = i
    BY <1>1
  <2> QED BY <1>1, <2>1
<1>4. Live' = Live /\ Todo' \subseteq Todo
  BY <1>1, <1>2 DEF Live, Todo
<1>5. TypeOK'
  BY <1>1, <1>4 DEF IInv, TypeOK
<1>6. CleanupType' /\ CleanupSafe'
  <2>1. \A m \in Nodes : PartsOf(m)' \subseteq PartsOf(m)
    BY <1>1 DEF PartsOf
  <2> QED BY <1>1, <2>1, CleanupStays DEF IInv, CleanupType, CleanupSafe
<1>7. RetainedHeld' /\ FreeIsEmpty'
  BY <1>1 DEF IInv, RetainedHeld, FreeIsEmpty
<1>8. ASSUME NEW k \in (Live \ retained)' PROVE Owned(k)' /\ Once(k)'
  <2>1. k \in Live \ retained /\ Owned(k) /\ Once(k)
    BY <1>1, <1>4 DEF IInv, OwnedOnce
  <2>2. InTodo(k)' <=> InTodo(k)
    <3>1. InTodo(k)' => InTodo(k)
      BY <1>1, <1>2 DEF InTodo
    <3>2. ASSUME NEW i \in 1..Len(todo), todo[i] = k PROVE InTodo(k)'
      <4>1. i - 1 \in 1..Len(todo') /\ todo'[i - 1] = k
        BY <1>1, <1>3, <2>1, <3>2
      <4> QED BY <4>1 DEF InTodo
    <3> QED BY <3>1, <3>2 DEF InTodo
  <2>3. ASSUME NEW i \in 1..Len(todo'), NEW j \in 1..Len(todo'), todo'[i] = k, todo'[j] = k
        PROVE  i = j
    <3>1. /\ i + 1 \in 1..Len(todo) /\ todo[i + 1] = k
          /\ j + 1 \in 1..Len(todo) /\ todo[j + 1] = k
      BY <1>1, <1>2, <2>3
    <3>2. i + 1 = j + 1
      BY <2>1, <3>1 DEF Once
    <3> QED BY <3>2
  <2>4. \A m \in Nodes, i \in Nat : IsPart(m, i, k)' <=> IsPart(m, i, k)
    BY <1>1, <1>4 DEF IsPart
  <2> QED BY <1>1, <2>1, <2>2, <2>3, <2>4 DEF Owned, Once, InPart
<1>9. OwnedOnce'
  BY <1>8 DEF OwnedOnce
<1>10. RefersToLive'
  BY <1>1, <1>4 DEF IInv, RefersToLive, PartsOf
<1>11. Rooted'
  <2> SUFFICES ASSUME NEW k \in (Live \ lost)', NEW T \in SUBSET Nodes,
                      (held \cup Todo)' \subseteq T, \A m \in T : PartsOf(m)' \subseteq T
               PROVE  k \in T
    BY <1>4, LiveFacts DEF Rooted, Reach, Closure
  <2>1. retained \subseteq T /\ held \subseteq T
    BY <1>1, LiveFacts
  <2>2. Todo \subseteq T
    <3> SUFFICES ASSUME NEW i \in 1..Len(todo) PROVE todo[i] \in T
      BY DEF Todo
    <3>1. CASE i = 1
      BY <1>1, <2>1, <3>1
    <3>2. CASE i # 1
      BY <1>3, <3>2 DEF Todo
    <3> QED BY <3>1, <3>2
  <2>3. \A m \in T : PartsOf(m) \subseteq T
    BY <1>1 DEF PartsOf
  <2>4. Reach(held \cup Todo) \subseteq T
    BY <2>1, <2>2, <2>3, LiveFacts, ClosureLeast DEF Reach
  <2> QED BY <1>1, <1>4, <2>4 DEF IInv, Rooted
<1> QED BY <1>5, <1>6, <1>7, <1>9, <1>10, <1>11 DEF IInv

\* Undefining a parser hands its parts to the walk.
LEMMA StartKeeps ==
    ASSUME IInv, NEW p \in held, todo = <<>>, StartUndefine(p), UNCHANGED <<retained, held, lost>>
    PROVE  /\ Live' = Live /\ RetainedHeld' /\ FreeIsEmpty' /\ OwnedOnce'
           /\ RefersToLive' /\ Rooted'
           /\ parts' \in [Nodes -> Seq(Nodes)] /\ todo' \in Seq(Nodes)
           /\ type' \in [Nodes -> {"free", "undefined", "defined"}]
           /\ parts'[p] = <<>> /\ \A m \in Nodes \ {p} : parts'[m] = parts[m]
<1>1. /\ todo' = parts[p] /\ type' = [type EXCEPT ![p] = "undefined"]
      /\ parts' = [parts EXCEPT ![p] = <<>>]
  BY DEF StartUndefine
<1>2. p \in Live \ lost /\ p \in Nodes /\ parts[p] \in Seq(Nodes) /\ Todo = {}
  BY LiveFacts DEF Todo
<1>3. Live' = Live
  BY <1>1, <1>2, LiveFacts DEF Live
<1>4. /\ parts' \in [Nodes -> Seq(Nodes)] /\ todo' \in Seq(Nodes)
      /\ type' \in [Nodes -> {"free", "undefined", "defined"}]
  <2>1. <<>> \in Seq(Nodes) /\ parts \in [Nodes -> Seq(Nodes)]
    BY LiveFacts
  <2>2. type' \in [Nodes -> {"free", "undefined", "defined"}]
    BY <1>1, LiveFacts
  <2>3. parts' \in [Nodes -> Seq(Nodes)]
    BY <1>1, <2>1
  <2> QED BY <1>1, <1>2, <2>2, <2>3
<1>5. parts'[p] = <<>> /\ \A m \in Nodes \ {p} : parts'[m] = parts[m]
  BY <1>1, <1>2, LiveFacts
<1>6. PartsOf(p)' = {} /\ \A m \in Nodes \ {p} : PartsOf(m)' = PartsOf(m)
  <2>1. PartsOf(p)' = {}
    BY <1>5 DEF PartsOf
  <2>2. ASSUME NEW m \in Nodes \ {p} PROVE PartsOf(m)' = PartsOf(m)
    BY <1>5 DEF PartsOf
  <2> QED BY <2>1, <2>2
<1>7. Todo' = PartsOf(p)
  BY <1>1 DEF Todo, PartsOf
<1>8. RetainedHeld'
  BY DEF IInv, RetainedHeld
<1>9. FreeIsEmpty'
  BY <1>1, <1>5, LiveFacts DEF IInv, FreeIsEmpty
<1>10. ASSUME NEW m \in Nodes, NEW i \in Nat, NEW k
       PROVE  IsPart(m, i, k)' <=> m # p /\ IsPart(m, i, k)
  <2>1. CASE m = p
    BY <1>5, <2>1 DEF IsPart
  <2>2. CASE m # p
    BY <1>3, <1>5, <2>2 DEF IsPart
  <2> QED BY <2>1, <2>2
<1>11. ASSUME NEW i \in Nat, NEW k
       PROVE  IsPart(p, i, k) <=> i \in 1..Len(todo') /\ todo'[i] = k
  BY <1>1, <1>2 DEF IsPart
<1>12. Len(todo') \in Nat
  BY <1>4
<1>13. ASSUME NEW k \in (Live \ retained)' PROVE Owned(k)' /\ Once(k)'
  <2>1. k \in Live \ retained /\ Owned(k) /\ Once(k)
    BY <1>3 DEF IInv, OwnedOnce
  <2>2. ~InTodo(k)
    BY DEF InTodo
  <2>3. InTodo(k)' <=> \E i \in Nat : IsPart(p, i, k)
    BY <1>11, <1>12 DEF InTodo
  <2>4. InPart(k)' => InPart(k)
    BY <1>10 DEF InPart
  <2>5. InPart(k) => InPart(k)' \/ InTodo(k)'
    BY <1>10, <2>3 DEF InPart
  <2>6. InTodo(k)' => InPart(k) /\ ~InPart(k)'
    BY <1>2, <1>10, <2>1, <2>3 DEF InPart, Once
  <2>7. ASSUME NEW i \in 1..Len(todo'), NEW j \in 1..Len(todo'), todo'[i] = k, todo'[j] = k
        PROVE  i = j
    <3>1. i \in Nat /\ j \in Nat
      BY <1>12
    <3>2. IsPart(p, i, k) /\ IsPart(p, j, k)
      BY <1>11, <2>7, <3>1
    <3> QED BY <1>2, <2>1, <3>1, <3>2 DEF Once
  <2>8. \A m, l \in Nodes : \A i, j \in Nat :
          IsPart(m, i, k)' /\ IsPart(l, j, k)' => m = l /\ i = j
    BY <1>10, <2>1 DEF Once
  <2>9. Owned(k)'
    BY <2>1, <2>2, <2>5 DEF Owned
  <2>10. Once(k)'
    BY <2>1, <2>4, <2>6, <2>7, <2>8 DEF Once
  <2> QED BY <2>9, <2>10
<1>14. OwnedOnce'
  BY <1>13 DEF OwnedOnce
<1>15. RefersToLive'
  <2>1. Todo' \subseteq Live'
    BY <1>2, <1>3, <1>7, LiveFacts
  <2>2. ASSUME NEW m \in (Live \ lost)' PROVE PartsOf(m)' \subseteq Live'
    BY <1>2, <1>3, <1>6, LiveFacts
  <2> QED BY <2>1, <2>2 DEF RefersToLive
<1>16. Rooted'
  <2> SUFFICES ASSUME NEW k \in (Live \ lost)', NEW T \in SUBSET Nodes,
                      (held \cup Todo)' \subseteq T, \A m \in T : PartsOf(m)' \subseteq T
               PROVE  k \in T
    BY <1>3, LiveFacts DEF Rooted, Reach, Closure
  <2>1. held \cup Todo \subseteq T /\ held \cup Todo \in SUBSET Nodes
    BY <1>2
  <2>2. \A m \in T : PartsOf(m) \subseteq T
    BY <1>6, <1>7
  <2>3. Reach(held \cup Todo) \subseteq T
    BY <2>1, <2>2, ClosureLeast DEF Reach
  <2> QED BY <1>3, <2>3 DEF IInv, Rooted
<1> QED BY <1>3, <1>4, <1>5, <1>8, <1>9, <1>14, <1>15, <1>16

LEMMA UndefineKeeps ==
    ASSUME IInv, NEW p \in Nodes, Undefine(p)
    PROVE  IInv'
<1>1. p \in held /\ todo = <<>> /\ cleanup = Nothing /\ StartUndefine(p)
      /\ UNCHANGED <<retained, held, cleanup, lost>>
  BY IdleFacts DEF Undefine
<1>2. /\ Live' = Live /\ RetainedHeld' /\ FreeIsEmpty' /\ OwnedOnce' /\ RefersToLive' /\ Rooted'
      /\ parts' \in [Nodes -> Seq(Nodes)] /\ todo' \in Seq(Nodes)
      /\ type' \in [Nodes -> {"free", "undefined", "defined"}]
  BY <1>1, StartKeeps
<1>3. TypeOK'
  BY <1>1, <1>2 DEF IInv, TypeOK
<1>4. CleanupType' /\ CleanupSafe'
  BY <1>1, NoCleanup
<1> QED BY <1>2, <1>3, <1>4 DEF IInv

LEMMA CleanupUndefineKeeps ==
    ASSUME IInv, NEW p \in Nodes, CleanupUndefine(p)
    PROVE  IInv'
<1>1. /\ todo = <<>> /\ p \in cleanup.undefine /\ StartUndefine(p)
      /\ cleanup' = [cleanup EXCEPT !.undefine = @ \ {p}]
      /\ UNCHANGED <<retained, held, lost>>
  BY DEF CleanupUndefine
<1>2. /\ cleanup \in [undefine : SUBSET Nodes, delete : SUBSET Nodes]
      /\ cleanup.undefine \subseteq cleanup.delete /\ cleanup.delete \subseteq held \cap retained
  BY DEF IInv, TypeOK, CleanupType
<1>3. /\ cleanup' \in [undefine : SUBSET Nodes, delete : SUBSET Nodes]
      /\ cleanup'.undefine = cleanup.undefine \ {p} /\ cleanup'.delete = cleanup.delete
  BY <1>1, <1>2
<1>4. /\ Live' = Live /\ RetainedHeld' /\ FreeIsEmpty' /\ OwnedOnce' /\ RefersToLive' /\ Rooted'
      /\ parts' \in [Nodes -> Seq(Nodes)] /\ todo' \in Seq(Nodes)
      /\ type' \in [Nodes -> {"free", "undefined", "defined"}]
      /\ parts'[p] = <<>> /\ \A m \in Nodes \ {p} : parts'[m] = parts[m]
  BY <1>1, <1>2, StartKeeps
<1>5. TypeOK'
  BY <1>1, <1>2, <1>3, <1>4 DEF IInv, TypeOK
<1>6. CleanupType' /\ CleanupSafe'
  <2>1. ASSUME NEW m \in Nodes PROVE PartsOf(m)' \subseteq PartsOf(m)
    <3>1. CASE m = p
      BY <1>4, <3>1 DEF PartsOf
    <3>2. CASE m # p
      BY <1>4, <3>2 DEF PartsOf
    <3> QED BY <3>1, <3>2
  <2>2. \A m \in cleanup'.delete \ cleanup'.undefine : parts'[m] = <<>>
    BY <1>2, <1>3, <1>4 DEF IInv, CleanupSafe
  <2> QED BY <1>1, <1>3, <2>1, <2>2, CleanupStays
<1> QED BY <1>4, <1>5, <1>6 DEF IInv

----------------------------------------------------------------------------
(* Deleting *)

\* A retained parser nothing that stays refers to can be freed; what belonged to it is
\* given up.
LEMMA DropKeeps ==
    ASSUME IInv, NEW p \in retained, todo = <<>>, Drop(p), UNCHANGED todo,
           \A m \in Live \ lost : p \in PartsOf(m) => m \in {p} \cup Below(p)
    PROVE  /\ Live' = Live \ {p} /\ lost' \subseteq Live' /\ RetainedHeld' /\ FreeIsEmpty'
           /\ OwnedOnce' /\ RefersToLive' /\ Rooted'
           /\ parts' \in [Nodes -> Seq(Nodes)]
           /\ type' \in [Nodes -> {"free", "undefined", "defined"}]
           /\ parts'[p] = <<>> /\ \A m \in Nodes \ {p} : parts'[m] = parts[m]
<1> DEFINE B == Below(p)
<1>1. p \in held /\ p \in Live \ lost /\ p \in Nodes /\ Todo = {} /\ Todo' = {}
  BY LiveFacts DEF Todo
<1>2. /\ PartsOf(p) \subseteq B \cup retained
      /\ \A m \in B : PartsOf(m) \subseteq B \cup retained
      /\ B \subseteq Live \ (lost \cup retained \cup held \cup Todo)
      /\ \A n \in B : \E m \in {p} \cup B : \E i \in Nat : IsPart(m, i, n)
  BY <1>1, BelowFacts
<1>3. /\ type' = [type EXCEPT ![p] = "free"] /\ parts' = [parts EXCEPT ![p] = <<>>]
      /\ retained' = retained \ {p} /\ held' = held \ {p} /\ lost' = lost \cup B
  BY DEF Drop
<1> HIDE DEF B
<1>4. Live' = Live \ {p} /\ p \notin B
  BY <1>1, <1>2, <1>3, LiveFacts DEF Live
<1>5. lost' \subseteq Live'
  BY <1>1, <1>2, <1>3, <1>4, LiveFacts
<1>6. parts' \in [Nodes -> Seq(Nodes)] /\ type' \in [Nodes -> {"free", "undefined", "defined"}]
  <2>1. <<>> \in Seq(Nodes) /\ parts \in [Nodes -> Seq(Nodes)]
    BY LiveFacts
  <2>2. type' \in [Nodes -> {"free", "undefined", "defined"}]
    BY <1>3, LiveFacts
  <2>3. parts' \in [Nodes -> Seq(Nodes)]
    BY <1>3, <2>1
  <2> QED BY <2>2, <2>3
<1>7. parts'[p] = <<>> /\ \A m \in Nodes \ {p} : parts'[m] = parts[m]
  BY <1>1, <1>3, LiveFacts
<1>8. PartsOf(p)' = {} /\ \A m \in Nodes \ {p} : PartsOf(m)' = PartsOf(m)
  <2>1. PartsOf(p)' = {}
    BY <1>7 DEF PartsOf
  <2>2. ASSUME NEW m \in Nodes \ {p} PROVE PartsOf(m)' = PartsOf(m)
    BY <1>7 DEF PartsOf
  <2> QED BY <2>1, <2>2
<1>9. RetainedHeld'
  BY <1>2, <1>3 DEF IInv, RetainedHeld
<1>10. FreeIsEmpty'
  BY <1>3, <1>7, LiveFacts DEF IInv, FreeIsEmpty
<1>11. ASSUME NEW m \in Nodes, NEW i \in Nat, NEW n
       PROVE  IsPart(m, i, n)' <=> m \notin {p} \cup B /\ IsPart(m, i, n)
  <2>1. CASE m = p
    BY <1>4, <2>1 DEF IsPart
  <2>2. CASE m # p
    BY <1>3, <1>4, <1>7, <2>2 DEF IsPart
  <2> QED BY <2>1, <2>2
<1>12. ASSUME NEW n \in (Live \ retained)' PROVE Owned(n)' /\ Once(n)'
  <2>1. n \in Live \ retained /\ n # p /\ n \in Nodes
    BY <1>3, <1>4, LiveFacts
  <2>2. Owned(n) /\ Once(n)
    BY <2>1 DEF IInv, OwnedOnce
  <2>3. n \in held' <=> n \in held
    BY <1>3, <2>1
  <2>4. ~InTodo(n) /\ ~InTodo(n)'
    BY DEF InTodo
  <2>5. CASE n \in B
    <3>1. PICK m \in {p} \cup B, i \in Nat : IsPart(m, i, n)
      BY <1>2, <2>5
    <3>2. \A k \in Nodes, j \in Nat : IsPart(k, j, n) => k = m
      BY <1>1, <1>2, <2>2, <3>1, LiveFacts DEF Once
    <3>3. \A k \in Nodes, j \in Nat : ~IsPart(k, j, n)'
      BY <1>11, <3>1, <3>2
    <3>4. n \notin held' /\ n \in lost'
      BY <1>2, <1>3, <2>5
    <3> QED BY <2>4, <3>3, <3>4 DEF Owned, Once, InPart
  <2>6. CASE n \notin B
    <3>1. n \in lost' <=> n \in lost
      BY <1>3, <2>6
    <3>2. ASSUME NEW m \in {p} \cup B, NEW i \in Nat PROVE ~IsPart(m, i, n)
      <4>1. n \notin PartsOf(m)
        BY <1>2, <2>1, <2>6
      <4> QED BY <4>1 DEF IsPart, PartsOf
    <3>3. \A m \in Nodes, i \in Nat : IsPart(m, i, n)' <=> IsPart(m, i, n)
      BY <1>11, <3>2
    <3> QED BY <2>2, <2>3, <2>4, <3>1, <3>3 DEF Owned, Once, InPart
  <2> QED BY <2>5, <2>6
<1>13. OwnedOnce'
  BY <1>12 DEF OwnedOnce
<1>14. RefersToLive'
  <2> SUFFICES ASSUME NEW m \in (Live \ lost)', NEW n \in PartsOf(m)' PROVE n \in Live'
    BY <1>1 DEF RefersToLive
  <2>1. m \in Live \ lost /\ m \notin {p} \cup B /\ m \in Nodes
    BY <1>3, <1>4, LiveFacts
  <2>2. n \in PartsOf(m) /\ n \in Live
    BY <1>8, <2>1, LiveFacts
  <2>3. n # p
    BY <2>1, <2>2 DEF B
  <2> QED BY <1>4, <2>2, <2>3
<1>15. Rooted'
  <2> SUFFICES ASSUME NEW n \in (Live \ lost)', NEW T \in SUBSET Nodes,
                      (held \cup Todo)' \subseteq T, \A k \in T : PartsOf(k)' \subseteq T
               PROVE  n \in T
    BY <1>4, LiveFacts DEF Rooted, Reach, Closure
  <2> DEFINE U == T \cup {p} \cup B
  <2>1. U \in SUBSET Nodes /\ held \cup Todo \subseteq U /\ held \cup Todo \in SUBSET Nodes
    BY <1>1, <1>2, <1>3, LiveFacts
  <2>2. retained \subseteq U
    BY <2>1, LiveFacts
  <2>3. \A k \in U : PartsOf(k) \subseteq U
    BY <1>2, <1>8, <2>2
  <2>4. Reach(held \cup Todo) \subseteq U
    <3> HIDE DEF U
    <3> QED BY <2>1, <2>3, ClosureLeast DEF Reach
  <2>5. n \in Live \ lost /\ n # p /\ n \notin B
    BY <1>3, <1>4
  <2> QED BY <2>4, <2>5 DEF IInv, Rooted
<1> QED BY <1>4, <1>5, <1>6, <1>7, <1>9, <1>10, <1>13, <1>14, <1>15

LEMMA DeleteRetainedKeeps ==
    ASSUME IInv, NEW p \in Nodes, DeleteRetained(p)
    PROVE  IInv'
<1>1. /\ p \in retained /\ p \in held /\ todo = <<>> /\ Todo = {} /\ cleanup = Nothing
      /\ Unused({p}) /\ Drop(p) /\ UNCHANGED <<todo, cleanup>>
  BY IdleFacts DEF DeleteRetained
<1>2. ASSUME NEW m \in Live \ lost, p \in PartsOf(m) PROVE m \in {p} \cup Below(p)
  <2> DEFINE R == Reach(held \ {p})
             U == R \cup {p} \cup Below(p)
  <2>1. held \ {p} \in SUBSET Nodes
    BY LiveFacts
  <2>2. R \in SUBSET Nodes /\ held \ {p} \subseteq R /\ \A k \in R : PartsOf(k) \subseteq R
    BY <2>1, LiveFacts, ClosureHolds DEF Reach
  <2>3. p \notin R
    BY <1>1 DEF Unused
  <2>4. /\ PartsOf(p) \subseteq Below(p) \cup retained
        /\ \A k \in Below(p) : PartsOf(k) \subseteq Below(p) \cup retained
        /\ Below(p) \subseteq Nodes
    BY <1>1, LiveFacts, BelowFacts
  <2> HIDE DEF R
  <2>5. /\ U \in SUBSET Nodes /\ held \cup Todo \subseteq U
        /\ held \cup Todo \in SUBSET Nodes /\ retained \subseteq U
    BY <1>1, <2>1, <2>2, <2>4, LiveFacts
  <2>6. \A k \in U : PartsOf(k) \subseteq U
    BY <2>2, <2>4, <2>5
  <2> HIDE DEF U
  <2>7. Reach(held \cup Todo) \subseteq U
    BY <2>5, <2>6, ClosureLeast DEF Reach
  <2>8. m \in U
    BY <2>7 DEF IInv, Rooted
  <2>9. m \notin R
    BY <1>2, <2>2, <2>3
  <2> QED BY <2>8, <2>9 DEF U
<1>3. /\ Live' = Live \ {p} /\ lost' \subseteq Live' /\ RetainedHeld' /\ FreeIsEmpty'
      /\ OwnedOnce' /\ RefersToLive' /\ Rooted'
      /\ parts' \in [Nodes -> Seq(Nodes)]
      /\ type' \in [Nodes -> {"free", "undefined", "defined"}]
  BY <1>1, <1>2, DropKeeps
<1>4. TypeOK'
  BY <1>1, <1>3, LiveFacts DEF IInv, TypeOK, Drop, Nothing
<1>5. CleanupType' /\ CleanupSafe'
  BY <1>1, NoCleanup
<1> QED BY <1>3, <1>4, <1>5 DEF IInv

LEMMA CleanupDeleteKeeps ==
    ASSUME IInv, NEW p \in Nodes, CleanupDelete(p)
    PROVE  IInv'
<1> DEFINE D == cleanup.delete
<1>1. /\ todo = <<>> /\ cleanup.undefine = {} /\ p \in D /\ Drop(p)
      /\ cleanup' = [cleanup EXCEPT !.delete = @ \ {p}] /\ UNCHANGED todo
  BY DEF CleanupDelete
<1>2. /\ cleanup \in [undefine : SUBSET Nodes, delete : SUBSET Nodes]
      /\ D \subseteq held \cap retained
      /\ \A m \in D : parts[m] = <<>>
      /\ Reach(held \ D) \cap D = {}
  BY <1>1 DEF IInv, TypeOK, CleanupType, CleanupSafe
<1>3. /\ cleanup' \in [undefine : SUBSET Nodes, delete : SUBSET Nodes]
      /\ cleanup'.undefine = {} /\ cleanup'.delete = D \ {p}
  BY <1>1, <1>2
<1>4. p \in held /\ p \in retained /\ Todo = {}
  BY <1>1, <1>2 DEF Todo
<1> HIDE DEF D
\* What is to be deleted has no parts, and nothing else refers to it.
<1>5. ASSUME NEW m \in Live \ lost PROVE p \notin PartsOf(m)
  <2> DEFINE R == Reach(held \ D)
             U == R \cup D
  <2>1. held \ D \in SUBSET Nodes
    BY LiveFacts
  <2>2. R \in SUBSET Nodes /\ held \ D \subseteq R /\ \A k \in R : PartsOf(k) \subseteq R
    BY <2>1, LiveFacts, ClosureHolds DEF Reach
  <2>3. p \notin R
    BY <1>1, <1>2 DEF D
  <2>4. \A k \in D : PartsOf(k) = {}
    BY <1>2 DEF PartsOf, D
  <2> HIDE DEF R
  <2>5. U \in SUBSET Nodes /\ held \cup Todo \subseteq U /\ held \cup Todo \in SUBSET Nodes
    BY <1>2, <1>4, <2>1, <2>2, LiveFacts DEF D
  <2>6. \A k \in U : PartsOf(k) \subseteq U
    BY <2>2, <2>4
  <2> HIDE DEF U
  <2>7. Reach(held \cup Todo) \subseteq U
    BY <2>5, <2>6, ClosureLeast DEF Reach
  <2>8. m \in U
    BY <2>7 DEF IInv, Rooted
  <2>9. CASE m \in R
    BY <2>2, <2>3, <2>9
  <2>10. CASE m \in D
    BY <2>4, <2>10
  <2> QED BY <2>8, <2>9, <2>10 DEF U
<1>6. /\ Live' = Live \ {p} /\ lost' \subseteq Live' /\ RetainedHeld' /\ FreeIsEmpty'
      /\ OwnedOnce' /\ RefersToLive' /\ Rooted'
      /\ parts' \in [Nodes -> Seq(Nodes)]
      /\ type' \in [Nodes -> {"free", "undefined", "defined"}]
      /\ parts'[p] = <<>> /\ \A m \in Nodes \ {p} : parts'[m] = parts[m]
  BY <1>1, <1>4, <1>5, DropKeeps
<1>7. held' = held \ {p} /\ retained' = retained \ {p}
  BY <1>1 DEF Drop
<1>8. TypeOK'
  <2>1. cleanup'.delete \subseteq held' \cap retained'
    BY <1>2, <1>3, <1>7 DEF D
  <2> QED BY <1>1, <1>3, <1>6, <1>7, <2>1, LiveFacts DEF TypeOK
<1>9. CleanupType' /\ CleanupSafe'
  <2>1. ASSUME NEW m \in Nodes PROVE PartsOf(m)' \subseteq PartsOf(m)
    <3>1. CASE m = p
      BY <1>6, <3>1 DEF PartsOf
    <3>2. CASE m # p
      BY <1>6, <3>2 DEF PartsOf
    <3> QED BY <3>1, <3>2
  <2>2. \A m \in cleanup'.delete \ cleanup'.undefine : parts'[m] = <<>>
    BY <1>2, <1>3, <1>6 DEF D
  <2>3. held' \ cleanup'.delete \subseteq held \ cleanup.delete
    BY <1>3, <1>7 DEF D
  <2>4. cleanup'.delete \subseteq cleanup.delete
    BY <1>3 DEF D
  <2> QED BY <1>3, <2>1, <2>2, <2>3, <2>4, CleanupStays
<1> QED BY <1>6, <1>8, <1>9 DEF IInv

LEMMA DeleteUnretainedKeeps ==
    ASSUME IInv, NEW p \in Nodes, DeleteUnretained(p)
    PROVE  IInv'
<1>1. /\ p \in held \ retained /\ p \in Live /\ todo = <<>> /\ Todo = {}
      /\ cleanup = Nothing /\ held' = held \ {p} /\ todo' = <<p>>
      /\ UNCHANGED <<type, parts, retained, cleanup, lost>>
  BY IdleFacts, LiveFacts DEF DeleteUnretained
<1>2. Live' = Live /\ Todo' = {p} /\ todo' \in Seq(Nodes) /\ Len(todo') = 1 /\ todo'[1] = p
  BY <1>1, LiveFacts DEF Live, Todo
<1>3. TypeOK'
  BY <1>1, <1>2 DEF IInv, TypeOK, Nothing
<1>4. CleanupType' /\ CleanupSafe'
  BY <1>1, NoCleanup
<1>5. RetainedHeld' /\ FreeIsEmpty'
  BY <1>1 DEF IInv, RetainedHeld, FreeIsEmpty
<1>6. ASSUME NEW k \in (Live \ retained)' PROVE Owned(k)' /\ Once(k)'
  <2>1. k \in Live \ retained /\ Owned(k) /\ Once(k)
    BY <1>1, <1>2 DEF IInv, OwnedOnce
  <2>2. ~InTodo(k) /\ (InTodo(k)' <=> k = p)
    BY <1>1, <1>2 DEF InTodo
  <2>3. \A m \in Nodes, i \in Nat : IsPart(m, i, k)' <=> IsPart(m, i, k)
    BY <1>1, <1>2 DEF IsPart
  <2>4. \A i, j \in 1..Len(todo') : i = j
    BY <1>2
  <2>5. InPart(k)' <=> InPart(k)
    BY <2>3 DEF InPart
  <2>6. (k \in held' <=> k \in held /\ k # p) /\ (k \in lost' <=> k \in lost)
    BY <1>1
  <2> QED BY <1>1, <2>1, <2>2, <2>3, <2>4, <2>5, <2>6 DEF Owned, Once
<1>7. OwnedOnce'
  BY <1>6 DEF OwnedOnce
<1>8. RefersToLive'
  BY <1>1, <1>2 DEF IInv, RefersToLive, PartsOf
<1>9. Rooted'
  <2>1. (held \cup Todo)' = held \cup Todo
    BY <1>1, <1>2
  <2>2. Reach(held \cup Todo)' = Reach(held \cup Todo)
    BY <1>1, <2>1 DEF Reach, Closure, PartsOf
  <2> QED BY <1>1, <1>2, <2>2 DEF IInv, Rooted
<1> QED BY <1>3, <1>4, <1>5, <1>7, <1>8, <1>9 DEF IInv

LEMMA CleanupKeeps ==
    ASSUME IInv, NEW S \in SUBSET Nodes, Cleanup(S)
    PROVE  IInv'
<1>1. /\ S \subseteq held \cap retained /\ Unused(S) /\ todo = <<>>
      /\ cleanup' = [undefine |-> S, delete |-> S]
      /\ UNCHANGED <<type, parts, retained, held, todo, lost>>
  BY IdleFacts DEF Cleanup
<1>2. Live' = Live /\ Todo' = Todo
  BY <1>1 DEF Live, Todo
<1>3. TypeOK'
  BY <1>1, <1>2 DEF IInv, TypeOK
<1>4. CleanupType'
  BY <1>1 DEF CleanupType
<1>5. CleanupSafe'
  <2>1. Reach(held \ S) \cap S = {}
    BY <1>1 DEF Unused
  <2>2. Reach(held \ cleanup.delete)' = Reach(held \ S)
    BY <1>1 DEF Reach, Closure, PartsOf
  <2> QED BY <1>1, <2>1, <2>2 DEF CleanupSafe
<1>6. RetainedHeld' /\ FreeIsEmpty'
  BY <1>1 DEF IInv, RetainedHeld, FreeIsEmpty
<1>7. OwnedOnce'
  BY <1>1, <1>2 DEF IInv, OwnedOnce, Owned, Once, InTodo, InPart, IsPart
<1>8. RefersToLive'
  BY <1>1, <1>2 DEF IInv, RefersToLive, PartsOf
<1>9. Rooted'
  BY <1>1, <1>2 DEF IInv, Rooted, Reach, Closure, PartsOf
<1> QED BY <1>3, <1>4, <1>5, <1>6, <1>7, <1>8, <1>9 DEF IInv

----------------------------------------------------------------------------
(* The theorems *)

LEMMA StutterInv == IInv /\ UNCHANGED vars => IInv'
<1> SUFFICES ASSUME IInv, UNCHANGED vars PROVE IInv'
  OBVIOUS
<1>1. UNCHANGED <<type, parts, retained, held, todo, cleanup, lost>>
  BY DEF vars
<1>2. Live' = Live /\ Todo' = Todo
  BY <1>1 DEF Live, Todo
<1>3. TypeOK' /\ CleanupType' /\ RetainedHeld' /\ FreeIsEmpty'
  BY <1>1, <1>2 DEF IInv, TypeOK, CleanupType, RetainedHeld, FreeIsEmpty
<1>4. OwnedOnce'
  BY <1>1, <1>2 DEF IInv, OwnedOnce, Owned, Once, InTodo, InPart, IsPart
<1>5. RefersToLive'
  BY <1>1, <1>2 DEF IInv, RefersToLive, PartsOf
<1>6. Rooted'
  BY <1>1, <1>2 DEF IInv, Rooted, Reach, Closure, PartsOf
<1>7. CleanupSafe'
  BY <1>1 DEF IInv, CleanupSafe, Reach, Closure, PartsOf
<1> QED BY <1>3, <1>4, <1>5, <1>6, <1>7 DEF IInv

LEMMA NextInv == IInv /\ Next => IInv'
<1> SUFFICES ASSUME IInv, Next PROVE IInv'
  OBVIOUS
<1>1. CASE Visit
  <2>1. todo # <<>>
    BY <1>1 DEF Visit
  <2> QED BY <1>1, <2>1, VisitFrees, VisitPasses
<1>2. ASSUME NEW n \in Nodes, CleanupUndefine(n) PROVE IInv'
  BY <1>2, CleanupUndefineKeeps
<1>3. ASSUME NEW n \in Nodes, CleanupDelete(n) PROVE IInv'
  BY <1>3, CleanupDeleteKeeps
<1>4. ASSUME NEW n \in Nodes, New(n) PROVE IInv'
  BY <1>4, NewKeeps
<1>5. ASSUME NEW n \in Nodes, Copy(n) PROVE IInv'
  BY <1>5, CopyKeeps
<1>6. ASSUME NEW n \in Nodes, Leaf(n) PROVE IInv'
  <2>1. <<>> \in Seq(Nodes)
    OBVIOUS
  <2> QED BY <1>6, <2>1, MadeKeeps DEF Leaf
<1>7. ASSUME NEW n \in Nodes, NEW a \in Nodes, Wrap(n, a) PROVE IInv'
  <2>1. <<a>> \in Seq(Nodes)
    OBVIOUS
  <2> QED BY <1>7, <2>1, MadeKeeps DEF Wrap
<1>8. ASSUME NEW n \in Nodes, NEW a \in Nodes, Define(n, a) PROVE IInv'
  BY <1>8, DefineKeeps
<1>9. ASSUME NEW n \in Nodes, NEW a \in Nodes, DefineUnretained(n, a) PROVE IInv'
  BY <1>9, DefineUnretainedKeeps
<1>10. ASSUME NEW n \in Nodes, NEW k \in 2..MaxParts, NEW xs \in [1..k -> Nodes], Combine(n, xs)
       PROVE  IInv'
  <2>1. k \in Nat
    BY PartsAssumption
  <2>2. xs \in Seq(Nodes)
    BY <2>1
  <2> QED BY <1>10, <2>2, MadeKeeps DEF Combine
<1>11. ASSUME NEW n \in Nodes, Undefine(n) PROVE IInv'
  BY <1>11, UndefineKeeps
<1>12. ASSUME NEW n \in Nodes, DeleteRetained(n) PROVE IInv'
  BY <1>12, DeleteRetainedKeeps
<1>13. ASSUME NEW n \in Nodes, DeleteUnretained(n) PROVE IInv'
  BY <1>13, DeleteUnretainedKeeps
<1>14. ASSUME NEW S \in SUBSET Nodes, Cleanup(S) PROVE IInv'
  BY <1>14, CleanupKeeps
<1> QED
  BY <1>1, <1>2, <1>3, <1>4, <1>5, <1>6, <1>7, <1>8, <1>9, <1>10, <1>11, <1>12, <1>13, <1>14
     DEF Next

LEMMA SpecInv == Spec => []IInv
<1>1. IInv /\ [Next]_vars => IInv'
  BY NextInv, StutterInv
<1> QED BY <1>1, InitInv, PTL DEF Spec

\* The nodes keep their types, and what the caller, the walk and a cleanup have pointers
\* to is live.
THEOREM TypeCorrect == Spec => []TypeOK
BY SpecInv, InvImplies, PTL

\* Whatever is built, copied, defined, undefined and deleted, in any order: an unretained
\* node has exactly one owner, so that none is freed twice.
THEOREM NodesHaveOneOwner == Spec => []OneOwner
BY SpecInv, InvImplies, PTL

\* No pointer that can still be followed leads to a node that has been freed.
THEOREM PointersAreLive == Spec => []NothingDangles
BY SpecInv, InvImplies, PTL

\* Nothing is forgotten but what the three operations that forget leave behind.
THEOREM NodesAreReleased == Spec => []NothingLeaks
BY SpecInv, InvImplies, PTL
=============================================================================
