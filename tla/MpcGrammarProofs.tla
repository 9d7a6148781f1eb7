--------------------------- MODULE MpcGrammarProofs ---------------------------
(* Proofs about MpcGrammar and MpcOptimise, for any arguments, texts and bounds. *)
EXTENDS MpcGrammar, Facts, FiniteSetTheorems

----------------------------------------------------------------------------
(* The invariant about nodes *)

IsNode(r) ==
    /\ r = [type |-> r.type, fold |-> r.fold, is |-> r.is, xs |-> r.xs, retained |-> r.retained]
    /\ r.xs \in Seq(Nodes) /\ r.retained \in BOOLEAN

LEMMA PartsType ==
    ASSUME NEW r, IsNode(r)
    PROVE  Len(r.xs) \in Nat /\ \A i \in 1..Len(r.xs) : r.xs[i] \in Nodes
<1>1. r.xs \in Seq(Nodes)
  BY DEF IsNode
<1> QED BY <1>1

\* The nodes in use, and those of them the compiler has a pointer to.
Kept == Live \ lost
Held == {vals[i].p : i \in 1..Len(vals)} \cup {stmts[i].p : i \in 1..Len(stmts)}
            \cup {result[i].p : i \in 1..Len(result)} \cup ({left} \ {0})

\* The arguments are what is retained.
NodesType ==
    /\ node = [n \in Nodes |-> node[n]]
    /\ \A n \in Nodes : IsNode(node[n]) /\ (node[n].retained <=> n <= Len(Args))
    /\ \A n \in 1..Len(Args) : n \in Live
    /\ lost \subseteq Unretained
    /\ known \in 0..Len(Args) + 1 /\ left \in 0..MaxNode

\* A neutral parser has no parts, and only a reference has one that is retained, or a
\* parser that was defined by one.
Kinds ==
    \A n \in Nodes :
        /\ node[n].type \in {"free", "pass", "lift"} => node[n].xs = <<>>
        /\ node[n].type # "ref" => \A i \in 1..Len(node[n].xs) : ~node[node[n].xs[i]].retained

\* No node is a part twice.
Once ==
    \A m, k \in Kept : \A i \in 1..Len(node[m].xs), j \in 1..Len(node[k].xs) :
        node[m].xs[i] = node[k].xs[j] => node[node[m].xs[i]].retained \/ (m = k /\ i = j)

\* A part is in use, and the compiler has no pointer to it.
Targets ==
    \A m \in Kept : \A i \in 1..Len(node[m].xs) :
        node[m].xs[i] \in Kept /\ (node[m].xs[i] \in Held => node[node[m].xs[i]].retained)

\* What the compiler has no pointer to is a part.
Owned ==
    \A n \in Kept \ Held :
        node[n].retained \/ \E m \in Kept : \E i \in 1..Len(node[m].xs) : node[m].xs[i] = n

Graph == NodesType /\ Kinds /\ Once /\ Targets /\ Owned

RootsType ==
    /\ \E S : vals \in Seq(S)
    /\ \E S : stmts \in Seq(S)
    /\ \E S : result \in Seq(S)
    /\ \A i \in 1..Len(vals) : vals[i] = Value(vals[i].p, vals[i].level, vals[i].as)
    /\ \A i \in 1..Len(stmts) :
          stmts[i] = [ident |-> stmts[i].ident, named |-> stmts[i].named, p |-> stmts[i].p,
                      as |-> stmts[i].as]
    /\ Held \subseteq Kept /\ Held \ {left} \subseteq Unretained

\* The compiler's pointers are to different nodes.
RootsOnce ==
    /\ \A i, j \in 1..Len(vals) : vals[i].p = vals[j].p => i = j
    /\ \A i, j \in 1..Len(stmts) : stmts[i].p = stmts[j].p => i = j
    /\ \A i \in 1..Len(vals), j \in 1..Len(stmts) : vals[i].p # stmts[j].p
    /\ \A i \in 1..Len(stmts) : stmts[i].p # left

\* What there is of parsers and rules in each phase.
Phases ==
    /\ pc \in {"text", "apply", "define", "result", "done"}
    /\ pc # "text" => vals = <<>>
    /\ pc \in {"result", "done"} => stmts = <<>> /\ Len(result) <= 1
    /\ pc \notin {"result", "done"} => result = <<>>
    /\ pc = "result" => Len(result) = 1
    /\ pc = "define" <=> left # 0
    /\ pc = "define" => stmts # <<>>
    /\ walk # <<>> => pc \in {"result", "define"}
    /\ compiler # "lang" => stmts = <<>>
    /\ left # 0 /\ ~node[left].retained => node[left].xs = <<>>

----------------------------------------------------------------------------
(* Nodes *)

LEMMA PartsAre == \A n : PartsOf(n) = {node[n].xs[i] : i \in DOMAIN node[n].xs}
BY DEF PartsOf, ToSet

LEMMA NodeNumbers ==
    /\ MaxNode \in Nat /\ Nodes \subseteq Nat \ {0} /\ IsFiniteSet(Nodes)
    /\ Len(Args) \in Nat /\ 1..Len(Args) \subseteq Nodes /\ Len(Args) < MaxNode
<1>1. MaxNode \in Nat /\ Len(Args) \in Nat /\ Len(Args) + 2 <= MaxNode
  BY MaxNodeAssumption, ArgsAssumption
<1>2. IsFiniteSet(Nodes)
  BY <1>1, FS_Interval DEF Nodes
<1>3. Nodes \subseteq Nat \ {0} /\ 1..Len(Args) \subseteq Nodes /\ Len(Args) < MaxNode
  BY <1>1 DEF Nodes
<1> QED BY <1>1, <1>2, <1>3

\* The nodes that are allocated one after the other are different and were free.
LEMMA NewFacts ==
    ASSUME NEW k \in Nat, HasRoom(k)
    PROVE  /\ \A i \in 1..k : New(i) \in Unused
           /\ \A i, j \in 1..k : New(i) = New(j) => i = j
<1> DEFINE U == Unused
           c == Cardinality(U)
           Below(n) == {m \in U : m < n}
           rank == [n \in U |-> Cardinality(Below(n))]
<1>1. IsFiniteSet(U) /\ c \in Nat /\ U \subseteq Nat /\ k <= c
  BY NodeNumbers, FS_Subset, FS_CardinalityType DEF Unused, HasRoom
<1>2. \A n \in U : IsFiniteSet(Below(n)) /\ Cardinality(Below(n)) \in 0..c - 1
  <2> SUFFICES ASSUME NEW n \in U PROVE IsFiniteSet(Below(n)) /\ Cardinality(Below(n)) \in 0..c - 1
    OBVIOUS
  <2>1. IsFiniteSet(U \ {n}) /\ Cardinality(U \ {n}) = c - 1
    BY <1>1, FS_RemoveElement
  <2>2. Below(n) \subseteq U \ {n}
    BY <1>1
  <2>3. IsFiniteSet(Below(n)) /\ Cardinality(Below(n)) <= c - 1
    BY <2>1, <2>2, FS_Subset
  <2>4. Cardinality(Below(n)) \in Nat
    BY <2>3, FS_CardinalityType
  <2> HIDE DEF Below, U, c
  <2> QED BY <1>1, <2>3, <2>4
<1>3. \A m, n \in U : m < n => Cardinality(Below(m)) < Cardinality(Below(n))
  <2> SUFFICES ASSUME NEW m \in U, NEW n \in U, m < n
               PROVE  Cardinality(Below(m)) < Cardinality(Below(n))
    OBVIOUS
  <2> HIDE DEF U
  <2>1. Below(m) \subseteq Below(n) /\ m \in Below(n) /\ m \notin Below(m)
    <3>1. m \in Nat /\ n \in Nat /\ ~(m < m)
      BY <1>1
    <3>2. \A x \in U : x < m => x < n
      BY <1>1, <3>1
    <3> QED BY <3>1, <3>2
  <2> HIDE DEF Below
  <2>2. Below(m) \subseteq Below(n) \ {m}
    BY <2>1
  <2>3. /\ IsFiniteSet(Below(n) \ {m})
        /\ Cardinality(Below(n) \ {m}) = Cardinality(Below(n)) - 1
    BY <1>2, <2>1, FS_RemoveElement
  <2>4. Cardinality(Below(m)) <= Cardinality(Below(n)) - 1
    BY <2>2, <2>3, FS_Subset
  <2> QED BY <1>2, <2>4
<1>4. rank \in [U -> 0..c - 1]
  BY <1>2
<1>5. \A m, n \in U : rank[m] = rank[n] => m = n
  <2> HIDE DEF Below
  <2> SUFFICES ASSUME NEW m \in U, NEW n \in U, rank[m] = rank[n], m # n PROVE FALSE
    OBVIOUS
  <2>1. Cardinality(Below(m)) = Cardinality(Below(n))
    OBVIOUS
  <2>2. m < n \/ n < m
    BY <1>1
  <2> QED BY <1>2, <1>3, <2>1, <2>2
<1>6. rank \in Surjection(U, 0..c - 1)
  <2> HIDE DEF rank
  <2>1. rank \in Injection(U, 0..c - 1)
    BY <1>4, <1>5 DEF Injection, IsInjective
  <2> HIDE DEF c
  <2>2. IsFiniteSet(0..c - 1) /\ Cardinality(0..c - 1) = c
    <3>1. 0 \in Int /\ c - 1 \in Int
      BY <1>1
    <3>2. /\ IsFiniteSet(0..c - 1)
          /\ Cardinality(0..c - 1) = IF 0 > c - 1 THEN 0 ELSE (c - 1) - 0 + 1
      BY <3>1, FS_Interval
    <3> QED BY <1>1, <3>2
  <2> QED BY <2>1, <2>2, FS_Injection DEF c
<1>7. ASSUME NEW i \in 1..k
      PROVE  New(i) \in U /\ Cardinality(Below(New(i))) = i - 1
  <2>1. i - 1 \in 0..c - 1
    BY <1>1
  <2>2. PICK n \in U : rank[n] = i - 1
    BY <1>6, <2>1 DEF Surjection
  <2>3. \E m \in U : Cardinality(Below(m)) = i - 1
    BY <2>2
  <2> QED BY <2>3 DEF New
<1> HIDE DEF Below, U
<1> QED BY <1>7 DEF U

----------------------------------------------------------------------------
(* What belongs to a set of nodes *)

LEMMA TreesHold ==
    ASSUME NEW S
    PROVE  /\ Trees(S) \subseteq Unretained /\ S \cap Unretained \subseteq Trees(S)
           /\ \A n \in Trees(S) : PartsOf(n) \cap Unretained \subseteq Trees(S)
<1>1. Trees(S) \subseteq Unretained /\ S \cap Unretained \subseteq Trees(S)
  BY DEF Trees
<1>2. ASSUME NEW n \in Trees(S), NEW m \in PartsOf(n) \cap Unretained, m \notin Trees(S)
      PROVE  FALSE
  <2>1. PICK T \in SUBSET (Unretained \ S) :
           m \in T /\ \A k \in Unretained \ T : PartsOf(k) \cap T = {}
    BY <1>2 DEF Trees
  <2>2. n \notin T
    BY <2>1 DEF Trees
  <2> QED BY <1>1, <1>2, <2>1, <2>2
<1> QED BY <1>1, <1>2

LEMMA TreesBack ==
    ASSUME NEW S, NEW n \in Trees(S), n \notin S
    PROVE  \E m \in Trees(S) : n \in PartsOf(m)
<1> SUFFICES ASSUME \A m \in Trees(S) : n \notin PartsOf(m) PROVE FALSE
  OBVIOUS
<1> DEFINE T == (Unretained \ Trees(S)) \cup {n}
<1>1. T \in SUBSET (Unretained \ S)
  BY TreesHold
<1>2. \A k \in Unretained \ T : PartsOf(k) \cap T = {}
  BY TreesHold
<1> HIDE DEF T
<1>3. n \notin Trees(S)
  <2>1. n \in T
    BY DEF T
  <2> QED BY <1>1, <1>2, <2>1 DEF Trees
<1> QED BY <1>3

LEMMA TreesLeast ==
    ASSUME NEW S, NEW D, S \cap Unretained \subseteq D,
           \A n \in D \cap Unretained : PartsOf(n) \cap Unretained \subseteq D
    PROVE  Trees(S) \subseteq D
<1> DEFINE T == Unretained \ D
<1>1. T \in SUBSET (Unretained \ S) /\ \A k \in Unretained \ T : PartsOf(k) \cap T = {}
  OBVIOUS
<1> QED BY <1>1 DEF Trees
----------------------------------------------------------------------------
(* Steps that allocate *)

Given == 1..Len(Args)

\* New parts of a new node are nodes the compiler had a pointer to, other new nodes, or
\* arguments; to each the compiler keeps its pointer or gives it to one of the new nodes.
Built(F) ==
    LET taken == ((Held \cup F) \ Held') \ Given
    IN  /\ F \subseteq Unused
        /\ node' = [n \in Nodes |-> node'[n]] /\ \A n \in Nodes \ F : node'[n] = node[n]
        /\ \A f \in F :
              /\ IsNode(node'[f]) /\ node'[f].type # "free" /\ ~node'[f].retained
              /\ node'[f].type \in {"pass", "lift"} => node'[f].xs = <<>>
              /\ \A i \in 1..Len(node'[f].xs) :
                    \/ node'[f].xs[i] \in taken
                    \/ node'[f].type = "ref" /\ node'[f].xs[i] \in Given
        /\ \A f, g \in F : \A i \in 1..Len(node'[f].xs), j \in 1..Len(node'[g].xs) :
              node'[f].xs[i] = node'[g].xs[j] => node'[f].xs[i] \in Given \/ (f = g /\ i = j)
        /\ \A n \in taken : \E f \in F : \E i \in 1..Len(node'[f].xs) : node'[f].xs[i] = n
        /\ Held' \subseteq Held \cup F \cup Given
        /\ lost' = lost /\ known' \in 0..Len(Args) + 1 /\ left' \in 0..MaxNode

LEMMA RetainedAre ==
    NodesType => \A n \in Nodes : node[n].retained <=> n \in Given
<1> SUFFICES ASSUME NodesType, NEW n \in Nodes PROVE node[n].retained <=> n \in Given
  OBVIOUS
<1>1. n \in Nat \ {0} /\ Len(Args) \in Nat /\ (node[n].retained <=> n <= Len(Args))
  BY NodeNumbers DEF NodesType
<1>2. n \in Given <=> n <= Len(Args)
  BY <1>1 DEF Given
<1> QED BY <1>1, <1>2

LEMMA GraphGrows ==
    ASSUME Graph, Held \subseteq Kept, NEW F, Built(F)
    PROVE  Graph'
<1> DEFINE taken == ((Held \cup F) \ Held') \ Given
<1>1. /\ \A n \in Nodes : node[n].retained <=> n \in Given
      /\ Given \subseteq Nodes /\ Len(Args) \in Nat /\ Nodes \subseteq Nat
  BY RetainedAre, NodeNumbers DEF Graph, Given
<1>2. Given \subseteq Kept /\ Kept \cap F = {} /\ Kept \subseteq Nodes /\ F \subseteq Nodes
  BY <1>1 DEF Graph, NodesType, Kept, Live, Built, Unused, Unretained, Given
<1>3. /\ \A n \in Nodes \ F : node'[n] = node[n]
      /\ \A f \in F : node'[f].type # "free" /\ ~node'[f].retained /\ IsNode(node'[f])
  BY DEF Built
<1>4. lost' = lost /\ lost \subseteq Unretained /\ Unretained \subseteq Live
  BY DEF Built, Graph, NodesType, Unretained
<1>5. Kept' = Kept \cup F
  BY <1>2, <1>3, <1>4 DEF Kept, Live, Built, Unused
<1>6. \A n \in Nodes : node'[n].retained <=> n \in Given
  BY <1>1, <1>2, <1>3
<1>7. NodesType'
  <2>1. \A n \in Nodes : IsNode(node'[n]) /\ (node'[n].retained <=> n <= Len(Args))
    <3> SUFFICES ASSUME NEW n \in Nodes
                 PROVE  IsNode(node'[n]) /\ (node'[n].retained <=> n <= Len(Args))
      OBVIOUS
    <3>1. CASE n \notin F
      BY <1>3, <3>1 DEF Graph, NodesType
    <3>2. CASE n \in F
      <4>1. ~node[n].retained
        BY <1>2, <1>1, <3>2
      <4>2. node[n].retained <=> n <= Len(Args)
        BY DEF Graph, NodesType
      <4>3. node'[n].retained \in BOOLEAN
        BY <1>3, <3>2 DEF IsNode
      <4> QED BY <1>3, <3>2, <4>1, <4>2, <4>3
    <3> QED BY <3>1, <3>2
  <2>2. \A n \in 1..Len(Args) : n \in Live'
    BY <1>2, <1>5 DEF Kept, Given
  <2>3. lost' \subseteq Unretained'
    BY <1>2, <1>3, <1>4 DEF Unretained, Live, Built, Unused
  <2> QED BY <2>1, <2>2, <2>3 DEF NodesType, Built
<1>8. Kinds'
  <2> SUFFICES ASSUME NEW n \in Nodes
               PROVE  /\ node'[n].type \in {"free", "pass", "lift"} => node'[n].xs = <<>>
                      /\ node'[n].type # "ref" =>
                            \A i \in 1..Len(node'[n].xs) : ~node'[node'[n].xs[i]].retained
    BY DEF Kinds
  <2>1. CASE n \notin F
    <3>1. node'[n] = node[n]
      BY <1>3, <2>1
    <3>2. ASSUME NEW i \in 1..Len(node[n].xs) PROVE node[n].xs[i] \in Nodes
      BY PartsType DEF Graph, NodesType
    <3> QED BY <3>1, <3>2, <1>1, <1>6 DEF Graph, Kinds
  <2>2. CASE n \in F
    <3>1. taken \cap Given = {}
      OBVIOUS
    <3>2. ASSUME NEW i \in 1..Len(node'[n].xs) PROVE node'[n].xs[i] \in Nodes
      BY <1>3, <2>2, PartsType
    <3> QED BY <2>2, <3>1, <3>2, <1>6 DEF Built
  <2> QED BY <2>1, <2>2
<1>9. \A m \in Kept : node'[m] = node[m]
  BY <1>2, <1>3
<1>10. taken \subseteq Kept' /\ taken \cap Given = {} /\ taken \cap Held' = {}
       /\ \A n \in taken : n \in Held \/ n \in F
  BY <1>5
<1>11. ASSUME NEW f \in F, NEW i \in 1..Len(node'[f].xs)
       PROVE  node'[f].xs[i] \in taken \/ node'[f].xs[i] \in Given
  BY DEF Built
<1>12. ASSUME NEW m \in Kept, NEW i \in 1..Len(node[m].xs)
       PROVE  node[m].xs[i] \in Kept /\ (node[m].xs[i] \in Held => node[m].xs[i] \in Given)
  BY <1>1, <1>2 DEF Graph, Targets
<1>13. \A n \in taken : \E f \in F : \E i \in 1..Len(node'[f].xs) : node'[f].xs[i] = n
  BY DEF Built
<1> HIDE DEF taken
<1>14. Once'
  <2> SUFFICES ASSUME NEW m \in Kept \cup F, NEW k \in Kept \cup F,
                      NEW i \in 1..Len(node'[m].xs), NEW j \in 1..Len(node'[k].xs),
                      node'[m].xs[i] = node'[k].xs[j]
               PROVE  node'[node'[m].xs[i]].retained \/ (m = k /\ i = j)
    BY <1>5 DEF Once
  <2>1. node'[m].xs[i] \in Nodes
    <3>1. IsNode(node'[m])
      BY <1>2, <1>7 DEF NodesType
    <3> QED BY <3>1, PartsType
  <2>2. SUFFICES node'[m].xs[i] \in Given \/ (m = k /\ i = j)
    BY <2>1, <1>6
  <2>3. CASE m \in Kept /\ k \in Kept
    <3>1. node[node[m].xs[i]].retained \/ (m = k /\ i = j)
      <4>1. i \in 1..Len(node[m].xs) /\ j \in 1..Len(node[k].xs) /\ node[m].xs[i] = node[k].xs[j]
        BY <1>9, <2>3
      <4> QED BY <2>3, <4>1, SMTT(20), ZenonT(40) DEF Graph, Once
    <3> QED BY <1>1, <1>9, <2>1, <2>3, <3>1
  <2>4. CASE m \in Kept /\ k \in F
    BY <1>2, <1>9, <1>10, <1>11, <1>12, <2>4
  <2>5. CASE m \in F /\ k \in Kept
    BY <1>2, <1>9, <1>10, <1>11, <1>12, <2>5
  <2>6. CASE m \in F /\ k \in F
    BY <2>6, SMTT(20), ZenonT(40) DEF Built
  <2> QED BY <2>3, <2>4, <2>5, <2>6
<1>15. Targets'
  <2> SUFFICES ASSUME NEW m \in Kept \cup F, NEW i \in 1..Len(node'[m].xs)
               PROVE  /\ node'[m].xs[i] \in Kept \cup F
                      /\ node'[m].xs[i] \in Held' => node'[node'[m].xs[i]].retained
    BY <1>5 DEF Targets
  <2>1. CASE m \in F
    BY <1>2, <1>5, <1>6, <1>10, <1>11, <2>1
  <2>2. CASE m \in Kept
    <3>1. node[m].xs[i] \in Kept /\ (node[m].xs[i] \in Held => node[m].xs[i] \in Given)
      BY <1>9, <1>12, <2>2
    <3>2. Held' \subseteq Held \cup F \cup Given
      BY DEF Built
    <3> QED BY <1>2, <1>6, <1>9, <2>2, <3>1, <3>2
  <2> QED BY <2>1, <2>2
<1>16. Owned'
  <2> SUFFICES ASSUME NEW n \in (Kept \cup F) \ Held', n \notin Given
               PROVE  \E m \in Kept \cup F : \E i \in 1..Len(node'[m].xs) : node'[m].xs[i] = n
    BY <1>2, <1>5, <1>6 DEF Owned
  <2>1. CASE n \in Held \/ n \in F
    BY <1>13, <2>1 DEF taken
  <2>2. CASE n \in Kept /\ n \notin Held
    BY <1>1, <1>2, <1>9, <2>2 DEF Graph, Owned
  <2> QED BY <2>1, <2>2
<1> QED BY <1>7, <1>8, <1>14, <1>15, <1>16 DEF Graph
----------------------------------------------------------------------------
(* Folds *)

Roots == RootsType /\ RootsOnce /\ Phases
Sound == Graph /\ Roots

\* The last values are replaced by another one.
LEMMA Replaced ==
    ASSUME NEW S, NEW s \in Seq(S), NEW m \in 0..Len(s), NEW v
    PROVE  /\ Append(SubSeq(s, 1, m), v) \in Seq(S \cup {v})
           /\ Len(Append(SubSeq(s, 1, m), v)) = m + 1
           /\ Append(SubSeq(s, 1, m), v)[m + 1] = v
           /\ \A i \in 1..m : Append(SubSeq(s, 1, m), v)[i] = s[i]
<1> DEFINE t == SubSeq(s, 1, m)
<1>1. t \in Seq(S) /\ Len(t) = m /\ \A i \in 1..m : t[i] = s[i]
  <2>1. 0 \in Nat /\ m \in Nat /\ 0 <= m /\ m <= Len(s) /\ 0 + 1 = 1 /\ m - 0 = m
    OBVIOUS
  <2>2. \A i \in 1..m : 0 + i = i
    OBVIOUS
  <2> QED BY <2>1, <2>2, StretchFacts
<1> HIDE DEF t
<1>2. t \in Seq(S \cup {v}) /\ v \in S \cup {v}
  BY <1>1, SeqMonotonic
<1>3. /\ Append(t, v) \in Seq(S \cup {v}) /\ Len(Append(t, v)) = m + 1
      /\ Append(t, v)[m + 1] = v /\ \A i \in 1..m : Append(t, v)[i] = t[i]
  BY <1>1, <1>2, AppendProperties
<1> QED BY <1>1, <1>3 DEF t

\* The pointers while a text is read.
LEMMA TextFacts ==
    ASSUME Sound, Text
    PROVE  /\ result = <<>> /\ left = 0
           /\ Len(vals) \in Nat /\ Len(stmts) \in Nat
           /\ Held = {vals[i].p : i \in 1..Len(vals)} \cup {stmts[i].p : i \in 1..Len(stmts)}
           /\ Held \subseteq Kept \cap Unretained /\ Held \cap Given = {}
<1>1. result = <<>> /\ left = 0
  BY DEF Sound, Roots, Phases, Text
<1>2. Len(vals) \in Nat /\ Len(stmts) \in Nat
  BY DEF Sound, Roots, RootsType
<1>3. {result[i].p : i \in 1..Len(result)} = {} /\ {left} \ {0} = {}
  BY <1>1
<1>4. Held = {vals[i].p : i \in 1..Len(vals)} \cup {stmts[i].p : i \in 1..Len(stmts)}
  BY <1>3 DEF Held
<1>5. 0 \notin Held
  BY NodeNumbers DEF Sound, Roots, RootsType, Kept, Live
<1>6. Held \subseteq Kept \cap Unretained
  BY <1>1, <1>5 DEF Sound, Roots, RootsType
<1>7. Held \cap Given = {}
  BY <1>6, RetainedAre DEF Sound, Graph, Unretained, Live
<1> QED BY <1>1, <1>2, <1>4, <1>6, <1>7

\* A fold over the last k values: its nodes F, one of which is the new value, have these
\* and each other as parts.
Folded(k, F, top, level, as) ==
    /\ Text /\ k \in 0..Len(vals) /\ top \in F /\ F \subseteq Unused
    /\ node' = [n \in Nodes |-> node'[n]] /\ \A n \in Nodes \ F : node'[n] = node[n]
    /\ \A f \in F :
          /\ IsNode(node'[f]) /\ node'[f].type # "free" /\ ~node'[f].retained
          /\ node'[f].type \in {"pass", "lift"} => node'[f].xs = <<>>
          /\ \A i \in 1..Len(node'[f].xs) :
                \/ node'[f].xs[i] \in F \ {top}
                \/ \E j \in Len(vals) - k + 1..Len(vals) : node'[f].xs[i] = vals[j].p
                \/ node'[f].type = "ref" /\ node'[f].xs[i] \in Given
    /\ \A f, g \in F : \A i \in 1..Len(node'[f].xs), j \in 1..Len(node'[g].xs) :
          node'[f].xs[i] = node'[g].xs[j] => node'[f].xs[i] \in Given \/ (f = g /\ i = j)
    /\ \A n \in F \ {top} : \E f \in F : \E i \in 1..Len(node'[f].xs) : node'[f].xs[i] = n
    /\ \A j \in Len(vals) - k + 1..Len(vals) :
          \E f \in F : \E i \in 1..Len(node'[f].xs) : node'[f].xs[i] = vals[j].p
    /\ vals' = Append(Others(k), Value(top, level, as))
    /\ known' \in 0..Len(Args) + 1
    /\ UNCHANGED stmts /\ Same

LEMMA FoldKeeps ==
    ASSUME Sound, NEW k, NEW F, NEW top, NEW level, NEW as, Folded(k, F, top, level, as)
    PROVE  Sound'
<1> DEFINE l == Len(vals) - k
<1>1. /\ result = <<>> /\ left = 0 /\ Len(vals) \in Nat /\ Len(stmts) \in Nat
      /\ Held = {vals[i].p : i \in 1..Len(vals)} \cup {stmts[i].p : i \in 1..Len(stmts)}
      /\ Held \subseteq Kept \cap Unretained /\ Held \cap Given = {}
  BY TextFacts DEF Folded
<1>2. k \in Nat /\ l \in 0..Len(vals) /\ l + k = Len(vals)
  BY <1>1 DEF Folded
<1>3. /\ \E S : vals' \in Seq(S)
      /\ Len(vals') = l + 1 /\ vals'[l + 1] = Value(top, level, as)
      /\ \A i \in 1..l : vals'[i] = vals[i]
  <2>1. PICK S : vals \in Seq(S)
    BY DEF Sound, Roots, RootsType
  <2>2. vals' = Append(SubSeq(vals, 1, l), Value(top, level, as))
    BY DEF Folded, Others
  <2> HIDE DEF l
  <2> DEFINE v == Value(top, level, as)
             t == Append(SubSeq(vals, 1, l), v)
  <2>3. vals' = t
    BY <2>2
  <2> HIDE DEF v
  <2>4. t \in Seq(S \cup {v}) /\ Len(t) = l + 1 /\ t[l + 1] = v /\ \A i \in 1..l : t[i] = vals[i]
    BY <1>2, <2>1, Replaced
  <2> HIDE DEF t
  <2> QED BY <2>3, <2>4 DEF v
<1>4. UNCHANGED <<stmts, result, left, lost, walk, pc, compiler>>
  BY DEF Folded, Same
<1>5. Held' = {vals[i].p : i \in 1..l} \cup {top} \cup {stmts[i].p : i \in 1..Len(stmts)}
  <2>1. Held' = {vals'[i].p : i \in 1..Len(vals')} \cup {stmts[i].p : i \in 1..Len(stmts)}
    <3>1. {result'[i].p : i \in 1..Len(result')} = {} /\ {left'} \ {0} = {}
      BY <1>1, <1>4
    <3> QED BY <3>1, <1>4 DEF Held
  <2>2. {vals'[i].p : i \in 1..Len(vals')} = {vals[i].p : i \in 1..l} \cup {top}
    <3>1. 1..Len(vals') = (1..l) \cup {l + 1}
      BY <1>2, <1>3
    <3>2. Value(top, level, as).p = top
      BY DEF Value
    <3> HIDE DEF l
    <3> QED BY <1>3, <3>1, <3>2, ZenonT(30)
  <2> QED BY <2>1, <2>2
<1>6. /\ F \cap Held = {} /\ F \cap Given = {} /\ F \subseteq Nodes /\ top \in F /\ F \cap Kept = {}
  <2>1. F \cap Live = {} /\ F \subseteq Nodes /\ Given \subseteq Live
    BY DEF Folded, Unused, Sound, Graph, NodesType, Given
  <2> QED BY <1>1, <2>1 DEF Kept, Folded
<1>7. ((Held \cup F) \ Held') \ Given = {vals[j].p : j \in l + 1..Len(vals)} \cup (F \ {top})
  <2>1. 1..Len(vals) = (1..l) \cup (l + 1..Len(vals)) /\ (1..l) \cap (l + 1..Len(vals)) = {}
    BY <1>1, <1>2
  <2>2. \A j \in l + 1..Len(vals) : vals[j].p \in Held /\ vals[j].p \notin Held'
    <3> HIDE DEF l
    <3> SUFFICES ASSUME NEW j \in l + 1..Len(vals)
                 PROVE  vals[j].p \in Held /\ vals[j].p \notin Held'
      OBVIOUS
    <3>1. j \in 1..Len(vals) /\ j \notin 1..l
      BY <2>1
    <3>2. vals[j].p \in Held
      BY <1>1, <3>1
    <3>3. \A i \in 1..l : vals[i].p # vals[j].p
      BY <2>1, <3>1 DEF Sound, Roots, RootsOnce
    <3>4. \A i \in 1..Len(stmts) : stmts[i].p # vals[j].p
      BY <3>1 DEF Sound, Roots, RootsOnce
    <3> QED BY <1>5, <1>6, <3>2, <3>3, <3>4
  <2>3. \A n \in Held \ Held' : \E j \in l + 1..Len(vals) : n = vals[j].p
    <3> HIDE DEF l
    <3> QED BY <1>1, <1>5, <2>1
  <2>4. \A n \in F : n \in Held' <=> n = top
    <3> HIDE DEF l
    <3>1. \A i \in 1..l : vals[i].p \in Held
      BY <1>1, <2>1
    <3>2. \A i \in 1..Len(stmts) : stmts[i].p \in Held
      BY <1>1
    <3> QED BY <1>5, <1>6, <3>1, <3>2
  <2> HIDE DEF l
  <2> QED BY <1>1, <1>6, <2>2, <2>3, <2>4
<1>8. Built(F)
  <2> DEFINE taken == {vals[j].p : j \in l + 1..Len(vals)} \cup (F \ {top})
  <2>1. \A f \in F : \A i \in 1..Len(node'[f].xs) :
           \/ node'[f].xs[i] \in taken
           \/ node'[f].type = "ref" /\ node'[f].xs[i] \in Given
    BY DEF Folded
  <2>2. \A n \in taken : \E f \in F : \E i \in 1..Len(node'[f].xs) : node'[f].xs[i] = n
    <3>1. ASSUME NEW j \in l + 1..Len(vals)
          PROVE  \E f \in F : \E i \in 1..Len(node'[f].xs) : node'[f].xs[i] = vals[j].p
      BY DEF Folded
    <3>2. ASSUME NEW n \in F \ {top}
          PROVE  \E f \in F : \E i \in 1..Len(node'[f].xs) : node'[f].xs[i] = n
      BY DEF Folded
    <3> QED BY <3>1, <3>2
  <2>3. Held' \subseteq Held \cup F \cup Given
    <3>1. 1..l \subseteq 1..Len(vals)
      BY <1>1, <1>2
    <3> HIDE DEF l
    <3> QED BY <1>1, <1>5, <1>6, <3>1
  <2>4. left' \in 0..MaxNode
    BY <1>1, <1>4, NodeNumbers
  <2>5. ((Held \cup F) \ Held') \ Given = taken
    BY <1>7
  <2> HIDE DEF taken
  <2> QED BY <1>4, <2>1, <2>2, <2>3, <2>4, <2>5 DEF Built, Folded
<1>9. Graph'
  BY <1>1, <1>8, GraphGrows DEF Sound
<1>10. \A i \in 1..Len(vals') : i \in 1..l \/ i = l + 1
  BY <1>2, <1>3
<1>11. 1..l \subseteq 1..Len(vals)
  BY <1>1, <1>2
<1>12. top \notin Held
  BY <1>6
<1> HIDE DEF l
<1>13. RootsType'
  <2>1. \A i \in 1..Len(vals') : vals'[i] = Value(vals'[i].p, vals'[i].level, vals'[i].as)
    BY <1>3, <1>10, <1>11 DEF Value, Sound, Roots, RootsType
  <2>2. Held' \subseteq Kept' \cap Unretained'
    <3>1. \A n \in Nodes \ F : node'[n] = node[n]
      BY DEF Folded
    <3>2. \A n \in F : node'[n].type # "free" /\ ~node'[n].retained
      BY DEF Folded
    <3>3. Held' \subseteq Held \cup {top}
      BY <1>1, <1>5, <1>11
    <3>4. top \notin lost
      BY <1>6 DEF Sound, Graph, NodesType, Unretained, Folded, Unused
    <3> QED BY <1>1, <1>4, <1>6, <3>1, <3>2, <3>3, <3>4 DEF Kept, Live, Unretained
  <2> QED BY <1>3, <1>4, <2>1, <2>2 DEF RootsType, Sound, Roots
<1>14. RootsOnce'
  <2>1. \A i \in 1..Len(vals') :
           \/ i \in 1..l /\ vals'[i].p = vals[i].p /\ i \in 1..Len(vals)
           \/ i = l + 1 /\ vals'[i].p = top
    BY <1>3, <1>10, <1>11 DEF Value
  <2>2. \A i \in 1..Len(vals) : vals[i].p # top
    BY <1>1, <1>12
  <2>3. \A i \in 1..Len(stmts) : stmts[i].p # top
    BY <1>1, <1>12
  <2>4. RootsOnce
    BY DEF Sound, Roots
  <2>5. \A i, j \in 1..Len(vals') : vals'[i].p = vals'[j].p => i = j
    BY <2>1, <2>2, <2>4 DEF RootsOnce
  <2>6. \A i \in 1..Len(vals'), j \in 1..Len(stmts) : vals'[i].p # stmts[j].p
    BY <2>1, <2>3, <2>4 DEF RootsOnce
  <2> QED BY <1>4, <2>4, <2>5, <2>6 DEF RootsOnce
<1>15. Phases'
  BY <1>1, <1>4 DEF Phases, Sound, Roots, Text, Folded
<1> QED BY <1>9, <1>13, <1>14, <1>15 DEF Sound, Roots
LEMMA NodeIs ==
    ASSUME NEW type, NEW fold, NEW is, NEW xs \in Seq(Nodes)
    PROVE  /\ IsNode(Node(type, fold, is, xs))
           /\ Node(type, fold, is, xs).type = type /\ Node(type, fold, is, xs).xs = xs
           /\ Node(type, fold, is, xs).fold = fold /\ ~Node(type, fold, is, xs).retained
BY DEF Node, IsNode

\* A fold that makes one node, of the values it takes or of an argument.
LEMMA OneNodeFolds ==
    ASSUME Sound, Text, HasRoom(1), NEW k \in 0..Len(vals),
           NEW type, NEW fold, NEW is, NEW xs \in Seq(Nodes), NEW level, NEW as,
           type \notin {"free", "pass", "lift"},
           \/ Len(xs) = k /\ \A i \in 1..k : xs[i] = vals[Len(vals) - k + i].p
           \/ k = 0 /\ type = "ref" /\ Len(xs) = 1 /\ xs[1] \in Given,
           node' = [node EXCEPT ![New(1)] = Node(type, fold, is, xs)],
           vals' = Append(Others(k), Value(New(1), level, as)),
           known' \in 0..Len(Args) + 1, UNCHANGED stmts, Same
    PROVE  Sound'
<1> DEFINE top == New(1)
           F == {top}
<1>1. top \in Unused /\ F \subseteq Unused /\ top \in Nodes
  BY NewFacts DEF Unused
<1>2. /\ DOMAIN node = Nodes /\ node' = [n \in Nodes |-> node'[n]]
      /\ \A n \in Nodes \ F : node'[n] = node[n]
      /\ node'[top] = Node(type, fold, is, xs)
  BY <1>1 DEF Sound, Graph, NodesType
<1>3. IsNode(node'[top]) /\ node'[top].type = type /\ node'[top].xs = xs /\ ~node'[top].retained
  BY <1>2, NodeIs
<1>4. Len(vals) \in Nat /\ k \in Nat /\ k <= Len(vals) /\ Len(xs) \in Nat
  BY TextFacts
<1>5. /\ \A i \in 1..Len(xs) : \/ \E j \in Len(vals) - k + 1..Len(vals) : xs[i] = vals[j].p
                               \/ type = "ref" /\ xs[i] \in Given
      /\ \A i, j \in 1..Len(xs) : xs[i] = xs[j] => xs[i] \in Given \/ i = j
      /\ \A j \in Len(vals) - k + 1..Len(vals) : \E i \in 1..Len(xs) : xs[i] = vals[j].p
  <2>1. CASE Len(xs) = k /\ \A i \in 1..k : xs[i] = vals[Len(vals) - k + i].p
    <3>1. \A i \in 1..k : Len(vals) - k + i \in Len(vals) - k + 1..Len(vals)
      BY <1>4
    <3>2. \A j \in Len(vals) - k + 1..Len(vals) :
             j - (Len(vals) - k) \in 1..k /\ Len(vals) - k + (j - (Len(vals) - k)) = j
      BY <1>4
    <3>3. \A i, j \in 1..k : vals[Len(vals) - k + i].p = vals[Len(vals) - k + j].p => i = j
      <4>1. \A i \in 1..k : Len(vals) - k + i \in 1..Len(vals)
        BY <1>4
      <4>2. \A i, j \in 1..k : Len(vals) - k + i = Len(vals) - k + j => i = j
        BY <1>4
      <4> QED BY <4>1, <4>2 DEF Sound, Roots, RootsOnce
    <3>4. \A j \in Len(vals) - k + 1..Len(vals) : xs[j - (Len(vals) - k)] = vals[j].p
      BY <2>1, <3>2
    <3>5. \A i \in 1..Len(xs) : \E j \in Len(vals) - k + 1..Len(vals) : xs[i] = vals[j].p
      BY <2>1, <3>1
    <3>6. \A i, j \in 1..Len(xs) : xs[i] = xs[j] => i = j
      <4> SUFFICES ASSUME NEW i \in 1..k, NEW j \in 1..k, xs[i] = xs[j] PROVE i = j
        BY <2>1
      <4>1. vals[Len(vals) - k + i].p = vals[Len(vals) - k + j].p
        BY <2>1
      <4> QED BY <3>3, <4>1
    <3>7. \A j \in Len(vals) - k + 1..Len(vals) : \E i \in 1..Len(xs) : xs[i] = vals[j].p
      BY <2>1, <3>2, <3>4
    <3> QED BY <3>5, <3>6, <3>7
  <2>2. CASE k = 0 /\ type = "ref" /\ Len(xs) = 1 /\ xs[1] \in Given
    BY <1>4, <2>2
  <2> QED BY <2>1, <2>2
<1>6. Folded(k, F, top, level, as)
  <2>1. vals' = Append(Others(k), Value(top, level, as))
    OBVIOUS
  <2> HIDE DEF top
  <2>2. \A f \in F : f = top
    OBVIOUS
  <2>3. \A f \in F :
          /\ IsNode(node'[f]) /\ node'[f].type # "free" /\ ~node'[f].retained
          /\ node'[f].type \in {"pass", "lift"} => node'[f].xs = <<>>
    BY <1>3, <2>2
  <2>4. \A f \in F : \A i \in 1..Len(node'[f].xs) :
          \/ \E j \in Len(vals) - k + 1..Len(vals) : node'[f].xs[i] = vals[j].p
          \/ node'[f].type = "ref" /\ node'[f].xs[i] \in Given
    BY <1>3, <1>5, <2>2
  <2>5. \A f, g \in F : \A i \in 1..Len(node'[f].xs), j \in 1..Len(node'[g].xs) :
          node'[f].xs[i] = node'[g].xs[j] => node'[f].xs[i] \in Given \/ (f = g /\ i = j)
    <3> SUFFICES ASSUME NEW f \in F, NEW g \in F, NEW i \in 1..Len(node'[f].xs),
                        NEW j \in 1..Len(node'[g].xs), node'[f].xs[i] = node'[g].xs[j]
                 PROVE  node'[f].xs[i] \in Given \/ (f = g /\ i = j)
      OBVIOUS
    <3>1. f = top /\ g = top
      BY <2>2
    <3> QED BY <1>3, <1>5, <3>1
  <2>6. \A j \in Len(vals) - k + 1..Len(vals) :
          \E f \in F : \E i \in 1..Len(node'[f].xs) : node'[f].xs[i] = vals[j].p
    BY <1>3, <1>5
  <2>7. F \ {top} = {} /\ top \in F
    OBVIOUS
  <2> HIDE DEF F
  <2> QED BY <1>1, <1>2, <2>1, <2>3, <2>4, <2>5, <2>6, <2>7 DEF Folded
<1> HIDE DEF F, top
<1> QED BY <1>6, FoldKeeps

LEMMA AllOthers == (\E S : vals \in Seq(S)) => Others(0) = vals
<1> SUFFICES ASSUME NEW S, vals \in Seq(S) PROVE Others(0) = vals
  OBVIOUS
<1>1. Len(vals) - 0 = Len(vals)
  OBVIOUS
<1> QED BY <1>1, SubSeqFull DEF Others

LEMMA LiteralKeeps ==
    ASSUME Sound, NEW c \in Chars, Literal(c)
    PROVE  Sound'
<1>1. Text /\ HasRoom(1)
  BY DEF Literal
<1>2. 0 \in 0..Len(vals) /\ Others(0) = vals
  BY <1>1, TextFacts, AllOthers DEF Sound, Roots, RootsType
<1>3. known' \in 0..Len(Args) + 1
  BY DEF Literal, Sound, Graph, NodesType
<1>4. /\ node' = [node EXCEPT ![New(1)] = Node("item", "", c, <<>>)]
      /\ vals' = Append(Others(0), Value(New(1), "base", Item(c)))
      /\ UNCHANGED stmts /\ Same
  BY <1>2 DEF Literal, Push
<1> DEFINE xs == <<>>
<1>5. xs \in Seq(Nodes) /\ Len(xs) = 0 /\ \A i \in 1..0 : xs[i] = vals[Len(vals) - 0 + i].p
  OBVIOUS
<1>6. node' = [node EXCEPT ![New(1)] = Node("item", "", c, xs)]
  BY <1>4
<1> HIDE DEF xs
<1>7. "item" \notin {"free", "pass", "lift"}
  OBVIOUS
<1> QED BY <1>1, <1>2, <1>3, <1>4, <1>5, <1>6, <1>7, OneNodeFolds

\* The values a fold takes.
LEMMA LastsAre ==
    ASSUME Sound, Text, NEW k \in 0..Len(vals)
    PROVE  /\ Len(Lasts(k)) = k /\ \A i \in 1..k : Lasts(k)[i] = vals[Len(vals) - k + i]
           /\ k > 0 => Last(vals) = vals[Len(vals)]
           /\ \A i \in 1..Len(vals) : vals[i].p \in Nodes
<1>1. PICK S : vals \in Seq(S)
  BY DEF Sound, Roots, RootsType
<1> DEFINE l == Len(vals) - k
<1>2. l \in Nat /\ Len(vals) \in Nat /\ l <= Len(vals) /\ Len(vals) - l = k
  BY <1>1
<1>3. Lasts(k) = SubSeq(vals, l + 1, Len(vals))
  BY DEF Lasts
<1> HIDE DEF l
<1>4. Len(Lasts(k)) = k /\ \A i \in 1..k : Lasts(k)[i] = vals[l + i]
  <2> DEFINE n == Len(vals)
  <2>1. n \in Nat /\ l <= n /\ n <= Len(vals) /\ n - l = k /\ Lasts(k) = SubSeq(vals, l + 1, n)
    BY <1>2, <1>3
  <2> HIDE DEF n
  <2>2. /\ Len(SubSeq(vals, l + 1, n)) = n - l
        /\ \A i \in 1..(n - l) : SubSeq(vals, l + 1, n)[i] = vals[l + i]
    BY <1>1, <1>2, <2>1, StretchFacts, SMTT(20), ZenonT(40)
  <2> QED BY <2>1, <2>2
<1>5. \A i \in 1..Len(vals) : vals[i].p \in Nodes
  BY TextFacts DEF Kept, Live
<1> QED BY <1>4, <1>5 DEF l, Last

LEMMA RepeatedKeeps ==
    ASSUME Sound, NEW type, NEW is, NEW as, Repeated(type, is, as),
           type \notin {"free", "pass", "lift"}
    PROVE  Sound'
<1>1. Text /\ HasRoom(1) /\ 1 <= Len(vals)
  BY DEF Repeated, AreLast
<1>2. Len(vals) \in Nat
  BY <1>1, TextFacts
<1>3. 1 \in 0..Len(vals) /\ Len(vals) \in 1..Len(vals) /\ 1 > 0
  BY <1>1, <1>2
<1> DEFINE xs == <<Last(vals).p>>
<1>4. Last(vals) = vals[Len(vals)] /\ vals[Len(vals)].p \in Nodes
  BY <1>1, <1>3, LastsAre
<1>5. xs \in Seq(Nodes) /\ Len(xs) = 1 /\ \A i \in 1..1 : xs[i] = vals[Len(vals) - 1 + i].p
  BY <1>2, <1>4
<1>6. known' \in 0..Len(Args) + 1
  BY DEF Repeated, Sound, Graph, NodesType
<1>7. /\ node' = [node EXCEPT ![New(1)] = Node(type, "", is, xs)]
      /\ vals' = Append(Others(1), Value(New(1), "factor", as))
      /\ UNCHANGED stmts /\ Same
  BY DEF Repeated
<1> HIDE DEF xs
<1> QED BY <1>1, <1>3, <1>5, <1>6, <1>7, OneNodeFolds

LEMMA RepeatKeeps ==
    ASSUME Sound, NEW suffix, Repeat(suffix)
    PROVE  Sound'
<1>1. suffix \notin {"free", "pass", "lift"}
  BY DEF Repeat, Quantifiers
<1> QED BY <1>1, RepeatedKeeps DEF Repeat

LEMMA BracesKeep ==
    ASSUME Sound, NEW n, Braces(n)
    PROVE  Sound'
<1>1. CountOrSuffix(n).type \notin {"free", "pass", "lift"}
  BY DEF CountOrSuffix, SuffixOfByte, Quantifiers
<1> QED BY <1>1, RepeatedKeeps DEF Braces

LEMMA AlternativeKeeps ==
    ASSUME Sound, Alternative
    PROVE  Sound'
<1>1. Text /\ HasRoom(1) /\ Len(vals) > 1
  BY DEF Alternative
<1>2. Len(vals) \in Nat
  BY <1>1, TextFacts
<1>3. /\ 2 \in 0..Len(vals)
      /\ \A i \in 1..2 : Len(vals) - 2 + i \in 1..Len(vals)
  BY <1>1, <1>2
<1> DEFINE xs == <<Lasts(2)[1].p, Lasts(2)[2].p>>
<1>4. \A i \in 1..2 : Lasts(2)[i] = vals[Len(vals) - 2 + i] /\ Lasts(2)[i].p \in Nodes
  BY <1>1, <1>3, LastsAre
<1>5. xs \in Seq(Nodes) /\ Len(xs) = 2 /\ \A i \in 1..2 : xs[i] = vals[Len(vals) - 2 + i].p
  <2>1. \A i \in 1..2 : xs[i] = Lasts(2)[i].p
    OBVIOUS
  <2>2. Lasts(2)[1].p \in Nodes /\ Lasts(2)[2].p \in Nodes
    BY <1>4
  <2> QED BY <1>4, <2>1, <2>2
<1>6. known' \in 0..Len(Args) + 1
  BY DEF Alternative, Sound, Graph, NodesType
<1>7. /\ node' = [node EXCEPT ![New(1)] = Node("or", "", "", xs)]
      /\ UNCHANGED stmts /\ Same
  BY DEF Alternative
<1>8. PICK as : vals' = Append(Others(2), Value(New(1), "grammar", as))
  BY DEF Alternative
<1>9. "or" \notin {"free", "pass", "lift"}
  OBVIOUS
<1> HIDE DEF xs
<1> QED BY <1>1, <1>3, <1>5, <1>6, <1>7, <1>8, <1>9, OneNodeFolds

\* What is found is an argument, or nothing.
LEMMA FoundIs ==
    ASSUME NodesType
    PROVE  /\ \A x : FindName(x).p \in 0..Len(Args) /\ FindName(x).known \in 0..Len(Args) + 1
           /\ \A i \in Nat : known <= Len(Args) =>
                 FindNumber(i).p \in 0..Len(Args) /\ FindNumber(i).known \in 0..Len(Args) + 1
<1>1. Len(Args) \in Nat /\ known \in 0..Len(Args) + 1
  BY NodeNumbers DEF NodesType
<1>2. ASSUME NEW x
      PROVE  FindName(x).p \in 0..Len(Args) /\ FindName(x).known \in 0..Len(Args) + 1
  <2>1. CASE \E i \in 1..Len(Args) : Args[i] = x
    <3> DEFINE k == CHOOSE k \in 1..Len(Args) : Args[k] = x
    <3>1. k \in 1..Len(Args)
      BY <2>1
    <3>2. FindName(x) = [p |-> k, known |-> IF known > k THEN known ELSE k]
      BY <2>1 DEF FindName
    <3> HIDE DEF k
    <3> QED BY <1>1, <3>1, <3>2
  <2>2. CASE ~\E i \in 1..Len(Args) : Args[i] = x
    BY <1>1, <2>2 DEF FindName
  <2> QED BY <2>1, <2>2
<1>3. ASSUME NEW i \in Nat, known <= Len(Args)
      PROVE  FindNumber(i).p \in 0..Len(Args) /\ FindNumber(i).known \in 0..Len(Args) + 1
  <2>1. CASE i < Len(Args)
    <3> DEFINE read == IF known > i THEN known ELSE i + 1
    <3>1. read \in 0..Len(Args)
      BY <1>1, <1>3, <2>1
    <3>2. FindNumber(i) = [p |-> read, known |-> read]
      BY <2>1 DEF FindNumber
    <3> HIDE DEF read
    <3> QED BY <1>1, <3>1, <3>2
  <2>2. CASE ~(i < Len(Args))
    BY <1>1, <2>2 DEF FindNumber
  <2> QED BY <2>1, <2>2
<1> QED BY <1>2, <1>3

LEMMA ReferenceKeeps ==
    ASSUME Sound, NEW found, NEW as, Reference(found, as),
           found.p \in 0..Len(Args), found.known \in 0..Len(Args) + 1
    PROVE  Sound'
<1>1. Text /\ known' \in 0..Len(Args) + 1 /\ UNCHANGED stmts /\ Same
  BY DEF Reference
<1>2. 0 \in 0..Len(vals) /\ Others(0) = vals /\ Len(vals) \in Nat
  BY <1>1, TextFacts, AllOthers DEF Sound, Roots, RootsType
<1>3. CASE found.p # 0
  <2> DEFINE xs == <<found.p>>
  <2>1. HasRoom(1) /\ node' = [node EXCEPT ![New(1)] = Node("ref", "", "", xs)]
    BY <1>3 DEF Reference
  <2>2. vals' = Append(Others(0), Value(New(1), "base", as))
    BY <1>2, <1>3 DEF Reference, Push
  <2>3. found.p \in Given /\ found.p \in Nodes
    BY <1>3, NodeNumbers DEF Given
  <2>4. xs \in Seq(Nodes) /\ Len(xs) = 1 /\ xs[1] \in Given
    BY <2>3
  <2>5. "ref" \notin {"free", "pass", "lift"}
    OBVIOUS
  <2> HIDE DEF xs
  <2> QED BY <1>1, <1>2, <2>1, <2>2, <2>4, <2>5, OneNodeFolds
<1>4. CASE found.p = 0
  <2> DEFINE one == New(1)
             top == New(2)
             xs  == <<one>>
             F   == {one, top}
  <2>1. HasRoom(2)
    BY <1>4 DEF Reference
  <2>2. one \in Unused /\ top \in Unused /\ one # top
    <3>1. 1 \in 1..2 /\ 2 \in 1..2 /\ 1 # 2 /\ 2 \in Nat
      OBVIOUS
    <3> QED BY <2>1, <3>1, NewFacts
  <2>3. one \in Nodes /\ top \in Nodes /\ one \notin Given
    BY <2>2 DEF Unused, Sound, Graph, NodesType, Given
  <2> DEFINE none == <<>>
  <2>4. PICK e : node' = [node EXCEPT ![one] = Node("fail", e, e, none),
                                      ![top] = Node("ref", e, e, xs)]
    BY <1>4 DEF Reference
  <2>5. vals' = Append(Others(0), Value(top, "base", as))
    BY <1>2, <1>4 DEF Reference, Push
  <2> HIDE DEF one, top
  <2>7. xs \in Seq(Nodes) /\ Len(xs) = 1 /\ xs[1] = one
    BY <2>3
  <2>24. (\A i \in 1..Len(xs) : i = 1 /\ xs[i] = one) /\ 1 \in 1..Len(xs)
    OBVIOUS
  <2>20. none \in Seq(Nodes)
    OBVIOUS
  <2>21. \A i : i \notin 1..Len(none)
    OBVIOUS
  <2>17. none = <<>>
    OBVIOUS
  <2> HIDE DEF xs, none
  <2>6. /\ node' = [n \in Nodes |-> node'[n]] /\ \A n \in Nodes \ F : node'[n] = node[n]
        /\ node'[one] = Node("fail", e, e, none) /\ node'[top] = Node("ref", e, e, xs)
    BY <2>2, <2>3, <2>4 DEF Sound, Graph, NodesType
  <2>18. /\ IsNode(node'[one]) /\ node'[one].type = "fail" /\ node'[one].xs = none
         /\ ~node'[one].retained
    BY <2>6, <2>20, NodeIs
  <2>19. /\ IsNode(node'[top]) /\ node'[top].type = "ref" /\ node'[top].xs = xs
         /\ ~node'[top].retained
    BY <2>6, <2>7, NodeIs
  <2>9. \A j : j \notin Len(vals) - 0 + 1..Len(vals)
    BY <1>2
  <2>22. \A i : i \notin 1..Len(node'[one].xs)
    BY <2>18, <2>21
  <2>23. /\ \A i \in 1..Len(node'[top].xs) : i = 1 /\ node'[top].xs[i] = one
         /\ 1 \in 1..Len(node'[top].xs)
    BY <2>19, <2>24
  <2>10. /\ \A i : i \notin 1..Len(node'[one].xs)
         /\ \A i \in 1..Len(node'[top].xs) : i = 1 /\ node'[top].xs[i] = one
         /\ 1 \in 1..Len(node'[top].xs)
    BY <2>22, <2>23
  <2>11. \A f, g \in F : \A i \in 1..Len(node'[f].xs), j \in 1..Len(node'[g].xs) :
            node'[f].xs[i] = node'[g].xs[j] => node'[f].xs[i] \in Given \/ (f = g /\ i = j)
    BY <2>10, SMTT(20), ZenonT(40)
  <2>12. \A n \in F \ {top} : \E f \in F : \E i \in 1..Len(node'[f].xs) : node'[f].xs[i] = n
    BY <2>10
  <2>13. \A f \in F : \A i \in 1..Len(node'[f].xs) : node'[f].xs[i] \in F \ {top}
    BY <2>2, <2>10
  <2>14. \A f \in F :
            /\ IsNode(node'[f]) /\ node'[f].type # "free" /\ ~node'[f].retained
            /\ node'[f].type \in {"pass", "lift"} => node'[f].xs = <<>>
    BY <2>17, <2>18, <2>19
  <2>15. F \subseteq Unused /\ top \in F
    BY <2>2
  <2> HIDE DEF F
  <2>16. Folded(0, F, top, "base", as)
    BY <1>1, <1>2, <2>5, <2>6, <2>9, <2>11, <2>12, <2>13, <2>14, <2>15 DEF Folded
  <2> QED BY <2>16, FoldKeeps
<1> QED BY <1>3, <1>4

LEMMA ByNameKeeps == ASSUME Sound, NEW x, ByName(x) PROVE Sound'
BY FoundIs, ReferenceKeeps DEF ByName, Sound, Graph

LEMMA ByNumberKeeps == ASSUME Sound, NEW i \in Numbers, ByNumber(i) PROVE Sound'
<1>1. i \in Nat
  BY ArgsAssumption
<1> QED BY <1>1, FoundIs, ReferenceKeeps DEF ByNumber, Sound, Graph

LEMMA PairIs ==
    ASSUME NEW x \in Nodes, NEW y \in Nodes
    PROVE  /\ <<x, y>> \in Seq(Nodes) /\ 1 \in 1..Len(<<x, y>>) /\ 2 \in 1..Len(<<x, y>>)
           /\ <<x, y>>[1] = x /\ <<x, y>>[2] = y
           /\ \A i \in 1..Len(<<x, y>>) : i = 1 \/ i = 2
OBVIOUS

LEMMA EndOfInputKeeps ==
    ASSUME Sound, NEW c \in Chars, NEW d \in Chars, EndOfInput(c, d)
    PROVE  Sound'
<1> DEFINE one  == New(1)
           two  == New(2)
           top  == New(3)
           xs   == <<one, two>>
           none == <<>>
           F    == {one, two, top}
           as   == [type |-> "or", xs |-> <<Item(c), Item(d)>>]
<1>1. Text /\ HasRoom(3) /\ UNCHANGED <<known, stmts>> /\ Same
  BY DEF EndOfInput
<1>2. 0 \in 0..Len(vals) /\ Others(0) = vals /\ Len(vals) \in Nat
  BY <1>1, TextFacts, AllOthers DEF Sound, Roots, RootsType
<1>3. known' \in 0..Len(Args) + 1
  BY <1>1 DEF Sound, Graph, NodesType
<1>4. /\ one \in Unused /\ two \in Unused /\ top \in Unused
      /\ one # two /\ one # top /\ two # top
  <2>1. 3 \in Nat /\ 1 \in 1..3 /\ 2 \in 1..3 /\ 3 \in 1..3 /\ 1 # 2 /\ 1 # 3 /\ 2 # 3
    OBVIOUS
  <2>2. /\ \A i \in 1..3 : New(i) \in Unused
        /\ \A i, j \in 1..3 : New(i) = New(j) => i = j
    BY <1>1, <2>1, NewFacts
  <2> QED BY <2>1, <2>2
<1>5. one \in Nodes /\ two \in Nodes /\ top \in Nodes
  BY <1>4 DEF Unused
<1>6. PICK e : node' = [node EXCEPT ![one] = Node("item", e, c, none),
                                    ![two] = Node("item", e, d, none),
                                    ![top] = Node("or", e, e, xs)]
  BY DEF EndOfInput
<1>7. vals' = Append(Others(0), Value(top, "base", as))
  BY <1>2 DEF EndOfInput, Push
<1>8. none \in Seq(Nodes) /\ \A i : i \notin 1..Len(none)
  OBVIOUS
<1> HIDE DEF one, two, top, as
<1>9. xs \in Seq(Nodes) /\ 1 \in 1..Len(xs) /\ 2 \in 1..Len(xs) /\ xs[1] = one /\ xs[2] = two
  BY <1>5, PairIs
<1>10. \A i \in 1..Len(xs) : i = 1 \/ i = 2
  BY <1>5, PairIs
<1> HIDE DEF xs, none
<1>11. node' = [n \in Nodes |-> node'[n]]
  BY <1>6 DEF Sound, Graph, NodesType
<1>12. \A n \in Nodes \ F : node'[n] = node[n]
  BY <1>6 DEF Sound, Graph, NodesType
<1>13. /\ node'[one] = Node("item", e, c, none) /\ node'[two] = Node("item", e, d, none)
       /\ node'[top] = Node("or", e, e, xs)
  BY <1>4, <1>5, <1>6 DEF Sound, Graph, NodesType
<1>14. /\ IsNode(node'[one]) /\ node'[one].type = "item" /\ node'[one].xs = none
       /\ ~node'[one].retained
  BY <1>8, <1>13, NodeIs
<1>15. /\ IsNode(node'[two]) /\ node'[two].type = "item" /\ node'[two].xs = none
       /\ ~node'[two].retained
  BY <1>8, <1>13, NodeIs
<1>16. /\ IsNode(node'[top]) /\ node'[top].type = "or" /\ node'[top].xs = xs
       /\ ~node'[top].retained
  BY <1>9, <1>13, NodeIs
<1>17. /\ \A i : i \notin 1..Len(node'[one].xs) /\ i \notin 1..Len(node'[two].xs)
       /\ 1 \in 1..Len(node'[top].xs) /\ 2 \in 1..Len(node'[top].xs)
       /\ node'[top].xs[1] = one /\ node'[top].xs[2] = two
  BY <1>8, <1>9, <1>14, <1>15, <1>16
<1>18. \A i \in 1..Len(node'[top].xs) : i = 1 \/ i = 2
  BY <1>10, <1>16
<1>19. \A f \in F : \A i \in 1..Len(node'[f].xs) :
         f = top /\ ((i = 1 /\ node'[f].xs[i] = one) \/ (i = 2 /\ node'[f].xs[i] = two))
  BY <1>17, <1>18
<1>20. \A f, g \in F : \A i \in 1..Len(node'[f].xs), j \in 1..Len(node'[g].xs) :
          node'[f].xs[i] = node'[g].xs[j] => node'[f].xs[i] \in Given \/ (f = g /\ i = j)
  BY <1>4, <1>19
<1>21. \A n \in F \ {top} : \E f \in F : \E i \in 1..Len(node'[f].xs) : node'[f].xs[i] = n
  BY <1>17
<1>22. \A f \in F : \A i \in 1..Len(node'[f].xs) : node'[f].xs[i] \in F \ {top}
  BY <1>4, <1>19
<1>23. \A f \in F : IsNode(node'[f]) /\ ~node'[f].retained /\ node'[f].type \in {"item", "or"}
  BY <1>14, <1>15, <1>16
<1>24. \A f \in F : node'[f].type # "free" /\ node'[f].type \notin {"pass", "lift"}
  BY <1>23
<1>25. \A j : j \notin Len(vals) - 0 + 1..Len(vals)
  BY <1>2
<1>26. F \subseteq Unused /\ top \in F
  BY <1>4
<1> HIDE DEF F
<1>27. Folded(0, F, top, "base", as)
  BY <1>1, <1>2, <1>3, <1>7, <1>11, <1>12, <1>20, <1>21, <1>22, <1>23, <1>24, <1>25, <1>26
     DEF Folded
<1> QED BY <1>27, FoldKeeps

LEMMA SequenceKeeps ==
    ASSUME Sound, NEW k \in 0..Len(vals), Sequence(k)
    PROVE  Sound'
<1> DEFINE new == [i \in 1..k + 1 |-> New(i)]
           top == new[k + 1]
           F == {new[i] : i \in 1..k + 1}
           part == [i \in 1..k |-> vals[Len(vals) - k + i].p]
           none == <<>>
<1>1. Text /\ HasRoom(k + 1) /\ UNCHANGED <<known, stmts>> /\ Same
  BY DEF Sequence
<1>2. k \in Nat /\ k + 1 \in Nat /\ Len(vals) \in Nat
  BY <1>1, TextFacts
<1>3. \A i \in 1..k + 1 : new[i] \in Unused
  BY <1>1, <1>2, NewFacts
<1>4. \A i, j \in 1..k + 1 : new[i] = new[j] => i = j
  BY <1>1, <1>2, NewFacts
<1>5. \A i \in 1..k : i \in 1..k + 1 /\ i + 1 \in 1..k + 1 /\ i + 1 # 1
  BY <1>2
<1>6. \A i \in 1..k + 1 : i = 1 \/ (i - 1 \in 1..k /\ i - 1 + 1 = i)
  BY <1>2
<1>7. 1 \in 1..k + 1 /\ k + 1 \in 1..k + 1
  BY <1>2
<1>8. \A i \in 1..k : Lasts(k)[i].p = part[i] /\ part[i] \in Nodes
  <2>1. \A i \in 1..k : Lasts(k)[i] = vals[Len(vals) - k + i] /\ Len(vals) - k + i \in 1..Len(vals)
    BY <1>1, <1>2, LastsAre
  <2> QED BY <1>1, <2>1, LastsAre
<1>9. Neutral(Fold) \in {"pass", "lift"}
  BY DEF Neutral
<1> DEFINE made(e) ==
      [n \in Nodes |->
          IF n = new[1] THEN Node(Neutral(Fold), e, e, none)
          ELSE IF \E i \in 1..k : n = new[i + 1]
          THEN Node("and", Fold, e, <<new[CHOOSE i \in 1..k : n = new[i + 1]],
                                      part[CHOOSE i \in 1..k : n = new[i + 1]]>>)
          ELSE node[n]]
<1>10. PICK e : node' = made(e)
  <2>1. New(1) = new[1] /\ \A i \in 1..k : New(i) = new[i] /\ New(i + 1) = new[i + 1]
    BY <1>5, <1>7
  <2> HIDE DEF new, part
  <2>2. \A i : i \in 1..k => New(i) = new[i] /\ New(i + 1) = new[i + 1] /\ Lasts(k)[i].p = part[i]
    BY <1>8, <2>1
  <2>3. \A n : (\E i \in 1..k : n = New(i + 1)) <=> (\E i \in 1..k : n = new[i + 1])
    BY <2>2
  <2> DEFINE c(n) == CHOOSE i \in 1..k : n = new[i + 1]
             d(n) == CHOOSE i \in 1..k : n = New(i + 1)
             pairs(n, e) == Node("and", Fold, e, <<New(d(n)), Lasts(k)[d(n)].p>>)
  <2>6. PICK e : node' = [n \in Nodes |->
              IF n = New(1) THEN Node(Neutral(Fold), e, e, none)
              ELSE IF \E i \in 1..k : n = New(i + 1) THEN pairs(n, e)
              ELSE node[n]]
    BY DEF Sequence
  <2>7. \A n : (\E i \in 1..k : n = new[i + 1]) =>
                 pairs(n, e) = Node("and", Fold, e, <<new[c(n)], part[c(n)]>>)
    <3> SUFFICES ASSUME NEW n, \E i \in 1..k : n = new[i + 1]
                 PROVE  pairs(n, e) = Node("and", Fold, e, <<new[c(n)], part[c(n)]>>)
      OBVIOUS
    <3>3. c(n) \in 1..k
      OBVIOUS
    <3>4. d(n) = c(n)
      BY <2>2
    <3>1. c(n) \in 1..k /\ d(n) = c(n)
      BY <3>3, <3>4
    <3> HIDE DEF c, d
    <3>2. New(c(n)) = new[c(n)] /\ Lasts(k)[c(n)].p = part[c(n)]
      BY <2>2, <3>1
    <3> QED BY <3>1, <3>2
  <2> HIDE DEF pairs
  <2> DEFINE q(n) == \E i \in 1..k : n = new[i + 1]
             r(n) == \E i \in 1..k : n = New(i + 1)
             first == Node(Neutral(Fold), e, e, none)
             pair(n) == Node("and", Fold, e, <<new[c(n)], part[c(n)]>>)
  <2>8. node' = [n \in Nodes |-> IF n = New(1) THEN first ELSE IF r(n) THEN pairs(n, e) ELSE node[n]]
    BY <2>6
  <2>9. made(e) = [n \in Nodes |-> IF n = new[1] THEN first ELSE IF q(n) THEN pair(n) ELSE node[n]]
    OBVIOUS
  <2>10. (\A n : r(n) <=> q(n)) /\ (\A n : q(n) => pairs(n, e) = pair(n)) /\ New(1) = new[1]
    BY <2>1, <2>3, <2>7
  <2> HIDE DEF q, r, first, pair, made
  <2>11. node' = made(e)
    BY <2>8, <2>9, <2>10
  <2> QED BY <2>11
<1>11. PICK as : vals' = Append(Others(k), Value(top, "term", as))
  <2>1. New(k + 1) = top
    BY <1>7
  <2> HIDE DEF top
  <2> QED BY <2>1 DEF Sequence
<1>12. none \in Seq(Nodes) /\ none = <<>> /\ \A i : i \notin 1..Len(none)
  OBVIOUS
<1> HIDE DEF part, none
<1>13. \A i \in 1..k + 1 : new[i] \in Nodes /\ new[i] \notin Given /\ new[i] \in F
  BY <1>3 DEF Unused, Sound, Graph, NodesType, Given
<1> HIDE DEF new
<1>14. node'[new[1]] = Node(Neutral(Fold), e, e, none)
  BY <1>7, <1>10, <1>13
<1>15. \A i \in 1..k : node'[new[i + 1]] = Node("and", Fold, e, <<new[i], part[i]>>)
  <2> SUFFICES ASSUME NEW i \in 1..k
               PROVE  node'[new[i + 1]] = Node("and", Fold, e, <<new[i], part[i]>>)
    OBVIOUS
  <2>1. new[i + 1] # new[1] /\ new[i + 1] \in Nodes
    BY <1>4, <1>5, <1>7, <1>13
  <2>2. (CHOOSE j \in 1..k : new[i + 1] = new[j + 1]) = i
    <3>1. \A j \in 1..k : new[i + 1] = new[j + 1] => j = i
      <4> SUFFICES ASSUME NEW j \in 1..k, new[i + 1] = new[j + 1] PROVE j = i
        OBVIOUS
      <4>1. i + 1 = j + 1
        BY <1>4, <1>5
      <4> QED BY <1>2, <4>1
    <3> QED BY <3>1
  <2> QED BY <1>10, <2>1, <2>2
<1>16. node' = [n \in Nodes |-> node'[n]] /\ \A n \in Nodes \ F : node'[n] = node[n]
  <2>1. \A n \in Nodes \ F : n # new[1] /\ \A i \in 1..k : n # new[i + 1]
    BY <1>5, <1>7, <1>13
  <2>2. \A n \in Nodes \ F : made(e)[n] = node[n]
    BY <2>1
  <2>3. made(e) = [n \in Nodes |-> made(e)[n]]
    OBVIOUS
  <2> HIDE DEF made
  <2> QED BY <1>10, <2>2, <2>3
<1> HIDE DEF made
<1>17. /\ IsNode(node'[new[1]]) /\ node'[new[1]].xs = none /\ ~node'[new[1]].retained
       /\ node'[new[1]].type = Neutral(Fold)
  <2> DEFINE type == Neutral(Fold)
  <2>1. node'[new[1]] = Node(type, e, e, none) /\ none \in Seq(Nodes)
    BY <1>12, <1>14
  <2> HIDE DEF type
  <2>2. /\ IsNode(node'[new[1]]) /\ node'[new[1]].xs = none /\ ~node'[new[1]].retained
        /\ node'[new[1]].type = type
    BY <2>1, NodeIs
  <2> QED BY <2>2 DEF type
<1>18. \A i \in 1..k : /\ IsNode(node'[new[i + 1]]) /\ ~node'[new[i + 1]].retained
                       /\ node'[new[i + 1]].type = "and"
                       /\ node'[new[i + 1]].xs = <<new[i], part[i]>>
  <2> SUFFICES ASSUME NEW i \in 1..k
               PROVE  /\ IsNode(node'[new[i + 1]]) /\ ~node'[new[i + 1]].retained
                      /\ node'[new[i + 1]].type = "and"
                      /\ node'[new[i + 1]].xs = <<new[i], part[i]>>
    OBVIOUS
  <2> DEFINE xs == <<new[i], part[i]>>
  <2>1. xs \in Seq(Nodes)
    BY <1>5, <1>8, <1>13
  <2>2. node'[new[i + 1]] = Node("and", Fold, e, xs)
    BY <1>15
  <2> HIDE DEF xs
  <2>3. /\ IsNode(node'[new[i + 1]]) /\ ~node'[new[i + 1]].retained
        /\ node'[new[i + 1]].type = "and" /\ node'[new[i + 1]].xs = xs
    BY <2>1, <2>2, NodeIs
  <2> QED BY <2>3 DEF xs
<1>19. \A i \in 1..k :
          LET xs == node'[new[i + 1]].xs
          IN  /\ 1 \in 1..Len(xs) /\ xs[1] = new[i] /\ 2 \in 1..Len(xs) /\ xs[2] = part[i]
              /\ \A j \in 1..Len(xs) : j = 1 \/ j = 2
  <2> SUFFICES ASSUME NEW i \in 1..k
               PROVE  LET xs == node'[new[i + 1]].xs
                      IN  /\ 1 \in 1..Len(xs) /\ xs[1] = new[i] /\ 2 \in 1..Len(xs) /\ xs[2] = part[i]
                          /\ \A j \in 1..Len(xs) : j = 1 \/ j = 2
    OBVIOUS
  <2>1. new[i] \in Nodes /\ part[i] \in Nodes
    BY <1>5, <1>8, <1>13
  <2> DEFINE x == new[i]
             y == part[i]
  <2>2. node'[new[i + 1]].xs = <<x, y>> /\ x \in Nodes /\ y \in Nodes
    BY <1>18, <2>1
  <2> HIDE DEF x, y
  <2>3. LET xs == <<x, y>>
        IN  /\ 1 \in 1..Len(xs) /\ xs[1] = x /\ 2 \in 1..Len(xs) /\ xs[2] = y
            /\ \A j \in 1..Len(xs) : j = 1 \/ j = 2
    BY <2>2, PairIs
  <2> QED BY <2>2, <2>3 DEF x, y
<1>20. \A f \in F : f = new[1] \/ \E i \in 1..k : f = new[i + 1]
  BY <1>6
<1>21. \A f \in F : \A j \in 1..Len(node'[f].xs) : \E i \in 1..k :
          f = new[i + 1] /\ \/ j = 1 /\ node'[f].xs[j] = new[i]
                            \/ j = 2 /\ node'[f].xs[j] = part[i]
  <2> SUFFICES ASSUME NEW f \in F, NEW j \in 1..Len(node'[f].xs)
               PROVE  \E i \in 1..k : f = new[i + 1] /\ \/ j = 1 /\ node'[f].xs[j] = new[i]
                                                        \/ j = 2 /\ node'[f].xs[j] = part[i]
    OBVIOUS
  <2>1. f # new[1]
    <3>1. SUFFICES ASSUME f = new[1] PROVE FALSE
      OBVIOUS
    <3>2. j \in 1..Len(none)
      BY <1>17, <3>1
    <3> QED BY <1>12, <3>2
  <2>2. PICK i \in 1..k : f = new[i + 1]
    BY <1>20, <2>1
  <2> HIDE DEF F
  <2>3. /\ node'[f].xs[1] = new[i] /\ node'[f].xs[2] = part[i] /\ (j = 1 \/ j = 2)
    BY <1>19, <2>2
  <2> QED BY <2>2, <2>3
<1>22. \A i \in 1..k : part[i] \in Live
  <2>1. \A i \in 1..k : part[i] = vals[Len(vals) - k + i].p /\ Len(vals) - k + i \in 1..Len(vals)
    BY <1>2 DEF part
  <2> QED BY <1>1, <2>1, TextFacts DEF Kept
<1>23. \A i, j \in 1..k : part[i] = part[j] => i = j
  <2> SUFFICES ASSUME NEW i \in 1..k, NEW j \in 1..k, part[i] = part[j] PROVE i = j
    OBVIOUS
  <2>1. /\ vals[Len(vals) - k + i].p = vals[Len(vals) - k + j].p
        /\ Len(vals) - k + i \in 1..Len(vals) /\ Len(vals) - k + j \in 1..Len(vals)
    BY <1>2 DEF part
  <2>2. Len(vals) - k + i = Len(vals) - k + j
    BY <2>1 DEF Sound, Roots, RootsOnce
  <2> QED BY <1>2, <2>2
<1>24. \A i \in 1..k : new[i] \in F \ {top} /\ part[i] \notin F
  <2>1. \A i \in 1..k : i # k + 1
    BY <1>2
  <2>2. \A i \in 1..k : new[i] # top
    BY <1>4, <1>5, <1>7, <2>1
  <2> QED BY <1>3, <1>5, <1>13, <1>22, <2>2 DEF Unused
<1>25. top \in F /\ F \subseteq Unused
  BY <1>3, <1>7
<1>26. \A n \in F \ {top} : \E i \in 1..k : n = new[i]
  <2>1. \A i \in 1..k + 1 : i \in 1..k \/ i = k + 1
    BY <1>2
  <2> QED BY <2>1
<1>27. \A f, g \in F : \A i \in 1..Len(node'[f].xs), j \in 1..Len(node'[g].xs) :
          node'[f].xs[i] = node'[g].xs[j] => node'[f].xs[i] \in Given \/ (f = g /\ i = j)
  <2> SUFFICES ASSUME NEW f \in F, NEW g \in F, NEW i \in 1..Len(node'[f].xs),
                      NEW j \in 1..Len(node'[g].xs), node'[f].xs[i] = node'[g].xs[j]
               PROVE  f = g /\ i = j
    OBVIOUS
  <2>1. PICK m \in 1..k : f = new[m + 1] /\ \/ i = 1 /\ node'[f].xs[i] = new[m]
                                            \/ i = 2 /\ node'[f].xs[i] = part[m]
    BY <1>21
  <2>2. PICK n \in 1..k : g = new[n + 1] /\ \/ j = 1 /\ node'[g].xs[j] = new[n]
                                            \/ j = 2 /\ node'[g].xs[j] = part[n]
    BY <1>21
  <2>3. new[m] \in F /\ new[n] \in F /\ part[m] \notin F /\ part[n] \notin F
    BY <1>24
  <2>4. new[m] = new[n] => m = n
    BY <1>4, <1>5
  <2>5. part[m] = part[n] => m = n
    BY <1>23
  <2> HIDE DEF F, top
  <2> QED BY <2>1, <2>2, <2>3, <2>4, <2>5
<1>28. \A j \in Len(vals) - k + 1..Len(vals) : \E i \in 1..k : vals[j].p = part[i]
  <2> SUFFICES ASSUME NEW j \in Len(vals) - k + 1..Len(vals)
               PROVE  \E i \in 1..k : vals[j].p = part[i]
    OBVIOUS
  <2>1. j - (Len(vals) - k) \in 1..k /\ Len(vals) - k + (j - (Len(vals) - k)) = j
    BY <1>2
  <2> QED BY <2>1 DEF part
<1>29. \A i \in 1..k : \E j \in Len(vals) - k + 1..Len(vals) : part[i] = vals[j].p
  <2> SUFFICES ASSUME NEW i \in 1..k
               PROVE  \E j \in Len(vals) - k + 1..Len(vals) : part[i] = vals[j].p
    OBVIOUS
  <2>1. Len(vals) - k + i \in Len(vals) - k + 1..Len(vals)
    BY <1>2
  <2> QED BY <2>1 DEF part
<1> DEFINE lasts == Len(vals) - k + 1..Len(vals)
<1>30. \A f \in F : \A i \in 1..Len(node'[f].xs) :
          node'[f].xs[i] \in F \ {top} \/ \E j \in lasts : node'[f].xs[i] = vals[j].p
  <2> SUFFICES ASSUME NEW f \in F, NEW i \in 1..Len(node'[f].xs)
               PROVE  \/ node'[f].xs[i] \in F \ {top}
                      \/ \E j \in lasts : node'[f].xs[i] = vals[j].p
    OBVIOUS
  <2>1. PICK m \in 1..k : node'[f].xs[i] = new[m] \/ node'[f].xs[i] = part[m]
    <3> HIDE DEF F, top, lasts
    <3>1. PICK m \in 1..k : f = new[m + 1] /\ \/ i = 1 /\ node'[f].xs[i] = new[m]
                                              \/ i = 2 /\ node'[f].xs[i] = part[m]
      BY <1>21
    <3> QED BY <3>1
  <2>2. new[m] \in F \ {top}
    BY <1>24
  <2>3. \E j \in lasts : part[m] = vals[j].p
    BY <1>29
  <2> HIDE DEF F, top, lasts
  <2> QED BY <2>1, <2>2, <2>3
<1>31. \A n \in F \ {top} : \E f \in F : \E i \in 1..Len(node'[f].xs) : node'[f].xs[i] = n
  <2> SUFFICES ASSUME NEW n \in F \ {top}
               PROVE  \E f \in F : \E i \in 1..Len(node'[f].xs) : node'[f].xs[i] = n
    OBVIOUS
  <2>1. PICK i \in 1..k : n = new[i]
    BY <1>26
  <2>2. new[i + 1] \in F
    BY <1>5, <1>13
  <2>3. 1 \in 1..Len(node'[new[i + 1]].xs) /\ node'[new[i + 1]].xs[1] = n
    BY <1>19, <2>1
  <2> HIDE DEF F, top
  <2> QED BY <2>2, <2>3
<1>32. \A j \in lasts : \E f \in F : \E i \in 1..Len(node'[f].xs) : node'[f].xs[i] = vals[j].p
  <2> SUFFICES ASSUME NEW j \in lasts
               PROVE  \E f \in F : \E i \in 1..Len(node'[f].xs) : node'[f].xs[i] = vals[j].p
    OBVIOUS
  <2>1. PICK i \in 1..k : vals[j].p = part[i]
    BY <1>28
  <2> HIDE DEF F, lasts
  <2> QED BY <1>5, <1>13, <1>19, <2>1, SMTT(20), ZenonT(40)
<1>33. \A f \in F :
          /\ IsNode(node'[f]) /\ node'[f].type # "free" /\ ~node'[f].retained
          /\ node'[f].type \in {"pass", "lift"} => node'[f].xs = <<>>
  <2> HIDE DEF F
  <2>1. IsNode(node'[new[1]]) /\ node'[new[1]].type # "free" /\ ~node'[new[1]].retained
        /\ node'[new[1]].xs = <<>>
    BY <1>9, <1>12, <1>17
  <2>2. \A i \in 1..k : /\ IsNode(node'[new[i + 1]]) /\ node'[new[i + 1]].type # "free"
                        /\ ~node'[new[i + 1]].retained
                        /\ node'[new[i + 1]].type \notin {"pass", "lift"}
    BY <1>18
  <2> QED BY <1>20, <2>1, <2>2
<1>34. known' \in 0..Len(Args) + 1
  BY <1>1 DEF Sound, Graph, NodesType
<1> HIDE DEF F, top
<1>35. Folded(k, F, top, "term", as)
  BY <1>1, <1>11, <1>16, <1>25, <1>27, <1>30, <1>31, <1>32, <1>33, <1>34 DEF Folded
<1> QED BY <1>35, FoldKeeps

----------------------------------------------------------------------------
(* Steps that free or lose nodes *)

LEMMA FreeIs == IsNode(Free) /\ Free.type = "free" /\ Free.xs = <<>> /\ ~Free.retained
<1>1. PICK e : Free = [type |-> "free", fold |-> e, is |-> e, xs |-> <<>>, retained |-> FALSE]
  BY DEF Free
<1> QED BY <1>1 DEF IsNode

\* A part of a node of S.
PartOf(S, n) == \E m \in S : \E i \in 1..Len(node[m].xs) : node[m].xs[i] = n

\* The nodes of gone are freed or lost; the parts of these, and those a node of C had, go
\* too, or to the compiler, or they are the parts C now has.
Moved(gone, C) ==
    /\ gone \subseteq Kept \cap Unretained
    /\ C \subseteq Nodes \ (gone \cup lost) /\ \A c, d \in C : c = d
    /\ node' = [n \in Nodes |-> node'[n]]
    /\ \A n \in Nodes \ C : node'[n] = node[n] \/ (n \in gone /\ node'[n] = Free)
    /\ lost \subseteq lost' /\ lost' \subseteq lost \cup gone
    /\ \A n \in gone : IF n \in lost' THEN node'[n] = node[n] ELSE node'[n] = Free
    /\ \A c \in C :
          /\ IsNode(node'[c]) /\ node'[c].type # "free"
          /\ node'[c].retained <=> node[c].retained
          /\ node'[c].type \in {"pass", "lift"} => node'[c].xs = <<>>
          /\ node'[c].type # "ref" => \A i \in 1..Len(node'[c].xs) : node'[c].xs[i] \notin Given
          /\ \A i \in 1..Len(node'[c].xs) :
                PartOf(Kept \cap (C \cup gone), node'[c].xs[i]) /\ node'[c].xs[i] \notin gone
          /\ \A i, j \in 1..Len(node'[c].xs) :
                node'[c].xs[i] = node'[c].xs[j] => node'[c].xs[i] \in Given \/ i = j
    /\ \A n \in gone : ~PartOf(Kept \ (gone \cup C), n)
    /\ \A n \in Nodes : PartOf(Kept \cap (gone \cup C), n) =>
          \/ n \in gone \cup Given \cup Held'
          \/ \E c \in C : \E i \in 1..Len(node'[c].xs) : node'[c].xs[i] = n
    /\ Held' \subseteq ((Held \cup (C \ Kept)) \ gone) \cup Given
    /\ (Held \cup (C \ Kept)) \ gone \subseteq Held' \cup Given
    /\ known' \in 0..Len(Args) + 1 /\ left' \in 0..MaxNode

LEMMA GraphMoves ==
    ASSUME Graph, Held \subseteq Kept, NEW gone, NEW C, Moved(gone, C)
    PROVE  Graph'
<1>1. /\ \A n \in Nodes : node[n].retained <=> n \in Given
      /\ Given \subseteq Nodes /\ Len(Args) \in Nat /\ Nodes \subseteq Nat
  BY RetainedAre, NodeNumbers DEF Graph, Given
<1>2. /\ gone \subseteq Kept /\ gone \cap Given = {} /\ C \cap gone = {} /\ C \subseteq Nodes
      /\ Kept \subseteq Nodes /\ Given \subseteq Kept
  <2>1. gone \subseteq Kept \cap Unretained /\ C \subseteq Nodes \ (gone \cup lost)
    BY DEF Moved
  <2>2. Kept \subseteq Nodes /\ Unretained \subseteq Nodes /\ \A n \in Unretained : ~node[n].retained
    BY DEF Kept, Live, Unretained
  <2>3. Given \subseteq Kept
    BY <1>1 DEF Graph, NodesType, Given, Kept, Unretained
  <2> QED BY <1>1, <2>1, <2>2, <2>3
<1>3. \A n \in Nodes : IsNode(node'[n]) /\ (node'[n].retained <=> n \in Given)
  <2> SUFFICES ASSUME NEW n \in Nodes PROVE IsNode(node'[n]) /\ (node'[n].retained <=> n \in Given)
    OBVIOUS
  <2>1. CASE n \in C
    BY <1>1, <2>1 DEF Moved
  <2>2. CASE node'[n] = node[n]
    BY <1>1, <2>2 DEF Graph, NodesType
  <2>3. CASE n \in gone /\ node'[n] = Free
    BY <1>2, <2>3, FreeIs
  <2> QED BY <2>1, <2>2, <2>3 DEF Moved
<1>4. Kept' = (Kept \ gone) \cup C
  <2>1. \A n \in gone : n \notin Kept'
    BY FreeIs DEF Moved, Kept, Live
  <2>2. \A n \in C : n \in Kept'
    BY <1>2 DEF Moved, Kept, Live
  <2>3. \A n \in Nodes \ (gone \cup C) : n \in Kept' <=> n \in Kept
    BY DEF Moved, Kept, Live
  <2>4. Kept' \subseteq Nodes
    BY DEF Kept, Live
  <2> QED BY <1>2, <2>1, <2>2, <2>3, <2>4
<1>5. NodesType'
  <2>1. \A n \in Nodes : n \in Given <=> n <= Len(Args)
    BY <1>1 DEF Graph, NodesType
  <2>2. \A n \in Nodes : IsNode(node'[n]) /\ (node'[n].retained <=> n <= Len(Args))
    <3> SUFFICES ASSUME NEW n \in Nodes
                 PROVE  IsNode(node'[n]) /\ (node'[n].retained <=> n <= Len(Args))
      OBVIOUS
    <3>1. node'[n].retained \in BOOLEAN
      BY <1>3 DEF IsNode
    <3> QED BY <1>3, <2>1, <3>1
  <2>3. \A n \in 1..Len(Args) : n \in Live'
    BY <1>2, <1>4 DEF Kept, Given
  <2>4. lost' \subseteq Unretained'
    <3> SUFFICES ASSUME NEW n \in lost' PROVE n \in Unretained'
      OBVIOUS
    <3>1. n \in Unretained /\ n \in Nodes
      BY DEF Moved, Graph, NodesType, Unretained, Live
    <3>2. node'[n] = node[n]
      <4>1. CASE n \in gone
        BY <4>1 DEF Moved
      <4>2. CASE n \notin gone
        BY <3>1, <4>2 DEF Moved
      <4> QED BY <4>1, <4>2
    <3> QED BY <3>1, <3>2 DEF Unretained, Live
  <2> QED BY <2>2, <2>3, <2>4 DEF NodesType, Moved
<1>6. Kinds'
  <2> SUFFICES ASSUME NEW n \in Nodes
               PROVE  /\ node'[n].type \in {"free", "pass", "lift"} => node'[n].xs = <<>>
                      /\ node'[n].type # "ref" =>
                            \A i \in 1..Len(node'[n].xs) : ~node'[node'[n].xs[i]].retained
    BY DEF Kinds
  <2>1. \A i \in 1..Len(node'[n].xs) : node'[n].xs[i] \in Nodes
    BY <1>3, PartsType
  <2>2. CASE n \in C
    BY <1>3, <2>1, <2>2 DEF Moved
  <2>3. CASE node'[n] = node[n]
    BY <1>1, <1>3, <2>1, <2>3 DEF Graph, Kinds
  <2>4. CASE node'[n] = Free
    BY <2>4, FreeIs
  <2> QED BY <2>2, <2>3, <2>4 DEF Moved
<1> DEFINE stay == Kept \ (gone \cup C)
           old == Kept \cap (gone \cup C)
<1>7. /\ \A m \in stay : node'[m] = node[m] /\ m \in Kept /\ m \notin old
      /\ \A m \in Kept' : m \in stay \/ m \in C
  BY <1>2, <1>4 DEF Moved
<1>8. \A m \in Kept : \A i \in 1..Len(node[m].xs) :
         /\ node[m].xs[i] \in Kept /\ node[m].xs[i] \in Nodes
         /\ node[m].xs[i] \in Held => node[m].xs[i] \in Given
  BY <1>1, <1>2 DEF Graph, Targets
<1>9. \A c \in C : \A i \in 1..Len(node'[c].xs) :
         PartOf(old, node'[c].xs[i]) /\ node'[c].xs[i] \notin gone
  <2>1. old = Kept \cap (C \cup gone)
    OBVIOUS
  <2> QED BY <2>1 DEF Moved
<1>10. /\ \A n \in gone : ~PartOf(stay, n)
       /\ \A n \in Nodes : PartOf(old, n) =>
            \/ n \in gone \cup Given \cup Held'
            \/ \E c \in C : \E i \in 1..Len(node'[c].xs) : node'[c].xs[i] = n
  BY DEF Moved
<1>11. \A m \in Kept : m \in stay \/ m \in old
  OBVIOUS
<1>12. /\ Held' \subseteq ((Held \cup (C \ Kept)) \ gone) \cup Given
       /\ (Held \cup (C \ Kept)) \ gone \subseteq Held' \cup Given
       /\ \A c, d \in C : c = d
       /\ \A c \in C : \A i, j \in 1..Len(node'[c].xs) :
             node'[c].xs[i] = node'[c].xs[j] => node'[c].xs[i] \in Given \/ i = j
  BY DEF Moved
<1>13. old \subseteq Kept /\ stay \subseteq Kept
  OBVIOUS
<1> HIDE DEF stay, old
<1>14. Once'
  <2> SUFFICES ASSUME NEW m \in Kept', NEW k \in Kept',
                      NEW i \in 1..Len(node'[m].xs), NEW j \in 1..Len(node'[k].xs),
                      node'[m].xs[i] = node'[k].xs[j]
               PROVE  node'[node'[m].xs[i]].retained \/ (m = k /\ i = j)
    BY DEF Once
  <2>1. node'[m].xs[i] \in Nodes
    BY <1>2, <1>3, <1>4, PartsType
  <2>2. SUFFICES node'[m].xs[i] \in Given \/ (m = k /\ i = j)
    BY <1>3, <2>1
  <2>3. ASSUME NEW a \in stay, NEW c \in C, NEW x \in 1..Len(node'[a].xs), NEW y \in 1..Len(node'[c].xs),
               node'[a].xs[x] = node'[c].xs[y]
        PROVE  node'[c].xs[y] \in Given
    <3>1. node'[a] = node[a] /\ a \in Kept /\ a \notin old
      BY <1>7
    <3>2. PICK b \in old : \E z \in 1..Len(node[b].xs) : node[b].xs[z] = node'[c].xs[y]
      BY <1>9 DEF PartOf
    <3>3. b \in Kept /\ a # b
      BY <1>13, <3>1
    <3>4. node[node[a].xs[x]].retained /\ node[a].xs[x] \in Nodes
      BY <1>8, <2>3, <3>1, <3>2, <3>3 DEF Graph, Once
    <3> QED BY <1>1, <2>3, <3>1, <3>4
  <2>4. CASE m \in stay /\ k \in stay
    <3>1. node'[m] = node[m] /\ node'[k] = node[k] /\ m \in Kept /\ k \in Kept
      BY <1>7, <2>4
    <3>2. node[node[m].xs[i]].retained \/ (m = k /\ i = j)
      <4>1. i \in 1..Len(node[m].xs) /\ j \in 1..Len(node[k].xs) /\ node[m].xs[i] = node[k].xs[j]
        BY <3>1
      <4> QED BY <3>1, <4>1 DEF Graph, Once
    <3> QED BY <1>1, <2>1, <3>1, <3>2
  <2>5. CASE m \in stay /\ k \in C
    BY <2>3, <2>5
  <2>6. CASE m \in C /\ k \in stay
    BY <2>3, <2>6
  <2>7. CASE m \in C /\ k \in C
    BY <1>12, <2>7
  <2> QED BY <1>7, <2>4, <2>5, <2>6, <2>7
<1>15. Targets'
  <2> SUFFICES ASSUME NEW m \in Kept', NEW i \in 1..Len(node'[m].xs)
               PROVE  /\ node'[m].xs[i] \in Kept'
                      /\ node'[m].xs[i] \in Held' => node'[node'[m].xs[i]].retained
    BY DEF Targets
  <2> DEFINE n == node'[m].xs[i]
  <2>1. n \in Kept /\ n \notin gone /\ n \in Nodes /\ (n \in Held => n \in Given)
    <3>1. CASE m \in stay
      <4>1. node'[m] = node[m] /\ m \in Kept
        BY <1>7, <3>1
      <4>2. PartOf(stay, n)
        BY <3>1, <4>1 DEF PartOf
      <4> QED BY <1>8, <1>10, <4>1, <4>2
    <3>2. CASE m \in C
      <4>1. PartOf(old, n) /\ n \notin gone
        BY <1>9, <3>2
      <4>2. PICK b \in old : \E z \in 1..Len(node[b].xs) : node[b].xs[z] = n
        BY <4>1 DEF PartOf
      <4> HIDE DEF n
      <4> QED BY <1>8, <1>13, <4>1, <4>2
    <3> QED BY <1>7, <3>1, <3>2
  <2> HIDE DEF n
  <2>2. n \in Kept' /\ (n \in Held' => node'[n].retained)
    BY <1>3, <1>4, <1>12, <2>1
  <2> QED BY <2>2 DEF n
<1>16. Owned'
  <2> SUFFICES ASSUME NEW n \in Kept' \ Held', n \notin Given
               PROVE  \E m \in Kept' : \E i \in 1..Len(node'[m].xs) : node'[m].xs[i] = n
    BY <1>2, <1>3, <1>4 DEF Owned
  <2>1. n \in Kept /\ n \notin gone /\ n \notin Held /\ n \in Nodes
    BY <1>2, <1>4, <1>12
  <2>2. PICK m \in Kept : \E i \in 1..Len(node[m].xs) : node[m].xs[i] = n
    BY <1>1, <2>1 DEF Graph, Owned
  <2>3. CASE m \in stay
    <3>1. node'[m] = node[m]
      BY <1>7, <2>3
    <3>2. m \in Kept'
      BY <1>4, <2>3 DEF stay
    <3> QED BY <2>2, <3>1, <3>2
  <2>4. CASE m \in old
    <3>1. PartOf(old, n)
      BY <2>2, <2>4 DEF PartOf
    <3>2. \E c \in C : \E i \in 1..Len(node'[c].xs) : node'[c].xs[i] = n
      BY <1>10, <2>1, <3>1
    <3> QED BY <1>4, <3>2
  <2> QED BY <1>11, <2>3, <2>4
<1> QED BY <1>5, <1>6, <1>14, <1>15, <1>16 DEF Graph

----------------------------------------------------------------------------
(* Steps that leave the nodes alone *)

LEMMA GraphStays ==
    ASSUME Graph, UNCHANGED <<node, lost>>, Held' = Held, known' \in 0..Len(Args) + 1,
           left' \in 0..MaxNode
    PROVE  Graph'
<1>1. Kept' = Kept /\ Unretained' = Unretained /\ Live' = Live
  BY DEF Kept, Live, Unretained
<1>2. NodesType' /\ Kinds'
  BY <1>1 DEF Graph, NodesType, Kinds
<1>3. Once' /\ Targets' /\ Owned'
  BY <1>1 DEF Graph, Once, Targets, Owned
<1> QED BY <1>2, <1>3 DEF Graph

LEMMA LevelChanges ==
    ASSUME Sound, Text, 1 <= Len(vals), NEW level,
           vals' = Append(Others(1), [Last(vals) EXCEPT !.level = level]),
           UNCHANGED <<node, known, stmts>>, Same
    PROVE  Sound'
<1> DEFINE m == Len(vals) - 1
           v == Value(vals[Len(vals)].p, level, vals[Len(vals)].as)
           t == Append(SubSeq(vals, 1, m), v)
<1>1. /\ result = <<>> /\ left = 0 /\ Len(vals) \in Nat /\ Len(stmts) \in Nat
      /\ Held = {vals[i].p : i \in 1..Len(vals)} \cup {stmts[i].p : i \in 1..Len(stmts)}
      /\ Held \subseteq Kept \cap Unretained
  BY TextFacts
<1>2. PICK S : vals \in Seq(S)
  BY DEF Sound, Roots, RootsType
<1>3. /\ m \in 0..Len(vals) /\ m + 1 = Len(vals) /\ Len(vals) \in 1..Len(vals)
      /\ \A i \in 1..Len(vals) : i \in 1..m \/ i = Len(vals)
  BY <1>1
<1>4. vals' = t
  <2>1. Last(vals) = vals[Len(vals)]
    BY DEF Last
  <2>2. vals[Len(vals)] = Value(vals[Len(vals)].p, vals[Len(vals)].level, vals[Len(vals)].as)
    BY <1>3 DEF Sound, Roots, RootsType
  <2> DEFINE last == vals[Len(vals)]
  <2>3. last = [p |-> last.p, level |-> last.level, as |-> last.as]
    BY <2>2 DEF Value
  <2> HIDE DEF last
  <2>4. [last EXCEPT !.level = level] = [p |-> last.p, level |-> level, as |-> last.as]
    BY <2>3
  <2>5. v = [p |-> last.p, level |-> level, as |-> last.as]
    BY DEF Value, last
  <2>6. vals' = Append(SubSeq(vals, 1, m), [last EXCEPT !.level = level])
    BY <2>1 DEF Others, last
  <2> HIDE DEF v, m
  <2> QED BY <2>4, <2>5, <2>6
<1>5. v = Value(v.p, v.level, v.as) /\ v.p = vals[Len(vals)].p
  BY DEF Value
<1> HIDE DEF m, v
<1>6. /\ t \in Seq(S \cup {v}) /\ Len(t) = m + 1 /\ t[m + 1] = v
      /\ \A i \in 1..m : t[i] = vals[i]
  BY <1>2, <1>3, Replaced
<1> HIDE DEF t
<1>7. /\ Len(vals') = Len(vals)
      /\ \A i \in 1..Len(vals) : /\ vals'[i].p = vals[i].p
                                 /\ vals'[i] = Value(vals'[i].p, vals'[i].level, vals'[i].as)
  <2>1. \A i \in 1..m : i \in 1..Len(vals)
    BY <1>3
  <2> QED BY <1>3, <1>4, <1>5, <1>6, <2>1 DEF Sound, Roots, RootsType
<1>8. UNCHANGED <<stmts, result, left, lost, walk, pc, compiler>>
  BY DEF Same
<1>9. Held' = Held
  <2>1. {vals'[i].p : i \in 1..Len(vals')} = {vals[i].p : i \in 1..Len(vals)}
    BY <1>7
  <2> QED BY <1>8, <2>1 DEF Held
<1>10. Kept' = Kept /\ Unretained' = Unretained
  BY <1>8 DEF Kept, Live, Unretained
<1>11. Graph'
  BY <1>8, <1>9, GraphStays DEF Sound, Graph, NodesType
<1>12. RootsType'
  <2>1. \E T : vals' \in Seq(T)
    BY <1>4, <1>6
  <2> QED BY <2>1, <1>7, <1>8, <1>9, <1>10 DEF Sound, Roots, RootsType
<1>13. RootsOnce'
  BY <1>7, <1>8 DEF Sound, Roots, RootsOnce
<1>14. Phases'
  BY <1>8 DEF Sound, Roots, Phases, Text
<1> QED BY <1>11, <1>12, <1>13, <1>14 DEF Sound, Roots

LEMMA PlainKeeps == ASSUME Sound, Plain PROVE Sound'
<1>1. Text /\ 1 <= Len(vals)
  BY DEF Plain, AreLast
<1>2. /\ vals' = Append(Others(1), [Last(vals) EXCEPT !.level = "factor"])
      /\ UNCHANGED <<node, known, stmts>> /\ Same
  BY DEF Plain
<1> QED BY <1>1, <1>2, LevelChanges

LEMMA LastTermKeeps == ASSUME Sound, LastTerm PROVE Sound'
<1>1. Text /\ 1 <= Len(vals)
  BY DEF LastTerm, AreLast
<1>2. /\ vals' = Append(Others(1), [Last(vals) EXCEPT !.level = "grammar"])
      /\ UNCHANGED <<node, known, stmts>> /\ Same
  BY DEF LastTerm
<1> QED BY <1>1, <1>2, LevelChanges

LEMMA RuleKeeps ==
    ASSUME Sound, NEW x, NEW named, Rule(x, named)
    PROVE  Sound'
<1> DEFINE r == [ident |-> x, named |-> named, p |-> vals[1].p, as |-> vals[1].as]
           n == Len(stmts)
<1>1. /\ Text /\ Len(vals) = 1 /\ compiler = "lang" /\ stmts' = Append(stmts, r)
      /\ vals' = <<>> /\ UNCHANGED <<node, known>> /\ Same
  BY DEF Rule
<1>2. /\ result = <<>> /\ left = 0 /\ Len(stmts) \in Nat
      /\ Held = {vals[i].p : i \in 1..Len(vals)} \cup {stmts[i].p : i \in 1..Len(stmts)}
      /\ Held \subseteq Kept \cap Unretained
  BY <1>1, TextFacts
<1>3. PICK S : stmts \in Seq(S)
  BY DEF Sound, Roots, RootsType
<1>4. r = [ident |-> r.ident, named |-> r.named, p |-> r.p, as |-> r.as] /\ r.p = vals[1].p
  OBVIOUS
<1> HIDE DEF r
<1>5. /\ stmts' \in Seq(S \cup {r}) /\ Len(stmts') = n + 1 /\ stmts'[n + 1] = r
      /\ \A i \in 1..n : stmts'[i] = stmts[i]
  <2>1. stmts \in Seq(S \cup {r}) /\ r \in S \cup {r}
    BY <1>3, SeqMonotonic
  <2> QED BY <1>1, <2>1, AppendProperties
<1>6. UNCHANGED <<result, left, lost, walk, pc, compiler>>
  BY <1>1 DEF Same
<1>7. /\ \A i \in 1..n + 1 : i \in 1..n \/ i = n + 1
      /\ \A i \in 1..n : i \in 1..n + 1 /\ i # n + 1
      /\ n + 1 \in 1..n + 1
  BY <1>2
<1> HIDE DEF n
<1>8. Len(vals') = 0 /\ \E T : vals' \in Seq(T)
  <2>1. <<>> \in Seq({}) /\ Len(<<>>) = 0
    OBVIOUS
  <2> QED BY <1>1, <2>1
<1>9. {vals[i].p : i \in 1..Len(vals)} = {r.p}
  <2>1. 1..Len(vals) = {1}
    BY <1>1
  <2> QED BY <1>4, <2>1
<1>10. Held' = Held
  <2>1. {stmts'[i].p : i \in 1..Len(stmts')} = {stmts[i].p : i \in 1..Len(stmts)} \cup {r.p}
    BY <1>5, <1>7 DEF n
  <2>2. {vals'[i].p : i \in 1..Len(vals')} = {}
    BY <1>8
  <2>3. {result'[i].p : i \in 1..Len(result')} = {} /\ {left'} \ {0} = {}
    BY <1>2, <1>6
  <2> QED BY <1>2, <1>9, <2>1, <2>2, <2>3 DEF Held
<1>11. Kept' = Kept /\ Unretained' = Unretained
  BY <1>1, <1>6 DEF Kept, Live, Unretained
<1>12. Graph'
  BY <1>1, <1>6, <1>10, GraphStays DEF Sound, Graph, NodesType
<1>13. RootsType'
  <2>1. \A i \in 1..Len(stmts') : stmts'[i] =
           [ident |-> stmts'[i].ident, named |-> stmts'[i].named, p |-> stmts'[i].p, as |-> stmts'[i].as]
    BY <1>4, <1>5, <1>7 DEF Sound, Roots, RootsType, n
  <2>2. \E T : stmts' \in Seq(T)
    BY <1>5
  <2>3. \A i : i \notin 1..Len(vals')
    BY <1>8
  <2> QED BY <1>6, <1>8, <1>10, <1>11, <2>1, <2>2, <2>3 DEF Sound, Roots, RootsType
<1>14. RootsOnce'
  <2>1. \A i \in 1..n : stmts[i].p # r.p
    BY <1>1, <1>4 DEF Sound, Roots, RootsOnce, n
  <2>2. r.p # left
    <3>1. r.p \in Held
      BY <1>2, <1>9
    <3>2. 0 \notin Nodes
      BY NodeNumbers
    <3> QED BY <1>2, <3>1, <3>2 DEF Kept, Live
  <2>3. \A i : i \notin 1..Len(vals')
    BY <1>8
  <2>4. \A i, j \in 1..n : stmts[i].p = stmts[j].p => i = j
    BY DEF Sound, Roots, RootsOnce, n
  <2>5. \A i \in 1..n : stmts[i].p # left
    BY DEF Sound, Roots, RootsOnce, n
  <2> QED BY <1>5, <1>6, <1>7, <2>1, <2>2, <2>3, <2>4, <2>5 DEF RootsOnce
<1>15. Phases'
  BY <1>1, <1>6 DEF Sound, Roots, Phases, Text
<1> QED BY <1>12, <1>13, <1>14, <1>15 DEF Sound, Roots

LEMMA RulesReadKeeps == ASSUME Sound, RulesRead PROVE Sound'
<1>1. /\ Text /\ compiler = "lang" /\ vals = <<>> /\ pc' = "apply"
      /\ UNCHANGED <<node, walk, compiler, known, vals, stmts, left, result, lost>>
  BY DEF RulesRead
<1>2. Held' = Held /\ Kept' = Kept /\ Unretained' = Unretained
  BY <1>1 DEF Held, Kept, Live, Unretained
<1>3. Graph'
  BY <1>1, <1>2, GraphStays DEF Sound, Graph, NodesType
<1>4. RootsType' /\ RootsOnce'
  BY <1>1, <1>2, SMTT(20), ZenonT(40) DEF Sound, Roots, RootsType, RootsOnce
<1>5. Phases'
  BY <1>1 DEF Sound, Roots, Phases, Text
<1> QED BY <1>3, <1>4, <1>5 DEF Sound, Roots

LEMMA AllDefinedKeeps == ASSUME Sound, AllDefined PROVE Sound'
<1>1. /\ pc = "apply" /\ stmts = <<>> /\ pc' = "done"
      /\ UNCHANGED <<node, walk, compiler, known, vals, stmts, left, result, lost>>
  BY DEF AllDefined
<1>2. Held' = Held /\ Kept' = Kept /\ Unretained' = Unretained
  BY <1>1 DEF Held, Kept, Live, Unretained
<1>3. Graph'
  BY <1>1, <1>2, GraphStays DEF Sound, Graph, NodesType
<1>4. RootsType' /\ RootsOnce'
  BY <1>1, <1>2 DEF Sound, Roots, RootsType, RootsOnce
<1>5. Phases'
  <2>1. result = <<>> /\ vals = <<>> /\ left = 0 /\ walk = <<>>
    BY <1>1 DEF Sound, Roots, Phases
  <2>2. Len(<<>>) = 0
    OBVIOUS
  <2> QED BY <1>1, <2>1, <2>2 DEF Sound, Roots, Phases
<1> QED BY <1>3, <1>4, <1>5 DEF Sound, Roots

----------------------------------------------------------------------------
(* What is released, and what is lost *)

LEMMA PartsIn ==
    ASSUME NodesType
    PROVE  \A m \in Nodes : \A n : n \in PartsOf(m) <=> \E i \in 1..Len(node[m].xs) : node[m].xs[i] = n
<1> SUFFICES ASSUME NEW m \in Nodes, NEW n
             PROVE  n \in PartsOf(m) <=> \E i \in 1..Len(node[m].xs) : node[m].xs[i] = n
  OBVIOUS
<1>1. node[m].xs \in Seq(Nodes)
  BY DEF NodesType, IsNode
<1>2. DOMAIN node[m].xs = 1..Len(node[m].xs)
  BY <1>1
<1> QED BY <1>2, PartsAre

\* What belongs to nodes that were the compiler's, or parts of O, is in use, and is a part
\* of nothing else.
LEMMA TreesApart ==
    ASSUME Graph, Held \subseteq Kept, NEW S, NEW O \in SUBSET Kept,
           \A n \in S \cap Unretained : n \in Kept /\ (n \in Held \/ PartOf(O, n))
    PROVE  /\ Trees(S) \subseteq Kept \cap Unretained
           /\ \A n \in Trees(S) : ~PartOf(Kept \ (Trees(S) \cup O), n)
           /\ \A n : PartOf(Trees(S), n) => n \in Trees(S) \cup Given
           /\ \A n \in Trees(S) : n \in Held => n \in S
<1> DEFINE T == Trees(S)
<1>1. /\ \A n \in Nodes : node[n].retained <=> n \in Given
      /\ Kept \subseteq Nodes /\ Unretained \subseteq Nodes /\ \A n \in Unretained : ~node[n].retained
      /\ \A n \in Kept : n \in Unretained \/ n \in Given
  <2>1. Kept \subseteq Live /\ Live \subseteq Nodes
    BY DEF Kept, Live
  <2> QED BY <2>1, RetainedAre DEF Graph, Unretained
<1>2. \A m \in Nodes : \A n : n \in PartsOf(m) <=> \E i \in 1..Len(node[m].xs) : node[m].xs[i] = n
  BY PartsIn DEF Graph
<1>3. \A m \in Kept : \A i \in 1..Len(node[m].xs) :
         /\ node[m].xs[i] \in Kept /\ node[m].xs[i] \in PartsOf(m)
         /\ node[m].xs[i] \in Held => node[m].xs[i] \in Given
  BY <1>1, <1>2 DEF Graph, Targets
<1>4. T \subseteq Kept \cap Unretained
  <2>1. \A n \in Kept \cap Unretained : PartsOf(n) \cap Unretained \subseteq Kept \cap Unretained
    BY <1>1, <1>2, <1>3
  <2> DEFINE D == Kept \cap Unretained
  <2>2. S \cap Unretained \subseteq D /\ \A n \in D \cap Unretained : PartsOf(n) \cap Unretained \subseteq D
    BY <2>1
  <2> HIDE DEF D
  <2>3. Trees(S) \subseteq D
    BY <2>2, TreesLeast
  <2> QED BY <2>3 DEF D
<1>5. \A n \in T : n \notin S => \E m \in T : \E i \in 1..Len(node[m].xs) : node[m].xs[i] = n
  BY <1>1, <1>2, <1>4, TreesBack
<1>6. \A n \in T : n \in Held => n \in S
  BY <1>1, <1>3, <1>4, <1>5
<1>7. S \cap Unretained \subseteq T /\ \A n \in T : PartsOf(n) \cap Unretained \subseteq T
  BY TreesHold
<1> HIDE DEF T
<1>8. ASSUME NEW n, PartOf(T, n) PROVE n \in T \cup Given
  <2>1. PICK m \in T : \E i \in 1..Len(node[m].xs) : node[m].xs[i] = n
    BY <1>8 DEF PartOf
  <2>2. n \in Kept /\ n \in PartsOf(m)
    BY <1>3, <1>4, <2>1
  <2> QED BY <1>1, <1>7, <2>2
<1>9. ASSUME NEW n \in T, PartOf(Kept \ (T \cup O), n) PROVE FALSE
  <2>1. PICK m \in Kept \ (T \cup O) : \E i \in 1..Len(node[m].xs) : node[m].xs[i] = n
    BY <1>9 DEF PartOf
  <2>2. n \notin Held
    BY <1>1, <1>3, <1>4, <2>1
  <2>3. PartOf(T \cup O, n)
    <3>1. CASE n \in S
      BY <1>4, <2>2, <3>1 DEF PartOf
    <3>2. CASE n \notin S
      BY <1>5, <3>2 DEF PartOf
    <3> QED BY <3>1, <3>2
  <2>4. PICK k \in T \cup O : \E i \in 1..Len(node[k].xs) : node[k].xs[i] = n
    BY <2>3 DEF PartOf
  <2>5. k \in Kept /\ m # k
    BY <1>4, <2>1, <2>4
  <2>6. node[n].retained
    BY <2>1, <2>4, <2>5 DEF Graph, Once
  <2> QED BY <1>1, <1>4, <2>6
<1> QED BY <1>4, <1>6, <1>8, <1>9 DEF T

LEMMA InvalidKeeps ==
    ASSUME Sound, Invalid
    PROVE  Sound'
<1> DEFINE freed == Trees(Held)
           fails == compiler # "lang"
           C == IF fails THEN {New(1)} ELSE {}
<1>1. /\ Text /\ vals' = <<>> /\ stmts' = <<>>
      /\ UNCHANGED <<walk, compiler, predictive, known, left, rules, lost>>
  BY DEF Invalid
<1>2. /\ result = <<>> /\ left = 0 /\ walk = <<>> /\ pc = "text"
      /\ Held = {vals[i].p : i \in 1..Len(vals)} \cup {stmts[i].p : i \in 1..Len(stmts)}
      /\ Held \subseteq Kept \cap Unretained
  BY <1>1, TextFacts DEF Text
<1>3. IF fails
      THEN /\ HasRoom(1) /\ pc' = "result" /\ result' = <<[p |-> New(1), as |-> Failing]>>
           /\ \E e : node' = [Released(freed) EXCEPT ![New(1)] = Node("fail", e, e, <<>>)]
      ELSE node' = Released(freed) /\ result' = <<>> /\ pc' = "done"
  BY <1>2 DEF Invalid
<1>4. /\ freed \subseteq Kept \cap Unretained
      /\ \A n \in freed : ~PartOf(Kept \ freed, n)
      /\ \A n : PartOf(freed, n) => n \in freed \cup Given
      /\ Held \subseteq freed
  <2>1. \A n \in Held \cap Unretained : n \in Kept /\ (n \in Held \/ PartOf({}, n))
    BY <1>2
  <2>2. Held \subseteq Kept /\ {} \in SUBSET Kept
    BY <1>2
  <2>3. Kept \ (freed \cup {}) = Kept \ freed
    OBVIOUS
  <2>4. Held \subseteq freed
    BY <1>2, TreesHold
  <2> QED BY <2>1, <2>2, <2>3, <2>4, TreesApart DEF Sound, Graph
<1> HIDE DEF freed
<1>5. C \subseteq Unused /\ \A c, d \in C : c = d
  <2>1. CASE fails
    <3>1. 1 \in Nat /\ 1 \in 1..1
      OBVIOUS
    <3>2. HasRoom(1)
      BY <1>3, <2>1
    <3>3. New(1) \in Unused
      BY <3>1, <3>2, NewFacts
    <3> QED BY <3>3, <2>1
  <2>2. CASE ~fails
    BY <2>2
  <2> QED BY <2>1, <2>2
<1>6. /\ C \subseteq Nodes /\ C \cap Kept = {} /\ C \cap Live = {} /\ lost \subseteq Live
      /\ \A c \in C : ~node[c].retained
  <2>1. \A n \in Unused : ~node[n].retained
    BY RetainedAre DEF Unused, Sound, Graph, NodesType, Given
  <2> QED BY <1>5, <2>1 DEF Unused, Kept, Sound, Graph, NodesType, Unretained
<1>7. /\ Released(freed) = [n \in Nodes |-> Released(freed)[n]]
      /\ \A n \in Nodes : Released(freed)[n] = IF n \in freed THEN Free ELSE node[n]
  BY DEF Released
<1>8. /\ node' = [n \in Nodes |-> node'[n]]
      /\ \A n \in Nodes \ C : node'[n] = IF n \in freed THEN Free ELSE node[n]
      /\ \A c \in C : /\ IsNode(node'[c]) /\ node'[c].type = "fail" /\ ~node'[c].retained
                      /\ node'[c].xs = <<>>
  <2>1. CASE fails
    <3> DEFINE none == <<>>
               top == New(1)
    <3>1. PICK e : node' = [Released(freed) EXCEPT ![top] = Node("fail", e, e, none)]
      BY <1>3, <2>1
    <3>2. none \in Seq(Nodes)
      OBVIOUS
    <3>3. C = {top}
      BY <2>1
    <3>4. none = <<>>
      OBVIOUS
    <3> HIDE DEF none, top, C, fails
    <3>5. node' = [n \in Nodes |-> node'[n]] /\ node'[top] = Node("fail", e, e, none)
          /\ \A n \in Nodes \ C : node'[n] = Released(freed)[n]
      BY <1>6, <1>7, <3>1, <3>3
    <3>6. /\ IsNode(node'[top]) /\ node'[top].type = "fail" /\ ~node'[top].retained
          /\ node'[top].xs = none
      BY <3>2, <3>5, NodeIs
    <3> QED BY <1>7, <3>3, <3>4, <3>5, <3>6
  <2>2. CASE ~fails
    <3>1. node' = Released(freed) /\ C = {}
      BY <1>3, <2>2
    <3> QED BY <1>7, <3>1
  <2> QED BY <2>1, <2>2
<1>9. Held' = C
  <2>1. {vals'[i].p : i \in 1..Len(vals')} = {} /\ {stmts'[i].p : i \in 1..Len(stmts')} = {}
        /\ {left'} \ {0} = {}
    BY <1>1, <1>2
  <2>2. {result'[i].p : i \in 1..Len(result')} = C
    <3>1. CASE fails
      <4>1. result' = <<[p |-> New(1), as |-> Failing]>>
        BY <1>3, <3>1
      <4>2. 1..Len(result') = {1} /\ result'[1].p = New(1)
        BY <4>1
      <4> QED BY <3>1, <4>2
    <3>2. CASE ~fails
      BY <1>3, <3>2
    <3> QED BY <3>1, <3>2
  <2> QED BY <2>1, <2>2 DEF Held
<1> HIDE DEF C, fails
<1>10. Moved(freed, C)
  <2>1. Kept \cap (C \cup freed) = freed /\ Kept \cap (freed \cup C) = freed
        /\ Kept \ (freed \cup C) = Kept \ freed
    BY <1>4, <1>6
  <2>2. \A c \in C : \A i : i \notin 1..Len(node'[c].xs)
    BY <1>8
  <2>3. freed \subseteq Nodes /\ C \subseteq Nodes \ (freed \cup lost) /\ freed \cap C = {}
    BY <1>4, <1>6 DEF Kept, Live
  <2>4. \A n \in freed : n \notin lost' /\ node'[n] = Free
    BY <1>1, <1>4, <1>8, <2>3 DEF Kept
  <2>5. known' \in 0..Len(Args) + 1 /\ left' \in 0..MaxNode
    BY <1>1 DEF Sound, Graph, NodesType
  <2>6. \A n \in Nodes : PartOf(freed, n) => n \in freed \cup Given \cup Held'
    BY <1>4
  <2>7. /\ Held' \subseteq ((Held \cup (C \ Kept)) \ freed) \cup Given
        /\ (Held \cup (C \ Kept)) \ freed \subseteq Held' \cup Given
    BY <1>4, <1>6, <1>9, <2>3
  <2>8. \A c \in C :
          /\ IsNode(node'[c]) /\ node'[c].type # "free"
          /\ node'[c].retained <=> node[c].retained
          /\ node'[c].type \in {"pass", "lift"} => node'[c].xs = <<>>
    BY <1>6, <1>8
  <2>9. /\ node' = [n \in Nodes |-> node'[n]]
        /\ \A n \in Nodes \ C : node'[n] = node[n] \/ (n \in freed /\ node'[n] = Free)
    BY <1>8
  <2>10. lost \subseteq lost' /\ lost' \subseteq lost \cup freed
    BY <1>1
  <2> QED BY <1>4, <1>5, <2>1, <2>2, <2>3, <2>4, <2>5, <2>6, <2>7, <2>8, <2>9, <2>10,
            ZenonT(30) DEF Moved
<1>11. Graph'
  BY <1>2, <1>10, GraphMoves DEF Sound
<1>12. Held' \subseteq Kept' \cap Unretained'
  BY <1>1, <1>6, <1>8, <1>9 DEF Kept, Live, Unretained
<1>13. RootsType' /\ RootsOnce'
  <2>1. Len(vals') = 0 /\ Len(stmts') = 0 /\ <<>> \in Seq({})
    BY <1>1
  <2>2. \A i : i \notin 1..Len(vals') /\ i \notin 1..Len(stmts')
    BY <2>1
  <2>3. \E S : result' \in Seq(S)
    <3>1. CASE fails
      <4> DEFINE v == [p |-> New(1), as |-> Failing]
      <4>1. result' = <<v>>
        BY <1>3, <3>1
      <4> HIDE DEF v
      <4>2. <<v>> \in Seq({v})
        OBVIOUS
      <4> QED BY <4>1, <4>2
    <3>2. CASE ~fails
      <4>1. result' = <<>> /\ <<>> \in Seq({})
        BY <1>3, <3>2
      <4> QED BY <4>1
    <3> QED BY <3>1, <3>2
  <2> QED BY <1>1, <1>12, <2>1, <2>2, <2>3 DEF RootsType, RootsOnce
<1>14. Phases'
  <2>1. IF fails THEN pc' = "result" /\ Len(result') = 1 ELSE pc' = "done" /\ Len(result') = 0
    <3>1. Len(<<>>) = 0 /\ Len(<<[p |-> New(1), as |-> Failing]>>) = 1
      OBVIOUS
    <3> QED BY <1>3, <3>1
  <2>2. CASE fails
    <3>1. pc' = "result" /\ Len(result') = 1
      BY <2>1, <2>2
    <3>2. vals' = <<>> /\ stmts' = <<>> /\ walk' = <<>> /\ left' = 0
      BY <1>1, <1>2
    <3>3. Len(result') <= 1
      BY <3>1
    <3> QED BY <3>1, <3>2, <3>3 DEF Phases
  <2>3. CASE ~fails
    <3>1. pc' = "done" /\ Len(result') = 0 /\ result' = <<>>
      BY <1>3, <2>1, <2>3
    <3> QED BY <1>1, <1>2, <3>1 DEF Phases
  <2> QED BY <2>2, <2>3
<1> QED BY <1>11, <1>13, <1>14 DEF Sound, Roots

----------------------------------------------------------------------------
(* Steps after the text *)

LEMMA HeldIs ==
    ASSUME Sound
    PROVE  /\ 0 \notin Kept /\ Held \subseteq Kept
           /\ pc = "result" => /\ vals = <<>> /\ stmts = <<>> /\ left = 0 /\ Len(result) = 1
                               /\ Held = {result[1].p} /\ result[1].p \in Kept \cap Unretained
           /\ pc = "done" => vals = <<>> /\ stmts = <<>> /\ left = 0
           /\ pc \in {"apply", "define"} =>
                 /\ vals = <<>> /\ result = <<>> /\ Len(stmts) \in Nat
                 /\ Held = {stmts[i].p : i \in 1..Len(stmts)} \cup ({left} \ {0})
                 /\ \A i \in 1..Len(stmts) : stmts[i].p \in Kept \cap Unretained /\ stmts[i].p # left
<1>1. 0 \notin Kept /\ Held \subseteq Kept
  BY NodeNumbers DEF Kept, Live, Sound, Roots, RootsType
<1>2. ASSUME pc = "result"
      PROVE  /\ vals = <<>> /\ stmts = <<>> /\ left = 0 /\ Len(result) = 1
             /\ Held = {result[1].p} /\ result[1].p \in Kept \cap Unretained
  <2>1. vals = <<>> /\ stmts = <<>> /\ left = 0 /\ Len(result) = 1
    BY <1>2 DEF Sound, Roots, Phases
  <2>2. {vals[i].p : i \in 1..Len(vals)} = {} /\ {stmts[i].p : i \in 1..Len(stmts)} = {}
        /\ {left} \ {0} = {}
    BY <2>1
  <2>3. {result[i].p : i \in 1..Len(result)} = {result[1].p}
    <3>1. 1..Len(result) = {1}
      BY <2>1
    <3> QED BY <3>1
  <2>4. Held = {result[1].p}
    BY <2>2, <2>3 DEF Held
  <2>5. result[1].p \in Kept \cap Unretained
    BY <1>1, <2>1, <2>4 DEF Sound, Roots, RootsType
  <2> QED BY <2>1, <2>4, <2>5
<1>3. ASSUME pc \in {"apply", "define"}
      PROVE  /\ vals = <<>> /\ result = <<>> /\ Len(stmts) \in Nat
             /\ Held = {stmts[i].p : i \in 1..Len(stmts)} \cup ({left} \ {0})
             /\ \A i \in 1..Len(stmts) : stmts[i].p \in Kept \cap Unretained /\ stmts[i].p # left
  <2>1. vals = <<>> /\ result = <<>>
    BY <1>3 DEF Sound, Roots, Phases
  <2>2. Len(stmts) \in Nat
    BY DEF Sound, Roots, RootsType
  <2>3. {vals[i].p : i \in 1..Len(vals)} = {} /\ {result[i].p : i \in 1..Len(result)} = {}
    BY <2>1
  <2>4. Held = {stmts[i].p : i \in 1..Len(stmts)} \cup ({left} \ {0})
    BY <2>3 DEF Held
  <2>5. \A i \in 1..Len(stmts) : stmts[i].p # left
    BY DEF Sound, Roots, RootsOnce
  <2>6. Held \subseteq Kept /\ Held \ {left} \subseteq Unretained
    BY DEF Sound, Roots, RootsType
  <2> HIDE DEF Sound
  <2>7. \A i \in 1..Len(stmts) : stmts[i].p \in Held
    BY <2>4
  <2>8. \A i \in 1..Len(stmts) : stmts[i].p \in Kept \cap Unretained /\ stmts[i].p # left
    BY <2>5, <2>6, <2>7
  <2> QED BY <2>1, <2>2, <2>4, <2>8
<1>4. pc = "done" => vals = <<>> /\ stmts = <<>> /\ left = 0
  BY DEF Sound, Roots, Phases
<1> QED BY <1>1, <1>2, <1>3, <1>4

\* The parser of one result.
LEMMA ResultIs ==
    ASSUME NEW n, NEW as, NEW r, r = <<[p |-> n, as |-> as]>>
    PROVE  Len(r) = 1 /\ r[1].p = n /\ 1..Len(r) = {1} /\ \E S : r \in Seq(S)
<1> DEFINE v == [p |-> n, as |-> as]
<1>1. v.p = n /\ r = <<v>>
  OBVIOUS
<1> HIDE DEF v
<1>2. Len(<<v>>) = 1 /\ <<v>>[1] = v /\ <<v>> \in Seq({v}) /\ 1..Len(<<v>>) = {1}
  OBVIOUS
<1> QED BY <1>1, <1>2

LEMMA TextEndsKeeps == ASSUME Sound, TextEnds PROVE Sound'
<1> DEFINE r == <<[p |-> vals[1].p, as |-> vals[1].as]>>
<1>1. /\ Text /\ compiler # "lang" /\ Len(vals) = 1 /\ result' = r /\ vals' = <<>> /\ pc' = "result"
      /\ UNCHANGED <<node, compiler, known, stmts, left, lost>>
  BY DEF TextEnds
<1>2. /\ result = <<>> /\ left = 0
      /\ Held = {vals[i].p : i \in 1..Len(vals)} \cup {stmts[i].p : i \in 1..Len(stmts)}
      /\ Held \subseteq Kept \cap Unretained
  BY <1>1, TextFacts
<1>3. stmts = <<>>
  BY <1>1 DEF Sound, Roots, Phases
<1>4. Held = {vals[1].p}
  <2>1. {vals[i].p : i \in 1..Len(vals)} = {vals[1].p}
    <3>1. 1..Len(vals) = {1}
      BY <1>1
    <3> QED BY <3>1
  <2>2. {stmts[i].p : i \in 1..Len(stmts)} = {}
    BY <1>3
  <2> QED BY <1>2, <2>1, <2>2
<1>5. Len(r) = 1 /\ r[1].p = vals[1].p /\ 1..Len(r) = {1} /\ \E S : r \in Seq(S)
  BY ResultIs, ZenonT(30)
<1> HIDE DEF r
<1>6. Held' = Held
  <2>1. {vals'[i].p : i \in 1..Len(vals')} = {} /\ {stmts'[i].p : i \in 1..Len(stmts')} = {}
        /\ {left'} \ {0} = {}
    BY <1>1, <1>2, <1>3
  <2>2. {result'[i].p : i \in 1..Len(result')} = {vals[1].p}
    BY <1>1, <1>5
  <2> QED BY <1>4, <2>1, <2>2 DEF Held
<1>7. Kept' = Kept /\ Unretained' = Unretained
  BY <1>1 DEF Kept, Live, Unretained
<1>8. Graph'
  BY <1>1, <1>6, GraphStays DEF Sound, Graph, NodesType
<1>9. RootsType' /\ RootsOnce'
  <2>1. \A i : i \notin 1..Len(vals') /\ i \notin 1..Len(stmts')
    BY <1>1, <1>3
  <2>2. \E S : vals' \in Seq(S)
    <3>1. <<>> \in Seq({})
      OBVIOUS
    <3> QED BY <1>1, <3>1
  <2> QED BY <1>1, <1>2, <1>5, <1>6, <1>7, <2>1, <2>2 DEF RootsType, RootsOnce, Sound, Roots
<1>10. Phases'
  <2>1. pc' = "result" /\ Len(result') = 1 /\ stmts' = <<>> /\ vals' = <<>> /\ left' = 0
    BY <1>1, <1>2, <1>3, <1>5
  <2>2. Len(result') <= 1
    BY <2>1
  <2> QED BY <2>1, <2>2 DEF Phases
<1> QED BY <1>8, <1>9, <1>10 DEF Sound, Roots

LEMMA ReturnResultKeeps == ASSUME Sound, ReturnResult PROVE Sound'
<1>1. /\ pc = "result" /\ walk = <<>> /\ pc' = "done"
      /\ UNCHANGED <<walk, compiler, predictive, known, vals, stmts, left, lost>>
  BY DEF ReturnResult
<1>2. /\ vals = <<>> /\ stmts = <<>> /\ left = 0 /\ Len(result) = 1 /\ 0 \notin Kept /\ Held \subseteq Kept
      /\ Held = {result[1].p} /\ result[1].p \in Kept \cap Unretained
  BY <1>1, HeldIs
<1> SUFFICES Graph' /\ Held' \subseteq Kept' \cap Unretained' /\ Len(result') = 1 /\ \E S : result' \in Seq(S)
  <2>1. \A i : i \notin 1..Len(vals') /\ i \notin 1..Len(stmts')
    BY <1>1, <1>2
  <2>2. ASSUME Held' \subseteq Kept' \cap Unretained', \E S : result' \in Seq(S)
        PROVE  RootsType' /\ RootsOnce'
    BY <1>1, <2>1, <2>2 DEF Sound, Roots, RootsType, RootsOnce
  <2>3. ASSUME Len(result') = 1 PROVE Phases'
    <3>1. pc' = "done" /\ Len(result') = 1 /\ stmts' = <<>> /\ vals' = <<>> /\ left' = 0 /\ walk' = <<>>
      BY <1>1, <1>2, <2>3
    <3>2. Len(result') <= 1
      BY <3>1
    <3> QED BY <3>1, <3>2 DEF Phases
  <2> QED BY <2>2, <2>3 DEF Sound, Roots
<1>3. CASE ~predictive
  <2>1. UNCHANGED <<node, result>>
    BY <1>3 DEF ReturnResult
  <2>2. Held' = Held /\ Kept' = Kept /\ Unretained' = Unretained
    BY <1>1, <2>1 DEF Held, Kept, Live, Unretained
  <2>3. Graph'
    BY <1>1, <2>1, <2>2, GraphStays DEF Sound, Graph, NodesType
  <2> QED BY <1>2, <2>1, <2>2, <2>3 DEF Sound, Roots, RootsType
<1>4. CASE predictive
  <2> DEFINE top == New(1)
             F == {top}
             xs == <<result[1].p>>
             old == result[1].p
  <2>1. PICK e : node' = [node EXCEPT ![top] = Node("predict", e, e, xs)]
    BY <1>4 DEF ReturnResult
  <2>2. PICK as : result' = <<[p |-> top, as |-> as]>>
    BY <1>4 DEF ReturnResult
  <2>3. Len(result') = 1 /\ result'[1].p = top /\ 1..Len(result') = {1} /\ \E S : result' \in Seq(S)
    <3> HIDE DEF top
    <3> QED BY <2>2, ResultIs
  <2>4. top \in Unused
    <3>1. 1 \in Nat /\ 1 \in 1..1
      OBVIOUS
    <3>2. HasRoom(1)
      BY <1>4 DEF ReturnResult
    <3> QED BY <3>1, <3>2, NewFacts
  <2>5. old \in Nodes /\ old \in Kept /\ old \notin Given /\ ~node[old].retained
    BY <1>2, RetainedAre DEF Kept, Live, Sound, Graph, Unretained
  <2>6. xs \in Seq(Nodes) /\ (\A i \in 1..Len(xs) : i = 1 /\ xs[i] = old) /\ 1 \in 1..Len(xs)
    BY <2>5
  <2> HIDE DEF top, xs, old
  <2>7. /\ top \in Nodes /\ top \notin Live /\ top \notin Given /\ top \notin Kept /\ lost \subseteq Live
    BY <2>4 DEF Unused, Sound, Graph, NodesType, Given, Kept, Unretained
  <2>8. /\ node' = [n \in Nodes |-> node'[n]] /\ \A n \in Nodes \ F : node'[n] = node[n]
        /\ node'[top] = Node("predict", e, e, xs)
    BY <2>1, <2>7 DEF Sound, Graph, NodesType
  <2>9. /\ IsNode(node'[top]) /\ node'[top].type = "predict" /\ node'[top].xs = xs
        /\ ~node'[top].retained
    BY <2>6, <2>8, NodeIs
  <2>10. Held' = {top} /\ Held = {old}
    <3>1. {vals'[i].p : i \in 1..Len(vals')} = {} /\ {stmts'[i].p : i \in 1..Len(stmts')} = {}
          /\ {left'} \ {0} = {}
      BY <1>1, <1>2
    <3>2. {result'[i].p : i \in 1..Len(result')} = {top}
      BY <2>3
    <3> QED BY <1>2, <3>1, <3>2 DEF Held, old
  <2>11. ((Held \cup F) \ Held') \ Given = {old}
    BY <2>5, <2>7, <2>10
  <2>12. \A f \in F : \A i \in 1..Len(node'[f].xs) : i = 1 /\ node'[f].xs[i] = old
    BY <2>6, <2>9
  <2>13. \E f \in F : \E i \in 1..Len(node'[f].xs) : node'[f].xs[i] = old
    BY <2>6, <2>9
  <2>14. \A f, g \in F : f = g
    OBVIOUS
  <2>15. \A f \in F : /\ IsNode(node'[f]) /\ node'[f].type # "free" /\ ~node'[f].retained
                      /\ node'[f].type \notin {"pass", "lift"}
    BY <2>9
  <2>16. F \subseteq Unused /\ Held' \subseteq F
    BY <2>4, <2>10
  <2>17. known' \in 0..Len(Args) + 1 /\ left' \in 0..MaxNode /\ lost' = lost
    BY <1>1 DEF Sound, Graph, NodesType
  <2> HIDE DEF F
  <2>18. Built(F)
    BY <2>8, <2>11, <2>12, <2>13, <2>14, <2>15, <2>16, <2>17 DEF Built
  <2>19. Graph'
    BY <1>2, <2>18, GraphGrows DEF Sound
  <2>20. Held' \subseteq Kept' \cap Unretained'
    BY <2>7, <2>9, <2>10, <2>17 DEF Kept, Live, Unretained
  <2> QED BY <2>3, <2>19, <2>20
<1> QED BY <1>3, <1>4

\* The first element is replaced.
LEMMA HeadReplaced ==
    ASSUME NEW S, NEW s \in Seq(S), s # <<>>, NEW v
    PROVE  /\ <<v>> \o Tail(s) \in Seq(S \cup {v}) /\ Len(<<v>> \o Tail(s)) = Len(s)
           /\ (<<v>> \o Tail(s))[1] = v
           /\ \A i \in 1..Len(s) : i # 1 => (<<v>> \o Tail(s))[i] = s[i]
<1> DEFINE t == Tail(s)
           w == <<v>>
<1>1. /\ t \in Seq(S) /\ Len(t) = Len(s) - 1 /\ Len(s) \in Nat \ {0}
      /\ \A i \in 1..Len(t) : t[i] = s[i + 1]
  BY HeadTailProperties, EmptySeq
<1>2. w \in Seq({v}) /\ Len(w) = 1 /\ w[1] = v
  OBVIOUS
<1> HIDE DEF t, w
<1>3. t \in Seq(S \cup {v}) /\ w \in Seq(S \cup {v})
  BY <1>1, <1>2, SeqMonotonic
<1>4. /\ w \o t \in Seq(S \cup {v}) /\ Len(w \o t) = Len(w) + Len(t)
      /\ \A i \in 1..Len(w) + Len(t) : (w \o t)[i] = IF i <= Len(w) THEN w[i] ELSE t[i - Len(w)]
  BY <1>3, ConcatProperties
<1>5. Len(w \o t) = Len(s)
  BY <1>1, <1>2, <1>4
<1>6. (w \o t)[1] = v
  <2>1. 1 \in 1..Len(w) + Len(t) /\ 1 <= Len(w)
    BY <1>1, <1>2
  <2> QED BY <1>2, <1>4, <2>1
<1>7. ASSUME NEW i \in 1..Len(s), i # 1 PROVE (w \o t)[i] = s[i]
  <2>1. /\ i \in 1..Len(w) + Len(t) /\ ~(i <= Len(w)) /\ i - Len(w) \in 1..Len(t)
        /\ i - Len(w) + 1 = i
    BY <1>1, <1>2, <1>7
  <2> QED BY <1>1, <1>4, <2>1
<1> QED BY <1>4, <1>5, <1>6, <1>7 DEF t, w

LEMMA RuleChanged ==
    ASSUME NEW r, r = [ident |-> r.ident, named |-> r.named, p |-> r.p, as |-> r.as], NEW n, NEW a
    PROVE  [r EXCEPT !.p = n, !.as = a] = [ident |-> r.ident, named |-> r.named, p |-> n, as |-> a]
<1> DEFINE t == [r EXCEPT !.p = n]
<1>1. [r EXCEPT !.p = n, !.as = a] = [t EXCEPT !.as = a]
  OBVIOUS
<1>2. t = [ident |-> r.ident, named |-> r.named, p |-> n, as |-> r.as]
  OBVIOUS
<1> HIDE DEF t
<1>3. [t EXCEPT !.as = a] = [ident |-> r.ident, named |-> r.named, p |-> n, as |-> a]
  BY <1>2
<1> QED BY <1>1, <1>3

LEMMA WrapsAre ==
    ASSUME NEW rule
    PROVE  Wrappers(rule) \in Seq({"predict", "expect"})
<1> DEFINE S == {"predict", "expect"}
           x == IF predictive THEN <<"predict">> ELSE <<>>
           y == IF rule.named THEN <<"expect">> ELSE <<>>
<1>1. x \in Seq(S) /\ y \in Seq(S)
  <2>1. <<"predict">> \in Seq(S) /\ <<"expect">> \in Seq(S) /\ <<>> \in Seq(S)
    OBVIOUS
  <2> HIDE DEF S
  <2> QED BY <2>1
<1>2. Wrappers(rule) = x \o y
  BY DEF Wrappers
<1> HIDE DEF x, y, S
<1>3. x \o y \in Seq(S)
  BY <1>1, ConcatProperties
<1> QED BY <1>2, <1>3 DEF S

LEMMA SingleIs ==
    ASSUME NEW x \in Nodes
    PROVE  /\ <<x>> \in Seq(Nodes) /\ 1 \in 1..Len(<<x>>)
           /\ \A i \in 1..Len(<<x>>) : i = 1 /\ <<x>>[i] = x
OBVIOUS

\* The nodes a rule is wrapped in make a chain that ends in its parser; one more is what a
\* rule for nobody defines.
Wrapped(rule, k, new, top, F) ==
    /\ k \in Nat /\ top = IF k = 0 THEN rule.p ELSE new[k]
    /\ \A i \in 1..k : new[i] \in F
    /\ \A i, j \in 1..k : new[i] = new[j] => i = j
    /\ F \subseteq Unused
    /\ node' = [n \in Nodes |-> node'[n]] /\ \A n \in Nodes \ F : node'[n] = node[n]
    /\ \A i \in 1..k :
          /\ IsNode(node'[new[i]]) /\ node'[new[i]].type \in {"predict", "expect"}
          /\ ~node'[new[i]].retained
          /\ node'[new[i]].xs = <<IF i = 1 THEN rule.p ELSE new[i - 1]>>
    /\ \A f \in F : (\E i \in 1..k : f = new[i]) \/ f = left'
    /\ left' # top
    /\ \/ left' \in Given
       \/ /\ left' \in F /\ \A i \in 1..k : left' # new[i]
          /\ IsNode(node'[left']) /\ node'[left'].type = "fail"
          /\ ~node'[left'].retained /\ node'[left'].xs = <<>>
    /\ walk' = <<[p |-> top, parts |-> node'[top].xs]>>
    /\ \E as : stmts' =
          <<[ident |-> rule.ident, named |-> rule.named, p |-> top, as |-> as]>> \o Tail(stmts)

LEMMA ApplyRuleMakes ==
    ASSUME Sound, ApplyRule
    PROVE  \E k, new, top, F : Wrapped(stmts[1], k, new, top, F)
<1> DEFINE rule  == stmts[1]
           found == FindName(rule.ident).p
           wraps == Wrappers(rule)
           k     == Len(wraps)
           fails == found = 0
           n     == k + IF fails THEN 1 ELSE 0
           new   == [i \in 1..n |-> New(i)]
           top   == IF k = 0 THEN rule.p ELSE new[k]
           F     == {new[i] : i \in 1..n}
           prev  == [i \in 1..k |-> IF i = 1 THEN rule.p ELSE new[i - 1]]
           none  == <<>>
           c(m)  == CHOOSE i \in 1..k : m = New(i)
<1>1. pc = "apply" /\ stmts # <<>> /\ HasRoom(Needed(rule)) /\ Head(stmts) = rule
  <2>1. pc = "apply" /\ stmts # <<>> /\ HasRoom(Needed(Head(stmts)))
    BY DEF ApplyRule
  <2>2. Head(stmts) = rule
    <3>1. PICK S : stmts \in Seq(S)
      BY DEF Sound, Roots, RootsType
    <3> QED BY <2>1, <3>1
  <2> QED BY <2>1, <2>2
<1>2. k \in Nat /\ \A i \in 1..k : wraps[i] \in {"predict", "expect"}
  <2>1. wraps \in Seq({"predict", "expect"})
    BY WrapsAre
  <2> HIDE DEF wraps
  <2> QED BY <2>1
<1>3. n = Needed(rule)
  BY DEF Needed
<1>4. PICK e : node' =
        [m \in Nodes |->
           IF \E i \in 1..k : m = New(i)
           THEN Node(wraps[c(m)], e, e, <<IF c(m) = 1 THEN rule.p ELSE New(c(m) - 1)>>)
           ELSE IF (IF fails THEN 1 ELSE 0) = 1 /\ m = New(k + 1) THEN Node("fail", e, e, none)
           ELSE node[m]]
  BY <1>1 DEF ApplyRule
<1>5. left' = IF (IF fails THEN 1 ELSE 0) = 1 THEN New(k + 1) ELSE found
  BY <1>1, SMTT(20), ZenonT(40) DEF ApplyRule
<1>6. walk' = <<[p |-> (IF k = 0 THEN rule.p ELSE New(k)),
                 parts |-> node'[IF k = 0 THEN rule.p ELSE New(k)].xs]>>
  BY <1>1 DEF ApplyRule
<1>7. \E as : stmts' = <<[rule EXCEPT !.p = IF k = 0 THEN rule.p ELSE New(k), !.as = as]>> \o Tail(stmts)
  BY <1>1 DEF ApplyRule
<1>8. /\ n \in Nat /\ \A i \in 1..k : i \in 1..n /\ k \in 1..k \cup {0}
      /\ \A i \in 1..k : i # 1 => i - 1 \in 1..k /\ i - 1 \in 1..n
      /\ k # 0 => k \in 1..k
      /\ fails => k + 1 \in 1..n /\ \A i \in 1..k : i # k + 1
      /\ \A i \in 1..n : i \in 1..k \/ (fails /\ i = k + 1)
  BY <1>2
<1>9. /\ \A i \in 1..n : New(i) \in Unused
      /\ \A i, j \in 1..n : New(i) = New(j) => i = j
  BY <1>1, <1>3, <1>8, NewFacts
<1>10. \A i \in 1..n : new[i] = New(i)
  OBVIOUS
<1>11. /\ \A i \in 1..n : new[i] \in Unused /\ new[i] \in F /\ new[i] \in Nodes /\ new[i] \notin Live
       /\ \A i, j \in 1..n : new[i] = new[j] => i = j
  BY <1>9 DEF Unused
<1>12. /\ rule = [ident |-> rule.ident, named |-> rule.named, p |-> rule.p, as |-> rule.as]
       /\ rule.p \in Nodes /\ rule.p \in Live /\ rule.p \notin Given
  <2>1. 1 \in 1..Len(stmts)
    <3>1. PICK S : stmts \in Seq(S)
      BY DEF Sound, Roots, RootsType
    <3>2. Len(stmts) \in Nat \ {0}
      BY <1>1, <3>1, EmptySeq
    <3> QED BY <3>2
  <2>2. rule.p \in Kept \cap Unretained
    BY <1>1, <2>1, HeldIs
  <2>3. rule = [ident |-> rule.ident, named |-> rule.named, p |-> rule.p, as |-> rule.as]
    BY <2>1 DEF Sound, Roots, RootsType
  <2>4. rule.p \in Nodes /\ rule.p \in Live /\ rule.p \notin Given
    BY <2>2, RetainedAre DEF Kept, Live, Unretained, Sound, Graph
  <2> HIDE DEF rule
  <2> QED BY <2>3, <2>4
<1>13. found \in 0..Len(Args) /\ (found \in Given \/ fails)
  BY FoundIs DEF Sound, Graph, Given
<1>14. \A m \in Given : m \in Live
  BY DEF Given, Sound, Graph, NodesType
<1>15. top = IF k = 0 THEN rule.p ELSE New(k)
  BY <1>8, <1>10
<1>16. left' = IF fails THEN new[k + 1] ELSE found
  <2>1. ((IF fails THEN 1 ELSE 0) = 1) <=> fails
    BY <1>8
  <2> QED BY <1>5, <1>8, <1>10, <2>1
<1>17. \A i \in 1..k : prev[i] \in Nodes
  BY <1>8, <1>11, <1>12
<1>18. none = <<>>
  OBVIOUS
<1>34. none \in Seq(Nodes)
  OBVIOUS
<1> HIDE DEF none
<1>19. \A i \in 1..k : node'[new[i]] = Node(wraps[i], e, e, <<prev[i]>>)
  <2> SUFFICES ASSUME NEW i \in 1..k PROVE node'[new[i]] = Node(wraps[i], e, e, <<prev[i]>>)
    OBVIOUS
  <2>1. new[i] = New(i) /\ i \in 1..n /\ new[i] \in Nodes /\ \E j \in 1..k : new[i] = New(j)
    BY <1>8, <1>11
  <2>2. c(new[i]) = i
    <3> HIDE DEF new
    <3>1. \A j \in 1..k : new[i] = New(j) => j = i
      BY <1>8, <1>9, <2>1
    <3> QED BY <2>1, <3>1
  <2>3. prev[i] = IF i = 1 THEN rule.p ELSE New(i - 1)
    <3>1. i # 1 => i - 1 \in 1..n
      BY <1>8
    <3> QED BY <1>10, <3>1
  <2> HIDE DEF c, new, prev, rule, wraps, k
  <2>4. node'[new[i]] = Node(wraps[c(new[i])], e, e,
                             <<IF c(new[i]) = 1 THEN rule.p ELSE New(c(new[i]) - 1)>>)
    BY <1>4, <2>1
  <2> QED BY <2>2, <2>3, <2>4
<1>20. fails => node'[new[k + 1]] = Node("fail", e, e, none)
  <2> SUFFICES ASSUME fails PROVE node'[new[k + 1]] = Node("fail", e, e, none)
    OBVIOUS
  <2>1. new[k + 1] = New(k + 1) /\ new[k + 1] \in Nodes
    BY <1>8, <1>10, <1>11
  <2>2. ~\E i \in 1..k : new[k + 1] = New(i)
    BY <1>8, <1>9, <1>10
  <2> HIDE DEF c, new
  <2>3. (IF fails THEN 1 ELSE 0) = 1
    OBVIOUS
  <2> HIDE DEF fails, k, wraps, rule
  <2> QED BY <1>4, <2>1, <2>2, <2>3
<1>21. node' = [m \in Nodes |-> node'[m]] /\ \A m \in Nodes \ F : node'[m] = node[m]
  <2>1. node' = [m \in Nodes |-> node'[m]]
    BY <1>4
  <2>2. ASSUME NEW m \in Nodes \ F PROVE node'[m] = node[m]
    <3>1. ~\E i \in 1..k : m = New(i)
      BY <1>8, <1>10, <1>11
    <3>2. ~((IF fails THEN 1 ELSE 0) = 1 /\ m = New(k + 1))
      BY <1>8, <1>10, <1>11
    <3> HIDE DEF c, F, fails, k, wraps, rule
    <3> QED BY <1>4, <3>1, <3>2
  <2> QED BY <2>1, <2>2
<1> HIDE DEF new, F
<1>22. \A i \in 1..k :
          /\ IsNode(node'[new[i]]) /\ node'[new[i]].type \in {"predict", "expect"}
          /\ ~node'[new[i]].retained /\ node'[new[i]].xs = <<prev[i]>>
  <2> SUFFICES ASSUME NEW i \in 1..k
               PROVE  /\ IsNode(node'[new[i]]) /\ node'[new[i]].type \in {"predict", "expect"}
                      /\ ~node'[new[i]].retained /\ node'[new[i]].xs = <<prev[i]>>
    OBVIOUS
  <2> DEFINE xs == <<prev[i]>>
             type == wraps[i]
  <2>1. xs \in Seq(Nodes)
    BY <1>17, SingleIs
  <2>2. node'[new[i]] = Node(type, e, e, xs) /\ type \in {"predict", "expect"}
    BY <1>2, <1>19
  <2> HIDE DEF xs, type
  <2>3. /\ IsNode(node'[new[i]]) /\ node'[new[i]].type = type /\ node'[new[i]].xs = xs
        /\ ~node'[new[i]].retained
    BY <2>1, <2>2, NodeIs
  <2> QED BY <2>2, <2>3 DEF xs
<1>23. fails => /\ IsNode(node'[new[k + 1]]) /\ node'[new[k + 1]].type = "fail"
                /\ ~node'[new[k + 1]].retained /\ node'[new[k + 1]].xs = <<>>
  <2> SUFFICES ASSUME fails
               PROVE  /\ IsNode(node'[new[k + 1]]) /\ node'[new[k + 1]].type = "fail"
                      /\ ~node'[new[k + 1]].retained /\ node'[new[k + 1]].xs = none
    BY <1>18
  <2> DEFINE f == new[k + 1]
  <2>1. node'[f] = Node("fail", e, e, none)
    BY <1>20
  <2> HIDE DEF f
  <2>2. /\ IsNode(node'[f]) /\ node'[f].type = "fail" /\ node'[f].xs = none /\ ~node'[f].retained
    BY <1>34, <2>1, NodeIs
  <2> QED BY <2>2 DEF f
<1>24. left' # top /\ (left' \in Given \/ (fails /\ left' = new[k + 1] /\ left' \in F
                                            /\ \A i \in 1..k : left' # new[i]))
  <2>1. CASE fails
    <3>1. new[k + 1] \in F /\ new[k + 1] \notin Live /\ \A i \in 1..k : new[k + 1] # new[i]
      BY <1>8, <1>11, <2>1
    <3>2. left' = new[k + 1]
      BY <1>16, <2>1
    <3>3. top = rule.p \/ (k \in 1..k /\ top = new[k])
      BY <1>8
    <3> QED BY <1>12, <2>1, <3>1, <3>2, <3>3
  <2>2. CASE ~fails
    <3>1. left' \in Given /\ left' \in Live
      BY <1>13, <1>14, <1>16, <2>2
    <3>2. top = rule.p \/ (k \in 1..k /\ top = new[k])
      BY <1>8
    <3>3. top \notin Given
      BY <1>8, <1>11, <1>12, <1>14, <3>2
    <3> QED BY <3>1, <3>3
  <2> QED BY <2>1, <2>2
<1>25. \A f \in F : (\E i \in 1..k : f = new[i]) \/ f = left'
  BY <1>8, <1>16 DEF F
<1>26. \A i \in 1..k : node'[new[i]].xs = <<IF i = 1 THEN rule.p ELSE new[i - 1]>>
  BY <1>22
<1>27. walk' = <<[p |-> top, parts |-> node'[top].xs]>>
  BY <1>6, <1>15
<1>28. \E as : stmts' = <<[ident |-> rule.ident, named |-> rule.named, p |-> top, as |-> as]>> \o Tail(stmts)
  <2>1. PICK as : stmts' = <<[rule EXCEPT !.p = top, !.as = as]>> \o Tail(stmts)
    BY <1>7, <1>15
  <2> HIDE DEF rule, top
  <2>2. [rule EXCEPT !.p = top, !.as = as] = [ident |-> rule.ident, named |-> rule.named, p |-> top, as |-> as]
    BY <1>12, RuleChanged
  <2> QED BY <2>1, <2>2
<1>29. F \subseteq Unused /\ \A i \in 1..k : new[i] \in F
  BY <1>8, <1>11 DEF F
<1>30. \A i, j \in 1..k : new[i] = new[j] => i = j
  BY <1>8, <1>11
<1>31. k \in Nat /\ top = IF k = 0 THEN rule.p ELSE new[k]
  BY <1>2
<1> HIDE DEF k, rule, top, prev, fails
<1>32. \A i \in 1..k :
          /\ IsNode(node'[new[i]]) /\ node'[new[i]].type \in {"predict", "expect"}
          /\ ~node'[new[i]].retained
          /\ node'[new[i]].xs = <<IF i = 1 THEN rule.p ELSE new[i - 1]>>
  BY <1>22, <1>26
<1>33. \/ left' \in Given
       \/ /\ left' \in F /\ \A i \in 1..k : left' # new[i]
          /\ IsNode(node'[left']) /\ node'[left'].type = "fail"
          /\ ~node'[left'].retained /\ node'[left'].xs = <<>>
  BY <1>23, <1>24
<1>35. Wrapped(rule, k, new, top, F)
  BY <1>21, <1>24, <1>25, <1>27, <1>28, <1>29, <1>30, <1>31, <1>32, <1>33 DEF Wrapped
<1> QED BY <1>35 DEF rule

LEMMA ApplyRuleKeeps == ASSUME Sound, ApplyRule PROVE Sound'
<1> DEFINE rule == stmts[1]
           n    == Len(stmts)
           rest == {stmts[i].p : i \in 2..n}
<1>1. /\ pc = "apply" /\ stmts # <<>> /\ known' = FindName(Head(stmts).ident).known /\ pc' = "define"
      /\ UNCHANGED <<compiler, predictive, vals, result, rules, lost>>
  BY DEF ApplyRule
<1>2. PICK k, new, top, F : Wrapped(rule, k, new, top, F)
  BY ApplyRuleMakes
<1>3. /\ vals = <<>> /\ result = <<>> /\ n \in Nat /\ 0 \notin Kept /\ Held \subseteq Kept
      /\ Held = {stmts[i].p : i \in 1..n} \cup ({left} \ {0})
      /\ \A i \in 1..n : stmts[i].p \in Kept \cap Unretained /\ stmts[i].p # left
  BY <1>1, HeldIs
<1>4. left = 0 /\ compiler = "lang"
  BY <1>1 DEF Sound, Roots, Phases
<1>5. PICK S : stmts \in Seq(S)
  BY DEF Sound, Roots, RootsType
<1>6. n \in Nat \ {0} /\ 1 \in 1..n
  <2>1. n \in Nat \ {0}
    BY <1>1, <1>5, EmptySeq
  <2> HIDE DEF n
  <2> QED BY <2>1
<1>7. PICK as : stmts' = <<[ident |-> rule.ident, named |-> rule.named, p |-> top, as |-> as]>> \o Tail(stmts)
  BY <1>2 DEF Wrapped
<1> DEFINE v == [ident |-> rule.ident, named |-> rule.named, p |-> top, as |-> as]
<1>8. /\ stmts' \in Seq(S \cup {v}) /\ Len(stmts') = n /\ stmts'[1] = v
      /\ \A i \in 1..n : i # 1 => stmts'[i] = stmts[i]
  <2> HIDE DEF v
  <2>1. /\ <<v>> \o Tail(stmts) \in Seq(S \cup {v}) /\ Len(<<v>> \o Tail(stmts)) = Len(stmts)
        /\ (<<v>> \o Tail(stmts))[1] = v
        /\ \A i \in 1..Len(stmts) : i # 1 => (<<v>> \o Tail(stmts))[i] = stmts[i]
    BY <1>1, <1>5, HeadReplaced
  <2>2. stmts' = <<v>> \o Tail(stmts)
    BY <1>7 DEF v
  <2> QED BY <2>1, <2>2
<1>9. v.p = top /\ v = [ident |-> v.ident, named |-> v.named, p |-> v.p, as |-> v.as]
  OBVIOUS
<1> HIDE DEF v
<1>10. \A i \in 1..n : i # 1 <=> i \in 2..n
  BY <1>6
<1>11. 2..n \subseteq 1..n
  BY <1>6
<1> HIDE DEF n
<1>12. Held = {rule.p} \cup rest
  <2>1. {left} \ {0} = {}
    BY <1>4
  <2> QED BY <1>3, <1>6, <1>10, <1>11, <2>1
<1>13. rule.p \notin rest /\ rule.p \in Kept \cap Unretained
  <2>1. \A i \in 2..n : stmts[i].p # rule.p
    BY <1>6, <1>10, <1>11 DEF Sound, Roots, RootsOnce, n
  <2> QED BY <1>3, <1>6, <2>1
<1>14. Held' = {top} \cup rest \cup {left'}
  <2>1. {stmts'[i].p : i \in 1..Len(stmts')} = {top} \cup rest
    BY <1>6, <1>8, <1>9, <1>10, <1>11
  <2>2. {vals'[i].p : i \in 1..Len(vals')} = {} /\ {result'[i].p : i \in 1..Len(result')} = {}
    BY <1>1, <1>3
  <2>3. left' # 0
    <3>1. 0 \notin Nodes /\ F \subseteq Nodes /\ Given \subseteq Nodes
      BY <1>2, NodeNumbers DEF Wrapped, Unused, Given
    <3> QED BY <1>2, <3>1 DEF Wrapped
  <2> QED BY <2>1, <2>2, <2>3 DEF Held
<1>15. /\ F \cap Live = {} /\ F \subseteq Nodes /\ Given \subseteq Live /\ F \cap Given = {} /\ F \cap Kept = {}
       /\ Given \subseteq Nodes /\ Given \subseteq Kept
       /\ Kept \subseteq Live /\ lost \subseteq Live /\ Unretained \cap Given = {} /\ Live \subseteq Nodes
  <2>1. F \cap Live = {} /\ F \subseteq Nodes
    BY <1>2 DEF Wrapped, Unused
  <2>2. Given \subseteq Live /\ Kept \subseteq Live /\ lost \subseteq Unretained /\ Unretained \subseteq Live
        /\ Live \subseteq Nodes /\ \A m \in Unretained : ~node[m].retained
    BY DEF Sound, Graph, NodesType, Given, Kept, Unretained, Live
  <2>3. \A m \in Nodes : node[m].retained <=> m \in Given
    BY RetainedAre DEF Sound, Graph
  <2>4. Unretained \cap Given = {}
    BY <2>2, <2>3
  <2> QED BY <2>1, <2>2, <2>4 DEF Kept
<1>16. \A i \in 1..n : stmts[i].p \in Kept \cap Unretained
  BY <1>3
<1>17. rest \subseteq Kept \cap Unretained
  BY <1>11, <1>16
<1> DEFINE prev(i) == IF i = 1 THEN rule.p ELSE new[i - 1]
<1>18. k \in Nat /\ \A i \in 1..k : new[i] \in F
  BY <1>2 DEF Wrapped
<1>19. /\ k # 0 => k \in 1..k
       /\ \A i \in 1..k : i # 1 => i - 1 \in 1..k /\ i - 1 # k
       /\ \A i \in 1..k : i # k => i + 1 \in 1..k /\ i + 1 # 1 /\ i + 1 - 1 = i
       /\ k # 0 => 1 \in 1..k
       /\ k = 0 => \A i : i \notin 1..k
  BY <1>18
<1>20. \A i, j \in 1..k : new[i] = new[j] => i = j
  BY <1>2 DEF Wrapped
<1>21. top = IF k = 0 THEN rule.p ELSE new[k]
  BY <1>2 DEF Wrapped
<1>22. \A i, j \in 1..k : prev(i) = prev(j) => i = j
  <2> SUFFICES ASSUME NEW i \in 1..k, NEW j \in 1..k, prev(i) = prev(j) PROVE i = j
    OBVIOUS
  <2>1. \A m \in 1..k : new[m] # rule.p
    BY <1>13, <1>15, <1>18
  <2>2. CASE i = 1 \/ j = 1
    <3>1. i = 1 /\ j = 1
      BY <1>19, <2>1, <2>2
    <3> QED BY <3>1
  <2>3. CASE i # 1 /\ j # 1
    <3>1. i - 1 = j - 1
      BY <1>19, <1>20, <2>3
    <3> QED BY <1>18, <3>1
  <2> QED BY <2>2, <2>3
<1>23. top \in Nodes /\ top \notin Given /\ top \notin rest /\ left' # top /\ left' \notin rest
       /\ left' \in Nodes /\ (top = rule.p \/ top \in F) /\ (left' \in F \/ left' \in Given)
  <2>1. top = rule.p \/ top \in F
    BY <1>18, <1>19, <1>21
  <2>2. left' # top /\ (left' \in F \/ left' \in Given)
    BY <1>2 DEF Wrapped
  <2> QED BY <1>13, <1>15, <1>17, <2>1, <2>2
<1> DEFINE taken == ((Held \cup F) \ Held') \ Given
<1>24. /\ \A m \in taken : \E i \in 1..k : m = prev(i)
       /\ \A i \in 1..k : prev(i) \in taken
  <2>1. ASSUME NEW m \in taken PROVE \E i \in 1..k : m = prev(i)
    <3>1. (m = rule.p \/ m \in F) /\ m # top /\ m # left' /\ m \notin rest
      BY <1>12, <1>14
    <3>2. CASE m = rule.p
      <4>1. k # 0
        BY <1>21, <3>1, <3>2
      <4> QED BY <1>19, <3>2, <4>1
    <3>3. CASE m \in F
      <4>1. PICK i \in 1..k : m = new[i]
        BY <1>2, <3>1, <3>3 DEF Wrapped
      <4>2. i # k
        BY <1>19, <1>21, <3>1, <4>1
      <4>3. i + 1 \in 1..k /\ prev(i + 1) = m
        BY <1>19, <4>1, <4>2
      <4> HIDE DEF prev
      <4> QED BY <4>3
    <3> QED BY <3>1, <3>2, <3>3
  <2>2. ASSUME NEW i \in 1..k PROVE prev(i) \in taken
    <3>1. CASE i = 1
      <4>1. top # rule.p /\ rule.p # left'
        BY <1>13, <1>15, <1>18, <1>19, <1>21, <1>23, <3>1
      <4> QED BY <1>12, <1>13, <1>14, <1>15, <3>1, <4>1
    <3>2. CASE i # 1
      <4>1. i - 1 \in 1..k /\ i - 1 # k /\ k \in 1..k
        BY <1>19, <3>2
      <4>2. new[i - 1] \in F /\ new[i - 1] # top /\ new[i - 1] # left'
        <5>1. new[i - 1] # top
          BY <1>19, <1>20, <1>21, <4>1
        <5>2. left' \in Given \/ \A j \in 1..k : left' # new[j]
          BY <1>2 DEF Wrapped
        <5> QED BY <1>15, <1>18, <4>1, <5>1, <5>2
      <4> QED BY <1>14, <1>15, <1>17, <3>2, <4>2
    <3> QED BY <3>1, <3>2
  <2> QED BY <2>1, <2>2
<1>25. /\ \A i \in 1..k : prev(i) \in Nodes
       /\ \A i \in 1..k : /\ IsNode(node'[new[i]]) /\ node'[new[i]].type \in {"predict", "expect"}
                          /\ ~node'[new[i]].retained /\ node'[new[i]].xs = <<prev(i)>>
  <2>1. \A i \in 1..k : prev(i) \in Nodes
    BY <1>13, <1>15, <1>18, <1>19
  <2> QED BY <1>2, <2>1 DEF Wrapped
<1> HIDE DEF prev, taken, rule
<1>26. \A i \in 1..k : /\ 1 \in 1..Len(node'[new[i]].xs) /\ node'[new[i]].xs[1] = prev(i)
                       /\ \A j \in 1..Len(node'[new[i]].xs) : j = 1
  <2> SUFFICES ASSUME NEW i \in 1..k
               PROVE  /\ 1 \in 1..Len(node'[new[i]].xs) /\ node'[new[i]].xs[1] = prev(i)
                      /\ \A j \in 1..Len(node'[new[i]].xs) : j = 1
    OBVIOUS
  <2>1. prev(i) \in Nodes
    BY <1>25
  <2>2. 1 \in 1..Len(<<prev(i)>>) /\ \A j \in 1..Len(<<prev(i)>>) : j = 1 /\ <<prev(i)>>[j] = prev(i)
    BY <2>1, SingleIs
  <2> QED BY <1>25, <2>2
<1>27. \A f \in F : \A j : j \in 1..Len(node'[f].xs) =>
          \E i \in 1..k : f = new[i] /\ j = 1 /\ node'[f].xs[j] = prev(i)
  <2> SUFFICES ASSUME NEW f \in F, NEW j \in 1..Len(node'[f].xs)
               PROVE  \E i \in 1..k : f = new[i] /\ j = 1 /\ node'[f].xs[j] = prev(i)
    OBVIOUS
  <2>1. f = left' => node'[f].xs = <<>>
    BY <1>2, <1>15 DEF Wrapped
  <2>2. f # left'
    BY <2>1
  <2>3. PICK i \in 1..k : f = new[i]
    BY <1>2, <2>2 DEF Wrapped
  <2> QED BY <1>26, <2>3
<1>28. \A f \in F :
          /\ IsNode(node'[f]) /\ node'[f].type \notin {"free", "pass", "lift", "ref"} /\ ~node'[f].retained
  <2> SUFFICES ASSUME NEW f \in F
               PROVE  /\ IsNode(node'[f]) /\ node'[f].type \notin {"free", "pass", "lift", "ref"}
                      /\ ~node'[f].retained
    OBVIOUS
  <2>1. CASE f = left'
    <3>1. IsNode(node'[f]) /\ node'[f].type = "fail" /\ ~node'[f].retained
      BY <1>2, <1>15, <2>1 DEF Wrapped
    <3> QED BY <3>1
  <2>2. CASE f # left'
    <3>1. PICK i \in 1..k : f = new[i]
      BY <1>2, <2>2 DEF Wrapped
    <3> QED BY <1>25, <3>1
  <2> QED BY <2>1, <2>2
<1>29. known' \in 0..Len(Args) + 1 /\ left' \in 0..MaxNode
  <2>1. known' \in 0..Len(Args) + 1
    BY <1>1, FoundIs DEF Sound, Graph
  <2> QED BY <1>23, <2>1, NodeNumbers DEF Nodes
<1>30. Built(F)
  <2>1. F \subseteq Unused /\ node' = [m \in Nodes |-> node'[m]] /\ \A m \in Nodes \ F : node'[m] = node[m]
    BY <1>2 DEF Wrapped
  <2>2. \A f \in F : \A i \in 1..Len(node'[f].xs) : node'[f].xs[i] \in taken
    BY <1>24, <1>27
  <2>3. \A f, g \in F : \A i \in 1..Len(node'[f].xs), j \in 1..Len(node'[g].xs) :
           node'[f].xs[i] = node'[g].xs[j] => f = g /\ i = j
    <3> SUFFICES ASSUME NEW f \in F, NEW g \in F, NEW i \in 1..Len(node'[f].xs),
                        NEW j \in 1..Len(node'[g].xs), node'[f].xs[i] = node'[g].xs[j]
                 PROVE  f = g /\ i = j
      OBVIOUS
    <3>1. PICK x \in 1..k : f = new[x] /\ i = 1 /\ node'[f].xs[i] = prev(x)
      BY <1>27
    <3>2. PICK y \in 1..k : g = new[y] /\ j = 1 /\ node'[g].xs[j] = prev(y)
      BY <1>27
    <3> QED BY <1>22, <3>1, <3>2
  <2>4. \A m \in taken : \E f \in F : \E i \in 1..Len(node'[f].xs) : node'[f].xs[i] = m
    BY <1>18, <1>24, <1>26
  <2>5. Held' \subseteq Held \cup F \cup Given
    BY <1>12, <1>14, <1>23
  <2>6. \A f \in F : /\ IsNode(node'[f]) /\ node'[f].type # "free" /\ ~node'[f].retained
                     /\ node'[f].type \in {"pass", "lift"} => node'[f].xs = <<>>
    BY <1>28
  <2> QED BY <1>1, <1>29, <2>1, <2>2, <2>3, <2>4, <2>5, <2>6, SMTT(20), ZenonT(40) DEF Built, taken
<1>31. Graph'
  BY <1>3, <1>30, GraphGrows DEF Sound
<1>32. /\ \A m \in Nodes \ F : node'[m] = node[m]
       /\ \A m \in F : node'[m].type # "free" /\ ~node'[m].retained
  BY <1>2, <1>28 DEF Wrapped
<1>33. Held' \subseteq Kept' /\ Held' \ {left'} \subseteq Unretained'
  <2>1. \A m \in Kept : m \in Kept' /\ (m \in Unretained => m \in Unretained')
    BY <1>1, <1>15, <1>32 DEF Kept, Live, Unretained
  <2>2. \A m \in F : m \in Kept' /\ m \in Unretained'
    BY <1>1, <1>15, <1>32 DEF Kept, Live, Unretained
  <2> QED BY <1>13, <1>14, <1>15, <1>17, <1>23, <2>1, <2>2
<1>34. RootsType'
  <2>1. \A i \in 1..Len(stmts') : stmts'[i] =
           [ident |-> stmts'[i].ident, named |-> stmts'[i].named, p |-> stmts'[i].p, as |-> stmts'[i].as]
    BY <1>8, <1>9 DEF Sound, Roots, RootsType, n
  <2>2. \E T : stmts' \in Seq(T)
    BY <1>8
  <2> QED BY <1>1, <1>33, <2>1, <2>2 DEF Sound, Roots, RootsType
<1>35. RootsOnce'
  <2>1. \A i \in 1..n : i # 1 => stmts[i].p \in rest
    BY <1>10
  <2>2. \A i, j \in 1..n : stmts[i].p = stmts[j].p => i = j
    BY DEF Sound, Roots, RootsOnce, n
  <2>3. \A i : i \notin 1..Len(vals')
    BY <1>1, <1>3
  <2>4. \A i \in 1..n : \/ i = 1 /\ stmts'[i].p = top
                        \/ i # 1 /\ stmts'[i].p = stmts[i].p /\ stmts'[i].p \in rest
    BY <1>8, <1>9, <2>1
  <2>5. \A i, j \in 1..n : stmts'[i].p = stmts'[j].p => i = j
    BY <1>23, <2>2, <2>4
  <2>6. \A i \in 1..n : stmts'[i].p # left'
    BY <1>23, <2>4
  <2>7. Len(stmts') = n
    BY <1>8
  <2> HIDE DEF rest
  <2> QED BY <2>3, <2>5, <2>6, <2>7 DEF RootsOnce
<1>36. Phases'
  <2>1. left' # 0 /\ stmts' # <<>>
    <3>1. 0 \notin Nodes /\ Len(<<>>) = 0 /\ n # 0
      BY <1>6, NodeNumbers
    <3> QED BY <1>8, <1>23, <3>1
  <2>2. ~node'[left'].retained => node'[left'].xs = <<>>
    <3>1. CASE left' \in Given
      <4>1. node[left'].retained /\ left' \notin F
        BY <1>15, <3>1, RetainedAre DEF Sound, Graph
      <4> QED BY <1>15, <1>32, <3>1, <4>1
    <3>2. CASE left' \notin Given
      BY <1>2, <3>2 DEF Wrapped
    <3> QED BY <3>1, <3>2
  <2>3. vals' = <<>> /\ result' = <<>> /\ compiler' = "lang" /\ pc' = "define"
    BY <1>1, <1>3, <1>4
  <2> QED BY <2>1, <2>2, <2>3 DEF Phases
<1> QED BY <1>31, <1>34, <1>35, <1>36 DEF Sound, Roots

\* What the compiler has a pointer to is no part.
LEMMA HeldNoPart ==
    ASSUME Sound, NEW n \in Held, ~node[n].retained
    PROVE  ~PartOf(Kept, n)
BY DEF PartOf, Sound, Graph, Targets

LEMMA RetainedKeeps ==
    ASSUME NEW r, IsNode(r), NEW new, new = [r EXCEPT !.retained = TRUE]
    PROVE  IsNode(new) /\ new.type = r.type /\ new.xs = r.xs /\ new.retained
BY DEF IsNode

\* The nodes a definition leaves and what it does with the others.
LEMMA DefineRuleMoves ==
    ASSUME Sound, DefineRule, Held' = {stmts[i].p : i \in 2..Len(stmts)}, left' = 0
    PROVE  \E gone, C : Moved(gone, C) /\ Held' \cap gone = {} /\ C \subseteq Given
<1> DEFINE p == stmts[1].p
           rest == {stmts[i].p : i \in 2..Len(stmts)}
           made == node[p]
<1>1. /\ pc = "define" /\ walk = <<>>
      /\ IF node[left].retained
         THEN /\ node' = [node EXCEPT ![left] = [node[Head(stmts).p] EXCEPT !.retained = TRUE],
                                      ![Head(stmts).p] = Free]
              /\ lost' = lost \cup Trees(ToSet(node[left].xs))
         ELSE /\ node' = [node EXCEPT ![Head(stmts).p] = Free]
              /\ lost' = lost \cup {left} \cup Trees(ToSet(node[Head(stmts).p].xs))
      /\ UNCHANGED known
  BY DEF DefineRule
<1>2. /\ vals = <<>> /\ result = <<>> /\ Len(stmts) \in Nat /\ 0 \notin Kept /\ Held \subseteq Kept
      /\ Held = {stmts[i].p : i \in 1..Len(stmts)} \cup ({left} \ {0})
      /\ \A i \in 1..Len(stmts) : stmts[i].p \in Kept \cap Unretained /\ stmts[i].p # left
  BY <1>1, HeldIs
<1>3. left # 0 /\ stmts # <<>> /\ (~node[left].retained => node[left].xs = <<>>)
  BY <1>1 DEF Sound, Roots, Phases
<1>4. PICK S : stmts \in Seq(S)
  BY DEF Sound, Roots, RootsType
<1>5. Head(stmts) = stmts[1] /\ 1 \in 1..Len(stmts) /\ 2..Len(stmts) \subseteq 1..Len(stmts)
      /\ \A i \in 1..Len(stmts) : i = 1 \/ i \in 2..Len(stmts)
  <2>1. Len(stmts) \in Nat \ {0}
    BY <1>3, <1>4, EmptySeq
  <2> QED BY <1>3, <1>4, <2>1
<1>6. Held = {p} \cup rest \cup {left} /\ left \in Kept
  BY <1>2, <1>3, <1>5
<1>7. p \notin rest /\ p \in Kept \cap Unretained /\ rest \subseteq Kept \cap Unretained /\ p # left
      /\ left \notin rest
  <2>1. \A i \in 2..Len(stmts) : stmts[i].p # p
    <3>1. \A i \in 2..Len(stmts) : i # 1
      BY <1>2
    <3> QED BY <1>5, <3>1 DEF Sound, Roots, RootsOnce
  <2> QED BY <1>2, <1>5, <2>1
<1>8. /\ \A n \in Nodes : node[n].retained <=> n \in Given
      /\ Kept \subseteq Nodes /\ \A n \in Unretained : ~node[n].retained
      /\ \A n \in Kept : n \notin Given => n \in Unretained
      /\ Given \subseteq Kept /\ Kept \cap lost = {} /\ lost \subseteq Nodes
  <2>1. Kept \subseteq Live /\ Live \subseteq Nodes /\ lost \subseteq Unretained /\ Unretained \subseteq Live
    BY DEF Kept, Live, Unretained, Sound, Graph, NodesType
  <2>2. \A n \in Nodes : node[n].retained <=> n \in Given
    BY RetainedAre DEF Sound, Graph
  <2>3. Given \subseteq Live
    BY DEF Sound, Graph, NodesType, Given
  <2>4. \A n \in Unretained : ~node[n].retained
    BY DEF Unretained
  <2>5. \A n \in Live : ~node[n].retained => n \in Unretained
    BY DEF Unretained
  <2>6. Kept = Live \ lost
    BY DEF Kept
  <2> QED BY <2>1, <2>2, <2>3, <2>4, <2>5, <2>6
<1>9. /\ DOMAIN node = Nodes /\ \A n \in Nodes : IsNode(node[n])
  BY DEF Sound, Graph, NodesType
<1>10. \A m \in Nodes : \A n : n \in PartsOf(m) <=> \E i \in 1..Len(node[m].xs) : node[m].xs[i] = n
  BY PartsIn DEF Sound, Graph
<1>11. \A m \in Kept : \A i \in 1..Len(node[m].xs) :
          node[m].xs[i] \in Kept /\ (node[m].xs[i] \in Held => node[m].xs[i] \in Given)
  BY <1>8 DEF Sound, Graph, Targets
<1>12. \A n \in Held : n \notin Given => ~PartOf(Kept, n)
  BY <1>11 DEF PartOf
<1>13. known' \in 0..Len(Args) + 1 /\ left' \in 0..MaxNode
  BY <1>1, NodeNumbers DEF Sound, Graph, NodesType
<1>14. Held' = rest
  OBVIOUS
<1> HIDE DEF p, rest
<1>15. ASSUME NEW o \in Kept
       PROVE  LET T == Trees(PartsOf(o))
              IN  /\ T \subseteq Kept \cap Unretained
                  /\ \A n \in T : ~PartOf(Kept \ (T \cup {o}), n)
                  /\ \A n : PartOf(T, n) => n \in T \cup Given
                  /\ T \cap Held = {}
                  /\ \A i \in 1..Len(node[o].xs) : node[o].xs[i] \in T \cup Given
  <2> DEFINE Q == PartsOf(o)
  <2>1. \A n \in Q : n \in Kept /\ PartOf({o}, n) /\ (n \in Held => n \in Given)
    BY <1>8, <1>10, <1>11 DEF PartOf
  <2>2. {o} \in SUBSET Kept
    OBVIOUS
  <2>3. Q \cap Unretained \subseteq Trees(Q)
    BY TreesHold
  <2>4. \A i \in 1..Len(node[o].xs) : node[o].xs[i] \in Q
    BY <1>8, <1>10
  <2> HIDE DEF Q
  <2>5. /\ Trees(Q) \subseteq Kept \cap Unretained
        /\ \A n \in Trees(Q) : ~PartOf(Kept \ (Trees(Q) \cup {o}), n)
        /\ \A n : PartOf(Trees(Q), n) => n \in Trees(Q) \cup Given
        /\ \A n \in Trees(Q) : n \in Held => n \in Q
    <3>1. \A n \in Q \cap Unretained : n \in Kept /\ (n \in Held \/ PartOf({o}, n))
      BY <2>1
    <3> QED BY <1>2, <2>2, <3>1, TreesApart DEF Sound
  <2>6. Trees(Q) \cap Held = {}
    BY <1>8, <2>1, <2>5
  <2>7. \A i \in 1..Len(node[o].xs) : node[o].xs[i] \in Trees(Q) \cup Given
    BY <1>8, <2>1, <2>3, <2>4
  <2> QED BY <2>5, <2>6, <2>7 DEF Q
<1>16. CASE node[left].retained
  <2> DEFINE T == Trees(PartsOf(left))
             gone == {p} \cup T
             C == {left}
  <2>1. /\ T \subseteq Kept \cap Unretained
        /\ \A n \in T : ~PartOf(Kept \ (T \cup {left}), n)
        /\ \A n : PartOf(T, n) => n \in T \cup Given
        /\ T \cap Held = {}
        /\ \A i \in 1..Len(node[left].xs) : node[left].xs[i] \in T \cup Given
    BY <1>6, <1>15
  <2> DEFINE new == [made EXCEPT !.retained = TRUE]
  <2>2. node' = [node EXCEPT ![left] = new, ![p] = Free] /\ lost' = lost \cup T
    BY <1>1, <1>5, <1>16 DEF PartsOf, p
  <2>3. IsNode(new) /\ new.type = made.type /\ new.xs = made.xs /\ new.retained
    <3>1. IsNode(made)
      BY <1>7, <1>8, <1>9
    <3> HIDE DEF made
    <3> QED BY <3>1, RetainedKeeps
  <2>4. made = node[p]
    OBVIOUS
  <2> HIDE DEF T, new, made
  <2>5. p \notin T /\ left \in Given /\ p \notin Given /\ left \in Nodes /\ p \in Nodes
        /\ left \notin T
    BY <1>6, <1>7, <1>8, <1>16, <2>1
  <2>6. /\ node' = [n \in Nodes |-> node'[n]] /\ node'[left] = new /\ node'[p] = Free
        /\ \A n \in Nodes : n \notin {left, p} => node'[n] = node[n]
    BY <1>7, <1>9, <2>2, <2>5
  <2>7. /\ gone \subseteq Kept \cap Unretained /\ C \subseteq Nodes \ (gone \cup lost)
        /\ \A c, d \in C : c = d
    BY <1>7, <1>8, <2>1, <2>5
  <2>8. \A n \in Nodes \ C : node'[n] = node[n] \/ (n \in gone /\ node'[n] = Free)
    BY <2>6
  <2>9. \A n \in gone : IF n \in lost' THEN node'[n] = node[n] ELSE node'[n] = Free
    <3> SUFFICES ASSUME NEW n \in gone PROVE IF n \in lost' THEN node'[n] = node[n] ELSE node'[n] = Free
      OBVIOUS
    <3>1. CASE n = p
      <4>1. p \notin lost'
        BY <1>7, <1>8, <2>2, <2>5
      <4> QED BY <2>6, <3>1, <4>1
    <3>2. CASE n \in T
      <4>1. n \in Nodes /\ n \notin {left, p} /\ n \in lost'
        BY <1>8, <2>1, <2>2, <2>5, <3>2
      <4> QED BY <2>6, <4>1
    <3> QED BY <3>1, <3>2
  <2>10. \A i \in 1..Len(made.xs) :
            /\ PartOf({p}, made.xs[i]) /\ made.xs[i] \notin gone
            /\ made.type # "ref" => made.xs[i] \notin Given
    <3> SUFFICES ASSUME NEW i \in 1..Len(made.xs)
                 PROVE  /\ PartOf({p}, made.xs[i]) /\ made.xs[i] \notin gone
                        /\ made.type # "ref" => made.xs[i] \notin Given
      OBVIOUS
    <3>1. PartOf({p}, made.xs[i])
      BY <2>4 DEF PartOf
    <3>2. made.xs[i] \notin T
      <4>1. PartOf(Kept \ (T \cup {left}), made.xs[i])
        BY <1>7, <2>4, <2>5 DEF PartOf
      <4> QED BY <2>1, <4>1
    <3>3. made.xs[i] \in Kept /\ made.xs[i] # p
      BY <1>6, <1>7, <1>11, <2>4, <2>5
    <3>4. made.type # "ref" => made.xs[i] \notin Given
      BY <1>8, <2>4, <2>5, <3>3 DEF Sound, Graph, Kinds
    <3> QED BY <3>1, <3>2, <3>3, <3>4
  <2>11. made.type # "free" /\ (made.type \in {"pass", "lift"} => made.xs = <<>>)
    <3>1. p \in Live
      BY <1>7 DEF Kept
    <3> QED BY <2>4, <2>5, <3>1 DEF Sound, Graph, Kinds, Live
  <2>12. \A i, j \in 1..Len(made.xs) : made.xs[i] = made.xs[j] => made.xs[i] \in Given \/ i = j
    BY <1>7, <1>8, <1>11, <2>4 DEF Sound, Graph, Once
  <2>13. \A n \in gone : ~PartOf(Kept \ (gone \cup C), n)
    <3>1. ~PartOf(Kept, p)
      BY <1>6, <1>12, <2>5
    <3>2. \A n : PartOf(Kept \ (gone \cup C), n) => PartOf(Kept, n) /\ PartOf(Kept \ (T \cup {left}), n)
      BY DEF PartOf
    <3> QED BY <2>1, <3>1, <3>2
  <2>14. \A n \in Nodes : PartOf(Kept \cap (gone \cup C), n) =>
            \/ n \in gone \cup Given
            \/ \E i \in 1..Len(made.xs) : made.xs[i] = n
    <3> SUFFICES ASSUME NEW n \in Nodes, PartOf(Kept \cap (gone \cup C), n)
                 PROVE  \/ n \in gone \cup Given
                        \/ \E i \in 1..Len(made.xs) : made.xs[i] = n
      OBVIOUS
    <3>1. PICK m \in gone \cup C : \E i \in 1..Len(node[m].xs) : node[m].xs[i] = n
      BY DEF PartOf
    <3>2. CASE m = p
      BY <2>4, <3>1, <3>2
    <3>3. CASE m \in T
      BY <2>1, <3>1, <3>3 DEF PartOf
    <3>4. CASE m = left
      BY <2>1, <3>1, <3>4
    <3> QED BY <3>2, <3>3, <3>4
  <2>15. Held' \subseteq Held \ gone /\ Held \ gone \subseteq Held' \cup Given
    BY <1>6, <1>7, <1>14, <2>1, <2>5
  <2>16. lost \subseteq lost' /\ lost' \subseteq lost \cup gone
    BY <2>2
  <2>17. \A n \in C : n = left /\ node[n].retained /\ node'[n] = new
    BY <1>16, <2>6
  <2>18. {p} \subseteq Kept \cap (C \cup gone) /\ C \ Kept = {}
    BY <1>6, <1>7
  <2>19. \A n : PartOf({p}, n) => PartOf(Kept \cap (C \cup gone), n)
    BY <2>18 DEF PartOf
  <2>20. \A c \in C :
          /\ IsNode(node'[c]) /\ node'[c].type # "free"
          /\ node'[c].retained <=> node[c].retained
          /\ node'[c].type \in {"pass", "lift"} => node'[c].xs = <<>>
          /\ node'[c].type # "ref" => \A i \in 1..Len(node'[c].xs) : node'[c].xs[i] \notin Given
          /\ \A i \in 1..Len(node'[c].xs) :
                PartOf(Kept \cap (C \cup gone), node'[c].xs[i]) /\ node'[c].xs[i] \notin gone
          /\ \A i, j \in 1..Len(node'[c].xs) :
                node'[c].xs[i] = node'[c].xs[j] => node'[c].xs[i] \in Given \/ i = j
    <3> HIDE DEF C, gone
    <3>1. /\ IsNode(new) /\ new.type # "free" /\ new.retained
          /\ new.type \in {"pass", "lift"} => new.xs = <<>>
          /\ new.type # "ref" => \A i \in 1..Len(new.xs) : new.xs[i] \notin Given
          /\ \A i \in 1..Len(new.xs) :
                PartOf(Kept \cap (C \cup gone), new.xs[i]) /\ new.xs[i] \notin gone
          /\ \A i, j \in 1..Len(new.xs) : new.xs[i] = new.xs[j] => new.xs[i] \in Given \/ i = j
      BY <2>3, <2>10, <2>11, <2>12, <2>19
    <3> QED BY <2>17, <3>1
  <2>21. \A n \in Nodes : PartOf(Kept \cap (gone \cup C), n) =>
            \/ n \in gone \cup Given \cup Held'
            \/ \E c \in C : \E i \in 1..Len(node'[c].xs) : node'[c].xs[i] = n
    BY <2>3, <2>6, <2>14
  <2>22. left \in C /\ C \subseteq Given
    BY <2>5
  <2> HIDE DEF C, gone
  <2>23. Held' \subseteq ((Held \cup (C \ Kept)) \ gone) \cup Given
         /\ (Held \cup (C \ Kept)) \ gone \subseteq Held' \cup Given
    BY <2>15, <2>18
  <2>24. Moved(gone, C)
    BY <1>13, <2>6, <2>7, <2>8, <2>9, <2>13, <2>16, <2>20, <2>21, <2>23 DEF Moved
  <2> QED BY <2>15, <2>22, <2>24
<1>17. CASE ~node[left].retained
  <2> DEFINE T == Trees(PartsOf(p))
             gone == {p, left} \cup T
             C == {}
  <2>1. /\ T \subseteq Kept \cap Unretained
        /\ \A n \in T : ~PartOf(Kept \ (T \cup {p}), n)
        /\ \A n : PartOf(T, n) => n \in T \cup Given
        /\ T \cap Held = {}
        /\ \A i \in 1..Len(node[p].xs) : node[p].xs[i] \in T \cup Given
    BY <1>7, <1>15
  <2>2. node' = [node EXCEPT ![p] = Free] /\ lost' = lost \cup {left} \cup T
    BY <1>1, <1>5, <1>17 DEF PartsOf, p
  <2> HIDE DEF T, made
  <2>3. /\ p \notin T /\ left \notin T /\ left \notin Given /\ p \notin Given /\ left \in Nodes /\ p \in Nodes
        /\ left \in Unretained
    BY <1>6, <1>7, <1>8, <1>17, <2>1
  <2>4. /\ node' = [n \in Nodes |-> node'[n]] /\ node'[p] = Free
        /\ \A n \in Nodes : n # p => node'[n] = node[n]
    BY <1>9, <2>2, <2>3
  <2>5. gone \subseteq Kept \cap Unretained
    BY <1>6, <1>7, <2>1, <2>3
  <2>6. \A n \in Nodes : node'[n] = node[n] \/ (n \in gone /\ node'[n] = Free)
    BY <2>4
  <2>7. \A n \in gone : IF n \in lost' THEN node'[n] = node[n] ELSE node'[n] = Free
    <3>1. p \notin lost'
      BY <1>7, <1>8, <2>2, <2>3
    <3>2. \A n \in gone : n \in Nodes /\ (n # p => n \in lost')
      BY <1>8, <2>2, <2>5
    <3> HIDE DEF gone
    <3> QED BY <2>4, <3>1, <3>2
  <2>8. \A n \in gone : ~PartOf(Kept \ (gone \cup C), n)
    <3>1. ~PartOf(Kept, p) /\ ~PartOf(Kept, left)
      BY <1>6, <1>12, <2>3
    <3>2. \A n : PartOf(Kept \ (gone \cup C), n) => PartOf(Kept, n) /\ PartOf(Kept \ (T \cup {p}), n)
      BY DEF PartOf
    <3> QED BY <2>1, <3>1, <3>2
  <2>9. \A n \in Nodes : PartOf(Kept \cap (gone \cup C), n) => n \in gone \cup Given
    <3> SUFFICES ASSUME NEW n \in Nodes, PartOf(Kept \cap (gone \cup C), n) PROVE n \in gone \cup Given
      OBVIOUS
    <3>1. PICK m \in gone : \E i \in 1..Len(node[m].xs) : node[m].xs[i] = n
      BY DEF PartOf
    <3>2. CASE m = p
      BY <2>1, <3>1, <3>2
    <3>3. CASE m \in T
      BY <2>1, <3>1, <3>3 DEF PartOf
    <3>4. CASE m = left
      <4>1. node[left].xs = <<>>
        BY <1>3, <1>17
      <4> QED BY <3>1, <3>4, <4>1
    <3> QED BY <3>1, <3>2, <3>3, <3>4
  <2>10. Held' \subseteq Held \ gone /\ Held \ gone \subseteq Held'
    BY <1>6, <1>7, <1>14, <2>1, <2>3
  <2>11. lost \subseteq lost' /\ lost' \subseteq lost \cup gone
    BY <2>2
  <2>12. C = {} /\ \A n : n \notin C
    OBVIOUS
  <2> HIDE DEF C, gone
  <2>13. Held' \subseteq ((Held \cup (C \ Kept)) \ gone) \cup Given
         /\ (Held \cup (C \ Kept)) \ gone \subseteq Held' \cup Given
    BY <2>10, <2>12
  <2>14. Moved(gone, C)
    BY <1>13, <2>4, <2>5, <2>6, <2>7, <2>8, <2>9, <2>11, <2>12, <2>13 DEF Moved
  <2> QED BY <2>10, <2>12, <2>14
<1> QED BY <1>16, <1>17

LEMMA DefineRuleKeeps == ASSUME Sound, DefineRule PROVE Sound'
<1> DEFINE n == Len(stmts)
           rest == {stmts[i].p : i \in 2..n}
<1>1. /\ pc = "define" /\ stmts' = Tail(stmts) /\ left' = 0 /\ pc' = "apply"
      /\ walk = <<>> /\ UNCHANGED <<walk, compiler, vals, result>>
  BY DEF DefineRule
<1>2. /\ vals = <<>> /\ result = <<>> /\ n \in Nat /\ 0 \notin Kept /\ Held \subseteq Kept
      /\ \A i \in 1..n : stmts[i].p \in Kept \cap Unretained
  BY <1>1, HeldIs
<1>3. PICK S : stmts \in Seq(S)
  BY DEF Sound, Roots, RootsType
<1>4. stmts # <<>>
  BY <1>1 DEF Sound, Roots, Phases
<1>5. /\ stmts' \in Seq(S) /\ n \in Nat \ {0} /\ Len(stmts') = n - 1
      /\ \A i \in 1..n - 1 : stmts'[i] = stmts[i + 1]
  <2>1. /\ Tail(stmts) \in Seq(S) /\ Len(Tail(stmts)) = Len(stmts) - 1
        /\ \A i \in 1..Len(Tail(stmts)) : Tail(stmts)[i] = stmts[i + 1]
    BY <1>3, <1>4, HeadTailProperties
  <2>2. Len(stmts) # 0
    BY <1>3, <1>4, EmptySeq
  <2> QED BY <1>1, <1>2, <2>1, <2>2
<1>6. \A i \in 1..Len(stmts') : i + 1 \in 2..n /\ i + 1 \in 1..n /\ stmts'[i] = stmts[i + 1]
  BY <1>5
<1>7. \A i \in 2..n : i - 1 \in 1..Len(stmts') /\ stmts'[i - 1] = stmts[i] /\ i \in 1..n
  <2>1. \A i \in 2..n : i - 1 \in 1..n - 1 /\ i \in 1..n /\ i - 1 + 1 = i
    BY <1>5
  <2> HIDE DEF n
  <2> QED BY <1>5, <2>1
<1>8. Held' = rest
  <2>1. {stmts'[i].p : i \in 1..Len(stmts')} = rest
    <3> HIDE DEF n
    <3> QED BY <1>6, <1>7
  <2>2. {vals'[i].p : i \in 1..Len(vals')} = {} /\ {result'[i].p : i \in 1..Len(result')} = {}
    BY <1>1, <1>2
  <2>3. {left'} \ {0} = {}
    BY <1>1
  <2> HIDE DEF rest
  <2> QED BY <2>1, <2>2, <2>3 DEF Held
<1>9. PICK gone, C : Moved(gone, C) /\ Held' \cap gone = {} /\ C \subseteq Given
  BY <1>1, <1>8, DefineRuleMoves
<1>10. Graph'
  BY <1>2, <1>9, GraphMoves DEF Sound
<1>11. rest \subseteq Kept \cap Unretained
  BY <1>2, <1>7
<1>12. \A m \in Kept \cap Unretained : m \notin gone => m \in Kept' /\ m \in Unretained'
  <2> SUFFICES ASSUME NEW m \in Kept \cap Unretained, m \notin gone PROVE m \in Kept' /\ m \in Unretained'
    OBVIOUS
  <2>1. m \in Nodes /\ m \notin Given /\ m \notin lost /\ node[m].type # "free" /\ ~node[m].retained
    <3>1. m \in Nodes /\ ~node[m].retained /\ m \notin lost /\ node[m].type # "free"
      BY DEF Kept, Unretained, Live
    <3> QED BY <3>1, RetainedAre DEF Sound, Graph
  <2>2. node'[m] = node[m] /\ m \notin lost'
    BY <1>9, <2>1 DEF Moved
  <2> QED BY <2>1, <2>2 DEF Kept, Unretained, Live
<1>13. Held' \subseteq Kept' \cap Unretained'
  BY <1>8, <1>9, <1>11, <1>12
<1>14. RootsType'
  <2>1. \A i \in 1..Len(stmts') : stmts'[i] =
           [ident |-> stmts'[i].ident, named |-> stmts'[i].named, p |-> stmts'[i].p, as |-> stmts'[i].as]
    <3> HIDE DEF n
    <3>1. \A i \in 1..n : stmts[i] =
           [ident |-> stmts[i].ident, named |-> stmts[i].named, p |-> stmts[i].p, as |-> stmts[i].as]
      BY DEF Sound, Roots, RootsType, n
    <3> QED BY <1>6, <3>1
  <2> QED BY <1>1, <1>5, <1>13, <2>1 DEF Sound, Roots, RootsType
<1>15. RootsOnce'
  <2>1. \A i, j \in 1..n : stmts[i].p = stmts[j].p => i = j
    BY DEF Sound, Roots, RootsOnce
  <2>2. \A i, j \in 1..Len(stmts') : stmts'[i].p = stmts'[j].p => i = j
    <3> SUFFICES ASSUME NEW i \in 1..Len(stmts'), NEW j \in 1..Len(stmts'), stmts'[i].p = stmts'[j].p
                 PROVE  i = j
      OBVIOUS
    <3>1. i + 1 = j + 1
      BY <1>6, <2>1
    <3>2. i \in Nat /\ j \in Nat
      BY <1>5
    <3> QED BY <3>1, <3>2
  <2>3. \A i : i \notin 1..Len(vals')
    BY <1>1, <1>2
  <2>4. \A i \in 1..Len(stmts') : stmts'[i].p # left'
    <3> SUFFICES ASSUME NEW i \in 1..Len(stmts') PROVE stmts'[i].p # left'
      OBVIOUS
    <3>1. stmts'[i].p \in Kept
      BY <1>2, <1>6
    <3> QED BY <1>1, <1>2, <3>1
  <2> QED BY <2>2, <2>3, <2>4 DEF RootsOnce
<1>16. Phases'
  BY <1>1, <1>2 DEF Sound, Roots, Phases
<1> QED BY <1>10, <1>14, <1>15, <1>16 DEF Sound, Roots

----------------------------------------------------------------------------
(* The optimiser's steps *)

\* How many parts of its node a call has been through, and the parser it began with.
Seen(c) == Len(node[c.p].xs) - Len(c.parts)
Root == IF pc = "define" THEN stmts[1].p ELSE result[1].p

\* The calls form a path of parts from the parser given, each node on it once.
Path ==
    /\ \E S : walk \in Seq(S)
    /\ \A k \in 1..Len(walk) :
          /\ walk[k] = [p |-> walk[k].p, parts |-> walk[k].parts]
          /\ walk[k].p \in Kept \cap Unretained
          /\ walk[k].parts \in Seq(Nodes) /\ Len(walk[k].parts) <= Len(node[walk[k].p].xs)
          /\ \A i \in 1..Len(walk[k].parts) :
                walk[k].parts[i] = node[walk[k].p].xs[Seen(walk[k]) + i]
    /\ walk # <<>> => walk[Len(walk)].p = Root
    /\ \A k \in 1..Len(walk) - 1 :
          Seen(walk[k + 1]) > 0 /\ node[walk[k + 1].p].xs[Seen(walk[k + 1])] = walk[k].p
    /\ \A k, j \in 1..Len(walk) : walk[k].p = walk[j].p => k = j

LEMMA CallerIs ==
    ASSUME Sound, Path, walk # <<>>
    PROVE  /\ Len(walk) \in Nat \ {0} /\ Caller = walk[1] /\ 1 \in 1..Len(walk)
           /\ Len(walk) \in 1..Len(walk)
           /\ Caller.p \in Kept \cap Unretained /\ Caller.p \in Nodes /\ Caller.p \notin Given
           /\ IsNode(P) /\ Len(P.xs) \in Nat /\ \A i \in 1..Len(P.xs) : P.xs[i] \in Nodes
           /\ Root \in Held /\ pc \in {"result", "define"} /\ vals = <<>>
<1>1. PICK S : walk \in Seq(S)
  BY DEF Path
<1>2. Len(walk) \in Nat \ {0}
  BY <1>1, EmptySeq
<1>3. Caller = walk[1] /\ 1 \in 1..Len(walk) /\ Len(walk) \in 1..Len(walk)
  BY <1>1, <1>2 DEF Caller
<1>4. Caller.p \in Kept \cap Unretained
  BY <1>3 DEF Path
<1>5. Caller.p \in Nodes /\ ~node[Caller.p].retained
  BY <1>4 DEF Unretained, Live
<1>6. Caller.p \notin Given
  BY <1>5, RetainedAre DEF Sound, Graph
<1>7. IsNode(P)
  BY <1>5 DEF P, Sound, Graph, NodesType
<1>8. Len(P.xs) \in Nat /\ \A i \in 1..Len(P.xs) : P.xs[i] \in Nodes
  BY <1>7, PartsType
<1>9. pc \in {"result", "define"} /\ vals = <<>>
  BY DEF Sound, Roots, Phases
<1>10. Root \in Held
  <2>1. CASE pc = "define"
    <3>1. stmts # <<>> /\ \E T : stmts \in Seq(T)
      BY <2>1 DEF Sound, Roots, Phases, RootsType
    <3>2. Len(stmts) \in Nat \ {0}
      BY <3>1, EmptySeq
    <3>3. 1 \in 1..Len(stmts)
      BY <3>2
    <3> QED BY <2>1, <3>3 DEF Root, Held
  <2>2. CASE pc # "define"
    <3>1. Len(result) = 1
      BY <1>9, <2>2 DEF Sound, Roots, Phases
    <3>2. 1 \in 1..Len(result)
      BY <3>1
    <3> QED BY <2>2, <3>2 DEF Root, Held
  <2> QED BY <2>1, <2>2
<1> QED BY <1>2, <1>3, <1>4, <1>5, <1>6, <1>7, <1>8, <1>9, <1>10

LEMMA SeenIn ==
    ASSUME Sound, Path, NEW k \in 1..Len(walk)
    PROVE  /\ walk[k].p \in Kept /\ walk[k].p \in Nodes /\ IsNode(node[walk[k].p])
           /\ Len(node[walk[k].p].xs) \in Nat /\ Len(walk[k].parts) \in Nat
           /\ Seen(walk[k]) \in 0..Len(node[walk[k].p].xs)
           /\ Seen(walk[k]) + Len(walk[k].parts) = Len(node[walk[k].p].xs)
<1> DEFINE a == Len(node[walk[k].p].xs)
           b == Len(walk[k].parts)
<1>1. walk[k].p \in Kept /\ walk[k].parts \in Seq(Nodes) /\ b <= a
  BY DEF Path
<1>2. walk[k].p \in Nodes
  BY <1>1 DEF Kept, Live
<1>3. IsNode(node[walk[k].p])
  BY <1>2 DEF Sound, Graph, NodesType
<1>4. a \in Nat
  BY <1>3, PartsType
<1>5. b \in Nat
  BY <1>1
<1>6. Seen(walk[k]) = a - b
  BY DEF Seen
<1> HIDE DEF a, b
<1>7. Seen(walk[k]) \in 0..a /\ Seen(walk[k]) + b = a
  BY <1>1, <1>4, <1>5, <1>6
<1> QED BY <1>1, <1>2, <1>3, <1>4, <1>5, <1>7 DEF a, b

\* What the optimiser may touch of a caller's parts is in no call.
LEMMA NotCalled ==
    ASSUME Sound, Path, walk # <<>>, NEW i \in 1..Len(P.xs), P.xs[i] \notin Given
    PROVE  /\ P.xs[i] \in Kept \cap Unretained /\ P.xs[i] \notin Held
           /\ \A k \in 1..Len(walk) : walk[k].p # P.xs[i]
           /\ \A m \in Kept : \A j \in 1..Len(node[m].xs) :
                 node[m].xs[j] = P.xs[i] => m = Caller.p /\ j = i
<1> DEFINE n == P.xs[i]
<1>1. n \in Nodes /\ Caller.p \in Kept
  BY CallerIs
<1>2. ~node[n].retained
  BY <1>1, RetainedAre DEF Sound, Graph
<1>3. n \in Kept /\ n \notin Held
  BY <1>1, <1>2 DEF Sound, Graph, Targets, P
<1>4. n \in Unretained
  BY <1>2, <1>3 DEF Kept, Unretained
<1>5. \A m \in Kept : \A j \in 1..Len(node[m].xs) : node[m].xs[j] = n => m = Caller.p /\ j = i
  BY <1>1, <1>2 DEF Sound, Graph, Once, P
<1>6. ASSUME NEW k \in 1..Len(walk), walk[k].p = n PROVE FALSE
  <2>1. CASE k = Len(walk)
    <3>1. walk[Len(walk)].p = Root
      BY DEF Path
    <3>2. Root \in Held
      BY CallerIs
    <3> QED BY <1>3, <1>6, <2>1, <3>1, <3>2
  <2>2. CASE k # Len(walk)
    <3>1. k \in 1..Len(walk) - 1 /\ k + 1 \in 1..Len(walk) /\ k + 1 # 1
      BY <2>2, CallerIs
    <3>2. Seen(walk[k + 1]) > 0 /\ node[walk[k + 1].p].xs[Seen(walk[k + 1])] = n
          /\ walk[k + 1].p \in Kept /\ walk[k + 1].p \in Nodes
      BY <1>6, <3>1 DEF Path, Kept, Live
    <3>3. Seen(walk[k + 1]) \in 1..Len(node[walk[k + 1].p].xs)
      <4>1. Seen(walk[k + 1]) \in 0..Len(node[walk[k + 1].p].xs)
        BY <3>1, SeenIn
      <4> QED BY <3>2, <4>1
    <3>4. walk[k + 1].p = Caller.p
      BY <1>5, <3>2, <3>3
    <3> QED BY <3>1, <3>4, CallerIs DEF Path
  <2> QED BY <2>1, <2>2
<1> QED BY <1>3, <1>4, <1>5, <1>6

\* What the rewritings have in common: parts of the caller's node are freed.
Rewritten(gone) ==
    /\ walk # <<>> /\ Caller.parts = <<>>
    /\ gone # {} /\ \A n \in gone : n \notin Given /\ \E i \in 1..Len(P.xs) : P.xs[i] = n
    /\ Moved(gone, {Caller.p})
    /\ UNCHANGED <<walk, pc, compiler, known, vals, stmts, left, result, lost>>

\* Everything else stays as it is.
LEMMA RewrittenStay ==
    ASSUME Sound, Path, NEW gone, Rewritten(gone)
    PROVE  /\ gone \cap Held = {} /\ gone \subseteq Kept \cap Unretained /\ Caller.p \notin gone
           /\ gone \subseteq Nodes /\ Kept \subseteq Nodes
           /\ \A k \in 1..Len(walk) : walk[k].p \notin gone
           /\ \A m \in Nodes : m \notin gone /\ m # Caller.p => node'[m] = node[m]
           /\ \A m \in Nodes : m \notin gone => node'[m].retained = node[m].retained
           /\ \A m \in Kept \ gone : m \in Kept' /\ (m \in Unretained => m \in Unretained')
           /\ Held' = Held /\ Root' = Root /\ Kept' = Kept \ gone /\ Caller' = Caller
<1>1. /\ walk # <<>> /\ Moved(gone, {Caller.p}) /\ \A n \in gone : n \notin Given
      /\ UNCHANGED <<walk, pc, compiler, known, vals, stmts, left, result, lost>>
  BY DEF Rewritten
<1>2. ASSUME NEW n \in gone
      PROVE  /\ n \notin Held /\ n \in Kept \cap Unretained /\ \A k \in 1..Len(walk) : walk[k].p # n
  <2>1. PICK i \in 1..Len(P.xs) : P.xs[i] = n
    BY DEF Rewritten
  <2> QED BY <1>1, <2>1, NotCalled
<1>3. Caller = walk[1] /\ 1 \in 1..Len(walk) /\ Caller.p \in Kept \cap Unretained /\ Caller.p \in Nodes
  BY <1>1, CallerIs
<1>4. Caller.p \notin gone
  BY <1>2, <1>3
<1>5. Kept \subseteq Nodes
  BY DEF Kept, Live
<1>6. \A m \in Nodes : m \notin gone /\ m # Caller.p => node'[m] = node[m]
  BY <1>1 DEF Moved
<1>7. /\ node'[Caller.p].type # "free" /\ (node'[Caller.p].retained <=> node[Caller.p].retained)
      /\ IsNode(node'[Caller.p])
  BY <1>1 DEF Moved
<1>8. \A m \in Nodes : m \notin gone => node'[m].retained = node[m].retained
  <2>1. node'[Caller.p].retained \in BOOLEAN /\ node[Caller.p].retained \in BOOLEAN
    BY <1>1, <1>7, CallerIs DEF IsNode, P
  <2> QED BY <1>6, <1>7, <2>1
<1>9. \A m \in Kept \ gone : m \in Kept' /\ (m \in Unretained => m \in Unretained')
  <2> SUFFICES ASSUME NEW m \in Kept, m \notin gone
               PROVE  m \in Kept' /\ (m \in Unretained => m \in Unretained')
    OBVIOUS
  <2>1. m \in Nodes /\ m \notin lost' /\ node'[m].type # "free" /\ node'[m].retained = node[m].retained
    BY <1>1, <1>5, <1>6, <1>7, <1>8 DEF Kept, Live
  <2> QED BY <2>1 DEF Kept, Live, Unretained
<1>10. Held' = Held /\ Root' = Root /\ Caller' = Caller
  BY <1>1 DEF Held, Root, Caller
<1>11. Kept' \subseteq Kept \ gone
  <2> SUFFICES ASSUME NEW m \in Kept' PROVE m \in Kept \ gone
    OBVIOUS
  <2>1. m \in Nodes /\ node'[m].type # "free" /\ m \notin lost
    BY <1>1 DEF Kept, Live
  <2>2. m \notin gone
    <3>1. lost' = lost /\ Free.type = "free"
      BY <1>1, FreeIs
    <3> QED BY <1>1, <2>1, <3>1 DEF Moved
  <2>3. m \in Kept
    BY <1>3, <1>6, <2>1, <2>2 DEF Kept, Live
  <2> QED BY <2>2, <2>3
<1> QED BY <1>2, <1>3, <1>4, <1>5, <1>6, <1>8, <1>9, <1>10, <1>11

LEMMA RewrittenKeeps ==
    ASSUME Sound, Path, NEW gone, Rewritten(gone)
    PROVE  Sound' /\ Path'
<1>1. /\ walk # <<>> /\ Caller.parts = <<>> /\ Moved(gone, {Caller.p})
      /\ UNCHANGED <<walk, pc, compiler, known, vals, stmts, left, result, lost>>
  BY DEF Rewritten
<1>2. /\ gone \cap Held = {} /\ gone \subseteq Kept \cap Unretained /\ Caller.p \notin gone
      /\ \A k \in 1..Len(walk) : walk[k].p \notin gone
      /\ \A m \in Nodes : m \notin gone /\ m # Caller.p => node'[m] = node[m]
      /\ \A m \in Kept \ gone : m \in Kept' /\ (m \in Unretained => m \in Unretained')
      /\ Held' = Held /\ Root' = Root
  BY RewrittenStay
<1>3. /\ Len(walk) \in Nat \ {0} /\ Caller = walk[1] /\ 1 \in 1..Len(walk)
      /\ Caller.p \in Kept \cap Unretained /\ Caller.p \in Nodes
  BY <1>1, CallerIs
<1>4. Held \subseteq Kept /\ Held \ {left} \subseteq Unretained
  BY DEF Sound, Roots, RootsType
<1>5. Graph'
  BY <1>1, <1>4, GraphMoves DEF Sound
<1>6. RootsType'
  BY <1>1, <1>2, <1>4 DEF Sound, Roots, RootsType
<1>7. RootsOnce'
  BY <1>1 DEF Sound, Roots, RootsOnce
<1>8. Phases'
  <2>1. ASSUME left # 0, ~node'[left].retained PROVE node'[left].xs = <<>>
    <3>1. left \in Held /\ left \in Kept /\ left \in Nodes /\ left \notin gone
      BY <1>2, <1>4, <2>1 DEF Held, Kept, Live
    <3>2. CASE left = Caller.p
      <4>1. ~node[left].retained
        BY <1>3, <3>2 DEF Unretained
      <4>2. P.xs = <<>>
        BY <2>1, <3>2, <4>1 DEF Sound, Roots, Phases, P
      <4>3. \E i : i \in 1..Len(P.xs)
        BY DEF Rewritten
      <4> QED BY <4>2, <4>3
    <3>3. CASE left # Caller.p
      <4>1. node'[left] = node[left]
        BY <1>2, <3>1, <3>3
      <4> QED BY <2>1, <4>1 DEF Sound, Roots, Phases
    <3> QED BY <3>2, <3>3
  <2> QED BY <1>1, <2>1 DEF Sound, Roots, Phases
<1>9. Sound'
  BY <1>5, <1>6, <1>7, <1>8 DEF Sound, Roots
<1>10. \A k \in 1..Len(walk) : k # 1 => node'[walk[k].p] = node[walk[k].p]
  <2> SUFFICES ASSUME NEW k \in 1..Len(walk), k # 1 PROVE node'[walk[k].p] = node[walk[k].p]
    OBVIOUS
  <2>1. walk[k].p # Caller.p
    BY <1>3 DEF Path
  <2>2. walk[k].p \in Nodes
    BY SeenIn
  <2> QED BY <1>2, <2>1, <2>2
<1>11. ASSUME NEW k \in 1..Len(walk)
       PROVE  /\ walk[k].p \in Kept' \cap Unretained'
              /\ Len(walk[k].parts) <= Len(node'[walk[k].p].xs)
              /\ \A i \in 1..Len(walk[k].parts) :
                    walk[k].parts[i] =
                        node'[walk[k].p].xs[Len(node'[walk[k].p].xs) - Len(walk[k].parts) + i]
  <2>1. walk[k].p \in Kept' \cap Unretained'
    BY <1>2 DEF Path
  <2>2. CASE k = 1
    <3>1. walk[k].parts = <<>>
      BY <1>1, <1>3, <2>2
    <3>2. Len(walk[k].parts) = 0
      BY <3>1
    <3>3. Len(node'[walk[k].p].xs) \in Nat
      <4>1. IsNode(node'[walk[k].p])
        BY <1>1, <1>3, <2>2 DEF Moved
      <4> QED BY <4>1, PartsType
    <3>4. \A i : i \notin 1..Len(walk[k].parts)
      BY <3>2
    <3>5. Len(walk[k].parts) <= Len(node'[walk[k].p].xs)
      BY <3>2, <3>3
    <3> QED BY <2>1, <3>4, <3>5
  <2>3. CASE k # 1
    <3>1. node'[walk[k].p] = node[walk[k].p]
      BY <1>10, <2>3
    <3>2. /\ Len(walk[k].parts) <= Len(node[walk[k].p].xs)
          /\ \A i \in 1..Len(walk[k].parts) :
                walk[k].parts[i] = node[walk[k].p].xs[Len(node[walk[k].p].xs) - Len(walk[k].parts) + i]
      BY DEF Path, Seen
    <3> QED BY <2>1, <3>1, <3>2
  <2> QED BY <2>2, <2>3
<1>12. ASSUME NEW k \in 1..Len(walk) - 1
       PROVE  LET c == walk[k + 1]
                  m == Len(node'[c.p].xs) - Len(c.parts)
              IN  m > 0 /\ node'[c.p].xs[m] = walk[k].p
  <2>1. k + 1 \in 1..Len(walk) /\ k + 1 # 1
    BY <1>3
  <2>2. node'[walk[k + 1].p] = node[walk[k + 1].p]
    BY <1>10, <2>1
  <2> QED BY <2>2 DEF Path, Seen
<1>13. Path'
  <2>1. walk' = walk
    BY <1>1
  <2>2. (\E S : walk' \in Seq(S)) /\ (walk' # <<>> => walk'[Len(walk')].p = Root')
    BY <1>2, <2>1 DEF Path
  <2>3. /\ \A k \in 1..Len(walk') : walk'[k] = [p |-> walk'[k].p, parts |-> walk'[k].parts]
        /\ \A k \in 1..Len(walk') : walk'[k].parts \in Seq(Nodes)
        /\ \A k, j \in 1..Len(walk') : walk'[k].p = walk'[j].p => k = j
    BY <2>1 DEF Path
  <2>4. \A k \in 1..Len(walk') :
           /\ walk'[k].p \in Kept' \cap Unretained'
           /\ Len(walk'[k].parts) <= Len(node'[walk'[k].p].xs)
           /\ \A i \in 1..Len(walk'[k].parts) :
                 walk'[k].parts[i] =
                    node'[walk'[k].p].xs[Len(node'[walk'[k].p].xs) - Len(walk'[k].parts) + i]
    BY <1>11, <2>1
  <2>5. \A k \in 1..Len(walk') - 1 :
           LET c == walk'[k + 1]
               m == Len(node'[c.p].xs) - Len(c.parts)
           IN  m > 0 /\ node'[c.p].xs[m] = walk'[k].p
    BY <1>12, <2>1
  <2> QED BY <2>2, <2>3, <2>4, <2>5 DEF Path, Seen
<1> QED BY <1>9, <1>13

\* A sequence and another one, in which nothing but arguments is twice.
LEMMA OneBehindTheOther ==
    ASSUME NEW s \in Seq(Nodes), NEW t \in Seq(Nodes),
           \A i, j \in 1..Len(s) : s[i] = s[j] => s[i] \in Given \/ i = j,
           \A i, j \in 1..Len(t) : t[i] = t[j] => t[i] \in Given \/ i = j,
           \A i \in 1..Len(s), j \in 1..Len(t) : s[i] = t[j] => s[i] \in Given
    PROVE  /\ s \o t \in Seq(Nodes)
           /\ \A i \in 1..Len(s \o t) : \/ \E j \in 1..Len(s) : (s \o t)[i] = s[j]
                                        \/ \E j \in 1..Len(t) : (s \o t)[i] = t[j]
           /\ \A j \in 1..Len(s) : \E i \in 1..Len(s \o t) : (s \o t)[i] = s[j]
           /\ \A j \in 1..Len(t) : \E i \in 1..Len(s \o t) : (s \o t)[i] = t[j]
           /\ \A i, j \in 1..Len(s \o t) :
                 (s \o t)[i] = (s \o t)[j] => (s \o t)[i] \in Given \/ i = j
<1> DEFINE u == s \o t
           m == Len(s)
           n == Len(t)
<1>1. /\ u \in Seq(Nodes) /\ m \in Nat /\ n \in Nat /\ Len(u) = m + n
      /\ \A i \in 1..m + n : u[i] = IF i <= m THEN s[i] ELSE t[i - m]
  BY ConcatProperties
<1>2. ASSUME NEW i \in 1..m + n, i <= m PROVE i \in 1..m /\ u[i] = s[i]
  BY <1>1, <1>2
<1>3. ASSUME NEW i \in 1..m + n, ~(i <= m) PROVE i - m \in 1..n /\ u[i] = t[i - m]
  <2>1. i - m \in 1..n
    <3> HIDE DEF m, n
    <3> QED BY <1>1, <1>3
  <2> QED BY <1>1, <1>3, <2>1
<1>4. \A j \in 1..m : j \in 1..m + n /\ u[j] = s[j]
  <2> HIDE DEF u
  <2>1. \A j \in 1..m : j \in 1..m + n /\ j <= m
    <3> HIDE DEF m, n
    <3> QED BY <1>1
  <2> QED BY <1>1, <2>1
<1>5. \A j \in 1..n : m + j \in 1..m + n /\ u[m + j] = t[j]
  <2> HIDE DEF u
  <2>1. \A j \in 1..n : m + j \in 1..m + n /\ ~(m + j <= m) /\ m + j - m = j
    <3> HIDE DEF m, n
    <3> QED BY <1>1
  <2> QED BY <1>1, <2>1
<1> HIDE DEF u
<1>6. ASSUME NEW i \in 1..m + n, NEW j \in 1..m + n, u[i] = u[j]
      PROVE  u[i] \in Given \/ i = j
  <2>1. CASE i <= m /\ j <= m
    BY <1>2, <1>6, <2>1
  <2>2. CASE ~(i <= m) /\ ~(j <= m)
    <3>1. i - m \in 1..n /\ j - m \in 1..n /\ t[i - m] = t[j - m] /\ u[i] = t[i - m]
      BY <1>3, <1>6, <2>2
    <3>2. t[i - m] \in Given \/ i - m = j - m
      BY <3>1
    <3> HIDE DEF m, n
    <3>3. i - m = j - m => i = j
      BY <1>1
    <3> QED BY <3>1, <3>2, <3>3
  <2>3. CASE i <= m /\ ~(j <= m)
    BY <1>2, <1>3, <1>6, <2>3
  <2>4. CASE ~(i <= m) /\ j <= m
    <3>1. u[j] = s[j] /\ u[i] = t[i - m] /\ j \in 1..m /\ i - m \in 1..n
      BY <1>2, <1>3, <2>4
    <3> QED BY <1>6, <3>1
  <2> QED BY <2>1, <2>2, <2>3, <2>4
<1>7. \A i \in 1..m + n : (\E j \in 1..m : u[i] = s[j]) \/ (\E j \in 1..n : u[i] = t[j])
  BY <1>2, <1>3
<1> QED BY <1>1, <1>4, <1>5, <1>6, <1>7 DEF u

\* xs are the parts of the caller's node, with those of its q-th part in place of that one.
TakesOver(q, xs) ==
    LET part == P.xs[q]
    IN  /\ q \in 1..Len(P.xs) /\ xs \in Seq(Nodes)
        /\ \A i \in 1..Len(xs) : \/ \E j \in 1..Len(P.xs) : j # q /\ xs[i] = P.xs[j]
                                 \/ \E j \in 1..Len(node[part].xs) : xs[i] = node[part].xs[j]
        /\ \A j \in 1..Len(P.xs) : j # q => \E i \in 1..Len(xs) : xs[i] = P.xs[j]
        /\ \A j \in 1..Len(node[part].xs) : \E i \in 1..Len(xs) : xs[i] = node[part].xs[j]
        /\ \A i, j \in 1..Len(xs) : xs[i] = xs[j] => xs[i] \in Given \/ i = j

LEMMA MergeRewrites ==
    ASSUME Sound, Path, Rewriting, NEW q, NEW xs, TakesOver(q, xs), Joins(Caller.p, P.xs[q]),
           Rewrite(Caller.p, xs, P.xs[q]),
           UNCHANGED <<pc, compiler, known, vals, stmts, left, result, lost>>
    PROVE  Rewritten({P.xs[q]})
<1> DEFINE c == Caller.p
           part == P.xs[q]
           gone == {part}
<1>1. walk # <<>> /\ Caller.parts = <<>> /\ q \in 1..Len(P.xs) /\ walk' = walk
  BY DEF Rewriting, TakesOver, Rewrite
<1>2. /\ c \in Kept \cap Unretained /\ c \in Nodes /\ c \notin Given /\ IsNode(node[c])
      /\ part \in Nodes
  BY <1>1, CallerIs DEF P
<1>3. /\ P.type \in {"or", "and"} /\ node[part].type = P.type /\ part \notin Given
  BY <1>2, RetainedAre DEF Joins, P, Sound, Graph
<1>4. /\ part \in Kept \cap Unretained /\ part \notin Held
      /\ \A k \in 1..Len(walk) : walk[k].p # part
      /\ \A m \in Kept : \A j \in 1..Len(node[m].xs) : node[m].xs[j] = part => m = c /\ j = q
  BY <1>1, <1>3, NotCalled
<1>5. c # part
  BY <1>1, <1>4, CallerIs
<1>6. node' = [node EXCEPT ![c].xs = xs, ![part] = Free]
  BY DEF Rewrite
<1>7. DOMAIN node = Nodes /\ \A m \in Nodes : IsNode(node[m])
  BY DEF Sound, Graph, NodesType
<1> DEFINE new == [node[c] EXCEPT !.xs = xs]
<1>8. /\ node' = [n \in Nodes |-> node'[n]] /\ node'[c] = new /\ node'[part] = Free
      /\ \A n \in Nodes : n \notin {c, part} => node'[n] = node[n]
  <2> HIDE DEF c, part
  <2> QED BY <1>2, <1>5, <1>6, <1>7
<1>9. xs \in Seq(Nodes)
  BY DEF TakesOver
<1>10. IsNode(new) /\ new.type = P.type /\ new.xs = xs /\ new.retained = node[c].retained
  <2> DEFINE r == node[c]
  <2>1. r = [type |-> r.type, fold |-> r.fold, is |-> r.is, xs |-> r.xs, retained |-> r.retained]
        /\ r.retained \in BOOLEAN /\ r.type = P.type
    BY <1>2 DEF IsNode, P
  <2> HIDE DEF r
  <2>2. new = [r EXCEPT !.xs = xs]
    BY DEF r
  <2> HIDE DEF new
  <2>3. /\ new.type = r.type /\ new.xs = xs /\ new.retained = r.retained
        /\ new = [type |-> new.type, fold |-> new.fold, is |-> new.is, xs |-> new.xs, retained |-> new.retained]
    BY <2>1, <2>2
  <2> QED BY <1>9, <2>1, <2>3 DEF IsNode, r
<1> HIDE DEF new
<1>11. \A m \in Nodes : \A i \in 1..Len(node[m].xs) : node[m].xs[i] \in Nodes
  BY <1>7, PartsType
<1>12. /\ \A i \in 1..Len(xs) : /\ PartOf({c, part}, xs[i])
                               /\ xs[i] # part
                               /\ xs[i] \notin Given
       /\ \A n : PartOf({c, part}, n) => n = part \/ \E i \in 1..Len(xs) : xs[i] = n
  <2>1. /\ \A i \in 1..Len(xs) : \/ \E j \in 1..Len(P.xs) : j # q /\ xs[i] = P.xs[j]
                                 \/ \E j \in 1..Len(node[part].xs) : xs[i] = node[part].xs[j]
        /\ \A j \in 1..Len(P.xs) : j # q => \E i \in 1..Len(xs) : xs[i] = P.xs[j]
        /\ \A j \in 1..Len(node[part].xs) : \E i \in 1..Len(xs) : xs[i] = node[part].xs[j]
    BY DEF TakesOver
  <2>2. P = node[c]
    BY DEF P
  <2> HIDE DEF c, part
  <2>3. \A n : PartOf({c, part}, n) <=> \/ \E j \in 1..Len(P.xs) : P.xs[j] = n
                                       \/ \E j \in 1..Len(node[part].xs) : node[part].xs[j] = n
    BY <2>2 DEF PartOf
  <2>4. \A m \in {c, part} : \A j \in 1..Len(node[m].xs) : node[m].xs[j] \notin Given
    <3>1. c \in Nodes /\ part \in Nodes /\ node[c].type # "ref" /\ node[part].type # "ref"
      BY <1>2, <1>3, <2>2
    <3>2. \A m \in {c, part} : \A j \in 1..Len(node[m].xs) :
             node[m].xs[j] \in Nodes /\ ~node[node[m].xs[j]].retained
      BY <1>11, <3>1 DEF Sound, Graph, Kinds
    <3> QED BY <3>2, RetainedAre DEF Sound, Graph
  <2>5. P.xs[q] = part
    BY DEF part
  <2>6. \A j \in 1..Len(P.xs) : P.xs[j] = part => j = q
    BY <1>2, <1>4, <2>2
  <2>7. \A j \in 1..Len(node[part].xs) : node[part].xs[j] # part
    BY <1>4, <1>5
  <2>8. ASSUME NEW i \in 1..Len(xs)
        PROVE  PartOf({c, part}, xs[i]) /\ xs[i] # part /\ xs[i] \notin Given
    <3>1. CASE \E j \in 1..Len(P.xs) : j # q /\ xs[i] = P.xs[j]
      <4>1. PICK j \in 1..Len(P.xs) : j # q /\ xs[i] = P.xs[j]
        BY <3>1
      <4>2. P.xs[j] # part
        BY <2>6, <4>1
      <4>3. node[c].xs[j] \notin Given /\ j \in 1..Len(node[c].xs) /\ xs[i] = node[c].xs[j]
        BY <2>2, <2>4, <4>1
      <4> QED BY <4>1, <4>2, <4>3 DEF PartOf
    <3>2. CASE \E j \in 1..Len(node[part].xs) : xs[i] = node[part].xs[j]
      <4>1. PICK j \in 1..Len(node[part].xs) : xs[i] = node[part].xs[j]
        BY <3>2
      <4> QED BY <2>4, <2>7, <4>1 DEF PartOf
    <3> QED BY <2>1, <3>1, <3>2
  <2>9. ASSUME NEW n, PartOf({c, part}, n)
        PROVE  n = part \/ \E i \in 1..Len(xs) : xs[i] = n
    <3>1. CASE \E j \in 1..Len(P.xs) : P.xs[j] = n
      <4>1. PICK j \in 1..Len(P.xs) : P.xs[j] = n
        BY <3>1
      <4>2. CASE j = q
        BY <2>5, <4>1, <4>2
      <4>3. CASE j # q
        <5>1. \E i \in 1..Len(xs) : xs[i] = P.xs[j]
          BY <2>1, <4>1, <4>3
        <5> QED BY <4>1, <5>1
      <4> QED BY <4>2, <4>3
    <3>2. CASE \E j \in 1..Len(node[part].xs) : node[part].xs[j] = n
      <4>1. PICK j \in 1..Len(node[part].xs) : node[part].xs[j] = n
        BY <3>2
      <4>2. \E i \in 1..Len(xs) : xs[i] = node[part].xs[j]
        BY <2>1, <4>1
      <4> QED BY <4>1, <4>2
    <3> QED BY <2>3, <2>9, <3>1, <3>2
  <2> QED BY <2>8, <2>9
<1>13. \A i, j \in 1..Len(xs) : xs[i] = xs[j] => xs[i] \in Given \/ i = j
  BY DEF TakesOver
<1>14. Kept \cap ({c} \cup gone) = {c, part} /\ Kept \cap (gone \cup {c}) = {c, part}
       /\ {c} \ Kept = {}
  BY <1>2, <1>4
<1>15. c \notin lost /\ part \notin lost
  BY <1>2, <1>4 DEF Kept
<1>16. /\ UNCHANGED <<pc, compiler, known, vals, stmts, left, result, lost>>
       /\ Held' = Held
  BY DEF Held
<1>17. known' \in 0..Len(Args) + 1 /\ left' \in 0..MaxNode
  BY <1>16 DEF Sound, Graph, NodesType
<1>18. \A n \in gone : n = part
  OBVIOUS
<1>19. ~PartOf(Kept \ (gone \cup {c}), part)
  BY <1>4 DEF PartOf
<1>20. node'[c].retained <=> node[c].retained
  BY <1>8, <1>10
<1>21. Moved(gone, {c})
  <2>1. gone \subseteq Kept \cap Unretained /\ {c} \subseteq Nodes \ (gone \cup lost)
    BY <1>2, <1>4, <1>5, <1>15
  <2>2. \A n \in Nodes \ {c} : node'[n] = node[n] \/ (n \in gone /\ node'[n] = Free)
    BY <1>8
  <2>3. lost \subseteq lost' /\ lost' \subseteq lost \cup gone
        /\ \A n \in gone : IF n \in lost' THEN node'[n] = node[n] ELSE node'[n] = Free
    BY <1>8, <1>15, <1>16
  <2> HIDE DEF gone, c, part
  <2>4. /\ IsNode(node'[c]) /\ node'[c].type \notin {"free", "pass", "lift", "ref"}
        /\ node'[c].xs = xs
    <3>1. P.type \notin {"free", "pass", "lift", "ref"}
      BY <1>3
    <3> QED BY <1>8, <1>10, <3>1
  <2>5. \A i \in 1..Len(node'[c].xs) :
           PartOf(Kept \cap ({c} \cup gone), node'[c].xs[i]) /\ node'[c].xs[i] \notin gone
           /\ node'[c].xs[i] \notin Given
    <3> SUFFICES ASSUME NEW i \in 1..Len(xs)
                 PROVE  PartOf(Kept \cap ({c} \cup gone), xs[i]) /\ xs[i] \notin gone /\ xs[i] \notin Given
      BY <2>4
    <3>1. PartOf({c, part}, xs[i]) /\ xs[i] # part /\ xs[i] \notin Given
      BY <1>12
    <3> QED BY <1>14, <1>18, <3>1
  <2>6. \A i, j \in 1..Len(node'[c].xs) :
           node'[c].xs[i] = node'[c].xs[j] => node'[c].xs[i] \in Given \/ i = j
    BY <1>13, <2>4
  <2>7. \A n \in gone : ~PartOf(Kept \ (gone \cup {c}), n)
    BY <1>18, <1>19
  <2>8. \A n \in Nodes : PartOf(Kept \cap (gone \cup {c}), n) =>
           \/ n \in gone \cup Given \cup Held'
           \/ \E d \in {c} : \E i \in 1..Len(node'[d].xs) : node'[d].xs[i] = n
    <3>1. part \in gone
      BY DEF gone
    <3> QED BY <1>12, <1>14, <2>4, <3>1
  <2>9. /\ Held' \subseteq ((Held \cup ({c} \ Kept)) \ gone) \cup Given
        /\ (Held \cup ({c} \ Kept)) \ gone \subseteq Held' \cup Given
    BY <1>4, <1>14, <1>16, <1>18
  <2>10. \A d \in {c} :
            /\ IsNode(node'[d]) /\ node'[d].type # "free"
            /\ node'[d].retained <=> node[d].retained
            /\ node'[d].type \in {"pass", "lift"} => node'[d].xs = <<>>
            /\ node'[d].type # "ref" => \A i \in 1..Len(node'[d].xs) : node'[d].xs[i] \notin Given
            /\ \A i \in 1..Len(node'[d].xs) :
                  PartOf(Kept \cap ({c} \cup gone), node'[d].xs[i]) /\ node'[d].xs[i] \notin gone
            /\ \A i, j \in 1..Len(node'[d].xs) :
                  node'[d].xs[i] = node'[d].xs[j] => node'[d].xs[i] \in Given \/ i = j
    BY <1>20, <2>4, <2>5, <2>6
  <2> QED BY <1>8, <1>17, <2>1, <2>2, <2>3, <2>7, <2>8, <2>9, <2>10 DEF Moved
<1>22. \A n \in gone : n \notin Given /\ \E i \in 1..Len(P.xs) : P.xs[i] = n
  BY <1>1, <1>3
<1>23. gone # {}
  OBVIOUS
<1> QED BY <1>1, <1>16, <1>21, <1>22, <1>23 DEF Rewritten

LEMMA TakesOverIf ==
    ASSUME Sound, Path, walk # <<>>, NEW q \in 1..Len(P.xs), P.xs[q] \notin Given,
           NEW o \in Seq(Nodes),
           \A i \in 1..Len(o) : \E j \in 1..Len(P.xs) : j # q /\ o[i] = P.xs[j],
           \A j \in 1..Len(P.xs) : j # q => \E i \in 1..Len(o) : o[i] = P.xs[j],
           \A i, j \in 1..Len(o) : o[i] = o[j] => o[i] \in Given \/ i = j
    PROVE  TakesOver(q, o \o node[P.xs[q]].xs) /\ TakesOver(q, node[P.xs[q]].xs \o o)
<1> DEFINE c == Caller.p
           part == P.xs[q]
           t == node[part].xs
<1>1. c \in Kept /\ c \in Nodes /\ part \in Nodes /\ part \in Kept /\ c # part
  BY CallerIs, NotCalled
<1>2. t \in Seq(Nodes)
  BY <1>1 DEF Sound, Graph, NodesType, IsNode
<1>3. \A m \in Kept : \A i \in 1..Len(node[m].xs), j \in 1..Len(t) :
         node[m].xs[i] = t[j] => t[j] \in Given \/ (m = part /\ i = j)
  <2> SUFFICES ASSUME NEW m \in Kept, NEW i \in 1..Len(node[m].xs), NEW j \in 1..Len(t),
                      node[m].xs[i] = t[j]
               PROVE  t[j] \in Given \/ (m = part /\ i = j)
    OBVIOUS
  <2>1. node[t[j]].retained \/ (m = part /\ i = j)
    BY <1>1 DEF Sound, Graph, Once
  <2>2. t[j] \in Nodes
    BY <1>2
  <2> QED BY <2>1, <2>2, RetainedAre DEF Sound, Graph
<1>4. \A i, j \in 1..Len(t) : t[i] = t[j] => t[i] \in Given \/ i = j
  BY <1>1, <1>3
<1>5. \A i \in 1..Len(o), j \in 1..Len(t) : o[i] = t[j] => o[i] \in Given
  <2> SUFFICES ASSUME NEW i \in 1..Len(o), NEW j \in 1..Len(t), o[i] = t[j] PROVE o[i] \in Given
    OBVIOUS
  <2>1. PICK k \in 1..Len(P.xs) : o[i] = P.xs[k]
    OBVIOUS
  <2>2. P = node[c]
    BY DEF P
  <2>3. k \in 1..Len(node[c].xs) /\ node[c].xs[k] = t[j] /\ c # part
    BY <1>1, <2>1, <2>2
  <2>4. t[j] \in Given
    BY <1>1, <1>3, <2>3
  <2> QED BY <2>4
<1> HIDE DEF t, part, c
<1>6. \A j \in 1..Len(t), i \in 1..Len(o) : t[j] = o[i] => t[j] \in Given
  BY <1>5
<1>7. TakesOver(q, o \o t)
  <2> DEFINE u == o \o t
  <2>1. /\ u \in Seq(Nodes)
        /\ \A i \in 1..Len(u) : \/ \E j \in 1..Len(o) : u[i] = o[j]
                                \/ \E j \in 1..Len(t) : u[i] = t[j]
        /\ \A j \in 1..Len(o) : \E i \in 1..Len(u) : u[i] = o[j]
        /\ \A j \in 1..Len(t) : \E i \in 1..Len(u) : u[i] = t[j]
        /\ \A i, j \in 1..Len(u) : u[i] = u[j] => u[i] \in Given \/ i = j
    BY <1>2, <1>4, <1>5, OneBehindTheOther
  <2> HIDE DEF u
  <2>2. t = node[P.xs[q]].xs
    BY DEF t, part
  <2>3. \A i \in 1..Len(u) : \/ \E j \in 1..Len(P.xs) : j # q /\ u[i] = P.xs[j]
                             \/ \E j \in 1..Len(t) : u[i] = t[j]
    <3> SUFFICES ASSUME NEW i \in 1..Len(u), NEW k \in 1..Len(o), u[i] = o[k]
                 PROVE  \E j \in 1..Len(P.xs) : j # q /\ u[i] = P.xs[j]
      BY <2>1
    <3> QED OBVIOUS
  <2>4. \A j \in 1..Len(P.xs) : j # q => \E i \in 1..Len(u) : u[i] = P.xs[j]
    <3> SUFFICES ASSUME NEW j \in 1..Len(P.xs), j # q PROVE \E i \in 1..Len(u) : u[i] = P.xs[j]
      OBVIOUS
    <3>1. PICK k \in 1..Len(o) : o[k] = P.xs[j]
      OBVIOUS
    <3>2. PICK i \in 1..Len(u) : u[i] = o[k]
      BY <2>1
    <3> QED BY <3>1, <3>2
  <2>5. TakesOver(q, u)
    BY <2>1, <2>2, <2>3, <2>4 DEF TakesOver
  <2> QED BY <2>5 DEF u
<1>8. TakesOver(q, t \o o)
  <2> DEFINE u == t \o o
  <2>1. /\ u \in Seq(Nodes)
        /\ \A i \in 1..Len(u) : \/ \E j \in 1..Len(t) : u[i] = t[j]
                                \/ \E j \in 1..Len(o) : u[i] = o[j]
        /\ \A j \in 1..Len(t) : \E i \in 1..Len(u) : u[i] = t[j]
        /\ \A j \in 1..Len(o) : \E i \in 1..Len(u) : u[i] = o[j]
        /\ \A i, j \in 1..Len(u) : u[i] = u[j] => u[i] \in Given \/ i = j
    BY <1>2, <1>4, <1>6, OneBehindTheOther
  <2> HIDE DEF u
  <2>2. t = node[P.xs[q]].xs
    BY DEF t, part
  <2>3. \A i \in 1..Len(u) : \/ \E j \in 1..Len(P.xs) : j # q /\ u[i] = P.xs[j]
                             \/ \E j \in 1..Len(t) : u[i] = t[j]
    <3> SUFFICES ASSUME NEW i \in 1..Len(u), NEW k \in 1..Len(o), u[i] = o[k]
                 PROVE  \E j \in 1..Len(P.xs) : j # q /\ u[i] = P.xs[j]
      BY <2>1
    <3> QED OBVIOUS
  <2>4. \A j \in 1..Len(P.xs) : j # q => \E i \in 1..Len(u) : u[i] = P.xs[j]
    <3> SUFFICES ASSUME NEW j \in 1..Len(P.xs), j # q PROVE \E i \in 1..Len(u) : u[i] = P.xs[j]
      OBVIOUS
    <3>1. PICK k \in 1..Len(o) : o[k] = P.xs[j]
      OBVIOUS
    <3>2. PICK i \in 1..Len(u) : u[i] = o[k]
      BY <2>1
    <3> QED BY <3>1, <3>2
  <2>5. TakesOver(q, u)
    BY <2>1, <2>2, <2>3, <2>4 DEF TakesOver
  <2> QED BY <2>5 DEF u
<1> QED BY <1>7, <1>8 DEF t, part

\* The parts of a node in use are different, unless they are arguments.
LEMMA PartsDiffer ==
    ASSUME Graph, NEW m \in Kept
    PROVE  \A i, j \in 1..Len(node[m].xs) :
              node[m].xs[i] = node[m].xs[j] => node[m].xs[i] \in Given \/ i = j
<1> SUFFICES ASSUME NEW i \in 1..Len(node[m].xs), NEW j \in 1..Len(node[m].xs),
                    node[m].xs[i] = node[m].xs[j]
             PROVE  node[m].xs[i] \in Given \/ i = j
  OBVIOUS
<1>1. node[node[m].xs[i]].retained \/ i = j
  BY DEF Graph, Once
<1>2. m \in Nodes
  BY DEF Kept, Live
<1>3. node[m].xs[i] \in Nodes
  BY <1>2, PartsType DEF Graph, NodesType
<1> QED BY <1>1, <1>3, RetainedAre DEF Graph

LEMMA MergeLastRewrites ==
    ASSUME Sound, Path, MergeLast,
           UNCHANGED <<compiler, predictive, pc, known, vals, stmts, left, result, rules, lost>>
    PROVE  \E gone : Rewritten(gone)
<1> DEFINE n == Len(P.xs)
           o == Front(P.xs)
<1>1. /\ Rewriting /\ walk # <<>> /\ P.xs # <<>> /\ Joins(Caller.p, Last(P.xs))
      /\ Rewrite(Caller.p, Front(P.xs) \o node[Last(P.xs)].xs, Last(P.xs))
  BY DEF MergeLast, Rewriting, JoinsLast, P
<1>2. P.xs \in Seq(Nodes) /\ Caller.p \in Kept
  BY <1>1, CallerIs DEF IsNode
<1>3. /\ n \in Nat \ {0} /\ o \in Seq(Nodes) /\ Len(o) = n - 1
      /\ \A k \in 1..(n - 1) : o[k] = P.xs[k]
  BY <1>1, <1>2, FrontFacts DEF Front
<1>4. Last(P.xs) = P.xs[n]
  BY DEF Last
<1> HIDE DEF n, o
<1>5. n \in 1..n /\ \A k \in 1..(n - 1) : k \in 1..n /\ k # n
  BY <1>3
<1>6. \A k \in 1..n : k # n => k \in 1..(n - 1)
  BY <1>3
<1>7. P.xs[n] \in Nodes /\ P.xs[n] \notin Given
  <2>1. P.xs[n] \in Nodes
    BY <1>2, <1>5 DEF n
  <2>2. ~node[P.xs[n]].retained
    BY <1>1, <1>4 DEF Joins
  <2> QED BY <2>1, <2>2, RetainedAre DEF Sound, Graph
<1>8. \A i, j \in 1..n : P.xs[i] = P.xs[j] => P.xs[i] \in Given \/ i = j
  BY <1>2, PartsDiffer DEF Sound, P, n
<1>9. /\ \A i \in 1..Len(o) : \E j \in 1..n : j # n /\ o[i] = P.xs[j]
      /\ \A j \in 1..n : j # n => \E i \in 1..Len(o) : o[i] = P.xs[j]
      /\ \A i, j \in 1..Len(o) : o[i] = o[j] => o[i] \in Given \/ i = j
  BY <1>3, <1>5, <1>6, <1>8
<1>10. TakesOver(n, o \o node[P.xs[n]].xs)
  BY <1>1, <1>3, <1>5, <1>7, <1>9, TakesOverIf DEF n
<1>11. Rewrite(Caller.p, o \o node[P.xs[n]].xs, P.xs[n]) /\ Joins(Caller.p, P.xs[n])
  BY <1>1, <1>4 DEF o
<1>12. Rewritten({P.xs[n]})
  BY <1>1, <1>10, <1>11, MergeRewrites
<1>13. n \in 1..Len(P.xs)
  BY <1>5 DEF n
<1> QED BY <1>10, <1>11, <1>12, <1>13

LEMMA MergeFirstRewrites ==
    ASSUME Sound, Path, MergeFirst,
           UNCHANGED <<compiler, predictive, pc, known, vals, stmts, left, result, rules, lost>>
    PROVE  \E gone : Rewritten(gone)
<1> DEFINE n == Len(P.xs)
           o == Tail(P.xs)
<1>1. /\ Rewriting /\ walk # <<>> /\ P.xs # <<>> /\ Joins(Caller.p, Head(P.xs))
      /\ Rewrite(Caller.p, node[Head(P.xs)].xs \o Tail(P.xs), Head(P.xs))
  BY DEF MergeFirst, Rewriting, JoinsFirst, P
<1>2. P.xs \in Seq(Nodes) /\ Caller.p \in Kept
  BY <1>1, CallerIs DEF IsNode
<1>3. /\ n \in Nat \ {0} /\ o \in Seq(Nodes) /\ Len(o) = n - 1
      /\ \A k \in 1..Len(o) : o[k] = P.xs[k + 1]
  BY <1>1, <1>2, HeadTailProperties, EmptySeq
<1>4. Head(P.xs) = P.xs[1]
  BY <1>2
<1> HIDE DEF n, o
<1>5. 1 \in 1..n /\ \A k \in 1..Len(o) : k + 1 \in 1..n /\ k + 1 # 1
  BY <1>3
<1>6. \A k \in 1..n : k # 1 => k - 1 \in 1..Len(o) /\ k - 1 + 1 = k
  BY <1>3
<1>7. P.xs[1] \in Nodes /\ P.xs[1] \notin Given
  <2>1. P.xs[1] \in Nodes
    BY <1>2, <1>5 DEF n
  <2>2. ~node[P.xs[1]].retained
    BY <1>1, <1>4 DEF Joins
  <2> QED BY <2>1, <2>2, RetainedAre DEF Sound, Graph
<1>8. \A i, j \in 1..n : P.xs[i] = P.xs[j] => P.xs[i] \in Given \/ i = j
  BY <1>2, PartsDiffer DEF Sound, P, n
<1>9. /\ \A i \in 1..Len(o) : \E j \in 1..n : j # 1 /\ o[i] = P.xs[j]
      /\ \A j \in 1..n : j # 1 => \E i \in 1..Len(o) : o[i] = P.xs[j]
      /\ \A i, j \in 1..Len(o) : o[i] = o[j] => o[i] \in Given \/ i = j
  <2>1. \A i \in 1..Len(o) : \E j \in 1..n : j # 1 /\ o[i] = P.xs[j]
    BY <1>3, <1>5
  <2>2. \A j \in 1..n : j # 1 => \E i \in 1..Len(o) : o[i] = P.xs[j]
    <3> SUFFICES ASSUME NEW j \in 1..n, j # 1 PROVE \E i \in 1..Len(o) : o[i] = P.xs[j]
      OBVIOUS
    <3>1. j - 1 \in 1..Len(o) /\ o[j - 1] = P.xs[j]
      BY <1>3, <1>6
    <3> QED BY <3>1
  <2>3. ASSUME NEW i \in 1..Len(o), NEW j \in 1..Len(o), o[i] = o[j] PROVE o[i] \in Given \/ i = j
    <3>1. o[i] \in Given \/ i + 1 = j + 1
      BY <1>3, <1>5, <1>8, <2>3
    <3>2. i + 1 = j + 1 => i = j
      BY <1>3
    <3> QED BY <3>1, <3>2
  <2> QED BY <2>1, <2>2, <2>3
<1>10. TakesOver(1, node[P.xs[1]].xs \o o)
  BY <1>1, <1>3, <1>5, <1>7, <1>9, TakesOverIf DEF n
<1>11. Rewrite(Caller.p, node[P.xs[1]].xs \o o, P.xs[1]) /\ Joins(Caller.p, P.xs[1])
  BY <1>1, <1>4 DEF o
<1>12. Rewritten({P.xs[1]})
  BY <1>1, <1>10, <1>11, MergeRewrites
<1>13. 1 \in 1..Len(P.xs)
  BY <1>5 DEF n
<1> QED BY <1>10, <1>11, <1>12, <1>13

\* A pair that begins with a neutral parser.
LEMMA NeutralPair ==
    ASSUME Sound, Path, walk # <<>>, BeginsNeutral(Caller.p)
    PROVE  LET a == P.xs[1]
               b == P.xs[2]
           IN  /\ 1..Len(P.xs) = {1, 2} /\ a # b
               /\ a \in Nodes /\ a \notin Given /\ node[a].xs = <<>>
               /\ b \in Nodes /\ b \notin Given
               /\ \A i : i \notin 1..Len(node[a].xs)
<1> DEFINE a == P.xs[1]
           b == P.xs[2]
<1>1. /\ P.type = "and" /\ Len(P.xs) = 2 /\ node[Head(P.xs)].type = Neutral(P.fold)
      /\ ~node[Head(P.xs)].retained
  BY DEF BeginsNeutral, P
<1>2. P.xs \in Seq(Nodes) /\ Caller.p \in Kept /\ Caller.p \in Nodes
  BY CallerIs DEF IsNode
<1>3. 1..Len(P.xs) = {1, 2}
  BY <1>1
<1>4. P.xs # <<>>
  BY <1>1
<1>5. Head(P.xs) = a /\ a \in Nodes /\ b \in Nodes
  BY <1>2, <1>3, <1>4
<1> HIDE DEF a, b
<1>6. a \notin Given
  BY <1>1, <1>5, RetainedAre DEF Sound, Graph
<1>7. node[a].type \in {"pass", "lift"}
  BY <1>1, <1>5 DEF Neutral
<1>8. node[a].xs = <<>>
  BY <1>5, <1>7 DEF Sound, Graph, Kinds
<1>9. b \notin Given
  <2>1. P.type # "ref" /\ 2 \in 1..Len(P.xs) /\ P = node[Caller.p]
    BY <1>1, <1>3 DEF P
  <2>2. ~node[b].retained
    BY <1>2, <2>1 DEF Sound, Graph, Kinds, b
  <2> QED BY <1>5, <2>2, RetainedAre DEF Sound, Graph
<1>10. a # b
  <2>1. 1 \in 1..Len(P.xs) /\ 2 \in 1..Len(P.xs) /\ P = node[Caller.p]
    BY <1>3 DEF P
  <2>2. a = b => a \in Given
    BY <1>2, <2>1, PartsDiffer DEF Sound, a, b
  <2> QED BY <1>6, <2>2
<1>11. \A i : i \notin 1..Len(node[a].xs)
  <2>1. Len(<<>>) = 0 /\ \A i : i \notin 1..0
    OBVIOUS
  <2> QED BY <1>8, <2>1
<1> QED BY <1>3, <1>5, <1>6, <1>8, <1>9, <1>10, <1>11 DEF a, b

LEMMA RemoveNeutralRewrites ==
    ASSUME Sound, Path, RemoveNeutral,
           UNCHANGED <<compiler, predictive, pc, known, vals, stmts, left, result, rules, lost>>
    PROVE  /\ Rewritten({P.xs[1], P.xs[2]}) /\ node'[Caller.p] = node[P.xs[2]]
           /\ BeginsNeutral(Caller.p)
<1> DEFINE c == Caller.p
           a == P.xs[1]
           b == P.xs[2]
           gone == {a, b}
<1>1. /\ Rewriting /\ walk # <<>> /\ Caller.parts = <<>> /\ BeginsNeutral(c) /\ walk' = walk
      /\ node' = [node EXCEPT ![c] = node[b], ![a] = Free, ![b] = Free]
  BY DEF RemoveNeutral, Rewriting
<1>2. /\ 1..Len(P.xs) = {1, 2} /\ a # b
      /\ a \in Nodes /\ a \notin Given /\ b \in Nodes /\ b \notin Given
      /\ \A i : i \notin 1..Len(node[a].xs)
  BY <1>1, NeutralPair
<1>3. P = node[c] /\ c \in Kept \cap Unretained /\ c \in Nodes /\ c \notin Given /\ c = walk[1].p
      /\ 1 \in 1..Len(walk)
  BY <1>1, CallerIs DEF P
<1>4. /\ gone \subseteq Kept \cap Unretained /\ a \notin Held /\ b \notin Held /\ c # a /\ c # b
      /\ \A m \in Kept : \A j \in 1..Len(node[m].xs) : node[m].xs[j] \in gone => m = c
  <2>1. 1 \in 1..Len(P.xs) /\ 2 \in 1..Len(P.xs)
    BY <1>2, SMTT(20), ZenonT(40)
  <2>2. /\ a \in Kept \cap Unretained /\ a \notin Held /\ c # a
        /\ \A m \in Kept : \A j \in 1..Len(node[m].xs) : node[m].xs[j] = a => m = c
    BY <1>1, <1>2, <1>3, <2>1, NotCalled, SMTT(20), ZenonT(40)
  <2>3. /\ b \in Kept \cap Unretained /\ b \notin Held /\ c # b
        /\ \A m \in Kept : \A j \in 1..Len(node[m].xs) : node[m].xs[j] = b => m = c
    BY <1>1, <1>2, <1>3, <2>1, NotCalled, SMTT(20), ZenonT(40)
  <2> HIDE DEF a, b, c
  <2> QED BY <2>2, <2>3
<1>5. DOMAIN node = Nodes /\ \A m \in Nodes : IsNode(node[m])
  BY DEF Sound, Graph, NodesType
<1>6. /\ node' = [n \in Nodes |-> node'[n]] /\ node'[c] = node[b] /\ node'[a] = Free /\ node'[b] = Free
      /\ \A n \in Nodes : n \notin {c, a, b} => node'[n] = node[n]
  <2> HIDE DEF c, a, b
  <2> QED BY <1>1, <1>2, <1>3, <1>4, <1>5
<1>7. /\ IsNode(node[b]) /\ node[b].type # "free" /\ ~node[b].retained /\ ~node[c].retained
      /\ node[b].type \in {"pass", "lift"} => node[b].xs = <<>>
  <2>1. b \in Live /\ b \in Unretained /\ c \in Unretained
    BY <1>3, <1>4 DEF Kept
  <2>2. node[b].type # "free" /\ ~node[b].retained /\ ~node[c].retained
    BY <2>1 DEF Live, Unretained
  <2> QED BY <1>2, <1>5, <2>2 DEF Sound, Graph, Kinds
<1>8. \A i \in 1..Len(node[b].xs) : node[b].xs[i] \in Nodes
  BY <1>2, <1>5, PartsType
<1>9. node[b].type # "ref" => \A i \in 1..Len(node[b].xs) : node[b].xs[i] \notin Given
  BY <1>2, <1>8, RetainedAre DEF Sound, Graph, Kinds
<1>10. \A i, j \in 1..Len(node[b].xs) :
          node[b].xs[i] = node[b].xs[j] => node[b].xs[i] \in Given \/ i = j
  BY <1>4, PartsDiffer DEF Sound
<1>11. \A i \in 1..Len(node[b].xs) : node[b].xs[i] \notin gone
  BY <1>4, SMTT(20), ZenonT(40)
<1>12. c \notin lost /\ a \notin lost /\ b \notin lost
  BY <1>3, <1>4 DEF Kept
<1>13. \A n : PartOf({c, a, b}, n) => n \in gone \/ \E i \in 1..Len(node[b].xs) : node[b].xs[i] = n
  <2> SUFFICES ASSUME NEW n, PartOf({c, a, b}, n)
               PROVE  n \in gone \/ \E i \in 1..Len(node[b].xs) : node[b].xs[i] = n
    OBVIOUS
  <2>1. PICK m \in {c, a, b} : \E i \in 1..Len(node[m].xs) : node[m].xs[i] = n
    BY DEF PartOf
  <2>2. CASE m = c
    <3>1. PICK i \in {1, 2} : P.xs[i] = n
      BY <1>2, <1>3, <2>1, <2>2
    <3> QED BY <3>1, SMTT(20), ZenonT(40)
  <2>3. CASE m = a
    BY <1>2, <2>1, <2>3
  <2>4. CASE m = b
    BY <2>1, <2>4
  <2> QED BY <2>1, <2>2, <2>3, <2>4
<1>14. \A n : PartOf({b}, n) <=> \E i \in 1..Len(node[b].xs) : node[b].xs[i] = n
  BY DEF PartOf
<1>15. \A n \in gone : ~PartOf(Kept \ (gone \cup {c}), n)
  BY <1>4 DEF PartOf
<1>16. /\ UNCHANGED <<walk, pc, compiler, known, vals, stmts, left, result, lost>> /\ Held' = Held
  BY <1>1 DEF Held
<1>17. known' \in 0..Len(Args) + 1 /\ left' \in 0..MaxNode
  BY <1>16 DEF Sound, Graph, NodesType
<1>18. \A S, n : PartOf({b}, n) /\ b \in S => PartOf(S, n)
  BY DEF PartOf
<1> HIDE DEF a, b, c
<1>19. Kept \cap ({c} \cup gone) = {c, a, b} /\ Kept \cap (gone \cup {c}) = {c, a, b} /\ {c} \ Kept = {}
  BY <1>3, <1>4
<1>20. Moved(gone, {c})
  <2>1. gone \subseteq Kept \cap Unretained /\ {c} \subseteq Nodes \ (gone \cup lost)
    BY <1>3, <1>4, <1>12
  <2>2. \A n \in Nodes \ {c} : node'[n] = node[n] \/ (n \in gone /\ node'[n] = Free)
    BY <1>6
  <2>3. lost \subseteq lost' /\ lost' \subseteq lost \cup gone
        /\ \A n \in gone : IF n \in lost' THEN node'[n] = node[n] ELSE node'[n] = Free
    BY <1>6, <1>12, <1>16
  <2>4. \A d \in {c} :
            /\ IsNode(node'[d]) /\ node'[d].type # "free"
            /\ node'[d].retained <=> node[d].retained
            /\ node'[d].type \in {"pass", "lift"} => node'[d].xs = <<>>
            /\ node'[d].type # "ref" => \A i \in 1..Len(node'[d].xs) : node'[d].xs[i] \notin Given
    BY <1>6, <1>7, <1>9
  <2>5. \A d \in {c} : \A i \in 1..Len(node'[d].xs) :
            PartOf(Kept \cap ({c} \cup gone), node'[d].xs[i]) /\ node'[d].xs[i] \notin gone
    <3>1. ASSUME NEW i \in 1..Len(node[b].xs)
          PROVE  PartOf(Kept \cap ({c} \cup gone), node[b].xs[i]) /\ node[b].xs[i] \notin gone
      <4>1. PartOf({b}, node[b].xs[i]) /\ b \in Kept \cap ({c} \cup gone)
        BY <1>14, <1>19
      <4> QED BY <1>11, <1>18, <4>1
    <3>2. node'[c] = node[b]
      BY <1>6
    <3> HIDE DEF gone
    <3> QED BY <3>1, <3>2
  <2>6. \A d \in {c} : \A i, j \in 1..Len(node'[d].xs) :
            node'[d].xs[i] = node'[d].xs[j] => node'[d].xs[i] \in Given \/ i = j
    BY <1>6, <1>10
  <2>7. \A n \in Nodes : PartOf(Kept \cap (gone \cup {c}), n) =>
           \/ n \in gone \cup Given \cup Held'
           \/ \E d \in {c} : \E i \in 1..Len(node'[d].xs) : node'[d].xs[i] = n
    BY <1>6, <1>13, <1>19
  <2>8. /\ Held' \subseteq ((Held \cup ({c} \ Kept)) \ gone) \cup Given
        /\ (Held \cup ({c} \ Kept)) \ gone \subseteq Held' \cup Given
    BY <1>4, <1>16, <1>19
  <2>9. \A d, e \in {c} : d = e
    OBVIOUS
  <2> HIDE DEF gone
  <2>10. node' = [n \in Nodes |-> node'[n]]
    BY <1>6
  <2> QED BY <1>15, <1>17, <2>1, <2>2, <2>3, <2>4, <2>5, <2>6, <2>7, <2>8, <2>9, <2>10 DEF Moved
<1>21. gone # {} /\ \A n \in gone : n \notin Given /\ \E i \in 1..Len(P.xs) : P.xs[i] = n
  BY <1>2 DEF a, b
<1> QED BY <1>1, <1>6, <1>16, <1>20, <1>21 DEF Rewritten, a, b, c

\* The calls after a part was visited: the caller has one part less to visit, and there may
\* be a call for the part.
LEMMA VisitIs ==
    ASSUME Sound, Path, VisitPart
    PROVE  \E v, m :
              /\ m = Seen(Caller) + 1 /\ m \in 1..Len(P.xs) /\ P.xs[m] = Head(Caller.parts)
              /\ v = [p |-> v.p, parts |-> v.parts] /\ v.p = Caller.p /\ v.parts \in Seq(Nodes)
              /\ Len(v.parts) = Len(P.xs) - m
              /\ \A i \in 1..Len(v.parts) : v.parts[i] = P.xs[m + i]
              /\ walk # <<>> /\ node' = node
              /\ walk' = IF node[P.xs[m]].retained THEN <<v>> \o Tail(walk)
                         ELSE <<CallOf(P.xs[m])>> \o (<<v>> \o Tail(walk))
<1> DEFINE c == Caller
           v == [c EXCEPT !.parts = Tail(@)]
           b == Len(c.parts)
           n == Len(P.xs)
           m == Seen(c) + 1
<1>1. /\ walk # <<>> /\ c.parts # <<>> /\ node' = node
      /\ walk' = IF node[Head(c.parts)].retained THEN <<v>> \o Tail(walk)
                 ELSE <<CallOf(Head(c.parts))>> \o (<<v>> \o Tail(walk))
  BY DEF VisitPart
<1>2. c = walk[1] /\ 1 \in 1..Len(walk) /\ P = node[c.p]
  BY <1>1, CallerIs DEF P
<1>3. /\ c = [p |-> c.p, parts |-> c.parts] /\ c.parts \in Seq(Nodes)
      /\ \A i \in 1..b : c.parts[i] = P.xs[Seen(c) + i]
  BY <1>2 DEF Path
<1>4. n \in Nat /\ b \in Nat /\ Seen(c) + b = n /\ Seen(c) \in 0..n
  BY <1>2, SeenIn
<1>5. b # 0
  BY <1>1, <1>3, EmptySeq
<1> DEFINE t == Tail(c.parts)
<1>6. /\ Head(c.parts) = c.parts[1] /\ t \in Seq(Nodes) /\ Len(t) = b - 1
      /\ \A i \in 1..Len(t) : t[i] = c.parts[i + 1]
  BY <1>1, <1>3, HeadTailProperties
<1>7. v = [p |-> c.p, parts |-> t]
  <2> HIDE DEF t, c
  <2>1. v = [c EXCEPT !.parts = t]
    BY DEF t
  <2> QED BY <1>3, <2>1
<1> HIDE DEF v, c, b, n, t
<1>8. v.p = c.p /\ v.parts = t /\ v = [p |-> v.p, parts |-> v.parts]
  BY <1>7
<1>9. m \in 1..n /\ b - 1 = n - m /\ 1 \in 1..b
  BY <1>4, <1>5
<1>10. P.xs[m] = Head(c.parts)
  BY <1>3, <1>6, <1>9
<1>11. \A i \in 1..Len(t) : t[i] = P.xs[m + i]
  <2> SUFFICES ASSUME NEW i \in 1..Len(t) PROVE t[i] = P.xs[m + i]
    OBVIOUS
  <2>1. i + 1 \in 1..b /\ Seen(c) + (i + 1) = m + i
    BY <1>4, <1>6
  <2>2. t[i] = P.xs[Seen(c) + (i + 1)]
    BY <1>3, <1>6, <2>1
  <2> QED BY <2>1, <2>2
<1>12. walk' = IF node[P.xs[m]].retained THEN <<v>> \o Tail(walk)
               ELSE <<CallOf(P.xs[m])>> \o (<<v>> \o Tail(walk))
  BY <1>1, <1>10 DEF c
<1>13. m = Seen(Caller) + 1 /\ v.p = Caller.p /\ P.xs[m] = Head(Caller.parts) /\ m \in 1..Len(P.xs)
       /\ Len(v.parts) = Len(P.xs) - m
  BY <1>6, <1>8, <1>9, <1>10 DEF c, n
<1> HIDE DEF m
<1> QED BY <1>1, <1>6, <1>8, <1>11, <1>12, <1>13

\* What the walk keeps when nothing but the walk changes.
LEMMA WalkOnly ==
    ASSUME Sound, Path, walk # <<>>, node' = node,
           UNCHANGED <<compiler, predictive, pc, known, vals, stmts, left, result, rules, lost>>
    PROVE  /\ Sound' /\ Root' = Root
           /\ Kept' = Kept /\ Unretained' = Unretained
<1>1. Held' = Held /\ Root' = Root
  BY DEF Held, Root
<1>2. Kept' = Kept /\ Unretained' = Unretained /\ Live' = Live
  BY DEF Kept, Live, Unretained
<1>3. known' \in 0..Len(Args) + 1 /\ left' \in 0..MaxNode
  BY DEF Sound, Graph, NodesType
<1>4. Graph'
  BY <1>1, <1>3, GraphStays DEF Sound
<1>5. RootsType'
  BY <1>1, <1>2 DEF Sound, Roots, RootsType
<1>6. RootsOnce'
  BY DEF Sound, Roots, RootsOnce
<1>7. Phases'
  <2>1. pc \in {"result", "define"}
    BY CallerIs
  <2> QED BY <2>1 DEF Sound, Roots, Phases
<1> QED BY <1>1, <1>2, <1>4, <1>5, <1>6, <1>7 DEF Sound, Roots

\* Path, for any calls and nodes.
IsCall(c, nodes, some) ==
    /\ c = [p |-> c.p, parts |-> c.parts] /\ c.p \in some
    /\ c.parts \in Seq(Nodes) /\ Len(c.parts) <= Len(nodes[c.p].xs)
    /\ \A i \in 1..Len(c.parts) :
          c.parts[i] = nodes[c.p].xs[Len(nodes[c.p].xs) - Len(c.parts) + i]

Calls(d, c, nodes) ==
    LET m == Len(nodes[d.p].xs) - Len(d.parts) IN m > 0 /\ nodes[d.p].xs[m] = c.p

PathOf(calls, nodes, some, root) ==
    /\ \E S : calls \in Seq(S)
    /\ \A k \in 1..Len(calls) : IsCall(calls[k], nodes, some)
    /\ calls # <<>> => calls[Len(calls)].p = root
    /\ \A k \in 1..Len(calls) - 1 : Calls(calls[k + 1], calls[k], nodes)
    /\ \A k, j \in 1..Len(calls) : calls[k].p = calls[j].p => k = j

LEMMA PathIs == Path <=> PathOf(walk, node, Kept \cap Unretained, Root)
<1>1. \A k \in 1..Len(walk) : IsCall(walk[k], node, Kept \cap Unretained) <=>
          /\ walk[k] = [p |-> walk[k].p, parts |-> walk[k].parts]
          /\ walk[k].p \in Kept \cap Unretained
          /\ walk[k].parts \in Seq(Nodes) /\ Len(walk[k].parts) <= Len(node[walk[k].p].xs)
          /\ \A i \in 1..Len(walk[k].parts) :
                walk[k].parts[i] = node[walk[k].p].xs[Seen(walk[k]) + i]
  BY DEF IsCall, Seen
<1>2. \A k \in 1..Len(walk) - 1 : Calls(walk[k + 1], walk[k], node) <=>
          Seen(walk[k + 1]) > 0 /\ node[walk[k + 1].p].xs[Seen(walk[k + 1])] = walk[k].p
  BY DEF Calls, Seen
<1> QED BY <1>1, <1>2 DEF Path, PathOf

LEMMA PathIsNext == Path' <=> PathOf(walk', node', (Kept \cap Unretained)', Root')
<1>1. \A k \in 1..Len(walk') : IsCall(walk'[k], node', (Kept \cap Unretained)') <=>
          /\ walk'[k] = [p |-> walk'[k].p, parts |-> walk'[k].parts]
          /\ walk'[k].p \in Kept' \cap Unretained'
          /\ walk'[k].parts \in Seq(Nodes) /\ Len(walk'[k].parts) <= Len(node'[walk'[k].p].xs)
          /\ \A i \in 1..Len(walk'[k].parts) :
                walk'[k].parts[i] =
                    node'[walk'[k].p].xs[Len(node'[walk'[k].p].xs) - Len(walk'[k].parts) + i]
  BY DEF IsCall
<1>2. \A k \in 1..Len(walk') - 1 : Calls(walk'[k + 1], walk'[k], node') <=>
          LET m == Len(node'[walk'[k + 1].p].xs) - Len(walk'[k + 1].parts)
          IN  m > 0 /\ node'[walk'[k + 1].p].xs[m] = walk'[k].p
  BY DEF Calls
<1> QED BY <1>1, <1>2 DEF Path, PathOf, Seen

LEMMA Prepended ==
    ASSUME NEW S, NEW s \in Seq(S), NEW v, NEW w
    PROVE  /\ <<w>> \o s \in Seq(S \cup {v, w}) /\ Len(<<w>> \o s) = Len(s) + 1
           /\ (<<w>> \o s)[1] = w
           /\ \A k \in 1..Len(s) : (<<w>> \o s)[k + 1] = s[k]
<1> DEFINE n == Len(s)
<1>1. /\ <<w>> \in Seq(S \cup {v, w}) /\ s \in Seq(S \cup {v, w}) /\ Len(<<w>>) = 1 /\ <<w>>[1] = w
      /\ n \in Nat
  OBVIOUS
<1>2. /\ <<w>> \o s \in Seq(S \cup {v, w}) /\ Len(<<w>> \o s) = 1 + n
      /\ \A i \in 1..1 + n : (<<w>> \o s)[i] = IF i <= 1 THEN <<w>>[i] ELSE s[i - 1]
  BY <1>1, ConcatProperties
<1> HIDE DEF n
<1>3. 1 \in 1..1 + n /\ 1 <= 1 /\ 1 + n = n + 1
      /\ \A k \in 1..n : k + 1 \in 1..1 + n /\ ~(k + 1 <= 1) /\ k + 1 - 1 = k
  BY <1>1
<1>4. \A k \in 1..n : (<<w>> \o s)[k + 1] = s[k]
  BY <1>2, <1>3
<1>5. (<<w>> \o s)[1] = w
  BY <1>1, <1>2, <1>3
<1> QED BY <1>2, <1>3, <1>4, <1>5 DEF n

\* One more call.
LEMMA PathGrows ==
    ASSUME NEW calls, NEW more, NEW nodes, NEW some, NEW root, PathOf(calls, nodes, some, root),
           Len(calls) \in Nat \ {0}, \E S : more \in Seq(S), Len(more) = Len(calls) + 1,
           \A k \in 1..Len(calls) : more[k + 1] = calls[k],
           IsCall(more[1], nodes, some), Calls(calls[1], more[1], nodes),
           \A k \in 1..Len(calls) : calls[k].p # more[1].p
    PROVE  PathOf(more, nodes, some, root)
<1> DEFINE n == Len(calls)
<1>1. \A k \in 1..n + 1 : k = 1 \/ (k - 1 \in 1..n /\ k - 1 + 1 = k)
  OBVIOUS
<1>2. \A k \in 1..n : k = 1 \/ (k - 1 \in 1..n - 1 /\ k - 1 \in 1..n /\ k - 1 + 1 = k)
  OBVIOUS
<1>3. n \in 1..n /\ n \in Nat /\ n + 1 # 0 /\ Len(<<>>) = 0 /\ 1 \in 1..n /\ n + 1 - 1 = n
  OBVIOUS
<1> HIDE DEF n
<1>4. \A k \in 1..n + 1 : k = 1 \/ (k - 1 \in 1..n /\ more[k] = calls[k - 1])
  BY <1>1 DEF n
<1>5. \A k \in 1..n + 1 : IsCall(more[k], nodes, some)
  BY <1>4 DEF PathOf, n
<1>6. more[n + 1].p = root
  <2>1. calls # <<>>
    BY <1>3 DEF n
  <2> QED BY <1>3, <2>1 DEF PathOf, n
<1>7. \A k \in 1..n : Calls(more[k + 1], more[k], nodes)
  <2> SUFFICES ASSUME NEW k \in 1..n PROVE Calls(more[k + 1], more[k], nodes)
    OBVIOUS
  <2>1. more[k + 1] = calls[k]
    BY DEF n
  <2>2. CASE k = 1
    BY <2>1, <2>2
  <2>3. CASE k # 1
    <3>1. k - 1 \in 1..n - 1 /\ k - 1 \in 1..n /\ k - 1 + 1 = k
      BY <1>2, <2>3
    <3>2. more[k] = calls[k - 1]
      BY <3>1 DEF n
    <3>3. Calls(calls[k - 1 + 1], calls[k - 1], nodes)
      BY <3>1 DEF PathOf, n
    <3> QED BY <2>1, <3>1, <3>2, <3>3
  <2> QED BY <2>2, <2>3
<1>8. ASSUME NEW k \in 1..n + 1, NEW j \in 1..n + 1, more[k].p = more[j].p PROVE k = j
  <2>1. CASE k = 1 \/ j = 1
    BY <1>4, <1>8, <2>1 DEF n
  <2>2. CASE k # 1 /\ j # 1
    <3>1. k - 1 \in 1..n /\ j - 1 \in 1..n /\ calls[k - 1].p = calls[j - 1].p
      BY <1>4, <1>8, <2>2
    <3>2. k - 1 = j - 1
      BY <3>1 DEF PathOf, n
    <3> QED BY <1>3, <3>2
  <2> QED BY <2>1, <2>2
<1>9. Len(more) = n + 1 /\ Len(more) - 1 = n
  BY <1>3 DEF n
<1> QED BY <1>5, <1>6, <1>7, <1>8, <1>9 DEF PathOf

LEMMA VisitPartKeeps ==
    ASSUME Sound, Path, VisitPart,
           UNCHANGED <<compiler, predictive, pc, known, vals, stmts, left, result, rules, lost>>
    PROVE  Sound' /\ Path'
<1> DEFINE n == Len(walk)
<1>1. PICK v, m :
              /\ m = Seen(Caller) + 1 /\ m \in 1..Len(P.xs)
              /\ v = [p |-> v.p, parts |-> v.parts] /\ v.p = Caller.p /\ v.parts \in Seq(Nodes)
              /\ Len(v.parts) = Len(P.xs) - m
              /\ \A i \in 1..Len(v.parts) : v.parts[i] = P.xs[m + i]
              /\ walk # <<>> /\ node' = node
              /\ walk' = IF node[P.xs[m]].retained THEN <<v>> \o Tail(walk)
                         ELSE <<CallOf(P.xs[m])>> \o (<<v>> \o Tail(walk))
  BY VisitIs
<1>2. Sound' /\ Root' = Root /\ Kept' = Kept /\ Unretained' = Unretained
  BY <1>1, WalkOnly
<1>3. /\ n \in Nat \ {0} /\ Caller = walk[1] /\ 1 \in 1..n /\ n \in 1..n
      /\ Caller.p \in Kept \cap Unretained /\ P = node[Caller.p] /\ Len(P.xs) \in Nat
      /\ \A i \in 1..Len(P.xs) : P.xs[i] \in Nodes
  BY <1>1, CallerIs DEF P
<1>4. PICK S : walk \in Seq(S)
  BY DEF Path
<1> DEFINE rest == <<v>> \o Tail(walk)
<1>5. /\ rest \in Seq(S \cup {v}) /\ Len(rest) = n /\ rest[1] = v
      /\ \A i \in 1..n : i # 1 => rest[i] = walk[i]
  BY <1>1, <1>4, HeadReplaced
<1> HIDE DEF rest, n
<1>6. Len(P.xs) - Len(v.parts) = m /\ Len(v.parts) <= Len(P.xs) /\ m > 0
  <2>1. m \in 1..Len(P.xs) /\ Len(v.parts) = Len(P.xs) - m
    BY <1>1, Zenon
  <2>2. Len(P.xs) \in Nat
    BY <1>3, Zenon
  <2> QED BY <2>1, <2>2
<1> DEFINE some == Kept \cap Unretained
<1>7. PathOf(walk, node, some, Root)
  BY PathIs, SMTT(20), ZenonT(40)
<1> HIDE DEF some
<1>8. IsCall(v, node, some)
  BY <1>1, <1>3, <1>6, SMTT(20), ZenonT(40) DEF IsCall, some
<1>9. \A k \in 1..n : IsCall(rest[k], node, some) /\ rest[k].p = walk[k].p
  BY <1>1, <1>3, <1>5, <1>7, <1>8 DEF PathOf, n
<1>10. \A k \in 1..n - 1 : k \in 1..n /\ k + 1 \in 1..n /\ k + 1 # 1
  BY <1>3
<1>11. \A k \in 1..n - 1 : Calls(rest[k + 1], rest[k], node)
  <2> SUFFICES ASSUME NEW k \in 1..n - 1 PROVE Calls(rest[k + 1], rest[k], node)
    OBVIOUS
  <2>1. Calls(walk[k + 1], walk[k], node)
    BY <1>7 DEF PathOf, n
  <2>2. rest[k + 1] = walk[k + 1] /\ rest[k].p = walk[k].p
    BY <1>5, <1>9, <1>10
  <2> QED BY <2>1, <2>2 DEF Calls
<1>12. \A k, j \in 1..n : rest[k].p = rest[j].p => k = j
  BY <1>7, <1>9, SMTT(20), ZenonT(40) DEF PathOf, n
<1>13. rest[n].p = Root
  BY <1>1, <1>3, <1>7, <1>9 DEF PathOf, n
<1>14. PathOf(rest, node, some, Root)
  BY <1>5, <1>9, <1>11, <1>12, <1>13 DEF PathOf
<1>15. PathOf(walk', node', some, Root) => Path'
  BY <1>2, PathIsNext DEF some
<1>16. CASE node[P.xs[m]].retained
  <2>1. walk' = rest
    BY <1>1, <1>16 DEF rest
  <2> QED BY <1>1, <1>2, <1>14, <1>15, <2>1
<1>17. CASE ~node[P.xs[m]].retained
  <2> DEFINE part == P.xs[m]
             w == CallOf(part)
  <2>1. walk' = <<w>> \o rest
    BY <1>1, <1>17, SMTT(20), ZenonT(40) DEF rest
  <2>2. w = [p |-> w.p, parts |-> w.parts] /\ w.p = part /\ w.parts = node[part].xs
    BY DEF CallOf
  <2>3. part \in Nodes /\ part \notin Given
    BY <1>1, <1>3, <1>17, RetainedAre DEF Sound, Graph
  <2>4. part \in some /\ \A k \in 1..n : walk[k].p # part
    BY <1>1, <2>3, NotCalled DEF n, some
  <2>5. node[part].xs \in Seq(Nodes) /\ Len(node[part].xs) \in Nat
    BY <2>3, PartsType, SMTT(20), ZenonT(40) DEF Sound, Graph, NodesType, IsNode
  <2>6. Calls(v, w, node)
    BY <1>1, <1>3, <1>6, <2>2 DEF Calls
  <2> HIDE DEF w, part
  <2>7. IsCall(w, node, some)
    <3>1. \A i \in 1..Len(node[part].xs) : Len(node[part].xs) - Len(node[part].xs) + i = i
      BY <2>5
    <3>2. Len(node[part].xs) <= Len(node[part].xs)
      BY <2>5
    <3> QED BY <2>2, <2>4, <2>5, <3>1, <3>2 DEF IsCall
  <2>8. /\ walk' \in Seq(S \cup {v, w}) /\ Len(walk') = n + 1 /\ walk'[1] = w
        /\ \A k \in 1..n : walk'[k + 1] = rest[k]
    BY <1>3, <1>5, <2>1, Prepended
  <2>9. PathOf(walk', node, some, Root)
    BY <1>3, <1>5, <1>14, <2>2, <2>4, <2>6, <2>7, <2>8, <1>9, PathGrows, SMTT(20), ZenonT(40)
  <2> QED BY <1>1, <1>2, <1>15, <2>9
<1> QED BY <1>16, <1>17

\* The last call but one comes first.
LEMMA ReturnKeeps ==
    ASSUME Sound, Path, Return,
           UNCHANGED <<compiler, predictive, pc, known, vals, stmts, left, result, rules, lost>>
    PROVE  Sound' /\ Path'
<1> DEFINE n == Len(walk)
           some == Kept \cap Unretained
<1>1. walk # <<>> /\ walk' = Tail(walk) /\ node' = node
  BY DEF Return, Rewriting
<1>2. Sound' /\ Root' = Root /\ Kept' = Kept /\ Unretained' = Unretained
  BY <1>1, WalkOnly
<1>3. PathOf(walk, node, some, Root)
  BY PathIs
<1>4. PICK S : walk \in Seq(S)
  BY DEF Path
<1>5. /\ walk' \in Seq(S) /\ Len(walk') = n - 1 /\ n \in Nat \ {0}
      /\ \A k \in 1..Len(walk') : walk'[k] = walk[k + 1]
  BY <1>1, <1>4, HeadTailProperties, EmptySeq
<1> HIDE DEF n, some
<1>6. /\ \A k \in 1..n - 1 : k + 1 \in 1..n
      /\ \A k \in 1..n - 1 - 1 : k \in 1..n - 1 /\ k + 1 \in 1..n - 1
  BY <1>5
<1>7. \A k \in 1..n - 1 : IsCall(walk'[k], node, some)
  BY <1>3, <1>5, <1>6 DEF PathOf, n
<1>8. \A k \in 1..n - 1 - 1 : Calls(walk'[k + 1], walk'[k], node)
  <2> SUFFICES ASSUME NEW k \in 1..n - 1 - 1 PROVE Calls(walk'[k + 1], walk'[k], node)
    OBVIOUS
  <2>1. walk'[k] = walk[k + 1] /\ walk'[k + 1] = walk[k + 1 + 1]
    BY <1>5, <1>6
  <2>2. Calls(walk[k + 1 + 1], walk[k + 1], node)
    BY <1>3, <1>6 DEF PathOf, n
  <2> QED BY <2>1, <2>2
<1>9. \A k, j \in 1..n - 1 : walk'[k].p = walk'[j].p => k = j
  <2> SUFFICES ASSUME NEW k \in 1..n - 1, NEW j \in 1..n - 1, walk'[k].p = walk'[j].p PROVE k = j
    OBVIOUS
  <2>1. k + 1 = j + 1
    BY <1>3, <1>5, <1>6 DEF PathOf, n
  <2> QED BY <1>5, <2>1
<1>10. walk' # <<>> => walk'[n - 1].p = Root
  <2> SUFFICES ASSUME walk' # <<>> PROVE walk'[n - 1].p = Root
    OBVIOUS
  <2>1. Len(walk') # 0
    BY <1>5, EmptySeq
  <2>2. n - 1 \in 1..n - 1 /\ n - 1 + 1 = n
    BY <1>5, <2>1
  <2>3. walk'[n - 1] = walk[n]
    BY <1>5, <2>2
  <2> QED BY <1>1, <1>3, <2>3 DEF PathOf, n
<1>11. PathOf(walk', node, some, Root)
  <2>1. Len(walk') - 1 = n - 1 - 1
    BY <1>5
  <2> QED BY <1>5, <1>7, <1>8, <1>9, <1>10, <2>1 DEF PathOf
<1> QED BY <1>1, <1>2, <1>11, PathIsNext DEF some

LEMMA OptimiserKeeps == ASSUME Sound, Path, OptimiserRuns PROVE Sound' /\ Path'
<1>1. UNCHANGED <<compiler, predictive, pc, known, vals, stmts, left, result, rules, lost>>
  BY DEF OptimiserRuns
<1>2. CASE VisitPart
  BY <1>1, <1>2, VisitPartKeeps
<1>3. CASE MergeLast
  BY <1>1, <1>3, MergeLastRewrites, RewrittenKeeps
<1>4. CASE MergeFirst
  BY <1>1, <1>4, MergeFirstRewrites, RewrittenKeeps
<1>5. CASE RemoveNeutral
  BY <1>1, <1>5, RemoveNeutralRewrites, RewrittenKeeps
<1>6. CASE Return
  BY <1>1, <1>6, ReturnKeeps
<1> QED BY <1>2, <1>3, <1>4, <1>5, <1>6 DEF OptimiserRuns, OptimiseStep

\* A walk that is over, and one that begins.
LEMMA PathOver == ASSUME walk' = <<>> PROVE Path'
<1>1. Len(walk') = 0 /\ walk' \in Seq({})
  OBVIOUS
<1>2. /\ \A k : k \notin 1..Len(walk') /\ k \notin 1..Len(walk') - 1
  BY <1>1
<1>3. PathOf(walk', node', (Kept \cap Unretained)', Root')
  BY <1>1, <1>2 DEF PathOf
<1> QED BY <1>3, PathIsNext

LEMMA PathStarts ==
    ASSUME Sound', NEW n, walk' = <<[p |-> n, parts |-> node'[n].xs]>>, n = Root',
           n \in Kept' \cap Unretained'
    PROVE  Path'
<1> DEFINE w == [p |-> n, parts |-> node'[n].xs]
<1>1. w = [p |-> w.p, parts |-> w.parts] /\ w.p = n /\ w.parts = node'[n].xs
  OBVIOUS
<1>2. walk' = <<w>>
  OBVIOUS
<1> HIDE DEF w
<1>3. walk' \in Seq({w}) /\ Len(walk') = 1 /\ walk'[1] = w
  BY <1>2
<1>4. /\ 1..Len(walk') = {1} /\ \A k : k \notin 1..Len(walk') - 1
  BY <1>3
<1>5. n \in Nodes
  BY DEF Kept, Live
<1>6. node'[n].xs \in Seq(Nodes)
  BY <1>5 DEF Sound, Graph, NodesType, IsNode
<1>7. Len(node'[n].xs) \in Nat
  BY <1>6
<1>8. IsCall(w, node', (Kept \cap Unretained)')
  <2>1. Len(node'[n].xs) <= Len(node'[n].xs)
        /\ \A i \in 1..Len(node'[n].xs) : Len(node'[n].xs) - Len(node'[n].xs) + i = i
    BY <1>7
  <2> QED BY <1>1, <1>6, <2>1 DEF IsCall
<1>9. PathOf(walk', node', (Kept \cap Unretained)', Root')
  BY <1>1, <1>3, <1>4, <1>8 DEF PathOf
<1> QED BY <1>9, PathIsNext

\* What the optimiser is given, and what is returned, is held by the compiler.
LEMMA RootHeld ==
    Sound /\ (pc = "define" \/ (result # <<>> /\ pc \in {"result", "done"})) =>
        Root \in Held /\ Root \in Kept \cap Unretained
<1> SUFFICES ASSUME Sound, pc = "define" \/ (result # <<>> /\ pc \in {"result", "done"})
             PROVE  Root \in Held /\ Root \in Kept \cap Unretained
  OBVIOUS
<1>1. Held \subseteq Kept /\ Held \ {left} \subseteq Unretained
  BY DEF Sound, Roots, RootsType
<1>2. CASE pc = "define"
  <2>1. stmts # <<>> /\ \E T : stmts \in Seq(T)
    BY <1>2 DEF Sound, Roots, Phases, RootsType
  <2>2. Len(stmts) \in Nat \ {0}
    BY <2>1, EmptySeq
  <2>3. 1 \in 1..Len(stmts)
    BY <2>2
  <2>4. stmts[1].p \in Held /\ stmts[1].p # left
    BY <2>3 DEF Held, Sound, Roots, RootsOnce
  <2> QED BY <1>1, <1>2, <2>4 DEF Root
<1>3. CASE pc # "define"
  <2>1. PICK T : result \in Seq(T)
    BY DEF Sound, Roots, RootsType
  <2>2. Len(result) \in Nat \ {0}
    BY <1>3, <2>1, EmptySeq
  <2>3. 1 \in 1..Len(result)
    BY <2>2
  <2>4. result[1].p \in Held
    BY <2>3 DEF Held
  <2>5. left = 0 /\ 0 \notin Kept
    BY <1>3, HeldIs DEF Sound, Roots, Phases
  <2> QED BY <1>1, <1>3, <2>4, <2>5 DEF Root
<1> QED BY <1>2, <1>3

LEMMA RootHeldNext ==
    (Sound /\ (pc = "define" \/ (result # <<>> /\ pc \in {"result", "done"})) =>
        Root \in Held /\ Root \in Kept \cap Unretained)'
BY RootHeld, PTL

LEMMA TextEndsStarts ==
    ASSUME Sound, TextEnds, Sound'
    PROVE  /\ walk' = <<[p |-> Root', parts |-> node'[Root'].xs]>> /\ pc' = "result"
           /\ Root' \in Kept' \cap Unretained'
<1> DEFINE r == <<[p |-> vals[1].p, as |-> vals[1].as]>>
<1>1. walk' = <<CallOf(vals[1].p)>> /\ pc' = "result" /\ result' = r /\ node' = node
  BY DEF TextEnds, Optimise
<1>2. Len(r) = 1 /\ r[1].p = vals[1].p
  BY ResultIs
<1> HIDE DEF r
<1>3. Root' = vals[1].p
  BY <1>1, <1>2 DEF Root
<1>4. result' # <<>>
  BY <1>1, <1>2
<1>5. Root' \in Kept' \cap Unretained'
  BY <1>1, <1>4, RootHeldNext
<1> QED BY <1>1, <1>3, <1>5 DEF CallOf

LEMMA ApplyRuleStarts ==
    ASSUME Sound, ApplyRule, Sound'
    PROVE  /\ walk' = <<[p |-> Root', parts |-> node'[Root'].xs]>> /\ pc' = "define"
           /\ Root' \in Kept' \cap Unretained'
<1>1. pc' = "define" /\ stmts # <<>>
  BY DEF ApplyRule
<1>2. PICK top, v : /\ walk' = <<[p |-> top, parts |-> node'[top].xs]>>
                    /\ stmts' = <<v>> \o Tail(stmts) /\ v.p = top
  <2>1. PICK k, new, top, F : Wrapped(stmts[1], k, new, top, F)
    BY ApplyRuleMakes
  <2>2. PICK as : stmts' = <<[ident |-> stmts[1].ident, named |-> stmts[1].named, p |-> top, as |-> as]>>
                           \o Tail(stmts)
    BY <2>1 DEF Wrapped
  <2>3. walk' = <<[p |-> top, parts |-> node'[top].xs]>>
    BY <2>1 DEF Wrapped
  <2> QED BY <2>2, <2>3
<1>3. PICK S : stmts \in Seq(S)
  BY DEF Sound, Roots, RootsType
<1>4. stmts'[1] = v
  BY <1>1, <1>2, <1>3, HeadReplaced
<1>5. Root' = top
  BY <1>1, <1>2, <1>4 DEF Root
<1>6. Root' \in Kept' \cap Unretained'
  BY <1>1, RootHeldNext
<1> QED BY <1>1, <1>2, <1>5, <1>6

\* What a step of reading the text does to nodes and walk.
LEMMA CompileKeeps ==
    ASSUME Sound, Compile
    PROVE  Text /\ (walk' = walk \/ TextEnds) /\ Sound'
<1>1. ASSUME NEW c \in Chars, Literal(c) PROVE Text /\ walk' = walk /\ Sound'
  BY <1>1, LiteralKeeps DEF Literal, Same
<1>2. ASSUME NEW x \in Idents, ByName(x) PROVE Text /\ walk' = walk /\ Sound'
  BY <1>2, ByNameKeeps DEF ByName, Reference, Same
<1>3. ASSUME NEW i \in Numbers, ByNumber(i) PROVE Text /\ walk' = walk /\ Sound'
  BY <1>3, ByNumberKeeps DEF ByNumber, Reference, Same
<1>4. CASE Plain
  <2>1. Text /\ walk' = walk
    BY <1>4 DEF Plain, Same
  <2> QED BY <1>4, <2>1, PlainKeeps
<1>5. ASSUME NEW suffix \in Quantified, Repeat(suffix) PROVE Text /\ walk' = walk /\ Sound'
  BY <1>5, RepeatKeeps DEF Repeat, Repeated, Same
<1>6. ASSUME NEW n \in Counts, Braces(n) PROVE Text /\ walk' = walk /\ Sound'
  BY <1>6, BracesKeep DEF Braces, Repeated, Same
<1>7. ASSUME NEW k \in 0..Len(vals), Sequence(k) PROVE Text /\ walk' = walk /\ Sound'
  <2>1. Text /\ walk' = walk
    BY <1>7 DEF Sequence, Same
  <2> QED BY <1>7, <2>1, SequenceKeeps
<1>8. CASE LastTerm
  <2>1. Text /\ walk' = walk
    BY <1>8 DEF LastTerm, Same
  <2> QED BY <1>8, <2>1, LastTermKeeps
<1>9. CASE Alternative
  <2>1. Text /\ walk' = walk
    BY <1>9 DEF Alternative, Same
  <2> QED BY <1>9, <2>1, AlternativeKeeps
<1>10. ASSUME NEW x \in Idents, NEW named \in BOOLEAN, Rule(x, named)
       PROVE  Text /\ walk' = walk /\ Sound'
  BY <1>10, RuleKeeps DEF Rule, Same
<1>11. CASE Invalid
  <2>1. Text /\ walk' = walk
    BY <1>11 DEF Invalid
  <2> QED BY <1>11, <2>1, InvalidKeeps
<1>12. CASE TextEnds
  <2>1. Text
    BY <1>12 DEF TextEnds
  <2> QED BY <1>12, <2>1, TextEndsKeeps
<1>13. CASE RulesRead
  <2>1. Text /\ walk' = walk
    BY <1>13 DEF RulesRead
  <2> QED BY <1>13, <2>1, RulesReadKeeps
<1>14. ASSUME NEW c \in Chars, NEW d \in Chars, EndOfInput(c, d)
       PROVE  Text /\ walk' = walk /\ Sound'
  <2>1. Text /\ walk' = walk
    BY <1>14 DEF EndOfInput, Same
  <2> QED BY <1>14, <2>1, EndOfInputKeeps
<1> QED BY <1>1, <1>2, <1>3, <1>4, <1>5, <1>6, <1>7, <1>8, <1>9, <1>10, <1>11, <1>12, <1>13,
           <1>14
        DEF Compile

LEMMA NextKeeps == ASSUME Sound, Path, Next PROVE Sound' /\ Path'
<1>1. CASE Compile
  <2>1. Text /\ (walk' = walk \/ TextEnds) /\ (TextEnds \/ Sound')
    BY <1>1, CompileKeeps
  <2>2. CASE TextEnds
    BY <2>2, TextEndsKeeps, TextEndsStarts, PathStarts
  <2>3. CASE ~TextEnds
    <3>1. walk' = <<>>
      BY <2>1, <2>3 DEF Text
    <3> QED BY <2>1, <2>3, <3>1, PathOver
  <2> QED BY <2>2, <2>3
<1>2. CASE ReturnResult
  <2>1. walk' = <<>>
    BY <1>2 DEF ReturnResult
  <2> QED BY <1>2, <2>1, ReturnResultKeeps, PathOver
<1>3. CASE ApplyRule
  BY <1>3, ApplyRuleKeeps, ApplyRuleStarts, PathStarts
<1>4. CASE DefineRule
  <2>1. walk' = <<>>
    BY <1>4 DEF DefineRule
  <2> QED BY <1>4, <2>1, DefineRuleKeeps, PathOver
<1>5. CASE AllDefined
  <2>1. walk' = <<>>
    BY <1>5 DEF AllDefined, Sound, Roots, Phases
  <2> QED BY <1>5, <2>1, AllDefinedKeeps, PathOver
<1>6. CASE OptimiserRuns
  BY <1>6, OptimiserKeeps
<1> QED BY <1>1, <1>2, <1>3, <1>4, <1>5, <1>6 DEF Next, Finish

LEMMA PointerIs ==
    ASSUME NEW n, NEW r
    PROVE  r \in Pointers(n) <=>
              \/ \E i \in 1..Len(vals) : vals[i].p = n /\ r = <<"val", 0, i>>
              \/ \E i \in 1..Len(stmts) : stmts[i].p = n /\ r = <<"stmt", 0, i>>
              \/ \E i \in 1..Len(result) : result[i].p = n /\ r = <<"result", 0, i>>
              \/ left = n /\ r = <<"left", 0, n>>
              \/ n \in lost /\ r = <<"lost", 0, n>>
              \/ \E m \in Kept : \E i \in 1..Len(node[m].xs) : node[m].xs[i] = n /\ r = <<"part", m, i>>
<1>1. r \in {<<"val", 0, i>> : i \in {j \in 1..Len(vals) : vals[j].p = n}} <=>
         \E i \in 1..Len(vals) : vals[i].p = n /\ r = <<"val", 0, i>>
  OBVIOUS
<1>2. r \in {<<"stmt", 0, i>> : i \in {j \in 1..Len(stmts) : stmts[j].p = n}} <=>
         \E i \in 1..Len(stmts) : stmts[i].p = n /\ r = <<"stmt", 0, i>>
  OBVIOUS
<1>3. r \in {<<"result", 0, i>> : i \in {j \in 1..Len(result) : result[j].p = n}} <=>
         \E i \in 1..Len(result) : result[i].p = n /\ r = <<"result", 0, i>>
  OBVIOUS
<1>4. r \in {<<"left", 0, i>> : i \in {n} \cap {left}} <=> left = n /\ r = <<"left", 0, n>>
  OBVIOUS
<1>5. r \in {<<"lost", 0, i>> : i \in {n} \cap lost} <=> n \in lost /\ r = <<"lost", 0, n>>
  OBVIOUS
<1> DEFINE Of(m) == {<<"part", m, i>> : i \in {j \in 1..Len(node[m].xs) : node[m].xs[j] = n}}
<1>6. \A m : r \in Of(m) <=> \E i \in 1..Len(node[m].xs) : node[m].xs[i] = n /\ r = <<"part", m, i>>
  OBVIOUS
<1>7. r \in UNION {Of(m) : m \in Live \ lost} <=> \E m \in Live \ lost : r \in Of(m)
  <2> HIDE DEF Of
  <2> QED OBVIOUS
<1>8. r \in UNION {Of(m) : m \in Live \ lost} <=>
         \E m \in Kept : \E i \in 1..Len(node[m].xs) : node[m].xs[i] = n /\ r = <<"part", m, i>>
  <2> HIDE DEF Of
  <2> QED BY <1>6, <1>7 DEF Kept
<1> QED BY <1>1, <1>2, <1>3, <1>4, <1>5, <1>8 DEF Pointers

LEMMA OnePointer ==
    ASSUME NEW S, NEW q \in S, \A r \in S : r = q
    PROVE  Cardinality(S) = 1
<1>1. S = {q}
  OBVIOUS
<1> QED BY <1>1, FS_Singleton

LEMMA OwnedOnce ==
    ASSUME Sound, NEW n \in Nodes, ~node[n].retained
    PROVE  Cardinality(Pointers(n)) = IF node[n].type = "free" THEN 0 ELSE 1
<1>1. /\ Held \subseteq Kept /\ Kept \subseteq Live /\ lost \subseteq Live /\ Kept \cap lost = {}
      /\ n \notin Given /\ n # 0
  BY RetainedAre, NodeNumbers DEF Sound, Graph, NodesType, Roots, RootsType, Kept, Unretained
<1>2. /\ \A i \in 1..Len(vals) : vals[i].p \in Held
      /\ \A i \in 1..Len(stmts) : stmts[i].p \in Held
      /\ \A i \in 1..Len(result) : result[i].p \in Held
      /\ left = n => left \in Held
  BY <1>1 DEF Held
<1>3. \A m \in Kept : \A i \in 1..Len(node[m].xs) : node[m].xs[i] = n => n \in Kept /\ n \notin Held
  BY DEF Sound, Graph, Targets
<1>4. /\ \A i \in 1..Len(vals) : pc = "text"
      /\ \A i \in 1..Len(stmts) : pc \notin {"result", "done"}
      /\ \A i \in 1..Len(result) : pc \in {"result", "done"} /\ i = 1
      /\ left = n => pc = "define"
  <2>1. Len(<<>>) = 0 /\ \A i : i \notin 1..0
    OBVIOUS
  <2>2. /\ pc # "text" => \A i : i \notin 1..Len(vals)
        /\ pc \in {"result", "done"} => \A i : i \notin 1..Len(stmts)
        /\ pc \notin {"result", "done"} => \A i : i \notin 1..Len(result)
        /\ pc = "define" <=> left # 0
    BY <2>1 DEF Sound, Roots, Phases
  <2>3. \A i \in 1..Len(result) : pc \in {"result", "done"} => i = 1
    <3>1. \E T : result \in Seq(T)
      BY DEF Sound, Roots, RootsType
    <3>2. Len(result) \in Nat
      BY <3>1
    <3>3. pc \in {"result", "done"} => Len(result) <= 1
      BY DEF Sound, Roots, Phases
    <3> QED BY <3>2, <3>3
  <2> QED BY <1>1, <2>2, <2>3
<1>5. CASE node[n].type = "free"
  <2>1. n \notin Live
    BY <1>5 DEF Live
  <2>2. \A r : r \notin Pointers(n)
    BY <1>1, <1>2, <1>3, <2>1, PointerIs
  <2>3. Pointers(n) = {}
    BY <2>2
  <2> QED BY <1>5, <2>3, FS_EmptySet
<1>6. CASE node[n].type # "free"
  <2> SUFFICES \E q \in Pointers(n) : \A r \in Pointers(n) : r = q
    BY <1>6, OnePointer
  <2>1. n \in Live
    BY <1>6 DEF Live
  <2>2. CASE n \in lost
    <3> DEFINE q == <<"lost", 0, n>>
    <3>1. q \in Pointers(n)
      BY <2>2, PointerIs
    <3>2. \A r \in Pointers(n) : r = q
      BY <1>1, <1>2, <1>3, <2>2, PointerIs
    <3> QED BY <3>1, <3>2
  <2>3. CASE n \in Kept \ Held
    <3>1. PICK m \in Kept : \E i \in 1..Len(node[m].xs) : node[m].xs[i] = n
      BY <2>3 DEF Sound, Graph, Owned
    <3>2. PICK i \in 1..Len(node[m].xs) : node[m].xs[i] = n
      BY <3>1
    <3> DEFINE q == <<"part", m, i>>
    <3>3. q \in Pointers(n)
      BY <3>2, PointerIs
    <3>4. \A k \in Kept : \A j \in 1..Len(node[k].xs) : node[k].xs[j] = n => k = m /\ j = i
      BY <3>2 DEF Sound, Graph, Once
    <3>5. \A r \in Pointers(n) : r = q
      BY <1>1, <1>2, <2>3, <3>4, PointerIs
    <3> QED BY <3>3, <3>5
  <2>4. CASE n \in Held
    <3>1. n \notin lost /\ \A m \in Kept : \A i \in 1..Len(node[m].xs) : node[m].xs[i] # n
      BY <1>1, <1>3, <2>4
    <3>2. CASE \E i \in 1..Len(vals) : vals[i].p = n
      <4>1. PICK i \in 1..Len(vals) : vals[i].p = n
        BY <3>2
      <4> DEFINE q == <<"val", 0, i>>
      <4>2. q \in Pointers(n)
        BY <4>1, PointerIs
      <4>3. /\ \A j \in 1..Len(vals) : vals[j].p = n => j = i
            /\ \A j \in 1..Len(stmts) : stmts[j].p # n
        BY <4>1 DEF Sound, Roots, RootsOnce
      <4>4. left # n /\ \A j \in 1..Len(result) : result[j].p # n
        BY <1>4, <4>1
      <4>5. \A r \in Pointers(n) : r = q
        BY <3>1, <4>3, <4>4, PointerIs
      <4> QED BY <4>2, <4>5
    <3>3. CASE \E i \in 1..Len(stmts) : stmts[i].p = n
      <4>1. PICK i \in 1..Len(stmts) : stmts[i].p = n
        BY <3>3
      <4> DEFINE q == <<"stmt", 0, i>>
      <4>2. q \in Pointers(n)
        BY <4>1, PointerIs
      <4>3. /\ \A j \in 1..Len(stmts) : stmts[j].p = n => j = i
            /\ \A j \in 1..Len(vals) : vals[j].p # n
            /\ left # n
        BY <4>1 DEF Sound, Roots, RootsOnce
      <4>4. \A j \in 1..Len(result) : result[j].p # n
        BY <1>4, <4>1
      <4>5. \A r \in Pointers(n) : r = q
        BY <3>1, <4>3, <4>4, PointerIs
      <4> QED BY <4>2, <4>5
    <3>4. CASE \E i \in 1..Len(result) : result[i].p = n
      <4>1. PICK i \in 1..Len(result) : result[i].p = n
        BY <3>4
      <4> DEFINE q == <<"result", 0, i>>
      <4>2. q \in Pointers(n)
        BY <4>1, PointerIs
      <4>3. /\ \A j \in 1..Len(result) : result[j].p = n => j = i
            /\ left # n /\ \A j \in 1..Len(vals) : vals[j].p # n
            /\ \A j \in 1..Len(stmts) : stmts[j].p # n
        BY <1>4, <4>1
      <4>4. \A r \in Pointers(n) : r = q
        BY <3>1, <4>3, PointerIs
      <4> QED BY <4>2, <4>4
    <3>5. CASE left = n
      <4> DEFINE q == <<"left", 0, n>>
      <4>1. q \in Pointers(n)
        BY <3>5, PointerIs
      <4>2. /\ \A j \in 1..Len(vals) : vals[j].p # n
            /\ \A j \in 1..Len(result) : result[j].p # n
        BY <1>4, <3>5
      <4>3. \A j \in 1..Len(stmts) : stmts[j].p # n
        BY <3>5 DEF Sound, Roots, RootsOnce
      <4>4. \A r \in Pointers(n) : r = q
        BY <3>1, <4>2, <4>3, PointerIs
      <4> QED BY <4>1, <4>4
    <3> QED BY <2>4, <3>2, <3>3, <3>4, <3>5 DEF Held
  <2> QED BY <2>1, <2>2, <2>3, <2>4 DEF Kept
<1> QED BY <1>5, <1>6

LEMMA OwnedIf == Sound /\ Path => NodesOwned
<1> SUFFICES ASSUME Sound, Path PROVE NodesOwned
  OBVIOUS
<1>1. ASSUME NEW i \in 1..Len(walk)
      PROVE  walk[i].p \in Live /\ \A j \in 1..i - 1 : walk[j].p # walk[i].p
  <2>1. PICK S : walk \in Seq(S)
    BY DEF Path
  <2>2. \A j \in 1..i - 1 : j \in 1..Len(walk) /\ j # i
    BY <2>1
  <2>3. walk[i].p \in Live
    BY DEF Path, Kept
  <2> QED BY <2>2, <2>3 DEF Path
<1> QED BY <1>1, OwnedOnce DEF NodesOwned

LEMMA InitSound == Init => Sound /\ Path
<1> SUFFICES ASSUME Init PROVE Sound /\ Path
  OBVIOUS
<1> DEFINE none == <<>>
<1>1. /\ walk = none /\ pc = "text" /\ known = 0 /\ vals = none /\ stmts = none /\ left = 0
      /\ result = none /\ lost = {}
  BY DEF Init
<1>2. PICK e : node = [n \in Nodes |->
                 IF n \in 1..Len(Args)
                 THEN [Node("undefined", e, e, none) EXCEPT !.retained = TRUE] ELSE Free]
  BY DEF Init
<1>3. Len(none) = 0 /\ none \in Seq({}) /\ none \in Seq(Nodes) /\ \A i : i \notin 1..Len(none)
  OBVIOUS
<1>4. none = <<>>
  OBVIOUS
<1> DEFINE given == [Node("undefined", e, e, none) EXCEPT !.retained = TRUE]
<1>5. /\ IsNode(given) /\ given.retained /\ given.type = "undefined" /\ given.xs = none
  <2> DEFINE r == Node("undefined", e, e, none)
  <2> HIDE DEF none
  <2>3. none \in Seq(Nodes)
    BY <1>3
  <2>1. IsNode(r) /\ r.type = "undefined" /\ r.xs = none
    <3>1. r = Node("undefined", e, e, none)
      OBVIOUS
    <3> HIDE DEF r
    <3> QED BY <2>3, <3>1, NodeIs
  <2>2. given = [r EXCEPT !.retained = TRUE]
    OBVIOUS
  <2> HIDE DEF given, r
  <2> QED BY <2>1, <2>2, RetainedKeeps
<1>6. IsNode(Free) /\ Free.type = "free" /\ Free.xs = none /\ ~Free.retained
  BY <1>4, FreeIs
<1> HIDE DEF none, given
<1>7. \A n \in Nodes : node[n] = IF n \in 1..Len(Args) THEN given ELSE Free
  BY <1>2 DEF given
<1>8. \A n \in Nodes : /\ IsNode(node[n]) /\ node[n].xs = none
                       /\ node[n].retained <=> n \in 1..Len(Args)
                       /\ n \in Live <=> n \in 1..Len(Args)
  <2>1. given.type # "free"
    BY <1>5
  <2> QED BY <1>5, <1>6, <1>7, <2>1 DEF Live
<1>9. \A n \in Nodes : \A i : i \notin 1..Len(node[n].xs)
  BY <1>3, <1>8
<1>10. Kept = Live /\ Live \subseteq Nodes
  BY <1>1 DEF Kept, Live
<1>11. Held = {}
  BY <1>1, <1>3 DEF Held
<1>12. NodesType
  <2>1. node = [n \in Nodes |-> node[n]]
    BY <1>2
  <2>2. \A n \in Nodes : node[n].retained <=> n <= Len(Args)
    <3>1. \A n \in Nodes : n \in 1..Len(Args) <=> n <= Len(Args)
      BY NodeNumbers
    <3> QED BY <1>8, <3>1
  <2>3. \A n \in 1..Len(Args) : n \in Live
    BY <1>8, NodeNumbers
  <2>4. 0 \in 0..Len(Args) + 1 /\ 0 \in 0..MaxNode
    BY NodeNumbers
  <2> QED BY <1>1, <1>8, <2>1, <2>2, <2>3, <2>4 DEF NodesType
<1>13. Graph
  <2>1. Kinds
    BY <1>4, <1>8, <1>9 DEF Kinds
  <2>2. Once /\ Targets
    BY <1>9, <1>10 DEF Once, Targets
  <2>3. Owned
    BY <1>8, <1>10 DEF Owned
  <2> QED BY <1>12, <2>1, <2>2, <2>3 DEF Graph
<1>14. RootsType
  BY <1>1, <1>3, <1>11 DEF RootsType
<1>15. RootsOnce
  BY <1>1, <1>3 DEF RootsOnce
<1>16. Phases
  BY <1>1, <1>4 DEF Phases
<1>17. Path
  <2>1. 0 - 1 \in Int /\ \A k : k \notin 1..Len(none) - 1
    BY <1>3
  <2>2. \A k : k \notin 1..Len(none) /\ k \notin 1..Len(none) - 1
    BY <1>3, <2>1
  <2>3. walk = none /\ walk = <<>> /\ \E S : walk \in Seq(S)
    BY <1>1, <1>3, <1>4
  <2> QED BY <2>2, <2>3 DEF Path
<1> QED BY <1>13, <1>14, <1>15, <1>16, <1>17 DEF Sound, Roots

LEMMA VarsStay == ASSUME Sound, Path, UNCHANGED vars PROVE Sound' /\ Path'
<1>1. UNCHANGED <<node, walk, pc, compiler, known, vals, stmts, left, result, lost>>
  BY DEF vars
<1>2. Held' = Held /\ Kept' = Kept /\ Unretained' = Unretained /\ Live' = Live /\ Root' = Root
  BY <1>1 DEF Held, Kept, Unretained, Live, Root
<1>3. known' \in 0..Len(Args) + 1 /\ left' \in 0..MaxNode
  BY <1>1 DEF Sound, Graph, NodesType
<1>4. Graph'
  BY <1>1, <1>2, <1>3, GraphStays DEF Sound
<1>5. RootsType' /\ RootsOnce'
  BY <1>1, <1>2 DEF Sound, Roots, RootsType, RootsOnce
<1>6. Phases'
  BY <1>1 DEF Sound, Roots, Phases
<1>7. Path'
  <2>1. PathOf(walk', node', Kept' \cap Unretained', Root')
    BY <1>1, <1>2, PathIs
  <2> QED BY <2>1, PathIsNext
<1> QED BY <1>4, <1>5, <1>6, <1>7 DEF Sound, Roots

\* The compilers never use a node they released or lose one they did not mean to: every
\* node that is no argument has one owner, and the calls of the optimiser are for nodes in
\* use, each for another one.
THEOREM NodesAlwaysOwned == Spec => []NodesOwned
<1>1. Init => Sound /\ Path
  BY InitSound
<1>2. Sound /\ Path /\ [Next]_vars => (Sound /\ Path)'
  <2>1. ASSUME Sound, Path, UNCHANGED vars PROVE Sound' /\ Path'
    BY <2>1, VarsStay
  <2> QED BY <2>1, NextKeeps
<1>3. Sound /\ Path => NodesOwned
  BY OwnedIf
<1> QED BY <1>1, <1>2, <1>3, PTL DEF Spec

----------------------------------------------------------------------------
(* What the optimiser has done *)

\* D is what the optimiser is done with: nothing is to be rewritten in its nodes, whose
\* parts are in it too; it is what was visited of the parts of the callers and what belongs
\* to these, and in the end what belongs to the parser given.
Working(D) ==
    /\ D \subseteq Kept \cap Unretained
    /\ \A n \in D : NothingToDo(n)
    /\ \A n \in D : \A i \in 1..Len(node[n].xs) : node[n].xs[i] \in D \cup Given
    /\ \A k \in 1..Len(walk) : walk[k].p \notin D
    /\ \A k \in 1..Len(walk) : \A i \in 1..Seen(walk[k]) :
          node[walk[k].p].xs[i] \in D \cup Given \/ (k # 1 /\ i = Seen(walk[k]))
    /\ \A n \in D :
          \/ walk = <<>> /\ n = Root
          \/ PartOf(D, n)
          \/ \E k \in 1..Len(walk) : \E i \in 1..Seen(walk[k]) : node[walk[k].p].xs[i] = n
    /\ walk = <<>> /\ (pc = "define" \/ result # <<>>) => Root \in D

Worked == pc \in {"define", "result", "done"} => \E D : Working(D)

\* A node that stays, with parts that stay.
LEMMA DoneStays ==
    ASSUME NEW n, IsNode(node[n]), node'[n] = node[n],
           \A i \in 1..Len(node[n].xs) : node'[node[n].xs[i]] = node[node[n].xs[i]],
           NothingToDo(n)
    PROVE  NothingToDo(n)'
<1>1. node[n].xs \in Seq(Nodes)
  BY DEF IsNode
<1>2. CASE node[n].xs = <<>>
  <2>1. Len(node[n].xs) # 2
    BY <1>2
  <2>2. node'[n].xs = <<>> /\ Len(node'[n].xs) # 2
    BY <1>2, <2>1
  <2>3. ~JoinsFirst(n)' /\ ~JoinsLast(n)'
    BY <2>2 DEF JoinsFirst, JoinsLast
  <2>4. ~BeginsNeutral(n)'
    BY <2>2 DEF BeginsNeutral
  <2> QED BY <2>3, <2>4 DEF NothingToDo
<1>3. CASE node[n].xs # <<>>
  <2> DEFINE a == Head(node[n].xs)
             z == Last(node[n].xs)
  <2>1. Len(node[n].xs) \in Nat \ {0}
    BY <1>1, <1>3, EmptySeq
  <2>2. 1 \in 1..Len(node[n].xs) /\ Len(node[n].xs) \in 1..Len(node[n].xs)
    BY <2>1
  <2>3. a = node[n].xs[1] /\ z = node[n].xs[Len(node[n].xs)]
    BY <1>1, <1>3 DEF Last
  <2>4. node'[a] = node[a] /\ node'[z] = node[z]
    BY <2>2, <2>3
  <2>5. Head(node'[n].xs) = a /\ Last(node'[n].xs) = z
    OBVIOUS
  <2> HIDE DEF a, z
  <2>6. JoinsFirst(n)' <=> JoinsFirst(n)
    BY <2>4, <2>5 DEF JoinsFirst, Joins, a
  <2>7. JoinsLast(n)' <=> JoinsLast(n)
    BY <2>4, <2>5 DEF JoinsLast, Joins, z
  <2>8. BeginsNeutral(n)' <=> BeginsNeutral(n)
    BY <2>4, <2>5 DEF BeginsNeutral, a
  <2> QED BY <2>6, <2>7, <2>8 DEF NothingToDo
<1> QED BY <1>2, <1>3

\* All parts of a caller that rewrites were visited.
LEMMA AllSeen ==
    ASSUME Sound, Path, walk # <<>>, Caller.parts = <<>>, NEW D, Working(D)
    PROVE  /\ Seen(walk[1]) = Len(P.xs) /\ 1 \in 1..Len(walk) /\ Caller = walk[1]
           /\ \A i \in 1..Len(P.xs) : P.xs[i] \in D \cup Given
<1>1. 1 \in 1..Len(walk) /\ Caller = walk[1] /\ P = node[walk[1].p] /\ Len(P.xs) \in Nat
  BY CallerIs DEF P
<1>2. Len(walk[1].parts) = 0
  BY <1>1
<1>3. Seen(walk[1]) = Len(P.xs)
  BY <1>1, <1>2, SeenIn
<1>4. \A i \in 1..Seen(walk[1]) : node[walk[1].p].xs[i] \in D \cup Given
  BY <1>1 DEF Working
<1> QED BY <1>1, <1>3, <1>4

LEMMA RewrittenWorks ==
    ASSUME Sound, Path, NEW gone, Rewritten(gone), NEW D, Working(D)
    PROVE  Working(D \ gone)'
<1> DEFINE c == Caller.p
           E == D \ gone
<1>1. /\ walk # <<>> /\ Caller.parts = <<>> /\ Moved(gone, {c})
      /\ \A n \in gone : n \notin Given /\ \E i \in 1..Len(P.xs) : P.xs[i] = n
      /\ UNCHANGED <<walk, pc, compiler, known, vals, stmts, left, result, lost>>
  BY DEF Rewritten
<1>2. /\ gone \cap Held = {} /\ gone \subseteq Kept \cap Unretained /\ c \notin gone
      /\ Kept \subseteq Nodes
      /\ \A k \in 1..Len(walk) : walk[k].p \notin gone
      /\ \A m \in Nodes : m \notin gone /\ m # c => node'[m] = node[m]
      /\ \A m \in Kept \ gone : m \in Kept' /\ (m \in Unretained => m \in Unretained')
      /\ Held' = Held /\ Root' = Root
  BY RewrittenStay
<1>3. /\ 1 \in 1..Len(walk) /\ Caller = walk[1] /\ P = node[c] /\ c \in Kept /\ c \in Nodes
      /\ c \notin Given
  BY <1>1, CallerIs DEF P
<1>4. \A i \in 1..Len(P.xs) : P.xs[i] \in D \cup Given
  BY <1>1, AllSeen
<1>5. gone \subseteq D
  BY <1>1, <1>4
<1>6. /\ D \subseteq Kept \cap Unretained /\ D \cap Given = {} /\ c \notin D
      /\ Given \subseteq Kept /\ Given \subseteq Nodes
  <2>1. D \subseteq Kept \cap Unretained /\ c \notin D
    BY <1>3 DEF Working
  <2>2. \A n \in Unretained : n \in Nodes /\ ~node[n].retained
    BY DEF Unretained, Live
  <2>3. Given \subseteq Kept /\ Given \subseteq Nodes
    <3>1. \A n \in Given : n \in Live /\ n \in Nodes
      BY NodeNumbers DEF Sound, Graph, NodesType, Given
    <3>2. \A n \in lost : n \notin Given
      BY <2>2, RetainedAre DEF Sound, Graph, NodesType
    <3> QED BY <3>1, <3>2 DEF Kept
  <2> QED BY <2>1, <2>2, <2>3, RetainedAre DEF Sound, Graph
<1>7. \A m \in Kept : \A i \in 1..Len(node[m].xs) : node[m].xs[i] \in gone => m = c
  <2> SUFFICES ASSUME NEW m \in Kept, NEW i \in 1..Len(node[m].xs), node[m].xs[i] \in gone
               PROVE  m = c
    OBVIOUS
  <2>1. PICK j \in 1..Len(P.xs) : P.xs[j] = node[m].xs[i]
    BY <1>1
  <2>2. P.xs[j] \notin Given
    BY <1>1, <2>1
  <2> QED BY <1>1, <2>1, <2>2, NotCalled
<1>8. \A n \in D : \A i \in 1..Len(node[n].xs) : node[n].xs[i] \in D \cup Given
  BY DEF Working
<1>9. \A i \in 1..Len(node'[c].xs) : node'[c].xs[i] \in E \cup Given
  <2> SUFFICES ASSUME NEW i \in 1..Len(node'[c].xs) PROVE node'[c].xs[i] \in E \cup Given
    OBVIOUS
  <2>1. PartOf(Kept \cap ({c} \cup gone), node'[c].xs[i]) /\ node'[c].xs[i] \notin gone
    BY <1>1 DEF Moved
  <2>2. PICK m \in {c} \cup gone : \E j \in 1..Len(node[m].xs) : node[m].xs[j] = node'[c].xs[i]
    BY <2>1 DEF PartOf
  <2>3. node'[c].xs[i] \in D \cup Given
    BY <1>3, <1>4, <1>5, <1>8, <2>2
  <2> QED BY <2>1, <2>3
<1> HIDE DEF c
<1>10. \A n \in E : /\ n \in Nodes /\ n \in Kept /\ node'[n] = node[n] /\ IsNode(node[n])
                    /\ \A i \in 1..Len(node[n].xs) : node[n].xs[i] \notin gone /\ node[n].xs[i] # c
  <2> SUFFICES ASSUME NEW n \in E
               PROVE  /\ n \in Nodes /\ n \in Kept /\ node'[n] = node[n] /\ IsNode(node[n])
                      /\ \A i \in 1..Len(node[n].xs) : node[n].xs[i] \notin gone /\ node[n].xs[i] # c
    OBVIOUS
  <2>1. n \in Nodes /\ n \in Kept /\ n # c /\ n \notin gone
    BY <1>2, <1>6
  <2>2. node'[n] = node[n] /\ IsNode(node[n])
    BY <1>2, <2>1 DEF Sound, Graph, NodesType
  <2>3. \A i \in 1..Len(node[n].xs) : node[n].xs[i] \notin gone
    BY <1>7, <2>1
  <2>4. \A i \in 1..Len(node[n].xs) : node[n].xs[i] # c
    BY <1>3, <1>6, <1>8
  <2> QED BY <2>1, <2>2, <2>3, <2>4
<1>11. E \subseteq Kept' \cap Unretained'
  BY <1>2, <1>6
<1>12. \A n \in E : NothingToDo(n)'
  <2> SUFFICES ASSUME NEW n \in E PROVE NothingToDo(n)'
    OBVIOUS
  <2>1. /\ n \in Nodes /\ node'[n] = node[n] /\ IsNode(node[n])
        /\ \A i \in 1..Len(node[n].xs) : node[n].xs[i] \notin gone /\ node[n].xs[i] # c
    BY <1>10
  <2>2. \A i \in 1..Len(node[n].xs) : node[n].xs[i] \in Nodes
    BY <2>1, PartsType
  <2>3. \A i \in 1..Len(node[n].xs) : node'[node[n].xs[i]] = node[node[n].xs[i]]
    BY <1>2, <2>1, <2>2
  <2>4. NothingToDo(n)
    BY DEF Working
  <2> QED BY <2>1, <2>3, <2>4, DoneStays
<1>13. \A n \in E : \A i \in 1..Len(node'[n].xs) : node'[n].xs[i] \in E \cup Given
  BY <1>8, <1>10
<1>14. \A k \in 1..Len(walk) : walk[k].p \notin E
  BY DEF Working
<1>15. \A k \in 1..Len(walk) : k # 1 => /\ node'[walk[k].p] = node[walk[k].p] /\ walk[k].p \in Kept
                                       /\ walk[k].p # c
  <2> SUFFICES ASSUME NEW k \in 1..Len(walk), k # 1
               PROVE  node'[walk[k].p] = node[walk[k].p] /\ walk[k].p \in Kept /\ walk[k].p # c
    OBVIOUS
  <2>1. walk[k].p # c
    BY <1>3 DEF Path, c
  <2>2. walk[k].p \in Nodes /\ walk[k].p \in Kept
    BY SeenIn
  <2> QED BY <1>2, <2>1, <2>2
<1> DEFINE Now(k) == Len(node'[walk[k].p].xs) - Len(walk[k].parts)
<1>16. \A k \in 1..Len(walk) : k # 1 => Now(k) = Seen(walk[k])
  BY <1>15 DEF Seen
<1>17. Now(1) = Len(node'[c].xs) /\ walk[1].p = c /\ Len(node'[c].xs) \in Nat
  <2>1. walk[1].parts = <<>> /\ walk[1].p = c
    BY <1>1, <1>3 DEF c
  <2>2. IsNode(node'[c])
    BY <1>1 DEF Moved, c
  <2>3. Len(node'[c].xs) \in Nat
    BY <2>2, PartsType
  <2>4. Len(walk[1].parts) = 0
    BY <2>1
  <2> QED BY <2>1, <2>3, <2>4
<1> HIDE DEF E
<1>18. \A k \in 1..Len(walk) : \A i \in 1..Seen(walk[k]) :
          node[walk[k].p].xs[i] \in D \cup Given \/ i = Seen(walk[k])
  BY DEF Working
<1>19. \A k \in 1..Len(walk) : \A i \in 1..Now(k) :
          node'[walk[k].p].xs[i] \in E \cup Given \/ (k # 1 /\ i = Now(k))
  <2> SUFFICES ASSUME NEW k \in 1..Len(walk), NEW i \in 1..Now(k)
               PROVE  node'[walk[k].p].xs[i] \in E \cup Given \/ (k # 1 /\ i = Now(k))
    OBVIOUS
  <2>1. CASE k = 1
    BY <1>9, <1>17, <2>1
  <2>2. CASE k # 1
    <3>1. Now(k) = Seen(walk[k]) /\ node'[walk[k].p] = node[walk[k].p] /\ walk[k].p \in Kept
          /\ walk[k].p # c
      BY <1>15, <1>16, <2>2
    <3>2. Seen(walk[k]) \in 0..Len(node[walk[k].p].xs) /\ Len(node[walk[k].p].xs) \in Nat
      BY SeenIn
    <3>3. i \in 1..Len(node[walk[k].p].xs)
      BY <3>1, <3>2
    <3>4. node[walk[k].p].xs[i] \notin gone
      BY <1>7, <3>1, <3>3
    <3>5. node[walk[k].p].xs[i] \in D \cup Given \/ i = Seen(walk[k])
      <4>1. i \in 1..Seen(walk[k])
        BY <3>1
      <4> QED BY <4>1, <1>18
    <3> HIDE DEF Now
    <3> QED BY <2>2, <3>1, <3>4, <3>5 DEF E
  <2> QED BY <2>1, <2>2
<1>20. ASSUME NEW n \in E
       PROVE  \/ \E m \in E : \E i \in 1..Len(node'[m].xs) : node'[m].xs[i] = n
              \/ \E k \in 1..Len(walk) : \E i \in 1..Now(k) : node'[walk[k].p].xs[i] = n
  <2>1. n \in D /\ n \notin gone /\ n \in Nodes
    BY <1>2, <1>6 DEF E
  <2>2. PartOf(D, n) \/ \E k \in 1..Len(walk) : \E i \in 1..Seen(walk[k]) : node[walk[k].p].xs[i] = n
    BY <1>1, <2>1 DEF Working
  <2>3. ASSUME NEW m \in Kept \cap (gone \cup {c}), \E i \in 1..Len(node[m].xs) : node[m].xs[i] = n
        PROVE  \E k \in 1..Len(walk) : \E i \in 1..Now(k) : node'[walk[k].p].xs[i] = n
    <3>1. PartOf(Kept \cap (gone \cup {c}), n)
      BY <2>3 DEF PartOf
    <3>2. n \notin Given /\ n \notin Held'
      <4>1. n \notin Given
        BY <1>6, <2>1
      <4>2. n \in Held => node[n].retained
        BY <2>3 DEF Sound, Graph, Targets
      <4>3. ~node[n].retained
        BY <2>1, <4>1, RetainedAre DEF Sound, Graph
      <4> QED BY <1>2, <4>1, <4>2, <4>3
    <3>3. \E i \in 1..Len(node'[c].xs) : node'[c].xs[i] = n
      BY <1>1, <2>1, <3>1, <3>2 DEF Moved, c
    <3> HIDE DEF Now
    <3> QED BY <1>3, <1>17, <3>3
  <2>4. CASE PartOf(D, n)
    <3>1. PICK m \in D : \E i \in 1..Len(node[m].xs) : node[m].xs[i] = n
      BY <2>4 DEF PartOf
    <3>2. CASE m \in gone
      BY <1>6, <2>3, <3>1, <3>2
    <3>3. CASE m \notin gone
      <4>1. m \in E /\ node'[m] = node[m]
        BY <1>10, <3>3 DEF E
      <4> QED BY <3>1, <4>1
    <3> QED BY <3>2, <3>3
  <2>5. ASSUME NEW k \in 1..Len(walk), \E i \in 1..Seen(walk[k]) : node[walk[k].p].xs[i] = n
        PROVE  \E j \in 1..Len(walk) : \E i \in 1..Now(j) : node'[walk[j].p].xs[i] = n
    <3>1. CASE k = 1
      <4>1. PICK i \in 1..Seen(walk[k]) : node[walk[k].p].xs[i] = n
        BY <2>5
      <4>2. i \in 1..Len(node[c].xs) /\ node[c].xs[i] = n
        <5>1. Seen(walk[1]) = Len(P.xs)
          BY <1>1, AllSeen
        <5> QED BY <1>3, <1>17, <3>1, <4>1, <5>1
      <4>3. c \in Kept \cap (gone \cup {c})
        BY <1>3
      <4> HIDE DEF Now
      <4> QED BY <2>3, <4>2, <4>3
    <3>2. CASE k # 1
      <4>1. Now(k) = Seen(walk[k]) /\ node'[walk[k].p] = node[walk[k].p]
        BY <1>15, <1>16, <3>2
      <4> HIDE DEF Now
      <4> QED BY <2>5, <4>1
    <3> QED BY <3>1, <3>2
  <2> HIDE DEF Now
  <2> QED BY <2>2, <2>4, <2>5
<1>21. /\ \A k \in 1..Len(walk') : \A i \in 1..Seen(walk[k])' :
             node'[walk'[k].p].xs[i] \in E \cup Given \/ (k # 1 /\ i = Seen(walk[k])')
       /\ \A n \in E :
             \/ \E m \in E : \E i \in 1..Len(node'[m].xs) : node'[m].xs[i] = n
             \/ \E k \in 1..Len(walk') : \E i \in 1..Seen(walk[k])' : node'[walk'[k].p].xs[i] = n
  <2>1. walk' = walk
    BY <1>1
  <2> QED BY <1>19, <1>20, <2>1 DEF Seen
<1>22. walk' # <<>> /\ \A k \in 1..Len(walk') : walk'[k].p \notin E
  BY <1>1, <1>14
<1>23. Working(E)'
  BY <1>11, <1>12, <1>13, <1>21, <1>22 DEF Working, PartOf
<1> QED BY <1>23 DEF E

\* Nothing changes but the walk.
LEMMA WorkingMoves ==
    ASSUME NEW D, NEW E, Working(D), D \subseteq E, E \subseteq Kept \cap Unretained,
           node' = node, Kept' = Kept, Unretained' = Unretained,
           \A n \in E \ D : /\ NothingToDo(n)
                            /\ \A i \in 1..Len(node[n].xs) : node[n].xs[i] \in E \cup Given,
           \A k \in 1..Len(walk') : walk'[k].p \notin E,
           \A k \in 1..Len(walk') :
              \A i \in 1..Len(node[walk'[k].p].xs) - Len(walk'[k].parts) :
                  \/ node[walk'[k].p].xs[i] \in E \cup Given
                  \/ k # 1 /\ i = Len(node[walk'[k].p].xs) - Len(walk'[k].parts),
           \A n \in E :
              \/ Len(walk') = 0 /\ n = Root'
              \/ PartOf(E, n)
              \/ \E k \in 1..Len(walk') :
                    \E i \in 1..Len(node[walk'[k].p].xs) - Len(walk'[k].parts) :
                        node[walk'[k].p].xs[i] = n,
           Len(walk') = 0 => Root' \in E, walk' = <<>> <=> Len(walk') = 0
    PROVE  Working(E)'
<1>1. \A n \in E : NothingToDo(n)'
  <2> SUFFICES ASSUME NEW n \in E PROVE NothingToDo(n)'
    OBVIOUS
  <2>1. NothingToDo(n)
    BY DEF Working
  <2> QED BY <2>1 DEF NothingToDo, JoinsFirst, JoinsLast, BeginsNeutral, Joins
<1>2. \A n \in E : \A i \in 1..Len(node'[n].xs) : node'[n].xs[i] \in E \cup Given
  BY DEF Working
<1>3. \A n \in E : PartOf(E, n) => \E m \in E : \E i \in 1..Len(node'[m].xs) : node'[m].xs[i] = n
  BY DEF PartOf
<1> QED BY <1>1, <1>2, <1>3, SMTT(20), ZenonT(40) DEF Working, PartOf, Seen

LEMMA WorkingStays ==
    ASSUME NEW D, Working(D), node' = node, Kept' = Kept, Unretained' = Unretained, walk' # <<>>,
           \A k \in 1..Len(walk') : walk'[k].p \notin D,
           \A k \in 1..Len(walk') :
              \A i \in 1..Len(node[walk'[k].p].xs) - Len(walk'[k].parts) :
                  \/ node[walk'[k].p].xs[i] \in D \cup Given
                  \/ k # 1 /\ i = Len(node[walk'[k].p].xs) - Len(walk'[k].parts),
           \A n \in D :
              \/ PartOf(D, n)
              \/ \E k \in 1..Len(walk') :
                    \E i \in 1..Len(node[walk'[k].p].xs) - Len(walk'[k].parts) :
                        node[walk'[k].p].xs[i] = n
    PROVE  Working(D)'
<1>1. D \subseteq D /\ D \subseteq Kept \cap Unretained /\ \A n : n \notin D \ D
  BY DEF Working
<1> QED BY <1>1, WorkingMoves

LEMMA VisitWorks ==
    ASSUME Sound, Path, VisitPart, NEW D, Working(D),
           UNCHANGED <<compiler, predictive, pc, known, vals, stmts, left, result, rules, lost>>
    PROVE  Working(D)'
<1> DEFINE n == Len(walk)
           S(c) == Len(node[c.p].xs) - Len(c.parts)
<1>1. PICK v, m :
              /\ m = Seen(Caller) + 1 /\ m \in 1..Len(P.xs)
              /\ v = [p |-> v.p, parts |-> v.parts] /\ v.p = Caller.p /\ v.parts \in Seq(Nodes)
              /\ Len(v.parts) = Len(P.xs) - m
              /\ \A i \in 1..Len(v.parts) : v.parts[i] = P.xs[m + i]
              /\ walk # <<>> /\ node' = node
              /\ walk' = IF node[P.xs[m]].retained THEN <<v>> \o Tail(walk)
                         ELSE <<CallOf(P.xs[m])>> \o (<<v>> \o Tail(walk))
  BY VisitIs
<1>2. Root' = Root /\ Kept' = Kept /\ Unretained' = Unretained
  BY <1>1, WalkOnly
<1>3. /\ n \in Nat \ {0} /\ Caller = walk[1] /\ 1 \in 1..n
      /\ P = node[Caller.p] /\ Len(P.xs) \in Nat /\ \A i \in 1..Len(P.xs) : P.xs[i] \in Nodes
  BY <1>1, CallerIs DEF P
<1>4. PICK T : walk \in Seq(T)
  BY DEF Path
<1> DEFINE rest == <<v>> \o Tail(walk)
           part == P.xs[m]
<1>5. /\ rest \in Seq(T \cup {v}) /\ Len(rest) = n /\ rest[1] = v
      /\ \A i \in 1..n : i # 1 => rest[i] = walk[i]
  BY <1>1, <1>4, HeadReplaced
<1>6. S(v) = m /\ Seen(walk[1]) = m - 1 /\ m \in Nat
  <2>1. Seen(walk[1]) \in 0..Len(node[walk[1].p].xs)
    BY <1>3, SeenIn
  <2>2. m = Seen(walk[1]) + 1 /\ S(v) = Len(P.xs) - Len(v.parts)
    BY <1>1, <1>3
  <2> DEFINE seen == Seen(walk[1])
  <2>3. seen \in Nat /\ m = seen + 1
    BY <1>3, <2>1, <2>2
  <2>4. S(v) = m
    <3>1. m \in 1..Len(P.xs) /\ Len(v.parts) = Len(P.xs) - m
      BY <1>1, Zenon
    <3>2. Len(P.xs) \in Nat
      BY <1>3, Zenon
    <3> HIDE DEF S
    <3> QED BY <2>2, <3>1, <3>2
  <2> HIDE DEF S, seen
  <2>5. seen = m - 1 /\ m \in Nat
    BY <2>3
  <2> QED BY <2>4, <2>5 DEF seen
<1>7. \A k \in 1..n : Seen(walk[k]) = S(walk[k]) /\ Seen(walk[k]) \in Nat
  <2> SUFFICES ASSUME NEW k \in 1..n PROVE Seen(walk[k]) = S(walk[k]) /\ Seen(walk[k]) \in Nat
    OBVIOUS
  <2>1. Seen(walk[k]) \in 0..Len(node[walk[k].p].xs) /\ Len(node[walk[k].p].xs) \in Nat
    BY SeenIn
  <2>2. Seen(walk[k]) = S(walk[k])
    BY DEF Seen
  <2> HIDE DEF S
  <2> QED BY <2>1, <2>2
<1>8. /\ D \subseteq Kept \cap Unretained
      /\ \A k \in 1..n : walk[k].p \notin D
      /\ \A k \in 1..n : \A i \in 1..Seen(walk[k]) :
            node[walk[k].p].xs[i] \in D \cup Given \/ (k # 1 /\ i = Seen(walk[k]))
      /\ \A x \in D : PartOf(D, x) \/ \E k \in 1..n : \E i \in 1..Seen(walk[k]) : node[walk[k].p].xs[i] = x
  BY <1>1 DEF Working
<1>9. \A k \in 1..n : rest[k].p = walk[k].p /\ (k # 1 => S(rest[k]) = Seen(walk[k]))
  BY <1>1, <1>3, <1>5, <1>7
<1>10. S(rest[1]) = m
  BY <1>5, <1>6
<1> HIDE DEF rest, n, S
<1>11. \A k \in 1..n : \A i \in 1..S(rest[k]) :
          node[rest[k].p].xs[i] \in D \cup Given \/ i = S(rest[k])
  <2> SUFFICES ASSUME NEW k \in 1..n, NEW i \in 1..S(rest[k]), i # S(rest[k])
               PROVE  node[rest[k].p].xs[i] \in D \cup Given
    OBVIOUS
  <2>1. CASE k = 1
    <3>1. i \in 1..Seen(walk[1])
      BY <1>6, <1>10, <2>1
    <3> QED BY <1>3, <1>8, <1>9, <2>1, <3>1
  <2>2. CASE k # 1
    BY <1>8, <1>9, <2>2
  <2> QED BY <2>1, <2>2
<1>12. \A k \in 1..n : \A i \in 1..Seen(walk[k]) : i \in 1..S(rest[k])
  <2> SUFFICES ASSUME NEW k \in 1..n, NEW i \in 1..Seen(walk[k]) PROVE i \in 1..S(rest[k])
    OBVIOUS
  <2>1. CASE k = 1
    BY <1>6, <1>10, <2>1
  <2>2. CASE k # 1
    BY <1>9, <2>2
  <2> QED BY <2>1, <2>2
<1>13. \A x \in D : PartOf(D, x) \/ \E k \in 1..n : \E i \in 1..S(rest[k]) : node[rest[k].p].xs[i] = x
  BY <1>8, <1>9, <1>12, SMTT(20), ZenonT(40)
<1>14. node[rest[1].p].xs[m] = part
  BY <1>1, <1>3, <1>9
<1> HIDE DEF part
<1>15. CASE node[part].retained
  <2>1. walk' = rest
    BY <1>1, <1>15, SMTT(20), ZenonT(40) DEF rest, part
  <2>2. part \in Given
    BY <1>1, <1>3, <1>15, RetainedAre DEF Sound, Graph, part
  <2>3. \A k \in 1..n : \A i \in 1..S(rest[k]) :
          node[rest[k].p].xs[i] \in D \cup Given \/ (k # 1 /\ i = S(rest[k]))
    BY <1>10, <1>11, <1>14, <2>2
  <2>4. walk' # <<>>
    BY <1>3, <1>5, <2>1, EmptySeq
  <2>5. \A k \in 1..n : walk'[k].p \notin D
    BY <1>8, <1>9, <2>1
  <2>6. node' = node /\ Kept' = Kept /\ Unretained' = Unretained
    BY <1>1, <1>2
  <2>7. \A k \in 1..Len(walk') : walk'[k].p \notin D
    BY <1>5, <2>1, <2>5
  <2>8. \A k \in 1..Len(walk') :
            \A i \in 1..Len(node[walk'[k].p].xs) - Len(walk'[k].parts) :
                \/ node[walk'[k].p].xs[i] \in D \cup Given
                \/ k # 1 /\ i = Len(node[walk'[k].p].xs) - Len(walk'[k].parts)
    BY <1>5, <2>1, <2>3 DEF S
  <2>9. \A x \in D :
            \/ PartOf(D, x)
            \/ \E k \in 1..Len(walk') :
                  \E i \in 1..Len(node[walk'[k].p].xs) - Len(walk'[k].parts) :
                      node[walk'[k].p].xs[i] = x
    BY <1>5, <1>13, <2>1 DEF S
  <2> QED BY <2>4, <2>6, <2>7, <2>8, <2>9, WorkingStays
<1>16. CASE ~node[part].retained
  <2> DEFINE w == CallOf(part)
  <2>1. walk' = <<w>> \o rest
    BY <1>1, <1>16, SMTT(20), ZenonT(40) DEF rest, part
  <2>2. w.p = part /\ w.parts = node[part].xs
    BY DEF CallOf
  <2>3. part \in Nodes /\ part \notin Given
    BY <1>1, <1>3, <1>16, RetainedAre DEF Sound, Graph, part
  <2>4. S(w) = 0
    <3>1. Len(node[part].xs) \in Nat
      BY <2>3, PartsType DEF Sound, Graph, NodesType
    <3> QED BY <2>2, <3>1 DEF S
  <2> HIDE DEF w
  <2>5. part \notin D
    <3> SUFFICES ASSUME part \in D PROVE FALSE
      OBVIOUS
    <3>1. \A x \in Kept : \A j \in 1..Len(node[x].xs) : node[x].xs[j] = part => x = Caller.p /\ j = m
      BY <1>1, <2>3, NotCalled DEF part
    <3>2. CASE PartOf(D, part)
      <4>1. PICK x \in D : \E j \in 1..Len(node[x].xs) : node[x].xs[j] = part
        BY <3>2 DEF PartOf
      <4>2. x = Caller.p /\ x \in D
        BY <1>8, <3>1, <4>1
      <4> QED BY <1>3, <1>8, <4>2
    <3>3. ASSUME NEW k \in 1..n, NEW i \in 1..Seen(walk[k]), node[walk[k].p].xs[i] = part PROVE FALSE
      <4>1. walk[k].p \in Kept /\ i \in 1..Len(node[walk[k].p].xs)
        BY SeenIn DEF n
      <4>2. walk[k].p = Caller.p /\ i = m
        BY <3>1, <3>3, <4>1
      <4>3. k = 1
        BY <1>3, <4>2 DEF Path, n
      <4> QED BY <1>6, <4>2, <4>3
    <3> QED BY <1>8, <3>2, <3>3
  <2>6. /\ walk' \in Seq((T \cup {v}) \cup {v, w}) /\ Len(walk') = n + 1 /\ walk'[1] = w
        /\ \A k \in 1..n : walk'[k + 1] = rest[k]
    BY <1>5, <2>1, Prepended
  <2>7. walk' # <<>>
    BY <1>3, <2>6, EmptySeq
  <2>8. \A k \in 1..n + 1 : k = 1 \/ (k - 1 \in 1..n /\ k - 1 + 1 = k)
    BY <1>3
  <2>9. \A k \in 1..n + 1 : k = 1 \/ \E j \in 1..n : walk'[k] = rest[j]
    BY <2>6, <2>8
  <2>10. \A k \in 1..n : k + 1 \in 1..n + 1
    BY <1>3
  <2>11. \A k \in 1..n + 1 : walk'[k].p \notin D
    BY <1>8, <1>9, <2>2, <2>5, <2>6, <2>9
  <2>12. \A k \in 1..n + 1 : \A i \in 1..S(walk'[k]) :
            node[walk'[k].p].xs[i] \in D \cup Given \/ (k # 1 /\ i = S(walk'[k]))
    <3>1. \A i : i \notin 1..0
      OBVIOUS
    <3> QED BY <1>11, <2>4, <2>6, <2>9, <3>1
  <2>13. \A x \in D :
            PartOf(D, x) \/ \E k \in 1..n + 1 : \E i \in 1..S(walk'[k]) : node[walk'[k].p].xs[i] = x
    BY <1>13, <2>6, <2>10
  <2>14. node' = node /\ Kept' = Kept /\ Unretained' = Unretained
    BY <1>1, <1>2
  <2>15. \A k \in 1..Len(walk') : walk'[k].p \notin D
    BY <2>6, <2>11
  <2>16. \A k \in 1..Len(walk') :
            \A i \in 1..Len(node[walk'[k].p].xs) - Len(walk'[k].parts) :
                \/ node[walk'[k].p].xs[i] \in D \cup Given
                \/ k # 1 /\ i = Len(node[walk'[k].p].xs) - Len(walk'[k].parts)
    BY <2>6, <2>12 DEF S
  <2>17. \A x \in D :
            \/ PartOf(D, x)
            \/ \E k \in 1..Len(walk') :
                  \E i \in 1..Len(node[walk'[k].p].xs) - Len(walk'[k].parts) :
                      node[walk'[k].p].xs[i] = x
    BY <2>6, <2>13 DEF S
  <2> QED BY <2>7, <2>14, <2>15, <2>16, <2>17, WorkingStays
<1> QED BY <1>15, <1>16

LEMMA ReturnWorks ==
    ASSUME Sound, Path, Return, NEW D, Working(D), NEW c, c = Caller.p,
           UNCHANGED <<compiler, predictive, pc, known, vals, stmts, left, result, rules, lost>>
    PROVE  Working(D \cup {c})'
<1> DEFINE n == Len(walk)
           E == D \cup {c}
           S(d) == Len(node[d.p].xs) - Len(d.parts)
<1>1. walk # <<>> /\ Caller.parts = <<>> /\ walk' = Tail(walk) /\ node' = node /\ NothingToDo(c)
  BY DEF Return, Rewriting
<1>2. Root' = Root /\ Kept' = Kept /\ Unretained' = Unretained
  BY <1>1, WalkOnly
<1>3. PICK T : walk \in Seq(T)
  BY DEF Path
<1>4. /\ walk' \in Seq(T) /\ Len(walk') = n - 1 /\ n \in Nat \ {0}
      /\ \A k \in 1..Len(walk') : walk'[k] = walk[k + 1]
  BY <1>1, <1>3, HeadTailProperties, EmptySeq
<1>5. /\ 1 \in 1..n /\ n \in 1..n /\ Caller = walk[1] /\ P = node[c] /\ c \in Kept \cap Unretained
      /\ Len(P.xs) \in Nat
  BY <1>1, CallerIs DEF P
<1>6. Seen(walk[1]) = Len(P.xs) /\ \A i \in 1..Len(P.xs) : P.xs[i] \in D \cup Given
  BY <1>1, AllSeen
<1>7. /\ D \subseteq Kept \cap Unretained
      /\ \A k \in 1..n : walk[k].p \notin D
      /\ \A k \in 1..n : \A i \in 1..Seen(walk[k]) :
            node[walk[k].p].xs[i] \in D \cup Given \/ (k # 1 /\ i = Seen(walk[k]))
      /\ \A x \in D : PartOf(D, x) \/ \E k \in 1..n : \E i \in 1..Seen(walk[k]) : node[walk[k].p].xs[i] = x
  BY <1>1 DEF Working
<1>8. \A k \in 1..n - 1 : Seen(walk[k + 1]) > 0 /\ node[walk[k + 1].p].xs[Seen(walk[k + 1])] = walk[k].p
  BY DEF Path
<1>9. \A k, j \in 1..n : walk[k].p = walk[j].p => k = j
  BY DEF Path
<1>10. \A k \in 1..n : Seen(walk[k]) = S(walk[k]) /\ Seen(walk[k]) \in Nat
  <2> SUFFICES ASSUME NEW k \in 1..n PROVE Seen(walk[k]) = S(walk[k]) /\ Seen(walk[k]) \in Nat
    OBVIOUS
  <2>1. Seen(walk[k]) \in 0..Len(node[walk[k].p].xs) /\ Len(node[walk[k].p].xs) \in Nat
    BY SeenIn
  <2>2. Seen(walk[k]) = S(walk[k])
    BY DEF Seen
  <2> HIDE DEF S
  <2> QED BY <2>1, <2>2
<1> HIDE DEF n, S, E
<1>11. /\ \A k \in 1..n - 1 : k + 1 \in 1..n /\ k + 1 # 1 /\ walk'[k] = walk[k + 1]
       /\ \A k \in 1..n : k = 1 \/ (k - 1 \in 1..n - 1 /\ k - 1 + 1 = k)
  BY <1>4
<1>12. \A k \in 1..n - 1 : walk'[k].p \notin E
  <2> SUFFICES ASSUME NEW k \in 1..n - 1 PROVE walk'[k].p \notin E
    OBVIOUS
  <2>1. walk[k + 1].p \notin D /\ walk[k + 1].p # walk[1].p
    BY <1>5, <1>7, <1>9, <1>11
  <2> QED BY <1>5, <1>11, <2>1 DEF E
<1>13. \A k \in 1..n - 1 : \A i \in 1..S(walk'[k]) :
          node[walk'[k].p].xs[i] \in E \cup Given \/ (k # 1 /\ i = S(walk'[k]))
  <2> SUFFICES ASSUME NEW k \in 1..n - 1, NEW i \in 1..S(walk'[k])
               PROVE  node[walk'[k].p].xs[i] \in E \cup Given \/ (k # 1 /\ i = S(walk'[k]))
    OBVIOUS
  <2>1. walk'[k] = walk[k + 1] /\ k + 1 \in 1..n /\ S(walk'[k]) = Seen(walk[k + 1])
    BY <1>10, <1>11
  <2>2. node[walk[k + 1].p].xs[i] \in D \cup Given \/ i = Seen(walk[k + 1])
    BY <1>7, <2>1
  <2>3. k = 1 => node[walk[k + 1].p].xs[Seen(walk[k + 1])] = c
    BY <1>5, <1>8
  <2> QED BY <2>1, <2>2, <2>3 DEF E
<1>14. ASSUME NEW x \in E
       PROVE  \/ Len(walk') = 0 /\ x = Root'
              \/ PartOf(E, x)
              \/ \E k \in 1..n - 1 : \E i \in 1..S(walk'[k]) : node[walk'[k].p].xs[i] = x
  <2>1. CASE x = c
    <3>1. CASE n = 1
      <4>1. Len(walk') = 0
        BY <1>4, <3>1
      <4>2. c = Root
        BY <1>1, <1>5, <3>1 DEF Path, n
      <4> QED BY <1>2, <2>1, <4>1, <4>2
    <3>2. CASE n # 1
      <4>1. 1 \in 1..n - 1 /\ 1 + 1 \in 1..n
        BY <1>4, <3>2
      <4>2. Seen(walk[1 + 1]) > 0 /\ node[walk[1 + 1].p].xs[Seen(walk[1 + 1])] = c
            /\ walk'[1] = walk[1 + 1]
        BY <1>5, <1>8, <1>11, <4>1
      <4>3. S(walk'[1]) = Seen(walk[1 + 1]) /\ Seen(walk[1 + 1]) \in 1..Seen(walk[1 + 1])
        BY <1>10, <4>1, <4>2
      <4> QED BY <2>1, <4>1, <4>2, <4>3
    <3> QED BY <3>1, <3>2
  <2>2. CASE x \in D
    <3>1. CASE PartOf(D, x)
      BY <3>1 DEF PartOf, E
    <3>2. ASSUME NEW k \in 1..n, NEW i \in 1..Seen(walk[k]), node[walk[k].p].xs[i] = x
          PROVE  PartOf(E, x) \/ \E j \in 1..n - 1 : \E l \in 1..S(walk'[j]) : node[walk'[j].p].xs[l] = x
      <4>1. CASE k = 1
        <5>1. i \in 1..Len(node[c].xs) /\ node[c].xs[i] = x
          BY <1>5, <1>6, <3>2, <4>1
        <5> QED BY <5>1 DEF PartOf, E
      <4>2. CASE k # 1
        <5>1. k - 1 \in 1..n - 1 /\ k - 1 + 1 = k
          BY <1>11, <4>2
        <5>2. walk'[k - 1] = walk[k] /\ S(walk'[k - 1]) = Seen(walk[k])
          BY <1>10, <1>11, <5>1
        <5> QED BY <3>2, <5>1, <5>2
      <4> QED BY <4>1, <4>2
    <3> QED BY <1>7, <2>2, <3>1, <3>2
  <2> QED BY <2>1, <2>2 DEF E
<1>15. Len(walk') = 0 => Root' \in E
  <2> SUFFICES ASSUME Len(walk') = 0 PROVE Root' \in E
    OBVIOUS
  <2>2. n = 1
    BY <1>4
  <2>3. c = Root
    BY <1>1, <1>5, <2>2 DEF Path, n
  <2> QED BY <1>2, <2>3 DEF E
<1>16. D \subseteq E /\ E \subseteq Kept \cap Unretained
  BY <1>5, <1>7 DEF E
<1>17. \A x \in E \ D : NothingToDo(x) /\ \A i \in 1..Len(node[x].xs) : node[x].xs[i] \in E \cup Given
  BY <1>1, <1>5, <1>6 DEF E
<1>18. \A k \in 1..Len(walk') : walk'[k].p \notin E
  BY <1>4, <1>12
<1>19. \A k \in 1..Len(walk') :
          \A i \in 1..Len(node[walk'[k].p].xs) - Len(walk'[k].parts) :
              \/ node[walk'[k].p].xs[i] \in E \cup Given
              \/ k # 1 /\ i = Len(node[walk'[k].p].xs) - Len(walk'[k].parts)
  BY <1>4, <1>13 DEF S
<1>20. \A x \in E :
          \/ Len(walk') = 0 /\ x = Root'
          \/ PartOf(E, x)
          \/ \E k \in 1..Len(walk') :
                \E i \in 1..Len(node[walk'[k].p].xs) - Len(walk'[k].parts) :
                    node[walk'[k].p].xs[i] = x
  BY <1>4, <1>14 DEF S
<1>21. node' = node
  BY <1>1
<1>22. walk' = <<>> <=> Len(walk') = 0
  BY <1>4, EmptySeq
<1>23. Working(E)'
  BY <1>22, <1>2, <1>15, <1>16, <1>17, <1>18, <1>19, <1>20, <1>21, WorkingMoves
<1> QED BY <1>23 DEF E

\* Where nothing is done yet: a walk begins, or nothing is returned.
LEMMA NothingDone ==
    ASSUME Sound', walk' # <<>> => \E n : n \in Kept' /\ walk' = <<[p |-> n, parts |-> node'[n].xs]>>,
           walk' = <<>> => pc' # "define" /\ result' = <<>>
    PROVE  Working({})'
<1>1. CASE walk' = <<>>
  <2>1. \A k : k \notin 1..Len(walk')
    BY <1>1
  <2>2. ~(pc' = "define" \/ result' # <<>>)
    BY <1>1
  <2> QED BY <2>1, <2>2 DEF Working
<1>2. CASE walk' # <<>>
  <2>1. PICK n : n \in Kept' /\ walk' = <<[p |-> n, parts |-> node'[n].xs]>>
    BY <1>2
  <2> DEFINE w == [p |-> n, parts |-> node'[n].xs]
  <2>2. w.p = n /\ w.parts = node'[n].xs /\ walk' = <<w>>
    BY <2>1
  <2> HIDE DEF w
  <2>3. 1..Len(walk') = {1} /\ walk'[1] = w
    BY <2>2
  <2>4. n \in Nodes
    BY <2>1 DEF Kept, Live
  <2>5. IsNode(node'[n])
    BY <2>4 DEF Sound, Graph, NodesType
  <2>6. Len(node'[n].xs) \in Nat
    BY <2>5, PartsType
  <2>7. \A i : i \notin 1..Len(node'[n].xs) - Len(node'[n].xs)
    BY <2>6
  <2>8. \A k \in 1..Len(walk') : \A i : i \notin 1..Len(node'[walk'[k].p].xs) - Len(walk'[k].parts)
    BY <2>2, <2>3, <2>7
  <2> QED BY <1>2, <2>8 DEF Working, Seen
<1> QED BY <1>1, <1>2

LEMMA InvalidWorks == ASSUME Sound, Invalid, Sound' PROVE Worked'
<1>1. walk' = walk /\ Text
  BY DEF Invalid
<1>2. walk' = <<>>
  BY <1>1 DEF Text
<1>3. CASE compiler = "lang"
  <2>1. pc' = "done" /\ result' = <<>>
    BY <1>3 DEF Invalid
  <2>2. Working({})'
    BY <1>2, <2>1, NothingDone
  <2> QED BY <2>2 DEF Worked
<1>4. CASE compiler # "lang"
  <2> DEFINE none == <<>>
             top == New(1)
  <2>1. PICK S, e : node' = [Released(S) EXCEPT ![top] = Node("fail", e, e, none)]
    BY <1>4 DEF Invalid
  <2>2. HasRoom(1) /\ result' = <<[p |-> top, as |-> Failing]>> /\ pc' = "result"
    BY <1>4 DEF Invalid
  <2>3. top \in Unused /\ top \in Nodes
    <3>1. 1 \in Nat /\ 1 \in 1..1
      OBVIOUS
    <3> QED BY <2>2, <3>1, NewFacts DEF Unused
  <2>4. none \in Seq(Nodes) /\ (\A i : i \notin 1..Len(none)) /\ Len(none) # 2
    OBVIOUS
  <2>5. none = <<>>
    OBVIOUS
  <2>6. PICK c : c = top
    OBVIOUS
  <2> HIDE DEF none, top
  <2>7. node'[c] = Node("fail", e, e, none)
    <3>1. Released(S) = [n \in Nodes |-> Released(S)[n]]
      BY DEF Released
    <3> QED BY <2>1, <2>3, <2>6, <3>1
  <2>8. node'[c].type = "fail" /\ node'[c].xs = none
    BY <2>4, <2>7, NodeIs
  <2>9. result'[1].p = c /\ result' # <<>>
    <3>1. Len(result') = 1 /\ result'[1].p = top
      BY <2>2, ResultIs
    <3> QED BY <2>6, <3>1
  <2>10. Root' = c
    BY <2>2, <2>9 DEF Root
  <2>11. c \in Kept' \cap Unretained'
    BY <2>2, <2>9, <2>10, RootHeldNext
  <2>12. ~JoinsFirst(c)' /\ ~JoinsLast(c)' /\ ~BeginsNeutral(c)'
    BY <2>8 DEF JoinsFirst, JoinsLast, BeginsNeutral, Joins
  <2>13. \A k : k \notin 1..Len(walk')
    BY <1>2
  <2>14. Working({c})'
    BY <1>2, <2>4, <2>8, <2>10, <2>11, <2>12, <2>13 DEF Working, NothingToDo
  <2> QED BY <2>14 DEF Worked
<1> QED BY <1>3, <1>4

\* The node that is put around a predictive parser.
LEMMA PredictMakes ==
    ASSUME Sound, ReturnResult, predictive
    PROVE  \E top : /\ top \in Unused /\ Root' = top /\ result' # <<>>
                    /\ \A n \in Nodes : n # top => node'[n] = node[n]
                    /\ node'[top].type = "predict" /\ Len(node'[top].xs) = 1
                    /\ node'[top].xs[1] = result[1].p
<1> DEFINE top == New(1)
           old == result[1].p
           xs == <<old>>
<1>1. pc = "result" /\ pc' = "done" /\ HasRoom(1)
  BY DEF ReturnResult
<1>2. PICK e : node' = [node EXCEPT ![top] = Node("predict", e, e, xs)]
  BY DEF ReturnResult
<1>3. PICK as : result' = <<[p |-> top, as |-> as]>>
  BY DEF ReturnResult
<1>4. top \in Unused /\ top \in Nodes
  <2>1. 1 \in Nat /\ 1 \in 1..1
    OBVIOUS
  <2> QED BY <1>1, <2>1, NewFacts DEF Unused
<1>5. old \in Nodes
  BY <1>1, HeldIs DEF Kept, Live
<1>6. xs \in Seq(Nodes) /\ Len(xs) = 1 /\ xs[1] = old
  BY <1>5
<1> HIDE DEF top, xs
<1>7. node'[top] = Node("predict", e, e, xs) /\ \A n \in Nodes : n # top => node'[n] = node[n]
  BY <1>2, <1>4 DEF Sound, Graph, NodesType
<1>8. node'[top].type = "predict" /\ node'[top].xs = xs
  BY <1>6, <1>7, NodeIs
<1>9. Len(result') = 1 /\ result'[1].p = top
  BY <1>3, ResultIs
<1>10. Root' = top /\ result' # <<>>
  BY <1>1, <1>9 DEF Root
<1> HIDE DEF old
<1> QED BY <1>4, <1>6, <1>7, <1>8, <1>10 DEF old

LEMMA ReturnResultWorks == ASSUME Sound, ReturnResult, Worked, Sound' PROVE Worked'
<1>1. /\ pc = "result" /\ walk = <<>> /\ pc' = "done"
      /\ UNCHANGED <<walk, compiler, predictive, known, vals, stmts, left, lost>>
  BY DEF ReturnResult
<1>2. PICK D : Working(D)
  BY <1>1 DEF Worked
<1>3. Len(result) = 1 /\ result # <<>> /\ Root = result[1].p
  <2>1. Len(result) = 1
    BY <1>1, HeldIs
  <2> QED BY <1>1, <2>1 DEF Root
<1>4. /\ D \subseteq Kept \cap Unretained /\ Root \in D
      /\ \A n \in D : NothingToDo(n)
      /\ \A n \in D : \A i \in 1..Len(node[n].xs) : node[n].xs[i] \in D \cup Given
  BY <1>1, <1>2, <1>3 DEF Working
<1>5. \A n \in D : n = Root \/ PartOf(D, n)
  <2>1. \A k : k \notin 1..Len(walk)
    BY <1>1
  <2> QED BY <1>2, <2>1 DEF Working
<1>6. walk' = <<>> /\ \A k : k \notin 1..Len(walk')
  BY <1>1
<1>7. CASE ~predictive
  <2>1. node' = node /\ result' = result
    BY <1>7 DEF ReturnResult
  <2>2. Kept' = Kept /\ Unretained' = Unretained
    BY <1>1, <2>1 DEF Kept, Live, Unretained
  <2>3. Root' = Root
    BY <1>1, <2>1 DEF Root
  <2>4. \A n \in D : NothingToDo(n)'
    BY <1>4, <2>1 DEF NothingToDo, JoinsFirst, JoinsLast, BeginsNeutral, Joins
  <2>5. \A n \in D : n = Root' \/ \E m \in D : \E i \in 1..Len(node'[m].xs) : node'[m].xs[i] = n
    BY <1>5, <2>1, <2>3 DEF PartOf
  <2>6. Working(D)'
    BY <1>4, <1>6, <2>1, <2>2, <2>3, <2>4, <2>5 DEF Working, PartOf
  <2> QED BY <2>6 DEF Worked
<1>8. CASE predictive
  <2>1. PICK top : /\ top \in Unused /\ Root' = top /\ result' # <<>>
                   /\ \A n \in Nodes : n # top => node'[n] = node[n]
                   /\ node'[top].type = "predict" /\ Len(node'[top].xs) = 1
                   /\ node'[top].xs[1] = result[1].p
    BY <1>8, PredictMakes
  <2> DEFINE E == D \cup {top}
  <2>2. top \in Kept' \cap Unretained'
    BY <1>1, <2>1, RootHeldNext
  <2>3. top \notin Kept /\ top \notin Given /\ Kept \subseteq Nodes
    <3>1. Given \subseteq Live
      BY DEF Sound, Graph, NodesType, Given
    <3> QED BY <2>1, <3>1 DEF Unused, Kept, Live
  <2>4. \A n \in D : n \in Nodes /\ n # top /\ node'[n] = node[n] /\ IsNode(node[n])
    BY <1>4, <2>1, <2>3 DEF Sound, Graph, NodesType
  <2>5. D \subseteq Kept' \cap Unretained'
    <3> SUFFICES ASSUME NEW n \in D PROVE n \in Kept' \cap Unretained'
      OBVIOUS
    <3>1. n \in Kept /\ n \in Unretained /\ node'[n] = node[n] /\ lost' = lost
      BY <1>1, <1>4, <2>4
    <3> QED BY <3>1 DEF Kept, Unretained, Live
  <2>6. ASSUME NEW n \in D PROVE NothingToDo(n)'
    <3>1. \A i \in 1..Len(node[n].xs) : node[n].xs[i] \in Kept
      BY <1>4 DEF Sound, Graph, Targets
    <3>2. \A i \in 1..Len(node[n].xs) : node'[node[n].xs[i]] = node[node[n].xs[i]]
      BY <2>1, <2>3, <3>1
    <3> QED BY <1>4, <2>4, <3>2, DoneStays
  <2>7. NothingToDo(top)'
    <3>1. ~JoinsFirst(top)' /\ ~JoinsLast(top)' /\ ~BeginsNeutral(top)'
      BY <2>1 DEF JoinsFirst, JoinsLast, BeginsNeutral, Joins
    <3> QED BY <3>1 DEF NothingToDo
  <2>8. 1..Len(node'[top].xs) = {1} /\ node'[top].xs[1] = Root
    BY <1>3, <2>1
  <2>9. \A n \in E : \A i \in 1..Len(node'[n].xs) : node'[n].xs[i] \in E \cup Given
    BY <1>4, <2>4, <2>8
  <2>10. \A n \in E : n = Root' \/ \E m \in E : \E i \in 1..Len(node'[m].xs) : node'[m].xs[i] = n
    BY <1>5, <2>1, <2>4, <2>8 DEF PartOf
  <2>11. E \subseteq Kept' \cap Unretained' /\ (\A n \in E : NothingToDo(n)') /\ Root' \in E
    BY <2>1, <2>2, <2>5, <2>6, <2>7
  <2> HIDE DEF E
  <2>12. Working(E)'
    BY <1>6, <2>9, <2>10, <2>11 DEF Working, PartOf
  <2> QED BY <2>12 DEF Worked
<1> QED BY <1>7, <1>8

LEMMA WalkStarts ==
    ASSUME Sound', walk' = <<[p |-> Root', parts |-> node'[Root'].xs]>>, Root' \in Kept'
    PROVE  Worked'
<1>1. PICK n : n = Root'
  OBVIOUS
<1>2. walk' = <<[p |-> n, parts |-> node'[n].xs]>> /\ n \in Kept'
  BY <1>1
<1>3. walk' # <<>>
  BY <1>2
<1>4. Working({})'
  BY <1>2, <1>3, NothingDone
<1> QED BY <1>4 DEF Worked

LEMMA CompileWorks == ASSUME Sound, Compile, Sound' PROVE Worked'
<1>1. CASE Invalid
  BY <1>1, InvalidWorks
<1>2. CASE TextEnds
  BY <1>2, TextEndsStarts, WalkStarts
<1>3. ASSUME pc' \notin {"define", "result", "done"} PROVE Worked'
  BY <1>3 DEF Worked
<1>4. CASE Text /\ pc' = pc
  BY <1>3, <1>4 DEF Text
<1>5. CASE RulesRead
  <2>1. pc' = "apply"
    BY <1>5 DEF RulesRead
  <2> QED BY <1>3, <2>1
<1>6. ASSUME NEW c \in Chars, Literal(c) PROVE Text /\ pc' = pc
  BY <1>6 DEF Literal, Same
<1>7. ASSUME NEW x \in Idents, ByName(x) PROVE Text /\ pc' = pc
  BY <1>7 DEF ByName, Reference, Same
<1>8. ASSUME NEW i \in Numbers, ByNumber(i) PROVE Text /\ pc' = pc
  BY <1>8 DEF ByNumber, Reference, Same
<1>9. ASSUME Plain \/ LastTerm PROVE Text /\ pc' = pc
  BY <1>9 DEF Plain, LastTerm, Same
<1>10. ASSUME NEW suffix \in Quantified, Repeat(suffix) PROVE Text /\ pc' = pc
  BY <1>10 DEF Repeat, Repeated, Same
<1>11. ASSUME NEW n \in Counts, Braces(n) PROVE Text /\ pc' = pc
  BY <1>11 DEF Braces, Repeated, Same
<1>12. ASSUME NEW k \in 0..Len(vals), Sequence(k) PROVE Text /\ pc' = pc
  BY <1>12 DEF Sequence, Same
<1>13. ASSUME Alternative PROVE Text /\ pc' = pc
  BY <1>13 DEF Alternative, Same
<1>14. ASSUME NEW x \in Idents, NEW named \in BOOLEAN, Rule(x, named) PROVE Text /\ pc' = pc
  BY <1>14 DEF Rule, Same
<1>15. ASSUME NEW c \in Chars, NEW d \in Chars, EndOfInput(c, d) PROVE Text /\ pc' = pc
  BY <1>15 DEF EndOfInput, Same
<1> QED BY <1>1, <1>2, <1>4, <1>5, <1>6, <1>7, <1>8, <1>9, <1>10, <1>11, <1>12, <1>13, <1>14,
           <1>15
        DEF Compile

LEMMA OptimiserWorks == ASSUME Sound, Path, Worked, OptimiserRuns PROVE Worked'
<1>1. UNCHANGED <<compiler, predictive, pc, known, vals, stmts, left, result, rules, lost>>
  BY DEF OptimiserRuns
<1>2. walk # <<>>
  BY DEF OptimiserRuns, OptimiseStep, VisitPart, MergeLast, MergeFirst, RemoveNeutral, Return, Rewriting
<1>3. PICK D : Working(D)
  BY <1>2, CallerIs DEF Worked
<1>4. ASSUME NEW E, Working(E)' PROVE Worked'
  BY <1>4 DEF Worked
<1>5. ASSUME NEW gone, Rewritten(gone) PROVE Worked'
  BY <1>3, <1>4, <1>5, RewrittenWorks
<1>6. CASE VisitPart
  BY <1>1, <1>3, <1>4, <1>6, VisitWorks
<1>7. CASE MergeLast
  BY <1>1, <1>5, <1>7, MergeLastRewrites
<1>8. CASE MergeFirst
  BY <1>1, <1>5, <1>8, MergeFirstRewrites
<1>9. CASE RemoveNeutral
  BY <1>1, <1>5, <1>9, RemoveNeutralRewrites
<1>10. CASE Return
  <2>1. PICK c : c = Caller.p
    OBVIOUS
  <2>2. Working(D \cup {c})'
    BY <1>1, <1>3, <1>10, <2>1, ReturnWorks
  <2> QED BY <1>4, <2>2
<1> QED BY <1>6, <1>7, <1>8, <1>9, <1>10 DEF OptimiserRuns, OptimiseStep

LEMMA NextWorks == ASSUME Sound, Path, Worked, Next PROVE Worked'
<1>1. Sound'
  BY NextKeeps
<1>2. CASE Compile
  BY <1>1, <1>2, CompileWorks
<1>3. CASE ReturnResult
  BY <1>1, <1>3, ReturnResultWorks
<1>4. CASE ApplyRule
  BY <1>1, <1>4, ApplyRuleStarts, WalkStarts
<1>5. CASE DefineRule
  <2>1. pc' = "apply"
    BY <1>5 DEF DefineRule
  <2> QED BY <2>1 DEF Worked
<1>6. CASE AllDefined
  <2>1. pc' = "done" /\ walk' = walk /\ result' = result /\ pc = "apply"
    BY <1>6 DEF AllDefined
  <2>2. walk = <<>> /\ result = <<>>
    BY <2>1 DEF Sound, Roots, Phases
  <2>3. Working({})'
    BY <1>1, <2>1, <2>2, NothingDone
  <2> QED BY <2>3 DEF Worked
<1>7. CASE OptimiserRuns
  BY <1>7, OptimiserWorks
<1> QED BY <1>2, <1>3, <1>4, <1>5, <1>6, <1>7 DEF Next, Finish

LEMMA VarsWorked == ASSUME Worked, UNCHANGED vars PROVE Worked'
<1> SUFFICES ASSUME pc \in {"define", "result", "done"} PROVE Worked'
  BY DEF Worked, vars
<1>1. PICK D : Working(D)
  BY DEF Worked
<1>2. UNCHANGED <<node, walk, pc, result, stmts, lost>>
  BY DEF vars
<1>3. Kept' = Kept /\ Unretained' = Unretained /\ Root' = Root
  BY <1>2 DEF Kept, Live, Unretained, Root
<1>4. \A n \in D : NothingToDo(n)'
  BY <1>1, <1>2 DEF Working, NothingToDo, JoinsFirst, JoinsLast, BeginsNeutral, Joins
<1>5. Working(D)'
  BY <1>1, <1>2, <1>3, <1>4, SMTT(20), ZenonT(40) DEF Working, PartOf, Seen
<1> QED BY <1>5 DEF Worked

LEMMA NothingLeftIf == Sound /\ Path /\ Worked => NothingLeftToMerge
<1> SUFFICES ASSUME Sound, Path, Worked, walk = <<>>
             PROVE  /\ pc \in {"result", "done"} => \A i \in 1..Len(result) : Merged(result[i].p)
                    /\ pc = "define" => Merged(Head(stmts).p)
  BY DEF NothingLeftToMerge
<1>1. ASSUME pc = "define" \/ (pc \in {"result", "done"} /\ result # <<>>) PROVE Merged(Root)
  <2>1. PICK D : Working(D)
    BY <1>1 DEF Worked
  <2>2. /\ Root \in D /\ \A n \in D : NothingToDo(n)
        /\ \A n \in D : \A i \in 1..Len(node[n].xs) : node[n].xs[i] \in D \cup Given
    BY <1>1, <2>1 DEF Working
  <2>3. \A n \in Unretained : n \notin Given /\ n \in Nodes
    BY RetainedAre DEF Unretained, Live, Sound, Graph
  <2>4. \A n \in D \cap Unretained : PartsOf(n) \cap Unretained \subseteq D
    <3> SUFFICES ASSUME NEW n \in D \cap Unretained, NEW m \in PartsOf(n) \cap Unretained PROVE m \in D
      OBVIOUS
    <3>1. IsNode(node[n])
      BY <2>3 DEF Sound, Graph, NodesType
    <3>2. DOMAIN node[n].xs = 1..Len(node[n].xs)
      BY <3>1 DEF IsNode
    <3>3. PICK i \in 1..Len(node[n].xs) : m = node[n].xs[i]
      BY <3>2, PartsAre
    <3> QED BY <2>2, <2>3, <3>3
  <2>5. {Root} \cap Unretained \subseteq D
    BY <2>2
  <2>6. Trees({Root}) \subseteq D
    <3> DEFINE S == {Root}
    <3> HIDE DEF S
    <3>1. S \cap Unretained \subseteq D
      BY <2>5 DEF S
    <3>2. Trees(S) \subseteq D
      BY <2>4, <3>1, TreesLeast
    <3> QED BY <3>2 DEF S
  <2> QED BY <2>2, <2>6 DEF Merged
<1>2. ASSUME pc \in {"result", "done"}, NEW i \in 1..Len(result) PROVE Merged(result[i].p)
  <2>1. PICK S : result \in Seq(S)
    BY DEF Sound, Roots, RootsType
  <2>2. Len(result) \in Nat /\ Len(result) <= 1
    BY <1>2, <2>1 DEF Sound, Roots, Phases
  <2>3. i = 1 /\ Len(result) # 0
    BY <2>2
  <2>4. result # <<>>
    BY <2>1, <2>3, EmptySeq
  <2>5. Root = result[i].p
    BY <1>2, <2>3 DEF Root
  <2> QED BY <1>1, <1>2, <2>4, <2>5
<1>3. ASSUME pc = "define" PROVE Merged(Head(stmts).p)
  <2>1. stmts # <<>> /\ \E S : stmts \in Seq(S)
    BY <1>3 DEF Sound, Roots, Phases, RootsType
  <2>2. Head(stmts) = stmts[1]
    BY <2>1
  <2>3. Root = Head(stmts).p
    BY <1>3, <2>2 DEF Root
  <2> QED BY <1>1, <1>3, <2>3
<1> QED BY <1>2, <1>3

\* What the compilers return or put into an argument has been optimised throughout: the
\* optimiser visits each part, rewrites until there is nothing to do, and what it rewrites
\* later undoes nothing that it did.
THEOREM NothingIsLeftToMerge == Spec => []NothingLeftToMerge
<1>1. Init => Sound /\ Path /\ Worked
  <2>1. Init => pc = "text"
    BY DEF Init
  <2> QED BY <2>1, InitSound DEF Worked
<1>2. Sound /\ Path /\ Worked /\ [Next]_vars => (Sound /\ Path /\ Worked)'
  <2>1. ASSUME Sound, Path, Worked, UNCHANGED vars PROVE Sound' /\ Path' /\ Worked'
    BY <2>1, VarsStay, VarsWorked
  <2> QED BY <2>1, NextKeeps, NextWorks
<1>3. Sound /\ Path /\ Worked => NothingLeftToMerge
  BY NothingLeftIf
<1> QED BY <1>1, <1>2, <1>3, PTL DEF Spec
=============================================================================
