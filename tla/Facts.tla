-------------------------------- MODULE Facts --------------------------------
(* What the other proof modules need to know of numbers and of sequences. *)
EXTENDS Integers, Sequences, SequencesExt, SequenceTheorems, WellFoundedInduction, TLAPS

----------------------------------------------------------------------------
(* The least-number principle for sets of naturals, and its mirror image for *)
(* bounded sets.  They stand in for induction.                               *)

\* A non-empty set of naturals has a least element.
LEMMA LeastNatural ==
    ASSUME NEW T \in SUBSET Nat, T # {}
    PROVE  \E x \in T : \A y \in T : x <= y
<1> DEFINE R == {ss \in Nat \X Nat : ss[1] < ss[2]}
<1>1. IsWellFoundedOn(R, Nat)
  BY NatLessThanWellFounded DEF OpToRel
<1>2. PICK x \in T : \A y \in T : ~ (<<y, x>> \in R)
  <2> HIDE DEF R
  <2> QED BY <1>1, WFMin
<1>3. ASSUME NEW y \in T PROVE x <= y
  <2>1. <<y, x>> \in Nat \X Nat
    OBVIOUS
  <2>2. ~(y < x)
    BY <1>2, <2>1
  <2> QED BY <2>2
<1> QED BY <1>3

\* A non-empty set of naturals with an upper bound has a greatest element.
LEMMA GreatestNatural ==
    ASSUME NEW T \in SUBSET Nat, T # {}, NEW n \in Nat, \A y \in T : y <= n
    PROVE  \E x \in T : \A y \in T : y <= x
<1> DEFINE U == {n - y : y \in T}
<1>1. \A u \in U : u \in Nat
  OBVIOUS
<1>2. U \in SUBSET Nat /\ U # {}
  BY <1>1
<1>3. PICK u \in U : \A v \in U : u <= v
  <2> HIDE DEF U
  <2> QED BY <1>2, LeastNatural
<1>4. PICK x \in T : u = n - x
  OBVIOUS
<1>5. ASSUME NEW y \in T PROVE y <= x
  <2>1. n - x <= n - y
    BY <1>3, <1>4
  <2> QED BY <2>1
<1> QED BY <1>5

----------------------------------------------------------------------------
(* Sequences used as stacks *)

\* A sequence without its last element.
LEMMA FrontFacts ==
    ASSUME NEW S, NEW s \in Seq(S), s # <<>>
    PROVE  /\ Len(s) \in Nat \ {0} /\ s[Len(s)] \in S
           /\ SubSeq(s, 1, Len(s) - 1) \in Seq(S)
           /\ Len(SubSeq(s, 1, Len(s) - 1)) = Len(s) - 1
           /\ \A k \in 1..(Len(s) - 1) : SubSeq(s, 1, Len(s) - 1)[k] = s[k]
<1>1. Len(s) \in Nat \ {0} /\ \A k \in 1..(Len(s) - 1) : s[k] \in S
  OBVIOUS
<1> DEFINE t == SubSeq(s, 1, Len(s) - 1)
<1>2. /\ t \in Seq(S)
      /\ Len(t) = IF 1 <= Len(s) - 1 THEN Len(s) - 1 - 1 + 1 ELSE 0
      /\ \A k \in 1..(Len(s) - 1 - 1 + 1) : t[k] = s[1 + k - 1]
  BY <1>1, SubSeqProperties
<1> HIDE DEF t
<1>3. PICK n \in Nat : n = Len(s) /\ n >= 1
  BY <1>1
<1>4. Len(t) = Len(s) - 1
  <2>1. IF 1 <= n - 1 THEN n - 1 - 1 + 1 = n - 1 ELSE n - 1 = 0
    BY <1>3
  <2> QED BY <1>2, <1>3, <2>1
<1>5. \A k \in 1..(Len(s) - 1) : t[k] = s[k]
  <2>1. \A k \in 1..(n - 1) : k \in 1..(n - 1 - 1 + 1) /\ 1 + k - 1 = k
    BY <1>3
  <2> QED BY <1>2, <1>3, <2>1
<1> QED BY <1>1, <1>2, <1>4, <1>5 DEF t

\* The elements from m + 1 to n.
LEMMA StretchFacts ==
    ASSUME NEW S, NEW s \in Seq(S), NEW m \in Nat, NEW n \in Nat, m <= n, n <= Len(s)
    PROVE  /\ SubSeq(s, m + 1, n) \in Seq(S) /\ Len(SubSeq(s, m + 1, n)) = n - m
           /\ \A k \in 1..(n - m) : SubSeq(s, m + 1, n)[k] = s[m + k]
<1> DEFINE t == SubSeq(s, m + 1, n)
<1>1. \A k \in (m + 1)..n : s[k] \in S
  OBVIOUS
<1>2. /\ t \in Seq(S) /\ Len(t) = IF m + 1 <= n THEN n - (m + 1) + 1 ELSE 0
      /\ \A k \in 1..(n - (m + 1) + 1) : t[k] = s[m + 1 + k - 1]
  BY <1>1, SubSeqProperties
<1> HIDE DEF t
<1>3. Len(t) = n - m
  <2>1. n - (m + 1) + 1 = n - m /\ (m + 1 <= n \/ n - m = 0)
    OBVIOUS
  <2> QED BY <1>2, <2>1
<1>4. ASSUME NEW k \in 1..(n - m) PROVE t[k] = s[m + k]
  <2>1. k \in 1..(n - (m + 1) + 1) /\ m + 1 + k - 1 = m + k
    OBVIOUS
  <2>2. t[k] = s[m + 1 + k - 1]
    BY <1>2, <2>1
  <2> QED BY <2>1, <2>2
<1> QED BY <1>2, <1>3, <1>4 DEF t

\* A stretch that grows by one element.
LEMMA GrownFacts ==
    ASSUME NEW S, NEW s \in Seq(S), NEW m \in Nat, NEW n \in Nat, m <= n, n < Len(s)
    PROVE  SubSeq(s, m + 1, n + 1) = Append(SubSeq(s, m + 1, n), s[n + 1])
<1> DEFINE t == SubSeq(s, m + 1, n + 1)
           u == SubSeq(s, m + 1, n)
<1>1. Len(s) \in Nat /\ n + 1 \in 1..Len(s)
  OBVIOUS
<1>2. t \in Seq(S) /\ Len(t) = n + 1 - m /\ \A k \in 1..(n + 1 - m) : t[k] = s[m + k]
  BY <1>1, StretchFacts
<1>3. u \in Seq(S) /\ Len(u) = n - m /\ \A k \in 1..(n - m) : u[k] = s[m + k]
  BY <1>1, StretchFacts
<1> HIDE DEF t, u
<1> DEFINE v == Append(u, s[n + 1])
<1>4. /\ v \in Seq(S) /\ Len(v) = n - m + 1 /\ v[n - m + 1] = s[n + 1]
      /\ \A k \in 1..(n - m) : v[k] = u[k]
  <2>1. s[n + 1] \in S
    BY <1>1
  <2> QED BY <1>3, <2>1
<1> HIDE DEF v
<1>5. t[n - m + 1] = s[n + 1]
  <2>1. n - m + 1 \in 1..(n + 1 - m) /\ m + (n - m + 1) = n + 1
    OBVIOUS
  <2>2. t[n - m + 1] = s[m + (n - m + 1)]
    BY <1>2, <2>1
  <2> QED BY <2>1, <2>2
<1>6. ASSUME NEW k \in 1..(n + 1 - m) PROVE t[k] = v[k]
  <2>1. CASE k \in 1..(n - m)
    BY <1>2, <1>3, <1>4, <2>1
  <2>2. CASE k = n - m + 1
    BY <1>4, <1>5, <2>2
  <2> QED BY <2>1, <2>2
<1>7. Len(t) = Len(v)
  BY <1>2, <1>4
<1>8. t = v
  BY <1>2, <1>4, <1>6, <1>7, SeqEqual
<1> QED BY <1>8 DEF t, u, v

----------------------------------------------------------------------------
(* FlattenSeq *)

\* f joins the sequences of seqs from the first on.
IsJoin(f, seqs) ==
    f = [i \in 1..Len(seqs) |-> IF i = 1 THEN seqs[i] ELSE f[i - 1] \o seqs[i]]

\* Such an f exists for the first m of n sequences: there is no least m for which it
\* does not.
LEMMA JoinExists ==
    ASSUME NEW seqs, NEW n \in Nat
    PROVE  \E f : f = [i \in 1..n |-> IF i = 1 THEN seqs[i] ELSE f[i - 1] \o seqs[i]]
<1> DEFINE Ok(f, m) == f = [i \in 1..m |-> IF i = 1 THEN seqs[i] ELSE f[i - 1] \o seqs[i]]
           Bad == {m \in Nat : ~\E f : Ok(f, m)}
<1>1. SUFFICES Bad = {}
  BY <1>1
<1>2. SUFFICES ASSUME Bad # {} PROVE FALSE
  OBVIOUS
<1>3. PICK m \in Bad : \A k \in Bad : m <= k
  <2>1. Bad \in SUBSET Nat
    OBVIOUS
  <2> HIDE DEF Bad
  <2> QED BY <1>2, <2>1, LeastNatural
<1>4. m # 0
  <2>1. Ok([i \in 1..0 |-> seqs[1]], 0)
    OBVIOUS
  <2> HIDE DEF Ok
  <2> QED BY <2>1
<1>5. PICK f : Ok(f, m - 1)
  <2>1. m - 1 \in Nat /\ ~(m <= m - 1)
    BY <1>4
  <2>2. m - 1 \notin Bad
    BY <1>3, <2>1
  <2> HIDE DEF Ok
  <2> QED BY <2>1, <2>2
<1> DEFINE join == IF m = 1 THEN seqs[m] ELSE f[m - 1] \o seqs[m]
           g == [i \in 1..m |-> IF i = m THEN join ELSE f[i]]
<1>6. \A i \in 1..m : g[i] = IF i = 1 THEN seqs[i] ELSE g[i - 1] \o seqs[i]
  <2> SUFFICES ASSUME NEW i \in 1..m
               PROVE  g[i] = IF i = 1 THEN seqs[i] ELSE g[i - 1] \o seqs[i]
    OBVIOUS
  <2>1. i # 1 => i - 1 \in 1..(m - 1) /\ i - 1 # m
    OBVIOUS
  <2>2. i # 1 => g[i - 1] = f[i - 1]
    BY <2>1
  <2>3. CASE i = m
    <3>1. g[i] = join
      BY <2>3
    <3> HIDE DEF g
    <3> QED BY <2>2, <2>3, <3>1
  <2>4. CASE i # m
    <3>1. i \in 1..(m - 1)
      BY <2>4
    <3>2. f[i] = IF i = 1 THEN seqs[i] ELSE f[i - 1] \o seqs[i]
      BY <1>5, <3>1
    <3>3. g[i] = f[i]
      BY <2>4
    <3> HIDE DEF g
    <3> QED BY <2>2, <3>2, <3>3
  <2> QED BY <2>3, <2>4
<1>7. g = [i \in 1..m |-> g[i]]
  OBVIOUS
<1>8. Ok(g, m)
  <2> HIDE DEF g
  <2> QED BY <1>6, <1>7
<1> HIDE DEF Ok
<1> QED BY <1>3, <1>8

\* FlattenSeq is the last of the joins.
LEMMA FlattenIsJoin ==
    ASSUME NEW seqs, Len(seqs) \in Nat \ {0}
    PROVE  \E f : IsJoin(f, seqs) /\ FlattenSeq(seqs) = f[Len(seqs)]
<1> DEFINE f == CHOOSE f : IsJoin(f, seqs)
<1>1. IsJoin(f, seqs)
  <2>1. \E g : IsJoin(g, seqs)
    BY JoinExists DEF IsJoin
  <2> QED BY <2>1
<1>2. FlattenSeq(seqs) = f[Len(seqs)]
  BY DEF FlattenSeq, IsJoin
<1> HIDE DEF f
<1> QED BY <1>1, <1>2

\* Two sequences, and three.
LEMMA FlattenTwo ==
    ASSUME NEW x, NEW y
    PROVE  FlattenSeq(<<x, y>>) = x \o y
<1> DEFINE s == <<x, y>>
<1>1. Len(s) = 2 /\ s[1] = x /\ s[2] = y
  OBVIOUS
<1> HIDE DEF s
<1>2. Len(s) \in Nat \ {0}
  BY <1>1
<1>3. PICK f : IsJoin(f, s) /\ FlattenSeq(s) = f[Len(s)]
  BY <1>2, FlattenIsJoin
<1>4. \A i \in 1..2 : f[i] = IF i = 1 THEN s[i] ELSE f[i - 1] \o s[i]
  BY <1>1, <1>3 DEF IsJoin
<1>5. f[1] = x /\ f[2] = f[1] \o y
  BY <1>1, <1>4
<1> QED BY <1>1, <1>3, <1>5 DEF s

Both(x, y) == x \o y

LEMMA FlattenThree ==
    ASSUME NEW x, NEW y, NEW z
    PROVE  FlattenSeq(<<x, y, z>>) = Both(Both(x, y), z)
<1> DEFINE s == <<x, y, z>>
<1>1. Len(s) = 3 /\ s[1] = x /\ s[2] = y /\ s[3] = z
  OBVIOUS
<1> HIDE DEF s
<1>2. Len(s) \in Nat \ {0}
  BY <1>1
<1>3. PICK f : IsJoin(f, s) /\ FlattenSeq(s) = f[Len(s)]
  BY <1>2, FlattenIsJoin
<1>4. \A i \in 1..3 : f[i] = IF i = 1 THEN s[i] ELSE f[i - 1] \o s[i]
  BY <1>1, <1>3 DEF IsJoin
<1>5. f[1] = x /\ f[2] = f[1] \o y /\ f[3] = f[2] \o z
  BY <1>1, <1>4
<1> QED BY <1>1, <1>3, <1>5 DEF s, Both

\* The elements of the whole are those of its parts, and it has as many as it has parts
\* when each part has one.
LEMMA FlattenType ==
    ASSUME NEW S, NEW seqs \in Seq(Seq(S))
    PROVE  /\ FlattenSeq(seqs) \in Seq(S)
           /\ (\A i \in 1..Len(seqs) : Len(seqs[i]) = 1) => Len(FlattenSeq(seqs)) = Len(seqs)
<1> DEFINE n == Len(seqs)
           single == \A i \in 1..n : Len(seqs[i]) = 1
<1>1. CASE n = 0
  <2>1. seqs = <<>> /\ FlattenSeq(seqs) = seqs
    BY <1>1 DEF FlattenSeq
  <2>2. <<>> \in Seq(S) /\ Len(<<>>) = 0
    OBVIOUS
  <2> QED BY <1>1, <2>1, <2>2
<1>2. CASE n # 0
  <2>1. n \in Nat \ {0} /\ \A i \in 1..n : seqs[i] \in Seq(S)
    BY <1>2
  <2>2. PICK f : IsJoin(f, seqs) /\ FlattenSeq(seqs) = f[n]
    BY <2>1, FlattenIsJoin
  <2> DEFINE Good(m) == f[m] \in Seq(S) /\ (single => Len(f[m]) = m)
             Bad == {m \in 1..n : ~Good(m)}
  <2>3. SUFFICES Bad = {}
    <3>1. n \in 1..n
      BY <2>1
    <3> QED BY <2>2, <2>3, <3>1
  <2>4. SUFFICES ASSUME Bad # {} PROVE FALSE
    OBVIOUS
  <2>5. PICK m \in Bad : \A k \in Bad : m <= k
    <3>1. Bad \in SUBSET Nat
      OBVIOUS
    <3> HIDE DEF Bad
    <3> QED BY <2>4, <3>1, LeastNatural
  <2>6. m \in 1..n /\ ~Good(m)
    OBVIOUS
  <2>7. f[m] = IF m = 1 THEN seqs[m] ELSE f[m - 1] \o seqs[m]
    BY <2>2, <2>6 DEF IsJoin
  <2>8. m # 1 => Good(m - 1)
    <3>1. SUFFICES ASSUME m # 1 PROVE m - 1 \notin Bad /\ m - 1 \in 1..n
      OBVIOUS
    <3>2. m - 1 \in 1..n /\ ~(m <= m - 1)
      BY <2>1, <2>6, <3>1
    <3> HIDE DEF Bad
    <3> QED BY <2>5, <3>2
  <2>9. CASE m = 1
    BY <2>1, <2>6, <2>7, <2>9
  <2>10. CASE m # 1
    <3>1. f[m - 1] \in Seq(S) /\ seqs[m] \in Seq(S) /\ f[m] = f[m - 1] \o seqs[m]
      BY <2>1, <2>6, <2>7, <2>8, <2>10
    <3>2. f[m] \in Seq(S) /\ Len(f[m]) = Len(f[m - 1]) + Len(seqs[m])
      BY <3>1, ConcatProperties
    <3>3. single => Len(f[m - 1]) = m - 1 /\ Len(seqs[m]) = 1
      BY <2>6, <2>8, <2>10
    <3>4. ASSUME single PROVE Len(f[m]) = m
      <4>1. m \in Int /\ Len(f[m - 1]) = m - 1 /\ Len(seqs[m]) = 1
        BY <2>6, <3>3, <3>4
      <4> QED BY <3>2, <4>1
    <3>5. Good(m)
      BY <3>2, <3>4
    <3> QED BY <2>6, <3>5
  <2> QED BY <2>9, <2>10
<1> QED BY <1>1, <1>2

\* Of parts that have one element each, these elements.
LEMMA FlattenOnes ==
    ASSUME NEW S, NEW seqs \in Seq(Seq(S)), \A i \in 1..Len(seqs) : Len(seqs[i]) = 1
    PROVE  FlattenSeq(seqs) = [i \in 1..Len(seqs) |-> seqs[i][1]]
<1> DEFINE n == Len(seqs)
           ones == [i \in 1..n |-> seqs[i][1]]
<1>1. n \in Nat /\ \A i \in 1..n : seqs[i] \in Seq(S) /\ Len(seqs[i]) = 1 /\ seqs[i][1] \in S
  OBVIOUS
<1>2. ones \in Seq(S) /\ Len(ones) = n /\ \A i \in 1..n : ones[i] = seqs[i][1]
  BY <1>1
<1> HIDE DEF ones
<1>3. FlattenSeq(seqs) \in Seq(S) /\ Len(FlattenSeq(seqs)) = n
  BY FlattenType
<1>4. CASE n = 0
  <2>1. \A i \in 1..n : FlattenSeq(seqs)[i] = ones[i]
    BY <1>4
  <2> QED BY <1>2, <1>3, <2>1, SeqEqual DEF ones
<1>5. CASE n # 0
  <2>1. n \in Nat \ {0} /\ n \in 1..n
    BY <1>1, <1>5
  <2>2. PICK f : IsJoin(f, seqs) /\ FlattenSeq(seqs) = f[n]
    BY <2>1, FlattenIsJoin
  <2> DEFINE Good(m) == /\ f[m] \in Seq(S) /\ Len(f[m]) = m
                        /\ \A i \in 1..m : f[m][i] = seqs[i][1]
             Bad == {m \in 1..n : ~Good(m)}
  <2>3. SUFFICES Bad = {}
    <3>1. Good(n)
      BY <2>1
    <3>2. \A i \in 1..n : FlattenSeq(seqs)[i] = ones[i]
      BY <1>2, <2>2, <3>1
    <3> QED BY <1>2, <1>3, <3>2, SeqEqual DEF ones
  <2>4. SUFFICES ASSUME Bad # {} PROVE FALSE
    OBVIOUS
  <2>5. PICK m \in Bad : \A k \in Bad : m <= k
    <3>1. Bad \in SUBSET Nat
      OBVIOUS
    <3> HIDE DEF Bad
    <3> QED BY <2>4, <3>1, LeastNatural
  <2>6. m \in 1..n /\ ~Good(m)
    OBVIOUS
  <2>7. f[m] = IF m = 1 THEN seqs[m] ELSE f[m - 1] \o seqs[m]
    BY <2>2, <2>6 DEF IsJoin
  <2>8. CASE m = 1
    <3>1. f[m] = seqs[m] /\ \A i \in 1..m : i = m
      BY <2>7, <2>8
    <3>2. Good(m)
      BY <1>1, <2>6, <2>8, <3>1
    <3> QED BY <2>6, <3>2
  <2>9. CASE m # 1
    <3>1. m - 1 \in 1..n /\ ~(m <= m - 1)
      BY <2>1, <2>6, <2>9
    <3>2. m - 1 \notin Bad
      BY <2>5, <3>1
    <3>3. Good(m - 1)
      BY <3>1, <3>2
    <3> DEFINE h == f[m - 1]
               g == h \o seqs[m]
    <3>4. seqs[m] \in Seq(S) /\ Len(seqs[m]) = 1 /\ m \in Nat
      BY <1>1, <2>6
    <3>9. f[m] = g
      BY <2>7, <2>9
    <3>5. h \in Seq(S) /\ Len(h) = m - 1 /\ \A i \in 1..(m - 1) : h[i] = seqs[i][1]
      BY <3>3
    <3> HIDE DEF h, Good
    <3>6. /\ g \in Seq(S) /\ Len(g) = m
          /\ \A i \in 1..m : g[i] = IF i <= m - 1 THEN h[i] ELSE seqs[m][i - (m - 1)]
      <4> DEFINE e == seqs[m]
      <4>1. e \in Seq(S) /\ Len(e) = 1
        BY <3>4
      <4>2. Len(h) + Len(e) = m
        BY <3>4, <3>5, <4>1
      <4> HIDE DEF e
      <4>3. /\ g \in Seq(S) /\ Len(g) = Len(h) + Len(e)
            /\ \A i \in 1..(Len(h) + Len(e)) :
                  g[i] = IF i <= Len(h) THEN h[i] ELSE e[i - Len(h)]
        BY <3>5, <4>1, ConcatProperties DEF e
      <4> QED BY <3>5, <4>2, <4>3 DEF e
    <3> HIDE DEF g
    <3>7. ASSUME NEW i \in 1..m PROVE g[i] = seqs[i][1]
      <4>1. CASE i \in 1..(m - 1)
        <5>1. i \in 1..m /\ i <= m - 1
          BY <3>4, <4>1
        <5>2. g[i] = h[i]
          BY <3>6, <5>1
        <5> QED BY <3>5, <4>1, <5>2
      <4>2. CASE i = m
        <5>1. i \in 1..m /\ ~(i <= m - 1) /\ i - (m - 1) = 1
          BY <3>4, <4>2
        <5> QED BY <3>6, <4>2, <5>1
      <4> QED BY <3>4, <4>1, <4>2
    <3>8. Good(m)
      BY <3>4, <3>6, <3>7, <3>9 DEF Good
    <3> QED BY <2>6, <3>8
  <2> QED BY <2>8, <2>9
<1> QED BY <1>4, <1>5
=============================================================================
