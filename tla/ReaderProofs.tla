---------------------------- MODULE ReaderProofs ----------------------------
(* Proofs about Reader and ReadRules, for any programs. *)
EXTENDS ReadRules, Facts

----------------------------------------------------------------------------
(* Trees *)

\* A node that has its three fields.
Node(tag, contents, children) == [tag |-> tag, contents |-> contents, children |-> children]

IsTag(tag) == tag # <<>> /\ \E S : tag \in Seq(S)

IsNode(a) == a = Node(a.tag, a.contents, a.children) /\ IsTag(a.tag)

\* A tree that lends at most one child when it is folded into another.
Whole(a) == IsNode(a) /\ Len(a.children) \in {0, 1}

LEMMA TupleFacts ==
    /\ \A s : s = [i \in 1..2 |-> s[i]] => s = <<s[1], s[2]>>
    /\ \A s : s = [i \in 1..3 |-> s[i]] => s = <<s[1], s[2], s[3]>>
OBVIOUS

LEMMA TagFacts ==
    /\ \A x : IsTag(<<x>>)
    /\ \A x, tag : IsTag(tag) => IsTag(<<x>> \o tag)
<1>1. ASSUME NEW x PROVE IsTag(<<x>>)
  <2>1. <<x>> # <<>> /\ <<x>> \in Seq({x})
    OBVIOUS
  <2> QED BY <2>1 DEF IsTag
<1>2. ASSUME NEW x, NEW tag, IsTag(tag) PROVE IsTag(<<x>> \o tag)
  <2>1. PICK S : tag \in Seq(S)
    BY <1>2 DEF IsTag
  <2>2. tag \in Seq(S \cup {x}) /\ <<x>> \in Seq(S \cup {x})
    BY <2>1, SeqMonotonic
  <2>3. <<x>> \o tag \in Seq(S \cup {x}) /\ Len(<<x>> \o tag) = 1 + Len(tag)
        /\ Len(tag) \in Nat
    BY <2>2, ConcatProperties
  <2>4. <<x>> \o tag # <<>>
    BY <2>3
  <2> QED BY <2>3, <2>4 DEF IsTag
<1> QED BY <1>1, <1>2

\* Tags put together.
LEMMA JoinFacts ==
    ASSUME NEW x, NEW y, NEW z
    PROVE  /\ <<x>> \o <<y>> = <<x, y>>
           /\ <<x>> \o <<y, z>> = <<x, y, z>>
           /\ Front(<<x, y>>) = <<x>>
<1> DEFINE S == {x, y, z}
           one == <<x>>
           two == <<x, y>>
           last == <<y>>
           rest == <<y, z>>
           three == <<x, y, z>>
<1>1. /\ one \in Seq(S) /\ Len(one) = 1 /\ one[1] = x
      /\ two \in Seq(S) /\ Len(two) = 2 /\ two[1] = x /\ two[2] = y
      /\ last \in Seq(S) /\ Len(last) = 1 /\ last[1] = y
      /\ rest \in Seq(S) /\ Len(rest) = 2 /\ rest[1] = y /\ rest[2] = z
      /\ three \in Seq(S) /\ Len(three) = 3 /\ three[1] = x /\ three[2] = y /\ three[3] = z
  OBVIOUS
<1> HIDE DEF S, one, two, last, rest, three
<1>2. one \o last = two
  <2> DEFINE c == one \o last
  <2>1. /\ c \in Seq(S) /\ Len(c) = Len(one) + Len(last)
        /\ \A i \in 1..(Len(one) + Len(last)) :
              c[i] = IF i <= Len(one) THEN one[i] ELSE last[i - Len(one)]
    BY <1>1, ConcatProperties
  <2> HIDE DEF c
  <2>2. Len(one) + Len(last) = 2
    BY <1>1
  <2>3. Len(c) = 2 /\ c[1] = x /\ c[2] = y
    BY <1>1, <2>1, <2>2
  <2>4. \A i \in 1..2 : c[i] = two[i]
    BY <1>1, <2>3
  <2> QED BY <1>1, <2>1, <2>3, <2>4, SeqEqual DEF c
<1>3. one \o rest = three
  <2> DEFINE c == one \o rest
  <2>1. /\ c \in Seq(S) /\ Len(c) = Len(one) + Len(rest)
        /\ \A i \in 1..(Len(one) + Len(rest)) :
              c[i] = IF i <= Len(one) THEN one[i] ELSE rest[i - Len(one)]
    BY <1>1, ConcatProperties
  <2> HIDE DEF c
  <2>2. Len(one) + Len(rest) = 3
    BY <1>1
  <2>3. Len(c) = 3 /\ c[1] = x /\ c[2] = y /\ c[3] = z
    BY <1>1, <2>1, <2>2
  <2>4. \A i \in 1..3 : c[i] = three[i]
    BY <1>1, <2>3
  <2> QED BY <1>1, <2>1, <2>3, <2>4, SeqEqual DEF c
<1>4. Front(two) = one
  <2>1. two # <<>>
    <3>1. two \in Seq(S) /\ Len(two) = 2
      BY <1>1
    <3>2. two = <<>> <=> Len(two) = 0
      BY <3>1, EmptySeq
    <3> QED BY <3>1, <3>2
  <2>2. /\ Front(two) \in Seq(S) /\ Len(Front(two)) = Len(two) - 1
        /\ \A k \in 1..(Len(two) - 1) : Front(two)[k] = two[k]
    BY <1>1, <2>1, FrontFacts DEF Front
  <2>3. Len(Front(two)) = 1 /\ Front(two)[1] = x
    BY <1>1, <2>2
  <2>4. \A i \in 1..1 : Front(two)[i] = one[i]
    BY <1>1, <2>3
  <2> QED BY <1>1, <2>2, <2>3, <2>4, SeqEqual
<1> QED BY <1>2, <1>3, <1>4 DEF one, two, last, rest, three

LEMMA NodeFacts ==
    ASSUME NEW tag, IsTag(tag), NEW contents, NEW children
    PROVE  /\ IsNode(Node(tag, contents, children))
           /\ Node(tag, contents, children).tag = tag
           /\ Node(tag, contents, children).contents = contents
           /\ Node(tag, contents, children).children = children
BY DEF Node, IsNode

LEMMA ExceptFacts ==
    /\ \A tag, contents, children :
          [mpc_ast_new(tag, contents) EXCEPT !.children = children]
             = Node(tag, contents, children)
    /\ \A tag, contents, children, new :
          [Node(tag, contents, children) EXCEPT !.tag = new] = Node(new, contents, children)
BY DEF mpc_ast_new, Node

LEMMA NotNull ==
    ASSUME NEW a, IsNode(a)
    PROVE  a # Null
<1>1. Null.tag = <<>>
  BY DEF Null
<1> QED BY <1>1 DEF IsNode, IsTag

\* The root that a fold puts over its parts.
LEMMA RootFacts ==
    ASSUME NEW children
    PROVE  /\ [mpc_ast_new(<<">">>, "") EXCEPT !.children = children]
                 = Node(<<">">>, "", children)
           /\ IsNode(Node(<<">">>, "", children))
           /\ Node(<<">">>, "", children).children = children
<1>1. [mpc_ast_new(<<">">>, "") EXCEPT !.children = children] = Node(<<">">>, "", children)
  BY ExceptFacts
<1>2. IsTag(<<">">>)
  BY TagFacts
<1>3. \A tag, contents : IsTag(tag) => /\ IsNode(Node(tag, contents, children))
                                      /\ Node(tag, contents, children).children = children
  <2> SUFFICES ASSUME NEW tag, NEW contents, IsTag(tag)
               PROVE  /\ IsNode(Node(tag, contents, children))
                      /\ Node(tag, contents, children).children = children
    OBVIOUS
  <2> QED BY NodeFacts
<1> QED BY <1>1, <1>2, <1>3

\* What lends one child.
LEMMA SplicedWhole ==
    ASSUME NEW a, Whole(a)
    PROVE  /\ \E x : Spliced(a) = <<x>>
           /\ Len(a.children) = 0 => Spliced(a) = <<a>>
<1>1. a # Null /\ Len(a.children) \in {0, 1}
  BY NotNull DEF Whole
<1>2. CASE Len(a.children) = 0
  BY <1>1, <1>2 DEF Spliced
<1>3. CASE Len(a.children) = 1
  BY <1>1, <1>3 DEF Spliced
<1> QED BY <1>1, <1>2, <1>3

LEMMA SplicedRoot ==
    ASSUME NEW children, Len(children) \in Nat, Len(children) > 1
    PROVE  Spliced(Node(<<">">>, "", children)) = children
<1>1. Node(<<">">>, "", children) # Null /\ Node(<<">">>, "", children).children = children
  BY RootFacts, NotNull
<1> DEFINE a == Node(<<">">>, "", children)
<1>2. a # Null /\ a.children = children
  BY <1>1
<1> HIDE DEF a
<1>5. PICK n \in Nat : n = Len(children) /\ n > 1
  OBVIOUS
<1>6. Len(a.children) = n
  BY <1>2, <1>5
<1>4. Len(a.children) # 1 /\ Len(a.children) > 1
  BY <1>5, <1>6
<1>3. Spliced(a) = children
  BY <1>2, <1>4 DEF Spliced
<1> QED BY <1>3 DEF a

\* Folding two parts, and three.
LEMMA FoldTwo ==
    ASSUME NEW a, NEW b
    PROVE  /\ b = Null => mpcf_fold_ast(<<a, b>>) = a
           /\ a = Null /\ b # Null => mpcf_fold_ast(<<a, b>>) = b
           /\ a # Null /\ b # Null =>
                 mpcf_fold_ast(<<a, b>>) = Node(<<">">>, "", Spliced(a) \o Spliced(b))
<1> DEFINE xs == <<a, b>>
<1>1. Len(xs) = 2 /\ xs[1] = a /\ xs[2] = b /\ xs # <<>>
  OBVIOUS
<1> DEFINE ss == [i \in 1..Len(xs) |-> Spliced(xs[i])]
<1>2. ss = <<Spliced(a), Spliced(b)>>
  <2>1. ss = [i \in 1..2 |-> ss[i]] /\ ss[1] = Spliced(a) /\ ss[2] = Spliced(b)
    BY <1>1
  <2> HIDE DEF ss
  <2> QED BY <2>1, TupleFacts
<1>3. FlattenSeq(ss) = Spliced(a) \o Spliced(b)
  <2> HIDE DEF ss
  <2>1. FlattenSeq(<<Spliced(a), Spliced(b)>>) = Spliced(a) \o Spliced(b)
    BY FlattenTwo
  <2> QED BY <1>2, <2>1
<1>4. ASSUME a # Null, b # Null
      PROVE  mpcf_fold_ast(xs) = Node(<<">">>, "", FlattenSeq(ss))
  <2>1. mpcf_fold_ast(xs) = [mpc_ast_new(<<">">>, "") EXCEPT !.children = FlattenSeq(ss)]
    BY <1>1, <1>4 DEF mpcf_fold_ast
  <2> QED BY <2>1, RootFacts
<1>5. /\ b = Null => mpcf_fold_ast(xs) = a
      /\ a = Null /\ b # Null => mpcf_fold_ast(xs) = b
  BY <1>1 DEF mpcf_fold_ast
<1> QED BY <1>3, <1>4, <1>5

LEMMA FoldThree ==
    ASSUME NEW a, NEW b, NEW c
    PROVE  mpcf_fold_ast(<<a, b, c>>)
             = Node(<<">">>, "", (Spliced(a) \o Spliced(b)) \o Spliced(c))
<1> DEFINE xs == <<a, b, c>>
<1>1. Len(xs) = 3 /\ xs[1] = a /\ xs[2] = b /\ xs[3] = c /\ xs # <<>>
  OBVIOUS
<1> DEFINE ss == [i \in 1..Len(xs) |-> Spliced(xs[i])]
<1>2. ss = <<Spliced(a), Spliced(b), Spliced(c)>>
  <2>1. /\ ss = [i \in 1..3 |-> ss[i]]
        /\ ss[1] = Spliced(a) /\ ss[2] = Spliced(b) /\ ss[3] = Spliced(c)
    BY <1>1
  <2> HIDE DEF ss
  <2> QED BY <2>1, TupleFacts
<1>3. FlattenSeq(ss) = (Spliced(a) \o Spliced(b)) \o Spliced(c)
  <2> HIDE DEF ss
  <2>1. FlattenSeq(<<Spliced(a), Spliced(b), Spliced(c)>>)
           = (Spliced(a) \o Spliced(b)) \o Spliced(c)
    <3>1. FlattenSeq(<<Spliced(a), Spliced(b), Spliced(c)>>)
             = Both(Both(Spliced(a), Spliced(b)), Spliced(c))
      BY FlattenThree
    <3> QED BY <3>1 DEF Both
  <2> QED BY <1>2, <2>1
<1>4. mpcf_fold_ast(xs) = [mpc_ast_new(<<">">>, "") EXCEPT !.children = FlattenSeq(ss)]
  BY <1>1 DEF mpcf_fold_ast
<1> QED BY <1>3, <1>4, RootFacts

LEMMA FoldNone == mpcf_fold_ast(<<>>) = Null /\ Spliced(Null) = <<>>
<1>1. mpcf_fold_ast(<<>>) = Null
  BY DEF mpcf_fold_ast
<1>2. Len(Null.children) = 0
  <2>1. Null.children = <<>> /\ Len(<<>>) = 0
    BY DEF Null
  <2> QED BY <2>1
<1>3. Spliced(Null) = <<>>
  BY <1>2 DEF Spliced
<1> QED BY <1>1, <1>3

\* What folding the atoms of a list lends to the list.
LEMMA FoldAtoms ==
    ASSUME NEW A, NEW atoms \in Seq(A), \A a \in A : Whole(a)
    PROVE  /\ Len(atoms) \in Nat
           /\ Len(Spliced(mpcf_fold_ast(atoms))) = Len(atoms)
           /\ \E S : Spliced(mpcf_fold_ast(atoms)) \in Seq(S)
           /\ mpcf_fold_ast(atoms) = Null => Spliced(mpcf_fold_ast(atoms)) = <<>>
           /\ mpcf_fold_ast(atoms) # Null => Len(atoms) > 0
<1> DEFINE S == {Spliced(a)[1] : a \in A}
           ss == [i \in 1..Len(atoms) |-> Spliced(atoms[i])]
<1> HIDE DEF S, ss
<1>1. PICK n \in Nat : n = Len(atoms) /\ \A i \in 1..n : atoms[i] \in A
  OBVIOUS
<1>2. ASSUME NEW a \in A PROVE Spliced(a) \in Seq(S) /\ Len(Spliced(a)) = 1
  <2>1. PICK x : Spliced(a) = <<x>>
    BY SplicedWhole
  <2>2. x = Spliced(a)[1]
    BY <2>1
  <2>3. x \in S
    BY <2>2 DEF S
  <2> QED BY <2>1, <2>3
<1>3. CASE n = 0
  <2>1. atoms = <<>>
    BY <1>1, <1>3, EmptySeq
  <2>2. mpcf_fold_ast(atoms) = Null /\ Spliced(Null) = <<>>
    BY <2>1, FoldNone
  <2>3. <<>> \in Seq({}) /\ Len(<<>>) = 0
    OBVIOUS
  <2> QED BY <1>1, <1>3, <2>2, <2>3
<1>4. CASE n = 1
  <2>3. atoms[1] \in A /\ Len(atoms) = 1 /\ Len(<<>>) = 0
    BY <1>1, <1>4
  <2>1. atoms # <<>> /\ atoms[1] \in A /\ Len(atoms) = 1
    BY <2>3
  <2>2. mpcf_fold_ast(atoms) = atoms[1] /\ atoms[1] # Null
    BY <2>1, NotNull DEF mpcf_fold_ast, Whole
  <2> QED BY <1>1, <1>2, <1>4, <2>1, <2>2
<1>5. CASE n > 1
  <2>1. atoms # <<>> /\ Len(atoms) # 1 /\ atoms[1] # Null /\ atoms[2] # Null
    BY <1>1, <1>5, NotNull DEF Whole
  <2>2. mpcf_fold_ast(atoms) = [mpc_ast_new(<<">">>, "") EXCEPT !.children = FlattenSeq(ss)]
    BY <2>1 DEF mpcf_fold_ast, ss
  <2>3. mpcf_fold_ast(atoms) = Node(<<">">>, "", FlattenSeq(ss))
    BY <2>2, RootFacts
  <2>4. ss \in Seq(Seq(S)) /\ Len(ss) = n /\ \A i \in 1..n : Len(ss[i]) = 1
    BY <1>1, <1>2 DEF ss
  <2>5. FlattenSeq(ss) \in Seq(S) /\ Len(FlattenSeq(ss)) = n
    BY <2>4, FlattenType
  <2>6. Spliced(mpcf_fold_ast(atoms)) = FlattenSeq(ss)
    BY <1>5, <2>3, <2>5, SplicedRoot
  <2>7. mpcf_fold_ast(atoms) # Null
    BY <2>3, RootFacts, NotNull
  <2> QED BY <1>1, <1>5, <2>5, <2>6, <2>7
<1> QED BY <1>1, <1>3, <1>4, <1>5

\* The only child that an atom lends, and the children of a list that is being matched.
Lent(a) == Spliced(a)[1]

Kids(f) == <<Around(f)[1]>> \o [i \in 1..Len(f.atoms) |-> Lent(f.atoms[i])]

LEMMA FoldLends ==
    ASSUME NEW A, NEW atoms \in Seq(A), \A a \in A : Whole(a)
    PROVE  Spliced(mpcf_fold_ast(atoms)) = [i \in 1..Len(atoms) |-> Lent(atoms[i])]
<1> DEFINE S == {Lent(a) : a \in A}
           ss == [i \in 1..Len(atoms) |-> Spliced(atoms[i])]
           lent == [i \in 1..Len(atoms) |-> Lent(atoms[i])]
           all == Spliced(mpcf_fold_ast(atoms))
<1> HIDE DEF S
<1>1. PICK n \in Nat : n = Len(atoms) /\ \A i \in 1..n : atoms[i] \in A
  OBVIOUS
<1>2. ASSUME NEW a \in A PROVE Spliced(a) = <<Lent(a)>> /\ Lent(a) \in S
  <2>1. PICK x : Spliced(a) = <<x>>
    BY SplicedWhole
  <2>2. x = Lent(a)
    BY <2>1 DEF Lent
  <2> QED BY <2>1, <2>2 DEF S
<1>3. lent \in Seq(S) /\ Len(lent) = n /\ \A i \in 1..n : lent[i] = Lent(atoms[i])
  BY <1>1, <1>2
<1>4. CASE n = 0
  <2>1. atoms = <<>>
    BY <1>1, <1>4, EmptySeq
  <2>2. all = <<>>
    BY <2>1, FoldNone
  <2> HIDE DEF lent
  <2>3. lent = <<>>
    BY <1>3, <1>4, EmptySeq
  <2> QED BY <2>2, <2>3 DEF lent
<1>5. CASE n = 1
  <2>1. Len(atoms) = 1 /\ atoms[1] \in A /\ Len(<<>>) = 0
    BY <1>1, <1>5
  <2>2. atoms # <<>>
    BY <2>1
  <2>3. all = <<Lent(atoms[1])>>
    BY <1>2, <2>1, <2>2 DEF mpcf_fold_ast
  <2> DEFINE one == <<Lent(atoms[1])>>
  <2>4. one \in Seq(S) /\ Len(one) = 1 /\ one[1] = Lent(atoms[1])
    BY <1>2, <2>1
  <2> HIDE DEF one, lent, all
  <2>5. \A i \in 1..Len(one) : one[i] = lent[i]
    BY <1>3, <1>5, <2>4
  <2>6. one = lent
    BY <1>3, <1>5, <2>4, <2>5, SeqEqual
  <2> QED BY <2>3, <2>6 DEF one, lent, all
<1>6. CASE n > 1
  <2>1. atoms # <<>> /\ Len(atoms) # 1 /\ atoms[1] # Null /\ atoms[2] # Null
    BY <1>1, <1>6, NotNull DEF Whole
  <2>2. mpcf_fold_ast(atoms) = [mpc_ast_new(<<">">>, "") EXCEPT !.children = FlattenSeq(ss)]
    BY <2>1 DEF mpcf_fold_ast
  <2>3. mpcf_fold_ast(atoms) = Node(<<">">>, "", FlattenSeq(ss))
    BY <2>2, RootFacts
  <2>10. \A i \in 1..n : Spliced(atoms[i]) = <<lent[i]>> /\ lent[i] \in S
    BY <1>1, <1>2, <1>3
  <2>4. ss \in Seq(Seq(S)) /\ Len(ss) = n /\ \A i \in 1..n : Len(ss[i]) = 1 /\ ss[i][1] = lent[i]
    <3>1. \A x \in S : <<x>> \in Seq(S) /\ Len(<<x>>) = 1 /\ <<x>>[1] = x
      OBVIOUS
    <3>2. ss = [i \in 1..n |-> ss[i]] /\ \A i \in 1..n : ss[i] = Spliced(atoms[i])
      BY <1>1
    <3> HIDE DEF lent, ss
    <3>3. ASSUME NEW i \in 1..n
          PROVE  ss[i] \in Seq(S) /\ Len(ss[i]) = 1 /\ ss[i][1] = lent[i]
      <4>1. PICK x : x = lent[i]
        OBVIOUS
      <4>2. x \in S /\ ss[i] = <<x>>
        BY <2>10, <3>2, <4>1
      <4> QED BY <3>1, <4>1, <4>2, Zenon
    <3> QED BY <1>1, <3>2, <3>3
  <2> HIDE DEF ss, lent
  <2>5. FlattenSeq(ss) \in Seq(S) /\ Len(FlattenSeq(ss)) = n
    BY <2>4, FlattenType
  <2>6. all = FlattenSeq(ss)
    BY <1>6, <2>3, <2>5, SplicedRoot
  <2>7. FlattenSeq(ss) = [i \in 1..n |-> ss[i][1]]
    BY <2>4, FlattenOnes
  <2>8. \A i \in 1..n : FlattenSeq(ss)[i] = lent[i]
    BY <2>4, <2>7
  <2>9. FlattenSeq(ss) = lent
    BY <1>3, <2>5, <2>8, SeqEqual
  <2> QED BY <2>6, <2>9 DEF lent
<1> QED BY <1>1, <1>4, <1>5, <1>6

\* A leaf.
LEMMA LeafFacts ==
    ASSUME NEW t, NEW contents
    PROVE  /\ Whole(mpc_ast_new(<<t>>, contents))
           /\ Spliced(mpc_ast_new(<<t>>, contents)) = <<mpc_ast_new(<<t>>, contents)>>
<1>1. mpc_ast_new(<<t>>, contents) = Node(<<t>>, contents, <<>>)
  BY DEF mpc_ast_new, Node
<1>2. /\ IsNode(Node(<<t>>, contents, <<>>))
      /\ Node(<<t>>, contents, <<>>).children = <<>>
  BY TagFacts, NodeFacts
<1>3. Len(<<>>) = 0
  OBVIOUS
<1>4. Whole(mpc_ast_new(<<t>>, contents)) /\ Len(mpc_ast_new(<<t>>, contents).children) = 0
  BY <1>1, <1>2, <1>3 DEF Whole
<1> QED BY <1>4, SplicedWhole

\* <name> of a rule is whole, whatever the rule has matched.
LEMMA NamedWhole ==
    ASSUME NEW name, NEW a, IsNode(a), Len(a.children) \in Nat
    PROVE  Whole(Named(name, a))
<1> DEFINE b == mpc_ast_add_tag(a, name)
<1>1. a # Null /\ a = Node(a.tag, a.contents, a.children) /\ IsTag(a.tag)
  BY NotNull DEF IsNode
<1>2. b = [a EXCEPT !.tag = <<name>> \o a.tag]
  BY <1>1 DEF mpc_ast_add_tag
<1> DEFINE tag == <<name>> \o a.tag
<1>3. b = Node(tag, a.contents, a.children)
  <2>2. b = [a EXCEPT !.tag = tag]
    BY <1>2
  <2> HIDE DEF tag, b
  <2>1. [Node(a.tag, a.contents, a.children) EXCEPT !.tag = tag]
          = Node(tag, a.contents, a.children)
    BY ExceptFacts
  <2> QED BY <1>1, <2>1, <2>2
<1>4. IsNode(b) /\ b.children = a.children
  BY <1>1, <1>3, TagFacts, NodeFacts
<1> HIDE DEF b
<1>7. PICK n \in Nat : n = Len(b.children)
  BY <1>4
<1>5. CASE Len(b.children) <= 1
  <2>1. Len(b.children) \in {0, 1}
    <3>1. n <= 1
      BY <1>5, <1>7
    <3>2. n \in {0, 1}
      BY <3>1
    <3> QED BY <1>7, <3>2
  <2>2. mpc_ast_add_root(b) = b
    BY <1>5 DEF mpc_ast_add_root
  <2> QED BY <1>4, <2>1, <2>2 DEF Named, Whole, b
<1>6. CASE ~(Len(b.children) <= 1)
  <2>1. mpc_ast_add_root(b) = Node(<<">">>, "", <<b>>)
    BY <1>6, RootFacts DEF mpc_ast_add_root
  <2>2. /\ IsNode(Node(<<">">>, "", <<b>>))
        /\ Node(<<">">>, "", <<b>>).children = <<b>>
    BY RootFacts
  <2>3. Len(<<b>>) = 1
    OBVIOUS
  <2> QED BY <2>1, <2>2, <2>3 DEF Named, Whole, b
<1> QED BY <1>5, <1>6

\* Tagging a node, and naming one without children.
LEMMA AddTag ==
    ASSUME NEW tag, IsTag(tag), NEW contents, NEW children, NEW name
    PROVE  mpc_ast_add_tag(Node(tag, contents, children), name)
             = Node(<<name>> \o tag, contents, children)
<1> DEFINE a == Node(tag, contents, children)
<1>1. a # Null /\ a.tag = tag
  BY NodeFacts, NotNull
<1>2. [a EXCEPT !.tag = <<name>> \o tag] = Node(<<name>> \o tag, contents, children)
  <2> DEFINE new == <<name>> \o tag
  <2> HIDE DEF new
  <2>1. [a EXCEPT !.tag = new] = Node(new, contents, children)
    BY ExceptFacts
  <2> QED BY <2>1 DEF new
<1> HIDE DEF a
<1> QED BY <1>1, <1>2 DEF mpc_ast_add_tag, a

LEMMA AddRootTag ==
    ASSUME NEW old, NEW contents, NEW children, NEW tag
    PROVE  mpc_ast_add_root_tag(Node(old, contents, children), tag)
             = Node(Front(tag) \o old, contents, children)
<1> DEFINE a == Node(old, contents, children)
           new == Front(tag) \o old
<1>1. a.tag = old
  BY DEF Node
<1>2. [a EXCEPT !.tag = new] = Node(new, contents, children)
  <2> HIDE DEF new
  <2> QED BY ExceptFacts
<1> HIDE DEF a
<1> QED BY <1>1, <1>2 DEF mpc_ast_add_root_tag, a

LEMMA NamedLeaf ==
    ASSUME NEW tag, IsTag(tag), NEW contents, NEW name
    PROVE  Named(name, Node(tag, contents, <<>>)) = Node(<<name>> \o tag, contents, <<>>)
<1> DEFINE b == Node(<<name>> \o tag, contents, <<>>)
<1>1. b.children = <<>> /\ Len(<<>>) = 0
  BY DEF Node
<1>2. mpc_ast_add_tag(Node(tag, contents, <<>>), name) = b
  BY AddTag
<1> HIDE DEF b
<1>3. Len(b.children) <= 1
  BY <1>1
<1> QED BY <1>2, <1>3 DEF Named, mpc_ast_add_root, b

LEMMA AtomWhole ==
    ASSUME NEW rule, NEW a, IsNode(a), Len(a.children) \in Nat
    PROVE  Whole(Atom(rule, a))
<1>1. Whole(Named(rule, a))
  BY NamedWhole
<1>2. Len(Named(rule, a).children) \in Nat
  BY <1>1 DEF Whole
<1> QED BY <1>1, <1>2, NamedWhole DEF Whole, Atom

----------------------------------------------------------------------------
(* The rules in progress *)

FrameOK(f) ==
    /\ f = [rule |-> f.rule, atoms |-> f.atoms]
    /\ \E A : f.atoms \in Seq(A) /\ \A a \in A : Whole(a)

LEMMA AroundFacts ==
    ASSUME NEW f, NEW i \in 1..2
    PROVE  /\ Whole(Around(f)[i])
           /\ Spliced(Around(f)[i]) = <<Around(f)[i]>>
<1>1. \A t, contents :
         /\ Whole(mpc_ast_new(<<t>>, contents))
         /\ Spliced(mpc_ast_new(<<t>>, contents)) = <<mpc_ast_new(<<t>>, contents)>>
  BY LeafFacts
<1>2. \E t, contents : Around(f)[i] = mpc_ast_new(<<t>>, contents)
  <2>1. CASE f.rule = "lisp"
    <3>1. Around(f) = <<mpc_ast_new(<<"regex">>, ""), mpc_ast_new(<<"regex">>, "")>>
      BY <2>1 DEF Around
    <3>2. \A x : <<x, x>>[i] = x
      OBVIOUS
    <3> QED BY <3>1, <3>2
  <2>2. CASE f.rule # "lisp"
    <3>1. \E token : Around(f)[i] = Lexeme(token)
      BY <2>2 DEF Around
    <3> QED BY <3>1 DEF Lexeme
  <2> QED BY <2>1, <2>2
<1> QED BY <1>1, <1>2

\* The tree of a list: its ends and its atoms, however they are put together.
LEMMA MatchedFacts ==
    ASSUME NEW f, FrameOK(f)
    PROVE  /\ IsNode(Matched(f))
           /\ Len(f.atoms) \in Nat
           /\ Len(Matched(f).children) = Len(f.atoms) + 2
           /\ InTurn(Around(f)[1], mpcf_fold_ast(f.atoms), Around(f)[2])
                = InPairs(Around(f)[1], mpcf_fold_ast(f.atoms), Around(f)[2])
<1> DEFINE x == Around(f)[1]
           y == mpcf_fold_ast(f.atoms)
           z == Around(f)[2]
<1>1. x # Null /\ z # Null /\ Spliced(x) = <<x>> /\ Spliced(z) = <<z>>
  <2>1. 1 \in 1..2 /\ 2 \in 1..2
    OBVIOUS
  <2>2. Whole(x) /\ Whole(z) /\ Spliced(x) = <<x>> /\ Spliced(z) = <<z>>
    BY <2>1, AroundFacts
  <2> QED BY <2>2, NotNull DEF Whole
<1>2. PICK n, S : /\ n \in Nat /\ n = Len(f.atoms)
                  /\ Len(Spliced(y)) = n /\ Spliced(y) \in Seq(S)
                  /\ y = Null => Spliced(y) = <<>>
                  /\ y # Null => n > 0
  BY FoldAtoms DEF FrameOK
<1> HIDE DEF x, y, z
<1> DEFINE xy == <<x>> \o Spliced(y)
           all == xy \o <<z>>
<1>3. /\ xy \in Seq({x} \cup S) /\ Len(xy) = 1 + n
      /\ all \in Seq({x, z} \cup S) /\ Len(all) = n + 2
  <2>1. <<x>> \in Seq({x} \cup S) /\ Spliced(y) \in Seq({x} \cup S) /\ Len(<<x>>) = 1
    BY <1>2, SeqMonotonic
  <2>2. xy \in Seq({x} \cup S) /\ Len(xy) = 1 + n
    BY <1>2, <2>1, ConcatProperties
  <2> HIDE DEF xy
  <2>3. xy \in Seq({x, z} \cup S) /\ <<z>> \in Seq({x, z} \cup S) /\ Len(<<z>>) = 1
    BY <2>2, SeqMonotonic
  <2>4. all \in Seq({x, z} \cup S) /\ Len(all) = 1 + n + 1
    BY <2>2, <2>3, ConcatProperties
  <2> QED BY <1>2, <2>2, <2>4
<1>4. InTurn(x, y, z) = Node(<<">">>, "", all)
  <2>1. InTurn(x, y, z) = Node(<<">">>, "", (Spliced(x) \o Spliced(y)) \o Spliced(z))
    BY FoldThree DEF InTurn
  <2> QED BY <1>1, <2>1
<1> DEFINE first == mpcf_fold_ast(<<x, y>>)
<1>5. InPairs(x, y, z) = mpcf_fold_ast(<<first, z>>)
  <2>1. mpcf_fold_ast(<<Null, x>>) = x
    BY <1>1, FoldTwo
  <2> QED BY <2>1 DEF InPairs
<1>6. first # Null /\ Spliced(first) = xy
  <2>1. CASE y = Null
    <3>1. first = x
      BY <2>1, FoldTwo
    <3>2. xy = <<x>>
      <4>1. <<x>> \in Seq({x}) /\ Spliced(y) = <<>>
        BY <1>2, <2>1
      <4> QED BY <4>1, ConcatEmptySeq
    <3> QED BY <1>1, <3>1, <3>2
  <2>2. CASE y # Null
    <3>1. first = Node(<<">">>, "", xy)
      <4>1. first = Node(<<">">>, "", Spliced(x) \o Spliced(y))
        BY <1>1, <2>2, FoldTwo
      <4> QED BY <1>1, <4>1
    <3>2. Len(xy) \in Nat /\ Len(xy) > 1
      BY <1>2, <1>3, <2>2
    <3> HIDE DEF xy, first
    <3>3. first # Null
      BY <3>1, RootFacts, NotNull
    <3> QED BY <3>1, <3>2, <3>3, SplicedRoot
  <2> QED BY <2>1, <2>2
<1> HIDE DEF first
<1>7. InPairs(x, y, z) = Node(<<">">>, "", all)
  <2>1. mpcf_fold_ast(<<first, z>>) = Node(<<">">>, "", Spliced(first) \o Spliced(z))
    BY <1>1, <1>6, FoldTwo
  <2> QED BY <1>1, <1>5, <1>6, <2>1
<1> HIDE DEF all
<1>8. Matched(f) = Node(<<">">>, "", all)
  BY <1>4 DEF Matched, x, y, z
<1>9. IsNode(Matched(f)) /\ Matched(f).children = all
  BY <1>8, RootFacts
<1> QED BY <1>2, <1>3, <1>4, <1>7, <1>9 DEF x, y, z

LEMMA KidsFacts ==
    ASSUME NEW f, FrameOK(f)
    PROVE  \E S : Kids(f) \in Seq(S) /\ Len(Kids(f)) \in Nat /\ Len(Kids(f)) >= 1
<1>1. PICK A : f.atoms \in Seq(A)
  BY DEF FrameOK
<1> DEFINE lent == [i \in 1..Len(f.atoms) |-> Lent(f.atoms[i])]
           S == {Around(f)[1]} \cup {Lent(f.atoms[i]) : i \in 1..Len(f.atoms)}
           one == <<Around(f)[1]>>
<1>2. lent \in Seq(S) /\ one \in Seq(S) /\ Len(one) = 1 /\ Len(lent) \in Nat
  <2>1. Around(f)[1] \in S /\ \A i \in 1..Len(f.atoms) : lent[i] \in S
    OBVIOUS
  <2>2. Len(f.atoms) \in Nat
    BY <1>1
  <2>3. lent = [i \in 1..Len(f.atoms) |-> lent[i]]
    OBVIOUS
  <2> HIDE DEF lent, S
  <2>4. lent \in Seq(S) /\ Len(lent) \in Nat
    BY <2>1, <2>2, <2>3
  <2> QED BY <2>1, <2>4
<1> HIDE DEF lent, one, S
<1>3. one \o lent \in Seq(S) /\ Len(one \o lent) = 1 + Len(lent)
  BY <1>2, ConcatProperties, ZenonT(30)
<1> QED BY <1>2, <1>3 DEF Kids, one, lent

\* The tree of a list has its ends for children, and what its atoms lend.
LEMMA MatchedIs ==
    ASSUME NEW f, FrameOK(f)
    PROVE  Matched(f) = Node(<<">">>, "", Append(Kids(f), Around(f)[2]))
<1> DEFINE x == Around(f)[1]
           y == mpcf_fold_ast(f.atoms)
           z == Around(f)[2]
<1>1. Spliced(x) = <<x>> /\ Spliced(z) = <<z>>
  <2>1. 1 \in 1..2 /\ 2 \in 1..2
    OBVIOUS
  <2> QED BY <2>1, AroundFacts
<1>2. <<x>> \o Spliced(y) = Kids(f)
  BY FoldLends DEF FrameOK, Kids
<1>3. Matched(f) = Node(<<">">>, "", (Spliced(x) \o Spliced(y)) \o Spliced(z))
  <2> HIDE DEF x, y, z
  <2>1. InTurn(x, y, z) = Node(<<">">>, "", (Spliced(x) \o Spliced(y)) \o Spliced(z))
    BY FoldThree DEF InTurn
  <2> QED BY <2>1 DEF Matched, x, y, z
<1>4. PICK S : Kids(f) \in Seq(S)
  BY KidsFacts
<1> HIDE DEF x, y, z
<1>5. Append(Kids(f), z) = Kids(f) \o <<z>>
  <2>1. Kids(f) \in Seq(S \cup {z}) /\ z \in S \cup {z}
    BY <1>4, SeqMonotonic
  <2> QED BY <2>1, AppendIsConcat
<1> QED BY <1>1, <1>2, <1>3, <1>5 DEF z

\* One more atom, one more child.
LEMMA KidsGrow ==
    ASSUME NEW f, FrameOK(f), NEW a
    PROVE  Kids([rule |-> f.rule, atoms |-> Append(f.atoms, a)]) = Append(Kids(f), Lent(a))
<1> DEFINE g == [rule |-> f.rule, atoms |-> Append(f.atoms, a)]
           one == <<Around(f)[1]>>
           lent == [i \in 1..Len(f.atoms) |-> Lent(f.atoms[i])]
           more == [i \in 1..Len(g.atoms) |-> Lent(g.atoms[i])]
           S == {Around(f)[1], Lent(a)} \cup {Lent(f.atoms[i]) : i \in 1..Len(f.atoms)}
<1>1. PICK A : f.atoms \in Seq(A)
  BY DEF FrameOK
<1>9. PICK n \in Nat : n = Len(f.atoms)
  BY <1>1
<1>2. f.atoms \in Seq(A \cup {a})
  BY <1>1, SeqMonotonic
<1>3. /\ Len(g.atoms) = n + 1 /\ g.atoms[n + 1] = a
      /\ \A i \in 1..n : g.atoms[i] = f.atoms[i]
  BY <1>2, <1>9, AppendProperties
<1>4. Around(g) = Around(f)
  BY DEF Around
<1>5. /\ lent \in Seq(S) /\ one \in Seq(S) /\ Lent(a) \in S /\ Len(lent) = n
      /\ \A i \in 1..n : lent[i] = Lent(f.atoms[i])
  BY <1>1, <1>9
<1>6. more = Append(lent, Lent(a))
  <2> HIDE DEF g
  <2>1. more \in Seq(S) /\ Len(more) = n + 1 /\ \A i \in 1..(n + 1) : more[i] = Lent(g.atoms[i])
    <3>1. \A i \in 1..(n + 1) : Lent(g.atoms[i]) \in S
      <4> SUFFICES ASSUME NEW i \in 1..(n + 1) PROVE Lent(g.atoms[i]) \in S
        OBVIOUS
      <4>1. CASE i \in 1..n
        BY <1>3, <1>9, <4>1
      <4>2. CASE i = n + 1
        BY <1>3, <4>2
      <4> QED BY <4>1, <4>2
    <3> HIDE DEF S
    <3> QED BY <1>3, <3>1
  <2> HIDE DEF more, lent, S
  <2> DEFINE app == Append(lent, Lent(a))
  <2>2. /\ app \in Seq(S) /\ Len(app) = n + 1 /\ app[n + 1] = Lent(a)
        /\ \A i \in 1..n : app[i] = lent[i]
    BY <1>5, AppendProperties
  <2> HIDE DEF app
  <2>3. \A i \in 1..(n + 1) : more[i] = app[i]
    <3> SUFFICES ASSUME NEW i \in 1..(n + 1) PROVE more[i] = app[i]
      OBVIOUS
    <3>1. CASE i \in 1..n
      BY <1>3, <1>5, <2>1, <2>2, <3>1
    <3>2. CASE i = n + 1
      BY <1>3, <2>1, <2>2, <3>2
    <3> QED BY <3>1, <3>2
  <2>4. more = app
    BY <2>1, <2>2, <2>3, SeqEqual
  <2> QED BY <2>4 DEF app
<1> HIDE DEF lent, more, one, S
<1>7. Kids(f) = one \o lent /\ Kids(g) = one \o more
  BY <1>4 DEF Kids, lent, more, one
<1>8. one \o Append(lent, Lent(a)) = Append(one \o lent, Lent(a))
  <2>1. Append(lent, Lent(a)) = lent \o <<Lent(a)>> /\ <<Lent(a)>> \in Seq(S)
    BY <1>5, AppendIsConcat
  <2>2. one \o lent \in Seq(S)
    BY <1>5, ConcatProperties
  <2>3. Append(one \o lent, Lent(a)) = (one \o lent) \o <<Lent(a)>>
    BY <1>5, <2>2, AppendIsConcat
  <2>4. (one \o lent) \o <<Lent(a)>> = one \o (lent \o <<Lent(a)>>)
    BY <1>5, <2>1, ConcatAssociative
  <2> QED BY <2>1, <2>3, <2>4
<1> QED BY <1>6, <1>7, <1>8

LEMMA FrameExcept ==
    \A rule, atoms, new :
        [[rule |-> rule, atoms |-> atoms] EXCEPT !.atoms = new] = [rule |-> rule, atoms |-> new]
OBVIOUS

LEMMA FrameFacts ==
    ASSUME NEW rule, NEW A, NEW atoms \in Seq(A), \A a \in A : Whole(a)
    PROVE  FrameOK([rule |-> rule, atoms |-> atoms])
BY DEF FrameOK

LEMMA NewFrame ==
    ASSUME NEW rule
    PROVE  FrameOK([rule |-> rule, atoms |-> <<>>])
<1> DEFINE none == {}
<1>1. <<>> \in Seq(none) /\ \A a \in none : Whole(a)
  OBVIOUS
<1> HIDE DEF none
<1>3. \E A : <<>> \in Seq(A) /\ \A a \in A : Whole(a)
  BY <1>1
<1> QED BY <1>3 DEF FrameOK

\* Finding an atom.
LEMMA FoundIs ==
    ASSUME NEW F, NEW frames \in Seq(F), frames # <<>>, \A f \in F : FrameOK(f), NEW a
    PROVE  Found(frames, a)
             = [frames EXCEPT ![Len(frames)] =
                   [rule  |-> frames[Len(frames)].rule,
                    atoms |-> Append(frames[Len(frames)].atoms, a)]]
<1> DEFINE n == Len(frames)
           top == frames[n]
           atoms == Append(top.atoms, a)
<1>1. FrameOK(top)
  <2>1. n \in 1..n /\ \A k \in 1..n : frames[k] \in F
    OBVIOUS
  <2> QED BY <2>1
<1>2. top = [rule |-> top.rule, atoms |-> top.atoms]
  BY <1>1 DEF FrameOK
<1>3. [[rule |-> top.rule, atoms |-> top.atoms] EXCEPT !.atoms = atoms]
        = [rule |-> top.rule, atoms |-> atoms]
  <2> HIDE DEF atoms, top
  <2> QED BY FrameExcept
<1>4. [top EXCEPT !.atoms = atoms] = [rule |-> top.rule, atoms |-> atoms]
  <2> HIDE DEF atoms, top
  <2> QED BY <1>2, <1>3, Zenon
<1> QED BY <1>4 DEF Found

LEMMA FoundFacts ==
    ASSUME NEW F, NEW frames \in Seq(F), frames # <<>>, \A f \in F : FrameOK(f),
           NEW a, Whole(a)
    PROVE  /\ \E G : Found(frames, a) \in Seq(G) /\ \A f \in G : FrameOK(f)
           /\ Len(Found(frames, a)) = Len(frames)
           /\ \A k \in 1..Len(frames) : Found(frames, a)[k].rule = frames[k].rule
<1> DEFINE n == Len(frames)
           top == frames[n]
           new == [rule |-> top.rule, atoms |-> Append(top.atoms, a)]
<1>1. n \in Nat /\ n > 0 /\ \A k \in 1..n : frames[k] \in F
  OBVIOUS
<1>2. n \in 1..n /\ FrameOK(top)
  BY <1>1
<1>3. FrameOK(new)
  <2>1. PICK A : top.atoms \in Seq(A) /\ \A b \in A : Whole(b)
    BY <1>2 DEF FrameOK
  <2>2. top.atoms \in Seq(A \cup {a})
    BY <2>1, SeqMonotonic
  <2>3. Append(top.atoms, a) \in Seq(A \cup {a}) /\ \A b \in A \cup {a} : Whole(b)
    BY <2>1, <2>2
  <2> QED BY <2>3, FrameFacts
<1>4. [top EXCEPT !.atoms = Append(top.atoms, a)] = new
  <2> DEFINE atoms == Append(top.atoms, a)
  <2>1. top = [rule |-> top.rule, atoms |-> top.atoms]
    BY <1>2 DEF FrameOK
  <2>2. [[rule |-> top.rule, atoms |-> top.atoms] EXCEPT !.atoms = atoms]
          = [rule |-> top.rule, atoms |-> atoms]
    <3> HIDE DEF atoms, top
    <3> QED BY FrameExcept
  <2> HIDE DEF atoms, top, new
  <2>3. [top EXCEPT !.atoms = atoms] = [rule |-> top.rule, atoms |-> atoms]
    BY <2>1, <2>2, Zenon
  <2> QED BY <2>3 DEF new, atoms
<1> DEFINE g == Found(frames, a)
<1>5. g = [frames EXCEPT ![n] = new]
  BY <1>4 DEF Found
<1> HIDE DEF new
<1>6. g \in Seq(F \cup {new}) /\ Len(g) = n /\ g[n] = new
      /\ \A k \in 1..n : k # n => g[k] = frames[k]
  <2>1. frames \in Seq(F \cup {new})
    BY SeqMonotonic
  <2> QED BY <1>1, <1>5, <2>1
<1>7. new.rule = top.rule
  BY DEF new
<1> HIDE DEF g
<1> QED BY <1>3, <1>6, <1>7 DEF g

----------------------------------------------------------------------------
(* The stack *)

Stacked ==
    /\ text \in Seq(Tokens) /\ pos \in 0..Len(text)
    /\ stack # <<>> /\ \E F : stack \in Seq(F) /\ \A f \in F : FrameOK(f)
    /\ \A k \in 1..Len(stack) :
          /\ stack[k].rule \in Lists \cup {"lisp"}
          /\ stack[k].rule = "lisp" <=> k = 1

\* The rules of the stack stay the first n of the stack before.
Kept(n) == Len(stack) >= n /\ Len(stack') >= n /\ \A k \in 1..n : stack'[k].rule = stack[k].rule

LEMMA StackFacts ==
    ASSUME Stacked
    PROVE  /\ Len(stack) \in Nat \ {0} /\ Len(stack) \in 1..Len(stack)
           /\ \A k \in 1..Len(stack) : FrameOK(stack[k])
           /\ Top.rule = "lisp" <=> Len(stack) = 1
<1>1. PICK F : stack \in Seq(F) /\ (\A f \in F : FrameOK(f)) /\ stack # <<>>
  BY DEF Stacked
<1>2. Len(stack) \in Nat \ {0} /\ \A k \in 1..Len(stack) : stack[k] \in F
  BY <1>1
<1>3. Len(stack) \in 1..Len(stack)
  BY <1>2
<1> QED BY <1>1, <1>2, <1>3 DEF Stacked, Top

LEMMA StackedInit == Init => Stacked
<1> SUFFICES ASSUME Init PROVE Stacked
  OBVIOUS
<1> DEFINE frame == [rule |-> "lisp", atoms |-> <<>>]
<1>1. FrameOK(frame) /\ frame.rule = "lisp"
  <2>2. FrameOK(frame)
    BY NewFrame
  <2> QED BY <2>2
<1>2. stack = <<frame>>
  BY DEF Init
<1> HIDE DEF frame
<1>3. stack \in Seq({frame}) /\ Len(stack) = 1 /\ stack[1] = frame /\ stack # <<>>
  BY <1>2
<1>4. text \in Seq(Tokens) /\ pos = 0 /\ Len(text) \in Nat
  BY TextsAssumption DEF Init
<1>5. \A k \in 1..Len(stack) :
        stack[k].rule \in Lists \cup {"lisp"} /\ (stack[k].rule = "lisp" <=> k = 1)
  BY <1>1, <1>3
<1> QED BY <1>1, <1>3, <1>4, <1>5 DEF Stacked

LEMMA RegexStep ==
    ASSUME Stacked, MatchRegex
    PROVE  /\ Stacked' /\ Kept(Len(stack)) /\ Len(stack') = Len(stack)
           /\ text' = text /\ pos' = pos + 1 /\ pos + 1 \in 1..Len(text)
           /\ text[pos + 1].rule # "char"
<1> DEFINE a == Atom(text[pos + 1].rule, Lexeme(text[pos + 1]))
<1>1. Whole(a)
  <2>1. Whole(Lexeme(text[pos + 1]))
    BY LeafFacts DEF Lexeme
  <2>2. Len(Lexeme(text[pos + 1]).children) \in Nat
    BY <2>1 DEF Whole
  <2> QED BY <2>1, <2>2, AtomWhole DEF Whole
<1>2. stack' = Found(stack, a) /\ text' = text /\ pos' = pos + 1 /\ pos < Len(text)
      /\ text[pos + 1].rule # "char"
  BY DEF MatchRegex
<1> HIDE DEF a
<1>3. PICK F : stack \in Seq(F) /\ (\A f \in F : FrameOK(f)) /\ stack # <<>>
  BY DEF Stacked
<1>4. /\ \E G : stack' \in Seq(G) /\ \A f \in G : FrameOK(f)
      /\ Len(stack') = Len(stack)
      /\ \A k \in 1..Len(stack) : stack'[k].rule = stack[k].rule
  BY <1>1, <1>2, <1>3, FoundFacts
<1>5. Len(stack) \in Nat \ {0}
  BY StackFacts
<1>6. stack' # <<>>
  BY <1>4, <1>5
<1>7. Len(text) \in Nat /\ pos \in 0..Len(text) /\ text \in Seq(Tokens)
  BY DEF Stacked
<1>8. pos + 1 \in 1..Len(text) /\ pos + 1 \in 0..Len(text)
  BY <1>2, <1>7
<1>9. Kept(Len(stack))
  BY <1>4, <1>5 DEF Kept
<1>10. Stacked'
  <2>1. \A k \in 1..Len(stack') :
          /\ stack'[k].rule \in Lists \cup {"lisp"}
          /\ stack'[k].rule = "lisp" <=> k = 1
    BY <1>4 DEF Stacked
  <2>2. text' \in Seq(Tokens) /\ pos' \in 0..Len(text')
    BY <1>2, <1>7, <1>8
  <2> QED BY <1>4, <1>6, <2>1, <2>2 DEF Stacked
<1> QED BY <1>2, <1>4, <1>8, <1>9, <1>10

LEMMA OpenStep ==
    ASSUME Stacked, MatchOpen
    PROVE  /\ Stacked' /\ Kept(Len(stack)) /\ Len(stack') = Len(stack) + 1
           /\ text' = text /\ pos' = pos + 1 /\ pos + 1 \in 1..Len(text)
           /\ stack'[Len(stack')].rule \in Lists
           /\ Opening(pos + 1, stack'[Len(stack')].rule)
<1>1. PICK rule \in Lists : /\ Ahead(Bracket(Brackets.open[rule]))
                            /\ stack' = Append(stack, [rule |-> rule, atoms |-> <<>>])
  BY DEF MatchOpen
<1>2. text' = text /\ pos' = pos + 1
  BY DEF MatchOpen
<1> DEFINE frame == [rule |-> rule, atoms |-> <<>>]
<1>3. FrameOK(frame) /\ frame.rule = rule
  <2>2. FrameOK(frame)
    BY NewFrame
  <2> QED BY <2>2
<1> HIDE DEF frame
<1>4. PICK F : stack \in Seq(F) /\ (\A f \in F : FrameOK(f)) /\ stack # <<>>
  BY DEF Stacked
<1>5. PICK n \in Nat \ {0} : n = Len(stack)
  BY StackFacts
<1>6. stack' = Append(stack, frame)
  BY <1>1 DEF frame
<1>7. /\ stack' \in Seq(F \cup {frame}) /\ Len(stack') = n + 1 /\ stack'[n + 1] = frame
      /\ \A k \in 1..n : stack'[k] = stack[k]
  <2>1. stack \in Seq(F \cup {frame})
    BY <1>4, SeqMonotonic
  <2> QED BY <1>5, <1>6, <2>1
<1>8. stack' # <<>>
  BY <1>5, <1>6, <1>7
<1>9. Len(text) \in Nat /\ pos \in 0..Len(text) /\ text \in Seq(Tokens)
  BY DEF Stacked
<1>10. pos + 1 \in 1..Len(text) /\ pos + 1 \in 0..Len(text) /\ Opening(pos + 1, rule)
  BY <1>1, <1>9 DEF Ahead, Opening
<1>11. Kept(Len(stack))
  BY <1>5, <1>7 DEF Kept
<1>12. Stacked'
  <2>1. ASSUME NEW k \in 1..Len(stack')
        PROVE  stack'[k].rule \in Lists \cup {"lisp"} /\ (stack'[k].rule = "lisp" <=> k = 1)
    <3>1. CASE k \in 1..n
      BY <1>5, <1>7, <3>1 DEF Stacked
    <3>2. CASE k = n + 1
      <4>1. stack'[k].rule = rule /\ rule # "lisp" /\ k # 1
        BY <1>3, <1>5, <1>7, <3>2 DEF Lists
      <4> QED BY <4>1
    <3> QED BY <1>5, <1>7, <3>1, <3>2
  <2>2. text' \in Seq(Tokens) /\ pos' \in 0..Len(text')
    BY <1>2, <1>9, <1>10
  <2>3. \E G : stack' \in Seq(G) /\ \A f \in G : FrameOK(f)
    BY <1>3, <1>4, <1>7
  <2> QED BY <1>8, <2>1, <2>2, <2>3 DEF Stacked
<1> QED BY <1>2, <1>3, <1>5, <1>7, <1>10, <1>11, <1>12

LEMMA CloseStep ==
    ASSUME Stacked, MatchClose
    PROVE  /\ Stacked' /\ Kept(Len(stack) - 1) /\ Len(stack') = Len(stack) - 1
           /\ text' = text /\ pos' = pos + 1 /\ pos + 1 \in 1..Len(text)
           /\ Top.rule \in Lists /\ Closing(pos + 1, Top.rule)
<1>1. Top.rule \in Lists /\ Ahead(Bracket(Brackets.close[Top.rule]))
  BY DEF MatchClose, Closes
<1>2. text' = text /\ pos' = pos + 1
      /\ stack' = Found(Front(stack), Atom(Top.rule, Matched(Top)))
  BY DEF MatchClose
<1> DEFINE a == Atom(Top.rule, Matched(Top))
           below == Front(stack)
<1>3. PICK n \in Nat \ {0} : n = Len(stack) /\ FrameOK(Top)
  BY StackFacts DEF Top
<1>4. n # 1
  <2>1. Top.rule # "lisp"
    BY <1>1 DEF Lists
  <2> QED BY <1>3, <2>1, StackFacts
<1>5. Whole(a)
  <2>1. IsNode(Matched(Top)) /\ Len(Matched(Top).children) \in Nat
    BY <1>3, MatchedFacts
  <2> QED BY <2>1, AtomWhole
<1>6. PICK F : stack \in Seq(F) /\ (\A f \in F : FrameOK(f)) /\ stack # <<>>
  BY DEF Stacked
<1>7. below \in Seq(F) /\ Len(below) = n - 1 /\ \A k \in 1..(n - 1) : below[k] = stack[k]
  BY <1>3, <1>6, FrontFacts DEF Front
<1> HIDE DEF a, below
<1>8. below # <<>>
  BY <1>4, <1>7
<1>9. /\ \E G : stack' \in Seq(G) /\ \A f \in G : FrameOK(f)
      /\ Len(stack') = n - 1
      /\ \A k \in 1..(n - 1) : stack'[k].rule = stack[k].rule
  <2>1. stack' = Found(below, a)
    BY <1>2 DEF a, below
  <2>2. /\ \E G : stack' \in Seq(G) /\ \A f \in G : FrameOK(f)
        /\ Len(stack') = Len(below)
        /\ \A k \in 1..Len(below) : stack'[k].rule = below[k].rule
    BY <1>5, <1>6, <1>7, <1>8, <2>1, FoundFacts
  <2> QED BY <1>7, <2>2
<1>10. stack' # <<>>
  BY <1>3, <1>4, <1>9
<1>11. Len(text) \in Nat /\ pos \in 0..Len(text) /\ text \in Seq(Tokens)
  BY DEF Stacked
<1>12. pos + 1 \in 1..Len(text) /\ pos + 1 \in 0..Len(text) /\ Closing(pos + 1, Top.rule)
  BY <1>1, <1>11 DEF Ahead, Closing
<1>13. Kept(n - 1)
  BY <1>3, <1>9 DEF Kept
<1>14. Stacked'
  <2>1. ASSUME NEW k \in 1..Len(stack')
        PROVE  stack'[k].rule \in Lists \cup {"lisp"} /\ (stack'[k].rule = "lisp" <=> k = 1)
    <3>1. k \in 1..(n - 1) /\ k \in 1..Len(stack)
      BY <1>3, <1>9
    <3> QED BY <1>9, <3>1 DEF Stacked
  <2>2. text' \in Seq(Tokens) /\ pos' \in 0..Len(text')
    BY <1>2, <1>11, <1>12
  <2> QED BY <1>9, <1>10, <2>1, <2>2 DEF Stacked
<1> QED BY <1>1, <1>2, <1>3, <1>9, <1>12, <1>13, <1>14

----------------------------------------------------------------------------
(* The brackets *)

Seen(positions) == positions \cap 1..pos

\* The brackets seen are paired by pair, or are the openings, at from, of the lists in
\* progress.
Paired(pair, from) ==
    /\ DOMAIN pair \subseteq Seen(Openings)
    /\ pair \in [DOMAIN pair -> Seen(Closings)]
    /\ from \in [2..Len(stack) -> Seen(Openings) \ DOMAIN pair]
    /\ \A i \in Seen(Openings) : i \in DOMAIN pair \/ \E k \in 2..Len(stack) : from[k] = i
    /\ \A j \in Seen(Closings) : \E i \in DOMAIN pair : pair[i] = j

\* The lists in progress are each inside the one before.
Nested(from) ==
    \A k \in 2..Len(stack) :
        /\ Opening(from[k], stack[k].rule)
        /\ \A m \in 2..Len(stack) : k < m => from[k] < from[m]

\* The pairs match, and cross neither one another nor a list in progress.
Apart(pair, from) ==
    \A i \in DOMAIN pair :
        /\ i < pair[i] /\ \E rule \in Lists : Opening(i, rule) /\ Closing(pair[i], rule)
        /\ \A j \in DOMAIN pair : i < j => pair[i] < j \/ pair[j] < pair[i]
        /\ \A k \in 2..Len(stack) : i < from[k] => pair[i] < from[k]

\* There was no other way to pair them.
Forced(pair) ==
    \A whole \in [Openings -> Closings] :
        PairsUp(whole) => \A i \in DOMAIN pair : whole[i] = pair[i]

Bracketed(pair, from) ==
    Paired(pair, from) /\ Nested(from) /\ Apart(pair, from) /\ Forced(pair)

LEMMA BracketFacts ==
    /\ \A r \in Lists, s \in Lists :
          /\ Bracket(Brackets.open[r]) = Bracket(Brackets.open[s]) => r = s
          /\ Bracket(Brackets.close[r]) = Bracket(Brackets.close[s]) => r = s
          /\ Bracket(Brackets.open[r]) # Bracket(Brackets.close[s])
    /\ \A c : Bracket(c).rule = "char"
<1>1. /\ Brackets.open["sexpr"] = "(" /\ Brackets.open["qexpr"] = "{"
      /\ Brackets.close["sexpr"] = ")" /\ Brackets.close["qexpr"] = "}"
  BY DEF Brackets
<1>2. \A c, d : Bracket(c) = Bracket(d) => c = d
  <2>1. \A c : Bracket(c).is = c
    BY DEF Bracket
  <2> QED BY <2>1
<1>3. \A c : Bracket(c).rule = "char"
  BY DEF Bracket
<1>4. ASSUME NEW r \in Lists, NEW s \in Lists
      PROVE  /\ Brackets.open[r] = Brackets.open[s] => r = s
             /\ Brackets.close[r] = Brackets.close[s] => r = s
             /\ Brackets.open[r] # Brackets.close[s]
  BY <1>1 DEF Lists
<1> QED BY <1>2, <1>3, <1>4

LEMMA SameText ==
    ASSUME text' = text
    PROVE  /\ Openings' = Openings /\ Closings' = Closings
           /\ \A i, rule : Opening(i, rule)' = Opening(i, rule)
           /\ \A i, rule : Closing(i, rule)' = Closing(i, rule)
           /\ \A pair : PairsUp(pair)' = PairsUp(pair)
           /\ \A pair : Forced(pair)' = Forced(pair)
<1>1. \A i, rule : Opening(i, rule)' = Opening(i, rule) /\ Closing(i, rule)' = Closing(i, rule)
  BY DEF Opening, Closing
<1>2. Openings' = Openings /\ Closings' = Closings
  BY <1>1 DEF Openings, Closings
<1>3. ASSUME NEW pair PROVE PairsUp(pair)' = PairsUp(pair)
  BY <1>1, <1>2 DEF PairsUp
<1>4. ASSUME NEW pair PROVE Forced(pair)' = Forced(pair)
  BY <1>2, <1>3 DEF Forced
<1> QED BY <1>1, <1>2, <1>3, <1>4

\* What a position is.
LEMMA PositionFacts ==
    /\ Openings \subseteq 1..Len(text) /\ Closings \subseteq 1..Len(text)
    /\ \A i \in 1..Len(text) :
          /\ \A rule \in Lists : Opening(i, rule) => i \in Openings /\ i \notin Closings
          /\ \A rule \in Lists : Closing(i, rule) => i \in Closings /\ i \notin Openings
          /\ text[i].rule # "char" => i \notin Openings /\ i \notin Closings
BY BracketFacts DEF Openings, Closings, Opening, Closing

\* Two brackets have no partner in common.
LEMMA PartnersDiffer ==
    ASSUME text \in Seq(Tokens),
           NEW whole \in [Openings -> Closings], PairsUp(whole),
           NEW i \in Openings, NEW j \in Openings, whole[i] = whole[j]
    PROVE  i = j
<1>1. i \in Int /\ j \in Int /\ whole[i] \in Int
  BY PositionFacts
<1>2. i < whole[i] /\ j < whole[j]
  BY DEF PairsUp
<1>3. (i < j => whole[i] < j \/ whole[j] < whole[i])
      /\ (j < i => whole[j] < i \/ whole[i] < whole[j])
  BY DEF PairsUp
<1> QED BY <1>1, <1>2, <1>3

\* The list in progress can only end after what has been seen.
LEMMA EndsLater ==
    ASSUME Stacked, NEW pair, NEW from, Bracketed(pair, from),
           NEW whole \in [Openings -> Closings], PairsUp(whole), NEW k \in 2..Len(stack)
    PROVE  whole[from[k]] > pos
<1>1. text \in Seq(Tokens) /\ pos \in Nat
  BY DEF Stacked
<1>2. from[k] \in Openings /\ from[k] \notin DOMAIN pair
  BY DEF Bracketed, Paired, Seen
<1>8. whole[from[k]] \in Closings /\ whole[from[k]] \in 1..Len(text)
  BY <1>2, PositionFacts
<1>3. SUFFICES ASSUME whole[from[k]] <= pos PROVE FALSE
  BY <1>1, <1>8
<1>4. whole[from[k]] \in Seen(Closings)
  BY <1>1, <1>3, <1>8 DEF Seen
<1>5. PICK i \in DOMAIN pair : pair[i] = whole[from[k]]
  BY <1>4 DEF Bracketed, Paired
<1>6. i \in Openings /\ whole[i] = pair[i]
  BY DEF Bracketed, Paired, Forced, Seen
<1>7. i = from[k]
  BY <1>1, <1>2, <1>5, <1>6, PartnersDiffer
<1> QED BY <1>2, <1>5, <1>7

\* The next closing bracket ends the last list in progress.
LEMMA EndsLast ==
    ASSUME Stacked, NEW pair, NEW from, Bracketed(pair, from),
           NEW whole \in [Openings -> Closings], PairsUp(whole), pos + 1 \in Closings
    PROVE  Len(stack) # 1 /\ whole[from[Len(stack)]] = pos + 1
<1>1. text \in Seq(Tokens) /\ pos \in Nat
  BY DEF Stacked
<1>2. PICK i \in Openings : whole[i] = pos + 1
  BY DEF PairsUp
<1>3. i \in Int /\ i < pos + 1 /\ 1 <= i
  <2>1. i < whole[i]
    BY DEF PairsUp
  <2>2. i \in 1..Len(text)
    BY PositionFacts
  <2> QED BY <1>1, <1>2, <2>1, <2>2
<1>4. i \in Seen(Openings)
  BY <1>1, <1>3 DEF Seen
<1>5. i \notin DOMAIN pair
  <2>1. SUFFICES ASSUME i \in DOMAIN pair PROVE FALSE
    OBVIOUS
  <2>2. whole[i] = pair[i] /\ pair[i] \in 1..pos
    BY <2>1 DEF Bracketed, Paired, Forced, Seen
  <2> QED BY <1>1, <1>2, <2>2
<1>6. PICK k \in 2..Len(stack) : from[k] = i
  BY <1>4, <1>5 DEF Bracketed, Paired
<1>7. PICK n \in Nat \ {0} : n = Len(stack)
  BY StackFacts
<1>8. n \in 2..n
  BY <1>6, <1>7
<1>9. whole[from[n]] > pos /\ from[n] \in Openings /\ whole[from[n]] \in Int
  <2>1. from[n] \in Openings
    BY <1>7, <1>8 DEF Bracketed, Paired, Seen
  <2>2. whole[from[n]] \in 1..Len(text)
    BY <2>1, PositionFacts
  <2>3. whole[from[n]] > pos
    BY <1>7, <1>8, EndsLater
  <2> QED BY <2>1, <2>2, <2>3
<1>10. k = n
  <2>1. SUFFICES ASSUME k # n PROVE FALSE
    OBVIOUS
  <2>2. from[k] < from[n] /\ from[n] \in 1..pos
    BY <1>6, <1>7, <1>8, <2>1 DEF Bracketed, Nested, Paired, Seen
  <2>3. whole[i] < from[n] \/ whole[from[n]] < whole[i]
    BY <1>6, <1>9, <2>2 DEF PairsUp
  <2> QED BY <1>1, <1>2, <1>9, <2>2, <2>3
<1> QED BY <1>2, <1>6, <1>7, <1>8, <1>10

LEMMA BracketedInit ==
    ASSUME Init
    PROVE  \E pair, from : Bracketed(pair, from)
<1> DEFINE empty == [i \in {} |-> i]
<1>1. DOMAIN empty = {} /\ empty = [i \in {} |-> empty[i]]
  OBVIOUS
<1> HIDE DEF empty
<1>2. pos = 0 /\ Len(stack) = 1
  BY DEF Init
<1>3. 2..Len(stack) = {} /\ \A positions : Seen(positions) = {}
  BY <1>2 DEF Seen
<1>4. Paired(empty, empty)
  BY <1>1, <1>3 DEF Paired
<1>5. Nested(empty) /\ Apart(empty, empty) /\ Forced(empty)
  BY <1>1, <1>3 DEF Nested, Apart, Forced
<1> QED BY <1>4, <1>5 DEF Bracketed

LEMMA BracketedRegex ==
    ASSUME Stacked, MatchRegex, NEW pair, NEW from, Bracketed(pair, from)
    PROVE  Bracketed(pair, from)'
<1>1. /\ text' = text /\ pos' = pos + 1 /\ pos \in Nat /\ pos + 1 \in 1..Len(text)
      /\ text[pos + 1].rule # "char"
      /\ Len(stack') = Len(stack) /\ \A k \in 1..Len(stack) : stack'[k].rule = stack[k].rule
  BY RegexStep DEF Kept, Stacked
<1>2. Openings' = Openings /\ Closings' = Closings
  BY <1>1, SameText
<1>3. Seen(Openings)' = Seen(Openings) /\ Seen(Closings)' = Seen(Closings)
  <2>1. pos + 1 \notin Openings /\ pos + 1 \notin Closings
    BY <1>1, PositionFacts
  <2>2. 1..pos' = (1..pos) \cup {pos + 1}
    BY <1>1
  <2> QED BY <1>2, <2>1, <2>2 DEF Seen
<1>4. Paired(pair, from)'
  BY <1>1, <1>3 DEF Bracketed, Paired
<1>5. Nested(from)'
  <2>1. \A k \in 2..Len(stack) : Opening(from[k], stack[k].rule)' = Opening(from[k], stack[k].rule)
    BY <1>1, StackFacts DEF Opening
  <2> QED BY <1>1, <2>1 DEF Bracketed, Nested
<1>6. Apart(pair, from)' /\ Forced(pair)'
  BY <1>1, SameText DEF Bracketed, Apart
<1> QED BY <1>4, <1>5, <1>6 DEF Bracketed

LEMMA BracketedOpen ==
    ASSUME Stacked, MatchOpen, NEW pair, NEW from, Bracketed(pair, from), NEW grown,
           grown = [k \in 2..(Len(stack) + 1) |-> IF k = Len(stack) + 1 THEN pos + 1 ELSE from[k]]
    PROVE  Bracketed(pair, grown)'
<1>1. PICK n \in Nat \ {0} : n = Len(stack)
  BY StackFacts
<1>2. /\ text' = text /\ pos' = pos + 1 /\ pos \in Nat /\ pos + 1 \in 1..Len(text)
      /\ Len(stack') = n + 1 /\ \A k \in 1..n : stack'[k].rule = stack[k].rule
      /\ stack'[n + 1].rule \in Lists /\ Opening(pos + 1, stack'[n + 1].rule)
  BY <1>1, OpenStep DEF Kept, Stacked
<1>3. /\ \A k \in 2..n : k \in 2..(n + 1) /\ k # n + 1 /\ grown[k] = from[k]
      /\ n + 1 \in 2..(n + 1) /\ grown[n + 1] = pos + 1
      /\ grown = [k \in 2..(n + 1) |-> grown[k]]
      /\ \A k \in 2..(n + 1) : k \in 2..n \/ k = n + 1
  BY <1>1
<1>4. Openings' = Openings /\ Closings' = Closings
  BY <1>2, SameText
<1>5. /\ Seen(Openings)' = Seen(Openings) \cup {pos + 1} /\ Seen(Closings)' = Seen(Closings)
      /\ pos + 1 \notin Seen(Openings)
  <2>1. pos + 1 \in Openings /\ pos + 1 \notin Closings
    BY <1>2, PositionFacts
  <2>2. 1..pos' = (1..pos) \cup {pos + 1} /\ pos + 1 \notin 1..pos
    BY <1>2
  <2> QED BY <1>4, <2>1, <2>2 DEF Seen
<1>6. Paired(pair, grown)'
  <2>1. /\ DOMAIN pair \subseteq Seen(Openings) /\ pair \in [DOMAIN pair -> Seen(Closings)]
        /\ \A k \in 2..n : from[k] \in Seen(Openings) \ DOMAIN pair
        /\ \A i \in Seen(Openings) : i \in DOMAIN pair \/ \E k \in 2..n : from[k] = i
        /\ \A j \in Seen(Closings) : \E i \in DOMAIN pair : pair[i] = j
    BY <1>1 DEF Bracketed, Paired
  <2>2. \A k \in 2..(n + 1) : grown[k] \in Seen(Openings)' \ DOMAIN pair
    BY <1>3, <1>5, <2>1
  <2>3. grown \in [2..(n + 1) -> Seen(Openings)' \ DOMAIN pair]
    BY <1>3, <2>2
  <2>4. ASSUME NEW i \in Seen(Openings)'
        PROVE  i \in DOMAIN pair \/ \E k \in 2..(n + 1) : grown[k] = i
    BY <1>3, <1>5, <2>1
  <2> QED BY <1>2, <1>5, <2>1, <2>3, <2>4 DEF Paired
<1>7. Nested(grown)'
  <2>1. ASSUME NEW k \in 2..(n + 1) PROVE Opening(grown[k], stack[k].rule)'
    <3>1. CASE k \in 2..n
      <4>1. stack'[k].rule = stack[k].rule /\ grown[k] = from[k]
        BY <1>2, <1>3, <3>1
      <4>2. Opening(from[k], stack[k].rule)
        BY <1>1, <3>1 DEF Bracketed, Nested
      <4> QED BY <1>2, <4>1, <4>2 DEF Opening
    <3>2. CASE k = n + 1
      BY <1>2, <1>3, <3>2 DEF Opening
    <3> QED BY <1>3, <3>1, <3>2
  <2>2. ASSUME NEW k \in 2..(n + 1), NEW m \in 2..(n + 1), k < m PROVE grown[k] < grown[m]
    <3>1. k \in 2..n
      BY <1>1, <2>2
    <3>2. CASE m \in 2..n
      BY <1>1, <1>3, <2>2, <3>1, <3>2 DEF Bracketed, Nested
    <3>3. CASE m = n + 1
      <4>1. from[k] \in 1..pos
        BY <1>1, <3>1 DEF Bracketed, Paired, Seen
      <4> QED BY <1>2, <1>3, <3>1, <3>3, <4>1
    <3> QED BY <1>3, <3>2, <3>3
  <2> QED BY <1>2, <2>1, <2>2 DEF Nested
<1>8. Apart(pair, grown)'
  <2> SUFFICES ASSUME NEW i \in DOMAIN pair
               PROVE  /\ i < pair[i]
                      /\ \E rule \in Lists : Opening(i, rule)' /\ Closing(pair[i], rule)'
                      /\ \A j \in DOMAIN pair : i < j => pair[i] < j \/ pair[j] < pair[i]
                      /\ \A k \in 2..(n + 1) : i < grown[k] => pair[i] < grown[k]
    BY <1>2 DEF Apart
  <2>1. /\ i < pair[i]
        /\ \E rule \in Lists : Opening(i, rule) /\ Closing(pair[i], rule)
        /\ \A j \in DOMAIN pair : i < j => pair[i] < j \/ pair[j] < pair[i]
        /\ \A k \in 2..n : i < from[k] => pair[i] < from[k]
        /\ pair[i] \in 1..pos
    BY <1>1 DEF Bracketed, Apart, Paired, Seen
  <2>2. ASSUME NEW k \in 2..(n + 1), i < grown[k] PROVE pair[i] < grown[k]
    BY <1>2, <1>3, <2>1, <2>2
  <2> QED BY <1>2, <2>1, <2>2, SameText
<1> QED BY <1>2, <1>6, <1>7, <1>8, SameText DEF Bracketed

LEMMA BracketedClose ==
    ASSUME Stacked, MatchClose, NEW pair, NEW from, Bracketed(pair, from),
           NEW wider, NEW fewer,
           wider = [i \in DOMAIN pair \cup {from[Len(stack)]} |->
                       IF i = from[Len(stack)] THEN pos + 1 ELSE pair[i]],
           fewer = [k \in 2..(Len(stack) - 1) |-> from[k]]
    PROVE  Bracketed(wider, fewer)'
<1>1. PICK n \in Nat \ {0} : n = Len(stack)
  BY StackFacts
<1>2. /\ text' = text /\ pos' = pos + 1 /\ pos \in Nat /\ pos + 1 \in 1..Len(text)
      /\ Len(stack') = n - 1 /\ \A k \in 1..(n - 1) : stack'[k].rule = stack[k].rule
      /\ stack[n].rule \in Lists /\ Closing(pos + 1, stack[n].rule)
  BY <1>1, CloseStep DEF Kept, Stacked, Top
<1>3. n \in 2..n /\ \A k \in 2..n : k \in 2..(n - 1) \/ k = n
  <2>1. stack[n].rule # "lisp"
    BY <1>2 DEF Lists
  <2>2. n # 1
    BY <1>1, <2>1, StackFacts DEF Top
  <2> QED BY <2>2
<1>4. PICK t : t = from[n]
  OBVIOUS
<1>5. /\ DOMAIN pair \subseteq Seen(Openings) /\ pair \in [DOMAIN pair -> Seen(Closings)]
      /\ \A k \in 2..n : from[k] \in Seen(Openings) /\ from[k] \notin DOMAIN pair
      /\ \A i \in Seen(Openings) : i \in DOMAIN pair \/ \E k \in 2..n : from[k] = i
      /\ \A j \in Seen(Closings) : \E i \in DOMAIN pair : pair[i] = j
  BY <1>1 DEF Bracketed, Paired
<1>6. /\ DOMAIN wider = DOMAIN pair \cup {t} /\ t \notin DOMAIN pair /\ wider[t] = pos + 1
      /\ \A i \in DOMAIN pair : wider[i] = pair[i]
      /\ wider = [i \in DOMAIN wider |-> wider[i]]
  BY <1>1, <1>3, <1>4, <1>5
<1>7. /\ fewer = [k \in 2..(n - 1) |-> fewer[k]]
      /\ \A k \in 2..(n - 1) : k \in 2..n /\ k < n /\ fewer[k] = from[k]
  BY <1>1
<1>8. Openings' = Openings /\ Closings' = Closings
  BY <1>2, SameText
<1>9. Seen(Openings)' = Seen(Openings) /\ Seen(Closings)' = Seen(Closings) \cup {pos + 1}
  <2>1. pos + 1 \notin Openings /\ pos + 1 \in Closings
    BY <1>2, PositionFacts
  <2>2. 1..pos' = (1..pos) \cup {pos + 1}
    BY <1>2
  <2> QED BY <1>8, <2>1, <2>2 DEF Seen
<1>10. \A k \in 2..(n - 1) : from[k] < t
  BY <1>1, <1>3, <1>4, <1>7 DEF Bracketed, Nested
<1>11. t \in 1..pos /\ \A k \in 2..n : from[k] \in 1..pos
  BY <1>3, <1>4, <1>5 DEF Seen
<1>12. Paired(wider, fewer)'
  <2>1. DOMAIN wider \subseteq Seen(Openings)'
    BY <1>3, <1>4, <1>5, <1>6, <1>9
  <2>2. wider \in [DOMAIN wider -> Seen(Closings)']
    BY <1>5, <1>6, <1>9
  <2>3. \A k \in 2..(n - 1) : fewer[k] \in Seen(Openings)' \ DOMAIN wider
    BY <1>5, <1>6, <1>7, <1>9, <1>10, <1>11
  <2>4. ASSUME NEW i \in Seen(Openings)'
        PROVE  i \in DOMAIN wider \/ \E k \in 2..(n - 1) : fewer[k] = i
    BY <1>3, <1>4, <1>5, <1>6, <1>7, <1>9
  <2>5. \A j \in Seen(Closings)' : \E i \in DOMAIN wider : wider[i] = j
    BY <1>5, <1>6, <1>9
  <2>6. fewer \in [2..(n - 1) -> Seen(Openings)' \ DOMAIN wider]
    BY <1>7, <2>3
  <2> QED BY <1>2, <2>1, <2>2, <2>4, <2>5, <2>6 DEF Paired
<1>13. Nested(fewer)'
  <2>1. ASSUME NEW k \in 2..(n - 1) PROVE Opening(fewer[k], stack[k].rule)'
    <3>1. stack'[k].rule = stack[k].rule /\ fewer[k] = from[k]
      BY <1>2, <1>7
    <3>2. Opening(from[k], stack[k].rule)
      BY <1>1, <1>7 DEF Bracketed, Nested
    <3> QED BY <1>2, <3>1, <3>2 DEF Opening
  <2>2. ASSUME NEW k \in 2..(n - 1), NEW m \in 2..(n - 1), k < m PROVE fewer[k] < fewer[m]
    BY <1>1, <1>7, <2>2 DEF Bracketed, Nested
  <2> QED BY <1>2, <2>1, <2>2 DEF Nested
<1>14. /\ Opening(t, stack[n].rule) /\ Closing(pos + 1, stack[n].rule)
       /\ \A i \in DOMAIN pair :
            /\ i < pair[i] /\ \E rule \in Lists : Opening(i, rule) /\ Closing(pair[i], rule)
            /\ \A j \in DOMAIN pair : i < j => pair[i] < j \/ pair[j] < pair[i]
            /\ \A k \in 2..n : i < from[k] => pair[i] < from[k]
            /\ i \in 1..pos /\ pair[i] \in 1..pos
  BY <1>1, <1>2, <1>3, <1>4, <1>5 DEF Bracketed, Nested, Apart, Seen
<1>15. Apart(wider, fewer)'
  <2> SUFFICES ASSUME NEW i \in DOMAIN wider
               PROVE  /\ i < wider[i]
                      /\ \E rule \in Lists : Opening(i, rule)' /\ Closing(wider[i], rule)'
                      /\ \A j \in DOMAIN wider : i < j => wider[i] < j \/ wider[j] < wider[i]
                      /\ \A k \in 2..(n - 1) : i < fewer[k] => wider[i] < fewer[k]
    BY <1>2 DEF Apart
  <2>1. CASE i = t
    <3>1. i < wider[i]
      BY <1>2, <1>6, <1>11, <2>1
    <3>2. \E rule \in Lists : Opening(i, rule)' /\ Closing(wider[i], rule)'
      BY <1>2, <1>6, <1>14, <2>1, SameText
    <3>3. \A j \in DOMAIN wider : i < j => wider[j] < wider[i]
      BY <1>2, <1>6, <1>11, <1>14, <2>1
    <3>4. \A k \in 2..(n - 1) : ~(i < fewer[k])
      BY <1>7, <1>10, <1>11, <2>1
    <3> QED BY <3>1, <3>2, <3>3, <3>4
  <2>2. CASE i \in DOMAIN pair
    <3>1. i < wider[i] /\ \E rule \in Lists : Opening(i, rule) /\ Closing(wider[i], rule)
      BY <1>6, <1>14, <2>2
    <3>2. ASSUME NEW j \in DOMAIN wider, i < j PROVE wider[i] < j \/ wider[j] < wider[i]
      BY <1>3, <1>4, <1>6, <1>14, <2>2, <3>2
    <3>3. ASSUME NEW k \in 2..(n - 1), i < fewer[k] PROVE wider[i] < fewer[k]
      BY <1>6, <1>7, <1>14, <2>2, <3>3
    <3> QED BY <1>2, <3>1, <3>2, <3>3, SameText
  <2> QED BY <1>6, <2>1, <2>2
<1>16. Forced(wider)
  <2> SUFFICES ASSUME NEW whole \in [Openings -> Closings], PairsUp(whole),
                      NEW i \in DOMAIN wider
               PROVE  whole[i] = wider[i]
    BY DEF Forced
  <2>1. CASE i = t
    <3>1. pos + 1 \in Closings
      BY <1>2, PositionFacts
    <3>2. whole[from[Len(stack)]] = pos + 1
      BY <3>1, EndsLast
    <3> QED BY <1>1, <1>4, <1>6, <2>1, <3>2
  <2>2. CASE i \in DOMAIN pair
    BY <1>6, <2>2 DEF Bracketed, Forced
  <2> QED BY <1>6, <2>1, <2>2
<1> QED BY <1>2, <1>12, <1>13, <1>15, <1>16, SameText DEF Bracketed

\* At the end, with no list in progress, the brackets are paired.
LEMMA EndPairs ==
    ASSUME Stacked, MatchEnd, NEW pair, NEW from, Bracketed(pair, from)
    PROVE  /\ ast' = {Matched(Top)} /\ Matched(Top) # Null
           /\ pair \in [Openings -> Closings] /\ PairsUp(pair)
<1>1. pos = Len(text) /\ Top.rule = "lisp" /\ ast' = {Matched(Top)}
  BY DEF MatchEnd
<1>2. 2..Len(stack) = {}
  <2>1. Len(stack) = 1
    BY <1>1, StackFacts
  <2>2. 2..1 = {}
    OBVIOUS
  <2> QED BY <2>1, <2>2
<1>3. Matched(Top) # Null
  BY StackFacts, MatchedFacts, NotNull DEF Top
<1>4. Seen(Openings) = Openings /\ Seen(Closings) = Closings
  BY <1>1, PositionFacts DEF Seen
<1>5. DOMAIN pair = Openings /\ pair \in [Openings -> Closings]
  BY <1>2, <1>4 DEF Bracketed, Paired
<1>6. PairsUp(pair)
  BY <1>4, <1>5 DEF Bracketed, Paired, Apart, PairsUp
<1> QED BY <1>1, <1>3, <1>5, <1>6

\* Where matching stops, no pairing is possible.
LEMMA NoPairs ==
    ASSUME Stacked, Mismatch, NEW pair, NEW from, Bracketed(pair, from),
           NEW whole \in [Openings -> Closings]
    PROVE  ~PairsUp(whole)
<1>1. SUFFICES ASSUME PairsUp(whole) PROVE FALSE
  OBVIOUS
<1>2. PICK n \in Nat \ {0} : n = Len(stack)
  BY StackFacts
<1>3. pos \in Nat /\ pos \in 0..Len(text) /\ Len(text) \in Nat
  BY DEF Stacked
<1>4. CASE pos = Len(text)
  <2>1. n # 1
    BY <1>2, <1>4, StackFacts DEF Mismatch
  <2>2. n \in 2..n
    BY <2>1
  <2>3. whole[from[n]] > pos
    BY <1>1, <1>2, <2>2, EndsLater
  <2>4. from[n] \in Openings
    BY <1>2, <2>2 DEF Bracketed, Paired, Seen
  <2>5. whole[from[n]] \in 1..Len(text)
    BY <2>4, PositionFacts
  <2> QED BY <1>3, <1>4, <2>3, <2>5
<1>5. CASE pos # Len(text)
  <2>1. PICK rule \in Lists : Ahead(Bracket(Brackets.close[rule]))
    BY <1>5 DEF Mismatch
  <2>2. Closing(pos + 1, rule) /\ Top.rule # rule
    BY <1>5, <2>1 DEF Mismatch, Closes, Ahead, Closing
  <2>3. pos + 1 \in Closings
    BY <1>3, <1>5, <2>2, PositionFacts
  <2>4. n # 1 /\ whole[from[n]] = pos + 1
    BY <1>1, <1>2, <2>3, EndsLast
  <2>5. n \in 2..n /\ n \in 1..n
    BY <2>4
  <2>6. from[n] \in Openings /\ Opening(from[n], stack[n].rule)
    BY <1>2, <2>5 DEF Bracketed, Paired, Nested, Seen
  <2>7. PICK s \in Lists : Opening(from[n], s) /\ Closing(pos + 1, s)
    BY <1>1, <2>4, <2>6 DEF PairsUp
  <2>8. s = rule
    BY <2>2, <2>7, BracketFacts DEF Closing
  <2>9. stack[n].rule \in Lists
    BY <1>2, <2>4, <2>5 DEF Stacked
  <2>10. stack[n].rule = s
    BY <2>6, <2>7, <2>9, BracketFacts DEF Opening
  <2> QED BY <1>2, <2>2, <2>8, <2>10 DEF Top
<1> QED BY <1>4, <1>5

----------------------------------------------------------------------------
(* What is read *)

\* What names a rule of the grammar, and what does not.
LEMMA TagsOf ==
    ASSUME NEW rule, NEW last, NEW contents, NEW children, NEW name,
           name # "atom", name # last, NEW t, t = Node(<<"atom", rule, last>>, contents, children)
    PROVE  /\ Tagged(t, name) <=> rule = name
           /\ t.contents = contents /\ t.children = children /\ Len(t.tag) = 3
<1> DEFINE tag == <<"atom", rule, last>>
<1>1. Len(tag) = 3 /\ tag[1] = "atom" /\ tag[2] = rule /\ tag[3] = last
  OBVIOUS
<1> HIDE DEF tag
<1>2. t = Node(tag, contents, children)
  BY DEF tag
<1>3. t.tag = tag /\ t.contents = contents /\ t.children = children
  BY <1>2 DEF Node
<1>4. Tagged(t, name) <=> \E i \in 1..3 : tag[i] = name
  BY <1>1, <1>3 DEF Tagged
<1>5. (\E i \in 1..3 : tag[i] = name) <=> tag[1] = name \/ tag[2] = name \/ tag[3] = name
  OBVIOUS
<1> QED BY <1>1, <1>3, <1>4, <1>5

\* Not a bracket.
Wordy(contents) == contents \notin {"(", ")", "{", "}"}

\* Such a node is not one of the ends.
LEMMA NotAnEnd ==
    ASSUME NEW rule, NEW last, NEW contents, NEW children, last # "comment",
           Wordy(contents),
           NEW t, t = Node(<<"atom", rule, last>>, contents, children)
    PROVE  Skipped(t) <=> rule = "comment"
<1>1. t.contents = contents /\ Len(t.tag) = 3 /\ (Tagged(t, "comment") <=> rule = "comment")
  <2>1. PICK name : name = "comment"
    OBVIOUS
  <2>2. name # "atom" /\ name # last
    BY <2>1
  <2>3. /\ Tagged(t, name) <=> rule = name
        /\ t.contents = contents /\ t.children = children /\ Len(t.tag) = 3
    BY <2>2, TagsOf
  <2> QED BY <2>1, <2>3, Zenon
<1>2. t.tag # <<"regex">>
  <2>1. \A x : Len(<<x>>) = 1
    OBVIOUS
  <2>2. Len(<<"regex">>) = 1
    BY <2>1, Zenon
  <2> DEFINE end == <<"regex">>
  <2>3. Len(end) = 1
    BY <2>2
  <2> HIDE DEF end
  <2>4. 1 # 3
    OBVIOUS
  <2>5. t.tag # end
    BY <1>1, <2>3, <2>4, Zenon
  <2> QED BY <2>5 DEF end
<1> QED BY <1>1, <1>2, Zenon DEF Skipped, Wordy

\* What an atom lends: its tag is the names of the rules it is an atom by.
LEMMA LeafLends ==
    ASSUME NEW token, token.rule # "char"
    PROVE  Lent(Atom(token.rule, Lexeme(token)))
             = Node(<<"atom", token.rule, "regex">>, token.is, <<>>)
<1> DEFINE r == token.rule
           c == token.is
<1>1. Lexeme(token) = Node(<<"regex">>, c, <<>>)
  BY DEF Lexeme, mpc_ast_new, Node
<1> HIDE DEF r, c
<1>2. Named(r, Node(<<"regex">>, c, <<>>)) = Node(<<r, "regex">>, c, <<>>)
  <2>1. <<r>> \o <<"regex">> = <<r, "regex">>
    BY JoinFacts
  <2> QED BY <2>1, NamedLeaf, TagFacts
<1>3. Named("atom", Node(<<r, "regex">>, c, <<>>)) = Node(<<"atom", r, "regex">>, c, <<>>)
  <2>1. <<"atom">> \o <<r, "regex">> = <<"atom", r, "regex">> /\ IsTag(<<r, "regex">>)
    <3>1. <<r, "regex">> = <<r>> \o <<"regex">>
      BY JoinFacts
    <3>2. IsTag(<<r>> \o <<"regex">>)
      BY TagFacts
    <3>3. <<"atom">> \o <<r, "regex">> = <<"atom", r, "regex">>
      BY JoinFacts
    <3> QED BY <3>1, <3>2, <3>3
  <2> QED BY <2>1, NamedLeaf
<1> DEFINE a == Node(<<"atom", r, "regex">>, c, <<>>)
<1>4. Atom(r, Lexeme(token)) = a
  BY <1>1, <1>2, <1>3 DEF Atom
<1>5. Spliced(a) = <<a>>
  <2>1. IsTag(<<"atom", r, "regex">>)
    <3>1. <<"atom", r, "regex">> = <<"atom">> \o (<<r>> \o <<"regex">>)
      BY JoinFacts
    <3> QED BY <3>1, TagFacts
  <2> HIDE DEF a
  <2>2. IsNode(a) /\ a.children = <<>>
    BY <2>1, NodeFacts DEF a
  <2>3. Whole(a) /\ Len(a.children) = 0
    BY <2>2 DEF Whole
  <2> QED BY <2>3, SplicedWhole
<1> QED BY <1>4, <1>5 DEF Lent, r, c

LEMMA ListLends ==
    ASSUME NEW rule, NEW children, Len(children) \in Nat, Len(children) > 1
    PROVE  Lent(Atom(rule, Node(<<">">>, "", children)))
             = Node(<<"atom", rule, ">">>, "", children)
<1> DEFINE inner == Node(<<rule, ">">>, "", children)
           outer == Node(<<"atom", ">">>, "", <<inner>>)
           lent  == Node(<<"atom", rule, ">">>, "", children)
<1>1. Named(rule, Node(<<">">>, "", children)) = Node(<<">">>, "", <<inner>>)
  <2>1. mpc_ast_add_tag(Node(<<">">>, "", children), rule) = inner
    <3>1. <<rule>> \o <<">">> = <<rule, ">">>
      BY JoinFacts
    <3>2. \A tag : IsTag(tag) => mpc_ast_add_tag(Node(tag, "", children), rule)
                                  = Node(<<rule>> \o tag, "", children)
      BY AddTag
    <3>3. IsTag(<<">">>)
      BY TagFacts
    <3> QED BY <3>1, <3>2, <3>3, Zenon
  <2>2. inner.children = children
    BY DEF Node
  <2> HIDE DEF inner
  <2>3. PICK n \in Nat : n = Len(inner.children) /\ n > 1
    BY <2>2
  <2>4. ~(Len(inner.children) <= 1)
    BY <2>3
  <2> QED BY <2>1, <2>4, RootFacts DEF Named, mpc_ast_add_root
<1> HIDE DEF inner
<1>2. Named("atom", Node(<<">">>, "", <<inner>>)) = outer
  <2>1. mpc_ast_add_tag(Node(<<">">>, "", <<inner>>), "atom") = outer
    <3>1. <<"atom">> \o <<">">> = <<"atom", ">">>
      BY JoinFacts
    <3>2. \A tag, kids : IsTag(tag) => mpc_ast_add_tag(Node(tag, "", kids), "atom")
                                        = Node(<<"atom">> \o tag, "", kids)
      BY AddTag
    <3>3. IsTag(<<">">>)
      BY TagFacts
    <3> QED BY <3>1, <3>2, <3>3, Zenon
  <2>2. outer.children = <<inner>> /\ Len(<<inner>>) = 1
    BY DEF Node
  <2> HIDE DEF outer
  <2>3. Len(outer.children) <= 1
    BY <2>2
  <2> QED BY <2>1, <2>3 DEF Named, mpc_ast_add_root
<1>3. Atom(rule, Node(<<">">>, "", children)) = outer
  BY <1>1, <1>2 DEF Atom
<1>4. Spliced(outer) = <<mpc_ast_add_root_tag(inner, <<"atom", ">">>)>>
  <2>1. outer.children = <<inner>> /\ outer.tag = <<"atom", ">">> /\ Len(<<inner>>) = 1
        /\ <<inner>>[1] = inner
    BY DEF Node
  <2>2. outer # Null
    <3>1. IsTag(<<"atom", ">">>)
      <4>1. <<"atom", ">">> = <<"atom">> \o <<">">>
        BY JoinFacts
      <4> QED BY <4>1, TagFacts
    <3> QED BY <3>1, NodeFacts, NotNull
  <2> HIDE DEF outer
  <2> QED BY <2>1, <2>2 DEF Spliced
<1>5. mpc_ast_add_root_tag(inner, <<"atom", ">">>) = lent
  <2>1. Front(<<"atom", ">">>) \o <<rule, ">">> = <<"atom", rule, ">">>
    <3>1. Front(<<"atom", ">">>) = <<"atom">>
      BY JoinFacts
    <3>2. <<"atom">> \o <<rule, ">">> = <<"atom", rule, ">">>
      BY JoinFacts
    <3> QED BY <3>1, <3>2
  <2>2. \A old, tag : mpc_ast_add_root_tag(Node(old, "", children), tag)
                        = Node(Front(tag) \o old, "", children)
    BY AddRootTag
  <2> QED BY <2>1, <2>2, Zenon DEF inner
<1>6. <<lent>>[1] = lent
  <2> HIDE DEF lent
  <2> QED OBVIOUS
<1>7. Spliced(outer)[1] = lent
  <2> HIDE DEF lent, outer
  <2> QED BY <1>4, <1>5, <1>6
<1> QED BY <1>3, <1>7, Zenon DEF Lent

\* The brackets and the ends of the program are skipped.
LEMMA EndsSkipped ==
    ASSUME NEW f, f.rule \in Lists \cup {"lisp"}, NEW i \in 1..2
    PROVE  Skipped(Around(f)[i])
<1>1. CASE f.rule = "lisp"
  <2> DEFINE end == mpc_ast_new(<<"regex">>, "")
  <2>1. Around(f) = <<end, end>>
    BY <1>1 DEF Around
  <2>2. end.tag = <<"regex">>
    BY DEF mpc_ast_new
  <2> HIDE DEF end
  <2>3. \A x : <<x, x>>[i] = x
    OBVIOUS
  <2>4. Around(f)[i] = end
    BY <2>1, <2>3
  <2> QED BY <2>2, <2>4, Zenon DEF Skipped
<1>2. CASE f.rule \in Lists
  <2>1. f.rule # "lisp"
    BY <1>2 DEF Lists
  <2> DEFINE opens == Brackets.open[f.rule]
             closes == Brackets.close[f.rule]
             marks == {"(", ")", "{", "}"}
  <2>2. opens \in marks /\ closes \in marks
    <3>1. /\ Brackets.open["sexpr"] = "(" /\ Brackets.open["qexpr"] = "{"
          /\ Brackets.close["sexpr"] = ")" /\ Brackets.close["qexpr"] = "}"
      BY DEF Brackets
    <3>2. f.rule = "sexpr" \/ f.rule = "qexpr"
      BY <1>2 DEF Lists
    <3>3. CASE f.rule = "sexpr"
      BY <3>1, <3>3, Zenon
    <3>4. CASE f.rule = "qexpr"
      BY <3>1, <3>4, Zenon
    <3> QED BY <3>2, <3>3, <3>4
  <2>3. Around(f) = <<Lexeme(Bracket(opens)), Lexeme(Bracket(closes))>>
    BY <2>1 DEF Around
  <2>4. \A c : Lexeme(Bracket(c)).contents = c
    BY DEF Lexeme, Bracket, mpc_ast_new
  <2> HIDE DEF opens, closes, marks
  <2>5. Around(f)[i] = Lexeme(Bracket(opens)) \/ Around(f)[i] = Lexeme(Bracket(closes))
    BY <2>3
  <2>6. Around(f)[i].contents \in marks
    BY <2>2, <2>4, <2>5
  <2> QED BY <2>6, Zenon DEF Skipped, marks
<1> QED BY <1>1, <1>2

LEMMA GrowsRead ==
    ASSUME RulesKept, NEW T, NEW ts \in Seq(T), NEW t, NEW cells \in ReadAll(ts)
    PROVE  /\ Skipped(t) => cells \in ReadAll(Append(ts, t))
           /\ ~Skipped(t) => \A v \in Read(t) : Append(cells, v) \in ReadAll(Append(ts, t))
<1>1. ts \in Seq(T \cup {t}) /\ t \in T \cup {t}
  BY SeqMonotonic
<1>2. KeepsTrees(ts, t)
  BY <1>1, Zenon DEF RulesKept
<1> QED BY <1>2 DEF KeepsTrees

\* A token that a regular expression matches.
LEMMA WordFacts ==
    ASSUME NEW token \in Tokens, token.rule # "char"
    PROVE  /\ token.rule \in {"number", "string", "symbol", "comment"}
           /\ Wordy(token.is)
<1>1. token \notin {Bracket(c) : c \in {"(", ")", "{", "}"}}
  BY BracketFacts
<1> QED BY <1>1 DEF Tokens, Wordy

LEMMA WordReads ==
    ASSUME RulesKept, NEW token \in Tokens, token.rule # "char",
           NEW t, t = Node(<<"atom", token.rule, "regex">>, token.is, <<>>)
    PROVE  /\ Skipped(t) <=> token.rule = "comment"
           /\ token.rule # "comment" => Word(token) \in Read(t)
<1>1. token.rule \in {"number", "string", "symbol", "comment"} /\ Wordy(token.is)
  BY WordFacts
<1>2. Skipped(t) <=> token.rule = "comment"
  BY <1>1, NotAnEnd
<1>3. ASSUME NEW name \in {"number", "string", "symbol", "sexpr", "qexpr"}
      PROVE  (Tagged(t, name) <=> token.rule = name) /\ t.contents = token.is /\ t.children = <<>>
  <2>1. name # "atom" /\ name # "regex"
    OBVIOUS
  <2> QED BY <2>1, TagsOf
<1>4. OfNode(t, <<>>) \in Read(t)
  <2>1. <<>> \in ReadAll(t.children) /\ KeepsTree(t)
    BY <1>3 DEF RulesKept
  <2> QED BY <2>1 DEF KeepsTree
<1>5. ASSUME token.rule # "comment" PROVE OfNode(t, <<>>) = Word(token)
  <2>1. /\ Tagged(t, "number") <=> token.rule = "number"
        /\ Tagged(t, "string") <=> token.rule = "string"
        /\ Tagged(t, "symbol") <=> token.rule = "symbol"
        /\ t.contents = token.is
    BY <1>3
  <2>2. CASE token.rule = "number"
    BY <2>1, <2>2 DEF OfNode, lval_rnum, Word, WordType
  <2>3. CASE token.rule = "string"
    BY <2>1, <2>3 DEF OfNode, Word, WordType
  <2>4. CASE token.rule = "symbol"
    BY <2>1, <2>4 DEF OfNode, Word, WordType
  <2> QED BY <1>1, <1>5, <2>2, <2>3, <2>4
<1> QED BY <1>2, <1>4, <1>5

LEMMA ListReads ==
    ASSUME RulesKept, NEW rule \in Lists, NEW children, NEW cells \in ReadAll(children),
           NEW contents, Wordy(contents),
           NEW t, t = Node(<<"atom", rule, ">">>, contents, children)
    PROVE  ~Skipped(t) /\ [type |-> rule, cell |-> cells] \in Read(t)
<1>1. ~Skipped(t)
  <2>1. rule # "comment"
    BY DEF Lists
  <2> QED BY <2>1, NotAnEnd
<1>2. ASSUME NEW name \in {"number", "string", "symbol", "sexpr", "qexpr"}
      PROVE  (Tagged(t, name) <=> rule = name) /\ t.children = children
  <2>1. name # "atom" /\ name # ">"
    OBVIOUS
  <2> QED BY <2>1, TagsOf
<1>3. OfNode(t, cells) \in Read(t)
  <2>1. KeepsTree(t) /\ t.children = children
    BY <1>2 DEF RulesKept
  <2> QED BY <2>1 DEF KeepsTree
<1>4. /\ ~Tagged(t, "number") /\ ~Tagged(t, "string") /\ ~Tagged(t, "symbol")
      /\ Tagged(t, "qexpr") <=> rule = "qexpr"
      /\ Tagged(t, "sexpr") <=> rule = "sexpr"
  BY <1>2 DEF Lists
<1>5. OfNode(t, cells) = [type |-> rule, cell |-> cells]
  BY <1>4 DEF OfNode, Lists
<1> QED BY <1>1, <1>3, <1>5

LEMMA ProgramReads ==
    ASSUME RulesKept, NEW children, NEW cells \in ReadAll(children), NEW contents,
           NEW t, t = Node(<<">">>, contents, children)
    PROVE  [type |-> "sexpr", cell |-> cells] \in Read(t)
<1>1. t.tag = <<">">> /\ t.children = children
  BY DEF Node
<1>2. ASSUME NEW name, name # ">" PROVE ~Tagged(t, name)
  <2> DEFINE tag == <<">">>
  <2>1. Len(tag) = 1 /\ tag[1] = ">" /\ t.tag = tag
    BY <1>1
  <2> HIDE DEF tag
  <2>2. SUFFICES ASSUME Tagged(t, name) PROVE FALSE
    OBVIOUS
  <2>3. PICK i \in 1..Len(tag) : tag[i] = name
    BY <2>1, <2>2, Zenon DEF Tagged
  <2>4. i = 1
    BY <2>1
  <2> QED BY <1>2, <2>1, <2>3, <2>4
<1>3. OfNode(t, cells) \in Read(t)
  BY <1>1 DEF RulesKept, KeepsTree
<1>4. /\ ~Tagged(t, "number") /\ ~Tagged(t, "string") /\ ~Tagged(t, "symbol")
      /\ ~Tagged(t, "qexpr")
  BY <1>2
<1>5. OfNode(t, cells) = [type |-> "sexpr", cell |-> cells]
  BY <1>1, <1>4, Zenon DEF OfNode
<1> QED BY <1>3, <1>5

\* What f has matched, the tokens w, says the cells that its children are read as.
Told(f, w) == \E cells \in ReadAll(Kids(f)) : Says(w, cells)

LEMMA ToldNew ==
    ASSUME RulesKept, NEW rule \in Lists \cup {"lisp"}
    PROVE  Told([rule |-> rule, atoms |-> <<>>], <<>>)
<1> DEFINE f == [rule |-> rule, atoms |-> <<>>]
           x == Around(f)[1]
           lent == [i \in 1..Len(f.atoms) |-> Lent(f.atoms[i])]
           none == <<>>
<1>1. Skipped(x)
  <2>1. f.rule \in Lists \cup {"lisp"} /\ 1 \in 1..2
    OBVIOUS
  <2> HIDE DEF f
  <2> QED BY <2>1, EndsSkipped
<1>2. lent = none
  BY DEF none
<1> HIDE DEF f, x
<1>3. none \in Seq({x}) /\ <<x>> \in Seq({x})
  OBVIOUS
<1>4. Kids(f) = <<x>> \o none
  BY <1>2 DEF Kids, x
<1> HIDE DEF lent
<1>5. <<x>> \o none = Append(none, x)
  <2>1. Append(none, x) = none \o <<x>>
    BY <1>3, AppendIsConcat
  <2> QED BY <1>3, <2>1, ConcatEmptySeq
<1>6. none \in ReadAll(none) /\ Says(none, none)
  BY DEF RulesKept
<1> HIDE DEF none
<1>7. none \in ReadAll(Append(none, x))
  BY <1>1, <1>3, <1>6, GrowsRead
<1>8. Told(f, none)
  BY <1>4, <1>5, <1>6, <1>7 DEF Told
<1> QED BY <1>8 DEF f, none

LEMMA ToldWord ==
    ASSUME RulesKept, NEW f, FrameOK(f), NEW w \in Seq(Tokens), Told(f, w),
           NEW token \in Tokens, token.rule # "char",
           NEW g, g = [rule |-> f.rule,
                       atoms |-> Append(f.atoms, Atom(token.rule, Lexeme(token)))]
    PROVE  Told(g, Append(w, token))
<1>1. PICK cells \in ReadAll(Kids(f)) : Says(w, cells)
  BY DEF Told
<1>2. PICK t : t = Node(<<"atom", token.rule, "regex">>, token.is, <<>>)
  OBVIOUS
<1>3. Lent(Atom(token.rule, Lexeme(token))) = t
  BY <1>2, LeafLends, Zenon
<1>4. Kids(g) = Append(Kids(f), t)
  BY <1>3, KidsGrow
<1>5. PICK S : Kids(f) \in Seq(S)
  BY KidsFacts
<1>6. Skipped(t) <=> token.rule = "comment"
  BY <1>2, WordReads
<1>7. KeepsWord(w, cells, token)
  BY DEF RulesKept
<1>8. CASE token.rule = "comment"
  <2>1. cells \in ReadAll(Append(Kids(f), t))
    BY <1>5, <1>6, <1>8, GrowsRead
  <2>2. Says(Append(w, token), cells)
    BY <1>1, <1>7, <1>8 DEF KeepsWord
  <2> QED BY <1>4, <2>1, <2>2 DEF Told
<1>9. CASE token.rule # "comment"
  <2>1. Word(token) \in Read(t)
    BY <1>2, <1>9, WordReads
  <2>2. Append(cells, Word(token)) \in ReadAll(Append(Kids(f), t))
    BY <1>5, <1>6, <1>9, <2>1, GrowsRead
  <2>3. Says(Append(w, token), Append(cells, Word(token)))
    BY <1>1, <1>7, <1>9 DEF KeepsWord
  <2> QED BY <1>4, <2>2, <2>3 DEF Told
<1> QED BY <1>8, <1>9

LEMMA ToldList ==
    ASSUME RulesKept, NEW f, FrameOK(f), f.rule \in Lists, NEW u \in Seq(Tokens), Told(f, u),
           NEW below, FrameOK(below), NEW w \in Seq(Tokens), Told(below, w),
           NEW g, g = [rule |-> below.rule,
                       atoms |-> Append(below.atoms, Atom(f.rule, Matched(f)))]
    PROVE  Told(g, Append(Append(w, Bracket(Brackets.open[f.rule])) \o u,
                          Bracket(Brackets.close[f.rule])))
<1>1. PICK inner \in ReadAll(Kids(f)) : Says(u, inner)
  BY DEF Told
<1>2. PICK cells \in ReadAll(Kids(below)) : Says(w, cells)
  BY DEF Told
<1>3. PICK children : children = Append(Kids(f), Around(f)[2])
  OBVIOUS
<1>4. PICK S : Kids(f) \in Seq(S) /\ Len(Kids(f)) \in Nat /\ Len(Kids(f)) >= 1
  BY KidsFacts
<1>5. inner \in ReadAll(children)
  <2>1. Skipped(Around(f)[2])
    <3>1. f.rule \in Lists \cup {"lisp"} /\ 2 \in 1..2
      OBVIOUS
    <3> QED BY <3>1, EndsSkipped
  <2> QED BY <1>3, <1>4, <2>1, GrowsRead
<1>6. Len(children) \in Nat /\ Len(children) > 1
  <2>1. Kids(f) \in Seq(S \cup {Around(f)[2]})
    BY <1>4, SeqMonotonic
  <2>2. Len(children) = Len(Kids(f)) + 1
    BY <1>3, <2>1, AppendProperties
  <2> QED BY <1>4, <2>2
<1>7. PICK t : t = Node(<<"atom", f.rule, ">">>, "", children)
  OBVIOUS
<1>8. Lent(Atom(f.rule, Matched(f))) = t
  <2>1. Matched(f) = Node(<<">">>, "", children)
    BY <1>3, MatchedIs
  <2>2. Lent(Atom(f.rule, Node(<<">">>, "", children)))
           = Node(<<"atom", f.rule, ">">>, "", children)
    BY <1>6, ListLends
  <2> QED BY <1>7, <2>1, <2>2
<1>9. Kids(g) = Append(Kids(below), t)
  BY <1>8, KidsGrow
<1> DEFINE v == [type |-> f.rule, cell |-> inner]
<1>10. ~Skipped(t) /\ v \in Read(t)
  <2>1. Wordy("")
    BY DEF Wordy
  <2>2. \A contents : Wordy(contents) /\ t = Node(<<"atom", f.rule, ">">>, contents, children)
                         => ~Skipped(t) /\ v \in Read(t)
    BY <1>5, ListReads
  <2> QED BY <1>7, <2>1, <2>2, Zenon
<1> HIDE DEF v
<1>11. PICK R : Kids(below) \in Seq(R)
  BY KidsFacts
<1>12. Append(cells, v) \in ReadAll(Append(Kids(below), t))
  BY <1>10, <1>11, GrowsRead
<1>13. KeepsList(w, cells, u, inner)
  BY DEF RulesKept
<1>14. Says(Append(Append(w, Bracket(Brackets.open[f.rule])) \o u,
                   Bracket(Brackets.close[f.rule])), Append(cells, v))
  BY <1>1, <1>2, <1>13 DEF KeepsList, v
<1> QED BY <1>9, <1>12, <1>14 DEF Told

LEMMA ToldEnd ==
    ASSUME RulesKept, NEW f, FrameOK(f), f.rule = "lisp", NEW w, Told(f, w)
    PROVE  \E v \in Read(Matched(f)) : v.type = "sexpr" /\ Says(w, v.cell)
<1>1. PICK cells \in ReadAll(Kids(f)) : Says(w, cells)
  BY DEF Told
<1>2. PICK S : Kids(f) \in Seq(S)
  BY KidsFacts
<1>3. PICK children : children = Append(Kids(f), Around(f)[2])
  OBVIOUS
<1>4. cells \in ReadAll(children)
  <2>1. Skipped(Around(f)[2])
    <3>1. f.rule \in Lists \cup {"lisp"} /\ 2 \in 1..2
      OBVIOUS
    <3> QED BY <3>1, EndsSkipped
  <2> QED BY <1>2, <1>3, <2>1, GrowsRead
<1>5. Matched(f) = Node(<<">">>, "", children)
  BY <1>3, MatchedIs
<1> DEFINE v == [type |-> "sexpr", cell |-> cells]
<1>6. v \in Read(Matched(f))
  <2>1. \A contents, t : t = Node(<<">">>, contents, children) => v \in Read(t)
    BY <1>4, ProgramReads
  <2> QED BY <1>5, <2>1, Zenon
<1>7. v.type = "sexpr" /\ v.cell = cells
  OBVIOUS
<1> HIDE DEF v
<1> QED BY <1>1, <1>6, <1>7

----------------------------------------------------------------------------
(* What has been read *)

\* The tokens after m up to n.
Between(m, n) == SubSeq(text, m + 1, n)

\* Where the part of a rule in progress ends that the next one is not in.
UpTo(b, k) == IF k = Len(stack) THEN pos ELSE b[k + 1] - 1

\* Each rule in progress has begun after b, which is its bracket, and what it has matched
\* since says the cells its children are read as.
ToldSoFar(b) ==
    /\ b = [k \in 1..Len(stack) |-> b[k]] /\ b[1] = 0
    /\ \A k \in 1..Len(stack) : b[k] \in 0..pos /\ Told(stack[k], Between(b[k], UpTo(b, k)))
    /\ \A k \in 2..Len(stack) : b[k - 1] < b[k] /\ Opening(b[k], stack[k].rule)

\* A stretch from m on is one up to a token at j, that token, one up to p, and one more.
Stretched(s, m, j, p) ==
    SubSeq(s, m + 1, p + 1)
      = Append(Append(SubSeq(s, m + 1, j - 1), s[j]) \o SubSeq(s, j + 1, p), s[p + 1])

LEMMA Regrouped ==
    ASSUME NEW S, NEW s \in Seq(S), NEW m \in Nat, NEW j \in Nat, NEW p \in Nat,
           m < j, j <= p, p < Len(s)
    PROVE  Stretched(s, m, j, p)
<1>1. SubSeq(s, m + 1, p + 1) = Append(SubSeq(s, m + 1, p), s[p + 1])
  BY GrownFacts
<1>2. SubSeq(s, m + 1, j) \o SubSeq(s, j + 1, p) = SubSeq(s, m + 1, p)
  <2>1. m + 1 \in 1..(Len(s) + 1) /\ j \in (m + 1 - 1)..Len(s) /\ p \in j..Len(s)
    OBVIOUS
  <2> QED BY <2>1, ConcatAdjacentSubSeq
<1>3. SubSeq(s, m + 1, j) = Append(SubSeq(s, m + 1, j - 1), s[j])
  <2>1. PICK i \in Nat : j = i + 1 /\ m <= i /\ i < Len(s) /\ j - 1 = i
    <3>1. j - 1 \in Nat /\ j = (j - 1) + 1 /\ m <= j - 1 /\ j - 1 < Len(s)
      OBVIOUS
    <3> QED BY <3>1
  <2>2. SubSeq(s, m + 1, i + 1) = Append(SubSeq(s, m + 1, i), s[i + 1])
    BY <2>1, GrownFacts
  <2> QED BY <2>1, <2>2
<1> QED BY <1>1, <1>2, <1>3 DEF Stretched

LEMMA ToldInit ==
    ASSUME RulesKept, Init
    PROVE  \E b : ToldSoFar(b)
<1> DEFINE f == [rule |-> "lisp", atoms |-> <<>>]
           b == [k \in 1..1 |-> 0]
<1>1. stack = <<f>> /\ pos = 0
  BY DEF Init
<1>2. Told(f, <<>>)
  BY ToldNew
<1> HIDE DEF f
<1>3. Len(stack) = 1 /\ stack[1] = f
  BY <1>1
<1>4. Between(0, 0) = <<>>
  BY SubSeqEmpty DEF Between
<1>5. b[1] = 0 /\ b = [k \in 1..Len(stack) |-> b[k]]
  BY <1>3
<1> HIDE DEF b
<1>6. \A k \in 1..Len(stack) : b[k] \in 0..pos /\ Told(stack[k], Between(b[k], UpTo(b, k)))
  <2> SUFFICES ASSUME NEW k \in 1..Len(stack)
               PROVE  b[k] \in 0..pos /\ Told(stack[k], Between(b[k], UpTo(b, k)))
    OBVIOUS
  <2>1. k = 1
    BY <1>3
  <2>2. UpTo(b, k) = 0
    BY <1>1, <1>3, <2>1 DEF UpTo
  <2> QED BY <1>1, <1>2, <1>3, <1>4, <1>5, <2>1, <2>2
<1>7. \A k \in 2..Len(stack) : b[k - 1] < b[k] /\ Opening(b[k], stack[k].rule)
  BY <1>3
<1> QED BY <1>5, <1>6, <1>7 DEF ToldSoFar

LEMMA ToldRegex ==
    ASSUME RulesKept, Stacked, MatchRegex, NEW b, ToldSoFar(b)
    PROVE  ToldSoFar(b)'
<1>1. PICK n \in Nat \ {0} : n = Len(stack)
  BY StackFacts
<1>2. /\ text' = text /\ pos' = pos + 1 /\ pos \in Nat /\ pos + 1 \in 1..Len(text)
      /\ text \in Seq(Tokens) /\ text[pos + 1] \in Tokens /\ text[pos + 1].rule # "char"
      /\ Len(stack') = n
  BY <1>1, RegexStep DEF Stacked
<1>3. PICK tok : tok = text[pos + 1]
  OBVIOUS
<1> DEFINE f == stack[n]
           g == [rule |-> f.rule, atoms |-> Append(f.atoms, Atom(tok.rule, Lexeme(tok)))]
<1>4. stack' = [stack EXCEPT ![n] = g]
  <2>1. stack' = Found(stack, Atom(tok.rule, Lexeme(tok)))
    BY <1>3 DEF MatchRegex
  <2> QED BY <1>1, <2>1, FoundIs DEF Stacked
<1> HIDE DEF g
<1>5. stack'[n] = g /\ \A k \in 1..n : k # n => stack'[k] = stack[k]
  <2>1. PICK F : stack \in Seq(F)
    BY DEF Stacked
  <2> QED BY <1>1, <1>4, <2>1
<1>6. /\ b = [k \in 1..n |-> b[k]] /\ b[1] = 0
      /\ \A k \in 1..n : b[k] \in 0..pos /\ Told(stack[k], Between(b[k], UpTo(b, k)))
      /\ \A k \in 2..n : b[k - 1] < b[k] /\ Opening(b[k], stack[k].rule)
  BY <1>1 DEF ToldSoFar
<1>7. Told(g, Between(b[n], pos'))
  <2> DEFINE w == Between(b[n], pos)
  <2>1. n \in 1..n /\ b[n] \in Nat /\ b[n] <= pos /\ pos < Len(text)
    BY <1>2, <1>6
  <2>2. w \in Seq(Tokens)
    BY <1>2, <2>1, StretchFacts DEF Between
  <2>3. Between(b[n], pos + 1) = Append(w, tok)
    BY <1>2, <1>3, <2>1, GrownFacts DEF Between
  <2>4. UpTo(b, n) = pos
    BY <1>1 DEF UpTo
  <2>5. Told(f, w)
    BY <1>6, <2>1, <2>4
  <2>6. FrameOK(f)
    BY <1>1, <2>1, StackFacts
  <2> HIDE DEF w
  <2>7. Told(g, Append(w, tok))
    BY <1>2, <1>3, <2>2, <2>5, <2>6, ToldWord DEF g
  <2> QED BY <1>2, <2>3, <2>7
<1>8. ASSUME NEW k \in 1..n
      PROVE  b[k] \in 0..pos' /\ Told(stack'[k], Between(b[k], UpTo(b, k))')
  <2>2. \A i \in 0..pos : i \in 0..pos'
    BY <1>2
  <2>1. b[k] \in 0..pos'
    BY <1>6, <2>2
  <2>3. CASE k = n
    <3>1. UpTo(b, k)' = pos'
      BY <1>2, <2>3 DEF UpTo
    <3>2. Between(b[k], UpTo(b, k))' = Between(b[k], pos')
      BY <1>2, <3>1 DEF Between
    <3> QED BY <1>5, <1>7, <2>1, <2>3, <3>2
  <2>4. CASE k # n
    <3>1. UpTo(b, k)' = UpTo(b, k)
      BY <1>1, <1>2, <2>4 DEF UpTo
    <3>2. Between(b[k], UpTo(b, k))' = Between(b[k], UpTo(b, k))
      BY <1>2, <3>1 DEF Between
    <3>3. Told(stack[k], Between(b[k], UpTo(b, k))) /\ stack'[k] = stack[k]
      BY <1>5, <1>6, <2>4
    <3> QED BY <2>1, <3>2, <3>3
  <2> QED BY <2>3, <2>4
<1>9. ASSUME NEW k \in 2..n PROVE b[k - 1] < b[k] /\ Opening(b[k], stack[k].rule)'
  <2>1. stack'[k].rule = stack[k].rule /\ b[k - 1] < b[k] /\ Opening(b[k], stack[k].rule)
    <3>1. k \in 1..n
      OBVIOUS
    <3>2. g.rule = f.rule
      BY DEF g
    <3> QED BY <1>5, <1>6, <3>1, <3>2
  <2> QED BY <1>2, <2>1 DEF Opening
<1> QED BY <1>2, <1>6, <1>8, <1>9 DEF ToldSoFar

LEMMA ToldOpen ==
    ASSUME RulesKept, Stacked, MatchOpen, NEW b, ToldSoFar(b), NEW more,
           more = [k \in 1..(Len(stack) + 1) |-> IF k = Len(stack) + 1 THEN pos + 1 ELSE b[k]]
    PROVE  ToldSoFar(more)'
<1>1. PICK n \in Nat \ {0} : n = Len(stack)
  BY StackFacts
<1>2. /\ text' = text /\ pos' = pos + 1 /\ pos \in Nat /\ Len(stack') = n + 1
      /\ Opening(pos + 1, stack'[n + 1].rule)
  BY <1>1, OpenStep DEF Stacked
<1>3. PICK rule \in Lists : stack' = Append(stack, [rule |-> rule, atoms |-> <<>>])
  BY DEF MatchOpen
<1> DEFINE g == [rule |-> rule, atoms |-> <<>>]
<1>4. Told(g, <<>>)
  BY ToldNew
<1> HIDE DEF g
<1>5. stack'[n + 1] = g /\ \A k \in 1..n : stack'[k] = stack[k]
  <2>1. PICK F : stack \in Seq(F)
    BY DEF Stacked
  <2>2. stack \in Seq(F \cup {g}) /\ g \in F \cup {g} /\ stack' = Append(stack, g)
    BY <1>3, <2>1, SeqMonotonic DEF g
  <2> QED BY <1>1, <2>2, AppendProperties
<1>6. /\ b[1] = 0
      /\ \A k \in 1..n : b[k] \in 0..pos /\ Told(stack[k], Between(b[k], UpTo(b, k)))
      /\ \A k \in 2..n : b[k - 1] < b[k] /\ Opening(b[k], stack[k].rule)
  BY <1>1 DEF ToldSoFar
<1>7. /\ more = [k \in 1..(n + 1) |-> more[k]] /\ more[n + 1] = pos + 1
      /\ \A k \in 1..n : more[k] = b[k]
  BY <1>1
<1>8. ASSUME NEW k \in 1..(n + 1)
      PROVE  more[k] \in 0..pos' /\ Told(stack'[k], Between(more[k], UpTo(more, k))')
  <2>1. CASE k = n + 1
    <3>1. UpTo(more, k)' = pos + 1
      BY <1>2, <2>1 DEF UpTo
    <3>2. SubSeq(text, pos + 1 + 1, pos + 1) = <<>>
      <4>1. pos + 1 + 1 \in Int /\ pos + 1 \in Int /\ pos + 1 < pos + 1 + 1
        BY <1>2
      <4> QED BY <4>1, SubSeqEmpty
    <3>3. Between(more[k], UpTo(more, k))' = <<>>
      BY <1>2, <1>7, <2>1, <3>1, <3>2 DEF Between
    <3>4. more[k] \in 0..pos'
      BY <1>2, <1>7, <2>1
    <3> QED BY <1>4, <1>5, <2>1, <3>3, <3>4
  <2>2. CASE k \in 1..n
    <3>1. more[k] = b[k] /\ b[k] \in 0..pos'
      BY <1>2, <1>6, <1>7, <2>2
    <3>2. UpTo(more, k)' = UpTo(b, k)
      <4>1. UpTo(more, k)' = more[k + 1] - 1
        BY <1>2, <2>2 DEF UpTo
      <4>2. CASE k = n
        BY <1>1, <1>2, <1>7, <4>1, <4>2 DEF UpTo
      <4>3. CASE k # n
        <5>1. more[k + 1] = b[k + 1]
          BY <1>7, <2>2, <4>3
        <5> QED BY <1>1, <4>1, <4>3, <5>1 DEF UpTo
      <4> QED BY <4>2, <4>3
    <3>3. Between(more[k], UpTo(more, k))' = Between(b[k], UpTo(b, k))
      BY <1>2, <3>1, <3>2 DEF Between
    <3>4. stack'[k] = stack[k] /\ Told(stack[k], Between(b[k], UpTo(b, k)))
      BY <1>5, <1>6, <2>2
    <3> QED BY <3>1, <3>3, <3>4
  <2> QED BY <2>1, <2>2
<1>9. ASSUME NEW k \in 2..(n + 1)
      PROVE  more[k - 1] < more[k] /\ Opening(more[k], stack[k].rule)'
  <2>1. CASE k = n + 1
    <3>1. more[k] = pos + 1 /\ more[k - 1] = b[n] /\ b[n] \in 0..pos
      BY <1>6, <1>7, <2>1
    <3>2. more[k - 1] < more[k]
      BY <1>2, <3>1
    <3> QED BY <1>2, <2>1, <3>1, <3>2 DEF Opening
  <2>2. CASE k \in 2..n
    <3>1. k \in 1..n /\ k - 1 \in 1..n
      BY <2>2
    <3>2. more[k] = b[k] /\ more[k - 1] = b[k - 1] /\ stack'[k] = stack[k]
      BY <1>5, <1>7, <3>1
    <3>3. b[k - 1] < b[k] /\ Opening(b[k], stack[k].rule)
      BY <1>6, <2>2
    <3> QED BY <1>2, <3>2, <3>3 DEF Opening
  <2> QED BY <2>1, <2>2
<1>10. more[1] = 0
  BY <1>6, <1>7
<1> QED BY <1>2, <1>7, <1>8, <1>9, <1>10 DEF ToldSoFar

LEMMA ToldClose ==
    ASSUME RulesKept, Stacked, MatchClose, NEW b, ToldSoFar(b), NEW fewer,
           fewer = [k \in 1..(Len(stack) - 1) |-> b[k]]
    PROVE  ToldSoFar(fewer)'
<1>1. PICK n \in Nat \ {0} : n = Len(stack)
  BY StackFacts
<1>2. /\ text' = text /\ pos' = pos + 1 /\ pos \in Nat /\ pos + 1 \in 1..Len(text)
      /\ text \in Seq(Tokens) /\ Len(stack') = n - 1
      /\ stack[n].rule \in Lists /\ Closing(pos + 1, stack[n].rule)
  BY <1>1, CloseStep DEF Stacked, Top
<1>3. n - 1 \in Nat \ {0}
  <2>1. stack[n].rule # "lisp"
    BY <1>2 DEF Lists
  <2>2. n # 1
    BY <1>1, <2>1, StackFacts DEF Top
  <2> QED BY <2>2
<1>4. PICK m \in Nat \ {0} : m = n - 1 /\ n = m + 1
  BY <1>3
<1> DEFINE f == stack[n]
           below == stack[m]
           g == [rule |-> below.rule, atoms |-> Append(below.atoms, Atom(f.rule, Matched(f)))]
<1>5. /\ stack'[m] = g
      /\ \A k \in 1..m : k # m => stack'[k] = stack[k]
  <2> DEFINE front == Front(stack)
             a == Atom(f.rule, Matched(f))
  <2>1. PICK F : stack \in Seq(F) /\ (\A h \in F : FrameOK(h)) /\ stack # <<>>
    BY DEF Stacked
  <2>2. front \in Seq(F) /\ Len(front) = m /\ \A k \in 1..m : front[k] = stack[k]
    BY <1>1, <1>4, <2>1, FrontFacts DEF Front
  <2>3. stack' = Found(front, a)
    BY <1>1 DEF MatchClose, Top
  <2> HIDE DEF front, a, f
  <2>4. front # <<>> /\ m \in 1..m
    BY <1>4, <2>2
  <2> DEFINE h == [rule |-> front[m].rule, atoms |-> Append(front[m].atoms, a)]
  <2>5. stack' = [front EXCEPT ![m] = h]
    BY <2>1, <2>2, <2>3, <2>4, FoundIs
  <2>6. h = g
    BY <2>2, <2>4 DEF a
  <2> HIDE DEF g, h
  <2>7. stack'[m] = h /\ \A k \in 1..m : k # m => stack'[k] = front[k]
    BY <2>2, <2>4, <2>5
  <2> QED BY <2>2, <2>6, <2>7
<1> HIDE DEF g
<1>6. /\ b[1] = 0
      /\ \A k \in 1..n : b[k] \in 0..pos /\ Told(stack[k], Between(b[k], UpTo(b, k)))
      /\ \A k \in 2..n : b[k - 1] < b[k] /\ Opening(b[k], stack[k].rule)
  BY <1>1 DEF ToldSoFar
<1>7. /\ fewer = [k \in 1..m |-> fewer[k]]
      /\ \A k \in 1..m : k \in 1..n /\ k # n /\ fewer[k] = b[k]
  BY <1>1, <1>4
<1>8. Told(g, Between(b[m], pos + 1))
  <2> DEFINE u == Between(b[n], pos)
             w == Between(b[m], b[n] - 1)
  <2>1. n \in 1..n /\ m \in 1..n /\ n \in 2..n
    BY <1>4
  <2>2. b[m] \in Nat /\ b[n] \in Nat /\ b[m] < b[n] /\ b[n] <= pos /\ pos < Len(text)
    BY <1>2, <1>4, <1>6, <2>1
  <2>3. text[b[n]] = Bracket(Brackets.open[f.rule])
    BY <1>6, <2>1 DEF Opening
  <2>4. text[pos + 1] = Bracket(Brackets.close[f.rule])
    BY <1>2 DEF Closing
  <2>5. Between(b[m], pos + 1) = Append(Append(w, text[b[n]]) \o u, text[pos + 1])
    <3>1. text \in Seq(Tokens) /\ pos \in Nat
      BY <1>2, Zenon
    <3>2. Stretched(text, b[m], b[n], pos)
      BY <2>2, <3>1, Regrouped
    <3> QED BY <3>2, Zenon DEF Between, Stretched
  <2>6. u \in Seq(Tokens)
    BY <1>2, <2>2, StretchFacts DEF Between
  <2>7. w \in Seq(Tokens)
    <3>1. b[n] - 1 \in Nat /\ b[m] <= b[n] - 1 /\ b[n] - 1 <= Len(text)
      BY <2>2, <1>2, SMTT(20), ZenonT(40)
    <3> QED BY <1>2, <2>2, <3>1, StretchFacts DEF Between
  <2>8. UpTo(b, n) = pos /\ UpTo(b, m) = b[n] - 1
    BY <1>1, <1>4 DEF UpTo
  <2>9. Told(f, u) /\ Told(below, w)
    BY <1>6, <2>1, <2>8
  <2>10. FrameOK(f) /\ FrameOK(below)
    BY <1>1, <2>1, StackFacts
  <2> HIDE DEF u, w
  <2>11. Told(g, Append(Append(w, Bracket(Brackets.open[f.rule])) \o u,
                        Bracket(Brackets.close[f.rule])))
    BY <1>2, <2>6, <2>7, <2>9, <2>10, ToldList DEF g
  <2> QED BY <2>3, <2>4, <2>5, <2>11
<1>9. ASSUME NEW k \in 1..m
      PROVE  fewer[k] \in 0..pos' /\ Told(stack'[k], Between(fewer[k], UpTo(fewer, k))')
  <2>1. fewer[k] = b[k] /\ b[k] \in 0..pos'
    <3>1. \A i \in 0..pos : i \in 0..pos'
      BY <1>2
    <3> QED BY <1>6, <1>7, <3>1
  <2>2. CASE k = m
    <3>1. UpTo(fewer, k)' = pos + 1
      BY <1>2, <1>4, <2>2 DEF UpTo
    <3>2. Between(fewer[k], UpTo(fewer, k))' = Between(b[k], pos + 1)
      BY <1>2, <2>1, <3>1 DEF Between
    <3> QED BY <1>5, <1>8, <2>1, <2>2, <3>2
  <2>3. CASE k # m
    <3>1. UpTo(fewer, k)' = UpTo(b, k)
      <4>1. k + 1 \in 1..m /\ k # n
        BY <1>4, <2>3
      <4>2. fewer[k + 1] = b[k + 1]
        BY <1>7, <4>1
      <4> QED BY <1>1, <1>2, <1>4, <2>3, <4>1, <4>2 DEF UpTo
    <3>2. Between(fewer[k], UpTo(fewer, k))' = Between(b[k], UpTo(b, k))
      BY <1>2, <2>1, <3>1 DEF Between
    <3>3. stack'[k] = stack[k] /\ Told(stack[k], Between(b[k], UpTo(b, k)))
      BY <1>5, <1>6, <1>7, <2>3
    <3> QED BY <2>1, <3>2, <3>3
  <2> QED BY <2>2, <2>3
<1>10. ASSUME NEW k \in 2..m
       PROVE  fewer[k - 1] < fewer[k] /\ Opening(fewer[k], stack[k].rule)'
  <2>1. k \in 1..m /\ k - 1 \in 1..m /\ k \in 2..n
    BY <1>4
  <2>2. fewer[k] = b[k] /\ fewer[k - 1] = b[k - 1]
    BY <1>7, <2>1
  <2>3. stack'[k].rule = stack[k].rule
    <3>1. g.rule = below.rule
      BY DEF g
    <3> QED BY <1>5, <2>1, <3>1
  <2>4. b[k - 1] < b[k] /\ Opening(b[k], stack[k].rule)
    BY <1>6, <2>1
  <2> QED BY <1>2, <2>2, <2>3, <2>4 DEF Opening
<1>11. fewer[1] = 0
  BY <1>4, <1>6, <1>7
<1> QED BY <1>2, <1>4, <1>7, <1>9, <1>10, <1>11 DEF ToldSoFar

LEMMA ToldAtEnd ==
    ASSUME RulesKept, Stacked, MatchEnd, NEW b, ToldSoFar(b)
    PROVE  ReadsAsWritten'
<1>1. pos = Len(text) /\ Top.rule = "lisp" /\ ast' = {Matched(Top)} /\ text' = text
  BY DEF MatchEnd
<1>2. Len(stack) = 1 /\ Top = stack[1] /\ FrameOK(Top)
  BY <1>1, StackFacts DEF Top
<1>3. Told(Top, Between(0, pos))
  <2>1. b[1] = 0 /\ Told(stack[1], Between(b[1], UpTo(b, 1)))
    BY <1>2 DEF ToldSoFar
  <2>2. UpTo(b, 1) = pos
    BY <1>2 DEF UpTo
  <2> QED BY <1>2, <2>1, <2>2
<1>4. Between(0, pos) = text
  <2>1. SubSeq(text, 1, Len(text)) = text
    BY SubSeqFull DEF Stacked
  <2> QED BY <1>1, <2>1 DEF Between
<1>5. \E v \in Read(Matched(Top)) : v.type = "sexpr" /\ Says(text, v.cell)
  BY <1>1, <1>2, <1>3, <1>4, ToldEnd
<1> QED BY <1>1, <1>5 DEF ReadsAsWritten

----------------------------------------------------------------------------
(* The theorems *)

ReadInv ==
    /\ Stacked
    /\ ast = {} => \E pair, from : Bracketed(pair, from)
    /\ MatchesIfPaired

LEMMA ReadInit == Init => ReadInv
BY StackedInit, BracketedInit DEF Init, ReadInv, MatchesIfPaired

LEMMA ReadNext == ReadInv /\ [Next]_vars => ReadInv'
<1> SUFFICES ASSUME ReadInv, [Next]_vars PROVE ReadInv'
  OBVIOUS
<1>1. Stacked /\ MatchesIfPaired /\ (ast = {} => \E pair, from : Bracketed(pair, from))
  BY DEF ReadInv
<1>2. CASE MatchRegex
  <2>1. Stacked' /\ ast = {} /\ ast' = {}
    BY <1>1, <1>2, RegexStep DEF MatchRegex
  <2>2. PICK pair, from : Bracketed(pair, from)
    BY <1>1, <2>1
  <2>3. Bracketed(pair, from)'
    BY <1>1, <1>2, <2>2, BracketedRegex
  <2> QED BY <2>1, <2>3 DEF ReadInv, MatchesIfPaired
<1>3. CASE MatchOpen
  <2>1. Stacked' /\ ast = {} /\ ast' = {}
    BY <1>1, <1>3, OpenStep DEF MatchOpen, Ahead
  <2>2. PICK pair, from : Bracketed(pair, from)
    BY <1>1, <2>1
  <2>3. PICK grown :
          grown = [k \in 2..(Len(stack) + 1) |-> IF k = Len(stack) + 1 THEN pos + 1 ELSE from[k]]
    OBVIOUS
  <2>4. Bracketed(pair, grown)'
    BY <1>1, <1>3, <2>2, <2>3, BracketedOpen
  <2> QED BY <2>1, <2>4 DEF ReadInv, MatchesIfPaired
<1>4. CASE MatchClose
  <2>1. Stacked' /\ ast = {} /\ ast' = {}
    BY <1>1, <1>4, CloseStep DEF MatchClose, Closes, Ahead
  <2>2. PICK pair, from : Bracketed(pair, from)
    BY <1>1, <2>1
  <2>3. PICK wider, fewer :
          /\ wider = [i \in DOMAIN pair \cup {from[Len(stack)]} |->
                         IF i = from[Len(stack)] THEN pos + 1 ELSE pair[i]]
          /\ fewer = [k \in 2..(Len(stack) - 1) |-> from[k]]
    OBVIOUS
  <2>4. Bracketed(wider, fewer)'
    BY <1>1, <1>4, <2>2, <2>3, BracketedClose
  <2> QED BY <2>1, <2>4 DEF ReadInv, MatchesIfPaired
<1>5. CASE MatchEnd
  <2>1. Stacked' /\ ast = {}
    BY <1>1, <1>5 DEF MatchEnd, Stacked
  <2>2. PICK pair, from : Bracketed(pair, from)
    BY <1>1, <2>1
  <2>3. /\ ast' = {Matched(Top)} /\ Matched(Top) # Null
        /\ pair \in [Openings -> Closings] /\ PairsUp(pair)
    BY <1>1, <1>5, <2>2, EndPairs
  <2>4. text' = text
    BY <1>5 DEF MatchEnd
  <2>5. MatchesIfPaired'
    BY <2>3, <2>4, SameText DEF MatchesIfPaired
  <2> QED BY <2>1, <2>3, <2>5 DEF ReadInv
<1>6. CASE Mismatch
  <2>1. Stacked' /\ ast = {}
    BY <1>1, <1>6 DEF Mismatch, Stacked
  <2>2. PICK pair, from : Bracketed(pair, from)
    BY <1>1, <2>1
  <2>3. \A whole \in [Openings -> Closings] : ~PairsUp(whole)
    BY <1>1, <1>6, <2>2, NoPairs
  <2>4. text' = text /\ ast' = {Null}
    BY <1>6 DEF Mismatch
  <2>5. MatchesIfPaired'
    BY <2>3, <2>4, SameText DEF MatchesIfPaired
  <2> QED BY <2>1, <2>4, <2>5 DEF ReadInv
<1>7. CASE UNCHANGED vars
  <2>1. text' = text /\ pos' = pos /\ stack' = stack /\ ast' = ast
    BY <1>7 DEF vars
  <2>2. Stacked'
    BY <1>1, <2>1 DEF Stacked
  <2>3. MatchesIfPaired'
    BY <1>1, <2>1, SameText DEF MatchesIfPaired
  <2>4. ASSUME NEW pair, NEW from, Bracketed(pair, from) PROVE Bracketed(pair, from)'
    BY <2>1, <2>4, SameText DEF Bracketed, Paired, Nested, Apart, Seen
  <2> QED BY <1>1, <2>1, <2>2, <2>3, <2>4 DEF ReadInv
<1> QED BY <1>2, <1>3, <1>4, <1>5, <1>6, <1>7 DEF Next

\* The parser of programs accepts a text if and only if its brackets pair up, each with
\* one of its own kind and inside one another: the grammar of parser.c:55-66.
THEOREM AcceptsIfPaired == Spec => []MatchesIfPaired
<1>1. ReadInv => MatchesIfPaired
  BY DEF ReadInv
<1> QED BY <1>1, ReadInit, ReadNext, PTL DEF Spec

\* Folding a list keeps each of its atoms one child of it: mpc.c:2932-2943, 3198-3234.
THEOREM AtomsKept == Spec => []AtomsStayWhole
<1>1. Stacked => AtomsStayWhole
  BY StackFacts, MatchedFacts DEF AtomsStayWhole
<1>2. ReadInv => AtomsStayWhole
  BY <1>1 DEF ReadInv
<1> QED BY <1>2, ReadInit, ReadNext, PTL DEF Spec

\* The optimised rule of a list folds to the tree of the rule as it is written:
\* mpc.c:3945-3992.
THEOREM FoldsAsWritten == Spec => []OptimisedAsWritten
<1>1. Stacked => OptimisedAsWritten
  BY StackFacts, MatchedFacts DEF OptimisedAsWritten
<1>2. ReadInv => OptimisedAsWritten
  BY <1>1 DEF ReadInv
<1> QED BY <1>2, ReadInit, ReadNext, PTL DEF Spec

ToldInv ==
    /\ Stacked
    /\ ast = {} => \E b : ToldSoFar(b)
    /\ ReadsAsWritten

LEMMA ToldNext ==
    ASSUME RulesKept
    PROVE  ToldInv /\ [Next]_vars => ToldInv'
<1> SUFFICES ASSUME ToldInv, [Next]_vars PROVE ToldInv'
  OBVIOUS
<1>1. Stacked /\ ReadsAsWritten /\ (ast = {} => \E b : ToldSoFar(b))
  BY DEF ToldInv
<1>2. CASE MatchRegex
  <2>1. Stacked' /\ ast = {} /\ ast' = {}
    BY <1>1, <1>2, RegexStep DEF MatchRegex
  <2>2. PICK b : ToldSoFar(b)
    BY <1>1, <2>1
  <2>3. ToldSoFar(b)'
    BY <1>1, <1>2, <2>2, ToldRegex
  <2> QED BY <2>1, <2>3 DEF ToldInv, ReadsAsWritten
<1>3. CASE MatchOpen
  <2>1. Stacked' /\ ast = {} /\ ast' = {}
    BY <1>1, <1>3, OpenStep DEF MatchOpen, Ahead
  <2>2. PICK b : ToldSoFar(b)
    BY <1>1, <2>1
  <2>3. PICK more :
          more = [k \in 1..(Len(stack) + 1) |-> IF k = Len(stack) + 1 THEN pos + 1 ELSE b[k]]
    OBVIOUS
  <2>4. ToldSoFar(more)'
    BY <1>1, <1>3, <2>2, <2>3, ToldOpen
  <2> QED BY <2>1, <2>4 DEF ToldInv, ReadsAsWritten
<1>4. CASE MatchClose
  <2>1. Stacked' /\ ast = {} /\ ast' = {}
    BY <1>1, <1>4, CloseStep DEF MatchClose, Closes, Ahead
  <2>2. PICK b : ToldSoFar(b)
    BY <1>1, <2>1
  <2>3. PICK fewer : fewer = [k \in 1..(Len(stack) - 1) |-> b[k]]
    OBVIOUS
  <2>4. ToldSoFar(fewer)'
    BY <1>1, <1>4, <2>2, <2>3, ToldClose
  <2> QED BY <2>1, <2>4 DEF ToldInv, ReadsAsWritten
<1>5. CASE MatchEnd
  <2>1. Stacked' /\ ast = {} /\ ast' # {}
    BY <1>1, <1>5 DEF MatchEnd, Stacked
  <2>2. PICK b : ToldSoFar(b)
    BY <1>1, <2>1
  <2>3. ReadsAsWritten'
    BY <1>1, <1>5, <2>2, ToldAtEnd
  <2> QED BY <2>1, <2>3 DEF ToldInv
<1>6. CASE Mismatch
  <2>1. Stacked' /\ ast' = {Null}
    BY <1>1, <1>6 DEF Mismatch, Stacked
  <2> QED BY <2>1 DEF ToldInv, ReadsAsWritten
<1>7. CASE UNCHANGED vars
  <2>1. text' = text /\ pos' = pos /\ stack' = stack /\ ast' = ast
    BY <1>7 DEF vars
  <2>2. Stacked' /\ ReadsAsWritten'
    BY <1>1, <2>1 DEF Stacked, ReadsAsWritten
  <2>3. ASSUME NEW b, ToldSoFar(b) PROVE ToldSoFar(b)'
    BY <2>1, <2>3 DEF ToldSoFar, UpTo, Between, Opening
  <2> QED BY <1>1, <2>1, <2>2, <2>3 DEF ToldInv
<1> QED BY <1>2, <1>3, <1>4, <1>5, <1>6, <1>7 DEF Next

\* Whatever keeps the rules of ReadRules, a program that matches is read as it is written,
\* without its comments, whatever lists are in it: mpcf_fold_ast takes nodes apart and
\* lends tags as it puts the tree together, and lval_read looks for names in these tags:
\* mpc.c:2932-2943, 3198-3234, eval.c:229-260.
THEOREM ReadsAsMeant == RulesKept => (Spec => []ReadsAsWritten)
<1> SUFFICES ASSUME RulesKept PROVE Spec => []ReadsAsWritten
  OBVIOUS
<1>1. Init => ToldInv
  BY StackedInit, ToldInit DEF Init, ToldInv, ReadsAsWritten
<1>2. ToldInv /\ [Next]_vars => ToldInv'
  BY ToldNext
<1>3. ToldInv => ReadsAsWritten
  BY DEF ToldInv
<1> QED BY <1>1, <1>2, <1>3, PTL DEF Spec
=============================================================================
