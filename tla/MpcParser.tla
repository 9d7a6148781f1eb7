----------------------------- MODULE MpcParser -----------------------------
(***************************************************************************)
(* Who owns the nodes of parsers: the constructors, mpc_define,            *)
(* mpc_undefine, mpc_copy, mpc_delete and mpc_cleanup of core/mpc.c.       *)
(*                                                                         *)
(* A node is retained (made by mpc_new, named, referred to from anywhere)  *)
(* or not (made by a constructor; whoever is given it owns it).  Releasing *)
(* a parser walks down its unretained parts.  The caller is any program    *)
(* that hands an unretained parser over once and deletes a retained one    *)
(* only when nothing it still uses refers to it; it defines a retained one *)
(* with an unretained one, which mpc_define frees.                         *)
(***************************************************************************)
EXTENDS Integers, Sequences, FiniteSets

CONSTANTS
    Nodes,     \* bound: the parser nodes that can be live at a time
    MaxParts   \* bound: the parts of a node

ASSUME PartsAssumption == IsFiniteSet(Nodes) /\ MaxParts \in Nat

VARIABLES
    type,      \* "free", "undefined" or "defined", for each node
    parts,     \* the nodes a node refers to
    retained,  \* the nodes whose retained flag is set
    held,      \* the nodes the caller has a pointer to and may still use
    todo,      \* the nodes mpc_undefine_unretained still has to visit
    cleanup,   \* mpc_cleanup: the nodes still to undefine and to delete
    lost       \* history: unretained nodes nobody has a pointer to any more

vars == <<type, parts, retained, held, todo, cleanup, lost>>

Nothing == [undefine |-> {}, delete |-> {}]

Init ==
    /\ type = [n \in Nodes |-> "free"] /\ parts = [n \in Nodes |-> <<>>]
    /\ retained = {} /\ held = {}
    /\ todo = <<>> /\ cleanup = Nothing
    /\ lost = {}

----------------------------------------------------------------------------
(* The graph of nodes *)

Live == {n \in Nodes : type[n] # "free"}
PartsOf(n) == {parts[n][i] : i \in 1..Len(parts[n])}

\* The smallest set with S that contains with a node its parts, those below `stop`
\* excepted.
Closure(S, stop) ==
    {n \in Nodes : \A T \in SUBSET Nodes :
        S \subseteq T /\ (\A m \in T \ stop : PartsOf(m) \subseteq T) => n \in T}

Reach(S) == Closure(S, {})

\* The unretained nodes that belong to a node.
Below(n) == Closure(PartsOf(n), retained) \ retained
Tree(n)  == {n} \cup Below(n)

Idle == todo = <<>> /\ cleanup = Nothing

----------------------------------------------------------------------------
(* Constructors *)

\* mpc_new
New(n) ==
    /\ Idle /\ type[n] = "free"
    /\ type' = [type EXCEPT ![n] = "undefined"]
    /\ retained' = retained \cup {n} /\ held' = held \cup {n}
    /\ UNCHANGED <<parts, todo, cleanup, lost>>

\* The caller hands unretained parts over, each to one place.
Made(n, xs) ==
    /\ Idle /\ type[n] = "free"
    /\ \A i, j \in 1..Len(xs) :
          xs[i] \in held /\ (i # j /\ xs[i] = xs[j] => xs[i] \in retained)
    /\ type' = [type EXCEPT ![n] = "defined"] /\ parts' = [parts EXCEPT ![n] = xs]
    /\ held' = (held \ ({xs[i] : i \in 1..Len(xs)} \ retained)) \cup {n}
    /\ UNCHANGED <<retained, todo, cleanup, lost>>

\* What matches by itself: mpc_pass, mpc_char, mpc_string and the like.
Leaf(n) == Made(n, <<>>)

\* What changes how a parser runs: mpc_apply, mpc_check, mpc_many, mpc_not and the like.
Wrap(n, x) == Made(n, <<x>>)

\* mpc_or and mpc_and
Combine(n, xs) == Made(n, xs)

\* Bug: the parts of an unretained parser are shared with the copy.
CopyShallow(a) ==
    /\ Idle /\ a \in held \ retained
    /\ \E n \in Nodes \ Live :
          /\ type' = [type EXCEPT ![n] = type[a]]
          /\ parts' = [parts EXCEPT ![n] = parts[a]]
          /\ held' = held \cup {n}
    /\ UNCHANGED <<retained, todo, cleanup, lost>>

\* mpc_copy of an unretained parser makes a node for each one it owns and shares the
\* retained ones.  Of a retained parser it returns the parser itself.
Copy(a) ==
    /\ Idle /\ a \in held \ retained
    /\ \E new \in [Tree(a) -> Nodes \ Live] :
          LET Copied(m) == IF m \in Tree(a) THEN new[m] ELSE m
              Old(n)    == CHOOSE m \in Tree(a) : new[m] = n
              made      == {new[m] : m \in Tree(a)}
          IN  /\ \A m, k \in Tree(a) : new[m] = new[k] => m = k
              /\ type' = [n \in Nodes |-> IF n \in made THEN type[Old(n)] ELSE type[n]]
              /\ parts' = [n \in Nodes |->
                    IF n \notin made THEN parts[n]
                    ELSE [i \in 1..Len(parts[Old(n)]) |-> Copied(parts[Old(n)][i])]]
              /\ held' = held \cup {new[a]}
    /\ UNCHANGED <<retained, todo, cleanup, lost>>

----------------------------------------------------------------------------
(* Defining *)

\* Bug: the node defined is freed, not the one its definition came in.
DefineFreesTarget(p, a) ==
    /\ Idle /\ p \in held \cap retained /\ a \in held \ retained
    /\ type' = [type EXCEPT ![p] = "free"]
    /\ parts' = [parts EXCEPT ![p] = <<>>]
    /\ held' = held \ {a}
    /\ lost' = lost \cup Below(p)
    /\ UNCHANGED <<retained, todo, cleanup>>

\* mpc_define moves what a refers to into p and frees the node of a.  A definition
\* p had before is not released.
Define(p, a) ==
    /\ Idle /\ p \in held \cap retained /\ a \in held \ retained
    /\ type' = [type EXCEPT ![p] = type[a], ![a] = "free"]
    /\ parts' = [parts EXCEPT ![p] = parts[a], ![a] = <<>>]
    /\ held' = held \ {a}
    /\ lost' = lost \cup Below(p)
    /\ UNCHANGED <<retained, todo, cleanup>>

\* Assigning to an unretained parser makes it one that fails, and drops both
\* definitions.  A grammar with a rule for no given parser gets here: mpc_define is
\* given the mpc_failf that mpca_grammar_find_parser returns.
DefineUnretained(p, a) ==
    /\ Idle /\ {p, a} \subseteq held \ retained /\ p # a
    /\ type' = [type EXCEPT ![p] = "defined", ![a] = "free"]
    /\ parts' = [parts EXCEPT ![p] = <<>>, ![a] = <<>>]
    /\ held' = held \ {a}
    /\ lost' = lost \cup Below(p) \cup Below(a)
    /\ UNCHANGED <<retained, todo, cleanup>>

----------------------------------------------------------------------------
(* Releasing *)

\* Bug: retained parts are released too.
VisitAll ==
    /\ todo # <<>>
    /\ LET n == Head(todo)
       IN  /\ type' = [type EXCEPT ![n] = "free"]
           /\ parts' = [parts EXCEPT ![n] = <<>>]
           /\ todo' = parts[n] \o Tail(todo)
    /\ UNCHANGED <<retained, held, cleanup, lost>>

\* Bug: the first part of a node is not released.
VisitButFirst ==
    /\ todo # <<>>
    /\ LET n == Head(todo)
       IN  IF n \in retained THEN todo' = Tail(todo) /\ UNCHANGED <<type, parts>>
           ELSE /\ type' = [type EXCEPT ![n] = "free"]
                /\ parts' = [parts EXCEPT ![n] = <<>>]
                /\ todo' = SubSeq(parts[n], 2, Len(parts[n])) \o Tail(todo)
    /\ UNCHANGED <<retained, held, cleanup, lost>>

\* One call of mpc_undefine_unretained without force: a retained node is left alone,
\* another one is freed after its parts.
Visit ==
    /\ todo # <<>>
    /\ LET n == Head(todo)
       IN  IF n \in retained THEN todo' = Tail(todo) /\ UNCHANGED <<type, parts>>
           ELSE /\ type' = [type EXCEPT ![n] = "free"]
                /\ parts' = [parts EXCEPT ![n] = <<>>]
                /\ todo' = parts[n] \o Tail(todo)
    /\ UNCHANGED <<retained, held, cleanup, lost>>

\* mpc_undefine: with force the parts are released and the node stays.
StartUndefine(p) ==
    /\ todo' = parts[p]
    /\ type' = [type EXCEPT ![p] = "undefined"] /\ parts' = [parts EXCEPT ![p] = <<>>]

Undefine(p) ==
    /\ Idle /\ p \in held
    /\ StartUndefine(p)
    /\ UNCHANGED <<retained, held, cleanup, lost>>

\* Nothing the caller keeps refers to a parser of S.
Unused(S) == Reach(held \ S) \cap S = {}

\* mpc_delete of a retained parser frees the node only: mpc_undefine_unretained, called
\* without force, returns at once.
Drop(p) ==
    /\ type' = [type EXCEPT ![p] = "free"] /\ parts' = [parts EXCEPT ![p] = <<>>]
    /\ retained' = retained \ {p} /\ held' = held \ {p}
    /\ lost' = lost \cup Below(p)

DeleteRetained(p) ==
    /\ Idle /\ p \in held \cap retained /\ Unused({p})
    /\ Drop(p)
    /\ UNCHANGED <<todo, cleanup>>

DeleteUnretained(p) ==
    /\ Idle /\ p \in held \ retained
    /\ held' = held \ {p} /\ todo' = <<p>>
    /\ UNCHANGED <<type, parts, retained, cleanup, lost>>

----------------------------------------------------------------------------
(* mpc_cleanup: every parser is undefined before any is deleted *)

Cleanup(S) ==
    /\ Idle /\ S # {} /\ S \subseteq held \cap retained /\ Unused(S)
    /\ cleanup' = [undefine |-> S, delete |-> S]
    /\ UNCHANGED <<type, parts, retained, held, todo, lost>>

CleanupUndefine(p) ==
    /\ todo = <<>> /\ p \in cleanup.undefine
    /\ StartUndefine(p)
    /\ cleanup' = [cleanup EXCEPT !.undefine = @ \ {p}]
    /\ UNCHANGED <<retained, held, lost>>

\* Bug: a parser is deleted as soon as it is undefined.
CleanupDeleteEarly(p) ==
    /\ todo = <<>> /\ p \in cleanup.delete \ cleanup.undefine
    /\ Drop(p)
    /\ cleanup' = [cleanup EXCEPT !.delete = @ \ {p}]
    /\ UNCHANGED todo

CleanupDelete(p) ==
    /\ todo = <<>> /\ cleanup.undefine = {} /\ p \in cleanup.delete
    /\ Drop(p)
    /\ cleanup' = [cleanup EXCEPT !.delete = @ \ {p}]
    /\ UNCHANGED todo

Next ==
    \/ Visit
    \/ \E n \in Nodes :
          \/ CleanupUndefine(n) \/ CleanupDelete(n)
          \/ New(n) \/ Copy(n)
          \/ Leaf(n)
          \/ \E a \in Nodes : Wrap(n, a) \/ Define(n, a) \/ DefineUnretained(n, a)
          \/ \E k \in 2..MaxParts : \E xs \in [1..k -> Nodes] : Combine(n, xs)
          \/ Undefine(n) \/ DeleteRetained(n) \/ DeleteUnretained(n)
    \/ \E S \in SUBSET Nodes : Cleanup(S)

Spec == Init /\ [][Next]_vars

----------------------------------------------------------------------------
(* Properties *)

TypeOK ==
    /\ type \in [Nodes -> {"free", "undefined", "defined"}]
    /\ parts \in [Nodes -> Seq(Nodes)] /\ todo \in Seq(Nodes)
    /\ retained \subseteq Live /\ held \subseteq Live /\ lost \subseteq Live
    /\ cleanup.undefine \subseteq cleanup.delete
    /\ cleanup.delete \subseteq held \cap retained

\* Where a node is owned: by the caller, by a part of another node, by the walk that
\* is about to free it, or by nobody for good.
Owners(n) ==
    {<<"held", 0, 0>> : x \in {n} \cap held} \cup {<<"lost", 0, 0>> : x \in {n} \cap lost}
    \cup {<<"todo", 0, i>> : i \in {j \in 1..Len(todo) : todo[j] = n}}
    \cup UNION {{<<"part", m, i>> : i \in {j \in 1..Len(parts[m]) : parts[m][j] = n}} :
                   m \in Live \ lost}

\* An unretained node has exactly one owner: none is freed twice, none is forgotten
\* but the ones that redefining a parser, assigning to an unretained one and deleting
\* a retained one without undefining it leave behind.
OneOwner == \A n \in Live \ retained : Cardinality(Owners(n)) = 1

\* No pointer the caller or the walk can follow leads to a freed node: parsers that
\* refer to each other are all undefined before the first is deleted.
NothingDangles == Reach(held \cup {todo[i] : i \in 1..Len(todo)}) \subseteq Live

\* What is live can be got at, by the caller, by the walk in progress, or is accounted
\* for as lost: after a cleanup of everything nothing is left.
NothingLeaks ==
    Live \subseteq Reach(held \cup lost \cup {todo[i] : i \in 1..Len(todo)})
=============================================================================
