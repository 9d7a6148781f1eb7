------------------------------- MODULE Scopes -------------------------------
(***************************************************************************)
(* What the environments promise, without tables, copies or conditions     *)
(* passed by hand: a stack of scopes, each a finite map from names to      *)
(* values.  A program writes the innermost scope and the outermost one     *)
(* only, and only a variable that is new or dynamic; a call opens a scope  *)
(* and closes it.  Env implements this (Env!ScopesSpec).                   *)
(***************************************************************************)
EXTENDS Integers, Sequences

CONSTANTS
    Names,  \* what can be bound
    Value,  \* [data, cond] records
    Root    \* the scope a program starts with

VARIABLE scopes

Scope == UNION {[S -> Value] : S \in SUBSET Names}

Init == scopes = <<Root>>

Store(d, s, v) ==
    LET m == scopes[d]
    IN  /\ IF s \in DOMAIN m THEN m[s].cond = "dynamic" ELSE v.cond # "unset"
        /\ scopes' = [scopes EXCEPT ![d] =
                         [t \in DOMAIN m \cup {s} |-> IF t = s THEN v ELSE m[t]]]

Open(m) == scopes' = Append(scopes, m)

Close == Len(scopes) > 1 /\ scopes' = SubSeq(scopes, 1, Len(scopes) - 1)

Next ==
    /\ scopes' # scopes
    /\ \/ Close
       \/ \E d \in {1, Len(scopes)}, s \in Names, v \in Value : Store(d, s, v)
       \/ \E m \in Scope : Open(m)

Spec == Init /\ [][Next]_scopes
=============================================================================
