----------------------------- MODULE MpcGrammar -----------------------------
(***************************************************************************)
(* The compilers of core/mpc.c: mpc_re for regular expressions,            *)
(* mpca_grammar for one rule, mpca_lang for a list of rules.  They parse   *)
(* their text with folds that build parsers, so that compiling is a        *)
(* sequence of folds, each over the values of its parts, in the order of   *)
(* the text.  Which text it is, is open: any sequence of folds that some   *)
(* text has.  Rules refer to the parsers given as arguments, which         *)
(* mpca_grammar_find_parser reads when it needs them.                      *)
(*                                                                         *)
(* An item of a literal stands for mpca_state(mpca_tag(mpc_apply(...))) and *)
(* a reference for mpca_state(mpca_root(mpca_add_tag(p))): one node, since *)
(* no fold of theirs is one the optimiser merges.                          *)
(***************************************************************************)
EXTENDS MpcOptimise, FiniteSets

CONSTANTS
    Args,      \* the names of the parsers given, in order; the list ends in NULL
    Chars,     \* the literals of a text
    Idents,    \* the names a text refers to, in Args or not
    Numbers,   \* the numbers a text refers to
    Counts,    \* the numbers in braces
    Quantified, \* bound: which of "many", "many1", "maybe" and "not" a text has
    Compilers, \* bound: which of "regex", "grammar" and "lang" are run
    MaxVals,   \* bound: the parsers that wait to be folded
    MaxRules   \* bound: the rules of a text

ASSUME ArgsAssumption ==
    /\ Len(Args) \in Nat /\ Len(Args) + 2 <= MaxNode /\ Numbers \subseteq Nat
    /\ Counts \subseteq Nat \ {0}
    /\ \A i, j \in 1..Len(Args) : Args[i] = Args[j] => i = j

VARIABLES
    compiler,    \* which of Compilers is running
    predictive,  \* MPCA_LANG_PREDICTIVE
    pc,          \* "text", "apply", "define", "result" or "done"
    known,       \* st->parsers_num: the arguments read, the final NULL included
    vals,        \* the parsers built and not yet folded, with the level of their rule
    stmts,       \* the rules compiled and not yet defined
    left,        \* the parser being defined
    result,      \* the parser returned, in a sequence of at most one
    rules,       \* history: the rule each of Args was last defined by
    lost         \* history: unretained nodes nobody has a pointer to any more

vars == <<node, walk, compiler, predictive, pc, known, vals, stmts, left, result, rules, lost>>

\* How what is built was written: a parser of Peg in which a name matches itself.
Item(c)     == [type |-> "one", of |-> {c}]
Failing     == [type |-> "fail"]
Counted(n, p) == [type |-> "count", n |-> n, x |-> p]
Value(n, level, as) == [p |-> n, level |-> level, as |-> as]

Fold == IF compiler = "regex" THEN "re" ELSE "ast"

Init ==
    /\ compiler \in Compilers
    /\ predictive \in (IF compiler = "regex" THEN {FALSE} ELSE BOOLEAN)
    /\ node = [n \in Nodes |->
                 IF n \in 1..Len(Args)
                 THEN [Node("undefined", "", "", <<>>) EXCEPT !.retained = TRUE] ELSE Free]
    /\ walk = <<>> /\ pc = "text" /\ known = 0
    /\ vals = <<>> /\ stmts = <<>> /\ left = 0 /\ result = <<>>
    /\ rules = [i \in 1..Len(Args) |-> Failing]
    /\ lost = {}

----------------------------------------------------------------------------
(* Nodes *)

Unused == Nodes \ Live

\* The k-th node to be allocated.
New(k) == CHOOSE n \in Unused : Cardinality({m \in Unused : m < n}) = k - 1

HasRoom(k) == Cardinality(Unused) >= k

Unretained == {n \in Live : ~node[n].retained}
PartsOf(n) == ToSet(node[n].xs)

\* What belongs to the nodes of S: the unretained ones of them, their unretained parts, the
\* parts of these, and so on.  All others are in a set that nothing outside of it refers to.
Trees(S) ==
    LET all == Unretained
    IN  all \ UNION {T \in SUBSET (all \ S) : \A n \in all \ T : PartsOf(n) \cap T = {}}

\* mpc_soft_delete or mpc_delete, of the nodes of a set.
Released(S) == [n \in Nodes |-> IF n \in S THEN Free ELSE node[n]]

----------------------------------------------------------------------------
(* mpca_grammar_find_parser *)

\* A name is looked for among the arguments read before, then in the next ones.
FindName(x) ==
    IF \E i \in 1..Len(Args) : Args[i] = x
    THEN LET i == CHOOSE k \in 1..Len(Args) : Args[k] = x
         IN  [p |-> i, known |-> IF known > i THEN known ELSE i]
    ELSE [p |-> 0, known |-> Len(Args) + 1]

\* A number makes the arguments up to its position known; the last one known is the one
\* that is found.
FindNumber(i) ==
    IF i < Len(Args)
    THEN LET read == IF known > i THEN known ELSE i + 1 IN [p |-> read, known |-> read]
    ELSE [p |-> 0, known |-> Len(Args) + 1]

----------------------------------------------------------------------------
(* Folds *)

Text == pc = "text" /\ walk = <<>>
Same == UNCHANGED <<compiler, predictive, pc, walk, left, result, rules, lost>>

Push(v) == Len(vals) < MaxVals /\ vals' = Append(vals, v)

\* mpcaf_grammar_string, mpcaf_grammar_char and mpcaf_fold_regex; mpcf_re_escape, but for
\* the end of the input, and mpcf_re_range.
Literal(c) ==
    /\ Text /\ HasRoom(1)
    /\ node' = [node EXCEPT ![New(1)] = Node("item", "", c, <<>>)]
    /\ Push(Value(New(1), "base", Item(c)))
    /\ UNCHANGED <<known, stmts>> /\ Same

\* mpcf_re_escape of "$": a newline and the end of the input, or the end alone.
EndOfInput(c, d) ==
    /\ Text /\ compiler = "regex" /\ HasRoom(3)
    /\ node' = [node EXCEPT ![New(1)] = Node("item", "", c, <<>>),
                            ![New(2)] = Node("item", "", d, <<>>),
                            ![New(3)] = Node("or", "", "", <<New(1), New(2)>>)]
    /\ Push(Value(New(3), "base", [type |-> "or", xs |-> <<Item(c), Item(d)>>]))
    /\ UNCHANGED <<known, stmts>> /\ Same

\* mpcaf_grammar_id: what is found is referred to, what was written is meant.
Reference(found, as) ==
    /\ Text /\ compiler # "regex"
    /\ known' = found.known
    /\ IF found.p # 0
       THEN /\ HasRoom(1)
            /\ node' = [node EXCEPT ![New(1)] = Node("ref", "", "", <<found.p>>)]
            /\ Push(Value(New(1), "base", as))
       ELSE /\ HasRoom(2)
            /\ node' = [node EXCEPT ![New(1)] = Node("fail", "", "", <<>>),
                                    ![New(2)] = Node("ref", "", "", <<New(1)>>)]
            /\ Push(Value(New(2), "base", as))
    /\ UNCHANGED stmts /\ Same

Argument(i) == IF i \in 1..Len(Args) THEN Item(Args[i]) ELSE Failing

ByName(x)   == Reference(FindName(x), Argument(FindName(x).p))

\* A number is meant as a position, from 0 on: mpc.c:3460.  Only while the end of the
\* arguments has not been read: the code would find NULL or go on behind it.
ByNumber(i) == known <= Len(Args) /\ Reference(FindNumber(i), Argument(i + 1))

\* The folds work on the last values: how many there are is what the text decides.
Lasts(k) == SubSeq(vals, Len(vals) - k + 1, Len(vals))
Others(k) == SubSeq(vals, 1, Len(vals) - k)
AreLast(k, levels) == k <= Len(vals) /\ \A i \in 1..k : Lasts(k)[i].level \in levels

\* A base, or a whole grammar in parentheses, without a suffix.
Plain ==
    /\ Text /\ AreLast(1, {"base", "grammar"})
    /\ vals' = Append(Others(1), [Last(vals) EXCEPT !.level = "factor"])
    /\ UNCHANGED <<node, known, stmts>> /\ Same

Quantifiers == {"many", "many1", "maybe"} \cup (IF compiler = "regex" THEN {} ELSE {"not"})

Repeated(type, is, as) ==
    /\ Text /\ AreLast(1, {"base", "grammar"}) /\ HasRoom(1)
    /\ node' = [node EXCEPT ![New(1)] = Node(type, "", is, <<Last(vals).p>>)]
    /\ vals' = Append(Others(1), Value(New(1), "factor", as))
    /\ UNCHANGED <<known, stmts>> /\ Same

\* mpcaf_grammar_repeat and mpcf_re_repeat
Repeat(suffix) ==
    suffix \in Quantified \cap Quantifiers /\ Repeated(suffix, "", [type |-> suffix, x |-> Last(vals).as])

\* The suffix is told from a count by the first byte of what was parsed, which of a
\* count is its lowest.
SuffixOfByte(b) ==
    CASE b = 42 -> "many" [] b = 43 -> "many1" [] b = 63 -> "maybe" [] b = 33 -> "not"
      [] OTHER -> "count"

CountOrSuffix(n) ==
    LET type == SuffixOfByte(n % 256)
    IN  IF type \in Quantifiers THEN [type |-> type, is |-> ""] ELSE [type |-> "count", is |-> n]

Braces(n) ==
    vals # <<>> /\ Repeated(CountOrSuffix(n).type, CountOrSuffix(n).is, Counted(n, Last(vals).as))

\* mpcaf_grammar_and and mpcf_re_and: sequences of two, from the neutral parser on.
Sequence(k) ==
    /\ Text /\ AreLast(k, {"factor"}) /\ HasRoom(k + 1)
    /\ IF compiler = "regex" THEN Len(vals) < MaxVals + k ELSE k > 0
    /\ LET Pair(i) == Node("and", Fold, "", <<New(i), Lasts(k)[i].p>>)
       IN  node' = [n \in Nodes |->
              IF n = New(1) THEN Node(Neutral(Fold), "", "", <<>>)
              ELSE IF \E i \in 1..k : n = New(i + 1)
              THEN Pair(CHOOSE i \in 1..k : n = New(i + 1))
              ELSE node[n]]
    /\ vals' = Append(Others(k), Value(New(k + 1), "term",
                  [type |-> "and", xs |-> [i \in 1..k |-> Lasts(k)[i].as]]))
    /\ UNCHANGED <<known, stmts>> /\ Same

\* mpcaf_grammar_or and mpcf_re_or, without and with what follows a bar.
LastTerm ==
    /\ Text /\ AreLast(1, {"term"})
    /\ vals' = Append(Others(1), [Last(vals) EXCEPT !.level = "grammar"])
    /\ UNCHANGED <<node, known, stmts>> /\ Same

Alternative ==
    /\ Text /\ Len(vals) > 1 /\ HasRoom(1)
    /\ Lasts(2)[1].level = "term" /\ Lasts(2)[2].level = "grammar"
    /\ node' = [node EXCEPT ![New(1)] = Node("or", "", "", <<Lasts(2)[1].p, Lasts(2)[2].p>>)]
    /\ vals' = Append(Others(2), Value(New(1), "grammar",
                  [type |-> "or", xs |-> <<Lasts(2)[1].as, Lasts(2)[2].as>>]))
    /\ UNCHANGED <<known, stmts>> /\ Same

\* mpca_stmt_afold: a rule, which may have a name for messages.
Rule(x, named) ==
    /\ Text /\ compiler = "lang" /\ Len(stmts) < MaxRules
    /\ Len(vals) = 1 /\ AreLast(1, {"grammar"})
    /\ stmts' = Append(stmts, [ident |-> x, named |-> named, p |-> vals[1].p, as |-> vals[1].as])
    /\ vals' = <<>>
    /\ UNCHANGED <<node, known>> /\ Same

\* The text ends here, or it is one more fold away from an error: the destructors of
\* the parsers that were building release what was built.
Invalid ==
    /\ Text
    /\ \E freed \in {Trees({vals[i].p : i \in 1..Len(vals)} \cup {stmts[i].p : i \in 1..Len(stmts)})} :
          IF compiler = "lang"
          THEN node' = Released(freed) /\ result' = <<>> /\ pc' = "done"
          ELSE /\ HasRoom(1)
               /\ node' = [Released(freed) EXCEPT ![New(1)] = Node("fail", "", "", <<>>)]
               /\ result' = <<[p |-> New(1), as |-> Failing]>> /\ pc' = "result"
    /\ vals' = <<>> /\ stmts' = <<>>
    /\ UNCHANGED <<walk, compiler, predictive, known, left, rules, lost>>

----------------------------------------------------------------------------
(* The end of the text *)

\* mpc_re_mode and mpca_grammar_st optimise what they return.
TextEnds ==
    /\ Text /\ compiler # "lang"
    /\ Len(vals) = 1 /\ AreLast(1, {"grammar"}) /\ (predictive => HasRoom(1))
    /\ result' = <<[p |-> vals[1].p, as |-> vals[1].as]>> /\ vals' = <<>>
    /\ Optimise(vals[1].p)
    /\ pc' = "result"
    /\ UNCHANGED <<node, compiler, predictive, known, stmts, left, rules, lost>>

\* mpc_predictive goes around it at the end.
ReturnResult ==
    /\ pc = "result" /\ walk = <<>> /\ (predictive => HasRoom(1))
    /\ IF predictive
       THEN /\ node' = [node EXCEPT ![New(1)] = Node("predict", "", "", <<result[1].p>>)]
            /\ result' = <<[p |-> New(1), as |-> [type |-> "predict", x |-> result[1].as]]>>
       ELSE UNCHANGED <<node, result>>
    /\ pc' = "done"
    /\ UNCHANGED <<walk, compiler, predictive, known, vals, stmts, left, rules, lost>>

\* What the rules are wrapped in, and the nodes that takes.
Wrappers(rule) ==
    (IF predictive THEN <<"predict">> ELSE <<>>) \o (IF rule.named THEN <<"expect">> ELSE <<>>)

Needed(rule) == Len(Wrappers(rule)) + IF FindName(rule.ident).p = 0 THEN 1 ELSE 0

\* mpca_stmt_list_apply_to, a step of which is one rule: its parser is found, ...
RulesRead ==
    /\ Text /\ compiler = "lang" /\ vals = <<>>
    /\ HasRoom(FoldSeq(LAMBDA rule, n : n + Needed(rule), 0, stmts))
    /\ pc' = "apply"
    /\ UNCHANGED <<node, walk, compiler, predictive, known, vals, stmts, left, result, rules, lost>>

\* ... what it was compiled to is wrapped and optimised, ...
ApplyRule ==
    /\ pc = "apply" /\ stmts # <<>> /\ HasRoom(Needed(Head(stmts)))
    /\ LET rule  == Head(stmts)
           found == FindName(rule.ident)
           wraps == Wrappers(rule)
           k     == Len(wraps)
           fails == IF found.p = 0 THEN 1 ELSE 0
           top   == IF k = 0 THEN rule.p ELSE New(k)
           made  == [n \in Nodes |->
                       IF \E i \in 1..k : n = New(i)
                       THEN LET i == CHOOSE j \in 1..k : n = New(j)
                            IN  Node(wraps[i], "", "", <<IF i = 1 THEN rule.p ELSE New(i - 1)>>)
                       ELSE IF fails = 1 /\ n = New(k + 1) THEN Node("fail", "", "", <<>>)
                       ELSE node[n]]
       IN  /\ known' = found.known
           /\ left' = IF fails = 1 THEN New(k + 1) ELSE found.p
           /\ node' = made
           /\ walk' = <<[p |-> top, parts |-> made[top].xs]>>
           /\ stmts' = <<[rule EXCEPT !.p = top,
                            !.as = IF predictive THEN [type |-> "predict", x |-> @] ELSE @]>>
                       \o Tail(stmts)
    /\ pc' = "define"
    /\ UNCHANGED <<compiler, predictive, vals, result, rules, lost>>

\* ... and mpc_define moves it into the parser.  A definition it had before is not
\* released, nor is the parser of a rule for nobody.
DefineRule ==
    /\ pc = "define" /\ walk = <<>>
    /\ LET rule == Head(stmts)
           made == node[rule.p]
       IN  IF node[left].retained
           THEN /\ node' = [node EXCEPT ![left] = [made EXCEPT !.retained = TRUE], ![rule.p] = Free]
                /\ rules' = [rules EXCEPT ![left] = rule.as]
                /\ lost' = lost \cup Trees(ToSet(node[left].xs))
           ELSE /\ node' = [node EXCEPT ![rule.p] = Free]
                /\ lost' = lost \cup {left} \cup Trees(ToSet(made.xs))
                /\ UNCHANGED rules
    /\ stmts' = Tail(stmts) /\ left' = 0
    /\ pc' = "apply"
    /\ UNCHANGED <<walk, compiler, predictive, known, vals, result>>

AllDefined ==
    /\ pc = "apply" /\ stmts = <<>>
    /\ pc' = "done"
    /\ UNCHANGED <<node, walk, compiler, predictive, known, vals, stmts, left, result, rules, lost>>

OptimiserRuns ==
    /\ OptimiseStep
    /\ UNCHANGED <<compiler, predictive, pc, known, vals, stmts, left, result, rules, lost>>

Compile ==
    \/ \E c \in Chars : Literal(c)
    \/ \E c, d \in Chars : EndOfInput(c, d)
    \/ \E x \in Idents : ByName(x)
    \/ \E i \in Numbers : ByNumber(i)
    \/ Plain
    \/ \E suffix \in Quantified : Repeat(suffix)
    \/ \E n \in Counts : Braces(n)
    \/ \E k \in 0..Len(vals) : Sequence(k)
    \/ LastTerm \/ Alternative
    \/ \E x \in Idents, named \in BOOLEAN : Rule(x, named)
    \/ Invalid \/ TextEnds \/ RulesRead

Finish == ReturnResult \/ ApplyRule \/ DefineRule \/ AllDefined \/ OptimiserRuns

Next == Compile \/ Finish

Spec == Init /\ [][Next]_vars

\* Once the text is read, the rest is a loop of one thread.
FairSpec == Spec /\ WF_vars(Finish)

----------------------------------------------------------------------------
(* Properties *)

\* Pointers to a node: from the compiler, from parts, from the lost.
Pointers(n) ==
    {<<"val", 0, i>> : i \in {j \in 1..Len(vals) : vals[j].p = n}}
    \cup {<<"stmt", 0, i>> : i \in {j \in 1..Len(stmts) : stmts[j].p = n}}
    \cup {<<"result", 0, i>> : i \in {j \in 1..Len(result) : result[j].p = n}}
    \cup {<<"left", 0, i>> : i \in {n} \cap {left}} \cup {<<"lost", 0, i>> : i \in {n} \cap lost}
    \cup UNION {{<<"part", m, i>> : i \in {j \in 1..Len(node[m].xs) : node[m].xs[j] = n}} :
                   m \in Live \ lost}

\* Folding, optimising, defining and giving up leave every node with one owner and no
\* pointer to a node that was freed; what redefinitions drop is all that is lost.  The
\* optimiser, which a rule may lead back to itself, works on live nodes, each once.
NodesOwned ==
    /\ \A n \in Nodes : ~node[n].retained =>
          Cardinality(Pointers(n)) = IF node[n].type = "free" THEN 0 ELSE 1
    /\ \A i \in 1..Len(walk) : walk[i].p \in Live /\ \A j \in 1..i - 1 : walk[j].p # walk[i].p

\* Nothing is left to rewrite in a parser and what belongs to it.
Merged(n) == \A m \in Trees({n}) : NothingToDo(m)

\* Where the optimiser has been no sequence or alternative begins or ends in one of its
\* kind, and no neutral parser is left in front of a single part.
NothingLeftToMerge ==
    walk = <<>> =>
        /\ pc \in {"result", "done"} => \A i \in 1..Len(result) : Merged(result[i].p)
        /\ pc = "define" => Merged(Head(stmts).p)

\* Once its text is read, every compilation ends: each rewriting of the optimiser leaves
\* fewer nodes, and no walk over the parts comes back to where it was.
CompilationEnds == pc # "text" ~> pc = "done"
=============================================================================
