# A TLA+ model of lexy

lexy is a small Lisp interpreter in C: an interpreter core (`src/core/eval.c`,
`env.c`, `builtin.c`), a parser built from combinators (`src/core/mpc.c`, driven
by `parser.c`), a command line and REPL (`lexy.c`), a standard library written
in the language (`src/lib/std.lisp`) and a hash table that nothing calls yet
(`hash.c`, `prime.c`).  The program is one thread.  Its hard parts are not races
but long sequences of legal calls: environments that are written by definitions
and half-written by calls, an input with nested marks and switched-off
backtracking, values that must be released once on every path through failing
parsers, memory that is handed between a pool and malloc.

The modules are TLA+ for TLC; the modules named `...Proofs` hold theorems that
TLAPS checks for every value of the constants.

## The system and its parts

| Part | Source | State | Operations | Talks to |
| --- | --- | --- | --- | --- |
| environments | `core/env.c` | tables of symbols and values with a condition (unset, dynamic, constant), a parent each | `lenv_put`, `lenv_putg`, `lenv_get`, `lenv_copy`, `lenv_init`, `lenv_del` | called by the evaluator and the builtins |
| defining builtins | `core/builtin.c:431-501` | none of their own | `let`, `letc`, `global`, `globalc` | `lenv_put`, `lenv_putg` |
| function calls | `core/eval.c:461-531` | the environment and the formals of the function being called | `lval_call`: bind, `&`, partial application, enter | `lenv_put`, `lval_eval` |
| evaluation | `core/eval.c:537-589` | the tree under evaluation, rewritten in place | `lval_eval`, `lval_evsexp` | environments, calls, builtins |
| other builtins | `core/builtin.c` | none | arithmetic, comparison, lists, `if`, `eval`, `lambda`, `use`, `error`, `print` | evaluator; `use` calls the parser and reads a file |
| parser input | `core/mpc.c:60-565` | place in the text, marks, a buffer for pipes, `backtrack`, `suppress` | read, mark, unmark, rewind, end of input | called by the parser |
| memory pool | `core/mpc.c:219-293` | 512 cells with a flag each | `mpc_malloc`, `mpc_free`, `mpc_realloc`, `mpc_export` | every value and error of a parse |
| errors | `core/mpc.c:567-873` | position, failure, expectations | new, fail, or, merge, repeat, print | parser |
| parser execution | `core/mpc.c:1041-1306` | the C stack, results, the furthest error | `mpc_parse_run`, `mpc_parse_input` | input, pool, errors |
| parser construction | `core/mpc.c:1356-1985` | parser nodes, retained or not | constructors, `mpc_define`, `mpc_undefine`, `mpc_copy`, `mpc_delete`, `mpc_cleanup` | grammar, `parser.c` |
| regular expressions, grammars | `core/mpc.c:2131-2404, 3320-3722` | the parsers built and not yet folded, the arguments read so far | `mpc_re`, `mpca_grammar`, `mpca_lang`, `mpca_grammar_find_parser` | construction, optimiser |
| syntax trees | `core/mpc.c:2868-3320` | trees | `mpc_ast_*` | `lval_read` |
| optimiser | `core/mpc.c:3881-4052` | parser nodes | `mpc_optimise` | construction |
| reader | `core/eval.c:229-287` | none | `lval_read` | syntax trees |
| ready-made parsers and folds | `core/mpc.c:1985-2130, 2404-2866` | none | `mpc_digits`, `mpc_tok`, `mpcf_*` | construction |
| command line, REPL | `core/lexy.c` | the root environment, the exit status | options, `-e`, a script, the REPL, SIGINT | parser, evaluator |
| hash table, primes | `core/hash.c`, `core/prime.c` | open addressing with deletion marks | insert, search, delete, resize; next prime | no caller |
| standard library | `lib/std.lisp` | definitions of the language itself | | evaluator |

What makes each part correct:

- environments: no duplicates, constants final, builtins untouched, what was
  stored is what is found, callers' variables out of a callee's reach;
- evaluation: arguments first and in order, the first error is the result,
  one element is its own value; a call never changes the function called;
- input: places right for the text after any nesting of marks and rewinds, marks
  paired although they are switched off in predictive stretches;
- pool: a cell has one owner, a block keeps its contents through every move;
- parser: the answer is the one the combinators mean, each value is released
  once, the furthest error is reported, a parse ends;
- construction: no node is freed twice or used after it was freed, and a cleanup
  frees everything;
- grammars and optimiser: what is compiled, and what is left after it was
  optimised, matches what was written; every node on the way has one owner,
  wherever the text breaks off;
- command line: the exit status tells what failed, whichever way the code came in;
- reader and trees: a program is read as it is written, whatever its lists are.

## Modules

| Module | Models | Checked by |
| --- | --- | --- |
| `Env` | environments, defining builtins, binding of parameters | `MCEnv`, `EnvProofs` |
| `Scopes` | what they promise: a stack of maps | refinement `Env!ScopesSpec` |
| `MpcInput` | the input of a parser | `MCMpcInput`, `MpcInputProofs` |
| `MpcRun` | `mpc_parse_run` over `MpcInput`, with its errors | `MCMpcRun`, `MpcRunProofs` |
| `MpcMatch` | what a parser matches, as rules: the reference for `MpcRun` | `MCMpcRun`, `MpcRunProofs` |
| `Peg` | what a parser matches, as a function: it keeps the rules, and is the reference for `MpcGrammar` | `MCMpcRun`, `MCMpcGrammar` |
| `MpcPool` | the memory pool | `MCMpcPool`, `MpcRunProofs` |
| `MpcParser` | the graph of parser nodes: construction, definition, copy, release | `MCMpcParser`, `MpcParserProofs` |
| `MpcOptimise` | the rewriting of the graph by `mpc_optimise` | `MCMpcGrammar`, `MpcGrammarProofs` |
| `MpcGrammar` | `mpc_re`, `mpca_grammar`, `mpca_lang`, over `MpcOptimise` | `MCMpcGrammar`, `MpcGrammarProofs` |
| `Reader` | the grammar of the language on tokens, its syntax trees | `MCReader`, `ReaderProofs` |
| `ReadRules` | one node of `lval_read`; by rules, what a tree is read as and how a value is written | `MCReader`, `ReaderProofs` |
| `LvalRead` | `lval_read` of such a tree, as a function that keeps the rules | `MCReader` |
| `Lval` | values, environments as maps, the builtins that only compute | `MCEval`, `LexyProofs` |
| `LvalSaid` | what `lval_eq` compares of a value | `MCEval` |
| `Eval` | `lval_eval`, `lval_evsexp`, `lval_call`, the other builtins, loading a file | `MCEval`, `LexyProofs` |
| `Lexy` | options, a script, `-e`, the REPL, exit status, over `Eval` | `MCEval`, `LexyProofs` |
| `LispRules` | what expressions and programs mean, as rules: the reference for `Eval` and `Lexy` | `MCEval`, `LexyProofs` |
| `Lisp` | what an expression means, as a function that keeps the rules | `MCEval` |
| `Facts` | lemmas about numbers and sequences used by the proofs | |

Each state module also has a few operators that begin with "Bug:" in their
comment.  They are variants of a definition with one plausible mistake; putting
one in the place of the original makes one property fail, which shows that the
property depends on that definition.

### Env

The parent of a called function's environment is set to the environment of the
caller (`eval.c:526`), so the chain that `lenv_get` climbs is a stack: `frames`,
root first.  An environment is the sequence of its bindings in the order of the
C arrays.  A value is a payload and its condition field; `Put` follows
`lenv_put`: two early returns (`PutFails`), overwriting with the condition of the
new value, appending with the condition asked for if the value has none.

`Define` begins a definition with any symbols and any evaluated arguments;
`DefinePut` stores one of them, `DefineFails` leaves at the first that cannot be
stored.  `Call`, `BindFormal`, `BindRest`, `BindNoRest`, `TooManyArguments`,
`BadVariadic`, `Enter`, `PartialApplication` and `Return` are the paths of
`lval_call`.  What a body computes is open: between operations any operation may
follow, so the properties hold whatever programs do.  A partial application
leaves a closure in `held`; one is enough, because a closure is copied before it
is called.  `EvalResults` are the values an argument can have.  A value outlives the
variable it is copied from: a call gives it back, a list keeps it in a cell, an argument
waits until the next one is evaluated.  How long is left open, so `given`, a history
variable, collects the values that variables have had, and an argument is one of these, a
literal, whose condition is unset, or a new value with the condition of one of these
(arithmetic reuses its first operand, and a list is often the copy of a quoted one).

### MpcInput, MpcRun, MpcMatch, Peg

`MpcInput` keeps the fields of `mpc_input_t`.  A failed read leaves the input as
it was (the file is sought back, the pipe gets its character back), so it is not
a step.  The caller is a stack of obligations, `open`: a mark or a predictive
stretch, to be closed in order.

`MpcRun` turns the C recursion into a stack of frames over the same operations.
`Parsers` are all the parsers there are, `Roots` those that are run.  Every frame
has, as history, what it and the calls above it owe the input (`open` of a frame);
with the top one in the place of `open`, `MpcRun` implements `MpcInput`
(`KeepsInputProtocol`).  Values are counted (`live`).  An error is its position,
its failure and the set of its expectations; `far` is `*e`, `errs` counts the
errors in memory.  `Together` is what `mpc_err_or` makes of two errors, `Merge` is
`mpc_err_merge`, `Repeated` what `mpc_err_many1` and `mpc_err_count` make of one.
Two more variables are history: `tried` collects all that was expected or failed
at the furthest place, `rejected` counts values that a failed check leaves behind
(`mpc.c:1067-1087` releases none; `EveryValueOwned` allows for these and no others).
`MpcMatch` and `Peg` say, without marks, stack or errors, what a parser matches and
where it leaves the input.  `Peg` is a recursive function, which a proof cannot use.
`MpcMatch` gives rules instead: how a parser without parts answers (`Starts`), and
what the answer of a part makes of the one around it (`Continues`).  `Answers` and
`Reaches` are any that keep the rules (`Closed`), so what is proved of them is true
of the answers that the rules can derive and of no more.  `AnswersAsMeant` says that
a parse gives one of the `Answers`.  In the run these are what `Peg` gives, one
answer or none for each parser, text and place, and TLC checks that they keep the
rules, every rule on every parser, text and place of the run.  A count is of one or
more: `mpc_count` takes 0 too, but `mpc.c:1215-1223` then succeeds if its part fails
first and writes past its results if it goes on matching, so `ParsersAssumption` leaves
it out.

### MpcPool

A pointer is a cell or a malloced block.  `MallocCell` and `MallocBlock` are `mpc_malloc`
with and without a free cell, `ReallocNull` is `mpc_realloc` of no block, with which the
expectations of an error begin: it takes a malloced block whatever cells are free.  `wrote` remembers what the owner of each
handle wrote last; `BlocksKeepData` says the block still holds it, wherever it was
moved.  `Delete` is taken once no wanted pointer is in the pool, which is what
`mpc_parse_input` arranges by exporting the result before the input is deleted.
Its specification and state have names of their own (`PoolSpec`, `pool`), so that
`MpcRunProofs` can extend it beside `MpcRun`, whose memory it is.

### MpcParser

A node is free, undefined or defined, refers to its parts, and is retained or not.
The caller holds pointers (`held`); handing an unretained parser to a constructor
gives it away.  `mpc_undefine_unretained` is a walk: `todo` are the calls still to
be made, `Visit` is one of them.  `mpc_cleanup` is two loops, `CleanupUndefine` and
`CleanupDelete`, with walks in between.  Three operations forget nodes without
releasing them, as the code does: `mpc_define` of a parser that was defined,
`mpc_define` of an unretained one, and `mpc_delete` of a retained one that is still
defined.  `lost` collects them, so that `OneOwner` and `NothingLeaks` say that
nothing else is forgotten.

### MpcOptimise, MpcGrammar

A parser that compiles a text is made of the combinators of `MpcRun`; what it
compiles to is decided by its folds.  `MpcGrammar` is therefore any sequence of
folds that some text has: `vals` are the parsers built and not yet folded, each
with the level of the rule it came from (`base`, `factor`, `term`, `grammar`), and
a fold applies to the last ones if their levels fit.  `Invalid` is a text that
breaks off: the destructors release what was built, `mpc_re` and `mpca_grammar`
return a parser that fails, `mpca_lang` an error.  `known` is how much of the list
of arguments `mpca_grammar_find_parser` has read; a name is found among them or in
what follows, a number finds the last argument read and means, as the message at
`mpc.c:3460` says, a position from 0 on.  `RulesRead`, `ApplyRule` and
`DefineRule` are `mpca_stmt_list_apply_to`: wrap, optimise, define, rule by rule.
A rule defined twice, or a rule of no parser, leaves its former parts behind; these
are in `lost`, so that `NodesOwned` says that nothing else is.  A node of type
"item" is a literal with its tag and its `apply`, one of type "ref" a reference
with its tag: chains of nodes that the optimiser does not touch.  The `$` of a regular
expression is an alternative of two of them (`EndOfInput`), which it may merge.

`MpcOptimise` is the recursion as a stack, `walk`.  `VisitPart` goes down into an
unretained part, then `MergeLast`, `MergeFirst` and `RemoveNeutral` are the branches
of the loop of `mpc_optimise_unretained`, in its order of precedence, until
`NothingToDo`.  Each value and rule carries `as`, the parser of `Peg` that was
written; `MeansAsWritten` compares what is compiled with it between any two steps.
There is one exception to it: a failing count leaves the input where its last match
ended (`mpc.c:1224`) and relies on the sequence around it to rewind, and the
optimiser removes that sequence if the count is alone in it.  From then on
`a{2}|b` tries its second part behind the first `a` of a text, so that it matches
"ab".  `LoneCount` names these parsers, and they are compared but for the rewinding.

### Reader

A text is a sequence of tokens, a token being what one regular expression or
character of the grammar matches; which characters these are is left out. The rules
in progress are a stack of frames. Trees are built by the folds of the code, tag for
tag: `mpca_grammar_id` adds the name of a rule and wraps a node that has several
children, `mpcf_fold_ast` takes the wrapping off again and splices. `lval_read`
looks for names in tags: `OfNode` is what it makes of a node whose children have been
read, `Skipped` are the children it passes over. `ReadsAsWritten` says that a text
that matches is read as a list whose cells the text says. What reading (`Read`) and
saying (`Says`) are is left open but for the rules of `RulesKept`, one for a node, one
for a token and one for a list. In the run they are `lval_read`, in a module of its own
because it is recursive, and writing the value down again, without comments; that these
keep the rules is checked on sample trees and texts (`TreesKept`, `TextsKept`).
`OptimisedAsWritten` compares the sequence of three that `mpc_optimise` makes of
`'(' <atom>* ')'` with the nested pairs `mpcaf_grammar_and` had built.

### Lval, Eval, Lexy, LispRules, Lisp

`Env` says what any program can do to environments; `Eval` runs programs. The C
recursion is a stack of frames (a list whose cells are being evaluated in place, the
body of a function, a file), `ctl` is the value to evaluate or the value given back,
`chain` the environment and its parents. `use` finds the files of `Library`; a file
that cannot be read and one that does not match are the same to it. Messages are
reduced to what went wrong. Numbers are whole, and `mod`, `pow` and `sqrt` are left
out. `Expressions` are what `lval_read` can make of a text and all their parts;
`Readable` says what such a value is: none is a function, and none has a condition.
Comparing two values is recursive, so `Lval` takes what is compared as a constant,
`Said`, which the configuration sets to `EqualPart` of `LvalSaid`; the proofs hold
for every `Said`.

`Lexy` is `main` over `Eval`: the options one after the other, then the code of
`-e` (expression by expression, the last error kept), a script (loaded like a file,
its errors printed one by one) or the lines of the REPL (a line is one list), and
the exit status.  A text is the set of what `mpc_parse` and `lval_read` make of it:
its expressions, or nothing if it does not match.  That `Reader` reads what is
written is a matter of its own.

`LispRules` says what a program answers, without a stack: the arguments of a list in
order, the first error, a single element as its own value, a function applied below
its caller's environment (`Meanings`), and the expressions of a list, a file or the
prompt one after the other (`NextValue`, `NextRun`, `NextReply`).  `Means`, `Valued`,
`Ran` and `Replied` are any sets of answers that keep these rules (`RulesKept`); the
least that do are what can be derived, so an expression that needs more than
`MaxDepth` environments has no meaning.  `Eval` evaluates a single element twice and
rewrites lists while it evaluates them; `AnswersAsMeant` says that output, root
environment and exit status are nevertheless those that the rules give
(`Answers(program)`), and `ValuesAreFinal` why: evaluation never gives something that
could be evaluated further.

`Lisp` gives the meaning of an expression by recursion on it.  It is written apart
from the rules, and in the run it gives `Means` and the others, one answer or none, so
that there `AnswersAsMeant` compares with what `Lisp` computes.  That it keeps the
rules is checked on every expression of the run in four chains, with their lists also
taken as files, and on all lines typed (`MeaningsKept`, `ListsKept`, `RepliesKept`).

## Runs

| Run | Instance | Shows |
| --- | --- | --- |
| `env_names` | two symbols, one of them `&`; definitions of up to two symbols; every list of up to two formals, up to two arguments; two frames; one datum | `TypeOK`, `SymbolsUnique`, `OnlyDynamicChanges` |
| `env_chain` | one symbol and one builtin, three frames; formals `()`, `(& &)`, `(add & &)` | `StoredIsSeen`, `CallersUntouched`, `ScopesSpec` |
| `env_conditions` | as `env_names`, with two data, one of them a list, and no builtins | the first divergence below |
| `input_text` | texts of up to three characters over a letter and the newline, as strings, files and pipes; `MPC_INPUT_MARKS_MIN` = 2, five obligations | `TypeOK`, `MarksFit`, `MarksPaired`, `ReadsTheText`, `PredictiveMovesOn`, `PipeInOrderUnderMark` |
| `input_pipe_loss` | the same texts from a pipe, three obligations | the second divergence below |
| `parse` | every parser of up to three levels over the leaves of `MCMpcRun`, the same texts, `MPC_PARSE_STACK_MIN` = 2, four results | `EveryValueOwned`, `EveryErrorOwned`, `FurthestErrorKept`, `ResultsFit`, `AnswersAsMeant`, `ParseEnds`, `KeepsInputProtocol` |
| `pool` | two cells, three handles, sizes below, at and above the cell size | `CellsAccounted`, `BlocksKeepData` |
| `parser_graph` | four nodes of up to two parts, up to renaming of the nodes | `OneOwner`, `NothingDangles`, `NothingLeaks` |
| `grammar` | nine nodes, two of them arguments; three waiting values, two rules, one literal, one suffix and the number 2 in braces, names in and out of the list, the number of the last argument and one too large | `MeansAsWritten`, `NodesOwned`, `NothingLeftToMerge`, `CompilationEnds` |
| `grammar_braces` | regular expressions with the number 42 in braces | the third divergence below |
| `reader` | texts of up to four tokens over nine, of up to six over six | `ReadsAsWritten`, `MatchesIfPaired`, `AtomsStayWhole`, `OptimisedAsWritten` |
| `eval` | over three thousand scripts of two definitions and an expression, code for `-e`, lines of the REPL, mixes of options; four environments in a chain | `ValuesAreFinal`, `CallsNest`, `AnswersAsMeant`, `ProgramEnds` |

The runs of `Env`, `MpcInput`, `MpcRun` and `MpcParser` check `TypeOK` too, that of
`MpcPool` its `PoolTypeOK`.

The bounds are small but each is past the point where the interesting case
happens: three frames are needed for a caller that is neither root nor current;
the mark arrays start at two slots so that five marks grow them twice and shrink
them again; the result arrays start at two so that four results need the second,
reallocating growth; two cells and three handles exhaust the pool; four nodes hold
two parsers that refer to each other with a part each, and a parser with a part and
its copy; seven nodes beside the arguments hold a sequence in a sequence with its
two neutral parsers, an alternative in an alternative, and two rules that refer to
each other; six tokens hold a list of two atoms in a list.  The programs of `eval`
define a variable (dynamic, constant, in the root, or with a value that is an error)
and a function that takes one argument, two or any number, defines in its own
environment and in the root, reads a variable of its caller, loads a file, recurses a
few times, or for ever; the expressions put every builtin of `Lval`, a
function and a variable before one argument of each kind (a number, a bound and an unbound
symbol, a function, a list, a string, nothing in parentheses) and before two that are a
number, a variable, a function, a list or a string, and pass the results of calls on.

Deadlock is not checked where the program really stops: when a parse, a reading, a
compilation or a program is over, and when the input of a pool has been deleted and
its blocks released.

Fairness: the interpreter and the parser are single-threaded, and what has begun is
a C function that runs on.  `MpcRun` and `Lexy` have weak fairness of their whole
next-state relation, for `ParseEnds` and `ProgramEnds`.  In `MpcGrammar` the text is
open, so only what follows it (`Finish`) is fair.  The other modules, whose callers
are open, assume no fairness and claim no liveness.

`ParseEnds` and `ProgramEnds` are about those parsers and programs that end
according to `Peg` and, by way of `Answers`, `Lisp`: `Peg` has no answer for a
repetition of a part that matches nothing, and for such a parser the code does not
return (`mpc.c:1162`); nor does `Lisp` for a function that calls itself for ever.

## Where the code and its documentation differ

- `env_conditions`: a definition may store another condition than it is named for.
  `letc` of a value that came out of a dynamic variable stores a dynamic binding
  (`env.c:147` sets the condition only if the value has none); overwriting a dynamic
  variable with a fresh value leaves a binding whose condition is unset
  (`env.c:136-137`), which `let` then refuses to change.  `README.md:38` and
  `builtin.h:58-59` call the one constant and the other dynamic.
- `input_pipe_loss`: closing the outermost mark of a pipe frees the buffer although
  the place was rewound into it (`mpc.c:337`); the comment at `mpc.c:50-52` says
  that reading goes on from the buffer.
- `grammar_braces`: a suffix is told by the first byte of what was parsed
  (`mpc.c:2169`, `3391`), which for a number in braces is the lowest byte of an int
  where the low byte comes first: `a{42}` is compiled as `a*`.  The comments at
  `mpc.c:2142` and `mpc.c:3356` give braces as a form of its own.

## Proofs

`EnvProofs` proves for every set of names, payloads, depth and arity that the
types are kept, that symbols are unique, that builtins stay (`BuiltinsStay`), that
only dynamic bindings change, that callers are untouched, that what a definition
stores is what the symbol evaluates to next (`WhatIsStoredIsSeen`), and that `Env`
implements `Scopes`.  The inductive invariant adds to the properties that a call in progress has
room for its frame (`CallHasRoom`); uniqueness is needed for the others, because
`lenv_put` and `lenv_get` look at the first match only.

`MpcInputProofs` proves the mark arrays' room, the pairing of marks and the
places, for any text and any number of marks.  `MarksPaired` alone is not
inductive: after a predictive stretch ends one must know that `backtrack` returns
to the value it had when the stretch began.  The invariant records it: each
obligation carries the value of `backtrack` it found, and consecutive ones are
linked (`Chain`).  `ReadsTheText` is proved for strings and files, the kinds for
which it holds, and needs that the marks are in ascending order (`Ascending`).
`PipesStayInOrder` needs beside it that no more is taken from a pipe than the text
has, and that the buffer is empty without a mark (`PipeInv`).

`MpcParserProofs` proves for any finite set of nodes and any number of parts that an
unretained node has one owner, that no pointer leads to a freed node, and that
nothing is forgotten but what three operations forget.  Counting owners is no help
to a proof; the invariant says instead that a live node has an owner (`Owned`) and
no second one (`Once`).  It adds that only forgotten nodes may refer to freed ones
(`RefersToLive`), that every other live node can be reached from the caller or the
walk (`Rooted`), and what makes the order of the two loops of `mpc_cleanup` right:
a parser that has been undefined has no parts, and no parser that stays refers to
one that goes (`CleanupSafe`).  Reachability is a least fixed point; the lemmas on
`Closure` say that it holds its roots, is closed and is the least such set, and the
rest of the proof uses nothing else of it.  One lemma for each action says what it
keeps.

`MpcRunProofs` proves for any set of parsers and texts that every value and every
error is owned once and that the results of a repetition have room. Its invariant
adds the types of calls, that a string is matched only by the call on top
(`StringsOnTop`), that a part has no error while errors are suppressed
(`ErrorsType`), which is what makes it right that expect and not give one up without
releasing it, and that `suppress` counts the calls that suppress them (`Counters`).
Every action has one of five shapes (a leaf answers, a call is entered, a call goes
on, a call returns, the stack stays), and each part of the invariant is kept by a
shape, not by each action. `MPC_PARSE_STACK_MIN` has to be at least two: growing a
room of one by half makes none.

It then proves that `MpcRun` implements `MpcInput`: with what calls
owe (`Linked`: a frame owes what the frame below owes, and its own), a step of a
parser is a step of the input or leaves it alone.  So what
`MpcInputProofs` proves of every caller is true of the parser's input
(`ParsesReadTheText`); the definitions that the two instances of `MpcInput` give are
the same, which `ParsesTheInput` shows one by one.

`FurthestErrorReported` is about errors and places at once. `FurthestErrorKept`
alone does not survive a step: errors that calls still hold are merged into `far`
later, so the invariant also says that each of them is about a place of the text no
further than the input has been and names only what was tried there (`ErrorsKnown`,
over `InText`). What an error can name is a set, `Messages`, given with the parsers,
because the messages of a failure are computed by recursion on the parser.

`ParsesAsMeant` says that whatever parser is run on whatever text, its answer and the
place it leaves the input at can be derived by the rules of `MpcMatch`. Nothing in
the state says where a call began once its mark is switched off, so the invariant is
existential: there is a sequence of beginnings, one for each call in progress
(`Explained`), that says where the call began and whether it could backtrack, such
that the call below had got that far by the rules (`Runs`); that the mark of a call
that has one is where it began (`MarksExplained`), which needs that marks are paired
with the calls; that a string in progress has read what the text and the string have
in common (`StringExplained`); and that the answer just given is one of the
`Answers` of the parser that was called (`OutExplained`). Three lemmas say how a
sequence of beginnings follows the stack (`PushExplained`, `TurnExplained`,
`PopExplained`), and each action is first reduced to one of four kinds: it answers
without parts, calls the first part, calls another one, or returns. For a pipe,
whose buffer may be lost (`input_pipe_loss`), nothing is claimed.

The end of `MpcRunProofs` is about the memory that values and errors live in: in
`MpcPool`, cells have one owner and blocks keep their contents.  The two and the
types form the invariant.  Every step is first reduced to one of five shapes (a
pointer given, written, moved, dropped, or nothing).

`MpcGrammarProofs` proves for any arguments, texts and bounds that the compilers and
the optimiser leave every node with one owner (`NodesAlwaysOwned`). Counting
pointers is again no help; the invariant has three parts. `Graph` is about nodes:
what is in use is held by the compiler or is a part (`Owned`), no node is a part
twice (`Once`), no part is held as well, or freed, or lost (`Targets`), and only
references have arguments as parts (`Kinds`). `Roots` is about the compiler's own
pointers, which are to different unretained nodes, and which of them there are in
each phase. `Path` says that the calls of the optimiser lead from the parser it was
given to the node it is at, each node a part of the next, and no node on the path
twice: this keeps what a rewriting frees from being under a call. Two lemmas do most
of the work: steps of the text only build (`Built`, `GraphGrows`), and every other
step frees some nodes and moves the parts that these had (`Moved`, `GraphMoves`);
each action is shown to be of one of these kinds. What gives up or drops parsers
releases what belongs to them (`Trees`), the least set that holds them and is closed
under unretained parts; the proofs use only that it is one and the least
(`TreesHold`, `TreesLeast`, `TreesBack`).

`NothingIsLeftToMerge` is about what the optimiser has behind it. `Working(D)` says
that D is a set of nodes it is done with: there is nothing to do in them, the parts
of each are in D or arguments, and D is what has been seen of the parts of the
calls, and what belongs to that. A node that is rewritten is in no such set, because
it is on the path; the parts it takes over were seen before, so they are in D
already, and nothing else in D had the freed node as a part (`RewrittenWorks`). When
a call returns its node joins D, and when the last one has, D holds the parser and
all that belongs to it.

`ReaderProofs` proves that a text is accepted if and only if its brackets pair up.
The invariant, `Bracketed`, carries the pairing: a map from closing to opening
brackets of the text read so far and the openings still waiting, one for each frame
of a list. Its parts say that pairs are of one kind, that no two of them cross, and
that the pairing is forced: every other pairing of the text agrees with it as far as
it has been read. The last is what makes "only if" provable: when the parser gives
up, a pairing of the whole text would have to agree with a stack that does not fit
the next bracket. That the atoms of a list stay whole and that the optimised rule
folds as the written one does follows from what a tree in a frame looks like
(`Stacked`: it is one child of what it is spliced into).

`ReadsAsMeant` says that a text that matches is read as what is written in it. Induction
on trees is out of reach, so the invariant (`ToldSoFar`) follows the parser: for every
list in progress, what the text says since its bracket is what the children it has so far
are read as, and `Bracketed` tells where that bracket is. A list that ends becomes one
child of the list around it. What makes this delicate is which tag that child has by
then: a leaf, a list with atoms and an empty list take different paths through the folds,
each lending its tags to what it is wrapped in. The lemmas `LeafLends` and `ListLends`
show that the names `lval_read` looks for survive and that no other gets in. As in
`LispRules`, `RulesKept` is a hypothesis because it speaks of every tree.

`LexyProofs` is about whole runs of the command line.  `EnvironmentsNest` rests on
`Nested`: the chain is the root and one environment for each body on the stack, in
the order of the calls, and the frame of a command line's code is the
outermost one (`CodeFirst`).  `NothingLeftToEvaluate` needs a set of values, because
a value is a tree and induction on it is out of reach: the invariant, `Finite`, says
that there is a set that holds everything in sight, is closed under the
cells, formals, bodies and variables of its members and under a change of their
condition (`Sound`), and in which every variable is bound to something final
(`Settled`).  The frames fit the set (`FrameFits`): in a list whose cells are being
evaluated, those that have been are final.  Each builtin is shown to answer in the
set or in one that is a little larger (`ReadyFacts`, `BindAnswers`, `DefineAnswers`).

`EvaluatesAsMeant` says that a process that has ended has printed what the rules of
`LispRules` give, has the root environment they give and exits with their status.
Induction on expressions is out of reach, and so is a history of where each call
began; the invariant (`Answering`, `Following`) reads the stack from the top as what is
still to be answered.  Each frame has a task: an expression, a list or a file, the
chain and the output it began with.  `Takes` says which answer a frame may be given:
one with which its task is, by the rules, a step further.  `Hands` says that whatever
the task of a frame may answer, the frame below may be given.  So there are tasks for
the stack such that what `ctl` gives may be given to the top (`Controls`), or whatever
the expression in `ctl` may mean may be; the second alternative of `Seeks` is a single
element that is evaluated again, which `NothingLeftToEvaluate` shows to be a value.  In a
list evaluated in place, cells from the current one on are those of the task and the
ones before are its values (`Agrees`, `CellsFollow`).  Every step pops, pushes or
replaces a frame (`GivesBack`, `GoesDeeper`, `TakesPlace`), and the answer of a builtin or
a call is one of the rule for it (`AppliedFollows`).  On the command line `Answering`
adds which text is being run and that its answers are those of the program: the
options handled so far tell which (`Handled`), and the code of `-e` has the last error
of the values so far (`LastErrorAppended`).  `RulesKept` is a hypothesis of the
theorem, because it speaks of every expression, chain and output; what keeps the
rules is any meaning of which an answer is derived from the answers of the parts.

Induction on data is out of the prover's reach.  `Facts` has the least-number
principle and its mirror image, which stand in for it, and what the
proofs need of sequences used as stacks.

The constants' assumptions (`ASSUME` in each module) are that sets are sets of
the right things, that the parts of a parser are parsers, that what is read is
`Readable`, that counts are of one or more, that `Answers` and `Reaches` keep the rules, and that bounds are natural
numbers, with `MPC_PARSE_STACK_MIN` as said.

Only model-checked:

- liveness (`ParseEnds`, `ProgramEnds`, `CompilationEnds`), which is out of the prover's reach;
- that `Peg`, `Lisp`, `lval_read` and the writing down of a value, which are recursive
  on parsers, expressions and trees, keep the rules;
- `MeansAsWritten`, for the meaning of a node is recursive on the graph.

## Not modelled

- the signal handler: it releases what the interrupted code may be using and ends
  the process; what happens in between is a matter of the allocator;
- the texts of `-h`, `-v` and `-r`, colours, `fmt.c`, `mpc_print`, `mpc_ast_print`,
  `mpc_stats`: output; `mpc_ast_traverse_*`: no caller;
- the wording of errors (`mpc_err_string`), the order of their expectations and the
  character they end with;
- which characters a token, an escape or a range of a regular expression stands for;
- the ready-made parsers and folds (`mpc_digits`, `mpc_tok`, `mpcf_*`): compositions
  of the modelled constructors, and string conversions;
- floating-point arithmetic, with it `mod`, `pow` and `sqrt`;
- `hash.c` and `prime.c`: the table has no caller, and from the first deletion of a
  key on it reads behind the item it looks at (`hash.c:288`), so that there is no
  behaviour to compare with a map;
- `std.lisp`, tests and build files.

Some hazards have no property.  A count of zero writes past its array of results
(`mpc.c:1215`), and `use` appends to a string that has no room (`builtin.c:577`):
both are undefined from there on, and the models exclude the input that leads
there.  A number in a grammar finds the last argument read (`mpc.c:3464`), which is
another one than the one at its position once more of the list has been read.  With 0
among `Numbers`, `MeansAsWritten` does not hold of `<1> <0>`, where both numbers find the
second argument; `grammar` keeps to the last position and to one that is too large.
How deep calls may nest before the stack of C ends (`eval.c:527`) is a bound of the
model.  What `mpc_delete` and `mpc_define` give up without releasing it (`mpc.c:1440`) is
recorded in `lost` and not complained of.  That a count alone in a sequence
relies on it to rewind (`mpc.c:1224`) is described above (`LoneCount`): `AnswersAsMeant`
has the count, and `MeansAsWritten` leaves the rewinding out.

## Plan

1. `Reader` composed with `Lexy`: lines as tokens.
