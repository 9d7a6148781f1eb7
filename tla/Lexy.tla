-------------------------------- MODULE Lexy --------------------------------
(***************************************************************************)
(* The command line of core/lexy.c over Eval: the options, a script, the   *)
(* code given to -e or lines typed at the prompt, and the exit status.     *)
(*                                                                         *)
(* A text is the set of what mpc_parse and lval_read make of it: the       *)
(* sequence of its expressions, or nothing if it does not match.  SIGINT,  *)
(* which ends the process wherever it is, and the texts of -h, -v and -r   *)
(* are left out.                                                           *)
(***************************************************************************)
EXTENDS Eval

CONSTANT
    Programs  \* bound: what is run, [options, args, typed]: what getopt makes of the
              \* options, a script for each argument, and the lines somebody will type

Text    == SUBSET Content
Options == [flag : {"help", "wrong", "debug"}] \cup [flag : {"eval"}, text : Text]

ASSUME ProgramsAssumption ==
    Programs \subseteq [options : Seq(Options), args : Seq(Text), typed : Seq(Text)]

VARIABLES
    program,  \* the command line
    options,  \* those not yet handled
    code,     \* {} or the operand of -e
    mode,     \* "options", "code", "script" or "repl"
    lines,    \* texts not yet read
    status    \* {} or the exit status

command == <<program, options, code, mode>>
vars    == <<command, lines, status, evaluation>>

Script         == [what |-> "script"]
Code(rest, err) == [what |-> "code", rest |-> rest, err |-> err]
Line           == [what |-> "line"]

Unparsed == lval_err("syntax")

Init ==
    /\ program \in Programs /\ options = program.options /\ code = {}
    /\ mode = "options" /\ lines = <<>> /\ status = {}
    /\ NewEvaluation

\* getopt: "help" is -h, -v or -r, and "wrong" an unknown option or -e without operand.
Option ==
    /\ mode = "options" /\ status = {} /\ options # <<>>
    /\ options' = Tail(options)
    /\ LET o == Head(options)
       IN  \/ o.flag = "help"  /\ status' = {0} /\ UNCHANGED code
           \/ o.flag = "wrong" /\ status' = {2} /\ UNCHANGED code
           \/ o.flag = "debug" /\ UNCHANGED <<code, status>>
           \/ o.flag = "eval"  /\ code' = {o.text} /\ UNCHANGED status
    /\ UNCHANGED <<program, mode, lines, evaluation>>

\* Code goes before a script, and only one script is taken.
OptionsEnd ==
    /\ mode = "options" /\ status = {} /\ options = <<>>
    /\ \/ \E text \in code : mode' = "code" /\ lines' = <<text>> /\ UNCHANGED status
       \/ code = {} /\ CASE Len(program.args) = 0 ->
                               mode' = "repl" /\ lines' = program.typed /\ UNCHANGED status
                         [] Len(program.args) = 1 ->
                               mode' = "script" /\ lines' = program.args /\ UNCHANGED status
                         [] OTHER -> status' = {2} /\ UNCHANGED <<mode, lines>>
    /\ UNCHANGED <<program, options, code, evaluation>>

\* What is printed when a script fails, -e has an error, or a line has been evaluated.
Printed(v) == output' = Append(output, <<lval_print(v)>>)

Reads(how) ==
    /\ mode = how /\ stack = <<>> /\ status = {} /\ lines # <<>>
    /\ lines' = Tail(lines)
    /\ UNCHANGED <<command, status, chain, output>>

\* lexy_file_exec: the script is loaded into the root environment.
RunScript ==
    /\ Reads("script")
    /\ \/ \E cells \in Head(lines) :
             stack' = <<Script, Load(cells)>> /\ ctl' = Give(lval_sexpr(<<>>))
       \/ Head(lines) = {} /\ stack' = <<Script>> /\ ctl' = Give(Unparsed)

\* The status says whether the script could be loaded; its errors have been printed.
ScriptDone ==
    /\ Giving("script")
    /\ IF IsErr(ctl.v) THEN Printed(ctl.v) ELSE UNCHANGED output
    /\ status' = {IF IsErr(ctl.v) THEN 1 ELSE 0}
    /\ stack' = Pop
    /\ UNCHANGED <<command, lines, chain, ctl>>

\* lexy_cli_eval_code
RunCode ==
    /\ Reads("code")
    /\ \/ \E cells \in Head(lines) : stack' = <<Code(cells, {})>>
       \/ Head(lines) = {} /\ stack' = <<Code(<<>>, {Unparsed})>>
    /\ ctl' = Give(lval_sexpr(<<>>))

\* Bug: an error is forgotten when the next expression has a value.
KeptIfLast == IF IsErr(ctl.v) THEN {ctl.v} ELSE {}

\* The error of an expression takes the place of the one before.
Kept == IF IsErr(ctl.v) THEN {ctl.v} ELSE Top.err

CodeNext ==
    /\ Giving("code") /\ Top.rest # <<>>
    /\ stack' = <<Code(Tail(Top.rest), Kept)>> /\ ctl' = Eval(Head(Top.rest))
    /\ UNCHANGED <<command, lines, status, chain, output>>

CodeDone ==
    /\ Giving("code") /\ Top.rest = <<>>
    /\ \/ \E err \in Kept : Printed(err) /\ status' = {1}
       \/ Kept = {} /\ UNCHANGED output /\ status' = {0}
    /\ stack' = Pop
    /\ UNCHANGED <<command, lines, chain, ctl>>

\* lexy_repl_start: a line is one list, whatever is on it.
RunLine ==
    /\ Reads("repl")
    /\ stack' = <<Line>>
    /\ \/ \E cells \in Head(lines) : ctl' = Eval(lval_sexpr(cells))
       \/ Head(lines) = {} /\ ctl' = Give(Unparsed)

LineDone ==
    /\ Giving("line")
    /\ Printed(ctl.v)
    /\ stack' = Pop
    /\ UNCHANGED <<command, lines, status, chain, ctl>>

Next ==
    \/ Option \/ OptionsEnd
    \/ RunScript \/ ScriptDone \/ RunCode \/ CodeNext \/ CodeDone \/ RunLine \/ LineDone
    \/ Evaluates /\ UNCHANGED <<command, lines, status>>

Spec == Init /\ [][Next]_vars /\ WF_vars(Next)

\* The process has exited, or waits for a line that nobody types.
Done == stack = <<>> /\ (status # {} \/ (mode = "repl" /\ lines = <<>>))
=============================================================================
