-------------------------------- MODULE Eval --------------------------------
(***************************************************************************)
(* Evaluation: lval_eval, lval_evsexp and lval_call of core/eval.c, with   *)
(* the builtins of core/builtin.c.                                         *)
(*                                                                         *)
(* The C recursion is a stack of frames: a list whose cells are being      *)
(* evaluated in place, the body of a function, or a file being loaded.     *)
(* ctl is the value to evaluate or the value just given back.  chain is    *)
(* the environment and its parents, root first: the environment of a       *)
(* called function is hung below its caller's.                             *)
(***************************************************************************)
EXTENDS Lval

CONSTANTS
    Expressions,  \* bound: what lval_read makes of the texts, and the parts of it
    Library,      \* bound: the contents of the files `use` finds, by name
    MaxDepth      \* bound: environments in a chain

\* The expressions of a list or of a text.
Content == Seq(Expressions)

\* Nothing that is read is a function or has a condition.
Readable(v) ==
    \/ v.type = "num" /\ v = lval_num(v.number)
    \/ v.type = "str" /\ v = lval_str(v.string)
    \/ v.type = "sym" /\ v = lval_sym(v.symbol)
    \/ v.type = "err" /\ v = lval_err(v.error)
    \/ v.type = "sexpr" /\ v = lval_sexpr(v.cell) /\ v.cell \in Content
    \/ v.type = "qexpr" /\ v = lval_qexpr(v.cell) /\ v.cell \in Content

ASSUME ExpressionsAssumption == \A v \in Expressions : Readable(v)
ASSUME LibraryAssumption == \A s \in DOMAIN Library : Library[s] \in Content
ASSUME DepthAssumption == MaxDepth \in Nat

VARIABLES
    chain,    \* the environment and its parents
    stack,    \* calls in progress
    ctl,      \* [op : {"eval", "give"}, v : value]
    output    \* what has been printed

evaluation == <<chain, stack, ctl, output>>

Top == stack[Len(stack)]
Here == Len(chain)
Eval(v) == [op |-> "eval", v |-> v]
Give(v) == [op |-> "give", v |-> v]

Push(frame) == Append(stack, frame)
Pop == Front(stack)

Cells(list, at) == [what |-> "cells", list |-> list, at |-> at]
Body            == [what |-> "body"]
Load(rest)      == [what |-> "load", rest |-> rest]

\* Nothing is being evaluated yet, in an environment with the builtins.
NewEvaluation ==
    /\ chain = <<lenv_init>> /\ stack = <<>>
    /\ ctl = Give(lval_sexpr(<<>>)) /\ output = <<>>

----------------------------------------------------------------------------
(* lval_eval *)

EvalSymbol ==
    /\ ctl.op = "eval" /\ ctl.v.type = "sym"
    /\ ctl' = Give(lenv_get(chain, ctl.v.symbol))
    /\ UNCHANGED <<chain, stack, output>>

\* What is its own value, the empty list included.
Final(v) == v.type \notin {"sym", "sexpr"} \/ (v.type = "sexpr" /\ v.cell = <<>>)

EvalSelf ==
    /\ ctl.op = "eval"
    /\ Final(ctl.v)
    /\ ctl' = Give(ctl.v)
    /\ UNCHANGED <<chain, stack, output>>

EvalList ==
    /\ ctl.op = "eval" /\ ctl.v.type = "sexpr" /\ ctl.v.cell # <<>>
    /\ stack' = Push(Cells(ctl.v, 1)) /\ ctl' = Eval(ctl.v.cell[1])
    /\ UNCHANGED <<chain, output>>

----------------------------------------------------------------------------
(* lval_evsexp *)

Giving(what) == ctl.op = "give" /\ stack # <<>> /\ Top.what = what

\* The list with the cell just evaluated.
List == [Top.list EXCEPT !.cell[Top.at] = ctl.v]

\* Bug: the first error ends the evaluation of the cells.
NextCellUnlessError ==
    /\ Giving("cells") /\ Top.at < Len(Top.list.cell)
    /\ IF IsErr(ctl.v) THEN ctl' = ctl /\ stack' = Pop
       ELSE /\ stack' = Append(Pop, Cells(List, Top.at + 1))
            /\ ctl' = Eval(Top.list.cell[Top.at + 1])
    /\ UNCHANGED <<chain, output>>

\* Bug: the loop over the cells does not move on.
NextCellStays ==
    /\ Giving("cells") /\ Top.at < Len(Top.list.cell)
    /\ stack' = Append(Pop, Cells(List, Top.at))
    /\ ctl' = Eval(Top.list.cell[Top.at + 1])
    /\ UNCHANGED <<chain, output>>

\* Every cell is evaluated, errors among them or not.
NextCell ==
    /\ Giving("cells") /\ Top.at < Len(Top.list.cell)
    /\ stack' = Append(Pop, Cells(List, Top.at + 1))
    /\ ctl' = Eval(Top.list.cell[Top.at + 1])
    /\ UNCHANGED <<chain, output>>

AllCells == Giving("cells") /\ Top.at = Len(Top.list.cell)
Errors   == {i \in 1..Len(List.cell) : IsErr(List.cell[i])}

\* Then the first error is the value of the list.
FirstError ==
    /\ AllCells /\ Errors # {}
    /\ ctl' = Give(List.cell[Min(Errors)]) /\ stack' = Pop
    /\ UNCHANGED <<chain, output>>

\* A list of one element is the element, evaluated a second time.
Single ==
    /\ AllCells /\ Errors = {} /\ Len(List.cell) = 1
    /\ ctl' = Eval(List.cell[1]) /\ stack' = Pop
    /\ UNCHANGED <<chain, output>>

Applies == AllCells /\ Errors = {} /\ Len(List.cell) > 1
Fun     == List.cell[1]
Args    == [List EXCEPT !.cell = Tail(@)]

NotAFunction ==
    /\ Applies /\ Fun.type # "fun"
    /\ ctl' = Give(lval_err("not a function")) /\ stack' = Pop
    /\ UNCHANGED <<chain, output>>

Calls(b) == Applies /\ Fun.type = "fun" /\ Fun.builtin = b

----------------------------------------------------------------------------
(* Builtins *)

CallComputing ==
    /\ \E b \in Computing : Calls(b) /\ ctl' = Give(Computed(b, Args))
    /\ stack' = Pop
    /\ UNCHANGED <<chain, output>>

\* let and letc write the environment of the expression, global and globalc the root.
DefinerFrame(b) == IF b \in {"let", "letc"} THEN Here ELSE 1

CallDefine ==
    /\ \E b \in Definers :
          /\ Calls(b)
          /\ LET r == btinfn_define(chain[DefinerFrame(b)], Args, b)
             IN  /\ chain' = [chain EXCEPT ![DefinerFrame(b)] = r.env]
                 /\ ctl' = Give(r.value)
    /\ stack' = Pop
    /\ UNCHANGED <<output>>

EvalTakes == Counted(Args, 1) /\ Typed(Args, 1, "qexpr")

CallEval ==
    /\ Calls("eval")
    /\ ctl' = IF EvalTakes THEN Eval(AsSexpr(Args.cell[1])) ELSE Give(lval_err("eval takes"))
    /\ stack' = Pop
    /\ UNCHANGED <<chain, output>>

IfTakes ==
    /\ Counted(Args, 3)
    /\ Typed(Args, 1, "num") /\ Typed(Args, 2, "qexpr") /\ Typed(Args, 3, "qexpr")

\* Bug: the branch is given back as it stands.
CallIfQuoted ==
    /\ Calls("if")
    /\ ctl' = IF ~IfTakes THEN Give(lval_err("if takes"))
              ELSE Give(AsSexpr(Args.cell[IF Args.cell[1].number # 0 THEN 2 ELSE 3]))
    /\ stack' = Pop
    /\ UNCHANGED <<chain, output>>

CallIf ==
    /\ Calls("if")
    /\ ctl' = IF ~IfTakes THEN Give(lval_err("if takes"))
              ELSE Eval(AsSexpr(Args.cell[IF Args.cell[1].number # 0 THEN 2 ELSE 3]))
    /\ stack' = Pop
    /\ UNCHANGED <<chain, output>>

CallPrint ==
    /\ Calls("print")
    /\ output' = Append(output, [i \in 1..Len(Args.cell) |-> lval_print(Args.cell[i])])
    /\ ctl' = Give(lval_sexpr(<<>>)) /\ stack' = Pop
    /\ UNCHANGED <<chain>>

LoadTakes == Counted(Args, 1) /\ Typed(Args, 1, "str")

\* use: a file that can be read is evaluated expression by expression, where use was
\* called.
CallLoad ==
    /\ Calls("use")
    /\ IF LoadTakes /\ Args.cell[1].string \in DOMAIN Library
       THEN stack' = Append(Pop, Load(Library[Args.cell[1].string]))
            /\ ctl' = Give(lval_sexpr(<<>>))
       ELSE stack' = Pop /\ ctl' = Give(lval_err("use fails"))
    /\ UNCHANGED <<chain, output>>

----------------------------------------------------------------------------
(* Lambdas *)

Bound == lval_bind(Fun, Args)

CallFails ==
    /\ Calls("none") /\ Bound.errs # {}
    /\ \E e \in Bound.errs : ctl' = Give(e)
    /\ stack' = Pop
    /\ UNCHANGED <<chain, output>>

\* Formals are left: the value is the function with what has been bound.
PartialCall ==
    /\ Calls("none") /\ Bound.errs = {} /\ Bound.fun.formals.cell # <<>>
    /\ ctl' = Give(Bound.fun) /\ stack' = Pop
    /\ UNCHANGED <<chain, output>>

\* The function's environment is hung below the caller's and the body evaluated in it.
Enter ==
    /\ Calls("none") /\ Bound.errs = {} /\ Bound.fun.formals.cell = <<>> /\ Here < MaxDepth
    /\ chain' = Append(chain, Bound.fun.environment)
    /\ stack' = Append(Pop, Body) /\ ctl' = Eval(AsSexpr(Bound.fun.body))
    /\ UNCHANGED <<output>>

\* Bug: the environment of the call stays in the chain.
LeaveInside ==
    /\ Giving("body")
    /\ stack' = Pop
    /\ UNCHANGED <<chain, ctl, output>>

Leave ==
    /\ Giving("body")
    /\ chain' = Front(chain) /\ stack' = Pop
    /\ UNCHANGED <<ctl, output>>

----------------------------------------------------------------------------
(* btinfn_load: the value of each expression is dropped, an error is printed first *)

Shown == IF IsErr(ctl.v) THEN Append(output, <<lval_print(ctl.v)>>) ELSE output

LoadNext ==
    /\ Giving("load") /\ Top.rest # <<>>
    /\ stack' = Append(Pop, Load(Tail(Top.rest))) /\ ctl' = Eval(Head(Top.rest))
    /\ output' = Shown
    /\ UNCHANGED <<chain>>

LoadDone ==
    /\ Giving("load") /\ Top.rest = <<>>
    /\ stack' = Pop /\ ctl' = Give(lval_sexpr(<<>>))
    /\ output' = Shown
    /\ UNCHANGED <<chain>>

Evaluates ==
    \/ EvalSymbol \/ EvalSelf \/ EvalList
    \/ NextCell \/ FirstError \/ Single \/ NotAFunction
    \/ CallComputing \/ CallDefine \/ CallEval \/ CallIf \/ CallPrint \/ CallLoad
    \/ CallFails \/ PartialCall \/ Enter \/ Leave
    \/ LoadNext \/ LoadDone

----------------------------------------------------------------------------
(* Properties *)

\* lval_evsexp evaluates a single element twice.  That is harmless because evaluation
\* never gives a symbol or an expression that is left to evaluate, and no variable
\* holds one, nor an error.
ValuesAreFinal ==
    /\ ctl.op = "give" => Final(ctl.v)
    /\ \A d \in 1..Here : \A s \in DOMAIN chain[d] :
          Final(chain[d][s]) /\ ~IsErr(chain[d][s])

\* Environments are hung up and taken down with the calls they belong to, whatever
\* errors, nested calls and loads happen inside.
CallsNest == Here = 1 + Cardinality({i \in 1..Len(stack) : stack[i].what = "body"})
=============================================================================
