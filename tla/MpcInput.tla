------------------------------ MODULE MpcInput ------------------------------
(***************************************************************************)
(* The input of the parser library (core/mpc.c, mpc_input_t): a place in   *)
(* the text, a stack of marks to come back to, and for a pipe a buffer of  *)
(* what was read since the outermost mark.                                 *)
(*                                                                         *)
(* The operations are actions on the input's fields, for MpcRun to use     *)
(* too.  The specification below drives them the way mpc_parse_run does:   *)
(* marks are closed in the order they were opened, by unmark or by rewind, *)
(* and backtracking is off in properly nested stretches.                   *)
(***************************************************************************)
EXTENDS Integers, Sequences, FiniteSets

CONSTANTS
    Chars,     \* the characters of the texts
    NL,        \* the newline
    Nul,       \* '\0': before the first character and after the last
    Texts,     \* bound: the texts that may be read
    Kinds,     \* the kinds of input in use
    Literals,  \* bound: the strings mpc_string is asked for
    MarksMin,  \* MPC_INPUT_MARKS_MIN
    MaxOpen    \* bound: marks and predictive stretches open at once

ASSUME CharsAssumption == NL \in Chars /\ Nul \notin Chars
ASSUME TextsAssumption == Texts \subseteq Seq(Chars) /\ Literals \subseteq Seq(Chars)
ASSUME KindsAssumption == Kinds \subseteq {"string", "file", "pipe"}
ASSUME MarksAssumption == MarksMin \in Nat \ {0} /\ MaxOpen \in Nat

VARIABLES
    text,       \* what the string, the file or the pipe contains
    kind,       \* type: string, file or pipe
    at,         \* state and last: the place in the text
    off,        \* position of the file, or characters taken from the pipe
    buf,        \* buffer: what came from the pipe since the outermost mark
    marks,      \* marks and lasts: the places to go back to
    slots,      \* marks_slots
    backtrack,
    open,       \* the caller's obligations, each with backtrack as it was before
    lit         \* mpc_input_string under way: {} or what it has still to match

input == <<text, kind, at, off, buf, marks, slots, backtrack>>
vars  == <<input, open, lit>>

Place == [pos : Nat, row : Nat, col : Nat, term : {0, 1}, last : Chars \cup {Nul}]

Start == [pos |-> 0, row |-> 0, col |-> 0, term |-> 0, last |-> Nul]

NewInput ==
    /\ text \in Texts /\ kind \in Kinds
    /\ at = Start /\ off = 0 /\ buf = <<>>
    /\ marks = <<>> /\ slots = MarksMin /\ backtrack = 1

----------------------------------------------------------------------------
(* Operations on the input *)

CharAt(k) == IF k < Len(text) THEN text[k + 1] ELSE Nul

\* The buffer exists from the outermost mark to its end; the place may be in it.
Buffering == kind = "pipe" /\ marks # <<>>
InBuffer  == Buffering /\ at.pos < Len(buf) + marks[1].pos

Peek == IF InBuffer THEN buf[at.pos - marks[1].pos + 1]
        ELSE CharAt(IF kind = "string" THEN at.pos ELSE off)

Terminated == Peek = Nul

Past(c) ==
    [pos |-> at.pos + 1, term |-> at.term, last |-> c,
     row |-> IF c = NL THEN at.row + 1 ELSE at.row,
     col |-> IF c = NL THEN 0 ELSE at.col + 1]

\* Bug: a character taken from the pipe is not kept.
AcceptUnbuffered ==
    /\ ~Terminated
    /\ at' = Past(Peek)
    /\ off' = IF kind = "string" \/ InBuffer THEN off ELSE off + 1
    /\ UNCHANGED <<text, kind, buf, marks, slots, backtrack>>

\* getc followed by success.  After getc and failure the input is as it was:
\* the file is sought back, the character is put back into the pipe.
Accept ==
    /\ ~Terminated
    /\ at' = Past(Peek)
    /\ off' = IF kind = "string" \/ InBuffer THEN off ELSE off + 1
    /\ buf' = IF Buffering /\ ~InBuffer THEN Append(buf, Peek) ELSE buf
    /\ UNCHANGED <<text, kind, marks, slots, backtrack>>

\* Bug: the array of marks grows one mark late.
MarkLate ==
    LET n == Len(marks) + 1
    IN  /\ IF backtrack < 1 THEN UNCHANGED <<marks, slots>>
           ELSE /\ marks' = Append(marks, at)
                /\ slots' = IF n > slots + 1 THEN n + n \div 2 ELSE slots
        /\ UNCHANGED <<text, kind, at, off, buf, backtrack>>

Mark ==
    LET n == Len(marks) + 1
    IN  /\ IF backtrack < 1 THEN UNCHANGED <<marks, slots>>
           ELSE /\ marks' = Append(marks, at)
                /\ slots' = IF n > slots THEN n + n \div 2 ELSE slots
        /\ UNCHANGED <<text, kind, at, off, buf, backtrack>>

DropMark ==
    LET n == Len(marks) - 1
    IN  /\ marks' = SubSeq(marks, 1, n)
        /\ slots' = IF slots > n + n \div 2 /\ slots > MarksMin
                    THEN IF n > MarksMin THEN n ELSE MarksMin
                    ELSE slots
        /\ buf' = IF n = 0 THEN <<>> ELSE buf

\* Bug: unmark drops a mark where mark made none.
UnmarkAlways ==
    /\ IF marks = <<>> THEN UNCHANGED <<marks, slots, buf>> ELSE DropMark
    /\ UNCHANGED <<text, kind, at, off, backtrack>>

Unmark ==
    /\ IF backtrack < 1 THEN UNCHANGED <<marks, slots, buf>> ELSE DropMark
    /\ UNCHANGED <<text, kind, at, off, backtrack>>

\* Bug: the file is not sought back.
RewindPlaceOnly ==
    /\ IF backtrack < 1 THEN UNCHANGED <<at, marks, slots, buf>>
       ELSE at' = marks[Len(marks)] /\ DropMark
    /\ UNCHANGED <<text, kind, off, backtrack>>

\* Bug: rewind goes back to a mark of an enclosing parser.
RewindAlways ==
    /\ IF marks = <<>> THEN UNCHANGED <<at, off, marks, slots, buf>>
       ELSE /\ at' = marks[Len(marks)]
            /\ off' = IF kind = "file" THEN marks[Len(marks)].pos ELSE off
            /\ DropMark
    /\ UNCHANGED <<text, kind, backtrack>>

Rewind ==
    /\ IF backtrack < 1 THEN UNCHANGED <<at, off, marks, slots, buf>>
       ELSE /\ at' = marks[Len(marks)]
            /\ off' = IF kind = "file" THEN marks[Len(marks)].pos ELSE off
            /\ DropMark
    /\ UNCHANGED <<text, kind, backtrack>>

\* Bug: the end of input is matched again and again.
EoiAgain ==
    /\ Terminated
    /\ at' = [at EXCEPT !.term = @ + 1]
    /\ UNCHANGED <<text, kind, off, buf, marks, slots, backtrack>>

\* mpc_input_eoi succeeds once at the end, and again only after a rewind.
Eoi ==
    /\ at.term = 0 /\ Terminated
    /\ at' = [pos |-> at.pos, row |-> at.row, col |-> at.col, term |-> 1,
              last |-> at.last]
    /\ UNCHANGED <<text, kind, off, buf, marks, slots, backtrack>>

Backtracking(by) ==
    /\ backtrack' = backtrack + by
    /\ UNCHANGED <<text, kind, at, off, buf, marks, slots>>

----------------------------------------------------------------------------
(* A caller *)

Init == NewInput /\ open = <<>> /\ lit = {}

Push(what) ==
    Len(open) < MaxOpen /\ open' = Append(open, [what |-> what, was |-> backtrack])

Pop(what) ==
    /\ open # <<>> /\ open[Len(open)].what = what
    /\ open' = SubSeq(open, 1, Len(open) - 1)

\* any, char, range, oneof, noneof, satisfy: one character, of a set.
Read             == lit = {} /\ Accept /\ UNCHANGED <<open, lit>>
ReadEnd          == lit = {} /\ Eoi /\ UNCHANGED <<open, lit>>
OpenMark         == lit = {} /\ Mark /\ Push("mark") /\ UNCHANGED lit
CloseMark        == lit = {} /\ Pop("mark") /\ Unmark /\ UNCHANGED lit
BackToMark       == lit = {} /\ Pop("mark") /\ Rewind /\ UNCHANGED lit
BacktrackDisable == lit = {} /\ Push("predict") /\ Backtracking(-1) /\ UNCHANGED lit
BacktrackEnable  == lit = {} /\ Pop("predict") /\ Backtracking(1) /\ UNCHANGED lit

\* mpc_input_string: a mark, its characters one by one, unmark or rewind.
StringBegin ==
    /\ lit = {} /\ Mark /\ Push("mark")
    /\ \E w \in Literals : lit' = {w}

StringChar ==
    /\ \E w \in lit : w # <<>> /\ Peek = Head(w) /\ lit' = {Tail(w)}
    /\ Accept /\ UNCHANGED open

StringFails ==
    /\ \E w \in lit : w # <<>> /\ Peek # Head(w)
    /\ Pop("mark") /\ Rewind /\ lit' = {}

StringDone == lit = {<<>>} /\ Pop("mark") /\ Unmark /\ lit' = {}

Next ==
    \/ Read \/ ReadEnd
    \/ OpenMark \/ CloseMark \/ BackToMark
    \/ BacktrackDisable \/ BacktrackEnable
    \/ StringBegin \/ StringChar \/ StringFails \/ StringDone

Spec == Init /\ [][Next]_vars

----------------------------------------------------------------------------
(* Properties *)

\* The fields of the input and of the caller hold what the code can put there.
TypeOK ==
    /\ text \in Texts /\ kind \in Kinds
    /\ at \in Place /\ off \in Nat /\ buf \in Seq(Chars)
    /\ marks \in Seq(Place) /\ slots \in Nat /\ backtrack \in Int
    /\ open \in Seq([what : {"mark", "predict"}, was : Int])
    /\ lit \subseteq Seq(Chars)

\* The arrays of marks, grown by half in mark and shrunk in unmark, always have
\* room for the marks in use and never get below MPC_INPUT_MARKS_MIN.
MarksFit == Len(marks) <= slots /\ slots >= MarksMin

\* The marks are those the caller opened before its outermost predictive stretch,
\* and backtracking is on exactly when there is no such stretch: every unmark and
\* rewind that does something finds the mark it is meant for.
MarksPaired ==
    LET n == Len(marks)
    IN  /\ n <= Len(open)
        /\ \A k \in 1..n : open[k].what = "mark"
        /\ IF backtrack < 1
           THEN n < Len(open) /\ open[n + 1].what = "predict"
           ELSE n = Len(open)

\* A place is right for the text: the character before it is the last one, the
\* row and the column count it, the end of input is recorded at the end only.
Lines(k) == {l \in 1..k : text[l] = NL}

RightPlace(p) ==
    /\ p.pos <= Len(text)
    /\ p.last = IF p.pos = 0 THEN Nul ELSE text[p.pos]
    /\ p.row = Cardinality(Lines(p.pos))
    /\ IF Lines(p.pos) = {} THEN p.col = p.pos
       ELSE p.pos - p.col \in Lines(p.pos) /\ \A l \in Lines(p.pos) : l <= p.pos - p.col
    /\ p.term = 1 => p.pos = Len(text)

InTheText ==
    /\ RightPlace(at)
    /\ \A k \in 1..Len(marks) : RightPlace(marks[k]) /\ marks[k].pos <= at.pos
    /\ kind = "file" => off = at.pos

\* However a caller reads, marks and rewinds a string or a file, the place it is
\* at and every place it can go back to are right for the text, and the file is
\* positioned there.
ReadsTheText == kind \in {"string", "file"} => InTheText

\* While backtracking is disabled the input only moves forward.
PredictiveMovesOn == [][backtrack < 1 => at'.pos >= at.pos]_vars

\* A pipe is in order: what was taken from it and is not behind the place is in
\* the buffer, where the marks can find it.
PipeInOrder ==
    /\ RightPlace(at)
    /\ IF marks = <<>> THEN off = at.pos
       ELSE /\ off = marks[1].pos + Len(buf) /\ at.pos <= off
            /\ buf = SubSeq(text, marks[1].pos + 1, off)
            /\ \A k \in 1..Len(marks) :
                  /\ RightPlace(marks[k])
                  /\ marks[1].pos <= marks[k].pos /\ marks[k].pos <= at.pos

ClosesOuterMark == Len(marks) = 1 /\ marks' = <<>>

\* A pipe stays in order over every step but the one that closes the outermost
\* mark: all a parser under a mark reads, marks and rewinds is in the buffer.
PipeInOrderUnderMark ==
    [][kind = "pipe" /\ PipeInOrder /\ ~ClosesOuterMark => PipeInOrder']_vars

\* mpc.c:50-52: "if we are requested to seek back we can simply start reading from
\* the buffer instead of the input".  The last character read from a pipe is the
\* one the text has there.
PipeReadsTheText == at.last = IF at.pos = 0 THEN Nul ELSE CharAt(at.pos - 1)
=============================================================================
