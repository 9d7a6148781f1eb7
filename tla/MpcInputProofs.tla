--------------------------- MODULE MpcInputProofs ---------------------------
(* Proofs about MpcInput, for any texts, literals and bounds. *)
EXTENDS MpcInput, Facts, FiniteSetTheorems, SequenceTheorems, TLAPS

----------------------------------------------------------------------------
(* The inductive invariant *)

\* The fields of the input.
InputType ==
    /\ text \in Texts /\ kind \in Kinds
    /\ at \in Place /\ off \in Nat /\ buf \in Seq(Chars)
    /\ marks \in Seq(Place) /\ slots \in Nat /\ backtrack \in Int

\* The fields of the caller.
CallerType ==
    /\ open \in Seq([what : {"mark", "predict"}, was : Int])
    /\ lit \subseteq Seq(Chars)

\* The marks lie one after another in the text and none is past the place.
Ascending ==
    /\ \A j, k \in 1..Len(marks) : j <= k => marks[j].pos <= marks[k].pos
    /\ \A k \in 1..Len(marks) : marks[k].pos <= at.pos

\* What closing an obligation leaves for the one under it.
After(o) == IF o.what = "predict" THEN o.was - 1 ELSE o.was

\* The obligations record how backtrack came to its value, and the marks are the
\* obligations below the first predictive stretch.
Linked ==
    /\ \A k \in 1..(Len(open) - 1) : open[k + 1].was = After(open[k])
    /\ Len(open) > 0 => backtrack = After(open[Len(open)])

Chain ==
    /\ Len(marks) <= Len(open)
    /\ \A k \in 1..Len(marks) : open[k].what = "mark" /\ open[k].was = 1
    /\ Len(marks) = Len(open) => backtrack = 1
    /\ Len(marks) < Len(open) =>
          /\ backtrack <= 0
          /\ open[Len(marks) + 1].what = "predict" /\ open[Len(marks) + 1].was = 1
          /\ \A k \in (Len(marks) + 2)..Len(open) : open[k].was <= 0
    /\ Linked

IInv == InputType /\ CallerType /\ Ascending /\ MarksFit /\ Chain

----------------------------------------------------------------------------
(* The operations on the input *)

\* The fields of a place, and of the places of a list.
LEMMA PlaceFields ==
    ASSUME NEW p \in Place
    PROVE  p.pos \in Nat /\ p.row \in Nat /\ p.col \in Nat
BY DEF Place

LEMMA PlacesFields ==
    ASSUME NEW s \in Seq(Place)
    PROVE  \A k \in 1..Len(s) : s[k] \in Place /\ s[k].pos \in Nat
<1>1. TAKE k \in 1..Len(s)
<1>2. s[k] \in Place
  OBVIOUS
<1> QED BY <1>2, PlaceFields

\* A character of the text, or the end of it.
LEMMA CharAtType ==
    ASSUME InputType, NEW k \in Nat
    PROVE  IF k < Len(text) THEN CharAt(k) = text[k + 1] /\ CharAt(k) \in Chars
                            ELSE CharAt(k) = Nul
<1>1. text \in Seq(Chars)
  BY TextsAssumption DEF InputType
<1> QED BY <1>1 DEF CharAt

\* There is a character to take, or the end.
LEMMA PeekType ==
    ASSUME InputType, Ascending
    PROVE  Peek \in Chars \cup {Nul}
<1>1. CASE InBuffer
  <2>1. 1 \in 1..Len(marks) /\ marks \in Seq(Place) /\ at \in Place
    BY <1>1 DEF InBuffer, Buffering, InputType
  <2>2. at.pos - marks[1].pos + 1 \in 1..Len(buf)
    BY <1>1, <2>1, PlaceFields, PlacesFields DEF InBuffer, InputType, Ascending
  <2> QED BY <1>1, <2>2 DEF Peek, InputType
<1>2. CASE ~InBuffer
  <2>1. at.pos \in Nat /\ off \in Nat
    BY PlaceFields DEF InputType
  <2> QED BY <1>2, <2>1, CharAtType DEF Peek
<1> QED BY <1>1, <1>2

\* Reading on.
LEMMA AcceptKeeps ==
    ASSUME InputType, Ascending, Accept
    PROVE  InputType' /\ Ascending'
<1>1. Peek \in Chars
  BY PeekType DEF Accept, Terminated
<1>2. at' \in Place /\ at'.pos = at.pos + 1
  BY <1>1 DEF Accept, Past, Place, InputType
<1>3. buf' \in Seq(Chars) /\ off' \in Nat
  BY <1>1 DEF Accept, InputType
<1>4. InputType'
  BY <1>2, <1>3 DEF Accept, InputType
<1>5. \A k \in 1..Len(marks) : marks[k].pos \in Nat
  BY PlacesFields DEF InputType
<1>6. Ascending'
  <2>1. marks' = marks /\ at.pos \in Nat
    BY PlaceFields DEF Accept, InputType
  <2> QED BY <1>2, <1>5, <2>1 DEF Ascending
<1> QED BY <1>4, <1>6

\* Recording the end.
LEMMA EoiKeeps ==
    ASSUME InputType, Ascending, Eoi
    PROVE  InputType' /\ Ascending'
<1>1. at' \in Place /\ at'.pos = at.pos
  BY DEF Eoi, Place, InputType
<1> QED BY <1>1 DEF Eoi, InputType, Ascending

\* Taking a mark.
LEMMA MarkKeeps ==
    ASSUME InputType, Ascending, MarksFit, Mark
    PROVE  /\ InputType' /\ Ascending' /\ MarksFit'
           /\ backtrack' = backtrack
           /\ Len(marks') = IF backtrack < 1 THEN Len(marks) ELSE Len(marks) + 1
<1>1. CASE backtrack < 1
  BY <1>1 DEF Mark, InputType, Ascending, MarksFit
<1>2. CASE ~(backtrack < 1)
  <2>1. marks' = Append(marks, at) /\ at' = at
    BY <1>2 DEF Mark
  <2>2. /\ Len(marks') = Len(marks) + 1 /\ Len(marks) \in Nat
        /\ marks'[Len(marks) + 1] = at
        /\ \A k \in 1..Len(marks) : marks'[k] = marks[k]
    BY <2>1 DEF InputType
  <2>3. slots' \in Nat /\ MarksFit'
    BY <1>2, <2>2, MarksAssumption DEF Mark, MarksFit, InputType
  <2>4. InputType'
    BY <2>1, <2>3 DEF Mark, InputType
  <2>5. \A k \in 1..Len(marks') : marks'[k].pos \in Nat
    BY <2>4, PlacesFields DEF InputType
  <2>6. Ascending'
    <3>1. \A k \in 1..Len(marks') : marks'[k].pos <= at.pos
      BY <2>2, <2>5 DEF Ascending
    <3>2. \A j, k \in 1..Len(marks') : j <= k => marks'[j].pos <= marks'[k].pos
      <4>1. TAKE j, k \in 1..Len(marks')
      <4>2. CASE k = Len(marks) + 1
        BY <4>2, <2>2, <3>1
      <4>3. CASE k \in 1..Len(marks)
        BY <4>3, <2>2 DEF Ascending
      <4> QED BY <2>2, <4>2, <4>3
    <3> QED BY <2>1, <3>1, <3>2 DEF Ascending
  <2> QED BY <2>2, <2>3, <2>4, <2>6 DEF Mark
<1> QED BY <1>1, <1>2

\* Dropping the last mark, with the place left where it was or put at it.
LEMMA DropMarkKeeps ==
    ASSUME InputType, Ascending, MarksFit, DropMark, marks # <<>>,
           at' \in Place, at'.pos \in {at.pos, marks[Len(marks)].pos}
    PROVE  /\ marks' \in Seq(Place) /\ Len(marks') = Len(marks) - 1
           /\ buf' \in Seq(Chars) /\ slots' \in Nat
           /\ Ascending' /\ MarksFit'
<1>1. /\ marks' \in Seq(Place) /\ Len(marks') = Len(marks) - 1
      /\ Len(marks) \in Nat /\ Len(marks) > 0
      /\ \A k \in 1..Len(marks') : marks'[k] = marks[k]
  BY FrontFacts DEF DropMark, InputType
<1>2. buf' \in Seq(Chars) /\ slots' \in Nat /\ MarksFit'
  <2>1. buf' \in Seq(Chars)
    BY DEF DropMark, InputType
  <2>2. /\ slots \in Nat /\ Len(marks) <= slots /\ MarksMin <= slots
        /\ slots' = IF slots > Len(marks') + Len(marks') \div 2 /\ slots > MarksMin
                    THEN IF Len(marks') > MarksMin THEN Len(marks') ELSE MarksMin
                    ELSE slots
    BY <1>1 DEF DropMark, InputType, MarksFit
  <2>3. slots' \in Nat /\ Len(marks') <= slots' /\ MarksMin <= slots'
    <3>1. MarksMin \in Nat /\ Len(marks') \in Nat /\ Len(marks') <= slots
      BY <1>1, <2>2, MarksAssumption
    <3>2. CASE slots > Len(marks') + Len(marks') \div 2 /\ slots > MarksMin
      BY <2>2, <3>1, <3>2
    <3>3. CASE ~(slots > Len(marks') + Len(marks') \div 2 /\ slots > MarksMin)
      BY <2>2, <3>1, <3>3
    <3> QED BY <3>2, <3>3
  <2> QED BY <2>1, <2>3, MarksAssumption DEF MarksFit
<1>3. \A k \in 1..Len(marks) : marks[k].pos \in Nat
  BY PlacesFields DEF InputType
<1>4. Ascending'
  <2>1. \A k \in 1..Len(marks) : marks[k].pos <= marks[Len(marks)].pos
    BY <1>1 DEF Ascending
  <2>2. \A k \in 1..Len(marks') : marks'[k].pos <= at'.pos
    <3>1. at.pos \in Nat /\ at'.pos \in Nat
      BY PlaceFields DEF InputType
    <3>2. TAKE k \in 1..Len(marks')
    <3>3. k \in 1..Len(marks) /\ marks'[k] = marks[k]
      BY <1>1
    <3> QED BY <1>3, <2>1, <3>1, <3>3 DEF Ascending
  <2>3. \A j, k \in 1..Len(marks') : j <= k => marks'[j].pos <= marks'[k].pos
    BY <1>1 DEF Ascending
  <2> QED BY <2>2, <2>3 DEF Ascending
<1> QED BY <1>1, <1>2, <1>4

\* Unmarking, when a mark is there to be closed.
LEMMA UnmarkKeeps ==
    ASSUME InputType, Ascending, MarksFit, Unmark, backtrack < 1 \/ marks # <<>>
    PROVE  /\ InputType' /\ Ascending' /\ MarksFit'
           /\ backtrack' = backtrack
           /\ Len(marks') = IF backtrack < 1 THEN Len(marks) ELSE Len(marks) - 1
<1>1. CASE backtrack < 1
  BY <1>1 DEF Unmark, InputType, Ascending, MarksFit
<1>2. CASE ~(backtrack < 1)
  <2>1. DropMark /\ marks # <<>> /\ at' = at /\ at \in Place
    BY <1>2 DEF Unmark, InputType
  <2>2. /\ marks' \in Seq(Place) /\ Len(marks') = Len(marks) - 1
        /\ buf' \in Seq(Chars) /\ slots' \in Nat /\ Ascending' /\ MarksFit'
    BY <2>1, DropMarkKeeps
  <2> QED BY <1>2, <2>1, <2>2 DEF Unmark, InputType
<1> QED BY <1>1, <1>2

\* Rewinding, when a mark is there to go back to.
LEMMA RewindKeeps ==
    ASSUME InputType, Ascending, MarksFit, Rewind, backtrack < 1 \/ marks # <<>>
    PROVE  /\ InputType' /\ Ascending' /\ MarksFit'
           /\ backtrack' = backtrack
           /\ Len(marks') = IF backtrack < 1 THEN Len(marks) ELSE Len(marks) - 1
<1>1. CASE backtrack < 1
  BY <1>1 DEF Rewind, InputType, Ascending, MarksFit
<1>2. CASE ~(backtrack < 1)
  <2>1. DropMark /\ marks # <<>> /\ at' = marks[Len(marks)]
    BY <1>2 DEF Rewind
  <2>2. marks[Len(marks)] \in Place /\ marks[Len(marks)].pos \in Nat
    BY <2>1, PlacesFields DEF InputType
  <2>3. /\ marks' \in Seq(Place) /\ Len(marks') = Len(marks) - 1
        /\ buf' \in Seq(Chars) /\ slots' \in Nat /\ Ascending' /\ MarksFit'
    BY <2>1, <2>2, DropMarkKeeps
  <2>4. off' \in Nat
    BY <1>2, <2>2 DEF Rewind, InputType
  <2> QED BY <1>2, <2>1, <2>2, <2>3, <2>4 DEF Rewind, InputType
<1> QED BY <1>1, <1>2

----------------------------------------------------------------------------
(* The obligations of the caller *)

Obligation == [what : {"mark", "predict"}, was : Int]

\* Opening one more obligation links it to the last one.
LEMMA PushLinks ==
    ASSUME open \in Seq(Obligation), Linked, NEW what \in {"mark", "predict"},
           Push(what), backtrack \in Int, open = <<>> => backtrack = 1,
           backtrack' = IF what = "predict" THEN backtrack - 1 ELSE backtrack
    PROVE  /\ open' \in Seq(Obligation) /\ Len(open') = Len(open) + 1
           /\ \A k \in 1..Len(open) : open'[k] = open[k]
           /\ open'[Len(open) + 1].what = what
           /\ open'[Len(open) + 1].was = backtrack
           /\ Linked'
<1> DEFINE o == [what |-> what, was |-> backtrack]
<1>1. open' = Append(open, o) /\ o \in Obligation /\ o.what = what /\ o.was = backtrack
  BY DEF Push, Obligation
<1> HIDE DEF o
<1>2. /\ open' \in Seq(Obligation)
      /\ Len(open') = Len(open) + 1 /\ Len(open) \in Nat
      /\ open'[Len(open) + 1] = o
      /\ \A k \in 1..Len(open) : open'[k] = open[k]
  BY <1>1
<1>3. backtrack' = After(open'[Len(open')])
  BY <1>1, <1>2 DEF After
<1>4. \A k \in 1..(Len(open') - 1) : open'[k + 1].was = After(open'[k])
  <2>1. TAKE k \in 1..(Len(open') - 1)
  <2>2. CASE k = Len(open)
    BY <1>1, <1>2, <2>2 DEF Linked
  <2>3. CASE k # Len(open)
    <3>1. k \in 1..(Len(open) - 1) /\ k + 1 \in 1..Len(open) /\ k \in 1..Len(open)
      BY <1>2, <2>3
    <3> QED BY <1>2, <3>1 DEF Linked
  <2> QED BY <2>2, <2>3
<1> QED BY <1>1, <1>2, <1>3, <1>4 DEF Linked

\* Closing the last obligation gives backtrack the value it had before it.
LEMMA PopLinks ==
    ASSUME open \in Seq(Obligation), Linked, NEW what \in {"mark", "predict"},
           Pop(what), backtrack \in Int,
           backtrack' = IF what = "predict" THEN backtrack + 1 ELSE backtrack
    PROVE  /\ open' \in Seq(Obligation) /\ Len(open') = Len(open) - 1
           /\ Len(open) \in Nat \ {0}
           /\ \A k \in 1..Len(open') : open'[k] = open[k]
           /\ open[Len(open)].what = what
           /\ backtrack' = open[Len(open)].was
           /\ Linked'
<1>1. /\ open' \in Seq(Obligation) /\ Len(open') = Len(open) - 1
      /\ Len(open) \in Nat \ {0}
      /\ \A k \in 1..Len(open') : open'[k] = open[k]
      /\ open[Len(open)].what = what /\ open[Len(open)] \in Obligation
  <2>1. open # <<>> /\ open[Len(open)].what = what
        /\ open' = SubSeq(open, 1, Len(open) - 1)
    BY DEF Pop
  <2> QED BY <2>1, FrontFacts
<1>2. open[Len(open)].was \in Int
  BY <1>1 DEF Obligation
<1>3. backtrack' = open[Len(open)].was
  <2>1. backtrack = IF what = "predict" THEN open[Len(open)].was - 1
                                        ELSE open[Len(open)].was
    BY <1>1 DEF Linked, After
  <2>2. CASE what = "predict"
    BY <1>2, <2>1, <2>2
  <2>3. CASE what # "predict"
    BY <2>1, <2>3
  <2> QED BY <2>2, <2>3
<1>4. Linked'
  <2>1. \A k \in 1..(Len(open') - 1) : open'[k + 1].was = After(open'[k])
    <3>1. TAKE k \in 1..(Len(open') - 1)
    <3>2. k \in 1..(Len(open) - 1) /\ k \in 1..Len(open') /\ k + 1 \in 1..Len(open')
      BY <1>1
    <3> QED BY <1>1, <3>2 DEF Linked
  <2>2. Len(open') > 0 => backtrack' = After(open'[Len(open')])
    <3>1. HAVE Len(open') > 0
    <3>2. Len(open') \in 1..(Len(open) - 1) /\ Len(open') + 1 = Len(open)
      BY <1>1, <3>1
    <3>3. open[Len(open)].was = After(open[Len(open')])
      BY <3>2 DEF Linked
    <3> QED BY <1>1, <1>3, <3>2, <3>3
  <2> QED BY <2>1, <2>2 DEF Linked
<1> QED BY <1>1, <1>3, <1>4

\* Opening a mark.
LEMMA PushMarkKeeps ==
    ASSUME CallerType, Chain, Push("mark"), backtrack \in Int, backtrack' = backtrack,
           Len(marks) \in Nat,
           Len(marks') = IF backtrack < 1 THEN Len(marks) ELSE Len(marks) + 1
    PROVE  open' \in Seq(Obligation) /\ Chain'
<1>1. open \in Seq(Obligation) /\ Len(open) \in Nat
  BY DEF CallerType, Obligation
<1>2. open = <<>> => backtrack = 1
  BY <1>1 DEF Chain
<1>3. /\ open' \in Seq(Obligation) /\ Len(open') = Len(open) + 1
      /\ \A k \in 1..Len(open) : open'[k] = open[k]
      /\ open'[Len(open) + 1].what = "mark"
      /\ open'[Len(open) + 1].was = backtrack
      /\ Linked'
  BY <1>1, <1>2, PushLinks DEF Chain
<1>4. CASE backtrack < 1
  <2>1. Len(marks) < Len(open)
    BY <1>1, <1>4 DEF Chain
  <2>2. Len(marks') = Len(marks) /\ Len(marks') < Len(open')
    BY <1>1, <1>3, <1>4, <2>1
  <2>3. \A k \in 1..Len(marks') : open'[k].what = "mark" /\ open'[k].was = 1
    BY <1>1, <1>3, <2>1, <2>2, SMTT(20), ZenonT(40) DEF Chain
  <2>4. /\ backtrack' <= 0
        /\ open'[Len(marks') + 1].what = "predict" /\ open'[Len(marks') + 1].was = 1
    BY <1>1, <1>3, <2>1, <2>2 DEF Chain
  <2>5. \A k \in (Len(marks') + 2)..Len(open') : open'[k].was <= 0
    <3>1. SUFFICES ASSUME NEW k \in (Len(marks') + 2)..Len(open')
                   PROVE  open'[k].was <= 0
      OBVIOUS
    <3>2. CASE k = Len(open) + 1
      BY <1>3, <1>4, <3>2
    <3>3. CASE k # Len(open) + 1
      BY <1>1, <1>3, <2>1, <2>2, <3>3 DEF Chain
    <3> QED BY <3>2, <3>3
  <2> QED BY <1>3, <2>2, <2>3, <2>4, <2>5 DEF Chain
<1>5. CASE ~(backtrack < 1)
  <2>1. Len(marks) = Len(open) /\ backtrack = 1
    BY <1>1, <1>5 DEF Chain
  <2>2. Len(marks') = Len(open')
    BY <1>1, <1>3, <1>5, <2>1
  <2>3. \A k \in 1..Len(marks') : open'[k].what = "mark" /\ open'[k].was = 1
    <3>1. SUFFICES ASSUME NEW k \in 1..Len(marks')
                   PROVE  open'[k].what = "mark" /\ open'[k].was = 1
      OBVIOUS
    <3>2. CASE k = Len(open) + 1
      BY <1>3, <2>1, <3>2
    <3>3. CASE k # Len(open) + 1
      BY <1>1, <1>3, <2>1, <2>2, <3>3 DEF Chain
    <3> QED BY <3>2, <3>3
  <2> QED BY <1>1, <1>3, <2>1, <2>2, <2>3 DEF Chain
<1> QED BY <1>3, <1>4, <1>5

\* Beginning a predictive stretch.
LEMMA PushPredictKeeps ==
    ASSUME CallerType, Chain, Push("predict"), backtrack \in Int,
           backtrack' = backtrack - 1, Len(marks) \in Nat, marks' = marks
    PROVE  open' \in Seq(Obligation) /\ Chain'
<1>1. open \in Seq(Obligation) /\ Len(open) \in Nat
  BY DEF CallerType, Obligation
<1>2. open = <<>> => backtrack = 1
  BY <1>1 DEF Chain
<1>3. /\ open' \in Seq(Obligation) /\ Len(open') = Len(open) + 1
      /\ \A k \in 1..Len(open) : open'[k] = open[k]
      /\ open'[Len(open) + 1].what = "predict"
      /\ open'[Len(open) + 1].was = backtrack
      /\ Linked'
  BY <1>1, <1>2, PushLinks DEF Chain
<1>m. \A k \in 1..Len(marks') : open'[k].what = "mark" /\ open'[k].was = 1
  BY <1>1, <1>3, SMTT(20), ZenonT(40) DEF Chain
<1>n. Len(marks') < Len(open')
  BY <1>1, <1>3 DEF Chain
<1>4. CASE Len(marks) = Len(open)
  <2>1. backtrack = 1
    BY <1>4 DEF Chain
  <2>2. (Len(marks') + 2)..Len(open') = {}
    BY <1>1, <1>3, <1>4
  <2> QED BY <1>1, <1>3, <1>4, <1>m, <1>n, <2>1, <2>2 DEF Chain
<1>5. CASE Len(marks) # Len(open)
  <2>1. Len(marks) < Len(open) /\ backtrack <= 0
    BY <1>1, <1>5 DEF Chain
  <2>2. open'[Len(marks') + 1].what = "predict" /\ open'[Len(marks') + 1].was = 1
    BY <1>1, <1>3, <2>1 DEF Chain
  <2>3. \A k \in (Len(marks') + 2)..Len(open') : open'[k].was <= 0
    <3>1. SUFFICES ASSUME NEW k \in (Len(marks') + 2)..Len(open')
                   PROVE  open'[k].was <= 0
      OBVIOUS
    <3>2. CASE k = Len(open) + 1
      BY <1>3, <2>1, <3>2
    <3>3. CASE k # Len(open) + 1
      <4>1. k \in (Len(marks) + 2)..Len(open) /\ open'[k] = open[k]
        BY <1>1, <1>3, <3>3
      <4> QED BY <2>1, <4>1 DEF Chain
    <3> QED BY <3>2, <3>3
  <2> QED BY <1>3, <1>m, <1>n, <2>1, <2>2, <2>3 DEF Chain
<1> QED BY <1>3, <1>4, <1>5

\* Closing a mark.
LEMMA PopMarkKeeps ==
    ASSUME CallerType, Chain, Pop("mark"), backtrack \in Int, backtrack' = backtrack,
           Len(marks) \in Nat,
           Len(marks') = IF backtrack < 1 THEN Len(marks) ELSE Len(marks) - 1
    PROVE  open' \in Seq(Obligation) /\ Chain'
<1>1. open \in Seq(Obligation)
  BY DEF CallerType, Obligation
<1>2. /\ open' \in Seq(Obligation) /\ Len(open') = Len(open) - 1
      /\ Len(open) \in Nat \ {0}
      /\ \A k \in 1..Len(open') : open'[k] = open[k]
      /\ open[Len(open)].what = "mark" /\ Linked'
  BY <1>1, PopLinks DEF Chain
<1>3. CASE backtrack < 1
  <2>1. Len(marks) < Len(open) /\ Len(marks') = Len(marks)
    BY <1>2, <1>3 DEF Chain
  <2>2. open[Len(marks) + 1].what = "predict" /\ open[Len(marks) + 1].was = 1
    BY <2>1 DEF Chain
  <2>3. Len(marks') < Len(open')
    BY <1>2, <2>1, <2>2
  <2>4. \A k \in 1..Len(marks') : open'[k].what = "mark" /\ open'[k].was = 1
    BY <1>2, <2>1, <2>3 DEF Chain
  <2>5. open'[Len(marks') + 1].what = "predict" /\ open'[Len(marks') + 1].was = 1
    BY <1>2, <2>1, <2>2, <2>3
  <2>6. \A k \in (Len(marks') + 2)..Len(open') : open'[k].was <= 0
    BY <1>2, <2>1, <2>3 DEF Chain
  <2> QED BY <1>2, <1>3, <2>3, <2>4, <2>5, <2>6 DEF Chain
<1>4. CASE ~(backtrack < 1)
  <2>1. Len(marks) = Len(open) /\ backtrack = 1 /\ Len(marks') = Len(marks) - 1
    BY <1>2, <1>4 DEF Chain
  <2>2. Len(marks') = Len(open')
    BY <1>2, <2>1
  <2>3. \A k \in 1..Len(marks') : open'[k].what = "mark" /\ open'[k].was = 1
    BY <1>2, <2>1, <2>2 DEF Chain
  <2> QED BY <1>2, <2>1, <2>2, <2>3 DEF Chain
<1> QED BY <1>2, <1>3, <1>4

\* Ending a predictive stretch.
LEMMA PopPredictKeeps ==
    ASSUME CallerType, Chain, Pop("predict"), backtrack \in Int,
           backtrack' = backtrack + 1, Len(marks) \in Nat, marks' = marks
    PROVE  open' \in Seq(Obligation) /\ Chain'
<1>1. open \in Seq(Obligation)
  BY DEF CallerType, Obligation
<1>2. /\ open' \in Seq(Obligation) /\ Len(open') = Len(open) - 1
      /\ Len(open) \in Nat \ {0}
      /\ \A k \in 1..Len(open') : open'[k] = open[k]
      /\ open[Len(open)].what = "predict"
      /\ backtrack' = open[Len(open)].was /\ Linked'
  BY <1>1, PopLinks DEF Chain
<1>n. Len(marks) <= Len(open) /\ Len(marks) # Len(open)
  BY <1>2 DEF Chain
<1>m. \A k \in 1..Len(marks') : open'[k].what = "mark" /\ open'[k].was = 1
  BY <1>2, <1>n DEF Chain
<1>3. CASE Len(marks) + 1 = Len(open)
  <2>1. Len(marks') = Len(open')
    BY <1>2, <1>3
  <2>2. backtrack' = 1
    BY <1>2, <1>3, <1>n DEF Chain
  <2> QED BY <1>2, <1>m, <2>1, <2>2 DEF Chain
<1>4. CASE Len(marks) + 1 # Len(open)
  <2>1. Len(marks') < Len(open')
    BY <1>2, <1>4, <1>n
  <2>2. backtrack' <= 0
    BY <1>2, <1>4, <1>n DEF Chain
  <2>3. open'[Len(marks') + 1].what = "predict" /\ open'[Len(marks') + 1].was = 1
    BY <1>2, <1>n, <2>1 DEF Chain
  <2>4. \A k \in (Len(marks') + 2)..Len(open') : open'[k].was <= 0
    BY <1>2, <1>n, <2>1 DEF Chain
  <2> QED BY <1>2, <1>m, <2>1, <2>2, <2>3, <2>4 DEF Chain
<1> QED BY <1>2, <1>3, <1>4

\* The mark a caller closes is there, unless backtracking is off.
LEMMA MarkIsThere ==
    ASSUME InputType, CallerType, Chain, Pop("mark")
    PROVE  backtrack < 1 \/ marks # <<>>
<1>1. Len(open) \in Nat /\ Len(open) > 0
  BY DEF CallerType, Pop
<1> QED BY <1>1 DEF Chain, InputType

----------------------------------------------------------------------------
(* The invariant holds *)

\* Whatever a step of the caller does to the input and to its obligations, it
\* does one of these.
LEMMA NextSteps ==
    ASSUME [Next]_vars
    PROVE  \/ Accept /\ open' = open
           \/ Eoi /\ open' = open
           \/ Mark /\ Push("mark")
           \/ Unmark /\ Pop("mark")
           \/ Rewind /\ Pop("mark")
           \/ Backtracking(-1) /\ Push("predict")
           \/ Backtracking(1) /\ Pop("predict")
           \/ UNCHANGED <<input, open>>
BY DEF Next, vars, input, Read, ReadEnd, OpenMark, CloseMark, BackToMark, BacktrackDisable,
       BacktrackEnable, StringBegin, StringChar, StringFails, StringDone

\* What a string parser has still to match is a string.
LEMMA LitType ==
    ASSUME CallerType, [Next]_vars
    PROVE  lit' \subseteq Seq(Chars)
<1>1. CASE UNCHANGED lit \/ lit' = {}
  BY <1>1 DEF CallerType
<1>2. CASE StringBegin
  BY <1>2, TextsAssumption DEF StringBegin
<1>3. CASE StringChar
  <2>1. PICK w \in lit : w # <<>> /\ lit' = {Tail(w)}
    BY <1>3 DEF StringChar
  <2>2. w \in Seq(Chars)
    BY <2>1 DEF CallerType
  <2>3. Tail(w) \in Seq(Chars)
    BY <2>1, <2>2
  <2> QED BY <2>1, <2>3
<1> QED BY <1>1, <1>2, <1>3
        DEF Next, vars, Read, ReadEnd, OpenMark, CloseMark, BackToMark,
            BacktrackDisable, BacktrackEnable, StringFails, StringDone

\* A new input satisfies the invariant.
LEMMA InitInv == Init => IInv
<1> SUFFICES ASSUME Init PROVE IInv
  OBVIOUS
<1>1. Start \in Place
  BY DEF Start, Place
<1>2. marks = <<>> /\ open = <<>> /\ backtrack = 1 /\ slots = MarksMin /\ lit = {}
  BY DEF Init, NewInput
<1>3. InputType
  BY <1>1, MarksAssumption DEF Init, NewInput, InputType
<1>4. CallerType /\ Ascending /\ MarksFit
  BY <1>2, MarksAssumption DEF CallerType, Ascending, MarksFit
<1>5. Chain
  BY <1>2 DEF Chain, Linked
<1> QED BY <1>3, <1>4, <1>5 DEF IInv

\* Every step keeps it.
LEMMA NextInv == IInv /\ [Next]_vars => IInv'
<1> SUFFICES ASSUME IInv, [Next]_vars PROVE IInv'
  OBVIOUS
<1>1. InputType /\ CallerType /\ Ascending /\ MarksFit /\ Chain
  BY DEF IInv
<1>2. lit' \subseteq Seq(Chars)
  BY <1>1, LitType
<1>3. /\ backtrack \in Int /\ Len(marks) \in Nat
      /\ open \in Seq(Obligation) /\ Len(open) \in Nat
  BY <1>1 DEF InputType, CallerType, Obligation
<1>4. CASE Accept /\ open' = open
  <2>1. InputType' /\ Ascending'
    BY <1>1, <1>4, AcceptKeeps
  <2>2. marks' = marks /\ slots' = slots /\ backtrack' = backtrack
    BY <1>4 DEF Accept
  <2> QED BY <1>1, <1>2, <1>4, <2>1, <2>2
          DEF IInv, CallerType, MarksFit, Chain, Linked
<1>5. CASE Eoi /\ open' = open
  <2>1. InputType' /\ Ascending'
    BY <1>1, <1>5, EoiKeeps
  <2>2. marks' = marks /\ slots' = slots /\ backtrack' = backtrack
    BY <1>5 DEF Eoi
  <2> QED BY <1>1, <1>2, <1>5, <2>1, <2>2
          DEF IInv, CallerType, MarksFit, Chain, Linked
<1>6. CASE Mark /\ Push("mark")
  <2>1. /\ InputType' /\ Ascending' /\ MarksFit' /\ backtrack' = backtrack
        /\ Len(marks') = IF backtrack < 1 THEN Len(marks) ELSE Len(marks) + 1
    BY <1>1, <1>6, MarkKeeps
  <2>2. open' \in Seq(Obligation) /\ Chain'
    BY <1>1, <1>3, <1>6, <2>1, PushMarkKeeps
  <2> QED BY <1>2, <2>1, <2>2 DEF IInv, CallerType, Obligation
<1>7. CASE Unmark /\ Pop("mark")
  <2>1. /\ InputType' /\ Ascending' /\ MarksFit' /\ backtrack' = backtrack
        /\ Len(marks') = IF backtrack < 1 THEN Len(marks) ELSE Len(marks) - 1
    BY <1>1, <1>7, MarkIsThere, UnmarkKeeps
  <2>2. open' \in Seq(Obligation) /\ Chain'
    BY <1>1, <1>3, <1>7, <2>1, PopMarkKeeps
  <2> QED BY <1>2, <2>1, <2>2 DEF IInv, CallerType, Obligation
<1>8. CASE Rewind /\ Pop("mark")
  <2>1. /\ InputType' /\ Ascending' /\ MarksFit' /\ backtrack' = backtrack
        /\ Len(marks') = IF backtrack < 1 THEN Len(marks) ELSE Len(marks) - 1
    BY <1>1, <1>8, MarkIsThere, RewindKeeps
  <2>2. open' \in Seq(Obligation) /\ Chain'
    BY <1>1, <1>3, <1>8, <2>1, PopMarkKeeps
  <2> QED BY <1>2, <2>1, <2>2 DEF IInv, CallerType, Obligation
<1>9. CASE Backtracking(-1) /\ Push("predict")
  <2>1. backtrack' = backtrack - 1 /\ marks' = marks
    BY <1>3, <1>9 DEF Backtracking
  <2>2. open' \in Seq(Obligation) /\ Chain'
    BY <1>1, <1>3, <1>9, <2>1, PushPredictKeeps
  <2>3. InputType' /\ Ascending' /\ MarksFit'
    BY <1>1, <1>3, <1>9, <2>1 DEF Backtracking, InputType, Ascending, MarksFit
  <2> QED BY <1>2, <2>2, <2>3 DEF IInv, CallerType, Obligation
<1>10. CASE Backtracking(1) /\ Pop("predict")
  <2>1. backtrack' = backtrack + 1 /\ marks' = marks
    BY <1>10 DEF Backtracking
  <2>2. open' \in Seq(Obligation) /\ Chain'
    BY <1>1, <1>3, <1>10, <2>1, PopPredictKeeps
  <2>3. InputType' /\ Ascending' /\ MarksFit'
    BY <1>1, <1>3, <1>10, <2>1 DEF Backtracking, InputType, Ascending, MarksFit
  <2> QED BY <1>2, <2>2, <2>3 DEF IInv, CallerType, Obligation
<1>11. CASE UNCHANGED <<input, open>>
  BY <1>1, <1>2, <1>11
     DEF input, IInv, InputType, CallerType, Ascending, MarksFit, Chain, Linked
<1> QED BY <1>4, <1>5, <1>6, <1>7, <1>8, <1>9, <1>10, <1>11, NextSteps

LEMMA IInvHolds == Spec => []IInv
BY InitInv, NextInv, PTL DEF Spec

\* The fields hold what the code can put there: TypeOK holds for all texts,
\* literals and bounds.
THEOREM TypeCorrect == Spec => []TypeOK
<1>1. IInv => TypeOK
  BY DEF IInv, InputType, CallerType, TypeOK
<1> QED BY <1>1, IInvHolds, PTL

\* The arrays of marks never overflow and never shrink below their minimum.
THEOREM MarksHaveRoom == Spec => []MarksFit
<1>1. IInv => MarksFit
  BY DEF IInv
<1> QED BY <1>1, IInvHolds, PTL

\* Each unmark and each rewind that acts closes the mark it was meant for.
THEOREM MarksAreTheCallers == Spec => []MarksPaired
<1>1. IInv => MarksPaired
  <2>1. ASSUME IInv PROVE MarksPaired
    <3>1. Chain /\ Len(marks) \in Nat /\ Len(open) \in Nat /\ backtrack \in Int
      BY <2>1 DEF IInv, InputType, CallerType
    <3> QED BY <3>1 DEF Chain, MarksPaired
  <2> QED BY <2>1
<1> QED BY <1>1, IInvHolds, PTL

\* A step taken while backtracking is off never moves the input back.
THEOREM PredictiveForward == Spec => PredictiveMovesOn
<1>1. IInv /\ [Next]_vars => [backtrack < 1 => at'.pos >= at.pos]_vars
  <2> SUFFICES ASSUME IInv, [Next]_vars, backtrack < 1 PROVE at'.pos >= at.pos
    OBVIOUS
  <2>1. at.pos \in Nat
    BY PlaceFields DEF IInv, InputType
  <2>2. CASE Accept
    BY <2>1, <2>2 DEF Accept, Past
  <2>3. CASE Eoi
    BY <2>1, <2>3 DEF Eoi
  <2>4. CASE at' = at
    BY <2>1, <2>4
  <2> QED BY <2>2, <2>3, <2>4, NextSteps
          DEF Mark, Unmark, Rewind, Backtracking, input
<1> QED BY <1>1, IInvHolds, PTL DEF Spec, PredictiveMovesOn

----------------------------------------------------------------------------
(* Places and the text *)

\* One character more is one line more exactly if it is a newline.
LEMMA LinesStep ==
    ASSUME InputType, NEW n \in Nat, n < Len(text)
    PROVE  /\ n + 1 \notin Lines(n) /\ Cardinality(Lines(n)) \in Nat
           /\ text[n + 1] # NL => Lines(n + 1) = Lines(n)
           /\ text[n + 1] = NL =>
                 /\ Lines(n + 1) = Lines(n) \cup {n + 1}
                 /\ Cardinality(Lines(n + 1)) = Cardinality(Lines(n)) + 1
<1>1. n + 1 \notin Lines(n)
  BY DEF Lines
<1>2. IsFiniteSet(Lines(n))
  <2>1. IsFiniteSet(1..n)
    BY FS_Interval
  <2> QED BY <2>1, FS_Subset DEF Lines
<1>3. 1..(n + 1) = (1..n) \cup {n + 1}
  OBVIOUS
<1>4. text[n + 1] # NL => Lines(n + 1) = Lines(n)
  BY <1>3 DEF Lines
<1>5. text[n + 1] = NL => Lines(n + 1) = Lines(n) \cup {n + 1}
  BY <1>3 DEF Lines
<1>6. Cardinality(Lines(n) \cup {n + 1}) = Cardinality(Lines(n)) + 1
  BY <1>1, <1>2, FS_AddElement
<1>7. Cardinality(Lines(n)) \in Nat
  BY <1>2, FS_CardinalityType
<1> QED BY <1>1, <1>4, <1>5, <1>6, <1>7

\* The place after the next character is right if this one is.
LEMMA PastIsRight ==
    ASSUME InputType, RightPlace(at), at.pos < Len(text), NEW c, c = text[at.pos + 1]
    PROVE  RightPlace(Past(c))
<1>1. /\ at.pos \in Nat /\ at.row \in Nat /\ at.col \in Nat /\ Len(text) \in Nat
  <2>1. text \in Seq(Chars)
    BY TextsAssumption DEF InputType
  <2> QED BY <2>1, PlaceFields DEF InputType
<1>2. /\ Past(c).pos = at.pos + 1 /\ Past(c).last = c /\ Past(c).term = at.term
      /\ Past(c).row = IF c = NL THEN at.row + 1 ELSE at.row
      /\ Past(c).col = IF c = NL THEN 0 ELSE at.col + 1
  BY DEF Past
<1>3. Past(c).term # 1
  BY <1>1, <1>2 DEF RightPlace
<1>4. \A l \in Lines(at.pos) : l \in Nat /\ l <= at.pos
  BY DEF Lines
<1>5. CASE c = NL
  <2>1. /\ Lines(at.pos + 1) = Lines(at.pos) \cup {at.pos + 1}
        /\ Cardinality(Lines(at.pos + 1)) = at.row + 1
    BY <1>1, <1>5, LinesStep DEF RightPlace
  <2>2. \A l \in Lines(at.pos + 1) : l <= at.pos + 1
    BY <1>1, <1>4, <2>1
  <2> QED BY <1>1, <1>2, <1>3, <1>5, <2>1, <2>2 DEF RightPlace
<1>6. CASE c # NL
  <2>1. Lines(at.pos + 1) = Lines(at.pos)
    BY <1>1, <1>6, LinesStep
  <2>2. at.pos + 1 - (at.col + 1) = at.pos - at.col
    BY <1>1
  <2> QED BY <1>1, <1>2, <1>3, <1>6, <2>1, <2>2, SMTT(20), ZenonT(40) DEF RightPlace
<1> QED BY <1>5, <1>6

\* Recording the end at the end leaves the place right.
LEMMA EndIsRight ==
    ASSUME InputType, RightPlace(at), Eoi, at.pos >= Len(text)
    PROVE  RightPlace(at')
<1>1. /\ at'.pos = at.pos /\ at'.row = at.row /\ at'.col = at.col /\ at'.last = at.last
  BY DEF Eoi
<1>2. at.pos \in Nat /\ Len(text) \in Nat
  <2>1. text \in Seq(Chars)
    BY TextsAssumption DEF InputType
  <2> QED BY <2>1, PlaceFields DEF InputType
<1>3. at.pos = Len(text)
  BY <1>2 DEF RightPlace
<1> QED BY <1>1, <1>3 DEF RightPlace

\* The text never changes.
LEMMA TextStays ==
    ASSUME [Next]_vars
    PROVE  text' = text /\ kind' = kind
BY NextSteps DEF Accept, Eoi, Mark, Unmark, Rewind, Backtracking, input

\* Where the marks are after a step.
LEMMA MarksAfter ==
    ASSUME IInv, [Next]_vars
    PROVE  \A k \in 1..Len(marks') :
              \/ k \in 1..Len(marks) /\ marks'[k] = marks[k]
              \/ Mark /\ k = Len(marks) + 1 /\ marks'[k] = at /\ at' = at
<1>1. InputType /\ CallerType /\ Chain /\ marks \in Seq(Place)
  BY DEF IInv, InputType
<1>2. CASE UNCHANGED marks
  BY <1>2
<1>3. CASE Mark /\ ~UNCHANGED marks
  <2>1. marks' = Append(marks, at) /\ at' = at
    BY <1>3 DEF Mark
  <2> QED BY <1>1, <1>3, <2>1
<1>4. CASE DropMark /\ marks # <<>>
  BY <1>1, <1>4, FrontFacts DEF DropMark
<1>5. Unmark /\ Pop("mark") => UNCHANGED marks \/ (DropMark /\ marks # <<>>)
  BY <1>1, MarkIsThere DEF Unmark
<1>6. Rewind /\ Pop("mark") => UNCHANGED marks \/ (DropMark /\ marks # <<>>)
  BY <1>1, MarkIsThere DEF Rewind
<1> QED BY <1>2, <1>3, <1>4, <1>5, <1>6, NextSteps DEF Accept, Eoi, Backtracking, input

\* A rewind that acts goes to the last mark.
LEMMA RewindGoes ==
    ASSUME IInv, Rewind, Pop("mark"), at' # at
    PROVE  /\ Len(marks) \in 1..Len(marks) /\ at' = marks[Len(marks)]
           /\ marks' = SubSeq(marks, 1, Len(marks) - 1) /\ marks # <<>>
           /\ off' = IF kind = "file" THEN at'.pos ELSE off
<1>1. InputType /\ CallerType /\ Chain /\ marks \in Seq(Place)
  BY DEF IInv, InputType
<1>2. marks # <<>>
  BY <1>1, MarkIsThere DEF Rewind
<1> QED BY <1>1, <1>2 DEF Rewind, DropMark

\* What a string or a file gives next is the text's next character.
LEMMA PeekIsText ==
    ASSUME InputType, InTheText, kind \in {"string", "file"}
    PROVE  /\ at.pos \in Nat /\ at.pos <= Len(text)
           /\ IF at.pos < Len(text) THEN Peek = text[at.pos + 1] ELSE Peek = Nul
<1>1. at.pos \in Nat /\ Peek = CharAt(at.pos)
  BY PlaceFields DEF InputType, InTheText, Peek, InBuffer, Buffering
<1> QED BY <1>1, CharAtType DEF InTheText, RightPlace

\* Reading, marking and rewinding keep every place of a string or a file right.
LEMMA ReadsNext ==
    ASSUME IInv, InTheText, kind \in {"string", "file"}, [Next]_vars
    PROVE  InTheText'
<1>1. InputType /\ Ascending /\ Ascending' /\ InputType'
  BY NextInv DEF IInv
<1>2. /\ at.pos \in Nat /\ at.pos <= Len(text)
      /\ IF at.pos < Len(text) THEN Peek = text[at.pos + 1] ELSE Peek = Nul
  BY <1>1, PeekIsText
<1>3. text' = text /\ kind' = kind
  BY TextStays
<1>4. /\ RightPlace(at)
      /\ kind = "file" => off = at.pos
      /\ \A k \in 1..Len(marks) : RightPlace(marks[k])
  BY DEF InTheText
<1>5. RightPlace(at') /\ (kind = "file" => off' = at'.pos)
  <2>1. CASE Accept
    <3>1. at.pos < Len(text) /\ Peek = text[at.pos + 1]
      BY <1>2, <2>1 DEF Accept, Terminated
    <3>2. RightPlace(at')
      BY <1>1, <1>4, <2>1, <3>1, PastIsRight DEF Accept
    <3>3. kind = "file" => off' = at'.pos
      BY <1>4, <2>1 DEF Accept, Past, InBuffer, Buffering
    <3> QED BY <3>2, <3>3
  <2>2. CASE Eoi
    <3>1. at.pos >= Len(text)
      <4>1. ~(at.pos < Len(text))
        <5>1. SUFFICES ASSUME at.pos < Len(text) PROVE FALSE
          OBVIOUS
        <5>2. text[at.pos + 1] \in Chars
          BY <1>1, <1>2, <5>1, CharAtType
        <5> QED BY <1>2, <2>2, <5>1, <5>2, CharsAssumption DEF Eoi, Terminated
      <4>2. Len(text) \in Nat
        BY <1>1, TextsAssumption DEF InputType
      <4> QED BY <1>2, <4>1, <4>2
    <3> QED BY <1>1, <1>4, <2>2, <3>1, EndIsRight DEF Eoi
  <2>3. CASE Rewind /\ Pop("mark") /\ at' # at
    BY <1>4, <2>3, RewindGoes
  <2>4. CASE at' = at /\ ~Accept /\ ~Eoi
    <3>1. kind = "file" => off' = off \/ off' = at.pos
      BY <2>4, NextSteps DEF Mark, Unmark, Rewind, Backtracking, input
    <3> QED BY <1>4, <2>4, <3>1
  <2> QED BY <2>1, <2>2, <2>3, <2>4, NextSteps DEF Mark, Unmark, Backtracking, input
<1>6. \A k \in 1..Len(marks') : RightPlace(marks'[k])
  BY <1>4, MarksAfter
<1>7. RightPlace(at)'
  BY <1>3, <1>5 DEF RightPlace, Lines
<1>8. (\A k \in 1..Len(marks) : RightPlace(marks[k]))'
  BY <1>3, <1>6 DEF RightPlace, Lines
<1>9. (\A k \in 1..Len(marks) : marks[k].pos <= at.pos)'
  BY <1>1 DEF Ascending
<1>10. (kind = "file" => off = at.pos)'
  BY <1>3, <1>5
<1> QED BY <1>7, <1>8, <1>9, <1>10 DEF InTheText

\* A new input is at the start of the text.
LEMMA ReadsInit == Init => InTheText
<1> SUFFICES ASSUME Init PROVE InTheText
  OBVIOUS
<1>1. /\ at.pos = 0 /\ at.row = 0 /\ at.col = 0 /\ at.term = 0 /\ at.last = Nul
      /\ off = 0 /\ marks = <<>> /\ text \in Seq(Chars)
  BY TextsAssumption DEF Init, NewInput, Start
<1>2. Lines(0) = {} /\ Cardinality(Lines(0)) = 0
  BY FS_EmptySet DEF Lines
<1>3. Len(text) \in Nat
  BY <1>1
<1> QED BY <1>1, <1>2, <1>3 DEF InTheText, RightPlace

\* However strings and files are read, marked and rewound, every place is right for
\* the text: the last character, the row and the column are the text's.
THEOREM StringsAndFilesAreRead == Spec => []ReadsTheText
<1>1. Init => ReadsTheText
  BY ReadsInit DEF ReadsTheText
<1>2. IInv /\ ReadsTheText /\ [Next]_vars => ReadsTheText'
  <2> SUFFICES ASSUME IInv, ReadsTheText, [Next]_vars, kind' \in {"string", "file"}
               PROVE  InTheText'
    BY DEF ReadsTheText
  <2>1. kind' = kind
    BY TextStays
  <2> QED BY <2>1, ReadsNext DEF ReadsTheText
<1> QED BY <1>1, <1>2, IInvHolds, PTL DEF Spec

----------------------------------------------------------------------------
(* A pipe *)

\* What was taken from a pipe came from the text, and without a mark nothing is kept.
PipeInv ==
    /\ kind = "pipe" => off <= Len(text)
    /\ marks = <<>> => buf = <<>>

LEMMA TextLength ==
    ASSUME InputType
    PROVE  text \in Seq(Chars) /\ Len(text) \in Nat /\ at.pos \in Nat /\ off \in Nat
<1>1. text \in Seq(Chars)
  BY TextsAssumption DEF InputType
<1> QED BY <1>1, PlaceFields DEF InputType

LEMMA PipeInvNext ==
    ASSUME IInv, PipeInv, [Next]_vars
    PROVE  PipeInv'
<1>1. InputType /\ CallerType /\ Chain
  BY DEF IInv
<1>2. text' = text /\ kind' = kind
  BY TextStays
<1>3. CASE Accept
  <2>1. ASSUME kind = "pipe", off' # off PROVE off' <= Len(text)
    <3>1. Peek = CharAt(off) /\ off' = off + 1 /\ Peek # Nul
      BY <1>3, <2>1 DEF Accept, Peek, Terminated
    <3>2. off < Len(text)
      BY <1>1, <3>1, TextLength, CharAtType
    <3> QED BY <1>1, <3>1, <3>2, TextLength
  <2>2. marks = <<>> => buf' = buf
    BY <1>3 DEF Accept, Buffering
  <2> QED BY <1>2, <1>3, <2>1, <2>2 DEF Accept, PipeInv
<1>4. CASE Mark
  <2>1. marks' = <<>> => marks = <<>>
    BY <1>1, <1>4 DEF Mark, InputType
  <2> QED BY <1>2, <1>4, <2>1 DEF Mark, PipeInv
<1>5. CASE (Unmark \/ Rewind) /\ Pop("mark")
  <2>1. kind = "pipe" => off' = off
    BY <1>5 DEF Unmark, Rewind
  <2>2. marks' = <<>> => buf' = <<>>
    <3>1. CASE backtrack < 1
      BY <1>5, <3>1 DEF Unmark, Rewind, PipeInv
    <3>2. CASE ~(backtrack < 1)
      <4>1. DropMark /\ marks # <<>> /\ marks \in Seq(Place)
        BY <1>1, <1>5, <3>2, MarkIsThere DEF Unmark, Rewind, InputType
      <4>2. marks' = <<>> => Len(marks) - 1 = 0
        BY <4>1, FrontFacts DEF DropMark
      <4> QED BY <4>1, <4>2 DEF DropMark
    <3> QED BY <3>1, <3>2
  <2> QED BY <1>2, <2>1, <2>2 DEF PipeInv
<1>6. CASE Eoi \/ Backtracking(-1) \/ Backtracking(1) \/ UNCHANGED <<input, open>>
  BY <1>6 DEF Eoi, Backtracking, input, PipeInv
<1> QED BY <1>3, <1>4, <1>5, <1>6, NextSteps

LEMMA PipeInvHolds == Spec => [](IInv /\ PipeInv)
<1>1. Init => PipeInv
  BY TextLength, InitInv DEF Init, NewInput, PipeInv, IInv
<1> QED BY <1>1, PipeInvNext, InitInv, NextInv, PTL DEF Spec

\* A place in a pipe is never past what was taken from it.
PlaceInv ==
    kind = "pipe" =>
        /\ at.pos <= off
        /\ marks # <<>> => marks[1].pos + Len(buf) <= off

LEMMA PlaceInvNext ==
    ASSUME IInv, PipeInv, PlaceInv, [Next]_vars
    PROVE  PlaceInv'
<1>1. InputType /\ InputType' /\ CallerType /\ Ascending /\ Chain
  BY NextInv DEF IInv
<1>2. SUFFICES ASSUME kind = "pipe"
               PROVE  /\ at'.pos <= off'
                      /\ marks' # <<>> => marks'[1].pos + Len(buf') <= off'
  BY TextStays DEF PlaceInv
<1>3. /\ at.pos \in Nat /\ at'.pos \in Nat /\ off \in Nat /\ at.pos <= off
      /\ Len(buf) \in Nat /\ Len(marks) \in Nat
      /\ marks # <<>> => marks[1].pos + Len(buf) <= off
  BY <1>1, <1>2, PlaceFields DEF PlaceInv, InputType
<1>4. \A k \in 1..Len(marks) : marks[k].pos \in Nat /\ marks[k].pos <= at.pos
  BY <1>1, PlacesFields DEF InputType, Ascending
<1>5. marks # <<>> => 1 \in 1..Len(marks)
  BY <1>1 DEF InputType
<1>6. CASE Accept
  <2>1. at'.pos = at.pos + 1 /\ marks' = marks
    BY <1>6 DEF Accept, Past
  <2>2. CASE InBuffer
    BY <1>2, <1>3, <1>4, <1>5, <1>6, <2>1, <2>2 DEF Accept, InBuffer, Buffering
  <2>3. CASE ~InBuffer
    <3>1. off' = off + 1
      BY <1>2, <1>6, <2>3 DEF Accept
    <3>2. marks # <<>> => buf' = Append(buf, Peek)
      BY <1>2, <1>6, <2>3 DEF Accept, Buffering
    <3>3. marks # <<>> => Len(buf') = Len(buf) + 1
      BY <1>1, <3>2, PeekType DEF InputType
    <3> QED BY <1>3, <1>4, <1>5, <2>1, <3>1, <3>3
  <2> QED BY <2>2, <2>3
<1>7. CASE Mark
  <2>1. at' = at /\ off' = off /\ buf' = buf
    BY <1>7 DEF Mark
  <2>2. CASE marks' = marks
    BY <1>3, <2>1, <2>2
  <2>3. CASE marks' = Append(marks, at) /\ marks # <<>>
    <3>1. marks'[1] = marks[1]
      BY <1>1, <1>5, <2>3 DEF InputType
    <3> QED BY <1>3, <2>1, <2>3, <3>1
  <2>4. CASE marks' = Append(marks, at) /\ marks = <<>>
    <3>1. marks'[1] = at /\ Len(buf') = 0
      BY <2>1, <2>4 DEF PipeInv
    <3> QED BY <1>3, <2>1, <3>1
  <2> QED BY <1>7, <2>2, <2>3, <2>4 DEF Mark
<1>8. CASE (Unmark \/ Rewind) /\ Pop("mark")
  <2>1. off' = off /\ at'.pos <= at.pos
    <3>1. at' = at \/ (Rewind /\ at' # at)
      BY <1>8 DEF Unmark
    <3>2. CASE Rewind /\ at' # at
      BY <1>2, <1>4, <1>8, <3>2, RewindGoes
    <3>3. off' = off
      BY <1>2, <1>8 DEF Unmark, Rewind
    <3> QED BY <1>3, <3>1, <3>2, <3>3
  <2>2. CASE marks' = marks /\ buf' = buf
    BY <1>3, <2>1, <2>2
  <2>3. CASE DropMark /\ marks # <<>>
    <3>1. /\ Len(marks') = Len(marks) - 1 /\ marks' \in Seq(Place)
          /\ \A k \in 1..(Len(marks) - 1) : marks'[k] = marks[k]
      BY <1>1, <2>3, FrontFacts DEF DropMark, InputType
    <3>2. SUFFICES ASSUME marks' # <<>> PROVE marks'[1].pos + Len(buf') <= off'
      BY <1>3, <2>1
    <3>3. Len(marks) - 1 # 0 /\ 1 \in 1..(Len(marks) - 1)
      BY <1>3, <3>1, <3>2
    <3>4. marks'[1] = marks[1] /\ buf' = buf
      BY <2>3, <3>1, <3>3 DEF DropMark
    <3> QED BY <1>3, <2>1, <2>3, <3>4
  <2> QED BY <1>1, <1>8, <2>2, <2>3, MarkIsThere DEF Unmark, Rewind
<1>9. CASE Eoi \/ Backtracking(-1) \/ Backtracking(1) \/ UNCHANGED <<input, open>>
  <2>1. at'.pos = at.pos /\ off' = off /\ buf' = buf /\ marks' = marks
    BY <1>9 DEF Eoi, Backtracking, input
  <2> QED BY <1>3, <2>1
<1> QED BY <1>6, <1>7, <1>8, <1>9, NextSteps

\* Whatever is read from, the place is in the text, or at its end: the characters a
\* pipe loses are lost for good, and none is read twice.
InText == text \in Seq(Chars) /\ at.pos \in Nat /\ at.pos <= Len(text)

LEMMA InTextHolds == Spec => []InText
<1>1. Init => PlaceInv
  BY DEF Init, NewInput, PlaceInv, Start
<1>2. IInv /\ PipeInv /\ PlaceInv /\ ReadsTheText => InText
  <2> SUFFICES ASSUME IInv, PipeInv, PlaceInv, ReadsTheText PROVE InText
    OBVIOUS
  <2>1. InputType
    BY DEF IInv
  <2>2. CASE kind = "pipe"
    BY <2>1, <2>2, TextLength DEF PipeInv, PlaceInv, InText
  <2>3. CASE kind \in {"string", "file"}
    BY <2>1, <2>3, TextLength DEF ReadsTheText, InTheText, RightPlace, InText
  <2> QED BY <2>1, <2>2, <2>3, KindsAssumption DEF InputType
<1> QED BY <1>1, <1>2, PlaceInvNext, PipeInvHolds, StringsAndFilesAreRead, PTL DEF Spec

\* What a pipe that is in order gives next is the text's next character.
LEMMA PipePeek ==
    ASSUME InputType, PipeInv, PipeInOrder, kind = "pipe"
    PROVE  /\ at.pos <= Len(text)
           /\ IF at.pos < Len(text) THEN Peek = text[at.pos + 1] ELSE Peek = Nul
           /\ InBuffer => at.pos < off
           /\ ~InBuffer => at.pos = off
<1>1. /\ text \in Seq(Chars) /\ Len(text) \in Nat /\ at.pos \in Nat /\ off \in Nat
      /\ off <= Len(text) /\ buf \in Seq(Chars)
  BY TextLength DEF PipeInv, InputType
<1>2. CASE marks = <<>>
  <2>1. ~InBuffer /\ off = at.pos /\ Peek = CharAt(off)
    BY <1>2 DEF InBuffer, Buffering, PipeInOrder, Peek
  <2> QED BY <1>1, <2>1, CharAtType
<1>3. CASE marks # <<>>
  <2> DEFINE m == marks[1].pos
  <2>1. 1 \in 1..Len(marks) /\ m \in Nat
    BY <1>3, PlacesFields DEF InputType
  <2>2. /\ off = m + Len(buf) /\ at.pos <= off /\ m <= at.pos
        /\ buf = SubSeq(text, m + 1, off)
    BY <1>3, <2>1 DEF PipeInOrder
  <2>3. InBuffer <=> at.pos < Len(buf) + m
    BY <1>3 DEF InBuffer, Buffering
  <2>4. Peek = IF InBuffer THEN buf[at.pos - m + 1] ELSE CharAt(off)
    BY DEF Peek
  <2> HIDE DEF m
  <2>5. Len(buf) \in Nat
    BY <1>1
  <2>6. CASE InBuffer
    <3>1. PICK k \in 1..(off - m) : k = at.pos - m + 1 /\ m + k = at.pos + 1
      BY <1>1, <2>1, <2>2, <2>3, <2>5, <2>6, SMTT(20), ZenonT(40)
    <3>2. at.pos < off
      BY <1>1, <2>1, <2>2, <2>3, <2>5, <2>6
    <3>3. m <= off /\ off <= Len(text)
      BY <1>1, <2>1, <2>2, <3>2
    <3>4. buf[k] = text[m + k]
      <4>1. \A i \in 1..(off - m) : SubSeq(text, m + 1, off)[i] = text[m + i]
        BY <1>1, <2>1, <3>3, StretchFacts
      <4> QED BY <2>2, <4>1
    <3>5. Peek = text[at.pos + 1]
      BY <2>4, <2>6, <3>1, <3>4
    <3>6. at.pos < Len(text)
      BY <1>1, <3>2, <3>3
    <3> QED BY <1>1, <2>6, <3>2, <3>5, <3>6
  <2>7. CASE ~InBuffer
    <3>1. at.pos = off
      BY <1>1, <2>1, <2>2, <2>3, <2>5, <2>7
    <3> QED BY <1>1, <2>4, <2>7, <3>1, CharAtType
  <2> QED BY <2>6, <2>7
<1> QED BY <1>2, <1>3

\* Reading on keeps a pipe in order: what is taken from it under a mark is kept.
LEMMA PipeAccept ==
    ASSUME IInv, PipeInv, PipeInOrder, kind = "pipe", Accept
    PROVE  RightPlace(at') /\ IF marks = <<>> THEN off' = at'.pos
                              ELSE /\ off' = marks[1].pos + Len(buf') /\ at'.pos <= off'
                                   /\ buf' = SubSeq(text, marks[1].pos + 1, off')
<1>1. InputType
  BY DEF IInv
<1>2. /\ text \in Seq(Chars) /\ Len(text) \in Nat /\ at.pos \in Nat /\ off \in Nat
      /\ off <= Len(text) /\ buf \in Seq(Chars) /\ Len(buf) \in Nat
  BY <1>1, TextLength DEF PipeInv, InputType
<1>3. /\ at.pos < Len(text) /\ Peek = text[at.pos + 1]
      /\ InBuffer => at.pos < off
      /\ ~InBuffer => at.pos = off
  BY <1>1, <1>2, PipePeek DEF Accept, Terminated
<1>4. /\ RightPlace(at') /\ at'.pos = at.pos + 1
      /\ off' = IF InBuffer THEN off ELSE off + 1
      /\ buf' = IF Buffering /\ ~InBuffer THEN Append(buf, Peek) ELSE buf
  BY <1>1, <1>3, PastIsRight DEF Accept, Past, PipeInOrder
<1>5. CASE marks = <<>>
  BY <1>2, <1>3, <1>4, <1>5 DEF InBuffer, Buffering
<1>6. CASE marks # <<>>
  <2> DEFINE m == marks[1].pos
  <2>1. 1 \in 1..Len(marks) /\ m \in Nat
    BY <1>1, <1>6, PlacesFields DEF InputType
  <2>2. /\ off = m + Len(buf) /\ at.pos <= off /\ m <= at.pos
        /\ buf = SubSeq(text, m + 1, off)
    BY <1>6, <2>1 DEF PipeInOrder
  <2>3. Buffering
    BY <1>6, SMTT(20), ZenonT(40) DEF Buffering
  <2> HIDE DEF m
  <2>4. CASE InBuffer
    <3>1. off' = off /\ buf' = buf /\ at'.pos <= off
      BY <1>2, <1>3, <1>4, <2>4
    <3> QED BY <1>4, <1>6, <2>2, <3>1 DEF m
  <2>5. CASE ~InBuffer
    <3>1. at.pos = off /\ off' = off + 1 /\ buf' = Append(buf, text[off + 1])
      BY <1>3, <1>4, <2>3, <2>5
    <3>2. text[off + 1] \in Chars
      BY <1>2, <1>3, <3>1
    <3>3. Len(buf') = Len(buf) + 1
      BY <1>2, <3>1, <3>2
    <3>4. m <= off /\ off < Len(text)
      BY <1>3, <2>2, <3>1
    <3>5. SubSeq(text, m + 1, off + 1) = Append(SubSeq(text, m + 1, off), text[off + 1])
      BY <1>2, <2>1, <3>4, GrownFacts
    <3>6. buf' = SubSeq(text, m + 1, off')
      BY <2>2, <3>1, <3>5
    <3>7. off' = m + Len(buf') /\ at'.pos <= off'
      BY <1>2, <1>4, <2>1, <2>2, <3>1, <3>3
    <3> QED BY <1>4, <1>6, <3>6, <3>7 DEF m
  <2> QED BY <2>4, <2>5
<1> QED BY <1>5, <1>6

\* A step that leaves the pipe and its buffer alone, at a place that is right.
LEMMA PipeStays ==
    ASSUME IInv, PipeInOrder, kind = "pipe", [Next]_vars,
           off' = off, buf' = buf, RightPlace(at)',
           \/ marks # <<>> /\ marks' # <<>>
           \/ marks = <<>> /\ marks' = <<>> /\ at'.pos = at.pos,
           \/ at'.pos = at.pos
           \/ Rewind /\ Pop("mark") /\ at' # at
    PROVE  PipeInOrder'
<1>1. InputType /\ Ascending /\ InputType' /\ Ascending'
  BY NextInv DEF IInv
<1>2. text' = text
  BY TextStays
<1>3. RightPlace(at)'
  OBVIOUS
<1>4. CASE marks' = <<>>
  <2>1. off' = at'.pos
    BY <1>4, SMTT(20), ZenonT(40) DEF PipeInOrder
  <2> QED BY <1>3, <1>4, <2>1 DEF PipeInOrder
<1>5. CASE marks' # <<>>
  <2>1. marks # <<>> /\ 1 \in 1..Len(marks) /\ 1 \in 1..Len(marks')
    BY <1>1, <1>5 DEF InputType
  <2>2. marks'[1] = marks[1]
    BY <1>1, <2>1, MarksAfter DEF InputType
  <2>3. \A k \in 1..Len(marks') : RightPlace(marks'[k])
    BY <2>1, MarksAfter DEF PipeInOrder
  <2>4. (\A k \in 1..Len(marks) : RightPlace(marks[k]))'
    BY <1>2, <2>3 DEF RightPlace, Lines
  <2>5. at'.pos <= at.pos
    <3>1. CASE at'.pos = at.pos
      BY <1>1, <3>1, TextLength
    <3>2. CASE Rewind /\ Pop("mark") /\ at' # at
      BY <3>2, RewindGoes DEF PipeInOrder
    <3> QED BY <3>1, <3>2
  <2>6. at'.pos <= off'
    <3>1. /\ off \in Nat /\ at.pos \in Nat /\ at'.pos \in Nat /\ at.pos <= off
      BY <1>1, <2>1, TextLength, PlaceFields DEF PipeInOrder, InputType
    <3> QED BY <2>5, <3>1
  <2>7. /\ off' = marks'[1].pos + Len(buf')
        /\ buf' = SubSeq(text', marks'[1].pos + 1, off')
    BY <1>2, <2>1, <2>2 DEF PipeInOrder
  <2>8. \A k \in 1..Len(marks') : marks'[1].pos <= marks'[k].pos /\ marks'[k].pos <= at'.pos
    BY <1>1, <2>1 DEF Ascending
  <2> QED BY <1>3, <1>5, <2>4, <2>6, <2>7, <2>8 DEF PipeInOrder
<1> QED BY <1>4, <1>5

\* However a pipe is read, marked and rewound, what was taken from it and may be read
\* again is kept, as long as the outermost mark stays open.
THEOREM PipesStayInOrder == Spec => PipeInOrderUnderMark
<1>1. ASSUME IInv, PipeInv, [Next]_vars, kind = "pipe", PipeInOrder, ~ClosesOuterMark
      PROVE  PipeInOrder'
  <2>1. InputType /\ CallerType /\ Chain /\ InputType' /\ Ascending'
    BY <1>1, NextInv DEF IInv
  <2>2. text' = text /\ RightPlace(at)
    BY <1>1, TextStays DEF PipeInOrder
  <2>3. CASE Accept
    <3>1. RightPlace(at)'
      BY <1>1, <2>2, <2>3, PipeAccept DEF RightPlace, Lines
    <3>2. marks' = marks
      BY <2>3 DEF Accept
    <3>3. CASE marks = <<>>
      BY <1>1, <2>3, <3>1, <3>2, <3>3, PipeAccept DEF PipeInOrder
    <3>4. CASE marks # <<>>
      <4>1. /\ off' = marks[1].pos + Len(buf') /\ at'.pos <= off'
            /\ buf' = SubSeq(text, marks[1].pos + 1, off')
        BY <1>1, <2>3, <3>4, PipeAccept
      <4>2. \A k \in 1..Len(marks') : RightPlace(marks[k])
        BY <1>1, <3>2, <3>4 DEF PipeInOrder
      <4>3. (\A k \in 1..Len(marks) : RightPlace(marks[k]))'
        BY <2>2, <3>2, <4>2, ZenonT(30) DEF RightPlace, Lines
      <4>4. 1 \in 1..Len(marks)
        BY <2>1, <3>4 DEF InputType
      <4>5. \A k \in 1..Len(marks') :
               marks'[1].pos <= marks'[k].pos /\ marks'[k].pos <= at'.pos
        BY <2>1, <3>2, <4>4 DEF Ascending
      <4> QED BY <2>2, <3>1, <3>2, <3>4, <4>1, <4>3, <4>5 DEF PipeInOrder
    <3> QED BY <3>3, <3>4
  <2>4. CASE Eoi
    <3>1. at.pos >= Len(text)
      <4>1. ~(at.pos < Len(text))
        <5>1. SUFFICES ASSUME at.pos < Len(text) PROVE FALSE
          OBVIOUS
        <5>2. text[at.pos + 1] \in Chars
          BY <2>1, <5>1, TextLength
        <5> QED BY <1>1, <2>1, <2>4, <5>1, <5>2, PipePeek, CharsAssumption DEF Eoi, Terminated
      <4> QED BY <2>1, <4>1, TextLength
    <3>2. RightPlace(at')
      BY <2>1, <2>2, <2>4, <3>1, EndIsRight
    <3>3. RightPlace(at)'
      BY <2>2, <3>2 DEF RightPlace, Lines
    <3>4. at'.pos = at.pos /\ off' = off /\ buf' = buf /\ marks' = marks
      BY <2>4 DEF Eoi
    <3> QED BY <1>1, <3>3, <3>4, PipeStays
  <2>5. CASE Mark
    <3>1. CASE marks' = marks \/ marks # <<>>
      <4>1. marks # <<>> => marks' # <<>>
        BY <2>1, <2>5, <3>1 DEF Mark, InputType
      <4>2. at' = at /\ off' = off /\ buf' = buf
        BY <2>5 DEF Mark
      <4>3. RightPlace(at)'
        BY <2>2, <4>2 DEF RightPlace, Lines
      <4> QED BY <1>1, <3>1, <4>1, <4>2, <4>3, PipeStays
    <3>2. CASE marks = <<>> /\ marks' # marks
      <4>1. marks' = <<at>> /\ buf' = <<>> /\ off' = off /\ at' = at /\ off = at.pos
        BY <1>1, <2>5, <3>2 DEF Mark, PipeInv, PipeInOrder
      <4>2. at.pos \in Nat /\ Len(marks') = 1 /\ marks'[1] = at /\ Len(buf') = 0
        BY <2>1, <4>1, TextLength
      <4>3. SubSeq(text, at.pos + 1, at.pos) = <<>>
        BY <4>2, SubSeqEmpty
      <4>4. RightPlace(at)'
        BY <2>2, <4>1 DEF RightPlace, Lines
      <4>5. (\A k \in 1..Len(marks) : RightPlace(marks[k]))'
        <5>1. \A k \in 1..Len(marks') : marks'[k] = at'
          BY <4>1, <4>2
        <5> QED BY <4>4, <5>1 DEF RightPlace, Lines
      <4>6. \A k \in 1..Len(marks') :
               marks'[1].pos <= marks'[k].pos /\ marks'[k].pos <= at'.pos
        BY <4>1, <4>2
      <4>7. /\ off' = marks'[1].pos + Len(buf') /\ at'.pos <= off'
            /\ buf' = SubSeq(text', marks'[1].pos + 1, off')
        BY <2>2, <4>1, <4>2, <4>3
      <4>8. marks' # <<>>
        BY <4>2
      <4> QED BY <4>4, <4>5, <4>6, <4>7, <4>8 DEF PipeInOrder
    <3> QED BY <3>1, <3>2
  <2>6. CASE (Unmark \/ Rewind) /\ Pop("mark")
    <3>1. off' = off
      BY <1>1, <2>6 DEF Unmark, Rewind
    <3>2. buf' = buf /\ ((marks # <<>> /\ marks' # <<>>) \/ (marks' = marks /\ at' = at))
      <4>1. CASE backtrack < 1
        BY <2>6, <4>1 DEF Unmark, Rewind
      <4>2. CASE ~(backtrack < 1)
        <5>1. DropMark /\ marks # <<>> /\ marks \in Seq(Place)
          BY <2>1, <2>6, <4>2, MarkIsThere DEF Unmark, Rewind, InputType
        <5>2. Len(marks') = Len(marks) - 1 /\ Len(marks) \in Nat \ {0}
          BY <5>1, FrontFacts DEF DropMark
        <5>3. marks' # <<>>
          <6>1. SUFFICES ASSUME marks' = <<>> PROVE FALSE
            OBVIOUS
          <6>2. Len(marks) = 1
            BY <5>2, <6>1
          <6> QED BY <1>1, <6>1, <6>2 DEF ClosesOuterMark
        <5>4. Len(marks) - 1 # 0
          <6>1. marks' \in Seq(Place)
            BY <2>1 DEF InputType
          <6>2. Len(marks') # 0
            BY <5>3, <6>1
          <6> QED BY <5>2, <6>2
        <5>5. buf' = buf
          BY <5>1, <5>4 DEF DropMark
        <5> QED BY <5>1, <5>3, <5>5
      <4> QED BY <4>1, <4>2
    <3>3. CASE at' = at
      <4>1. RightPlace(at)'
        BY <2>2, <3>3 DEF RightPlace, Lines
      <4>2. (marks # <<>> /\ marks' # <<>>) \/ (marks = <<>> /\ marks' = <<>>)
        BY <3>2
      <4> QED BY <1>1, <3>1, <3>2, <3>3, <4>1, <4>2, PipeStays
    <3>4. CASE at' # at
      <4>1. Rewind /\ Pop("mark") /\ marks # <<>> /\ marks' # <<>>
        BY <2>6, <3>2, <3>4 DEF Unmark
      <4>2. Len(marks) \in 1..Len(marks) /\ at' = marks[Len(marks)]
        BY <1>1, <3>4, <4>1, RewindGoes
      <4>3. RightPlace(at)'
        <5>1. RightPlace(marks[Len(marks)])
          BY <1>1, <4>1, <4>2 DEF PipeInOrder
        <5> QED BY <2>2, <4>2, <5>1 DEF RightPlace, Lines
      <4> QED BY <1>1, <3>1, <3>2, <3>4, <4>1, <4>3, PipeStays
    <3> QED BY <3>3, <3>4
  <2>7. CASE Backtracking(-1) \/ Backtracking(1) \/ UNCHANGED <<input, open>>
    <3>1. at' = at /\ off' = off /\ buf' = buf /\ marks' = marks
      BY <2>7 DEF Backtracking, input
    <3>2. RightPlace(at)'
      BY <2>2, <3>1 DEF RightPlace, Lines
    <3> QED BY <1>1, <3>1, <3>2, PipeStays
  <2> QED BY <1>1, <2>3, <2>4, <2>5, <2>6, <2>7, NextSteps
<1>2. IInv /\ PipeInv /\ [Next]_vars
        => [kind = "pipe" /\ PipeInOrder /\ ~ClosesOuterMark => PipeInOrder']_vars
  BY <1>1
<1> QED BY <1>2, PipeInvHolds, PTL DEF Spec, PipeInOrderUnderMark
=============================================================================
