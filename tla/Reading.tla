------------------------------- MODULE Reading -------------------------------
(***************************************************************************)
(* What kForth promises about the texts it interprets: the console line,   *)
(* the files that INCLUDE and INCLUDED open, the strings that EVALUATE     *)
(* gets.  A text opened inside another is read to its end first, then the  *)
(* other goes on where it was left; words are taken one by one in the      *)
(* order of the text; only a word that says so skips any; and a text is    *)
(* left before its end only when an error abandons all of them.            *)
(*                                                                         *)
(* There is no buffer here, and no saving or restoring: Input has those,   *)
(* and is shown to implement this.                                         *)
(***************************************************************************)
EXTENDS Naturals, Sequences

CONSTANTS
  MaxWords, \* bound: words on a line
  MaxLines  \* bound: lines of a text

VARIABLES
  texts,  \* the texts being read, the innermost last
  failed  \* an error has abandoned the texts, main() has not reported it yet

vars == <<texts, failed>>

Words(depth, n, k) == [i \in 1 .. k |-> <<depth, n, i>>]

Depth == Len(texts)
Top   == texts[Depth]
Reads(text) == texts' = [texts EXCEPT ![Depth] = text] /\ UNCHANGED failed

Suffixes(s) == {SubSeq(s, i, Len(s)) : i \in 1 .. (Len(s) + 1)}

(* The lines that may come next, and what is left of the one at hand.      *)
Following ==
  {[Top EXCEPT !.rest = Words(Depth, Top.line + 1, k), !.line = @ + 1] : k \in 0 .. MaxWords}
Remaining == {[Top EXCEPT !.rest = rest] : rest \in Suffixes(Top.rest)}

(* A text is opened: from the prompt, or by a word of the innermost one.   *)
Open ==
  /\ ~failed /\ UNCHANGED failed
  /\ \E n \in 0 .. MaxLines :
       texts' = Append(texts, [rest |-> <<>>, line |-> 0, lines |-> n, skips |-> FALSE])

NextLine ==
  /\ texts # <<>> /\ Top.rest = <<>> /\ Top.line < Top.lines
  /\ \E text \in Following : Reads(text)

TakeWord ==
  /\ texts # <<>> /\ Top.rest # <<>>
  /\ \E b \in BOOLEAN : Reads([Top EXCEPT !.rest = Tail(@), !.skips = b])

(* A comment, or REFILL: the rest of the line, or all of it, is passed.    *)
Skip ==
  /\ texts # <<>> /\ Top.skips
  /\ \E text \in Remaining \cup (IF Top.line < Top.lines THEN Following ELSE {}) : Reads(text)

Close ==
  /\ texts # <<>> /\ Top.rest = <<>> /\ Top.line = Top.lines
  /\ texts' = SubSeq(texts, 1, Depth - 1) /\ UNCHANGED failed

Fail == texts # <<>> /\ texts' = <<>> /\ failed' = TRUE

Report == failed /\ failed' = FALSE /\ UNCHANGED texts

Init == texts = <<>> /\ failed = FALSE

Next == Open \/ NextLine \/ TakeWord \/ Skip \/ Close \/ Fail \/ Report

Spec == Init /\ [][Next]_vars

===============================================================================
