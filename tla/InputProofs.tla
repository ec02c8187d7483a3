------------------------------ MODULE InputProofs ------------------------------
(***************************************************************************)
(* Theorems about Input, for lines, texts and nesting of every size.       *)
(***************************************************************************)
EXTENDS Input, SequenceTheorems, WellFoundedInduction, TLAPS

-----------------------------------------------------------------------------
(* What the texts keep to: the rules, no REFILL in a word that waits, no   *)
(* line of 255 characters or more.                                         *)
KeepsRules == Rules = {"last", "named"} /\ "refill" \notin Kinds /\ ~LongLines

Skippers == {"paren", "dotparen", "parse", "backslash", "skiplines"}
Namers   == {"create", "include"}

(* A buffer: a NUL at the end, and a NUL after each blank.                 *)
Buffer(tib) ==
  /\ tib \in [1 .. Size -> Cells] /\ tib[Size] = NUL
  /\ \A i \in 1 .. (Size - 1) : tib[i] = Blank => tib[i + 1] = NUL

Waits(ops) == \A i \in 1 .. Len(ops) : ops[i] = "evaluate"

(* What is still to be run before the line goes on: EVALUATE, and at the   *)
(* end a word that was read, which takes what the line has for it.         *)
Fits(op, cells, may) ==
  /\ op # "refill"
  /\ op \in Namers => cells = <<>> \/ cells[1] # Blank
  /\ op = "open" => cells = <<>> \/ cells[1] \notin Word
  /\ op \in Skippers => may

Pending(ops, goes, cells, may) ==
  /\ \A i \in 1 .. Len(ops) : ops[i] = "evaluate" \/ (i = Len(ops) /\ Fits(ops[i], cells, may))
  /\ goes = "getline" => cells = <<>> /\ Waits(ops)

CallerOk(c) ==
  /\ Pending(c.run, c.resume, c.saved, c.skips) /\ Waits(c.code)
  /\ c.kind = "included" => c.saved = <<>> /\ c.run = <<>> /\ c.resume = "scan"
  /\ ~c.stream.good => c.stream.line = c.stream.lines

ReadingInv ==
  /\ \A i \in 1 .. Len(callers) : CallerOk(callers[i])
  /\ Waits(code)
  /\ phase = "run" => Pending(run, resume, CellsFrom(pTIB), skips)
  /\ phase = "prompt" => callers = <<>> /\ ecode = "ok"
  /\ ecode = "error" => phase = "return"
  /\ phase # "wild"
  /\ ~stream.good => stream.line = stream.lines
  /\ phase = "return" /\ ecode = "ok" => stream.line = stream.lines /\ TIB[1] = NUL
  /\ phase \in {"getline", "return"} /\ ecode = "ok" /\ callers # <<>>
        /\ Last(callers).kind = "included" => TIB[pTIB] \notin Word

-----------------------------------------------------------------------------
(* The lines that are counted and printed.                                 *)

LineAt(i)  == IF i = Depth THEN stream.line ELSE callers[i].stream.line
LinesAt(i) == IF i = Depth THEN stream.lines ELSE callers[i].stream.lines

(* The text at depth d + 1 is no string, and all from it to depth n are.   *)
FileAt(d, n) ==
  /\ d = 0 \/ InFile(callers[d])
  /\ \A i \in (d + 1) .. (n - 1) : ~InFile(callers[i])

Comes(cell, depth, line) == cell \in Word => cell[1] = depth /\ cell[2] = line

CellsOf(cells, depth, line) == \A i \in 1 .. Len(cells) : Comes(cells[i], depth, line)

(* What stands in the buffer from p to the NUL is of that line.            *)
OnLine(tib, p, depth, line) ==
  \A i \in p .. Size : (\A j \in p .. i : tib[j] # NUL) => Comes(tib[i], depth, line)

(* A text that waits was in the middle of a line, and a string has one.    *)
TextsWait ==
  \A i \in 1 .. Len(callers) :
    /\ callers[i].stream.line >= 1
    /\ CellsOf(callers[i].saved, i, callers[i].stream.line)
    /\ ~InFile(callers[i]) => LinesAt(i + 1) >= 1

LineHere ==
  phase \in {"scan", "run"} =>
    /\ stream.line >= 1
    /\ OnLine(TIB, 1, Depth, stream.line)
    /\ OnLine(TIB, pTIB, Depth, stream.line)

(* linecount is the line of the innermost file, and the further lines of   *)
(* its strings; a string in it whose first line has not been read is short *)
(* of one.  Where a file was opened, that is what its caller kept.         *)
CountsKept ==
  \A i \in 1 .. Len(callers) : InFile(callers[i]) =>
    \A d \in 1 .. (i - 1) : FileAt(d, i) =>
      callers[i].count = callers[d + 1].stream.line + callers[i].stream.extra

Counted ==
  ecode = "ok" =>
    \A d \in 1 .. Len(callers) : FileAt(d, Depth) =>
      linecount = LineAt(d + 1) + stream.extra
                    - (IF d < Len(callers) /\ stream.line = 0 THEN 1 ELSE 0)

(* An error on its way to main().                                          *)
OnItsWay ==
  ecode = "error" =>
    /\ failure.depth > 0 => linecount = failure.line + failure.extra
    /\ Len(callers) > failure.depth =>
         /\ \A i \in (failure.depth + 1) .. Len(callers) : ~InFile(callers[i])
         /\ callers[failure.depth + 1].stream.line = failure.line
    /\ ~failure.quoted =>
         /\ \A i \in 1 .. Len(callers) : i <= failure.depth => InFile(callers[i])
         /\ Len(callers) <= failure.depth => OnLine(TIB, 1, failure.depth + 1, failure.line)

LocatedInv == TextsWait /\ LineHere /\ CountsKept /\ Counted /\ OnItsWay

-----------------------------------------------------------------------------
(* A set of numbers has a least one. *)
LEMMA MinExists ==
  ASSUME NEW T, T \subseteq Nat, T # {}
  PROVE  \E x \in T : \A y \in T : x <= y
<1> DEFINE R == {ss \in Nat \X Nat : ss[1] < ss[2]}
<1>1. IsWellFoundedOn(R, Nat)
  BY NatLessThanWellFounded DEF OpToRel
<1>2. PICK x \in T : \A y \in T : ~ (<<y, x>> \in R)
  <2> HIDE DEF R
  <2> QED BY <1>1, WFMin
<1>3. ASSUME NEW y \in T PROVE x <= y
  <2>1. x \in Nat /\ y \in Nat
    OBVIOUS
  <2>2. <<y, x>> \in Nat \X Nat
    BY <2>1
  <2>3. ~ (y < x)
    BY <1>2, <2>2, Z3
  <2> QED BY <2>1, <2>3
<1> QED BY <1>3


-----------------------------------------------------------------------------
(* Cells *)

(* A word, the blank and the NUL are different cells. *)
LEMMA CellKinds == Blank \notin Word /\ NUL \notin Word /\ Blank # NUL
<1>1. Blank[1] = 0 /\ NUL[1] = 0 /\ \A w \in Word : w[1] # 0
  BY InputAssumption DEF Word, Blank, NUL
<1> QED BY <1>1 DEF Blank, NUL

LEMMA SizeNat == Size \in Nat /\ Size >= 3 /\ MaxWords \in Nat \ {0} /\ Size = MaxWords + 2
  BY InputAssumption DEF Size

(* CellsFrom(p), of any buffer. *)
CellsIn(tib, p) ==
  LET stop == CHOOSE i \in p .. Size : tib[i] = NUL /\ \A j \in p .. (i - 1) : tib[j] # NUL
  IN  SubSeq(tib, p, stop - 1)

LEMMA CellsFromIn == \A p : CellsFrom(p) = CellsIn(TIB, p)
  BY DEF CellsFrom, CellsIn

(* The NUL at p + n is the first from p on. *)
Stops(tib, p, n) ==
  /\ p + n \in p .. Size /\ tib[p + n] = NUL
  /\ \A j \in p .. (p + n - 1) : tib[j] # NUL

(* From each place of a buffer there is a first NUL. *)
LEMMA StopExists ==
  ASSUME NEW tib, Buffer(tib), NEW p \in 1 .. Size
  PROVE  \E n \in Nat : Stops(tib, p, n)
<1> DEFINE T == {i \in p .. Size : tib[i] = NUL}
<1>1. T \subseteq Nat /\ T # {}
  BY SizeNat DEF Buffer
<1>2. PICK i \in T : \A j \in T : i <= j
  <2> HIDE DEF T
  <2> QED BY <1>1, MinExists
<1>3. i \in p .. Size /\ tib[i] = NUL /\ \A j \in p .. (i - 1) : tib[j] # NUL
  BY <1>2, SizeNat
<1>4. i - p \in Nat /\ p + (i - p) = i
  BY <1>3, SizeNat
<1> QED BY <1>3, <1>4 DEF Stops

(* The cells before it are the line. *)
LEMMA CellsStop ==
  ASSUME NEW tib, Buffer(tib), NEW p \in 1 .. Size, NEW n \in Nat, Stops(tib, p, n)
  PROVE  CellsIn(tib, p) = [i \in 1 .. n |-> tib[p + i - 1]]
<1> DEFINE stop == CHOOSE i \in p .. Size : tib[i] = NUL /\ \A j \in p .. (i - 1) : tib[j] # NUL
<1>1. stop \in p .. Size /\ tib[stop] = NUL /\ \A j \in p .. (stop - 1) : tib[j] # NUL
  BY DEF Stops
<1>2. stop = p + n
  <2> HIDE DEF stop
  <2>1. CASE stop < p + n
    BY <1>1, <2>1, SizeNat DEF Stops
  <2>2. CASE p + n < stop
    BY <1>1, <2>2, SizeNat DEF Stops
  <2> QED BY <1>1, <2>1, <2>2, SizeNat
<1>3. CellsIn(tib, p) = SubSeq(tib, p, stop - 1)
  BY DEF CellsIn
<1>4. SubSeq(tib, p, p + n - 1) = [i \in 1 .. n |-> tib[p + i - 1]]
  <2>1. (p + n - 1) - p + 1 = n
    BY SizeNat
  <2> QED BY <2>1, SizeNat
<1>5. CellsIn(tib, p) = SubSeq(tib, p, p + n - 1)
  <2> HIDE DEF stop
  <2> QED BY <1>2, <1>3
<1> QED BY <1>4, <1>5, Zenon

(* What the line from p on is. *)
LEMMA CellsProps ==
  ASSUME NEW tib, Buffer(tib), NEW p \in 1 .. Size
  PROVE  /\ CellsIn(tib, p) \in Seq(Cells)
         /\ p + Len(CellsIn(tib, p)) \in p .. Size
         /\ tib[p + Len(CellsIn(tib, p))] = NUL
         /\ \A i \in 1 .. Len(CellsIn(tib, p)) :
              CellsIn(tib, p)[i] = tib[p + i - 1] /\ CellsIn(tib, p)[i] # NUL
         /\ \A j \in p .. (p + Len(CellsIn(tib, p)) - 1) : tib[j] # NUL
<1>1. PICK n \in Nat : Stops(tib, p, n)
  BY StopExists
<1>2. CellsIn(tib, p) = [i \in 1 .. n |-> tib[p + i - 1]]
  BY <1>1, CellsStop
<1>3. \A i \in 1 .. n : p + i - 1 \in 1 .. Size /\ p + i - 1 \in p .. (p + n - 1)
  BY <1>1, SizeNat DEF Stops
<1>4. CellsIn(tib, p) \in Seq(Cells) /\ Len(CellsIn(tib, p)) = n
  <2>1. \A i \in 1 .. n : tib[p + i - 1] \in Cells
    BY <1>3 DEF Buffer
  <2>2. [i \in 1 .. n |-> tib[p + i - 1]] \in Seq(Cells)
    BY <2>1
  <2> QED BY <1>2, <2>2
<1> QED BY <1>1, <1>2, <1>3, <1>4 DEF Stops

(* Where there is a NUL, there is no line. *)
LEMMA CellsNone ==
  ASSUME NEW tib, Buffer(tib), NEW p \in 1 .. Size, tib[p] = NUL
  PROVE  CellsIn(tib, p) = <<>>
<1>1. Stops(tib, p, 0)
  BY SizeNat DEF Stops
<1>2. CellsIn(tib, p) = [i \in 1 .. 0 |-> tib[p + i - 1]]
  BY <1>1, CellsStop
<1> QED BY <1>2

(* Behind another cell the line goes on. *)
LEMMA CellsTail ==
  ASSUME NEW tib, Buffer(tib), NEW p \in 1 .. Size, tib[p] # NUL
  PROVE  /\ p + 1 \in 1 .. Size
         /\ CellsIn(tib, p) # <<>> /\ CellsIn(tib, p)[1] = tib[p]
         /\ CellsIn(tib, p + 1) = Tail(CellsIn(tib, p))
<1>1. PICK n \in Nat : Stops(tib, p, n)
  BY StopExists
<1>2. n >= 1 /\ n - 1 \in Nat /\ p + 1 \in 1 .. Size
  BY <1>1, SizeNat DEF Stops
<1>3. Stops(tib, p + 1, n - 1)
  BY <1>1, <1>2, SizeNat DEF Stops
<1>4. CellsIn(tib, p) = [i \in 1 .. n |-> tib[p + i - 1]]
  BY <1>1, CellsStop
<1>5. CellsIn(tib, p + 1) = [i \in 1 .. (n - 1) |-> tib[(p + 1) + i - 1]]
  BY <1>2, <1>3, CellsStop
<1>6. CellsIn(tib, p) \in Seq(Cells) /\ CellsIn(tib, p + 1) \in Seq(Cells)
  BY <1>2, CellsProps
<1>7. Len(CellsIn(tib, p)) = n /\ Len(CellsIn(tib, p + 1)) = n - 1
  BY <1>2, <1>4, <1>5
<1>8. \A i \in 1 .. (n - 1) : CellsIn(tib, p + 1)[i] = Tail(CellsIn(tib, p))[i]
  <2> TAKE i \in 1 .. (n - 1)
  <2>1. CellsIn(tib, p + 1)[i] = tib[p + i]
    BY <1>5, SizeNat
  <2>2. Tail(CellsIn(tib, p))[i] = CellsIn(tib, p)[i + 1]
    BY <1>6, <1>7, <1>2
  <2>3. CellsIn(tib, p)[i + 1] = tib[p + i]
    BY <1>4, <1>2, SizeNat
  <2> QED BY <2>1, <2>2, <2>3
<1>9. CellsIn(tib, p + 1) = Tail(CellsIn(tib, p))
  <2> HIDE DEF Blank
  <2>1. Tail(CellsIn(tib, p)) \in Seq(Cells) /\ Len(Tail(CellsIn(tib, p))) = n - 1
    BY <1>2, <1>6, <1>7
  <2> QED BY <1>6, <1>7, <1>8, <2>1, SeqEqual
<1>10. CellsIn(tib, p)[1] = tib[p]
  BY <1>2, <1>4
<1> QED BY <1>2, <1>7, <1>9, <1>10

(* From a place within the line on, it is the rest of the line. *)
LEMMA CellsFurther ==
  ASSUME NEW tib, Buffer(tib), NEW p \in 1 .. Size,
         NEW k \in 0 .. Len(CellsIn(tib, p))
  PROVE  /\ p + k \in 1 .. Size
         /\ CellsIn(tib, p + k) = SubSeq(CellsIn(tib, p), k + 1, Len(CellsIn(tib, p)))
<1> DEFINE c == CellsIn(tib, p)
<1> DEFINE n == Len(c) - k
<1>1. c \in Seq(Cells) /\ p + Len(c) \in p .. Size /\ tib[p + Len(c)] = NUL
  BY CellsProps
<1>2. \A i \in 1 .. Len(c) : c[i] = tib[p + i - 1] /\ c[i] # NUL
  BY CellsProps
<1>3. \A j \in p .. (p + Len(c) - 1) : tib[j] # NUL
  BY CellsProps
<1> HIDE DEF c
<1>4. Len(c) \in Nat /\ k \in 0 .. Len(c)
  BY <1>1 DEF c
<1>5. n \in Nat /\ p + k \in 1 .. Size /\ (p + k) + n = p + Len(c)
  BY <1>1, <1>4, SizeNat
<1>6. Stops(tib, p + k, n)
  BY <1>1, <1>3, <1>4, <1>5, SizeNat DEF Stops
<1>7. CellsIn(tib, p + k) = [i \in 1 .. n |-> tib[(p + k) + i - 1]]
  BY <1>5, <1>6, CellsStop
<1>8. \A i \in 1 .. n : tib[(p + k) + i - 1] = c[k + i]
  <2> TAKE i \in 1 .. n
  <2>1. k + i \in 1 .. Len(c) /\ p + (k + i) - 1 = (p + k) + i - 1
    BY <1>4, <1>5, SizeNat
  <2> QED BY <1>2, <2>1
<1>9. CellsIn(tib, p + k) = [i \in 1 .. n |-> c[k + i]]
  BY <1>7, <1>8
<1>10. SubSeq(c, k + 1, Len(c)) = [i \in 1 .. n |-> c[k + i]]
  <2>1. SubSeq(c, k + 1, Len(c)) = [i \in 1 .. (Len(c) - (k + 1) + 1) |-> c[(k + 1) + i - 1]]
    BY <1>1, <1>4
  <2>2. Len(c) - (k + 1) + 1 = n
    BY <1>4
  <2>3. \A i \in 1 .. n : (k + 1) + i - 1 = k + i
    BY <1>4, <1>5
  <2> QED BY <2>1, <2>2, <2>3
<1> QED BY <1>5, <1>9, <1>10 DEF c

-----------------------------------------------------------------------------
(* Words *)

(* A line: a blank only at its end. *)
IsLine(c) ==
  c \in Seq(Cells) /\ \A i \in 1 .. Len(c) : c[i] # NUL /\ (c[i] = Blank => i = Len(c))

LEMMA CellsLine ==
  ASSUME NEW tib, Buffer(tib), NEW p \in 1 .. Size
  PROVE  IsLine(CellsIn(tib, p))
<1> DEFINE c == CellsIn(tib, p)
<1>1. c \in Seq(Cells) /\ p + Len(c) \in p .. Size /\ tib[p + Len(c)] = NUL
  BY CellsProps
<1>2. \A i \in 1 .. Len(c) : c[i] = tib[p + i - 1] /\ c[i] # NUL
  BY CellsProps
<1> HIDE DEF c
<1>3. ASSUME NEW i \in 1 .. Len(c), c[i] = Blank, i # Len(c) PROVE FALSE
  <2>1. i + 1 \in 1 .. Len(c) /\ p + i - 1 \in 1 .. (Size - 1) /\ (p + i - 1) + 1 = p + (i + 1) - 1
    BY <1>1, <1>3, SizeNat
  <2>2. tib[p + i - 1] = Blank
    BY <1>2, <1>3
  <2>3. tib[(p + i - 1) + 1] = NUL
    BY <2>1, <2>2 DEF Buffer
  <2>4. c[i + 1] = NUL
    BY <1>2, <2>1, <2>3
  <2> QED BY <1>2, <2>1, <2>4
<1> QED BY <1>1, <1>2, <1>3 DEF IsLine, c

(* The words of a line are its cells, but for a blank at the end. *)
LEMMA WordsAre ==
  ASSUME NEW c, IsLine(c)
  PROVE  /\ WordsOf(c) \in Seq(Word) /\ Len(WordsOf(c)) \in 0 .. Len(c)
         /\ Len(c) \in {Len(WordsOf(c)), Len(WordsOf(c)) + 1}
         /\ \A i \in 1 .. Len(WordsOf(c)) : WordsOf(c)[i] = c[i]
         /\ \A i \in 1 .. Len(c) : c[i] \in Word <=> i <= Len(WordsOf(c))
<1>1. c \in Seq(Cells) /\ Len(c) \in Nat
  BY DEF IsLine
<1>2. \A i \in 1 .. Len(c) : c[i] \in Word \/ (c[i] = Blank /\ i = Len(c))
  BY <1>1 DEF IsLine, Cells
<1>3. CASE c # <<>> /\ c[Len(c)] = Blank
  <2>1. WordsOf(c) = SubSeq(c, 1, Len(c) - 1)
    BY <1>3 DEF WordsOf, Last, Front
  <2>2. Len(c) >= 1 /\ Len(c) - 1 \in Nat
    BY <1>1, <1>3
  <2> DEFINE front == [i \in 1 .. (Len(c) - 1) |-> c[i]]
  <2>0. SubSeq(c, 1, Len(c) - 1) = front
    BY <1>1, <2>2
  <2>3. Len(SubSeq(c, 1, Len(c) - 1)) = Len(c) - 1
    <3>1. Len(front) = Len(c) - 1
      BY <2>2
    <3> QED BY <2>0, <3>1
  <2>4. \A i \in 1 .. (Len(c) - 1) : SubSeq(c, 1, Len(c) - 1)[i] = c[i]
    BY <1>1, <2>2
  <2>5. \A i \in 1 .. (Len(c) - 1) : c[i] \in Word
    BY <1>1, <1>2, <2>2
  <2>6. SubSeq(c, 1, Len(c) - 1) \in Seq(Word)
    <3> QED BY <2>0, <2>2, <2>5
  <2>7. Blank \notin Word
    BY CellKinds
  <2>8. \A i \in 1 .. Len(c) : c[i] \in Word <=> i <= Len(c) - 1
    BY <1>1, <1>3, <2>2, <2>5, <2>7
  <2> QED BY <2>1, <2>2, <2>3, <2>4, <2>6, <2>8
<1>4. CASE ~ (c # <<>> /\ c[Len(c)] = Blank)
  <2>1. WordsOf(c) = c
    BY <1>4 DEF WordsOf, Last
  <2>2. \A i \in 1 .. Len(c) : c[i] \in Word
    BY <1>1, <1>2, <1>4
  <2>3. c \in Seq(Word)
    BY <1>1, <2>2
  <2> QED BY <1>1, <2>1, <2>2, <2>3
<1> QED BY <1>3, <1>4

(* Equal words at equal places. *)
LEMMA WordsEqual ==
  ASSUME NEW v \in Seq(Word), NEW w \in Seq(Word), Len(v) = Len(w),
         \A i \in 1 .. Len(v) : v[i] = w[i]
  PROVE  v = w
  BY SeqEqual

(* No word is at hand: there is none on the line. *)
LEMMA WordsNone ==
  ASSUME NEW c, IsLine(c), c = <<>> \/ c[1] \notin Word
  PROVE  WordsOf(c) = <<>>
<1>1. WordsOf(c) \in Seq(Word) /\ Len(WordsOf(c)) \in 0 .. Len(c) /\ Len(c) \in Nat
  BY WordsAre DEF IsLine
<1>2. \A i \in 1 .. Len(c) : c[i] \in Word <=> i <= Len(WordsOf(c))
  BY WordsAre
<1>3. Len(WordsOf(c)) = 0
  <2>1. CASE c = <<>>
    BY <1>1, <2>1
  <2>2. CASE c # <<>> /\ c[1] \notin Word
    <3>1. 1 \in 1 .. Len(c)
      BY <2>2 DEF IsLine
    <3> QED BY <1>1, <1>2, <2>2, <3>1
  <2> QED BY <2>1, <2>2
<1> QED BY <1>1, <1>3

(* The rest of a line is a line, and its words the rest of the words. *)
LEMMA WordsFurther ==
  ASSUME NEW c, IsLine(c), NEW k \in 0 .. Len(c)
  PROVE  /\ IsLine(SubSeq(c, k + 1, Len(c)))
         /\ \E j \in 1 .. (Len(WordsOf(c)) + 1) :
              WordsOf(SubSeq(c, k + 1, Len(c))) = SubSeq(WordsOf(c), j, Len(WordsOf(c)))
         /\ k <= Len(WordsOf(c)) =>
              WordsOf(SubSeq(c, k + 1, Len(c))) = SubSeq(WordsOf(c), k + 1, Len(WordsOf(c)))
<1> DEFINE d == SubSeq(c, k + 1, Len(c))
<1> DEFINE w == WordsOf(c)
<1> DEFINE v == WordsOf(d)
<1>1. c \in Seq(Cells) /\ Len(c) \in Nat /\ k \in 0 .. Len(c)
  BY DEF IsLine
<1>2. w \in Seq(Word) /\ Len(w) \in 0 .. Len(c) /\ Len(c) \in {Len(w), Len(w) + 1}
  BY WordsAre
<1>3. \A i \in 1 .. Len(w) : w[i] = c[i]
  BY WordsAre
<1>4. \A i \in 1 .. Len(c) : c[i] \in Word <=> i <= Len(w)
  BY WordsAre
<1>5. d = [i \in 1 .. (Len(c) - k) |-> c[k + i]]
  <2>1. d = [i \in 1 .. (Len(c) - (k + 1) + 1) |-> c[(k + 1) + i - 1]]
    BY <1>1
  <2>2. Len(c) - (k + 1) + 1 = Len(c) - k
    BY <1>1
  <2>3. \A i \in 1 .. (Len(c) - k) : (k + 1) + i - 1 = k + i
    BY <1>1
  <2> HIDE DEF d
  <2> QED BY <2>1, <2>2, <2>3
<1> HIDE DEF d, w
<1>6. d \in Seq(Cells) /\ Len(d) = Len(c) - k
  <2>1. \A i \in 1 .. (Len(c) - k) : c[k + i] \in Cells
    BY <1>1
  <2>2. Len(c) - k \in Nat
    BY <1>1
  <2> QED BY <1>5, <2>1, <2>2
<1>7. IsLine(d)
  <2>1. \A i \in 1 .. Len(d) : d[i] = c[k + i] /\ k + i \in 1 .. Len(c)
    BY <1>1, <1>5, <1>6
  <2>2. \A i \in 1 .. Len(c) : c[i] # NUL /\ (c[i] = Blank => i = Len(c))
    BY DEF IsLine
  <2>3. \A i \in 1 .. Len(d) : k + i = Len(c) => i = Len(d)
    BY <1>1, <1>6
  <2> QED BY <1>6, <2>1, <2>2, <2>3 DEF IsLine
<1>8. v \in Seq(Word) /\ Len(v) \in 0 .. Len(d)
  BY <1>7, WordsAre
<1>9. \A i \in 1 .. Len(v) : v[i] = d[i]
  BY <1>7, WordsAre
<1>10. \A i \in 1 .. Len(d) : d[i] \in Word <=> i <= Len(v)
  BY <1>7, WordsAre
<1> HIDE DEF v
<1>11. CASE k <= Len(w)
  <2>1. SubSeq(w, k + 1, Len(w)) = [i \in 1 .. (Len(w) - k) |-> w[k + i]]
    <3>1. SubSeq(w, k + 1, Len(w)) = [i \in 1 .. (Len(w) - (k + 1) + 1) |-> w[(k + 1) + i - 1]]
      BY <1>1, <1>2, <1>11
    <3>2. Len(w) - (k + 1) + 1 = Len(w) - k
      BY <1>1, <1>2
    <3>3. \A i \in 1 .. (Len(w) - k) : (k + 1) + i - 1 = k + i
      BY <1>1, <1>2
    <3> QED BY <3>1, <3>2, <3>3
  <2>2. Len(w) - k \in Nat /\ \A i \in 1 .. (Len(w) - k) : k + i \in 1 .. Len(w)
    BY <1>1, <1>2, <1>11
  <2>3. SubSeq(w, k + 1, Len(w)) \in Seq(Word) /\ Len(SubSeq(w, k + 1, Len(w))) = Len(w) - k
    <3> DEFINE f == [i \in 1 .. (Len(w) - k) |-> w[k + i]]
    <3>1. \A i \in 1 .. (Len(w) - k) : w[k + i] \in Word
      BY <1>2, <2>2
    <3>2. f \in Seq(Word)
      BY <2>2, <3>1
    <3>3. Len(f) = Len(w) - k
      BY <2>2
    <3> HIDE DEF f
    <3>4. SubSeq(w, k + 1, Len(w)) = f
      BY <2>1 DEF f
    <3> QED BY <3>2, <3>3, <3>4
  <2>4. \A i \in 1 .. Len(d) : d[i] \in Word <=> i <= Len(w) - k
    <3> TAKE i \in 1 .. Len(d)
    <3>1. d[i] = c[k + i] /\ k + i \in 1 .. Len(c)
      BY <1>1, <1>5, <1>6
    <3> QED BY <1>1, <1>2, <1>4, <3>1
  <2>5. Len(v) = Len(w) - k
    <3>1. Len(v) \in Nat /\ Len(d) \in Nat /\ Len(w) - k \in 0 .. Len(d)
      BY <1>1, <1>2, <1>6, <1>8, <2>2
    <3>2. CASE Len(v) < Len(w) - k
      <4>1. Len(v) + 1 \in 1 .. Len(d) /\ Len(v) + 1 <= Len(w) - k
        BY <3>1, <3>2
      <4> QED BY <1>10, <2>4, <3>1, <4>1
    <3>3. CASE Len(w) - k < Len(v)
      <4>1. Len(v) \in 1 .. Len(d) /\ ~ (Len(v) <= Len(w) - k)
        BY <1>8, <3>1, <3>3
      <4> QED BY <1>10, <2>4, <3>1, <4>1
    <3> QED BY <3>1, <3>2, <3>3
  <2>6. \A i \in 1 .. Len(v) : v[i] = SubSeq(w, k + 1, Len(w))[i]
    <3> TAKE i \in 1 .. Len(v)
    <3>1. i \in 1 .. Len(d) /\ k + i \in 1 .. Len(w) /\ i \in 1 .. (Len(w) - k)
      BY <1>6, <1>8, <2>2, <2>5
    <3>2. v[i] = c[k + i]
      BY <1>5, <1>6, <1>9, <3>1
    <3> QED BY <1>3, <2>1, <3>1, <3>2
  <2>7. v = SubSeq(w, k + 1, Len(w))
    BY <1>8, <2>3, <2>5, <2>6, WordsEqual
  <2>8. k + 1 \in 1 .. (Len(w) + 1)
    BY <1>1, <1>2, <1>11
  <2> QED BY <1>7, <2>7, <2>8 DEF d, v, w
<1>12. CASE ~ (k <= Len(w))
  <2>1. k = Len(c)
    BY <1>1, <1>2, <1>12
  <2>2. v = <<>>
    BY <1>1, <1>6, <1>8, <2>1
  <2>3. SubSeq(w, Len(w) + 1, Len(w)) = <<>>
    BY <1>2
  <2>4. Len(w) + 1 \in 1 .. (Len(w) + 1)
    BY <1>2
  <2> QED BY <1>7, <1>12, <2>2, <2>3, <2>4 DEF d, v, w
<1> QED BY <1>11, <1>12

(* A word at hand is the first of those of the line. *)
LEMMA WordsTail ==
  ASSUME NEW c, IsLine(c), c # <<>>, c[1] \in Word
  PROVE  WordsOf(c) # <<>> /\ WordsOf(Tail(c)) = Tail(WordsOf(c))
<1>1. c \in Seq(Cells) /\ Len(c) \in Nat /\ 1 \in 0 .. Len(c) /\ 1 \in 1 .. Len(c)
  BY DEF IsLine
<1>2. WordsOf(c) \in Seq(Word) /\ 1 <= Len(WordsOf(c))
  BY <1>1, WordsAre
<1>3. WordsOf(SubSeq(c, 1 + 1, Len(c))) = SubSeq(WordsOf(c), 1 + 1, Len(WordsOf(c)))
  BY <1>1, <1>2, WordsFurther
<1>4. Tail(c) = SubSeq(c, 2, Len(c))
  BY <1>1, TailIsSubSeq
<1>5. WordsOf(c) # <<>>
  BY <1>2
<1>6. Tail(WordsOf(c)) = SubSeq(WordsOf(c), 2, Len(WordsOf(c)))
  BY <1>2, <1>5, TailIsSubSeq
<1>7. 1 + 1 = 2
  OBVIOUS
<1>8. WordsOf(SubSeq(c, 2, Len(c))) = SubSeq(WordsOf(c), 2, Len(WordsOf(c)))
  BY ONLY <1>3, <1>7
<1> QED BY ONLY <1>4, <1>5, <1>6, <1>8

(* A blank at hand ends the line. *)
LEMMA BlankEnds ==
  ASSUME NEW c, IsLine(c), c # <<>>, c[1] = Blank
  PROVE  Tail(c) = <<>> /\ WordsOf(c) = <<>>
<1>0. c \in Seq(Cells) /\ Len(c) \in Nat /\ 1 \in 1 .. Len(c)
  BY DEF IsLine
<1>1. Len(c) = 1
  BY <1>0 DEF IsLine
<1>2. Tail(c) = <<>>
  <2>1. Tail(c) = SubSeq(c, 2, Len(c))
    BY <1>0, TailIsSubSeq
  <2> QED BY <1>0, <1>1, <2>1
<1>3. WordsOf(c) = <<>>
  BY CellKinds, WordsNone
<1> QED BY <1>2, <1>3

(* What GetsLine puts into TIB is a line, and has its words. *)
LEMMA LinesLine ==
  ASSUME Depth \in 1 .. MaxDepth, NEW n \in 1 .. MaxLines, NEW cells \in Lines(n)
  PROVE  /\ IsLine(cells) /\ Len(cells) < Size
         /\ \E k \in 0 .. MaxWords : WordsOf(cells) = Line(n, k)
         /\ CellsOf(cells, Depth, n)
<1>1. PICK k \in 0 .. MaxWords : cells = Line(n, k) \/ cells = Append(Line(n, k), Blank)
  BY InputAssumption DEF Lines
<1>2. Line(n, k) = [i \in 1 .. k |-> <<Depth, n, i>>] /\ k \in Nat
  BY SizeNat DEF Line
<1>3. \A i \in 1 .. k : <<Depth, n, i>> \in Word
  BY SizeNat DEF Word
<1>4. Line(n, k) \in Seq(Word) /\ Len(Line(n, k)) = k
  <2> DEFINE f == [i \in 1 .. k |-> <<Depth, n, i>>]
  <2>1. f \in Seq(Word)
    BY <1>2, <1>3
  <2>2. Len(f) = k
    BY <1>2
  <2> HIDE DEF f
  <2>3. Line(n, k) = f
    BY <1>2 DEF f
  <2> QED BY <2>1, <2>2, <2>3
<1>5. \A i \in 1 .. k : Line(n, k)[i] \in Word /\ Line(n, k)[i][1] = Depth /\ Line(n, k)[i][2] = n
  BY <1>2, <1>3
<1>6. CASE cells = Line(n, k)
  <2>1. cells \in Seq(Cells) /\ Len(cells) = k
    BY <1>2, <1>4, <1>5, <1>6 DEF Cells
  <2>2. IsLine(cells)
    BY <1>5, <1>6, <2>1, CellKinds DEF IsLine
  <2>3. cells # <<>> => cells[Len(cells)] # Blank
    BY <1>2, <1>5, <1>6, <2>1, CellKinds
  <2>4. WordsOf(cells) = Line(n, k)
    BY <1>6, <2>3 DEF WordsOf, Last
  <2>5. CellsOf(cells, Depth, n)
    BY <1>5, <1>6, <2>1 DEF CellsOf, Comes
  <2>6. Len(cells) < Size
    BY <1>2, <2>1, SizeNat
  <2> QED BY <2>2, <2>4, <2>5, <2>6
<1>7. CASE cells = Append(Line(n, k), Blank)
  <2>0. Line(n, k) \in Seq(Cells) /\ Blank \in Cells
    BY <1>2, <1>4, <1>5 DEF Cells
  <2>1. cells \in Seq(Cells) /\ Len(cells) = k + 1
    BY <1>4, <1>7, <2>0
  <2>2. cells[k + 1] = Blank /\ \A i \in 1 .. k : cells[i] = Line(n, k)[i]
    BY <1>2, <1>4, <1>7, <2>0
  <2>3. \A i \in 1 .. Len(cells) : i = Len(cells) \/ i \in 1 .. k
    BY <1>2, <2>1
  <2>4. IsLine(cells)
    <3>1. \A i \in 1 .. k : cells[i] # NUL /\ cells[i] # Blank
      BY <1>5, <2>2, CellKinds
    <3>2. cells[Len(cells)] # NUL
      BY <2>1, <2>2, CellKinds
    <3> QED BY <2>1, <2>3, <3>1, <3>2 DEF IsLine
  <2>5. WordsOf(cells) = SubSeq(cells, 1, k)
    <3>1. cells # <<>> /\ cells[Len(cells)] = Blank /\ Len(cells) - 1 = k
      BY <1>2, <2>1, <2>2
    <3> QED BY <3>1 DEF WordsOf, Last, Front
  <2>6. SubSeq(cells, 1, k) = Line(n, k)
    BY <1>2, <1>4, <1>7, <2>0
  <2>7. CellsOf(cells, Depth, n)
    BY <1>5, <2>2, <2>1, <2>3, CellKinds DEF CellsOf, Comes
  <2>8. Len(cells) < Size
    BY <1>2, <2>1, SizeNat
  <2>9. WordsOf(cells) = Line(n, k)
    BY <2>5, <2>6
  <2> QED BY <2>4, <2>7, <2>8, <2>9
<1> QED BY <1>1, <1>6, <1>7

(* A line that is written into TIB is there. *)
LEMMA WrittenIs ==
  ASSUME Buffer(TIB), NEW c, IsLine(c), Len(c) < Size
  PROVE  /\ Buffer(Written(c)) /\ CellsIn(Written(c), 1) = c
         /\ (c = <<>> => Written(c)[1] = NUL)
<1> DEFINE t == Written(c)
<1> DEFINE n == Len(c)
<1>1. c \in Seq(Cells) /\ n \in Nat /\ n < Size /\ Size \in Nat
  BY SizeNat DEF IsLine
<1>2. t = [i \in 1 .. Size |-> IF i <= n THEN c[i] ELSE IF i = n + 1 THEN NUL ELSE TIB[i]]
  BY DEF Written
<1> HIDE DEF t
<1>3. /\ \A i \in 1 .. n : i \in 1 .. Size /\ t[i] = c[i]
      /\ n + 1 \in 1 .. Size /\ t[n + 1] = NUL
      /\ \A i \in (n + 2) .. Size : t[i] = TIB[i]
  BY <1>1, <1>2
<1>4. t \in [1 .. Size -> Cells]
  <2>1. \A i \in 1 .. Size : (IF i <= n THEN c[i] ELSE IF i = n + 1 THEN NUL ELSE TIB[i]) \in Cells
    BY <1>1 DEF Buffer, Cells
  <2> QED BY <1>2, <2>1
<1>5. t[Size] = NUL
  <2>1. Size = n + 1 \/ Size \in (n + 2) .. Size
    BY <1>1
  <2> QED BY <1>3, <2>1 DEF Buffer
<1>6. ASSUME NEW i \in 1 .. (Size - 1), t[i] = Blank PROVE t[i + 1] = NUL
  <2>1. CASE i \in 1 .. n
    <3>1. i = n
      BY <1>3, <1>6, <2>1 DEF IsLine
    <3> QED BY <1>3, <3>1
  <2>2. CASE i = n + 1
    BY <1>3, <1>6, <2>2, CellKinds
  <2>3. CASE i \in (n + 2) .. Size
    <3>1. i + 1 \in (n + 2) .. Size
      BY <1>1, <2>3
    <3> QED BY <1>3, <1>6, <2>3, <3>1 DEF Buffer
  <2> QED BY <1>1, <2>1, <2>2, <2>3
<1>7. Buffer(t)
  BY <1>4, <1>5, <1>6 DEF Buffer
<1>8. CellsIn(t, 1) = c
  <2>1. Stops(t, 1, n)
    <3>1. 1 + n \in 1 .. Size /\ t[1 + n] = NUL
      BY <1>1, <1>3
    <3>2. \A j \in 1 .. (1 + n - 1) : t[j] # NUL
      BY <1>1, <1>3 DEF IsLine
    <3> QED BY <3>1, <3>2 DEF Stops
  <2>2. CellsIn(t, 1) = [i \in 1 .. n |-> t[1 + i - 1]]
    BY <1>1, <1>7, <2>1, CellsStop
  <2>3. \A i \in 1 .. n : t[1 + i - 1] = c[i]
    BY <1>1, <1>3
  <2>4. c = [i \in 1 .. n |-> c[i]]
    BY <1>1
  <2> QED BY <2>2, <2>3, <2>4
<1>9. c = <<>> => t[1] = NUL
  BY <1>3
<1> QED BY <1>7, <1>8, <1>9 DEF t

-----------------------------------------------------------------------------
(* Where an error is *)

(* A set of numbers up to n has a greatest one. *)
LEMMA MaxExists ==
  ASSUME NEW n \in Nat, NEW T, T \subseteq 1 .. n, T # {}
  PROVE  \E x \in T : \A y \in T : y <= x
<1> DEFINE R == {n - x : x \in T}
<1>1. R \subseteq Nat /\ R # {}
  <2>1. \A x \in T : n - x \in Nat
    OBVIOUS
  <2>2. PICK x \in T : TRUE
    OBVIOUS
  <2>3. n - x \in R
    OBVIOUS
  <2> QED BY <2>1, <2>3
<1>2. PICK r \in R : \A q \in R : r <= q
  <2> HIDE DEF R
  <2> QED BY <1>1, MinExists
<1>3. PICK x \in T : r = n - x
  BY <1>2
<1>4. ASSUME NEW y \in T PROVE y <= x
  <2>1. n - y \in R
    OBVIOUS
  <2>2. r <= n - y /\ x \in Nat /\ y \in Nat
    BY <1>2, <2>1
  <2> QED BY <1>3, <2>2
<1> QED BY <1>4

(* FailedAt is the innermost text that is no string, and its line. *)
LEMMA FailedAtIs ==
  ASSUME TypeOK
  PROVE  /\ FailedAt.depth \in 0 .. Len(callers) /\ FileAt(FailedAt.depth, Depth)
         /\ FailedAt.line = LineAt(FailedAt.depth + 1) /\ FailedAt.extra = stream.extra
         /\ FailedAt.quoted <=> \E i \in 1 .. FailedAt.depth : ~InFile(callers[i])
         /\ FailedAt \in Failures
<1> DEFINE files == {i \in 1 .. Len(callers) : InFile(callers[i])}
<1> DEFINE depth == IF files = {} THEN 0 ELSE CHOOSE i \in files : \A j \in files : j <= i
<1> DEFINE line == IF depth = Len(callers) THEN stream.line ELSE callers[depth + 1].stream.line
<1> DEFINE quoted == \E i \in 1 .. depth : callers[i].kind = "evaluate"
<1>1. Len(callers) \in Nat /\ Len(callers) < MaxDepth /\ MaxDepth \in Nat
  BY InputAssumption DEF TypeOK
<1>2. FailedAt = [depth |-> depth, line |-> line, extra |-> stream.extra, quoted |-> quoted]
  BY DEF FailedAt
<1>3. depth \in 0 .. Len(callers) /\ (depth = 0 \/ InFile(callers[depth]))
      /\ \A j \in files : j <= depth
  <2>1. CASE files = {}
    BY <1>1, <2>1
  <2>2. CASE files # {}
    <3>1. files \subseteq 1 .. Len(callers)
      OBVIOUS
    <3>2. \E i \in files : \A j \in files : j <= i
      <4> HIDE DEF files
      <4> QED BY <1>1, <2>2, <3>1, MaxExists
    <3>3. depth \in files /\ \A j \in files : j <= depth
      <4> HIDE DEF files
      <4> QED BY <2>2, <3>2
    <3> HIDE DEF depth
    <3> QED BY <3>3
  <2> QED BY <2>1, <2>2
<1> HIDE DEF depth
<1>4. \A i \in (depth + 1) .. Len(callers) : ~InFile(callers[i])
  <2> TAKE i \in (depth + 1) .. Len(callers)
  <2>1. i \in 1 .. Len(callers) /\ ~ (i <= depth)
    BY <1>1, <1>3
  <2> QED BY <1>3, <2>1
<1>5. FileAt(depth, Depth)
  <2>1. Depth - 1 = Len(callers)
    BY <1>1 DEF Depth
  <2> QED BY <1>3, <1>4, <2>1 DEF FileAt
<1>6. line = LineAt(depth + 1) /\ line \in 0 .. MaxLines
  <2>1. depth = Len(callers) <=> depth + 1 = Depth
    BY <1>1, <1>3 DEF Depth
  <2>2. line = LineAt(depth + 1)
    BY <2>1 DEF LineAt
  <2>3. CASE depth = Len(callers)
    <3>1. stream.line \in 0 .. MaxLines
      BY DEF TypeOK, Streams
    <3> QED BY <2>2, <2>3, <3>1
  <2>4. CASE depth # Len(callers)
    <3>1. depth + 1 \in 1 .. Len(callers)
      BY <1>1, <1>3, <2>4
    <3>2. callers[depth + 1] \in Frames
      BY <3>1 DEF TypeOK
    <3>3. callers[depth + 1].stream.line \in 0 .. MaxLines
      BY <3>2 DEF Frames, Streams
    <3> QED BY <2>2, <2>4, <3>3
  <2> QED BY <2>3, <2>4
<1>7. quoted <=> \E i \in 1 .. depth : ~InFile(callers[i])
  BY DEF InFile
<1> HIDE DEF line, quoted
<1>8. FailedAt.depth = depth /\ FailedAt.line = line /\ FailedAt.quoted = quoted
      /\ FailedAt.extra = stream.extra
  BY <1>2
<1>9. quoted \in BOOLEAN
  BY DEF quoted
<1>10. FailedAt \in Failures
  <2>1. stream.extra \in Nat
    BY DEF TypeOK, Streams
  <2> QED BY <1>1, <1>2, <1>3, <1>6, <1>9, <2>1 DEF Failures
<1> QED BY <1>3, <1>5, <1>6, <1>7, <1>8, <1>10

-----------------------------------------------------------------------------
(* Types *)

(* All callers but the last. *)
LEMMA FrontIs ==
  ASSUME NEW S, NEW s \in Seq(S), s # <<>>
  PROVE  /\ Len(s) \in Nat /\ Len(s) >= 1 /\ Last(s) = s[Len(s)] /\ Last(s) \in S
         /\ Front(s) \in Seq(S) /\ Len(Front(s)) = Len(s) - 1
         /\ \A i \in 1 .. (Len(s) - 1) : Front(s)[i] = s[i]
<1> DEFINE n == Len(s) - 1
<1>1. Len(s) \in Nat /\ Len(s) >= 1 /\ n \in Nat
  OBVIOUS
<1> DEFINE f == [i \in 1 .. n |-> s[i]]
<1>2. Front(s) = f
  BY <1>1 DEF Front
<1>3. f \in Seq(S)
  <2>1. \A i \in 1 .. n : s[i] \in S
    BY <1>1
  <2> QED BY <1>1, <2>1
<1>4. Len(f) = n
  BY <1>1
<1>5. \A i \in 1 .. n : f[i] = s[i]
  OBVIOUS
<1> HIDE DEF f
<1>6. Last(s) = s[Len(s)] /\ Last(s) \in S
  BY <1>1 DEF Last
<1> QED BY <1>1, <1>2, <1>3, <1>4, <1>5, <1>6

(* What a caller saved is a line of the buffer. *)
IsSaved(cells) == IsLine(cells) /\ Len(cells) < Size

TypeInv ==
  /\ TypeOK /\ Buffer(TIB)
  /\ \A i \in 1 .. Len(callers) :
       IsSaved(callers[i].saved) /\ callers[i].stream.line <= callers[i].stream.lines

LEMMA TypeInit == Init => TypeInv
<1>1. SUFFICES ASSUME Init PROVE TypeInv
  OBVIOUS
<1>2. 1 \in 1 .. Size /\ Size \in 1 .. Size
  BY SizeNat
<1>3. Buffer(TIB)
  BY <1>1, <1>2, CellKinds, SizeNat DEF Init, Buffer, Cells
<1>9. \A i \in 1 .. Len(callers) :
        IsSaved(callers[i].saved) /\ callers[i].stream.line <= callers[i].stream.lines
  BY <1>1 DEF Init
<1>4. stream \in Streams /\ stream.line <= stream.lines
  BY <1>1, SizeNat, InputAssumption DEF Init, Streams
<1>5. callers \in Seq(Frames) /\ Len(callers) < MaxDepth
  BY <1>1, InputAssumption DEF Init
<1>6. failure \in Failures
  BY <1>1, InputAssumption DEF Init, NoFailure, Failures
<1>7. TIB \in [1 .. Size -> Cells] /\ pTIB \in 1 .. Size
  BY <1>1, <1>2, <1>3 DEF Init, Buffer
<1>8. /\ linecount \in Int /\ code \in Seq(Ops) /\ run \in Seq(Ops)
      /\ resume \in {"getline", "scan"} /\ phase \in Phases /\ ecode \in {"ok", "error"}
      /\ skips \in BOOLEAN
  <2>1. <<>> \in Seq(Ops) /\ 0 \in Int
    OBVIOUS
  <2>2. "prompt" \in Phases
    BY DEF Phases
  <2> QED BY <1>1, <2>1, <2>2 DEF Init
<1> QED BY <1>3, <1>4, <1>5, <1>6, <1>7, <1>8, <1>9 DEF TypeInv, TypeOK

(* The stream a line further, and the caller's with the lines counted.     *)
LEMMA StreamRead ==
  ASSUME NEW s \in Streams, NEW e \in Nat
  PROVE  LET t == [s EXCEPT !.line = @ + 1, !.extra = e]
         IN  /\ t.line = s.line + 1 /\ t.lines = s.lines /\ t.good = s.good /\ t.extra = e
             /\ s.line < s.lines => t \in Streams
<1> DEFINE t == [s EXCEPT !.line = @ + 1, !.extra = e]
<1>1. t = [lines |-> s.lines, line |-> s.line + 1, good |-> s.good, extra |-> e]
  <2> DEFINE r == [lines |-> s.lines, line |-> s.line, good |-> s.good, extra |-> s.extra]
             u == [s EXCEPT !.line = @ + 1]
             v == [lines |-> s.lines, line |-> s.line + 1, good |-> s.good, extra |-> s.extra]
  <2>1. u = v
    BY DEF Streams
  <2>2. t = [u EXCEPT !.extra = e]
    BY Zenon
  <2> HIDE DEF t, u
  <2>3. t = [v EXCEPT !.extra = e]
    BY <2>1, <2>2
  <2> QED BY <2>3
<1>2. s.lines \in 0 .. MaxLines /\ s.line \in 0 .. MaxLines /\ s.good \in BOOLEAN
  BY DEF Streams
<1> HIDE DEF t
<1>3. t.line = s.line + 1 /\ t.lines = s.lines /\ t.good = s.good /\ t.extra = e
  BY <1>1
<1>4. ASSUME s.line < s.lines PROVE t \in Streams
  <2>1. s.line + 1 \in 0 .. MaxLines
    BY <1>2, <1>4, InputAssumption
  <2> QED BY <1>1, <1>2, <2>1 DEF Streams
<1> QED BY <1>3, <1>4 DEF t

LEMMA StreamBack ==
  ASSUME NEW s \in Streams, NEW e \in Nat
  PROVE  LET t == [s EXCEPT !.extra = e]
         IN  /\ t.line = s.line /\ t.lines = s.lines /\ t.good = s.good /\ t.extra = e
             /\ t \in Streams
<1> DEFINE t == [s EXCEPT !.extra = e]
<1>1. t = [lines |-> s.lines, line |-> s.line, good |-> s.good, extra |-> e]
  BY DEF Streams
<1>2. s.lines \in 0 .. MaxLines /\ s.line \in 0 .. MaxLines /\ s.good \in BOOLEAN
  BY DEF Streams
<1> HIDE DEF t
<1>3. t.line = s.line /\ t.lines = s.lines /\ t.good = s.good /\ t.extra = e
  BY <1>1
<1>4. t \in Streams
  BY <1>1, <1>2 DEF Streams
<1> QED BY <1>3, <1>4 DEF t

(* getline() leaves a buffer, whatever it gets. *)
LEMMA GetsLineType ==
  ASSUME TypeInv, GetsLine
  PROVE  /\ Buffer(TIB') /\ stream' \in Streams /\ stream'.line <= stream'.lines
         /\ stream'.line = stream.line + 1 /\ stream'.lines = stream.lines
         /\ stream'.good = stream.good
         /\ stream.line + 1 \in 1 .. MaxLines /\ stream.line + 1 <= stream.lines
         /\ \E cells \in Lines(stream.line + 1) :
              TIB' = Written(cells) /\ IsLine(cells) /\ Len(cells) < Size
<1>1. PICK cells \in Lines(stream.line + 1) : TIB' = Written(cells)
  BY DEF GetsLine
<1>2. stream.line + 1 \in 1 .. MaxLines /\ stream.line + 1 <= stream.lines /\ stream \in Streams
  BY InputAssumption DEF GetsLine, TypeInv, TypeOK, Streams
<1>3. Depth \in 1 .. MaxDepth
  BY InputAssumption DEF Depth, TypeInv, TypeOK
<1>4. IsLine(cells) /\ Len(cells) < Size
  BY <1>2, <1>3, LinesLine
<1>5. Buffer(TIB')
  BY <1>1, <1>4, WrittenIs DEF TypeInv
<1>6. PICK e \in Nat : stream' = [stream EXCEPT !.line = @ + 1, !.extra = e]
  <2>1. stream.extra \in Nat
    BY <1>2 DEF Streams
  <2>2. (IF ExtraLine THEN stream.extra + 1 ELSE stream.extra) \in Nat
    BY <2>1
  <2> QED BY <2>2 DEF GetsLine
<1>7. stream.line < stream.lines
  BY DEF GetsLine
<1>8. /\ stream' \in Streams /\ stream'.line = stream.line + 1 /\ stream'.lines = stream.lines
      /\ stream'.good = stream.good
  BY <1>2, <1>6, <1>7, StreamRead
<1>9. stream'.line <= stream'.lines
  BY <1>2, <1>8
<1> QED BY <1>1, <1>2, <1>4, <1>5, <1>8, <1>9

(* Nothing in TIB is a line, and so are the words of a line too long. *)
LEMMA EmptyLine == IsLine(<<>>) /\ Len(<<>>) < Size
<1>1. <<>> \in Seq(Cells) /\ Len(<<>>) = 0
  OBVIOUS
<1> QED BY <1>1, SizeNat DEF IsLine

LEMMA GetlineFailsType ==
  ASSUME TypeInv, GetlineFails
  PROVE  /\ Buffer(TIB') /\ stream' \in Streams /\ stream'.line <= stream'.lines
         /\ stream' = [stream EXCEPT !.good = FALSE]
         /\ ~LongLines => /\ TIB' = Written(<<>>)
                          /\ ~stream.good \/ stream.line = stream.lines
<1>1. stream' = [stream EXCEPT !.good = FALSE] /\ stream \in Streams
  BY DEF GetlineFails, TypeInv, TypeOK
<1>2. stream' \in Streams /\ stream'.line <= stream'.lines
  BY <1>1 DEF TypeInv, TypeOK, Streams
<1>3. CASE TIB' = Written(<<>>)
  <2>1. Buffer(Written(<<>>))
    BY EmptyLine, WrittenIs DEF TypeInv
  <2>2. ~LongLines => ~stream.good \/ stream.line = stream.lines
    BY DEF GetlineFails
  <2>3. Buffer(TIB')
    BY ONLY <1>3, <2>1
  <2> QED BY <1>1, <1>2, <1>3, <2>2, <2>3
<1>4. CASE /\ LongLines /\ stream.good /\ stream.line < stream.lines
           /\ TIB' = Written(Line(stream.line + 1, Size - 1))
  <2> DEFINE cells == Line(stream.line + 1, Size - 1)
  <2>1. stream.line + 1 \in 1 .. MaxLines /\ Depth \in 1 .. MaxDepth
    BY <1>1, <1>4, InputAssumption DEF Depth, TypeInv, TypeOK, Streams
  <2>2. cells = [i \in 1 .. (Size - 1) |-> <<Depth, stream.line + 1, i>>]
    BY DEF Line
  <2>3. \A i \in 1 .. (Size - 1) : <<Depth, stream.line + 1, i>> \in Word
    BY <2>1 DEF Word
  <2>4. \A i \in 1 .. (Size - 1) : cells[i] \in Word
    BY <2>2, <2>3
  <2>5. cells \in Seq(Cells) /\ Len(cells) = Size - 1
    <3> DEFINE f == [i \in 1 .. (Size - 1) |-> <<Depth, stream.line + 1, i>>]
    <3>1. f \in Seq(Cells)
      BY <2>3, SizeNat DEF Cells
    <3>2. Len(f) = Size - 1
      BY SizeNat
    <3> HIDE DEF f, cells
    <3> QED BY <2>2, <3>1, <3>2 DEF f
  <2> HIDE DEF cells
  <2>6. IsLine(cells)
    BY <2>4, <2>5, CellKinds, SizeNat DEF IsLine
  <2>7. Len(cells) < Size
    BY <2>5, SizeNat
  <2>8. Buffer(TIB')
    BY <1>4, <2>6, <2>7, WrittenIs DEF TypeInv, cells
  <2> QED BY <1>1, <1>2, <1>4, <2>8
<1> QED BY <1>1, <1>2, <1>3, <1>4 DEF GetlineFails

(* ExtractName() stops before the end of the buffer. *)
LEMMA ExtractNameType ==
  ASSUME TypeInv, NEW i \in ExtractName
  PROVE  i \in 1 .. Size /\ i + 1 \in 1 .. Size /\ TIB[i] \in Word /\ i >= pTIB
         /\ TIB[pTIB] # NUL /\ \A j \in pTIB .. (i - 1) : TIB[j] \notin Word
<1>1. TIB[pTIB] # NUL /\ i \in NamesFrom(pTIB)
  BY DEF ExtractName
<1>2. pTIB \in 1 .. Size /\ TIB[Size] = NUL
  BY DEF TypeInv, TypeOK, Buffer
<1>3. i \in pTIB .. Size /\ TIB[i] \in Word /\ \A j \in pTIB .. (i - 1) : TIB[j] \notin Word
  BY <1>1 DEF NamesFrom
<1>4. i # Size
  BY <1>2, <1>3, CellKinds
<1> QED BY <1>1, <1>2, <1>3, <1>4, SizeNat

(* One cell on. *)
LEMMA NextCell ==
  ASSUME TypeInv, TIB[pTIB] # NUL PROVE pTIB + 1 \in 1 .. Size
  BY CellsTail DEF TypeInv, TypeOK

LEMMA FailsType ==
  ASSUME TypeInv, Fails
  PROVE  /\ ecode' \in {"ok", "error"} /\ phase' \in Phases
         /\ failure' \in Failures
<1>1. FailedAt \in Failures
  BY FailedAtIs DEF TypeInv
<1> QED BY <1>1 DEF Fails, Phases

LEMMA DoneType ==
  ASSUME TypeInv, Done, run # <<>>
  PROVE  /\ run' \in Seq(Ops) /\ phase' \in Phases /\ ecode' \in {"ok", "error"}
         /\ failure' \in Failures
  BY DEF TypeInv, TypeOK, Done, NoError

LEMMA OpensType ==
  ASSUME TypeInv, NEW kind \in {"evaluate", "included", "include"}, NEW count \in Int,
         Opens(kind, Saved(kind), count), run # <<>>
  PROVE  TypeInv'
<1>1. Saved(kind) \in Seq(Cells) /\ IsSaved(Saved(kind))
  <2>0. pTIB \in 1 .. Size /\ Buffer(TIB)
    BY DEF TypeInv, TypeOK
  <2>1. CellsFrom(pTIB) \in Seq(Cells) /\ IsLine(CellsFrom(pTIB))
    BY <2>0, CellsFromIn, CellsProps, CellsLine
  <2>2. pTIB + Len(CellsFrom(pTIB)) \in pTIB .. Size
    BY <2>0, CellsFromIn, CellsProps
  <2>3. Len(CellsFrom(pTIB)) < Size
    BY <2>0, <2>1, <2>2, SizeNat
  <2> QED BY <2>1, <2>3, EmptyLine DEF Saved, IsSaved
<1> DEFINE f == [kind |-> kind, stream |-> stream, saved |-> Saved(kind), count |-> linecount,
                 code |-> code, run |-> Tail(run), resume |-> resume, skips |-> skips]
<1>2. f \in Frames
  <2>1. Tail(run) \in Seq(Ops)
    BY DEF TypeInv, TypeOK
  <2> QED BY <1>1, <2>1 DEF TypeInv, TypeOK, Frames
<1>3. callers' = Append(callers, f) /\ Depth < MaxDepth
  BY DEF Opens
<1> HIDE DEF f
<1>4. callers' \in Seq(Frames) /\ Len(callers') < MaxDepth
  BY <1>2, <1>3 DEF TypeInv, TypeOK, Depth
<1>8. \A i \in 1 .. Len(callers') : IsSaved(callers'[i].saved)
         /\ callers'[i].stream.line <= callers'[i].stream.lines
  <2>1. f.saved = Saved(kind) /\ f.stream = stream /\ stream.line <= stream.lines
    BY DEF f, TypeInv, TypeOK
  <2>2. Len(callers') = Len(callers) + 1 /\ callers'[Len(callers) + 1] = f
        /\ \A i \in 1 .. Len(callers) : callers'[i] = callers[i]
    BY <1>2, <1>3 DEF TypeInv, TypeOK
  <2>3. ASSUME NEW i \in 1 .. Len(callers')
        PROVE  IsSaved(callers'[i].saved) /\ callers'[i].stream.line <= callers'[i].stream.lines
    <3>1. i = Len(callers) + 1 \/ i \in 1 .. Len(callers)
      BY <2>2 DEF TypeInv, TypeOK
    <3>2. CASE i = Len(callers) + 1
      BY <1>1, <2>1, <2>2, <3>2
    <3>3. CASE i \in 1 .. Len(callers)
      BY <2>2, <3>3 DEF TypeInv
    <3> QED BY <3>1, <3>2, <3>3
  <2> QED BY <2>3
<1>5. stream' \in Streams /\ stream'.line <= stream'.lines
  <2>1. PICK n \in IF kind = "evaluate" THEN 1 .. StringLines ELSE 0 .. MaxLines :
             stream' = [lines |-> n, line |-> 0, good |-> TRUE,
                        extra |-> IF kind = "evaluate" THEN stream.extra ELSE 0]
    BY DEF Opens
  <2>2. n \in 0 .. MaxLines
    BY <2>1, InputAssumption
  <2>3. stream.extra \in Nat
    BY DEF TypeInv, TypeOK, Streams
  <2> QED BY <2>1, <2>2, <2>3, InputAssumption DEF Streams
<1>6. linecount' \in Int /\ code' \in Seq(Ops) /\ run' \in Seq(Ops) /\ phase' \in Phases
      /\ skips' \in BOOLEAN
  <2>1. <<>> \in Seq(Ops) /\ "getline" \in Phases
    BY DEF Phases
  <2> QED BY <2>1 DEF Opens
<1>7. UNCHANGED <<TIB, pTIB, resume, ecode, failure>>
  BY DEF Opens, NoError
<1> QED BY <1>4, <1>5, <1>6, <1>7, <1>8 DEF TypeInv, TypeOK, Buffer

(* The caller of a text that returns is the last; its stream goes on.      *)
LEMMA CallerGoesOn ==
  ASSUME TypeInv, TextReturns
  PROVE  /\ callers # <<>> /\ Caller = callers[Len(callers)] /\ Caller \in Frames
         /\ Len(callers) \in 1 .. Len(callers) /\ callers' = Front(callers)
         /\ callers' \in Seq(Frames) /\ Len(callers') = Len(callers) - 1
         /\ \A i \in 1 .. (Len(callers) - 1) : callers'[i] = callers[i]
         /\ stream' \in Streams /\ stream'.line = Caller.stream.line
         /\ stream'.lines = Caller.stream.lines /\ stream'.good = Caller.stream.good
         /\ stream'.extra = IF InFile(Caller) THEN Caller.stream.extra ELSE stream.extra
<1>1. callers # <<>> /\ callers \in Seq(Frames) /\ callers' = Front(callers)
  BY DEF TextReturns, TypeInv, TypeOK
<1>2. /\ Caller = callers[Len(callers)] /\ Caller \in Frames
      /\ Len(callers) \in 1 .. Len(callers)
      /\ callers' \in Seq(Frames) /\ Len(callers') = Len(callers) - 1
      /\ \A i \in 1 .. (Len(callers) - 1) : callers'[i] = callers[i]
  BY <1>1, FrontIs DEF Caller
<1>3. Caller.stream \in Streams /\ Caller.stream.extra \in Nat /\ stream.extra \in Nat
  BY <1>2 DEF Frames, Streams, TypeInv, TypeOK
<1> DEFINE e == IF InFile(Caller) THEN Caller.stream.extra ELSE stream.extra
<1>4. stream' = [Caller.stream EXCEPT !.extra = e] /\ e \in Nat
  BY <1>3 DEF TextReturns
<1> HIDE DEF e
<1>5. /\ stream' \in Streams /\ stream'.line = Caller.stream.line
      /\ stream'.lines = Caller.stream.lines /\ stream'.good = Caller.stream.good
      /\ stream'.extra = e
  BY <1>3, <1>4, StreamBack
<1> QED BY <1>1, <1>2, <1>5 DEF e

LEMMA TypeStep == TypeInv /\ [Next]_vars => TypeInv'
<1> SUFFICES ASSUME TypeInv, [Next]_vars PROVE TypeInv'
  OBVIOUS
<1> USE DEF TypeInv
<1>0. pTIB \in 1 .. Size /\ Buffer(TIB) /\ 1 \in 1 .. Size
  BY SizeNat DEF TypeOK
<1>1. CASE UNCHANGED vars
  BY <1>1 DEF vars, TypeOK, Buffer
<1>2. ASSUME Prompt PROVE TypeInv'
  <2>1. stream' \in Streams /\ stream'.line <= stream'.lines /\ phase' \in Phases
    <3>1. PICK n \in 1 .. ConsoleLines :
               stream' = [lines |-> n, line |-> 0, good |-> TRUE, extra |-> 0]
      BY <1>2 DEF Prompt
    <3> QED BY <1>2, <3>1, InputAssumption DEF Prompt, Streams, Phases
  <2> QED BY <1>2, <2>1 DEF Prompt, NoError, TypeOK, Buffer
<1>3. ASSUME NextLine PROVE TypeInv'
  <2>1. Buffer(TIB') /\ stream' \in Streams /\ stream'.line <= stream'.lines
    BY <1>3, GetsLineType, GetlineFailsType DEF NextLine
  <2>2. TIB' \in [1 .. Size -> Cells]
    BY <2>1 DEF Buffer
  <2>3. pTIB' \in 1 .. Size /\ linecount' \in Int /\ phase' \in Phases
    BY <1>0, <1>3 DEF NextLine, TypeOK, Phases
  <2> QED BY <1>3, <2>1, <2>2, <2>3 DEF NextLine, NoError, TypeOK, Buffer
<1>4. ASSUME EndOfLine PROVE TypeInv'
  <2>1. <<>> \in Seq(Ops) /\ phase' \in Phases
    BY <1>4 DEF EndOfLine, Phases
  <2> QED BY <1>4, <2>1 DEF EndOfLine, NestVars, NoError, TypeOK, Buffer
<1>5. ASSUME PassBlank PROVE TypeInv'
  <2>1. pTIB' \in 1 .. Size
    BY <1>5, CellKinds, NextCell DEF PassBlank
  <2> QED BY <1>5, <2>1 DEF PassBlank, NestVars, NoError, TypeOK, Buffer
<1>6. ASSUME NEW kind, TakesWord(kind), kind # "unknown",
             code' \in Seq(Ops), run' \in Seq(Ops), resume' \in {"getline", "scan"},
             phase' \in Phases, NoError
      PROVE  TypeInv'
  <2>1. pTIB' \in 1 .. Size /\ skips' \in BOOLEAN
    BY <1>6, CellKinds, NextCell DEF TakesWord
  <2> QED BY <1>6, <2>1 DEF TakesWord, NestVars, NoError, TypeOK, Buffer
<1>7. ASSUME NEW kind \in Kinds, Compile(kind) PROVE TypeInv'
  <2>1. kind # "unknown" /\ (kind # "word" => kind \in Ops)
    BY <1>7 DEF Compile, Deferred, Ops
  <2>2. code' \in Seq(Ops)
    <3>1. CASE UNCHANGED code
      BY <3>1 DEF TypeOK
    <3>2. CASE kind # "word" /\ code' = Append(code, kind)
      BY <2>1, <3>2 DEF TypeOK
    <3> QED BY <1>7, <3>1, <3>2 DEF Compile
  <2> QED BY <1>6, <1>7, <2>1, <2>2 DEF Compile, TypeOK
<1>8. ASSUME NEW kind \in Kinds, ExecuteUpTo(kind) PROVE TypeInv'
  <2>1. kind # "unknown" /\ (CASE kind = "included" -> "open" [] kind = "dotparen" -> "paren"
                                [] OTHER -> kind) \in Ops
    BY <1>8 DEF ExecuteUpTo, UpTo, Ops
  <2>2. run' \in Seq(Ops) /\ code' \in Seq(Ops)
    BY <1>8, <2>1 DEF ExecuteUpTo, TypeOK
  <2> QED BY <1>6, <1>8, <2>1, <2>2 DEF ExecuteUpTo, Phases
<1>9. ASSUME NEW kind \in Kinds, ExecuteCurrent(kind) PROVE TypeInv'
  <2>1. kind # "unknown" /\ kind \in Ops
    BY <1>9 DEF ExecuteCurrent, AtOnce, Ops
  <2>2. run' \in Seq(Ops)
    BY <1>9, <2>1 DEF ExecuteCurrent
  <2> QED BY <1>6, <1>9, <2>1, <2>2 DEF ExecuteCurrent, TypeOK, Phases
<1>10. ASSUME UnknownWord PROVE TypeInv'
  <2>1. pTIB' \in 1 .. Size /\ skips' \in BOOLEAN
    BY <1>10, CellKinds, NextCell DEF UnknownWord, TakesWord
  <2>2. /\ ecode' \in {"ok", "error"} /\ phase' \in Phases
        /\ failure' \in Failures
    BY <1>10, FailsType DEF UnknownWord
  <2> QED BY <1>10, <2>1, <2>2 DEF UnknownWord, TakesWord, NestVars, TypeOK, Buffer
<1>11. ASSUME VmReturns PROVE TypeInv'
  <2>1. phase' \in Phases
    BY <1>11 DEF VmReturns, TypeOK, Phases
  <2> QED BY <1>11, <2>1 DEF VmReturns, NestVars, NoError, TypeOK, Buffer
(* A word that reads on, with a buffer to read in. *)
<1>12. ASSUME ReadsOn, Buffer(TIB'), pTIB' \in 1 .. Size, stream' \in Streams,
              stream'.line <= stream'.lines, linecount' \in Int, run' \in Seq(Ops),
              phase' \in Phases, ecode' \in {"ok", "error"},
              failure' \in Failures
       PROVE  TypeInv'
  <2>1. TIB' \in [1 .. Size -> Cells]
    BY <1>12 DEF Buffer
  <2> QED BY <1>12, <2>1 DEF ReadsOn, TypeOK, Buffer
<1>13. ASSUME NoName
       PROVE  /\ pTIB' \in 1 .. Size /\ run' \in Seq(Ops) /\ phase' \in Phases
              /\ ecode' \in {"ok", "error"}
              /\ failure' \in Failures
  <2>1. CASE Fails
    BY <1>13, <2>1, FailsType DEF NoName, TypeOK
  <2>2. CASE phase' = "wild" /\ NoError
    BY <1>13, <2>2 DEF NoName, NoError, TypeOK, Phases
  <2> QED BY <1>13, <2>1, <2>2 DEF NoName
<1>14. ASSUME CPP_create PROVE TypeInv'
  <2>1. /\ Buffer(TIB') /\ stream' \in Streams /\ stream'.line <= stream'.lines
        /\ linecount' \in Int
    BY <1>14 DEF CPP_create, TypeOK, Buffer
  <2>2. CASE \E i \in ExtractName : pTIB' = i + 1 /\ Done
    BY <1>12, <1>14, <2>1, <2>2, ExtractNameType, DoneType DEF CPP_create, Runs
  <2>3. CASE NoName
    BY <1>12, <1>13, <1>14, <2>1, <2>3 DEF CPP_create
  <2> QED BY <1>14, <2>2, <2>3 DEF CPP_create
<1>15. ASSUME C_parse PROVE TypeInv'
  <2>1. /\ Buffer(TIB') /\ stream' \in Streams /\ stream'.line <= stream'.lines
        /\ linecount' \in Int
    BY <1>15 DEF C_parse, TypeOK, Buffer
  <2>2. pTIB + Len(CellsFrom(pTIB)) \in pTIB .. Size
    BY <1>0, CellsFromIn, CellsProps
  <2>3. pTIB' \in 1 .. Size
    BY <1>0, <1>15, <2>2, SizeNat DEF C_parse
  <2> QED BY <1>12, <1>15, <2>1, <2>3, DoneType DEF C_parse, Runs
<1>16. ASSUME L_backslash PROVE TypeInv'
  <2>1. TIB' = [TIB EXCEPT ![pTIB] = NUL] /\ NUL \in Cells
    BY <1>16 DEF L_backslash, Cells
  <2>2. Buffer(TIB')
    BY <1>0, <2>1, CellKinds, SizeNat DEF Buffer
  <2>3. /\ pTIB' \in 1 .. Size /\ stream' \in Streams /\ stream'.line <= stream'.lines
        /\ linecount' \in Int
    BY <1>16 DEF L_backslash, TypeOK
  <2> QED BY <1>12, <1>16, <2>2, <2>3, DoneType DEF L_backslash, Runs
<1>17. ASSUME CPP_lparen PROVE TypeInv'
  <2>1. CASE /\ \E i \in pTIB .. (pTIB + Len(CellsFrom(pTIB)) - 1) : TIB[i] \in Word /\ pTIB' = i + 1
             /\ Done /\ UNCHANGED <<TIB, stream, linecount>>
    <3>1. pTIB + Len(CellsFrom(pTIB)) \in pTIB .. Size
      BY <1>0, CellsFromIn, CellsProps
    <3>2. pTIB' \in 1 .. Size
      BY <1>0, <2>1, <3>1, SizeNat
    <3>3. /\ Buffer(TIB') /\ stream' \in Streams /\ stream'.line <= stream'.lines
          /\ linecount' \in Int
      BY <2>1 DEF TypeOK, Buffer
    <3> QED BY <1>12, <1>17, <2>1, <3>2, <3>3, DoneType DEF CPP_lparen, Runs
  <2>2. CASE /\ GetsLine /\ pTIB' = 1 /\ linecount' = linecount + 1
             /\ UNCHANGED <<run, phase>> /\ NoError
    <3>1. Buffer(TIB') /\ stream' \in Streams /\ stream'.line <= stream'.lines
      BY <2>2, GetsLineType
    <3> QED BY <1>0, <1>12, <1>17, <2>2, <3>1 DEF CPP_lparen, NoError, TypeOK
  <2>3. CASE GetlineFails /\ Fails /\ UNCHANGED <<run, pTIB, linecount>>
    <3>1. Buffer(TIB') /\ stream' \in Streams /\ stream'.line <= stream'.lines
      BY <2>3, GetlineFailsType
    <3> QED BY <1>0, <1>12, <1>17, <2>3, <3>1, FailsType DEF CPP_lparen, TypeOK
  <2> QED BY <1>17, <2>1, <2>2, <2>3 DEF CPP_lparen, Unterminated
<1>18. ASSUME CPP_refill PROVE TypeInv'
  <2>1. /\ Buffer(TIB') /\ stream' \in Streams /\ stream'.line <= stream'.lines
        /\ linecount' \in Int
    BY <1>18, GetsLineType, GetlineFailsType DEF CPP_refill, TypeOK
  <2> QED BY <1>0, <1>12, <1>18, <2>1, DoneType DEF CPP_refill, Runs
<1>19. ASSUME CPP_evaluate PROVE TypeInv'
  <2>1. CASE Opens("evaluate", Saved("evaluate"), linecount - 1)
    <3>1. run # <<>> /\ linecount - 1 \in Int
      BY <1>19 DEF CPP_evaluate, Runs, TypeOK
    <3>2. TypeInv
      OBVIOUS
    <3> HIDE DEF TypeInv
    <3> QED BY <2>1, <3>1, <3>2, OpensType
  <2>2. CASE Done /\ ReadsOn /\ UNCHANGED <<TIB, pTIB, stream, linecount>>
    <3>1. /\ Buffer(TIB') /\ stream' \in Streams /\ stream'.line <= stream'.lines
          /\ linecount' \in Int /\ pTIB' \in 1 .. Size
      BY <2>2 DEF TypeOK, Buffer
    <3> QED BY <1>12, <1>19, <2>2, <3>1, DoneType DEF CPP_evaluate, Runs
  <2> QED BY <1>19, <2>1, <2>2 DEF CPP_evaluate
<1>20. ASSUME CPP_included PROVE TypeInv'
  <2>1. CASE Fails /\ ReadsOn /\ UNCHANGED <<TIB, pTIB, stream, linecount, run>>
    <3>1. /\ Buffer(TIB') /\ stream' \in Streams /\ stream'.line <= stream'.lines
          /\ linecount' \in Int /\ pTIB' \in 1 .. Size /\ run' \in Seq(Ops)
      BY <2>1 DEF TypeOK, Buffer
    <3> QED BY <1>12, <2>1, <3>1, FailsType
  <2>2. CASE Opens("included", Saved("included"), 0) \/ Opens("include", Saved("include"), 0)
    <3>1. run # <<>>
      BY <1>20 DEF CPP_included, Runs
    <3>2. TypeInv /\ 0 \in Int
      OBVIOUS
    <3> HIDE DEF TypeInv
    <3> QED BY <2>2, <3>1, <3>2, OpensType
  <2> QED BY <1>20, <2>1, <2>2 DEF CPP_included
<1>21. ASSUME CPP_include PROVE TypeInv'
  <2>1. /\ Buffer(TIB') /\ stream' \in Streams /\ stream'.line <= stream'.lines
        /\ linecount' \in Int
    BY <1>21 DEF CPP_include, TypeOK, Buffer
  <2>2. CASE /\ \E i \in ExtractName : pTIB' = i + 1
             /\ run' = <<"openkeep">> \o Tail(run) /\ UNCHANGED phase /\ NoError
    <3>1. run' \in Seq(Ops)
      <4>1. Tail(run) \in Seq(Ops)
        BY <1>21 DEF CPP_include, Runs, TypeOK
      <4>2. <<"openkeep">> \in Seq(Ops)
        BY DEF Ops
      <4> QED BY <2>2, <4>1, <4>2
    <3> QED BY <1>12, <1>21, <2>1, <2>2, <3>1, ExtractNameType DEF CPP_include, NoError, TypeOK
  <2>3. CASE NoName
    BY <1>12, <1>13, <1>21, <2>1, <2>3 DEF CPP_include
  <2> QED BY <1>21, <2>2, <2>3 DEF CPP_include
<1>22. ASSUME TextReturns PROVE TypeInv'
  <2>1. callers # <<>> /\ callers \in Seq(Frames) /\ Caller = callers[Len(callers)]
        /\ Caller \in Frames /\ Len(callers) \in 1 .. Len(callers)
    BY <1>22, CallerGoesOn DEF TypeOK
  <2>2. callers' \in Seq(Frames) /\ Len(callers') = Len(callers) - 1
        /\ \A i \in 1 .. (Len(callers) - 1) : callers'[i] = callers[i]
    BY <1>22, CallerGoesOn
  <2>3. Len(callers') < MaxDepth
    BY <2>1, <2>2, InputAssumption DEF TypeOK
  <2>8. ASSUME NEW i \in 1 .. Len(callers')
        PROVE  IsSaved(callers'[i].saved) /\ callers'[i].stream.line <= callers'[i].stream.lines
    <3>1. i \in 1 .. Len(callers) /\ i \in 1 .. (Len(callers) - 1)
      BY <2>1, <2>2
    <3> QED BY <2>2, <3>1
  <2>4. Buffer(TIB') /\ pTIB' \in 1 .. Size
    <3>1. IsLine(Caller.saved) /\ Len(Caller.saved) < Size
      BY <2>1 DEF IsSaved
    <3>2. CASE TIB' = Written(Caller.saved) /\ pTIB' = 1
      BY <1>0, <3>1, <3>2, WrittenIs
    <3>3. CASE UNCHANGED <<TIB, pTIB>>
      BY <1>0, <3>3 DEF Buffer
    <3> QED BY <1>22, <3>2, <3>3 DEF TextReturns
  <2>5. TIB' \in [1 .. Size -> Cells]
    BY <2>4 DEF Buffer
  <2>6. /\ stream' \in Streams /\ stream'.line <= stream'.lines /\ linecount' \in Int
        /\ code' \in Seq(Ops) /\ run' \in Seq(Ops) /\ resume' \in {"getline", "scan"}
        /\ skips' \in BOOLEAN
    <3>1. /\ Caller.stream \in Streams /\ Caller.code \in Seq(Ops) /\ Caller.run \in Seq(Ops)
          /\ Caller.resume \in {"getline", "scan"} /\ Caller.skips \in BOOLEAN /\ Caller.count \in Int
      BY <2>1 DEF Frames
    <3>2. Caller.stream.line <= Caller.stream.lines
      BY <2>1
    <3>3. linecount' \in Int
      BY <1>22, <3>1 DEF TextReturns, CountAfter, TypeOK
    <3>4. stream' \in Streams /\ stream'.line <= stream'.lines
      BY <1>22, <3>2, CallerGoesOn
    <3> QED BY <1>22, <3>1, <3>3, <3>4 DEF TextReturns
  <2>7. phase' \in Phases /\ UNCHANGED <<ecode, failure>>
    BY <1>22 DEF TextReturns, NoError, Phases
  <2> QED BY <2>2, <2>3, <2>4, <2>5, <2>6, <2>7, <2>8 DEF TypeOK
<1>23. ASSUME MainReturns PROVE TypeInv'
  <2>1. <<>> \in Seq(Ops) /\ "prompt" \in Phases
        /\ NoFailure \in Failures
    BY InputAssumption DEF Phases, NoFailure, Failures
  <2>2. UNCHANGED <<TIB, pTIB, stream, callers, resume, skips>>
    BY <1>23 DEF MainReturns
  <2>3. /\ phase' = "prompt" /\ ecode' = "ok" /\ code' = <<>> /\ run' = <<>> /\ linecount' = 0
        /\ failure' = NoFailure
    BY <1>23 DEF MainReturns
  <2>4. Buffer(TIB')
    BY <1>0, <2>2 DEF Buffer
  <2>5. linecount' \in Int /\ code' \in Seq(Ops) /\ run' \in Seq(Ops) /\ phase' \in Phases
        /\ ecode' \in {"ok", "error"}
        /\ failure' \in Failures
    BY <2>1, <2>3
  <2> QED BY <2>2, <2>4, <2>5 DEF TypeOK
<1> QED BY <1>1, <1>2, <1>3, <1>4, <1>5, <1>7, <1>8, <1>9, <1>10, <1>11, <1>14, <1>15, <1>16,
           <1>17, <1>18, <1>19, <1>20, <1>21, <1>22, <1>23 DEF Next, Compiler, Forth

(* The buffer, the streams and their callers are what the code takes them *)
(* for, whatever the texts have in them.                                  *)
THEOREM TypeCorrect == Spec => []TypeOK
<1>1. TypeInv => TypeOK
  BY DEF TypeInv
<1> QED BY <1>1, TypeInit, TypeStep, PTL DEF Spec

-----------------------------------------------------------------------------
(* What is still to be run *)

(* Nothing is left of a sequence of one. *)
LEMMA TailNone ==
  ASSUME NEW S, NEW s \in Seq(S), s # <<>> PROVE Tail(s) = <<>> <=> Len(s) = 1
<1> DEFINE t == Tail(s)
<1>1. t \in Seq(S) /\ Len(t) = Len(s) - 1
  OBVIOUS
<1> HIDE DEF t
<1>2. t = <<>> <=> Len(t) = 0
  BY <1>1, EmptySeq
<1>3. Len(s) \in Nat
  OBVIOUS
<1>4. t = <<>> <=> Len(s) = 1
  BY <1>2, <1>3, <1>1
<1> QED BY <1>4 DEF t

(* What runs first is EVALUATE, or the last to run. *)
LEMMA PendingTail ==
  ASSUME NEW ops \in Seq(Ops), ops # <<>>, NEW goes, NEW c, NEW may, Pending(ops, goes, c, may)
  PROVE  /\ Pending(Tail(ops), goes, c, may)
         /\ Head(ops) = "evaluate" \/ (Tail(ops) = <<>> /\ Fits(Head(ops), c, may) /\ goes # "getline")
<1>1. /\ Len(ops) \in Nat /\ Len(ops) >= 1 /\ Head(ops) = ops[1]
      /\ Tail(ops) \in Seq(Ops) /\ Len(Tail(ops)) = Len(ops) - 1
      /\ \A i \in 1 .. (Len(ops) - 1) : Tail(ops)[i] = ops[i + 1] /\ i + 1 \in 1 .. Len(ops)
  OBVIOUS
<1>2. Pending(Tail(ops), goes, c, may)
  <2>1. ASSUME NEW i \in 1 .. Len(Tail(ops))
        PROVE  Tail(ops)[i] = "evaluate" \/ (i = Len(Tail(ops)) /\ Fits(Tail(ops)[i], c, may))
    <3>1. i + 1 \in 1 .. Len(ops) /\ Tail(ops)[i] = ops[i + 1]
      BY <1>1
    <3>2. i + 1 = Len(ops) => i = Len(Tail(ops))
      <4>1. i \in Int /\ Len(Tail(ops)) = Len(ops) - 1 /\ Len(ops) \in Nat
        BY <1>1
      <4> QED BY ONLY <4>1
    <3> QED BY <3>1, <3>2 DEF Pending
  <2>2. goes = "getline" => c = <<>> /\ Waits(Tail(ops))
    BY <1>1 DEF Pending, Waits
  <2> QED BY <2>1, <2>2 DEF Pending
<1>3. Head(ops) = "evaluate" \/ (Tail(ops) = <<>> /\ Fits(Head(ops), c, may) /\ goes # "getline")
  <2>0. 1 \in 1 .. Len(ops)
    BY ONLY <1>1
  <2>1. ops[1] = "evaluate" \/ (1 = Len(ops) /\ Fits(ops[1], c, may))
    BY <2>0 DEF Pending
  <2>2. goes = "getline" => ops[1] = "evaluate"
    BY <2>0 DEF Pending, Waits
  <2>3. 1 = Len(ops) => Tail(ops) = <<>>
    BY TailNone
  <2> QED BY <1>1, <2>1, <2>2, <2>3
<1> QED BY <1>2, <1>3

(* Nothing is to be run, or a word behind what was compiled before it. *)
LEMMA PendingNone ==
  ASSUME NEW c, NEW may PROVE Pending(<<>>, "scan", c, may) /\ Waits(<<>>)
  BY DEF Pending, Waits

LEMMA PendingAppend ==
  ASSUME NEW ops \in Seq(Ops), Waits(ops), NEW op \in Ops, NEW c, NEW may, Fits(op, c, may)
  PROVE  Pending(Append(ops, op), "scan", c, may)
<1>1. /\ Len(Append(ops, op)) = Len(ops) + 1 /\ Append(ops, op)[Len(ops) + 1] = op
      /\ \A i \in 1 .. Len(ops) : Append(ops, op)[i] = ops[i]
      /\ Len(ops) \in Nat
  OBVIOUS
<1>2. \A i \in 1 .. Len(Append(ops, op)) : i = Len(ops) + 1 \/ i \in 1 .. Len(ops)
  BY <1>1
<1> QED BY <1>1, <1>2 DEF Pending, Waits

(* A word that runs alone, or is the last to run. *)
LEMMA PendingLast ==
  ASSUME NEW op \in Ops, NEW c, NEW may, Fits(op, c, may)
  PROVE  Pending(<<op>>, "scan", c, may)
  BY DEF Pending

(* What has its cells changed under it does not look at them. *)
LEMMA PendingHead ==
  ASSUME NEW ops \in Seq(Ops), ops # <<>>, NEW goes \in {"getline", "scan"}, NEW c, NEW d, NEW may,
         Pending(ops, goes, c, may), Head(ops) # "evaluate",
         Head(ops) \notin Namers, Head(ops) # "open"
  PROVE  Pending(ops, goes, d, may)
<1>1. Tail(ops) = <<>> /\ Fits(Head(ops), c, may) /\ goes # "getline"
  BY PendingTail
<1>2. Len(ops) = 1 /\ Head(ops) = ops[1]
  <2>1. Len(ops) = 1
    BY <1>1, TailNone
  <2> QED BY <2>1
<1>3. Fits(ops[1], d, may)
  BY <1>1, <1>2 DEF Fits
<1> QED BY <1>1, <1>2, <1>3 DEF Pending

(* CellsFrom, of the next state. *)
LEMMA CellsFromNext == (CellsFrom(pTIB))' = CellsIn(TIB', pTIB')
  BY DEF CellsFrom, CellsIn

(* One more caller. *)
LEMMA AppendIs ==
  ASSUME NEW s, NEW S, s \in Seq(S), NEW f
  PROVE  /\ Len(Append(s, f)) = Len(s) + 1 /\ Append(s, f)[Len(s) + 1] = f
         /\ \A i \in 1 .. Len(s) : Append(s, f)[i] = s[i]
  BY AppendProperties

-----------------------------------------------------------------------------
(* The reading of texts that keep the rules *)

LEMMA ReadingInit == Init => ReadingInv
  BY SizeNat DEF Init, ReadingInv, Waits

(* A word that takes a name, where there is one or nothing: it takes the   *)
(* next word, or fails.                                                    *)
LEMMA NamesHere ==
  ASSUME TypeInv, Fits(Head(run), CellsFrom(pTIB), skips), Head(run) \in Namers
  PROVE  /\ \A i \in ExtractName : i = pTIB /\ TIB[pTIB] \in Word
         /\ NoName => Fails /\ UNCHANGED <<pTIB, run>>
<1>1. pTIB \in 1 .. Size /\ Buffer(TIB)
  BY DEF TypeInv, TypeOK
<1>2. TIB[pTIB] # Blank
  <2>1. CellsFrom(pTIB) = <<>> \/ CellsFrom(pTIB)[1] # Blank
    BY DEF Fits
  <2>2. CASE TIB[pTIB] = NUL
    BY <2>2, CellKinds
  <2>3. CASE TIB[pTIB] # NUL
    BY <1>1, <2>1, <2>3, CellsFromIn, CellsTail
  <2> QED BY <2>2, <2>3
<1>3. TIB[pTIB] # NUL => TIB[pTIB] \in Word
  BY <1>1, <1>2 DEF Buffer, Cells
<1>4. ASSUME NEW i \in ExtractName PROVE i = pTIB /\ TIB[pTIB] \in Word
  <2>1. i \in 1 .. Size /\ i >= pTIB /\ TIB[pTIB] \in Word
        /\ \A j \in pTIB .. (i - 1) : TIB[j] \notin Word
    BY <1>3, <1>4, ExtractNameType
  <2>2. ~ (pTIB \in pTIB .. (i - 1))
    BY <2>1
  <2> QED BY <1>1, <2>1, <2>2, SizeNat
<1>5. ASSUME NoName, TIB[pTIB] # NUL PROVE FALSE
  <2>1. pTIB \in NamesFrom(pTIB)
    BY <1>1, <1>3, <1>5, SizeNat DEF NamesFrom
  <2> QED BY <1>5, <2>1 DEF NoName, ExtractName
<1> QED BY <1>4, <1>5 DEF NoName

(* The first op to run, and what is left to run then.                      *)
LEMMA RunsHead ==
  ASSUME TypeInv, ReadingInv, NEW op, Runs(op)
  PROVE  /\ run # <<>> /\ run \in Seq(Ops) /\ op = Head(run)
         /\ Pending(run, resume, CellsFrom(pTIB), skips)
         /\ Pending(Tail(run), resume, CellsFrom(pTIB), skips)
         /\ op # "evaluate" =>
              Tail(run) = <<>> /\ Fits(op, CellsFrom(pTIB), skips) /\ resume = "scan"
<1>1. run # <<>> /\ run \in Seq(Ops) /\ op = Head(run) /\ phase = "run"
  BY DEF Runs, TypeInv, TypeOK
<1>2. Pending(run, resume, CellsFrom(pTIB), skips)
  BY <1>1 DEF ReadingInv
<1>3. resume \in {"getline", "scan"}
  BY DEF TypeInv, TypeOK
<1> QED BY <1>1, <1>2, <1>3, PendingTail

(* A word that read on runs to its end. *)
LEMMA DoneReading ==
  ASSUME TypeInv, ReadingInv, NEW op, Runs(op), op # "evaluate", Done, ReadsOn,
         ~stream'.good => stream'.line = stream'.lines
  PROVE  ReadingInv'
<1>1. Tail(run) = <<>> /\ resume = "scan"
  BY RunsHead
<1>2. run' = <<>> /\ phase' = "run" /\ resume' = "scan" /\ UNCHANGED <<callers, code, ecode>>
  BY <1>1 DEF Done, ReadsOn, NoError, Runs
<1>3. Pending(run', resume', (CellsFrom(pTIB))', skips')
  BY <1>2, PendingNone
<1>4. ecode # "error"
  BY DEF ReadingInv, Runs
<1> QED BY <1>2, <1>3, <1>4 DEF ReadingInv

LEMMA FailsReading ==
  ASSUME ReadingInv, Fails, UNCHANGED <<callers, code>>,
         ~stream'.good => stream'.line = stream'.lines
  PROVE  ReadingInv'
  BY DEF ReadingInv, Fails

(* Opens, with what the caller needs when it goes on. *)
LEMMA OpensReading ==
  ASSUME TypeInv, ReadingInv, NEW op, Runs(op), NEW kind, NEW count,
         \/ kind = "evaluate" /\ op \in {"evaluate", "macro"}
         \/ kind = "include" /\ op = "openkeep"
         \/ kind = "included" /\ op = "open",
         Opens(kind, Saved(kind), count)
  PROVE  ReadingInv'
<1> DEFINE f == [kind |-> kind, stream |-> stream, saved |-> Saved(kind), count |-> linecount,
                 code |-> code, run |-> Tail(run), resume |-> resume, skips |-> skips]
<1>1. callers' = Append(callers, f) /\ callers \in Seq(Frames)
  BY DEF Opens, TypeInv, TypeOK
<1>2. /\ f.kind = kind /\ f.stream = stream /\ f.saved = Saved(kind) /\ f.code = code
      /\ f.run = Tail(run) /\ f.resume = resume /\ f.skips = skips
  OBVIOUS
<1> HIDE DEF f
<1>3. /\ Pending(Tail(run), resume, CellsFrom(pTIB), skips)
      /\ op # "evaluate" =>
           Tail(run) = <<>> /\ Fits(op, CellsFrom(pTIB), skips) /\ resume = "scan"
  BY RunsHead
<1>4. Pending(f.run, f.resume, f.saved, f.skips)
  <2>1. CASE kind = "included"
    <3>1. f.run = <<>> /\ f.resume = "scan"
      BY <1>2, <1>3, <2>1
    <3> QED BY <3>1, PendingNone
  <2>2. CASE kind # "included"
    BY <1>2, <1>3, <2>2 DEF Saved
  <2> QED BY <2>1, <2>2
<1>5. CallerOk(f)
  <2>1. f.kind = "included" => f.saved = <<>> /\ f.run = <<>> /\ f.resume = "scan"
    BY <1>2, <1>3 DEF Saved
  <2>2. Waits(f.code) /\ (~f.stream.good => f.stream.line = f.stream.lines)
    BY <1>2 DEF ReadingInv
  <2> QED BY <1>4, <2>1, <2>2 DEF CallerOk
<1>6. Len(callers') = Len(callers) + 1 /\ callers'[Len(callers) + 1] = f
      /\ \A i \in 1 .. Len(callers) : callers'[i] = callers[i]
  BY <1>1, AppendIs
<1>7. \A i \in 1 .. Len(callers') : CallerOk(callers'[i])
  <2> TAKE i \in 1 .. Len(callers')
  <2>1. i = Len(callers) + 1 \/ i \in 1 .. Len(callers)
    BY <1>1, <1>6
  <2>2. CASE i = Len(callers) + 1
    BY <1>5, <1>6, <2>2
  <2>3. CASE i \in 1 .. Len(callers)
    BY <1>6, <2>3 DEF ReadingInv
  <2> QED BY <2>1, <2>2, <2>3
<1>8. kind = "included" => TIB[pTIB] \notin Word
  <2>1. SUFFICES ASSUME kind = "included" PROVE TIB[pTIB] \notin Word
    OBVIOUS
  <2>2. CellsFrom(pTIB) = <<>> \/ CellsFrom(pTIB)[1] \notin Word
    BY <1>3, <2>1 DEF Fits
  <2>3. pTIB \in 1 .. Size /\ Buffer(TIB)
    BY DEF TypeInv, TypeOK
  <2>4. CASE TIB[pTIB] = NUL
    BY <2>4, CellKinds
  <2>5. CASE TIB[pTIB] # NUL
    BY <2>2, <2>3, <2>5, CellsFromIn, CellsTail
  <2> QED BY <2>4, <2>5
<1>9. /\ phase' = "getline" /\ code' = <<>> /\ UNCHANGED <<TIB, pTIB, ecode>>
      /\ stream'.good
  BY DEF Opens, NoError
<1>10. Last(callers').kind = kind
  BY <1>2, <1>6 DEF Last
<1>11. ecode # "error" /\ Waits(<<>>)
  BY DEF ReadingInv, Runs, Waits
<1> QED BY <1>7, <1>8, <1>9, <1>10, <1>11 DEF ReadingInv

(* What waits in code is EVALUATE. *)
LEMMA WaitsMore ==
  ASSUME NEW ops \in Seq(Ops), Waits(ops) PROVE Waits(Append(ops, "evaluate"))
<1>1. /\ Len(Append(ops, "evaluate")) = Len(ops) + 1 /\ Append(ops, "evaluate")[Len(ops) + 1] = "evaluate"
      /\ \A i \in 1 .. Len(ops) : Append(ops, "evaluate")[i] = ops[i]
      /\ Len(ops) \in Nat
  BY AppendIs
<1>2. \A i \in 1 .. (Len(ops) + 1) : i = Len(ops) + 1 \/ i \in 1 .. Len(ops)
  BY <1>1
<1> QED BY <1>1, <1>2 DEF Waits

(* The end of a line. *)
LEMMA NoCells ==
  ASSUME TypeInv PROVE TIB[pTIB] = NUL <=> CellsFrom(pTIB) = <<>>
<1>1. pTIB \in 1 .. Size /\ Buffer(TIB)
  BY DEF TypeInv, TypeOK
<1>2. CASE TIB[pTIB] = NUL
  BY <1>1, <1>2, CellsFromIn, CellsNone
<1>3. CASE TIB[pTIB] # NUL
  BY <1>1, <1>3, CellsFromIn, CellsTail
<1> QED BY <1>2, <1>3

LEMMA ReadingStep == KeepsRules /\ TypeInv /\ ReadingInv /\ [Next]_vars => ReadingInv'
<1> SUFFICES ASSUME KeepsRules, TypeInv, ReadingInv, [Next]_vars PROVE ReadingInv'
  OBVIOUS
<1>0. /\ pTIB \in 1 .. Size /\ Buffer(TIB) /\ code \in Seq(Ops) /\ callers \in Seq(Frames)
      /\ ecode \in {"ok", "error"} /\ resume \in {"getline", "scan"} /\ run \in Seq(Ops)
  BY DEF TypeInv, TypeOK
<1>1. CASE UNCHANGED vars
  BY <1>1 DEF vars, ReadingInv, CellsFrom
<1>2. ASSUME Prompt PROVE ReadingInv'
  <2>1. callers = <<>> /\ callers' = <<>> /\ code' = code /\ ecode' = "ok" /\ phase' = "getline"
        /\ stream'.good
    BY <1>2 DEF Prompt, NoError, ReadingInv
  <2> QED BY <2>1 DEF ReadingInv
<1>3. ASSUME NextLine PROVE ReadingInv'
  <2>1. UNCHANGED <<callers, code, ecode>> /\ ecode # "error" /\ phase = "getline"
    BY <1>3 DEF NextLine, NoError, ReadingInv
  <2>2. CASE GetsLine /\ phase' = "scan"
    <3>1. stream.good
      BY <2>2 DEF GetsLine
    <3>2. stream'.good = stream.good
      BY <2>2, GetsLineType
    <3> QED BY <2>1, <2>2, <3>1, <3>2 DEF ReadingInv
  <2>3. CASE GetlineFails /\ phase' = "return" /\ UNCHANGED <<pTIB, linecount>>
    <3>1. stream' = [stream EXCEPT !.good = FALSE] /\ TIB' = Written(<<>>)
          /\ (~stream.good \/ stream.line = stream.lines)
      BY <2>3, GetlineFailsType DEF KeepsRules
    <3>2. stream'.line = stream'.lines
      BY <3>1 DEF ReadingInv, TypeInv, TypeOK, Streams
    <3>3. TIB'[1] = NUL
      BY <1>0, <3>1, EmptyLine, WrittenIs
    <3>4. TIB[pTIB] \notin Word => TIB'[pTIB'] \notin Word
      <4>1. TIB' = [i \in 1 .. Size |-> IF i <= 0 THEN <<>>[i] ELSE IF i = 0 + 1 THEN NUL ELSE TIB[i]]
        BY <3>1 DEF Written
      <4>2. TIB'[pTIB] = NUL \/ TIB'[pTIB] = TIB[pTIB]
        BY <1>0, <4>1, SizeNat
      <4> QED BY <2>3, <4>2, CellKinds
    <3> QED BY <2>1, <2>3, <3>2, <3>3, <3>4 DEF ReadingInv
  <2> QED BY <1>3, <2>2, <2>3 DEF NextLine
<1>4. ASSUME EndOfLine PROVE ReadingInv'
  <2>1. UNCHANGED <<callers, ecode, stream, TIB, pTIB>> /\ ecode # "error" /\ TIB[pTIB] = NUL
        /\ run' = code /\ code' = <<>> /\ resume' = "getline" /\ phase' \in {"getline", "run"}
    BY <1>4 DEF EndOfLine, NestVars, NoError, ReadingInv
  <2>2. (CellsFrom(pTIB))' = <<>>
    BY <1>0, <2>1, CellsFromNext, CellsNone
  <2>3. Pending(run', resume', (CellsFrom(pTIB))', skips') /\ Waits(code')
    BY <2>1, <2>2 DEF ReadingInv, Pending, Waits
  <2> QED BY <2>1, <2>3, CellKinds DEF ReadingInv
<1>5. ASSUME PassBlank PROVE ReadingInv'
  BY <1>5 DEF PassBlank, NestVars, NoError, ReadingInv
<1>6. ASSUME NEW kind \in Kinds, Compile(kind) PROVE ReadingInv'
  <2>1. kind = "word" \/ kind = "evaluate"
    BY <1>6 DEF Compile, KeepsRules, Deferred
  <2>2. Waits(code')
    <3>1. CASE UNCHANGED code
      BY <3>1 DEF ReadingInv
    <3>2. CASE kind # "word" /\ code' = Append(code, kind)
      BY <1>0, <2>1, <3>2, WaitsMore DEF ReadingInv
    <3> QED BY <1>6, <3>1, <3>2 DEF Compile
  <2> QED BY <1>6, <2>2 DEF Compile, TakesWord, NestVars, NoError, ReadingInv
<1>7. ASSUME NEW kind \in Kinds, ExecuteUpTo(kind) PROVE ReadingInv'
  <2> DEFINE op == CASE kind = "included" -> "open" [] kind = "dotparen" -> "paren"
                     [] OTHER -> kind
  <2> DEFINE cells == CellsIn(TIB, pTIB + 1)
  <2>1. /\ UNCHANGED <<callers, ecode, stream, TIB>> /\ pTIB' = pTIB + 1 /\ phase = "scan"
        /\ run' = Append(code, op) /\ code' = <<>> /\ resume' = "scan" /\ phase' = "run"
        /\ kind \in UpTo /\ (skips' <=> kind \in Skippers) /\ TIB[pTIB] # NUL
    BY <1>7, CellKinds DEF ExecuteUpTo, TakesWord, NestVars, NoError, Skippers
  <2>2. op \in Ops /\ op # "refill"
    BY <2>1 DEF Ops, UpTo
  <2>3. (CellsFrom(pTIB))' = cells
    BY <2>1, CellsFromNext
  <2>4. pTIB + 1 \in 1 .. Size
    BY <2>1, NextCell
  <2>5. op \in Namers => cells = <<>> \/ cells[1] # Blank
    <3>1. SUFFICES ASSUME op \in Namers PROVE cells = <<>> \/ cells[1] # Blank
      OBVIOUS
    <3>2. TIB[pTIB + 1] # Blank
      BY <1>7, <3>1 DEF ExecuteUpTo, Namers, KeepsRules
    <3> QED BY <1>0, <2>4, <3>2, CellsNone, CellsTail
  <2>6. op = "open" => cells = <<>> \/ cells[1] \notin Word
    <3>1. SUFFICES ASSUME op = "open" PROVE cells = <<>> \/ cells[1] \notin Word
      OBVIOUS
    <3>2. WordsOf(cells) = <<>>
      BY <1>7, <2>1, <3>1, CellsFromIn DEF ExecuteUpTo, UpTo, KeepsRules
    <3> QED BY <1>0, <2>4, <3>2, CellsLine, WordsTail
  <2>7. op \in Skippers => skips'
    BY <2>1 DEF Skippers, UpTo
  <2>8. Fits(op, cells, skips')
    BY <2>2, <2>5, <2>6, <2>7 DEF Fits
  <2> HIDE DEF op, cells
  <2>9. Pending(run', resume', (CellsFrom(pTIB))', skips') /\ Waits(code')
    BY <1>0, <2>1, <2>2, <2>3, <2>8, PendingAppend, PendingNone DEF ReadingInv
  <2> QED BY <2>1, <2>9 DEF ReadingInv
<1>8. ASSUME NEW kind \in Kinds, ExecuteCurrent(kind) PROVE ReadingInv'
  <2>1. /\ UNCHANGED <<callers, ecode, stream, code>> /\ run' = <<kind>>
        /\ resume' = "scan" /\ phase' = "run" /\ phase = "scan"
        /\ kind \in AtOnce \ {"unknown"} /\ (skips' <=> kind \in Skippers)
    BY <1>8 DEF ExecuteCurrent, TakesWord, NestVars, NoError, Skippers
  <2>2. kind \in Ops /\ Fits(kind, (CellsFrom(pTIB))', skips')
    BY <2>1 DEF AtOnce, Ops, Fits, Namers
  <2>3. Pending(run', resume', (CellsFrom(pTIB))', skips')
    BY <2>1, <2>2, PendingLast
  <2> QED BY <2>1, <2>3 DEF ReadingInv
<1>9. ASSUME UnknownWord PROVE ReadingInv'
  BY <1>9, FailsReading DEF UnknownWord, TakesWord, NestVars, ReadingInv
<1>10. ASSUME VmReturns PROVE ReadingInv'
  <2>1. /\ UNCHANGED <<callers, ecode, stream, code, TIB, pTIB>> /\ phase = "run" /\ phase' = resume
    BY <1>10 DEF VmReturns, NestVars, NoError
  <2>2. resume = "getline" => CellsFrom(pTIB) = <<>>
    BY <2>1 DEF ReadingInv, Pending
  <2>3. resume = "getline" => TIB[pTIB] \notin Word
    BY <2>2, NoCells, CellKinds
  <2> QED BY <1>0, <2>1, <2>3 DEF ReadingInv
<1>11. ASSUME CPP_create PROVE ReadingInv'
  <2>1. Fits("create", CellsFrom(pTIB), skips) /\ Head(run) = "create"
    BY <1>11, RunsHead DEF CPP_create
  <2>2. CASE \E i \in ExtractName : pTIB' = i + 1 /\ Done
    BY <1>11, <2>2, DoneReading DEF CPP_create, ReadingInv
  <2>3. CASE NoName
    BY <1>11, <2>1, <2>3, NamesHere, FailsReading DEF CPP_create, ReadsOn, Namers, ReadingInv
  <2> QED BY <1>11, <2>2, <2>3 DEF CPP_create
<1>12. ASSUME C_parse PROVE ReadingInv'
  BY <1>12, DoneReading DEF C_parse, ReadingInv
<1>13. ASSUME L_backslash PROVE ReadingInv'
  BY <1>13, DoneReading DEF L_backslash, ReadingInv
<1>14. ASSUME GetsLine PROVE ~stream'.good => stream'.line = stream'.lines
  <2>1. stream.good
    BY <1>14 DEF GetsLine
  <2> QED BY <1>14, <2>1, GetsLineType
<1>15. ASSUME GetlineFails PROVE ~stream'.good => stream'.line = stream'.lines
  <2>1. stream' = [stream EXCEPT !.good = FALSE] /\ (~stream.good \/ stream.line = stream.lines)
    BY <1>15, GetlineFailsType DEF KeepsRules
  <2> QED BY <2>1 DEF ReadingInv, TypeInv, TypeOK, Streams
<1>16. ASSUME CPP_lparen PROVE ReadingInv'
  <2>1. CASE Done /\ UNCHANGED <<TIB, stream, linecount>>
    BY <1>16, <2>1, DoneReading DEF CPP_lparen, ReadingInv
  <2>2. CASE GetsLine /\ UNCHANGED <<run, phase>> /\ NoError
    <3>1. UNCHANGED <<callers, code, resume, skips, run, phase, ecode>> /\ phase = "run"
      BY <1>16, <2>2 DEF CPP_lparen, ReadsOn, NoError, Runs
    <3>2. Pending(run, resume, CellsFrom(pTIB), skips) /\ Head(run) = "paren" /\ run # <<>>
      BY <1>16, RunsHead DEF CPP_lparen
    <3>3. Pending(run, resume, (CellsFrom(pTIB))', skips)
      BY <1>0, <3>2, PendingHead DEF Namers
    <3> QED BY <1>14, <2>2, <3>1, <3>3 DEF ReadingInv
  <2>3. CASE GetlineFails /\ Fails
    BY <1>15, <1>16, <2>3, FailsReading DEF CPP_lparen, ReadsOn
  <2> QED BY <1>16, <2>1, <2>2, <2>3 DEF CPP_lparen, Unterminated
<1>17. ASSUME CPP_refill PROVE ReadingInv'
  BY <1>14, <1>15, <1>17, DoneReading DEF CPP_refill
<1>18. ASSUME CPP_evaluate PROVE ReadingInv'
  <2>1. PICK op \in {"evaluate", "macro"} : Runs(op)
    BY <1>18 DEF CPP_evaluate
  <2>2. CASE Opens("evaluate", Saved("evaluate"), linecount - 1)
    BY <2>1, <2>2, OpensReading
  <2>3. CASE Done /\ ReadsOn /\ UNCHANGED <<TIB, pTIB, stream, linecount>>
    <3>1. /\ UNCHANGED <<TIB, pTIB, stream, callers, code, resume, skips, phase, ecode>>
          /\ run' = Tail(run)
      BY <2>3 DEF Done, ReadsOn, NoError
    <3>2. Pending(run', resume', (CellsFrom(pTIB))', skips')
      BY <2>1, <3>1, RunsHead, CellsFromIn, CellsFromNext
    <3> QED BY <3>1, <3>2 DEF ReadingInv
  <2> QED BY <1>18, <2>2, <2>3 DEF CPP_evaluate
<1>19. ASSUME CPP_included PROVE ReadingInv'
  <2>1. CASE Runs("open") /\ Opens("included", Saved("included"), 0)
    BY <2>1, OpensReading
  <2>2. CASE Runs("openkeep") /\ Opens("include", Saved("include"), 0)
    BY <2>2, OpensReading
  <2>3. CASE Fails /\ ReadsOn /\ UNCHANGED <<TIB, pTIB, stream, linecount, run>>
    BY <2>3, FailsReading DEF ReadsOn, ReadingInv
  <2> QED BY <1>19, <2>1, <2>2, <2>3 DEF CPP_included
<1>20. ASSUME CPP_include PROVE ReadingInv'
  <2>1. /\ Fits("include", CellsFrom(pTIB), skips) /\ Head(run) = "include"
        /\ Tail(run) = <<>> /\ resume = "scan"
    BY <1>20, RunsHead DEF CPP_include
  <2>2. CASE run' = <<"openkeep">> \o Tail(run) /\ UNCHANGED phase /\ NoError
    <3>1. run' = <<"openkeep">> /\ UNCHANGED <<callers, code, resume, skips, phase, ecode, stream>>
      <4>1. run' = <<"openkeep">> \o <<>>
        BY <2>1, <2>2, Zenon
      <4>2. <<"openkeep">> \in Seq({"openkeep"})
        OBVIOUS
      <4>3. run' = <<"openkeep">>
        BY <4>1, <4>2, ConcatEmptySeq
      <4> QED BY <1>20, <2>2, <4>3 DEF CPP_include, ReadsOn, NoError
    <3>2. "openkeep" \in Ops /\ Fits("openkeep", (CellsFrom(pTIB))', skips')
      BY DEF Ops, Fits, Namers, Skippers
    <3>3. Pending(run', resume', (CellsFrom(pTIB))', skips')
      BY <2>1, <3>1, <3>2, PendingLast
    <3>4. phase = "run"
      BY <1>20 DEF CPP_include, Runs
    <3> QED BY <3>1, <3>3, <3>4 DEF ReadingInv
  <2>3. CASE NoName
    BY <1>20, <2>1, <2>3, NamesHere, FailsReading DEF CPP_include, ReadsOn, Namers, ReadingInv
  <2> QED BY <1>20, <2>2, <2>3 DEF CPP_include
<1>21. ASSUME TextReturns PROVE ReadingInv'
  <2>1. callers # <<>> /\ Caller = callers[Len(callers)] /\ Len(callers) \in 1 .. Len(callers)
    BY <1>21, CallerGoesOn
  <2>2. Len(callers') = Len(callers) - 1
        /\ \A i \in 1 .. (Len(callers) - 1) : callers'[i] = callers[i]
    BY <1>21, CallerGoesOn
  <2>3. CallerOk(Caller) /\ \A i \in 1 .. Len(callers') : CallerOk(callers'[i])
    <3>1. \A i \in 1 .. Len(callers') : i \in 1 .. Len(callers) /\ i \in 1 .. (Len(callers) - 1)
      BY <2>1, <2>2
    <3> QED BY <2>1, <2>2, <3>1 DEF ReadingInv
  <2>4. /\ stream'.line = Caller.stream.line /\ stream'.lines = Caller.stream.lines
        /\ stream'.good = Caller.stream.good
        /\ code' = Caller.code /\ run' = Caller.run
        /\ resume' = Caller.resume /\ skips' = Caller.skips /\ ecode' = ecode
        /\ phase' = IF ecode = "ok" THEN "run" ELSE "return"
    BY <1>21, CallerGoesOn DEF TextReturns, NoError
  <2>5. phase' = "run" => Pending(run', resume', (CellsFrom(pTIB))', skips')
    <3>1. SUFFICES ASSUME ecode = "ok" PROVE Pending(run', resume', (CellsFrom(pTIB))', skips')
      BY <2>4
    <3>2. CASE PutsBack /\ TIB' = Written(Caller.saved) /\ pTIB' = 1
      <4>1. IsLine(Caller.saved) /\ Len(Caller.saved) < Size
        BY <2>1 DEF TypeInv, IsSaved
      <4>2. (CellsFrom(pTIB))' = Caller.saved
        BY <1>0, <3>2, <4>1, CellsFromNext, WrittenIs
      <4> QED BY <2>3, <2>4, <4>2 DEF CallerOk
    <3>3. CASE ~PutsBack
      <4>1. Caller.kind = "included"
        <5>0. Caller \in Frames
          BY <1>0, <2>1, FrontIs DEF Caller
        <5>1. Caller.kind \in {"evaluate", "included", "include"}
          BY <5>0 DEF Frames
        <5> QED BY <3>1, <3>3, <5>1 DEF PutsBack
      <4>2. run' = <<>> /\ resume' = "scan"
        BY <2>3, <2>4, <4>1 DEF CallerOk
      <4> QED BY <4>2, PendingNone
    <3> QED BY <1>21, <3>2, <3>3 DEF TextReturns
  <2> QED BY <1>0, <2>3, <2>4, <2>5 DEF ReadingInv, CallerOk
<1>22. ASSUME MainReturns PROVE ReadingInv'
  <2>1. /\ callers' = <<>> /\ code' = <<>> /\ phase' = "prompt" /\ ecode' = "ok" /\ stream' = stream
    BY <1>22 DEF MainReturns
  <2> QED BY <2>1, PendingNone DEF ReadingInv
<1> QED BY <1>1, <1>2, <1>3, <1>4, <1>5, <1>6, <1>7, <1>8, <1>9, <1>10, <1>11, <1>12, <1>13,
           <1>16, <1>17, <1>18, <1>19, <1>20, <1>21, <1>22 DEF Next, Compiler, Forth

-----------------------------------------------------------------------------
(* vmc.c: ExtractName() returns a pointer to the next position in the      *)
(* string.  When words that take a name have one, or nothing, after them,  *)
(* it does: pTIB stays in its line, whatever older lines left behind it.   *)
THEOREM StaysInLineCorrect ==
  ASSUME KeepsRules PROVE Spec => StaysInLine
<1>1. TypeInv /\ ReadingInv /\ [Next]_vars =>
        [TIB' = TIB /\ pTIB' > pTIB => \A i \in pTIB .. (pTIB' - 1) : TIB[i] # NUL]_vars
  <2> SUFFICES ASSUME TypeInv, ReadingInv, Next, TIB' = TIB, pTIB' > pTIB
               PROVE  \A i \in pTIB .. (pTIB' - 1) : TIB[i] # NUL
    BY DEF vars
  <2>0. pTIB \in 1 .. Size /\ Buffer(TIB)
    BY DEF TypeInv, TypeOK
  <2>1. CASE pTIB' = pTIB + 1 /\ TIB[pTIB] # NUL
    BY <2>0, <2>1
  <2>2. ASSUME pTIB' = 1 PROVE FALSE
    BY <2>0, <2>2
  <2>3. ASSUME pTIB' = pTIB PROVE FALSE
    BY <2>0, <2>3
  <2>4. \A j \in pTIB .. (pTIB + Len(CellsFrom(pTIB)) - 1) : TIB[j] # NUL
    BY <2>0, CellsFromIn, CellsProps
  <2>5. Len(CellsFrom(pTIB)) \in Nat
    BY <2>0, CellsFromIn, CellsProps
  <2>6. ASSUME NEW op, Runs(op), op \in Namers,
               (\E i \in ExtractName : pTIB' = i + 1) \/ NoName
        PROVE  pTIB' = pTIB + 1 /\ TIB[pTIB] # NUL
    <3>1. Fits(Head(run), CellsFrom(pTIB), skips) /\ Head(run) = op
      BY <2>6, RunsHead DEF Namers
    <3>2. CASE \E i \in ExtractName : pTIB' = i + 1
      BY <2>6, <3>1, <3>2, NamesHere, CellKinds
    <3>3. CASE NoName
      BY <2>3, <2>6, <3>1, <3>3, NamesHere
    <3> QED BY <2>6, <3>2, <3>3
  <2>7. CASE PassBlank
    BY <2>1, <2>7, CellKinds DEF PassBlank
  <2>8. ASSUME NEW kind, TakesWord(kind) PROVE pTIB' = pTIB + 1 /\ TIB[pTIB] # NUL
    BY <2>8, CellKinds DEF TakesWord
  <2>9. CASE UnknownWord \/ \E kind \in Kinds : Compile(kind) \/ ExecuteUpTo(kind) \/ ExecuteCurrent(kind)
    BY <2>1, <2>8, <2>9 DEF UnknownWord, Compile, ExecuteUpTo, ExecuteCurrent
  <2>10. CASE CPP_create
    BY <2>1, <2>6, <2>10 DEF CPP_create, Namers
  <2>11. CASE CPP_include
    BY <2>1, <2>6, <2>11 DEF CPP_include, Namers
  <2>12. CASE C_parse
    <3>1. pTIB' \in pTIB .. (pTIB + Len(CellsFrom(pTIB)))
      BY <2>12 DEF C_parse
    <3>2. ASSUME NEW p \in Int, NEW n \in Int, NEW q \in p .. (p + n)
          PROVE  \A j \in p .. (q - 1) : j \in p .. (p + n - 1)
      OBVIOUS
    <3>3. pTIB \in Int /\ Len(CellsFrom(pTIB)) \in Int
      BY <2>0, <2>5, SizeNat
    <3>4. \A j \in pTIB .. (pTIB' - 1) : j \in pTIB .. (pTIB + Len(CellsFrom(pTIB)) - 1)
      BY <3>1, <3>2, <3>3
    <3> QED BY <2>4, <3>4
  <2>13. CASE CPP_lparen
    <3>1. CASE \E i \in pTIB .. (pTIB + Len(CellsFrom(pTIB)) - 1) : pTIB' = i + 1
      <4>1. PICK i \in pTIB .. (pTIB + Len(CellsFrom(pTIB)) - 1) : pTIB' = i + 1
        BY <3>1
      <4>2. \A j \in pTIB .. (pTIB' - 1) : j \in pTIB .. (pTIB + Len(CellsFrom(pTIB)) - 1)
        BY <2>0, <2>5, <4>1
      <4> QED BY <2>4, <4>2
    <3> QED BY <2>2, <2>3, <2>13, <3>1 DEF CPP_lparen
  <2>14. CASE NextLine \/ Prompt \/ EndOfLine \/ VmReturns \/ MainReturns \/ L_backslash \/ CPP_refill
    BY <2>2, <2>3, <2>14 DEF NextLine, Prompt, EndOfLine, VmReturns, MainReturns, L_backslash, CPP_refill
  <2>15. CASE CPP_evaluate \/ CPP_included
    BY <2>3, <2>15 DEF CPP_evaluate, CPP_included, Opens
  <2>16. CASE TextReturns
    BY <2>2, <2>3, <2>16 DEF TextReturns
  <2> QED BY <2>7, <2>9, <2>10, <2>11, <2>12, <2>13, <2>14, <2>15, <2>16 DEF Next, Compiler, Forth
<1>2. TypeInv /\ ReadingInv /\ [Next]_vars => TypeInv' /\ ReadingInv'
  BY TypeStep, ReadingStep
<1>3. Init => TypeInv /\ ReadingInv
  BY TypeInit, ReadingInit
<1> QED BY <1>1, <1>2, <1>3, PTL DEF Spec, StaysInLine

-----------------------------------------------------------------------------
(* The refinement: what a step does to the texts *)

(* Texts are being read. *)
Reads == phase # "prompt" /\ ecode = "ok"

LEMMA TextsAre ==
  ASSUME TypeInv, Reads
  PROVE  /\ Texts # <<>> /\ Len(Texts) = Depth /\ Depth \in Nat
         /\ Texts = [i \in 1 .. Depth |->
                       IF i = Depth THEN Text(Rest, stream, skips)
                       ELSE Text(WordsOf(callers[i].saved), callers[i].stream, callers[i].skips)]
<1> DEFINE outer == [i \in 1 .. Len(callers) |->
                       Text(WordsOf(callers[i].saved), callers[i].stream, callers[i].skips)]
<1>1. Len(callers) \in Nat /\ Depth = Len(callers) + 1
  BY DEF TypeInv, TypeOK, Depth
<1>2. Texts = Append(outer, Text(Rest, stream, skips))
  BY DEF Texts, Reads
<1>3. outer \in Seq({outer[i] : i \in 1 .. Len(callers)}) /\ Len(outer) = Len(callers)
  BY <1>1
<1>4. \A i \in 1 .. Len(callers) :
        outer[i] = Text(WordsOf(callers[i].saved), callers[i].stream, callers[i].skips)
  OBVIOUS
<1> HIDE DEF outer
<1> DEFINE all == [i \in 1 .. Depth |->
                     IF i = Depth THEN Text(Rest, stream, skips)
                     ELSE Text(WordsOf(callers[i].saved), callers[i].stream, callers[i].skips)]
<1> DEFINE S == {outer[i] : i \in 1 .. Len(callers)} \cup {Text(Rest, stream, skips)}
<1>5. Texts \in Seq(S) /\ Len(Texts) = Depth /\ Texts[Depth] = Text(Rest, stream, skips)
      /\ \A i \in 1 .. Len(callers) : Texts[i] = outer[i]
  <2>1. outer \in Seq(S) /\ Text(Rest, stream, skips) \in S
    <3>1. \A i \in 1 .. Len(callers) : outer[i] \in S
      OBVIOUS
    <3> QED BY <1>3, <3>1
  <2> HIDE DEF S
  <2> QED BY <1>1, <1>2, <1>3, <2>1, AppendProperties
<1>6. Texts = all
  <2>1. \A i \in 1 .. Depth : i # Depth => i \in 1 .. Len(callers)
    BY <1>1
  <2>2. \A i \in 1 .. Depth : all[i] = Texts[i]
    BY <1>4, <1>5, <2>1
  <2>3. \A i \in 1 .. Depth : all[i] \in S
    BY <1>5, <2>2, <1>1
  <2>4. all \in Seq(S) /\ Len(all) = Depth
    BY <1>1, <2>3
  <2> HIDE DEF all, S
  <2> QED BY <1>1, <1>5, <2>2, <2>4, SeqEqual
<1>7. Len(all) = Depth
  BY <1>1
<1>8. Texts # <<>>
  BY <1>1, <1>5
<1> QED BY <1>1, <1>6, <1>7, <1>8

(* Only the innermost text changes. *)
LEMMA TopChanges ==
  ASSUME TypeInv, TypeInv', Reads, Reads', callers' = callers
  PROVE  /\ Texts' = [Texts EXCEPT ![Len(Texts)] = Text(Rest', stream', skips')]
         /\ Texts # <<>> /\ Len(Texts) = Depth
         /\ Texts[Len(Texts)] = Text(Rest, stream, skips)
<1>1. Len(callers) \in Nat /\ Depth = Len(callers) + 1 /\ Depth' = Depth
  BY DEF TypeInv, TypeOK, Depth
<1>2. /\ Texts # <<>> /\ Len(Texts) = Depth
      /\ Texts = [i \in 1 .. Depth |->
                    IF i = Depth THEN Text(Rest, stream, skips)
                    ELSE Text(WordsOf(callers[i].saved), callers[i].stream, callers[i].skips)]
  BY TextsAre
<1>3. Texts' = [i \in 1 .. Depth |->
                  IF i = Depth THEN Text(Rest', stream', skips')
                  ELSE Text(WordsOf(callers[i].saved), callers[i].stream, callers[i].skips)]
  <2>1. (Texts = [i \in 1 .. Depth |->
                    IF i = Depth THEN Text(Rest, stream, skips)
                    ELSE Text(WordsOf(callers[i].saved), callers[i].stream, callers[i].skips)])'
    BY TextsAre, PTL
  <2> QED BY <1>1, <2>1
<1>4. Depth \in 1 .. Depth
  BY <1>1
<1>5. \A f, x : f = [i \in 1 .. Depth |->
                    IF i = Depth THEN x
                    ELSE Text(WordsOf(callers[i].saved), callers[i].stream, callers[i].skips)]
        => /\ f[Depth] = x
           /\ \A y : [f EXCEPT ![Depth] = y] = [i \in 1 .. Depth |->
                    IF i = Depth THEN y
                    ELSE Text(WordsOf(callers[i].saved), callers[i].stream, callers[i].skips)]
  BY <1>4
<1>6. /\ Texts[Depth] = Text(Rest, stream, skips)
      /\ [Texts EXCEPT ![Depth] = Text(Rest', stream', skips')] = [i \in 1 .. Depth |->
                  IF i = Depth THEN Text(Rest', stream', skips')
                  ELSE Text(WordsOf(callers[i].saved), callers[i].stream, callers[i].skips)]
  BY <1>2, <1>5
<1>7. Texts' = [Texts EXCEPT ![Depth] = Text(Rest', stream', skips')]
  BY <1>3, <1>6
<1> QED BY <1>2, <1>6, <1>7

(* Texts that differ. *)
Differs(r, f, m, r2, l2, m2) ==
  /\ [Text(r, f, m) EXCEPT !.rest = r2] = Text(r2, f, m)
  /\ [Text(r, f, m) EXCEPT !.rest = r2, !.skips = m2] = Text(r2, f, m2)
  /\ [Text(r, f, m) EXCEPT !.rest = r2, !.line = l2] =
       [rest |-> r2, line |-> l2, lines |-> f.lines, skips |-> m]

LEMMA TextExcept == \A r, f, m, r2, l2, m2 : Differs(r, f, m, r2, l2, m2)
<1> TAKE r, f, m, r2, l2, m2
<1> DEFINE u == [Text(r, f, m) EXCEPT !.rest = r2]
<1>1. u = Text(r2, f, m)
  BY DEF Text
<1>2. [u EXCEPT !.skips = m2] = Text(r2, f, m2)
  <2> HIDE DEF u
  <2> QED BY <1>1 DEF Text
<1>3. [u EXCEPT !.line = l2] = [rest |-> r2, line |-> l2, lines |-> f.lines, skips |-> m]
  <2> HIDE DEF u
  <2> QED BY <1>1 DEF Text
<1> QED BY <1>1, <1>2, <1>3, Zenon DEF Differs

(* A word is taken. *)
LEMMA TakesStep ==
  ASSUME TypeInv, TypeInv', Reads, Reads', UNCHANGED <<callers, stream>>,
         Rest # <<>>, Rest' = Tail(Rest)
  PROVE  Promise!Next
<1>1. /\ Texts' = [Texts EXCEPT ![Len(Texts)] = Text(Rest', stream', skips')]
      /\ Texts # <<>> /\ Texts[Len(Texts)] = Text(Rest, stream, skips)
  BY TopChanges
<1>2. skips' \in BOOLEAN
  BY DEF TypeInv, TypeOK
<1>4. Text(Rest, stream, skips).rest = Rest
  BY DEF Text
<1>3. Text(Rest', stream', skips') =
        [Text(Rest, stream, skips) EXCEPT !.rest = Tail(@), !.skips = skips']
  <2>1. [Text(Rest, stream, skips) EXCEPT !.rest = Rest', !.skips = skips'] = Text(Rest', stream, skips')
    <3>1. Differs(Rest, stream, skips, Rest', stream.line + 1, skips')
      BY TextExcept
    <3> QED BY <3>1, Zenon DEF Differs
  <2>2. stream' = stream
    OBVIOUS
  <2>3. Rest' = Tail(Text(Rest, stream, skips).rest)
    BY <1>4, Zenon
  <2> QED BY <2>1, <2>2, <2>3, Zenon
<1>5. (ecode # "ok")' = (ecode # "ok")
  BY DEF Reads
<1> HIDE DEF Texts
<1>6. Promise!TakeWord
  BY <1>1, <1>2, <1>3, <1>4, <1>5 DEF Promise!TakeWord, Promise!Reads, Promise!Top, Promise!Depth
<1> QED BY <1>6 DEF Promise!Next

(* The rest of the line, or some of it, is passed. *)
LEMMA SkipsStep ==
  ASSUME TypeInv, TypeInv', Reads, Reads', UNCHANGED callers, skips, skips',
         stream'.line = stream.line, stream'.lines = stream.lines,
         \E i \in 1 .. (Len(Rest) + 1) : Rest' = SubSeq(Rest, i, Len(Rest))
  PROVE  Promise!Next
<1>1. /\ Texts' = [Texts EXCEPT ![Len(Texts)] = Text(Rest', stream', skips')]
      /\ Texts # <<>> /\ Texts[Len(Texts)] = Text(Rest, stream, skips)
  BY TopChanges
<1>2. skips = TRUE /\ skips' = TRUE
  BY DEF TypeInv, TypeOK
<1>3. Text(Rest', stream', skips') = [Text(Rest, stream, skips) EXCEPT !.rest = Rest']
  <2>1. [Text(Rest, stream, skips) EXCEPT !.rest = Rest'] = Text(Rest', stream, skips)
    <3>1. Differs(Rest, stream, skips, Rest', stream.line + 1, skips')
      BY TextExcept
    <3> QED BY <3>1, Zenon DEF Differs
  <2>2. Text(Rest', stream', skips') = Text(Rest', stream, skips)
    BY <1>2 DEF Text
  <2> QED BY <2>1, <2>2, Zenon
<1>4. Text(Rest, stream, skips).rest = Rest /\ Text(Rest, stream, skips).skips
  BY <1>2 DEF Text
<1>5. (ecode # "ok")' = (ecode # "ok")
  BY DEF Reads
<1>6. Rest' \in Promise!Suffixes(Text(Rest, stream, skips).rest)
  BY <1>4 DEF Promise!Suffixes
<1> HIDE DEF Texts
<1>7. Promise!Top = Text(Rest, stream, skips)
  BY <1>1 DEF Promise!Top, Promise!Depth
<1>8. Text(Rest', stream', skips') \in Promise!Remaining
  BY <1>3, <1>6, <1>7 DEF Promise!Remaining
<1>9. Promise!Reads(Text(Rest', stream', skips'))
  BY <1>1, <1>5 DEF Promise!Reads, Promise!Depth
<1>10. Promise!Skip
  BY <1>1, <1>4, <1>7, <1>8, <1>9 DEF Promise!Skip
<1> QED BY <1>10 DEF Promise!Next

(* The next line is at hand, where the last one had ended, or was passed.  *)
LEMMA LineStep ==
  ASSUME TypeInv, TypeInv', Reads, Reads', UNCHANGED <<callers, skips>>, skips \/ Rest = <<>>,
         stream'.line = stream.line + 1, stream'.lines = stream.lines, stream.line < stream.lines,
         \E k \in 0 .. MaxWords : Rest' = Line(stream.line + 1, k)
  PROVE  Promise!Next
<1>1. /\ Texts' = [Texts EXCEPT ![Len(Texts)] = Text(Rest', stream', skips')]
      /\ Texts # <<>> /\ Texts[Len(Texts)] = Text(Rest, stream, skips) /\ Len(Texts) = Depth
  BY TopChanges
<1>2. stream'.line = stream.line + 1 /\ stream'.lines = stream.lines
  OBVIOUS
<1>3. Text(Rest', stream', skips') =
        [Text(Rest, stream, skips) EXCEPT !.rest = Rest', !.line = @ + 1]
  <2>1. [Text(Rest, stream, skips) EXCEPT !.rest = Rest', !.line = stream.line + 1] =
          [rest |-> Rest', line |-> stream.line + 1, lines |-> stream.lines, skips |-> skips]
    <3>1. Differs(Rest, stream, skips, Rest', stream.line + 1, skips')
      BY TextExcept
    <3> QED BY <3>1, Zenon DEF Differs
  <2>2. Text(Rest', stream', skips') =
          [rest |-> Rest', line |-> stream.line + 1, lines |-> stream.lines, skips |-> skips]
    BY <1>2 DEF Text
  <2>3. Text(Rest, stream, skips).line = stream.line
    BY DEF Text
  <2> QED BY <2>1, <2>2, <2>3, Zenon
<1>4. /\ Text(Rest, stream, skips).rest = Rest /\ (Text(Rest, stream, skips).skips <=> skips)
      /\ Text(Rest, stream, skips).line = stream.line /\ Text(Rest, stream, skips).lines = stream.lines
  BY DEF Text
<1>5. (ecode # "ok")' = (ecode # "ok")
  BY DEF Reads
<1> HIDE DEF Texts
<1>6. PICK k \in 0 .. MaxWords : Rest' = Line(stream.line + 1, k)
  OBVIOUS
<1>7. Promise!Top = Text(Rest, stream, skips) /\ Promise!Depth = Depth
  BY <1>1 DEF Promise!Top, Promise!Depth
<1>8. Promise!Words(Promise!Depth, Promise!Top.line + 1, k) = Rest'
  BY <1>4, <1>6, <1>7 DEF Promise!Words, Line
<1>9. Text(Rest', stream', skips') \in Promise!Following
  BY <1>3, <1>7, <1>8 DEF Promise!Following
<1>10. Promise!Reads(Text(Rest', stream', skips'))
  BY <1>1, <1>5 DEF Promise!Reads, Promise!Depth
<1>11. CASE Rest = <<>>
  <2>1. Promise!NextLine
    BY <1>1, <1>4, <1>7, <1>9, <1>10, <1>11 DEF Promise!NextLine
  <2> QED BY <2>1 DEF Promise!Next
<1>12. CASE skips
  <2>1. Promise!Skip
    BY <1>1, <1>4, <1>7, <1>9, <1>10, <1>12 DEF Promise!Skip
  <2> QED BY <2>1 DEF Promise!Next
<1> QED BY <1>11, <1>12

(* Nothing happens to the texts. *)
LEMMA StutterStep ==
  ASSUME TypeInv, TypeInv', Reads, Reads', UNCHANGED <<callers, skips>>, Rest' = Rest,
         stream'.line = stream.line, stream'.lines = stream.lines
  PROVE  UNCHANGED <<Texts, ecode # "ok">>
<1>1. /\ Texts' = [Texts EXCEPT ![Len(Texts)] = Text(Rest', stream', skips')]
      /\ Texts # <<>> /\ Texts[Len(Texts)] = Text(Rest, stream, skips)
  BY TopChanges
<1>2. Text(Rest', stream', skips') = Text(Rest, stream, skips)
  BY DEF Text
<1>3. \A f, d : f = [f EXCEPT ![d] = f[d]] \/ ~ (\E S : f \in [S -> {f[x] : x \in S}])
  OBVIOUS
<1>4. \E S : Texts \in [S -> {Texts[x] : x \in S}]
  <2>1. Texts = [i \in 1 .. Depth |->
                    IF i = Depth THEN Text(Rest, stream, skips)
                    ELSE Text(WordsOf(callers[i].saved), callers[i].stream, callers[i].skips)]
    BY TextsAre
  <2> HIDE DEF Texts
  <2> QED BY <2>1
<1>5. (ecode # "ok")' = (ecode # "ok")
  BY DEF Reads
<1> QED BY <1>1, <1>2, <1>3, <1>4, <1>5

(* An error abandons all texts. *)
LEMMA FailStep ==
  ASSUME TypeInv, Reads, ecode' = "error"
  PROVE  Promise!Next
<1>1. Texts # <<>>
  BY TextsAre
<1>2. Texts' = <<>>
  BY DEF Texts
<1>3. (ecode # "ok")' = TRUE
  OBVIOUS
<1> HIDE DEF Texts
<1>4. Promise!Fail
  BY <1>1, <1>2, <1>3 DEF Promise!Fail
<1> QED BY <1>4 DEF Promise!Next

(* A text is opened in the one at hand. *)
LEMMA OpensStep ==
  ASSUME TypeInv, TypeInv', Reads, Reads', phase = "run", NEW saved, NEW f,
         callers' = Append(callers, f), f.saved = saved, f.stream = stream, f.skips = skips,
         WordsOf(saved) = Rest, Rest' = <<>>, skips' = FALSE,
         NEW n \in 0 .. MaxLines, stream'.lines = n, stream'.line = 0
  PROVE  Promise!Next
<1> DEFINE new == [rest |-> <<>>, line |-> 0, lines |-> n, skips |-> FALSE]
<1>1. /\ callers \in Seq(Frames) /\ Len(callers) \in Nat /\ Depth = Len(callers) + 1
      /\ Depth' = Len(callers') + 1
  BY DEF TypeInv, TypeOK, Depth
<1>2. /\ Len(callers') = Depth /\ callers'[Depth] = f
      /\ \A i \in 1 .. Len(callers) : callers'[i] = callers[i]
  BY <1>1, AppendIs
<1>3. /\ Texts # <<>> /\ Len(Texts) = Depth
      /\ Texts = [i \in 1 .. Depth |->
                    IF i = Depth THEN Text(Rest, stream, skips)
                    ELSE Text(WordsOf(callers[i].saved), callers[i].stream, callers[i].skips)]
  BY TextsAre
<1>4. (Texts = [i \in 1 .. Depth |->
                  IF i = Depth THEN Text(Rest, stream, skips)
                  ELSE Text(WordsOf(callers[i].saved), callers[i].stream, callers[i].skips)])'
  BY TextsAre, PTL
<1>5. Depth' = Depth + 1
  BY <1>1, <1>2
<1>6. Text(Rest', stream', skips') = new
  BY DEF Text
<1>7. Texts' = [i \in 1 .. (Depth + 1) |-> IF i = Depth + 1 THEN new ELSE Texts[i]]
  <2>1. ASSUME NEW i \in 1 .. (Depth + 1), i # Depth + 1
        PROVE  Text(WordsOf(callers'[i].saved), callers'[i].stream, callers'[i].skips) = Texts[i]
    <3>1. CASE i = Depth
      <4>1. Texts[i] = Text(Rest, stream, skips)
        BY <1>1, <1>3, <3>1
      <4> QED BY <1>2, <3>1, <4>1
    <3>2. CASE i \in 1 .. Len(callers)
      <4>1. Texts[i] = Text(WordsOf(callers[i].saved), callers[i].stream, callers[i].skips)
        BY <1>1, <1>3, <3>2
      <4> QED BY <1>2, <3>2, <4>1
    <3> QED BY <1>1, <2>1, <3>1, <3>2
  <2> HIDE DEF new
  <2>2. Texts' = [i \in 1 .. (Depth + 1) |-> IF i = Depth + 1 THEN new
          ELSE Text(WordsOf(callers'[i].saved), callers'[i].stream, callers'[i].skips)]
    BY <1>4, <1>5, <1>6
  <2> QED BY <2>1, <2>2
<1>8. Texts' = Append(Texts, new)
  <2> HIDE DEF new
  <2> DEFINE S == {Texts[i] : i \in 1 .. Depth} \cup {new}
  <2>1. Texts \in Seq(S) /\ new \in S
    <3>1. \A i \in 1 .. Depth : Texts[i] \in S
      OBVIOUS
    <3>2. Texts = [i \in 1 .. Depth |-> Texts[i]]
      BY <1>3
    <3> HIDE DEF Texts
    <3>3. [i \in 1 .. Depth |-> Texts[i]] \in Seq(S)
      BY <1>1, <3>1
    <3> QED BY <3>2, <3>3
  <2> HIDE DEF S, Texts
  <2>3. /\ Append(Texts, new) \in Seq(S) /\ Len(Append(Texts, new)) = Depth + 1
        /\ Append(Texts, new)[Depth + 1] = new
        /\ \A i \in 1 .. Depth : Append(Texts, new)[i] = Texts[i]
    <3>1. Len(Texts) = Depth
      BY <1>3
    <3> QED BY <2>1, <3>1, AppendProperties
  <2>4. \A i \in 1 .. (Depth + 1) : Texts'[i] = Append(Texts, new)[i]
    BY <1>1, <1>7, <2>3
  <2>5. Append(Texts, new) = [i \in 1 .. (Depth + 1) |-> Append(Texts, new)[i]]
    <3>1. ASSUME NEW s \in Seq(S) PROVE s = [i \in 1 .. Len(s) |-> s[i]]
      OBVIOUS
    <3> QED BY <2>3, <3>1
  <2> QED BY <1>7, <2>4, <2>5
<1>9. ecode = "ok" /\ ecode' = "ok"
  BY DEF Reads
<1> HIDE DEF Texts
<1>10. Promise!Open
  BY <1>8, <1>9 DEF Promise!Open
<1> QED BY <1>10 DEF Promise!Next

(* A text is at its end, and the one around it goes on. *)
LEMMA CloseStep ==
  ASSUME TypeInv, TypeInv', Reads, Reads', TextReturns, Rest = <<>>, stream.line = stream.lines,
         Rest' = WordsOf(Caller.saved)
  PROVE  Promise!Next
<1> DEFINE n == Len(callers)
<1>1. /\ n \in Nat /\ n >= 1 /\ Depth = n + 1 /\ Caller = callers[n] /\ Depth' = n
      /\ \A i \in 1 .. (n - 1) : callers'[i] = callers[i]
  BY CallerGoesOn DEF TypeInv, TypeOK, Depth
<1>2. /\ stream'.line = Caller.stream.line /\ stream'.lines = Caller.stream.lines
      /\ skips' = Caller.skips
  BY CallerGoesOn DEF TextReturns
<1>3. /\ Texts # <<>> /\ Len(Texts) = n + 1
      /\ Texts = [i \in 1 .. (n + 1) |->
                    IF i = n + 1 THEN Text(Rest, stream, skips)
                    ELSE Text(WordsOf(callers[i].saved), callers[i].stream, callers[i].skips)]
  BY <1>1, TextsAre
<1>4. Texts' = [i \in 1 .. n |->
                  IF i = n THEN Text(Rest', stream', skips')
                  ELSE Text(WordsOf(callers'[i].saved), callers'[i].stream, callers'[i].skips)]
  <2>1. (Texts = [i \in 1 .. Depth |->
                    IF i = Depth THEN Text(Rest, stream, skips)
                    ELSE Text(WordsOf(callers[i].saved), callers[i].stream, callers[i].skips)])'
    BY TextsAre, PTL
  <2> QED BY <1>1, <2>1
<1>5. Text(Rest', stream', skips') =
        Text(WordsOf(callers[n].saved), callers[n].stream, callers[n].skips)
  BY <1>1, <1>2 DEF Text
<1> HIDE DEF n
<1>6. Texts' = [i \in 1 .. n |-> Texts[i]]
  <2>1. ASSUME NEW i \in 1 .. n
        PROVE  Texts[i] = IF i = n THEN Text(Rest', stream', skips')
                          ELSE Text(WordsOf(callers'[i].saved), callers'[i].stream, callers'[i].skips)
    <3>1. Texts[i] = Text(WordsOf(callers[i].saved), callers[i].stream, callers[i].skips)
      BY <1>1, <1>3, <2>1
    <3>2. i # n => i \in 1 .. (n - 1)
      BY <1>1, <2>1
    <3> QED BY <1>1, <1>5, <3>1, <3>2
  <2> QED BY <1>4, <2>1
<1> HIDE DEF Texts
<1>7. SubSeq(Texts, 1, n) = [i \in 1 .. n |-> Texts[i]]
  <2> DEFINE S == {Texts[i] : i \in 1 .. (n + 1)}
  <2>1. Texts \in Seq(S)
    <3>1. Texts = [i \in 1 .. (n + 1) |-> Texts[i]]
      BY <1>3
    <3>2. [i \in 1 .. (n + 1) |-> Texts[i]] \in Seq(S)
      BY <1>1
    <3> QED BY <3>1, <3>2
  <2> HIDE DEF S
  <2> QED BY <1>1, <1>3, <2>1
<1>8. Texts[n + 1] = Text(Rest, stream, skips)
  BY <1>1, <1>3
<1>9. /\ Text(Rest, stream, skips).rest = <<>>
      /\ Text(Rest, stream, skips).line = stream.line /\ Text(Rest, stream, skips).lines = stream.lines
  BY DEF Text
<1>10. Promise!Top = Text(Rest, stream, skips) /\ Promise!Depth = n + 1
  BY <1>3, <1>8 DEF Promise!Top, Promise!Depth
<1>11. (ecode # "ok")' = (ecode # "ok")
  BY DEF Reads
<1>12. Promise!Close
  <2>1. (n + 1) - 1 = n
    BY <1>1
  <2> QED BY <1>3, <1>6, <1>7, <1>9, <1>10, <1>11, <2>1 DEF Promise!Close
<1> QED BY <1>12 DEF Promise!Next

(* No text is being read: at the prompt, and while an error is on its way. *)
LEMMA TextsNone ==
  ASSUME phase = "prompt" \/ ecode # "ok" PROVE Texts = <<>>
  BY DEF Texts

(* main() takes a line. *)
LEMMA PromptStep ==
  ASSUME TypeInv, TypeInv', ReadingInv, Prompt
  PROVE  Promise!Next
<1>1. /\ phase = "prompt" /\ callers = <<>> /\ callers' = <<>> /\ ecode = "ok" /\ ecode' = "ok"
      /\ phase' = "getline" /\ skips' = FALSE
  BY DEF Prompt, NoError, ReadingInv
<1>2. PICK n \in 1 .. ConsoleLines : stream' = [lines |-> n, line |-> 0, good |-> TRUE, extra |-> 0]
  BY DEF Prompt
<1>3. n \in 0 .. MaxLines
  BY InputAssumption
<1> DEFINE new == [rest |-> <<>>, line |-> 0, lines |-> n, skips |-> FALSE]
<1>4. Texts = <<>>
  BY <1>1, TextsNone
<1>5. Texts' = <<new>>
  <2>1. Depth' = 1 /\ Reads'
    BY <1>1 DEF Depth, Reads
  <2>2. (Texts = [i \in 1 .. Depth |->
                    IF i = Depth THEN Text(Rest, stream, skips)
                    ELSE Text(WordsOf(callers[i].saved), callers[i].stream, callers[i].skips)])'
    BY <2>1, TextsAre, PTL
  <2>3. Rest' = <<>>
    BY <1>1 DEF Rest
  <2>4. Text(Rest', stream', skips') = new
    BY <1>1, <1>2, <2>3 DEF Text
  <2> HIDE DEF new
  <2>5. Texts' = [i \in 1 .. 1 |-> new]
    BY <2>1, <2>2, <2>4
  <2> QED BY <2>5
<1> HIDE DEF Texts
<1>6. Promise!Open
  <2>1. Texts' = Append(Texts, new)
    BY <1>4, <1>5
  <2> QED BY <1>1, <1>3, <2>1 DEF Promise!Open
<1> QED BY <1>6 DEF Promise!Next

(* main() is back: the line is at its end, or the error is reported. *)
LEMMA MainStep ==
  ASSUME TypeInv, ReadingInv, MainReturns
  PROVE  Promise!Next
<1>1. phase = "return" /\ callers = <<>> /\ phase' = "prompt" /\ ecode' = "ok"
  BY DEF MainReturns
<1>2. Texts' = <<>>
  BY <1>1 DEF Texts
<1>3. CASE ecode = "ok"
  <2>1. Reads /\ Depth = 1 /\ Rest = <<>> /\ stream.line = stream.lines
    BY <1>1, <1>3 DEF Reads, Depth, Rest, ReadingInv
  <2>2. /\ Texts # <<>> /\ Len(Texts) = 1
        /\ Texts = [i \in 1 .. 1 |->
                      IF i = 1 THEN Text(Rest, stream, skips)
                      ELSE Text(WordsOf(callers[i].saved), callers[i].stream, callers[i].skips)]
    BY <2>1, TextsAre
  <2>3. Texts[1] = Text(Rest, stream, skips)
    BY <2>2
  <2>4. /\ Text(Rest, stream, skips).rest = <<>>
        /\ Text(Rest, stream, skips).line = stream.line /\ Text(Rest, stream, skips).lines = stream.lines
    BY <2>1 DEF Text
  <2> HIDE DEF Texts
  <2>5. Promise!Top = Text(Rest, stream, skips) /\ Promise!Depth = 1
    BY <2>2, <2>3 DEF Promise!Top, Promise!Depth
  <2>6. SubSeq(Texts, 1, 0) = <<>>
    <3>1. Texts \in Seq({Texts[1]})
      <4>1. Texts = [i \in 1 .. 1 |-> Texts[1]]
        <5>1. ASSUME NEW f, NEW x, f = [i \in 1 .. 1 |-> IF i = 1 THEN x
                      ELSE Text(WordsOf(callers[i].saved), callers[i].stream, callers[i].skips)]
              PROVE  f = [i \in 1 .. 1 |-> f[1]]
          BY <5>1
        <5> QED BY <2>2, <5>1
      <4>2. [i \in 1 .. 1 |-> Texts[1]] \in Seq({Texts[1]})
        OBVIOUS
      <4> QED BY <4>1, <4>2
    <3> QED BY <3>1
  <2>7. Promise!Close
    <3>1. 1 - 1 = 0
      OBVIOUS
    <3> QED BY <1>1, <1>2, <1>3, <2>1, <2>2, <2>4, <2>5, <2>6, <3>1 DEF Promise!Close
  <2> QED BY <2>7 DEF Promise!Next
<1>4. CASE ecode # "ok"
  <2>1. Texts = <<>>
    BY <1>4, TextsNone
  <2> HIDE DEF Texts
  <2>2. Promise!Report
    BY <1>1, <1>2, <1>4, <2>1 DEF Promise!Report
  <2> QED BY <2>2 DEF Promise!Next
<1> QED BY <1>3, <1>4

-----------------------------------------------------------------------------
(* The refinement: what each action is *)

(* The rest of the line at hand, before and after. *)
LEMMA RestIs ==
  ASSUME TypeInv, phase \in {"scan", "run"}
  PROVE  Rest = WordsOf(CellsFrom(pTIB)) /\ IsLine(CellsFrom(pTIB)) /\ pTIB \in 1 .. Size
<1>1. pTIB \in 1 .. Size /\ Buffer(TIB)
  BY DEF TypeInv, TypeOK
<1>2. IsLine(CellsFrom(pTIB))
  BY <1>1, CellsFromIn, CellsLine
<1> QED BY <1>1, <1>2 DEF Rest

LEMMA RestNext ==
  ASSUME phase' \in {"scan", "run"} PROVE Rest' = WordsOf(CellsIn(TIB', pTIB'))
<1>1. Rest' = (WordsOf(CellsFrom(pTIB)))'
  BY DEF Rest
<1>2. (WordsOf(CellsFrom(pTIB)))' = WordsOf((CellsFrom(pTIB))')
  BY DEF WordsOf
<1> QED BY <1>1, <1>2, CellsFromNext

(* One word on in the line. *)
LEMMA RestTail ==
  ASSUME TypeInv, phase \in {"scan", "run"}, TIB[pTIB] \in Word,
         TIB' = TIB, pTIB' = pTIB + 1, phase' \in {"scan", "run"}
  PROVE  Rest # <<>> /\ Rest' = Tail(Rest)
<1>1. pTIB \in 1 .. Size /\ Buffer(TIB) /\ TIB[pTIB] # NUL
  BY CellKinds DEF TypeInv, TypeOK
<1>2. /\ CellsFrom(pTIB) # <<>> /\ CellsFrom(pTIB)[1] \in Word
      /\ CellsIn(TIB, pTIB + 1) = Tail(CellsFrom(pTIB))
  BY <1>1, CellsFromIn, CellsTail
<1>3. Rest = WordsOf(CellsFrom(pTIB)) /\ IsLine(CellsFrom(pTIB))
  BY RestIs
<1>4. Rest' = WordsOf(Tail(CellsFrom(pTIB)))
  BY <1>2, RestNext
<1> QED BY <1>2, <1>3, <1>4, WordsTail

(* Some cells on in the line. *)
LEMMA RestFurther ==
  ASSUME TypeInv, phase \in {"scan", "run"}, TIB' = TIB, phase' \in {"scan", "run"},
         NEW k \in 0 .. Len(CellsFrom(pTIB)), pTIB' = pTIB + k
  PROVE  \E i \in 1 .. (Len(Rest) + 1) : Rest' = SubSeq(Rest, i, Len(Rest))
<1>1. pTIB \in 1 .. Size /\ Buffer(TIB)
  BY DEF TypeInv, TypeOK
<1>2. CellsIn(TIB, pTIB + k) = SubSeq(CellsFrom(pTIB), k + 1, Len(CellsFrom(pTIB)))
  BY <1>1, CellsFromIn, CellsFurther
<1>3. Rest = WordsOf(CellsFrom(pTIB)) /\ IsLine(CellsFrom(pTIB))
  BY RestIs
<1>4. Rest' = WordsOf(SubSeq(CellsFrom(pTIB), k + 1, Len(CellsFrom(pTIB))))
  BY <1>2, RestNext
<1> QED BY <1>3, <1>4, WordsFurther

(* Nothing is left of the line. *)
LEMMA NoneIsRest ==
  ASSUME TypeInv, NEW w, w = <<>>, Reads
  PROVE  \E i \in 1 .. (Len(Rest) + 1) : w = SubSeq(Rest, i, Len(Rest))
<1>1. Rest \in Seq(Word)
  <2>1. CASE phase \in {"scan", "run"}
    BY <2>1, RestIs, WordsAre
  <2>2. CASE phase \notin {"scan", "run"}
    BY <2>2 DEF Rest
  <2> QED BY <2>1, <2>2
<1> HIDE DEF Rest
<1>2. Len(Rest) \in Nat /\ SubSeq(Rest, Len(Rest) + 1, Len(Rest)) = <<>>
  BY <1>1
<1>3. Len(Rest) + 1 \in 1 .. (Len(Rest) + 1)
  BY <1>2
<1> QED BY <1>2, <1>3

(* A line that was got is at hand. *)
LEMMA GetsRest ==
  ASSUME TypeInv, GetsLine, pTIB' = 1, phase' \in {"scan", "run"}
  PROVE  \E k \in 0 .. MaxWords : Rest' = Line(stream.line + 1, k)
<1>1. PICK cells \in Lines(stream.line + 1) : TIB' = Written(cells)
  BY DEF GetsLine
<1>2. stream.line + 1 \in 1 .. MaxLines /\ Buffer(TIB)
  BY GetsLineType DEF TypeInv
<1>3. Depth \in 1 .. MaxDepth
  BY InputAssumption DEF Depth, TypeInv, TypeOK
<1>4. /\ IsLine(cells) /\ Len(cells) < Size
      /\ \E k \in 0 .. MaxWords : WordsOf(cells) = Line(stream.line + 1, k)
  BY <1>2, <1>3, LinesLine
<1>5. CellsIn(TIB', pTIB') = cells
  BY <1>1, <1>2, <1>4, WrittenIs
<1>6. Rest' = WordsOf(cells)
  BY <1>5, RestNext
<1> QED BY <1>4, <1>6

(* getline() found no line: there is none, and nothing is at hand. *)
LEMMA NoLineRest ==
  ASSUME KeepsRules, TypeInv, GetlineFails, pTIB' = 1, phase' \in {"scan", "run"}
  PROVE  Rest' = <<>>
<1>1. TIB' = Written(<<>>) /\ Buffer(TIB)
  BY GetlineFailsType DEF KeepsRules, TypeInv
<1>2. CellsIn(TIB', pTIB') = <<>>
  BY <1>1, EmptyLine, WrittenIs
<1>3. WordsOf(<<>>) = <<>>
  BY EmptyLine, WordsNone
<1> QED BY <1>2, <1>3, RestNext

LEMMA SameStream ==
  ASSUME TypeInv, GetlineFails PROVE stream'.line = stream.line /\ stream'.lines = stream.lines
<1>1. stream' = [stream EXCEPT !.good = FALSE]
  BY GetlineFailsType
<1> QED BY <1>1 DEF TypeInv, TypeOK, Streams

(* Every step of the code is one of Reading, or none. *)
LEMMA RefinementStep ==
  ASSUME KeepsRules, TypeInv, TypeInv', ReadingInv, [Next]_vars
  PROVE  [Promise!Next]_(Promise!vars)
<1> DEFINE Step == Promise!Next \/ UNCHANGED <<Texts, ecode # "ok">>
<1>0. /\ pTIB \in 1 .. Size /\ Buffer(TIB) /\ skips \in BOOLEAN /\ skips' \in BOOLEAN
      /\ ecode \in {"ok", "error"} /\ resume \in {"getline", "scan"}
  BY DEF TypeInv, TypeOK
<1>1. ASSUME UNCHANGED vars PROVE Step
  BY <1>1 DEF vars, Texts, Rest, CellsFrom, Text
<1>2. ASSUME Prompt PROVE Step
  BY <1>2, PromptStep
<1>3. ASSUME NextLine PROVE Step
  <2>1. /\ UNCHANGED <<callers, skips>> /\ Reads /\ Reads' /\ Rest = <<>>
    BY <1>0, <1>3 DEF NextLine, NoError, ReadingInv, Reads, Rest
  <2>2. CASE GetsLine /\ pTIB' = 1 /\ phase' = "scan"
    <3>1. \E k \in 0 .. MaxWords : Rest' = Line(stream.line + 1, k)
      BY <2>2, GetsRest
    <3>2. stream'.line = stream.line + 1 /\ stream'.lines = stream.lines /\ stream.line < stream.lines
      BY <2>2, GetsLineType DEF GetsLine
    <3> QED BY <2>1, <3>1, <3>2, LineStep
  <2>3. CASE GetlineFails /\ phase' = "return"
    <3>1. Rest' = <<>>
      BY <2>3 DEF Rest
    <3> QED BY <2>1, <2>3, <3>1, SameStream, StutterStep
  <2> QED BY <1>3, <2>2, <2>3 DEF NextLine
<1>4. ASSUME EndOfLine PROVE Step
  <2>1. /\ UNCHANGED <<callers, skips, stream, TIB, pTIB>> /\ Reads /\ Reads' /\ phase = "scan"
        /\ phase' \in {"getline", "run"} /\ TIB[pTIB] = NUL
    BY <1>0, <1>4 DEF EndOfLine, NestVars, NoError, ReadingInv, Reads
  <2>2. WordsOf(<<>>) = <<>>
    BY EmptyLine, WordsNone
  <2>3. CellsIn(TIB, pTIB) = <<>>
    BY <1>0, <2>1, CellsNone
  <2>4. Rest = <<>>
    BY <2>1, <2>2, <2>3, RestIs, CellsFromIn
  <2>5. Rest' = <<>>
    <3>1. CASE phase' = "getline"
      BY <3>1 DEF Rest
    <3>2. CASE phase' = "run"
      BY <2>1, <2>2, <2>3, <3>2, RestNext
    <3> QED BY <2>1, <3>1, <3>2
  <2> QED BY <2>1, <2>4, <2>5, StutterStep
<1>5. ASSUME PassBlank PROVE Step
  <2>1. /\ UNCHANGED <<callers, skips, stream, TIB, phase>> /\ Reads /\ Reads' /\ phase = "scan"
        /\ TIB[pTIB] = Blank /\ pTIB' = pTIB + 1
    BY <1>0, <1>5 DEF PassBlank, NestVars, NoError, ReadingInv, Reads
  <2>2. /\ CellsFrom(pTIB) # <<>> /\ CellsFrom(pTIB)[1] = Blank
        /\ CellsIn(TIB, pTIB + 1) = Tail(CellsFrom(pTIB))
    BY <1>0, <2>1, CellKinds, CellsFromIn, CellsTail
  <2>3. Rest = WordsOf(CellsFrom(pTIB)) /\ IsLine(CellsFrom(pTIB))
    BY <2>1, RestIs
  <2>4. Tail(CellsFrom(pTIB)) = <<>> /\ Rest = <<>>
    BY <2>2, <2>3, BlankEnds
  <2>5. WordsOf(<<>>) = <<>>
    BY EmptyLine, WordsNone
  <2>6. Rest' = <<>>
    BY <2>1, <2>2, <2>4, <2>5, RestNext
  <2> QED BY <2>1, <2>4, <2>6, StutterStep
<1>6. ASSUME NEW kind \in Kinds, Compile(kind) \/ ExecuteUpTo(kind) \/ ExecuteCurrent(kind) PROVE Step
  <2>1. /\ UNCHANGED <<callers, stream, TIB>> /\ Reads /\ Reads' /\ phase = "scan"
        /\ TIB[pTIB] \in Word /\ pTIB' = pTIB + 1 /\ phase' \in {"scan", "run"}
    BY <1>0, <1>6 DEF Compile, ExecuteUpTo, ExecuteCurrent, TakesWord, NestVars, NoError, ReadingInv, Reads
  <2>2. Rest # <<>> /\ Rest' = Tail(Rest)
    BY <2>1, RestTail
  <2> QED BY <2>1, <2>2, TakesStep
<1>7. ASSUME Fails, Reads PROVE Step
  BY <1>7, FailStep DEF Fails
<1>8. ASSUME UnknownWord PROVE Step
  BY <1>0, <1>7, <1>8 DEF UnknownWord, TakesWord, Reads, ReadingInv
<1>9. ASSUME VmReturns PROVE Step
  <2>1. /\ UNCHANGED <<callers, skips, stream, TIB, pTIB>> /\ Reads /\ Reads' /\ phase = "run"
        /\ phase' = resume
    BY <1>0, <1>9 DEF VmReturns, NestVars, NoError, ReadingInv, Reads
  <2>2. Rest = WordsOf(CellsIn(TIB, pTIB))
    BY <2>1, RestIs, CellsFromIn
  <2>3. CASE resume = "scan"
    BY <2>1, <2>2, <2>3, RestNext, StutterStep
  <2>4. CASE resume = "getline"
    <3>1. CellsFrom(pTIB) = <<>>
      BY <2>1, <2>4 DEF ReadingInv, Pending
    <3>2. Rest = <<>>
      BY <2>2, <3>1, CellsFromIn, EmptyLine, WordsNone
    <3>3. Rest' = <<>>
      BY <2>1, <2>4 DEF Rest
    <3> QED BY <2>1, <3>2, <3>3, StutterStep
  <2> QED BY <1>0, <2>3, <2>4
<1>10. ASSUME NEW op, Runs(op)
       PROVE  /\ phase = "run" /\ Reads
              /\ op # "evaluate" => Fits(op, CellsFrom(pTIB), skips)
  BY <1>0, <1>10, RunsHead DEF Runs, Reads, ReadingInv
<1>11. ASSUME NEW op, op \in Namers, Runs(op), ReadsOn, UNCHANGED <<TIB, stream>>,
              (\E i \in ExtractName : pTIB' = i + 1 /\ UNCHANGED phase /\ NoError) \/ NoName
       PROVE  Step
  <2>1. Fits(Head(run), CellsFrom(pTIB), skips) /\ Head(run) = op /\ phase = "run" /\ Reads
    BY <1>10, <1>11, RunsHead DEF Namers
  <2>2. CASE \E i \in ExtractName : pTIB' = i + 1 /\ UNCHANGED phase /\ NoError
    <3>1. TIB[pTIB] \in Word /\ pTIB' = pTIB + 1 /\ UNCHANGED <<phase, ecode>>
      BY <1>11, <2>1, <2>2, NamesHere DEF NoError
    <3>2. Rest # <<>> /\ Rest' = Tail(Rest)
      BY <1>11, <2>1, <3>1, RestTail
    <3> QED BY <1>11, <2>1, <3>1, <3>2, TakesStep DEF ReadsOn, Reads
  <2>3. CASE NoName
    BY <1>7, <1>11, <2>1, <2>3, NamesHere
  <2> QED BY <1>11, <2>2, <2>3
<1>12. ASSUME CPP_create PROVE Step
  BY <1>11, <1>12 DEF CPP_create, Namers, Done
<1>13. ASSUME CPP_include PROVE Step
  BY <1>11, <1>13 DEF CPP_include, Namers
<1>14. ASSUME NEW op, op \in Skippers, Runs(op) PROVE skips /\ phase = "run" /\ Reads
  BY <1>10, <1>14 DEF Fits, Skippers
<1>15. ASSUME NEW k \in 0 .. Len(CellsFrom(pTIB)), pTIB' = pTIB + k, UNCHANGED <<TIB, stream>>,
              NEW op, op \in Skippers, Runs(op), ReadsOn, Done
       PROVE  Step
  <2>1. skips /\ phase = "run" /\ Reads /\ Reads' /\ phase' = "run" /\ skips' /\ UNCHANGED callers
    BY <1>14, <1>15 DEF ReadsOn, Done, NoError, Reads
  <2>2. \E i \in 1 .. (Len(Rest) + 1) : Rest' = SubSeq(Rest, i, Len(Rest))
    BY <1>15, <2>1, RestFurther
  <2> QED BY <1>15, <2>1, <2>2, SkipsStep
<1>16. ASSUME C_parse PROVE Step
  <2>1. pTIB' \in pTIB .. (pTIB + Len(CellsFrom(pTIB))) /\ Len(CellsFrom(pTIB)) \in Nat /\ pTIB \in Nat
    BY <1>0, <1>16, CellsFromIn, CellsProps DEF C_parse
  <2>2. /\ pTIB' - pTIB \in 0 .. Len(CellsFrom(pTIB)) /\ pTIB' = pTIB + (pTIB' - pTIB)
    <3>1. ASSUME NEW p \in Nat, NEW n \in Nat, NEW q \in p .. (p + n)
          PROVE  q - p \in 0 .. n /\ q = p + (q - p)
      OBVIOUS
    <3> QED BY <2>1, <3>1
  <2> QED BY <1>15, <1>16, <2>2 DEF C_parse, Skippers
<1>17. ASSUME L_backslash PROVE Step
  <2>1. /\ skips /\ phase = "run" /\ Reads /\ Reads' /\ phase' = "run" /\ skips'
        /\ UNCHANGED <<callers, stream, pTIB>>
    BY <1>14, <1>17 DEF L_backslash, Skippers, ReadsOn, Done, NoError, Reads
  <2>2. TIB'[pTIB] = NUL /\ Buffer(TIB')
    <3>1. TIB' = [TIB EXCEPT ![pTIB] = NUL]
      BY <1>17 DEF L_backslash
    <3>2. Buffer(TIB')
      BY DEF TypeInv
    <3> QED BY <1>0, <3>1, <3>2 DEF Buffer
  <2>3. CellsIn(TIB', pTIB') = <<>>
    BY <1>0, <2>1, <2>2, CellsNone
  <2>4. Rest' = <<>>
    BY <2>1, <2>3, RestNext, EmptyLine, WordsNone
  <2>5. \E i \in 1 .. (Len(Rest) + 1) : Rest' = SubSeq(Rest, i, Len(Rest))
    BY <2>1, <2>4, NoneIsRest
  <2> QED BY <2>1, <2>5, SkipsStep
<1>18. ASSUME GetsLine, pTIB' = 1, skips, skips', phase' = "run", Reads, Reads', UNCHANGED callers
       PROVE  Step
  <2>1. \E k \in 0 .. MaxWords : Rest' = Line(stream.line + 1, k)
    BY <1>18, GetsRest
  <2>2. stream'.line = stream.line + 1 /\ stream'.lines = stream.lines /\ stream.line < stream.lines
    BY <1>18, GetsLineType DEF GetsLine
  <2>3. skips' = skips
    BY <1>0, <1>18
  <2> QED BY <1>18, <2>1, <2>2, <2>3, LineStep
<1>19. ASSUME CPP_lparen PROVE Step
  <2>1. Runs("paren") /\ ReadsOn /\ skips /\ phase = "run" /\ Reads /\ UNCHANGED callers /\ skips'
    BY <1>14, <1>19 DEF CPP_lparen, Skippers, ReadsOn
  <2>2. CASE /\ \E i \in pTIB .. (pTIB + Len(CellsFrom(pTIB)) - 1) : TIB[i] \in Word /\ pTIB' = i + 1
             /\ Done /\ UNCHANGED <<TIB, stream, linecount>>
    <3>1. PICK i \in pTIB .. (pTIB + Len(CellsFrom(pTIB)) - 1) : pTIB' = i + 1
      BY <2>2
    <3>2. Len(CellsFrom(pTIB)) \in Nat /\ pTIB \in Nat
      BY <1>0, CellsFromIn, CellsProps
    <3>3. i + 1 - pTIB \in 0 .. Len(CellsFrom(pTIB)) /\ pTIB' = pTIB + (i + 1 - pTIB)
      BY <3>1, <3>2
    <3> QED BY <1>15, <2>1, <2>2, <3>3 DEF Skippers
  <2>3. CASE GetsLine /\ pTIB' = 1 /\ UNCHANGED <<run, phase>> /\ NoError
    BY <1>18, <2>1, <2>3 DEF NoError, Reads
  <2>4. CASE Fails
    BY <1>7, <2>1, <2>4
  <2> QED BY <1>19, <2>2, <2>3, <2>4 DEF CPP_lparen, Unterminated
<1>20. ASSUME CPP_refill PROVE Step
  <2>1. Runs("skiplines")
    BY <1>10, <1>20 DEF CPP_refill, Fits
  <2>2. /\ skips /\ phase = "run" /\ Reads /\ Reads' /\ phase' = "run" /\ skips'
        /\ UNCHANGED callers /\ pTIB' = 1
    BY <1>14, <1>20, <2>1 DEF CPP_refill, Skippers, ReadsOn, Done, NoError, Reads
  <2>3. CASE GetsLine
    BY <1>18, <2>2, <2>3
  <2>4. CASE GetlineFails
    <3>1. Rest' = <<>>
      BY <2>2, <2>4, NoLineRest
    <3>2. \E i \in 1 .. (Len(Rest) + 1) : Rest' = SubSeq(Rest, i, Len(Rest))
      BY <2>2, <3>1, NoneIsRest
    <3> QED BY <2>2, <2>4, <3>2, SameStream, SkipsStep
  <2> QED BY <1>20, <2>3, <2>4 DEF CPP_refill
<1>21. ASSUME NEW op, Runs(op), NEW kind, NEW saved, NEW count, Opens(kind, saved, count),
              WordsOf(saved) = Rest
       PROVE  Step
  <2> DEFINE f == [kind |-> kind, stream |-> stream, saved |-> saved, count |-> linecount,
                   code |-> code, run |-> Tail(run), resume |-> resume, skips |-> skips]
  <2>1. callers' = Append(callers, f) /\ skips' = FALSE /\ phase' = "getline" /\ ecode' = ecode
    BY <1>21 DEF Opens, NoError
  <2>2. f.saved = saved /\ f.stream = stream /\ f.skips = skips
    OBVIOUS
  <2> HIDE DEF f
  <2>3. PICK n \in 0 .. MaxLines : stream'.lines = n /\ stream'.line = 0
    <3>1. PICK n \in (1 .. StringLines) \cup (0 .. MaxLines) :
            \E e : stream' = [lines |-> n, line |-> 0, good |-> TRUE, extra |-> e]
      BY <1>21 DEF Opens
    <3>2. n \in 0 .. MaxLines
      BY InputAssumption
    <3> QED BY <3>1, <3>2
  <2>4. phase = "run" /\ Reads /\ Reads' /\ Rest' = <<>>
    BY <1>10, <1>21, <2>1 DEF Reads, Rest
  <2> QED BY <1>21, <2>1, <2>2, <2>3, <2>4, OpensStep
<1>22. ASSUME phase = "run" PROVE WordsOf(CellsFrom(pTIB)) = Rest
  BY <1>22 DEF Rest
<1>23. ASSUME CPP_evaluate PROVE Step
  <2>1. PICK op \in {"evaluate", "macro"} : Runs(op)
    BY <1>23 DEF CPP_evaluate
  <2>2. phase = "run" /\ Reads
    BY <1>10, <2>1
  <2>3. CASE Opens("evaluate", Saved("evaluate"), linecount - 1)
    BY <1>21, <1>22, <2>1, <2>2, <2>3 DEF Saved
  <2>4. CASE Done /\ ReadsOn /\ UNCHANGED <<TIB, pTIB, stream, linecount>>
    <3>1. UNCHANGED <<callers, skips, stream, phase, TIB, pTIB>> /\ Reads'
      BY <2>2, <2>4 DEF Done, ReadsOn, NoError, Reads
    <3>2. Rest' = Rest
      BY <2>2, <3>1, RestNext, RestIs, CellsFromIn
    <3> QED BY <2>2, <3>1, <3>2, StutterStep
  <2> QED BY <1>23, <2>3, <2>4 DEF CPP_evaluate
<1>24. ASSUME CPP_included PROVE Step
  <2>1. PICK op \in {"open", "openkeep"} : Runs(op)
    BY <1>24 DEF CPP_included
  <2>2. phase = "run" /\ Reads
    BY <1>10, <2>1
  <2>3. CASE Runs("open") /\ Opens("included", Saved("included"), 0)
    <3>1. CellsFrom(pTIB) = <<>> \/ CellsFrom(pTIB)[1] \notin Word
      BY <1>10, <2>3 DEF Fits
    <3>2. Rest = <<>>
      BY <2>2, <3>1, RestIs, WordsNone
    <3>3. WordsOf(Saved("included")) = Rest
      BY <3>2, EmptyLine, WordsNone DEF Saved
    <3> QED BY <1>21, <2>3, <3>3
  <2>4. CASE Opens("include", Saved("include"), 0)
    BY <1>21, <1>22, <2>1, <2>2, <2>4 DEF Saved
  <2>5. CASE Fails
    BY <1>7, <2>2, <2>5
  <2> QED BY <1>24, <2>3, <2>4, <2>5 DEF CPP_included
<1>25. ASSUME TextReturns PROVE Step
  <2>1. phase = "return" /\ ecode' = ecode
    BY <1>25 DEF TextReturns, NoError
  <2>2. CASE ecode # "ok"
    <3>1. Texts = <<>> /\ Texts' = <<>>
      BY <2>1, <2>2 DEF Texts
    <3> QED BY <2>1, <3>1
  <2>3. CASE ecode = "ok"
    <3>1. /\ Reads /\ Reads' /\ phase' = "run" /\ Rest = <<>> /\ stream.line = stream.lines
      BY <1>25, <2>1, <2>3 DEF Reads, Rest, ReadingInv, TextReturns
    <3>2. /\ Caller = callers[Len(callers)] /\ Len(callers) \in 1 .. Len(callers)
          /\ Caller \in Frames /\ callers # <<>>
      BY <1>25, CallerGoesOn
    <3>3. Rest' = WordsOf(Caller.saved)
      <4>1. CASE PutsBack /\ TIB' = Written(Caller.saved) /\ pTIB' = 1
        <5>1. IsLine(Caller.saved) /\ Len(Caller.saved) < Size
          BY <3>2 DEF TypeInv, IsSaved
        <5>2. CellsIn(TIB', pTIB') = Caller.saved
          BY <1>0, <4>1, <5>1, WrittenIs
        <5> QED BY <3>1, <5>2, RestNext
      <4>2. CASE ~PutsBack /\ UNCHANGED <<TIB, pTIB>>
        <5>1. Caller.kind = "included"
          <6>1. Caller.kind \in {"evaluate", "included", "include"}
            BY <3>2 DEF Frames
          <6> QED BY <2>3, <4>2, <6>1 DEF PutsBack
        <5>2. Caller.saved = <<>>
          BY <3>2, <5>1 DEF ReadingInv, CallerOk
        <5>3. TIB[pTIB] \notin Word
          BY <2>1, <2>3, <3>2, <5>1 DEF ReadingInv, Caller
        <5>4. CellsIn(TIB, pTIB) = <<>> \/ CellsIn(TIB, pTIB)[1] \notin Word
          BY <1>0, <5>3, CellsNone, CellsTail
        <5>5. WordsOf(CellsIn(TIB, pTIB)) = <<>>
          BY <1>0, <5>4, CellsLine, WordsNone
        <5>6. Rest' = <<>>
          BY <3>1, <4>2, <5>5, RestNext
        <5> QED BY <5>2, <5>6, EmptyLine, WordsNone
      <4> QED BY <1>25, <4>1, <4>2 DEF TextReturns
    <3> QED BY <1>25, <3>1, <3>3, CloseStep
  <2> QED BY <2>2, <2>3
<1>26. ASSUME MainReturns PROVE Step
  BY <1>26, MainStep
<1>27. Step
  BY <1>1, <1>2, <1>3, <1>4, <1>5, <1>6, <1>8, <1>9, <1>12, <1>13, <1>16, <1>17, <1>19, <1>20,
     <1>23, <1>24, <1>25, <1>26 DEF Next, Compiler, Forth
<1> HIDE DEF Texts
<1> QED BY <1>27 DEF Promise!vars

(* Reading begins as the code does. *)
LEMMA RefinementInit == Init => Promise!Init
<1> SUFFICES ASSUME Init PROVE Promise!Init
  OBVIOUS
<1>1. Texts = <<>> /\ ecode = "ok"
  BY TextsNone DEF Init
<1> HIDE DEF Texts
<1> QED BY <1>1 DEF Promise!Init

(* ForthCompiler() and the words that read on implement Reading: through   *)
(* all nesting, saving, restoring and deferring in one buffer, the words   *)
(* are taken in the order of their texts, none twice, and none is passed   *)
(* but by a word that says so, when the texts keep the rules.              *)
THEOREM ReadsInOrderCorrect ==
  ASSUME KeepsRules PROVE Spec => ReadsInOrder
<1>1. TypeInv /\ ReadingInv /\ [Next]_vars => TypeInv' /\ ReadingInv'
  BY TypeStep, ReadingStep
<1>2. TypeInv /\ TypeInv' /\ ReadingInv /\ [Next]_vars => [Promise!Next]_(Promise!vars)
  BY RefinementStep
<1>3. Init => TypeInv /\ ReadingInv /\ Promise!Init
  BY TypeInit, ReadingInit, RefinementInit
<1> QED BY <1>1, <1>2, <1>3, PTL DEF Spec, ReadsInOrder, Promise!Spec

-----------------------------------------------------------------------------
(* Where errors are *)

(* The cells of a line stand in the buffer, and the other way round.       *)
LEMMA OnLineCells ==
  ASSUME NEW tib, Buffer(tib), NEW p \in 1 .. Size, NEW d, NEW n
  PROVE  OnLine(tib, p, d, n) <=> CellsOf(CellsIn(tib, p), d, n)
<1> DEFINE c == CellsIn(tib, p)
<1>1. /\ Len(c) \in Nat /\ p + Len(c) \in p .. Size /\ tib[p + Len(c)] = NUL
      /\ \A i \in 1 .. Len(c) : c[i] = tib[p + i - 1]
      /\ \A j \in p .. (p + Len(c) - 1) : tib[j] # NUL
  BY CellsProps
<1> HIDE DEF c
<1>2. ASSUME OnLine(tib, p, d, n), NEW i \in 1 .. Len(c) PROVE Comes(c[i], d, n)
  <2>1. p + i - 1 \in p .. Size /\ \A j \in p .. (p + i - 1) : j \in p .. (p + Len(c) - 1)
    BY <1>1, SizeNat
  <2>2. \A j \in p .. (p + i - 1) : tib[j] # NUL
    BY <1>1, <2>1
  <2> QED BY <1>1, <1>2, <2>1, <2>2 DEF OnLine
<1>3. ASSUME CellsOf(c, d, n), NEW i \in p .. Size, \A j \in p .. i : tib[j] # NUL
      PROVE  Comes(tib[i], d, n)
  <2>1. ~ (p + Len(c) <= i)
    <3>1. p + Len(c) <= i => p + Len(c) \in p .. i
      BY <1>1, SizeNat
    <3> QED BY <1>1, <1>3, <3>1
  <2>2. i - p + 1 \in 1 .. Len(c) /\ p + (i - p + 1) - 1 = i
    BY <1>1, <2>1, SizeNat
  <2>3. c[i - p + 1] = tib[i]
    BY <1>1, <2>2
  <2> QED BY <1>3, <2>2, <2>3 DEF CellsOf
<1> QED BY <1>2, <1>3 DEF OnLine, CellsOf, c

(* Further on in the line.                                                 *)
LEMMA OnLineFurther ==
  ASSUME NEW tib, NEW p \in 1 .. Size, NEW q \in p .. Size, NEW d, NEW n,
         OnLine(tib, p, d, n), \A j \in p .. (q - 1) : tib[j] # NUL
  PROVE  OnLine(tib, q, d, n)
<1> SUFFICES ASSUME NEW i \in q .. Size, \A j \in q .. i : tib[j] # NUL
             PROVE  Comes(tib[i], d, n)
  BY DEF OnLine
<1>1. i \in p .. Size /\ \A j \in p .. i : j \in p .. (q - 1) \/ j \in q .. i
  BY SizeNat
<1>2. \A j \in p .. i : tib[j] # NUL
  BY <1>1
<1> QED BY <1>1, <1>2 DEF OnLine

(* Nothing is of any line.                                                 *)
LEMMA OnNoLine ==
  ASSUME NEW tib, NEW p \in 1 .. Size, tib[p] = NUL, NEW d, NEW n
  PROVE  OnLine(tib, p, d, n)
<1> SUFFICES ASSUME NEW i \in p .. Size, \A j \in p .. i : tib[j] # NUL PROVE FALSE
  BY DEF OnLine
<1>1. p \in p .. i
  BY SizeNat
<1> QED BY <1>1

(* A line that is written into TIB.                                        *)
LEMMA OnLineWritten ==
  ASSUME TypeInv, NEW c, IsLine(c), Len(c) < Size, NEW d, NEW n, CellsOf(c, d, n)
  PROVE  OnLine(Written(c), 1, d, n)
<1>1. Buffer(Written(c)) /\ CellsIn(Written(c), 1) = c /\ 1 \in 1 .. Size
  BY WrittenIs, SizeNat DEF TypeInv
<1> QED BY <1>1, OnLineCells

LEMMA LocatedInit == Init => LocatedInv
<1> SUFFICES ASSUME Init PROVE LocatedInv
  OBVIOUS
<1>1. callers = <<>> /\ Len(callers) = 0 /\ phase = "prompt" /\ ecode = "ok"
  BY DEF Init
<1> QED BY <1>1 DEF LocatedInv, TextsWait, LineHere, CountsKept, Counted, OnItsWay

(* The same texts at the same lines.                                       *)
LEMMA SameTexts ==
  ASSUME UNCHANGED callers, stream'.line = stream.line, stream'.lines = stream.lines
  PROVE  /\ Depth' = Depth
         /\ \A i : LineAt(i)' = LineAt(i) /\ LinesAt(i)' = LinesAt(i)
         /\ \A d, n : FileAt(d, n)' <=> FileAt(d, n)
         /\ TextsWait => TextsWait'
         /\ CountsKept => CountsKept'
<1>1. Depth' = Depth
  BY DEF Depth
<1>2. \A i : LineAt(i)' = LineAt(i) /\ LinesAt(i)' = LinesAt(i)
  BY <1>1 DEF LineAt, LinesAt
<1>3. \A d, n : FileAt(d, n)' <=> FileAt(d, n)
  BY DEF FileAt
<1>4. TextsWait => TextsWait'
  BY <1>2 DEF TextsWait
<1>5. CountsKept => CountsKept'
  BY <1>3 DEF CountsKept
<1> QED BY <1>1, <1>2, <1>3, <1>4, <1>5

(* The error has not come up, and the count stays.                         *)
LEMMA StaysLocated ==
  ASSUME LocatedInv, ecode = "ok", UNCHANGED <<callers, linecount, ecode>>,
         stream'.line = stream.line, stream'.lines = stream.lines, stream'.extra = stream.extra,
         LineHere'
  PROVE  LocatedInv'
<1>1. TextsWait' /\ CountsKept'
  BY SameTexts DEF LocatedInv
<1>2. Counted'
  <2>1. /\ \A d, n : FileAt(d, n)' <=> FileAt(d, n)
        /\ \A i : LineAt(i)' = LineAt(i)
        /\ Depth' = Depth
    BY SameTexts
  <2> QED BY <2>1 DEF LocatedInv, Counted
<1>3. OnItsWay'
  BY DEF OnItsWay
<1> QED BY <1>1, <1>2, <1>3 DEF LocatedInv

(* The word moves on in its line.                                          *)
LEMMA MovesOn ==
  ASSUME TypeInv, LineHere, phase \in {"scan", "run"}, UNCHANGED <<callers, stream, TIB>>,
         pTIB' \in pTIB .. Size, \A j \in pTIB .. (pTIB' - 1) : TIB[j] # NUL
  PROVE  LineHere'
<1>1. stream.line >= 1 /\ OnLine(TIB, 1, Depth, stream.line) /\ OnLine(TIB, pTIB, Depth, stream.line)
  BY DEF LineHere
<1>2. Depth' = Depth
  BY DEF Depth
<1>3. pTIB \in 1 .. Size
  BY DEF TypeInv, TypeOK
<1>4. OnLine(TIB, pTIB', Depth, stream.line)
  BY <1>1, <1>3, OnLineFurther
<1>5. TIB' = TIB /\ stream' = stream
  OBVIOUS
<1> QED BY <1>1, <1>2, <1>4, <1>5 DEF LineHere

(* The error comes up, in the line at hand.                                *)
LEMMA FailsLocated ==
  ASSUME TypeInv, LocatedInv, ecode = "ok", phase \in {"scan", "run"}, Fails,
         UNCHANGED <<callers, linecount>>,
         stream'.line = stream.line, stream'.lines = stream.lines,
         TIB' = TIB \/ TIB' = Written(<<>>)
  PROVE  LocatedInv'
<1>1. TextsWait' /\ CountsKept' /\ LineHere' /\ Counted'
  BY SameTexts DEF LocatedInv, LineHere, Counted, Fails
<1> DEFINE d == FailedAt.depth
<1>2. /\ d \in 0 .. Len(callers) /\ FileAt(d, Depth) /\ FailedAt.line = LineAt(d + 1)
      /\ FailedAt.quoted <=> \E i \in 1 .. d : ~InFile(callers[i])
      /\ FailedAt.extra = stream.extra
  BY FailedAtIs DEF TypeInv
<1>3. failure' = FailedAt /\ ecode' = "error"
  BY DEF Fails
<1>4. /\ stream.line >= 1 /\ OnLine(TIB, 1, Depth, stream.line)
      /\ stream.line \in Nat /\ stream.extra \in Nat /\ linecount \in Int
      /\ Len(callers) \in Nat
  BY DEF LocatedInv, LineHere, TypeInv, TypeOK, Streams
<1>5. d > 0 => linecount = FailedAt.line + FailedAt.extra
  <2>1. SUFFICES ASSUME d > 0 PROVE linecount = FailedAt.line + FailedAt.extra
    OBVIOUS
  <2>2. d \in 1 .. Len(callers)
    BY <1>2, <1>4, <2>1
  <2>3. linecount = LineAt(d + 1) + stream.extra
                      - (IF d < Len(callers) /\ stream.line = 0 THEN 1 ELSE 0)
    BY <1>2, <2>2 DEF LocatedInv, Counted
  <2>4. ~ (stream.line = 0)
    BY <1>4
  <2>5. LineAt(d + 1) \in Int
    <3>1. CASE d + 1 = Depth
      BY <1>4, <3>1 DEF LineAt
    <3>2. CASE d + 1 # Depth
      <4>1. d + 1 \in 1 .. Len(callers)
        BY <1>4, <2>2, <3>2 DEF Depth
      <4>2. callers[d + 1] \in Frames
        BY <4>1 DEF TypeInv, TypeOK
      <4> QED BY <3>2, <4>2 DEF LineAt, Frames, Streams
    <3> QED BY <3>1, <3>2
  <2> HIDE DEF d
  <2> QED BY <1>2, <1>4, <2>3, <2>4, <2>5
<1>6. ASSUME Len(callers) > d
      PROVE  /\ \A i \in (d + 1) .. Len(callers) : ~InFile(callers[i])
             /\ callers[d + 1].stream.line = FailedAt.line
  <2>1. Depth - 1 = Len(callers) /\ d + 1 # Depth
    BY <1>2, <1>4, <1>6 DEF Depth
  <2>2. \A i \in (d + 1) .. Len(callers) : ~InFile(callers[i])
    BY <1>2, <2>1 DEF FileAt
  <2> QED BY <1>2, <2>1, <2>2 DEF LineAt
<1>7. ASSUME ~FailedAt.quoted, Len(callers) <= d
      PROVE  OnLine(TIB', 1, d + 1, FailedAt.line)
  <2>1. d + 1 = Depth
    BY <1>2, <1>4, <1>7 DEF Depth
  <2>2. FailedAt.line = stream.line
    BY <1>2, <2>1 DEF LineAt
  <2>3. CASE TIB' = TIB
    BY <1>4, <2>1, <2>2, <2>3
  <2>4. CASE TIB' = Written(<<>>)
    <3>1. TIB'[1] = NUL /\ 1 \in 1 .. Size
      BY <2>4, EmptyLine, WrittenIs, SizeNat DEF TypeInv
    <3> QED BY <3>1, OnNoLine
  <2> QED BY <2>3, <2>4
<1>8. ~FailedAt.quoted => \A i \in 1 .. Len(callers) : i <= d => InFile(callers[i])
  <2> HIDE DEF d
  <2>1. \A i \in 1 .. Len(callers) : i <= d => i \in 1 .. d
    BY <1>2, <1>4
  <2> QED BY <1>2, <2>1 DEF d
<1>9. OnItsWay'
  <2>1. UNCHANGED <<callers, linecount>>
    OBVIOUS
  <2> HIDE DEF d
  <2> QED BY <1>3, <1>5, <1>6, <1>7, <1>8, <2>1 DEF OnItsWay, d
<1> QED BY <1>1, <1>9 DEF LocatedInv

(* The next line: it is counted, and by ForthCompiler() or ( too.          *)
LEMMA GotLocated ==
  ASSUME TypeInv, LocatedInv, ecode = "ok", GetsLine, pTIB' = 1, linecount' = linecount + 1,
         UNCHANGED <<callers, ecode>>
  PROVE  LocatedInv'
<1>1. /\ stream'.line = stream.line + 1 /\ stream'.lines = stream.lines
      /\ stream.line \in Nat /\ stream.extra \in Nat /\ stream \in Streams
      /\ Len(callers) \in Nat /\ Depth \in 1 .. MaxDepth /\ linecount \in Int
  <2>1. Depth \in 1 .. MaxDepth
    BY InputAssumption DEF Depth, TypeInv, TypeOK
  <2> QED BY <2>1, GetsLineType DEF TypeInv, TypeOK, Streams
<1>2. /\ Depth' = Depth
      /\ \A i : LinesAt(i)' = LinesAt(i)
      /\ \A d, n : FileAt(d, n)' <=> FileAt(d, n)
      /\ \A i : LineAt(i)' = IF i = Depth THEN stream.line + 1 ELSE LineAt(i)
  BY <1>1 DEF Depth, LinesAt, LineAt, FileAt
<1>3. TextsWait'
  BY <1>2 DEF LocatedInv, TextsWait
<1>4. CountsKept'
  BY <1>2 DEF LocatedInv, CountsKept
<1>5. LineHere'
  <2>1. PICK cells \in Lines(stream.line + 1) :
          TIB' = Written(cells) /\ IsLine(cells) /\ Len(cells) < Size
    BY GetsLineType
  <2>2. stream.line + 1 \in 1 .. MaxLines
    BY GetsLineType
  <2>3. CellsOf(cells, Depth, stream.line + 1)
    BY <1>1, <2>2, LinesLine
  <2>4. OnLine(TIB', 1, Depth, stream.line + 1)
    BY <2>1, <2>3, OnLineWritten
  <2>5. stream.line + 1 >= 1
    BY <1>1
  <2> QED BY <1>1, <1>2, <2>4, <2>5 DEF LineHere
<1>6. Counted'
  <2>1. SUFFICES ASSUME NEW d \in 1 .. Len(callers), FileAt(d, Depth)
                 PROVE  linecount + 1 = LineAt(d + 1)' + stream'.extra
                          - (IF d < Len(callers) /\ stream'.line = 0 THEN 1 ELSE 0)
    BY <1>2 DEF Counted
  <2>2. linecount = LineAt(d + 1) + stream.extra
                      - (IF d < Len(callers) /\ stream.line = 0 THEN 1 ELSE 0)
    BY <2>1 DEF LocatedInv, Counted
  <2>3. stream'.extra = IF ExtraLine THEN stream.extra + 1 ELSE stream.extra
    <3>1. \E e : stream' = [stream EXCEPT !.line = @ + 1, !.extra = e]
                 /\ e = IF ExtraLine THEN stream.extra + 1 ELSE stream.extra
      BY DEF GetsLine
    <3>2. PICK e : stream' = [stream EXCEPT !.line = @ + 1, !.extra = e]
                   /\ e = IF ExtraLine THEN stream.extra + 1 ELSE stream.extra
      BY <3>1
    <3>3. e \in Nat
      BY <1>1, <3>2
    <3>4. stream'.extra = e
      BY <1>1, <3>2, <3>3, StreamRead
    <3> QED BY <3>2, <3>4
  <2>4. InFile(callers[d]) /\ d \in Nat /\ d >= 1
    BY <1>1, <2>1 DEF FileAt
  <2>5. CASE d = Len(callers)
    <3>1. Last(callers) = callers[d]
      BY <2>5 DEF Last
    <3>2. ~ExtraLine
      BY <2>4, <3>1 DEF ExtraLine
    <3>3. d + 1 = Depth
      BY <2>5 DEF Depth
    <3>4. LineAt(d + 1) = stream.line /\ LineAt(d + 1)' = stream.line + 1
      <4>1. LineAt(d + 1) = stream.line
        BY <3>3 DEF LineAt
      <4>2. d + 1 = Depth'
        BY <1>2, <3>3
      <4>3. LineAt(d + 1)' = stream'.line
        BY <4>2 DEF LineAt
      <4> QED BY <1>1, <4>1, <4>3
    <3>5. ~ (d < Len(callers))
      BY <1>1, <2>5
    <3> QED BY <1>1, <2>2, <2>3, <3>2, <3>4, <3>5
  <2>6. CASE d # Len(callers)
    <3>1. d + 1 # Depth /\ d < Len(callers) /\ d + 1 \in 1 .. Len(callers)
          /\ Len(callers) \in (d + 1) .. (Depth - 1)
      BY <1>1, <2>4, <2>6 DEF Depth
    <3>2. ~InFile(Last(callers)) /\ callers # <<>>
      BY <1>1, <2>1, <3>1 DEF FileAt, Last
    <3>3. ExtraLine <=> stream.line > 0
      BY <2>1, <2>4, <3>2 DEF ExtraLine
    <3>4. LineAt(d + 1)' = LineAt(d + 1)
      <4>1. d + 1 # Depth'
        BY <1>2, <3>1
      <4> QED BY <3>1, <4>1 DEF LineAt
    <3>5. LineAt(d + 1) \in Int
      <4>1. callers[d + 1] \in Frames
        BY <3>1 DEF TypeInv, TypeOK
      <4> QED BY <3>1, <4>1 DEF LineAt, Frames, Streams
    <3>6. ~ (stream'.line = 0)
      BY <1>1
    <3>7. CASE stream.line = 0
      BY <1>1, <2>2, <2>3, <3>1, <3>3, <3>4, <3>5, <3>6, <3>7
    <3>8. CASE stream.line # 0
      BY <1>1, <2>2, <2>3, <3>1, <3>3, <3>4, <3>5, <3>6, <3>8
    <3> QED BY <3>7, <3>8
  <2> QED BY <2>5, <2>6
<1>7. OnItsWay'
  BY DEF OnItsWay
<1> QED BY <1>3, <1>4, <1>5, <1>6, <1>7 DEF LocatedInv

(* There is no next line: nothing is in TIB.                               *)
LEMMA NoLineStream ==
  ASSUME KeepsRules, TypeInv, GetlineFails
  PROVE  /\ stream'.line = stream.line /\ stream'.lines = stream.lines
         /\ stream'.extra = stream.extra /\ TIB' = Written(<<>>) /\ TIB'[1] = NUL
<1>1. stream' = [stream EXCEPT !.good = FALSE] /\ TIB' = Written(<<>>)
  BY GetlineFailsType DEF KeepsRules
<1>2. stream \in Streams
  BY DEF TypeInv, TypeOK
<1>3. TIB'[1] = NUL
  BY <1>1, EmptyLine, WrittenIs DEF TypeInv
<1> QED BY <1>1, <1>2, <1>3 DEF Streams

(* A text is opened; its caller waits.                                     *)
LEMMA OpensLocated ==
  ASSUME TypeInv, LocatedInv, ecode = "ok", phase = "run",
         NEW kind \in {"evaluate", "included", "include"}, NEW count \in Int,
         count = IF kind = "evaluate" THEN linecount - 1 ELSE 0,
         Opens(kind, Saved(kind), count)
  PROVE  LocatedInv'
<1> DEFINE f == [kind |-> kind, stream |-> stream, saved |-> Saved(kind), count |-> linecount,
                 code |-> code, run |-> Tail(run), resume |-> resume, skips |-> skips]
<1>0. PICK n \in Nat : n = Len(callers)
  BY DEF TypeInv, TypeOK
<1>1. callers' = Append(callers, f) /\ callers \in Seq(Frames)
  BY DEF Opens, TypeInv, TypeOK
<1>2. f.kind = kind /\ f.stream = stream /\ f.saved = Saved(kind) /\ f.count = linecount
  OBVIOUS
<1> HIDE DEF f
<1>3. /\ n \in Nat /\ Len(callers') = n + 1 /\ callers'[n + 1] = f
      /\ \A i \in 1 .. n : callers'[i] = callers[i]
      /\ Depth = n + 1 /\ Depth' = n + 2
  BY <1>0, <1>1, AppendIs DEF Depth
<1>4. InFile(f) <=> kind # "evaluate"
  BY <1>2 DEF InFile
<1>5. /\ stream.line >= 1 /\ OnLine(TIB, pTIB, Depth, stream.line)
      /\ stream.line \in Nat /\ stream.extra \in Nat /\ linecount \in Int
  BY DEF LocatedInv, LineHere, TypeInv, TypeOK, Streams
<1>6. /\ stream'.line = 0 /\ linecount' = count /\ phase' = "getline" /\ ecode' = "ok"
      /\ stream'.extra = IF kind = "evaluate" THEN stream.extra ELSE 0
      /\ kind = "evaluate" => stream'.lines >= 1
  <2>1. PICK m \in IF kind = "evaluate" THEN 1 .. StringLines ELSE 0 .. MaxLines :
             stream' = [lines |-> m, line |-> 0, good |-> TRUE,
                        extra |-> IF kind = "evaluate" THEN stream.extra ELSE 0]
    BY DEF Opens
  <2>2. kind = "evaluate" => m >= 1
    BY <2>1, InputAssumption
  <2> QED BY <2>1, <2>2 DEF Opens, NoError
<1>7. \A i \in 1 .. (n + 1) : i = n + 1 \/ i \in 1 .. n
  BY <1>3
<1>8. TextsWait'
  <2>1. CellsOf(Saved(kind), Depth, stream.line)
    <3>1. CASE kind = "included"
      <4>1. Len(Saved(kind)) = 0
        BY <3>1 DEF Saved
      <4> QED BY <4>1 DEF CellsOf
    <3>2. CASE kind # "included"
      <4>1. Buffer(TIB) /\ pTIB \in 1 .. Size
        BY DEF TypeInv, TypeOK
      <4>2. CellsOf(CellsIn(TIB, pTIB), Depth, stream.line)
        BY <1>5, <4>1, OnLineCells
      <4> QED BY <3>2, <4>2, CellsFromIn DEF Saved
    <3> QED BY <3>1, <3>2
  <2>2. \A i \in 1 .. n : LinesAt(i + 1)' = LinesAt(i + 1)
    <3> TAKE i \in 1 .. n
    <3>1. i + 1 # Depth' /\ LinesAt(i + 1)' = callers'[i + 1].stream.lines
      BY <1>3 DEF LinesAt
    <3>2. CASE i = n
      BY <1>2, <1>3, <3>1, <3>2 DEF LinesAt
    <3>3. CASE i # n
      <4>1. i + 1 \in 1 .. n /\ i + 1 # Depth
        BY <1>3, <3>3
      <4> QED BY <1>3, <3>1, <4>1 DEF LinesAt
    <3> QED BY <3>2, <3>3
  <2>3. LinesAt(n + 2)' = stream'.lines
    BY <1>3 DEF LinesAt
  <2>4. (n + 1) + 1 = n + 2
    BY <1>3
  <2>5. /\ callers'[n + 1].stream.line >= 1
        /\ CellsOf(callers'[n + 1].saved, n + 1, callers'[n + 1].stream.line)
        /\ ~InFile(callers'[n + 1]) => LinesAt((n + 1) + 1)' >= 1
    BY <1>2, <1>3, <1>4, <1>5, <1>6, <2>1, <2>3, <2>4
  <2>6. ASSUME NEW i \in 1 .. n
        PROVE  /\ callers'[i].stream.line >= 1
               /\ CellsOf(callers'[i].saved, i, callers'[i].stream.line)
               /\ ~InFile(callers'[i]) => LinesAt(i + 1)' >= 1
    BY <1>0, <1>3, <2>2 DEF LocatedInv, TextsWait
  <2> QED BY <1>3, <1>7, <2>5, <2>6 DEF TextsWait
<1>9. ASSUME NEW d \in 1 .. n, NEW i \in 1 .. (n + 1) PROVE FileAt(d, i)' <=> FileAt(d, i)
  <2>1. d # 0 /\ InFile(callers'[d]) <=> InFile(callers[d])
    BY <1>3
  <2>2. \A j \in (d + 1) .. (i - 1) : callers'[j] = callers[j]
    <3>1. \A j \in (d + 1) .. (i - 1) : j \in 1 .. n
      BY <1>3
    <3> QED BY <1>3, <3>1
  <2>3. d # 0
    BY <1>3
  <2> QED BY <1>3, <2>2, <2>3 DEF FileAt
<1>10. ASSUME NEW d \in 1 .. n, FileAt(d, Depth)
       PROVE  linecount = callers'[d + 1].stream.line + stream.extra
  <2>1. linecount = LineAt(d + 1) + stream.extra
                      - (IF d < n /\ stream.line = 0 THEN 1 ELSE 0)
    BY <1>0, <1>10 DEF LocatedInv, Counted
  <2>2. ~ (stream.line = 0)
    BY <1>5
  <2>3. LineAt(d + 1) = callers'[d + 1].stream.line
    <3>1. CASE d = n
      BY <1>2, <1>3, <3>1 DEF LineAt
    <3>2. CASE d # n
      <4>1. d + 1 \in 1 .. n /\ d + 1 # Depth
        BY <1>3, <3>2
      <4> QED BY <1>3, <4>1 DEF LineAt
    <3> QED BY <3>1, <3>2
  <2>4. LineAt(d + 1) \in Int
    <3>1. CASE d = n
      BY <1>3, <1>5, <3>1 DEF LineAt
    <3>2. CASE d # n
      <4>1. d + 1 \in 1 .. n /\ d + 1 # Depth
        BY <1>3, <3>2
      <4>2. callers[d + 1] \in Frames
        BY <1>0, <1>1, <4>1
      <4> QED BY <4>1, <4>2 DEF LineAt, Frames, Streams
    <3> QED BY <3>1, <3>2
  <2> QED BY <1>5, <2>1, <2>2, <2>3, <2>4
<1>11. CountsKept'
  <2>1. SUFFICES ASSUME NEW i \in 1 .. (n + 1), InFile(callers'[i]),
                        NEW d \in 1 .. (i - 1), FileAt(d, i)'
                 PROVE  callers'[i].count = callers'[d + 1].stream.line + callers'[i].stream.extra
    BY <1>3 DEF CountsKept
  <2>2. d \in 1 .. n /\ FileAt(d, i)
    BY <1>3, <1>9, <2>1
  <2>3. CASE i = n + 1
    BY <1>2, <1>3, <1>10, <2>2, <2>3
  <2>4. CASE i \in 1 .. n
    <3>1. d + 1 \in 1 .. n
      BY <1>3, <2>4
    <3> QED BY <1>0, <1>3, <2>1, <2>2, <2>4, <3>1 DEF LocatedInv, CountsKept
  <2> QED BY <1>7, <2>3, <2>4
<1>12. Counted'
  <2>1. SUFFICES ASSUME NEW d \in 1 .. (n + 1), FileAt(d, n + 2)'
                 PROVE  count = LineAt(d + 1)' + stream'.extra - (IF d < n + 1 THEN 1 ELSE 0)
    BY <1>3, <1>6 DEF Counted
  <2>2. CASE d = n + 1
    <3>1. InFile(f)
      <4>1. d # 0 /\ InFile(callers'[d])
        BY <1>3, <2>1, <2>2 DEF FileAt
      <4> QED BY <1>3, <2>2, <4>1
    <3>2. count = 0 /\ stream'.extra = 0
      BY <1>4, <1>6, <3>1
    <3>3. LineAt(d + 1)' = 0
      BY <1>3, <1>6, <2>2 DEF LineAt
    <3> QED BY <1>3, <2>2, <3>2, <3>3
  <2>3. CASE d \in 1 .. n
    <3>1. ~InFile(callers'[n + 1])
      <4>1. n + 1 \in (d + 1) .. ((n + 2) - 1)
        BY <1>3, <2>3
      <4> QED BY <2>1, <4>1 DEF FileAt
    <3>2. kind = "evaluate"
      BY <1>3, <1>4, <3>1
    <3>3. FileAt(d, n + 1)'
      <4>1. \A j \in (d + 1) .. ((n + 1) - 1) : j \in (d + 1) .. ((n + 2) - 1)
        BY <1>3
      <4> QED BY <2>1, <4>1 DEF FileAt
    <3>4. n + 1 \in 1 .. (n + 1)
      BY <1>3
    <3>5. FileAt(d, Depth)
      BY <1>3, <1>9, <2>3, <3>3, <3>4
    <3>6. linecount = callers'[d + 1].stream.line + stream.extra
      BY <1>10, <2>3, <3>5
    <3>7. LineAt(d + 1)' = callers'[d + 1].stream.line
      <4>1. d + 1 # Depth'
        BY <1>3, <2>3
      <4> QED BY <4>1 DEF LineAt
    <3>8. callers'[d + 1].stream.line \in Int
      <4>1. d + 1 \in 1 .. (n + 1)
        BY <1>3, <2>3
      <4>2. CASE d + 1 = n + 1
        BY <1>2, <1>3, <1>5, <4>2
      <4>3. CASE d + 1 \in 1 .. n
        <5>1. callers[d + 1] \in Frames
          BY <1>0, <1>1, <4>3
        <5> QED BY <1>3, <4>3, <5>1 DEF Frames, Streams
      <4> QED BY <1>7, <4>1, <4>2, <4>3
    <3>9. d < n + 1
      BY <1>3, <2>3
    <3> QED BY <1>5, <1>6, <3>2, <3>6, <3>7, <3>8, <3>9
  <2> QED BY <1>7, <2>2, <2>3
<1>13. LineHere' /\ OnItsWay'
  BY <1>6 DEF LineHere, OnItsWay
<1> QED BY <1>8, <1>11, <1>12, <1>13 DEF LocatedInv

(* A text is at its end, or abandoned, and its caller goes on.             *)
LEMMA ReturnsLocated ==
  ASSUME KeepsRules, TypeInv, ReadingInv, LocatedInv, TextReturns
  PROVE  LocatedInv'
<1>0. PICK n \in Nat : n = Len(callers)
  BY DEF TypeInv, TypeOK
<1>1. /\ callers # <<>> /\ Caller = callers[n] /\ Caller \in Frames /\ n \in 1 .. n
      /\ Len(callers') = n - 1 /\ \A i \in 1 .. (n - 1) : callers'[i] = callers[i]
      /\ stream'.line = Caller.stream.line /\ stream'.lines = Caller.stream.lines
      /\ stream'.extra = IF InFile(Caller) THEN Caller.stream.extra ELSE stream.extra
  BY <1>0, CallerGoesOn
<1>2. Depth = n + 1 /\ Depth' = n
  BY <1>0, <1>1 DEF Depth
<1>3. /\ phase = "return" /\ linecount' = CountAfter /\ ecode' = ecode /\ failure' = failure
      /\ ecode \in {"ok", "error"} /\ phase' = IF ecode = "ok" THEN "run" ELSE "return"
      /\ \/ PutsBack /\ TIB' = Written(Caller.saved) /\ pTIB' = 1
         \/ ~PutsBack /\ UNCHANGED <<TIB, pTIB>>
  BY DEF TextReturns, NoError, TypeInv, TypeOK
<1>4. ASSUME NEW i \in 1 .. n
      PROVE  /\ LineAt(i)' = callers[i].stream.line /\ LineAt(i) = callers[i].stream.line
             /\ LinesAt(i)' = callers[i].stream.lines /\ LinesAt(i) = callers[i].stream.lines
  <2>1. i # Depth
    BY <1>2
  <2>2. LineAt(i) = callers[i].stream.line /\ LinesAt(i) = callers[i].stream.lines
    BY <2>1 DEF LineAt, LinesAt
  <2>3. CASE i = n
    <3>1. i = Depth'
      BY <1>2, <2>3
    <3>2. LineAt(i)' = stream'.line /\ LinesAt(i)' = stream'.lines
      BY <3>1 DEF LineAt, LinesAt
    <3> QED BY <1>1, <2>2, <2>3, <3>2
  <2>4. CASE i # n
    <3>1. i # Depth' /\ callers'[i] = callers[i]
      BY <1>0, <1>1, <1>2, <2>4
    <3>2. LineAt(i)' = callers'[i].stream.line /\ LinesAt(i)' = callers'[i].stream.lines
      BY <3>1 DEF LineAt, LinesAt
    <3> QED BY <2>2, <3>1, <3>2
  <2> QED BY <2>3, <2>4
<1>5. ASSUME NEW d \in 1 .. (n - 1), NEW m \in 1 .. n PROVE FileAt(d, m)' <=> FileAt(d, m)
  <2>1. \A j \in (d + 1) .. (m - 1) : j \in 1 .. (n - 1)
    BY <1>0
  <2>2. d # 0 /\ callers'[d] = callers[d]
        /\ \A j \in (d + 1) .. (m - 1) : callers'[j] = callers[j]
    BY <1>1, <2>1
  <2> QED BY <2>2 DEF FileAt
<1>6. /\ Caller.stream.line >= 1 /\ CellsOf(Caller.saved, n, Caller.stream.line)
      /\ ~InFile(Caller) => stream.lines >= 1
  <2>1. LinesAt(n + 1) = stream.lines
    BY <1>2 DEF LinesAt
  <2> QED BY <1>0, <1>1, <2>1 DEF LocatedInv, TextsWait
<1>7. IsLine(Caller.saved) /\ Len(Caller.saved) < Size
  BY <1>0, <1>1 DEF TypeInv, IsSaved
<1>8. InFile(Caller) <=> Caller.kind # "evaluate"
  BY DEF InFile
<1>9. TextsWait'
  <2>1. SUFFICES ASSUME NEW i \in 1 .. (n - 1)
                 PROVE  /\ callers'[i].stream.line >= 1
                        /\ CellsOf(callers'[i].saved, i, callers'[i].stream.line)
                        /\ ~InFile(callers'[i]) => LinesAt(i + 1)' >= 1
    BY <1>1 DEF TextsWait
  <2>2. i \in 1 .. n /\ i + 1 \in 1 .. n
    BY <1>0
  <2>3. LinesAt(i + 1)' = LinesAt(i + 1)
    BY <1>4, <2>2
  <2>4. callers'[i] = callers[i]
    BY <1>1
  <2> QED BY <1>0, <2>2, <2>3, <2>4 DEF LocatedInv, TextsWait
<1>10. CountsKept'
  <2>1. SUFFICES ASSUME NEW i \in 1 .. (n - 1), InFile(callers'[i]),
                        NEW d \in 1 .. (i - 1), FileAt(d, i)'
                 PROVE  callers'[i].count = callers'[d + 1].stream.line + callers'[i].stream.extra
    BY <1>1 DEF CountsKept
  <2>2. d \in 1 .. (n - 1) /\ i \in 1 .. n /\ d + 1 \in 1 .. (n - 1)
    BY <1>0
  <2>3. FileAt(d, i)
    BY <1>5, <2>1, <2>2
  <2> QED BY <1>0, <1>1, <2>1, <2>2, <2>3 DEF LocatedInv, CountsKept
<1>11. Counted'
  <2>1. SUFFICES ASSUME ecode = "ok", NEW d \in 1 .. (n - 1), FileAt(d, n)'
                 PROVE  linecount' = LineAt(d + 1)' + stream'.extra
                          - (IF d < n - 1 /\ stream'.line = 0 THEN 1 ELSE 0)
    BY <1>1, <1>2, <1>3 DEF Counted
  <2>2. d \in 1 .. n /\ n \in 1 .. n /\ d + 1 \in 1 .. n
    BY <1>0, <1>1
  <2>3. FileAt(d, n)
    BY <1>5, <2>1, <2>2
  <2>4. LineAt(d + 1)' = callers[d + 1].stream.line /\ LineAt(d + 1) = callers[d + 1].stream.line
    BY <1>4, <2>2
  <2>5. callers[d + 1].stream.line \in Int
    <3>1. callers[d + 1] \in Frames
      BY <1>0, <2>2 DEF TypeInv, TypeOK
    <3> QED BY <3>1 DEF Frames, Streams
  <2>6. ~ (stream'.line = 0) /\ Caller.stream.line \in Int
    BY <1>1, <1>6 DEF Frames, Streams
  <2>7. CASE InFile(Caller)
    <3>1. linecount' = Caller.count
      BY <1>3, <1>8, <2>1, <2>7 DEF CountAfter
    <3>2. d \in 1 .. (n - 1) /\ n \in 1 .. Len(callers)
      BY <1>0, <1>1
    <3>3. Caller.count = callers[d + 1].stream.line + Caller.stream.extra
      BY <1>0, <1>1, <2>3, <2>7, <3>2 DEF LocatedInv, CountsKept
    <3>4. Caller.stream.extra \in Int
      BY <1>1 DEF Frames, Streams
    <3> QED BY <1>1, <2>4, <2>5, <2>6, <2>7, <3>1, <3>3, <3>4
  <2>8. CASE ~InFile(Caller)
    <3>1. linecount' = linecount
      BY <1>3, <1>8, <2>8 DEF CountAfter
    <3>2. FileAt(d, n + 1)
      <4>1. \A j \in (d + 1) .. ((n + 1) - 1) : j = n \/ j \in (d + 1) .. (n - 1)
        BY <1>0
      <4> QED BY <1>1, <2>3, <2>8, <4>1 DEF FileAt
    <3>3. linecount = LineAt(d + 1) + stream.extra
                        - (IF d < n /\ stream.line = 0 THEN 1 ELSE 0)
      BY <1>0, <1>2, <2>1, <2>2, <3>2 DEF LocatedInv, Counted
    <3>4. stream.line = stream.lines /\ stream.lines >= 1 /\ stream.extra \in Int
          /\ stream.lines \in Int
      BY <1>3, <1>6, <2>1, <2>8 DEF ReadingInv, TypeInv, TypeOK, Streams
    <3>5. ~ (stream.line = 0)
      BY <3>4
    <3> QED BY <1>1, <2>4, <2>5, <2>6, <2>8, <3>1, <3>3, <3>4, <3>5
  <2> QED BY <2>7, <2>8
<1>12. LineHere'
  <2>1. SUFFICES ASSUME ecode = "ok"
                 PROVE  /\ OnLine(TIB', 1, n, Caller.stream.line)
                        /\ OnLine(TIB', pTIB', n, Caller.stream.line)
    BY <1>1, <1>2, <1>3, <1>6 DEF LineHere
  <2>2. CASE PutsBack /\ TIB' = Written(Caller.saved) /\ pTIB' = 1
    BY <1>6, <1>7, <2>2, OnLineWritten
  <2>3. CASE ~PutsBack /\ UNCHANGED <<TIB, pTIB>>
    <3>1. Caller.kind = "included"
      BY <1>1, <2>1, <2>3 DEF PutsBack, Frames
    <3>2. Last(callers).kind = "included"
      BY <3>1 DEF Caller
    <3>3. TIB[1] = NUL /\ TIB[pTIB] \notin Word
      BY <1>1, <1>3, <2>1, <3>2 DEF ReadingInv
    <3>4. 1 \in 1 .. Size /\ pTIB \in 1 .. Size /\ Buffer(TIB)
      BY SizeNat DEF TypeInv, TypeOK
    <3>5. OnLine(TIB, 1, n, Caller.stream.line)
      BY <3>3, <3>4, OnNoLine
    <3>6. OnLine(TIB, pTIB, n, Caller.stream.line)
      <4>1. CASE TIB[pTIB] = NUL
        BY <3>4, <4>1, OnNoLine
      <4>2. CASE TIB[pTIB] # NUL
        <5>1. TIB[pTIB] = Blank
          BY <3>3, <3>4, <4>2 DEF Buffer, Cells
        <5>2. pTIB + 1 \in 1 .. Size /\ TIB[pTIB + 1] = NUL
          <6>1. pTIB \in 1 .. (Size - 1)
            BY <3>4, <5>1, CellKinds, SizeNat DEF Buffer
          <6> QED BY <3>4, <5>1, <6>1, SizeNat DEF Buffer
        <5> SUFFICES ASSUME NEW i \in pTIB .. Size, \A j \in pTIB .. i : TIB[j] # NUL
                     PROVE  Comes(TIB[i], n, Caller.stream.line)
          BY DEF OnLine
        <5>3. i = pTIB \/ pTIB + 1 \in pTIB .. i
          BY <3>4, SizeNat
        <5>4. i = pTIB
          BY <5>2, <5>3
        <5> QED BY <3>3, <5>4 DEF Comes
      <4> QED BY <4>1, <4>2
    <3> QED BY <2>3, <3>5, <3>6
  <2> QED BY <1>3, <2>2, <2>3
<1>13. OnItsWay'
  <2>1. SUFFICES ASSUME ecode = "error" PROVE OnItsWay'
    BY <1>3 DEF OnItsWay
  <2> DEFINE depth == failure.depth
  <2>2. /\ depth > 0 => linecount = failure.line + failure.extra
        /\ n > depth =>
             /\ \A i \in (depth + 1) .. n : ~InFile(callers[i])
             /\ callers[depth + 1].stream.line = failure.line
        /\ ~failure.quoted =>
             /\ \A i \in 1 .. n : i <= depth => InFile(callers[i])
             /\ n <= depth => OnLine(TIB, 1, depth + 1, failure.line)
    BY <1>0, <2>1 DEF LocatedInv, OnItsWay
  <2>3. depth \in Nat
    BY InputAssumption DEF TypeInv, TypeOK, Failures
  <2>4. linecount' = linecount
    BY <1>3, <2>1 DEF CountAfter
  <2> HIDE DEF depth
  <2>5. n - 1 > depth =>
          /\ \A i \in (depth + 1) .. (n - 1) : ~InFile(callers'[i])
          /\ callers'[depth + 1].stream.line = failure.line
    <3>1. SUFFICES ASSUME n - 1 > depth
                   PROVE  /\ \A i \in (depth + 1) .. (n - 1) : ~InFile(callers'[i])
                          /\ callers'[depth + 1].stream.line = failure.line
      OBVIOUS
    <3>2. n > depth /\ depth + 1 \in 1 .. (n - 1)
          /\ \A i \in (depth + 1) .. (n - 1) : i \in (depth + 1) .. n /\ i \in 1 .. (n - 1)
      BY <1>0, <2>3, <3>1
    <3> QED BY <1>1, <2>2, <3>2
  <2>6. ~failure.quoted => \A i \in 1 .. (n - 1) : i <= depth => InFile(callers'[i])
    <3>1. \A i \in 1 .. (n - 1) : i \in 1 .. n
      BY <1>0
    <3> QED BY <1>1, <2>2, <3>1
  <2>7. ~failure.quoted /\ n - 1 <= depth => OnLine(TIB', 1, depth + 1, failure.line)
    <3>1. SUFFICES ASSUME ~failure.quoted, n - 1 <= depth
                   PROVE  OnLine(TIB', 1, depth + 1, failure.line)
      OBVIOUS
    <3>2. CASE n <= depth
      <4>1. InFile(Caller)
        BY <1>1, <2>2, <3>1, <3>2
      <4>2. ~PutsBack
        BY <1>8, <2>1, <4>1 DEF PutsBack
      <4> QED BY <1>3, <2>2, <3>1, <3>2, <4>2
    <3>3. CASE n > depth
      <4>1. n = depth + 1 /\ n \in (depth + 1) .. n
        BY <1>0, <2>3, <3>1, <3>3
      <4>2. ~InFile(Caller) /\ Caller.stream.line = failure.line
        BY <1>1, <2>2, <3>3, <4>1
      <4>3. TIB' = Written(Caller.saved)
        BY <1>3, <1>8, <4>2 DEF PutsBack
      <4>4. CellsOf(Caller.saved, depth + 1, failure.line)
        BY <1>6, <4>1, <4>2
      <4> QED BY <1>7, <4>3, <4>4, OnLineWritten
    <3> QED BY <1>0, <2>3, <3>2, <3>3
  <2> QED BY <1>1, <1>3, <2>1, <2>2, <2>4, <2>5, <2>6, <2>7 DEF OnItsWay, depth
<1> QED BY <1>9, <1>10, <1>11, <1>12, <1>13 DEF LocatedInv

(* The word at hand goes on to a further cell of its line, or stays.       *)
LEMMA MovesLocated ==
  ASSUME TypeInv, LocatedInv, ecode = "ok", phase \in {"scan", "run"},
         UNCHANGED <<callers, stream, TIB, linecount, ecode>>,
         pTIB' \in pTIB .. Size, \A j \in pTIB .. (pTIB' - 1) : TIB[j] # NUL
  PROVE  LocatedInv'
<1>1. LineHere'
  BY MovesOn DEF LocatedInv
<1>2. stream' = stream
  OBVIOUS
<1> QED BY <1>1, <1>2, StaysLocated

LEMMA LocatedStep ==
  KeepsRules /\ TypeInv /\ ReadingInv /\ LocatedInv /\ [Next]_vars => LocatedInv'
<1> SUFFICES ASSUME KeepsRules, TypeInv, ReadingInv, LocatedInv, [Next]_vars PROVE LocatedInv'
  OBVIOUS
<1>0. /\ pTIB \in 1 .. Size /\ Buffer(TIB) /\ ecode \in {"ok", "error"}
      /\ phase # "return" => ecode = "ok"
      /\ phase = "prompt" => callers = <<>>
  BY DEF ReadingInv, TypeInv, TypeOK
<1>1. CASE UNCHANGED vars
  <2>1. UNCHANGED <<callers, linecount, ecode, stream, TIB, pTIB, phase, failure>>
    BY <1>1 DEF vars
  <2>2. TextsWait' /\ CountsKept' /\ \A i : LineAt(i)' = LineAt(i)
    BY <2>1, SameTexts DEF LocatedInv
  <2>3. LineHere' /\ OnItsWay'
    BY <2>1 DEF LocatedInv, LineHere, OnItsWay, Depth
  <2>4. Counted'
    BY <2>1 DEF LocatedInv, Counted, FileAt, LineAt, Depth
  <2> QED BY <2>2, <2>3, <2>4 DEF LocatedInv
<1>2. ASSUME callers' = <<>>, ecode' = "ok", phase' \in {"prompt", "getline"} PROVE LocatedInv'
  <2>1. Len(callers') = 0
    BY <1>2
  <2> QED BY <1>2, <2>1 DEF LocatedInv, TextsWait, LineHere, CountsKept, Counted, OnItsWay
<1>3. ASSUME Prompt PROVE LocatedInv'
  BY <1>0, <1>2, <1>3 DEF Prompt, NoError
<1>4. ASSUME NextLine PROVE LocatedInv'
  <2>1. UNCHANGED <<callers, ecode>> /\ ecode = "ok"
    BY <1>0, <1>4 DEF NextLine, NoError
  <2>2. CASE GetsLine /\ pTIB' = 1 /\ linecount' = linecount + 1
    BY <2>1, <2>2, GotLocated
  <2>3. CASE GetlineFails /\ phase' = "return" /\ UNCHANGED <<pTIB, linecount>>
    <3>1. LineHere'
      BY <2>3 DEF LineHere
    <3> QED BY <2>1, <2>3, <3>1, NoLineStream, StaysLocated
  <2> QED BY <1>4, <2>2, <2>3 DEF NextLine
<1>5. pTIB \in pTIB .. Size /\ \A j \in pTIB .. (pTIB - 1) : TIB[j] # NUL
  BY <1>0, SizeNat
<1>6. ASSUME EndOfLine PROVE LocatedInv'
  BY <1>0, <1>5, <1>6, MovesLocated DEF EndOfLine, NestVars, NoError
<1>7. ASSUME TIB[pTIB] # NUL
      PROVE  pTIB + 1 \in pTIB .. Size /\ \A j \in pTIB .. ((pTIB + 1) - 1) : TIB[j] # NUL
  <2>1. pTIB + 1 \in 1 .. Size
    BY <1>7, NextCell
  <2>2. \A j \in pTIB .. ((pTIB + 1) - 1) : j = pTIB
    BY <1>0
  <2> QED BY <1>0, <1>7, <2>1, <2>2
<1>8. ASSUME PassBlank PROVE LocatedInv'
  BY <1>0, <1>7, <1>8, CellKinds, MovesLocated DEF PassBlank, NestVars, NoError
<1>9. ASSUME NEW kind, TakesWord(kind), UNCHANGED ecode PROVE LocatedInv'
  BY <1>0, <1>7, <1>9, CellKinds, MovesLocated DEF TakesWord, NestVars
<1>10. ASSUME NEW kind \in Kinds, Compile(kind) \/ ExecuteUpTo(kind) \/ ExecuteCurrent(kind)
       PROVE  LocatedInv'
  BY <1>9, <1>10 DEF Compile, ExecuteUpTo, ExecuteCurrent, NoError
<1>11. ASSUME UnknownWord PROVE LocatedInv'
  BY <1>0, <1>11, FailsLocated DEF UnknownWord, TakesWord, NestVars
<1>12. ASSUME VmReturns PROVE LocatedInv'
  BY <1>0, <1>5, <1>12, MovesLocated DEF VmReturns, NestVars, NoError
<1>13. ASSUME CPP_create PROVE LocatedInv'
  <2>1. /\ Fits("create", CellsFrom(pTIB), skips) /\ Head(run) = "create" /\ phase = "run"
        /\ UNCHANGED <<TIB, stream, linecount, callers>>
    BY <1>13, RunsHead DEF CPP_create, Runs, ReadsOn
  <2>2. CASE \E i \in ExtractName : pTIB' = i + 1 /\ Done
    <3>1. pTIB' = pTIB + 1 /\ TIB[pTIB] # NUL /\ UNCHANGED ecode
      BY <2>1, <2>2, CellKinds, NamesHere DEF Namers, Done, NoError
    <3> QED BY <1>0, <1>7, <2>1, <3>1, MovesLocated
  <2>3. CASE NoName
    <3>1. Fails
      BY <2>1, <2>3, NamesHere DEF Namers
    <3> QED BY <1>0, <2>1, <3>1, FailsLocated
  <2> QED BY <1>13, <2>2, <2>3 DEF CPP_create
<1>14. /\ Len(CellsFrom(pTIB)) \in Nat /\ pTIB + Len(CellsFrom(pTIB)) \in pTIB .. Size
       /\ \A j \in pTIB .. (pTIB + Len(CellsFrom(pTIB)) - 1) : TIB[j] # NUL
  <2> DEFINE c == CellsIn(TIB, pTIB)
  <2>1. /\ c \in Seq(Cells) /\ pTIB + Len(c) \in pTIB .. Size
        /\ \A j \in pTIB .. (pTIB + Len(c) - 1) : TIB[j] # NUL
    BY <1>0, CellsProps
  <2>2. CellsFrom(pTIB) = c
    BY CellsFromIn
  <2> HIDE DEF c
  <2>3. Len(c) \in Nat
    BY <2>1
  <2> QED BY <2>1, <2>2, <2>3
<1>15. ASSUME NEW q \in pTIB .. (pTIB + Len(CellsFrom(pTIB)))
       PROVE  q \in pTIB .. Size /\ \A j \in pTIB .. (q - 1) : TIB[j] # NUL
  <2>1. q \in pTIB .. Size
    BY <1>0, <1>14, SizeNat
  <2>2. \A j \in pTIB .. (q - 1) : j \in pTIB .. (pTIB + Len(CellsFrom(pTIB)) - 1)
    BY <1>0, <1>14
  <2> QED BY <1>14, <2>1, <2>2
<1>16. ASSUME C_parse PROVE LocatedInv'
  <2>1. pTIB' \in pTIB .. (pTIB + Len(CellsFrom(pTIB))) /\ phase = "run"
        /\ UNCHANGED <<TIB, stream, linecount, callers, ecode>>
    BY <1>16 DEF C_parse, Runs, ReadsOn, Done, NoError
  <2>2. pTIB' \in pTIB .. Size /\ \A j \in pTIB .. (pTIB' - 1) : TIB[j] # NUL
    BY <1>15, <2>1
  <2> QED BY <1>0, <2>1, <2>2, MovesLocated
<1>17. ASSUME L_backslash PROVE LocatedInv'
  <2>1. /\ phase = "run" /\ phase' = "run" /\ TIB' = [TIB EXCEPT ![pTIB] = NUL]
        /\ UNCHANGED <<pTIB, stream, linecount, callers, ecode>> /\ ecode = "ok"
    BY <1>0, <1>17 DEF L_backslash, Runs, ReadsOn, Done, NoError
  <2>2. TIB \in [1 .. Size -> Cells]
    BY DEF TypeInv, TypeOK
  <2>3. TIB'[pTIB] = NUL /\ \A j \in 1 .. Size : j # pTIB => TIB'[j] = TIB[j]
    BY <1>0, <2>1, <2>2
  <2>4. OnLine(TIB, 1, Depth, stream.line) /\ stream.line >= 1
    BY <2>1 DEF LocatedInv, LineHere
  <2>5. OnLine(TIB', pTIB, Depth, stream.line)
    BY <1>0, <2>3, OnNoLine
  <2>6. OnLine(TIB', 1, Depth, stream.line)
    <3> SUFFICES ASSUME NEW i \in 1 .. Size, \A j \in 1 .. i : TIB'[j] # NUL
                 PROVE  Comes(TIB'[i], Depth, stream.line)
      BY DEF OnLine
    <3>1. pTIB \notin 1 .. i
      BY <2>3
    <3>2. \A j \in 1 .. i : j \in 1 .. Size /\ j # pTIB
      BY <3>1, SizeNat
    <3>3. \A j \in 1 .. i : TIB'[j] = TIB[j]
      BY <2>3, <3>2
    <3>4. i \in 1 .. i
      OBVIOUS
    <3> QED BY <2>4, <3>3, <3>4 DEF OnLine
  <2>7. LineHere'
    BY <2>1, <2>4, <2>5, <2>6 DEF LineHere, Depth
  <2> QED BY <2>1, <2>7, StaysLocated
<1>18. ASSUME CPP_lparen PROVE LocatedInv'
  <2>1. phase = "run" /\ UNCHANGED callers /\ ecode = "ok"
    BY <1>0, <1>18 DEF CPP_lparen, Runs, ReadsOn
  <2>2. CASE /\ Done
             /\ \E i \in pTIB .. (pTIB + Len(CellsFrom(pTIB)) - 1) : TIB[i] \in Word /\ pTIB' = i + 1
             /\ UNCHANGED <<TIB, stream, linecount>>
    <3>1. PICK i \in pTIB .. (pTIB + Len(CellsFrom(pTIB)) - 1) : pTIB' = i + 1
      BY <2>2
    <3>2. pTIB' \in pTIB .. (pTIB + Len(CellsFrom(pTIB)))
      BY <1>0, <1>14, <3>1
    <3>3. pTIB' \in pTIB .. Size /\ \A j \in pTIB .. (pTIB' - 1) : TIB[j] # NUL
      BY <1>15, <3>2
    <3> QED BY <2>1, <2>2, <3>3, MovesLocated DEF Done, NoError
  <2>3. CASE GetsLine /\ pTIB' = 1 /\ linecount' = linecount + 1 /\ NoError
    BY <2>1, <2>3, GotLocated DEF NoError
  <2>4. CASE GetlineFails /\ Fails /\ UNCHANGED <<run, pTIB, linecount>>
    BY <2>1, <2>4, NoLineStream, FailsLocated
  <2> QED BY <1>18, <2>2, <2>3, <2>4 DEF CPP_lparen, Unterminated
<1>19. ASSUME CPP_refill PROVE LocatedInv'
  <2>1. /\ phase = "run" /\ UNCHANGED <<callers, ecode>> /\ ecode = "ok" /\ pTIB' = 1
        /\ phase' = phase
    BY <1>0, <1>19 DEF CPP_refill, Runs, ReadsOn, Done, NoError
  <2>2. CASE GetsLine /\ linecount' = linecount + 1
    BY <2>1, <2>2, GotLocated
  <2>3. CASE GetlineFails /\ UNCHANGED linecount
    <3>1. /\ stream'.line = stream.line /\ stream'.lines = stream.lines
          /\ stream'.extra = stream.extra /\ TIB'[1] = NUL
      BY <2>3, NoLineStream
    <3>2. 1 \in 1 .. Size
      BY SizeNat
    <3>3. OnLine(TIB', 1, Depth, stream.line)
      BY <3>1, <3>2, OnNoLine
    <3>4. stream.line >= 1
      BY <2>1 DEF LocatedInv, LineHere
    <3>5. Depth' = Depth
      BY <2>1 DEF Depth
    <3>6. LineHere'
      BY <2>1, <3>1, <3>3, <3>4, <3>5 DEF LineHere
    <3> QED BY <2>1, <2>3, <3>1, <3>6, StaysLocated
  <2> QED BY <1>19, <2>2, <2>3 DEF CPP_refill
<1>20. linecount - 1 \in Int /\ 0 \in Int
  BY DEF TypeInv, TypeOK
<1>21. ASSUME CPP_evaluate PROVE LocatedInv'
  <2>1. phase = "run" /\ ecode = "ok"
    BY <1>0, <1>21 DEF CPP_evaluate, Runs
  <2>2. CASE Opens("evaluate", Saved("evaluate"), linecount - 1)
    BY <1>20, <2>1, <2>2, OpensLocated
  <2>3. CASE Done /\ ReadsOn /\ UNCHANGED <<TIB, pTIB, stream, linecount>>
    BY <1>5, <2>1, <2>3, MovesLocated DEF Done, ReadsOn, NoError
  <2> QED BY <1>21, <2>2, <2>3 DEF CPP_evaluate
<1>22. ASSUME CPP_included PROVE LocatedInv'
  <2>1. phase = "run" /\ ecode = "ok"
    BY <1>0, <1>22 DEF CPP_included, Runs
  <2>2. CASE Opens("included", Saved("included"), 0)
    BY <1>20, <2>1, <2>2, OpensLocated
  <2>3. CASE Opens("include", Saved("include"), 0)
    BY <1>20, <2>1, <2>3, OpensLocated
  <2>4. CASE Fails /\ ReadsOn /\ UNCHANGED <<TIB, pTIB, stream, linecount, run>>
    BY <2>1, <2>4, FailsLocated DEF ReadsOn
  <2> QED BY <1>22, <2>2, <2>3, <2>4 DEF CPP_included
<1>23. ASSUME CPP_include PROVE LocatedInv'
  <2>1. /\ Fits("include", CellsFrom(pTIB), skips) /\ Head(run) = "include" /\ phase = "run"
        /\ UNCHANGED <<TIB, stream, linecount, callers>>
    BY <1>23, RunsHead DEF CPP_include, Runs, ReadsOn
  <2>2. CASE (\E i \in ExtractName : pTIB' = i + 1) /\ NoError
    <3>1. pTIB' = pTIB + 1 /\ TIB[pTIB] # NUL /\ UNCHANGED ecode
      BY <2>1, <2>2, CellKinds, NamesHere DEF Namers, NoError
    <3> QED BY <1>0, <1>7, <2>1, <3>1, MovesLocated
  <2>3. CASE NoName
    <3>1. Fails
      BY <2>1, <2>3, NamesHere DEF Namers
    <3> QED BY <1>0, <2>1, <3>1, FailsLocated
  <2> QED BY <1>23, <2>2, <2>3 DEF CPP_include
<1>24. ASSUME TextReturns PROVE LocatedInv'
  BY <1>24, ReturnsLocated
<1>25. ASSUME MainReturns PROVE LocatedInv'
  BY <1>2, <1>25 DEF MainReturns
<1> QED BY <1>1, <1>3, <1>4, <1>6, <1>8, <1>10, <1>11, <1>12, <1>13, <1>16, <1>17, <1>18, <1>19,
           <1>21, <1>22, <1>23, <1>24, <1>25 DEF Next, Compiler, Forth

(* main() reports an error of a file with the line it is in, and with the  *)
(* further lines of the strings that were EVALUATEd in that file; and it   *)
(* prints what is left of that line, unless a string included the file.    *)
THEOREM ErrorIsLocatedCorrect ==
  ASSUME KeepsRules PROVE Spec => []ErrorIsLocated
<1>1. TypeInv /\ ReadingInv /\ LocatedInv /\ [Next]_vars => TypeInv' /\ ReadingInv' /\ LocatedInv'
  BY TypeStep, ReadingStep, LocatedStep
<1>2. Init => TypeInv /\ ReadingInv /\ LocatedInv
  BY TypeInit, ReadingInit, LocatedInit
<1>3. TypeInv /\ LocatedInv => ErrorIsLocated
  <2> SUFFICES ASSUME TypeInv, LocatedInv, phase = "return", callers = <<>>, ecode # "ok"
               PROVE  /\ failure.depth > 0 => linecount = failure.line + failure.extra
                      /\ ~failure.quoted => \A i \in 1 .. Len(WordsOf(CellsFrom(1))) :
                            WordsOf(CellsFrom(1))[i][1] = failure.depth + 1
                            /\ WordsOf(CellsFrom(1))[i][2] = failure.line
    BY DEF ErrorIsLocated
  <2>1. ecode = "error" /\ Len(callers) = 0 /\ Buffer(TIB) /\ 1 \in 1 .. Size
        /\ failure.depth \in Nat
    BY SizeNat, InputAssumption DEF TypeInv, TypeOK, Failures
  <2>2. failure.depth > 0 => linecount = failure.line + failure.extra
    BY <2>1 DEF LocatedInv, OnItsWay
  <2>3. ASSUME ~failure.quoted, NEW i \in 1 .. Len(WordsOf(CellsFrom(1)))
        PROVE  WordsOf(CellsFrom(1))[i][1] = failure.depth + 1
               /\ WordsOf(CellsFrom(1))[i][2] = failure.line
    <3> DEFINE c == CellsIn(TIB, 1)
    <3>1. CellsFrom(1) = c /\ IsLine(c)
      BY <2>1, CellsFromIn, CellsLine
    <3>2. OnLine(TIB, 1, failure.depth + 1, failure.line)
      BY <2>1, <2>3 DEF LocatedInv, OnItsWay
    <3>3. CellsOf(c, failure.depth + 1, failure.line)
      BY <2>1, <3>2, OnLineCells
    <3> HIDE DEF c
    <3>4. /\ Len(WordsOf(c)) \in 0 .. Len(c) /\ Len(c) \in Nat /\ WordsOf(c)[i] = c[i]
          /\ \A j \in 1 .. Len(c) : c[j] \in Word <=> j <= Len(WordsOf(c))
      BY <2>3, <3>1, WordsAre DEF IsLine
    <3>5. i \in 1 .. Len(c) /\ i <= Len(WordsOf(c))
      BY <2>3, <3>1, <3>4
    <3> QED BY <3>1, <3>3, <3>4, <3>5 DEF CellsOf, Comes
  <2> QED BY <2>2, <2>3
<1> QED BY <1>1, <1>2, <1>3, PTL DEF Spec

===============================================================================
