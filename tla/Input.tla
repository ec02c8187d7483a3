-------------------------------- MODULE Input --------------------------------
(***************************************************************************)
(* Where the text interpreter's words come from: the one line buffer TIB,  *)
(* the pointer pTIB into it, and the input streams that main(), EVALUATE,  *)
(* INCLUDED and INCLUDE nest.  ForthCompiler() reads a line of the current *)
(* stream into TIB, takes its words, and runs what they compiled: a word   *)
(* of precedence 0 when the line ends or a NONDEFERRED word needs it, a    *)
(* NONDEFERRED word with all that was compiled before it, an IMMEDIATE     *)
(* word alone.  The words that read on, or that open another text, all     *)
(* work on the same TIB.                                                   *)
(*                                                                         *)
(* A cell of TIB is a word with the blank after it, a further blank, or    *)
(* the NUL that ends a line; a word is the place it comes from: how many   *)
(* texts were open, line, and position.  What a word is gets chosen when   *)
(* it is read.  STATE is zero throughout: Compiler models definitions that *)
(* go on over several lines.                                               *)
(*                                                                         *)
(* skips and failure are history: whether the last word may skip others,   *)
(* and where the error on its way to main() came up.  So is stream.extra:  *)
(* the lines, beyond the first of each string, that EVALUATE read since    *)
(* the file was opened.                                                    *)
(***************************************************************************)
EXTENDS Integers, Sequences, SequencesExt

CONSTANTS
  Kinds,     \* the kinds of words the texts have, see AllKinds
  Rules,     \* what the texts keep to: "last", INCLUDED is the last word of its
             \* line; "named", a word that takes a name has one, or nothing,
             \* after it, and no further blanks
  Blanks,    \* bound: how many words a line may have that ends in blanks
  LongLines, \* whether a line may have 255 characters or more
  MaxWords,  \* bound: words on a line
  MaxLines,  \* bound: lines of a file
  ConsoleLines, \* bound: lines of the console until the next prompt
  StringLines, \* bound: lines of a string for EVALUATE
  MaxDepth,  \* bound: texts open at once
  MaxCode    \* bound: EVALUATE and REFILL compiled and not yet run

Deferred == {"word", "evaluate", "refill"}
UpTo     == {"create", "parse", "backslash", "dotparen", "include", "included"}
AtOnce   == {"paren", "macro", "skiplines", "unknown"}
AllKinds == Deferred \cup UpTo \cup AtOnce

ASSUME InputAssumption ==
  /\ Kinds \subseteq AllKinds /\ Blanks \subseteq 0 .. MaxWords /\ LongLines \in BOOLEAN
  /\ Rules \subseteq {"last", "named"}
  /\ {MaxWords, MaxLines, ConsoleLines, StringLines, MaxDepth} \subseteq Nat \ {0}
  /\ ConsoleLines <= MaxLines /\ StringLines <= MaxLines /\ MaxCode \in Nat

VARIABLES
  TIB, pTIB,  \* the line buffer and the next cell to look at
  stream,     \* pInStream: how many lines it has, and how many were read
  callers,    \* the nested streams' callers, on the C stack
  linecount,
  code,       \* pOpCodes: what is compiled and not yet run
  run,        \* what ForthVM() has still to run
  resume,     \* where ForthCompiler() goes on after it
  phase,      \* who runs, see Phases
  ecode,
  skips, failure

vars == <<TIB, pTIB, stream, callers, linecount, code, run, resume, phase, ecode,
          skips, failure>>

-----------------------------------------------------------------------------
(* Types *)

(* MaxWords words and a blank, or a word more than a line may have, and    *)
(* the NUL.                                                                *)
Size  == MaxWords + 2
Word  == (1 .. MaxDepth) \X (1 .. MaxLines) \X (1 .. (Size - 1))
NUL   == <<0, 0, 0>>
Blank == <<0, 0, 1>>
Cells == Word \cup {Blank, NUL}
Ops   == {"evaluate", "refill", "create", "parse", "backslash", "include",
          "open", "openkeep", "paren", "macro", "skiplines", "unknown"}
Phases == {"prompt", "getline", "scan", "run", "return", "wild"}
Streams == [lines : 0 .. MaxLines, line : 0 .. MaxLines, good : BOOLEAN, extra : Nat]
Frames == [kind : {"evaluate", "included", "include"}, stream : Streams,
           saved : Seq(Cells), count : Int, code : Seq(Ops), run : Seq(Ops),
           resume : {"getline", "scan"}, skips : BOOLEAN]
Failures == [depth : 0 .. MaxDepth, line : 0 .. MaxLines, extra : Nat, quoted : BOOLEAN]

-----------------------------------------------------------------------------
(* The line buffer *)

Depth == Len(callers) + 1

(* The cells from p up to the NUL, and the words among them: a blank only  *)
(* ends a line, see Lines.                                                 *)
CellsFrom(p) ==
  LET stop == CHOOSE i \in p .. Size : TIB[i] = NUL /\ \A j \in p .. (i - 1) : TIB[j] # NUL
  IN  SubSeq(TIB, p, stop - 1)
WordsOf(cells) == IF cells # <<>> /\ Last(cells) = Blank THEN Front(cells) ELSE cells

(* strcpy() or getline() into TIB: what lies behind the NUL stays.         *)
Written(cells) ==
  [i \in 1 .. Size |-> IF i <= Len(cells) THEN cells[i]
                       ELSE IF i = Len(cells) + 1 THEN NUL ELSE TIB[i]]

Line(n, k) == [i \in 1 .. k |-> <<Depth, n, i>>]
Lines(n) ==
  {Line(n, k) : k \in 0 .. MaxWords}
    \cup {Append(Line(n, k), Blank) : k \in Blanks}

InFile(s) == s.kind # "evaluate"

(* The next line is not the first of a string that a file EVALUATEs.       *)
ExtraLine ==
  /\ callers # <<>> /\ ~InFile(Last(callers)) /\ stream.line > 0
  /\ \E i \in 1 .. Len(callers) : InFile(callers[i])

(* getline() of the current stream: the next line is in TIB, or the stream *)
(* fails, with nothing in TIB at its end, and with as much as TIB holds of *)
(* a line that is too long, after which it will only fail.                 *)
GetsLine ==
  /\ stream.good /\ stream.line < stream.lines
  /\ \E cells \in Lines(stream.line + 1) : TIB' = Written(cells)
  /\ stream' = [stream EXCEPT !.line = @ + 1, !.extra = IF ExtraLine THEN @ + 1 ELSE @]

GetlineFails ==
  /\ \/ /\ ~stream.good \/ stream.line = stream.lines
        /\ TIB' = Written(<<>>)
     \/ /\ LongLines /\ stream.good /\ stream.line < stream.lines
        /\ TIB' = Written(Line(stream.line + 1, Size - 1))
  /\ stream' = [stream EXCEPT !.good = FALSE]

(* ExtractName(): blanks before the name are passed with strchr(), which   *)
(* finds the NUL among the delimiters too.                                 *)
NamesFrom(p) == {i \in p .. Size : TIB[i] \in Word /\ \A j \in p .. (i - 1) : TIB[j] \notin Word}

ExtractName ==
  IF TIB[pTIB] = NUL THEN {} ELSE NamesFrom(pTIB)

-----------------------------------------------------------------------------
(* ForthCompiler() *)

NestVars == <<stream, callers>>

(* An error leaves the vm() and every ForthCompiler() around it; ghost: it *)
(* came up in the innermost text that is no string.                        *)
FailedAt ==
  LET files == {i \in 1 .. Len(callers) : InFile(callers[i])}
      depth == IF files = {} THEN 0 ELSE CHOOSE i \in files : \A j \in files : j <= i
      line  == IF depth = Len(callers) THEN stream.line ELSE callers[depth + 1].stream.line
  IN  [depth |-> depth, line |-> line, extra |-> stream.extra,
       quoted |-> \E i \in 1 .. depth : callers[i].kind = "evaluate"]

NoFailure == [depth |-> 0, line |-> 0, extra |-> 0, quoted |-> FALSE]

Fails == ecode' = "error" /\ phase' = "return" /\ failure' = FailedAt
NoError == UNCHANGED <<ecode, failure>>

(* main() takes a line of the console, or the commands of its arguments.   *)
Prompt ==
  /\ phase = "prompt" /\ phase' = "getline"
  /\ \E n \in 1 .. ConsoleLines : stream' = [lines |-> n, line |-> 0, good |-> TRUE, extra |-> 0]
  /\ skips' = FALSE
  /\ UNCHANGED <<TIB, pTIB, callers, linecount, code, run, resume>> /\ NoError

NextLine ==
  /\ phase = "getline"
  /\ \/ GetsLine /\ pTIB' = 1 /\ linecount' = linecount + 1 /\ phase' = "scan"
     \/ GetlineFails /\ phase' = "return" /\ UNCHANGED <<pTIB, linecount>>
  /\ UNCHANGED <<callers, code, run, resume, skips>> /\ NoError

(* The line is at its end: what it compiled is run.                        *)
EndOfLine ==
  /\ phase = "scan" /\ TIB[pTIB] = NUL
  /\ run' = code /\ code' = <<>> /\ resume' = "getline"
  /\ phase' = IF code = <<>> THEN "getline" ELSE "run"
  /\ UNCHANGED <<TIB, pTIB, linecount, skips>> /\ UNCHANGED NestVars /\ NoError

PassBlank ==
  /\ phase = "scan" /\ TIB[pTIB] = Blank /\ pTIB' = pTIB + 1
  /\ UNCHANGED <<TIB, linecount, code, run, resume, phase, skips>>
  /\ UNCHANGED NestVars /\ NoError

TakesWord(kind) ==
  /\ phase = "scan" /\ TIB[pTIB] \in Word /\ kind \in Kinds
  /\ pTIB' = pTIB + 1
  /\ skips' = (kind \in {"paren", "dotparen", "parse", "backslash", "skiplines"})
  /\ UNCHANGED <<TIB, linecount>> /\ UNCHANGED NestVars

(* Precedence 0, and numbers: compiled.  Only what reads on is remembered. *)
Compile(kind) ==
  /\ TakesWord(kind) /\ kind \in Deferred
  /\ \/ kind = "word" /\ UNCHANGED code
     \/ kind # "word" /\ Len(code) < MaxCode /\ code' = Append(code, kind)
  /\ UNCHANGED <<run, resume, phase>> /\ NoError

(* NONDEFERRED: run, with all that was compiled before it.                 *)
ExecuteUpTo(kind) ==
  /\ TakesWord(kind) /\ kind \in UpTo
  /\ kind = "included" /\ "last" \in Rules => WordsOf(CellsFrom(pTIB + 1)) = <<>>
  /\ kind \in {"create", "include"} /\ "named" \in Rules => TIB[pTIB + 1] # Blank
  /\ run' = Append(code, CASE kind = "included" -> "open" [] kind = "dotparen" -> "paren"
                            [] OTHER -> kind)
  /\ code' = <<>> /\ resume' = "scan" /\ phase' = "run" /\ NoError

(* IMMEDIATE: run alone. *)
ExecuteCurrent(kind) ==
  /\ TakesWord(kind) /\ kind \in AtOnce \ {"unknown"}
  /\ run' = <<kind>> /\ resume' = "scan" /\ phase' = "run"
  /\ UNCHANGED code /\ NoError

UnknownWord ==
  TakesWord("unknown") /\ Fails /\ UNCHANGED <<code, run, resume>>

VmReturns ==
  /\ phase = "run" /\ run = <<>> /\ phase' = resume
  /\ UNCHANGED <<TIB, pTIB, linecount, code, run, resume, skips>>
  /\ UNCHANGED NestVars /\ NoError

-----------------------------------------------------------------------------
(* Words that read on *)

Runs(op) == phase = "run" /\ run # <<>> /\ Head(run) = op
Done == run' = Tail(run) /\ UNCHANGED phase /\ NoError
ReadsOn == UNCHANGED <<callers, code, resume, skips>>

(* There is no name: nothing is left of the line, or only blanks, and no   *)
(* word in the rest of the buffer either.                                  *)
NoName ==
  /\ ExtractName = {} /\ UNCHANGED <<pTIB, run>>
  /\ \/ TIB[pTIB] = NUL /\ Fails
     \/ TIB[pTIB] # NUL /\ phase' = "wild" /\ NoError

(* CREATE, and the words that call it; without a name they fail.          *)
CPP_create ==
  /\ Runs("create") /\ ReadsOn
  /\ (\E i \in ExtractName : pTIB' = i + 1 /\ Done) \/ NoName
  /\ UNCHANGED <<TIB, stream, linecount>>

(* WORD, PARSE and CHAR stop at the delimiter or at the NUL.               *)
C_parse ==
  /\ Runs("parse") /\ ReadsOn /\ Done
  /\ pTIB' \in pTIB .. (pTIB + Len(CellsFrom(pTIB)))
  /\ UNCHANGED <<TIB, stream, linecount>>

L_backslash ==
  /\ Runs("backslash") /\ ReadsOn /\ Done
  /\ TIB' = [TIB EXCEPT ![pTIB] = NUL]
  /\ UNCHANGED <<pTIB, stream, linecount>>

(* Mutant: the end of the stream goes unnoticed. *)
NeverUnterminated == phase' = phase /\ UNCHANGED <<ecode, failure>>

Unterminated == Fails

(* ( and .( go on to the next lines until they find the parenthesis.  ( is *)
(* IMMEDIATE; .( is NONDEFERRED too, and waits for the code before it.     *)
CPP_lparen ==
  /\ Runs("paren") /\ ReadsOn
  /\ \/ /\ WordsOf(CellsFrom(pTIB)) # <<>> /\ Done
        /\ \E i \in pTIB .. (pTIB + Len(CellsFrom(pTIB)) - 1) : TIB[i] \in Word /\ pTIB' = i + 1
        /\ UNCHANGED <<TIB, stream, linecount>>
     \/ /\ GetsLine /\ pTIB' = 1 /\ linecount' = linecount + 1
        /\ UNCHANGED <<run, phase>> /\ NoError
     \/ GetlineFails /\ Unterminated /\ UNCHANGED <<run, pTIB, linecount>>

(* REFILL, in a word that runs at once or in one that waits.               *)
CPP_refill ==
  /\ Runs("refill") \/ Runs("skiplines")
  /\ ReadsOn /\ Done /\ pTIB' = 1
  /\ \/ GetsLine /\ linecount' = linecount + 1
     \/ GetlineFails /\ UNCHANGED linecount

-----------------------------------------------------------------------------
(* Words that open a text *)

(* Mutant: EVALUATE keeps nothing of the line it is called from. *)
NothingSaved(kind) == <<>>

(* INCLUDED called by itself keeps nothing of its line.                    *)
Saved(kind) == IF kind = "included" THEN <<>> ELSE CellsFrom(pTIB)

Opens(kind, saved, count) ==
  /\ Depth < MaxDepth
  /\ callers' = Append(callers,
       [kind |-> kind, stream |-> stream, saved |-> saved, count |-> linecount,
        code |-> code, run |-> Tail(run), resume |-> resume, skips |-> skips])
  /\ \E n \in IF kind = "evaluate" THEN 1 .. StringLines ELSE 0 .. MaxLines :
       stream' = [lines |-> n, line |-> 0, good |-> TRUE,
                  extra |-> IF kind = "evaluate" THEN stream.extra ELSE 0]
  /\ linecount' = count /\ code' = <<>> /\ run' = <<>> /\ phase' = "getline"
  /\ skips' = FALSE /\ UNCHANGED <<TIB, pTIB, resume>> /\ NoError

(* A string that is empty, or has 256 characters or more, is passed over.  *)
CPP_evaluate ==
  /\ Runs("evaluate") \/ Runs("macro")
  /\ \/ Opens("evaluate", Saved("evaluate"), linecount - 1)
     \/ Done /\ ReadsOn /\ UNCHANGED <<TIB, pTIB, stream, linecount>>

(* INCLUDED; its code is run once more when the file is at its end, but    *)
(* then there is none left.                                                *)
CPP_included ==
  /\ Runs("open") \/ Runs("openkeep")
  /\ \/ Runs("open") /\ Opens("included", Saved("included"), 0)
     \/ Runs("openkeep") /\ Opens("include", Saved("include"), 0)
     \/ /\ Fails /\ ReadsOn
        /\ UNCHANGED <<TIB, pTIB, stream, linecount, run>>

(* INCLUDE takes the name, keeps the rest of the line and calls INCLUDED.  *)
CPP_include ==
  /\ Runs("include") /\ ReadsOn
  /\ \/ /\ \E i \in ExtractName : pTIB' = i + 1
        /\ run' = <<"openkeep">> \o Tail(run) /\ UNCHANGED phase /\ NoError
     \/ NoName
  /\ UNCHANGED <<TIB, stream, linecount>>

-----------------------------------------------------------------------------
(* Returns *)

Caller == Last(callers)

(* Mutant: INCLUDED puts the count back before it looks at the error. *)
CountBackTooSoon == IF Caller.kind = "evaluate" THEN linecount ELSE Caller.count

CountAfter ==
  IF Caller.kind = "evaluate" \/ ecode # "ok" THEN linecount ELSE Caller.count

(* EVALUATE puts the line back whatever happened; INCLUDE only when there  *)
(* was no error, and INCLUDED never.                                       *)
PutsBack == Caller.kind = "evaluate" \/ (Caller.kind = "include" /\ ecode = "ok")

TextReturns ==
  /\ phase = "return" /\ callers # <<>>
  /\ \/ PutsBack /\ TIB' = Written(Caller.saved) /\ pTIB' = 1
     \/ ~PutsBack /\ UNCHANGED <<TIB, pTIB>>
  /\ linecount' = CountAfter
  /\ stream' = [Caller.stream EXCEPT !.extra = IF InFile(Caller) THEN @ ELSE stream.extra]
  /\ callers' = Front(callers)
  /\ code' = Caller.code /\ run' = Caller.run /\ resume' = Caller.resume
  /\ phase' = IF ecode = "ok" THEN "run" ELSE "return"
  /\ skips' = Caller.skips /\ NoError

(* main() prints the error with linecount and TIB, or the prompt, and goes *)
(* on counting; the model counts the lines since the last prompt.          *)
MainReturns ==
  /\ phase = "return" /\ callers = <<>>
  /\ phase' = "prompt" /\ ecode' = "ok" /\ code' = <<>> /\ run' = <<>>
  /\ linecount' = 0 /\ failure' = NoFailure
  /\ UNCHANGED <<TIB, pTIB, stream, callers, resume, skips>>

-----------------------------------------------------------------------------
Init ==
  /\ TIB = [i \in 1 .. Size |-> NUL] /\ pTIB = 1
  /\ stream = [lines |-> 0, line |-> 0, good |-> FALSE, extra |-> 0]
  /\ callers = <<>> /\ linecount = 0
  /\ code = <<>> /\ run = <<>> /\ resume = "scan"
  /\ phase = "prompt" /\ ecode = "ok" /\ skips = FALSE
  /\ failure = NoFailure

Compiler ==
  \/ Prompt \/ NextLine \/ EndOfLine \/ PassBlank \/ UnknownWord \/ VmReturns
  \/ \E kind \in Kinds : Compile(kind) \/ ExecuteUpTo(kind) \/ ExecuteCurrent(kind)

Forth ==
  \/ CPP_create \/ C_parse \/ L_backslash \/ CPP_lparen \/ CPP_refill
  \/ CPP_evaluate \/ CPP_included \/ CPP_include

Next == Compiler \/ Forth \/ TextReturns \/ MainReturns

(* One thread: whatever can go on does. *)
Spec == Init /\ [][Next]_vars /\ WF_vars(Next)

-----------------------------------------------------------------------------
(* Properties *)

TypeOK ==
  /\ TIB \in [1 .. Size -> Cells] /\ pTIB \in 1 .. Size
  /\ stream \in Streams /\ stream.line <= stream.lines
  /\ callers \in Seq(Frames) /\ Len(callers) < MaxDepth
  /\ linecount \in Int /\ code \in Seq(Ops) /\ run \in Seq(Ops)
  /\ resume \in {"getline", "scan"} /\ phase \in Phases /\ ecode \in {"ok", "error"}
  /\ skips \in BOOLEAN
  /\ failure \in Failures

(* The refinement mapping: the texts being read are the streams on the C   *)
(* stack and the current one.  What is left of a line is what its caller   *)
(* saved, or, while ForthCompiler() is in it, what pTIB points to.         *)
Rest == IF phase \in {"scan", "run"} THEN WordsOf(CellsFrom(pTIB)) ELSE <<>>

Text(rest, from, may) ==
  [rest |-> rest, line |-> from.line, lines |-> from.lines, skips |-> may]

Texts ==
  IF phase = "prompt" \/ ecode # "ok" THEN <<>>
  ELSE Append([i \in 1 .. Len(callers) |->
                 Text(WordsOf(callers[i].saved), callers[i].stream, callers[i].skips)],
              Text(Rest, stream, skips))

Promise == INSTANCE Reading WITH texts <- Texts, failed <- (ecode # "ok")

(* Through all nesting, saving, restoring and deferring in one buffer, the *)
(* words are taken in the order of their texts and none is lost.           *)
ReadsInOrder == Promise!Spec

(* An error in a file is reported with the number of the line it is in, as *)
(* long as no string of several lines was EVALUATEd in that file: EVALUATE *)
(* takes one line off the count, ForthCompiler() adds each line of the     *)
(* string, and the number is off by the others from then on.  What is left *)
(* of the line is reported too, unless a string included the file.         *)
ErrorIsLocated ==
  phase = "return" /\ callers = <<>> /\ ecode # "ok" =>
    /\ failure.depth > 0 => linecount = failure.line + failure.extra
    /\ ~failure.quoted => \A i \in 1 .. Len(WordsOf(CellsFrom(1))) :
          WordsOf(CellsFrom(1))[i][1] = failure.depth + 1
          /\ WordsOf(CellsFrom(1))[i][2] = failure.line

(* Every line typed comes to an end: texts are finite, and a comment that  *)
(* is not closed ends with its stream.                                     *)
PromptComesBack == []<>(phase = "prompt")

(* vmc.c: ExtractName() returns a pointer to the next position in the      *)
(* string, so pTIB stays within the line.                                  *)
StaysInLine ==
  [][TIB' = TIB /\ pTIB' > pTIB => \A i \in pTIB .. (pTIB' - 1) : TIB[i] # NUL]_vars

===============================================================================
