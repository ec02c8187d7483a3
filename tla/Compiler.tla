------------------------------- MODULE Compiler -------------------------------
(***************************************************************************)
(* The kForth-32 compiler: ForthCompiler() of ForthCompiler.cpp and the    *)
(* words of ForthVM.cpp that write code: the control structures, : and ;,  *)
(* the brackets [ and ], COMPILE, and the words that open a nested input   *)
(* stream, EVALUATE and INCLUDE, for which ForthCompiler() calls itself    *)
(* through the virtual machine.                                            *)
(*                                                                         *)
(* Everything these words share is global in the code and a variable here: *)
(* STATE, the opcode vector being written (pCurrentOps), the one [ put     *)
(* aside (pPreviousOps), and one stack of code offsets per control         *)
(* structure.  The source text is open: at any moment the next word may be *)
(* any of Words, a line may end, a stream may end.  What running code does *)
(* is VirtualMachine's subject; here it ends, fails, or EVALUATEs.         *)
(*                                                                         *)
(* Code is a sequence of instructions with their byte offsets, because the *)
(* relative jumps and the control stacks count bytes.  An int is WSIZE     *)
(* bytes.  def, nest and written are history variables: which definition   *)
(* the source is in, the structures open in the source, and the words of   *)
(* the definition.                                                         *)
(***************************************************************************)
EXTENDS Integers, SequencesExt

CONSTANTS
  WSIZE,     \* bytes in an int
  Hole,      \* a jump count or address that is still to be written
  Words,     \* the words the source is made of
  Misuses,   \* usage rules the source breaks, see Rules
  MaxWords,  \* bound: words in a definition
  MaxCode,   \* bound: instructions in the opcode vectors when a word is read
  MaxOpen,   \* bound: entries on a control stack
  MaxFrames  \* bound: nested calls of ForthCompiler()

Openers  == {"IF", "BEGIN", "DO", "?DO", "CASE"}
Controls == Openers \cup {"ELSE", "THEN", "WHILE", "REPEAT", "UNTIL", "AGAIN",
              "LEAVE", "ENDCASE", "OF", "ENDOF", "RECURSE", "ABORT\""}
Nondeferred == {":", "CREATE", "COMPILE,", "INCLUDE"}

(* IMMEDIATE words that compile what they take from the stack, or from the *)
(* text that follows them.                                                 *)
Postpones == {"POSTPONE", "POSTPONE immediate", "POSTPONE unknown"}
CellLiterals == {"LITERAL", "2LITERAL", "SLITERAL", "['] unknown"} \* take from the stack
Literals == CellLiterals \cup {"[']", "C\"", "S\"", ".\""} \cup Postpones

(* Words of the program and literals, by what CPP_compilename() writes.    *)
Compileds == {"word", "definition", "2constant", "fconstant", "number", "float"}
AllWords == Controls \cup Nondeferred \cup Literals \cup Compileds \cup
              {"LOOP", "UNLOOP", ";", "[", "]", "unknown", "macro"}

(* Rules a source keeps unless Misuses says that it breaks one.  Besides,  *)
(* a structure that is interpreted, not compiled, always nests, and ends   *)
(* on its line and before a word that runs at once.                        *)
Rules == {"no structures in brackets", "no definitions in brackets",
          "no nested interpretation in a structure",
          "no ABORT\" before the first definition", "['] finds its name",
          "brackets end in their stream", "definitions end in their stream"}

ASSUME CompilerAssumption ==
  /\ WSIZE \in Nat \ {0} /\ Hole \notin Int
  /\ Words \subseteq AllWords /\ Misuses \subseteq Rules
  /\ MaxWords \in Nat /\ MaxCode \in Nat /\ MaxOpen \in Nat /\ MaxFrames \in Nat \ {0}

VARIABLES
  State,          \* TRUE while compiling
  ops,            \* the opcode vectors: tempOps, main()'s op, and one for each
                  \* nested ForthCompiler()
  pCurrentOps, pPreviousOps,
  ctl,            \* the control stacks
  frames,         \* the ForthCompiler() calls and what each is doing
  result,         \* the error code on its way out, "none" while there is none
  pNewWord,       \* the word that made the newest dictionary entry
  compiled,       \* the code the last step put in the dictionary, if any
  wild,           \* TRUE once a byte outside a jump count was overwritten
  def, nest, written \* history, see above

vars == <<State, ops, pCurrentOps, pPreviousOps, ctl, frames, result, pNewWord,
          compiled, wild, def, nest, written>>
history == <<def, nest, written>>

-----------------------------------------------------------------------------
(* Opcode vectors *)

Temp == 0   \* tempOps
Main == 1   \* op of main()
NoOps == -1 \* NULL

Vectors == Temp .. MaxFrames
Stacks  == {"if", "begin", "while", "do", "querydo", "leave", "recurse", "case", "of"}
(* Bytes of an instruction: the opcode, and the int or ints, or the double, *)
(* that follow it.                                                         *)
Width(op) ==
  CASE op \in {"JZ", "JMP", "IVAL", "ADDR", "CALLADDR", "DEFINITION"} -> 1 + WSIZE
    [] op \in {"2VAL", "FVAL"} -> 1 + 2 * WSIZE
    [] OTHER -> 1

Size(code) ==
  IF code = <<>> THEN 0 ELSE Last(code).at + Width(Last(code).op)

Emit(code, op, arg) ==
  Append(code, [op |-> op, at |-> Size(code), arg |-> arg])

(* The words below map a compilation state to the next: the code in        *)
(* *pCurrentOps, the control stacks, whether a patch went wild, the error. *)
Current == [code |-> ops[pCurrentOps], ctl |-> ctl, wild |-> FALSE, e |-> "none"]

Jump(s, op, n)   == [s EXCEPT !.code = Emit(@, op, n)]
Op(s, op)        == Jump(s, op, 0)
Fails(s, e)      == [s EXCEPT !.e = e]
TopOf(s, st)     == Last(s.ctl[st])
Pushed(s, st, i) == [s EXCEPT !.ctl[st] = Append(@, i)]
Popped(s, st)    == [s EXCEPT !.ctl[st] = Front(@)]
IsEmpty(s, st)   == s.ctl[st] = <<>>

(* A jump whose count is still to be written; the stack takes the offset   *)
(* of the count.                                                           *)
JumpAhead(s, op, st) == Pushed(Jump(s, op, Hole), st, Size(s.code) + 1)

(* OpsCopyInt() at each offset, with the count that makes its jump reach n *)
(* bytes past the end of the code.  Anything but an unwritten count there  *)
(* is code being overwritten.                                              *)
OpsCopyInt(s, offsets, n) ==
  LET Hit(k) == s.code[k].arg = Hole /\ s.code[k].at + 1 \in offsets
  IN [s EXCEPT
        !.wild = @ \/ \E j \in offsets : \A k \in DOMAIN s.code : Hit(k) => s.code[k].at + 1 # j,
        !.code = [k \in DOMAIN s.code |->
          IF Hit(k) THEN [s.code[k] EXCEPT !.arg = Size(s.code) - s.code[k].at + n]
          ELSE s.code[k]]]

Land(s, st, n) == OpsCopyInt(Popped(s, st), {TopOf(s, st)}, n)

-----------------------------------------------------------------------------
(* The control structure words *)

CPP_if(s) == JumpAhead(s, "JZ", "if")

(* The offset of the new JMP's count takes the place of IF's. *)
CPP_else(s) ==
  LET t == Jump(s, "JMP", Hole) IN
  IF IsEmpty(t, "if") THEN Fails(t, "else without if")
  ELSE Pushed(Land(t, "if", 0), "if", Size(t.code) - WSIZE)

CPP_then(s) ==
  IF IsEmpty(s, "if") THEN Fails(s, "then without if") ELSE Land(s, "if", 0)

CPP_begin(s) == Pushed(s, "begin", Size(s.code))

CPP_while(s) ==
  IF IsEmpty(s, "begin") THEN Fails(s, "no begin") ELSE JumpAhead(s, "JZ", "while")

BackToBegin(s, op) ==
  IF IsEmpty(s, "begin") THEN Fails(s, "no begin")
  ELSE Jump(Popped(s, "begin"), op, TopOf(s, "begin") - Size(s.code))

CPP_until(s) == BackToBegin(s, "JZ")
CPP_again(s) == BackToBegin(s, "JMP")

(* Mutant: counts the bytes of the JMP's operand, not of the JMP. *)
RepeatShort(s) ==
  IF ~IsEmpty(s, "begin") /\ ~IsEmpty(s, "while") /\ TopOf(s, "while") > TopOf(s, "begin")
  THEN BackToBegin(Land(s, "while", WSIZE), "JMP")
  ELSE BackToBegin(s, "JMP")

(* A WHILE later than the BEGIN jumps past the JMP that REPEAT writes. *)
CPP_repeat(s) ==
  IF ~IsEmpty(s, "begin") /\ ~IsEmpty(s, "while") /\ TopOf(s, "while") > TopOf(s, "begin")
  THEN BackToBegin(Land(s, "while", WSIZE + 1), "JMP")
  ELSE BackToBegin(s, "JMP")

CPP_do(s) ==
  LET t == Op(Op(Op(s, "PUSH"), "PUSH"), "PUSHIP") IN Pushed(t, "do", Size(t.code))

CPP_querydo(s) ==
  LET t == CPP_do(CPP_else(Op(CPP_if(Op(Op(s, "2DUP"), "EQ")), "2DROP")))
  IN Pushed(t, "querydo", Size(t.code))

CPP_leave(s) ==
  IF IsEmpty(s, "do") THEN Fails(s, "no do")
  ELSE JumpAhead(Op(s, "UNLOOP"), "JMP", "leave")

(* The start of a ?DO's loop, or of a later one, is in querydostack.       *)
CloseQueryDo(s, start) ==
  IF IsEmpty(s, "querydo") \/ TopOf(s, "querydo") < start THEN s
  ELSE Popped([CPP_then(s) EXCEPT !.e = "none"], "querydo")

(* How many of the LEAVEs belong to loops outside the one that starts here. *)
NoOuterLeaves(s, start) == 0 \* Mutant: all LEAVEs land after the inner loop
OuterLeaves(s, start) == SelectLastInSeq(s.ctl["leave"], LAMBDA j : j <= start)

(* The LEAVEs later than the DO and the IF of a ?DO land after LOOP. *)
CloseLoop(s) ==
  LET start == TopOf(s, "do")
      outer == OuterLeaves(s, start)
      inner == SubSeq(s.ctl["leave"], outer + 1, Len(s.ctl["leave"]))
      t == OpsCopyInt([Popped(s, "do") EXCEPT !.ctl["leave"] = SubSeq(@, 1, outer)],
                      Range(inner), 0)
  IN IF IsEmpty(s, "do") THEN Fails(s, "loop without do") ELSE CloseQueryDo(t, start)

CPP_case(s) == Pushed(s, "case", -1)

CPP_of(s) == Op(JumpAhead(Op(Op(s, "OVER"), "EQ"), "JZ", "of"), "DROP")

CPP_endof(s) ==
  LET t == JumpAhead(s, "JMP", "case") IN
  IF IsEmpty(t, "of") THEN Fails(t, "endof without of") ELSE Land(t, "of", 0)

(* The jumps of ENDOF, down to the mark of the last CASE or the bottom,    *)
(* land here; the mark goes.                                               *)
KeepMark(stack, mark) == SubSeq(stack, 1, mark) \* Mutant: the mark stays
DropCase(stack, mark) == SubSeq(stack, 1, mark - 1)
CPP_endcase(s) ==
  LET stack == s.ctl["case"]
      mark  == SelectLastInSeq(stack, LAMBDA j : j = -1)
      t     == [Op(s, "DROP") EXCEPT !.ctl["case"] = DropCase(@, mark)]
  IN IF stack = <<>> THEN Fails(s, "no case")
     ELSE OpsCopyInt(t, Range(SubSeq(stack, mark + 1, Len(stack))), 0)

(* While compiling, ; will write the address. *)
CPP_recurse(s) ==
  Op(IF State THEN JumpAhead(s, "ADDR", "recurse") ELSE Op(s, "ADDR"), "EXECUTE_BC")

Ops2(s, first, second) == Op(Op(s, first), second)

(* Types the message and the name of the word, unless the JZ skips it all. *)
CPP_abortquote(s) ==
  LET message == Op(Ops2(Jump(s, "JZ", 4 * WSIZE + 9), "ADDR", "IVAL"), "TYPE")
      name    == Op(Ops2(message, "ADDR", "COUNT"), "TYPE")
  IN Ops2(name, "CR", "ABORT")

(* The text up to the closing quote becomes a string; S" and ." go on from *)
(* its address.                                                            *)
CPP_cquote(s)   == Op(s, "ADDR")
CPP_squote(s)   == Ops2(CPP_cquote(s), "INC", "IVAL")
CPP_dotquote(s) == Ops2(CPP_cquote(s), "COUNT", "TYPE")

(* One stack item: ADDR takes the place of IVAL if its tag says so.  ['] of *)
(* an unknown name goes on to LITERAL as well, and takes whatever item is  *)
(* on the stack.                                                           *)
CPP_literal(s)     == Op(s, "IVAL")
CPP_twoliteral(s)  == CPP_literal(CPP_literal(s))
CPP_sliteral(s)    == Ops2(s, "ADDR", "IVAL")
CPP_brackettick(t, s) == IF t = "[']" THEN Op(s, "ADDR") ELSE CPP_literal(s)

(* An IMMEDIATE word is compiled; another is compiled to be compiled; a    *)
(* name that is not found is passed over.                                  *)
CPP_postpone(t, s) ==
  CASE t = "POSTPONE immediate" -> Op(s, "DEFINITION")
    [] t = "POSTPONE" -> Ops2(s, "ADDR", "CALLADDR")
    [] t = "POSTPONE unknown" -> s

LiteralWord(t, s) ==
  CASE t = "LITERAL"  -> CPP_literal(s)     [] t = "2LITERAL" -> CPP_twoliteral(s)
    [] t = "SLITERAL" -> CPP_sliteral(s)
    [] t \in {"[']", "['] unknown"} -> CPP_brackettick(t, s)
    [] t = "C\""      -> CPP_cquote(s)      [] t = "S\""      -> CPP_squote(s)
    [] t = ".\""      -> CPP_dotquote(s)
    [] t \in Postpones -> CPP_postpone(t, s)

LiteralError(t) ==
  CASE t \in {"C\"", "S\"", ".\""} -> "no end of string"
    [] t = "SLITERAL" -> "vm"
    [] OTHER -> "none"

(* What CPP_compilename() writes for a word, and ForthCompiler() for a     *)
(* number.                                                                 *)
Opcode(t) ==
  CASE t = "word"      -> "DUP"    [] t = "definition" -> "DEFINITION"
    [] t = "2constant" -> "2VAL"   [] t = "fconstant"  -> "FVAL"
    [] t = "number"    -> "IVAL"   [] t = "float"      -> "FVAL"

ControlWord(t, s) ==
  CASE t = "IF"      -> CPP_if(s)      [] t = "ELSE"    -> CPP_else(s)
    [] t = "THEN"    -> CPP_then(s)    [] t = "BEGIN"   -> CPP_begin(s)
    [] t = "WHILE"   -> CPP_while(s)   [] t = "REPEAT"  -> CPP_repeat(s)
    [] t = "UNTIL"   -> CPP_until(s)   [] t = "AGAIN"   -> CPP_again(s)
    [] t = "DO"      -> CPP_do(s)      [] t = "?DO"     -> CPP_querydo(s)
    [] t = "LEAVE"   -> CPP_leave(s)   [] t = "CASE"    -> CPP_case(s)
    [] t = "OF"      -> CPP_of(s)      [] t = "ENDOF"   -> CPP_endof(s)
    [] t = "ENDCASE" -> CPP_endcase(s) [] t = "RECURSE" -> CPP_recurse(s)
    [] t = "ABORT\"" -> CPP_abortquote(s)
    [] t = "LOOP"    -> CloseLoop(Op(s, "LOOP"))

-----------------------------------------------------------------------------
(* Error codes *)

(* A word without the word it belongs to, or a structure open at ; *)
StructureErrors ==
  {"else without if", "then without if", "no begin", "no do", "loop without do",
   "endof without of", "no case", "incomplete if", "incomplete begin",
   "incomplete loop", "incomplete case"}
Codes == StructureErrors \cup
  {"none", "ok", "end of stream", "vm", "unknown word", "no end of string",
   "end of definition with no beginning"}

-----------------------------------------------------------------------------
(* What the source means: the history variables *)

NoDef   == [phase |-> "none", stream |-> 0, brackets |-> 0]
Crossed == <<"crossed">> \* the structures of this definition do not nest

(* The innermost open structure a word needs, and what it puts there.      *)
Closers == {"ELSE", "THEN", "WHILE", "REPEAT", "UNTIL", "AGAIN", "LOOP", "OF", "ENDOF", "ENDCASE"}
Needs(t) ==
  CASE t = "ELSE" -> {"if"}       [] t = "THEN" -> {"if", "else"}
    [] t \in {"WHILE", "UNTIL", "AGAIN"} -> {"begin"}
    [] t = "REPEAT" -> {"while"}  [] t = "LOOP" -> {"do"}
    [] t \in {"OF", "ENDCASE"} -> {"case"} [] t = "ENDOF" -> {"of"}
Puts(t) ==
  CASE t = "IF" -> <<"if">>       [] t = "ELSE" -> <<"else">>
    [] t = "BEGIN" -> <<"begin">> [] t = "WHILE" -> <<"while">>
    [] t \in {"DO", "?DO"} -> <<"do">>
    [] t = "CASE" -> <<"case">>   [] t = "OF" -> <<"case", "of">>
    [] OTHER -> <<>>

Nested(t, open) ==
  IF open = Crossed \/ t = "UNLOOP" THEN Crossed
  ELSE IF t = "LEAVE" THEN IF "do" \in Range(open) THEN open ELSE Crossed
  ELSE IF t \notin Closers THEN open \o Puts(t)
  ELSE IF open # <<>> /\ Last(open) \in Needs(t) THEN Front(open) \o Puts(t)
  ELSE Crossed

(* The opcodes a word stands for. *)
Meaning(t) ==
  CASE t \in {"IF", "WHILE", "UNTIL"} -> <<"JZ">>
    [] t \in {"ELSE", "REPEAT", "AGAIN", "ENDOF"} -> <<"JMP">>
    [] t = "DO"       -> <<"PUSH", "PUSH", "PUSHIP">>
    [] t = "?DO"      -> <<"2DUP", "EQ", "JZ", "2DROP", "JMP", "PUSH", "PUSH", "PUSHIP">>
    [] t = "LEAVE"    -> <<"UNLOOP", "JMP">>
    [] t = "OF"       -> <<"OVER", "EQ", "JZ", "DROP">>
    [] t = "ENDCASE"  -> <<"DROP">>
    [] t = "RECURSE"  -> <<"ADDR", "EXECUTE_BC">>
    [] t = "ABORT\""  -> <<"JZ", "ADDR", "IVAL", "TYPE", "ADDR", "COUNT", "TYPE", "CR", "ABORT">>
    [] t = "COMPILE," -> <<"IVAL", "EXECUTE">>
    [] t \in {"LOOP", "UNLOOP"} -> <<t>>
    [] t = "LITERAL"  -> <<"IVAL">>
    [] t = "2LITERAL" -> <<"IVAL", "IVAL">>
    [] t = "SLITERAL" -> <<"ADDR", "IVAL">>
    [] t \in {"[']", "C\""} -> <<"ADDR">>
    [] t = "S\""      -> <<"ADDR", "INC", "IVAL">>
    [] t = ".\""      -> <<"ADDR", "COUNT", "TYPE">>
    [] t = "POSTPONE" -> <<"ADDR", "CALLADDR">>
    [] t = "POSTPONE immediate" -> <<"DEFINITION">>
    [] t \in Compileds -> <<Opcode(t)>>
    [] OTHER          -> <<>>

Allowed(rule, condition) == condition \/ rule \in Misuses

-----------------------------------------------------------------------------
(* ForthCompiler(): one line after the other, one word after the other *)

Top == Last(frames)
Depth == Len(frames)
Doing(what) == Top.doing = what
Reading == Doing("read") /\ result = "none"
Running == ~Doing("read")

(* A frame writes through pOpCodes, the words through pCurrentOps: the     *)
(* words below are followed only while the two are the same vector, which  *)
(* is what OpsInStep says.                                                 *)
NextWord(t) ==
  /\ t \in Words /\ Reading /\ pCurrentOps = Top.pOpCodes
  /\ \/ t \in {";", "]"}
     \/ /\ MapThenSumSet(LAMBDA v : Len(ops[v]), Vectors) < MaxCode
        /\ Len(written) < MaxWords
  /\ \A st \in Stacks : Len(ctl[st]) < MaxOpen

SetTop(field, value) == [frames EXCEPT ![Depth][field] = value]
Runs(what, word) == [frames EXCEPT ![Depth].doing = what, ![Depth].word = word]
Idle == Runs("read", "none")

(* Mutant: one of the stacks is forgotten. *)
ClearNotLeaves == [st \in Stacks |-> IF st \in {"recurse", "leave"} THEN ctl[st] ELSE <<>>]

(* ClearControlStacks() leaves recursestack alone. *)
ClearControlStacks == [st \in Stacks |-> IF st = "recurse" THEN ctl[st] ELSE <<>>]

Commit(s) ==
  /\ ops' = [ops EXCEPT ![pCurrentOps] = s.code]
  /\ wild' = (wild \/ s.wild)
  /\ ctl' = IF s.e = "none" THEN s.ctl ELSE ClearControlStacks
  /\ result' = s.e

(* The source adds a word to the definition; between [ and ] it does not.  *)
Wrote(t) == written' = IF def.phase = "body" THEN Append(written, t) ELSE written

(* A control structure word is IMMEDIATE: EXECUTE_CURRENT_ONLY takes its   *)
(* opcode off the code again and runs it.  ABORT" fails when its line has  *)
(* no closing quote.                                                       *)
StructureWord(t) ==
  /\ NextWord(t) /\ t \in Controls
  /\ Allowed("no structures in brackets", def.phase # "brackets")
  /\ Allowed("no ABORT\" before the first definition", t = "ABORT\"" => pNewWord # "none")
  /\ def.phase = "none" => Nested(t, nest) # Crossed
  /\ \/ Commit([ControlWord(t, Current) EXCEPT !.wild = @ \/ (t = "ABORT\"" /\ pNewWord = "none")])
     \/ t = "ABORT\"" /\ Commit(Fails(Current, "no end of string"))
  /\ nest' = IF def.phase = "brackets" THEN nest ELSE Nested(t, nest)
  /\ Wrote(t)
  /\ UNCHANGED <<State, pCurrentOps, pPreviousOps, frames, pNewWord, def>>

(* A word that compiles a literal is IMMEDIATE too.  It has no structure.  *)
(* One that fails leaves what it wrote before; the definition is given up. *)
(* That the stack had no item to take comes out after it was compiled.     *)
Literal(t) ==
  /\ NextWord(t) /\ t \in Literals
  /\ Allowed("['] finds its name", t # "['] unknown")
  /\ \/ Commit(LiteralWord(t, Current))
     \/ LiteralError(t) # "none" /\ Commit(Fails(Current, LiteralError(t)))
     \/ t \in CellLiterals /\ Commit(Fails(LiteralWord(t, Current), "vm"))
  /\ Wrote(t)
  /\ UNCHANGED <<State, pCurrentOps, pPreviousOps, frames, pNewWord, def, nest>>

(* Words that stay in the code to run with it: LOOP and UNLOOP are checked *)
(* against the open loops.                                                 *)
CompiledWord(t) ==
  /\ NextWord(t) /\ t \in {"LOOP", "UNLOOP"} \cup Compileds
  /\ t \in {"LOOP", "UNLOOP"} => Allowed("no structures in brackets", def.phase # "brackets")
  /\ def.phase = "none" => Nested(t, nest) # Crossed
  /\ Commit(CASE t = "LOOP" -> ControlWord(t, Current)
              [] t = "UNLOOP" -> IF IsEmpty(Current, "do")
                                 THEN Fails(Op(Current, "UNLOOP"), "loop without do")
                                 ELSE Op(Current, "UNLOOP")
              [] t \in Compileds -> Op(Current, Opcode(t)))
  /\ nest' = IF def.phase = "brackets" THEN nest ELSE Nested(t, nest)
  /\ Wrote(t)
  /\ UNCHANGED <<State, pCurrentOps, pPreviousOps, frames, pNewWord, def>>

UnknownWord ==
  /\ NextWord("unknown")
  /\ result' = "unknown word"
  /\ UNCHANGED <<State, ops, pCurrentOps, pPreviousOps, ctl, frames, pNewWord, wild, history>>

-----------------------------------------------------------------------------
(* Words that begin and end a definition *)

(* EXECUTE_UP_TO: while interpreting, a NONDEFERRED word runs at once, with *)
(* all the code before it on the line.  While compiling it is compiled, as *)
(* "word" is.                                                              *)
NondeferredWord(t) ==
  /\ NextWord(t) /\ t \in Nondeferred /\ ~State
  /\ t \in {":", "CREATE"} => Allowed("no definitions in brackets", def.phase # "brackets")
  /\ t = "COMPILE," => def.phase = "brackets" /\ def.brackets = Depth
  /\ def.phase = "none" => nest = <<>>
  /\ Commit(Op(Op(Current, t), "RET"))
  /\ frames' = Runs("up to", t)
  /\ UNCHANGED <<State, pCurrentOps, pPreviousOps, pNewWord, history>>

(* The body of : at the end of that run.                                   *)
CPP_colon ==
  /\ State' = TRUE /\ pNewWord' = ":"
  /\ ctl' = [ctl EXCEPT !["recurse"] = <<>>]
  /\ def' = IF def.phase = "none" THEN [phase |-> "body", stream |-> Depth, brackets |-> 0] ELSE def
  /\ UNCHANGED <<pCurrentOps, pPreviousOps, nest, written>>

CPP_create == pNewWord' = "CREATE" /\ UNCHANGED <<State, pCurrentOps, pPreviousOps, ctl, history>>

(* COMPILE, in brackets writes to the code that [ put aside.               *)
CompileComma ==
  /\ written' = Append(written, "COMPILE,")
  /\ pCurrentOps' = Temp
  /\ UNCHANGED <<State, pPreviousOps, pNewWord, ctl, def, nest>>

UpToDone ==
  /\ Doing("up to") /\ result = "none" /\ Top.word # "INCLUDE"
  /\ ops' = IF Top.word = "COMPILE,"
            THEN [ops EXCEPT ![pPreviousOps] = Emit(Emit(@, "IVAL", 0), "EXECUTE", 0),
                             ![Top.pOpCodes] = <<>>]
            ELSE [ops EXCEPT ![Top.pOpCodes] = <<>>]
  /\ \/ Top.word = ":" /\ CPP_colon
     \/ Top.word = "CREATE" /\ CPP_create
     \/ Top.word = "COMPILE," /\ CompileComma
     \/ Top.word = "included"
        /\ UNCHANGED <<State, pCurrentOps, pPreviousOps, pNewWord, ctl, history>>
  /\ frames' = Idle
  /\ UNCHANGED <<result, wild>>

Incomplete(s) ==
  IF ~IsEmpty(s, "case") \/ ~IsEmpty(s, "of") THEN "incomplete case"
  ELSE IF ~IsEmpty(s, "do") \/ ~IsEmpty(s, "leave") THEN "incomplete loop"
  ELSE IF ~IsEmpty(s, "begin") \/ ~IsEmpty(s, "while") THEN "incomplete begin"
  ELSE IF ~IsEmpty(s, "if") THEN "incomplete if" ELSE "none"

(* ; writes the word's address into its recursive calls, copies the code   *)
(* to the dictionary and empties the vector.                               *)
CPP_semicolon ==
  LET s == Op(Current, "RET")
      r == OpsCopyInt([s EXCEPT !.ctl["recurse"] = <<>>], Range(ctl["recurse"]), 0)
  IN /\ NextWord(";")
     /\ \/ /\ State /\ Incomplete(s) = "none"
           /\ Commit([r EXCEPT !.code = <<>>])
           /\ compiled' = r.code /\ State' = FALSE
           /\ IF def.phase = "body"
              THEN def' = NoDef /\ nest' = <<>> /\ written' = <<>>
              ELSE UNCHANGED history
        \/ /\ State /\ Incomplete(s) # "none"
           /\ Commit(Fails(s, Incomplete(s)))
           /\ nest' = IF nest = <<>> THEN nest ELSE Crossed
           /\ compiled' = <<>> /\ UNCHANGED <<State, def, written>>
        \/ /\ ~State /\ Commit(Fails(s, "end of definition with no beginning"))
           /\ compiled' = <<>> /\ UNCHANGED <<State, history>>
     /\ UNCHANGED <<pCurrentOps, pPreviousOps, frames, pNewWord>>

-----------------------------------------------------------------------------
(* Brackets, and words that run at once *)

(* Mutant: the code of the definition is not put aside. *)
LbracketForgets == pPreviousOps' = pPreviousOps
SaveOps == pPreviousOps' = pCurrentOps

(* [ stops compiling and sends what follows to the empty tempOps.          *)
CPP_lbracket ==
  /\ NextWord("[") /\ def.phase = "body" /\ State
  /\ State' = FALSE
  /\ SaveOps /\ pCurrentOps' = Temp
  /\ ops' = [ops EXCEPT ![Temp] = <<>>]
  /\ frames' = SetTop("pOpCodes", Temp)
  /\ def' = [def EXCEPT !.phase = "brackets", !.brackets = Depth]
  /\ UNCHANGED <<ctl, result, pNewWord, wild, nest, written>>

(* ] runs what the brackets compiled; see BracketDone for the rest.        *)
CPP_rbracket ==
  /\ NextWord("]") /\ def.phase = "brackets" /\ def.brackets = Depth
  /\ Commit(Op(Current, "RET"))
  /\ frames' = Runs("bracket", "none")
  /\ UNCHANGED <<State, pCurrentOps, pPreviousOps, pNewWord, history>>

(* Whether that run ended or failed, ] goes back to the code of the        *)
(* definition.                                                             *)
EndBracket ==
  /\ ops' = [ops EXCEPT ![pCurrentOps] = <<>>]
  /\ State' = TRUE /\ pCurrentOps' = pPreviousOps
  /\ UNCHANGED <<pPreviousOps, pNewWord>>

BracketDone ==
  /\ Doing("bracket") /\ result = "none" /\ EndBracket
  /\ frames' = [Idle EXCEPT ![Depth].pOpCodes = pPreviousOps]
  /\ def' = [def EXCEPT !.phase = "body", !.brackets = 0]
  /\ UNCHANGED <<ctl, result, wild, nest, written>>

(* An IMMEDIATE word of the program: EXECUTE_CURRENT_ONLY runs it.         *)
Macro ==
  /\ NextWord("macro") /\ frames' = Runs("current", "none")
  /\ UNCHANGED <<State, ops, pCurrentOps, pPreviousOps, ctl, result, pNewWord, wild, history>>

MacroDone ==
  /\ Doing("current") /\ result = "none"
  /\ frames' = [Idle EXCEPT ![Depth].pOpCodes = pCurrentOps]
  /\ UNCHANGED <<State, ops, pCurrentOps, pPreviousOps, ctl, result, pNewWord, wild, history>>

(* The end of a line runs it, unless a definition is being compiled.       *)
EndOfLine ==
  /\ Reading /\ pCurrentOps = Top.pOpCodes /\ ~State /\ ops[Top.pOpCodes] # <<>>
  /\ def.phase = "none" => nest = <<>>
  /\ Commit(Op(Current, "RET"))
  /\ frames' = Runs("line", "none")
  /\ UNCHANGED <<State, pCurrentOps, pPreviousOps, pNewWord, history>>

LineDone ==
  /\ Doing("line") /\ result = "none"
  /\ ops' = [ops EXCEPT ![Top.pOpCodes] = <<>>]
  /\ frames' = Idle
  /\ UNCHANGED <<State, pCurrentOps, pPreviousOps, ctl, result, pNewWord, wild, history>>

(* Running code fails, or the nested ForthCompiler() it called did: after  *)
(* ForthVM() has cleared the control stacks, the frame leaves its loop.    *)
RunFails(e) ==
  /\ Running /\ e # "none" /\ (result = e \/ (result = "none" /\ e = "vm"))
  /\ IF Doing("bracket") THEN EndBracket
     ELSE /\ ops' = IF Doing("current") THEN ops ELSE [ops EXCEPT ![Top.pOpCodes] = <<>>]
          /\ UNCHANGED <<State, pCurrentOps, pPreviousOps, pNewWord>>
  /\ ctl' = ClearControlStacks /\ result' = e
  /\ frames' = Idle
  /\ UNCHANGED <<wild, history>>

-----------------------------------------------------------------------------
(* Nested input streams *)

Frame(kind, pOpCodes, pOldOps) ==
  [kind |-> kind, pOpCodes |-> pOpCodes, pOldOps |-> pOldOps, doing |-> "read", word |-> "none"]

(* The vector of a nested ForthCompiler() that has one of its own.         *)
OwnOps == Depth + 1

Nest(kind, pOpCodes, callers) ==
  /\ Running /\ result = "none" /\ Depth < MaxFrames
  /\ frames' = Append(callers, Frame(kind, pOpCodes, pCurrentOps))
  /\ pCurrentOps' = pOpCodes
  /\ UNCHANGED <<State, ops, pPreviousOps, ctl, result, pNewWord, wild, history>>

(* While compiling, the string is compiled into the definition's code.     *)
AlwaysOwnOps == OwnOps \* Mutant: also while compiling
EvaluateOps == IF State THEN pCurrentOps ELSE OwnOps
CPP_evaluate ==
  /\ Top.word # "included"
  /\ Allowed("no nested interpretation in a structure", State \/ nest = <<>>)
  /\ Nest("evaluate", EvaluateOps, frames)

CPP_include ==
  /\ Doing("up to") /\ Top.word = "INCLUDE"
  /\ Allowed("no nested interpretation in a structure", State \/ nest = <<>>)
  /\ Nest("included", OwnOps, SetTop("word", "included"))

EndOfStream ==
  /\ Reading /\ pCurrentOps = Top.pOpCodes
  /\ State \/ ops[Top.pOpCodes] = <<>>
  /\ def.phase = "none" => nest = <<>>
  /\ Allowed("brackets end in their stream", def.phase = "brackets" => def.brackets # Depth)
  /\ Allowed("definitions end in their stream",
             def.phase = "body" => Depth = Main \/ def.stream # Depth)
  /\ result' = IF State THEN "end of stream" ELSE "ok"
  /\ UNCHANGED <<State, ops, pCurrentOps, pPreviousOps, ctl, frames, pNewWord, wild, history>>

(* endcompile:, and what the caller makes of it.  main() starts over with  *)
(* the next console line, EVALUATE and INCLUDE restore pCurrentOps, and    *)
(* EVALUATE takes the end of a stream in mid-definition as no error.       *)
Midway == result = "end of stream"
KeepState == State           \* Mutant: an error leaves STATE alone
StateAfter == State /\ Midway
KeepOps == pCurrentOps       \* Mutant: the nested stream's vector stays
OldOps == Top.pOldOps

EndCompile ==
  /\ Doing("read") /\ result # "none"
  /\ State' = StateAfter
  /\ ctl' = IF Midway THEN ctl ELSE ClearControlStacks
  /\ \/ /\ Top.kind = "main" /\ result' = "none"
        /\ frames' = <<Frame("main", Main, NoOps)>> /\ pCurrentOps' = Main
        /\ ops' = IF Midway THEN ops ELSE [ops EXCEPT ![Main] = <<>>]
     \/ /\ Top.kind # "main"
        /\ result' = IF result = "ok" \/ (Top.kind = "evaluate" /\ Midway) THEN "none" ELSE result
        /\ frames' = Front(frames) /\ pCurrentOps' = OldOps
        /\ ops' = [ops EXCEPT ![Depth] = <<>>]
  /\ IF Top.kind = "main" /\ result \notin {"ok", "end of stream"}
     THEN def' = NoDef /\ nest' = <<>> /\ written' = <<>>
     ELSE UNCHANGED history
  /\ UNCHANGED <<pPreviousOps, pNewWord, wild>>

-----------------------------------------------------------------------------
(* The specification *)

Init ==
  /\ State = FALSE
  /\ ops = [v \in Vectors |-> <<>>]
  /\ pCurrentOps = Main /\ pPreviousOps = NoOps
  /\ ctl = [st \in Stacks |-> <<>>]
  /\ frames = <<Frame("main", Main, NoOps)>>
  /\ result = "none" /\ pNewWord = "none" /\ compiled = <<>> /\ wild = FALSE
  /\ def = NoDef /\ nest = <<>> /\ written = <<>>

Next ==
  \/ CPP_semicolon
  \/ /\ compiled' = <<>>
     /\ \/ \E t \in Words : StructureWord(t) \/ Literal(t) \/ CompiledWord(t) \/ NondeferredWord(t)
        \/ UnknownWord \/ CPP_lbracket \/ CPP_rbracket \/ Macro
        \/ UpToDone \/ BracketDone \/ MacroDone \/ LineDone
        \/ \E e \in Codes : RunFails(e)
        \/ EndOfLine \/ EndOfStream \/ EndCompile
        \/ CPP_evaluate \/ CPP_include

Spec == Init /\ [][Next]_vars

-----------------------------------------------------------------------------
(* What is true of the compiler *)

Opcodes == Nondeferred \cup
  {"JZ", "JMP", "PUSH", "PUSHIP", "2DUP", "EQ", "2DROP", "UNLOOP", "LOOP", "OVER",
   "DROP", "ADDR", "EXECUTE_BC", "IVAL", "TYPE", "COUNT", "CR", "ABORT", "INC",
   "DEFINITION", "CALLADDR", "DUP", "2VAL", "FVAL", "RET", "EXECUTE"}
Instructions == [op : Opcodes, at : Nat, arg : Int \cup {Hole}]
Structures == {"if", "else", "begin", "while", "do", "case", "of", "crossed"}
Frames == [kind : {"main", "evaluate", "included"}, pOpCodes : Vectors,
           pOldOps : Vectors \cup {NoOps},
           doing : {"read", "up to", "current", "line", "bracket"},
           word : (Nondeferred \cap Words) \cup {"none", "included"}]

(* The types of the variables: offsets are instruction starts, there is    *)
(* always a ForthCompiler() call, and error codes are known.               *)
TypeOK ==
  /\ State \in BOOLEAN /\ wild \in BOOLEAN
  /\ ops \in [Vectors -> Seq(Instructions)] /\ compiled \in Seq(Instructions)
  /\ pCurrentOps \in Vectors /\ pPreviousOps \in Vectors \cup {NoOps}
  /\ ctl \in [Stacks -> Seq(Int)]
  /\ frames \in Seq(Frames) /\ Depth \in 1 .. MaxFrames
  /\ result \in Codes /\ pNewWord \in {"none", ":", "CREATE"}
  /\ def \in [phase : {"none", "body", "brackets"}, stream : 0 .. MaxFrames,
              brackets : 0 .. MaxFrames]
  /\ nest \in Seq(Structures) /\ written \in Seq(Words)

(* A ForthCompiler() call writes where the words write: its pOpCodes is    *)
(* pCurrentOps whenever it reads a word, whatever [, ], COMPILE, and       *)
(* nested streams did before (ForthCompiler.cpp:348, CPP_evaluate).        *)
OpsInStep == Reading => pCurrentOps = Top.pOpCodes

(* STATE says what the source says: compiling between : and ; but for      *)
(* brackets, interpreting elsewhere, also after errors and nested streams. *)
StateFollowsSource == Reading => State = (def.phase = "body")

(* Every jump of a word in the dictionary, and of code that is about to    *)
(* run, has its count and lands on an instruction; no patch hit other code. *)
Lands(code) ==
  \A k \in DOMAIN code :
    /\ code[k].arg # Hole
    /\ code[k].op \in {"JZ", "JMP"} =>
         \E n \in DOMAIN code : code[n].at = code[k].at + code[k].arg
JumpsLand ==
  /\ ~wild /\ Lands(compiled)
  /\ Running /\ ~Doing("current") /\ Top.word # "INCLUDE" => Lands(ops[Top.pOpCodes])

(* The return stack depth before each instruction, as control falls through *)
(* the code: DO pushes three cells, LOOP takes them off, and so does the   *)
(* UNLOOP of a LEAVE, whose JMP skips the rest of the loop.                *)
ReturnDepth(code) ==
  LET Effect(k) == CASE code[k].op \in {"PUSH", "PUSHIP"}   -> 1
                     [] code[k].op \in {"LOOP", "UNLOOP"}   -> -3
                     [] code[k].op = "JMP" /\ k > 1 /\ code[k - 1].op = "UNLOOP" -> 3
                     [] OTHER -> 0
      depth[k \in 1 .. Len(code)] == IF k = 1 THEN 0 ELSE depth[k - 1] + Effect(k - 1)
  IN depth
Balanced(code) ==
  LET depth == ReturnDepth(code) IN
  \A k, n \in DOMAIN code :
    /\ code[k].op = "RET" => depth[k] = 0
    /\ code[k].op \in {"LOOP", "UNLOOP"} => depth[k] >= 3
    /\ code[k].op \in {"JZ", "JMP"} /\ code[n].at = code[k].at + code[k].arg
         => depth[n] = depth[k]

(* A word whose structures nest leaves the return stack as it found it on  *)
(* every path: all jumps, those of LEAVE and ?DO too, land where the       *)
(* return stack is as deep as where they start.                            *)
LoopsBalanced ==
  [][compiled' # <<>> /\ nest # Crossed => nest = <<>> /\ Balanced(compiled')]_vars

(* The dictionary gets, as the word that : named, exactly the code the     *)
(* source asked for, in order: no line, bracket, macro or nested stream of *)
(* a definition loses or adds code.  For a source that keeps the rule      *)
(* "['] finds its name": ['] of an unknown name compiles an item of the    *)
(* stack that nobody asked for, and reports no error (CPP_brackettick).    *)
Asked(code) ==
  [k \in DOMAIN code |-> code[k].op]
    = Append(FlattenSeq([k \in DOMAIN written |-> Meaning(written[k])]), "RET")
NothingLost ==
  [][compiled' # <<>> => pNewWord = ":" /\ Asked(compiled')]_vars

(* A source whose structures nest gets no error about its structures.      *)
RightfulErrors == result \in StructureErrors => nest = Crossed

(* With no structure open the control stacks are empty, so that nothing    *)
(* of one definition, or of an abandoned one, reaches into the next.       *)
NoLeftovers ==
  result = "none" /\ nest = <<>> => \A st \in Stacks \ {"recurse"} : ctl[st] = <<>>

===============================================================================
