------------------------------ MODULE Dictionary ------------------------------
(***************************************************************************)
(* The dictionary of kForth-32: wordlists and the words in them, the       *)
(* search order, the compilation wordlist, and when a word that is read    *)
(* runs (ForthVM.cpp, and ExecutionMethod() of ForthCompiler.cpp).         *)
(*                                                                         *)
(* A word that is read is located at once, but it runs later: in           *)
(* interpretation its code joins the code of the line, which runs when the *)
(* line ends or a NONDEFERRED word is read.  The words that change what    *)
(* later names mean are therefore NONDEFERRED, and so is each definition   *)
(* they are compiled into.                                                 *)
(*                                                                         *)
(* A WordListEntry is a number, its index in words: what the pointers to   *)
(* it are in the code.  Its code is the sequence of dictionary commands    *)
(* that running it performs, those of the words it calls included, and its *)
(* refs are the words whose code or data its own code points to.  The      *)
(* intrinsic words are in no sequence here: RootWords and the commands of  *)
(* the Forth wordlist are found while their wordlist is in the order.      *)
(***************************************************************************)
EXTENDS Integers, SequencesExt, FiniteSetsExt

CONSTANTS
  Names,     \* names of the words a program defines
  Commands,  \* the intrinsic words it uses
  Misuses,   \* usage rules it breaks, see Rules
  MaxWords,  \* bound: words ever defined
  MaxWids,   \* bound: wordlists ever made
  MaxOrder,  \* bound: length of the search order
  MaxCode,   \* bound: commands in a word
  MaxLine    \* bound: commands waiting for the end of the line

RootWords == {"SET-ORDER", "FORTH"}
Marks     == {"IMMEDIATE", "NONDEFERRED"}
Defining  == {":", "VARIABLE", "VOCABULARY", "ALIAS"}
Moving    == {"ALSO", "ONLY", "PREVIOUS", "FORTH", "ASSEMBLER", "DEFINITIONS"}

(* The intrinsics whose precedence is NONDEFERRED.  A vocabulary's word,   *)
(* "vocabulary" here, is made NONDEFERRED.                                 *)
Nondeferred == Defining \cup Moving \cup
  {"SET-ORDER", "SET-CURRENT", "WORDLIST", "FORGET", "COLD", "vocabulary"}

Rules == {"orders end in Root", "no definitions in Root", "brackets keep the dictionary",
          "marks follow their word", "PREVIOUS and vocabularies are typed",
          "DOES> code is deferrable", "what is postponed is deferrable"}
Keeps(rule) == rule \notin Misuses

ASSUME DictionaryAssumption ==
  /\ Commands \subseteq Nondeferred \cup Marks \cup {"DOES>", "POSTPONE"}
  /\ Misuses \subseteq Rules
  /\ {MaxWords, MaxWids, MaxOrder, MaxCode, MaxLine} \subseteq Nat

VARIABLES
  words,          \* every WordListEntry made
  wordlists,      \* every WordList made, each a sequence of entries
  Dictionary,     \* the wordlists that CloseForth() knows
  SearchOrder,    \* wordlists in the order they are searched
  pCompilationWL, \* the wordlist that takes new words
  pNewWord,       \* the entry made last
  State,          \* "interpret", "compile", or "brackets": in a definition's [ ]
  line,           \* the commands that wait to run
  newest,         \* history: the word put last in a wordlist, 0 if it is gone
  missed          \* history: a mark was put on another word than it was read for

vars == <<words, wordlists, Dictionary, SearchOrder, pCompilationWL, pNewWord,
          State, line, newest, missed>>

Root == 1
Forth == 2
Assembler == 3
NoWord == 0

Command(op) == [op |-> op, wids |-> <<>>, id |-> NoWord]
WithWids(op, wids) == [Command(op) EXCEPT !.wids = wids]

(* home is history: the wordlist the word was put in, 0 before that. *)
Entry(name) == [name |-> name, code |-> <<>>, does |-> <<>>, refs |-> {}, home |-> 0,
                immediate |-> FALSE, nondeferred |-> FALSE, freed |-> FALSE]
Freed(e) == [Entry("") EXCEPT !.freed = TRUE, !.home = e.home]

(* The commands below map a dictionary to the next. *)
Here == [words |-> words, lists |-> wordlists, dict |-> Dictionary, order |-> SearchOrder,
         current |-> pCompilationWL, new |-> pNewWord, newest |-> newest, missed |-> missed]

Becomes(s) ==
  /\ Len(s.words) <= MaxWords /\ Len(s.lists) <= MaxWids /\ Len(s.order) <= MaxOrder
  /\ \A id \in DOMAIN s.words : Len(s.words[id].code) <= MaxCode
  /\ Keeps("no definitions in Root") => s.current # Root
  /\ words' = s.words /\ wordlists' = s.lists /\ Dictionary' = s.dict
  /\ SearchOrder' = s.order /\ pCompilationWL' = s.current /\ pNewWord' = s.new
  /\ newest' = s.newest /\ missed' = s.missed

-----------------------------------------------------------------------------
(* Finding words *)

(* The last entry of that name is the one found. *)
GetFromName(entries, list, name) ==
  LET hits == {i \in DOMAIN list : entries[list[i]].name = name}
  IN IF hits = {} THEN NoWord ELSE list[Max(hits)]

LocateWord(name) ==
  LET In(i) == GetFromName(words, wordlists[SearchOrder[i]], name)
      found == {i \in DOMAIN SearchOrder : In(i) # NoWord}
  IN IF found = {} THEN NoWord ELSE In(Min(found))

Visible(op) == (IF op \in RootWords THEN Root ELSE Forth) \in Range(SearchOrder)

Listed == UNION {Range(wordlists[w]) : w \in DOMAIN wordlists}

(* Code may run while nothing it points to was freed. *)
Runnable(id) == id # NoWord /\ words[id].refs \subseteq Listed

-----------------------------------------------------------------------------
(* Search order *)

Front1(s, wid) == [s EXCEPT !.order[1] = wid]

CPP_also(s)      == [s EXCEPT !.order = <<Head(@)>> \o @]
CPP_only(s)      == [s EXCEPT !.order = <<Root>>]
CPP_previous(s)  == [s EXCEPT !.order = Tail(@)]
CPP_assembler(s) == Front1(s, Assembler)

(* Mutant: overwrites the only entry of the order. *)
ForthReplaces(s) == Front1(s, Forth)

CPP_forth(s) == Front1(IF Len(s.order) = 1 THEN CPP_also(s) ELSE s, Forth)

CPP_setorder(s, wids)    == [s EXCEPT !.order = wids]
CPP_setcurrent(s, wid)   == [s EXCEPT !.current = wid]
CPP_definitions(s)       == [s EXCEPT !.current = Head(s.order)]
CPP_wordlist(s) ==
  [s EXCEPT !.lists = Append(@, <<>>), !.dict = Append(@, Len(s.lists) + 1)]

-----------------------------------------------------------------------------
(* Making and removing words *)

LastWord(s) == Last(s.lists[s.current])

NewEntry(s, e) == [s EXCEPT !.words = Append(@, e), !.new = Len(s.words) + 1]
Listing(s, id) ==
  [s EXCEPT !.lists[s.current] = Append(@, id), !.words[id].home = s.current, !.newest = id]

CPP_create(s, e) == Listing(NewEntry(s, e), Len(s.words) + 1)

(* VARIABLE stands for CONSTANT and the double and floating-point forms of  *)
(* both: CREATE, and data of the word's own.                               *)
CPP_variable(s, name) == CPP_create(s, Entry(name))

(* The new word replaces the first wordlist of the order by the new one. *)
CPP_vocabulary(s, name) ==
  CPP_create(CPP_wordlist(s),
    [Entry(name) EXCEPT !.nondeferred = TRUE,
                        !.code = <<WithWids("vocabulary", <<Len(s.lists) + 1>>)>>])

CPP_alias(s, id, name) ==
  CPP_create(s, [s.words[id] EXCEPT !.name = name, !.refs = @ \cup {id}])

Free(s, ids) ==
  [s EXCEPT !.words = [id \in DOMAIN @ |-> IF id \in ids THEN Freed(@[id]) ELSE @[id]],
            !.newest = IF @ \in ids THEN NoWord ELSE @]

(* Mutant: unlinks the word alone. *)
ForgetOne(s, name) ==
  LET list == s.lists[s.current]
      id == GetFromName(s.words, list, name)
  IN IF id = NoWord THEN s
     ELSE Free([s EXCEPT !.lists[s.current] = Remove(list, id)], {id})

(* The word and every later one of its wordlist go. *)
CPP_forget(s, name) ==
  LET list == s.lists[s.current]
      id == GetFromName(s.words, list, name)
      kept == Min({i \in DOMAIN list : list[i] = id}) - 1
  IN IF id = NoWord THEN s
     ELSE Free([s EXCEPT !.lists[s.current] = SubSeq(list, 1, kept)],
               Range(SubSeq(list, kept + 1, Len(list))))

Marking(e, op) == [e EXCEPT !.immediate = @ \/ op = "IMMEDIATE",
                            !.nondeferred = @ \/ op = "NONDEFERRED"]

(* IMMEDIATE and NONDEFERRED go to the last word of the compilation        *)
(* wordlist.  They are meant for the newest word; c.id is the newest word  *)
(* when they were read, if they had to wait.                               *)
Mark(s, c) ==
  LET meant == IF c.id = NoWord THEN s.newest ELSE c.id IN
  IF s.lists[s.current] = <<>> THEN [s EXCEPT !.missed = TRUE]
  ELSE [s EXCEPT !.missed = @ \/ meant # LastWord(s),
                 !.words[LastWord(s)] = Marking(@, c.op)]

(* The last word gets the code after DOES> of the word c.id, by pointer. *)
CPP_does(s, c) ==
  [s EXCEPT !.words[LastWord(s)] =
     [@ EXCEPT !.code = s.words[c.id].does, !.refs = {c.id} \cup s.words[c.id].refs]]

Joining(e, id, o) == [e EXCEPT !.code = @ \o o.code, !.refs = @ \cup {id} \cup o.refs]

(* What POSTPONE left for later: the word's code joins the definition.     *)
CPP_compilename(s, id) == [s EXCEPT !.words[s.new] = Joining(@, id, s.words[id])]

(* CloseForth() empties the wordlists of Dictionary.  OpenForth() fills    *)
(* the search order, which nothing emptied.                                *)
CPP_cold(s) ==
  LET gone == Range(s.dict) IN
  [Free([s EXCEPT !.lists = [w \in DOMAIN @ |-> IF w \in gone THEN <<>> ELSE @[w]]],
        UNION {Range(s.lists[w]) : w \in gone})
   EXCEPT !.dict = <<Root, Forth, Assembler>>, !.order = @ \o <<Forth, Root>>,
          !.current = Forth, !.new = NoWord]

(* name is the next name in the source, for the commands that parse one. *)
Execute(s, c, name) ==
  CASE c.op = "ALSO"        -> CPP_also(s)
    [] c.op = "ONLY"        -> CPP_only(s)
    [] c.op = "PREVIOUS"    -> CPP_previous(s)
    [] c.op = "FORTH"       -> CPP_forth(s)
    [] c.op = "ASSEMBLER"   -> CPP_assembler(s)
    [] c.op = "DEFINITIONS" -> CPP_definitions(s)
    [] c.op = "SET-ORDER"   -> CPP_setorder(s, c.wids)
    [] c.op = "SET-CURRENT" -> CPP_setcurrent(s, Head(c.wids))
    [] c.op = "vocabulary"  -> Front1(s, Head(c.wids))
    [] c.op = "WORDLIST"    -> CPP_wordlist(s)
    [] c.op = ":"           -> NewEntry(s, Entry(name))
    [] c.op = "VARIABLE"    -> CPP_variable(s, name)
    [] c.op = "VOCABULARY"  -> CPP_vocabulary(s, name)
    [] c.op = "ALIAS"       -> CPP_alias(s, c.id, name)
    [] c.op = "FORGET"      -> CPP_forget(s, name)
    [] c.op = "COLD"        -> CPP_cold(s)
    [] c.op = "DOES>"       -> CPP_does(s, c)
    [] c.op = "compile-name" -> CPP_compilename(s, c.id)
    [] c.op \in Marks       -> Mark(s, c)

ExecuteAll(s, code, name) ==
  LET after[i \in 0 .. Len(code)] == IF i = 0 THEN s ELSE Execute(after[i - 1], code[i], name)
  IN after[Len(code)]

-----------------------------------------------------------------------------
(* Interpretation: State is FALSE *)

Interpreting == State # "compile"

(* Mutant: the word that was read runs ahead of the line. *)
OvertakeLine(code, name) ==
  Becomes(ExecuteAll(Here, code \o line, name)) /\ line' = <<>>

(* EXECUTE_UP_TO: the line so far and the word that was read. *)
ExecuteUpTo(code, name) ==
  Becomes(ExecuteAll(Here, line \o code, name)) /\ line' = <<>>

(* A NONDEFERRED intrinsic is read.  Those that change what the dictionary *)
(* holds are for the interpreter, not for brackets.                        *)
Interpret(c, name) ==
  /\ Interpreting /\ c.op \in Commands /\ Visible(c.op)
  /\ ExecuteUpTo(<<c>>, name)

Type(c, name) == Interpret(c, name) /\ UNCHANGED State

TypeOutside(c, name) ==
  /\ Keeps("brackets keep the dictionary") => State = "interpret"
  /\ Type(c, name)

Move     == \E op \in Moving : Type(Command(op), "")
SetOrder ==
  \E wids \in {<<w, Root>> : w \in DOMAIN wordlists} \cup
              (IF Keeps("orders end in Root") THEN {} ELSE {<<Root, w>> : w \in DOMAIN wordlists}) :
    Type(WithWids("SET-ORDER", wids), "")
SetCurrent == \E w \in DOMAIN wordlists : Type(WithWids("SET-CURRENT", <<w>>), "")
MakeWordlist == Type(Command("WORDLIST"), "")

Define == \E op \in {"VARIABLE", "VOCABULARY"}, name \in Names : TypeOutside(Command(op), name)

(* ' finds the word; ALIAS finds its code again. *)
Alias ==
  \E old, name \in Names :
    /\ LocateWord(old) # NoWord /\ Runnable(LocateWord(old))
    /\ TypeOutside([Command("ALIAS") EXCEPT !.id = LocateWord(old)], name)

Forget == \E name \in Names : TypeOutside(Command("FORGET"), name)
Cold   == State = "interpret" /\ TypeOutside(Command("COLD"), "")

StartsWithMark(code) == code # <<>> /\ Head(code).op \in Marks

(* A mark that nothing in its own code precedes is read after its word.    *)
(* With no word in the wordlist it would mark an intrinsic, or nothing.    *)
MayRead(code) ==
  StartsWithMark(code) =>
    /\ newest # NoWord /\ wordlists[pCompilationWL] # <<>>
    /\ Keeps("marks follow their word") => newest = Last(wordlists[pCompilationWL])

(* Code joins the line; a mark in it is meant for the newest word of now. *)
Defer(code) ==
  /\ MayRead(code)
  /\ Len(line) + Len(code) <= MaxLine
  /\ line' = line \o [i \in DOMAIN code |->
       IF code[i].op \in Marks THEN [code[i] EXCEPT !.id = newest] ELSE code[i]]
  /\ UNCHANGED <<words, wordlists, Dictionary, SearchOrder, pCompilationWL, pNewWord,
                 State, newest, missed>>

TypeMark == \E op \in Marks \cap Commands : Interpreting /\ Visible(op) /\ Defer(<<Command(op)>>)

ChangesWords(code) == \E i \in DOMAIN code : code[i].op \in {"VARIABLE", "DOES>"}

AfterDoes(e) == e.code # <<>> /\ Last(e.code).op = "DOES>"

(* Code that compiles needs a definition, and compiles before its DOES>.   *)
MayRun(id) ==
  /\ Runnable(id) /\ MayRead(words[id].code)
  /\ (\E i \in DOMAIN words[id].code : words[id].code[i].op = "compile-name")
       => State = "compile" /\ ~AfterDoes(words[pNewWord])
  /\ Keeps("brackets keep the dictionary") /\ ChangesWords(words[id].code)
       => State = "interpret"

(* EXECUTE_CURRENT_ONLY: the line waits. *)
ExecuteCurrentOnly(code, name) ==
  Becomes(ExecuteAll(Here, code, name)) /\ UNCHANGED <<line, State>>

(* A word of the program is read; ExecutionMethod() says when it runs. *)
InterpretWord ==
  \E name, next \in Names :
    LET id == LocateWord(name)
        e  == words[id]
    IN /\ Interpreting /\ id # NoWord /\ MayRun(id)
       /\ \/ e.nondeferred /\ ExecuteUpTo(e.code, next) /\ UNCHANGED State
          \/ e.immediate /\ ~e.nondeferred /\ ExecuteCurrentOnly(e.code, next)
          \/ ~e.immediate /\ ~e.nondeferred /\ Defer(e.code)

EndOfLine ==
  /\ State = "interpret" /\ line # <<>>
  /\ ExecuteUpTo(<<>>, "") /\ UNCHANGED State

(* An unknown word, or any error: main() drops the line, and a definition  *)
(* in progress is lost.                                                    *)
Fail ==
  /\ State # "interpret" \/ line # <<>>
  /\ State' = "interpret" /\ line' = <<>>
  /\ UNCHANGED <<words, wordlists, Dictionary, SearchOrder, pCompilationWL, pNewWord,
                 newest, missed>>

-----------------------------------------------------------------------------
(* Compilation: State is TRUE *)

Colon ==
  \E name \in Names :
    /\ Keeps("brackets keep the dictionary") => State = "interpret"
    /\ Interpret(Command(":"), name) /\ State' = "compile"

(* A mark is compiled first, or after what makes the word it is for. *)
MayCompile(code) ==
  Keeps("marks follow their word") /\ StartsWithMark(code) =>
    LET mine == words[pNewWord].code
    IN mine # <<>> => Last(mine).op \in {"VARIABLE"} \cup Marks

(* Mutant: the new word stays deferred. *)
CompileDeferred(code, refs, nondeferred) ==
  /\ MayCompile(code) /\ Len(words[pNewWord].code) + Len(code) <= MaxCode
  /\ words' = [words EXCEPT ![pNewWord] =
       [@ EXCEPT !.refs = @ \cup refs, !.code = @ \o code]]
  /\ UNCHANGED <<wordlists, Dictionary, SearchOrder, pCompilationWL, pNewWord,
                 State, line, newest, missed>>

(* Code joins the word, or what DOES> gives; a NONDEFERRED precedence joins. *)
Compiled(e, code, refs, nondeferred) ==
  [e EXCEPT !.refs = @ \cup refs, !.nondeferred = @ \/ nondeferred,
            !.does = IF AfterDoes(e) THEN @ \o code ELSE @,
            !.code = IF AfterDoes(e) THEN @ ELSE @ \o code]

Compile(code, refs, nondeferred) ==
  LET e == words[pNewWord] IN
  /\ MayCompile(code)
  /\ Keeps("DOES> code is deferrable") => ~(AfterDoes(e) /\ nondeferred)
  /\ Len(IF AfterDoes(e) THEN e.does ELSE e.code) + Len(code) <= MaxCode
  /\ words' = [words EXCEPT ![pNewWord] = Compiled(@, code, refs, nondeferred)]
  /\ UNCHANGED <<wordlists, Dictionary, SearchOrder, pCompilationWL, pNewWord,
                 State, line, newest, missed>>

Compiling == State = "compile"

CompileCommand ==
  \E op \in Commands \cap (Moving \cup Marks \cup {"VARIABLE"}) :
    /\ Compiling /\ Visible(op)
    /\ Keeps("PREVIOUS and vocabularies are typed") => op \notin {"PREVIOUS", "ASSEMBLER"}
    /\ Compile(<<Command(op)>>, {}, op \in Nondeferred)

(* DOES> is compiled after the word that makes the word it is for. *)
CompileDoes ==
  LET code == words[pNewWord].code IN
  /\ Compiling /\ "DOES>" \in Commands /\ Visible("DOES>")
  /\ code # <<>> /\ Last(code).op = "VARIABLE"
  /\ Compile(<<[Command("DOES>") EXCEPT !.id = pNewWord]>>, {}, FALSE)

(* A word of the program is compiled, or runs if it is IMMEDIATE.  A       *)
(* defining word with DOES> is not compiled into another (a bound).        *)
CompileWord ==
  \E name, next \in Names :
    LET id == LocateWord(name)
        e  == words[id]
    IN /\ Compiling /\ id # NoWord /\ Runnable(id)
       /\ \/ /\ ~e.immediate /\ ~AfterDoes(e)
             /\ Keeps("PREVIOUS and vocabularies are typed") =>
                  \A i \in DOMAIN e.code : e.code[i].op # "vocabulary"
             /\ Compile(e.code, {id} \cup e.refs, e.nondeferred)
          \/ e.immediate /\ MayRun(id) /\ ExecuteCurrentOnly(e.code, next)

(* POSTPONE compiles a word that is IMMEDIATE, and the compilation of one  *)
(* that is not.  A word that begins with a mark is not postponed (a bound). *)
Postpone ==
  \E name \in Names :
    LET id == LocateWord(name)
        e  == words[id]
    IN /\ Compiling /\ "POSTPONE" \in Commands /\ Visible("POSTPONE")
       /\ id # NoWord /\ Runnable(id) /\ ~AfterDoes(e) /\ ~StartsWithMark(e.code)
       /\ Keeps("what is postponed is deferrable") => ~e.nondeferred
       /\ Compile(IF e.immediate THEN e.code ELSE <<[Command("compile-name") EXCEPT !.id = id]>>,
                  {id} \cup e.refs, e.nondeferred)

(* Mutant: State is left TRUE. *)
SemicolonStaysOn ==
  /\ Compiling /\ Becomes(Listing(Here, pNewWord)) /\ UNCHANGED <<State, line>>

Semicolon ==
  /\ Compiling /\ Becomes(Listing(Here, pNewWord))
  /\ State' = "interpret" /\ UNCHANGED line

LeftBracket ==
  /\ Compiling /\ State' = "brackets"
  /\ UNCHANGED <<words, wordlists, Dictionary, SearchOrder, pCompilationWL, pNewWord,
                 line, newest, missed>>

(* ] runs what waits of the code in brackets. *)
RightBracket ==
  /\ State = "brackets" /\ State' = "compile"
  /\ ExecuteUpTo(<<>>, "")

-----------------------------------------------------------------------------
Init ==
  /\ words = <<>> /\ wordlists = <<<<>>, <<>>, <<>>>>
  /\ Dictionary = <<Root, Forth, Assembler>>
  /\ SearchOrder = <<Forth, Root>> /\ pCompilationWL = Forth
  /\ pNewWord = NoWord /\ State = "interpret" /\ line = <<>>
  /\ newest = NoWord /\ missed = FALSE

Next ==
  \/ Move \/ SetOrder \/ SetCurrent \/ MakeWordlist
  \/ Define \/ Alias \/ Forget \/ Cold
  \/ TypeMark \/ InterpretWord \/ EndOfLine \/ Fail
  \/ Colon \/ CompileCommand \/ CompileDoes \/ CompileWord \/ Postpone
  \/ Semicolon \/ LeftBracket \/ RightBracket

Spec == Init /\ [][Next]_vars

-----------------------------------------------------------------------------
(* Properties *)

(* The program can always get back to the Forth wordlist: Root, which      *)
(* holds FORTH and SET-ORDER, stays the last wordlist of the order,        *)
(* whatever is typed, and whatever runs from a definition.                 *)
RootStays == SearchOrder # <<>> /\ Last(SearchOrder) = Root

(* FORGET leaves no word that points to freed code of its own wordlist:    *)
(* what a word was compiled from there comes before it in the list.        *)
OwnListRefsLive ==
  \A w \in DOMAIN wordlists : \A i \in DOMAIN wordlists[w] :
    \A r \in words[wordlists[w][i]].refs :
      words[r].home = w => \E j \in 1 .. i - 1 : wordlists[w][j] = r

(* Deferred execution never shows: a name is located in the wordlists and  *)
(* the order that all the text before it leaves, because no command that   *)
(* changes them waits in the line.                                         *)
LineChangesNothing == \A i \in DOMAIN line : line[i].op \notin Nondeferred

(* IMMEDIATE and NONDEFERRED, although they wait, mark the word they were  *)
(* read for.                                                               *)
MarksHit == ~missed

(* No word is in two places of the wordlists, or twice in one: FORGET and  *)
(* COLD free each once, and no wordlist keeps a word that was freed.       *)
OnePlace ==
  /\ \A id \in Listed : ~words[id].freed
  /\ \A w, v \in DOMAIN wordlists :
       \A i \in DOMAIN wordlists[w], j \in DOMAIN wordlists[v] :
         wordlists[w][i] = wordlists[v][j] => w = v /\ i = j

===============================================================================
