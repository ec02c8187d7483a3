# kForth-32 in TLA+

kForth-32 is an indirect threaded Forth system for 32-bit x86: a virtual
machine in assembly language, a compiler and a dictionary in C++, and a C
library of words that call the operating system. These modules model its core,
TLC checks them on small instances, and TLAPS proves most of the properties
that TLC checks for every value of the constants. Line numbers below are those
of `src/src/`.

1. [The system](#1-the-system)
2. [The modules](#2-the-modules)
3. [Virtual machine](#3-virtual-machine)
4. [Compiler](#4-compiler)
5. [Input](#5-input)
6. [Dictionary](#6-dictionary)
7. [Arithmetic and numbers](#7-arithmetic-and-numbers)
8. [Strings](#8-strings)
9. [Devices](#9-devices)
10. [Output](#10-output)
11. [Runs](#11-runs)
12. [Proofs](#12-proofs)
13. [What the models found](#13-what-the-models-found)
14. [What is not modelled](#14-what-is-not-modelled)
15. [Plan](#15-plan)

## 1. The system

One process, one thread, and asynchronous Unix signals. All state is global:
C++ code, C code and opcodes share it, and call each other recursively.

| Component | State | Operations | What must be right |
|---|---|---|---|
| Virtual machine: `vm32.s`, `vm32-common.s`, `ForthVM()` in `ForthVM.cpp` | four stack pointers `GlobalSp` `GlobalTp` `GlobalRp` `GlobalRtp`, the return stack and its tags, `GlobalIp`, `vmEntryRp` | one opcode after the other; `vm()`, called by `ForthVM()`, by `]`, by `TRAVERSE-WORDLIST` and by the signal handler | type stacks in step with their stacks; a nested `vm()` leaves its caller's returns alone; errors reach the prompt, with clean stacks |
| Compiler: `ForthCompiler.cpp`, control words and literals of `ForthVM.cpp` | `State`, `pCurrentOps`, `pPreviousOps`, `tempOps`, nine control stacks | compile a word or number, run it, or run the line; control structures; `:` `;` `[` `]` `COMPILE,`; literals, strings, `POSTPONE`; `EVALUATE`, `INCLUDE` | jumps land; the source's code and no other gets into the dictionary; leftovers of an error do no harm |
| Input streams and outer interpreter: `ForthCompiler.cpp`, `kforth.cpp`, `ForthVM.cpp`, `ExtractName()` in `vmc.c` | `TIB`, `pTIB`, `pInStream`, `linecount` | take a line, take a word; `EVALUATE`, `INCLUDED`, `INCLUDE`; comments, `PARSE`, `CREATE`, `REFILL` | each text is read to its end and in order, whatever it opens; an error is reported at its line; the prompt comes back |
| Dictionary: `ForthVM.cpp` | wordlists, `Dictionary`, `SearchOrder`, `pCompilationWL`, `pNewWord`, each word's precedence | search order words, defining words, `ALIAS`, `POSTPONE`, `FORGET`, `COLD`, `IMMEDIATE`, `NONDEFERRED`, `DOES>` | a name means what the text before it says; no pointer to freed words; Root stays reachable |
| Arithmetic: `vm32.s` | the data stack | double, triple and mixed products and divisions, `*/`, `M*/`, `+LOOP` | exact results, errors when they do not fit |
| Number conversion: `vmc.c`, `ForthVM.cpp` | `Base`, `NumberBuf`, `NumberCount` | `<#` `#` `#S` `HOLD` `SIGN` `#>`, `>NUMBER`, `NUMBER?`, `IsInt()`, `.` and its kin | digits and number are the same value, and what is printed is what is read |
| Strings: `vmc.c` | `WordBuf`, `pTIB` | `SEARCH` `COMPARE` `-TRAILING`, `WORD` `PARSE` `CHAR`, `>FLOAT` | what the standard says of them, at both ends of the string |
| Terminal and keyboard: `vmc.c`, `kforth.cpp` | the terminal's settings, `tios0`, `key_query_char` | `KEY` `KEY?` `ACCEPT`, the prompt, `BYE`, `COLD` | the terminal is given back as it was; no key is lost or doubled |
| Signals: `vmc.c` | `signal_xtmap`, the system's dispositions | `FORTH-SIGNAL`, `RAISE`, timers, the handler | the interrupted word goes on as if nothing had come; the table agrees with the system |
| Output: `ForthVM.cpp` | `pOutStream`, `FileOutput` | words that print, `>FILE`, `CONSOLE` | everything printed arrives, in order, where it was sent |
| Files, memory, floating point | little or none | calls of the C library | see section 14 |

How they interact. `main()` gives `ForthCompiler()` a line as a stream. It
reads the line into `TIB`, takes each word from there, locates it through the
search order, compiles its opcode, and, by the word's precedence, runs all the
code so far (NONDEFERRED), that word alone (IMMEDIATE), or nothing before the
line ends. To run code it calls `ForthVM()`, which calls `vm()`; an opcode of
`vm()` may be a C++ word that reads on in `TIB`, or that calls
`ForthCompiler()` again (`EVALUATE`, `INCLUDED`) on the same line buffer,
control stacks, opcode vectors and return stack. Errors are return codes: an
opcode that leaves a nonzero one ends `vm()`, `ForthVM()` resets the return
stacks, and `ForthCompiler()` the control stacks, once per level. A signal may
come between any two instructions, and runs a Forth word on the same stacks,
terminal and tables.

What is hard here: re-entry at any depth over shared globals, errors half way
through it, signals between any two instructions, code executed later than it
is looked up, one line buffer for all texts, jump counts that are filled in
later, and arithmetic at the width of a cell. Every place where that bites is
listed under `hazards` in `PROJECT.json`, with the properties that watch it.

## 2. The modules

| Module | Lines of the source | Role |
|---|---|---|
| `VirtualMachine` | `vm32.s`, `vm32-common.s`, `ForthVM.cpp` 490-573, 813-836, 2417-2530, 2580-2620, `vmc.c` 1336-1385 | state machine |
| `VirtualMachineProofs` | | theorems about it |
| `Compiler` | `ForthCompiler.cpp` 215-405, `ForthVM.cpp` 403-488, 920-1082, 1825-1835, 1934-2551, `kforth.cpp` 118-152 | state machine |
| `CompilerProofs`, `StructuresProofs` | | theorems about it |
| `Reading` | | what the reader of a text is promised: the abstract specification of `Input` |
| `Input` | `ForthCompiler.cpp` 188-405, `ForthVM.cpp` 892-898, 1111-1167, 2417-2570, `vmc.c` 518-668, `kforth.cpp` 118-152 | state machine that implements `Reading` |
| `InputProofs` | | theorems about it |
| `Dictionary` | `ForthVM.cpp` 114-380, 583-934, 1012-1082, 1697-1875, 2343-2414, `ForthCompiler.cpp` 188-212, `ForthWords.h` | state machine |
| `DictionaryProofs` | | theorems about it |
| `Arithmetic` | `vm32.s` 225-238, 363-417, 967-1019, 1840-2383 | operators |
| `Numbers` | `vmc.c` 582-609, 693-848, 931-967, `ForthVM.cpp` 1172-1358 | state machine over `Arithmetic` |
| `NumbersProofs` | | theorems about both |
| `Strings` | `vmc.c` 544-572, 612-690, 851-928, 1149-1245, `ForthVM.cpp` 1811-1823 | state machine |
| `Devices` | `vmc.c` 363-508, 1248-1385, `kforth.cpp` 124-151, `ForthVM.cpp` 343, 583-588, 1878-1887 | state machine |
| `DevicesProofs` | | theorems about it |
| `Output` | `ForthVM.cpp` 1361-1452, 1535-1590, 1878-1931, `kforth.cpp` 144-149 | state machine |
| `OutputProofs` | | theorems about it |
| `MC*` | | what a configuration can not say: sets of words, symmetry, constraints |

The large modules cut the system at its narrowest places. For
`VirtualMachine` the program text is open: at every moment any opcode may come
next, and a nested compilation may end well or with an error. For `Compiler`
the source text is open, and code that is run succeeds, fails, or evaluates.
For `Input` what a word is gets chosen when the word is read; only those that
read on or open a text are told apart. For `Dictionary` the typed words are
open and code is the list of dictionary commands that running it performs. For
`Devices` and `Output` a program is any sequence of their own words. So each
module covers everything the others could make of it, and what one is assumed
to do for another is small: code returns with or without an error code.

Each module has usage rules: what a program must not do for the system's
promises to hold. They are explicit. In `VirtualMachine` a program that breaks
them clears the variable `honest`, and goes on, and in `Devices` and `Output`
the variable `bent` collects the rules broken; in `Compiler` and `Dictionary`
the constant `Misuses` names the rules that the run lets the source break, and
in `Input` the constant `Rules` those that it keeps. A rule is there because
the code does not defend against its breach, and each of those is a finding or
a hazard.

## 3. Virtual machine

Stack pointers are depths: 0 is the bottom, a push adds one. A data cell has no
value; a return stack cell keeps its tag and, if it is an address, the program
point. `act` is the C stack: for each `vm()` who called it and what it saved.
`mode` says who runs: an opcode (`vm`), a `vm()` about to return (`exit`), C++
code (`host`), the loop of `TRAVERSE-WORDLIST`, or nobody any more (`wild`, the
instruction pointer left the program).

| Action | Code |
|---|---|
| `DataWord` | any opcode that only moves, makes or checks data cells, a failed division included |
| `L_push_r` ... `L_unloop`, `CPP_rpstore`, `CPP_spstore` | the opcode of that name |
| `L_definition`, `L_execute`, `L_ret`, `L_jz`, `L_jmp` | calls, returns, jumps |
| `L_quit`, `L_abort` | the stacks they clear, the code they leave |
| `CPP_evaluate`, `EvaluateReturns`, `RunOps`, `CompileError`, `NextLine` | the C++ code between `vm()` and the next `vm()` |
| `ForthVM` | `ForthVM()` from the return of `vm()` on |
| `CPP_traverse_wordlist`, `TraverseCallbackReturns`, `TraverseNext` | its loop |
| `forth_signal_handler`, `SignalReturns` | the handler, before and after its `vm()` |

`link` and `honest` are history variables. `link` marks cells that hold a
pending return address or loop start; `honest` stays TRUE while the program
takes back what it put on the return stack, leaves a definition with the return
stack it found, and gives `TRAVERSE-WORDLIST` no callback that fails.

Properties:

- `PromptIsClean`, `ReturnPointersInStep`: for all programs, honest or not.
- `LinksKept`, `LeavesWhenDone`, `NoWildRun`: an honest program's returns and
  loops survive nested compilations, their errors, traversals and handlers.
- `HandlerKeepsStack`: for one handler at a time, whether it interrupts a
  program or an error that is under way. The 16 cells that the handler skips
  (`SignalOffset`, 1 in the model, since opcodes are atomic there and the
  scratch cells of `L_utmslash` are under the pointer) are counted from the
  pointer at the time of the signal; with `"nested"` in `Callbacks` a second
  signal finds the first handler's own cells within reach and TLC finds the
  property violated with three activations.
- `ErrorsReachMain`, `ErrorReachesPrompt`: no error code is forgotten on its way
  up, and the way up ends. Checked without callbacks: `TRAVERSE-WORDLIST`
  overwrites the code of a failed callback with the next one's (`ForthVM.cpp:828`).
- `DriftOnlyOnDivision`: only a failed division takes `GlobalTp` off `GlobalSp`.

## 4. Compiler

Code is a sequence of instructions with byte offsets, because jumps and control
stacks count bytes (`WSIZE` is 2 in the runs, to keep them short; nothing but
the sums depends on it). `ops` holds every opcode vector: `tempOps`, the `op` of
`main()`, and one per nested `ForthCompiler()`; `pCurrentOps` and
`pPreviousOps` are indices. `frames` is the stack of `ForthCompiler()` calls and
what each is doing. Control words map a compilation state to the next, so that
`?DO` is, as in the code, a composition of the words it calls.

A word of the source is one action: `StructureWord`, `Literal`,
`CompiledWord`, `NondeferredWord`, `UnknownWord`, `CPP_lbracket`,
`CPP_rbracket`, `CPP_semicolon`, `Macro` (an IMMEDIATE definition).
`CompiledWord` has one word for each thing that `CPP_compilename()` writes,
with its width; `Literal` has LITERAL, 2LITERAL, SLITERAL, ['], C" S" ." and
the three ways of POSTPONE, each of which may fail after it wrote a part.
['] of a name that is not found is a word of its own: `CPP_tick()` reports the
error, `CPP_brackettick()` does not look at it, and LITERAL compiles whatever
item the stack has.
Code that runs has its own
steps, `UpToDone`, `BracketDone`, `MacroDone`, `LineDone`, and `RunFails`, so
that `EVALUATE` and `INCLUDE` can come between. A nondeferred word read while
compiling, and a program's own defining word, do what the words `word` and `:`
do and are covered by them.

Properties:

- `JumpsLand`, `LoopsBalanced`: over every way to combine the control
  structures, of code that is put in the dictionary or about to run.
- `NoLeftovers`, `RightfulErrors`: errors and abandoned definitions leave
  nothing to the next; a well nested source gets no structure error.
- `OpsInStep`, `StateFollowsSource`: the three pointers and the flag, through
  brackets, errors and nested streams.
- `NothingLost`: what `;` puts in the dictionary is what the source asked for,
  word by word and literal by literal, if every ['] finds its name: without
  that rule an item of the stack gets into the code, and the property fails.
  The run `compiler_structures` has such a ['] among its words, and the other
  properties hold with it.

Usage rules (`Rules`): no structures, and no definitions, in brackets; no nested
interpretation in an open structure; no `ABORT"` before the first definition;
['] finds its name; brackets and definitions end in their stream (a definition
typed at the console may go on for many lines). A structure that is interpreted
ends on its line.

## 5. Input

`TIB` is an array of cells: a word with the blank behind it, a blank, or NUL.
A word is the place it stands at (text, line, position), so that a word that
is read twice, or from a buffer that belongs to another line, can be told.
`strcpy()` and `getline()` leave what is behind the NUL, as they do in the code.
`callers` is the C stack of nested `ForthCompiler()` calls, each with the rest
of the line that EVALUATE or INCLUDE saved. `code` and `run` are what waits and
what runs, which is how a word that opens a text comes to run later than it was
read.

`Reading` says the same with no buffer: a stack of texts, each with the rest of
its line; open, take a word, next line, skip where a word says so, close at the
end, or fail and abandon all. The mapping (`Texts`) takes the innermost rest
from `pTIB` and the others from what was saved. `ReadsInOrder` is
`Promise!Spec`: initial states map to initial states, and each step of the code
to a step of `Reading` or to none. `ErrorIsLocated` is what main() prints with
an error, and `PromptComesBack` that every line typed comes to an end, under
weak fairness of `Next`.

`linecount` is not always the line: every line of a string is counted, and
EVALUATE takes back one when the string ends (`ForthVM.cpp:2443`). After a string
of n lines the file is n - 1 lines ahead, and main() reports an error on a later
line of it as on the wrong one. `stream.extra` is a history variable with these
lines, and `ErrorIsLocated` states what holds: the line that main() prints is the
line the error was found in plus `extra`, so the right one where no string had
several lines. Strings of two lines are in the run.

Rules: INCLUDED is the last word of its line, since it saves nothing of it
(INCLUDE does); a word that takes a name has one, or nothing, after it (see
`input_names`). The runs leave out REFILL in a word that waits for the end of
its line, and lines of 255 characters or more: with either `ReadsInOrder`
fails, for the reasons under `hazards`.

## 6. Dictionary

A word is an index into `words`; a freed entry stays there, marked, so that a
pointer to it can be told. Wordlists are sequences in definition order, and the
last entry of a name is found. The intrinsic words are not entries: they are
found while Root or Forth is in the order, which is what can be lost.

The system's peculiarity is deferred execution. A name is located when it is
read; its code runs when a NONDEFERRED word is read or the line ends. `line`
holds the commands that wait. `Type` models reading a NONDEFERRED command (all
of `line`, then the command), `Defer` the others, `ExecutionMethod()` of
`ForthCompiler.cpp` the choice, and its inheritance by the words it is compiled
into.

POSTPONE of an ordinary word leaves the command `compile-name` in a definition,
which, made IMMEDIATE, adds the word's code to the next one.

Properties: `RootStays`, `OwnListRefsLive` and `OnePlace` (FORGET, COLD, several
wordlists), `LineChangesNothing` (deferral never shows), `MarksHit` (IMMEDIATE,
itself deferred, marks the word it was read for).

Usage rules: orders given to SET-ORDER end in Root; no definitions in Root;
brackets keep the dictionary as it is; SET-CURRENT and the like do not come
between a word and its mark; PREVIOUS, ASSEMBLER and vocabularies are typed, not compiled; DOES>
code changes no search order, because the children it makes are deferred
(`ForthVM.cpp:2387` sets no precedence), and what a macro POSTPONEs changes
none either, because `CPP_compilename()` called by it does not pass on the
precedence (`ForthVM.cpp:1074`). COLD adds Forth and Root to an order it did not clear
(`ForthVM.cpp:323`), which is modelled as it is.

Approximations: the code of a word is flattened into its commands and its
`refs` are transitive; a word with DOES> is not compiled into another; COLD,
FORGET, ALIAS and the defining words other than `:` are typed outside
brackets; CREATE always comes with its ALLOT (VARIABLE).

## 7. Arithmetic and numbers

`Arithmetic` gives each word as a function from the stack it finds to the stack
and error code it leaves, at `W` bits. Where the width matters it follows the
instructions: `UDMTriple` and `LongDivide` add cell by cell with the code's
carries, `UMSlashMod` tests the high quotient, `idivl` traps. Negation with its
carries is written as negation modulo the width.

`Numbers` applies one word to every stack of four cells, or writes a double
digit by digit, with HOLD and SIGN between, or prints: `UDot0` is `CPP_udot0()`,
which divides by powers of the base, `SharpS` is C_sharps(), which `UDDotText`
uses for doubles. What was printed, or that with one digit more, is then read
by IsInt() or by NUMBER?, which goes through >NUMBER.

The properties say what each word computes over the integers, errors included:
when exactly each one fails, that remainders go with quotients, that the least
quotient's floor wraps (`DivisionsExact`, `ProductsExact`), that `+LOOP` ends on
the step over the boundary between limit - 1 and limit on the circle of cells
(`LoopEndsAtLimit`), that digits keep the value in both directions
(`ConversionExact`), and that the printing words and the reading words, which
share no code, agree (`PrintedIsRead`).

## 8. Strings

Strings are sequences of a few characters. `C_search` follows memchr() and what
the code tests before and after it; `C_tofloat` puts a token in the form that
IsFloat() reads and gives it to atof(), which is external and modelled by the
numbers it takes. `StringWordsExact` compares with what the words promise;
SEARCH may also find a match that begins in the string and ends in the memory
behind it, and the property says just that. `FieldsSplit` says that one PARSE
or WORD after the other takes a line apart without loss. `FloatsRead`: every
token of the form that Forth-94 gives for >FLOAT is taken, with its own
significand and exponent.

## 9. Devices

`tty` is the terminal's settings, as far as the code touches them, and `tios0`
what OpenForth() kept. KEY, KEY? and ACCEPT are one step per call of the
terminal driver: `Saves`, `SetsRaw`, the read, `Restores`. `frames` holds the
program and the handlers that interrupted one another: a handler may run any of
these words itself, RAISE, FORTH-SIGNAL, BYE or COLD. A signal that is not
blocked is delivered before anything else runs (`Free`); a signal's own handler
blocks it. The process can also be ended by a signal nobody handles (phase
`killed`), which is the one end that does not restore the terminal.

`TerminalRestored`: at BYE, at the end of the input and at every prompt, through
all interruptions. `KeysInOrder`: keys are handed out once and in order, if no
handler reads while the program does, and no NUL is typed at KEY?, and KEY comes
next after a KEY? that found something: `key_query_char` is not looked at by
ACCEPT and by the prompt. `AcceptedIsEdited`: ACCEPT with rub-outs, at both ends
of its buffer. `TableMatchesSignals`: the system and `signal_xtmap` agree but
while FORTH-SIGNAL is between the two. `KeyQueryReturns`: KEY? does not wait,
under weak fairness of the program and of the delivery of signals, and none of
the user.

## 10. Output

`pOutStream` is where output goes, with what its stream still keeps and where it
stands in its file. `OutputKept`: each place has what was sent to it, and the
open file's stream has the rest, as long as the program does not >FILE the open
file again while something is kept, and goes back to the CONSOLE before BYE.

## 11. Runs

Deadlock is not checked: a wild run, a signal and BYE end the process, `Numbers`
ends with its word, and a bounded source ends. `PROJECT.json` says for every
property which change of the code breaks it.

| Run | Bounds | Shows |
|---|---|---|
| `vm_evaluate` | two `vm()` at once, return stack 3, data stack 1, one cell under each bottom; no callbacks | 287 000 states. Any program: `TypeOK` `PromptIsClean` `ReturnPointersInStep` `ErrorsReachMain` `DriftOnlyOnDivision` and, under fairness, `ErrorReachesPrompt` |
| `vm_callbacks` | two `vm()`, return stack 4, data stack 2, a handler or a traversal at any moment; programs followed while they keep the rules | 3 million states. `LinksKept` `LeavesWhenDone` `NoWildRun` `HandlerKeepsStack` |
| `vm_umslashmod` | one `vm()` | violation of `DataPointersInStep` |
| `compiler_structures` | definitions of up to 6 words out of all structure words, one stream; with a ['] that finds no name, up to 4 words | 273 000 states. `JumpsLand` `RightfulErrors` `NoLeftovers` `LoopsBalanced` |
| `compiler_streams` | definitions of up to 4 words, three nested `ForthCompiler()`, literals, brackets, macros, EVALUATE, INCLUDE | 333 000 states. `TypeOK` `OpsInStep` `StateFollowsSource` `NothingLost` |
| `dictionary` | three words, four wordlists, order of 4, two commands in a word, all commands | 276 000 states. `RootStays` `OwnListRefsLive` `LineChangesNothing` `MarksHit` `OnePlace` |
| `input` | texts three deep, files and strings of two lines, lines of two words, a blank at the end of some, one word deferred | 1.3 million states. `ReadsInOrder` `ErrorIsLocated` `PromptComesBack` |
| `input_names` | lines of four words, CREATE | violation of `StaysInLine` |
| `numbers` | cells of 4 bits, every operand; bases 3 and 10 | 2.5 million states. `DivisionsExact` `ProductsExact` `LoopEndsAtLimit` `ConversionExact` `PrintedIsRead` |
| `strings` | memory and lines of 6 characters, needles of 2, tokens of 5 | 397 000 states. `StringWordsExact` `FieldsSplit` `FloatsRead` |
| `devices` | one signal, sent twice, two keys, two words on a line, ACCEPT with room for one | 541 000 states. `TerminalRestored` `KeysInOrder` `AcceptedIsEdited` `TableMatchesSignals` `KeyQueryReturns` |
| `output` | the console and two files, five items, four times >FILE | 27 000 states. `OutputKept` |

Why the bounds are enough. Two levels of `vm()` are the least at which a level
has a caller, and the code of a level looks at nothing but its own saved
values and the shared depth; the proofs of section 12 cover all depths. Four
return stack cells hold a return address, a loop's three cells and nothing
else, or a return and a user's cell in each of two levels. Six words are two
structures, one in the other, each with its opener, middle and end, or a loop
with IF LEAVE THEN in it. Three nested compilers or texts give a stream that has
both a caller and a callee; two lines of two words have a word before, on and
after the place where a text is opened, and a string of two lines is one whose
lines EVALUATE does not count right. The console gives one line at a time
(`ConsoleLines`): between two lines main() starts over. Three words and four wordlists are a
word, one that refers to it, a third beside them, and a wordlist besides the
three that always exist. Four bits hold every combination of sign, carry and
overflow that the instructions can meet, and base 10 has digits whose product
needs both cells. A needle of two characters has a first one that memchr()
finds and a second that can differ or lie behind the string. Two keys and two
words on a line are KEY? followed by KEY, and one word interrupted by another;
the one signal may come twice, during its own handler too. Five items and four
files opened go from a file to the console, to the other file and back.

Symmetry: `Names` in the dictionary run, which no command tells apart.
Constraints: `Honest` (after a program has broken the rules no property of that
run says anything), `MostlyNested` and `LiteralsAlone` (interpreted lines,
definitions whose structures cross, and definitions with literals are kept
short), and `Small` (the dictionary's bounds are not all reached at once).

Fairness: `FairSpec` of `VirtualMachine` and `Spec` of `Input` assume
`WF_vars(Next)` only. The system is one thread, so a step that is possible is
taken; nothing is assumed about which one. In `Devices` the thread is fair, and
so is the kernel with signals already sent; typing and sending are not.

## 12. Proofs

TLAPS checks the theorems below for every value of the constants: any bound,
any depth of nesting, any set of names, words and wordlists, cells of any
width. Their assumptions are the named `ASSUME`s of the modules they are about
(bounds are naturals, sentinels are none of the things they stand beside, and
true facts about powers of which the provers know nothing), which TLC evaluates
in every run, and, where the table says so, usage rules of the program.

| Module | Theorem | States, for `Spec` |
|---|---|---|
| `VirtualMachineProofs` | `TypeCorrect` | `TypeOK`, and that whoever returns has a caller on the C stack |
| | `InStepCorrect` | `ReturnPointersInStep` |
| | `PromptCorrect` | `PromptIsClean` |
| | `ErrorsReachMainCorrect` | `ErrorsReachMain`, without callbacks |
| | `DriftCorrect` | `DriftOnlyOnDivision`, without callbacks |
| | `LinksKeptCorrect` | `LinksKept`, one handler at a time |
| | `LeavesWhenDoneCorrect` | `LeavesWhenDone`, one handler at a time |
| | `NoWildRunCorrect` | `NoWildRun`, one handler at a time |
| | `HandlerKeepsStackCorrect` | `HandlerKeepsStack`, one handler at a time |
| `CompilerProofs` | `TypeCorrect` | `TypeOK`, whatever rules the source breaks |
| | `OpsInStepCorrect` | `OpsInStep`, stream rules kept |
| | `StateFollowsSourceCorrect` | `StateFollowsSource`, stream rules kept |
| | `NothingLostCorrect` | `NothingLost`, stream rules kept, and ['] finds its names |
| `StructuresProofs` | `RightfulErrorsCorrect` | `RightfulErrors`, stream and structure rules kept |
| | `NoLeftoversCorrect` | `NoLeftovers`, stream and structure rules kept |
| `InputProofs` | `TypeCorrect` | `TypeOK` of that module |
| | `StaysInLineCorrect` | `StaysInLine`, rules kept |
| | `ReadsInOrderCorrect` | `ReadsInOrder`, rules kept |
| | `ErrorIsLocatedCorrect` | `ErrorIsLocated`, rules kept |
| `DictionaryProofs` | `DictionaryCorrect` | the inductive invariant `DictInv` |
| | `RootStaysCorrect` | `RootStays`, rules kept |
| | `OwnListRefsLiveCorrect` | `OwnListRefsLive`, rules kept |
| | `LineChangesNothingCorrect` | `LineChangesNothing`, rules kept |
| | `OnePlaceCorrect` | `OnePlace`, rules kept |
| | `MarksHitCorrect` | `MarksHit`, every rule kept |
| `NumbersProofs` | `DivisionsExactCorrect` | `DivisionsExact` |
| | `ProductsExactCorrect` | `ProductsExact` |
| | `LoopEndsAtLimitCorrect` | `LoopEndsAtLimit` |
| | `ConversionExactCorrect` | `ConversionExact` |
| | `PrintedIsReadCorrect` | `PrintedIsRead` |
| `DevicesProofs` | `TypeCorrect` | `TypeOK` of that module |
| | `TerminalRestoredCorrect` | `TerminalRestored` |
| | `TableMatchesSignalsCorrect` | `TableMatchesSignals` |
| | `KeysInOrderCorrect` | `KeysInOrder` |
| | `AcceptedIsEditedCorrect` | `AcceptedIsEdited` |
| `OutputProofs` | `StandsAtEndCorrect` | a stream writes behind what its file has |
| | `OutputKeptCorrect` | `OutputKept` |

### Virtual machine

Typing needs `CallersInv`, since `Top` of an empty C stack is
nothing: a running `vm()` and a traversal have a caller, also under a handler
that interrupted them. Each step is typed by who takes it: an opcode, C++ code,
a return, a signal.

`ReturnPointersInStep` is not inductive: an activation brings back saved
pointers. `InStepInv` adds that the two depths a handler saved are equal.

`PromptIsClean` needs more. A `vm()` that ends well has a return stack not
deeper than its `vmEntryRp` (`LeavesAtEntry`), and the first activation of the
C stack was entered with an empty return stack and a bottom `vmEntryRp`
(`BottomInv`), which it restores; an error resets the stacks in `ForthVM()`.
`BottomInv` follows the saved `vmEntryRp` of the two lowest levels, which is
all that an exit to `main()` can see, and includes handlers, which may find the
machine between two lines with nothing on the C stack.

`ErrorsReachMain` needs that `ecode` is `"ok"` whenever an opcode runs
(`RunsOkInv`), so that an opcode has no error to forget. With handlers a step
may set aside the code of what it interrupts and bring it back, and with
`TRAVERSE-WORDLIST` the property is false, hence the condition on `Callbacks`.
`DriftOnlyOnDivision` has the same condition: a handler's return brings back
the pointers of the program it interrupted, in step or not.

The return stack's four properties come from one invariant, `KeepInv`: while
the program is honest, each activation owns what is on the return stack between
its own base and the base of the next, the links it counts on are there and in
the order of its frames (`Own`, `Chain`, `Floors`, `Tied`), and what a handler
saved of the cells below it is still there (`Snapshots`). Only the top activation
writes, and above its base, but for a handler, which starts `SignalOffset`
cells higher and gives them back. Two handlers at once break `Snapshots`
(section 3), hence the condition `"nested" \notin Callbacks`.

### Compiler

`TypeOK` is proved on the way from the invariant that a running word has
a caller (`CallersInv`), and lemma by lemma each word is shown to write exactly
the opcodes that its `Meaning` lists, to lose none before them, and to
change jump counts only (`ControlWrites`, `LiteralWrites`, `CompiledWrites`).

`StreamInv` says, for a source that keeps the stream rules (`KeepsStreams`: no
definitions in brackets; brackets and definitions end in their stream), which
vector is whose: every frame's `pOpCodes` but the top's is the next frame's
`pOldOps`, `[` put aside the vector of the definition, and `STATE` is what the
phase of the source says, also on the way out of an error. `CodeInv` adds that
the vector of the open definition reads `Asks(written)`, the opcodes of the words
written so far, and `NothingLost` is that at the moment of `;`. It needs that
every ['] finds its name (`FindsNames`); the other theorems do not.

`StructInv` says what the control stacks hold. `Fit` relates them to the size of
the definition's code and to `nest`, the structures open in the source: as many
entries as open structures of each kind, with a mark for every CASE and an IF
for every ?DO (`Shape`); starts of loops that lie in the code, later ones later,
those of ?DO among them, and every LEAVE behind the first (`Loops`); each WHILE
behind its BEGIN (`Whiles`), which is what CPP_repeat() compares. `ControlFits`
and `CompiledFits` show of every word that it keeps `Fit` for `Nested(t, nest)`, and
fails only if that is `Crossed`. A crossed source keeps `Loops` only, which LOOP
needs to take the right LEAVEs off. The rest of the invariant is where no
structure may be open: at the end of a stream, in the streams that brackets
nest, and where a line outside of definitions runs. The rules are those of
`KeepsStreams`, no structures in brackets, and no interpreted stream nested in
an open structure, where the source really loses it (section 13). TLC checked
`StructInv` on both compiler instances before it was proved.

### Input

The rules are `KeepsRules`: those of the runs, no REFILL in a word that waits and
no line of 255 characters. `TypeCorrect` needs none of them. `TypeInv` adds to
`TypeOK` that TIB is a `Buffer`, with a NUL at its end and one behind each blank,
and that what a caller saved fits into it.

`ReadingInv` says what is still to be run: EVALUATEs, and after them at most one
word that was read, for which the line has what it takes (`Fits`), also for
each text that waits (`Pending`, `CallerOk`); what runs at the end of a line finds
nothing left of it; and a stream that failed was at its end. With it each action
of `Input` is a step of `Reading` on `Texts` or a stutter (`RefinementStep`). The
lemmas under it say what the cells between `pTIB` and the NUL are after a step:
the tail of what they were (`CellsTail`, `CellsFurther`), or what was written
(`WrittenIs`).

`LocatedInv` says of which line the cells in TIB are (`LineHere`), what the texts
that wait have saved (`TextsWait`), and what `linecount` is: the line of the
innermost file plus `extra`, less one while a string in it has not read its
first line (`Counted`), and the same for what INCLUDED has kept (`CountsKept`).
`OnItsWay` follows an error out of the texts, with EVALUATE putting its line back
and INCLUDE not. TLC checked the invariants on the instance of the run `input`
before they were proved.

### Dictionary

`DictInv` has the types; what each command of each word's code points to; that
a listed word is in one wordlist, once, and points to earlier words of it only;
and that the search order ends in Root. `DOES>` and `:` leave definitions half
done, so that there is one conjunct for the definition that is under way. The
code of a word is run by a fold over its commands, which is proved by
induction over its length (`CodeRun`, `Ran`). `MarksHit` needs to know where marks
can be: `MarksInv` says that a mark (IMMEDIATE and the like) comes first in its
code, or follows VARIABLE or another mark, that POSTPONEd words and DOES> code
have none, and that the marks on a waiting line carry the newest word, which is
the last of the compilation wordlist. TLC checked both invariants on the
instance of the run `dictionary` before they were proved.

### Arithmetic and numbers

The theorems say for cells of every width, 32 bits included, what the run says
for 4. The provers know the linear part of arithmetic, so that each product and
quotient is named and its facts stated as lemmas (`Divided`, `HighDecides`,
`DivUnique`). `LongDivideSum` is the schoolbook sum: the five divisions of
`utmslash1` add up to the dividend. Signed words are reduced to unsigned ones by
what negation does to two and three cells (`Signed2Cells`, `Signed3Cells`), and
`+LOOP` is a case analysis over signs and wraps.

For the number conversions, `ConvInv` says that what is left of the double,
read on by the digits written, is the double that `<#` found. `Reads` is the value
that a reader makes of a text, a recursive function; it reads a joined text as
its parts one after the other (`ReadsJoined`), which is an induction. `UDot0Exact`
and `SharpSExact` say that the two ways of printing, by powers of the base and by
`#S`, give digits that read as the number, and `TakenExact` that `>NUMBER` computes
`Reads`. `PrintInv` carries from the word that prints to the word that reads what
the text shows: spaces, a sign, the digits of the magnitude, spaces.

### Devices and output

`TerminalRestored` needs that, at every depth of interruption, the terminal has
settings of its own, or the first of the frames that keep settings keeps those
(`SettingsKept`): the frames over it go back to whatever they found.
`TableInv` says what a FORTH-SIGNAL that is under way will write. `KeyInv`
counts the keys that are taken from the terminal, kept by KEY? or in the hands
of a word and not yet handed over: at most one, if the rules are kept.
`AcceptedIsEdited` rests on what a key more does to the reference, a recursive
function of the keys read (`EditedMore`), and to the start of the buffer
(`AcceptedMore`). `OutputKept` needs that each stream stands at the end of its file.

### Only model-checked

- `ErrorReachesPrompt`, `PromptComesBack`, `KeyQueryReturns`: liveness under
  fairness is out of the prover's reach.
- `JumpsLand` and `LoopsBalanced` of `Compiler`; the properties of `Strings`.

The induction theorems of the library take an operator as a parameter, which
the installed provers can not instantiate. Inductions over lengths are done
with sets instead: the set of the counterexamples, if it is not empty, has a
least element (`MinExists`), and that one is not a counterexample.

## 13. What the models found

- `vm32.s:2000`: a failed UM/MOD (and FM/MOD, SM/REM) leaves the type stack one
  cell off the data stack until ABORT (`vm_umslashmod`).
- `vmc.c:531`: a word that takes a name, with only blanks left of its line,
  takes one from what an earlier line left in the buffer, or runs past the
  buffer (`input_names`).

Not a run of their own, and kept out of the others by a rule, a constant or the
wording of a property; each is listed with its line under `hazards`:

- Compiler: the block that cleans up after an error tests for a code that is
  never returned, so that a stream interpreted inside an open structure loses
  the structure (`ForthCompiler.cpp:390`, rule "no nested interpretation in a
  structure"); a definition whose brackets end on a later line than they began
  loses its code (`kforth.cpp:150`, rule "brackets end in their stream"); ['] of
  a name that is not found compiles an item of the stack and reports nothing
  (`ForthVM.cpp:1833`, rule "['] finds its name").
- Dictionary: FORTH on the order Root Forth removes Root (`ForthVM.cpp:796`,
  rule "orders end in Root"); a compiled ONLY ASSEMBLER does too; macros that
  POSTPONE a NONDEFERRED word; IMMEDIATE after SET-CURRENT marks another word;
  COLD keeps the old search order.
- Arithmetic: STS/REM negates the remainder of a positive dividend whose high
  cell is not zero (`vm32.s:2164`; `SignedDivides` is about its quotient);
  NUMBER? does not see that >NUMBER overflowed.
- Virtual machine: `TRAVERSE-WORDLIST` forgets the error of a callback; a second
  signal during a handler.
- Input: after an EVALUATEd string of several lines, errors of the file are
  reported at a line too far down (`ForthVM.cpp:2443`; `ErrorIsLocated` says by
  how much); INCLUDED by itself loses the rest of its line; a deferred REFILL loses
  the line it read; a line of 255 characters ends its file without an error.
- Devices: ACCEPT and the prompt read past the key that KEY? kept; a NUL is
  reported by KEY? and lost; a signal may end the process in raw mode; ACCEPT
  reads a key it has no room for into the byte behind its buffer (`vmc.c:485`),
  which the model has and no property is about.
- Output: BYE does not write out a redirected stream; >FILE of the open file.

## 14. What is not modelled

- Values of data cells in `VirtualMachine`, bytes of memory, the machine stack
  (+LOOP's error exit at `vm32.s:968` leaves it unbalanced).
- Two words that touch the machine of `VirtualMachine` from outside: `]` calls
  `vm()` itself, without what ForthVM() does before and after
  (`ForthVM.cpp:2359`; `Compiler` has it, as code that runs), and COLD sets
  `GlobalRp` and `vmEntryRp` back to the bottom while its own `vm()` is running
  (`ForthVM.cpp:331`; `Dictionary` and `Devices` have the rest of COLD).
- `vm32-fast.s`: the same machine without the type stacks.
- Lengths: names longer than an entry has room for, strings of 256 characters
  or more, which EVALUATE passes over without an error.
- An IMMEDIATE word that pushes data: when it is read, its code is cut off again
  by a width guessed from its word code (`ForthCompiler.cpp:339`).
- ALLOT and the words that only read or list the dictionary; ALLOCATE and its
  kin; `BASE` below 2.
- Files, system calls, the dynamic loader, time: words that pass their arguments
  to the operating system and keep nothing. Floating point arithmetic.
- The Forth libraries of `forth-src`: programs, of which the tests in
  `forth-src/system-test` were read for what they expect.

## 15. Plan

Done, in this order: `VirtualMachine` with its proofs, `Compiler`,
`Dictionary`, `Arithmetic`, `Numbers`, `Input` with `Reading`, `Devices`,
`Output`, `Strings`; then the proofs about the return stack, the output, the
devices, the compiler, the dictionary, the numbers and the input.

Next, by what matters most:

1. `LoopsBalanced`, from the offsets on the control stacks and the depth at each
   instruction.
2. The properties of `Strings`, by induction over the texts they scan.
