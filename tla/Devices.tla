------------------------------- MODULE Devices -------------------------------
(***************************************************************************)
(* The terminal, the keyboard and the signals of kForth.  KEY, KEY? and    *)
(* ACCEPT change the terminal's settings for as long as they read and put  *)
(* them back, main() turns the echo off while the interpreter runs,        *)
(* OpenForth() keeps the settings that CloseForth() restores, and KEY?     *)
(* keeps the character it looked at for KEY.  FORTH-SIGNAL installs words  *)
(* that forth_signal_handler() runs, between any two steps of the program  *)
(* and of the handlers of other signals.                                   *)
(*                                                                         *)
(* frames holds the program and the handlers that interrupted each other,  *)
(* the innermost last; only that one takes steps.  What a handler does to  *)
(* the stacks is in VirtualMachine.                                        *)
(*                                                                         *)
(* original, read, got, handed and bent are history: the settings kForth   *)
(* was started with, how many keys were read, the last key handed over and *)
(* how many were, and the rules the program did not keep:                  *)
(*   reader     a handler read keys while the program or a handler under   *)
(*              it was reading                                             *)
(*   cold       a handler ran COLD at such a time                          *)
(*   left       KEY? found a key, and ACCEPT or the prompt read before KEY *)
(*   nul        KEY? was used when a NUL was typed                         *)
(*   installer  a handler set a signal's word while FORTH-SIGNAL was in    *)
(*              the middle of that signal                                  *)
(***************************************************************************)
EXTENDS Integers, Sequences, FiniteSets, SequencesExt

CONSTANTS
  Signals, Words, NoXt,
  MaxKeys,     \* bound: keys typed
  MaxSignals,  \* bound: signals sent
  MaxOps,      \* bound: device words on a line
  MaxRoom      \* bound: characters ACCEPT has room for

ASSUME DevicesAssumption ==
  NoXt \notin Words /\ {MaxKeys, MaxSignals, MaxOps, MaxRoom} \subseteq Nat

VARIABLES
  tty, tios0,      \* the terminal's settings, and those save_term() kept
  typed,           \* keys the terminal has, not yet read
  key_query_char,
  frames, phase,   \* phase: where main() is
  disp,            \* what the system does about a signal
  pending,         \* signals sent and not yet delivered
  signal_xtmap,
  sent, strokes,   \* counters for the bounds
  original, read, got, handed, bent

terminal == <<tty, tios0, original>>
keyboard == <<typed, strokes, read>>
signals  == <<disp, signal_xtmap>>
arrivals == <<pending, sent>>
delivery == <<got, handed>>
vars == <<terminal, keyboard, key_query_char, frames, phase, signals, arrivals, delivery, bent>>

-----------------------------------------------------------------------------
(* Types *)

Chars    == {"char", "nul", "del", "nl"}
Key      == [char : Chars, num : 1 .. MaxKeys]
NoKey    == [char |-> "nul", num |-> 0]
Settings == [canon : BOOLEAN, echo : BOOLEAN, wait : BOOLEAN]
Running  == {"prompt", "readline", "line", "run"}

Raw(wait) == [canon |-> FALSE, echo |-> FALSE, wait |-> wait]

(* A program or a handler: the word it is in, how far it got, and that     *)
(* word's locals.  heard is history, the keys ACCEPT has read.             *)
Idle(who, left) ==
  [who |-> who, left |-> left, op |-> "none", at |-> "idle", t1 |-> Raw(FALSE), ch |-> NoKey,
   sig |-> NoXt, xt |-> NoXt, room |-> 0, buf |-> [i \in 1 .. (MaxRoom + 1) |-> "none"],
   n2 |-> 0, heard |-> <<>>]

Self   == Last(frames)
Become(f) == frames' = Append(Front(frames), f)
Under  == Front(frames)
Blocked == {Under[i].who : i \in DOMAIN Under} \cup {Self.who}

Reads(f) == f.op \in {"key", "keyquery", "accept"} /\ f.at # "idle"
Interrupts ==
  /\ Len(frames) > 1
  /\ phase = "readline" \/ \E i \in DOMAIN Under : Reads(Under[i])

(* A signal that is not blocked is delivered before anything else runs.    *)
Free(step) == step /\ phase \in Running /\ pending \subseteq Blocked

-----------------------------------------------------------------------------
(* Terminal settings *)

(* Mutant: the settings are those of the moment COLD or BYE is run. *)
Unrestored == tty

(* restore_term() *)
Restored == tios0

EchoSet(on) == tty' = [tty EXCEPT !.echo = on]

(* The process ends, and what it kept is gone. *)
Ends(how) ==
  /\ phase' = how /\ frames' = <<Idle("main", 0)>> /\ key_query_char' = NoKey
  /\ pending' = {} /\ disp' = [s \in Signals |-> "default"]
  /\ signal_xtmap' = [s \in Signals |-> NoXt]

(* CloseForth() and exit() *)
CPP_bye == Ends("exited") /\ tty' = Restored /\ UNCHANGED <<tios0, original>>

(* CloseForth() and OpenForth(); what FORTH-SIGNAL installed stays.        *)
CPP_cold ==
  /\ tty' = Restored /\ tios0' = Restored /\ UNCHANGED <<original, phase>>
  /\ bent' = bent \cup (IF Interrupts THEN {"cold"} ELSE {})

-----------------------------------------------------------------------------
(* Keys *)

Handed(key) == got' = key.num /\ handed' = handed + 1
NotHanded == UNCHANGED delivery

TakesKey ==
  /\ typed # <<>> /\ typed' = Tail(typed) /\ read' = read + 1 /\ UNCHANGED strokes

TheKey == [char |-> Head(typed), num |-> read + 1]

(* read(0, ..., 1): in canonical mode there must be a whole line.          *)
Readable == IF tty.canon THEN "nl" \in Range(typed) ELSE typed # <<>>
Blocks   == tty.canon \/ tty.wait

Starts(op) ==
  /\ Self.at = "idle" /\ Self.op = "none" /\ Self.left > 0
  /\ Len(frames) = 1 => phase = "run"

Working(op, at) == Self.op = op /\ Self.at = at
Finished == Idle(Self.who, Self.left)
Enters(op, at) == [Self EXCEPT !.op = op, !.at = at, !.left = @ - 1]
BentBy(rules) == bent' = bent \cup rules
ReaderRule == IF Interrupts THEN {"reader"} ELSE {}
LeftRule   == IF key_query_char # NoKey THEN {"left"} ELSE {}

C_key ==
  /\ Starts("key")
  /\ IF key_query_char # NoKey
     THEN Become([Enters("key", "clear") EXCEPT !.ch = key_query_char])
     ELSE Become(Enters("key", "save"))
  /\ BentBy(ReaderRule)
  /\ UNCHANGED <<terminal, keyboard, key_query_char, phase, signals, arrivals, delivery>>

(* Mutant: the character KEY? kept is handed over but stays. *)
Kept == key_query_char

(* C_key(): key_query_char = 0 *)
Cleared == NoKey

C_key_clear ==
  /\ Working("key", "clear")
  /\ key_query_char' = Cleared /\ Become(Finished) /\ Handed(Self.ch)
  /\ UNCHANGED <<terminal, keyboard, phase, signals, arrivals, bent>>

C_keyquery ==
  /\ Starts("keyquery")
  /\ IF key_query_char # NoKey
     THEN Become([Finished EXCEPT !.left = @ - 1])
     ELSE Become(Enters("keyquery", "save"))
  /\ BentBy(ReaderRule)
  /\ UNCHANGED <<terminal, keyboard, key_query_char, phase, signals, arrivals, delivery>>

C_accept ==
  /\ Starts("accept")
  /\ \E n1 \in 0 .. MaxRoom : Become([Enters("accept", "save") EXCEPT !.room = n1])
  /\ BentBy(ReaderRule \cup LeftRule)
  /\ UNCHANGED <<terminal, keyboard, key_query_char, phase, signals, arrivals, delivery>>

(* tcgetattr() *)
Saves ==
  /\ Self.at = "save" /\ Become([Self EXCEPT !.at = "raw", !.t1 = tty])
  /\ UNCHANGED <<terminal, keyboard, key_query_char, phase, signals, arrivals, delivery, bent>>

(* Mutant: KEY? waits like KEY. *)
AlwaysWaits == Raw(TRUE)

(* VMIN is 0 for KEY? alone. *)
ReadMode == Raw(Self.op # "keyquery")

SetsRaw ==
  /\ Self.at = "raw" /\ Become([Self EXCEPT !.at = "read"])
  /\ tty' = ReadMode /\ UNCHANGED <<tios0, original>>
  /\ UNCHANGED <<keyboard, key_query_char, phase, signals, arrivals, delivery, bent>>

ReadsKey ==
  /\ Working("key", "read") /\ Readable /\ TakesKey
  /\ Become([Self EXCEPT !.at = "restore", !.ch = TheKey]) /\ Handed(TheKey)
  /\ UNCHANGED <<terminal, key_query_char, phase, signals, arrivals, bent>>

(* KEY? reads a key if there is one.                                       *)
LooksForKey ==
  /\ Working("keyquery", "read") /\ NotHanded
  /\ \/ /\ Readable /\ TakesKey
        /\ Become([Self EXCEPT !.at = "store", !.ch = TheKey])
     \/ /\ ~Readable /\ ~Blocks /\ UNCHANGED keyboard
        /\ Become([Self EXCEPT !.at = "store"])
  /\ BentBy(LeftRule)
  /\ UNCHANGED <<terminal, key_query_char, phase, signals, arrivals>>

(* A NUL is not kept, though KEY? has said that there is a key.            *)
KeepsKey ==
  /\ Working("keyquery", "store") /\ Become([Self EXCEPT !.at = "restore"])
  /\ key_query_char' = IF Self.ch.char # "nul" THEN Self.ch ELSE key_query_char
  /\ BentBy(IF Self.ch.num # 0 /\ Self.ch.char = "nul" THEN {"nul"} ELSE {})
  /\ UNCHANGED <<terminal, keyboard, phase, signals, arrivals, delivery>>

Clamp(n) == IF n < 0 THEN 0 ELSE n

(* Mutant: rubbing out at the start of the buffer is not stopped. *)
RubOutUnstopped(n) == IF n = 0 THEN 1 ELSE n - 1

RubOut(n) == Clamp(n - 1)

(* The character is read into the buffer, also when it is full, and then   *)
(* kept, taken for a rub-out, or left for the next one to overwrite.       *)
AcceptsKey ==
  /\ Working("accept", "read") /\ Readable /\ TakesKey /\ Handed(TheKey)
  /\ LET ch == Head(typed)
     IN  Become([Self EXCEPT
           !.at = IF ch = "nl" THEN "restore" ELSE "read",
           !.buf = [@ EXCEPT ![Self.n2 + 1] = ch],
           !.n2 = IF ch = "nl" THEN @ ELSE IF ch = "del" THEN RubOut(@)
                  ELSE IF @ < Self.room THEN @ + 1 ELSE @,
           !.heard = Append(@, ch)])
  /\ BentBy(LeftRule)
  /\ UNCHANGED <<terminal, key_query_char, phase, signals, arrivals>>

(* tcsetattr(0, TCSANOW, &t1) *)
PutsBack == Self.t1

Restores ==
  /\ Self.at = "restore" /\ Become(Finished)
  /\ tty' = PutsBack /\ UNCHANGED <<tios0, original>>
  /\ UNCHANGED <<keyboard, key_query_char, phase, signals, arrivals, delivery, bent>>

-----------------------------------------------------------------------------
(* Signals *)

Dispositions == {"default", "ignore", "handler"}

(* FORTH-SIGNAL tells the system first and its own table after.            *)
C_forth_signal ==
  /\ Starts("signal")
  /\ \E s \in Signals, xt \in Words \cup {NoXt}, d \in Dispositions :
       /\ (d = "handler") = (xt # NoXt)
       /\ disp' = [disp EXCEPT ![s] = d]
       /\ Become([Enters("signal", "table") EXCEPT !.sig = s, !.xt = xt])
       /\ BentBy(IF \E i \in DOMAIN Under : Under[i].op = "signal" /\ Under[i].sig = s
                 THEN {"installer"} ELSE {})
  /\ UNCHANGED <<terminal, keyboard, key_query_char, phase, signal_xtmap, arrivals, delivery>>

(* Mutant: the table keeps the word of a signal that is reset. *)
OnlyWords == IF Self.xt = NoXt THEN signal_xtmap[Self.sig] ELSE Self.xt

(* C_forth_signal(): xt, which is 0 for SIG_DFL and SIG_IGN *)
Installed == Self.xt

SetsTable ==
  /\ Working("signal", "table") /\ Become(Finished)
  /\ signal_xtmap' = [signal_xtmap EXCEPT ![Self.sig] = Installed]
  /\ UNCHANGED <<terminal, keyboard, key_query_char, phase, disp, arrivals, delivery, bent>>

Sends(s) == sent < MaxSignals /\ sent' = sent + 1 /\ pending' = pending \cup {s}

(* RAISE, and a timer of SETITIMER or another process.                     *)
C_raise ==
  /\ Starts("raise") /\ Become([Self EXCEPT !.left = @ - 1])
  /\ \E s \in Signals : Sends(s)
  /\ UNCHANGED <<terminal, keyboard, key_query_char, phase, signals, delivery, bent>>

SignalSent ==
  /\ phase \in Running /\ \E s \in Signals : Sends(s)
  /\ UNCHANGED <<terminal, keyboard, key_query_char, frames, phase, signals, delivery, bent>>

Delivered(s) ==
  /\ phase \in Running /\ s \in pending \ Blocked
  /\ \/ disp[s] = "default" /\ Ends("killed")
     \/ /\ disp[s] # "default" /\ pending' = pending \ {s}
        /\ frames' = IF disp[s] = "ignore" THEN frames
                     ELSE Append(frames, [Idle(s, 1) EXCEPT !.op = "lookup"])
        /\ UNCHANGED <<phase, key_query_char, signals>>
  /\ UNCHANGED <<terminal, keyboard, sent, delivery, bent>>

(* Without a word in the table the handler only returns.                   *)
forth_signal_handler ==
  /\ Self.op = "lookup"
  /\ Become(Idle(Self.who, IF signal_xtmap[Self.who] = NoXt THEN 0 ELSE 1))
  /\ UNCHANGED <<terminal, keyboard, key_query_char, phase, signals, arrivals, delivery, bent>>

HandlerReturns ==
  /\ Len(frames) > 1 /\ Self.op = "none" /\ frames' = Under
  /\ UNCHANGED <<terminal, keyboard, key_query_char, phase, signals, arrivals, delivery, bent>>

-----------------------------------------------------------------------------
(* main() *)

AtMain(p) == Len(frames) = 1 /\ phase = p

(* readline() takes the keys of a line, in a mode of its own.              *)
Prompts ==
  /\ AtMain("prompt") /\ phase' = "readline"
  /\ Become([Self EXCEPT !.t1 = tty]) /\ tty' = Raw(TRUE) /\ UNCHANGED <<tios0, original>>
  /\ UNCHANGED <<keyboard, key_query_char, signals, arrivals, delivery, bent>>

PromptReads ==
  /\ AtMain("readline") /\ TakesKey /\ Handed(TheKey) /\ BentBy(LeftRule)
  /\ \/ /\ Head(typed) # "nl" /\ UNCHANGED <<phase, terminal, frames>>
     \/ /\ Head(typed) = "nl" /\ phase' = "line"
        /\ tty' = Self.t1 /\ Become(Idle("main", MaxOps)) /\ UNCHANGED <<tios0, original>>
  /\ UNCHANGED <<key_query_char, signals, arrivals>>

(* The end of the input: readline() puts its mode back, and main() calls   *)
(* CPP_bye().                                                              *)
EndOfInput ==
  /\ AtMain("readline") /\ CPP_bye /\ UNCHANGED <<keyboard, sent, delivery, bent>>

RunsLine ==
  /\ AtMain("line") /\ phase' = "run" /\ EchoSet(FALSE) /\ UNCHANGED <<tios0, original>>
  /\ UNCHANGED <<keyboard, key_query_char, frames, signals, arrivals, delivery, bent>>

EndsLine ==
  /\ AtMain("run") /\ Self.at = "idle" /\ phase' = "prompt"
  /\ EchoSet(TRUE) /\ UNCHANGED <<tios0, original>>
  /\ UNCHANGED <<keyboard, key_query_char, frames, signals, arrivals, delivery, bent>>

Byes ==
  Starts("bye") /\ CPP_bye /\ UNCHANGED <<keyboard, sent, delivery, bent>>

Colds ==
  /\ Starts("cold") /\ CPP_cold /\ Become([Self EXCEPT !.left = @ - 1])
  /\ UNCHANGED <<keyboard, key_query_char, signals, arrivals, delivery>>

-----------------------------------------------------------------------------
(* The user types. *)
Types ==
  /\ phase \in Running /\ strokes < MaxKeys /\ strokes' = strokes + 1
  /\ \E c \in Chars : typed' = Append(typed, c)
  /\ UNCHANGED <<terminal, read, key_query_char, frames, phase, signals, arrivals, delivery, bent>>

Init ==
  /\ tty \in {t \in Settings : t.canon /\ t.wait} /\ tios0 = tty /\ original = tty
  /\ typed = <<>> /\ strokes = 0 /\ read = 0 /\ got = 0 /\ handed = 0
  /\ key_query_char = NoKey /\ frames = <<Idle("main", MaxOps)>>
  /\ phase \in {"prompt", "line"} \* "line" when there are arguments
  /\ disp = [s \in Signals |-> "default"] /\ pending = {} /\ sent = 0
  /\ signal_xtmap = [s \in Signals |-> NoXt] /\ bent = {}

Terminal ==
  \/ C_key \/ C_key_clear \/ C_keyquery \/ C_accept \/ Saves \/ SetsRaw
  \/ ReadsKey \/ LooksForKey \/ KeepsKey \/ AcceptsKey \/ Restores

Main ==
  \/ Prompts \/ PromptReads \/ EndOfInput \/ RunsLine \/ EndsLine \/ Byes \/ Colds

Handling == C_forth_signal \/ SetsTable \/ C_raise \/ forth_signal_handler \/ HandlerReturns

Delivers == \E s \in Signals : Delivered(s)
Program == Free(Terminal \/ Main \/ Handling)

Next == Program \/ Delivers \/ SignalSent \/ Types

(* The program and the system go on; nobody has to type or to send.        *)
Spec == Init /\ [][Next]_vars /\ WF_vars(Program) /\ WF_vars(Delivers)

-----------------------------------------------------------------------------
(* Properties *)

(* kForth leaves the terminal as it found it when it ends by BYE or at the *)
(* end of its input, and the prompt comes up in the terminal's own modes,  *)
(* with the echo it had or on, whatever was interrupted by what.           *)
TerminalRestored ==
  /\ phase = "exited" => tty = original
  /\ phase = "prompt" /\ Len(frames) = 1 => tty \in {original, [original EXCEPT !.echo = TRUE]}

(* Every key goes to KEY, ACCEPT or the prompt once, in the order typed.   *)
KeysInOrder ==
  bent \cap {"reader", "left", "nul"} = {} => got = handed

(* What ACCEPT has, and returns, is the line as edited: what is rubbed out *)
(* is gone, and so is what came when there was no room.                    *)
EditedBy(c, s, room) ==
  IF c = "nl" THEN s
  ELSE IF c = "del" THEN (IF s = <<>> THEN s ELSE Front(s))
  ELSE IF Len(s) < room THEN Append(s, c) ELSE s

Edited(keys, room) ==
  LET line[i \in 0 .. Len(keys)] ==
        IF i = 0 THEN <<>> ELSE EditedBy(keys[i], line[i - 1], room)
  IN  line[Len(keys)]

AcceptedIsEdited ==
  \A i \in DOMAIN frames :
    LET f == frames[i]
    IN  f.op = "accept" => SubSeq(f.buf, 1, f.n2) = Edited(f.heard, f.room)

(* The system calls forth_signal_handler() for just the signals that have  *)
(* a word, so no signal is dropped that a program believes to handle.      *)
TableMatchesSignals ==
  "installer" \notin bent =>
    \A s \in Signals :
      (\A i \in DOMAIN frames : frames[i].op = "signal" => frames[i].sig # s)
        => (disp[s] = "handler" <=> signal_xtmap[s] # NoXt)

(* KEY? does not wait: it comes back if nobody types at all.               *)
KeyQueryReturns ==
  frames[1].op = "keyquery"
    ~> (frames[1].op # "keyquery" \/ phase \notin Running \/ bent \cap {"reader", "cold"} # {})

===============================================================================
