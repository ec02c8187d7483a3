---------------------------- MODULE VirtualMachine ----------------------------
(***************************************************************************)
(* The kForth-32 virtual machine: the inner interpreter vm() of vm32.s,    *)
(* the C++ wrapper ForthVM(), and the ways C++ and C code re-enter vm()    *)
(* while an outer vm() is still running: the compiler called by EVALUATE   *)
(* or INCLUDED, TRAVERSE-WORDLIST, and the C signal handler.               *)
(*                                                                         *)
(* The four stack pointers are depths, counted in cells from the bottom of *)
(* their stack: a push adds one, a pop takes one away, and nothing in the  *)
(* code stops a depth from going below zero.  Data stack cells carry no    *)
(* value here, because the program text is not modelled: a step is any     *)
(* opcode.  Return stack cells keep their type tag and, for an address,    *)
(* the program point it names, because L_ret and LOOP jump there.          *)
(*                                                                         *)
(* link and honest are history variables.  link marks the return stack     *)
(* cells that hold a pending return address or a running loop's start      *)
(* address.  honest stays TRUE while the program itself keeps the usage    *)
(* rules of the return stack (it takes back what it put there, leaves a    *)
(* definition with the return stack it found, and gives TRAVERSE-WORDLIST  *)
(* no callback that fails), so that whatever goes wrong in an honest run   *)
(* is the machine's doing.                                                 *)
(***************************************************************************)
EXTENDS Integers, Sequences

CONSTANTS
  Points,       \* program points: the addresses the instruction pointer takes
  Data,         \* a return stack cell that is no program point
  NoLink,       \* link of a cell that holds no return or loop address
  Callbacks,    \* which of TRAVERSE-WORDLIST ("traverse"), signal handlers
                \* ("signal") and signals that interrupt a signal handler
                \* ("nested") the program uses
  SignalOffset, \* cells the signal handler skips on every stack (16 in vmc.c)
  MaxNest,      \* bound: vm() activations at once
  MaxData,      \* bound: data stack depth (STACK_SIZE)
  MaxReturn,    \* bound: return stack depth (RETURN_STACK_SIZE)
  MaxUnder      \* bound: cells a program may go below the bottom of a stack

ASSUME ConstantsAssumption ==
  /\ Points # {} /\ Data \notin Points
  /\ Callbacks \subseteq {"traverse", "signal", "nested"}
  /\ SignalOffset \in Nat /\ MaxNest \in Nat
  /\ MaxData \in Nat /\ MaxReturn \in Nat /\ MaxUnder \in Nat
  /\ NoLink \notin [use : {"ret", "loop"}, ip : Points]

VARIABLES
  GlobalSp, GlobalTp,   \* depths of the data stack and of its type stack
  GlobalRp, GlobalRtp,  \* depths of the return stack and of its type stack
  rcell, rtag,          \* the return stack's cells and type tags, by position
  GlobalIp,             \* the instruction pointer
  vmEntryRp,            \* return stack depth on entry to the running vm()
  act,                  \* the vm() activations, on the C stack
  mode,                 \* who runs: an opcode, a returning vm(), or C++ code
  ecode,                \* the error code on its way up, "ok" for none
  link, honest          \* history, see above

vars == <<GlobalSp, GlobalTp, GlobalRp, GlobalRtp, rcell, rtag, GlobalIp,
          vmEntryRp, act, mode, ecode, link, honest>>

dataVars   == <<GlobalSp, GlobalTp>>
returnVars == <<GlobalRp, GlobalRtp, rcell, rtag, link, honest>>
hostVars   == <<vmEntryRp, act, mode, ecode>>

-----------------------------------------------------------------------------
(* Types *)

Tags   == {"addr", "ival"}            \* OP_ADDR and OP_IVAL
Cells  == Points \cup {Data}
Items  == {<<"ival", Data>>} \cup ({"addr"} \X Cells) \* what a program may move
                                      \* to the return stack: only a cell tagged
                                      \* as an address is ever read as one
RIndex == (1 - MaxUnder) .. MaxReturn \* memory under the bottom included
RDepth == (0 - MaxUnder) .. MaxReturn
DDepth == (0 - MaxUnder) .. MaxData
Links  == [use : {"ret", "loop"}, ip : Points] \cup {NoLink}
Codes  == {"ok", "notaddr", "divide", "badcode", "retcorrupt", "underflow",
           "badstackaddr", "quit", "compiler"}
Modes  == {"host", "vm", "exit", "traverse", "wild"}
Kinds  == {"forthvm", "traverse", "signal"}

(* What the C stack holds for one vm() activation: who called it, the      *)
(* GlobalIp and vmEntryRp that vm() pushes and restores, and, for a signal *)
(* handler, what it interrupted.  base and stack are history: the return   *)
(* stack's depth on entry, and what it held when the signal came.          *)
Activation ==
  [kind : Kinds, ip : Points, entryRp : RDepth, base : RDepth, mode : Modes,
   ecode : Codes, sp : DDepth, tp : DDepth, rp : RDepth, rtp : RDepth,
   stack : ([RIndex -> Cells] \X [RIndex -> Tags]) \cup {<<>>}]

-----------------------------------------------------------------------------
(* Helpers *)

Top == act[Len(act)]
Callers == SubSeq(act, 1, Len(act) - 1)
SignalActive == \E i \in 1 .. Len(act) : act[i].kind = "signal"
MaySignal ==
  /\ "signal" \in Callbacks
  /\ SignalActive => "nested" \in Callbacks

Opcode == mode = "vm"

(* An opcode that leaves al # 0 makes vm() leave its loop.                 *)
Raise(e) == mode' = "exit" /\ ecode' = e /\ UNCHANGED <<vmEntryRp, act>>
Proceed  == UNCHANGED hostVars

Push(n) ==
  /\ GlobalSp + n \in DDepth /\ GlobalTp + n \in DDepth
  /\ GlobalSp' = GlobalSp + n /\ GlobalTp' = GlobalTp + n
Pop(n) == Push(0 - n)

IsLinked(i) == i \in RIndex /\ link[i] # NoLink

(* Taking the top n return stack cells keeps the rules when they are above *)
(* the running activation's entry and none of them is linked.              *)
MayTake(n) ==
  /\ GlobalRp - n >= vmEntryRp
  /\ \A i \in (GlobalRp - n + 1) .. GlobalRp : ~IsLinked(i)

Unlinked(depth) == [i \in RIndex |-> IF i > depth THEN NoLink ELSE link[i]]

PushReturn(tag, cell, l) ==
  /\ GlobalRp + 1 \in RIndex /\ GlobalRtp + 1 \in RIndex
  /\ GlobalRp' = GlobalRp + 1 /\ GlobalRtp' = GlobalRtp + 1
  /\ rcell' = [rcell EXCEPT ![GlobalRp + 1] = cell]
  /\ rtag' = [rtag EXCEPT ![GlobalRtp + 1] = tag]
  /\ link' = [link EXCEPT ![GlobalRp + 1] = l]
  /\ UNCHANGED honest

PopReturn(n) ==
  /\ GlobalRp - n \in RDepth /\ GlobalRtp - n \in RDepth
  /\ GlobalRp' = GlobalRp - n /\ GlobalRtp' = GlobalRtp - n
  /\ link' = Unlinked(GlobalRp - n)
  /\ UNCHANGED <<rcell, rtag>>

(* Mutant: the instruction pointer takes whatever the cell holds. *)
JumpToAny(cell) == GlobalIp' = cell /\ Proceed

(* The instruction pointer moves to what the popped cell holds; executing  *)
(* bytes that are no program is undefined, and the run ends there.         *)
JumpTo(cell) ==
  \/ cell \in Points /\ GlobalIp' = cell /\ Proceed
  \/ cell = Data /\ mode' = "wild" /\ UNCHANGED <<GlobalIp, vmEntryRp, act, ecode>>

-----------------------------------------------------------------------------
(* The effect of the opcodes that touch the data stack only, by section of *)
(* the assembly source: what they add to GlobalSp and to GlobalTp, and the *)
(* code they return.  Which one of a section's outcomes an opcode has may  *)
(* depend on values and type tags that are not modelled.                   *)

Balanced(ns, e) == {<<n, n, e>> : n \in ns}

(* TO-BODY USLEEP MS FILL ERASE BLANK MOVE CMOVE CMOVE> /STRING            *)
BlockMemory == Balanced({0, -1, -3, -2}, "ok") \cup Balanced({-2, -3}, "notaddr")

(* R@ 2R@ RP@ SP@ I J *)
ReturnStackReads == Balanced({1, 2}, "ok")

(* COUNT and the literals IVAL ADDR PTR 2VAL FVAL *)
Literals == Balanced({1, 2}, "ok") \cup Balanced({0}, "notaddr")

(* AND OR NOT XOR, the relations on cells, on doubles, and WITHIN          *)
LogicAndRelations == Balanced({0, -1, -2, -3}, "ok")

(* ?DUP SWAP OVER ROT NIP TUCK PICK ROLL DEPTH 2DROP 2DUP F2DROP F2DUP ... *)
StackShuffles == Balanced({-4, -2, -1, 0, 1, 2, 4}, "ok")

(* ? @ ! A@ C@ C! W@ W! SF@ SF! 2@ 2!: W!, SF@ and SF! have moved past the *)
(* address when they find that it is none                                  *)
MemoryAccess ==
  Balanced({-3, -2, -1, 0, 1}, "ok") \cup Balanced({0, -1}, "notaddr")

(* ABS MAX MIN DMAX DMIN D2* D2/ + / MOD /MOD */ */MOD +! DABS D+ D- UM*   *)
Arithmetic ==
  Balanced({-2, -1, 0}, "ok") \cup Balanced({-1}, "divide")
    \cup Balanced({0}, "notaddr")

(* Mutant: a successful UM/MOD leaves its type stack pointer behind. *)
UMSlashModForgets == {<<-1, 0, "ok">>, <<-1, 0, "divide">>}

(* UM/MOD moves GlobalSp past the divisor before it tests it and GlobalTp  *)
(* only at the end, so a failed division leaves them one cell apart.       *)
UMSlashMod == {<<-1, -1, "ok">>, <<-1, 0, "divide">>}

(* M* M+ M/ UDM* UTS/MOD STS/REM UTM/ M*/: M*/ pops the error code of its  *)
(* call of UTM/ and returns none, with UTM/'s four cells still in place.   *)
MixedArithmetic == Balanced({-2, -1, 0}, "ok") \cup Balanced({0, -2}, "divide")

(* FM/MOD and SM/REM, as UM/MOD *)
MSlash == {<<-1, -1, "ok">>, <<-1, 0, "divide">>}

(* The float conversions and relations, FSINCOS *)
FloatWords == Balanced({-3, -1, 0, 1, 2}, "ok")

(* The opcodes of vm32-common.s from FALSE to FDIV, and L_nop *)
CommonWords == Balanced({-2, -1, 0, 1}, "ok") \cup Balanced({0}, "badcode")

DataEffects ==
  BlockMemory \cup ReturnStackReads \cup Literals \cup LogicAndRelations
    \cup StackShuffles \cup MemoryAccess \cup Arithmetic \cup UMSlashMod
    \cup MixedArithmetic \cup MSlash \cup FloatWords \cup CommonWords

DataWord ==
  /\ Opcode
  /\ \E effect \in DataEffects :
       /\ GlobalSp + effect[1] \in DDepth /\ GlobalTp + effect[2] \in DDepth
       /\ GlobalSp' = GlobalSp + effect[1] /\ GlobalTp' = GlobalTp + effect[2]
       /\ IF effect[3] = "ok" THEN Proceed ELSE Raise(effect[3])
  /\ UNCHANGED <<returnVars, GlobalIp>>

-----------------------------------------------------------------------------
(* Opcodes on the return stack *)

(* >R: the cell and its tag are whatever the program had on top. *)
L_push_r ==
  /\ Opcode /\ Pop(1)
  /\ \E item \in Items : PushReturn(item[1], item[2], NoLink)
  /\ Proceed /\ UNCHANGED GlobalIp

L_twopush_r ==
  /\ Opcode /\ Pop(2)
  /\ GlobalRp + 2 \in RIndex /\ GlobalRtp + 2 \in RIndex
  /\ GlobalRp' = GlobalRp + 2 /\ GlobalRtp' = GlobalRtp + 2
  /\ \E a, b \in Items :
       /\ rcell' = [rcell EXCEPT ![GlobalRp + 1] = a[2], ![GlobalRp + 2] = b[2]]
       /\ rtag' = [rtag EXCEPT ![GlobalRtp + 1] = a[1], ![GlobalRtp + 2] = b[1]]
  /\ link' = [link EXCEPT ![GlobalRp + 1] = NoLink, ![GlobalRp + 2] = NoLink]
  /\ Proceed /\ UNCHANGED <<GlobalIp, honest>>

L_pop_r ==
  /\ Opcode /\ Push(1) /\ PopReturn(1)
  /\ honest' = (honest /\ MayTake(1))
  /\ Proceed /\ UNCHANGED GlobalIp

L_twopop_r ==
  /\ Opcode /\ Push(2) /\ PopReturn(2)
  /\ honest' = (honest /\ MayTake(2))
  /\ Proceed /\ UNCHANGED GlobalIp

(* The last of the three opcodes DO compiles, after >R of limit and index. *)
L_puship ==
  /\ Opcode
  /\ PushReturn("addr", GlobalIp, [use |-> "loop", ip |-> GlobalIp])
  /\ Proceed /\ UNCHANGED <<dataVars, GlobalIp>>

(* The three cells of a loop on top, the start address the topmost.        *)
LoopOnTop ==
  /\ IsLinked(GlobalRp) /\ link[GlobalRp].use = "loop"
  /\ ~IsLinked(GlobalRp - 1) /\ ~IsLinked(GlobalRp - 2)
  /\ GlobalRp - 3 >= vmEntryRp

LeaveLoop ==
  /\ PopReturn(3)
  /\ honest' = (honest /\ LoopOnTop)
  /\ Proceed /\ UNCHANGED GlobalIp

NextIteration ==
  /\ GlobalRp \in RIndex /\ JumpTo(rcell[GlobalRp])
  /\ honest' = (honest /\ LoopOnTop)
  /\ UNCHANGED <<GlobalRp, GlobalRtp, rcell, rtag, link>>

TopTag == rtag[GlobalRtp]

L_loop ==
  /\ Opcode /\ GlobalRtp \in RIndex
  /\ \/ TopTag = "addr" /\ (NextIteration \/ LeaveLoop)
     \/ /\ TopTag # "addr" /\ Raise("retcorrupt")
        /\ honest' = (honest /\ LoopOnTop)
        /\ UNCHANGED <<GlobalRp, GlobalRtp, rcell, rtag, link, GlobalIp>>
  /\ UNCHANGED dataVars

(* +LOOP saves ebp on the C stack before it tests the tag, so the ret of   *)
(* its error exit jumps to the saved instruction pointer, not to vm().     *)
L_plusloop ==
  /\ Opcode /\ GlobalRtp \in RIndex
  /\ \/ TopTag = "addr" /\ Pop(1) /\ (NextIteration \/ LeaveLoop)
     \/ /\ TopTag # "addr" /\ mode' = "wild"
        /\ honest' = (honest /\ LoopOnTop)
        /\ UNCHANGED <<dataVars, GlobalRp, GlobalRtp, rcell, rtag, link, GlobalIp,
                       vmEntryRp, act, ecode>>

L_unloop ==
  /\ Opcode /\ LeaveLoop /\ UNCHANGED dataVars

CPP_rpstore ==
  /\ Opcode /\ Pop(1)
  /\ \/ \E n \in 0 .. MaxReturn :
           /\ GlobalRp' = n /\ GlobalRtp' = n
           /\ honest' = (honest /\ MayTake(GlobalRp - n))
           /\ link' = Unlinked(n)
           /\ Proceed /\ UNCHANGED <<rcell, rtag>>
     \/ \E e \in {"notaddr", "badstackaddr"} : Raise(e) /\ UNCHANGED returnVars
  /\ UNCHANGED GlobalIp

CPP_spstore ==
  /\ Opcode
  /\ \/ \E n \in 0 .. MaxData : GlobalSp' = n /\ GlobalTp' = n /\ Proceed
     \/ \E e \in {"notaddr", "badstackaddr"} : Pop(1) /\ Raise(e)
  /\ UNCHANGED <<returnVars, GlobalIp>>

-----------------------------------------------------------------------------
(* Calls, returns and jumps *)

Call ==
  /\ PushReturn("addr", GlobalIp, [use |-> "ret", ip |-> GlobalIp])
  /\ \E p \in Points : GlobalIp' = p
  /\ Proceed

L_definition == Opcode /\ Call /\ UNCHANGED dataVars

(* EXECUTE, and EXECUTE-BC, which RECURSE compiles *)
L_execute == Opcode /\ Pop(1) /\ Call

(* Mutant: off by one, vm() is left with a definition still running.       *)
AtEntryTooSoon == GlobalRp <= vmEntryRp + 1

AtEntry == GlobalRp <= vmEntryRp

(* Mutant: the cell is read before the pointer has reached it. *)
ReturnAddressBelow ==
  IF GlobalRp - 1 \in RIndex THEN rcell[GlobalRp - 1] ELSE Data

ReturnAddress == rcell[GlobalRp]

(* With the return stack at vmEntryRp, or past it, L_ret ends the vm();    *)
(* otherwise it takes the top cell, which must be tagged as an address.    *)
L_ret ==
  /\ Opcode
  /\ \/ AtEntry /\ Raise("ok") /\ UNCHANGED <<returnVars, GlobalIp>>
     \/ /\ ~AtEntry
        /\ PopReturn(1)
        /\ honest' = (honest /\ IsLinked(GlobalRp) /\ link[GlobalRp].use = "ret")
        /\ \/ TopTag # "addr" /\ Raise("retcorrupt") /\ UNCHANGED GlobalIp
           \/ TopTag = "addr" /\ JumpTo(ReturnAddress)
  /\ UNCHANGED dataVars

(* JZ, which pops its flag, and JMP *)
L_jz  == Opcode /\ Pop(1) /\ GlobalIp' \in Points /\ Proceed /\ UNCHANGED returnVars
L_jmp ==
  /\ Opcode /\ GlobalIp' \in Points
  /\ Proceed /\ UNCHANGED <<dataVars, returnVars>>

-----------------------------------------------------------------------------
(* Leaving the machine *)

(* Mutant: the type stack's pointer is forgotten. *)
ClearReturnNotItsTags ==
  /\ GlobalRp' = 0 /\ UNCHANGED <<GlobalRtp, rcell, rtag, link, honest>>

ClearReturn ==
  /\ GlobalRp' = 0 /\ GlobalRtp' = 0
  /\ UNCHANGED <<rcell, rtag, link, honest>>

L_quit ==
  /\ Opcode /\ ClearReturn /\ vmEntryRp' = 0
  /\ mode' = "exit" /\ ecode' = "quit"
  /\ UNCHANGED <<dataVars, GlobalIp, act>>

L_abort ==
  /\ Opcode /\ ClearReturn /\ vmEntryRp' = 0
  /\ GlobalSp' = 0 /\ GlobalTp' = 0
  /\ mode' = "exit" /\ ecode' = "quit"
  /\ UNCHANGED <<GlobalIp, act>>

(* Mutant: the return stack is only reset on the codes that call L_abort.  *)
EmptiesReturnOnAbort(failed, aborted) == aborted

EmptiesReturn(failed, aborted) == failed \/ aborted

(* vm() restores vmEntryRp and GlobalIp from the C stack as it returns.    *)
(* ForthVM() then empties the return stack on an error, and looks for      *)
(* underflow only when there was none.                                     *)
ForthVM ==
  /\ mode = "exit" /\ Top.kind = "forthvm"
  /\ LET failed  == ecode # "ok"
         found   == IF GlobalSp < 0 THEN "underflow"
                    ELSE IF GlobalRp < 0 THEN "retcorrupt" ELSE "ok"
         code    == IF failed THEN ecode ELSE found
         aborted == code \in {"underflow", "retcorrupt"}
     IN  /\ ecode' = code
         /\ GlobalSp' = IF aborted THEN 0 ELSE GlobalSp
         /\ GlobalTp' = IF aborted THEN 0 ELSE GlobalTp
         /\ GlobalRp' = IF EmptiesReturn(failed, aborted) THEN 0 ELSE GlobalRp
         /\ GlobalRtp' = IF EmptiesReturn(failed, aborted) THEN 0 ELSE GlobalRtp
         /\ vmEntryRp' = IF aborted THEN 0 ELSE Top.entryRp
  /\ mode' = "host" /\ act' = Callers /\ GlobalIp' = Top.ip
  /\ link' = Unlinked(Top.base) /\ UNCHANGED <<rcell, rtag, honest>>

-----------------------------------------------------------------------------
(* The C++ code above the machine: main() or a nested ForthCompiler()      *)

(* vm() takes the return stack pointer as its own bottom. *)
EntryDepth == GlobalRp'

Enter(kind, sp, tp, rp, rtp, stack) ==
  /\ Len(act) < MaxNest
  /\ act' = Append(act, [kind |-> kind, ip |-> GlobalIp, entryRp |-> vmEntryRp,
                         base |-> GlobalRp', mode |-> mode, ecode |-> ecode,
                         sp |-> sp, tp |-> tp, rp |-> rp, rtp |-> rtp,
                         stack |-> stack])
  /\ vmEntryRp' = EntryDepth
  /\ GlobalIp' \in Points
  /\ mode' = "vm" /\ ecode' = "ok"

(* The compiler hands a vector of opcodes to ForthVM(), which calls vm().  *)
RunOps ==
  /\ mode = "host" /\ ecode = "ok"
  /\ UNCHANGED <<dataVars, returnVars>>
  /\ Enter("forthvm", 0, 0, 0, 0, <<>>)

(* The compiler meets a word it does not know, or an unbalanced structure. *)
CompileError ==
  /\ mode = "host" /\ ecode = "ok" /\ ecode' = "compiler"
  /\ UNCHANGED <<dataVars, returnVars, GlobalIp, vmEntryRp, act, mode>>

(* main() prints the error, if any, and reads the next line.               *)
NextLine ==
  /\ mode = "host" /\ act = <<>> /\ ecode # "ok" /\ ecode' = "ok"
  /\ UNCHANGED <<dataVars, returnVars, GlobalIp, vmEntryRp, act, mode>>

(* EVALUATE and INCLUDED pop their string and call ForthCompiler() ...     *)
CPP_evaluate ==
  /\ Opcode /\ Pop(2) /\ mode' = "host"
  /\ UNCHANGED <<returnVars, GlobalIp, vmEntryRp, act, ecode>>

(* Mutant: EVALUATE drops the compiler's error. *)
EvaluateForgets ==
  /\ mode = "host" /\ act # <<>> /\ mode' = "vm" /\ ecode' = "ok"
  /\ UNCHANGED <<dataVars, returnVars, GlobalIp, vmEntryRp, act>>

(* Mutant: EVALUATE stores the error and lets the vm() run on. *)
EvaluateRunsOn ==
  /\ mode = "host" /\ act # <<>> /\ mode' = "vm"
  /\ UNCHANGED <<dataVars, returnVars, GlobalIp, vmEntryRp, act, ecode>>

(* ... and return its code, an error ending the vm() they were called in.  *)
EvaluateReturns ==
  /\ mode = "host" /\ act # <<>>
  /\ mode' = IF ecode = "ok" THEN "vm" ELSE "exit"
  /\ UNCHANGED <<dataVars, returnVars, GlobalIp, vmEntryRp, act, ecode>>

-----------------------------------------------------------------------------
(* TRAVERSE-WORDLIST calls vm() itself, once per word, and goes on while   *)
(* the flag the callback leaves is not zero, whatever vm() returned.       *)

CPP_traverse_wordlist ==
  /\ "traverse" \in Callbacks /\ Opcode
  /\ \/ \E n \in {1, 2} : Pop(n) /\ Raise("notaddr") /\ UNCHANGED <<returnVars, GlobalIp>>
     \/ Pop(2) /\ Proceed /\ UNCHANGED <<returnVars, GlobalIp>>   \* empty wordlist
     \/ Pop(1) /\ UNCHANGED returnVars /\ Enter("traverse", 0, 0, 0, 0, <<>>)

TraverseCallbackReturns ==
  /\ mode = "exit" /\ Top.kind = "traverse"
  /\ mode' = "traverse" /\ act' = Callers
  /\ GlobalIp' = Top.ip /\ vmEntryRp' = Top.entryRp
  /\ link' = Unlinked(Top.base) /\ honest' = (honest /\ ecode = "ok")
  /\ UNCHANGED <<dataVars, GlobalRp, GlobalRtp, rcell, rtag, ecode>>

(* The flag is dropped; zero, or the last word, ends the traversal with    *)
(* the last vm() code, anything else visits the next word.                 *)
TraverseNext ==
  /\ mode = "traverse"
  /\ \/ /\ UNCHANGED <<dataVars, returnVars>>   \* pop the flag, push the next nt
        /\ Enter("traverse", 0, 0, 0, 0, <<>>)
     \/ /\ Pop(1) /\ mode' = IF ecode = "ok" THEN "vm" ELSE "exit"
        /\ UNCHANGED <<returnVars, GlobalIp, vmEntryRp, act, ecode>>

-----------------------------------------------------------------------------
(* A signal handler moves all four pointers SignalOffset cells up, pushes  *)
(* the signal number, runs the Forth handler and puts the pointers back,   *)
(* whatever vm() returned.  It interrupts C++ code as well as opcodes.     *)

(* What the interrupted program had on the return stack, with its tags.    *)
Snapshot ==
  <<[i \in RIndex |-> IF i <= GlobalRp THEN rcell[i] ELSE Data],
    [i \in RIndex |-> IF i <= GlobalRp THEN rtag[i] ELSE "ival"]>>

(* Mutant: the offset moves the pointers down the stack. *)
HandlerDepthDown(depth) == depth - SignalOffset

HandlerDepth(depth) == depth + SignalOffset

forth_signal_handler ==
  /\ MaySignal /\ mode \in {"host", "vm", "exit", "traverse"}
  /\ HandlerDepth(GlobalSp) + 1 \in DDepth /\ HandlerDepth(GlobalTp) + 1 \in DDepth
  /\ HandlerDepth(GlobalRp) \in RDepth /\ HandlerDepth(GlobalRtp) \in RDepth
  /\ GlobalSp' = HandlerDepth(GlobalSp) + 1 /\ GlobalTp' = HandlerDepth(GlobalTp) + 1
  /\ GlobalRp' = HandlerDepth(GlobalRp) /\ GlobalRtp' = HandlerDepth(GlobalRtp)
  /\ UNCHANGED <<rcell, rtag, link, honest>>
  /\ Enter("signal", GlobalSp, GlobalTp, GlobalRp, GlobalRtp, Snapshot)

SignalReturns ==
  /\ mode = "exit" /\ Top.kind = "signal"
  /\ GlobalSp' = Top.sp /\ GlobalTp' = Top.tp
  /\ GlobalRp' = Top.rp /\ GlobalRtp' = Top.rtp
  /\ GlobalIp' = Top.ip /\ vmEntryRp' = Top.entryRp /\ act' = Callers
  /\ mode' = Top.mode /\ ecode' = Top.ecode
  /\ link' = Unlinked(Top.base) /\ UNCHANGED <<rcell, rtag, honest>>

-----------------------------------------------------------------------------
Init ==
  /\ GlobalSp = 0 /\ GlobalTp = 0 /\ GlobalRp = 0 /\ GlobalRtp = 0
  /\ rcell = [i \in RIndex |-> Data] /\ rtag = [i \in RIndex |-> "ival"]
  /\ GlobalIp \in Points /\ vmEntryRp = 0
  /\ act = <<>> /\ mode = "host" /\ ecode = "ok"
  /\ link = [i \in RIndex |-> NoLink] /\ honest = TRUE

Opcodes ==
  \/ DataWord \/ L_push_r \/ L_twopush_r \/ L_pop_r \/ L_twopop_r \/ L_puship
  \/ L_loop \/ L_plusloop \/ L_unloop \/ CPP_rpstore \/ CPP_spstore
  \/ L_definition \/ L_execute \/ L_ret \/ L_jz \/ L_jmp \/ L_quit \/ L_abort
  \/ CPP_evaluate \/ CPP_traverse_wordlist

Host == RunOps \/ CompileError \/ NextLine \/ EvaluateReturns \/ TraverseNext

Returns == ForthVM \/ TraverseCallbackReturns \/ SignalReturns

Next == Opcodes \/ Host \/ Returns \/ forth_signal_handler

Spec == Init /\ [][Next]_vars

(* One thread runs the machine, so as long as a step is possible one is    *)
(* taken: there is no assumption about which.                              *)
FairSpec == Spec /\ WF_vars(Next)

-----------------------------------------------------------------------------
(* Properties *)

TypeOK ==
  /\ GlobalSp \in DDepth /\ GlobalTp \in DDepth
  /\ GlobalRp \in RDepth /\ GlobalRtp \in RDepth
  /\ rcell \in [RIndex -> Cells] /\ rtag \in [RIndex -> Tags]
  /\ GlobalIp \in Points /\ vmEntryRp \in RDepth
  /\ act \in Seq(Activation) /\ Len(act) <= MaxNest
  /\ mode \in Modes /\ ecode \in Codes
  /\ link \in [RIndex -> Links] /\ honest \in BOOLEAN

AtPrompt == mode = "host" /\ act = <<>>

(* An error code is on its way up, or will be once a handler has returned. *)
Unwinding ==
  \/ ecode # "ok"
  \/ \E i \in 1 .. Len(act) : act[i].kind = "signal" /\ act[i].ecode # "ok"

(* Whatever the line did to the return stack, and whichever error ended    *)
(* it, main() gets an empty return stack and type stack back, and a        *)
(* vmEntryRp at their bottom.                                              *)
PromptIsClean ==
  AtPrompt => GlobalRp = 0 /\ GlobalRtp = 0 /\ vmEntryRp = 0

(* The return stack and its type stack never get out of step.              *)
ReturnPointersInStep == GlobalRtp = GlobalRp

(* While the program keeps the rules, every pending return address and     *)
(* loop start is where it was put, tagged as an address, through nested    *)
(* compilations, their errors and signal handlers.                         *)
LinksKept ==
  honest /\ ~Unwinding =>
    \A i \in RIndex : link[i] # NoLink =>
      i <= GlobalRp /\ rcell[i] = link[i].ip /\ rtag[i] = "addr"

(* vm() is left without an error only when every definition entered in it  *)
(* has returned and every loop has ended, with its caller's return stack   *)
(* as deep as it found it.                                                 *)
LeavesWhenDone ==
  honest /\ ~Unwinding /\ mode = "exit" =>
    GlobalRp = Top.base /\ \A i \in RIndex : i > Top.base => link[i] = NoLink

(* The machine never jumps to something that is no program.                *)
NoWildRun == honest /\ ~Unwinding => mode # "wild"

(* A handler that keeps the rules leaves the interrupted program's return  *)
(* stack as it found it, an error under way or not (vmc.c: the stack       *)
(* states are preserved).                                                  *)
HandlerKeepsStack ==
  honest /\ mode = "exit" /\ Top.kind = "signal" =>
    \A i \in RIndex : i <= Top.rp =>
      rcell[i] = Top.stack[1][i] /\ rtag[i] = Top.stack[2][i]

(* An error reported by an opcode is not lost before main() prints it.     *)
ErrorsReachMain == [][ecode # "ok" /\ ecode' = "ok" => AtPrompt]_vars

(* The data stack and its type stack come apart only in a step that        *)
(* reports a failed division.                                              *)
DriftOnlyOnDivision ==
  [][GlobalTp' - GlobalSp' # GlobalTp - GlobalSp =>
       ecode' = "divide" \/ GlobalTp' = GlobalSp']_vars

(* After an error the machine gets back to the prompt.                     *)
ErrorReachesPrompt == ecode # "ok" ~> AtPrompt

(* ForthVM.cpp: the pointers ForthVM() returns are those of the top item   *)
(* and of its type.                                                        *)
DataPointersInStep == mode = "host" => GlobalTp = GlobalSp

===============================================================================
