------------------------- MODULE VirtualMachineProofs -------------------------
(* Theorems about VirtualMachine, for every value of its constants.        *)
EXTENDS VirtualMachine, SequenceTheorems, TLAPS

(* The stacks' bounds include their bottom, and a depth within the bounds  *)
(* of the memory is an integer.                                            *)
LEMMA Depths ==
  /\ 0 \in RDepth /\ 0 \in DDepth
  /\ RDepth \subseteq Int /\ DDepth \subseteq Int /\ RIndex \subseteq RDepth
  /\ \A d \in RDepth : d > 0 => d \in RIndex
  BY ConstantsAssumption DEF RDepth, DDepth, RIndex

(* The topmost activation, and those below it.                             *)
LEMMA TopAndCallers ==
  ASSUME act \in Seq(Activation), act # <<>>
  PROVE  /\ Len(act) \in Nat /\ Len(act) >= 1
         /\ Top \in Activation
         /\ Callers \in Seq(Activation)
         /\ Len(Callers) = Len(act) - 1
         /\ \A i \in 1 .. Len(act) - 1 : Callers[i] = act[i]
<1>1. Len(act) \in Nat /\ Len(act) >= 1
  BY EmptySeq, LenProperties
<1>2. Top \in Activation
  BY <1>1, ElementOfSeq DEF Top
<1>3. \A i \in 1 .. Len(act) - 1 : act[i] \in Activation
  BY <1>1, ElementOfSeq
<1> DEFINE n == Len(act) - 1
<1>4. n \in Int /\ 1 \in Int /\ \A i \in 1 .. n : act[i] \in Activation
  BY <1>1, <1>3
<1> HIDE DEF n
<1>5. /\ SubSeq(act, 1, n) \in Seq(Activation)
      /\ Len(SubSeq(act, 1, n)) = IF 1 <= n THEN n - 1 + 1 ELSE 0
      /\ \A i \in 1 .. n - 1 + 1 : SubSeq(act, 1, n)[i] = act[1 + i - 1]
  BY <1>4, SubSeqProperties, Z3
<1>6. n >= 0
  BY <1>1 DEF n
<1>7. Callers = SubSeq(act, 1, n)
  BY DEF Callers, n
<1>8. Len(Callers) = n
  <2>1. (IF 1 <= n THEN n - 1 + 1 ELSE 0) = n
    BY <1>4, <1>6
  <2> QED BY <1>5, <1>7, <2>1, Zenon
<1>9. ASSUME NEW i \in 1 .. n
      PROVE  Callers[i] = act[i]
  <2>1. i \in 1 .. n - 1 + 1 /\ 1 + i - 1 = i
    BY <1>4
  <2> QED BY <1>5, <1>7, <2>1, Zenon
<1> QED BY <1>1, <1>2, <1>5, <1>7, <1>8, <1>9, Zenon DEF n

(* What Enter adds to the C stack.                                         *)
NewActivation(kind, sp, tp, rp, rtp, stack) ==
  [kind |-> kind, ip |-> GlobalIp, entryRp |-> vmEntryRp, base |-> GlobalRp',
   mode |-> mode, ecode |-> ecode, sp |-> sp, tp |-> tp, rp |-> rp,
   rtp |-> rtp, stack |-> stack]

(* vm() called from C or C++: one activation more, running.                *)
LEMMA EnterStep ==
  ASSUME TypeOK, GlobalRp' \in RDepth,
         NEW kind \in Kinds, NEW sp \in DDepth, NEW tp \in DDepth,
         NEW rp \in RDepth, NEW rtp \in RDepth,
         NEW stack \in ([RIndex -> Cells] \X [RIndex -> Tags]) \cup {<<>>},
         Enter(kind, sp, tp, rp, rtp, stack)
  PROVE  /\ NewActivation(kind, sp, tp, rp, rtp, stack) \in Activation
         /\ act' \in Seq(Activation) /\ act' # <<>>
         /\ Len(act) \in Nat /\ Len(act') = Len(act) + 1 /\ Len(act') <= MaxNest
         /\ \A i \in 1 .. Len(act) : act'[i] = act[i]
         /\ act'[Len(act) + 1] = NewActivation(kind, sp, tp, rp, rtp, stack)
         /\ vmEntryRp' = GlobalRp' /\ GlobalIp' \in Points
         /\ mode' = "vm" /\ ecode' = "ok"
<1> DEFINE new == NewActivation(kind, sp, tp, rp, rtp, stack)
<1>1. new \in Activation
  BY DEF TypeOK, NewActivation, Activation
<1>2. act \in Seq(Activation) /\ Len(act) \in Nat
  BY LenProperties DEF TypeOK
<1>3. act' = Append(act, new) /\ Len(act) < MaxNest
  BY DEF Enter, NewActivation
<1>4. /\ act' \in Seq(Activation) /\ act' # <<>> /\ Len(act') = Len(act) + 1
      /\ \A i \in 1 .. Len(act) : act'[i] = act[i]
      /\ act'[Len(act) + 1] = new
  BY <1>1, <1>2, <1>3, AppendProperties
<1>5. Len(act') <= MaxNest
  BY <1>2, <1>3, <1>4, ConstantsAssumption
<1> QED BY <1>1, <1>2, <1>4, <1>5 DEF Enter, EntryDepth

-----------------------------------------------------------------------------
(* Type correctness *)

(* Whoever needs a caller on the C stack has one: a running or returning   *)
(* vm(), a traversal, and a handler that interrupted either.               *)
CallersInv ==
  /\ mode # "host" => act # <<>>
  /\ \A i \in 1 .. Len(act) :
       act[i].kind = "traverse" \/ (act[i].kind = "signal" /\ act[i].mode # "host")
         => i > 1

LEMMA CallersInvStep ==
  ASSUME act \in Seq(Activation), act' \in Seq(Activation), CallersInv,
         \/ act' = act /\ (mode' # "host" => mode # "host" \/ act # <<>>)
         \/ act # <<>> /\ act' = Callers /\ mode' = "host"
  PROVE  CallersInv'
<1>1. CASE act' = act /\ (mode' # "host" => mode # "host" \/ act # <<>>)
  BY <1>1 DEF CallersInv
<1>2. CASE act # <<>> /\ act' = Callers /\ mode' = "host"
  BY <1>2, TopAndCallers DEF CallersInv
<1> QED BY <1>1, <1>2

(* The three parts of TypeOK, by who changes them.                         *)
DataOK == GlobalSp \in DDepth /\ GlobalTp \in DDepth
ReturnOK ==
  /\ GlobalRp \in RDepth /\ GlobalRtp \in RDepth
  /\ rcell \in [RIndex -> Cells] /\ rtag \in [RIndex -> Tags]
  /\ link \in [RIndex -> Links] /\ honest \in BOOLEAN
HostOK ==
  /\ GlobalIp \in Points /\ vmEntryRp \in RDepth
  /\ act \in Seq(Activation) /\ Len(act) <= MaxNest
  /\ mode \in Modes /\ ecode \in Codes

LEMMA TypeParts == TypeOK <=> DataOK /\ ReturnOK /\ HostOK
  BY DEF TypeOK, DataOK, ReturnOK, HostOK

LEMMA PushTyped ==
  ASSUME NEW n \in Int, Push(n) \/ Pop(n) \/ UNCHANGED dataVars, DataOK
  PROVE  DataOK'
  BY DEF Push, Pop, dataVars, DataOK

LEMMA UnlinkedTyped ==
  ASSUME ReturnOK, NEW d
  PROVE  Unlinked(d) \in [RIndex -> Links]
  BY DEF ReturnOK, Unlinked, Links

LEMMA PushReturnTyped ==
  ASSUME ReturnOK, NEW tag \in Tags, NEW cell \in Cells, NEW l \in Links,
         PushReturn(tag, cell, l)
  PROVE  ReturnOK'
  BY Depths DEF ReturnOK, PushReturn

LEMMA PopReturnTyped ==
  ASSUME ReturnOK, NEW n \in Nat, PopReturn(n), honest' \in BOOLEAN
  PROVE  ReturnOK'
  BY UnlinkedTyped DEF ReturnOK, PopReturn

(* Staying in vm(), leaving it with an error, or running off the program.  *)
LEMMA ControlTyped ==
  ASSUME HostOK, GlobalIp' \in Points,
         \/ Proceed
         \/ \E e \in Codes : Raise(e)
         \/ mode' = "wild" /\ UNCHANGED <<vmEntryRp, act, ecode>>
  PROVE  HostOK'
  BY DEF HostOK, Proceed, Raise, hostVars, Modes

LEMMA JumpTyped ==
  ASSUME HostOK, NEW cell \in Cells, JumpTo(cell)
  PROVE  HostOK'
  BY DEF HostOK, JumpTo, Proceed, hostVars, Modes, Cells

(* What the opcodes of the data stack may return, and that only a failed   *)
(* division moves the stack pointers apart.                                *)
LEMMA EffectCodes ==
  ASSUME NEW effect \in DataEffects
  PROVE  /\ effect[3] \in Codes
         /\ effect[3] # "divide" => effect[1] = effect[2]
<1>1. ASSUME NEW ns, NEW e \in Codes, effect \in Balanced(ns, e)
      PROVE  effect[3] = e /\ effect[1] = effect[2]
  BY <1>1 DEF Balanced
<1>2. CASE effect \in BlockMemory \cup ReturnStackReads \cup Literals
                      \cup LogicAndRelations
  BY <1>1, <1>2 DEF BlockMemory, ReturnStackReads, Literals,
     LogicAndRelations, Balanced, Codes
<1>3. CASE effect \in StackShuffles \cup MemoryAccess \cup Arithmetic
  BY <1>1, <1>3 DEF StackShuffles, MemoryAccess, Arithmetic, Balanced, Codes
<1>4. CASE effect \in UMSlashMod \cup MSlash
  BY <1>4 DEF UMSlashMod, MSlash, Codes
<1>5. CASE effect \in MixedArithmetic \cup FloatWords \cup CommonWords
  BY <1>1, <1>5 DEF MixedArithmetic, FloatWords, CommonWords, Balanced, Codes
<1> QED BY <1>2, <1>3, <1>4, <1>5 DEF DataEffects

LEMMA EffectTyped ==
  ASSUME NEW effect \in DataEffects
  PROVE  effect[1] \in Int /\ effect[2] \in Int
<1>1. ASSUME NEW ns \in SUBSET Int, NEW e, effect \in Balanced(ns, e)
      PROVE  effect[1] \in Int /\ effect[2] \in Int
  <2>1. PICK n \in ns : effect = <<n, n, e>>
    BY <1>1 DEF Balanced
  <2>2. n \in Int
    OBVIOUS
  <2> QED BY <2>1, <2>2
<1>2. CASE effect \in BlockMemory \cup ReturnStackReads \cup Literals
                      \cup LogicAndRelations
  BY <1>1, <1>2 DEF BlockMemory, ReturnStackReads, Literals,
     LogicAndRelations, Balanced
<1>3. CASE effect \in StackShuffles \cup MemoryAccess \cup Arithmetic
  BY <1>1, <1>3 DEF StackShuffles, MemoryAccess, Arithmetic, Balanced
<1>4. CASE effect \in UMSlashMod \cup MSlash
  BY <1>4 DEF UMSlashMod, MSlash
<1>5. CASE effect \in MixedArithmetic \cup FloatWords \cup CommonWords
  BY <1>1, <1>5 DEF MixedArithmetic, FloatWords, CommonWords, Balanced
<1> QED BY <1>2, <1>3, <1>4, <1>5 DEF DataEffects

(* No opcode but EVALUATE and TRAVERSE-WORDLIST touches the C stack.       *)
Opcodes1 ==
  \/ DataWord \/ L_push_r \/ L_twopush_r \/ L_pop_r \/ L_twopop_r \/ L_puship
  \/ L_loop \/ L_plusloop \/ L_unloop \/ CPP_rpstore \/ CPP_spstore
  \/ L_definition \/ L_execute \/ L_ret \/ L_jz \/ L_jmp \/ L_quit \/ L_abort

LEMMA OpcodeTyped ==
  ASSUME DataOK, ReturnOK, HostOK, Opcodes1
  PROVE  DataOK' /\ ReturnOK' /\ HostOK'
<1> USE Depths
<1>a. /\ Data \in Cells /\ Points \subseteq Cells
      /\ {"addr", "ival"} = Tags /\ NoLink \in Links
      /\ \A item \in Items : item[1] \in Tags /\ item[2] \in Cells
  BY DEF Cells, Tags, Links, Items
<1>b. GlobalIp \in Points /\ GlobalIp \in Cells
      /\ \A u \in {"ret", "loop"} : [use |-> u, ip |-> GlobalIp] \in Links
  BY <1>a DEF HostOK, Links
<1>c. ASSUME UNCHANGED returnVars PROVE ReturnOK'
  BY <1>c DEF ReturnOK, returnVars
<1>d. UNCHANGED GlobalIp => GlobalIp' \in Points
  BY DEF HostOK
<1>1. CASE DataWord
  <2>1. PICK effect \in DataEffects :
          /\ DataOK'
          /\ IF effect[3] = "ok" THEN Proceed ELSE Raise(effect[3])
    BY <1>1 DEF DataWord, DataOK
  <2>2. HostOK'
    BY <1>1, <1>d, <2>1, EffectCodes, ControlTyped DEF DataWord
  <2> QED BY <1>1, <1>c, <2>1, <2>2 DEF DataWord
<1>2. CASE L_push_r
  BY <1>2, <1>a, <1>d, PushTyped, PushReturnTyped, ControlTyped DEF L_push_r
<1>3. CASE L_twopush_r
  <2>1. ReturnOK'
    BY <1>3, <1>a DEF L_twopush_r, ReturnOK
  <2> QED BY <1>3, <1>d, <2>1, PushTyped, ControlTyped DEF L_twopush_r
<1>4. CASE L_pop_r
  BY <1>4, <1>d, PushTyped, PopReturnTyped, ControlTyped DEF L_pop_r
<1>5. CASE L_twopop_r
  BY <1>5, <1>d, PushTyped, PopReturnTyped, ControlTyped DEF L_twopop_r
<1>6. CASE L_puship
  BY <1>6, <1>a, <1>b, <1>d, PushTyped, PushReturnTyped, ControlTyped DEF L_puship
<1>l. ASSUME LeaveLoop PROVE ReturnOK' /\ HostOK'
  BY <1>l, <1>d, PopReturnTyped, ControlTyped DEF LeaveLoop
<1>n. ASSUME NextIteration PROVE ReturnOK' /\ HostOK'
  <2>1. rcell[GlobalRp] \in Cells
    BY <1>n DEF NextIteration, ReturnOK
  <2>2. HostOK'
    BY <1>n, <2>1, JumpTyped DEF NextIteration
  <2> QED BY <1>n, <2>2 DEF NextIteration, ReturnOK
<1>7. CASE L_loop
  <2>1. CASE NextIteration \/ LeaveLoop
    BY <1>7, <1>l, <1>n, <2>1, PushTyped DEF L_loop
  <2>2. CASE ~(NextIteration \/ LeaveLoop)
    <3>1. Raise("retcorrupt") /\ honest' = (honest /\ LoopOnTop)
          /\ UNCHANGED <<GlobalRp, GlobalRtp, rcell, rtag, link, GlobalIp, dataVars>>
      BY <1>7, <2>2 DEF L_loop
    <3>2. HostOK'
      BY <1>d, <3>1, ControlTyped DEF Codes
    <3>3. ReturnOK'
      BY <3>1 DEF ReturnOK
    <3> QED BY <3>1, <3>2, <3>3 DEF DataOK, dataVars
  <2> QED BY <2>1, <2>2
<1>8. CASE L_plusloop
  <2>1. CASE NextIteration \/ LeaveLoop
    <3>1. DataOK'
      BY <1>8, <2>1, PushTyped DEF L_plusloop
    <3> QED BY <1>l, <1>n, <2>1, <3>1
  <2>2. CASE ~(NextIteration \/ LeaveLoop)
    <3>1. mode' = "wild" /\ honest' = (honest /\ LoopOnTop)
          /\ UNCHANGED <<GlobalRp, GlobalRtp, rcell, rtag, link, GlobalIp, dataVars,
                         vmEntryRp, act, ecode>>
      BY <1>8, <2>2 DEF L_plusloop
    <3>2. HostOK'
      BY <1>d, <3>1, ControlTyped
    <3>3. ReturnOK'
      BY <3>1 DEF ReturnOK
    <3> QED BY <3>1, <3>2, <3>3 DEF DataOK, dataVars
  <2> QED BY <2>1, <2>2
<1>9. CASE L_unloop
  BY <1>9, <1>l, PushTyped DEF L_unloop
<1>10. CASE CPP_rpstore
  <2>1. DataOK'
    BY <1>10, PushTyped DEF CPP_rpstore
  <2>2. CASE \E n \in 0 .. MaxReturn :
           /\ GlobalRp' = n /\ GlobalRtp' = n
           /\ honest' = (honest /\ MayTake(GlobalRp - n))
           /\ link' = Unlinked(n)
           /\ Proceed /\ UNCHANGED <<rcell, rtag>>
    <3>1. PICK n \in 0 .. MaxReturn :
           /\ GlobalRp' = n /\ GlobalRtp' = n
           /\ honest' = (honest /\ MayTake(GlobalRp - n))
           /\ link' = Unlinked(n)
           /\ Proceed /\ UNCHANGED <<rcell, rtag>>
      BY <2>2
    <3>2. n \in RDepth
      BY ConstantsAssumption DEF RDepth
    <3>3. ReturnOK'
      BY <3>1, <3>2, UnlinkedTyped DEF ReturnOK
    <3> QED BY <1>10, <1>d, <2>1, <3>1, <3>3, ControlTyped DEF CPP_rpstore
  <2>3. CASE \E e \in {"notaddr", "badstackaddr"} : Raise(e) /\ UNCHANGED returnVars
    BY <1>10, <1>c, <1>d, <2>1, <2>3, ControlTyped DEF CPP_rpstore, Codes
  <2> QED BY <1>10, <2>2, <2>3 DEF CPP_rpstore
<1>11. CASE CPP_spstore
  <2>1. ASSUME NEW n \in 0 .. MaxData PROVE n \in DDepth
    BY ConstantsAssumption DEF DDepth
  <2>2. DataOK'
    BY <1>11, <2>1, PushTyped DEF CPP_spstore, DataOK
  <2>3. HostOK'
    BY <1>11, <1>d, ControlTyped DEF CPP_spstore, Codes
  <2> QED BY <1>11, <1>c, <2>2, <2>3 DEF CPP_spstore
<1>k. ASSUME Call PROVE ReturnOK' /\ HostOK'
  BY <1>k, <1>a, <1>b, PushReturnTyped, ControlTyped DEF Call
<1>12. CASE L_definition
  BY <1>12, <1>k, PushTyped DEF L_definition
<1>13. CASE L_execute
  BY <1>13, <1>k, PushTyped DEF L_execute
<1>14. CASE L_ret
  <2>1. CASE AtEntry /\ Raise("ok") /\ UNCHANGED <<returnVars, GlobalIp>>
    BY <1>14, <1>c, <1>d, <2>1, PushTyped, ControlTyped DEF L_ret, Codes
  <2>2. CASE ~(AtEntry /\ Raise("ok") /\ UNCHANGED <<returnVars, GlobalIp>>)
    <3>1. /\ ~AtEntry /\ PopReturn(1) /\ honest' \in BOOLEAN
          /\ \/ Raise("retcorrupt") /\ UNCHANGED GlobalIp
             \/ JumpTo(rcell[GlobalRp])
      BY <1>14, <2>2 DEF L_ret, ReturnAddress
    <3>2. ReturnOK'
      BY <3>1, PopReturnTyped
    <3>3. rcell[GlobalRp] \in Cells
      <4>1. GlobalRp \in RDepth /\ vmEntryRp \in RDepth /\ GlobalRp > vmEntryRp
        BY <3>1 DEF ReturnOK, HostOK, AtEntry, RDepth
      <4>2. GlobalRp \in RIndex
        BY <4>1, ConstantsAssumption DEF RDepth, RIndex
      <4> QED BY <4>2 DEF ReturnOK
    <3>4. HostOK'
      BY <1>d, <3>1, <3>3, ControlTyped, JumpTyped DEF Codes
    <3> QED BY <1>14, <3>2, <3>4, PushTyped DEF L_ret
  <2> QED BY <2>1, <2>2
<1>15. CASE L_jz
  BY <1>15, <1>c, PushTyped, ControlTyped DEF L_jz
<1>16. CASE L_jmp
  BY <1>16, <1>c, PushTyped, ControlTyped DEF L_jmp
<1>17. CASE L_quit
  BY <1>17 DEF L_quit, ClearReturn, dataVars, DataOK, ReturnOK, HostOK, Modes, Codes
<1>18. CASE L_abort
  BY <1>18 DEF L_abort, ClearReturn, DataOK, ReturnOK, HostOK, Modes, Codes
<1> QED
  BY <1>1, <1>2, <1>3, <1>4, <1>5, <1>6, <1>7, <1>8, <1>9, <1>10, <1>11, <1>12,
     <1>13, <1>14, <1>15, <1>16, <1>17, <1>18 DEF Opcodes1

(* The steps of C and C++ code, TRAVERSE-WORDLIST and EVALUATE among them. *)
LEMMA HostTyped ==
  ASSUME DataOK, ReturnOK, HostOK, CallersInv,
         \/ RunOps \/ CompileError \/ NextLine \/ CPP_evaluate \/ EvaluateReturns
         \/ CPP_traverse_wordlist \/ TraverseNext \/ forth_signal_handler
  PROVE  DataOK' /\ ReturnOK' /\ HostOK' /\ CallersInv'
<1> USE Depths
<1>c. ASSUME UNCHANGED returnVars PROVE ReturnOK' /\ GlobalRp' \in RDepth
  BY <1>c DEF ReturnOK, returnVars
<1>d. UNCHANGED GlobalIp => GlobalIp' \in Points
  BY DEF HostOK
<1>e. ASSUME NEW kind \in Kinds, NEW sp \in DDepth, NEW tp \in DDepth,
             NEW rp \in RDepth, NEW rtp \in RDepth,
             NEW stack \in ([RIndex -> Cells] \X [RIndex -> Tags]) \cup {<<>>},
             GlobalRp' \in RDepth, Enter(kind, sp, tp, rp, rtp, stack),
             kind = "traverse" \/ (kind = "signal" /\ mode # "host") => act # <<>>
      PROVE  HostOK' /\ CallersInv'
  <2>1. TypeOK
    BY TypeParts
  <2>2. /\ act' \in Seq(Activation) /\ act' # <<>>
        /\ Len(act) \in Nat /\ Len(act') = Len(act) + 1 /\ Len(act') <= MaxNest
        /\ \A i \in 1 .. Len(act) : act'[i] = act[i]
        /\ act'[Len(act) + 1] = NewActivation(kind, sp, tp, rp, rtp, stack)
        /\ vmEntryRp' = GlobalRp' /\ GlobalIp' \in Points
        /\ mode' = "vm" /\ ecode' = "ok"
    BY <1>e, <2>1, EnterStep
  <2>3. HostOK'
    BY <1>e, <2>2 DEF HostOK, Modes, Codes
  <2>4. act # <<>> => Len(act) >= 1
    BY TopAndCallers DEF HostOK
  <2>5. CallersInv'
    BY <1>e, <2>2, <2>4 DEF CallersInv, NewActivation
  <2> QED BY <2>3, <2>5
<1>n. <<>> \in ([RIndex -> Cells] \X [RIndex -> Tags]) \cup {<<>>}
      /\ {"forthvm", "traverse", "signal"} = Kinds
  BY DEF Kinds
<1>1. CASE RunOps
  BY <1>1, <1>c, <1>e, <1>n, PushTyped DEF RunOps
<1>2. CASE CompileError \/ NextLine
  BY <1>2, <1>c, PushTyped
     DEF CompileError, NextLine, HostOK, Codes, CallersInv
<1>3. CASE CPP_evaluate
  BY <1>3, <1>c, PushTyped DEF CPP_evaluate, HostOK, Modes, CallersInv
<1>4. CASE EvaluateReturns
  BY <1>4, <1>c, PushTyped DEF EvaluateReturns, HostOK, Modes, CallersInv
<1>5. CASE CPP_traverse_wordlist
  <2>1. CASE \E n \in {1, 2} : Pop(n) /\ Raise("notaddr") /\ UNCHANGED <<returnVars, GlobalIp>>
    <3>1. HostOK'
      BY <1>d, <2>1, ControlTyped DEF Codes
    <3>2. CallersInv'
      BY <1>5, <2>1 DEF CPP_traverse_wordlist, Opcode, CallersInv, Raise
    <3> QED BY <1>c, <2>1, <3>1, <3>2, PushTyped
  <2>2. CASE Pop(2) /\ Proceed /\ UNCHANGED <<returnVars, GlobalIp>>
    <3>1. HostOK'
      BY <1>d, <2>2, ControlTyped
    <3>2. CallersInv'
      BY <2>2 DEF CallersInv, Proceed, hostVars
    <3> QED BY <1>c, <2>2, <3>1, <3>2, PushTyped
  <2>3. CASE Pop(1) /\ UNCHANGED returnVars /\ Enter("traverse", 0, 0, 0, 0, <<>>)
    <3>1. act # <<>>
      BY <1>5 DEF CPP_traverse_wordlist, Opcode, CallersInv
    <3> QED BY <1>c, <1>e, <1>n, <2>3, <3>1, PushTyped
  <2> QED BY <1>5, <2>1, <2>2, <2>3 DEF CPP_traverse_wordlist
<1>6. CASE TraverseNext
  <2>1. act # <<>>
    BY <1>6 DEF TraverseNext, CallersInv
  <2>2. CASE UNCHANGED <<dataVars, returnVars>> /\ Enter("traverse", 0, 0, 0, 0, <<>>)
    BY <1>c, <1>e, <1>n, <2>1, <2>2, PushTyped
  <2>3. CASE /\ Pop(1) /\ mode' = IF ecode = "ok" THEN "vm" ELSE "exit"
             /\ UNCHANGED <<returnVars, GlobalIp, vmEntryRp, act, ecode>>
    BY <1>c, <2>1, <2>3, PushTyped DEF HostOK, Modes, CallersInv
  <2> QED BY <1>6, <2>2, <2>3 DEF TraverseNext
<1>7. CASE forth_signal_handler
  <2>1. DataOK' /\ ReturnOK' /\ GlobalRp' \in RDepth
    BY <1>7 DEF forth_signal_handler, DataOK, ReturnOK
  <2>2. Snapshot \in ([RIndex -> Cells] \X [RIndex -> Tags]) \cup {<<>>}
    BY DEF Snapshot, ReturnOK, Cells, Tags
  <2>3. mode # "host" => act # <<>>
    BY DEF CallersInv
  <2>4. HostOK' /\ CallersInv'
    BY <1>7, <1>e, <1>n, <2>1, <2>2, <2>3 DEF forth_signal_handler, DataOK, ReturnOK
  <2> QED BY <2>1, <2>4
<1> QED BY <1>1, <1>2, <1>3, <1>4, <1>5, <1>6, <1>7

(* The return from a vm().                                                 *)
LEMMA ReturnTyped ==
  ASSUME DataOK, ReturnOK, HostOK, CallersInv, Returns
  PROVE  DataOK' /\ ReturnOK' /\ HostOK' /\ CallersInv'
<1> USE Depths
<1>a. act # <<>>
  BY DEF Returns, ForthVM, TraverseCallbackReturns, SignalReturns, CallersInv
<1>b. /\ Len(act) \in Nat /\ Len(act) >= 1
      /\ Top \in Activation
      /\ Callers \in Seq(Activation)
      /\ Len(Callers) = Len(act) - 1
      /\ \A i \in 1 .. Len(act) - 1 : Callers[i] = act[i]
  BY <1>a, TopAndCallers DEF HostOK
<1>c. act' = Callers /\ GlobalIp' = Top.ip
  BY DEF Returns, ForthVM, TraverseCallbackReturns, SignalReturns
<1>d. /\ Top.ip \in Points /\ Top.entryRp \in RDepth /\ Top.mode \in Modes
      /\ Top.ecode \in Codes /\ Top.sp \in DDepth /\ Top.tp \in DDepth
      /\ Top.rp \in RDepth /\ Top.rtp \in RDepth
  BY <1>b DEF Activation
<1>e. Len(Callers) <= MaxNest
  BY <1>b, ConstantsAssumption DEF HostOK
<1>f. Unlinked(Top.base) \in [RIndex -> Links]
  BY UnlinkedTyped
<1>g. \A i \in 1 .. Len(Callers) :
        Callers[i].kind = "traverse" \/ (Callers[i].kind = "signal" /\ Callers[i].mode # "host")
          => i > 1
  BY <1>b DEF CallersInv
<1>h. Len(Callers) >= 1 => Callers # <<>>
  BY <1>b, EmptySeq
<1>1. CASE ForthVM
  <2>1. DataOK' /\ ReturnOK'
    BY <1>1, <1>f DEF ForthVM, DataOK, ReturnOK
  <2>2. vmEntryRp' \in RDepth /\ mode' = "host" /\ ecode' \in Codes
    BY <1>1, <1>d DEF ForthVM, HostOK, Codes
  <2>3. HostOK'
    BY <1>b, <1>c, <1>d, <1>e, <2>2 DEF HostOK, Modes
  <2> QED BY <1>c, <1>g, <2>1, <2>2, <2>3 DEF CallersInv
<1>2. CASE TraverseCallbackReturns
  <2>1. DataOK' /\ ReturnOK'
    BY <1>2, <1>f DEF TraverseCallbackReturns, DataOK, ReturnOK, dataVars
  <2>2. vmEntryRp' \in RDepth /\ mode' = "traverse" /\ ecode' \in Codes
    BY <1>2, <1>d DEF TraverseCallbackReturns, HostOK
  <2>3. HostOK'
    BY <1>b, <1>c, <1>d, <1>e, <2>2 DEF HostOK, Modes
  <2>4. Len(act) > 1
    BY <1>2, <1>b DEF TraverseCallbackReturns, CallersInv, Top
  <2> QED BY <1>b, <1>c, <1>g, <1>h, <2>1, <2>2, <2>3, <2>4 DEF CallersInv
<1>3. CASE SignalReturns
  <2>1. DataOK' /\ ReturnOK'
    BY <1>3, <1>d, <1>f DEF SignalReturns, DataOK, ReturnOK
  <2>2. vmEntryRp' \in RDepth /\ mode' = Top.mode /\ ecode' \in Codes
    BY <1>3, <1>d DEF SignalReturns, HostOK
  <2>3. HostOK'
    BY <1>b, <1>c, <1>d, <1>e, <2>2 DEF HostOK, Modes
  <2>4. Top.mode # "host" => Len(act) > 1
    BY <1>3, <1>b DEF SignalReturns, CallersInv, Top
  <2> QED BY <1>b, <1>c, <1>g, <1>h, <2>1, <2>2, <2>3, <2>4 DEF CallersInv
<1> QED BY <1>1, <1>2, <1>3 DEF Returns

TypeInv == TypeOK /\ CallersInv

LEMMA TypeInit == Init => TypeInv
<1> SUFFICES ASSUME Init PROVE TypeInv
  OBVIOUS
<1>1. /\ GlobalSp \in DDepth /\ GlobalTp \in DDepth
      /\ GlobalRp \in RDepth /\ GlobalRtp \in RDepth /\ vmEntryRp \in RDepth
  BY Depths DEF Init
<1>2. /\ rcell \in [RIndex -> Cells] /\ rtag \in [RIndex -> Tags]
      /\ link \in [RIndex -> Links] /\ honest \in BOOLEAN
  BY DEF Init, Cells, Tags, Links
<1>3. act \in Seq(Activation) /\ Len(act) = 0
  BY EmptySeq DEF Init
<1>4. Len(act) <= MaxNest
  BY <1>3, ConstantsAssumption
<1>5. GlobalIp \in Points /\ mode \in Modes /\ ecode \in Codes
  BY DEF Init, Modes, Codes
<1>6. CallersInv
  BY <1>3 DEF Init, CallersInv
<1> QED BY <1>1, <1>2, <1>3, <1>4, <1>5, <1>6 DEF TypeInv, TypeOK

LEMMA TypeStep == TypeInv /\ [Next]_vars => TypeInv'
<1> SUFFICES ASSUME TypeInv, [Next]_vars PROVE TypeInv'
  OBVIOUS
<1>1. DataOK /\ ReturnOK /\ HostOK /\ CallersInv
  BY TypeParts DEF TypeInv
<1>2. DataOK' /\ ReturnOK' /\ HostOK' => TypeOK'
  BY DEF TypeOK, DataOK, ReturnOK, HostOK
<1>3. CASE Opcodes1
  <2>1. DataOK' /\ ReturnOK' /\ HostOK'
    BY <1>1, <1>3, OpcodeTyped
  <2>2. UNCHANGED act
    BY <1>3 DEF Opcodes1, DataWord, L_push_r, L_twopush_r, L_pop_r, L_twopop_r,
       L_puship, L_loop, L_plusloop, L_unloop, CPP_rpstore, CPP_spstore,
       L_definition, L_execute, L_ret, L_jz, L_jmp, L_quit, L_abort, LeaveLoop,
       NextIteration, JumpTo, Call, Proceed, Raise, hostVars
  <2>3. Opcode
    BY <1>3 DEF Opcodes1, DataWord, L_push_r, L_twopush_r, L_pop_r, L_twopop_r,
       L_puship, L_loop, L_plusloop, L_unloop, CPP_rpstore, CPP_spstore,
       L_definition, L_execute, L_ret, L_jz, L_jmp, L_quit, L_abort
  <2>4. CallersInv'
    BY <1>1, <2>2, <2>3 DEF Opcode, CallersInv
  <2> QED BY <1>2, <2>1, <2>4 DEF TypeInv
<1>4. CASE \/ RunOps \/ CompileError \/ NextLine \/ CPP_evaluate \/ EvaluateReturns
           \/ CPP_traverse_wordlist \/ TraverseNext \/ forth_signal_handler
  BY <1>1, <1>2, <1>4, HostTyped DEF TypeInv
<1>5. CASE Returns
  BY <1>1, <1>2, <1>5, ReturnTyped DEF TypeInv
<1>6. CASE UNCHANGED vars
  BY <1>6 DEF TypeInv, TypeOK, CallersInv, vars
<1> QED BY <1>3, <1>4, <1>5, <1>6 DEF Next, Opcodes, Opcodes1, Host

(* Every reachable state of the machine is one the types describe: the     *)
(* depths stay in the memory, and a vm() that runs or returns has the      *)
(* caller it needs on the C stack.                                         *)
THEOREM TypeCorrect == Spec => [](TypeOK /\ CallersInv)
<1>1. Init => TypeInv
  BY TypeInit
<1>2. TypeInv /\ [Next]_vars => TypeInv'
  BY TypeStep
<1> QED BY <1>1, <1>2, PTL DEF Spec, TypeInv

-----------------------------------------------------------------------------
(* The return stack and its type stack *)

(* ReturnPointersInStep does not survive a signal handler's return on its  *)
(* own: the pointers the handler saved must have been in step as well.     *)
InStepInv ==
  /\ ReturnPointersInStep
  /\ \A i \in 1 .. Len(act) : act[i].rp = act[i].rtp

LEMMA InStepStep == TypeInv /\ InStepInv /\ [Next]_vars => InStepInv'
<1> SUFFICES ASSUME TypeInv, InStepInv, [Next]_vars PROVE InStepInv'
  OBVIOUS
<1> USE DEF ReturnPointersInStep
<1>1. CASE Opcodes1
  <2>1. UNCHANGED act
    BY <1>1 DEF Opcodes1, DataWord, L_push_r, L_twopush_r, L_pop_r, L_twopop_r,
       L_puship, L_loop, L_plusloop, L_unloop, CPP_rpstore, CPP_spstore,
       L_definition, L_execute, L_ret, L_jz, L_jmp, L_quit, L_abort, LeaveLoop,
       NextIteration, JumpTo, Call, Proceed, Raise, hostVars
  <2>2. ReturnPointersInStep'
    BY <1>1 DEF InStepInv, Opcodes1, DataWord, L_push_r, L_twopush_r, L_pop_r,
       L_twopop_r, L_puship, L_loop, L_plusloop, L_unloop, CPP_rpstore,
       CPP_spstore, L_definition, L_execute, L_ret, L_jz, L_jmp, L_quit, L_abort,
       LeaveLoop, NextIteration, Call, PushReturn, PopReturn, ClearReturn,
       returnVars
  <2> QED BY <2>1, <2>2 DEF InStepInv
<1>e. ASSUME NEW kind \in Kinds, NEW sp \in DDepth, NEW tp \in DDepth,
             NEW rp \in RDepth,
             NEW stack \in ([RIndex -> Cells] \X [RIndex -> Tags]) \cup {<<>>},
             GlobalRp' \in RDepth, GlobalRp' = GlobalRtp',
             Enter(kind, sp, tp, rp, rp, stack)
      PROVE  InStepInv'
  <2>1. /\ Len(act) \in Nat /\ Len(act') = Len(act) + 1
        /\ \A i \in 1 .. Len(act) : act'[i] = act[i]
        /\ act'[Len(act) + 1] = NewActivation(kind, sp, tp, rp, rp, stack)
    BY <1>e, EnterStep DEF TypeInv
  <2> QED BY <1>e, <2>1 DEF InStepInv, NewActivation
<1>k. ASSUME UNCHANGED returnVars
      PROVE  GlobalRp' \in RDepth /\ GlobalRp' = GlobalRtp'
  BY <1>k DEF returnVars, TypeInv, TypeOK, InStepInv
<1>t. ASSUME UNCHANGED returnVars, NEW kind \in Kinds, Enter(kind, 0, 0, 0, 0, <<>>)
      PROVE  InStepInv'
  BY <1>t, <1>e, <1>k, Depths
<1>2. CASE RunOps
  BY <1>2, <1>t DEF RunOps, Kinds
<1>3. CASE CPP_traverse_wordlist
  <2>1. CASE Enter("traverse", 0, 0, 0, 0, <<>>)
    BY <1>3, <1>t, <2>1 DEF CPP_traverse_wordlist, Kinds
  <2>2. CASE UNCHANGED act
    BY <1>3, <2>2 DEF CPP_traverse_wordlist, InStepInv, returnVars
  <2> QED BY <1>3, <2>1, <2>2 DEF CPP_traverse_wordlist, Raise, Proceed, hostVars
<1>4. CASE TraverseNext
  <2>1. CASE Enter("traverse", 0, 0, 0, 0, <<>>)
    BY <1>4, <1>t, <2>1 DEF TraverseNext, Kinds
  <2>2. CASE UNCHANGED act
    BY <1>4, <2>2 DEF TraverseNext, InStepInv, returnVars
  <2> QED BY <1>4, <2>1, <2>2 DEF TraverseNext
<1>5. CASE forth_signal_handler
  <2>1. /\ GlobalRp' \in RDepth /\ GlobalRp' = GlobalRtp'
        /\ Enter("signal", GlobalSp, GlobalTp, GlobalRp, GlobalRp, Snapshot)
    BY <1>5 DEF forth_signal_handler, InStepInv
  <2>2. Snapshot \in ([RIndex -> Cells] \X [RIndex -> Tags]) \cup {<<>>}
    BY DEF Snapshot, TypeInv, TypeOK, Cells, Tags
  <2> QED BY <1>e, <2>1, <2>2 DEF TypeInv, TypeOK, Kinds
<1>6. CASE CompileError \/ NextLine \/ CPP_evaluate \/ EvaluateReturns \/ UNCHANGED vars
  BY <1>6 DEF CompileError, NextLine, CPP_evaluate, EvaluateReturns, InStepInv,
     returnVars, vars
<1>7. CASE Returns
  <2>1. act # <<>>
    BY <1>7 DEF Returns, ForthVM, TraverseCallbackReturns, SignalReturns,
       TypeInv, CallersInv
  <2>2. /\ Len(act) \in Nat /\ Len(act) >= 1
        /\ Len(Callers) = Len(act) - 1
        /\ \A i \in 1 .. Len(act) - 1 : Callers[i] = act[i]
    BY <2>1, TopAndCallers DEF TypeInv, TypeOK
  <2>3. Top.rp = Top.rtp
    BY <2>2 DEF Top, InStepInv
  <2>4. act' = Callers /\ ReturnPointersInStep'
    BY <1>7, <2>3 DEF Returns, ForthVM, TraverseCallbackReturns, SignalReturns,
       InStepInv
  <2> QED BY <2>2, <2>4 DEF InStepInv
<1> QED BY <1>1, <1>2, <1>3, <1>4, <1>5, <1>6, <1>7 DEF Next, Opcodes, Opcodes1, Host

(* The return stack's cells and its type tags stay in step through every   *)
(* opcode, error, reset and signal handler.                                *)
THEOREM InStepCorrect == Spec => []ReturnPointersInStep
<1>1. Init => TypeInv /\ InStepInv
  BY TypeInit DEF Init, InStepInv, ReturnPointersInStep
<1>2. TypeInv /\ InStepInv /\ [Next]_vars => (TypeInv /\ InStepInv)'
  BY TypeStep, InStepStep
<1>3. InStepInv => ReturnPointersInStep
  BY DEF InStepInv
<1> QED BY <1>1, <1>2, <1>3, PTL DEF Spec

-----------------------------------------------------------------------------
(* What main() gets back *)

(* An empty return stack at the prompt rests on the bottom of the C stack: *)
(* main() enters vm() with vmEntryRp at the bottom and an empty return     *)
(* stack, every activation above keeps that in what it saves, and an       *)
(* error-free vm() leaves no deeper than it entered.                       *)
BottomInv ==
  /\ act = <<>> => GlobalRp = 0 /\ vmEntryRp = 0
  /\ act # <<>> => act[1].entryRp = 0 /\ (act[1].kind = "signal" => act[1].rp = 0)
  /\ Len(act) = 1 /\ act[1].kind = "forthvm" => vmEntryRp = 0
  /\ Len(act) >= 2 /\ act[1].kind = "forthvm" => act[2].entryRp = 0

LeavesAtEntry ==
  /\ mode = "exit" /\ ecode = "ok" => GlobalRp <= vmEntryRp
  /\ \A i \in 1 .. Len(act) :
       act[i].kind = "signal" /\ act[i].mode = "exit" /\ act[i].ecode = "ok"
         => act[i].rp <= act[i].entryRp

PromptInv == BottomInv /\ LeavesAtEntry

(* Opcodes change vmEntryRp only to move it to the bottom, and leave vm()  *)
(* without an error only at its entry.                                     *)
LEMMA OpcodeLeaves ==
  ASSUME TypeInv, Opcodes1
  PROVE  /\ UNCHANGED act /\ act # <<>>
         /\ vmEntryRp' = vmEntryRp \/ vmEntryRp' = 0
         /\ mode' = "exit" /\ ecode' = "ok" => GlobalRp' <= vmEntryRp'
<1>1. mode = "vm" /\ act # <<>>
  BY DEF TypeInv, CallersInv, Opcode, Opcodes1, DataWord, L_push_r, L_twopush_r,
     L_pop_r, L_twopop_r, L_puship, L_loop, L_plusloop, L_unloop, CPP_rpstore,
     CPP_spstore, L_definition, L_execute, L_ret, L_jz, L_jmp, L_quit, L_abort
<1>2. UNCHANGED act /\ (vmEntryRp' = vmEntryRp \/ vmEntryRp' = 0)
  BY DEF Opcodes1, DataWord, L_push_r, L_twopush_r, L_pop_r, L_twopop_r,
     L_puship, L_loop, L_plusloop, L_unloop, CPP_rpstore, CPP_spstore,
     L_definition, L_execute, L_ret, L_jz, L_jmp, L_quit, L_abort, LeaveLoop,
     NextIteration, JumpTo, Call, Proceed, Raise, hostVars
<1>3. CASE L_ret
  BY <1>1, <1>3 DEF L_ret, AtEntry, JumpTo, Proceed, Raise, hostVars, returnVars
<1>4. CASE ~L_ret
  BY <1>1, <1>4 DEF Opcodes1, DataWord, L_push_r, L_twopush_r, L_pop_r, L_twopop_r,
     L_puship, L_loop, L_plusloop, L_unloop, CPP_rpstore, CPP_spstore,
     L_definition, L_execute, L_jz, L_jmp, L_quit, L_abort, LeaveLoop,
     NextIteration, JumpTo, Call, Proceed, Raise, hostVars
<1> QED BY <1>1, <1>2, <1>3, <1>4

LEMMA PromptStep == TypeInv /\ PromptInv /\ [Next]_vars => PromptInv'
<1> SUFFICES ASSUME TypeInv, PromptInv, [Next]_vars PROVE PromptInv'
  OBVIOUS
<1>1. CASE Opcodes1
  BY <1>1, OpcodeLeaves DEF PromptInv, BottomInv, LeavesAtEntry
<1>e. ASSUME NEW kind \in Kinds, NEW sp \in DDepth, NEW tp \in DDepth,
             NEW rp \in RDepth, NEW rtp \in RDepth,
             NEW stack \in ([RIndex -> Cells] \X [RIndex -> Tags]) \cup {<<>>},
             GlobalRp' \in RDepth, Enter(kind, sp, tp, rp, rtp, stack),
             kind = "forthvm" => GlobalRp' = GlobalRp,
             kind = "traverse" => act # <<>>,
             kind = "signal" => rp = GlobalRp
      PROVE  PromptInv'
  <2>1. /\ act' # <<>>
        /\ Len(act) \in Nat /\ Len(act') = Len(act) + 1
        /\ \A i \in 1 .. Len(act) : act'[i] = act[i]
        /\ act'[Len(act) + 1] = NewActivation(kind, sp, tp, rp, rtp, stack)
        /\ vmEntryRp' = GlobalRp' /\ mode' = "vm" /\ ecode' = "ok"
    BY <1>e, EnterStep DEF TypeInv
  <2>2. act # <<>> => Len(act) >= 1
    BY TopAndCallers DEF TypeInv, TypeOK
  <2>3. act = <<>> => Len(act) = 0
    BY EmptySeq
  <2>4. BottomInv'
    <3>1. CASE act = <<>>
      BY <1>e, <2>1, <2>3, <3>1 DEF PromptInv, BottomInv, NewActivation, Kinds
    <3>2. CASE act # <<>>
      <4>1. act'[1] = act[1] /\ Len(act') # 1
        BY <2>1, <2>2, <3>2
      <4>2. act[1].entryRp = 0 /\ (act[1].kind = "signal" => act[1].rp = 0)
        BY <3>2 DEF PromptInv, BottomInv
      <4>3. ASSUME act[1].kind = "forthvm" PROVE act'[2].entryRp = 0
        <5>1. CASE Len(act) = 1
          BY <2>1, <4>3, <5>1 DEF PromptInv, BottomInv, NewActivation
        <5>2. CASE Len(act) >= 2
          BY <2>1, <4>3, <5>2 DEF PromptInv, BottomInv
        <5>3. Len(act) = 1 \/ Len(act) >= 2
          BY <3>2, TopAndCallers DEF TypeInv, TypeOK
        <5> QED BY <5>1, <5>2, <5>3, Zenon
      <4> QED BY <2>1, <4>1, <4>2, <4>3 DEF BottomInv
    <3> QED BY <3>1, <3>2
  <2>5. LeavesAtEntry'
    BY <1>e, <2>1 DEF PromptInv, LeavesAtEntry, NewActivation
  <2> QED BY <2>4, <2>5 DEF PromptInv
<1>t. ASSUME UNCHANGED returnVars, NEW kind \in {"forthvm", "traverse"},
             kind = "traverse" => act # <<>>, Enter(kind, 0, 0, 0, 0, <<>>)
      PROVE  PromptInv'
  <2>1. GlobalRp' \in RDepth /\ GlobalRp' = GlobalRp
    BY <1>t DEF returnVars, TypeInv, TypeOK
  <2> QED BY <1>t, <1>e, <2>1, Depths DEF Kinds
<1>2. CASE RunOps
  BY <1>2, <1>t DEF RunOps
<1>3. CASE CPP_traverse_wordlist
  <2>1. act # <<>> /\ mode = "vm"
    BY <1>3 DEF CPP_traverse_wordlist, Opcode, TypeInv, CallersInv
  <2>2. CASE Enter("traverse", 0, 0, 0, 0, <<>>)
    BY <1>3, <1>t, <2>1, <2>2 DEF CPP_traverse_wordlist
  <2>3. CASE ~Enter("traverse", 0, 0, 0, 0, <<>>)
    BY <1>3, <2>1, <2>3 DEF CPP_traverse_wordlist, Raise, Proceed, hostVars,
       PromptInv, BottomInv, LeavesAtEntry, returnVars
  <2> QED BY <2>2, <2>3
<1>4. CASE TraverseNext
  <2>1. act # <<>>
    BY <1>4 DEF TraverseNext, TypeInv, CallersInv
  <2>2. CASE Enter("traverse", 0, 0, 0, 0, <<>>)
    BY <1>4, <1>t, <2>1, <2>2 DEF TraverseNext
  <2>3. CASE ~Enter("traverse", 0, 0, 0, 0, <<>>)
    BY <1>4, <2>3 DEF TraverseNext, PromptInv, BottomInv, LeavesAtEntry, returnVars
  <2> QED BY <2>2, <2>3
<1>5. CASE forth_signal_handler
  <2>1. GlobalRp' \in RDepth
        /\ Enter("signal", GlobalSp, GlobalTp, GlobalRp, GlobalRtp, Snapshot)
    BY <1>5 DEF forth_signal_handler
  <2>2. Snapshot \in ([RIndex -> Cells] \X [RIndex -> Tags]) \cup {<<>>}
    BY DEF Snapshot, TypeInv, TypeOK, Cells, Tags
  <2> QED BY <1>e, <2>1, <2>2 DEF TypeInv, TypeOK, Kinds
<1>6. CASE CompileError \/ NextLine \/ CPP_evaluate \/ EvaluateReturns \/ UNCHANGED vars
  BY <1>6 DEF CompileError, NextLine, CPP_evaluate, EvaluateReturns, Opcode,
     PromptInv, BottomInv, LeavesAtEntry, returnVars, vars
<1>7. CASE Returns
  <2>1. act # <<>>
    BY <1>7 DEF Returns, ForthVM, TraverseCallbackReturns, SignalReturns,
       TypeInv, CallersInv
  <2>2. /\ Len(act) \in Nat /\ Len(act) >= 1
        /\ Callers \in Seq(Activation)
        /\ Len(Callers) = Len(act) - 1
        /\ \A i \in 1 .. Len(act) - 1 : Callers[i] = act[i]
        /\ Top = act[Len(act)]
    BY <2>1, TopAndCallers DEF TypeInv, TypeOK, Top
  <2>3. act' = Callers
    BY <1>7 DEF Returns, ForthVM, TraverseCallbackReturns, SignalReturns
  <2>4. Callers # <<>> => Len(Callers) >= 1
    BY <2>2, EmptySeq
  <2>5. Callers = <<>> => Len(act) = 1
    BY <2>2, EmptySeq
  <2>6. CASE ForthVM
    <3>1. /\ vmEntryRp' \in {0, Top.entryRp} /\ mode' = "host"
          /\ mode = "exit" /\ Top.kind = "forthvm"
          /\ GlobalRp' # 0 => GlobalRp' = GlobalRp /\ ecode = "ok" /\ ~(GlobalRp < 0)
      BY <2>6 DEF ForthVM, EmptiesReturn
    <3>2. LeavesAtEntry'
      BY <2>2, <2>3, <3>1 DEF PromptInv, LeavesAtEntry
    <3>3. GlobalRp \in Int
      BY Depths DEF TypeInv, TypeOK
    <3>4. BottomInv'
      BY <2>2, <2>3, <2>4, <2>5, <3>1, <3>3 DEF PromptInv, BottomInv, LeavesAtEntry
    <3> QED BY <3>2, <3>4 DEF PromptInv
  <2>7. CASE TraverseCallbackReturns
    <3>1. /\ vmEntryRp' = Top.entryRp /\ mode' = "traverse" /\ GlobalRp' = GlobalRp
          /\ Top.kind = "traverse"
      BY <2>7 DEF TraverseCallbackReturns
    <3>2. Len(act) > 1
      BY <2>2, <3>1 DEF TypeInv, CallersInv
    <3>3. LeavesAtEntry'
      BY <2>2, <2>3, <3>1 DEF PromptInv, LeavesAtEntry
    <3>4. BottomInv'
      BY <2>2, <2>3, <2>4, <2>5, <3>1, <3>2 DEF PromptInv, BottomInv
    <3> QED BY <3>3, <3>4 DEF PromptInv
  <2>8. CASE SignalReturns
    <3>1. /\ vmEntryRp' = Top.entryRp /\ mode' = Top.mode /\ GlobalRp' = Top.rp
          /\ ecode' = Top.ecode /\ Top.kind = "signal"
      BY <2>8 DEF SignalReturns
    <3>2. LeavesAtEntry'
      BY <2>2, <2>3, <3>1 DEF PromptInv, LeavesAtEntry
    <3>3. BottomInv'
      BY <2>2, <2>3, <2>4, <2>5, <3>1 DEF PromptInv, BottomInv
    <3> QED BY <3>2, <3>3 DEF PromptInv
  <2> QED BY <1>7, <2>6, <2>7, <2>8 DEF Returns
<1> QED BY <1>1, <1>2, <1>3, <1>4, <1>5, <1>6, <1>7 DEF Next, Opcodes, Opcodes1, Host

(* Whatever a line did to the return stack, however deep it nested vm()    *)
(* and whichever error or handler ended it, main() gets an empty return    *)
(* stack and type stack back.                                              *)
THEOREM PromptCorrect == Spec => []PromptIsClean
<1>1. Init => TypeInv /\ InStepInv /\ PromptInv
  BY TypeInit, EmptySeq DEF Init, InStepInv, ReturnPointersInStep, PromptInv,
     BottomInv, LeavesAtEntry
<1>2. TypeInv /\ InStepInv /\ PromptInv /\ [Next]_vars
        => (TypeInv /\ InStepInv /\ PromptInv)'
  BY TypeStep, InStepStep, PromptStep
<1>3. InStepInv /\ PromptInv => PromptIsClean
  BY DEF InStepInv, ReturnPointersInStep, PromptInv, BottomInv, PromptIsClean,
     AtPrompt
<1> QED BY <1>1, <1>2, <1>3, PTL DEF Spec

-----------------------------------------------------------------------------
(* Errors *)

(* Only an error-free machine runs opcodes, now and when a handler is done. *)
RunsOkInv ==
  /\ mode = "vm" => ecode = "ok"
  /\ Callbacks = {} => mode # "traverse" /\ \A i \in 1 .. Len(act) : act[i].kind = "forthvm"

LEMMA RunsOkStep ==
  Callbacks = {} /\ TypeInv /\ RunsOkInv /\ [Next]_vars
    => RunsOkInv' /\ (ecode # "ok" /\ ecode' = "ok" => AtPrompt)
<1> SUFFICES ASSUME Callbacks = {}, TypeInv, RunsOkInv, [Next]_vars
             PROVE  RunsOkInv' /\ (ecode # "ok" /\ ecode' = "ok" => AtPrompt)
  OBVIOUS
<1>1. CASE Opcodes1
  <2>1. mode = "vm" /\ UNCHANGED act
    BY <1>1, OpcodeLeaves DEF Opcode, Opcodes1, DataWord, L_push_r, L_twopush_r,
       L_pop_r, L_twopop_r, L_puship, L_loop, L_plusloop, L_unloop, CPP_rpstore,
       CPP_spstore, L_definition, L_execute, L_ret, L_jz, L_jmp, L_quit, L_abort
  <2>2. \/ mode' \in {"exit", "wild"}
        \/ mode' = mode /\ ecode' = ecode
    BY <1>1 DEF Opcodes1, DataWord, L_push_r, L_twopush_r, L_pop_r, L_twopop_r,
       L_puship, L_loop, L_plusloop, L_unloop, CPP_rpstore, CPP_spstore,
       L_definition, L_execute, L_ret, L_jz, L_jmp, L_quit, L_abort, LeaveLoop,
       NextIteration, JumpTo, Call, Proceed, Raise, hostVars
  <2> QED BY <2>1, <2>2 DEF RunsOkInv
<1>2. CASE RunOps
  <2>1. /\ GlobalRp' \in RDepth /\ Enter("forthvm", 0, 0, 0, 0, <<>>)
        /\ "forthvm" \in Kinds /\ TypeOK
    BY <1>2 DEF RunOps, returnVars, TypeInv, TypeOK, Kinds
  <2>2. /\ Len(act) \in Nat /\ Len(act') = Len(act) + 1
        /\ \A i \in 1 .. Len(act) : act'[i] = act[i]
        /\ act'[Len(act) + 1] = NewActivation("forthvm", 0, 0, 0, 0, <<>>)
        /\ mode' = "vm" /\ ecode' = "ok"
    BY <2>1, EnterStep, Depths
  <2>3. act'[Len(act) + 1].kind = "forthvm"
    BY <2>2 DEF NewActivation
  <2> QED BY <1>2, <2>2, <2>3 DEF RunOps, RunsOkInv
<1>3. CASE CompileError \/ NextLine \/ CPP_evaluate \/ EvaluateReturns \/ UNCHANGED vars
  BY <1>3 DEF CompileError, NextLine, CPP_evaluate, EvaluateReturns, RunsOkInv,
     AtPrompt, vars
<1>4. CASE ForthVM
  <2>1. act # <<>>
    BY <1>4 DEF ForthVM, TypeInv, CallersInv
  <2>2. /\ Len(act) \in Nat /\ Len(act) >= 1 /\ Len(Callers) = Len(act) - 1
        /\ \A i \in 1 .. Len(act) - 1 : Callers[i] = act[i]
    BY <2>1, TopAndCallers DEF TypeInv, TypeOK
  <2> QED BY <1>4, <2>2 DEF ForthVM, RunsOkInv
<1>5. ~(TraverseCallbackReturns \/ SignalReturns)
  <2>1. mode = "exit" => Top.kind = "forthvm"
    BY TopAndCallers DEF TypeInv, TypeOK, CallersInv, RunsOkInv, Top
  <2> QED BY <2>1 DEF TraverseCallbackReturns, SignalReturns
<1>6. ~(CPP_traverse_wordlist \/ TraverseNext \/ forth_signal_handler)
  BY DEF CPP_traverse_wordlist, TraverseNext, forth_signal_handler, MaySignal, RunsOkInv
<1> QED
  BY <1>1, <1>2, <1>3, <1>4, <1>5, <1>6 DEF Next, Opcodes, Opcodes1, Host, Returns

(* Without TRAVERSE-WORDLIST and signal handlers, an error reported by an  *)
(* opcode or by the compiler reaches main(), through every level of        *)
(* EVALUATE: no step forgets it below the prompt.                          *)
THEOREM ErrorsReachMainCorrect == Callbacks = {} => (Spec => ErrorsReachMain)
<1> SUFFICES ASSUME Callbacks = {} PROVE Spec => ErrorsReachMain
  OBVIOUS
<1>1. Init => TypeInv /\ RunsOkInv
  BY TypeInit, EmptySeq DEF Init, RunsOkInv
<1>2. TypeInv /\ RunsOkInv /\ [Next]_vars => (TypeInv /\ RunsOkInv)'
  BY TypeStep, RunsOkStep
<1>3. TypeInv /\ RunsOkInv /\ [Next]_vars
        => [ecode # "ok" /\ ecode' = "ok" => AtPrompt]_vars
  BY RunsOkStep
<1> QED BY <1>1, <1>2, <1>3, PTL DEF Spec, ErrorsReachMain

(* Without signal handlers, whose return puts back the pointers of the     *)
(* program they interrupted, only an opcode that reports a failed division *)
(* moves the data stack and its type stack apart.                          *)
THEOREM DriftCorrect == Callbacks = {} => (Spec => DriftOnlyOnDivision)
<1> SUFFICES ASSUME Callbacks = {} PROVE Spec => DriftOnlyOnDivision
  OBVIOUS
<1> DEFINE Drift == GlobalTp' - GlobalSp' # GlobalTp - GlobalSp
                     => ecode' = "divide" \/ GlobalTp' = GlobalSp'
<1>1. Init => TypeInv /\ RunsOkInv
  BY TypeInit, EmptySeq DEF Init, RunsOkInv
<1>2. TypeInv /\ RunsOkInv /\ [Next]_vars => (TypeInv /\ RunsOkInv)'
  BY TypeStep, RunsOkStep
<1>3. TypeInv /\ RunsOkInv /\ [Next]_vars => [Drift]_vars
  <2> SUFFICES ASSUME TypeInv, RunsOkInv, [Next]_vars PROVE [Drift]_vars
    OBVIOUS
  <2>0. GlobalSp \in Int /\ GlobalTp \in Int
    BY Depths DEF TypeInv, TypeOK
  <2>1. CASE DataWord
    <3>1. PICK effect \in DataEffects :
            /\ GlobalSp + effect[1] \in DDepth /\ GlobalTp + effect[2] \in DDepth
            /\ GlobalSp' = GlobalSp + effect[1] /\ GlobalTp' = GlobalTp + effect[2]
            /\ IF effect[3] = "ok" THEN Proceed ELSE Raise(effect[3])
      BY <2>1 DEF DataWord
    <3>2. effect[3] # "divide" => effect[1] = effect[2]
      BY EffectCodes
    <3>3. effect[3] = "divide" => ecode' = "divide"
      BY <3>1 DEF Raise
    <3>4. effect[1] \in Int /\ effect[2] \in Int
      BY EffectTyped
    <3> QED BY <2>0, <3>1, <3>2, <3>3, <3>4
  <2>2. CASE ~DataWord /\ Opcodes1
    BY <2>0, <2>2 DEF Opcodes1, L_push_r, L_twopush_r, L_pop_r, L_twopop_r, L_puship,
       L_loop, L_plusloop, L_unloop, CPP_rpstore, CPP_spstore, L_definition,
       L_execute, L_ret, L_jz, L_jmp, L_quit, L_abort, Push, Pop, dataVars
  <2>3. CASE RunOps \/ CompileError \/ NextLine \/ CPP_evaluate \/ EvaluateReturns
    BY <2>0, <2>3 DEF RunOps, CompileError, NextLine, CPP_evaluate, EvaluateReturns,
       Push, Pop, dataVars
  <2>4. CASE ForthVM
    BY <2>4 DEF ForthVM
  <2>5. ~(TraverseCallbackReturns \/ SignalReturns)
    <3>1. mode = "exit" => Top.kind = "forthvm"
      BY TopAndCallers DEF TypeInv, TypeOK, CallersInv, RunsOkInv, Top
    <3> QED BY <3>1 DEF TraverseCallbackReturns, SignalReturns
  <2>6. ~(CPP_traverse_wordlist \/ TraverseNext \/ forth_signal_handler)
    BY DEF CPP_traverse_wordlist, TraverseNext, forth_signal_handler, MaySignal, RunsOkInv
  <2> QED
    BY <2>1, <2>2, <2>3, <2>4, <2>5, <2>6 DEF Next, Opcodes, Opcodes1, Host, Returns
<1> QED BY <1>1, <1>2, <1>3, PTL DEF Spec, DriftOnlyOnDivision

-----------------------------------------------------------------------------
(* The return stack: what a program and its callbacks find there, as long  *)
(* as no signal interrupts a signal handler.                               *)

(* The inductive invariant. *)

(* The return stack's depth at the entry of the first n activations.       *)
Base(n) == IF n = 0 THEN 0 ELSE act[n].base
IsSignal(i) == act[i].kind = "signal"

OneSignal == \A i, j \in 1 .. Len(act) : IsSignal(i) /\ IsSignal(j) => i = j

(* Opcodes and traversals run without an error, also the interrupted ones. *)
RunsOk ==
  /\ mode \in {"vm", "traverse"} => ecode = "ok"
  /\ \A i \in 1 .. Len(act) :
       IsSignal(i) => /\ act[i].mode # "wild"
                      /\ act[i].mode \in {"vm", "traverse"} => act[i].ecode = "ok"

(* A vm() has vmEntryRp where it found the return stack, never takes from  *)
(* under it, and leaves with the return stack there.                       *)
Above(rp, entry, md, n) ==
  entry = Base(n) /\ rp >= Base(n) /\ (md = "exit" => rp = Base(n))
Own == ecode = "ok" => Above(GlobalRp, vmEntryRp, mode, Len(act))

(* Each activation saved its caller's entry, and a handler all it needs to *)
(* put the interrupted vm() back.                                          *)
Chain ==
  \A i \in 1 .. Len(act) :
    IF IsSignal(i)
    THEN /\ act[i].base = act[i].rp + SignalOffset
         /\ act[i].ecode = "ok" => Above(act[i].rp, act[i].entryRp, act[i].mode, i - 1)
    ELSE act[i].entryRp = Base(i - 1) /\ act[i].base >= Base(i - 1)

(* Everything on the C stack works above the first activation's entry and  *)
(* above that of the handler.                                              *)
Floors ==
  /\ GlobalRp >= 0
  /\ \A i \in 1 .. Len(act) : act[i].base >= 0 /\ act[i].rp >= 0
  /\ act # <<>> /\ ~IsSignal(1) => act[1].base = 0
  /\ \A k, i \in 1 .. Len(act) :
       k < i /\ (k = 1 \/ IsSignal(k)) => act[k].base <= act[i].base

(* The linked cells are what was put there: for what runs now, for what a  *)
(* handler interrupted, and none at or under the first entry.              *)
LinkAt(j, rp) == j <= rp /\ rcell[j] = link[j].ip /\ rtag[j] = "addr"
Tied == \A j \in RIndex : link[j] # NoLink => LinkAt(j, GlobalRp)
TiedUnder ==
  \A i \in 1 .. Len(act) : IsSignal(i) /\ act[i].ecode = "ok" =>
    \A j \in RIndex : link[j] # NoLink /\ j <= act[i].base => LinkAt(j, act[i].rp)
LinkFloor == \A j \in RIndex : link[j] # NoLink => act # <<>> /\ j > act[1].base

Snapshots ==
  \A i \in 1 .. Len(act) : IsSignal(i) =>
    \A j \in RIndex : j <= act[i].rp =>
      rcell[j] = act[i].stack[1][j] /\ rtag[j] = act[i].stack[2][j]

Control == RunsOk /\ Own /\ Chain /\ Floors
Cells0  == (~Unwinding => Tied /\ mode # "wild") /\ TiedUnder /\ LinkFloor /\ Snapshots
KeepInv == honest => Control /\ Cells0

(* What is known of a state besides.                                       *)
Known == TypeInv /\ InStepInv /\ PromptInv /\ OneSignal

LEMMA Facts ==
  ASSUME Known
  PROVE  /\ Len(act) \in Nat /\ (act = <<>> <=> Len(act) = 0) /\ act \in Seq(Activation)
         /\ GlobalRp \in Int /\ vmEntryRp \in Int /\ SignalOffset \in Nat /\ GlobalRtp = GlobalRp
         /\ GlobalRp \in RDepth /\ ReturnOK
         /\ \A i \in 1 .. Len(act) :
              act[i] \in Activation /\ act[i].base \in Int /\ act[i].rp \in Int /\ act[i].entryRp \in Int
         /\ RIndex \subseteq Int
<1>1. act \in Seq(Activation) /\ ReturnOK /\ GlobalRp \in RDepth /\ vmEntryRp \in RDepth
  BY DEF Known, TypeInv, TypeOK, ReturnOK
<1>2. Len(act) \in Nat /\ (act = <<>> <=> Len(act) = 0)
  BY <1>1, EmptySeq, LenProperties
<1>3. \A i \in 1 .. Len(act) : act[i] \in Activation
  BY <1>1, <1>2, ElementOfSeq
<1>4. \A a \in Activation : a.base \in RDepth /\ a.rp \in RDepth /\ a.entryRp \in RDepth
  BY DEF Activation
<1> QED BY <1>1, <1>2, <1>3, <1>4, Depths, ConstantsAssumption
        DEF Known, InStepInv, ReturnPointersInStep

-----------------------------------------------------------------------------
(* Opcodes *)

(* What lies at or under the entry of the running vm() stays, and what was *)
(* put on the return stack is where it was put.                            *)
StepKeeps ==
  /\ \A j \in RIndex : j <= vmEntryRp =>
       rcell'[j] = rcell[j] /\ rtag'[j] = rtag[j] /\ link'[j] = link[j]
  /\ \A j \in RIndex : link'[j] # NoLink => link[j] # NoLink \/ j > vmEntryRp
  /\ ecode' = "ok" /\ Tied => Tied'

LEMMA SameKeeps ==
  ASSUME UNCHANGED <<rcell, rtag, link>>, ecode' = "ok" => GlobalRp' = GlobalRp
  PROVE  StepKeeps
  BY DEF StepKeeps, Tied, LinkAt

LEMMA PushKeeps ==
  ASSUME Known, GlobalRp >= vmEntryRp, NEW tag \in Tags, NEW cell \in Cells, NEW l \in Links,
         PushReturn(tag, cell, l), l # NoLink => l.ip = cell /\ tag = "addr"
  PROVE  StepKeeps /\ GlobalRp' = GlobalRp + 1
<1>1. /\ GlobalRp + 1 \in RIndex /\ GlobalRp' = GlobalRp + 1
      /\ \A j \in RIndex : /\ rcell'[j] = IF j = GlobalRp + 1 THEN cell ELSE rcell[j]
                           /\ rtag'[j] = IF j = GlobalRp + 1 THEN tag ELSE rtag[j]
                           /\ link'[j] = IF j = GlobalRp + 1 THEN l ELSE link[j]
  BY Facts DEF PushReturn, ReturnOK
<1> QED BY <1>1, Facts DEF StepKeeps, Tied, LinkAt

LEMMA UnlinkKeeps ==
  ASSUME Known, NEW n \in Int, n >= vmEntryRp, link' = Unlinked(n), GlobalRp' = n,
         UNCHANGED <<rcell, rtag>>
  PROVE  StepKeeps
<1>1. \A j \in RIndex : link'[j] = IF j > n THEN NoLink ELSE link[j]
  BY DEF Unlinked
<1> QED BY <1>1, Facts DEF StepKeeps, Tied, LinkAt

(* What an opcode does, in an honest run, to the return stack and to the   *)
(* vm() it runs in.                                                        *)
OpcodeDone ==
  /\ UNCHANGED act /\ StepKeeps /\ GlobalRp' >= 0
  /\ ecode' = "ok" => /\ vmEntryRp' = vmEntryRp /\ GlobalRp' >= vmEntryRp
                      /\ mode' = "exit" => GlobalRp' = vmEntryRp
  /\ mode' \in {"vm", "traverse"} => ecode' = "ok"
  /\ Tied => mode' # "wild"

LEMMA KeepsOpcode ==
  ASSUME Known, Opcode, ecode = "ok", GlobalRp >= vmEntryRp, vmEntryRp >= 0, honest', Opcodes1
  PROVE  OpcodeDone
<1> USE Facts
<1>0. mode = "vm" /\ Data \in Cells /\ NoLink \in Links /\ GlobalIp \in Points /\ GlobalIp \in Cells
      /\ "addr" \in Tags
  BY DEF Opcode, Cells, Links, Tags, Known, TypeInv, TypeOK
<1>a. ASSUME UNCHANGED returnVars, Proceed \/ \E e \in Codes : e # "ok" /\ Raise(e) PROVE OpcodeDone
  <2>1. StepKeeps
    BY <1>a, SameKeeps DEF returnVars
  <2> QED BY <1>0, <1>a, <2>1 DEF OpcodeDone, returnVars, Proceed, Raise, hostVars
<1>b. ASSUME Proceed, StepKeeps, GlobalRp' \in Int, GlobalRp' >= vmEntryRp PROVE OpcodeDone
  BY <1>0, <1>b DEF OpcodeDone, Proceed, hostVars
<1>1. CASE DataWord
  BY <1>1, <1>a, EffectCodes DEF DataWord
<1>2. CASE L_push_r
  <2>1. PICK item \in Items : PushReturn(item[1], item[2], NoLink)
    BY <1>2 DEF L_push_r
  <2>2. item[1] \in Tags /\ item[2] \in Cells
    BY DEF Items, Tags, Cells
  <2>3. StepKeeps /\ GlobalRp' = GlobalRp + 1
    BY <1>0, <2>1, <2>2, PushKeeps
  <2> QED BY <1>2, <1>b, <2>3 DEF L_push_r
<1>3. CASE L_twopush_r
  <2>1. PICK a \in Items, b \in Items :
          /\ rcell' = [rcell EXCEPT ![GlobalRp + 1] = a[2], ![GlobalRp + 2] = b[2]]
          /\ rtag' = [rtag EXCEPT ![GlobalRtp + 1] = a[1], ![GlobalRtp + 2] = b[1]]
    BY <1>3 DEF L_twopush_r
  <2>2. /\ link' = [link EXCEPT ![GlobalRp + 1] = NoLink, ![GlobalRp + 2] = NoLink]
        /\ GlobalRp' = GlobalRp + 2 /\ Proceed
    BY <1>3 DEF L_twopush_r
  <2>3. \A j \in RIndex : j # GlobalRp + 1 /\ j # GlobalRp + 2 =>
          rcell'[j] = rcell[j] /\ rtag'[j] = rtag[j] /\ link'[j] = link[j]
    BY <2>1, <2>2 DEF ReturnOK
  <2>4. \A j \in RIndex : j = GlobalRp + 1 \/ j = GlobalRp + 2 => link'[j] = NoLink
    BY <2>2 DEF ReturnOK
  <2>5. StepKeeps
    <3>1. \A j \in RIndex : link'[j] # NoLink =>
            /\ j # GlobalRp + 1 /\ j # GlobalRp + 2
            /\ rcell'[j] = rcell[j] /\ rtag'[j] = rtag[j] /\ link'[j] = link[j]
      BY <2>3, <2>4
    <3>2. Tied => Tied'
      <4> SUFFICES ASSUME Tied, NEW j \in RIndex, link'[j] # NoLink
                   PROVE  j <= GlobalRp' /\ rcell'[j] = link'[j].ip /\ rtag'[j] = "addr"
        BY DEF Tied, LinkAt
      <4>1. j <= GlobalRp /\ rcell[j] = link[j].ip /\ rtag[j] = "addr"
        BY <3>1 DEF Tied, LinkAt
      <4>2. GlobalRp' = GlobalRp + 2
        BY <2>2
      <4>3. j <= GlobalRp'
        BY <4>1, <4>2
      <4>4. rcell'[j] = rcell[j] /\ rtag'[j] = rtag[j] /\ link'[j] = link[j]
        BY <3>1
      <4> QED BY <4>1, <4>3, <4>4
    <3>3. \A j \in RIndex : j <= vmEntryRp =>
            rcell'[j] = rcell[j] /\ rtag'[j] = rtag[j] /\ link'[j] = link[j]
      <4>1. \A j \in RIndex : j <= vmEntryRp => j # GlobalRp + 1 /\ j # GlobalRp + 2
        OBVIOUS
      <4> QED BY <2>3, <4>1
    <3> QED BY <3>1, <3>2, <3>3 DEF StepKeeps
  <2> QED BY <1>b, <2>2, <2>5
<1>p. ASSUME NEW n \in Nat, PopReturn(n), Proceed, GlobalRp - n >= vmEntryRp PROVE OpcodeDone
  <2>1. StepKeeps /\ GlobalRp' = GlobalRp - n
    BY <1>p, UnlinkKeeps DEF PopReturn
  <2> QED BY <1>b, <1>p, <2>1
<1>4. CASE L_pop_r
  BY <1>4, <1>p DEF L_pop_r, MayTake
<1>5. CASE L_twopop_r
  BY <1>5, <1>p DEF L_twopop_r, MayTake
<1>l. ASSUME NEW use \in {"ret", "loop"}, PushReturn("addr", GlobalIp, [use |-> use, ip |-> GlobalIp]), Proceed
      PROVE  OpcodeDone
  <2>1. [use |-> use, ip |-> GlobalIp] \in Links
    BY <1>0 DEF Links
  <2>2. StepKeeps /\ GlobalRp' = GlobalRp + 1
    BY <1>0, <1>l, <2>1, PushKeeps
  <2> QED BY <1>b, <1>l, <2>2
<1>6. CASE L_puship
  BY <1>6, <1>l DEF L_puship
<1>t. ASSUME LoopOnTop
      PROVE  /\ GlobalRp \in RIndex /\ GlobalRp - 3 >= vmEntryRp
             /\ Tied => rtag[GlobalRp] = "addr" /\ rcell[GlobalRp] \in Points
  <2>1. GlobalRp \in RIndex /\ link[GlobalRp] # NoLink /\ GlobalRp - 3 >= vmEntryRp
    BY <1>t DEF LoopOnTop, IsLinked
  <2>2. link[GlobalRp].ip \in Points
    BY <2>1 DEF ReturnOK, Links
  <2> QED BY <2>1, <2>2 DEF Tied, LinkAt
<1>7. CASE LeaveLoop
  BY <1>7, <1>p, <1>t DEF LeaveLoop
<1>n. ASSUME UNCHANGED <<GlobalRp, rcell, rtag, link>>,
             Proceed \/ (mode' = "wild" /\ UNCHANGED <<vmEntryRp, act, ecode>> /\ ~Tied)
      PROVE  OpcodeDone
  <2>1. StepKeeps
    BY <1>n, SameKeeps
  <2> QED BY <1>0, <1>n, <2>1 DEF OpcodeDone, Proceed, hostVars
<1>8. CASE NextIteration
  <2>1. LoopOnTop /\ JumpTo(rcell[GlobalRp]) /\ UNCHANGED <<GlobalRp, rcell, rtag, link>>
    BY <1>8 DEF NextIteration
  <2>2. Data \notin Points
    BY ConstantsAssumption
  <2> QED BY <1>n, <1>t, <2>1, <2>2 DEF JumpTo
<1>9. CASE L_loop
  <2>1. CASE ~(NextIteration \/ LeaveLoop)
    <3>1. Raise("retcorrupt") /\ UNCHANGED <<GlobalRp, rcell, rtag, link>>
      BY <1>9, <2>1 DEF L_loop
    <3>2. StepKeeps
      BY <3>1, SameKeeps
    <3> QED BY <3>1, <3>2 DEF OpcodeDone, Raise
  <2> QED BY <1>7, <1>8, <2>1
<1>10. CASE L_plusloop
  <2>1. CASE ~(NextIteration \/ LeaveLoop)
    <3>1. /\ TopTag # "addr" /\ mode' = "wild" /\ LoopOnTop
          /\ UNCHANGED <<GlobalRp, rcell, rtag, link, vmEntryRp, act, ecode>>
      BY <1>10, <2>1 DEF L_plusloop
    <3> QED BY <1>n, <1>t, <3>1 DEF TopTag
  <2> QED BY <1>7, <1>8, <2>1
<1>11. CASE L_unloop
  BY <1>7, <1>11 DEF L_unloop
<1>12. CASE CPP_rpstore
  <2>1. CASE \E e \in {"notaddr", "badstackaddr"} : Raise(e) /\ UNCHANGED returnVars
    BY <1>a, <2>1 DEF Codes
  <2>2. CASE \E n \in 0 .. MaxReturn :
               /\ GlobalRp' = n /\ GlobalRtp' = n /\ honest' = (honest /\ MayTake(GlobalRp - n))
               /\ link' = Unlinked(n) /\ Proceed /\ UNCHANGED <<rcell, rtag>>
    <3>1. PICK n \in 0 .. MaxReturn :
               /\ GlobalRp' = n /\ GlobalRtp' = n /\ honest' = (honest /\ MayTake(GlobalRp - n))
               /\ link' = Unlinked(n) /\ Proceed /\ UNCHANGED <<rcell, rtag>>
      BY <2>2
    <3>2. n \in Int /\ n >= vmEntryRp
      <4>1. n \in Int /\ GlobalRp - (GlobalRp - n) = n
        BY ConstantsAssumption
      <4> QED BY <3>1, <4>1 DEF MayTake
    <3>3. StepKeeps
      BY <3>1, <3>2, UnlinkKeeps
    <3> QED BY <1>b, <3>1, <3>2, <3>3
  <2> QED BY <1>12, <2>1, <2>2 DEF CPP_rpstore
<1>13. CASE CPP_spstore
  BY <1>13, <1>a DEF CPP_spstore, Codes
<1>14. CASE L_definition \/ L_execute
  BY <1>14, <1>l DEF L_definition, L_execute, Call
<1>15. CASE L_ret
  <2>1. CASE AtEntry /\ Raise("ok") /\ UNCHANGED returnVars
    <3>1. StepKeeps
      BY <2>1, SameKeeps DEF returnVars
    <3> QED BY <2>1, <3>1 DEF OpcodeDone, Raise, returnVars, AtEntry
  <2>2. CASE ~(AtEntry /\ Raise("ok") /\ UNCHANGED returnVars)
    <3>1. /\ ~AtEntry /\ PopReturn(1) /\ IsLinked(GlobalRp)
          /\ \/ Raise("retcorrupt")
             \/ TopTag = "addr" /\ JumpTo(ReturnAddress)
      BY <1>15, <2>2 DEF L_ret
    <3>2. GlobalRp - 1 >= vmEntryRp /\ GlobalRp \in RIndex /\ link[GlobalRp] # NoLink
      BY <3>1 DEF AtEntry, IsLinked
    <3>3. StepKeeps /\ GlobalRp' = GlobalRp - 1
      BY <3>1, <3>2, UnlinkKeeps DEF PopReturn
    <3>4. CASE Raise("retcorrupt")
      BY <3>2, <3>3, <3>4 DEF OpcodeDone, Raise
    <3>5. CASE JumpTo(ReturnAddress)
      <4>1. Tied => ReturnAddress \in Points
        BY <3>2 DEF Tied, LinkAt, ReturnOK, Links, ReturnAddress
      <4>2. CASE Proceed
        BY <1>b, <3>2, <3>3, <4>2
      <4>3. CASE mode' = "wild" /\ UNCHANGED <<vmEntryRp, act, ecode>> /\ ReturnAddress = Data
        BY <1>0, <3>2, <3>3, <4>1, <4>3, ConstantsAssumption DEF OpcodeDone
      <4> QED BY <3>5, <4>2, <4>3 DEF JumpTo
    <3> QED BY <3>1, <3>4, <3>5
  <2> QED BY <2>1, <2>2
<1>16. CASE L_jz \/ L_jmp
  BY <1>16, <1>a DEF L_jz, L_jmp
<1>17. CASE L_quit \/ L_abort
  <2>1. GlobalRp' = 0 /\ UNCHANGED <<rcell, rtag, link, act>> /\ mode' = "exit" /\ ecode' = "quit"
    BY <1>17 DEF L_quit, L_abort, ClearReturn
  <2>2. StepKeeps
    BY <2>1, SameKeeps
  <2> QED BY <2>1, <2>2 DEF OpcodeDone
<1> QED
  BY <1>1, <1>2, <1>3, <1>4, <1>5, <1>6, <1>9, <1>10, <1>11, <1>12, <1>13, <1>14, <1>15,
     <1>16, <1>17 DEF Opcodes1

(* An opcode keeps the invariant.                                          *)
LEMMA OpcodeStep ==
  ASSUME Known, Control, Cells0, Opcodes1, honest'
  PROVE  Control' /\ Cells0'
<1> DEFINE n == Len(act)
<1>0. Opcode /\ ecode = "ok" /\ n \in Nat /\ n >= 1
  <2>1. Opcode
    BY DEF Opcodes1, DataWord, L_push_r, L_twopush_r, L_pop_r, L_twopop_r,
       L_puship, L_loop, L_plusloop, L_unloop, CPP_rpstore, CPP_spstore,
       L_definition, L_execute, L_ret, L_jz, L_jmp, L_quit, L_abort
  <2> QED BY <2>1, Facts DEF Control, RunsOk, Opcode, Known, TypeInv, CallersInv
<1>1. vmEntryRp = act[n].base /\ GlobalRp >= vmEntryRp /\ vmEntryRp >= 0
  BY <1>0 DEF Control, Own, Above, Base, Floors
<1>2. OpcodeDone
  BY <1>0, <1>1, KeepsOpcode
<1>3. /\ act' = act /\ StepKeeps /\ GlobalRp' >= 0
      /\ ecode' = "ok" => /\ vmEntryRp' = vmEntryRp /\ GlobalRp' >= vmEntryRp
                          /\ mode' = "exit" => GlobalRp' = vmEntryRp
      /\ mode' \in {"vm", "traverse"} => ecode' = "ok"
      /\ Tied => mode' # "wild"
  BY <1>2 DEF OpcodeDone
<1>4. Control'
  <2>1. RunsOk'
    BY <1>3 DEF Control, RunsOk, IsSignal
  <2>2. Own'
    BY <1>0, <1>1, <1>3 DEF Own, Above, Base
  <2>3. Chain'
    BY <1>3 DEF Control, Chain, Above, Base, IsSignal
  <2>4. Floors'
    BY <1>3 DEF Control, Floors, IsSignal
  <2> QED BY <2>1, <2>2, <2>3, <2>4 DEF Control
<1>5. /\ \A j \in RIndex : j <= vmEntryRp =>
           rcell'[j] = rcell[j] /\ rtag'[j] = rtag[j] /\ link'[j] = link[j]
      /\ \A j \in RIndex : link'[j] # NoLink => link[j] # NoLink \/ j > vmEntryRp
      /\ ecode' = "ok" /\ Tied => Tied'
  BY <1>3 DEF StepKeeps
<1>6. ASSUME ~Unwinding' PROVE Tied' /\ mode' # "wild"
  <2>1. ecode' = "ok" /\ ~Unwinding
    BY <1>0, <1>3, <1>6 DEF Unwinding
  <2> QED BY <1>3, <1>5, <2>1 DEF Cells0
<1>7. \A i \in 1 .. n : IsSignal(i) => act[i].base <= vmEntryRp /\ act[i].rp <= vmEntryRp
  <2> SUFFICES ASSUME NEW i \in 1 .. n, IsSignal(i)
               PROVE  act[i].base <= vmEntryRp /\ act[i].rp <= vmEntryRp
    OBVIOUS
  <2>1. act[i].base <= act[n].base
    <3>1. CASE i = n
      BY <3>1, Facts
    <3>2. CASE i < n
      BY <1>0, <3>2 DEF Control, Floors
    <3> QED BY <1>0, <3>1, <3>2
  <2>2. act[i].base = act[i].rp + SignalOffset
    BY DEF Control, Chain
  <2> QED BY <1>1, <2>1, <2>2, Facts
<1>8. TiedUnder'
  <2> SUFFICES ASSUME NEW i \in 1 .. n, IsSignal(i), act[i].ecode = "ok",
                      NEW j \in RIndex, link'[j] # NoLink, j <= act[i].base
               PROVE  j <= act[i].rp /\ rcell'[j] = link'[j].ip /\ rtag'[j] = "addr"
    BY <1>3 DEF TiedUnder, LinkAt, IsSignal
  <2>1. j <= vmEntryRp
    BY <1>7, Facts
  <2>2. rcell'[j] = rcell[j] /\ rtag'[j] = rtag[j] /\ link'[j] = link[j]
    BY <1>5, <2>1
  <2> QED BY <2>2 DEF Cells0, TiedUnder, LinkAt
<1>9. LinkFloor'
  <2>1. act[1].base <= vmEntryRp /\ act # <<>>
    <3>1. CASE n = 1
      BY <1>0, <1>1, <3>1, Facts
    <3>2. CASE n > 1
      BY <1>0, <1>1, <3>2, Facts DEF Control, Floors
    <3> QED BY <1>0, <3>1, <3>2
  <2>2. act[1].base \in Int
    BY <1>0, Facts
  <2> QED BY <1>3, <1>5, <2>1, <2>2, Facts DEF Cells0, LinkFloor
<1>10. Snapshots'
  <2> SUFFICES ASSUME NEW i \in 1 .. n, IsSignal(i), NEW j \in RIndex, j <= act[i].rp
               PROVE  rcell'[j] = act[i].stack[1][j] /\ rtag'[j] = act[i].stack[2][j]
    BY <1>3 DEF Snapshots, IsSignal
  <2>1. j <= vmEntryRp
    BY <1>7, Facts
  <2> QED BY <1>5, <2>1 DEF Cells0, Snapshots
<1> QED BY <1>4, <1>6, <1>8, <1>9, <1>10 DEF Cells0

-----------------------------------------------------------------------------
(* Entering vm() *)

(* From the compiler or TRAVERSE-WORDLIST, with the return stack as it is. *)
LEMMA EnterKeeps ==
  ASSUME Known, Control, Cells0, NEW kind \in {"forthvm", "traverse"}, ecode = "ok",
         kind = "traverse" => act # <<>>, Enter(kind, 0, 0, 0, 0, <<>>), UNCHANGED returnVars
  PROVE  Control' /\ Cells0'
<1> DEFINE n == Len(act)
           new == NewActivation(kind, 0, 0, 0, 0, <<>>)
<1>0. /\ n \in Nat /\ Len(act') = n + 1 /\ act' # <<>>
      /\ \A i \in 1 .. n : act'[i] = act[i]
      /\ act'[n + 1] = new
      /\ vmEntryRp' = GlobalRp' /\ mode' = "vm" /\ ecode' = "ok" /\ GlobalRp' = GlobalRp
      /\ UNCHANGED <<rcell, rtag, link>>
  <2>1. GlobalRp' \in RDepth /\ GlobalRp' = GlobalRp /\ UNCHANGED <<rcell, rtag, link>> /\ TypeOK
    BY Facts DEF returnVars, Known, TypeInv
  <2> QED BY <2>1, EnterStep, Depths DEF Kinds
<1>1. /\ new.kind = kind /\ new.base = GlobalRp /\ new.entryRp = vmEntryRp /\ new.rp = 0
      /\ new.ecode = "ok"
  BY <1>0 DEF NewActivation
<1> HIDE DEF new
<1>2. vmEntryRp = Base(n) /\ GlobalRp >= Base(n) /\ GlobalRp \in Int /\ GlobalRp >= 0
  BY Facts DEF Control, Own, Above, Floors
<1>3. PICK m \in Nat : m = n
  BY <1>0
<1>4. /\ \A i \in 1 .. m : act'[i] = act[i]
      /\ act'[m + 1] = new /\ Len(act') = m + 1 /\ Len(act) = m
      /\ \A i \in 1 .. m + 1 : i \in 1 .. m \/ i = m + 1
  BY <1>0, <1>3
<1>b. \A i \in 0 .. m : Base(i)' = Base(i)
  BY <1>4 DEF Base
<1>5. Control'
  <2>1. RunsOk'
    BY <1>0, <1>1, <1>4 DEF Control, RunsOk, IsSignal
  <2>2. Own'
    BY <1>0, <1>1, <1>2, <1>4 DEF Own, Above, Base
  <2>3. Chain'
    <3> SUFFICES ASSUME NEW i \in 1 .. m + 1
                 PROVE  (IF IsSignal(i)
                         THEN /\ act[i].base = act[i].rp + SignalOffset
                              /\ act[i].ecode = "ok"
                                   => Above(act[i].rp, act[i].entryRp, act[i].mode, i - 1)
                         ELSE act[i].entryRp = Base(i - 1) /\ act[i].base >= Base(i - 1))'
      BY <1>4 DEF Chain
    <3>1. CASE i = m + 1
      BY <1>1, <1>2, <1>3, <1>4, <1>b, <3>1 DEF IsSignal
    <3>2. CASE i # m + 1
      <4>1. i \in 1 .. m /\ i - 1 \in 0 .. m
        BY <3>2
      <4> QED BY <1>4, <1>b, <4>1 DEF Control, Chain, IsSignal, Above
    <3> QED BY <3>1, <3>2
  <2>4. Floors'
    <3>1. \A i \in 1 .. m + 1 : act'[i].base >= 0 /\ act'[i].rp >= 0
      BY <1>1, <1>2, <1>4 DEF Control, Floors
    <3>2. act'[1].kind # "signal" => act'[1].base = 0
      <4>1. CASE m = 0
        BY <1>0, <1>1, <1>4, <4>1, Facts DEF Known, PromptInv, BottomInv
      <4>2. CASE m >= 1
        BY <1>4, <4>2, Facts DEF Control, Floors, IsSignal
      <4> QED BY <4>1, <4>2
    <3>3. ASSUME NEW k \in 1 .. m, k = 1 \/ act[k].kind = "signal"
          PROVE  act[k].base <= new.base
      <4>1. act[k].base <= act[m].base
        <5>1. CASE k = m
          BY <1>4, <5>1, Facts
        <5>2. CASE k < m
          BY <1>4, <3>3, <5>2 DEF Control, Floors, IsSignal
        <5> QED BY <5>1, <5>2
      <4>2. act[m].base <= new.base /\ act[m].base \in Int /\ act[k].base \in Int
        BY <1>1, <1>2, <1>4, Facts DEF Base
      <4> QED BY <1>1, <1>2, <4>1, <4>2
    <3>4. ASSUME NEW k \in 1 .. m + 1, NEW i \in 1 .. m + 1, k < i, k = 1 \/ act'[k].kind = "signal"
          PROVE  act'[k].base <= act'[i].base
      <4>1. k \in 1 .. m
        BY <3>4
      <4>2. CASE i = m + 1
        BY <1>4, <3>3, <3>4, <4>1, <4>2
      <4>3. CASE i # m + 1
        BY <1>4, <3>4, <4>1, <4>3 DEF Control, Floors, IsSignal
      <4> QED BY <4>2, <4>3
    <3> QED BY <1>0, <1>2, <1>4, <3>1, <3>2, <3>4 DEF Floors, IsSignal
  <2> QED BY <2>1, <2>2, <2>3, <2>4 DEF Control
<1>6. ~Unwinding' => Tied' /\ mode' # "wild"
  <2>1. ~Unwinding' => ~Unwinding
    BY <1>4 DEF Unwinding
  <2> QED BY <1>0, <2>1 DEF Cells0, Tied, LinkAt
<1>7. TiedUnder'
  BY <1>0, <1>1, <1>4 DEF Cells0, TiedUnder, LinkAt, IsSignal
<1>8. LinkFloor'
  BY <1>0, <1>4, Facts DEF Cells0, LinkFloor
<1>9. Snapshots'
  BY <1>0, <1>1, <1>4 DEF Cells0, Snapshots, IsSignal
<1> QED BY <1>5, <1>6, <1>7, <1>8, <1>9 DEF Cells0

(* From forth_signal_handler(), above what the interrupted program has.    *)
LEMMA HandlerKeeps ==
  ASSUME Known, Control, Cells0, forth_signal_handler, \A i \in 1 .. Len(act) : ~IsSignal(i)
  PROVE  Control' /\ Cells0'
<1> DEFINE n == Len(act)
           new == NewActivation("signal", GlobalSp, GlobalTp, GlobalRp, GlobalRtp, Snapshot)
<1>0. /\ n \in Nat /\ Len(act') = n + 1 /\ act' # <<>>
      /\ \A i \in 1 .. n : act'[i] = act[i]
      /\ act'[n + 1] = new
      /\ vmEntryRp' = GlobalRp' /\ mode' = "vm" /\ ecode' = "ok"
      /\ GlobalRp' = GlobalRp + SignalOffset
      /\ UNCHANGED <<rcell, rtag, link>> /\ mode # "wild"
  <2>1. /\ GlobalRp' \in RDepth /\ GlobalRp' = GlobalRp + SignalOffset
        /\ UNCHANGED <<rcell, rtag, link>> /\ TypeOK /\ mode # "wild"
        /\ Enter("signal", GlobalSp, GlobalTp, GlobalRp, GlobalRtp, Snapshot)
    BY DEF forth_signal_handler, HandlerDepth, Known, TypeInv
  <2>2. Snapshot \in ([RIndex -> Cells] \X [RIndex -> Tags]) \cup {<<>>}
    BY Facts DEF Snapshot, ReturnOK, Cells, Tags
  <2> QED BY <2>1, <2>2, EnterStep DEF Kinds, TypeOK
<1>1. /\ new.kind = "signal" /\ new.base = GlobalRp + SignalOffset /\ new.entryRp = vmEntryRp
      /\ new.rp = GlobalRp /\ new.ecode = ecode /\ new.mode = mode /\ new.stack = Snapshot
  BY <1>0 DEF NewActivation
<1> HIDE DEF new
<1>2. GlobalRp \in Int /\ GlobalRp >= 0 /\ SignalOffset \in Nat
      /\ (ecode = "ok" => Above(GlobalRp, vmEntryRp, mode, n))
  BY Facts DEF Control, Own, Floors
<1>3. PICK m \in Nat : m = n
  BY <1>0
<1>4. /\ \A i \in 1 .. m : act'[i] = act[i] /\ act[i].kind # "signal"
      /\ act'[m + 1] = new /\ Len(act') = m + 1 /\ Len(act) = m
      /\ \A i \in 1 .. m + 1 : i \in 1 .. m \/ i = m + 1
  BY <1>0, <1>3 DEF IsSignal
<1>b. \A i \in 0 .. m : Base(i)' = Base(i)
  BY <1>4 DEF Base
<1>5. Control'
  <2>1. RunsOk'
    BY <1>0, <1>1, <1>4 DEF Control, RunsOk, IsSignal
  <2>2. Own'
    BY <1>0, <1>1, <1>2, <1>4 DEF Own, Above, Base
  <2>3. Chain'
    <3> SUFFICES ASSUME NEW i \in 1 .. m + 1
                 PROVE  (IF IsSignal(i)
                         THEN /\ act[i].base = act[i].rp + SignalOffset
                              /\ act[i].ecode = "ok"
                                   => Above(act[i].rp, act[i].entryRp, act[i].mode, i - 1)
                         ELSE act[i].entryRp = Base(i - 1) /\ act[i].base >= Base(i - 1))'
      BY <1>4 DEF Chain
    <3>1. CASE i = m + 1
      BY <1>1, <1>2, <1>3, <1>4, <1>b, <3>1 DEF IsSignal, Above
    <3>2. CASE i # m + 1
      <4>1. i \in 1 .. m /\ i - 1 \in 0 .. m
        BY <3>2
      <4> QED BY <1>4, <1>b, <4>1 DEF Control, Chain, IsSignal
    <3> QED BY <3>1, <3>2
  <2>4. Floors'
    <3>1. \A i \in 1 .. m + 1 : act'[i].base >= 0 /\ act'[i].rp >= 0
      BY <1>1, <1>2, <1>4 DEF Control, Floors
    <3>2. act'[1].kind # "signal" => act'[1].base = 0
      BY <1>1, <1>4, Facts DEF Control, Floors, IsSignal
    <3>3. ASSUME m >= 1 PROVE act[1].base = 0
      BY <1>4, <3>3, Facts DEF Control, Floors, IsSignal
    <3>4. ASSUME NEW k \in 1 .. m + 1, NEW i \in 1 .. m + 1, k < i, k = 1 \/ act'[k].kind = "signal"
          PROVE  act'[k].base <= act'[i].base
      <4>1. k = 1 /\ k \in 1 .. m
        BY <1>4, <3>4
      <4> QED BY <1>4, <3>1, <3>3, <4>1
    <3>5. GlobalRp' >= 0
      BY <1>0, <1>2
    <3> QED BY <1>0, <1>4, <3>1, <3>2, <3>4, <3>5 DEF Floors, IsSignal
  <2> QED BY <2>1, <2>2, <2>3, <2>4 DEF Control
<1>6. ecode = "ok" => Tied
  BY DEF Cells0, Unwinding, IsSignal
<1>7. ~Unwinding' => Tied' /\ mode' # "wild"
  <2>1. ~Unwinding' => ecode = "ok"
    BY <1>1, <1>4 DEF Unwinding
  <2>2. Tied => Tied'
    BY <1>0, <1>2, Facts DEF Tied, LinkAt
  <2> QED BY <1>0, <1>6, <2>1, <2>2
<1>8. TiedUnder'
  BY <1>0, <1>1, <1>4, <1>6 DEF TiedUnder, Tied, LinkAt, IsSignal
<1>9. LinkFloor'
  BY <1>0, <1>4, Facts DEF Cells0, LinkFloor
<1>10. Snapshots'
  <2>1. \A j \in RIndex : j <= GlobalRp => rcell[j] = Snapshot[1][j] /\ rtag[j] = Snapshot[2][j]
    BY DEF Snapshot
  <2> QED BY <1>0, <1>1, <1>4, <2>1 DEF Snapshots, IsSignal
<1> QED BY <1>5, <1>7, <1>8, <1>9, <1>10 DEF Cells0

-----------------------------------------------------------------------------
(* Leaving vm() *)

(* What holds of the callers' part of the C stack when the top is popped.  *)
LEMMA CallersKeep ==
  ASSUME Known, Control, Cells0, act # <<>>, act' = Callers, GlobalRp' >= 0,
         link' = Unlinked(Top.base), UNCHANGED <<rcell, rtag>>,
         mode' \in {"vm", "traverse"} => ecode' = "ok", Own',
         ~Unwinding' => Tied' /\ mode' # "wild"
  PROVE  Control' /\ Cells0'
<1>1. PICK m \in Nat : Len(act) = m + 1
  <2>1. Len(act) \in Nat /\ Len(act) # 0
    BY Facts
  <2>2. Len(act) - 1 \in Nat /\ Len(act) = (Len(act) - 1) + 1
    BY <2>1
  <2> QED BY <2>2
<1>2. /\ Len(act') = m /\ \A i \in 1 .. m : act'[i] = act[i] /\ i \in 1 .. Len(act)
      /\ Top = act[m + 1] /\ m + 1 \in 1 .. Len(act)
      /\ (act' # <<>> <=> m # 0)
  <2>1. act \in Seq(Activation)
    BY Facts
  <2>2. Len(Callers) = m /\ (\A i \in 1 .. m : Callers[i] = act[i]) /\ Callers \in Seq(Activation)
    BY <1>1, <2>1, TopAndCallers
  <2> QED BY <1>1, <2>2, EmptySeq DEF Top
<1>b. \A i \in 0 .. m : Base(i)' = Base(i)
  BY <1>2 DEF Base
<1>3. Control'
  <2>1. RunsOk'
    BY <1>2 DEF Control, RunsOk, IsSignal
  <2>3. Chain'
    <3> SUFFICES ASSUME NEW i \in 1 .. m
                 PROVE  (IF IsSignal(i)
                         THEN /\ act[i].base = act[i].rp + SignalOffset
                              /\ act[i].ecode = "ok"
                                   => Above(act[i].rp, act[i].entryRp, act[i].mode, i - 1)
                         ELSE act[i].entryRp = Base(i - 1) /\ act[i].base >= Base(i - 1))'
      BY <1>2 DEF Chain
    <3>1. i \in 1 .. Len(act) /\ i - 1 \in 0 .. m
      BY <1>1
    <3> QED BY <1>2, <1>b, <3>1 DEF Control, Chain, IsSignal, Above
  <2>4. Floors'
    <3>1. act' # <<>> => act'[1] = act[1] /\ act # <<>>
      BY <1>2
    <3> QED BY <1>2, <3>1 DEF Control, Floors, IsSignal
  <2> QED BY <2>1, <2>3, <2>4 DEF Control
<1>4. /\ \A j \in RIndex : link'[j] # NoLink => link'[j] = link[j] /\ j <= Top.base
      /\ UNCHANGED <<rcell, rtag>>
  <2>1. \A j \in RIndex : link'[j] = IF j > Top.base THEN NoLink ELSE link[j]
    BY DEF Unlinked
  <2>2. Top.base \in Int
    BY <1>2, Facts
  <2> QED BY <2>1, <2>2, Facts
<1>5. TiedUnder'
  BY <1>2, <1>4 DEF Cells0, TiedUnder, LinkAt, IsSignal
<1>6. LinkFloor'
  <2>1. ASSUME NEW j \in RIndex, link'[j] # NoLink PROVE act' # <<>> /\ j > act'[1].base
    <3>1. j > act[1].base /\ j <= act[m + 1].base
      BY <1>2, <1>4, <2>1 DEF Cells0, LinkFloor
    <3>2. m # 0
      BY <1>2, <2>1, <3>1, Facts
    <3> QED BY <1>2, <3>1, <3>2
  <2> QED BY <2>1 DEF LinkFloor
<1>7. Snapshots'
  BY <1>2, <1>4 DEF Cells0, Snapshots, IsSignal
<1> QED BY <1>3, <1>5, <1>6, <1>7 DEF Cells0

LEMMA ReturnsKeep ==
  ASSUME Known, Control, Cells0, Returns, honest'
  PROVE  Control' /\ Cells0'
<1>1. PICK m \in Nat : Len(act) = m + 1
  <2>1. act # <<>>
    BY DEF Returns, ForthVM, TraverseCallbackReturns, SignalReturns, Known, TypeInv, CallersInv
  <2>2. Len(act) \in Nat /\ Len(act) # 0
    BY <2>1, Facts
  <2>3. Len(act) - 1 \in Nat /\ Len(act) = (Len(act) - 1) + 1
    BY <2>2
  <2> QED BY <2>3
<1>2. /\ act # <<>> /\ act' = Callers /\ link' = Unlinked(Top.base) /\ UNCHANGED <<rcell, rtag>>
      /\ mode = "exit" /\ Top = act[m + 1] /\ m + 1 \in 1 .. Len(act)
  <2>1. act' = Callers /\ link' = Unlinked(Top.base) /\ UNCHANGED <<rcell, rtag>> /\ mode = "exit"
    BY DEF Returns, ForthVM, TraverseCallbackReturns, SignalReturns
  <2>2. act # <<>> /\ Top = act[m + 1] /\ m + 1 \in 1 .. Len(act)
    BY <1>1, Facts DEF Top
  <2> QED BY <2>1, <2>2
<1>3. Len(act') = m /\ \A i \in 1 .. m : act'[i] = act[i]
  <2>1. act \in Seq(Activation)
    BY Facts
  <2> QED BY <1>1, <1>2, <2>1, TopAndCallers
<1>b. Base(m)' = Base(m) /\ Base(m + 1) = Top.base
  BY <1>2, <1>3 DEF Base
<1>4. /\ \A j \in RIndex : link'[j] # NoLink => link'[j] = link[j] /\ j <= Top.base
  <2>1. \A j \in RIndex : link'[j] = IF j > Top.base THEN NoLink ELSE link[j]
    BY <1>2 DEF Unlinked
  <2>2. Top.base \in Int
    BY <1>2, Facts
  <2> QED BY <2>1, <2>2, Facts
<1>5. ecode = "ok" => GlobalRp = Top.base
  BY <1>1, <1>2, <1>b DEF Control, Own, Above
<1>6. CASE Top.kind # "signal"
  <2>1. Top.entryRp = Base(m) /\ Top.base >= Base(m)
    <3>1. m + 1 - 1 = m
      OBVIOUS
    <3> QED BY <1>2, <1>6, <3>1 DEF Control, Chain, IsSignal
  <2>2. /\ mode' \in {"host", "traverse"} /\ GlobalRp' >= 0
        /\ mode' = "traverse" => ecode' = "ok"
        /\ ecode' = "ok" => ecode = "ok" /\ GlobalRp' = GlobalRp /\ vmEntryRp' = Top.entryRp
    <3>1. CASE ForthVM
      BY <3>1 DEF ForthVM, EmptiesReturn, Control, Floors
    <3>2. CASE TraverseCallbackReturns
      BY <3>2 DEF TraverseCallbackReturns, Control, Floors
    <3> QED BY <1>6, <3>1, <3>2 DEF Returns, SignalReturns
  <2>3. Own'
    BY <1>3, <1>5, <1>b, <2>1, <2>2 DEF Own, Above
  <2>4. ASSUME ~Unwinding' PROVE Tied' /\ mode' # "wild"
    <3>1. ecode' = "ok" /\ ecode = "ok"
      BY <2>2, <2>4 DEF Unwinding
    <3>2. ~Unwinding
      <4>1. \A i \in 1 .. m + 1 : i \in 1 .. m \/ i = m + 1
        OBVIOUS
      <4> QED BY <1>1, <1>2, <1>3, <1>6, <2>4, <3>1, <4>1 DEF Unwinding
    <3> QED BY <1>2, <1>4, <2>2, <3>1, <3>2 DEF Cells0, Tied, LinkAt
  <2> QED BY <1>2, <2>2, <2>3, <2>4, CallersKeep
<1>7. CASE Top.kind = "signal"
  <2>1. /\ GlobalRp' = Top.rp /\ vmEntryRp' = Top.entryRp /\ mode' = Top.mode /\ ecode' = Top.ecode
    BY <1>7 DEF Returns, ForthVM, TraverseCallbackReturns, SignalReturns
  <2>2. GlobalRp' >= 0 /\ mode' # "wild" /\ (mode' \in {"vm", "traverse"} => ecode' = "ok")
    BY <1>2, <1>7, <2>1 DEF Control, Floors, RunsOk, IsSignal
  <2>3. Own'
    <3>1. Top.ecode = "ok" => Above(Top.rp, Top.entryRp, Top.mode, m)
      <4>1. m + 1 - 1 = m
        OBVIOUS
      <4> QED BY <1>2, <1>7, <4>1 DEF Control, Chain, IsSignal
    <3> QED BY <1>3, <1>b, <2>1, <3>1 DEF Own, Above
  <2>4. ASSUME ~Unwinding' PROVE Tied'
    <3>1. Top.ecode = "ok"
      BY <2>1, <2>4 DEF Unwinding
    <3>2. \A j \in RIndex : link[j] # NoLink /\ j <= Top.base => LinkAt(j, Top.rp)
      BY <1>2, <1>7, <3>1 DEF Cells0, TiedUnder, IsSignal
    <3> QED BY <1>2, <1>4, <2>1, <3>2 DEF Tied, LinkAt
  <2> QED BY <1>2, <2>2, <2>3, <2>4, CallersKeep
<1> QED BY <1>6, <1>7

-----------------------------------------------------------------------------
(* The theorems *)

(* A handler is entered only when no other is active.                      *)
LEMMA OneSignalStep ==
  "nested" \notin Callbacks /\ TypeInv /\ OneSignal /\ [Next]_vars => OneSignal'
<1> SUFFICES ASSUME "nested" \notin Callbacks, TypeInv, OneSignal, [Next]_vars
             PROVE  OneSignal'
  OBVIOUS
<1>0. act \in Seq(Activation) /\ Len(act) \in Nat
  BY LenProperties DEF TypeInv, TypeOK
<1>1. CASE UNCHANGED act
  BY <1>1 DEF OneSignal, IsSignal
<1>2. ASSUME NEW new, act' = Append(act, new),
             new.kind = "signal" => \A i \in 1 .. Len(act) : ~IsSignal(i)
      PROVE  OneSignal'
  <2>1. PICK m \in Nat : m = Len(act)
    BY <1>0
  <2>2. /\ Len(act') = m + 1 /\ act'[m + 1] = new
        /\ \A i \in 1 .. m : act'[i] = act[i]
    BY <1>0, <1>2, <2>1
  <2>3. \A i \in 1 .. m + 1 : i \in 1 .. m \/ i = m + 1
    OBVIOUS
  <2> QED BY <1>2, <2>1, <2>2, <2>3 DEF OneSignal, IsSignal
<1>3. ASSUME act # <<>>, act' = Callers PROVE OneSignal'
  <2>1. PICK m \in Nat : m = Len(act) - 1
    BY <1>0, <1>3, TopAndCallers
  <2>2. /\ Len(act') = m /\ \A i \in 1 .. m : act'[i] = act[i] /\ i \in 1 .. Len(act)
    BY <1>0, <1>3, <2>1, TopAndCallers
  <2> QED BY <2>2 DEF OneSignal, IsSignal
<1>4. CASE Opcodes1
  <2>1. UNCHANGED act
    BY <1>4, OpcodeLeaves
  <2> QED BY <1>1, <2>1
<1>5. ASSUME NEW kind \in {"forthvm", "traverse"}, Enter(kind, 0, 0, 0, 0, <<>>)
      PROVE  OneSignal'
  <2> DEFINE new == NewActivation(kind, 0, 0, 0, 0, <<>>)
  <2>1. act' = Append(act, new) /\ new.kind # "signal"
    BY <1>5 DEF Enter, NewActivation
  <2> HIDE DEF new
  <2> QED BY <1>2, <2>1
<1>6. CASE RunOps \/ CompileError \/ NextLine \/ CPP_evaluate \/ EvaluateReturns \/ CPP_traverse_wordlist
           \/ TraverseNext
  <2>1. UNCHANGED act \/ \E kind \in {"forthvm", "traverse"} : Enter(kind, 0, 0, 0, 0, <<>>)
    BY <1>6 DEF RunOps, CompileError, NextLine, CPP_evaluate, EvaluateReturns, CPP_traverse_wordlist,
       TraverseNext, Raise, Proceed, hostVars
  <2> QED BY <1>1, <1>5, <2>1
<1>7. CASE forth_signal_handler
  <2> DEFINE new == NewActivation("signal", GlobalSp, GlobalTp, GlobalRp, GlobalRtp, Snapshot)
  <2>1. act' = Append(act, new) /\ \A i \in 1 .. Len(act) : ~IsSignal(i)
    BY <1>7 DEF forth_signal_handler, Enter, NewActivation, MaySignal, SignalActive, IsSignal
  <2> HIDE DEF new
  <2> QED BY <1>2, <2>1
<1>8. CASE Returns
  <2>1. act # <<>> /\ act' = Callers
    BY <1>8 DEF Returns, ForthVM, TraverseCallbackReturns, SignalReturns, TypeInv, CallersInv
  <2> QED BY <1>3, <2>1
<1>9. CASE UNCHANGED vars
  BY <1>1, <1>9 DEF vars
<1> QED BY <1>4, <1>6, <1>7, <1>8, <1>9 DEF Next, Opcodes, Opcodes1, Host

(* Whatever the machine, the compiler, TRAVERSE-WORDLIST and a signal      *)
(* handler do, an honest run keeps the invariant.                          *)
LEMMA KeepStep ==
  "nested" \notin Callbacks /\ Known /\ KeepInv /\ [Next]_vars => KeepInv'
<1> SUFFICES ASSUME "nested" \notin Callbacks, Known, KeepInv, [Next]_vars, honest'
             PROVE  Control' /\ Cells0'
  BY DEF KeepInv
<1>0. honest
  BY DEF Next, Opcodes, Host, Returns, DataWord, L_push_r, L_twopush_r, L_pop_r, L_twopop_r, L_puship,
     L_loop, L_plusloop, L_unloop, CPP_rpstore, CPP_spstore, L_definition, L_execute, L_ret, L_jz, L_jmp,
     L_quit, L_abort, CPP_evaluate, CPP_traverse_wordlist, RunOps, CompileError, NextLine,
     EvaluateReturns, TraverseNext, ForthVM, TraverseCallbackReturns, SignalReturns,
     forth_signal_handler, LeaveLoop, NextIteration, PushReturn, PopReturn, Call, ClearReturn,
     returnVars, vars
<1>1. Control /\ Cells0
  BY <1>0 DEF KeepInv
<1>s. ASSUME UNCHANGED <<returnVars, vmEntryRp, act>>, UNCHANGED ecode \/ ecode' # "ok",
             mode' = mode \/ mode' \in {"vm", "exit", "host", "traverse"},
             mode' = "exit" /\ ecode' = "ok" => mode = "exit",
             mode' \in {"vm", "traverse"} => ecode' = "ok"
      PROVE  Control' /\ Cells0'
  <2>1. RunsOk' /\ Chain' /\ Floors' /\ Own'
    BY <1>1, <1>s DEF Control, RunsOk, Chain, Floors, Own, Above, Base, IsSignal, returnVars
  <2>2. ~Unwinding' => ~Unwinding
    BY <1>s DEF Unwinding
  <2> QED BY <1>1, <1>s, <2>1, <2>2
          DEF Control, Cells0, Tied, TiedUnder, LinkFloor, LinkAt, Snapshots, IsSignal, returnVars
<1>2. CASE Opcodes1
  BY <1>1, <1>2, OpcodeStep
<1>3. CASE RunOps
  BY <1>1, <1>3, EnterKeeps DEF RunOps
<1>4. CASE CompileError
  BY <1>4, <1>s DEF CompileError
<1>5. CASE NextLine
  <2>1. /\ act = <<>> /\ act' = <<>> /\ mode = "host" /\ mode' = "host"
        /\ UNCHANGED <<GlobalRp, vmEntryRp, rcell, rtag, link>> /\ GlobalRp = 0 /\ vmEntryRp = 0
    BY <1>5 DEF NextLine, returnVars, Known, PromptInv, BottomInv
  <2>2. Len(act') = 0 /\ \A i \in 1 .. Len(act') : FALSE
    BY <2>1, EmptySeq
  <2>3. Control'
    BY <2>1, <2>2 DEF Control, RunsOk, Chain, Floors, Own, Above, Base
  <2>4. \A j \in RIndex : link'[j] = NoLink
    BY <1>1, <2>1 DEF Cells0, LinkFloor
  <2>5. Cells0'
    BY <2>1, <2>2, <2>4 DEF Cells0, Tied, TiedUnder, LinkFloor, Snapshots
  <2> QED BY <2>3, <2>5
<1>6. CASE CPP_evaluate
  BY <1>6, <1>s DEF CPP_evaluate
<1>7. CASE EvaluateReturns
  BY <1>7, <1>s DEF EvaluateReturns
<1>8. CASE CPP_traverse_wordlist
  <2>1. mode = "vm" /\ ecode = "ok" /\ act # <<>>
    BY <1>1, <1>8 DEF CPP_traverse_wordlist, Opcode, Control, RunsOk, Known, TypeInv, CallersInv
  <2>2. CASE UNCHANGED returnVars /\ Enter("traverse", 0, 0, 0, 0, <<>>)
    BY <1>1, <2>1, <2>2, EnterKeeps
  <2>3. CASE UNCHANGED returnVars /\ (Raise("notaddr") \/ Proceed)
    BY <1>1, <2>1, <2>3, <1>s DEF Raise, Proceed, hostVars
  <2> QED BY <1>8, <2>2, <2>3 DEF CPP_traverse_wordlist
<1>9. CASE TraverseNext
  <2>1. ecode = "ok" /\ act # <<>>
    BY <1>1, <1>9 DEF TraverseNext, Control, RunsOk, Known, TypeInv, CallersInv
  <2>2. CASE UNCHANGED returnVars /\ Enter("traverse", 0, 0, 0, 0, <<>>)
    BY <1>1, <2>1, <2>2, EnterKeeps
  <2>3. CASE mode' = "vm" /\ UNCHANGED <<returnVars, vmEntryRp, act, ecode>>
    BY <2>1, <2>3, <1>s
  <2> QED BY <1>9, <2>1, <2>2, <2>3 DEF TraverseNext
<1>10. CASE Returns
  BY <1>1, <1>10, ReturnsKeep
<1>11. CASE forth_signal_handler
  <2>1. \A i \in 1 .. Len(act) : ~IsSignal(i)
    BY <1>11 DEF forth_signal_handler, MaySignal, SignalActive, IsSignal
  <2> QED BY <1>1, <1>11, <2>1, HandlerKeeps
<1>12. CASE UNCHANGED vars
  BY <1>1, <1>12 DEF vars, Control, Cells0, RunsOk, Chain, Floors, Own, Above, Base, IsSignal,
     Tied, TiedUnder, LinkFloor, LinkAt, Snapshots, Unwinding
<1> QED BY <1>2, <1>3, <1>4, <1>5, <1>6, <1>7, <1>8, <1>9, <1>10, <1>11, <1>12
        DEF Next, Opcodes, Opcodes1, Host

LEMMA KeepInit == Init => TypeInv /\ InStepInv /\ PromptInv /\ OneSignal /\ KeepInv
<1> SUFFICES ASSUME Init PROVE TypeInv /\ InStepInv /\ PromptInv /\ OneSignal /\ KeepInv
  OBVIOUS
<1>1. Len(act) = 0 /\ act = <<>> /\ GlobalRp = 0 /\ vmEntryRp = 0 /\ mode = "host"
  BY EmptySeq DEF Init
<1>2. \A j \in RIndex : link[j] = NoLink
  BY DEF Init
<1>3. InStepInv /\ PromptInv
  BY <1>1 DEF Init, InStepInv, ReturnPointersInStep, PromptInv, BottomInv, LeavesAtEntry
<1>4. Control
  BY <1>1 DEF Control, RunsOk, Chain, Floors, Own, Above, Base
<1>5. OneSignal /\ Cells0
  BY <1>1, <1>2 DEF OneSignal, Cells0, Tied, TiedUnder, LinkFloor, Snapshots
<1> QED BY <1>3, <1>4, <1>5, TypeInit DEF KeepInv

LEMMA KeepCorrect == "nested" \notin Callbacks => (Spec => [](Known /\ KeepInv))
<1> SUFFICES ASSUME "nested" \notin Callbacks PROVE Spec => [](Known /\ KeepInv)
  OBVIOUS
<1>1. Init => Known /\ KeepInv
  BY KeepInit DEF Known
<1>2. Known /\ KeepInv /\ [Next]_vars => (Known /\ KeepInv)'
  BY TypeStep, InStepStep, PromptStep, OneSignalStep, KeepStep DEF Known
<1> QED BY <1>1, <1>2, PTL DEF Spec

(* As long as a program keeps the rules, every return address and loop     *)
(* start it has on the return stack stays where it was put, through calls, *)
(* EVALUATE, TRAVERSE-WORDLIST, errors and signal handlers (vm(), L_ret,   *)
(* forth_signal_handler).                                                  *)
THEOREM LinksKeptCorrect == "nested" \notin Callbacks => (Spec => []LinksKept)
<1>1. Known /\ KeepInv => LinksKept
  BY DEF KeepInv, Cells0, Tied, LinkAt, LinksKept
<1> QED BY <1>1, KeepCorrect, PTL

(* Such a program leaves vm() without an error only when all it entered is *)
(* done, with its caller's return stack as deep as it was (L_ret).         *)
THEOREM LeavesWhenDoneCorrect == "nested" \notin Callbacks => (Spec => []LeavesWhenDone)
<1>1. Known /\ KeepInv => LeavesWhenDone
  <2> SUFFICES ASSUME Known, KeepInv, honest, ~Unwinding, mode = "exit"
               PROVE  GlobalRp = Top.base /\ \A i \in RIndex : i > Top.base => link[i] = NoLink
    BY DEF LeavesWhenDone
  <2>1. act # <<>> /\ Len(act) # 0
    BY Facts DEF Known, TypeInv, CallersInv
  <2>2. GlobalRp = Top.base
    BY <2>1 DEF KeepInv, Control, Own, Above, Base, Unwinding, Top
  <2>3. \A i \in RIndex : link[i] # NoLink => i <= GlobalRp
    BY DEF KeepInv, Cells0, Tied, LinkAt
  <2> QED BY <2>2, <2>3, Facts
<1> QED BY <1>1, KeepCorrect, PTL

(* The machine never runs what is no program: L_ret, LOOP and +LOOP jump   *)
(* to nothing but the address that was put there for them.                 *)
THEOREM NoWildRunCorrect == "nested" \notin Callbacks => (Spec => []NoWildRun)
<1>1. Known /\ KeepInv => NoWildRun
  BY DEF KeepInv, Cells0, NoWildRun
<1> QED BY <1>1, KeepCorrect, PTL

(* A signal handler leaves the return stack of the program it interrupted, *)
(* wherever it interrupted it, as it found it (forth_signal_handler).      *)
THEOREM HandlerKeepsStackCorrect == "nested" \notin Callbacks => (Spec => []HandlerKeepsStack)
<1>1. Known /\ KeepInv => HandlerKeepsStack
  <2> SUFFICES ASSUME Known, KeepInv, honest, mode = "exit", Top.kind = "signal"
               PROVE  \A i \in RIndex : i <= Top.rp =>
                        rcell[i] = Top.stack[1][i] /\ rtag[i] = Top.stack[2][i]
    BY DEF HandlerKeepsStack
  <2>1. Len(act) \in 1 .. Len(act)
    BY Facts DEF Known, TypeInv, CallersInv
  <2> QED BY <2>1 DEF KeepInv, Cells0, Snapshots, IsSignal, Top
<1> QED BY <1>1, KeepCorrect, PTL

===============================================================================
