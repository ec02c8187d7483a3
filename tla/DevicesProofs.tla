----------------------------- MODULE DevicesProofs -----------------------------
(* Theorems about Devices, for every set of signals and words and for      *)
(* every bound.                                                            *)
EXTENDS Devices, SequenceTheorems, WellFoundedInduction, TLAPS

Ops == {"none", "key", "keyquery", "accept", "signal", "lookup"}
Ats == {"idle", "clear", "save", "raw", "read", "store", "restore", "table"}

Frame ==
  [who : Signals \cup {"main"}, left : Int, op : Ops, at : Ats, t1 : Settings,
   ch : [char : Chars, num : Nat], sig : Signals \cup {NoXt}, xt : Words \cup {NoXt},
   room : 0 .. MaxRoom, buf : [1 .. MaxRoom + 1 -> Chars \cup {"none"}],
   n2 : 0 .. MaxRoom, heard : Seq(Chars)]

Phases == Running \cup {"exited", "killed"}

(* How far a frame got fits the word it is in.                             *)
Consistent(f) ==
  /\ f.op \in {"none", "lookup"} <=> f.at = "idle"
  /\ f.op = "signal" <=> f.at = "table"
  /\ f.at = "clear" => f.op = "key"
  /\ f.at = "store" => f.op = "keyquery"

(* The frames: the program is the first, and is in no word outside of the  *)
(* lines it runs.                                                          *)
FramesOK ==
  /\ frames \in Seq(Frame) /\ frames # <<>>
  /\ phase # "run" => frames[1].op = "none"
  /\ frames[1].op # "lookup"
  /\ \A i \in 1 .. Len(frames) : Consistent(frames[i])

TypeOK ==
  /\ FramesOK /\ phase \in Phases
  /\ tty \in Settings /\ tios0 \in Settings /\ original \in Settings
  /\ typed \in Seq(Chars) /\ strokes \in Nat /\ read \in Nat
  /\ key_query_char \in [char : Chars, num : Nat]
  /\ disp \in [Signals -> Dispositions] /\ signal_xtmap \in [Signals -> Words \cup {NoXt}]
  /\ pending \subseteq Signals /\ sent \in Nat /\ got \in Nat /\ handed \in Nat

-----------------------------------------------------------------------------
(* Frames *)

(* The innermost frame, and those under it.                                *)
LEMMA SelfAndUnder ==
  ASSUME FramesOK
  PROVE  /\ Len(frames) \in Nat /\ Len(frames) >= 1
         /\ Self \in Frame /\ Self = frames[Len(frames)]
         /\ Under \in Seq(Frame) /\ Len(Under) = Len(frames) - 1
         /\ DOMAIN Under = 1 .. Len(frames) - 1
         /\ DOMAIN frames = 1 .. Len(frames)
         /\ \A i \in 1 .. Len(frames) - 1 : Under[i] = frames[i]
         /\ \A i \in 1 .. Len(frames) : frames[i] \in Frame
<1>1. Len(frames) \in Nat /\ Len(frames) >= 1 /\ DOMAIN frames = 1 .. Len(frames)
  BY EmptySeq, LenProperties DEF FramesOK
<1>2. Self = frames[Len(frames)] /\ Self \in Frame
  BY <1>1, ElementOfSeq DEF Self, Last, FramesOK
<1>3. \A i \in 1 .. Len(frames) : frames[i] \in Frame
  BY <1>1, ElementOfSeq DEF FramesOK
<1> DEFINE n == Len(frames) - 1
<1>4. n \in Int /\ 1 \in Int /\ n >= 0 /\ \A i \in 1 .. n : frames[i] \in Frame
  BY <1>1, <1>3
<1>5. Under = SubSeq(frames, 1, n)
  BY DEF Under, Front
<1> HIDE DEF n
<1>6. /\ SubSeq(frames, 1, n) \in Seq(Frame)
      /\ Len(SubSeq(frames, 1, n)) = IF 1 <= n THEN n - 1 + 1 ELSE 0
      /\ \A i \in 1 .. n - 1 + 1 : SubSeq(frames, 1, n)[i] = frames[1 + i - 1]
  BY <1>4, SubSeqProperties, Z3
<1>7. Len(Under) = n
  <2>1. (IF 1 <= n THEN n - 1 + 1 ELSE 0) = n
    BY <1>4
  <2> QED BY <1>5, <1>6, <2>1, Zenon
<1>8. ASSUME NEW i \in 1 .. n
      PROVE  Under[i] = frames[i]
  <2>1. i \in 1 .. n - 1 + 1 /\ 1 + i - 1 = i
    BY <1>4
  <2> QED BY <1>5, <1>6, <2>1, Zenon
<1>9. Under \in Seq(Frame) /\ DOMAIN Under = 1 .. n
  BY <1>5, <1>6, <1>7, LenProperties
<1> QED BY <1>1, <1>2, <1>3, <1>7, <1>8, <1>9 DEF n

(* A step of the innermost frame leaves the others alone.                  *)
LEMMA BecomeStep ==
  ASSUME FramesOK, NEW f \in Frame, Become(f)
  PROVE  /\ frames' \in Seq(Frame) /\ frames' # <<>> /\ Len(frames') = Len(frames)
         /\ \A i \in 1 .. Len(frames) : frames'[i] = IF i = Len(frames) THEN f ELSE frames[i]
<1>1. frames' = Append(Under, f)
  BY DEF Become, Under
<1>2. /\ Under \in Seq(Frame) /\ Len(Under) = Len(frames) - 1 /\ Len(frames) \in Nat
      /\ Len(frames) >= 1 /\ \A i \in 1 .. Len(frames) - 1 : Under[i] = frames[i]
  BY SelfAndUnder
<1>3. /\ Append(Under, f) \in Seq(Frame) /\ Append(Under, f) # <<>>
      /\ Len(Append(Under, f)) = Len(Under) + 1
      /\ \A i \in 1 .. Len(Under) : Append(Under, f)[i] = Under[i]
      /\ Append(Under, f)[Len(Under) + 1] = f
  BY <1>2, AppendProperties
<1> QED BY <1>1, <1>2, <1>3

(* A handler that begins.                                                  *)
LEMMA PushStep ==
  ASSUME FramesOK, NEW f \in Frame, frames' = Append(frames, f)
  PROVE  /\ frames' \in Seq(Frame) /\ frames' # <<>> /\ Len(frames') = Len(frames) + 1
         /\ \A i \in 1 .. Len(frames) : frames'[i] = frames[i]
         /\ frames'[Len(frames) + 1] = f
  BY AppendProperties DEF FramesOK

(* A handler that returns.                                                 *)
LEMMA PopStep ==
  ASSUME FramesOK, Len(frames) > 1, frames' = Under
  PROVE  /\ frames' \in Seq(Frame) /\ frames' # <<>> /\ Len(frames') = Len(frames) - 1
         /\ \A i \in 1 .. Len(frames) - 1 : frames'[i] = frames[i]
<1>1. Len(Under) # 0
  BY SelfAndUnder
<1> QED BY <1>1, SelfAndUnder, EmptySeq

(* A frame in no word, and the one frame of a process that has ended.      *)
LEMMA IdleTyped ==
  ASSUME NEW who \in Signals \cup {"main"}, NEW left \in Int
  PROVE  /\ Idle(who, left) \in Frame
         /\ Idle(who, left).op = "none" /\ Idle(who, left).at = "idle"
         /\ Idle(who, left).ch = NoKey
<1>1. <<>> \in Seq(Chars)
  BY EmptySeq
<1>2. [i \in 1 .. (MaxRoom + 1) |-> "none"] \in [1 .. MaxRoom + 1 -> Chars \cup {"none"}]
  OBVIOUS
<1>3. Raw(FALSE) \in Settings /\ NoKey \in [char : Chars, num : Nat]
  BY DEF Raw, Settings, NoKey, Chars
<1>4. 0 \in 0 .. MaxRoom /\ "none" \in Ops /\ "idle" \in Ats
  BY DevicesAssumption DEF Ops, Ats
<1>5. ASSUME NEW buf \in [1 .. MaxRoom + 1 -> Chars \cup {"none"}]
      PROVE  [who |-> who, left |-> left, op |-> "none", at |-> "idle", t1 |-> Raw(FALSE),
              ch |-> NoKey, sig |-> NoXt, xt |-> NoXt, room |-> 0, buf |-> buf, n2 |-> 0,
              heard |-> <<>>] \in Frame
  BY <1>1, <1>3, <1>4 DEF Frame
<1>6. Idle(who, left) \in Frame
  BY <1>2, <1>5 DEF Idle
<1> QED BY <1>6 DEF Idle

LEMMA MainIdle ==
  /\ Idle("main", MaxOps) \in Frame
  /\ Idle("main", MaxOps).op = "none" /\ Idle("main", MaxOps).at = "idle"
  /\ Idle("main", MaxOps).ch = NoKey
<1>1. MaxOps \in Int /\ "main" \in Signals \cup {"main"}
  BY DevicesAssumption
<1> QED BY <1>1, IdleTyped

-----------------------------------------------------------------------------
(* Type correctness *)

(* The frame of a word that is started, or goes on.                        *)
LEMMA MoveOK ==
  ASSUME FramesOK, NEW f \in Frame, Become(f), phase' = phase,
         Consistent(f), f.op # "lookup",
         f.op = "none" \/ Self.op # "none" \/ (Len(frames) = 1 => phase = "run")
  PROVE  FramesOK'
<1>1. /\ frames' \in Seq(Frame) /\ frames' # <<>> /\ Len(frames') = Len(frames)
      /\ \A i \in 1 .. Len(frames) : frames'[i] = IF i = Len(frames) THEN f ELSE frames[i]
  BY BecomeStep
<1>2. Len(frames) \in Nat /\ Len(frames) >= 1 /\ Self = frames[Len(frames)]
  BY SelfAndUnder
<1>3. (phase' # "run" => frames'[1].op = "none") /\ frames'[1].op # "lookup"
  BY <1>1, <1>2 DEF FramesOK
<1>4. \A i \in 1 .. Len(frames') : Consistent(frames'[i])
  BY <1>1, <1>2 DEF FramesOK
<1> QED BY <1>1, <1>3, <1>4 DEF FramesOK

LEMMA EndsOK ==
  ASSUME NEW how \in {"exited", "killed"}, Ends(how)
  PROVE  /\ FramesOK' /\ phase' \in Phases /\ key_query_char' \in [char : Chars, num : Nat]
         /\ frames' = <<Idle("main", 0)>> /\ Len(frames') = 1 /\ frames'[1].at = "idle"
         /\ frames'[1].op = "none"
         /\ disp' \in [Signals -> Dispositions] /\ signal_xtmap' \in [Signals -> Words \cup {NoXt}]
         /\ pending' \subseteq Signals
<1> DEFINE f == Idle("main", 0)
<1>1. f \in Frame /\ f.op = "none" /\ f.at = "idle"
  BY IdleTyped
<1> HIDE DEF f
<1>2. <<f>> \in Seq(Frame) /\ Len(<<f>>) = 1 /\ <<f>>[1] = f /\ <<f>> # <<>>
  BY <1>1
<1>3. frames' = <<f>>
  BY DEF Ends, f
<1>4. FramesOK'
  BY <1>1, <1>2, <1>3 DEF FramesOK, Consistent
<1> QED BY <1>1, <1>2, <1>3, <1>4
        DEF Ends, f, Phases, NoKey, Chars, Dispositions

LEMMA StartTyped ==
  ASSUME FramesOK, NEW op \in Ops \ {"none", "lookup"}, NEW at \in Ats
  PROVE  /\ Enters(op, at) \in Frame /\ Enters(op, at).op = op /\ Enters(op, at).at = at
         /\ Enters(op, at).heard = Self.heard /\ Enters(op, at).ch = Self.ch
<1>1. Self \in Frame /\ Self.left \in Int /\ Self.left - 1 \in Int
  BY SelfAndUnder DEF Frame
<1>2. ASSUME NEW n \in Int
      PROVE  LET f == [Self EXCEPT !.op = op, !.at = at, !.left = n]
             IN  f \in Frame /\ f.op = op /\ f.at = at /\ f.heard = Self.heard /\ f.ch = Self.ch
  BY <1>1 DEF Frame
<1> QED BY <1>1, <1>2 DEF Enters

LEMMA FinishedTyped ==
  ASSUME FramesOK
  PROVE  Finished \in Frame /\ Finished.op = "none" /\ Finished.at = "idle" /\ Finished.ch = NoKey
<1>1. Self.who \in Signals \cup {"main"} /\ Self.left \in Int
  BY SelfAndUnder DEF Frame
<1> QED BY <1>1, IdleTyped DEF Finished

LEMMA AtTyped ==
  ASSUME FramesOK, NEW at \in Ats
  PROVE  LET f == [Self EXCEPT !.at = at]
         IN  f \in Frame /\ f.at = at /\ f.op = Self.op /\ f.t1 = Self.t1 /\ f.ch = Self.ch
<1>1. Self \in Frame
  BY SelfAndUnder
<1> QED BY <1>1 DEF Frame

LEMMA KeyAtTyped ==
  ASSUME FramesOK, NEW at \in Ats, NEW c \in [char : Chars, num : Nat]
  PROVE  LET f == [Self EXCEPT !.at = at, !.ch = c]
         IN  f \in Frame /\ f.at = at /\ f.op = Self.op /\ f.ch = c /\ f.t1 = Self.t1
<1>1. Self \in Frame
  BY SelfAndUnder
<1> QED BY <1>1 DEF Frame

LEMMA SavedTyped ==
  ASSUME FramesOK, NEW at \in Ats, NEW t \in Settings
  PROVE  LET f == [Self EXCEPT !.at = at, !.t1 = t]
         IN  f \in Frame /\ f.at = at /\ f.op = Self.op /\ f.t1 = t /\ f.ch = Self.ch
<1>1. Self \in Frame
  BY SelfAndUnder
<1> QED BY <1>1 DEF Frame

LEMMA SelfConsistent ==
  ASSUME FramesOK
  PROVE  Consistent(Self) /\ (Len(frames) = 1 => Self.op # "lookup")
<1>1. Len(frames) \in 1 .. Len(frames) /\ Self = frames[Len(frames)]
  BY SelfAndUnder
<1> QED BY <1>1 DEF FramesOK

LEMMA MidWord ==
  ASSUME FramesOK, Self.at # "idle"
  PROVE  Self.op \notin {"none", "lookup"}
  BY SelfConsistent DEF Consistent

LEMMA LeftTyped ==
  ASSUME FramesOK, NEW f \in Frame
  PROVE  LET g == [f EXCEPT !.left = @ - 1]
         IN  g \in Frame /\ g.op = f.op /\ g.at = f.at /\ g.ch = f.ch
<1>1. f.left - 1 \in Int
  BY DEF Frame
<1>2. ASSUME NEW n \in Int
      PROVE  LET g == [f EXCEPT !.left = n]
             IN  g \in Frame /\ g.op = f.op /\ g.at = f.at /\ g.ch = f.ch
  BY DEF Frame
<1> QED BY <1>1, <1>2

(* ACCEPT with a key more, and its buffer has room for it.                 *)
Accepting(c, at) ==
  [Self EXCEPT
     !.at = at,
     !.buf = [@ EXCEPT ![Self.n2 + 1] = c],
     !.n2 = IF c = "nl" THEN @ ELSE IF c = "del" THEN RubOut(@)
            ELSE IF @ < Self.room THEN @ + 1 ELSE @,
     !.heard = Append(@, c)]

LEMMA AcceptsTyped ==
  ASSUME FramesOK, NEW c \in Chars, NEW at \in Ats
  PROVE  /\ Accepting(c, at) \in Frame
         /\ Accepting(c, at).at = at /\ Accepting(c, at).op = Self.op
         /\ Accepting(c, at).t1 = Self.t1
<1>1. /\ Self \in Frame /\ Self.n2 \in 0 .. MaxRoom /\ Self.room \in 0 .. MaxRoom
      /\ Self.buf \in [1 .. MaxRoom + 1 -> Chars \cup {"none"}] /\ Self.heard \in Seq(Chars)
  BY SelfAndUnder DEF Frame
<1>2. MaxRoom \in Nat
  BY DevicesAssumption
<1> DEFINE n == IF c = "nl" THEN Self.n2 ELSE IF c = "del" THEN RubOut(Self.n2)
                ELSE IF Self.n2 < Self.room THEN Self.n2 + 1 ELSE Self.n2
           b == [Self.buf EXCEPT ![Self.n2 + 1] = c]
           h == Append(Self.heard, c)
<1>3. n \in 0 .. MaxRoom
  BY <1>1, <1>2 DEF RubOut, Clamp
<1>4. b \in [1 .. MaxRoom + 1 -> Chars \cup {"none"}]
  BY <1>1
<1>5. h \in Seq(Chars)
  BY <1>1, AppendProperties
<1> HIDE DEF n, b, h
<1>6. LET f == [Self EXCEPT !.at = at, !.buf = b, !.n2 = n, !.heard = h]
      IN  f \in Frame /\ f.at = at /\ f.op = Self.op /\ f.t1 = Self.t1
  BY <1>1, <1>3, <1>4, <1>5 DEF Frame
<1> QED BY <1>6 DEF n, b, h, Accepting

(* A key that is read.                                                     *)
LEMMA KeyTyped ==
  ASSUME TypeOK, TakesKey
  PROVE  /\ TheKey \in [char : Chars, num : Nat] /\ Head(typed) \in Chars
         /\ typed' \in Seq(Chars) /\ strokes' \in Nat /\ read' \in Nat
         /\ TheKey.num = read + 1 /\ read' = read + 1
<1>1. typed \in Seq(Chars) /\ typed # <<>> /\ read \in Nat /\ strokes \in Nat
  BY DEF TypeOK, TakesKey
<1>2. Head(typed) \in Chars /\ Tail(typed) \in Seq(Chars)
  BY <1>1, HeadTailProperties
<1> QED BY <1>1, <1>2 DEF TakesKey, TheKey

LEMMA TerminalTyped == TypeOK /\ Terminal => TypeOK'
<1> SUFFICES ASSUME TypeOK, Terminal PROVE TypeOK'
  OBVIOUS
<1>0. FramesOK /\ Self \in Frame /\ Self.ch \in [char : Chars, num : Nat]
      /\ Self.t1 \in Settings /\ tty \in Settings
  BY SelfAndUnder DEF TypeOK, Frame
<1>c. Consistent(Self)
  BY <1>0, SelfConsistent
<1> USE DEF Ops, Ats, Consistent
<1>1. CASE C_key
  <2>1. \E f \in Frame : Become(f) /\ Consistent(f) /\ f.op = "key"
    <3>1. CASE key_query_char # NoKey
      <4> DEFINE e == Enters("key", "clear")
      <4>1. e \in Frame /\ e.op = "key" /\ e.at = "clear"
        BY <1>0, StartTyped
      <4> HIDE DEF e
      <4>2. LET f == [e EXCEPT !.ch = key_query_char]
            IN  f \in Frame /\ f.op = "key" /\ f.at = "clear"
        BY <4>1 DEF Frame, TypeOK
      <4>3. Become([e EXCEPT !.ch = key_query_char])
        BY <1>1, <3>1 DEF C_key, e
      <4> QED BY <4>2, <4>3
    <3>2. CASE key_query_char = NoKey
      BY <1>0, <1>1, <3>2, StartTyped DEF C_key
    <3> QED BY <3>1, <3>2
  <2>2. FramesOK'
    BY <1>0, <1>1, <2>1, MoveOK DEF C_key, Starts
  <2> QED BY <1>1, <2>2 DEF C_key, TypeOK, terminal, keyboard, signals, arrivals, delivery
<1>2. CASE C_key_clear
  <2>1. FramesOK'
    BY <1>0, <1>2, FinishedTyped, MoveOK DEF C_key_clear
  <2> QED BY <1>0, <1>2, <2>1
          DEF C_key_clear, TypeOK, terminal, keyboard, signals, arrivals, Cleared, NoKey, Chars, Handed
<1>3. CASE C_keyquery
  <2>1. FramesOK'
    <3>1. phase' = phase /\ (Len(frames) = 1 => phase = "run")
      BY <1>3 DEF C_keyquery, Starts
    <3>2. CASE Become([Finished EXCEPT !.left = @ - 1])
      <4>1. LET f == [Finished EXCEPT !.left = @ - 1]
            IN  f \in Frame /\ f.op = "none" /\ f.at = "idle"
        BY <1>0, FinishedTyped, LeftTyped
      <4> QED BY <1>0, <3>1, <3>2, <4>1, MoveOK
    <3>3. CASE Become(Enters("keyquery", "save"))
      BY <1>0, <3>1, <3>3, StartTyped, MoveOK
    <3> QED BY <1>3, <3>2, <3>3 DEF C_keyquery
  <2> QED BY <1>3, <2>1 DEF C_keyquery, TypeOK, terminal, keyboard, signals, arrivals, delivery
<1>4. CASE C_accept
  <2> DEFINE e == Enters("accept", "save")
  <2>1. e \in Frame /\ e.op = "accept" /\ e.at = "save"
    BY <1>0, StartTyped
  <2>2. PICK n1 \in 0 .. MaxRoom : Become([e EXCEPT !.room = n1])
    BY <1>4 DEF C_accept
  <2> HIDE DEF e
  <2>3. LET f == [e EXCEPT !.room = n1]
        IN  f \in Frame /\ f.op = "accept" /\ f.at = "save"
    BY <2>1 DEF Frame
  <2>4. FramesOK'
    BY <1>0, <1>4, <2>2, <2>3, MoveOK DEF C_accept, Starts
  <2> QED BY <1>4, <2>4 DEF C_accept, TypeOK, terminal, keyboard, signals, arrivals, delivery
<1>5. CASE Saves
  <2>1. Self.op # "none"  /\ Self.op # "lookup"
    BY <1>0, <1>5, MidWord DEF Saves
  <2>2. FramesOK'
    <3> DEFINE f == [Self EXCEPT !.at = "raw", !.t1 = tty]
    <3>0. "raw" \in Ats
      OBVIOUS
    <3>1. f \in Frame /\ f.op = Self.op /\ f.at = "raw"
      <4> HIDE DEF Ats, Ops, Consistent
      <4> QED BY <1>0, <3>0, SavedTyped
    <3>2. Become(f) /\ phase' = phase /\ Consistent(f)
      BY <1>5, <1>c, <2>1, <3>1 DEF Saves
    <3> HIDE DEF f
    <3> QED BY <1>0, <2>1, <3>1, <3>2, MoveOK
  <2> QED BY <1>5, <2>2 DEF Saves, TypeOK, terminal, keyboard, signals, arrivals, delivery
<1>6. CASE SetsRaw
  <2>1. Self.op # "none"  /\ Self.op # "lookup"
    BY <1>0, <1>6, MidWord DEF SetsRaw
  <2>2. FramesOK'
    <3> DEFINE f == [Self EXCEPT !.at = "read"]
    <3>1. f \in Frame /\ f.op = Self.op /\ f.at = "read"
      BY <1>0, AtTyped
    <3>2. Become(f) /\ phase' = phase /\ Consistent(f)
      BY <1>6, <1>c, <2>1, <3>1 DEF SetsRaw
    <3> HIDE DEF f
    <3> QED BY <1>0, <2>1, <3>1, <3>2, MoveOK
  <2> QED BY <1>6, <2>2
          DEF SetsRaw, TypeOK, keyboard, signals, arrivals, delivery, ReadMode, Raw, Settings
<1>7. CASE ReadsKey
  <2>1. FramesOK'
    <3> DEFINE f == [Self EXCEPT !.at = "restore", !.ch = TheKey]
    <3>1. TheKey \in [char : Chars, num : Nat] /\ Become(f) /\ Self.op = "key" /\ phase' = phase
      BY <1>7, KeyTyped DEF ReadsKey, Working
    <3>2. f \in Frame /\ f.op = Self.op /\ f.at = "restore"
      BY <1>0, <3>1, KeyAtTyped
    <3> HIDE DEF f
    <3> QED BY <1>0, <3>1, <3>2, MoveOK
  <2>2. got' \in Nat /\ handed' \in Nat
    BY <1>7, KeyTyped DEF ReadsKey, Handed, TypeOK
  <2> QED BY <1>7, <2>1, <2>2, KeyTyped DEF ReadsKey, TypeOK, terminal, signals, arrivals
<1>8. CASE LooksForKey
  <2>1. typed' \in Seq(Chars) /\ strokes' \in Nat /\ read' \in Nat
    BY <1>8, KeyTyped DEF LooksForKey, keyboard, TypeOK
  <2>2. FramesOK'
    <3>1. Self.op = "keyquery" /\ phase' = phase
      BY <1>8 DEF LooksForKey, Working
    <3>2. CASE TakesKey /\ Become([Self EXCEPT !.at = "store", !.ch = TheKey])
      <4> DEFINE f == [Self EXCEPT !.at = "store", !.ch = TheKey]
      <4>1. TheKey \in [char : Chars, num : Nat] /\ Become(f)
        BY <3>2, KeyTyped
      <4>2. f \in Frame /\ f.op = Self.op /\ f.at = "store"
        BY <1>0, <4>1, KeyAtTyped
      <4> HIDE DEF f
      <4> QED BY <1>0, <3>1, <4>1, <4>2, MoveOK
    <3>3. CASE Become([Self EXCEPT !.at = "store"])
      BY <1>0, <3>1, <3>3, AtTyped, MoveOK
    <3> QED BY <1>8, <3>2, <3>3 DEF LooksForKey
  <2> QED BY <1>8, <2>1, <2>2 DEF LooksForKey, TypeOK, terminal, signals, arrivals, NotHanded, delivery
<1>9. CASE KeepsKey
  <2>1. FramesOK'
    BY <1>0, <1>9, AtTyped, MoveOK DEF KeepsKey, Working
  <2> QED BY <1>0, <1>9, <2>1 DEF KeepsKey, TypeOK, terminal, keyboard, signals, arrivals, delivery
<1>10. CASE AcceptsKey
  <2>1. Head(typed) \in Chars
    BY <1>10, KeyTyped DEF AcceptsKey
  <2>2. FramesOK'
    <3> DEFINE at == IF Head(typed) = "nl" THEN "restore" ELSE "read"
               f == Accepting(Head(typed), at)
    <3>0. Become(f)
      BY <1>10, Zenon DEF AcceptsKey, Accepting
    <3>1. at \in Ats /\ at \in {"read", "restore"} /\ Self.op = "accept" /\ phase' = phase
      BY <1>10 DEF AcceptsKey, Working
    <3> HIDE DEF at
    <3>2. f \in Frame /\ f.op = Self.op /\ f.at = at
      BY <1>0, <2>1, <3>1, AcceptsTyped
    <3> HIDE DEF f
    <3> QED BY <1>0, <3>0, <3>1, <3>2, MoveOK
  <2>3. got' \in Nat /\ handed' \in Nat
    BY <1>10, KeyTyped DEF AcceptsKey, Handed, TypeOK
  <2> QED BY <1>10, <2>2, <2>3, KeyTyped DEF AcceptsKey, TypeOK, terminal, signals, arrivals
<1>11. CASE Restores
  <2>1. FramesOK'
    BY <1>0, <1>11, FinishedTyped, MoveOK DEF Restores
  <2> QED BY <1>0, <1>11, <2>1 DEF Restores, PutsBack, TypeOK, keyboard, signals, arrivals, delivery
<1> QED BY <1>1, <1>2, <1>3, <1>4, <1>5, <1>6, <1>7, <1>8, <1>9, <1>10, <1>11 DEF Terminal

LEMMA HandlingTyped == TypeOK /\ Handling => TypeOK'
<1> SUFFICES ASSUME TypeOK, Handling PROVE TypeOK'
  OBVIOUS
<1>0. FramesOK /\ Self \in Frame /\ Self.sig \in Signals \cup {NoXt} /\ Self.xt \in Words \cup {NoXt}
      /\ Self.who \in Signals \cup {"main"}
  BY SelfAndUnder DEF TypeOK, Frame
<1>c. Consistent(Self)
  BY <1>0, SelfConsistent
<1> USE DEF Ops, Ats, Consistent
<1>1. CASE C_forth_signal
  <2>1. PICK s \in Signals, xt \in Words \cup {NoXt}, d \in Dispositions :
          /\ disp' = [disp EXCEPT ![s] = d]
          /\ Become([Enters("signal", "table") EXCEPT !.sig = s, !.xt = xt])
    BY <1>1 DEF C_forth_signal
  <2> DEFINE e == Enters("signal", "table")
             f == [e EXCEPT !.sig = s, !.xt = xt]
  <2>2. e \in Frame /\ e.op = "signal" /\ e.at = "table"
    BY <1>0, StartTyped
  <2>3. Become(f)
    BY <2>1
  <2> HIDE DEF e
  <2>4. f \in Frame /\ f.op = "signal" /\ f.at = "table"
    BY <2>2 DEF Frame
  <2> HIDE DEF f
  <2>5. FramesOK'
    BY <1>0, <1>1, <2>3, <2>4, MoveOK DEF C_forth_signal, Starts
  <2> QED BY <1>1, <2>1, <2>5 DEF C_forth_signal, TypeOK, terminal, keyboard, arrivals, delivery
<1>2. CASE SetsTable
  <2>1. FramesOK'
    BY <1>0, <1>2, FinishedTyped, MoveOK DEF SetsTable, Working
  <2> QED BY <1>0, <1>2, <2>1
          DEF SetsTable, Installed, TypeOK, terminal, keyboard, arrivals, delivery
<1>3. CASE C_raise
  <2>1. LET f == [Self EXCEPT !.left = @ - 1]
        IN  f \in Frame /\ f.op = Self.op /\ f.at = Self.at
    BY <1>0, LeftTyped
  <2>2. FramesOK'
    BY <1>0, <1>3, <2>1, MoveOK DEF C_raise, Starts
  <2> QED BY <1>3, <2>2 DEF C_raise, Sends, TypeOK, terminal, keyboard, signals, delivery
<1>4. CASE forth_signal_handler
  <2> DEFINE f == Idle(Self.who, IF signal_xtmap[Self.who] = NoXt THEN 0 ELSE 1)
  <2>1. f \in Frame /\ f.op = "none" /\ f.at = "idle"
    BY <1>0, IdleTyped
  <2>2. Become(f) /\ phase' = phase
    BY <1>4 DEF forth_signal_handler
  <2> HIDE DEF f
  <2>3. FramesOK'
    BY <1>0, <2>1, <2>2, MoveOK
  <2> QED BY <1>4, <2>3
          DEF forth_signal_handler, TypeOK, terminal, keyboard, signals, arrivals, delivery
<1>5. CASE HandlerReturns
  <2>1. Len(frames) > 1 /\ frames' = Under /\ phase' = phase
    BY <1>5 DEF HandlerReturns
  <2>2. FramesOK'
    BY <1>0, <2>1, PopStep, SelfAndUnder DEF FramesOK
  <2> QED BY <1>5, <2>2 DEF HandlerReturns, TypeOK, terminal, keyboard, signals, arrivals, delivery
<1> QED BY <1>1, <1>2, <1>3, <1>4, <1>5 DEF Handling

(* Outside of the lines it runs the program is in no word.                 *)
LEMMA MainOK ==
  ASSUME FramesOK, Len(frames) = 1, Self.op = "none", phase' \in Phases,
         frames' = frames \/ \E f \in Frame : Become(f) /\ f.op = "none" /\ f.at = "idle"
  PROVE  FramesOK'
<1>1. CASE frames' = frames
  BY <1>1, SelfAndUnder DEF FramesOK
<1>2. ASSUME NEW f \in Frame, Become(f), f.op = "none", f.at = "idle"
      PROVE  FramesOK'
  <2>1. Len(frames') = 1 /\ frames' \in Seq(Frame) /\ frames' # <<>> /\ frames'[1] = f
    BY <1>2, BecomeStep
  <2> QED BY <1>2, <2>1 DEF FramesOK, Consistent
<1> QED BY <1>1, <1>2

LEMMA MainTyped == TypeOK /\ Main => TypeOK'
<1> SUFFICES ASSUME TypeOK, Main PROVE TypeOK'
  OBVIOUS
<1>0. FramesOK /\ Self \in Frame /\ Self.t1 \in Settings /\ Len(frames) \in 1 .. Len(frames)
      /\ Self = frames[Len(frames)] /\ tty \in Settings /\ tios0 \in Settings
  BY SelfAndUnder DEF TypeOK, Frame
<1>a. ASSUME Len(frames) = 1, phase # "run" PROVE Self.op = "none" /\ Self.at = "idle"
  BY <1>0, <1>a, SelfConsistent DEF FramesOK, Consistent
<1>b. \A on \in BOOLEAN : [tty EXCEPT !.echo = on] \in Settings
  BY <1>0 DEF Settings
<1>1. CASE Prompts
  <2> DEFINE f == [Self EXCEPT !.t1 = tty]
  <2>1. Self.op = "none" /\ Self.at = "idle" /\ Len(frames) = 1
    BY <1>1, <1>a DEF Prompts, AtMain
  <2>2. f \in Frame /\ f.op = "none" /\ f.at = "idle" /\ Become(f)
    BY <1>0, <1>1, <2>1 DEF Prompts, Frame
  <2> HIDE DEF f
  <2>3. FramesOK' /\ phase' \in Phases
    BY <1>0, <1>1, <2>1, <2>2, MainOK DEF Prompts, Phases, Running
  <2> QED BY <1>1, <2>3
          DEF Prompts, TypeOK, keyboard, signals, arrivals, delivery, Raw, Settings
<1>2. CASE PromptReads
  <2>1. Self.op = "none" /\ Self.at = "idle" /\ Len(frames) = 1 /\ phase = "readline"
    BY <1>2, <1>a DEF PromptReads, AtMain
  <2>2. FramesOK' /\ phase' \in Phases
    <3>1. CASE UNCHANGED <<phase, terminal, frames>>
      BY <3>1 DEF FramesOK, TypeOK
    <3>2. CASE phase' = "line" /\ Become(Idle("main", MaxOps))
      <4>1. LET f == Idle("main", MaxOps) IN f \in Frame /\ f.op = "none" /\ f.at = "idle"
        BY IdleTyped, DevicesAssumption
      <4> QED BY <1>0, <2>1, <3>2, <4>1, MainOK DEF Phases, Running
    <3> QED BY <1>2, <3>1, <3>2 DEF PromptReads
  <2>3. tty' \in Settings /\ tios0' \in Settings /\ original' \in Settings
    BY <1>0, <1>2 DEF PromptReads, TypeOK, terminal
  <2>4. got' \in Nat /\ handed' \in Nat /\ typed' \in Seq(Chars) /\ strokes' \in Nat /\ read' \in Nat
    BY <1>2, KeyTyped DEF PromptReads, TypeOK, Handed
  <2> QED BY <1>2, <2>2, <2>3, <2>4 DEF PromptReads, TypeOK, signals, arrivals
<1>3. CASE EndOfInput \/ Byes
  <2>1. Ends("exited") /\ UNCHANGED <<keyboard, sent, delivery>> /\ tty' = tios0
        /\ UNCHANGED <<tios0, original>>
    BY <1>3 DEF EndOfInput, Byes, CPP_bye, Restored
  <2> QED BY <2>1, EndsOK DEF TypeOK, keyboard, delivery
<1>4. CASE RunsLine \/ EndsLine
  <2>1. Len(frames) = 1 /\ Self.op = "none" /\ phase' \in Phases /\ frames' = frames
        /\ tty' \in Settings /\ UNCHANGED <<tios0, original>>
        /\ UNCHANGED <<keyboard, key_query_char, signals, arrivals, delivery>>
    <3>1. CASE RunsLine
      BY <1>a, <1>b, <3>1 DEF RunsLine, AtMain, Phases, Running, EchoSet
    <3>2. CASE EndsLine
      <4>1. Len(frames) = 1 /\ phase' = "prompt" /\ frames' = frames /\ Self.at = "idle"
        BY <3>2 DEF EndsLine, AtMain
      <4>2. Self.op = "none"
        BY <1>0, <4>1, SelfConsistent DEF Consistent
      <4> QED BY <1>b, <3>2, <4>1, <4>2 DEF EndsLine, Phases, Running, EchoSet
    <3> QED BY <1>4, <3>1, <3>2
  <2>2. FramesOK'
    BY <1>0, <2>1, MainOK
  <2> QED BY <2>1, <2>2 DEF TypeOK, keyboard, signals, arrivals, delivery
<1>5. CASE Colds
  <2>1. LET f == [Self EXCEPT !.left = @ - 1]
        IN  f \in Frame /\ f.op = Self.op /\ f.at = Self.at
    BY <1>0, LeftTyped
  <2>2. FramesOK'
    BY <1>0, <1>5, <2>1, SelfConsistent, MoveOK DEF Colds, CPP_cold, Starts, Consistent
  <2> QED BY <1>0, <1>5, <2>2
          DEF Colds, CPP_cold, Restored, TypeOK, keyboard, signals, arrivals, delivery
<1> QED BY <1>1, <1>2, <1>3, <1>4, <1>5 DEF Main

LEMMA TypeInit == Init => TypeOK
<1> SUFFICES ASSUME Init PROVE TypeOK
  OBVIOUS
<1> DEFINE f == Idle("main", MaxOps)
<1>1. f \in Frame /\ f.op = "none" /\ f.at = "idle"
  BY IdleTyped, DevicesAssumption
<1>2. frames = <<f>>
  BY DEF Init
<1> HIDE DEF f
<1>3. FramesOK
  <2>1. <<f>> \in Seq(Frame) /\ Len(<<f>>) = 1 /\ <<f>>[1] = f /\ <<f>> # <<>>
    BY <1>1
  <2> QED BY <1>1, <1>2, <2>1 DEF FramesOK, Consistent
<1>4. <<>> \in Seq(Chars) /\ key_query_char \in [char : Chars, num : Nat]
  BY EmptySeq DEF Init, NoKey, Chars
<1> QED BY <1>3, <1>4 DEF Init, TypeOK, Phases, Running, Dispositions

LEMMA TypeStep == TypeOK /\ [Next]_vars => TypeOK'
<1> SUFFICES ASSUME TypeOK, [Next]_vars PROVE TypeOK'
  OBVIOUS
<1>1. CASE Program
  BY <1>1, TerminalTyped, MainTyped, HandlingTyped DEF Program, Free
<1>2. ASSUME NEW s \in Signals, Delivered(s) PROVE TypeOK'
  <2>1. CASE Ends("killed")
    BY <1>2, <2>1, EndsOK DEF Delivered, TypeOK, terminal, keyboard, delivery
  <2>2. CASE /\ pending' = pending \ {s} /\ UNCHANGED <<phase, key_query_char, signals>>
             /\ frames' = IF disp[s] = "ignore" THEN frames
                          ELSE Append(frames, [Idle(s, 1) EXCEPT !.op = "lookup"])
    <3> DEFINE f == [Idle(s, 1) EXCEPT !.op = "lookup"]
    <3>1. Idle(s, 1) \in Frame /\ Idle(s, 1).at = "idle"
      BY IdleTyped
    <3>2. f \in Frame /\ f.op = "lookup" /\ f.at = "idle"
      BY <3>1 DEF Frame, Ops
    <3>3. frames' = frames \/ frames' = Append(frames, f)
      BY <2>2
    <3> HIDE DEF f
    <3>4. FramesOK'
      <4>1. CASE frames' = frames
        BY <2>2, <4>1 DEF TypeOK, FramesOK
      <4>2. CASE frames' = Append(frames, f)
        <5>1. FramesOK
          BY DEF TypeOK
        <5>2. /\ frames' \in Seq(Frame) /\ frames' # <<>> /\ Len(frames') = Len(frames) + 1
              /\ \A i \in 1 .. Len(frames) : frames'[i] = frames[i]
              /\ frames'[Len(frames) + 1] = f
          BY <3>2, <4>2, <5>1, PushStep
        <5>3. Len(frames) \in Nat /\ Len(frames) >= 1
          BY <5>1, SelfAndUnder
        <5>4. frames'[1] = frames[1] /\ phase' = phase
          BY <2>2, <5>2, <5>3
        <5>5. ASSUME NEW i \in 1 .. Len(frames')
              PROVE  Consistent(frames'[i])
          <6>1. i \in 1 .. Len(frames) \/ i = Len(frames) + 1
            BY <5>2, <5>3
          <6>2. Consistent(f)
            BY <3>2 DEF Consistent
          <6> QED BY <5>1, <5>2, <6>1, <6>2 DEF FramesOK
        <5> QED BY <5>1, <5>2, <5>4, <5>5 DEF FramesOK
      <4> QED BY <3>3, <4>1, <4>2
    <3> QED BY <1>2, <2>2, <3>4 DEF Delivered, TypeOK, terminal, keyboard, signals, delivery
  <2> QED BY <1>2, <2>1, <2>2 DEF Delivered
<1>3. CASE SignalSent
  BY <1>3 DEF SignalSent, Sends, TypeOK, FramesOK, terminal, keyboard, signals, delivery
<1>4. CASE Types
  <2>1. typed' \in Seq(Chars) /\ strokes' \in Nat
    BY <1>4, AppendProperties DEF Types, TypeOK
  <2> QED BY <1>4, <2>1 DEF Types, TypeOK, FramesOK, terminal, signals, arrivals, delivery
<1>5. CASE UNCHANGED vars
  BY <1>5 DEF vars, TypeOK, FramesOK, terminal, keyboard, signals, arrivals, delivery
<1> QED BY <1>1, <1>2, <1>3, <1>4, <1>5 DEF Next, Delivers

(* Every variable and every local of a word has its type: ACCEPT's buffer  *)
(* holds what it reads, and the frames are those of the program and of the *)
(* handlers that interrupted it.                                           *)
THEOREM TypeCorrect == Spec => []TypeOK
  BY TypeInit, TypeStep, PTL DEF Spec

-----------------------------------------------------------------------------
(* The terminal's settings *)

(* A word that has kept the settings and not yet put them back, and main() *)
(* in readline().                                                          *)
Keeping == {"raw", "read", "store", "restore"}
Holds(i) == frames[i].at \in Keeping \/ (i = 1 /\ phase = "readline")

(* The settings of the terminal's own, with the echo that main() sets.     *)
Own ==
  {original, [original EXCEPT !.echo = TRUE]}
    \cup (IF phase = "run" THEN {[original EXCEPT !.echo = FALSE]} ELSE {})

(* The settings are the terminal's own, or the first of those that have    *)
(* kept them has kept the terminal's own.                                  *)
SettingsKept ==
  /\ (\A i \in 1 .. Len(frames) : ~Holds(i)) => tty \in Own
  /\ \A i \in 1 .. Len(frames) :
       Holds(i) /\ (\A j \in 1 .. i - 1 : ~Holds(j)) => frames[i].t1 \in Own

TermInv ==
  /\ tios0 = original /\ (phase = "exited" => tty = original)
  /\ phase \in Running => SettingsKept

(* What the words of the terminal do to the settings and to what is kept   *)
(* of them.                                                                *)
Settles(f) ==
  \/ Self.at \notin Keeping /\ f.at \notin Keeping /\ tty' = tty
  \/ Self.at \notin Keeping /\ f.at \notin Keeping /\ tty' = original
  \/ Self.at \in Keeping /\ f.at \in Keeping /\ f.t1 = Self.t1
  \/ Self.at \notin Keeping /\ f.at \in Keeping /\ f.t1 = tty
  \/ Self.at \in Keeping /\ f.at \notin Keeping /\ tty' = Self.t1

(* Such a step keeps the terminal's own settings where they are kept.      *)
LEMMA TermMove ==
  ASSUME TypeOK, SettingsKept, NEW f \in Frame, Become(f),
         phase' = phase, original' = original, Len(frames) = 1 => phase # "readline",
         Settles(f)
  PROVE  SettingsKept'
<1> DEFINE n == Len(frames)
<1>1. /\ n \in Nat /\ n >= 1 /\ Self = frames[n]
      /\ Len(frames') = n /\ frames'[n] = f
      /\ \A i \in 1 .. n - 1 : frames'[i] = frames[i]
  <2>1. FramesOK
    BY DEF TypeOK
  <2>2. n \in Nat /\ n >= 1 /\ Self = frames[n]
    BY <2>1, SelfAndUnder
  <2>3. /\ Len(frames') = n
        /\ \A i \in 1 .. n : frames'[i] = IF i = n THEN f ELSE frames[i]
    BY <2>1, BecomeStep
  <2> QED BY <2>2, <2>3
<1>2. /\ \A i \in 1 .. n - 1 : Holds(i)' = Holds(i)
      /\ Holds(n) <=> Self.at \in Keeping
      /\ Holds(n)' <=> f.at \in Keeping
  BY <1>1 DEF Holds
<1>3. Own' = Own /\ original \in Own
  BY DEF Own
<1> HIDE DEF n
<1>4. ASSUME \A i \in 1 .. n : ~Holds(i)'
      PROVE  tty' \in Own
  BY <1>1, <1>2, <1>3, <1>4 DEF SettingsKept, Settles, n
<1>5. ASSUME NEW i \in 1 .. n, Holds(i)', \A j \in 1 .. i - 1 : ~Holds(j)'
      PROVE  frames'[i].t1 \in Own
  <2>1. \A j \in 1 .. i - 1 : ~Holds(j)
    BY <1>1, <1>2, <1>5
  <2>2. CASE i # n
    BY <1>1, <1>2, <1>5, <2>1, <2>2 DEF SettingsKept, n
  <2>3. CASE i = n
    BY <1>1, <1>2, <1>5, <2>1, <2>3 DEF SettingsKept, Settles, n
  <2> QED BY <2>2, <2>3
<1>6. (SettingsKept)' <=>
        /\ (\A i \in 1 .. n : ~Holds(i)') => tty' \in Own'
        /\ \A i \in 1 .. n : Holds(i)' /\ (\A j \in 1 .. i - 1 : ~Holds(j)') => frames'[i].t1 \in Own'
  BY <1>1 DEF SettingsKept
<1> QED BY <1>3, <1>4, <1>5, <1>6

LEMMA TerminalMoves ==
  ASSUME TypeOK, Terminal
  PROVE  /\ \E f \in Frame : Become(f) /\ Settles(f) /\ f.op # "signal"
         /\ Self.op # "signal" /\ UNCHANGED signals /\ bent \subseteq bent'
         /\ UNCHANGED <<phase, original, tios0>> /\ (Len(frames) = 1 => phase = "run")
<1>0. FramesOK /\ Self \in Frame /\ tty \in Settings
  BY SelfAndUnder DEF TypeOK
<1>a. ASSUME Self.op # "none", Len(frames) = 1 PROVE phase = "run"
  BY <1>0, <1>a, SelfAndUnder DEF FramesOK
<1>b. Terminal => Self.op # "signal" /\ UNCHANGED signals /\ bent \subseteq bent'
  <2>1. Self.at # "table" => Self.op # "signal"
    BY <1>0, SelfConsistent DEF Consistent
  <2> QED BY <2>1
          DEF Terminal, C_key, C_key_clear, C_keyquery, C_accept, Saves, SetsRaw, ReadsKey,
              LooksForKey, KeepsKey, AcceptsKey, Restores, Starts, Working, BentBy, signals
<1>d. Self.op # "signal"
  BY <1>b
<1> SUFFICES /\ \E f \in Frame : Become(f) /\ Settles(f) /\ f.op # "signal"
             /\ UNCHANGED <<phase, original, tios0>> /\ (Len(frames) = 1 => phase = "run")
  BY <1>b
<1> USE DEF Ops, Ats, Keeping
<1>1. CASE C_key
  <2> DEFINE e == Enters("key", "clear")
             f == [e EXCEPT !.ch = key_query_char]
  <2>1. /\ Self.at = "idle" /\ (Len(frames) = 1 => phase = "run")
        /\ UNCHANGED <<phase, original, tios0, tty>>
        /\ Become(f) \/ Become(Enters("key", "save"))
    BY <1>1 DEF C_key, Starts, terminal
  <2>2. e \in Frame /\ e.at = "clear" /\ e.op = "key" /\ Enters("key", "save").op = "key"
        /\ Enters("key", "save") \in Frame
        /\ Enters("key", "save").at = "save"
    BY <1>0, StartTyped
  <2> HIDE DEF e
  <2>3. f \in Frame /\ f.at = "clear" /\ f.op = "key"
    BY <2>2 DEF Frame, TypeOK
  <2> HIDE DEF f
  <2> QED BY <2>1, <2>2, <2>3 DEF Settles
<1>2. CASE C_key_clear
  BY <1>0, <1>a, <1>2, FinishedTyped DEF C_key_clear, Working, Settles, terminal
<1>3. CASE C_keyquery
  <2> DEFINE f == [Finished EXCEPT !.left = @ - 1]
  <2>1. /\ Self.at = "idle" /\ (Len(frames) = 1 => phase = "run")
        /\ UNCHANGED <<phase, original, tios0, tty>>
        /\ Become(f) \/ Become(Enters("keyquery", "save"))
    BY <1>3 DEF C_keyquery, Starts, terminal
  <2>2. Enters("keyquery", "save") \in Frame /\ Enters("keyquery", "save").at = "save"
        /\ Enters("keyquery", "save").op = "keyquery"
    BY <1>0, StartTyped
  <2>3. f \in Frame /\ f.at = "idle" /\ f.op = "none"
    BY <1>0, FinishedTyped, LeftTyped
  <2> HIDE DEF f
  <2> QED BY <2>1, <2>2, <2>3 DEF Settles
<1>4. CASE C_accept
  <2> DEFINE e == Enters("accept", "save")
  <2>1. e \in Frame /\ e.at = "save" /\ e.op = "accept"
    BY <1>0, StartTyped
  <2>2. PICK n1 \in 0 .. MaxRoom : Become([e EXCEPT !.room = n1])
    BY <1>4 DEF C_accept
  <2> HIDE DEF e
  <2>3. [e EXCEPT !.room = n1] \in Frame /\ [e EXCEPT !.room = n1].at = "save"
        /\ [e EXCEPT !.room = n1].op = "accept"
    BY <2>1 DEF Frame
  <2> QED BY <1>4, <2>2, <2>3 DEF C_accept, Starts, Settles, terminal
<1>5. CASE Saves
  <2> DEFINE f == [Self EXCEPT !.at = "raw", !.t1 = tty]
  <2>0. FramesOK /\ "raw" \in Ats /\ tty \in Settings
    BY <1>0 DEF TypeOK
  <2>1. f \in Frame /\ f.op = Self.op /\ f.at = "raw" /\ f.t1 = tty
    BY ONLY <2>0, SavedTyped, ZenonT(90)
  <2>2. Become(f) /\ Self.at = "save" /\ UNCHANGED <<phase, original, tios0, tty>>
    BY <1>5 DEF Saves, terminal
  <2> HIDE DEF f
  <2> QED BY <1>0, <1>a, <1>d, <2>1, <2>2, MidWord DEF Settles
<1>6. CASE SetsRaw
  <2>1. LET f == [Self EXCEPT !.at = "read"] IN f \in Frame /\ f.op = Self.op /\ f.at = "read" /\ f.t1 = Self.t1
    BY <1>0, AtTyped
  <2> QED BY <1>0, <1>a, <1>d, <1>6, <2>1, MidWord DEF SetsRaw, Settles
<1>7. CASE ReadsKey
  <2> DEFINE f == [Self EXCEPT !.at = "restore", !.ch = TheKey]
  <2>1. TheKey \in [char : Chars, num : Nat]
    BY <1>7, KeyTyped DEF ReadsKey
  <2>2. f \in Frame /\ f.op = Self.op /\ f.at = "restore" /\ f.t1 = Self.t1
    BY <1>0, <2>1, KeyAtTyped
  <2>3. Become(f) /\ Self.at = "read" /\ Self.op = "key" /\ UNCHANGED <<phase, original, tios0, tty>>
    BY <1>7 DEF ReadsKey, Working, terminal
  <2> HIDE DEF f
  <2> QED BY <1>a, <1>d, <2>2, <2>3 DEF Settles
<1>8. CASE LooksForKey
  <2>1. Self.at = "read" /\ Self.op = "keyquery" /\ UNCHANGED <<phase, original, tios0, tty>>
    BY <1>8 DEF LooksForKey, Working, terminal
  <2>2. CASE TakesKey /\ Become([Self EXCEPT !.at = "store", !.ch = TheKey])
    <3> DEFINE f == [Self EXCEPT !.at = "store", !.ch = TheKey]
    <3>1. TheKey \in [char : Chars, num : Nat] /\ Become(f)
      BY <2>2, KeyTyped
    <3>2. f \in Frame /\ f.op = Self.op /\ f.at = "store" /\ f.t1 = Self.t1
      BY <1>0, <3>1, KeyAtTyped
    <3> HIDE DEF f
    <3> QED BY <1>a, <1>d, <2>1, <3>1, <3>2 DEF Settles
  <2>3. CASE Become([Self EXCEPT !.at = "store"])
    <3>1. LET f == [Self EXCEPT !.at = "store"] IN f \in Frame /\ f.op = Self.op /\ f.at = "store" /\ f.t1 = Self.t1
      BY <1>0, AtTyped
    <3> QED BY <1>a, <1>d, <2>1, <2>3, <3>1 DEF Settles
  <2> QED BY <1>8, <2>2, <2>3 DEF LooksForKey
<1>9. CASE KeepsKey
  <2>1. LET f == [Self EXCEPT !.at = "restore"] IN f \in Frame /\ f.op = Self.op /\ f.at = "restore" /\ f.t1 = Self.t1
    BY <1>0, AtTyped
  <2> QED BY <1>a, <1>d, <1>9, <2>1 DEF KeepsKey, Working, Settles, terminal
<1>10. CASE AcceptsKey
  <2> DEFINE at == IF Head(typed) = "nl" THEN "restore" ELSE "read"
             f == Accepting(Head(typed), at)
  <2>1. Become(f)
    BY <1>10, Zenon DEF AcceptsKey, Accepting
  <2>2. /\ at \in Ats /\ at \in Keeping /\ Self.op = "accept" /\ Self.at = "read"
        /\ Head(typed) \in Chars /\ UNCHANGED <<phase, original, tios0, tty>>
    BY <1>10, KeyTyped DEF AcceptsKey, Working, terminal
  <2> HIDE DEF at
  <2>3. f \in Frame /\ f.op = Self.op /\ f.at = at /\ f.t1 = Self.t1
    BY <1>0, <2>2, AcceptsTyped
  <2> HIDE DEF f
  <2> QED BY <1>a, <1>d, <2>1, <2>2, <2>3 DEF Settles
<1>11. CASE Restores
  BY <1>0, <1>a, <1>11, FinishedTyped, MidWord DEF Restores, PutsBack, Settles
<1> QED BY <1>1, <1>2, <1>3, <1>4, <1>5, <1>6, <1>7, <1>8, <1>9, <1>10, <1>11 DEF Terminal

LEMMA HandlingMoves ==
  ASSUME TypeOK, SettingsKept, Handling
  PROVE  SettingsKept' /\ UNCHANGED <<phase, original, tios0>>
<1>0. FramesOK /\ Self \in Frame /\ Self.who \in Signals \cup {"main"} /\ Len(frames) >= 1
      /\ Len(frames) \in Nat /\ Self = frames[Len(frames)]
  BY SelfAndUnder DEF TypeOK, Frame
<1>a. ASSUME Self.op # "none", Len(frames) = 1 PROVE phase = "run"
  BY <1>0, <1>a DEF FramesOK
<1>b. Self.op \in {"none", "lookup"} => Self.at = "idle"
  BY <1>0, SelfConsistent DEF Consistent
<1> USE DEF Ops, Ats
<1>1. CASE C_forth_signal
  <2> DEFINE e == Enters("signal", "table")
  <2>1. PICK s \in Signals, xt \in Words \cup {NoXt} : Become([e EXCEPT !.sig = s, !.xt = xt])
    BY <1>1 DEF C_forth_signal
  <2> DEFINE f == [e EXCEPT !.sig = s, !.xt = xt]
  <2>2. e \in Frame /\ e.at = "table"
    BY <1>0, StartTyped
  <2>3. Become(f)
    BY <2>1
  <2> HIDE DEF e
  <2>4. f \in Frame /\ f.at = "table"
    BY <2>2 DEF Frame
  <2> HIDE DEF f
  <2>5. Self.at = "idle" /\ (Len(frames) = 1 => phase = "run") /\ UNCHANGED <<phase, original, tios0, tty>>
    BY <1>1 DEF C_forth_signal, Starts, terminal
  <2>6. Settles(f)
    BY <2>4, <2>5 DEF Settles, Keeping
  <2> QED BY <2>3, <2>4, <2>5, <2>6, TermMove
<1>2. CASE SetsTable
  <2>1. Become(Finished) /\ Self.op = "signal" /\ Self.at = "table"
        /\ UNCHANGED <<phase, original, tios0, tty>>
    BY <1>2 DEF SetsTable, Working, terminal
  <2>2. Finished \in Frame /\ Settles(Finished)
    BY <1>0, <2>1, FinishedTyped DEF Settles, Keeping
  <2> QED BY <1>a, <2>1, <2>2, TermMove
<1>3. CASE C_raise
  <2> DEFINE f == [Self EXCEPT !.left = @ - 1]
  <2>1. f \in Frame /\ f.at = Self.at
    BY <1>0, LeftTyped
  <2>2. Become(f) /\ Self.at = "idle" /\ (Len(frames) = 1 => phase = "run")
        /\ UNCHANGED <<phase, original, tios0, tty>>
    BY <1>3 DEF C_raise, Starts, terminal
  <2> HIDE DEF f
  <2>3. Settles(f)
    BY <2>1, <2>2 DEF Settles, Keeping
  <2> QED BY <2>1, <2>2, <2>3, TermMove
<1>4. CASE forth_signal_handler
  <2> DEFINE f == Idle(Self.who, IF signal_xtmap[Self.who] = NoXt THEN 0 ELSE 1)
  <2>1. f \in Frame /\ f.at = "idle"
    BY <1>0, IdleTyped
  <2>2. Become(f) /\ Self.op = "lookup" /\ UNCHANGED <<phase, original, tios0, tty>>
    BY <1>4 DEF forth_signal_handler, terminal
  <2> HIDE DEF f
  <2>3. Settles(f)
    BY <1>b, <2>1, <2>2 DEF Settles, Keeping
  <2> QED BY <1>a, <2>1, <2>2, <2>3, TermMove
<1>5. CASE HandlerReturns
  <2> DEFINE n == Len(frames)
  <2>1. n > 1 /\ frames' = Under /\ Self.op = "none" /\ UNCHANGED <<phase, original, tios0, tty>>
    BY <1>5 DEF HandlerReturns, terminal
  <2>2. Len(frames') = n - 1 /\ \A i \in 1 .. n - 1 : frames'[i] = frames[i]
    BY <1>0, <2>1, PopStep
  <2>3. /\ \A i \in 1 .. n - 1 : Holds(i)' = Holds(i)
        /\ ~Holds(n) /\ Own' = Own
    BY <1>0, <1>b, <2>1, <2>2 DEF Holds, Own, Keeping
  <2> HIDE DEF n
  <2>4. SettingsKept'
    <3>1. (\A i \in 1 .. n - 1 : ~Holds(i)') => tty' \in Own'
      BY <1>0, <2>1, <2>3 DEF SettingsKept, n
    <3>2. \A i \in 1 .. n - 1 :
            Holds(i)' /\ (\A j \in 1 .. i - 1 : ~Holds(j)') => frames'[i].t1 \in Own'
      BY <1>0, <2>1, <2>2, <2>3 DEF SettingsKept, n
    <3> QED BY <2>2, <3>1, <3>2 DEF SettingsKept
  <2> QED BY <2>1, <2>4
<1> QED BY <1>1, <1>2, <1>3, <1>4, <1>5 DEF Handling

LEMMA MainMoves ==
  ASSUME TypeOK, TermInv, Main, phase \in Running
  PROVE  TermInv'
<1>0. FramesOK /\ Self \in Frame /\ SettingsKept /\ tios0 = original
      /\ tty \in Settings /\ original \in Settings
  BY SelfAndUnder DEF TypeOK, TermInv
<1>a. ASSUME Len(frames) = 1
      PROVE  /\ Self = frames[1] /\ 1 \in 1 .. Len(frames)
             /\ (Self.at = "idle" /\ phase # "readline" => tty \in Own)
             /\ (phase # "run" => Self.op = "none" /\ Self.at = "idle")
  BY <1>0, <1>a, SelfAndUnder, SelfConsistent DEF FramesOK, Consistent, SettingsKept, Holds, Keeping
<1>b. ASSUME Len(frames') = 1, frames'[1].at = "idle", phase' # "readline", tty' \in Own'
      PROVE  SettingsKept'
  BY <1>b DEF SettingsKept, Holds, Keeping
<1>1. CASE Prompts
  <2> DEFINE f == [Self EXCEPT !.t1 = tty]
  <2>1. /\ Len(frames) = 1 /\ phase = "prompt" /\ phase' = "readline" /\ Become(f)
        /\ UNCHANGED <<tios0, original>>
    BY <1>1 DEF Prompts, AtMain
  <2>2. f \in Frame /\ f.t1 = tty
    BY <1>0 DEF Frame
  <2> HIDE DEF f
  <2>3. Len(frames') = 1 /\ frames'[1] = f
    BY <1>0, <2>1, <2>2, BecomeStep
  <2>4. tty \in Own /\ Own' = Own
    BY <1>a, <2>1 DEF Own
  <2>5. SettingsKept'
    BY <2>1, <2>2, <2>3, <2>4 DEF SettingsKept, Holds
  <2> QED BY <1>0, <2>1, <2>5 DEF TermInv
<1>2. CASE PromptReads
  <2>1. Len(frames) = 1 /\ phase = "readline"
    BY <1>2 DEF PromptReads, AtMain
  <2>2. CASE UNCHANGED <<phase, terminal, frames>>
    BY <2>2 DEF terminal, TermInv, SettingsKept, Holds, Own
  <2>3. CASE phase' = "line" /\ tty' = Self.t1 /\ Become(Idle("main", MaxOps))
             /\ UNCHANGED <<tios0, original>>
    <3> DEFINE f == Idle("main", MaxOps)
    <3>1. f \in Frame /\ f.at = "idle"
      BY MainIdle
    <3> HIDE DEF f
    <3>2. Len(frames') = 1 /\ frames'[1] = f
      BY <1>0, <2>1, <2>3, <3>1, BecomeStep DEF f
    <3>3. Self.t1 \in Own /\ Own' = Own
      BY <1>0, <1>a, <2>1, <2>3 DEF SettingsKept, Holds, Own
    <3>4. SettingsKept'
      BY <1>b, <2>3, <3>1, <3>2, <3>3
    <3> QED BY <1>0, <2>3, <3>4 DEF TermInv
  <2> QED BY <1>2, <2>2, <2>3 DEF PromptReads
<1>3. CASE EndOfInput \/ Byes
  <2>1. phase' = "exited" /\ tty' = tios0 /\ UNCHANGED <<tios0, original>>
    BY <1>3 DEF EndOfInput, Byes, CPP_bye, Ends, Restored
  <2> QED BY <1>0, <2>1 DEF TermInv, Running
<1>4. CASE RunsLine
  <2>1. /\ Len(frames) = 1 /\ phase = "line" /\ phase' = "run" /\ frames' = frames
        /\ tty' = [tty EXCEPT !.echo = FALSE] /\ UNCHANGED <<tios0, original>>
    BY <1>4 DEF RunsLine, AtMain, EchoSet
  <2>2. tty \in Own
    BY <1>a, <2>1
  <2>3. tty' \in Own'
    BY <1>0, <2>1, <2>2 DEF Own, Settings
  <2> QED BY <1>0, <1>a, <1>b, <2>1, <2>3 DEF TermInv
<1>5. CASE EndsLine
  <2>1. /\ Len(frames) = 1 /\ phase = "run" /\ phase' = "prompt" /\ frames' = frames
        /\ Self.at = "idle"
        /\ tty' = [tty EXCEPT !.echo = TRUE] /\ UNCHANGED <<tios0, original>>
    BY <1>5 DEF EndsLine, AtMain, EchoSet
  <2>2. tty \in Own
    BY <1>a, <2>1
  <2>3. tty' \in Own'
    BY <1>0, <2>1, <2>2 DEF Own, Settings
  <2> QED BY <1>0, <1>a, <1>b, <2>1, <2>3 DEF TermInv
<1>6. CASE Colds
  <2> DEFINE f == [Self EXCEPT !.left = @ - 1]
  <2>1. f \in Frame /\ f.at = Self.at
    BY <1>0, LeftTyped
  <2>2. /\ Become(f) /\ Self.at = "idle" /\ (Len(frames) = 1 => phase = "run")
        /\ tty' = original /\ tios0' = original /\ UNCHANGED <<phase, original>>
    BY <1>0, <1>6 DEF Colds, CPP_cold, Starts, Restored
  <2> HIDE DEF f
  <2>3. SettingsKept'
    BY <1>0, <2>1, <2>2, TermMove DEF Settles, Keeping
  <2> QED BY <1>0, <2>2, <2>3 DEF TermInv
<1> QED BY <1>1, <1>2, <1>3, <1>4, <1>5, <1>6 DEF Main

(* A handler that begins has kept nothing yet.                             *)
LEMMA DeliveryMoves ==
  ASSUME TypeOK, TermInv, NEW s \in Signals, Delivered(s)
  PROVE  TermInv'
<1>0. FramesOK /\ SettingsKept /\ tios0 = original /\ phase \in Running
  BY DEF TypeOK, TermInv, Delivered
<1>1. UNCHANGED <<tty, tios0, original>>
  BY DEF Delivered, terminal
<1>2. CASE Ends("killed")
  BY <1>0, <1>1, <1>2 DEF Ends, TermInv, Running
<1>3. CASE /\ UNCHANGED phase
           /\ frames' = IF disp[s] = "ignore" THEN frames
                        ELSE Append(frames, [Idle(s, 1) EXCEPT !.op = "lookup"])
  <2> DEFINE f == [Idle(s, 1) EXCEPT !.op = "lookup"]
  <2>1. Idle(s, 1) \in Frame /\ Idle(s, 1).at = "idle"
    BY IdleTyped
  <2>2. f \in Frame /\ f.at = "idle"
    BY <2>1 DEF Frame, Ops
  <2>3. frames' = frames \/ frames' = Append(frames, f)
    BY <1>3
  <2> HIDE DEF f
  <2>4. CASE frames' = frames
    BY <1>0, <1>1, <1>3, <2>4 DEF TermInv, SettingsKept, Holds, Own
  <2>5. CASE frames' = Append(frames, f)
    <3>0. PICK n \in Nat : n = Len(frames)
      BY <1>0, SelfAndUnder
    <3>1. /\ Len(frames') = n + 1 /\ \A i \in 1 .. n : frames'[i] = frames[i]
          /\ frames'[n + 1] = f
      BY <1>0, <2>2, <2>5, <3>0, PushStep
    <3>2. n >= 1
      BY <1>0, <3>0, SelfAndUnder
    <3>3. /\ \A i \in 1 .. n : Holds(i)' <=> Holds(i)
          /\ ~Holds(n + 1)' /\ Own' = Own
      <4>1. /\ \A i \in 1 .. n : frames'[i].at = frames[i].at
            /\ frames'[n + 1].at \notin Keeping /\ n + 1 # 1
        BY <2>2, <3>1, <3>2 DEF Keeping
      <4>2. phase' = phase /\ original' = original
        BY <1>1, <1>3
      <4>3. \A i \in 1 .. n : Holds(i)' <=> Holds(i)
        BY <4>1, <4>2 DEF Holds
      <4>4. ~Holds(n + 1)'
        BY <4>1 DEF Holds
      <4> QED BY <4>2, <4>3, <4>4 DEF Own
    <3>4. (\A i \in 1 .. n + 1 : ~Holds(i)') => tty' \in Own'
      BY <1>0, <1>1, <3>0, <3>2, <3>3 DEF SettingsKept
    <3>5. \A i \in 1 .. n + 1 :
            Holds(i)' /\ (\A j \in 1 .. i - 1 : ~Holds(j)') => frames'[i].t1 \in Own'
      <4> TAKE i \in 1 .. n + 1
      <4>1. i \in 1 .. n \/ i = n + 1
        BY <3>2
      <4>2. CASE i \in 1 .. n
        <5>1. \A j \in 1 .. i - 1 : j \in 1 .. n
          BY <3>2, <4>2
        <5>2. Holds(i) /\ (\A j \in 1 .. i - 1 : ~Holds(j)) => frames[i].t1 \in Own
          BY <1>0, <3>0, <4>2 DEF SettingsKept
        <5>3. ASSUME Holds(i)', \A j \in 1 .. i - 1 : ~Holds(j)'
              PROVE  frames'[i].t1 \in Own'
          <6>1. Holds(i) /\ \A j \in 1 .. i - 1 : ~Holds(j)
            BY <3>3, <4>2, <5>1, <5>3
          <6> QED BY <3>1, <3>3, <4>2, <5>2, <6>1
        <5> QED BY <5>3
      <4> QED BY <3>3, <4>1, <4>2
    <3>6. SettingsKept'
      BY <3>1, <3>4, <3>5 DEF SettingsKept
    <3> QED BY <1>0, <1>1, <1>3, <3>6 DEF TermInv, Running
  <2> QED BY <2>3, <2>4, <2>5
<1> QED BY <1>2, <1>3 DEF Delivered

LEMMA TermInit == Init => TermInv
<1> SUFFICES ASSUME Init PROVE TermInv
  OBVIOUS
<1> DEFINE f == Idle("main", MaxOps)
<1>0. f.at = "idle"
  BY MainIdle
<1>1. frames = <<f>> /\ phase # "readline" /\ phase # "exited" /\ tty = original /\ tios0 = original
  BY DEF Init
<1> HIDE DEF f
<1>2. Len(frames) = 1 /\ frames[1] = f
  BY <1>1
<1>3. SettingsKept
  BY <1>0, <1>1, <1>2 DEF SettingsKept, Holds, Own, Keeping
<1> QED BY <1>1, <1>3 DEF TermInv

LEMMA TermStep == TypeOK /\ TermInv /\ [Next]_vars => TermInv'
<1> SUFFICES ASSUME TypeOK, TermInv, [Next]_vars PROVE TermInv'
  OBVIOUS
<1>1. CASE Program
  <2>1. phase \in Running /\ SettingsKept /\ tios0 = original /\ phase # "exited"
    BY <1>1 DEF Program, Free, TermInv, Running
  <2>2. CASE Terminal
    <3>1. (Len(frames) = 1 => phase # "readline") /\ UNCHANGED <<phase, original, tios0>>
      BY <2>2, TerminalMoves
    <3>2. SettingsKept'
      BY <2>1, <2>2, <3>1, TerminalMoves, TermMove
    <3> QED BY <2>1, <3>1, <3>2 DEF TermInv
  <2>3. CASE Handling
    BY <2>1, <2>3, HandlingMoves DEF TermInv
  <2>4. CASE Main
    BY <2>1, <2>4, MainMoves
  <2> QED BY <1>1, <2>2, <2>3, <2>4 DEF Program, Free
<1>2. ASSUME NEW s \in Signals, Delivered(s) PROVE TermInv'
  BY <1>2, DeliveryMoves
<1>3. CASE SignalSent \/ Types \/ UNCHANGED vars
  <2>1. UNCHANGED <<terminal, frames, phase>>
    BY <1>3 DEF SignalSent, Types, vars
  <2> QED BY <2>1 DEF TermInv, SettingsKept, Holds, Own, terminal
<1> QED BY <1>1, <1>2, <1>3 DEF Next, Delivers

(* KEY, KEY?, ACCEPT and the prompt change the settings and put back what  *)
(* they kept, main() switches the echo, COLD and BYE restore what          *)
(* OpenForth() kept, and handlers do all of that in the middle of each     *)
(* other: kForth still leaves the terminal as it found it, and the prompt  *)
(* comes up in the terminal's own modes (C_key, C_keyquery, C_accept,      *)
(* restore_term).                                                          *)
THEOREM TerminalRestoredCorrect == Spec => []TerminalRestored
<1>1. TypeOK /\ TermInv => TerminalRestored
  <2> SUFFICES ASSUME TypeOK, TermInv PROVE TerminalRestored
    OBVIOUS
  <2>1. ASSUME phase = "prompt", Len(frames) = 1
        PROVE  tty \in {original, [original EXCEPT !.echo = TRUE]}
    <3>1. frames[1].at = "idle" /\ SettingsKept
      BY <2>1 DEF TypeOK, FramesOK, Consistent, TermInv, Running
    <3> QED BY <2>1, <3>1 DEF SettingsKept, Holds, Own, Keeping
  <2> QED BY <2>1 DEF TermInv, TerminalRestored
<1> QED BY <1>1, TypeInit, TypeStep, TermInit, TermStep, PTL DEF Spec

-----------------------------------------------------------------------------
(* The table of the signals *)

(* FORTH-SIGNAL is in the middle of at most one change of a signal, and    *)
(* what it is about to enter in the table is what the system does already. *)
Installs(i) == frames[i].op = "signal"
TableInv ==
  "installer" \notin bent =>
    /\ \A s \in Signals :
         (\A i \in 1 .. Len(frames) : Installs(i) => frames[i].sig # s)
           => (disp[s] = "handler" <=> signal_xtmap[s] # NoXt)
    /\ \A i \in 1 .. Len(frames) :
         Installs(i) =>
           /\ frames[i].sig \in Signals
           /\ disp[frames[i].sig] = "handler" <=> frames[i].xt # NoXt
           /\ \A j \in 1 .. Len(frames) : Installs(j) /\ frames[j].sig = frames[i].sig => i = j

(* A step that is none of FORTH-SIGNAL's.                                  *)
LEMMA TableMove ==
  ASSUME FramesOK, TableInv, NEW n \in Nat, Len(frames') = n,
         \A i \in 1 .. Len(frames) : i > n => ~Installs(i),
         \A i \in 1 .. n : \/ i \in 1 .. Len(frames) /\ frames'[i] = frames[i]
                           \/ /\ frames'[i].op # "signal"
                              /\ i \in 1 .. Len(frames) => ~Installs(i),
         UNCHANGED signals, bent \subseteq bent'
  PROVE  TableInv'
<1> SUFFICES ASSUME "installer" \notin bent' PROVE TableInv'
  BY DEF TableInv
<1>1. "installer" \notin bent /\ disp' = disp /\ signal_xtmap' = signal_xtmap
  BY DEF signals
<1>2. ASSUME NEW i \in 1 .. n, frames'[i].op = "signal"
      PROVE  i \in 1 .. Len(frames) /\ frames'[i] = frames[i] /\ Installs(i)
  BY <1>2 DEF Installs
<1>3. ASSUME NEW i \in 1 .. Len(frames), Installs(i)
      PROVE  i \in 1 .. n /\ frames'[i] = frames[i]
  <2>1. Len(frames) \in Nat
    BY SelfAndUnder
  <2>2. ~(i > n)
    BY <1>3
  <2>3. i \in 1 .. n
    BY <2>1, <2>2
  <2> QED BY <1>3, <2>3
<1>4. ASSUME NEW s \in Signals, \A i \in 1 .. n : frames'[i].op = "signal" => frames'[i].sig # s
      PROVE  disp'[s] = "handler" <=> signal_xtmap'[s] # NoXt
  <2>1. \A i \in 1 .. Len(frames) : Installs(i) => frames[i].sig # s
    BY <1>3, <1>4 DEF Installs
  <2> QED BY <1>1, <2>1 DEF TableInv
<1>5. ASSUME NEW i \in 1 .. n, frames'[i].op = "signal"
      PROVE  /\ frames'[i].sig \in Signals
             /\ disp'[frames'[i].sig] = "handler" <=> frames'[i].xt # NoXt
             /\ \A j \in 1 .. n : frames'[j].op = "signal" /\ frames'[j].sig = frames'[i].sig => i = j
  BY <1>1, <1>2, <1>5 DEF TableInv
<1> QED BY <1>4, <1>5 DEF TableInv, Installs

LEMMA TableBecome ==
  ASSUME FramesOK, TableInv, NEW f \in Frame, Become(f), f.op # "signal", Self.op # "signal",
         UNCHANGED signals, bent \subseteq bent'
  PROVE  TableInv'
<1> PICK n \in Nat : n = Len(frames)
  BY SelfAndUnder
<1>1. /\ Len(frames') = n
      /\ \A i \in 1 .. n : frames'[i] = IF i = n THEN f ELSE frames[i]
  BY BecomeStep
<1>2. Self = frames[n]
  BY SelfAndUnder
<1> QED BY <1>1, <1>2, TableMove DEF Installs

(* FORTH-SIGNAL begins with a signal that no other frame is changing.      *)
LEMMA TableBegins ==
  ASSUME TypeOK, TableInv, C_forth_signal
  PROVE  TableInv'
<1> SUFFICES ASSUME "installer" \notin bent' PROVE TableInv'
  BY DEF TableInv
<1>0. FramesOK /\ disp \in [Signals -> Dispositions]
  BY DEF TypeOK
<1> DEFINE e == Enters("signal", "table")
<1>1. PICK s \in Signals, xt \in Words \cup {NoXt}, d \in Dispositions :
        /\ (d = "handler") = (xt # NoXt)
        /\ disp' = [disp EXCEPT ![s] = d]
        /\ Become([e EXCEPT !.sig = s, !.xt = xt])
        /\ BentBy(IF \E i \in DOMAIN Under : Under[i].op = "signal" /\ Under[i].sig = s
                  THEN {"installer"} ELSE {})
  BY DEF C_forth_signal
<1> DEFINE f == [e EXCEPT !.sig = s, !.xt = xt]
<1>2. e \in Frame
  BY <1>0, StartTyped DEF Ops, Ats
<1>3. Become(f)
  BY <1>1
<1>4. e.op = "signal"
  BY <1>0, StartTyped DEF Ops, Ats
<1> HIDE DEF e
<1>5. f \in Frame /\ f.op = "signal" /\ f.sig = s /\ f.xt = xt
  BY <1>2, <1>4 DEF Frame
<1> HIDE DEF f
<1>6. PICK n \in Nat : n = Len(frames) /\ n >= 1
  BY <1>0, SelfAndUnder
<1>7. /\ Len(frames') = n
      /\ \A i \in 1 .. n : frames'[i] = IF i = n THEN f ELSE frames[i]
  BY <1>0, <1>3, <1>5, <1>6, BecomeStep
<1>8. Self = frames[n] /\ Self.op = "none"
  BY <1>0, <1>6, SelfAndUnder DEF C_forth_signal, Starts
<1>9. "installer" \notin bent /\ \A i \in 1 .. n - 1 : frames[i].op = "signal" => frames[i].sig # s
  <2>1. bent' = bent \cup (IF \E i \in DOMAIN Under : Under[i].op = "signal" /\ Under[i].sig = s
                           THEN {"installer"} ELSE {})
    BY <1>1 DEF BentBy
  <2>2. DOMAIN Under = 1 .. n - 1 /\ \A i \in 1 .. n - 1 : Under[i] = frames[i]
    BY <1>0, <1>6, SelfAndUnder
  <2> QED BY <2>1, <2>2
<1>10. \A z \in Signals : disp'[z] = IF z = s THEN d ELSE disp[z]
  BY <1>0, <1>1
<1>11. signal_xtmap' = signal_xtmap
  BY DEF C_forth_signal
<1>12. ASSUME NEW z \in Signals, \A i \in 1 .. n : frames'[i].op = "signal" => frames'[i].sig # z
       PROVE  disp'[z] = "handler" <=> signal_xtmap'[z] # NoXt
  <2>1. z # s
    BY <1>5, <1>6, <1>7, <1>12
  <2>2. \A i \in 1 .. Len(frames) : Installs(i) => frames[i].sig # z
    BY <1>6, <1>7, <1>8, <1>12 DEF Installs
  <2> QED BY <1>9, <1>10, <1>11, <2>1, <2>2 DEF TableInv
<1>13. ASSUME NEW i \in 1 .. n, frames'[i].op = "signal"
       PROVE  /\ frames'[i].sig \in Signals
              /\ disp'[frames'[i].sig] = "handler" <=> frames'[i].xt # NoXt
              /\ \A j \in 1 .. n : frames'[j].op = "signal" /\ frames'[j].sig = frames'[i].sig => i = j
  <2>1. CASE i = n
    BY <1>1, <1>5, <1>6, <1>7, <1>9, <1>10, <2>1
  <2>2. CASE i # n
    <3>1. i \in 1 .. n - 1 /\ frames'[i] = frames[i] /\ Installs(i) /\ i \in 1 .. Len(frames)
      BY <1>6, <1>7, <1>13, <2>2 DEF Installs
    <3>2. frames[i].sig \in Signals /\ frames[i].sig # s
          /\ (disp[frames[i].sig] = "handler" <=> frames[i].xt # NoXt)
      BY <1>9, <1>13, <3>1 DEF TableInv
    <3>3. \A j \in 1 .. n - 1 : frames[j].op = "signal" /\ frames[j].sig = frames[i].sig => i = j
      BY <1>6, <1>9, <3>1 DEF TableInv, Installs
    <3> QED BY <1>5, <1>6, <1>7, <1>10, <3>1, <3>2, <3>3
  <2> QED BY <2>1, <2>2
<1> QED BY <1>7, <1>12, <1>13 DEF TableInv, Installs

(* The table says what the system was told.                                *)
LEMMA TableEnds ==
  ASSUME TypeOK, TableInv, SetsTable
  PROVE  TableInv'
<1> SUFFICES ASSUME "installer" \notin bent' PROVE TableInv'
  BY DEF TableInv
<1>0. FramesOK /\ disp' = disp /\ bent' = bent /\ Self.op = "signal"
      /\ signal_xtmap' = [signal_xtmap EXCEPT ![Self.sig] = Self.xt]
      /\ Become(Finished) /\ signal_xtmap \in [Signals -> Words \cup {NoXt}]
  BY DEF TypeOK, SetsTable, Working, Installed
<1>1. PICK n \in Nat : n = Len(frames) /\ n >= 1
  BY <1>0, SelfAndUnder
<1>2. Self = frames[n] /\ n \in 1 .. Len(frames) /\ Installs(n)
  BY <1>0, <1>1, SelfAndUnder DEF Installs
<1>3. Finished \in Frame /\ Finished.op = "none"
  BY <1>0, FinishedTyped
<1>4. /\ Len(frames') = n
      /\ \A i \in 1 .. n : frames'[i] = IF i = n THEN Finished ELSE frames[i]
  BY <1>0, <1>1, <1>3, BecomeStep
<1>5. /\ Self.sig \in Signals /\ (disp[Self.sig] = "handler" <=> Self.xt # NoXt)
      /\ \A j \in 1 .. n : Installs(j) /\ frames[j].sig = Self.sig => n = j
  BY <1>0, <1>1, <1>2 DEF TableInv
<1>6. \A z \in Signals : signal_xtmap'[z] = IF z = Self.sig THEN Self.xt ELSE signal_xtmap[z]
  BY <1>0, <1>5
<1>7. ASSUME NEW z \in Signals, \A i \in 1 .. n : frames'[i].op = "signal" => frames'[i].sig # z
      PROVE  disp'[z] = "handler" <=> signal_xtmap'[z] # NoXt
  <2>1. CASE z = Self.sig
    BY <1>0, <1>5, <1>6, <2>1
  <2>2. CASE z # Self.sig
    <3>1. \A i \in 1 .. Len(frames) : Installs(i) => frames[i].sig # z
      BY <1>1, <1>2, <1>4, <1>7, <2>2 DEF Installs
    <3> QED BY <1>0, <1>6, <2>2, <3>1 DEF TableInv
  <2> QED BY <2>1, <2>2
<1>8. ASSUME NEW i \in 1 .. n, frames'[i].op = "signal"
      PROVE  /\ frames'[i].sig \in Signals
             /\ disp'[frames'[i].sig] = "handler" <=> frames'[i].xt # NoXt
             /\ \A j \in 1 .. n : frames'[j].op = "signal" /\ frames'[j].sig = frames'[i].sig => i = j
  <2>1. i # n /\ frames'[i] = frames[i] /\ Installs(i) /\ i \in 1 .. Len(frames)
    BY <1>1, <1>3, <1>4, <1>8 DEF Installs
  <2>2. /\ frames[i].sig \in Signals /\ (disp[frames[i].sig] = "handler" <=> frames[i].xt # NoXt)
        /\ \A j \in 1 .. n : Installs(j) /\ frames[j].sig = frames[i].sig => i = j
    BY <1>0, <1>1, <2>1 DEF TableInv
  <2> QED BY <1>0, <1>3, <1>4, <2>1, <2>2 DEF Installs
<1> QED BY <1>4, <1>7, <1>8 DEF TableInv, Installs

LEMMA TableStep == TypeOK /\ TableInv /\ [Next]_vars => TableInv'
<1> SUFFICES ASSUME TypeOK, TableInv, [Next]_vars PROVE TableInv'
  OBVIOUS
<1>0. FramesOK /\ Self \in Frame /\ Self.who \in Signals \cup {"main"}
  BY SelfAndUnder DEF TypeOK, Frame
<1>a. ASSUME UNCHANGED <<frames, signals>>, bent \subseteq bent' PROVE TableInv'
  BY <1>a DEF TableInv, Installs, signals
<1>b. ASSUME NEW how, Ends(how), how \in {"exited", "killed"} PROVE TableInv'
  BY <1>b, EndsOK DEF TableInv, Installs, Ends
<1>1. CASE Terminal
  BY <1>0, <1>1, TerminalMoves, TableBecome
<1>2. CASE C_forth_signal
  BY <1>2, TableBegins
<1>3. CASE SetsTable
  BY <1>3, TableEnds
<1>4. CASE C_raise
  <2>1. LET f == [Self EXCEPT !.left = @ - 1] IN f \in Frame /\ f.op = Self.op
    BY <1>0, LeftTyped
  <2> QED BY <1>0, <1>4, <2>1, TableBecome DEF C_raise, Starts
<1>5. CASE forth_signal_handler
  <2> DEFINE f == Idle(Self.who, IF signal_xtmap[Self.who] = NoXt THEN 0 ELSE 1)
  <2>1. f \in Frame /\ f.op = "none"
    BY <1>0, IdleTyped
  <2>2. Become(f) /\ Self.op = "lookup" /\ UNCHANGED signals /\ bent' = bent
    BY <1>5 DEF forth_signal_handler
  <2> HIDE DEF f
  <2> QED BY <1>0, <2>1, <2>2, TableBecome
<1>6. CASE HandlerReturns
  <2>1. Len(frames) > 1 /\ frames' = Under /\ Self.op = "none" /\ UNCHANGED signals /\ bent' = bent
    BY <1>6 DEF HandlerReturns
  <2>2. PICK n \in Nat : n = Len(frames) - 1
    BY <1>0, <2>1, SelfAndUnder
  <2>3. Len(frames') = n /\ \A i \in 1 .. n : i \in 1 .. Len(frames) /\ frames'[i] = frames[i]
    BY <1>0, <2>1, <2>2, PopStep
  <2>4. \A i \in 1 .. Len(frames) : i > n => ~Installs(i)
    BY <1>0, <2>1, <2>2, SelfAndUnder DEF Installs
  <2> QED BY <1>0, <2>1, <2>3, <2>4, TableMove
<1>7. CASE Prompts
  <2> DEFINE f == [Self EXCEPT !.t1 = tty]
  <2>1. Len(frames) = 1 /\ phase # "run" /\ Become(f) /\ UNCHANGED signals /\ bent' = bent
    BY <1>7 DEF Prompts, AtMain
  <2>2. Self.op = "none"
    BY <1>0, <2>1, SelfAndUnder DEF FramesOK
  <2>3. f \in Frame /\ f.op = "none"
    BY <2>2, <1>0 DEF TypeOK, Frame
  <2> HIDE DEF f
  <2> QED BY <1>0, <2>1, <2>2, <2>3, TableBecome
<1>8. CASE PromptReads
  <2>1. Len(frames) = 1 /\ phase = "readline" /\ UNCHANGED signals /\ bent \subseteq bent'
    BY <1>8 DEF PromptReads, AtMain, BentBy
  <2>2. Self.op = "none"
    BY <1>0, <2>1, SelfAndUnder DEF FramesOK
  <2>3. UNCHANGED frames \/ Become(Idle("main", MaxOps))
    BY <1>8 DEF PromptReads
  <2> QED BY <1>0, <1>a, <2>1, <2>2, <2>3, MainIdle, TableBecome
<1>9. CASE EndOfInput \/ Byes
  BY <1>b, <1>9 DEF EndOfInput, Byes, CPP_bye
<1>10. CASE RunsLine \/ EndsLine
  BY <1>a, <1>10 DEF RunsLine, EndsLine
<1>11. CASE Colds
  <2>1. LET f == [Self EXCEPT !.left = @ - 1] IN f \in Frame /\ f.op = Self.op
    BY <1>0, LeftTyped
  <2>2. Self.op = "none" /\ UNCHANGED signals /\ bent \subseteq bent'
    BY <1>11 DEF Colds, CPP_cold, Starts
  <2> QED BY <1>0, <1>11, <2>1, <2>2, TableBecome DEF Colds
<1>12. ASSUME NEW s \in Signals, Delivered(s) PROVE TableInv'
  <2>1. CASE Ends("killed")
    BY <1>b, <2>1
  <2>2. CASE /\ UNCHANGED signals /\ bent' = bent
             /\ frames' = IF disp[s] = "ignore" THEN frames
                          ELSE Append(frames, [Idle(s, 1) EXCEPT !.op = "lookup"])
    <3> DEFINE f == [Idle(s, 1) EXCEPT !.op = "lookup"]
    <3>1. Idle(s, 1) \in Frame
      BY IdleTyped
    <3>2. f \in Frame /\ f.op = "lookup"
      BY <3>1 DEF Frame, Ops
    <3>3. frames' = frames \/ frames' = Append(frames, f)
      BY <2>2
    <3> HIDE DEF f
    <3>4. CASE frames' = Append(frames, f)
      <4>1. PICK n \in Nat : n = Len(frames) + 1
        BY <1>0, SelfAndUnder
      <4>2. /\ Len(frames') = n /\ frames'[n] = f
            /\ \A i \in 1 .. Len(frames) : frames'[i] = frames[i] /\ ~(i > n)
            /\ \A i \in 1 .. n : i \in 1 .. Len(frames) \/ i = n
            /\ n \notin 1 .. Len(frames)
        BY <1>0, <3>2, <3>4, <4>1, PushStep, SelfAndUnder
      <4> QED BY <1>0, <2>2, <3>2, <4>2, TableMove
    <3> QED BY <1>a, <2>2, <3>3, <3>4
  <2> QED BY <1>12, <2>1, <2>2 DEF Delivered
<1>13. CASE SignalSent \/ Types \/ UNCHANGED vars
  BY <1>a, <1>13 DEF SignalSent, Types, vars
<1> QED BY <1>1, <1>2, <1>3, <1>4, <1>5, <1>6, <1>7, <1>8, <1>9, <1>10, <1>11, <1>12, <1>13
        DEF Next, Delivers, Program, Free, Main, Handling

LEMMA TableInit == Init => TableInv
<1> SUFFICES ASSUME Init PROVE TableInv
  OBVIOUS
<1> DEFINE f == Idle("main", MaxOps)
<1>1. f.op = "none" /\ frames = <<f>>
  BY MainIdle DEF Init
<1> HIDE DEF f
<1>2. Len(frames) = 1 /\ frames[1] = f
  BY <1>1
<1> QED BY <1>1, <1>2 DEF Init, TableInv, Installs

(* FORTH-SIGNAL tells the system first and its table after, and a handler  *)
(* can come in between: except for a signal that is being changed, the     *)
(* system calls forth_signal_handler() for just those with a word          *)
(* (C_forth_signal).                                                       *)
THEOREM TableMatchesSignalsCorrect == Spec => []TableMatchesSignals
<1>1. TypeOK /\ TableInv => TableMatchesSignals
  BY SelfAndUnder DEF TypeOK, TableInv, TableMatchesSignals, Installs
<1> QED BY <1>1, TypeInit, TypeStep, TableInit, TableStep, PTL DEF Spec

-----------------------------------------------------------------------------
(* Keys *)

Faithful == bent \cap {"reader", "left", "nul"} = {}

(* Only one frame reads keys, and none while readline() does.              *)
Reading(i) == frames[i].op \in {"key", "keyquery", "accept"}
OneReader ==
  /\ \A i, j \in 1 .. Len(frames) : Reading(i) /\ Reading(j) => i = j
  /\ phase = "readline" => \A i \in 1 .. Len(frames) : ~Reading(i)

(* The one key that was read and not yet handed over is the character that *)
(* KEY? found: it is in KEY?'s hands, or kept for KEY, or in KEY's hands.  *)
KeyOK(f, kept) ==
  /\ f.op \in {"none", "lookup"} => f.ch = NoKey
  /\ f.op = "keyquery" /\ f.at \in {"save", "raw", "read"} => f.ch = NoKey
  /\ f.op \in {"key", "keyquery"} /\ f.at \in {"save", "raw", "read", "store"} => kept = NoKey
  /\ f.at = "clear" => f.ch = kept /\ kept # NoKey
KeyCount ==
  /\ key_query_char # NoKey => key_query_char.num = handed + 1 /\ read = handed + 1
  /\ \A i \in 1 .. Len(frames) :
       frames[i].at = "store" =>
         IF frames[i].ch = NoKey THEN read = handed
         ELSE frames[i].ch.num = handed + 1 /\ read = handed + 1
  /\ key_query_char = NoKey /\ (\A i \in 1 .. Len(frames) : frames[i].at # "store") => read = handed

KeyInv ==
  Faithful =>
    /\ got = handed
    /\ phase \in Running =>
         OneReader /\ KeyCount /\ \A i \in 1 .. Len(frames) : KeyOK(frames[i], key_query_char)

(* A step of the one reader, or one that has to do with no key.            *)
LEMMA KeyMove ==
  ASSUME FramesOK, NEW f \in Frame, Become(f), OneReader, Consistent(f), phase' = phase,
         \A i \in 1 .. Len(frames) : KeyOK(frames[i], key_query_char),
         KeyOK(f, key_query_char'), f.op = Self.op \/ f.op \notin {"key", "keyquery", "accept"},
         \/ UNCHANGED <<key_query_char, handed, read>> /\ Self.at # "store" /\ f.at # "store" /\ KeyCount
         \/ /\ Self.op \in {"key", "keyquery", "accept"}
            /\ key_query_char' # NoKey => key_query_char'.num = handed' + 1 /\ read' = handed' + 1
            /\ f.at = "store" => IF f.ch = NoKey THEN read' = handed'
                                 ELSE f.ch.num = handed' + 1 /\ read' = handed' + 1
            /\ key_query_char' = NoKey /\ f.at # "store" => read' = handed'
  PROVE  OneReader' /\ KeyCount' /\ \A i \in 1 .. Len(frames') : KeyOK(frames'[i], key_query_char')
<1> PICK n \in Nat : n = Len(frames) /\ n >= 1
  BY SelfAndUnder
<1>1. /\ Len(frames') = n
      /\ \A i \in 1 .. n : frames'[i] = IF i = n THEN f ELSE frames[i]
  BY BecomeStep
<1>2. Self = frames[n] /\ n \in 1 .. n
  BY SelfAndUnder
<1>3. \A i \in 1 .. n : Reading(i)' => Reading(i)
  BY <1>1, <1>2 DEF Reading
<1>4. OneReader'
  BY <1>1, <1>3 DEF OneReader
<1>5. \A i \in 1 .. n : Consistent(frames[i]) /\ Consistent(frames'[i])
  BY <1>1 DEF FramesOK
<1>6. CASE UNCHANGED <<key_query_char, handed, read>> /\ Self.at # "store" /\ f.at # "store" /\ KeyCount
  <2>1. KeyCount'
    BY <1>1, <1>2, <1>6 DEF KeyCount
  <2>2. \A i \in 1 .. n : KeyOK(frames'[i], key_query_char')
    BY <1>1, <1>6
  <2> QED BY <1>1, <1>4, <2>1, <2>2
<1>7. CASE /\ Self.op \in {"key", "keyquery", "accept"}
           /\ key_query_char' # NoKey => key_query_char'.num = handed' + 1 /\ read' = handed' + 1
           /\ f.at = "store" => IF f.ch = NoKey THEN read' = handed'
                                ELSE f.ch.num = handed' + 1 /\ read' = handed' + 1
           /\ key_query_char' = NoKey /\ f.at # "store" => read' = handed'
  <2>1. \A i \in 1 .. n : i # n => ~Reading(i)
    BY <1>2, <1>7 DEF OneReader, Reading
  <2>2. \A i \in 1 .. n : i # n => frames'[i].op \notin {"key", "keyquery", "accept"} /\ frames'[i] = frames[i]
    BY <1>1, <2>1 DEF Reading
  <2>3. \A i \in 1 .. n : i # n => frames'[i].at \notin {"store", "clear"}
    BY <1>5, <2>2 DEF Consistent
  <2>4. KeyCount'
    BY <1>1, <1>2, <1>7, <2>3 DEF KeyCount
  <2>5. \A i \in 1 .. n : KeyOK(frames'[i], key_query_char')
    <3> TAKE i \in 1 .. n
    <3>1. CASE i # n
      <4>1. KeyOK(frames[i], key_query_char)
        OBVIOUS
      <4> QED BY <2>2, <2>3, <3>1, <4>1 DEF KeyOK
    <3>2. CASE i = n
      BY <1>1, <3>2
    <3> QED BY <3>1, <3>2
  <2> QED BY <1>1, <1>4, <2>4, <2>5
<1> QED BY <1>6, <1>7

(* A word that begins to read when no other frame does.                    *)
LEMMA KeyStarts ==
  ASSUME FramesOK, NEW f \in Frame, Become(f), OneReader, KeyCount, Consistent(f), phase' = phase,
         \A i \in 1 .. Len(frames) : KeyOK(frames[i], key_query_char),
         KeyOK(f, key_query_char), f.at # "store", Starts(f.op), ~Interrupts,
         UNCHANGED <<key_query_char, handed, read>>
  PROVE  OneReader' /\ KeyCount' /\ \A i \in 1 .. Len(frames') : KeyOK(frames'[i], key_query_char')
<1> PICK n \in Nat : n = Len(frames) /\ n >= 1
  BY SelfAndUnder
<1>1. /\ Len(frames') = n
      /\ \A i \in 1 .. n : frames'[i] = IF i = n THEN f ELSE frames[i]
  BY BecomeStep
<1>2. Self = frames[n] /\ n \in 1 .. n /\ Self.at = "idle" /\ (n = 1 => phase = "run")
  BY SelfAndUnder DEF Starts
<1>3. /\ \A i \in 1 .. n - 1 : ~Reading(i)
      /\ phase # "readline"
  <2>1. CASE n = 1
    BY <1>2, <2>1
  <2>2. CASE n > 1
    <3>1. DOMAIN Under = 1 .. n - 1 /\ \A i \in 1 .. n - 1 : Under[i] = frames[i]
      BY SelfAndUnder
    <3>2. phase # "readline" /\ \A i \in 1 .. n - 1 : ~Reads(frames[i])
      BY <2>2, <3>1 DEF Interrupts
    <3>3. \A i \in 1 .. n - 1 : Consistent(frames[i])
      BY DEF FramesOK
    <3> QED BY <3>2, <3>3 DEF Reads, Reading, Consistent
  <2> QED BY <2>1, <2>2
<1>4. OneReader'
  BY <1>1, <1>3 DEF OneReader, Reading
<1>5. KeyCount'
  BY <1>1, <1>2 DEF KeyCount
<1> QED BY <1>1, <1>4, <1>5

(* When the reader has read no key, no key is under way.                   *)
LEMMA NothingUnderWay ==
  ASSUME FramesOK, OneReader, KeyCount, key_query_char = NoKey, Self.at # "store",
         Self.op \in {"key", "keyquery", "accept"} \/ phase = "readline"
  PROVE  read = handed
<1> PICK n \in Nat : n = Len(frames) /\ n >= 1
  BY SelfAndUnder
<1>1. Self = frames[n] /\ n \in 1 .. n
  BY SelfAndUnder
<1>2. \A i \in 1 .. n : i # n => ~Reading(i)
  BY <1>1 DEF OneReader, Reading
<1>3. \A i \in 1 .. n : frames[i].at # "store"
  BY <1>1, <1>2 DEF FramesOK, Consistent, Reading
<1> QED BY <1>3 DEF KeyCount

KeyKept == OneReader /\ KeyCount /\ \A i \in 1 .. Len(frames) : KeyOK(frames[i], key_query_char)

(* The words that read keys.                                               *)
LEMMA KeyTerminal ==
  ASSUME TypeOK, KeyKept, got = handed, Terminal, Faithful'
  PROVE  KeyKept' /\ got' = handed' /\ phase' = phase
<1>0. /\ FramesOK /\ Self \in Frame /\ Consistent(Self) /\ read \in Nat /\ handed \in Nat
      /\ OneReader /\ KeyCount /\ \A i \in 1 .. Len(frames) : KeyOK(frames[i], key_query_char)
      /\ KeyOK(Self, key_query_char) /\ tty \in Settings
  BY SelfAndUnder, SelfConsistent DEF TypeOK, KeyKept
<1>a. ASSUME NEW rule \in {"reader", "left", "nul"}, NEW c, BentBy(c), c = {} \/ rule \in c
      PROVE  c = {}
  BY <1>a DEF BentBy, Faithful
<1> USE DEF Ops, Ats, Consistent, KeyOK
<1>1. CASE C_key
  <2>1. ~Interrupts /\ Starts("key") /\ UNCHANGED <<phase, key_query_char, handed, got, read>>
    <3>1. BentBy(ReaderRule)
      BY <1>1 DEF C_key
    <3>2. ~Interrupts
      BY <1>a, <3>1 DEF ReaderRule
    <3> QED BY <1>1, <3>2 DEF C_key, keyboard, delivery
  <2>2. CASE key_query_char # NoKey
    <3> DEFINE e == Enters("key", "clear")
               f == [e EXCEPT !.ch = key_query_char]
    <3>1. e \in Frame /\ e.op = "key" /\ e.at = "clear"
      BY <1>0, StartTyped
    <3>2. Become(f)
      BY <1>1, <2>2 DEF C_key
    <3> HIDE DEF e
    <3>3. f \in Frame /\ f.op = "key" /\ f.at = "clear" /\ f.ch = key_query_char
      BY <3>1 DEF Frame, TypeOK
    <3> HIDE DEF f
    <3>4. Consistent(f) /\ KeyOK(f, key_query_char) /\ Starts(f.op) /\ f.at # "store"
      BY <2>1, <2>2, <3>3
    <3> QED BY <1>0, <2>1, <3>2, <3>3, <3>4, KeyStarts DEF KeyKept
  <2>3. CASE key_query_char = NoKey
    <3> DEFINE f == Enters("key", "save")
    <3>1. f \in Frame /\ f.op = "key" /\ f.at = "save"
      BY <1>0, StartTyped
    <3>2. Become(f)
      BY <1>1, <2>3 DEF C_key
    <3> HIDE DEF f
    <3>4. Consistent(f) /\ KeyOK(f, key_query_char) /\ Starts(f.op) /\ f.at # "store"
      BY <2>1, <2>3, <3>1
    <3> QED BY <1>0, <2>1, <3>1, <3>2, <3>4, KeyStarts DEF KeyKept
  <2> QED BY <2>2, <2>3
<1>2. CASE C_key_clear
  <2>1. /\ Self.op = "key" /\ Self.at = "clear" /\ Become(Finished) /\ phase' = phase
        /\ key_query_char' = NoKey /\ got' = Self.ch.num /\ handed' = handed + 1 /\ read' = read
    BY <1>2 DEF C_key_clear, Working, Cleared, Handed, keyboard
  <2>2. got' = handed' /\ read' = handed'
    BY <1>0, <2>1 DEF KeyCount
  <2>3. Finished \in Frame /\ Finished.op = "none" /\ Finished.at = "idle" /\ Finished.ch = NoKey
    BY <1>0, FinishedTyped
  <2> HIDE DEF Finished
  <2> QED BY <1>0, <2>1, <2>2, <2>3, KeyMove DEF KeyKept
<1>3. CASE C_keyquery
  <2>1. /\ ~Interrupts /\ Starts("keyquery") /\ UNCHANGED <<phase, key_query_char, handed, got, read>>
        /\ Self.op = "none" /\ Self.at = "idle"
    <3>1. BentBy(ReaderRule)
      BY <1>3 DEF C_keyquery
    <3>2. ~Interrupts
      BY <1>a, <3>1 DEF ReaderRule
    <3> QED BY <1>3, <3>2 DEF C_keyquery, keyboard, delivery, Starts
  <2>2. CASE key_query_char # NoKey
    <3> DEFINE f == [Finished EXCEPT !.left = @ - 1]
    <3>1. f \in Frame /\ f.op = "none" /\ f.at = "idle" /\ f.ch = NoKey
      BY <1>0, FinishedTyped, LeftTyped
    <3>2. Become(f)
      BY <1>3, <2>2 DEF C_keyquery
    <3> HIDE DEF f
    <3> QED BY <1>0, <2>1, <3>1, <3>2, KeyMove DEF KeyKept
  <2>3. CASE key_query_char = NoKey
    <3> DEFINE f == Enters("keyquery", "save")
    <3>1. f \in Frame /\ f.op = "keyquery" /\ f.at = "save" /\ f.ch = Self.ch
      BY <1>0, StartTyped
    <3>2. Become(f)
      BY <1>3, <2>3 DEF C_keyquery
    <3> HIDE DEF f
    <3>4. Consistent(f) /\ KeyOK(f, key_query_char) /\ Starts(f.op) /\ f.at # "store"
      BY <1>0, <2>1, <2>3, <3>1
    <3> QED BY <1>0, <2>1, <3>1, <3>2, <3>4, KeyStarts DEF KeyKept
  <2> QED BY <2>2, <2>3
<1>4. CASE C_accept
  <2>1. /\ ~Interrupts /\ Starts("accept") /\ UNCHANGED <<phase, key_query_char, handed, got, read>>
    <3>1. BentBy(ReaderRule \cup LeftRule)
      BY <1>4 DEF C_accept
    <3>2. ~Interrupts
      BY <1>a, <3>1 DEF ReaderRule
    <3> QED BY <1>4, <3>2 DEF C_accept, keyboard, delivery
  <2> DEFINE e == Enters("accept", "save")
  <2>2. e \in Frame /\ e.op = "accept" /\ e.at = "save"
    BY <1>0, StartTyped
  <2>3. PICK n1 \in 0 .. MaxRoom : Become([e EXCEPT !.room = n1])
    BY <1>4 DEF C_accept
  <2> HIDE DEF e
  <2> DEFINE f == [e EXCEPT !.room = n1]
  <2>4. f \in Frame /\ f.op = "accept" /\ f.at = "save"
    BY <2>2 DEF Frame
  <2>5. Become(f)
    BY <2>3
  <2> HIDE DEF f
  <2>6. Consistent(f) /\ KeyOK(f, key_query_char) /\ Starts(f.op) /\ f.at # "store"
    BY <2>1, <2>4
  <2> QED BY <1>0, <2>1, <2>4, <2>5, <2>6, KeyStarts DEF KeyKept
<1>5. CASE Saves \/ SetsRaw
  <2>1. /\ Self.at \in {"save", "raw"} /\ Self.op \in {"key", "keyquery", "accept"}
        /\ UNCHANGED <<phase, key_query_char, handed, got, read>>
    <3>1. Self.at \in {"save", "raw"} /\ UNCHANGED <<phase, key_query_char, handed, got, read>>
      BY <1>5 DEF Saves, SetsRaw, keyboard, delivery
    <3>2. Self.op \in Ops
      BY <1>0 DEF Frame
    <3> QED BY <1>0, <3>1, <3>2
  <2>2. \E f \in Frame : Become(f) /\ f.at \in {"raw", "read"} /\ f.op = Self.op /\ f.ch = Self.ch
    <3>1. CASE Saves
      <4> DEFINE f == [Self EXCEPT !.at = "raw", !.t1 = tty]
      <4>1. f \in Frame /\ f.at = "raw" /\ f.op = Self.op /\ f.ch = Self.ch
        <5>1. "raw" \in Ats
          OBVIOUS
        <5> HIDE DEF Ats, Ops, Consistent
        <5> QED BY <1>0, <5>1, SavedTyped
      <4>2. Become(f)
        BY <3>1 DEF Saves
      <4> HIDE DEF f
      <4> QED BY <4>1, <4>2
    <3>2. CASE SetsRaw
      <4> DEFINE f == [Self EXCEPT !.at = "read"]
      <4>1. f \in Frame /\ f.at = "read" /\ f.op = Self.op /\ f.ch = Self.ch
        BY <1>0, AtTyped
      <4>2. Become(f)
        BY <3>2 DEF SetsRaw
      <4> HIDE DEF f
      <4> QED BY <4>1, <4>2
    <3> QED BY <1>5, <3>1, <3>2
  <2>3. PICK f \in Frame : Become(f) /\ f.at \in {"raw", "read"} /\ f.op = Self.op /\ f.ch = Self.ch
    BY <2>2
  <2>4. Consistent(f) /\ KeyOK(f, key_query_char')
    BY <1>0, <2>1, <2>3
  <2> QED BY <1>0, <2>1, <2>3, <2>4, KeyMove DEF KeyKept
<1>6. CASE ReadsKey
  <2> DEFINE f == [Self EXCEPT !.at = "restore", !.ch = TheKey]
  <2>1. /\ TheKey \in [char : Chars, num : Nat] /\ TheKey.num = read + 1 /\ read' = read + 1
    BY <1>6, KeyTyped DEF ReadsKey
  <2>2. /\ Become(f) /\ Self.op = "key" /\ Self.at = "read" /\ UNCHANGED <<phase, key_query_char>>
        /\ got' = TheKey.num /\ handed' = handed + 1
    BY <1>6 DEF ReadsKey, Working, Handed
  <2>3. f \in Frame /\ f.op = "key" /\ f.at = "restore"
    BY <1>0, <2>1, <2>2, KeyAtTyped, ZenonT(30)
  <2> HIDE DEF f
  <2>4. key_query_char = NoKey /\ read = handed
    BY <1>0, <2>2, NothingUnderWay
  <2>5. Consistent(f) /\ KeyOK(f, key_query_char')
    BY <2>3
  <2>6. got' = handed' /\ read' = handed'
    BY <2>1, <2>2, <2>4
  <2> QED BY <1>0, <2>2, <2>3, <2>4, <2>5, <2>6, KeyMove DEF KeyKept
<1>7. CASE LooksForKey
  <2>1. /\ Self.op = "keyquery" /\ Self.at = "read"
        /\ UNCHANGED <<phase, key_query_char, handed, got>>
    BY <1>7 DEF LooksForKey, Working, NotHanded, delivery
  <2>2. key_query_char = NoKey /\ read = handed /\ Self.ch = NoKey
    BY <1>0, <2>1, NothingUnderWay
  <2>3. \E f \in Frame : /\ Become(f) /\ f.at = "store" /\ f.op = Self.op
                         /\ \/ f.ch # NoKey /\ f.ch.num = read + 1 /\ read' = read + 1
                            \/ f.ch = NoKey /\ read' = read
    <3>1. CASE TakesKey /\ Become([Self EXCEPT !.at = "store", !.ch = TheKey])
      <4> DEFINE f == [Self EXCEPT !.at = "store", !.ch = TheKey]
      <4>1. TheKey \in [char : Chars, num : Nat] /\ TheKey.num = read + 1 /\ read' = read + 1 /\ Become(f)
        BY <3>1, KeyTyped
      <4>2. f \in Frame /\ f.at = "store" /\ f.op = Self.op /\ f.ch = TheKey
        <5>1. "store" \in Ats
          OBVIOUS
        <5> HIDE DEF Ats, Ops, Consistent, KeyOK
        <5> QED BY <1>0, <4>1, <5>1, KeyAtTyped, ZenonT(30)
      <4>3. TheKey # NoKey
        BY <1>0, <4>1 DEF NoKey
      <4> HIDE DEF f
      <4> QED BY <4>1, <4>2, <4>3
    <3>2. CASE UNCHANGED keyboard /\ Become([Self EXCEPT !.at = "store"])
      <4> DEFINE f == [Self EXCEPT !.at = "store"]
      <4>1. f \in Frame /\ f.at = "store" /\ f.op = Self.op /\ f.ch = Self.ch
        BY <1>0, AtTyped
      <4>2. Become(f) /\ read' = read
        BY <3>2 DEF keyboard
      <4> HIDE DEF f
      <4> QED BY <2>2, <4>1, <4>2
    <3> QED BY <1>7, <3>1, <3>2 DEF LooksForKey
  <2>4. PICK f \in Frame : /\ Become(f) /\ f.at = "store" /\ f.op = Self.op
                           /\ \/ f.ch # NoKey /\ f.ch.num = read + 1 /\ read' = read + 1
                              \/ f.ch = NoKey /\ read' = read
    BY <2>3
  <2>5. Consistent(f) /\ KeyOK(f, key_query_char')
    BY <2>1, <2>2, <2>4
  <2> QED BY <1>0, <2>1, <2>2, <2>4, <2>5, KeyMove DEF KeyKept
<1>8. CASE KeepsKey
  <2> DEFINE f == [Self EXCEPT !.at = "restore"]
  <2>1. /\ Self.op = "keyquery" /\ Self.at = "store" /\ Become(f)
        /\ key_query_char' = (IF Self.ch.char # "nul" THEN Self.ch ELSE key_query_char)
        /\ UNCHANGED <<phase, handed, got, read>>
        /\ BentBy(IF Self.ch.num # 0 /\ Self.ch.char = "nul" THEN {"nul"} ELSE {})
    BY <1>8 DEF KeepsKey, Working, keyboard, delivery
  <2>2. f \in Frame /\ f.at = "restore" /\ f.op = Self.op
    BY <1>0, AtTyped
  <2> HIDE DEF f
  <2>3. ~(Self.ch.num # 0 /\ Self.ch.char = "nul")
    BY <1>a, <2>1
  <2>4. key_query_char = NoKey
    BY <1>0, <2>1
  <2>5. IF Self.ch = NoKey THEN read = handed ELSE Self.ch.num = handed + 1 /\ read = handed + 1
    <3>1. Len(frames) \in 1 .. Len(frames) /\ Self = frames[Len(frames)]
      BY <1>0, SelfAndUnder
    <3> QED BY <1>0, <2>1, <3>1 DEF KeyCount
  <2>6. /\ key_query_char' # NoKey => key_query_char'.num = handed' + 1 /\ read' = handed' + 1
        /\ key_query_char' = NoKey => read' = handed'
    <3>1. CASE Self.ch = NoKey
      BY <2>1, <2>4, <2>5, <3>1 DEF NoKey
    <3>2. CASE Self.ch # NoKey
      BY <1>0, <2>1, <2>3, <2>5, <3>2
    <3> QED BY <3>1, <3>2
  <2>7. Consistent(f) /\ KeyOK(f, key_query_char')
    BY <2>1, <2>2
  <2> QED BY <1>0, <2>1, <2>2, <2>6, <2>7, KeyMove DEF KeyKept
<1>9. CASE AcceptsKey
  <2> DEFINE at == IF Head(typed) = "nl" THEN "restore" ELSE "read"
             f == Accepting(Head(typed), at)
  <2>1. Become(f)
    BY <1>9, Zenon DEF AcceptsKey, Accepting
  <2>2. /\ at \in Ats /\ at \in {"read", "restore"} /\ Self.op = "accept" /\ Self.at = "read"
        /\ Head(typed) \in Chars /\ UNCHANGED <<phase, key_query_char>>
        /\ got' = TheKey.num /\ handed' = handed + 1 /\ BentBy(LeftRule)
        /\ TheKey.num = read + 1 /\ read' = read + 1
    BY <1>9, KeyTyped DEF AcceptsKey, Working, Handed
  <2> HIDE DEF at
  <2>3. f \in Frame /\ f.at = at /\ f.op = Self.op
    BY <1>0, <2>2, AcceptsTyped
  <2> HIDE DEF f
  <2>4. key_query_char = NoKey
    BY <1>a, <2>2 DEF LeftRule
  <2>5. read = handed
    BY <1>0, <2>2, <2>4, NothingUnderWay
  <2>6. Consistent(f) /\ KeyOK(f, key_query_char')
    BY <2>2, <2>3
  <2>7. got' = handed' /\ read' = handed'
    BY <2>2, <2>5
  <2> QED BY <1>0, <2>1, <2>2, <2>3, <2>4, <2>6, <2>7, KeyMove DEF KeyKept
<1>10. CASE Restores
  <2>1. Self.at = "restore" /\ Become(Finished) /\ UNCHANGED <<phase, key_query_char, handed, got, read>>
    BY <1>10 DEF Restores, keyboard, delivery
  <2>2. Finished \in Frame /\ Finished.op = "none" /\ Finished.at = "idle" /\ Finished.ch = NoKey
    BY <1>0, FinishedTyped
  <2> HIDE DEF Finished
  <2> QED BY <1>0, <2>1, <2>2, KeyMove DEF KeyKept
<1> QED BY <1>1, <1>2, <1>3, <1>4, <1>5, <1>6, <1>7, <1>8, <1>9, <1>10 DEF Terminal

(* FORTH-SIGNAL, RAISE and the handlers touch no key.                      *)
LEMMA KeyHandling ==
  ASSUME TypeOK, KeyKept, Handling
  PROVE  KeyKept' /\ UNCHANGED <<phase, got, handed>>
<1>0. /\ FramesOK /\ Self \in Frame /\ Consistent(Self)
      /\ OneReader /\ KeyCount /\ \A i \in 1 .. Len(frames) : KeyOK(frames[i], key_query_char)
      /\ UNCHANGED <<phase, got, handed, key_query_char, read>>
  BY SelfAndUnder, SelfConsistent
     DEF TypeOK, KeyKept, Handling, C_forth_signal, SetsTable, C_raise, forth_signal_handler,
         HandlerReturns, keyboard, delivery
<1>k. KeyOK(Self, key_query_char) /\ Self.who \in Signals \cup {"main"}
  BY <1>0, SelfAndUnder DEF Frame
<1>m. ASSUME NEW f \in Frame, Become(f), Consistent(f), f.op \notin {"key", "keyquery", "accept"},
             f.op \in {"none", "lookup"} => f.ch = NoKey, Self.at # "store"
      PROVE  KeyKept'
  <2>1. f.at \notin {"store", "clear"} /\ KeyOK(f, key_query_char')
    BY <1>m DEF Consistent, KeyOK
  <2> QED BY <1>0, <1>m, <2>1, KeyMove DEF KeyKept
<1>1. CASE C_forth_signal
  <2>1. Self.at = "idle" /\ "signal" \in Ops /\ "table" \in Ats
    BY <1>1 DEF C_forth_signal, Starts, Ops, Ats
  <2> DEFINE e == Enters("signal", "table")
  <2>2. e \in Frame /\ e.op = "signal" /\ e.at = "table"
    BY <1>0, <2>1, StartTyped
  <2>3. PICK s \in Signals, xt \in Words \cup {NoXt} : Become([e EXCEPT !.sig = s, !.xt = xt])
    BY <1>1 DEF C_forth_signal
  <2> HIDE DEF e
  <2> DEFINE f == [e EXCEPT !.sig = s, !.xt = xt]
  <2>4. f \in Frame /\ f.op = "signal" /\ f.at = "table" /\ Become(f)
    BY <2>2, <2>3 DEF Frame
  <2> HIDE DEF f
  <2> QED BY <1>0, <1>m, <2>1, <2>4 DEF Consistent
<1>2. CASE SetsTable
  <2>1. Become(Finished) /\ Self.at = "table"
    BY <1>2 DEF SetsTable, Working
  <2>2. Finished \in Frame /\ Finished.op = "none" /\ Finished.at = "idle" /\ Finished.ch = NoKey
    BY <1>0, FinishedTyped
  <2> HIDE DEF Finished
  <2> QED BY <1>0, <1>m, <2>1, <2>2 DEF Consistent
<1>3. CASE C_raise
  <2> DEFINE f == [Self EXCEPT !.left = @ - 1]
  <2>1. f \in Frame /\ f.op = Self.op /\ f.at = Self.at /\ f.ch = Self.ch
    BY <1>0, LeftTyped
  <2>2. Become(f) /\ Self.op = "none" /\ Self.at = "idle"
    BY <1>3 DEF C_raise, Starts
  <2> HIDE DEF f
  <2>3. f.ch = NoKey /\ Consistent(f)
    BY <1>k, <2>1, <2>2 DEF KeyOK, Consistent
  <2> QED BY <1>0, <1>m, <2>1, <2>2, <2>3
<1>4. CASE forth_signal_handler
  <2> DEFINE f == Idle(Self.who, IF signal_xtmap[Self.who] = NoXt THEN 0 ELSE 1)
  <2>1. f \in Frame /\ f.op = "none" /\ f.at = "idle" /\ f.ch = NoKey
    BY <1>k, IdleTyped
  <2>2. Become(f) /\ Self.op = "lookup"
    BY <1>4 DEF forth_signal_handler
  <2> HIDE DEF f
  <2> QED BY <1>0, <1>m, <2>1, <2>2 DEF Consistent
<1>5. CASE HandlerReturns
  <2>1. Len(frames) > 1 /\ frames' = Under /\ Self.op = "none"
    BY <1>5 DEF HandlerReturns
  <2>2. PICK n \in Nat : n = Len(frames) - 1
    BY <1>0, <2>1, SelfAndUnder
  <2>3. Len(frames') = n /\ \A i \in 1 .. n : i \in 1 .. Len(frames) /\ frames'[i] = frames[i]
    BY <1>0, <2>1, <2>2, PopStep
  <2>4. \A i \in 1 .. Len(frames) : i \notin 1 .. n => frames[i] = Self
    BY <1>0, <2>1, <2>2, SelfAndUnder
  <2>5. Self.at # "store"
    BY <1>0, <2>1 DEF Consistent
  <2>6. OneReader'
    BY <1>0, <2>3 DEF OneReader, Reading
  <2>7. KeyCount'
    BY <1>0, <2>3, <2>4, <2>5 DEF KeyCount
  <2>8. \A i \in 1 .. Len(frames') : KeyOK(frames'[i], key_query_char')
    BY <1>0, <2>3
  <2> QED BY <1>0, <2>6, <2>7, <2>8 DEF KeyKept
<1> QED BY <1>1, <1>2, <1>3, <1>4, <1>5 DEF Handling

(* main(): the prompt reads its line while no word does.                   *)
LEMMA KeyMain ==
  ASSUME TypeOK, KeyKept, got = handed, Main, Faithful'
  PROVE  got' = handed' /\ (phase' \in Running => KeyKept')
<1>0. /\ FramesOK /\ Self \in Frame /\ Consistent(Self) /\ read \in Nat /\ handed \in Nat
      /\ OneReader /\ KeyCount /\ \A i \in 1 .. Len(frames) : KeyOK(frames[i], key_query_char)
  BY SelfAndUnder, SelfConsistent DEF TypeOK, KeyKept
<1>a. ASSUME Len(frames) = 1, NEW f \in Frame, Become(f), f.op = "none", f.at = "idle", f.ch = NoKey,
             Self.op = "none", UNCHANGED key_query_char,
             (read' = read /\ handed' = handed)
             \/ (key_query_char = NoKey /\ read' = handed')
      PROVE  KeyKept'
  <2>1. Len(frames') = 1 /\ frames'[1] = f /\ frames[1] = Self
    BY <1>0, <1>a, BecomeStep, SelfAndUnder
  <2>2. Self.at = "idle"
    BY <1>0, <1>a DEF Consistent
  <2>3. OneReader'
    BY <1>a, <2>1 DEF OneReader, Reading
  <2>4. KeyCount'
    BY <1>0, <1>a, <2>1, <2>2 DEF KeyCount
  <2>5. KeyOK(f, key_query_char')
    BY <1>a DEF KeyOK
  <2> QED BY <1>a, <2>1, <2>3, <2>4, <2>5 DEF KeyKept
<1>b. ASSUME UNCHANGED <<frames, key_query_char, handed, read>>, phase' # "readline" \/ phase = "readline"
      PROVE  KeyKept'
  BY <1>0, <1>b DEF KeyKept, OneReader, Reading, KeyCount
<1>1. CASE Prompts
  <2> DEFINE f == [Self EXCEPT !.t1 = tty]
  <2>1. /\ Len(frames) = 1 /\ phase # "run" /\ Become(f)
        /\ UNCHANGED <<key_query_char, got, handed, read>>
    BY <1>1 DEF Prompts, AtMain, keyboard, delivery
  <2>2. Self.op = "none" /\ Self.at = "idle" /\ Self.ch = NoKey
    BY <1>0, <2>1, SelfAndUnder DEF FramesOK, Consistent, KeyOK
  <2>3. f \in Frame /\ f.op = "none" /\ f.at = "idle" /\ f.ch = NoKey
    BY <1>0, <2>2 DEF TypeOK, Frame
  <2> HIDE DEF f
  <2> QED BY <1>a, <2>1, <2>2, <2>3
<1>2. CASE PromptReads
  <2>1. /\ Len(frames) = 1 /\ phase = "readline" /\ TakesKey /\ Handed(TheKey) /\ BentBy(LeftRule)
        /\ UNCHANGED key_query_char
    BY <1>2 DEF PromptReads, AtMain
  <2>2. key_query_char = NoKey
    BY <2>1 DEF BentBy, LeftRule, Faithful
  <2>3. Self.op = "none" /\ Self.at # "store"
    BY <1>0, <2>1, SelfAndUnder DEF FramesOK, Consistent
  <2>4. read = handed
    BY <1>0, <2>1, <2>2, <2>3, NothingUnderWay
  <2>5. TheKey.num = read + 1 /\ read' = read + 1 /\ got' = TheKey.num /\ handed' = handed + 1
    BY <2>1 DEF TheKey, TakesKey, Handed
  <2>6. CASE UNCHANGED <<phase, frames>>
    <3>1. \A i \in 1 .. Len(frames) : frames[i].at # "store"
      BY <1>0, <2>1, <2>3, SelfAndUnder
    <3>2. KeyCount'
      BY <2>1, <2>2, <2>4, <2>5, <2>6, <3>1 DEF KeyCount
    <3> QED BY <1>0, <2>1, <2>4, <2>5, <2>6, <3>2 DEF KeyKept, OneReader, Reading
  <2>7. CASE Become(Idle("main", MaxOps))
    <3> DEFINE f == Idle("main", MaxOps)
    <3>1. f \in Frame /\ f.op = "none" /\ f.at = "idle" /\ f.ch = NoKey
      BY DevicesAssumption, IdleTyped
    <3>2. Become(f)
      BY <2>7
    <3> HIDE DEF f
    <3> QED BY <1>a, <2>1, <2>2, <2>3, <2>4, <2>5, <3>1, <3>2
  <2> QED BY <1>2, <2>6, <2>7 DEF PromptReads
<1>3. CASE EndOfInput \/ Byes
  BY <1>3 DEF EndOfInput, Byes, CPP_bye, Ends, delivery, Running
<1>4. CASE RunsLine \/ EndsLine
  BY <1>4, <1>b DEF RunsLine, EndsLine, keyboard, delivery
<1>5. CASE Colds
  <2> DEFINE f == [Self EXCEPT !.left = @ - 1]
  <2>1. f \in Frame /\ f.op = Self.op /\ f.at = Self.at /\ f.ch = Self.ch
    BY <1>0, LeftTyped
  <2>2. /\ Become(f) /\ Self.op = "none" /\ Self.at = "idle"
        /\ UNCHANGED <<phase, key_query_char, got, handed, read>>
    BY <1>5 DEF Colds, CPP_cold, Starts, keyboard, delivery
  <2> HIDE DEF f
  <2>3. Self.ch = NoKey
    BY <1>0, <2>2, SelfAndUnder DEF KeyOK
  <2>4. KeyOK(f, key_query_char') /\ Consistent(f)
    BY <2>1, <2>2, <2>3 DEF KeyOK, Consistent
  <2> QED BY <1>0, <2>1, <2>2, <2>4, KeyMove DEF KeyKept
<1> QED BY <1>1, <1>2, <1>3, <1>4, <1>5 DEF Main

(* A handler begins between any two steps, and holds no key.               *)
LEMMA KeyDelivery ==
  ASSUME TypeOK, KeyKept, NEW s \in Signals, Delivered(s)
  PROVE  UNCHANGED <<got, handed>> /\ (phase' \in Running => KeyKept')
<1>0. /\ FramesOK /\ OneReader /\ KeyCount
      /\ \A i \in 1 .. Len(frames) : KeyOK(frames[i], key_query_char)
      /\ UNCHANGED <<got, handed, read>>
  BY DEF TypeOK, KeyKept, Delivered, keyboard, delivery
<1>1. CASE Ends("killed")
  BY <1>0, <1>1 DEF Ends, Running
<1>2. CASE /\ UNCHANGED <<phase, key_query_char>>
           /\ frames' = IF disp[s] = "ignore" THEN frames
                        ELSE Append(frames, [Idle(s, 1) EXCEPT !.op = "lookup"])
  <2> DEFINE f == [Idle(s, 1) EXCEPT !.op = "lookup"]
  <2>1. Idle(s, 1) \in Frame /\ Idle(s, 1).at = "idle" /\ Idle(s, 1).ch = NoKey
    BY IdleTyped
  <2>2. f \in Frame /\ f.op = "lookup" /\ f.at = "idle" /\ f.ch = NoKey
    BY <2>1 DEF Frame, Ops
  <2>3. frames' = frames \/ frames' = Append(frames, f)
    BY <1>2
  <2> HIDE DEF f
  <2>4. CASE frames' = frames
    BY <1>0, <1>2, <2>4 DEF KeyKept, OneReader, Reading, KeyCount
  <2>5. CASE frames' = Append(frames, f)
    <3>1. PICK n \in Nat : n = Len(frames)
      BY <1>0, SelfAndUnder
    <3>2. /\ Len(frames') = n + 1 /\ frames'[n + 1] = f
          /\ \A i \in 1 .. n : frames'[i] = frames[i]
      BY <1>0, <2>2, <2>5, <3>1, PushStep
    <3>3. \A i \in 1 .. n + 1 : i \in 1 .. n \/ i = n + 1
      BY <3>1
    <3>4. OneReader'
      BY <1>0, <1>2, <2>2, <3>1, <3>2, <3>3 DEF OneReader, Reading
    <3>5. KeyCount'
      <4>1. \A i \in 1 .. n : i \in 1 .. n + 1
        BY <3>1
      <4>2. ASSUME NEW i \in 1 .. n + 1, frames'[i].at = "store"
            PROVE  i \in 1 .. Len(frames) /\ frames'[i] = frames[i]
        BY <2>2, <3>1, <3>2, <3>3, <4>2
      <4>3. (\A i \in 1 .. n + 1 : frames'[i].at # "store")
              => \A i \in 1 .. Len(frames) : frames[i].at # "store"
        BY <3>1, <3>2, <4>1
      <4> QED BY <1>0, <1>2, <3>2, <4>2, <4>3 DEF KeyCount
    <3>6. KeyOK(f, key_query_char')
      BY <2>2 DEF KeyOK
    <3>7. \A i \in 1 .. Len(frames') : KeyOK(frames'[i], key_query_char')
      BY <1>0, <1>2, <3>1, <3>2, <3>3, <3>6
    <3> QED BY <1>0, <3>4, <3>5, <3>7 DEF KeyKept
  <2> QED BY <1>0, <2>3, <2>4, <2>5
<1> QED BY <1>0, <1>1, <1>2 DEF Delivered

LEMMA KeyInit == Init => KeyInv
<1> SUFFICES ASSUME Init PROVE KeyInv
  OBVIOUS
<1> DEFINE f == Idle("main", MaxOps)
<1>1. f.op = "none" /\ f.at = "idle" /\ f.ch = NoKey /\ frames = <<f>>
  BY MainIdle DEF Init, Idle
<1> HIDE DEF f
<1>2. Len(frames) = 1 /\ frames[1] = f
  BY <1>1
<1> QED BY <1>1, <1>2 DEF Init, KeyInv, OneReader, Reading, KeyCount, KeyOK

LEMMA KeyStep == TypeOK /\ KeyInv /\ [Next]_vars => KeyInv'
<1> SUFFICES ASSUME TypeOK, KeyInv, [Next]_vars, Faithful'
             PROVE  got' = handed' /\ (phase' \in Running => KeyKept')
  BY DEF KeyInv, KeyKept
<1>0. bent \subseteq bent' \/ UNCHANGED vars
  BY DEF Next, Delivers, Delivered, Program, Free, Terminal, Main, Handling, C_key, C_key_clear,
         C_keyquery, C_accept, Saves, SetsRaw, ReadsKey, LooksForKey, KeepsKey, AcceptsKey, Restores,
         Prompts, PromptReads, EndOfInput, RunsLine, EndsLine, Byes, Colds, CPP_cold, C_forth_signal,
         SetsTable, C_raise, forth_signal_handler, HandlerReturns, SignalSent, Types, BentBy
<1>1. Faithful /\ got = handed /\ (phase \in Running => KeyKept)
  <2>1. Faithful
    BY <1>0 DEF Faithful, vars
  <2> QED BY <2>1 DEF KeyInv, KeyKept
<1>2. CASE Program
  <2>1. KeyKept
    BY <1>1, <1>2 DEF Program, Free
  <2> QED BY <1>1, <1>2, <2>1, KeyTerminal, KeyMain, KeyHandling DEF Program, Free
<1>3. CASE Delivers
  <2>1. KeyKept
    BY <1>1, <1>3 DEF Delivers, Delivered
  <2> QED BY <1>1, <1>3, <2>1, KeyDelivery DEF Delivers
<1>4. CASE SignalSent \/ Types \/ UNCHANGED vars
  <2>1. UNCHANGED <<frames, phase, key_query_char, got, handed, read>>
    BY <1>4 DEF SignalSent, Types, vars, keyboard, delivery
  <2> QED BY <1>1, <2>1 DEF KeyKept, OneReader, Reading, KeyCount
<1> QED BY <1>2, <1>3, <1>4 DEF Next

(* Every key goes to KEY, ACCEPT or the prompt once and in the order       *)
(* typed, whatever handlers come in between, as long as none of them reads *)
(* while another word does, ACCEPT and the prompt leave no key of KEY?     *)
(* behind, and KEY? is not used on a NUL (C_key, C_keyquery, C_accept).    *)
THEOREM KeysInOrderCorrect == Spec => []KeysInOrder
<1>1. KeyInv => KeysInOrder
  BY DEF KeyInv, Faithful, KeysInOrder
<1> QED BY <1>1, TypeInit, TypeStep, KeyInit, KeyStep, PTL DEF Spec

-----------------------------------------------------------------------------
(* Recursive functions over 0 .. n *)

(* A set of numbers has a least one. *)
LEMMA MinExists ==
  ASSUME NEW T, T \subseteq Nat, T # {}
  PROVE  \E x \in T : \A y \in T : x <= y
<1> DEFINE R == {ss \in Nat \X Nat : ss[1] < ss[2]}
<1>1. IsWellFoundedOn(R, Nat)
  BY NatLessThanWellFounded DEF OpToRel
<1>2. PICK x \in T : \A y \in T : ~ (<<y, x>> \in R)
  <2> HIDE DEF R
  <2> QED BY <1>1, WFMin
<1>3. ASSUME NEW y \in T PROVE x <= y
  <2>1. x \in Nat /\ y \in Nat
    OBVIOUS
  <2>2. <<y, x>> \in Nat \X Nat
    BY <2>1
  <2>3. ~ (y < x)
    BY <1>2, <2>2, Z3
  <2> QED BY <2>1, <2>3
<1> QED BY <1>3

(* f starts with x and takes n steps. *)
Iterates(f, x, step, n) == f[0] = x /\ \A i \in 1 .. n : f[i] = step[<<f[i - 1], i>>]

(* There is such a function. *)
LEMMA IteratesExists ==
  ASSUME NEW S, NEW n \in Nat, NEW x \in S, NEW step \in [S \X (1 .. n) -> S]
  PROVE  \E f \in [0 .. n -> S] : Iterates(f, x, step, n)
<1> DEFINE T == {m \in 0 .. n : ~ \E f \in [0 .. m -> S] : Iterates(f, x, step, m)}
<1> SUFFICES ASSUME T # {} PROVE FALSE
  OBVIOUS
<1>1. T \subseteq Nat
  OBVIOUS
<1>2. PICK m \in T : \A k \in T : m <= k
  <2> HIDE DEF T
  <2> QED BY <1>1, MinExists
<1>3. m \in 0 .. n /\ ~ \E f \in [0 .. m -> S] : Iterates(f, x, step, m)
  OBVIOUS
<1>4. m # 0
  <2>1. SUFFICES ASSUME m = 0 PROVE FALSE
    OBVIOUS
  <2>2. PICK f : f = [i \in 0 .. 0 |-> x]
    OBVIOUS
  <2>3. f \in [0 .. 0 -> S] /\ f[0] = x
    BY <2>2
  <2>4. Iterates(f, x, step, 0)
    BY <2>3 DEF Iterates
  <2> QED BY <1>3, <2>1, <2>3, <2>4
<1>5. m - 1 \in 0 .. n /\ ~(m <= m - 1) /\ m \in 1 .. n
  BY <1>3, <1>4
<1>6. PICK f \in [0 .. m - 1 -> S] : Iterates(f, x, step, m - 1)
  BY <1>2, <1>5
<1> HIDE DEF T
<1>7. PICK g : g = [i \in 0 .. m |-> IF i = m THEN step[<<f[m - 1], m>>] ELSE f[i]]
  OBVIOUS
<1>8. /\ \A i \in 0 .. m - 1 : g[i] = f[i]
      /\ g[m] = step[<<f[m - 1], m>>]
  <2>1. \A i \in 0 .. m - 1 : i \in 0 .. m /\ i # m
    BY <1>5
  <2>2. m \in 0 .. m
    BY <1>5
  <2> QED BY <1>7, <2>1, <2>2
<1>9. f[m - 1] \in S /\ step[<<f[m - 1], m>>] \in S
  <2>1. m - 1 \in 0 .. m - 1
    BY <1>5
  <2> QED BY <1>5, <2>1
<1>10. g \in [0 .. m -> S]
  <2>1. \A i \in 0 .. m : i # m => i \in 0 .. m - 1
    BY <1>5
  <2>2. \A i \in 0 .. m : (IF i = m THEN step[<<f[m - 1], m>>] ELSE f[i]) \in S
    BY <2>1, <1>9
  <2> QED BY <1>7, <2>2
<1>11. Iterates(g, x, step, m)
  <2>1. g[0] = x
    <3>1. 0 \in 0 .. m - 1
      BY <1>5
    <3> QED BY <3>1, <1>6, <1>8 DEF Iterates
  <2>2. ASSUME NEW i \in 1 .. m PROVE g[i] = step[<<g[i - 1], i>>]
    <3>1. CASE i = m
      <4>1. m - 1 \in 0 .. m - 1
        BY <1>5
      <4> QED BY <3>1, <4>1, <1>8
    <3>2. CASE i # m
      <4>1. i \in 1 .. m - 1 /\ i \in 0 .. m - 1 /\ i - 1 \in 0 .. m - 1
        BY <1>5, <3>2
      <4>2. f[i] = step[<<f[i - 1], i>>]
        BY <1>6, <4>1 DEF Iterates
      <4> QED BY ONLY <1>8, <4>1, <4>2
    <3> QED BY <3>1, <3>2
  <2> QED BY <2>1, <2>2 DEF Iterates
<1> QED BY <1>3, <1>10, <1>11

(* There is only one. *)
LEMMA IteratesSame ==
  ASSUME NEW n \in Nat, NEW x, NEW step, NEW f, NEW g,
         Iterates(f, x, step, n), Iterates(g, x, step, n)
  PROVE  \A i \in 0 .. n : f[i] = g[i]
<1> DEFINE T == {i \in 0 .. n : f[i] # g[i]}
<1> SUFFICES ASSUME T # {} PROVE FALSE
  OBVIOUS
<1>1. T \subseteq Nat
  OBVIOUS
<1>2. PICK m \in T : \A k \in T : m <= k
  <2> HIDE DEF T
  <2> QED BY <1>1, MinExists
<1>3. m \in 0 .. n /\ f[m] # g[m]
  OBVIOUS
<1>4. m # 0
  BY <1>3 DEF Iterates
<1>5. m - 1 \in 0 .. n /\ ~(m <= m - 1) /\ m \in 1 .. n
  BY <1>3, <1>4
<1>6. f[m - 1] = g[m - 1]
  BY <1>2, <1>5
<1> HIDE DEF T
<1>7. f[m] = step[<<f[m - 1], m>>] /\ g[m] = step[<<g[m - 1], m>>]
  BY <1>5 DEF Iterates
<1> QED BY <1>3, <1>6, <1>7

-----------------------------------------------------------------------------
(* The line as edited *)

(* The lines that Edited() goes through. *)
Editing(r, keys, room) ==
  /\ r \in [0 .. Len(keys) -> Seq(Chars)]
  /\ r[0] = <<>>
  /\ \A i \in 1 .. Len(keys) : r[i] = EditedBy(keys[i], r[i - 1], room)

(* Its step. *)
EditStep(keys, room) ==
  [p \in Seq(Chars) \X (1 .. Len(keys)) |-> EditedBy(keys[p[2]], p[1], room)]

LEMMA EditedByTyped ==
  ASSUME NEW c \in Chars, NEW s \in Seq(Chars), NEW room \in Nat
  PROVE  EditedBy(c, s, room) \in Seq(Chars)
<1>1. Append(s, c) \in Seq(Chars)
  BY AppendProperties
<1>2. ASSUME s # <<>> PROVE Front(s) \in Seq(Chars)
  <2>1. Len(s) \in Nat /\ Len(s) >= 1
    BY <1>2, EmptySeq, LenProperties
  <2>2. \A i \in 1 .. Len(s) - 1 : s[i] \in Chars
    BY <2>1, ElementOfSeq
  <2>3. PICK n \in Int : n = Len(s) - 1
    BY <2>1
  <2>4. SubSeq(s, 1, n) \in Seq(Chars)
    BY <2>2, <2>3, SubSeqProperties, Z3
  <2> QED BY <2>3, <2>4 DEF Front
<1> QED BY <1>1, <1>2 DEF EditedBy

(* Edited() is the last of them. *)
LEMMA EditedIs ==
  ASSUME NEW keys \in Seq(Chars), NEW room \in Nat
  PROVE  \E r : Editing(r, keys, room) /\ Edited(keys, room) = r[Len(keys)]
<1> DEFINE Fun(r) == r = [i \in 0 .. Len(keys) |->
                       IF i = 0 THEN <<>> ELSE EditedBy(keys[i], r[i - 1], room)]
<1>1. Len(keys) \in Nat /\ \A i \in 1 .. Len(keys) : keys[i] \in Chars
  BY LenProperties, ElementOfSeq
<1>2. PICK n \in Nat : n = Len(keys)
  BY <1>1
<1>3. PICK step : step = EditStep(keys, room)
  OBVIOUS
<1>4. \A x \in Seq(Chars), i \in 1 .. n : step[<<x, i>>] = EditedBy(keys[i], x, room)
  BY <1>2, <1>3 DEF EditStep
<1>5. step \in [Seq(Chars) \X (1 .. n) -> Seq(Chars)]
  <2>1. step = [p \in Seq(Chars) \X (1 .. n) |-> EditedBy(keys[p[2]], p[1], room)]
    BY <1>2, <1>3 DEF EditStep
  <2>2. ASSUME NEW p \in Seq(Chars) \X (1 .. n)
        PROVE  EditedBy(keys[p[2]], p[1], room) \in Seq(Chars)
    <3>1. p[1] \in Seq(Chars) /\ p[2] \in 1 .. n /\ keys[p[2]] \in Chars
      BY <1>1, <1>2
    <3> QED BY <3>1, EditedByTyped
  <2> QED BY <2>1, <2>2
<1>6. PICK f \in [0 .. n -> Seq(Chars)] : Iterates(f, <<>>, step, n)
  <2>1. <<>> \in Seq(Chars)
    BY EmptySeq
  <2> QED BY <2>1, <1>5, IteratesExists
<1>7. \A i \in 1 .. n : f[i] = EditedBy(keys[i], f[i - 1], room)
  <2> TAKE i \in 1 .. n
  <2>1. i - 1 \in 0 .. n /\ f[i - 1] \in Seq(Chars)
    OBVIOUS
  <2>2. f[i] = step[<<f[i - 1], i>>]
    BY <1>6 DEF Iterates
  <2> QED BY <1>4, <2>1, <2>2
<1>8. Fun(f)
  <2>1. \A i \in 0 .. n : f[i] = IF i = 0 THEN <<>> ELSE EditedBy(keys[i], f[i - 1], room)
    <3> TAKE i \in 0 .. n
    <3>1. CASE i = 0
      BY <3>1, <1>6 DEF Iterates
    <3>2. CASE i # 0
      <4>1. i \in 1 .. n
        BY <3>2
      <4> QED BY <4>1, <3>2, <1>7
    <3> QED BY <3>1, <3>2
  <2>2. f = [i \in 0 .. n |-> f[i]]
    OBVIOUS
  <2>3. f = [i \in 0 .. n |-> IF i = 0 THEN <<>> ELSE EditedBy(keys[i], f[i - 1], room)]
    BY <2>1, <2>2
  <2> QED BY <2>3, <1>2
<1> DEFINE r == CHOOSE r : Fun(r)
<1>9. Fun(r)
  BY <1>8
<1>10. Edited(keys, room) = r[Len(keys)]
  BY DEF Edited
<1> HIDE DEF r
<1>11. \A i \in 0 .. n : r[i] = IF i = 0 THEN <<>> ELSE EditedBy(keys[i], r[i - 1], room)
  BY <1>9, <1>2
<1>12. r = [i \in 0 .. n |-> r[i]]
  BY <1>9, <1>2
<1>13. \A i \in 0 .. n : r[i] = f[i]
  <2> DEFINE T == {i \in 0 .. n : r[i] # f[i]}
  <2> SUFFICES ASSUME T # {} PROVE FALSE
    OBVIOUS
  <2>1. T \subseteq Nat
    OBVIOUS
  <2>2. PICK m \in T : \A k \in T : m <= k
    <3> HIDE DEF T
    <3> QED BY <2>1, MinExists
  <2>3. m \in 0 .. n /\ r[m] # f[m]
    OBVIOUS
  <2>4. m # 0
    BY <2>3, <1>6, <1>11 DEF Iterates
  <2>5. m - 1 \in 0 .. n /\ ~(m <= m - 1) /\ m \in 1 .. n
    BY <2>3, <2>4
  <2>6. r[m - 1] = f[m - 1]
    BY <2>2, <2>5
  <2> HIDE DEF T
  <2> QED BY <2>3, <2>4, <2>5, <2>6, <1>7, <1>11
<1>14. r \in [0 .. n -> Seq(Chars)] /\ r[0] = <<>>
  <2>1. 0 \in 0 .. n
    OBVIOUS
  <2> QED BY <2>1, <1>12, <1>13, <1>6 DEF Iterates
<1>15. \A i \in 1 .. n : r[i] = EditedBy(keys[i], r[i - 1], room)
  <2>1. \A i \in 1 .. n : i \in 0 .. n /\ i # 0
    OBVIOUS
  <2> QED BY <2>1, <1>11
<1> QED BY <1>2, <1>10, <1>14, <1>15 DEF Editing

LEMMA EditedNothing ==
  ASSUME NEW room \in Nat
  PROVE  Edited(<<>>, room) = <<>>
<1>1. PICK none \in Seq(Chars) : none = <<>>
  <2>1. <<>> \in Seq(Chars)
    OBVIOUS
  <2> QED BY <2>1
<1>2. Len(none) = 0
  BY <1>1
<1>3. PICK r : Editing(r, none, room) /\ Edited(none, room) = r[Len(none)]
  BY EditedIs
<1> QED BY <1>1, <1>2, <1>3 DEF Editing

(* A key more is an edit more. *)
LEMMA EditedMore ==
  ASSUME NEW keys \in Seq(Chars), NEW c \in Chars, NEW room \in Nat
  PROVE  /\ Edited(keys, room) \in Seq(Chars)
         /\ Edited(Append(keys, c), room) = EditedBy(c, Edited(keys, room), room)
<1>1. PICK n \in Nat : n = Len(keys)
  BY LenProperties
<1>2. PICK more : more = Append(keys, c)
  OBVIOUS
<1>3. /\ more \in Seq(Chars) /\ Len(more) = n + 1 /\ more[n + 1] = c
      /\ \A i \in 1 .. n : more[i] = keys[i]
  BY <1>1, <1>2, AppendProperties
<1>4. PICK f : Editing(f, keys, room) /\ Edited(keys, room) = f[Len(keys)]
  BY EditedIs
<1>5. PICK g : Editing(g, more, room) /\ Edited(more, room) = g[Len(more)]
  BY <1>3, EditedIs
<1>6. /\ f \in [0 .. n -> Seq(Chars)] /\ f[0] = <<>>
      /\ \A i \in 1 .. n : f[i] = EditedBy(keys[i], f[i - 1], room)
  BY <1>1, <1>4 DEF Editing
<1>7. /\ g[0] = <<>>
      /\ \A i \in 1 .. n + 1 : g[i] = EditedBy(more[i], g[i - 1], room)
  BY <1>3, <1>5 DEF Editing
<1>8. \A i \in 0 .. n : f[i] = g[i]
  <2> DEFINE T == {i \in 0 .. n : f[i] # g[i]}
  <2> SUFFICES ASSUME T # {} PROVE FALSE
    OBVIOUS
  <2>1. T \subseteq Nat
    OBVIOUS
  <2>2. PICK m \in T : \A k \in T : m <= k
    <3> HIDE DEF T
    <3> QED BY <2>1, MinExists
  <2>3. m \in 0 .. n /\ f[m] # g[m]
    OBVIOUS
  <2>4. m # 0
    BY <2>3, <1>6, <1>7
  <2>5. m - 1 \in 0 .. n /\ ~(m <= m - 1) /\ m \in 1 .. n /\ m \in 1 .. n + 1
    BY <2>3, <2>4
  <2>6. f[m - 1] = g[m - 1]
    BY <2>2, <2>5
  <2> HIDE DEF T
  <2>7. f[m] = EditedBy(keys[m], f[m - 1], room) /\ g[m] = EditedBy(more[m], g[m - 1], room)
    BY <2>5, <1>6, <1>7
  <2> QED BY <2>3, <2>5, <2>6, <2>7, <1>3
<1>9. n \in 0 .. n /\ n + 1 \in 1 .. n + 1 /\ (n + 1) - 1 = n
  OBVIOUS
<1>10. g[n + 1] = EditedBy(c, g[n], room)
  BY <1>3, <1>7, <1>9
<1>11. g[n] = f[n] /\ f[n] \in Seq(Chars)
  BY <1>6, <1>8, <1>9
<1> QED BY <1>1, <1>2, <1>3, <1>4, <1>5, <1>10, <1>11

-----------------------------------------------------------------------------
(* What ACCEPT has got *)

(* The buffer of an ACCEPT holds the line as edited so far; the other      *)
(* words have read nothing.                                                *)
AcceptOK(f) ==
  IF f.op = "accept" THEN f.n2 <= f.room /\ SubSeq(f.buf, 1, f.n2) = Edited(f.heard, f.room)
  ELSE f.n2 = 0 /\ f.heard = <<>>

AcceptInv == \A i \in 1 .. Len(frames) : AcceptOK(frames[i])

SameLine(f, g) == f.n2 = g.n2 /\ f.heard = g.heard /\ f.room = g.room /\ f.buf = g.buf

(* The start of a buffer with room for a character more.                   *)
LEMMA BufferStart ==
  ASSUME NEW b \in [1 .. MaxRoom + 1 -> Chars \cup {"none"}], NEW n \in 0 .. MaxRoom + 1
  PROVE  /\ SubSeq(b, 1, n) \in Seq(Chars \cup {"none"}) /\ Len(SubSeq(b, 1, n)) = n
         /\ \A i \in 1 .. n : SubSeq(b, 1, n)[i] = b[i]
<1>1. MaxRoom \in Nat
  BY DevicesAssumption
<1>2. n \in Int /\ 1 \in Int /\ \A i \in 1 .. n : b[i] \in Chars \cup {"none"}
  BY <1>1
<1>3. /\ SubSeq(b, 1, n) \in Seq(Chars \cup {"none"})
      /\ Len(SubSeq(b, 1, n)) = IF 1 <= n THEN n - 1 + 1 ELSE 0
      /\ \A i \in 1 .. n - 1 + 1 : SubSeq(b, 1, n)[i] = b[1 + i - 1]
  BY ONLY <1>2, SubSeqProperties, Z3
<1>4. (IF 1 <= n THEN n - 1 + 1 ELSE 0) = n
  OBVIOUS
<1>5. ASSUME NEW i \in 1 .. n PROVE SubSeq(b, 1, n)[i] = b[i]
  <2>1. i \in 1 .. n - 1 + 1 /\ 1 + i - 1 = i
    OBVIOUS
  <2> QED BY ONLY <1>3, <2>1, Zenon
<1>6. Len(SubSeq(b, 1, n)) = n
  <2>1. PICK l : l = Len(SubSeq(b, 1, n))
    OBVIOUS
  <2>2. l = IF 1 <= n THEN n - 1 + 1 ELSE 0
    BY ONLY <2>1, <1>3, Zenon
  <2> QED BY <2>1, <2>2, <1>4
<1>7. \A i \in 1 .. n : SubSeq(b, 1, n)[i] = b[i]
  BY ONLY <1>5
<1> QED BY ONLY <1>3, <1>6, <1>7

(* Where a key moves the end of it.                                        *)
Moved(k, n, c, room) ==
  k = IF c = "nl" THEN n ELSE IF c = "del" THEN RubOut(n) ELSE IF n < room THEN n + 1 ELSE n

(* What it does to the line.                                               *)
OneEdit(b, n, c, room, k) ==
  /\ k <= room
  /\ SubSeq([b EXCEPT ![n + 1] = c], 1, k) = EditedBy(c, SubSeq(b, 1, n), room)

(* A key of ACCEPT's is one edit of what it has.                           *)
LEMMA AcceptedMore ==
  ASSUME NEW b \in [1 .. MaxRoom + 1 -> Chars \cup {"none"}], NEW n \in 0 .. MaxRoom,
         NEW room \in 0 .. MaxRoom, n <= room, NEW c \in Chars,
         NEW k \in 0 .. MaxRoom, Moved(k, n, c, room)
  PROVE  OneEdit(b, n, c, room, k)
<1>1. MaxRoom \in Nat
  BY DevicesAssumption
<1>2. PICK a : a = [b EXCEPT ![n + 1] = c]
  OBVIOUS
<1>3. /\ a \in [1 .. MaxRoom + 1 -> Chars \cup {"none"}] /\ a[n + 1] = c
      /\ \A i \in 1 .. n : a[i] = b[i]
  BY <1>1, <1>2
<1>4. k \in 0 .. MaxRoom + 1 /\ k <= room
  BY <1>1 DEF Moved, RubOut, Clamp
<1> DEFINE C == Chars \cup {"none"}
<1>5. PICK s : s = SubSeq(b, 1, n)
  OBVIOUS
<1>6. n \in 0 .. MaxRoom + 1
  BY <1>1
<1>7. s \in Seq(C) /\ Len(s) = n /\ \A i \in 1 .. n : s[i] = b[i]
  BY <1>5, <1>6, BufferStart
<1>8. PICK t : t = SubSeq(a, 1, k)
  OBVIOUS
<1>9. t \in Seq(C) /\ Len(t) = k /\ \A i \in 1 .. k : t[i] = a[i]
  BY <1>3, <1>4, <1>8, BufferStart
<1> HIDE DEF C
<1>10. s = <<>> <=> n = 0
  BY <1>7, EmptySeq
<1>11. t = EditedBy(c, s, room)
  <2>1. ASSUME k = n PROVE t = s
    BY <1>3, <1>7, <1>9, <2>1, SeqEqual
  <2>2. CASE c = "nl"
    BY <2>1, <2>2 DEF EditedBy, Moved
  <2>3. CASE c = "del"
    <3>1. CASE n = 0
      <4>1. k = n
        BY <2>3, <3>1 DEF Moved, RubOut, Clamp
      <4> QED BY <2>1, <2>3, <3>1, <4>1, <1>10 DEF EditedBy
    <3>2. CASE n # 0
      <4>1. k = n - 1 /\ k \in Nat
        BY <2>3, <3>2 DEF Moved, RubOut, Clamp
      <4>2. Front(s) = SubSeq(s, 1, k)
        BY <1>7, <4>1 DEF Front
      <4>3. /\ SubSeq(s, 1, k) \in Seq(C)
            /\ Len(SubSeq(s, 1, k)) = IF 1 <= k THEN k - 1 + 1 ELSE 0
            /\ \A i \in 1 .. k - 1 + 1 : SubSeq(s, 1, k)[i] = s[1 + i - 1]
        <5>1. k \in Int /\ 1 \in Int /\ \A i \in 1 .. k : s[i] \in C
          BY <1>7, <4>1, ElementOfSeq
        <5> QED BY ONLY <5>1, SubSeqProperties, Z3
      <4>4. PICK w : w = SubSeq(s, 1, k)
        OBVIOUS
      <4>5. w \in Seq(C) /\ Len(w) = k
        BY <4>1, <4>3, <4>4
      <4>6. ASSUME NEW i \in 1 .. k PROVE t[i] = w[i]
        <5>1. i \in 1 .. k - 1 + 1 /\ 1 + i - 1 = i /\ i \in 1 .. n
          BY <4>1
        <5>2. w[i] = s[i]
          BY <4>3, <4>4, <5>1
        <5> QED BY ONLY <5>1, <5>2, <1>3, <1>7, <1>9, i \in 1 .. k
      <4>7. t = w
        BY <1>9, <4>5, <4>6, SeqEqual
      <4> QED BY <2>3, <3>2, <4>2, <4>4, <4>7, <1>10 DEF EditedBy
    <3> QED BY <3>1, <3>2
  <2>4. CASE c # "nl" /\ c # "del" /\ n < room
    <3>1. k = n + 1
      BY <2>4 DEF Moved
    <3>2. PICK w : w = Append(s, c)
      OBVIOUS
    <3>3. c \in C
      BY DEF C
    <3>4. w \in Seq(C) /\ Len(w) = n + 1 /\ w[n + 1] = c /\ \A i \in 1 .. n : w[i] = s[i]
      BY <1>7, <3>2, <3>3, AppendProperties
    <3>5. ASSUME NEW i \in 1 .. k PROVE t[i] = w[i]
      <4>1. i \in 1 .. n \/ i = n + 1
        BY <3>1
      <4> QED BY <4>1, <1>3, <1>7, <1>9, <3>4
    <3>6. t = w
      BY <1>9, <3>1, <3>4, <3>5, SeqEqual
    <3> QED BY <2>4, <3>2, <3>6, <1>7 DEF EditedBy
  <2>5. CASE c # "nl" /\ c # "del" /\ ~(n < room)
    BY <2>1, <2>5, <1>7 DEF EditedBy, Moved
  <2> QED BY <2>2, <2>3, <2>4, <2>5
<1> QED BY <1>2, <1>4, <1>5, <1>8, <1>11 DEF OneEdit

(* A frame that goes on with what it has, and one in no word.              *)
LEMMA SameLineOK ==
  ASSUME NEW f \in Frame, NEW g \in Frame, AcceptOK(g), SameLine(f, g), f.op = g.op
  PROVE  AcceptOK(f)
  BY DEF AcceptOK, SameLine

LEMMA IdleOK ==
  ASSUME NEW who, NEW left
  PROVE  AcceptOK(Idle(who, left))
<1>1. /\ Idle(who, left).n2 = 0 /\ Idle(who, left).heard = <<>> /\ Idle(who, left).op = "none"
  BY DEF Idle
<1> QED BY <1>1 DEF AcceptOK

(* A step of the innermost frame.                                          *)
LEMMA AcceptMove ==
  ASSUME FramesOK, AcceptInv, NEW f \in Frame, Become(f), AcceptOK(f)
  PROVE  AcceptInv'
  BY BecomeStep DEF AcceptInv

(* The process ends.                                                       *)
LEMMA AcceptEnds ==
  ASSUME NEW how, Ends(how)
  PROVE  AcceptInv'
<1>1. PICK f : f = Idle("main", 0)
  OBVIOUS
<1>2. frames' = <<f>> /\ AcceptOK(f)
  BY <1>1, IdleOK DEF Ends
<1>3. Len(frames') = 1 /\ frames'[1] = f
  BY <1>2
<1> QED BY <1>2, <1>3 DEF AcceptInv

(* The words of the terminal.                                              *)
LEMMA AcceptTerminal ==
  ASSUME TypeOK, AcceptInv, Terminal
  PROVE  AcceptInv'
<1>0. /\ FramesOK /\ Self \in Frame /\ Consistent(Self) /\ AcceptOK(Self) /\ tty \in Settings
      /\ Self.who \in Signals \cup {"main"} /\ Self.left \in Int
  <2>1. FramesOK /\ Self \in Frame /\ tty \in Settings
    BY SelfAndUnder DEF TypeOK
  <2>2. Len(frames) \in 1 .. Len(frames) /\ Self = frames[Len(frames)]
    BY <2>1, SelfAndUnder
  <2>3. AcceptOK(Self)
    BY <2>2 DEF AcceptInv
  <2>4. Self.who \in Signals \cup {"main"} /\ Self.left \in Int
    BY <2>1 DEF Frame
  <2> QED BY <2>1, <2>3, <2>4, SelfConsistent
<1>a. ASSUME NEW f \in Frame, Become(f), SameLine(f, Self), f.op = Self.op
      PROVE  AcceptInv'
  BY <1>0, <1>a, SameLineOK, AcceptMove
<1>b. ASSUME NEW f \in Frame, Become(f), SameLine(f, Self),
             f.op # "accept", Self.op # "accept"
      PROVE  AcceptInv'
  <2>1. AcceptOK(f)
    BY <1>0, <1>b DEF AcceptOK, SameLine
  <2> QED BY <1>0, <1>b, <2>1, AcceptMove
<1>c. AcceptOK(Finished) /\ Finished \in Frame
  BY <1>0, IdleOK, FinishedTyped DEF Finished
<1>d. ASSUME NEW op \in Ops \ {"none", "lookup"}, NEW at \in Ats
      PROVE  /\ Enters(op, at) \in Frame /\ Enters(op, at).op = op
             /\ SameLine(Enters(op, at), Self)
  <2>1. Enters(op, at) \in Frame /\ Enters(op, at).op = op
    BY <1>0, StartTyped
  <2>2. SameLine(Enters(op, at), Self)
    BY <1>0 DEF Enters, SameLine, Frame
  <2> QED BY <2>1, <2>2
<1>e. \A at \in Ats :
        LET f == [Self EXCEPT !.at = at]
        IN  f \in Frame /\ SameLine(f, Self) /\ f.op = Self.op
  BY <1>0 DEF Frame, SameLine
<1>f. \A at \in Ats, c \in [char : Chars, num : Nat] :
        LET f == [Self EXCEPT !.at = at, !.ch = c]
        IN  f \in Frame /\ SameLine(f, Self) /\ f.op = Self.op
  BY <1>0 DEF Frame, SameLine
<1>1. CASE C_key
  <2> DEFINE e == Enters("key", "clear") d == Enters("key", "save")
  <2>1. Self.op # "accept" /\ (Become([e EXCEPT !.ch = key_query_char]) \/ Become(d))
    BY <1>1 DEF C_key, Starts
  <2>2. /\ e \in Frame /\ SameLine(e, Self) /\ e.op = "key"
        /\ d \in Frame /\ SameLine(d, Self) /\ d.op = "key"
    BY <1>d DEF Ops, Ats
  <2> HIDE DEF e, d
  <2>3. LET f == [e EXCEPT !.ch = key_query_char]
        IN  f \in Frame /\ SameLine(f, Self) /\ f.op = "key"
    BY <2>2 DEF Frame, TypeOK, SameLine
  <2> QED BY <1>b, <2>1, <2>2, <2>3
<1>2. CASE C_key_clear \/ Restores
  <2>1. Become(Finished)
    BY <1>2 DEF C_key_clear, Restores
  <2> QED BY <1>0, <1>c, <2>1, AcceptMove
<1>3. CASE C_keyquery
  <2>1. CASE Become([Finished EXCEPT !.left = @ - 1])
    <3> DEFINE g == Finished f == [g EXCEPT !.left = @ - 1]
    <3>1. g \in Frame /\ AcceptOK(g) /\ Become(f)
      BY <1>c, <2>1
    <3> HIDE DEF g
    <3>2. g.left \in Int
      BY <3>1 DEF Frame
    <3>3. \A n \in Int : LET h == [g EXCEPT !.left = n]
                         IN  h \in Frame /\ SameLine(h, g) /\ h.op = g.op
      BY <3>1 DEF Frame, SameLine
    <3>4. f \in Frame /\ SameLine(f, g) /\ f.op = g.op
      BY <3>2, <3>3
    <3> HIDE DEF f
    <3> QED BY <1>0, <3>1, <3>4, SameLineOK, AcceptMove
  <2>2. CASE Become(Enters("keyquery", "save"))
    <3>1. Self.op # "accept"
      BY <1>3 DEF C_keyquery, Starts
    <3> QED BY <1>b, <1>d, <2>2, <3>1 DEF Ops, Ats
  <2> QED BY <1>3, <2>1, <2>2 DEF C_keyquery
<1>4. CASE C_accept
  <2> DEFINE e == Enters("accept", "save")
  <2>1. e \in Frame /\ SameLine(e, Self) /\ e.op = "accept"
    BY <1>d DEF Ops, Ats
  <2>2. PICK n1 \in 0 .. MaxRoom : Become([e EXCEPT !.room = n1])
    BY <1>4 DEF C_accept
  <2> HIDE DEF e
  <2> DEFINE f == [e EXCEPT !.room = n1]
  <2>3. /\ f \in Frame /\ f.op = "accept" /\ f.room = n1
        /\ f.n2 = Self.n2 /\ f.heard = Self.heard /\ f.buf = Self.buf
    BY <2>1 DEF Frame, SameLine
  <2>4. Self.n2 = 0 /\ Self.heard = <<>>
    BY <1>0, <1>4 DEF C_accept, Starts, AcceptOK
  <2> HIDE DEF f
  <2>5. f.n2 = 0 /\ f.heard = <<>> /\ f.n2 <= f.room /\ n1 \in Nat
    BY <2>3, <2>4, DevicesAssumption
  <2>6. SubSeq(f.buf, 1, 0) = <<>>
    BY SubSeqEmpty
  <2>7. Edited(<<>>, n1) = <<>>
    BY <2>5, EditedNothing
  <2>8. AcceptOK(f)
    BY <2>3, <2>5, <2>6, <2>7 DEF AcceptOK
  <2> QED BY <1>0, <2>2, <2>3, <2>8, AcceptMove DEF f
<1>5. CASE Saves
  <2> DEFINE f == [Self EXCEPT !.at = "raw", !.t1 = tty]
  <2>1. Become(f) /\ "raw" \in Ats
    BY <1>5 DEF Saves, Ats
  <2>2. f \in Frame /\ SameLine(f, Self) /\ f.op = Self.op
    BY <1>0, <2>1 DEF Frame, SameLine
  <2> HIDE DEF f
  <2> QED BY <1>a, <2>1, <2>2
<1>6. CASE SetsRaw \/ KeepsKey
  <2>1. PICK at \in Ats : Become([Self EXCEPT !.at = at])
    BY <1>6 DEF SetsRaw, KeepsKey, Ats
  <2> QED BY <1>a, <1>e, <2>1
<1>7. CASE ReadsKey \/ LooksForKey
  <2>1. CASE \E at \in Ats : Become([Self EXCEPT !.at = at])
    BY <1>a, <1>e, <2>1
  <2>2. CASE TakesKey /\ \E at \in Ats : Become([Self EXCEPT !.at = at, !.ch = TheKey])
    BY <1>a, <1>f, <2>2, KeyTyped
  <2> QED BY <1>7, <2>1, <2>2 DEF ReadsKey, LooksForKey, Ats
<1>8. CASE AcceptsKey
  <2> DEFINE at == IF Head(typed) = "nl" THEN "restore" ELSE "read"
             f == Accepting(Head(typed), at)
  <2>1. Become(f)
    BY <1>8, Zenon DEF AcceptsKey, Accepting
  <2>2. at \in Ats /\ Self.op = "accept" /\ Head(typed) \in Chars
    BY <1>8, KeyTyped DEF AcceptsKey, Working, Ats
  <2> HIDE DEF at
  <2>3. f \in Frame /\ f.op = "accept"
    BY <1>0, <2>2, AcceptsTyped
  <2>4. PICK c \in Chars : c = Head(typed)
    BY <2>2
  <2>5. /\ Self.n2 \in 0 .. MaxRoom /\ Self.room \in 0 .. MaxRoom /\ Self.room \in Nat
        /\ Self.buf \in [1 .. MaxRoom + 1 -> Chars \cup {"none"}] /\ Self.heard \in Seq(Chars)
    BY <1>0, DevicesAssumption DEF Frame
  <2>6. /\ f.room = Self.room /\ f.heard = Append(Self.heard, c)
        /\ f.buf = [Self.buf EXCEPT ![Self.n2 + 1] = c]
        /\ f.n2 = IF c = "nl" THEN Self.n2 ELSE IF c = "del" THEN RubOut(Self.n2)
                  ELSE IF Self.n2 < Self.room THEN Self.n2 + 1 ELSE Self.n2
    BY <1>0, <2>4 DEF Accepting, Frame
  <2> HIDE DEF f
  <2>7. Self.n2 <= Self.room /\ SubSeq(Self.buf, 1, Self.n2) = Edited(Self.heard, Self.room)
    BY <1>0, <2>2 DEF AcceptOK
  <2>8. /\ f.n2 <= Self.room
        /\ SubSeq(f.buf, 1, f.n2) = EditedBy(c, SubSeq(Self.buf, 1, Self.n2), Self.room)
    <3>1. PICK b \in [1 .. MaxRoom + 1 -> Chars \cup {"none"}], n \in 0 .. MaxRoom,
               room \in 0 .. MaxRoom, k \in 0 .. MaxRoom :
            b = Self.buf /\ n = Self.n2 /\ room = Self.room /\ k = f.n2
      BY <2>3, <2>5 DEF Frame
    <3>2. /\ k <= room
          /\ SubSeq([b EXCEPT ![n + 1] = c], 1, k) = EditedBy(c, SubSeq(b, 1, n), room)
      <4>1. n <= room /\ Moved(k, n, c, room)
        BY ONLY <2>6, <2>7, <3>1 DEF Moved
      <4>2. OneEdit(b, n, c, room, k)
        BY <4>1, AcceptedMore
      <4> QED BY ONLY <4>2 DEF OneEdit
    <3> QED BY ONLY <3>1, <3>2, <2>6
  <2>9. Edited(f.heard, Self.room) = EditedBy(c, Edited(Self.heard, Self.room), Self.room)
    <3>1. PICK keys \in Seq(Chars), room \in Nat : keys = Self.heard /\ room = Self.room
      BY <2>5
    <3>2. Edited(Append(keys, c), room) = EditedBy(c, Edited(keys, room), room)
      BY EditedMore
    <3> QED BY ONLY <3>1, <3>2, <2>6
  <2>10. AcceptOK(f)
    BY <2>3, <2>6, <2>7, <2>8, <2>9 DEF AcceptOK
  <2> QED BY <1>0, <2>1, <2>3, <2>10, AcceptMove
<1> QED BY <1>1, <1>2, <1>3, <1>4, <1>5, <1>6, <1>7, <1>8 DEF Terminal

(* FORTH-SIGNAL, RAISE, the handlers and main() touch no line.             *)
LEMMA AcceptOthers ==
  ASSUME TypeOK, AcceptInv, Handling \/ Main
  PROVE  AcceptInv'
<1>0. /\ FramesOK /\ Self \in Frame /\ AcceptOK(Self) /\ tty \in Settings
      /\ Self.who \in Signals \cup {"main"} /\ Self.left \in Int /\ Self.left - 1 \in Int
  <2>1. FramesOK /\ Self \in Frame /\ tty \in Settings
    BY SelfAndUnder DEF TypeOK
  <2>2. Len(frames) \in 1 .. Len(frames) /\ Self = frames[Len(frames)]
    BY <2>1, SelfAndUnder
  <2>3. AcceptOK(Self)
    BY <2>2 DEF AcceptInv
  <2>4. Self.who \in Signals \cup {"main"} /\ Self.left \in Int
    BY <2>1 DEF Frame
  <2> QED BY <2>1, <2>3, <2>4
<1>b. ASSUME NEW f \in Frame, Become(f), SameLine(f, Self),
             f.op = Self.op \/ (f.op # "accept" /\ Self.op # "accept")
      PROVE  AcceptInv'
  <2>1. AcceptOK(f)
    BY <1>0, <1>b DEF AcceptOK, SameLine
  <2> QED BY <1>0, <1>b, <2>1, AcceptMove
<1>i. ASSUME NEW who \in Signals \cup {"main"}, NEW left \in Int, Become(Idle(who, left))
      PROVE  AcceptInv'
  <2>1. Idle(who, left) \in Frame /\ AcceptOK(Idle(who, left))
    BY IdleTyped, IdleOK
  <2> QED BY <1>0, <1>i, <2>1, AcceptMove
<1>l. ASSUME Become([Self EXCEPT !.left = @ - 1])
      PROVE  AcceptInv'
  <2>1. \A n \in Int : LET f == [Self EXCEPT !.left = n]
                       IN  f \in Frame /\ SameLine(f, Self) /\ f.op = Self.op
    BY <1>0 DEF Frame, SameLine
  <2> QED BY <1>0, <1>b, <1>l, <2>1
<1>1. CASE C_forth_signal
  <2> DEFINE e == Enters("signal", "table")
  <2>1. PICK s \in Signals, xt \in Words \cup {NoXt} : Become([e EXCEPT !.sig = s, !.xt = xt])
    BY <1>1 DEF C_forth_signal
  <2>2. e \in Frame /\ e.op = "signal"
    BY <1>0, StartTyped DEF Ops, Ats
  <2>3. SameLine(e, Self) /\ Self.op # "accept"
    BY <1>0, <1>1 DEF Enters, SameLine, Frame, C_forth_signal, Starts
  <2> HIDE DEF e
  <2> DEFINE f == [e EXCEPT !.sig = s, !.xt = xt]
  <2>4. f \in Frame /\ f.op = "signal" /\ SameLine(f, Self)
    BY <2>2, <2>3 DEF Frame, SameLine
  <2> QED BY <1>b, <2>1, <2>3, <2>4
<1>2. CASE SetsTable
  <2>1. Become(Idle(Self.who, Self.left))
    BY <1>2 DEF SetsTable, Finished
  <2> QED BY <1>0, <1>i, <2>1
<1>3. CASE C_raise \/ Colds
  BY <1>3, <1>l DEF C_raise, Colds
<1>4. CASE forth_signal_handler
  <2>1. PICK n \in Int : Become(Idle(Self.who, n))
    BY <1>4 DEF forth_signal_handler
  <2> QED BY <1>0, <1>i, <2>1
<1>5. CASE HandlerReturns
  BY <1>0, <1>5, PopStep, SelfAndUnder DEF HandlerReturns, AcceptInv
<1>6. CASE Prompts
  <2> DEFINE f == [Self EXCEPT !.t1 = tty]
  <2>1. f \in Frame /\ f.op = Self.op /\ SameLine(f, Self)
    BY <1>0 DEF Frame, SameLine
  <2>2. Become(f)
    BY <1>6 DEF Prompts
  <2> QED BY <1>b, <2>1, <2>2
<1>7. CASE PromptReads
  <2>1. UNCHANGED frames \/ Become(Idle("main", MaxOps))
    BY <1>7 DEF PromptReads
  <2>2. MaxOps \in Int
    BY DevicesAssumption
  <2>3. CASE UNCHANGED frames
    BY <2>3 DEF AcceptInv
  <2> QED BY <1>i, <2>1, <2>2, <2>3
<1>8. CASE EndOfInput \/ Byes
  BY <1>8, AcceptEnds DEF EndOfInput, Byes, CPP_bye
<1>9. CASE RunsLine \/ EndsLine
  BY <1>9 DEF RunsLine, EndsLine, AcceptInv
<1> QED BY <1>1, <1>2, <1>3, <1>4, <1>5, <1>6, <1>7, <1>8, <1>9 DEF Handling, Main

LEMMA AcceptStep == TypeOK /\ AcceptInv /\ [Next]_vars => AcceptInv'
<1> SUFFICES ASSUME TypeOK, AcceptInv, [Next]_vars PROVE AcceptInv'
  OBVIOUS
<1>1. CASE Program
  BY <1>1, AcceptTerminal, AcceptOthers DEF Program, Free
<1>2. CASE Delivers
  <2>0. FramesOK /\ Len(frames) \in Nat
    BY SelfAndUnder DEF TypeOK
  <2>1. PICK s \in Signals : Delivered(s)
    BY <1>2 DEF Delivers
  <2>2. CASE Ends("killed")
    BY <2>2, AcceptEnds
  <2>3. CASE frames' = frames
    BY <2>3 DEF AcceptInv
  <2>4. CASE frames' = Append(frames, [Idle(s, 1) EXCEPT !.op = "lookup"])
    <3> DEFINE g == Idle(s, 1) f == [g EXCEPT !.op = "lookup"]
    <3>1. g \in Frame /\ g.op = "none" /\ AcceptOK(g)
      BY IdleTyped, IdleOK
    <3>2. frames' = Append(frames, f)
      BY <2>4
    <3> HIDE DEF g
    <3>3. f \in Frame /\ f.op = "lookup" /\ f.n2 = g.n2 /\ f.heard = g.heard
      BY <3>1 DEF Frame, Ops
    <3> HIDE DEF f
    <3>4. AcceptOK(f)
      BY <3>1, <3>3 DEF AcceptOK
    <3>5. /\ Len(frames') = Len(frames) + 1 /\ frames'[Len(frames) + 1] = f
          /\ \A i \in 1 .. Len(frames) : frames'[i] = frames[i]
      BY <2>0, <3>2, <3>3, PushStep
    <3>6. \A i \in 1 .. Len(frames) + 1 : i \in 1 .. Len(frames) \/ i = Len(frames) + 1
      BY <2>0
    <3> QED BY <3>4, <3>5, <3>6 DEF AcceptInv
  <2> QED BY <2>1, <2>2, <2>3, <2>4 DEF Delivered
<1>3. CASE SignalSent \/ Types \/ UNCHANGED vars
  <2>1. UNCHANGED frames
    BY <1>3 DEF SignalSent, Types, vars
  <2> QED BY <2>1 DEF AcceptInv
<1> QED BY <1>1, <1>2, <1>3 DEF Next

LEMMA AcceptInit == Init => AcceptInv
<1> SUFFICES ASSUME Init PROVE AcceptInv
  OBVIOUS
<1>1. PICK f : f = Idle("main", MaxOps)
  OBVIOUS
<1>2. frames = <<f>> /\ AcceptOK(f)
  BY <1>1, IdleOK DEF Init
<1>3. Len(frames) = 1 /\ frames[1] = f
  BY <1>2
<1> QED BY <1>2, <1>3 DEF AcceptInv

(* Whatever is typed, rubbed out or typed beyond the room there is, and    *)
(* whatever handlers and ACCEPTs of theirs come in between, the buffer of  *)
(* an ACCEPT holds the line as edited (C_accept).                          *)
THEOREM AcceptedIsEditedCorrect == Spec => []AcceptedIsEdited
<1>1. TypeOK /\ AcceptInv => AcceptedIsEdited
  <2> SUFFICES ASSUME TypeOK, AcceptInv, NEW i \in DOMAIN frames, frames[i].op = "accept"
               PROVE  SubSeq(frames[i].buf, 1, frames[i].n2) = Edited(frames[i].heard, frames[i].room)
    BY Zenon DEF AcceptedIsEdited
  <2>1. i \in 1 .. Len(frames)
    BY SelfAndUnder DEF TypeOK
  <2> QED BY <2>1 DEF AcceptInv, AcceptOK
<1> QED BY <1>1, TypeInit, TypeStep, AcceptInit, AcceptStep, PTL DEF Spec

===============================================================================
