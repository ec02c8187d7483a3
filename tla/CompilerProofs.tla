----------------------------- MODULE CompilerProofs -----------------------------
(***************************************************************************)
(* Theorems about the compiler, for every source, every depth of nested    *)
(* streams, every length of definitions and every width of an int: its     *)
(* types; and, for sources that keep the rules about streams, that the     *)
(* code is written where the words write, that STATE says what the source  *)
(* says, and that the dictionary gets exactly the code the source asked    *)
(* for.                                                                    *)
(***************************************************************************)
EXTENDS Compiler, SequenceTheorems, WellFoundedInduction, TLAPS

-----------------------------------------------------------------------------
(* Types of the compilation state *)

Args   == Int \cup {Hole}
CState == [code : Seq(Instructions), ctl : [Stacks -> Seq(Int)], wild : BOOLEAN, e : Codes]

(* The widths of instructions, and so the offsets, are natural numbers.    *)
LEMMA WidthNat == \A op \in Opcodes : Width(op) \in Nat \ {0}
  BY CompilerAssumption DEF Width

LEMMA SizeNat ==
  ASSUME NEW code \in Seq(Instructions) PROVE Size(code) \in Nat
<1>1. CASE code = <<>>
  BY <1>1 DEF Size
<1>2. CASE code # <<>>
  <2>1. Len(code) \in 1 .. Len(code)
    BY <1>2, EmptySeq, LenProperties
  <2>2. code[Len(code)] \in Instructions
    BY <2>1, ElementOfSeq
  <2> QED BY <1>2, <2>2, WidthNat DEF Size, Last, Instructions
<1> QED BY <1>1, <1>2

(* Emit() appends one instruction, at the end of the code.                 *)
LEMMA EmitTyped ==
  ASSUME NEW code \in Seq(Instructions), NEW op \in Opcodes, NEW arg \in Args
  PROVE  /\ Emit(code, op, arg) \in Seq(Instructions)
         /\ Len(Emit(code, op, arg)) = Len(code) + 1
         /\ \A k \in 1 .. Len(code) : Emit(code, op, arg)[k] = code[k]
         /\ Emit(code, op, arg)[Len(code) + 1] = [op |-> op, at |-> Size(code), arg |-> arg]
         /\ Size(Emit(code, op, arg)) = Size(code) + Width(op)
<1> DEFINE i == [op |-> op, at |-> Size(code), arg |-> arg]
<1>1. i \in Instructions
  BY SizeNat DEF Instructions, Args
<1>2. i.op = op /\ i.at = Size(code)
  OBVIOUS
<1> HIDE DEF i
<1>3. Emit(code, op, arg) = Append(code, i)
  BY DEF Emit, i
<1>4. Size(Append(code, i)) = i.at + Width(i.op)
  BY <1>1, AppendProperties DEF Size, Last
<1> QED BY <1>1, <1>2, <1>3, <1>4, AppendProperties DEF i

LEMMA StateFields ==
  ASSUME NEW s \in CState
  PROVE  /\ s.code \in Seq(Instructions) /\ s.ctl \in [Stacks -> Seq(Int)]
         /\ s.wild \in BOOLEAN /\ s.e \in Codes
  BY DEF CState

LEMMA JumpTyped ==
  ASSUME NEW s \in CState, NEW op \in Opcodes, NEW n \in Args
  PROVE  /\ Jump(s, op, n) \in CState
         /\ Jump(s, op, n).code = Emit(s.code, op, n)
         /\ Jump(s, op, n).ctl = s.ctl /\ Jump(s, op, n).wild = s.wild
         /\ Jump(s, op, n).e = s.e
<1>1. Emit(s.code, op, n) \in Seq(Instructions)
  BY EmitTyped, StateFields
<1> QED BY <1>1 DEF CState, Jump

LEMMA OpTyped ==
  ASSUME NEW s \in CState, NEW op \in Opcodes
  PROVE  /\ Op(s, op) \in CState
         /\ Op(s, op).code = Emit(s.code, op, 0)
         /\ Op(s, op).ctl = s.ctl /\ Op(s, op).wild = s.wild /\ Op(s, op).e = s.e
<1>1. 0 \in Args
  BY DEF Args
<1> QED BY <1>1, JumpTyped DEF Op

LEMMA FailsTyped ==
  ASSUME NEW s \in CState, NEW e \in Codes
  PROVE  /\ Fails(s, e) \in CState
         /\ Fails(s, e).code = s.code /\ Fails(s, e).ctl = s.ctl
         /\ Fails(s, e).wild = s.wild /\ Fails(s, e).e = e
  BY DEF CState, Fails

LEMMA PushedTyped ==
  ASSUME NEW s \in CState, NEW st \in Stacks, NEW i \in Int
  PROVE  /\ Pushed(s, st, i) \in CState
         /\ Pushed(s, st, i).code = s.code
         /\ Pushed(s, st, i).ctl = [s.ctl EXCEPT ![st] = Append(@, i)]
         /\ Pushed(s, st, i).wild = s.wild /\ Pushed(s, st, i).e = s.e
<1>1. s.ctl \in [Stacks -> Seq(Int)] /\ Append(s.ctl[st], i) \in Seq(Int)
  BY StateFields, AppendProperties
<1>2. [s.ctl EXCEPT ![st] = Append(@, i)] \in [Stacks -> Seq(Int)]
  BY <1>1
<1>3. Pushed(s, st, i) = [s EXCEPT !.ctl = [s.ctl EXCEPT ![st] = Append(@, i)]]
  BY DEF Pushed, CState
<1> QED BY <1>2, <1>3 DEF CState

(* The top of a stack that is not empty, and the stack without it.         *)
LEMMA FrontTyped ==
  ASSUME NEW S, NEW q \in Seq(S), q # <<>>
  PROVE  /\ Front(q) \in Seq(S) /\ Last(q) \in S
         /\ Len(Front(q)) = Len(q) - 1 /\ Len(q) \in Nat \ {0}
         /\ \A i \in 1 .. Len(q) - 1 : Front(q)[i] = q[i]
<1>1. Len(q) \in Nat \ {0}
  BY EmptySeq
<1>2. \A i \in 1 .. Len(q) - 1 : q[i] \in S
  BY <1>1, ElementOfSeq
<1>3. Len(q) \in 1 .. Len(q)
  BY <1>1
<1>4. Last(q) \in S
  BY <1>3, ElementOfSeq DEF Last
<1>5. /\ Front(q) \in Seq(S)
      /\ Len(Front(q)) = IF 1 <= Len(q) - 1 THEN Len(q) - 1 - 1 + 1 ELSE 0
      /\ \A i \in 1 .. Len(q) - 1 - 1 + 1 : Front(q)[i] = q[1 + i - 1]
  <2>1. 1 \in Int /\ Len(q) - 1 \in Int
    BY <1>1
  <2> QED BY <1>2, <2>1, SubSeqProperties DEF Front
<1>6. Len(q) - 1 - 1 + 1 = Len(q) - 1
  BY <1>1
<1>7. \A i \in 1 .. Len(q) - 1 : Front(q)[i] = q[i]
  <2> TAKE i \in 1 .. Len(q) - 1
  <2>1. i \in Int /\ 1 + i - 1 = i
    BY <1>1
  <2> QED BY <1>5, <1>6, <2>1
<1>8. Len(Front(q)) = Len(q) - 1
  <2>1. Len(Front(q)) = IF 1 <= Len(q) - 1 THEN Len(q) - 1 - 1 + 1 ELSE 0
    BY <1>5
  <2>2. PICK n \in Nat \ {0} : n = Len(q)
    BY <1>1
  <2>3. Len(Front(q)) = IF 1 <= n - 1 THEN n - 1 - 1 + 1 ELSE 0
    BY <2>1, <2>2
  <2> QED BY <2>2, <2>3, Z3
<1> QED BY <1>1, <1>4, <1>5, <1>7, <1>8

LEMMA PoppedTyped ==
  ASSUME NEW s \in CState, NEW st \in Stacks, ~IsEmpty(s, st)
  PROVE  /\ Popped(s, st) \in CState
         /\ Popped(s, st).code = s.code
         /\ Popped(s, st).ctl = [s.ctl EXCEPT ![st] = Front(@)]
         /\ Popped(s, st).wild = s.wild /\ Popped(s, st).e = s.e
         /\ TopOf(s, st) \in Int
<1>1. s.ctl \in [Stacks -> Seq(Int)] /\ s.ctl[st] \in Seq(Int) /\ s.ctl[st] # <<>>
  BY StateFields DEF IsEmpty
<1>2. Front(s.ctl[st]) \in Seq(Int) /\ Last(s.ctl[st]) \in Int
  BY <1>1, FrontTyped
<1>3. [s.ctl EXCEPT ![st] = Front(@)] \in [Stacks -> Seq(Int)]
  BY <1>1, <1>2
<1>4. Popped(s, st) = [s EXCEPT !.ctl = [s.ctl EXCEPT ![st] = Front(@)]]
  BY DEF Popped, CState
<1> QED BY <1>2, <1>3, <1>4 DEF CState, TopOf

(* OpsCopyInt() changes arguments only.                                    *)
LEMMA CopyTyped ==
  ASSUME NEW s \in CState, NEW offsets, NEW n \in Int
  PROVE  LET t == OpsCopyInt(s, offsets, n) IN
         /\ t \in CState
         /\ t.ctl = s.ctl /\ t.e = s.e
         /\ Len(t.code) = Len(s.code) /\ DOMAIN t.code = DOMAIN s.code
         /\ \A k \in 1 .. Len(s.code) :
              /\ t.code[k].op = s.code[k].op /\ t.code[k].at = s.code[k].at
              /\ t.code[k].arg = IF s.code[k].arg = Hole /\ s.code[k].at + 1 \in offsets
                                 THEN Size(s.code) - s.code[k].at + n ELSE s.code[k].arg
         /\ t.wild = (s.wild \/ \E j \in offsets : \A k \in 1 .. Len(s.code) :
                        s.code[k].arg = Hole /\ s.code[k].at + 1 \in offsets
                          => s.code[k].at + 1 # j)
         /\ Size(t.code) = Size(s.code)
<1> DEFINE Hit(k) == s.code[k].arg = Hole /\ s.code[k].at + 1 \in offsets
           to(k)  == IF Hit(k) THEN [s.code[k] EXCEPT !.arg = Size(s.code) - s.code[k].at + n]
                     ELSE s.code[k]
           c == [k \in DOMAIN s.code |-> to(k)]
           w == s.wild \/ \E j \in offsets : \A k \in DOMAIN s.code : Hit(k) => s.code[k].at + 1 # j
<1>1. /\ s.code \in Seq(Instructions) /\ DOMAIN s.code = 1 .. Len(s.code) /\ Len(s.code) \in Nat
      /\ \A k \in 1 .. Len(s.code) : s.code[k] \in Instructions
  BY StateFields, LenProperties, ElementOfSeq
<1>2. Size(s.code) \in Nat
  BY <1>1, SizeNat
<1>3. ASSUME NEW k \in 1 .. Len(s.code)
      PROVE  /\ to(k) \in Instructions /\ to(k).op = s.code[k].op /\ to(k).at = s.code[k].at
             /\ to(k).arg = IF Hit(k) THEN Size(s.code) - s.code[k].at + n ELSE s.code[k].arg
  <2>1. s.code[k] \in Instructions
    BY <1>1
  <2>2. s.code[k].at \in Nat
    BY <2>1 DEF Instructions
  <2>3. Size(s.code) - s.code[k].at + n \in Int
    BY <1>2, <2>2
  <2> QED BY <2>1, <2>3 DEF Instructions
<1>4. c \in Seq(Instructions) /\ Len(c) = Len(s.code) /\ DOMAIN c = DOMAIN s.code
  <2>1. c \in [1 .. Len(s.code) -> Instructions]
    BY <1>1, <1>3
  <2> QED BY <1>1, <2>1, SeqDef
<1>5. OpsCopyInt(s, offsets, n) = [s EXCEPT !.wild = w, !.code = c]
  BY DEF OpsCopyInt
<1>6. w \in BOOLEAN
  BY StateFields
<1>7. OpsCopyInt(s, offsets, n).code = c /\ OpsCopyInt(s, offsets, n).wild = w
      /\ OpsCopyInt(s, offsets, n).ctl = s.ctl /\ OpsCopyInt(s, offsets, n).e = s.e
      /\ OpsCopyInt(s, offsets, n) \in CState
  <2> HIDE DEF c, w
  <2> QED BY <1>4, <1>5, <1>6 DEF CState
<1>8. Size(c) = Size(s.code)
  <2>1. CASE Len(s.code) = 0
    BY <2>1, <1>1, <1>4, EmptySeq DEF Size
  <2>2. CASE Len(s.code) # 0
    <3>1. Len(s.code) \in 1 .. Len(s.code) /\ s.code # <<>> /\ c # <<>>
      BY <2>2, <1>1, <1>4, EmptySeq
    <3>2. c[Len(s.code)].op = s.code[Len(s.code)].op /\ c[Len(s.code)].at = s.code[Len(s.code)].at
      BY <3>1, <1>1, <1>3
    <3> HIDE DEF c
    <3> QED BY <3>1, <3>2, <1>4 DEF Size, Last
  <2> QED BY <2>1, <2>2
<1>9. ASSUME NEW k \in 1 .. Len(s.code)
      PROVE  c[k] = to(k)
  BY <1>1
<1> HIDE DEF to
<1>10. \A k \in 1 .. Len(s.code) :
          /\ c[k].op = s.code[k].op /\ c[k].at = s.code[k].at
          /\ c[k].arg = IF Hit(k) THEN Size(s.code) - s.code[k].at + n ELSE s.code[k].arg
  BY <1>3, <1>9
<1> HIDE DEF c
<1> QED BY <1>1, <1>4, <1>7, <1>8, <1>10
(* Tuples, one element longer. *)
LEMMA Longer ==
  ASSUME NEW S, NEW u \in Seq(S), NEW v \in Seq(S), NEW x \in S,
         Len(v) = Len(u) + 1, v[Len(u) + 1] = x, \A i \in 1 .. Len(u) : v[i] = u[i]
  PROVE  Append(u, x) = v
<1>1. /\ Append(u, x) \in Seq(S) /\ Len(Append(u, x)) = Len(u) + 1
      /\ \A i \in 1 .. Len(u) : Append(u, x)[i] = u[i]
      /\ Append(u, x)[Len(u) + 1] = x
  BY AppendProperties
<1>2. \A i \in 1 .. Len(u) + 1 : Append(u, x)[i] = v[i]
  BY <1>1, LenProperties
<1> QED BY <1>1, <1>2, SeqEqual

LEMMA Tuples ==
  /\ \A a : Append(<<>>, a) = <<a>>
  /\ \A a, b : Append(<<a>>, b) = <<a, b>>
  /\ \A a, b, c : Append(<<a, b>>, c) = <<a, b, c>>
  /\ \A a, b, c, d : Append(<<a, b, c>>, d) = <<a, b, c, d>>
  /\ \A a, b, c, d, e : Append(<<a, b, c, d>>, e) = <<a, b, c, d, e>>
  /\ \A a, b, c, d, e, f : Append(<<a, b, c, d, e>>, f) = <<a, b, c, d, e, f>>
  /\ \A a, b, c, d, e, f, g : Append(<<a, b, c, d, e, f>>, g) = <<a, b, c, d, e, f, g>>
  /\ \A a, b, c, d, e, f, g, h : Append(<<a, b, c, d, e, f, g>>, h) = <<a, b, c, d, e, f, g, h>>
  /\ \A a, b, c, d, e, f, g, h, i : Append(<<a, b, c, d, e, f, g, h>>, i) = <<a, b, c, d, e, f, g, h, i>>
<1>1. ASSUME NEW a
      PROVE  Append(<<>>, a) = <<a>>
  OBVIOUS
<1>2. ASSUME NEW a, NEW b
      PROVE  Append(<<a>>, b) = <<a, b>>
  <2> DEFINE u == <<a>>
             v == <<a, b>>
             S == {a, b}
  <2>1. /\ u \in Seq(S) /\ v \in Seq(S) /\ b \in S /\ Len(v) = Len(u) + 1
        /\ v[Len(u) + 1] = b /\ \A x \in 1 .. Len(u) : v[x] = u[x]
    OBVIOUS
  <2>2. Append(u, b) = v
    <3> HIDE DEF u, v, S
    <3> QED BY <2>1, Longer
  <2> QED BY <2>2
<1>3. ASSUME NEW a, NEW b, NEW c
      PROVE  Append(<<a, b>>, c) = <<a, b, c>>
  <2> DEFINE u == <<a, b>>
             v == <<a, b, c>>
             S == {a, b, c}
  <2>1. /\ u \in Seq(S) /\ v \in Seq(S) /\ c \in S /\ Len(v) = Len(u) + 1
        /\ v[Len(u) + 1] = c /\ \A x \in 1 .. Len(u) : v[x] = u[x]
    OBVIOUS
  <2>2. Append(u, c) = v
    <3> HIDE DEF u, v, S
    <3> QED BY <2>1, Longer
  <2> QED BY <2>2
<1>4. ASSUME NEW a, NEW b, NEW c, NEW d
      PROVE  Append(<<a, b, c>>, d) = <<a, b, c, d>>
  <2> DEFINE u == <<a, b, c>>
             v == <<a, b, c, d>>
             S == {a, b, c, d}
  <2>1. /\ u \in Seq(S) /\ v \in Seq(S) /\ d \in S /\ Len(v) = Len(u) + 1
        /\ v[Len(u) + 1] = d /\ \A x \in 1 .. Len(u) : v[x] = u[x]
    OBVIOUS
  <2>2. Append(u, d) = v
    <3> HIDE DEF u, v, S
    <3> QED BY <2>1, Longer
  <2> QED BY <2>2
<1>5. ASSUME NEW a, NEW b, NEW c, NEW d, NEW e
      PROVE  Append(<<a, b, c, d>>, e) = <<a, b, c, d, e>>
  <2> DEFINE u == <<a, b, c, d>>
             v == <<a, b, c, d, e>>
             S == {a, b, c, d, e}
  <2>1. /\ u \in Seq(S) /\ v \in Seq(S) /\ e \in S /\ Len(v) = Len(u) + 1
        /\ v[Len(u) + 1] = e /\ \A x \in 1 .. Len(u) : v[x] = u[x]
    OBVIOUS
  <2>2. Append(u, e) = v
    <3> HIDE DEF u, v, S
    <3> QED BY <2>1, Longer
  <2> QED BY <2>2
<1>6. ASSUME NEW a, NEW b, NEW c, NEW d, NEW e, NEW f
      PROVE  Append(<<a, b, c, d, e>>, f) = <<a, b, c, d, e, f>>
  <2> DEFINE u == <<a, b, c, d, e>>
             v == <<a, b, c, d, e, f>>
             S == {a, b, c, d, e, f}
  <2>1. /\ u \in Seq(S) /\ v \in Seq(S) /\ f \in S /\ Len(v) = Len(u) + 1
        /\ v[Len(u) + 1] = f /\ \A x \in 1 .. Len(u) : v[x] = u[x]
    OBVIOUS
  <2>2. Append(u, f) = v
    <3> HIDE DEF u, v, S
    <3> QED BY <2>1, Longer
  <2> QED BY <2>2
<1>7. ASSUME NEW a, NEW b, NEW c, NEW d, NEW e, NEW f, NEW g
      PROVE  Append(<<a, b, c, d, e, f>>, g) = <<a, b, c, d, e, f, g>>
  <2> DEFINE u == <<a, b, c, d, e, f>>
             v == <<a, b, c, d, e, f, g>>
             S == {a, b, c, d, e, f, g}
  <2>1. /\ u \in Seq(S) /\ v \in Seq(S) /\ g \in S /\ Len(v) = Len(u) + 1
        /\ v[Len(u) + 1] = g /\ \A x \in 1 .. Len(u) : v[x] = u[x]
    OBVIOUS
  <2>2. Append(u, g) = v
    <3> HIDE DEF u, v, S
    <3> QED BY <2>1, Longer
  <2> QED BY <2>2
<1>8. ASSUME NEW a, NEW b, NEW c, NEW d, NEW e, NEW f, NEW g, NEW h
      PROVE  Append(<<a, b, c, d, e, f, g>>, h) = <<a, b, c, d, e, f, g, h>>
  <2> DEFINE u == <<a, b, c, d, e, f, g>>
             v == <<a, b, c, d, e, f, g, h>>
             S == {a, b, c, d, e, f, g, h}
  <2>1. /\ u \in Seq(S) /\ v \in Seq(S) /\ h \in S /\ Len(v) = Len(u) + 1
        /\ v[Len(u) + 1] = h /\ \A x \in 1 .. Len(u) : v[x] = u[x]
    OBVIOUS
  <2>2. Append(u, h) = v
    <3> HIDE DEF u, v, S
    <3> QED BY <2>1, Longer
  <2> QED BY <2>2
<1>9. ASSUME NEW a, NEW b, NEW c, NEW d, NEW e, NEW f, NEW g, NEW h, NEW i
      PROVE  Append(<<a, b, c, d, e, f, g, h>>, i) = <<a, b, c, d, e, f, g, h, i>>
  <2> DEFINE u == <<a, b, c, d, e, f, g, h>>
             v == <<a, b, c, d, e, f, g, h, i>>
             S == {a, b, c, d, e, f, g, h, i}
  <2>1. /\ u \in Seq(S) /\ v \in Seq(S) /\ i \in S /\ Len(v) = Len(u) + 1
        /\ v[Len(u) + 1] = i /\ \A x \in 1 .. Len(u) : v[x] = u[x]
    OBVIOUS
  <2>2. Append(u, i) = v
    <3> HIDE DEF u, v, S
    <3> QED BY <2>1, Longer
  <2> QED BY <2>2
<1> QED BY <1>1, <1>2, <1>3, <1>4, <1>5, <1>6, <1>7, <1>8, <1>9

-----------------------------------------------------------------------------
(* What the words write *)

Names(code) == [k \in DOMAIN code |-> code[k].op]

(* r is a compilation state, and its code is that of s with the opcodes of *)
(* list behind it.                                                         *)
Adds(s, r, list) ==
  /\ r \in CState /\ list \in Seq(Opcodes)
  /\ Names(r.code) = Names(s.code) \o list

LEMMA NamesTyped ==
  ASSUME NEW code \in Seq(Instructions)
  PROVE  /\ Names(code) \in Seq(Opcodes) /\ Len(Names(code)) = Len(code)
         /\ \A k \in 1 .. Len(code) : Names(code)[k] = code[k].op
<1>1. DOMAIN code = 1 .. Len(code) /\ Len(code) \in Nat
  BY LenProperties
<1>2. \A k \in 1 .. Len(code) : code[k].op \in Opcodes
  <2> TAKE k \in 1 .. Len(code)
  <2>1. code[k] \in Instructions
    BY ElementOfSeq
  <2> QED BY <2>1 DEF Instructions
<1>3. Names(code) \in [1 .. Len(code) -> Opcodes]
  BY <1>1, <1>2 DEF Names
<1>4. Names(code) \in Seq(Opcodes)
  BY <1>1, <1>3, SeqDef
<1>5. Len(Names(code)) = Len(code)
  BY <1>1, <1>3, <1>4, LenProperties
<1>6. \A k \in 1 .. Len(code) : Names(code)[k] = code[k].op
  BY <1>1 DEF Names
<1> QED BY <1>4, <1>5, <1>6

LEMMA AddsNothing ==
  ASSUME NEW s \in CState PROVE Adds(s, s, <<>>)
<1>1. Names(s.code) \in Seq(Opcodes)
  BY NamesTyped, StateFields
<1> QED BY <1>1, ConcatEmptySeq, EmptySeq DEF Adds

LEMMA NamesEmit ==
  ASSUME NEW code \in Seq(Instructions), NEW op \in Opcodes, NEW arg \in Args
  PROVE  Names(Emit(code, op, arg)) = Append(Names(code), op)
<1> DEFINE c == Emit(code, op, arg)
<1>1. /\ c \in Seq(Instructions) /\ Len(c) = Len(code) + 1 /\ c[Len(code) + 1].op = op
      /\ \A k \in 1 .. Len(code) : c[k] = code[k]
  <2>1. c[Len(code) + 1] = [op |-> op, at |-> Size(code), arg |-> arg]
    BY EmitTyped
  <2>2. c[Len(code) + 1].op = op
    BY <2>1
  <2> QED BY <2>2, EmitTyped, ZenonT(30)
<1> HIDE DEF c
<1>2. Len(code) \in Nat
  BY LenProperties
<1>3. /\ Names(c) \in Seq(Opcodes) /\ Len(Names(c)) = Len(code) + 1
      /\ \A k \in 1 .. Len(code) + 1 : Names(c)[k] = c[k].op
  BY <1>1, NamesTyped
<1>4. /\ Names(code) \in Seq(Opcodes) /\ Len(Names(code)) = Len(code)
      /\ \A k \in 1 .. Len(code) : Names(code)[k] = code[k].op
  BY NamesTyped
<1>5. /\ Append(Names(code), op) \in Seq(Opcodes)
      /\ Len(Append(Names(code), op)) = Len(code) + 1
      /\ \A k \in 1 .. Len(code) : Append(Names(code), op)[k] = code[k].op
      /\ Append(Names(code), op)[Len(code) + 1] = op
  BY <1>4, AppendProperties
<1>6. \A k \in 1 .. Len(code) + 1 : Names(c)[k] = Append(Names(code), op)[k]
  BY <1>1, <1>2, <1>3, <1>5
<1> QED BY <1>3, <1>5, <1>6, SeqEqual DEF c

LEMMA AddsJump ==
  ASSUME NEW s \in CState, NEW r, NEW list, Adds(s, r, list),
         NEW op \in Opcodes, NEW n \in Args
  PROVE  Adds(s, Jump(r, op, n), Append(list, op)) /\ Jump(r, op, n).e = r.e
         /\ Jump(r, op, n).ctl = r.ctl
<1>1. r \in CState /\ r.code \in Seq(Instructions) /\ Names(s.code) \in Seq(Opcodes) /\ list \in Seq(Opcodes)
  BY StateFields, NamesTyped DEF Adds
<1>2. /\ Jump(r, op, n) \in CState /\ Jump(r, op, n).code = Emit(r.code, op, n)
      /\ Jump(r, op, n).e = r.e /\ Jump(r, op, n).ctl = r.ctl
  BY <1>1, JumpTyped
<1>3. Names(Emit(r.code, op, n)) = Append(Names(s.code) \o list, op)
  BY <1>1, NamesEmit DEF Adds
<1>4. Append(Names(s.code) \o list, op) = Names(s.code) \o Append(list, op)
  <2>1. /\ Append(Names(s.code) \o list, op) = (Names(s.code) \o list) \o <<op>>
        /\ Append(list, op) = list \o <<op>> /\ <<op>> \in Seq(Opcodes)
    BY <1>1, AppendIsConcat, ConcatProperties
  <2> QED BY <1>1, <2>1, ConcatAssociative
<1>5. Append(list, op) \in Seq(Opcodes)
  BY <1>1, AppendProperties
<1> QED BY <1>2, <1>3, <1>4, <1>5 DEF Adds

LEMMA AddsOp ==
  ASSUME NEW s \in CState, NEW r, NEW list, Adds(s, r, list), NEW op \in Opcodes
  PROVE  Adds(s, Op(r, op), Append(list, op)) /\ Op(r, op).e = r.e /\ Op(r, op).ctl = r.ctl
<1>1. 0 \in Args
  BY DEF Args
<1> QED BY <1>1, AddsJump DEF Op

LEMMA AddsPushed ==
  ASSUME NEW s \in CState, NEW r, NEW list, Adds(s, r, list), NEW st \in Stacks, NEW i \in Int
  PROVE  Adds(s, Pushed(r, st, i), list) /\ Pushed(r, st, i).e = r.e
         /\ ~IsEmpty(Pushed(r, st, i), st)
<1>1. /\ Pushed(r, st, i) \in CState /\ Pushed(r, st, i).code = r.code
      /\ Pushed(r, st, i).e = r.e
      /\ Pushed(r, st, i).ctl = [r.ctl EXCEPT ![st] = Append(@, i)]
  BY PushedTyped, ZenonT(30) DEF Adds
<1>2. r.ctl \in [Stacks -> Seq(Int)]
  BY StateFields DEF Adds
<1>3. Pushed(r, st, i).ctl[st] = Append(r.ctl[st], i)
  BY <1>1, <1>2
<1>4. ~IsEmpty(Pushed(r, st, i), st)
  <2>1. r.ctl[st] \in Seq(Int)
    BY <1>2
  <2>2. Append(r.ctl[st], i) # <<>>
    BY <2>1, AppendProperties
  <2> QED BY <1>3, <2>2 DEF IsEmpty
<1> QED BY <1>1, <1>4 DEF Adds

LEMMA AddsPopped ==
  ASSUME NEW s \in CState, NEW r, NEW list, Adds(s, r, list), NEW st \in Stacks, ~IsEmpty(r, st)
  PROVE  Adds(s, Popped(r, st), list) /\ Popped(r, st).e = r.e /\ TopOf(r, st) \in Int
  BY PoppedTyped DEF Adds

LEMMA AddsFails ==
  ASSUME NEW s \in CState, NEW r, NEW list, Adds(s, r, list), NEW e \in Codes
  PROVE  Adds(s, Fails(r, e), list) /\ Fails(r, e).e = e
  BY FailsTyped DEF Adds

LEMMA AddsCopy ==
  ASSUME NEW s \in CState, NEW r, NEW list, Adds(s, r, list), NEW offsets, NEW n \in Int
  PROVE  Adds(s, OpsCopyInt(r, offsets, n), list) /\ OpsCopyInt(r, offsets, n).e = r.e
         /\ OpsCopyInt(r, offsets, n).ctl = r.ctl
<1> DEFINE t == OpsCopyInt(r, offsets, n)
<1>1. /\ t \in CState /\ t.e = r.e /\ DOMAIN t.code = DOMAIN r.code /\ t.ctl = r.ctl
      /\ \A k \in 1 .. Len(r.code) : t.code[k].op = r.code[k].op
  BY CopyTyped DEF Adds
<1>2. DOMAIN r.code = 1 .. Len(r.code)
  BY StateFields, LenProperties DEF Adds
<1> HIDE DEF t
<1>3. Names(t.code) = Names(r.code)
  BY <1>1, <1>2 DEF Names
<1> QED BY <1>1, <1>3 DEF Adds, t

LEMMA AddsLand ==
  ASSUME NEW s \in CState, NEW r, NEW list, Adds(s, r, list), NEW st \in Stacks, ~IsEmpty(r, st),
         NEW n \in Int
  PROVE  Adds(s, Land(r, st, n), list) /\ Land(r, st, n).e = r.e
  BY AddsPopped, AddsCopy DEF Land

LEMMA AddsJumpAhead ==
  ASSUME NEW s \in CState, NEW r, NEW list, Adds(s, r, list), NEW op \in Opcodes, NEW st \in Stacks
  PROVE  Adds(s, JumpAhead(r, op, st), Append(list, op)) /\ JumpAhead(r, op, st).e = r.e
         /\ ~IsEmpty(JumpAhead(r, op, st), st)
<1>1. Hole \in Args /\ Size(r.code) + 1 \in Int
  BY SizeNat, StateFields DEF Args, Adds
<1> QED BY <1>1, AddsJump, AddsPushed DEF JumpAhead
-----------------------------------------------------------------------------
(* The last element of a sequence that passes a test *)

LEMMA MinExists ==
  ASSUME NEW T, T \subseteq Nat, T # {}
  PROVE  \E x \in T : \A y \in T : x <= y
<1> DEFINE R == {ss \in Nat \X Nat : ss[1] < ss[2]}
<1>1. IsWellFoundedOn(R, Nat)
  BY NatLessThanWellFounded DEF OpToRel
<1>2. PICK x \in T : \A y \in T : ~ (<<y, x>> \in R)
  <2> HIDE DEF R
  <2> QED BY <1>1, WFMin
<1>3. ASSUME NEW y \in T PROVE x <= y
  <2>1. x \in Nat /\ y \in Nat
    OBVIOUS
  <2>2. <<y, x>> \in Nat \X Nat
    BY <2>1
  <2>3. ~ (y < x)
    BY <1>2, <2>2, Z3
  <2> QED BY <2>1, <2>3
<1> QED BY <1>3

LEMMA MaxExists ==
  ASSUME NEW n \in Nat, NEW T, T \subseteq 1 .. n, T # {}
  PROVE  Max(T) \in T /\ \A y \in T : Max(T) >= y
<1> DEFINE U == {n - y : y \in T}
<1>1. \A y \in T : y \in 1 .. n /\ n - y \in Nat
  OBVIOUS
<1>2. U \subseteq Nat /\ U # {}
  BY <1>1
<1>3. PICK u \in U : \A v \in U : u <= v
  <2> HIDE DEF U
  <2> QED BY <1>2, MinExists
<1>4. PICK x \in T : u = n - x
  OBVIOUS
<1>5. ASSUME NEW y \in T PROVE x >= y
  <2>1. n - y \in U /\ x \in 1 .. n /\ y \in 1 .. n
    OBVIOUS
  <2>2. n - x <= n - y
    BY <1>3, <1>4, <2>1
  <2> QED BY <2>1, <2>2
<1>6. \E z \in T : \A y \in T : z >= y
  BY <1>5
<1> QED BY <1>6 DEF Max

LEMMA OuterLeavesAt ==
  ASSUME NEW s \in CState, NEW start \in Int
  PROVE  LET leave == s.ctl["leave"] IN
         /\ OuterLeaves(s, start) \in 0 .. Len(leave)
         /\ OuterLeaves(s, start) # 0 => leave[OuterLeaves(s, start)] <= start
         /\ \A i \in 1 .. Len(leave) : i > OuterLeaves(s, start) => leave[i] > start
<1> DEFINE leave == s.ctl["leave"]
           I == {i \in 1 .. Len(leave) : leave[i] <= start}
<1>1. leave \in Seq(Int) /\ Len(leave) \in Nat /\ \A i \in 1 .. Len(leave) : leave[i] \in Int
  <2>1. "leave" \in Stacks
    BY DEF Stacks
  <2>2. leave \in Seq(Int)
    BY <2>1, StateFields
  <2> HIDE DEF leave
  <2> QED BY <2>2, LenProperties, ElementOfSeq
<1>2. OuterLeaves(s, start) = IF I # {} THEN Max(I) ELSE 0
  BY DEF OuterLeaves, SelectLastInSeq
<1> HIDE DEF leave
<1>3. I # {} => Max(I) \in I /\ \A y \in I : Max(I) >= y
  <2>1. I \subseteq 1 .. Len(leave)
    OBVIOUS
  <2> HIDE DEF I
  <2> QED BY <1>1, <2>1, MaxExists
<1>4. CASE I = {}
  <2>1. OuterLeaves(s, start) = 0
    BY <1>2, <1>4
  <2>2. ASSUME NEW i \in 1 .. Len(leave) PROVE leave[i] > start
    <3>1. i \notin I
      BY <1>4
    <3> QED BY <1>1, <3>1
  <2> QED BY <1>1, <2>1, <2>2 DEF leave
<1>5. CASE I # {}
  <2> DEFINE m == Max(I)
  <2>1. m \in 1 .. Len(leave) /\ leave[m] <= start /\ \A y \in I : m >= y
    BY <1>3, <1>5
  <2> HIDE DEF m
  <2>2. ASSUME NEW i \in 1 .. Len(leave), i > m PROVE leave[i] > start
    <3>1. i \notin I
      BY <2>1, <2>2, <1>1
    <3> QED BY <1>1, <3>1
  <2>3. OuterLeaves(s, start) = m
    BY <1>2, <1>5 DEF m
  <2> QED BY <2>1, <2>2, <2>3, <1>1 DEF leave
<1> QED BY <1>4, <1>5

(* The mark of the last CASE, or the bottom. *)
CaseMark(stack) == SelectLastInSeq(stack, LAMBDA j : j = -1)

LEMMA CaseMarkAt ==
  ASSUME NEW stack \in Seq(Int)
  PROVE  /\ CaseMark(stack) \in 0 .. Len(stack)
         /\ CaseMark(stack) # 0 => stack[CaseMark(stack)] = -1
         /\ \A i \in 1 .. Len(stack) : i > CaseMark(stack) => stack[i] # -1
<1> DEFINE I == {i \in 1 .. Len(stack) : stack[i] = -1}
<1>1. Len(stack) \in Nat
  BY LenProperties
<1>2. CaseMark(stack) = IF I # {} THEN Max(I) ELSE 0
  BY DEF CaseMark, SelectLastInSeq
<1>3. I # {} => Max(I) \in I /\ \A y \in I : Max(I) >= y
  <2>1. I \subseteq 1 .. Len(stack)
    OBVIOUS
  <2> HIDE DEF I
  <2> QED BY <1>1, <2>1, MaxExists
<1>4. CASE I = {}
  BY <1>1, <1>2, <1>4
<1>5. CASE I # {}
  <2> DEFINE m == Max(I)
  <2>1. m \in 1 .. Len(stack) /\ stack[m] = -1 /\ \A y \in I : m >= y
    BY <1>3, <1>5
  <2> HIDE DEF m
  <2>2. ASSUME NEW i \in 1 .. Len(stack), i > m PROVE stack[i] # -1
    <3>1. i \notin I
      BY <2>1, <2>2, <1>1
    <3> QED BY <1>1, <3>1
  <2>3. CaseMark(stack) = m
    BY <1>2, <1>5 DEF m
  <2> QED BY <2>1, <2>2, <2>3, <1>1
<1> QED BY <1>4, <1>5
-----------------------------------------------------------------------------
(* The control structure words *)

(* A word's errors are about structures, and without one it writes what it *)
(* means.                                                                  *)
Writes(s, r, list) ==
  /\ r \in CState /\ r.e \in StructureErrors \cup {"none"}
  /\ r.e = "none" => Adds(s, r, list)

LEMMA AddsState ==
  ASSUME NEW s \in CState, NEW r, NEW list, Adds(s, r, list)
  PROVE  /\ r \in CState /\ r.code \in Seq(Instructions) /\ list \in Seq(Opcodes)
         /\ Size(r.code) \in Nat
  BY StateFields, SizeNat DEF Adds

(* One stack replaced by another. *)
SetStack(r, st, q) == [r EXCEPT !.ctl[st] = q]

LEMMA SetStackTyped ==
  ASSUME NEW r \in CState, NEW st \in Stacks, NEW q \in Seq(Int)
  PROVE  /\ SetStack(r, st, q) \in CState
         /\ SetStack(r, st, q).e = r.e /\ SetStack(r, st, q).code = r.code
         /\ SetStack(r, st, q).wild = r.wild
         /\ SetStack(r, st, q).ctl = [r.ctl EXCEPT ![st] = q]
<1>1. r.ctl \in [Stacks -> Seq(Int)]
  BY StateFields
<1>2. [r.ctl EXCEPT ![st] = q] \in [Stacks -> Seq(Int)]
  BY <1>1
<1>3. SetStack(r, st, q) = [r EXCEPT !.ctl = [r.ctl EXCEPT ![st] = q]]
  BY <1>1 DEF CState, SetStack
<1> QED BY <1>1, <1>2, <1>3 DEF CState

LEMMA AddsCtl ==
  ASSUME NEW s \in CState, NEW r, NEW list, Adds(s, r, list), NEW st \in Stacks, NEW q \in Seq(Int)
  PROVE  Adds(s, SetStack(r, st, q), list) /\ SetStack(r, st, q).e = r.e
  BY SetStackTyped, ZenonT(30) DEF Adds

LEMMA StructureCodes == StructureErrors \subseteq Codes /\ "none" \in Codes
  BY DEF StructureErrors, Codes

LEMMA FailsWrites ==
  ASSUME NEW s \in CState, NEW r \in CState, NEW e \in StructureErrors, NEW list
  PROVE  Writes(s, Fails(r, e), list)
<1>1. e # "none" /\ e \in Codes
  BY DEF StructureErrors, Codes
<1> QED BY <1>1, FailsTyped DEF Writes

LEMMA WritesAdded ==
  ASSUME NEW s \in CState, NEW r, NEW list, Adds(s, r, list), r.e = "none"
  PROVE  Writes(s, r, list)
  BY DEF Writes, Adds

LEMMA IfWrites ==
  ASSUME NEW s \in CState, s.e = "none"
  PROVE  Writes(s, CPP_if(s), <<"JZ">>) /\ CPP_if(s).e = "none"
         /\ ~IsEmpty(CPP_if(s), "if")
<1>1. "JZ" \in Opcodes /\ "if" \in Stacks
  BY DEF Opcodes, Stacks
<1>2. Adds(s, CPP_if(s), <<"JZ">>) /\ CPP_if(s).e = "none" /\ ~IsEmpty(CPP_if(s), "if")
  <2>1. Append(<<>>, "JZ") = <<"JZ">>
    BY Tuples
  <2>2. Adds(s, s, <<>>)
    BY AddsNothing
  <2>3. Adds(s, CPP_if(s), Append(<<>>, "JZ")) /\ CPP_if(s).e = "none" /\ ~IsEmpty(CPP_if(s), "if")
    BY <1>1, <2>2, AddsJumpAhead DEF CPP_if
  <2> QED BY <2>1, <2>3
<1> QED BY <1>2, WritesAdded

(* ELSE behind code that is already written, as ?DO uses it. *)
LEMMA ElseAdds ==
  ASSUME NEW s \in CState, NEW r, NEW list, Adds(s, r, list), r.e = "none"
  PROVE  LET t == CPP_else(r) IN
         /\ ~IsEmpty(r, "if") => Adds(s, t, Append(list, "JMP")) /\ t.e = "none"
         /\ IsEmpty(r, "if") => t \in CState /\ t.e = "else without if"
<1> DEFINE t == Jump(r, "JMP", Hole)
<1>1. "JMP" \in Opcodes /\ "if" \in Stacks /\ Hole \in Args /\ "else without if" \in Codes
      /\ 0 \in Int
  BY DEF Opcodes, Stacks, Args, Codes, StructureErrors
<1>2. Adds(s, t, Append(list, "JMP")) /\ t.e = "none" /\ t.ctl = r.ctl
  BY <1>1, AddsJump
<1>3. Size(t.code) - WSIZE \in Int /\ t \in CState
  <2>1. Size(t.code) \in Nat /\ t \in CState
    <3> HIDE DEF t
    <3> QED BY <1>2, AddsState
  <2> QED BY <2>1, CompilerAssumption
<1>4. IsEmpty(t, "if") <=> IsEmpty(r, "if")
  BY <1>2 DEF IsEmpty
<1> HIDE DEF t
<1>5. CPP_else(r) = IF IsEmpty(t, "if") THEN Fails(t, "else without if")
                    ELSE Pushed(Land(t, "if", 0), "if", Size(t.code) - WSIZE)
  BY DEF CPP_else, t
<1>6. CASE IsEmpty(r, "if")
  <2>1. CPP_else(r) = Fails(t, "else without if")
    BY <1>4, <1>5, <1>6
  <2>2. Fails(t, "else without if") \in CState /\ Fails(t, "else without if").e = "else without if"
    BY <1>1, <1>3, FailsTyped
  <2> QED BY <1>6, <2>1, <2>2
<1>7. CASE ~IsEmpty(r, "if")
  <2>1. Adds(s, Land(t, "if", 0), Append(list, "JMP")) /\ Land(t, "if", 0).e = "none"
    BY <1>1, <1>2, <1>4, <1>7, AddsLand, ZenonT(30)
  <2> DEFINE u == Land(t, "if", 0)
             n == Size(t.code) - WSIZE
  <2>2. n \in Int
    BY <1>3
  <2> HIDE DEF u, n
  <2>3. Adds(s, u, Append(list, "JMP")) /\ u.e = "none"
    BY <2>1 DEF u
  <2>4. Adds(s, Pushed(u, "if", n), Append(list, "JMP")) /\ Pushed(u, "if", n).e = "none"
    BY <1>1, <2>2, <2>3, AddsPushed, ZenonT(30)
  <2> QED BY <1>4, <1>5, <1>7, <2>4 DEF u, n
<1> QED BY <1>6, <1>7

LEMMA ThenAdds ==
  ASSUME NEW s \in CState, NEW r, NEW list, Adds(s, r, list), r.e = "none"
  PROVE  LET t == CPP_then(r) IN
         /\ Adds(s, t, list)
         /\ t.e = IF IsEmpty(r, "if") THEN "then without if" ELSE "none"
<1>1. "if" \in Stacks /\ 0 \in Int /\ "then without if" \in Codes
  BY DEF Stacks, Codes, StructureErrors
<1>2. CASE IsEmpty(r, "if")
  <2>1. CPP_then(r) = Fails(r, "then without if")
    BY <1>2 DEF CPP_then
  <2> QED BY <1>1, <1>2, <2>1, AddsFails
<1>3. CASE ~IsEmpty(r, "if")
  <2>1. CPP_then(r) = Land(r, "if", 0)
    BY <1>3 DEF CPP_then
  <2> QED BY <1>1, <1>3, <2>1, AddsLand, ZenonT(30)
<1> QED BY <1>2, <1>3

LEMMA BackToBeginAdds ==
  ASSUME NEW s \in CState, NEW r, NEW list, Adds(s, r, list), r.e = "none", NEW op \in Opcodes
  PROVE  LET t == BackToBegin(r, op) IN
         /\ ~IsEmpty(r, "begin") => Adds(s, t, Append(list, op)) /\ t.e = "none"
         /\ IsEmpty(r, "begin") => t \in CState /\ t.e = "no begin"
<1>1. "begin" \in Stacks /\ "no begin" \in Codes /\ r \in CState /\ Size(r.code) \in Nat
  BY AddsState DEF Stacks, Codes, StructureErrors
<1>2. CASE IsEmpty(r, "begin")
  BY <1>1, <1>2, FailsTyped DEF BackToBegin
<1>3. CASE ~IsEmpty(r, "begin")
  <2>1. /\ Adds(s, Popped(r, "begin"), list) /\ Popped(r, "begin").e = "none"
        /\ TopOf(r, "begin") \in Int
    BY <1>1, <1>3, AddsPopped
  <2>2. TopOf(r, "begin") - Size(r.code) \in Args
    <3> DEFINE x == TopOf(r, "begin")
               y == Size(r.code)
    <3>0. x \in Int /\ y \in Nat
      BY <1>1, <2>1
    <3>1. x - y \in Int
      <4> HIDE DEF x, y
      <4> QED BY <3>0
    <3> QED BY <3>1 DEF Args
  <2> QED BY <1>3, <2>1, <2>2, AddsJump, ZenonT(30) DEF BackToBegin
<1> QED BY <1>2, <1>3

LEMMA DoAdds ==
  ASSUME NEW s \in CState, NEW r, NEW list, Adds(s, r, list), r.e = "none"
  PROVE  LET t == CPP_do(r) IN
         /\ Adds(s, t, Append(Append(Append(list, "PUSH"), "PUSH"), "PUSHIP"))
         /\ t.e = "none"
<1>1. "PUSH" \in Opcodes /\ "PUSHIP" \in Opcodes /\ "do" \in Stacks
  BY DEF Opcodes, Stacks
<1> DEFINE u == Op(Op(Op(r, "PUSH"), "PUSH"), "PUSHIP")
<1>2. Adds(s, u, Append(Append(Append(list, "PUSH"), "PUSH"), "PUSHIP")) /\ u.e = "none"
  BY <1>1, AddsOp
<1>3. Size(u.code) \in Int
  BY <1>2, AddsState
<1> HIDE DEF u
<1>4. CPP_do(r) = Pushed(u, "do", Size(u.code))
  BY DEF CPP_do, u
<1> QED BY <1>1, <1>2, <1>3, <1>4, AddsPushed

(* The whole of ?DO: a test that skips the loop, and the loop.             *)
LEMMA QueryDoWrites ==
  ASSUME NEW s \in CState, s.e = "none"
  PROVE  /\ CPP_querydo(s).e = "none"
         /\ Writes(s, CPP_querydo(s),
              <<"2DUP", "EQ", "JZ", "2DROP", "JMP", "PUSH", "PUSH", "PUSHIP">>)
<1> DEFINE a == Op(Op(s, "2DUP"), "EQ")
           list == <<"2DUP", "EQ", "JZ", "2DROP", "JMP", "PUSH", "PUSH", "PUSHIP">>
           b == CPP_if(a)
           c == Op(b, "2DROP")
           d == CPP_else(c)
           t == CPP_do(d)
<1>1. /\ "2DUP" \in Opcodes /\ "EQ" \in Opcodes /\ "2DROP" \in Opcodes /\ "JZ" \in Opcodes
      /\ "if" \in Stacks /\ "querydo" \in Stacks
  BY DEF Opcodes, Stacks
<1>2. Adds(s, a, <<"2DUP", "EQ">>) /\ a.e = "none"
  <2>1. Append(Append(<<>>, "2DUP"), "EQ") = <<"2DUP", "EQ">>
    BY Tuples
  <2>2. Adds(s, s, <<>>)
    BY AddsNothing
  <2>3. Adds(s, Op(s, "2DUP"), Append(<<>>, "2DUP")) /\ Op(s, "2DUP").e = "none"
    BY <1>1, <2>2, AddsOp
  <2> DEFINE u == Op(s, "2DUP")
             l == Append(<<>>, "2DUP")
  <2>4. Adds(s, a, Append(l, "EQ")) /\ a.e = "none"
    <3>1. Adds(s, u, l) /\ u.e = "none"
      BY <2>3
    <3>2. Adds(s, Op(u, "EQ"), Append(l, "EQ")) /\ Op(u, "EQ").e = "none"
      <4> HIDE DEF u, l
      <4> QED BY <1>1, <3>1, AddsOp
    <3> QED BY <3>2
  <2> QED BY <2>1, <2>4
<1> HIDE DEF a
<1>3. Adds(s, b, <<"2DUP", "EQ", "JZ">>) /\ b.e = "none" /\ ~IsEmpty(b, "if")
  <2>1. Append(<<"2DUP", "EQ">>, "JZ") = <<"2DUP", "EQ", "JZ">>
    BY Tuples
  <2>2. Adds(s, b, Append(<<"2DUP", "EQ">>, "JZ")) /\ b.e = "none" /\ ~IsEmpty(b, "if")
    BY <1>1, <1>2, AddsJumpAhead DEF CPP_if
  <2> QED BY <2>1, <2>2
<1> HIDE DEF b
<1>4. Adds(s, c, <<"2DUP", "EQ", "JZ", "2DROP">>) /\ c.e = "none" /\ ~IsEmpty(c, "if")
  <2>1. Append(<<"2DUP", "EQ", "JZ">>, "2DROP") = <<"2DUP", "EQ", "JZ", "2DROP">>
    BY Tuples
  <2> QED BY <1>1, <1>3, <2>1, AddsOp, ZenonT(30) DEF IsEmpty
<1> HIDE DEF c
<1>5. Adds(s, d, <<"2DUP", "EQ", "JZ", "2DROP", "JMP">>) /\ d.e = "none"
  <2>1. Append(<<"2DUP", "EQ", "JZ", "2DROP">>, "JMP") = <<"2DUP", "EQ", "JZ", "2DROP", "JMP">>
    BY Tuples
  <2> QED BY <1>4, <2>1, ElseAdds
<1> HIDE DEF d
<1>6. Adds(s, t, <<"2DUP", "EQ", "JZ", "2DROP", "JMP", "PUSH", "PUSH", "PUSHIP">>) /\ t.e = "none"
  <2>1. Append(Append(Append(<<"2DUP", "EQ", "JZ", "2DROP", "JMP">>, "PUSH"), "PUSH"), "PUSHIP")
          = <<"2DUP", "EQ", "JZ", "2DROP", "JMP", "PUSH", "PUSH", "PUSHIP">>
    <3>1. /\ Append(<<"2DUP", "EQ", "JZ", "2DROP", "JMP">>, "PUSH")
               = <<"2DUP", "EQ", "JZ", "2DROP", "JMP", "PUSH">>
          /\ Append(<<"2DUP", "EQ", "JZ", "2DROP", "JMP", "PUSH">>, "PUSH")
               = <<"2DUP", "EQ", "JZ", "2DROP", "JMP", "PUSH", "PUSH">>
          /\ Append(<<"2DUP", "EQ", "JZ", "2DROP", "JMP", "PUSH", "PUSH">>, "PUSHIP")
               = <<"2DUP", "EQ", "JZ", "2DROP", "JMP", "PUSH", "PUSH", "PUSHIP">>
      BY Tuples
    <3> QED BY <3>1
  <2> QED BY <1>5, <2>1, DoAdds
<1> HIDE DEF t, list
<1>7. Size(t.code) \in Int /\ Adds(s, t, list) /\ t.e = "none"
  BY <1>6, AddsState DEF list
<1>8. CPP_querydo(s) = Pushed(t, "querydo", Size(t.code))
  BY DEF CPP_querydo, t, d, c, b, a
<1>9. Adds(s, CPP_querydo(s), list) /\ CPP_querydo(s).e = "none"
  <2> DEFINE n == Size(t.code)
  <2>1. n \in Int
    BY <1>7
  <2> HIDE DEF n
  <2>2. Adds(s, Pushed(t, "querydo", n), list) /\ Pushed(t, "querydo", n).e = "none"
    BY <1>1, <1>7, <2>1, AddsPushed
  <2> QED BY <1>8, <2>2 DEF n
<1> QED BY <1>9, WritesAdded DEF list
LEMMA JumpAheadWrites ==
  ASSUME NEW s \in CState, s.e = "none", NEW op \in Opcodes, NEW st \in Stacks
  PROVE  Writes(s, JumpAhead(s, op, st), <<op>>)
<1>1. Adds(s, s, <<>>)
  BY AddsNothing
<1>2. Adds(s, JumpAhead(s, op, st), Append(<<>>, op)) /\ JumpAhead(s, op, st).e = "none"
  BY <1>1, AddsJumpAhead
<1>3. Append(<<>>, op) = <<op>>
  BY Tuples
<1> QED BY <1>2, <1>3, WritesAdded

LEMMA ElseWrites ==
  ASSUME NEW s \in CState, s.e = "none" PROVE Writes(s, CPP_else(s), <<"JMP">>)
<1>1. Adds(s, s, <<>>) /\ Append(<<>>, "JMP") = <<"JMP">>
  BY AddsNothing, Tuples
<1>2. "else without if" \in StructureErrors /\ "else without if" # "none"
  BY DEF StructureErrors
<1>3. /\ ~IsEmpty(s, "if") => Adds(s, CPP_else(s), <<"JMP">>) /\ CPP_else(s).e = "none"
      /\ IsEmpty(s, "if") => CPP_else(s) \in CState /\ CPP_else(s).e = "else without if"
  BY <1>1, ElseAdds
<1> QED BY <1>2, <1>3, AddsState DEF Writes

LEMMA ThenWrites ==
  ASSUME NEW s \in CState, s.e = "none" PROVE Writes(s, CPP_then(s), <<>>)
<1>1. Adds(s, s, <<>>)
  BY AddsNothing
<1>2. "then without if" \in StructureErrors
  BY DEF StructureErrors
<1>3. Adds(s, CPP_then(s), <<>>) /\ CPP_then(s).e \in {"then without if", "none"}
  BY <1>1, ThenAdds
<1> QED BY <1>2, <1>3, AddsState DEF Writes

LEMMA BeginWrites ==
  ASSUME NEW s \in CState, s.e = "none" PROVE Writes(s, CPP_begin(s), <<>>)
<1>1. Adds(s, s, <<>>) /\ "begin" \in Stacks /\ Size(s.code) \in Int
  BY AddsNothing, StateFields, SizeNat DEF Stacks
<1>2. Adds(s, CPP_begin(s), <<>>) /\ CPP_begin(s).e = "none"
  BY <1>1, AddsPushed DEF CPP_begin
<1> QED BY <1>2, WritesAdded

LEMMA WhileWrites ==
  ASSUME NEW s \in CState, s.e = "none" PROVE Writes(s, CPP_while(s), <<"JZ">>)
<1>1. "JZ" \in Opcodes /\ "while" \in Stacks /\ "no begin" \in StructureErrors
  BY DEF Opcodes, Stacks, StructureErrors
<1> QED BY <1>1, FailsWrites, JumpAheadWrites DEF CPP_while

LEMMA BackToBeginWrites ==
  ASSUME NEW s \in CState, NEW r, Adds(s, r, <<>>), r.e = "none", NEW op \in Opcodes
  PROVE  Writes(s, BackToBegin(r, op), <<op>>)
<1>1. "no begin" \in StructureErrors /\ "no begin" # "none" /\ Append(<<>>, op) = <<op>>
  BY Tuples DEF StructureErrors
<1>2. /\ ~IsEmpty(r, "begin") => Adds(s, BackToBegin(r, op), <<op>>) /\ BackToBegin(r, op).e = "none"
      /\ IsEmpty(r, "begin") => BackToBegin(r, op) \in CState /\ BackToBegin(r, op).e = "no begin"
  BY <1>1, BackToBeginAdds
<1> QED BY <1>1, <1>2, AddsState DEF Writes

LEMMA RepeatWrites ==
  ASSUME NEW s \in CState, s.e = "none" PROVE Writes(s, CPP_repeat(s), <<"JMP">>)
<1>1. Adds(s, s, <<>>) /\ "JMP" \in Opcodes /\ "while" \in Stacks /\ WSIZE + 1 \in Int
  BY AddsNothing, CompilerAssumption DEF Opcodes, Stacks
<1>2. Writes(s, BackToBegin(s, "JMP"), <<"JMP">>)
  BY <1>1, BackToBeginWrites
<1>3. CASE ~IsEmpty(s, "while")
  <2> DEFINE u == Land(s, "while", WSIZE + 1)
  <2>1. Adds(s, u, <<>>) /\ u.e = "none"
    BY <1>1, <1>3, AddsLand
  <2>2. Writes(s, BackToBegin(u, "JMP"), <<"JMP">>)
    <3> HIDE DEF u
    <3> QED BY <1>1, <2>1, BackToBeginWrites
  <2> QED BY <1>2, <2>2 DEF CPP_repeat
<1> QED BY <1>2, <1>3 DEF CPP_repeat

LEMMA DoWrites ==
  ASSUME NEW s \in CState, s.e = "none"
  PROVE  Writes(s, CPP_do(s), <<"PUSH", "PUSH", "PUSHIP">>)
<1>1. Adds(s, s, <<>>)
  BY AddsNothing
<1>2. Append(Append(Append(<<>>, "PUSH"), "PUSH"), "PUSHIP") = <<"PUSH", "PUSH", "PUSHIP">>
  <2>1. /\ Append(<<>>, "PUSH") = <<"PUSH">> /\ Append(<<"PUSH">>, "PUSH") = <<"PUSH", "PUSH">>
        /\ Append(<<"PUSH", "PUSH">>, "PUSHIP") = <<"PUSH", "PUSH", "PUSHIP">>
    BY Tuples
  <2> QED BY <2>1
<1>3. Adds(s, CPP_do(s), <<"PUSH", "PUSH", "PUSHIP">>) /\ CPP_do(s).e = "none"
  BY <1>1, <1>2, DoAdds
<1> QED BY <1>3, WritesAdded

LEMMA LeaveWrites ==
  ASSUME NEW s \in CState, s.e = "none" PROVE Writes(s, CPP_leave(s), <<"UNLOOP", "JMP">>)
<1>1. /\ Adds(s, s, <<>>) /\ "UNLOOP" \in Opcodes /\ "JMP" \in Opcodes /\ "leave" \in Stacks
      /\ "no do" \in StructureErrors
  BY AddsNothing DEF Opcodes, Stacks, StructureErrors
<1>2. Append(<<>>, "UNLOOP") = <<"UNLOOP">> /\ Append(<<"UNLOOP">>, "JMP") = <<"UNLOOP", "JMP">>
  BY Tuples
<1> DEFINE u == Op(s, "UNLOOP")
<1>3. Adds(s, u, <<"UNLOOP">>) /\ u.e = "none"
  BY <1>1, <1>2, AddsOp
<1>4. Adds(s, JumpAhead(u, "JMP", "leave"), <<"UNLOOP", "JMP">>)
      /\ JumpAhead(u, "JMP", "leave").e = "none"
  <2> HIDE DEF u
  <2>1. /\ Adds(s, JumpAhead(u, "JMP", "leave"), Append(<<"UNLOOP">>, "JMP"))
        /\ JumpAhead(u, "JMP", "leave").e = "none"
    BY <1>1, <1>3, AddsJumpAhead, ZenonT(30)
  <2> QED BY <1>2, <2>1
<1>5. Writes(s, JumpAhead(u, "JMP", "leave"), <<"UNLOOP", "JMP">>)
  BY <1>4, WritesAdded
<1> QED BY <1>1, <1>5, FailsWrites DEF CPP_leave
(* SubSeq() of a stack of offsets is one. *)
LEMMA CutTyped ==
  ASSUME NEW q \in Seq(Int), NEW m \in Nat, m >= 1, NEW n \in Int, n <= Len(q)
  PROVE  SubSeq(q, m, n) \in Seq(Int)
<1>1. \A i \in m .. n : q[i] \in Int
  <2> TAKE i \in m .. n
  <2>1. i \in 1 .. Len(q)
    BY LenProperties
  <2> QED BY <2>1, ElementOfSeq
<1> QED BY <1>1, SubSeqProperties

LEMMA CloseQueryDoAdds ==
  ASSUME NEW s \in CState, NEW r, NEW list, Adds(s, r, list), r.e = "none", NEW start \in Int
  PROVE  Adds(s, CloseQueryDo(r, start), list) /\ CloseQueryDo(r, start).e = "none"
<1>1. "querydo" \in Stacks /\ "if" \in Stacks /\ "querydo" # "if" /\ "none" \in Codes
  BY DEF Stacks, Codes
<1> DEFINE u == CPP_then(r)
           v == [u EXCEPT !.e = "none"]
<1>2. Adds(s, u, list) /\ u \in CState
  BY ThenAdds, AddsState
<1>3. v = Fails(u, "none")
  BY DEF Fails
<1>4. Adds(s, v, list) /\ v.e = "none" /\ v \in CState /\ v.ctl = u.ctl
  <2>1. Adds(s, Fails(u, "none"), list) /\ Fails(u, "none").e = "none"
    <3> HIDE DEF u
    <3> QED BY <1>1, <1>2, AddsFails
  <2>2. Fails(u, "none") \in CState /\ Fails(u, "none").ctl = u.ctl
    <3> HIDE DEF u
    <3> QED BY <1>1, <1>2, FailsTyped
  <2> QED BY <1>3, <2>1, <2>2
<1>5. u.ctl["querydo"] = r.ctl["querydo"]
  <2>1. r \in CState /\ r.ctl \in [Stacks -> Seq(Int)] /\ 0 \in Int
    BY AddsState, StateFields
  <2>2. CASE IsEmpty(r, "if")
    BY <2>2 DEF CPP_then, Fails
  <2>3. CASE ~IsEmpty(r, "if")
    <3> DEFINE w == Popped(r, "if")
    <3>1. w.ctl = [r.ctl EXCEPT !["if"] = Front(@)] /\ w \in CState
      BY <1>1, <2>1, <2>3, PoppedTyped
    <3>2. w.ctl["querydo"] = r.ctl["querydo"]
      BY <1>1, <2>1, <3>1
    <3>3. \A o : OpsCopyInt(w, o, 0).ctl = w.ctl
      <4> HIDE DEF w
      <4> QED BY <2>1, <3>1, CopyTyped
    <3> QED BY <2>3, <3>2, <3>3 DEF CPP_then, Land
  <2> QED BY <2>2, <2>3
<1>6. CASE ~IsEmpty(r, "querydo")
  <2>1. ~IsEmpty(v, "querydo")
    BY <1>4, <1>5, <1>6 DEF IsEmpty
  <2>2. Adds(s, Popped(v, "querydo"), list) /\ Popped(v, "querydo").e = "none"
    <3> HIDE DEF v
    <3> QED BY <1>1, <1>4, <2>1, AddsPopped
  <2> QED BY <2>2 DEF CloseQueryDo
<1>7. CASE IsEmpty(r, "querydo")
  BY <1>7 DEF CloseQueryDo
<1> QED BY <1>6, <1>7

LEMMA LoopWrites ==
  ASSUME NEW s \in CState, s.e = "none"
  PROVE  Writes(s, CloseLoop(Op(s, "LOOP")), <<"LOOP">>)
<1> DEFINE r == Op(s, "LOOP")
<1>1. /\ Adds(s, s, <<>>) /\ "LOOP" \in Opcodes /\ "do" \in Stacks /\ "leave" \in Stacks
      /\ "loop without do" \in StructureErrors /\ Append(<<>>, "LOOP") = <<"LOOP">> /\ "do" # "leave"
  BY AddsNothing, Tuples DEF Opcodes, Stacks, StructureErrors
<1>2. Adds(s, r, <<"LOOP">>) /\ r.e = "none" /\ r \in CState
  <2>1. Adds(s, r, <<"LOOP">>) /\ r.e = "none"
    BY <1>1, AddsOp
  <2> HIDE DEF r
  <2> QED BY <2>1, AddsState
<1> HIDE DEF r
<1>3. CASE IsEmpty(r, "do")
  BY <1>1, <1>2, <1>3, FailsWrites DEF CloseLoop, r
<1>4. CASE ~IsEmpty(r, "do")
  <2> DEFINE start == TopOf(r, "do")
             outer == OuterLeaves(r, start)
             inner == SubSeq(r.ctl["leave"], outer + 1, Len(r.ctl["leave"]))
             p == Popped(r, "do")
             q == SubSeq(r.ctl["leave"], 1, outer)
             u == [p EXCEPT !.ctl["leave"] = q]
             t == OpsCopyInt(u, Range(inner), 0)
  <2>1. /\ start \in Int /\ Adds(s, p, <<"LOOP">>) /\ p.e = "none"
        /\ p.ctl = [r.ctl EXCEPT !["do"] = Front(@)]
    BY <1>1, <1>2, <1>4, PoppedTyped, AddsPopped
  <2>2. r.ctl["leave"] \in Seq(Int) /\ r.ctl \in [Stacks -> Seq(Int)]
    BY <1>1, <1>2, StateFields
  <2>3. p.ctl["leave"] = r.ctl["leave"]
    BY <1>1, <2>1, <2>2
  <2> HIDE DEF p, start
  <2>4. outer \in 0 .. Len(r.ctl["leave"])
    BY <1>2, <2>1, OuterLeavesAt
  <2>5. q \in Seq(Int)
    <3>1. outer \in Int /\ outer <= Len(r.ctl["leave"]) /\ 1 \in Nat /\ 1 >= 1
      BY <2>2, <2>4, LenProperties
    <3> HIDE DEF outer
    <3> QED BY <2>2, <3>1, CutTyped
  <2>6. Adds(s, u, <<"LOOP">>) /\ u.e = "none"
    <3> HIDE DEF q
    <3>1. Adds(s, SetStack(p, "leave", q), <<"LOOP">>) /\ SetStack(p, "leave", q).e = "none"
      <4>1. "leave" \in Stacks
        BY <1>1
      <4>2. Adds(s, p, <<"LOOP">>) /\ p.e = "none"
        BY <2>1
      <4> QED BY <4>1, <4>2, <2>5, AddsCtl
    <3> QED BY <3>1 DEF SetStack
  <2>7. Adds(s, t, <<"LOOP">>) /\ t.e = "none"
    <3> HIDE DEF u, inner
    <3> QED BY <2>6, AddsCopy
  <2>8. Adds(s, CloseQueryDo(t, start), <<"LOOP">>) /\ CloseQueryDo(t, start).e = "none"
    <3> HIDE DEF t
    <3> QED BY <2>1, <2>7, CloseQueryDoAdds
  <2>9. CloseLoop(r) = CloseQueryDo(t, start)
    BY <1>4, <2>3 DEF CloseLoop, p, start
  <2> QED BY <2>8, <2>9, WritesAdded DEF r
<1> QED BY <1>3, <1>4

LEMMA CaseWrites ==
  ASSUME NEW s \in CState, s.e = "none" PROVE Writes(s, CPP_case(s), <<>>)
<1>1. Adds(s, s, <<>>) /\ "case" \in Stacks /\ -1 \in Int
  BY AddsNothing DEF Stacks
<1>2. Adds(s, CPP_case(s), <<>>) /\ CPP_case(s).e = "none"
  BY <1>1, AddsPushed DEF CPP_case
<1> QED BY <1>2, WritesAdded

LEMMA OfWrites ==
  ASSUME NEW s \in CState, s.e = "none"
  PROVE  Writes(s, CPP_of(s), <<"OVER", "EQ", "JZ", "DROP">>)
<1> DEFINE a == Op(s, "OVER")
           b == Op(a, "EQ")
           c == JumpAhead(b, "JZ", "of")
           d == Op(c, "DROP")
<1>1. /\ Adds(s, s, <<>>) /\ "OVER" \in Opcodes /\ "EQ" \in Opcodes /\ "JZ" \in Opcodes
      /\ "DROP" \in Opcodes /\ "of" \in Stacks
  BY AddsNothing DEF Opcodes, Stacks
<1>2. /\ Append(<<>>, "OVER") = <<"OVER">> /\ Append(<<"OVER">>, "EQ") = <<"OVER", "EQ">>
      /\ Append(<<"OVER", "EQ">>, "JZ") = <<"OVER", "EQ", "JZ">>
      /\ Append(<<"OVER", "EQ", "JZ">>, "DROP") = <<"OVER", "EQ", "JZ", "DROP">>
  BY Tuples
<1>3. Adds(s, a, Append(<<>>, "OVER")) /\ a.e = "none"
  BY <1>1, AddsOp
<1> HIDE DEF a
<1>4. Adds(s, b, Append(<<"OVER">>, "EQ")) /\ b.e = "none"
  BY <1>1, <1>2, <1>3, AddsOp, ZenonT(30)
<1> HIDE DEF b
<1>5. Adds(s, c, Append(<<"OVER", "EQ">>, "JZ")) /\ c.e = "none"
  <2>1. Adds(s, b, <<"OVER", "EQ">>)
    BY <1>2, <1>4
  <2> QED BY <1>1, <1>4, <2>1, AddsJumpAhead
<1> HIDE DEF c
<1>6. Adds(s, d, Append(<<"OVER", "EQ", "JZ">>, "DROP")) /\ d.e = "none"
  <2>1. Adds(s, c, <<"OVER", "EQ", "JZ">>)
    BY <1>2, <1>5
  <2> QED BY <1>1, <1>5, <2>1, AddsOp
<1>7. CPP_of(s) = d
  BY DEF CPP_of, c, b, a
<1> HIDE DEF d
<1>8. Adds(s, d, <<"OVER", "EQ", "JZ", "DROP">>)
  BY <1>2, <1>6
<1> QED BY <1>6, <1>7, <1>8, WritesAdded
LEMMA EndofWrites ==
  ASSUME NEW s \in CState, s.e = "none" PROVE Writes(s, CPP_endof(s), <<"JMP">>)
<1> DEFINE t == JumpAhead(s, "JMP", "case")
<1>1. /\ Adds(s, s, <<>>) /\ "JMP" \in Opcodes /\ "case" \in Stacks /\ "of" \in Stacks
      /\ "endof without of" \in StructureErrors /\ Append(<<>>, "JMP") = <<"JMP">> /\ 0 \in Int
  BY AddsNothing, Tuples DEF Opcodes, Stacks, StructureErrors
<1>2. Adds(s, t, <<"JMP">>) /\ t.e = "none"
  <2>1. /\ Adds(s, JumpAhead(s, "JMP", "case"), Append(<<>>, "JMP"))
        /\ JumpAhead(s, "JMP", "case").e = "none"
    BY <1>1, AddsJumpAhead
  <2> QED BY <1>1, <2>1
<1> HIDE DEF t
<1>3. CASE IsEmpty(t, "of")
  <2>1. t \in CState
    BY <1>2, AddsState
  <2> QED BY <1>1, <1>3, <2>1, FailsWrites DEF CPP_endof, t
<1>4. CASE ~IsEmpty(t, "of")
  <2>1. Adds(s, Land(t, "of", 0), <<"JMP">>) /\ Land(t, "of", 0).e = "none"
    BY <1>1, <1>2, <1>4, AddsLand, ZenonT(30)
  <2> QED BY <1>4, <2>1, WritesAdded DEF CPP_endof, t
<1> QED BY <1>3, <1>4

LEMMA EndcaseWrites ==
  ASSUME NEW s \in CState, s.e = "none" PROVE Writes(s, CPP_endcase(s), <<"DROP">>)
<1> DEFINE stack == s.ctl["case"]
           mark  == CaseMark(stack)
           r     == Op(s, "DROP")
           q     == SubSeq(stack, 1, mark - 1)
           t     == [r EXCEPT !.ctl["case"] = q]
           u     == OpsCopyInt(t, Range(SubSeq(stack, mark + 1, Len(stack))), 0)
<1>1. /\ Adds(s, s, <<>>) /\ "DROP" \in Opcodes /\ "case" \in Stacks
      /\ "no case" \in StructureErrors /\ Append(<<>>, "DROP") = <<"DROP">> /\ 0 \in Int
  BY AddsNothing, Tuples DEF Opcodes, Stacks, StructureErrors
<1>2. Adds(s, r, <<"DROP">>) /\ r.e = "none" /\ r.ctl = s.ctl
  BY <1>1, AddsOp
<1>3. stack \in Seq(Int)
  BY <1>1, StateFields
<1>4. q \in Seq(Int)
  <2> HIDE DEF stack
  <2>1. mark \in 0 .. Len(stack)
    BY <1>3, CaseMarkAt
  <2>2. mark - 1 \in Int /\ mark - 1 <= Len(stack) /\ 1 \in Nat /\ 1 >= 1
    BY <1>3, <2>1, LenProperties
  <2> DEFINE m == mark - 1
  <2> HIDE DEF m
  <2>3. SubSeq(stack, 1, m) \in Seq(Int)
    BY <1>3, <2>2, CutTyped DEF m
  <2> QED BY <2>3 DEF m
<1>5. Adds(s, t, <<"DROP">>) /\ t.e = "none"
  <2> HIDE DEF q, r
  <2>1. Adds(s, SetStack(r, "case", q), <<"DROP">>) /\ SetStack(r, "case", q).e = "none"
    BY <1>1, <1>2, <1>4, AddsCtl, ZenonT(30)
  <2> QED BY <2>1 DEF SetStack
<1>6. Adds(s, u, <<"DROP">>) /\ u.e = "none"
  <2> DEFINE o == Range(SubSeq(stack, mark + 1, Len(stack)))
  <2> HIDE DEF t, o
  <2>1. Adds(s, OpsCopyInt(t, o, 0), <<"DROP">>) /\ OpsCopyInt(t, o, 0).e = "none"
    <3>1. 0 \in Int
      OBVIOUS
    <3> QED BY <3>1, <1>5, AddsCopy
  <2> QED BY <2>1 DEF o
<1>7. CPP_endcase(s) = IF stack = <<>> THEN Fails(s, "no case") ELSE u
  <2>1. t = [Op(s, "DROP") EXCEPT !.ctl["case"] = DropCase(@, mark)]
    BY <1>2 DEF DropCase
  <2> QED BY <2>1 DEF CPP_endcase, CaseMark
<1> HIDE DEF u, stack
<1>8. Writes(s, u, <<"DROP">>)
  BY <1>6, WritesAdded
<1> QED BY <1>1, <1>7, <1>8, FailsWrites

LEMMA RecurseWrites ==
  ASSUME NEW s \in CState, s.e = "none", State \in BOOLEAN
  PROVE  Writes(s, CPP_recurse(s), <<"ADDR", "EXECUTE_BC">>)
<1> DEFINE a == IF State THEN JumpAhead(s, "ADDR", "recurse") ELSE Op(s, "ADDR")
<1>1. /\ Adds(s, s, <<>>) /\ "ADDR" \in Opcodes /\ "EXECUTE_BC" \in Opcodes /\ "recurse" \in Stacks
      /\ Append(<<>>, "ADDR") = <<"ADDR">>
      /\ Append(<<"ADDR">>, "EXECUTE_BC") = <<"ADDR", "EXECUTE_BC">>
  BY AddsNothing, Tuples DEF Opcodes, Stacks
<1>2. /\ Adds(s, JumpAhead(s, "ADDR", "recurse"), Append(<<>>, "ADDR"))
      /\ JumpAhead(s, "ADDR", "recurse").e = "none"
  BY <1>1, AddsJumpAhead
<1>3. Adds(s, Op(s, "ADDR"), Append(<<>>, "ADDR")) /\ Op(s, "ADDR").e = "none"
  BY <1>1, AddsOp
<1>4. Adds(s, a, <<"ADDR">>) /\ a.e = "none"
  BY <1>1, <1>2, <1>3
<1>5. CPP_recurse(s) = Op(a, "EXECUTE_BC")
  BY DEF CPP_recurse
<1> HIDE DEF a
<1>6. Adds(s, Op(a, "EXECUTE_BC"), Append(<<"ADDR">>, "EXECUTE_BC")) /\ Op(a, "EXECUTE_BC").e = "none"
  BY <1>1, <1>4, AddsOp
<1>7. Adds(s, Op(a, "EXECUTE_BC"), <<"ADDR", "EXECUTE_BC">>)
  BY <1>1, <1>6
<1> QED BY <1>5, <1>6, <1>7, WritesAdded
LEMMA Ops2Adds ==
  ASSUME NEW s \in CState, NEW r, NEW list, Adds(s, r, list), r.e = "none",
         NEW a \in Opcodes, NEW b \in Opcodes
  PROVE  Adds(s, Ops2(r, a, b), Append(Append(list, a), b)) /\ Ops2(r, a, b).e = "none"
<1> DEFINE u == Op(r, a)
           l == Append(list, a)
<1>1. Adds(s, u, l) /\ u.e = "none"
  BY AddsOp
<1>2. Adds(s, Op(u, b), Append(l, b)) /\ Op(u, b).e = "none"
  <2> HIDE DEF u, l
  <2> QED BY <1>1, AddsOp
<1> QED BY <1>2 DEF Ops2

LEMMA AbortquoteWrites ==
  ASSUME NEW s \in CState, s.e = "none"
  PROVE  Writes(s, CPP_abortquote(s),
           <<"JZ", "ADDR", "IVAL", "TYPE", "ADDR", "COUNT", "TYPE", "CR", "ABORT">>)
<1> DEFINE n == 4 * WSIZE + 9
           a == Jump(s, "JZ", n)
           b == Ops2(a, "ADDR", "IVAL")
           message == Op(b, "TYPE")
           c == Ops2(message, "ADDR", "COUNT")
           name == Op(c, "TYPE")
           d == Ops2(name, "CR", "ABORT")
           l1 == <<"JZ">>
           l3 == <<"JZ", "ADDR", "IVAL">>
           l4 == <<"JZ", "ADDR", "IVAL", "TYPE">>
           l6 == <<"JZ", "ADDR", "IVAL", "TYPE", "ADDR", "COUNT">>
           l7 == <<"JZ", "ADDR", "IVAL", "TYPE", "ADDR", "COUNT", "TYPE">>
           l9 == <<"JZ", "ADDR", "IVAL", "TYPE", "ADDR", "COUNT", "TYPE", "CR", "ABORT">>
<1>1. /\ "JZ" \in Opcodes /\ "ADDR" \in Opcodes /\ "IVAL" \in Opcodes /\ "TYPE" \in Opcodes
      /\ "COUNT" \in Opcodes /\ "CR" \in Opcodes /\ "ABORT" \in Opcodes
  BY DEF Opcodes
<1>2. n \in Args
  <2>1. n \in Int
    BY CompilerAssumption
  <2> HIDE DEF n
  <2> QED BY <2>1 DEF Args
<1>3. /\ Append(<<>>, "JZ") = l1 /\ Append(Append(l1, "ADDR"), "IVAL") = l3
      /\ Append(l3, "TYPE") = l4
  <2>1. Append(l1, "ADDR") = <<"JZ", "ADDR">> /\ Append(<<"JZ", "ADDR">>, "IVAL") = l3
    BY Tuples
  <2>2. Append(<<>>, "JZ") = l1 /\ Append(l3, "TYPE") = l4
    BY Tuples
  <2> HIDE DEF l3, l4
  <2> QED BY <2>1, <2>2
<1>4. Append(Append(l4, "ADDR"), "COUNT") = l6 /\ Append(l6, "TYPE") = l7
  <2> DEFINE l5 == <<"JZ", "ADDR", "IVAL", "TYPE", "ADDR">>
  <2>1. Append(l4, "ADDR") = l5 /\ Append(l5, "COUNT") = l6 /\ Append(l6, "TYPE") = l7
    BY Tuples
  <2> HIDE DEF l4, l5, l6, l7
  <2> QED BY <2>1
<1>5. Append(Append(l7, "CR"), "ABORT") = l9
  <2> DEFINE l8 == <<"JZ", "ADDR", "IVAL", "TYPE", "ADDR", "COUNT", "TYPE", "CR">>
  <2>1. Append(l7, "CR") = l8 /\ Append(l8, "ABORT") = l9
    BY Tuples
  <2> HIDE DEF l7, l8, l9
  <2> QED BY <2>1
<1> HIDE DEF l1, l3, l4, l6, l7, l9, n
<1>6. Adds(s, a, l1) /\ a.e = "none"
  <2>1. Adds(s, s, <<>>)
    BY AddsNothing
  <2>2. Adds(s, Jump(s, "JZ", n), Append(<<>>, "JZ")) /\ Jump(s, "JZ", n).e = "none"
    <3>1. "JZ" \in Opcodes
      BY <1>1
    <3> DEFINE l == <<>>
    <3>2. Adds(s, s, l)
      BY <2>1
    <3>3. Adds(s, Jump(s, "JZ", n), Append(l, "JZ")) /\ Jump(s, "JZ", n).e = s.e
      <4> HIDE DEF l
      <4> QED BY <3>1, <1>2, <3>2, AddsJump
    <3> QED BY <3>3
  <2> QED BY <1>3, <2>2
<1> HIDE DEF a
<1>7. Adds(s, b, l3) /\ b.e = "none"
  BY <1>1, <1>3, <1>6, Ops2Adds, ZenonT(30)
<1> HIDE DEF b
<1>8. Adds(s, message, l4) /\ message.e = "none"
  BY <1>1, <1>3, <1>7, AddsOp, ZenonT(30)
<1> HIDE DEF message
<1>9. Adds(s, c, l6) /\ c.e = "none"
  BY <1>1, <1>4, <1>8, Ops2Adds, ZenonT(30)
<1> HIDE DEF c
<1>10. Adds(s, name, l7) /\ name.e = "none"
  BY <1>1, <1>4, <1>9, AddsOp, ZenonT(30)
<1> HIDE DEF name
<1>11. Adds(s, d, l9) /\ d.e = "none"
  BY <1>1, <1>5, <1>10, Ops2Adds, ZenonT(30)
<1>12. CPP_abortquote(s) = d
  BY DEF CPP_abortquote, name, c, message, b, a, n
<1> HIDE DEF d
<1> QED BY <1>11, <1>12, WritesAdded DEF l9

(* Every control structure word, and LOOP, writes what it means.           *)
LEMMA ControlWrites ==
  ASSUME NEW s \in CState, s.e = "none", State \in BOOLEAN, NEW t \in Controls \cup {"LOOP"}
  PROVE  Writes(s, ControlWord(t, s), Meaning(t))
<1>1. CASE t = "IF"
  <2>1. ControlWord(t, s) = CPP_if(s)
    BY <1>1 DEF ControlWord
  <2>2. Meaning(t) = <<"JZ">>
    BY <1>1 DEF Meaning, Compileds
  <2>3. Writes(s, CPP_if(s), <<"JZ">>)
    BY IfWrites
  <2> QED BY <2>1, <2>2, <2>3
<1>2. CASE t = "ELSE"
  <2>1. ControlWord(t, s) = CPP_else(s)
    BY <1>2 DEF ControlWord
  <2>2. Meaning(t) = <<"JMP">>
    BY <1>2 DEF Meaning, Compileds
  <2>3. Writes(s, CPP_else(s), <<"JMP">>)
    BY ElseWrites
  <2> QED BY <2>1, <2>2, <2>3
<1>3. CASE t = "THEN"
  <2>1. ControlWord(t, s) = CPP_then(s)
    BY <1>3 DEF ControlWord
  <2>2. Meaning(t) = <<>>
    BY <1>3 DEF Meaning, Compileds
  <2>3. Writes(s, CPP_then(s), <<>>)
    BY ThenWrites
  <2> QED BY <2>1, <2>2, <2>3
<1>4. CASE t = "BEGIN"
  <2>1. ControlWord(t, s) = CPP_begin(s)
    BY <1>4 DEF ControlWord
  <2>2. Meaning(t) = <<>>
    BY <1>4 DEF Meaning, Compileds
  <2>3. Writes(s, CPP_begin(s), <<>>)
    BY BeginWrites
  <2> QED BY <2>1, <2>2, <2>3
<1>5. CASE t = "WHILE"
  <2>1. ControlWord(t, s) = CPP_while(s)
    BY <1>5 DEF ControlWord
  <2>2. Meaning(t) = <<"JZ">>
    BY <1>5 DEF Meaning, Compileds
  <2>3. Writes(s, CPP_while(s), <<"JZ">>)
    BY WhileWrites
  <2> QED BY <2>1, <2>2, <2>3
<1>6. CASE t = "REPEAT"
  <2>1. ControlWord(t, s) = CPP_repeat(s)
    BY <1>6 DEF ControlWord
  <2>2. Meaning(t) = <<"JMP">>
    BY <1>6 DEF Meaning, Compileds
  <2>3. Writes(s, CPP_repeat(s), <<"JMP">>)
    BY RepeatWrites
  <2> QED BY <2>1, <2>2, <2>3
<1>7. CASE t = "UNTIL"
  <2>1. ControlWord(t, s) = BackToBegin(s, "JZ")
    BY <1>7 DEF ControlWord, CPP_until
  <2>2. Meaning(t) = <<"JZ">>
    BY <1>7 DEF Meaning, Compileds
  <2>3. Writes(s, BackToBegin(s, "JZ"), <<"JZ">>)
    BY AddsNothing, BackToBeginWrites DEF Opcodes
  <2> QED BY <2>1, <2>2, <2>3
<1>8. CASE t = "AGAIN"
  <2>1. ControlWord(t, s) = BackToBegin(s, "JMP")
    BY <1>8 DEF ControlWord, CPP_again
  <2>2. Meaning(t) = <<"JMP">>
    BY <1>8 DEF Meaning, Compileds
  <2>3. Writes(s, BackToBegin(s, "JMP"), <<"JMP">>)
    BY AddsNothing, BackToBeginWrites DEF Opcodes
  <2> QED BY <2>1, <2>2, <2>3
<1>9. CASE t = "DO"
  <2>1. ControlWord(t, s) = CPP_do(s)
    BY <1>9 DEF ControlWord
  <2>2. Meaning(t) = <<"PUSH", "PUSH", "PUSHIP">>
    BY <1>9 DEF Meaning, Compileds
  <2>3. Writes(s, CPP_do(s), <<"PUSH", "PUSH", "PUSHIP">>)
    BY DoWrites
  <2> QED BY <2>1, <2>2, <2>3
<1>10. CASE t = "?DO"
  <2>1. ControlWord(t, s) = CPP_querydo(s)
    BY <1>10 DEF ControlWord
  <2>2. Meaning(t) = <<"2DUP", "EQ", "JZ", "2DROP", "JMP", "PUSH", "PUSH", "PUSHIP">>
    BY <1>10 DEF Meaning, Compileds
  <2>3. Writes(s, CPP_querydo(s), <<"2DUP", "EQ", "JZ", "2DROP", "JMP", "PUSH", "PUSH", "PUSHIP">>)
    BY QueryDoWrites
  <2> QED BY <2>1, <2>2, <2>3
<1>11. CASE t = "LEAVE"
  <2>1. ControlWord(t, s) = CPP_leave(s)
    BY <1>11 DEF ControlWord
  <2>2. Meaning(t) = <<"UNLOOP", "JMP">>
    BY <1>11 DEF Meaning, Compileds
  <2>3. Writes(s, CPP_leave(s), <<"UNLOOP", "JMP">>)
    BY LeaveWrites
  <2> QED BY <2>1, <2>2, <2>3
<1>12. CASE t = "CASE"
  <2>1. ControlWord(t, s) = CPP_case(s)
    BY <1>12 DEF ControlWord
  <2>2. Meaning(t) = <<>>
    BY <1>12 DEF Meaning, Compileds
  <2>3. Writes(s, CPP_case(s), <<>>)
    BY CaseWrites
  <2> QED BY <2>1, <2>2, <2>3
<1>13. CASE t = "OF"
  <2>1. ControlWord(t, s) = CPP_of(s)
    BY <1>13 DEF ControlWord
  <2>2. Meaning(t) = <<"OVER", "EQ", "JZ", "DROP">>
    BY <1>13 DEF Meaning, Compileds
  <2>3. Writes(s, CPP_of(s), <<"OVER", "EQ", "JZ", "DROP">>)
    BY OfWrites
  <2> QED BY <2>1, <2>2, <2>3
<1>14. CASE t = "ENDOF"
  <2>1. ControlWord(t, s) = CPP_endof(s)
    BY <1>14 DEF ControlWord
  <2>2. Meaning(t) = <<"JMP">>
    BY <1>14 DEF Meaning, Compileds
  <2>3. Writes(s, CPP_endof(s), <<"JMP">>)
    BY EndofWrites
  <2> QED BY <2>1, <2>2, <2>3
<1>15. CASE t = "ENDCASE"
  <2>1. ControlWord(t, s) = CPP_endcase(s)
    BY <1>15 DEF ControlWord
  <2>2. Meaning(t) = <<"DROP">>
    BY <1>15 DEF Meaning, Compileds
  <2>3. Writes(s, CPP_endcase(s), <<"DROP">>)
    BY EndcaseWrites
  <2> QED BY <2>1, <2>2, <2>3
<1>16. CASE t = "RECURSE"
  <2>1. ControlWord(t, s) = CPP_recurse(s)
    BY <1>16 DEF ControlWord
  <2>2. Meaning(t) = <<"ADDR", "EXECUTE_BC">>
    BY <1>16 DEF Meaning, Compileds
  <2>3. Writes(s, CPP_recurse(s), <<"ADDR", "EXECUTE_BC">>)
    BY RecurseWrites
  <2> QED BY <2>1, <2>2, <2>3
<1>17. CASE t = "ABORT\""
  <2>1. ControlWord(t, s) = CPP_abortquote(s)
    BY <1>17 DEF ControlWord
  <2>2. Meaning(t) = <<"JZ", "ADDR", "IVAL", "TYPE", "ADDR", "COUNT", "TYPE", "CR", "ABORT">>
    BY <1>17 DEF Meaning, Compileds
  <2>3. Writes(s, CPP_abortquote(s), <<"JZ", "ADDR", "IVAL", "TYPE", "ADDR", "COUNT", "TYPE", "CR", "ABORT">>)
    BY AbortquoteWrites
  <2> QED BY <2>1, <2>2, <2>3
<1>18. CASE t = "LOOP"
  <2>1. ControlWord(t, s) = CloseLoop(Op(s, "LOOP"))
    BY <1>18 DEF ControlWord
  <2>2. Meaning(t) = <<"LOOP">>
    BY <1>18 DEF Meaning, Compileds
  <2>3. Writes(s, CloseLoop(Op(s, "LOOP")), <<"LOOP">>)
    BY LoopWrites
  <2> QED BY <2>1, <2>2, <2>3
<1> QED BY <1>1, <1>2, <1>3, <1>4, <1>5, <1>6, <1>7, <1>8, <1>9, <1>10, <1>11, <1>12, <1>13, <1>14, <1>15, <1>16, <1>17, <1>18 DEF Controls, Openers

-----------------------------------------------------------------------------
(* The words that compile literals *)

(* What they write is what they mean, but for ['] of an unknown name.       *)
LiteralCode(t) == IF t = "['] unknown" THEN <<"IVAL">> ELSE Meaning(t)

LEMMA LiteralWrites ==
  ASSUME NEW s \in CState, s.e = "none", NEW t \in Literals
  PROVE  Writes(s, LiteralWord(t, s), LiteralCode(t))
<1>0. t # "['] unknown" => LiteralCode(t) = Meaning(t)
  BY DEF LiteralCode
<1>1. Adds(s, s, <<>>)
  BY AddsNothing
<1>2. /\ "IVAL" \in Opcodes /\ "ADDR" \in Opcodes /\ "INC" \in Opcodes /\ "COUNT" \in Opcodes
      /\ "TYPE" \in Opcodes /\ "CALLADDR" \in Opcodes /\ "DEFINITION" \in Opcodes
  BY DEF Opcodes
<1>3. ASSUME NEW a \in Opcodes
      PROVE  Adds(s, Op(s, a), <<a>>) /\ Op(s, a).e = "none"
  <2>1. Append(<<>>, a) = <<a>>
    BY Tuples
  <2>2. Adds(s, Op(s, a), Append(<<>>, a)) /\ Op(s, a).e = "none"
    BY <1>1, AddsOp
  <2> QED BY <2>1, <2>2
<1>4. ASSUME NEW a \in Opcodes, NEW b \in Opcodes
      PROVE  Adds(s, Ops2(s, a, b), <<a, b>>) /\ Ops2(s, a, b).e = "none"
  <2>1. Append(<<>>, a) = <<a>> /\ Append(<<a>>, b) = <<a, b>>
    BY Tuples
  <2>2. Adds(s, Ops2(s, a, b), Append(Append(<<>>, a), b)) /\ Ops2(s, a, b).e = "none"
    BY <1>1, Ops2Adds
  <2> QED BY <2>1, <2>2
<1>5. ASSUME NEW a \in Opcodes, NEW b \in Opcodes, NEW c \in Opcodes
      PROVE  Writes(s, Ops2(Op(s, a), b, c), <<a, b, c>>)
  <2>1. Append(<<a>>, b) = <<a, b>> /\ Append(<<a, b>>, c) = <<a, b, c>>
    BY Tuples
  <2> DEFINE u == Op(s, a)
             l == <<a>>
  <2>2. Adds(s, u, l) /\ u.e = "none"
    BY <1>3
  <2>3. Adds(s, Ops2(u, b, c), Append(Append(l, b), c)) /\ Ops2(u, b, c).e = "none"
    <3> HIDE DEF u, l
    <3> QED BY <2>2, Ops2Adds
  <2>4. Append(Append(l, b), c) = <<a, b, c>>
    BY <2>1
  <2> QED BY <2>3, <2>4, WritesAdded
<1>6. CASE t = "LITERAL"
  <2>1. LiteralWord(t, s) = Op(s, "IVAL") /\ Meaning(t) = <<"IVAL">>
    <3>1. LiteralWord(t, s) = Op(s, "IVAL")
      BY <1>6 DEF LiteralWord, CPP_literal, Postpones
    <3>2. Meaning(t) = <<"IVAL">>
      BY <1>6 DEF Meaning, Compileds
    <3> QED BY <3>1, <3>2
  <2> QED BY <1>0, <1>6, <1>2, <1>3, <2>1, WritesAdded
<1>7. CASE t = "2LITERAL"
  <2>1. LiteralWord(t, s) = Ops2(s, "IVAL", "IVAL") /\ Meaning(t) = <<"IVAL", "IVAL">>
    <3>1. LiteralWord(t, s) = Ops2(s, "IVAL", "IVAL")
      BY <1>7 DEF LiteralWord, CPP_literal, CPP_twoliteral, Ops2, Postpones
    <3>2. Meaning(t) = <<"IVAL", "IVAL">>
      BY <1>7 DEF Meaning, Compileds
    <3> QED BY <3>1, <3>2
  <2> QED BY <1>0, <1>7, <1>2, <1>4, <2>1, WritesAdded
<1>8. CASE t = "SLITERAL"
  <2>1. LiteralWord(t, s) = Ops2(s, "ADDR", "IVAL") /\ Meaning(t) = <<"ADDR", "IVAL">>
    <3>1. LiteralWord(t, s) = Ops2(s, "ADDR", "IVAL")
      BY <1>8 DEF LiteralWord, CPP_sliteral, Postpones
    <3>2. Meaning(t) = <<"ADDR", "IVAL">>
      BY <1>8 DEF Meaning, Compileds
    <3> QED BY <3>1, <3>2
  <2> QED BY <1>0, <1>8, <1>2, <1>4, <2>1, WritesAdded
<1>9. CASE t = "[']"
  <2>1. LiteralWord(t, s) = Op(s, "ADDR") /\ Meaning(t) = <<"ADDR">>
    <3>1. LiteralWord(t, s) = Op(s, "ADDR")
      BY <1>9 DEF LiteralWord, CPP_brackettick, Postpones
    <3>2. Meaning(t) = <<"ADDR">>
      BY <1>9 DEF Meaning, Compileds
    <3> QED BY <3>1, <3>2
  <2> QED BY <1>0, <1>9, <1>2, <1>3, <2>1, WritesAdded
<1>10. CASE t = "C\""
  <2>1. LiteralWord(t, s) = Op(s, "ADDR") /\ Meaning(t) = <<"ADDR">>
    <3>1. LiteralWord(t, s) = Op(s, "ADDR")
      BY <1>10 DEF LiteralWord, CPP_cquote, Postpones
    <3>2. Meaning(t) = <<"ADDR">>
      BY <1>10 DEF Meaning, Compileds
    <3> QED BY <3>1, <3>2
  <2> QED BY <1>0, <1>10, <1>2, <1>3, <2>1, WritesAdded
<1>11. CASE t = "S\""
  <2>1. LiteralWord(t, s) = Ops2(Op(s, "ADDR"), "INC", "IVAL") /\ Meaning(t) = <<"ADDR", "INC", "IVAL">>
    <3>1. LiteralWord(t, s) = Ops2(Op(s, "ADDR"), "INC", "IVAL")
      BY <1>11 DEF LiteralWord, CPP_squote, CPP_cquote, Postpones
    <3>2. Meaning(t) = <<"ADDR", "INC", "IVAL">>
      BY <1>11 DEF Meaning, Compileds
    <3> QED BY <3>1, <3>2
  <2> QED BY <1>0, <1>11, <1>2, <1>5, <2>1
<1>12. CASE t = ".\""
  <2>1. LiteralWord(t, s) = Ops2(Op(s, "ADDR"), "COUNT", "TYPE") /\ Meaning(t) = <<"ADDR", "COUNT", "TYPE">>
    <3>1. LiteralWord(t, s) = Ops2(Op(s, "ADDR"), "COUNT", "TYPE")
      BY <1>12 DEF LiteralWord, CPP_dotquote, CPP_cquote, Postpones
    <3>2. Meaning(t) = <<"ADDR", "COUNT", "TYPE">>
      BY <1>12 DEF Meaning, Compileds
    <3> QED BY <3>1, <3>2
  <2> QED BY <1>0, <1>12, <1>2, <1>5, <2>1
<1>13. CASE t = "POSTPONE"
  <2>1. LiteralWord(t, s) = Ops2(s, "ADDR", "CALLADDR") /\ Meaning(t) = <<"ADDR", "CALLADDR">>
    <3>1. LiteralWord(t, s) = Ops2(s, "ADDR", "CALLADDR")
      BY <1>13 DEF LiteralWord, CPP_postpone, Postpones
    <3>2. Meaning(t) = <<"ADDR", "CALLADDR">>
      BY <1>13 DEF Meaning, Compileds
    <3> QED BY <3>1, <3>2
  <2> QED BY <1>0, <1>13, <1>2, <1>4, <2>1, WritesAdded
<1>14. CASE t = "POSTPONE immediate"
  <2>1. LiteralWord(t, s) = Op(s, "DEFINITION") /\ Meaning(t) = <<"DEFINITION">>
    <3>1. LiteralWord(t, s) = Op(s, "DEFINITION")
      BY <1>14 DEF LiteralWord, CPP_postpone, Postpones
    <3>2. Meaning(t) = <<"DEFINITION">>
      BY <1>14 DEF Meaning, Compileds
    <3> QED BY <3>1, <3>2
  <2> QED BY <1>0, <1>14, <1>2, <1>3, <2>1, WritesAdded
<1>15. CASE t = "POSTPONE unknown"
  <2>1. LiteralWord(t, s) = s /\ Meaning(t) = <<>>
    <3>1. LiteralWord(t, s) = s
      BY <1>15 DEF LiteralWord, CPP_postpone, Postpones
    <3>2. Meaning(t) = <<>>
      BY <1>15 DEF Meaning, Compileds
    <3> QED BY <3>1, <3>2
  <2> QED BY <1>0, <1>15, <1>1, <2>1, WritesAdded
<1>16. CASE t = "['] unknown"
  <2>1. LiteralWord(t, s) = Op(s, "IVAL")
    BY <1>16 DEF LiteralWord, CPP_brackettick, CPP_literal, Postpones
  <2>2. LiteralCode(t) = <<"IVAL">>
    BY <1>16 DEF LiteralCode
  <2> QED BY <1>2, <1>3, <2>1, <2>2, WritesAdded
<1> QED BY <1>6, <1>7, <1>8, <1>9, <1>10, <1>11, <1>12, <1>13, <1>14, <1>15, <1>16
        DEF Literals, CellLiterals, Postpones

LEMMA CompiledWrites ==
  ASSUME NEW s \in CState, s.e = "none", NEW t \in Compileds
  PROVE  Opcode(t) \in Opcodes /\ Writes(s, Op(s, Opcode(t)), Meaning(t))
<1>1. Opcode(t) \in Opcodes
  BY DEF Opcode, Compileds, Opcodes
<1>2. Meaning(t) = <<Opcode(t)>>
  BY DEF Meaning, Compileds
<1> DEFINE op == Opcode(t)
<1>3. op \in Opcodes /\ Append(<<>>, op) = <<op>>
  BY <1>1, Tuples
<1> HIDE DEF op
<1>4. Adds(s, Op(s, op), Append(<<>>, op)) /\ Op(s, op).e = "none"
  BY <1>3, AddsNothing, AddsOp
<1>5. Writes(s, Op(s, op), <<op>>)
  BY <1>3, <1>4, WritesAdded
<1> QED BY <1>1, <1>2, <1>5 DEF op

-----------------------------------------------------------------------------
(* Types of the machine *)

(* Beyond types: who returns has a caller, and who goes back to the code   *)
(* that [ put aside finds it.                                              *)
(* It goes back to the code that [ put aside.                             *)
GoesBack(f) == f.doing = "bracket" \/ f.word = "COMPILE,"

CallersInv ==
  /\ \A i \in 1 .. Depth : (frames[i].kind = "main") <=> (i = 1)
  /\ \A i \in 2 .. Depth : frames[i].pOldOps # NoOps
  /\ \A i \in 1 .. Depth :
       GoesBack(frames[i]) => pPreviousOps # NoOps
  /\ def.phase = "brackets" => pPreviousOps # NoOps

TypeInv == TypeOK /\ CallersInv

LEMMA FrameFields ==
  ASSUME NEW f \in Frames
  PROVE  /\ f.kind \in {"main", "evaluate", "included"} /\ f.pOpCodes \in Vectors
         /\ f.pOldOps \in Vectors \cup {NoOps}
         /\ f.doing \in {"read", "up to", "current", "line", "bracket"}
         /\ f.word \in (Nondeferred \cap Words) \cup {"none", "included"}
  BY DEF Frames

LEMMA VectorsAre ==
  /\ Temp \in Vectors /\ Main \in Vectors /\ NoOps \notin Vectors /\ Vectors \subseteq Nat
  /\ Temp # Main
  /\ \A v \in Vectors : v <= MaxFrames
  /\ \A n \in 0 .. MaxFrames : n \in Vectors
  BY CompilerAssumption DEF Vectors, Temp, Main, NoOps

LEMMA Facts ==
  ASSUME TypeOK
  PROVE  /\ State \in BOOLEAN /\ wild \in BOOLEAN /\ Depth \in 1 .. MaxFrames /\ Depth \in Nat
         /\ ops \in [Vectors -> Seq(Instructions)] /\ ctl \in [Stacks -> Seq(Int)]
         /\ pCurrentOps \in Vectors /\ pPreviousOps \in Vectors \cup {NoOps}
         /\ frames \in Seq(Frames) /\ Top = frames[Depth] /\ Top \in Frames
         /\ \A i \in 1 .. Depth : frames[i] \in Frames
         /\ Current \in CState /\ Current.e = "none" /\ Current.code = ops[pCurrentOps]
         /\ Current.ctl = ctl /\ Current.wild = FALSE
<1>1. /\ State \in BOOLEAN /\ wild \in BOOLEAN /\ Depth \in 1 .. MaxFrames
      /\ ops \in [Vectors -> Seq(Instructions)] /\ ctl \in [Stacks -> Seq(Int)]
      /\ pCurrentOps \in Vectors /\ pPreviousOps \in Vectors \cup {NoOps}
      /\ frames \in Seq(Frames)
  BY DEF TypeOK
<1>2. Depth \in Nat
  BY <1>1
<1>3. \A i \in 1 .. Depth : frames[i] \in Frames
  BY <1>1, ElementOfSeq DEF Depth
<1>4. Top = frames[Depth]
  BY DEF Top, Depth, Last
<1>5. Depth \in 1 .. Depth
  BY <1>1, CompilerAssumption
<1>6. /\ Current \in CState /\ Current.e = "none" /\ Current.code = ops[pCurrentOps]
      /\ Current.ctl = ctl /\ Current.wild = FALSE
  <2>1. ops[pCurrentOps] \in Seq(Instructions) /\ "none" \in Codes
    BY <1>1 DEF Codes
  <2>2. [code |-> ops[pCurrentOps], ctl |-> ctl, wild |-> FALSE, e |-> "none"] \in CState
    BY <1>1, <2>1 DEF CState
  <2> QED BY <2>2 DEF Current
<1> QED BY <1>1, <1>2, <1>3, <1>4, <1>5, <1>6

LEMMA GoBack ==
  /\ \A f : f.doing = "bracket" => GoesBack(f)
  /\ \A f : f.word = "COMPILE," => GoesBack(f)
  /\ \A f : f.doing # "bracket" /\ f.word = "none" => ~GoesBack(f)
  /\ \A f : f.doing # "bracket" /\ f.word # "COMPILE," => ~GoesBack(f)
  BY Zenon DEF GoesBack

(* The frame on top replaced by another. *)
LEMMA TopReplaced ==
  ASSUME TypeOK, NEW g \in Frames
  PROVE  /\ [frames EXCEPT ![Depth] = g] \in Seq(Frames)
         /\ Len([frames EXCEPT ![Depth] = g]) = Depth
         /\ [frames EXCEPT ![Depth] = g][Depth] = g
         /\ \A i \in 1 .. Depth : i # Depth => [frames EXCEPT ![Depth] = g][i] = frames[i]
<1>1. frames \in Seq(Frames) /\ Depth \in 1 .. Len(frames)
  BY Facts DEF Depth
<1>2. /\ [frames EXCEPT ![Depth] = g] \in Seq(Frames)
      /\ Len([frames EXCEPT ![Depth] = g]) = Len(frames)
      /\ \A j \in 1 .. Len(frames) : [frames EXCEPT ![Depth] = g][j] = IF j = Depth THEN g ELSE frames[j]
  BY <1>1, ExceptSeq
<1> QED BY <1>1, <1>2 DEF Depth

Doings == {"read", "up to", "current", "line", "bracket"}
DoneBy == (Nondeferred \cap Words) \cup {"none", "included"}

LEMMA RunsTyped ==
  ASSUME TypeOK, NEW what \in Doings, NEW word \in DoneBy
  PROVE  LET fs == Runs(what, word) IN
         /\ fs \in Seq(Frames) /\ Len(fs) = Depth
         /\ \A i \in 1 .. Depth : i # Depth => fs[i] = frames[i]
         /\ fs[Depth].doing = what /\ fs[Depth].word = word
         /\ fs[Depth].kind = Top.kind /\ fs[Depth].pOldOps = Top.pOldOps
         /\ fs[Depth].pOpCodes = Top.pOpCodes
<1> DEFINE g == [Top EXCEPT !.doing = what, !.word = word]
<1>1. /\ g \in Frames /\ g.doing = what /\ g.word = word /\ g.kind = Top.kind
      /\ g.pOldOps = Top.pOldOps /\ g.pOpCodes = Top.pOpCodes
  BY Facts DEF Frames, Doings, DoneBy
<1>2. Runs(what, word) = [frames EXCEPT ![Depth] = g]
  <2>1. frames \in Seq(Frames) /\ Depth \in DOMAIN frames /\ Top = frames[Depth]
    BY Facts, LenProperties DEF Depth
  <2> QED BY <2>1 DEF Runs
<1> HIDE DEF g
<1> QED BY <1>1, <1>2, TopReplaced

LEMMA SetOpCodesTyped ==
  ASSUME TypeOK, NEW v \in Vectors, NEW word \in DoneBy
  PROVE  LET fs == SetTop("pOpCodes", v)
             gs == [Idle EXCEPT ![Depth].pOpCodes = v]
             hs == SetTop("word", word) IN
         /\ fs \in Seq(Frames) /\ Len(fs) = Depth
         /\ \A i \in 1 .. Depth : i # Depth => fs[i] = frames[i]
         /\ fs[Depth].doing = Top.doing /\ fs[Depth].word = Top.word
         /\ fs[Depth].kind = Top.kind /\ fs[Depth].pOldOps = Top.pOldOps
         /\ fs[Depth].pOpCodes = v
         /\ gs \in Seq(Frames) /\ Len(gs) = Depth
         /\ \A i \in 1 .. Depth : i # Depth => gs[i] = frames[i]
         /\ gs[Depth].doing = "read" /\ gs[Depth].word = "none"
         /\ gs[Depth].kind = Top.kind /\ gs[Depth].pOldOps = Top.pOldOps
         /\ gs[Depth].pOpCodes = v
         /\ hs \in Seq(Frames) /\ Len(hs) = Depth
         /\ \A i \in 1 .. Depth : i # Depth => hs[i] = frames[i]
         /\ hs[Depth].doing = Top.doing /\ hs[Depth].word = word
         /\ hs[Depth].kind = Top.kind /\ hs[Depth].pOldOps = Top.pOldOps
         /\ hs[Depth].pOpCodes = Top.pOpCodes
<1> DEFINE f == [Top EXCEPT !.pOpCodes = v]
           g == [Top EXCEPT !.doing = "read", !.word = "none", !.pOpCodes = v]
           h == [Top EXCEPT !.word = word]
<1>1. /\ f \in Frames /\ f.doing = Top.doing /\ f.word = Top.word /\ f.kind = Top.kind
      /\ f.pOldOps = Top.pOldOps /\ f.pOpCodes = v
  BY Facts DEF Frames
<1>2. /\ g \in Frames /\ g.doing = "read" /\ g.word = "none" /\ g.kind = Top.kind
      /\ g.pOldOps = Top.pOldOps /\ g.pOpCodes = v
  BY Facts DEF Frames
<1>3. /\ h \in Frames /\ h.doing = Top.doing /\ h.word = word /\ h.kind = Top.kind
      /\ h.pOldOps = Top.pOldOps /\ h.pOpCodes = Top.pOpCodes
  BY Facts DEF Frames, DoneBy
<1>4. frames \in Seq(Frames) /\ Depth \in DOMAIN frames /\ Top = frames[Depth]
  BY Facts, LenProperties DEF Depth
<1>5. /\ SetTop("pOpCodes", v) = [frames EXCEPT ![Depth] = f]
      /\ [Idle EXCEPT ![Depth].pOpCodes = v] = [frames EXCEPT ![Depth] = g]
      /\ SetTop("word", word) = [frames EXCEPT ![Depth] = h]
  <2>1. SetTop("pOpCodes", v) = [frames EXCEPT ![Depth] = f]
    BY <1>4 DEF SetTop
  <2>2. [Idle EXCEPT ![Depth].pOpCodes = v] = [frames EXCEPT ![Depth] = g]
    BY <1>4 DEF Idle, Runs
  <2>3. SetTop("word", word) = [frames EXCEPT ![Depth] = h]
    BY <1>4 DEF SetTop
  <2> QED BY <2>1, <2>2, <2>3
<1> HIDE DEF f, g, h
<1>6. /\ [frames EXCEPT ![Depth] = f] \in Seq(Frames) /\ Len([frames EXCEPT ![Depth] = f]) = Depth
      /\ [frames EXCEPT ![Depth] = f][Depth] = f
      /\ \A i \in 1 .. Depth : i # Depth => [frames EXCEPT ![Depth] = f][i] = frames[i]
  BY <1>1, TopReplaced
<1>7. /\ [frames EXCEPT ![Depth] = g] \in Seq(Frames) /\ Len([frames EXCEPT ![Depth] = g]) = Depth
      /\ [frames EXCEPT ![Depth] = g][Depth] = g
      /\ \A i \in 1 .. Depth : i # Depth => [frames EXCEPT ![Depth] = g][i] = frames[i]
  BY <1>2, TopReplaced
<1>8. /\ [frames EXCEPT ![Depth] = h] \in Seq(Frames) /\ Len([frames EXCEPT ![Depth] = h]) = Depth
      /\ [frames EXCEPT ![Depth] = h][Depth] = h
      /\ \A i \in 1 .. Depth : i # Depth => [frames EXCEPT ![Depth] = h][i] = frames[i]
  BY <1>3, TopReplaced
<1> QED BY <1>1, <1>2, <1>3, <1>5, <1>6, <1>7, <1>8, ZenonT(30)

LEMMA FromTwo == \A d \in Nat : \A i \in 2 .. d : i \in 1 .. d
  OBVIOUS

(* The callers stay what they are under a step that changes the frame on   *)
(* top only.                                                               *)
LEMMA CallersKept ==
  ASSUME TypeInv, Len(frames') = Depth,
         \A i \in 1 .. Depth : i # Depth => frames'[i] = frames[i],
         frames'[Depth].kind = Top.kind, frames'[Depth].pOldOps = Top.pOldOps,
         GoesBack(frames'[Depth]) => pPreviousOps' # NoOps,
         pPreviousOps # NoOps => pPreviousOps' # NoOps,
         def'.phase = "brackets" => pPreviousOps' # NoOps
  PROVE  CallersInv' /\ Depth' = Depth
<1>1. TypeOK /\ CallersInv
  BY DEF TypeInv
<1>2. PICK d \in Nat : d = Depth /\ Top = frames[d] /\ Len(frames') = d
  BY <1>1, Facts
<1>3. Depth' = d
  BY <1>2 DEF Depth
<1>4. \A i \in 1 .. d : i # d => frames'[i] = frames[i]
  BY <1>2
<1>5. frames'[d].kind = frames[d].kind /\ frames'[d].pOldOps = frames[d].pOldOps
  BY <1>2
<1>6. \A i \in 1 .. d : frames'[i].kind = frames[i].kind /\ frames'[i].pOldOps = frames[i].pOldOps
  BY <1>4, <1>5
<1>7. /\ \A i \in 1 .. d : (frames[i].kind = "main") <=> (i = 1)
      /\ \A i \in 2 .. d : frames[i].pOldOps # NoOps
      /\ \A i \in 1 .. d :
           GoesBack(frames[i]) => pPreviousOps # NoOps
  BY <1>1, <1>2 DEF CallersInv
<1>8. /\ \A i \in 1 .. d : (frames'[i].kind = "main") <=> (i = 1)
      /\ \A i \in 2 .. d : frames'[i].pOldOps # NoOps
  <2>1. \A i \in 1 .. d : (frames'[i].kind = "main") <=> (i = 1)
    BY <1>6, <1>7
  <2>2. ASSUME NEW i \in 2 .. d
        PROVE  frames'[i].pOldOps # NoOps
    <3>1. i \in 1 .. d
      BY FromTwo
    <3>2. frames[i].pOldOps # NoOps
      BY <1>7, <2>2
    <3> QED BY <1>6, <3>1, <3>2
  <2> QED BY <2>1, <2>2
<1>9. ASSUME NEW i \in 1 .. d, GoesBack(frames'[i])
      PROVE  pPreviousOps' # NoOps
  <2>1. CASE i = d
    BY <1>2, <1>9, <2>1
  <2>2. CASE i # d
    BY <1>4, <1>7, <1>9, <2>2
  <2> QED BY <2>1, <2>2
<1>10. NoOps' = NoOps
  BY DEF NoOps
<1> QED BY <1>2, <1>3, <1>8, <1>9, <1>10 DEF CallersInv

LEMMA CallersSame ==
  ASSUME TypeInv, UNCHANGED frames, pPreviousOps # NoOps => pPreviousOps' # NoOps,
         def'.phase = "brackets" => pPreviousOps' # NoOps
  PROVE  CallersInv' /\ Depth' = Depth
  BY DEF TypeInv, CallersInv, Depth

LEMMA CommitTyped ==
  ASSUME TypeOK, NEW r \in CState, Commit(r)
  PROVE  /\ ops' \in [Vectors -> Seq(Instructions)] /\ wild' \in BOOLEAN
         /\ ctl' \in [Stacks -> Seq(Int)] /\ result' \in Codes /\ result' = r.e
         /\ ops' = [ops EXCEPT ![pCurrentOps] = r.code]
         /\ wild' = (wild \/ r.wild)
<1>1. r.code \in Seq(Instructions) /\ r.ctl \in [Stacks -> Seq(Int)] /\ r.wild \in BOOLEAN /\ r.e \in Codes
  BY StateFields
<1>2. ops' = [ops EXCEPT ![pCurrentOps] = r.code] /\ wild' = (wild \/ r.wild) /\ result' = r.e
  BY DEF Commit
<1>3. ctl' = r.ctl \/ ctl' = ClearControlStacks
  BY DEF Commit
<1>4. ops \in [Vectors -> Seq(Instructions)] /\ ctl \in [Stacks -> Seq(Int)]
  BY Facts
<1>5. ClearControlStacks \in [Stacks -> Seq(Int)]
  <2>1. <<>> \in Seq(Int)
    BY EmptySeq
  <2> QED BY <1>4, <2>1 DEF ClearControlStacks
<1>6. ops' \in [Vectors -> Seq(Instructions)]
  BY <1>1, <1>2, <1>4
<1> QED BY <1>1, <1>2, <1>3, <1>4, <1>5, <1>6

LEMMA NestedTyped ==
  ASSUME NEW open \in Seq(Structures), NEW t
  PROVE  Nested(t, open) \in Seq(Structures)
<1>1. \A x \in Structures : <<x>> \in Seq(Structures)
  <2> TAKE x \in Structures
  <2>1. <<>> \in Seq(Structures) /\ <<x>> = Append(<<>>, x)
    BY EmptySeq, Tuples
  <2> QED BY <2>1, AppendProperties
<1>2. Crossed \in Seq(Structures)
  <2>1. "crossed" \in Structures
    BY DEF Structures
  <2> QED BY <1>1, <2>1 DEF Crossed
<1>3. Puts(t) \in Seq(Structures)
  <2>1. <<"case", "of">> \in Seq(Structures)
    <3>1. "case" \in Structures /\ "of" \in Structures
      BY DEF Structures
    <3>2. <<"case">> \in Seq(Structures)
      BY <1>1, <3>1
    <3>3. <<"case", "of">> = Append(<<"case">>, "of")
      BY Tuples
    <3> DEFINE q == <<"case">>
    <3>4. Append(q, "of") \in Seq(Structures)
      <4> HIDE DEF q
      <4>1. q \in Seq(Structures)
        BY <3>2 DEF q
      <4> QED BY <3>1, <4>1, AppendProperties
    <3> QED BY <3>3, <3>4
  <2>2. <<>> \in Seq(Structures)
    BY EmptySeq
  <2>5. \A x \in {"if", "else", "begin", "while", "do", "case"} : x \in Structures
    BY DEF Structures
  <2>4. \A x \in {"if", "else", "begin", "while", "do", "case"} : <<x>> \in Seq(Structures)
    BY <1>1, <2>5
  <2>3. Puts(t) \in {<<"if">>, <<"else">>, <<"begin">>, <<"while">>, <<"do">>, <<"case">>, <<"case", "of">>, <<>>}
    BY Zenon DEF Puts
  <2> QED BY <2>1, <2>2, <2>3, <2>4
<1>4. open \o Puts(t) \in Seq(Structures)
  BY <1>3, ConcatProperties
<1>5. ASSUME open # <<>> PROVE Front(open) \o Puts(t) \in Seq(Structures)
  <2>1. Front(open) \in Seq(Structures)
    BY <1>5, FrontTyped
  <2> QED BY <1>3, <2>1, ConcatProperties
<1>6. Nested(t, open) \in {Crossed, open, open \o Puts(t)} \/ (open # <<>> /\ Nested(t, open) = Front(open) \o Puts(t))
  BY Zenon DEF Nested
<1> QED BY <1>2, <1>4, <1>5, <1>6

Definitions == [phase : {"none", "body", "brackets"}, stream : 0 .. MaxFrames,
                brackets : 0 .. MaxFrames]

(* The frame on top of the next state, when a step leaves the callers.     *)
TopChanges(fs) ==
  /\ fs \in Seq(Frames) /\ Len(fs) = Depth
  /\ \A i \in 1 .. Depth : i # Depth => fs[i] = frames[i]
  /\ fs[Depth].kind = Top.kind /\ fs[Depth].pOldOps = Top.pOldOps

(* A step that leaves the callers and moves pPreviousOps at most to a      *)
(* vector.                                                                 *)
LEMMA TypesFrom ==
  ASSUME TypeInv, TopChanges(frames'),
         GoesBack(frames'[Depth]) => pPreviousOps' # NoOps,
         def'.phase = "brackets" => pPreviousOps' # NoOps,
         pPreviousOps' = pPreviousOps \/ pPreviousOps' \in Vectors,
         pCurrentOps' \in Vectors, State' \in BOOLEAN, wild' \in BOOLEAN,
         ops' \in [Vectors -> Seq(Instructions)], compiled' \in Seq(Instructions),
         ctl' \in [Stacks -> Seq(Int)], result' \in Codes, pNewWord' \in {"none", ":", "CREATE"},
         def' \in Definitions, nest' \in Seq(Structures), written' \in Seq(Words)
  PROVE  TypeInv'
<1>1. TypeOK /\ CallersInv
  BY DEF TypeInv
<1>2. pPreviousOps # NoOps => pPreviousOps' # NoOps
  BY VectorsAre
<1>3. CallersInv' /\ Depth' = Depth
  BY <1>2, CallersKept DEF TopChanges
<1>4. Depth \in 1 .. MaxFrames /\ frames' \in Seq(Frames)
  BY <1>1, Facts DEF TopChanges
<1>5. pPreviousOps' \in Vectors \cup {NoOps}
  BY <1>1, Facts
<1>6. TypeOK'
  BY <1>3, <1>4, <1>5 DEF TypeOK, Definitions
<1> QED BY <1>3, <1>6 DEF TypeInv

LEMMA TopKept ==
  ASSUME TypeInv
  PROVE  /\ TopChanges(frames)
         /\ GoesBack(frames[Depth]) => pPreviousOps # NoOps
         /\ def.phase = "brackets" => pPreviousOps # NoOps
<1>1. TypeOK /\ CallersInv
  BY DEF TypeInv
<1>2. PICK d \in Nat \ {0} : d = Depth /\ Top = frames[d] /\ frames \in Seq(Frames) /\ Len(frames) = d
  <2>1. Depth \in 1 .. MaxFrames /\ Top = frames[Depth] /\ frames \in Seq(Frames)
    BY <1>1, Facts
  <2>2. Depth \in Nat \ {0}
    BY <2>1, CompilerAssumption
  <2> QED BY <2>1, <2>2 DEF Depth
<1>3. TopChanges(frames)
  BY <1>2 DEF TopChanges
<1>4. d \in 1 .. d
  BY <1>2
<1>5. GoesBack(frames[d]) => pPreviousOps # NoOps
  BY <1>1, <1>2, <1>4 DEF CallersInv
<1> QED BY <1>1, <1>2, <1>3, <1>5 DEF CallersInv

LEMMA RunsChanges ==
  ASSUME TypeInv, NEW what \in Doings, NEW word \in DoneBy
  PROVE  /\ TopChanges(Runs(what, word))
         /\ Runs(what, word)[Depth].doing = what /\ Runs(what, word)[Depth].word = word
         /\ Runs(what, word)[Depth].pOpCodes = Top.pOpCodes
  BY RunsTyped DEF TopChanges, TypeInv

(* What a step keeps that ForthCompiler() and the words of the program     *)
(* leave alone.                                                            *)
LEMMA HistoryTyped ==
  ASSUME TypeOK
  PROVE  /\ def \in Definitions /\ nest \in Seq(Structures) /\ written \in Seq(Words)
         /\ pNewWord \in {"none", ":", "CREATE"} /\ result \in Codes /\ compiled \in Seq(Instructions)
         /\ <<>> \in Seq(Structures) /\ <<>> \in Seq(Words) /\ <<>> \in Seq(Instructions)
         /\ NoDef \in Definitions /\ Crossed \in Seq(Structures)
         /\ ClearControlStacks \in [Stacks -> Seq(Int)]
<1>1. /\ def \in Definitions /\ nest \in Seq(Structures) /\ written \in Seq(Words)
      /\ pNewWord \in {"none", ":", "CREATE"} /\ result \in Codes /\ compiled \in Seq(Instructions)
  BY DEF TypeOK, Definitions
<1>2. <<>> \in Seq(Structures) /\ <<>> \in Seq(Words) /\ <<>> \in Seq(Instructions) /\ <<>> \in Seq(Int)
  BY EmptySeq
<1>3. NoDef \in Definitions
  <2>1. 0 \in 0 .. MaxFrames
    BY CompilerAssumption
  <2> QED BY <2>1 DEF NoDef, Definitions
<1>4. Crossed \in Seq(Structures)
  BY NestedTyped, <1>2, Zenon DEF Nested
<1>5. ClearControlStacks \in [Stacks -> Seq(Int)]
  BY <1>2 DEF TypeOK, ClearControlStacks
<1> QED BY <1>1, <1>2, <1>3, <1>4, <1>5

(* A word that writes code, and leaves STATE and the vectors.              *)
LEMMA WordTyped ==
  ASSUME TypeInv, NEW r \in CState, Commit(r), State' \in BOOLEAN,
         compiled' \in Seq(Instructions), UNCHANGED <<pCurrentOps, pPreviousOps, pNewWord>>,
         def' \in Definitions, def'.phase = "brackets" => def.phase = "brackets",
         nest' \in Seq(Structures), written' \in Seq(Words), TopChanges(frames'),
         GoesBack(frames'[Depth]) => pPreviousOps # NoOps
  PROVE  TypeInv'
<1>1. TypeOK /\ CallersInv
  BY DEF TypeInv
<1>2. def'.phase = "brackets" => pPreviousOps' # NoOps
  BY <1>1 DEF CallersInv
<1>3. pCurrentOps' \in Vectors /\ pNewWord' \in {"none", ":", "CREATE"}
  BY <1>1, Facts, HistoryTyped
<1>4. /\ ops' \in [Vectors -> Seq(Instructions)] /\ wild' \in BOOLEAN
      /\ ctl' \in [Stacks -> Seq(Int)] /\ result' \in Codes
  BY <1>1, CommitTyped
<1>5. pPreviousOps' = pPreviousOps
  OBVIOUS
<1>6. GoesBack(frames'[Depth]) => pPreviousOps' # NoOps
  BY <1>5
<1> QED BY <1>2, <1>3, <1>4, <1>5, <1>6, TypesFrom

LEMMA WroteTyped ==
  ASSUME TypeOK, NEW t \in Words, Wrote(t)
  PROVE  written' \in Seq(Words)
<1>1. written \in Seq(Words) /\ Append(written, t) \in Seq(Words)
  BY HistoryTyped, AppendProperties
<1> QED BY <1>1 DEF Wrote

LEMMA ControlTyped ==
  ASSUME TypeOK, NEW t \in Controls \cup {"LOOP"}
  PROVE  ControlWord(t, Current) \in CState
<1>1. Current \in CState /\ Current.e = "none" /\ State \in BOOLEAN
  BY Facts
<1> DEFINE s == Current
<1>2. s \in CState /\ s.e = "none"
  BY <1>1
<1> HIDE DEF s
<1>3. Writes(s, ControlWord(t, s), Meaning(t))
  BY <1>1, <1>2, ControlWrites
<1>4. ControlWord(t, s) \in CState
  BY <1>3 DEF Writes
<1> QED BY <1>4 DEF s

(* Making wild worse keeps the type of a compilation state.                *)
Wilder(r, b) == [r EXCEPT !.wild = @ \/ b]

LEMMA WilderTyped ==
  ASSUME NEW r \in CState, NEW b \in BOOLEAN
  PROVE  /\ Wilder(r, b) \in CState /\ Wilder(r, b).code = r.code
         /\ Wilder(r, b).ctl = r.ctl /\ Wilder(r, b).e = r.e
         /\ Wilder(r, b).wild = (r.wild \/ b)
  BY DEF CState, Wilder

LEMMA StructureWordTyped ==
  ASSUME TypeInv, NEW t \in Words, StructureWord(t), compiled' = <<>>
  PROVE  TypeInv'
<1>1. TypeOK /\ Current \in CState /\ State \in BOOLEAN
  BY Facts DEF TypeInv
<1>2. t \in Controls
  BY DEF StructureWord
<1>3. /\ def' \in Definitions /\ nest' \in Seq(Structures) /\ written' \in Seq(Words)
      /\ compiled' \in Seq(Instructions) /\ def' = def
      /\ UNCHANGED <<State, pCurrentOps, pPreviousOps, frames, pNewWord>>
  BY <1>1, HistoryTyped, NestedTyped, WroteTyped DEF StructureWord
<1>4. PICK r \in CState : Commit(r)
  <2> DEFINE u == ControlWord(t, Current)
             v == Fails(Current, "no end of string")
             b == t = "ABORT\"" /\ pNewWord = "none"
  <2>1. Commit([u EXCEPT !.wild = @ \/ b]) \/ Commit(v)
    BY DEF StructureWord
  <2>2. u \in CState
    BY <1>1, <1>2, ControlTyped
  <2>3. v \in CState
    <3>1. "no end of string" \in Codes
      BY DEF Codes
    <3> QED BY <1>1, <3>1, FailsTyped
  <2>4. b \in BOOLEAN
    OBVIOUS
  <2> HIDE DEF u, v, b
  <2>5. Wilder(u, b) \in CState
    BY <2>2, <2>4, WilderTyped
  <2>6. Commit(Wilder(u, b)) \/ Commit(v)
    BY <2>1 DEF Wilder
  <2> QED BY <2>3, <2>5, <2>6
<1>5. /\ TopChanges(frames')
      /\ GoesBack(frames'[Depth]) => pPreviousOps # NoOps
  BY <1>3, TopKept
<1>6. State' \in BOOLEAN
  BY <1>1, <1>3
<1> QED BY <1>3, <1>4, <1>5, <1>6, WordTyped

LEMMA LiteralTyped ==
  ASSUME TypeInv, NEW t \in Words, Literal(t), compiled' = <<>>
  PROVE  TypeInv'
<1>1. TypeOK /\ Current \in CState /\ Current.e = "none" /\ State \in BOOLEAN
  BY Facts DEF TypeInv
<1>2. t \in Literals
  BY DEF Literal
<1>3. /\ def' \in Definitions /\ nest' \in Seq(Structures) /\ written' \in Seq(Words)
      /\ compiled' \in Seq(Instructions) /\ def' = def
      /\ UNCHANGED <<State, pCurrentOps, pPreviousOps, frames, pNewWord>>
  BY <1>1, HistoryTyped, WroteTyped DEF Literal
<1>4. PICK r \in CState : Commit(r)
  <2> DEFINE c == Current
  <2>1. c \in CState /\ c.e = "none"
    BY <1>1
  <2>2. \/ Commit(LiteralWord(t, c)) \/ Commit(Fails(c, LiteralError(t)))
        \/ Commit(Fails(LiteralWord(t, c), "vm"))
    BY DEF Literal
  <2> HIDE DEF c
  <2>3. Writes(c, LiteralWord(t, c), LiteralCode(t))
    BY <1>2, <2>1, LiteralWrites
  <2>4. LiteralWord(t, c) \in CState
    BY <2>3 DEF Writes
  <2>5. LiteralError(t) \in Codes
    BY DEF LiteralError, Codes
  <2>6. Fails(c, LiteralError(t)) \in CState
    BY <2>1, <2>5, FailsTyped
  <2>7. Fails(LiteralWord(t, c), "vm") \in CState
    <3>1. "vm" \in Codes
      BY DEF Codes
    <3> QED BY <2>4, <3>1, FailsTyped
  <2> QED BY <2>2, <2>4, <2>6, <2>7
<1>5. /\ TopChanges(frames')
      /\ GoesBack(frames'[Depth]) => pPreviousOps # NoOps
  BY <1>3, TopKept
<1>6. State' \in BOOLEAN
  BY <1>1, <1>3
<1> QED BY <1>3, <1>4, <1>5, <1>6, WordTyped

(* What LOOP, UNLOOP and the words of the program write.                   *)
CompiledCode(t) ==
  CASE t = "LOOP" -> ControlWord(t, Current)
    [] t = "UNLOOP" -> IF IsEmpty(Current, "do")
                       THEN Fails(Op(Current, "UNLOOP"), "loop without do")
                       ELSE Op(Current, "UNLOOP")
    [] t \in Compileds -> Op(Current, Opcode(t))

LEMMA CompiledCodeWrites ==
  ASSUME TypeOK, NEW t \in {"LOOP", "UNLOOP"} \cup Compileds
  PROVE  Writes(Current, CompiledCode(t), Meaning(t))
<1> DEFINE c == Current
<1>1. c \in CState /\ c.e = "none" /\ State \in BOOLEAN
  BY Facts
<1>2. CASE t = "LOOP"
  <2>1. CompiledCode(t) = ControlWord(t, c)
    BY <1>2 DEF CompiledCode, Compileds
  <2> HIDE DEF c
  <2>2. Writes(c, ControlWord(t, c), Meaning(t))
    BY <1>1, <1>2, ControlWrites
  <2> QED BY <2>1, <2>2 DEF c
<1>3. CASE t = "UNLOOP"
  <2>1. Meaning(t) = <<"UNLOOP">>
    BY <1>3 DEF Meaning, Compileds
  <2>2. CompiledCode(t) = IF IsEmpty(c, "do") THEN Fails(Op(c, "UNLOOP"), "loop without do")
                          ELSE Op(c, "UNLOOP")
    BY <1>3 DEF CompiledCode, Compileds
  <2>3. "UNLOOP" \in Opcodes /\ "loop without do" \in StructureErrors
    BY DEF Opcodes, StructureErrors
  <2>4. Append(<<>>, "UNLOOP") = <<"UNLOOP">>
    BY Tuples
  <2> HIDE DEF c
  <2> DEFINE u == Op(c, "UNLOOP")
             l == <<"UNLOOP">>
  <2>5. Adds(c, u, Append(<<>>, "UNLOOP")) /\ u.e = "none"
    BY <1>1, <2>3, AddsNothing, AddsOp
  <2>6. Adds(c, u, l) /\ u.e = "none"
    BY <2>4, <2>5
  <2> HIDE DEF u, l
  <2>7. Writes(c, u, l)
    BY <1>1, <2>6, WritesAdded
  <2>8. u \in CState
    BY <2>7 DEF Writes
  <2>9. Writes(c, Fails(u, "loop without do"), l)
    BY <1>1, <2>3, <2>8, FailsWrites
  <2> QED BY <2>1, <2>2, <2>7, <2>9 DEF c, u, l
<1>4. CASE t \in Compileds
  <2>1. CompiledCode(t) = Op(c, Opcode(t))
    BY <1>4 DEF CompiledCode, Compileds
  <2> HIDE DEF c
  <2>2. Writes(c, Op(c, Opcode(t)), Meaning(t))
    BY <1>1, <1>4, CompiledWrites
  <2> QED BY <2>1, <2>2 DEF c
<1> QED BY <1>2, <1>3, <1>4

LEMMA CompiledWordTyped ==
  ASSUME TypeInv, NEW t \in Words, CompiledWord(t), compiled' = <<>>
  PROVE  TypeInv'
<1>1. TypeOK /\ State \in BOOLEAN
  BY Facts DEF TypeInv
<1>2. t \in {"LOOP", "UNLOOP"} \cup Compileds
  BY DEF CompiledWord
<1>3. /\ def' \in Definitions /\ nest' \in Seq(Structures) /\ written' \in Seq(Words)
      /\ compiled' \in Seq(Instructions) /\ def' = def
      /\ UNCHANGED <<State, pCurrentOps, pPreviousOps, frames, pNewWord>>
  BY <1>1, HistoryTyped, NestedTyped, WroteTyped DEF CompiledWord
<1>4. Commit(CompiledCode(t))
  BY DEF CompiledWord, CompiledCode
<1>5. CompiledCode(t) \in CState
  BY <1>1, <1>2, CompiledCodeWrites DEF Writes
<1>6. /\ TopChanges(frames')
      /\ GoesBack(frames'[Depth]) => pPreviousOps # NoOps
  BY <1>3, TopKept
<1>7. State' \in BOOLEAN
  BY <1>1, <1>3
<1> QED BY <1>3, <1>4, <1>5, <1>6, <1>7, WordTyped

LEMMA CodeTyped ==
  ASSUME NEW s \in CState, s.e = "none", NEW op \in Opcodes
  PROVE  Op(s, op) \in CState /\ Op(s, op).e = "none" /\ Op(s, op).wild = s.wild
         /\ Op(s, op).ctl = s.ctl
  BY OpTyped

LEMMA NondeferredWordTyped ==
  ASSUME TypeInv, NEW t \in Words, NondeferredWord(t), compiled' = <<>>
  PROVE  TypeInv'
<1>1. TypeOK /\ Current \in CState /\ Current.e = "none" /\ State \in BOOLEAN
  BY Facts DEF TypeInv
<1>2. t \in Nondeferred /\ t \in Opcodes /\ "RET" \in Opcodes
  BY DEF NondeferredWord, Opcodes
<1>3. /\ def' \in Definitions /\ nest' \in Seq(Structures) /\ written' \in Seq(Words)
      /\ compiled' \in Seq(Instructions) /\ def' = def /\ frames' = Runs("up to", t)
      /\ UNCHANGED <<State, pCurrentOps, pPreviousOps, pNewWord>>
  BY <1>1, HistoryTyped DEF NondeferredWord, history
<1>4. PICK r \in CState : Commit(r)
  <2> DEFINE c == Current
             u == Op(c, t)
  <2>1. c \in CState /\ c.e = "none"
    BY <1>1
  <2>2. Commit(Op(u, "RET"))
    BY DEF NondeferredWord
  <2> HIDE DEF c
  <2>3. u \in CState /\ u.e = "none"
    BY <1>2, <2>1, CodeTyped
  <2> HIDE DEF u
  <2>4. Op(u, "RET") \in CState
    BY <1>2, <2>3, CodeTyped
  <2> QED BY <2>2, <2>4
<1>5. "up to" \in Doings /\ t \in DoneBy
  BY <1>2 DEF Doings, DoneBy
<1>6. TopChanges(frames') /\ frames'[Depth].doing = "up to" /\ frames'[Depth].word = t
  BY <1>3, <1>5, RunsChanges
<1>7. t = "COMPILE," => pPreviousOps # NoOps
  BY DEF NondeferredWord, TypeInv, CallersInv
<1>8. State' \in BOOLEAN
  BY <1>1, <1>3
<1> QED BY GoBack, <1>3, <1>4, <1>6, <1>7, <1>8, WordTyped

(* The words that end the line or the brackets.                            *)
LEMMA RetTyped ==
  ASSUME TypeInv, NEW what \in Doings, what = "bracket" => def.phase = "brackets",
         Commit(Op(Current, "RET")), frames' = Runs(what, "none"),
         UNCHANGED <<State, pCurrentOps, pPreviousOps, pNewWord, history>>, compiled' = <<>>
  PROVE  TypeInv'
<1>1. TypeOK /\ Current \in CState /\ Current.e = "none" /\ State \in BOOLEAN
  BY Facts DEF TypeInv
<1>2. /\ def' \in Definitions /\ nest' \in Seq(Structures) /\ written' \in Seq(Words)
      /\ compiled' \in Seq(Instructions) /\ def' = def
  BY <1>1, HistoryTyped DEF history
<1>3. Op(Current, "RET") \in CState
  <2>1. "RET" \in Opcodes
    BY DEF Opcodes
  <2> DEFINE c == Current
  <2>2. c \in CState /\ c.e = "none"
    BY <1>1
  <2> HIDE DEF c
  <2>3. Op(c, "RET") \in CState
    BY <2>1, <2>2, CodeTyped
  <2> QED BY <2>3 DEF c
<1>4. "none" \in DoneBy
  BY DEF DoneBy
<1>5. TopChanges(frames') /\ frames'[Depth].doing = what /\ frames'[Depth].word = "none"
  BY <1>4, RunsChanges
<1>6. what = "bracket" => pPreviousOps # NoOps
  BY DEF TypeInv, CallersInv
<1>7. State' \in BOOLEAN
  BY <1>1
<1> QED BY GoBack, <1>2, <1>3, <1>5, <1>6, <1>7, WordTyped

(* A step that writes no code.                                             *)
LEMMA QuietTyped ==
  ASSUME TypeInv, compiled' = <<>>, result' \in Codes,
         UNCHANGED <<State, ops, pCurrentOps, pPreviousOps, ctl, pNewWord, wild, history>>,
         TopChanges(frames'),
         GoesBack(frames'[Depth]) => pPreviousOps # NoOps
  PROVE  TypeInv'
<1>1. TypeOK
  BY DEF TypeInv
<1>2. /\ State \in BOOLEAN /\ wild \in BOOLEAN /\ ops \in [Vectors -> Seq(Instructions)]
      /\ pCurrentOps \in Vectors /\ ctl \in [Stacks -> Seq(Int)]
  BY <1>1, Facts
<1>3. /\ def' \in Definitions /\ nest' \in Seq(Structures) /\ written' \in Seq(Words)
      /\ compiled' \in Seq(Instructions) /\ pNewWord' \in {"none", ":", "CREATE"}
  BY <1>1, HistoryTyped DEF history
<1>4. def'.phase = "brackets" => pPreviousOps' # NoOps
  BY TopKept DEF history
<1>5. pPreviousOps' = pPreviousOps
  OBVIOUS
<1>6. GoesBack(frames'[Depth]) => pPreviousOps' # NoOps
  BY <1>5
<1> QED BY <1>2, <1>3, <1>4, <1>5, <1>6, TypesFrom

LEMMA UnknownWordTyped ==
  ASSUME TypeInv, UnknownWord, compiled' = <<>>
  PROVE  TypeInv'
<1>1. "unknown word" \in Codes
  BY DEF Codes
<1>2. /\ UNCHANGED <<State, ops, pCurrentOps, pPreviousOps, ctl, pNewWord, wild, history>>
      /\ frames' = frames /\ result' = "unknown word"
  BY DEF UnknownWord
<1> QED BY <1>1, <1>2, TopKept, QuietTyped

LEMMA EndOfStreamTyped ==
  ASSUME TypeInv, EndOfStream, compiled' = <<>>
  PROVE  TypeInv'
<1>1. "end of stream" \in Codes /\ "ok" \in Codes
  BY DEF Codes
<1>2. /\ UNCHANGED <<State, ops, pCurrentOps, pPreviousOps, ctl, pNewWord, wild, history>>
      /\ frames' = frames /\ result' \in {"ok", "end of stream"}
  BY DEF EndOfStream
<1> QED BY <1>1, <1>2, TopKept, QuietTyped

LEMMA MacroTyped ==
  ASSUME TypeInv, Macro, compiled' = <<>>
  PROVE  TypeInv'
<1>1. /\ UNCHANGED <<State, ops, pCurrentOps, pPreviousOps, ctl, pNewWord, wild, history>>
      /\ frames' = Runs("current", "none") /\ result' = result
  BY DEF Macro
<1>2. "current" \in Doings /\ "none" \in DoneBy /\ result \in Codes
  BY HistoryTyped DEF Doings, DoneBy, TypeInv
<1>3. TopChanges(frames') /\ frames'[Depth].doing = "current" /\ frames'[Depth].word = "none"
  BY <1>1, <1>2, RunsChanges
<1> QED BY GoBack, <1>1, <1>2, <1>3, QuietTyped

LEMMA IdleChanges ==
  ASSUME TypeInv
  PROVE  /\ TopChanges(Idle) /\ Idle[Depth].doing = "read" /\ Idle[Depth].word = "none"
         /\ Idle[Depth].pOpCodes = Top.pOpCodes
<1>1. "read" \in Doings /\ "none" \in DoneBy
  BY DEF Doings, DoneBy
<1> QED BY <1>1, RunsChanges DEF Idle

LEMMA SetOpCodesChanges ==
  ASSUME TypeInv, NEW v \in Vectors
  PROVE  /\ TopChanges(SetTop("pOpCodes", v))
         /\ SetTop("pOpCodes", v)[Depth].doing = Top.doing
         /\ SetTop("pOpCodes", v)[Depth].word = Top.word
         /\ SetTop("pOpCodes", v)[Depth].pOpCodes = v
         /\ TopChanges([Idle EXCEPT ![Depth].pOpCodes = v])
         /\ [Idle EXCEPT ![Depth].pOpCodes = v][Depth].doing = "read"
         /\ [Idle EXCEPT ![Depth].pOpCodes = v][Depth].word = "none"
         /\ [Idle EXCEPT ![Depth].pOpCodes = v][Depth].pOpCodes = v
<1>1. "none" \in DoneBy
  BY DEF DoneBy
<1> QED BY <1>1, SetOpCodesTyped DEF TypeInv, TopChanges

LEMMA MacroDoneTyped ==
  ASSUME TypeInv, MacroDone, compiled' = <<>>
  PROVE  TypeInv'
<1>1. /\ UNCHANGED <<State, ops, pCurrentOps, pPreviousOps, ctl, pNewWord, wild, history>>
      /\ frames' = [Idle EXCEPT ![Depth].pOpCodes = pCurrentOps] /\ result' = result
  BY DEF MacroDone
<1>2. pCurrentOps \in Vectors /\ result \in Codes
  BY Facts, HistoryTyped DEF TypeInv
<1>3. TopChanges(frames') /\ frames'[Depth].doing = "read" /\ frames'[Depth].word = "none"
  BY <1>1, <1>2, SetOpCodesChanges
<1> QED BY GoBack, <1>1, <1>2, <1>3, QuietTyped

LEMMA OpsTyped ==
  ASSUME TypeOK, NEW v \in Vectors, NEW code \in Seq(Instructions)
  PROVE  [ops EXCEPT ![v] = code] \in [Vectors -> Seq(Instructions)]
  BY Facts

LEMMA LineDoneTyped ==
  ASSUME TypeInv, LineDone, compiled' = <<>>
  PROVE  TypeInv'
<1>1. TypeOK
  BY DEF TypeInv
<1>2. /\ State \in BOOLEAN /\ wild \in BOOLEAN /\ Top.pOpCodes \in Vectors
      /\ pCurrentOps \in Vectors /\ ctl \in [Stacks -> Seq(Int)]
  BY <1>1, Facts, FrameFields
<1>3. /\ UNCHANGED <<State, pCurrentOps, pPreviousOps, ctl, result, pNewWord, wild, history>>
      /\ ops' = [ops EXCEPT ![Top.pOpCodes] = <<>>] /\ frames' = Idle
  BY DEF LineDone
<1>4. /\ def' \in Definitions /\ nest' \in Seq(Structures) /\ written' \in Seq(Words)
      /\ compiled' \in Seq(Instructions) /\ pNewWord' \in {"none", ":", "CREATE"}
      /\ result' \in Codes /\ <<>> \in Seq(Instructions)
  BY <1>1, <1>3, HistoryTyped DEF history
<1>5. ops' \in [Vectors -> Seq(Instructions)]
  BY <1>1, <1>2, <1>3, <1>4, OpsTyped
<1>6. def'.phase = "brackets" => pPreviousOps' # NoOps
  BY <1>3, TopKept DEF history
<1>7. TopChanges(frames') /\ frames'[Depth].doing = "read" /\ frames'[Depth].word = "none"
  BY <1>3, IdleChanges
<1> QED BY GoBack, <1>2, <1>3, <1>4, <1>5, <1>6, <1>7, TypesFrom

(* The code that COMPILE, writes, to the code that [ put aside.            *)
CompileCommaOps ==
  [ops EXCEPT ![pPreviousOps] = Emit(Emit(@, "IVAL", 0), "EXECUTE", 0), ![Top.pOpCodes] = <<>>]

LEMMA ZeroArg == 0 \in Args
  BY DEF Args

LEMMA CompileCommaTyped ==
  ASSUME TypeInv, Top.word = "COMPILE,"
  PROVE  /\ CompileCommaOps \in [Vectors -> Seq(Instructions)]
         /\ pPreviousOps \in Vectors /\ "COMPILE," \in Words
         /\ \A v \in Vectors : v # Top.pOpCodes /\ v # pPreviousOps => CompileCommaOps[v] = ops[v]
         /\ CompileCommaOps[Top.pOpCodes] = <<>>
         /\ Top.pOpCodes # pPreviousOps =>
              CompileCommaOps[pPreviousOps] = Emit(Emit(ops[pPreviousOps], "IVAL", 0), "EXECUTE", 0)
<1>1. TypeOK
  BY DEF TypeInv
<1>2. Top.pOpCodes \in Vectors /\ pPreviousOps \in Vectors \cup {NoOps} /\ Top = frames[Depth]
      /\ ops \in [Vectors -> Seq(Instructions)]
  BY <1>1, Facts, FrameFields
<1>3. pPreviousOps \in Vectors
  BY GoBack, <1>2, TopKept
<1>4. "COMPILE," \in Words
  <2>1. Top.word \in (Nondeferred \cap Words) \cup {"none", "included"}
    BY <1>1, Facts, FrameFields
  <2> QED BY <2>1
<1>5. "IVAL" \in Opcodes /\ "EXECUTE" \in Opcodes /\ <<>> \in Seq(Instructions)
  BY EmptySeq DEF Opcodes
<1>6. 0 \in Args
  BY ZeroArg
<1> DEFINE p == ops[pPreviousOps]
           q == Emit(p, "IVAL", 0)
           r == Emit(q, "EXECUTE", 0)
<1>7. p \in Seq(Instructions)
  BY <1>2, <1>3
<1>8. q \in Seq(Instructions)
  <2> HIDE DEF p
  <2> QED BY <1>5, <1>6, <1>7, EmitTyped
<1>9. r \in Seq(Instructions)
  <2> HIDE DEF q
  <2> QED BY <1>5, <1>6, <1>8, EmitTyped
<1>10. CompileCommaOps = [ops EXCEPT ![pPreviousOps] = r, ![Top.pOpCodes] = <<>>]
  BY DEF CompileCommaOps
<1> HIDE DEF r
<1>11. PICK c : c = CompileCommaOps
  OBVIOUS
<1>12. /\ c \in [Vectors -> Seq(Instructions)]
       /\ \A v \in Vectors : v # Top.pOpCodes /\ v # pPreviousOps => c[v] = ops[v]
       /\ c[Top.pOpCodes] = <<>>
       /\ Top.pOpCodes # pPreviousOps => c[pPreviousOps] = r
  BY <1>2, <1>3, <1>5, <1>9, <1>10, <1>11
<1>13. r = Emit(Emit(ops[pPreviousOps], "IVAL", 0), "EXECUTE", 0)
  BY DEF r
<1> QED BY <1>3, <1>4, <1>11, <1>12, <1>13

LEMMA UpToDoneTyped ==
  ASSUME TypeInv, UpToDone, compiled' = <<>>
  PROVE  TypeInv'
<1>1. TypeOK
  BY DEF TypeInv
<1>2. /\ State \in BOOLEAN /\ wild \in BOOLEAN /\ Top.pOpCodes \in Vectors /\ Depth \in 1 .. MaxFrames
      /\ pCurrentOps \in Vectors /\ pPreviousOps \in Vectors \cup {NoOps}
      /\ ctl \in [Stacks -> Seq(Int)]
  BY <1>1, Facts, FrameFields
<1>3. /\ UNCHANGED <<result, wild>> /\ frames' = Idle /\ pPreviousOps' = pPreviousOps
      /\ ops' = IF Top.word = "COMPILE," THEN CompileCommaOps ELSE [ops EXCEPT ![Top.pOpCodes] = <<>>]
  BY DEF UpToDone, CompileCommaOps, CPP_colon, CPP_create, CompileComma
<1>4. TopChanges(frames') /\ frames'[Depth].doing = "read" /\ frames'[Depth].word = "none"
  BY <1>3, IdleChanges
<1>5. /\ def \in Definitions /\ nest \in Seq(Structures) /\ written \in Seq(Words)
      /\ pNewWord \in {"none", ":", "CREATE"} /\ result \in Codes /\ compiled' \in Seq(Instructions)
      /\ <<>> \in Seq(Instructions)
      /\ def.phase = "brackets" => pPreviousOps # NoOps
  BY <1>1, HistoryTyped, TopKept
<1>6. ops' \in [Vectors -> Seq(Instructions)]
  BY <1>1, <1>2, <1>3, <1>5, OpsTyped, CompileCommaTyped
<1>7. CASE Top.word = ":" /\ CPP_colon
  <2>1. ctl' \in [Stacks -> Seq(Int)]
    <3>1. <<>> \in Seq(Int)
      BY EmptySeq
    <3> QED BY <1>2, <1>7, <3>1 DEF CPP_colon
  <2>2. def' \in Definitions /\ (def'.phase = "brackets" => pPreviousOps' # NoOps)
    <3>1. [phase |-> "body", stream |-> Depth, brackets |-> 0] \in Definitions
      <4>1. Depth \in 0 .. MaxFrames /\ 0 \in 0 .. MaxFrames
        BY <1>2, CompilerAssumption
      <4> QED BY <4>1 DEF Definitions
    <3> QED BY <1>3, <1>5, <1>7, <3>1 DEF CPP_colon
  <2>3. /\ State' \in BOOLEAN /\ pNewWord' \in {"none", ":", "CREATE"} /\ pCurrentOps' \in Vectors
        /\ nest' \in Seq(Structures) /\ written' \in Seq(Words)
        /\ wild' \in BOOLEAN /\ result' \in Codes
    BY <1>2, <1>3, <1>5, <1>7 DEF CPP_colon
  <2> QED BY GoBack, <1>3, <1>4, <1>5, <1>6, <2>1, <2>2, <2>3, TypesFrom
<1>8. CASE Top.word = "CREATE" /\ CPP_create
  <2>1. /\ State' \in BOOLEAN /\ pNewWord' \in {"none", ":", "CREATE"} /\ pCurrentOps' \in Vectors
        /\ nest' \in Seq(Structures) /\ written' \in Seq(Words) /\ def' \in Definitions
        /\ wild' \in BOOLEAN /\ result' \in Codes /\ ctl' \in [Stacks -> Seq(Int)]
        /\ def'.phase = "brackets" => pPreviousOps' # NoOps
    BY <1>2, <1>3, <1>5, <1>8 DEF CPP_create, history
  <2> QED BY GoBack, <1>3, <1>4, <1>5, <1>6, <2>1, TypesFrom
<1>9. CASE Top.word = "COMPILE," /\ CompileComma
  <2>1. written' \in Seq(Words)
    BY <1>5, <1>9, CompileCommaTyped, AppendProperties DEF CompileComma
  <2>2. /\ State' \in BOOLEAN /\ pNewWord' \in {"none", ":", "CREATE"} /\ pCurrentOps' \in Vectors
        /\ nest' \in Seq(Structures) /\ def' \in Definitions
        /\ wild' \in BOOLEAN /\ result' \in Codes /\ ctl' \in [Stacks -> Seq(Int)]
        /\ def'.phase = "brackets" => pPreviousOps' # NoOps
    BY <1>2, <1>3, <1>5, <1>9, VectorsAre DEF CompileComma
  <2> QED BY GoBack, <1>3, <1>4, <1>5, <1>6, <2>1, <2>2, TypesFrom
<1>10. CASE Top.word = "included"
           /\ UNCHANGED <<State, pCurrentOps, pPreviousOps, pNewWord, ctl, history>>
  <2>1. /\ State' \in BOOLEAN /\ pNewWord' \in {"none", ":", "CREATE"} /\ pCurrentOps' \in Vectors
        /\ nest' \in Seq(Structures) /\ written' \in Seq(Words) /\ def' \in Definitions
        /\ wild' \in BOOLEAN /\ result' \in Codes /\ ctl' \in [Stacks -> Seq(Int)]
        /\ def'.phase = "brackets" => pPreviousOps' # NoOps
    BY <1>2, <1>3, <1>5, <1>10 DEF history
  <2> QED BY GoBack, <1>3, <1>4, <1>5, <1>6, <2>1, TypesFrom
<1> QED BY <1>7, <1>8, <1>9, <1>10 DEF UpToDone

LEMMA LbracketTyped ==
  ASSUME TypeInv, CPP_lbracket, compiled' = <<>>
  PROVE  TypeInv'
<1>1. TypeOK
  BY DEF TypeInv
<1>2. /\ wild \in BOOLEAN /\ Depth \in 1 .. MaxFrames /\ pCurrentOps \in Vectors /\ Temp \in Vectors
      /\ ctl \in [Stacks -> Seq(Int)]
  BY <1>1, Facts, VectorsAre
<1>3. /\ State' = FALSE /\ pPreviousOps' = pCurrentOps /\ pCurrentOps' = Temp
      /\ ops' = [ops EXCEPT ![Temp] = <<>>] /\ frames' = SetTop("pOpCodes", Temp)
      /\ def' = [def EXCEPT !.phase = "brackets", !.brackets = Depth]
      /\ UNCHANGED <<ctl, result, pNewWord, wild, nest, written>> /\ Doing("read")
  BY DEF CPP_lbracket, SaveOps, NextWord, Reading
<1>4. /\ nest \in Seq(Structures) /\ written \in Seq(Words) /\ def \in Definitions
      /\ compiled' \in Seq(Instructions) /\ pNewWord \in {"none", ":", "CREATE"}
      /\ result \in Codes /\ <<>> \in Seq(Instructions)
  BY <1>1, HistoryTyped
<1>5. ops' \in [Vectors -> Seq(Instructions)]
  BY <1>1, <1>2, <1>3, <1>4, OpsTyped
<1>6. TopChanges(frames')
  BY <1>2, <1>3, SetOpCodesChanges
<1>7. pPreviousOps' # NoOps /\ pPreviousOps' \in Vectors
  BY <1>2, <1>3, VectorsAre
<1>8. def' \in Definitions
  <2>1. Depth \in 0 .. MaxFrames
    BY <1>2, CompilerAssumption
  <2>2. def.stream \in 0 .. MaxFrames
    BY <1>4 DEF Definitions
  <2> QED BY <1>3, <1>4, <2>1, <2>2 DEF Definitions
<1>9. State' \in BOOLEAN
  BY <1>3
<1> QED BY <1>2, <1>3, <1>4, <1>5, <1>6, <1>7, <1>8, <1>9, TypesFrom

LEMMA BracketDoneTyped ==
  ASSUME TypeInv, BracketDone, compiled' = <<>>
  PROVE  TypeInv'
<1>1. TypeOK
  BY DEF TypeInv
<1>2. /\ wild \in BOOLEAN /\ pCurrentOps \in Vectors /\ ctl \in [Stacks -> Seq(Int)]
      /\ Top = frames[Depth] /\ pPreviousOps \in Vectors \cup {NoOps}
  BY <1>1, Facts
<1>3. /\ State' = TRUE /\ pPreviousOps' = pPreviousOps /\ pCurrentOps' = pPreviousOps
      /\ ops' = [ops EXCEPT ![pCurrentOps] = <<>>]
      /\ frames' = [Idle EXCEPT ![Depth].pOpCodes = pPreviousOps]
      /\ def' = [def EXCEPT !.phase = "body", !.brackets = 0]
      /\ UNCHANGED <<ctl, result, pNewWord, wild, nest, written>> /\ Top.doing = "bracket"
  BY DEF BracketDone, EndBracket, Doing
<1>4. /\ nest \in Seq(Structures) /\ written \in Seq(Words) /\ def \in Definitions
      /\ compiled' \in Seq(Instructions) /\ pNewWord \in {"none", ":", "CREATE"}
      /\ result \in Codes /\ <<>> \in Seq(Instructions)
  BY <1>1, HistoryTyped
<1>5. pPreviousOps \in Vectors
  BY GoBack, <1>2, <1>3, TopKept
<1>6. ops' \in [Vectors -> Seq(Instructions)]
  BY <1>1, <1>2, <1>3, <1>4, OpsTyped
<1>7. TopChanges(frames') /\ frames'[Depth].doing = "read" /\ frames'[Depth].word = "none"
  BY <1>3, <1>5, SetOpCodesChanges
<1>8. def' \in Definitions /\ def'.phase = "body"
  <2>1. 0 \in 0 .. MaxFrames
    BY CompilerAssumption
  <2> QED BY <1>3, <1>4, <2>1 DEF Definitions
<1>9. State' \in BOOLEAN
  BY <1>3
<1> QED BY GoBack, <1>2, <1>3, <1>4, <1>5, <1>6, <1>7, <1>8, <1>9, TypesFrom

LEMMA RunFailsTyped ==
  ASSUME TypeInv, NEW e \in Codes, RunFails(e), compiled' = <<>>
  PROVE  TypeInv'
<1>1. TypeOK
  BY DEF TypeInv
<1>2. /\ wild \in BOOLEAN /\ pCurrentOps \in Vectors /\ Top.pOpCodes \in Vectors /\ State \in BOOLEAN
      /\ ops \in [Vectors -> Seq(Instructions)]
      /\ Top = frames[Depth] /\ pPreviousOps \in Vectors \cup {NoOps}
  BY <1>1, Facts, FrameFields
<1>3. /\ ctl' = ClearControlStacks /\ result' = e /\ frames' = Idle
      /\ UNCHANGED <<wild, history>>
  BY DEF RunFails
<1>4. /\ def' \in Definitions /\ def' = def /\ nest' \in Seq(Structures) /\ written' \in Seq(Words)
      /\ compiled' \in Seq(Instructions) /\ pNewWord \in {"none", ":", "CREATE"}
      /\ <<>> \in Seq(Instructions) /\ ctl' \in [Stacks -> Seq(Int)]
  BY <1>1, <1>3, HistoryTyped DEF history
<1>5. TopChanges(frames') /\ frames'[Depth].doing = "read" /\ frames'[Depth].word = "none"
  BY <1>3, IdleChanges
<1>6. def.phase = "brackets" => pPreviousOps # NoOps
  BY TopKept
<1>7. /\ ops' \in [Vectors -> Seq(Instructions)] /\ State' \in BOOLEAN /\ pCurrentOps' \in Vectors
      /\ pPreviousOps' = pPreviousOps /\ pNewWord' = pNewWord
  <2>1. CASE Doing("bracket")
    <3>1. pPreviousOps \in Vectors
      BY GoBack, <1>2, <2>1, TopKept DEF Doing
    <3>2. EndBracket
      BY <2>1 DEF RunFails
    <3> QED BY <1>1, <1>2, <1>4, <3>1, <3>2, OpsTyped DEF EndBracket
  <2>2. CASE ~Doing("bracket")
    <3>1. /\ ops' = IF Doing("current") THEN ops ELSE [ops EXCEPT ![Top.pOpCodes] = <<>>]
          /\ UNCHANGED <<State, pCurrentOps, pPreviousOps, pNewWord>>
      BY <2>2 DEF RunFails
    <3> QED BY <1>1, <1>2, <1>4, <3>1, OpsTyped
  <2> QED BY <2>1, <2>2
<1>8. wild' \in BOOLEAN /\ result' \in Codes /\ pNewWord' \in {"none", ":", "CREATE"}
      /\ (def'.phase = "brackets" => pPreviousOps' # NoOps)
  BY <1>2, <1>3, <1>4, <1>6, <1>7
<1> QED BY GoBack, <1>4, <1>5, <1>7, <1>8, TypesFrom

(* A nested ForthCompiler() is called.                                     *)
LEMMA NestTyped ==
  ASSUME TypeInv, NEW kind \in {"evaluate", "included"}, NEW v \in Vectors, NEW fs,
         Nest(kind, v, fs), TopChanges(fs),
         GoesBack(fs[Depth]) => pPreviousOps # NoOps,
         compiled' = <<>>
  PROVE  /\ TypeInv' /\ Depth' = Depth + 1 /\ Depth + 1 <= MaxFrames
         /\ frames'[Depth + 1] = Frame(kind, v, pCurrentOps)
         /\ \A i \in 1 .. Depth : frames'[i] = fs[i]
<1>1. TypeOK /\ CallersInv
  BY DEF TypeInv
<1>2. PICK d \in Nat \ {0} : d = Depth /\ Top = frames[d] /\ d <= MaxFrames /\ MaxFrames \in Nat
  <2>1. Depth \in 1 .. MaxFrames /\ Top = frames[Depth]
    BY <1>1, Facts
  <2> QED BY <2>1, CompilerAssumption
<1>3. /\ State \in BOOLEAN /\ wild \in BOOLEAN /\ pCurrentOps \in Vectors
      /\ ops \in [Vectors -> Seq(Instructions)] /\ ctl \in [Stacks -> Seq(Int)]
      /\ pPreviousOps \in Vectors \cup {NoOps}
  BY <1>1, Facts
<1> DEFINE g == Frame(kind, v, pCurrentOps)
<1>4. /\ g \in Frames /\ g.kind = kind /\ g.pOldOps = pCurrentOps
      /\ g.doing = "read" /\ g.word = "none"
  BY <1>3 DEF Frame, Frames
<1>5. /\ Depth < MaxFrames /\ frames' = Append(fs, g) /\ pCurrentOps' = v
      /\ UNCHANGED <<State, ops, pPreviousOps, ctl, result, pNewWord, wild, history>>
  BY DEF Nest
<1>6. fs \in Seq(Frames) /\ Len(fs) = d
  BY <1>2 DEF TopChanges
<1> HIDE DEF g
<1>7. /\ frames' \in Seq(Frames) /\ Len(frames') = d + 1
      /\ \A i \in 1 .. d : frames'[i] = fs[i]
      /\ frames'[d + 1] = g
  BY <1>4, <1>5, <1>6, AppendProperties
<1>8. Depth' = d + 1 /\ d + 1 <= MaxFrames
  BY <1>2, <1>5, <1>7 DEF Depth
<1>9. \A i \in 1 .. d : fs[i].kind = frames[i].kind /\ fs[i].pOldOps = frames[i].pOldOps
  BY <1>2 DEF TopChanges
<1>10. /\ \A i \in 1 .. d : (frames[i].kind = "main") <=> (i = 1)
       /\ \A i \in 2 .. d : frames[i].pOldOps # NoOps
       /\ \A i \in 1 .. d :
            GoesBack(frames[i]) => pPreviousOps # NoOps
       /\ def.phase = "brackets" => pPreviousOps # NoOps
  BY <1>1, <1>2 DEF CallersInv
<1>11. \A i \in 1 .. d + 1 : i \in 1 .. d \/ i = d + 1
  BY <1>2
<1>12. \A i \in 1 .. d + 1 : (frames'[i].kind = "main") <=> (i = 1)
  <2>1. d + 1 # 1 /\ g.kind # "main"
    BY <1>2, <1>4
  <2> QED BY <1>7, <1>9, <1>10, <1>11, <2>1
<1>13. \A i \in 2 .. d + 1 : frames'[i].pOldOps # NoOps
  <2>1. \A i \in 2 .. d + 1 : (i \in 2 .. d /\ i \in 1 .. d) \/ i = d + 1
    BY <1>2
  <2>2. g.pOldOps # NoOps
    BY <1>3, <1>4, VectorsAre
  <2> QED BY <1>7, <1>9, <1>10, <2>1, <2>2
<1>14. ASSUME NEW i \in 1 .. d + 1, GoesBack(frames'[i])
       PROVE  pPreviousOps # NoOps
  <2>1. CASE i = d + 1
    BY GoBack, <1>4, <1>7, <1>14, <2>1
  <2>2. CASE i \in 1 .. d /\ i = d
    BY <1>2, <1>7, <1>14, <2>2
  <2>3. CASE i \in 1 .. d /\ i # d
    <3>1. fs[i] = frames[i]
      BY <1>2, <2>3 DEF TopChanges
    <3> QED BY <1>7, <1>10, <1>14, <2>3, <3>1
  <2> QED BY <1>11, <2>1, <2>2, <2>3
<1>15. pPreviousOps' = pPreviousOps /\ def' = def /\ NoOps' = NoOps
  BY <1>5 DEF history, NoOps
<1>16. CallersInv'
  BY <1>8, <1>10, <1>12, <1>13, <1>14, <1>15 DEF CallersInv
<1>17. TypeOK'
  <2>1. /\ def' \in Definitions /\ nest' \in Seq(Structures) /\ written' \in Seq(Words)
        /\ compiled' \in Seq(Instructions) /\ pNewWord' \in {"none", ":", "CREATE"} /\ result' \in Codes
    BY <1>1, <1>5, HistoryTyped DEF history
  <2>2. Depth' \in 1 .. MaxFrames
    BY <1>2, <1>8
  <2>3. /\ State' \in BOOLEAN /\ wild' \in BOOLEAN /\ pCurrentOps' \in Vectors
        /\ ops' \in [Vectors -> Seq(Instructions)] /\ ctl' \in [Stacks -> Seq(Int)]
        /\ pPreviousOps' \in Vectors \cup {NoOps}
    BY <1>3, <1>5
  <2> QED BY <1>7, <2>1, <2>2, <2>3 DEF TypeOK, Definitions
<1> QED BY <1>2, <1>7, <1>8, <1>16, <1>17 DEF TypeInv, g

LEMMA OwnOpsTyped ==
  ASSUME TypeOK, Depth < MaxFrames
  PROVE  OwnOps \in Vectors /\ OwnOps = Depth + 1
<1>1. Depth \in 1 .. MaxFrames /\ MaxFrames \in Nat
  BY Facts, CompilerAssumption
<1>2. Depth + 1 \in 0 .. MaxFrames
  BY <1>1
<1> QED BY <1>2, VectorsAre DEF OwnOps

LEMMA EvaluateTyped ==
  ASSUME TypeInv, CPP_evaluate, compiled' = <<>>
  PROVE  TypeInv'
<1>1. Nest("evaluate", EvaluateOps, frames)
  BY DEF CPP_evaluate
<1>2. EvaluateOps \in Vectors
  BY <1>1, Facts, OwnOpsTyped DEF EvaluateOps, TypeInv, Nest
<1>3. TopChanges(frames) /\ (GoesBack(frames[Depth]) => pPreviousOps # NoOps)
  BY TopKept
<1> QED BY <1>1, <1>2, <1>3, NestTyped

LEMMA SetWordChanges ==
  ASSUME TypeInv
  PROVE  /\ TopChanges(SetTop("word", "included"))
         /\ SetTop("word", "included")[Depth].doing = Top.doing
         /\ SetTop("word", "included")[Depth].word = "included"
         /\ SetTop("word", "included")[Depth].pOpCodes = Top.pOpCodes
<1>1. "included" \in DoneBy /\ Temp \in Vectors /\ TypeOK
  BY VectorsAre DEF DoneBy, TypeInv
<1> QED BY <1>1, SetOpCodesTyped DEF TopChanges

LEMMA IncludeTyped ==
  ASSUME TypeInv, CPP_include, compiled' = <<>>
  PROVE  TypeInv'
<1> DEFINE fs == SetTop("word", "included")
<1>1. Nest("included", OwnOps, fs) /\ Top.doing = "up to"
  BY DEF CPP_include, Doing
<1>2. OwnOps \in Vectors
  BY <1>1, OwnOpsTyped DEF TypeInv, Nest
<1>3. TopChanges(fs) /\ fs[Depth].doing = "up to" /\ fs[Depth].word = "included"
  BY <1>1, SetWordChanges
<1> HIDE DEF fs
<1>4. GoesBack(fs[Depth]) => pPreviousOps # NoOps
  <2>1. fs[Depth].doing # "bracket"
    BY <1>3
  <2>2. fs[Depth].word # "COMPILE,"
    BY <1>3, Zenon
  <2> QED BY <2>1, <2>2, GoBack
<1> QED BY <1>1, <1>2, <1>3, <1>4, NestTyped

(* The callers that are left when ForthCompiler() returns.                 *)
LEMMA FrontChanges ==
  ASSUME TypeInv, Top.kind # "main"
  PROVE  /\ Front(frames) \in Seq(Frames) /\ Len(Front(frames)) = Depth - 1
         /\ \A i \in 1 .. Depth - 1 : Front(frames)[i] = frames[i]
         /\ Depth \in 2 .. MaxFrames /\ Top.pOldOps \in Vectors
<1>1. TypeOK /\ CallersInv
  BY DEF TypeInv
<1>2. PICK d \in Nat \ {0} : d = Depth /\ Top = frames[d] /\ d <= MaxFrames /\ MaxFrames \in Nat
                             /\ frames \in Seq(Frames) /\ Len(frames) = d /\ Top \in Frames
  <2>1. Depth \in 1 .. MaxFrames /\ Top = frames[Depth] /\ frames \in Seq(Frames) /\ Top \in Frames
    BY <1>1, Facts
  <2> QED BY <2>1, CompilerAssumption DEF Depth
<1>3. \A i \in 1 .. d : (frames[i].kind = "main") <=> (i = 1)
  BY <1>1, <1>2 DEF CallersInv
<1>4. d # 1
  BY <1>2, <1>3
<1>5. d \in 2 .. MaxFrames /\ frames # <<>>
  BY <1>2, <1>4, EmptySeq
<1>6. Top.pOldOps \in Vectors
  <2>1. \A i \in 2 .. d : frames[i].pOldOps # NoOps
    BY <1>1, <1>2 DEF CallersInv
  <2>2. d \in 2 .. d
    BY <1>5
  <2>3. Top.pOldOps \in Vectors \cup {NoOps}
    BY <1>2, FrameFields
  <2> QED BY <1>2, <2>1, <2>2, <2>3
<1> QED BY <1>2, <1>5, <1>6, FrontTyped

LEMMA EndCompileTyped ==
  ASSUME TypeInv, EndCompile, compiled' = <<>>
  PROVE  TypeInv'
<1>1. TypeOK /\ CallersInv
  BY DEF TypeInv
<1>2. PICK d \in Nat \ {0} : d = Depth /\ Top = frames[d] /\ d <= MaxFrames /\ MaxFrames \in Nat
                             /\ frames \in Seq(Frames) /\ Len(frames) = d
  <2>1. Depth \in 1 .. MaxFrames /\ Top = frames[Depth] /\ frames \in Seq(Frames)
    BY <1>1, Facts
  <2> QED BY <2>1, CompilerAssumption DEF Depth
<1>3. /\ State \in BOOLEAN /\ wild \in BOOLEAN
      /\ ops \in [Vectors -> Seq(Instructions)] /\ ctl \in [Stacks -> Seq(Int)]
      /\ pPreviousOps \in Vectors \cup {NoOps}
  BY <1>1, Facts
<1>4. /\ def \in Definitions /\ nest \in Seq(Structures) /\ written \in Seq(Words)
      /\ pNewWord \in {"none", ":", "CREATE"} /\ result \in Codes /\ compiled' \in Seq(Instructions)
      /\ <<>> \in Seq(Structures) /\ <<>> \in Seq(Words) /\ <<>> \in Seq(Instructions)
      /\ NoDef \in Definitions /\ ClearControlStacks \in [Stacks -> Seq(Int)]
  BY <1>1, HistoryTyped
<1>5. /\ State' \in BOOLEAN /\ wild' \in BOOLEAN /\ ctl' \in [Stacks -> Seq(Int)]
      /\ pPreviousOps' = pPreviousOps /\ pNewWord' = pNewWord
  BY <1>3, <1>4 DEF EndCompile, StateAfter, Midway
<1>6. /\ def' \in Definitions /\ nest' \in Seq(Structures) /\ written' \in Seq(Words)
      /\ def' = def \/ def' = NoDef
  BY <1>4 DEF EndCompile, history
<1>7. def'.phase = "brackets" => pPreviousOps # NoOps
  BY <1>6, TopKept DEF NoDef
<1>8. CASE Top.kind = "main"
  <2> DEFINE g == Frame("main", Main, NoOps)
  <2>1. /\ frames' = <<g>> /\ pCurrentOps' = Main /\ result' = "none"
        /\ ops' = IF Midway THEN ops ELSE [ops EXCEPT ![Main] = <<>>]
    BY <1>8 DEF EndCompile
  <2>2. g \in Frames /\ g.kind = "main" /\ g.doing = "read" /\ g.word = "none"
    BY VectorsAre DEF Frame, Frames
  <2> HIDE DEF g
  <2>3. frames' \in Seq(Frames) /\ Len(frames') = 1 /\ frames'[1] = g
    <3>1. <<>> \in Seq(Frames) /\ Len(<<>>) = 0 /\ Append(<<>>, g) = <<g>>
      BY EmptySeq, Tuples
    <3>2. Append(<<>>, g) \in Seq(Frames) /\ Len(Append(<<>>, g)) = 1 /\ Append(<<>>, g)[1] = g
      BY <2>2, <3>1, AppendProperties
    <3> QED BY <2>1, <3>1, <3>2
  <2>4. ops' \in [Vectors -> Seq(Instructions)] /\ pCurrentOps' \in Vectors /\ result' \in Codes
    <3>1. Main \in Vectors /\ "none" \in Codes
      BY VectorsAre DEF Codes
    <3> QED BY <1>1, <1>3, <1>4, <2>1, <3>1, OpsTyped
  <2>5. Depth' = 1 /\ 1 \in 1 .. MaxFrames
    BY <1>2, <2>3 DEF Depth
  <2>6. CallersInv'
    <3>1. ~GoesBack(g)
      BY <2>2, GoBack
    <3>2. \A i \in 1 .. 1 : (frames'[i].kind = "main") <=> (i = 1)
      BY <2>2, <2>3
    <3>3. \A i \in 1 .. 1 : ~GoesBack(frames'[i])
      BY <2>3, <3>1
    <3>4. ~ \E i \in 2 .. 1 : TRUE
      OBVIOUS
    <3> QED BY <1>5, <1>7, <2>5, <3>2, <3>3, <3>4 DEF CallersInv, NoOps
  <2>7. TypeOK'
    BY <1>3, <1>4, <1>5, <1>6, <2>3, <2>4, <2>5 DEF TypeOK, Definitions
  <2> QED BY <2>6, <2>7 DEF TypeInv
<1>9. CASE Top.kind # "main"
  <2>1. /\ frames' = Front(frames) /\ pCurrentOps' = Top.pOldOps
        /\ result' \in {"none", result} /\ ops' = [ops EXCEPT ![d] = <<>>]
    BY <1>2, <1>9 DEF EndCompile, OldOps
  <2>2. /\ frames' \in Seq(Frames) /\ Len(frames') = d - 1 /\ pCurrentOps' \in Vectors
        /\ \A i \in 1 .. d - 1 : frames'[i] = frames[i]
        /\ d \in 2 .. MaxFrames
    BY <1>2, <1>9, <2>1, FrontChanges
  <2>3. Depth' = d - 1 /\ d - 1 \in 1 .. MaxFrames
    BY <1>2, <2>2 DEF Depth
  <2>4. ops' \in [Vectors -> Seq(Instructions)] /\ result' \in Codes
    <3>1. d \in Vectors /\ "none" \in Codes
      <4>1. d \in 0 .. MaxFrames
        BY <1>2
      <4> QED BY <4>1, VectorsAre DEF Codes
    <3> QED BY <1>1, <1>4, <2>1, <3>1, OpsTyped
  <2>5. CallersInv'
    <3>1. /\ \A i \in 1 .. d : (frames[i].kind = "main") <=> (i = 1)
          /\ \A i \in 2 .. d : frames[i].pOldOps # NoOps
          /\ \A i \in 1 .. d : GoesBack(frames[i]) => pPreviousOps # NoOps
      BY <1>1, <1>2 DEF CallersInv
    <3>2. \A i \in 1 .. d - 1 : i \in 1 .. d
      BY <1>2
    <3>3. \A i \in 2 .. d - 1 : i \in 2 .. d /\ i \in 1 .. d - 1
      BY <1>2
    <3>4. /\ \A i \in 1 .. d - 1 : (frames'[i].kind = "main") <=> (i = 1)
          /\ \A i \in 2 .. d - 1 : frames'[i].pOldOps # NoOps
          /\ \A i \in 1 .. d - 1 : GoesBack(frames'[i]) => pPreviousOps # NoOps
      BY <2>2, <3>1, <3>2, <3>3
    <3> QED BY <1>5, <1>7, <2>3, <3>4 DEF CallersInv, NoOps
  <2>6. TypeOK'
    BY <1>3, <1>4, <1>5, <1>6, <2>2, <2>3, <2>4 DEF TypeOK, Definitions
  <2> QED BY <2>5, <2>6 DEF TypeInv
<1> QED BY <1>8, <1>9

(* The code at ; with its RET, and with the addresses of its RECURSEs.     *)
RetState == Op(Current, "RET")
Closed   == OpsCopyInt(SetStack(RetState, "recurse", <<>>), Range(ctl["recurse"]), 0)
Emptied(r) == [r EXCEPT !.code = <<>>]

LEMMA ClosedTyped ==
  ASSUME TypeOK
  PROVE  /\ RetState \in CState /\ RetState.e = "none" /\ RetState.wild = FALSE /\ RetState.ctl = ctl
         /\ Adds(Current, RetState, <<"RET">>) /\ Adds(Current, Closed, <<"RET">>)
         /\ Closed \in CState /\ Closed.e = "none" /\ Closed.ctl = [ctl EXCEPT !["recurse"] = <<>>]
         /\ Closed.code \in Seq(Instructions)
         /\ Emptied(Closed) \in CState /\ Emptied(Closed).e = "none"
         /\ Emptied(Closed).code = <<>> /\ Emptied(Closed).ctl = Closed.ctl
<1>1. "RET" \in Opcodes /\ <<>> \in Seq(Int) /\ "recurse" \in Stacks /\ <<>> \in Seq(Instructions)
  BY EmptySeq DEF Opcodes, Stacks
<1> DEFINE c == Current
           l == <<"RET">>
<1>2. c \in CState /\ c.e = "none" /\ c.wild = FALSE /\ c.ctl = ctl
  BY Facts
<1>3. Append(<<>>, "RET") = l
  BY Tuples
<1>4. RetState = Op(c, "RET")
  BY DEF RetState
<1> HIDE DEF c, l
<1>5. Op(c, "RET") \in CState /\ Op(c, "RET").e = "none" /\ Op(c, "RET").wild = c.wild
      /\ Op(c, "RET").ctl = c.ctl
  BY <1>1, <1>2, CodeTyped
<1>6. Adds(c, Op(c, "RET"), Append(<<>>, "RET"))
  BY <1>1, <1>2, AddsNothing, AddsOp
<1> DEFINE s == RetState
           u == SetStack(s, "recurse", <<>>)
           o == Range(ctl["recurse"])
<1>7. s \in CState /\ s.e = "none" /\ s.wild = FALSE /\ s.ctl = ctl /\ Adds(c, s, l)
  BY <1>2, <1>3, <1>4, <1>5, <1>6
<1> HIDE DEF s
<1>8. Adds(c, u, l) /\ u.e = "none" /\ u.ctl = [ctl EXCEPT !["recurse"] = <<>>]
  <2>1. Adds(c, SetStack(s, "recurse", <<>>), l) /\ SetStack(s, "recurse", <<>>).e = s.e
    BY <1>1, <1>2, <1>7, AddsCtl
  <2>2. SetStack(s, "recurse", <<>>).ctl = [s.ctl EXCEPT !["recurse"] = <<>>]
    BY <1>1, <1>7, SetStackTyped
  <2> QED BY <1>7, <2>1, <2>2
<1>9. Closed = OpsCopyInt(u, o, 0)
  BY DEF Closed, s
<1> HIDE DEF u, o
<1>10. Adds(c, OpsCopyInt(u, o, 0), l) /\ OpsCopyInt(u, o, 0).e = u.e /\ OpsCopyInt(u, o, 0).ctl = u.ctl
  <2>1. 0 \in Int
    OBVIOUS
  <2> QED BY <1>2, <1>8, <2>1, AddsCopy
<1>11. Adds(c, Closed, l) /\ Closed.e = "none" /\ Closed.ctl = [ctl EXCEPT !["recurse"] = <<>>]
  BY <1>8, <1>9, <1>10
<1>12. Closed \in CState
  BY <1>11 DEF Adds
<1> DEFINE r == Closed
<1>13. r \in CState
  BY <1>12
<1>14. r.code \in Seq(Instructions)
  BY <1>12, StateFields
<1>15. Emptied(Closed) \in CState /\ Emptied(Closed).e = Closed.e
       /\ Emptied(Closed).code = <<>> /\ Emptied(Closed).ctl = Closed.ctl
  <2> HIDE DEF r
  <2>1. Emptied(r) \in CState /\ Emptied(r).e = r.e /\ Emptied(r).code = <<>> /\ Emptied(r).ctl = r.ctl
    BY <1>1, <1>13 DEF CState, Emptied
  <2> QED BY <2>1 DEF r
<1> QED BY <1>7, <1>11, <1>12, <1>14, <1>15 DEF s, c, l

(* What ; does, in the names above.                                        *)
LEMMA SemicolonCases ==
  ASSUME CPP_semicolon
  PROVE  /\ NextWord(";") /\ UNCHANGED <<pCurrentOps, pPreviousOps, frames, pNewWord>>
         /\ \/ /\ State /\ Incomplete(RetState) = "none" /\ Commit(Emptied(Closed))
               /\ compiled' = Closed.code /\ State' = FALSE
               /\ \/ def.phase = "body" /\ def' = NoDef /\ nest' = <<>> /\ written' = <<>>
                  \/ def.phase # "body" /\ UNCHANGED history
            \/ /\ State /\ Incomplete(RetState) # "none"
               /\ Commit(Fails(RetState, Incomplete(RetState)))
               /\ nest' = IF nest = <<>> THEN nest ELSE Crossed
               /\ compiled' = <<>> /\ UNCHANGED <<State, def, written>>
            \/ /\ ~State /\ Commit(Fails(RetState, "end of definition with no beginning"))
               /\ compiled' = <<>> /\ UNCHANGED <<State, history>>
<1>1. Emptied(Closed) = [OpsCopyInt([RetState EXCEPT !.ctl["recurse"] = <<>>], Range(ctl["recurse"]), 0)
                           EXCEPT !.code = <<>>]
  BY DEF Emptied, Closed, SetStack
<1>2. Closed = OpsCopyInt([RetState EXCEPT !.ctl["recurse"] = <<>>], Range(ctl["recurse"]), 0)
  BY DEF Closed, SetStack
<1> QED BY <1>1, <1>2, Zenon DEF CPP_semicolon, RetState

LEMMA IncompleteIs ==
  \A s : Incomplete(s) \in StructureErrors \cup {"none"}
  BY DEF Incomplete, StructureErrors

LEMMA SemicolonTyped ==
  ASSUME TypeInv, CPP_semicolon
  PROVE  TypeInv'
<1>1. TypeOK /\ State \in BOOLEAN
  BY Facts DEF TypeInv
<1>2. /\ RetState \in CState /\ Emptied(Closed) \in CState /\ Closed.code \in Seq(Instructions)
  BY <1>1, ClosedTyped
<1>3. /\ UNCHANGED <<pCurrentOps, pPreviousOps, frames, pNewWord>>
  BY SemicolonCases
<1>4. TopChanges(frames') /\ (GoesBack(frames'[Depth]) => pPreviousOps # NoOps)
  BY <1>3, TopKept
<1>5. /\ def \in Definitions /\ nest \in Seq(Structures) /\ written \in Seq(Words)
      /\ <<>> \in Seq(Structures) /\ <<>> \in Seq(Words) /\ <<>> \in Seq(Instructions)
      /\ NoDef \in Definitions /\ Crossed \in Seq(Structures) /\ NoDef.phase = "none"
  BY <1>1, HistoryTyped DEF NoDef
<1>6. CASE /\ State /\ Incomplete(RetState) = "none" /\ Commit(Emptied(Closed))
           /\ compiled' = Closed.code /\ State' = FALSE
           /\ \/ def.phase = "body" /\ def' = NoDef /\ nest' = <<>> /\ written' = <<>>
              \/ def.phase # "body" /\ UNCHANGED history
  <2>1. /\ def' \in Definitions /\ (def'.phase = "brackets" => def.phase = "brackets")
        /\ nest' \in Seq(Structures) /\ written' \in Seq(Words)
    BY <1>5, <1>6 DEF history
  <2>2. State' \in BOOLEAN /\ compiled' \in Seq(Instructions) /\ Commit(Emptied(Closed))
    BY <1>2, <1>6
  <2> QED BY <1>2, <1>3, <1>4, <2>1, <2>2, WordTyped
<1>7. CASE /\ State /\ Incomplete(RetState) # "none"
           /\ Commit(Fails(RetState, Incomplete(RetState)))
           /\ nest' = IF nest = <<>> THEN nest ELSE Crossed
           /\ compiled' = <<>> /\ UNCHANGED <<State, def, written>>
  <2>1. Fails(RetState, Incomplete(RetState)) \in CState
    <3>1. Incomplete(RetState) \in Codes
      BY IncompleteIs, StructureCodes
    <3> QED BY <1>2, <3>1, FailsTyped
  <2>2. /\ def' \in Definitions /\ (def'.phase = "brackets" => def.phase = "brackets")
        /\ nest' \in Seq(Structures) /\ written' \in Seq(Words) /\ State' \in BOOLEAN
        /\ compiled' \in Seq(Instructions)
    BY <1>1, <1>5, <1>7
  <2>3. Commit(Fails(RetState, Incomplete(RetState)))
    BY <1>7
  <2> QED BY <1>3, <1>4, <2>1, <2>2, <2>3, WordTyped
<1>8. CASE /\ ~State /\ Commit(Fails(RetState, "end of definition with no beginning"))
           /\ compiled' = <<>> /\ UNCHANGED <<State, history>>
  <2>1. Fails(RetState, "end of definition with no beginning") \in CState
    <3>1. "end of definition with no beginning" \in Codes
      BY DEF Codes
    <3> QED BY <1>2, <3>1, FailsTyped
  <2>2. /\ def' \in Definitions /\ (def'.phase = "brackets" => def.phase = "brackets")
        /\ nest' \in Seq(Structures) /\ written' \in Seq(Words) /\ State' \in BOOLEAN
        /\ compiled' \in Seq(Instructions)
    BY <1>1, <1>5, <1>8 DEF history
  <2>3. Commit(Fails(RetState, "end of definition with no beginning"))
    BY <1>8
  <2> QED BY <1>3, <1>4, <2>1, <2>2, <2>3, WordTyped
<1> QED BY <1>6, <1>7, <1>8, SemicolonCases

LEMMA RbracketTyped ==
  ASSUME TypeInv, CPP_rbracket, compiled' = <<>>
  PROVE  TypeInv'
<1>1. "bracket" \in Doings
  BY DEF Doings
<1> QED BY <1>1, RetTyped DEF CPP_rbracket

LEMMA EndOfLineTyped ==
  ASSUME TypeInv, EndOfLine, compiled' = <<>>
  PROVE  TypeInv'
<1>1. "line" \in Doings
  BY DEF Doings
<1> QED BY <1>1, RetTyped DEF EndOfLine


LEMMA TypeStep ==
  ASSUME TypeInv, [Next]_vars
  PROVE  TypeInv'
<1>1. CASE CPP_semicolon
  BY <1>1, SemicolonTyped
<1>2. CASE compiled' = <<>> /\ \E t \in Words : StructureWord(t) \/ Literal(t) \/ CompiledWord(t) \/ NondeferredWord(t)
  BY <1>2, StructureWordTyped, LiteralTyped, CompiledWordTyped, NondeferredWordTyped
<1>3. CASE compiled' = <<>> /\ (UnknownWord \/ CPP_lbracket \/ CPP_rbracket \/ Macro)
  BY <1>3, UnknownWordTyped, LbracketTyped, RbracketTyped, MacroTyped
<1>4. CASE compiled' = <<>> /\ (UpToDone \/ BracketDone \/ MacroDone \/ LineDone)
  BY <1>4, UpToDoneTyped, BracketDoneTyped, MacroDoneTyped, LineDoneTyped
<1>5. CASE compiled' = <<>> /\ \E e \in Codes : RunFails(e)
  BY <1>5, RunFailsTyped
<1>6. CASE compiled' = <<>> /\ (EndOfLine \/ EndOfStream \/ EndCompile \/ CPP_evaluate \/ CPP_include)
  BY <1>6, EndOfLineTyped, EndOfStreamTyped, EndCompileTyped, EvaluateTyped, IncludeTyped
<1>7. CASE UNCHANGED vars
  BY <1>7 DEF vars, TypeInv, TypeOK, CallersInv, Depth
<1> QED BY <1>1, <1>2, <1>3, <1>4, <1>5, <1>6, <1>7 DEF Next

LEMMA TypeInit ==
  ASSUME Init
  PROVE  TypeInv
<1> DEFINE g == Frame("main", Main, NoOps)
<1>1. g \in Frames /\ g.kind = "main" /\ g.doing = "read" /\ g.word = "none"
  BY VectorsAre DEF Frame, Frames
<1>2. frames = <<g>>
  BY DEF Init
<1> HIDE DEF g
<1>3. frames \in Seq(Frames) /\ Len(frames) = 1 /\ frames[1] = g
  <2>1. <<>> \in Seq(Frames) /\ Len(<<>>) = 0 /\ Append(<<>>, g) = <<g>>
    BY EmptySeq, Tuples
  <2>2. Append(<<>>, g) \in Seq(Frames) /\ Len(Append(<<>>, g)) = 1 /\ Append(<<>>, g)[1] = g
    BY <1>1, <2>1, AppendProperties
  <2> QED BY <1>2, <2>1, <2>2
<1>4. Depth = 1 /\ 1 \in 1 .. MaxFrames
  BY <1>3, CompilerAssumption DEF Depth
<1>5. /\ <<>> \in Seq(Structures) /\ <<>> \in Seq(Words) /\ <<>> \in Seq(Instructions)
      /\ <<>> \in Seq(Int)
  BY EmptySeq
<1>6. CallersInv
  <2>1. ~GoesBack(g)
    BY <1>1, GoBack
  <2>2. \A i \in 1 .. 1 : (frames[i].kind = "main") <=> (i = 1)
    BY <1>1, <1>3
  <2>3. \A i \in 1 .. 1 : ~GoesBack(frames[i])
    BY <1>3, <2>1
  <2>4. ~ \E i \in 2 .. 1 : TRUE
    OBVIOUS
  <2>5. def.phase # "brackets"
    BY DEF Init, NoDef
  <2> QED BY <1>4, <2>2, <2>3, <2>4, <2>5 DEF CallersInv
<1>7. /\ NoDef \in Definitions /\ 0 \in 0 .. MaxFrames
  BY CompilerAssumption DEF NoDef, Definitions
<1>8. TypeOK
  BY <1>3, <1>4, <1>5, <1>7, VectorsAre DEF Init, TypeOK, Definitions, Codes
<1> QED BY <1>6, <1>8 DEF TypeInv

LEMMA TypeInvCorrect == Spec => []TypeInv
<1>1. Init => TypeInv
  BY TypeInit
<1>2. TypeInv /\ [Next]_vars => TypeInv'
  BY TypeStep
<1> QED BY <1>1, <1>2, PTL DEF Spec

(* The variables keep their types, whatever rules the source breaks: the   *)
(* opcode vectors hold whole instructions of known opcodes at natural      *)
(* offsets, the stacks integers, and there is always a ForthCompiler().    *)
THEOREM TypeCorrect == Spec => []TypeOK
<1>1. TypeInv => TypeOK
  BY DEF TypeInv
<1> QED BY <1>1, TypeInvCorrect, PTL

-----------------------------------------------------------------------------
(* Sources that keep the three rules about streams: definitions and        *)
(* brackets end in the stream they began in, and no definition begins in   *)
(* brackets.  Any other rule may be broken, but for what the code of a     *)
(* definition is: a ['] whose name is unknown compiles a cell nobody asked *)
(* for.                                                                    *)

StreamRules == {"no definitions in brackets", "brackets end in their stream",
                "definitions end in their stream"}
KeepsStreams == StreamRules \cap Misuses = {}
FindsNames == "['] finds its name" \notin Misuses

LEMMA RulesKept ==
  ASSUME KeepsStreams, NEW condition
  PROVE  /\ Allowed("no definitions in brackets", condition) => condition
         /\ Allowed("brackets end in their stream", condition) => condition
         /\ Allowed("definitions end in their stream", condition) => condition
  BY DEF KeepsStreams, StreamRules, Allowed

-----------------------------------------------------------------------------
(* The inductive invariant: no error is under way, or                      *)

Fine      == result \in {"none", "ok", "end of stream"}
Open      == def.phase # "none"
Bracketed == def.phase = "brackets"

(* The vector of the definition in the source.                             *)
DefOps == IF Bracketed THEN pPreviousOps ELSE pCurrentOps

(* The frame reads and writes where the words write, its callers run, and  *)
(* each frame goes back to the vector of its caller.                       *)
StreamsOk ==
  /\ pCurrentOps = Top.pOpCodes
  /\ \A i \in 1 .. Depth : i # Depth => frames[i].doing # "read"
  /\ \A i \in 1 .. Depth : i # Depth => frames[i + 1].pOldOps = frames[i].pOpCodes
  /\ Top.doing # "read" => result = "none"

(* STATE, and the ends of streams: a stream ends after the brackets and    *)
(* the definitions that began in it.                                       *)
StateOk ==
  /\ State = (def.phase = "body")
  /\ result = "ok" => ~State
  /\ result = "end of stream" => State /\ Top.kind # "included"
  /\ result # "none" => /\ Bracketed => def.brackets # Depth
                        /\ def.phase = "body" => Depth = Main \/ def.stream # Depth

(* A call that runs interpreted code began outside of every definition     *)
(* that is open in its own stream: there is none, it is in a nested        *)
(* stream, or it is in brackets.                                           *)
Interpreting(f) == f.doing \in {"up to", "line", "bracket"}
Apart(i, f) ==
  \/ ~Open \/ def.stream > i
  \/ Bracketed /\ def.brackets <= i /\ f.word \notin {":", "CREATE"}

FrameOk(i, f) ==
  /\ GoesBack(f) => Bracketed /\ def.brackets = i
  /\ f.word # "none" => f.doing = "up to"
  /\ Interpreting(f) => Apart(i, f)
FramesOk ==
  /\ \A i \in 1 .. Depth : FrameOk(i, frames[i])
  /\ \A i \in 1 .. Depth : frames[i].kind = "included" /\ i # 1 => frames[i - 1].word = "included"

(* Where a frame writes: the frames of a definition share its vector, the  *)
(* brackets have tempOps, and the frames in brackets their own.            *)
VectorOk(i, v) ==
  /\ v \in 0 .. i
  /\ v = Temp <=> Bracketed /\ def.brackets = i
  /\ Bracketed /\ i > def.brackets => v = i
  /\ Open /\ def.stream <= i /\ (Bracketed => i < def.brackets) => v = DefOps
VectorsOk == \A i \in 1 .. Depth : VectorOk(i, frames[i].pOpCodes)

DefOk ==
  /\ Open => def.stream \in 1 .. Depth /\ pNewWord = ":" /\ DefOps \in 1 .. def.stream
  /\ Bracketed => def.brackets \in def.stream .. Depth

StreamInv == Fine => StreamsOk /\ StateOk /\ FramesOk /\ VectorsOk /\ DefOk

-----------------------------------------------------------------------------
(* Steps that change the frame on top only *)

LEMMA Neighbours ==
  \A d \in Nat \ {0} : \A i \in 1 .. d :
    /\ i # d => i + 1 \in 1 .. d
    /\ i # 1 => i - 1 \in 1 .. d /\ i - 1 # d
  OBVIOUS

LEMMA TopIs ==
  ASSUME TypeInv
  PROVE  /\ Top = frames[Depth] /\ Depth \in Nat \ {0} /\ Depth <= MaxFrames /\ MaxFrames \in Nat
         /\ Depth \in 1 .. Depth /\ Top' = frames'[Depth'] /\ Depth = Len(frames)
<1>1. Top = frames[Depth] /\ Depth \in 1 .. MaxFrames /\ Depth = Len(frames)
  BY Facts DEF TypeInv, Depth
<1>2. MaxFrames \in Nat
  BY CompilerAssumption
<1>3. Top' = frames'[Depth']
  BY DEF Top, Depth, Last
<1> QED BY <1>1, <1>2, <1>3

(* A step that leaves the definition, STATE and the vectors keeps the      *)
(* invariant when the new frame on top has its part of it.                 *)
LEMMA TopStep ==
  ASSUME TypeInv, StreamInv, Fine, TopChanges(frames'), frames'[Depth].pOpCodes = Top.pOpCodes,
         UNCHANGED <<State, pCurrentOps, pPreviousOps, def>>, pNewWord' = pNewWord \/ ~Open,
         Fine' => FrameOk(Depth, frames'[Depth]) /\ (frames'[Depth].doing # "read" => result' = "none"),
         result' = "ok" => ~State,
         result' = "end of stream" => State /\ Top.kind # "included",
         result' \in {"ok", "end of stream"} =>
           /\ Bracketed => def.brackets # Depth
           /\ def.phase = "body" => Depth = Main \/ def.stream # Depth
  PROVE  StreamInv'
<1> SUFFICES ASSUME Fine'
             PROVE  (StreamsOk /\ StateOk /\ FramesOk /\ VectorsOk /\ DefOk)'
  BY DEF StreamInv
<1>1. StreamsOk /\ StateOk /\ FramesOk /\ VectorsOk /\ DefOk
  BY DEF StreamInv
<1>2. PICK d \in Nat \ {0} : d = Depth /\ Top = frames[d] /\ d \in 1 .. d /\ Len(frames') = d
  BY TopIs DEF TopChanges
<1>3. Depth' = d /\ Top' = frames'[d] /\ Temp' = Temp
  BY <1>2 DEF Depth, Top, Last
<1>4. /\ \A i \in 1 .. d : i # d => frames'[i] = frames[i]
      /\ frames'[d].kind = frames[d].kind /\ frames'[d].pOldOps = frames[d].pOldOps
      /\ frames'[d].pOpCodes = frames[d].pOpCodes
  BY <1>2 DEF TopChanges
<1>5. /\ \A i \in 1 .. d : /\ frames'[i].kind = frames[i].kind /\ frames'[i].pOldOps = frames[i].pOldOps
                           /\ frames'[i].pOpCodes = frames[i].pOpCodes
  BY <1>4
<1>6. \A i \in 1 .. d : i # d => i + 1 \in 1 .. d
  BY Neighbours
<1>7. def' = def /\ (Open' <=> Open) /\ (Bracketed' <=> Bracketed) /\ DefOps' = DefOps
  BY DEF Open, Bracketed, DefOps
<1>8. StreamsOk'
  <2>1. pCurrentOps' = Top'.pOpCodes
    BY <1>1, <1>2, <1>3, <1>4 DEF StreamsOk
  <2>2. \A i \in 1 .. d : i # d => frames'[i].doing # "read"
    BY <1>1, <1>2, <1>4 DEF StreamsOk
  <2>3. \A i \in 1 .. d : i # d => frames'[i + 1].pOldOps = frames'[i].pOpCodes
    BY <1>1, <1>2, <1>5, <1>6 DEF StreamsOk
  <2>4. Top'.doing # "read" => result' = "none"
    BY <1>2, <1>3
  <2> QED BY <1>3, <2>1, <2>2, <2>3, <2>4 DEF StreamsOk
<1>9. StateOk'
  <2>1. Top'.kind = Top.kind
    BY <1>2, <1>3, <1>4
  <2>2. Main' = Main /\ Depth' = Depth /\ result' \in {"none", "ok", "end of stream"}
    BY <1>2, <1>3 DEF Main, Fine
  <2> QED BY <1>1, <1>7, <2>1, <2>2 DEF StateOk
<1>10. FramesOk'
  <2>1. ASSUME NEW i \in 1 .. d
        PROVE  FrameOk(i, frames[i])'
    <3>1. FrameOk(i, frames'[i])
      <4>1. CASE i = d
        BY <1>2, <4>1
      <4>2. CASE i # d
        BY <1>1, <1>2, <1>4, <4>2 DEF FramesOk
      <4> QED BY <4>1, <4>2
    <3> QED BY <3>1, <1>7 DEF FrameOk, Apart, Interpreting, GoesBack
  <2>2. ASSUME NEW i \in 1 .. d, frames'[i].kind = "included", i # 1
        PROVE  frames'[i - 1].word = "included"
    <3>1. frames[i - 1].word = "included"
      BY <1>1, <1>2, <1>5, <2>2 DEF FramesOk
    <3>2. i - 1 \in 1 .. d /\ i - 1 # d
      BY <2>2, Neighbours
    <3> QED BY <1>4, <3>1, <3>2
  <2> QED BY <1>3, <2>1, <2>2 DEF FramesOk
<1>11. VectorsOk'
  <2>1. \A i \in 1 .. d : VectorOk(i, frames[i].pOpCodes)
    BY <1>1, <1>2 DEF VectorsOk
  <2>2. \A i, v : VectorOk(i, v)' <=> VectorOk(i, v)
    BY <1>7 DEF VectorOk, Temp
  <2> QED BY <1>3, <1>5, <2>1, <2>2 DEF VectorsOk
<1>12. DefOk'
  BY <1>1, <1>2, <1>3, <1>7 DEF DefOk
<1> QED BY <1>8, <1>9, <1>10, <1>11, <1>12


LEMMA DefIs ==
  ASSUME TypeInv, DefOk
  PROVE  /\ def.phase \in {"none", "body", "brackets"} /\ def.stream \in Nat /\ def.brackets \in Nat
         /\ Open => 1 <= def.stream /\ def.stream <= Depth
         /\ Bracketed => Open /\ def.stream <= def.brackets /\ def.brackets <= Depth
<1>1. def \in Definitions /\ MaxFrames \in Nat /\ Depth \in Nat
  BY HistoryTyped, TopIs DEF TypeInv
<1>2. def.phase \in {"none", "body", "brackets"} /\ def.stream \in Nat /\ def.brackets \in Nat
  BY <1>1 DEF Definitions
<1>3. Bracketed => Open
  BY DEF Bracketed, Open
<1> QED BY <1>1, <1>2, <1>3 DEF DefOk

(* A word is read: no error is under way, and the frame on top is idle.    *)
LEMMA ReadingIs ==
  ASSUME TypeInv, StreamInv, Reading
  PROVE  /\ Fine /\ result = "none" /\ Top.doing = "read" /\ Top.word = "none" /\ ~GoesBack(Top)
         /\ StreamsOk /\ StateOk /\ FramesOk /\ VectorsOk /\ DefOk
         /\ FrameOk(Depth, Top)
<1>1. result = "none" /\ Top.doing = "read"
  BY DEF Reading, Doing
<1>2. StreamsOk /\ StateOk /\ FramesOk /\ VectorsOk /\ DefOk /\ Fine
  BY <1>1 DEF StreamInv, Fine
<1>3. FrameOk(Depth, Top)
  BY <1>2, TopIs DEF FramesOk
<1>4. Top.word = "none"
  BY <1>1, <1>3 DEF FrameOk
<1> QED BY <1>1, <1>2, <1>3, <1>4, GoBack

(* A word is run or compiled and leaves the frames.                        *)
LEMMA WordStep ==
  ASSUME TypeInv, StreamInv, Reading, result' \notin {"ok", "end of stream"},
         UNCHANGED <<State, pCurrentOps, pPreviousOps, frames, pNewWord, def>>
  PROVE  StreamInv'
<1>1. Fine /\ Top.doing = "read" /\ FrameOk(Depth, Top)
  BY ReadingIs
<1>2. frames'[Depth] = Top /\ TopChanges(frames')
  BY TopIs, TopKept
<1> QED BY <1>1, <1>2, TopStep

(* Code is run by the frame that has read it.                              *)
LEMMA RunStep ==
  ASSUME TypeInv, StreamInv, Reading, result' = "none",
         NEW what \in Doings, NEW word \in DoneBy, frames' = Runs(what, word),
         UNCHANGED <<State, pCurrentOps, pPreviousOps, pNewWord, def>>,
         word # "none" => what = "up to",
         what = "bracket" \/ word = "COMPILE," => Bracketed /\ def.brackets = Depth,
         what # "current" => ~State,
         word \in {":", "CREATE"} => ~Bracketed
  PROVE  StreamInv'
<1>1. Fine /\ StateOk /\ DefOk
  BY ReadingIs
<1> DEFINE g == frames'[Depth]
<1>2. TopChanges(frames') /\ g.doing = what /\ g.word = word /\ g.pOpCodes = Top.pOpCodes
  BY RunsChanges
<1>3. GoesBack(g) => Bracketed /\ def.brackets = Depth
  BY <1>2, GoBack
<1>4. Interpreting(g) => Apart(Depth, g)
  <2> SUFFICES ASSUME Interpreting(g), Open
               PROVE  Bracketed /\ def.brackets <= Depth /\ g.word \notin {":", "CREATE"}
    BY DEF Apart
  <2>1. what # "current"
    BY <1>2 DEF Interpreting
  <2>2. def.phase \in {"none", "body", "brackets"}
    BY <1>1, DefIs
  <2>3. Bracketed
    BY <1>1, <2>1, <2>2 DEF StateOk, Open, Bracketed
  <2>4. def.brackets <= Depth
    BY <1>1, <2>3, DefIs
  <2> QED BY <1>2, <2>3, <2>4
<1>5. FrameOk(Depth, g)
  BY <1>2, <1>3, <1>4 DEF FrameOk
<1> HIDE DEF g
<1> QED BY <1>1, <1>2, <1>5, TopStep DEF g

LEMMA StructureWordStep ==
  ASSUME TypeInv, StreamInv, NEW t \in Words, StructureWord(t)
  PROVE  StreamInv'
<1>1. /\ Reading /\ UNCHANGED <<State, pCurrentOps, pPreviousOps, frames, pNewWord, def>>
      /\ t \in Controls /\ TypeOK
  BY DEF StructureWord, NextWord, TypeInv
<1>2. result' \notin {"ok", "end of stream"}
  <2> DEFINE c == Current
             u == ControlWord(t, c)
             v == Fails(c, "no end of string")
             b == t = "ABORT\"" /\ pNewWord = "none"
  <2>1. Commit([u EXCEPT !.wild = @ \/ b]) \/ Commit(v)
    BY DEF StructureWord
  <2>2. c \in CState /\ c.e = "none" /\ State \in BOOLEAN
    BY <1>1, Facts
  <2> HIDE DEF c, b
  <2>3. Writes(c, u, Meaning(t))
    BY <1>1, <2>2, ControlWrites
  <2>4. u \in CState /\ u.e \in StructureErrors \cup {"none"}
    BY <2>3 DEF Writes
  <2>5. v.e = "no end of string"
    <3>1. "no end of string" \in Codes
      BY DEF Codes
    <3> QED BY <2>2, <3>1, FailsTyped
  <2>6. b \in BOOLEAN
    BY DEF b
  <2> HIDE DEF u, v
  <2>7. Wilder(u, b).e = u.e
    BY <2>4, <2>6, WilderTyped
  <2>8. Commit(Wilder(u, b)) \/ Commit(v)
    BY <2>1 DEF Wilder
  <2>9. result' \in StructureErrors \cup {"none", "no end of string"}
    BY <2>4, <2>5, <2>7, <2>8 DEF Commit
  <2> QED BY <2>9 DEF StructureErrors
<1> QED BY <1>1, <1>2, WordStep

LEMMA LiteralStep ==
  ASSUME TypeInv, StreamInv, NEW t \in Words, Literal(t)
  PROVE  StreamInv'
<1>1. /\ Reading /\ UNCHANGED <<State, pCurrentOps, pPreviousOps, frames, pNewWord, def>>
      /\ t \in Literals /\ TypeOK
  BY DEF Literal, NextWord, TypeInv
<1>2. result' \notin {"ok", "end of stream"}
  <2> DEFINE c == Current
             u == LiteralWord(t, c)
             e == LiteralError(t)
             v == Fails(c, e)
             w == Fails(u, "vm")
  <2>1. Commit(u) \/ Commit(v) \/ Commit(w)
    BY DEF Literal
  <2>2. c \in CState /\ c.e = "none"
    BY <1>1, Facts
  <2> HIDE DEF c
  <2>3. Writes(c, u, LiteralCode(t))
    BY <1>1, <2>2, LiteralWrites
  <2>4. u.e \in StructureErrors \cup {"none"}
    BY <2>3 DEF Writes
  <2>5. e \in Codes /\ e \notin {"ok", "end of stream"}
    BY DEF Codes, LiteralError
  <2> HIDE DEF e
  <2>6. v.e = e
    BY <2>2, <2>5, FailsTyped
  <2>7. w.e = "vm"
    <3>1. u \in CState /\ "vm" \in Codes
      BY <2>3 DEF Writes, Codes
    <3> HIDE DEF u
    <3> QED BY <3>1, FailsTyped
  <2>8. result' = u.e \/ result' = v.e \/ result' = w.e
    BY <2>1 DEF Commit
  <2>9. "ok" \notin StructureErrors /\ "end of stream" \notin StructureErrors
    BY DEF StructureErrors
  <2> HIDE DEF u, v, w
  <2> QED BY <2>4, <2>5, <2>6, <2>7, <2>8, <2>9
<1> QED BY <1>1, <1>2, WordStep

LEMMA CompiledWordStep ==
  ASSUME TypeInv, StreamInv, NEW t \in Words, CompiledWord(t)
  PROVE  StreamInv'
<1>1. /\ Reading /\ UNCHANGED <<State, pCurrentOps, pPreviousOps, frames, pNewWord, def>>
      /\ t \in {"LOOP", "UNLOOP"} \cup Compileds /\ TypeOK
  BY DEF CompiledWord, NextWord, TypeInv
<1>2. result' \in StructureErrors \cup {"none"}
  <2>1. Commit(CompiledCode(t))
    BY DEF CompiledWord, CompiledCode
  <2>2. CompiledCode(t).e \in StructureErrors \cup {"none"}
    BY <1>1, CompiledCodeWrites DEF Writes
  <2> QED BY <2>1, <2>2 DEF Commit
<1>3. result' \notin {"ok", "end of stream"}
  BY <1>2 DEF StructureErrors
<1> QED BY <1>1, <1>3, WordStep

LEMMA UnknownWordStep ==
  ASSUME TypeInv, StreamInv, UnknownWord
  PROVE  StreamInv'
  BY WordStep DEF UnknownWord, NextWord, history

LEMMA NondeferredWordStep ==
  ASSUME KeepsStreams, TypeInv, StreamInv, NEW t \in Words, NondeferredWord(t)
  PROVE  StreamInv'
<1>1. /\ Reading /\ UNCHANGED <<State, pCurrentOps, pPreviousOps, pNewWord, def>>
      /\ t \in Nondeferred /\ TypeOK /\ frames' = Runs("up to", t) /\ ~State
  BY DEF NondeferredWord, NextWord, TypeInv, history
<1>2. result' = "none"
  <2> DEFINE c == Current
             u == Op(c, t)
  <2>1. Commit(Op(u, "RET")) /\ c \in CState /\ c.e = "none" /\ t \in Opcodes /\ "RET" \in Opcodes
    BY <1>1, Facts DEF NondeferredWord, Opcodes
  <2> HIDE DEF c
  <2>2. u \in CState /\ u.e = "none"
    BY <2>1, CodeTyped
  <2> HIDE DEF u
  <2>3. Op(u, "RET").e = "none"
    BY <2>1, <2>2, CodeTyped
  <2> QED BY <2>1, <2>3 DEF Commit
<1>3. t = "COMPILE," => Bracketed /\ def.brackets = Depth
  BY DEF NondeferredWord, Bracketed
<1>4. t \in {":", "CREATE"} => ~Bracketed
  BY RulesKept DEF NondeferredWord, Bracketed
<1>5. "up to" \in Doings /\ t \in DoneBy /\ "up to" # "bracket"
  BY <1>1 DEF Doings, DoneBy
<1> QED BY <1>1, <1>2, <1>3, <1>4, <1>5, RunStep

LEMMA RetIs ==
  ASSUME TypeOK, Commit(Op(Current, "RET"))
  PROVE  result' = "none"
<1> DEFINE c == Current
<1>1. c \in CState /\ c.e = "none" /\ "RET" \in Opcodes
  BY Facts DEF Opcodes
<1> HIDE DEF c
<1>2. Op(c, "RET").e = "none"
  BY <1>1, CodeTyped
<1> QED BY <1>2 DEF Commit, c

LEMMA RunsCodeStep ==
  ASSUME TypeInv, StreamInv, CPP_rbracket \/ EndOfLine \/ Macro
  PROVE  StreamInv'
<1>1. "bracket" \in Doings /\ "line" \in Doings /\ "current" \in Doings /\ "none" \in DoneBy
  BY DEF Doings, DoneBy
<1>2. CASE CPP_rbracket
  <2>1. /\ Reading /\ UNCHANGED <<State, pCurrentOps, pPreviousOps, pNewWord, def>>
        /\ Bracketed /\ def.brackets = Depth /\ frames' = Runs("bracket", "none")
        /\ Commit(Op(Current, "RET"))
    BY <1>2 DEF CPP_rbracket, NextWord, history, Bracketed
  <2>2. ~State /\ result' = "none"
    BY <2>1, ReadingIs, RetIs DEF StateOk, Bracketed, TypeInv
  <2> QED BY <1>1, <2>1, <2>2, RunStep
<1>3. CASE EndOfLine
  <2>1. /\ Reading /\ UNCHANGED <<State, pCurrentOps, pPreviousOps, pNewWord, def>>
        /\ ~State /\ frames' = Runs("line", "none") /\ Commit(Op(Current, "RET"))
    BY <1>3 DEF EndOfLine, history
  <2>2. result' = "none"
    BY <2>1, RetIs DEF TypeInv
  <2> QED BY <1>1, <2>1, <2>2, RunStep
<1>4. CASE Macro
  <2>1. /\ Reading /\ UNCHANGED <<State, pCurrentOps, pPreviousOps, pNewWord, def>>
        /\ frames' = Runs("current", "none") /\ result' = "none"
    BY <1>4 DEF Macro, NextWord, history, Reading
  <2> QED BY <1>1, <2>1, RunStep
<1> QED BY <1>2, <1>3, <1>4

-----------------------------------------------------------------------------
(* Steps that end the run of the frame on top *)

(* Code is running: no error is under way.                                 *)
LEMMA RunningIs ==
  ASSUME TypeInv, StreamInv, Fine, Top.doing # "read"
  PROVE  /\ result = "none" /\ StreamsOk /\ StateOk /\ FramesOk /\ VectorsOk /\ DefOk
         /\ FrameOk(Depth, Top) /\ VectorOk(Depth, Top.pOpCodes)
<1>1. StreamsOk /\ StateOk /\ FramesOk /\ VectorsOk /\ DefOk
  BY DEF StreamInv
<1> QED BY <1>1, TopIs DEF StreamsOk, FramesOk, VectorsOk

(* What the run of interpreted code on top says of the definition.         *)
LEMMA InterpretingIs ==
  ASSUME TypeInv, StreamInv, Fine, Interpreting(Top)
  PROVE  /\ ~Open \/ (Bracketed /\ def.brackets <= Depth /\ Top.word \notin {":", "CREATE"})
         /\ ~State /\ Top.doing # "read"
<1>1. Top.doing # "read"
  BY DEF Interpreting
<1>2. StateOk /\ DefOk /\ FrameOk(Depth, Top)
  BY <1>1, RunningIs
<1>3. Apart(Depth, Top)
  BY <1>2 DEF FrameOk
<1>4. Open => def.stream <= Depth /\ def.stream \in Nat /\ Depth \in Nat
  BY <1>2, DefIs, TopIs
<1>5. ~Open \/ (Bracketed /\ def.brackets <= Depth /\ Top.word \notin {":", "CREATE"})
  BY <1>3, <1>4 DEF Apart
<1> QED BY <1>1, <1>2, <1>5 DEF StateOk, Bracketed, Open

LEMMA IdleStep ==
  ASSUME TypeInv, StreamInv, Fine, Top.doing # "read", result' \notin {"ok", "end of stream"},
         TopChanges(frames'), frames'[Depth].doing = "read", frames'[Depth].word = "none",
         frames'[Depth].pOpCodes = Top.pOpCodes,
         UNCHANGED <<State, pCurrentOps, pPreviousOps, def>>, pNewWord' = pNewWord \/ ~Open
  PROVE  StreamInv'
<1> DEFINE g == frames'[Depth]
<1>1. ~GoesBack(g)
  BY GoBack
<1>2. FrameOk(Depth, g)
  BY <1>1 DEF FrameOk, Interpreting
<1> HIDE DEF g
<1> QED BY <1>2, TopStep DEF g

LEMMA LineDoneStep ==
  ASSUME TypeInv, StreamInv, LineDone
  PROVE  StreamInv'
<1>1. /\ Top.doing # "read" /\ result = "none" /\ result' = "none" /\ frames' = Idle
      /\ UNCHANGED <<State, pCurrentOps, pPreviousOps, def>> /\ pNewWord' = pNewWord
  BY DEF LineDone, Doing, history
<1>2. Fine
  BY <1>1 DEF Fine
<1>3. TopChanges(frames') /\ frames'[Depth].doing = "read" /\ frames'[Depth].word = "none"
      /\ frames'[Depth].pOpCodes = Top.pOpCodes
  BY <1>1, IdleChanges
<1> QED BY <1>1, <1>2, <1>3, IdleStep

LEMMA MacroDoneStep ==
  ASSUME TypeInv, StreamInv, MacroDone
  PROVE  StreamInv'
<1>1. /\ Top.doing # "read" /\ result = "none" /\ result' = "none"
      /\ frames' = [Idle EXCEPT ![Depth].pOpCodes = pCurrentOps]
      /\ UNCHANGED <<State, pCurrentOps, pPreviousOps, def>> /\ pNewWord' = pNewWord
  BY DEF MacroDone, Doing, history
<1>2. Fine /\ pCurrentOps \in Vectors
  BY <1>1, Facts DEF Fine, TypeInv
<1>3. pCurrentOps = Top.pOpCodes
  BY <1>1, <1>2, RunningIs DEF StreamsOk
<1>4. TopChanges(frames') /\ frames'[Depth].doing = "read" /\ frames'[Depth].word = "none"
      /\ frames'[Depth].pOpCodes = Top.pOpCodes
  BY <1>1, <1>2, <1>3, SetOpCodesChanges
<1> QED BY <1>1, <1>2, <1>4, IdleStep

(* The definition that : begins.                                           *)
LEMMA ColonStep ==
  ASSUME TypeInv, StreamInv, UpToDone, CPP_colon, Top.word = ":"
  PROVE  StreamInv'
<1>1. /\ Top.doing = "up to" /\ result = "none" /\ result' = "none" /\ frames' = Idle
      /\ State' = TRUE /\ pNewWord' = ":" /\ UNCHANGED <<pCurrentOps, pPreviousOps>>
      /\ def' = IF def.phase = "none" THEN [phase |-> "body", stream |-> Depth, brackets |-> 0] ELSE def
  BY DEF UpToDone, Doing, CPP_colon
<1>2. Fine /\ Top.doing # "read" /\ Interpreting(Top)
  BY <1>1 DEF Fine, Interpreting
<1>3. ~Open /\ ~Bracketed
  BY <1>2, InterpretingIs DEF Open, Bracketed
<1>4. StreamsOk /\ StateOk /\ FramesOk /\ VectorsOk /\ DefOk
  BY <1>2, RunningIs
<1>5. PICK d \in Nat \ {0} : d = Depth /\ Top = frames[d] /\ d \in 1 .. d
  BY TopIs
<1>6. TopChanges(frames') /\ frames'[d].doing = "read" /\ frames'[d].word = "none"
      /\ frames'[d].pOpCodes = Top.pOpCodes /\ Len(frames') = d
  BY <1>1, <1>5, IdleChanges DEF TopChanges
<1>7. /\ \A i \in 1 .. d : i # d => frames'[i] = frames[i]
      /\ frames'[d].kind = frames[d].kind /\ frames'[d].pOldOps = frames[d].pOldOps
      /\ frames'[d].pOpCodes = frames[d].pOpCodes
  BY <1>5, <1>6 DEF TopChanges
<1>8. Depth' = d /\ Top' = frames'[d] /\ Temp' = Temp
  BY <1>6 DEF Depth, Top, Last
<1>9. def' = [phase |-> "body", stream |-> d, brackets |-> 0] /\ ~Bracketed' /\ Open'
  BY <1>1, <1>3, <1>5 DEF Open, Bracketed
<1>10. def'.stream = d /\ def'.phase = "body" /\ DefOps' = pCurrentOps
  <2>1. def'.stream = d /\ def'.phase = "body"
    BY <1>9
  <2>2. DefOps' = IF Bracketed' THEN pPreviousOps' ELSE pCurrentOps'
    BY DEF DefOps
  <2> QED BY <1>1, <1>9, <2>1, <2>2
<1>11. StreamsOk'
  <2>1. \A i \in 1 .. d : i # d => i + 1 \in 1 .. d
    BY Neighbours
  <2>2. pCurrentOps' = Top'.pOpCodes
    BY <1>1, <1>4, <1>5, <1>7, <1>8 DEF StreamsOk
  <2>3. \A i \in 1 .. d : i # d => frames'[i].doing # "read"
    BY <1>4, <1>5, <1>7 DEF StreamsOk
  <2>4. \A i \in 1 .. d : i # d => frames'[i + 1].pOldOps = frames'[i].pOpCodes
    BY <1>4, <1>5, <1>7, <2>1 DEF StreamsOk
  <2> QED BY <1>1, <1>8, <2>2, <2>3, <2>4 DEF StreamsOk
<1>12. StateOk'
  BY <1>1, <1>10 DEF StateOk
<1>13. FramesOk'
  <2>1. ASSUME NEW i \in 1 .. d
        PROVE  FrameOk(i, frames[i])'
    <3>1. CASE i = d
      <4>1. ~GoesBack(frames'[d])
        BY <1>6, GoBack
      <4> QED BY <1>6, <3>1, <4>1 DEF FrameOk, Interpreting, GoesBack
    <3>2. CASE i # d
      <4>1. FrameOk(i, frames[i]) /\ frames'[i] = frames[i]
        BY <1>4, <1>5, <1>7, <3>2 DEF FramesOk
      <4>2. ~GoesBack(frames[i])
        BY <1>3, <4>1 DEF FrameOk
      <4>3. def'.stream > i
        BY <1>10, <3>2
      <4> QED BY <4>1, <4>2, <4>3 DEF FrameOk, Apart, GoesBack, Interpreting
    <3> QED BY <3>1, <3>2
  <2>2. ASSUME NEW i \in 1 .. d, frames'[i].kind = "included", i # 1
        PROVE  frames'[i - 1].word = "included"
    <3>1. frames[i].kind = "included"
      BY <1>7, <2>2
    <3>2. frames[i - 1].word = "included"
      BY <1>4, <1>5, <2>2, <3>1 DEF FramesOk
    <3>3. i - 1 \in 1 .. d /\ i - 1 # d
      BY <2>2, Neighbours
    <3> QED BY <1>7, <3>2, <3>3
  <2> QED BY <1>8, <2>1, <2>2 DEF FramesOk
<1>14. VectorsOk'
  <2>1. ASSUME NEW i \in 1 .. d
        PROVE  VectorOk(i, frames[i].pOpCodes)'
    <3>1. VectorOk(i, frames[i].pOpCodes) /\ frames'[i].pOpCodes = frames[i].pOpCodes
      BY <1>4, <1>5, <1>7 DEF VectorsOk
    <3>2. i # d => ~(def'.stream <= i)
      BY <1>10
    <3>3. i = d => frames'[i].pOpCodes = DefOps'
      BY <1>4, <1>5, <1>7, <1>10 DEF StreamsOk
    <3> QED BY <1>3, <1>8, <1>9, <3>1, <3>2, <3>3 DEF VectorOk
  <2> QED BY <1>8, <2>1 DEF VectorsOk
<1>15. DefOk'
  <2>1. VectorOk(d, pCurrentOps)
    BY <1>4, <1>5 DEF VectorsOk, StreamsOk
  <2>2. pCurrentOps \in 0 .. d /\ pCurrentOps # Temp
    BY <1>3, <2>1 DEF VectorOk
  <2>3. pCurrentOps \in 1 .. d
    BY <2>2 DEF Temp
  <2> QED BY <1>1, <1>5, <1>8, <1>9, <1>10, <2>3 DEF DefOk
<1> QED BY <1>11, <1>12, <1>13, <1>14, <1>15 DEF StreamInv

-----------------------------------------------------------------------------
(* Steps between the parts of a definition: [ and ] and ;                  *)

(* The frame on top is idle and writes where the words write; the callers  *)
(* are what they were.                                                     *)
LEMMA PartStep ==
  ASSUME TypeInv, StreamsOk, FramesOk, result' = "none", TopChanges(frames'),
         frames'[Depth].doing = "read", frames'[Depth].word = "none",
         frames'[Depth].pOpCodes = pCurrentOps', StateOk', DefOk',
         \A i \in 1 .. Depth : i # Depth /\ frames'[i] = frames[i] => FrameOk(i, frames[i])',
         \A i \in 1 .. Depth : (i # Depth => frames'[i] = frames[i]) => VectorOk(i, frames[i].pOpCodes)'
  PROVE  StreamInv'
<1>1. PICK d \in Nat \ {0} : d = Depth /\ Top = frames[d] /\ d \in 1 .. d /\ Len(frames') = d
  BY TopIs DEF TopChanges
<1>2. /\ \A i \in 1 .. d : i # d => frames'[i] = frames[i]
      /\ frames'[d].kind = frames[d].kind /\ frames'[d].pOldOps = frames[d].pOldOps
  BY <1>1 DEF TopChanges
<1>3. Depth' = d /\ Top' = frames'[d]
  BY <1>1 DEF Depth, Top, Last
<1>4. StreamsOk'
  <2>1. \A i \in 1 .. d : i # d => i + 1 \in 1 .. d
    BY Neighbours
  <2>2. pCurrentOps' = Top'.pOpCodes
    BY <1>1, <1>3
  <2>3. \A i \in 1 .. d : i # d => frames'[i].doing # "read"
    BY <1>1, <1>2 DEF StreamsOk
  <2>4. ASSUME NEW i \in 1 .. d, i # d
        PROVE  frames'[i + 1].pOldOps = frames'[i].pOpCodes
    <3>1. frames[i + 1].pOldOps = frames[i].pOpCodes
      BY <1>1, <2>4 DEF StreamsOk
    <3> QED BY <1>2, <2>1, <2>4, <3>1
  <2> QED BY <1>1, <1>3, <2>2, <2>3, <2>4 DEF StreamsOk
<1>5. FramesOk'
  <2>1. ASSUME NEW i \in 1 .. d
        PROVE  FrameOk(i, frames[i])'
    <3>1. CASE i = d
      <4>1. ~GoesBack(frames'[d])
        BY <1>1, GoBack
      <4> QED BY <1>1, <3>1, <4>1 DEF FrameOk, Interpreting, GoesBack
    <3>2. CASE i # d
      BY <1>1, <1>2, <3>2
    <3> QED BY <3>1, <3>2
  <2>2. ASSUME NEW i \in 1 .. d, frames'[i].kind = "included", i # 1
        PROVE  frames'[i - 1].word = "included"
    <3>1. frames[i].kind = "included"
      BY <1>2, <2>2
    <3>2. frames[i - 1].word = "included"
      BY <1>1, <2>2, <3>1 DEF FramesOk
    <3>3. i - 1 \in 1 .. d /\ i - 1 # d
      BY <2>2, Neighbours
    <3> QED BY <1>2, <3>2, <3>3
  <2> QED BY <1>3, <2>1, <2>2 DEF FramesOk
<1>6. VectorsOk'
  <2>1. ASSUME NEW i \in 1 .. d
        PROVE  VectorOk(i, frames[i].pOpCodes)'
    BY <1>1, <1>2
  <2> QED BY <1>3, <2>1 DEF VectorsOk
<1> QED BY <1>4, <1>5, <1>6 DEF StreamInv

LEMMA LbracketStep ==
  ASSUME TypeInv, StreamInv, CPP_lbracket
  PROVE  StreamInv'
<1>1. /\ Reading /\ def.phase = "body" /\ State' = FALSE /\ pPreviousOps' = pCurrentOps
      /\ pCurrentOps' = Temp /\ frames' = SetTop("pOpCodes", Temp)
      /\ def' = [def EXCEPT !.phase = "brackets", !.brackets = Depth]
      /\ result' = result /\ pNewWord' = pNewWord
  BY DEF CPP_lbracket, NextWord, SaveOps
<1>2. /\ StreamsOk /\ StateOk /\ FramesOk /\ VectorsOk /\ DefOk /\ Top.doing = "read"
      /\ Top.word = "none" /\ result = "none"
  BY <1>1, ReadingIs
<1>3. PICK d \in Nat \ {0} : d = Depth /\ Top = frames[d] /\ d \in 1 .. d
  BY TopIs
<1>4. Temp \in Vectors /\ Temp' = Temp
  BY VectorsAre DEF Temp
<1>5. /\ TopChanges(frames') /\ frames'[d].doing = "read" /\ frames'[d].word = "none"
      /\ frames'[d].pOpCodes = Temp /\ Len(frames') = d
  BY <1>1, <1>2, <1>3, <1>4, SetOpCodesChanges, ZenonT(30) DEF TopChanges
<1>6. def \in Definitions /\ def.stream \in Nat /\ 1 <= def.stream /\ def.stream <= d
  BY <1>1, <1>2, <1>3, DefIs, HistoryTyped DEF Open, TypeInv
<1>7. def'.phase = "brackets" /\ def'.brackets = d /\ def'.stream = def.stream
  BY <1>1, <1>3, <1>6 DEF Definitions
<1>8. Bracketed' /\ Open' /\ ~Bracketed /\ Open
  BY <1>1, <1>7 DEF Bracketed, Open
<1>9. DefOps = pCurrentOps /\ DefOps' = pCurrentOps
  <2>1. DefOps' = IF Bracketed' THEN pPreviousOps' ELSE pCurrentOps'
    BY DEF DefOps
  <2> QED BY <1>1, <1>8, <2>1 DEF DefOps
<1>10. Depth' = d
  BY <1>5 DEF Depth
<1>11. StateOk'
  BY <1>1, <1>2, <1>7 DEF StateOk
<1>12. DefOk'
  <2>1. def'.brackets \in def'.stream .. d
    BY <1>3, <1>6, <1>7
  <2> QED BY <1>1, <1>2, <1>3, <1>7, <1>8, <1>9, <1>10, <2>1 DEF DefOk
<1>13. ASSUME NEW i \in 1 .. d, i # d, frames'[i] = frames[i]
       PROVE  FrameOk(i, frames[i])'
  <2>1. FrameOk(i, frames[i])
    BY <1>2, <1>3 DEF FramesOk
  <2>2. ~GoesBack(frames[i])
    BY <1>8, <2>1 DEF FrameOk
  <2>3. Interpreting(frames[i]) => def.stream > i
    BY <1>8, <2>1 DEF FrameOk, Apart
  <2> QED BY <1>7, <1>13, <2>1, <2>2, <2>3 DEF FrameOk, Apart, GoesBack, Interpreting
<1>14. ASSUME NEW i \in 1 .. d, i # d => frames'[i] = frames[i]
       PROVE  VectorOk(i, frames[i].pOpCodes)'
  <2>1. VectorOk(i, frames[i].pOpCodes)
    BY <1>2, <1>3 DEF VectorsOk
  <2>2. CASE i = d
    <3>1. frames'[i].pOpCodes = Temp /\ Temp \in 0 .. i /\ ~(i > def'.brackets) /\ ~(i < def'.brackets)
      BY <1>5, <1>7, <2>2 DEF Temp
    <3> QED BY <1>4, <1>7, <1>8, <2>2, <3>1 DEF VectorOk
  <2>3. CASE i # d
    <3>1. frames'[i].pOpCodes = frames[i].pOpCodes /\ ~(i > def'.brackets) /\ i # def'.brackets
      BY <1>7, <1>14, <2>3
    <3> QED BY <1>4, <1>7, <1>8, <1>9, <2>1, <3>1 DEF VectorOk
  <2> QED BY <2>2, <2>3
<1> QED BY <1>1, <1>2, <1>3, <1>5, <1>11, <1>12, <1>13, <1>14, PartStep

LEMMA BracketDoneStep ==
  ASSUME TypeInv, StreamInv, BracketDone
  PROVE  StreamInv'
<1>1. /\ Top.doing = "bracket" /\ result = "none" /\ State' = TRUE /\ pPreviousOps' = pPreviousOps
      /\ pCurrentOps' = pPreviousOps /\ frames' = [Idle EXCEPT ![Depth].pOpCodes = pPreviousOps]
      /\ def' = [def EXCEPT !.phase = "body", !.brackets = 0]
      /\ result' = result /\ pNewWord' = pNewWord
  BY DEF BracketDone, EndBracket, Doing
<1>2. Fine /\ Top.doing # "read"
  BY <1>1 DEF Fine
<1>3. /\ StreamsOk /\ StateOk /\ FramesOk /\ VectorsOk /\ DefOk /\ FrameOk(Depth, Top)
  BY <1>2, RunningIs
<1>4. PICK d \in Nat \ {0} : d = Depth /\ Top = frames[d] /\ d \in 1 .. d
  BY TopIs
<1>5. Bracketed /\ def.brackets = d /\ Open
  <2>1. GoesBack(Top)
    BY <1>1, GoBack
  <2> QED BY <1>3, <1>4, <2>1 DEF FrameOk, Bracketed, Open
<1>6. pPreviousOps \in Vectors /\ Temp' = Temp
  BY <1>5, TopKept, Facts DEF Bracketed, TypeInv, Temp
<1>7. /\ TopChanges(frames') /\ frames'[d].doing = "read" /\ frames'[d].word = "none"
      /\ frames'[d].pOpCodes = pPreviousOps /\ Len(frames') = d
  BY <1>1, <1>4, <1>6, SetOpCodesChanges DEF TopChanges
<1>8. def \in Definitions /\ def.stream \in Nat /\ 1 <= def.stream /\ def.stream <= d
  BY <1>3, <1>4, <1>5, DefIs, HistoryTyped DEF TypeInv
<1>9. def'.phase = "body" /\ def'.stream = def.stream
  BY <1>1, <1>8 DEF Definitions
<1>10. ~Bracketed' /\ Open'
  BY <1>9 DEF Bracketed, Open
<1>11. DefOps = pPreviousOps /\ DefOps' = pPreviousOps
  <2>1. DefOps' = IF Bracketed' THEN pPreviousOps' ELSE pCurrentOps'
    BY DEF DefOps
  <2> QED BY <1>1, <1>5, <1>10, <2>1 DEF DefOps
<1>12. Depth' = d
  BY <1>7 DEF Depth
<1>13. pPreviousOps \in 1 .. def.stream
  BY <1>3, <1>5, <1>11 DEF DefOk
<1>14. StateOk'
  BY <1>1, <1>9 DEF StateOk
<1>15. DefOk'
  <2>1. def'.stream \in 1 .. d
    BY <1>4, <1>8, <1>9
  <2> QED BY <1>1, <1>3, <1>5, <1>9, <1>10, <1>11, <1>12, <1>13, <2>1 DEF DefOk
<1>16. ASSUME NEW i \in 1 .. d, i # d, frames'[i] = frames[i]
       PROVE  FrameOk(i, frames[i])'
  <2>1. FrameOk(i, frames[i])
    BY <1>3, <1>4 DEF FramesOk
  <2>2. ~GoesBack(frames[i])
    BY <1>5, <1>16, <2>1 DEF FrameOk
  <2>3. Interpreting(frames[i]) => def.stream > i
    <3>1. ~(def.brackets <= i)
      BY <1>5, <1>16
    <3> QED BY <1>5, <2>1, <3>1 DEF FrameOk, Apart
  <2> QED BY <1>9, <1>16, <2>1, <2>2, <2>3 DEF FrameOk, Apart, GoesBack, Interpreting
<1>17. ASSUME NEW i \in 1 .. d, i # d => frames'[i] = frames[i]
       PROVE  VectorOk(i, frames[i].pOpCodes)'
  <2>1. VectorOk(i, frames[i].pOpCodes)
    BY <1>3, <1>4 DEF VectorsOk
  <2>2. CASE i = d
    <3>1. pPreviousOps \in 0 .. i /\ pPreviousOps # Temp
      BY <1>8, <1>13, <2>2 DEF Temp
    <3> QED BY <1>6, <1>7, <1>10, <1>11, <2>2, <3>1 DEF VectorOk
  <2>3. CASE i # d
    <3>1. frames'[i].pOpCodes = frames[i].pOpCodes /\ i < def.brackets /\ i # def.brackets
      BY <1>5, <1>17, <2>3
    <3> QED BY <1>5, <1>6, <1>9, <1>10, <1>11, <2>1, <3>1 DEF VectorOk
  <2> QED BY <2>2, <2>3
<1> QED BY <1>1, <1>3, <1>4, <1>7, <1>14, <1>15, <1>16, <1>17, PartStep

LEMMA SemicolonStep ==
  ASSUME TypeInv, StreamInv, CPP_semicolon
  PROVE  StreamInv'
<1>1. /\ Reading /\ UNCHANGED <<pCurrentOps, pPreviousOps, frames, pNewWord>>
  BY SemicolonCases DEF NextWord
<1>2. /\ StreamsOk /\ StateOk /\ FramesOk /\ VectorsOk /\ DefOk /\ Top.doing = "read"
      /\ Top.word = "none" /\ result = "none"
  BY <1>1, ReadingIs
<1>3. TypeOK
  BY DEF TypeInv
<1>4. CASE /\ State /\ Commit(Emptied(Closed)) /\ State' = FALSE
           /\ \/ def.phase = "body" /\ def' = NoDef
              \/ def.phase # "body" /\ UNCHANGED history
  <2>1. result' = "none"
    BY <1>3, <1>4, ClosedTyped DEF Commit
  <2>2. def.phase = "body" /\ def' = NoDef /\ def'.phase = "none"
    <3>1. def.phase = "body"
      BY <1>2, <1>4 DEF StateOk
    <3>2. NoDef.phase = "none"
      BY DEF NoDef
    <3> QED BY <1>4, <3>1, <3>2
  <2>3. ~Open' /\ ~Bracketed' /\ ~Bracketed /\ Temp' = Temp
    BY <2>2 DEF Open, Bracketed, Temp
  <2>4. PICK d \in Nat \ {0} : d = Depth /\ Top = frames[d] /\ d \in 1 .. d
    BY TopIs
  <2>5. StateOk'
    BY <1>4, <2>1, <2>2 DEF StateOk
  <2>6. DefOk'
    BY <2>3 DEF DefOk
  <2>7. ASSUME NEW i \in 1 .. d
        PROVE  FrameOk(i, frames[i])'
    <3>1. FrameOk(i, frames[i]) /\ frames'[i] = frames[i]
      BY <1>1, <1>2, <2>4 DEF FramesOk
    <3> QED BY <2>3, <3>1 DEF FrameOk, Apart, GoesBack, Interpreting
  <2>8. ASSUME NEW i \in 1 .. d
        PROVE  VectorOk(i, frames[i].pOpCodes)'
    <3>1. VectorOk(i, frames[i].pOpCodes) /\ frames'[i] = frames[i]
      BY <1>1, <1>2, <2>4 DEF VectorsOk
    <3> QED BY <2>3, <3>1 DEF VectorOk
  <2>9. TopChanges(frames') /\ frames'[d].doing = "read" /\ frames'[d].word = "none"
        /\ frames'[d].pOpCodes = pCurrentOps'
    BY <1>1, <1>2, <2>4, TopKept DEF StreamsOk
  <2> QED BY <1>2, <2>1, <2>4, <2>5, <2>6, <2>7, <2>8, <2>9, PartStep
<1>5. CASE /\ State /\ Incomplete(RetState) # "none"
           /\ Commit(Fails(RetState, Incomplete(RetState))) /\ UNCHANGED <<State, def>>
  <2>1. Incomplete(RetState) \in StructureErrors /\ Incomplete(RetState) \in Codes
    BY <1>5, IncompleteIs, StructureCodes
  <2>2. result' = Incomplete(RetState)
    <3>1. Fails(RetState, Incomplete(RetState)).e = Incomplete(RetState)
      BY <1>3, <2>1, ClosedTyped, FailsTyped
    <3> QED BY <1>5, <3>1 DEF Commit
  <2>3. result' \notin {"ok", "end of stream"}
    BY <2>1, <2>2 DEF StructureErrors
  <2> QED BY <1>1, <1>5, <2>3, WordStep
<1>6. CASE /\ ~State /\ Commit(Fails(RetState, "end of definition with no beginning"))
           /\ UNCHANGED <<State, history>>
  <2>1. result' = "end of definition with no beginning"
    <3>1. "end of definition with no beginning" \in Codes
      BY DEF Codes
    <3>2. Fails(RetState, "end of definition with no beginning").e = "end of definition with no beginning"
      BY <1>3, <3>1, ClosedTyped, FailsTyped
    <3> QED BY <1>6, <3>2 DEF Commit
  <2>2. UNCHANGED <<State, def>>
    BY <1>6 DEF history
  <2> QED BY <1>1, <2>1, <2>2, WordStep
<1> QED BY <1>4, <1>5, <1>6, SemicolonCases

-----------------------------------------------------------------------------
(* Nested streams *)

LEMMA UpToDoneStep ==
  ASSUME TypeInv, StreamInv, UpToDone
  PROVE  StreamInv'
<1>1. /\ Top.doing = "up to" /\ result = "none" /\ result' = "none" /\ frames' = Idle
  BY DEF UpToDone, Doing
<1>2. Fine /\ Top.doing # "read" /\ Interpreting(Top)
  BY <1>1 DEF Fine, Interpreting
<1>3. TopChanges(frames') /\ frames'[Depth].doing = "read" /\ frames'[Depth].word = "none"
      /\ frames'[Depth].pOpCodes = Top.pOpCodes
  BY <1>1, IdleChanges
<1>4. CASE Top.word = ":" /\ CPP_colon
  BY <1>4, ColonStep
<1>5. CASE Top.word = "CREATE" /\ CPP_create
  <2>1. ~Open
    BY <1>2, <1>5, InterpretingIs
  <2>2. UNCHANGED <<State, pCurrentOps, pPreviousOps, def>>
    BY <1>5 DEF CPP_create, history
  <2> QED BY <1>1, <1>2, <1>3, <2>1, <2>2, IdleStep
<1>6. CASE Top.word = "COMPILE," /\ CompileComma
  <2>1. Bracketed /\ def.brackets = Depth /\ pCurrentOps = Top.pOpCodes
    BY <1>2, <1>6, RunningIs, GoBack DEF FrameOk, StreamsOk
  <2>2. Top.pOpCodes = Temp
    BY <1>2, <2>1, RunningIs DEF VectorOk
  <2>3. UNCHANGED <<State, pCurrentOps, pPreviousOps, def>> /\ pNewWord' = pNewWord
    BY <1>6, <2>1, <2>2 DEF CompileComma
  <2> QED BY <1>1, <1>2, <1>3, <2>3, IdleStep
<1>7. CASE Top.word = "included"
           /\ UNCHANGED <<State, pCurrentOps, pPreviousOps, pNewWord, ctl, history>>
  <2>1. UNCHANGED <<State, pCurrentOps, pPreviousOps, def>> /\ pNewWord' = pNewWord
    BY <1>7 DEF history
  <2> QED BY <1>1, <1>2, <1>3, <2>1, IdleStep
<1> QED BY <1>4, <1>5, <1>6, <1>7 DEF UpToDone

(* A frame f that calls ForthCompiler() becomes g: INCLUDE goes on at its   *)
(* end as another word.                                                    *)
Calls(kind, f, g) ==
  /\ g.doing = f.doing /\ g.pOpCodes = f.pOpCodes
  /\ g.word = f.word \/ (f.doing = "up to" /\ g.word = "included")
  /\ kind = "included" => g.word = "included"

(* A nested call writes to the vector of the definition, or to its own.    *)
LEMMA NestStep ==
  ASSUME TypeInv, StreamInv, NEW kind \in {"evaluate", "included"}, NEW v \in Vectors, NEW fs,
         Nest(kind, v, fs), TopChanges(fs), compiled' = <<>>, Top.doing # "read",
         Calls(kind, Top, fs[Depth]), v = IF State THEN pCurrentOps ELSE Depth + 1
  PROVE  StreamInv'
<1>1. /\ result = "none" /\ result' = "none" /\ pCurrentOps' = v
      /\ UNCHANGED <<State, pPreviousOps, pNewWord, def>>
  BY DEF Nest, history
<1>2. Fine
  BY <1>1 DEF Fine
<1>3. StreamsOk /\ StateOk /\ FramesOk /\ VectorsOk /\ DefOk /\ FrameOk(Depth, Top)
  BY <1>2, RunningIs
<1>4. PICK d \in Nat \ {0} : d = Depth /\ Top = frames[d] /\ d \in 1 .. d /\ Len(fs) = d
  BY TopIs DEF TopChanges
<1>4a. Calls(kind, Top, fs[d])
  BY <1>4
<1>5. GoesBack(fs[d]) => GoesBack(Top)
  <2>1. CASE fs[d].word = Top.word
    BY <1>4a, <2>1 DEF GoesBack, Calls
  <2>2. CASE Top.doing = "up to" /\ fs[d].word = "included"
    <3>1. "included" # "COMPILE,"
      BY Zenon
    <3> QED BY <1>4a, <2>2, <3>1 DEF GoesBack, Calls
  <2> QED BY <1>4a, <2>1, <2>2 DEF Calls
<1>6. GoesBack(fs[d]) => pPreviousOps # NoOps
  <2>1. GoesBack(Top) => pPreviousOps # NoOps
    BY <1>4, TopKept
  <2> QED BY <1>5, <2>1
<1>7. /\ Depth' = d + 1 /\ frames'[d + 1] = Frame(kind, v, pCurrentOps)
      /\ \A i \in 1 .. d : frames'[i] = fs[i]
  BY <1>4, <1>6, NestTyped
<1> DEFINE g == Frame(kind, v, pCurrentOps)
<1>8. /\ g.kind = kind /\ g.pOpCodes = v /\ g.pOldOps = pCurrentOps /\ g.doing = "read" /\ g.word = "none"
  BY DEF Frame
<1> HIDE DEF g
<1>9. frames'[d + 1] = g /\ Top' = g
  <2>1. Top' = frames'[Depth']
    BY TopIs
  <2> QED BY <1>7, <2>1 DEF g
<1>10. /\ \A i \in 1 .. d : i # d => frames'[i] = frames[i]
       /\ \A i \in 1 .. d : /\ frames'[i].kind = frames[i].kind /\ frames'[i].pOldOps = frames[i].pOldOps
                            /\ frames'[i].pOpCodes = frames[i].pOpCodes /\ frames'[i].doing = frames[i].doing
       /\ frames'[d] = fs[d]
  BY <1>4, <1>7, <1>4a DEF TopChanges, Calls
<1>11. \A i \in 1 .. d + 1 : i = d + 1 \/ i \in 1 .. d
  BY <1>4
<1>12. (Open' <=> Open) /\ (Bracketed' <=> Bracketed) /\ Temp' = Temp
  BY <1>1 DEF Open, Bracketed, Temp
<1>13. Open => DefOps' = DefOps
  <2>1. DefOps' = IF Bracketed' THEN pPreviousOps' ELSE pCurrentOps'
    BY DEF DefOps
  <2>2. Open /\ ~Bracketed => State
    BY <1>3, DefIs DEF StateOk, Open, Bracketed
  <2> QED BY <1>1, <1>12, <2>1, <2>2 DEF DefOps
<1>14. StreamsOk'
  <2>1. pCurrentOps' = Top'.pOpCodes /\ Top'.doing = "read"
    BY <1>1, <1>8, <1>9
  <2>2. \A i \in 1 .. d : frames'[i].doing # "read"
    BY <1>3, <1>4, <1>10 DEF StreamsOk
  <2>3. ASSUME NEW i \in 1 .. d
        PROVE  frames'[i + 1].pOldOps = frames'[i].pOpCodes
    <3>1. CASE i = d
      BY <1>3, <1>4, <1>8, <1>9, <1>10, <3>1 DEF StreamsOk
    <3>2. CASE i # d
      <4>1. i + 1 \in 1 .. d
        BY <3>2, Neighbours
      <4> QED BY <1>3, <1>4, <1>10, <3>2, <4>1 DEF StreamsOk
    <3> QED BY <3>1, <3>2
  <2> QED BY <1>1, <1>7, <1>11, <2>1, <2>2, <2>3 DEF StreamsOk
<1>15. StateOk'
  BY <1>1, <1>3 DEF StateOk
<1>16. FramesOk'
  <2>1. ASSUME NEW i \in 1 .. d + 1
        PROVE  FrameOk(i, frames[i])'
    <3>1. CASE i = d + 1
      <4>1. ~GoesBack(g)
        BY <1>8, GoBack
      <4>2. frames'[i] = g
        BY <1>9, <3>1
      <4> QED BY <1>8, <4>1, <4>2 DEF FrameOk, Interpreting, GoesBack
    <3>2. CASE i \in 1 .. d /\ i # d
      <4>1. FrameOk(i, frames[i]) /\ frames'[i] = frames[i]
        BY <1>3, <1>4, <1>10, <3>2 DEF FramesOk
      <4> QED BY <1>1, <1>12, <4>1 DEF FrameOk, Apart, GoesBack, Interpreting
    <3>3. CASE i = d
      <4>1. FrameOk(d, fs[d])
        <5>1. GoesBack(fs[d]) => Bracketed /\ def.brackets = d
          BY <1>3, <1>4, <1>5 DEF FrameOk
        <5>2. fs[d].word # "none" => fs[d].doing = "up to"
          <6>1. CASE fs[d].word = Top.word
            BY <1>3, <1>4, <1>4a, <6>1 DEF FrameOk, Calls
          <6>2. CASE Top.doing = "up to" /\ fs[d].word = "included"
            BY <1>3, <1>4, <1>4a, <6>2 DEF FrameOk, Calls
          <6> QED BY <1>4a, <6>1, <6>2 DEF Calls
        <5>3. Interpreting(fs[d]) => Apart(d, fs[d])
          BY <1>3, <1>4, <1>4a DEF FrameOk, Apart, Interpreting, Calls
        <5> QED BY <5>1, <5>2, <5>3 DEF FrameOk
      <4>2. frames'[i] = fs[d]
        BY <1>10, <3>3
      <4> QED BY <1>1, <1>12, <3>3, <4>1, <4>2 DEF FrameOk, Apart, GoesBack, Interpreting
    <3> QED BY <1>11, <3>1, <3>2, <3>3
  <2>2. ASSUME NEW i \in 1 .. d + 1, frames'[i].kind = "included", i # 1
        PROVE  frames'[i - 1].word = "included"
    <3>1. CASE i = d + 1
      <4>1. kind = "included" /\ i - 1 = d
        BY <1>4, <1>8, <1>9, <2>2, <3>1
      <4> QED BY <1>4, <1>10, <1>4a, <4>1 DEF Calls
    <3>2. CASE i \in 1 .. d
      <4>1. frames[i - 1].word = "included"
        BY <1>3, <1>4, <1>10, <2>2, <3>2 DEF FramesOk
      <4>2. i - 1 \in 1 .. d /\ i - 1 # d
        BY <2>2, <3>2, Neighbours
      <4> QED BY <1>10, <4>1, <4>2
    <3> QED BY <1>11, <3>1, <3>2
  <2> QED BY <1>7, <2>1, <2>2 DEF FramesOk
<1>17. VectorsOk'
  <2>1. ASSUME NEW i \in 1 .. d
        PROVE  VectorOk(i, frames[i].pOpCodes)'
    <3>1. VectorOk(i, frames[i].pOpCodes) /\ frames'[i].pOpCodes = frames[i].pOpCodes
      BY <1>3, <1>4, <1>10 DEF VectorsOk
    <3> QED BY <1>1, <1>12, <1>13, <3>1 DEF VectorOk
  <2>2. frames'[d + 1].pOpCodes = v
    BY <1>8, <1>9
  <2>3. /\ v \in 0 .. d + 1
        /\ v = Temp <=> Bracketed /\ def.brackets = d + 1
        /\ Bracketed /\ d + 1 > def.brackets => v = d + 1
        /\ Open /\ def.stream <= d + 1 /\ (Bracketed => d + 1 < def.brackets) => v = DefOps
    <3>1. VectorOk(d, pCurrentOps)
      BY <1>3, <1>4 DEF VectorsOk, StreamsOk
    <3>2. Bracketed => def.brackets <= d /\ def.brackets \in Nat
      BY <1>3, <1>4, DefIs
    <3>3. CASE State
      <4>1. def.phase = "body" /\ ~Bracketed /\ Open /\ DefOps = pCurrentOps
        BY <1>3, <3>3 DEF StateOk, Bracketed, Open, DefOps
      <4>2. v = pCurrentOps /\ v \in 0 .. d /\ v # Temp
        BY <3>1, <3>3, <4>1 DEF VectorOk
      <4>3. v \in 0 .. d + 1
        BY <1>4, <4>2
      <4> QED BY <4>1, <4>2, <4>3
    <3>4. CASE ~State
      <4>1. v = d + 1 /\ v # Temp /\ v \in 0 .. d + 1
        BY <1>4, <3>4 DEF Temp
      <4>2. Open => Bracketed
        BY <1>3, <3>4, DefIs DEF StateOk, Open, Bracketed
      <4>3. Bracketed => def.brackets # d + 1 /\ ~(d + 1 < def.brackets)
        BY <1>4, <3>2
      <4> QED BY <4>1, <4>2, <4>3
    <3> QED BY <3>3, <3>4
  <2>4. ASSUME NEW i \in 1 .. d + 1
        PROVE  VectorOk(i, frames[i].pOpCodes)'
    <3>1. CASE i = d + 1
      BY <1>1, <1>12, <1>13, <2>2, <2>3, <3>1 DEF VectorOk
    <3> QED BY <1>11, <2>1, <3>1
  <2> QED BY <1>7, <2>4 DEF VectorsOk
<1>18. DefOk'
  <2>1. Open => def.stream \in 1 .. d + 1 /\ pNewWord = ":" /\ DefOps \in 1 .. def.stream
    <3>1. \A n \in 1 .. d : n \in 1 .. d + 1
      BY <1>4
    <3> QED BY <1>3, <1>4, <3>1 DEF DefOk
  <2>2. Bracketed => def.brackets \in def.stream .. d + 1
    <3>1. Bracketed => def.stream \in Nat /\ def.brackets \in Nat /\ def.brackets <= d /\ def.stream <= def.brackets
      BY <1>3, <1>4, DefIs
    <3> QED BY <1>4, <3>1
  <2> QED BY <1>1, <1>7, <1>12, <1>13, <2>1, <2>2 DEF DefOk
<1> QED BY <1>14, <1>15, <1>16, <1>17, <1>18 DEF StreamInv

LEMMA EvaluateStep ==
  ASSUME TypeInv, StreamInv, CPP_evaluate, compiled' = <<>>
  PROVE  StreamInv'
<1> DEFINE v == IF State THEN pCurrentOps ELSE Depth + 1
<1>1. Nest("evaluate", v, frames) /\ Top.doing # "read"
  BY DEF CPP_evaluate, EvaluateOps, OwnOps, Nest, Running, Doing
<1>2. v \in Vectors
  <2>1. Depth < MaxFrames
    BY <1>1 DEF Nest
  <2>2. Depth + 1 \in Vectors
    BY <2>1, OwnOpsTyped DEF TypeInv
  <2>3. pCurrentOps \in Vectors
    BY Facts DEF TypeInv
  <2> QED BY <2>2, <2>3
<1>3. TopChanges(frames) /\ Top = frames[Depth]
  BY TopKept, TopIs
<1>4. "evaluate" \in {"evaluate", "included"} /\ "evaluate" # "included"
  OBVIOUS
<1>6. Calls("evaluate", Top, frames[Depth])
  BY <1>3 DEF Calls
<1> HIDE DEF v
<1>5. v = IF State THEN pCurrentOps ELSE Depth + 1
  BY DEF v
<1> QED BY <1>1, <1>2, <1>3, <1>4, <1>5, <1>6, NestStep

LEMMA IncludeStep ==
  ASSUME TypeInv, StreamInv, CPP_include, compiled' = <<>>
  PROVE  StreamInv'
<1> DEFINE fs == SetTop("word", "included")
           v == Depth + 1
<1>1. Nest("included", v, fs) /\ Top.doing = "up to" /\ Top.doing # "read" /\ result = "none"
  BY DEF CPP_include, OwnOps, Nest, Doing
<1>2. v \in Vectors
  <2>1. Depth < MaxFrames
    BY <1>1 DEF Nest
  <2> QED BY <2>1, OwnOpsTyped DEF TypeInv
<1>3. /\ TopChanges(fs) /\ fs[Depth].doing = Top.doing /\ fs[Depth].word = "included"
      /\ fs[Depth].pOpCodes = Top.pOpCodes
  BY SetWordChanges
<1>7. Calls("included", Top, fs[Depth])
  BY <1>1, <1>3 DEF Calls
<1>4. ~State
  BY <1>1, InterpretingIs DEF Interpreting, Fine
<1>5. v = IF State THEN pCurrentOps ELSE Depth + 1
  BY <1>4
<1>6. "included" \in {"evaluate", "included"}
  OBVIOUS
<1> HIDE DEF v, fs
<1> QED BY <1>1, <1>2, <1>3, <1>5, <1>6, <1>7, NestStep

LEMMA EndOfStreamStep ==
  ASSUME KeepsStreams, TypeInv, StreamInv, EndOfStream
  PROVE  StreamInv'
<1>1. /\ Reading /\ UNCHANGED <<State, pCurrentOps, pPreviousOps, frames, pNewWord, def>>
      /\ result' = IF State THEN "end of stream" ELSE "ok"
  BY DEF EndOfStream, history
<1>2. /\ def.phase = "brackets" => def.brackets # Depth
      /\ def.phase = "body" => Depth = Main \/ def.stream # Depth
  BY RulesKept DEF EndOfStream
<1>3. Fine /\ Top.doing = "read" /\ StateOk /\ FramesOk /\ DefOk /\ FrameOk(Depth, Top)
  BY <1>1, ReadingIs
<1>4. PICK d \in Nat \ {0} : d = Depth /\ Top = frames[d] /\ d \in 1 .. d
  BY TopIs
<1>5. State => Top.kind # "included"
  <2> SUFFICES ASSUME State, Top.kind = "included"
               PROVE  FALSE
    OBVIOUS
  <2>1. d # 1
    BY <1>4 DEF TypeInv, CallersInv
  <2>2. frames[d - 1].word = "included" /\ d - 1 \in 1 .. d
    BY <1>3, <1>4, <2>1, Neighbours DEF FramesOk
  <2>3. Interpreting(frames[d - 1]) /\ FrameOk(d - 1, frames[d - 1])
    BY <1>3, <1>4, <2>2 DEF FramesOk, FrameOk, Interpreting
  <2>4. def.phase = "body" /\ Open /\ ~Bracketed
    BY <1>3 DEF StateOk, Open, Bracketed
  <2>5. def.stream > d - 1
    BY <2>3, <2>4 DEF FrameOk, Apart
  <2>6. def.stream <= d /\ def.stream \in Nat /\ def.stream # d
    BY <1>2, <1>3, <1>4, <2>1, <2>4, DefIs DEF Main
  <2> QED BY <2>5, <2>6
<1>6. TopChanges(frames') /\ frames'[Depth] = Top
  BY <1>1, TopKept, TopIs
<1>7. Bracketed => def.brackets # Depth
  BY <1>2 DEF Bracketed
<1>8. State \in BOOLEAN
  BY Facts DEF TypeInv
<1>9. /\ result' = "ok" => ~State
      /\ result' = "end of stream" => State /\ Top.kind # "included"
  BY <1>1, <1>5, <1>8
<1> QED BY <1>1, <1>2, <1>3, <1>6, <1>7, <1>9, TopStep

(* The run of a line, a bracket or a word fails: an error is under way.    *)
LEMMA RunFailsStep ==
  ASSUME TypeInv, StreamInv, NEW e \in Codes, RunFails(e)
  PROVE  StreamInv'
<1>1. Top.doing # "read" /\ e # "none" /\ result' = e /\ (result = e \/ (result = "none" /\ e = "vm"))
  BY DEF RunFails, Running, Doing
<1>2. Fine => result = "none"
  BY <1>1, RunningIs
<1>3. ~Fine'
  BY <1>1, <1>2 DEF Fine
<1> QED BY <1>3 DEF StreamInv

(* main() starts over with the next line of the console.                   *)
LEMMA MainStep ==
  ASSUME frames' = <<Frame("main", Main, NoOps)>>, pCurrentOps' = Main, result' = "none",
         State' = (def'.phase = "body"), def'.phase \in {"none", "body"},
         def'.phase = "body" => def'.stream = 1 /\ pNewWord' = ":"
  PROVE  StreamInv'
<1> DEFINE g == Frame("main", Main, NoOps)
<1>1. /\ g.kind = "main" /\ g.pOpCodes = Main /\ g.doing = "read" /\ g.word = "none"
  BY DEF Frame
<1>2. frames' = <<g>>
  OBVIOUS
<1> HIDE DEF g
<1>3. Depth' = 1 /\ Top' = g /\ frames'[1] = g
  BY <1>2 DEF Depth, Top, Last
<1>4. ~Bracketed' /\ (Open' => def'.phase = "body")
  BY DEF Bracketed, Open
<1>5. DefOps' = Main
  <2>1. DefOps' = IF Bracketed' THEN pPreviousOps' ELSE pCurrentOps'
    BY DEF DefOps
  <2> QED BY <1>4, <2>1
<1>6. \A i \in 1 .. 1 : i = 1
  OBVIOUS
<1>7. StreamsOk'
  BY <1>1, <1>3, <1>6 DEF StreamsOk
<1>8. StateOk'
  BY DEF StateOk
<1>9. FramesOk'
  <2>1. ~GoesBack(g)
    BY <1>1, GoBack
  <2>2. FrameOk(1, frames[1])'
    BY <1>1, <1>3, <2>1 DEF FrameOk, Interpreting, GoesBack
  <2> QED BY <1>1, <1>3, <1>6, <2>2 DEF FramesOk
<1>10. VectorsOk'
  <2>1. VectorOk(1, frames[1].pOpCodes)'
    BY <1>1, <1>3, <1>4, <1>5 DEF VectorOk, Main, Temp
  <2> QED BY <1>3, <1>6, <2>1 DEF VectorsOk
<1>11. DefOk'
  BY <1>3, <1>4, <1>5 DEF DefOk, Main
<1> QED BY <1>7, <1>8, <1>9, <1>10, <1>11 DEF StreamInv

(* A nested call ends well: the definition began before it, and goes on    *)
(* in the vector of the caller.                                            *)
LEMMA ReturnIs ==
  ASSUME TypeInv, StreamInv, Fine, EndCompile, Top.kind # "main"
  PROVE  /\ Depth - 1 \in Nat \ {0} /\ State' = State
         /\ pCurrentOps' = frames[Depth - 1].pOpCodes
         /\ Open => /\ def.stream <= Depth - 1 /\ def.stream \in Nat /\ DefOps' = DefOps
<1>1. /\ Top.doing = "read" /\ result # "none" /\ State' = (State /\ result = "end of stream")
      /\ frames' = Front(frames) /\ pCurrentOps' = Top.pOldOps
      /\ UNCHANGED <<pPreviousOps, pNewWord, def>>
  BY DEF EndCompile, Doing, StateAfter, Midway, OldOps, history
<1>2. StreamsOk /\ StateOk /\ FramesOk /\ VectorsOk /\ DefOk
  BY DEF StreamInv
<1>3. PICK d \in Nat \ {0} : d = Depth /\ Top = frames[d] /\ d \in 1 .. d
  BY TopIs
<1>4. d # 1
  <2>1. Depth \in 2 .. MaxFrames /\ MaxFrames \in Nat
    BY FrontChanges, TopIs
  <2>2. Depth # 1
    BY <2>1
  <2> QED BY <1>3, <2>2
<1>5. /\ d - 1 \in 1 .. d /\ d - 1 # d /\ d - 1 \in Nat \ {0}
  BY <1>4
<1>8. State' = State
  <2>1. State \in BOOLEAN
    BY Facts DEF TypeInv
  <2>2. result = "ok" \/ result = "end of stream"
    BY <1>1 DEF Fine
  <2>3. CASE result = "ok"
    BY <1>1, <1>2, <2>1, <2>3 DEF StateOk
  <2>4. CASE result = "end of stream"
    BY <1>1, <1>2, <2>1, <2>4 DEF StateOk
  <2> QED BY <2>2, <2>3, <2>4
<1>9. (Open' <=> Open) /\ (Bracketed' <=> Bracketed)
  BY <1>1 DEF Open, Bracketed
<1>10. pCurrentOps' = frames[d - 1].pOpCodes
  <2>1. (d - 1) + 1 = d
    BY <1>3
  <2> QED BY <1>1, <1>2, <1>3, <1>5, <2>1 DEF StreamsOk
<1>11. Open => def.stream <= d - 1 /\ def.stream \in Nat
  <2>1. Open => def.stream <= d /\ def.stream \in Nat
    BY <1>2, <1>3, DefIs
  <2>2. CASE Bracketed
    <3>1. def.brackets # d /\ def.brackets <= d /\ def.stream <= def.brackets /\ def.brackets \in Nat
      BY <1>1, <1>2, <1>3, <2>2, DefIs DEF StateOk
    <3> QED BY <1>3, <2>1, <3>1
  <2>3. CASE Open /\ ~Bracketed
    <3>1. def.phase = "body"
      BY <1>2, <2>3, DefIs DEF Open, Bracketed
    <3>2. def.stream # d
      BY <1>1, <1>2, <1>3, <1>4, <3>1 DEF StateOk, Main
    <3> QED BY <1>3, <2>1, <2>3, <3>2
  <2> QED BY <2>2, <2>3
<1>12. Open => DefOps' = DefOps
  <2>1. DefOps' = IF Bracketed' THEN pPreviousOps' ELSE pCurrentOps'
    BY DEF DefOps
  <2>2. CASE Open /\ ~Bracketed
    <3>1. frames[d - 1].pOpCodes = DefOps
      BY <1>2, <1>3, <1>5, <1>11, <2>2 DEF VectorsOk, VectorOk
    <3> QED BY <1>9, <1>10, <2>1, <2>2, <3>1
  <2> QED BY <1>1, <1>9, <2>1, <2>2 DEF DefOps
<1> QED BY <1>3, <1>5, <1>8, <1>10, <1>11, <1>12

LEMMA ReturnStep ==
  ASSUME TypeInv, StreamInv, Fine, EndCompile, Top.kind # "main"
  PROVE  StreamInv'
<1>1. /\ Top.doing = "read" /\ result # "none" /\ State' = (State /\ result = "end of stream")
      /\ result' = IF result = "ok" \/ (Top.kind = "evaluate" /\ result = "end of stream") THEN "none" ELSE result
      /\ frames' = Front(frames) /\ pCurrentOps' = Top.pOldOps
      /\ UNCHANGED <<pPreviousOps, pNewWord, def>>
  BY DEF EndCompile, Doing, StateAfter, Midway, OldOps, history
<1>2. StreamsOk /\ StateOk /\ FramesOk /\ VectorsOk /\ DefOk
  BY DEF StreamInv
<1>3. PICK d \in Nat \ {0} : d = Depth /\ Top = frames[d] /\ d \in 1 .. d
  BY TopIs
<1>4. /\ Len(frames') = d - 1 /\ \A i \in 1 .. d - 1 : frames'[i] = frames[i]
      /\ d # 1
  <2>1. Depth \in 2 .. MaxFrames /\ MaxFrames \in Nat
    BY FrontChanges, TopIs
  <2>2. Depth # 1
    BY <2>1
  <2> QED BY <1>1, <1>3, <2>2, FrontChanges
<1>5. /\ d - 1 \in 1 .. d /\ d - 1 # d /\ d - 1 \in Nat \ {0} /\ d - 1 \in 1 .. d - 1
      /\ \A i \in 1 .. d - 1 : i \in 1 .. d /\ i # d
  BY <1>4
<1>6. Depth' = d - 1 /\ Top' = frames'[d - 1] /\ frames'[d - 1] = frames[d - 1] /\ Temp' = Temp
  BY <1>4, <1>5 DEF Depth, Top, Last, Temp
<1>7. result' = "none"
  <2>1. Top.kind \in {"evaluate", "included"}
    BY Facts, FrameFields DEF TypeInv
  <2> QED BY <1>1, <1>2, <2>1 DEF StateOk, Fine
<1>8. State' = State
  BY ReturnIs
<1>9. (Open' <=> Open) /\ (Bracketed' <=> Bracketed)
  BY <1>1 DEF Open, Bracketed
<1>10. pCurrentOps' = frames[d - 1].pOpCodes
  BY <1>3, ReturnIs
<1>11. Open => def.stream <= d - 1 /\ def.stream \in Nat
  BY <1>3, ReturnIs
<1>12. Open => DefOps' = DefOps
  BY ReturnIs
<1>13. StreamsOk'
  <2>1. \A i \in 1 .. d - 1 : i # d - 1 => i + 1 \in 1 .. d - 1
    BY <1>5, Neighbours
  <2>2. ASSUME NEW i \in 1 .. d - 1, i # d - 1
        PROVE  frames'[i].doing # "read" /\ frames'[i + 1].pOldOps = frames'[i].pOpCodes
    <3>1. frames[i].doing # "read" /\ frames[i + 1].pOldOps = frames[i].pOpCodes
      BY <1>2, <1>3, <1>5 DEF StreamsOk
    <3> QED BY <1>4, <2>1, <2>2, <3>1
  <2> QED BY <1>6, <1>7, <1>10, <2>2 DEF StreamsOk
<1>14. StateOk'
  BY <1>1, <1>2, <1>7, <1>8 DEF StateOk
<1>15. FramesOk'
  <2>1. ASSUME NEW i \in 1 .. d - 1
        PROVE  FrameOk(i, frames[i])'
    <3>1. FrameOk(i, frames[i]) /\ frames'[i] = frames[i]
      BY <1>2, <1>3, <1>4, <1>5 DEF FramesOk
    <3> QED BY <1>1, <1>9, <3>1 DEF FrameOk, Apart, GoesBack, Interpreting
  <2>2. ASSUME NEW i \in 1 .. d - 1, frames'[i].kind = "included", i # 1
        PROVE  frames'[i - 1].word = "included"
    <3>1. frames[i - 1].word = "included"
      BY <1>2, <1>3, <1>4, <1>5, <2>2 DEF FramesOk
    <3>2. i - 1 \in 1 .. d - 1
      BY <1>5, <2>2, Neighbours
    <3> QED BY <1>4, <3>1, <3>2
  <2> QED BY <1>6, <2>1, <2>2 DEF FramesOk
<1>16. VectorsOk'
  <2>1. ASSUME NEW i \in 1 .. d - 1
        PROVE  VectorOk(i, frames[i].pOpCodes)'
    <3>1. VectorOk(i, frames[i].pOpCodes) /\ frames'[i] = frames[i]
      BY <1>2, <1>3, <1>4, <1>5 DEF VectorsOk
    <3> QED BY <1>1, <1>6, <1>9, <1>12, <3>1 DEF VectorOk
  <2> QED BY <1>6, <2>1 DEF VectorsOk
<1>17. DefOk'
  <2>1. Open => def.stream \in 1 .. d - 1 /\ pNewWord = ":" /\ DefOps \in 1 .. def.stream
    <3>1. Open => 1 <= def.stream
      BY <1>2, DefIs
    <3>2. Open => def.stream \in 1 .. d - 1
      BY <1>5, <1>11, <3>1
    <3> QED BY <1>2, <3>2 DEF DefOk
  <2>2. Bracketed => def.brackets \in def.stream .. d - 1
    <3>1. Bracketed => def.brackets # d /\ def.brackets <= d /\ def.stream <= def.brackets
                       /\ def.brackets \in Nat /\ def.stream \in Nat
      BY <1>1, <1>2, <1>3, DefIs DEF StateOk
    <3> QED BY <1>3, <3>1
  <2> QED BY <1>1, <1>6, <1>9, <1>12, <2>1, <2>2 DEF DefOk
<1> QED BY <1>13, <1>14, <1>15, <1>16, <1>17 DEF StreamInv

(* The stream of main() ends well: no brackets are open.                   *)
LEMMA MainIs ==
  ASSUME TypeInv, StreamInv, Fine, EndCompile, Top.kind = "main"
  PROVE  /\ Depth = 1 /\ ~Bracketed /\ State' = State
         /\ def.phase \in {"none", "body"} /\ (Open => def.stream = 1)
<1>1. /\ Top.doing = "read" /\ result # "none" /\ State' = (State /\ result = "end of stream")
  BY DEF EndCompile, Doing, StateAfter, Midway
<1>9. State \in BOOLEAN
  BY Facts DEF TypeInv
<1>2. StateOk /\ DefOk
  BY DEF StreamInv
<1>3. Depth = 1
  <2>1. Top = frames[Depth] /\ Depth \in 1 .. Depth
    BY TopIs
  <2> QED BY <2>1 DEF TypeInv, CallersInv
<1>4. Open => def.stream = 1
  BY <1>2, <1>3, DefIs
<1>5. ~Bracketed
  <2>1. Bracketed => def.brackets # 1
    BY <1>1, <1>2, <1>3 DEF StateOk
  <2>2. Bracketed => def.stream <= def.brackets /\ def.brackets <= 1 /\ Open /\ def.brackets \in Nat
    BY <1>2, <1>3, DefIs
  <2> QED BY <1>4, <2>1, <2>2
<1>6. def.phase \in {"none", "body"}
  BY <1>2, <1>5, DefIs DEF Bracketed
<1>7. State' = State
  <2>1. result = "ok" \/ result = "end of stream"
    BY <1>1 DEF Fine
  <2>2. CASE result = "ok"
    BY <1>1, <1>9, <1>2, <2>2 DEF StateOk
  <2>3. CASE result = "end of stream"
    BY <1>1, <1>9, <1>2, <2>3 DEF StateOk
  <2> QED BY <2>1, <2>2, <2>3
<1> QED BY <1>3, <1>4, <1>5, <1>6, <1>7

LEMMA EndCompileStep ==
  ASSUME TypeInv, StreamInv, EndCompile
  PROVE  StreamInv'
<1>1. /\ Top.doing = "read" /\ result # "none" /\ State' = (State /\ result = "end of stream")
  BY DEF EndCompile, Doing, StateAfter, Midway
<1>2. State \in BOOLEAN
  BY Facts DEF TypeInv
<1>3. CASE Top.kind = "main" /\ ~Fine
  <2>1. /\ frames' = <<Frame("main", Main, NoOps)>> /\ pCurrentOps' = Main /\ result' = "none"
        /\ def' = NoDef /\ State' = FALSE
    BY <1>1, <1>2, <1>3 DEF EndCompile, Fine
  <2>2. def'.phase = "none"
    BY <2>1 DEF NoDef
  <2>3. State' = (def'.phase = "body") /\ def'.phase \in {"none", "body"} /\ def'.phase # "body"
    BY <2>1, <2>2
  <2> QED BY <2>1, <2>3, MainStep
<1>4. CASE Top.kind = "main" /\ Fine
  <2>1. /\ frames' = <<Frame("main", Main, NoOps)>> /\ pCurrentOps' = Main /\ result' = "none"
        /\ def' = def /\ pNewWord' = pNewWord
    BY <1>1, <1>4 DEF EndCompile, Fine, history
  <2>2. StateOk /\ DefOk
    BY <1>4 DEF StreamInv
  <2>3. Depth = 1 /\ State' = State /\ def.phase \in {"none", "body"} /\ (Open => def.stream = 1)
    BY <1>4, MainIs
  <2>8. State' = (def'.phase = "body") /\ def'.phase \in {"none", "body"}
    BY <2>1, <2>2, <2>3 DEF StateOk
  <2>9. def'.phase = "body" => def'.stream = 1 /\ pNewWord' = ":"
    BY <2>1, <2>2, <2>3 DEF Open, DefOk
  <2> QED BY <2>1, <2>8, <2>9, MainStep
<1>5. CASE Top.kind # "main" /\ ~Fine
  <2>1. result' = IF result = "ok" \/ (Top.kind = "evaluate" /\ result = "end of stream") THEN "none" ELSE result
    BY <1>5 DEF EndCompile, Midway
  <2>2. ~Fine'
    BY <1>5, <2>1 DEF Fine
  <2> QED BY <2>2 DEF StreamInv
<1>6. CASE Top.kind # "main" /\ Fine
  BY <1>6, ReturnStep
<1> QED BY <1>3, <1>4, <1>5, <1>6

-----------------------------------------------------------------------------
(* The invariant holds of every behaviour                                  *)

LEMMA StreamInit ==
  ASSUME Init
  PROVE  StreamInv
<1> DEFINE g == Frame("main", Main, NoOps)
<1>1. /\ g.kind = "main" /\ g.pOpCodes = Main /\ g.doing = "read" /\ g.word = "none"
  BY DEF Frame
<1>2. frames = <<g>> /\ pCurrentOps = Main /\ result = "none" /\ State = FALSE /\ def = NoDef
  BY DEF Init
<1> HIDE DEF g
<1>3. Depth = 1 /\ Top = g /\ frames[1] = g
  BY <1>2 DEF Depth, Top, Last
<1>4. def.phase = "none"
  BY <1>2 DEF NoDef
<1>5. ~Open /\ ~Bracketed
  BY <1>4 DEF Open, Bracketed
<1>6. \A i \in 1 .. 1 : i = 1
  OBVIOUS
<1>7. StreamsOk
  BY <1>1, <1>2, <1>3, <1>6 DEF StreamsOk
<1>8. StateOk
  BY <1>2, <1>4 DEF StateOk
<1>9. FramesOk
  <2>1. ~GoesBack(g)
    BY <1>1, GoBack
  <2>2. FrameOk(1, frames[1])
    BY <1>1, <1>3, <2>1 DEF FrameOk, Interpreting
  <2> QED BY <1>1, <1>3, <1>6, <2>2 DEF FramesOk
<1>10. VectorsOk
  <2>1. VectorOk(1, frames[1].pOpCodes)
    BY <1>1, <1>3, <1>5 DEF VectorOk, Main, Temp
  <2> QED BY <1>3, <1>6, <2>1 DEF VectorsOk
<1>11. DefOk
  BY <1>5 DEF DefOk
<1> QED BY <1>7, <1>8, <1>9, <1>10, <1>11 DEF StreamInv

LEMMA StreamStep ==
  ASSUME KeepsStreams, TypeInv, StreamInv, [Next]_vars
  PROVE  StreamInv'
<1>1. CASE CPP_semicolon
  BY <1>1, SemicolonStep
<1>2. CASE \E t \in Words : StructureWord(t) \/ Literal(t) \/ CompiledWord(t) \/ NondeferredWord(t)
  BY <1>2, StructureWordStep, LiteralStep, CompiledWordStep, NondeferredWordStep
<1>3. CASE UnknownWord \/ CPP_lbracket \/ CPP_rbracket \/ Macro \/ EndOfLine
  BY <1>3, UnknownWordStep, LbracketStep, RunsCodeStep
<1>4. CASE UpToDone \/ BracketDone \/ MacroDone \/ LineDone
  BY <1>4, UpToDoneStep, BracketDoneStep, MacroDoneStep, LineDoneStep
<1>5. CASE \E e \in Codes : RunFails(e)
  BY <1>5, RunFailsStep
<1>6. CASE EndOfStream \/ EndCompile
  BY <1>6, EndOfStreamStep, EndCompileStep
<1>7. CASE compiled' = <<>> /\ (CPP_evaluate \/ CPP_include)
  BY <1>7, EvaluateStep, IncludeStep
<1>8. CASE UNCHANGED vars
  <2>1. TopChanges(frames') /\ UNCHANGED <<State, pCurrentOps, pPreviousOps, frames, pNewWord, def, result>>
    BY <1>8, TopKept DEF vars
  <2>2. UNCHANGED <<Fine, StreamsOk, StateOk, FramesOk, VectorsOk, DefOk>>
    BY <2>1 DEF Fine, StreamsOk, StateOk, FramesOk, FrameOk, Apart, GoesBack, Interpreting, VectorsOk,
                VectorOk, DefOk, DefOps, Open, Bracketed, Depth, Top, Last, Temp, Main
  <2> QED BY <2>2 DEF StreamInv
<1> QED BY <1>1, <1>2, <1>3, <1>4, <1>5, <1>6, <1>7, <1>8 DEF Next

LEMMA StreamInvCorrect ==
  ASSUME KeepsStreams
  PROVE  Spec => [](TypeInv /\ StreamInv)
<1>1. Init => TypeInv /\ StreamInv
  BY TypeInit, StreamInit
<1>2. TypeInv /\ StreamInv /\ [Next]_vars => (TypeInv /\ StreamInv)'
  BY TypeStep, StreamStep
<1> QED BY <1>1, <1>2, PTL DEF Spec

(* Whenever a word is read, the frame writes it where the word would: its  *)
(* pOpCodes is pCurrentOps, whatever [, ], COMPILE, EVALUATE, INCLUDE and  *)
(* errors did before (ForthCompiler.cpp:348).                              *)
THEOREM OpsInStepCorrect ==
  ASSUME KeepsStreams
  PROVE  Spec => []OpsInStep
<1>1. TypeInv /\ StreamInv => OpsInStep
  BY ReadingIs DEF OpsInStep, StreamsOk
<1> QED BY <1>1, StreamInvCorrect, PTL

(* Whenever a word is read, STATE is what the source says it should be.    *)
THEOREM StateFollowsSourceCorrect ==
  ASSUME KeepsStreams
  PROVE  Spec => []StateFollowsSource
<1>1. TypeInv /\ StreamInv => StateFollowsSource
  BY ReadingIs DEF StateFollowsSource, StateOk
<1> QED BY <1>1, StreamInvCorrect, PTL

-----------------------------------------------------------------------------
(* The code a sequence of words asks for                                   *)

Asks(list) == FlattenSeq([k \in DOMAIN list |-> Meaning(list[k])])

(* f joins the first n of the sequences s, as FlattenSeq() does.           *)
Joins(f, s, n) == f = [i \in 1 .. n |-> IF i = 1 THEN s[i] ELSE f[i - 1] \o s[i]]

LEMMA JoinsAt ==
  ASSUME NEW f, NEW s, NEW n \in Nat, Joins(f, s, n)
  PROVE  /\ n # 0 => f[1] = s[1]
         /\ \A i \in 1 .. n : i # 1 => i - 1 \in 1 .. n /\ f[i] = f[i - 1] \o s[i]
<1>1. n # 0 => 1 \in 1 .. n
  OBVIOUS
<1>2. \A i \in 1 .. n : i # 1 => i - 1 \in 1 .. n
  OBVIOUS
<1>3. \A i \in 1 .. n : f[i] = IF i = 1 THEN s[i] ELSE f[i - 1] \o s[i]
  BY DEF Joins
<1> QED BY <1>1, <1>2, <1>3

LEMMA JoinsExists ==
  ASSUME NEW s, NEW n \in Nat, n # 0
  PROVE  \E f : Joins(f, s, n)
<1> DEFINE T == {m \in 1 .. n : ~ \E f : Joins(f, s, m)}
<1> SUFFICES ASSUME T # {}
             PROVE  FALSE
  OBVIOUS
<1>1. T \subseteq Nat
  OBVIOUS
<1>2. PICK m \in T : \A k \in T : m <= k
  <2> HIDE DEF T
  <2> QED BY <1>1, MinExists
<1>3. m \in 1 .. n /\ ~ \E f : Joins(f, s, m)
  OBVIOUS
<1>4. m # 1
  <2>1. Joins([i \in 1 .. 1 |-> s[i]], s, 1)
    <3> DEFINE g == [i \in 1 .. 1 |-> s[i]]
    <3>1. \A i \in 1 .. 1 : i = 1
      OBVIOUS
    <3>2. g = [i \in 1 .. 1 |-> IF i = 1 THEN s[i] ELSE g[i - 1] \o s[i]]
      BY <3>1
    <3> QED BY <3>2 DEF Joins
  <2> QED BY <1>3, <2>1
<1>5. m - 1 \in 1 .. n /\ ~(m <= m - 1)
  BY <1>3, <1>4
<1>6. PICK f : Joins(f, s, m - 1)
  BY <1>2, <1>5
<1> DEFINE g == [i \in 1 .. m |-> IF i = 1 THEN s[i] ELSE f[i - 1] \o s[i]]
<1>7. \A i \in 1 .. m - 1 : g[i] = f[i]
  <2>1. \A i \in 1 .. m - 1 : i \in 1 .. m
    BY <1>3
  <2>2. \A i \in 1 .. m - 1 : f[i] = IF i = 1 THEN s[i] ELSE f[i - 1] \o s[i]
    BY <1>6 DEF Joins
  <2> QED BY <2>1, <2>2
<1>8. \A i \in 1 .. m : i # 1 => i - 1 \in 1 .. m - 1
  BY <1>3
<1>9. g = [i \in 1 .. m |-> IF i = 1 THEN s[i] ELSE g[i - 1] \o s[i]]
  <2>1. \A i \in 1 .. m : i # 1 => g[i - 1] = f[i - 1]
    BY <1>7, <1>8
  <2> HIDE DEF g
  <2>2. [i \in 1 .. m |-> IF i = 1 THEN s[i] ELSE f[i - 1] \o s[i]]
          = [i \in 1 .. m |-> IF i = 1 THEN s[i] ELSE g[i - 1] \o s[i]]
    BY <2>1
  <2> QED BY <2>2 DEF g
<1> QED BY <1>3, <1>9 DEF Joins

LEMMA JoinsSame ==
  ASSUME NEW n \in Nat, NEW m \in Nat, n <= m, NEW s, NEW t, \A i \in 1 .. n : s[i] = t[i],
         NEW f, NEW g, Joins(f, s, n), Joins(g, t, m)
  PROVE  \A i \in 1 .. n : f[i] = g[i]
<1>8. /\ n # 0 => f[1] = s[1]
      /\ \A i \in 1 .. n : i # 1 => i - 1 \in 1 .. n /\ f[i] = f[i - 1] \o s[i]
  BY ONLY n \in Nat, Joins(f, s, n), JoinsAt
<1>9. /\ m # 0 => g[1] = t[1]
      /\ \A i \in 1 .. m : i # 1 => i - 1 \in 1 .. m /\ g[i] = g[i - 1] \o t[i]
  BY ONLY m \in Nat, Joins(g, t, m), JoinsAt
<1> DEFINE T == {i \in 1 .. n : f[i] # g[i]}
<1> SUFFICES ASSUME T # {}
             PROVE  FALSE
  OBVIOUS
<1>1. T \subseteq Nat
  OBVIOUS
<1>2. PICK k \in T : \A i \in T : k <= i
  <2> HIDE DEF T
  <2> QED BY <1>1, MinExists
<1>3. k \in 1 .. n /\ f[k] # g[k] /\ k \in 1 .. m /\ n # 0 /\ m # 0
  OBVIOUS
<1>4. k # 1
  <2>1. 1 \in 1 .. n => s[1] = t[1]
    OBVIOUS
  <2> HIDE DEF T
  <2> QED BY <1>3, <1>8, <1>9, <2>1
<1>5. k - 1 \in 1 .. n /\ ~(k <= k - 1)
  BY <1>3, <1>4
<1>6. f[k - 1] = g[k - 1]
  BY <1>2, <1>5
<1>7. f[k] = f[k - 1] \o s[k] /\ g[k] = g[k - 1] \o t[k]
  <2> HIDE DEF T
  <2> QED BY <1>3, <1>4, <1>8, <1>9
<1>10. s[k] = t[k]
  BY <1>3
<1> HIDE DEF T
<1> QED BY <1>3, <1>6, <1>7, <1>10

LEMMA JoinsTyped ==
  ASSUME NEW S, NEW n \in Nat, NEW s, NEW f, Joins(f, s, n), \A i \in 1 .. n : s[i] \in Seq(S)
  PROVE  \A i \in 1 .. n : f[i] \in Seq(S)
<1>9. /\ n # 0 => f[1] = s[1]
      /\ \A i \in 1 .. n : i # 1 => f[i] = f[i - 1] \o s[i]
  BY JoinsAt
<1> DEFINE T == {i \in 1 .. n : f[i] \notin Seq(S)}
<1> SUFFICES ASSUME T # {}
             PROVE  FALSE
  OBVIOUS
<1>1. T \subseteq Nat
  OBVIOUS
<1>2. PICK k \in T : \A i \in T : k <= i
  <2> HIDE DEF T
  <2> QED BY <1>1, MinExists
<1>3. k \in 1 .. n /\ f[k] \notin Seq(S) /\ n # 0
  OBVIOUS
<1>4. k # 1
  BY <1>3, <1>9
<1>5. k - 1 \in 1 .. n /\ ~(k <= k - 1)
  BY <1>3, <1>4
<1>6. f[k - 1] \in Seq(S)
  BY <1>2, <1>5
<1>7. f[k] = f[k - 1] \o s[k] /\ s[k] \in Seq(S)
  <2> HIDE DEF T
  <2> QED BY <1>3, <1>4, <1>9
<1>8. f[k - 1] \o s[k] \in Seq(S)
  <2> HIDE DEF T
  <2> QED BY <1>6, <1>7, ConcatProperties
<1> QED BY <1>3, <1>7, <1>8

(* FlattenSeq() joins all of its sequences.                                *)
LEMMA FlattenIs ==
  ASSUME NEW s, NEW n \in Nat, n # 0, Len(s) = n
  PROVE  \E f : Joins(f, s, n) /\ FlattenSeq(s) = f[n]
<1> DEFINE h == CHOOSE f : Joins(f, s, n)
<1>1. Joins(h, s, n)
  BY JoinsExists
<1>2. FlattenSeq(s) = h[n]
  BY DEF FlattenSeq, Joins
<1> QED BY <1>1, <1>2

(* Words whose meanings are opcodes.                                       *)
Meant(list) == \A k \in DOMAIN list : Meaning(list[k]) \in Seq(Opcodes)

LEMMA AsksNothing == Asks(<<>>) = <<>> /\ Meant(<<>>) /\ Names(<<>>) = <<>>
<1> DEFINE s == [k \in DOMAIN <<>> |-> Meaning(<<>>[k])]
<1>1. s = <<>>
  OBVIOUS
<1> HIDE DEF s
<1>2. FlattenSeq(s) = <<>>
  BY <1>1 DEF FlattenSeq
<1>3. Asks(<<>>) = <<>>
  BY <1>2 DEF Asks, s
<1>4. Meant(<<>>)
  BY DEF Meant
<1>5. Names(<<>>) = <<>>
  BY DEF Names
<1> QED BY <1>3, <1>4, <1>5

LEMMA AsksMore ==
  ASSUME NEW S, NEW w \in Seq(S), NEW t \in S, Meant(w), Meaning(t) \in Seq(Opcodes)
  PROVE  /\ Asks(w) \in Seq(Opcodes)
         /\ Meant(Append(w, t))
         /\ Asks(Append(w, t)) = Asks(w) \o Meaning(t)
<1> DEFINE u == Append(w, t)
           s == [k \in DOMAIN w |-> Meaning(w[k])]
           r == [k \in DOMAIN u |-> Meaning(u[k])]
<1>1. PICK n \in Nat : n = Len(w) /\ DOMAIN w = 1 .. n
  BY LenProperties
<1>2. /\ u \in Seq(S) /\ Len(u) = n + 1 /\ DOMAIN u = 1 .. n + 1
      /\ u[n + 1] = t /\ \A k \in 1 .. n : u[k] = w[k]
  <2>1. /\ u \in Seq(S) /\ Len(u) = n + 1
        /\ u[n + 1] = t /\ \A k \in 1 .. n : u[k] = w[k]
    BY <1>1, AppendProperties
  <2> HIDE DEF u
  <2> QED BY <2>1, LenProperties
<1> HIDE DEF u
<1>3. \A k \in 1 .. n : k \in 1 .. n + 1 /\ k # n + 1
  BY <1>1
<1>4. \A k \in 1 .. n + 1 : k = n + 1 \/ k \in 1 .. n
  BY <1>1
<1>5. \A k \in 1 .. n : Meaning(w[k]) \in Seq(Opcodes)
  BY <1>1 DEF Meant
<1>6. Meant(u)
  BY <1>2, <1>4, <1>5 DEF Meant
<1>7. /\ s \in Seq(Seq(Opcodes)) /\ Len(s) = n /\ \A k \in 1 .. n : s[k] = Meaning(w[k])
  <2>1. s \in [1 .. n -> Seq(Opcodes)]
    BY <1>1, <1>5
  <2>2. \A k \in 1 .. n : s[k] = Meaning(w[k])
    BY <1>1
  <2> HIDE DEF s
  <2> QED BY <1>1, <2>1, <2>2, SeqDef, LenProperties
<1>8. /\ r \in Seq(Seq(Opcodes)) /\ Len(r) = n + 1 /\ r[n + 1] = Meaning(t)
      /\ \A k \in 1 .. n : r[k] = s[k]
  <2>1. \A k \in 1 .. n + 1 : Meaning(u[k]) \in Seq(Opcodes)
    BY <1>2, <1>4, <1>5
  <2>2. r \in [1 .. n + 1 -> Seq(Opcodes)]
    BY <1>2, <2>1
  <2>3. \A k \in 1 .. n + 1 : r[k] = Meaning(u[k])
    BY <1>2
  <2> HIDE DEF r, s
  <2>4. r \in Seq(Seq(Opcodes)) /\ Len(r) = n + 1
    BY <1>1, <2>2, SeqDef, LenProperties
  <2>5. n + 1 \in 1 .. n + 1
    BY <1>1
  <2> QED BY <1>2, <1>3, <1>7, <2>3, <2>4, <2>5
<1>9. FlattenSeq(s) = Asks(w) /\ FlattenSeq(r) = Asks(u)
  BY DEF Asks
<1> HIDE DEF s, r
<1>10. n + 1 \in Nat /\ n + 1 # 0 /\ n <= n + 1 /\ (n + 1) - 1 = n /\ n + 1 \in 1 .. n + 1
       /\ (n # 0 => n \in 1 .. n /\ n + 1 # 1) /\ (n = 0 => n + 1 = 1)
  BY <1>1
<1>11. PICK g : Joins(g, r, n + 1) /\ FlattenSeq(r) = g[n + 1]
  BY <1>8, <1>10, FlattenIs
<1>12. /\ g[1] = r[1]
       /\ \A i \in 1 .. n + 1 : i # 1 => i - 1 \in 1 .. n + 1 /\ g[i] = g[i - 1] \o r[i]
  <2>1. PICK m \in Nat : m = n + 1 /\ m # 0 /\ Joins(g, r, m)
    BY <1>10, <1>11
  <2>2. /\ m # 0 => g[1] = r[1]
        /\ \A i \in 1 .. m : i # 1 => i - 1 \in 1 .. m /\ g[i] = g[i - 1] \o r[i]
    BY ONLY m \in Nat, <2>1, JoinsAt, ZenonT(30)
  <2> QED BY <2>1, <2>2
<1>13. CASE n = 0
  <2>1. Len(s) = 0
    BY <1>7, <1>13
  <2>2. s = <<>>
    BY <1>7, <2>1, EmptySeq
  <2>3. FlattenSeq(s) = <<>>
    BY <2>2 DEF FlattenSeq
  <2>4. FlattenSeq(r) = Meaning(t)
    BY <1>8, <1>10, <1>11, <1>12, <1>13
  <2>5. <<>> \o Meaning(t) = Meaning(t) /\ <<>> \in Seq(Opcodes)
    BY ConcatEmptySeq, EmptySeq
  <2> QED BY <1>6, <1>9, <2>3, <2>4, <2>5 DEF u
<1>14. CASE n # 0
  <2>1. PICK f : Joins(f, s, n) /\ FlattenSeq(s) = f[n]
    BY <1>1, <1>7, <1>14, FlattenIs
  <2>2. \A i \in 1 .. n : s[i] \in Seq(Opcodes) /\ s[i] = r[i]
    BY <1>5, <1>7, <1>8
  <2>3. \A i \in 1 .. n : f[i] \in Seq(Opcodes)
    BY ONLY n \in Nat, <2>1, <2>2, JoinsTyped
  <2>4. \A i \in 1 .. n : f[i] = g[i]
    <3>1. PICK m \in Nat : m = n + 1 /\ n <= m /\ Joins(g, r, m)
      BY <1>10, <1>11
    <3>2. \A i \in 1 .. n : s[i] = r[i]
      BY <2>2
    <3> QED BY ONLY n \in Nat, m \in Nat, <2>1, <3>1, <3>2, JoinsSame
  <2>5. f[n] = g[n] /\ f[n] \in Seq(Opcodes)
    BY <1>10, <1>14, <2>3, <2>4
  <2>6. g[n + 1] = g[n] \o r[n + 1]
    BY <1>10, <1>12, <1>14
  <2>7. Asks(u) = Asks(w) \o Meaning(t) /\ Asks(w) \in Seq(Opcodes)
    BY <1>8, <1>9, <1>11, <2>1, <2>5, <2>6
  <2> QED BY <1>6, <2>7 DEF u
<1> QED BY <1>13, <1>14

-----------------------------------------------------------------------------
(* The code of the definition that is open                                 *)

(* The vector of the definition holds what its words mean, and nothing is  *)
(* remembered of the words of no definition.                               *)
CodeOk ==
  /\ Meant(written)
  /\ ~Open => written = <<>>
  /\ Open => Names(ops[DefOps]) = Asks(written)
CodeInv == Fine => CodeOk

(* In brackets the frame on top writes elsewhere.                          *)
LEMMA DefElsewhere ==
  ASSUME TypeInv, StreamInv, Fine
  PROVE  /\ Open => DefOps \in Vectors /\ DefOps # Temp
         /\ Bracketed => Top.pOpCodes # DefOps
<1>1. StreamsOk /\ VectorsOk /\ DefOk
  BY DEF StreamInv
<1>2. PICK d \in Nat \ {0} : d = Depth /\ Top = frames[d] /\ d \in 1 .. d /\ d <= MaxFrames /\ MaxFrames \in Nat
  BY TopIs
<1>3. VectorOk(d, Top.pOpCodes)
  BY <1>1, <1>2 DEF VectorsOk
<1>4. Open => /\ DefOps \in 1 .. def.stream /\ def.stream \in Nat /\ def.stream <= d
  BY <1>1, <1>2, DefIs DEF DefOk
<1>5. Bracketed => /\ Open /\ def.brackets \in Nat /\ def.stream <= def.brackets /\ def.brackets <= d
  BY <1>1, <1>2, DefIs
<1>6. Open => DefOps \in 0 .. MaxFrames /\ DefOps # Temp
  <2>1. Open => DefOps \in 1 .. MaxFrames
    BY <1>2, <1>4
  <2> QED BY <2>1 DEF Temp
<1>7. ASSUME Bracketed
      PROVE  Top.pOpCodes # DefOps
  <2>1. CASE def.brackets = d
    BY <1>3, <1>5, <1>6, <1>7, <2>1 DEF VectorOk
  <2>2. CASE def.brackets # d
    <3>1. d > def.brackets
      BY <1>5, <1>7, <2>2
    <3>2. Top.pOpCodes = d
      BY <1>3, <1>7, <3>1 DEF VectorOk
    <3> QED BY <1>2, <1>4, <1>5, <1>7, <3>1, <3>2
  <2> QED BY <2>1, <2>2
<1> QED BY <1>6, <1>7, VectorsAre

(* A step that leaves the definition and its vector alone.                 *)
LEMMA CodeSame ==
  ASSUME CodeInv, Fine, UNCHANGED <<def, written>>,
         Open => DefOps' = DefOps /\ ops'[DefOps] = ops[DefOps]
  PROVE  CodeInv'
<1>1. CodeOk
  BY DEF CodeInv
<1>2. Open' <=> Open
  BY DEF Open
<1>3. Open => (Names(ops[DefOps]))' = Names(ops[DefOps])
  <2>1. Open => (ops[DefOps])' = ops[DefOps]
    OBVIOUS
  <2> QED BY <2>1 DEF Names
<1>4. CodeOk'
  BY <1>1, <1>2, <1>3 DEF CodeOk, Meant, Asks
<1> QED BY <1>4 DEF CodeInv

(* A word adds its code, or fails.                                         *)
LEMMA CodeWord ==
  ASSUME TypeInv, StreamInv, CodeInv, Reading, NEW t \in Words, NEW r, NEW list,
         r \in CState, r.e = "none" => Adds(Current, r, list),
         Commit(r), Wrote(t), list = Meaning(t), UNCHANGED <<pCurrentOps, pPreviousOps, def>>,
         r.e \notin {"ok", "end of stream"}
  PROVE  CodeInv'
<1>1. Fine /\ StreamsOk /\ StateOk /\ DefOk
  BY ReadingIs
<1>2. TypeOK /\ CodeOk /\ written \in Seq(Words) /\ t \in Words
  BY <1>1, HistoryTyped DEF TypeInv, CodeInv
<1>3. ops' = [ops EXCEPT ![pCurrentOps] = r.code] /\ result' = r.e
  BY <1>2, CommitTyped
<1>4. DefOps' = DefOps
  BY DEF DefOps, Bracketed
<1>5. CASE def.phase # "body"
  <2>1. written' = written
    BY <1>5 DEF Wrote
  <2>2. Open => Bracketed
    BY <1>1, <1>5, DefIs DEF Open, Bracketed
  <2>3. Open => DefOps # pCurrentOps /\ DefOps \in Vectors
    BY <1>1, <2>2, DefElsewhere DEF StreamsOk
  <2>4. ops \in [Vectors -> Seq(Instructions)]
    BY <1>2, Facts
  <2>5. Open => ops'[DefOps] = ops[DefOps]
    BY <1>3, <2>3, <2>4
  <2> QED BY <1>1, <1>4, <2>1, <2>5, CodeSame
<1>6. CASE def.phase = "body" /\ r.e = "none"
  <2>1. written' = Append(written, t) /\ Open /\ Open' /\ ~Bracketed /\ DefOps = pCurrentOps
    BY <1>6 DEF Wrote, Open, Bracketed, DefOps
  <2>2. Adds(Current, r, list) /\ Current.code = ops[pCurrentOps] /\ pCurrentOps \in Vectors
        /\ ops \in [Vectors -> Seq(Instructions)]
    BY <1>2, <1>6, Facts
  <2>3. ops'[pCurrentOps] = r.code
    BY <1>3, <2>2
  <2>4. Names(r.code) = Names(Current.code) \o list /\ list \in Seq(Opcodes)
    BY <2>2 DEF Adds
  <2>5. Meant(written) /\ Names(ops[DefOps]) = Asks(written)
    BY <1>2, <2>1 DEF CodeOk
  <2>6. Meant(Append(written, t)) /\ Asks(Append(written, t)) = Asks(written) \o list
    BY <1>2, <2>4, <2>5, AsksMore
  <2>7. (Names(ops[DefOps]))' = Names(r.code)
    <3>1. (ops[DefOps])' = r.code
      BY <1>4, <2>1, <2>3
    <3> QED BY <3>1 DEF Names
  <2>8. (Names(ops[DefOps]))' = Asks(Append(written, t))
    BY <2>1, <2>2, <2>4, <2>5, <2>6, <2>7
  <2>9. Meant(written)' /\ Asks(written)' = Asks(Append(written, t))
    <3> DEFINE w == Append(written, t)
    <3>1. written' = w /\ Meant(w)
      BY <2>1, <2>6
    <3> HIDE DEF w
    <3> QED BY <3>1 DEF Meant, Asks, w
  <2>10. CodeOk'
    BY <2>1, <2>8, <2>9 DEF CodeOk
  <2> QED BY <2>10 DEF CodeInv
<1>7. CASE r.e # "none"
  BY <1>3, <1>7 DEF CodeInv, Fine
<1> QED BY <1>5, <1>6, <1>7

LEMMA StructureWordCode ==
  ASSUME TypeInv, StreamInv, CodeInv, NEW t \in Words, StructureWord(t)
  PROVE  CodeInv'
<1> DEFINE c == Current
           u == ControlWord(t, c)
           v == Fails(c, "no end of string")
           b == t = "ABORT\"" /\ pNewWord = "none"
<1>1. /\ Reading /\ UNCHANGED <<pCurrentOps, pPreviousOps, def>> /\ Wrote(t)
      /\ t \in Controls /\ TypeOK /\ (Commit([u EXCEPT !.wild = @ \/ b]) \/ Commit(v))
  BY DEF StructureWord, NextWord, TypeInv
<1>2. c \in CState /\ c.e = "none" /\ State \in BOOLEAN
  BY <1>1, Facts
<1>3. b \in BOOLEAN
  BY DEF b
<1> DEFINE list == Meaning(t)
<1>4. Writes(c, u, list)
  <2> HIDE DEF c
  <2> QED BY <1>1, <1>2, ControlWrites
<1> HIDE DEF b, u
<1>5. Commit(Wilder(u, b)) \/ Commit(v)
  BY <1>1 DEF Wilder
<1> DEFINE w == Wilder(u, b)
<1>6. /\ u \in CState /\ u.e \in StructureErrors \cup {"none"}
      /\ u.e = "none" => Adds(c, u, list)
  BY <1>4 DEF Writes
<1>7. w \in CState /\ w.e = u.e /\ w.code = u.code
  BY <1>3, <1>6, WilderTyped
<1> HIDE DEF w
<1>8. w.e = "none" => Adds(c, w, list)
  BY <1>6, <1>7 DEF Adds
<1>9. w.e \notin {"ok", "end of stream"}
  BY <1>6, <1>7 DEF StructureErrors
<1>10. v \in CState /\ v.e = "no end of string"
  <2>1. "no end of string" \in Codes
    BY DEF Codes
  <2> QED BY <1>2, <2>1, FailsTyped
<1> HIDE DEF list, v
<1>11. CASE Commit(w)
  BY <1>1, <1>7, <1>8, <1>9, <1>11, CodeWord DEF list
<1>12. CASE Commit(v)
  <2>1. v.e = "none" => Adds(c, v, list)
    BY <1>10
  <2> QED BY <1>1, <1>10, <1>12, <2>1, CodeWord DEF list
<1> QED BY <1>5, <1>11, <1>12 DEF w

LEMMA LiteralKeepsCode ==
  ASSUME FindsNames, TypeInv, StreamInv, CodeInv, NEW t \in Words, Literal(t)
  PROVE  CodeInv'
<1> DEFINE c == Current
           u == LiteralWord(t, c)
           e == LiteralError(t)
           v == Fails(c, e)
           w == Fails(u, "vm")
           list == Meaning(t)
<1>1. /\ Reading /\ UNCHANGED <<pCurrentOps, pPreviousOps, def>> /\ Wrote(t)
      /\ t \in Literals /\ TypeOK
      /\ Commit(u) \/ (e # "none" /\ Commit(v)) \/ Commit(w)
  BY DEF Literal, NextWord, TypeInv
<1>2. c \in CState /\ c.e = "none"
  BY <1>1, Facts
<1>3. Writes(c, u, list)
  <2>1. t # "['] unknown"
    BY DEF Literal, Allowed, FindsNames
  <2>2. LiteralCode(t) = list
    BY <2>1 DEF LiteralCode
  <2> HIDE DEF c, list
  <2> QED BY <1>1, <1>2, <2>2, LiteralWrites
<1>4. e \in Codes /\ e \notin {"ok", "end of stream"}
  BY DEF Codes, LiteralError
<1> HIDE DEF e, u
<1>5. /\ v \in CState /\ v.e = e
      /\ w \in CState /\ w.e = "vm"
  <2>1. u \in CState /\ "vm" \in Codes
    BY <1>3 DEF Writes, Codes
  <2> QED BY <1>2, <1>4, <2>1, FailsTyped
<1> HIDE DEF v, w, list
<1>6. /\ u \in CState /\ u.e \in StructureErrors \cup {"none"}
      /\ u.e = "none" => Adds(c, u, list)
  BY <1>3 DEF Writes
<1>7. u.e \notin {"ok", "end of stream"}
  BY <1>6 DEF StructureErrors
<1>8. CASE Commit(u)
  BY <1>1, <1>6, <1>7, <1>8, CodeWord DEF list
<1>9. CASE e # "none" /\ Commit(v)
  <2>1. v.e = "none" => Adds(c, v, list)
    BY <1>5, <1>9
  <2> QED BY <1>1, <1>4, <1>5, <1>9, <2>1, CodeWord DEF list
<1>10. CASE Commit(w)
  <2>1. w.e = "none" => Adds(c, w, list)
    BY <1>5
  <2> QED BY <1>1, <1>5, <1>10, <2>1, CodeWord DEF list
<1> QED BY <1>1, <1>8, <1>9, <1>10

LEMMA CompiledWordCode ==
  ASSUME TypeInv, StreamInv, CodeInv, NEW t \in Words, CompiledWord(t)
  PROVE  CodeInv'
<1> DEFINE u == CompiledCode(t)
           list == Meaning(t)
<1>1. /\ Reading /\ UNCHANGED <<pCurrentOps, pPreviousOps, def>> /\ Wrote(t) /\ Commit(u)
      /\ t \in {"LOOP", "UNLOOP"} \cup Compileds /\ TypeOK
  BY DEF CompiledWord, CompiledCode, NextWord, TypeInv
<1>2. Writes(Current, u, list)
  BY <1>1, CompiledCodeWrites
<1> HIDE DEF u, list
<1>3. /\ u \in CState /\ u.e \in StructureErrors \cup {"none"}
      /\ u.e = "none" => Adds(Current, u, list)
  BY <1>2 DEF Writes
<1>4. u.e \notin {"ok", "end of stream"}
  BY <1>3 DEF StructureErrors
<1> QED BY <1>1, <1>3, <1>4, CodeWord DEF list

(* Code written while interpreting, or in brackets, is not the definition's. *)
LEMMA CodeAside ==
  ASSUME TypeInv, StreamInv, CodeInv, Reading, def.phase # "body", NEW r \in CState, Commit(r),
         UNCHANGED <<pCurrentOps, pPreviousOps, def, written>>
  PROVE  CodeInv'
<1>1. Fine /\ StreamsOk /\ StateOk /\ DefOk /\ TypeOK
  BY ReadingIs DEF TypeInv
<1>2. ops' = [ops EXCEPT ![pCurrentOps] = r.code] /\ ops \in [Vectors -> Seq(Instructions)]
  BY <1>1, CommitTyped, Facts
<1>3. Open => Bracketed
  BY <1>1, DefIs DEF Open, Bracketed
<1>4. Open => DefOps # pCurrentOps /\ DefOps \in Vectors
  BY <1>1, <1>3, DefElsewhere DEF StreamsOk
<1>5. Open => DefOps' = DefOps /\ ops'[DefOps] = ops[DefOps]
  BY <1>2, <1>4 DEF DefOps, Bracketed
<1> QED BY <1>1, <1>5, CodeSame

LEMMA AsideCode ==
  ASSUME TypeInv, StreamInv, CodeInv,
         (\E t \in Words : NondeferredWord(t)) \/ CPP_rbracket \/ EndOfLine
  PROVE  CodeInv'
<1>1. TypeOK
  BY DEF TypeInv
<1>2. CASE \E t \in Words : NondeferredWord(t)
  <2>1. PICK t \in Words : NondeferredWord(t)
    BY <1>2
  <2> DEFINE u == Op(Current, t)
             r == Op(u, "RET")
  <2>2. /\ Reading /\ UNCHANGED <<pCurrentOps, pPreviousOps, def, written>> /\ Commit(r)
        /\ ~State /\ t \in Nondeferred
    BY <2>1 DEF NondeferredWord, NextWord, history
  <2>3. t \in Opcodes /\ "RET" \in Opcodes
    BY <2>2 DEF Opcodes
  <2>4. u \in CState /\ u.e = "none"
    BY <1>1, <2>3, Facts, CodeTyped
  <2>5. r \in CState
    <3> HIDE DEF u
    <3> QED BY <2>3, <2>4, CodeTyped
  <2>6. def.phase # "body"
    BY <2>2, ReadingIs DEF StateOk
  <2> HIDE DEF r
  <2> QED BY <2>2, <2>5, <2>6, CodeAside
<1>3. CASE CPP_rbracket \/ EndOfLine
  <2> DEFINE r == Op(Current, "RET")
  <2>1. /\ Reading /\ UNCHANGED <<pCurrentOps, pPreviousOps, def, written>> /\ Commit(r)
        /\ def.phase = "brackets" \/ ~State
    BY <1>3 DEF CPP_rbracket, EndOfLine, NextWord, history
  <2>2. r \in CState
    BY <1>1, Facts, CodeTyped DEF Opcodes
  <2>3. def.phase # "body"
    BY <2>1, ReadingIs DEF StateOk
  <2> HIDE DEF r
  <2> QED BY <2>1, <2>2, <2>3, CodeAside
<1> QED BY <1>2, <1>3

(* The vector of a frame that interprets is emptied at the end of its run. *)
LEMMA EmptiedAside ==
  ASSUME TypeInv, StreamInv, CodeInv, Fine, Interpreting(Top),
         ops' = [ops EXCEPT ![Top.pOpCodes] = <<>>],
         UNCHANGED <<pCurrentOps, pPreviousOps, def, written>>
  PROVE  CodeInv'
<1>1. Open => Bracketed
  BY InterpretingIs
<1>2. Open => DefOps # Top.pOpCodes /\ DefOps \in Vectors
  BY <1>1, DefElsewhere
<1>3. ops \in [Vectors -> Seq(Instructions)]
  BY Facts DEF TypeInv
<1>4. Open => DefOps' = DefOps /\ ops'[DefOps] = ops[DefOps]
  BY <1>2, <1>3 DEF DefOps, Bracketed
<1> QED BY <1>4, CodeSame

LEMMA ColonCode ==
  ASSUME TypeInv, StreamInv, CodeInv, Fine, Interpreting(Top), Top.word = ":", CPP_colon,
         ops' = [ops EXCEPT ![Top.pOpCodes] = <<>>]
  PROVE  CodeInv'
<1>1. ~Open /\ Top.doing # "read"
  BY InterpretingIs
<1>2. CodeOk /\ StreamsOk
  BY <1>1, RunningIs DEF CodeInv
<1>3. Top.pOpCodes \in Vectors /\ ops \in [Vectors -> Seq(Instructions)]
  BY Facts, FrameFields DEF TypeInv
<1>4. written' = written /\ written = <<>> /\ pCurrentOps' = Top.pOpCodes
  BY <1>1, <1>2 DEF CPP_colon, CodeOk, StreamsOk
<1>5. def' = [phase |-> "body", stream |-> Depth, brackets |-> 0]
  BY <1>1 DEF CPP_colon, Open
<1>6. def'.phase = "body"
  BY <1>5
<1>7. Open' /\ ~Bracketed'
  BY <1>6 DEF Open, Bracketed
<1>8. (ops[DefOps])' = <<>>
  <2>1. DefOps' = IF Bracketed' THEN pPreviousOps' ELSE pCurrentOps'
    BY DEF DefOps
  <2> QED BY <1>3, <1>4, <1>7, <2>1
<1>9. (Names(ops[DefOps]))' = <<>>
  BY <1>8, AsksNothing DEF Names
<1>10. Meant(written)' /\ Asks(written)' = <<>>
  BY <1>4, AsksNothing DEF Meant, Asks
<1> QED BY <1>7, <1>9, <1>10 DEF CodeInv, CodeOk

LEMMA CommaMeans ==
  Meaning("COMPILE,") = <<"IVAL", "EXECUTE">>
  BY Zenon DEF Meaning, Compileds

(* What COMPILE, adds to a code.                                           *)
LEMMA CommaAdds ==
  ASSUME NEW code \in Seq(Instructions)
  PROVE  /\ Names(Emit(Emit(code, "IVAL", 0), "EXECUTE", 0)) = Names(code) \o <<"IVAL", "EXECUTE">>
         /\ <<"IVAL", "EXECUTE">> \in Seq(Opcodes)
<1> DEFINE n == Names(code)
           c == Emit(code, "IVAL", 0)
           d == Emit(c, "EXECUTE", 0)
<1>1. "IVAL" \in Opcodes /\ "EXECUTE" \in Opcodes /\ 0 \in Args
  BY ZeroArg DEF Opcodes
<1>2. c \in Seq(Instructions) /\ Names(c) = Append(n, "IVAL")
  BY <1>1, EmitTyped, NamesEmit
<1> HIDE DEF c
<1>3. Names(d) = Append(Names(c), "EXECUTE")
  BY <1>1, <1>2, NamesEmit
<1>4. n \in Seq(Opcodes)
  BY NamesTyped
<1> HIDE DEF n, d
<1>5. /\ <<"IVAL">> \in Seq(Opcodes) /\ <<"EXECUTE">> \in Seq(Opcodes)
      /\ <<"IVAL", "EXECUTE">> \in Seq(Opcodes)
  <2>1. <<"IVAL">> = Append(<<>>, "IVAL") /\ <<"EXECUTE">> = Append(<<>>, "EXECUTE")
        /\ <<"IVAL", "EXECUTE">> = Append(<<"IVAL">>, "EXECUTE") /\ <<>> \in Seq(Opcodes)
    BY Tuples, EmptySeq
  <2>2. <<"IVAL">> \in Seq(Opcodes) /\ <<"EXECUTE">> \in Seq(Opcodes)
    BY <1>1, <2>1, AppendProperties
  <2> QED BY <1>1, <2>1, <2>2, AppendProperties
<1>6. Append(Append(n, "IVAL"), "EXECUTE") = n \o <<"IVAL", "EXECUTE">>
  BY <1>1, <1>4, <1>5
<1> QED BY <1>2, <1>3, <1>5, <1>6 DEF c, d, n

(* A word that adds two instructions to the vector that [ put aside.       *)
LEMMA PutAsideCode ==
  ASSUME TypeInv, StreamInv, CodeInv, Fine, Bracketed, NEW t \in Words,
         Meaning(t) = <<"IVAL", "EXECUTE">>, written' = Append(written, t),
         ops'[pPreviousOps] = Emit(Emit(ops[pPreviousOps], "IVAL", 0), "EXECUTE", 0),
         UNCHANGED <<pPreviousOps, def>>
  PROVE  CodeInv'
<1>1. Open /\ DefOps = pPreviousOps /\ DefOps' = pPreviousOps' /\ Open' /\ CodeOk
  <2>1. Bracketed'
    BY DEF Bracketed
  <2>2. DefOps' = IF Bracketed' THEN pPreviousOps' ELSE pCurrentOps'
    BY DEF DefOps
  <2> QED BY <2>1, <2>2 DEF DefOps, Bracketed, Open, CodeInv
<1>2. written \in Seq(Words) /\ ops \in [Vectors -> Seq(Instructions)] /\ pPreviousOps \in Vectors
  BY <1>1, HistoryTyped, Facts, DefElsewhere DEF TypeInv
<1>3. PICK code \in Seq(Instructions) : code = ops[pPreviousOps]
  BY <1>2
<1>4. Meant(written) /\ Names(code) = Asks(written)
  BY <1>1, <1>3 DEF CodeOk
<1> DEFINE two == <<"IVAL", "EXECUTE">>
           w == Append(written, t)
           d == Emit(Emit(code, "IVAL", 0), "EXECUTE", 0)
<1>5. Names(d) = Names(code) \o two /\ two \in Seq(Opcodes)
  BY CommaAdds
<1>6. Meant(w) /\ Asks(w) = Asks(written) \o Meaning(t)
  <2>1. Meaning(t) \in Seq(Opcodes)
    BY <1>5
  <2> HIDE DEF two
  <2> QED BY <1>2, <1>4, <2>1, AsksMore
<1>7. (ops[DefOps])' = d /\ written' = w
  BY <1>1, <1>3
<1> HIDE DEF d, w
<1>8. (Names(ops[DefOps]))' = Names(d) /\ Meant(written)' /\ Asks(written)' = Asks(w)
  BY <1>6, <1>7 DEF Names, Meant, Asks
<1>9. Names(d) = Asks(w)
  BY <1>4, <1>5, <1>6
<1> QED BY <1>1, <1>8, <1>9 DEF CodeInv, CodeOk

LEMMA CommaCode ==
  ASSUME TypeInv, StreamInv, CodeInv, Fine, Top.doing = "up to", Top.word = "COMPILE,",
         CompileComma, ops' = CompileCommaOps
  PROVE  CodeInv'
<1>1. Top.doing # "read"
  BY Zenon
<1>2. GoesBack(Top)
  BY GoBack, Zenon
<1>3. Bracketed /\ pPreviousOps \in Vectors
  <2>1. FrameOk(Depth, Top)
    BY <1>1, RunningIs, Zenon
  <2>2. Bracketed
    BY <1>2, <2>1, Zenon DEF FrameOk
  <2> QED BY <2>2, CompileCommaTyped, Zenon
<1>4. Top.pOpCodes # pPreviousOps
  <2>1. DefOps = pPreviousOps
    BY <1>3, Zenon DEF DefOps
  <2> QED BY <1>3, <2>1, DefElsewhere, Zenon
<1>5. ops'[pPreviousOps] = Emit(Emit(ops[pPreviousOps], "IVAL", 0), "EXECUTE", 0)
  BY <1>4, CompileCommaTyped, Zenon
<1>6. /\ UNCHANGED <<pPreviousOps, def>> /\ written' = Append(written, "COMPILE,") /\ "COMPILE," \in Words
  BY CompileCommaTyped, Zenon DEF CompileComma
<1> QED BY <1>3, <1>5, <1>6, CommaMeans, PutAsideCode, Zenon

LEMMA UpToDoneCode ==
  ASSUME TypeInv, StreamInv, CodeInv, UpToDone
  PROVE  CodeInv'
<1>1. Top.doing = "up to" /\ result = "none"
  BY DEF UpToDone, Doing
<1>2. Fine /\ Interpreting(Top)
  BY <1>1 DEF Fine, Interpreting
<1>3. CASE Top.word = "COMPILE,"
  <2>1. CompileComma /\ ops' = CompileCommaOps
    BY <1>3, Zenon DEF UpToDone, CompileCommaOps
  <2> QED BY <1>1, <1>2, <1>3, <2>1, CommaCode, Zenon
<1>4. CASE Top.word # "COMPILE,"
  <2>1. ops' = [ops EXCEPT ![Top.pOpCodes] = <<>>]
    BY <1>4, Zenon DEF UpToDone
  <2>2. \/ Top.word = ":" /\ CPP_colon
        \/ CPP_create
        \/ UNCHANGED <<pCurrentOps, pPreviousOps, history>>
    BY <1>4, Zenon DEF UpToDone
  <2>3. CASE Top.word = ":" /\ CPP_colon
    BY <1>2, <2>1, <2>3, ColonCode, Zenon
  <2>4. CASE CPP_create \/ UNCHANGED <<pCurrentOps, pPreviousOps, history>>
    <3>1. UNCHANGED <<pCurrentOps, pPreviousOps, def, written>>
      BY <2>4, Zenon DEF CPP_create, history
    <3> QED BY <1>2, <2>1, <3>1, EmptiedAside, Zenon
  <2> QED BY <2>2, <2>3, <2>4, Zenon
<1> QED BY <1>3, <1>4, Zenon

LEMMA LineDoneCode ==
  ASSUME TypeInv, StreamInv, CodeInv, LineDone
  PROVE  CodeInv'
  BY EmptiedAside DEF LineDone, Doing, Fine, Interpreting, history

LEMMA QuietCode ==
  ASSUME CodeInv, Macro \/ MacroDone \/ EndOfStream
  PROVE  CodeInv'
<1>1. result = "none" /\ UNCHANGED <<ops, pCurrentOps, pPreviousOps, def, written>>
  BY DEF Macro, MacroDone, EndOfStream, NextWord, Reading, history
<1>2. Fine /\ (Open => DefOps' = DefOps /\ ops'[DefOps] = ops[DefOps])
  BY <1>1 DEF Fine, DefOps, Bracketed
<1> QED BY <1>1, <1>2, CodeSame

LEMMA LbracketCode ==
  ASSUME TypeInv, StreamInv, CodeInv, CPP_lbracket
  PROVE  CodeInv'
<1>1. /\ Reading /\ def.phase = "body" /\ pPreviousOps' = pCurrentOps
      /\ ops' = [ops EXCEPT ![Temp] = <<>>] /\ written' = written
      /\ def' = [def EXCEPT !.phase = "brackets", !.brackets = Depth]
  BY DEF CPP_lbracket, NextWord, SaveOps
<1>2. Fine /\ CodeOk
  BY <1>1, ReadingIs DEF CodeInv
<1>3. def \in Definitions /\ ops \in [Vectors -> Seq(Instructions)]
  BY HistoryTyped, Facts DEF TypeInv
<1>4. def'.phase = "brackets"
  BY <1>1, <1>3 DEF Definitions
<1>5. Open /\ Open' /\ ~Bracketed /\ Bracketed'
  BY <1>1, <1>4 DEF Open, Bracketed
<1>6. DefOps = pCurrentOps /\ DefOps' = pCurrentOps
  <2>1. DefOps' = IF Bracketed' THEN pPreviousOps' ELSE pCurrentOps'
    BY DEF DefOps
  <2> QED BY <1>1, <1>5, <2>1 DEF DefOps
<1>7. DefOps \in Vectors /\ DefOps # Temp
  BY <1>2, <1>5, DefElsewhere
<1>8. (ops[DefOps])' = ops[DefOps]
  BY <1>1, <1>3, <1>6, <1>7
<1>9. (Names(ops[DefOps]))' = Names(ops[DefOps]) /\ Meant(written)' = Meant(written)
      /\ Asks(written)' = Asks(written)
  BY <1>1, <1>8 DEF Names, Meant, Asks
<1> QED BY <1>2, <1>5, <1>9 DEF CodeInv, CodeOk

LEMMA BracketDoneCode ==
  ASSUME TypeInv, StreamInv, CodeInv, BracketDone
  PROVE  CodeInv'
<1>1. /\ Top.doing = "bracket" /\ result = "none" /\ pCurrentOps' = pPreviousOps
      /\ ops' = [ops EXCEPT ![pCurrentOps] = <<>>] /\ written' = written
      /\ def' = [def EXCEPT !.phase = "body", !.brackets = 0]
  BY DEF BracketDone, EndBracket, Doing
<1>2. Fine /\ CodeOk /\ Top.doing # "read"
  BY <1>1 DEF CodeInv, Fine
<1>3. def \in Definitions /\ ops \in [Vectors -> Seq(Instructions)]
  BY HistoryTyped, Facts DEF TypeInv
<1>4. def'.phase = "body"
  BY <1>1, <1>3 DEF Definitions
<1>5. Bracketed /\ Open /\ Open' /\ ~Bracketed'
  <2>1. FrameOk(Depth, Top) /\ GoesBack(Top)
    BY <1>1, <1>2, RunningIs, GoBack
  <2> QED BY <1>4, <2>1 DEF FrameOk, Open, Bracketed
<1>6. DefOps = pPreviousOps /\ DefOps' = pPreviousOps
  <2>1. DefOps' = IF Bracketed' THEN pPreviousOps' ELSE pCurrentOps'
    BY DEF DefOps
  <2> QED BY <1>1, <1>5, <2>1 DEF DefOps
<1>7. DefOps \in Vectors /\ DefOps # pCurrentOps
  BY <1>2, <1>5, DefElsewhere, RunningIs DEF StreamsOk
<1>8. (ops[DefOps])' = ops[DefOps]
  BY <1>1, <1>3, <1>6, <1>7
<1>9. (Names(ops[DefOps]))' = Names(ops[DefOps]) /\ Meant(written)' = Meant(written)
      /\ Asks(written)' = Asks(written)
  BY <1>1, <1>8 DEF Names, Meant, Asks
<1> QED BY <1>2, <1>5, <1>9 DEF CodeInv, CodeOk

LEMMA NestCode ==
  ASSUME TypeInv, StreamInv, CodeInv, CPP_evaluate \/ CPP_include
  PROVE  CodeInv'
<1>1. /\ Top.doing # "read" /\ result = "none"
      /\ UNCHANGED <<ops, pPreviousOps, def, written>>
      /\ \/ pCurrentOps' = IF State THEN pCurrentOps ELSE Depth + 1
         \/ Top.doing = "up to"
  BY DEF CPP_evaluate, CPP_include, Nest, Running, Doing, EvaluateOps, OwnOps, history
<1>2. Fine /\ StateOk
  BY <1>1, RunningIs DEF Fine
<1>3. State /\ Top.doing = "up to" => FALSE
  BY <1>2, InterpretingIs DEF Interpreting
<1>4. State => pCurrentOps' = pCurrentOps
  BY <1>1, <1>3
<1>5. Open /\ ~Bracketed => State
  BY <1>2, RunningIs, <1>1, DefIs DEF StateOk, Open, Bracketed
<1>6. Open => DefOps' = DefOps
  <2>1. (Bracketed' <=> Bracketed) /\ DefOps' = IF Bracketed' THEN pPreviousOps' ELSE pCurrentOps'
    BY <1>1 DEF DefOps, Bracketed
  <2> QED BY <1>1, <1>4, <1>5, <2>1 DEF DefOps
<1> QED BY <1>1, <1>2, <1>6, CodeSame

LEMMA RunFailsCode ==
  ASSUME TypeInv, StreamInv, NEW e \in Codes, RunFails(e)
  PROVE  CodeInv'
<1>1. Top.doing # "read" /\ e # "none" /\ result' = e /\ (result = e \/ (result = "none" /\ e = "vm"))
  BY DEF RunFails, Running, Doing
<1>2. Fine => result = "none"
  BY <1>1, RunningIs
<1> QED BY <1>1, <1>2 DEF Fine, CodeInv

LEMMA EndCompileCode ==
  ASSUME TypeInv, StreamInv, CodeInv, EndCompile
  PROVE  CodeInv'
<1>1. result # "none" /\ State' = (State /\ result = "end of stream") /\ pPreviousOps' = pPreviousOps
  BY DEF EndCompile, StateAfter, Midway
<1>2. ops \in [Vectors -> Seq(Instructions)] /\ Depth \in Nat /\ State \in BOOLEAN
  BY Facts DEF TypeInv
<1>3. CASE Top.kind = "main" /\ ~Fine
  <2>1. def' = NoDef /\ written' = <<>>
    BY <1>1, <1>3 DEF EndCompile, Fine
  <2>2. ~Open'
    BY <2>1 DEF NoDef, Open
  <2>3. Meant(written)'
    BY <2>1, AsksNothing DEF Meant
  <2> QED BY <2>1, <2>2, <2>3 DEF CodeInv, CodeOk
<1>4. CASE Top.kind = "main" /\ Fine
  <2>1. /\ pCurrentOps' = Main /\ UNCHANGED <<def, written>>
        /\ ops' = IF result = "end of stream" THEN ops ELSE [ops EXCEPT ![Main] = <<>>]
    BY <1>1, <1>4 DEF EndCompile, Fine, history, Midway
  <2>2. ~Bracketed /\ def.phase \in {"none", "body"} /\ (Open => def.stream = 1)
    BY <1>4, MainIs
  <2>3. StateOk /\ DefOk
    BY <1>4 DEF StreamInv
  <2>4. Open => DefOps = pCurrentOps /\ DefOps = Main
    <3>1. Open => DefOps \in 1 .. 1
      BY <2>2, <2>3 DEF DefOk
    <3> QED BY <2>2, <3>1 DEF DefOps, Main
  <2>5. Open => DefOps' = DefOps
    <3>1. DefOps' = IF Bracketed' THEN pPreviousOps' ELSE pCurrentOps'
      BY DEF DefOps
    <3>2. ~Bracketed'
      BY <2>1, <2>2 DEF Bracketed
    <3> QED BY <2>1, <2>4, <3>1, <3>2
  <2>6. Open => result = "end of stream"
    <3>1. Open => State
      BY <2>2, <2>3 DEF Open, StateOk
    <3>2. result = "ok" \/ result = "end of stream"
      BY <1>1, <1>4 DEF Fine
    <3> QED BY <2>3, <3>1, <3>2 DEF StateOk
  <2> QED BY <1>4, <2>1, <2>5, <2>6, CodeSame
<1>5. CASE Top.kind # "main" /\ ~Fine
  <2>1. result' = IF result = "ok" \/ (Top.kind = "evaluate" /\ result = "end of stream") THEN "none" ELSE result
    BY <1>5 DEF EndCompile, Midway
  <2> QED BY <1>5, <2>1 DEF Fine, CodeInv
<1>6. CASE Top.kind # "main" /\ Fine
  <2>1. ops' = [ops EXCEPT ![Depth] = <<>>] /\ UNCHANGED <<def, written>>
    BY <1>6 DEF EndCompile, history
  <2>2. Open => def.stream <= Depth - 1 /\ def.stream \in Nat /\ DefOps' = DefOps
    BY <1>6, ReturnIs
  <2>3. Open => DefOps \in 1 .. def.stream
    BY <1>6 DEF StreamInv, DefOk
  <2>4. Open => DefOps # Depth
    BY <1>2, <2>2, <2>3
  <2>5. Open => DefOps \in Vectors
    BY <1>6, DefElsewhere
  <2>6. Open => ops'[DefOps] = ops[DefOps]
    BY <1>2, <2>1, <2>4, <2>5
  <2> QED BY <1>6, <2>1, <2>2, <2>6, CodeSame
<1> QED BY <1>3, <1>4, <1>5, <1>6

LEMMA SemicolonCode ==
  ASSUME TypeInv, StreamInv, CodeInv, CPP_semicolon
  PROVE  CodeInv' /\ (compiled' # <<>> => pNewWord = ":" /\ Asked(compiled'))
<1>1. Reading /\ TypeOK
  BY SemicolonCases DEF NextWord, TypeInv
<1>2. Fine /\ StreamsOk /\ StateOk /\ DefOk /\ CodeOk
  BY <1>1, ReadingIs DEF CodeInv
<1>3. CASE /\ State /\ compiled' = Closed.code
           /\ \/ def.phase = "body" /\ def' = NoDef /\ written' = <<>>
              \/ def.phase # "body"
  <2>1. def.phase = "body"
    BY <1>2, <1>3 DEF StateOk
  <2>2. def' = NoDef /\ written' = <<>>
    BY <1>3, <2>1
  <2>3. ~Open' /\ Meant(written)'
    BY <2>2, AsksNothing DEF NoDef, Open, Meant
  <2>4. CodeInv'
    BY <2>2, <2>3 DEF CodeInv, CodeOk
  <2>5. Open /\ DefOps = pCurrentOps
    BY <2>1 DEF Open, DefOps, Bracketed
  <2>6. pNewWord = ":" /\ Names(ops[pCurrentOps]) = Asks(written)
    BY <1>2, <2>5 DEF DefOk, CodeOk
  <2>7. Current.code = ops[pCurrentOps] /\ Adds(Current, Closed, <<"RET">>)
        /\ ops[pCurrentOps] \in Seq(Instructions)
    BY <1>1, Facts, ClosedTyped
  <2>8. Names(Closed.code) = Names(ops[pCurrentOps]) \o <<"RET">>
    BY <2>7 DEF Adds
  <2>9. Names(ops[pCurrentOps]) \in Seq(Opcodes)
    BY <2>7, NamesTyped
  <2>10. Asks(written) \o <<"RET">> = Append(Asks(written), "RET")
    <3> DEFINE a == Asks(written)
    <3>1. a \in Seq(Opcodes) /\ "RET" \in Opcodes
      BY <2>6, <2>9 DEF Opcodes
    <3> HIDE DEF a
    <3>2. Append(a, "RET") = a \o <<"RET">>
      BY <3>1, AppendIsConcat
    <3> QED BY <3>2 DEF a
  <2>11. Names(compiled') = Append(Asks(written), "RET")
    BY <1>3, <2>6, <2>8, <2>10
  <2>12. Asked(compiled')
    BY <2>11 DEF Asked, Names, Asks
  <2> QED BY <2>4, <2>6, <2>12
<1>4. CASE /\ compiled' = <<>>
           /\ \/ Incomplete(RetState) # "none" /\ Commit(Fails(RetState, Incomplete(RetState)))
              \/ Commit(Fails(RetState, "end of definition with no beginning"))
  <2>1. /\ Incomplete(RetState) # "none" => Incomplete(RetState) \in StructureErrors
        /\ Incomplete(RetState) \in Codes
        /\ "end of definition with no beginning" \in Codes
    BY IncompleteIs, StructureCodes DEF Codes
  <2> DEFINE e == Incomplete(RetState)
             f == "end of definition with no beginning"
  <2>2. RetState \in CState
    BY <1>1, ClosedTyped
  <2> HIDE DEF e, f
  <2>3. Fails(RetState, e).e = e /\ Fails(RetState, f).e = f
    BY <2>1, <2>2, FailsTyped DEF e, f
  <2>4. (e # "none" /\ result' = e) \/ result' = f
    BY <1>4, <2>3 DEF Commit, e, f
  <2>5. ~Fine'
    BY <2>1, <2>4 DEF Fine, StructureErrors, e, f
  <2> QED BY <1>4, <2>5 DEF CodeInv
<1> QED BY <1>3, <1>4, SemicolonCases

LEMMA CodeInit ==
  ASSUME Init
  PROVE  CodeInv
<1>1. written = <<>> /\ def.phase = "none"
  BY DEF Init, NoDef
<1> QED BY <1>1, AsksNothing DEF CodeInv, CodeOk, Open

(* Every step keeps the code of the definition what its words mean, and    *)
(* what it puts in the dictionary is that code.                            *)
LEMMA CodeStep ==
  ASSUME FindsNames, TypeInv, StreamInv, CodeInv, [Next]_vars
  PROVE  CodeInv' /\ [compiled' # <<>> => pNewWord = ":" /\ Asked(compiled')]_vars
<1>1. CASE CPP_semicolon
  BY <1>1, SemicolonCode
<1>2. CASE compiled' = <<>> /\ \E t \in Words : StructureWord(t) \/ Literal(t) \/ CompiledWord(t) \/ NondeferredWord(t)
  BY <1>2, StructureWordCode, LiteralKeepsCode, CompiledWordCode, AsideCode
<1>3. CASE compiled' = <<>> /\ UnknownWord
  BY <1>3 DEF UnknownWord, CodeInv, Fine
<1>4. CASE compiled' = <<>> /\ (CPP_lbracket \/ CPP_rbracket \/ Macro \/ EndOfLine)
  BY <1>4, LbracketCode, AsideCode, QuietCode
<1>5. CASE compiled' = <<>> /\ (UpToDone \/ BracketDone \/ MacroDone \/ LineDone)
  BY <1>5, UpToDoneCode, BracketDoneCode, QuietCode, LineDoneCode
<1>6. CASE compiled' = <<>> /\ \E e \in Codes : RunFails(e)
  BY <1>6, RunFailsCode
<1>7. CASE compiled' = <<>> /\ (EndOfStream \/ EndCompile \/ CPP_evaluate \/ CPP_include)
  BY <1>7, QuietCode, EndCompileCode, NestCode
<1>8. CASE UNCHANGED vars
  BY <1>8 DEF vars, CodeInv, CodeOk, Meant, Asks, Names, DefOps, Open, Bracketed, Fine
<1> QED BY <1>1, <1>2, <1>3, <1>4, <1>5, <1>6, <1>7, <1>8 DEF Next

(* Exactly the code that the words of a definition ask for goes to the     *)
(* dictionary, in their order and under the name that : made: brackets,    *)
(* macros, nested streams and lines in between lose and add nothing, in a  *)
(* source whose [']s find their names.                                     *)
THEOREM NothingLostCorrect ==
  ASSUME KeepsStreams, FindsNames
  PROVE  Spec => NothingLost
<1> DEFINE Inv == TypeInv /\ StreamInv /\ CodeInv
<1>1. Init => Inv
  BY TypeInit, StreamInit, CodeInit
<1>2. Inv /\ [Next]_vars => Inv' /\ [compiled' # <<>> => pNewWord = ":" /\ Asked(compiled')]_vars
  BY TypeStep, StreamStep, CodeStep
<1> HIDE DEF Inv
<1> QED BY <1>1, <1>2, PTL DEF Spec, NothingLost

===============================================================================
