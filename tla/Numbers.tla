-------------------------------- MODULE Numbers --------------------------------
(***************************************************************************)
(* The number words at work on the data stack: one of the operations of    *)
(* Arithmetic, or a number written digit by digit between <# and #>, or a  *)
(* digit that >NUMBER takes in, or a number that . and its kin print and   *)
(* IsInt() or NUMBER? then read (vm32.s, vmc.c, ForthVM.cpp).              *)
(*                                                                         *)
(* A digit stands for its character.                                       *)
(***************************************************************************)
EXTENDS Arithmetic, SequencesExt

CONSTANTS
  Bases,    \* values of BASE
  MaxDigits \* bound: characters written between <# and #>

ASSUME NumbersAssumption == Bases \subseteq 2 .. B - 1 /\ MaxDigits \in Nat

(* As in Arithmetic: true of every base. *)
ASSUME PowersAssumption ==
  \A b \in Bases :
    b ^ 0 = 1 /\ b ^ W >= B /\ \A n \in 0 .. W - 1 : b ^ (n + 1) = b ^ n * b

VARIABLES
  stack,     \* the data stack, the top first
  Base,
  NumberBuf, \* the digits written, the most significant first
  code,      \* the error code of the last word
  op,        \* history: the last word
  before,    \* history: the stack that the operation, or <#, found
  text,      \* what was printed
  printed    \* history: the cells it was printed from

vars == <<stack, Base, NumberBuf, code, op, before, text, printed>>

Minus == -1
Space == -2
Held  == -3 \* a character of the program's

(* The cells under the first k are one case for the words that take k.     *)
Alone(k) == op = "none" /\ \A i \in (k + 1) .. 4 : stack[i] = 0

Word(name, result) ==
  /\ op = "none" /\ op' = name
  /\ stack' = result.s /\ code' = result.e
  /\ UNCHANGED <<Base, NumberBuf, before, text, printed>>

UMDivision  == Word("UM/MOD", UMSlashMod(stack))
UTMDivision == Word("UTM/", UTMSlash(stack))
UTSDivision == Word("UTS/MOD", UTSSlashMod(stack))
STSDivision == Word("STS/REM", STSSlashRem(stack))
FMDivision  == Word("FM/MOD", FMSlashMod(stack))
SMDivision  == Word("SM/REM", SMSlashRem(stack))
Division    == Word("/", Slash(stack))
Scaling     == Word("*/", StarSlash(stack))
LongScaling == Word("M*/", MStarSlash(stack))
Product     == Word("DS*", DSStar(stack))
UProduct    == Word("UDM*", UDMStar(stack))

(* +LOOP with the increment on the stack; the limit and the index, which   *)
(* are on the return stack, stand below it.  It leaves TRUE to go on.      *)
PlusLoop ==
  Word("+LOOP", Leaves(<<IF GoesOn(stack[1], stack[2], stack[3]) THEN B - 1 ELSE 0>>))

-----------------------------------------------------------------------------
(* Number conversion: the double on top of the stack *)

BracketSharp ==
  /\ Alone(2) /\ op' = "<#" /\ NumberBuf' = <<>>
  /\ UNCHANGED <<stack, Base, code, before, text, printed>>

(* Mutant: takes the digit one cell too high. *)
SharpStepHigh(h, l) ==
  LET q == UTMSlash(<<Base, 0, h, l>>).s
      p == UDMTriple(Base, q[1], q[2])
  IN [ud |-> q, digit |-> Cell(h - p[2])]

(* The quotient by UTM/, the digit by subtracting its product. *)
SharpStep(h, l) ==
  LET q == UTMSlash(<<Base, 0, h, l>>).s
      p == UDMTriple(Base, q[1], q[2])
  IN [ud |-> q, digit |-> Cell(l - p[3])]

(* #, by itself or from #S. *)
Sharp ==
  LET r == SharpStep(stack[1], stack[2]) IN
  /\ op \in {"<#", "#"} /\ op' = "#"
  /\ Len(NumberBuf) < MaxDigits
  /\ NumberBuf' = <<r.digit>> \o NumberBuf
  /\ stack' = r.ud \o Drop(stack, 2)
  /\ UNCHANGED <<Base, code, before, text, printed>>

(* HOLD, and SIGN of a number that is negative; another SIGN does nothing. *)
Hold ==
  /\ op \in {"<#", "#"} /\ Len(NumberBuf) < MaxDigits
  /\ \E c \in {Minus, Held} : NumberBuf' = <<c>> \o NumberBuf
  /\ UNCHANGED <<stack, Base, code, op, before, text, printed>>

(* #S stops when nothing is left, and #> drops the double. *)
SharpBracket ==
  /\ op = "#" /\ op' = "#>"
  /\ stack[1] = 0 /\ stack[2] = 0
  /\ stack' = Drop(stack, 2)
  /\ UNCHANGED <<Base, NumberBuf, code, before, text, printed>>

(* C_tonumber() takes in digit c: times Base, where only the third cell is *)
(* tested, plus c.                                                         *)
Accumulate(h, l, c) ==
  LET t == UDMTriple(Base, h, l)
  IN IF t[1] # 0 THEN Fails(<<t[2], t[3]>>, "double overflow")
     ELSE Leaves(Cells2(Unsigned2(t[2], t[3]) + c))

(* The digit is the third cell. *)
ToNumber ==
  /\ op = "none" /\ stack[3] < Base
  /\ Word(">NUMBER", Accumulate(stack[1], stack[2], stack[3]))

-----------------------------------------------------------------------------
(* Printing *)

(* U. divides by the powers of Base, from the highest one that fits.       *)
Count(u)  == CHOOSE n \in 1 .. W : u \div Base ^ n = 0 /\ (n > 1 => u \div Base ^ (n - 1) # 0)
UDot0(u)  == [i \in 1 .. Count(u) |-> (u \div Base ^ (Count(u) - i)) % Base]
Sign(neg) == IF neg THEN <<Minus>> ELSE <<>>

(* Mutant: takes the magnitude without the sign's cell. *)
NoLabs(n) == IF n >= B \div 2 THEN n - B \div 2 ELSE n

(* labs(), of the least cell too, which is then read as unsigned.          *)
Labs(n) == IF Signed(n) < 0 THEN Cell(-n) ELSE n

DotText(n) == Sign(Signed(n) < 0) \o UDot0(Labs(n))

(* The field is filled up; a width of 0 or less prints nothing.            *)
InField(width, chars) ==
  IF Signed(width) <= 0 THEN <<>>
  ELSE [i \in 1 .. (Signed(width) - Len(chars)) |-> Space] \o chars

(* #S from a double, until nothing is left *)
SharpS(ud) ==
  LET q[i \in 0 .. B * B] == IF i = 0 THEN ud ELSE SharpStep(q[i - 1][1], q[i - 1][2]).ud
      n == CHOOSE n \in 1 .. B * B : q[n] = <<0, 0>> /\ \A i \in 1 .. n - 1 : q[i] # <<0, 0>>
  IN  [i \in 1 .. n |-> SharpStep(q[n - i][1], q[n - i][2]).digit]

UDDotText(h, l) == IF h = 0 THEN UDot0(l) ELSE SharpS(<<h, l>>)

Prints(name, k, chars, cells) ==
  /\ Alone(k) /\ op' = name /\ stack' = Drop(stack, k) /\ text' = chars /\ printed' = cells
  /\ UNCHANGED <<Base, NumberBuf, code, before>>

Single == <<stack[1]>>
Double == <<stack[1], stack[2]>>

Dot   == Prints(".", 1, Append(DotText(stack[1]), Space), Single)
UDot  == Prints("U.", 1, Append(UDot0(stack[1]), Space), Single)
DotR  == Prints(".R", 2, InField(stack[1], DotText(stack[2])), <<stack[2]>>)
UDotR == Prints("U.R", 2, InField(stack[1], UDot0(stack[2])), <<stack[2]>>)
UDDot == Prints("UD.", 2, Append(UDDotText(stack[1], stack[2]), Space), Double)
DDot  ==
  LET d == IF Signed(stack[1]) < 0 THEN DAbs(stack[1], stack[2]) ELSE Double
  IN  Prints("D.", 2, Sign(Signed(stack[1]) < 0) \o Append(UDDotText(d[1], d[2]), Space), Double)

-----------------------------------------------------------------------------
(* Reading what was printed, with a digit more or without *)

Token ==
  LET p == {i \in DOMAIN text : text[i] # Space}
  IN  IF p = {} THEN <<>> ELSE SubSeq(text, Min(p), Max(p))
Negative == Token # <<>> /\ Head(Token) = Minus

Typed(word, names) ==
  /\ op \in names /\ Token # <<>> /\ op' = word
  /\ \/ UNCHANGED <<text, printed>>
     \/ printed' = <<>> /\ \E d \in 0 .. Base - 1 : text' = Token \o <<d>>

(* The digits of s in base b taken in after the value v, past other characters. *)
Reads(b, v, s) ==
  LET r[i \in 0 .. Len(s)] ==
        IF i = 0 THEN v ELSE IF s[i] < 0 THEN r[i - 1] ELSE r[i - 1] * b + s[i]
  IN  r[Len(s)]

(* strtoul() goes no further than the greatest cell, and negates what a    *)
(* sign stands before.                                                     *)
Strtoul(chars, neg) ==
  LET v == Reads(Base, 0, chars)
  IN  IF v >= B THEN B - 1 ELSE IF neg THEN Cell(-v) ELSE v

IsInt ==
  /\ Typed("IsInt", {".", "U.", ".R", "U.R"})
  /\ stack' = <<Strtoul(text', Negative)>> \o stack
  /\ UNCHANGED <<Base, NumberBuf, code, before>>

(* NUMBER? lets >NUMBER take the digits.  When they overflow, >NUMBER      *)
(* leaves the double alone, and NUMBER? drops it for the string it takes   *)
(* it to be, and negates what lies below.                                  *)
Taken(s) ==
  LET r[i \in 0 .. Len(s)] ==
        IF i = 0 THEN Leaves(<<0, 0>>)
        ELSE IF s[i] < 0 \/ r[i - 1].e # "none" THEN r[i - 1]
        ELSE Accumulate(r[i - 1].s[1], r[i - 1].s[2], s[i])
  IN  r[Len(s)]

Flag(b) == IF b THEN B - 1 ELSE 0
Negated(s, neg) == IF neg /\ Len(s) >= 2 THEN DNegate(s[1], s[2]) \o Drop(s, 2) ELSE s

NumberQuery ==
  /\ Typed("NUMBER?", {"D.", "UD."})
  /\ LET r == Taken(text')
     IN  stack' = IF r.e = "none" THEN <<Flag(TRUE)>> \o Negated(r.s, Negative) \o stack
                  ELSE <<Flag(r.s[1] = 0)>> \o Negated(stack, Negative)
  /\ UNCHANGED <<Base, NumberBuf, code, before>>

-----------------------------------------------------------------------------
Init ==
  /\ stack \in [1 .. 4 -> Cells] /\ before = stack
  /\ Base \in Bases /\ NumberBuf = <<>> /\ code = "none" /\ op = "none"
  /\ text = <<>> /\ printed = <<>>

Next ==
  \/ UMDivision \/ UTMDivision \/ UTSDivision \/ STSDivision
  \/ FMDivision \/ SMDivision \/ Division
  \/ Scaling \/ LongScaling \/ Product \/ UProduct \/ PlusLoop
  \/ BracketSharp \/ Sharp \/ Hold \/ SharpBracket \/ ToNumber
  \/ Dot \/ UDot \/ DotR \/ UDotR \/ DDot \/ UDDot \/ IsInt \/ NumberQuery

Spec == Init /\ [][Next]_vars

-----------------------------------------------------------------------------
(* Properties *)

Ran(name) == op = name /\ code = "none"

(* UM/MOD, UTM/ and UTS/MOD divide exactly, or say that the divisor is     *)
(* zero or that the quotient does not fit, and only then.                  *)
UnsignedDivides ==
  LET u  == before[1]
      n2 == Unsigned2(before[2], before[3])
      n3 == Unsigned3(before[2], before[3], before[4])
  IN /\ op = "UM/MOD" => /\ code = "none" <=> u # 0 /\ n2 \div u < B
                         /\ code = "none" => u * stack[1] + stack[2] = n2 /\ stack[2] < u
     /\ op = "UTM/" =>
          /\ code = "none" <=> u # 0 /\ n3 \div u < B * B
          /\ code = "none" => Unsigned2(stack[1], stack[2]) = n3 \div u
     /\ op = "UTS/MOD" =>
          /\ code = "none" <=> u # 0
          /\ code = "none" =>
               /\ u * Unsigned3(stack[1], stack[2], stack[3]) + stack[4] = n3
               /\ stack[4] < u

(* SM/REM and / round towards zero, FM/MOD to the floor, with the          *)
(* remainder that goes with the quotient; STS/REM has the quotient of      *)
(* SM/REM.  A quotient that does not fit traps, but for the floor one      *)
(* below the least cell, which wraps, and STS/REM's, which wraps too.      *)
SignedDivides ==
  LET n  == Signed(before[1])
      d1 == Signed(before[2])
      d2 == Signed2(before[2], before[3])
      d3 == Signed3(before[2], before[3], before[4])
      Fits(d) == n # 0 /\ InCell(Quot(d, n))
      q  == Signed(stack[1])
      r  == Signed(stack[2])
  IN /\ op = "/" => /\ code = "none" <=> Fits(d1)
                    /\ code = "none" => q = Quot(d1, n)
     /\ op = "*/" => code = "none" <=> n # 0 /\ InCell(Quot(d1 * Signed(before[3]), n))
     /\ op = "SM/REM" => /\ code = "none" <=> Fits(d2)
                         /\ code = "none" => q * n + r = d2 /\ r = Rem(d2, n)
     /\ op = "FM/MOD" =>
          /\ code = "none" <=> Fits(d2)
          /\ code = "none" =>
               /\ Abs(r) < Abs(n) /\ (r # 0 => (r < 0) = (n < 0))
               /\ q * n + r = d2 \/ ((q - B) * n + r = d2 /\ ~InCell(q - B))
     /\ Ran("STS/REM") /\ 2 * Quot(d3, n) < B * B * B =>
          Signed3(stack[1], stack[2], stack[3]) = Quot(d3, n)

(* Every division of every operand: the quotient and the remainder that    *)
(* belong to it, or an error just when there is none.                      *)
DivisionsExact == UnsignedDivides /\ SignedDivides

(* The products are exact in the cells they have.  So is M*/, through a    *)
(* triple product, when its divisor is positive and its quotient fits.     *)
ProductsExact ==
  LET d == Signed2(before[2], before[3])
      scaled == Signed2(before[3], before[4]) * Signed(before[2])
  IN /\ op = "DS*" => Signed3(stack[1], stack[2], stack[3]) = d * Signed(before[1])
     /\ op = "UDM*" =>
          Unsigned3(stack[1], stack[2], stack[3]) = Unsigned2(before[2], before[3]) * before[1]
     /\ /\ op = "M*/" /\ Signed(before[1]) > 0
        /\ 2 * Abs(Quot(scaled, Signed(before[1]))) < B * B
        => Signed2(stack[1], stack[2]) = Quot(scaled, Signed(before[1]))

(* +LOOP ends the loop on the step that crosses the boundary between the   *)
(* limit less one and the limit, also when the index wraps around, as long *)
(* as limit plus increment does not.                                       *)
LoopEndsAtLimit ==
  LET inc == before[1]
      boundary == Signed(before[2]) - (IF Signed(inc) < 0 THEN 1 ELSE 0)
  IN op = "+LOOP" /\ InCell(boundary) /\ InCell(boundary + Signed(inc)) =>
       (stack = <<0>>) = Crosses(inc, before[2], before[3])

(* # moves the number from the double to the digits and loses nothing:     *)
(* with the digits after it, what is left is the double that <# found, and *)
(* #> leaves nothing but digits.                                           *)
DigitsKeepNumber ==
  LET left == IF op = "#>" THEN 0 ELSE Unsigned2(stack[1], stack[2])
  IN op \in {"<#", "#", "#>"} => Reads(Base, left, NumberBuf) = Unsigned2(before[1], before[2])

(* >NUMBER takes a digit in exactly or says that the double overflows,     *)
(* but for a digit whose own carry overflows it: nothing tests that one.   *)
NumberTakesDigit ==
  LET n == Unsigned2(before[1], before[2]) * Base
      v == n + before[3]
  IN op = ">NUMBER" =>
       /\ code = "none" <=> n < B * B
       /\ v < B * B => Unsigned2(stack[1], stack[2]) = v

(* A number loses nothing on its way to digits or from them, overflow and  *)
(* other characters among the digits included.                             *)
ConversionExact == DigitsKeepNumber /\ NumberTakesDigit

(* What . U. .R and U.R print is the number that IsInt() reads, and what   *)
(* D. and UD. print is the one that NUMBER? reads, through different       *)
(* algorithms, at the ends of the cell too; and .R and U.R keep the field, *)
(* or go over it when the number is longer.                                *)
PrintedIsRead ==
  /\ op = "IsInt" /\ printed # <<>> => printed = <<stack[1]>>
  /\ op = "NUMBER?" /\ printed # <<>> =>
       stack[1] = Flag(TRUE) /\ printed = <<stack[2], stack[3]>>
  /\ op \in {".R", "U.R"} /\ text # <<>> =>
       Len(text) = IF Signed(before[1]) > Len(Token) THEN Signed(before[1]) ELSE Len(Token)

================================================================================
