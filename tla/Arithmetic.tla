------------------------------ MODULE Arithmetic ------------------------------
(***************************************************************************)
(* The multiple precision arithmetic of vm32.s as operators: each takes    *)
(* the data stack, the top first, to what it leaves on it and the error    *)
(* code.  A cell holds W bits, 32 in the code.  The unsigned operations    *)
(* follow the machine instructions because of what these do at the width:  *)
(* mull makes two cells, addl drops a carry, divl and idivl trap when the  *)
(* quotient does not fit in a cell.                                        *)
(*                                                                         *)
(* Below each group stand the values its words promise, by the integers.   *)
(***************************************************************************)
EXTENDS Integers, Sequences

CONSTANT W \* bits in a cell

(* The facts about the powers are true of every W; the provers know none.  *)
ASSUME WAssumption ==
  /\ W \in Nat \ {0, 1}
  /\ 2 ^ W = 2 * 2 ^ (W - 1) /\ 2 ^ (W - 1) >= 2

B     == 2 ^ W
Cells == 0 .. B - 1

Cell(i)   == i % B
Signed(c) == IF 2 * c >= B THEN c - B ELSE c
InCell(i) == -B <= 2 * i /\ 2 * i < B  \* i is the signed value of a cell

Unsigned2(h, l)    == h * B + l
Unsigned3(h, m, l) == Unsigned2(h, m) * B + l
Signed2(h, l)      == Unsigned2(Signed(h), l)
Signed3(h, m, l)   == Unsigned3(Signed(h), m, l)

(* The cells of an integer, the most significant first. *)
Cells2(i) == <<Cell(i \div B), Cell(i)>>
Cells3(i) == <<Cell(i \div (B * B)), Cell(i \div B), Cell(i)>>

Abs(i)      == IF i < 0 THEN -i ELSE i
Quot(i, j)  == IF (i < 0) = (j < 0) THEN Abs(i) \div Abs(j) ELSE -(Abs(i) \div Abs(j))
Rem(i, j)   == i - j * Quot(i, j)

Drop(s, n)   == SubSeq(s, n + 1, Len(s))
Leaves(s)    == [s |-> s, e |-> "none"]
Fails(s, e)  == [s |-> s, e |-> e]

-----------------------------------------------------------------------------
(* Negation and products *)

DNegate(h, l)    == Cells2(-Unsigned2(h, l))
TNEG(t)          == Cells3(-Unsigned3(t[1], t[2], t[3]))
DAbs(h, l)       == IF Signed(h) < 0 THEN DNegate(h, l) ELSE <<h, l>>
TAbs(h, m, l)    == IF Signed(h) < 0 THEN TNEG(<<h, m, l>>) ELSE <<h, m, l>>
SAbs(c)          == Cell(Abs(Signed(c)))

(* Mutant: the carry is lost. *)
UDMTripleNoCarry(u, h, l) ==
  LET high == Cells2(u * h)
      low  == Cells2(u * l)
  IN <<high[1], Cell(low[1] + high[2]), low[2]>>

(* Two single products; the carry of the middle cells goes to the high. *)
UDMTriple(u, h, l) ==
  LET high == Cells2(u * h)
      low  == Cells2(u * l)
      mid  == low[1] + high[2]
  IN <<Cell(high[1] + mid \div B), Cell(mid), low[2]>>

UDMStar(s) == Leaves(UDMTriple(s[1], s[2], s[3]) \o Drop(s, 3))

SignsDiffer(a, b) == (Signed(a) < 0) # (Signed(b) < 0)

DSStar(s) ==
  LET d == DAbs(s[2], s[3])
      t == UDMTriple(SAbs(s[1]), d[1], d[2])
  IN Leaves((IF SignsDiffer(s[1], s[2]) THEN TNEG(t) ELSE t) \o Drop(s, 3))

-----------------------------------------------------------------------------
(* Unsigned division *)

(* divl: hi:lo by u, where the quotient fits. *)
Divl(hi, lo, u) == [q |-> Unsigned2(hi, lo) \div u, r |-> Unsigned2(hi, lo) % u]

UMSlashMod(s) ==
  LET u == s[1]
      d == Divl(s[2], s[3], u)
  IN IF u = 0 THEN Fails(Tail(s), "divide by zero")
     ELSE IF s[2] \div u # 0 THEN Fails(Tail(s), "divide overflow")
     ELSE Leaves(<<d.q, d.r>> \o Drop(s, 3))

(* Mutant: the carry of the low quotients is lost. *)
LongDivideNoCarry(r3, ut2, ut1, u) ==
  LET d2  == Divl(0, ut2, u)
      d1  == Divl(0, ut1, u)
      d4  == Divl(r3, 0, u)
      d5  == Divl(d2.r, 0, u)
      d6  == Divl(d4.r, 0, u)
      d7  == Divl(0, Cell(d1.r + d5.r + d6.r), u)
  IN [hi |-> Cell(d2.q + d4.q), lo |-> Cell(d7.q + d6.q + d5.q + d1.q), r |-> d7.r]

(* utmslash1: ut3 by u left the remainder r3; the other cells divide on    *)
(* their own, then each remainder moves a cell down and is divided again.  *)
(* carry counts what the sum of the low quotients carries.                 *)
LongDivide(r3, ut2, ut1, u) ==
  LET d2  == Divl(0, ut2, u)
      d1  == Divl(0, ut1, u)
      d4  == Divl(r3, 0, u)
      d5  == Divl(d2.r, 0, u)
      d6  == Divl(d4.r, 0, u)
      sum == d1.r + d5.r + d6.r
      d7  == Divl(sum \div B, Cell(sum), u)
      low == d7.q + d6.q + d5.q + d1.q
      carry == low \div B
  IN [hi |-> Cell(d2.q + d4.q + carry), lo |-> Cell(low), r |-> d7.r]

UTMSlash(s) ==
  LET u == s[1]
      d == LongDivide(s[2] % u, s[3], s[4], u)
  IN IF u = 0 THEN Fails(s, "divide by zero")
     ELSE IF s[2] \div u # 0 THEN Fails(s, "divide overflow")
     ELSE Leaves(<<d.hi, d.lo>> \o Drop(s, 4))

UTSSlashMod(s) ==
  LET u == s[1]
      d == LongDivide(s[2] % u, s[3], s[4], u)
  IN IF u = 0 THEN Fails(s, "divide by zero")
     ELSE Leaves(<<s[2] \div u, d.hi, d.lo, d.r>> \o Drop(s, 4))

-----------------------------------------------------------------------------
(* Signed division.  idivl rounds towards zero; a quotient that does not   *)
(* fit is a trap, which ends the process unless a handler is set.          *)

Traps(i, n) == n = 0 \/ ~InCell(Quot(i, n))
Idivl(i, n) == [q |-> Cell(Quot(i, n)), r |-> Cell(Rem(i, n))]
Trap == Fails(<<>>, "trap")

Slash(s) ==
  LET i == Signed(s[2])
      n == Signed(s[1])
  IN IF n = 0 THEN Fails(Tail(s), "divide by zero")
     ELSE IF Traps(i, n) THEN Trap
     ELSE Leaves(<<Idivl(i, n).q>> \o Drop(s, 2))

StarSlash(s) ==
  LET i == Signed(s[2]) * Signed(s[3])
      n == Signed(s[1])
  IN IF Traps(i, n) THEN Trap
     ELSE Leaves(<<Idivl(i, n).q>> \o Drop(s, 3))

SMSlashRem(s) ==
  LET i == Signed2(s[2], s[3])
      n == Signed(s[1])
      d == Idivl(i, n)
  IN IF n = 0 THEN Fails(Tail(s), "divide by zero")
     ELSE IF Traps(i, n) THEN Trap
     ELSE Leaves(<<d.q, d.r>> \o Drop(s, 3))

(* A remainder whose sign is not the divisor's moves to the floor. *)
Floor(d, n) ==
  IF (n > 0 /\ Signed(d.r) < 0) \/ (n < 0 /\ Signed(d.r) > 0)
  THEN <<Cell(d.q - 1), Cell(d.r + n)>> ELSE <<d.q, d.r>>

FMSlashMod(s) ==
  LET i == Signed2(s[2], s[3])
      n == Signed(s[1])
  IN IF n = 0 THEN Fails(Tail(s), "divide by zero")
     ELSE IF Traps(i, n) THEN Trap
     ELSE Leaves(Floor(Idivl(i, n), n) \o Drop(s, 3))

(* The remainder changes its sign when the high cell is not zero: that is  *)
(* the cell the code saves, not its sign.                                  *)
STSSlashRem(s) ==
  LET d == UTSSlashMod(<<SAbs(s[1])>> \o TAbs(s[2], s[3], s[4])).s
      q == SubSeq(d, 1, 3)
  IN IF s[1] = 0 THEN Fails(s, "divide by zero")
     ELSE Leaves((IF SignsDiffer(s[1], s[2]) THEN TNEG(q) ELSE q)
                   \o <<IF s[2] # 0 THEN Cell(-d[4]) ELSE d[4]>> \o Drop(s, 4))

(* The sign takes the place of UTM/'s error code: it never fails. *)
MStarSlash(s) ==
  LET d == DAbs(s[3], s[4])
      r == UTMSlash(<<s[1]>> \o UDMTriple(SAbs(s[2]), d[1], d[2]) \o Drop(s, 4))
  IN Leaves(IF SignsDiffer(s[2], s[3])
            THEN DNegate(r.s[1], r.s[2]) \o Drop(r.s, 2) ELSE r.s)

-----------------------------------------------------------------------------
(* +LOOP: whether the loop goes on, by signed comparisons of cells that    *)
(* wrapped.                                                                *)

(* Mutant: the limit itself is the boundary for a negative increment. *)
GoesOnToLimit(inc, limit, index) ==
  LET next == Signed(Cell(index + inc))
      Past(c) == Signed(Cell(c + inc))
  IN IF Signed(inc) >= 0
     THEN next < Signed(limit) \/ next >= Past(limit)
     ELSE next > Signed(limit) \/ next <= Past(limit)

GoesOn(inc, limit, index) ==
  LET next == Signed(Cell(index + inc))
      Past(c) == Signed(Cell(c + inc))
  IN IF Signed(inc) >= 0
     THEN next < Signed(limit) \/ next >= Past(limit)
     ELSE next > Signed(Cell(limit - 1)) \/ next <= Past(limit - 1)

(* The steps from the index to the boundary between limit - 1 and limit,   *)
(* on the circle of cells.                                                 *)
Crosses(inc, limit, index) ==
  IF Signed(inc) >= 0
  THEN Signed(inc) > Cell(limit - 1 - index)
  ELSE -Signed(inc) > Cell(index - limit)

===============================================================================
