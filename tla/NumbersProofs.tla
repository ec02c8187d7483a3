----------------------------- MODULE NumbersProofs -----------------------------
(***************************************************************************)
(* The theorems about Numbers, and the lemmas about the operators of       *)
(* Arithmetic they rest on: for cells of any width, 32 bits included.      *)
(***************************************************************************)
EXTENDS Numbers, SequenceTheorems, WellFoundedInduction, TLAPS

-----------------------------------------------------------------------------
(* Integers *)

(* The quotient and the remainder of a division. *)
LEMMA DivMod ==
  ASSUME NEW a \in Int, NEW b \in Nat \ {0}
  PROVE  /\ a \div b \in Int /\ a % b \in Int
         /\ a = b * (a \div b) + (a % b) /\ 0 <= a % b /\ a % b < b
  OBVIOUS

(* They are the only ones. *)
LEMMA DivUnique ==
  ASSUME NEW a \in Int, NEW b \in Nat \ {0}, NEW q \in Int, NEW r \in Int,
         a = b * q + r, 0 <= r, r < b
  PROVE  a \div b = q /\ a % b = r
  OBVIOUS

(* A natural number has a natural quotient. *)
LEMMA DivNat ==
  ASSUME NEW a \in Nat, NEW b \in Nat \ {0}
  PROVE  a \div b \in Nat /\ a % b \in Nat /\ b * (a \div b) <= a
  OBVIOUS

(* A division that comes out even but for the remainder. *)
LEMMA Divided ==
  ASSUME NEW a \in Nat, NEW b \in Nat \ {0}
  PROVE  \E q \in Nat, r \in Nat : q = a \div b /\ r = a % b /\ a = b * q + r /\ r < b
<1>1. a \div b \in Nat /\ a % b \in Nat
  BY DivNat
<1>2. a = b * (a \div b) + (a % b) /\ a % b < b
  BY DivMod
<1> QED BY <1>1, <1>2

(* A quotient is less than k just when the number is less than k divisors. *)
LEMMA DivLess ==
  ASSUME NEW a \in Int, NEW b \in Nat \ {0}, NEW k \in Int
  PROVE  a \div b < k <=> a < k * b
<1> DEFINE q == a \div b
<1>1. q \in Int /\ a % b \in Int /\ a = b * q + (a % b) /\ 0 <= a % b /\ a % b < b
  BY DivMod
<1> HIDE DEF q
<1>2. ASSUME q < k PROVE a < k * b
  <2>1. q + 1 <= k
    BY <1>1, <1>2
  <2>2. (q + 1) * b <= k * b
    BY <2>1, <1>1
  <2> QED BY <2>2, <1>1
<1>3. ASSUME q >= k PROVE a >= k * b
  <2>1. q * b >= k * b
    BY <1>1, <1>3
  <2> QED BY <2>1, <1>1
<1> QED BY <1>1, <1>2, <1>3 DEF q

(* The products of numbers. *)
LEMMA TimesNat ==
  ASSUME NEW a \in Nat, NEW b \in Nat
  PROVE  a * b \in Nat
  OBVIOUS

(* Products keep the order. *)
LEMMA TimesMono ==
  ASSUME NEW a \in Int, NEW b \in Int, NEW c \in Nat, a <= b
  PROVE  a * c <= b * c
  OBVIOUS

-----------------------------------------------------------------------------
(* Cells *)

Half == 2 ^ (W - 1)

(* A cell holds an even number of values, four at least. *)
LEMMA Width == Half \in Nat /\ Half >= 2 /\ B = 2 * Half /\ B \in Nat \ {0} /\ B >= 4
  BY WAssumption DEF Half, B

(* Taking the low cell of a number that is hardly out of range. *)
LEMMA CellNear ==
  ASSUME NEW i \in Int
  PROVE  /\ Cell(i) \in Cells
         /\ 0 <= i /\ i < B => Cell(i) = i
         /\ -B <= i /\ i < 0 => Cell(i) = i + B
         /\ B <= i /\ i < 2 * B => Cell(i) = i - B
<1>1. B \in Nat \ {0}
  BY Width
<1>2. Cell(i) \in Cells
  BY <1>1, DivMod DEF Cell, Cells
<1>3. ASSUME 0 <= i, i < B PROVE Cell(i) = i
  <2>1. i = B * 0 + i
    BY <1>1
  <2> QED BY <2>1, <1>1, <1>3, DivUnique DEF Cell
<1>4. ASSUME -B <= i, i < 0 PROVE Cell(i) = i + B
  <2>1. i = B * (-1) + (i + B)
    BY <1>1
  <2> QED BY <2>1, <1>1, <1>4, DivUnique DEF Cell
<1>5. ASSUME B <= i, i < 2 * B PROVE Cell(i) = i - B
  <2>1. i = B * 1 + (i - B)
    BY <1>1
  <2> QED BY <2>1, <1>1, <1>5, DivUnique DEF Cell
<1> QED BY <1>2, <1>3, <1>4, <1>5

(* The signed value of a cell. *)
LEMMA SignedValue ==
  ASSUME NEW c \in Cells
  PROVE  /\ Signed(c) \in Int /\ InCell(Signed(c))
         /\ -Half <= Signed(c) /\ Signed(c) < Half
         /\ Signed(c) < 0 => Signed(c) = c - B /\ c >= Half
         /\ Signed(c) >= 0 => Signed(c) = c /\ c < Half
  BY Width DEF Signed, InCell, Cells

(* A number that fits in a cell is the signed value of its cell. *)
LEMMA SignedCell ==
  ASSUME NEW i \in Int, InCell(i)
  PROVE  Cell(i) \in Cells /\ Signed(Cell(i)) = i
<1>1. -B <= i /\ i < B
  BY Width DEF InCell
<1>2. i < 0 => Cell(i) = i + B
  BY <1>1, CellNear
<1>3. i >= 0 => Cell(i) = i
  BY <1>1, CellNear
<1>4. Cell(i) \in Cells
  BY CellNear
<1> QED BY <1>2, <1>3, <1>4, Width DEF Signed, InCell

-----------------------------------------------------------------------------
(* The stack *)

Stacks == [1 .. 4 -> Cells]

(* What lies under the cells that a word takes. *)
LEMMA Under ==
  ASSUME NEW s \in Stacks, NEW n \in 1 .. 4
  PROVE  Drop(s, n) \in Seq(Cells)
<1>1. s \in Seq(Cells)
  BY SeqDef DEF Stacks
<1>2. Len(s) = 4
  BY <1>1, LenProperties DEF Stacks
<1>3. \A i \in (n + 1) .. Len(s) : s[i] \in Cells
  BY <1>2 DEF Stacks
<1> QED BY <1>2, <1>3, SubSeqProperties DEF Drop

(* The cells that a word leaves on it. *)
LEMMA OnTop ==
  ASSUME NEW t \in Seq(Cells), NEW a \in Cells, NEW b \in Cells, NEW c \in Cells, NEW d \in Cells
  PROVE  /\ (<<a>> \o t)[1] = a
         /\ (<<a, b>> \o t)[1] = a /\ (<<a, b>> \o t)[2] = b
         /\ (<<a, b, c>> \o t)[1] = a /\ (<<a, b, c>> \o t)[2] = b /\ (<<a, b, c>> \o t)[3] = c
         /\ (<<a, b, c, d>> \o t)[1] = a /\ (<<a, b, c, d>> \o t)[2] = b
         /\ (<<a, b, c, d>> \o t)[3] = c /\ (<<a, b, c, d>> \o t)[4] = d
  OBVIOUS

-----------------------------------------------------------------------------
(* Unsigned division *)

(* A cell is a natural number. *)
LEMMA CellNat == \A c \in Cells : c \in Nat /\ 0 <= c /\ c < B /\ c \in Int
  BY Width DEF Cells

(* The value of two cells is small just when the high one is. *)
LEMMA HighDecides ==
  ASSUME NEW h \in Nat, NEW l \in Nat, l < B, NEW k \in Nat
  PROVE  h < k <=> h * B + l < k * B
<1>1. B \in Nat \ {0}
  BY Width
<1>2. ASSUME h < k PROVE h * B + l < k * B
  <2>1. (h + 1) * B <= k * B
    BY <1>1, <1>2
  <2> QED BY <2>1, <1>1
<1>3. ASSUME h >= k PROVE h * B + l >= k * B
  <2>1. k * B <= h * B
    BY <1>1, <1>3
  <2> QED BY <2>1, <1>1
<1> QED BY <1>2, <1>3, <1>1

(* UM/MOD divides two cells by one, and says when it cannot. *)
LEMMA UMSlashModExact ==
  ASSUME NEW s \in Stacks
  PROVE  LET r == UMSlashMod(s)
             n == Unsigned2(s[2], s[3])
         IN  /\ r.e = "none" <=> s[1] # 0 /\ n \div s[1] < B
             /\ r.e = "none" => s[1] * r.s[1] + r.s[2] = n /\ r.s[2] < s[1]
<1>1. PICK u \in Cells, h \in Cells, l \in Cells : u = s[1] /\ h = s[2] /\ l = s[3]
  BY DEF Stacks
<1>2. PICK n : n = h * B + l
  OBVIOUS
<1>3. n \in Nat /\ B \in Nat \ {0} /\ u \in Nat /\ h \in Nat /\ l \in Nat /\ l < B
  BY <1>2, CellNat, Width
<1>4. CASE u = 0
  BY <1>1, <1>4 DEF UMSlashMod, Fails
<1>5. CASE u # 0
  <2>1. u \in Nat \ {0}
    BY <1>3, <1>5
  <2>2. h \div u = 0 <=> h < u
    <3>1. h \div u < 1 <=> h < 1 * u
      BY <2>1, <1>3, DivLess
    <3>2. h \div u \in Nat
      BY <2>1, <1>3, DivNat
    <3> QED BY <3>1, <3>2, <2>1
  <2>3. h < u <=> n < u * B
    BY HighDecides, <1>2, <1>3, <2>1
  <2>4. n \div u < B <=> n < B * u
    BY DivLess, <1>3, <2>1
  <2>5. h \div u = 0 <=> n \div u < B
    BY <2>2, <2>3, <2>4, <2>1, <1>3
  <2>6. CASE h \div u # 0
    BY <1>1, <1>2, <1>5, <2>5, <2>6 DEF UMSlashMod, Fails, Unsigned2
  <2>7. CASE h \div u = 0
    <3>1. PICK q \in Nat, r \in Nat : q = n \div u /\ r = n % u
      BY DivNat, <1>3, <2>1
    <3>2. n = u * q + r /\ r < u
      BY <3>1, DivMod, <1>3, <2>1
    <3>3. q < B /\ q \in Cells
      BY <3>1, <2>5, <2>7, Width DEF Cells
    <3>4. r \in Cells
      BY <3>2, <1>3, CellNat, Width DEF Cells
    <3>5. UMSlashMod(s) = Leaves(<<q, r>> \o Drop(s, 3))
      BY <1>1, <1>2, <1>5, <2>7, <3>1 DEF UMSlashMod, Divl, Unsigned2
    <3>6. UMSlashMod(s).e = "none" /\ UMSlashMod(s).s = <<q, r>> \o Drop(s, 3)
      BY <3>5 DEF Leaves
    <3>7. UMSlashMod(s).s[1] = q /\ UMSlashMod(s).s[2] = r
      BY <3>3, <3>4, <3>6, Under, OnTop
    <3> QED BY <1>1, <1>2, <1>5, <2>5, <2>7, <3>2, <3>6, <3>7 DEF Unsigned2
  <2> QED BY <2>6, <2>7
<1> QED BY <1>4, <1>5

(* What LongDivide makes of its quotients and remainders. *)
LEMMA LongDivideSum ==
  ASSUME NEW u \in Nat \ {0}, u < B, NEW r3 \in Nat, r3 < u,
         NEW m \in Cells, NEW l \in Cells
  PROVE  LET d == LongDivide(r3, m, l, u)
             q == (r3 * B * B + m * B + l) \div u
         IN  /\ d.hi \in Cells /\ d.lo \in Cells /\ d.r \in Nat /\ d.r < u
             /\ q = d.hi * B + d.lo
             /\ u * q + d.r = r3 * B * B + m * B + l
<1>0. B \in Nat \ {0} /\ m \in Nat /\ l \in Nat /\ m < B /\ l < B
  BY Width, CellNat
<1>2. PICK q2 \in Nat, r2 \in Nat : q2 = m \div u /\ r2 = m % u /\ m = u * q2 + r2 /\ r2 < u
  BY <1>0, Divided
<1>1. PICK q1 \in Nat, r1 \in Nat : q1 = l \div u /\ r1 = l % u /\ l = u * q1 + r1 /\ r1 < u
  BY <1>0, Divided
<1>4. PICK q4 \in Nat, r4 \in Nat :
        q4 = (r3 * B) \div u /\ r4 = (r3 * B) % u /\ r3 * B = u * q4 + r4 /\ r4 < u
  <2>1. PICK p \in Nat : p = r3 * B
    BY <1>0, TimesNat
  <2> QED BY <2>1, Divided
<1>5. PICK q5 \in Nat, r5 \in Nat :
        q5 = (r2 * B) \div u /\ r5 = (r2 * B) % u /\ r2 * B = u * q5 + r5 /\ r5 < u
  <2>1. PICK p \in Nat : p = r2 * B
    BY <1>0, TimesNat
  <2> QED BY <2>1, Divided
<1>6. PICK q6 \in Nat, r6 \in Nat :
        q6 = (r4 * B) \div u /\ r6 = (r4 * B) % u /\ r4 * B = u * q6 + r6 /\ r6 < u
  <2>1. PICK p \in Nat : p = r4 * B
    BY <1>0, TimesNat
  <2> QED BY <2>1, Divided
<1>7. PICK sum \in Nat : sum = r1 + r5 + r6
  OBVIOUS
<1>8. PICK q7 \in Nat, r7 \in Nat : q7 = sum \div u /\ r7 = sum % u /\ sum = u * q7 + r7 /\ r7 < u
  BY Divided
<1>9. PICK low \in Nat : low = q7 + q6 + q5 + q1
  OBVIOUS
<1>10. PICK c \in Nat, k \in Nat : c = low \div B /\ k = low % B /\ low = B * c + k /\ k < B
  BY <1>0, Divided
<1>11. (sum \div B) * B + Cell(sum) = sum
  BY <1>0, DivMod DEF Cell
<1>12. LongDivide(r3, m, l, u) = [hi |-> Cell(q2 + q4 + c), lo |-> Cell(low), r |-> r7]
  <2>1. Divl(0, m, u) = [q |-> q2, r |-> r2]
    BY <1>0, <1>2 DEF Divl, Unsigned2
  <2>2. Divl(0, l, u) = [q |-> q1, r |-> r1]
    BY <1>0, <1>1 DEF Divl, Unsigned2
  <2>3. Divl(r3, 0, u) = [q |-> q4, r |-> r4]
    <3>1. r3 * B + 0 = r3 * B
      BY <1>0
    <3> QED BY <3>1, <1>4 DEF Divl, Unsigned2
  <2>4. Divl(r2, 0, u) = [q |-> q5, r |-> r5]
    <3>1. r2 * B + 0 = r2 * B
      BY <1>0
    <3> QED BY <3>1, <1>5 DEF Divl, Unsigned2
  <2>5. Divl(r4, 0, u) = [q |-> q6, r |-> r6]
    <3>1. r4 * B + 0 = r4 * B
      BY <1>0
    <3> QED BY <3>1, <1>6 DEF Divl, Unsigned2
  <2>6. Divl(sum \div B, Cell(sum), u) = [q |-> q7, r |-> r7]
    BY <1>8, <1>11 DEF Divl, Unsigned2
  <2> HIDE DEF Divl
  <2> QED BY <2>1, <2>2, <2>3, <2>4, <2>5, <2>6, <1>7, <1>9, <1>10 DEF LongDivide
<1>13. PICK n \in Nat : n = r3 * B * B + m * B + l
  <2>1. r3 * B * B \in Nat /\ m * B \in Nat
    BY <1>0, TimesNat
  <2> QED BY <2>1, <1>0
<1>14. PICK x \in Nat : x = q2 + q4 + c
  OBVIOUS
<1>15. n = u * (x * B + k) + r7
  <2>1. PICK a4 \in Nat, b4 \in Nat, a2 \in Nat, b2 \in Nat :
          a4 = u * q4 * B /\ b4 = r4 * B /\ a2 = u * q2 * B /\ b2 = r2 * B
    <3>1. u * q4 * B \in Nat /\ r4 * B \in Nat /\ u * q2 * B \in Nat /\ r2 * B \in Nat
      BY <1>0, TimesNat
    <3> QED BY <3>1
  <2>2. PICK c1 \in Nat, c5 \in Nat, c6 \in Nat, c7 \in Nat :
          c1 = u * q1 /\ c5 = u * q5 /\ c6 = u * q6 /\ c7 = u * q7
    <3>1. u * q1 \in Nat /\ u * q5 \in Nat /\ u * q6 \in Nat /\ u * q7 \in Nat
      BY TimesNat
    <3> QED BY <3>1
  <2>3. r3 * B * B = a4 + b4
    <3>1. (u * q4 + r4) * B = u * q4 * B + r4 * B
      BY <1>0
    <3> QED BY <3>1, <1>4, <2>1
  <2>4. m * B = a2 + b2
    <3>1. (u * q2 + r2) * B = u * q2 * B + r2 * B
      BY <1>0
    <3> QED BY <3>1, <1>2, <2>1
  <2>5. b4 = c6 + r6 /\ b2 = c5 + r5 /\ l = c1 + r1 /\ sum = c7 + r7
    BY <1>1, <1>5, <1>6, <1>8, <2>1, <2>2
  <2>6. n = (a4 + b4) + (a2 + b2) + l
    BY <1>13, <2>3, <2>4
  <2>7. n = a4 + a2 + (c1 + c5 + c6 + c7) + r7
    BY ONLY <2>5, <2>6, <1>7, <1>0, n \in Nat, a4 \in Nat, a2 \in Nat, b4 \in Nat, b2 \in Nat,
       c1 \in Nat, c5 \in Nat, c6 \in Nat, c7 \in Nat, r1 \in Nat, r5 \in Nat, r6 \in Nat,
       r7 \in Nat, sum \in Nat
  <2>8. c1 + c5 + c6 + c7 = u * low
    BY <1>9, <2>2
  <2>9. u * low = u * c * B + u * k
    BY <1>10, <1>0
  <2>10. u * (x * B + k) = a2 + a4 + u * c * B + u * k
    BY <1>14, <1>0, <2>1
  <2>11. PICK e \in Nat : e = u * c * B + u * k
    <3>1. u * c * B \in Nat /\ u * k \in Nat
      BY <1>0, TimesNat
    <3> QED BY <3>1
  <2>12. u * (x * B + k) = a2 + a4 + e
    BY <2>10, <2>11, <1>0
  <2>13. c1 + c5 + c6 + c7 = e
    BY ONLY <2>8, <2>9, <2>11
  <2>14. n = a4 + a2 + e + r7
    BY <2>7, <2>13
  <2> QED BY ONLY <2>12, <2>14, a4 \in Nat, a2 \in Nat, e \in Nat, r7 \in Nat
<1>16. PICK y \in Nat : y = x * B + k
  <2>1. x * B \in Nat
    BY <1>0, TimesNat
  <2> QED BY <2>1
<1>17. n \div u = y
  BY <1>15, <1>16, <1>8, DivUnique
<1>18. x < B
  <2>1. r3 * B * B + m * B + l < u * B * B
    <3>1. r3 * B + m < u * B
      BY HighDecides, <1>0
    <3>2. r3 * B + m \in Nat /\ u * B \in Nat
      BY <1>0, TimesNat
    <3>3. (r3 * B + m) * B + l < u * B * B
      BY <3>1, <3>2, HighDecides, <1>0
    <3> QED BY <3>3, <1>0
  <2>2. n \div u < B * B <=> n < (B * B) * u
    BY DivLess, <1>0
  <2>3. (B * B) * u = u * B * B
    BY <1>0
  <2>4. x * B + k < B * B
    BY <2>1, <2>2, <2>3, <1>13, <1>16, <1>17
  <2> QED BY <2>4, HighDecides, <1>0, <1>10
<1>19. Cell(x) = x /\ x \in Cells
  BY CellNear, <1>18
<1>20. Cell(low) = k /\ k \in Cells
  BY <1>10, Width DEF Cell, Cells
<1>21. LongDivide(r3, m, l, u) = [hi |-> x, lo |-> k, r |-> r7]
  BY <1>12, <1>14, <1>19, <1>20
<1> QED BY <1>8, <1>13, <1>15, <1>16, <1>17, <1>19, <1>20, <1>21

(* The cells of a stack. *)
LEMMA FourCells ==
  ASSUME NEW s \in Stacks
  PROVE  s[1] \in Cells /\ s[2] \in Cells /\ s[3] \in Cells /\ s[4] \in Cells
  BY DEF Stacks

(* UTM/ divides three cells by one, and says when it cannot. *)
LEMMA UTMSlashExact ==
  ASSUME NEW s \in Stacks
  PROVE  LET r == UTMSlash(s)
             n == Unsigned3(s[2], s[3], s[4])
         IN  /\ r.e = "none" <=> s[1] # 0 /\ n \div s[1] < B * B
             /\ r.e = "none" =>
                  /\ r.s[1] \in Cells /\ r.s[2] \in Cells
                  /\ Unsigned2(r.s[1], r.s[2]) = n \div s[1]
                  /\ \E hi, lo \in Cells : r.s = <<hi, lo>> \o Drop(s, 4)
             /\ r.e # "none" => r.s = s
<1>1. PICK u \in Cells, h \in Cells, m \in Cells, l \in Cells :
        u = s[1] /\ h = s[2] /\ m = s[3] /\ l = s[4]
  BY FourCells
<1>2. PICK n \in Nat : n = h * B * B + m * B + l
  <2>1. h * B * B \in Nat /\ m * B \in Nat
    BY CellNat, Width, TimesNat
  <2> QED BY <2>1, CellNat
<1>3. B \in Nat \ {0} /\ u \in Nat /\ h \in Nat /\ m \in Nat /\ l \in Nat /\ l < B /\ u < B
  BY CellNat, Width
<1>4. Unsigned3(s[2], s[3], s[4]) = n
  BY <1>1, <1>2, <1>3 DEF Unsigned3, Unsigned2
<1>5. CASE u = 0
  BY <1>1, <1>5 DEF UTMSlash, Fails
<1>6. CASE u # 0
  <2>1. u \in Nat \ {0}
    BY <1>3, <1>6
  <2>2. h \div u = 0 <=> h < u
    <3>1. h \div u < 1 <=> h < 1 * u
      BY <2>1, <1>3, DivLess
    <3>2. h \div u \in Nat
      BY <2>1, <1>3, DivNat
    <3> QED BY <3>1, <3>2, <2>1
  <2>3. h < u <=> n < (B * B) * u
    <3>1. h < u <=> h * B + m < u * B
      BY HighDecides, <1>3, CellNat
    <3>2. h * B + m \in Nat /\ u * B \in Nat
      BY <1>3, TimesNat
    <3>3. h * B + m < u * B <=> (h * B + m) * B + l < u * B * B
      BY <3>2, HighDecides, <1>3
    <3>4. (h * B + m) * B + l = n /\ u * B * B = (B * B) * u
      BY <1>2, <1>3
    <3> QED BY <3>1, <3>3, <3>4
  <2>4. n \div u < B * B <=> n < (B * B) * u
    <3>1. PICK bb \in Nat : bb = B * B
      BY <1>3, TimesNat
    <3>2. n \div u < bb <=> n < bb * u
      BY DivLess, <2>1
    <3> QED BY <3>1, <3>2
  <2>5. h \div u = 0 <=> n \div u < B * B
    BY <2>2, <2>3, <2>4
  <2>6. CASE h \div u # 0
    <3>1. UTMSlash(s) = Fails(s, "divide overflow")
      BY <1>1, <1>6, <2>6 DEF UTMSlash
    <3>2. UTMSlash(s).e # "none" /\ UTMSlash(s).s = s
      <4>1. PICK name : name = "divide overflow"
        OBVIOUS
      <4>2. name # "none"
        BY <4>1
      <4>3. UTMSlash(s) = Fails(s, name)
        BY <3>1, <4>1
      <4> QED BY ONLY <4>2, <4>3 DEF Fails
    <3> QED BY <3>2, <1>1, <1>4, <2>5, <2>6
  <2>7. CASE h \div u = 0
    <3>1. h < u /\ h % u = h
      <4>1. h < u
        BY <2>2, <2>7
      <4>2. h = u * 0 + h
        BY <2>1, <1>3
      <4> QED BY <4>1, <4>2, DivUnique, <2>1, <1>3
    <3>2. PICK d : d = LongDivide(h, m, l, u)
      OBVIOUS
    <3>3. d.hi \in Cells /\ d.lo \in Cells /\ n \div u = d.hi * B + d.lo
      BY <3>1, <3>2, <2>1, <1>2, <1>3, LongDivideSum
    <3>4. UTMSlash(s) = Leaves(<<d.hi, d.lo>> \o Drop(s, 4))
      BY <1>1, <1>6, <2>7, <3>1, <3>2 DEF UTMSlash
    <3>5. UTMSlash(s).e = "none" /\ UTMSlash(s).s = <<d.hi, d.lo>> \o Drop(s, 4)
      BY <3>4 DEF Leaves
    <3>6. UTMSlash(s).s[1] = d.hi /\ UTMSlash(s).s[2] = d.lo
      BY <3>3, <3>5, Under, OnTop
    <3>7. Unsigned2(UTMSlash(s).s[1], UTMSlash(s).s[2]) = n \div s[1]
      BY <3>3, <3>6, <1>1 DEF Unsigned2
    <3> QED BY <1>1, <1>4, <1>6, <2>5, <2>7, <3>3, <3>5, <3>6, <3>7
  <2> QED BY <2>6, <2>7
<1> QED BY <1>5, <1>6

(* UTS/MOD divides three cells by one. *)
LEMMA UTSSlashModExact ==
  ASSUME NEW s \in Stacks
  PROVE  LET r == UTSSlashMod(s)
             n == Unsigned3(s[2], s[3], s[4])
         IN  /\ r.e = "none" <=> s[1] # 0
             /\ r.e = "none" =>
                  /\ r.s[1] \in Cells /\ r.s[2] \in Cells /\ r.s[3] \in Cells /\ r.s[4] \in Cells
                  /\ s[1] * Unsigned3(r.s[1], r.s[2], r.s[3]) + r.s[4] = n
                  /\ r.s[4] < s[1]
                  /\ \E a, b, c, d \in Cells : r.s = <<a, b, c, d>> \o Drop(s, 4)
<1>1. PICK u \in Cells, h \in Cells, m \in Cells, l \in Cells :
        u = s[1] /\ h = s[2] /\ m = s[3] /\ l = s[4]
  BY FourCells
<1>3. B \in Nat \ {0} /\ u \in Nat /\ h \in Nat /\ m \in Nat /\ l \in Nat /\ l < B /\ u < B /\ h < B
  BY CellNat, Width
<1>5. CASE u = 0
  BY <1>1, <1>5 DEF UTSSlashMod, Fails
<1>6. CASE u # 0
  <2>1. u \in Nat \ {0}
    BY <1>3, <1>6
  <2>2. PICK q3 \in Nat, r3 \in Nat : q3 = h \div u /\ r3 = h % u /\ h = u * q3 + r3 /\ r3 < u
    BY <1>3, <2>1, Divided
  <2>3. q3 \in Cells
    <3>1. q3 < B <=> h < B * u
      BY <2>1, <2>2, <1>3, DivLess
    <3>2. h < B * u
      BY <2>1, <1>3
    <3> QED BY <3>1, <3>2, <2>2, Width DEF Cells
  <2>4. PICK d : d = LongDivide(r3, m, l, u)
    OBVIOUS
  <2>5. PICK q : q = (r3 * B * B + m * B + l) \div u
    OBVIOUS
  <2>6. /\ d.hi \in Cells /\ d.lo \in Cells /\ d.r \in Nat /\ d.r < u
        /\ q = d.hi * B + d.lo
        /\ u * q + d.r = r3 * B * B + m * B + l
    <3>1. r3 < u /\ u < B
      BY <2>2, <1>3
    <3>2. LET d1 == LongDivide(r3, m, l, u)
              q1 == (r3 * B * B + m * B + l) \div u
          IN  /\ d1.hi \in Cells /\ d1.lo \in Cells /\ d1.r \in Nat /\ d1.r < u
              /\ q1 = d1.hi * B + d1.lo
              /\ u * q1 + d1.r = r3 * B * B + m * B + l
      BY ONLY <3>1, r3 \in Nat, <2>1, m \in Cells, l \in Cells, LongDivideSum
    <3> QED BY ONLY <3>2, <2>4, <2>5
  <2>7. UTSSlashMod(s) = Leaves(<<q3, d.hi, d.lo, d.r>> \o Drop(s, 4))
    BY <1>1, <1>6, <2>2, <2>4 DEF UTSSlashMod
  <2>8. UTSSlashMod(s).e = "none" /\ UTSSlashMod(s).s = <<q3, d.hi, d.lo, d.r>> \o Drop(s, 4)
    BY <2>7 DEF Leaves
  <2>9. d.r \in Cells
    BY <2>6, <1>3, Width DEF Cells
  <2>10. /\ UTSSlashMod(s).s[1] = q3 /\ UTSSlashMod(s).s[2] = d.hi
         /\ UTSSlashMod(s).s[3] = d.lo /\ UTSSlashMod(s).s[4] = d.r
    BY <2>3, <2>6, <2>8, <2>9, Under, OnTop
  <2>11. u * Unsigned3(q3, d.hi, d.lo) + d.r = Unsigned3(h, m, l)
    <3>1. PICK hi \in Nat, lo \in Nat : hi = d.hi /\ lo = d.lo
      BY <2>6, CellNat
    <3>2. Unsigned3(q3, d.hi, d.lo) = q3 * B * B + q
      <4>1. (q3 * B + hi) * B + lo = q3 * B * B + hi * B + lo
        BY <1>3
      <4> QED BY <4>1, <3>1, <2>6, <1>3 DEF Unsigned3, Unsigned2
    <3>3. Unsigned3(h, m, l) = (u * q3 + r3) * B * B + m * B + l
      <4>1. (h * B + m) * B + l = h * B * B + m * B + l
        BY <1>3
      <4> QED BY <4>1, <2>2 DEF Unsigned3, Unsigned2
    <3>4. (u * q3 + r3) * B * B = u * (q3 * B * B) + r3 * B * B
      BY <1>3
    <3>5. PICK p \in Nat : p = q3 * B * B
      BY <1>3, TimesNat
    <3>6. q \in Nat
      BY <2>6, <3>1, <1>3, TimesNat
    <3>7. u * (p + q) = u * p + u * q
      BY <3>6, <1>3
    <3>8. PICK x \in Nat, y \in Nat, z \in Nat, w \in Nat :
            x = u * p /\ y = u * q /\ z = r3 * B * B /\ w = m * B
      BY <3>6, <1>3, TimesNat
    <3>9. y + d.r = z + w + l
      BY <2>6, <3>8
    <3>10. Unsigned3(h, m, l) = x + z + w + l
      BY <3>3, <3>4, <3>5, <3>8
    <3>11. u * Unsigned3(q3, d.hi, d.lo) = x + y
      BY <3>2, <3>5, <3>7, <3>8
    <3> QED BY ONLY <3>9, <3>10, <3>11, x \in Nat, y \in Nat, z \in Nat, w \in Nat,
            <1>3, <2>6
  <2> QED BY <1>1, <1>6, <2>3, <2>6, <2>8, <2>9, <2>10, <2>11, ZenonT(40)
<1> QED BY <1>5, <1>6

-----------------------------------------------------------------------------
(* Signed division *)

(* The quotient towards zero, and the remainder that has the sign of the   *)
(* dividend.                                                               *)
LEMMA QuotRem ==
  ASSUME NEW i \in Int, NEW n \in Int \ {0}
  PROVE  /\ Quot(i, n) \in Int /\ Rem(i, n) \in Int
         /\ i = n * Quot(i, n) + Rem(i, n)
         /\ Abs(Rem(i, n)) < Abs(n)
         /\ i >= 0 => Rem(i, n) >= 0
         /\ i <= 0 => Rem(i, n) <= 0
         /\ Abs(Quot(i, n)) = Abs(i) \div Abs(n)
<1>1. PICK a \in Nat, b \in Nat \ {0} : a = Abs(i) /\ b = Abs(n)
  BY DEF Abs
<1>2. PICK q \in Nat, r \in Nat : q = a \div b /\ r = a % b /\ a = b * q + r /\ r < b
  BY Divided
<1>7. r <= a
  BY <1>2, TimesNat
<1>3. CASE i < 0 /\ n < 0
  <2>1. a = -i /\ b = -n /\ Quot(i, n) = q
    BY <1>1, <1>2, <1>3 DEF Abs, Quot
  <2>2. n * q = -(b * q)
    BY <2>1
  <2>3. Rem(i, n) = -r
    BY <2>1, <2>2, <1>2 DEF Rem
  <2>4. i = n * q + (-r)
    BY <2>1, <2>2, <1>2
  <2>5. Abs(Quot(i, n)) = Abs(i) \div Abs(n) /\ Quot(i, n) \in Int
    <3>1. Abs(Quot(i, n)) = q /\ Quot(i, n) \in Int
      BY ONLY <2>1, q \in Nat DEF Abs
    <3> QED BY ONLY <3>1, <1>1, <1>2
  <2>6. Abs(Rem(i, n)) < Abs(n) /\ Rem(i, n) \in Int
    BY <2>3, <1>1, <1>2 DEF Abs
  <2>7. (i >= 0 => Rem(i, n) >= 0) /\ (i <= 0 => Rem(i, n) <= 0)
    BY ONLY <2>1, <2>3, <1>7, <1>3, r \in Nat, a \in Nat, i \in Int
  <2>8. i = n * Quot(i, n) + Rem(i, n)
    BY ONLY <2>4, <2>1, <2>3
  <2> QED BY ONLY <2>5, <2>6, <2>7, <2>8
<1>4. CASE i < 0 /\ n > 0
  <2>1. a = -i /\ b = n /\ Quot(i, n) = -q
    BY <1>1, <1>2, <1>4 DEF Abs, Quot
  <2>2. n * (-q) = -(b * q)
    BY <2>1
  <2>3. Rem(i, n) = -r
    BY <2>1, <2>2, <1>2 DEF Rem
  <2>4. i = n * (-q) + (-r)
    BY <2>1, <2>2, <1>2
  <2>5. Abs(Quot(i, n)) = Abs(i) \div Abs(n) /\ Quot(i, n) \in Int
    <3>1. Abs(Quot(i, n)) = q /\ Quot(i, n) \in Int
      BY ONLY <2>1, q \in Nat DEF Abs
    <3> QED BY ONLY <3>1, <1>1, <1>2
  <2>6. Abs(Rem(i, n)) < Abs(n) /\ Rem(i, n) \in Int
    BY <2>3, <1>1, <1>2 DEF Abs
  <2>7. (i >= 0 => Rem(i, n) >= 0) /\ (i <= 0 => Rem(i, n) <= 0)
    BY ONLY <2>1, <2>3, <1>7, <1>4, r \in Nat, a \in Nat, i \in Int
  <2>8. i = n * Quot(i, n) + Rem(i, n)
    BY ONLY <2>4, <2>1, <2>3
  <2> QED BY ONLY <2>5, <2>6, <2>7, <2>8
<1>5. CASE i >= 0 /\ n < 0
  <2>1. a = i /\ b = -n /\ Quot(i, n) = -q
    BY <1>1, <1>2, <1>5 DEF Abs, Quot
  <2>2. n * (-q) = b * q
    BY <2>1
  <2>3. Rem(i, n) = r
    BY <2>1, <2>2, <1>2 DEF Rem
  <2>4. i = n * (-q) + r
    BY <2>1, <2>2, <1>2
  <2>5. Abs(Quot(i, n)) = Abs(i) \div Abs(n) /\ Quot(i, n) \in Int
    <3>1. Abs(Quot(i, n)) = q /\ Quot(i, n) \in Int
      BY ONLY <2>1, q \in Nat DEF Abs
    <3> QED BY ONLY <3>1, <1>1, <1>2
  <2>6. Abs(Rem(i, n)) < Abs(n) /\ Rem(i, n) \in Int
    BY <2>3, <1>1, <1>2 DEF Abs
  <2>7. (i >= 0 => Rem(i, n) >= 0) /\ (i <= 0 => Rem(i, n) <= 0)
    BY ONLY <2>1, <2>3, <1>7, <1>5, r \in Nat, a \in Nat, i \in Int
  <2>8. i = n * Quot(i, n) + Rem(i, n)
    BY ONLY <2>4, <2>1, <2>3
  <2> QED BY ONLY <2>5, <2>6, <2>7, <2>8
<1>6. CASE i >= 0 /\ n > 0
  <2>1. a = i /\ b = n /\ Quot(i, n) = q
    BY <1>1, <1>2, <1>6 DEF Abs, Quot
  <2>2. n * q = b * q
    BY <2>1
  <2>3. Rem(i, n) = r
    BY <2>1, <2>2, <1>2 DEF Rem
  <2>4. i = n * q + r
    BY <2>1, <2>2, <1>2
  <2>5. Abs(Quot(i, n)) = Abs(i) \div Abs(n) /\ Quot(i, n) \in Int
    <3>1. Abs(Quot(i, n)) = q /\ Quot(i, n) \in Int
      BY ONLY <2>1, q \in Nat DEF Abs
    <3> QED BY ONLY <3>1, <1>1, <1>2
  <2>6. Abs(Rem(i, n)) < Abs(n) /\ Rem(i, n) \in Int
    BY <2>3, <1>1, <1>2 DEF Abs
  <2>7. (i >= 0 => Rem(i, n) >= 0) /\ (i <= 0 => Rem(i, n) <= 0)
    BY ONLY <2>1, <2>3, <1>7, <1>6, r \in Nat, a \in Nat, i \in Int
  <2>8. i = n * Quot(i, n) + Rem(i, n)
    BY ONLY <2>4, <2>1, <2>3
  <2> QED BY ONLY <2>5, <2>6, <2>7, <2>8
<1> QED BY <1>3, <1>4, <1>5, <1>6

(* The low cell of a sum. *)
LEMMA CellSum ==
  ASSUME NEW i \in Int, NEW j \in Int
  PROVE  Cell(Cell(i) + j) = Cell(i + j)
<1>0. B \in Nat \ {0}
  BY Width
<1>1. PICK q \in Int, r \in Int : r = i % B /\ i = B * q + r
  BY <1>0, DivMod
<1>2. PICK p \in Int, k \in Int : k = (r + j) % B /\ r + j = B * p + k /\ 0 <= k /\ k < B
  BY <1>0, DivMod
<1>3. i + j = B * (q + p) + k
  BY <1>0, <1>1, <1>2
<1>4. (i + j) % B = k
  <2>1. PICK x \in Int, y \in Int : x = i + j /\ y = q + p
    OBVIOUS
  <2>2. x = B * y + k
    BY <2>1, <1>3
  <2> QED BY <2>1, <2>2, <1>0, <1>2, DivUnique, ZenonT(40)
<1> QED BY <1>1, <1>2, <1>4 DEF Cell

(* The remainder of a division by a cell fits in one. *)
LEMMA RemFits ==
  ASSUME NEW i \in Int, NEW c \in Cells, Signed(c) # 0
  PROVE  InCell(Rem(i, Signed(c)))
<1>1. Signed(c) \in Int \ {0} /\ -Half <= Signed(c) /\ Signed(c) < Half
  BY SignedValue
<1>2. Rem(i, Signed(c)) \in Int /\ Abs(Rem(i, Signed(c))) < Abs(Signed(c))
  BY <1>1, QuotRem
<1> QED BY <1>1, <1>2, Width DEF InCell, Abs

(* A cell is zero when its signed value is. *)
LEMMA SignedZero == \A c \in Cells : Signed(c) = 0 <=> c = 0
  BY Width DEF Signed, Cells

(* idivl, where it does not trap. *)
LEMMA IdivlExact ==
  ASSUME NEW i \in Int, NEW c \in Cells, ~Traps(i, Signed(c))
  PROVE  LET n == Signed(c)
             d == Idivl(i, n)
         IN  /\ d.q \in Cells /\ d.r \in Cells /\ n # 0
             /\ Signed(d.q) = Quot(i, n) /\ Signed(d.r) = Rem(i, n)
<1> DEFINE n == Signed(c)
<1>1. n \in Int \ {0} /\ InCell(Quot(i, n))
  BY SignedValue DEF Traps
<1>2. Quot(i, n) \in Int /\ Rem(i, n) \in Int
  BY <1>1, QuotRem
<1>3. InCell(Rem(i, n))
  BY <1>1, RemFits
<1> HIDE DEF n
<1>4. Cell(Quot(i, n)) \in Cells /\ Signed(Cell(Quot(i, n))) = Quot(i, n)
  BY <1>1, <1>2, SignedCell
<1>5. Cell(Rem(i, n)) \in Cells /\ Signed(Cell(Rem(i, n))) = Rem(i, n)
  BY <1>3, <1>2, SignedCell
<1> QED BY <1>1, <1>4, <1>5 DEF Idivl, n

(* / rounds towards zero. *)
LEMMA SlashExact ==
  ASSUME NEW s \in Stacks
  PROVE  LET r == Slash(s)
             n == Signed(s[1])
             i == Signed(s[2])
         IN  /\ r.e = "none" <=> n # 0 /\ InCell(Quot(i, n))
             /\ r.e = "none" => Signed(r.s[1]) = Quot(i, n)
<1>1. PICK c \in Cells, d \in Cells : c = s[1] /\ d = s[2]
  BY FourCells
<1>2. PICK n \in Int, i \in Int : n = Signed(c) /\ i = Signed(d)
  BY SignedValue
<1>3. CASE n = 0
  BY <1>1, <1>2, <1>3 DEF Slash, Fails
<1>4. CASE n # 0 /\ Traps(i, n)
  <2>1. Slash(s) = Trap
    BY <1>1, <1>2, <1>4 DEF Slash
  <2>2. Slash(s).e = "trap"
    BY <2>1 DEF Trap, Fails
  <2>3. "trap" # "none"
    OBVIOUS
  <2> QED BY <2>2, <2>3, <1>1, <1>2, <1>4 DEF Traps
<1>5. CASE n # 0 /\ ~Traps(i, n)
  <2>1. Slash(s) = Leaves(<<Idivl(i, n).q>> \o Drop(s, 2))
    BY <1>1, <1>2, <1>5 DEF Slash
  <2>2. Slash(s).e = "none" /\ Slash(s).s = <<Idivl(i, n).q>> \o Drop(s, 2)
    BY <2>1 DEF Leaves
  <2>3. Idivl(i, n).q \in Cells /\ Signed(Idivl(i, n).q) = Quot(i, n)
    BY <1>2, <1>5, IdivlExact
  <2>4. Slash(s).s[1] = Idivl(i, n).q
    BY <2>2, <2>3, Under, OnTop
  <2> QED BY <2>2, <2>3, <2>4, <1>1, <1>2, <1>5 DEF Traps
<1> QED BY <1>3, <1>4, <1>5

(* */ traps when the quotient does not fit. *)
LEMMA StarSlashExact ==
  ASSUME NEW s \in Stacks
  PROVE  LET n == Signed(s[1])
             i == Signed(s[2]) * Signed(s[3])
         IN  StarSlash(s).e = "none" <=> n # 0 /\ InCell(Quot(i, n))
<1>1. PICK n \in Int, i \in Int : n = Signed(s[1]) /\ i = Signed(s[2]) * Signed(s[3])
  BY FourCells, SignedValue
<1>2. CASE Traps(i, n)
  <2>1. StarSlash(s) = Trap
    BY <1>1, <1>2 DEF StarSlash
  <2>2. StarSlash(s).e = "trap"
    BY <2>1 DEF Trap, Fails
  <2>3. "trap" # "none"
    OBVIOUS
  <2> QED BY <2>2, <2>3, <1>1, <1>2 DEF Traps
<1>3. CASE ~Traps(i, n)
  <2>1. StarSlash(s) = Leaves(<<Idivl(i, n).q>> \o Drop(s, 3))
    BY <1>1, <1>3 DEF StarSlash
  <2>2. StarSlash(s).e = "none"
    BY <2>1 DEF Leaves
  <2> QED BY <2>2, <1>1, <1>3 DEF Traps
<1> QED BY <1>2, <1>3

(* The signed value of two cells. *)
LEMMA Signed2Int ==
  ASSUME NEW h \in Cells, NEW l \in Cells
  PROVE  Signed2(h, l) \in Int
<1>1. Signed(h) \in Int /\ l \in Int /\ B \in Int
  BY SignedValue, CellNat, Width
<1> QED BY <1>1 DEF Signed2, Unsigned2

(* SM/REM rounds towards zero and leaves the remainder too. *)
LEMMA SMSlashRemExact ==
  ASSUME NEW s \in Stacks
  PROVE  LET r == SMSlashRem(s)
             n == Signed(s[1])
             i == Signed2(s[2], s[3])
         IN  /\ r.e = "none" <=> n # 0 /\ InCell(Quot(i, n))
             /\ r.e = "none" =>
                  Signed(r.s[1]) * n + Signed(r.s[2]) = i /\ Signed(r.s[2]) = Rem(i, n)
<1>1. PICK n \in Int, i \in Int : n = Signed(s[1]) /\ i = Signed2(s[2], s[3])
  BY FourCells, SignedValue, Signed2Int
<1>3. CASE n = 0
  BY <1>1, <1>3 DEF SMSlashRem, Fails
<1>4. CASE n # 0 /\ Traps(i, n)
  <2>1. SMSlashRem(s) = Trap
    BY <1>1, <1>4 DEF SMSlashRem
  <2>2. SMSlashRem(s).e = "trap"
    BY <2>1 DEF Trap, Fails
  <2>3. "trap" # "none"
    OBVIOUS
  <2> QED BY <2>2, <2>3, <1>1, <1>4 DEF Traps
<1>5. CASE n # 0 /\ ~Traps(i, n)
  <2>0. PICK q \in Cells, m \in Cells : q = Idivl(i, n).q /\ m = Idivl(i, n).r
    BY <1>1, <1>5, FourCells, IdivlExact
  <2>1. SMSlashRem(s) = Leaves(<<q, m>> \o Drop(s, 3))
    BY <1>1, <1>5, <2>0 DEF SMSlashRem
  <2>2. SMSlashRem(s).e = "none" /\ SMSlashRem(s).s = <<q, m>> \o Drop(s, 3)
    BY <2>1 DEF Leaves
  <2>3. Signed(q) = Quot(i, n) /\ Signed(m) = Rem(i, n)
    BY <1>1, <1>5, <2>0, FourCells, IdivlExact
  <2>4. SMSlashRem(s).s[1] = q /\ SMSlashRem(s).s[2] = m
    BY <2>2, Under, OnTop
  <2>5. Quot(i, n) * n + Rem(i, n) = i
    BY <1>5, QuotRem
  <2> QED BY <2>2, <2>3, <2>4, <2>5, <1>1, <1>5 DEF Traps
<1> QED BY <1>3, <1>4, <1>5

(* The quotient and the remainder that FM/MOD leaves. *)
LEMMA FloorExact ==
  ASSUME NEW i \in Int, NEW c \in Cells, ~Traps(i, Signed(c))
  PROVE  LET n == Signed(c)
             f == Floor(Idivl(i, n), n)
             q == Signed(f[1])
             r == Signed(f[2])
         IN  /\ f[1] \in Cells /\ f[2] \in Cells /\ f = <<f[1], f[2]>>
             /\ Abs(r) < Abs(n) /\ (r # 0 => (r < 0) = (n < 0))
             /\ q * n + r = i \/ ((q - B) * n + r = i /\ ~InCell(q - B))
<1>1. PICK n \in Int \ {0} : n = Signed(c) /\ -Half <= n /\ n < Half
  BY SignedValue DEF Traps
<1>2. PICK q \in Int, r \in Int : q = Quot(i, n) /\ r = Rem(i, n)
  BY QuotRem
<1>3. PICK d : d = Idivl(i, n)
  OBVIOUS
<1>4. d.q = Cell(q) /\ d.r = Cell(r)
  BY <1>2, <1>3 DEF Idivl
<1>5. d.q \in Cells /\ d.r \in Cells /\ Signed(d.q) = q /\ Signed(d.r) = r
  BY <1>1, <1>2, <1>3, IdivlExact
<1>6. i = n * q + r /\ Abs(r) < Abs(n)
  BY <1>2, QuotRem
<1>7. CASE (n > 0 /\ r < 0) \/ (n < 0 /\ r > 0)
  <2>1. Floor(d, n) = <<Cell(d.q - 1), Cell(d.r + n)>>
    BY <1>5, <1>7 DEF Floor
  <2>2. Cell(d.r + n) = Cell(r + n) /\ Cell(d.q - 1) = Cell(q - 1)
    <3>1. Cell(Cell(q) + (-1)) = Cell(q + (-1))
      BY CellSum
    <3>2. Cell(Cell(r) + n) = Cell(r + n)
      BY CellSum
    <3>3. d.q - 1 = Cell(q) + (-1) /\ q - 1 = q + (-1)
      BY <1>4, <1>5, CellNat
    <3> QED BY <3>1, <3>2, <3>3, <1>4
  <2>3. InCell(r + n) /\ Abs(r + n) < Abs(n) /\ (r + n # 0 => (r + n < 0) = (n < 0))
    BY <1>1, <1>6, <1>7, Width DEF InCell, Abs
  <2>4. Signed(Cell(r + n)) = r + n /\ Cell(r + n) \in Cells
    BY <2>3, SignedCell
  <2>5. Cell(q - 1) \in Cells
    BY CellNear
  <2>6. Signed(Cell(q - 1)) = q - 1 \/ (Signed(Cell(q - 1)) = q - 1 + B /\ ~InCell(q - 1))
    <3>1. CASE InCell(q - 1)
      BY <3>1, SignedCell
    <3>2. CASE ~InCell(q - 1)
      <4>1. InCell(q)
        BY <1>5, SignedValue
      <4>2. q = -Half
        BY <3>2, <4>1, Width DEF InCell
      <4>3. Cell(q - 1) = q - 1 + B
        BY <4>2, Width, CellNear
      <4> QED BY <4>2, <4>3, <3>2, Width DEF Signed
    <3> QED BY <3>1, <3>2
  <2>7. (q - 1) * n + (r + n) = i
    BY <1>6
  <2>8. PICK f : f = Floor(Idivl(i, n), n)
    OBVIOUS
  <2>9. f[1] = Cell(q - 1) /\ f[2] = Cell(r + n) /\ f = <<f[1], f[2]>>
    BY <2>1, <2>2, <2>8, <1>3
  <2>10. PICK p \in Int : p = Signed(f[1])
    BY <2>9, <2>5, SignedValue
  <2>11. p * n + (r + n) = i \/ ((p - B) * n + (r + n) = i /\ ~InCell(p - B))
    <3>1. p = q - 1 \/ (p - B = q - 1 /\ ~InCell(q - 1))
      BY <2>6, <2>9, <2>10, Width
    <3> QED BY <3>1, <2>7
  <2> QED BY <2>3, <2>4, <2>5, <2>8, <2>9, <2>10, <2>11, <1>1
<1>8. CASE ~((n > 0 /\ r < 0) \/ (n < 0 /\ r > 0))
  <2>1. Floor(d, n) = <<d.q, d.r>>
    BY <1>5, <1>8 DEF Floor
  <2>2. PICK f : f = Floor(Idivl(i, n), n)
    OBVIOUS
  <2>3. f[1] = d.q /\ f[2] = d.r /\ f = <<f[1], f[2]>>
    BY <2>1, <2>2, <1>3
  <2>4. q * n + r = i
    BY <1>6
  <2>5. r # 0 => (r < 0) = (n < 0)
    BY <1>8, <1>1
  <2> QED BY <2>2, <2>3, <2>4, <2>5, <1>1, <1>5, <1>6
<1> QED BY <1>7, <1>8

(* FM/MOD rounds to the floor, and wraps when that does not fit. *)
LEMMA FMSlashModExact ==
  ASSUME NEW s \in Stacks
  PROVE  LET x == FMSlashMod(s)
             n == Signed(s[1])
             i == Signed2(s[2], s[3])
             q == Signed(x.s[1])
             r == Signed(x.s[2])
         IN  /\ x.e = "none" <=> n # 0 /\ InCell(Quot(i, n))
             /\ x.e = "none" =>
                  /\ Abs(r) < Abs(n) /\ (r # 0 => (r < 0) = (n < 0))
                  /\ q * n + r = i \/ ((q - B) * n + r = i /\ ~InCell(q - B))
<1>1. PICK n \in Int, i \in Int : n = Signed(s[1]) /\ i = Signed2(s[2], s[3])
  BY FourCells, SignedValue, Signed2Int
<1>3. CASE n = 0
  BY <1>1, <1>3 DEF FMSlashMod, Fails
<1>4. CASE n # 0 /\ Traps(i, n)
  <2>1. FMSlashMod(s) = Trap
    BY <1>1, <1>4 DEF FMSlashMod
  <2>2. FMSlashMod(s).e = "trap"
    BY <2>1 DEF Trap, Fails
  <2>3. "trap" # "none"
    OBVIOUS
  <2> QED BY <2>2, <2>3, <1>1, <1>4 DEF Traps
<1>5. CASE n # 0 /\ ~Traps(i, n)
  <2>0. PICK f : f = Floor(Idivl(i, n), n)
    OBVIOUS
  <2>1. /\ f[1] \in Cells /\ f[2] \in Cells /\ f = <<f[1], f[2]>>
        /\ Abs(Signed(f[2])) < Abs(n) /\ (Signed(f[2]) # 0 => (Signed(f[2]) < 0) = (n < 0))
        /\ \/ Signed(f[1]) * n + Signed(f[2]) = i
           \/ (Signed(f[1]) - B) * n + Signed(f[2]) = i /\ ~InCell(Signed(f[1]) - B)
    BY <2>0, <1>1, <1>5, FloorExact, FourCells
  <2>2. FMSlashMod(s) = Leaves(f \o Drop(s, 3))
    BY <1>1, <1>5, <2>0 DEF FMSlashMod
  <2>3. PICK a \in Cells, b \in Cells : a = f[1] /\ b = f[2]
    BY <2>1
  <2>4. FMSlashMod(s).e = "none" /\ FMSlashMod(s).s = <<a, b>> \o Drop(s, 3)
    <3>1. f = <<a, b>>
      BY <2>1, <2>3
    <3>2. FMSlashMod(s) = Leaves(<<a, b>> \o Drop(s, 3))
      BY <2>2, <3>1
    <3> QED BY ONLY <3>2 DEF Leaves
  <2>5. FMSlashMod(s).s[1] = f[1] /\ FMSlashMod(s).s[2] = f[2]
    BY <2>3, <2>4, Under, OnTop
  <2> QED BY <2>1, <2>4, <2>5, <1>1, <1>5 DEF Traps
<1> QED BY <1>3, <1>4, <1>5

-----------------------------------------------------------------------------
(* Products *)

(* The two cells of a number that two cells hold. *)
LEMMA TwoCells ==
  ASSUME NEW i \in Nat, i < B * B
  PROVE  \E h, l \in Cells : Cells2(i) = <<h, l>> /\ i = h * B + l
<1>0. B \in Nat \ {0}
  BY Width
<1>1. PICK q \in Nat, r \in Nat : q = i \div B /\ r = i % B /\ i = B * q + r /\ r < B
  BY <1>0, Divided
<1>2. q < B
  BY <1>0, <1>1, DivLess
<1>3. Cell(q) = q /\ q \in Cells /\ r \in Cells /\ Cell(i) = r
  BY <1>0, <1>1, <1>2, CellNear DEF Cells, Cell
<1> QED BY <1>0, <1>1, <1>3 DEF Cells2

(* The product of two cells has two. *)
LEMMA TwoCellProduct ==
  ASSUME NEW u \in Cells, NEW v \in Cells
  PROVE  \E h, l \in Cells : Cells2(u * v) = <<h, l>> /\ u * v = h * B + l /\ h < B - 1
<1>0. B \in Nat \ {0} /\ u \in Nat /\ v \in Nat /\ u <= B - 1 /\ v <= B - 1 /\ B >= 4
  BY Width, CellNat
<1>1. u * v <= (B - 1) * (B - 1)
  <2>1. u * v <= (B - 1) * v
    BY <1>0
  <2>2. v * (B - 1) <= (B - 1) * (B - 1)
    BY <1>0
  <2> QED BY <2>1, <2>2, <1>0
<1>2. (B - 1) * (B - 1) < (B - 1) * B /\ (B - 1) * B < B * B
  BY <1>0
<1>3. u * v \in Nat /\ u * v < B * B
  BY <1>0, <1>1, <1>2
<1>4. PICK h, l \in Cells : Cells2(u * v) = <<h, l>> /\ u * v = h * B + l
  BY <1>3, TwoCells
<1>5. h \in Nat /\ l \in Nat /\ l < B /\ B - 1 \in Nat
  BY <1>4, <1>0, CellNat
<1>6. h < B - 1 <=> h * B + l < (B - 1) * B
  BY <1>5, HighDecides
<1> QED BY <1>1, <1>2, <1>3, <1>4, <1>6, <1>0

(* A cell by two cells is three cells, no carry lost. *)
LEMMA UDMTripleExact ==
  ASSUME NEW u \in Cells, NEW h \in Cells, NEW l \in Cells
  PROVE  LET t == UDMTriple(u, h, l)
         IN  /\ t[1] \in Cells /\ t[2] \in Cells /\ t[3] \in Cells /\ t = <<t[1], t[2], t[3]>>
             /\ Unsigned3(t[1], t[2], t[3]) = u * Unsigned2(h, l)
<1>0. B \in Nat \ {0} /\ u \in Nat /\ h \in Nat /\ l \in Nat
  BY Width, CellNat
<1>1. PICK a, b \in Cells : Cells2(u * h) = <<a, b>> /\ u * h = a * B + b /\ a < B - 1
  BY TwoCellProduct
<1>2. PICK c, d \in Cells : Cells2(u * l) = <<c, d>> /\ u * l = c * B + d /\ c < B - 1
  BY TwoCellProduct
<1>3. a \in Nat /\ b \in Nat /\ c \in Nat /\ d \in Nat /\ b < B /\ c < B /\ d < B
  BY <1>1, <1>2, CellNat
<1>4. PICK mid \in Nat : mid = c + b
  BY <1>3
<1>5. PICK q \in Nat, r \in Nat : q = mid \div B /\ r = mid % B /\ mid = B * q + r /\ r < B
  BY <1>0, Divided
<1>6. q < 2
  <2>1. mid < 2 * B
    BY ONLY <1>3, <1>4, <1>0
  <2> QED BY <2>1, <1>0, <1>5, DivLess, SMTT(20)
<1>7. Cell(a + q) = a + q /\ a + q \in Cells
  <2>1. 0 <= a + q /\ a + q < B
    BY <1>1, <1>3, <1>6, <1>0
  <2> QED BY <2>1, <1>3, CellNear
<1>8. Cell(mid) = r /\ r \in Cells
  BY <1>5, <1>0 DEF Cell, Cells
<1>9. PICK t : t = UDMTriple(u, h, l)
  OBVIOUS
<1>10. t = <<a + q, r, d>>
  BY <1>1, <1>2, <1>4, <1>5, <1>7, <1>8, <1>9 DEF UDMTriple
<1>11. Unsigned3(a + q, r, d) = u * Unsigned2(h, l)
  <2>1. u * Unsigned2(h, l) = u * h * B + u * l
    BY <1>0 DEF Unsigned2
  <2>2. u * h * B = (a * B + b) * B
    BY <1>1
  <2>3. PICK aa \in Nat, bb \in Nat, cc \in Nat :
          aa = a * B * B /\ bb = b * B /\ cc = c * B
    BY <1>0, <1>3, TimesNat
  <2>4. u * Unsigned2(h, l) = aa + bb + cc + d
    BY <2>1, <2>2, <2>3, <1>0, <1>2, <1>3
  <2>5. Unsigned3(a + q, r, d) = aa + (B * q + r) * B + d
    BY <2>3, <1>0, <1>3 DEF Unsigned3, Unsigned2
  <2>6. (B * q + r) * B = cc + bb
    BY <2>3, <1>0, <1>3, <1>4, <1>5
  <2> QED BY <2>3, <2>4, <2>5, <2>6, <1>3
<1> QED BY <1>2, <1>7, <1>8, <1>9, <1>10, <1>11

(* The cells of an integer: all but the highest are its digits. *)
LEMMA ThreeParts ==
  ASSUME NEW i \in Int
  PROVE  \E p \in Int, m \in Cells, l \in Cells :
            i = p * B * B + m * B + l /\ Cells3(i) = <<Cell(p), m, l>>
<1>0. B \in Nat \ {0} /\ B * B \in Nat \ {0}
  BY Width
<1>1. PICK q \in Int, l \in Nat : q = i \div B /\ l = i % B /\ i = B * q + l /\ l < B
  BY <1>0, DivMod
<1>2. PICK p \in Int, m \in Nat : p = q \div B /\ m = q % B /\ q = B * p + m /\ m < B
  BY <1>0, DivMod
<1>3. m \in Cells /\ l \in Cells
  BY <1>0, <1>1, <1>2 DEF Cells
<1>4. PICK k \in Nat : k = m * B + l
  BY <1>0, TimesNat
<1>5. k < B * B
  BY <1>0, <1>1, <1>2, <1>4, HighDecides
<1>6. i = (B * B) * p + k
  <2>1. B * (B * p + m) = (B * B) * p + m * B
    BY <1>0
  <2>2. B * q = B * (B * p + m)
    BY <1>2
  <2> QED BY <2>1, <2>2, <1>0, <1>1, <1>4
<1>7. i \div (B * B) = p
  <2>1. PICK bb \in Nat \ {0} : bb = B * B
    BY <1>0
  <2>2. i = bb * p + k /\ k < bb
    BY <2>1, <1>5, <1>6
  <2>3. i \div bb = p
    BY <2>2, DivUnique
  <2> QED BY <2>1, <2>3
<1>8. Cells3(i) = <<Cell(p), m, l>>
  BY <1>1, <1>2, <1>7 DEF Cells3, Cell
<1>9. i = p * B * B + m * B + l
  BY <1>0, <1>4, <1>6
<1> QED BY <1>3, <1>8, <1>9

(* Two cells of an integer. *)
LEMMA TwoParts ==
  ASSUME NEW i \in Int
  PROVE  \E p \in Int, l \in Cells : i = p * B + l /\ Cells2(i) = <<Cell(p), l>>
<1>0. B \in Nat \ {0}
  BY Width
<1>1. PICK p \in Int, l \in Nat : p = i \div B /\ l = i % B /\ i = B * p + l /\ l < B
  BY <1>0, DivMod
<1>2. l \in Cells /\ i = p * B + l
  BY <1>0, <1>1 DEF Cells
<1>3. Cells2(i) = <<Cell(p), l>>
  BY <1>1 DEF Cells2, Cell
<1> QED BY <1>2, <1>3

(* An integer that fits in two cells is their signed value. *)
LEMMA Signed2Cells ==
  ASSUME NEW i \in Int, -(B * B) <= 2 * i, 2 * i < B * B
  PROVE  LET c == Cells2(i)
         IN  c[1] \in Cells /\ c[2] \in Cells /\ c = <<c[1], c[2]>> /\ Signed2(c[1], c[2]) = i
<1>0. B \in Nat \ {0} /\ Half \in Nat \ {0} /\ B = 2 * Half
  BY Width
<1>1. PICK p \in Int, l \in Cells : i = p * B + l /\ Cells2(i) = <<Cell(p), l>>
  BY TwoParts
<1>2. l \in Nat /\ l < B
  BY CellNat
<1>3. p < Half
  <2>1. SUFFICES ASSUME p >= Half PROVE FALSE
    BY <1>0
  <2>2. p * B >= Half * B
    BY <2>1, <1>0
  <2>3. 2 * (Half * B) = B * B
    BY <1>0
  <2>4. PICK x \in Int, y \in Int : x = p * B /\ y = Half * B
    BY <1>0
  <2> QED BY <2>2, <2>3, <2>4, <1>1, <1>2
<1>4. p >= -Half
  <2>1. SUFFICES ASSUME p + 1 <= -Half PROVE FALSE
    BY <1>0
  <2>2. (p + 1) * B <= (-Half) * B
    BY <2>1, <1>0
  <2>3. 2 * ((-Half) * B) = -(B * B) /\ (p + 1) * B = p * B + B
    BY <1>0
  <2>4. PICK x \in Int, y \in Int : x = p * B /\ y = (-Half) * B
    BY <1>0
  <2> QED BY <2>2, <2>3, <2>4, <1>0, <1>1, <1>2
<1>5. InCell(p)
  BY <1>0, <1>3, <1>4 DEF InCell
<1>6. Cell(p) \in Cells /\ Signed(Cell(p)) = p
  BY <1>5, SignedCell
<1> QED BY <1>1, <1>6 DEF Signed2, Unsigned2

(* An integer that fits in three cells is their signed value. *)
LEMMA Signed3Cells ==
  ASSUME NEW i \in Int, -(B * B * B) <= 2 * i, 2 * i < B * B * B
  PROVE  LET c == Cells3(i)
         IN  /\ c[1] \in Cells /\ c[2] \in Cells /\ c[3] \in Cells /\ c = <<c[1], c[2], c[3]>>
             /\ Signed3(c[1], c[2], c[3]) = i
<1>0. B \in Nat \ {0} /\ Half \in Nat \ {0} /\ B = 2 * Half
  BY Width
<1>1. PICK p \in Int, m \in Cells, l \in Cells :
        i = p * B * B + m * B + l /\ Cells3(i) = <<Cell(p), m, l>>
  BY ThreeParts
<1>2. PICK bb \in Nat \ {0} : bb = B * B
  BY <1>0
<1>3. PICK k \in Nat : k = m * B + l /\ k < bb
  <2>1. m \in Nat /\ l \in Nat /\ m < B /\ l < B
    BY CellNat
  <2>2. m * B \in Nat /\ m * B + l < B * B
    BY <2>1, <1>0, TimesNat, HighDecides
  <2> QED BY <2>1, <2>2, <1>2
<1>4. i = p * bb + k
  <2>1. p * B * B = p * (B * B)
    BY <1>0
  <2> QED BY <2>1, <1>0, <1>1, <1>2, <1>3, CellNat
<1>5. -(B * bb) <= 2 * i /\ 2 * i < B * bb
  BY <1>0, <1>2
<1>6. p < Half
  <2>1. SUFFICES ASSUME p >= Half PROVE FALSE
    BY <1>0
  <2>2. p * bb >= Half * bb
    BY <2>1, <1>0
  <2>3. 2 * (Half * bb) = B * bb
    BY <1>0
  <2>4. PICK x \in Int, y \in Int : x = p * bb /\ y = Half * bb
    BY <1>0
  <2> QED BY <2>2, <2>3, <2>4, <1>3, <1>4, <1>5
<1>7. p >= -Half
  <2>1. SUFFICES ASSUME p + 1 <= -Half PROVE FALSE
    BY <1>0
  <2>2. (p + 1) * bb <= (-Half) * bb
    BY <2>1, <1>0
  <2>3. 2 * ((-Half) * bb) = -(B * bb) /\ (p + 1) * bb = p * bb + bb
    BY <1>0
  <2>4. PICK x \in Int, y \in Int : x = p * bb /\ y = (-Half) * bb
    BY <1>0
  <2> QED BY <2>2, <2>3, <2>4, <1>3, <1>4, <1>5
<1>8. InCell(p)
  BY <1>0, <1>6, <1>7 DEF InCell
<1>9. Cell(p) \in Cells /\ Signed(Cell(p)) = p
  BY <1>8, SignedCell
<1>10. PICK c : c = Cells3(i)
  OBVIOUS
<1>11. Signed3(Cell(p), m, l) = i
  <2>1. (p * B + m) * B + l = p * B * B + m * B + l
    BY <1>0, CellNat
  <2> QED BY <2>1, <1>1, <1>9 DEF Signed3, Unsigned3, Unsigned2
<1> QED BY <1>1, <1>9, <1>10, <1>11

(* A factor that both sides have. *)
LEMMA TimesLess ==
  ASSUME NEW a \in Int, NEW b \in Int, NEW c \in Nat \ {0}, a * c < b * c
  PROVE  a < b
<1>1. SUFFICES ASSUME b <= a PROVE FALSE
  OBVIOUS
<1>2. b * c <= a * c
  BY <1>1
<1> QED BY <1>2

(* The two cells of a negative integer that fits in them. *)
LEMMA TwoCellsWrap ==
  ASSUME NEW i \in Int, -(B * B) <= i, i < 0
  PROVE  \E h, l \in Cells : Cells2(i) = <<h, l>> /\ h * B + l = i + B * B
<1>0. B \in Nat \ {0}
  BY Width
<1>1. PICK p \in Int, l \in Cells : i = p * B + l /\ Cells2(i) = <<Cell(p), l>>
  BY TwoParts
<1>2. l \in Nat /\ l < B
  BY CellNat
<1>3. p < 0
  <2>1. p * B < 0 * B
    BY <1>0, <1>1, <1>2
  <2> QED BY <2>1, <1>0, TimesLess
<1>4. -B <= p
  <2>1. (-(B + 1)) * B = -(B * B) - B
    BY <1>0
  <2>2. PICK x \in Int, y \in Int : x = p * B /\ y = B * B
    BY <1>0
  <2>3. (-(B + 1)) * B < p * B
    BY <2>1, <2>2, <1>0, <1>1, <1>2
  <2>4. -(B + 1) < p
    BY <2>3, <1>0, TimesLess
  <2> QED BY <2>4, <1>0
<1>5. Cell(p) = p + B /\ Cell(p) \in Cells
  BY <1>3, <1>4, CellNear
<1>6. (p + B) * B + l = i + B * B
  BY <1>0, <1>1, <1>2
<1> QED BY <1>1, <1>5, <1>6

(* The three cells of a negative integer that fits in them. *)
LEMMA ThreeCellsWrap ==
  ASSUME NEW i \in Int, -(B * B * B) <= i, i < 0
  PROVE  \E h, m, l \in Cells :
            Cells3(i) = <<h, m, l>> /\ h * B * B + m * B + l = i + B * B * B
<1>0. B \in Nat \ {0}
  BY Width
<1>1. PICK p \in Int, m \in Cells, l \in Cells :
        i = p * B * B + m * B + l /\ Cells3(i) = <<Cell(p), m, l>>
  BY ThreeParts
<1>2. PICK bb \in Nat \ {0} : bb = B * B
  BY <1>0
<1>3. PICK k \in Nat : k = m * B + l /\ k < bb
  <2>1. m \in Nat /\ l \in Nat /\ m < B /\ l < B
    BY CellNat
  <2>2. m * B \in Nat /\ m * B + l < B * B
    BY <2>1, <1>0, TimesNat, HighDecides
  <2> QED BY <2>1, <2>2, <1>2
<1>4. i = p * bb + k
  <2>1. p * B * B = p * (B * B)
    BY <1>0
  <2> QED BY <2>1, <1>0, <1>1, <1>2, <1>3, CellNat
<1>5. p < 0
  <2>1. p * bb < 0 * bb
    BY <1>3, <1>4
  <2> QED BY <2>1, TimesLess
<1>6. -B <= p
  <2>1. (-(B + 1)) * bb = -(B * bb) - bb
    BY <1>0
  <2>2. PICK x \in Int, y \in Int : x = p * bb /\ y = B * bb
    BY <1>0
  <2>3. B * B * B = y
    BY <1>0, <1>2, <2>2
  <2>4. (-(B + 1)) * bb < p * bb
    BY <2>1, <2>2, <2>3, <1>3, <1>4
  <2>5. -(B + 1) < p
    BY <2>4, <1>0, TimesLess
  <2> QED BY <2>5, <1>0
<1>7. Cell(p) = p + B /\ Cell(p) \in Cells
  BY <1>5, <1>6, CellNear
<1>8. (p + B) * B * B + m * B + l = i + B * B * B
  <2>1. (p + B) * B * B = p * B * B + B * B * B
    BY <1>0
  <2>2. PICK x \in Int, y \in Int, z \in Int : x = p * B * B /\ y = B * B * B /\ z = m * B
    BY <1>0, CellNat
  <2> QED BY <2>1, <2>2, <1>1, CellNat
<1> QED BY <1>1, <1>7, <1>8

(* The magnitude of a double. *)
LEMMA DAbsExact ==
  ASSUME NEW h \in Cells, NEW l \in Cells
  PROVE  LET d == DAbs(h, l)
             i == Signed2(h, l)
         IN  /\ d[1] \in Cells /\ d[2] \in Cells /\ d = <<d[1], d[2]>>
             /\ Unsigned2(d[1], d[2]) = Abs(i)
             /\ i \in Int /\ (i < 0 <=> Signed(h) < 0)
             /\ -(B * B) <= 2 * i /\ 2 * i < B * B
<1>0. B \in Nat \ {0} /\ Half \in Nat \ {0} /\ B = 2 * Half /\ h \in Nat /\ l \in Nat /\ h < B /\ l < B
  BY Width, CellNat
<1>1. PICK i \in Int, n \in Int : n = Signed(h) /\ i = n * B + l
  BY <1>0, SignedValue
<1>2. Signed2(h, l) = i
  BY <1>1 DEF Signed2, Unsigned2
<1>3. PICK x \in Int, y \in Int, z \in Int : x = n * B /\ y = Half * B /\ z = B * B
  BY <1>0
<1>4. z = 2 * y /\ y >= B
  BY <1>0, <1>3
<1>5. -y <= x
  <2>1. (-Half) * B <= n * B
    BY <1>0, <1>1, SignedValue, TimesMono
  <2>2. (-Half) * B = -(Half * B)
    BY <1>0
  <2> QED BY <2>1, <2>2, <1>3
<1>6. x <= y - B
  <2>1. n + 1 <= Half
    BY <1>0, <1>1, SignedValue
  <2>2. (n + 1) * B <= Half * B
    BY <2>1, <1>0, TimesMono
  <2>3. (n + 1) * B = n * B + B
    BY <1>0
  <2> QED BY <2>2, <2>3, <1>3, <1>0
<1>7. -(B * B) <= 2 * i /\ 2 * i < B * B
  BY <1>0, <1>1, <1>3, <1>4, <1>5, <1>6
<1>8. i < 0 <=> n < 0
  <2>1. n < 0 => x <= -B
    <3>1. SUFFICES ASSUME n <= -1 PROVE x <= -B
      BY <1>1
    <3>2. n * B <= (-1) * B
      BY <3>1, <1>0, TimesMono
    <3> QED BY <3>2, <1>3, <1>0
  <2>2. n >= 0 => x >= 0
    BY <1>0, <1>3
  <2> QED BY <2>1, <2>2, <1>0, <1>1, <1>3
<1>9. CASE n < 0
  <2>1. h = n + B
    BY <1>0, <1>1, <1>9, SignedValue
  <2>2. Unsigned2(h, l) = i + B * B
    <3>1. (n + B) * B = n * B + B * B
      BY <1>0
    <3> QED BY <3>1, <2>1, <1>0, <1>1, <1>3 DEF Unsigned2
  <2>3. PICK j \in Int : j = -(i + B * B)
    BY <1>0
  <2>4. -(B * B) <= j /\ j < 0
    BY <2>3, <1>3, <1>4, <1>5, <1>0, <1>1, <1>8, <1>9
  <2>5. PICK a \in Cells, b \in Cells : Cells2(j) = <<a, b>> /\ a * B + b = j + B * B
    BY <2>4, TwoCellsWrap
  <2>6. DAbs(h, l) = <<a, b>>
    BY <2>2, <2>3, <2>5, <1>1, <1>9 DEF DAbs, DNegate
  <2>7. Unsigned2(a, b) = -i
    BY <2>3, <2>5, <1>3 DEF Unsigned2
  <2>8. Abs(i) = -i
    BY <1>8, <1>9 DEF Abs
  <2> QED BY <2>6, <2>7, <2>8, <1>1, <1>2, <1>7, <1>8
<1>10. CASE n >= 0
  <2>1. h = n
    BY <1>0, <1>1, <1>10, SignedValue
  <2>2. Unsigned2(h, l) = i
    BY <2>1, <1>1 DEF Unsigned2
  <2>3. DAbs(h, l) = <<h, l>>
    BY <1>1, <1>10 DEF DAbs
  <2>4. Abs(i) = i
    BY <1>8, <1>10 DEF Abs
  <2> QED BY <2>2, <2>3, <2>4, <1>1, <1>2, <1>7, <1>8
<1> QED BY <1>9, <1>10

(* The magnitude of three cells. *)
LEMMA TAbsExact ==
  ASSUME NEW h \in Cells, NEW m \in Cells, NEW l \in Cells
  PROVE  LET t == TAbs(h, m, l)
             i == Signed3(h, m, l)
         IN  /\ t[1] \in Cells /\ t[2] \in Cells /\ t[3] \in Cells /\ t = <<t[1], t[2], t[3]>>
             /\ Unsigned3(t[1], t[2], t[3]) = Abs(i)
             /\ i \in Int /\ (i < 0 <=> Signed(h) < 0)
             /\ -(B * B * B) <= 2 * i /\ 2 * i < B * B * B
<1>0. B \in Nat \ {0} /\ Half \in Nat \ {0} /\ B = 2 * Half /\ h \in Nat /\ l \in Nat
       /\ m \in Nat /\ h < B /\ l < B /\ m < B
  BY Width, CellNat
<1>a. PICK bb \in Nat \ {0} : bb = B * B
  BY <1>0
<1>b. PICK k \in Nat : k = m * B + l /\ k < bb
  <2>1. m * B \in Nat /\ m * B + l < B * B
    BY <1>0, TimesNat, HighDecides
  <2> QED BY <2>1, <1>0, <1>a
<1>c. \A x \in Int : (x * B + m) * B + l = x * bb + k
  <2>1. \A x \in Int : (x * B + m) * B + l = x * (B * B) + (m * B + l)
    BY <1>0
  <2> QED BY <2>1, <1>a, <1>b
<1>1. PICK i \in Int, n \in Int : n = Signed(h) /\ i = n * bb + k
  BY <1>0, SignedValue
<1>2. Signed3(h, m, l) = i
  BY <1>1, <1>c DEF Signed3, Unsigned3, Unsigned2
<1>3. PICK x \in Int, y \in Int, z \in Int : x = n * bb /\ y = Half * bb /\ z = B * bb
  BY <1>0
<1>z. B * B * B = z
  BY <1>0, <1>3, <1>a
<1>4. z = 2 * y /\ y >= bb
  BY <1>0, <1>3
<1>5. -y <= x
  <2>1. (-Half) * bb <= n * bb
    BY <1>0, <1>1, SignedValue, TimesMono
  <2>2. (-Half) * bb = -(Half * bb)
    BY <1>0
  <2> QED BY <2>1, <2>2, <1>3
<1>6. x <= y - bb
  <2>1. n + 1 <= Half
    BY <1>0, <1>1, SignedValue
  <2>2. (n + 1) * bb <= Half * bb
    BY <2>1, <1>0, TimesMono
  <2>3. (n + 1) * bb = n * bb + bb
    BY <1>0
  <2> QED BY <2>2, <2>3, <1>3, <1>0
<1>7. -(B * B * B) <= 2 * i /\ 2 * i < B * B * B
  BY <1>b, <1>1, <1>3, <1>z, <1>4, <1>5, <1>6
<1>8. i < 0 <=> n < 0
  <2>1. n < 0 => x <= -bb
    <3>1. SUFFICES ASSUME n <= -1 PROVE x <= -bb
      BY <1>1
    <3>2. n * bb <= (-1) * bb
      BY <3>1, <1>0, TimesMono
    <3> QED BY <3>2, <1>3, <1>0
  <2>2. n >= 0 => x >= 0
    BY <1>0, <1>3
  <2> QED BY <2>1, <2>2, <1>b, <1>1, <1>3
<1>9. CASE n < 0
  <2>1. h = n + B
    BY <1>0, <1>1, <1>9, SignedValue
  <2>2. Unsigned3(h, m, l) = i + z
    <3>1. (n + B) * bb = n * bb + B * bb
      BY <1>0
    <3>2. Unsigned3(h, m, l) = (n + B) * bb + k
      BY <2>1, <1>c DEF Unsigned3, Unsigned2
    <3> QED BY <3>1, <3>2, <1>1, <1>3
  <2>3. PICK j \in Int : j = -(i + z)
    OBVIOUS
  <2>4. -(B * B * B) <= j /\ j < 0
    BY <2>3, <1>3, <1>z, <1>4, <1>5, <1>b, <1>1, <1>8, <1>9
  <2>5. PICK a \in Cells, b \in Cells, c \in Cells :
          Cells3(j) = <<a, b, c>> /\ a * B * B + b * B + c = j + B * B * B
    BY <2>4, ThreeCellsWrap
  <2>6. TAbs(h, m, l) = <<a, b, c>>
    <3>1. TNEG(<<h, m, l>>) = <<a, b, c>>
      BY <2>2, <2>3, <2>5 DEF TNEG
    <3> QED BY <3>1, <1>1, <1>9 DEF TAbs
  <2>7. Unsigned3(a, b, c) = -i
    <3>1. (a * B + b) * B + c = a * B * B + b * B + c
      BY <1>0, CellNat
    <3> QED BY <3>1, <2>3, <2>5, <1>z DEF Unsigned3, Unsigned2
  <2>8. Abs(i) = -i
    BY <1>8, <1>9 DEF Abs
  <2> QED BY <2>6, <2>7, <2>8, <1>1, <1>2, <1>7, <1>8
<1>10. CASE n >= 0
  <2>1. h = n
    BY <1>0, <1>1, <1>10, SignedValue
  <2>2. Unsigned3(h, m, l) = i
    BY <2>1, <1>1, <1>c DEF Unsigned3, Unsigned2
  <2>3. TAbs(h, m, l) = <<h, m, l>>
    BY <1>1, <1>10 DEF TAbs
  <2>4. Abs(i) = i
    BY <1>8, <1>10 DEF Abs
  <2> QED BY <2>2, <2>3, <2>4, <1>1, <1>2, <1>7, <1>8
<1> QED BY <1>9, <1>10

(* Small values of cells are their signed values too. *)
LEMMA Signed2Small ==
  ASSUME NEW h \in Cells, NEW l \in Cells, 2 * Unsigned2(h, l) < B * B
  PROVE  Signed2(h, l) = Unsigned2(h, l)
<1>0. B \in Nat \ {0} /\ Half \in Nat \ {0} /\ B = 2 * Half /\ h \in Nat /\ l \in Nat
  BY Width, CellNat
<1>1. h < Half
  <2>1. SUFFICES ASSUME Half <= h PROVE FALSE
    BY <1>0
  <2>2. Half * B <= h * B
    BY <2>1, <1>0, TimesMono
  <2>3. 2 * (Half * B) = B * B
    BY <1>0
  <2>4. PICK x \in Int, y \in Int, z \in Int : x = h * B /\ y = Half * B /\ z = B * B
    BY <1>0
  <2>5. 2 * (x + l) < z
    BY <2>4 DEF Unsigned2
  <2> QED BY ONLY <2>2, <2>3, <2>4, <2>5, <1>0
<1>2. Signed(h) = h
  BY <1>0, <1>1 DEF Signed
<1> QED BY <1>2 DEF Signed2

(* The same for three cells. *)
LEMMA Signed3Small ==
  ASSUME NEW h \in Cells, NEW m \in Cells, NEW l \in Cells, 2 * Unsigned3(h, m, l) < B * B * B
  PROVE  Signed3(h, m, l) = Unsigned3(h, m, l)
<1>0. B \in Nat \ {0} /\ Half \in Nat \ {0} /\ B = 2 * Half
       /\ h \in Nat /\ l \in Nat /\ m \in Nat
  BY Width, CellNat
<1>1. h < Half
  <2>1. SUFFICES ASSUME Half <= h PROVE FALSE
    BY <1>0
  <2>2. PICK bb \in Nat : bb = B * B
    BY <1>0
  <2>3. Half * bb <= h * bb
    BY <2>1, <2>2, <1>0, TimesMono
  <2>4. 2 * (Half * bb) = B * bb /\ B * B * B = B * bb
    BY <1>0, <2>2
  <2>5. (h * B + m) * B + l = h * (B * B) + (m * B + l)
    BY <1>0
  <2>6. PICK x \in Int, y \in Int, z \in Int, w \in Nat :
          x = h * bb /\ y = Half * bb /\ z = B * bb /\ w = m * B + l
    BY <1>0, <2>2, TimesNat
  <2>7. Unsigned3(h, m, l) = x + w
    BY <2>2, <2>5, <2>6 DEF Unsigned3, Unsigned2
  <2>8. 2 * (x + w) < z
    BY <2>4, <2>6, <2>7
  <2> QED BY ONLY <2>3, <2>4, <2>6, <2>8
<1>2. Signed(h) = h
  BY <1>0, <1>1 DEF Signed
<1> QED BY <1>2 DEF Signed3

(* The magnitude of a cell fits in one. *)
LEMMA SAbsExact ==
  ASSUME NEW c \in Cells
  PROVE  SAbs(c) \in Cells /\ SAbs(c) = Abs(Signed(c)) /\ SAbs(c) <= Half
<1>1. Abs(Signed(c)) \in Nat /\ Abs(Signed(c)) <= Half
  BY SignedValue, Width DEF Abs
<1>2. 0 <= Abs(Signed(c)) /\ Abs(Signed(c)) < B
  BY <1>1, Width
<1> QED BY <1>1, <1>2, CellNear DEF SAbs

(* UDM* is exact. *)
LEMMA UDMStarExact ==
  ASSUME NEW s \in Stacks
  PROVE  LET r == UDMStar(s)
         IN  Unsigned3(r.s[1], r.s[2], r.s[3]) = Unsigned2(s[2], s[3]) * s[1] /\ r.e = "none"
<1>1. PICK u \in Cells, h \in Cells, l \in Cells : u = s[1] /\ h = s[2] /\ l = s[3]
  BY FourCells
<1>2. PICK t : t = UDMTriple(u, h, l)
  OBVIOUS
<1>3. /\ t[1] \in Cells /\ t[2] \in Cells /\ t[3] \in Cells /\ t = <<t[1], t[2], t[3]>>
      /\ Unsigned3(t[1], t[2], t[3]) = u * Unsigned2(h, l)
  BY <1>2, UDMTripleExact
<1>4. PICK a \in Cells, b \in Cells, c \in Cells : a = t[1] /\ b = t[2] /\ c = t[3]
  BY <1>3
<1>5. UDMStar(s) = Leaves(<<a, b, c>> \o Drop(s, 3))
  BY <1>1, <1>2, <1>3, <1>4 DEF UDMStar
<1>6. UDMStar(s).s = <<a, b, c>> \o Drop(s, 3) /\ UDMStar(s).e = "none"
  BY <1>5 DEF Leaves
<1>7. UDMStar(s).s[1] = a /\ UDMStar(s).s[2] = b /\ UDMStar(s).s[3] = c
  BY <1>6, Under, OnTop
<1>8. u * Unsigned2(h, l) = Unsigned2(h, l) * u
  BY CellNat, Width DEF Unsigned2
<1> QED BY <1>1, <1>3, <1>4, <1>6, <1>7, <1>8

(* Negating three cells of a number that is not too great. *)
LEMMA TNEGExact ==
  ASSUME NEW a \in Cells, NEW b \in Cells, NEW c \in Cells,
         NEW p \in Nat, Unsigned3(a, b, c) = p, 2 * p <= B * B * B
  PROVE  LET t == TNEG(<<a, b, c>>)
         IN  /\ t[1] \in Cells /\ t[2] \in Cells /\ t[3] \in Cells /\ t = <<t[1], t[2], t[3]>>
             /\ Signed3(t[1], t[2], t[3]) = -p
<1>1. TNEG(<<a, b, c>>) = Cells3(-p)
  BY DEF TNEG
<1>2. -(B * B * B) <= 2 * (-p)
  <2>1. PICK z \in Int : z = B * B * B
    BY Width
  <2> QED BY <2>1
<1>3. 2 * (-p) < B * B * B
  <2>1. PICK z \in Nat \ {0} : z = B * B * B
    BY Width
  <2> QED BY <2>1
<1>4. -p \in Int
  OBVIOUS
<1> QED BY <1>1, <1>2, <1>3, <1>4, Signed3Cells

(* Negating two cells of a number that is not too great. *)
LEMMA DNegateExact ==
  ASSUME NEW a \in Cells, NEW b \in Cells,
         NEW p \in Nat, Unsigned2(a, b) = p, 2 * p <= B * B
  PROVE  LET t == DNegate(a, b)
         IN  /\ t[1] \in Cells /\ t[2] \in Cells /\ t = <<t[1], t[2]>>
             /\ Signed2(t[1], t[2]) = -p
<1>1. DNegate(a, b) = Cells2(-p)
  BY DEF DNegate
<1>2. -(B * B) <= 2 * (-p) /\ 2 * (-p) < B * B
  <2>1. PICK z \in Nat \ {0} : z = B * B
    BY Width
  <2> QED BY <2>1
<1>3. -p \in Int
  OBVIOUS
<1> QED BY <1>1, <1>2, <1>3, Signed2Cells

(* DS* is exact. *)
LEMMA DSStarExact ==
  ASSUME NEW s \in Stacks
  PROVE  LET r == DSStar(s)
         IN  Signed3(r.s[1], r.s[2], r.s[3]) = Signed2(s[2], s[3]) * Signed(s[1]) /\ r.e = "none"
<1>0. B \in Nat \ {0} /\ Half \in Nat \ {0} /\ B = 2 * Half
  BY Width
<1>1. PICK c \in Cells, h \in Cells, l \in Cells : c = s[1] /\ h = s[2] /\ l = s[3]
  BY FourCells
<1>2. PICK d : d = DAbs(h, l)
  OBVIOUS
<1>3. PICK n \in Int, i \in Int : n = Signed(c) /\ i = Signed2(h, l)
  BY SignedValue, Signed2Int
<1>4. /\ d[1] \in Cells /\ d[2] \in Cells
      /\ Unsigned2(d[1], d[2]) = Abs(i)
      /\ (i < 0 <=> Signed(h) < 0)
      /\ -(B * B) <= 2 * i /\ 2 * i < B * B
  BY <1>2, <1>3, DAbsExact
<1>5. SAbs(c) \in Cells /\ SAbs(c) = Abs(n) /\ SAbs(c) <= Half
  BY <1>3, SAbsExact
<1>6. PICK t : t = UDMTriple(SAbs(c), d[1], d[2])
  OBVIOUS
<1>7. /\ t[1] \in Cells /\ t[2] \in Cells /\ t[3] \in Cells /\ t = <<t[1], t[2], t[3]>>
      /\ Unsigned3(t[1], t[2], t[3]) = Abs(n) * Abs(i)
  <2>1. PICK a \in Cells, x \in Cells, y \in Cells : a = SAbs(c) /\ x = d[1] /\ y = d[2]
    BY <1>4, <1>5
  <2>2. t = UDMTriple(a, x, y)
    BY <2>1, <1>6
  <2>3. /\ t[1] \in Cells /\ t[2] \in Cells /\ t[3] \in Cells /\ t = <<t[1], t[2], t[3]>>
        /\ Unsigned3(t[1], t[2], t[3]) = a * Unsigned2(x, y)
    BY <2>2, UDMTripleExact
  <2> QED BY <2>1, <2>3, <1>4, <1>5
<1>8. PICK p \in Nat : p = Abs(n) * Abs(i)
  <2>1. Abs(n) \in Nat /\ Abs(i) \in Nat
    BY DEF Abs
  <2> QED BY <2>1, TimesNat
<1>9. 2 * p < B * B * B
  <2>1. PICK an \in Nat, ai \in Nat : an = Abs(n) /\ ai = Abs(i)
    BY DEF Abs
  <2>2. PICK bb \in Nat \ {0} : bb = B * B
    BY <1>0
  <2>3. 2 * ai <= bb
    BY <2>1, <2>2, <1>4 DEF Abs
  <2>4. an <= Half
    BY <2>1, <1>5
  <2>5. an * ai <= Half * ai
    BY <2>4, <1>0, TimesMono
  <2>6. (2 * ai) * Half <= bb * Half
    BY <2>3, <1>0, TimesMono
  <2>7. PICK x \in Nat : x = Half * ai
    BY <1>0, TimesNat
  <2>8. (2 * ai) * Half = 2 * x
    BY <2>7, <1>0
  <2>9. PICK y \in Nat \ {0} : y = bb * Half
    BY <1>0
  <2>10. B * B * B = 2 * y
    BY <2>2, <2>9, <1>0
  <2> QED BY <2>1, <2>5, <2>6, <2>7, <2>8, <2>9, <2>10, <1>8
<1>10. PICK w : w = IF SignsDiffer(c, h) THEN TNEG(t) ELSE t
  OBVIOUS
<1>11. /\ w[1] \in Cells /\ w[2] \in Cells /\ w[3] \in Cells /\ w = <<w[1], w[2], w[3]>>
       /\ Signed3(w[1], w[2], w[3]) = i * n
  <2>1. CASE SignsDiffer(c, h)
    <3>1. PICK x \in Cells, y \in Cells, z \in Cells : x = t[1] /\ y = t[2] /\ z = t[3]
      BY <1>7
    <3>2. t = <<x, y, z>> /\ Unsigned3(x, y, z) = p
      BY <3>1, <1>7, <1>8
    <3>3. 2 * p <= B * B * B
      BY <1>9, <1>0
    <3>4. w = TNEG(<<x, y, z>>)
      BY <3>2, <2>1, <1>10
    <3>5. /\ w[1] \in Cells /\ w[2] \in Cells /\ w[3] \in Cells /\ w = <<w[1], w[2], w[3]>>
          /\ Signed3(w[1], w[2], w[3]) = -p
      BY <3>2, <3>3, <3>4, TNEGExact
    <3>6. (n < 0) # (i < 0)
      BY <2>1, <1>3, <1>4 DEF SignsDiffer
    <3>7. i * n = -p
      <4>1. CASE n < 0 /\ i >= 0
        <5>1. Abs(n) = -n /\ Abs(i) = i
          BY <4>1 DEF Abs
        <5>2. (-n) * i = -(i * n)
          OBVIOUS
        <5> QED BY <5>1, <5>2, <1>8
      <4>2. CASE n >= 0 /\ i < 0
        <5>1. Abs(n) = n /\ Abs(i) = -i
          BY <4>2 DEF Abs
        <5>2. n * (-i) = -(i * n)
          OBVIOUS
        <5> QED BY <5>1, <5>2, <1>8
      <4> QED BY <3>6, <4>1, <4>2
    <3> QED BY <3>5, <3>7
  <2>2. CASE ~SignsDiffer(c, h)
    <3>1. w = t
      BY <2>2, <1>10
    <3>2. Signed3(t[1], t[2], t[3]) = p
      BY <1>7, <1>8, <1>9, Signed3Small
    <3>3. (n < 0) = (i < 0)
      BY <2>2, <1>3, <1>4 DEF SignsDiffer
    <3>4. i * n = p
      <4>1. CASE n < 0 /\ i < 0
        <5>1. Abs(n) = -n /\ Abs(i) = -i
          BY <4>1 DEF Abs
        <5>2. (-n) * (-i) = i * n
          OBVIOUS
        <5> QED BY <5>1, <5>2, <1>8
      <4>2. CASE n >= 0 /\ i >= 0
        <5>1. Abs(n) = n /\ Abs(i) = i
          BY <4>2 DEF Abs
        <5>2. n * i = i * n
          OBVIOUS
        <5> QED BY <5>1, <5>2, <1>8
      <4> QED BY <3>3, <4>1, <4>2
    <3> QED BY <3>1, <3>2, <3>4, <1>7
  <2> QED BY <2>1, <2>2
<1>12. PICK x \in Cells, y \in Cells, z \in Cells : x = w[1] /\ y = w[2] /\ z = w[3]
  BY <1>11
<1>13. DSStar(s) = Leaves(<<x, y, z>> \o Drop(s, 3))
  <2>1. DSStar(s) = Leaves(w \o Drop(s, 3))
    BY <1>1, <1>2, <1>6, <1>10 DEF DSStar
  <2> QED BY <2>1, <1>11, <1>12
<1>14. DSStar(s).s = <<x, y, z>> \o Drop(s, 3) /\ DSStar(s).e = "none"
  BY <1>13 DEF Leaves
<1>15. DSStar(s).s[1] = x /\ DSStar(s).s[2] = y /\ DSStar(s).s[3] = z
  BY <1>14, Under, OnTop
<1> QED BY <1>1, <1>3, <1>11, <1>12, <1>14, <1>15

(* A sequence by its length. *)
LEMMA FourSeq ==
  ASSUME NEW s \in Seq(Cells), Len(s) = 4
  PROVE  s = <<s[1], s[2], s[3], s[4]>>
  OBVIOUS

(* The same for three. *)
LEMMA ThreeSeq ==
  ASSUME NEW s \in Seq(Cells), Len(s) = 3
  PROVE  s = <<s[1], s[2], s[3]>>
  OBVIOUS

(* One cell, and three. *)
LEMMA OneJoinsThree ==
  ASSUME NEW a \in Cells, NEW b \in Cells, NEW c \in Cells, NEW d \in Cells,
         NEW s, s = <<a>> \o <<b, c, d>>
  PROVE  s = <<a, b, c, d>>
<1>1. <<a>> \in Seq(Cells) /\ <<b, c, d>> \in Seq(Cells)
  OBVIOUS
<1>2. s \in Seq(Cells)
  BY <1>1, ConcatProperties
<1>3. s[1] = a /\ s[2] = b /\ s[3] = c /\ s[4] = d /\ Len(s) = 4
  OBVIOUS
<1> QED BY <1>2, <1>3, FourSeq

(* Three cells, and one. *)
LEMMA ThreeJoinOne ==
  ASSUME NEW a \in Cells, NEW b \in Cells, NEW c \in Cells, NEW d \in Cells,
         NEW s, s = <<a, b, c>> \o <<d>>
  PROVE  s = <<a, b, c, d>>
<1>1. <<a, b, c>> \in Seq(Cells) /\ <<d>> \in Seq(Cells)
  OBVIOUS
<1>2. s \in Seq(Cells)
  BY <1>1, ConcatProperties
<1>3. s[1] = a /\ s[2] = b /\ s[3] = c /\ s[4] = d /\ Len(s) = 4
  OBVIOUS
<1> QED BY <1>2, <1>3, FourSeq

(* Four cells, and nothing. *)
LEMMA FourAlone ==
  ASSUME NEW a \in Cells, NEW b \in Cells, NEW c \in Cells, NEW d \in Cells,
         NEW s, s = <<a, b, c, d>> \o <<>>
  PROVE  s = <<a, b, c, d>>
<1>1. <<a, b, c, d>> \in Seq(Cells)
  OBVIOUS
<1> QED BY <1>1, ConcatEmptySeq

(* A stack of four cells. *)
LEMMA FourIsStack ==
  ASSUME NEW a \in Cells, NEW b \in Cells, NEW c \in Cells, NEW d \in Cells
  PROVE  <<a, b, c, d>> \in Stacks
  BY DEF Stacks

(* Nothing lies under four cells. *)
LEMMA DropAll == ASSUME NEW s \in Stacks PROVE Drop(s, 4) = <<>>
<1>1. s \in Seq(Cells)
  BY SeqDef DEF Stacks
<1>2. Len(s) = 4
  BY <1>1, LenProperties DEF Stacks
<1> QED BY <1>2, SubSeqEmpty DEF Drop

(* STS/REM has the quotient of a division towards zero. *)
LEMMA STSSlashRemExact ==
  ASSUME NEW s \in Stacks
  PROVE  LET r == STSSlashRem(s)
             n == Signed(s[1])
             i == Signed3(s[2], s[3], s[4])
         IN  r.e = "none" /\ 2 * Quot(i, n) < B * B * B =>
               Signed3(r.s[1], r.s[2], r.s[3]) = Quot(i, n)
<1>0. B \in Nat \ {0} /\ Half \in Nat \ {0} /\ B = 2 * Half
  BY Width
<1>1. PICK u \in Cells, h \in Cells, m \in Cells, l \in Cells :
        u = s[1] /\ h = s[2] /\ m = s[3] /\ l = s[4]
  BY FourCells
<1>2. PICK n \in Int : n = Signed(u)
  BY SignedValue
<1>3. PICK t : t = TAbs(h, m, l)
  OBVIOUS
<1>4. PICK i \in Int : i = Signed3(h, m, l)
  BY TAbsExact
<1>5. /\ t[1] \in Cells /\ t[2] \in Cells /\ t[3] \in Cells /\ t = <<t[1], t[2], t[3]>>
      /\ Unsigned3(t[1], t[2], t[3]) = Abs(i)
      /\ (i < 0 <=> Signed(h) < 0)
      /\ -(B * B * B) <= 2 * i /\ 2 * i < B * B * B
  BY <1>3, <1>4, TAbsExact
<1>6. CASE u = 0
  <2>1. STSSlashRem(s) = Fails(s, "divide by zero")
    BY <1>1, <1>6 DEF STSSlashRem
  <2>2. PICK name : name = "divide by zero"
    OBVIOUS
  <2>3. name # "none"
    BY <2>2
  <2>4. STSSlashRem(s) = Fails(s, name)
    BY <2>1, <2>2
  <2>5. STSSlashRem(s).e = name
    BY ONLY <2>4 DEF Fails
  <2> QED BY <2>3, <2>5
<1>7. CASE u # 0
  <2>1. n # 0
    BY <1>2, <1>7, SignedZero
  <2>2. PICK a \in Cells, x \in Cells, y \in Cells, z \in Cells :
          a = SAbs(u) /\ x = t[1] /\ y = t[2] /\ z = t[3]
    BY <1>5, SAbsExact
  <2>3. a = Abs(n) /\ a \in Nat \ {0}
    BY <2>1, <2>2, <1>2, SAbsExact DEF Abs
  <2>4. PICK w \in Stacks : w = <<a, x, y, z>>
    BY FourIsStack
  <2>5. w = <<SAbs(u)>> \o TAbs(h, m, l)
    <3>1. t = <<x, y, z>>
      BY <2>2, <1>5
    <3>2. PICK v : v = <<a>> \o <<x, y, z>>
      OBVIOUS
    <3>3. v = <<a, x, y, z>>
      BY <3>2, OneJoinsThree
    <3> QED BY <3>1, <3>2, <3>3, <2>2, <2>4, <1>3
  <2>6. PICK d : d = UTSSlashMod(w).s
    OBVIOUS
  <2>7. w[1] = a /\ w[2] = x /\ w[3] = y /\ w[4] = z
    BY <2>4
  <2>8. UTSSlashMod(w).e = "none"
    BY UTSSlashModExact, <2>7, <2>3
  <2>9. /\ w[1] * Unsigned3(d[1], d[2], d[3]) + d[4] = Unsigned3(w[2], w[3], w[4])
        /\ d[1] \in Cells /\ d[2] \in Cells /\ d[3] \in Cells /\ d[4] \in Cells
        /\ d[4] < w[1]
    BY <2>6, <2>8, UTSSlashModExact
  <2>10. \E c1, c2, c3, c4 \in Cells : d = <<c1, c2, c3, c4>> \o Drop(w, 4)
    BY <2>6, <2>8, UTSSlashModExact
  <2>11. PICK c1 \in Cells, c2 \in Cells, c3 \in Cells, c4 \in Cells : d = <<c1, c2, c3, c4>>
    <3>1. PICK c1 \in Cells, c2 \in Cells, c3 \in Cells, c4 \in Cells :
            d = <<c1, c2, c3, c4>> \o Drop(w, 4)
      BY <2>10
    <3>2. d = <<c1, c2, c3, c4>>
      <4>1. d = <<c1, c2, c3, c4>> \o <<>>
        BY <3>1, DropAll
      <4> QED BY ONLY <4>1, <3>1, FourAlone
    <3> QED BY <3>2
  <2>12. PICK q \in Nat : q = Unsigned3(c1, c2, c3)
    <3>1. (c1 * B + c2) * B + c3 \in Nat
      BY <1>0, CellNat, TimesNat
    <3> QED BY <3>1 DEF Unsigned3, Unsigned2
  <2>13. a * q + c4 = Abs(i) /\ c4 \in Nat /\ c4 < a
    BY <2>2, <2>7, <2>9, <2>11, <2>12, <1>5, CellNat
  <2>14. q = Abs(i) \div a
    <3>1. Abs(i) \in Int
      BY DEF Abs
    <3> QED BY <3>1, <2>13, <2>3, DivUnique
  <2>15. q <= Abs(i)
    <3>1. 1 * q <= a * q
      BY <2>3, TimesMono
    <3>2. PICK aq \in Nat : aq = a * q
      BY <2>3, TimesNat
    <3> QED BY <3>1, <3>2, <2>13
  <2>16. SubSeq(d, 1, 3) = <<c1, c2, c3>>
    <3>1. PICK v : v = SubSeq(d, 1, 3)
      OBVIOUS
    <3>2. v = SubSeq(<<c1, c2, c3, c4>>, 1, 3)
      BY <3>1, <2>11
    <3>3. v = <<c1, c2, c3>>
      <4>1. v \in Seq(Cells)
        BY ONLY <3>2, c1 \in Cells, c2 \in Cells, c3 \in Cells, c4 \in Cells
      <4>2. v[1] = c1 /\ v[2] = c2 /\ v[3] = c3 /\ Len(v) = 3
        BY ONLY <3>2, c1 \in Cells, c2 \in Cells, c3 \in Cells, c4 \in Cells
      <4> QED BY <4>1, <4>2, ThreeSeq
    <3> QED BY <3>1, <3>3
  <2>17. PICK e \in Cells : e = IF s[2] # 0 THEN Cell(-d[4]) ELSE d[4]
    BY <2>9, CellNear, CellNat
  <2>18. PICK v : v = IF SignsDiffer(u, h) THEN TNEG(<<c1, c2, c3>>) ELSE <<c1, c2, c3>>
    OBVIOUS
  <2>19. STSSlashRem(s) = Leaves(v \o <<e>> \o Drop(s, 4))
    BY <1>1, <1>7, <2>5, <2>6, <2>16, <2>17, <2>18 DEF STSSlashRem
  <2>20. 2 * q <= B * B * B
    <3>1. PICK b3 \in Int : b3 = B * B * B
      BY <1>0
    <3> QED BY <3>1, <2>15, <1>5 DEF Abs
  <2>21. /\ v[1] \in Cells /\ v[2] \in Cells /\ v[3] \in Cells /\ v = <<v[1], v[2], v[3]>>
         /\ 2 * Quot(i, n) < B * B * B => Signed3(v[1], v[2], v[3]) = Quot(i, n)
    <3>1. CASE SignsDiffer(u, h)
      <4>1. /\ v[1] \in Cells /\ v[2] \in Cells /\ v[3] \in Cells /\ v = <<v[1], v[2], v[3]>>
            /\ Signed3(v[1], v[2], v[3]) = -q
        BY <3>1, <2>12, <2>18, <2>20, TNEGExact
      <4>2. (n < 0) # (i < 0)
        BY <3>1, <1>2, <1>5 DEF SignsDiffer
      <4>3. Quot(i, n) = -q
        BY <4>2, <2>3, <2>14 DEF Quot
      <4> QED BY <4>1, <4>3
    <3>2. CASE ~SignsDiffer(u, h)
      <4>1. v = <<c1, c2, c3>>
        BY <3>2, <2>18
      <4>2. (n < 0) = (i < 0)
        BY <3>2, <1>2, <1>5 DEF SignsDiffer
      <4>3. Quot(i, n) = q
        BY <4>2, <2>3, <2>14 DEF Quot
      <4>4. 2 * q < B * B * B => Signed3(c1, c2, c3) = q
        BY <2>12, Signed3Small
      <4> QED BY <4>1, <4>3, <4>4
    <3> QED BY <3>1, <3>2
  <2>22. PICK v1 \in Cells, v2 \in Cells, v3 \in Cells : v1 = v[1] /\ v2 = v[2] /\ v3 = v[3]
    BY <2>21
  <2>23. STSSlashRem(s).s = <<v1, v2, v3, e>> \o Drop(s, 4)
    <3>1. v \o <<e>> = <<v1, v2, v3, e>>
      <4>1. v = <<v1, v2, v3>>
        BY <2>21, <2>22
      <4>2. PICK x1 : x1 = v \o <<e>>
        OBVIOUS
      <4>3. x1 = <<v1, v2, v3>> \o <<e>>
        BY <4>1, <4>2
      <4>4. x1 = <<v1, v2, v3, e>>
        BY <4>3, ThreeJoinOne
      <4> QED BY <4>2, <4>4
    <3>2. STSSlashRem(s).s = (v \o <<e>>) \o Drop(s, 4)
      BY <2>19 DEF Leaves
    <3> QED BY <3>1, <3>2
  <2>24. /\ STSSlashRem(s).s[1] = v1 /\ STSSlashRem(s).s[2] = v2 /\ STSSlashRem(s).s[3] = v3
    BY <2>23, Under, OnTop
  <2> QED BY <2>21, <2>22, <2>24, <1>1, <1>2, <1>4
<1> QED BY <1>6, <1>7

(* The magnitude of a product. *)
LEMMA AbsProduct ==
  ASSUME NEW i \in Int, NEW j \in Int
  PROVE  Abs(i * j) = Abs(j) * Abs(i) /\ Abs(i) \in Nat /\ i * j \in Int
<1>1. Abs(i) \in Nat /\ Abs(j) \in Nat /\ i * j \in Int
  BY DEF Abs
<1>2. CASE i < 0 /\ j < 0
  <2>1. PICK a \in Nat, b \in Nat : a = -i /\ b = -j
    BY <1>2
  <2>2. a * b \in Nat /\ i * j = a * b /\ a * b = b * a
    BY <2>1, TimesNat
  <2> QED BY <2>1, <2>2, <1>1, <1>2 DEF Abs
<1>3. CASE i < 0 /\ j >= 0
  <2>1. PICK a \in Nat : a = -i
    BY <1>3
  <2>2. a * j \in Nat /\ i * j = -(a * j) /\ a * j = j * a
    BY <2>1, <1>3, TimesNat
  <2> QED BY <2>1, <2>2, <1>1, <1>3 DEF Abs
<1>4. CASE i >= 0 /\ j < 0
  <2>1. PICK b \in Nat : b = -j
    BY <1>4
  <2>2. b * i \in Nat /\ i * j = -(b * i)
    BY <2>1, <1>4, TimesNat
  <2> QED BY <2>1, <2>2, <1>1, <1>4 DEF Abs
<1>5. CASE i >= 0 /\ j >= 0
  <2>1. i * j \in Nat /\ i * j = j * i
    BY <1>5, TimesNat
  <2> QED BY <2>1, <1>1, <1>5 DEF Abs
<1> QED BY <1>2, <1>3, <1>4, <1>5

(* The sign of a product. *)
LEMMA SignOfProduct ==
  ASSUME NEW i \in Int, NEW j \in Int
  PROVE  /\ (i < 0) = (j < 0) => i * j >= 0
         /\ (i < 0) # (j < 0) => i * j < 0 \/ i * j = 0
<1>1. CASE i < 0 /\ j < 0
  <2>1. PICK a \in Nat, b \in Nat : a = -i /\ b = -j
    BY <1>1
  <2>2. a * b \in Nat /\ i * j = a * b
    BY <2>1, TimesNat
  <2> QED BY <2>2, <1>1
<1>2. CASE i < 0 /\ j >= 0
  <2>1. PICK a \in Nat : a = -i
    BY <1>2
  <2>2. a * j \in Nat /\ i * j = -(a * j)
    BY <2>1, <1>2, TimesNat
  <2> QED BY <2>2, <1>2
<1>3. CASE i >= 0 /\ j < 0
  <2>1. PICK b \in Nat : b = -j
    BY <1>3
  <2>2. b * i \in Nat /\ i * j = -(b * i)
    BY <2>1, <1>3, TimesNat
  <2> QED BY <2>2, <1>3
<1>4. CASE i >= 0 /\ j >= 0
  BY <1>4, TimesNat
<1> QED BY <1>1, <1>2, <1>3, <1>4

(* A fraction of a fitting quotient fits: M*/ by a positive divisor. *)
LEMMA MStarSlashExact ==
  ASSUME NEW s \in Stacks
  PROVE  LET r == MStarSlash(s)
             n == Signed(s[1])
             p == Signed2(s[3], s[4]) * Signed(s[2])
         IN  n > 0 /\ 2 * Abs(Quot(p, n)) < B * B =>
               Signed2(r.s[1], r.s[2]) = Quot(p, n)
<1>0. B \in Nat \ {0} /\ Half \in Nat \ {0} /\ B = 2 * Half
  BY Width
<1>1. PICK u \in Cells, c \in Cells, h \in Cells, l \in Cells :
        u = s[1] /\ c = s[2] /\ h = s[3] /\ l = s[4]
  BY FourCells
<1>2. PICK n \in Int : n = Signed(u)
  BY SignedValue
<1>3. PICK f \in Int : f = Signed(c)
  BY SignedValue
<1>4. PICK i \in Int : i = Signed2(h, l)
  BY DAbsExact
<1>5. PICK p \in Int : p = i * f
  OBVIOUS
<1>6. SUFFICES ASSUME n > 0, 2 * Abs(Quot(p, n)) < B * B
               PROVE  Signed2(MStarSlash(s).s[1], MStarSlash(s).s[2]) = Quot(p, n)
  BY <1>1, <1>2, <1>3, <1>4, <1>5
<1>7. n = u /\ u # 0 /\ u \in Nat \ {0} /\ n \in Int \ {0} /\ Abs(n) = n
  BY <1>2, <1>6, SignedValue, CellNat DEF Abs
<1>8. PICK d : d = DAbs(h, l)
  OBVIOUS
<1>9. /\ d[1] \in Cells /\ d[2] \in Cells
      /\ Unsigned2(d[1], d[2]) = Abs(i) /\ (i < 0 <=> Signed(h) < 0)
  BY <1>4, <1>8, DAbsExact
<1>10. SAbs(c) \in Cells /\ SAbs(c) = Abs(f)
  BY <1>3, SAbsExact
<1>11. PICK t : t = UDMTriple(SAbs(c), d[1], d[2])
  OBVIOUS
<1>12. /\ t[1] \in Cells /\ t[2] \in Cells /\ t[3] \in Cells /\ t = <<t[1], t[2], t[3]>>
       /\ Unsigned3(t[1], t[2], t[3]) = SAbs(c) * Unsigned2(d[1], d[2])
  BY <1>9, <1>10, <1>11, UDMTripleExact
<1>13. Unsigned3(t[1], t[2], t[3]) = Abs(p)
  BY <1>5, <1>9, <1>10, <1>12, AbsProduct
<1>14. PICK x \in Cells, y \in Cells, z \in Cells : x = t[1] /\ y = t[2] /\ z = t[3]
  BY <1>12
<1>15. PICK w \in Stacks : w = <<u, x, y, z>>
  BY FourIsStack
<1>16. w = <<s[1]>> \o UDMTriple(SAbs(s[2]), DAbs(s[3], s[4])[1], DAbs(s[3], s[4])[2]) \o Drop(s, 4)
  <2>1. t = <<x, y, z>>
    BY <1>12, <1>14
  <2>2. PICK v : v = <<u>> \o <<x, y, z>>
    OBVIOUS
  <2>3. v = <<u, x, y, z>>
    BY <2>2, OneJoinsThree
  <2>4. PICK v1 : v1 = <<u, x, y, z>> \o <<>>
    OBVIOUS
  <2>5. v1 = <<u, x, y, z>>
    BY <2>4, FourAlone
  <2>6. <<u>> \o t \o Drop(s, 4) = w
    BY <2>1, <2>2, <2>3, <2>4, <2>5, <1>15, DropAll
  <2> QED BY <2>6, <1>1, <1>8, <1>11
<1>17. w[1] = u /\ w[2] = x /\ w[3] = y /\ w[4] = z
  BY <1>15
<1>18. PICK q \in Nat : q = Abs(p) \div u
  BY <1>5, <1>7, DivNat, AbsProduct
<1>19. Abs(Quot(p, n)) = q
  BY <1>7, <1>18, QuotRem
<1>20. PICK bb \in Nat : bb = B * B
  BY <1>0, TimesNat
<1>21. q < bb /\ 2 * q < bb
  BY <1>6, <1>19, <1>20
<1>22. PICK r : r = UTMSlash(w)
  OBVIOUS
<1>23. Unsigned3(w[2], w[3], w[4]) \div w[1] = q
  BY <1>13, <1>14, <1>17, <1>18
<1>24. r.e = "none"
  <2>1. r.e = "none" <=> w[1] # 0 /\ Unsigned3(w[2], w[3], w[4]) \div w[1] < B * B
    BY <1>22, UTMSlashExact
  <2> QED BY <2>1, <1>7, <1>17, <1>20, <1>21, <1>23
<1>25. /\ r.s[1] \in Cells /\ r.s[2] \in Cells
       /\ Unsigned2(r.s[1], r.s[2]) = q
  <2>1. /\ r.s[1] \in Cells /\ r.s[2] \in Cells
        /\ Unsigned2(r.s[1], r.s[2]) = Unsigned3(w[2], w[3], w[4]) \div w[1]
    BY <1>22, <1>24, UTMSlashExact
  <2> QED BY <2>1, <1>23
<1>26. MStarSlash(s) = Leaves(IF SignsDiffer(c, h)
                              THEN DNegate(r.s[1], r.s[2]) \o Drop(r.s, 2) ELSE r.s)
  BY <1>1, <1>16, <1>22 DEF MStarSlash
<1>27. CASE SignsDiffer(c, h)
  <2>1. PICK v : v = DNegate(r.s[1], r.s[2])
    OBVIOUS
  <2>2. PICK a \in Cells, b \in Cells : a = r.s[1] /\ b = r.s[2]
    BY <1>25
  <2>3. Unsigned2(a, b) = q /\ 2 * q <= B * B /\ v = DNegate(a, b)
    BY <2>1, <2>2, <1>20, <1>21, <1>25
  <2>4. v[1] \in Cells /\ v[2] \in Cells /\ v = <<v[1], v[2]>> /\ Signed2(v[1], v[2]) = -q
    BY <2>3, DNegateExact
  <2>5. PICK v1 \in Cells, v2 \in Cells : v1 = v[1] /\ v2 = v[2]
    BY <2>4
  <2>6. Drop(r.s, 2) \in Seq(Cells)
    <3>1. PICK hi \in Cells, lo \in Cells : r.s = <<hi, lo>> \o Drop(w, 4)
      BY <1>22, <1>24, UTMSlashExact
    <3>2. r.s \in Seq(Cells)
      <4>1. Drop(w, 4) \in Seq(Cells)
        BY Under
      <4>2. <<hi, lo>> \in Seq(Cells)
        OBVIOUS
      <4> QED BY <4>1, <4>2, <3>1, ConcatProperties
    <3> QED BY <3>2 DEF Drop
  <2>7. MStarSlash(s).s = <<v1, v2>> \o Drop(r.s, 2)
    <3>1. MStarSlash(s) = Leaves(v \o Drop(r.s, 2))
      BY ONLY <1>26, <1>27, <2>1
    <3>2. v = <<v1, v2>>
      BY <2>4, <2>5
    <3>3. MStarSlash(s) = Leaves(<<v1, v2>> \o Drop(r.s, 2))
      BY ONLY <3>1, <3>2
    <3> QED BY ONLY <3>3 DEF Leaves
  <2>8. MStarSlash(s).s[1] = v1 /\ MStarSlash(s).s[2] = v2
    BY <2>6, <2>7, OnTop
  <2>9. Quot(p, n) = -q
    <3>1. (i < 0) # (f < 0)
      BY <1>27, <1>3, <1>9 DEF SignsDiffer
    <3>2. p < 0 \/ p = 0
      BY <3>1, <1>5, SignOfProduct
    <3>3. CASE p < 0
      BY <3>3, <1>6, <1>7, <1>18 DEF Quot
    <3>4. CASE p = 0
      <4>1. Abs(p) = 0
        BY <3>4 DEF Abs
      <4>2. u * 0 + 0 = 0
        BY <1>7
      <4>3. q = 0
        BY <4>1, <4>2, <1>7, <1>18, DivUnique
      <4> QED BY <3>4, <4>3, <1>6, <1>7, <1>18 DEF Quot
    <3> QED BY <3>2, <3>3, <3>4
  <2> QED BY <2>4, <2>5, <2>8, <2>9
<1>28. CASE ~SignsDiffer(c, h)
  <2>1. MStarSlash(s).s = r.s
    BY <1>26, <1>28 DEF Leaves
  <2>2. Quot(p, n) = q
    <3>1. (i < 0) = (f < 0)
      BY <1>28, <1>3, <1>9 DEF SignsDiffer
    <3>2. p >= 0
      BY <3>1, <1>5, SignOfProduct
    <3> QED BY <3>2, <1>6, <1>7, <1>18 DEF Quot
  <2>3. Signed2(r.s[1], r.s[2]) = q
    BY <1>20, <1>21, <1>25, Signed2Small
  <2> QED BY <2>1, <2>2, <2>3
<1> QED BY <1>27, <1>28

-----------------------------------------------------------------------------
(* +LOOP *)

(* The signed value of a sum of two cells, or of a difference. *)
LEMMA SignedNear ==
  ASSUME NEW i \in Int, -B <= i, i < 2 * B
  PROVE  /\ Signed(Cell(i)) \in Int
         /\ i < -Half => Signed(Cell(i)) = i + B
         /\ -Half <= i /\ i < Half => Signed(Cell(i)) = i
         /\ Half <= i /\ i < 3 * Half => Signed(Cell(i)) = i - B
         /\ 3 * Half <= i => Signed(Cell(i)) = i - 2 * B
<1>0. B \in Nat \ {0} /\ Half \in Nat \ {0} /\ B = 2 * Half
  BY Width
<1>1. PICK c \in Cells : c = Cell(i)
  BY CellNear
<1>2. /\ 0 <= i /\ i < B => c = i
      /\ i < 0 => c = i + B
      /\ B <= i => c = i - B
  BY <1>1, CellNear
<1>3. Signed(c) = IF 2 * c >= B THEN c - B ELSE c
  BY DEF Signed
<1>4. c \in Int
  BY CellNat
<1> QED BY <1>0, <1>1, <1>2, <1>3, <1>4

(* +LOOP goes on unless the step crosses the boundary.  For an increment   *)
(* that is not negative the boundary is the limit, for one that is it is   *)
(* the limit less one.                                                     *)
LEMMA LoopEnds ==
  ASSUME NEW inc \in Cells, NEW limit \in Cells, NEW index \in Cells,
         NEW boundary \in Int,
         boundary = Signed(limit) - (IF Signed(inc) < 0 THEN 1 ELSE 0),
         InCell(boundary), InCell(boundary + Signed(inc))
  PROVE  GoesOn(inc, limit, index) <=> ~Crosses(inc, limit, index)
<1>0. B \in Nat \ {0} /\ Half \in Nat \ {0} /\ B = 2 * Half
  BY Width
<1>1. /\ inc \in Int /\ 0 <= inc /\ inc < B /\ limit \in Int /\ 0 <= limit /\ limit < B
      /\ index \in Int /\ 0 <= index /\ index < B
  BY CellNat
<1>2. PICK i \in Int, l \in Int : i = Signed(inc) /\ l = Signed(limit)
  BY SignedValue
<1>3. /\ -Half <= i /\ i < Half /\ (i < 0 => inc = i + B) /\ (i >= 0 => inc = i)
      /\ -Half <= l /\ l < Half /\ (l < 0 => limit = l + B) /\ (l >= 0 => limit = l)
  <2>1. -Half <= i /\ i < Half /\ (i < 0 => inc = i + B) /\ (i >= 0 => inc = i)
    <3>1. /\ -Half <= Signed(inc) /\ Signed(inc) < Half
          /\ Signed(inc) < 0 => Signed(inc) = inc - B
          /\ Signed(inc) >= 0 => Signed(inc) = inc
      BY SignedValue
    <3> QED BY ONLY <3>1, <1>0, <1>1, <1>2
  <2>2. -Half <= l /\ l < Half /\ (l < 0 => limit = l + B) /\ (l >= 0 => limit = l)
    <3>1. /\ -Half <= Signed(limit) /\ Signed(limit) < Half
          /\ Signed(limit) < 0 => Signed(limit) = limit - B
          /\ Signed(limit) >= 0 => Signed(limit) = limit
      BY SignedValue
    <3> QED BY ONLY <3>1, <1>0, <1>1, <1>2
  <2> QED BY <2>1, <2>2
<1>4. PICK next \in Int : next = Signed(Cell(index + inc))
  BY <1>0, <1>1, SignedNear
<1>5. /\ index + inc < Half => next = index + inc
      /\ Half <= index + inc /\ index + inc < 3 * Half => next = index + inc - B
      /\ 3 * Half <= index + inc => next = index + inc - 2 * B
  BY <1>0, <1>1, <1>4, SignedNear
<1>6. CASE i >= 0
  <2>1. boundary = l /\ 2 * (l + i) < B
    BY <1>2, <1>6 DEF InCell
  <2>2. PICK past \in Int : past = Signed(Cell(limit + inc))
    BY <1>0, <1>1, SignedNear
  <2>3. past = l + i
    <3>1. CASE l >= 0
      <4>1. limit + inc = l + i /\ 0 <= l + i /\ l + i < Half
        BY <3>1, <2>1, <1>0, <1>3, <1>6
      <4> QED BY <4>1, <2>2, <1>0, SignedNear
    <3>2. CASE l < 0
      <4>1. limit + inc = l + i + B /\ Half <= limit + inc /\ limit + inc < 3 * Half
        BY <3>2, <2>1, <1>0, <1>3, <1>6
      <4> QED BY <4>1, <2>2, <1>0, SignedNear
    <3> QED BY <3>1, <3>2
  <2>4. GoesOn(inc, limit, index) <=> next < l \/ next >= l + i
    BY <1>2, <1>4, <1>6, <2>2, <2>3 DEF GoesOn
  <2>5. PICK gap \in Cells : gap = Cell(limit - 1 - index)
    <3>1. PICK d \in Int : d = limit - 1 - index
      BY <1>1
    <3> QED BY <3>1, CellNear
  <2>6. /\ gap \in Int
        /\ limit - 1 - index >= 0 => gap = limit - 1 - index
        /\ limit - 1 - index < 0 => gap = limit - 1 - index + B
    BY <1>0, <1>1, <2>5, CellNear, CellNat
  <2>7. Crosses(inc, limit, index) <=> i > gap
    BY <1>2, <1>6, <2>5 DEF Crosses
  <2>8. (next < l \/ next >= l + i) <=> ~(i > gap)
    BY ONLY <1>0, <1>1, <1>3, <1>5, <1>6, <2>1, <2>6, next \in Int, i \in Int, l \in Int
  <2> QED BY <2>4, <2>7, <2>8
<1>7. CASE i < 0
  <2>1. boundary = l - 1 /\ -B <= 2 * (l - 1) /\ -B <= 2 * (l - 1 + i)
    BY <1>2, <1>7 DEF InCell
  <2>2. PICK past \in Int : past = Signed(Cell(limit - 1 + inc))
    BY <1>0, <1>1, SignedNear
  <2>3. past = l - 1 + i
    <3>1. CASE l >= 0
      <4>1. limit - 1 + inc = l - 1 + i + B /\ Half <= limit - 1 + inc /\ limit - 1 + inc < 3 * Half
        BY <3>1, <2>1, <1>0, <1>3, <1>7
      <4> QED BY <4>1, <2>2, <1>0, <1>1, SignedNear
    <3>2. CASE l < 0
      <4>1. limit - 1 + inc = l - 1 + i + 2 * B /\ 3 * Half <= limit - 1 + inc
        BY <3>2, <2>1, <1>0, <1>3, <1>7
      <4> QED BY <4>1, <2>2, <1>0, <1>1, SignedNear
    <3> QED BY <3>1, <3>2
  <2>4. Signed(Cell(limit - 1)) = l - 1
    <3>1. CASE l >= 0
      BY <3>1, <2>1, <1>0, <1>1, <1>3, SignedNear
    <3>2. CASE l < 0
      <4>1. Half <= limit - 1 /\ limit - 1 < 3 * Half /\ limit - 1 - B = l - 1
        BY <3>2, <2>1, <1>0, <1>1, <1>3
      <4> QED BY <4>1, <1>0, <1>1, SignedNear
    <3> QED BY <3>1, <3>2
  <2>5. GoesOn(inc, limit, index) <=> next > l - 1 \/ next <= l - 1 + i
    BY <1>2, <1>4, <1>7, <2>2, <2>3, <2>4 DEF GoesOn
  <2>6. PICK gap \in Cells : gap = Cell(index - limit)
    <3>1. PICK d \in Int : d = index - limit
      BY <1>1
    <3> QED BY <3>1, CellNear
  <2>7. /\ gap \in Int
        /\ index - limit >= 0 => gap = index - limit
        /\ index - limit < 0 => gap = index - limit + B
    BY <1>0, <1>1, <2>6, CellNear, CellNat
  <2>8. Crosses(inc, limit, index) <=> -i > gap
    BY <1>2, <1>7, <2>6 DEF Crosses
  <2>9. (next > l - 1 \/ next <= l - 1 + i) <=> ~(-i > gap)
    BY ONLY <1>0, <1>1, <1>3, <1>5, <1>7, <2>1, <2>7, next \in Int, i \in Int, l \in Int
  <2> QED BY <2>5, <2>8, <2>9
<1> QED BY <1>6, <1>7, <1>2

-----------------------------------------------------------------------------
(* >NUMBER *)

(* A digit is taken in exactly, unless the double overflows. *)
LEMMA AccumulateExact ==
  ASSUME NEW h \in Cells, NEW l \in Cells, NEW c \in Nat, Base \in Cells
  PROVE  LET r == Accumulate(h, l, c)
             n == Unsigned2(h, l) * Base
         IN  /\ r.e = "none" <=> n < B * B
             /\ n < B * B => r = Leaves(Cells2(n + c))
             /\ n + c < B * B => Unsigned2(r.s[1], r.s[2]) = n + c
<1>0. B \in Nat \ {0} /\ Base \in Nat
  BY Width, CellNat
<1>1. PICK t : t = UDMTriple(Base, h, l)
  OBVIOUS
<1>2. /\ t[1] \in Cells /\ t[2] \in Cells /\ t[3] \in Cells
      /\ Unsigned3(t[1], t[2], t[3]) = Base * Unsigned2(h, l)
  BY <1>1, UDMTripleExact
<1>3. PICK x \in Cells, y \in Cells, z \in Cells : x = t[1] /\ y = t[2] /\ z = t[3]
  BY <1>2
<1>4. x \in Nat /\ y \in Nat /\ z \in Nat /\ y < B /\ z < B
  BY CellNat
<1>5. PICK n \in Nat : n = Unsigned2(h, l) * Base
  <2>1. h * B + l \in Nat
    BY <1>0, CellNat, TimesNat
  <2> QED BY <2>1, <1>0, TimesNat DEF Unsigned2
<1>6. n = (x * B + y) * B + z
  <2>1. h * B + l \in Nat
    BY <1>0, CellNat, TimesNat
  <2>2. Base * (h * B + l) = (h * B + l) * Base
    BY <2>1, <1>0
  <2> QED BY <1>2, <1>3, <1>5, <2>2 DEF Unsigned3, Unsigned2
<1>7. x = 0 <=> n < B * B
  <2>1. x < 1 <=> x * B + y < 1 * B
    BY ONLY <1>0, <1>4, HighDecides, 1 \in Nat
  <2>2. x * B + y \in Nat
    BY <1>0, <1>4, TimesNat
  <2>3. x * B + y < B <=> (x * B + y) * B + z < B * B
    BY ONLY <1>0, <1>4, <2>2, HighDecides
  <2>4. 1 * B = B
    BY <1>0
  <2>5. x < 1 <=> n < B * B
    BY ONLY <2>1, <2>3, <2>4, <1>6
  <2> QED BY ONLY <2>5, <1>4
<1>8. CASE x # 0
  <2>1. Accumulate(h, l, c) = Fails(<<y, z>>, "double overflow")
    BY <1>1, <1>3, <1>8 DEF Accumulate
  <2>2. PICK name : name = "double overflow"
    OBVIOUS
  <2>3. name # "none"
    BY <2>2
  <2>4. Accumulate(h, l, c) = Fails(<<y, z>>, name)
    BY <2>1, <2>2
  <2>5. Accumulate(h, l, c).e = name
    BY ONLY <2>4 DEF Fails
  <2>6. ~(n < B * B) /\ ~(n + c < B * B)
    <3>1. PICK bb \in Nat : bb = B * B
      BY <1>0, TimesNat
    <3> QED BY <3>1, <1>7, <1>8
  <2> QED BY <2>3, <2>5, <2>6, <1>5
<1>9. CASE x = 0
  <2>1. Accumulate(h, l, c) = Leaves(Cells2(Unsigned2(y, z) + c))
    BY <1>1, <1>3, <1>9 DEF Accumulate
  <2>2. Unsigned2(y, z) = n
    BY <1>4, <1>6, <1>9, <1>0 DEF Unsigned2
  <2>3. Accumulate(h, l, c).e = "none" /\ Accumulate(h, l, c).s = Cells2(n + c)
    BY <2>1, <2>2 DEF Leaves
  <2>4. ASSUME n + c < B * B
        PROVE  Unsigned2(Accumulate(h, l, c).s[1], Accumulate(h, l, c).s[2]) = n + c
    <3>1. n + c \in Nat
      OBVIOUS
    <3>2. PICK a \in Cells, b \in Cells : Cells2(n + c) = <<a, b>> /\ n + c = a * B + b
      BY <2>4, <3>1, TwoCells
    <3>3. Accumulate(h, l, c).s[1] = a /\ Accumulate(h, l, c).s[2] = b
      BY <2>3, <3>2
    <3> QED BY <3>2, <3>3 DEF Unsigned2
  <2> QED BY <2>1, <2>2, <2>3, <2>4, <1>5, <1>7, <1>9
<1> QED BY <1>8, <1>9

-----------------------------------------------------------------------------
(* The theorems *)

(* A word finds the stack that the properties compare it with. *)
NumInv ==
  /\ Base \in Bases
  /\ op = "none" => stack \in Stacks /\ before = stack /\ code = "none"

(* The words that convert numbers: the properties of the arithmetic say    *)
(* nothing of them.                                                        *)
Conversions ==
  {"<#", "#", "#>", ">NUMBER", ".", "U.", ".R", "U.R", "D.", "UD.", "IsInt", "NUMBER?"}

(* The words of Arithmetic, each with the stack. *)
Computes ==
  \/ UMDivision \/ UTMDivision \/ UTSDivision \/ STSDivision
  \/ FMDivision \/ SMDivision \/ Division
  \/ Scaling \/ LongScaling \/ Product \/ UProduct \/ PlusLoop

(* Every step computes or converts. *)
LEMMA Steps == Next => Computes \/ op' \in Conversions
<1> USE DEF Conversions
<1>1. BracketSharp => op' \in Conversions
  BY DEF BracketSharp
<1>2. Sharp => op' \in Conversions
  BY DEF Sharp
<1>3. Hold => op' \in Conversions
  BY DEF Hold
<1>4. SharpBracket => op' \in Conversions
  BY DEF SharpBracket
<1>5. ToNumber => op' \in Conversions
  BY DEF ToNumber, Word
<1>6. Dot \/ UDot \/ DotR \/ UDotR \/ DDot \/ UDDot => op' \in Conversions
  BY DEF Dot, UDot, DotR, UDotR, DDot, UDDot, Prints
<1>7. IsInt => op' \in Conversions
  BY DEF IsInt, Typed
<1>8. NumberQuery => op' \in Conversions
  BY DEF NumberQuery, Typed
<1> QED BY <1>1, <1>2, <1>3, <1>4, <1>5, <1>6, <1>7, <1>8 DEF Next, Computes

(* The base stays, and so does the stack that was found. *)
LEMMA Kept == Next => Base' = Base /\ before' = before /\ op' # "none"
<1>1. Computes => Base' = Base /\ before' = before /\ op' # "none"
  BY DEF Computes, UMDivision, UTMDivision, UTSDivision, STSDivision, FMDivision, SMDivision,
         Division, Scaling, LongScaling, Product, UProduct, PlusLoop, Word
<1>2. ASSUME Next, ~Computes PROVE Base' = Base /\ before' = before
  BY <1>2 DEF Next, Computes, BracketSharp, Sharp, Hold, SharpBracket, ToNumber, Word,
       Dot, UDot, DotR, UDotR, DDot, UDDot, Prints, IsInt, NumberQuery
<1>3. op' \in Conversions => op' # "none"
  BY DEF Conversions
<1> QED BY <1>1, <1>2, <1>3, Steps

(* NumInv holds in every state. *)
LEMMA NumInvHolds == Spec => []NumInv
<1>1. Init => NumInv
  BY DEF Init, NumInv, Stacks
<1>2. NumInv /\ [Next]_vars => NumInv'
  BY Kept DEF NumInv, vars
<1> QED BY <1>1, <1>2, PTL DEF Spec

(* The unsigned divisions. *)
LEMMA UnsignedSteps == NumInv /\ Computes => UnsignedDivides'
<1> SUFFICES ASSUME NumInv, Computes PROVE UnsignedDivides'
  OBVIOUS
<1>1. ASSUME NEW name, NEW r, Word(name, r)
      PROVE  /\ op' = name /\ stack' = r.s /\ code' = r.e
             /\ before' = stack /\ stack \in Stacks
  BY <1>1 DEF Word, NumInv
<1>2. CASE UMDivision
  <2>1. /\ op' = "UM/MOD" /\ stack' = UMSlashMod(stack).s /\ code' = UMSlashMod(stack).e
        /\ before' = stack /\ stack \in Stacks
    BY <1>1, <1>2 DEF UMDivision
  <2>2. op' # "UTM/" /\ op' # "UTS/MOD"
    BY <2>1
  <2>3. LET r == UMSlashMod(stack)
            n == Unsigned2(stack[2], stack[3])
        IN  /\ r.e = "none" <=> stack[1] # 0 /\ n \div stack[1] < B
            /\ r.e = "none" => stack[1] * r.s[1] + r.s[2] = n /\ r.s[2] < stack[1]
    BY <2>1, UMSlashModExact
  <2> QED BY ONLY <2>1, <2>2, <2>3 DEF UnsignedDivides
<1>3. CASE UTMDivision
  <2>1. /\ op' = "UTM/" /\ stack' = UTMSlash(stack).s /\ code' = UTMSlash(stack).e
        /\ before' = stack /\ stack \in Stacks
    BY <1>1, <1>3 DEF UTMDivision
  <2>2. op' # "UM/MOD" /\ op' # "UTS/MOD"
    BY <2>1
  <2>3. LET r == UTMSlash(stack)
            n == Unsigned3(stack[2], stack[3], stack[4])
        IN  /\ r.e = "none" <=> stack[1] # 0 /\ n \div stack[1] < B * B
            /\ r.e = "none" => Unsigned2(r.s[1], r.s[2]) = n \div stack[1]
    BY <2>1, UTMSlashExact
  <2> QED BY ONLY <2>1, <2>2, <2>3 DEF UnsignedDivides
<1>4. CASE UTSDivision
  <2>1. /\ op' = "UTS/MOD" /\ stack' = UTSSlashMod(stack).s /\ code' = UTSSlashMod(stack).e
        /\ before' = stack /\ stack \in Stacks
    BY <1>1, <1>4 DEF UTSDivision
  <2>2. op' # "UM/MOD" /\ op' # "UTM/"
    BY <2>1
  <2>3. LET r == UTSSlashMod(stack)
            n == Unsigned3(stack[2], stack[3], stack[4])
        IN  /\ r.e = "none" <=> stack[1] # 0
            /\ r.e = "none" => /\ stack[1] * Unsigned3(r.s[1], r.s[2], r.s[3]) + r.s[4] = n
                               /\ r.s[4] < stack[1]
    BY <2>1, UTSSlashModExact
  <2> QED BY ONLY <2>1, <2>2, <2>3 DEF UnsignedDivides
<1>5. CASE ~UMDivision /\ ~UTMDivision /\ ~UTSDivision
  <2>1. op' \in {"STS/REM", "FM/MOD", "SM/REM", "/", "*/", "M*/", "DS*", "UDM*", "+LOOP"}
    BY <1>5 DEF Computes, STSDivision, FMDivision, SMDivision,
         Division, Scaling, LongScaling, Product, UProduct, PlusLoop, Word
  <2>2. op' \notin {"UM/MOD", "UTM/", "UTS/MOD"}
    BY <2>1
  <2> QED BY <2>2 DEF UnsignedDivides
<1> QED BY <1>2, <1>3, <1>4, <1>5

(* The signed divisions. *)
LEMMA SignedSteps == NumInv /\ Computes => SignedDivides'
<1> SUFFICES ASSUME NumInv, Computes PROVE SignedDivides'
  OBVIOUS
<1>1. ASSUME NEW name, NEW r, Word(name, r)
      PROVE  /\ op' = name /\ stack' = r.s /\ code' = r.e
             /\ before' = stack /\ stack \in Stacks
  BY <1>1 DEF Word, NumInv
<1>2. CASE Division
  <2>1. /\ op' = "/" /\ stack' = Slash(stack).s /\ code' = Slash(stack).e
        /\ before' = stack /\ stack \in Stacks
    BY <1>1, <1>2 DEF Division
  <2>2. op' # "*/" /\ op' # "SM/REM" /\ op' # "FM/MOD" /\ op' # "STS/REM"
    BY <2>1
  <2>3. LET r == Slash(stack)
            n == Signed(stack[1])
            i == Signed(stack[2])
        IN  /\ r.e = "none" <=> n # 0 /\ InCell(Quot(i, n))
            /\ r.e = "none" => Signed(r.s[1]) = Quot(i, n)
    BY <2>1, SlashExact
  <2> QED BY ONLY <2>1, <2>2, <2>3 DEF SignedDivides, Ran
<1>3. CASE Scaling
  <2>1. /\ op' = "*/" /\ stack' = StarSlash(stack).s /\ code' = StarSlash(stack).e
        /\ before' = stack /\ stack \in Stacks
    BY <1>1, <1>3 DEF Scaling
  <2>2. op' # "/" /\ op' # "SM/REM" /\ op' # "FM/MOD" /\ op' # "STS/REM"
    BY <2>1
  <2>3. LET n == Signed(stack[1])
            i == Signed(stack[2]) * Signed(stack[3])
        IN  StarSlash(stack).e = "none" <=> n # 0 /\ InCell(Quot(i, n))
    BY <2>1, StarSlashExact
  <2> QED BY ONLY <2>1, <2>2, <2>3 DEF SignedDivides, Ran
<1>4. CASE SMDivision
  <2>1. /\ op' = "SM/REM" /\ stack' = SMSlashRem(stack).s /\ code' = SMSlashRem(stack).e
        /\ before' = stack /\ stack \in Stacks
    BY <1>1, <1>4 DEF SMDivision
  <2>2. op' # "/" /\ op' # "*/" /\ op' # "FM/MOD" /\ op' # "STS/REM"
    BY <2>1
  <2>3. LET r == SMSlashRem(stack)
            n == Signed(stack[1])
            i == Signed2(stack[2], stack[3])
        IN  /\ r.e = "none" <=> n # 0 /\ InCell(Quot(i, n))
            /\ r.e = "none" =>
                 Signed(r.s[1]) * n + Signed(r.s[2]) = i /\ Signed(r.s[2]) = Rem(i, n)
    BY <2>1, SMSlashRemExact
  <2> QED BY ONLY <2>1, <2>2, <2>3 DEF SignedDivides, Ran
<1>5. CASE FMDivision
  <2>1. /\ op' = "FM/MOD" /\ stack' = FMSlashMod(stack).s /\ code' = FMSlashMod(stack).e
        /\ before' = stack /\ stack \in Stacks
    BY <1>1, <1>5 DEF FMDivision
  <2>2. op' # "/" /\ op' # "*/" /\ op' # "SM/REM" /\ op' # "STS/REM"
    BY <2>1
  <2>3. LET x == FMSlashMod(stack)
            n == Signed(stack[1])
            i == Signed2(stack[2], stack[3])
            q == Signed(x.s[1])
            r == Signed(x.s[2])
        IN  /\ x.e = "none" <=> n # 0 /\ InCell(Quot(i, n))
            /\ x.e = "none" =>
                 /\ Abs(r) < Abs(n) /\ (r # 0 => (r < 0) = (n < 0))
                 /\ q * n + r = i \/ ((q - B) * n + r = i /\ ~InCell(q - B))
    BY <2>1, FMSlashModExact
  <2> QED BY ONLY <2>1, <2>2, <2>3 DEF SignedDivides, Ran
<1>6. CASE STSDivision
  <2>1. /\ op' = "STS/REM" /\ stack' = STSSlashRem(stack).s /\ code' = STSSlashRem(stack).e
        /\ before' = stack /\ stack \in Stacks
    BY <1>1, <1>6 DEF STSDivision
  <2>2. op' # "/" /\ op' # "*/" /\ op' # "SM/REM" /\ op' # "FM/MOD"
    BY <2>1
  <2>3. LET r == STSSlashRem(stack)
            n == Signed(stack[1])
            i == Signed3(stack[2], stack[3], stack[4])
        IN  r.e = "none" /\ 2 * Quot(i, n) < B * B * B =>
              Signed3(r.s[1], r.s[2], r.s[3]) = Quot(i, n)
    BY <2>1, STSSlashRemExact
  <2> QED BY ONLY <2>1, <2>2, <2>3 DEF SignedDivides, Ran
<1>7. CASE ~Division /\ ~Scaling /\ ~SMDivision /\ ~FMDivision /\ ~STSDivision
  <2>1. op' \in {"UM/MOD", "UTM/", "UTS/MOD", "M*/", "DS*", "UDM*", "+LOOP"}
    BY <1>7 DEF Computes, UMDivision, UTMDivision, UTSDivision,
         LongScaling, Product, UProduct, PlusLoop, Word
  <2>2. op' \notin {"/", "*/", "SM/REM", "FM/MOD", "STS/REM"}
    BY <2>1
  <2> QED BY <2>2 DEF SignedDivides, Ran
<1> QED BY <1>2, <1>3, <1>4, <1>5, <1>6, <1>7

(* The products. *)
LEMMA ProductSteps == NumInv /\ Computes => ProductsExact'
<1> SUFFICES ASSUME NumInv, Computes PROVE ProductsExact'
  OBVIOUS
<1>1. ASSUME NEW name, NEW r, Word(name, r)
      PROVE  /\ op' = name /\ stack' = r.s /\ code' = r.e
             /\ before' = stack /\ stack \in Stacks
  BY <1>1 DEF Word, NumInv
<1>2. CASE Product
  <2>1. /\ op' = "DS*" /\ stack' = DSStar(stack).s /\ before' = stack /\ stack \in Stacks
    BY <1>1, <1>2 DEF Product
  <2>2. op' # "UDM*" /\ op' # "M*/"
    BY <2>1
  <2>3. LET r == DSStar(stack)
        IN  Signed3(r.s[1], r.s[2], r.s[3]) = Signed2(stack[2], stack[3]) * Signed(stack[1])
    BY <2>1, DSStarExact
  <2> QED BY ONLY <2>1, <2>2, <2>3 DEF ProductsExact
<1>3. CASE UProduct
  <2>1. /\ op' = "UDM*" /\ stack' = UDMStar(stack).s /\ before' = stack /\ stack \in Stacks
    BY <1>1, <1>3 DEF UProduct
  <2>2. op' # "DS*" /\ op' # "M*/"
    BY <2>1
  <2>3. LET r == UDMStar(stack)
        IN  Unsigned3(r.s[1], r.s[2], r.s[3]) = Unsigned2(stack[2], stack[3]) * stack[1]
    BY <2>1, UDMStarExact
  <2> QED BY ONLY <2>1, <2>2, <2>3 DEF ProductsExact
<1>4. CASE LongScaling
  <2>1. /\ op' = "M*/" /\ stack' = MStarSlash(stack).s /\ before' = stack /\ stack \in Stacks
    BY <1>1, <1>4 DEF LongScaling
  <2>2. op' # "DS*" /\ op' # "UDM*"
    BY <2>1
  <2>3. LET r == MStarSlash(stack)
            n == Signed(stack[1])
            p == Signed2(stack[3], stack[4]) * Signed(stack[2])
        IN  n > 0 /\ 2 * Abs(Quot(p, n)) < B * B =>
              Signed2(r.s[1], r.s[2]) = Quot(p, n)
    BY <2>1, MStarSlashExact
  <2> QED BY ONLY <2>1, <2>2, <2>3 DEF ProductsExact
<1>5. CASE ~Product /\ ~UProduct /\ ~LongScaling
  <2>1. op' \in {"UM/MOD", "UTM/", "UTS/MOD", "STS/REM", "FM/MOD", "SM/REM", "/", "*/", "+LOOP"}
    BY <1>5 DEF Computes, UMDivision, UTMDivision, UTSDivision, STSDivision,
         FMDivision, SMDivision, Division, Scaling, PlusLoop, Word
  <2>2. op' \notin {"DS*", "UDM*", "M*/"}
    BY <2>1
  <2> QED BY <2>2 DEF ProductsExact
<1> QED BY <1>2, <1>3, <1>4, <1>5

(* +LOOP. *)
LEMMA LoopSteps == NumInv /\ Computes => LoopEndsAtLimit'
<1> SUFFICES ASSUME NumInv, Computes PROVE LoopEndsAtLimit'
  OBVIOUS
<1>1. CASE PlusLoop
  <2>1. PICK inc \in Cells, limit \in Cells, index \in Cells :
          inc = stack[1] /\ limit = stack[2] /\ index = stack[3]
    BY <1>1, FourCells DEF PlusLoop, Word, NumInv
  <2>2. PICK boundary \in Int : boundary = Signed(limit) - (IF Signed(inc) < 0 THEN 1 ELSE 0)
    BY SignedValue
  <2>3. before' = stack
    BY <1>1 DEF PlusLoop, Word, NumInv
  <2>4. stack' = <<IF GoesOn(inc, limit, index) THEN B - 1 ELSE 0>>
    BY <1>1, <2>1 DEF PlusLoop, Word, Leaves
  <2>5. (stack' = <<0>>) = ~GoesOn(inc, limit, index)
    BY <2>4, Width
  <2>6. ASSUME InCell(boundary), InCell(boundary + Signed(inc))
        PROVE  (stack' = <<0>>) = Crosses(inc, limit, index)
    <3>1. GoesOn(inc, limit, index) <=> ~Crosses(inc, limit, index)
      BY <2>2, <2>6, LoopEnds
    <3>2. Crosses(inc, limit, index) \in BOOLEAN
      <4>1. PICK i \in Int : i = Signed(inc)
        BY SignedValue
      <4>2. PICK d \in Int, e \in Int : d = limit - 1 - index /\ e = index - limit
        BY CellNat
      <4>3. PICK up \in Int, down \in Int : up = Cell(d) /\ down = Cell(e)
        BY CellNear, CellNat
      <4>4. Crosses(inc, limit, index) = IF i >= 0 THEN i > up ELSE -i > down
        BY <4>1, <4>2, <4>3 DEF Crosses
      <4>5. (i > up) \in BOOLEAN /\ (-i > down) \in BOOLEAN
        OBVIOUS
      <4> QED BY <4>4, <4>5
    <3> QED BY <2>5, <3>1, <3>2
  <2> QED BY <2>1, <2>2, <2>3, <2>6 DEF LoopEndsAtLimit
<1>2. CASE ~PlusLoop
  <2>1. op' \in {"UM/MOD", "UTM/", "UTS/MOD", "STS/REM", "FM/MOD", "SM/REM", "/", "*/", "M*/",
                 "DS*", "UDM*"}
    BY <1>2 DEF Computes, UMDivision, UTMDivision, UTSDivision, STSDivision,
         FMDivision, SMDivision, Division, Scaling, LongScaling, Product, UProduct, Word
  <2>2. op' # "+LOOP"
    BY <2>1
  <2> QED BY <2>2 DEF LoopEndsAtLimit
<1> QED BY <1>1, <1>2

(* A conversion is none of them. *)
LEMMA ConversionSteps ==
  op' \in Conversions => DivisionsExact' /\ ProductsExact' /\ LoopEndsAtLimit'
<1> SUFFICES ASSUME op' \in Conversions
             PROVE  DivisionsExact' /\ ProductsExact' /\ LoopEndsAtLimit'
  OBVIOUS
<1>1. op' \notin {"UM/MOD", "UTM/", "UTS/MOD", "STS/REM", "FM/MOD", "SM/REM", "/", "*/", "M*/",
                  "DS*", "UDM*", "+LOOP"}
  BY DEF Conversions
<1>2. UnsignedDivides'
  BY <1>1 DEF UnsignedDivides
<1>3. SignedDivides'
  BY <1>1 DEF SignedDivides, Ran
<1>4. ProductsExact'
  BY <1>1 DEF ProductsExact
<1>5. LoopEndsAtLimit'
  BY <1>1 DEF LoopEndsAtLimit
<1> QED BY <1>2, <1>3, <1>4, <1>5 DEF DivisionsExact

(* Nothing was computed yet. *)
LEMMA NothingComputed == Init => DivisionsExact /\ ProductsExact /\ LoopEndsAtLimit
<1> SUFFICES ASSUME Init PROVE DivisionsExact /\ ProductsExact /\ LoopEndsAtLimit
  OBVIOUS
<1>1. op = "none"
  BY DEF Init
<1>2. op \notin {"UM/MOD", "UTM/", "UTS/MOD", "STS/REM", "FM/MOD", "SM/REM", "/", "*/", "M*/",
                 "DS*", "UDM*", "+LOOP"}
  BY <1>1
<1>3. UnsignedDivides
  BY <1>2 DEF UnsignedDivides
<1>4. SignedDivides
  BY <1>2 DEF SignedDivides, Ran
<1>5. ProductsExact
  BY <1>2 DEF ProductsExact
<1>6. LoopEndsAtLimit
  BY <1>2 DEF LoopEndsAtLimit
<1> QED BY <1>3, <1>4, <1>5, <1>6 DEF DivisionsExact

(* Every division of vm32.s is exact, at every width of the cell: the      *)
(* quotient and the remainder that belong to the operands, or an error     *)
(* just when there is none.                                                *)
THEOREM DivisionsExactCorrect == Spec => []DivisionsExact
<1>1. Init => DivisionsExact
  BY NothingComputed
<1>2. NumInv /\ DivisionsExact /\ [Next]_vars => DivisionsExact'
  <2>1. NumInv /\ Next => DivisionsExact'
    BY Steps, UnsignedSteps, SignedSteps, ConversionSteps DEF DivisionsExact
  <2>2. DivisionsExact /\ UNCHANGED vars => DivisionsExact'
    BY DEF vars, DivisionsExact, UnsignedDivides, SignedDivides, Ran
  <2> QED BY <2>1, <2>2
<1> QED BY <1>1, <1>2, NumInvHolds, PTL DEF Spec

(* DS*, UDM* and M*/ are exact, at every width, as far as their cells      *)
(* hold the result and the divisor of M*/ is positive.                     *)
THEOREM ProductsExactCorrect == Spec => []ProductsExact
<1>1. Init => ProductsExact
  BY NothingComputed
<1>2. NumInv /\ ProductsExact /\ [Next]_vars => ProductsExact'
  <2>1. NumInv /\ Next => ProductsExact'
    BY Steps, ProductSteps, ConversionSteps
  <2>2. ProductsExact /\ UNCHANGED vars => ProductsExact'
    BY DEF vars, ProductsExact
  <2> QED BY <2>1, <2>2
<1> QED BY <1>1, <1>2, NumInvHolds, PTL DEF Spec

(* +LOOP ends its loop on the step that crosses the boundary, at every     *)
(* width, also when the index wraps around.                                *)
THEOREM LoopEndsAtLimitCorrect == Spec => []LoopEndsAtLimit
<1>1. Init => LoopEndsAtLimit
  BY NothingComputed
<1>2. NumInv /\ LoopEndsAtLimit /\ [Next]_vars => LoopEndsAtLimit'
  <2>1. NumInv /\ Next => LoopEndsAtLimit'
    BY Steps, LoopSteps, ConversionSteps
  <2>2. LoopEndsAtLimit /\ UNCHANGED vars => LoopEndsAtLimit'
    BY DEF vars, LoopEndsAtLimit
  <2> QED BY <2>1, <2>2
<1> QED BY <1>1, <1>2, NumInvHolds, PTL DEF Spec

-----------------------------------------------------------------------------
(* Recursive functions over 0 .. n *)

(* A set of numbers has a least one. *)
LEMMA MinExists ==
  ASSUME NEW T, T \subseteq Nat, T # {}
  PROVE  \E x \in T : \A y \in T : x <= y
<1> DEFINE R == {ss \in Nat \X Nat : ss[1] < ss[2]}
<1>1. IsWellFoundedOn(R, Nat)
  BY NatLessThanWellFounded DEF OpToRel
<1>2. PICK x \in T : \A y \in T : ~ (<<y, x>> \in R)
  <2> HIDE DEF R
  <2> QED BY <1>1, WFMin
<1>3. ASSUME NEW y \in T PROVE x <= y
  <2>1. x \in Nat /\ y \in Nat
    OBVIOUS
  <2>2. <<y, x>> \in Nat \X Nat
    BY <2>1
  <2>3. ~ (y < x)
    BY <1>2, <2>2, Z3
  <2> QED BY <2>1, <2>3
<1> QED BY <1>3

(* f starts with x and takes n steps. *)
Iterates(f, x, step, n) == f[0] = x /\ \A i \in 1 .. n : f[i] = step[<<f[i - 1], i>>]

(* There is such a function. *)
LEMMA IteratesExists ==
  ASSUME NEW S, NEW n \in Nat, NEW x \in S, NEW step \in [S \X (1 .. n) -> S]
  PROVE  \E f \in [0 .. n -> S] : Iterates(f, x, step, n)
<1> DEFINE T == {m \in 0 .. n : ~ \E f \in [0 .. m -> S] : Iterates(f, x, step, m)}
<1> SUFFICES ASSUME T # {} PROVE FALSE
  OBVIOUS
<1>1. T \subseteq Nat
  OBVIOUS
<1>2. PICK m \in T : \A k \in T : m <= k
  <2> HIDE DEF T
  <2> QED BY <1>1, MinExists
<1>3. m \in 0 .. n /\ ~ \E f \in [0 .. m -> S] : Iterates(f, x, step, m)
  OBVIOUS
<1>4. m # 0
  <2>1. SUFFICES ASSUME m = 0 PROVE FALSE
    OBVIOUS
  <2>2. PICK f : f = [i \in 0 .. 0 |-> x]
    OBVIOUS
  <2>3. f \in [0 .. 0 -> S] /\ f[0] = x
    BY <2>2
  <2>4. Iterates(f, x, step, 0)
    BY <2>3 DEF Iterates
  <2> QED BY <1>3, <2>1, <2>3, <2>4
<1>5. m - 1 \in 0 .. n /\ ~(m <= m - 1) /\ m \in 1 .. n
  BY <1>3, <1>4
<1>6. PICK f \in [0 .. m - 1 -> S] : Iterates(f, x, step, m - 1)
  BY <1>2, <1>5
<1> HIDE DEF T
<1>7. PICK g : g = [i \in 0 .. m |-> IF i = m THEN step[<<f[m - 1], m>>] ELSE f[i]]
  OBVIOUS
<1>8. /\ \A i \in 0 .. m - 1 : g[i] = f[i]
      /\ g[m] = step[<<f[m - 1], m>>]
  <2>1. \A i \in 0 .. m - 1 : i \in 0 .. m /\ i # m
    BY <1>5
  <2>2. m \in 0 .. m
    BY <1>5
  <2> QED BY <1>7, <2>1, <2>2
<1>9. f[m - 1] \in S /\ step[<<f[m - 1], m>>] \in S
  <2>1. m - 1 \in 0 .. m - 1
    BY <1>5
  <2> QED BY <1>5, <2>1
<1>10. g \in [0 .. m -> S]
  <2>1. \A i \in 0 .. m : i # m => i \in 0 .. m - 1
    BY <1>5
  <2>2. \A i \in 0 .. m : (IF i = m THEN step[<<f[m - 1], m>>] ELSE f[i]) \in S
    BY <2>1, <1>9
  <2> QED BY <1>7, <2>2
<1>11. Iterates(g, x, step, m)
  <2>1. g[0] = x
    <3>1. 0 \in 0 .. m - 1
      BY <1>5
    <3> QED BY <3>1, <1>6, <1>8 DEF Iterates
  <2>2. ASSUME NEW i \in 1 .. m PROVE g[i] = step[<<g[i - 1], i>>]
    <3>1. CASE i = m
      <4>1. m - 1 \in 0 .. m - 1
        BY <1>5
      <4> QED BY <3>1, <4>1, <1>8
    <3>2. CASE i # m
      <4>1. i \in 1 .. m - 1 /\ i \in 0 .. m - 1 /\ i - 1 \in 0 .. m - 1
        BY <1>5, <3>2
      <4>2. f[i] = step[<<f[i - 1], i>>]
        BY <1>6, <4>1 DEF Iterates
      <4> QED BY ONLY <1>8, <4>1, <4>2
    <3> QED BY <3>1, <3>2
  <2> QED BY <2>1, <2>2 DEF Iterates
<1> QED BY <1>3, <1>10, <1>11

(* There is only one. *)
LEMMA IteratesSame ==
  ASSUME NEW n \in Nat, NEW x, NEW step, NEW f, NEW g,
         Iterates(f, x, step, n), Iterates(g, x, step, n)
  PROVE  \A i \in 0 .. n : f[i] = g[i]
<1> DEFINE T == {i \in 0 .. n : f[i] # g[i]}
<1> SUFFICES ASSUME T # {} PROVE FALSE
  OBVIOUS
<1>1. T \subseteq Nat
  OBVIOUS
<1>2. PICK m \in T : \A k \in T : m <= k
  <2> HIDE DEF T
  <2> QED BY <1>1, MinExists
<1>3. m \in 0 .. n /\ f[m] # g[m]
  OBVIOUS
<1>4. m # 0
  BY <1>3 DEF Iterates
<1>5. m - 1 \in 0 .. n /\ ~(m <= m - 1) /\ m \in 1 .. n
  BY <1>3, <1>4
<1>6. f[m - 1] = g[m - 1]
  BY <1>2, <1>5
<1> HIDE DEF T
<1>7. f[m] = step[<<f[m - 1], m>>] /\ g[m] = step[<<g[m - 1], m>>]
  BY <1>5 DEF Iterates
<1> QED BY <1>3, <1>6, <1>7

-----------------------------------------------------------------------------
(* Reading digits *)

(* The values that Reads() goes through. *)
Reading(r, b, v, s) ==
  /\ r \in [0 .. Len(s) -> Nat]
  /\ r[0] = v
  /\ \A i \in 1 .. Len(s) : r[i] = IF s[i] < 0 THEN r[i - 1] ELSE r[i - 1] * b + s[i]

(* Its step. *)
ReadStep(b, s) ==
  [p \in Nat \X (1 .. Len(s)) |-> IF s[p[2]] < 0 THEN p[1] ELSE p[1] * b + s[p[2]]]

(* Reads() is the last of them. *)
LEMMA ReadsIs ==
  ASSUME NEW b \in Nat, NEW v \in Nat, NEW s \in Seq(Int)
  PROVE  \E r : Reading(r, b, v, s) /\ Reads(b, v, s) = r[Len(s)]
<1> DEFINE Fun(r) == r = [i \in 0 .. Len(s) |->
                       IF i = 0 THEN v ELSE IF s[i] < 0 THEN r[i - 1] ELSE r[i - 1] * b + s[i]]
<1>1. Len(s) \in Nat /\ \A i \in 1 .. Len(s) : s[i] \in Int
  BY LenProperties, ElementOfSeq
<1>2. PICK n \in Nat : n = Len(s)
  BY <1>1
<1>3. PICK step : step = ReadStep(b, s)
  OBVIOUS
<1>4. \A x \in Nat, i \in 1 .. n : step[<<x, i>>] = IF s[i] < 0 THEN x ELSE x * b + s[i]
  BY <1>2, <1>3 DEF ReadStep
<1>5. step \in [Nat \X (1 .. n) -> Nat]
  <2>1. step = [p \in Nat \X (1 .. n) |-> IF s[p[2]] < 0 THEN p[1] ELSE p[1] * b + s[p[2]]]
    BY <1>2, <1>3 DEF ReadStep
  <2>2. ASSUME NEW p \in Nat \X (1 .. n)
        PROVE  (IF s[p[2]] < 0 THEN p[1] ELSE p[1] * b + s[p[2]]) \in Nat
    <3>1. p[1] \in Nat /\ p[2] \in 1 .. n /\ s[p[2]] \in Int
      BY <1>1, <1>2
    <3>2. PICK c \in Int : c = s[p[2]]
      BY <3>1
    <3>3. p[1] * b \in Nat
      BY <3>1, TimesNat
    <3> QED BY <3>1, <3>2, <3>3
  <2> QED BY <2>1, <2>2
<1>6. PICK f \in [0 .. n -> Nat] : Iterates(f, v, step, n)
  BY <1>5, IteratesExists
<1>7. \A i \in 1 .. n : f[i] = IF s[i] < 0 THEN f[i - 1] ELSE f[i - 1] * b + s[i]
  <2> TAKE i \in 1 .. n
  <2>1. i - 1 \in 0 .. n /\ f[i - 1] \in Nat
    OBVIOUS
  <2>2. f[i] = step[<<f[i - 1], i>>]
    BY <1>6 DEF Iterates
  <2> QED BY <1>4, <2>1, <2>2
<1>8. Fun(f)
  <2>1. \A i \in 0 .. n : f[i] =
          IF i = 0 THEN v ELSE IF s[i] < 0 THEN f[i - 1] ELSE f[i - 1] * b + s[i]
    <3> TAKE i \in 0 .. n
    <3>1. CASE i = 0
      BY <3>1, <1>6 DEF Iterates
    <3>2. CASE i # 0
      <4>1. i \in 1 .. n
        BY <3>2
      <4> QED BY <4>1, <3>2, <1>7
    <3> QED BY <3>1, <3>2
  <2>2. f = [i \in 0 .. n |-> f[i]]
    OBVIOUS
  <2>3. f = [i \in 0 .. n |->
              IF i = 0 THEN v ELSE IF s[i] < 0 THEN f[i - 1] ELSE f[i - 1] * b + s[i]]
    BY <2>1, <2>2
  <2> QED BY <2>3, <1>2
<1> DEFINE r == CHOOSE r : Fun(r)
<1>9. Fun(r)
  BY <1>8
<1>10. Reads(b, v, s) = r[Len(s)]
  BY DEF Reads
<1> HIDE DEF r
<1>11. \A i \in 0 .. n : r[i] =
         IF i = 0 THEN v ELSE IF s[i] < 0 THEN r[i - 1] ELSE r[i - 1] * b + s[i]
  BY <1>9, <1>2
<1>12. r = [i \in 0 .. n |-> r[i]]
  BY <1>9, <1>2
<1>13. \A i \in 0 .. n : r[i] = f[i]
  <2> DEFINE T == {i \in 0 .. n : r[i] # f[i]}
  <2> SUFFICES ASSUME T # {} PROVE FALSE
    OBVIOUS
  <2>1. T \subseteq Nat
    OBVIOUS
  <2>2. PICK m \in T : \A k \in T : m <= k
    <3> HIDE DEF T
    <3> QED BY <2>1, MinExists
  <2>3. m \in 0 .. n /\ r[m] # f[m]
    OBVIOUS
  <2>4. m # 0
    BY <2>3, <1>6, <1>11 DEF Iterates
  <2>5. m - 1 \in 0 .. n /\ ~(m <= m - 1) /\ m \in 1 .. n
    BY <2>3, <2>4
  <2>6. r[m - 1] = f[m - 1]
    BY <2>2, <2>5
  <2> HIDE DEF T
  <2> QED BY <2>3, <2>4, <2>5, <2>6, <1>7, <1>11
<1>14. r \in [0 .. n -> Nat] /\ r[0] = v
  <2>1. 0 \in 0 .. n
    OBVIOUS
  <2> QED BY <2>1, <1>12, <1>13, <1>6 DEF Iterates
<1>15. \A i \in 1 .. n : r[i] = IF s[i] < 0 THEN r[i - 1] ELSE r[i - 1] * b + s[i]
  <2>1. \A i \in 1 .. n : i \in 0 .. n /\ i # 0
    OBVIOUS
  <2> QED BY <2>1, <1>11
<1> QED BY <1>2, <1>10, <1>14, <1>15 DEF Reading

(* Any such function leads to it. *)
LEMMA ReadsAny ==
  ASSUME NEW b \in Nat, NEW v \in Nat, NEW s \in Seq(Int), NEW r, Reading(r, b, v, s)
  PROVE  Reads(b, v, s) = r[Len(s)] /\ Reads(b, v, s) \in Nat
<1>1. PICK f : Reading(f, b, v, s) /\ Reads(b, v, s) = f[Len(s)]
  BY ReadsIs
<1>2. PICK n \in Nat : n = Len(s)
  BY LenProperties
<1>3. PICK step : step = ReadStep(b, s)
  OBVIOUS
<1>4. \A x \in Nat, i \in 1 .. n : step[<<x, i>>] = IF s[i] < 0 THEN x ELSE x * b + s[i]
  BY <1>2, <1>3 DEF ReadStep
<1>5. ASSUME NEW g, Reading(g, b, v, s) PROVE Iterates(g, v, step, n)
  <2>1. g \in [0 .. n -> Nat]
    BY <1>2, <1>5 DEF Reading
  <2>2. ASSUME NEW i \in 1 .. n PROVE g[i] = step[<<g[i - 1], i>>]
    <3>1. i - 1 \in 0 .. n /\ g[i - 1] \in Nat
      BY <2>1
    <3>2. g[i] = IF s[i] < 0 THEN g[i - 1] ELSE g[i - 1] * b + s[i]
      BY <1>2, <1>5 DEF Reading
    <3> QED BY ONLY <3>1, <3>2, <1>4, i \in 1 .. n
  <2> QED BY <2>2, <1>5 DEF Iterates, Reading
<1>6. n \in 0 .. n
  OBVIOUS
<1>7. r[n] = f[n]
  BY <1>1, <1>5, <1>6, IteratesSame
<1>8. f[n] \in Nat
  BY <1>1, <1>2, <1>6 DEF Reading
<1> QED BY <1>1, <1>2, <1>7, <1>8

(* Two parts are read one after the other. *)
LEMMA ReadsJoined ==
  ASSUME NEW b \in Nat, NEW v \in Nat, NEW s \in Seq(Int), NEW t \in Seq(Int)
  PROVE  /\ Reads(b, v, s \o t) = Reads(b, Reads(b, v, s), t)
         /\ Reads(b, v, s) \in Nat /\ Reads(b, v, s \o t) \in Nat
<1>1. s \o t \in Seq(Int)
  BY ConcatProperties
<1>2. PICK m \in Nat, n \in Nat : m = Len(s) /\ n = Len(t)
  BY LenProperties
<1>3. /\ Len(s \o t) = m + n
      /\ \A i \in 1 .. m : (s \o t)[i] = s[i]
      /\ \A i \in 1 .. n : (s \o t)[m + i] = t[i]
  BY <1>2, ConcatProperties
<1>4. PICK r : Reading(r, b, v, s \o t) /\ Reads(b, v, s \o t) = r[m + n]
  <2>1. PICK w \in Seq(Int) : w = s \o t
    BY <1>1
  <2>2. \E r : Reading(r, b, v, w) /\ Reads(b, v, w) = r[Len(w)]
    BY ReadsIs
  <2> QED BY <2>1, <2>2, <1>3
<1>5. /\ r \in [0 .. m + n -> Nat] /\ r[0] = v
      /\ \A i \in 1 .. m + n :
           r[i] = IF (s \o t)[i] < 0 THEN r[i - 1] ELSE r[i - 1] * b + (s \o t)[i]
  BY <1>3, <1>4 DEF Reading
<1>6. PICK f : f = [i \in 0 .. m |-> r[i]]
  OBVIOUS
<1>7. Reading(f, b, v, s)
  <2>1. \A i \in 0 .. m : i \in 0 .. m + n /\ f[i] = r[i] /\ r[i] \in Nat
    BY <1>5, <1>6
  <2>2. f \in [0 .. m -> Nat]
    BY <2>1, <1>6
  <2>3. f[0] = v
    BY <2>1, <1>5
  <2>4. ASSUME NEW i \in 1 .. m
        PROVE  f[i] = IF s[i] < 0 THEN f[i - 1] ELSE f[i - 1] * b + s[i]
    <3>1. i \in 1 .. m + n /\ i \in 0 .. m /\ i - 1 \in 0 .. m
      OBVIOUS
    <3>2. r[i] = IF (s \o t)[i] < 0 THEN r[i - 1] ELSE r[i - 1] * b + (s \o t)[i]
      BY <1>5, <3>1
    <3> QED BY ONLY <3>1, <3>2, <2>1, <1>3, i \in 1 .. m
  <2> QED BY <2>2, <2>3, <2>4, <1>2 DEF Reading
<1>8. m \in 0 .. m /\ f[m] = r[m]
  BY <1>6
<1>9. Reads(b, v, s) = r[m] /\ r[m] \in Nat
  BY <1>2, <1>7, <1>8, ReadsAny
<1>10. PICK g : g = [i \in 0 .. n |-> r[m + i]]
  OBVIOUS
<1>11. Reading(g, b, r[m], t)
  <2>1. \A i \in 0 .. n : m + i \in 0 .. m + n /\ g[i] = r[m + i] /\ r[m + i] \in Nat
    BY <1>5, <1>10
  <2>2. g \in [0 .. n -> Nat]
    BY <2>1, <1>10
  <2>3. g[0] = r[m]
    BY <2>1
  <2>4. ASSUME NEW i \in 1 .. n
        PROVE  g[i] = IF t[i] < 0 THEN g[i - 1] ELSE g[i - 1] * b + t[i]
    <3>1. m + i \in 1 .. m + n /\ i \in 0 .. n /\ i - 1 \in 0 .. n /\ (m + i) - 1 = m + (i - 1)
      OBVIOUS
    <3>2. PICK j : j = m + i
      OBVIOUS
    <3>3. r[j] = IF (s \o t)[j] < 0 THEN r[j - 1] ELSE r[j - 1] * b + (s \o t)[j]
      BY <1>5, <3>1, <3>2
    <3>4. (s \o t)[j] = t[i] /\ g[i] = r[j] /\ g[i - 1] = r[j - 1]
      BY <3>1, <3>2, <2>1, <1>3
    <3> QED BY ONLY <3>3, <3>4
  <2> QED BY <2>2, <2>3, <2>4, <1>2 DEF Reading
<1>12. n \in 0 .. n /\ g[n] = r[m + n]
  BY <1>10
<1>13. Reads(b, r[m], t) = r[m + n] /\ r[m + n] \in Nat
  <2>1. PICK w \in Nat : w = r[m]
    BY <1>9
  <2> QED BY <2>1, <1>2, <1>11, <1>12, ReadsAny
<1> QED BY <1>4, <1>9, <1>13

(* A character by itself. *)
LEMMA ReadsOne ==
  ASSUME NEW b \in Nat, NEW v \in Nat, NEW c \in Int
  PROVE  Reads(b, v, <<c>>) = IF c < 0 THEN v ELSE v * b + c
<1>1. <<c>> \in Seq(Int) /\ Len(<<c>>) = 1 /\ <<c>>[1] = c /\ 1 \in 1 .. 1 /\ 1 - 1 = 0
  OBVIOUS
<1>2. PICK r : Reading(r, b, v, <<c>>) /\ Reads(b, v, <<c>>) = r[1]
  BY <1>1, ReadsIs
<1> QED BY <1>1, <1>2 DEF Reading

(* Nothing, and characters that are no digits. *)
LEMMA ReadsBlank ==
  ASSUME NEW b \in Nat, NEW v \in Nat, NEW s \in Seq(Int), \A i \in 1 .. Len(s) : s[i] < 0
  PROVE  Reads(b, v, s) = v
<1>1. PICK n \in Nat : n = Len(s)
  BY LenProperties
<1>2. PICK f : f = [i \in 0 .. n |-> v]
  OBVIOUS
<1>3. f \in [0 .. n -> Nat] /\ \A i \in 0 .. n : f[i] = v
  BY <1>2
<1>4. Reading(f, b, v, s)
  <2>1. \A i \in 1 .. n : i \in 0 .. n /\ i - 1 \in 0 .. n
    OBVIOUS
  <2> QED BY <2>1, <1>1, <1>3 DEF Reading
<1>5. n \in 0 .. n
  OBVIOUS
<1> QED BY <1>1, <1>3, <1>4, <1>5, ReadsAny

-----------------------------------------------------------------------------
(* The conversions *)

(* A base is a number, and fits in a cell. *)
LEMMA BaseNat == \A b \in Bases : b \in Nat \ {0} /\ b \in Cells /\ b >= 2
<1> TAKE b \in Bases
<1>1. b \in 2 .. B - 1 /\ B \in Nat
  BY NumbersAssumption, Width
<1> QED BY <1>1 DEF Cells

(* # divides the double by the base; the digit is the remainder. *)
LEMMA SharpStepExact ==
  ASSUME NEW h \in Cells, NEW l \in Cells, Base \in Bases
  PROVE  LET r == SharpStep(h, l)
         IN  /\ \E a, b \in Cells : r.ud = <<a, b>>
             /\ r.ud[1] \in Cells /\ r.ud[2] \in Cells
             /\ r.digit \in 0 .. Base - 1
             /\ Unsigned2(r.ud[1], r.ud[2]) * Base + r.digit = Unsigned2(h, l)
             /\ Unsigned2(r.ud[1], r.ud[2]) \in Nat /\ Unsigned2(h, l) \in Nat
<1>0. B \in Nat \ {0} /\ 0 \in Cells
  BY Width DEF Cells
<1>1. Base \in Nat \ {0} /\ Base \in Cells /\ Base < B
  BY BaseNat, CellNat
<1>2. h \in Nat /\ h < B /\ l \in Nat /\ l < B
  BY CellNat
<1>3. PICK w \in Stacks : w = <<Base, 0, h, l>>
  BY <1>0, <1>1, FourIsStack
<1>4. w[1] = Base /\ w[2] = 0 /\ w[3] = h /\ w[4] = l
  BY <1>3
<1>5. PICK u \in Nat : u = h * B + l
  BY <1>0, <1>2, TimesNat
<1>6. Unsigned3(w[2], w[3], w[4]) = u /\ Unsigned2(h, l) = u
  BY <1>0, <1>2, <1>4, <1>5 DEF Unsigned3, Unsigned2
<1>7. PICK bb \in Nat : bb = B * B
  BY <1>0, TimesNat
<1>8. u < bb
  <2>1. h < B <=> h * B + l < B * B
    BY <1>0, <1>2, HighDecides
  <2> QED BY <2>1, <1>2, <1>5, <1>7
<1>9. PICK q \in Nat, d \in Nat : q = u \div Base /\ d = u % Base /\ u = Base * q + d /\ d < Base
  BY <1>1, <1>5, Divided
<1>10. q <= u
  <2>1. 1 * q <= Base * q
    BY <1>1, TimesMono
  <2>2. PICK x \in Nat : x = Base * q
    BY <1>1, TimesNat
  <2> QED BY <2>1, <2>2, <1>9
<1>11. UTMSlash(w).e = "none"
  <2>1. UTMSlash(w).e = "none" <=> w[1] # 0 /\ Unsigned3(w[2], w[3], w[4]) \div w[1] < B * B
    BY UTMSlashExact
  <2> QED BY <2>1, <1>1, <1>4, <1>6, <1>7, <1>8, <1>9, <1>10
<1>12. PICK a \in Cells, b \in Cells : UTMSlash(w).s = <<a, b>>
  <2>1. PICK a \in Cells, b \in Cells : UTMSlash(w).s = <<a, b>> \o Drop(w, 4)
    BY <1>11, UTMSlashExact
  <2>2. UTMSlash(w).s = <<a, b>> \o <<>>
    BY <2>1, DropAll
  <2>3. UTMSlash(w).s = <<a, b>>
    BY <2>2
  <2> QED BY <2>3
<1>13. Unsigned2(a, b) = q
  <2>1. Unsigned2(UTMSlash(w).s[1], UTMSlash(w).s[2]) = Unsigned3(w[2], w[3], w[4]) \div w[1]
    BY <1>11, UTMSlashExact
  <2>2. UTMSlash(w).s[1] = a /\ UTMSlash(w).s[2] = b
    BY <1>12
  <2> QED BY <2>1, <2>2, <1>4, <1>6, <1>9
<1>14. PICK p : p = UDMTriple(Base, a, b)
  OBVIOUS
<1>15. /\ p[1] \in Cells /\ p[2] \in Cells /\ p[3] \in Cells
       /\ Unsigned3(p[1], p[2], p[3]) = Base * q
  BY <1>1, <1>13, <1>14, UDMTripleExact
<1>16. PICK x \in Cells, y \in Cells, z \in Cells : x = p[1] /\ y = p[2] /\ z = p[3]
  BY <1>15
<1>17. PICK e \in Nat : e = x * B + y
  BY <1>0, CellNat, TimesNat
<1>18. z \in Nat /\ z < B /\ e * B + z = Base * q
  BY <1>15, <1>16, <1>17, CellNat DEF Unsigned3, Unsigned2
<1>19. Cell(l - z) = d
  <2>1. h * B + l = e * B + z + d
    BY <1>1, <1>5, <1>9, <1>18
  <2>2. l - z = B * (e - h) + d
    <3>1. PICK hb \in Nat, eb \in Nat : hb = h * B /\ eb = e * B
      BY <1>0, <1>2, TimesNat
    <3>2. B * (e - h) = eb - hb
      BY <3>1, <1>0, <1>2
    <3>3. hb + l = eb + z + d
      BY ONLY <2>1, <3>1
    <3> QED BY ONLY <3>2, <3>3, <1>2, <1>18, hb \in Nat, eb \in Nat, d \in Nat
  <2>3. PICK i \in Int, j \in Int : i = l - z /\ j = e - h
    BY <1>2, <1>18
  <2>4. i = B * j + d /\ 0 <= d /\ d < B
    <3>1. i = B * j + d
      BY ONLY <2>2, <2>3
    <3>2. d < B
      BY ONLY <1>0, <1>1, <1>9, d \in Nat
    <3> QED BY ONLY <3>1, <3>2, d \in Nat
  <2>5. i % B = d
    BY <2>4, <1>0, DivUnique
  <2> QED BY <2>3, <2>5 DEF Cell
<1>20. SharpStep(h, l) = [ud |-> <<a, b>>, digit |-> d]
  <2>1. SharpStep(h, l) = [ud |-> UTMSlash(w).s, digit |-> Cell(l - p[3])]
    <3>1. UTMSlash(w).s[1] = a /\ UTMSlash(w).s[2] = b
      BY <1>12
    <3> QED BY <3>1, <1>3, <1>14 DEF SharpStep
  <2> QED BY <2>1, <1>12, <1>16, <1>19
<1>21. SharpStep(h, l).ud = <<a, b>> /\ SharpStep(h, l).digit = d
  BY <1>20
<1>22. d \in 0 .. Base - 1
  BY <1>1, <1>9
<1>23. q * Base + d = u
  BY <1>1, <1>9
<1> QED BY <1>5, <1>6, <1>13, <1>21, <1>22, <1>23

(* Between <# and #> a double and its digits are at hand. *)
ConvInv ==
  /\ before \in Stacks
  /\ op \in {"<#", "#", "#>"} => NumberBuf \in Seq(Int)
  /\ op \in {"<#", "#"} => stack \in Seq(Cells) /\ stack[1] \in Cells /\ stack[2] \in Cells
  /\ DigitsKeepNumber

(* A double is a number. *)
LEMMA Unsigned2Nat == \A h, l \in Cells : Unsigned2(h, l) \in Nat
<1> TAKE h, l \in Cells
<1>1. h \in Nat /\ l \in Nat /\ B \in Nat
  BY CellNat, Width
<1> QED BY <1>1, TimesNat DEF Unsigned2

(* # keeps the number. *)
LEMMA SharpKeeps == NumInv /\ ConvInv /\ Sharp => ConvInv'
<1> SUFFICES ASSUME NumInv, ConvInv, Sharp PROVE ConvInv'
  OBVIOUS
<1>1. /\ op \in {"<#", "#"} /\ op' = "#" /\ NumberBuf \in Seq(Int) /\ before' = before
      /\ stack \in Seq(Cells) /\ stack[1] \in Cells /\ stack[2] \in Cells
      /\ Base' = Base /\ Base \in Bases
  BY DEF Sharp, ConvInv, NumInv
<1>2. PICK r : r = SharpStep(stack[1], stack[2])
  OBVIOUS
<1>3. PICK a \in Cells, b \in Cells, d \in 0 .. Base - 1 :
        /\ r.ud = <<a, b>> /\ r.digit = d
        /\ Unsigned2(a, b) * Base + d = Unsigned2(stack[1], stack[2])
  <2>1. PICK h \in Cells, l \in Cells : h = stack[1] /\ l = stack[2]
    BY <1>1
  <2>2. /\ \E a, b \in Cells : r.ud = <<a, b>>
        /\ r.digit \in 0 .. Base - 1
        /\ Unsigned2(r.ud[1], r.ud[2]) * Base + r.digit = Unsigned2(h, l)
    <3>1. LET t == SharpStep(h, l)
          IN  /\ \E a, b \in Cells : t.ud = <<a, b>>
              /\ t.digit \in 0 .. Base - 1
              /\ Unsigned2(t.ud[1], t.ud[2]) * Base + t.digit = Unsigned2(h, l)
      BY <1>1, SharpStepExact
    <3>2. r = SharpStep(h, l)
      BY <1>2, <2>1
    <3> QED BY ONLY <3>1, <3>2
  <2> QED BY <2>1, <2>2
<1>4. NumberBuf' = <<d>> \o NumberBuf /\ stack' = <<a, b>> \o Drop(stack, 2)
  BY <1>2, <1>3 DEF Sharp
<1>5. Base \in Nat \ {0}
  BY <1>1, BaseNat
<1>6. d \in Int /\ ~(d < 0) /\ <<d>> \in Seq(Int)
  BY <1>5
<1>7. stack' \in Seq(Cells) /\ stack'[1] = a /\ stack'[2] = b
  <2>1. Drop(stack, 2) \in Seq(Cells)
    BY <1>1 DEF Drop
  <2>2. <<a, b>> \in Seq(Cells)
    OBVIOUS
  <2> QED BY <1>4, <2>1, <2>2, ConcatProperties, OnTop
<1>8. NumberBuf' \in Seq(Int)
  BY <1>1, <1>4, <1>6, ConcatProperties
<1>9. PICK v \in Nat : v = Unsigned2(a, b)
  BY Unsigned2Nat
<1>10. Reads(Base, v, <<d>> \o NumberBuf) = Reads(Base, Reads(Base, v, <<d>>), NumberBuf)
  <2>1. PICK s \in Seq(Int), t \in Seq(Int) : s = <<d>> /\ t = NumberBuf
    BY <1>1, <1>6
  <2>2. PICK base \in Nat : base = Base
    BY <1>5
  <2>3. Reads(base, v, s \o t) = Reads(base, Reads(base, v, s), t)
    BY ReadsJoined
  <2> QED BY <2>1, <2>2, <2>3
<1>11. Reads(Base, v, <<d>>) = v * Base + d
  BY ONLY <1>5, <1>6, <1>9, ReadsOne
<1>12. Reads(Base, Unsigned2(stack[1], stack[2]), NumberBuf) = Unsigned2(before[1], before[2])
  BY <1>1 DEF ConvInv, DigitsKeepNumber
<1>13. Reads(Base, v, NumberBuf') = Unsigned2(before[1], before[2])
  BY <1>3, <1>4, <1>9, <1>10, <1>11, <1>12
<1>14. DigitsKeepNumber'
  BY <1>1, <1>7, <1>9, <1>13 DEF DigitsKeepNumber
<1> QED BY <1>1, <1>7, <1>8, <1>14 DEF ConvInv

(* HOLD and SIGN write no digit. *)
LEMMA HoldKeeps == NumInv /\ ConvInv /\ Hold => ConvInv'
<1> SUFFICES ASSUME NumInv, ConvInv, Hold PROVE ConvInv'
  OBVIOUS
<1>1. /\ op \in {"<#", "#"} /\ op' = op /\ NumberBuf \in Seq(Int) /\ before' = before
      /\ stack' = stack
      /\ stack \in Seq(Cells) /\ stack[1] \in Cells /\ stack[2] \in Cells
      /\ Base' = Base /\ Base \in Bases
  BY DEF Hold, ConvInv, NumInv
<1>2. PICK c \in {Minus, Held} : NumberBuf' = <<c>> \o NumberBuf
  BY DEF Hold
<1>3. c \in Int /\ c < 0 /\ <<c>> \in Seq(Int)
  BY DEF Minus, Held
<1>4. Base \in Nat
  BY <1>1, BaseNat
<1>5. NumberBuf' \in Seq(Int)
  BY <1>1, <1>2, <1>3, ConcatProperties
<1>6. PICK v \in Nat : v = Unsigned2(stack[1], stack[2])
  BY <1>1, Unsigned2Nat
<1>7. Reads(Base, v, <<c>> \o NumberBuf) = Reads(Base, Reads(Base, v, <<c>>), NumberBuf)
  BY ONLY <1>1, <1>3, <1>4, <1>6, ReadsJoined
<1>8. Reads(Base, v, <<c>>) = v
  BY ONLY <1>3, <1>4, <1>6, ReadsOne
<1>9. Reads(Base, v, NumberBuf) = Unsigned2(before[1], before[2])
  BY <1>1, <1>6 DEF ConvInv, DigitsKeepNumber
<1>10. DigitsKeepNumber'
  BY <1>1, <1>2, <1>6, <1>7, <1>8, <1>9 DEF DigitsKeepNumber
<1> QED BY <1>1, <1>5, <1>10 DEF ConvInv

(* <# and #>. *)
LEMMA BracketsKeep == NumInv /\ ConvInv /\ (BracketSharp \/ SharpBracket) => ConvInv'
<1> SUFFICES ASSUME NumInv, ConvInv PROVE BracketSharp \/ SharpBracket => ConvInv'
  OBVIOUS
<1>1. ASSUME BracketSharp PROVE ConvInv'
  <2>1. /\ stack \in Stacks /\ before = stack /\ before' = before /\ stack' = stack
        /\ op' = "<#" /\ NumberBuf' = <<>> /\ Base' = Base /\ Base \in Bases
    BY <1>1 DEF BracketSharp, Alone, NumInv
  <2>2. stack \in Seq(Cells)
    BY <2>1, SeqDef DEF Stacks
  <2>3. stack[1] \in Cells /\ stack[2] \in Cells
    BY <2>1, FourCells
  <2>4. Base \in Nat
    BY <2>1, BaseNat
  <2>5. PICK v \in Nat : v = Unsigned2(stack[1], stack[2])
    BY <2>3, Unsigned2Nat
  <2>6. Reads(Base, v, <<>>) = v
    <3>1. PICK s \in Seq(Int) : s = <<>> /\ \A i \in 1 .. Len(s) : s[i] < 0
      <4>1. <<>> \in Seq(Int) /\ Len(<<>>) = 0
        OBVIOUS
      <4>2. 1 .. 0 = {}
        OBVIOUS
      <4> QED BY <4>1, <4>2
    <3>2. Reads(Base, v, s) = v
      BY <2>4, <3>1, ReadsBlank
    <3> QED BY <3>1, <3>2
  <2>7. DigitsKeepNumber'
    BY <2>1, <2>5, <2>6 DEF DigitsKeepNumber
  <2> QED BY <2>1, <2>2, <2>3, <2>7 DEF ConvInv
<1>2. ASSUME SharpBracket PROVE ConvInv'
  <2>1. /\ op = "#" /\ op' = "#>" /\ before' = before /\ NumberBuf' = NumberBuf
        /\ stack[1] = 0 /\ stack[2] = 0 /\ Base' = Base
    BY <1>2 DEF SharpBracket
  <2>2. Unsigned2(stack[1], stack[2]) = 0
    BY <2>1, Width DEF Unsigned2
  <2>3. Reads(Base, 0, NumberBuf) = Unsigned2(before[1], before[2])
    BY <2>1, <2>2 DEF ConvInv, DigitsKeepNumber
  <2>4. DigitsKeepNumber'
    BY <2>1, <2>3 DEF DigitsKeepNumber
  <2> QED BY <2>1, <2>4 DEF ConvInv
<1> QED BY <1>1, <1>2

(* No other word is one of those. *)
LEMMA OthersKeep ==
  NumInv /\ ConvInv /\ Next /\ ~(Sharp \/ Hold \/ BracketSharp \/ SharpBracket) => ConvInv'
<1> SUFFICES ASSUME NumInv, ConvInv, Next, ~(Sharp \/ Hold \/ BracketSharp \/ SharpBracket)
             PROVE  ConvInv'
  OBVIOUS
<1>1. op' \notin {"<#", "#", "#>"}
  <2>1. CASE Computes \/ ToNumber
    BY <2>1 DEF Computes, UMDivision, UTMDivision, UTSDivision, STSDivision, ToNumber,
         FMDivision, SMDivision, Division, Scaling, LongScaling, Product, UProduct, PlusLoop, Word
  <2>2. CASE Dot \/ UDot \/ DotR \/ UDotR \/ DDot \/ UDDot
    BY <2>2 DEF Dot, UDot, DotR, UDotR, DDot, UDDot, Prints
  <2>3. CASE IsInt
    <3>1. op' = "IsInt"
      BY <2>3 DEF IsInt, Typed
    <3> QED BY <3>1
  <2>4. CASE NumberQuery
    <3>1. op' = "NUMBER?"
      BY <2>4 DEF NumberQuery, Typed
    <3> QED BY <3>1
  <2> QED BY <2>1, <2>2, <2>3, <2>4 DEF Next, Computes
<1>2. DigitsKeepNumber'
  BY <1>1 DEF DigitsKeepNumber
<1>3. before' \in Stacks
  BY Kept DEF ConvInv
<1> QED BY <1>1, <1>2, <1>3 DEF ConvInv

(* >NUMBER takes a digit in. *)
LEMMA DigitSteps == NumInv /\ Next => NumberTakesDigit'
<1> SUFFICES ASSUME NumInv, Next PROVE NumberTakesDigit'
  OBVIOUS
<1>1. CASE ToNumber
  <2>1. stack \in Stacks /\ before' = stack /\ Base' = Base /\ Base \in Bases
    BY <1>1 DEF ToNumber, Word, NumInv
  <2>2. PICK h \in Cells, l \in Cells, c \in Cells : h = stack[1] /\ l = stack[2] /\ c = stack[3]
    BY <2>1, FourCells
  <2>3. c \in Nat /\ Base \in Cells
    BY <2>1, CellNat, BaseNat
  <2>4. PICK r : r = Accumulate(h, l, c)
    OBVIOUS
  <2>5. stack' = r.s /\ code' = r.e
    BY <1>1, <2>2, <2>4 DEF ToNumber, Word
  <2>6. PICK n : n = Unsigned2(h, l) * Base
    OBVIOUS
  <2>7. /\ r.e = "none" <=> n < B * B
        /\ n + c < B * B => Unsigned2(r.s[1], r.s[2]) = n + c
    BY <2>3, <2>4, <2>6, AccumulateExact
  <2>8. /\ code' = "none" <=> n < B * B
        /\ n + c < B * B => Unsigned2(stack'[1], stack'[2]) = n + c
    BY <2>5, <2>7
  <2>9. n = Unsigned2(before'[1], before'[2]) * Base' /\ c = before'[3]
    BY <2>1, <2>2, <2>6
  <2> QED BY ONLY <2>8, <2>9 DEF NumberTakesDigit
<1>2. CASE ~ToNumber
  <2>1. op' # ">NUMBER"
    <3>1. CASE Computes
      BY <3>1 DEF Computes, UMDivision, UTMDivision, UTSDivision, STSDivision,
           FMDivision, SMDivision, Division, Scaling, LongScaling, Product, UProduct, PlusLoop, Word
    <3>2. CASE BracketSharp \/ Sharp \/ SharpBracket
      BY <3>2 DEF BracketSharp, Sharp, SharpBracket
    <3>3. CASE Hold
      BY <3>3 DEF Hold
    <3>4. CASE Dot \/ UDot \/ DotR \/ UDotR \/ DDot \/ UDDot
      BY <3>4 DEF Dot, UDot, DotR, UDotR, DDot, UDDot, Prints
    <3>5. CASE IsInt
      BY <3>5 DEF IsInt, Typed
    <3>6. CASE NumberQuery
      BY <3>6 DEF NumberQuery, Typed
    <3> QED BY <1>2, <3>1, <3>2, <3>3, <3>4, <3>5, <3>6 DEF Next, Computes
  <2> QED BY <2>1 DEF NumberTakesDigit
<1> QED BY <1>1, <1>2

(* A number loses nothing on its way to digits or from them, at every      *)
(* width and in every base: with the digits written, what # leaves is the  *)
(* number that <# found, and >NUMBER takes every digit in or says that the *)
(* double overflows.                                                       *)
THEOREM ConversionExactCorrect == Spec => []ConversionExact
<1>1. Init => ConvInv /\ NumberTakesDigit
  BY DEF Init, ConvInv, DigitsKeepNumber, NumberTakesDigit, Stacks
<1>2. NumInv /\ ConvInv /\ [Next]_vars => ConvInv'
  <2>1. ConvInv /\ UNCHANGED vars => ConvInv'
    BY DEF vars, ConvInv, DigitsKeepNumber
  <2> QED BY <2>1, SharpKeeps, HoldKeeps, BracketsKeep, OthersKeep
<1>3. NumInv /\ NumberTakesDigit /\ [Next]_vars => NumberTakesDigit'
  <2>1. NumberTakesDigit /\ UNCHANGED vars => NumberTakesDigit'
    BY DEF vars, NumberTakesDigit
  <2> QED BY <2>1, DigitSteps
<1>4. ConvInv /\ NumberTakesDigit => ConversionExact
  BY DEF ConvInv, ConversionExact
<1> QED BY <1>1, <1>2, <1>3, <1>4, NumInvHolds, PTL DEF Spec

-----------------------------------------------------------------------------
(* What is printed *)

(* Two divisions in a row are one by the product. *)
LEMMA DivDiv ==
  ASSUME NEW a \in Nat, NEW b \in Nat \ {0}, NEW c \in Nat \ {0}
  PROVE  (a \div b) \div c = a \div (b * c)
<1>1. PICK q \in Nat, r \in Nat : q = a \div b /\ a = b * q + r /\ r < b
  BY Divided
<1>2. PICK p \in Nat, t \in Nat : p = q \div c /\ q = c * p + t /\ t < c
  BY Divided
<1>3. PICK bc \in Nat : bc = b * c
  BY TimesNat
<1>4. bc # 0
  <2>1. 1 * c <= b * c
    BY TimesMono
  <2> QED BY <2>1, <1>3
<1>5. a = bc * p + (b * t + r)
  <2>1. b * (c * p + t) = b * (c * p) + b * t
    OBVIOUS
  <2>2. b * (c * p) = (b * c) * p
    OBVIOUS
  <2>3. PICK x \in Nat, y \in Nat : x = bc * p /\ y = b * t
    BY TimesNat
  <2>4. b * q = x + y
    BY ONLY <2>1, <2>2, <2>3, <1>2, <1>3
  <2>5. a = (x + y) + r
    BY ONLY <2>4, <1>1
  <2> QED BY ONLY <2>3, <2>5, x \in Nat, y \in Nat, r \in Nat
<1>6. PICK y \in Nat : y = b * t
  BY TimesNat
<1>7. y + r < bc
  <2>1. (t + 1) * b <= c * b
    BY <1>2, TimesMono
  <2>2. (t + 1) * b = b * t + b /\ c * b = b * c
    OBVIOUS
  <2> QED BY <2>1, <2>2, <1>1, <1>3, <1>6
<1>8. a \div bc = p
  <2>1. PICK z \in Nat : z = y + r
    OBVIOUS
  <2>2. a = bc * p + z /\ 0 <= z /\ z < bc
    BY <2>1, <1>5, <1>6, <1>7
  <2> QED BY <2>2, <1>4, DivUnique
<1> QED BY <1>1, <1>2, <1>3, <1>8

(* The powers of a base. *)
LEMMA Powers ==
  ASSUME NEW b \in Bases
  PROVE  \A n \in 0 .. W : b ^ n \in Nat \ {0}
<1> DEFINE T == {n \in 0 .. W : b ^ n \notin Nat \ {0}}
<1> SUFFICES ASSUME T # {} PROVE FALSE
  OBVIOUS
<1>0. W \in Nat /\ b \in Nat \ {0}
  BY WAssumption, BaseNat
<1>1. T \subseteq Nat
  BY <1>0
<1>2. PICK m \in T : \A k \in T : m <= k
  <2> HIDE DEF T
  <2> QED BY <1>1, MinExists
<1>3. m \in 0 .. W /\ b ^ m \notin Nat \ {0}
  OBVIOUS
<1>4. m # 0
  BY <1>3, PowersAssumption
<1>5. PICK k \in 0 .. W - 1 : m = k + 1
  BY <1>0, <1>3, <1>4
<1>6. b ^ k \in Nat \ {0}
  BY <1>0, <1>2, <1>5
<1> HIDE DEF T
<1>7. b ^ m = b ^ k * b
  BY <1>5, PowersAssumption
<1>8. PICK x \in Nat \ {0} : x = b ^ k
  BY <1>6
<1>9. x * b \in Nat \ {0}
  <2>1. 1 * b <= x * b
    BY <1>0, <1>8, TimesMono
  <2> QED BY <2>1, <1>0, <1>8, TimesNat
<1> QED BY <1>3, <1>7, <1>8, <1>9

(* The digits d are read as u. *)
ReadAs(b, d, u) == d \in Seq(Nat) /\ Len(d) > 0 /\ Reads(b, 0, d) = u

(* U. writes the digits of its cell. *)
LEMMA UDot0Exact ==
  ASSUME NEW u \in Cells, Base \in Bases
  PROVE  ReadAs(Base, UDot0(u), u)
<1>0. Base \in Nat \ {0} /\ u \in Nat /\ u < B /\ W \in Nat /\ B \in Nat
  BY BaseNat, CellNat, WAssumption, Width
<1>1. PICK pow : pow = [n \in 0 .. W |-> Base ^ n]
  OBVIOUS
<1>2. /\ \A n \in 0 .. W : pow[n] = Base ^ n /\ pow[n] \in Nat \ {0}
      /\ pow[0] = 1 /\ pow[W] >= B
      /\ \A n \in 0 .. W - 1 : pow[n + 1] = pow[n] * Base
  <2>1. \A n \in 0 .. W : pow[n] = Base ^ n /\ pow[n] \in Nat \ {0}
    BY <1>1, Powers
  <2>2. 0 \in 0 .. W /\ W \in 0 .. W /\ \A n \in 0 .. W - 1 : n \in 0 .. W /\ n + 1 \in 0 .. W
    BY <1>0
  <2> QED BY <2>1, <2>2, PowersAssumption
<1> DEFINE T == {n \in 1 .. W : u \div pow[n] = 0}
<1>3. W \in T
  <2>1. W \in 1 .. W /\ W \in 0 .. W
    BY WAssumption
  <2>2. PICK x \in Nat \ {0} : x = pow[W]
    BY <2>1, <1>2
  <2>3. u = x * 0 + u /\ u < x
    BY <2>2, <1>0, <1>2
  <2>4. u \div x = 0
    BY <2>3, <1>0, DivUnique
  <2> QED BY <2>1, <2>2, <2>4
<1>4. PICK m \in T : \A k \in T : m <= k
  <2>1. T \subseteq Nat
    BY <1>0
  <2> HIDE DEF T
  <2> QED BY <2>1, <1>3, MinExists
<1>5. \E n \in 1 .. W : u \div Base ^ n = 0 /\ (n > 1 => u \div Base ^ (n - 1) # 0)
  <2>1. m \in 1 .. W /\ m \in 0 .. W /\ u \div pow[m] = 0
    BY <1>4, <1>0
  <2>2. ASSUME m > 1 PROVE u \div Base ^ (m - 1) # 0
    <3>1. m - 1 \in 1 .. W /\ m - 1 \in 0 .. W /\ ~(m <= m - 1)
      BY <2>1, <2>2, <1>0
    <3>2. u \div pow[m - 1] # 0
      BY <3>1, <1>4
    <3> QED BY <3>1, <3>2, <1>2
  <2>3. u \div Base ^ m = 0
    BY <2>1, <1>2
  <2> QED BY <2>1, <2>2, <2>3
<1> HIDE DEF T
<1>6. PICK n \in 1 .. W : n = Count(u) /\ u \div Base ^ n = 0
  BY <1>5 DEF Count
<1>7. PICK d : d = UDot0(u)
  OBVIOUS
<1>8. \A i \in 1 .. n : n - i \in 0 .. W - 1 /\ n - (i - 1) = (n - i) + 1
  BY <1>0
<1>9. d = [i \in 1 .. n |-> (u \div Base ^ (n - i)) % Base]
  BY <1>6, <1>7 DEF UDot0
<1>10. PICK f : f = [i \in 0 .. n |-> u \div pow[n - i]]
  OBVIOUS
<1>11. \A i \in 0 .. n : n - i \in 0 .. W /\ f[i] = u \div pow[n - i] /\ f[i] \in Nat
  <2> TAKE i \in 0 .. n
  <2>1. n - i \in 0 .. W
    BY <1>0
  <2>2. PICK x \in Nat \ {0} : x = pow[n - i]
    BY <2>1, <1>2
  <2>3. u \div x \in Nat
    BY <2>2, <1>0, DivNat
  <2> QED BY <2>1, <2>2, <2>3, <1>10
<1>12. \A i \in 1 .. n : d[i] \in Nat /\ f[i] = f[i - 1] * Base + d[i]
  <2> TAKE i \in 1 .. n
  <2>1. i - 1 \in 0 .. n /\ i \in 0 .. n /\ n - i \in 0 .. W /\ n - i \in 0 .. W - 1
    BY <1>0, <1>8
  <2>2. PICK x \in Nat \ {0} : x = pow[n - i]
    BY <2>1, <1>2
  <2>3. pow[n - (i - 1)] = x * Base
    BY <2>1, <2>2, <1>2, <1>8
  <2>4. PICK q \in Nat : q = u \div x
    BY <2>2, <1>0, DivNat
  <2>5. f[i] = q
    BY <2>1, <2>2, <2>4, <1>11
  <2>6. f[i - 1] = q \div Base
    <3>1. f[i - 1] = u \div pow[n - (i - 1)]
      BY ONLY <2>1, <1>11
    <3>2. (u \div x) \div Base = u \div (x * Base)
      BY <1>0, DivDiv
    <3> QED BY ONLY <3>1, <3>2, <2>3, <2>4
  <2>7. d[i] = q % Base
    BY <2>1, <2>2, <2>4, <1>2, <1>9
  <2>8. PICK p \in Nat, r \in Nat : p = q \div Base /\ r = q % Base /\ q = Base * p + r
    BY <1>0, Divided
  <2>9. Base * p = p * Base
    BY <1>0
  <2> QED BY <2>5, <2>6, <2>7, <2>8, <2>9
<1>13. d \in Seq(Nat) /\ Len(d) = n
  <2>1. d \in [1 .. n -> Nat]
    BY <1>9, <1>12
  <2>2. d \in Seq(Nat)
    BY <2>1, SeqDef
  <2> QED BY <2>1, <2>2, LenProperties
<1>14. Reading(f, Base, 0, d)
  <2>1. f \in [0 .. n -> Nat]
    BY <1>10, <1>11
  <2>2. f[0] = 0
    <3>1. 0 \in 0 .. n /\ n \in 0 .. W /\ n - 0 = n
      BY <1>0
    <3> QED BY <3>1, <1>2, <1>6, <1>11
  <2>3. \A i \in 1 .. n : f[i] = IF d[i] < 0 THEN f[i - 1] ELSE f[i - 1] * Base + d[i]
    <3> TAKE i \in 1 .. n
    <3>1. ~(d[i] < 0)
      BY <1>12
    <3> QED BY <3>1, <1>12
  <2> QED BY <2>1, <2>2, <2>3, <1>13 DEF Reading
<1>15. f[n] = u
  <2>1. n \in 0 .. n /\ n - n = 0
    BY <1>0
  <2>2. u = 1 * u + 0
    BY <1>0
  <2>3. u \div 1 = u
    BY <2>2, <1>0, DivUnique
  <2> QED BY <2>1, <2>3, <1>2, <1>11
<1>16. Reads(Base, 0, d) = u
  <2>1. d \in Seq(Int)
    BY <1>13
  <2> QED BY <2>1, <1>0, <1>13, <1>14, <1>15, ReadsAny
<1> QED BY <1>7, <1>13, <1>16 DEF ReadAs

(* A double is less than the square of B, and zero when its cells are. *)
LEMMA Unsigned2Less ==
  ASSUME NEW h \in Cells, NEW l \in Cells
  PROVE  /\ Unsigned2(h, l) \in Nat /\ Unsigned2(h, l) < B * B
         /\ Unsigned2(h, l) = 0 => h = 0 /\ l = 0
<1>0. B \in Nat \ {0} /\ h \in Nat /\ h < B /\ l \in Nat /\ l < B
  BY Width, CellNat
<1>1. h < B <=> h * B + l < B * B
  BY <1>0, HighDecides
<1>2. PICK hb \in Nat : hb = h * B
  BY <1>0, TimesNat
<1>3. ASSUME hb + l = 0 PROVE h = 0 /\ l = 0
  <2>1. hb = 0 /\ l = 0
    BY <1>0, <1>3
  <2>2. ASSUME h # 0 PROVE FALSE
    <3>1. 1 * B <= h * B
      BY <1>0, <2>2, TimesMono
    <3> QED BY <3>1, <2>1, <1>0, <1>2
  <2> QED BY <2>1, <2>2
<1> QED BY <1>0, <1>1, <1>2, <1>3, TimesNat DEF Unsigned2

(* One step of #S, as a function of what is left. *)
LeftStep(n) == [p \in (Cells \X Cells) \X (1 .. n) |-> SharpStep(p[1][1], p[1][2]).ud]

(* #S writes the digits of its double. *)
LEMMA SharpSExact ==
  ASSUME NEW h \in Cells, NEW l \in Cells, Base \in Bases
  PROVE  ReadAs(Base, SharpS(<<h, l>>), Unsigned2(h, l))
<1>0. Base \in Nat \ {0} /\ Base >= 2 /\ B \in Nat \ {0} /\ B >= 4
  BY BaseNat, Width
<1>1. PICK ud \in Cells \X Cells : ud = <<h, l>>
  OBVIOUS
<1>2. PICK m \in Nat \ {0} : m = B * B
  <2>1. 1 * B <= B * B
    BY <1>0, TimesMono
  <2> QED BY <2>1, <1>0, TimesNat
<1>3. PICK u \in Nat : u = Unsigned2(h, l) /\ u < m
  BY <1>2, Unsigned2Less
<1>4. PICK step : step = LeftStep(m)
  OBVIOUS
<1>5. ASSUME NEW x \in Cells \X Cells
      PROVE  /\ SharpStep(x[1], x[2]).ud \in Cells \X Cells
             /\ SharpStep(x[1], x[2]).digit \in 0 .. Base - 1
             /\ Unsigned2(SharpStep(x[1], x[2]).ud[1], SharpStep(x[1], x[2]).ud[2]) * Base
                  + SharpStep(x[1], x[2]).digit = Unsigned2(x[1], x[2])
  <2>1. PICK a \in Cells, b \in Cells : a = x[1] /\ b = x[2]
    OBVIOUS
  <2>2. LET t == SharpStep(a, b)
        IN  /\ \E c, d \in Cells : t.ud = <<c, d>>
            /\ t.digit \in 0 .. Base - 1
            /\ Unsigned2(t.ud[1], t.ud[2]) * Base + t.digit = Unsigned2(a, b)
    BY SharpStepExact
  <2> QED BY <2>1, <2>2
<1>6. step \in [(Cells \X Cells) \X (1 .. m) -> Cells \X Cells]
  <2>1. \A p \in (Cells \X Cells) \X (1 .. m) : p[1] \in Cells \X Cells
    OBVIOUS
  <2>2. \A p \in (Cells \X Cells) \X (1 .. m) :
           SharpStep(p[1][1], p[1][2]).ud \in Cells \X Cells
    BY <2>1, <1>5
  <2> QED BY <1>4, <2>2 DEF LeftStep
<1>7. \A x \in Cells \X Cells, i \in 1 .. m : step[<<x, i>>] = SharpStep(x[1], x[2]).ud
  BY <1>4 DEF LeftStep
<1>8. PICK f \in [0 .. m -> Cells \X Cells] : Iterates(f, ud, step, m)
  BY <1>6, IteratesExists
<1>9. \A i \in 1 .. m : f[i] = SharpStep(f[i - 1][1], f[i - 1][2]).ud
  <2> TAKE i \in 1 .. m
  <2>1. i - 1 \in 0 .. m /\ f[i - 1] \in Cells \X Cells
    OBVIOUS
  <2>2. f[i] = step[<<f[i - 1], i>>]
    BY <1>8 DEF Iterates
  <2> QED BY <1>7, <2>1, <2>2
<1> DEFINE Fun(q) == q = [i \in 0 .. B * B |->
                       IF i = 0 THEN ud ELSE SharpStep(q[i - 1][1], q[i - 1][2]).ud]
<1>10. Fun(f)
  <2>1. \A i \in 0 .. m : f[i] =
          IF i = 0 THEN ud ELSE SharpStep(f[i - 1][1], f[i - 1][2]).ud
    <3> TAKE i \in 0 .. m
    <3>1. CASE i = 0
      BY <3>1, <1>8 DEF Iterates
    <3>2. CASE i # 0
      <4>1. i \in 1 .. m
        BY <3>2
      <4> QED BY <4>1, <3>2, <1>9
    <3> QED BY <3>1, <3>2
  <2>2. f = [i \in 0 .. m |-> f[i]]
    OBVIOUS
  <2>3. f = [i \in 0 .. m |->
              IF i = 0 THEN ud ELSE SharpStep(f[i - 1][1], f[i - 1][2]).ud]
    BY <2>1, <2>2
  <2> QED BY <2>3, <1>2
<1> DEFINE q == CHOOSE q : Fun(q)
<1>11. Fun(q)
  BY <1>10
<1> DEFINE Least(n) == q[n] = <<0, 0>> /\ \A i \in 1 .. n - 1 : q[i] # <<0, 0>>
           c == CHOOSE n \in 1 .. B * B : Least(n)
<1>12. SharpS(ud) = [i \in 1 .. c |-> SharpStep(q[c - i][1], q[c - i][2]).digit]
  BY DEF SharpS
<1> HIDE DEF q
<1>13. \A i \in 0 .. m : q[i] = IF i = 0 THEN ud ELSE SharpStep(q[i - 1][1], q[i - 1][2]).ud
  BY <1>11, <1>2
<1>14. \A i \in 0 .. m : q[i] = f[i]
  <2> DEFINE T == {i \in 0 .. m : q[i] # f[i]}
  <2> SUFFICES ASSUME T # {} PROVE FALSE
    OBVIOUS
  <2>1. T \subseteq Nat
    OBVIOUS
  <2>2. PICK k \in T : \A j \in T : k <= j
    <3> HIDE DEF T
    <3> QED BY <2>1, MinExists
  <2>3. k \in 0 .. m /\ q[k] # f[k]
    OBVIOUS
  <2>4. k # 0
    BY <2>3, <1>8, <1>13 DEF Iterates
  <2>5. k - 1 \in 0 .. m /\ ~(k <= k - 1) /\ k \in 1 .. m
    BY <2>3, <2>4
  <2>6. q[k - 1] = f[k - 1]
    BY <2>2, <2>5
  <2> HIDE DEF T
  <2> QED BY <2>3, <2>4, <2>5, <2>6, <1>9, <1>13
<1>15. PICK v : v = [i \in 0 .. m |-> Unsigned2(q[i][1], q[i][2])]
  OBVIOUS
<1>16. \A i \in 0 .. m : /\ q[i] \in Cells \X Cells /\ v[i] \in Nat
                         /\ v[i] = Unsigned2(q[i][1], q[i][2])
                         /\ v[i] = 0 <=> q[i] = <<0, 0>>
  <2> TAKE i \in 0 .. m
  <2>1. PICK a \in Cells, b \in Cells : q[i] = <<a, b>>
    BY <1>14
  <2>2. v[i] = Unsigned2(a, b)
    BY <2>1, <1>15
  <2>3. Unsigned2(0, 0) = 0
    BY <1>0 DEF Unsigned2
  <2>4. v[i] \in Nat /\ (v[i] = 0 => a = 0 /\ b = 0)
    BY <2>2, Unsigned2Less
  <2>5. a = 0 /\ b = 0 => v[i] = 0
    BY <2>2, <2>3
  <2>6. q[i] = <<0, 0>> <=> a = 0 /\ b = 0
    BY <2>1
  <2>7. q[i] \in Cells \X Cells /\ v[i] = Unsigned2(q[i][1], q[i][2])
    BY <2>1, <2>2
  <2> QED BY ONLY <2>4, <2>5, <2>6, <2>7
<1>17. \A i \in 1 .. m :
         /\ SharpStep(q[i - 1][1], q[i - 1][2]).digit \in 0 .. Base - 1
         /\ v[i - 1] = v[i] * Base + SharpStep(q[i - 1][1], q[i - 1][2]).digit
  <2> TAKE i \in 1 .. m
  <2>1. i - 1 \in 0 .. m /\ i \in 0 .. m /\ i # 0
    OBVIOUS
  <2>2. PICK x \in Cells \X Cells : x = q[i - 1]
    BY <2>1, <1>16
  <2>3. q[i] = SharpStep(x[1], x[2]).ud
    BY <2>1, <2>2, <1>13
  <2>4. /\ SharpStep(x[1], x[2]).digit \in 0 .. Base - 1
        /\ Unsigned2(SharpStep(x[1], x[2]).ud[1], SharpStep(x[1], x[2]).ud[2]) * Base
             + SharpStep(x[1], x[2]).digit = Unsigned2(x[1], x[2])
    BY <1>5
  <2>5. v[i] = Unsigned2(q[i][1], q[i][2]) /\ v[i - 1] = Unsigned2(x[1], x[2])
    BY <2>1, <2>2, <1>16
  <2> QED BY ONLY <2>2, <2>3, <2>4, <2>5
<1>18. v[0] = u
  <2>1. 0 \in 0 .. m
    OBVIOUS
  <2> QED BY <2>1, <1>1, <1>3, <1>13, <1>15
<1> DEFINE Z == {n \in 1 .. m : q[n] = <<0, 0>>}
<1>19. m \in Z
  <2> DEFINE T == {i \in 0 .. m : ~(v[i] = 0 \/ v[i] + i <= u)}
  <2>1. T = {}
    <3> SUFFICES ASSUME T # {} PROVE FALSE
      OBVIOUS
    <3>1. T \subseteq Nat
      OBVIOUS
    <3>2. PICK k \in T : \A j \in T : k <= j
      <4> HIDE DEF T
      <4> QED BY <3>1, MinExists
    <3>3. k \in 0 .. m /\ ~(v[k] = 0 \/ v[k] + k <= u)
      OBVIOUS
    <3>4. k # 0
      BY <3>3, <1>18
    <3>5. k - 1 \in 0 .. m /\ ~(k <= k - 1) /\ k \in 1 .. m
      BY <3>3, <3>4
    <3>6. v[k - 1] = 0 \/ v[k - 1] + (k - 1) <= u
      BY <3>2, <3>5
    <3> HIDE DEF T
    <3>7. PICK d \in Nat : v[k - 1] = v[k] * Base + d
      <4>1. PICK d : d = SharpStep(q[k - 1][1], q[k - 1][2]).digit
        OBVIOUS
      <4>2. d \in 0 .. Base - 1 /\ v[k - 1] = v[k] * Base + d
        BY ONLY <4>1, <3>5, <1>17
      <4>3. d \in Nat
        BY ONLY <4>2, <1>0
      <4> QED BY <4>2, <4>3
    <3>8. PICK x \in Nat, y \in Nat : x = v[k] /\ y = v[k - 1]
      BY <3>3, <3>5, <1>16
    <3>9. x # 0
      BY <3>3, <3>8
    <3>10. PICK xb \in Nat : xb = x * Base
      BY <1>0, <3>8, TimesNat
    <3>11. 2 * x <= xb
      <4>1. 2 * x <= Base * x
        BY <1>0, <3>8, TimesMono
      <4>2. Base * x = x * Base
        BY <1>0, <3>8
      <4> QED BY <4>1, <4>2, <3>10
    <3>12. y = xb + d /\ y > x
      BY <3>7, <3>8, <3>9, <3>10, <3>11
    <3> QED BY <3>3, <3>5, <3>6, <3>8, <3>12
  <2>2. m \in 0 .. m /\ m \in 1 .. m
    OBVIOUS
  <2>3. v[m] = 0 \/ v[m] + m <= u
    BY <2>1, <2>2
  <2>4. v[m] = 0
    BY <2>2, <2>3, <1>3, <1>16
  <2> QED BY <2>2, <2>4, <1>16
<1>20. PICK z \in Z : \A j \in Z : z <= j
  <2>1. Z \subseteq Nat
    OBVIOUS
  <2> HIDE DEF Z
  <2> QED BY <2>1, <1>19, MinExists
<1>21. \E n \in 1 .. B * B : Least(n)
  <2>1. z \in 1 .. m /\ q[z] = <<0, 0>>
    OBVIOUS
  <2>2. ASSUME NEW i \in 1 .. z - 1 PROVE q[i] # <<0, 0>>
    <3>1. i \in 1 .. m /\ ~(z <= i)
      BY <2>1
    <3> QED BY <3>1, <1>20
  <2> QED BY <2>1, <2>2, <1>2
<1> HIDE DEF Z
<1>22. c \in 1 .. m /\ q[c] = <<0, 0>>
  BY <1>21, <1>2
<1> HIDE DEF c
<1>23. PICK d : d = [i \in 1 .. c |-> SharpStep(q[c - i][1], q[c - i][2]).digit]
  OBVIOUS
<1>24. PICK g : g = [i \in 0 .. c |-> v[c - i]]
  OBVIOUS
<1>25. \A i \in 0 .. c : c - i \in 0 .. m /\ g[i] = v[c - i] /\ g[i] \in Nat
  BY <1>16, <1>22, <1>24
<1>26. \A i \in 1 .. c : d[i] \in Nat /\ g[i] = g[i - 1] * Base + d[i]
  <2> TAKE i \in 1 .. c
  <2>1. PICK j \in 1 .. m : j = c - i + 1
    BY <1>22
  <2>2. j - 1 = c - i /\ i \in 0 .. c /\ i - 1 \in 0 .. c /\ c - (i - 1) = j
    BY <1>22, <2>1
  <2>3. d[i] = SharpStep(q[j - 1][1], q[j - 1][2]).digit
    BY <2>2, <1>23
  <2>4. g[i] = v[j - 1] /\ g[i - 1] = v[j]
    BY <2>2, <1>25
  <2>5. /\ SharpStep(q[j - 1][1], q[j - 1][2]).digit \in 0 .. Base - 1
        /\ v[j - 1] = v[j] * Base + SharpStep(q[j - 1][1], q[j - 1][2]).digit
    BY <1>17
  <2> QED BY ONLY <2>3, <2>4, <2>5, <1>0
<1>27. d \in Seq(Nat) /\ Len(d) = c
  <2>1. d \in [1 .. c -> Nat]
    BY <1>23, <1>26
  <2>2. d \in Seq(Nat)
    BY <2>1, <1>22, SeqDef
  <2> QED BY <2>1, <2>2, <1>22, LenProperties
<1>28. Reading(g, Base, 0, d)
  <2>1. g \in [0 .. c -> Nat]
    BY <1>24, <1>25
  <2>2. g[0] = 0
    <3>1. 0 \in 0 .. c /\ c - 0 = c /\ c \in 0 .. m
      BY <1>22
    <3> QED BY <3>1, <1>16, <1>22, <1>25
  <2>3. \A i \in 1 .. c : g[i] = IF d[i] < 0 THEN g[i - 1] ELSE g[i - 1] * Base + d[i]
    <3> TAKE i \in 1 .. c
    <3>1. ~(d[i] < 0)
      BY <1>26
    <3> QED BY <3>1, <1>26
  <2> QED BY <2>1, <2>2, <2>3, <1>27 DEF Reading
<1>29. g[c] = u
  <2>1. c \in 0 .. c /\ c - c = 0
    BY <1>22
  <2> QED BY <2>1, <1>18, <1>25
<1>30. Reads(Base, 0, d) = u
  <2>1. d \in Seq(Int)
    BY <1>27
  <2> QED BY <2>1, <1>0, <1>27, <1>28, <1>29, ReadsAny
<1>31. d = SharpS(<<h, l>>)
  BY <1>1, <1>12, <1>23
<1> QED BY <1>3, <1>22, <1>27, <1>30, <1>31 DEF ReadAs

(* >NUMBER takes in what Reads() reads, when the double holds it. *)
LEMMA TakenExact ==
  ASSUME NEW s \in Seq(Int), Base \in Bases, Reads(Base, 0, s) < B * B
  PROVE  Taken(s) = Leaves(Cells2(Reads(Base, 0, s)))
<1>0. Base \in Nat \ {0} /\ Base \in Cells /\ B \in Nat \ {0}
  BY BaseNat, Width
<1>1. PICK n \in Nat : n = Len(s)
  BY LenProperties
<1>2. PICK f : Reading(f, Base, 0, s) /\ Reads(Base, 0, s) = f[n]
  BY <1>0, <1>1, ReadsIs
<1>3. /\ f \in [0 .. n -> Nat] /\ f[0] = 0
      /\ \A i \in 1 .. n : f[i] = IF s[i] < 0 THEN f[i - 1] ELSE f[i - 1] * Base + s[i]
  BY <1>1, <1>2 DEF Reading
<1>4. PICK m \in Nat : m = B * B
  BY <1>0, TimesNat
<1>5. \A i \in 1 .. n : s[i] \in Int
  BY <1>1, ElementOfSeq
<1>6. \A i \in 1 .. n : /\ f[i - 1] \in Nat /\ f[i - 1] <= f[i]
                        /\ s[i] >= 0 => f[i - 1] * Base <= f[i]
  <2> TAKE i \in 1 .. n
  <2>1. PICK x \in Nat, y \in Nat, c \in Int : x = f[i - 1] /\ y = f[i] /\ c = s[i]
    <3>1. i - 1 \in 0 .. n /\ i \in 0 .. n
      OBVIOUS
    <3> QED BY <3>1, <1>3, <1>5
  <2>2. y = IF c < 0 THEN x ELSE x * Base + c
    BY <2>1, <1>3
  <2>3. PICK p \in Nat : p = x * Base
    BY <1>0, TimesNat
  <2>4. x <= p
    <3>1. 1 * x <= Base * x
      BY <1>0, TimesMono
    <3>2. Base * x = x * Base
      BY <1>0
    <3> QED BY <3>1, <3>2, <2>3
  <2> QED BY <2>1, <2>2, <2>3, <2>4
<1>7. \A i \in 0 .. n : f[i] < m
  <2> DEFINE T == {j \in 0 .. n : ~(f[n - j] < m)}
  <2> SUFFICES ASSUME T # {} PROVE FALSE
    <3>1. ASSUME T = {}, NEW i \in 0 .. n PROVE f[i] < m
      <4>1. n - i \in 0 .. n /\ n - (n - i) = i
        OBVIOUS
      <4> QED BY <3>1, <4>1
    <3> QED BY <3>1
  <2>1. T \subseteq Nat
    OBVIOUS
  <2>2. PICK k \in T : \A j \in T : k <= j
    <3> HIDE DEF T
    <3> QED BY <2>1, MinExists
  <2>3. k \in 0 .. n /\ ~(f[n - k] < m)
    OBVIOUS
  <2>4. k # 0
    <3>1. n - 0 = n /\ f[n] < m
      BY <1>2, <1>4
    <3> QED BY <2>3, <3>1
  <2>5. k - 1 \in 0 .. n /\ ~(k <= k - 1) /\ n - k + 1 \in 1 .. n
        /\ (n - k + 1) - 1 = n - k /\ n - (k - 1) = n - k + 1
    BY <2>3, <2>4
  <2>6. f[n - k + 1] < m
    BY <2>2, <2>5
  <2> HIDE DEF T
  <2>7. PICK i \in 1 .. n : i = n - k + 1
    BY <2>5
  <2>8. PICK x \in Nat, y \in Nat : x = f[i - 1] /\ y = f[i]
    <3>1. i \in 0 .. n
      OBVIOUS
    <3> QED BY <3>1, <1>3, <1>6
  <2>9. x <= y /\ y < m /\ ~(x < m)
    BY <2>3, <2>5, <2>6, <2>7, <2>8, <1>6
  <2> QED BY <2>9
<1>8. PICK g : g = [i \in 0 .. n |-> Leaves(Cells2(f[i]))]
  OBVIOUS
<1>9. \A i \in 0 .. n : g[i] = Leaves(Cells2(f[i])) /\ g[i].e = "none" /\ g[i].s = Cells2(f[i])
  BY <1>8 DEF Leaves
<1>10. g[0] = Leaves(<<0, 0>>)
  <2>1. Cells2(0) = <<0, 0>>
    <3>1. 0 = B * 0 + 0
      BY <1>0
    <3>2. 0 \div B = 0 /\ 0 % B = 0
      BY <3>1, <1>0, DivUnique
    <3> QED BY <3>2 DEF Cells2, Cell
  <2>2. 0 \in 0 .. n
    OBVIOUS
  <2> QED BY <2>1, <2>2, <1>3, <1>9
<1>11. \A i \in 1 .. n :
          g[i] = IF s[i] < 0 \/ g[i - 1].e # "none" THEN g[i - 1]
                 ELSE Accumulate(g[i - 1].s[1], g[i - 1].s[2], s[i])
  <2> TAKE i \in 1 .. n
  <2>1. i - 1 \in 0 .. n /\ i \in 0 .. n
    OBVIOUS
  <2>2. PICK x \in Nat, y \in Nat, c \in Int : x = f[i - 1] /\ y = f[i] /\ c = s[i]
    BY <2>1, <1>3, <1>5
  <2>3. /\ g[i - 1] = Leaves(Cells2(x)) /\ g[i - 1].e = "none" /\ g[i - 1].s = Cells2(x)
        /\ g[i] = Leaves(Cells2(y))
    BY <2>1, <2>2, <1>9
  <2>4. y = IF c < 0 THEN x ELSE x * Base + c
    BY <2>2, <1>3
  <2>5. CASE c < 0
    BY <2>2, <2>3, <2>4, <2>5
  <2>6. CASE ~(c < 0)
    <3>1. x < B * B /\ x * Base < B * B
      <4>1. PICK p \in Nat : p = x * Base
        BY <1>0, TimesNat
      <4>2. x < m /\ y < m /\ p <= y
        BY <2>1, <2>2, <2>6, <4>1, <1>6, <1>7
      <4> QED BY <4>1, <4>2, <1>4
    <3>2. PICK a \in Cells, b \in Cells : Cells2(x) = <<a, b>> /\ x = a * B + b
      BY <3>1, TwoCells
    <3>3. Unsigned2(a, b) * Base < B * B /\ Unsigned2(a, b) * Base + c = y
      BY <2>4, <2>6, <3>1, <3>2 DEF Unsigned2
    <3>4. c \in Nat
      BY <2>6
    <3>5. Accumulate(a, b, c) = Leaves(Cells2(Unsigned2(a, b) * Base + c))
      BY <3>3, <3>4, <1>0, AccumulateExact
    <3>6. g[i - 1].s[1] = a /\ g[i - 1].s[2] = b
      BY <2>3, <3>2
    <3> QED BY <2>2, <2>3, <2>6, <3>3, <3>5, <3>6
  <2> QED BY <2>5, <2>6
<1> DEFINE Fun(r) == r = [i \in 0 .. Len(s) |->
                       IF i = 0 THEN Leaves(<<0, 0>>)
                       ELSE IF s[i] < 0 \/ r[i - 1].e # "none" THEN r[i - 1]
                       ELSE Accumulate(r[i - 1].s[1], r[i - 1].s[2], s[i])]
<1>12. Fun(g)
  <2>1. \A i \in 0 .. n : g[i] =
          IF i = 0 THEN Leaves(<<0, 0>>)
          ELSE IF s[i] < 0 \/ g[i - 1].e # "none" THEN g[i - 1]
          ELSE Accumulate(g[i - 1].s[1], g[i - 1].s[2], s[i])
    <3> TAKE i \in 0 .. n
    <3>1. CASE i = 0
      BY <3>1, <1>10
    <3>2. CASE i # 0
      <4>1. i \in 1 .. n
        BY <3>2
      <4> QED BY <4>1, <3>2, <1>11
    <3> QED BY <3>1, <3>2
  <2>2. g = [i \in 0 .. n |-> g[i]]
    BY <1>8
  <2>3. g = [i \in 0 .. n |->
          IF i = 0 THEN Leaves(<<0, 0>>)
          ELSE IF s[i] < 0 \/ g[i - 1].e # "none" THEN g[i - 1]
          ELSE Accumulate(g[i - 1].s[1], g[i - 1].s[2], s[i])]
    BY <2>1, <2>2
  <2> QED BY <2>3, <1>1
<1> DEFINE r == CHOOSE r : Fun(r)
<1>13. Fun(r)
  BY <1>12
<1>14. Taken(s) = r[n]
  BY <1>1 DEF Taken
<1> HIDE DEF r
<1>15. \A i \in 0 .. n : r[i] =
          IF i = 0 THEN Leaves(<<0, 0>>)
          ELSE IF s[i] < 0 \/ r[i - 1].e # "none" THEN r[i - 1]
          ELSE Accumulate(r[i - 1].s[1], r[i - 1].s[2], s[i])
  BY <1>13, <1>1
<1>16. r[n] = g[n]
  <2> DEFINE T == {i \in 0 .. n : r[i] # g[i]}
  <2>1. T = {}
    <3> SUFFICES ASSUME T # {} PROVE FALSE
      OBVIOUS
    <3>1. T \subseteq Nat
      OBVIOUS
    <3>2. PICK k \in T : \A j \in T : k <= j
      <4> HIDE DEF T
      <4> QED BY <3>1, MinExists
    <3>3. k \in 0 .. n /\ r[k] # g[k]
      OBVIOUS
    <3>4. k # 0
      BY <3>3, <1>10, <1>15
    <3>5. k - 1 \in 0 .. n /\ ~(k <= k - 1) /\ k \in 1 .. n
      BY <3>3, <3>4
    <3>6. r[k - 1] = g[k - 1]
      BY <3>2, <3>5
    <3> HIDE DEF T
    <3> QED BY <3>3, <3>4, <3>5, <3>6, <1>11, <1>15
  <2>2. n \in 0 .. n
    OBVIOUS
  <2> QED BY <2>1, <2>2
<1>17. g[n] = Leaves(Cells2(f[n]))
  BY <1>9
<1> QED BY <1>2, <1>14, <1>16, <1>17

(* Negated twice, a negative double is the same. *)
LEMMA DNegateTwice ==
  ASSUME NEW h \in Cells, NEW l \in Cells, Signed(h) < 0
  PROVE  \E a, b \in Cells : DNegate(h, l) = <<a, b>> /\ DNegate(a, b) = <<h, l>>
<1>0. B \in Nat \ {0} /\ h \in Nat /\ l \in Nat /\ l < B
  BY Width, CellNat
<1>1. PICK m \in Nat : m = B * B
  BY <1>0, TimesNat
<1>2. PICK u \in Nat : u = Unsigned2(h, l) /\ u < m /\ u # 0
  <2>1. h # 0
    BY SignedZero
  <2> QED BY <2>1, <1>1, Unsigned2Less
<1>3. PICK a \in Cells, b \in Cells : Cells2(-u) = <<a, b>> /\ a * B + b = m - u
  <2>1. PICK i \in Int : i = -u
    OBVIOUS
  <2>2. -(B * B) <= i /\ i < 0
    BY <2>1, <1>1, <1>2
  <2>3. \E a, b \in Cells : Cells2(i) = <<a, b>> /\ a * B + b = i + B * B
    BY <2>2, TwoCellsWrap
  <2>4. i + B * B = m - u
    BY <2>1, <1>1
  <2> QED BY ONLY <2>1, <2>3, <2>4
<1>4. PICK c \in Cells, d \in Cells : Cells2(-(m - u)) = <<c, d>> /\ c * B + d = u
  <2>1. PICK i \in Int : i = -(m - u)
    OBVIOUS
  <2>2. -(B * B) <= i /\ i < 0
    BY <2>1, <1>1, <1>2
  <2>3. \E c, d \in Cells : Cells2(i) = <<c, d>> /\ c * B + d = i + B * B
    BY <2>2, TwoCellsWrap
  <2>4. i + B * B = u
    BY <2>1, <1>1
  <2> QED BY ONLY <2>1, <2>3, <2>4
<1>5. c = h /\ d = l
  <2>1. u = B * h + l /\ u = B * c + d
    <3>1. B * h = h * B /\ B * c = c * B
      BY <1>0, CellNat
    <3> QED BY <3>1, <1>2, <1>4 DEF Unsigned2
  <2>2. c \in Nat /\ d \in Nat /\ d < B
    BY CellNat
  <2>3. u \div B = h /\ u % B = l
    BY ONLY <2>1, <1>0, u \in Int, h \in Int, l \in Int, 0 <= l, DivUnique
  <2>4. u \div B = c /\ u % B = d
    BY ONLY <2>1, <2>2, <1>0, u \in Int, c \in Int, d \in Int, 0 <= d, DivUnique
  <2> QED BY <2>3, <2>4
<1>6. DNegate(h, l) = <<a, b>>
  BY <1>2, <1>3 DEF DNegate
<1>7. DNegate(a, b) = <<h, l>>
  BY <1>3, <1>4, <1>5 DEF DNegate, Unsigned2
<1> QED BY <1>6, <1>7

(* Negated twice, a cell is the same. *)
LEMMA LabsTwice ==
  ASSUME NEW n \in Cells
  PROVE  Labs(n) \in Cells /\ n = IF Signed(n) < 0 THEN Cell(-Labs(n)) ELSE Labs(n)
<1>0. B \in Nat \ {0} /\ n \in Nat /\ n < B
  BY Width, CellNat
<1>1. CASE Signed(n) < 0
  <2>1. n # 0
    BY <1>1, SignedZero
  <2>2. PICK x \in Int : x = -n
    BY <1>0
  <2>3. Cell(x) = B - n
    BY <2>1, <2>2, <1>0, CellNear
  <2>4. Labs(n) = B - n
    BY <2>2, <2>3, <1>1 DEF Labs
  <2>5. PICK y \in Int : y = -(B - n)
    BY <1>0
  <2>6. Cell(y) = n
    BY <2>1, <2>5, <1>0, CellNear
  <2>7. B - n \in Cells
    BY <2>1, <1>0 DEF Cells
  <2> QED BY <2>4, <2>5, <2>6, <2>7, <1>1
<1>2. CASE ~(Signed(n) < 0)
  BY <1>2 DEF Labs
<1> QED BY <1>1, <1>2

(* The word in a text is what stands between its spaces. *)
LEMMA TokenIs ==
  ASSUME NEW pre \in Seq({Space}), NEW chars \in Seq(Int \ {Space}), NEW post \in Seq({Space}),
         Len(chars) > 0, text = pre \o chars \o post
  PROVE  Token = chars
<1>0. Space \in Int
  BY DEF Space
<1>1. PICK a \in Nat, m \in Nat, z \in Nat : a = Len(pre) /\ m = Len(chars) /\ z = Len(post)
  BY LenProperties
<1>2. pre \in Seq(Int) /\ chars \in Seq(Int) /\ post \in Seq(Int)
  BY <1>0
<1>3. PICK s \in Seq(Int) : s = pre \o chars
  BY <1>2, ConcatProperties
<1>4. /\ Len(s) = a + m
      /\ \A i \in 1 .. a : s[i] = pre[i]
      /\ \A i \in 1 .. m : s[a + i] = chars[i]
  BY <1>1, <1>2, <1>3, ConcatProperties
<1>5. /\ text \in Seq(Int) /\ Len(text) = a + m + z
      /\ \A i \in 1 .. a + m : text[i] = s[i]
      /\ \A i \in 1 .. z : text[a + m + i] = post[i]
  BY <1>1, <1>2, <1>3, <1>4, ConcatProperties
<1>6. /\ \A i \in 1 .. a : pre[i] = Space
      /\ \A i \in 1 .. m : chars[i] \in Int /\ chars[i] # Space
      /\ \A i \in 1 .. z : post[i] = Space
  <2>1. \A i \in 1 .. a : pre[i] \in {Space}
    BY <1>1, ElementOfSeq
  <2>2. \A i \in 1 .. m : chars[i] \in Int \ {Space}
    BY <1>1, ElementOfSeq
  <2>3. \A i \in 1 .. z : post[i] \in {Space}
    BY <1>1, ElementOfSeq
  <2> QED BY <2>1, <2>2, <2>3
<1>7. PICK p : p = {i \in DOMAIN text : text[i] # Space}
  OBVIOUS
<1>8. p = a + 1 .. a + m
  <2>1. DOMAIN text = 1 .. a + m + z
    BY <1>5, LenProperties
  <2>2. ASSUME NEW i \in 1 .. a + m + z PROVE text[i] # Space <=> i \in a + 1 .. a + m
    <3>1. CASE i \in 1 .. a
      <4>1. i \in 1 .. a + m
        BY <3>1
      <4>2. text[i] = Space
        BY <3>1, <4>1, <1>4, <1>5, <1>6
      <4> QED BY <3>1, <4>2
    <3>2. CASE i \in a + 1 .. a + m
      <4>1. PICK j \in 1 .. m : i = a + j
        <5>1. i - a \in 1 .. m /\ i = a + (i - a)
          BY <3>2
        <5> QED BY <5>1
      <4>2. i \in 1 .. a + m
        BY <3>2
      <4>3. text[i] = chars[j]
        BY <4>1, <4>2, <1>4, <1>5
      <4> QED BY <3>2, <4>3, <1>6
    <3>3. CASE i \in a + m + 1 .. a + m + z
      <4>1. PICK j \in 1 .. z : i = a + m + j
        <5>1. i - (a + m) \in 1 .. z /\ i = a + m + (i - (a + m))
          BY <3>3
        <5> QED BY <5>1
      <4>2. text[i] = Space
        BY <4>1, <1>5, <1>6
      <4> QED BY <3>3, <4>2
    <3>4. i \in 1 .. a \/ i \in a + 1 .. a + m \/ i \in a + m + 1 .. a + m + z
      OBVIOUS
    <3> QED BY ONLY <3>1, <3>2, <3>3, <3>4
  <2>3. a + 1 .. a + m \subseteq 1 .. a + m + z
    OBVIOUS
  <2> QED BY <1>7, <2>1, <2>2, <2>3
<1>9. m > 0
  BY <1>1
<1>10. Min(p) = a + 1
  <2>1. a + 1 \in p /\ \A y \in p : a + 1 <= y
    BY <1>8, <1>9
  <2>2. \A x \in p : (\A y \in p : x <= y) => x = a + 1
    <3> TAKE x \in p
    <3>1. HAVE \A y \in p : x <= y
    <3>2. x <= a + 1 /\ a + 1 <= x
      BY ONLY <2>1, <3>1, x \in p
    <3>3. x \in Int
      BY <1>8
    <3> QED BY ONLY <3>2, <3>3, a \in Nat
  <2> QED BY <2>1, <2>2 DEF Min
<1>11. Max(p) = a + m
  <2>1. a + m \in p /\ \A y \in p : a + m >= y
    BY <1>8, <1>9
  <2>2. \A x \in p : (\A y \in p : x >= y) => x = a + m
    <3> TAKE x \in p
    <3>1. HAVE \A y \in p : x >= y
    <3>2. x >= a + m /\ a + m >= x
      BY ONLY <2>1, <3>1, x \in p
    <3>3. x \in Int
      BY <1>8
    <3> QED BY ONLY <3>2, <3>3, a \in Nat, m \in Nat
  <2> QED BY <2>1, <2>2 DEF Max
<1>12. Token = SubSeq(text, a + 1, a + m)
  <2>1. p # {}
    <3>1. a + 1 \in a + 1 .. a + m
      BY <1>9
    <3> QED BY <3>1, <1>8
  <2> QED BY <2>1, <1>7, <1>10, <1>11 DEF Token
<1>13. SubSeq(text, a + 1, a + m) = chars
  <2>1. PICK t : t = SubSeq(text, a + 1, a + m)
    OBVIOUS
  <2>2. a + 1 \in 1 .. a + m + z /\ a + m \in 1 .. a + m + z /\ (a + m) - (a + 1) + 1 = m
    BY <1>9
  <2>3. t \in Seq(Int) /\ Len(t) = m /\ \A i \in 1 .. m : t[i] = text[a + i]
    <3>1. PICK j \in Int, k \in Int : j = a + 1 /\ k = a + m
      OBVIOUS
    <3>2. j \in 1 .. a + m + z /\ k \in 1 .. a + m + z /\ k - j + 1 = m
      BY ONLY <3>1, <2>2
    <3>3. \A i \in j .. k : text[i] \in Int
      <4>1. \A i \in j .. k : i \in 1 .. a + m + z
        BY ONLY <3>1, a \in Nat, m \in Nat, z \in Nat
      <4>2. \A i \in 1 .. a + m + z : text[i] \in Int
        BY ONLY <1>5, ElementOfSeq
      <4> QED BY ONLY <4>1, <4>2
    <3>4. /\ SubSeq(text, j, k) \in Seq(Int)
          /\ Len(SubSeq(text, j, k)) = IF j <= k THEN k - j + 1 ELSE 0
          /\ \A i \in 1 .. k - j + 1 : SubSeq(text, j, k)[i] = text[j + i - 1]
      BY ONLY <3>3, j \in Int, k \in Int, SubSeqProperties
    <3>5. j <= k
      BY <3>1, <1>9
    <3>6. \A i \in 1 .. m : j + i - 1 = a + i
      BY <3>1
    <3> QED BY ONLY <2>1, <3>1, <3>2, <3>4, <3>5, <3>6
  <2>4. ASSUME NEW i \in 1 .. m PROVE t[i] = chars[i]
    <3>1. a + i \in 1 .. a + m
      OBVIOUS
    <3> QED BY <3>1, <2>3, <1>4, <1>5
  <2>5. chars \in Seq(Int) /\ Len(chars) = m
    BY <1>1, <1>2
  <2>6. t = chars
    <3>1. t = [i \in 1 .. m |-> t[i]] /\ chars = [i \in 1 .. m |-> chars[i]]
      BY <2>3, <2>5, LenProperties
    <3> QED BY <3>1, <2>4
  <2> QED BY <2>1, <2>6
<1> QED BY <1>12, <1>13

(* The text t shows the magnitude u, and a sign if neg. *)
Shows(b, t, neg, u) ==
  \E pre, post \in Seq({Space}), d \in Seq(Nat) :
     ReadAs(b, d, u) /\ t = pre \o (Sign(neg) \o d) \o post

(* The characters of a number have no space among them. *)
LEMMA CharsOf ==
  ASSUME NEW neg \in BOOLEAN, NEW d \in Seq(Nat), Len(d) > 0
  PROVE  /\ Sign(neg) \o d \in Seq(Int \ {Space}) /\ Len(Sign(neg) \o d) > 0
         /\ Sign(neg) \o d \in Seq(Int)
         /\ Head(Sign(neg) \o d) = Minus <=> neg
         /\ Sign(neg) \in Seq(Int) /\ \A i \in 1 .. Len(Sign(neg)) : Sign(neg)[i] < 0
<1>0. Minus \in Int \ {Space} /\ Minus < 0 /\ Nat \subseteq Int \ {Space} /\ Minus \notin Nat
  BY DEF Minus, Space
<1>1. PICK n \in Nat : n = Len(d) /\ n > 0
  BY LenProperties
<1>2. d \in Seq(Int \ {Space}) /\ d \in Seq(Int)
  BY <1>0
<1>3. d[1] \in Nat
  BY <1>1, ElementOfSeq
<1>4. CASE neg
  <2>1. Sign(neg) = <<Minus>>
    BY <1>4 DEF Sign
  <2>2. PICK m \in Int \ {Space} : m = Minus
    BY <1>0
  <2>3. /\ <<m>> \in Seq(Int \ {Space}) /\ <<m>> \in Seq(Int) /\ Len(<<m>>) = 1
        /\ \A i \in 1 .. 1 : <<m>>[i] = m
    OBVIOUS
  <2>4. PICK c : c = <<m>> \o d
    OBVIOUS
  <2>5. c \in Seq(Int \ {Space}) /\ Len(c) = 1 + n
    BY ONLY <2>3, <2>4, <1>1, <1>2, ConcatProperties
  <2>6. c[1] = m
    <3>1. 1 \in 1 .. Len(<<m>>)
      BY <2>3
    <3> QED BY ONLY <2>3, <2>4, <3>1, <1>2, ConcatProperties
  <2>7. c \in Seq(Int) /\ Head(c) = m /\ Len(c) > 0
    BY <2>5, <2>6
  <2> QED BY <2>1, <2>2, <2>3, <2>4, <2>5, <2>7, <1>0, <1>4
<1>5. CASE ~neg
  <2>1. Sign(neg) = <<>>
    BY <1>5 DEF Sign
  <2>2. <<>> \o d = d
    BY <1>2, ConcatEmptySeq
  <2>3. <<>> \in Seq(Int) /\ Len(<<>>) = 0 /\ 1 .. 0 = {}
    OBVIOUS
  <2>4. Head(d) = d[1]
    BY <1>1
  <2> QED BY <2>1, <2>2, <2>3, <2>4, <1>0, <1>1, <1>2, <1>3, <1>5
<1> QED BY <1>4, <1>5

(* What a text shows is read from it. *)
LEMMA ShowsReads ==
  ASSUME Base \in Bases, NEW neg \in BOOLEAN, NEW u \in Nat, Shows(Base, text, neg, u)
  PROVE  /\ Token # <<>> /\ (Negative <=> neg)
         /\ text \in Seq(Int) /\ Reads(Base, 0, text) = u
<1>0. Base \in Nat \ {0} /\ Space \in Int /\ Space < 0
  BY BaseNat DEF Space
<1>1. PICK pre \in Seq({Space}), post \in Seq({Space}), d \in Seq(Nat) :
        ReadAs(Base, d, u) /\ text = pre \o (Sign(neg) \o d) \o post
  BY DEF Shows
<1>2. d \in Seq(Nat) /\ Len(d) > 0 /\ Reads(Base, 0, d) = u /\ d \in Seq(Int)
  BY <1>1 DEF ReadAs
<1>3. PICK chars : chars = Sign(neg) \o d
  OBVIOUS
<1>4. /\ chars \in Seq(Int \ {Space}) /\ Len(chars) > 0 /\ chars \in Seq(Int)
      /\ Head(chars) = Minus <=> neg
      /\ Sign(neg) \in Seq(Int) /\ \A i \in 1 .. Len(Sign(neg)) : Sign(neg)[i] < 0
  BY ONLY <1>2, <1>3, CharsOf, neg \in BOOLEAN
<1>5. text = pre \o chars \o post
  BY <1>1, <1>3
<1>6. Token = chars
  BY <1>4, <1>5, TokenIs
<1>7. chars # <<>>
  BY <1>4
<1>8. /\ pre \in Seq(Int) /\ \A i \in 1 .. Len(pre) : pre[i] < 0
      /\ post \in Seq(Int) /\ \A i \in 1 .. Len(post) : post[i] < 0
  <2>1. ASSUME NEW s \in Seq({Space}) PROVE s \in Seq(Int) /\ \A i \in 1 .. Len(s) : s[i] < 0
    <3>1. \A i \in 1 .. Len(s) : s[i] \in {Space}
      BY ElementOfSeq
    <3> QED BY <3>1, <1>0
  <2> QED BY <2>1
<1>9. PICK base \in Nat : base = Base
  BY <1>0
<1>10. PICK sign \in Seq(Int) : sign = Sign(neg)
  BY <1>4
<1>11. Reads(base, 0, chars) = u
  <2>1. Reads(base, 0, sign) = 0
    BY <1>4, <1>10, ReadsBlank
  <2>2. Reads(base, 0, sign \o d) = Reads(base, Reads(base, 0, sign), d)
    BY <1>2, ReadsJoined
  <2> QED BY <2>1, <2>2, <1>2, <1>3, <1>9, <1>10
<1>12. PICK s \in Seq(Int) : s = pre \o chars
  BY <1>4, <1>8, ConcatProperties
<1>13. Reads(base, 0, s) = u
  <2>1. Reads(base, 0, pre) = 0
    BY <1>8, ReadsBlank
  <2>2. Reads(base, 0, pre \o chars) = Reads(base, Reads(base, 0, pre), chars)
    BY <1>4, <1>8, ReadsJoined
  <2> QED BY <2>1, <2>2, <1>11, <1>12
<1>14. Reads(base, 0, s \o post) = u
  <2>1. Reads(base, u, post) = u
    BY <1>8, ReadsBlank
  <2>2. Reads(base, 0, s \o post) = Reads(base, Reads(base, 0, s), post)
    BY <1>8, ReadsJoined
  <2> QED BY <2>1, <2>2, <1>13
<1>15. text = s \o post /\ text \in Seq(Int)
  BY <1>5, <1>8, <1>12, ConcatProperties
<1> QED BY <1>4, <1>6, <1>7, <1>9, <1>14, <1>15 DEF Negative

(* The text t fills its field, or its characters go over it. *)
InItsField(t, width) ==
  \E pre \in Seq({Space}), chars \in Seq(Int \ {Space}) :
    /\ Len(chars) > 0 /\ t = pre \o chars
    /\ Len(t) = IF Signed(width) > Len(chars) THEN Signed(width) ELSE Len(chars)

(* What stands in the text, and what was read from it. *)
PrintInv ==
  /\ op \in {".", "U.", ".R", "U.R"} =>
       /\ stack \in Seq(Cells)
       /\ \E neg \in BOOLEAN, u \in Cells :
            /\ printed = <<IF neg THEN Cell(-u) ELSE u>>
            /\ text # <<>> => Shows(Base, text, neg, u)
  /\ op \in {"D.", "UD."} =>
       /\ stack \in Seq(Cells)
       /\ \E neg \in BOOLEAN, a, b, h, l \in Cells :
            /\ printed = <<h, l>>
            /\ <<h, l>> = IF neg THEN DNegate(a, b) ELSE <<a, b>>
            /\ Shows(Base, text, neg, Unsigned2(a, b))
  /\ op \in {".R", "U.R"} /\ text # <<>> => InItsField(text, before[1])
  /\ op = "IsInt" /\ printed # <<>> => printed = <<stack[1]>>
  /\ op = "NUMBER?" /\ printed # <<>> =>
       stack[1] = Flag(TRUE) /\ printed = <<stack[2], stack[3]>>

(* The property is part of it. *)
LEMMA PrintedFollows == PrintInv => PrintedIsRead
<1> SUFFICES ASSUME PrintInv, op \in {".R", "U.R"}, text # <<>>
             PROVE  Len(text) = IF Signed(before[1]) > Len(Token) THEN Signed(before[1])
                                ELSE Len(Token)
  BY DEF PrintInv, PrintedIsRead
<1>1. PICK pre \in Seq({Space}), chars \in Seq(Int \ {Space}) :
         /\ Len(chars) > 0 /\ text = pre \o chars
         /\ Len(text) = IF Signed(before[1]) > Len(chars) THEN Signed(before[1]) ELSE Len(chars)
  BY DEF PrintInv, InItsField
<1>2. text = pre \o chars \o <<>> /\ <<>> \in Seq({Space})
  <2>1. Space \in Int
    BY DEF Space
  <2>2. pre \in Seq(Int) /\ chars \in Seq(Int)
    BY <2>1
  <2>3. pre \o chars \in Seq(Int)
    BY <2>2, ConcatProperties
  <2>4. (pre \o chars) \o <<>> = pre \o chars
    BY <2>3, ConcatEmptySeq
  <2> QED BY <2>4, <1>1
<1>3. Token = chars
  BY <1>1, <1>2, TokenIs
<1> QED BY <1>1, <1>3

(* Joining is associative. *)
LEMMA JoinJoin ==
  ASSUME NEW x \in Seq(Int), NEW y \in Seq(Int), NEW z \in Seq(Int)
  PROVE  (x \o y) \o z = x \o (y \o z)
  BY ConcatAssociative, SMTT(30)

(* A number and a space. *)
LEMMA ShowsSpace ==
  ASSUME NEW b, NEW u, NEW d, ReadAs(b, d, u), NEW neg \in BOOLEAN
  PROVE  /\ Shows(b, Append(Sign(neg) \o d, Space), neg, u)
         /\ Shows(b, Sign(neg) \o Append(d, Space), neg, u)
         /\ ~neg => Shows(b, Append(d, Space), neg, u)
<1>1. d \in Seq(Nat) /\ Len(d) > 0 /\ d \in Seq(Int)
  BY DEF ReadAs
<1>2. PICK chars \in Seq(Int) : chars = Sign(neg) \o d
  BY <1>1, CharsOf
<1>3. PICK sp : sp = <<Space>>
  OBVIOUS
<1>4. Space \in Int /\ sp \in Seq({Space}) /\ sp \in Seq(Int)
  BY <1>3 DEF Space
<1>5. PICK none \in Seq({Space}) : none = <<>>
  <2>1. <<>> \in Seq({Space})
    OBVIOUS
  <2> QED BY <2>1
<1>6. none \o chars = chars
  BY <1>2, <1>5, ConcatEmptySeq
<1>7. Append(chars, Space) = chars \o sp
  BY <1>2, <1>3, <1>4, AppendIsConcat
<1>8. Append(d, Space) = d \o sp
  BY <1>1, <1>3, <1>4, AppendIsConcat
<1>9. Shows(b, chars \o sp, neg, u)
  <2>1. chars \o sp = none \o (Sign(neg) \o d) \o sp
    BY <1>2, <1>6
  <2> QED BY <2>1, <1>1, <1>4 DEF Shows
<1>10. Sign(neg) \o (d \o sp) = chars \o sp
  <2>1. PICK sg \in Seq(Int) : sg = Sign(neg)
    BY <1>1, CharsOf
  <2>2. (sg \o d) \o sp = sg \o (d \o sp)
    BY ONLY <2>1, <1>1, <1>4, JoinJoin
  <2> QED BY <2>1, <2>2, <1>2
<1>11. ~neg => d = chars
  <2>1. ~neg => Sign(neg) = <<>>
    BY DEF Sign
  <2>2. <<>> \o d = d
    BY <1>1, ConcatEmptySeq
  <2> QED BY <2>1, <2>2, <1>2
<1>12. Shows(b, Append(Sign(neg) \o d, Space), neg, u)
  BY <1>2, <1>7, <1>9
<1>13. Shows(b, Sign(neg) \o Append(d, Space), neg, u)
  BY <1>8, <1>9, <1>10
<1>14. ~neg => Shows(b, Append(d, Space), neg, u)
  BY <1>8, <1>9, <1>11
<1> QED BY <1>12, <1>13, <1>14

(* A number in a field, or over it. *)
LEMMA ShowsField ==
  ASSUME NEW b, NEW u, NEW d, ReadAs(b, d, u), NEW neg \in BOOLEAN, NEW width \in Cells,
         NEW t, t = InField(width, Sign(neg) \o d), t # <<>>
  PROVE  Shows(b, t, neg, u) /\ InItsField(t, width)
<1>1. d \in Seq(Nat) /\ Len(d) > 0
  BY DEF ReadAs
<1>2. PICK chars \in Seq(Int \ {Space}) : chars = Sign(neg) \o d /\ Len(chars) > 0
  BY <1>1, CharsOf
<1>3. PICK w \in Int : w = Signed(width)
  BY SignedValue
<1>4. PICK n \in Nat : n = Len(chars) /\ n > 0
  BY <1>2, LenProperties
<1>5. PICK pre : pre = [i \in 1 .. (w - n) |-> Space]
  OBVIOUS
<1>6. w > 0 /\ t = pre \o chars
  <2>1. t = InField(width, chars)
    BY <1>2
  <2>2. CASE w <= 0
    BY <2>1, <2>2, <1>3 DEF InField
  <2>3. CASE w > 0
    BY <2>1, <2>3, <1>3, <1>4, <1>5 DEF InField
  <2> QED BY <2>2, <2>3
<1>7. PICK k \in Nat : 1 .. (w - n) = 1 .. k /\ k = IF w > n THEN w - n ELSE 0
  <2>1. CASE w > n
    BY <2>1
  <2>2. CASE ~(w > n)
    <3>1. 1 .. (w - n) = {} /\ 1 .. 0 = {}
      BY <2>2
    <3> QED BY <3>1, <2>2
  <2> QED BY <2>1, <2>2
<1>8. pre \in Seq({Space}) /\ Len(pre) = k
  <2>1. pre \in [1 .. k -> {Space}]
    BY <1>5, <1>7
  <2>2. pre \in Seq({Space})
    BY <2>1, SeqDef
  <2> QED BY <2>1, <2>2, LenProperties
<1>9. Space \in Int
  BY DEF Space
<1>10. pre \in Seq(Int) /\ chars \in Seq(Int)
  BY <1>8, <1>9
<1>11. t \in Seq(Int) /\ Len(t) = k + n
  BY <1>4, <1>6, <1>8, <1>10, ConcatProperties
<1>12. Len(t) = IF w > n THEN w ELSE n
  BY <1>7, <1>11
<1>13. PICK none \in Seq({Space}) : none = <<>>
  <2>1. <<>> \in Seq({Space})
    OBVIOUS
  <2> QED BY <2>1
<1>14. t = pre \o (Sign(neg) \o d) \o none
  <2>1. t \o none = t
    BY <1>11, <1>13, ConcatEmptySeq
  <2> QED BY <2>1, <1>2, <1>6
<1>15. Shows(b, t, neg, u)
  BY <1>1, <1>8, <1>14 DEF Shows
<1>16. InItsField(t, width)
  BY <1>2, <1>3, <1>4, <1>6, <1>8, <1>12 DEF InItsField
<1> QED BY <1>15, <1>16

(* The digits of a double. *)
LEMMA UDDotExact ==
  ASSUME NEW h \in Cells, NEW l \in Cells, Base \in Bases
  PROVE  ReadAs(Base, UDDotText(h, l), Unsigned2(h, l))
<1>1. CASE h = 0
  <2>1. Unsigned2(h, l) = l
    BY <1>1, Width, CellNat DEF Unsigned2
  <2> QED BY <1>1, <2>1, UDot0Exact DEF UDDotText
<1>2. CASE h # 0
  BY <1>2, SharpSExact DEF UDDotText
<1> QED BY <1>1, <1>2

(* What the words that print have in common. *)
LEMMA PrintsWhat ==
  ASSUME NumInv, NEW name, NEW k \in 1 .. 4, NEW chars, NEW cells, Prints(name, k, chars, cells)
  PROVE  /\ op' = name /\ text' = chars /\ printed' = cells /\ Base' = Base
         /\ stack \in Stacks /\ before' = stack /\ stack' \in Seq(Cells) /\ Base \in Bases
  BY Under DEF Prints, Alone, NumInv

(* . and U. show their cell. *)
LEMMA DotShows == NumInv /\ (Dot \/ UDot) => PrintInv'
<1> SUFFICES ASSUME NumInv, Dot \/ UDot PROVE PrintInv'
  OBVIOUS
<1>0. PICK chars : chars = text'
  OBVIOUS
<1>1. PICK name \in {".", "U."} :
        /\ Prints(name, 1, chars, <<stack[1]>>)
        /\ name = "." => chars = Append(DotText(stack[1]), Space)
        /\ name = "U." => chars = Append(UDot0(stack[1]), Space)
  <2>1. CASE Dot
    <3>1. Prints(".", 1, chars, <<stack[1]>>) /\ chars = Append(DotText(stack[1]), Space)
      BY <2>1, <1>0 DEF Dot, Single, Prints
    <3> QED BY <3>1
  <2>2. CASE UDot
    <3>1. Prints("U.", 1, chars, <<stack[1]>>) /\ chars = Append(UDot0(stack[1]), Space)
      BY <2>2, <1>0 DEF UDot, Single, Prints
    <3> QED BY <3>1
  <2> QED BY <2>1, <2>2
<1>2. /\ op' = name /\ text' = chars /\ printed' = <<stack[1]>> /\ Base' = Base
      /\ stack \in Stacks /\ stack' \in Seq(Cells) /\ Base \in Bases
  <2>1. 1 \in 1 .. 4
    OBVIOUS
  <2>2. PICK cells : cells = <<stack[1]>>
    OBVIOUS
  <2>3. Prints(name, 1, chars, cells)
    BY <1>1, <2>2
  <2> QED BY ONLY NumInv, <2>1, <2>2, <2>3, PrintsWhat
<1>3. PICK n \in Cells : n = stack[1]
  BY <1>2, FourCells
<1>4. \E neg \in BOOLEAN, u \in Cells :
        /\ printed' = <<IF neg THEN Cell(-u) ELSE u>>
        /\ Shows(Base, chars, neg, u)
  <2>1. CASE name = "."
    <3>1. PICK neg \in BOOLEAN : neg <=> Signed(n) < 0
      <4>1. CASE Signed(n) < 0
        BY <4>1
      <4>2. CASE ~(Signed(n) < 0)
        BY <4>2
      <4> QED BY <4>1, <4>2
    <3>2. PICK u \in Cells : u = Labs(n) /\ n = IF neg THEN Cell(-u) ELSE u
      BY <3>1, LabsTwice
    <3>3. PICK d : d = UDot0(u) /\ ReadAs(Base, d, u)
      BY <1>2, UDot0Exact
    <3>4. chars = Append(Sign(neg) \o d, Space)
      BY <1>1, <1>3, <2>1, <3>1, <3>2, <3>3 DEF DotText, Sign
    <3>5. Shows(Base, chars, neg, u)
      BY <3>3, <3>4, ShowsSpace
    <3> QED BY <3>2, <3>5, <1>2, <1>3
  <2>2. CASE name = "U."
    <3>1. PICK d : d = UDot0(n) /\ ReadAs(Base, d, n)
      BY <1>2, UDot0Exact
    <3>2. chars = Append(d, Space)
      BY <1>1, <1>3, <2>2, <3>1
    <3>3. Shows(Base, chars, FALSE, n)
      BY <3>1, <3>2, ShowsSpace
    <3> QED BY <3>3, <1>2, <1>3
  <2> QED BY <2>1, <2>2
<1>5. op' \in {".", "U."} /\ op' \notin {"D.", "UD.", ".R", "U.R", "IsInt", "NUMBER?"}
  BY <1>1, <1>2
<1> QED BY <1>2, <1>4, <1>5 DEF PrintInv

(* .R and U.R show their cell in a field. *)
LEMMA DotRShows == NumInv /\ (DotR \/ UDotR) => PrintInv'
<1> SUFFICES ASSUME NumInv, DotR \/ UDotR PROVE PrintInv'
  OBVIOUS
<1>0. PICK chars : chars = text'
  OBVIOUS
<1>1. PICK name \in {".R", "U.R"} :
        /\ Prints(name, 2, chars, <<stack[2]>>)
        /\ name = ".R" => chars = InField(stack[1], DotText(stack[2]))
        /\ name = "U.R" => chars = InField(stack[1], UDot0(stack[2]))
  <2>1. CASE DotR
    <3>1. /\ Prints(".R", 2, chars, <<stack[2]>>)
          /\ chars = InField(stack[1], DotText(stack[2]))
      BY <2>1, <1>0 DEF DotR, Prints
    <3> QED BY <3>1
  <2>2. CASE UDotR
    <3>1. /\ Prints("U.R", 2, chars, <<stack[2]>>)
          /\ chars = InField(stack[1], UDot0(stack[2]))
      BY <2>2, <1>0 DEF UDotR, Prints
    <3> QED BY <3>1
  <2> QED BY <2>1, <2>2
<1>2. /\ op' = name /\ text' = chars /\ printed' = <<stack[2]>> /\ Base' = Base
      /\ stack \in Stacks /\ before' = stack /\ stack' \in Seq(Cells) /\ Base \in Bases
  <2>1. 2 \in 1 .. 4
    OBVIOUS
  <2>2. PICK cells : cells = <<stack[2]>>
    OBVIOUS
  <2>3. Prints(name, 2, chars, cells)
    BY <1>1, <2>2
  <2> QED BY ONLY NumInv, <2>1, <2>2, <2>3, PrintsWhat
<1>3. PICK n \in Cells, width \in Cells : n = stack[2] /\ width = stack[1]
  BY <1>2, FourCells
<1>4. PICK neg \in BOOLEAN, u \in Cells, d \in Seq(Nat) :
        /\ n = IF neg THEN Cell(-u) ELSE u
        /\ ReadAs(Base, d, u)
        /\ chars = InField(width, Sign(neg) \o d)
  <2>1. CASE name = ".R"
    <3>1. PICK neg \in BOOLEAN : neg <=> Signed(n) < 0
      <4>1. CASE Signed(n) < 0
        BY <4>1
      <4>2. CASE ~(Signed(n) < 0)
        BY <4>2
      <4> QED BY <4>1, <4>2
    <3>2. PICK u \in Cells : u = Labs(n) /\ n = IF neg THEN Cell(-u) ELSE u
      BY <3>1, LabsTwice
    <3>3. PICK d : d = UDot0(u) /\ ReadAs(Base, d, u)
      BY <1>2, UDot0Exact
    <3>4. chars = InField(width, Sign(neg) \o d)
      BY <1>1, <1>3, <2>1, <3>1, <3>2, <3>3 DEF DotText, Sign
    <3>5. d \in Seq(Nat)
      BY <3>3 DEF ReadAs
    <3> QED BY <3>2, <3>3, <3>4, <3>5
  <2>2. CASE name = "U.R"
    <3>1. PICK d : d = UDot0(n) /\ ReadAs(Base, d, n)
      BY <1>2, UDot0Exact
    <3>2. d \in Seq(Nat)
      BY <3>1 DEF ReadAs
    <3>3. <<>> \o d = d
      BY <3>2, ConcatEmptySeq
    <3>4. Sign(FALSE) = <<>>
      BY DEF Sign
    <3>5. chars = InField(width, Sign(FALSE) \o d)
      BY <1>1, <1>3, <2>2, <3>1, <3>3, <3>4
    <3>6. n = IF FALSE THEN Cell(-n) ELSE n
      OBVIOUS
    <3> QED BY <3>1, <3>2, <3>5, <3>6
  <2> QED BY <2>1, <2>2
<1>5. chars # <<>> => Shows(Base, chars, neg, u) /\ InItsField(chars, width)
  BY <1>4, ShowsField
<1>6. op' \in {".R", "U.R"} /\ op' \notin {"D.", "UD.", "IsInt", "NUMBER?"}
  BY <1>1, <1>2
<1>7. text' # <<>> => InItsField(text', before'[1])
  BY <1>2, <1>3, <1>5
<1>8. /\ printed' = <<IF neg THEN Cell(-u) ELSE u>>
      /\ text' # <<>> => Shows(Base', text', neg, u)
  BY <1>2, <1>3, <1>4, <1>5
<1> QED BY <1>2, <1>6, <1>7, <1>8 DEF PrintInv

(* D. and UD. show their double. *)
LEMMA DDotShows == NumInv /\ (DDot \/ UDDot) => PrintInv'
<1> SUFFICES ASSUME NumInv, DDot \/ UDDot PROVE PrintInv'
  OBVIOUS
<1>0. PICK d : d = IF Signed(stack[1]) < 0 THEN DAbs(stack[1], stack[2]) ELSE <<stack[1], stack[2]>>
  OBVIOUS
<1>9. PICK chars : chars = text'
  OBVIOUS
<1>1. PICK name \in {"D.", "UD."} :
        /\ Prints(name, 2, chars, <<stack[1], stack[2]>>)
        /\ name = "D." => chars = Sign(Signed(stack[1]) < 0) \o Append(UDDotText(d[1], d[2]), Space)
        /\ name = "UD." => chars = Append(UDDotText(stack[1], stack[2]), Space)
  <2>1. CASE DDot
    <3>1. /\ Prints("D.", 2, chars, <<stack[1], stack[2]>>)
          /\ chars = Sign(Signed(stack[1]) < 0) \o Append(UDDotText(d[1], d[2]), Space)
      BY <2>1, <1>0, <1>9 DEF DDot, Double, Prints
    <3> QED BY <3>1
  <2>2. CASE UDDot
    <3>1. /\ Prints("UD.", 2, chars, <<stack[1], stack[2]>>)
          /\ chars = Append(UDDotText(stack[1], stack[2]), Space)
      BY <2>2, <1>9 DEF UDDot, Double, Prints
    <3> QED BY <3>1
  <2> QED BY <2>1, <2>2
<1>2. /\ op' = name /\ text' = chars /\ printed' = <<stack[1], stack[2]>> /\ Base' = Base
      /\ stack \in Stacks /\ stack' \in Seq(Cells) /\ Base \in Bases
  <2>1. 2 \in 1 .. 4
    OBVIOUS
  <2>2. PICK cells : cells = <<stack[1], stack[2]>>
    OBVIOUS
  <2>3. Prints(name, 2, chars, cells)
    BY <1>1, <2>2
  <2> QED BY ONLY NumInv, <2>1, <2>2, <2>3, PrintsWhat
<1>3. PICK h \in Cells, l \in Cells : h = stack[1] /\ l = stack[2]
  BY <1>2, FourCells
<1>4. PICK neg \in BOOLEAN, a \in Cells, b \in Cells :
        /\ <<h, l>> = IF neg THEN DNegate(a, b) ELSE <<a, b>>
        /\ Shows(Base, chars, neg, Unsigned2(a, b))
  <2>1. CASE name = "D." /\ Signed(h) < 0
    <3>1. PICK a \in Cells, b \in Cells : DNegate(h, l) = <<a, b>> /\ DNegate(a, b) = <<h, l>>
      BY <2>1, DNegateTwice
    <3>2. d = DNegate(h, l)
      BY <1>0, <1>3, <2>1 DEF DAbs
    <3>3. d[1] = a /\ d[2] = b
      BY <3>1, <3>2
    <3>4. PICK s : s = UDDotText(a, b) /\ ReadAs(Base, s, Unsigned2(a, b))
      BY <1>2, UDDotExact
    <3>5. chars = Sign(TRUE) \o Append(s, Space)
      BY <1>1, <1>3, <2>1, <3>3, <3>4 DEF Sign
    <3>6. Shows(Base, chars, TRUE, Unsigned2(a, b))
      BY <3>4, <3>5, ShowsSpace
    <3>7. <<h, l>> = IF TRUE THEN DNegate(a, b) ELSE <<a, b>>
      BY <3>1
    <3> QED BY <3>6, <3>7
  <2>2. CASE ~(name = "D." /\ Signed(h) < 0)
    <3>1. PICK s : s = UDDotText(h, l) /\ ReadAs(Base, s, Unsigned2(h, l))
      BY <1>2, UDDotExact
    <3>2. CASE name = "D."
      <4>1. d[1] = h /\ d[2] = l
        BY <1>0, <1>3, <2>2, <3>2
      <4>2. chars = Sign(FALSE) \o Append(s, Space)
        BY <1>1, <1>3, <2>2, <3>1, <3>2, <4>1 DEF Sign
      <4>3. Shows(Base, chars, FALSE, Unsigned2(h, l))
        BY <3>1, <4>2, ShowsSpace
      <4>4. <<h, l>> = IF FALSE THEN DNegate(h, l) ELSE <<h, l>>
        OBVIOUS
      <4> QED BY <4>3, <4>4
    <3>3. CASE name = "UD."
      <4>1. chars = Append(s, Space)
        BY <1>1, <1>3, <3>1, <3>3
      <4>2. Shows(Base, chars, FALSE, Unsigned2(h, l))
        BY <3>1, <4>1, ShowsSpace
      <4>3. <<h, l>> = IF FALSE THEN DNegate(h, l) ELSE <<h, l>>
        OBVIOUS
      <4> QED BY <4>2, <4>3
    <3> QED BY <3>2, <3>3
  <2> QED BY <2>1, <2>2
<1>5. op' \in {"D.", "UD."} /\ op' \notin {".", "U.", ".R", "U.R", "IsInt", "NUMBER?"}
  BY <1>1, <1>2
<1>6. printed' = <<h, l>> /\ Shows(Base', text', neg, Unsigned2(a, b))
  BY <1>2, <1>3, <1>4
<1> QED BY <1>2, <1>4, <1>5, <1>6 DEF PrintInv

(* What is typed again. *)
LEMMA TypedWhat ==
  ASSUME NEW word, NEW names, Typed(word, names)
  PROVE  /\ op \in names /\ Token # <<>> /\ op' = word
         /\ printed' = <<>> \/ (text' = text /\ printed' = printed)
  BY DEF Typed

(* IsInt() reads the cell that was printed. *)
LEMMA IsIntReads == NumInv /\ PrintInv /\ IsInt => PrintInv'
<1> SUFFICES ASSUME NumInv, PrintInv, IsInt PROVE PrintInv'
  OBVIOUS
<1>a. op' = "IsInt"
  BY TypedWhat DEF IsInt
<1> SUFFICES ASSUME printed' # <<>> PROVE printed' = <<stack'[1]>>
  BY <1>a DEF PrintInv
<1>1. op \in {".", "U.", ".R", "U.R"} /\ Token # <<>> /\ text' = text /\ printed' = printed
  BY TypedWhat DEF IsInt
<1>2. text # <<>>
  <2>1. SUFFICES ASSUME text = <<>> PROVE FALSE
    OBVIOUS
  <2>2. DOMAIN text = {}
    BY <2>1
  <2>3. {i \in DOMAIN text : text[i] # Space} = {}
    BY <2>2
  <2> QED BY <2>3, <1>1 DEF Token
<1>3. PICK neg \in BOOLEAN, u \in Cells :
        printed = <<IF neg THEN Cell(-u) ELSE u>> /\ Shows(Base, text, neg, u)
  BY <1>1, <1>2 DEF PrintInv
<1>4. Base \in Bases /\ stack \in Seq(Cells)
  BY <1>1 DEF PrintInv, NumInv
<1>5. u \in Nat /\ u < B
  BY CellNat
<1>6. (Negative <=> neg) /\ Reads(Base, 0, text) = u
  BY <1>3, <1>4, <1>5, ShowsReads
<1>7. PICK x : x = IF neg THEN Cell(-u) ELSE u
  OBVIOUS
<1>8. Strtoul(text', Negative) = x
  BY <1>1, <1>5, <1>6, <1>7, Width DEF Strtoul
<1>9. x \in Cells
  <2>1. PICK i \in Int : i = -u
    BY <1>5
  <2>2. Cell(i) \in Cells
    BY <2>1, Width DEF Cell, Cells
  <2> QED BY <1>7, <2>1, <2>2
<1>10. stack' = <<x>> \o stack
  BY <1>8 DEF IsInt
<1>11. stack'[1] = x
  <2>1. PICK top : top = <<x>>
    OBVIOUS
  <2>2. top \in Seq(Cells) /\ Len(top) = 1 /\ top[1] = x /\ 1 \in 1 .. 1
    BY <2>1, <1>9
  <2> QED BY ONLY <2>1, <2>2, <1>4, <1>10, ConcatProperties
<1> QED BY <1>1, <1>3, <1>7, <1>11

(* NUMBER? reads the double that was printed. *)
LEMMA NumberQueryReads == NumInv /\ PrintInv /\ NumberQuery => PrintInv'
<1> SUFFICES ASSUME NumInv, PrintInv, NumberQuery PROVE PrintInv'
  OBVIOUS
<1>a. op' = "NUMBER?"
  BY TypedWhat DEF NumberQuery
<1> SUFFICES ASSUME printed' # <<>>
             PROVE  stack'[1] = Flag(TRUE) /\ printed' = <<stack'[2], stack'[3]>>
  BY <1>a DEF PrintInv
<1>1. op \in {"D.", "UD."} /\ text' = text /\ printed' = printed
  BY TypedWhat DEF NumberQuery
<1>2. PICK neg \in BOOLEAN, a \in Cells, b \in Cells, h \in Cells, l \in Cells :
        /\ printed = <<h, l>>
        /\ <<h, l>> = IF neg THEN DNegate(a, b) ELSE <<a, b>>
        /\ Shows(Base, text, neg, Unsigned2(a, b))
  BY <1>1 DEF PrintInv
<1>3. Base \in Bases /\ stack \in Seq(Cells)
  BY <1>1 DEF PrintInv, NumInv
<1>4. PICK u \in Nat : u = Unsigned2(a, b) /\ u < B * B
  BY Unsigned2Less
<1>5. (Negative <=> neg) /\ text \in Seq(Int) /\ Reads(Base, 0, text) = u
  BY <1>2, <1>3, <1>4, ShowsReads
<1>6. Taken(text') = Leaves(Cells2(u))
  BY <1>1, <1>3, <1>4, <1>5, TakenExact
<1>7. Cells2(u) = <<a, b>>
  <2>1. PICK hi \in Cells, lo \in Cells : Cells2(u) = <<hi, lo>> /\ u = hi * B + lo
    BY <1>4, TwoCells
  <2>2. a * B + b = hi * B + lo
    BY <1>4, <2>1 DEF Unsigned2
  <2>3. a \in Nat /\ b \in Nat /\ b < B /\ hi \in Nat /\ lo \in Nat /\ lo < B /\ B \in Nat \ {0}
    BY CellNat, Width
  <2>4. PICK base \in Nat \ {0} : base = B
    BY <2>3
  <2>5. u = base * a + b /\ u = base * hi + lo
    BY <1>4, <2>1, <2>3, <2>4 DEF Unsigned2
  <2>6. u \in Int /\ a \in Int /\ b \in Int /\ hi \in Int /\ lo \in Int /\ 0 <= b /\ 0 <= lo
        /\ b < base /\ lo < base
    BY <1>4, <2>3, <2>4
  <2>7. u \div base = a
    BY ONLY <2>4, <2>5, <2>6, DivUnique
  <2>8. u % base = b
    BY ONLY <2>4, <2>5, <2>6, DivUnique
  <2>9. u \div base = hi
    BY ONLY <2>4, <2>5, <2>6, DivUnique
  <2>10. u % base = lo
    BY ONLY <2>4, <2>5, <2>6, DivUnique
  <2> QED BY <2>1, <2>7, <2>8, <2>9, <2>10
<1>8. PICK r : r = Taken(text')
  OBVIOUS
<1>9. r.e = "none" /\ r.s = <<a, b>>
  BY <1>6, <1>7, <1>8 DEF Leaves
<1>10. PICK t : t = <<h, l>>
  OBVIOUS
<1>11. Negated(r.s, Negative) = t
  <2>1. CASE neg
    <3>1. PICK s \in Seq(Cells) : s = <<a, b>> /\ Len(s) = 2 /\ s[1] = a /\ s[2] = b
      <4>1. <<a, b>> \in Seq(Cells)
        OBVIOUS
      <4> QED BY <4>1
    <3>2. Drop(s, 2) = <<>>
      <4>1. SubSeq(s, 3, 2) = <<>>
        BY <3>1, SubSeqProperties
      <4> QED BY <4>1, <3>1 DEF Drop
    <3>3. t \in Seq(Cells)
      BY <1>10
    <3>4. t \o <<>> = t
      BY <3>3, ConcatEmptySeq
    <3>5. DNegate(a, b) = t
      BY <2>1, <1>2, <1>10
    <3>6. Negated(s, Negative) = t
      <4>1. Negative /\ Len(s) >= 2
        BY <2>1, <1>5, <3>1
      <4>2. Negated(s, Negative) = DNegate(s[1], s[2]) \o Drop(s, 2)
        BY ONLY <4>1 DEF Negated
      <4> QED BY ONLY <4>2, <3>1, <3>2, <3>4, <3>5
    <3> QED BY <3>1, <3>6, <1>9
  <2>2. CASE ~neg
    <3>1. t = <<a, b>>
      BY <2>2, <1>2, <1>10
    <3> QED BY <2>2, <3>1, <1>5, <1>9 DEF Negated
  <2> QED BY <2>1, <2>2
<1>12. PICK f \in Cells : f = Flag(TRUE)
  BY Width DEF Flag, Cells
<1>13. stack' = <<f>> \o t \o stack
  BY <1>8, <1>9, <1>11, <1>12 DEF NumberQuery
<1>14. stack'[1] = f /\ stack'[2] = h /\ stack'[3] = l
  <2>1. PICK top : top = <<f>>
    OBVIOUS
  <2>2. top \in Seq(Cells) /\ Len(top) = 1 /\ top[1] = f
    BY <2>1
  <2>3. t \in Seq(Cells) /\ Len(t) = 2 /\ t[1] = h /\ t[2] = l
    BY <1>10
  <2>4. PICK three \in Seq(Cells) : three = top \o t
    BY ONLY <2>2, <2>3, ConcatProperties
  <2>5. Len(three) = 3 /\ three[1] = f /\ three[2] = h /\ three[3] = l
    <3>1. \A i \in 1 .. Len(top) + Len(t) :
            three[i] = IF i <= Len(top) THEN top[i] ELSE t[i - Len(top)]
      BY ONLY <2>2, <2>3, <2>4, ConcatProperties
    <3>2. Len(three) = Len(top) + Len(t)
      BY ONLY <2>2, <2>3, <2>4, ConcatProperties
    <3> QED BY ONLY <3>1, <3>2, <2>2, <2>3
  <2>6. 1 \in 1 .. 3 /\ 2 \in 1 .. 3 /\ 3 \in 1 .. 3
    OBVIOUS
  <2>7. stack' = three \o stack
    BY <1>13, <2>1, <2>4
  <2> QED BY ONLY <2>4, <2>5, <2>6, <2>7, <1>3, ConcatProperties
<1> QED BY <1>1, <1>2, <1>12, <1>14

(* Nothing else prints or reads. *)
LEMMA OthersPrintNothing ==
  NumInv /\ PrintInv /\ [Next]_vars => PrintInv'
<1> SUFFICES ASSUME NumInv, PrintInv, [Next]_vars PROVE PrintInv'
  OBVIOUS
<1> DEFINE Names == {".", "U.", ".R", "U.R", "D.", "UD.", "IsInt", "NUMBER?"}
<1>1. ASSUME op' \notin Names PROVE PrintInv'
  BY <1>1 DEF PrintInv
<1>2. CASE UNCHANGED vars
  BY <1>2 DEF vars, PrintInv
<1>3. CASE Dot \/ UDot
  BY <1>3, DotShows
<1>4. CASE DotR \/ UDotR
  BY <1>4, DotRShows
<1>5. CASE DDot \/ UDDot
  BY <1>5, DDotShows
<1>6. CASE IsInt
  BY <1>6, IsIntReads
<1>7. CASE NumberQuery
  BY <1>7, NumberQueryReads
<1>8. CASE \/ UMDivision \/ UTMDivision \/ UTSDivision \/ STSDivision
           \/ FMDivision \/ SMDivision \/ Division
           \/ Scaling \/ LongScaling \/ Product \/ UProduct \/ PlusLoop
  <2>1. op' \notin Names
    BY <1>8 DEF UMDivision, UTMDivision, UTSDivision, STSDivision, FMDivision, SMDivision,
         Division, Scaling, LongScaling, Product, UProduct, PlusLoop, Word
  <2> QED BY <1>1, <2>1
<1>9. CASE BracketSharp \/ Sharp \/ SharpBracket \/ ToNumber
  <2>1. op' \notin Names
    BY <1>9 DEF BracketSharp, Sharp, SharpBracket, ToNumber, Word
  <2> QED BY <1>1, <2>1
<1>10. CASE Hold
  <2>1. op' = op /\ op \in {"<#", "#"}
    BY <1>10 DEF Hold
  <2>2. op' \notin Names
    BY <2>1
  <2> QED BY <1>1, <2>2
<1> QED
  BY <1>2, <1>3, <1>4, <1>5, <1>6, <1>7, <1>8, <1>9, <1>10 DEF Next

(* What the words that print show is the number that IsInt() and NUMBER?   *)
(* read, and .R and U.R keep the field, for every width of a cell and      *)
(* every base.                                                             *)
THEOREM PrintedIsReadCorrect == Spec => []PrintedIsRead
<1>1. Init => PrintInv
  BY DEF Init, PrintInv
<1>2. NumInv /\ PrintInv /\ [Next]_vars => PrintInv'
  BY OthersPrintNothing
<1>3. PrintInv => PrintedIsRead
  BY PrintedFollows
<1> QED BY <1>1, <1>2, <1>3, NumInvHolds, PTL DEF Spec

===============================================================================
