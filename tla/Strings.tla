------------------------------- MODULE Strings -------------------------------
(***************************************************************************)
(* The string words of vmc.c: SEARCH, COMPARE and -TRAILING on strings in  *)
(* memory, WORD, PARSE and CHAR on the line in TIB, and >FLOAT, which puts *)
(* a string in the form that IsFloat() reads.  Lengths that only matter    *)
(* from 255 characters on are left out.                                    *)
(***************************************************************************)
EXTENDS Integers, Sequences, FiniteSets, SequencesExt

CONSTANTS
  MaxText,   \* bound: characters in memory, or on a line
  MaxNeedle, \* bound: characters of the string to search for
  MaxToken   \* bound: characters of a number

ASSUME StringsAssumption == {MaxText, MaxNeedle, MaxToken} \subseteq Nat \ {0}

VARIABLES
  text,    \* memory, or the line with the NUL behind it
  pTIB,
  WordBuf, \* the character after the count
  op, arg, \* history: the word, and what it was given
  out,     \* history: what it left
  fields   \* history: what WORD or PARSE have left so far

vars == <<text, pTIB, WordBuf, op, arg, out, fields>>

Blank   == " "
Letters == {Blank, "a", "b"}
Digit   == "1"
Signs   == {"+", "-"}
Marks   == {Digit, ".", "E", "D", Blank} \cup Signs
Rank    == [c \in Letters |-> IF c = "b" THEN 2 ELSE IF c = "a" THEN 1 ELSE 0]

UpTo(n, set) == UNION {[1 .. k -> set] : k \in 0 .. n}
At(p, n) == SubSeq(text, p, p + n - 1)
LeastOf(S) == CHOOSE x \in S : \A y \in S : x <= y

Does(name, given, left) ==
  /\ op' = name /\ arg' = given /\ out' = left
  /\ UNCHANGED <<text, pTIB, WordBuf, fields>>

-----------------------------------------------------------------------------
(* Strings in memory *)

(* memchr() moves on to the next character that the needle begins with,    *)
(* when as much as the needle remained from the last one on; what remains  *)
(* there is not tested.                                                    *)
Tried(a, u, needle) ==
  LET heads == {c \in a .. (a + u - 1) : text[c] = needle[1]}
  IN  {c \in heads : \A p \in {a - 1} \cup {h \in heads : h < c} : a + u - (p + 1) >= Len(needle)}

(* Mutant: stops when no more than the needle remains. *)
FoundButLast(a, u, needle) ==
  {c \in Tried(a, u, needle) : At(c, Len(needle)) = needle /\ a + u - c > Len(needle)}

Found(a, u, needle) ==
  IF needle = <<>> THEN {a}
  ELSE {c \in Tried(a, u, needle) : At(c, Len(needle)) = needle}

C_search ==
  op = "memory" /\ \E a \in 1 .. MaxText, u \in 0 .. MaxText, needle \in UpTo(MaxNeedle, Letters) :
    /\ a + u + MaxNeedle - 1 <= MaxText
    /\ LET found == Found(a, u, needle)
           at    == IF found = {} THEN a ELSE LeastOf(found)
       IN  Does("SEARCH", <<a, u, needle>>, <<at, a + u - at, IF found = {} THEN 0 ELSE -1>>)

(* memcmp() of as much as both have, then the lengths.                     *)
Differ(s, t) == {i \in 1 .. Len(s) : i <= Len(t) /\ s[i] # t[i]}
Compared(s, t) ==
  LET i == LeastOf(Differ(s, t))
  IN  IF Differ(s, t) # {} THEN (IF Rank[s[i]] < Rank[t[i]] THEN -1 ELSE 1)
      ELSE IF Len(s) = Len(t) THEN 0 ELSE IF Len(s) < Len(t) THEN -1 ELSE 1

C_compare ==
  op = "memory" /\ \E a \in 1 .. MaxText, u \in 0 .. MaxText, t \in UpTo(MaxNeedle, Letters) :
    a + u - 1 <= MaxText /\ Does("COMPARE", <<At(a, u), t>>, <<Compared(At(a, u), t)>>)

Trailing(s) == LeastOf({n \in 0 .. Len(s) : \A i \in (n + 1) .. Len(s) : s[i] = Blank})

C_trailing ==
  op = "memory" /\ \E a \in 1 .. MaxText, u \in 0 .. MaxText :
    a + u - 1 <= MaxText /\ Does("-TRAILING", <<At(a, u)>>, <<Trailing(At(a, u))>>)

-----------------------------------------------------------------------------
(* The line *)

EndOfLine == MaxText + 1

(* The first place from p on that has a character of the set, or the NUL.  *)
Reach(p, set) == LeastOf({i \in p .. EndOfLine : i = EndOfLine \/ text[i] \in set})

(* Mutant: the delimiter behind the field is left where it is. *)
NotConsumed(p) == p

(* The delimiter is passed, the NUL is not. *)
Consumed(p) == IF p = EndOfLine THEN p ELSE p + 1

Takes(name, delim, from) ==
  LET to == Reach(from, {delim})
  IN  /\ op \in {"memory", name} /\ op' = name
      /\ op = name => arg = <<delim>>
      /\ arg' = <<delim>> /\ pTIB' = Consumed(to)
      /\ out' = SubSeq(text, from, to - 1) /\ fields' = Append(fields, out')
      /\ Len(fields) <= MaxText

C_parse ==
  \E delim \in Letters : Takes("PARSE", delim, pTIB) /\ UNCHANGED <<text, WordBuf>>

(* WORD passes the delimiters first.  When nothing is left it stores the   *)
(* count alone.                                                            *)
C_word(name) ==
  \E delim \in Letters :
    LET from == Reach(pTIB, Letters \ {delim})
    IN  /\ name = "CHAR" => delim = Blank
        /\ Takes(name, delim, from)
        /\ WordBuf' = IF from = EndOfLine THEN WordBuf ELSE text[from]
        /\ UNCHANGED text

(* CHAR leaves the character after the count, whatever the count is.       *)
CPP_char == C_word("CHAR")

-----------------------------------------------------------------------------
(* Floating point numbers *)

Has(s, c) == \E i \in DOMAIN s : s[i] = c

(* Mutant: forgets that the point may end the significand. *)
MarksAfterDigit(s, u) ==
  s[u] \in Signs /\ s[u - 1] = Digit /\ u < Len(s) /\ s[u + 1] = Digit

(* A sign within is that of the exponent when a digit follows it, and a    *)
(* digit or the point comes before.                                        *)
MarksExponent(s, u) ==
  s[u] \in Signs /\ s[u - 1] \in {Digit, "."} /\ u < Len(s) /\ s[u + 1] = Digit

(* A + becomes the E, before a - it is put in.                             *)
WithE(s, u) ==
  IF ~MarksExponent(s, u) THEN s
  ELSE IF s[u] = "+" THEN [s EXCEPT ![u] = "E"] ELSE InsertAt(s, u, "E")

Normal(t) ==
  LET s == [i \in DOMAIN t |-> IF t[i] = "D" THEN "E" ELSE t[i]]
      e == IF Has(s, "E") \/ Len(t) <= 2 THEN s
           ELSE FoldLeft(WithE, s, [i \in 1 .. (Len(t) - 2) |-> i + 1])
  IN  IF Has(e, "E") THEN e ELSE e \o <<"E", "0">>

(* IsFloat() takes the characters of a number in any order.                *)
IsFloat(s) == s # <<>> /\ Has(s, "E") /\ ~Has(s, Blank)

(* A second E put in is written over the NUL, and the string goes on with  *)
(* what the buffer had.                                                    *)
Overwrites(t) ==
  ~Has(t, "E") /\ ~Has(t, "D")
    /\ Cardinality({u \in 2 .. (Len(t) - 1) : t[u] = "-" /\ MarksExponent(t, u)}) > 1

Digits(s) == \A i \in DOMAIN s : s[i] = Digit
Significand(s) ==
  LET n == IF s # <<>> /\ s[1] \in Signs THEN Tail(s) ELSE s
  IN  /\ Has(n, Digit)
      /\ Digits(n) \/ \E i \in DOMAIN n : n[i] = "." /\ Digits(SubSeq(n, 1, i - 1))
                                            /\ Digits(SubSeq(n, i + 1, Len(n)))

(* An exponent of no digits, or of "0" alone, is none.                     *)
Exponent(s) ==
  LET digits == SelectSeq(s, LAMBDA c : c = Digit)
  IN  IF digits = <<>> THEN <<>> ELSE (IF s[1] = "-" THEN <<"-">> ELSE <<>>) \o digits

(* atof(): as much as makes a number. *)
Atof(s) ==
  LET m == {k \in 1 .. Len(s) : Significand(SubSeq(s, 1, k))}
      k == CHOOSE i \in m : \A j \in m : j <= i
      n == {j \in (k + 2) .. Len(s) :
              /\ s[k + 1] = "E" /\ s[k + 2] \in Signs \cup {Digit}
              /\ Digits(SubSeq(s, k + 3, j))}
  IN  IF m = {} THEN <<<<>>, <<>>>>
      ELSE <<SubSeq(s, 1, k),
             IF n = {} THEN <<>> ELSE Exponent(SubSeq(s, k + 2, CHOOSE i \in n : \A j \in n : j <= i))>>

C_tofloat ==
  LET AllBlank == \A i \in DOMAIN text : text[i] = Blank
      read == Atof(Normal(text))
  IN  /\ op = "token"
      /\ \/ AllBlank /\ Does(">FLOAT", text, <<TRUE, <<<<>>, <<>>>>>>)
         \/ ~AllBlank /\ ~Has(text, Digit) /\ Does(">FLOAT", text, <<FALSE, <<<<>>, <<>>>>>>)
         \/ /\ ~AllBlank /\ Has(text, Digit)
            /\ \E b \in IF Overwrites(text) THEN BOOLEAN ELSE {IsFloat(Normal(text))} :
                 Does(">FLOAT", text, <<b, read>>)

-----------------------------------------------------------------------------
Init ==
  /\ \/ op = "memory" /\ text \in [1 .. MaxText -> Letters]
     \/ op = "token" /\ text \in UpTo(MaxToken, Marks)
  /\ pTIB = 1 /\ WordBuf = Blank /\ arg = <<>> /\ out = <<>> /\ fields = <<>>

Next ==
  \/ C_search \/ C_compare \/ C_trailing
  \/ C_parse \/ C_word("WORD") \/ CPP_char \/ C_tofloat

Spec == Init /\ [][Next]_vars

-----------------------------------------------------------------------------
(* Properties *)

(* SEARCH finds the first place in the string where all of the needle is,  *)
(* and finds nothing else but a place where the needle begins in the       *)
(* string and goes on in the memory behind it.  COMPARE tells which string *)
(* a dictionary has first, and swapped strings compare the other way.      *)
(* -TRAILING takes all blanks from the end and nothing else.               *)
StringWordsExact ==
  /\ op = "SEARCH" =>
       LET a == arg[1]  u == arg[2]  needle == arg[3]
           inside == {c \in a .. (a + u) : c + Len(needle) <= a + u /\ At(c, Len(needle)) = needle}
       IN  /\ out[1] + out[2] = a + u
           /\ inside # {} => out[3] = -1 /\ out[1] <= LeastOf(inside)
           /\ out[3] = 0 => out[1] = a
           /\ out[3] = -1 =>
                /\ At(out[1], Len(needle)) = needle
                /\ out[1] \in inside \/ (inside = {} /\ out[1] < a + u)
  /\ op = "COMPARE" =>
       LET s == arg[1]  t == arg[2]
           Before(x, y) == IsStrictPrefix(x, y)
             \/ \E i \in DOMAIN x : /\ i <= Len(y) /\ Rank[x[i]] < Rank[y[i]]
                                    /\ SubSeq(x, 1, i - 1) = SubSeq(y, 1, i - 1)
       IN  /\ out[1] = -1 <=> Before(s, t)
           /\ out[1] = 1 <=> Before(t, s)
  /\ op = "-TRAILING" =>
       LET s == arg[1]
       IN  /\ \A i \in (out[1] + 1) .. Len(s) : s[i] = Blank
           /\ out[1] > 0 => s[out[1]] # Blank

(* What lies between the delimiters of the line, in order; WORD and CHAR   *)
(* leave out what is empty.                                                *)
Pieces(delim) ==
  LET cuts == SetToSortSeq({i \in 1 .. MaxText : text[i] = delim}, <)
  IN  [i \in 1 .. (Len(cuts) + 1) |->
         SubSeq(text, IF i = 1 THEN 1 ELSE cuts[i - 1] + 1,
                      IF i > Len(cuts) THEN MaxText ELSE cuts[i] - 1)]

(* One PARSE after the other takes the line apart at the delimiters and    *)
(* loses nothing; so do WORD and CHAR, which pass empty fields, and CHAR   *)
(* gives the first character of the word as long as there is one.          *)
FieldsSplit ==
  op \in {"PARSE", "WORD", "CHAR"} =>
    LET all == Pieces(arg[1])
        due == IF op = "PARSE" THEN all ELSE SelectSeq(all, LAMBDA f : f # <<>>)
    IN  /\ \A i \in DOMAIN fields : fields[i] = IF i <= Len(due) THEN due[i] ELSE <<>>
        /\ op = "CHAR" /\ out # <<>> => WordBuf = out[1]

(* Every number that Forth-94 lets >FLOAT convert, which the comments of   *)
(* C_tofloat() refer to, is taken, and with the significand and exponent   *)
(* it has, whether E, D or a sign marks the exponent.                      *)
FloatsRead ==
  op = ">FLOAT" =>
    \A k \in DOMAIN arg :
      LET rest == SubSeq(arg, k + 1, Len(arg))
          mark == IF rest = <<>> THEN {0}
                  ELSE {m \in 1 .. 2 : /\ m <= Len(rest)
                                       /\ m = 1 => rest[1] \in {"E", "D"} \cup Signs
                                       /\ m = 2 => rest[1] \in {"E", "D"} /\ rest[2] \in Signs}
      IN  Significand(SubSeq(arg, 1, k)) =>
            \A m \in mark : Digits(SubSeq(rest, m + 1, Len(rest))) =>
              out = <<TRUE, <<SubSeq(arg, 1, k), Exponent(IF rest # <<>> /\ rest[1] \in {"E", "D"}
                                                         THEN Tail(rest) ELSE rest)>>>>

===============================================================================
