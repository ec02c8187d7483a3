--------------------------- MODULE StructuresProofs ----------------------------
(***************************************************************************)
(* Theorems about the control structures of Compiler, for every WSIZE,     *)
(* every set of words and every length of definitions: the control stacks  *)
(* hold exactly what the structures open in the source explain, so that a  *)
(* source whose structures nest is never refused for its structures, and   *)
(* nothing is left on a control stack when no structure is open.           *)
(*                                                                         *)
(* They hold of sources that keep the rules about streams, write no        *)
(* structures in brackets, and start no nested stream of interpreted text  *)
(* inside an open structure.                                               *)
(***************************************************************************)
EXTENDS CompilerProofs, FiniteSetTheorems

-----------------------------------------------------------------------------
(* Counting the elements of a sequence that are in a set *)

CountTo(S, s, p) == Cardinality({i \in 1 .. p : s[i] \in S})
Count(S, s) == CountTo(S, s, Len(s))

LEMMA CountSets ==
  ASSUME NEW S, NEW s, NEW p \in Nat
  PROVE  IsFiniteSet({i \in 1 .. p : s[i] \in S}) /\ CountTo(S, s, p) \in Nat
<1>1. IsFiniteSet(1 .. p)
  BY FS_Interval
<1>2. IsFiniteSet({i \in 1 .. p : s[i] \in S})
  BY <1>1, FS_Subset
<1> QED BY <1>2, FS_CardinalityType DEF CountTo

LEMMA CountIs ==
  ASSUME NEW S, NEW s
  PROVE  /\ CountTo(S, s, 0) = 0
         /\ \A p \in Nat : /\ s[p + 1] \in S => CountTo(S, s, p + 1) = CountTo(S, s, p) + 1
                           /\ s[p + 1] \notin S => CountTo(S, s, p + 1) = CountTo(S, s, p)
<1>1. CountTo(S, s, 0) = 0
  <2>1. {i \in 1 .. 0 : s[i] \in S} = {}
    OBVIOUS
  <2> QED BY <2>1, FS_EmptySet DEF CountTo
<1>2. ASSUME NEW p \in Nat
      PROVE  /\ s[p + 1] \in S => CountTo(S, s, p + 1) = CountTo(S, s, p) + 1
             /\ s[p + 1] \notin S => CountTo(S, s, p + 1) = CountTo(S, s, p)
  <2> DEFINE I == {i \in 1 .. p : s[i] \in S}
             J == {i \in 1 .. p + 1 : s[i] \in S}
  <2>1. IsFiniteSet(I)
    BY CountSets
  <2>6. p + 1 \notin I
    OBVIOUS
  <2>2. s[p + 1] \notin S => J = I
    OBVIOUS
  <2>3. s[p + 1] \in S => J = I \cup {p + 1}
    OBVIOUS
  <2>4. Cardinality(I \cup {p + 1}) = Cardinality(I) + 1
    <3> HIDE DEF I
    <3> QED BY <2>1, <2>6, FS_AddElement
  <2>5. CountTo(S, s, p) = Cardinality(I) /\ CountTo(S, s, p + 1) = Cardinality(J)
    BY DEF CountTo
  <2> HIDE DEF I, J
  <2> QED BY <2>2, <2>3, <2>4, <2>5
<1> QED BY <1>1, <1>2

(* Only the elements up to the place count. *)
LEMMA CountSame ==
  ASSUME NEW S, NEW s, NEW t, NEW p \in Nat, \A i \in 1 .. p : s[i] = t[i]
  PROVE  CountTo(S, s, p) = CountTo(S, t, p)
<1>1. {i \in 1 .. p : s[i] \in S} = {i \in 1 .. p : t[i] \in S}
  OBVIOUS
<1> QED BY <1>1 DEF CountTo

LEMMA CountFlat ==
  ASSUME NEW S, NEW s, NEW p \in Nat, NEW m \in 0 .. p,
         \A i \in 1 .. p : i > m => s[i] \notin S
  PROVE  CountTo(S, s, p) = CountTo(S, s, m)
<1>1. {i \in 1 .. p : s[i] \in S} = {i \in 1 .. m : s[i] \in S}
  OBVIOUS
<1> QED BY <1>1 DEF CountTo

LEMMA CountLess ==
  ASSUME NEW S, NEW s, NEW p \in Nat, NEW m \in 0 .. p
  PROVE  CountTo(S, s, m) <= CountTo(S, s, p) /\ CountTo(S, s, m) \in Nat
<1> DEFINE I == {i \in 1 .. m : s[i] \in S}
           J == {i \in 1 .. p : s[i] \in S}
<1>1. IsFiniteSet(J)
  BY CountSets
<1>2. I \subseteq J
  OBVIOUS
<1>3. m \in Nat
  OBVIOUS
<1>4. CountTo(S, s, m) \in Nat
  BY <1>3, CountSets
<1>5. CountTo(S, s, p) = Cardinality(J) /\ CountTo(S, s, m) = Cardinality(I)
  BY DEF CountTo
<1> HIDE DEF I, J
<1> QED BY <1>1, <1>2, <1>4, <1>5, FS_Subset

(* An element that counts has a place among those that count. *)
LEMMA CountPlace ==
  ASSUME NEW S, NEW s, NEW n \in Nat, NEW p \in 1 .. n, s[p] \in S
  PROVE  CountTo(S, s, p) \in 1 .. CountTo(S, s, n)
<1>1. PICK q \in Nat : p = q + 1
  <2>1. p - 1 \in Nat /\ p = p - 1 + 1
    OBVIOUS
  <2> QED BY <2>1
<1>2. CountTo(S, s, p) = CountTo(S, s, q) + 1
  BY <1>1, CountIs
<1>3. CountTo(S, s, p) <= CountTo(S, s, n) /\ CountTo(S, s, p) \in Nat /\ CountTo(S, s, q) \in Nat
      /\ CountTo(S, s, n) \in Nat
  BY <1>1, CountLess, CountSets
<1> QED BY <1>2, <1>3

LEMMA CountAppend ==
  ASSUME NEW X, NEW s \in Seq(X), NEW x \in X, NEW S
  PROVE  /\ Append(s, x) \in Seq(X) /\ Len(Append(s, x)) = Len(s) + 1 /\ Len(s) \in Nat
         /\ Append(s, x)[Len(s) + 1] = x /\ \A i \in 1 .. Len(s) : Append(s, x)[i] = s[i]
         /\ x \in S => Count(S, Append(s, x)) = Count(S, s) + 1
         /\ x \notin S => Count(S, Append(s, x)) = Count(S, s)
         /\ \A p \in 0 .. Len(s) : CountTo(S, Append(s, x), p) = CountTo(S, s, p)
<1> DEFINE t == Append(s, x)
<1>1. /\ t \in Seq(X) /\ Len(t) = Len(s) + 1 /\ Len(s) \in Nat /\ t[Len(s) + 1] = x
      /\ \A i \in 1 .. Len(s) : t[i] = s[i]
  BY AppendProperties, LenProperties
<1> HIDE DEF t
<1>2. ASSUME NEW p \in 0 .. Len(s) PROVE CountTo(S, t, p) = CountTo(S, s, p)
  <2>1. p \in Nat /\ \A i \in 1 .. p : t[i] = s[i]
    BY <1>1
  <2> QED BY <2>1, CountSame
<1>3. CountTo(S, t, Len(s)) = CountTo(S, s, Len(s))
  BY <1>1, <1>2
<1>4. /\ x \in S => CountTo(S, t, Len(s) + 1) = CountTo(S, t, Len(s)) + 1
      /\ x \notin S => CountTo(S, t, Len(s) + 1) = CountTo(S, t, Len(s))
  BY <1>1, CountIs
<1> QED BY <1>1, <1>2, <1>3, <1>4 DEF Count, t

LEMMA CountFront ==
  ASSUME NEW X, NEW s \in Seq(X), s # <<>>, NEW S
  PROVE  /\ Front(s) \in Seq(X) /\ Len(Front(s)) = Len(s) - 1 /\ Len(s) \in Nat \ {0}
         /\ Last(s) = s[Len(s)] /\ \A i \in 1 .. Len(s) - 1 : Front(s)[i] = s[i]
         /\ Last(s) \in S => Count(S, Front(s)) = Count(S, s) - 1
         /\ Last(s) \notin S => Count(S, Front(s)) = Count(S, s)
         /\ \A p \in 0 .. Len(s) - 1 : CountTo(S, Front(s), p) = CountTo(S, s, p)
<1> DEFINE t == Front(s)
<1>1. /\ t \in Seq(X) /\ Len(t) = Len(s) - 1 /\ Len(s) \in Nat \ {0}
      /\ \A i \in 1 .. Len(s) - 1 : t[i] = s[i]
  BY FrontTyped
<1>2. Last(s) = s[Len(s)]
  BY DEF Last
<1> HIDE DEF t
<1>3. PICK n \in Nat : n = Len(t) /\ Len(s) = n + 1 /\ n = Len(s) - 1
  BY <1>1
<1>4. ASSUME NEW p \in 0 .. n PROVE CountTo(S, t, p) = CountTo(S, s, p)
  <2>1. p \in Nat /\ \A i \in 1 .. p : t[i] = s[i]
    BY <1>1, <1>3
  <2> QED BY <2>1, CountSame
<1>5. CountTo(S, t, n) = CountTo(S, s, n) /\ CountTo(S, s, n) \in Nat
  <2>1. n \in 0 .. n /\ n \in Nat
    OBVIOUS
  <2> QED BY <1>4, <2>1, CountSets
<1>6. /\ s[n + 1] \in S => CountTo(S, s, n + 1) = CountTo(S, s, n) + 1
      /\ s[n + 1] \notin S => CountTo(S, s, n + 1) = CountTo(S, s, n)
  BY CountIs
<1>7. Count(S, t) = CountTo(S, s, n) /\ Count(S, s) = CountTo(S, s, n + 1) /\ Last(s) = s[n + 1]
  BY <1>2, <1>3, <1>5 DEF Count
<1> QED BY <1>1, <1>2, <1>3, <1>4, <1>5, <1>6, <1>7 DEF t

-----------------------------------------------------------------------------
(* What the control stacks hold                                            *)

(* Loops begin at offsets of the code, later loops later, and those of ?DO *)
(* are among them; a LEAVE comes after the first loop's start.             *)
Loops(size, do, querydo, leave) ==
  /\ \A i \in 1 .. Len(do) : do[i] <= size
  /\ \A i, j \in 1 .. Len(do) : i < j => do[i] < do[j]
  /\ \A i, j \in 1 .. Len(querydo) : i < j => querydo[i] < querydo[j]
  /\ \A i \in 1 .. Len(querydo) : \E j \in 1 .. Len(do) : querydo[i] = do[j]
  /\ \A i \in 1 .. Len(leave) : do # <<>> /\ leave[i] > do[1]

Begins(size, begin) == \A i \in 1 .. Len(begin) : begin[i] <= size

(* The WHILE of an open BEGIN .. WHILE comes after its BEGIN.              *)
Whiles(n, begin, while) ==
  \A p \in 1 .. Len(n) : n[p] = "while" =>
    while[CountTo({"while"}, n, p)] > begin[CountTo({"begin", "while"}, n, p)]

(* An OF is in a CASE. *)
OfsInCases(n) == \A p \in 1 .. Len(n) : n[p] = "of" => p > 1 /\ n[p - 1] = "case"

(* How many of each kind are open; an ELSE takes the place of an IF, and a *)
(* WHILE of a BEGIN.                                                       *)
Ifs(n)    == Count({"if", "else"}, n)
Begun(n)  == Count({"begin", "while"}, n)
Waits(n)  == Count({"while"}, n)
Dos(n)    == Count({"do"}, n)
Ofs(n)    == Count({"of"}, n)
Cases(n)  == Count({"case"}, n)
Marks(q)  == Count({-1}, q)

(* Every open structure of n has its entries on the stacks c, and there    *)
(* are no others; the IF of a ?DO is one of them, and each CASE's mark.    *)
Shape(n, c) ==
  /\ Len(c["if"]) = Ifs(n) + Len(c["querydo"])
  /\ Len(c["begin"]) = Begun(n) /\ Len(c["while"]) = Waits(n)
  /\ Len(c["do"]) = Dos(n) /\ Len(c["of"]) = Ofs(n) /\ Marks(c["case"]) = Cases(n)
  /\ c["case"] # <<>> => c["case"][1] = -1
  /\ Whiles(n, c["begin"], c["while"])
  /\ OfsInCases(n)

(* The stacks c fit the code, of so many bytes, of a source with the open  *)
(* structures n.                                                           *)
Fit(size, c, n) ==
  /\ Loops(size, c["do"], c["querydo"], c["leave"])
  /\ Begins(size, c["begin"])
  /\ n # Crossed => Shape(n, c)

LEMMA StackTypes ==
  ASSUME NEW c \in [Stacks -> Seq(Int)], NEW st \in Stacks
  PROVE  /\ c[st] \in Seq(Int) /\ Len(c[st]) \in Nat
         /\ \A i \in 1 .. Len(c[st]) : c[st][i] \in Int
         /\ c[st] = <<>> <=> Len(c[st]) = 0
<1>1. c[st] \in Seq(Int)
  OBVIOUS
<1> DEFINE q == c[st]
<1> HIDE DEF q
<1>2. q \in Seq(Int)
  BY <1>1 DEF q
<1> QED BY <1>2, LenProperties, ElementOfSeq, EmptySeq DEF q

LEMMA StackNames ==
  /\ "if" \in Stacks /\ "begin" \in Stacks /\ "while" \in Stacks /\ "do" \in Stacks
  /\ "querydo" \in Stacks /\ "leave" \in Stacks /\ "recurse" \in Stacks
  /\ "case" \in Stacks /\ "of" \in Stacks
  BY DEF Stacks

(* The code may grow. *)
LEMMA FitGrows ==
  ASSUME NEW c \in [Stacks -> Seq(Int)], NEW n, NEW size \in Nat, NEW more \in Nat,
         size <= more, Fit(size, c, n)
  PROVE  Fit(more, c, n)
<1>1. Len(c["do"]) \in Nat /\ (\A i \in 1 .. Len(c["do"]) : c["do"][i] \in Int)
      /\ (\A i \in 1 .. Len(c["begin"]) : c["begin"][i] \in Int)
  BY StackNames, StackTypes
<1>2. \A i \in 1 .. Len(c["do"]) : c["do"][i] <= more
  <2> TAKE i \in 1 .. Len(c["do"])
  <2>1. c["do"][i] <= size /\ c["do"][i] \in Int
    BY <1>1 DEF Fit, Loops
  <2> QED BY <2>1
<1>3. \A i \in 1 .. Len(c["begin"]) : c["begin"][i] <= more
  <2> TAKE i \in 1 .. Len(c["begin"])
  <2>1. c["begin"][i] <= size /\ c["begin"][i] \in Int
    BY <1>1 DEF Fit, Begins
  <2> QED BY <2>1
<1> QED BY <1>2, <1>3 DEF Fit, Loops, Begins

(* Only recursestack is left out. *)
LEMMA FitSame ==
  ASSUME NEW c, NEW d, NEW n, NEW size, Fit(size, c, n),
         \A st \in Stacks \ {"recurse"} : d[st] = c[st]
  PROVE  Fit(size, d, n)
<1>1. /\ d["if"] = c["if"] /\ d["begin"] = c["begin"] /\ d["while"] = c["while"]
      /\ d["do"] = c["do"] /\ d["querydo"] = c["querydo"] /\ d["leave"] = c["leave"]
      /\ d["case"] = c["case"] /\ d["of"] = c["of"]
  BY DEF Stacks
<1> QED BY <1>1 DEF Fit, Shape

(* Stacks that are empty fit any code with no open structure, and only     *)
(* they do.                                                                *)
Cleared(c) == \A st \in Stacks \ {"recurse"} : c[st] = <<>>

LEMMA CountNothing ==
  /\ Ifs(<<>>) = 0 /\ Begun(<<>>) = 0 /\ Waits(<<>>) = 0 /\ Dos(<<>>) = 0
  /\ Ofs(<<>>) = 0 /\ Cases(<<>>) = 0 /\ Marks(<<>>) = 0
<1>1. Len(<<>>) = 0
  OBVIOUS
<1>2. \A S : Count(S, <<>>) = 0
  BY <1>1, CountIs DEF Count
<1> QED BY <1>2 DEF Ifs, Begun, Waits, Dos, Ofs, Cases, Marks

LEMMA CrossedIs == Crossed # <<>>
  BY DEF Crossed

LEMMA ClearedFits ==
  ASSUME NEW c, NEW size, Cleared(c)
  PROVE  Fit(size, c, <<>>)
<1>1. /\ c["if"] = <<>> /\ c["begin"] = <<>> /\ c["while"] = <<>> /\ c["do"] = <<>>
      /\ c["querydo"] = <<>> /\ c["leave"] = <<>> /\ c["case"] = <<>> /\ c["of"] = <<>>
  BY DEF Cleared, Stacks
<1>2. Len(<<>>) = 0
  OBVIOUS
<1>3. Loops(size, <<>>, <<>>, <<>>) /\ Begins(size, <<>>)
  BY <1>2 DEF Loops, Begins
<1>4. Whiles(<<>>, <<>>, <<>>) /\ OfsInCases(<<>>)
  BY <1>2 DEF Whiles, OfsInCases
<1>5. Shape(<<>>, c)
  BY <1>1, <1>2, <1>4, CountNothing DEF Shape
<1> QED BY <1>1, <1>3, <1>5 DEF Fit

LEMMA NothingOpen ==
  ASSUME NEW c \in [Stacks -> Seq(Int)], NEW size, Fit(size, c, <<>>)
  PROVE  Cleared(c)
<1>1. Shape(<<>>, c) /\ Loops(size, c["do"], c["querydo"], c["leave"])
  BY CrossedIs DEF Fit
<1>2. /\ Len(c["begin"]) = 0 /\ Len(c["while"]) = 0 /\ Len(c["do"]) = 0 /\ Len(c["of"]) = 0
      /\ Len(c["if"]) = 0 + Len(c["querydo"]) /\ Marks(c["case"]) = 0
  BY <1>1, CountNothing DEF Shape
<1>3. c["do"] = <<>>
  BY <1>2, StackNames, StackTypes
<1>4. Len(c["querydo"]) = 0
  <2> SUFFICES ASSUME Len(c["querydo"]) # 0 PROVE FALSE
    OBVIOUS
  <2>1. Len(c["querydo"]) \in Nat
    BY StackNames, StackTypes
  <2>2. 1 \in 1 .. Len(c["querydo"])
    BY <2>1
  <2>3. \E j \in 1 .. Len(c["do"]) : c["querydo"][1] = c["do"][j]
    BY <1>1, <2>2 DEF Loops
  <2> QED BY <1>2, <2>3
<1>5. Len(c["leave"]) = 0
  <2> SUFFICES ASSUME Len(c["leave"]) # 0 PROVE FALSE
    OBVIOUS
  <2>1. Len(c["leave"]) \in Nat
    BY StackNames, StackTypes
  <2>2. 1 \in 1 .. Len(c["leave"])
    BY <2>1
  <2> QED BY <1>1, <1>3, <2>2 DEF Loops
<1>6. Len(c["case"]) = 0
  <2> SUFFICES ASSUME Len(c["case"]) # 0 PROVE FALSE
    OBVIOUS
  <2>1. Len(c["case"]) \in Nat /\ c["case"] # <<>>
    BY StackNames, StackTypes
  <2>2. 1 \in 1 .. Len(c["case"]) /\ c["case"][1] \in {-1}
    BY <1>1, <2>1 DEF Shape
  <2>3. CountTo({-1}, c["case"], 1) \in 1 .. CountTo({-1}, c["case"], Len(c["case"]))
    BY <2>1, <2>2, CountPlace
  <2> QED BY <1>2, <2>3 DEF Marks, Count
<1>7. Len(c["if"]) = 0
  BY <1>2, <1>4
<1>8. ASSUME NEW st \in Stacks \ {"recurse"} PROVE Len(c[st]) = 0
  BY <1>2, <1>4, <1>5, <1>6, <1>7 DEF Stacks
<1> QED BY <1>8, StackTypes DEF Cleared

-----------------------------------------------------------------------------
(* Structures opened and closed *)

LEMMA WhilesShort ==
  ASSUME NEW n \in Seq(Structures), n # <<>>, NEW begin, NEW while, Whiles(n, begin, while)
  PROVE  Whiles(Front(n), begin, while)
<1>9. /\ Len(Front(n)) = Len(n) - 1 /\ Len(n) \in Nat \ {0}
      /\ \A i \in 1 .. Len(n) - 1 : Front(n)[i] = n[i]
  BY FrontTyped
<1>1. PICK k \in Nat : Len(n) = k + 1 /\ Len(Front(n)) = k
  <2>1. Len(n) - 1 \in Nat /\ Len(n) = (Len(n) - 1) + 1
    BY ONLY <1>9
  <2> QED BY <1>9, <2>1
<1>2. ASSUME NEW p \in 1 .. k, Front(n)[p] = "while"
      PROVE  while[CountTo({"while"}, Front(n), p)] > begin[CountTo({"begin", "while"}, Front(n), p)]
  <2>1. p \in 0 .. Len(n) - 1 /\ p \in 1 .. Len(n) /\ p \in 1 .. Len(n) - 1
    BY <1>1
  <2>2. \A S : CountTo(S, Front(n), p) = CountTo(S, n, p)
    BY ONLY <2>1, CountFront, n \in Seq(Structures), n # <<>>
  <2>3. Front(n)[p] = n[p] /\ CountTo({"while"}, Front(n), p) = CountTo({"while"}, n, p)
        /\ CountTo({"begin", "while"}, Front(n), p) = CountTo({"begin", "while"}, n, p)
    BY <1>9, <2>1, <2>2
  <2> QED BY <1>2, <2>1, <2>3 DEF Whiles
<1> QED BY <1>1, <1>2 DEF Whiles

(* A WHILE that is new comes after the last BEGIN. *)
LEMMA WhilesMore ==
  ASSUME NEW n \in Seq(Structures), NEW x \in Structures, NEW begin, NEW while,
         Whiles(n, begin, while),
         x = "while" => while[Count({"while"}, n) + 1] > begin[Count({"begin", "while"}, n) + 1]
  PROVE  Whiles(Append(n, x), begin, while)
<1> DEFINE m == Append(n, x)
<1>1. Len(m) = Len(n) + 1 /\ m[Len(n) + 1] = x /\ Len(n) \in Nat /\ \A i \in 1 .. Len(n) : m[i] = n[i]
  BY CountAppend
<1>2. ASSUME NEW p \in 1 .. Len(n) + 1, m[p] = "while"
      PROVE  while[CountTo({"while"}, m, p)] > begin[CountTo({"begin", "while"}, m, p)]
  <2>1. CASE p = Len(n) + 1
    <3>1. x = "while" /\ x \in {"while"} /\ x \in {"begin", "while"}
      BY <1>1, <1>2, <2>1
    <3>2. Count({"while"}, m) = Count({"while"}, n) + 1
          /\ Count({"begin", "while"}, m) = Count({"begin", "while"}, n) + 1
      BY <3>1, CountAppend
    <3>3. CountTo({"while"}, m, p) = Count({"while"}, m)
          /\ CountTo({"begin", "while"}, m, p) = Count({"begin", "while"}, m)
      BY <1>1, <2>1 DEF Count
    <3> HIDE DEF m
    <3> QED BY <3>1, <3>2, <3>3
  <2>2. CASE p # Len(n) + 1
    <3>1. p \in 1 .. Len(n) /\ p \in 0 .. Len(n)
      BY <1>1, <2>2
    <3>2. m[p] = n[p] /\ CountTo({"while"}, m, p) = CountTo({"while"}, n, p)
          /\ CountTo({"begin", "while"}, m, p) = CountTo({"begin", "while"}, n, p)
      BY <1>1, <3>1, CountAppend
    <3> HIDE DEF m
    <3> QED BY <1>2, <3>1, <3>2 DEF Whiles
  <2> QED BY <2>1, <2>2
<1> HIDE DEF m
<1>3. Whiles(m, begin, while)
  BY <1>1, <1>2 DEF Whiles
<1> QED BY <1>3 DEF m

(* Only the entries of open structures matter. *)
LEMMA WhilesSame ==
  ASSUME NEW n \in Seq(Structures), NEW begin, NEW while, NEW b, NEW w, Whiles(n, begin, while),
         \A i \in 1 .. Count({"begin", "while"}, n) : b[i] = begin[i],
         \A i \in 1 .. Count({"while"}, n) : w[i] = while[i]
  PROVE  Whiles(n, b, w)
<1>1. Len(n) \in Nat
  BY LenProperties
<1>2. ASSUME NEW p \in 1 .. Len(n), n[p] = "while"
      PROVE  w[CountTo({"while"}, n, p)] > b[CountTo({"begin", "while"}, n, p)]
  <2>1. n[p] \in {"while"} /\ n[p] \in {"begin", "while"}
    BY <1>2
  <2>2. CountTo({"while"}, n, p) \in 1 .. Count({"while"}, n)
    BY <1>1, <2>1, CountPlace DEF Count
  <2>3. CountTo({"begin", "while"}, n, p) \in 1 .. Count({"begin", "while"}, n)
    BY <1>1, <2>1, CountPlace DEF Count
  <2>4. while[CountTo({"while"}, n, p)] > begin[CountTo({"begin", "while"}, n, p)]
    BY <1>2 DEF Whiles
  <2> QED BY <2>2, <2>3, <2>4
<1> QED BY <1>2 DEF Whiles

LEMMA OfsShort ==
  ASSUME NEW n \in Seq(Structures), n # <<>>, OfsInCases(n)
  PROVE  OfsInCases(Front(n))
<1>1. PICK k \in Nat : Len(n) = k + 1 /\ Len(Front(n)) = k /\ \A i \in 1 .. k : Front(n)[i] = n[i]
  <2>1. Len(n) \in Nat \ {0} /\ Len(Front(n)) = Len(n) - 1
        /\ \A i \in 1 .. Len(n) - 1 : Front(n)[i] = n[i]
    BY CountFront
  <2>2. Len(n) - 1 \in Nat /\ Len(n) = Len(n) - 1 + 1
    BY <2>1
  <2> QED BY <2>1, <2>2
<1>2. ASSUME NEW p \in 1 .. k, Front(n)[p] = "of" PROVE p > 1 /\ Front(n)[p - 1] = "case"
  <2>1. p \in 1 .. Len(n) /\ n[p] = "of"
    BY <1>1, <1>2
  <2>2. p > 1 /\ n[p - 1] = "case"
    BY <2>1 DEF OfsInCases
  <2>3. p - 1 \in 1 .. k
    BY <2>2
  <2> QED BY <1>1, <2>2, <2>3
<1> QED BY <1>1, <1>2 DEF OfsInCases

LEMMA OfsMore ==
  ASSUME NEW n \in Seq(Structures), NEW x \in Structures, OfsInCases(n),
         x = "of" => n # <<>> /\ Last(n) = "case"
  PROVE  OfsInCases(Append(n, x))
<1> DEFINE m == Append(n, x)
<1>1. Len(m) = Len(n) + 1 /\ m[Len(n) + 1] = x /\ Len(n) \in Nat /\ \A i \in 1 .. Len(n) : m[i] = n[i]
  BY CountAppend
<1> HIDE DEF m
<1>2. ASSUME NEW p \in 1 .. Len(n) + 1, m[p] = "of" PROVE p > 1 /\ m[p - 1] = "case"
  <2>1. CASE p = Len(n) + 1
    <3>1. n # <<>> /\ n[Len(n)] = "case"
      BY <1>1, <1>2, <2>1 DEF Last
    <3>2. Len(n) # 0
      BY <3>1, EmptySeq
    <3>3. p - 1 = Len(n) /\ Len(n) \in 1 .. Len(n)
      BY <1>1, <2>1, <3>2
    <3>4. m[p - 1] = "case"
      BY <1>1, <3>1, <3>3
    <3> QED BY <1>1, <2>1, <3>2, <3>4
  <2>2. CASE p # Len(n) + 1
    <3>1. p \in 1 .. Len(n) /\ n[p] = "of"
      BY <1>1, <1>2, <2>2
    <3>2. p > 1 /\ n[p - 1] = "case"
      BY <3>1 DEF OfsInCases
    <3>3. p - 1 \in 1 .. Len(n)
      BY <1>1, <3>1, <3>2
    <3> QED BY <1>1, <3>2, <3>3
  <2> QED BY <2>1, <2>2
<1> QED BY <1>1, <1>2 DEF OfsInCases, m

(* How a step changes the numbers of open structures. *)
Counted(n, m, i, b, w, d, o, k) ==
  /\ Ifs(m) = Ifs(n) + i /\ Begun(m) = Begun(n) + b /\ Waits(m) = Waits(n) + w
  /\ Dos(m) = Dos(n) + d /\ Ofs(m) = Ofs(n) + o /\ Cases(m) = Cases(n) + k

LEMMA CountsNat ==
  ASSUME NEW n \in Seq(Structures)
  PROVE  /\ Ifs(n) \in Nat /\ Begun(n) \in Nat /\ Waits(n) \in Nat /\ Dos(n) \in Nat
         /\ Ofs(n) \in Nat /\ Cases(n) \in Nat
<1>1. \A S : Count(S, n) \in Nat
  BY LenProperties, CountSets DEF Count
<1> QED BY <1>1 DEF Ifs, Begun, Waits, Dos, Ofs, Cases

LEMMA CountsMore ==
  ASSUME NEW n \in Seq(Structures), NEW x \in Structures
  PROVE  LET m == Append(n, x) IN
         /\ x \in {"if", "else"} => Counted(n, m, 1, 0, 0, 0, 0, 0)
         /\ x = "begin" => Counted(n, m, 0, 1, 0, 0, 0, 0)
         /\ x = "while" => Counted(n, m, 0, 1, 1, 0, 0, 0)
         /\ x = "do" => Counted(n, m, 0, 0, 0, 1, 0, 0)
         /\ x = "of" => Counted(n, m, 0, 0, 0, 0, 1, 0)
         /\ x = "case" => Counted(n, m, 0, 0, 0, 0, 0, 1)
<1> DEFINE m == Append(n, x)
<1>1. \A S : /\ x \in S => Count(S, m) = Count(S, n) + 1
             /\ x \notin S => Count(S, m) = Count(S, n)
  BY CountAppend
<1>2. \A S : Count(S, n) \in Nat
  BY LenProperties, CountSets DEF Count
<1> HIDE DEF m
<1>3. \A S : /\ x \in S => Count(S, m) = Count(S, n) + 1
             /\ x \notin S => Count(S, m) = Count(S, n) + 0
  BY <1>1, <1>2
<1>4. ASSUME x \in {"if", "else"} PROVE Counted(n, m, 1, 0, 0, 0, 0, 0)
  BY <1>3, <1>4 DEF Counted, Ifs, Begun, Waits, Dos, Ofs, Cases
<1>5. ASSUME x = "begin" PROVE Counted(n, m, 0, 1, 0, 0, 0, 0)
  BY <1>3, <1>5 DEF Counted, Ifs, Begun, Waits, Dos, Ofs, Cases
<1>6. ASSUME x = "while" PROVE Counted(n, m, 0, 1, 1, 0, 0, 0)
  BY <1>3, <1>6 DEF Counted, Ifs, Begun, Waits, Dos, Ofs, Cases
<1>7. ASSUME x = "do" PROVE Counted(n, m, 0, 0, 0, 1, 0, 0)
  BY <1>3, <1>7 DEF Counted, Ifs, Begun, Waits, Dos, Ofs, Cases
<1>8. ASSUME x = "of" PROVE Counted(n, m, 0, 0, 0, 0, 1, 0)
  BY <1>3, <1>8 DEF Counted, Ifs, Begun, Waits, Dos, Ofs, Cases
<1>9. ASSUME x = "case" PROVE Counted(n, m, 0, 0, 0, 0, 0, 1)
  BY <1>3, <1>9 DEF Counted, Ifs, Begun, Waits, Dos, Ofs, Cases
<1> QED BY <1>4, <1>5, <1>6, <1>7, <1>8, <1>9 DEF m

(* A structure is its front and its last. *)
LEMMA FrontAndLast ==
  ASSUME NEW X, NEW n \in Seq(X), n # <<>>
  PROVE  Front(n) \in Seq(X) /\ Last(n) \in X /\ Append(Front(n), Last(n)) = n
<1>1. /\ Front(n) \in Seq(X) /\ Last(n) \in X /\ Len(n) \in Nat \ {0} /\ Len(Front(n)) = Len(n) - 1
      /\ Last(n) = n[Len(n)] /\ \A i \in 1 .. Len(n) - 1 : Front(n)[i] = n[i]
  BY FrontTyped DEF Last
<1> DEFINE f == Front(n)
           x == Last(n)
<1>2. f \in Seq(X) /\ x \in X /\ Len(f) = Len(n) - 1 /\ x = n[Len(n)] /\ \A i \in 1 .. Len(n) - 1 : f[i] = n[i]
  BY <1>1
<1> HIDE DEF f, x
<1>3. Len(n) = Len(f) + 1 /\ Len(f) = Len(n) - 1
  BY <1>1, <1>2
<1>4. Append(f, x) = n
  BY <1>2, <1>3, Longer
<1> QED BY <1>1, <1>4 DEF f, x

LEMMA CountsLess ==
  ASSUME NEW n \in Seq(Structures), n # <<>>
  PROVE  LET m == Front(n) IN
         /\ Last(n) \in {"if", "else"} => Counted(n, m, -1, 0, 0, 0, 0, 0)
         /\ Last(n) = "begin" => Counted(n, m, 0, -1, 0, 0, 0, 0)
         /\ Last(n) = "while" => Counted(n, m, 0, -1, -1, 0, 0, 0)
         /\ Last(n) = "do" => Counted(n, m, 0, 0, 0, -1, 0, 0)
         /\ Last(n) = "of" => Counted(n, m, 0, 0, 0, 0, -1, 0)
         /\ Last(n) = "case" => Counted(n, m, 0, 0, 0, 0, 0, -1)
<1>1. Front(n) \in Seq(Structures) /\ Last(n) \in Structures /\ Append(Front(n), Last(n)) = n
  BY FrontAndLast
<1> DEFINE m == Front(n)
           x == Last(n)
<1> HIDE DEF m, x
<1>2. m \in Seq(Structures) /\ x \in Structures /\ Append(m, x) = n
  BY <1>1 DEF m, x
<1>3. /\ x \in {"if", "else"} => Counted(m, n, 1, 0, 0, 0, 0, 0)
      /\ x = "begin" => Counted(m, n, 0, 1, 0, 0, 0, 0)
      /\ x = "while" => Counted(m, n, 0, 1, 1, 0, 0, 0)
      /\ x = "do" => Counted(m, n, 0, 0, 0, 1, 0, 0)
      /\ x = "of" => Counted(m, n, 0, 0, 0, 0, 1, 0)
      /\ x = "case" => Counted(m, n, 0, 0, 0, 0, 0, 1)
  BY <1>2, CountsMore
<1>4. /\ Ifs(m) \in Nat /\ Begun(m) \in Nat /\ Waits(m) \in Nat /\ Dos(m) \in Nat
      /\ Ofs(m) \in Nat /\ Cases(m) \in Nat
  BY <1>2, CountsNat
<1>5. /\ x \in {"if", "else"} => Counted(n, m, -1, 0, 0, 0, 0, 0)
      /\ x = "begin" => Counted(n, m, 0, -1, 0, 0, 0, 0)
      /\ x = "while" => Counted(n, m, 0, -1, -1, 0, 0, 0)
      /\ x = "do" => Counted(n, m, 0, 0, 0, -1, 0, 0)
      /\ x = "of" => Counted(n, m, 0, 0, 0, 0, -1, 0)
      /\ x = "case" => Counted(n, m, 0, 0, 0, 0, 0, -1)
  BY <1>3, <1>4 DEF Counted
<1> QED BY <1>5 DEF m, x

(* What a word does to structures that nest. *)
LEMMA NestedIs ==
  ASSUME NEW n \in Seq(Structures), NEW t, Nested(t, n) # Crossed
  PROVE  LET m == Nested(t, n) IN
         /\ n # Crossed /\ t # "UNLOOP"
         /\ t = "IF" => m = Append(n, "if")
         /\ t = "BEGIN" => m = Append(n, "begin")
         /\ t \in {"DO", "?DO"} => m = Append(n, "do")
         /\ t = "CASE" => m = Append(n, "case")
         /\ t = "LEAVE" => m = n /\ "do" \in Range(n)
         /\ t \in Closers => n # <<>>
         /\ t = "ELSE" => Last(n) = "if" /\ m = Append(Front(n), "else")
         /\ t = "THEN" => Last(n) \in {"if", "else"} /\ m = Front(n)
         /\ t = "WHILE" => Last(n) = "begin" /\ m = Append(Front(n), "while")
         /\ t \in {"UNTIL", "AGAIN"} => Last(n) = "begin" /\ m = Front(n)
         /\ t = "REPEAT" => Last(n) = "while" /\ m = Front(n)
         /\ t = "LOOP" => Last(n) = "do" /\ m = Front(n)
         /\ t = "OF" => Last(n) = "case" /\ m = Append(n, "of")
         /\ t = "ENDOF" => Last(n) = "of" /\ m = Front(n)
         /\ t = "ENDCASE" => Last(n) = "case" /\ m = Front(n)
         /\ t \notin Openers \cup Closers \cup {"LEAVE"} => m = n
<1>1. n # Crossed /\ t # "UNLOOP"
  BY DEF Nested
<1>2. \A q \in Seq(Structures) : q \o <<>> = q /\ \A x \in Structures : q \o <<x>> = Append(q, x)
  BY ConcatEmptySeq, AppendIsConcat
<1>3. \A x \in {"if", "else", "begin", "while", "do", "case", "of"} : x \in Structures
  BY DEF Structures
<1>4. CASE t = "LEAVE"
  BY <1>1, <1>4 DEF Nested, Closers, Openers
<1>5. CASE t \notin Closers \cup {"LEAVE"}
  <2>1. Nested(t, n) = n \o Puts(t) /\ t \notin Closers
    BY <1>1, <1>5 DEF Nested
  <2>2. t = "IF" => Puts(t) = <<"if">>
    BY DEF Puts
  <2>3. t = "BEGIN" => Puts(t) = <<"begin">>
    BY DEF Puts
  <2>4. t \in {"DO", "?DO"} => Puts(t) = <<"do">>
    BY DEF Puts
  <2>5. t = "CASE" => Puts(t) = <<"case">>
    BY DEF Puts
  <2>6. t \notin Openers \cup Closers => Puts(t) = <<>>
    BY DEF Puts, Openers, Closers
  <2>7. t \notin {"ELSE", "THEN", "WHILE", "UNTIL", "AGAIN", "REPEAT", "LOOP", "OF", "ENDOF", "ENDCASE"}
    BY <1>5 DEF Closers
  <2> QED BY <1>1, <1>2, <1>3, <1>5, <2>1, <2>2, <2>3, <2>4, <2>5, <2>6, <2>7
<1>6. CASE t \in Closers
  <2>1. n # <<>> /\ Last(n) \in Needs(t) /\ Nested(t, n) = Front(n) \o Puts(t)
    <3>1. t # "LEAVE"
      BY <1>6 DEF Closers
    <3> QED BY <1>1, <1>6, <3>1 DEF Nested
  <2>2. Front(n) \in Seq(Structures) /\ Append(Front(n), Last(n)) = n
    BY <2>1, FrontAndLast
  <2>3. t \notin {"IF", "BEGIN", "DO", "?DO", "CASE", "LEAVE"}
    BY <1>6 DEF Closers
  <2>4. t = "ELSE" => Needs(t) = {"if"} /\ Puts(t) = <<"else">>
    BY DEF Puts, Needs
  <2>5. t = "THEN" => Needs(t) = {"if", "else"} /\ Puts(t) = <<>>
    BY DEF Puts, Needs
  <2>6. t = "WHILE" => Needs(t) = {"begin"} /\ Puts(t) = <<"while">>
    BY DEF Puts, Needs
  <2>7. t \in {"UNTIL", "AGAIN"} => Needs(t) = {"begin"} /\ Puts(t) = <<>>
    BY DEF Puts, Needs
  <2>8. t = "REPEAT" => Needs(t) = {"while"} /\ Puts(t) = <<>>
    BY DEF Puts, Needs
  <2>9. t = "LOOP" => Needs(t) = {"do"} /\ Puts(t) = <<>>
    BY DEF Puts, Needs
  <2>10. t = "OF" => Needs(t) = {"case"} /\ Puts(t) = <<"case", "of">>
    BY DEF Puts, Needs
  <2>11. t = "ENDOF" => Needs(t) = {"of"} /\ Puts(t) = <<>>
    BY DEF Puts, Needs
  <2>12. t = "ENDCASE" => Needs(t) = {"case"} /\ Puts(t) = <<>>
    BY DEF Puts, Needs
  <2>13. \A q \in Seq(Structures) : q \o <<"case", "of">> = Append(Append(q, "case"), "of")
    <3> TAKE q \in Seq(Structures)
    <3>1. PICK x \in Structures : x = "case"
      BY <1>3
    <3>2. PICK y \in Structures : y = "of"
      BY <1>3
    <3>3. <<x>> \in Seq(Structures) /\ <<y>> \in Seq(Structures)
      <4>1. <<x>> = Append(<<>>, x) /\ <<y>> = Append(<<>>, y) /\ <<>> \in Seq(Structures)
        BY Tuples, EmptySeq
      <4> QED BY <4>1, AppendProperties
    <3>4. <<x>> \o <<y>> = <<x, y>>
      <4>1. <<x>> \o <<y>> = Append(<<x>>, y)
        BY <3>3, AppendIsConcat
      <4> QED BY <4>1, Tuples
    <3>5. q \o (<<x>> \o <<y>>) = (q \o <<x>>) \o <<y>>
      BY <3>3, ConcatAssociative
    <3>6. q \o <<x>> = Append(q, x) /\ Append(q, x) \in Seq(Structures)
      BY <1>2, AppendProperties
    <3>7. Append(q, x) \o <<y>> = Append(Append(q, x), y)
      BY <1>2, <3>6
    <3> QED BY <3>1, <3>2, <3>4, <3>5, <3>6, <3>7
  <2>14. t = "OF" => Nested(t, n) = Append(n, "of") /\ Last(n) = "case"
    BY <2>1, <2>2, <2>10, <2>13
  <2>15. \A x \in Structures : Front(n) \o <<x>> = Append(Front(n), x)
    BY <1>2, <2>2
  <2>16. Front(n) \o <<>> = Front(n)
    BY <1>2, <2>2
  <2>17. "else" \in Structures /\ "while" \in Structures
    BY <1>3
  <2> QED BY <1>1, <1>6, <2>1, <2>3, <2>4, <2>5, <2>6, <2>7, <2>8, <2>9, <2>11, <2>12, <2>14, <2>15, <2>16, <2>17
<1> QED BY <1>4, <1>5, <1>6

-----------------------------------------------------------------------------
(* How the steps of a word change the control stacks and the size          *)

Others(c, d, st) == \A u \in Stacks \ {st} : d[u] = c[u]

(* r is s with another stack st, and a code that is no shorter. *)
Restacks(s, r, st) ==
  /\ r \in CState /\ r.e = s.e /\ Others(s.ctl, r.ctl, st)
  /\ Size(r.code) >= Size(s.code) /\ Size(s.code) \in Nat /\ Size(r.code) \in Nat

LEMMA OpIs ==
  ASSUME NEW s \in CState, NEW op \in Opcodes, NEW arg \in Args
  PROVE  /\ Jump(s, op, arg) \in CState /\ Jump(s, op, arg).e = s.e /\ Jump(s, op, arg).ctl = s.ctl
         /\ Size(Jump(s, op, arg).code) > Size(s.code)
         /\ Size(s.code) \in Nat /\ Size(Jump(s, op, arg).code) \in Nat
<1>1. s.code \in Seq(Instructions) /\ Size(s.code) \in Nat
  BY StateFields, SizeNat
<1>2. /\ Jump(s, op, arg) \in CState /\ Jump(s, op, arg).e = s.e /\ Jump(s, op, arg).ctl = s.ctl
      /\ Jump(s, op, arg).code = Emit(s.code, op, arg)
  BY JumpTyped
<1>3. Size(Emit(s.code, op, arg)) = Size(s.code) + Width(op) /\ Width(op) \in Nat \ {0}
  BY <1>1, EmitTyped, WidthNat
<1> QED BY <1>1, <1>2, <1>3

LEMMA PushedIs ==
  ASSUME NEW s \in CState, NEW st \in Stacks, NEW i \in Int
  PROVE  /\ Restacks(s, Pushed(s, st, i), st)
         /\ Pushed(s, st, i).ctl[st] = Append(s.ctl[st], i)
         /\ Size(Pushed(s, st, i).code) = Size(s.code)
<1> DEFINE r == Pushed(s, st, i)
<1>1. r \in CState /\ r.code = s.code /\ r.e = s.e /\ r.ctl = [s.ctl EXCEPT ![st] = Append(@, i)]
  BY PushedTyped
<1>2. s.ctl \in [Stacks -> Seq(Int)] /\ Size(s.code) \in Nat
  BY StateFields, SizeNat
<1> HIDE DEF r
<1>3. r.ctl[st] = Append(s.ctl[st], i) /\ Others(s.ctl, r.ctl, st)
  BY <1>1, <1>2 DEF Others
<1> QED BY <1>1, <1>2, <1>3 DEF Restacks, r

LEMMA PoppedIs ==
  ASSUME NEW s \in CState, NEW st \in Stacks, s.ctl[st] # <<>>
  PROVE  /\ Restacks(s, Popped(s, st), st)
         /\ Popped(s, st).ctl[st] = Front(s.ctl[st])
         /\ Size(Popped(s, st).code) = Size(s.code) /\ TopOf(s, st) \in Int
<1> DEFINE r == Popped(s, st)
<1>1. r \in CState /\ r.code = s.code /\ r.e = s.e /\ r.ctl = [s.ctl EXCEPT ![st] = Front(@)]
      /\ TopOf(s, st) \in Int
  <2>1. ~IsEmpty(s, st)
    BY DEF IsEmpty
  <2> QED BY <2>1, PoppedTyped
<1>2. s.ctl \in [Stacks -> Seq(Int)] /\ Size(s.code) \in Nat
  BY StateFields, SizeNat
<1> HIDE DEF r
<1>3. r.ctl[st] = Front(s.ctl[st]) /\ Others(s.ctl, r.ctl, st)
  BY <1>1, <1>2 DEF Others
<1> QED BY <1>1, <1>2, <1>3 DEF Restacks, r

LEMMA JumpAheadIs ==
  ASSUME NEW s \in CState, NEW op \in Opcodes, NEW st \in Stacks
  PROVE  /\ Restacks(s, JumpAhead(s, op, st), st)
         /\ JumpAhead(s, op, st).ctl[st] = Append(s.ctl[st], Size(s.code) + 1)
         /\ Size(JumpAhead(s, op, st).code) > Size(s.code)
<1>1. Hole \in Args
  BY DEF Args
<1> DEFINE t == Jump(s, op, Hole)
           i == Size(s.code) + 1
<1>2. /\ t \in CState /\ t.e = s.e /\ t.ctl = s.ctl /\ Size(t.code) > Size(s.code)
      /\ Size(s.code) \in Nat /\ Size(t.code) \in Nat
  BY <1>1, OpIs
<1>3. i \in Int
  BY <1>2
<1>4. JumpAhead(s, op, st) = Pushed(t, st, i)
  BY DEF JumpAhead
<1> HIDE DEF t, i
<1>5. /\ Restacks(t, Pushed(t, st, i), st) /\ Pushed(t, st, i).ctl[st] = Append(s.ctl[st], i)
      /\ Size(Pushed(t, st, i).code) = Size(t.code)
  BY <1>2, <1>3, PushedIs
<1> QED BY <1>2, <1>4, <1>5 DEF Restacks, i

LEMMA LandIs ==
  ASSUME NEW s \in CState, NEW st \in Stacks, s.ctl[st] # <<>>, NEW n \in Int
  PROVE  /\ Restacks(s, Land(s, st, n), st)
         /\ Land(s, st, n).ctl[st] = Front(s.ctl[st])
         /\ Size(Land(s, st, n).code) = Size(s.code)
<1> DEFINE t == Popped(s, st)
           r == OpsCopyInt(t, {TopOf(s, st)}, n)
<1>1. /\ Restacks(s, t, st) /\ t.ctl[st] = Front(s.ctl[st]) /\ Size(t.code) = Size(s.code)
  BY PoppedIs
<1>2. t \in CState
  BY <1>1 DEF Restacks
<1> HIDE DEF t
<1>3. r \in CState /\ r.ctl = t.ctl /\ r.e = t.e /\ Size(r.code) = Size(t.code)
  BY <1>2, CopyTyped
<1>4. Land(s, st, n) = r
  BY DEF Land, r, t
<1> HIDE DEF r
<1> QED BY <1>1, <1>3, <1>4 DEF Restacks

(* Where loops and BEGINs start does not change with the other stacks.     *)
LEMMA PlacesSame ==
  ASSUME NEW s \in CState, NEW r \in CState, NEW n, Fit(Size(s.code), s.ctl, n),
         Size(r.code) >= Size(s.code),
         \A st \in {"begin", "do", "querydo", "leave"} : r.ctl[st] = s.ctl[st]
  PROVE  /\ Loops(Size(r.code), r.ctl["do"], r.ctl["querydo"], r.ctl["leave"])
         /\ Begins(Size(r.code), r.ctl["begin"])
<1>1. s.ctl \in [Stacks -> Seq(Int)] /\ Size(s.code) \in Nat /\ Size(r.code) \in Nat
  BY StateFields, SizeNat
<1>2. Fit(Size(r.code), s.ctl, n)
  BY <1>1, FitGrows
<1>3. /\ r.ctl["begin"] = s.ctl["begin"] /\ r.ctl["do"] = s.ctl["do"]
      /\ r.ctl["querydo"] = s.ctl["querydo"] /\ r.ctl["leave"] = s.ctl["leave"]
  OBVIOUS
<1> QED BY <1>2, <1>3 DEF Fit

(* How a step changes the lengths of the stacks; ?DO and its LOOP have q   *)
(* entries more in ifstack and querydostack.                               *)
Resized(c, d, i, b, w, l, o, k, q) ==
  /\ Len(d["if"]) = Len(c["if"]) + i + q /\ Len(d["querydo"]) = Len(c["querydo"]) + q
  /\ Len(d["begin"]) = Len(c["begin"]) + b /\ Len(d["while"]) = Len(c["while"]) + w
  /\ Len(d["do"]) = Len(c["do"]) + l /\ Len(d["of"]) = Len(c["of"]) + o
  /\ Marks(d["case"]) = Marks(c["case"]) + k

(* The stacks follow the structures. *)
LEMMA ShapeIs ==
  ASSUME NEW c \in [Stacks -> Seq(Int)], NEW d, NEW n \in Seq(Structures), NEW m, Shape(n, c),
         NEW i \in Int, NEW b \in Int, NEW w \in Int, NEW l \in Int, NEW o \in Int, NEW k \in Int,
         NEW q \in Int, Counted(n, m, i, b, w, l, o, k), Resized(c, d, i, b, w, l, o, k, q),
         d["case"] # <<>> => d["case"][1] = -1,
         Whiles(m, d["begin"], d["while"]), OfsInCases(m)
  PROVE  Shape(m, d)
<1>1. /\ Ifs(n) \in Nat /\ Begun(n) \in Nat /\ Waits(n) \in Nat /\ Dos(n) \in Nat
      /\ Ofs(n) \in Nat /\ Cases(n) \in Nat
  BY CountsNat
<1>2. Len(c["querydo"]) \in Nat
  BY StackNames, StackTypes
<1>3. /\ Len(c["if"]) = Ifs(n) + Len(c["querydo"])
      /\ Len(c["begin"]) = Begun(n) /\ Len(c["while"]) = Waits(n)
      /\ Len(c["do"]) = Dos(n) /\ Len(c["of"]) = Ofs(n) /\ Marks(c["case"]) = Cases(n)
  BY DEF Shape
<1>4. /\ Ifs(m) = Ifs(n) + i /\ Begun(m) = Begun(n) + b /\ Waits(m) = Waits(n) + w
      /\ Dos(m) = Dos(n) + l /\ Ofs(m) = Ofs(n) + o /\ Cases(m) = Cases(n) + k
  BY DEF Counted
<1>5. Len(d["if"]) = Ifs(m) + Len(d["querydo"])
  <2>1. PICK x \in Nat, y \in Nat : x = Ifs(n) /\ y = Len(c["querydo"])
    BY <1>1, <1>2
  <2>2. Len(d["if"]) = (x + y) + i + q /\ Ifs(m) = x + i /\ Len(d["querydo"]) = y + q
    BY <1>3, <1>4, <2>1 DEF Resized
  <2>3. (x + y) + i + q = (x + i) + (y + q)
    OBVIOUS
  <2> QED BY ONLY <2>2, <2>3
<1>6. /\ Len(d["begin"]) = Begun(m) /\ Len(d["while"]) = Waits(m)
      /\ Len(d["do"]) = Dos(m) /\ Len(d["of"]) = Ofs(m) /\ Marks(d["case"]) = Cases(m)
  BY <1>1, <1>3, <1>4 DEF Resized
<1> QED BY <1>5, <1>6 DEF Shape

(* Stacks that a word leaves alone. *)
LEMMA OthersSame ==
  ASSUME NEW c \in [Stacks -> Seq(Int)], NEW d, NEW st \in Stacks, Others(c, d, st)
  PROVE  \A u \in Stacks \ {st} : Len(d[u]) = Len(c[u]) + 0 /\ Marks(d[u]) = Marks(c[u]) + 0
<1> TAKE u \in Stacks \ {st}
<1>1. c[u] \in Seq(Int) /\ Len(c[u]) \in Nat /\ d[u] = c[u]
  BY StackTypes DEF Others
<1>2. Marks(c[u]) \in Nat
  BY <1>1, CountSets DEF Marks, Count
<1> QED BY <1>1, <1>2

(* A word that is not refused leaves stacks that fit, and one that is      *)
(* refused does not nest.                                                  *)
Fits(s, r, n, t) ==
  /\ r \in CState
  /\ r.e = "none" => Fit(Size(r.code), r.ctl, Nested(t, n))
  /\ r.e # "none" => Nested(t, n) = Crossed

-----------------------------------------------------------------------------
(* IF, ELSE, THEN *)

LEMMA IfFits ==
  ASSUME NEW s \in CState, s.e = "none", NEW n \in Seq(Structures), Fit(Size(s.code), s.ctl, n)
  PROVE  Fits(s, CPP_if(s), n, "IF")
<1> DEFINE r == CPP_if(s)
           m == Nested("IF", n)
           c == s.ctl
           d == r.ctl
<1>1. "JZ" \in Opcodes /\ "if" \in Stacks
  BY DEF Opcodes, Stacks
<1>2. /\ r \in CState /\ r.e = "none" /\ Others(c, d, "if") /\ d["if"] = Append(c["if"], Size(s.code) + 1)
      /\ Size(r.code) >= Size(s.code) /\ Size(s.code) \in Nat
  BY <1>1, JumpAheadIs DEF CPP_if, Restacks
<1> HIDE DEF r
<1>3. /\ d["begin"] = c["begin"] /\ d["while"] = c["while"] /\ d["do"] = c["do"]
      /\ d["querydo"] = c["querydo"] /\ d["leave"] = c["leave"] /\ d["case"] = c["case"] /\ d["of"] = c["of"]
  BY <1>2 DEF Others, Stacks
<1>4. Loops(Size(r.code), d["do"], d["querydo"], d["leave"]) /\ Begins(Size(r.code), d["begin"])
  BY <1>2, <1>3, PlacesSame
<1>5. ASSUME m # Crossed PROVE Shape(m, d)
  <2>1. n # Crossed /\ m = Append(n, "if") /\ "if" \in Structures
    BY <1>5, NestedIs DEF Structures
  <2>2. c \in [Stacks -> Seq(Int)] /\ Shape(n, c)
    BY <2>1, StateFields DEF Fit
  <2>3. Counted(n, m, 1, 0, 0, 0, 0, 0)
    BY <2>1, CountsMore
  <2>4. Whiles(m, d["begin"], d["while"]) /\ OfsInCases(m)
    BY <1>3, <2>1, <2>2, WhilesMore, OfsMore DEF Shape
  <2>5. Len(d["if"]) = Len(c["if"]) + 1 + 0
    BY <1>1, <1>2, <2>2, StackTypes, AppendProperties
  <2>6. d["case"] # <<>> => d["case"][1] = -1
    BY <1>3, <2>2 DEF Shape
  <2> HIDE DEF m, c, d
  <2>7. \A u \in Stacks \ {"if"} : Len(d[u]) = Len(c[u]) + 0 /\ Marks(d[u]) = Marks(c[u]) + 0
    BY <1>1, <1>2, <2>2, OthersSame
  <2>8. Resized(c, d, 1, 0, 0, 0, 0, 0, 0)
    BY <2>5, <2>7 DEF Resized, Stacks
  <2> QED BY <2>2, <2>3, <2>4, <2>6, <2>8, ShapeIs
<1>6. Fit(Size(r.code), d, m)
  BY <1>4, <1>5 DEF Fit
<1> QED BY <1>2, <1>6 DEF Fits, r

LEMMA ElseIs ==
  ASSUME NEW s \in CState, s.e = "none"
  PROVE  LET r == CPP_else(s) IN
         /\ s.ctl["if"] # <<>> =>
              /\ Restacks(s, r, "if") /\ r.e = "none"
              /\ Len(r.ctl["if"]) = Len(s.ctl["if"]) /\ Size(r.code) > Size(s.code)
         /\ s.ctl["if"] = <<>> => r \in CState /\ r.e = "else without if"
<1> DEFINE t == Jump(s, "JMP", Hole)
           u == Land(t, "if", 0)
           i == Size(t.code) - WSIZE
<1>1. "JMP" \in Opcodes /\ "if" \in Stacks /\ Hole \in Args /\ "else without if" \in Codes
  BY DEF Opcodes, Stacks, Args, Codes, StructureErrors
<1>2. t \in CState /\ t.e = "none" /\ t.ctl = s.ctl /\ Size(t.code) > Size(s.code)
      /\ Size(s.code) \in Nat /\ Size(t.code) \in Nat
  BY <1>1, OpIs
<1>3. i \in Int
  BY <1>2, CompilerAssumption
<1>4. CPP_else(s) = IF t.ctl["if"] = <<>> THEN Fails(t, "else without if") ELSE Pushed(u, "if", i)
  BY DEF CPP_else, IsEmpty
<1> HIDE DEF t, i
<1>5. CASE s.ctl["if"] = <<>>
  <2>1. CPP_else(s) = Fails(t, "else without if")
    BY <1>2, <1>4, <1>5
  <2>2. Fails(t, "else without if") \in CState /\ Fails(t, "else without if").e = "else without if"
    BY <1>1, <1>2, FailsTyped
  <2> QED BY <1>5, <2>1, <2>2
<1>6. CASE s.ctl["if"] # <<>>
  <2>5. t.ctl["if"] # <<>> /\ 0 \in Int
    BY <1>2, <1>6
  <2>1. Restacks(t, u, "if") /\ u.ctl["if"] = Front(t.ctl["if"]) /\ Size(u.code) = Size(t.code)
    BY <1>1, <1>2, <2>5, LandIs
  <2> HIDE DEF u
  <2> DEFINE v == Pushed(u, "if", i)
  <2>2. u \in CState /\ Restacks(u, v, "if") /\ v.ctl["if"] = Append(u.ctl["if"], i)
        /\ Size(v.code) = Size(u.code)
    BY <1>1, <1>3, <2>1, PushedIs DEF Restacks
  <2>3. CPP_else(s) = v
    BY <1>2, <1>4, <1>6
  <2> HIDE DEF v
  <2>4. Restacks(s, v, "if") /\ v.e = "none" /\ Size(v.code) > Size(s.code)
    BY <1>2, <2>1, <2>2 DEF Restacks, Others
  <2>6. Len(v.ctl["if"]) = Len(s.ctl["if"])
    <3>1. s.ctl["if"] \in Seq(Int)
      BY <1>1, StateFields
    <3>2. PICK q \in Seq(Int) : q = s.ctl["if"]
      BY <3>1
    <3>3. Front(q) \in Seq(Int) /\ Len(Front(q)) = Len(q) - 1 /\ Len(q) \in Nat \ {0}
      BY <1>6, <3>2, FrontTyped
    <3>4. Len(Append(Front(q), i)) = Len(Front(q)) + 1
      BY <1>3, <3>3, AppendProperties
    <3>5. v.ctl["if"] = Append(Front(q), i)
      BY <1>2, <2>1, <2>2, <3>2
    <3> QED BY <3>2, <3>3, <3>4, <3>5
  <2> QED BY <1>6, <2>3, <2>4, <2>6
<1> QED BY <1>5, <1>6

LEMMA ThenIs ==
  ASSUME NEW s \in CState, s.e = "none"
  PROVE  LET r == CPP_then(s) IN
         /\ s.ctl["if"] # <<>> =>
              /\ Restacks(s, r, "if") /\ r.e = "none" /\ Size(r.code) = Size(s.code)
              /\ Len(r.ctl["if"]) = Len(s.ctl["if"]) - 1
         /\ s.ctl["if"] = <<>> => r \in CState /\ r.e = "then without if"
<1>1. "if" \in Stacks /\ "then without if" \in Codes /\ 0 \in Int
  BY DEF Stacks, Codes, StructureErrors
<1>2. CPP_then(s) = IF s.ctl["if"] = <<>> THEN Fails(s, "then without if") ELSE Land(s, "if", 0)
  BY DEF CPP_then, IsEmpty
<1>3. CASE s.ctl["if"] = <<>>
  BY <1>1, <1>2, <1>3, FailsTyped
<1>4. CASE s.ctl["if"] # <<>>
  <2> DEFINE u == Land(s, "if", 0)
  <2>1. Restacks(s, u, "if") /\ u.ctl["if"] = Front(s.ctl["if"]) /\ Size(u.code) = Size(s.code)
    BY <1>1, <1>4, LandIs
  <2>2. CPP_then(s) = u
    BY <1>2, <1>4
  <2> HIDE DEF u
  <2>3. Len(u.ctl["if"]) = Len(s.ctl["if"]) - 1
    <3>1. s.ctl["if"] \in Seq(Int)
      BY <1>1, StateFields
    <3> QED BY <1>4, <2>1, <3>1, FrontTyped
  <2> QED BY <1>4, <2>1, <2>2, <2>3 DEF Restacks
<1> QED BY <1>3, <1>4

(* A word that changes ifstack, with the structures. *)
LEMMA IfsFit ==
  ASSUME NEW s \in CState, NEW r \in CState, NEW n \in Seq(Structures), NEW m, NEW i \in Int,
         n # Crossed, Fit(Size(s.code), s.ctl, n), Restacks(s, r, "if"), Counted(n, m, i, 0, 0, 0, 0, 0),
         Len(r.ctl["if"]) = Len(s.ctl["if"]) + i,
         Whiles(m, s.ctl["begin"], s.ctl["while"]), OfsInCases(m)
  PROVE  Shape(m, r.ctl)
<1> DEFINE c == s.ctl
           d == r.ctl
<1>1. c \in [Stacks -> Seq(Int)] /\ Shape(n, c) /\ Others(c, d, "if") /\ "if" \in Stacks
  BY StateFields, StackNames DEF Fit, Restacks
<1>2. Len(d["if"]) = Len(c["if"]) + i + 0
  <2>1. Len(c["if"]) \in Nat
    BY <1>1, StackTypes
  <2> QED BY <2>1
<1>3. /\ d["begin"] = c["begin"] /\ d["while"] = c["while"] /\ d["case"] = c["case"]
  BY <1>1 DEF Others, Stacks
<1>4. \A u \in Stacks \ {"if"} : Len(d[u]) = Len(c[u]) + 0 /\ Marks(d[u]) = Marks(c[u]) + 0
  BY <1>1, OthersSame
<1>5. Resized(c, d, i, 0, 0, 0, 0, 0, 0)
  BY <1>2, <1>4 DEF Resized, Stacks
<1>6. d["case"] # <<>> => d["case"][1] = -1
  BY <1>1, <1>3 DEF Shape
<1>7. Whiles(m, d["begin"], d["while"])
  BY <1>3
<1>9. OfsInCases(m) /\ Counted(n, m, i, 0, 0, 0, 0, 0) /\ i \in Int /\ 0 \in Int
  OBVIOUS
<1> HIDE DEF c, d
<1>8. Shape(m, d)
  BY ONLY <1>1, <1>5, <1>6, <1>7, <1>9, n \in Seq(Structures), ShapeIs
<1> QED BY <1>8 DEF d

(* One that leaves the places of loops and BEGINs. *)
LEMMA FitsFrom ==
  ASSUME NEW s \in CState, NEW r \in CState, NEW n, NEW t, NEW st \in Stacks \ {"begin", "do", "querydo", "leave"},
         Fit(Size(s.code), s.ctl, n), Restacks(s, r, st), r.e = "none",
         Nested(t, n) # Crossed => Shape(Nested(t, n), r.ctl)
  PROVE  Fits(s, r, n, t)
<1>1. \A u \in {"begin", "do", "querydo", "leave"} : r.ctl[u] = s.ctl[u]
  BY StackNames DEF Restacks, Others
<1>2. /\ Loops(Size(r.code), r.ctl["do"], r.ctl["querydo"], r.ctl["leave"])
      /\ Begins(Size(r.code), r.ctl["begin"])
  BY <1>1, PlacesSame DEF Restacks
<1> QED BY <1>2 DEF Fits, Fit

LEMMA ElseFits ==
  ASSUME NEW s \in CState, s.e = "none", NEW n \in Seq(Structures), Fit(Size(s.code), s.ctl, n)
  PROVE  Fits(s, CPP_else(s), n, "ELSE")
<1> DEFINE r == CPP_else(s)
           m == Nested("ELSE", n)
           c == s.ctl
<1>1. /\ c["if"] # <<>> => /\ Restacks(s, r, "if") /\ r.e = "none" /\ Len(r.ctl["if"]) = Len(c["if"])
      /\ c["if"] = <<>> => r \in CState /\ r.e = "else without if"
  BY ElseIs
<1> HIDE DEF r
<1>2. ASSUME m # Crossed
      PROVE  c["if"] # <<>> /\ Shape(m, r.ctl)
  <2> DEFINE f == Front(n)
  <2>1. /\ n # Crossed /\ n # <<>> /\ Last(n) = "if" /\ m = Append(f, "else") /\ "else" \in Structures
    BY <1>2, NestedIs DEF Structures, Closers
  <2>2. Shape(n, c) /\ f \in Seq(Structures)
    BY <2>1, FrontAndLast DEF Fit
  <2>3. Counted(n, f, -1, 0, 0, 0, 0, 0) /\ Counted(f, m, 1, 0, 0, 0, 0, 0)
    BY <2>1, <2>2, CountsLess, CountsMore
  <2>4. Whiles(f, c["begin"], c["while"]) /\ OfsInCases(f)
    BY <2>1, <2>2, WhilesShort, OfsShort DEF Shape
  <2> HIDE DEF f
  <2>5. Whiles(m, c["begin"], c["while"]) /\ OfsInCases(m)
    BY <2>1, <2>2, <2>4, WhilesMore, OfsMore
  <2>6. /\ Ifs(n) \in Nat /\ Begun(n) \in Nat /\ Waits(n) \in Nat /\ Dos(n) \in Nat
        /\ Ofs(n) \in Nat /\ Cases(n) \in Nat /\ Ifs(f) \in Nat
    BY <2>2, CountsNat
  <2>7. Counted(n, m, 0, 0, 0, 0, 0, 0)
    BY <2>3, <2>6 DEF Counted
  <2>8. c["if"] # <<>>
    <3>1. Len(c["querydo"]) \in Nat /\ c["if"] \in Seq(Int)
      BY StackTypes, StateFields, StackNames
    <3>2. Ifs(f) = Ifs(n) + -1 /\ Len(c["if"]) = Ifs(n) + Len(c["querydo"])
      BY <2>2, <2>3 DEF Counted, Shape
    <3>4. PICK x \in Nat, y \in Nat, z \in Nat : x = Ifs(n) /\ y = Ifs(f) /\ z = Len(c["querydo"])
      BY <2>6, <3>1
    <3>3. Len(c["if"]) # 0
      <4>1. y = x + -1 /\ Len(c["if"]) = x + z
        BY <3>2, <3>4
      <4> QED BY ONLY <4>1, <3>4
    <3> QED BY <3>1, <3>3, EmptySeq
  <2>9. r \in CState /\ Restacks(s, r, "if") /\ Len(r.ctl["if"]) = Len(c["if"]) + 0
    <3>1. PICK x \in Nat : x = Len(c["if"])
      BY StackTypes, StateFields, StackNames
    <3>2. x + 0 = x
      OBVIOUS
    <3>3. Restacks(s, r, "if") /\ Len(r.ctl["if"]) = Len(c["if"])
      BY <1>1, <2>8
    <3> QED BY <3>1, <3>2, <3>3 DEF Restacks
  <2>10. Shape(m, r.ctl)
    BY <2>1, <2>5, <2>7, <2>9, IfsFit
  <2> QED BY <2>8, <2>10
<1>3. CASE c["if"] # <<>>
  <2>1. r \in CState /\ "if" \in Stacks \ {"begin", "do", "querydo", "leave"}
    BY <1>1, <1>3, StackNames DEF Restacks
  <2> QED BY <1>1, <1>2, <1>3, <2>1, FitsFrom DEF r
<1>4. CASE c["if"] = <<>>
  BY <1>1, <1>2, <1>4 DEF Fits, r
<1> QED BY <1>3, <1>4

LEMMA ThenFits ==
  ASSUME NEW s \in CState, s.e = "none", NEW n \in Seq(Structures), Fit(Size(s.code), s.ctl, n)
  PROVE  Fits(s, CPP_then(s), n, "THEN")
<1> DEFINE r == CPP_then(s)
           m == Nested("THEN", n)
           c == s.ctl
<1>1. /\ c["if"] # <<>> => /\ Restacks(s, r, "if") /\ r.e = "none" /\ Len(r.ctl["if"]) = Len(c["if"]) - 1
      /\ c["if"] = <<>> => r \in CState /\ r.e = "then without if"
  BY ThenIs
<1> HIDE DEF r
<1>2. ASSUME m # Crossed
      PROVE  c["if"] # <<>> /\ Shape(m, r.ctl)
  <2>1. /\ n # Crossed /\ n # <<>> /\ Last(n) \in {"if", "else"} /\ m = Front(n)
    BY <1>2, NestedIs DEF Closers
  <2>2. Shape(n, c) /\ m \in Seq(Structures)
    BY <2>1, FrontAndLast DEF Fit
  <2>3. Counted(n, m, -1, 0, 0, 0, 0, 0)
    BY <2>1, <2>2, CountsLess
  <2>4. Whiles(m, c["begin"], c["while"]) /\ OfsInCases(m)
    BY <2>1, <2>2, WhilesShort, OfsShort DEF Shape
  <2>5. c["if"] # <<>> /\ Len(c["if"]) \in Nat
    <3>1. Len(c["querydo"]) \in Nat /\ c["if"] \in Seq(Int) /\ Ifs(n) \in Nat /\ Ifs(m) \in Nat
      BY <2>2, StackTypes, StateFields, StackNames, CountsNat
    <3>2. Ifs(m) = Ifs(n) + -1 /\ Len(c["if"]) = Ifs(n) + Len(c["querydo"])
      BY <2>2, <2>3 DEF Counted, Shape
    <3>4. PICK x \in Nat, y \in Nat, z \in Nat : x = Len(c["querydo"]) /\ y = Ifs(n) /\ z = Ifs(m)
      BY <3>1
    <3>5. z = y + -1 /\ Len(c["if"]) = y + x
      BY <3>2, <3>4
    <3>6. y + x \in Nat /\ y + x # 0
      BY ONLY <3>5, x \in Nat, y \in Nat, z \in Nat
    <3>3. Len(c["if"]) # 0 /\ Len(c["if"]) \in Nat
      BY <3>5, <3>6
    <3> QED BY <3>1, <3>3, EmptySeq
  <2>6. r \in CState /\ Restacks(s, r, "if") /\ Len(r.ctl["if"]) = Len(c["if"]) + -1
    BY <1>1, <2>5 DEF Restacks
  <2>7. Shape(m, r.ctl)
    BY <2>1, <2>3, <2>4, <2>6, IfsFit
  <2> QED BY <2>5, <2>7
<1>3. CASE c["if"] # <<>>
  <2>1. r \in CState /\ "if" \in Stacks \ {"begin", "do", "querydo", "leave"}
    BY <1>1, <1>3, StackNames DEF Restacks
  <2> QED BY <1>1, <1>2, <1>3, <2>1, FitsFrom DEF r
<1>4. CASE c["if"] = <<>>
  BY <1>1, <1>2, <1>4 DEF Fits, r
<1> QED BY <1>3, <1>4

-----------------------------------------------------------------------------
(* BEGIN, WHILE, UNTIL, AGAIN, REPEAT *)

(* A word that leaves the loops and changes where BEGINs start. *)
LEMMA LoopsSame ==
  ASSUME NEW s \in CState, NEW r \in CState, NEW n, Fit(Size(s.code), s.ctl, n),
         Size(r.code) >= Size(s.code),
         \A st \in {"do", "querydo", "leave"} : r.ctl[st] = s.ctl[st]
  PROVE  /\ Loops(Size(r.code), r.ctl["do"], r.ctl["querydo"], r.ctl["leave"])
         /\ Begins(Size(r.code), s.ctl["begin"])
<1>1. s.ctl \in [Stacks -> Seq(Int)] /\ Size(s.code) \in Nat /\ Size(r.code) \in Nat
  BY StateFields, SizeNat
<1>2. Fit(Size(r.code), s.ctl, n)
  BY <1>1, FitGrows
<1>3. /\ r.ctl["do"] = s.ctl["do"] /\ r.ctl["querydo"] = s.ctl["querydo"]
      /\ r.ctl["leave"] = s.ctl["leave"]
  OBVIOUS
<1> QED BY <1>2, <1>3 DEF Fit

LEMMA BeginsFront ==
  ASSUME NEW q \in Seq(Int), q # <<>>, NEW size, Begins(size, q)
  PROVE  Begins(size, Front(q))
<1>1. /\ Len(Front(q)) = Len(q) - 1 /\ Len(q) \in Nat \ {0}
      /\ \A i \in 1 .. Len(q) - 1 : Front(q)[i] = q[i]
  BY FrontTyped
<1>2. ASSUME NEW i \in 1 .. Len(q) - 1 PROVE Front(q)[i] <= size
  <2>1. i \in 1 .. Len(q)
    BY <1>1
  <2> QED BY <1>1, <2>1 DEF Begins
<1> QED BY <1>1, <1>2 DEF Begins

LEMMA BeginFits ==
  ASSUME NEW s \in CState, s.e = "none", NEW n \in Seq(Structures), Fit(Size(s.code), s.ctl, n)
  PROVE  Fits(s, CPP_begin(s), n, "BEGIN")
<1> DEFINE r == CPP_begin(s)
           m == Nested("BEGIN", n)
           c == s.ctl
           d == r.ctl
           size == Size(s.code)
<1>1. c \in [Stacks -> Seq(Int)] /\ size \in Nat /\ "begin" \in Stacks /\ c["begin"] \in Seq(Int)
  BY StateFields, SizeNat, StackNames
<1>2. Restacks(s, r, "begin") /\ d["begin"] = Append(c["begin"], size) /\ Size(r.code) = size
  BY <1>1, PushedIs DEF CPP_begin
<1>3. r \in CState /\ r.e = "none" /\ Others(c, d, "begin")
  BY <1>2 DEF Restacks
<1> HIDE DEF r, size
<1>4. /\ Len(d["begin"]) = Len(c["begin"]) + 1 /\ d["begin"][Len(c["begin"]) + 1] = size
      /\ Len(c["begin"]) \in Nat /\ \A i \in 1 .. Len(c["begin"]) : d["begin"][i] = c["begin"][i]
  BY <1>1, <1>2, AppendProperties, LenProperties
<1>5. Loops(Size(r.code), d["do"], d["querydo"], d["leave"]) /\ Begins(Size(r.code), c["begin"])
  <2>1. \A st \in {"do", "querydo", "leave"} : d[st] = c[st]
    BY <1>3, StackNames DEF Others
  <2>2. Size(r.code) >= Size(s.code)
    BY <1>2 DEF Restacks
  <2> QED BY <1>3, <2>1, <2>2, LoopsSame
<1>6. Begins(Size(r.code), d["begin"])
  <2>1. ASSUME NEW i \in 1 .. Len(c["begin"]) + 1 PROVE d["begin"][i] <= size
    <3>1. CASE i = Len(c["begin"]) + 1
      BY <1>1, <1>4, <3>1
    <3>2. CASE i # Len(c["begin"]) + 1
      <4>1. i \in 1 .. Len(c["begin"])
        BY <1>4, <3>2
      <4> QED BY <1>2, <1>4, <1>5, <4>1 DEF Begins
    <3> QED BY <3>1, <3>2
  <2> QED BY <1>2, <1>4, <2>1 DEF Begins
<1>7. ASSUME m # Crossed PROVE Shape(m, d)
  <2>1. n # Crossed /\ m = Append(n, "begin") /\ "begin" \in Structures
    BY <1>7, NestedIs DEF Structures
  <2>2. Shape(n, c)
    BY <2>1 DEF Fit
  <2>3. Counted(n, m, 0, 1, 0, 0, 0, 0)
    BY <2>1, CountsMore
  <2>4. d["while"] = c["while"] /\ d["case"] = c["case"]
    BY <1>3, StackNames DEF Others
  <2>5. Whiles(n, d["begin"], d["while"])
    <3>1. Len(c["begin"]) = Count({"begin", "while"}, n)
      BY <2>2 DEF Shape, Begun
    <3>2. Whiles(n, c["begin"], c["while"])
      BY <2>2 DEF Shape
    <3> HIDE DEF c, d
    <3> QED BY <1>4, <2>4, <3>1, <3>2, WhilesSame
  <2>6. Whiles(m, d["begin"], d["while"]) /\ OfsInCases(m)
    BY <2>1, <2>2, <2>5, WhilesMore, OfsMore DEF Shape
  <2>7. \A u \in Stacks \ {"begin"} : Len(d[u]) = Len(c[u]) + 0 /\ Marks(d[u]) = Marks(c[u]) + 0
    BY <1>1, <1>3, OthersSame
  <2>8. Len(d["if"]) = Len(c["if"]) + 0 + 0
    <3>1. Len(c["if"]) \in Nat
      BY <1>1, StackNames, StackTypes
    <3>2. d["if"] = c["if"]
      BY <1>3, StackNames DEF Others
    <3> QED BY <3>1, <3>2
  <2>9. Resized(c, d, 0, 1, 0, 0, 0, 0, 0)
    BY <1>4, <2>7, <2>8 DEF Resized, Stacks
  <2>10. d["case"] # <<>> => d["case"][1] = -1
    BY <2>2, <2>4 DEF Shape
  <2> HIDE DEF m, c, d
  <2> QED BY <1>1, <2>2, <2>3, <2>6, <2>9, <2>10, ShapeIs
<1>8. Fit(Size(r.code), d, m)
  BY <1>5, <1>6, <1>7 DEF Fit
<1> QED BY <1>3, <1>8 DEF Fits, r

LEMMA WhileFits ==
  ASSUME NEW s \in CState, s.e = "none", NEW n \in Seq(Structures), Fit(Size(s.code), s.ctl, n)
  PROVE  Fits(s, CPP_while(s), n, "WHILE")
<1> DEFINE r == CPP_while(s)
           m == Nested("WHILE", n)
           c == s.ctl
           d == r.ctl
<1>6. PICK size \in Nat : size = Size(s.code) /\ size + 1 \in Int
  <2>1. Size(s.code) \in Nat
    BY StateFields, SizeNat
  <2> QED BY <2>1
<1>1. /\ c \in [Stacks -> Seq(Int)] /\ "while" \in Stacks /\ "JZ" \in Opcodes
      /\ c["begin"] \in Seq(Int) /\ c["while"] \in Seq(Int) /\ "no begin" \in Codes
  BY StateFields, StackNames DEF Opcodes, Codes, StructureErrors
<1>2. /\ c["begin"] = <<>> => r \in CState /\ r.e = "no begin"
      /\ c["begin"] # <<>> => Restacks(s, r, "while") /\ d["while"] = Append(c["while"], size + 1)
  <2>1. r = IF c["begin"] = <<>> THEN Fails(s, "no begin") ELSE JumpAhead(s, "JZ", "while")
    BY DEF CPP_while, IsEmpty
  <2>2. Fails(s, "no begin") \in CState /\ Fails(s, "no begin").e = "no begin"
    BY <1>1, FailsTyped
  <2>3. /\ Restacks(s, JumpAhead(s, "JZ", "while"), "while")
        /\ JumpAhead(s, "JZ", "while").ctl["while"] = Append(c["while"], size + 1)
    BY <1>1, <1>6, JumpAheadIs
  <2> HIDE DEF r
  <2> QED BY <2>1, <2>2, <2>3
<1> HIDE DEF r
<1>3. ASSUME m # Crossed
      PROVE  c["begin"] # <<>> /\ Shape(m, d)
  <2> DEFINE f == Front(n)
  <2>1. /\ n # Crossed /\ n # <<>> /\ Last(n) = "begin" /\ m = Append(f, "while") /\ "while" \in Structures
    BY <1>3, NestedIs DEF Structures, Closers
  <2>2. Shape(n, c) /\ f \in Seq(Structures)
    BY <2>1, FrontAndLast DEF Fit
  <2>3. Counted(n, f, 0, -1, 0, 0, 0, 0) /\ Counted(f, m, 0, 1, 1, 0, 0, 0)
    BY <2>1, <2>2, CountsLess, CountsMore
  <2>4. Whiles(f, c["begin"], c["while"]) /\ OfsInCases(f)
    BY <2>1, <2>2, WhilesShort, OfsShort DEF Shape
  <2> HIDE DEF f
  <2>5. /\ Ifs(n) \in Nat /\ Begun(n) \in Nat /\ Waits(n) \in Nat /\ Dos(n) \in Nat
        /\ Ofs(n) \in Nat /\ Cases(n) \in Nat /\ Begun(f) \in Nat /\ Waits(f) \in Nat
    BY <2>2, CountsNat
  <2>6. Counted(n, m, 0, 0, 1, 0, 0, 0)
    BY <2>3, <2>5 DEF Counted
  <2>7. Len(c["begin"]) = Begun(f) + 1 /\ Len(c["while"]) = Waits(f) /\ Len(c["begin"]) = Begun(n)
        /\ Len(c["while"]) = Waits(n)
    <3>1. Begun(f) = Begun(n) + -1 /\ Waits(f) = Waits(n) + 0 /\ Len(c["begin"]) = Begun(n) /\ Len(c["while"]) = Waits(n)
      BY <2>2, <2>3 DEF Counted, Shape
    <3> HIDE DEF c
    <3> QED BY <2>5, <3>1
  <2>8. c["begin"] # <<>>
    <3>1. Len(c["begin"]) # 0
      BY <2>5, <2>7
    <3> QED BY <3>1, EmptySeq
  <2>9. Restacks(s, r, "while") /\ d["while"] = Append(c["while"], size + 1)
    BY <1>2, <2>8
  <2>10. Others(c, d, "while")
    BY <2>9 DEF Restacks
  <2>11. d["begin"] = c["begin"] /\ d["case"] = c["case"] /\ d["if"] = c["if"]
    BY <2>10, StackNames DEF Others
  <2>12. /\ Len(d["while"]) = Len(c["while"]) + 1 /\ d["while"][Len(c["while"]) + 1] = size + 1
         /\ \A i \in 1 .. Len(c["while"]) : d["while"][i] = c["while"][i]
    <3> DEFINE q == c["while"]
               x == size + 1
    <3>1. q \in Seq(Int) /\ x \in Int /\ d["while"] = Append(q, x)
      BY <1>1, <1>6, <2>9
    <3> HIDE DEF q, x, d
    <3>2. /\ Len(d["while"]) = Len(q) + 1 /\ d["while"][Len(q) + 1] = x
          /\ \A i \in 1 .. Len(q) : d["while"][i] = q[i]
      BY <3>1, AppendProperties
    <3> QED BY <3>2 DEF q, x
  <2>13. Whiles(f, d["begin"], d["while"])
    <3>1. Len(c["while"]) = Count({"while"}, f)
      BY <2>7 DEF Waits
    <3> HIDE DEF c, d
    <3> QED BY <2>2, <2>4, <2>11, <2>12, <3>1, WhilesSame
  <2>14. d["while"][Waits(f) + 1] > d["begin"][Begun(f) + 1]
    <3>1. Len(c["begin"]) \in 1 .. Len(c["begin"])
      BY <2>5, <2>7
    <3>2. c["begin"][Len(c["begin"])] <= size /\ c["begin"][Len(c["begin"])] \in Int
      BY <1>1, <1>6, <3>1, ElementOfSeq DEF Fit, Begins
    <3>3. d["while"][Waits(f) + 1] = size + 1 /\ d["begin"][Begun(f) + 1] = c["begin"][Len(c["begin"])]
      BY <2>7, <2>11, <2>12
    <3> QED BY <3>2, <3>3
  <2>15. Whiles(m, d["begin"], d["while"]) /\ OfsInCases(m)
    <3>1. d["while"][Count({"while"}, f) + 1] > d["begin"][Count({"begin", "while"}, f) + 1]
      BY <2>14 DEF Waits, Begun
    <3> QED BY <2>1, <2>2, <2>4, <2>13, <3>1, WhilesMore, OfsMore
  <2>16. \A u \in Stacks \ {"while"} : Len(d[u]) = Len(c[u]) + 0 /\ Marks(d[u]) = Marks(c[u]) + 0
    BY <1>1, <2>10, OthersSame
  <2>17. Len(d["if"]) = Len(c["if"]) + 0 + 0
    <3>1. Len(c["if"]) \in Nat
      BY <1>1, StackNames, StackTypes
    <3> QED BY <2>11, <3>1
  <2>18. Resized(c, d, 0, 0, 1, 0, 0, 0, 0)
    BY <2>12, <2>16, <2>17 DEF Resized, Stacks
  <2>19. d["case"] # <<>> => d["case"][1] = -1
    BY <2>2, <2>11 DEF Shape
  <2>20. Shape(m, d)
    <3>1. c \in [Stacks -> Seq(Int)]
      BY <1>1
    <3> HIDE DEF m, c, d
    <3>2. 0 \in Int /\ 1 \in Int /\ Shape(n, c)
      BY <2>2
    <3>3. Whiles(m, d["begin"], d["while"]) /\ OfsInCases(m) /\ (d["case"] # <<>> => d["case"][1] = -1)
      BY <2>15, <2>19
    <3> QED BY ONLY <2>6, <2>18, <3>1, <3>2, <3>3, ShapeIs, n \in Seq(Structures)
  <2> QED BY <2>8, <2>20
<1>4. CASE c["begin"] # <<>>
  <2>1. Restacks(s, r, "while")
    BY <1>2, <1>4
  <2>2. r \in CState /\ r.e = "none" /\ "while" \in Stacks \ {"begin", "do", "querydo", "leave"}
    BY <1>1, <2>1 DEF Restacks
  <2> QED BY <1>3, <2>1, <2>2, FitsFrom DEF r
<1>5. CASE c["begin"] = <<>>
  BY <1>2, <1>3, <1>5 DEF Fits, r
<1> QED BY <1>4, <1>5

LEMMA BackIs ==
  ASSUME NEW s \in CState, s.e = "none", NEW op \in Opcodes
  PROVE  LET r == BackToBegin(s, op) IN
         /\ s.ctl["begin"] # <<>> =>
              Restacks(s, r, "begin") /\ r.e = "none" /\ r.ctl["begin"] = Front(s.ctl["begin"])
         /\ s.ctl["begin"] = <<>> => r \in CState /\ r.e = "no begin"
<1>1. "begin" \in Stacks /\ "no begin" \in Codes
  BY DEF Stacks, Codes, StructureErrors
<1> DEFINE t == Popped(s, "begin")
           arg == TopOf(s, "begin") - Size(s.code)
<1>2. BackToBegin(s, op) = IF s.ctl["begin"] = <<>> THEN Fails(s, "no begin") ELSE Jump(t, op, arg)
  BY DEF BackToBegin, IsEmpty
<1>3. CASE s.ctl["begin"] = <<>>
  <2>1. Fails(s, "no begin") \in CState /\ Fails(s, "no begin").e = "no begin"
    BY <1>1, FailsTyped
  <2> QED BY <1>2, <1>3, <2>1
<1>4. CASE s.ctl["begin"] # <<>>
  <2>1. /\ Restacks(s, t, "begin") /\ t.ctl["begin"] = Front(s.ctl["begin"])
        /\ Size(t.code) = Size(s.code) /\ TopOf(s, "begin") \in Int
    BY <1>1, <1>4, PoppedIs
  <2>2. t \in CState /\ Size(s.code) \in Nat /\ t.e = "none"
    BY <2>1 DEF Restacks
  <2>3. arg \in Args
    <3>1. arg \in Int
      BY <2>1, <2>2
    <3> QED BY <3>1 DEF Args
  <2> HIDE DEF t, arg
  <2> DEFINE r == Jump(t, op, arg)
  <2>4. /\ r \in CState /\ r.e = "none" /\ r.ctl = t.ctl /\ Size(r.code) > Size(t.code)
        /\ Size(r.code) \in Nat
    BY <2>2, <2>3, OpIs
  <2>5. BackToBegin(s, op) = r
    BY <1>2, <1>4
  <2> HIDE DEF r
  <2>6. Restacks(s, r, "begin")
    BY <2>1, <2>2, <2>4 DEF Restacks
  <2> QED BY <1>4, <2>1, <2>4, <2>5, <2>6
<1> QED BY <1>3, <1>4

(* A BEGIN is closed: its entry and, for REPEAT, that of its WHILE go.     *)
LEMMA BeginsFit ==
  ASSUME NEW s \in CState, NEW r \in CState, NEW n \in Seq(Structures), NEW w \in {0, 1},
         n # Crossed, n # <<>>, Fit(Size(s.code), s.ctl, n), Last(n) = IF w = 0 THEN "begin" ELSE "while",
         s.ctl["begin"] # <<>>, r.ctl["begin"] = Front(s.ctl["begin"]),
         \A st \in Stacks \ {"begin", "while"} : r.ctl[st] = s.ctl[st],
         w = 0 => r.ctl["while"] = s.ctl["while"],
         w = 1 => s.ctl["while"] # <<>> /\ r.ctl["while"] = Front(s.ctl["while"])
  PROVE  Shape(Front(n), r.ctl)
<1> DEFINE c == s.ctl
           d == r.ctl
           m == Front(n)
<1>1. c \in [Stacks -> Seq(Int)] /\ Shape(n, c) /\ m \in Seq(Structures)
  BY StateFields, FrontAndLast DEF Fit
<1>2. /\ c["begin"] \in Seq(Int) /\ c["while"] \in Seq(Int)
      /\ Len(c["begin"]) \in Nat /\ Len(c["while"]) \in Nat
  BY <1>1, StackTypes, StackNames
<1>3. Len(d["begin"]) = Len(c["begin"]) - 1 /\ \A i \in 1 .. Len(c["begin"]) - 1 : d["begin"][i] = c["begin"][i]
  <2>1. PICK q \in Seq(Int) : q = c["begin"] /\ q # <<>>
    BY <1>2
  <2>4. q \in Seq(Int) /\ q # <<>>
    BY <2>1
  <2>2. Len(Front(q)) = Len(q) - 1 /\ \A i \in 1 .. Len(q) - 1 : Front(q)[i] = q[i]
    BY ONLY <2>4, FrontTyped
  <2>3. d["begin"] = Front(q)
    BY <2>1
  <2> QED BY <2>1, <2>2, <2>3
<1>4. Len(d["while"]) = Len(c["while"]) - w /\ \A i \in 1 .. Len(c["while"]) - w : d["while"][i] = c["while"][i]
  <2>1. CASE w = 0
    BY <1>2, <2>1
  <2>2. CASE w = 1
    <3>1. d["while"] = Front(c["while"]) /\ c["while"] # <<>>
      BY <2>2
    <3>2. PICK q \in Seq(Int) : q = c["while"] /\ q # <<>>
      BY <1>2, <3>1
    <3>5. q \in Seq(Int) /\ q # <<>>
      BY <3>2
    <3>3. Len(Front(q)) = Len(q) - 1 /\ \A i \in 1 .. Len(q) - 1 : Front(q)[i] = q[i]
      BY ONLY <3>5, FrontTyped
    <3>4. d["while"] = Front(q)
      BY <3>1, <3>2
    <3> QED BY <2>2, <3>2, <3>3, <3>4
  <2> QED BY <2>1, <2>2
<1>5. Counted(n, m, 0, -1, 0 - w, 0, 0, 0)
  <2>1. CASE w = 0
    <3>1. Counted(n, m, 0, -1, 0, 0, 0, 0)
      BY <2>1, CountsLess
    <3> QED BY <2>1, <3>1
  <2>2. CASE w = 1
    <3>1. Counted(n, m, 0, -1, -1, 0, 0, 0)
      BY <2>2, CountsLess
    <3>2. 0 - w = -1
      BY <2>2
    <3> QED BY <3>1, <3>2
  <2> QED BY <2>1, <2>2
<1>6. Whiles(m, c["begin"], c["while"]) /\ OfsInCases(m)
  BY <1>1, WhilesShort, OfsShort DEF Shape
<1>7. Count({"begin", "while"}, m) = Len(c["begin"]) - 1 /\ Count({"while"}, m) = Len(c["while"]) - w
  <2>1. Begun(m) = Begun(n) + -1 /\ Waits(m) = Waits(n) + (0 - w)
    BY <1>5 DEF Counted
  <2>2. Begun(n) = Len(c["begin"]) /\ Waits(n) = Len(c["while"])
    BY <1>1 DEF Shape
  <2>3. PICK x \in Nat, y \in Nat : x = Len(c["begin"]) /\ y = Len(c["while"])
    BY <1>2
  <2>4. Begun(m) = x - 1 /\ Waits(m) = y - w
    <3>1. Begun(m) = x + -1 /\ Waits(m) = y + (0 - w)
      BY <2>1, <2>2, <2>3
    <3>2. w \in Int /\ x \in Int /\ y \in Int
      OBVIOUS
    <3>3. x + -1 = x - 1 /\ y + (0 - w) = y - w
      BY ONLY <3>2
    <3> QED BY ONLY <3>1, <3>3
  <2> QED BY <2>3, <2>4 DEF Begun, Waits
<1>8. Whiles(m, d["begin"], d["while"])
  <2> HIDE DEF m, c, d
  <2> QED BY <1>1, <1>3, <1>4, <1>6, <1>7, WhilesSame
<1>9. \A st \in Stacks \ {"begin", "while"} : Len(d[st]) = Len(c[st]) + 0 /\ Marks(d[st]) = Marks(c[st]) + 0
  <2> TAKE st \in Stacks \ {"begin", "while"}
  <2>1. d[st] = c[st] /\ c[st] \in Seq(Int) /\ Len(c[st]) \in Nat
    BY <1>1, StackTypes
  <2>2. Marks(c[st]) \in Nat
    BY <2>1, CountSets DEF Marks, Count
  <2> QED BY <2>1, <2>2
<1>10. Len(d["if"]) = Len(c["if"]) + 0 + 0
  <2>1. Len(d["if"]) = Len(c["if"]) + 0 /\ Len(c["if"]) \in Nat
    BY <1>1, <1>9, StackNames, StackTypes
  <2> QED BY <2>1
<1>11. Resized(c, d, 0, -1, 0 - w, 0, 0, 0, 0)
  <2>1. Len(d["begin"]) = Len(c["begin"]) + -1 /\ Len(d["while"]) = Len(c["while"]) + (0 - w)
    BY <1>2, <1>3, <1>4
  <2> QED BY <1>9, <1>10, <2>1 DEF Resized, Stacks
<1>12. d["case"] # <<>> => d["case"][1] = -1
  <2>1. d["case"] = c["case"]
    BY StackNames
  <2> QED BY <1>1, <2>1 DEF Shape
<1>13. 0 \in Int /\ -1 \in Int /\ 0 - w \in Int
  OBVIOUS
<1> HIDE DEF c, d, m
<1>14. Shape(m, d)
  BY ONLY <1>1, <1>5, <1>6, <1>8, <1>11, <1>12, <1>13, ShapeIs, n \in Seq(Structures)
<1> QED BY <1>14 DEF m, d

(* Without the last BEGIN, the others and the loops are where they were.   *)
LEMMA BackPlaces ==
  ASSUME NEW s \in CState, NEW r \in CState, NEW n, Fit(Size(s.code), s.ctl, n),
         Size(r.code) >= Size(s.code), s.ctl["begin"] # <<>>, r.ctl["begin"] = Front(s.ctl["begin"]),
         \A st \in {"do", "querydo", "leave"} : r.ctl[st] = s.ctl[st]
  PROVE  /\ Loops(Size(r.code), r.ctl["do"], r.ctl["querydo"], r.ctl["leave"])
         /\ Begins(Size(r.code), r.ctl["begin"])
<1>1. s.ctl["begin"] \in Seq(Int)
  BY StateFields, StackNames
<1>2. /\ Loops(Size(r.code), r.ctl["do"], r.ctl["querydo"], r.ctl["leave"])
      /\ Begins(Size(r.code), s.ctl["begin"])
  BY LoopsSame
<1> QED BY <1>1, <1>2, BeginsFront

LEMMA BackFits ==
  ASSUME NEW s \in CState, s.e = "none", NEW n \in Seq(Structures), Fit(Size(s.code), s.ctl, n),
         NEW t \in {"UNTIL", "AGAIN"}, NEW op \in Opcodes
  PROVE  Fits(s, BackToBegin(s, op), n, t)
<1> DEFINE r == BackToBegin(s, op)
           m == Nested(t, n)
           c == s.ctl
<1>1. /\ c["begin"] # <<>> => Restacks(s, r, "begin") /\ r.e = "none" /\ r.ctl["begin"] = Front(c["begin"])
      /\ c["begin"] = <<>> => r \in CState /\ r.e = "no begin"
  BY BackIs
<1> HIDE DEF r
<1>2. ASSUME m # Crossed
      PROVE  c["begin"] # <<>> /\ Shape(m, r.ctl)
  <2>1. n # Crossed /\ n # <<>> /\ Last(n) = "begin" /\ m = Front(n)
    BY <1>2, NestedIs DEF Closers
  <2>2. Shape(n, c) /\ m \in Seq(Structures)
    BY <2>1, FrontAndLast DEF Fit
  <2>3. c["begin"] # <<>>
    <3>1. Counted(n, m, 0, -1, 0, 0, 0, 0)
      BY <2>1, CountsLess
    <3>2. Begun(m) = Begun(n) + -1 /\ Begun(m) \in Nat /\ Begun(n) \in Nat /\ Len(c["begin"]) = Begun(n)
      BY <2>2, <3>1, CountsNat DEF Counted, Shape
    <3>3. Begun(n) # 0
      BY <3>2
    <3>4. Len(c["begin"]) # 0
      BY <3>2, <3>3
    <3> QED BY <3>4, EmptySeq
  <2>4. r \in CState /\ \A st \in Stacks \ {"begin"} : r.ctl[st] = c[st]
    BY <1>1, <2>3 DEF Restacks, Others
  <2>5. r.ctl["while"] = c["while"] /\ r.ctl["begin"] = Front(c["begin"])
    BY <1>1, <2>3, <2>4, StackNames
  <2>6. 0 \in {0, 1} /\ Last(n) = IF 0 = 0 THEN "begin" ELSE "while"
    BY <2>1
  <2>7. Shape(Front(n), r.ctl)
    BY <2>1, <2>3, <2>4, <2>5, <2>6, BeginsFit
  <2> QED BY <2>1, <2>3, <2>7
<1>3. CASE c["begin"] # <<>>
  <2>1. r \in CState /\ Size(r.code) >= Size(s.code) /\ \A st \in {"do", "querydo", "leave"} : r.ctl[st] = c[st]
    BY <1>1, <1>3, StackNames DEF Restacks, Others
  <2>2. /\ Loops(Size(r.code), r.ctl["do"], r.ctl["querydo"], r.ctl["leave"])
        /\ Begins(Size(r.code), r.ctl["begin"])
    BY <1>1, <1>3, <2>1, BackPlaces
  <2> QED BY <1>1, <1>2, <1>3, <2>1, <2>2 DEF Fits, Fit, r
<1>4. CASE c["begin"] = <<>>
  BY <1>1, <1>2, <1>4 DEF Fits, r
<1> QED BY <1>3, <1>4

LEMMA RepeatFits ==
  ASSUME NEW s \in CState, s.e = "none", NEW n \in Seq(Structures), Fit(Size(s.code), s.ctl, n)
  PROVE  Fits(s, CPP_repeat(s), n, "REPEAT")
<1> DEFINE r == CPP_repeat(s)
           m == Nested("REPEAT", n)
           c == s.ctl
           both == c["begin"] # <<>> /\ c["while"] # <<>> /\ TopOf(s, "while") > TopOf(s, "begin")
           u == Land(s, "while", WSIZE + 1)
<1>1. "JMP" \in Opcodes /\ WSIZE + 1 \in Int /\ "while" \in Stacks
  BY CompilerAssumption, StackNames DEF Opcodes
<1>2. r = IF both THEN BackToBegin(u, "JMP") ELSE BackToBegin(s, "JMP")
  BY DEF CPP_repeat, IsEmpty
<1>3. c["while"] # <<>> =>
        /\ Restacks(s, u, "while") /\ u.ctl["while"] = Front(c["while"]) /\ Size(u.code) = Size(s.code)
  BY <1>1, LandIs
<1> HIDE DEF u, r
<1>4. ASSUME both
      PROVE  /\ r \in CState /\ r.e = "none" /\ Size(r.code) >= Size(s.code)
             /\ r.ctl["begin"] = Front(c["begin"]) /\ r.ctl["while"] = Front(c["while"])
             /\ \A st \in Stacks \ {"begin", "while"} : r.ctl[st] = c[st]
  <2>1. Restacks(s, u, "while") /\ u.ctl["while"] = Front(c["while"]) /\ Size(u.code) = Size(s.code)
    BY <1>3, <1>4
  <2>2. u \in CState /\ u.e = "none" /\ \A st \in Stacks \ {"while"} : u.ctl[st] = c[st]
    BY <2>1 DEF Restacks, Others
  <2>3. u.ctl["begin"] = c["begin"]
    BY <2>2, StackNames
  <2>4. Restacks(u, r, "begin") /\ r.e = "none" /\ r.ctl["begin"] = Front(c["begin"])
    BY <1>1, <1>2, <1>4, <2>2, <2>3, BackIs
  <2>5. /\ r \in CState /\ Size(r.code) >= Size(s.code)
        /\ \A st \in Stacks \ {"begin"} : r.ctl[st] = u.ctl[st]
    BY <2>1, <2>4 DEF Restacks, Others
  <2>6. r.ctl["while"] = Front(c["while"])
    BY <2>1, <2>5, StackNames
  <2> QED BY <2>2, <2>4, <2>5, <2>6
<1>5. ASSUME m # Crossed
      PROVE  both /\ Shape(m, r.ctl)
  <2>1. n # Crossed /\ n # <<>> /\ Last(n) = "while" /\ m = Front(n)
    BY <1>5, NestedIs DEF Closers
  <2>2. Shape(n, c) /\ m \in Seq(Structures)
    BY <2>1, FrontAndLast DEF Fit
  <2>3. /\ Begun(n) \in Nat /\ Waits(n) \in Nat /\ Begun(n) # 0 /\ Waits(n) # 0
    <3>1. Counted(n, m, 0, -1, -1, 0, 0, 0)
      BY <2>1, CountsLess
    <3>2. /\ Begun(m) = Begun(n) + -1 /\ Begun(m) \in Nat /\ Begun(n) \in Nat
          /\ Waits(m) = Waits(n) + -1 /\ Waits(m) \in Nat /\ Waits(n) \in Nat
      BY <2>2, <3>1, CountsNat DEF Counted
    <3> QED BY <3>2
  <2>4. Len(c["begin"]) = Begun(n) /\ Len(c["while"]) = Waits(n)
    BY <2>2 DEF Shape
  <2>5. c["begin"] # <<>> /\ c["while"] # <<>>
    <3>1. Len(c["begin"]) # 0 /\ Len(c["while"]) # 0
      BY <2>3, <2>4
    <3> QED BY <3>1, EmptySeq
  <2>6. TopOf(s, "while") > TopOf(s, "begin")
    <3>1. Len(n) \in 1 .. Len(n) /\ n[Len(n)] = "while"
      BY <2>1, FrontTyped DEF Last
    <3>2. c["while"][CountTo({"while"}, n, Len(n))] > c["begin"][CountTo({"begin", "while"}, n, Len(n))]
      BY <2>2, <3>1 DEF Shape, Whiles
    <3>3. c["while"][Len(c["while"])] > c["begin"][Len(c["begin"])]
      BY <2>4, <3>2 DEF Waits, Begun, Count
    <3> QED BY <3>3 DEF TopOf, Last
  <2>7. both
    BY <2>5, <2>6
  <2>8. /\ r \in CState /\ r.ctl["begin"] = Front(c["begin"]) /\ r.ctl["while"] = Front(c["while"])
        /\ \A st \in Stacks \ {"begin", "while"} : r.ctl[st] = c[st]
    BY <1>4, <2>7
  <2>9. 1 \in {0, 1} /\ Last(n) = IF 1 = 0 THEN "begin" ELSE "while"
    BY <2>1
  <2>10. Shape(Front(n), r.ctl)
    BY <2>1, <2>5, <2>8, <2>9, BeginsFit
  <2> QED BY <2>1, <2>7, <2>10
<1>6. CASE both
  <2>1. r \in CState /\ Size(r.code) >= Size(s.code) /\ \A st \in {"do", "querydo", "leave"} : r.ctl[st] = c[st]
    BY <1>4, <1>6, StackNames
  <2>2. /\ Loops(Size(r.code), r.ctl["do"], r.ctl["querydo"], r.ctl["leave"])
        /\ Begins(Size(r.code), r.ctl["begin"])
    BY <1>4, <1>6, <2>1, BackPlaces
  <2> QED BY <1>4, <1>5, <1>6, <2>1, <2>2 DEF Fits, Fit, r
<1>7. CASE ~both
  <2>1. r = BackToBegin(s, "JMP") /\ m = Crossed
    BY <1>2, <1>5, <1>7
  <2>2. /\ c["begin"] # <<>> => Restacks(s, r, "begin") /\ r.e = "none" /\ r.ctl["begin"] = Front(c["begin"])
        /\ c["begin"] = <<>> => r \in CState /\ r.e = "no begin"
    BY <1>1, <2>1, BackIs
  <2>3. CASE c["begin"] # <<>>
    <3>1. r \in CState /\ Size(r.code) >= Size(s.code) /\ \A st \in {"do", "querydo", "leave"} : r.ctl[st] = c[st]
      BY <2>2, <2>3, StackNames DEF Restacks, Others
    <3>2. /\ Loops(Size(r.code), r.ctl["do"], r.ctl["querydo"], r.ctl["leave"])
          /\ Begins(Size(r.code), r.ctl["begin"])
      BY <2>2, <2>3, <3>1, BackPlaces
    <3> QED BY <2>1, <2>2, <2>3, <3>1, <3>2 DEF Fits, Fit, r
  <2>4. CASE c["begin"] = <<>>
    BY <2>1, <2>2, <2>4 DEF Fits, r
  <2> QED BY <2>3, <2>4
<1> QED BY <1>6, <1>7

-----------------------------------------------------------------------------
(* Words that only add to the code *)

(* r is s with a code that is no shorter. *)
Grows(s, r) ==
  /\ r \in CState /\ r.e = s.e /\ r.ctl = s.ctl
  /\ Size(r.code) >= Size(s.code) /\ Size(s.code) \in Nat /\ Size(r.code) \in Nat

LEMMA GrowsNot ==
  ASSUME NEW s \in CState PROVE Grows(s, s)
  BY StateFields, SizeNat DEF Grows

LEMMA GrowsJump ==
  ASSUME NEW s \in CState, NEW r, Grows(s, r), NEW op \in Opcodes, NEW arg \in Args
  PROVE  Grows(s, Jump(r, op, arg))
<1> DEFINE u == Jump(r, op, arg)
<1>1. /\ u \in CState /\ u.e = r.e /\ u.ctl = r.ctl /\ Size(u.code) > Size(r.code)
      /\ Size(r.code) \in Nat /\ Size(u.code) \in Nat
  BY OpIs DEF Grows
<1> HIDE DEF u
<1>2. Grows(s, u)
  BY <1>1 DEF Grows
<1> QED BY <1>2 DEF u

LEMMA GrowsOp ==
  ASSUME NEW s \in CState, NEW r, Grows(s, r), NEW op \in Opcodes
  PROVE  Grows(s, Op(r, op))
<1>1. 0 \in Args
  BY DEF Args
<1> QED BY <1>1, GrowsJump DEF Op

LEMMA GrowsOps2 ==
  ASSUME NEW s \in CState, NEW r, Grows(s, r), NEW a \in Opcodes, NEW b \in Opcodes
  PROVE  Grows(s, Ops2(r, a, b))
<1> DEFINE u == Op(r, a)
<1>1. Grows(s, u)
  BY GrowsOp
<1>2. Ops2(r, a, b) = Op(u, b)
  BY DEF Ops2
<1> HIDE DEF u
<1> QED BY <1>1, <1>2, GrowsOp

(* The stacks fit the longer code. *)
LEMMA GrowsFit ==
  ASSUME NEW s \in CState, NEW r, Grows(s, r), NEW n, Fit(Size(s.code), s.ctl, n)
  PROVE  Fit(Size(r.code), r.ctl, n)
<1>1. s.ctl \in [Stacks -> Seq(Int)] /\ r.ctl = s.ctl /\ Size(s.code) <= Size(r.code)
      /\ Size(s.code) \in Nat /\ Size(r.code) \in Nat
  BY StateFields DEF Grows
<1>2. Fit(Size(r.code), s.ctl, n)
  BY <1>1, FitGrows
<1> QED BY <1>1, <1>2

LEMMA AbortquoteGrows ==
  ASSUME NEW s \in CState PROVE Grows(s, CPP_abortquote(s))
<1> DEFINE n == 4 * WSIZE + 9
           a == Jump(s, "JZ", n)
           b == Ops2(a, "ADDR", "IVAL")
           message == Op(b, "TYPE")
           c == Ops2(message, "ADDR", "COUNT")
           name == Op(c, "TYPE")
           d == Ops2(name, "CR", "ABORT")
<1>1. /\ "JZ" \in Opcodes /\ "ADDR" \in Opcodes /\ "IVAL" \in Opcodes /\ "TYPE" \in Opcodes
      /\ "COUNT" \in Opcodes /\ "CR" \in Opcodes /\ "ABORT" \in Opcodes
  BY DEF Opcodes
<1>2. n \in Args
  <2>1. n \in Int
    BY CompilerAssumption
  <2> HIDE DEF n
  <2> QED BY <2>1 DEF Args
<1>3. CPP_abortquote(s) = d
  BY DEF CPP_abortquote
<1> HIDE DEF n
<1>4. Grows(s, a)
  BY <1>1, <1>2, GrowsNot, GrowsJump
<1> HIDE DEF a
<1>5. Grows(s, b)
  BY <1>1, <1>4, GrowsOps2
<1> HIDE DEF b
<1>6. Grows(s, message)
  BY <1>1, <1>5, GrowsOp
<1> HIDE DEF message
<1>7. Grows(s, c)
  BY <1>1, <1>6, GrowsOps2
<1> HIDE DEF c
<1>8. Grows(s, name)
  BY <1>1, <1>7, GrowsOp
<1> HIDE DEF name
<1>9. Grows(s, d)
  BY <1>1, <1>8, GrowsOps2
<1> QED BY <1>3, <1>9

(* A word that compiles a literal. *)
LEMMA LiteralGrows ==
  ASSUME NEW s \in CState, NEW t \in Literals PROVE Grows(s, LiteralWord(t, s))
<1>1. /\ "ADDR" \in Opcodes /\ "IVAL" \in Opcodes /\ "INC" \in Opcodes /\ "COUNT" \in Opcodes
      /\ "TYPE" \in Opcodes /\ "DEFINITION" \in Opcodes /\ "CALLADDR" \in Opcodes
  BY DEF Opcodes
<1>2. Grows(s, s)
  BY GrowsNot
<1> DEFINE a == Op(s, "ADDR")
           i == Op(s, "IVAL")
<1>3. Grows(s, a) /\ Grows(s, i) /\ Grows(s, Op(s, "DEFINITION"))
  BY <1>1, <1>2, GrowsOp
<1>4. Grows(s, Ops2(s, "ADDR", "IVAL")) /\ Grows(s, Ops2(s, "ADDR", "CALLADDR"))
  BY <1>1, <1>2, GrowsOps2
<1> HIDE DEF a, i
<1>5. Grows(s, Ops2(a, "INC", "IVAL")) /\ Grows(s, Ops2(a, "COUNT", "TYPE"))
  BY <1>1, <1>3, GrowsOps2
<1>6. Grows(s, Op(i, "IVAL"))
  BY <1>1, <1>3, GrowsOp
<1>7. t \in {"LITERAL", "2LITERAL", "SLITERAL", "['] unknown", "[']", "C\"", "S\"", ".\""}
           \cup Postpones
  BY DEF Literals, CellLiterals
<1>8. CASE t = "LITERAL"
  BY <1>3, <1>8 DEF LiteralWord, CPP_literal, i, Postpones
<1>9. CASE t = "2LITERAL"
  BY <1>6, <1>9 DEF LiteralWord, CPP_twoliteral, CPP_literal, i, Postpones
<1>10. CASE t = "SLITERAL"
  BY <1>4, <1>10 DEF LiteralWord, CPP_sliteral, Postpones
<1>11. CASE t = "[']"
  BY <1>3, <1>11 DEF LiteralWord, CPP_brackettick, a, Postpones
<1>12. CASE t = "C\""
  BY <1>3, <1>12 DEF LiteralWord, CPP_cquote, a, Postpones
<1>13. CASE t = "S\""
  BY <1>5, <1>13 DEF LiteralWord, CPP_squote, CPP_cquote, a, Postpones
<1>14. CASE t = ".\""
  BY <1>5, <1>14 DEF LiteralWord, CPP_dotquote, CPP_cquote, a, Postpones
<1>15. CASE t = "POSTPONE immediate"
  BY <1>3, <1>15 DEF LiteralWord, CPP_postpone, Postpones
<1>16. CASE t = "POSTPONE"
  BY <1>4, <1>16 DEF LiteralWord, CPP_postpone, Postpones
<1>17. CASE t = "POSTPONE unknown"
  BY <1>2, <1>17 DEF LiteralWord, CPP_postpone, Postpones
<1>18. CASE t = "['] unknown"
  BY <1>3, <1>18 DEF LiteralWord, CPP_brackettick, CPP_literal, i, Postpones
<1> QED BY <1>7, <1>8, <1>9, <1>10, <1>11, <1>12, <1>13, <1>14, <1>15, <1>16, <1>17, <1>18
        DEF Postpones

LEMMA AbortquoteFits ==
  ASSUME NEW s \in CState, s.e = "none", NEW n \in Seq(Structures), Fit(Size(s.code), s.ctl, n)
  PROVE  Fits(s, CPP_abortquote(s), n, "ABORT\"")
<1> DEFINE r == CPP_abortquote(s)
           m == Nested("ABORT\"", n)
<1>1. Grows(s, r)
  BY AbortquoteGrows
<1> HIDE DEF r
<1>2. Fit(Size(r.code), r.ctl, n)
  BY <1>1, GrowsFit
<1>3. m # Crossed => m = n
  BY NestedIs DEF Openers, Closers
<1>4. Fit(Size(r.code), r.ctl, m)
  BY <1>2, <1>3 DEF Fit
<1> QED BY <1>1, <1>4 DEF Fits, Grows, r

(* RECURSE adds to recursestack, which the structures leave alone. *)
LEMMA RecurseFits ==
  ASSUME NEW s \in CState, s.e = "none", State \in BOOLEAN, NEW n \in Seq(Structures),
         Fit(Size(s.code), s.ctl, n)
  PROVE  Fits(s, CPP_recurse(s), n, "RECURSE")
<1> DEFINE a == IF State THEN JumpAhead(s, "ADDR", "recurse") ELSE Op(s, "ADDR")
           m == Nested("RECURSE", n)
<1>1. "ADDR" \in Opcodes /\ "EXECUTE_BC" \in Opcodes /\ "recurse" \in Stacks
  BY DEF Opcodes, Stacks
<1>2. /\ a \in CState /\ a.e = "none" /\ Size(a.code) >= Size(s.code)
      /\ \A st \in Stacks \ {"recurse"} : a.ctl[st] = s.ctl[st]
  <2>1. Restacks(s, JumpAhead(s, "ADDR", "recurse"), "recurse")
    BY <1>1, JumpAheadIs
  <2>2. Grows(s, Op(s, "ADDR"))
    BY <1>1, GrowsNot, GrowsOp
  <2>3. CASE State
    <3>1. a = JumpAhead(s, "ADDR", "recurse")
      BY <2>3
    <3> HIDE DEF a
    <3> QED BY <2>1, <3>1 DEF Restacks, Others
  <2>4. CASE ~State
    <3>1. a = Op(s, "ADDR")
      BY <2>4
    <3> HIDE DEF a
    <3> QED BY <2>2, <3>1 DEF Grows
  <2> QED BY <2>3, <2>4
<1>3. CPP_recurse(s) = Op(a, "EXECUTE_BC")
  BY DEF CPP_recurse
<1> HIDE DEF a
<1>4. Fit(Size(a.code), a.ctl, n)
  <2>1. s.ctl \in [Stacks -> Seq(Int)] /\ Size(s.code) \in Nat /\ Size(a.code) \in Nat
    BY <1>2, StateFields, SizeNat
  <2>2. Fit(Size(a.code), s.ctl, n)
    BY <1>2, <2>1, FitGrows
  <2> QED BY <1>2, <2>2, FitSame
<1> DEFINE r == Op(a, "EXECUTE_BC")
<1>5. Grows(a, r)
  BY <1>1, <1>2, GrowsNot, GrowsOp
<1> HIDE DEF r
<1>6. Fit(Size(r.code), r.ctl, n) /\ r \in CState /\ r.e = "none"
  BY <1>2, <1>4, <1>5, GrowsFit DEF Grows
<1>7. m # Crossed => m = n
  BY NestedIs DEF Openers, Closers
<1>8. Fit(Size(r.code), r.ctl, m)
  BY <1>6, <1>7 DEF Fit
<1> QED BY <1>3, <1>6, <1>8 DEF Fits, r

-----------------------------------------------------------------------------
(* CASE, OF, ENDOF, ENDCASE *)

(* A word that leaves loops and BEGINs where they are. *)
LEMMA FitsKept ==
  ASSUME NEW s \in CState, NEW r \in CState, NEW n, NEW t, Fit(Size(s.code), s.ctl, n),
         r.e = "none", Size(r.code) >= Size(s.code),
         \A st \in {"begin", "do", "querydo", "leave"} : r.ctl[st] = s.ctl[st],
         Nested(t, n) # Crossed => Shape(Nested(t, n), r.ctl)
  PROVE  Fits(s, r, n, t)
<1>1. /\ Loops(Size(r.code), r.ctl["do"], r.ctl["querydo"], r.ctl["leave"])
      /\ Begins(Size(r.code), r.ctl["begin"])
  BY PlacesSame
<1> QED BY <1>1 DEF Fits, Fit

(* One that changes casestack and ofstack, with the structures. *)
LEMMA CasesFit ==
  ASSUME NEW s \in CState, NEW r \in CState, NEW n \in Seq(Structures), NEW m, NEW o \in Int, NEW k \in Int,
         Shape(n, s.ctl), \A st \in Stacks \ {"case", "of"} : r.ctl[st] = s.ctl[st],
         Counted(n, m, 0, 0, 0, 0, o, k), Len(r.ctl["of"]) = Len(s.ctl["of"]) + o,
         Marks(r.ctl["case"]) = Marks(s.ctl["case"]) + k,
         r.ctl["case"] # <<>> => r.ctl["case"][1] = -1,
         Whiles(m, s.ctl["begin"], s.ctl["while"]), OfsInCases(m)
  PROVE  Shape(m, r.ctl)
<1> DEFINE c == s.ctl
           d == r.ctl
<1>1. c \in [Stacks -> Seq(Int)] /\ Shape(n, c)
  BY StateFields
<1>2. \A st \in Stacks \ {"case", "of"} : Len(d[st]) = Len(c[st]) + 0 /\ Len(c[st]) \in Nat
  <2> TAKE st \in Stacks \ {"case", "of"}
  <2>1. d[st] = c[st] /\ Len(c[st]) \in Nat
    BY <1>1, StackTypes
  <2> QED BY <2>1
<1>3. Len(d["if"]) = Len(c["if"]) + 0 + 0
  <2>1. PICK x \in Nat : x = Len(c["if"])
    BY <1>2, StackNames
  <2>2. Len(d["if"]) = x + 0
    BY <1>2, <2>1, StackNames
  <2> QED BY <2>1, <2>2
<1>4. Resized(c, d, 0, 0, 0, 0, o, k, 0)
  BY <1>2, <1>3 DEF Resized, Stacks
<1>5. d["begin"] = c["begin"] /\ d["while"] = c["while"]
  BY StackNames
<1>6. Whiles(m, d["begin"], d["while"]) /\ OfsInCases(m) /\ (d["case"] # <<>> => d["case"][1] = -1)
  BY <1>5
<1>7. Counted(n, m, 0, 0, 0, 0, o, k) /\ 0 \in Int
  OBVIOUS
<1> HIDE DEF c, d
<1>8. Shape(m, d)
  BY ONLY <1>1, <1>4, <1>6, <1>7, ShapeIs, n \in Seq(Structures), o \in Int, k \in Int
<1> QED BY <1>8 DEF d

(* The first entry of casestack is a mark, and one more is pushed. *)
LEMMA CasePushed ==
  ASSUME NEW q \in Seq(Int), NEW x \in Int, q # <<>> => q[1] = -1, q = <<>> => x = -1
  PROVE  Append(q, x)[1] = -1
<1>1. /\ Append(q, x)[Len(q) + 1] = x /\ Len(q) \in Nat
      /\ \A i \in 1 .. Len(q) : Append(q, x)[i] = q[i]
  BY AppendProperties, LenProperties
<1>2. CASE q = <<>>
  BY <1>1, <1>2
<1>3. CASE q # <<>>
  <2>1. 1 \in 1 .. Len(q)
    BY <1>1, <1>3, EmptySeq
  <2> QED BY <1>1, <1>3, <2>1
<1> QED BY <1>2, <1>3

LEMMA CaseFits ==
  ASSUME NEW s \in CState, s.e = "none", NEW n \in Seq(Structures), Fit(Size(s.code), s.ctl, n)
  PROVE  Fits(s, CPP_case(s), n, "CASE")
<1> DEFINE r == CPP_case(s)
           m == Nested("CASE", n)
           c == s.ctl
           d == r.ctl
<1>1. "case" \in Stacks /\ "of" \in Stacks /\ -1 \in Int /\ c["case"] \in Seq(Int) /\ c["of"] \in Seq(Int)
  BY StackNames, StateFields
<1>2. /\ Restacks(s, r, "case") /\ d["case"] = Append(c["case"], -1)
  BY <1>1, PushedIs DEF CPP_case
<1>3. /\ r \in CState /\ r.e = "none" /\ Size(r.code) >= Size(s.code)
      /\ \A st \in Stacks \ {"case"} : d[st] = c[st]
  BY <1>2 DEF Restacks, Others
<1> HIDE DEF r
<1>4. ASSUME m # Crossed PROVE Shape(m, d)
  <2>1. n # Crossed /\ m = Append(n, "case") /\ "case" \in Structures
    BY <1>4, NestedIs DEF Structures
  <2>2. Shape(n, c)
    BY <2>1 DEF Fit
  <2>3. Counted(n, m, 0, 0, 0, 0, 0, 1)
    BY <2>1, CountsMore
  <2>4. Whiles(m, c["begin"], c["while"]) /\ OfsInCases(m)
    BY <2>1, <2>2, WhilesMore, OfsMore DEF Shape
  <2>5. Marks(d["case"]) = Marks(c["case"]) + 1
    <3>1. PICK q \in Seq(Int) : q = c["case"]
      BY <1>1
    <3>2. PICK x \in Int : x = -1
      BY <1>1
    <3>3. Count({x}, Append(q, x)) = Count({x}, q) + 1
      BY CountAppend
    <3> QED BY <1>2, <3>1, <3>2, <3>3 DEF Marks
  <2>6. d["case"][1] = -1
    <3>1. c["case"] # <<>> => c["case"][1] = -1
      BY <2>2 DEF Shape
    <3> QED BY <1>1, <1>2, <3>1, CasePushed
  <2>7. Len(d["of"]) = Len(c["of"]) + 0
    <3>1. d["of"] = c["of"] /\ Len(c["of"]) \in Nat
      BY <1>1, <1>3, LenProperties, StackNames
    <3> QED BY <3>1
  <2>8. 0 \in Int /\ 1 \in Int
    OBVIOUS
  <2> HIDE DEF m
  <2>9. Shape(m, r.ctl)
    BY <1>3, <2>2, <2>3, <2>4, <2>5, <2>6, <2>7, <2>8, CasesFit
  <2> QED BY <2>9
<1>5. \A st \in {"begin", "do", "querydo", "leave"} : r.ctl[st] = s.ctl[st]
  BY <1>3, StackNames
<1>6. Fits(s, r, n, "CASE")
  BY <1>3, <1>4, <1>5, FitsKept
<1> QED BY <1>6 DEF r

LEMMA OfFits ==
  ASSUME NEW s \in CState, s.e = "none", NEW n \in Seq(Structures), Fit(Size(s.code), s.ctl, n)
  PROVE  Fits(s, CPP_of(s), n, "OF")
<1> DEFINE a == Op(Op(s, "OVER"), "EQ")
           b == JumpAhead(a, "JZ", "of")
           r == Op(b, "DROP")
           m == Nested("OF", n)
           c == s.ctl
           d == r.ctl
<1>1. /\ "OVER" \in Opcodes /\ "EQ" \in Opcodes /\ "JZ" \in Opcodes /\ "DROP" \in Opcodes
      /\ "of" \in Stacks /\ c["of"] \in Seq(Int) /\ c["case"] \in Seq(Int)
  BY StackNames, StateFields DEF Opcodes
<1>2. Grows(s, a)
  BY <1>1, GrowsNot, GrowsOp
<1>3. CPP_of(s) = r
  BY DEF CPP_of
<1> HIDE DEF a
<1>4. Restacks(a, b, "of") /\ b.ctl["of"] = Append(a.ctl["of"], Size(a.code) + 1)
  BY <1>1, <1>2, JumpAheadIs DEF Grows
<1> HIDE DEF b
<1>5. Grows(b, r)
  BY <1>1, <1>4, GrowsNot, GrowsOp DEF Restacks
<1> HIDE DEF r
<1>6. /\ r \in CState /\ r.e = "none" /\ Size(r.code) >= Size(s.code)
      /\ \A st \in Stacks \ {"of"} : d[st] = c[st]
      /\ d["of"] = Append(c["of"], Size(a.code) + 1)
  BY <1>2, <1>4, <1>5 DEF Grows, Restacks, Others
<1>7. ASSUME m # Crossed PROVE Shape(m, d)
  <2>1. n # Crossed /\ n # <<>> /\ Last(n) = "case" /\ m = Append(n, "of") /\ "of" \in Structures
    BY <1>7, NestedIs DEF Structures, Closers
  <2>2. Shape(n, c)
    BY <2>1 DEF Fit
  <2>3. Counted(n, m, 0, 0, 0, 0, 1, 0)
    BY <2>1, CountsMore
  <2>4. Whiles(m, c["begin"], c["while"]) /\ OfsInCases(m)
    BY <2>1, <2>2, WhilesMore, OfsMore DEF Shape
  <2>5. d["case"] = c["case"] /\ Marks(c["case"]) \in Nat
    <3>1. Len(c["case"]) \in Nat
      BY <1>1, LenProperties
    <3> QED BY <1>6, <3>1, StackNames, CountSets DEF Marks, Count
  <2>6. Marks(d["case"]) = Marks(c["case"]) + 0 /\ (d["case"] # <<>> => d["case"][1] = -1)
    BY <2>2, <2>5 DEF Shape
  <2>7. Len(d["of"]) = Len(c["of"]) + 1
    <3>1. Size(a.code) + 1 \in Int
      BY <1>2 DEF Grows
    <3> QED BY <1>1, <1>6, <3>1, AppendProperties
  <2>8. 0 \in Int /\ 1 \in Int
    OBVIOUS
  <2>9. \A st \in Stacks \ {"case", "of"} : d[st] = c[st]
    BY <1>6
  <2> HIDE DEF m
  <2>10. Shape(m, r.ctl)
    BY <1>6, <2>2, <2>3, <2>4, <2>6, <2>7, <2>8, <2>9, CasesFit
  <2> QED BY <2>10
<1>8. \A st \in {"begin", "do", "querydo", "leave"} : r.ctl[st] = s.ctl[st]
  BY <1>6, StackNames
<1>9. Fits(s, r, n, "OF")
  BY <1>6, <1>7, <1>8, FitsKept
<1> QED BY <1>3, <1>9

(* Only -1 counts as a mark. *)
LEMMA MarkLess ==
  ASSUME NEW q \in Seq(Int), NEW x \in Int, x # -1
  PROVE  Marks(Append(q, x)) = Marks(q) /\ Marks(q) \in Nat
<1>1. x \notin {-1}
  OBVIOUS
<1>2. Count({-1}, Append(q, x)) = Count({-1}, q)
  BY <1>1, CountAppend
<1>3. Count({-1}, q) \in Nat
  BY LenProperties, CountSets DEF Count
<1> QED BY <1>2, <1>3 DEF Marks

(* A sequence with a mark is not empty. *)
LEMMA MarksSome ==
  ASSUME NEW q \in Seq(Int), Marks(q) # 0 PROVE q # <<>>
<1>1. ASSUME q = <<>> PROVE FALSE
  <2>1. Len(q) = 0
    BY <1>1, EmptySeq
  <2>2. CountTo({-1}, q, 0) = 0
    BY CountIs
  <2> QED BY <2>1, <2>2 DEF Marks, Count
<1> QED BY <1>1

LEMMA EndofFits ==
  ASSUME NEW s \in CState, s.e = "none", NEW n \in Seq(Structures), Fit(Size(s.code), s.ctl, n)
  PROVE  Fits(s, CPP_endof(s), n, "ENDOF")
<1> DEFINE a == JumpAhead(s, "JMP", "case")
           r == CPP_endof(s)
           m == Nested("ENDOF", n)
           c == s.ctl
           d == r.ctl
           b == Land(a, "of", 0)
<1>1. /\ "JMP" \in Opcodes /\ "of" \in Stacks /\ "case" \in Stacks /\ 0 \in Int
      /\ c["of"] \in Seq(Int) /\ c["case"] \in Seq(Int) /\ "endof without of" \in Codes
  <2>1. "JMP" \in Opcodes
    BY DEF Opcodes
  <2>2. "endof without of" \in Codes
    BY DEF Codes, StructureErrors
  <2>3. 0 \in Int
    OBVIOUS
  <2>4. s.ctl \in [Stacks -> Seq(Int)] /\ "of" \in Stacks /\ "case" \in Stacks
    BY StackNames, StateFields
  <2>5. c["of"] \in Seq(Int) /\ c["case"] \in Seq(Int)
    BY <2>4
  <2> QED BY <2>1, <2>2, <2>3, <2>4, <2>5
<1>2. PICK x \in Nat : x = Size(s.code) + 1
  BY StateFields, SizeNat
<1>3. Restacks(s, a, "case") /\ a.ctl["case"] = Append(c["case"], x)
  BY <1>1, <1>2, JumpAheadIs
<1>4. a \in CState /\ a.e = "none" /\ Size(a.code) >= Size(s.code) /\ \A st \in Stacks \ {"case"} : a.ctl[st] = c[st]
  BY <1>3 DEF Restacks, Others
<1>5. a.ctl["of"] = c["of"]
  BY <1>4, StackNames
<1>6. r = IF a.ctl["of"] = <<>> THEN Fails(a, "endof without of") ELSE b
  BY DEF CPP_endof, IsEmpty
<1> HIDE DEF a, r
<1>7. c["of"] = <<>> => r \in CState /\ r.e = "endof without of"
  BY <1>1, <1>4, <1>5, <1>6, FailsTyped
<1>8. ASSUME c["of"] # <<>>
      PROVE  /\ r \in CState /\ r.e = "none" /\ Size(r.code) >= Size(s.code)
             /\ \A st \in Stacks \ {"case", "of"} : d[st] = c[st]
             /\ d["of"] = Front(c["of"]) /\ d["case"] = Append(c["case"], x)
  <2>1. Restacks(a, b, "of") /\ b.ctl["of"] = Front(a.ctl["of"]) /\ Size(b.code) = Size(a.code)
    BY <1>1, <1>4, <1>5, <1>8, LandIs
  <2>2. r = b
    BY <1>5, <1>6, <1>8
  <2> HIDE DEF b
  <2>3. b \in CState /\ b.e = "none" /\ \A st \in Stacks \ {"of"} : b.ctl[st] = a.ctl[st]
    BY <1>4, <2>1 DEF Restacks, Others
  <2>4. b.ctl["case"] = a.ctl["case"]
    BY <2>3, StackNames
  <2> QED BY <1>3, <1>4, <1>5, <2>1, <2>2, <2>3, <2>4
<1>9. ASSUME m # Crossed
      PROVE  c["of"] # <<>> /\ Shape(m, d)
  <2>1. n # Crossed /\ n # <<>> /\ Last(n) = "of" /\ m = Front(n)
    BY <1>9, NestedIs DEF Closers
  <2>2. Shape(n, c) /\ m \in Seq(Structures)
    BY <2>1, FrontAndLast DEF Fit
  <2>3. Counted(n, m, 0, 0, 0, 0, -1, 0)
    BY <2>1, CountsLess
  <2>4. c["of"] # <<>>
    <3>1. Ofs(m) = Ofs(n) + -1 /\ Ofs(m) \in Nat /\ Ofs(n) \in Nat /\ Len(c["of"]) = Ofs(n)
      BY <2>2, <2>3, CountsNat DEF Counted, Shape
    <3>2. Len(c["of"]) # 0
      BY <3>1
    <3> QED BY <3>2, EmptySeq
  <2>5. Whiles(m, c["begin"], c["while"]) /\ OfsInCases(m)
    BY <2>1, <2>2, WhilesShort, OfsShort DEF Shape
  <2>6. /\ r \in CState /\ \A st \in Stacks \ {"case", "of"} : d[st] = c[st]
        /\ d["of"] = Front(c["of"]) /\ d["case"] = Append(c["case"], x)
    BY <1>8, <2>4
  <2>7. Len(d["of"]) = Len(c["of"]) + -1
    <3>1. PICK q \in Seq(Int) : q = c["of"]
      BY <1>1
    <3>2. Len(Front(q)) = Len(q) - 1 /\ Len(q) \in Nat
      BY <2>4, <3>1, FrontTyped
    <3>3. d["of"] = Front(q)
      BY <2>6, <3>1
    <3> QED BY <3>1, <3>2, <3>3
  <2>8. Marks(d["case"]) = Marks(c["case"]) + 0
    <3>1. x \in Int /\ x # -1
      OBVIOUS
    <3>2. Marks(Append(c["case"], x)) = Marks(c["case"]) /\ Marks(c["case"]) \in Nat
      BY <1>1, <3>1, MarkLess
    <3> QED BY <2>6, <3>2
  <2>9. c["case"] # <<>>
    <3>1. PICK k \in Nat : Len(n) = k /\ k \in 1 .. k
      BY <2>1, LenProperties, EmptySeq
    <3>2. n[k] = "of" /\ k - 1 \in 1 .. k /\ n[k - 1] \in {"case"}
      BY <2>1, <2>2, <3>1 DEF Last, Shape, OfsInCases
    <3>3. CountTo({"case"}, n, k - 1) \in 1 .. CountTo({"case"}, n, k)
      BY <3>2, CountPlace
    <3>4. Cases(n) = CountTo({"case"}, n, k) /\ Cases(n) \in Nat
      BY <3>1, CountsNat DEF Cases, Count
    <3>5. Cases(n) # 0
      BY <3>3, <3>4
    <3>6. Marks(c["case"]) # 0
      BY <2>2, <3>5 DEF Shape
    <3> QED BY <1>1, <3>6, MarksSome
  <2>10. d["case"][1] = -1
    <3>1. c["case"] # <<>> => c["case"][1] = -1
      BY <2>2 DEF Shape
    <3>2. PICK q \in Seq(Int) : q = c["case"] /\ q # <<>> /\ q[1] = -1
      BY <1>1, <2>9, <3>1
    <3>3. x \in Int
      OBVIOUS
    <3>4. Append(q, x)[1] = -1
      BY <3>2, <3>3, CasePushed
    <3> QED BY <2>6, <3>2, <3>4
  <2>11. 0 \in Int /\ -1 \in Int
    OBVIOUS
  <2> HIDE DEF m
  <2>12. Shape(m, r.ctl)
    BY <2>2, <2>3, <2>5, <2>6, <2>7, <2>8, <2>10, <2>11, CasesFit
  <2> QED BY <2>4, <2>12
<1>10. CASE c["of"] # <<>>
  <2>1. \A st \in {"begin", "do", "querydo", "leave"} : r.ctl[st] = s.ctl[st]
    BY <1>8, <1>10, StackNames
  <2>2. Fits(s, r, n, "ENDOF")
    BY <1>8, <1>9, <1>10, <2>1, FitsKept
  <2> QED BY <2>2 DEF r
<1>11. CASE c["of"] = <<>>
  BY <1>7, <1>9, <1>11 DEF Fits, r
<1> QED BY <1>10, <1>11

(* What ENDCASE keeps of casestack. *)
LEMMA DropCaseIs ==
  ASSUME NEW stack \in Seq(Int)
  PROVE  LET q == SubSeq(stack, 1, CaseMark(stack) - 1) IN
         /\ q \in Seq(Int)
         /\ stack # <<>> /\ stack[1] = -1 =>
              Marks(q) = Marks(stack) + -1 /\ (q # <<>> => q[1] = -1)
<1> DEFINE mark == CaseMark(stack)
           q == SubSeq(stack, 1, mark - 1)
<1>1. /\ mark \in 0 .. Len(stack) /\ Len(stack) \in Nat
      /\ \A i \in 1 .. Len(stack) : i > mark => stack[i] # -1
      /\ mark # 0 => stack[mark] = -1
  BY CaseMarkAt, LenProperties
<1> HIDE DEF mark
<1>2. q \in Seq(Int)
  <2> DEFINE k == mark - 1
  <2>1. k \in Int /\ k <= Len(stack) /\ 1 \in Nat /\ 1 >= 1
    BY <1>1
  <2> HIDE DEF k
  <2>2. SubSeq(stack, 1, k) \in Seq(Int)
    BY <2>1, CutTyped
  <2> QED BY <2>2 DEF k
<1>3. ASSUME stack # <<>>, stack[1] = -1
      PROVE  Marks(q) = Marks(stack) + -1 /\ (q # <<>> => q[1] = -1)
  <2>1. mark \in 1 .. Len(stack) /\ stack[mark] = -1
    <3>1. 1 \in 1 .. Len(stack)
      BY <1>1, <1>3, EmptySeq
    <3>2. ~(1 > mark)
      BY <1>1, <1>3, <3>1
    <3> QED BY <1>1, <3>2
  <2>2. PICK k \in Nat : mark = k + 1 /\ k = mark - 1
    <3>1. mark - 1 \in Nat /\ mark = mark - 1 + 1
      BY <2>1
    <3> QED BY <3>1
  <2>3. Len(q) = k /\ \A i \in 1 .. k : q[i] = stack[i]
    <3>1. \A i \in 1 .. k : stack[i] \in Int
      <4> TAKE i \in 1 .. k
      <4>1. i \in 1 .. Len(stack)
        BY <1>1, <2>1, <2>2
      <4> QED BY <4>1, ElementOfSeq
    <3>2. q = SubSeq(stack, 1, k)
      BY <2>2
    <3> HIDE DEF q
    <3>3. 1 \in Int /\ k \in Int /\ Len(SubSeq(stack, 1, k)) = k
          /\ \A i \in 1 .. k : SubSeq(stack, 1, k)[i] = stack[i]
      BY <3>1, SubSeqProperties, Z3
    <3> QED BY <3>2, <3>3
  <2>4. Marks(q) = CountTo({-1}, stack, k)
    <3>1. CountTo({-1}, q, k) = CountTo({-1}, stack, k)
      BY <2>3, CountSame
    <3> QED BY <2>3, <3>1 DEF Marks, Count
  <2>5. Marks(stack) = CountTo({-1}, stack, k) + 1
    <3>1. CountTo({-1}, stack, Len(stack)) = CountTo({-1}, stack, mark)
      <4>1. Len(stack) \in Nat /\ mark \in 0 .. Len(stack)
        BY <1>1
      <4>2. \A i \in 1 .. Len(stack) : i > mark => stack[i] \notin {-1}
        BY <1>1
      <4> QED BY <4>1, <4>2, CountFlat
    <3>2. stack[k + 1] \in {-1}
      BY <2>1, <2>2
    <3>3. CountTo({-1}, stack, k + 1) = CountTo({-1}, stack, k) + 1
      BY <3>2, CountIs
    <3> QED BY <2>2, <3>1, <3>3 DEF Marks, Count
  <2>6. CountTo({-1}, stack, k) \in Nat
    BY CountSets
  <2>7. Marks(q) = Marks(stack) + -1
    BY <2>4, <2>5, <2>6
  <2>8. q # <<>> => q[1] = -1
    <3> HIDE DEF q
    <3>1. q # <<>> => Len(q) # 0
      BY <1>2, EmptySeq
    <3>2. q # <<>> => 1 \in 1 .. k
      BY <2>3, <3>1
    <3> QED BY <1>3, <2>3, <3>2
  <2> QED BY <2>7, <2>8
<1> QED BY <1>2, <1>3 DEF mark

LEMMA EndcaseFits ==
  ASSUME NEW s \in CState, s.e = "none", NEW n \in Seq(Structures), Fit(Size(s.code), s.ctl, n)
  PROVE  Fits(s, CPP_endcase(s), n, "ENDCASE")
<1> DEFINE stack == s.ctl["case"]
           mark  == CaseMark(stack)
           a     == Op(s, "DROP")
           q     == SubSeq(stack, 1, mark - 1)
           b     == SetStack(a, "case", q)
           u     == OpsCopyInt(b, Range(SubSeq(stack, mark + 1, Len(stack))), 0)
           r == CPP_endcase(s)
           m == Nested("ENDCASE", n)
           c == s.ctl
           d == r.ctl
<1>1. "DROP" \in Opcodes /\ "case" \in Stacks /\ "no case" \in Codes
  <2>1. "DROP" \in Opcodes
    BY DEF Opcodes
  <2>2. "no case" \in Codes
    BY DEF Codes, StructureErrors
  <2> QED BY <2>1, <2>2, StackNames
<1>2. Grows(s, a)
  BY <1>1, GrowsNot, GrowsOp
<1>3. r = IF stack = <<>> THEN Fails(s, "no case") ELSE u
  <2>1. a.ctl["case"] = stack
    BY <1>2 DEF Grows
  <2>2. b = [Op(s, "DROP") EXCEPT !.ctl["case"] = DropCase(@, mark)]
    BY <2>1 DEF DropCase, SetStack
  <2> QED BY <2>2 DEF CPP_endcase, CaseMark
<1>4. c \in [Stacks -> Seq(Int)] /\ stack \in Seq(Int)
  BY <1>1, StateFields
<1>5. /\ q \in Seq(Int)
      /\ stack # <<>> /\ stack[1] = -1 => Marks(q) = Marks(stack) + -1 /\ (q # <<>> => q[1] = -1)
  <2> HIDE DEF stack
  <2> QED BY <1>4, DropCaseIs
<1> HIDE DEF q, a
<1>6. /\ b \in CState /\ b.e = "none" /\ Size(b.code) >= Size(s.code)
      /\ b.ctl["case"] = q /\ \A st \in Stacks \ {"case"} : b.ctl[st] = c[st]
  <2>1. b \in CState /\ b.e = a.e /\ b.code = a.code /\ b.ctl = [a.ctl EXCEPT !["case"] = q]
    <3>1. a \in CState /\ "case" \in Stacks /\ q \in Seq(Int)
      BY <1>1, <1>2, <1>5 DEF Grows
    <3> QED BY ONLY <3>1, SetStackTyped
  <2> HIDE DEF b
  <2>2. b.ctl = [c EXCEPT !["case"] = q]
    BY <1>2, <2>1 DEF Grows
  <2>3. b.ctl["case"] = q /\ \A st \in Stacks \ {"case"} : b.ctl[st] = c[st]
    BY <1>1, <1>4, <2>2
  <2> QED BY <1>2, <2>1, <2>3 DEF Grows
<1> HIDE DEF b
<1>7. u \in CState /\ u.e = b.e /\ u.ctl = b.ctl /\ Size(u.code) = Size(b.code)
  <2> DEFINE o == Range(SubSeq(stack, mark + 1, Len(stack)))
  <2> HIDE DEF o
  <2>1. 0 \in Int
    OBVIOUS
  <2>2. /\ OpsCopyInt(b, o, 0) \in CState /\ OpsCopyInt(b, o, 0).e = b.e /\ OpsCopyInt(b, o, 0).ctl = b.ctl
        /\ Size(OpsCopyInt(b, o, 0).code) = Size(b.code)
    BY <1>6, <2>1, CopyTyped
  <2> QED BY <2>2 DEF o
<1> HIDE DEF u, r
<1>8. stack # <<>> =>
        /\ r \in CState /\ r.e = "none" /\ Size(r.code) >= Size(s.code)
        /\ d["case"] = q /\ \A st \in Stacks \ {"case"} : d[st] = c[st]
  BY <1>3, <1>6, <1>7
<1>9. stack = <<>> => r \in CState /\ r.e = "no case"
  BY <1>1, <1>3, FailsTyped
<1>10. ASSUME m # Crossed
       PROVE  stack # <<>> /\ Shape(m, d)
  <2>1. n # Crossed /\ n # <<>> /\ Last(n) = "case" /\ m = Front(n)
    BY <1>10, NestedIs DEF Closers
  <2>2. Shape(n, c) /\ m \in Seq(Structures)
    BY <2>1, FrontAndLast DEF Fit
  <2>3. Counted(n, m, 0, 0, 0, 0, 0, -1)
    BY <2>1, CountsLess
  <2>4. stack # <<>> /\ stack[1] = -1
    <3>1. Cases(m) = Cases(n) + -1 /\ Cases(m) \in Nat /\ Cases(n) \in Nat /\ Marks(stack) = Cases(n)
      BY <2>2, <2>3, CountsNat DEF Counted, Shape
    <3>2. Marks(stack) # 0
      BY <3>1
    <3>3. stack # <<>>
      <4> HIDE DEF stack
      <4> QED BY <1>4, <3>2, MarksSome
    <3> QED BY <2>2, <3>3 DEF Shape
  <2>5. Whiles(m, c["begin"], c["while"]) /\ OfsInCases(m)
    BY <2>1, <2>2, WhilesShort, OfsShort DEF Shape
  <2>6. r \in CState /\ d["case"] = q /\ \A st \in Stacks \ {"case"} : d[st] = c[st]
    BY <1>8, <2>4
  <2>7. Len(d["of"]) = Len(c["of"]) + 0
    <3>1. d["of"] = c["of"] /\ Len(c["of"]) \in Nat
      BY <1>4, <2>6, StackTypes, StackNames
    <3> QED BY <3>1
  <2>8. Marks(d["case"]) = Marks(c["case"]) + -1 /\ (d["case"] # <<>> => d["case"][1] = -1)
    BY <1>5, <2>4, <2>6
  <2>9. 0 \in Int /\ -1 \in Int
    OBVIOUS
  <2>10. \A st \in Stacks \ {"case", "of"} : r.ctl[st] = s.ctl[st]
    BY <2>6
  <2> HIDE DEF m
  <2>11. Shape(m, r.ctl)
    BY <2>2, <2>3, <2>5, <2>6, <2>7, <2>8, <2>9, <2>10, CasesFit
  <2> QED BY <2>4, <2>11
<1>11. CASE stack # <<>>
  <2>1. \A st \in {"begin", "do", "querydo", "leave"} : r.ctl[st] = s.ctl[st]
    BY <1>8, <1>11, StackNames
  <2>2. Fits(s, r, n, "ENDCASE")
    BY <1>8, <1>10, <1>11, <2>1, FitsKept
  <2> QED BY <2>2 DEF r
<1>12. CASE stack = <<>>
  BY <1>9, <1>10, <1>12 DEF Fits, r
<1> QED BY <1>11, <1>12

-----------------------------------------------------------------------------
(* DO, ?DO, LEAVE, LOOP *)

(* A loop starts at the end of the code. *)
LEMMA LoopsMore ==
  ASSUME NEW do \in Seq(Int), NEW querydo \in Seq(Int), NEW leave \in Seq(Int), NEW size \in Nat,
         NEW start \in Nat, NEW more \in Nat, Loops(size, do, querydo, leave),
         size < start, start <= more, NEW both \in BOOLEAN
  PROVE  Loops(more, Append(do, start), IF both THEN Append(querydo, start) ELSE querydo, leave)
<1> DEFINE e == Append(do, start)
           f == Append(querydo, start)
           k == Len(do)
           l == Len(querydo)
<1>1. /\ Len(e) = k + 1 /\ e[k + 1] = start /\ k \in Nat /\ \A i \in 1 .. k : e[i] = do[i] /\ do[i] \in Int
      /\ Len(f) = l + 1 /\ f[l + 1] = start /\ l \in Nat
      /\ \A i \in 1 .. l : f[i] = querydo[i]
      /\ e # <<>>
  BY AppendProperties, LenProperties, ElementOfSeq
<1>2. /\ \A i \in 1 .. k : do[i] <= size
      /\ \A i, j \in 1 .. k : i < j => do[i] < do[j]
      /\ \A i, j \in 1 .. l : i < j => querydo[i] < querydo[j]
      /\ \A i \in 1 .. l : \E j \in 1 .. k : querydo[i] = do[j]
      /\ \A i \in 1 .. Len(leave) : do # <<>> /\ leave[i] > do[1]
  BY DEF Loops
<1> HIDE DEF e, f, k, l
<1>3. \A i \in 1 .. k : e[i] <= more /\ e[i] < start /\ e[i] = do[i]
  <2> TAKE i \in 1 .. k
  <2>1. do[i] \in Int /\ do[i] <= size /\ e[i] = do[i]
    BY <1>1, <1>2
  <2> QED BY <2>1
<1>4. \A i \in 1 .. k + 1 : i \in 1 .. k \/ i = k + 1
  BY <1>1
<1>5. \A i \in 1 .. l + 1 : i \in 1 .. l \/ i = l + 1
  BY <1>1
<1>6. \A i \in 1 .. k + 1 : e[i] <= more
  BY <1>1, <1>3, <1>4
<1>7. ASSUME NEW i \in 1 .. k + 1, NEW j \in 1 .. k + 1, i < j PROVE e[i] < e[j]
  <2>1. i \in 1 .. k
    BY <1>1, <1>7
  <2>2. CASE j = k + 1
    BY <1>1, <1>3, <2>1, <2>2
  <2>3. CASE j \in 1 .. k
    BY <1>2, <1>3, <1>7, <2>1, <2>3
  <2> QED BY <1>4, <2>2, <2>3
<1>8. ASSUME NEW i \in 1 .. l PROVE querydo[i] < start /\ \E j \in 1 .. k + 1 : querydo[i] = e[j]
  <2>1. PICK j \in 1 .. k : querydo[i] = do[j]
    BY <1>2
  <2>2. j \in 1 .. k + 1 /\ querydo[i] = e[j] /\ e[j] < start
    BY <1>1, <1>3, <2>1
  <2> QED BY <2>2
<1>9. ASSUME NEW i \in 1 .. Len(leave) PROVE e # <<>> /\ leave[i] > e[1]
  <2>1. do # <<>> /\ leave[i] > do[1]
    BY <1>2
  <2>2. 1 \in 1 .. k
    BY <1>1, <2>1, EmptySeq DEF k
  <2> QED BY <1>1, <2>1, <2>2
<1>10. CASE both
  <2>1. ASSUME NEW i \in 1 .. l + 1, NEW j \in 1 .. l + 1, i < j PROVE f[i] < f[j]
    <3>1. i \in 1 .. l
      BY <1>1, <2>1
    <3>2. CASE j = l + 1
      BY <1>1, <1>8, <3>1, <3>2
    <3>3. CASE j \in 1 .. l
      BY <1>1, <1>2, <2>1, <3>1, <3>3
    <3> QED BY <1>5, <3>2, <3>3
  <2>2. ASSUME NEW i \in 1 .. l + 1 PROVE \E j \in 1 .. k + 1 : f[i] = e[j]
    <3>1. CASE i = l + 1
      <4>1. k + 1 \in 1 .. k + 1
        BY <1>1
      <4> QED BY <1>1, <3>1, <4>1
    <3>2. CASE i \in 1 .. l
      BY <1>1, <1>8, <3>2
    <3> QED BY <1>5, <3>1, <3>2
  <2>3. Loops(more, e, f, leave)
    BY <1>1, <1>6, <1>7, <1>9, <2>1, <2>2 DEF Loops
  <2> QED BY <1>10, <2>3 DEF e, f
<1>11. CASE ~both
  <2>1. Loops(more, e, querydo, leave)
    BY <1>1, <1>2, <1>6, <1>7, <1>8, <1>9 DEF Loops, k, l
  <2> QED BY <1>11, <2>1 DEF e
<1> QED BY <1>10, <1>11

(* One that changes the stacks of loops, with the structures. *)
LEMMA LoopsFit ==
  ASSUME NEW s \in CState, NEW r \in CState, NEW n \in Seq(Structures), NEW m, NEW l \in Int, NEW q \in Int,
         Shape(n, s.ctl), \A st \in {"begin", "while", "case", "of"} : r.ctl[st] = s.ctl[st],
         Counted(n, m, 0, 0, 0, l, 0, 0), Len(r.ctl["do"]) = Len(s.ctl["do"]) + l,
         Len(r.ctl["if"]) = Len(s.ctl["if"]) + q, Len(r.ctl["querydo"]) = Len(s.ctl["querydo"]) + q,
         Whiles(m, s.ctl["begin"], s.ctl["while"]), OfsInCases(m)
  PROVE  Shape(m, r.ctl)
<1> DEFINE c == s.ctl
           d == r.ctl
<1>1. c \in [Stacks -> Seq(Int)] /\ Shape(n, c)
  BY StateFields
<1>2. \A st \in {"begin", "while", "case", "of"} : d[st] = c[st] /\ Len(d[st]) = Len(c[st]) + 0 /\ Marks(d[st]) = Marks(c[st]) + 0
  <2> TAKE st \in {"begin", "while", "case", "of"}
  <2>1. st \in Stacks
    BY StackNames
  <2>2. d[st] = c[st] /\ c[st] \in Seq(Int) /\ Len(c[st]) \in Nat
    BY <1>1, <2>1, StackTypes
  <2>3. Marks(c[st]) \in Nat
    BY <2>2, CountSets DEF Marks, Count
  <2> QED BY <2>2, <2>3
<1>3. Len(d["if"]) = Len(c["if"]) + 0 + q
  <2>1. PICK x \in Nat : x = Len(c["if"])
    BY <1>1, StackNames, StackTypes
  <2>2. Len(d["if"]) = x + q
    BY <2>1
  <2>3. x + q = x + 0 + q
    OBVIOUS
  <2> QED BY <2>1, <2>2, <2>3
<1>4. Resized(c, d, 0, 0, 0, l, 0, 0, q)
  <2>1. Len(d["querydo"]) = Len(c["querydo"]) + q /\ Len(d["do"]) = Len(c["do"]) + l
    OBVIOUS
  <2> HIDE DEF c, d
  <2> QED BY <1>2, <1>3, <2>1 DEF Resized
<1>5. Whiles(m, d["begin"], d["while"]) /\ OfsInCases(m) /\ (d["case"] # <<>> => d["case"][1] = -1)
  BY <1>1, <1>2 DEF Shape
<1>6. Counted(n, m, 0, 0, 0, l, 0, 0) /\ 0 \in Int
  OBVIOUS
<1> HIDE DEF c, d
<1>7. Shape(m, d)
  BY ONLY <1>1, <1>4, <1>5, <1>6, ShapeIs, n \in Seq(Structures), l \in Int, q \in Int
<1> QED BY <1>7 DEF d

LEMMA DoIs ==
  ASSUME NEW s \in CState
  PROVE  LET r == CPP_do(s) IN
         /\ Restacks(s, r, "do") /\ r.ctl["do"] = Append(s.ctl["do"], Size(r.code))
         /\ Size(r.code) > Size(s.code)
<1> DEFINE a == Op(Op(s, "PUSH"), "PUSH")
           b == Op(a, "PUSHIP")
           size == Size(b.code)
           r == Pushed(b, "do", size)
<1>1. "PUSH" \in Opcodes /\ "PUSHIP" \in Opcodes /\ "do" \in Stacks /\ 0 \in Args
  BY StackNames DEF Opcodes, Args
<1>2. Grows(s, a)
  BY <1>1, GrowsNot, GrowsOp
<1>3. CPP_do(s) = r
  BY DEF CPP_do
<1> HIDE DEF a
<1>4. /\ b \in CState /\ b.e = a.e /\ b.ctl = a.ctl /\ Size(b.code) > Size(a.code)
      /\ Size(b.code) \in Nat
  <2>1. a \in CState
    BY <1>2 DEF Grows
  <2> QED BY <1>1, <2>1, OpIs DEF Op
<1> HIDE DEF b
<1>5. size \in Int
  BY <1>4
<1>6. Restacks(b, r, "do") /\ r.ctl["do"] = Append(b.ctl["do"], size) /\ Size(r.code) = size
  <2> HIDE DEF size
  <2>1. /\ Restacks(b, Pushed(b, "do", size), "do")
        /\ Pushed(b, "do", size).ctl["do"] = Append(b.ctl["do"], size)
        /\ Size(Pushed(b, "do", size).code) = Size(b.code)
    BY <1>1, <1>4, <1>5, PushedIs
  <2> QED BY <2>1 DEF size
<1> HIDE DEF r
<1>7. Restacks(s, r, "do") /\ Size(r.code) > Size(s.code) /\ r.ctl["do"] = Append(s.ctl["do"], Size(r.code))
  BY <1>2, <1>4, <1>6 DEF Restacks, Grows
<1> QED BY <1>3, <1>7

LEMMA DoFits ==
  ASSUME NEW s \in CState, s.e = "none", NEW n \in Seq(Structures), Fit(Size(s.code), s.ctl, n)
  PROVE  Fits(s, CPP_do(s), n, "DO")
<1> DEFINE r == CPP_do(s)
           m == Nested("DO", n)
           c == s.ctl
           d == r.ctl
<1>1. /\ r \in CState /\ r.e = "none" /\ Others(c, d, "do") /\ Size(s.code) \in Nat /\ Size(r.code) \in Nat
      /\ d["do"] = Append(c["do"], Size(r.code)) /\ Size(r.code) > Size(s.code)
  BY DoIs DEF Restacks
<1> HIDE DEF r
<1>2. /\ c["do"] \in Seq(Int) /\ c["querydo"] \in Seq(Int) /\ c["leave"] \in Seq(Int)
      /\ c \in [Stacks -> Seq(Int)]
  BY StateFields, StackNames
<1>3. \A st \in Stacks \ {"do"} : d[st] = c[st]
  BY <1>1 DEF Others
<1>4. d["querydo"] = c["querydo"] /\ d["leave"] = c["leave"] /\ d["begin"] = c["begin"] /\ d["if"] = c["if"]
  BY <1>3, StackNames
<1>5. Loops(Size(r.code), d["do"], d["querydo"], d["leave"])
  <2>1. PICK x \in Nat, y \in Nat : x = Size(s.code) /\ y = Size(r.code) /\ x < y
    BY <1>1
  <2>2. Loops(x, c["do"], c["querydo"], c["leave"])
    BY <2>1 DEF Fit
  <2>3. y <= y /\ FALSE \in BOOLEAN
    OBVIOUS
  <2>4. Loops(y, Append(c["do"], y), IF FALSE THEN Append(c["querydo"], y) ELSE c["querydo"], c["leave"])
    <3> HIDE DEF c
    <3> QED BY <1>2, <2>1, <2>2, <2>3, LoopsMore
  <2> QED BY <1>1, <1>4, <2>1, <2>4
<1>6. Begins(Size(r.code), d["begin"])
  <2>1. Fit(Size(r.code), c, n)
    <3>1. PICK x \in Nat, y \in Nat : x = Size(s.code) /\ y = Size(r.code) /\ x <= y
      BY <1>1, <1>2
    <3> HIDE DEF c
    <3> QED BY <1>2, <3>1, FitGrows DEF c
  <2> QED BY <1>4, <2>1 DEF Fit
<1>7. ASSUME m # Crossed PROVE Shape(m, d)
  <2>1. n # Crossed /\ m = Append(n, "do") /\ "do" \in Structures
    BY <1>7, NestedIs DEF Structures
  <2>2. Shape(n, c)
    BY <2>1 DEF Fit
  <2>3. Counted(n, m, 0, 0, 0, 1, 0, 0)
    BY <2>1, CountsMore
  <2>4. Whiles(m, c["begin"], c["while"]) /\ OfsInCases(m)
    BY <2>1, <2>2, WhilesMore, OfsMore DEF Shape
  <2>5. Len(d["do"]) = Len(c["do"]) + 1
    <3>1. Size(r.code) \in Int
      BY <1>1
    <3> QED BY <1>1, <1>2, <3>1, AppendProperties
  <2>6. Len(d["if"]) = Len(c["if"]) + 0 /\ Len(d["querydo"]) = Len(c["querydo"]) + 0
    <3>1. Len(c["if"]) \in Nat /\ Len(c["querydo"]) \in Nat
      BY <1>2, StackTypes, StackNames
    <3> QED BY <1>4, <3>1
  <2>7. \A st \in {"begin", "while", "case", "of"} : d[st] = c[st]
    BY <1>3, StackNames
  <2>8. 0 \in Int /\ 1 \in Int
    OBVIOUS
  <2> HIDE DEF m
  <2>9. Shape(m, r.ctl)
    BY <1>1, <2>2, <2>3, <2>4, <2>5, <2>6, <2>7, <2>8, LoopsFit
  <2> QED BY <2>9
<1> QED BY <1>1, <1>5, <1>6, <1>7 DEF Fits, Fit, r

LEMMA QueryDoIs ==
  ASSUME NEW s \in CState, s.e = "none"
  PROVE  LET r == CPP_querydo(s) IN
         /\ r \in CState /\ r.e = "none" /\ Size(r.code) > Size(s.code)
         /\ \A st \in Stacks \ {"if", "do", "querydo"} : r.ctl[st] = s.ctl[st]
         /\ Len(r.ctl["if"]) = Len(s.ctl["if"]) + 1
         /\ r.ctl["do"] = Append(s.ctl["do"], Size(r.code))
         /\ r.ctl["querydo"] = Append(s.ctl["querydo"], Size(r.code))
<1> DEFINE a == Op(Op(s, "2DUP"), "EQ")
           b == CPP_if(a)
           c == Op(b, "2DROP")
           e == CPP_else(c)
           t == CPP_do(e)
           size == Size(t.code)
           r == Pushed(t, "querydo", size)
<1>1. /\ "2DUP" \in Opcodes /\ "EQ" \in Opcodes /\ "2DROP" \in Opcodes /\ "JZ" \in Opcodes
      /\ "if" \in Stacks /\ "do" \in Stacks /\ "querydo" \in Stacks
  BY StackNames DEF Opcodes
<1>2. Grows(s, a)
  BY <1>1, GrowsNot, GrowsOp
<1>3. CPP_querydo(s) = r
  BY DEF CPP_querydo
<1> HIDE DEF a
<1>4. a \in CState /\ a.e = "none" /\ a.ctl = s.ctl /\ Size(a.code) >= Size(s.code)
      /\ Size(a.code) \in Nat /\ Size(s.code) \in Nat
  BY <1>2 DEF Grows
<1>5. Restacks(a, b, "if") /\ Len(b.ctl["if"]) = Len(s.ctl["if"]) + 1 /\ b.ctl["if"] # <<>>
  <2>1. Restacks(a, b, "if") /\ b.ctl["if"] = Append(a.ctl["if"], Size(a.code) + 1)
    BY <1>1, <1>4, JumpAheadIs DEF CPP_if
  <2>2. s.ctl["if"] \in Seq(Int)
    BY <1>1, StateFields
  <2>3. PICK x \in Int : x = Size(a.code) + 1
    BY <1>4
  <2>4. PICK q \in Seq(Int) : q = s.ctl["if"]
    BY <2>2
  <2>5. Len(Append(q, x)) = Len(q) + 1 /\ Append(q, x) # <<>>
    BY AppendProperties
  <2> QED BY <1>4, <2>1, <2>3, <2>4, <2>5
<1> HIDE DEF b
<1>6. Grows(b, c)
  BY <1>1, <1>5, GrowsNot, GrowsOp DEF Restacks
<1> HIDE DEF c
<1>7. c \in CState /\ c.e = "none" /\ c.ctl["if"] # <<>>
  BY <1>4, <1>5, <1>6 DEF Restacks, Grows
<1>8. Restacks(c, e, "if") /\ e.e = "none" /\ Len(e.ctl["if"]) = Len(c.ctl["if"])
  BY <1>7, ElseIs
<1> HIDE DEF e
<1>9. /\ e \in CState /\ Size(e.code) >= Size(s.code) /\ Size(e.code) \in Nat
      /\ Len(e.ctl["if"]) = Len(s.ctl["if"]) + 1
      /\ \A st \in Stacks \ {"if"} : e.ctl[st] = s.ctl[st]
  BY <1>4, <1>5, <1>6, <1>8 DEF Restacks, Grows, Others
<1>10. Restacks(e, t, "do") /\ t.ctl["do"] = Append(e.ctl["do"], Size(t.code)) /\ Size(t.code) > Size(e.code)
  BY <1>9, DoIs
<1> HIDE DEF t
<1>11. t \in CState /\ size \in Int
  BY <1>10 DEF Restacks
<1>12. Restacks(t, r, "querydo") /\ r.ctl["querydo"] = Append(t.ctl["querydo"], size) /\ Size(r.code) = size
  <2> HIDE DEF size
  <2>1. /\ Restacks(t, Pushed(t, "querydo", size), "querydo")
        /\ Pushed(t, "querydo", size).ctl["querydo"] = Append(t.ctl["querydo"], size)
        /\ Size(Pushed(t, "querydo", size).code) = Size(t.code)
    BY <1>1, <1>11, PushedIs
  <2> QED BY <2>1 DEF size
<1> HIDE DEF r
<1>13. r \in CState /\ r.e = "none" /\ Size(r.code) > Size(s.code)
  <2>1. r \in CState /\ r.e = e.e /\ Size(r.code) = Size(t.code) /\ Size(t.code) \in Nat
    BY <1>10, <1>12 DEF Restacks
  <2> QED BY <1>4, <1>8, <1>9, <1>10, <2>1
<1>14. /\ \A st \in Stacks \ {"querydo"} : r.ctl[st] = t.ctl[st]
       /\ \A st \in Stacks \ {"do"} : t.ctl[st] = e.ctl[st]
  BY <1>10, <1>12 DEF Restacks, Others
<1>15. \A st \in Stacks \ {"if", "do", "querydo"} : r.ctl[st] = s.ctl[st]
  BY <1>9, <1>14
<1>16. r.ctl["if"] = e.ctl["if"] /\ r.ctl["do"] = t.ctl["do"] /\ t.ctl["querydo"] = s.ctl["querydo"]
       /\ e.ctl["do"] = s.ctl["do"]
  BY <1>9, <1>14, StackNames
<1> QED BY <1>3, <1>9, <1>10, <1>12, <1>13, <1>15, <1>16

LEMMA QueryDoFits ==
  ASSUME NEW s \in CState, s.e = "none", NEW n \in Seq(Structures), Fit(Size(s.code), s.ctl, n)
  PROVE  Fits(s, CPP_querydo(s), n, "?DO")
<1> DEFINE r == CPP_querydo(s)
           m == Nested("?DO", n)
           c == s.ctl
           d == r.ctl
<1>1. /\ r \in CState /\ r.e = "none" /\ Size(r.code) > Size(s.code)
      /\ \A st \in Stacks \ {"if", "do", "querydo"} : d[st] = c[st]
      /\ Len(d["if"]) = Len(c["if"]) + 1
      /\ d["do"] = Append(c["do"], Size(r.code)) /\ d["querydo"] = Append(c["querydo"], Size(r.code))
  BY QueryDoIs
<1> HIDE DEF r
<1>2. /\ c["do"] \in Seq(Int) /\ c["querydo"] \in Seq(Int) /\ c["leave"] \in Seq(Int)
      /\ c \in [Stacks -> Seq(Int)] /\ Size(s.code) \in Nat /\ Size(r.code) \in Nat
  BY <1>1, StateFields, StackNames, SizeNat
<1>4. d["leave"] = c["leave"] /\ d["begin"] = c["begin"]
  BY <1>1, StackNames
<1>5. Loops(Size(r.code), d["do"], d["querydo"], d["leave"])
  <2>1. PICK x \in Nat, y \in Nat : x = Size(s.code) /\ y = Size(r.code) /\ x < y
    BY <1>1, <1>2
  <2>2. Loops(x, c["do"], c["querydo"], c["leave"])
    BY <2>1 DEF Fit
  <2>3. y <= y /\ TRUE \in BOOLEAN
    OBVIOUS
  <2>4. Loops(y, Append(c["do"], y), IF TRUE THEN Append(c["querydo"], y) ELSE c["querydo"], c["leave"])
    <3> HIDE DEF c
    <3> QED BY <1>2, <2>1, <2>2, <2>3, LoopsMore
  <2> QED BY <1>1, <1>4, <2>1, <2>4
<1>6. Begins(Size(r.code), d["begin"])
  <2>1. Fit(Size(r.code), c, n)
    <3>1. PICK x \in Nat, y \in Nat : x = Size(s.code) /\ y = Size(r.code) /\ x <= y
      BY <1>1, <1>2
    <3> HIDE DEF c
    <3> QED BY <1>2, <3>1, FitGrows DEF c
  <2> QED BY <1>4, <2>1 DEF Fit
<1>7. ASSUME m # Crossed PROVE Shape(m, d)
  <2>1. n # Crossed /\ m = Append(n, "do") /\ "do" \in Structures
    BY <1>7, NestedIs DEF Structures
  <2>2. Shape(n, c)
    BY <2>1 DEF Fit
  <2>3. Counted(n, m, 0, 0, 0, 1, 0, 0)
    BY <2>1, CountsMore
  <2>4. Whiles(m, c["begin"], c["while"]) /\ OfsInCases(m)
    BY <2>1, <2>2, WhilesMore, OfsMore DEF Shape
  <2>5. Len(d["do"]) = Len(c["do"]) + 1 /\ Len(d["querydo"]) = Len(c["querydo"]) + 1
    <3>1. Size(r.code) \in Int
      BY <1>2
    <3> QED BY <1>1, <1>2, <3>1, AppendProperties
  <2>7. \A st \in {"begin", "while", "case", "of"} : d[st] = c[st]
    BY <1>1, StackNames
  <2>8. 0 \in Int /\ 1 \in Int
    OBVIOUS
  <2> HIDE DEF m
  <2>9. Shape(m, r.ctl)
    BY <1>1, <2>2, <2>3, <2>4, <2>5, <2>7, <2>8, LoopsFit
  <2> QED BY <2>9
<1> QED BY <1>1, <1>5, <1>6, <1>7 DEF Fits, Fit, r

(* A LEAVE comes after the starts of the loops. *)
LEMMA LoopsLeft ==
  ASSUME NEW do \in Seq(Int), NEW querydo, NEW leave \in Seq(Int), NEW size \in Nat, NEW more \in Nat,
         NEW x \in Int, Loops(size, do, querydo, leave), do # <<>>, size < x, size <= more
  PROVE  Loops(more, do, querydo, Append(leave, x))
<1> DEFINE g == Append(leave, x)
           k == Len(leave)
<1>1. /\ Len(g) = k + 1 /\ g[k + 1] = x /\ k \in Nat /\ \A i \in 1 .. k : g[i] = leave[i]
      /\ 1 \in 1 .. Len(do) /\ \A i \in 1 .. Len(do) : do[i] \in Int
  BY AppendProperties, LenProperties, ElementOfSeq, EmptySeq
<1>2. /\ \A i \in 1 .. Len(do) : do[i] <= size
      /\ \A i, j \in 1 .. Len(do) : i < j => do[i] < do[j]
      /\ \A i, j \in 1 .. Len(querydo) : i < j => querydo[i] < querydo[j]
      /\ \A i \in 1 .. Len(querydo) : \E j \in 1 .. Len(do) : querydo[i] = do[j]
      /\ \A i \in 1 .. k : do # <<>> /\ leave[i] > do[1]
  BY DEF Loops
<1> HIDE DEF g, k
<1>3. \A i \in 1 .. Len(do) : do[i] <= more
  <2> TAKE i \in 1 .. Len(do)
  <2>1. do[i] <= size /\ do[i] \in Int
    BY <1>1, <1>2
  <2> QED BY <2>1
<1>4. ASSUME NEW i \in 1 .. k + 1 PROVE do # <<>> /\ g[i] > do[1]
  <2>1. CASE i = k + 1
    <3>1. do[1] \in Int /\ do[1] <= size
      BY <1>1, <1>2
    <3> QED BY <1>1, <2>1, <3>1
  <2>2. CASE i # k + 1
    <3>1. i \in 1 .. k
      BY <1>1, <2>2
    <3> QED BY <1>1, <1>2, <3>1
  <2> QED BY <2>1, <2>2
<1>5. Loops(more, do, querydo, g)
  BY <1>1, <1>2, <1>3, <1>4 DEF Loops
<1> QED BY <1>5 DEF g

LEMMA LeaveFits ==
  ASSUME NEW s \in CState, s.e = "none", NEW n \in Seq(Structures), Fit(Size(s.code), s.ctl, n)
  PROVE  Fits(s, CPP_leave(s), n, "LEAVE")
<1> DEFINE a == Op(s, "UNLOOP")
           b == JumpAhead(a, "JMP", "leave")
           r == CPP_leave(s)
           m == Nested("LEAVE", n)
           c == s.ctl
           d == r.ctl
<1>1. "UNLOOP" \in Opcodes /\ "JMP" \in Opcodes /\ "no do" \in Codes
  <2>1. "UNLOOP" \in Opcodes /\ "JMP" \in Opcodes
    BY DEF Opcodes
  <2>2. "no do" \in Codes
    BY DEF Codes, StructureErrors
  <2> QED BY <2>1, <2>2
<1>2. Grows(s, a)
  BY <1>1, GrowsNot, GrowsOp
<1>3. r = IF c["do"] = <<>> THEN Fails(s, "no do") ELSE b
  BY DEF CPP_leave, IsEmpty
<1> HIDE DEF a, r
<1>4. PICK x \in Int : x = Size(a.code) + 1 /\ x > Size(s.code)
  BY <1>2 DEF Grows
<1>5. Restacks(a, b, "leave") /\ b.ctl["leave"] = Append(a.ctl["leave"], x)
  BY <1>1, <1>2, <1>4, JumpAheadIs, StackNames DEF Grows
<1> HIDE DEF b
<1>6. /\ b \in CState /\ b.e = "none" /\ Size(b.code) >= Size(s.code) /\ b.ctl["leave"] = Append(c["leave"], x)
      /\ \A st \in Stacks \ {"leave"} : b.ctl[st] = c[st]
  BY <1>2, <1>5 DEF Restacks, Grows, Others
<1>7. c["do"] = <<>> => r \in CState /\ r.e = "no do"
  BY <1>1, <1>3, FailsTyped
<1>8. /\ c["do"] \in Seq(Int) /\ c["querydo"] \in Seq(Int) /\ c["leave"] \in Seq(Int)
      /\ c \in [Stacks -> Seq(Int)] /\ Size(s.code) \in Nat /\ Size(b.code) \in Nat
  BY <1>6, StateFields, StackNames, SizeNat
<1>9. ASSUME m # Crossed
      PROVE  c["do"] # <<>> /\ Shape(m, b.ctl)
  <2>1. n # Crossed /\ m = n /\ "do" \in Range(n)
    BY <1>9, NestedIs
  <2>2. Shape(n, c)
    BY <2>1 DEF Fit
  <2>3. c["do"] # <<>>
    <3>1. PICK p \in 1 .. Len(n) : n[p] = "do"
      <4>1. DOMAIN n = 1 .. Len(n)
        BY LenProperties
      <4> QED BY <2>1, <4>1 DEF Range
    <3>2. Len(n) \in Nat /\ n[p] \in {"do"}
      BY <3>1, LenProperties
    <3>3. CountTo({"do"}, n, p) \in 1 .. CountTo({"do"}, n, Len(n))
      BY <3>1, <3>2, CountPlace
    <3>4. Dos(n) \in Nat /\ Dos(n) = CountTo({"do"}, n, Len(n)) /\ Len(c["do"]) = Dos(n)
      BY <2>2, CountsNat DEF Dos, Count, Shape
    <3>5. Len(c["do"]) # 0
      BY <3>3, <3>4
    <3> QED BY <3>5, EmptySeq
  <2>4. Counted(n, n, 0, 0, 0, 0, 0, 0)
    <3>1. /\ Ifs(n) \in Nat /\ Begun(n) \in Nat /\ Waits(n) \in Nat /\ Dos(n) \in Nat
          /\ Ofs(n) \in Nat /\ Cases(n) \in Nat
      BY CountsNat
    <3> QED BY <3>1 DEF Counted
  <2>5. Whiles(n, c["begin"], c["while"]) /\ OfsInCases(n)
    BY <2>2 DEF Shape
  <2>6. /\ Len(b.ctl["do"]) = Len(c["do"]) + 0 /\ Len(b.ctl["if"]) = Len(c["if"]) + 0
        /\ Len(b.ctl["querydo"]) = Len(c["querydo"]) + 0
    <3>1. Len(c["do"]) \in Nat /\ Len(c["if"]) \in Nat /\ Len(c["querydo"]) \in Nat
      BY <1>8, StackTypes, StackNames
    <3>2. b.ctl["do"] = c["do"] /\ b.ctl["if"] = c["if"] /\ b.ctl["querydo"] = c["querydo"]
      BY <1>6, StackNames
    <3> QED BY <3>1, <3>2
  <2>7. \A st \in {"begin", "while", "case", "of"} : b.ctl[st] = c[st]
    BY <1>6, StackNames
  <2>8. 0 \in Int
    OBVIOUS
  <2>9. Shape(n, b.ctl)
    BY <1>6, <2>2, <2>4, <2>5, <2>6, <2>7, <2>8, LoopsFit
  <2> QED BY <2>1, <2>3, <2>9
<1>10. CASE c["do"] # <<>>
  <2>1. r = b /\ b.ctl["do"] = c["do"] /\ b.ctl["querydo"] = c["querydo"] /\ b.ctl["begin"] = c["begin"]
    BY <1>3, <1>6, <1>10, StackNames
  <2>2. Loops(Size(b.code), b.ctl["do"], b.ctl["querydo"], b.ctl["leave"])
    <3>1. PICK y \in Nat, z \in Nat : y = Size(s.code) /\ z = Size(b.code) /\ y <= z /\ y < x
      BY <1>4, <1>6, <1>8
    <3>2. Loops(y, c["do"], c["querydo"], c["leave"])
      BY <3>1 DEF Fit
    <3>3. Loops(z, c["do"], c["querydo"], Append(c["leave"], x))
      <4> HIDE DEF c
      <4> QED BY <1>8, <1>10, <3>1, <3>2, LoopsLeft
    <3> QED BY <1>6, <2>1, <3>1, <3>3
  <2>3. Begins(Size(b.code), b.ctl["begin"])
    <3>1. Fit(Size(b.code), c, n)
      BY <1>6, <1>8, FitGrows
    <3> QED BY <2>1, <3>1 DEF Fit
  <2> QED BY <1>6, <1>9, <2>1, <2>2, <2>3 DEF Fits, Fit, r
<1>11. CASE c["do"] = <<>>
  BY <1>7, <1>9, <1>11 DEF Fits, r
<1> QED BY <1>10, <1>11

(* The last loop goes, and its ?DO; only LEAVEs of the loops around it are *)
(* kept.                                                                   *)
LEMMA LoopsLess ==
  ASSUME NEW do \in Seq(Int), NEW querydo \in Seq(Int), NEW leave \in Seq(Int), NEW size \in Nat,
         NEW more \in Nat, Loops(size, do, querydo, leave), do # <<>>, size <= more,
         NEW f, \/ f = querydo /\ (querydo = <<>> \/ Last(querydo) < Last(do))
                \/ f = Front(querydo) /\ querydo # <<>>,
         NEW g, Len(g) \in 0 .. Len(leave), \A i \in 1 .. Len(g) : g[i] = leave[i],
         Len(do) = 1 => Len(g) = 0
  PROVE  Loops(more, Front(do), f, g)
<1> DEFINE e == Front(do)
<1>1. PICK k \in Nat : Len(do) = k + 1 /\ Len(e) = k /\ \A i \in 1 .. k : e[i] = do[i]
  <2>1. Len(do) \in Nat \ {0} /\ Len(e) = Len(do) - 1 /\ \A i \in 1 .. Len(do) - 1 : e[i] = do[i]
    BY FrontTyped
  <2>2. Len(do) - 1 \in Nat /\ Len(do) = Len(do) - 1 + 1
    BY <2>1
  <2> QED BY <2>1, <2>2
<1>2. /\ \A i \in 1 .. k + 1 : do[i] <= size
      /\ \A i, j \in 1 .. k + 1 : i < j => do[i] < do[j]
      /\ \A i, j \in 1 .. Len(querydo) : i < j => querydo[i] < querydo[j]
      /\ \A i \in 1 .. Len(querydo) : \E j \in 1 .. k + 1 : querydo[i] = do[j]
      /\ \A i \in 1 .. Len(leave) : do # <<>> /\ leave[i] > do[1]
  BY <1>1 DEF Loops
<1>3. /\ \A i \in 1 .. k + 1 : do[i] \in Int
      /\ \A i \in 1 .. Len(querydo) : querydo[i] \in Int
      /\ Len(querydo) \in Nat /\ Len(leave) \in Nat
  BY <1>1, ElementOfSeq, LenProperties
<1>4. Last(do) = do[k + 1] /\ Last(querydo) = querydo[Len(querydo)] /\ e \in Seq(Int)
  BY <1>1, FrontTyped DEF Last
<1> HIDE DEF e
<1>5. \A i \in 1 .. k : e[i] <= more
  <2> TAKE i \in 1 .. k
  <2>1. i \in 1 .. k + 1
    OBVIOUS
  <2>2. do[i] <= size /\ do[i] \in Int /\ e[i] = do[i]
    BY <1>1, <1>2, <1>3, <2>1
  <2> QED BY <2>2
<1>6. ASSUME NEW i \in 1 .. k, NEW j \in 1 .. k, i < j PROVE e[i] < e[j]
  <2>1. i \in 1 .. k + 1 /\ j \in 1 .. k + 1
    OBVIOUS
  <2> QED BY <1>1, <1>2, <1>6, <2>1
<1>7. /\ Len(f) \in 0 .. Len(querydo) /\ \A i \in 1 .. Len(f) : f[i] = querydo[i]
      /\ \A i \in 1 .. Len(f) : f[i] < do[k + 1]
  <2>1. CASE f = querydo /\ (querydo = <<>> \/ Last(querydo) < Last(do))
    <3>1. ASSUME NEW i \in 1 .. Len(querydo) PROVE querydo[i] < do[k + 1]
      <4>1. Len(querydo) \in 1 .. Len(querydo) /\ querydo # <<>>
        <5>1. Len(querydo) # 0
          BY <1>3
        <5> QED BY <1>3, <5>1, EmptySeq
      <4>2. querydo[Len(querydo)] < do[k + 1]
        BY <1>4, <2>1, <4>1
      <4>3. k + 1 \in 1 .. k + 1
        OBVIOUS
      <4>4. querydo[Len(querydo)] \in Int /\ do[k + 1] \in Int /\ querydo[i] \in Int
        BY <1>3, <4>1, <4>3
      <4>5. i < Len(querydo) => querydo[i] < querydo[Len(querydo)]
        BY <1>2, <4>1
      <4>6. i < Len(querydo) \/ i = Len(querydo)
        <5>1. Len(querydo) \in Nat /\ i <= Len(querydo)
          BY <1>3
        <5> QED BY <5>1
      <4>7. PICK x \in Int, y \in Int, z \in Int :
              x = querydo[i] /\ y = querydo[Len(querydo)] /\ z = do[k + 1]
        BY <4>4
      <4>8. y < z /\ (x < y \/ x = y)
        BY <4>2, <4>5, <4>6, <4>7
      <4>9. x < z
        BY ONLY <4>8, x \in Int, y \in Int, z \in Int
      <4>10. querydo[i] = x /\ do[k + 1] = z
        BY <4>7
      <4> QED BY ONLY <4>9, <4>10
    <3> QED BY <1>3, <2>1, <3>1
  <2>2. CASE f = Front(querydo) /\ querydo # <<>>
    <3>1. Len(f) = Len(querydo) - 1 /\ Len(querydo) \in Nat \ {0}
          /\ \A i \in 1 .. Len(querydo) - 1 : f[i] = querydo[i]
      <4>1. /\ Len(Front(querydo)) = Len(querydo) - 1 /\ Len(querydo) \in Nat \ {0}
            /\ \A i \in 1 .. Len(querydo) - 1 : Front(querydo)[i] = querydo[i]
        BY <2>2, FrontTyped
      <4> QED BY <2>2, <4>1
    <3>2. ASSUME NEW i \in 1 .. Len(querydo) - 1 PROVE querydo[i] < do[k + 1]
      <4>1. i \in 1 .. Len(querydo) /\ Len(querydo) \in 1 .. Len(querydo) /\ i < Len(querydo)
        BY <3>1
      <4>2. querydo[i] < querydo[Len(querydo)]
        BY <1>2, <4>1
      <4>3. PICK j \in 1 .. k + 1 : querydo[Len(querydo)] = do[j]
        BY <1>2, <4>1
      <4>4. k + 1 \in 1 .. k + 1 /\ (j < k + 1 \/ j = k + 1)
        OBVIOUS
      <4>5. j < k + 1 => do[j] < do[k + 1]
        BY <1>2, <4>4
      <4>6. querydo[i] \in Int /\ do[j] \in Int /\ do[k + 1] \in Int
        BY <1>3, <4>1, <4>4
      <4>7. PICK x \in Int, y \in Int, z \in Int : x = querydo[i] /\ y = do[j] /\ z = do[k + 1]
        BY <4>6
      <4>8. x < y /\ (y < z \/ y = z)
        BY <4>2, <4>3, <4>4, <4>5, <4>7
      <4>9. x < z
        BY ONLY <4>8, x \in Int, y \in Int, z \in Int
      <4>10. querydo[i] = x /\ do[k + 1] = z
        BY <4>7
      <4> QED BY ONLY <4>9, <4>10
    <3> QED BY <3>1, <3>2
  <2> QED BY <2>1, <2>2
<1>8. ASSUME NEW i \in 1 .. Len(f), NEW j \in 1 .. Len(f), i < j PROVE f[i] < f[j]
  <2>1. i \in 1 .. Len(querydo) /\ j \in 1 .. Len(querydo)
    BY <1>3, <1>7
  <2> QED BY <1>2, <1>7, <1>8, <2>1
<1>9. ASSUME NEW i \in 1 .. Len(f) PROVE \E j \in 1 .. k : f[i] = e[j]
  <2>1. i \in 1 .. Len(querydo) /\ f[i] = querydo[i] /\ f[i] < do[k + 1]
    BY <1>3, <1>7
  <2>2. PICK j \in 1 .. k + 1 : querydo[i] = do[j]
    BY <1>2, <2>1
  <2>3. j # k + 1
    <3>1. k + 1 \in 1 .. k + 1
      OBVIOUS
    <3>2. do[k + 1] \in Int
      BY <1>3, <3>1
    <3>3. PICK x \in Int : x = do[k + 1]
      BY <3>2
    <3>4. j = k + 1 => x < x
      BY <2>1, <2>2, <3>3
    <3>5. ~(x < x)
      BY ONLY x \in Int
    <3> QED BY <3>4, <3>5
  <2>4. j \in 1 .. k
    BY <2>3
  <2> QED BY <1>1, <2>1, <2>2, <2>4
<1>10. ASSUME NEW i \in 1 .. Len(g) PROVE e # <<>> /\ g[i] > e[1]
  <2>1. i \in 1 .. Len(leave) /\ Len(g) # 0
    BY <1>3
  <2>2. k # 0
    BY <1>1, <2>1
  <2>3. e # <<>> /\ 1 \in 1 .. k
    BY <1>1, <1>4, <2>2, EmptySeq
  <2>4. e[1] = do[1] /\ g[i] = leave[i]
    BY <1>1, <2>3
  <2> QED BY <1>2, <2>1, <2>3, <2>4
<1>11. Loops(more, e, f, g)
  BY <1>1, <1>5, <1>6, <1>8, <1>9, <1>10 DEF Loops
<1> QED BY <1>11 DEF e

(* What LOOP does with querydostack and ifstack. *)
LEMMA CloseQueryDoIs ==
  ASSUME NEW r \in CState, r.e = "none", NEW start \in Int
  PROVE  LET v == CloseQueryDo(r, start) IN
         /\ v \in CState /\ v.e = "none" /\ Size(v.code) = Size(r.code)
         /\ \A st \in Stacks \ {"if", "querydo"} : v.ctl[st] = r.ctl[st]
         /\ \/ /\ v.ctl["if"] = r.ctl["if"] /\ v.ctl["querydo"] = r.ctl["querydo"]
               /\ r.ctl["querydo"] = <<>> \/ Last(r.ctl["querydo"]) < start
            \/ /\ r.ctl["querydo"] # <<>> /\ v.ctl["querydo"] = Front(r.ctl["querydo"])
               /\ r.ctl["if"] # <<>> => Len(v.ctl["if"]) = Len(r.ctl["if"]) - 1
<1> DEFINE u == CPP_then(r)
           w == Fails(u, "none")
           v == CloseQueryDo(r, start)
<1>1. "querydo" \in Stacks /\ "if" \in Stacks /\ "querydo" # "if" /\ "none" \in Codes
  BY StackNames DEF Codes
<1>2. v = IF r.ctl["querydo"] = <<>> \/ Last(r.ctl["querydo"]) < start THEN r ELSE Popped(w, "querydo")
  BY DEF CloseQueryDo, IsEmpty, TopOf, Fails
<1>3. /\ r.ctl["if"] # <<>> =>
           /\ Restacks(r, u, "if") /\ u.e = "none" /\ Size(u.code) = Size(r.code)
           /\ Len(u.ctl["if"]) = Len(r.ctl["if"]) - 1
      /\ r.ctl["if"] = <<>> => u \in CState /\ u = Fails(r, "then without if")
  <2>1. r.ctl["if"] = <<>> => u = Fails(r, "then without if")
    BY DEF CPP_then, IsEmpty
  <2> HIDE DEF u
  <2>2. /\ r.ctl["if"] # <<>> =>
              /\ Restacks(r, u, "if") /\ u.e = "none" /\ Size(u.code) = Size(r.code)
              /\ Len(u.ctl["if"]) = Len(r.ctl["if"]) - 1
        /\ r.ctl["if"] = <<>> => u \in CState
    BY ThenIs DEF u
  <2> QED BY <2>1, <2>2
<1> HIDE DEF u, v
<1>4. /\ u \in CState /\ Size(u.code) = Size(r.code) /\ \A st \in Stacks \ {"if"} : u.ctl[st] = r.ctl[st]
      /\ r.ctl["if"] # <<>> => Len(u.ctl["if"]) = Len(r.ctl["if"]) - 1
  <2>1. CASE r.ctl["if"] # <<>>
    BY <1>3, <2>1 DEF Restacks, Others
  <2>2. CASE r.ctl["if"] = <<>>
    <3>2. "then without if" \in Codes
      BY DEF Codes, StructureErrors
    <3>1. u.code = r.code /\ u.ctl = r.ctl
      <4>1. r \in CState /\ u = Fails(r, "then without if")
        BY <1>3, <2>2
      <4>2. PICK e \in Codes : e = "then without if"
        BY <3>2
      <4>3. Fails(r, e).code = r.code /\ Fails(r, e).ctl = r.ctl
        BY FailsTyped
      <4> QED BY <4>1, <4>2, <4>3
    <3> QED BY <1>3, <2>2, <3>1
  <2> QED BY <2>1, <2>2
<1>5. w \in CState /\ w.e = "none" /\ w.ctl = u.ctl /\ w.code = u.code
  BY <1>1, <1>4, FailsTyped
<1> HIDE DEF w
<1>6. u.ctl["querydo"] = r.ctl["querydo"]
  BY <1>1, <1>4
<1>7. CASE r.ctl["querydo"] = <<>> \/ Last(r.ctl["querydo"]) < start
  <2>1. v = r
    BY <1>2, <1>7
  <2> QED BY <1>7, <2>1 DEF v
<1>8. CASE ~(r.ctl["querydo"] = <<>> \/ Last(r.ctl["querydo"]) < start)
  <2>1. v = Popped(w, "querydo") /\ w.ctl["querydo"] # <<>>
    BY <1>2, <1>5, <1>6, <1>8
  <2>2. /\ Restacks(w, v, "querydo") /\ v.ctl["querydo"] = Front(w.ctl["querydo"])
        /\ Size(v.code) = Size(w.code)
    BY <1>1, <1>5, <2>1, PoppedIs
  <2>3. v \in CState /\ v.e = "none" /\ \A st \in Stacks \ {"querydo"} : v.ctl[st] = w.ctl[st]
    BY <1>5, <2>2 DEF Restacks, Others
  <2>4. v.ctl["if"] = u.ctl["if"]
    BY <1>1, <1>5, <2>3
  <2> QED BY <1>4, <1>5, <1>6, <1>8, <2>2, <2>3, <2>4 DEF v
<1> QED BY <1>7, <1>8

LEMMA LoopIs ==
  ASSUME NEW s \in CState, s.e = "none", s.ctl["do"] # <<>>
  PROVE  LET r == CloseLoop(Op(s, "LOOP"))
             c == s.ctl
             d == r.ctl
         IN /\ r \in CState /\ r.e = "none" /\ Size(r.code) >= Size(s.code)
            /\ \A st \in Stacks \ {"if", "do", "querydo", "leave"} : d[st] = c[st]
            /\ d["do"] = Front(c["do"])
            /\ Len(d["leave"]) \in 0 .. Len(c["leave"])
            /\ \A i \in 1 .. Len(d["leave"]) : d["leave"][i] = c["leave"][i]
            /\ Len(d["leave"]) # 0 => c["leave"][Len(d["leave"])] <= Last(c["do"])
            /\ \/ /\ d["if"] = c["if"] /\ d["querydo"] = c["querydo"]
                  /\ c["querydo"] = <<>> \/ Last(c["querydo"]) < Last(c["do"])
               \/ /\ c["querydo"] # <<>> /\ d["querydo"] = Front(c["querydo"])
                  /\ c["if"] # <<>> => Len(d["if"]) = Len(c["if"]) - 1
<1> DEFINE a == Op(s, "LOOP")
           c == s.ctl
           leave == a.ctl["leave"]
           start == TopOf(a, "do")
           outer == OuterLeaves(a, start)
           inner == SubSeq(leave, outer + 1, Len(leave))
           p == Popped(a, "do")
           q == SubSeq(leave, 1, outer)
           u == SetStack(p, "leave", q)
           t == OpsCopyInt(u, Range(inner), 0)
           r == CloseLoop(a)
<1>1. "LOOP" \in Opcodes /\ "do" \in Stacks /\ "leave" \in Stacks /\ "do" # "leave" /\ 0 \in Int
  BY StackNames DEF Opcodes
<1>2. Grows(s, a)
  BY <1>1, GrowsNot, GrowsOp
<1> HIDE DEF a
<1>3. a \in CState /\ a.ctl = c /\ a.e = "none" /\ a.ctl["do"] # <<>> /\ c \in [Stacks -> Seq(Int)]
  BY <1>2, StateFields DEF Grows
<1>4. /\ p \in CState /\ p.e = "none" /\ p.ctl["do"] = Front(c["do"]) /\ Size(p.code) = Size(a.code)
      /\ start \in Int /\ \A st \in Stacks \ {"do"} : p.ctl[st] = c[st]
  BY <1>1, <1>3, PoppedIs DEF Restacks, Others
<1>5. p.ctl["leave"] = leave /\ leave = c["leave"] /\ leave \in Seq(Int)
  BY <1>1, <1>3, <1>4
<1>6. r = CloseQueryDo(t, start)
  BY <1>3, <1>5 DEF CloseLoop, IsEmpty, SetStack
<1>15. start = Last(c["do"])
  BY <1>3 DEF TopOf
<1> HIDE DEF p, start, r
<1>7. outer \in 0 .. Len(leave) /\ (outer # 0 => leave[outer] <= start)
  BY <1>3, <1>4, OuterLeavesAt
<1> HIDE DEF outer, leave
<1>8. q \in Seq(Int) /\ Len(q) = outer /\ \A i \in 1 .. outer : q[i] = leave[i]
  <2>1. outer \in Nat /\ outer <= Len(leave) /\ Len(leave) \in Nat /\ 1 \in Nat /\ 1 >= 1
    BY <1>5, <1>7, LenProperties
  <2>2. SubSeq(leave, 1, outer) \in Seq(Int)
    BY <1>5, <2>1, CutTyped
  <2>3. \A i \in 1 .. outer : leave[i] \in Int
    <3> TAKE i \in 1 .. outer
    <3>1. i \in 1 .. Len(leave)
      BY <2>1
    <3> QED BY <1>5, <3>1, ElementOfSeq
  <2>4. /\ Len(SubSeq(leave, 1, outer)) = outer
        /\ \A i \in 1 .. outer : SubSeq(leave, 1, outer)[i] = leave[i]
    BY <2>1, <2>3, SubSeqProperties, Z3
  <2> QED BY <2>2, <2>4
<1> HIDE DEF q, inner
<1>9. /\ u \in CState /\ u.e = "none" /\ Size(u.code) = Size(a.code)
      /\ u.ctl["leave"] = q /\ u.ctl["do"] = Front(c["do"])
      /\ \A st \in Stacks \ {"do", "leave"} : u.ctl[st] = c[st]
  <2>1. u \in CState /\ u.e = p.e /\ u.code = p.code /\ u.ctl = [p.ctl EXCEPT !["leave"] = q]
    BY <1>1, <1>4, <1>8, SetStackTyped
  <2>2. p.ctl \in [Stacks -> Seq(Int)]
    BY <1>4, StateFields
  <2> HIDE DEF u
  <2>3. u.ctl["leave"] = q /\ \A st \in Stacks \ {"leave"} : u.ctl[st] = p.ctl[st]
    BY <1>1, <2>1, <2>2
  <2> QED BY <1>1, <1>4, <2>1, <2>3
<1> HIDE DEF u
<1>10. t \in CState /\ t.e = u.e /\ t.ctl = u.ctl /\ Size(t.code) = Size(u.code)
  <2> DEFINE o == Range(inner)
  <2> HIDE DEF o
  <2>2. /\ OpsCopyInt(u, o, 0) \in CState /\ OpsCopyInt(u, o, 0).e = u.e /\ OpsCopyInt(u, o, 0).ctl = u.ctl
        /\ Size(OpsCopyInt(u, o, 0).code) = Size(u.code)
    BY <1>1, <1>9, CopyTyped
  <2> QED BY <2>2 DEF o
<1> HIDE DEF t
<1>11. /\ r \in CState /\ r.e = "none" /\ Size(r.code) = Size(t.code)
       /\ \A st \in Stacks \ {"if", "querydo"} : r.ctl[st] = t.ctl[st]
       /\ \/ /\ r.ctl["if"] = t.ctl["if"] /\ r.ctl["querydo"] = t.ctl["querydo"]
             /\ t.ctl["querydo"] = <<>> \/ Last(t.ctl["querydo"]) < start
          \/ /\ t.ctl["querydo"] # <<>> /\ r.ctl["querydo"] = Front(t.ctl["querydo"])
             /\ t.ctl["if"] # <<>> => Len(r.ctl["if"]) = Len(t.ctl["if"]) - 1
  BY <1>4, <1>6, <1>9, <1>10, CloseQueryDoIs
<1>12. t.ctl["if"] = c["if"] /\ t.ctl["querydo"] = c["querydo"]
  BY <1>9, <1>10, StackNames
<1>13. /\ r.ctl["do"] = Front(c["do"]) /\ r.ctl["leave"] = q
       /\ \A st \in Stacks \ {"if", "do", "querydo", "leave"} : r.ctl[st] = c[st]
  <2>1. r.ctl["do"] = t.ctl["do"] /\ r.ctl["leave"] = t.ctl["leave"]
    BY <1>1, <1>11
  <2> QED BY <1>9, <1>10, <1>11, <2>1
<1>14. Size(r.code) >= Size(s.code)
  BY <1>2, <1>9, <1>10, <1>11 DEF Grows
<1> QED BY <1>5, <1>7, <1>8, <1>11, <1>12, <1>13, <1>14, <1>15 DEF r, a

LEMMA LoopFits ==
  ASSUME NEW s \in CState, s.e = "none", NEW n \in Seq(Structures), Fit(Size(s.code), s.ctl, n)
  PROVE  Fits(s, CloseLoop(Op(s, "LOOP")), n, "LOOP")
<1> DEFINE r == CloseLoop(Op(s, "LOOP"))
           m == Nested("LOOP", n)
           c == s.ctl
           d == r.ctl
<1>1. c["do"] # <<>> =>
            /\ r \in CState /\ r.e = "none" /\ Size(r.code) >= Size(s.code)
            /\ \A st \in Stacks \ {"if", "do", "querydo", "leave"} : d[st] = c[st]
            /\ d["do"] = Front(c["do"])
            /\ Len(d["leave"]) \in 0 .. Len(c["leave"])
            /\ \A i \in 1 .. Len(d["leave"]) : d["leave"][i] = c["leave"][i]
            /\ Len(d["leave"]) # 0 => c["leave"][Len(d["leave"])] <= Last(c["do"])
            /\ \/ /\ d["if"] = c["if"] /\ d["querydo"] = c["querydo"]
                  /\ c["querydo"] = <<>> \/ Last(c["querydo"]) < Last(c["do"])
               \/ /\ c["querydo"] # <<>> /\ d["querydo"] = Front(c["querydo"])
                  /\ c["if"] # <<>> => Len(d["if"]) = Len(c["if"]) - 1
  BY LoopIs
<1>2. c["do"] = <<>> => r \in CState /\ r.e = "loop without do"
  <2>1. "LOOP" \in Opcodes
    BY DEF Opcodes
  <2>2. "loop without do" \in Codes
    BY DEF Codes, StructureErrors
  <2> DEFINE a == Op(s, "LOOP")
  <2>3. Grows(s, a)
    BY <2>1, GrowsNot, GrowsOp
  <2>4. c["do"] = <<>> => r = Fails(a, "loop without do")
    <3>1. a.ctl["do"] = c["do"]
      BY <2>3 DEF Grows
    <3> HIDE DEF a
    <3>2. c["do"] = <<>> => CloseLoop(a) = Fails(a, "loop without do")
      BY <3>1 DEF CloseLoop, IsEmpty
    <3> QED BY <3>2 DEF a
  <2> HIDE DEF a, r
  <2>5. a \in CState
    BY <2>3 DEF Grows
  <2>6. PICK e \in Codes : e = "loop without do"
    BY <2>2
  <2>7. Fails(a, e) \in CState /\ Fails(a, e).e = e
    BY <2>5, FailsTyped
  <2> QED BY <2>4, <2>6, <2>7
<1> HIDE DEF r
<1>3. /\ c["do"] \in Seq(Int) /\ c["querydo"] \in Seq(Int) /\ c["leave"] \in Seq(Int)
      /\ c["if"] \in Seq(Int) /\ c \in [Stacks -> Seq(Int)] /\ Size(s.code) \in Nat
      /\ Loops(Size(s.code), c["do"], c["querydo"], c["leave"])
  BY StateFields, StackNames, SizeNat DEF Fit
<1>4. ASSUME c["do"] # <<>>
      PROVE  /\ Loops(Size(r.code), d["do"], d["querydo"], d["leave"]) /\ Begins(Size(r.code), d["begin"])
  <2>1. PICK x \in Nat, y \in Nat : x = Size(s.code) /\ y = Size(r.code) /\ x <= y
    <3>1. r \in CState /\ Size(r.code) >= Size(s.code)
      BY <1>1, <1>4
    <3>2. Size(r.code) \in Nat
      BY <3>1, StateFields, SizeNat
    <3> QED BY <1>3, <3>1, <3>2
  <2>2. Len(c["do"]) = 1 => Len(d["leave"]) = 0
    <3> SUFFICES ASSUME Len(c["do"]) = 1, Len(d["leave"]) # 0 PROVE FALSE
      OBVIOUS
    <3>1. Len(d["leave"]) \in 1 .. Len(c["leave"])
      BY <1>1, <1>4
    <3>2. c["leave"][Len(d["leave"])] <= Last(c["do"]) /\ c["leave"][Len(d["leave"])] \in Int
      BY <1>1, <1>3, <1>4, <3>1, ElementOfSeq
    <3>3. c["leave"][Len(d["leave"])] > c["do"][1]
      BY <1>3, <3>1 DEF Loops
    <3>4. Last(c["do"]) = c["do"][1] /\ c["do"][1] \in Int
      <4>1. 1 \in 1 .. Len(c["do"])
        OBVIOUS
      <4> QED BY <1>3, <4>1, ElementOfSeq DEF Last
    <3> QED BY <3>2, <3>3, <3>4
  <2>3. \/ d["querydo"] = c["querydo"] /\ (c["querydo"] = <<>> \/ Last(c["querydo"]) < Last(c["do"]))
        \/ d["querydo"] = Front(c["querydo"]) /\ c["querydo"] # <<>>
    BY <1>1, <1>4
  <2>4. /\ Len(d["leave"]) \in 0 .. Len(c["leave"])
        /\ \A i \in 1 .. Len(d["leave"]) : d["leave"][i] = c["leave"][i]
    BY <1>1, <1>4
  <2>5. Loops(x, c["do"], c["querydo"], c["leave"])
    BY <1>3, <2>1
  <2>6. Loops(y, Front(c["do"]), d["querydo"], d["leave"])
    <3> HIDE DEF c, d
    <3> QED BY <1>3, <1>4, <2>1, <2>2, <2>3, <2>4, <2>5, LoopsLess
  <2>7. d["do"] = Front(c["do"]) /\ d["begin"] = c["begin"]
    BY <1>1, <1>4, StackNames
  <2>8. Begins(y, c["begin"])
    <3>1. Fit(y, c, n)
      <4>1. Fit(x, c, n)
        BY <2>1
      <4> HIDE DEF c
      <4> QED BY <1>3, <2>1, <4>1, FitGrows
    <3> QED BY <3>1 DEF Fit
  <2> QED BY <2>1, <2>6, <2>7, <2>8
<1>5. ASSUME m # Crossed
      PROVE  c["do"] # <<>> /\ Shape(m, d)
  <2>1. n # Crossed /\ n # <<>> /\ Last(n) = "do" /\ m = Front(n)
    BY <1>5, NestedIs DEF Closers
  <2>2. Shape(n, c) /\ m \in Seq(Structures)
    BY <2>1, FrontAndLast DEF Fit
  <2>3. Counted(n, m, 0, 0, 0, -1, 0, 0)
    BY <2>1, CountsLess
  <2>4. c["do"] # <<>>
    <3>1. Dos(m) = Dos(n) + -1 /\ Dos(m) \in Nat /\ Dos(n) \in Nat /\ Len(c["do"]) = Dos(n)
      BY <2>2, <2>3, CountsNat DEF Counted, Shape
    <3>2. Len(c["do"]) # 0
      BY <3>1
    <3> QED BY <3>2, EmptySeq
  <2>5. Whiles(m, c["begin"], c["while"]) /\ OfsInCases(m)
    BY <2>1, <2>2, WhilesShort, OfsShort DEF Shape
  <2>6. Len(d["do"]) = Len(c["do"]) + -1
    <3>1. d["do"] = Front(c["do"])
      BY <1>1, <2>4
    <3>2. PICK q \in Seq(Int) : q = c["do"] /\ q # <<>>
      BY <1>3, <2>4
    <3>3. Len(Front(q)) = Len(q) - 1 /\ Len(q) \in Nat
      BY <3>2, FrontTyped
    <3> QED BY <3>1, <3>2, <3>3
  <2>7. PICK k \in {0, -1} : Len(d["if"]) = Len(c["if"]) + k /\ Len(d["querydo"]) = Len(c["querydo"]) + k
    <3>1. PICK x \in Nat, y \in Nat : x = Len(c["if"]) /\ y = Len(c["querydo"])
      BY <1>3, StackTypes, StackNames
    <3>2. CASE d["if"] = c["if"] /\ d["querydo"] = c["querydo"]
      <4>1. Len(d["if"]) = x + 0 /\ Len(d["querydo"]) = y + 0 /\ 0 \in {0, -1}
        BY <3>1, <3>2
      <4> QED BY <3>1, <4>1
    <3>3. CASE /\ c["querydo"] # <<>> /\ d["querydo"] = Front(c["querydo"])
               /\ c["if"] # <<>> => Len(d["if"]) = Len(c["if"]) - 1
      <4>1. PICK q \in Seq(Int) : q = c["querydo"] /\ q # <<>>
        BY <1>3, <3>3
      <4>2. Len(Front(q)) = Len(q) - 1 /\ Len(q) \in Nat \ {0}
        BY <4>1, FrontTyped
      <4>3. Ifs(n) \in Nat /\ x = Ifs(n) + y
        BY <2>2, <3>1, CountsNat DEF Shape
      <4>4. y # 0
        BY <3>1, <4>1, <4>2
      <4>5. x # 0
        <5>1. PICK z \in Nat : z = Ifs(n)
          BY <4>3
        <5> QED BY <4>3, <4>4, <5>1
      <4>6. c["if"] # <<>>
        BY <3>1, <4>5, EmptySeq
      <4>7. Len(d["if"]) = x - 1 /\ Len(d["querydo"]) = y - 1
        BY <3>1, <3>3, <4>1, <4>2, <4>6
      <4>8. x - 1 = x + -1 /\ y - 1 = y + -1 /\ -1 \in {0, -1}
        OBVIOUS
      <4> QED BY <3>1, <4>7, <4>8
    <3> QED BY <1>1, <2>4, <3>2, <3>3
  <2>8. r \in CState /\ \A st \in {"begin", "while", "case", "of"} : d[st] = c[st]
    BY <1>1, <2>4, StackNames
  <2>9. k \in Int /\ -1 \in Int
    OBVIOUS
  <2> HIDE DEF m
  <2>10. Shape(m, r.ctl)
    BY <2>2, <2>3, <2>5, <2>6, <2>7, <2>8, <2>9, LoopsFit
  <2> QED BY <2>4, <2>10
<1>6. CASE c["do"] # <<>>
  BY <1>1, <1>4, <1>5, <1>6 DEF Fits, Fit, r
<1>7. CASE c["do"] = <<>>
  BY <1>2, <1>5, <1>7 DEF Fits, r
<1> QED BY <1>6, <1>7

-----------------------------------------------------------------------------
(* Every word *)

LEMMA ControlFits ==
  ASSUME NEW s \in CState, s.e = "none", State \in BOOLEAN, NEW n \in Seq(Structures),
         Fit(Size(s.code), s.ctl, n), NEW t \in Controls \cup {"LOOP"}
  PROVE  Fits(s, ControlWord(t, s), n, t)
<1>1. CASE t = "IF"
  BY <1>1, IfFits DEF ControlWord
<1>2. CASE t = "ELSE"
  BY <1>2, ElseFits DEF ControlWord
<1>3. CASE t = "THEN"
  BY <1>3, ThenFits DEF ControlWord
<1>4. CASE t = "BEGIN"
  BY <1>4, BeginFits DEF ControlWord
<1>5. CASE t = "WHILE"
  BY <1>5, WhileFits DEF ControlWord
<1>6. CASE t = "REPEAT"
  BY <1>6, RepeatFits DEF ControlWord
<1>7. CASE t = "UNTIL"
  <2>1. "JZ" \in Opcodes /\ "UNTIL" \in {"UNTIL", "AGAIN"}
    BY DEF Opcodes
  <2>2. Fits(s, BackToBegin(s, "JZ"), n, "UNTIL")
    BY <2>1, BackFits
  <2> QED BY <1>7, <2>2 DEF ControlWord, CPP_until
<1>8. CASE t = "AGAIN"
  <2>1. "JMP" \in Opcodes /\ "AGAIN" \in {"UNTIL", "AGAIN"}
    BY DEF Opcodes
  <2>2. Fits(s, BackToBegin(s, "JMP"), n, "AGAIN")
    BY <2>1, BackFits
  <2> QED BY <1>8, <2>2 DEF ControlWord, CPP_again
<1>9. CASE t = "DO"
  BY <1>9, DoFits DEF ControlWord
<1>10. CASE t = "?DO"
  BY <1>10, QueryDoFits DEF ControlWord
<1>11. CASE t = "LEAVE"
  BY <1>11, LeaveFits DEF ControlWord
<1>12. CASE t = "CASE"
  BY <1>12, CaseFits DEF ControlWord
<1>13. CASE t = "OF"
  BY <1>13, OfFits DEF ControlWord
<1>14. CASE t = "ENDOF"
  BY <1>14, EndofFits DEF ControlWord
<1>15. CASE t = "ENDCASE"
  BY <1>15, EndcaseFits DEF ControlWord
<1>16. CASE t = "RECURSE"
  BY <1>16, RecurseFits DEF ControlWord
<1>17. CASE t = "ABORT\""
  BY <1>17, AbortquoteFits DEF ControlWord
<1>18. CASE t = "LOOP"
  BY <1>18, LoopFits DEF ControlWord
<1> QED BY <1>1, <1>2, <1>3, <1>4, <1>5, <1>6, <1>7, <1>8, <1>9, <1>10, <1>11, <1>12, <1>13,
           <1>14, <1>15, <1>16, <1>17, <1>18 DEF Controls, Openers

(* UNLOOP, and the words of the program. *)
LEMMA CompiledFits ==
  ASSUME TypeOK, NEW n \in Seq(Structures), Fit(Size(Current.code), Current.ctl, n),
         NEW t \in {"LOOP", "UNLOOP"} \cup Compileds
  PROVE  Fits(Current, CompiledCode(t), n, t)
<1> DEFINE c == Current
<1>1. c \in CState /\ c.e = "none" /\ State \in BOOLEAN /\ Fit(Size(c.code), c.ctl, n)
  BY Facts
<1>2. CASE t = "LOOP"
  <2>1. CompiledCode(t) = ControlWord(t, c)
    BY <1>2 DEF CompiledCode, Compileds
  <2> HIDE DEF c
  <2>2. Fits(c, ControlWord(t, c), n, t)
    BY <1>1, <1>2, ControlFits
  <2> QED BY <2>1, <2>2 DEF c
<1>3. CASE t = "UNLOOP"
  <2> DEFINE u == Op(c, "UNLOOP")
             r == CompiledCode(t)
  <2>1. r = IF IsEmpty(c, "do") THEN Fails(u, "loop without do") ELSE u
    BY <1>3 DEF CompiledCode, Compileds
  <2>2. "UNLOOP" \in Opcodes
    BY DEF Opcodes
  <2>3. PICK e \in Codes : e = "loop without do"
    BY DEF Codes, StructureErrors
  <2>4. Nested(t, n) = Crossed
    BY <1>3 DEF Nested
  <2> HIDE DEF c, r
  <2>5. Grows(c, u)
    BY <1>1, <2>2, GrowsNot, GrowsOp
  <2> HIDE DEF u
  <2>6. u \in CState /\ Fit(Size(u.code), u.ctl, n) /\ u.e = "none"
    BY <1>1, <2>5, GrowsFit DEF Grows
  <2>7. Fit(Size(u.code), u.ctl, Crossed)
    BY <2>6 DEF Fit
  <2>8. Fails(u, e) \in CState /\ Fails(u, e).e = e
    BY <2>6, FailsTyped
  <2>9. CASE IsEmpty(c, "do")
    <3>1. r \in CState /\ r.e = "loop without do"
      BY <2>1, <2>3, <2>8, <2>9
    <3> QED BY <2>4, <3>1 DEF Fits, r
  <2>10. CASE ~IsEmpty(c, "do")
    BY <2>1, <2>4, <2>6, <2>7, <2>10 DEF Fits, r
  <2> QED BY <2>9, <2>10 DEF c
<1>4. CASE t \in Compileds
  <2>1. CompiledCode(t) = Op(c, Opcode(t)) /\ t \notin Openers \cup Closers \cup {"LEAVE"}
    BY <1>4 DEF CompiledCode, Compileds, Openers, Closers
  <2> HIDE DEF c
  <2> DEFINE u == Op(c, Opcode(t))
             m == Nested(t, n)
  <2>2. Opcode(t) \in Opcodes
    BY <1>1, <1>4, CompiledWrites
  <2>3. Grows(c, u)
    BY <1>1, <2>2, GrowsNot, GrowsOp
  <2>7. m # Crossed => m = n
    BY <2>1, NestedIs
  <2> HIDE DEF u
  <2>4. u \in CState /\ Fit(Size(u.code), u.ctl, n) /\ u.e = "none"
    BY <1>1, <2>3, GrowsFit DEF Grows
  <2>5. Fit(Size(u.code), u.ctl, m)
    BY <2>4, <2>7 DEF Fit
  <2>6. Fits(c, u, n, t)
    BY <2>4, <2>5 DEF Fits
  <2> QED BY <2>1, <2>6 DEF c, u
<1> QED BY <1>2, <1>3, <1>4

-----------------------------------------------------------------------------
(* The inductive invariant *)

(* Sources that keep the rules about streams, have no structures in        *)
(* brackets, and start no stream of interpreted text in an open structure. *)
StructureRules == {"no structures in brackets", "no nested interpretation in a structure"}
KeepsStructures == KeepsStreams /\ StructureRules \cap Misuses = {}

LEMMA StructureRulesKept ==
  ASSUME KeepsStructures, NEW condition
  PROVE  /\ Allowed("no structures in brackets", condition) => condition
         /\ Allowed("no nested interpretation in a structure", condition) => condition
         /\ KeepsStreams
  BY DEF KeepsStructures, StructureRules, Allowed

(* No error is under way, and the control stacks fit the definition's code *)
(* and its open structures.  No structure is open where a stream ends, in  *)
(* the streams that brackets nest, or where a line of no definition runs.  *)
(* Otherwise an error about structures is under way only where they cross. *)
FitsNow  == Fit(Size(ops[DefOps]), ctl, nest)
StructOk ==
  /\ FitsNow
  /\ result = "ok" => nest = <<>>
  /\ Bracketed /\ Depth > def.brackets => nest = <<>>
  /\ ~Open /\ Top.doing \in {"line", "up to"} => nest = <<>>
StructInv ==
  /\ Fine => StructOk
  /\ result \in StructureErrors => nest = Crossed

LEMMA FitsNext ==
  ASSUME NEW size, NEW c, NEW n, (Size(ops[DefOps]))' = size, ctl' = c, nest' = n, Fit(size, c, n)
  PROVE  FitsNow'
  BY DEF FitsNow

(* No structure is open: any stack that recursestack alone differs in      *)
(* fits any code.                                                          *)
LEMMA NothingFits ==
  ASSUME TypeInv, FitsNow, nest = <<>>, nest' = <<>>,
         \A st \in Stacks \ {"recurse"} : ctl'[st] \in {ctl[st], <<>>}
  PROVE  FitsNow'
<1>1. ctl \in [Stacks -> Seq(Int)]
  BY Facts DEF TypeInv
<1>2. Cleared(ctl)
  BY <1>1, NothingOpen DEF FitsNow
<1>3. PICK c : c = ctl'
  OBVIOUS
<1>4. Cleared(c)
  BY <1>2, <1>3 DEF Cleared
<1>5. PICK size : size = (Size(ops[DefOps]))'
  OBVIOUS
<1>6. Fit(size, c, <<>>)
  BY <1>4, ClearedFits
<1> QED BY <1>3, <1>5, <1>6, FitsNext

(* An error clears the stacks. *)
LEMMA ClearsFit ==
  ASSUME ctl' = ClearControlStacks, nest' = <<>>
  PROVE  FitsNow'
<1>1. PICK c : c = ctl'
  OBVIOUS
<1>2. Cleared(c)
  BY <1>1 DEF Cleared, ClearControlStacks
<1>5. PICK size : size = (Size(ops[DefOps]))'
  OBVIOUS
<1>6. Fit(size, c, <<>>)
  BY <1>2, ClearedFits
<1> QED BY <1>1, <1>5, <1>6, FitsNext

(* The definition's code, the stacks and the structures stay.              *)
LEMMA SameFits ==
  ASSUME FitsNow, UNCHANGED <<ctl, nest>>, DefOps' = DefOps, ops'[DefOps] = ops[DefOps]
  PROVE  FitsNow'
<1>1. (Size(ops[DefOps]))' = Size(ops[DefOps])
  <2>1. (ops[DefOps])' = ops[DefOps]
    OBVIOUS
  <2> QED BY <2>1 DEF Size
<1> QED BY <1>1, FitsNext DEF FitsNow

(* In brackets, what the frame on top writes is not the definition's code. *)
LEMMA ElsewhereStays ==
  ASSUME TypeInv, StreamInv, Fine, Bracketed, NEW code,
         ops' = [ops EXCEPT ![Top.pOpCodes] = code], UNCHANGED <<pPreviousOps, def>>
  PROVE  DefOps' = DefOps /\ ops'[DefOps] = ops[DefOps]
<1>1. DefOps # Top.pOpCodes /\ DefOps = pPreviousOps
  BY DefElsewhere DEF DefOps
<1>2. Bracketed'
  BY DEF Bracketed
<1>3. DefOps' = IF Bracketed' THEN pPreviousOps' ELSE pCurrentOps'
  BY DEF DefOps
<1>4. ops \in [Vectors -> Seq(Instructions)] /\ DefOps \in Vectors
  BY DefElsewhere, Facts DEF TypeInv, Open, Bracketed
<1> QED BY <1>1, <1>2, <1>3, <1>4

(* A word writes to the vector of the frame on top.                        *)
LEMMA CommitWrites ==
  ASSUME TypeInv, StreamInv, Fine, Reading, NEW r \in CState, Commit(r),
         UNCHANGED <<pCurrentOps, pPreviousOps, def>>
  PROVE  /\ result' = r.e /\ (r.e = "none" => ctl' = r.ctl)
         /\ Bracketed => DefOps' = DefOps /\ ops'[DefOps] = ops[DefOps]
         /\ ~Bracketed => /\ (Size(ops[DefOps]))' = Size(r.code)
                          /\ Size(ops[DefOps]) = Size(Current.code)
<1>1. TypeOK /\ StreamsOk
  BY ReadingIs DEF TypeInv
<1>2. ops' = [ops EXCEPT ![pCurrentOps] = r.code] /\ result' = r.e
  BY <1>1, CommitTyped
<1>3. pCurrentOps = Top.pOpCodes /\ ops \in [Vectors -> Seq(Instructions)] /\ pCurrentOps \in Vectors
      /\ Current.code = ops[pCurrentOps]
  BY <1>1, Facts DEF StreamsOk
<1>4. Bracketed => DefOps' = DefOps /\ ops'[DefOps] = ops[DefOps]
  BY <1>2, <1>3, ElsewhereStays
<1>5. ASSUME ~Bracketed
      PROVE  (Size(ops[DefOps]))' = Size(r.code) /\ Size(ops[DefOps]) = Size(Current.code)
  <2>1. ~Bracketed'
    BY <1>5 DEF Bracketed
  <2>2. DefOps' = IF Bracketed' THEN pPreviousOps' ELSE pCurrentOps'
    BY DEF DefOps
  <2>3. (ops[DefOps])' = r.code /\ DefOps = pCurrentOps
    BY <1>2, <1>3, <1>5, <2>1, <2>2 DEF DefOps
  <2>4. (Size(ops[DefOps]))' = Size(r.code)
    BY <2>3 DEF Size
  <2> QED BY <1>3, <2>3, <2>4
<1>6. r.e = "none" => ctl' = r.ctl
  BY DEF Commit
<1> QED BY <1>2, <1>4, <1>5, <1>6

(* A word that leaves the frames. *)
LEMMA WordStruct ==
  ASSUME TypeInv, StreamInv, StructInv, Reading, NEW r \in CState, Commit(r),
         r.e \notin {"ok", "end of stream"}, UNCHANGED <<pCurrentOps, pPreviousOps, frames, def>>,
         r.e \in StructureErrors => nest' = Crossed,
         Bracketed => nest' = nest /\ (r.e = "none" => r.ctl = ctl),
         ~Bracketed /\ r.e = "none" => Fit(Size(r.code), r.ctl, nest')
  PROVE  StructInv'
<1>1. Fine /\ StructOk /\ Top.doing = "read"
  BY ReadingIs DEF StructInv
<1>2. /\ result' = r.e /\ (r.e = "none" => ctl' = r.ctl)
      /\ Bracketed => DefOps' = DefOps /\ ops'[DefOps] = ops[DefOps]
      /\ ~Bracketed => (Size(ops[DefOps]))' = Size(r.code)
  BY <1>1, CommitWrites
<1>3. ASSUME r.e = "none" PROVE FitsNow'
  <2>1. CASE Bracketed
    BY <1>1, <1>2, <1>3, <2>1, SameFits DEF StructOk
  <2>2. CASE ~Bracketed
    <3>1. PICK n : n = nest'
      OBVIOUS
    <3>2. Fit(Size(r.code), r.ctl, n)
      BY <1>3, <2>2, <3>1
    <3> QED BY <1>2, <1>3, <2>2, <3>1, <3>2, FitsNext
  <2> QED BY <2>1, <2>2
<1>4. Bracketed' /\ Depth' > def'.brackets => nest' = <<>>
  <2>1. Bracketed' = Bracketed /\ Depth' = Depth /\ def'.brackets = def.brackets
    BY DEF Bracketed, Depth
  <2> QED BY <1>1, <2>1 DEF StructOk
<1>5. Top'.doing = "read"
  BY <1>1 DEF Top
<1>6. Fine' => r.e = "none"
  BY <1>2 DEF Fine
<1>7. result' \in StructureErrors => nest' = Crossed
  BY <1>2
<1>8. Fine' => StructOk'
  BY <1>2, <1>3, <1>4, <1>5, <1>6 DEF StructOk
<1> QED BY <1>7, <1>8 DEF StructInv

LEMMA StructureWordStruct ==
  ASSUME KeepsStructures, TypeInv, StreamInv, StructInv, NEW t \in Words, StructureWord(t)
  PROVE  StructInv'
<1> DEFINE c == Current
           u == ControlWord(t, c)
           v == Fails(c, "no end of string")
           b == t = "ABORT\"" /\ pNewWord = "none"
<1>1. /\ Reading /\ UNCHANGED <<pCurrentOps, pPreviousOps, frames, def>>
      /\ t \in Controls /\ TypeOK /\ (Commit([u EXCEPT !.wild = @ \/ b]) \/ Commit(v))
      /\ nest' = IF def.phase = "brackets" THEN nest ELSE Nested(t, nest)
  BY DEF StructureWord, NextWord, TypeInv
<1>2. c \in CState /\ c.e = "none" /\ State \in BOOLEAN /\ nest \in Seq(Structures)
  BY <1>1, Facts, HistoryTyped
<1>3. ~Bracketed
  BY StructureRulesKept DEF StructureWord, Bracketed
<1>4. nest' = Nested(t, nest)
  BY <1>1, <1>3 DEF Bracketed
<1>5. Fine /\ FitsNow
  BY <1>1, ReadingIs DEF StructInv, StructOk
<1>6. Fit(Size(c.code), c.ctl, nest)
  <2>1. DefOps = pCurrentOps
    BY <1>3 DEF DefOps
  <2> QED BY <1>1, <1>5, <2>1, Facts DEF FitsNow
<1>7. b \in BOOLEAN
  BY DEF b
<1>8. Commit(Wilder(u, b)) \/ Commit(v)
  BY <1>1 DEF Wilder
<1> DEFINE w == Wilder(u, b)
<1>9. Fits(c, u, nest, t)
  <2> HIDE DEF c
  <2> QED BY <1>1, <1>2, <1>6, ControlFits
<1>10. u \in CState /\ u.e \in StructureErrors \cup {"none"}
  <2> HIDE DEF c
  <2>1. Writes(c, u, Meaning(t))
    BY <1>1, <1>2, ControlWrites
  <2> QED BY <2>1 DEF Writes
<1> HIDE DEF b, u
<1>11. w \in CState /\ w.e = u.e /\ w.code = u.code /\ w.ctl = u.ctl
  BY <1>7, <1>10, WilderTyped
<1>12. v \in CState /\ v.e = "no end of string"
  <2>1. "no end of string" \in Codes
    BY DEF Codes
  <2> QED BY <1>2, <2>1, FailsTyped
<1> HIDE DEF v, w
<1>13. CASE Commit(w)
  <2>1. w.e \notin {"ok", "end of stream"}
    BY <1>10, <1>11 DEF StructureErrors
  <2>2. w.e \in StructureErrors => nest' = Crossed
    BY <1>4, <1>9, <1>11 DEF Fits, StructureErrors
  <2>3. w.e = "none" => Fit(Size(w.code), w.ctl, nest')
    BY <1>4, <1>9, <1>11 DEF Fits
  <2> QED BY <1>1, <1>3, <1>11, <1>13, <2>1, <2>2, <2>3, WordStruct
<1>14. CASE Commit(v)
  <2>1. v.e \notin {"ok", "end of stream"} /\ v.e \notin StructureErrors /\ v.e # "none"
    BY <1>12 DEF StructureErrors
  <2> QED BY <1>1, <1>3, <1>12, <1>14, <2>1, WordStruct
<1> QED BY <1>8, <1>13, <1>14 DEF w

(* A word that has no structure only adds to the code. *)
LEMMA GrowsStruct ==
  ASSUME TypeInv, StreamInv, StructInv, Reading, NEW r, Grows(Current, r), Commit(r),
         UNCHANGED <<pCurrentOps, pPreviousOps, frames, def, nest>>
  PROVE  StructInv'
<1>1. Fine /\ FitsNow /\ TypeOK
  BY ReadingIs DEF StructInv, StructOk, TypeInv
<1>2. Current \in CState /\ Current.e = "none" /\ Current.ctl = ctl /\ Current.code = ops[pCurrentOps]
  BY <1>1, Facts
<1>3. r \in CState /\ r.e = "none" /\ r.ctl = ctl
  BY <1>2 DEF Grows
<1>4. ASSUME ~Bracketed PROVE Fit(Size(r.code), r.ctl, nest')
  <2>1. Fit(Size(Current.code), Current.ctl, nest)
    BY <1>1, <1>2, <1>4 DEF FitsNow, DefOps
  <2>2. Fit(Size(r.code), r.ctl, nest)
    BY <1>2, <2>1, GrowsFit
  <2> QED BY <2>2
<1>5. r.e \notin StructureErrors /\ r.e \notin {"ok", "end of stream"}
  BY <1>3 DEF StructureErrors
<1> QED BY <1>3, <1>4, <1>5, WordStruct

LEMMA LiteralStruct ==
  ASSUME TypeInv, StreamInv, StructInv, NEW t \in Words, Literal(t)
  PROVE  StructInv'
<1> DEFINE c == Current
           u == LiteralWord(t, c)
           e == LiteralError(t)
           v == Fails(c, e)
           w == Fails(u, "vm")
<1>1. /\ Reading /\ UNCHANGED <<pCurrentOps, pPreviousOps, frames, def, nest>>
      /\ t \in Literals /\ TypeOK
      /\ Commit(u) \/ (e # "none" /\ Commit(v)) \/ Commit(w)
  BY DEF Literal, NextWord, TypeInv
<1>2. c \in CState /\ c.e = "none"
  BY <1>1, Facts
<1>3. Grows(c, u)
  <2> HIDE DEF c
  <2> QED BY <1>1, <1>2, LiteralGrows
<1>4. e \in Codes /\ e \notin {"ok", "end of stream"} \cup StructureErrors
  BY DEF Codes, LiteralError, StructureErrors
<1> HIDE DEF e, u
<1>5. /\ v \in CState /\ v.e = e
      /\ w \in CState /\ w.e = "vm" /\ "vm" \notin {"ok", "end of stream"} \cup StructureErrors
  <2>1. u \in CState /\ "vm" \in Codes
    BY <1>3 DEF Grows, Codes
  <2> QED BY <1>2, <1>4, <2>1, FailsTyped DEF StructureErrors
<1> HIDE DEF v, w
<1>6. CASE Commit(u)
  BY <1>1, <1>3, <1>6, GrowsStruct
<1>7. CASE e # "none" /\ Commit(v)
  BY <1>1, <1>4, <1>5, <1>7, WordStruct
<1>8. CASE Commit(w)
  BY <1>1, <1>5, <1>8, WordStruct
<1> QED BY <1>1, <1>6, <1>7, <1>8

LEMMA CompiledWordStruct ==
  ASSUME KeepsStructures, TypeInv, StreamInv, StructInv, NEW t \in Words, CompiledWord(t)
  PROVE  StructInv'
<1> DEFINE c == Current
           u == CompiledCode(t)
<1>1. /\ Reading /\ UNCHANGED <<pCurrentOps, pPreviousOps, frames, def>> /\ Commit(u)
      /\ t \in {"LOOP", "UNLOOP"} \cup Compileds /\ TypeOK
      /\ nest' = IF def.phase = "brackets" THEN nest ELSE Nested(t, nest)
  BY DEF CompiledWord, CompiledCode, NextWord, TypeInv
<1>2. nest \in Seq(Structures) /\ Fine /\ FitsNow /\ c \in CState
  BY <1>1, HistoryTyped, Facts, ReadingIs DEF StructInv, StructOk
<1>3. u \in CState /\ u.e \in StructureErrors \cup {"none"}
  <2>1. Writes(c, u, Meaning(t))
    BY <1>1, CompiledCodeWrites
  <2> HIDE DEF c, u
  <2> QED BY <2>1 DEF Writes
<1>4. u.e \notin {"ok", "end of stream"}
  <2> HIDE DEF u
  <2> QED BY <1>3 DEF StructureErrors
<1>5. CASE Bracketed
  <2>1. t \in Compileds
    BY <1>1, <1>5, StructureRulesKept DEF CompiledWord, Bracketed
  <2>2. u = Op(c, Opcode(t))
    BY <2>1 DEF CompiledCode, Compileds
  <2>3. Opcode(t) \in Opcodes
    BY <1>1, <2>1, Facts, CompiledWrites
  <2>4. Grows(c, u)
    <3> HIDE DEF c, u
    <3> QED BY <1>2, <2>2, <2>3, GrowsNot, GrowsOp
  <2>5. nest' = nest
    BY <1>1, <1>5 DEF Bracketed
  <2> HIDE DEF u
  <2> QED BY <1>1, <2>4, <2>5, GrowsStruct
<1>6. CASE ~Bracketed
  <2>1. nest' = Nested(t, nest)
    BY <1>1, <1>6 DEF Bracketed
  <2>2. Fit(Size(c.code), c.ctl, nest)
    BY <1>1, <1>2, <1>6, Facts DEF FitsNow, DefOps
  <2>3. Fits(c, u, nest, t)
    BY <1>1, <1>2, <2>2, CompiledFits
  <2> HIDE DEF u, c
  <2>4. u.e \in StructureErrors => nest' = Crossed
    BY <2>1, <2>3 DEF Fits, StructureErrors
  <2>5. u.e = "none" => Fit(Size(u.code), u.ctl, nest')
    BY <2>1, <2>3 DEF Fits
  <2> QED BY <1>1, <1>3, <1>4, <1>6, <2>4, <2>5, WordStruct
<1> QED BY <1>5, <1>6

(* Code that is run at once is not the definition's. *)
LEMMA RunsStruct ==
  ASSUME TypeInv, StreamInv, StructInv, Reading, def.phase # "body", NEW r \in CState, Commit(r),
         r.e = "none", r.ctl = ctl, ~Open => nest = <<>>, TopChanges(frames'),
         UNCHANGED <<pCurrentOps, pPreviousOps, def, nest>>
  PROVE  StructInv'
<1>1. Fine /\ StructOk /\ DefOk
  BY ReadingIs DEF StructInv
<1>2. /\ result' = "none" /\ ctl' = ctl
      /\ Bracketed => DefOps' = DefOps /\ ops'[DefOps] = ops[DefOps]
  BY <1>1, CommitWrites
<1>3. Open => Bracketed
  BY <1>1, DefIs DEF Open, Bracketed
<1>4. FitsNow'
  <2>1. CASE Bracketed
    BY <1>1, <1>2, <2>1, SameFits DEF StructOk
  <2>2. CASE ~Bracketed
    BY <1>1, <1>2, <1>3, <2>2, NothingFits DEF StructOk
  <2> QED BY <2>1, <2>2
<1>5. Bracketed' = Bracketed /\ Open' = Open /\ Depth' = Depth /\ def'.brackets = def.brackets
  BY DEF Bracketed, Open, Depth, TopChanges
<1>6. StructOk'
  BY <1>1, <1>2, <1>4, <1>5 DEF StructOk
<1> QED BY <1>2, <1>6 DEF StructInv, StructureErrors

LEMMA AsideStruct ==
  ASSUME TypeInv, StreamInv, StructInv,
         (\E t \in Words : NondeferredWord(t)) \/ CPP_rbracket \/ EndOfLine
  PROVE  StructInv'
<1>1. TypeOK
  BY DEF TypeInv
<1>9. Current \in CState /\ Current.e = "none" /\ Current.ctl = ctl /\ "RET" \in Opcodes
  BY <1>1, Facts DEF Opcodes
<1>2. CASE \E t \in Words : NondeferredWord(t)
  <2>1. PICK t \in Words : NondeferredWord(t)
    BY <1>2
  <2> DEFINE u == Op(Current, t)
             r == Op(u, "RET")
  <2>2. /\ Reading /\ UNCHANGED <<pCurrentOps, pPreviousOps, def, nest>> /\ Commit(r)
        /\ ~State /\ t \in Nondeferred /\ frames' = Runs("up to", t) /\ (~Open => nest = <<>>)
    BY <2>1 DEF NondeferredWord, NextWord, history, Open
  <2>3. t \in Opcodes
    BY <2>2 DEF Opcodes
  <2>4. u \in CState /\ u.e = "none" /\ u.ctl = ctl
    BY <1>9, <2>3, CodeTyped
  <2>5. r \in CState /\ r.e = "none" /\ r.ctl = ctl
    <3> HIDE DEF u
    <3> QED BY <1>9, <2>4, CodeTyped
  <2>6. def.phase # "body"
    BY <2>2, ReadingIs DEF StateOk
  <2>7. TopChanges(frames')
    <3>1. "up to" \in Doings /\ t \in DoneBy
      BY <2>2 DEF Doings, DoneBy
    <3> QED BY <2>2, <3>1, RunsChanges
  <2> HIDE DEF r
  <2> QED BY <2>2, <2>5, <2>6, <2>7, RunsStruct
<1>3. CASE CPP_rbracket \/ EndOfLine
  <2> DEFINE r == Op(Current, "RET")
  <2>1. /\ Reading /\ UNCHANGED <<pCurrentOps, pPreviousOps, def, nest>> /\ Commit(r)
        /\ def.phase = "brackets" \/ ~State
        /\ ~Open => nest = <<>>
        /\ frames' = Runs("bracket", "none") \/ frames' = Runs("line", "none")
    BY <1>3 DEF CPP_rbracket, EndOfLine, NextWord, history, Open
  <2>2. r \in CState /\ r.e = "none" /\ r.ctl = ctl
    BY <1>9, CodeTyped
  <2>3. def.phase # "body"
    BY <2>1, ReadingIs DEF StateOk
  <2>4. TopChanges(frames')
    <3>1. "line" \in Doings /\ "bracket" \in Doings /\ "none" \in DoneBy
      BY DEF Doings, DoneBy
    <3> QED BY <2>1, <3>1, RunsChanges
  <2> HIDE DEF r
  <2> QED BY <2>1, <2>2, <2>3, <2>4, RunsStruct
<1> QED BY <1>2, <1>3

(* The vector of a frame that interprets is emptied at the end of its run. *)
LEMMA EmptiedStruct ==
  ASSUME TypeInv, StreamInv, StructInv, result = "none", Top.doing \in {"up to", "line"},
         ops' = [ops EXCEPT ![Top.pOpCodes] = <<>>], frames' = Idle,
         UNCHANGED <<pCurrentOps, pPreviousOps, ctl, result, def, nest>>
  PROVE  StructInv'
<1>1. Fine /\ StructOk /\ Interpreting(Top)
  BY DEF StructInv, Fine, Interpreting
<1>2. Open => Bracketed
  BY <1>1, InterpretingIs
<1>3. FitsNow'
  <2>1. CASE Bracketed
    BY <1>1, <2>1, ElsewhereStays, SameFits DEF StructOk
  <2>2. CASE ~Bracketed
    BY <1>1, <1>2, <2>2, NothingFits DEF StructOk
  <2> QED BY <2>1, <2>2
<1>4. Bracketed' = Bracketed /\ Open' = Open /\ Depth' = Depth /\ def'.brackets = def.brackets
  BY IdleChanges DEF Bracketed, Open, Depth, TopChanges
<1>5. StructOk'
  BY <1>1, <1>3, <1>4 DEF StructOk
<1> QED BY <1>5 DEF StructInv, StructureErrors

(* The definition that : begins. *)
LEMMA ColonStruct ==
  ASSUME TypeInv, StreamInv, StructInv, result = "none", Top.doing = "up to", Top.word = ":",
         CPP_colon, result' = result
  PROVE  StructInv'
<1>1. Fine /\ StructOk /\ Interpreting(Top)
  BY DEF StructInv, Fine, Interpreting
<1>2. ~Open
  BY <1>1, InterpretingIs
<1>3. nest = <<>> /\ nest' = <<>>
  BY <1>1, <1>2 DEF StructOk, CPP_colon
<1>4. \A st \in Stacks \ {"recurse"} : ctl'[st] \in {ctl[st], <<>>}
  BY Facts DEF CPP_colon, TypeInv
<1>5. FitsNow'
  BY <1>1, <1>3, <1>4, NothingFits DEF StructOk
<1>6. StructOk'
  BY <1>3, <1>5 DEF StructOk
<1> QED BY <1>6 DEF StructInv, StructureErrors

(* COMPILE, lengthens the code that [ put aside. *)
LEMMA CommaStruct ==
  ASSUME TypeInv, StreamInv, StructInv, result = "none", Top.doing = "up to", Top.word = "COMPILE,",
         CompileComma, ops' = CompileCommaOps, frames' = Idle, result' = result
  PROVE  StructInv'
<1>1. Top.doing # "read" /\ Fine
  BY Zenon DEF Fine
<1>2. GoesBack(Top)
  BY GoBack, Zenon
<1>3. Bracketed /\ pPreviousOps \in Vectors
  <2>1. FrameOk(Depth, Top)
    BY <1>1, RunningIs, Zenon
  <2>2. Bracketed
    BY <1>2, <2>1, Zenon DEF FrameOk
  <2> QED BY <2>2, CompileCommaTyped, Zenon
<1>4. DefOps = pPreviousOps
  BY <1>3, Zenon DEF DefOps
<1>5. ops'[pPreviousOps] = Emit(Emit(ops[pPreviousOps], "IVAL", 0), "EXECUTE", 0)
  <2>1. Top.pOpCodes # pPreviousOps
    BY <1>1, <1>3, <1>4, DefElsewhere, Zenon
  <2> QED BY <2>1, CompileCommaTyped, Zenon
<1>6. UNCHANGED <<pPreviousOps, def, ctl, nest>>
  BY Zenon DEF CompileComma
<1>7. Bracketed' /\ Open'
  BY <1>3, <1>6 DEF Bracketed, Open
<1>8. (ops[DefOps])' = Emit(Emit(ops[pPreviousOps], "IVAL", 0), "EXECUTE", 0)
  <2>1. DefOps' = IF Bracketed' THEN pPreviousOps' ELSE pCurrentOps'
    BY DEF DefOps
  <2> QED BY <1>5, <1>6, <1>7, <2>1
<1>9. PICK code \in Seq(Instructions) : code = ops[pPreviousOps]
  BY <1>3, Facts DEF TypeInv
<1> DEFINE d == Emit(Emit(code, "IVAL", 0), "EXECUTE", 0)
<1>10. Size(code) \in Nat /\ Size(d) \in Nat /\ Size(code) <= Size(d)
  <2>1. "IVAL" \in Opcodes /\ "EXECUTE" \in Opcodes /\ 0 \in Args
    BY ZeroArg DEF Opcodes
  <2> DEFINE b == Emit(code, "IVAL", 0)
  <2>2. b \in Seq(Instructions) /\ Size(b) = Size(code) + Width("IVAL")
    BY ONLY <2>1, code \in Seq(Instructions), EmitTyped
  <2> HIDE DEF b
  <2>3. Size(Emit(b, "EXECUTE", 0)) = Size(b) + Width("EXECUTE")
    BY ONLY <2>1, <2>2, EmitTyped
  <2>4. PICK x \in Nat, y \in Nat, z \in Nat : x = Size(code) /\ y = Width("IVAL") /\ z = Width("EXECUTE")
    BY <2>1, SizeNat, WidthNat
  <2>5. Size(d) = x + y + z
    BY <2>2, <2>3, <2>4 DEF b
  <2> HIDE DEF d
  <2>6. x + y + z \in Nat /\ x <= x + y + z
    BY ONLY x \in Nat, y \in Nat, z \in Nat
  <2> QED BY <2>4, <2>5, <2>6
<1> HIDE DEF d
<1>11. ctl \in [Stacks -> Seq(Int)] /\ StructOk
  BY <1>1, Facts DEF TypeInv, StructInv
<1>12. Fit(Size(code), ctl, nest)
  BY <1>4, <1>9, <1>11 DEF StructOk, FitsNow
<1>13. Fit(Size(d), ctl, nest)
  BY <1>10, <1>11, <1>12, FitGrows
<1>14. (Size(ops[DefOps]))' = Size(d)
  <2>1. (ops[DefOps])' = d
    BY <1>8, <1>9 DEF d
  <2> QED BY <2>1 DEF Size
<1>15. FitsNow'
  BY <1>6, <1>13, <1>14, FitsNext
<1>16. Depth' = Depth /\ def'.brackets = def.brackets
  BY <1>6, IdleChanges DEF TopChanges, Depth
<1>17. StructOk'
  <2>1. Depth > def.brackets => nest = <<>>
    BY <1>3, <1>11 DEF StructOk
  <2>2. result' # "ok"
    OBVIOUS
  <2> QED BY <1>6, <1>7, <1>15, <1>16, <2>1, <2>2 DEF StructOk
<1> QED BY <1>17 DEF StructInv, StructureErrors

LEMMA UpToDoneStruct ==
  ASSUME TypeInv, StreamInv, StructInv, UpToDone
  PROVE  StructInv'
<1>1. Top.doing = "up to" /\ result = "none" /\ result' = result /\ frames' = Idle
  BY DEF UpToDone, Doing
<1>3. CASE Top.word = "COMPILE,"
  <2>1. CompileComma /\ ops' = CompileCommaOps
    BY <1>3, Zenon DEF UpToDone, CompileCommaOps
  <2> QED BY <1>1, <1>3, <2>1, CommaStruct, Zenon
<1>4. CASE Top.word # "COMPILE,"
  <2>1. ops' = [ops EXCEPT ![Top.pOpCodes] = <<>>]
    BY <1>4, Zenon DEF UpToDone
  <2>2. \/ Top.word = ":" /\ CPP_colon
        \/ CPP_create
        \/ UNCHANGED <<pCurrentOps, pPreviousOps, ctl, history>>
    BY <1>4, Zenon DEF UpToDone
  <2>3. CASE Top.word = ":" /\ CPP_colon
    BY <1>1, <2>3, ColonStruct, Zenon
  <2>4. CASE CPP_create \/ UNCHANGED <<pCurrentOps, pPreviousOps, ctl, history>>
    <3>1. UNCHANGED <<pCurrentOps, pPreviousOps, ctl, def, nest>>
      BY <2>4, Zenon DEF CPP_create, history
    <3>2. Top.doing \in {"up to", "line"} /\ UNCHANGED result
      BY <1>1
    <3> QED BY <1>1, <2>1, <3>1, <3>2, EmptiedStruct, Zenon
  <2> QED BY <2>2, <2>3, <2>4, Zenon
<1> QED BY <1>3, <1>4, Zenon

LEMMA LineDoneStruct ==
  ASSUME TypeInv, StreamInv, StructInv, LineDone
  PROVE  StructInv'
<1>1. /\ result = "none" /\ Top.doing = "line" /\ frames' = Idle
      /\ ops' = [ops EXCEPT ![Top.pOpCodes] = <<>>]
      /\ UNCHANGED <<pCurrentOps, pPreviousOps, ctl, result, def, nest>>
  BY DEF LineDone, Doing, history
<1> QED BY <1>1, EmptiedStruct

(* Words and ends of runs and streams that leave the code alone. *)
LEMMA QuietStruct ==
  ASSUME TypeInv, StreamInv, StructInv, result = "none", TopChanges(frames'),
         frames'[Depth].doing \notin {"up to", "line"},
         UNCHANGED <<ops, pCurrentOps, pPreviousOps, ctl, def, nest>>,
         result' = "ok" => nest = <<>>, result' \notin StructureErrors
  PROVE  StructInv'
<1>1. StructOk
  BY DEF StructInv, Fine
<1>2. DefOps' = DefOps /\ ops'[DefOps] = ops[DefOps]
  BY DEF DefOps, Bracketed
<1>3. FitsNow'
  BY <1>1, <1>2, SameFits DEF StructOk
<1>4. Bracketed' = Bracketed /\ Open' = Open /\ Depth' = Depth /\ def'.brackets = def.brackets
  BY DEF Bracketed, Open, Depth, TopChanges
<1>5. Top'.doing \notin {"up to", "line"}
  BY <1>4, TopIs
<1>6. StructOk'
  BY <1>1, <1>3, <1>4, <1>5 DEF StructOk
<1> QED BY <1>6 DEF StructInv

LEMMA MacroStruct ==
  ASSUME TypeInv, StreamInv, StructInv, Macro \/ MacroDone
  PROVE  StructInv'
<1>1. /\ result = "none" /\ result' = "none"
      /\ UNCHANGED <<ops, pCurrentOps, pPreviousOps, ctl, def, nest>>
      /\ \/ frames' = Runs("current", "none")
         \/ frames' = [Idle EXCEPT ![Depth].pOpCodes = pCurrentOps]
  BY DEF Macro, MacroDone, NextWord, Reading, history
<1>2. "current" \in Doings /\ "none" \in DoneBy /\ pCurrentOps \in Vectors
  BY Facts DEF Doings, DoneBy, TypeInv
<1>3. TopChanges(frames') /\ frames'[Depth].doing \in {"current", "read"}
  <2>1. CASE frames' = Runs("current", "none")
    BY <1>2, <2>1, RunsChanges
  <2>2. CASE frames' = [Idle EXCEPT ![Depth].pOpCodes = pCurrentOps]
    BY <1>2, <2>2, SetOpCodesChanges
  <2> QED BY <1>1, <2>1, <2>2
<1>4. "none" \notin StructureErrors
  BY DEF StructureErrors
<1> QED BY <1>1, <1>3, <1>4, QuietStruct

(* No structure is open where a stream ends. *)
LEMMA EndOfStreamStruct ==
  ASSUME KeepsStructures, TypeInv, StreamInv, StructInv, EndOfStream
  PROVE  StructInv'
<1>1. /\ Reading /\ result' = IF State THEN "end of stream" ELSE "ok"
      /\ UNCHANGED <<ops, pCurrentOps, pPreviousOps, ctl, frames, def, nest>>
      /\ ~Open => nest = <<>>
      /\ Bracketed => def.brackets # Depth
  BY StructureRulesKept, RulesKept DEF EndOfStream, history, Open, Bracketed
<1>2. result = "none" /\ Top.doing = "read" /\ StateOk /\ DefOk /\ StructOk
  BY <1>1, ReadingIs DEF StructInv
<1>3. TopChanges(frames')
  BY <1>1, TopKept, TopIs
<1>4. frames'[Depth].doing \notin {"up to", "line"}
  BY <1>1, <1>2, TopIs
<1>5. ASSUME result' = "ok" PROVE nest = <<>>
  <2>1. ~State
    BY <1>1, <1>5
  <2>2. ~Open \/ Bracketed
    BY <1>2, <2>1, DefIs DEF StateOk, Open, Bracketed
  <2>3. Bracketed => Depth > def.brackets
    <3>1. PICK b \in Nat, d \in Nat : b = def.brackets /\ d = Depth
      BY <1>2, DefIs, TopIs
    <3>2. Bracketed => b <= d /\ b # d
      BY <1>1, <1>2, <3>1, DefIs
    <3> QED BY <3>1, <3>2
  <2> QED BY <1>1, <1>2, <2>2, <2>3 DEF StructOk
<1>6. result' \notin StructureErrors
  BY <1>1 DEF StructureErrors
<1> QED BY <1>1, <1>2, <1>3, <1>4, <1>5, <1>6, QuietStruct

LEMMA LbracketStruct ==
  ASSUME TypeInv, StreamInv, StructInv, CPP_lbracket
  PROVE  StructInv'
<1>1. /\ Reading /\ def.phase = "body" /\ pPreviousOps' = pCurrentOps
      /\ ops' = [ops EXCEPT ![Temp] = <<>>] /\ UNCHANGED <<ctl, nest, result>>
      /\ def' = [def EXCEPT !.phase = "brackets", !.brackets = Depth]
      /\ frames' = SetTop("pOpCodes", Temp)
  BY DEF CPP_lbracket, NextWord, SaveOps
<1>2. Fine /\ StructOk /\ result = "none"
  BY <1>1, ReadingIs DEF StructInv
<1>3. def \in Definitions /\ ops \in [Vectors -> Seq(Instructions)]
  BY HistoryTyped, Facts DEF TypeInv
<1>4. def'.phase = "brackets" /\ def'.brackets = Depth
  BY <1>1, <1>3 DEF Definitions
<1>5. Open /\ Open' /\ ~Bracketed /\ Bracketed'
  BY <1>1, <1>4 DEF Open, Bracketed
<1>6. DefOps = pCurrentOps /\ DefOps' = pCurrentOps
  <2>1. DefOps' = IF Bracketed' THEN pPreviousOps' ELSE pCurrentOps'
    BY DEF DefOps
  <2> QED BY <1>1, <1>5, <2>1 DEF DefOps
<1>7. DefOps \in Vectors /\ DefOps # Temp
  BY <1>2, <1>5, DefElsewhere
<1>8. DefOps' = DefOps /\ ops'[DefOps] = ops[DefOps]
  BY <1>1, <1>3, <1>6, <1>7
<1>9. FitsNow'
  BY <1>1, <1>2, <1>8, SameFits DEF StructOk
<1>10. Depth' = Depth /\ Depth \in Nat
  BY <1>1, SetOpCodesChanges, VectorsAre, TopIs DEF TopChanges, Depth
<1>11. StructOk'
  BY <1>1, <1>2, <1>4, <1>5, <1>9, <1>10 DEF StructOk
<1> QED BY <1>1, <1>2, <1>11 DEF StructInv, StructureErrors

LEMMA BracketDoneStruct ==
  ASSUME TypeInv, StreamInv, StructInv, BracketDone
  PROVE  StructInv'
<1>1. /\ Top.doing = "bracket" /\ result = "none" /\ pCurrentOps' = pPreviousOps
      /\ ops' = [ops EXCEPT ![pCurrentOps] = <<>>] /\ UNCHANGED <<ctl, nest, result>>
      /\ def' = [def EXCEPT !.phase = "body", !.brackets = 0]
  BY DEF BracketDone, EndBracket, Doing
<1>2. Fine /\ StructOk /\ Top.doing # "read"
  BY <1>1 DEF StructInv, Fine
<1>3. def \in Definitions /\ ops \in [Vectors -> Seq(Instructions)]
  BY HistoryTyped, Facts DEF TypeInv
<1>4. def'.phase = "body"
  BY <1>1, <1>3 DEF Definitions
<1>5. Bracketed /\ Open /\ Open' /\ ~Bracketed'
  <2>1. FrameOk(Depth, Top) /\ GoesBack(Top)
    BY <1>1, <1>2, RunningIs, GoBack
  <2> QED BY <1>4, <2>1 DEF FrameOk, Open, Bracketed
<1>6. DefOps = pPreviousOps /\ DefOps' = pPreviousOps
  <2>1. DefOps' = IF Bracketed' THEN pPreviousOps' ELSE pCurrentOps'
    BY DEF DefOps
  <2> QED BY <1>1, <1>5, <2>1 DEF DefOps
<1>7. DefOps \in Vectors /\ DefOps # pCurrentOps
  BY <1>2, <1>5, DefElsewhere, RunningIs DEF StreamsOk
<1>8. DefOps' = DefOps /\ ops'[DefOps] = ops[DefOps]
  BY <1>1, <1>3, <1>6, <1>7
<1>9. FitsNow'
  BY <1>1, <1>2, <1>8, SameFits DEF StructOk
<1>10. StructOk'
  BY <1>1, <1>2, <1>5, <1>9 DEF StructOk
<1> QED BY <1>1, <1>2, <1>10 DEF StructInv, StructureErrors

(* Where no structure is open nothing else is asked. *)
LEMMA NoneOpenStruct ==
  ASSUME FitsNow', nest' = <<>>, result' \notin StructureErrors
  PROVE  StructInv'
  BY DEF StructInv, StructOk

(* Inside a definition the structures and the code stay. *)
LEMMA BodyStruct ==
  ASSUME StructInv, Fine, Open, ~Bracketed, DefOps' = DefOps, ops'[DefOps] = ops[DefOps],
         UNCHANGED <<ctl, nest, def>>, result' # "ok", result' \notin StructureErrors
  PROVE  StructInv'
<1>1. FitsNow'
  BY SameFits DEF StructInv, StructOk
<1>2. Open' /\ ~Bracketed'
  BY DEF Open, Bracketed
<1>3. StructOk'
  BY <1>1, <1>2 DEF StructOk
<1> QED BY <1>3 DEF StructInv

(* A nested stream starts with no structure open, or in the definition.    *)
LEMMA NestStruct ==
  ASSUME KeepsStructures, TypeInv, StreamInv, StructInv, CPP_evaluate \/ CPP_include
  PROVE  StructInv'
<1>1. /\ Top.doing # "read" /\ result = "none" /\ result' = "none"
      /\ UNCHANGED <<ops, pPreviousOps, def, nest, ctl>>
      /\ \/ pCurrentOps' = IF State THEN pCurrentOps ELSE Depth + 1
         \/ Top.doing = "up to"
      /\ State \/ nest = <<>>
  BY StructureRulesKept DEF CPP_evaluate, CPP_include, Nest, Running, Doing, EvaluateOps, OwnOps, history
<1>2. Fine /\ StructOk
  BY <1>1 DEF Fine, StructInv
<1>3. StateOk /\ DefOk
  BY <1>1, <1>2, RunningIs
<1>4. "none" \notin StructureErrors
  BY DEF StructureErrors
<1>5. CASE nest = <<>>
  <2>1. FitsNow'
    BY <1>1, <1>2, <1>5, NothingFits DEF StructOk
  <2> QED BY <1>1, <1>4, <1>5, <2>1, NoneOpenStruct
<1>6. CASE nest # <<>>
  <2>1. State /\ Open /\ ~Bracketed
    BY <1>1, <1>3, <1>6 DEF StateOk, Open, Bracketed
  <2>2. Top.doing # "up to"
    BY <1>2, <2>1, InterpretingIs DEF Interpreting
  <2>3. pCurrentOps' = pCurrentOps
    BY <1>1, <2>1, <2>2
  <2>4. DefOps' = DefOps /\ ops'[DefOps] = ops[DefOps]
    BY <1>1, <2>3 DEF DefOps, Bracketed
  <2> QED BY <1>1, <1>2, <1>4, <2>1, <2>4, BodyStruct
<1> QED BY <1>5, <1>6

(* An error goes on with the structures as they are.                       *)
LEMMA RunFailsStruct ==
  ASSUME TypeInv, StreamInv, StructInv, NEW e \in Codes, RunFails(e)
  PROVE  StructInv'
<1>1. Top.doing # "read" /\ e # "none" /\ result' = e /\ (result = e \/ (result = "none" /\ e = "vm"))
      /\ nest' = nest
  BY DEF RunFails, Running, Doing, history
<1>2. Fine => result = "none"
  BY <1>1, RunningIs
<1>3. ~Fine'
  BY <1>1, <1>2 DEF Fine
<1>4. result' \in StructureErrors => nest' = Crossed
  BY <1>1 DEF StructInv, StructureErrors
<1> QED BY <1>3, <1>4 DEF StructInv

LEMMA EndCompileStruct ==
  ASSUME TypeInv, StreamInv, StructInv, EndCompile
  PROVE  StructInv'
<1>1. /\ result # "none"
      /\ ctl' = IF result = "end of stream" THEN ctl ELSE ClearControlStacks
  BY DEF EndCompile, Midway
<1>2. ops \in [Vectors -> Seq(Instructions)] /\ Depth \in Nat /\ State \in BOOLEAN
  BY Facts DEF TypeInv
<1>3. "none" \notin StructureErrors /\ "ok" \notin StructureErrors /\ "end of stream" \notin StructureErrors
  BY DEF StructureErrors
<1>4. CASE ~Fine /\ Top.kind = "main"
  <2>1. nest' = <<>> /\ result' = "none" /\ ctl' = ClearControlStacks
    BY <1>1, <1>4 DEF EndCompile, Fine
  <2> QED BY <1>3, <2>1, ClearsFit, NoneOpenStruct
<1>5. CASE ~Fine /\ Top.kind # "main"
  <2>1. result' = result /\ nest' = nest
    BY <1>5 DEF EndCompile, Fine, Midway, history
  <2> QED BY <1>5, <2>1 DEF StructInv, Fine
<1>6. CASE Fine /\ result = "ok"
  <2>1. nest = <<>> /\ nest' = nest /\ result' = "none"
    BY <1>1, <1>6 DEF StructInv, StructOk, EndCompile, history
  <2>2. ctl' = ClearControlStacks
    BY <1>1, <1>6
  <2> QED BY <1>3, <2>1, <2>2, ClearsFit, NoneOpenStruct
<1>7. CASE Fine /\ result = "end of stream"
  <2>1. UNCHANGED <<ctl, nest, def>> /\ result' \in {"none", "end of stream"}
    BY <1>1, <1>7 DEF EndCompile, Midway, history
  <2>2. StateOk /\ DefOk
    BY <1>7 DEF StreamInv
  <2>3. Open /\ ~Bracketed
    BY <1>7, <2>2 DEF StateOk, Open, Bracketed
  <2>4. DefOps' = DefOps /\ ops'[DefOps] = ops[DefOps]
    <3>1. CASE Top.kind = "main"
      <4>1. pCurrentOps' = Main /\ ops' = ops
        BY <1>7, <3>1 DEF EndCompile, Midway
      <4>2. def.stream = 1
        BY <1>7, <2>3, <3>1, MainIs
      <4>3. DefOps = Main
        BY <2>2, <2>3, <4>2 DEF DefOk, Main
      <4>4. DefOps' = IF Bracketed' THEN pPreviousOps' ELSE pCurrentOps'
        BY DEF DefOps
      <4>5. ~Bracketed'
        BY <2>1, <2>3 DEF Bracketed
      <4> QED BY <4>1, <4>3, <4>4, <4>5
    <3>2. CASE Top.kind # "main"
      <4>1. ops' = [ops EXCEPT ![Depth] = <<>>]
        BY <3>2 DEF EndCompile
      <4>2. def.stream <= Depth - 1 /\ def.stream \in Nat /\ DefOps' = DefOps
        BY <1>7, <2>3, <3>2, ReturnIs
      <4>3. DefOps \in 1 .. def.stream
        BY <2>2, <2>3 DEF DefOk
      <4>4. DefOps # Depth
        BY <1>2, <4>2, <4>3
      <4> QED BY <1>2, <4>1, <4>2, <4>4, <2>3, <1>7, DefElsewhere
    <3> QED BY <3>1, <3>2
  <2>5. result' # "ok" /\ result' \notin StructureErrors
    BY <1>3, <2>1
  <2> QED BY <1>7, <2>1, <2>3, <2>4, <2>5, BodyStruct
<1> QED BY <1>1, <1>4, <1>5, <1>6, <1>7 DEF Fine

(* With the other stacks empty, so is querydostack: a ?DO is a DO.         *)
LEMMA NoQueryDo ==
  ASSUME NEW c \in [Stacks -> Seq(Int)], NEW size, NEW n, Fit(size, c, n), c["do"] = <<>>
  PROVE  c["querydo"] = <<>>
<1>1. Len(c["querydo"]) \in Nat /\ (c["querydo"] = <<>> <=> Len(c["querydo"]) = 0)
  BY StackNames, StackTypes
<1> SUFFICES ASSUME Len(c["querydo"]) # 0 PROVE FALSE
  BY <1>1
<1>2. 1 \in 1 .. Len(c["querydo"]) /\ Len(c["do"]) = 0
  BY <1>1
<1>3. \E j \in 1 .. Len(c["do"]) : c["querydo"][1] = c["do"][j]
  BY <1>2 DEF Fit, Loops
<1> QED BY <1>2, <1>3

LEMMA SemicolonStruct ==
  ASSUME TypeInv, StreamInv, StructInv, CPP_semicolon
  PROVE  StructInv'
<1>1. Reading /\ TypeOK /\ UNCHANGED <<pCurrentOps, pPreviousOps, frames>>
  BY SemicolonCases DEF NextWord, TypeInv
<1>2. Fine /\ StateOk /\ StructOk
  BY <1>1, ReadingIs DEF StructInv
<1>3. RetState \in CState /\ RetState.ctl = ctl /\ ctl \in [Stacks -> Seq(Int)]
  BY <1>1, ClosedTyped, Facts
<1>4. CASE /\ State /\ Incomplete(RetState) = "none" /\ Commit(Emptied(Closed))
           /\ \/ def.phase = "body" /\ nest' = <<>>
              \/ def.phase # "body"
  <2>1. nest' = <<>>
    BY <1>2, <1>4 DEF StateOk
  <2>2. /\ ctl["case"] = <<>> /\ ctl["of"] = <<>> /\ ctl["do"] = <<>> /\ ctl["leave"] = <<>>
        /\ ctl["begin"] = <<>> /\ ctl["while"] = <<>> /\ ctl["if"] = <<>>
    BY <1>3, <1>4 DEF Incomplete, IsEmpty
  <2>3. ctl["querydo"] = <<>>
    BY <1>2, <1>3, <2>2, NoQueryDo DEF StructOk, FitsNow
  <2>4. Emptied(Closed) \in CState /\ Emptied(Closed).e = "none"
        /\ Emptied(Closed).ctl = [ctl EXCEPT !["recurse"] = <<>>]
    BY <1>1, ClosedTyped
  <2>5. ctl' = [ctl EXCEPT !["recurse"] = <<>>] /\ result' = "none"
    BY <1>4, <2>4 DEF Commit
  <2>6. PICK c : c = ctl'
    OBVIOUS
  <2>7. Cleared(c)
    BY <1>3, <2>2, <2>3, <2>5, <2>6 DEF Cleared, Stacks
  <2>8. PICK size : size = (Size(ops[DefOps]))'
    OBVIOUS
  <2>9. Fit(size, c, <<>>)
    BY <2>7, ClearedFits
  <2>10. FitsNow'
    BY <2>1, <2>6, <2>8, <2>9, FitsNext
  <2> QED BY <2>1, <2>5, <2>10, NoneOpenStruct DEF StructureErrors
<1>5. CASE /\ Incomplete(RetState) # "none" /\ Commit(Fails(RetState, Incomplete(RetState)))
           /\ nest' = IF nest = <<>> THEN nest ELSE Crossed
  <2>1. Incomplete(RetState) \in StructureErrors
    BY <1>5, IncompleteIs
  <2> DEFINE e == Incomplete(RetState)
  <2>2. nest # <<>>
    <3> SUFFICES ASSUME nest = <<>> PROVE FALSE
      OBVIOUS
    <3>1. Cleared(ctl)
      BY <1>2, <1>3, NothingOpen DEF StructOk, FitsNow
    <3>2. Incomplete(RetState) = "none"
      BY <1>3, <3>1, StackNames DEF Incomplete, IsEmpty, Cleared
    <3> QED BY <1>5, <3>2
  <2>3. e \in Codes
    BY <2>1, StructureCodes
  <2> HIDE DEF e
  <2>4. result' = e
    BY <1>3, <1>5, <2>3, FailsTyped DEF Commit, e
  <2>5. ~Fine'
    BY <2>1, <2>4 DEF Fine, StructureErrors, e
  <2> QED BY <1>5, <2>2, <2>5 DEF StructInv
<1>6. CASE Commit(Fails(RetState, "end of definition with no beginning"))
  <2>1. PICK e \in Codes : e = "end of definition with no beginning"
    BY DEF Codes
  <2>2. Fails(RetState, e).e = e
    BY <1>3, FailsTyped
  <2>3. result' = "end of definition with no beginning"
    BY <1>6, <2>1, <2>2 DEF Commit
  <2> QED BY <2>3 DEF StructInv, Fine, StructureErrors
<1> QED BY <1>4, <1>5, <1>6, SemicolonCases

LEMMA StructInit ==
  ASSUME Init
  PROVE  StructInv
<1>1. nest = <<>> /\ result = "none" /\ ctl = [st \in Stacks |-> <<>>]
  BY DEF Init
<1>2. Cleared(ctl)
  BY <1>1 DEF Cleared
<1>3. FitsNow
  BY <1>1, <1>2, ClearedFits DEF FitsNow
<1> QED BY <1>1, <1>3 DEF StructInv, StructOk, StructureErrors

(* Every step keeps the control stacks fitting the source. *)
LEMMA StructStep ==
  ASSUME KeepsStructures, TypeInv, StreamInv, StructInv, [Next]_vars
  PROVE  StructInv'
<1>1. CASE CPP_semicolon
  BY <1>1, SemicolonStruct
<1>2. CASE \E t \in Words : StructureWord(t) \/ Literal(t) \/ CompiledWord(t) \/ NondeferredWord(t)
  BY <1>2, StructureWordStruct, LiteralStruct, CompiledWordStruct, AsideStruct
<1>3. CASE UnknownWord
  BY <1>3 DEF UnknownWord, StructInv, Fine, StructureErrors
<1>4. CASE CPP_lbracket \/ CPP_rbracket \/ Macro \/ EndOfLine
  BY <1>4, LbracketStruct, AsideStruct, MacroStruct
<1>5. CASE UpToDone \/ BracketDone \/ MacroDone \/ LineDone
  BY <1>5, UpToDoneStruct, BracketDoneStruct, MacroStruct, LineDoneStruct
<1>6. CASE \E e \in Codes : RunFails(e)
  BY <1>6, RunFailsStruct
<1>7. CASE EndOfStream \/ EndCompile \/ CPP_evaluate \/ CPP_include
  BY <1>7, EndOfStreamStruct, EndCompileStruct, NestStruct
<1>8. CASE UNCHANGED vars
  <2>1. FitsNow' = FitsNow
    BY <1>8 DEF vars, FitsNow, DefOps, Bracketed
  <2> QED BY <1>8, <2>1 DEF vars, StructInv, StructOk, Open, Bracketed, Fine, Top, Depth
<1> QED BY <1>1, <1>2, <1>3, <1>4, <1>5, <1>6, <1>7, <1>8 DEF Next

LEMMA StructInvCorrect ==
  ASSUME KeepsStructures
  PROVE  Spec => [](TypeInv /\ StreamInv /\ StructInv)
<1> DEFINE Inv == TypeInv /\ StreamInv /\ StructInv
<1>1. Init => Inv
  BY TypeInit, StreamInit, StructInit
<1>2. Inv /\ [Next]_vars => Inv'
  BY TypeStep, StreamStep, StructStep, StructureRulesKept
<1> HIDE DEF Inv
<1>3. Spec => []Inv
  BY <1>1, <1>2, PTL DEF Spec
<1> QED BY <1>3 DEF Inv

(* A source whose structures nest gets no error about its structures: not  *)
(* from the words that take from the control stacks, not from ; which      *)
(* finds them empty, and not through a nested stream.                      *)
THEOREM RightfulErrorsCorrect ==
  ASSUME KeepsStructures
  PROVE  Spec => []RightfulErrors
<1>1. TypeInv /\ StreamInv /\ StructInv => RightfulErrors
  BY DEF RightfulErrors, StructInv
<1> QED BY <1>1, StructInvCorrect, PTL

(* Where no structure is open and no error is under way the control stacks *)
(* are empty, whatever definition, line or stream ended or was given up    *)
(* before.                                                                 *)
THEOREM NoLeftoversCorrect ==
  ASSUME KeepsStructures
  PROVE  Spec => []NoLeftovers
<1>1. ASSUME TypeInv, StreamInv, StructInv PROVE NoLeftovers
  <2>1. result = "none" => FitsNow
    BY <1>1 DEF StructInv, StructOk, Fine
  <2>2. ctl \in [Stacks -> Seq(Int)]
    BY <1>1, Facts DEF TypeInv
  <2>3. result = "none" /\ nest = <<>> => Cleared(ctl)
    BY <2>1, <2>2, NothingOpen DEF FitsNow
  <2> QED BY <2>3 DEF NoLeftovers, Cleared
<1>2. TypeInv /\ StreamInv /\ StructInv => NoLeftovers
  BY <1>1
<1> QED BY <1>2, StructInvCorrect, PTL

===============================================================================
