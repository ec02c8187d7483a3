---------------------------- MODULE DictionaryProofs ----------------------------
(***************************************************************************)
(* Theorems about Dictionary, for every set of names and of commands and   *)
(* for every bound: words, wordlists, length of the order, of a word and   *)
(* of the line.                                                            *)
(*                                                                         *)
(* They hold of programs that keep the rules of usage.  "marks follow      *)
(* their word" is needed by MarksHit alone.                                *)
(***************************************************************************)
EXTENDS Dictionary, SequenceTheorems, WellFoundedInduction, TLAPS

KeepsRules == Misuses \subseteq {"marks follow their word"}

-----------------------------------------------------------------------------
(* The inductive invariant.  The predicates below are of a dictionary s,   *)
(* of its words ws, and of the number n of its wordlists.                  *)

(* What may wait for the end of the line, and what may be compiled.        *)
Deferrable == Marks \cup {"compile-name"}
Compilable == {"ALSO", "ONLY", "FORTH", "DEFINITIONS", "VARIABLE", "vocabulary", "DOES>"}
                \cup Deferrable
CommandOps == Nondeferred \cup Compilable

AnyName == Names \cup {""}

CommandType == [op : CommandOps, wids : Seq(Nat), id : Nat]
EntryType ==
  [name : AnyName, code : Seq(CommandType), does : Seq(CommandType),
   refs : SUBSET Nat, home : Nat,
   immediate : BOOLEAN, nondeferred : BOOLEAN, freed : BOOLEAN]
DictionaryType ==
  [words : Seq(EntryType), lists : Seq(Seq(Nat)), dict : Seq(Nat), order : Seq(Nat),
   current : Nat, new : Nat, newest : Nat, missed : BOOLEAN]

AllIn(code, ops) == \A i \in 1 .. Len(code) : code[i].op \in ops
Lacks(code, op)  == \A i \in 1 .. Len(code) : code[i].op # op

(* What FORGET and COLD may not leave behind, and what changes the order   *)
(* at its front alone: a vocabulary's command is all of its word.  DOES>   *)
(* ends a word, after the command that makes the word it is for.           *)
CodeOk(code) ==
  /\ AllIn(code, Compilable)
  /\ Lacks(code, "vocabulary") \/ Len(code) = 1
  /\ \A i \in 1 .. Len(code) :
       code[i].op = "DOES>" => i = Len(code) /\ i > 1 /\ code[i - 1].op = "VARIABLE"

(* What a command c of the entry e, which is word k, points to: e refers   *)
(* to it, and to all that it refers to.                                    *)
Points(ws, n, e, k, c) ==
  /\ c.op = "vocabulary" => c.wids # <<>> /\ c.wids[1] \in 1 .. n
  /\ c.op = "compile-name" => c.id \in e.refs /\ AllIn(ws[c.id].code, Deferrable)
  /\ c.op = "DOES>" => c.id = k \/ c.id \in e.refs
  /\ c.op \in {"compile-name", "DOES>"} => ws[c.id].refs \subseteq e.refs

EntryOk(ws, n, e, k) ==
  /\ e.refs \subseteq 1 .. Len(ws)
  /\ CodeOk(e.code) /\ AllIn(e.does, Deferrable)
  /\ e.nondeferred \/ AllIn(e.code, Deferrable)
  /\ \A i \in 1 .. Len(e.code) : Points(ws, n, e, k, e.code[i])
  /\ \A i \in 1 .. Len(e.does) : Points(ws, n, e, k, e.does[i])

WordsOk(ws, n) == \A k \in 1 .. Len(ws) : EntryOk(ws, n, ws[k], k)

(* The entry at i of the list of wordlist w.                               *)
PlaceOk(ws, list, w, i) ==
  /\ list[i] \in 1 .. Len(ws)
  /\ ws[list[i]].home = w /\ ~ws[list[i]].freed
  /\ \A j \in 1 .. Len(list) : list[j] = list[i] => j = i
  /\ \A r \in ws[list[i]].refs : ws[r].home = w => \E j \in 1 .. i - 1 : list[j] = r
  /\ w = Root => Lacks(ws[list[i]].code, "vocabulary")

ListOk(ws, list, w) == \A i \in 1 .. Len(list) : PlaceOk(ws, list, w, i)
ListsOk(ws, lists) == \A w \in 1 .. Len(lists) : ListOk(ws, lists[w], w)

(* The order ends in Root.                                                 *)
OrderIs(order, n) ==
  /\ order \in Seq(Nat) /\ Len(order) > 0 /\ order[Len(order)] = Root
  /\ \A i \in 1 .. Len(order) : order[i] \in 1 .. n

Good(s) ==
  /\ s \in DictionaryType
  /\ WordsOk(s.words, Len(s.lists)) /\ ListsOk(s.words, s.lists)
  /\ OrderIs(s.order, Len(s.lists))
  /\ Len(s.lists) >= 3 /\ s.current \in 1 .. Len(s.lists)
  /\ \A i \in 1 .. Len(s.dict) : s.dict[i] \in 1 .. Len(s.lists)

In(lists, id) == \E w \in 1 .. Len(lists) : \E i \in 1 .. Len(lists[w]) : lists[w][i] = id

(* The word of a definition in progress: no wordlist has it, no word       *)
(* refers to it, and what it refers to is in the wordlists.                *)
Pending(s) ==
  /\ s.new \in 1 .. Len(s.words) /\ ~In(s.lists, s.new)
  /\ ~s.words[s.new].freed
  /\ \A r \in s.words[s.new].refs : In(s.lists, r)
  /\ Lacks(s.words[s.new].code, "vocabulary")
  /\ \A k \in 1 .. Len(s.words) : s.new \notin s.words[k].refs

DictInv ==
  /\ Good(Here)
  /\ State \in {"interpret", "brackets", "compile"}
  /\ State # "interpret" => Pending(Here)
  /\ pCompilationWL # Root
  /\ line \in Seq(CommandType) /\ AllIn(line, Marks)

-----------------------------------------------------------------------------
(* Sequences *)

(* The elements of a sequence are in its set.                              *)
LEMMA Elements ==
  ASSUME NEW S, NEW q \in Seq(S)
  PROVE  /\ Len(q) \in Nat /\ DOMAIN q = 1 .. Len(q)
         /\ \A i \in 1 .. Len(q) : q[i] \in S
  BY ElementOfSeq, LenProperties

(* One more element.                                                       *)
LEMMA Appended ==
  ASSUME NEW S, NEW q \in Seq(S), NEW x \in S
  PROVE  /\ Append(q, x) \in Seq(S) /\ Len(Append(q, x)) = Len(q) + 1
         /\ \A i \in 1 .. Len(q) : Append(q, x)[i] = q[i]
         /\ Append(q, x)[Len(q) + 1] = x
  BY AppendProperties

(* Two sequences joined.                                                   *)
LEMMA Joined ==
  ASSUME NEW S, NEW p \in Seq(S), NEW q \in Seq(S)
  PROVE  /\ p \o q \in Seq(S) /\ Len(p \o q) = Len(p) + Len(q)
         /\ \A i \in 1 .. Len(p) : (p \o q)[i] = p[i]
         /\ \A i \in 1 .. Len(q) : (p \o q)[Len(p) + i] = q[i]
         /\ \A i \in 1 .. Len(p \o q) :
              \/ i \in 1 .. Len(p) /\ (p \o q)[i] = p[i]
              \/ i - Len(p) \in 1 .. Len(q) /\ (p \o q)[i] = q[i - Len(p)]
<1>1. /\ p \o q \in Seq(S) /\ Len(p \o q) = Len(p) + Len(q)
      /\ \A i \in 1 .. Len(p) + Len(q) : (p \o q)[i] = IF i <= Len(p) THEN p[i] ELSE q[i - Len(p)]
  BY ConcatProperties
<1>2. Len(p) \in Nat /\ Len(q) \in Nat
  BY LenProperties
<1>3. \A i \in 1 .. Len(p) : i \in 1 .. Len(p) + Len(q) /\ i <= Len(p)
  BY <1>2
<1>4. \A i \in 1 .. Len(q) : Len(p) + i \in 1 .. Len(p) + Len(q) /\ ~(Len(p) + i <= Len(p))
                             /\ Len(p) + i - Len(p) = i
  BY <1>2
<1>5. \A i \in 1 .. Len(p) + Len(q) :
        \/ i \in 1 .. Len(p) /\ i <= Len(p)
        \/ i - Len(p) \in 1 .. Len(q) /\ ~(i <= Len(p))
  BY <1>2
<1> QED BY <1>1, <1>3, <1>4, <1>5

LEMMA FunctionIsSeq ==
  ASSUME NEW S, NEW n \in Nat, NEW f \in [1 .. n -> S]
  PROVE  f \in Seq(S) /\ Len(f) = n /\ DOMAIN f = 1 .. n
<1>1. f \in Seq(S)
  BY SeqDef
<1> QED BY <1>1, LenProperties

(* The commands of two sequences.                                          *)
LEMMA JoinedOps ==
  ASSUME NEW S, NEW p \in Seq(S), NEW q \in Seq(S), NEW ops, NEW op
  PROVE  /\ AllIn(p, ops) /\ AllIn(q, ops) => AllIn(p \o q, ops)
         /\ Lacks(p, op) /\ Lacks(q, op) => Lacks(p \o q, op)
<1>1. \A i \in 1 .. Len(p \o q) :
        \/ i \in 1 .. Len(p) /\ (p \o q)[i] = p[i]
        \/ i - Len(p) \in 1 .. Len(q) /\ (p \o q)[i] = q[i - Len(p)]
  BY Joined
<1> QED BY <1>1 DEF AllIn, Lacks

-----------------------------------------------------------------------------
(* Entries *)

LEMMA NoCode == <<>> \in Seq(CommandType) /\ <<>> \in Seq(Nat) /\ Len(<<>>) = 0
  BY EmptySeq

LEMMA CommandTyped ==
  ASSUME NEW op \in CommandOps
  PROVE  /\ Command(op) \in CommandType /\ Command(op).op = op /\ Command(op).id = NoWord
         /\ \A id \in Nat : /\ [Command(op) EXCEPT !.id = id] \in CommandType
                            /\ [Command(op) EXCEPT !.id = id].op = op
                            /\ [Command(op) EXCEPT !.id = id].id = id
         /\ \A wids \in Seq(Nat) : /\ WithWids(op, wids) \in CommandType
                                   /\ WithWids(op, wids).op = op
                                   /\ WithWids(op, wids).wids = wids
<1>1. <<>> \in Seq(Nat)
  BY NoCode
<1> QED BY <1>1 DEF Command, WithWids, CommandType, NoWord

LEMMA NamesAny == "" \in AnyName /\ Names \subseteq AnyName
  BY DEF AnyName

LEMMA EntryTyped ==
  ASSUME NEW name \in AnyName
  PROVE  /\ Entry(name) \in EntryType
         /\ Entry(name).code = <<>> /\ Entry(name).does = <<>> /\ Entry(name).refs = {}
         /\ Entry(name).home = 0 /\ Entry(name).freed = FALSE /\ Entry(name).nondeferred = FALSE
<1>1. <<>> \in Seq(CommandType)
  BY NoCode
<1> QED BY <1>1 DEF Entry, EntryType

LEMMA FreedTyped ==
  ASSUME NEW e \in EntryType
  PROVE  /\ Freed(e) \in EntryType
         /\ Freed(e).code = <<>> /\ Freed(e).does = <<>> /\ Freed(e).refs = {}
         /\ Freed(e).home = e.home /\ Freed(e).freed = TRUE
<1> DEFINE f == Entry("")
<1>1. /\ f \in EntryType /\ f.code = <<>> /\ f.does = <<>> /\ f.refs = {}
  BY EntryTyped, NamesAny
<1>2. e.home \in Nat
  BY DEF EntryType
<1> HIDE DEF f
<1>3. [f EXCEPT !.freed = TRUE, !.home = e.home] \in EntryType
  BY <1>1, <1>2 DEF EntryType
<1> QED BY <1>1, <1>2, <1>3 DEF Freed, f, EntryType

(* An entry without code points to nothing.                                *)
LEMMA EmptyOk ==
  ASSUME NEW ws, NEW n, NEW e, NEW k, e.code = <<>>, e.does = <<>>, e.refs = {}
  PROVE  EntryOk(ws, n, e, k)
<1>1. Len(<<>>) = 0
  BY NoCode
<1>2. \A i \in 1 .. 0 : FALSE
  OBVIOUS
<1> QED BY <1>1, <1>2 DEF EntryOk, CodeOk, AllIn, Lacks

(* What a command points to is as it was, or less.                         *)
Less(ws, vs, j) ==
  /\ vs[j].refs \subseteq ws[j].refs
  /\ AllIn(ws[j].code, Deferrable) => AllIn(vs[j].code, Deferrable)

LEMMA PointsStay ==
  ASSUME NEW ws, NEW vs, NEW n \in Nat, NEW m \in Nat, n <= m, NEW e, NEW f, NEW k, NEW c,
         Points(ws, n, e, k, c), e.refs \subseteq f.refs,
         \A j \in e.refs : Less(ws, vs, j), vs[k].refs \subseteq f.refs
  PROVE  Points(vs, m, f, k, c)
<1>1. c.op = "vocabulary" => c.wids # <<>> /\ c.wids[1] \in 1 .. m
  BY DEF Points
<1>2. c.op = "compile-name" => c.id \in f.refs /\ AllIn(vs[c.id].code, Deferrable)
  BY DEF Points, Less
<1>3. c.op = "DOES>" => c.id = k \/ c.id \in f.refs
  BY DEF Points
<1>4. c.op \in {"compile-name", "DOES>"} => vs[c.id].refs \subseteq f.refs
  <2>1. c.op \in {"compile-name", "DOES>"} =>
          c.id = k \/ (c.id \in e.refs /\ ws[c.id].refs \subseteq e.refs)
    BY DEF Points
  <2> QED BY <2>1 DEF Less
<1> QED BY <1>1, <1>2, <1>3, <1>4 DEF Points

(* An entry that keeps its code stays in order.                            *)
LEMMA EntryStays ==
  ASSUME NEW ws, NEW vs, NEW n \in Nat, NEW m \in Nat, n <= m, NEW e, NEW f, NEW k,
         EntryOk(ws, n, e, k), Len(ws) \in Nat, Len(vs) \in Nat, Len(ws) <= Len(vs),
         f.code = e.code, f.does = e.does, f.refs = e.refs, e.nondeferred => f.nondeferred,
         \A j \in e.refs : Less(ws, vs, j), vs[k].refs \subseteq f.refs
  PROVE  EntryOk(vs, m, f, k)
<1>1. \A i \in 1 .. Len(e.code) : Points(vs, m, f, k, e.code[i])
  BY PointsStay DEF EntryOk
<1>2. \A i \in 1 .. Len(e.does) : Points(vs, m, f, k, e.does[i])
  BY PointsStay DEF EntryOk
<1>3. f.refs \subseteq 1 .. Len(vs)
  BY DEF EntryOk
<1>4. CodeOk(f.code) /\ AllIn(f.does, Deferrable) /\ (f.nondeferred \/ AllIn(f.code, Deferrable))
  BY DEF EntryOk
<1> QED BY <1>1, <1>2, <1>3, <1>4 DEF EntryOk

(* A wordlist whose words keep their code and their place.                 *)
LEMMA ListStays ==
  ASSUME NEW ws, NEW vs, NEW list, NEW w, ListOk(ws, list, w),
         Len(ws) \in Nat, Len(vs) \in Nat, Len(ws) <= Len(vs),
         \A i \in 1 .. Len(list) :
           /\ vs[list[i]].home = ws[list[i]].home /\ vs[list[i]].freed = ws[list[i]].freed
           /\ vs[list[i]].refs = ws[list[i]].refs /\ vs[list[i]].code = ws[list[i]].code
           /\ \A r \in ws[list[i]].refs : vs[r].home = ws[r].home
  PROVE  ListOk(vs, list, w)
<1> SUFFICES ASSUME NEW i \in 1 .. Len(list)
             PROVE  PlaceOk(vs, list, w, i)
  BY DEF ListOk
<1>1. PlaceOk(ws, list, w, i)
  BY DEF ListOk
<1>2. list[i] \in 1 .. Len(vs)
  BY <1>1 DEF PlaceOk
<1>3. vs[list[i]].home = w /\ ~vs[list[i]].freed
  BY <1>1 DEF PlaceOk
<1>4. \A r \in vs[list[i]].refs : vs[r].home = w => \E j \in 1 .. i - 1 : list[j] = r
  BY <1>1, SMTT(30) DEF PlaceOk
<1>5. w = Root => Lacks(vs[list[i]].code, "vocabulary")
  BY <1>1 DEF PlaceOk
<1> QED BY <1>1, <1>2, <1>3, <1>4, <1>5 DEF PlaceOk

-----------------------------------------------------------------------------
(* Dictionaries *)

(* The types of what a dictionary holds.                                   *)
LEMMA Facts ==
  ASSUME NEW s \in DictionaryType
  PROVE  /\ s.words \in Seq(EntryType) /\ Len(s.words) \in Nat /\ DOMAIN s.words = 1 .. Len(s.words)
         /\ s.lists \in Seq(Seq(Nat)) /\ Len(s.lists) \in Nat /\ DOMAIN s.lists = 1 .. Len(s.lists)
         /\ s.dict \in Seq(Nat) /\ s.order \in Seq(Nat)
         /\ Len(s.dict) \in Nat /\ Len(s.order) \in Nat
         /\ s.current \in Nat /\ s.new \in Nat /\ s.newest \in Nat /\ s.missed \in BOOLEAN
         /\ \A k \in 1 .. Len(s.words) :
              /\ s.words[k] \in EntryType
              /\ s.words[k].code \in Seq(CommandType) /\ s.words[k].does \in Seq(CommandType)
              /\ s.words[k].refs \subseteq Nat /\ s.words[k].home \in Nat
         /\ \A w \in 1 .. Len(s.lists) :
              /\ s.lists[w] \in Seq(Nat) /\ Len(s.lists[w]) \in Nat
              /\ DOMAIN s.lists[w] = 1 .. Len(s.lists[w])
<1>1. /\ s.words \in Seq(EntryType) /\ s.lists \in Seq(Seq(Nat)) /\ s.dict \in Seq(Nat)
      /\ s.order \in Seq(Nat) /\ s.current \in Nat /\ s.new \in Nat /\ s.newest \in Nat
      /\ s.missed \in BOOLEAN
  BY DEF DictionaryType
<1>2. /\ Len(s.words) \in Nat /\ DOMAIN s.words = 1 .. Len(s.words)
      /\ \A k \in 1 .. Len(s.words) : s.words[k] \in EntryType
  BY ONLY <1>1, Elements
<1>3. /\ Len(s.lists) \in Nat /\ DOMAIN s.lists = 1 .. Len(s.lists)
      /\ \A w \in 1 .. Len(s.lists) : s.lists[w] \in Seq(Nat)
  BY ONLY <1>1, Elements
<1>4. Len(s.dict) \in Nat /\ Len(s.order) \in Nat
  BY ONLY <1>1, Elements
<1>5. \A k \in 1 .. Len(s.words) :
         /\ s.words[k].code \in Seq(CommandType) /\ s.words[k].does \in Seq(CommandType)
         /\ s.words[k].refs \subseteq Nat /\ s.words[k].home \in Nat
  BY <1>2 DEF EntryType
<1>6. \A w \in 1 .. Len(s.lists) : Len(s.lists[w]) \in Nat /\ DOMAIN s.lists[w] = 1 .. Len(s.lists[w])
  BY ONLY <1>3, Elements
<1> QED BY <1>1, <1>2, <1>3, <1>4, <1>5, <1>6

(* Orders that end in Root.                                                *)
LEMMA OrderAlso ==
  ASSUME NEW n \in Nat, NEW o, OrderIs(o, n)
  PROVE  OrderIs(<<Head(o)>> \o o, n)
<1>1. o \in Seq(Nat) /\ Len(o) \in Nat /\ Len(o) > 0 /\ o[Len(o)] = Root
      /\ \A i \in 1 .. Len(o) : o[i] \in 1 .. n
  BY LenProperties DEF OrderIs
<1>2. Head(o) = o[1] /\ 1 \in 1 .. Len(o)
  BY <1>1
<1>3. <<Head(o)>> \in Seq(Nat) /\ Len(<<Head(o)>>) = 1 /\ <<Head(o)>>[1] = Head(o)
  BY <1>1, <1>2
<1> DEFINE h == <<Head(o)>>
           q == h \o o
<1> HIDE DEF h
<1>4. /\ q \in Seq(Nat) /\ Len(q) = 1 + Len(o)
      /\ \A i \in 1 .. Len(o) : q[1 + i] = o[i]
      /\ \A i \in 1 .. Len(q) :
           \/ i \in 1 .. 1 /\ q[i] = h[i]
           \/ i - 1 \in 1 .. Len(o) /\ q[i] = o[i - 1]
  BY <1>1, <1>3, Joined DEF h
<1> HIDE DEF q
<1>a. \A i \in 1 .. 1 : h[i] \in 1 .. n
  <2>1. h[1] = o[1]
    BY <1>2, <1>3 DEF h
  <2> QED BY <1>1, <1>2, <2>1
<1>5. \A i \in 1 .. Len(q) : q[i] \in 1 .. n
  BY <1>1, <1>4, <1>a
<1>6. Len(o) \in 1 .. Len(o) /\ Len(q) > 0
  BY <1>1, <1>4
<1>7. q[Len(q)] = Root
  BY <1>1, <1>4, <1>6
<1> QED BY <1>4, <1>5, <1>6, <1>7 DEF OrderIs, q, h

LEMMA OrderOnly ==
  ASSUME NEW n \in Nat, n >= 3
  PROVE  OrderIs(<<Root>>, n)
<1>1. <<Root>> \in Seq(Nat) /\ Len(<<Root>>) = 1 /\ <<Root>>[1] = Root
  BY DEF Root
<1>2. \A i \in 1 .. 1 : i = 1
  OBVIOUS
<1>3. Root \in 1 .. n
  BY DEF Root
<1> QED BY <1>1, <1>2, <1>3 DEF OrderIs

LEMMA OrderFront ==
  ASSUME NEW n \in Nat, NEW o, OrderIs(o, n), Len(o) >= 2, NEW w \in 1 .. n
  PROVE  OrderIs([o EXCEPT ![1] = w], n)
<1>1. o \in Seq(Nat) /\ Len(o) \in Nat /\ Len(o) > 0 /\ o[Len(o)] = Root /\ w \in Nat
      /\ \A i \in 1 .. Len(o) : o[i] \in 1 .. n
  BY LenProperties DEF OrderIs
<1> DEFINE q == [o EXCEPT ![1] = w]
<1>2. /\ q \in Seq(Nat) /\ Len(q) = Len(o)
      /\ \A i \in 1 .. Len(o) : q[i] = IF i = 1 THEN w ELSE o[i]
  BY <1>1, ExceptSeq
<1>3. Len(o) \in 1 .. Len(o) /\ Len(o) # 1
  BY <1>1
<1> HIDE DEF q
<1>4. \A i \in 1 .. Len(q) : q[i] \in 1 .. n
  BY <1>1, <1>2
<1>5. q[Len(q)] = Root
  BY <1>1, <1>2, <1>3
<1> QED BY <1>1, <1>2, <1>4, <1>5 DEF OrderIs, q

LEMMA OrderTail ==
  ASSUME NEW n \in Nat, NEW o, OrderIs(o, n), Len(o) >= 2
  PROVE  OrderIs(Tail(o), n)
<1>1. o \in Seq(Nat) /\ Len(o) \in Nat /\ o # <<>> /\ o[Len(o)] = Root
      /\ \A i \in 1 .. Len(o) : o[i] \in 1 .. n
  BY LenProperties, EmptySeq DEF OrderIs
<1>2. /\ Tail(o) \in Seq(Nat) /\ Len(Tail(o)) = Len(o) - 1
      /\ \A i \in 1 .. Len(o) - 1 : Tail(o)[i] = o[i + 1]
  BY <1>1, HeadTailProperties
<1>3. \A i \in 1 .. Len(o) - 1 : i + 1 \in 1 .. Len(o)
  BY <1>1
<1>4. Len(o) - 1 \in 1 .. Len(o) - 1 /\ Len(o) - 1 + 1 = Len(o)
  BY <1>1
<1> QED BY <1>1, <1>2, <1>3, <1>4 DEF OrderIs

LEMMA OrderCold ==
  ASSUME NEW n \in Nat, n >= 3, NEW o, OrderIs(o, n)
  PROVE  OrderIs(o \o <<Forth, Root>>, n)
<1>1. o \in Seq(Nat) /\ Len(o) \in Nat /\ \A i \in 1 .. Len(o) : o[i] \in 1 .. n
  BY LenProperties DEF OrderIs
<1> DEFINE r == <<Forth, Root>>
           q == o \o r
<1>2. r \in Seq(Nat) /\ Len(r) = 2 /\ r[1] = Forth /\ r[2] = Root
  BY DEF Root, Forth
<1>3. Forth \in 1 .. n /\ Root \in 1 .. n /\ \A i \in 1 .. 2 : i = 1 \/ i = 2
  BY DEF Root, Forth
<1> HIDE DEF r
<1>4. /\ q \in Seq(Nat) /\ Len(q) = Len(o) + Len(r)
      /\ \A i \in 1 .. Len(r) : q[Len(o) + i] = r[i]
      /\ \A i \in 1 .. Len(q) :
           \/ i \in 1 .. Len(o) /\ q[i] = o[i]
           \/ i - Len(o) \in 1 .. Len(r) /\ q[i] = r[i - Len(o)]
  <2>1. o \in Seq(Nat) /\ r \in Seq(Nat)
    BY <1>1, <1>2
  <2> QED BY ONLY <2>1, Joined
<1> HIDE DEF q
<1>5. \A i \in 1 .. Len(q) : q[i] \in 1 .. n
  BY <1>1, <1>2, <1>3, <1>4
<1>6. q[Len(q)] = Root /\ Len(q) > 0
  BY <1>1, <1>2, <1>4
<1>7. OrderIs(q, n)
  BY <1>4, <1>5, <1>6 DEF OrderIs
<1> QED BY <1>7 DEF q, r

-----------------------------------------------------------------------------
(* Changes of words *)

(* Every word keeps its code.                                              *)
SameCode(ws, vs) ==
  /\ Len(vs) = Len(ws)
  /\ \A k \in 1 .. Len(ws) :
       /\ vs[k].code = ws[k].code /\ vs[k].does = ws[k].does /\ vs[k].refs = ws[k].refs
       /\ ws[k].nondeferred => vs[k].nondeferred

(* And its place.                                                          *)
SamePlace(ws, vs) ==
  \A k \in 1 .. Len(ws) : vs[k].home = ws[k].home /\ vs[k].freed = ws[k].freed

LEMMA SameCodeOk ==
  ASSUME NEW ws, NEW vs, NEW n \in Nat, NEW m \in Nat, n <= m, Len(ws) \in Nat,
         SameCode(ws, vs), WordsOk(ws, n)
  PROVE  WordsOk(vs, m)
<1> SUFFICES ASSUME NEW k \in 1 .. Len(vs)
             PROVE  EntryOk(vs, m, vs[k], k)
  BY DEF WordsOk
<1>1. EntryOk(ws, n, ws[k], k) /\ Len(vs) = Len(ws)
  BY DEF WordsOk, SameCode
<1>2. \A j \in ws[k].refs : Less(ws, vs, j)
  BY <1>1 DEF EntryOk, Less, SameCode
<1>3. /\ vs[k].code = ws[k].code /\ vs[k].does = ws[k].does /\ vs[k].refs = ws[k].refs
      /\ ws[k].nondeferred => vs[k].nondeferred
  BY <1>1 DEF SameCode
<1>4. vs[k].refs \subseteq vs[k].refs /\ Len(vs) \in Nat /\ Len(ws) <= Len(vs)
  BY <1>1
<1> QED BY <1>1, <1>2, <1>3, <1>4, EntryStays

LEMMA SamePlaceOk ==
  ASSUME NEW ws, NEW vs, NEW n, NEW lists, Len(ws) \in Nat,
         SameCode(ws, vs), SamePlace(ws, vs), WordsOk(ws, n), ListsOk(ws, lists)
  PROVE  ListsOk(vs, lists)
<1> SUFFICES ASSUME NEW w \in 1 .. Len(lists)
             PROVE  ListOk(vs, lists[w], w)
  BY DEF ListsOk
<1> DEFINE list == lists[w]
<1>1. ListOk(ws, list, w)
  BY DEF ListsOk
<1>2. \A i \in 1 .. Len(list) : list[i] \in 1 .. Len(ws)
  BY <1>1 DEF ListOk, PlaceOk
<1>3. \A i \in 1 .. Len(list) : ws[list[i]].refs \subseteq 1 .. Len(ws)
  BY <1>2 DEF WordsOk, EntryOk
<1>4. \A i \in 1 .. Len(list) :
        /\ vs[list[i]].home = ws[list[i]].home /\ vs[list[i]].freed = ws[list[i]].freed
        /\ vs[list[i]].refs = ws[list[i]].refs /\ vs[list[i]].code = ws[list[i]].code
        /\ \A r \in ws[list[i]].refs : vs[r].home = ws[r].home
  BY <1>2, <1>3 DEF SameCode, SamePlace
<1>5. Len(vs) \in Nat /\ Len(ws) <= Len(vs)
  BY DEF SameCode
<1> HIDE DEF list
<1>6. ListOk(vs, list, w)
  BY <1>1, <1>4, <1>5, ListStays
<1> QED BY <1>6 DEF list

(* One more word.                                                          *)
LEMMA NewWordOk ==
  ASSUME NEW ws \in Seq(EntryType), NEW e \in EntryType, NEW n \in Nat, NEW lists,
         WordsOk(ws, n), ListsOk(ws, lists), EntryOk(Append(ws, e), n, e, Len(ws) + 1)
  PROVE  LET vs == Append(ws, e)
             k  == Len(ws) + 1
         IN  /\ WordsOk(vs, n) /\ ListsOk(vs, lists)
             /\ vs \in Seq(EntryType) /\ Len(vs) = k /\ k \in 1 .. Len(vs) /\ vs[k] = e
             /\ \A j \in 1 .. Len(ws) : vs[j] = ws[j]
             /\ ~In(lists, k)
             /\ \A j \in 1 .. Len(ws) : k \notin ws[j].refs
<1> DEFINE vs == Append(ws, e)
           k  == Len(ws) + 1
<1>1. /\ vs \in Seq(EntryType) /\ Len(vs) = k /\ vs[k] = e
      /\ \A j \in 1 .. Len(ws) : vs[j] = ws[j]
  BY Appended
<1>2. Len(ws) \in Nat /\ k \in Nat /\ k \in 1 .. k /\ k \notin 1 .. Len(ws)
      /\ \A j \in 1 .. k : j \in 1 .. Len(ws) \/ j = k
  BY LenProperties
<1> HIDE DEF vs
<1>3. \A j \in 1 .. Len(ws) : ws[j].refs \subseteq 1 .. Len(ws)
  BY DEF WordsOk, EntryOk
<1>4. WordsOk(vs, n)
  <2> SUFFICES ASSUME NEW j \in 1 .. k
               PROVE  EntryOk(vs, n, vs[j], j)
    BY <1>1 DEF WordsOk
  <2>1. CASE j = k
    BY <1>1, <2>1 DEF vs
  <2>2. CASE j \in 1 .. Len(ws)
    <3>1. EntryOk(ws, n, ws[j], j) /\ vs[j] = ws[j]
      BY <1>1, <2>2 DEF WordsOk
    <3>2. \A i \in ws[j].refs : Less(ws, vs, i)
      BY <1>1, <1>3, <2>2 DEF Less
    <3>3. n <= n /\ Len(vs) \in Nat /\ Len(ws) <= Len(vs) /\ vs[j].refs \subseteq vs[j].refs
      BY <1>1, <1>2
    <3> QED BY <1>2, <3>1, <3>2, <3>3, EntryStays
  <2> QED BY <1>2, <2>1, <2>2
<1>5. ListsOk(vs, lists)
  <2> SUFFICES ASSUME NEW w \in 1 .. Len(lists)
               PROVE  ListOk(vs, lists[w], w)
    BY DEF ListsOk
  <2> DEFINE list == lists[w]
  <2>1. ListOk(ws, list, w)
    BY DEF ListsOk
  <2>2. \A i \in 1 .. Len(list) : list[i] \in 1 .. Len(ws)
    BY <2>1 DEF ListOk, PlaceOk
  <2>3. \A i \in 1 .. Len(list) :
          /\ vs[list[i]].home = ws[list[i]].home /\ vs[list[i]].freed = ws[list[i]].freed
          /\ vs[list[i]].refs = ws[list[i]].refs /\ vs[list[i]].code = ws[list[i]].code
          /\ \A r \in ws[list[i]].refs : vs[r].home = ws[r].home
    BY <1>1, <1>3, <2>2
  <2>4. Len(vs) \in Nat /\ Len(ws) <= Len(vs)
    BY <1>1, <1>2
  <2> HIDE DEF list
  <2>5. ListOk(vs, list, w)
    BY <1>2, <2>1, <2>3, <2>4, ListStays
  <2> QED BY <2>5 DEF list
<1>6. ~In(lists, k)
  BY <1>2 DEF In, ListsOk, ListOk, PlaceOk
<1> QED BY <1>1, <1>2, <1>3, <1>4, <1>5, <1>6 DEF vs

(* A word that no other refers to gets another code.                       *)
LEMMA ReplacedOk ==
  ASSUME NEW ws, NEW vs, NEW n \in Nat, NEW k \in 1 .. Len(ws), Len(ws) \in Nat,
         Len(vs) = Len(ws), \A j \in 1 .. Len(ws) : j # k => vs[j] = ws[j],
         \A j \in 1 .. Len(ws) : k \notin ws[j].refs,
         WordsOk(ws, n), EntryOk(vs, n, vs[k], k)
  PROVE  WordsOk(vs, n)
<1> SUFFICES ASSUME NEW j \in 1 .. Len(ws), j # k
             PROVE  EntryOk(vs, n, vs[j], j)
  BY DEF WordsOk
<1>1. EntryOk(ws, n, ws[j], j) /\ vs[j] = ws[j]
  BY DEF WordsOk
<1>2. \A i \in ws[j].refs : i \in 1 .. Len(ws) /\ i # k
  BY <1>1 DEF EntryOk
<1>3. \A i \in ws[j].refs : Less(ws, vs, i)
  BY <1>2 DEF Less
<1>4. n <= n /\ Len(vs) \in Nat /\ Len(ws) <= Len(vs) /\ vs[j].refs \subseteq vs[j].refs
  OBVIOUS
<1> QED BY <1>1, <1>3, <1>4, EntryStays

(* The lists that do not have it stay in order.                            *)
LEMMA OthersOk ==
  ASSUME NEW ws, NEW vs, NEW n, NEW k, NEW list, NEW w, Len(ws) \in Nat, Len(vs) = Len(ws),
         \A j \in 1 .. Len(ws) : j # k => vs[j] = ws[j],
         \A j \in 1 .. Len(ws) : k \notin ws[j].refs,
         WordsOk(ws, n), ListOk(ws, list, w), \A i \in 1 .. Len(list) : list[i] # k
  PROVE  ListOk(vs, list, w)
<1>1. \A i \in 1 .. Len(list) : list[i] \in 1 .. Len(ws) /\ list[i] # k
  BY DEF ListOk, PlaceOk
<1>2. \A i \in 1 .. Len(list) :
        \A r \in ws[list[i]].refs : r \in 1 .. Len(ws) /\ r # k
  BY <1>1 DEF WordsOk, EntryOk
<1>3. \A i \in 1 .. Len(list) :
          /\ vs[list[i]].home = ws[list[i]].home /\ vs[list[i]].freed = ws[list[i]].freed
          /\ vs[list[i]].refs = ws[list[i]].refs /\ vs[list[i]].code = ws[list[i]].code
          /\ \A r \in ws[list[i]].refs : vs[r].home = ws[r].home
  BY <1>1, <1>2
<1>4. Len(vs) \in Nat /\ Len(ws) <= Len(vs)
  OBVIOUS
<1> QED BY <1>3, <1>4, ListStays

-----------------------------------------------------------------------------
(* Changes of wordlists *)

LEMMA ListAppend ==
  ASSUME NEW ws, NEW list \in Seq(Nat), NEW w, NEW id \in 1 .. Len(ws), id \in Nat,
         ListOk(ws, list, w), ws[id].home = w, ~ws[id].freed,
         \A i \in 1 .. Len(list) : list[i] # id,
         \A r \in ws[id].refs : ws[r].home = w => \E j \in 1 .. Len(list) : list[j] = r,
         w = Root => Lacks(ws[id].code, "vocabulary")
  PROVE  ListOk(ws, Append(list, id), w)
<1> DEFINE new == Append(list, id)
           n == Len(list)
<1>1. /\ Len(new) = n + 1 /\ new[n + 1] = id
      /\ \A i \in 1 .. n : new[i] = list[i]
  BY Appended
<1>2. n \in Nat /\ n + 1 - 1 = n
  BY LenProperties
<1>3. \A i \in 1 .. n + 1 : i \in 1 .. n \/ i = n + 1
  BY <1>2
<1> HIDE DEF new
<1> SUFFICES ASSUME NEW i \in 1 .. n + 1
             PROVE  PlaceOk(ws, new, w, i)
  BY <1>1 DEF ListOk, new
<1>4. CASE i \in 1 .. n
  <2>1. PlaceOk(ws, list, w, i) /\ new[i] = list[i]
    BY <1>1, <1>4 DEF ListOk
  <2>2. \A j \in 1 .. n + 1 : new[j] = new[i] => j = i
    BY <1>1, <1>3, <1>4, <2>1 DEF PlaceOk
  <2>3. \A j \in 1 .. i - 1 : j \in 1 .. n /\ new[j] = list[j]
    BY <1>1, <1>2, <1>4
  <2>4. \A r \in ws[new[i]].refs : ws[r].home = w => \E j \in 1 .. i - 1 : new[j] = r
    BY <2>1, <2>3, SMTT(30) DEF PlaceOk
  <2> QED BY <1>1, <2>1, <2>2, <2>4 DEF PlaceOk
<1>5. CASE i = n + 1
  <2>1. new[i] = id
    BY <1>1, <1>5
  <2>2. \A j \in 1 .. n + 1 : new[j] = new[i] => j = i
    BY <1>1, <1>3, <1>5
  <2>3. \A r \in ws[id].refs : ws[r].home = w => \E j \in 1 .. n : new[j] = r
    BY <1>1
  <2>4. i - 1 = n
    BY <1>2, <1>5
  <2> QED BY <1>1, <2>1, <2>2, <2>3, <2>4 DEF PlaceOk
<1> QED BY <1>3, <1>4, <1>5

(* A word that no wordlist has, and no word refers to, is put last in      *)
(* wordlist w.                                                             *)
Placing(ws, vs, n, lists, w, id) ==
  /\ n \in Nat /\ lists \in Seq(Seq(Nat)) /\ w \in 1 .. Len(lists) /\ id \in 1 .. Len(ws)
  /\ Len(ws) \in Nat /\ Len(vs) = Len(ws)
  /\ \A j \in 1 .. Len(ws) : j # id => vs[j] = ws[j]
  /\ vs[id].home = w /\ vs[id].freed = ws[id].freed
  /\ vs[id].code = ws[id].code /\ vs[id].does = ws[id].does
  /\ vs[id].refs = ws[id].refs /\ vs[id].nondeferred = ws[id].nondeferred
  /\ WordsOk(ws, n) /\ ListsOk(ws, lists) /\ ~In(lists, id)
  /\ \A j \in 1 .. Len(ws) : id \notin ws[j].refs
  /\ \A r \in ws[id].refs : In(lists, r)
  /\ ~ws[id].freed
  /\ w = Root => Lacks(ws[id].code, "vocabulary")

WithLast(lists, w, id) == [lists EXCEPT ![w] = Append(@, id)]

Placed(vs, lists, w, id, new) ==
  /\ ListsOk(vs, new) /\ new \in Seq(Seq(Nat)) /\ Len(new) = Len(lists)
  /\ new[w] = Append(lists[w], id)
  /\ \A v \in 1 .. Len(lists) : v # w => new[v] = lists[v]

LEMMA PlacedOk ==
  ASSUME NEW ws, NEW vs, NEW n, NEW lists, NEW w, NEW id, Placing(ws, vs, n, lists, w, id)
  PROVE  WordsOk(vs, n) /\ Placed(vs, lists, w, id, WithLast(lists, w, id))
<1> DEFINE new == WithLast(lists, w, id)
<1> USE DEF Placing, WithLast
<1>1. SameCode(ws, vs)
  BY DEF SameCode
<1>2. WordsOk(vs, n)
  <2>1. n <= n
    OBVIOUS
  <2> QED BY <1>1, <2>1, SameCodeOk
<1>3. /\ Len(lists) \in Nat
      /\ \A v \in 1 .. Len(lists) : lists[v] \in Seq(Nat) /\ Len(lists[v]) \in Nat
  BY Elements
<1>4. \A v \in 1 .. Len(lists) : ListOk(vs, lists[v], v)
  <2> SUFFICES ASSUME NEW v \in 1 .. Len(lists)
               PROVE  ListOk(vs, lists[v], v)
    OBVIOUS
  <2>1. ListOk(ws, lists[v], v) /\ \A i \in 1 .. Len(lists[v]) : lists[v][i] # id
    BY DEF ListsOk, In
  <2> QED BY <2>1, OthersOk
<1>5. id \in Nat /\ Append(lists[w], id) \in Seq(Nat)
  BY <1>3, Appended
<1>6. /\ new \in Seq(Seq(Nat)) /\ Len(new) = Len(lists)
      /\ \A v \in 1 .. Len(lists) : new[v] = IF v = w THEN Append(lists[w], id) ELSE lists[v]
  BY <1>5, ExceptSeq
<1> HIDE DEF new
<1>7. \A r \in vs[id].refs : vs[r].home = w => \E j \in 1 .. Len(lists[w]) : lists[w][j] = r
  <2> SUFFICES ASSUME NEW r \in ws[id].refs, vs[r].home = w
               PROVE  \E j \in 1 .. Len(lists[w]) : lists[w][j] = r
    OBVIOUS
  <2>1. PICK v \in 1 .. Len(lists) : \E i \in 1 .. Len(lists[v]) : lists[v][i] = r
    BY DEF In
  <2>2. PICK i \in 1 .. Len(lists[v]) : lists[v][i] = r
    BY <2>1
  <2>3. PlaceOk(vs, lists[v], v, i)
    BY <1>4 DEF ListOk
  <2>4. v = w
    BY <2>2, <2>3 DEF PlaceOk
  <2> QED BY <2>2, <2>4
<1>8. \A i \in 1 .. Len(lists[w]) : lists[w][i] # id
  BY DEF In
<1>9. ListOk(vs, Append(lists[w], id), w)
  <2> DEFINE list == lists[w]
  <2>1. /\ list \in Seq(Nat) /\ ListOk(vs, list, w) /\ id \in 1 .. Len(vs)
        /\ \A i \in 1 .. Len(list) : list[i] # id
        /\ \A r \in vs[id].refs : vs[r].home = w => \E j \in 1 .. Len(list) : list[j] = r
        /\ w = Root => Lacks(vs[id].code, "vocabulary")
    BY <1>3, <1>4, <1>7, <1>8
  <2> HIDE DEF list
  <2>2. ListOk(vs, Append(list, id), w)
    BY <1>5, <2>1, ListAppend
  <2> QED BY <2>2 DEF list
<1>10. ListsOk(vs, new)
  BY <1>4, <1>6, <1>9 DEF ListsOk
<1>11. Placed(vs, lists, w, id, new)
  BY <1>6, <1>10 DEF Placed
<1> QED BY <1>2, <1>11 DEF new

(* The first k words of a wordlist.                                        *)
LEMMA ListPrefix ==
  ASSUME NEW ws, NEW list, NEW w, NEW new, ListOk(ws, list, w), Len(list) \in Nat,
         Len(new) \in Nat, Len(new) <= Len(list), \A i \in 1 .. Len(new) : new[i] = list[i]
  PROVE  ListOk(ws, new, w)
<1> SUFFICES ASSUME NEW i \in 1 .. Len(new)
             PROVE  PlaceOk(ws, new, w, i)
  BY DEF ListOk
<1>1. \A j \in 1 .. Len(new) : j \in 1 .. Len(list)
  OBVIOUS
<1>2. PlaceOk(ws, list, w, i)
  BY <1>1 DEF ListOk
<1>3. \A j \in 1 .. i - 1 : j \in 1 .. Len(new)
  OBVIOUS
<1> QED BY <1>1, <1>2, <1>3 DEF PlaceOk

(* The words of gone are freed, and each wordlist keeps those before them. *)
LEMMA RemovedOk ==
  ASSUME NEW ws \in Seq(EntryType), NEW vs, NEW n \in Nat, NEW gone,
         NEW lists \in Seq(Seq(Nat)), NEW new,
         Len(vs) = Len(ws),
         \A k \in 1 .. Len(ws) : vs[k] = IF k \in gone THEN Freed(ws[k]) ELSE ws[k],
         WordsOk(ws, n), ListsOk(ws, lists),
         Len(new) = Len(lists),
         \A w \in 1 .. Len(lists) :
           /\ Len(new[w]) \in Nat /\ Len(new[w]) <= Len(lists[w])
           /\ \A i \in 1 .. Len(new[w]) : new[w][i] = lists[w][i] /\ new[w][i] \notin gone
  PROVE  WordsOk(vs, n) /\ ListsOk(vs, new)
<1>1. Len(ws) \in Nat /\ \A k \in 1 .. Len(ws) : ws[k] \in EntryType
  BY Elements
<1>2. \A k \in 1 .. Len(ws) : k \in gone => /\ vs[k].code = <<>> /\ vs[k].does = <<>>
                                            /\ vs[k].refs = {} /\ vs[k].home = ws[k].home
  <2> SUFFICES ASSUME NEW k \in 1 .. Len(ws), k \in gone
               PROVE  /\ vs[k].code = <<>> /\ vs[k].does = <<>>
                      /\ vs[k].refs = {} /\ vs[k].home = ws[k].home
    OBVIOUS
  <2>1. vs[k] = Freed(ws[k]) /\ ws[k] \in EntryType
    BY <1>1
  <2> QED BY <2>1, FreedTyped
<1>3. \A k \in 1 .. Len(ws) : Less(ws, vs, k) /\ vs[k].home = ws[k].home
  <2>1. AllIn(<<>>, Deferrable)
    BY NoCode DEF AllIn
  <2> QED BY <1>2, <2>1 DEF Less
<1>4. WordsOk(vs, n)
  <2> SUFFICES ASSUME NEW k \in 1 .. Len(ws)
               PROVE  EntryOk(vs, n, vs[k], k)
    BY DEF WordsOk
  <2>1. CASE k \in gone
    BY <1>2, <2>1, EmptyOk
  <2>2. CASE k \notin gone
    <3>1. EntryOk(ws, n, ws[k], k) /\ vs[k] = ws[k]
      BY <2>2 DEF WordsOk
    <3>2. \A j \in ws[k].refs : Less(ws, vs, j)
      BY <1>3, <3>1 DEF EntryOk
    <3>3. n <= n /\ Len(vs) \in Nat /\ Len(ws) <= Len(vs) /\ vs[k].refs \subseteq vs[k].refs
      BY <1>1
    <3> QED BY <1>1, <3>1, <3>2, <3>3, EntryStays
  <2> QED BY <2>1, <2>2
<1>5. ListsOk(vs, new)
  <2> SUFFICES ASSUME NEW w \in 1 .. Len(lists)
               PROVE  ListOk(vs, new[w], w)
    BY DEF ListsOk
  <2> DEFINE list == new[w]
             old  == lists[w]
  <2>1. /\ ListOk(ws, old, w) /\ Len(old) \in Nat /\ Len(list) \in Nat /\ Len(list) <= Len(old)
        /\ \A i \in 1 .. Len(list) : list[i] = old[i] /\ list[i] \notin gone
    BY Elements DEF ListsOk
  <2> HIDE DEF list, old
  <2>2. ListOk(ws, list, w)
    BY <2>1, ListPrefix
  <2>3. \A i \in 1 .. Len(list) : list[i] \in 1 .. Len(ws) /\ vs[list[i]] = ws[list[i]]
    BY <2>1, <2>2 DEF ListOk, PlaceOk
  <2>4. \A i \in 1 .. Len(list) : \A r \in ws[list[i]].refs : vs[r].home = ws[r].home
    BY <1>3, <2>3 DEF WordsOk, EntryOk
  <2>5. Len(vs) \in Nat /\ Len(ws) <= Len(vs)
    BY <1>1
  <2>6. ListOk(vs, list, w)
    BY <1>1, <2>2, <2>3, <2>4, <2>5, ListStays
  <2> QED BY <2>6 DEF list
<1> QED BY <1>4, <1>5

-----------------------------------------------------------------------------
(* Commands *)

LEMMA ExecuteIs ==
  ASSUME NEW s, NEW c, NEW name
  PROVE  /\ c.op = "ALSO"        => Execute(s, c, name) = CPP_also(s)
         /\ c.op = "ONLY"        => Execute(s, c, name) = CPP_only(s)
         /\ c.op = "PREVIOUS"    => Execute(s, c, name) = CPP_previous(s)
         /\ c.op = "FORTH"       => Execute(s, c, name) = CPP_forth(s)
         /\ c.op = "ASSEMBLER"   => Execute(s, c, name) = CPP_assembler(s)
         /\ c.op = "DEFINITIONS" => Execute(s, c, name) = CPP_definitions(s)
         /\ c.op = "SET-ORDER"   => Execute(s, c, name) = CPP_setorder(s, c.wids)
         /\ c.op = "SET-CURRENT" => Execute(s, c, name) = CPP_setcurrent(s, Head(c.wids))
         /\ c.op = "vocabulary"  => Execute(s, c, name) = Front1(s, Head(c.wids))
         /\ c.op = "WORDLIST"    => Execute(s, c, name) = CPP_wordlist(s)
         /\ c.op = ":"           => Execute(s, c, name) = NewEntry(s, Entry(name))
         /\ c.op = "VARIABLE"    => Execute(s, c, name) = CPP_variable(s, name)
         /\ c.op = "VOCABULARY"  => Execute(s, c, name) = CPP_vocabulary(s, name)
         /\ c.op = "ALIAS"       => Execute(s, c, name) = CPP_alias(s, c.id, name)
         /\ c.op = "FORGET"      => Execute(s, c, name) = CPP_forget(s, name)
         /\ c.op = "COLD"        => Execute(s, c, name) = CPP_cold(s)
         /\ c.op = "DOES>"       => Execute(s, c, name) = CPP_does(s, c)
         /\ c.op = "compile-name" => Execute(s, c, name) = CPP_compilename(s, c.id)
         /\ c.op \in Marks       => Execute(s, c, name) = Mark(s, c)
  BY DEF Execute, Marks

(* The commands that change the order or the compilation wordlist.         *)
MoveOps == Moving \cup {"SET-ORDER", "SET-CURRENT", "vocabulary"}

MayMove(s, c) ==
  /\ c.op \in {"PREVIOUS", "ASSEMBLER", "vocabulary"} => Len(s.order) >= 2
  /\ c.op = "SET-ORDER" => OrderIs(c.wids, Len(s.lists))
  /\ c.op \in {"SET-CURRENT", "vocabulary"} => c.wids # <<>> /\ c.wids[1] \in 1 .. Len(s.lists)

Still(s, t) ==
  /\ t.words = s.words /\ t.lists = s.lists /\ t.dict = s.dict
  /\ t.new = s.new /\ t.newest = s.newest /\ t.missed = s.missed

Moved(s, t) ==
  t \in DictionaryType /\ Still(s, t) /\ Good(t) /\ (Pending(s) => Pending(t))

LEMMA StillOk ==
  ASSUME NEW s, NEW t \in DictionaryType, Good(s), Still(s, t),
         OrderIs(t.order, Len(s.lists)), t.current \in 1 .. Len(s.lists)
  PROVE  Moved(s, t)
  BY DEF Moved, Good, Still, Pending

LEMMA OrderSet ==
  ASSUME NEW s, Good(s), NEW order, OrderIs(order, Len(s.lists)),
         NEW t, t = [s EXCEPT !.order = order]
  PROVE  Moved(s, t) /\ t.order = order /\ t.current = s.current
<1>1. s \in DictionaryType /\ s.current \in 1 .. Len(s.lists) /\ order \in Seq(Nat)
  BY DEF Good, OrderIs
<1>2. t \in DictionaryType /\ Still(s, t) /\ t.order = order /\ t.current = s.current
  BY <1>1 DEF DictionaryType, Still
<1> QED BY <1>1, <1>2, StillOk

LEMMA CurrentSet ==
  ASSUME NEW s, Good(s), NEW w \in 1 .. Len(s.lists), NEW t, t = [s EXCEPT !.current = w]
  PROVE  Moved(s, t)
<1>1. s \in DictionaryType /\ OrderIs(s.order, Len(s.lists)) /\ w \in Nat
  BY Facts DEF Good
<1>2. t \in DictionaryType /\ Still(s, t) /\ t.order = s.order /\ t.current = w
  BY <1>1 DEF DictionaryType, Still
<1> QED BY <1>1, <1>2, StillOk

LEMMA FrontSet ==
  ASSUME NEW s, Good(s), NEW w \in 1 .. Len(s.lists), Len(s.order) >= 2,
         NEW t, t = Front1(s, w)
  PROVE  Moved(s, t)
<1>1. s \in DictionaryType /\ OrderIs(s.order, Len(s.lists)) /\ Len(s.lists) \in Nat
  BY Facts DEF Good
<1> DEFINE o == s.order
           n == Len(s.lists)
           q == [o EXCEPT ![1] = w]
<1>2. OrderIs(q, n)
  <2>1. n \in Nat /\ OrderIs(o, n) /\ Len(o) >= 2 /\ w \in 1 .. n
    BY <1>1
  <2> HIDE DEF o, n
  <2> QED BY <2>1, OrderFront
<1>3. t = [s EXCEPT !.order = q]
  BY <1>1 DEF Front1, DictionaryType
<1> HIDE DEF q
<1> QED BY <1>2, <1>3, OrderSet

LEMMA MoveOk ==
  ASSUME NEW s, Good(s), NEW c \in CommandType, c.op \in MoveOps, MayMove(s, c),
         NEW name, NEW t, t = Execute(s, c, name)
  PROVE  Moved(s, t)
<1> DEFINE o == s.order
           n == Len(s.lists)
           p == <<Head(o)>>
<1>1. /\ s \in DictionaryType /\ OrderIs(o, n) /\ n \in Nat /\ n >= 3
      /\ Root \in 1 .. n /\ Forth \in 1 .. n /\ Assembler \in 1 .. n
  BY Facts DEF Good, Root, Forth, Assembler
<1>2. o \in Seq(Nat) /\ Len(o) \in Nat /\ Len(o) > 0 /\ o # <<>> /\ Head(o) = o[1] /\ o[1] \in 1 .. n
  BY <1>1, EmptySeq, LenProperties DEF OrderIs
<1>b. Len(o) # 1 => Len(o) >= 2
  <2>1. \A m \in Nat : m > 0 /\ m # 1 => m >= 2
    OBVIOUS
  <2> QED BY <1>2, <2>1
<1>3. c.wids \in Seq(Nat) /\ (c.wids # <<>> => Head(c.wids) = c.wids[1])
  BY DEF CommandType
<1>4. CPP_also(s) = [s EXCEPT !.order = p \o o]
  BY <1>1 DEF CPP_also, DictionaryType
<1>5. OrderIs(p \o o, n)
  BY <1>1, OrderAlso
<1> HIDE DEF o, n, p
<1>6. CASE c.op = "ALSO"
  <2>1. t = [s EXCEPT !.order = p \o o]
    BY <1>4, <1>6, ExecuteIs
  <2> QED BY <1>5, <2>1, OrderSet DEF n
<1>7. CASE c.op = "ONLY"
  <2> DEFINE q == <<Root>>
  <2>1. OrderIs(q, n)
    BY <1>1, OrderOnly
  <2>2. t = [s EXCEPT !.order = q]
    BY <1>7, ExecuteIs DEF CPP_only
  <2> HIDE DEF q
  <2> QED BY <2>1, <2>2, OrderSet DEF n
<1>8. CASE c.op = "PREVIOUS"
  <2> DEFINE q == Tail(o)
  <2>1. Len(o) >= 2
    BY <1>8 DEF MayMove, o
  <2>2. OrderIs(q, n)
    BY <1>1, <2>1, OrderTail
  <2>3. t = CPP_previous(s)
    BY <1>8, ExecuteIs
  <2>4. CPP_previous(s) = [s EXCEPT !.order = q]
    BY <1>1 DEF CPP_previous, DictionaryType, o
  <2> HIDE DEF q
  <2> QED BY <2>2, <2>3, <2>4, OrderSet DEF n
<1>9. CASE c.op = "FORTH"
  <2>1. CASE Len(o) = 1
    <3>0. PICK q : q = p \o o
      OBVIOUS
    <3>1. PICK u : u = CPP_also(s)
      OBVIOUS
    <3>a. OrderIs(q, n) /\ u = [s EXCEPT !.order = q]
      BY <1>4, <1>5, <3>0, <3>1
    <3>2. Moved(s, u) /\ u.order = q
      <4>1. Moved(s, u)
        BY <3>a, OrderSet DEF n
      <4>2. u.order = q
        BY <1>1, <3>a DEF DictionaryType
      <4> QED BY <4>1, <4>2
    <3>3. Len(u.order) >= 2
      <4>1. p \in Seq(Nat) /\ Len(p) = 1
        BY <1>2 DEF p
      <4>2. Len(p \o o) = Len(p) + Len(o)
        BY ONLY <1>2, <4>1, Joined
      <4> QED BY <2>1, <3>0, <3>2, <4>1, <4>2
    <3>4. t = Front1(u, Forth)
      BY <1>9, <2>1, <3>1, ExecuteIs DEF CPP_forth, o
    <3>5. Forth \in 1 .. Len(u.lists) /\ Good(u)
      BY <1>1, <3>2 DEF Moved, Still, n
    <3>6. Moved(u, t)
      BY <3>3, <3>4, <3>5, FrontSet
    <3> QED BY <3>2, <3>6 DEF Moved, Still
  <2>2. CASE Len(o) # 1
    <3>1. t = Front1(s, Forth)
      BY <1>9, <2>2, ExecuteIs DEF CPP_forth, o
    <3>2. Len(o) >= 2
      BY <1>b, <2>2
    <3> QED BY <1>1, <3>1, <3>2, FrontSet DEF n, o
  <2> QED BY <2>1, <2>2
<1>10. CASE c.op = "ASSEMBLER"
  <2>1. t = Front1(s, Assembler)
    BY <1>10, ExecuteIs DEF CPP_assembler
  <2>2. Len(s.order) >= 2
    BY <1>10 DEF MayMove
  <2> QED BY <1>1, <2>1, <2>2, FrontSet DEF n
<1>11. CASE c.op = "DEFINITIONS"
  <2>1. t = [s EXCEPT !.current = o[1]]
    BY <1>2, <1>11, ExecuteIs DEF CPP_definitions, o
  <2> QED BY <1>2, <2>1, CurrentSet DEF n
<1>12. CASE c.op = "SET-ORDER"
  <2>1. OrderIs(c.wids, n)
    BY <1>12 DEF MayMove, n
  <2>2. t = [s EXCEPT !.order = c.wids]
    BY <1>12, ExecuteIs DEF CPP_setorder
  <2> QED BY <2>1, <2>2, OrderSet DEF n
<1>13. CASE c.op = "SET-CURRENT"
  <2>1. c.wids[1] \in 1 .. n /\ Head(c.wids) = c.wids[1]
    BY <1>3, <1>13 DEF MayMove, n
  <2>2. t = [s EXCEPT !.current = c.wids[1]]
    BY <1>13, <2>1, ExecuteIs DEF CPP_setcurrent
  <2> QED BY <2>1, <2>2, CurrentSet DEF n
<1>14. CASE c.op = "vocabulary"
  <2>1. c.wids[1] \in 1 .. n /\ Head(c.wids) = c.wids[1]
    BY <1>3, <1>14 DEF MayMove, n
  <2>2. Len(s.order) >= 2
    BY <1>14 DEF MayMove
  <2>3. t = Front1(s, c.wids[1])
    BY <1>14, <2>1, ExecuteIs
  <2> QED BY <2>1, <2>2, <2>3, FrontSet DEF n
<1> QED BY <1>6, <1>7, <1>8, <1>9, <1>10, <1>11, <1>12, <1>13, <1>14 DEF MoveOps, Moving

(* IMMEDIATE and NONDEFERRED leave everything but a word's precedence.     *)
Marked(s, t) ==
  /\ t \in DictionaryType /\ Good(t) /\ (Pending(s) => Pending(t))
  /\ SameCode(s.words, t.words) /\ SamePlace(s.words, t.words)
  /\ t.lists = s.lists /\ t.dict = s.dict /\ t.order = s.order /\ t.current = s.current
  /\ t.new = s.new /\ t.newest = s.newest

LEMMA MarkedFrom ==
  ASSUME NEW s, Good(s), NEW t \in DictionaryType,
         SameCode(s.words, t.words), SamePlace(s.words, t.words),
         t.lists = s.lists, t.dict = s.dict, t.order = s.order, t.current = s.current,
         t.new = s.new, t.newest = s.newest
  PROVE  Marked(s, t)
<1>1. /\ Len(s.words) \in Nat /\ Len(s.lists) \in Nat /\ Len(s.lists) <= Len(s.lists)
      /\ WordsOk(s.words, Len(s.lists)) /\ ListsOk(s.words, s.lists)
  BY Facts DEF Good
<1>2. WordsOk(t.words, Len(t.lists))
  BY <1>1, SameCodeOk
<1>3. ListsOk(t.words, t.lists)
  BY <1>1, SamePlaceOk
<1>4. Good(t)
  BY <1>2, <1>3 DEF Good
<1>5. ASSUME Pending(s) PROVE Pending(t)
  <2>1. /\ s.new \in 1 .. Len(s.words) /\ ~In(s.lists, s.new) /\ ~s.words[s.new].freed
        /\ \A r \in s.words[s.new].refs : In(s.lists, r)
        /\ Lacks(s.words[s.new].code, "vocabulary")
        /\ \A k \in 1 .. Len(s.words) : s.new \notin s.words[k].refs
    BY <1>5 DEF Pending
  <2>2. /\ Len(t.words) = Len(s.words)
        /\ \A k \in 1 .. Len(s.words) : /\ t.words[k].refs = s.words[k].refs
                                        /\ t.words[k].code = s.words[k].code
                                        /\ t.words[k].freed = s.words[k].freed
    BY DEF SameCode, SamePlace
  <2>3. /\ t.words[s.new].refs = s.words[s.new].refs /\ t.words[s.new].code = s.words[s.new].code
        /\ t.words[s.new].freed = s.words[s.new].freed
    BY <2>1, <2>2
  <2> QED BY <2>1, <2>2, <2>3 DEF Pending
<1> QED BY <1>4, <1>5 DEF Marked

(* The last word of the compilation wordlist, if there is one.             *)
LEMMA LastWordIs ==
  ASSUME NEW s, Good(s), s.lists[s.current] # <<>>
  PROVE  /\ Len(s.lists[s.current]) \in Nat /\ Len(s.lists[s.current]) > 0
         /\ LastWord(s) = s.lists[s.current][Len(s.lists[s.current])]
         /\ LastWord(s) \in 1 .. Len(s.words) /\ LastWord(s) \in Nat
         /\ s.words[LastWord(s)] \in EntryType
<1> DEFINE list == s.lists[s.current]
<1>1. list \in Seq(Nat) /\ ListOk(s.words, list, s.current)
  BY Facts DEF Good, ListsOk
<1>2. Len(list) \in Nat /\ Len(list) > 0
  BY <1>1, EmptySeq, LenProperties
<1>3. LastWord(s) = list[Len(list)] /\ Len(list) \in 1 .. Len(list)
  BY <1>2 DEF LastWord, Last
<1>4. LastWord(s) \in 1 .. Len(s.words)
  BY <1>1, <1>3 DEF ListOk, PlaceOk
<1>5. s.words[LastWord(s)] \in EntryType /\ Len(s.words) \in Nat
  BY <1>4, Facts DEF Good
<1>6. LastWord(s) \in Nat
  BY <1>4, <1>5
<1> QED BY <1>2, <1>3, <1>4, <1>5, <1>6

LEMMA MarkOk ==
  ASSUME NEW s, Good(s), NEW c, c.op \in Marks, NEW name, NEW t, t = Execute(s, c, name)
  PROVE  /\ Marked(s, t)
         /\ s.lists[s.current] # <<>> /\ (IF c.id = NoWord THEN s.newest ELSE c.id) = LastWord(s)
              => t.missed = s.missed
<1> DEFINE meant == IF c.id = NoWord THEN s.newest ELSE c.id
<1>1. s \in DictionaryType /\ Len(s.words) \in Nat /\ s.words \in Seq(EntryType) /\ s.missed \in BOOLEAN
  BY Facts DEF Good
<1>2. t = Mark(s, c)
  BY ExecuteIs
<1>3. CASE s.lists[s.current] = <<>>
  <2>1. t = [s EXCEPT !.missed = TRUE]
    BY <1>2, <1>3 DEF Mark
  <2>2. /\ t \in DictionaryType /\ t.words = s.words
        /\ t.lists = s.lists /\ t.dict = s.dict /\ t.order = s.order /\ t.current = s.current
        /\ t.new = s.new /\ t.newest = s.newest
    BY <1>1, <2>1 DEF DictionaryType
  <2>3. SameCode(s.words, t.words) /\ SamePlace(s.words, t.words)
    BY <2>2 DEF SameCode, SamePlace
  <2> QED BY <1>3, <2>2, <2>3, MarkedFrom
<1>4. CASE s.lists[s.current] # <<>>
  <2> DEFINE id == LastWord(s)
             e == s.words[id]
             f == Marking(e, c.op)
             ws == [s.words EXCEPT ![id] = f]
             b == s.missed \/ meant # id
  <2>2. t = [s EXCEPT !.missed = b, !.words[id] = f]
    BY <1>2, <1>4 DEF Mark
  <2>1. id \in 1 .. Len(s.words) /\ e \in EntryType
    BY <1>4, LastWordIs
  <2> HIDE DEF id
  <2>3. /\ f \in EntryType /\ f.code = e.code /\ f.does = e.does /\ f.refs = e.refs
        /\ f.home = e.home /\ f.freed = e.freed /\ (e.nondeferred => f.nondeferred)
    BY <2>1 DEF EntryType, Marking
  <2> HIDE DEF f
  <2>4. /\ ws \in Seq(EntryType) /\ Len(ws) = Len(s.words)
        /\ \A k \in 1 .. Len(s.words) : ws[k] = IF k = id THEN f ELSE s.words[k]
    BY <1>1, <2>1, <2>3, ExceptSeq
  <2>a. b \in BOOLEAN
    OBVIOUS
  <2>b. ws = [s.words EXCEPT ![id] = f]
    BY DEF ws
  <2> HIDE DEF ws, meant, b
  <2>5. /\ t \in DictionaryType /\ t.words = ws
        /\ t.lists = s.lists /\ t.dict = s.dict /\ t.order = s.order /\ t.current = s.current
        /\ t.new = s.new /\ t.newest = s.newest
    BY <1>1, <2>2, <2>4, <2>a, <2>b DEF DictionaryType
  <2>6. t.missed = b
    BY <1>1, <2>2 DEF DictionaryType
  <2>7. SameCode(s.words, t.words) /\ SamePlace(s.words, t.words)
    BY <2>3, <2>4, <2>5 DEF SameCode, SamePlace
  <2>8. Marked(s, t)
    BY <2>5, <2>7, MarkedFrom
  <2>9. meant = LastWord(s) => t.missed = s.missed
    BY <1>1, <2>1, <2>6 DEF b, id
  <2> QED BY <2>8, <2>9 DEF meant
<1> QED BY <1>3, <1>4

-----------------------------------------------------------------------------
(* Making words *)

LEMMA NewEntryOk ==
  ASSUME NEW s, Good(s), NEW e \in EntryType, NEW k, k = Len(s.words) + 1,
         EntryOk(Append(s.words, e), Len(s.lists), e, k),
         NEW t, t = NewEntry(s, e)
  PROVE  /\ t \in DictionaryType /\ Good(t)
         /\ Len(t.words) = k /\ k \in 1 .. Len(t.words) /\ k \in Nat
         /\ t.words[k] = e /\ t.new = k
         /\ \A j \in 1 .. Len(s.words) : t.words[j] = s.words[j]
         /\ \A j \in 1 .. Len(s.words) : k \notin s.words[j].refs
         /\ ~In(t.lists, k)
         /\ t.lists = s.lists /\ t.dict = s.dict /\ t.order = s.order /\ t.current = s.current
         /\ t.newest = s.newest /\ t.missed = s.missed
<1>1. /\ s \in DictionaryType /\ s.words \in Seq(EntryType) /\ Len(s.words) \in Nat
      /\ Len(s.lists) \in Nat /\ WordsOk(s.words, Len(s.lists)) /\ ListsOk(s.words, s.lists)
  BY Facts DEF Good
<1> DEFINE ws == Append(s.words, e)
<1>2. /\ WordsOk(ws, Len(s.lists)) /\ ListsOk(ws, s.lists)
      /\ ws \in Seq(EntryType) /\ Len(ws) = k /\ k \in 1 .. Len(ws) /\ ws[k] = e
      /\ \A j \in 1 .. Len(s.words) : ws[j] = s.words[j]
      /\ ~In(s.lists, k)
      /\ \A j \in 1 .. Len(s.words) : k \notin s.words[j].refs
  BY <1>1, NewWordOk
<1>3. k \in Nat
  BY <1>1
<1>4. t = [s EXCEPT !.words = ws, !.new = k]
  BY DEF NewEntry
<1> HIDE DEF ws
<1>5. /\ t \in DictionaryType /\ t.words = ws /\ t.new = k
      /\ t.lists = s.lists /\ t.dict = s.dict /\ t.order = s.order /\ t.current = s.current
      /\ t.newest = s.newest /\ t.missed = s.missed
  BY <1>1, <1>2, <1>3, <1>4 DEF DictionaryType
<1>6. Good(t)
  BY <1>2, <1>5 DEF Good
<1> QED BY <1>2, <1>3, <1>5, <1>6

LEMMA InGrows ==
  ASSUME NEW lists \in Seq(Seq(Nat)), NEW new, NEW w \in 1 .. Len(lists), NEW id \in Nat,
         Len(new) = Len(lists), new[w] = Append(lists[w], id),
         \A v \in 1 .. Len(lists) : v # w => new[v] = lists[v],
         NEW r, In(lists, r)
  PROVE  In(new, r)
<1>1. PICK v \in 1 .. Len(lists) : \E i \in 1 .. Len(lists[v]) : lists[v][i] = r
  BY DEF In
<1>2. PICK i \in 1 .. Len(lists[v]) : lists[v][i] = r
  BY <1>1
<1>3. lists[v] \in Seq(Nat)
  BY Elements
<1>4. Len(lists[v]) \in Nat
  BY <1>3, Elements
<1>5. CASE v = w
  <2>1. Len(new[v]) = Len(lists[v]) + 1 /\ new[v][i] = lists[v][i]
    <3> DEFINE list == lists[v]
    <3>1. new[v] = Append(list, id) /\ list \in Seq(Nat) /\ i \in 1 .. Len(list)
      BY <1>3, <1>5
    <3> HIDE DEF list
    <3>2. Len(new[v]) = Len(list) + 1 /\ new[v][i] = list[i]
      BY <3>1, Appended
    <3> QED BY <3>2 DEF list
  <2>2. i \in 1 .. Len(new[v])
    BY <1>4, <2>1
  <2> QED BY <1>2, <2>1, <2>2 DEF In
<1>6. CASE v # w
  BY <1>2, <1>6 DEF In
<1> QED BY <1>5, <1>6

(* A word is put last in the compilation wordlist.                         *)
Ready(s, id) ==
  /\ id \in 1 .. Len(s.words) /\ ~In(s.lists, id)
  /\ \A j \in 1 .. Len(s.words) : id \notin s.words[j].refs
  /\ \A r \in s.words[id].refs : In(s.lists, r)
  /\ ~s.words[id].freed
  /\ s.current = Root => Lacks(s.words[id].code, "vocabulary")

Done(s, t, id) ==
  /\ t \in DictionaryType /\ Good(t)
  /\ Len(t.words) = Len(s.words)
  /\ \A j \in 1 .. Len(s.words) : j # id => t.words[j] = s.words[j]
  /\ t.words[id].code = s.words[id].code /\ t.words[id].does = s.words[id].does
  /\ t.words[id].refs = s.words[id].refs
  /\ Len(t.lists) = Len(s.lists)
  /\ t.lists[s.current] = Append(s.lists[s.current], id)
  /\ \A r : In(s.lists, r) => In(t.lists, r)
  /\ t.order = s.order /\ t.current = s.current /\ t.dict = s.dict
  /\ t.newest = id /\ t.missed = s.missed /\ t.new = s.new

LEMMA ListingOk ==
  ASSUME NEW s, Good(s), NEW id, Ready(s, id), NEW t, t = Listing(s, id)
  PROVE  Done(s, t, id)
<1> USE DEF Ready
<1>1. /\ s \in DictionaryType /\ s.words \in Seq(EntryType) /\ Len(s.words) \in Nat
      /\ s.lists \in Seq(Seq(Nat)) /\ Len(s.lists) \in Nat
      /\ s.current \in 1 .. Len(s.lists) /\ s.current \in Nat /\ id \in Nat
      /\ s.words[id] \in EntryType
  BY Facts DEF Good
<1>2. PICK w \in 1 .. Len(s.lists) : w = s.current
  BY <1>1
<1>3. PICK f : f = [s.words[id] EXCEPT !.home = w]
  OBVIOUS
<1>4. /\ f \in EntryType /\ f.home = w /\ f.code = s.words[id].code /\ f.does = s.words[id].does
      /\ f.refs = s.words[id].refs /\ f.freed = s.words[id].freed
      /\ f.nondeferred = s.words[id].nondeferred
  BY <1>1, <1>2, <1>3 DEF EntryType
<1>5. PICK vs : vs = [s.words EXCEPT ![id] = f]
  OBVIOUS
<1>6. /\ vs \in Seq(EntryType) /\ Len(vs) = Len(s.words) /\ vs[id] = f
      /\ \A j \in 1 .. Len(s.words) : j # id => vs[j] = s.words[j]
  BY <1>1, <1>4, <1>5, ExceptSeq
<1>7. PICK new : new = WithLast(s.lists, w, id)
  OBVIOUS
<1>8. /\ WordsOk(s.words, Len(s.lists)) /\ ListsOk(s.words, s.lists)
      /\ (w = Root => Lacks(s.words[id].code, "vocabulary"))
  BY <1>2 DEF Good
<1>9. /\ WordsOk(vs, Len(s.lists)) /\ ListsOk(vs, new)
      /\ new \in Seq(Seq(Nat)) /\ Len(new) = Len(s.lists)
      /\ new[w] = Append(s.lists[w], id)
      /\ \A v \in 1 .. Len(s.lists) : v # w => new[v] = s.lists[v]
  <2>1. Placing(s.words, vs, Len(s.lists), s.lists, w, id)
    BY <1>1, <1>2, <1>4, <1>6, <1>8 DEF Placing
  <2>2. WordsOk(vs, Len(s.lists)) /\ Placed(vs, s.lists, w, id, WithLast(s.lists, w, id))
    BY <2>1, PlacedOk
  <2> QED BY <1>7, <2>2 DEF Placed
<1>10. t = [s EXCEPT !.lists = new, !.words = vs, !.newest = id]
  BY <1>1, <1>2, <1>3, <1>5, <1>7 DEF Listing, DictionaryType, WithLast
<1>11. /\ t \in DictionaryType /\ t.words = vs /\ t.lists = new /\ t.newest = id
       /\ t.order = s.order /\ t.current = s.current /\ t.dict = s.dict
       /\ t.missed = s.missed /\ t.new = s.new
  BY <1>1, <1>6, <1>9, <1>10 DEF DictionaryType
<1>12. Good(t)
  BY <1>9, <1>11 DEF Good
<1>13. \A r : In(s.lists, r) => In(new, r)
  BY <1>1, <1>9, InGrows, ZenonT(40)
<1> QED BY <1>2, <1>4, <1>6, <1>9, <1>11, <1>12, <1>13 DEF Done

(* A word is made and put last in the compilation wordlist.                *)
Made(s, t, e) ==
  /\ t \in DictionaryType /\ Good(t)
  /\ Len(t.words) = Len(s.words) + 1 /\ Len(t.words) \in 1 .. Len(t.words)
  /\ \A j \in 1 .. Len(s.words) : t.words[j] = s.words[j]
  /\ t.words[Len(t.words)].code = e.code /\ t.words[Len(t.words)].does = e.does
  /\ t.words[Len(t.words)].refs = e.refs
  /\ \A j \in 1 .. Len(t.words) : Len(t.words) \notin t.words[j].refs
  /\ Len(t.lists) = Len(s.lists)
  /\ t.lists[t.current] # <<>> /\ LastWord(t) = Len(t.words)
  /\ \A r : In(s.lists, r) => In(t.lists, r)
  /\ t.order = s.order /\ t.current = s.current /\ t.dict = s.dict
  /\ t.newest = Len(t.words) /\ t.missed = s.missed

LEMMA MadeOk ==
  ASSUME NEW s, Good(s), NEW e \in EntryType,
         EntryOk(Append(s.words, e), Len(s.lists), e, Len(s.words) + 1),
         \A r \in e.refs : In(s.lists, r), ~e.freed,
         s.current = Root => Lacks(e.code, "vocabulary"),
         NEW t, t = CPP_create(s, e)
  PROVE  Made(s, t, e)
<1>1. PICK k : k = Len(s.words) + 1
  OBVIOUS
<1>2. PICK u : u = NewEntry(s, e)
  OBVIOUS
<1>a. EntryOk(Append(s.words, e), Len(s.lists), e, k)
  BY <1>1
<1>3. /\ u \in DictionaryType /\ Good(u)
      /\ Len(u.words) = k /\ k \in 1 .. Len(u.words) /\ k \in Nat
      /\ u.words[k] = e /\ u.new = k
      /\ \A j \in 1 .. Len(s.words) : u.words[j] = s.words[j]
      /\ \A j \in 1 .. Len(s.words) : k \notin s.words[j].refs
      /\ ~In(u.lists, k)
      /\ u.lists = s.lists /\ u.dict = s.dict /\ u.order = s.order /\ u.current = s.current
      /\ u.newest = s.newest /\ u.missed = s.missed
  BY ONLY Good(s), e \in EntryType, <1>1, <1>2, <1>a, NewEntryOk
<1>4. Len(s.words) \in Nat
  BY Facts DEF Good
<1>5. \A j \in 1 .. Len(u.words) : k \notin u.words[j].refs
  <2>1. \A j \in 1 .. Len(u.words) : j \in 1 .. Len(s.words) \/ j = k
    BY <1>1, <1>3, <1>4
  <2>2. k \notin e.refs
    BY <1>3
  <2> QED BY <1>3, <2>1, <2>2
<1>6. t = Listing(u, k)
  BY <1>1, <1>2 DEF CPP_create
<1>b. Ready(u, k)
  BY <1>3, <1>5 DEF Ready
<1>c. Done(u, t, k)
  BY ONLY <1>3, <1>6, <1>b, ListingOk
<1>7. /\ t \in DictionaryType /\ Good(t)
      /\ Len(t.words) = Len(u.words)
      /\ \A j \in 1 .. Len(u.words) : j # k => t.words[j] = u.words[j]
      /\ t.words[k].code = u.words[k].code /\ t.words[k].does = u.words[k].does
      /\ t.words[k].refs = u.words[k].refs
      /\ Len(t.lists) = Len(u.lists)
      /\ t.lists[u.current] = Append(u.lists[u.current], k)
      /\ \A r : In(u.lists, r) => In(t.lists, r)
      /\ t.order = u.order /\ t.current = u.current /\ t.dict = u.dict
      /\ t.newest = k /\ t.missed = u.missed /\ t.new = u.new
  BY <1>c DEF Done
<1>8. t.lists[t.current] # <<>> /\ LastWord(t) = k
  <2>1. PICK list \in Seq(Nat) : list = u.lists[u.current]
    BY <1>3, Facts DEF Good
  <2>2. t.lists[t.current] = Append(list, k)
    BY <1>7, <2>1
  <2>3. Append(list, k) # <<>> /\ Len(Append(list, k)) = Len(list) + 1
        /\ Append(list, k)[Len(list) + 1] = k
    <3>1. k \in Nat /\ list \in Seq(Nat)
      BY <1>3
    <3> QED BY ONLY <3>1, AppendProperties
  <2> QED BY <2>2, <2>3 DEF LastWord, Last
<1>9. \A j \in 1 .. Len(s.words) : t.words[j] = s.words[j]
  <2>1. \A j \in 1 .. Len(s.words) : j \in 1 .. Len(u.words) /\ j # k
    BY <1>1, <1>3, <1>4
  <2> QED BY <1>3, <1>7, <2>1
<1>10. \A j \in 1 .. Len(t.words) : k \notin t.words[j].refs
  BY <1>5, <1>7
<1> QED BY <1>1, <1>3, <1>7, <1>8, <1>9, <1>10 DEF Made

(* One word more.                                                          *)
Adds(ws, vs, code, does) ==
  /\ Len(vs) = Len(ws) + 1 /\ \A j \in 1 .. Len(ws) : vs[j] = ws[j]
  /\ vs[Len(vs)].code = code /\ vs[Len(vs)].does = does

(* The last word of the compilation wordlist has nothing in it yet, and    *)
(* nothing refers to it.                                                   *)
Fresh(s) ==
  /\ Len(s.words) \in 1 .. Len(s.words)
  /\ s.lists[s.current] # <<>> /\ LastWord(s) = Len(s.words)
  /\ s.newest = Len(s.words)
  /\ s.words[Len(s.words)].refs = {} /\ s.words[Len(s.words)].does = <<>>
  /\ \A j \in 1 .. Len(s.words) : Len(s.words) \notin s.words[j].refs

LEMMA VariableOk ==
  ASSUME NEW s, Good(s), NEW name \in AnyName, NEW t, t = CPP_variable(s, name)
  PROVE  Made(s, t, Entry(name)) /\ Fresh(t)
<1>1. PICK e : e = Entry(name)
  OBVIOUS
<1>2. /\ e \in EntryType /\ e.code = <<>> /\ e.does = <<>> /\ e.refs = {} /\ e.freed = FALSE
  BY <1>1, EntryTyped
<1>3. EntryOk(Append(s.words, e), Len(s.lists), e, Len(s.words) + 1)
  BY ONLY <1>2, EmptyOk
<1>4. Lacks(e.code, "vocabulary")
  <2>1. \A i \in 1 .. 0 : FALSE
    OBVIOUS
  <2> QED BY <1>2, <2>1, NoCode DEF Lacks
<1>5. t = CPP_create(s, e)
  BY <1>1 DEF CPP_variable
<1>6. Made(s, t, e)
  BY <1>2, <1>3, <1>4, <1>5, MadeOk
<1>7. Fresh(t)
  BY <1>2, <1>6 DEF Made, Fresh
<1> QED BY <1>1, <1>6, <1>7

(* A wordlist more.                                                        *)
LEMMA WordlistOk ==
  ASSUME NEW s, Good(s), NEW t, t = CPP_wordlist(s)
  PROVE  /\ t \in DictionaryType /\ Good(t) /\ (Pending(s) => Pending(t))
         /\ t.words = s.words /\ Len(t.lists) = Len(s.lists) + 1
         /\ t.order = s.order /\ t.current = s.current /\ t.new = s.new
         /\ t.lists[s.current] = s.lists[s.current]
         /\ t.newest = s.newest /\ t.missed = s.missed
         /\ \A r : In(s.lists, r) <=> In(t.lists, r)
<1>1. /\ s \in DictionaryType /\ Len(s.words) \in Nat
      /\ s.lists \in Seq(Seq(Nat)) /\ Len(s.lists) \in Nat /\ s.dict \in Seq(Nat)
      /\ s.current \in 1 .. Len(s.lists) /\ Len(s.dict) \in Nat
      /\ WordsOk(s.words, Len(s.lists)) /\ ListsOk(s.words, s.lists)
      /\ OrderIs(s.order, Len(s.lists)) /\ Len(s.lists) >= 3
      /\ \A i \in 1 .. Len(s.dict) : s.dict[i] \in 1 .. Len(s.lists)
  BY Facts DEF Good
<1>2. PICK n \in Nat : n = Len(s.lists)
  BY <1>1
<1>3. PICK e : e = <<>>
  OBVIOUS
<1>4. e \in Seq(Nat) /\ Len(e) = 0
  BY <1>3, NoCode
<1>5. PICK lists : lists = Append(s.lists, e)
  OBVIOUS
<1>6. /\ lists \in Seq(Seq(Nat)) /\ Len(lists) = n + 1 /\ lists[n + 1] = e
      /\ \A w \in 1 .. n : lists[w] = s.lists[w]
  BY ONLY <1>1, <1>2, <1>4, <1>5, Appended
<1>7. PICK dict : dict = Append(s.dict, n + 1)
  OBVIOUS
<1>8. /\ dict \in Seq(Nat) /\ Len(dict) = Len(s.dict) + 1 /\ dict[Len(s.dict) + 1] = n + 1
      /\ \A i \in 1 .. Len(s.dict) : dict[i] = s.dict[i]
  <2>1. n + 1 \in Nat
    OBVIOUS
  <2> QED BY ONLY <1>1, <1>7, <2>1, Appended
<1>9. t = [s EXCEPT !.lists = lists, !.dict = dict]
  BY <1>1, <1>2, <1>3, <1>5, <1>7 DEF CPP_wordlist, DictionaryType
<1>10. /\ t \in DictionaryType /\ t.words = s.words /\ t.lists = lists /\ t.dict = dict
       /\ t.order = s.order /\ t.current = s.current /\ t.new = s.new
       /\ t.newest = s.newest /\ t.missed = s.missed
  BY <1>1, <1>6, <1>8, <1>9 DEF DictionaryType
<1>11. \A w \in 1 .. n + 1 : w \in 1 .. n \/ w = n + 1
  OBVIOUS
<1>12. \A r : In(s.lists, r) <=> In(lists, r)
  <2>1. \A w \in 1 .. n : w \in 1 .. n + 1
    OBVIOUS
  <2>2. \A i \in 1 .. Len(lists[n + 1]) : FALSE
    BY <1>4, <1>6
  <2> QED BY <1>2, <1>6, <1>11, <2>1, <2>2 DEF In
<1>13. WordsOk(s.words, n + 1)
  <2>1. SameCode(s.words, s.words)
    BY DEF SameCode
  <2>2. n + 1 \in Nat /\ n <= n + 1
    OBVIOUS
  <2> QED BY <1>1, <1>2, <2>1, <2>2, SameCodeOk
<1>14. ListsOk(s.words, lists)
  <2>1. ListOk(s.words, e, n + 1)
    BY <1>4 DEF ListOk
  <2> QED BY <1>1, <1>2, <1>6, <1>11, <2>1 DEF ListsOk
<1>15. OrderIs(s.order, n + 1)
  <2>1. \A w \in 1 .. n : w \in 1 .. n + 1
    OBVIOUS
  <2> QED BY <1>1, <1>2, <2>1 DEF OrderIs
<1>16. \A i \in 1 .. Len(dict) : dict[i] \in 1 .. n + 1
  <2>1. \A i \in 1 .. Len(dict) : i \in 1 .. Len(s.dict) \/ i = Len(s.dict) + 1
    BY <1>1, <1>8
  <2>2. \A w \in 1 .. n : w \in 1 .. n + 1
    OBVIOUS
  <2>3. n + 1 \in 1 .. n + 1
    OBVIOUS
  <2>4. \A i \in 1 .. Len(s.dict) : dict[i] \in 1 .. n
    BY <1>1, <1>2, <1>8
  <2> QED BY <1>8, <2>1, <2>2, <2>3, <2>4
<1>17. n + 1 >= 3 /\ s.current \in 1 .. n + 1
  BY <1>1, <1>2
<1>18. Good(t)
  BY <1>6, <1>10, <1>13, <1>14, <1>15, <1>16, <1>17 DEF Good
<1>19. Pending(s) => Pending(t)
  BY <1>10, <1>12 DEF Pending
<1> QED BY <1>1, <1>2, <1>6, <1>10, <1>12, <1>18, <1>19

LEMMA VocabularyOk ==
  ASSUME NEW s, Good(s), NEW name \in AnyName, s.current # Root,
         NEW t, t = CPP_vocabulary(s, name)
  PROVE  /\ t \in DictionaryType /\ Good(t) /\ t.current = s.current /\ t.missed = s.missed
         /\ \E code : Adds(s.words, t.words, code, <<>>) /\ AllIn(code, {"vocabulary"})
<1>1. PICK u : u = CPP_wordlist(s)
  OBVIOUS
<1>2. /\ u \in DictionaryType /\ Good(u) /\ Len(u.lists) = Len(s.lists) + 1
      /\ u.current = s.current /\ u.missed = s.missed /\ u.words = s.words
  BY <1>1, WordlistOk
<1>3. Len(s.lists) \in Nat
  BY Facts DEF Good
<1>4. PICK c : c = WithWids("vocabulary", <<Len(s.lists) + 1>>)
  OBVIOUS
<1>5. PICK wids : wids = <<Len(s.lists) + 1>>
  OBVIOUS
<1>6. wids \in Seq(Nat) /\ wids # <<>> /\ wids[1] = Len(s.lists) + 1
  <2>1. PICK n \in Nat : n = Len(s.lists) + 1
    BY <1>3
  <2> QED BY <1>5, <2>1
<1>7. c \in CommandType /\ c.op = "vocabulary" /\ c.wids = wids
  BY <1>4, <1>5, <1>6, CommandTyped, ZenonT(40) DEF CommandOps, Compilable
<1>8. PICK code : code = <<c>>
  OBVIOUS
<1>9. code \in Seq(CommandType) /\ Len(code) = 1 /\ code[1] = c /\ \A i \in 1 .. 1 : i = 1
  <2>1. c \in CommandType
    BY <1>7
  <2> QED BY ONLY <1>8, <2>1
<1>10. PICK e : e = [Entry(name) EXCEPT !.nondeferred = TRUE, !.code = code]
  OBVIOUS
<1>11. /\ e \in EntryType /\ e.code = code /\ e.does = <<>> /\ e.refs = {} /\ e.freed = FALSE
       /\ e.nondeferred = TRUE
  <2>1. PICK e0 : e0 = Entry(name)
    OBVIOUS
  <2>2. /\ e0 \in EntryType /\ e0.does = <<>> /\ e0.refs = {} /\ e0.freed = FALSE
    BY <2>1, EntryTyped
  <2> QED BY <1>9, <1>10, <2>1, <2>2 DEF EntryType
<1>12. CodeOk(e.code)
  BY <1>7, <1>9, <1>11 DEF CodeOk, AllIn, Compilable
<1>13. \A i \in 1 .. Len(e.code) :
         Points(Append(u.words, e), Len(u.lists), e, Len(u.words) + 1, e.code[i])
  <2>1. Len(s.lists) + 1 \in 1 .. Len(u.lists)
    <3>1. \A n \in Nat : n + 1 \in 1 .. n + 1
      OBVIOUS
    <3> QED BY <1>2, <1>3, <3>1
  <2> QED BY <1>6, <1>7, <1>9, <1>11, <2>1 DEF Points
<1>14. EntryOk(Append(u.words, e), Len(u.lists), e, Len(u.words) + 1)
  <2>1. AllIn(e.does, Deferrable) /\ \A i \in 1 .. Len(e.does) : FALSE
    <3>1. \A i \in 1 .. 0 : FALSE
      OBVIOUS
    <3> QED BY <1>11, <3>1, NoCode DEF AllIn
  <2> QED BY <1>11, <1>12, <1>13, <2>1 DEF EntryOk
<1>15. t = CPP_create(u, e)
  BY <1>1, <1>4, <1>8, <1>10 DEF CPP_vocabulary
<1>16. Made(u, t, e)
  BY <1>2, <1>11, <1>14, <1>15, MadeOk
<1>17. AllIn(code, {"vocabulary"})
  BY <1>7, <1>9 DEF AllIn
<1>18. Adds(s.words, t.words, code, <<>>)
  BY <1>2, <1>11, <1>16 DEF Made, Adds
<1> QED BY <1>2, <1>16, <1>17, <1>18 DEF Made

(* What a wordlist has is a word, and was not freed.                       *)
LEMMA InIs ==
  ASSUME NEW s, Good(s), NEW r, In(s.lists, r)
  PROVE  r \in 1 .. Len(s.words) /\ ~s.words[r].freed /\ s.words[r] \in EntryType
<1>1. PICK w \in 1 .. Len(s.lists) : \E i \in 1 .. Len(s.lists[w]) : s.lists[w][i] = r
  BY DEF In
<1>2. PICK i \in 1 .. Len(s.lists[w]) : s.lists[w][i] = r
  BY <1>1
<1>3. PlaceOk(s.words, s.lists[w], w, i)
  BY DEF Good, ListsOk, ListOk
<1>4. r \in 1 .. Len(s.words) /\ ~s.words[r].freed
  BY <1>2, <1>3 DEF PlaceOk
<1> QED BY <1>4, Facts DEF Good

(* ALIAS: another name for the code of a word.                             *)
LEMMA AliasOk ==
  ASSUME NEW s, Good(s), NEW id, In(s.lists, id), \A r \in s.words[id].refs : In(s.lists, r),
         NEW name \in AnyName, s.current # Root, NEW t, t = CPP_alias(s, id, name)
  PROVE  /\ t \in DictionaryType /\ Good(t) /\ t.current = s.current /\ t.missed = s.missed
         /\ Adds(s.words, t.words, s.words[id].code, s.words[id].does)
<1>1. PICK ws : ws = s.words
  OBVIOUS
<1>2. PICK o : o = ws[id]
  OBVIOUS
<1>3. PICK e : e = [o EXCEPT !.name = name, !.refs = @ \cup {id}]
  OBVIOUS
<1>4. /\ ws \in Seq(EntryType) /\ Len(ws) \in Nat /\ id \in 1 .. Len(ws) /\ id \in Nat
      /\ o \in EntryType /\ ~o.freed /\ WordsOk(ws, Len(s.lists))
  <2>1. id \in 1 .. Len(ws) /\ ~o.freed /\ o \in EntryType
    BY <1>1, <1>2, InIs
  <2>2. ws \in Seq(EntryType) /\ Len(ws) \in Nat /\ WordsOk(ws, Len(s.lists))
    BY <1>1, Facts DEF Good
  <2>3. id \in Nat
    BY <2>1, <2>2
  <2> QED BY <2>1, <2>2, <2>3
<1>5. /\ e \in EntryType /\ e.refs = o.refs \cup {id} /\ e.code = o.code /\ e.does = o.does
      /\ e.nondeferred = o.nondeferred /\ e.freed = o.freed
  BY <1>3, <1>4 DEF EntryType
<1>6. PICK vs : vs = Append(ws, e)
  OBVIOUS
<1>7. /\ vs \in Seq(EntryType) /\ Len(vs) = Len(ws) + 1
      /\ \A j \in 1 .. Len(ws) : vs[j] = ws[j]
  BY ONLY <1>4, <1>5, <1>6, Appended
<1>8. EntryOk(ws, Len(s.lists), o, id)
  BY <1>2, <1>4 DEF WordsOk
<1>9. \A j \in e.refs : j \in 1 .. Len(ws) /\ vs[j] = ws[j]
  BY <1>4, <1>5, <1>7, <1>8 DEF EntryOk
<1>10. ASSUME NEW c, Points(ws, Len(s.lists), o, id, c)
       PROVE  Points(vs, Len(s.lists), e, Len(ws) + 1, c)
  <2>1. c.op = "vocabulary" => c.wids # <<>> /\ c.wids[1] \in 1 .. Len(s.lists)
    BY <1>10 DEF Points
  <2>2. c.op \in {"compile-name", "DOES>"} => c.id \in e.refs
    BY <1>5, <1>10 DEF Points
  <2>3. c.op \in {"compile-name", "DOES>"} => vs[c.id].refs \subseteq e.refs
    BY <1>5, <1>9, <1>10, <2>2 DEF Points
  <2>4. c.op = "compile-name" => AllIn(vs[c.id].code, Deferrable)
    BY <1>9, <1>10, <2>2 DEF Points
  <2> QED BY <2>1, <2>2, <2>3, <2>4 DEF Points
<1>11. EntryOk(vs, Len(s.lists), e, Len(ws) + 1)
  <2>1. e.refs \subseteq 1 .. Len(vs)
    BY <1>4, <1>7, <1>9
  <2> QED BY <1>5, <1>8, <1>10, <2>1 DEF EntryOk
<1>12. \A r \in e.refs : In(s.lists, r)
  BY <1>1, <1>2, <1>5
<1>13. t = CPP_create(s, e)
  BY <1>1, <1>2, <1>3 DEF CPP_alias
<1>14. EntryOk(Append(s.words, e), Len(s.lists), e, Len(s.words) + 1)
  BY <1>1, <1>6, <1>11
<1>15. Made(s, t, e)
  BY <1>4, <1>5, <1>12, <1>13, <1>14, MadeOk
<1>16. Adds(s.words, t.words, s.words[id].code, s.words[id].does)
  BY <1>1, <1>2, <1>5, <1>15 DEF Made, Adds
<1> QED BY <1>15, <1>16 DEF Made

(* : makes a word that no wordlist has.                                    *)
LEMMA ColonOk ==
  ASSUME NEW s, Good(s), NEW name \in AnyName, NEW t, t = NewEntry(s, Entry(name))
  PROVE  /\ t \in DictionaryType /\ Good(t) /\ Pending(t)
         /\ t.lists = s.lists /\ t.current = s.current /\ t.missed = s.missed /\ t.newest = s.newest
         /\ Adds(s.words, t.words, <<>>, <<>>)
<1>1. PICK e : e = Entry(name)
  OBVIOUS
<1>2. /\ e \in EntryType /\ e.code = <<>> /\ e.does = <<>> /\ e.refs = {} /\ e.freed = FALSE
  BY <1>1, EntryTyped
<1>3. PICK k : k = Len(s.words) + 1
  OBVIOUS
<1>4. EntryOk(Append(s.words, e), Len(s.lists), e, k)
  BY ONLY <1>2, EmptyOk
<1>5. t = NewEntry(s, e)
  BY <1>1
<1>6. /\ t \in DictionaryType /\ Good(t)
      /\ Len(t.words) = k /\ k \in 1 .. Len(t.words) /\ k \in Nat
      /\ t.words[k] = e /\ t.new = k
      /\ \A j \in 1 .. Len(s.words) : t.words[j] = s.words[j]
      /\ \A j \in 1 .. Len(s.words) : k \notin s.words[j].refs
      /\ ~In(t.lists, k)
      /\ t.lists = s.lists /\ t.dict = s.dict /\ t.order = s.order /\ t.current = s.current
      /\ t.newest = s.newest /\ t.missed = s.missed
  BY ONLY Good(s), <1>2, <1>3, <1>4, <1>5, NewEntryOk
<1>7. \A j \in 1 .. k : j \in 1 .. Len(s.words) \/ j = k
  <2>1. Len(s.words) \in Nat
    BY Facts DEF Good
  <2> QED BY <1>3, <2>1
<1>8. \A j \in 1 .. Len(t.words) : k \notin t.words[j].refs
  BY <1>2, <1>6, <1>7
<1>9. Lacks(t.words[k].code, "vocabulary")
  <2>1. \A i \in 1 .. 0 : FALSE
    OBVIOUS
  <2>2. t.words[k].code = <<>>
    BY <1>2, <1>6
  <2> QED BY <2>1, <2>2, NoCode DEF Lacks
<1>10. Pending(t)
  BY <1>2, <1>6, <1>8, <1>9 DEF Pending
<1>11. Adds(s.words, t.words, <<>>, <<>>)
  BY <1>2, <1>3, <1>6 DEF Adds
<1> QED BY <1>6, <1>10, <1>11

-----------------------------------------------------------------------------
(* Removing words *)

LEMMA LeastExists ==
  ASSUME NEW T, T \subseteq Nat, T # {}
  PROVE  \E x \in T : \A y \in T : x <= y
<1> DEFINE R == {ss \in Nat \X Nat : ss[1] < ss[2]}
<1>1. IsWellFoundedOn(R, Nat)
  BY NatLessThanWellFounded DEF OpToRel
<1>2. PICK x \in T : \A y \in T : ~ (<<y, x>> \in R)
  <2> HIDE DEF R
  <2> QED BY <1>1, WFMin
<1>3. ASSUME NEW y \in T PROVE x <= y
  <2>1. x \in Nat /\ y \in Nat
    OBVIOUS
  <2>2. <<y, x>> \in Nat \X Nat
    BY <2>1
  <2>3. ~ (y < x)
    BY <1>2, <2>2, Z3
  <2> QED BY <2>1, <2>3
<1> QED BY <1>3

LEMMA MinIs ==
  ASSUME NEW T, T \subseteq Nat, T # {}
  PROVE  Min(T) \in T /\ \A y \in T : Min(T) <= y
<1>1. \E x \in T : \A y \in T : x <= y
  BY LeastExists
<1> QED BY <1>1 DEF Min

LEMMA MaxIs ==
  ASSUME NEW n \in Nat, NEW T, T \subseteq 1 .. n, T # {}
  PROVE  Max(T) \in T
<1> DEFINE U == {n - y : y \in T}
<1>1. \A y \in T : y \in 1 .. n /\ n - y \in Nat
  OBVIOUS
<1>2. U \subseteq Nat /\ U # {}
  BY <1>1
<1>3. PICK u \in U : \A v \in U : u <= v
  <2> HIDE DEF U
  <2> QED BY <1>2, LeastExists
<1>4. PICK x \in T : u = n - x
  OBVIOUS
<1>5. ASSUME NEW y \in T PROVE x >= y
  <2>1. n - y \in U /\ x \in 1 .. n /\ y \in 1 .. n
    OBVIOUS
  <2>2. n - x <= n - y
    BY <1>3, <1>4, <2>1
  <2> QED BY <2>1, <2>2
<1>6. \E z \in T : \A y \in T : z >= y
  BY <1>5
<1> QED BY <1>6 DEF Max

(* Words are freed, and the wordlists shrink.                              *)
Shrunk(lists, new, gone) ==
  /\ new \in Seq(Seq(Nat)) /\ Len(new) = Len(lists)
  /\ \A w \in 1 .. Len(lists) :
       /\ Len(new[w]) \in Nat /\ Len(new[w]) <= Len(lists[w])
       /\ \A i \in 1 .. Len(new[w]) : new[w][i] = lists[w][i] /\ new[w][i] \notin gone

(* Words lose what they have.                                              *)
Sheds(ws, vs) ==
  /\ Len(vs) = Len(ws)
  /\ \A k \in 1 .. Len(ws) : vs[k] = ws[k] \/ (vs[k].code = <<>> /\ vs[k].does = <<>>)

LEMMA FreeOk ==
  ASSUME NEW s, Good(s), NEW new, NEW gone, Shrunk(s.lists, new, gone),
         NEW t, t = Free([s EXCEPT !.lists = new], gone)
  PROVE  /\ t \in DictionaryType /\ Good(t)
         /\ t.lists = new /\ t.order = s.order /\ t.current = s.current /\ t.missed = s.missed
         /\ t.dict = s.dict /\ Sheds(s.words, t.words)
<1>1. PICK ws : ws = s.words
  OBVIOUS
<1>2. PICK vs : vs = [id \in DOMAIN ws |-> IF id \in gone THEN Freed(ws[id]) ELSE ws[id]]
  OBVIOUS
<1>3. /\ s \in DictionaryType /\ ws \in Seq(EntryType) /\ Len(ws) \in Nat /\ DOMAIN ws = 1 .. Len(ws)
      /\ s.lists \in Seq(Seq(Nat)) /\ Len(s.lists) \in Nat /\ s.newest \in Nat
      /\ \A k \in 1 .. Len(ws) : ws[k] \in EntryType
      /\ WordsOk(ws, Len(s.lists)) /\ ListsOk(ws, s.lists)
  BY <1>1, Facts DEF Good
<1>4. /\ vs \in Seq(EntryType) /\ Len(vs) = Len(ws)
      /\ \A k \in 1 .. Len(ws) : vs[k] = IF k \in gone THEN Freed(ws[k]) ELSE ws[k]
  <2>1. \A k \in 1 .. Len(ws) : (IF k \in gone THEN Freed(ws[k]) ELSE ws[k]) \in EntryType
    BY <1>3, FreedTyped
  <2>2. vs \in [1 .. Len(ws) -> EntryType]
    BY <1>2, <1>3, <2>1
  <2>a. Len(ws) \in Nat
    BY <1>3
  <2>3. vs \in Seq(EntryType) /\ Len(vs) = Len(ws)
    BY ONLY <2>a, <2>2, FunctionIsSeq
  <2> QED BY <1>2, <1>3, <2>3
<1>5. WordsOk(vs, Len(s.lists)) /\ ListsOk(vs, new)
  BY <1>3, <1>4, RemovedOk DEF Shrunk
<1>6. PICK m \in Nat : m = IF s.newest \in gone THEN NoWord ELSE s.newest
  BY <1>3 DEF NoWord
<1>7. t = [s EXCEPT !.lists = new, !.words = vs, !.newest = m]
  BY <1>1, <1>2, <1>3, <1>6 DEF Free, DictionaryType
<1>8. /\ t \in DictionaryType /\ t.lists = new /\ t.words = vs
      /\ t.order = s.order /\ t.current = s.current /\ t.missed = s.missed /\ t.dict = s.dict
  BY <1>3, <1>4, <1>7 DEF DictionaryType, Shrunk
<1>9. Good(t)
  BY <1>5, <1>8 DEF Good, Shrunk
<1>10. ASSUME NEW k \in 1 .. Len(ws)
       PROVE  vs[k] = ws[k] \/ (vs[k].code = <<>> /\ vs[k].does = <<>>)
  <2>1. CASE k \in gone
    <3>1. PICK e \in EntryType : e = ws[k]
      BY <1>3
    <3>2. vs[k] = Freed(e)
      BY <1>4, <2>1, <3>1
    <3> QED BY <3>2, FreedTyped
  <2>2. CASE k \notin gone
    BY <1>4, <2>2
  <2> QED BY <2>1, <2>2
<1>11. Sheds(s.words, t.words)
  BY <1>1, <1>4, <1>8, <1>10 DEF Sheds
<1> QED BY <1>8, <1>9, <1>11

(* Words in different places of the wordlists are different.               *)
LEMMA OneHome ==
  ASSUME NEW s, Good(s),
         NEW w \in 1 .. Len(s.lists), NEW i \in 1 .. Len(s.lists[w]),
         NEW v \in 1 .. Len(s.lists), NEW j \in 1 .. Len(s.lists[v]),
         s.lists[w][i] = s.lists[v][j]
  PROVE  w = v /\ i = j
<1>1. PlaceOk(s.words, s.lists[w], w, i) /\ PlaceOk(s.words, s.lists[v], v, j)
  BY DEF Good, ListsOk, ListOk
<1>2. w = v
  BY <1>1 DEF PlaceOk
<1> QED BY <1>1, <1>2 DEF PlaceOk

(* FORGET: the word and the later ones of its wordlist.                    *)
LEMMA ForgetOk ==
  ASSUME NEW s, Good(s), NEW name, NEW t, t = CPP_forget(s, name)
  PROVE  /\ t \in DictionaryType /\ Good(t) /\ t.current = s.current /\ t.missed = s.missed
         /\ Sheds(s.words, t.words)
<1>1. PICK c \in 1 .. Len(s.lists) : c = s.current
  BY DEF Good
<1>2. PICK list : list = s.lists[c]
  OBVIOUS
<1>3. PICK id : id = GetFromName(s.words, list, name)
  OBVIOUS
<1>4. PICK kept : kept = Min({i \in DOMAIN list : list[i] = id}) - 1
  OBVIOUS
<1>5. PICK gone : gone = Range(SubSeq(list, kept + 1, Len(list)))
  OBVIOUS
<1>6. PICK new : new = [s.lists EXCEPT ![c] = SubSeq(list, 1, kept)]
  OBVIOUS
<1>7. t = IF id = NoWord THEN s ELSE Free([s EXCEPT !.lists = new], gone)
  <2>1. s.lists[s.current] = list
    BY <1>1, <1>2
  <2>2. [s EXCEPT !.lists[s.current] = SubSeq(list, 1, kept)] = [s EXCEPT !.lists = new]
    BY <1>1, <1>6 DEF Good, DictionaryType
  <2> QED BY <1>3, <1>4, <1>5, <2>1, <2>2 DEF CPP_forget
<1>8. CASE id = NoWord
  BY <1>7, <1>8 DEF Good, Sheds
<1>9. CASE id # NoWord
  <2>1. /\ s.lists \in Seq(Seq(Nat)) /\ Len(s.lists) \in Nat
        /\ list \in Seq(Nat) /\ Len(list) \in Nat /\ DOMAIN list = 1 .. Len(list)
        /\ \A w \in 1 .. Len(s.lists) : Len(s.lists[w]) \in Nat
    BY <1>2, Facts DEF Good
  <2>2. PICK T : T = {i \in DOMAIN list : list[i] = id}
    OBVIOUS
  <2>3. T # {}
    <3>1. PICK hits : hits = {i \in DOMAIN list : s.words[list[i]].name = name}
      OBVIOUS
    <3>2. hits # {} /\ id = list[Max(hits)]
      BY <1>3, <1>9, <3>1 DEF GetFromName
    <3>3. hits \subseteq 1 .. Len(list)
      BY <2>1, <3>1
    <3>4. Max(hits) \in hits
      BY <2>1, <3>2, <3>3, MaxIs
    <3> QED BY <2>1, <2>2, <3>2, <3>3, <3>4
  <2>4. T \subseteq 1 .. Len(list) /\ T \subseteq Nat
    BY <2>1, <2>2
  <2>5. Min(T) \in 1 .. Len(list)
    BY <2>3, <2>4, MinIs
  <2>6. kept \in Nat /\ kept < Len(list) /\ kept + 1 \in 1 .. Len(list)
    BY <1>4, <2>1, <2>2, <2>5
  <2>7. PICK front : front = SubSeq(list, 1, kept)
    OBVIOUS
  <2>8. PICK back : back = SubSeq(list, kept + 1, Len(list))
    OBVIOUS
  <2>9. /\ front \in Seq(Nat) /\ Len(front) = kept
        /\ \A i \in 1 .. kept : front[i] = list[i]
    <3>1. kept \in 0 .. Len(list)
      BY <2>1, <2>6
    <3>2. \A i \in 1 .. Len(list) : list[i] \in Nat
      BY <2>1, Elements
    <3> QED BY ONLY <2>1, <2>6, <2>7, <3>1, <3>2, SubSeqProperties
  <2>10. \A x \in gone : \E j \in kept + 1 .. Len(list) : x = list[j]
    <3>0. \A i \in 1 .. Len(list) : list[i] \in Nat
      BY <2>1, Elements
    <3>1. /\ back \in Seq(Nat) /\ Len(back) = Len(list) - kept
          /\ \A i \in 1 .. Len(list) - kept : back[i] = list[kept + i]
      <4>1. /\ kept + 1 \in 1 .. Len(list) /\ Len(list) \in kept + 1 .. Len(list)
            /\ kept + 1 \in Nat
        BY <2>1, <2>6
      <4>2. PICK m \in Nat : m = kept + 1
        BY <4>1
      <4>3. PICK n \in Nat : n = Len(list)
        BY <2>1
      <4>4. back = SubSeq(list, m, n) /\ m \in Int /\ n \in Int /\ m <= n
        BY <2>8, <4>1, <4>2, <4>3
      <4>5. \A i \in m .. n : list[i] \in Nat
        BY <3>0, <4>1, <4>2, <4>3
      <4>6. /\ back \in Seq(Nat) /\ Len(back) = n - m + 1
            /\ \A i \in 1 .. n - m + 1 : back[i] = list[m + i - 1]
        BY ONLY <4>4, <4>5, SubSeqProperties
      <4>7. n - m + 1 = Len(list) - kept /\ \A i \in Nat : m + i - 1 = kept + i
        BY <2>6, <4>2, <4>3
      <4>8. \A i \in 1 .. Len(list) - kept : m + i - 1 = kept + i
        BY <4>7
      <4> QED BY ONLY <4>6, <4>7, <4>8
    <3>2. \A x \in gone : \E i \in 1 .. Len(list) - kept : x = back[i]
      <4>1. DOMAIN back = 1 .. Len(list) - kept
        BY <3>1, LenProperties
      <4> QED BY <1>5, <2>8, <4>1 DEF Range
    <3>3. \A i \in 1 .. Len(list) - kept : kept + i \in kept + 1 .. Len(list)
      BY <2>1, <2>6
    <3> QED BY <3>1, <3>2, <3>3
  <2>11. /\ new \in Seq(Seq(Nat)) /\ Len(new) = Len(s.lists)
         /\ \A w \in 1 .. Len(s.lists) : new[w] = IF w = c THEN front ELSE s.lists[w]
    <3>1. new = [s.lists EXCEPT ![c] = front]
      BY <1>6, <2>7
    <3>2. s.lists \in Seq(Seq(Nat)) /\ front \in Seq(Nat)
      BY <2>1, <2>9
    <3> QED BY ONLY c \in 1 .. Len(s.lists), <3>1, <3>2, ExceptSeq
  <2>12. ASSUME NEW w \in 1 .. Len(s.lists)
         PROVE  /\ Len(new[w]) \in Nat /\ Len(new[w]) <= Len(s.lists[w])
                /\ \A i \in 1 .. Len(new[w]) : new[w][i] = s.lists[w][i] /\ new[w][i] \notin gone
    <3>1. CASE w = c
      <4>1. new[w] = front /\ s.lists[w] = list
        BY <1>2, <2>11, <3>1
      <4>2. ASSUME NEW i \in 1 .. kept PROVE list[i] \notin gone
        <5>1. SUFFICES ASSUME list[i] \in gone PROVE FALSE
          OBVIOUS
        <5>2. PICK j \in kept + 1 .. Len(list) : list[i] = list[j]
          BY <2>10, <5>1
        <5>3. i \in 1 .. Len(list) /\ j \in 1 .. Len(list) /\ i # j
          BY <2>1, <2>6, SMTT(30)
        <5> QED BY <1>2, <5>2, <5>3, OneHome
      <4> QED BY <2>1, <2>6, <2>9, <4>1, <4>2
    <3>2. CASE w # c
      <4>1. new[w] = s.lists[w]
        BY <2>11, <3>2
      <4>2. ASSUME NEW i \in 1 .. Len(s.lists[w]) PROVE s.lists[w][i] \notin gone
        <5>1. SUFFICES ASSUME s.lists[w][i] \in gone PROVE FALSE
          OBVIOUS
        <5>2. PICK j \in kept + 1 .. Len(list) : s.lists[w][i] = list[j]
          BY <2>10, <5>1
        <5>3. j \in 1 .. Len(list)
          BY <2>1, <2>6
        <5> QED BY <1>2, <3>2, <5>2, <5>3, OneHome
      <4> QED BY <2>1, <4>1, <4>2, SMTT(30)
    <3> QED BY <3>1, <3>2
  <2>13. t = Free([s EXCEPT !.lists = new], gone)
    BY <1>7, <1>9
  <2>14. Shrunk(s.lists, new, gone)
    BY <2>11, <2>12 DEF Shrunk
  <2> QED BY ONLY Good(s), <2>13, <2>14, FreeOk, SMTT(30)
<1> QED BY <1>8, <1>9

(* COLD: every word of the wordlists of Dictionary.                        *)
LEMMA ColdOk ==
  ASSUME NEW s, Good(s), NEW t, t = CPP_cold(s)
  PROVE  /\ t \in DictionaryType /\ Good(t) /\ t.current = Forth /\ t.missed = s.missed
         /\ Sheds(s.words, t.words)
<1>1. /\ s \in DictionaryType /\ s.lists \in Seq(Seq(Nat)) /\ Len(s.lists) \in Nat
      /\ DOMAIN s.lists = 1 .. Len(s.lists) /\ Len(s.lists) >= 3
      /\ \A w \in 1 .. Len(s.lists) : s.lists[w] \in Seq(Nat) /\ Len(s.lists[w]) \in Nat
      /\ OrderIs(s.order, Len(s.lists))
  BY Facts DEF Good
<1>2. PICK W : W = Range(s.dict)
  OBVIOUS
<1>3. PICK new : new = [w \in DOMAIN s.lists |-> IF w \in W THEN <<>> ELSE s.lists[w]]
  OBVIOUS
<1>4. PICK gone : gone = UNION {Range(s.lists[w]) : w \in W}
  OBVIOUS
<1>5. W \subseteq 1 .. Len(s.lists)
  <2>1. DOMAIN s.dict = 1 .. Len(s.dict)
    BY <1>1, Elements DEF DictionaryType
  <2> QED BY <1>2, <2>1 DEF Range, Good
<1>6. /\ new \in Seq(Seq(Nat)) /\ Len(new) = Len(s.lists)
      /\ \A w \in 1 .. Len(s.lists) : new[w] = IF w \in W THEN <<>> ELSE s.lists[w]
  <2>1. \A w \in 1 .. Len(s.lists) : (IF w \in W THEN <<>> ELSE s.lists[w]) \in Seq(Nat)
    BY <1>1, NoCode
  <2>2. new \in [1 .. Len(s.lists) -> Seq(Nat)]
    BY <1>1, <1>3, <2>1
  <2>a. Len(s.lists) \in Nat
    BY <1>1
  <2>3. new \in Seq(Seq(Nat)) /\ Len(new) = Len(s.lists)
    BY ONLY <2>a, <2>2, FunctionIsSeq
  <2> QED BY <1>1, <1>3, <2>3
<1>7. \A x \in gone : \E w \in W : \E j \in 1 .. Len(s.lists[w]) : x = s.lists[w][j]
  <2>1. \A w \in W : DOMAIN s.lists[w] = 1 .. Len(s.lists[w])
    BY <1>1, <1>5, Facts
  <2> QED BY <1>4, <2>1 DEF Range
<1>8. ASSUME NEW w \in 1 .. Len(s.lists)
      PROVE  /\ Len(new[w]) \in Nat /\ Len(new[w]) <= Len(s.lists[w])
             /\ \A i \in 1 .. Len(new[w]) : new[w][i] = s.lists[w][i] /\ new[w][i] \notin gone
  <2>1. CASE w \in W
    <3>1. Len(new[w]) = 0 /\ \A i \in 1 .. 0 : FALSE
      <4>1. \A i \in 1 .. 0 : FALSE
        OBVIOUS
      <4> QED BY <1>6, <2>1, <4>1, NoCode
    <3> QED BY <1>1, <3>1
  <2>2. CASE w \notin W
    <3>1. new[w] = s.lists[w]
      BY <1>6, <2>2
    <3>2. ASSUME NEW i \in 1 .. Len(s.lists[w]) PROVE s.lists[w][i] \notin gone
      <4>1. SUFFICES ASSUME s.lists[w][i] \in gone PROVE FALSE
        OBVIOUS
      <4>2. PICK v \in W : \E j \in 1 .. Len(s.lists[v]) : s.lists[w][i] = s.lists[v][j]
        BY <1>7, <4>1
      <4>3. PICK j \in 1 .. Len(s.lists[v]) : s.lists[w][i] = s.lists[v][j]
        BY <4>2
      <4> QED BY <1>5, <2>2, <4>3, OneHome
    <3> QED BY <1>1, <3>1, <3>2
  <2> QED BY <2>1, <2>2
<1>9. PICK u : u = Free([s EXCEPT !.lists = new], gone)
  OBVIOUS
<1>10. /\ u \in DictionaryType /\ Good(u)
       /\ u.lists = new /\ u.order = s.order /\ u.missed = s.missed /\ Sheds(s.words, u.words)
  <2>1. Shrunk(s.lists, new, gone)
    BY <1>6, <1>8 DEF Shrunk
  <2> QED BY ONLY Good(s), <1>9, <2>1, FreeOk
<1>11. PICK dict : dict = <<Root, Forth, Assembler>>
  OBVIOUS
<1>12. PICK order : order = s.order \o <<Forth, Root>>
  OBVIOUS
<1>13. t = [u EXCEPT !.dict = dict, !.order = order, !.current = Forth, !.new = NoWord]
  <2>1. u = Free([s EXCEPT !.lists = [w \in DOMAIN @ |-> IF w \in W THEN <<>> ELSE @[w]]], gone)
    BY <1>1, <1>3, <1>9 DEF DictionaryType
  <2> QED BY <1>2, <1>4, <1>10, <1>11, <1>12, <2>1, ZenonT(40) DEF CPP_cold, DictionaryType
<1>14. /\ dict \in Seq(Nat) /\ Len(dict) = 3 /\ \A i \in 1 .. 3 : dict[i] \in 1 .. Len(new)
  <2>1. dict \in Seq(Nat) /\ Len(dict) = 3 /\ dict[1] = 1 /\ dict[2] = 2 /\ dict[3] = 3
    BY <1>11 DEF Root, Forth, Assembler
  <2>2. \A i \in 1 .. 3 : i = 1 \/ i = 2 \/ i = 3
    OBVIOUS
  <2>3. 1 \in 1 .. Len(new) /\ 2 \in 1 .. Len(new) /\ 3 \in 1 .. Len(new)
    BY <1>1, <1>6
  <2> QED BY <2>1, <2>2, <2>3
<1>15. OrderIs(order, Len(new)) /\ order \in Seq(Nat)
  BY <1>1, <1>6, <1>12, OrderCold DEF OrderIs
<1>16. /\ t \in DictionaryType /\ t.dict = dict /\ t.order = order /\ t.current = Forth
       /\ t.words = u.words /\ t.lists = new /\ t.missed = s.missed
  <2>1. u \in DictionaryType /\ dict \in Seq(Nat) /\ order \in Seq(Nat)
    BY <1>10, <1>14, <1>15
  <2>2. t \in DictionaryType
    BY ONLY <1>13, <2>1 DEF DictionaryType, Forth, NoWord
  <2>3. u.lists = new /\ u.missed = s.missed
    BY <1>10
  <2>4. /\ t.dict = dict /\ t.order = order /\ t.current = Forth
        /\ t.words = u.words /\ t.lists = u.lists /\ t.missed = u.missed
    BY ONLY <1>13, <2>1 DEF DictionaryType
  <2> QED BY <2>2, <2>3, <2>4
<1>17. Forth \in 1 .. Len(new)
  BY <1>1, <1>6 DEF Forth
<1>18. Good(t)
  BY <1>1, <1>6, <1>10, <1>14, <1>15, <1>16, <1>17 DEF Good
<1> QED BY <1>10, <1>16, <1>18

-----------------------------------------------------------------------------
(* Code that words take from others *)

LEMMA DeferrableIs ==
  /\ Deferrable \subseteq Compilable /\ Deferrable \subseteq CommandOps
  /\ "vocabulary" \notin Deferrable /\ "DOES>" \notin Deferrable /\ "VARIABLE" \notin Deferrable
  BY DEF Deferrable, Compilable, CommandOps, Marks

LEMMA DeferrableOk ==
  ASSUME NEW code, AllIn(code, Deferrable)
  PROVE  CodeOk(code) /\ Lacks(code, "vocabulary") /\ Lacks(code, "DOES>")
<1>1. AllIn(code, Compilable)
  BY DeferrableIs DEF AllIn
<1>2. Lacks(code, "vocabulary") /\ Lacks(code, "DOES>")
  BY DeferrableIs DEF AllIn, Lacks
<1> QED BY <1>1, <1>2 DEF CodeOk, Lacks

(* A command of word id becomes one of a word that refers to id, and to    *)
(* all that id refers to.                                                  *)
LEMMA PointsTaken ==
  ASSUME NEW ws, NEW vs, NEW n, NEW id, NEW e, NEW k, NEW c,
         Points(ws, n, ws[id], id, c), c.op \in Compilable,
         {id} \cup ws[id].refs \subseteq e.refs,
         \A j \in {id} \cup ws[id].refs : vs[j] = ws[j]
  PROVE  Points(vs, n, e, k, c)
<1>1. c.op = "vocabulary" => c.wids # <<>> /\ c.wids[1] \in 1 .. n
  BY DEF Points
<1>2. c.op = "compile-name" => c.id \in e.refs /\ AllIn(vs[c.id].code, Deferrable)
  BY DEF Points
<1>3. c.op = "DOES>" => c.id \in e.refs
  BY DEF Points
<1>4. c.op \in {"compile-name", "DOES>"} => vs[c.id].refs \subseteq e.refs
  BY DEF Points
<1> QED BY <1>1, <1>2, <1>3, <1>4 DEF Points

(* DOES>: the last word gets code of another.                              *)
DoesSet(s, t) ==
  /\ t \in DictionaryType /\ Good(t)
  /\ Len(t.words) = Len(s.words)
  /\ \A j \in 1 .. Len(s.words) : j # Len(s.words) => t.words[j] = s.words[j]
  /\ t.lists = s.lists /\ t.order = s.order /\ t.current = s.current
  /\ t.newest = s.newest /\ t.missed = s.missed /\ t.new = s.new

LEMMA DoesOk ==
  ASSUME NEW s, Good(s), Fresh(s), NEW c, In(s.lists, c.id), c.id # Len(s.words),
         \A r \in s.words[c.id].refs : In(s.lists, r), NEW t, t = CPP_does(s, c)
  PROVE  /\ DoesSet(s, t)
         /\ t.words[Len(s.words)].code = s.words[c.id].does /\ t.words[Len(s.words)].does = <<>>
<1>1. PICK ws : ws = s.words
  OBVIOUS
<1>2. PICK k : k = Len(ws)
  OBVIOUS
<1>3. PICK id : id = c.id
  OBVIOUS
<1>4. PICK n \in Nat : n = Len(s.lists)
  BY Facts DEF Good
<1>5. /\ s \in DictionaryType /\ ws \in Seq(EntryType) /\ Len(ws) \in Nat /\ k \in 1 .. Len(ws)
      /\ WordsOk(ws, n) /\ ListsOk(ws, s.lists) /\ s.current \in 1 .. n
      /\ LastWord(s) = k /\ s.lists[s.current] # <<>> /\ k \in Nat
      /\ ws[k] \in EntryType /\ ws[k].refs = {} /\ ws[k].does = <<>>
      /\ \A j \in 1 .. Len(ws) : k \notin ws[j].refs
  BY <1>1, <1>2, <1>4, Facts DEF Good, Fresh
<1>6. id \in 1 .. Len(ws) /\ id # k /\ ws[id] \in EntryType
  BY <1>1, <1>2, <1>3, InIs
<1>7. PICK f : f = [ws[k] EXCEPT !.code = ws[id].does, !.refs = {id} \cup ws[id].refs]
  OBVIOUS
<1>8. /\ f \in EntryType /\ f.code = ws[id].does /\ f.refs = {id} \cup ws[id].refs /\ f.does = <<>>
      /\ f.home = ws[k].home /\ f.freed = ws[k].freed
  <2>1. ws[id].does \in Seq(CommandType) /\ {id} \cup ws[id].refs \subseteq Nat
    <3>1. id \in Nat
      BY <1>5, <1>6
    <3>2. ws[id].does \in Seq(CommandType) /\ ws[id].refs \subseteq Nat
      BY <1>6 DEF EntryType
    <3> QED BY <3>1, <3>2
  <2>2. ws[k] \in EntryType /\ ws[k].does = <<>>
    BY <1>5
  <2> QED BY ONLY <1>7, <2>1, <2>2 DEF EntryType
<1>9. PICK vs : vs = [ws EXCEPT ![k] = f]
  OBVIOUS
<1>10. /\ vs \in Seq(EntryType) /\ Len(vs) = Len(ws) /\ vs[k] = f
       /\ \A j \in 1 .. Len(ws) : j # k => vs[j] = ws[j]
  BY <1>5, <1>8, <1>9, ExceptSeq
<1>11. EntryOk(ws, n, ws[id], id)
  BY <1>5, <1>6 DEF WordsOk
<1>12. \A j \in {id} \cup ws[id].refs : j \in 1 .. Len(ws) /\ j # k /\ vs[j] = ws[j]
  BY <1>5, <1>6, <1>10, <1>11 DEF EntryOk
<1>13. EntryOk(vs, n, f, k)
  <2>1. AllIn(f.code, Deferrable) /\ CodeOk(f.code)
    BY <1>8, <1>11, DeferrableOk DEF EntryOk
  <2>2. AllIn(f.does, Deferrable) /\ \A i \in 1 .. Len(f.does) : FALSE
    <3>1. \A i \in 1 .. 0 : FALSE
      OBVIOUS
    <3> QED BY <1>8, <3>1, NoCode DEF AllIn
  <2>3. f.refs \subseteq 1 .. Len(vs)
    BY <1>8, <1>10, <1>12
  <2>4. ASSUME NEW i \in 1 .. Len(f.code) PROVE Points(vs, n, f, k, f.code[i])
    <3>1. Points(ws, n, ws[id], id, f.code[i]) /\ f.code[i].op \in Compilable
      BY <1>8, <1>11, <2>1 DEF EntryOk, CodeOk, AllIn
    <3>2. {id} \cup ws[id].refs \subseteq f.refs
      BY <1>8
    <3> QED BY ONLY <1>12, <3>1, <3>2, PointsTaken
  <2> QED BY <2>1, <2>2, <2>3, <2>4 DEF EntryOk
<1>14. WordsOk(vs, n)
  BY <1>5, <1>10, <1>13, ReplacedOk
<1>15. PICK list : list = s.lists[s.current]
  OBVIOUS
<1>16. /\ Len(list) \in Nat /\ Len(list) \in 1 .. Len(list) /\ list[Len(list)] = k
  BY <1>5, <1>15, LastWordIs
<1>17. \A w \in 1 .. n : \A i \in 1 .. Len(s.lists[w]) :
         s.lists[w][i] = k => w = s.current /\ i = Len(list)
  <2>1. PICK c0 \in 1 .. n : c0 = s.current
    BY <1>5
  <2>2. Len(list) \in 1 .. Len(s.lists[c0]) /\ s.lists[c0][Len(list)] = k
    BY <1>15, <1>16, <2>1
  <2>3. \A w \in 1 .. n : \A i \in 1 .. Len(s.lists[w]) :
          s.lists[w][i] = k => w = c0 /\ i = Len(list)
    BY <1>4, <2>2, OneHome
  <2> QED BY <2>1, <2>3
<1>18. ASSUME NEW w \in 1 .. n PROVE ListOk(vs, s.lists[w], w)
  <2>1. ListOk(ws, s.lists[w], w)
    BY <1>4, <1>5 DEF ListsOk
  <2>2. CASE w # s.current
    <3>1. \A i \in 1 .. Len(s.lists[w]) : s.lists[w][i] # k
      BY <1>17, <2>2
    <3> QED BY <1>5, <1>10, <2>1, <3>1, OthersOk
  <2>3. CASE w = s.current
    <3>1. ListOk(ws, list, w) /\ s.lists[w] = list
      BY <1>15, <2>1, <2>3
    <3>2. ASSUME NEW i \in 1 .. Len(list), i # Len(list) PROVE PlaceOk(vs, list, w, i)
      <4>1. PlaceOk(ws, list, w, i) /\ list[i] # k /\ list[i] \in 1 .. Len(ws)
        BY <1>17, <3>1, <3>2, SMTT(30) DEF ListOk, PlaceOk
      <4>2. vs[list[i]] = ws[list[i]]
        BY <1>10, <4>1
      <4>3. \A r \in ws[list[i]].refs : r \in 1 .. Len(ws) /\ r # k /\ vs[r] = ws[r]
        BY <1>5, <1>10, <4>1 DEF WordsOk, EntryOk
      <4> QED BY <1>10, <4>1, <4>2, <4>3 DEF PlaceOk
    <3>3. PlaceOk(vs, list, w, Len(list))
      <4>1. PlaceOk(ws, list, w, Len(list))
        BY <1>16, <3>1 DEF ListOk
      <4>2. ASSUME NEW r \in f.refs, vs[r].home = w
            PROVE  \E j \in 1 .. Len(list) - 1 : list[j] = r
        <5>1. In(s.lists, r) /\ r # k /\ ws[r].home = w
          BY <1>1, <1>3, <1>8, <1>12, <4>2
        <5>2. PICK v \in 1 .. n : \E i \in 1 .. Len(s.lists[v]) : s.lists[v][i] = r
          BY <1>4, <5>1 DEF In
        <5>3. PICK i \in 1 .. Len(s.lists[v]) : s.lists[v][i] = r
          BY <5>2
        <5>4. PlaceOk(ws, s.lists[v], v, i)
          BY <1>4, <1>5 DEF ListsOk, ListOk
        <5>5. v = w
          BY <5>1, <5>3, <5>4 DEF PlaceOk
        <5>6. i \in 1 .. Len(list) /\ list[i] = r /\ i # Len(list)
          BY <1>16, <3>1, <5>1, <5>3, <5>5
        <5>7. i \in 1 .. Len(list) - 1
          BY <1>16, <5>6
        <5> QED BY <5>6, <5>7
      <4>3. Lacks(f.code, "vocabulary")
        BY <1>8, <1>11, DeferrableOk DEF EntryOk
      <4> QED BY <1>8, <1>10, <1>16, <4>1, <4>2, <4>3 DEF PlaceOk
    <3> QED BY <3>1, <3>2, <3>3 DEF ListOk
  <2> QED BY <2>2, <2>3
<1>19. ListsOk(vs, s.lists)
  BY <1>4, <1>18 DEF ListsOk
<1>20. t = [s EXCEPT !.words = vs]
  BY <1>1, <1>3, <1>5, <1>7, <1>9 DEF CPP_does, DictionaryType
<1>21. /\ t \in DictionaryType /\ t.words = vs
       /\ t.lists = s.lists /\ t.order = s.order /\ t.current = s.current /\ t.dict = s.dict
       /\ t.newest = s.newest /\ t.missed = s.missed /\ t.new = s.new
  BY <1>5, <1>10, <1>20 DEF DictionaryType
<1>22. Good(t)
  BY <1>4, <1>14, <1>19, <1>21 DEF Good
<1>23. DoesSet(s, t)
  BY <1>1, <1>2, <1>10, <1>21, <1>22 DEF DoesSet
<1>24. t.words[Len(s.words)].code = s.words[c.id].does /\ t.words[Len(s.words)].does = <<>>
  BY <1>1, <1>2, <1>3, <1>8, <1>10, <1>21
<1> QED BY <1>23, <1>24

(* The word of the definition in progress gets more.                       *)
NewSet(s, t) ==
  /\ t \in DictionaryType /\ Good(t) /\ Pending(t)
  /\ Len(t.words) = Len(s.words)
  /\ \A j \in 1 .. Len(s.words) : j # s.new => t.words[j] = s.words[j]
  /\ t.lists = s.lists /\ t.order = s.order /\ t.current = s.current /\ t.dict = s.dict
  /\ t.newest = s.newest /\ t.missed = s.missed /\ t.new = s.new

WithNew(s, e) == [s.words EXCEPT ![s.new] = e]

Settable(s, e) ==
  /\ e \in EntryType /\ EntryOk(WithNew(s, e), Len(s.lists), e, s.new)
  /\ \A r \in e.refs : In(s.lists, r)
  /\ ~e.freed /\ Lacks(e.code, "vocabulary")

LEMMA NewSetOk ==
  ASSUME NEW s, Good(s), Pending(s), NEW e, Settable(s, e),
         NEW t, t = [s EXCEPT !.words = WithNew(s, e)]
  PROVE  NewSet(s, t) /\ t.words[s.new] = e
<1> DEFINE vs == WithNew(s, e)
<1> USE DEF Settable
<1>a. vs = [s.words EXCEPT ![s.new] = e]
  BY DEF WithNew
<1> HIDE DEF vs
<1>b. e \in EntryType /\ EntryOk(vs, Len(s.lists), e, s.new) /\ t = [s EXCEPT !.words = vs]
  BY DEF vs
<1>1. PICK k : k = s.new
  OBVIOUS
<1>2. /\ s \in DictionaryType /\ s.words \in Seq(EntryType) /\ Len(s.words) \in Nat
      /\ Len(s.lists) \in Nat
      /\ WordsOk(s.words, Len(s.lists)) /\ ListsOk(s.words, s.lists)
      /\ k \in 1 .. Len(s.words) /\ ~In(s.lists, k)
      /\ \A j \in 1 .. Len(s.words) : k \notin s.words[j].refs
  BY <1>1, Facts DEF Good, Pending
<1>3. /\ vs \in Seq(EntryType) /\ Len(vs) = Len(s.words) /\ vs[k] = e
      /\ \A j \in 1 .. Len(s.words) : j # k => vs[j] = s.words[j]
  BY <1>1, <1>2, <1>a, <1>b, ExceptSeq
<1>4. WordsOk(vs, Len(s.lists))
  <2>1. PICK ws : ws = s.words
    OBVIOUS
  <2>2. EntryOk(vs, Len(s.lists), vs[k], k)
    BY <1>1, <1>3, <1>b
  <2> QED BY ONLY <1>2, <1>3, <2>1, <2>2, ReplacedOk
<1>5. ListsOk(vs, s.lists)
  <2> SUFFICES ASSUME NEW w \in 1 .. Len(s.lists) PROVE ListOk(vs, s.lists[w], w)
    BY DEF ListsOk
  <2>1. ListOk(s.words, s.lists[w], w) /\ \A i \in 1 .. Len(s.lists[w]) : s.lists[w][i] # k
    BY <1>2 DEF ListsOk, In
  <2> QED BY <1>2, <1>3, <2>1, OthersOk
<1>6. /\ t \in DictionaryType /\ t.words = vs
      /\ t.lists = s.lists /\ t.order = s.order /\ t.current = s.current /\ t.dict = s.dict
      /\ t.newest = s.newest /\ t.missed = s.missed /\ t.new = s.new
  BY <1>2, <1>3, <1>b DEF DictionaryType
<1>7. Good(t)
  BY <1>4, <1>5, <1>6 DEF Good
<1>8. k \notin e.refs
  BY <1>2
<1>9. Pending(t)
  BY <1>1, <1>2, <1>3, <1>6, <1>8, SMTT(30) DEF Pending
<1> QED BY <1>1, <1>3, <1>6, <1>7, <1>9 DEF NewSet

(* What POSTPONE left for later adds deferrable code.                      *)
LEMMA CompileNameOk ==
  ASSUME NEW s, Good(s), Pending(s), NEW id, In(s.lists, id),
         \A r \in s.words[id].refs : In(s.lists, r), AllIn(s.words[id].code, Deferrable),
         Lacks(s.words[s.new].code, "DOES>"), NEW t, t = CPP_compilename(s, id)
  PROVE  /\ NewSet(s, t) /\ Lacks(t.words[s.new].code, "DOES>")
         /\ t.words[s.new].code = s.words[s.new].code \o s.words[id].code
         /\ t.words[s.new].does = s.words[s.new].does
<1>1. PICK ws : ws = s.words
  OBVIOUS
<1>2. PICK k : k = s.new
  OBVIOUS
<1>3. PICK n \in Nat : n = Len(s.lists)
  BY Facts DEF Good
<1>4. /\ s \in DictionaryType /\ ws \in Seq(EntryType) /\ Len(ws) \in Nat /\ k \in 1 .. Len(ws)
      /\ WordsOk(ws, n) /\ k \in Nat /\ ws[k] \in EntryType
      /\ \A j \in 1 .. Len(ws) : k \notin ws[j].refs
      /\ ~ws[k].freed /\ ~In(s.lists, k)
      /\ \A r \in ws[k].refs : In(s.lists, r)
      /\ Lacks(ws[k].code, "vocabulary") /\ Lacks(ws[k].code, "DOES>")
  BY <1>1, <1>2, <1>3, Facts DEF Good, Pending
<1>5. id \in 1 .. Len(ws) /\ id # k /\ ws[id] \in EntryType
  BY <1>1, <1>4, InIs
<1>6. /\ id \in Nat /\ ws[id].refs \subseteq Nat /\ ws[k].refs \subseteq Nat
      /\ ws[id].code \in Seq(CommandType) /\ ws[k].code \in Seq(CommandType)
  <2>1. id \in Nat
    BY <1>4, <1>5
  <2>2. /\ ws[id].refs \subseteq Nat /\ ws[k].refs \subseteq Nat
        /\ ws[id].code \in Seq(CommandType) /\ ws[k].code \in Seq(CommandType)
    BY <1>4, <1>5 DEF EntryType
  <2> QED BY <2>1, <2>2
<1>7. PICK code : code = ws[k].code \o ws[id].code
  OBVIOUS
<1>8. /\ code \in Seq(CommandType)
      /\ \A i \in 1 .. Len(code) :
           \/ i \in 1 .. Len(ws[k].code) /\ code[i] = ws[k].code[i]
           \/ i - Len(ws[k].code) \in 1 .. Len(ws[id].code)
              /\ code[i] = ws[id].code[i - Len(ws[k].code)]
  <2>1. PICK p \in Seq(CommandType) : p = ws[k].code
    BY <1>6
  <2>2. PICK q \in Seq(CommandType) : q = ws[id].code
    BY <1>6
  <2>3. code = p \o q
    BY <1>7, <2>1, <2>2
  <2>4. /\ code \in Seq(CommandType)
        /\ \A i \in 1 .. Len(code) :
             \/ i \in 1 .. Len(p) /\ code[i] = p[i]
             \/ i - Len(p) \in 1 .. Len(q) /\ code[i] = q[i - Len(p)]
    BY ONLY <2>3, p \in Seq(CommandType), q \in Seq(CommandType), Joined
  <2> QED BY <2>1, <2>2, <2>4
<1>9. PICK f : f = [ws[k] EXCEPT !.code = code, !.refs = ws[k].refs \cup {id} \cup ws[id].refs]
  OBVIOUS
<1>10. /\ f \in EntryType /\ f.code = code /\ f.refs = ws[k].refs \cup {id} \cup ws[id].refs
       /\ f.does = ws[k].does /\ f.freed = ws[k].freed /\ f.nondeferred = ws[k].nondeferred
  <2>1. ws[k] \in EntryType
    BY <1>4
  <2>2. ws[k].refs \cup {id} \cup ws[id].refs \subseteq Nat
    BY <1>6
  <2> QED BY ONLY <1>8, <1>9, <2>1, <2>2 DEF EntryType
<1>11. PICK vs : vs = [ws EXCEPT ![k] = f]
  OBVIOUS
<1>12. /\ Len(vs) = Len(ws) /\ vs[k] = f
       /\ \A j \in 1 .. Len(ws) : j # k => vs[j] = ws[j]
  BY <1>4, <1>10, <1>11, ExceptSeq
<1>13. EntryOk(ws, n, ws[id], id) /\ EntryOk(ws, n, ws[k], k)
  BY <1>4, <1>5 DEF WordsOk
<1>14. \A j \in f.refs : j \in 1 .. Len(ws) /\ j # k /\ vs[j] = ws[j]
  BY <1>4, <1>5, <1>10, <1>12, <1>13 DEF EntryOk
<1>15. /\ \A i \in 1 .. Len(ws[k].code) : Points(vs, n, f, k, ws[k].code[i])
       /\ \A i \in 1 .. Len(ws[k].does) : Points(vs, n, f, k, ws[k].does[i])
  <2>1. \A j \in ws[k].refs : Less(ws, vs, j)
    BY <1>10, <1>14 DEF Less
  <2>2. n <= n /\ ws[k].refs \subseteq f.refs /\ vs[k].refs \subseteq f.refs
    BY <1>10, <1>12
  <2> QED BY <1>13, <2>1, <2>2, PointsStay DEF EntryOk
<1>16. ASSUME NEW i \in 1 .. Len(ws[id].code) PROVE Points(vs, n, f, k, ws[id].code[i])
  <2>1. Points(ws, n, ws[id], id, ws[id].code[i]) /\ ws[id].code[i].op \in Compilable
    BY <1>13 DEF EntryOk, CodeOk, AllIn
  <2>2. {id} \cup ws[id].refs \subseteq f.refs
    BY <1>10
  <2>3. \A j \in {id} \cup ws[id].refs : vs[j] = ws[j]
    BY <1>14, <2>2
  <2> QED BY ONLY <2>1, <2>2, <2>3, PointsTaken
<1>17. \A i \in 1 .. Len(code) : Points(vs, n, f, k, code[i])
  BY <1>8, <1>15, <1>16
<1>18. /\ AllIn(code, Compilable) /\ Lacks(code, "vocabulary") /\ Lacks(code, "DOES>")
       /\ AllIn(ws[k].code, Deferrable) => AllIn(code, Deferrable)
  <2>1. AllIn(ws[id].code, Deferrable) /\ AllIn(ws[id].code, Compilable)
        /\ Lacks(ws[id].code, "vocabulary") /\ Lacks(ws[id].code, "DOES>")
    BY <1>1, DeferrableOk DEF CodeOk
  <2>2. AllIn(ws[k].code, Compilable)
    BY <1>13 DEF EntryOk, CodeOk
  <2> QED BY <1>4, <1>6, <1>7, <2>1, <2>2, JoinedOps
<1>19. EntryOk(vs, n, f, k)
  <2>1. CodeOk(f.code)
    BY <1>10, <1>18 DEF CodeOk, Lacks
  <2>2. AllIn(f.does, Deferrable) /\ (f.nondeferred \/ AllIn(f.code, Deferrable))
    BY <1>10, <1>13, <1>18 DEF EntryOk
  <2>3. f.refs \subseteq 1 .. Len(vs)
    BY <1>12, <1>14
  <2>4. \A i \in 1 .. Len(f.code) : Points(vs, n, f, k, f.code[i])
    BY <1>10, <1>17
  <2>5. \A i \in 1 .. Len(f.does) : Points(vs, n, f, k, f.does[i])
    BY <1>10, <1>15
  <2> QED BY ONLY <2>1, <2>2, <2>3, <2>4, <2>5 DEF EntryOk
<1>20. \A r \in f.refs : In(s.lists, r)
  BY <1>1, <1>4, <1>10
<1>21. t = [s EXCEPT !.words = vs]
  <2>1. s \in DictionaryType
    BY <1>4
  <2>2. f = [ws[k] EXCEPT !.code = ws[k].code \o ws[id].code,
                          !.refs = ws[k].refs \cup {id} \cup ws[id].refs]
    BY <1>7, <1>9
  <2>3. t = [s EXCEPT !.words[k] = f]
    BY ONLY t = CPP_compilename(s, id), <1>1, <1>2, <2>1, <2>2 DEF CPP_compilename, Joining
  <2> QED BY ONLY <1>1, <1>11, <2>1, <2>3 DEF DictionaryType
<1>22. NewSet(s, t) /\ t.words[s.new] = f
  <2>1. vs = WithNew(s, f)
    BY <1>1, <1>2, <1>11 DEF WithNew
  <2>2. Settable(s, f)
    BY <1>2, <1>3, <1>4, <1>10, <1>18, <1>19, <1>20, <2>1 DEF Settable
  <2> QED BY <1>21, <2>1, <2>2, NewSetOk
<1> QED BY <1>1, <1>2, <1>7, <1>10, <1>18, <1>22

-----------------------------------------------------------------------------
(* Running code *)

(* The dictionaries that running code goes through.                        *)
Trace(f, s, code, name) ==
  /\ f[0] = s
  /\ \A i \in 1 .. Len(code) : f[i] = Execute(f[i - 1], code[i], name)

Steps(g, s, code, name, m) ==
  g = [i \in 0 .. m |-> IF i = 0 THEN s ELSE Execute(g[i - 1], code[i], name)]

LEMMA StepsExist ==
  ASSUME NEW s, NEW code, NEW name, NEW n \in Nat
  PROVE  \E g : Steps(g, s, code, name, n)
<1> DEFINE T == {m \in 0 .. n : ~ \E g : Steps(g, s, code, name, m)}
<1> SUFFICES ASSUME T # {}
             PROVE  FALSE
  OBVIOUS
<1>1. T \subseteq Nat
  OBVIOUS
<1>2. PICK m \in T : \A k \in T : m <= k
  <2> HIDE DEF T
  <2> QED BY <1>1, LeastExists
<1>3. m \in 0 .. n /\ ~ \E g : Steps(g, s, code, name, m)
  OBVIOUS
<1>4. m # 0
  <2> DEFINE g == [i \in 0 .. 0 |-> s]
  <2>1. \A i \in 0 .. 0 : i = 0
    OBVIOUS
  <2>2. g = [i \in 0 .. 0 |-> IF i = 0 THEN s ELSE Execute(g[i - 1], code[i], name)]
    BY <2>1
  <2>3. Steps(g, s, code, name, 0)
    BY <2>2 DEF Steps
  <2> QED BY <1>3, <2>3
<1>5. m - 1 \in 0 .. n /\ ~(m <= m - 1)
  BY <1>3, <1>4
<1>6. PICK f : Steps(f, s, code, name, m - 1)
  BY <1>2, <1>5
<1> DEFINE g == [i \in 0 .. m |-> IF i = 0 THEN s ELSE Execute(f[i - 1], code[i], name)]
<1>7. \A i \in 0 .. m - 1 : g[i] = f[i]
  <2>1. \A i \in 0 .. m - 1 : i \in 0 .. m
    BY <1>3
  <2>2. \A i \in 0 .. m - 1 : f[i] = IF i = 0 THEN s ELSE Execute(f[i - 1], code[i], name)
    BY <1>6 DEF Steps
  <2> QED BY <2>1, <2>2
<1>8. \A i \in 0 .. m : i # 0 => i - 1 \in 0 .. m - 1
  BY <1>3
<1>9. g = [i \in 0 .. m |-> IF i = 0 THEN s ELSE Execute(g[i - 1], code[i], name)]
  <2>1. \A i \in 0 .. m : i # 0 => g[i - 1] = f[i - 1]
    BY <1>7, <1>8
  <2> HIDE DEF g
  <2>2. [i \in 0 .. m |-> IF i = 0 THEN s ELSE Execute(f[i - 1], code[i], name)]
          = [i \in 0 .. m |-> IF i = 0 THEN s ELSE Execute(g[i - 1], code[i], name)]
    BY <2>1
  <2> QED BY <2>2 DEF g
<1> QED BY <1>3, <1>9 DEF Steps

(* ExecuteAll ends the trace of its code.                                  *)
LEMMA ExecuteAllIs ==
  ASSUME NEW s, NEW code \in Seq(CommandType), NEW name
  PROVE  \E f : Trace(f, s, code, name) /\ ExecuteAll(s, code, name) = f[Len(code)]
<1>1. Len(code) \in Nat
  BY LenProperties
<1> DEFINE after == CHOOSE g : g = [i \in 0 .. Len(code) |->
                       IF i = 0 THEN s ELSE Execute(g[i - 1], code[i], name)]
<1>2. \E g : g = [i \in 0 .. Len(code) |-> IF i = 0 THEN s ELSE Execute(g[i - 1], code[i], name)]
  <2>1. \E g : Steps(g, s, code, name, Len(code))
    BY <1>1, StepsExist
  <2> QED BY <2>1 DEF Steps
<1>3. after = [i \in 0 .. Len(code) |-> IF i = 0 THEN s ELSE Execute(after[i - 1], code[i], name)]
  BY <1>2
<1>4. ExecuteAll(s, code, name) = after[Len(code)]
  BY DEF ExecuteAll
<1> HIDE DEF after
<1>5. \A i \in 0 .. Len(code) :
         after[i] = IF i = 0 THEN s ELSE Execute(after[i - 1], code[i], name)
  BY <1>3
<1>6. 0 \in 0 .. Len(code) /\ \A i \in 1 .. Len(code) : i \in 0 .. Len(code) /\ i # 0
  BY <1>1
<1>7. Trace(after, s, code, name)
  BY <1>5, <1>6 DEF Trace
<1> QED BY <1>4, <1>7

(* The trace of joined code.                                               *)
LEMMA TraceSplit ==
  ASSUME NEW p \in Seq(CommandType), NEW q \in Seq(CommandType), NEW s, NEW name, NEW f,
         Trace(f, s, p \o q, name)
  PROVE  /\ Trace(f, s, p, name)
         /\ \E g : Trace(g, f[Len(p)], q, name) /\ g[Len(q)] = f[Len(p \o q)]
<1> DEFINE m == Len(p)
           n == Len(q)
           g == [i \in 0 .. n |-> f[m + i]]
<1>1. m \in Nat /\ n \in Nat
  BY LenProperties
<1>2. /\ Len(p \o q) = m + n
      /\ \A i \in 1 .. m : (p \o q)[i] = p[i]
      /\ \A i \in 1 .. n : (p \o q)[m + i] = q[i]
  BY ONLY p \in Seq(CommandType), q \in Seq(CommandType), Joined
<1>3. f[0] = s /\ \A i \in 1 .. m + n : f[i] = Execute(f[i - 1], (p \o q)[i], name)
  BY <1>2 DEF Trace
<1> HIDE DEF m, n
<1>4. \A i \in 1 .. m : i \in 1 .. m + n
  BY <1>1
<1>5. Trace(f, s, p, name)
  BY <1>2, <1>3, <1>4 DEF Trace, m
<1>6. ASSUME NEW i \in 1 .. n PROVE g[i] = Execute(g[i - 1], q[i], name)
  <2>1. PICK j : j = m + i
    OBVIOUS
  <2>2. j \in 1 .. m + n /\ i \in 0 .. n /\ i - 1 \in 0 .. n /\ j - 1 = m + (i - 1)
    BY <1>1, <2>1
  <2>3. g[i] = f[j] /\ g[i - 1] = f[j - 1]
    BY <2>1, <2>2
  <2>4. (p \o q)[j] = q[i]
    BY <1>2, <2>1
  <2>5. f[j] = Execute(f[j - 1], (p \o q)[j], name)
    BY ONLY <1>3, <2>2
  <2> HIDE DEF g
  <2> QED BY ONLY <2>3, <2>4, <2>5
<1>7. g[0] = f[m] /\ g[n] = f[m + n]
  <2>1. 0 \in 0 .. n /\ n \in 0 .. n /\ m + 0 = m
    BY <1>1
  <2> QED BY <2>1
<1> HIDE DEF g
<1>8. Trace(g, f[m], q, name)
  BY <1>6, <1>7 DEF Trace, n
<1>9. g[n] = f[Len(p \o q)]
  BY <1>2, <1>7
<1> QED BY <1>5, <1>8, <1>9 DEF m, n

(* What runs holds at every step, when each step keeps it.                 *)
LEMMA MarksRun ==
  ASSUME NEW s, Good(s), NEW code \in Seq(CommandType), AllIn(code, Marks), NEW name, NEW f,
         Trace(f, s, code, name)
  PROVE  Marked(s, f[Len(code)]) /\ \A i \in 0 .. Len(code) : Marked(s, f[i])
<1> DEFINE T == {i \in 0 .. Len(code) : ~Marked(s, f[i])}
<1>1. Len(code) \in Nat
  BY LenProperties
<1>2. Marked(s, s)
  BY MarkedFrom DEF Good, SameCode, SamePlace
<1>3. T = {}
  <2> SUFFICES ASSUME T # {} PROVE FALSE
    OBVIOUS
  <2>1. T \subseteq Nat
    OBVIOUS
  <2>2. PICK m \in T : \A k \in T : m <= k
    <3> HIDE DEF T
    <3> QED BY <2>1, LeastExists
  <2>3. m \in 0 .. Len(code) /\ ~Marked(s, f[m])
    OBVIOUS
  <2>4. m # 0
    BY <1>2, <2>3 DEF Trace
  <2>5. m \in 1 .. Len(code) /\ m - 1 \in 0 .. Len(code) /\ ~(m <= m - 1)
    BY <1>1, <2>3, <2>4
  <2>6. Marked(s, f[m - 1])
    BY <2>2, <2>5
  <2>7. f[m] = Execute(f[m - 1], code[m], name) /\ code[m].op \in Marks
    BY <2>5 DEF Trace, AllIn
  <2>8. Marked(f[m - 1], f[m])
    BY <2>6, <2>7, MarkOk DEF Marked
  <2>9. Marked(s, f[m])
    BY <2>6, <2>8, ZenonT(40) DEF Marked, SameCode, SamePlace
  <2> QED BY <2>3, <2>9
<1>4. Len(code) \in 0 .. Len(code)
  BY <1>1
<1> QED BY <1>3, <1>4

(* A command of a word's code may run in dictionary s: T is the word and   *)
(* all that it refers to, and pend tells if a definition is in progress.   *)
Allowed(s, T, c, pend) ==
  /\ c.op = "vocabulary" => Len(s.order) >= 2 /\ c.wids # <<>> /\ c.wids[1] \in 1 .. Len(s.lists)
  /\ c.op \in {"compile-name", "DOES>"} => c.id \in T /\ s.words[c.id].refs \subseteq T
  /\ c.op = "compile-name" =>
       /\ pend /\ AllIn(s.words[c.id].code, Deferrable)
       /\ Lacks(s.words[s.new].code, "DOES>")
  /\ c.op \in {"VARIABLE", "DOES>"} => ~pend

CanRun(s, T, code, pend) ==
  /\ code \in Seq(CommandType) /\ CodeOk(code)
  /\ \A r \in T : In(s.lists, r)
  /\ \A i \in 1 .. Len(code) : Allowed(s, T, code[i], pend)

(* The listed words of s are in t as they were.                            *)
Kept(s, t) ==
  \A k : In(s.lists, k) => /\ In(t.lists, k)
                           /\ t.words[k].refs = s.words[k].refs
                           /\ t.words[k].code = s.words[k].code

(* After i commands of the code.                                           *)
Ran(s, t, code, i, pend) ==
  /\ t \in DictionaryType /\ Good(t) /\ (pend => Pending(t) /\ t.new = s.new)
  /\ pend /\ Lacks(s.words[s.new].code, "DOES>") => Lacks(t.words[t.new].code, "DOES>")
  /\ Len(t.words) >= Len(s.words) /\ Len(t.lists) = Len(s.lists)
  /\ Kept(s, t)
  /\ i = 0 => t.order = s.order
  /\ i > 0 /\ code[i].op = "VARIABLE" => Fresh(t) /\ Len(t.words) > Len(s.words)

(* A step that leaves the code of all words.                               *)
LEMMA RanSame ==
  ASSUME NEW s, Good(s), NEW code, NEW i \in Nat, NEW pend \in BOOLEAN,
         NEW u, NEW t \in DictionaryType, Good(t), Ran(s, u, code, i - 1, pend), i > 0,
         code[i].op # "VARIABLE", Pending(u) => Pending(t), t.new = u.new,
         SameCode(u.words, t.words), t.lists = u.lists
  PROVE  Ran(s, t, code, i, pend)
<1>1. \A k : In(s.lists, k) => In(u.lists, k) /\ k \in 1 .. Len(u.words)
  BY InIs DEF Ran, Kept
<1>2. Kept(s, t)
  BY <1>1 DEF Ran, Kept, SameCode
<1>3. pend => t.words[t.new].code = u.words[u.new].code
  BY DEF Ran, Pending, SameCode
<1>4. pend /\ Lacks(s.words[s.new].code, "DOES>") => Lacks(t.words[t.new].code, "DOES>")
  BY <1>3 DEF Ran
<1>5. pend => Pending(t) /\ t.new = s.new
  BY DEF Ran
<1>6. Len(t.words) >= Len(s.words) /\ Len(t.lists) = Len(s.lists)
  BY DEF Ran, SameCode
<1> QED BY <1>2, <1>4, <1>5, <1>6 DEF Ran

(* A step that adds a word, or changes one that no wordlist of s has.      *)
LEMMA RanOther ==
  ASSUME NEW s, Good(s), NEW u, NEW t, Kept(s, u), Good(u), NEW k,
         ~In(s.lists, k), \A j \in 1 .. Len(u.words) : j # k => t.words[j] = u.words[j],
         \A r : In(u.lists, r) => In(t.lists, r)
  PROVE  Kept(s, t)
<1> SUFFICES ASSUME NEW j, In(s.lists, j)
             PROVE  /\ In(t.lists, j) /\ t.words[j].refs = s.words[j].refs
                    /\ t.words[j].code = s.words[j].code
  BY DEF Kept
<1>1. /\ In(u.lists, j) /\ u.words[j].refs = s.words[j].refs
      /\ u.words[j].code = s.words[j].code
  BY DEF Kept
<1>2. j \in 1 .. Len(u.words) /\ j # k
  BY <1>1, InIs
<1> QED BY <1>1, <1>2

LEMMA RanStep ==
  ASSUME NEW s, Good(s), NEW T, NEW code, NEW pend \in BOOLEAN, CanRun(s, T, code, pend),
         NEW i \in 1 .. Len(code), NEW u, Ran(s, u, code, i - 1, pend),
         NEW name \in AnyName, NEW t, t = Execute(u, code[i], name)
  PROVE  Ran(s, t, code, i, pend)
<1>1. PICK c : c = code[i]
  OBVIOUS
<1>2. /\ code \in Seq(CommandType) /\ Len(code) \in Nat /\ c \in CommandType
      /\ c.op \in Compilable /\ Allowed(s, T, c, pend)
  BY <1>1, Elements DEF CanRun, CodeOk, AllIn
<1>3. i \in Nat /\ i > 0
  BY <1>2
<1>4. /\ u \in DictionaryType /\ Good(u) /\ (pend => Pending(u) /\ u.new = s.new) /\ Kept(s, u)
      /\ Len(s.words) \in Nat /\ Len(u.words) \in Nat /\ Len(u.words) >= Len(s.words)
      /\ Len(u.lists) = Len(s.lists)
  BY Facts DEF Ran, Good
<1>5. CASE c.op \in {"ALSO", "ONLY", "FORTH", "DEFINITIONS", "vocabulary"}
  <2>1. c.op = "vocabulary" => i = 1 /\ u.order = s.order
    <3>1. c.op = "vocabulary" => Len(code) = 1
      BY <1>1 DEF CanRun, CodeOk, Lacks
    <3>2. \A j \in 1 .. 1 : j = 1 /\ j - 1 = 0
      OBVIOUS
    <3>3. c.op = "vocabulary" => i = 1 /\ i - 1 = 0
      BY <3>1, <3>2
    <3> QED BY <3>3 DEF Ran
  <2>2. MayMove(u, c) /\ c.op \in MoveOps
    BY <1>2, <1>4, <1>5, <2>1 DEF MayMove, Allowed, MoveOps, Moving
  <2>3. Moved(u, t)
    BY <1>1, <1>2, <1>4, <2>2, MoveOk
  <2>4. SameCode(u.words, t.words) /\ t.lists = u.lists /\ t.new = u.new
    BY <2>3 DEF Moved, Still, SameCode
  <2>5. t \in DictionaryType /\ Good(t) /\ (Pending(u) => Pending(t))
    BY <2>3 DEF Moved
  <2> QED BY <1>1, <1>3, <1>5, <2>4, <2>5, RanSame
<1>6. CASE c.op \in Marks
  <2>1. Marked(u, t)
    BY <1>1, <1>4, <1>6, MarkOk
  <2>2. /\ t \in DictionaryType /\ Good(t) /\ (Pending(u) => Pending(t))
        /\ SameCode(u.words, t.words) /\ t.lists = u.lists /\ t.new = u.new
    BY <2>1 DEF Marked
  <2>3. code[i].op # "VARIABLE"
    BY <1>1, <1>6 DEF Marks
  <2> QED BY <1>3, <2>2, <2>3, RanSame
<1>7. CASE c.op = "VARIABLE"
  <2>1. t = CPP_variable(u, name)
    BY <1>1, <1>7, ExecuteIs
  <2>2. Made(u, t, Entry(name)) /\ Fresh(t)
    BY <1>4, <2>1, VariableOk
  <2>3. ~pend
    BY <1>2, <1>7 DEF Allowed
  <2>4. Kept(s, t)
    <3>1. /\ \A j \in 1 .. Len(u.words) : t.words[j] = u.words[j]
          /\ \A r : In(u.lists, r) => In(t.lists, r)
      BY <2>2 DEF Made
    <3>2. PICK k : k = Len(u.words) + 1
      OBVIOUS
    <3>3. ~In(s.lists, k)
      <4>1. k \notin 1 .. Len(s.words)
        BY <1>4, <3>2
      <4> QED BY <4>1, InIs
    <3>4. \A j \in 1 .. Len(u.words) : j # k => t.words[j] = u.words[j]
      BY <3>1
    <3> QED BY ONLY Good(s), <1>4, <3>1, <3>3, <3>4, RanOther
  <2>5. /\ t \in DictionaryType /\ Good(t) /\ Len(t.words) = Len(u.words) + 1
        /\ Len(t.lists) = Len(u.lists)
    BY <2>2 DEF Made
  <2> QED BY <1>3, <1>4, <2>2, <2>3, <2>4, <2>5 DEF Ran
<1>8. CASE c.op = "DOES>"
  <2>1. t = CPP_does(u, c)
    BY <1>1, <1>8, ExecuteIs
  <2>2. i > 1 /\ code[i - 1].op = "VARIABLE"
    BY <1>1, <1>8 DEF CanRun, CodeOk
  <2>3. Fresh(u) /\ Len(u.words) > Len(s.words)
    BY <1>3, <2>2 DEF Ran
  <2>4. /\ c.id \in T /\ s.words[c.id].refs \subseteq T /\ \A r \in T : In(s.lists, r)
        /\ ~pend
    BY <1>2, <1>8 DEF Allowed, CanRun
  <2>5. /\ In(s.lists, c.id) /\ In(u.lists, c.id) /\ u.words[c.id].refs = s.words[c.id].refs
        /\ \A r \in s.words[c.id].refs : In(u.lists, r)
    BY <1>4, <2>4 DEF Kept
  <2>6. ~In(s.lists, Len(u.words))
    <3>1. Len(u.words) \notin 1 .. Len(s.words)
      BY <1>4, <2>3
    <3> QED BY <3>1, InIs
  <2>7. DoesSet(u, t)
    <3>1. c.id # Len(u.words) /\ \A r \in u.words[c.id].refs : In(u.lists, r)
      BY <2>5, <2>6
    <3> QED BY <1>4, <2>1, <2>3, <2>5, <3>1, DoesOk
  <2>8. /\ t \in DictionaryType /\ Good(t) /\ Len(t.words) = Len(u.words) /\ t.lists = u.lists
        /\ \A j \in 1 .. Len(u.words) : j # Len(u.words) => t.words[j] = u.words[j]
    BY <2>7 DEF DoesSet
  <2>9. Kept(s, t)
    BY <1>4, <2>6, <2>8, RanOther, SMTT(30)
  <2> QED BY <1>1, <1>3, <1>4, <1>8, <2>4, <2>8, <2>9 DEF Ran
<1>9. CASE c.op = "compile-name"
  <2>1. t = CPP_compilename(u, c.id)
    BY <1>1, <1>9, ExecuteIs
  <2>2. /\ c.id \in T /\ s.words[c.id].refs \subseteq T /\ \A r \in T : In(s.lists, r)
        /\ pend /\ AllIn(s.words[c.id].code, Deferrable) /\ Lacks(s.words[s.new].code, "DOES>")
    BY <1>2, <1>9 DEF Allowed, CanRun
  <2>3. /\ In(u.lists, c.id) /\ u.words[c.id].refs = s.words[c.id].refs
        /\ u.words[c.id].code = s.words[c.id].code
        /\ \A r \in s.words[c.id].refs : In(u.lists, r)
    BY <1>4, <2>2 DEF Kept
  <2>4. Pending(u) /\ u.new = s.new /\ Lacks(u.words[u.new].code, "DOES>")
    BY <2>2 DEF Ran
  <2>5. NewSet(u, t) /\ Lacks(t.words[u.new].code, "DOES>")
    <3>1. /\ \A r \in u.words[c.id].refs : In(u.lists, r)
          /\ AllIn(u.words[c.id].code, Deferrable)
      BY <2>2, <2>3
    <3> QED BY <1>4, <2>1, <2>3, <2>4, <3>1, CompileNameOk
  <2>6. /\ t \in DictionaryType /\ Good(t) /\ Pending(t) /\ Len(t.words) = Len(u.words)
        /\ t.lists = u.lists /\ t.new = u.new
        /\ \A j \in 1 .. Len(u.words) : j # u.new => t.words[j] = u.words[j]
    BY <2>5 DEF NewSet
  <2>7. Kept(s, t)
    <3>1. ~In(s.lists, u.new)
      BY <1>4, <2>4 DEF Pending, Kept
    <3> QED BY <1>4, <2>6, <3>1, RanOther, SMTT(30)
  <2> QED BY <1>1, <1>3, <1>4, <1>9, <2>2, <2>4, <2>5, <2>6, <2>7 DEF Ran
<1> QED BY <1>2, <1>5, <1>6, <1>7, <1>8, <1>9 DEF Compilable, Deferrable

(* A word's code runs.                                                     *)
LEMMA CodeRun ==
  ASSUME NEW s, Good(s), NEW T, NEW code, NEW pend \in BOOLEAN, CanRun(s, T, code, pend),
         pend => Pending(s), NEW name \in AnyName, NEW f, Trace(f, s, code, name)
  PROVE  \A i \in 0 .. Len(code) : Ran(s, f[i], code, i, pend)
<1> DEFINE S == {i \in 0 .. Len(code) : ~Ran(s, f[i], code, i, pend)}
<1>1. Len(code) \in Nat
  BY LenProperties DEF CanRun
<1>2. Ran(s, f[0], code, 0, pend)
  <2>1. f[0] = s /\ s \in DictionaryType
    BY DEF Trace, Good
  <2>2. Len(s.words) \in Nat
    BY Facts DEF Good
  <2> QED BY <2>1, <2>2 DEF Ran, Kept
<1> SUFFICES ASSUME S # {} PROVE FALSE
  OBVIOUS
<1>3. S \subseteq Nat
  OBVIOUS
<1>4. PICK m \in S : \A k \in S : m <= k
  <2> HIDE DEF S
  <2> QED BY <1>3, LeastExists
<1>5. m \in 0 .. Len(code) /\ ~Ran(s, f[m], code, m, pend)
  OBVIOUS
<1>6. m # 0
  BY <1>2, <1>5
<1>7. m \in 1 .. Len(code) /\ m - 1 \in 0 .. Len(code) /\ ~(m <= m - 1)
  BY <1>1, <1>5, <1>6
<1>8. Ran(s, f[m - 1], code, m - 1, pend)
  BY <1>4, <1>7
<1>9. f[m] = Execute(f[m - 1], code[m], name)
  BY <1>7 DEF Trace
<1> HIDE DEF S
<1>10. Ran(s, f[m], code, m, pend)
  BY <1>7, <1>8, <1>9, RanStep
<1> QED BY <1>5, <1>10

-----------------------------------------------------------------------------
(* The state as a dictionary *)

LEMMA HereIs ==
  /\ Here.words = words /\ Here.lists = wordlists /\ Here.dict = Dictionary
  /\ Here.order = SearchOrder /\ Here.current = pCompilationWL /\ Here.new = pNewWord
  /\ Here.newest = newest /\ Here.missed = missed
  BY DEF Here

LEMMA BecomesIs ==
  ASSUME NEW t \in DictionaryType, Becomes(t)
  PROVE  Here' = t
<1>1. t = [words |-> t.words, lists |-> t.lists, dict |-> t.dict, order |-> t.order,
           current |-> t.current, new |-> t.new, newest |-> t.newest, missed |-> t.missed]
  BY DEF DictionaryType
<1>2. /\ words' = t.words /\ wordlists' = t.lists /\ Dictionary' = t.dict
      /\ SearchOrder' = t.order /\ pCompilationWL' = t.current /\ pNewWord' = t.new
      /\ newest' = t.newest /\ missed' = t.missed
  BY DEF Becomes
<1> QED BY <1>1, <1>2 DEF Here

LEMMA Kept1 ==
  ASSUME KeepsRules, NEW rule \in Rules, rule # "marks follow their word"
  PROVE  Keeps(rule)
  BY DEF KeepsRules, Keeps

(* The state after an action that ends in dictionary t.                    *)
LEMMA Closes ==
  ASSUME KeepsRules, NEW t, t \in DictionaryType, Good(t), Becomes(t),
         State' \in {"interpret", "brackets", "compile"}, State' # "interpret" => Pending(t),
         line' \in Seq(CommandType), AllIn(line', Marks)
  PROVE  DictInv'
<1>1. Here' = t
  BY BecomesIs
<1>2. pCompilationWL' # Root
  <2>1. Keeps("no definitions in Root")
    BY Kept1 DEF Rules
  <2> QED BY <2>1 DEF Becomes
<1>3. Good(Here)' /\ (State' # "interpret" => Pending(Here)')
  BY <1>1
<1> QED BY <1>2, <1>3 DEF DictInv

(* A name is found in a wordlist of the order.                             *)
LEMMA Located ==
  ASSUME Good(Here), NEW name, NEW id, id = LocateWord(name), id # NoWord
  PROVE  \E i \in 1 .. Len(SearchOrder) :
           /\ SearchOrder[i] \in 1 .. Len(wordlists)
           /\ \E j \in 1 .. Len(wordlists[SearchOrder[i]]) : wordlists[SearchOrder[i]][j] = id
<1> DEFINE Hit(i) == GetFromName(words, wordlists[SearchOrder[i]], name)
           found == {i \in DOMAIN SearchOrder : Hit(i) # NoWord}
<1>1. id = IF found = {} THEN NoWord ELSE Hit(Min(found))
  BY DEF LocateWord
<1>2. /\ SearchOrder \in Seq(Nat) /\ Len(SearchOrder) \in Nat
      /\ DOMAIN SearchOrder = 1 .. Len(SearchOrder)
      /\ \A i \in 1 .. Len(SearchOrder) : SearchOrder[i] \in 1 .. Len(wordlists)
      /\ Here \in DictionaryType
  BY HereIs, Elements DEF Good, OrderIs
<1>3. found \subseteq Nat /\ found # {}
  BY <1>1, <1>2
<1>4. PICK m \in found : m = Min(found)
  <2> HIDE DEF found
  <2> QED BY <1>3, MinIs
<1>5. m \in 1 .. Len(SearchOrder) /\ Hit(m) # NoWord /\ id = Hit(m)
  BY <1>1, <1>2, <1>3, <1>4
<1>6. PICK w \in 1 .. Len(wordlists) : w = SearchOrder[m]
  BY <1>2, <1>5
<1>7. PICK list : list = wordlists[w]
  OBVIOUS
<1>8. Len(list) \in Nat /\ DOMAIN list = 1 .. Len(list)
  BY <1>2, <1>6, <1>7, Facts, HereIs
<1>9. PICK hits : hits = {i \in DOMAIN list : words[list[i]].name = name}
  OBVIOUS
<1>10. hits # {} /\ id = list[Max(hits)]
  BY <1>5, <1>6, <1>7, <1>9 DEF GetFromName
<1>11. Max(hits) \in hits /\ hits \subseteq 1 .. Len(list)
  BY <1>8, <1>9, <1>10, MaxIs
<1>12. Max(hits) \in 1 .. Len(list)
  BY <1>11
<1> HIDE DEF found, Hit
<1> QED BY <1>5, <1>6, <1>7, <1>10, <1>12

(* An intrinsic word of the Forth wordlist is read while the order has     *)
(* more than Root.                                                         *)
LEMMA OrderLong ==
  ASSUME Good(Here), NEW i \in 1 .. Len(SearchOrder), SearchOrder[i] # Root
  PROVE  Len(SearchOrder) >= 2
<1>1. Len(SearchOrder) \in Nat /\ SearchOrder[Len(SearchOrder)] = Root
  BY HereIs, LenProperties DEF Good, OrderIs
<1>2. i # Len(SearchOrder)
  BY <1>1
<1> QED BY <1>1, <1>2

LEMMA VisibleLong ==
  ASSUME Good(Here), NEW op, op \notin RootWords, Visible(op)
  PROVE  Len(SearchOrder) >= 2
<1>1. PICK i \in DOMAIN SearchOrder : SearchOrder[i] = Forth
  BY DEF Visible, Range
<1>2. i \in 1 .. Len(SearchOrder)
  BY <1>1, HereIs, LenProperties DEF Good, OrderIs
<1> QED BY <1>1, <1>2, OrderLong DEF Forth, Root

(* What is Listed is in a wordlist.                                        *)
LEMMA ListedIs ==
  ASSUME Good(Here)
  PROVE  \A r : r \in Listed <=> In(wordlists, r)
<1>1. /\ DOMAIN wordlists = 1 .. Len(wordlists)
      /\ \A w \in 1 .. Len(wordlists) : DOMAIN wordlists[w] = 1 .. Len(wordlists[w])
  <2>1. Here \in DictionaryType
    BY DEF Good
  <2> QED BY <2>1, Facts, HereIs
<1> QED BY <1>1 DEF Listed, In, Range

(* The line runs first, then the code.                                     *)
LEMMA UpToIs ==
  ASSUME DictInv, NEW code \in Seq(CommandType), NEW name, ExecuteUpTo(code, name)
  PROVE  \E f, g : /\ Trace(f, Here, line, name) /\ Trace(g, f[Len(line)], code, name)
                   /\ Becomes(g[Len(code)]) /\ line' = <<>>
                   /\ Marked(Here, f[Len(line)])
<1>1. line \in Seq(CommandType) /\ AllIn(line, Marks) /\ Good(Here)
  BY DEF DictInv
<1>2. PICK both : both = line \o code
  OBVIOUS
<1>3. both \in Seq(CommandType)
  BY <1>1, <1>2, Joined
<1>4. PICK f : Trace(f, Here, both, name) /\ ExecuteAll(Here, both, name) = f[Len(both)]
  BY <1>3, ExecuteAllIs
<1>5. Becomes(f[Len(both)]) /\ line' = <<>>
  BY <1>2, <1>4 DEF ExecuteUpTo
<1>6. /\ Trace(f, Here, line, name)
      /\ \E g : Trace(g, f[Len(line)], code, name) /\ g[Len(code)] = f[Len(both)]
  BY ONLY <1>1, code \in Seq(CommandType), <1>2, <1>4, TraceSplit
<1>7. Marked(Here, f[Len(line)])
  BY <1>1, <1>6, MarksRun
<1> QED BY <1>5, <1>6, <1>7

(* One command is typed.                                                   *)
LEMMA TypedIs ==
  ASSUME DictInv, NEW c \in CommandType, NEW name, ExecuteUpTo(<<c>>, name)
  PROVE  \E f, t : /\ Trace(f, Here, line, name) /\ t = Execute(f[Len(line)], c, name)
                   /\ Becomes(t) /\ line' = <<>>
                   /\ Marked(Here, f[Len(line)])
<1>1. PICK code : code = <<c>>
  OBVIOUS
<1>2. code \in Seq(CommandType) /\ Len(code) = 1 /\ code[1] = c
  BY <1>1
<1>3. PICK f, g : /\ Trace(f, Here, line, name) /\ Trace(g, f[Len(line)], code, name)
                  /\ Becomes(g[Len(code)]) /\ line' = <<>>
                  /\ Marked(Here, f[Len(line)])
  BY <1>1, <1>2, UpToIs
<1>4. g[1] = Execute(f[Len(line)], c, name)
  <2>1. 1 \in 1 .. Len(code) /\ 1 - 1 = 0
    BY <1>2
  <2>2. g[0] = f[Len(line)] /\ g[1] = Execute(g[0], code[1], name)
    BY <1>3, <2>1 DEF Trace
  <2> QED BY <1>2, <2>2
<1> QED BY <1>2, <1>3, <1>4

-----------------------------------------------------------------------------
(* Typed commands *)

(* After the line, a typed command runs in dictionary u.                   *)
LEMMA TypedFrom ==
  ASSUME DictInv, NEW c \in CommandType, NEW name, Type(c, name)
  PROVE  \E u, t : /\ t = Execute(u, c, name) /\ Becomes(t) /\ Marked(Here, u)
                   /\ State' = State /\ line' = <<>>
                   /\ Good(u) /\ (State # "interpret" => Pending(u))
                   /\ Len(u.lists) = Len(wordlists) /\ u.order = SearchOrder
                   /\ u.current # Root
                   /\ (c.op \notin RootWords => Len(u.order) >= 2)
<1>1. ExecuteUpTo(<<c>>, name) /\ Visible(c.op) /\ State' = State
  BY DEF Type, Interpret
<1>2. PICK f, t : /\ Trace(f, Here, line, name) /\ t = Execute(f[Len(line)], c, name)
                  /\ Becomes(t) /\ line' = <<>> /\ Marked(Here, f[Len(line)])
  BY <1>1, TypedIs
<1>3. PICK u : u = f[Len(line)]
  OBVIOUS
<1>4. /\ Good(Here) /\ (State # "interpret" => Pending(Here)) /\ pCompilationWL # Root
  BY DEF DictInv
<1>5. c.op \notin RootWords => Len(SearchOrder) >= 2
  BY <1>1, <1>4, VisibleLong
<1>6. /\ Good(u) /\ (Pending(Here) => Pending(u)) /\ u.lists = wordlists /\ u.order = SearchOrder
      /\ u.current = pCompilationWL
  BY <1>2, <1>3, HereIs DEF Marked
<1> QED BY <1>1, <1>2, <1>3, <1>4, <1>5, <1>6

(* Nothing waits after it.                                                 *)
LEMMA TypedCloses ==
  ASSUME KeepsRules, DictInv, NEW t, t \in DictionaryType, Good(t), Becomes(t),
         State' = State, State # "interpret" => Pending(t), line' = <<>>
  PROVE  DictInv'
<1>1. State' \in {"interpret", "brackets", "compile"}
  BY DEF DictInv
<1>2. line' \in Seq(CommandType) /\ AllIn(line', Marks)
  <2>1. \A i \in 1 .. 0 : FALSE
    OBVIOUS
  <2> QED BY <2>1, NoCode DEF AllIn
<1> QED BY <1>1, <1>2, Closes

LEMMA MovedCloses ==
  ASSUME KeepsRules, DictInv, NEW c \in CommandType, c.op \in MoveOps,
         c.op = "SET-ORDER" => OrderIs(c.wids, Len(wordlists)),
         c.op = "SET-CURRENT" => c.wids # <<>> /\ c.wids[1] \in 1 .. Len(wordlists),
         c.op # "vocabulary", NEW name, Type(c, name)
  PROVE  DictInv'
<1>1. PICK u, t : /\ t = Execute(u, c, name) /\ Becomes(t)
                  /\ State' = State /\ line' = <<>>
                  /\ Good(u) /\ (State # "interpret" => Pending(u))
                  /\ Len(u.lists) = Len(wordlists) /\ u.order = SearchOrder
                  /\ (c.op \notin RootWords => Len(u.order) >= 2)
  BY TypedFrom
<1>2. MayMove(u, c)
  BY <1>1 DEF MayMove, RootWords
<1>3. Moved(u, t)
  BY <1>1, <1>2, MoveOk
<1>4. t \in DictionaryType /\ Good(t) /\ (State # "interpret" => Pending(t))
  BY <1>1, <1>3 DEF Moved
<1> QED BY <1>1, <1>4, TypedCloses

LEMMA NondeferredIs ==
  /\ Moving \subseteq CommandOps /\ MoveOps \subseteq CommandOps /\ Nondeferred \subseteq CommandOps
  /\ Moving \subseteq MoveOps
  BY DEF Moving, MoveOps, CommandOps, Nondeferred, Compilable

LEMMA MoveStep ==
  ASSUME KeepsRules, DictInv, Move
  PROVE  DictInv'
<1>1. PICK op \in Moving : Type(Command(op), "")
  BY DEF Move
<1>2. PICK c : c = Command(op)
  OBVIOUS
<1>3. PICK name : name = ""
  OBVIOUS
<1>4. c \in CommandType /\ c.op = op
  BY <1>2, CommandTyped, NondeferredIs
<1>5. op \in MoveOps /\ op \notin {"SET-ORDER", "SET-CURRENT", "vocabulary"}
  BY DEF Moving, MoveOps
<1>6. Type(c, name)
  BY <1>1, <1>2, <1>3
<1> QED BY ONLY KeepsRules, DictInv, <1>4, <1>5, <1>6, MovedCloses

LEMMA SetOrderStep ==
  ASSUME KeepsRules, DictInv, SetOrder
  PROVE  DictInv'
<1>1. Keeps("orders end in Root")
  BY Kept1 DEF Rules
<1>2. PICK w \in DOMAIN wordlists : Type(WithWids("SET-ORDER", <<w, Root>>), "")
  BY <1>1 DEF SetOrder
<1>3. PICK n \in Nat : n = Len(wordlists)
  BY Facts, HereIs DEF DictInv, Good
<1>4. w \in 1 .. n /\ n >= 3
  BY <1>2, <1>3, Facts, HereIs DEF DictInv, Good
<1>5. PICK wids : wids = <<w, Root>>
  OBVIOUS
<1>6. OrderIs(wids, n) /\ wids \in Seq(Nat)
  <2>1. wids \in Seq(Nat) /\ Len(wids) = 2 /\ wids[1] = w /\ wids[2] = Root
    BY <1>4, <1>5 DEF Root
  <2>2. \A i \in 1 .. 2 : i = 1 \/ i = 2
    OBVIOUS
  <2>3. Root \in 1 .. n
    BY <1>4 DEF Root
  <2> QED BY <1>4, <2>1, <2>2, <2>3 DEF OrderIs
<1>7. PICK c : c = WithWids("SET-ORDER", wids)
  OBVIOUS
<1>8. c \in CommandType /\ c.op = "SET-ORDER" /\ c.wids = wids
  <2>1. "SET-ORDER" \in CommandOps
    BY DEF CommandOps, Nondeferred
  <2> QED BY <1>6, <1>7, <2>1, CommandTyped
<1>9. c.op \in MoveOps /\ c.op # "vocabulary" /\ c.op # "SET-CURRENT"
  BY <1>8 DEF MoveOps
<1>10. PICK name : name = ""
  OBVIOUS
<1>11. Type(c, name)
  BY <1>2, <1>5, <1>7, <1>10
<1>12. OrderIs(c.wids, Len(wordlists))
  BY <1>3, <1>6, <1>8
<1> QED BY ONLY KeepsRules, DictInv, <1>8, <1>9, <1>11, <1>12, MovedCloses

LEMMA SetCurrentStep ==
  ASSUME KeepsRules, DictInv, SetCurrent
  PROVE  DictInv'
<1>1. PICK w \in DOMAIN wordlists : Type(WithWids("SET-CURRENT", <<w>>), "")
  BY DEF SetCurrent
<1>2. w \in 1 .. Len(wordlists) /\ w \in Nat
  BY Facts, HereIs, SMTT(30) DEF DictInv, Good
<1>3. PICK wids : wids = <<w>>
  OBVIOUS
<1>4. wids \in Seq(Nat) /\ wids # <<>> /\ wids[1] = w
  BY ONLY <1>2, <1>3
<1>5. PICK c : c = WithWids("SET-CURRENT", wids)
  OBVIOUS
<1>6. c \in CommandType /\ c.op = "SET-CURRENT" /\ c.wids = wids
  <2>1. "SET-CURRENT" \in CommandOps
    BY DEF CommandOps, Nondeferred
  <2> QED BY <1>4, <1>5, <2>1, CommandTyped
<1>7. c.op \in MoveOps /\ c.op # "vocabulary" /\ c.op # "SET-ORDER"
  BY <1>6 DEF MoveOps
<1>8. PICK name : name = ""
  OBVIOUS
<1>9. Type(c, name)
  BY <1>1, <1>3, <1>5, <1>8
<1>10. c.wids # <<>> /\ c.wids[1] \in 1 .. Len(wordlists)
  BY <1>2, <1>4, <1>6
<1> QED BY ONLY KeepsRules, DictInv, <1>6, <1>7, <1>9, <1>10, MovedCloses

LEMMA WordlistStep ==
  ASSUME KeepsRules, DictInv, MakeWordlist
  PROVE  DictInv'
<1>1. PICK c : c = Command("WORDLIST")
  OBVIOUS
<1>2. PICK name : name = ""
  OBVIOUS
<1>3. c \in CommandType /\ c.op = "WORDLIST"
  <2>1. "WORDLIST" \in CommandOps
    BY DEF CommandOps, Nondeferred
  <2> QED BY <1>1, <2>1, CommandTyped
<1>4. Type(c, name)
  BY <1>1, <1>2 DEF MakeWordlist
<1>5. PICK u, t : /\ t = Execute(u, c, name) /\ Becomes(t)
                  /\ State' = State /\ line' = <<>>
                  /\ Good(u) /\ (State # "interpret" => Pending(u))
  BY ONLY DictInv, <1>3, <1>4, TypedFrom
<1>6. t = CPP_wordlist(u)
  BY <1>3, <1>5, ExecuteIs
<1>7. t \in DictionaryType /\ Good(t) /\ (State # "interpret" => Pending(t))
  BY <1>5, <1>6, WordlistOk
<1> QED BY ONLY KeepsRules, DictInv, <1>5, <1>7, TypedCloses

LEMMA Outside ==
  ASSUME KeepsRules, NEW c, NEW name, TypeOutside(c, name)
  PROVE  State = "interpret" /\ Type(c, name)
<1>1. Keeps("brackets keep the dictionary")
  BY Kept1 DEF Rules
<1> QED BY <1>1 DEF TypeOutside

LEMMA DefineStep ==
  ASSUME KeepsRules, DictInv, Define
  PROVE  DictInv'
<1>1. PICK op \in {"VARIABLE", "VOCABULARY"}, name \in Names : TypeOutside(Command(op), name)
  BY DEF Define
<1>2. PICK c : c = Command(op)
  OBVIOUS
<1>3. c \in CommandType /\ c.op = op
  <2>1. op \in CommandOps
    BY DEF CommandOps, Nondeferred, Defining
  <2> QED BY <1>2, <2>1, CommandTyped
<1>4. State = "interpret" /\ Type(c, name)
  BY <1>1, <1>2, Outside
<1>5. PICK u, t : /\ t = Execute(u, c, name) /\ Becomes(t)
                  /\ State' = State /\ line' = <<>> /\ Good(u) /\ u.current # Root
  BY ONLY DictInv, <1>3, <1>4, TypedFrom
<1>6. name \in AnyName
  BY NamesAny
<1>7. CASE op = "VARIABLE"
  <2>1. t = CPP_variable(u, name)
    BY <1>3, <1>5, <1>7, ExecuteIs
  <2>2. Made(u, t, Entry(name))
    BY <1>5, <1>6, <2>1, VariableOk
  <2>3. t \in DictionaryType /\ Good(t)
    BY <2>2 DEF Made
  <2> QED BY ONLY KeepsRules, DictInv, <1>4, <1>5, <2>3, TypedCloses
<1>8. CASE op = "VOCABULARY"
  <2>1. t = CPP_vocabulary(u, name)
    BY <1>3, <1>5, <1>8, ExecuteIs
  <2>2. t \in DictionaryType /\ Good(t)
    BY <1>5, <1>6, <2>1, VocabularyOk
  <2> QED BY ONLY KeepsRules, DictInv, <1>4, <1>5, <2>2, TypedCloses
<1> QED BY <1>7, <1>8

(* What is In the wordlists stays while marks are put.                     *)
LEMMA MarkedKeeps ==
  ASSUME NEW s, Good(s), NEW u, Marked(s, u), NEW id, In(s.lists, id)
  PROVE  /\ In(u.lists, id) /\ u.words[id].refs = s.words[id].refs
         /\ u.words[id].code = s.words[id].code
<1>1. id \in 1 .. Len(s.words)
  BY InIs
<1> QED BY <1>1 DEF Marked, SameCode

LEMMA AliasStep ==
  ASSUME KeepsRules, DictInv, Alias
  PROVE  DictInv'
<1>1. PICK old \in Names, name \in Names :
        /\ LocateWord(old) # NoWord /\ Runnable(LocateWord(old))
        /\ TypeOutside([Command("ALIAS") EXCEPT !.id = LocateWord(old)], name)
  BY DEF Alias
<1>2. PICK id : id = LocateWord(old)
  OBVIOUS
<1>3. Good(Here)
  BY DEF DictInv
<1>4. In(wordlists, id)
  BY <1>1, <1>2, <1>3, Located DEF In
<1>5. \A r \in words[id].refs : In(wordlists, r)
  BY <1>1, <1>2, <1>3, ListedIs DEF Runnable
<1>6. PICK c : c = [Command("ALIAS") EXCEPT !.id = id]
  OBVIOUS
<1>7. id \in Nat
  <2>1. id \in 1 .. Len(words) /\ Len(words) \in Nat
    BY <1>3, <1>4, InIs, Facts, HereIs DEF Good
  <2> QED BY <2>1
<1>8. c \in CommandType /\ c.op = "ALIAS" /\ c.id = id
  <2>1. "ALIAS" \in CommandOps
    BY DEF CommandOps, Nondeferred, Defining
  <2> QED BY <1>6, <1>7, <2>1, CommandTyped
<1>9. State = "interpret" /\ Type(c, name)
  BY <1>1, <1>2, <1>6, Outside
<1>10. PICK u, t : /\ t = Execute(u, c, name) /\ Becomes(t) /\ Marked(Here, u)
                   /\ State' = State /\ line' = <<>> /\ Good(u) /\ u.current # Root
  BY ONLY DictInv, <1>8, <1>9, TypedFrom
<1>11. In(u.lists, id) /\ \A r \in u.words[id].refs : In(u.lists, r)
  BY <1>3, <1>4, <1>5, <1>10, MarkedKeeps, HereIs, SMTT(30)
<1>12. name \in AnyName
  BY NamesAny
<1>13. t = CPP_alias(u, id, name)
  BY <1>8, <1>10, ExecuteIs
<1>14. t \in DictionaryType /\ Good(t)
  BY <1>10, <1>11, <1>12, <1>13, AliasOk
<1> QED BY ONLY KeepsRules, DictInv, <1>9, <1>10, <1>14, TypedCloses

LEMMA ForgetStep ==
  ASSUME KeepsRules, DictInv, Forget
  PROVE  DictInv'
<1>1. PICK name \in Names : TypeOutside(Command("FORGET"), name)
  BY DEF Forget
<1>2. PICK c : c = Command("FORGET")
  OBVIOUS
<1>3. c \in CommandType /\ c.op = "FORGET"
  <2>1. "FORGET" \in CommandOps
    BY DEF CommandOps, Nondeferred
  <2> QED BY <1>2, <2>1, CommandTyped
<1>4. State = "interpret" /\ Type(c, name)
  BY <1>1, <1>2, Outside
<1>5. PICK u, t : /\ t = Execute(u, c, name) /\ Becomes(t)
                  /\ State' = State /\ line' = <<>> /\ Good(u)
  BY ONLY DictInv, <1>3, <1>4, TypedFrom
<1>6. t = CPP_forget(u, name)
  BY <1>3, <1>5, ExecuteIs
<1>7. t \in DictionaryType /\ Good(t)
  BY <1>5, <1>6, ForgetOk
<1> QED BY ONLY KeepsRules, DictInv, <1>4, <1>5, <1>7, TypedCloses

LEMMA ColdStep ==
  ASSUME KeepsRules, DictInv, Cold
  PROVE  DictInv'
<1>1. PICK name : name = ""
  OBVIOUS
<1>2. PICK c : c = Command("COLD")
  OBVIOUS
<1>3. c \in CommandType /\ c.op = "COLD"
  <2>1. "COLD" \in CommandOps
    BY DEF CommandOps, Nondeferred
  <2> QED BY <1>2, <2>1, CommandTyped
<1>4. State = "interpret" /\ Type(c, name)
  BY <1>1, <1>2, Outside DEF Cold
<1>5. PICK u, t : /\ t = Execute(u, c, name) /\ Becomes(t)
                  /\ State' = State /\ line' = <<>> /\ Good(u)
  BY ONLY DictInv, <1>3, <1>4, TypedFrom
<1>6. t = CPP_cold(u)
  BY <1>3, <1>5, ExecuteIs
<1>7. t \in DictionaryType /\ Good(t)
  BY <1>5, <1>6, ColdOk
<1> QED BY ONLY KeepsRules, DictInv, <1>4, <1>5, <1>7, TypedCloses

LEMMA ColonStep ==
  ASSUME KeepsRules, DictInv, Colon
  PROVE  DictInv'
<1>1. PICK name \in Names : Interpret(Command(":"), name) /\ State' = "compile"
  BY DEF Colon
<1>2. PICK c : c = Command(":")
  OBVIOUS
<1>3. c \in CommandType /\ c.op = ":"
  <2>1. ":" \in CommandOps
    BY DEF CommandOps, Nondeferred, Defining
  <2> QED BY <1>2, <2>1, CommandTyped
<1>4. ExecuteUpTo(<<c>>, name)
  BY <1>1, <1>2 DEF Interpret
<1>5. PICK f, t : /\ t = Execute(f[Len(line)], c, name) /\ Becomes(t) /\ line' = <<>>
                  /\ Marked(Here, f[Len(line)])
  BY ONLY DictInv, <1>3, <1>4, TypedIs
<1>6. PICK u : u = f[Len(line)]
  OBVIOUS
<1>7. Good(u)
  BY <1>5, <1>6 DEF Marked
<1>8. t = NewEntry(u, Entry(name))
  BY <1>3, <1>5, <1>6, ExecuteIs
<1>9. t \in DictionaryType /\ Good(t) /\ Pending(t)
  BY <1>7, <1>8, NamesAny, ColonOk
<1>10. line' \in Seq(CommandType) /\ AllIn(line', Marks)
  <2>1. \A i \in 1 .. 0 : FALSE
    OBVIOUS
  <2> QED BY <1>5, <2>1, NoCode DEF AllIn
<1>11. State' \in {"interpret", "brackets", "compile"}
  BY <1>1
<1> QED BY ONLY KeepsRules, <1>5, <1>9, <1>10, <1>11, Closes

(* The end of the line, and ].                                             *)
LEMMA LineStep ==
  ASSUME KeepsRules, DictInv, EndOfLine \/ RightBracket
  PROVE  DictInv'
<1>1. PICK code : code = <<>>
  OBVIOUS
<1>2. PICK name : name = ""
  OBVIOUS
<1>3. ExecuteUpTo(code, name)
  BY <1>1, <1>2 DEF EndOfLine, RightBracket
<1>4. code \in Seq(CommandType) /\ Len(code) = 0
  BY <1>1, NoCode
<1>5. PICK f, g : /\ Trace(f, Here, line, name) /\ Trace(g, f[Len(line)], code, name)
                  /\ Becomes(g[Len(code)]) /\ line' = <<>>
                  /\ Marked(Here, f[Len(line)])
  BY ONLY DictInv, <1>3, <1>4, UpToIs
<1>6. PICK u : u = f[Len(line)]
  OBVIOUS
<1>7. u \in DictionaryType /\ Good(u) /\ (Pending(Here) => Pending(u)) /\ Becomes(u)
  BY <1>4, <1>5, <1>6 DEF Marked, Trace
<1>8. line' \in Seq(CommandType) /\ AllIn(line', Marks)
  <2>1. \A i \in 1 .. 0 : FALSE
    OBVIOUS
  <2> QED BY <1>5, <2>1, NoCode DEF AllIn
<1>9. State' \in {"interpret", "brackets", "compile"} /\ (State' # "interpret" => Pending(u))
  BY <1>7 DEF EndOfLine, RightBracket, DictInv
<1> QED BY ONLY KeepsRules, <1>7, <1>8, <1>9, Closes

(* Steps that leave the dictionary.                                        *)
LEMMA StillCloses ==
  ASSUME DictInv, UNCHANGED <<words, wordlists, Dictionary, SearchOrder, pCompilationWL,
                              pNewWord, newest, missed>>,
         State' \in {"interpret", "brackets", "compile"},
         State' # "interpret" => State # "interpret",
         line' \in Seq(CommandType), AllIn(line', Marks)
  PROVE  DictInv'
<1>1. Here' = Here
  BY DEF Here
<1>2. pCompilationWL' # Root
  BY DEF DictInv
<1>3. Good(Here)' /\ (State' # "interpret" => Pending(Here)')
  BY <1>1 DEF DictInv
<1> QED BY <1>2, <1>3 DEF DictInv

LEMMA FailStep ==
  ASSUME DictInv, Fail
  PROVE  DictInv'
<1>1. line' \in Seq(CommandType) /\ AllIn(line', Marks)
  <2>1. \A i \in 1 .. 0 : FALSE
    OBVIOUS
  <2> QED BY <2>1, NoCode DEF AllIn, Fail
<1> QED BY <1>1, StillCloses DEF Fail

LEMMA LeftBracketStep ==
  ASSUME DictInv, LeftBracket
  PROVE  DictInv'
<1>1. line' = line /\ State' = "brackets" /\ State # "interpret"
  BY DEF LeftBracket, Compiling
<1>2. line' \in Seq(CommandType) /\ AllIn(line', Marks)
  BY <1>1 DEF DictInv, AllIn
<1> QED BY <1>1, <1>2, StillCloses DEF LeftBracket

(* Marks wait.                                                             *)
LEMMA DeferOk ==
  ASSUME DictInv, NEW code \in Seq(CommandType), AllIn(code, Marks), Defer(code)
  PROVE  /\ line' \in Seq(CommandType) /\ AllIn(line', Marks)
         /\ UNCHANGED <<words, wordlists, Dictionary, SearchOrder, pCompilationWL,
                        pNewWord, newest, missed>>
         /\ State' = State
<1> DEFINE n == Len(code)
           q == [i \in DOMAIN code |->
                  IF code[i].op \in Marks THEN [code[i] EXCEPT !.id = newest] ELSE code[i]]
<1>1. n \in Nat /\ DOMAIN code = 1 .. n
  BY LenProperties
<1>2. line \in Seq(CommandType) /\ AllIn(line, Marks) /\ newest \in Nat
  BY Facts, HereIs DEF DictInv, Good
<1>3. \A i \in 1 .. n : q[i] \in CommandType /\ q[i].op \in Marks
  <2> SUFFICES ASSUME NEW i \in 1 .. n PROVE q[i] \in CommandType /\ q[i].op \in Marks
    OBVIOUS
  <2>1. PICK c : c = code[i]
    OBVIOUS
  <2>2. c \in CommandType /\ c.op \in Marks
    BY <2>1, Elements DEF AllIn
  <2>3. q[i] = [c EXCEPT !.id = newest]
    BY <1>1, <2>1, <2>2
  <2> QED BY <1>2, <2>2, <2>3 DEF CommandType
<1>4. q \in [1 .. n -> CommandType]
  <2>1. q = [i \in 1 .. n |-> q[i]]
    BY <1>1
  <2> QED BY <1>3, <2>1
<1>5. line' = line \o q
  BY DEF Defer
<1> HIDE DEF q, n
<1>6. q \in Seq(CommandType) /\ Len(q) = n
  BY ONLY <1>1, <1>4, FunctionIsSeq
<1>7. AllIn(q, Marks)
  BY <1>3, <1>6 DEF AllIn
<1>8. line' \in Seq(CommandType)
  BY ONLY <1>2, <1>5, <1>6, Joined
<1>9. AllIn(line', Marks)
  BY <1>2, <1>5, <1>6, <1>7, JoinedOps
<1> QED BY <1>8, <1>9 DEF Defer

LEMMA DeferStep ==
  ASSUME DictInv, NEW code \in Seq(CommandType), AllIn(code, Marks), Defer(code)
  PROVE  DictInv'
<1>1. /\ line' \in Seq(CommandType) /\ AllIn(line', Marks)
      /\ UNCHANGED <<words, wordlists, Dictionary, SearchOrder, pCompilationWL,
                     pNewWord, newest, missed>>
      /\ State' = State
  BY DeferOk
<1>2. State' \in {"interpret", "brackets", "compile"}
  BY <1>1 DEF DictInv
<1> QED BY <1>1, <1>2, StillCloses

(* Code of one command.                                                    *)
LEMMA OneCommand ==
  ASSUME NEW op \in CommandOps, NEW code, code = <<Command(op)>>
  PROVE  /\ code \in Seq(CommandType) /\ Len(code) = 1 /\ code[1] = Command(op)
         /\ code[1].op = op /\ code[1].id = NoWord
         /\ \A ops : AllIn(code, ops) <=> op \in ops
         /\ \A other : Lacks(code, other) <=> op # other
<1>1. PICK c : c = Command(op)
  OBVIOUS
<1>2. c \in CommandType /\ c.op = op /\ c.id = NoWord
  BY <1>1, CommandTyped
<1>3. code \in Seq(CommandType) /\ Len(code) = 1 /\ code[1] = c
  BY <1>1, <1>2
<1>4. \A i \in 1 .. 1 : i = 1
  OBVIOUS
<1> QED BY <1>1, <1>2, <1>3, <1>4 DEF AllIn, Lacks

LEMMA TypeMarkStep ==
  ASSUME DictInv, TypeMark
  PROVE  DictInv'
<1>1. PICK op \in Marks : Defer(<<Command(op)>>)
  BY DEF TypeMark
<1>2. PICK code : code = <<Command(op)>>
  OBVIOUS
<1>3. op \in CommandOps
  BY DEF CommandOps, Compilable, Deferrable
<1>4. code \in Seq(CommandType) /\ AllIn(code, Marks)
  BY <1>2, <1>3, OneCommand
<1> QED BY <1>1, <1>2, <1>4, DeferStep

-----------------------------------------------------------------------------
(* Words that are read *)

LEMMA NotAfterDoes ==
  ASSUME NEW e, e.code \in Seq(CommandType), CodeOk(e.code), ~AfterDoes(e)
  PROVE  Lacks(e.code, "DOES>")
<1> SUFFICES ASSUME NEW i \in 1 .. Len(e.code), e.code[i].op = "DOES>"
             PROVE  FALSE
  BY DEF Lacks
<1>1. i = Len(e.code)
  BY DEF CodeOk
<1>2. Len(e.code) \in Nat /\ Len(e.code) > 0
  BY LenProperties
<1>3. e.code # <<>>
  BY <1>2, NoCode
<1>4. Last(e.code) = e.code[Len(e.code)]
  BY DEF Last
<1> QED BY <1>1, <1>3, <1>4 DEF AfterDoes

(* The word that a name finds, and what it refers to.                      *)
LEMMA WordIs ==
  ASSUME DictInv, NEW name, NEW id, id = LocateWord(name), id # NoWord, Runnable(id)
  PROVE  /\ id \in 1 .. Len(words) /\ id \in Nat /\ In(wordlists, id)
         /\ \A r \in words[id].refs : In(wordlists, r)
         /\ words[id] \in EntryType /\ words[id].code \in Seq(CommandType)
         /\ words[id].refs \subseteq Nat
         /\ EntryOk(words, Len(wordlists), words[id], id)
         /\ Lacks(words[id].code, "vocabulary") \/ Len(SearchOrder) >= 2
<1>1. Good(Here) /\ Here \in DictionaryType
  BY DEF DictInv, Good
<1>2. PICK i \in 1 .. Len(SearchOrder) :
        /\ SearchOrder[i] \in 1 .. Len(wordlists)
        /\ \E j \in 1 .. Len(wordlists[SearchOrder[i]]) : wordlists[SearchOrder[i]][j] = id
  BY <1>1, Located
<1>3. PICK w \in 1 .. Len(wordlists) : w = SearchOrder[i]
  BY <1>2
<1>4. PICK j \in 1 .. Len(wordlists[w]) : wordlists[w][j] = id
  BY <1>2, <1>3
<1>5. In(wordlists, id)
  BY <1>4 DEF In
<1>6. id \in 1 .. Len(words) /\ words[id] \in EntryType
  BY <1>1, <1>5, InIs, HereIs
<1>7. PlaceOk(words, wordlists[w], w, j)
  BY <1>1, HereIs DEF Good, ListsOk, ListOk
<1>8. Lacks(words[id].code, "vocabulary") \/ Len(SearchOrder) >= 2
  <2>1. CASE w = Root
    BY <1>4, <1>7, <2>1 DEF PlaceOk
  <2>2. CASE w # Root
    BY <1>1, <1>3, <2>2, OrderLong
  <2> QED BY <2>1, <2>2
<1>9. \A r \in words[id].refs : In(wordlists, r)
  BY <1>1, ListedIs DEF Runnable
<1>10. /\ id \in Nat /\ words[id].code \in Seq(CommandType) /\ words[id].refs \subseteq Nat
  <2>1. Len(words) \in Nat
    BY <1>1, Facts, HereIs
  <2>2. id \in Nat
    BY <1>6, <2>1
  <2> QED BY <1>6, <2>2 DEF EntryType
<1>11. EntryOk(words, Len(wordlists), words[id], id)
  BY <1>1, <1>6, HereIs DEF Good, WordsOk
<1> QED BY <1>5, <1>6, <1>8, <1>9, <1>10, <1>11

LEMMA WordCanRun ==
  ASSUME KeepsRules, DictInv, NEW name, NEW id, id = LocateWord(name), id # NoWord, MayRun(id),
         NEW pend \in BOOLEAN, pend <=> State # "interpret"
  PROVE  CanRun(Here, {id} \cup words[id].refs, words[id].code, pend)
<1>1. Runnable(id)
  BY DEF MayRun
<1>2. PICK code : code = words[id].code
  OBVIOUS
<1>3. PICK T : T = {id} \cup words[id].refs
  OBVIOUS
<1>4. /\ id \in 1 .. Len(words) /\ id \in Nat /\ In(wordlists, id)
      /\ \A r \in words[id].refs : In(wordlists, r)
      /\ words[id] \in EntryType /\ code \in Seq(CommandType)
      /\ EntryOk(words, Len(wordlists), words[id], id)
      /\ Lacks(code, "vocabulary") \/ Len(SearchOrder) >= 2
  BY <1>1, <1>2, WordIs
<1>5. CodeOk(code) /\ \A i \in 1 .. Len(code) : Points(words, Len(wordlists), words[id], id, code[i])
  BY <1>2, <1>4 DEF EntryOk
<1>6. DOMAIN code = 1 .. Len(code)
  BY <1>4, LenProperties
<1>7. ASSUME NEW i \in 1 .. Len(code) PROVE Allowed(Here, T, code[i], pend)
  <2>1. PICK c : c = code[i]
    OBVIOUS
  <2>2. Points(words, Len(wordlists), words[id], id, c)
    BY <1>5, <2>1
  <2>3. c.op = "vocabulary" =>
          Len(SearchOrder) >= 2 /\ c.wids # <<>> /\ c.wids[1] \in 1 .. Len(wordlists)
    BY <1>4, <2>1, <2>2 DEF Points, Lacks
  <2>4. c.op \in {"compile-name", "DOES>"} => c.id \in T /\ words[c.id].refs \subseteq T
    BY <1>3, <2>2 DEF Points
  <2>5. c.op = "compile-name" =>
          /\ pend /\ AllIn(words[c.id].code, Deferrable)
          /\ Lacks(words[pNewWord].code, "DOES>")
    <3>1. SUFFICES ASSUME c.op = "compile-name"
                   PROVE  /\ pend /\ AllIn(words[c.id].code, Deferrable)
                          /\ Lacks(words[pNewWord].code, "DOES>")
      OBVIOUS
    <3>2. State = "compile" /\ ~AfterDoes(words[pNewWord])
      BY <1>2, <1>6, <2>1, <3>1 DEF MayRun
    <3>3. AllIn(words[c.id].code, Deferrable)
      BY <2>2, <3>1 DEF Points
    <3>4. PICK e : e = words[pNewWord]
      OBVIOUS
    <3>5. e.code \in Seq(CommandType) /\ CodeOk(e.code)
      <4>1. pNewWord \in 1 .. Len(words) /\ Here \in DictionaryType
        BY <3>2, HereIs DEF DictInv, Pending, Good
      <4>2. EntryOk(words, Len(wordlists), e, pNewWord)
        BY <3>4, <4>1, HereIs DEF DictInv, Good, WordsOk
      <4> QED BY <3>4, <4>1, <4>2, Facts, HereIs DEF EntryOk
    <3>6. Lacks(e.code, "DOES>")
      BY <3>2, <3>4, <3>5, NotAfterDoes
    <3> QED BY <3>2, <3>3, <3>4, <3>6
  <2>6. c.op \in {"VARIABLE", "DOES>"} => ~pend
    <3>1. Keeps("brackets keep the dictionary")
      BY Kept1 DEF Rules
    <3> QED BY <1>2, <1>6, <2>1, <3>1 DEF MayRun, ChangesWords
  <2> QED BY <2>1, <2>3, <2>4, <2>5, <2>6, HereIs DEF Allowed
<1>8. \A r \in T : In(Here.lists, r)
  BY <1>3, <1>4, HereIs
<1>9. CanRun(Here, T, code, pend)
  BY <1>4, <1>5, <1>7, <1>8 DEF CanRun
<1> QED BY <1>2, <1>3, <1>9

(* Marks before it change nothing of that.                                 *)
LEMMA MarkedCanRun ==
  ASSUME NEW s, Good(s), NEW u, Marked(s, u), NEW T, NEW code, NEW pend \in BOOLEAN,
         pend => Pending(s), CanRun(s, T, code, pend)
  PROVE  CanRun(u, T, code, pend)
<1>1. \A r \in T : r \in 1 .. Len(s.words)
  BY InIs DEF CanRun
<1>2. pend => s.new \in 1 .. Len(s.words) /\ u.new = s.new
  BY DEF Pending, Marked
<1>3. ASSUME NEW i \in 1 .. Len(code) PROVE Allowed(u, T, code[i], pend)
  <2>1. Allowed(s, T, code[i], pend)
    BY DEF CanRun
  <2>2. u.order = s.order /\ u.lists = s.lists
    BY DEF Marked
  <2>3. \A k \in 1 .. Len(s.words) : /\ u.words[k].refs = s.words[k].refs
                                     /\ u.words[k].code = s.words[k].code
    BY DEF Marked, SameCode
  <2> QED BY <1>1, <1>2, <2>1, <2>2, <2>3 DEF Allowed
<1> QED BY <1>3 DEF CanRun, Marked

LEMMA RunCloses ==
  ASSUME KeepsRules, DictInv, NEW u, Good(u), NEW pend \in BOOLEAN,
         pend <=> State # "interpret", pend => Pending(u),
         NEW T, NEW code, CanRun(u, T, code, pend), NEW name \in AnyName,
         NEW g, Trace(g, u, code, name), Becomes(g[Len(code)]), State' = State,
         line' = <<>> \/ line' = line
  PROVE  DictInv'
<1>1. Len(code) \in 0 .. Len(code)
  BY LenProperties DEF CanRun
<1>2. PICK t : t = g[Len(code)]
  OBVIOUS
<1>3. Ran(u, t, code, Len(code), pend)
  BY <1>1, <1>2, CodeRun
<1>4. t \in DictionaryType /\ Good(t) /\ (pend => Pending(t)) /\ Becomes(t)
  BY <1>2, <1>3 DEF Ran
<1>5. State' \in {"interpret", "brackets", "compile"}
  BY DEF DictInv
<1>6. line' \in Seq(CommandType) /\ AllIn(line', Marks)
  <2>1. CASE line' = <<>>
    <3>1. \A i \in 1 .. 0 : FALSE
      OBVIOUS
    <3> QED BY <2>1, <3>1, NoCode DEF AllIn
  <2>2. CASE line' = line
    BY <2>2 DEF DictInv, AllIn
  <2> QED BY <2>1, <2>2
<1> QED BY ONLY KeepsRules, pend <=> State # "interpret", State' = State,
                <1>4, <1>5, <1>6, Closes

(* EXECUTE_CURRENT_ONLY.                                                   *)
LEMMA CurrentOnlyStep ==
  ASSUME KeepsRules, DictInv, NEW name, NEW id, id = LocateWord(name), id # NoWord, MayRun(id),
         NEW next \in AnyName, ExecuteCurrentOnly(words[id].code, next)
  PROVE  DictInv'
<1>1. PICK pend \in BOOLEAN : pend <=> State # "interpret"
  OBVIOUS
<1>2. PICK code : code = words[id].code
  OBVIOUS
<1>3. PICK T : CanRun(Here, T, code, pend)
  BY <1>1, <1>2, WordCanRun
<1>4. PICK f : Trace(f, Here, code, next) /\ ExecuteAll(Here, code, next) = f[Len(code)]
  BY <1>3, ExecuteAllIs DEF CanRun
<1>5. Becomes(f[Len(code)]) /\ State' = State /\ line' = line
  BY <1>2, <1>4 DEF ExecuteCurrentOnly
<1>6. Good(Here) /\ (pend => Pending(Here))
  BY <1>1 DEF DictInv
<1> QED BY <1>1, <1>3, <1>4, <1>5, <1>6, RunCloses

LEMMA InterpretWordStep ==
  ASSUME KeepsRules, DictInv, InterpretWord
  PROVE  DictInv'
<1>1. PICK name \in Names, next \in Names :
        /\ State # "compile" /\ LocateWord(name) # NoWord /\ MayRun(LocateWord(name))
        /\ \/ /\ ExecuteUpTo(words[LocateWord(name)].code, next) /\ State' = State
           \/ ExecuteCurrentOnly(words[LocateWord(name)].code, next)
           \/ /\ ~words[LocateWord(name)].nondeferred
              /\ Defer(words[LocateWord(name)].code)
  BY DEF InterpretWord, Interpreting
<1>2. PICK id : id = LocateWord(name)
  OBVIOUS
<1>3. PICK code : code = words[id].code
  OBVIOUS
<1>4. id # NoWord /\ MayRun(id) /\ Runnable(id) /\ next \in AnyName
  BY <1>1, <1>2, NamesAny DEF MayRun
<1>5. code \in Seq(CommandType) /\ EntryOk(words, Len(wordlists), words[id], id)
  BY <1>2, <1>3, <1>4, WordIs
<1>6. CASE ExecuteUpTo(code, next) /\ State' = State
  <2>1. PICK f, g : /\ Trace(f, Here, line, next) /\ Trace(g, f[Len(line)], code, next)
                    /\ Becomes(g[Len(code)]) /\ line' = <<>>
                    /\ Marked(Here, f[Len(line)])
    BY ONLY DictInv, <1>5, <1>6, UpToIs
  <2>2. PICK u : u = f[Len(line)]
    OBVIOUS
  <2>3. PICK pend \in BOOLEAN : pend <=> State # "interpret"
    OBVIOUS
  <2>4. PICK T : CanRun(Here, T, code, pend)
    BY <1>2, <1>3, <1>4, <2>3, WordCanRun
  <2>5. Good(Here) /\ (pend => Pending(Here)) /\ Marked(Here, u)
    BY <2>1, <2>2, <2>3 DEF DictInv
  <2>6. CanRun(u, T, code, pend)
    BY <2>4, <2>5, MarkedCanRun
  <2>7. Good(u) /\ (pend => Pending(u))
    BY <2>5 DEF Marked
  <2>8. Trace(g, u, code, next) /\ Becomes(g[Len(code)]) /\ line' = <<>> /\ State' = State
    BY <1>6, <2>1, <2>2
  <2> QED BY ONLY KeepsRules, DictInv, <1>4, <2>3, <2>6, <2>7, <2>8, RunCloses
<1>7. CASE ExecuteCurrentOnly(code, next)
  BY <1>2, <1>3, <1>4, <1>7, CurrentOnlyStep
<1>8. CASE ~words[id].nondeferred /\ Defer(code)
  <2>1. AllIn(code, Deferrable)
    BY <1>3, <1>5, <1>8 DEF EntryOk
  <2>2. DOMAIN code = 1 .. Len(code)
    BY <1>5, LenProperties
  <2>3. \A i \in 1 .. Len(code) : code[i].op # "compile-name"
    BY <1>1, <1>3, <1>4, <2>2 DEF MayRun
  <2>4. AllIn(code, Marks)
    BY <2>1, <2>3 DEF AllIn, Deferrable
  <2> QED BY <1>5, <1>8, <2>4, DeferStep
<1> QED BY <1>1, <1>2, <1>3, <1>6, <1>7, <1>8

-----------------------------------------------------------------------------
(* Compilation *)

(* Code that may join the definition in progress: h refers to what its     *)
(* commands point to.                                                      *)
Joins(code, refs, nondeferred) ==
  /\ code \in Seq(CommandType) /\ nondeferred \in BOOLEAN
  /\ \/ nondeferred \/ AllIn(code, Deferrable)
     \/ words[pNewWord].nondeferred /\ ~AfterDoes(words[pNewWord])
  /\ \A r \in refs : In(wordlists, r)
  /\ Lacks(code, "vocabulary")
  /\ ~AfterDoes(words[pNewWord]) => CodeOk(words[pNewWord].code \o code)
  /\ \E h : /\ h.refs \subseteq words[pNewWord].refs \cup refs
            /\ \A i \in 1 .. Len(code) : Points(words, Len(wordlists), h, pNewWord, code[i])

(* Every command of two sequences points to what the entry refers to.      *)
LEMMA JoinedPoints ==
  ASSUME NEW p \in Seq(CommandType), NEW q \in Seq(CommandType), NEW ws, NEW n, NEW e, NEW k,
         \A i \in 1 .. Len(p) : Points(ws, n, e, k, p[i]),
         \A i \in 1 .. Len(q) : Points(ws, n, e, k, q[i])
  PROVE  \A i \in 1 .. Len(p \o q) : Points(ws, n, e, k, (p \o q)[i])
<1>1. \A i \in 1 .. Len(p \o q) :
        \/ i \in 1 .. Len(p) /\ (p \o q)[i] = p[i]
        \/ i - Len(p) \in 1 .. Len(q) /\ (p \o q)[i] = q[i - Len(p)]
  BY Joined
<1> QED BY <1>1

(* The entry f has the code that joined e.                                 *)
Compounded(e, code, refs, nondeferred, f) ==
  /\ f \in EntryType /\ f.refs = e.refs \cup refs /\ f.freed = e.freed
  /\ f.nondeferred = (e.nondeferred \/ nondeferred)
  /\ AfterDoes(e) => f.does = e.does \o code /\ f.code = e.code
  /\ ~AfterDoes(e) => f.does = e.does /\ f.code = e.code \o code

LEMMA CompiledIs ==
  ASSUME NEW e \in EntryType, NEW code \in Seq(CommandType), NEW refs \in SUBSET Nat,
         NEW nondeferred \in BOOLEAN, NEW f, f = Compiled(e, code, refs, nondeferred)
  PROVE  Compounded(e, code, refs, nondeferred, f)
<1>1. /\ e.does \in Seq(CommandType) /\ e.code \in Seq(CommandType)
      /\ e.refs \in SUBSET Nat /\ e.nondeferred \in BOOLEAN
  BY DEF EntryType
<1>2. PICK d \in Seq(CommandType) : d = IF AfterDoes(e) THEN e.does \o code ELSE e.does
  BY <1>1, Joined
<1>3. PICK c \in Seq(CommandType) : c = IF AfterDoes(e) THEN e.code ELSE e.code \o code
  BY <1>1, Joined
<1>4. PICK r \in SUBSET Nat : r = e.refs \cup refs
  BY <1>1
<1>5. PICK b \in BOOLEAN : b = (e.nondeferred \/ nondeferred)
  BY <1>1
<1>6. f = [e EXCEPT !.refs = r, !.nondeferred = b, !.does = d, !.code = c]
  BY <1>2, <1>3, <1>4, <1>5 DEF Compiled
<1>7. /\ f \in EntryType /\ f.refs = r /\ f.freed = e.freed /\ f.nondeferred = b
      /\ f.does = d /\ f.code = c
  BY <1>6 DEF EntryType
<1>8. f.refs = e.refs \cup refs
  BY <1>4, <1>7
<1>9. f.nondeferred = (e.nondeferred \/ nondeferred)
  BY <1>5, <1>7
<1>10. AfterDoes(e) => f.does = e.does \o code /\ f.code = e.code
  BY <1>2, <1>3, <1>7
<1>11. ~AfterDoes(e) => f.does = e.does /\ f.code = e.code \o code
  BY <1>2, <1>3, <1>7
<1> QED BY <1>7, <1>8, <1>9, <1>10, <1>11 DEF Compounded

LEMMA CompileOk ==
  ASSUME KeepsRules, DictInv, State = "compile", NEW code, NEW refs, NEW nondeferred,
         Compile(code, refs, nondeferred), Joins(code, refs, nondeferred)
  PROVE  DictInv'
<1>1. /\ Good(Here) /\ Pending(Here) /\ Here \in DictionaryType
      /\ Here.words = words /\ Here.lists = wordlists /\ Here.new = pNewWord
  BY HereIs DEF DictInv, Good
<1>2. PICK k : k = pNewWord
  OBVIOUS
<1>3. PICK n \in Nat : n = Len(wordlists)
  BY <1>1, Facts
<1>4. /\ words \in Seq(EntryType) /\ Len(words) \in Nat /\ k \in 1 .. Len(words)
      /\ words[k] \in EntryType /\ WordsOk(words, n)
      /\ \A j \in 1 .. Len(words) : k \notin words[j].refs
      /\ ~words[k].freed /\ ~In(wordlists, k)
      /\ \A r \in words[k].refs : In(wordlists, r)
      /\ Lacks(words[k].code, "vocabulary")
  BY <1>1, <1>2, <1>3, Facts DEF Good, Pending
<1>5. PICK e \in EntryType : e = words[k]
  BY <1>4
<1>6. EntryOk(words, n, e, k)
  BY <1>4, <1>5 DEF WordsOk
<1>7. /\ code \in Seq(CommandType) /\ nondeferred \in BOOLEAN
      /\ nondeferred \/ AllIn(code, Deferrable) \/ (e.nondeferred /\ ~AfterDoes(e))
      /\ \A r \in refs : In(wordlists, r)
      /\ Lacks(code, "vocabulary")
      /\ ~AfterDoes(e) => CodeOk(e.code \o code)
  BY <1>2, <1>5 DEF Joins
<1>8. PICK h : /\ h.refs \subseteq e.refs \cup refs
               /\ \A i \in 1 .. Len(code) : Points(words, n, h, k, code[i])
  BY <1>2, <1>3, <1>5 DEF Joins
<1>9. \A r \in e.refs \cup refs : In(wordlists, r) /\ r \in 1 .. Len(words) /\ r # k
  BY <1>1, <1>4, <1>5, <1>7, InIs
<1>10. refs \in SUBSET Nat
  BY <1>4, <1>9
<1>11. PICK f : f = Compiled(e, code, refs, nondeferred)
  OBVIOUS
<1>12. /\ f \in EntryType /\ f.refs = e.refs \cup refs /\ f.freed = e.freed
       /\ f.nondeferred = (e.nondeferred \/ nondeferred)
       /\ AfterDoes(e) => f.does = e.does \o code /\ f.code = e.code
       /\ ~AfterDoes(e) => f.does = e.does /\ f.code = e.code \o code
  <2>1. Compounded(e, code, refs, nondeferred, f)
    BY ONLY e \in EntryType, <1>7, <1>10, <1>11, CompiledIs
  <2> QED BY <2>1 DEF Compounded
<1>13. PICK vs : vs = [words EXCEPT ![k] = f]
  OBVIOUS
<1>14. /\ Len(vs) = Len(words) /\ vs[k] = f
       /\ \A j \in 1 .. Len(words) : j # k => vs[j] = words[j]
  BY <1>4, <1>12, <1>13, ExceptSeq
<1>15. \A j \in f.refs : vs[j] = words[j]
  BY <1>9, <1>12, <1>14
<1>16. /\ \A i \in 1 .. Len(e.code) : Points(vs, n, f, k, e.code[i])
       /\ \A i \in 1 .. Len(e.does) : Points(vs, n, f, k, e.does[i])
  <2>1. \A j \in e.refs : Less(words, vs, j)
    BY <1>12, <1>15 DEF Less
  <2>2. n <= n /\ e.refs \subseteq f.refs /\ vs[k].refs \subseteq f.refs
    BY <1>12, <1>14
  <2> QED BY <1>6, <2>1, <2>2, PointsStay DEF EntryOk
<1>17. \A i \in 1 .. Len(code) : Points(vs, n, f, k, code[i])
  <2>1. \A j \in h.refs : Less(words, vs, j)
    BY <1>8, <1>12, <1>15 DEF Less
  <2>2. n <= n /\ h.refs \subseteq f.refs /\ vs[k].refs \subseteq f.refs
    BY <1>8, <1>12, <1>14
  <2> QED BY <1>8, <2>1, <2>2, PointsStay
<1>18. e.code \in Seq(CommandType) /\ e.does \in Seq(CommandType)
  BY DEF EntryType
<1>19. f.refs \subseteq 1 .. Len(vs)
  BY <1>9, <1>12, <1>14
<1>20. EntryOk(vs, n, f, k) /\ Lacks(f.code, "vocabulary")
  <2>1. CASE AfterDoes(e)
    <3>1. AllIn(code, Deferrable)
      <4>1. Keeps("DOES> code is deferrable")
        BY Kept1 DEF Rules
      <4>2. ~nondeferred
        BY <1>2, <1>5, <2>1, <4>1 DEF Compile
      <4> QED BY <1>7, <2>1, <4>2
    <3>2. f.does = e.does \o code /\ f.code = e.code
      BY <1>12, <2>1
    <3>3. AllIn(f.does, Deferrable)
      BY <1>6, <1>7, <1>18, <3>1, <3>2, JoinedOps DEF EntryOk
    <3>4. \A i \in 1 .. Len(f.does) : Points(vs, n, f, k, f.does[i])
      BY ONLY <1>7, <1>16, <1>17, <1>18, <3>2, JoinedPoints
    <3>5. CodeOk(f.code) /\ (f.nondeferred \/ AllIn(f.code, Deferrable))
      BY <1>6, <1>12, <3>2 DEF EntryOk
    <3>6. \A i \in 1 .. Len(f.code) : Points(vs, n, f, k, f.code[i])
      BY <1>16, <3>2
    <3>7. Lacks(f.code, "vocabulary")
      BY <1>4, <1>5, <3>2
    <3> QED BY ONLY <1>19, <3>3, <3>4, <3>5, <3>6, <3>7 DEF EntryOk
  <2>2. CASE ~AfterDoes(e)
    <3>1. f.does = e.does /\ f.code = e.code \o code
      BY <1>12, <2>2
    <3>2. CodeOk(f.code)
      BY <1>7, <2>2, <3>1
    <3>3. /\ AllIn(e.code, Deferrable) /\ AllIn(code, Deferrable) => AllIn(f.code, Deferrable)
          /\ Lacks(f.code, "vocabulary")
      BY <1>4, <1>5, <1>7, <1>18, <3>1, JoinedOps
    <3>4. \A i \in 1 .. Len(f.code) : Points(vs, n, f, k, f.code[i])
      BY ONLY <1>7, <1>16, <1>17, <1>18, <3>1, JoinedPoints
    <3>5. f.nondeferred \/ AllIn(f.code, Deferrable)
      BY <1>6, <1>7, <1>12, <3>3 DEF EntryOk
    <3>6. AllIn(f.does, Deferrable)
      BY <1>6, <3>1 DEF EntryOk
    <3>7. \A i \in 1 .. Len(f.does) : Points(vs, n, f, k, f.does[i])
      BY <1>16, <3>1
    <3> QED BY ONLY <1>19, <3>2, <3>3, <3>4, <3>5, <3>6, <3>7 DEF EntryOk
  <2> QED BY <2>1, <2>2
<1>21. PICK t : t = [Here EXCEPT !.words = vs]
  OBVIOUS
<1>22. NewSet(Here, t)
  <2>1. vs = WithNew(Here, f)
    BY <1>1, <1>2, <1>13 DEF WithNew
  <2>2. Settable(Here, f)
    BY <1>1, <1>2, <1>3, <1>4, <1>5, <1>9, <1>12, <1>20, <2>1 DEF Settable
  <2> QED BY ONLY <1>1, <1>21, <2>1, <2>2, NewSetOk
<1>23. /\ words' = vs
       /\ UNCHANGED <<wordlists, Dictionary, SearchOrder, pCompilationWL, pNewWord,
                      State, line, newest, missed>>
  BY <1>2, <1>4, <1>5, <1>11, <1>13 DEF Compile
<1>24. Here' = t
  BY <1>21, <1>23 DEF Here
<1>25. Good(Here)' /\ Pending(Here)'
  BY <1>22, <1>24 DEF NewSet
<1> QED BY <1>23, <1>25 DEF DictInv

(* The word of the definition in progress.                                 *)
LEMMA NewWordIs ==
  ASSUME DictInv, State # "interpret"
  PROVE  /\ pNewWord \in 1 .. Len(words) /\ pNewWord \in Nat
         /\ words[pNewWord] \in EntryType /\ words[pNewWord].code \in Seq(CommandType)
         /\ EntryOk(words, Len(wordlists), words[pNewWord], pNewWord)
         /\ Lacks(words[pNewWord].code, "vocabulary")
<1>1. /\ Good(Here) /\ Pending(Here) /\ Here \in DictionaryType
      /\ Here.words = words /\ Here.lists = wordlists /\ Here.new = pNewWord
  BY HereIs DEF DictInv, Good
<1>2. pNewWord \in 1 .. Len(words) /\ Lacks(words[pNewWord].code, "vocabulary")
  BY <1>1 DEF Pending
<1> QED BY <1>1, <1>2, Facts DEF Good, WordsOk

(* Code without DOES> joins the definition.                                *)
LEMMA JoinOk ==
  ASSUME DictInv, State = "compile", NEW code \in Seq(CommandType), AllIn(code, Compilable),
         Lacks(code, "vocabulary"), Lacks(code, "DOES>"), ~AfterDoes(words[pNewWord])
  PROVE  CodeOk(words[pNewWord].code \o code)
<1>1. PICK e : e = words[pNewWord]
  OBVIOUS
<1>2. /\ e \in EntryType /\ e.code \in Seq(CommandType) /\ Lacks(e.code, "vocabulary")
      /\ CodeOk(e.code) /\ ~AfterDoes(e)
  BY <1>1, NewWordIs DEF EntryOk
<1>3. Lacks(e.code, "DOES>") /\ AllIn(e.code, Compilable)
  BY <1>2, NotAfterDoes DEF CodeOk
<1>4. PICK both : both = e.code \o code
  OBVIOUS
<1>5. AllIn(both, Compilable) /\ Lacks(both, "vocabulary") /\ Lacks(both, "DOES>")
  BY <1>2, <1>3, <1>4, JoinedOps
<1>6. CodeOk(both)
  BY <1>5 DEF CodeOk, Lacks
<1> QED BY <1>1, <1>4, <1>6

LEMMA CompileCommandStep ==
  ASSUME KeepsRules, DictInv, CompileCommand
  PROVE  DictInv'
<1>1. PICK op \in Moving \cup Marks \cup {"VARIABLE"} :
        /\ State = "compile" /\ op \notin {"PREVIOUS", "ASSEMBLER"}
        /\ Compile(<<Command(op)>>, {}, op \in Nondeferred)
  <2>1. Keeps("PREVIOUS and vocabularies are typed")
    BY Kept1 DEF Rules
  <2> QED BY <2>1 DEF CompileCommand, Compiling
<1>2. PICK code : code = <<Command(op)>>
  OBVIOUS
<1>3. (op \in Nondeferred) \in BOOLEAN
  OBVIOUS
<1>4. /\ op \in CommandOps /\ op \in Compilable
      /\ op # "vocabulary" /\ op # "DOES>" /\ op # "compile-name"
      /\ (op \in Nondeferred \/ op \in Deferrable)
  <2>1. op \in {"ALSO", "ONLY", "FORTH", "DEFINITIONS", "VARIABLE"} \/ op \in Marks
    BY <1>1 DEF Moving
  <2>2. CASE op \in Marks
    BY <2>2 DEF CommandOps, Compilable, Deferrable, Marks
  <2>3. CASE op \in {"ALSO", "ONLY", "FORTH", "DEFINITIONS", "VARIABLE"}
    BY <2>3 DEF CommandOps, Compilable, Nondeferred, Moving, Defining
  <2> QED BY <2>1, <2>2, <2>3
<1>5. /\ code \in Seq(CommandType) /\ AllIn(code, Compilable)
      /\ Lacks(code, "vocabulary") /\ Lacks(code, "DOES>") /\ Lacks(code, "compile-name")
      /\ (op \in Nondeferred \/ AllIn(code, Deferrable))
  BY <1>2, <1>4, OneCommand
<1>6. ~AfterDoes(words[pNewWord]) => CodeOk(words[pNewWord].code \o code)
  BY <1>1, <1>5, JoinOk
<1>7. PICK h : h = words[pNewWord]
  OBVIOUS
<1>8. \A i \in 1 .. Len(code) : Points(words, Len(wordlists), h, pNewWord, code[i])
  BY <1>5 DEF Points, Lacks
<1>9. Joins(code, {}, op \in Nondeferred)
  BY <1>3, <1>5, <1>6, <1>7, <1>8 DEF Joins
<1>10. Compile(code, {}, op \in Nondeferred)
  BY <1>1, <1>2
<1> QED BY <1>1, <1>9, <1>10, CompileOk

LEMMA CompileDoesStep ==
  ASSUME KeepsRules, DictInv, CompileDoes
  PROVE  DictInv'
<1>1. /\ State = "compile" /\ words[pNewWord].code # <<>>
      /\ Last(words[pNewWord].code).op = "VARIABLE"
      /\ Compile(<<[Command("DOES>") EXCEPT !.id = pNewWord]>>, {}, FALSE)
  BY DEF CompileDoes, Compiling
<1>2. PICK e : e = words[pNewWord]
  OBVIOUS
<1>3. /\ pNewWord \in 1 .. Len(words) /\ pNewWord \in Nat /\ e \in EntryType
      /\ e.code \in Seq(CommandType) /\ EntryOk(words, Len(wordlists), e, pNewWord)
      /\ Lacks(e.code, "vocabulary")
  BY <1>1, <1>2, NewWordIs
<1>4. ~AfterDoes(e)
  BY <1>1, <1>2 DEF AfterDoes
<1>5. Lacks(e.code, "DOES>") /\ AllIn(e.code, Compilable) /\ CodeOk(e.code)
  BY <1>3, <1>4, NotAfterDoes DEF EntryOk, CodeOk
<1>6. Len(e.code) \in Nat /\ Len(e.code) > 0 /\ e.code[Len(e.code)].op = "VARIABLE"
  <2>1. Len(e.code) # 0
    BY <1>1, <1>2, <1>3, EmptySeq
  <2> QED BY <1>1, <1>2, <1>3, <2>1, LenProperties DEF Last
<1>7. ~AllIn(e.code, Deferrable)
  BY <1>6, DeferrableIs DEF AllIn
<1>8. PICK c : c = [Command("DOES>") EXCEPT !.id = pNewWord]
  OBVIOUS
<1>9. c \in CommandType /\ c.op = "DOES>" /\ c.id = pNewWord
  BY <1>3, <1>8, CommandTyped DEF CommandOps, Compilable
<1>10. PICK code : code = <<c>>
  OBVIOUS
<1>11. code \in Seq(CommandType) /\ Len(code) = 1 /\ code[1] = c
  BY <1>9, <1>10
<1>12. \A i \in 1 .. 1 : i = 1
  OBVIOUS
<1>13. AllIn(code, Compilable) /\ Lacks(code, "vocabulary")
  BY <1>9, <1>11, <1>12 DEF AllIn, Lacks, Compilable
<1>14. e.nondeferred
  BY <1>3, <1>7 DEF EntryOk
<1>15. PICK both : both = e.code \o code
  OBVIOUS
<1>16. /\ Len(both) = Len(e.code) + 1
       /\ \A i \in 1 .. Len(e.code) : both[i] = e.code[i]
       /\ AllIn(both, Compilable) /\ Lacks(both, "vocabulary")
  <2>1. PICK p \in Seq(CommandType) : p = e.code
    BY <1>3
  <2>2. both = p \o code
    BY <1>15, <2>1
  <2>3. /\ Len(both) = Len(p) + Len(code) /\ \A i \in 1 .. Len(p) : both[i] = p[i]
        /\ AllIn(p, Compilable) /\ AllIn(code, Compilable) => AllIn(both, Compilable)
        /\ Lacks(p, "vocabulary") /\ Lacks(code, "vocabulary") => Lacks(both, "vocabulary")
    BY ONLY p \in Seq(CommandType), <1>11, <2>2, Joined, JoinedOps, SMTT(30)
  <2> QED BY <1>3, <1>5, <1>11, <1>13, <2>1, <2>3
<1>17. CodeOk(both)
  <2>1. ASSUME NEW i \in 1 .. Len(both), both[i].op = "DOES>"
        PROVE  i = Len(both) /\ i > 1 /\ both[i - 1].op = "VARIABLE"
    <3>1. i \notin 1 .. Len(e.code)
      BY <1>5, <1>16, <2>1 DEF Lacks
    <3>2. i = Len(both) /\ i > 1 /\ i - 1 = Len(e.code) /\ i - 1 \in 1 .. Len(e.code)
      BY <1>6, <1>16, <3>1
    <3> QED BY <1>6, <1>16, <3>2
  <2> QED BY <1>16, <2>1 DEF CodeOk
<1>18. Points(words, Len(wordlists), e, pNewWord, c)
  BY <1>2, <1>9 DEF Points
<1>19. Joins(code, {}, FALSE)
  <2>1. \A i \in 1 .. Len(code) : Points(words, Len(wordlists), e, pNewWord, code[i])
    BY <1>11, <1>12, <1>18
  <2> QED BY <1>2, <1>4, <1>11, <1>13, <1>14, <1>15, <1>17, <2>1 DEF Joins
<1>20. Compile(code, {}, FALSE)
  BY <1>1, <1>8, <1>10
<1> QED BY <1>1, <1>19, <1>20, CompileOk

(* A word that a name finds joins the definition.                          *)
LEMMA FoundJoins ==
  ASSUME DictInv, State = "compile", NEW name, NEW id, id = LocateWord(name), id # NoWord,
         Runnable(id), ~AfterDoes(words[id]), Lacks(words[id].code, "vocabulary"),
         NEW code, code = words[id].code
  PROVE  Joins(code, {id} \cup words[id].refs, words[id].nondeferred)
<1>1. /\ id \in 1 .. Len(words) /\ id \in Nat /\ In(wordlists, id)
      /\ \A r \in words[id].refs : In(wordlists, r)
      /\ words[id] \in EntryType /\ code \in Seq(CommandType)
      /\ EntryOk(words, Len(wordlists), words[id], id)
  BY WordIs
<1>2. PICK e : e = words[id]
  OBVIOUS
<1>3. /\ e.code = code /\ CodeOk(code) /\ AllIn(code, Compilable)
      /\ e.nondeferred \/ AllIn(code, Deferrable)
      /\ e.nondeferred \in BOOLEAN
      /\ \A i \in 1 .. Len(code) : Points(words, Len(wordlists), words[id], id, code[i])
  BY <1>1, <1>2 DEF EntryOk, CodeOk, EntryType
<1>4. Lacks(code, "DOES>")
  BY <1>1, <1>2, <1>3, NotAfterDoes
<1>5. ~AfterDoes(words[pNewWord]) => CodeOk(words[pNewWord].code \o code)
  BY <1>1, <1>3, <1>4, JoinOk
<1>6. PICK refs : refs = {id} \cup e.refs
  OBVIOUS
<1>7. \A r \in refs : In(wordlists, r)
  BY <1>1, <1>2, <1>6
<1>8. PICK h : h = [refs |-> refs]
  OBVIOUS
<1>9. h.refs = refs /\ {id} \cup words[id].refs \subseteq h.refs
  BY <1>2, <1>6, <1>8
<1>10. ASSUME NEW i \in 1 .. Len(code)
       PROVE  Points(words, Len(wordlists), h, pNewWord, code[i])
  <2>1. Points(words, Len(wordlists), words[id], id, code[i]) /\ code[i].op \in Compilable
    BY <1>3 DEF AllIn
  <2>2. \A j \in {id} \cup words[id].refs : words[j] = words[j]
    OBVIOUS
  <2> QED BY ONLY <1>9, <2>1, <2>2, PointsTaken
<1>11. Joins(code, refs, e.nondeferred)
  BY <1>1, <1>3, <1>5, <1>7, <1>9, <1>10 DEF Joins
<1> QED BY <1>2, <1>6, <1>11

LEMMA CompileWordStep ==
  ASSUME KeepsRules, DictInv, CompileWord
  PROVE  DictInv'
<1>1. PICK name \in Names, next \in Names :
        /\ State = "compile" /\ LocateWord(name) # NoWord /\ Runnable(LocateWord(name))
        /\ \/ /\ ~AfterDoes(words[LocateWord(name)])
              /\ \A i \in DOMAIN words[LocateWord(name)].code :
                   words[LocateWord(name)].code[i].op # "vocabulary"
              /\ Compile(words[LocateWord(name)].code,
                         {LocateWord(name)} \cup words[LocateWord(name)].refs,
                         words[LocateWord(name)].nondeferred)
           \/ /\ MayRun(LocateWord(name))
              /\ ExecuteCurrentOnly(words[LocateWord(name)].code, next)
  <2>1. Keeps("PREVIOUS and vocabularies are typed")
    BY Kept1 DEF Rules
  <2> QED BY <2>1 DEF CompileWord, Compiling
<1>2. PICK id : id = LocateWord(name)
  OBVIOUS
<1>3. PICK code : code = words[id].code
  OBVIOUS
<1>4. id # NoWord /\ Runnable(id) /\ State = "compile" /\ next \in AnyName
  BY <1>1, <1>2, NamesAny
<1>5. CASE /\ ~AfterDoes(words[id]) /\ \A i \in DOMAIN code : code[i].op # "vocabulary"
           /\ Compile(code, {id} \cup words[id].refs, words[id].nondeferred)
  <2>1. code \in Seq(CommandType)
    BY <1>2, <1>3, <1>4, WordIs
  <2>2. Lacks(code, "vocabulary")
    BY <1>5, <2>1, LenProperties DEF Lacks
  <2>3. Joins(code, {id} \cup words[id].refs, words[id].nondeferred)
    BY <1>2, <1>3, <1>4, <1>5, <2>2, FoundJoins
  <2> QED BY <1>4, <1>5, <2>3, CompileOk
<1>6. CASE MayRun(id) /\ ExecuteCurrentOnly(code, next)
  BY <1>2, <1>3, <1>4, <1>6, CurrentOnlyStep
<1> QED BY <1>1, <1>2, <1>3, <1>5, <1>6

LEMMA PostponeStep ==
  ASSUME KeepsRules, DictInv, Postpone
  PROVE  DictInv'
<1>1. PICK name \in Names :
        /\ State = "compile" /\ LocateWord(name) # NoWord /\ Runnable(LocateWord(name))
        /\ ~AfterDoes(words[LocateWord(name)]) /\ ~words[LocateWord(name)].nondeferred
        /\ Compile(IF words[LocateWord(name)].immediate
                     THEN words[LocateWord(name)].code
                     ELSE <<[Command("compile-name") EXCEPT !.id = LocateWord(name)]>>,
                   {LocateWord(name)} \cup words[LocateWord(name)].refs,
                   words[LocateWord(name)].nondeferred)
  <2>1. Keeps("what is postponed is deferrable")
    BY Kept1 DEF Rules
  <2> QED BY <2>1 DEF Postpone, Compiling
<1>2. PICK id : id = LocateWord(name)
  OBVIOUS
<1>3. PICK code : code = words[id].code
  OBVIOUS
<1>4. /\ id \in 1 .. Len(words) /\ id \in Nat /\ In(wordlists, id)
      /\ \A r \in words[id].refs : In(wordlists, r)
      /\ words[id] \in EntryType /\ code \in Seq(CommandType)
      /\ EntryOk(words, Len(wordlists), words[id], id)
  BY <1>1, <1>2, <1>3, WordIs
<1>5. AllIn(code, Deferrable) /\ Lacks(code, "vocabulary")
  BY <1>1, <1>2, <1>3, <1>4, DeferrableOk DEF EntryOk
<1>6. PICK c : c = [Command("compile-name") EXCEPT !.id = id]
  OBVIOUS
<1>7. CASE words[id].immediate
  <2>1. Joins(code, {id} \cup words[id].refs, words[id].nondeferred)
    BY <1>1, <1>2, <1>3, <1>5, FoundJoins
  <2>2. Compile(code, {id} \cup words[id].refs, words[id].nondeferred)
    BY <1>1, <1>2, <1>3, <1>7
  <2> QED BY <1>1, <2>1, <2>2, CompileOk
<1>8. CASE ~words[id].immediate
  <2>1. c \in CommandType /\ c.op = "compile-name" /\ c.id = id
    BY <1>4, <1>6, CommandTyped DEF CommandOps, Compilable, Deferrable
  <2>2. PICK q : q = <<c>>
    OBVIOUS
  <2>3. q \in Seq(CommandType) /\ Len(q) = 1 /\ q[1] = c
    BY <2>1, <2>2
  <2>4. \A i \in 1 .. 1 : i = 1
    OBVIOUS
  <2>5. AllIn(q, Deferrable) /\ AllIn(q, Compilable) /\ Lacks(q, "vocabulary") /\ Lacks(q, "DOES>")
    BY <2>1, <2>3, <2>4 DEF AllIn, Lacks, Deferrable, Compilable
  <2>6. ~AfterDoes(words[pNewWord]) => CodeOk(words[pNewWord].code \o q)
    BY <1>1, <2>3, <2>5, JoinOk
  <2>7. PICK refs : refs = {id} \cup words[id].refs
    OBVIOUS
  <2>8. PICK h : h = [refs |-> refs]
    OBVIOUS
  <2>9. h.refs = refs
    BY <2>8
  <2>10. Points(words, Len(wordlists), h, pNewWord, c)
    BY <1>3, <1>5, <2>1, <2>7, <2>9 DEF Points
  <2>11. \A i \in 1 .. Len(q) : Points(words, Len(wordlists), h, pNewWord, q[i])
    BY <2>3, <2>4, <2>10
  <2>12. words[id].nondeferred \in BOOLEAN
    BY <1>4 DEF EntryType
  <2>13. \A r \in refs : In(wordlists, r)
    BY <1>4, <2>7
  <2>14. Joins(q, refs, words[id].nondeferred)
    BY <2>3, <2>5, <2>6, <2>9, <2>11, <2>12, <2>13 DEF Joins
  <2>15. Compile(q, refs, words[id].nondeferred)
    BY <1>1, <1>2, <1>6, <1>8, <2>2, <2>7
  <2> QED BY <1>1, <2>14, <2>15, CompileOk
<1> QED BY <1>7, <1>8

LEMMA SemicolonStep ==
  ASSUME KeepsRules, DictInv, Semicolon
  PROVE  DictInv'
<1>1. /\ State = "compile" /\ Becomes(Listing(Here, pNewWord))
      /\ State' = "interpret" /\ line' = line
  BY DEF Semicolon, Compiling
<1>2. Good(Here) /\ Pending(Here) /\ pCompilationWL # Root
  BY <1>1 DEF DictInv
<1>3. Ready(Here, pNewWord)
  BY <1>2, HereIs DEF Pending, Ready
<1>4. PICK t : t = Listing(Here, pNewWord)
  OBVIOUS
<1>5. Done(Here, t, pNewWord)
  BY <1>2, <1>3, <1>4, ListingOk
<1>6. t \in DictionaryType /\ Good(t) /\ Becomes(t)
  BY <1>1, <1>4, <1>5 DEF Done
<1>7. line' \in Seq(CommandType) /\ AllIn(line', Marks)
  BY <1>1 DEF DictInv, AllIn
<1> QED BY <1>1, <1>6, <1>7, Closes

-----------------------------------------------------------------------------
(* The theorems *)

(* The dictionary of a program that starts.                                *)
LEMMA InitOk == Init => DictInv
<1> SUFFICES ASSUME Init PROVE DictInv
  OBVIOUS
<1>1. \A i \in 1 .. 0 : FALSE
  OBVIOUS
<1>2. /\ words = <<>> /\ words \in Seq(EntryType) /\ Len(words) = 0
  BY EmptySeq DEF Init
<1>3. /\ wordlists \in Seq(Seq(Nat)) /\ Len(wordlists) = 3
      /\ \A w \in 1 .. 3 : wordlists[w] = <<>>
  BY DEF Init
<1>4. /\ SearchOrder \in Seq(Nat) /\ Len(SearchOrder) = 2
      /\ SearchOrder[1] = 2 /\ SearchOrder[2] = 1
  BY DEF Init, Forth, Root
<1>5. /\ Dictionary \in Seq(Nat) /\ Len(Dictionary) = 3
      /\ Dictionary[1] = 1 /\ Dictionary[2] = 2 /\ Dictionary[3] = 3
  BY DEF Init, Forth, Root, Assembler
<1>6. pCompilationWL = 2 /\ pNewWord = 0 /\ newest = 0 /\ missed = FALSE
  BY DEF Init, Forth, NoWord
<1>7. Here \in DictionaryType
  BY <1>2, <1>3, <1>4, <1>5, <1>6 DEF Here, DictionaryType
<1>8. WordsOk(words, 3)
  BY <1>1, <1>2 DEF WordsOk
<1>9. ListsOk(words, wordlists)
  <2>1. \A w \in 1 .. 3 : Len(wordlists[w]) = 0
    BY <1>3, NoCode
  <2> QED BY <1>1, <1>3, <2>1 DEF ListsOk, ListOk
<1>10. OrderIs(SearchOrder, 3)
  <2>1. \A i \in 1 .. 2 : i = 1 \/ i = 2
    OBVIOUS
  <2> QED BY <1>4, <2>1 DEF OrderIs, Root
<1>11. \A i \in 1 .. 3 : Dictionary[i] \in 1 .. 3
  <2>1. \A i \in 1 .. 3 : i = 1 \/ i = 2 \/ i = 3
    OBVIOUS
  <2> QED BY <1>5, <2>1
<1>12. Good(Here)
  <2>1. /\ WordsOk(Here.words, Len(Here.lists)) /\ ListsOk(Here.words, Here.lists)
        /\ OrderIs(Here.order, Len(Here.lists))
    BY <1>3, <1>8, <1>9, <1>10, HereIs
  <2>2. Len(Here.lists) >= 3 /\ Here.current \in 1 .. Len(Here.lists)
    <3>1. Len(Here.lists) = 3 /\ Here.current = 2
      BY <1>3, <1>6, HereIs
    <3>2. 3 >= 3 /\ 2 \in 1 .. 3
      OBVIOUS
    <3> QED BY ONLY <3>1, <3>2
  <2>3. \A i \in 1 .. Len(Here.dict) : Here.dict[i] \in 1 .. Len(Here.lists)
    BY <1>3, <1>5, <1>11, HereIs
  <2> QED BY <1>7, <2>1, <2>2, <2>3 DEF Good
<1>13. line \in Seq(CommandType) /\ AllIn(line, Marks)
  BY <1>1, NoCode DEF Init, AllIn
<1> QED BY <1>6, <1>12, <1>13 DEF DictInv, Init, Root

(* Every step keeps it.                                                    *)
LEMMA DictStep == KeepsRules /\ DictInv /\ [Next]_vars => DictInv'
<1> SUFFICES ASSUME KeepsRules, DictInv, [Next]_vars PROVE DictInv'
  OBVIOUS
<1>1. CASE Move \/ SetOrder \/ SetCurrent \/ MakeWordlist
  BY <1>1, MoveStep, SetOrderStep, SetCurrentStep, WordlistStep
<1>2. CASE Define \/ Alias \/ Forget \/ Cold
  BY <1>2, DefineStep, AliasStep, ForgetStep, ColdStep
<1>3. CASE TypeMark \/ InterpretWord \/ Fail
  BY <1>3, TypeMarkStep, InterpretWordStep, FailStep
<1>4. CASE EndOfLine \/ RightBracket
  BY <1>4, LineStep
<1>5. CASE Colon \/ CompileCommand \/ CompileDoes
  BY <1>5, ColonStep, CompileCommandStep, CompileDoesStep
<1>6. CASE CompileWord \/ Postpone \/ Semicolon \/ LeftBracket
  BY <1>6, CompileWordStep, PostponeStep, SemicolonStep, LeftBracketStep
<1>7. CASE UNCHANGED vars
  <2>1. /\ UNCHANGED <<words, wordlists, Dictionary, SearchOrder, pCompilationWL,
                       pNewWord, newest, missed>>
        /\ State' = State /\ line' = line
    BY <1>7 DEF vars
  <2>2. line' \in Seq(CommandType) /\ AllIn(line', Marks)
    BY <2>1 DEF DictInv, AllIn
  <2>3. State' \in {"interpret", "brackets", "compile"}
    BY <2>1 DEF DictInv
  <2> QED BY <2>1, <2>2, <2>3, StillCloses
<1> QED BY <1>1, <1>2, <1>3, <1>4, <1>5, <1>6, <1>7 DEF Next

(* What the dictionary of a program that keeps the rules of usage always   *)
(* is: its types, what every command of a word points to, where every word *)
(* is listed, and what the order and the line hold.                        *)
THEOREM DictionaryCorrect == ASSUME KeepsRules PROVE Spec => []DictInv
<1>1. Init => DictInv
  BY InitOk
<1>2. DictInv /\ [Next]_vars => DictInv'
  BY DictStep
<1> QED BY <1>1, <1>2, PTL DEF Spec

LEMMA RootLast == DictInv => RootStays
<1> SUFFICES ASSUME DictInv PROVE RootStays
  OBVIOUS
<1>1. OrderIs(SearchOrder, Len(wordlists))
  BY HereIs DEF DictInv, Good
<1>2. /\ SearchOrder \in Seq(Nat) /\ Len(SearchOrder) > 0
      /\ SearchOrder[Len(SearchOrder)] = Root
  BY <1>1 DEF OrderIs
<1>3. SearchOrder # <<>>
  BY <1>2, NoCode
<1> QED BY <1>2, <1>3 DEF RootStays, Last

(* The program can always get back to the Forth wordlist: Root stays the   *)
(* last wordlist of the order.                                             *)
THEOREM RootStaysCorrect == ASSUME KeepsRules PROVE Spec => []RootStays
<1>1. DictInv => RootStays
  BY RootLast
<1> QED BY <1>1, DictionaryCorrect, PTL

(* Where the words of the wordlists are.                                   *)
LEMMA Places ==
  ASSUME DictInv, NEW w, w \in DOMAIN wordlists, NEW i, i \in DOMAIN wordlists[w]
  PROVE  /\ w \in 1 .. Len(wordlists) /\ i \in 1 .. Len(wordlists[w])
         /\ PlaceOk(words, wordlists[w], w, i)
<1>1. Good(Here) /\ Here \in DictionaryType
  BY DEF DictInv, Good
<1>2. w \in 1 .. Len(wordlists)
  BY <1>1, Facts, HereIs
<1>3. i \in 1 .. Len(wordlists[w])
  BY <1>1, <1>2, Facts, HereIs
<1> QED BY <1>1, <1>2, <1>3, HereIs DEF Good, ListsOk, ListOk

(* FORGET leaves no word that points to freed code of its own wordlist.    *)
THEOREM OwnListRefsLiveCorrect == ASSUME KeepsRules PROVE Spec => []OwnListRefsLive
<1>1. DictInv => OwnListRefsLive
  BY Places DEF OwnListRefsLive, PlaceOk
<1> QED BY <1>1, DictionaryCorrect, PTL

(* A name is located in what all the text before it leaves: no command     *)
(* that changes the order or the wordlists waits in the line.              *)
THEOREM LineChangesNothingCorrect == ASSUME KeepsRules PROVE Spec => []LineChangesNothing
<1>1. DictInv => LineChangesNothing
  <2>1. \A op \in Marks : op \notin Nondeferred
    BY DEF Marks, Nondeferred, Defining, Moving
  <2> QED BY <2>1, LenProperties DEF DictInv, AllIn, LineChangesNothing
<1> QED BY <1>1, DictionaryCorrect, PTL

(* No word is in two places of the wordlists, or twice in one, and none    *)
(* that was freed is in one.                                               *)
THEOREM OnePlaceCorrect == ASSUME KeepsRules PROVE Spec => []OnePlace
<1>1. DictInv => OnePlace
  <2> SUFFICES ASSUME DictInv PROVE OnePlace
    OBVIOUS
  <2>1. \A id \in Listed : ~words[id].freed
    <3> SUFFICES ASSUME NEW id \in Listed PROVE ~words[id].freed
      OBVIOUS
    <3>1. PICK w \in DOMAIN wordlists : \E i \in DOMAIN wordlists[w] : id = wordlists[w][i]
      BY DEF Listed, Range
    <3> QED BY <3>1, Places DEF PlaceOk
  <2>2. ASSUME NEW w, w \in DOMAIN wordlists, NEW v, v \in DOMAIN wordlists,
               NEW i, i \in DOMAIN wordlists[w], NEW j, j \in DOMAIN wordlists[v],
               wordlists[w][i] = wordlists[v][j]
        PROVE  w = v /\ i = j
    <3>1. /\ PlaceOk(words, wordlists[w], w, i) /\ PlaceOk(words, wordlists[v], v, j)
          /\ j \in 1 .. Len(wordlists[v])
      BY <2>2, Places
    <3>2. w = v
      BY <2>2, <3>1 DEF PlaceOk
    <3> QED BY <2>2, <3>1, <3>2 DEF PlaceOk
  <2> QED BY <2>1, <2>2 DEF OnePlace
<1> QED BY <1>1, DictionaryCorrect, PTL

-----------------------------------------------------------------------------
(* Marks.  "marks follow their word" is kept, too.                         *)

KeepsAll == Misuses = {}

LEMMA KeepsMarks ==
  ASSUME KeepsAll
  PROVE  KeepsRules /\ Keeps("marks follow their word")
  BY DEF KeepsAll, KeepsRules, Keeps

(* A mark in a code is its first command, or follows what makes the word   *)
(* it is for, or another mark.  What POSTPONE left for later has no marks, *)
(* and so has no code after DOES>.                                         *)
Plain(code) == \A i \in 1 .. Len(code) : code[i].op \notin Marks
MarksFollow(code) ==
  \A i \in 1 .. Len(code) : code[i].op \in Marks =>
    /\ code[i].id = NoWord
    /\ i > 1 => code[i - 1].op \in {"VARIABLE"} \cup Marks
Leads(ws, code) ==
  \A i \in 1 .. Len(code) : code[i].op = "compile-name" => Plain(ws[code[i].id].code)
Form(ws, code, does) ==
  MarksFollow(code) /\ Plain(does) /\ Leads(ws, code) /\ Leads(ws, does)
Formed(ws) == \A k \in 1 .. Len(ws) : Form(ws, ws[k].code, ws[k].does)

(* The newest word is the last of the compilation wordlist.                *)
AtNewest(s) ==
  /\ s.lists[s.current] # <<>> /\ s.newest # NoWord /\ s.newest = LastWord(s)

MarksInv ==
  /\ Formed(words) /\ ~missed
  /\ State = "compile" => line = <<>>
  /\ line # <<>> => AtNewest(Here)
  /\ \A i \in 1 .. Len(line) : line[i].id = newest

LEMMA EmptyForm == \A ws : Form(ws, <<>>, <<>>)
<1>1. \A i \in 1 .. 0 : FALSE
  OBVIOUS
<1> QED BY <1>1, NoCode DEF Form, MarksFollow, Plain, Leads

(* Commands that are no marks and compile nothing have no part in it.      *)
LEMMA OtherForm ==
  ASSUME NEW ws, NEW code, Plain(code), Lacks(code, "compile-name")
  PROVE  Form(ws, code, <<>>)
<1>1. Plain(<<>>) /\ Leads(ws, <<>>)
  BY EmptyForm DEF Form
<1>2. MarksFollow(code)
  BY DEF MarksFollow, Plain
<1>3. Leads(ws, code)
  BY DEF Leads, Lacks
<1> QED BY <1>1, <1>2, <1>3 DEF Form

(* Words of which each keeps its code, or has code that is formed.         *)
Reforms(ws, vs) ==
  /\ \A k \in 1 .. Len(vs) :
       \/ Form(vs, vs[k].code, vs[k].does)
       \/ k \in 1 .. Len(ws) /\ vs[k].code = ws[k].code /\ vs[k].does = ws[k].does
  /\ \A k \in 1 .. Len(ws) : \A j \in ws[k].refs : Plain(ws[j].code) => Plain(vs[j].code)

(* What the commands of an entry compile, it refers to.                    *)
LEMMA LeadsTo ==
  ASSUME NEW ws, NEW vs, NEW n, NEW e, NEW k, EntryOk(ws, n, e, k),
         \A j \in e.refs : Plain(ws[j].code) => Plain(vs[j].code)
  PROVE  /\ Leads(ws, e.code) => Leads(vs, e.code)
         /\ Leads(ws, e.does) => Leads(vs, e.does)
<1>1. \A c : Points(ws, n, e, k, c) /\ c.op = "compile-name" => c.id \in e.refs
  BY DEF Points
<1>2. /\ \A i \in 1 .. Len(e.code) : Points(ws, n, e, k, e.code[i])
      /\ \A i \in 1 .. Len(e.does) : Points(ws, n, e, k, e.does[i])
  BY DEF EntryOk
<1> QED BY <1>1, <1>2 DEF Leads

LEMMA FormedStays ==
  ASSUME NEW ws, NEW n, WordsOk(ws, n), Formed(ws), NEW vs, Reforms(ws, vs)
  PROVE  Formed(vs)
<1> SUFFICES ASSUME NEW k \in 1 .. Len(vs), k \in 1 .. Len(ws),
                    vs[k].code = ws[k].code, vs[k].does = ws[k].does
             PROVE  Form(vs, vs[k].code, vs[k].does)
  BY DEF Formed, Reforms
<1>1. EntryOk(ws, n, ws[k], k) /\ Form(ws, ws[k].code, ws[k].does)
  BY DEF WordsOk, Formed
<1>2. \A j \in ws[k].refs : Plain(ws[j].code) => Plain(vs[j].code)
  BY DEF Reforms
<1>3. Leads(vs, ws[k].code) /\ Leads(vs, ws[k].does)
  BY <1>1, <1>2, LeadsTo DEF Form
<1> QED BY <1>1, <1>3 DEF Form

LEMMA SameFormed ==
  ASSUME NEW ws, NEW n, WordsOk(ws, n), Formed(ws), NEW vs, Len(vs) = Len(ws),
         \A k \in 1 .. Len(ws) : vs[k].code = ws[k].code /\ vs[k].does = ws[k].does
  PROVE  Formed(vs)
<1>1. \A k \in 1 .. Len(ws) : \A j \in ws[k].refs : j \in 1 .. Len(ws)
  BY DEF WordsOk, EntryOk
<1>2. Reforms(ws, vs)
  BY <1>1 DEF Reforms
<1> QED BY <1>2, FormedStays

LEMMA ShedFormed ==
  ASSUME NEW ws, NEW n, WordsOk(ws, n), Formed(ws), NEW vs, Sheds(ws, vs)
  PROVE  Formed(vs)
<1>1. \A k \in 1 .. Len(ws) : \A j \in ws[k].refs : j \in 1 .. Len(ws)
  BY DEF WordsOk, EntryOk
<1>2. Plain(<<>>)
  BY EmptyForm DEF Form
<1>3. \A k \in 1 .. Len(ws) : Plain(ws[k].code) => Plain(vs[k].code)
  BY <1>2 DEF Sheds
<1>4. Reforms(ws, vs)
  BY <1>1, <1>3, EmptyForm DEF Reforms, Sheds
<1> QED BY <1>4, FormedStays

LEMMA AddFormed ==
  ASSUME NEW ws, NEW n, WordsOk(ws, n), Formed(ws), Len(ws) \in Nat,
         NEW vs, NEW code, NEW does, Adds(ws, vs, code, does), Form(vs, code, does)
  PROVE  Formed(vs)
<1>1. \A k \in 1 .. Len(ws) : \A j \in ws[k].refs : j \in 1 .. Len(ws)
  BY DEF WordsOk, EntryOk
<1>2. \A k \in 1 .. Len(vs) : k \in 1 .. Len(ws) \/ k = Len(vs)
  BY DEF Adds
<1>3. Reforms(ws, vs)
  BY <1>1, <1>2 DEF Reforms, Adds
<1> QED BY <1>3, FormedStays

(* The code of one word joins that of another.                             *)
LEMMA JoinedForm ==
  ASSUME NEW p \in Seq(CommandType), NEW q \in Seq(CommandType), NEW ws,
         MarksFollow(p), MarksFollow(q), Leads(ws, p), Leads(ws, q),
         Len(p) > 0 /\ Len(q) > 0 /\ q[1].op \in Marks => p[Len(p)].op \in {"VARIABLE"} \cup Marks
  PROVE  MarksFollow(p \o q) /\ Leads(ws, p \o q)
<1>1. PICK pq : pq = p \o q
  OBVIOUS
<1>2. /\ Len(p) \in Nat /\ Len(q) \in Nat /\ Len(pq) = Len(p) + Len(q)
      /\ \A i \in 1 .. Len(p) : pq[i] = p[i]
      /\ \A i \in 1 .. Len(pq) :
           \/ i \in 1 .. Len(p) /\ pq[i] = p[i]
           \/ i - Len(p) \in 1 .. Len(q) /\ pq[i] = q[i - Len(p)]
  BY <1>1, Joined, LenProperties, SMTT(30)
<1>3. Leads(ws, pq)
  BY <1>2, SMTT(30) DEF Leads
<1>4. ASSUME NEW i \in 1 .. Len(pq), pq[i].op \in Marks
      PROVE  pq[i].id = NoWord /\ (i > 1 => pq[i - 1].op \in {"VARIABLE"} \cup Marks)
  <2>1. CASE i \in 1 .. Len(p) /\ pq[i] = p[i]
    <3>1. i > 1 => i - 1 \in 1 .. Len(p) /\ pq[i - 1] = p[i - 1]
      BY <1>2, <2>1, SMTT(30)
    <3> QED BY <1>4, <2>1, <3>1 DEF MarksFollow
  <2>2. CASE i - Len(p) \in 1 .. Len(q) /\ pq[i] = q[i - Len(p)]
    <3>1. PICK j \in 1 .. Len(q) : j = i - Len(p)
      BY <2>2
    <3>2. q[j].op \in Marks /\ pq[i] = q[j] /\ j \in Nat /\ i \in Nat
      BY <1>2, <1>4, <2>2, <3>1
    <3>3. q[j].id = NoWord /\ (j > 1 => q[j - 1].op \in {"VARIABLE"} \cup Marks)
      BY <3>2 DEF MarksFollow
    <3>4. CASE j = 1
      <4>1. i > 1 => Len(p) > 0 /\ i - 1 = Len(p) /\ Len(p) \in 1 .. Len(p) /\ Len(q) > 0
        BY <1>2, <3>1, <3>4
      <4>2. i > 1 => pq[i - 1] = p[Len(p)]
        BY <1>2, <4>1
      <4> QED BY <3>2, <3>3, <3>4, <4>1, <4>2
    <3>5. CASE j # 1
      <4>1. PICK h \in 1 .. Len(pq) : h = i - 1
        BY <1>2, <3>1, <3>2, <3>5
      <4>2. j > 1 /\ h \notin 1 .. Len(p) /\ h - Len(p) = j - 1
        BY <1>2, <3>1, <3>2, <3>5, <4>1
      <4>3. pq[h] = q[j - 1]
        BY <1>2, <4>2
      <4> QED BY <3>2, <3>3, <4>1, <4>2, <4>3
    <3> QED BY <3>4, <3>5
  <2> QED BY <1>2, <2>1, <2>2
<1>5. MarksFollow(pq)
  BY <1>4 DEF MarksFollow
<1> QED BY <1>1, <1>3, <1>5

LEMMA PlainFollows ==
  ASSUME NEW code, Plain(code)
  PROVE  MarksFollow(code)
  BY DEF Plain, MarksFollow

(* Commands that move about the wordlists, and WORDLIST, leave the words.  *)
LEMMA MovesKeep ==
  ASSUME NEW s, Good(s), NEW c \in CommandType, c.op \in MoveOps, MayMove(s, c),
         NEW name, NEW t, t = Execute(s, c, name)
  PROVE  t.words = s.words /\ t.missed = s.missed
<1>1. Moved(s, t)
  BY MoveOk
<1> QED BY <1>1 DEF Moved, Still

-----------------------------------------------------------------------------
(* A run hits the words that its marks are for *)

Hits(t, code, i) ==
  /\ ~t.missed /\ Formed(t.words)
  /\ i = 0 /\ StartsWithMark(code) => AtNewest(t)
  /\ i > 0 /\ code[i].op \in {"VARIABLE"} \cup Marks => AtNewest(t)

LEMMA HitMark ==
  ASSUME NEW s, Good(s), ~s.missed, Formed(s.words), AtNewest(s), NEW c, c.op \in Marks,
         c.id = NoWord \/ c.id = s.newest, NEW name, NEW t, t = Execute(s, c, name)
  PROVE  ~t.missed /\ Formed(t.words) /\ AtNewest(t)
<1>1. /\ Marked(s, t)
      /\ s.lists[s.current] # <<>> /\ (IF c.id = NoWord THEN s.newest ELSE c.id) = LastWord(s)
           => t.missed = s.missed
  BY MarkOk
<1>2. t.missed = s.missed
  BY <1>1 DEF AtNewest
<1>3. Formed(t.words)
  <2>1. /\ Len(t.words) = Len(s.words)
        /\ \A k \in 1 .. Len(s.words) :
             t.words[k].code = s.words[k].code /\ t.words[k].does = s.words[k].does
    BY <1>1 DEF Marked, SameCode
  <2> QED BY <2>1, SameFormed DEF Good
<1>4. AtNewest(t)
  BY <1>1 DEF Marked, AtNewest, LastWord
<1> QED BY <1>2, <1>3, <1>4

LEMMA MadeHits ==
  ASSUME NEW s, Good(s), ~s.missed, Formed(s.words), NEW e, NEW t, Made(s, t, e),
         Form(t.words, e.code, e.does)
  PROVE  ~t.missed /\ Formed(t.words) /\ AtNewest(t)
<1>1. Adds(s.words, t.words, e.code, e.does)
  BY DEF Made, Adds
<1>2. WordsOk(s.words, Len(s.lists)) /\ Len(s.words) \in Nat
  BY Facts DEF Good
<1>3. Formed(t.words)
  BY <1>1, <1>2, AddFormed
<1>4. Len(t.words) > 0
  BY DEF Made
<1> QED BY <1>3, <1>4 DEF Made, AtNewest, NoWord

LEMMA DoesHits ==
  ASSUME NEW s, Good(s), Fresh(s), Formed(s.words), NEW t, DoesSet(s, t), NEW id \in 1 .. Len(s.words),
         id # Len(s.words),
         t.words[Len(s.words)].code = s.words[id].does, t.words[Len(s.words)].does = <<>>
  PROVE  Formed(t.words)
<1>1. PICK n : n = Len(s.words)
  OBVIOUS
<1>2. /\ Len(t.words) = n /\ \A j \in 1 .. n : j # n => t.words[j] = s.words[j]
      /\ \A k \in 1 .. n : n \notin s.words[k].refs
  BY <1>1 DEF DoesSet, Fresh
<1>3. WordsOk(s.words, Len(s.lists))
  BY DEF Good
<1>4. \A k \in 1 .. n : \A j \in s.words[k].refs : j \in 1 .. n /\ t.words[j] = s.words[j]
  BY <1>1, <1>2, <1>3 DEF WordsOk, EntryOk
<1>5. PICK e : e = s.words[id]
  OBVIOUS
<1>6. EntryOk(s.words, Len(s.lists), e, id) /\ Form(s.words, e.code, e.does)
  BY <1>3, <1>5 DEF WordsOk, Formed
<1>7. Leads(t.words, e.does)
  <2>1. \A j \in e.refs : Plain(s.words[j].code) => Plain(t.words[j].code)
    BY <1>1, <1>4, <1>5
  <2> QED BY <1>6, <2>1, LeadsTo DEF Form
<1>8. Form(t.words, e.does, <<>>)
  BY <1>6, <1>7, PlainFollows, EmptyForm DEF Form
<1>9. Reforms(s.words, t.words)
  <2>1. t.words[n].code = e.does /\ t.words[n].does = <<>>
    BY <1>1, <1>5
  <2> QED BY <1>1, <1>2, <1>4, <1>8, <2>1 DEF Reforms
<1> QED BY <1>3, <1>9, FormedStays

LEMMA JoinHits ==
  ASSUME NEW s, Good(s), Pending(s), Formed(s.words), NEW id \in 1 .. Len(s.words), NEW t,
         NewSet(s, t), Plain(s.words[id].code),
         t.words[s.new].code = s.words[s.new].code \o s.words[id].code,
         t.words[s.new].does = s.words[s.new].does
  PROVE  Formed(t.words)
<1>1. PICK n : n = s.new
  OBVIOUS
<1>2. /\ Len(t.words) = Len(s.words) /\ n \in 1 .. Len(s.words)
      /\ \A j \in 1 .. Len(s.words) : j # n => t.words[j] = s.words[j]
      /\ \A k \in 1 .. Len(s.words) : n \notin s.words[k].refs
  BY <1>1 DEF NewSet, Pending
<1>3. WordsOk(s.words, Len(s.lists)) /\ s \in DictionaryType
  BY DEF Good
<1>4. \A k \in 1 .. Len(s.words) : \A j \in s.words[k].refs :
        j \in 1 .. Len(s.words) /\ t.words[j] = s.words[j]
  BY <1>2, <1>3 DEF WordsOk, EntryOk
<1>5. PICK e, d : e = s.words[n] /\ d = s.words[id]
  OBVIOUS
<1>6. /\ EntryOk(s.words, Len(s.lists), e, n) /\ Form(s.words, e.code, e.does)
      /\ EntryOk(s.words, Len(s.lists), d, id) /\ Form(s.words, d.code, d.does)
      /\ e.code \in Seq(CommandType) /\ d.code \in Seq(CommandType) /\ Plain(d.code)
  BY <1>2, <1>3, <1>5, Facts DEF WordsOk, Formed
<1>7. Leads(t.words, e.code) /\ Leads(t.words, e.does)
  <2>1. \A j \in e.refs : Plain(s.words[j].code) => Plain(t.words[j].code)
    BY <1>2, <1>4, <1>5
  <2> QED BY <1>6, <2>1, LeadsTo DEF Form
<1>8. Leads(t.words, d.code)
  <2>1. \A j \in d.refs : Plain(s.words[j].code) => Plain(t.words[j].code)
    BY <1>4, <1>5
  <2> QED BY <1>6, <2>1, LeadsTo DEF Form
<1>9. MarksFollow(e.code \o d.code) /\ Leads(t.words, e.code \o d.code)
  <2>1. MarksFollow(d.code) /\ MarksFollow(e.code)
    BY <1>6, PlainFollows DEF Form
  <2>2. Len(d.code) > 0 => d.code[1].op \notin Marks
    <3>1. Len(d.code) \in Nat
      BY <1>6, LenProperties
    <3> QED BY <1>6, <3>1, SMTT(30) DEF Plain
  <2> QED BY ONLY <1>6, <1>7, <1>8, <2>1, <2>2, JoinedForm
<1>10. Reforms(s.words, t.words)
  <2>1. /\ t.words[n].code = e.code \o d.code /\ t.words[n].does = e.does
        /\ Plain(e.does)
    BY <1>1, <1>5, <1>6 DEF Form
  <2>2. Form(t.words, t.words[n].code, t.words[n].does)
    BY <1>7, <1>9, <2>1 DEF Form
  <2> QED BY <1>2, <1>4, <2>2 DEF Reforms
<1> QED BY <1>3, <1>10, FormedStays

LEMMA HitStep ==
  ASSUME NEW s, Good(s), NEW T, NEW code, NEW pend \in BOOLEAN, CanRun(s, T, code, pend),
         MarksFollow(code), Leads(s.words, code),
         NEW i \in 1 .. Len(code), NEW u, Ran(s, u, code, i - 1, pend), Hits(u, code, i - 1),
         NEW name \in AnyName, NEW t, t = Execute(u, code[i], name)
  PROVE  Hits(t, code, i)
<1>1. PICK c : c = code[i]
  OBVIOUS
<1>2. /\ code \in Seq(CommandType) /\ Len(code) \in Nat /\ c \in CommandType
      /\ c.op \in Compilable /\ Allowed(s, T, c, pend) /\ i \in Nat /\ i > 0
  BY <1>1, Elements DEF CanRun, CodeOk, AllIn
<1>3. /\ u \in DictionaryType /\ Good(u) /\ (pend => Pending(u) /\ u.new = s.new) /\ Kept(s, u)
      /\ Len(s.words) \in Nat /\ Len(u.words) \in Nat /\ ~u.missed /\ Formed(u.words)
  BY Facts DEF Ran, Good, Hits
<1>4. CASE c.op \in {"ALSO", "ONLY", "FORTH", "DEFINITIONS", "vocabulary"}
  <2>1. c.op = "vocabulary" => i = 1 /\ u.order = s.order
    <3>1. c.op = "vocabulary" => Len(code) = 1
      BY <1>1 DEF CanRun, CodeOk, Lacks
    <3>2. \A j \in 1 .. 1 : j = 1 /\ j - 1 = 0
      OBVIOUS
    <3>3. c.op = "vocabulary" => i = 1 /\ i - 1 = 0
      BY <3>1, <3>2
    <3> QED BY <3>3 DEF Ran
  <2>2. Len(u.lists) = Len(s.lists)
    BY DEF Ran
  <2>3. MayMove(u, c) /\ c.op \in MoveOps
    BY <1>2, <1>4, <2>1, <2>2 DEF MayMove, Allowed, MoveOps, Moving
  <2>4. t.words = u.words /\ t.missed = u.missed
    BY <1>1, <1>2, <1>3, <2>3, MovesKeep
  <2> QED BY <1>1, <1>2, <1>3, <1>4, <2>4 DEF Hits, Marks
<1>5. CASE c.op \in Marks
  <2>1. c.id = NoWord /\ (i > 1 => code[i - 1].op \in {"VARIABLE"} \cup Marks)
    BY <1>1, <1>5 DEF MarksFollow
  <2>2. AtNewest(u)
    <3>1. CASE i = 1
      <4>1. code # <<>> /\ Head(code) = code[1]
        BY <1>2, <3>1, NoCode
      <4>2. StartsWithMark(code)
        BY <1>1, <1>5, <3>1, <4>1 DEF StartsWithMark
      <4> QED BY <3>1, <4>2 DEF Hits
    <3>2. CASE i # 1
      <4>1. i > 1 /\ i - 1 > 0
        BY <1>2, <3>2
      <4> QED BY <2>1, <4>1 DEF Hits
    <3> QED BY <3>1, <3>2
  <2>3. ~t.missed /\ Formed(t.words) /\ AtNewest(t)
    BY <1>1, <1>3, <1>5, <2>1, <2>2, HitMark
  <2> QED BY <1>2, <2>3 DEF Hits
<1>6. CASE c.op = "VARIABLE"
  <2>1. t = CPP_variable(u, name)
    BY <1>1, <1>6, ExecuteIs
  <2>2. Made(u, t, Entry(name)) /\ Fresh(t)
    BY <1>3, <2>1, VariableOk
  <2>3. Form(t.words, Entry(name).code, Entry(name).does)
    BY EntryTyped, EmptyForm
  <2>4. ~t.missed /\ Formed(t.words) /\ AtNewest(t)
    BY <1>3, <2>2, <2>3, MadeHits
  <2> QED BY <1>2, <2>4 DEF Hits
<1>7. CASE c.op = "DOES>"
  <2>1. t = CPP_does(u, c)
    BY <1>1, <1>7, ExecuteIs
  <2>2. i > 1 /\ code[i - 1].op = "VARIABLE"
    BY <1>1, <1>7 DEF CanRun, CodeOk
  <2>3. Fresh(u) /\ Len(u.words) > Len(s.words)
    BY <1>2, <2>2 DEF Ran
  <2>4. c.id \in T /\ s.words[c.id].refs \subseteq T /\ \A r \in T : In(s.lists, r)
    BY <1>2, <1>7 DEF Allowed, CanRun
  <2>5. /\ In(s.lists, c.id) /\ In(u.lists, c.id) /\ u.words[c.id].refs = s.words[c.id].refs
        /\ \A r \in s.words[c.id].refs : In(u.lists, r)
    BY <1>3, <2>4 DEF Kept
  <2>6. c.id # Len(u.words) /\ c.id \in 1 .. Len(u.words)
    <3>1. Len(u.words) \notin 1 .. Len(s.words)
      BY <1>3, <2>3
    <3> QED BY <1>3, <2>5, <3>1, InIs
  <2>7. /\ DoesSet(u, t)
        /\ t.words[Len(u.words)].code = u.words[c.id].does /\ t.words[Len(u.words)].does = <<>>
    BY <1>3, <2>1, <2>3, <2>5, <2>6, DoesOk
  <2>8. Formed(t.words)
    BY <1>3, <2>3, <2>6, <2>7, DoesHits
  <2>9. t.missed = u.missed
    BY <2>7 DEF DoesSet
  <2> QED BY <1>1, <1>2, <1>3, <1>7, <2>8, <2>9 DEF Hits, Marks
<1>8. CASE c.op = "compile-name"
  <2>1. t = CPP_compilename(u, c.id)
    BY <1>1, <1>8, ExecuteIs
  <2>2. /\ c.id \in T /\ s.words[c.id].refs \subseteq T /\ \A r \in T : In(s.lists, r)
        /\ pend /\ AllIn(s.words[c.id].code, Deferrable) /\ Lacks(s.words[s.new].code, "DOES>")
    BY <1>2, <1>8 DEF Allowed, CanRun
  <2>3. /\ In(u.lists, c.id) /\ u.words[c.id].refs = s.words[c.id].refs
        /\ u.words[c.id].code = s.words[c.id].code
        /\ \A r \in s.words[c.id].refs : In(u.lists, r)
    BY <1>3, <2>2 DEF Kept
  <2>4. Pending(u) /\ u.new = s.new /\ Lacks(u.words[u.new].code, "DOES>")
    BY <2>2 DEF Ran
  <2>5. /\ NewSet(u, t) /\ t.words[u.new].code = u.words[u.new].code \o u.words[c.id].code
        /\ t.words[u.new].does = u.words[u.new].does
    <3>1. /\ \A r \in u.words[c.id].refs : In(u.lists, r)
          /\ AllIn(u.words[c.id].code, Deferrable)
      BY <2>2, <2>3
    <3>2. Good(u) /\ Pending(u) /\ In(u.lists, c.id) /\ Lacks(u.words[u.new].code, "DOES>")
      BY <1>3, <2>3, <2>4
    <3> QED BY ONLY <2>1, <3>1, <3>2, CompileNameOk, ZenonT(40)
  <2>6. Plain(u.words[c.id].code) /\ c.id \in 1 .. Len(u.words)
    BY <1>1, <1>3, <1>8, <2>3, InIs DEF Leads
  <2>7. Formed(t.words)
    BY <1>3, <2>4, <2>5, <2>6, JoinHits
  <2>8. t.missed = u.missed
    BY <2>5 DEF NewSet
  <2> QED BY <1>1, <1>2, <1>3, <1>8, <2>7, <2>8 DEF Hits, Marks
<1> QED BY <1>2, <1>4, <1>5, <1>6, <1>7, <1>8 DEF Compilable, Deferrable

(* The code of a word runs.                                                *)
LEMMA HitRun ==
  ASSUME NEW s, Good(s), NEW T, NEW code, NEW pend \in BOOLEAN, CanRun(s, T, code, pend),
         pend => Pending(s), ~s.missed, Formed(s.words), MarksFollow(code), Leads(s.words, code),
         StartsWithMark(code) => AtNewest(s),
         NEW name \in AnyName, NEW f, Trace(f, s, code, name)
  PROVE  \A i \in 0 .. Len(code) : Hits(f[i], code, i)
<1> DEFINE S == {i \in 0 .. Len(code) : ~Hits(f[i], code, i)}
<1>1. Len(code) \in Nat
  BY LenProperties DEF CanRun
<1>2. Hits(f[0], code, 0)
  BY DEF Trace, Hits
<1> SUFFICES ASSUME S # {} PROVE FALSE
  OBVIOUS
<1>3. S \subseteq Nat
  OBVIOUS
<1>4. PICK m \in S : \A k \in S : m <= k
  <2> HIDE DEF S
  <2> QED BY <1>3, LeastExists
<1>5. m \in 0 .. Len(code) /\ ~Hits(f[m], code, m)
  OBVIOUS
<1>6. m # 0
  BY <1>2, <1>5
<1>7. m \in 1 .. Len(code) /\ m - 1 \in 0 .. Len(code) /\ ~(m <= m - 1)
  BY <1>1, <1>5, <1>6
<1>8. Hits(f[m - 1], code, m - 1)
  BY <1>4, <1>7
<1>9. f[m] = Execute(f[m - 1], code[m], name)
  BY <1>7 DEF Trace
<1> HIDE DEF S
<1>10. Ran(s, f[m - 1], code, m - 1, pend)
  BY <1>7, CodeRun
<1>11. Hits(f[m], code, m)
  BY <1>7, <1>8, <1>9, <1>10, HitStep
<1> QED BY <1>5, <1>11

(* The marks of the line.                                                  *)
LEMMA LineRun ==
  ASSUME NEW s, Good(s), NEW code \in Seq(CommandType), AllIn(code, Marks),
         ~s.missed, Formed(s.words), code # <<>> => AtNewest(s),
         \A i \in 1 .. Len(code) : code[i].id = s.newest,
         NEW name, NEW f, Trace(f, s, code, name)
  PROVE  ~f[Len(code)].missed /\ Formed(f[Len(code)].words)
<1> DEFINE Good1(i) == /\ ~f[i].missed /\ Formed(f[i].words)
                       /\ code # <<>> => AtNewest(f[i])
           S == {i \in 0 .. Len(code) : ~Good1(i)}
<1>1. Len(code) \in Nat
  BY LenProperties
<1>2. Good1(0)
  BY DEF Trace
<1> SUFFICES ASSUME S # {} PROVE FALSE
  BY <1>1
<1>3. S \subseteq Nat
  OBVIOUS
<1>4. PICK m \in S : \A k \in S : m <= k
  <2> HIDE DEF S
  <2> QED BY <1>3, LeastExists
<1>5. m \in 0 .. Len(code) /\ ~Good1(m)
  OBVIOUS
<1>6. m # 0
  BY <1>2, <1>5
<1>7. m \in 1 .. Len(code) /\ m - 1 \in 0 .. Len(code) /\ ~(m <= m - 1)
  BY <1>1, <1>5, <1>6
<1>8. Good1(m - 1)
  BY <1>4, <1>7
<1>9. f[m] = Execute(f[m - 1], code[m], name)
  BY <1>7 DEF Trace
<1> HIDE DEF S
<1>10. Marked(s, f[m - 1])
  BY <1>7, MarksRun
<1>11. Good(f[m - 1]) /\ f[m - 1].newest = s.newest
  BY <1>10 DEF Marked
<1>12. code # <<>>
  BY <1>1, <1>7, NoCode
<1>13. code[m].op \in Marks /\ code[m].id = s.newest
  BY <1>7 DEF AllIn
<1>14. ~f[m].missed /\ Formed(f[m].words) /\ AtNewest(f[m])
  BY <1>8, <1>9, <1>11, <1>12, <1>13, HitMark
<1> QED BY <1>5, <1>14

-----------------------------------------------------------------------------
(* Every step keeps the marks *)

LEMMA LineHits ==
  ASSUME DictInv, MarksInv, NEW name, NEW f, Trace(f, Here, line, name)
  PROVE  ~f[Len(line)].missed /\ Formed(f[Len(line)].words)
<1>1. Good(Here) /\ line \in Seq(CommandType) /\ AllIn(line, Marks)
  BY DEF DictInv
<1>2. /\ ~Here.missed /\ Formed(Here.words) /\ (line # <<>> => AtNewest(Here))
      /\ \A i \in 1 .. Len(line) : line[i].id = Here.newest
  BY HereIs DEF MarksInv
<1> QED BY <1>1, <1>2, LineRun

(* A command is typed, and nothing waits after it.                         *)
LEMMA TypedHits ==
  ASSUME DictInv, MarksInv, NEW c \in CommandType, NEW name, ExecuteUpTo(<<c>>, name)
  PROVE  \E u, t : /\ t = Execute(u, c, name) /\ Becomes(t) /\ Marked(Here, u)
                   /\ line' = <<>> /\ ~u.missed /\ Formed(u.words)
<1>1. PICK f, t : /\ Trace(f, Here, line, name) /\ t = Execute(f[Len(line)], c, name)
                  /\ Becomes(t) /\ line' = <<>> /\ Marked(Here, f[Len(line)])
  BY TypedIs
<1>2. ~f[Len(line)].missed /\ Formed(f[Len(line)].words)
  BY <1>1, LineHits
<1> QED BY <1>1, <1>2

LEMMA HitsClose ==
  ASSUME NEW t, Becomes(t), ~t.missed, Formed(t.words), line' = <<>>
  PROVE  MarksInv'
<1>1. words' = t.words /\ missed' = t.missed
  BY DEF Becomes
<1>2. \A i \in 1 .. Len(line') : FALSE
  <2>1. \A i \in 1 .. 0 : FALSE
    OBVIOUS
  <2> QED BY <2>1, NoCode
<1> QED BY <1>1, <1>2 DEF MarksInv

LEMMA MoveHits ==
  ASSUME DictInv, MarksInv, NEW c \in CommandType, c.op \in MoveOps,
         c.op = "SET-ORDER" => OrderIs(c.wids, Len(wordlists)),
         c.op = "SET-CURRENT" => c.wids # <<>> /\ c.wids[1] \in 1 .. Len(wordlists),
         c.op # "vocabulary", NEW name, Type(c, name)
  PROVE  MarksInv'
<1>1. ExecuteUpTo(<<c>>, name) /\ Visible(c.op)
  BY DEF Type, Interpret
<1>2. PICK u, t : /\ t = Execute(u, c, name) /\ Becomes(t) /\ Marked(Here, u)
                  /\ line' = <<>> /\ ~u.missed /\ Formed(u.words)
  BY <1>1, TypedHits
<1>3. Good(Here)
  BY DEF DictInv
<1>4. c.op \notin RootWords => Len(SearchOrder) >= 2
  BY <1>1, <1>3, VisibleLong
<1>5. Good(u) /\ u.lists = wordlists /\ u.order = SearchOrder
  BY <1>2, HereIs DEF Marked
<1>6. MayMove(u, c)
  BY <1>4, <1>5 DEF MayMove, RootWords
<1>7. t.words = u.words /\ t.missed = u.missed
  BY <1>2, <1>5, <1>6, MovesKeep
<1> QED BY <1>2, <1>7, HitsClose

LEMMA MoveStepHits ==
  ASSUME DictInv, MarksInv, Move
  PROVE  MarksInv'
<1>1. PICK op \in Moving : Type(Command(op), "")
  BY DEF Move
<1>2. PICK c : c = Command(op)
  OBVIOUS
<1>3. PICK name : name = ""
  OBVIOUS
<1>4. c \in CommandType /\ c.op = op
  BY <1>2, CommandTyped, NondeferredIs
<1>5. op \in MoveOps /\ op \notin {"SET-ORDER", "SET-CURRENT", "vocabulary"}
  BY DEF Moving, MoveOps
<1>6. Type(c, name)
  BY <1>1, <1>2, <1>3
<1> QED BY ONLY DictInv, MarksInv, <1>4, <1>5, <1>6, MoveHits

LEMMA SetOrderHits ==
  ASSUME KeepsRules, DictInv, MarksInv, SetOrder
  PROVE  MarksInv'
<1>1. Keeps("orders end in Root")
  BY Kept1 DEF Rules
<1>2. PICK w \in DOMAIN wordlists : Type(WithWids("SET-ORDER", <<w, Root>>), "")
  BY <1>1 DEF SetOrder
<1>3. PICK n \in Nat : n = Len(wordlists)
  BY Facts, HereIs DEF DictInv, Good
<1>4. w \in 1 .. n /\ n >= 3
  BY <1>2, <1>3, Facts, HereIs DEF DictInv, Good
<1>5. PICK wids : wids = <<w, Root>>
  OBVIOUS
<1>6. OrderIs(wids, n) /\ wids \in Seq(Nat)
  <2>1. wids \in Seq(Nat) /\ Len(wids) = 2 /\ wids[1] = w /\ wids[2] = Root
    BY <1>4, <1>5 DEF Root
  <2>2. \A i \in 1 .. 2 : i = 1 \/ i = 2
    OBVIOUS
  <2>3. Root \in 1 .. n
    BY <1>4 DEF Root
  <2> QED BY <1>4, <2>1, <2>2, <2>3 DEF OrderIs
<1>7. PICK c : c = WithWids("SET-ORDER", wids)
  OBVIOUS
<1>8. c \in CommandType /\ c.op = "SET-ORDER" /\ c.wids = wids
  <2>1. "SET-ORDER" \in CommandOps
    BY DEF CommandOps, Nondeferred
  <2> QED BY <1>6, <1>7, <2>1, CommandTyped
<1>9. c.op \in MoveOps /\ c.op # "vocabulary" /\ c.op # "SET-CURRENT"
  BY <1>8 DEF MoveOps
<1>10. PICK name : name = ""
  OBVIOUS
<1>11. Type(c, name)
  BY <1>2, <1>5, <1>7, <1>10
<1>12. OrderIs(c.wids, Len(wordlists))
  BY <1>3, <1>6, <1>8
<1> QED BY ONLY DictInv, MarksInv, <1>8, <1>9, <1>11, <1>12, MoveHits

LEMMA SetCurrentHits ==
  ASSUME DictInv, MarksInv, SetCurrent
  PROVE  MarksInv'
<1>1. PICK w \in DOMAIN wordlists : Type(WithWids("SET-CURRENT", <<w>>), "")
  BY DEF SetCurrent
<1>2. w \in 1 .. Len(wordlists) /\ w \in Nat
  BY Facts, HereIs, SMTT(30) DEF DictInv, Good
<1>3. PICK wids : wids = <<w>>
  OBVIOUS
<1>4. wids \in Seq(Nat) /\ wids # <<>> /\ wids[1] = w
  BY ONLY <1>2, <1>3
<1>5. PICK c : c = WithWids("SET-CURRENT", wids)
  OBVIOUS
<1>6. c \in CommandType /\ c.op = "SET-CURRENT" /\ c.wids = wids
  <2>1. "SET-CURRENT" \in CommandOps
    BY DEF CommandOps, Nondeferred
  <2> QED BY <1>4, <1>5, <2>1, CommandTyped
<1>7. c.op \in MoveOps /\ c.op # "vocabulary" /\ c.op # "SET-ORDER"
  BY <1>6 DEF MoveOps
<1>8. PICK name : name = ""
  OBVIOUS
<1>9. Type(c, name)
  BY <1>1, <1>3, <1>5, <1>8
<1>10. c.wids # <<>> /\ c.wids[1] \in 1 .. Len(wordlists)
  BY <1>2, <1>4, <1>6
<1> QED BY ONLY DictInv, MarksInv, <1>6, <1>7, <1>9, <1>10, MoveHits

LEMMA WordlistHits ==
  ASSUME DictInv, MarksInv, MakeWordlist
  PROVE  MarksInv'
<1>1. PICK c : c = Command("WORDLIST")
  OBVIOUS
<1>2. PICK name : name = ""
  OBVIOUS
<1>3. c \in CommandType /\ c.op = "WORDLIST"
  <2>1. "WORDLIST" \in CommandOps
    BY DEF CommandOps, Nondeferred
  <2> QED BY <1>1, <2>1, CommandTyped
<1>4. ExecuteUpTo(<<c>>, name)
  BY <1>1, <1>2 DEF MakeWordlist, Type, Interpret
<1>5. PICK u, t : /\ t = Execute(u, c, name) /\ Becomes(t) /\ Marked(Here, u)
                  /\ line' = <<>> /\ ~u.missed /\ Formed(u.words)
  BY ONLY DictInv, MarksInv, <1>3, <1>4, TypedHits
<1>6. t = CPP_wordlist(u) /\ Good(u)
  BY <1>3, <1>5, ExecuteIs DEF Marked
<1>7. t.words = u.words /\ t.missed = u.missed
  BY <1>6, WordlistOk
<1> QED BY ONLY <1>5, <1>7, HitsClose

LEMMA DefineHits ==
  ASSUME KeepsRules, DictInv, MarksInv, Define
  PROVE  MarksInv'
<1>1. PICK op \in {"VARIABLE", "VOCABULARY"}, name \in Names : TypeOutside(Command(op), name)
  BY DEF Define
<1>2. PICK c : c = Command(op)
  OBVIOUS
<1>3. c \in CommandType /\ c.op = op
  <2>1. op \in CommandOps
    BY DEF CommandOps, Nondeferred, Defining
  <2> QED BY <1>2, <2>1, CommandTyped
<1>4. ExecuteUpTo(<<c>>, name)
  BY <1>1, <1>2 DEF TypeOutside, Type, Interpret
<1>5. PICK u, t : /\ t = Execute(u, c, name) /\ Becomes(t) /\ Marked(Here, u)
                  /\ line' = <<>> /\ ~u.missed /\ Formed(u.words)
  BY ONLY DictInv, MarksInv, <1>3, <1>4, TypedHits
<1>6. name \in AnyName /\ Good(u) /\ u.current # Root
  BY <1>5, NamesAny, HereIs DEF Marked, DictInv
<1>7. CASE op = "VARIABLE"
  <2>1. t = CPP_variable(u, name)
    BY <1>3, <1>5, <1>7, ExecuteIs
  <2>2. Made(u, t, Entry(name))
    BY <1>6, <2>1, VariableOk
  <2>3. Form(t.words, Entry(name).code, Entry(name).does)
    BY <1>6, EntryTyped, EmptyForm
  <2>4. ~t.missed /\ Formed(t.words)
    BY <1>5, <1>6, <2>2, <2>3, MadeHits
  <2> QED BY ONLY <1>5, <2>4, HitsClose
<1>8. CASE op = "VOCABULARY"
  <2>1. t = CPP_vocabulary(u, name)
    BY <1>3, <1>5, <1>8, ExecuteIs
  <2>2. t.missed = u.missed
    BY <1>6, <2>1, VocabularyOk
  <2>3. PICK code : Adds(u.words, t.words, code, <<>>) /\ AllIn(code, {"vocabulary"})
    BY <1>6, <2>1, VocabularyOk
  <2>4. Plain(code) /\ Lacks(code, "compile-name")
    BY <2>3 DEF AllIn, Plain, Lacks, Marks
  <2>5. Form(t.words, code, <<>>)
    BY <2>4, OtherForm
  <2>6. WordsOk(u.words, Len(u.lists)) /\ Len(u.words) \in Nat
    BY <1>6, Facts DEF Good
  <2>7. Formed(t.words)
    BY <1>5, <2>3, <2>5, <2>6, AddFormed
  <2> QED BY ONLY <1>5, <2>2, <2>7, HitsClose
<1> QED BY <1>7, <1>8

LEMMA AliasHits ==
  ASSUME KeepsRules, DictInv, MarksInv, Alias
  PROVE  MarksInv'
<1>1. PICK old \in Names, name \in Names :
        /\ LocateWord(old) # NoWord /\ Runnable(LocateWord(old))
        /\ TypeOutside([Command("ALIAS") EXCEPT !.id = LocateWord(old)], name)
  BY DEF Alias
<1>2. PICK id : id = LocateWord(old)
  OBVIOUS
<1>3. /\ id \in 1 .. Len(words) /\ id \in Nat /\ In(wordlists, id)
      /\ \A r \in words[id].refs : In(wordlists, r)
  BY <1>1, <1>2, WordIs
<1>4. PICK c : c = [Command("ALIAS") EXCEPT !.id = id]
  OBVIOUS
<1>5. c \in CommandType /\ c.op = "ALIAS" /\ c.id = id
  <2>1. "ALIAS" \in CommandOps
    BY DEF CommandOps, Nondeferred, Defining
  <2> QED BY <1>3, <1>4, <2>1, CommandTyped
<1>6. ExecuteUpTo(<<c>>, name)
  BY <1>1, <1>2, <1>4 DEF TypeOutside, Type, Interpret
<1>7. PICK u, t : /\ t = Execute(u, c, name) /\ Becomes(t) /\ Marked(Here, u)
                  /\ line' = <<>> /\ ~u.missed /\ Formed(u.words)
  BY ONLY DictInv, MarksInv, <1>5, <1>6, TypedHits
<1>8. name \in AnyName /\ Good(u) /\ u.current # Root /\ Good(Here)
  BY <1>7, NamesAny, HereIs DEF Marked, DictInv
<1>9. In(u.lists, id) /\ \A r \in u.words[id].refs : In(u.lists, r)
  BY <1>3, <1>7, <1>8, MarkedKeeps, HereIs, SMTT(30)
<1>10. t = CPP_alias(u, id, name)
  BY <1>5, <1>7, ExecuteIs
<1>11. t.missed = u.missed /\ Adds(u.words, t.words, u.words[id].code, u.words[id].does)
  BY <1>8, <1>9, <1>10, AliasOk
<1>12. PICK n : n = Len(u.lists)
  OBVIOUS
<1>13. WordsOk(u.words, n) /\ Len(u.words) \in Nat /\ id \in 1 .. Len(u.words)
  BY <1>8, <1>9, <1>12, InIs, Facts DEF Good
<1>14. EntryOk(u.words, n, u.words[id], id) /\ Form(u.words, u.words[id].code, u.words[id].does)
  BY <1>7, <1>13 DEF WordsOk, Formed
<1>15. \A j \in u.words[id].refs : Plain(u.words[j].code) => Plain(t.words[j].code)
  BY <1>11, <1>14 DEF EntryOk, Adds
<1>16. Form(t.words, u.words[id].code, u.words[id].does)
  BY <1>14, <1>15, LeadsTo DEF Form
<1>17. Formed(t.words)
  BY <1>7, <1>11, <1>13, <1>16, AddFormed
<1> QED BY ONLY <1>7, <1>11, <1>17, HitsClose

LEMMA ForgetHits ==
  ASSUME DictInv, MarksInv, Forget
  PROVE  MarksInv'
<1>1. PICK name \in Names : TypeOutside(Command("FORGET"), name)
  BY DEF Forget
<1>2. PICK c : c = Command("FORGET")
  OBVIOUS
<1>3. c \in CommandType /\ c.op = "FORGET"
  <2>1. "FORGET" \in CommandOps
    BY DEF CommandOps, Nondeferred
  <2> QED BY <1>2, <2>1, CommandTyped
<1>4. ExecuteUpTo(<<c>>, name)
  BY <1>1, <1>2 DEF TypeOutside, Type, Interpret
<1>5. PICK u, t : /\ t = Execute(u, c, name) /\ Becomes(t) /\ Marked(Here, u)
                  /\ line' = <<>> /\ ~u.missed /\ Formed(u.words)
  BY ONLY DictInv, MarksInv, <1>3, <1>4, TypedHits
<1>6. t = CPP_forget(u, name) /\ Good(u)
  BY <1>3, <1>5, ExecuteIs DEF Marked
<1>7. t.missed = u.missed /\ Sheds(u.words, t.words)
  BY <1>6, ForgetOk
<1>8. Formed(t.words)
  BY <1>5, <1>6, <1>7, ShedFormed DEF Good
<1> QED BY ONLY <1>5, <1>7, <1>8, HitsClose

LEMMA ColdHits ==
  ASSUME DictInv, MarksInv, Cold
  PROVE  MarksInv'
<1>1. PICK name : name = ""
  OBVIOUS
<1>2. PICK c : c = Command("COLD")
  OBVIOUS
<1>3. c \in CommandType /\ c.op = "COLD"
  <2>1. "COLD" \in CommandOps
    BY DEF CommandOps, Nondeferred
  <2> QED BY <1>2, <2>1, CommandTyped
<1>4. ExecuteUpTo(<<c>>, name)
  BY <1>1, <1>2 DEF Cold, TypeOutside, Type, Interpret
<1>5. PICK u, t : /\ t = Execute(u, c, name) /\ Becomes(t) /\ Marked(Here, u)
                  /\ line' = <<>> /\ ~u.missed /\ Formed(u.words)
  BY ONLY DictInv, MarksInv, <1>3, <1>4, TypedHits
<1>6. t = CPP_cold(u) /\ Good(u)
  BY <1>3, <1>5, ExecuteIs DEF Marked
<1>7. t.missed = u.missed /\ Sheds(u.words, t.words)
  BY <1>6, ColdOk
<1>8. Formed(t.words)
  BY <1>5, <1>6, <1>7, ShedFormed DEF Good
<1> QED BY ONLY <1>5, <1>7, <1>8, HitsClose

LEMMA ColonHits ==
  ASSUME DictInv, MarksInv, Colon
  PROVE  MarksInv'
<1>1. PICK name \in Names : Interpret(Command(":"), name)
  BY DEF Colon
<1>2. PICK c : c = Command(":")
  OBVIOUS
<1>3. c \in CommandType /\ c.op = ":"
  <2>1. ":" \in CommandOps
    BY DEF CommandOps, Nondeferred, Defining
  <2> QED BY <1>2, <2>1, CommandTyped
<1>4. ExecuteUpTo(<<c>>, name)
  BY <1>1, <1>2 DEF Interpret
<1>5. PICK u, t : /\ t = Execute(u, c, name) /\ Becomes(t) /\ Marked(Here, u)
                  /\ line' = <<>> /\ ~u.missed /\ Formed(u.words)
  BY ONLY DictInv, MarksInv, <1>3, <1>4, TypedHits
<1>6. t = NewEntry(u, Entry(name)) /\ Good(u)
  BY <1>3, <1>5, ExecuteIs DEF Marked
<1>7. t.missed = u.missed /\ Adds(u.words, t.words, <<>>, <<>>)
  BY <1>6, NamesAny, ColonOk
<1>8. WordsOk(u.words, Len(u.lists)) /\ Len(u.words) \in Nat
  BY <1>6, Facts DEF Good
<1>9. Formed(t.words)
  BY <1>5, <1>7, <1>8, EmptyForm, AddFormed
<1> QED BY ONLY <1>5, <1>7, <1>9, HitsClose

LEMMA LineHitsStep ==
  ASSUME DictInv, MarksInv, EndOfLine \/ RightBracket
  PROVE  MarksInv'
<1>1. PICK code : code = <<>>
  OBVIOUS
<1>2. PICK name : name = ""
  OBVIOUS
<1>3. ExecuteUpTo(code, name)
  BY <1>1, <1>2 DEF EndOfLine, RightBracket
<1>4. code \in Seq(CommandType) /\ Len(code) = 0
  BY <1>1, NoCode
<1>5. PICK f, g : /\ Trace(f, Here, line, name) /\ Trace(g, f[Len(line)], code, name)
                  /\ Becomes(g[Len(code)]) /\ line' = <<>>
  BY ONLY DictInv, <1>3, <1>4, UpToIs
<1>6. PICK u : u = f[Len(line)]
  OBVIOUS
<1>7. ~u.missed /\ Formed(u.words)
  BY ONLY DictInv, MarksInv, <1>5, <1>6, LineHits
<1>8. Becomes(u)
  BY <1>4, <1>5, <1>6 DEF Trace
<1> QED BY ONLY <1>5, <1>7, <1>8, HitsClose

(* Steps that leave the dictionary, and the line or nothing.               *)
LEMMA StillHits ==
  ASSUME MarksInv, UNCHANGED <<words, wordlists, pCompilationWL, newest, missed>>,
         \/ line' = <<>>
         \/ line' = line /\ (State' = "compile" => line = <<>>)
  PROVE  MarksInv'
<1>1. \A i \in 1 .. 0 : FALSE
  OBVIOUS
<1>2. AtNewest(Here)' <=> AtNewest(Here)
  BY HereIs DEF AtNewest, LastWord, Here
<1>3. CASE line' = <<>>
  <2>1. \A i \in 1 .. Len(line') : FALSE
    BY <1>1, <1>3, NoCode
  <2> QED BY <1>3, <2>1 DEF MarksInv
<1>4. CASE line' = line /\ (State' = "compile" => line = <<>>)
  BY <1>2, <1>4 DEF MarksInv
<1> QED BY <1>3, <1>4

(* Code that begins with a mark is read after the word it is for.          *)
LEMMA ReadAtNewest ==
  ASSUME KeepsAll, NEW code, MayRead(code), StartsWithMark(code)
  PROVE  AtNewest(Here)
<1>1. Keeps("marks follow their word")
  BY KeepsMarks
<1>2. newest # NoWord /\ wordlists[pCompilationWL] # <<>> /\ newest = Last(wordlists[pCompilationWL])
  BY <1>1 DEF MayRead
<1> QED BY <1>2, HereIs DEF AtNewest, LastWord

LEMMA StartsIs ==
  ASSUME NEW code \in Seq(CommandType)
  PROVE  StartsWithMark(code) <=> Len(code) > 0 /\ code[1].op \in Marks
<1>1. Len(code) \in Nat /\ (Len(code) = 0 <=> code = <<>>)
  BY EmptySeq, NoCode, LenProperties
<1>2. code # <<>> => Head(code) = code[1]
  OBVIOUS
<1> QED BY <1>1, <1>2 DEF StartsWithMark

LEMMA DeferHits ==
  ASSUME KeepsAll, DictInv, MarksInv, State # "compile",
         NEW code \in Seq(CommandType), AllIn(code, Marks), Defer(code)
  PROVE  MarksInv'
<1> DEFINE n == Len(code)
           q == [i \in DOMAIN code |->
                  IF code[i].op \in Marks THEN [code[i] EXCEPT !.id = newest] ELSE code[i]]
<1>1. /\ UNCHANGED <<words, wordlists, pCompilationWL, newest, missed>> /\ State' = State
      /\ line' = line \o q /\ MayRead(code)
  BY DEF Defer
<1>2. n \in Nat /\ DOMAIN code = 1 .. n
  BY LenProperties
<1>3. line \in Seq(CommandType) /\ newest \in Nat
  BY Facts, HereIs DEF DictInv, Good
<1>4. \A i \in 1 .. n : q[i] \in CommandType /\ q[i].id = newest
  <2> SUFFICES ASSUME NEW i \in 1 .. n PROVE q[i] \in CommandType /\ q[i].id = newest
    OBVIOUS
  <2>1. PICK c : c = code[i]
    OBVIOUS
  <2>2. c \in CommandType /\ c.op \in Marks
    BY <2>1, Elements DEF AllIn
  <2>3. q[i] = [c EXCEPT !.id = newest]
    BY <1>2, <2>1, <2>2
  <2> QED BY <1>3, <2>2, <2>3 DEF CommandType
<1>5. q \in [1 .. n -> CommandType]
  <2>1. q = [i \in 1 .. n |-> q[i]]
    BY <1>2
  <2> QED BY <1>4, <2>1
<1> HIDE DEF q
<1>6. q \in Seq(CommandType) /\ Len(q) = n
  BY ONLY <1>2, <1>5, FunctionIsSeq
<1>7. PICK both : both = line \o q
  OBVIOUS
<1>8. \A i \in 1 .. Len(both) : \/ i \in 1 .. Len(line) /\ both[i] = line[i]
                                \/ i - Len(line) \in 1 .. Len(q) /\ both[i] = q[i - Len(line)]
  BY ONLY <1>3, <1>6, <1>7, Joined
<1>9. \A i \in 1 .. Len(both) : both[i].id = newest
  BY <1>4, <1>6, <1>8 DEF MarksInv
<1>10. both # <<>> => AtNewest(Here)
  <2>1. CASE n = 0
    <3>1. q = <<>>
      BY <1>6, <2>1, EmptySeq
    <3>2. both = line
      BY <1>3, <1>7, <3>1, ConcatEmptySeq
    <3> QED BY <3>2 DEF MarksInv
  <2>2. CASE n # 0
    <3>1. n > 0 /\ 1 \in 1 .. n
      BY <1>2, <2>2
    <3>2. StartsWithMark(code)
      BY <3>1, StartsIs DEF AllIn
    <3> QED BY <1>1, <3>2, ReadAtNewest
  <2> QED BY <2>1, <2>2
<1>11. AtNewest(Here)' <=> AtNewest(Here)
  BY <1>1, HereIs DEF AtNewest, LastWord, Here
<1>12. State' # "compile"
  BY <1>1
<1>13. line' = both
  BY <1>1, <1>7
<1> HIDE DEF n
<1> QED BY <1>1, <1>9, <1>10, <1>11, <1>12, <1>13 DEF MarksInv

LEMMA TypeMarkHits ==
  ASSUME KeepsAll, DictInv, MarksInv, TypeMark
  PROVE  MarksInv'
<1>1. PICK op \in Marks : Defer(<<Command(op)>>) /\ State # "compile"
  BY DEF TypeMark, Interpreting
<1>2. PICK code : code = <<Command(op)>>
  OBVIOUS
<1>3. op \in CommandOps
  BY DEF CommandOps, Compilable, Deferrable
<1>4. code \in Seq(CommandType) /\ AllIn(code, Marks)
  BY <1>2, <1>3, OneCommand
<1> QED BY <1>1, <1>2, <1>4, DeferHits

(* A word of the program runs in a dictionary that has been marked.        *)
LEMMA WordHits ==
  ASSUME KeepsAll, DictInv, MarksInv, NEW name, NEW id, id = LocateWord(name), id # NoWord,
         MayRun(id), NEW u, Marked(Here, u), ~u.missed, Formed(u.words),
         NEW next \in AnyName, NEW code, code = words[id].code, NEW g, Trace(g, u, code, next)
  PROVE  ~g[Len(code)].missed /\ Formed(g[Len(code)].words)
<1>1. PICK pend \in BOOLEAN : pend <=> State # "interpret"
  OBVIOUS
<1>2. KeepsRules
  BY KeepsMarks
<1>3. PICK T : CanRun(Here, T, code, pend)
  BY <1>1, <1>2, WordCanRun
<1>4. Good(Here) /\ (pend => Pending(Here)) /\ Good(u) /\ (pend => Pending(u))
  BY <1>1 DEF DictInv, Marked
<1>5. CanRun(u, T, code, pend)
  BY <1>3, <1>4, MarkedCanRun
<1>6. /\ id \in 1 .. Len(words) /\ EntryOk(words, Len(wordlists), words[id], id)
      /\ code \in Seq(CommandType)
  BY WordIs DEF MayRun
<1>7. MarksFollow(code) /\ Leads(words, code)
  BY <1>6 DEF MarksInv, Formed, Form
<1>8. Leads(u.words, code)
  <2>1. \A j \in words[id].refs : u.words[j].code = words[j].code
    BY <1>6, HereIs DEF EntryOk, Marked, SameCode
  <2> QED BY <1>6, <1>7, <2>1, LeadsTo
<1>9. StartsWithMark(code) => AtNewest(u)
  <2>1. StartsWithMark(code) => AtNewest(Here)
    BY ReadAtNewest DEF MayRun
  <2> QED BY <2>1 DEF AtNewest, Marked, LastWord
<1>10. \A i \in 0 .. Len(code) : Hits(g[i], code, i)
  BY <1>4, <1>5, <1>7, <1>8, <1>9, HitRun
<1>11. Len(code) \in 0 .. Len(code)
  BY <1>6, LenProperties
<1> QED BY <1>10, <1>11 DEF Hits

(* Code of marks only, while the line waits.                               *)
LEMMA MarkedStays ==
  ASSUME MarksInv, NEW t, Marked(Here, t), Becomes(t), ~t.missed, Formed(t.words),
         line' = line, State' = State
  PROVE  MarksInv'
<1>1. /\ words' = t.words /\ missed' = t.missed /\ wordlists' = wordlists
      /\ pCompilationWL' = pCompilationWL /\ newest' = newest
  BY HereIs DEF Becomes, Marked
<1>2. AtNewest(Here)' <=> AtNewest(Here)
  BY <1>1, HereIs DEF AtNewest, LastWord, Here
<1> QED BY <1>1, <1>2 DEF MarksInv

(* Of deferrable code, only marks run without a definition.                *)
LEMMA DeferrableMarks ==
  ASSUME DictInv, NEW name, NEW id, id = LocateWord(name), id # NoWord, MayRun(id),
         State # "compile", ~words[id].nondeferred
  PROVE  AllIn(words[id].code, Marks)
<1>1. PICK code : code = words[id].code
  OBVIOUS
<1>2. code \in Seq(CommandType) /\ EntryOk(words, Len(wordlists), words[id], id)
  BY <1>1, WordIs DEF MayRun
<1>3. AllIn(code, Deferrable)
  BY <1>1, <1>2 DEF EntryOk
<1>4. DOMAIN code = 1 .. Len(code)
  BY <1>2, LenProperties
<1>5. \A i \in 1 .. Len(code) : code[i].op # "compile-name"
  BY <1>1, <1>4 DEF MayRun
<1> QED BY <1>1, <1>3, <1>5 DEF AllIn, Deferrable

LEMMA CurrentOnlyHits ==
  ASSUME KeepsAll, DictInv, MarksInv, NEW name, NEW id, id = LocateWord(name), id # NoWord,
         MayRun(id), State = "compile" \/ ~words[id].nondeferred,
         NEW next \in AnyName, ExecuteCurrentOnly(words[id].code, next)
  PROVE  MarksInv'
<1>1. PICK code : code = words[id].code
  OBVIOUS
<1>2. code \in Seq(CommandType)
  BY <1>1, WordIs DEF MayRun
<1>3. PICK g : Trace(g, Here, code, next) /\ ExecuteAll(Here, code, next) = g[Len(code)]
  BY <1>2, ExecuteAllIs
<1>4. Becomes(g[Len(code)]) /\ line' = line /\ State' = State
  BY <1>1, <1>3 DEF ExecuteCurrentOnly
<1>5. Good(Here) /\ Here \in DictionaryType
  BY DEF DictInv, Good
<1>6. Marked(Here, Here)
  BY <1>5, MarkedFrom DEF SameCode, SamePlace
<1>7. ~Here.missed /\ Formed(Here.words)
  BY HereIs DEF MarksInv
<1>8. PICK t : t = g[Len(code)]
  OBVIOUS
<1>9. ~t.missed /\ Formed(t.words)
  BY <1>1, <1>3, <1>6, <1>7, <1>8, WordHits
<1>10. CASE State = "compile"
  <2>1. line' = <<>>
    BY <1>4, <1>10 DEF MarksInv
  <2> QED BY ONLY <1>4, <1>8, <1>9, <2>1, HitsClose
<1>11. CASE State # "compile"
  <2>1. AllIn(code, Marks)
    BY <1>1, <1>11, DeferrableMarks
  <2>2. Marked(Here, t)
    BY <1>2, <1>3, <1>5, <1>8, <2>1, MarksRun
  <2> QED BY ONLY MarksInv, <1>4, <1>8, <1>9, <2>2, MarkedStays
<1> QED BY <1>10, <1>11

LEMMA InterpretWordHits ==
  ASSUME KeepsAll, DictInv, MarksInv, InterpretWord
  PROVE  MarksInv'
<1>1. PICK name \in Names, next \in Names :
        /\ State # "compile" /\ LocateWord(name) # NoWord /\ MayRun(LocateWord(name))
        /\ \/ ExecuteUpTo(words[LocateWord(name)].code, next)
           \/ /\ ~words[LocateWord(name)].nondeferred
              /\ ExecuteCurrentOnly(words[LocateWord(name)].code, next)
           \/ /\ ~words[LocateWord(name)].nondeferred
              /\ Defer(words[LocateWord(name)].code)
  BY DEF InterpretWord, Interpreting
<1>2. PICK id : id = LocateWord(name)
  OBVIOUS
<1>3. PICK code : code = words[id].code
  OBVIOUS
<1>4. id # NoWord /\ MayRun(id) /\ Runnable(id) /\ next \in AnyName
  BY <1>1, <1>2, NamesAny DEF MayRun
<1>5. code \in Seq(CommandType)
  BY <1>2, <1>3, <1>4, WordIs
<1>6. CASE ExecuteUpTo(code, next)
  <2>1. PICK f, g : /\ Trace(f, Here, line, next) /\ Trace(g, f[Len(line)], code, next)
                    /\ Becomes(g[Len(code)]) /\ line' = <<>>
                    /\ Marked(Here, f[Len(line)])
    BY ONLY DictInv, <1>5, <1>6, UpToIs
  <2>2. PICK u : u = f[Len(line)]
    OBVIOUS
  <2>3. ~u.missed /\ Formed(u.words)
    BY ONLY DictInv, MarksInv, <2>1, <2>2, LineHits
  <2>4. Trace(g, u, code, next) /\ Marked(Here, u)
    BY <2>1, <2>2
  <2>5. ~g[Len(code)].missed /\ Formed(g[Len(code)].words)
    BY ONLY KeepsAll, DictInv, MarksInv, <1>2, <1>3, <1>4, <2>3, <2>4, WordHits
  <2> QED BY ONLY <2>1, <2>5, HitsClose
<1>7. CASE ~words[id].nondeferred /\ ExecuteCurrentOnly(code, next)
  BY <1>2, <1>3, <1>4, <1>7, CurrentOnlyHits
<1>8. CASE ~words[id].nondeferred /\ Defer(code)
  <2>1. AllIn(code, Marks)
    BY <1>1, <1>2, <1>3, <1>4, <1>8, DeferrableMarks
  <2> QED BY <1>1, <1>5, <1>8, <2>1, DeferHits
<1> QED BY <1>1, <1>2, <1>3, <1>6, <1>7, <1>8

(* Deferrable code that does not begin with a mark has none.               *)
LEMMA PlainCode ==
  ASSUME NEW code \in Seq(CommandType), MarksFollow(code), AllIn(code, Deferrable),
         ~StartsWithMark(code)
  PROVE  Plain(code)
<1> DEFINE S == {i \in 1 .. Len(code) : code[i].op \in Marks}
<1> SUFFICES ASSUME S # {} PROVE FALSE
  BY DEF Plain
<1>1. Len(code) \in Nat
  BY LenProperties
<1>2. S \subseteq Nat
  BY <1>1
<1>3. PICK m \in S : \A k \in S : m <= k
  <2> HIDE DEF S
  <2> QED BY <1>2, LeastExists
<1>4. m \in 1 .. Len(code) /\ code[m].op \in Marks
  OBVIOUS
<1>5. m # 1
  BY <1>1, <1>4, StartsIs
<1>6. m > 1 /\ m - 1 \in 1 .. Len(code) /\ ~(m <= m - 1)
  BY <1>1, <1>4, <1>5
<1>7. code[m - 1].op \in {"VARIABLE"} \cup Marks /\ code[m - 1].op \in Deferrable
  BY <1>4, <1>6 DEF MarksFollow, AllIn
<1>8. code[m - 1].op \in Marks
  BY <1>7, DeferrableIs
<1> QED BY <1>3, <1>6, <1>8

(* Code joins the definition in progress; what it compiles is listed.      *)
LEMMA CompileHits ==
  ASSUME KeepsAll, DictInv, MarksInv, State = "compile",
         NEW code \in Seq(CommandType), NEW refs \in SUBSET Nat, NEW nondeferred \in BOOLEAN,
         Compile(code, refs, nondeferred), MarksFollow(code), Leads(words, code),
         \A i \in 1 .. Len(code) : code[i].op = "compile-name"
           => code[i].id \in 1 .. Len(words) /\ code[i].id # pNewWord,
         AfterDoes(words[pNewWord]) /\ ~nondeferred => AllIn(code, Deferrable)
  PROVE  MarksInv'
<1>1. PICK k : k = pNewWord
  OBVIOUS
<1>2. /\ words \in Seq(EntryType) /\ Len(words) \in Nat /\ k \in 1 .. Len(words)
      /\ WordsOk(words, Len(wordlists)) /\ \A j \in 1 .. Len(words) : k \notin words[j].refs
  BY <1>1, HereIs, Facts DEF DictInv, Good, Pending
<1>3. PICK e \in EntryType : e = words[k]
  BY <1>2, Elements
<1>4. PICK f : f = Compiled(e, code, refs, nondeferred)
  OBVIOUS
<1>5. Compounded(e, code, refs, nondeferred, f)
  BY ONLY e \in EntryType, code \in Seq(CommandType), refs \in SUBSET Nat,
          nondeferred \in BOOLEAN, <1>4, CompiledIs
<1>6. PICK vs : vs = [words EXCEPT ![k] = f]
  OBVIOUS
<1>7. /\ Len(vs) = Len(words) /\ vs[k] = f
      /\ \A j \in 1 .. Len(words) : j # k => vs[j] = words[j]
  <2>1. f \in EntryType
    BY <1>5 DEF Compounded
  <2> QED BY <1>2, <1>6, <2>1, ExceptSeq
<1>8. /\ words' = vs
      /\ UNCHANGED <<wordlists, Dictionary, SearchOrder, pCompilationWL, pNewWord,
                     State, line, newest, missed>>
  BY <1>1, <1>2, <1>3, <1>4, <1>6 DEF Compile
<1>9. \A j \in 1 .. Len(words) : \A r \in words[j].refs : r \in 1 .. Len(words) /\ vs[r] = words[r]
  BY <1>2, <1>7 DEF WordsOk, EntryOk
<1>10. /\ e.code \in Seq(CommandType) /\ e.does \in Seq(CommandType)
       /\ EntryOk(words, Len(wordlists), e, k) /\ Form(words, e.code, e.does)
  BY <1>2, <1>3 DEF EntryType, WordsOk, MarksInv, Formed
<1>11. Leads(vs, e.code) /\ Leads(vs, e.does)
  <2>1. \A j \in e.refs : Plain(words[j].code) => Plain(vs[j].code)
    BY <1>2, <1>3, <1>9
  <2> QED BY <1>10, <2>1, LeadsTo DEF Form
<1>12. Leads(vs, code)
  BY <1>1, <1>7 DEF Leads
<1>13. StartsWithMark(code) /\ Len(e.code) > 0 => e.code[Len(e.code)].op \in {"VARIABLE"} \cup Marks
  <2>1. Keeps("marks follow their word")
    BY KeepsMarks
  <2>2. StartsWithMark(code) /\ e.code # <<>> => Last(e.code).op \in {"VARIABLE"} \cup Marks
    BY <1>1, <1>3, <2>1 DEF Compile, MayCompile
  <2>3. Len(e.code) > 0 => e.code # <<>>
    BY NoCode
  <2> QED BY <2>2, <2>3 DEF Last
<1>14. Form(vs, f.code, f.does)
  <2>1. CASE AfterDoes(e)
    <3>1. Keeps("DOES> code is deferrable")
      BY KeepsMarks, Kept1 DEF Rules
    <3>2. AllIn(code, Deferrable)
      BY <1>1, <1>3, <2>1, <3>1 DEF Compile
    <3>3. e.code # <<>> /\ Last(e.code).op = "DOES>"
      BY <2>1 DEF AfterDoes
    <3>4. Len(e.code) > 0
      BY <1>10, <3>3, EmptySeq, LenProperties
    <3>5. ~StartsWithMark(code)
      BY <1>13, <3>3, <3>4 DEF Last, Marks
    <3>6. Plain(code) /\ Plain(e.does)
      BY <1>10, <3>2, <3>5, PlainCode DEF Form
    <3>7. MarksFollow(e.does) /\ MarksFollow(code)
      BY <3>6, PlainFollows
    <3>8. Len(code) > 0 => code[1].op \notin Marks
      BY <3>5, StartsIs
    <3>9. Leads(vs, e.does \o code)
      BY ONLY code \in Seq(CommandType), <1>10, <1>11, <1>12, <3>7, <3>8, JoinedForm
    <3>10. Plain(e.does \o code)
      <4>1. PICK both : both = e.does \o code
        OBVIOUS
      <4>2. \A i \in 1 .. Len(both) :
              \/ i \in 1 .. Len(e.does) /\ both[i] = e.does[i]
              \/ i - Len(e.does) \in 1 .. Len(code) /\ both[i] = code[i - Len(e.does)]
        BY ONLY code \in Seq(CommandType), <1>10, <4>1, Joined
      <4> QED BY <3>6, <4>1, <4>2 DEF Plain
    <3>11. f.does = e.does \o code /\ f.code = e.code
      BY <1>5, <2>1 DEF Compounded
    <3> QED BY <1>10, <1>11, <3>9, <3>10, <3>11 DEF Form
  <2>2. CASE ~AfterDoes(e)
    <3>1. f.does = e.does /\ f.code = e.code \o code
      BY <1>5, <2>2 DEF Compounded
    <3>2. Len(e.code) > 0 /\ Len(code) > 0 /\ code[1].op \in Marks
            => e.code[Len(e.code)].op \in {"VARIABLE"} \cup Marks
      BY <1>13, StartsIs
    <3>3. MarksFollow(e.code)
      BY <1>10 DEF Form
    <3>4. MarksFollow(e.code \o code) /\ Leads(vs, e.code \o code)
      BY ONLY code \in Seq(CommandType), MarksFollow(code), <1>10, <1>11, <1>12, <3>2, <3>3,
              JoinedForm
    <3> QED BY <1>10, <1>11, <3>1, <3>4 DEF Form
  <2> QED BY <2>1, <2>2
<1>15. Reforms(words, vs)
  BY <1>2, <1>7, <1>9, <1>14 DEF Reforms
<1>16. Formed(words') /\ ~missed'
  BY <1>2, <1>8, <1>15, FormedStays DEF MarksInv
<1>17. line' = <<>>
  BY <1>8 DEF MarksInv
<1>18. \A i \in 1 .. Len(line') : FALSE
  <2>1. \A i \in 1 .. 0 : FALSE
    OBVIOUS
  <2> QED BY <1>17, <2>1, NoCode
<1> QED BY <1>16, <1>17, <1>18 DEF MarksInv

LEMMA CompileCommandHits ==
  ASSUME KeepsAll, DictInv, MarksInv, CompileCommand
  PROVE  MarksInv'
<1>1. PICK op \in Moving \cup Marks \cup {"VARIABLE"} :
        State = "compile" /\ Compile(<<Command(op)>>, {}, op \in Nondeferred)
  BY DEF CompileCommand, Compiling
<1>2. PICK code : code = <<Command(op)>>
  OBVIOUS
<1>3. op \in CommandOps /\ op # "compile-name"
  BY DEF CommandOps, Nondeferred, Compilable, Deferrable, Moving, Defining, Marks
<1>4. /\ code \in Seq(CommandType) /\ Len(code) = 1 /\ code[1].op = op /\ code[1].id = NoWord
      /\ \A ops : AllIn(code, ops) <=> op \in ops
      /\ \A other : Lacks(code, other) <=> op # other
  BY <1>2, <1>3, OneCommand
<1>5. \A i \in 1 .. 1 : i = 1 /\ ~(i > 1)
  OBVIOUS
<1>6. MarksFollow(code)
  BY <1>4, <1>5 DEF MarksFollow
<1>7. Lacks(code, "compile-name")
  BY <1>3, <1>4
<1>8. Leads(words, code)
  BY <1>7 DEF Lacks, Leads
<1>9. op \notin Nondeferred => AllIn(code, Deferrable)
  BY <1>4 DEF Nondeferred, Defining, Deferrable
<1>10. (op \in Nondeferred) \in BOOLEAN /\ {} \in SUBSET Nat
  OBVIOUS
<1>11. Compile(code, {}, op \in Nondeferred)
  BY <1>1, <1>2
<1>12. \A i \in 1 .. Len(code) : code[i].op # "compile-name"
  BY <1>7 DEF Lacks
<1> QED BY ONLY KeepsAll, DictInv, MarksInv, <1>1, <1>4, <1>6, <1>8, <1>9, <1>10, <1>11, <1>12,
                CompileHits

LEMMA CompileDoesHits ==
  ASSUME KeepsAll, DictInv, MarksInv, CompileDoes
  PROVE  MarksInv'
<1>1. /\ State = "compile" /\ words[pNewWord].code # <<>>
      /\ Last(words[pNewWord].code).op = "VARIABLE"
      /\ Compile(<<[Command("DOES>") EXCEPT !.id = pNewWord]>>, {}, FALSE)
  BY DEF CompileDoes, Compiling
<1>2. ~AfterDoes(words[pNewWord])
  BY <1>1 DEF AfterDoes
<1>3. PICK c : c = [Command("DOES>") EXCEPT !.id = pNewWord]
  OBVIOUS
<1>4. c \in CommandType /\ c.op = "DOES>"
  <2>1. pNewWord \in Nat
    BY <1>1, NewWordIs
  <2> QED BY <1>3, <2>1, CommandTyped DEF CommandOps, Compilable
<1>5. PICK code : code = <<c>>
  OBVIOUS
<1>6. code \in Seq(CommandType) /\ Len(code) = 1 /\ code[1] = c
  BY <1>4, <1>5
<1>7. \A i \in 1 .. 1 : i = 1
  OBVIOUS
<1>8. \A i \in 1 .. Len(code) : code[i].op \notin Marks /\ code[i].op # "compile-name"
  BY <1>4, <1>6, <1>7 DEF Marks
<1>9. MarksFollow(code) /\ Leads(words, code)
  BY <1>8 DEF MarksFollow, Leads
<1>10. FALSE \in BOOLEAN /\ {} \in SUBSET Nat
  OBVIOUS
<1>11. Compile(code, {}, FALSE)
  BY <1>1, <1>3, <1>5
<1> QED BY ONLY KeepsAll, DictInv, MarksInv, <1>1, <1>2, <1>6, <1>8, <1>9, <1>10, <1>11,
                CompileHits

(* The code of a word that a name finds.                                   *)
LEMMA FoundForm ==
  ASSUME DictInv, MarksInv, State = "compile", NEW name, NEW id, id = LocateWord(name),
         id # NoWord, Runnable(id), NEW code, code = words[id].code
  PROVE  /\ code \in Seq(CommandType) /\ MarksFollow(code) /\ Leads(words, code)
         /\ id \in 1 .. Len(words) /\ id # pNewWord
         /\ {id} \cup words[id].refs \in SUBSET Nat /\ words[id].nondeferred \in BOOLEAN
         /\ \A i \in 1 .. Len(code) : code[i].op = "compile-name"
              => code[i].id \in 1 .. Len(words) /\ code[i].id # pNewWord
         /\ words[id].nondeferred \/ AllIn(code, Deferrable)
<1>1. /\ id \in 1 .. Len(words) /\ id \in Nat /\ In(wordlists, id)
      /\ words[id] \in EntryType /\ code \in Seq(CommandType) /\ words[id].refs \subseteq Nat
      /\ EntryOk(words, Len(wordlists), words[id], id)
  BY WordIs
<1>2. MarksFollow(code) /\ Leads(words, code)
  BY <1>1 DEF MarksInv, Formed, Form
<1>3. Pending(Here) /\ Here.words = words /\ Here.lists = wordlists /\ Here.new = pNewWord
  BY HereIs DEF DictInv
<1>4. id # pNewWord /\ \A j \in words[id].refs : j \in 1 .. Len(words) /\ j # pNewWord
  BY <1>1, <1>3 DEF Pending, EntryOk
<1>5. \A i \in 1 .. Len(code) : code[i].op = "compile-name" => code[i].id \in words[id].refs
  BY <1>1 DEF EntryOk, Points
<1>6. words[id].nondeferred \in BOOLEAN /\ {id} \cup words[id].refs \in SUBSET Nat
  BY <1>1 DEF EntryType
<1>7. words[id].nondeferred \/ AllIn(code, Deferrable)
  BY <1>1 DEF EntryOk
<1> QED BY <1>1, <1>2, <1>4, <1>5, <1>6, <1>7

LEMMA CompileWordHits ==
  ASSUME KeepsAll, DictInv, MarksInv, CompileWord
  PROVE  MarksInv'
<1>1. PICK name \in Names, next \in Names :
        /\ State = "compile" /\ LocateWord(name) # NoWord /\ Runnable(LocateWord(name))
        /\ \/ Compile(words[LocateWord(name)].code,
                      {LocateWord(name)} \cup words[LocateWord(name)].refs,
                      words[LocateWord(name)].nondeferred)
           \/ /\ MayRun(LocateWord(name))
              /\ ExecuteCurrentOnly(words[LocateWord(name)].code, next)
  BY DEF CompileWord, Compiling
<1>2. PICK id : id = LocateWord(name)
  OBVIOUS
<1>3. PICK code : code = words[id].code
  OBVIOUS
<1>4. id # NoWord /\ Runnable(id) /\ State = "compile" /\ next \in AnyName
  BY <1>1, <1>2, NamesAny
<1>5. PICK refs : refs = {id} \cup words[id].refs
  OBVIOUS
<1>6. PICK nd : nd = words[id].nondeferred
  OBVIOUS
<1>7. CASE Compile(code, refs, nd)
  <2>1. /\ code \in Seq(CommandType) /\ MarksFollow(code) /\ Leads(words, code)
        /\ refs \in SUBSET Nat /\ nd \in BOOLEAN
        /\ \A i \in 1 .. Len(code) : code[i].op = "compile-name"
             => code[i].id \in 1 .. Len(words) /\ code[i].id # pNewWord
        /\ nd \/ AllIn(code, Deferrable)
    BY <1>2, <1>3, <1>4, <1>5, <1>6, FoundForm
  <2>2. AfterDoes(words[pNewWord]) /\ ~nd => AllIn(code, Deferrable)
    BY <2>1
  <2> QED BY ONLY KeepsAll, DictInv, MarksInv, <1>4, <1>7, <2>1, <2>2, CompileHits
<1>8. CASE MayRun(id) /\ ExecuteCurrentOnly(code, next)
  BY <1>2, <1>3, <1>4, <1>8, CurrentOnlyHits
<1> QED BY <1>1, <1>2, <1>3, <1>5, <1>6, <1>7, <1>8

LEMMA PostponeHits ==
  ASSUME KeepsAll, DictInv, MarksInv, Postpone
  PROVE  MarksInv'
<1>1. PICK name \in Names :
        /\ State = "compile" /\ LocateWord(name) # NoWord /\ Runnable(LocateWord(name))
        /\ ~StartsWithMark(words[LocateWord(name)].code) /\ ~words[LocateWord(name)].nondeferred
        /\ Compile(IF words[LocateWord(name)].immediate
                     THEN words[LocateWord(name)].code
                     ELSE <<[Command("compile-name") EXCEPT !.id = LocateWord(name)]>>,
                   {LocateWord(name)} \cup words[LocateWord(name)].refs,
                   words[LocateWord(name)].nondeferred)
  <2>1. Keeps("what is postponed is deferrable")
    BY KeepsMarks, Kept1 DEF Rules
  <2> QED BY <2>1 DEF Postpone, Compiling
<1>2. PICK id : id = LocateWord(name)
  OBVIOUS
<1>3. PICK code : code = words[id].code
  OBVIOUS
<1>4. PICK refs : refs = {id} \cup words[id].refs
  OBVIOUS
<1>5. PICK nd : nd = words[id].nondeferred
  OBVIOUS
<1>6. /\ code \in Seq(CommandType) /\ MarksFollow(code) /\ Leads(words, code)
      /\ id \in 1 .. Len(words) /\ id # pNewWord
      /\ refs \in SUBSET Nat /\ nd \in BOOLEAN
      /\ \A i \in 1 .. Len(code) : code[i].op = "compile-name"
           => code[i].id \in 1 .. Len(words) /\ code[i].id # pNewWord
      /\ nd \/ AllIn(code, Deferrable)
  BY <1>1, <1>2, <1>3, <1>4, <1>5, FoundForm
<1>7. ~nd /\ AllIn(code, Deferrable) /\ ~StartsWithMark(code)
  BY <1>1, <1>2, <1>3, <1>5, <1>6
<1>8. CASE words[id].immediate
  <2>1. Compile(code, refs, nd)
    BY <1>1, <1>2, <1>3, <1>4, <1>5, <1>8
  <2> QED BY ONLY KeepsAll, DictInv, MarksInv, <1>1, <1>6, <1>7, <2>1, CompileHits
<1>9. CASE ~words[id].immediate
  <2>1. PICK c : c = [Command("compile-name") EXCEPT !.id = id]
    OBVIOUS
  <2>2. c \in CommandType /\ c.op = "compile-name" /\ c.id = id
    <3>1. id \in Nat
      BY <1>4, <1>6
    <3> QED BY <2>1, <3>1, CommandTyped DEF CommandOps, Compilable, Deferrable
  <2>3. PICK q : q = <<c>>
    OBVIOUS
  <2>4. q \in Seq(CommandType) /\ Len(q) = 1 /\ q[1] = c
    BY <2>2, <2>3
  <2>5. \A i \in 1 .. 1 : i = 1
    OBVIOUS
  <2>6. Plain(words[id].code)
    BY <1>3, <1>6, <1>7, PlainCode
  <2>7. MarksFollow(q) /\ Leads(words, q) /\ AllIn(q, Deferrable)
    BY <2>2, <2>4, <2>5, <2>6 DEF MarksFollow, Leads, AllIn, Deferrable, Marks
  <2>8. \A i \in 1 .. Len(q) : q[i].op = "compile-name"
          => q[i].id \in 1 .. Len(words) /\ q[i].id # pNewWord
    BY <1>6, <2>2, <2>4, <2>5
  <2>9. Compile(q, refs, nd)
    BY <1>1, <1>2, <1>4, <1>5, <1>9, <2>1, <2>3
  <2> QED BY ONLY KeepsAll, DictInv, MarksInv, <1>1, <1>6, <2>4, <2>7, <2>8, <2>9, CompileHits
<1> QED BY <1>8, <1>9

LEMMA SemicolonHits ==
  ASSUME DictInv, MarksInv, Semicolon
  PROVE  MarksInv'
<1>1. State = "compile" /\ Becomes(Listing(Here, pNewWord)) /\ line' = line
  BY DEF Semicolon, Compiling
<1>2. Good(Here) /\ Pending(Here) /\ pCompilationWL # Root
  BY <1>1 DEF DictInv
<1>3. Ready(Here, pNewWord)
  BY <1>2, HereIs DEF Pending, Ready
<1>4. PICK t : t = Listing(Here, pNewWord)
  OBVIOUS
<1>5. Done(Here, t, pNewWord)
  BY <1>2, <1>3, <1>4, ListingOk
<1>6. Becomes(t) /\ line' = <<>>
  BY <1>1, <1>4 DEF MarksInv
<1>7. WordsOk(words, Len(wordlists)) /\ Formed(words) /\ ~missed
  BY <1>2, HereIs DEF Good, MarksInv
<1>8. /\ Len(t.words) = Len(words) /\ t.missed = missed
      /\ \A k \in 1 .. Len(words) : t.words[k].code = words[k].code /\ t.words[k].does = words[k].does
  BY <1>5, HereIs DEF Done
<1>9. Formed(t.words)
  BY <1>7, <1>8, SameFormed
<1> QED BY <1>6, <1>7, <1>8, <1>9, HitsClose

LEMMA MarksInit == Init => MarksInv
<1> SUFFICES ASSUME Init PROVE MarksInv
  OBVIOUS
<1>1. \A i \in 1 .. 0 : FALSE
  OBVIOUS
<1>2. words = <<>> /\ line = <<>> /\ missed = FALSE
  BY DEF Init
<1>3. Formed(words)
  BY <1>1, <1>2, NoCode DEF Formed
<1>4. \A i \in 1 .. Len(line) : FALSE
  BY <1>1, <1>2, NoCode
<1> QED BY <1>2, <1>3, <1>4 DEF MarksInv

LEMMA MarksStep == KeepsAll /\ DictInv /\ MarksInv /\ [Next]_vars => MarksInv'
<1> SUFFICES ASSUME KeepsAll, DictInv, MarksInv, [Next]_vars PROVE MarksInv'
  OBVIOUS
<1> KeepsRules
  BY KeepsMarks
<1>1. CASE Move \/ SetOrder \/ SetCurrent \/ MakeWordlist
  BY <1>1, MoveStepHits, SetOrderHits, SetCurrentHits, WordlistHits
<1>2. CASE Define \/ Alias \/ Forget \/ Cold
  BY <1>2, DefineHits, AliasHits, ForgetHits, ColdHits
<1>3. CASE TypeMark \/ InterpretWord \/ EndOfLine \/ RightBracket
  BY <1>3, TypeMarkHits, InterpretWordHits, LineHitsStep
<1>4. CASE Fail
  BY <1>4, StillHits DEF Fail
<1>5. CASE Colon \/ CompileCommand \/ CompileDoes
  BY <1>5, ColonHits, CompileCommandHits, CompileDoesHits
<1>6. CASE CompileWord \/ Postpone \/ Semicolon
  BY <1>6, CompileWordHits, PostponeHits, SemicolonHits
<1>7. CASE LeftBracket
  <2>1. UNCHANGED <<words, wordlists, pCompilationWL, newest, missed>> /\ line' = line
        /\ State' = "brackets"
    BY <1>7 DEF LeftBracket
  <2> QED BY <2>1, StillHits
<1>8. CASE UNCHANGED vars
  <2>1. UNCHANGED <<words, wordlists, pCompilationWL, newest, missed>> /\ line' = line
        /\ State' = State
    BY <1>8 DEF vars
  <2>2. State = "compile" => line = <<>>
    BY DEF MarksInv
  <2> QED BY <2>1, <2>2, StillHits
<1> QED BY <1>1, <1>2, <1>3, <1>4, <1>5, <1>6, <1>7, <1>8 DEF Next

(* IMMEDIATE and NONDEFERRED mark the word they were read for, whatever    *)
(* waits before them and however deep they are compiled.                   *)
THEOREM MarksHitCorrect == ASSUME KeepsAll PROVE Spec => []MarksHit
<1>1. Init => DictInv /\ MarksInv
  BY InitOk, MarksInit
<1>2. DictInv /\ MarksInv /\ [Next]_vars => (DictInv /\ MarksInv)'
  BY KeepsMarks, DictStep, MarksStep
<1>3. MarksInv => MarksHit
  BY DEF MarksInv, MarksHit
<1> QED BY <1>1, <1>2, <1>3, PTL DEF Spec

===============================================================================
