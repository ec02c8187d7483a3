------------------------------ MODULE OutputProofs ------------------------------
(* Theorems about Output, for every set of files and every bound.          *)
EXTENDS Output, SequenceTheorems, TLAPS

(* A file or a stream holds items; a hole in a file is 0.                  *)
Text == Seq(Nat)

(* Where pOutStream stands, for as long as the program keeps the rules:    *)
(* at the end of the file it writes, so that what it writes is added to    *)
(* what the file has; and cout has nothing left to write.                  *)
StandsAtEnd ==
  bent = {} => /\ pOutStream.pos = Len(content[pOutStream.to])
               /\ ~FileOutput => pOutStream.left = <<>>

Streams == [to : Places, pos : Nat, left : Text]

OutputType ==
  /\ pOutStream \in Streams
  /\ content \in [Places -> Text] /\ expected \in [Places -> Text]
  /\ items \in Nat /\ opens \in Nat /\ ended \in BOOLEAN
  /\ bent \subseteq {"reopened", "bye"}

OutputInv == OutputType /\ StandsAtEnd /\ OutputKept

-----------------------------------------------------------------------------
(* Files *)

(* What is written at the end of a file is added to it.                    *)
LEMMA WrittenAtEnd ==
  ASSUME NEW file \in Text, NEW new \in Text
  PROVE  WrittenAt(file, Len(file), new) = file \o new
<1> DEFINE w == WrittenAt(file, Len(file), new)
           n == Len(file) + Len(new)
<1>1. Len(file) \in Nat /\ Len(new) \in Nat /\ (new = <<>> <=> Len(new) = 0)
  BY EmptySeq, LenProperties DEF Text
<1>2. w = [i \in 1 .. n |-> IF i > Len(file) /\ i <= n THEN new[i - Len(file)]
                            ELSE IF i <= Len(file) THEN file[i] ELSE 0]
  BY <1>1 DEF WrittenAt
<1>3. ASSUME NEW i \in 1 .. n
      PROVE  w[i] = IF i <= Len(file) THEN file[i] ELSE new[i - Len(file)]
  BY <1>1, <1>2
<1>4. /\ file \o new \in Text /\ Len(file \o new) = n
      /\ \A i \in 1 .. n : (file \o new)[i] = IF i <= Len(file) THEN file[i]
                                              ELSE new[i - Len(file)]
  BY ConcatProperties DEF Text
<1>5. \A i \in 1 .. n : (file \o new)[i] \in Nat
  BY <1>4, ElementOfSeq DEF Text
<1>6. DOMAIN (file \o new) = 1 .. n /\ file \o new \in [1 .. n -> Nat]
  BY <1>4, LenProperties DEF Text
<1>7. w \in [1 .. n -> Nat]
  BY <1>2, <1>3, <1>4, <1>5
<1> QED BY <1>3, <1>4, <1>6, <1>7

(* Wherever it is written, a file stays one.                               *)
LEMMA WrittenAtTyped ==
  ASSUME NEW file \in Text, NEW pos \in Nat, NEW new \in Text
  PROVE  WrittenAt(file, pos, new) \in Text
<1> DEFINE end == pos + Len(new)
           size == IF new # <<>> /\ end > Len(file) THEN end ELSE Len(file)
           e(i) == IF i > pos /\ i <= end THEN new[i - pos]
                   ELSE IF i <= Len(file) THEN file[i] ELSE 0
<1>1. Len(file) \in Nat /\ Len(new) \in Nat /\ size \in Nat
  BY LenProperties DEF Text
<1>2. ASSUME NEW i \in 1 .. size PROVE e(i) \in Nat
  <2>1. CASE i > pos /\ i <= end
    <3>1. i - pos \in 1 .. Len(new)
      BY <1>1, <2>1
    <3>2. new[i - pos] \in Nat
      BY <3>1, ElementOfSeq DEF Text
    <3> QED BY <2>1, <3>2
  <2>2. CASE ~(i > pos /\ i <= end) /\ i <= Len(file)
    <3>1. i \in 1 .. Len(file)
      BY <1>1, <2>2
    <3>2. file[i] \in Nat
      BY <3>1, ElementOfSeq DEF Text
    <3> QED BY <2>2, <3>2
  <2>3. CASE ~(i > pos /\ i <= end) /\ ~(i <= Len(file))
    BY <2>3
  <2> QED BY <2>1, <2>2, <2>3
<1>3. WrittenAt(file, pos, new) = [i \in 1 .. size |-> e(i)]
  BY DEF WrittenAt
<1>4. WrittenAt(file, pos, new) \in [1 .. size -> Nat]
  BY <1>2, <1>3
<1>5. ASSUME NEW n \in Nat, NEW f \in [1 .. n -> Nat] PROVE f \in Text
  BY SeqDef DEF Text
<1> HIDE DEF size
<1> QED BY <1>1, <1>4, <1>5

(* Of an empty file an empty stream leaves nothing.                        *)
LEMMA WrittenEmpty ==
  ASSUME NEW pos \in Nat
  PROVE  WrittenAt(<<>>, pos, <<>>) = <<>>
  BY EmptySeq DEF WrittenAt

(* A stream that has written all it had stands after it.                   *)
LEMMA StandsIs ==
  ASSUME NEW to, NEW pos, NEW left
  PROVE  Stands([to |-> to, pos |-> pos, left |-> left])
           = [to |-> to, pos |-> pos + Len(left), left |-> <<>>]
<1> DEFINE r == [to |-> to, pos |-> pos, left |-> left]
<1>1. r.pos = pos /\ r.left = left
  OBVIOUS
<1>2. Stands(r) = [[r EXCEPT !.pos = pos + Len(left)] EXCEPT !.left = <<>>]
  <2> HIDE DEF r
  <2> QED BY <1>1 DEF Stands
<1> QED BY <1>2

(* Adding to what is left is adding to all that was sent.                  *)
LEMMA AppendToConcat ==
  ASSUME NEW s \in Text, NEW t \in Text, NEW e \in Nat
  PROVE  Append(s \o t, e) = s \o Append(t, e)
<1>1. s \o t \in Text /\ <<e>> \in Text
  BY ConcatProperties DEF Text
<1>2. Append(s \o t, e) = (s \o t) \o <<e>> /\ Append(t, e) = t \o <<e>>
  BY <1>1, AppendIsConcat DEF Text
<1> QED BY <1>1, <1>2, ConcatAssociative DEF Text

-----------------------------------------------------------------------------
(* Steps *)

(* What a word writes comes after all that was sent to pOutStream before,  *)
(* in its stream or in its place.                                          *)
LEMMA WritesStep ==
  ASSUME OutputInv, NEW flush, Writes(flush), UNCHANGED opens \/ opens' \in Nat,
         ended' \in BOOLEAN, bent' \subseteq {"reopened", "bye"}, bent' = {} => bent = {}
  PROVE  OutputInv'
<1> DEFINE s == pOutStream
           stream == [s EXCEPT !.left = Append(@, items + 1)]
<1>1. /\ s \in Streams /\ s.to \in Places /\ s.pos \in Nat /\ s.left \in Text
      /\ items + 1 \in Nat /\ content[s.to] \in Text /\ expected[s.to] \in Text
  BY DEF OutputInv, OutputType, Streams
<1>2. stream.to = s.to /\ stream.pos = s.pos /\ stream.left = Append(s.left, items + 1)
  BY <1>1 DEF Streams
<1>3. Append(s.left, items + 1) \in Text /\ Append(expected[s.to], items + 1) \in Text
  BY <1>1, AppendProperties DEF Text
<1>4. stream \in Streams
  BY <1>1, <1>3 DEF Streams
<1>5. expected' = [expected EXCEPT ![s.to] = Append(@, items + 1)]
  BY <1>2 DEF Writes
<1>6. expected' \in [Places -> Text] /\ items' \in Nat /\ opens' \in Nat
  BY <1>1, <1>3, <1>5 DEF Writes, NewItem, OutputInv, OutputType
<1>7. ASSUME NEW p \in Places, bent = {}
      PROVE  expected'[p] = content[p] \o (IF p = s.to THEN Append(s.left, items + 1) ELSE <<>>)
  <2>1. CASE p = s.to
    <3>1. expected[p] = content[p] \o s.left
      BY <1>7, <2>1 DEF OutputInv, OutputKept
    <3>2. expected'[p] = Append(content[p] \o s.left, items + 1)
      BY <1>1, <1>5, <2>1, <3>1 DEF OutputInv, OutputType
    <3> QED BY <1>1, <2>1, <3>2, AppendToConcat
  <2>2. CASE p # s.to
    BY <1>1, <1>5, <1>7, <2>2 DEF OutputInv, OutputKept, OutputType
  <2> QED BY <2>1, <2>2
<1>8. CASE flush \/ ~FileOutput
  <2> DEFINE new == Append(s.left, items + 1)
  <2>1. /\ pOutStream' = Stands(stream)
        /\ content' = [content EXCEPT ![s.to] = WrittenAt(@, s.pos, new)]
    BY <1>2, <1>8 DEF Writes, Flushed
  <2>2. Len(new) \in Nat /\ new \in Text
    BY <1>3, LenProperties DEF Text
  <2>3. pOutStream'.to = s.to /\ pOutStream'.pos = s.pos + Len(new) /\ pOutStream'.left = <<>>
    BY <1>2, <1>4, <2>1 DEF Stands, Streams
  <2>4. pOutStream' \in Streams
    <3>0. stream = [to |-> s.to, pos |-> s.pos, left |-> new]
      <4> HIDE DEF stream
      <4> QED BY <1>2, <1>4 DEF Streams
    <3>1. Stands(stream) = [to |-> s.to, pos |-> s.pos + Len(new), left |-> <<>>]
      <4> HIDE DEF stream, new
      <4> QED BY <1>1, <2>2, <3>0, StandsIs
    <3>2. <<>> \in Text /\ s.pos + Len(new) \in Nat
      BY <1>1, <2>2, EmptySeq DEF Text
    <3> QED BY <1>1, <2>1, <3>1, <3>2 DEF Streams
  <2>5. content' \in [Places -> Text]
    BY <1>1, <2>1, <2>2, WrittenAtTyped DEF OutputInv, OutputType
  <2>6. ASSUME bent = {}
        PROVE  content'[s.to] = content[s.to] \o new
    <3>1. s.pos = Len(content[s.to])
      BY <2>6 DEF OutputInv, StandsAtEnd
    <3> QED BY <1>1, <2>1, <2>2, <3>1, WrittenAtEnd DEF OutputInv, OutputType
  <2>7. StandsAtEnd'
    <3>1. /\ content[s.to] \o new \in Text
          /\ Len(content[s.to] \o new) = Len(content[s.to]) + Len(new)
      BY <1>1, <2>2, ConcatProperties DEF Text
    <3>2. bent = {} => s.pos = Len(content[s.to])
      BY DEF OutputInv, StandsAtEnd
    <3> HIDE DEF new
    <3> QED BY <2>3, <2>6, <3>1, <3>2 DEF StandsAtEnd
  <2>8. ASSUME NEW p \in Places, bent = {}
        PROVE  expected'[p] = content'[p] \o <<>>
    <3>1. CASE p = s.to
      <4>1. expected'[p] = content[p] \o new /\ content'[p] = content[p] \o new
        BY <1>7, <2>6, <2>8, <3>1
      <4>2. content[p] \o new \in Text
        BY <1>1, <2>2, <3>1, ConcatProperties DEF Text
      <4> QED BY <4>1, <4>2, ConcatEmptySeq DEF Text
    <3>2. CASE p # s.to
      BY <1>7, <2>1, <2>8, <3>2 DEF OutputInv, OutputType
    <3> QED BY <3>1, <3>2
  <2>9. OutputKept'
    BY <2>3, <2>8 DEF OutputKept
  <2> QED BY <1>6, <2>4, <2>5, <2>7, <2>9 DEF OutputInv, OutputType
<1>9. CASE ~(flush \/ ~FileOutput)
  <2>1. pOutStream' = stream /\ content' = content
    BY <1>9 DEF Writes
  <2>2. StandsAtEnd'
    BY <1>1, <1>2, <1>9, <2>1 DEF OutputInv, StandsAtEnd, FileOutput
  <2>3. OutputKept'
    BY <1>2, <1>7, <2>1 DEF OutputKept
  <2> QED BY <1>4, <1>6, <2>1, <2>2, <2>3 DEF OutputInv, OutputType
<1> QED BY <1>8, <1>9

(* The prompt: what the console has gets longer, and cout with it.         *)
LEMMA PromptsStep == OutputInv /\ Prompts => OutputInv'
<1> SUFFICES ASSUME OutputInv, Prompts PROVE OutputInv'
  OBVIOUS
<1> DEFINE at == Len(content[Console])
<1>1. /\ Console \in Places /\ content[Console] \in Text /\ expected[Console] \in Text
      /\ at \in Nat /\ items + 1 \in Nat
  BY LenProperties DEF OutputInv, OutputType, Places, Text
<1>2. /\ content' = [content EXCEPT ![Console] = Append(@, items + 1)]
      /\ expected' = [expected EXCEPT ![Console] = Append(@, items + 1)]
      /\ items' = items + 1 /\ UNCHANGED <<ended, opens, bent>>
      /\ pOutStream' = IF FileOutput THEN pOutStream ELSE Stream(Console, at + 1)
  BY DEF Prompts, NewItem, Unopened
<1>3. /\ Append(content[Console], items + 1) \in Text
      /\ Append(expected[Console], items + 1) \in Text
      /\ Len(Append(content[Console], items + 1)) = at + 1
  BY <1>1, AppendProperties DEF Text
<1>4. pOutStream' \in Streams
  BY <1>1, <1>2, EmptySeq DEF OutputInv, OutputType, Streams, Stream, Text
<1>5. OutputType'
  BY <1>1, <1>2, <1>3, <1>4 DEF OutputInv, OutputType
<1>6. ASSUME bent = {}, ~FileOutput
      PROVE  pOutStream.to = Console /\ pOutStream.left = <<>>
  BY <1>6 DEF FileOutput, OutputInv, StandsAtEnd
<1>7. StandsAtEnd'
  BY <1>1, <1>2, <1>3 DEF StandsAtEnd, FileOutput, Stream, OutputInv, OutputType, Streams
<1>8. ASSUME NEW p \in Places, bent = {}
      PROVE  expected'[p] = content'[p] \o (IF p = pOutStream'.to THEN pOutStream'.left ELSE <<>>)
  <2>1. CASE p = Console
    <3>1. expected[p] = content[p] /\ (p = pOutStream'.to => pOutStream'.left = <<>>)
      BY <1>1, <1>2, <1>6, <1>8, <2>1, ConcatEmptySeq
         DEF FileOutput, Stream, OutputInv, OutputKept, Text
    <3>2. expected'[p] = Append(content[p], items + 1) /\ content'[p] = Append(content[p], items + 1)
      BY <1>1, <1>2, <2>1, <3>1 DEF OutputInv, OutputType
    <3> QED BY <1>3, <2>1, <3>1, <3>2, ConcatEmptySeq DEF Text
  <2>2. CASE p # Console
    <3>1. expected'[p] = expected[p] /\ content'[p] = content[p]
      BY <1>2, <2>2 DEF OutputInv, OutputType
    <3>2. (p = pOutStream'.to <=> p = pOutStream.to) /\ (p = pOutStream.to => pOutStream' = pOutStream)
      BY <1>2, <2>2 DEF FileOutput, Stream
    <3> QED BY <1>8, <3>1, <3>2 DEF OutputInv, OutputKept
  <2> QED BY <2>1, <2>2
<1>9. OutputKept'
  BY <1>2, <1>8 DEF OutputKept
<1> QED BY <1>5, <1>7, <1>9 DEF OutputInv

(* The stream that is left has written out all that was sent to it, and no *)
(* other place has changed.                                                *)
LEMMA ClosedStep ==
  ASSUME OutputInv, NEW files \in [Places -> Text]
  PROVE  /\ Closed(files) \in [Places -> Text]
         /\ \A p \in Places : (p = pOutStream.to => ~FileOutput) => Closed(files)[p] = files[p]
         /\ bent = {} /\ files[pOutStream.to] = content[pOutStream.to]
              => Closed(files)[pOutStream.to] = expected[pOutStream.to]
         /\ files[pOutStream.to] = <<>> /\ pOutStream.left = <<>>
              => Closed(files)[pOutStream.to] = <<>>
<1> DEFINE s == pOutStream
<1>1. /\ s \in Streams /\ s.to \in Places /\ s.pos \in Nat /\ s.left \in Text
      /\ files[s.to] \in Text
  BY DEF OutputInv, OutputType, Streams
<1>2. CASE FileOutput
  <2>1. Closed(files) = [files EXCEPT ![s.to] = WrittenAt(@, s.pos, s.left)]
    BY <1>2 DEF Closed, Flushed
  <2>2. Closed(files) \in [Places -> Text]
    BY <1>1, <2>1, WrittenAtTyped
  <2>3. ASSUME bent = {}, files[s.to] = content[s.to]
        PROVE  Closed(files)[s.to] = expected[s.to]
    <3>1. s.pos = Len(files[s.to]) /\ expected[s.to] = files[s.to] \o s.left
      BY <1>1, <2>3 DEF OutputInv, StandsAtEnd, OutputKept
    <3> QED BY <1>1, <2>1, <3>1, WrittenAtEnd
  <2>4. files[s.to] = <<>> /\ s.left = <<>> => Closed(files)[s.to] = <<>>
    BY <1>1, <2>1, WrittenEmpty
  <2> QED BY <1>2, <2>1, <2>2, <2>3, <2>4
<1>3. CASE ~FileOutput
  <2>1. Closed(files) = files
    BY <1>3 DEF Closed
  <2>2. bent = {} => expected[s.to] = content[s.to]
    <3>1. content[s.to] \o <<>> = content[s.to]
      BY <1>1, ConcatEmptySeq DEF OutputInv, OutputType, Text
    <3> QED BY <1>1, <1>3, <3>1 DEF OutputInv, StandsAtEnd, OutputKept
  <2> QED BY <2>1, <2>2
<1> QED BY <1>2, <1>3

(* Every other place has just what was sent there.                         *)
LEMMA OthersKept ==
  ASSUME OutputInv, NEW p \in Places, p # pOutStream.to, bent = {}
  PROVE  expected[p] = content[p]
  BY ConcatEmptySeq DEF OutputInv, OutputType, OutputKept, Text

(* The new file is empty, and the one that is left is complete.            *)
LEMMA ToFileStep ==
  ASSUME OutputInv, NEW name \in Names, CPP_tofile(name)
  PROVE  OutputInv'
<1> DEFINE s == pOutStream
           files == [content EXCEPT ![name] = <<>>]
<1>1. /\ name \in Places /\ name # Console /\ <<>> \in Text /\ s.to \in Places
      /\ opens + 1 \in Nat
  BY OutputAssumption, EmptySeq DEF Places, Text, OutputInv, OutputType, Streams
<1>2. /\ pOutStream' = Stream(name, 0) /\ content' = Closed(files)
      /\ expected' = [expected EXCEPT ![name] = <<>>]
      /\ bent' = bent \cup (IF name = s.to /\ s.left # <<>> THEN {"reopened"} ELSE {})
      /\ opens' = opens + 1 /\ UNCHANGED <<ended, items>>
  BY DEF CPP_tofile
<1>3. files \in [Places -> Text] /\ files[name] = <<>>
      /\ \A p \in Places : p # name => files[p] = content[p]
  BY <1>1 DEF OutputInv, OutputType
<1>4. OutputType'
  BY <1>1, <1>2, <1>3, ClosedStep DEF OutputInv, OutputType, Streams, Stream
<1>5. ASSUME bent' = {}
      PROVE  content'[name] = <<>> /\ bent = {}
  <2>1. bent = {} /\ (name = s.to => s.left = <<>>)
    BY <1>2, <1>5
  <2>2. CASE name = s.to
    BY <1>2, <1>3, <2>1, <2>2, ClosedStep
  <2>3. CASE name # s.to
    <3>1. Closed(files)[name] = files[name]
      <4> HIDE DEF files
      <4> QED BY <1>1, <1>3, <2>3, ClosedStep
    <3> QED BY <1>2, <1>3, <2>1, <3>1
  <2> QED BY <2>1, <2>2, <2>3
<1>6. StandsAtEnd'
  BY <1>1, <1>2, <1>5, EmptySeq DEF StandsAtEnd, FileOutput, Stream
<1>7. ASSUME NEW p \in Places, bent' = {}
      PROVE  expected'[p] = content'[p]
  <2>1. CASE p = name
    BY <1>1, <1>2, <1>5, <1>7, <2>1 DEF OutputInv, OutputType
  <2>2. CASE p # name /\ p = s.to
    BY <1>2, <1>3, <1>5, <1>7, <2>2, ClosedStep DEF OutputInv, OutputType
  <2>3. CASE p # name /\ p # s.to
    BY <1>2, <1>3, <1>5, <1>7, <2>3, ClosedStep, OthersKept DEF OutputInv, OutputType
  <2> QED BY <2>1, <2>2, <2>3
<1>8. OutputKept'
  <2>1. \A p \in Places : content'[p] \o <<>> = content'[p]
    BY <1>4, ConcatEmptySeq DEF OutputType, Text
  <2>2. pOutStream'.left = <<>>
    BY <1>2 DEF Stream
  <2> QED BY <1>7, <2>1, <2>2 DEF OutputKept
<1> QED BY <1>4, <1>6, <1>8 DEF OutputInv

(* cout comes back where the console's text ends.                          *)
LEMMA ConsoleStep == OutputInv /\ CPP_console => OutputInv'
<1> SUFFICES ASSUME OutputInv, CPP_console PROVE OutputInv'
  OBVIOUS
<1> DEFINE s == pOutStream
<1>1. /\ Console \in Places /\ content \in [Places -> Text] /\ s.to \in Places
      /\ Len(content[Console]) \in Nat /\ <<>> \in Text
  BY LenProperties, EmptySeq DEF OutputInv, OutputType, Places, Streams, Text
<1>2. /\ content' = Closed(content) /\ pOutStream' = Stream(Console, Len(content[Console]))
      /\ UNCHANGED <<ended, items, opens, expected, bent>>
  BY DEF CPP_console
<1>3. OutputType'
  BY <1>1, <1>2, ClosedStep DEF OutputInv, OutputType, Streams, Stream
<1>4. content'[Console] = content[Console]
  BY <1>1, <1>2, ClosedStep DEF FileOutput
<1>5. StandsAtEnd'
  BY <1>2, <1>4 DEF StandsAtEnd, FileOutput, Stream
<1>6. ASSUME NEW p \in Places, bent' = {}
      PROVE  expected'[p] = content'[p]
  <2>1. CASE p = s.to
    BY <1>1, <1>2, <1>6, <2>1, ClosedStep
  <2>2. CASE p # s.to
    BY <1>1, <1>2, <1>6, <2>2, ClosedStep, OthersKept
  <2> QED BY <2>1, <2>2
<1>7. OutputKept'
  <2>1. \A p \in Places : content'[p] \o <<>> = content'[p]
    BY <1>3, ConcatEmptySeq DEF OutputType, Text
  <2>2. pOutStream'.left = <<>>
    BY <1>2 DEF Stream
  <2> QED BY <1>6, <2>1, <2>2 DEF OutputKept
<1> QED BY <1>3, <1>5, <1>7 DEF OutputInv

-----------------------------------------------------------------------------
(* The program starts with empty files and nothing sent.                   *)
LEMMA OutputInit == Init => OutputInv
<1> SUFFICES ASSUME Init PROVE OutputInv
  OBVIOUS
<1>1. <<>> \in Text /\ Console \in Places /\ Len(<<>>) = 0
  BY EmptySeq DEF Text, Places
<1>2. <<>> \o <<>> = <<>>
  BY ConcatEmptySeq, EmptySeq
<1>3. OutputType
  BY <1>1 DEF Init, OutputType, Stream, Streams
<1>4. StandsAtEnd /\ OutputKept
  BY <1>1, <1>2 DEF Init, StandsAtEnd, OutputKept, Stream
<1> QED BY <1>3, <1>4 DEF OutputInv

(* No step leaves a stream short, or standing elsewhere than at the end.   *)
LEMMA OutputStep == OutputInv /\ [Next]_vars => OutputInv'
<1> SUFFICES ASSUME OutputInv, [Next]_vars PROVE OutputInv'
  OBVIOUS
<1>0. ended \in BOOLEAN /\ bent \subseteq {"reopened", "bye"} /\ opens \in Nat
  BY DEF OutputInv, OutputType
<1>1. CASE CPP_emit \/ CPP_cr
  BY <1>0, <1>1, WritesStep DEF CPP_emit, CPP_cr, Unopened
<1>2. CASE CPP_tofile_fails
  <2>1. Writes(FALSE) /\ opens' = opens + 1 /\ ended' = ended /\ bent' = bent
    BY <1>2 DEF CPP_tofile_fails
  <2>2. opens' \in Nat /\ ended' \in BOOLEAN /\ bent' \subseteq {"reopened", "bye"}
    BY <1>0, <2>1
  <2> QED BY <2>1, <2>2, WritesStep
<1>3. CASE CPP_bye
  BY <1>0, <1>3, WritesStep DEF CPP_bye
<1>4. CASE Prompts
  BY <1>4, PromptsStep
<1>5. CASE CPP_console
  BY <1>5, ConsoleStep
<1>6. ASSUME NEW name \in Names, CPP_tofile(name) PROVE OutputInv'
  BY <1>6, ToFileStep
<1>7. CASE UNCHANGED vars
  BY <1>7 DEF vars, OutputInv, OutputType, StandsAtEnd, OutputKept, FileOutput
<1> QED BY <1>1, <1>2, <1>3, <1>4, <1>5, <1>6, <1>7 DEF Next

(* Where a stream stands is the end of the file it writes, through every   *)
(* redirection.                                                            *)
THEOREM StandsAtEndCorrect == Spec => []StandsAtEnd
<1>1. OutputInv => StandsAtEnd
  BY DEF OutputInv
<1> QED BY <1>1, OutputInit, OutputStep, PTL DEF Spec

(* While the program does not reopen the open file and does not leave by   *)
(* BYE with the output redirected, what was sent to the console and to     *)
(* each file is there in order, or in the stream of the open file          *)
(* (CPP_tofile, CPP_console, CPP_bye).                                     *)
THEOREM OutputKeptCorrect == Spec => []OutputKept
<1>1. OutputInv => OutputKept
  BY DEF OutputInv
<1> QED BY <1>1, OutputInit, OutputStep, PTL DEF Spec

=================================================================================
