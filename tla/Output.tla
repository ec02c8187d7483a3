-------------------------------- MODULE Output --------------------------------
(***************************************************************************)
(* Where kForth's output goes: pOutStream is cout, or the file that >FILE  *)
(* opened.  A file's stream keeps what it was given until it is flushed,   *)
(* which most words do and CR, .S and some messages do not, and writes it  *)
(* where the stream stands in the file.  main() writes to the console      *)
(* whatever pOutStream is.  When the process ends, cout is written out but *)
(* the stream of a file is not.                                            *)
(*                                                                         *)
(* What a word writes is one item, a number.  expected and bent are        *)
(* history: what was sent to each place since it was opened, and the rules *)
(* the program did not keep:                                               *)
(*   reopened  >FILE named the file that was open while its stream had     *)
(*             something left                                              *)
(*   bye       BYE was called while the output went to a file              *)
(***************************************************************************)
EXTENDS Naturals, Sequences

CONSTANTS
  Names, Console,
  MaxItems,  \* bound: items written
  MaxOpens   \* bound: calls of >FILE

ASSUME OutputAssumption == Console \notin Names /\ {MaxItems, MaxOpens} \subseteq Nat

VARIABLES
  pOutStream, \* where it goes, where it stands there, what it has not written
  content,    \* what the files and the console have
  ended,
  items, opens, expected, bent

vars == <<pOutStream, content, ended, items, opens, expected, bent>>

Places == Names \cup {Console}
Stream(place, pos) == [to |-> place, pos |-> pos, left |-> <<>>]
FileOutput == pOutStream.to # Console

(* What is written from pos on replaces what is there; what lies between   *)
(* the end of the file and pos is a hole, 0.                               *)
WrittenAt(file, pos, new) ==
  LET end == pos + Len(new)
      size == IF new # <<>> /\ end > Len(file) THEN end ELSE Len(file)
  IN  [i \in 1 .. size |-> IF i > pos /\ i <= end THEN new[i - pos]
                           ELSE IF i <= Len(file) THEN file[i] ELSE 0]

(* flush() of a stream, in what the files hold.                            *)
Flushed(stream, files) ==
  [files EXCEPT ![stream.to] = WrittenAt(@, stream.pos, stream.left)]

Stands(stream) == [stream EXCEPT !.pos = @ + Len(stream.left), !.left = <<>>]

-----------------------------------------------------------------------------
(* Writing *)

NewItem == ~ended /\ items < MaxItems /\ items' = items + 1
Unopened == UNCHANGED <<ended, opens, bent>>

(* The next item goes to pOutStream, and with flush at once to its place;  *)
(* the console needs no flush.                                             *)
Writes(flush) ==
  LET stream == [pOutStream EXCEPT !.left = Append(@, items + 1)]
  IN  /\ NewItem
      /\ expected' = [expected EXCEPT ![stream.to] = Append(@, items + 1)]
      /\ IF flush \/ ~FileOutput
         THEN pOutStream' = Stands(stream) /\ content' = Flushed(stream, content)
         ELSE pOutStream' = stream /\ UNCHANGED content

(* EMIT, TYPE, SPACES, . .R U. U.R D. UD. F. FS. and the error messages.   *)
CPP_emit == Writes(TRUE) /\ Unopened

(* CR, .S and the listings of words. *)
CPP_cr == Writes(FALSE) /\ Unopened

(* main(): the prompt, and the line of an error.                           *)
Prompts ==
  LET at == Len(content[Console])
  IN  /\ NewItem
      /\ content' = [content EXCEPT ![Console] = Append(@, items + 1)]
      /\ expected' = [expected EXCEPT ![Console] = Append(@, items + 1)]
      /\ pOutStream' = IF FileOutput THEN pOutStream ELSE Stream(Console, at + 1)
      /\ Unopened

-----------------------------------------------------------------------------
(* Redirection *)

(* Mutant: the stream that is left is deleted without being closed. *)
NotClosed(files) == files

(* The stream that is left is closed; cout is not.                         *)
Closed(files) == IF FileOutput THEN Flushed(pOutStream, files) ELSE files

(* >FILE opens the new file, and so empties it, before it closes the other *)
(* one.                                                                    *)
CPP_tofile(name) ==
  /\ ~ended /\ opens < MaxOpens /\ opens' = opens + 1
  /\ pOutStream' = Stream(name, 0)
  /\ content' = Closed([content EXCEPT ![name] = <<>>])
  /\ expected' = [expected EXCEPT ![name] = <<>>]
  /\ bent' = bent \cup (IF name = pOutStream.to /\ pOutStream.left # <<>>
                        THEN {"reopened"} ELSE {})
  /\ UNCHANGED <<ended, items>>

(* A file that can not be opened: a message to the stream there is.        *)
CPP_tofile_fails ==
  opens < MaxOpens /\ opens' = opens + 1 /\ Writes(FALSE) /\ UNCHANGED <<ended, bent>>

CPP_console ==
  /\ ~ended /\ content' = Closed(content)
  /\ pOutStream' = Stream(Console, Len(content[Console]))
  /\ UNCHANGED <<ended, items, opens, expected, bent>>

(* BYE says goodbye, and exit() writes out cout.                           *)
CPP_bye ==
  /\ Writes(FALSE) /\ ended' = TRUE /\ UNCHANGED opens
  /\ bent' = bent \cup (IF FileOutput THEN {"bye"} ELSE {})

-----------------------------------------------------------------------------
Init ==
  /\ pOutStream = Stream(Console, 0) /\ ended = FALSE /\ items = 0 /\ opens = 0
  /\ content = [p \in Places |-> <<>>] /\ expected = content /\ bent = {}

Next ==
  \/ CPP_emit \/ CPP_cr \/ Prompts \/ CPP_tofile_fails \/ CPP_console \/ CPP_bye
  \/ \E name \in Names : CPP_tofile(name)

Spec == Init /\ [][Next]_vars

-----------------------------------------------------------------------------
(* Properties *)

(* The console and every file that was left have just what was sent there, *)
(* in order and with nothing missing; the stream of the open file has the  *)
(* rest of what was sent to that one.                                      *)
OutputKept ==
  bent = {} =>
    \A p \in Places :
      expected[p] = content[p] \o (IF p = pOutStream.to THEN pOutStream.left ELSE <<>>)

===============================================================================
