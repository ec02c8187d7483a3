----------------------------- MODULE MCDictionary -----------------------------
(* Dictionary with the bounds of the TLC runs. *)
EXTENDS Dictionary

NameSymmetry == Permutations(Names)

(* A bound: not everything is at its largest at once, and a third word is  *)
(* made in the wordlists and the order of the start.                       *)
Weight(id) == 1 + Len(words[id].code) + Len(words[id].does)
Load == Len(line) + MapThenSumSet(Weight, DOMAIN words)
Small ==
  \/ Len(words) < 3 /\ 2 * (Len(wordlists) + Len(SearchOrder)) + Load <= 14
  \/ Len(wordlists) = 3 /\ SearchOrder = <<Forth, Root>> /\ pCompilationWL = Forth
     /\ Load <= 4

===============================================================================
