------------------------------- MODULE MCInput -------------------------------
(* Input for TLC.  Everything but REFILL in a word that waits for the end  *)
(* of its line, which gives up the line it read.                           *)
EXTENDS Input

HonestKinds == AllKinds \ {"refill"}

===============================================================================
