------------------------------ MODULE MCStrings ------------------------------
(* Strings for TLC: two letters and the blank, one digit. *)
EXTENDS Strings

===============================================================================
