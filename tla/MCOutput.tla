------------------------------- MODULE MCOutput -------------------------------
(* Output with model values for the files. *)
EXTENDS Output

===============================================================================
