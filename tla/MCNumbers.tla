------------------------------- MODULE MCNumbers -------------------------------
(* Numbers with the widths of the TLC runs. *)
EXTENDS Numbers

================================================================================
