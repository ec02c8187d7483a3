------------------------------ MODULE MCDevices ------------------------------
(* Devices for TLC: a character, the NUL that KEY? takes for no key, the   *)
(* rub-out and the end of a line.                                          *)
EXTENDS Devices

===============================================================================
