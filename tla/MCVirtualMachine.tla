--------------------------- MODULE MCVirtualMachine ---------------------------
(* VirtualMachine with model values for the program points. *)
EXTENDS VirtualMachine

(* The bound of the runs with callbacks: follow programs only for as long  *)
(* as they keep the usage rules of the return stack.                       *)
Honest == honest

===============================================================================
