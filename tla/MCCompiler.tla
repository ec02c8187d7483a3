------------------------------ MODULE MCCompiler ------------------------------
(* Compiler with the sources of the TLC runs. *)
EXTENDS Compiler

StructureWords == (Controls \ {"RECURSE", "ABORT\""})
                    \cup {"LOOP", "UNLOOP", ":", ";", "['] unknown"}
LiteralWords == Literals \cup (Compileds \ {"number", "word"})
StreamWords == {"IF", "THEN", "number", "macro", "unknown", "RECURSE",
                "ABORT\"", "[", "]", ":", ";", "COMPILE,", "CREATE", "INCLUDE"} \cup LiteralWords

(* A bound: interpreted lines are short, and so are definitions whose      *)
(* structures cross.                                                       *)
MostlyNested ==
  /\ def.phase = "none" => Len(ops[Main]) <= 4 /\ Len(nest) <= 1
  /\ nest = Crossed \/ "['] unknown" \in Range(written) => Len(written) <= 4

(* A bound: a definition with a literal or a word of the program, besides  *)
(* a number, is short and in one stream, and so is code that runs at once. *)
LiteralsAlone ==
  /\ Range(written) \cap LiteralWords # {} => Len(written) <= 2 /\ Depth = 1
  /\ ~State /\ (\E k \in DOMAIN ops[Top.pOpCodes] :
                  ops[Top.pOpCodes][k].op \in {"FVAL", "2VAL", "ADDR", "DEFINITION"})
       => written = <<>> /\ Depth = 1 /\ Len(ops[Top.pOpCodes]) = 1

===============================================================================
