----------------------------- MODULE AssemblerMC -----------------------------
(***************************************************************************)
(* Small instances of the assembler for TLC.  The addresses are those of   *)
(* mem_image.h; the data segment stands at 0x10017ffc, as after 32K of     *)
(* data, where the next word is the first whose low half has its sign bit  *)
(* set, and the kernel's segments are brought below 2^31.                  *)
(***************************************************************************)
EXTENDS AssemblerReference

MCBot == [data |-> 268533756, kdata |-> 402653184, text |-> 4194340, ktext |-> 5242880]
MCGpBot == 268435456
MCGpEnd == 268500992

S(op, sym, n) == [op |-> op, sym |-> sym, n |-> n]

\* One file: labels before and after their uses, alignment and space, and every
\* instruction with a symbol, on labels of the text and of the data.
CodeStatements ==
  {S("segment", "data", 0), S("label", "a", 0), S("label", "b", 0), S("word", "a", 0),
   S("word", "b", 0), S("half", "a", 1), S("byte", NoName, 7), S("align", NoName, 0),
   S("space", NoName, 2), S("branch", "a", 0), S("jump", "a", 0), S("load", "b", 4),
   S("loadx", "b", 4), S("la", "b", 0)}

\* Two files: scope, and the directives that make symbols.
FileStatements ==
  {S("segment", "kdata", 0), S("globl", "a", 0), S("labeldir", "a", 0),
   S("label", "main", 0), S("word", "a", 0), S("word", "main", 0), S("extern", "a", 4),
   S("lcomm", "b", 4), S("lcomm", "b", 9), S("comm", "b", 4), S("word", "b", 0),
   S("assign", "b", 1) @@ [of |-> "a"], S("assign", NoName, 0) @@ [of |-> "b"]}

\* Room off gp: near $gp and farther from it than an immediate reaches.
GpStatements ==
  {S("extern", "a", 4), S("lcomm", "b", 4), S("labeldir", "b", 0), S("load", "a", 0),
   S("load", "a", 65536), S("loadx", "a", 4), S("load", "b", 163841), S("la", "b", 0),
   S("la", "a", 65536), S("la", "a", 98304), S("la", "b", 98308)}

MCFamilies == {CodeStatements, FileStatements, GpStatements}
=============================================================================
