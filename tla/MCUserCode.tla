----------------------------- MODULE MCUserCode -----------------------------
(***************************************************************************)
(* What a program relies on before and beside the system calls: that it is *)
(* loaded from its file (ElfFile), and what the C library makes of strings *)
(* (CStrings) and formats (Format).  A behaviour is about one of the three.*)
(*                                                                         *)
(* A word of 12 values, six bytes of user memory in pages of two; a memory *)
(* of five bytes, in which areas overlap in all ways; a buffer for six     *)
(* characters, which three pieces of a format can fill and overrun.        *)
(***************************************************************************)
EXTENDS ElfFile, CStrings, Format

MCWords   == {<<>>, <<"a", "b">>, <<"a", "b", "c", "d", "e", "f", "g">>}
MCNumbers == {0, 7, 10, -12, 255, 1000}
MCRuin    == {[len |-> 0, out |-> <<>>], [len |-> 2, out |-> <<"?", "?">>]}

VARIABLE part

allVars == <<elfVars, mem, fmt, part>>

Init ==
  /\ part \in {"elf", "strings", "format"}
  /\ ElfInit /\ (part # "elf" => size = 0)
  /\ IF part = "strings" THEN StringsInit ELSE mem = <<>>
  /\ FormatInit

Next ==
  \/ part = "elf" /\ ElfNext /\ UNCHANGED <<mem, fmt, part>>
  \/ part = "strings" /\ StringsNext /\ UNCHANGED <<elfVars, fmt, part>>
  \/ part = "format" /\ FormatNext /\ UNCHANGED <<elfVars, mem, part>>

Spec == Init /\ [][Next]_allVars
=============================================================================
