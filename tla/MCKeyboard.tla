----------------------------- MODULE MCKeyboard -----------------------------
(***************************************************************************)
(* A letter, a key with one character and one with none, and a keyboard    *)
(* that holds three codes.                                                 *)
(***************************************************************************)
EXTENDS Keyboard

MCKeys    == {"a", "space", "up"}
Table(letter, space) ==
  [k \in MCKeys |-> CASE k = "a" -> letter [] k = "space" -> space [] OTHER -> "none"]
MCPlain   == Table("a", " ")
MCShifted == Table("A", "none")
MCPrinted == Table("A", "none")
=============================================================================
