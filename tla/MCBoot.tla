------------------------------- MODULE MCBoot -------------------------------
(***************************************************************************)
(* Blocks of two sectors, the least there are; block addresses in the      *)
(* range of the superblock's and at the end of those a drive can name.     *)
(***************************************************************************)
EXTENDS Boot

MCBlockLbas == {4, 13}
=============================================================================
