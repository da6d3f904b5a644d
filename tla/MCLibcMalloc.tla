---------------------------- MODULE MCLibcMalloc ----------------------------
(***************************************************************************)
(* Three pages of four units; the largest size brings the break around the *)
(* word to the places below the heap, address 0 among them.                *)
(***************************************************************************)
EXTENDS LibcMalloc
=============================================================================
