---------------------------- MODULE MCUserMemory ----------------------------
(***************************************************************************)
(* Tables of four entries, three levels deep.  The stack is pages 16 and   *)
(* 17, under another second-level table than the pages a break can reach.  *)
(* The second program has a segment that maps a page of its first again,   *)
(* the third one that covers a page of the stack.                          *)
(***************************************************************************)
EXTENDS UserString

Pages(first, last) == [first |-> first, last |-> last]
MCPrograms ==
  {<<Pages(13, 13)>>,
   <<Pages(14, 14), Pages(13, 14)>>,
   <<Pages(13, 13), Pages(16, 16)>>}
=============================================================================
