----------------------------- MODULE UserString -----------------------------
(***************************************************************************)
(* copy_user_string (src/src/kernel/syscall.c): how sys_exec and sys_spawn *)
(* take a path from the program, byte by byte through the page tables of   *)
(* UserMemory, while the program may have put it anywhere and its pages    *)
(* may be in any frames.                                                   *)
(***************************************************************************)
EXTENDS UserMemory

CONSTANTS
  Cap,        \* the size of the buffer: 128
  UserLimit   \* USER_LIMIT: the first byte of the last page of the lower half

\* The stack is below the limit, and the limit not above the pages of the lower half.
ASSUME UserStringAssumption ==
  /\ Cap \in Nat \ {0}
  /\ UserLimit \in Nat /\ PageSize * StackTop <= UserLimit
  /\ (UserLimit - 1) \div PageSize \in UserPages

\* Addresses of user memory start behind page zero.
InUserMemory(a) == PageSize <= a /\ a < UserLimit

\* Mutant: the translation of the first page is used for all bytes.
PlaceOnce(src, a) == [frame |-> Translate(entry, cr3, src \div PageSize), at |-> a % PageSize]

\* Where the byte at a is in physical memory, of a string that starts at src.
Place(src, a) == [frame |-> Translate(entry, cr3, a \div PageSize), at |-> a % PageSize]

(***************************************************************************)
(* The copy of the string at src, whose zero is at end, from each byte on: *)
(* the places it has read, and whether it has come to the zero.  The last  *)
(* cell of the buffer is never filled from the program.                    *)
(***************************************************************************)
Copying(src, end) ==
  LET from[i \in 0 .. Cap - 1] ==
        IF i + 1 >= Cap \/ ~InUserMemory(src + i) \/ Place(src, src + i).frame = NONE
          THEN [ok |-> FALSE, read |-> <<>>]
        ELSE IF src + i = end
          THEN [ok |-> TRUE, read |-> <<Place(src, end)>>]
        ELSE [from[i + 1] EXCEPT !.read = <<Place(src, src + i)>> \o @]
  IN  from

CopyUserString(src, end) == Copying(src, end)[0]

-----------------------------------------------------------------------------
(* Properties *)

IsMapped(a) == Translate(entry, cr3, a \div PageSize) # NONE

\* A path is taken if and only if it ends before the last cell of the buffer and
\* is mapped as a whole, the program's own stack and what brk gave it alike; and
\* the bytes that are read are the program's own, each from where the CPU would
\* read it, and never of a frame that is free or a root of page tables.
PathIsTheCallers ==
  InUser =>
    \A src \in 0 .. UserLimit : \A end \in src .. src + Cap :
      LET copy == CopyUserString(src, end) IN
      /\ copy.ok <=> /\ end - src < Cap - 1
                     /\ \A a \in src .. end : InUserMemory(a) /\ IsMapped(a)
      /\ \A i \in DOMAIN copy.read :
           LET a == src + i - 1 IN
           /\ copy.read[i].frame \notin pool \cup {s.root : s \in spaces}
           /\ copy.read[i] = [frame |-> Translate(entry, cr3, a \div PageSize),
                              at |-> a % PageSize]
           /\ \A t \in tlb : t[1] = a \div PageSize => copy.read[i].frame = t[2]
=============================================================================
