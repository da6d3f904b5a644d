----------------------------- MODULE PageTables -----------------------------
(***************************************************************************)
(* The page tables of src/src/kernel/paging.c as operators: a tree of      *)
(* table frames of a given depth, in which paging_map_page_in sets a leaf  *)
(* and builds the tables that are missing on the way, from the frames of   *)
(* pmm.c.  Large pages appear only in the kernel's own mappings and are    *)
(* left out.                                                               *)
(***************************************************************************)
EXTENDS Integers

CONSTANTS
  Levels,       \* depth of the tree: 4
  Fanout,       \* entries of a table: 512
  Frames,       \* frames pmm.c gives out
  KernelRoot,   \* the PML4 the boot loader left
  KernelTable   \* a table its upper half points to

ASSUME PageTablesAssumption ==
  /\ Levels \in Nat \ {0, 1}
  /\ Fanout \in Nat \ {0, 1}
  /\ Frames \subseteq Nat \ {0, KernelRoot, KernelTable}
  /\ KernelRoot \in Nat \ {0}
  /\ KernelTable \in Nat \ {0, KernelRoot}

NONE      == 0                    \* an entry that is not present
Indices   == 0 .. Fanout - 1
Tables    == Frames \cup {KernelRoot, KernelTable}
Entries   == [Tables -> [Indices -> Tables \cup {NONE}]]
EmptyPage == [i \in Indices |-> NONE]

\* The pages that an entry of a table of level n + 1 maps.
Span[n \in 0 .. Levels] == IF n = 0 THEN 1 ELSE Fanout * Span[n - 1]

\* Pages in the lower half of an address space: all that is below USER_LIMIT.
UserPages == 0 .. (Fanout \div 2) * Span[Levels - 1] - 1

\* The frame pmm_alloc_page returns.
Lowest(pool) == CHOOSE f \in pool : \A g \in pool : f <= g

\* The index of page va in a table of level n; level 1 holds the leaves.
Index(va, n) == (va \div Span[n - 1]) % Fanout

(***************************************************************************)
(* A walk in progress: the free frames, the entries of all tables, the     *)
(* table it has come to, and whether it could go on.                       *)
(***************************************************************************)
Walk(pool, entry, node) == [pool |-> pool, entry |-> entry, node |-> node, ok |-> TRUE]

\* Mutant: the frame of a new table stays free.
LinkFree(w, i, t) ==
  [w EXCEPT !.entry = [@ EXCEPT ![t] = EmptyPage, ![w.node][i] = t], !.node = t]

\* Put the new table t at index i of the walk's table, and go there.
Link(w, i, t) ==
  [w EXCEPT !.pool = @ \ {t},
            !.entry = [@ EXCEPT ![t] = EmptyPage, ![w.node][i] = t],
            !.node = t]

\* One level down; a missing table is allocated, zeroed and put in place.
Down(w, i) ==
  IF ~w.ok THEN w
  ELSE IF w.entry[w.node][i] # NONE THEN [w EXCEPT !.node = w.entry[w.node][i]]
  ELSE IF w.pool = {} THEN [w EXCEPT !.ok = FALSE]
  ELSE Link(w, i, Lowest(w.pool))

\* The walk to the last table of page va: where it is at each level.
Walks(pool, entry, root, va) ==
  LET at[n \in 1 .. Levels] ==
        IF n = Levels THEN Walk(pool, entry, root)
        ELSE Down(at[n + 1], Index(va, n + 1))
  IN  at

\* paging_map_page_in: the walk, and the leaf of page va.  A walk that fails
\* keeps the tables it has built.
MapPage(pool, entry, root, va, frame) ==
  LET last == Walks(pool, entry, root, va)[1]
  IN  IF last.ok THEN [last EXCEPT !.entry[last.node][Index(va, 1)] = frame] ELSE last

\* The tables on the way to page va, and its frame at the end; NONE behind an
\* entry that is not present.
Path(entry, root, va) ==
  LET at[n \in 0 .. Levels] ==
        IF n = Levels THEN root
        ELSE IF at[n + 1] = NONE THEN NONE
        ELSE entry[at[n + 1]][Index(va, n + 1)]
  IN  at

\* The frame of page va, NONE if it is not mapped (paging_virt_to_phys).
Translate(entry, root, va) == Path(entry, root, va)[0]
=============================================================================
