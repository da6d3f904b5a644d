----------------------------- MODULE UserMemory -----------------------------
(***************************************************************************)
(* User address spaces: paging_create_user_as (src/src/kernel/paging.c),   *)
(* elf_load and elf_brk (src/src/kernel/elf.c), with the page tables they  *)
(* build from the frames of pmm.c and the TLB of the CPU.  Each of them    *)
(* maps pages one at a time and may run out of frames at any of them; what *)
(* it has mapped then stays.  A page holds PageSize units of address.      *)
(***************************************************************************)
EXTENDS PageTables, Sequences, FiniteSets

CONSTANTS
  PageSize,     \* units of address in a page
  StackTop,     \* USER_STACK_VIRT, as a page number
  StackPages,   \* USER_STACK_PAGES
  Sources,      \* places the boot loads init from, one after the other: 3
  Programs      \* programs, each a sequence of segments [first, last] of pages

Segment == {s \in [first : UserPages \ {0}, last : UserPages] : s.first <= s.last}

ASSUME UserMemoryAssumption ==
  /\ PageSize \in Nat \ {0}
  /\ StackTop \in UserPages
  /\ StackPages \in 1 .. StackTop
  /\ Sources \in Nat \ {0}
  /\ Programs \subseteq Seq(Segment)

StackBottom == StackTop - StackPages
Stack       == StackBottom .. StackTop - 1

VARIABLES
  pool,         \* frames pmm.c still has
  entry,        \* every table's entries
  spaces,       \* the PML4s of processes, each with its brk_start and brk
  cr3,
  tlb,          \* a translation the CPU remembers: at most one pair of page and frame
  job           \* the operation under way

vars == <<pool, entry, spaces, cr3, tlb, job>>

(***************************************************************************)
(* An operation maps the pages next .. last of the space root, then goes   *)
(* on with the segments of todo.                                           *)
(***************************************************************************)
Idle == [op |-> "idle", root |-> NONE, next |-> 0, last |-> 0, todo |-> <<>>,
         brk |-> 0, source |-> 0]

\* Until kmain has loaded init there is no process.
Boot    == spaces = {}
Fresh   == job = Idle /\ cr3 = KernelRoot /\ pool = Frames
InUser  == job.op = "idle" /\ ~Boot

PageUp(a) == (a + PageSize - 1) \div PageSize

-----------------------------------------------------------------------------
(* paging_create_user_as: the first half of spawn, exec and boot *)

\* The new PML4 has the upper half of the PML4 in use.
UpperHalf(from) == [i \in Indices |-> IF i >= Fanout \div 2 THEN entry[from][i] ELSE NONE]

CreateSpace ==
  /\ InUser \/ Fresh
  /\ pool # {}
  /\ LET root == Lowest(pool) IN
       /\ pool' = pool \ {root}
       /\ entry' = [entry EXCEPT ![root] = UpperHalf(cr3)]
       /\ job' = [Idle EXCEPT !.op = "stack", !.root = root,
                              !.next = StackBottom, !.last = StackTop - 1,
                              !.source = IF Boot THEN 0 ELSE Sources - 1]
  /\ UNCHANGED <<spaces, cr3, tlb>>

\* There is no frame for a PML4: the caller gets an error.
CreateRefused ==
  /\ InUser \/ Fresh
  /\ pool = {}
  /\ UNCHANGED vars

\* kmain could not load init from any source and runs the kernel's own shell.
KernelShell ==
  /\ Boot /\ job.op = "idle" /\ ~Fresh
  /\ UNCHANGED vars

-----------------------------------------------------------------------------
(* What the three operations share: one more page *)

Mapping == job.op \in {"stack", "load", "brk"} /\ job.next <= job.last

\* The walk for the next page, with a fresh frame for it.
Mapped == LET f == Lowest(pool) IN MapPage(pool \ {f}, entry, job.root, job.next, f)

\* Mutant: no invlpg.
NoInvlpg(va) == tlb' = tlb

\* invlpg forgets the page in the address space in use.
Invlpg(va) == tlb' = {t \in tlb : t[1] # va}

\* A program is loaded into the new space, from its first segment on.  At boot
\* sources that are missing or refused before anything is mapped are passed.
LoadSource ==
  \E p \in Programs, n \in job.source + 1 .. Sources :
    job' = [Idle EXCEPT !.op = "load", !.root = job.root, !.next = 1, !.last = 0,
                        !.todo = p, !.source = n]

\* A page cannot be mapped, or the file is refused: the caller gets an error,
\* and at boot the next source is loaded over what this one left.
Fail == job' = Idle \/ (job.op = "load" /\ LoadSource)

MapNext ==
  /\ Mapping
  /\ pool # {}
  /\ Mapped.ok
  /\ pool' = Mapped.pool
  /\ entry' = Mapped.entry
  /\ Invlpg(job.next)
  /\ job' = [job EXCEPT !.next = @ + 1]
  /\ UNCHANGED <<spaces, cr3>>

\* No frame for the page: the operation ends there.
NoFrame ==
  /\ Mapping
  /\ pool = {}
  /\ Fail
  /\ UNCHANGED <<pool, entry, spaces, cr3, tlb>>

\* No frame for a table: the page's own frame and the tables built are lost.
NoTable ==
  /\ Mapping
  /\ pool # {}
  /\ ~Mapped.ok
  /\ pool' = Mapped.pool
  /\ entry' = Mapped.entry
  /\ Fail
  /\ UNCHANGED <<spaces, cr3, tlb>>

-----------------------------------------------------------------------------
(* elf_load *)

\* The stack is there; kmain enters the new space before it loads init.
Load ==
  /\ job.op = "stack"
  /\ job.next > job.last
  /\ LoadSource
  /\ IF Boot THEN cr3' = job.root /\ tlb' = {} ELSE UNCHANGED <<cr3, tlb>>
  /\ UNCHANGED <<pool, entry, spaces>>

Between == job.op = "load" /\ job.next > job.last

NextSegment ==
  /\ Between
  /\ job.todo # <<>>
  /\ LET s   == Head(job.todo)
         end == (s.last + 1) * PageSize
     IN  job' = [job EXCEPT !.next = s.first, !.last = s.last, !.todo = Tail(@),
                            !.brk = IF end > @ THEN end ELSE @]
  /\ UNCHANGED <<pool, entry, spaces, cr3, tlb>>

Loaded == Between /\ job.todo = <<>>

Space(root, brk) == [root |-> root, start |-> brk, brk |-> brk]

\* The file is refused: its header, its next segment or its entry point.
BadElf ==
  /\ Between
  /\ Fail
  /\ UNCHANGED <<pool, entry, spaces, cr3, tlb>>

\* sys_spawn: the space waits for its process to be switched to.
Spawn ==
  /\ Loaded
  /\ ~Boot
  /\ spaces' = spaces \cup {Space(job.root, job.brk)}
  /\ job' = Idle
  /\ UNCHANGED <<pool, entry, cr3, tlb>>

\* sys_exec, and process_bootstrap: the space replaces the one in use, whose
\* frames are lost.
Exec ==
  /\ Loaded
  /\ spaces' = {s \in spaces : s.root # cr3} \cup {Space(job.root, job.brk)}
  /\ cr3' = job.root
  /\ tlb' = {}
  /\ job' = Idle
  /\ UNCHANGED <<pool, entry>>

\* process_switch: sys_wait and sys_exit resume another process.
Switch(s) ==
  /\ InUser
  /\ s.root # cr3
  /\ cr3' = s.root
  /\ tlb' = {}
  /\ UNCHANGED <<pool, entry, spaces, job>>

\* sys_exit: the space that was in use is never entered again.
Exit(s) ==
  /\ InUser
  /\ s.root # cr3
  /\ spaces' = {t \in spaces : t.root # cr3}
  /\ cr3' = s.root
  /\ tlb' = {}
  /\ UNCHANGED <<pool, entry, job>>

-----------------------------------------------------------------------------
(* elf_brk *)

Mine == CHOOSE s \in spaces : s.root = cr3

SetBrk(addr) ==
  spaces' = (spaces \ {Mine}) \cup {[Mine EXCEPT !.brk = addr]}

\* The addresses a break may be moved to.
BelowStack(addr) == addr < StackBottom * PageSize

\* Mutant: growth starts at the page the break is in.
FirstPageDown(brk) == brk \div PageSize

\* Mutant: growth starts after the page that follows the break.
FirstPageSkips(brk) == brk \div PageSize + 1

\* The first page a growing break has not mapped yet.
FirstPage(brk) == PageUp(brk)

\* The break cannot be moved there: elf_brk returns the old one.
BrkRefused(addr) ==
  /\ InUser
  /\ addr = 0 \/ addr < Mine.start \/ ~BelowStack(addr)
  /\ UNCHANGED vars

BrkDown(addr) ==
  /\ InUser
  /\ addr # 0 /\ Mine.start <= addr /\ addr <= Mine.brk /\ BelowStack(addr)
  /\ SetBrk(addr)
  /\ UNCHANGED <<pool, entry, cr3, tlb, job>>

BrkUp(addr) ==
  /\ InUser
  /\ Mine.start <= addr /\ Mine.brk < addr /\ BelowStack(addr)
  /\ job' = [Idle EXCEPT !.op = "brk", !.root = cr3, !.brk = addr,
                       !.next = FirstPage(Mine.brk), !.last = PageUp(addr) - 1]
  /\ UNCHANGED <<pool, entry, spaces, cr3, tlb>>

BrkDone ==
  /\ job.op = "brk"
  /\ job.next > job.last
  /\ SetBrk(job.brk)
  /\ job' = Idle
  /\ UNCHANGED <<pool, entry, cr3, tlb>>

-----------------------------------------------------------------------------
\* The program touches a page: the CPU may remember its translation.  Entries of
\* the TLB do not depend on each other, so the model follows one, any one.
Touch(va) ==
  /\ InUser
  /\ Translate(entry, cr3, va) # NONE
  /\ tlb' = {<<va, Translate(entry, cr3, va)>>}
  /\ UNCHANGED <<pool, entry, spaces, cr3, job>>

Init ==
  /\ pool = Frames
  /\ entry = [t \in Tables |->
       IF t = KernelRoot
         THEN [i \in Indices |-> IF i >= Fanout \div 2 THEN KernelTable ELSE NONE]
         ELSE EmptyPage]
  /\ spaces = {}
  /\ cr3 = KernelRoot
  /\ tlb = {}
  /\ job = Idle

Addresses == 0 .. (StackTop + 1) * PageSize

Next ==
  \/ CreateSpace \/ CreateRefused \/ KernelShell
  \/ MapNext \/ NoFrame \/ NoTable
  \/ Load \/ NextSegment \/ BadElf \/ Spawn \/ Exec
  \/ \E s \in spaces : Switch(s) \/ Exit(s)
  \/ \E addr \in Addresses : BrkRefused(addr) \/ BrkDown(addr) \/ BrkUp(addr)
  \/ BrkDone
  \/ \E va \in UserPages : Touch(va)

Spec == Init /\ [][Next]_vars

-----------------------------------------------------------------------------
(* Properties *)

TypeOK ==
  /\ pool \subseteq Frames
  /\ entry \in Entries
  /\ spaces \subseteq [root : Frames, start : Nat, brk : Nat]
  /\ cr3 \in Tables
  /\ tlb \subseteq UserPages \X Frames
  /\ job.op \in {"idle", "stack", "load", "brk"}
  /\ job.next \in Nat /\ job.last \in UserPages

\* The places that refer to a frame: entries of tables.
References(f) == {r \in Frames \X Indices : entry[r[1]][r[2]] = f}

\* A frame is in one place: free, a process's root, or referred to by one
\* entry.  So no page of one program is a page, or a page table, of another.
Exclusive ==
  /\ TypeOK
  /\ \A f \in Frames :
       /\ Cardinality(References(f)) <= 1
       /\ f \in pool \cup {s.root : s \in spaces} => References(f) = {}
       /\ f \in pool => \A s \in spaces : s.root # f

\* What brk says a program may use is mapped, however often the break went up
\* and down and wherever memory ran out.
HeapMapped ==
  \A s \in spaces : \A va \in s.start \div PageSize .. PageUp(s.brk) - 1 :
    Translate(entry, s.root, va) # NONE

Least(m, n) == IF m < n THEN m ELSE n

\* A program keeps its pages, with what is in them: its stack, and all that is
\* below its break, however it moves the break and wherever memory runs out.
PagesKept ==
  [][\A s \in spaces, t \in spaces' : s.root = t.root =>
       \A va \in Stack \cup 0 .. PageUp(Least(s.brk, t.brk)) - 1 :
         Translate(entry', s.root, va) = Translate(entry, s.root, va)]_vars

\* The CPU remembers no translation that the tables no longer have.
TlbCoherent ==
  job.op = "idle" => \A t \in tlb : Translate(entry, cr3, t[1]) = t[2]
=============================================================================
