-------------------------------- MODULE Boot --------------------------------
(***************************************************************************)
(* kmain (src/src/kernel/main.c): the order in which the kernel sets itself *)
(* up, the three places it looks for init in, the kernel shell it falls    *)
(* back to, and the first system call of what it enters.  Page frames are  *)
(* counted: what a step takes is not given back when the step fails, and a *)
(* step fails for want of frames only when it has taken all of them.  The  *)
(* disk is read through the driver of Ata, whose steps are steps of kmain.  *)
(***************************************************************************)
EXTENDS Ata

CONSTANTS
  SuperLba,      \* the first of the two sectors of the superblock
  BlockLbas,     \* where the blocks of /bin/init and its directories are
  BlockSectors,  \* sectors of a block
  MaxReads,      \* bound: blocks read on the way to the file
  MaxFrames,     \* page frames a machine has, at most
  HeapFrames,    \* frames heap_init asks for
  SpaceFrames,   \* frames of a PML4, a stack and its tables
  ReadFrames,    \* frames the heap needs, next to its own, to read a file
  LoadFrames     \* frames of a loaded program

ASSUME BootAssumption ==
  /\ SuperLba \in Nat /\ BlockLbas \subseteq Nat /\ MaxReads \in Nat \ {0}
  /\ {2, BlockSectors} \subseteq 1 .. MaxCount
  /\ \A lba \in BlockLbas \cup {SuperLba} : lba + MaxCount <= LbaLimit
  /\ {MaxFrames, HeapFrames, SpaceFrames, ReadFrames, LoadFrames} \subseteq Nat

Programs == {"bad", "good"}      \* what elf_load says of a file
Sources  == <<"disk", "module", "embedded">>

\* What the boot loader hands over and what is on the disk: no ext2, no
\* /bin/init, or a program.
Machines ==
  [framebuffer : BOOLEAN, memmap : BOOLEAN, frames : 0 .. MaxFrames,
   disk : {"no_ext2", "no_init"} \cup Programs,
   module : {"absent"} \cup Programs,
   embedded : Programs]

VARIABLES
  machine,
  pc,         \* the part of kmain that is next, or what runs in its place
  reads,      \* blocks read on the way to /bin/init
  frames,     \* page frames left
  cr3,        \* whose page tables: the boot loader's or the new space
  rsp0,       \* the stack of the next trap: none, kmain's or the process's
  idt,        \* whether the descriptor tables are loaded
  rootfs,     \* whether there is a file system for spawn and exec
  loaded,     \* the source that was loaded, or "none"
  program,    \* the source entry and brk belong to, or "none"
  current     \* whether there is a current process

bootVars == <<machine, pc, reads, frames, cr3, rsp0, idt, rootfs, loaded, program, current>>
vars     == <<bootVars, ataVars>>

Init ==
  /\ machine \in Machines
  /\ AtaInit
  /\ drive.kind # "drive" => machine.disk = "no_ext2"
  /\ pc = "start"
  /\ reads = 0
  /\ frames = 0
  /\ cr3 = "limine" /\ rsp0 = "none" /\ idt = FALSE
  /\ rootfs = FALSE
  /\ loaded = "none" /\ program = "none"
  /\ current = FALSE

\* Frames left after a step that needs n.
Left(n) == IF n <= frames THEN frames - n ELSE 0

-----------------------------------------------------------------------------
(* The kernel sets itself up *)

NoFramebuffer ==
  /\ pc = "start"
  /\ ~machine.framebuffer
  /\ pc' = "halted"
  /\ UNCHANGED <<machine, reads, frames, cr3, rsp0, idt, rootfs, loaded, program, current, ataVars>>

\* gdt_init, tss_set_rsp0, idt_init, pmm_init, heap_init and process_init; the
\* kernel goes on when the heap gets less than it asks for.
SetUp ==
  /\ pc = "start"
  /\ machine.framebuffer
  /\ rsp0' = "kmain"
  /\ idt' = TRUE
  /\ frames' = IF machine.memmap /\ HeapFrames <= machine.frames
                 THEN machine.frames - HeapFrames ELSE 0
  /\ pc' = "space"
  /\ UNCHANGED <<machine, reads, cr3, rootfs, loaded, program, current, ataVars>>

CreateSpace ==
  /\ pc = "space"
  /\ frames' = Left(SpaceFrames)
  /\ IF SpaceFrames <= frames
       THEN cr3' = "user" /\ pc' = "disk"
       ELSE pc' = "shell" /\ UNCHANGED cr3
  /\ UNCHANGED <<machine, reads, rsp0, idt, rootfs, loaded, program, current, ataVars>>

-----------------------------------------------------------------------------
(* init is looked for *)

\* What follows each source.
After(source) == CASE source = "disk"     -> "module"
                   [] source = "module"   -> "embedded"
                   [] source = "embedded" -> "decide"

\* try_load_elf: entry and brk are written when it succeeds; a file may be
\* refused after some of it was mapped.
TryLoad(source, file, room) ==
  LET ok == file = "good" /\ LoadFrames <= room IN
  /\ IF file = "bad" THEN frames' \in 0 .. room
     ELSE frames' = IF ok THEN room - LoadFrames ELSE 0
  /\ loaded' = IF ok THEN source ELSE "none"
  /\ program' = IF ok THEN source ELSE program
  /\ pc' = After(source)

ProbeDisk ==
  /\ pc = "disk"
  /\ Probe
  /\ pc' = IF driver' = "absent" THEN After("disk") ELSE "mount"
  /\ UNCHANGED <<machine, reads, frames, cr3, rsp0, idt, rootfs, loaded, program, current>>

ReadSuper ==
  /\ pc = "mount"
  /\ Start(SuperLba, 2)
  /\ UNCHANGED bootVars

\* The driver at work.
DiskStep == AtaStep /\ UNCHANGED bootVars

\* The superblock cannot be read, or is none.
NotMounted ==
  /\ pc = "mount"
  /\ Done
  /\ driver = "failed" \/ machine.disk = "no_ext2"
  /\ Return
  /\ pc' = After("disk")
  /\ UNCHANGED <<machine, reads, frames, cr3, rsp0, idt, rootfs, loaded, program, current>>

\* ext2_mount has found a file system: it is kept, whatever is read from it.
Mounted ==
  /\ pc = "mount"
  /\ driver = "done"
  /\ machine.disk # "no_ext2"
  /\ Return
  /\ rootfs' = TRUE
  /\ pc' = "file"
  /\ UNCHANGED <<machine, reads, frames, cr3, rsp0, idt, loaded, program, current>>

\* ext2_read_file on its way to the file, block by block.
ReadBlock ==
  /\ pc = "file"
  /\ reads < MaxReads
  /\ \E lba \in BlockLbas : Start(lba, BlockSectors)
  /\ reads' = reads + 1
  /\ UNCHANGED <<machine, pc, frames, cr3, rsp0, idt, rootfs, loaded, program, current>>

GotBlock ==
  /\ pc = "file"
  /\ driver = "done"
  /\ Return
  /\ UNCHANGED bootVars

\* Between two reads, or with all of them done.
Looked == driver = "idle" /\ reads > 0

\* A block cannot be read, or /bin/init is not there.
Unreadable ==
  /\ pc = "file"
  /\ \/ driver = "failed"
     \/ Looked /\ machine.disk = "no_init"
  /\ Return
  /\ frames' \in IF machine.disk = "no_init" THEN {frames} ELSE {frames, Left(ReadFrames)}
  /\ pc' = After("disk")
  /\ UNCHANGED <<machine, reads, cr3, rsp0, idt, rootfs, loaded, program, current>>

\* There is no memory to read it into: kmalloc fails, and the heap has got all
\* the frames that were left.
NoBuffer ==
  /\ pc = "file"
  /\ driver = "idle"
  /\ machine.disk \in Programs
  /\ frames < ReadFrames
  /\ frames' = 0
  /\ pc' = After("disk")
  /\ UNCHANGED <<machine, reads, cr3, rsp0, idt, rootfs, loaded, program, current, ataVars>>

\* The buffer /bin/init was read into is never given back.
LoadDisk ==
  /\ pc = "file"
  /\ Looked
  /\ machine.disk \in Programs
  /\ ReadFrames <= frames
  /\ TryLoad("disk", machine.disk, frames - ReadFrames)
  /\ UNCHANGED <<machine, reads, cr3, rsp0, idt, rootfs, current, ataVars>>

\* Mutant: a source is tried although an earlier one was loaded.
WantedAlways(source) == pc = source

\* A later source is tried when no earlier one was loaded.
Wanted(source) == pc = source /\ loaded = "none"

SkipModule ==
  /\ pc = "module"
  /\ ~Wanted("module") \/ machine.module = "absent"
  /\ pc' = After("module")
  /\ UNCHANGED <<machine, reads, frames, cr3, rsp0, idt, rootfs, loaded, program, current, ataVars>>

LoadModule ==
  /\ Wanted("module")
  /\ machine.module # "absent"
  /\ TryLoad("module", machine.module, frames)
  /\ UNCHANGED <<machine, reads, cr3, rsp0, idt, rootfs, current, ataVars>>

SkipEmbedded ==
  /\ pc = "embedded"
  /\ ~Wanted("embedded")
  /\ pc' = After("embedded")
  /\ UNCHANGED <<machine, reads, frames, cr3, rsp0, idt, rootfs, loaded, program, current, ataVars>>

LoadEmbedded ==
  /\ Wanted("embedded")
  /\ TryLoad("embedded", machine.embedded, frames)
  /\ UNCHANGED <<machine, reads, cr3, rsp0, idt, rootfs, current, ataVars>>

-----------------------------------------------------------------------------
(* User mode *)

\* No source was loaded: the kernel shell is entered instead, in user mode.
FallBack ==
  /\ pc = "decide"
  /\ loaded = "none"
  /\ pc' = "shell"
  /\ UNCHANGED <<machine, reads, frames, cr3, rsp0, idt, rootfs, loaded, program, current, ataVars>>

\* Mutant: the next trap uses the stack of kmain.
BootstrapWithoutRsp0 ==
  /\ current' = TRUE
  /\ UNCHANGED rsp0

\* process_bootstrap in the empty process table.
Bootstrap ==
  /\ current' = TRUE
  /\ rsp0' = "process"

EnterInit ==
  /\ pc = "decide"
  /\ loaded # "none"
  /\ Bootstrap
  /\ pc' = "init"
  /\ UNCHANGED <<machine, reads, frames, cr3, idt, rootfs, loaded, program, ataVars>>

\* The first system call; that of the shell writes its prompt.  The handler
\* stores the trap frame in the current process: without one it writes to page
\* 0, which is not mapped, and the fault halts the machine.
FirstCall ==
  /\ pc \in {"init", "shell"}
  /\ pc' = IF idt /\ current THEN "runs" ELSE "faulted"
  /\ UNCHANGED <<machine, reads, frames, cr3, rsp0, idt, rootfs, loaded, program, current, ataVars>>

Stopped ==
  /\ pc \in {"halted", "faulted", "runs"}
  /\ UNCHANGED vars

Kmain ==
  \/ NoFramebuffer \/ SetUp \/ CreateSpace
  \/ ProbeDisk \/ ReadSuper \/ DiskStep \/ NotMounted \/ Mounted
  \/ ReadBlock \/ GotBlock \/ Unreadable \/ NoBuffer \/ LoadDisk
  \/ SkipModule \/ LoadModule \/ SkipEmbedded \/ LoadEmbedded
  \/ FallBack \/ EnterInit \/ FirstCall

\* The drive works beside kmain, which may be polling it in vain.
Drive == DriveStep /\ UNCHANGED bootVars
Poll  == Waits /\ UNCHANGED vars

Next == Kmain \/ Drive \/ Poll \/ Stopped

\* The kernel is alone on the CPU, and a drive gets on with its work.
Spec == Init /\ [][Next]_vars /\ WF_vars(Kmain) /\ WF_vars(Drive)

-----------------------------------------------------------------------------
(* Properties *)

Range(f) == {f[i] : i \in DOMAIN f}

TypeOK ==
  /\ AtaTypeOK
  /\ machine \in Machines
  /\ pc \in {"start", "space", "mount", "file", "decide", "shell", "init", "runs",
             "halted", "faulted"} \cup Range(Sources)
  /\ reads \in 0 .. MaxReads
  /\ frames \in 0 .. machine.frames
  /\ cr3 \in {"limine", "user"} /\ rsp0 \in {"none", "kmain", "process"}
  /\ {idt, rootfs, current} \subseteq BOOLEAN
  /\ {loaded, program} \subseteq Range(Sources) \cup {"none"}

\* Whatever was tried and failed before, init starts as a process, in the space
\* it was loaded into, with the entry point and the break of its own file, and
\* with descriptor tables and a stack for its system calls; and it can spawn
\* programs whenever there is a file system that can be read, even one it was
\* not loaded from.
InitIsProcess ==
  /\ TypeOK
  /\ pc = "init" => /\ cr3 = "user" /\ rsp0 = "process" /\ idt /\ current
                    /\ program = loaded
                    /\ machine.disk # "no_ext2" /\ ~drive.faulty => rootfs

\* The programs there are, in the order of preference.
Candidate(source) ==
  CASE source = "disk"     -> machine.disk = "good" /\ ~drive.faulty
    [] source = "module"   -> machine.module = "good"
    [] source = "embedded" -> machine.embedded = "good"

\* The file system comes before the module, and the module before what is in the
\* kernel; a good source is passed over only when no frame is left.  The disk of a
\* drive that is only slow counts as good.
FirstGoodSource ==
  pc \in {"decide", "init"} =>
    \A i \in 1 .. 3 : Candidate(Sources[i]) =>
      \/ \E j \in 1 .. i : loaded = Sources[j]
      \/ frames = 0

Ended == pc \in {"runs", "halted", "faulted"}

\* The boot comes to its end, if there is a drive that does not fail after it was
\* late, or no drive on a bus that floats: the polling loops need no timeout for
\* these.  They do for the others: a bus that reads 0 is taken for a drive, whose
\* data the driver then awaits for ever, and init is sought nowhere else.
BootEnds == drive.kind # "zero" /\ ~(drive.late /\ drive.faulty) => <>Ended

\* When init cannot be loaded the kernel shell is used: "elf: load failed! using
\* kernel shell" (main.c:184), "falling back to kernel shell" (main.c:127).
ShellAnswers == pc # "faulted"
=============================================================================
