# Verification of Uorix

Uorix is a small Unix-like operating system for x86-64: a kernel with user
processes, page tables, a heap, an ext2 reader and a console, and a user land of a C
library, a shell and some programs.  This directory holds TLA+ models of it, TLC
configurations that check the models on small instances, and TLAPS proofs about all
of them for every instance.  Paths below are relative to the directory of the source
tree that holds `README.md` and `src/`.

- [The system](#the-system): what it is made of, what is hard about it
- [The modules](#the-modules): how each model corresponds to the code
- [The runs](#the-runs): what is checked, with which bounds
- [The proofs](#the-proofs): what is proved and how
- [Where code and text disagree](#where-code-and-text-disagree)
- [Not modelled](#not-modelled)
- [Plan](#plan)

To check a run: `tlc -config MCProcess.cfg MCProcess`; a proof: `tlapm
ProcessProofs.tla`.

## The system

### How it runs

There is one CPU.  The IDT has one working entry, the interrupt gate of vector 0x80,
which clears IF; every other vector goes to `isr_null`, which halts.  Programs run
with IF set, but the boot loader hands over with the interrupts of devices masked
and nothing unmasks one; keyboard and disk are polled.  So the kernel is never
preempted, **a system call is atomic** with respect to other programs, a program
runs until it makes a call, and one that faults halts the machine.  There is **no
scheduler**: a spawned program first runs when its parent calls `wait` for it, and
the parent goes on when it calls `exit`.

What interleaves, then, is not two instruction streams but long sequences of calls
by several programs, operations of many steps that may fail at each of them and
leave their traces, and state in several places that has to change together: the
process table, the kernel stacks, CR3, TSS.RSP0, page tables, the TLB, the physical
bitmap and its counter, free lists.

### Components

| component | state | operations | talks to |
|---|---|---|---|
| Process table, `kernel/process.c`, `kernel/syscall.c` | `processes[16]`, `current_process`, `next_pid`, a kernel stack per slot | `spawn`, `wait`, `exit`, `exec`, `getpid`, `brk`, ... by int 0x80 | page tables (new spaces, CR3), ELF loader, ext2, TSS |
| Trap entry and return, `isr.asm`, `user_entry.asm`, `gdt.c`, `idt.c` | GDT, IDT, TSS.RSP0 | push the user registers, call `syscall_handler`, pop the frame it returns | process table |
| Physical memory, `pmm.c` | bitmap, `free_count` | `pmm_init`, `pmm_alloc_page`, `pmm_free_page` | boot loader's memory map |
| Kernel heap, `heap.c` | address-ordered free list | `heap_init`, `kmalloc`, `kfree` | physical memory, page by page |
| Page tables, `paging.c` | four-level tables, TLB | create a space, map a page, translate, load CR3 | physical memory |
| ELF loader and break, `elf.c` | the headers of a file; `brk_start` and `brk` of a process | `elf_load`, `elf_brk` | page tables |
| Boot, `main.c`, `entry.asm`, `init_elf.asm` | the sources of init | try init from ext2, from a boot module, from the kernel image; else the kernel shell | all of the above |
| ext2, `fs/ext2.c` | the mounted `ext2_fs`; buffers on the heap | `ext2_mount`, `ext2_read_file` | heap, disk |
| ATA, `ata.c` | `ata_present` | `ata_init`, `ata_read_sectors`, by polling | the drive |
| Keyboard, `driver/keyboard.c` | a shift flag | `keyboard_getc`, by polling | the 8042 |
| Renderer, `renderer.c` | cursor, background | `render_putc`, `render_clear` | frame buffer, serial port |
| Kernel shell, `shell/shell.c` | a line | the fallback without init | keyboard, renderer, in ring 3 |
| C library | `free_list`, `errno` | `malloc`, `free`, `realloc`, `sbrk`, stdio, strings | system calls |
| Shell and programs, `userland/` | a line | `run`, `exec`, `echo`, ... | C library |

### What is hard to get right

- *A switch is spread over five places.*  `process_switch` (process.c:140-150) sets
  the state, `current_process`, TSS.RSP0 and CR3 and returns a frame that
  `isr_syscall` pops; `sys_exec` and the boot do the same in their own way.  A
  parent's registers wait on its kernel stack while the child, and the children of
  the child, trap and exit.
- *Statuses.*  A child may have ended before its parent asks, or end while the
  parent waits; slots and pids come and go in between.
- *Partial failure.*  `spawn`, `exec`, boot and `brk` build address spaces a page at
  a time and can run out of frames at each page and at each table of the walk. What
  they built stays; nothing is ever unmapped or freed.
- *Two copies of a truth.*  `free_count` beside the bitmap; the TLB beside the
  tables; the break beside what is mapped.
- *Free lists.*  Splitting and merging over memory that is and is not contiguous,
  and loops (`for (;;)`) that only end if the memory asked for really appears.
- *ext2 returns.*  Up to three buffers are in use at once, in functions with six
  early returns.
- *Polling.*  The disk driver waits for bits of a status that the drive shows late
  or never; the keyboard is read only while a program waits, and knows of the shift
  keys only what got through; the cursor is brought back to the screen only by a
  glyph.
- *Edges.*  Bitmap sizes, the page a break is in, the last indirect block, a
  remainder with no room for a header, sums of 64 bits in the headers of a file and
  in `sbrk`, a path at the end of a page, a text at the end of a buffer.

Crashes with recovery, messages and concurrent readers are not behaviours of this
system: nothing is written to disk, nothing is sent anywhere, and there is one CPU
without preemption.  What is lost or comes late comes from devices.  `PROJECT.json`
lists the hazards line by line with the properties aimed at each.

### What makes each part correct

- **Processes**: the registers, the address space and the kernel stack in use are
  those of the current process; a blocked parent changes only when its own child
  ends and then gets that child's status; a status is kept until it is collected; to
  programs, running another one is a procedure call.
- **Physical memory**: every usable page is free, owned once, or the bitmap's; a
  request is refused only when nothing is free.
- **Heaps** (kernel and C library): every unit is in exactly one block; no two
  owners overlap; free neighbours are merged; a request ends, with a block of the
  right size or, only when memory is really exhausted, with nothing.
- **Address spaces**: a frame is in one place; the upper half of every new space is
  the kernel's; what the break promises is mapped; moving the break loses neither
  data nor the stack; the TLB agrees with the tables.
- **ext2**: what a path returns is the contents of the file it names; what can be
  read is found; no error path loses a buffer.
- **ELF loader**: whatever the headers say, only the file is read and only user
  memory is mapped, and what is in the file comes to its place.
- **Paths of system calls**: the bytes copied are the caller's own, and a path is
  taken if and only if it is mapped and fits.
- **ATA**: a read that succeeds has the sectors that were asked for.
- **Boot**: the first good source of init is the one that runs, as a process, with
  its own entry point and break; and the boot ends.
- **Keyboard**: a program gets the character that was meant, however late it reads,
  as long as the driver's flag follows the shift keys.
- **Renderer**: what is typed behind a prompt is on the screen (the prompt's own `$`
  may be drawn below it, before a glyph has brought the cursor back).
- **Shell**: a command gets the argument that stands on the screen, whatever was
  typed before.
- **C library**: within the calls the C standard allows, the functions of `string.c`,
  `printf` and `snprintf`, `atoi` and `strtol` give what they are for.

## The modules

| module | models | kind |
|---|---|---|
| `CallStack` | what `spawn`, `wait` and `exit` promise | abstract |
| `Process` | the process table, its system calls, CR3, RSP0, trap frames | component |
| `ProcessCallStack` | `Process` implements `CallStack` | refinement |
| `ProcessProofs` | proofs about `Process` and `ProcessCallStack` | proofs |
| `PagePool` | what the physical memory manager promises | abstract |
| `Pmm` | `pmm.c`, and that it implements `PagePool` | component |
| `KernelMemoryProofs` | proofs about `Pmm` and `KernelHeap` | proofs |
| `Allocator` | what `kmalloc`/`kfree` and `malloc`/`free` promise | abstract |
| `FreeList` | the address-ordered free list, as operators on sequences | operators |
| `FreeListProofs` | what the operators of `FreeList` do to the memory of a list | proofs |
| `KernelHeap` | `heap.c` over frames, and that it implements `Allocator` | component |
| `LibcMalloc` | `malloc`, `realloc`, `free` over `sbrk`, and the same | component |
| `LibcMallocProofs` | proofs about `LibcMalloc` | proofs |
| `PageTables` | the walk of the page tables, as operators | operators |
| `UserMemory` | address spaces: boot, spawn, exec, `brk`, the TLB | component |
| `Ext2` | `ext2.c` | component |
| `UserString` | `copy_user_string` over `UserMemory` | component |
| `UserMemoryProofs` | proofs about `PageTables`, `UserMemory` and `UserString` | proofs |
| `ElfFile` | `elf_load` as a reader of a file | component |
| `FileProofs` | proofs about `Ext2` and `ElfFile` | proofs |
| `Ata` | `ata.c` and the drive it polls | component |
| `Boot` | `kmain`, up to the first system call, over `Ata` | composition |
| `BootProofs` | proofs about `Boot` and `Ata` | proofs |
| `Keyboard` | `keyboard.c`, the keyboard and its user | component |
| `Console` | the cursor of `renderer.c` | operators |
| `Shell` | the user shell's line editor and its commands, on the screen of `Console` | composition |
| `CStrings` | `string.c` | operators, with a program that calls them |
| `Format` | `vsnprintf`, `printf`, `atoi`, `strtol`, `render_printf` | operators, with a program that calls them |
| `UserlandProofs` | proofs about `CStrings`, `Format`, `Keyboard` and `Shell` | proofs |
| `MC*` | an instance for TLC | |

### Process

A system call is one action, as the code's is.  The CPU pushes the user registers
(`ctx`) at TSS.RSP0 (`rsp0`), which is how the *wrong* kernel stack could be
overwritten; `Trapped` is `current->tf = tf`; `Return` writes `rax` into the frame
and pops it; `Switch` is `process_switch` followed by the pop of the frame of the
new process.  A kernel stack is represented by the frame at its top (`kstack`),
which is where both the CPU and `process_make_user` put it.  The registers are
abstracted to what the properties tell apart: whose they are, which address space
they point into, and `rax`.  The failures of `spawn` and `exec` that depend on the
disk, the file or memory are actions that may always happen; those that depend on
the table (no free slot) have the guard of the code.  A machine that halts in
`sys_exit`, or because a program faulted (`Fault`), is `mode = "halted"`, one that
meets the "exit: parent has no frame" branch is `mode = "panic"`.

`CallStack` forgets all this and keeps a stack of pids.  The refinement mapping
(`Ranked`) puts the pids of RUNNING and BLOCKED processes in increasing order: a
child's pid is handed out after its parent's, and the chain of waits (`WaitChain`)
makes them one stack.

### Pmm

`memmap` is any map the boot loader may give; `Init` is `pmm_init` for it: find the
highest usable page, size the bitmap, place it at the end of the first region with
room for it (`Place`), clear the bits of usable pages, set those of the bitmap and
of page 0 again.  The order of the marks matters and is kept (`Cleared`, `Retaken`).
`AllocPage` is the scan for the first clear bit, guarded by the counter; `FreePage`
is whatever a caller passes, pages already free and page 0 included.

### FreeList, KernelHeap, LibcMalloc

Addresses and sizes are in units of 16 bytes, the size of `struct block` and of the
alignment, so header arithmetic stays exact: a block is one unit of header and
`size` units of payload.  `Add` is `freelist_add`, with both merges; `FirstFit`,
`Splits`, `Taken`, `Remainder` are the search and the split.  `KernelHeap` gives
each iteration of `kmalloc`'s loop and each page of `heap_expand` a step, and lets
the rest of the kernel take frames between calls (`TakeFrame`), so heap pages need
not be neighbours.  `LibcMalloc` gets its memory from `sbrk` in chunks of at least a
page; a program may also call `sbrk` itself (`OwnSbrk`, by multiples of a unit) and
give back what it got last (`OwnSbrkBack`), so chunks may or may not follow each
other. Addresses are words that wrap around (`NewBreak`), and sizes go up to those
that would bring the break back *into* the heap from below; those, less than the
length of the heap short of 2^64, are left out.  `realloc` is two steps, since the
old block must survive a failure of the `malloc` in between.

### PageTables, UserMemory

A frame used as a table has an entry per index; `MapPage` walks down (`Walks`), takes
frames for missing tables on the way and overwrites the last entry, exactly as
`paging_map_page_in` does, and returns what is left of the pool even when it fails,
since the code gives nothing back.  `Path` is the other walk, that of
`paging_virt_to_phys` and of the CPU: it builds nothing.  Both are recursive
functions of the level.  `UserMemory` runs the four long operations
(`boot`, `spawn`, `exec`, `brk`) page by page as a `job`; each page may find no
frame (`NoFrame`) or no table (`NoTable`).  At boot a source of init that fails is
followed by the next one **in the same space**, over whatever the first left. The
TLB holds one arbitrary translation: entries do not depend on each other, so a stale
one is found for any choice.  Frames the heap takes are left out: they are frames
that never come back, which a smaller pool already models.

### UserString

`copy_user_string` has no state of its own: it is an operator (`CopyUserString`) of
the page tables of `UserMemory`, and the property quantifies over every place of a
string and of its zero in every state in which a program runs.  The loop over the
bytes is a recursive function (`Copying`).  `Cap` is the size of the buffer; the loop
looks at all its bytes but the last.  `UserLimit` is `USER_LIMIT`, above the stack and
not above the lower half.

### ElfFile

The file is any: each number of a header is chosen when it is read, from a word that
wraps around.  The checks are those of `elf_load`, `map_segment` and
`in_user_range`, in their order; mapping a page and copying to it is a step
(`MapOne`).  `bytes` are those of the file the last step has read, `placed` says
which of them went where.  Frames that run out are in `UserMemory`, where a program
is its segments.

### Ext2

Every `kmalloc` and every disk read is a step that can fail.  `bufs` follows each
buffer by the name of the variable that holds it, across the early returns of
`read_inode`, `read_inode_data`, `lookup_in_dir` and `ext2_read_file`.  The disk is
a function from block numbers to sequences of cells, a cell being a directory entry,
an inode or a word; the arithmetic that finds an inode (group, table block, offset)
and a data block (direct, indirect, too large) is the code's.  An image carries,
next to the disk, what the file system *means* (`files`): the properties compare the
two.  What it is for a disk to store these files is said by `WellFormed`, in the
terms of ext2 and not of the reader: the inode of a file is in the table of its
group, its blocks hold its contents (`Stored`), the entries of a directory follow
one another to its end, and those in use are the files in it (`Listed`).  The
assumption `ImagesAssumption` asks it of every image; `Stored` names two limits of
the code as limits of the file systems considered, group descriptors beyond the
first block and an indirect block that is itself a hole.  `Consume` is the caller
taking the file: `sys_exec` and `sys_spawn` free its buffer, `kmain` keeps that of
`/bin/init` for good; `NothingLeaks` is about the reader, for which both are the same.

### Ata

The driver's reads of the status register are steps (`Command`, `NotBusy`,
`CheckError`, `Transfer`), and between any two of them the drive may change it
(`Ready`, `Notice`, `Deliver`, `Spoil`).  The drive is external, and known by what
`ata.c` reads from it: it may be late to show that it has got a command, it may come
to a sector it cannot read, and there may be none, on a bus that floats (all bits 1)
or reads as 0. The data port holds a sector only while the drive offers one
(`Data`).

### Boot

`machine` is what the kernel finds: a frame buffer, a memory map, a number of
frames, what is on the disk, a boot module, the init in its own image, each good or
not.  The actions are the parts of `kmain` in its order; `AtaStep` is `kmain` inside
of `ata_read_sectors`, and `Drive` the drive at work beside it.  `ext2_mount` reads
the superblock (`ReadSuper`), `ext2_read_file` some number of blocks (`ReadBlock`),
and either gives up when a read fails (`Unreadable`) or when there is no memory for
the file (`NoBuffer`).  Frames are only counted (`Left`): a step that fails for want
of frames has taken what there was, which is why a good source may fail after a bad
one.  `loaded` and `program` are kept apart because `entry` and
`brk` are written only by a load that succeeds.  `FirstCall` is the system call that
whatever was entered makes first: the handler writes through the current process, if
there is one.

### Keyboard

The keyboard and its user are external.  The user presses and releases keys at any
time, the keyboard holds `FifoSize` codes and drops the others, and sends codes of a
shift key nobody pressed around those of cursor keys (`Pretend`).  The driver takes
codes only while `keyboard_getc` runs (`TakeShift`, `Skip`, `TakeText`).  A code
carries, out of the driver's sight, what its user meant and whether the keyboard was
in step with the shift keys when it was sent; the property is about those that were.

### Console, Format, CStrings

`Console` is `render_putc` as a function from cursor to cursor (`After`), in pixels,
with the comparisons of the code: only a glyph looks at the right and the lower
edge. `CStrings` has the loops of `string.c` as functions of a memory, `Format` the
pieces of a format and what `vsnprintf`, `printf` and the kernel's `render_printf`
make of them. In both a small program enumerates the inputs by calling, within what
the C standard allows. The numbers a program prints are those of an `int`
(`MaxInt`), so that `atoi` does not overflow; larger ones the library cuts to 32 bits
and the kernel prints with 64.  A null pointer for `%s` is a piece of its own
(`"null"`), of which the library makes `(null)` and the kernel nothing.

`Written` is what the loop of `vsnprintf` writes.  If that, with its zero, is more
than `tmp` holds (`Overruns`), it was written over the stack, which is undefined: the
results of such a call are then any of `Ruin`, a constant about which nothing is
assumed.

### Shell

`line` is the array of the code, cell by cell, with what was in it before (`JUNK` at
first), because what is wrong with a line editor shows only in what earlier lines
left. What the user sees is kept apart from it: `ink` is what was drawn since the
prompt, by place, `used` the rows that have other ink, `start` the place behind the
prompt; `Shown` reads the screen from there.  A user types a line of `Inputs`, and
may take any character back and type it again; an input may be longer than the
buffer, and have a tab, which is ignored.  The comparisons of the command loop are
made on the array, with the lengths and the offsets of the code (`Dispatch`);
commands that only print are one, `mem`.  What commands and programs print
(`Outputs`, and the arguments of `echo` and `printf`) moves the cursor before the
next prompt, and leaves ink on the rows it has left (`LeftRows`) and on those on which
a carriage return or a backspace took it back (`BackRows`).

## The runs

| run | instance | states | checks |
|---|---|---|---|
| `process` | 3 slots, statuses -1, 0, 5; 5 spaces, pids to 5 | 505,922 | `WaitChain NoPanic ContextMatches FramesResumable WaitGetsStatus StatusKept ImplementsCallStack` |
| `run_forever` | as `process` | (violation) | `RunFindsSlot` |
| `pmm` | every map of up to three entries of 1 to 3 pages below page 8, bitmaps of 3 bits a page | 6,061 | `CountExact Conserved ImplementsPool` |
| `kernel_heap` | frames 1, 2, 3, 5, 6; 4 units a page; sizes 1, 2, 3, 6 | 330,833 | `HeapSound Answered ImplementsAllocator Returns` |
| `libc_malloc` | break below unit 16 of a word of 64, 4 units a page, up to 3 frames, sizes 1, 2, 3, 5, 51 | 150,565 | the same, and `ReallocKeeps` |
| `user_memory` | 17 frames, tables of 4 entries in 3 levels, stack of 2 pages, 3 programs; paths in a buffer of 4 bytes, `USER_LIMIT` the last page of 32 | 39,001 | `Exclusive HeapMapped TlbCoherent PathIsTheCallers PagesKept` |
| `ext2` | 8 images, 10 paths, blocks of 4 cells, 2 direct blocks | 15,811 | `NothingLeaks ReadsTheFile FindsTheFile Ends` |
| `boot` | every machine with up to 10 frames and every drive; 2 reads of 2 sectors, addresses below 16 | 142,043 | `InitIsProcess FirstGoodSource ReadsWhatWasAsked BootEnds` |
| `boot_shell` | as `boot` | (violation) | `ShellAnswers` |
| `shell` | a line of 9 cells, 7 inputs, 3 outputs, a screen of 2 rows and 11 columns | 676,021 | `SeesTheLine TypesOnScreen GetsItsArgument` |
| `keyboard` | a letter, a key with one character, one with none; 3 codes | 334,620 | `TypesWhatIsMeant Delivers` |
| `user_code` | words of 12 values, pages of 2 bytes, files to 4 bytes; memories of 5 bytes of 3 values; formats of 3 pieces, a buffer of 6, 2 results of an overrun | 63,165 | `LoadsInBounds StringsRight PrintsWhatFits` |

The type invariants are conjuncts of the properties they serve (`HeapSound`,
`Exclusive`, `ReadsTheFile`, `InitIsProcess`, `SeesTheLine`), or proved (`Process`,
`Pmm`, `Keyboard`, `Format`). `user_code` puts three models that have nothing to do
with each other into one run: a behaviour is about one of them. It is the only run
in which behaviours may end: a file is loaded or refused, a format is complete.

### What they show, and why the bounds are enough

**process.**  Three slots give a chain of three programs in calls of each other, a
parent with two children, and reuse of a slot by a third child; five pids and spaces
give each slot more than one life.  `ContextMatches` and `FramesResumable` together
say that a switch, an exec or a failed exec never leaves a register behind;
`WaitGetsStatus` relates the state of a parent before and after a step of its child.
The bounds `MaxPid` and `MaxSpaces` stand in the guards of the actions that spend
them; a real machine reaches the end of its memory the same way.

`ImplementsCallStack` says that every sequence of `spawn`, `wait` and `exit` is one
of calls and returns: no program is entered twice, none is skipped, each call
returns the status of the program called.

**pmm.**  All 1,705 maps of the bound are initial states.  They contain a region the
bitmap fills exactly, one it leaves a page of, maps with no room for it, page 0
usable or not, holes and reserved regions; with 3 bits to a page the bitmap takes
one page or more.

**kernel_heap, libc_malloc.**  A page of four units makes every relation between a
request, a remainder and a header happen; frames 3 and 5 are not neighbours, so that
pages added in one expansion may not join; a request of 6 units needs two pages that
do.  `HeapSound` says that every unit is in one block and that free neighbours are
merged, `Answered` that a refusal is honest, `Returns` that the loop ends: in the
kernel heap because every turn takes frames and they run out, in the C library
because a chunk always satisfies the request it was fetched for.  In the C library
the size 51 of a word of 64 sends the break past the end of the word, to any place
below the heap and to 0, which `elf_brk` takes for a question: all are refused.

**user_memory.**  The stack is under another second-level table than the break, so
both share and not-share cases of the walk occur; 17 frames let a spawn from a
running program succeed, and a second one fail at each possible page.  Programs have
segments that overlap and one that covers a page of the stack.  A path of up to
three bytes starts at every byte of user memory, so it crosses from one page to the
next, into a hole, at the end of the stack, and to page zero; pages follow each
other in any frames.

**ext2.**  /bin/init has every length at which the reader changes its way: 1 cell,
one block, one more, the last direct block, the first indirect one, one less than
the largest, the largest, one too large.  Directories of one and two blocks, removed
entries, inodes of two groups and at both places of a table block, an empty file, a
sparse one and a link; a path may go through the entry `.` of a directory.

**boot.**  Every combination of drive, file system, module and embedded init with
every number of frames from none to more than any path uses, so that each step is
the one at which they run out.  A drive may be late, or fail at any sector of any
read; reads of two sectors have a first, a next and a last one.  `FirstGoodSource`
allows a good source to be passed over only when nothing is left.  `BootEnds` names
the two cases in which the boot does hang, in `ata_wait_drq`: a bus that reads 0,
and a drive that is late to show an error.

**shell.**  Inputs are shorter and longer than one another, so each follows each;
one has nine characters, one more than fit; one is a prefix of a command's word.  A
prompt and a full line just fit a row, unless `printf` has left something before the
prompt: then the line wraps, and `SeesTheLine` says nothing of it (`OnCleanRow`),
since backspace does not go back over the left margin.  One output ends with a
carriage return, so that the next prompt is drawn over it.  Two rows are enough for the
last one to be followed by the first.

**keyboard.**  With three codes a shift can be pressed, a key typed and the release
lost, or one shift key released while the other is held.  `TypesWhatIsMeant` says
that the flag is right again from the next right code on; what is typed before that
one is outside it.

**user_code.**  With 12 values a word holds a header, segments before, across and
after every bound, and sums that wrap to each side of them; two segments follow each
other.  Five bytes of memory have every overlap of two areas and three values every
order of two bytes.  Three pieces of a format fill a buffer of six at each of them
and overrun it by numbers of up to five characters; strings of seven, and `(null)`,
are cut at its end.

### Fairness

`WF` is assumed of the steps of `kmalloc`, `malloc`, `ext2_read_file`, `kmain` and
`keyboard_getc`, and of the drive.  The code justifies it: the kernel runs with IF
clear on one CPU and never gives it up, its polling loops poll for as long as it
takes, and a user program's library code goes on as soon as the program runs.  A
drive gets on with a command it has been given; one that does not is what `ata.c`
cannot survive, as it has no timeout.  No fairness is assumed of programs or users
(they may do nothing for ever).

## The proofs

What TLC checks on an instance, the proof modules prove for every value of the
constants: any number of slots, frames, entries of a table, any page, word, buffer
and file, any memory map.  The constants are assumed to satisfy only what the
modules declare of them (the named `ASSUME`s: sizes are positive, a page is larger
than a block's header, 128 program headers fit a word, ...), and TLC evaluates these
assumptions on each instance.

| run | proved | only model-checked |
|---|---|---|
| `process` | all seven properties | |
| `pmm` | all three, and `RefusedOnlyWhenEmpty` | |
| `kernel_heap` | `HeapSound`, `Answered`, `ImplementsAllocator` | `Returns` |
| `libc_malloc` | the same, and `ReallocKeeps` | `Returns` |
| `user_memory` | all five | |
| `boot` | `InitIsProcess`, `FirstGoodSource`, `ReadsWhatWasAsked` | `BootEnds` |
| `ext2` | `NothingLeaks`, `ReadsTheFile`, `FindsTheFile` | `Ends` |
| `user_code` | all three | |
| `shell` | all three | |
| `keyboard` | `TypesWhatIsMeant` | `Delivers` |

So every safety property of the runs, and every refinement, is proved; what is left
to TLC is liveness.

Each proof rests on an invariant that is inductive (`Inv`, `IInv`, `ReaderInv`, ...):
it holds at first, every action preserves it (one lemma or step per action), and it
implies the property.

### Process

`NoPanic` is not inductive: that `exit` finds a parent with a frame
depends on the parent being blocked (`WaitChain`), on its frame being on its own
stack (`FramesResumable`) and on no two slots having its pid (`Distinct`).  The
invariant is

    IInv == TypeOK /\ Ids /\ Distinct /\ OneRunning /\ WaitChain
              /\ FramesResumable /\ ContextMatches /\ NoPanic

where `Ids` bounds the pids, parents' pids and address spaces of used slots by the
counters they come from, which makes the pid and the space a spawn hands out new.
One lemma per action (`SpawnOkKeeps`, `WaitSwitchKeeps`, `ExitToParentKeeps`, ...)
shows it preserved; calls that end in `Return` share `ReturnKeeps`.  The two action
properties follow from it: `StepSpares` says which slots a step may touch.

The refinement of `CallStack` needs more: that the order of pids is the order of
calls.  `Ordered` says that a parent's pid is less than its child's, that of two
programs in progress the one called first has no larger pid than the *parent* of the
other, and that the current process is the last of all.  Each action is first
reduced to what its callers see of it (`StepEffect`: it changes nothing, starts,
collects, enters or leaves a program), so that the five simulations do not have to
look into the table again.  `Ranked` is no recursion but a choice by rank, and
`RankedSeq` shows that the greatest pid is its last element and that the others
keep their places: `Append` and `SubSeq` on the abstract stack.

### Pmm

The invariant adds to `PmmTypeOK`, `CountExact` and `Conserved` that without
a bitmap there are no clear bits and no pages given out.  The work is in `Init`:
that the bitmap's place and the highest page exist (`LeastNumber`, `HighestBounds`,
`MapShape`), and that clearing usable pages and setting the bitmap's again leaves
exactly the conserved pages.  `Refinement` maps each step to one of `PagePool`.

### Free lists and the heaps

`FreeListProofs` proves once what both heaps need, about lists of any length:
`AddEffect` (after `freelist_add`, whichever of the two merges happen, the list is in
address order, its neighbours do not touch, and it covers what it covered and the
block put back) and `TakeEffect` (a first fit, split or not, removes exactly the
units given out).  Both reduce to `Spliced`, a list in which some blocks are replaced
by one.  "In address order" is `Sorted`, about every pair of blocks and not only
neighbours, which is what an insertion in the middle needs.

The kernel heap's invariant is `TypeOK /\ Sorted(free_list) /\ Apart /\ Filled /\
Wanted`: the blocks in use are apart from one another and from the list; list and
blocks in use fill exactly the pages the heap has got; a search looks for something.
The C library's adds `Moving`: the block a `realloc` replaces is its program's until
there is a larger one.  There the free list fills everything below the break that
the program did not get from `sbrk` itself; `BreakMoves` shows that a break
`elf_brk` accepts did not wrap around, for any word.  The refinement maps a block in
use to its payload.

### Page tables and user memory

All properties of `UserMemory` come down to this: the tables of all address spaces,
the one that is being built included, are a **forest** (`Tree`): each frame is
referred to by at most one entry of one table, roots and free frames by none, and the
kernel's tables stay apart.  Then a table is on one way only (`OneWay`): two pages
whose walks meet at a table have the same indices from there upward.  So a new leaf
changes the translation of one page of one space (`LeafPaths`), a new table that of
none (`LinkedPaths`), and a walk as a whole keeps all other translations whether it
succeeds or runs out of frames in the middle (`MapKeeps`).  None of it depends on the
number of levels: the recursion over them is unfolded by `Recursion`, and what holds
at a level if it holds at the one above holds at all (`Descent`).  The invariant is

    Inv == TypeOK /\ JobTyped /\ Apart /\ Current /\ Working /\ HeapMapped /\ Coherent

with `Apart` for the forest and the pool, `Current` for CR3 and the space of the
program that runs, and `Working` for what a half-done operation has already mapped,
without which `HeapMapped` is lost at the moment `brk` sets the new break.  `Coherent`
says that the TLB is right: a leaf is flushed when it is written, and the entries
written without a flush, the links to new tables, were not present before.

`PathsAreTheCallers` adds `copy_user_string`: by the same descent over the bytes of
the buffer, each byte read is where the CPU would read it, and the copy succeeds
exactly if the path is whole, mapped and short enough.

### Boot and the disk

`Reading` says that the drive and the driver are in step: between two sectors the
command has as many left, from the same place, as the buffer lacks, or has been given
up; `Honest` what the status bits can mean for each kind of drive.  `Prepared` and
`Considered` say what `kmain` has set up and decided at each of its points.
`FirstGoodIsLoaded` did not go through at first, and rightly: the model let `kmalloc`
refuse the buffer for `/bin/init` while frames were left, which the heap never does
(`Answered`).  `NoBuffer` is now the failure the heap really has, one that took all
the frames.

### Files

For `NothingLeaks` it is enough that the buffers in use are a function of the point
the reader has come to (`Held`).  It is proved for *any* set of images, those whose
blocks are nonsense included.

`ReadsTheFile` and `FindsTheFile` need images that are file systems (`WellFormed`),
and an invariant, `ReaderInv`, that says at each point what the reader has found out:

- `OnTheWay`: what was looked up so far leads to a file, and `ino` is its number;
- `table`, `inode` and `block`, once they are known, are those of this file;
- `CopiedPart`: `data` is the beginning of its contents, up to a whole block.

The steps that matter are three.  `InodeOf` is where the arithmetic of `read_inode`
looks (group, block, offset).  A data block is `NumberOf` the file's, and copying one
keeps `CopiedPart`, the last part of a block included (`WholeBlocks`).  And the loop
over a directory finds what is in it: `Lookup` goes from entry to entry by `rec_len`,
over gaps, removed entries and names that only begin alike; `WalkEnds` shows by
induction from the end of the directory that it arrives at the first entry in use of
that name, and `LookupFinds` that this is the file.  `FindsTheFile` follows since each
point at which the reader gives up, other than for a `kmalloc` or the disk,
contradicts `Readable`.

For the ELF loader, `Wraps` says when a sum of two words is right, `SegmentFits` that
the checks of `map_segment` leave only such sums, and the invariant follows `va`
through the pages of a segment: what is below it is mapped, and its bytes are in
their places.

### Loops of the C library

The loops of `string.c` and `stdio.c` are recursive functions, and what they compute
is proved for every memory, address and length, by induction: a set of natural
numbers has a least element (`FirstNumber`, from the well-foundedness of `<`), so
what holds at the first step of a loop and at each step after one where it holds,
holds at all (`Upward`, `Downward`, `FromTheStart`).  With these

- each loop of `CStrings` is shown to be its closed form: `Memset` is `Filled`, a
  `memmove` is the area moved in whichever direction it copies, and loops that look
  for an end stop at the first place where they may (`LoopDefined`, `LoopEnds`).
  `StringFunctionsAreRight` compares them with what they are for;
- `fmt_uint` writes digits whose value is the number (`UnsignedWrites`, for bases 10
  and 16), `atoi` and `strtol` read that value (`NumberReads`), and `render_uint`,
  which takes the digits from the last one and prints them backwards, prints the same
  (`RenderUintWrites`);
- what `vsnprintf` has written after each piece is compared with the text of these
  pieces (`CutAtTheEnd`): no more than it; the text cut at the end of the buffer, as
  long as nothing went past that end; and if something did, it was a number, a pointer
  or an unknown letter, and shorter than that.  From then on the theorem says nothing
  of the results, for any `Ruin`.

### Keyboard

`TypesWhatIsMeant` relates what the user meant when a key was pressed to a flag the
driver has when it reads the code, any time later.  The invariant says it of each code
still in the queue: `FlagAt(i, b)`, the flag the driver will have when it comes to code
i, is what the last shift code before i says, or the present flag if there is none; and
what was meant at i is what the key means with that flag.  While the keyboard is in
step, the flag at the end of the queue is whether a shift key is held.  A code sent
and a code taken both leave `FlagAt` what it was (`FlagAfterSend`, `FlagAfterConsume`).

### Shell

    ShellInv == Typed /\ OnScreen /\ OnItsRow /\ Remembered

`OnScreen` says that the cursor, and all that was drawn since the prompt, is inside
the screen, for any font and any screen of at least two columns and rows; a glyph
brings the cursor back, so it is enough that a prompt is printed before anything is
typed.  `OnItsRow` says that as long as the row of the prompt has no other ink the k-th
character of the line is at the k-th place behind the prompt, and nothing else is
drawn: so a backspace, which fills the place before the cursor, takes away what it
takes from the line.  `SeesTheLine` follows, and `GetsItsArgument` from the comparison
of `Dispatch`, made on the array with what earlier lines left in it, with the text
seen: a zero behind the line ends each comparison in time (`LineSize > 7`: the array
is longer than the longest word compared).

### What stays with TLC

Liveness (`Returns`, `Ends`, `BootEnds`, `Delivers`), and `ENABLED` that fairness
rests on: out of the prover's reach.

## Where code and text disagree

- `run_forever`: `sys_exit` resumes a waiting parent but leaves the child's slot a
  zombie (syscall.c:154-187); the shell waits once (`userland/shell/main.c`:146).
  After MAX_PROCS - 1 programs, `run` fails for ever.
- `boot_shell`: the kernel shell that takes the place of init (main.c:127,
  main.c:186) is entered before there is a process, and the system call handler
  stores the frame through the current one (syscall.c:277-279): its first call halts
  the machine.

Seen while modelling, without a text in the repository that a run could hold against
it:

- `i_mode & EXT2_S_IFREG` (ext2.c:363-365) also holds for a symbolic link and a
  socket, whose contents are returned as a file.
- `strncmp(line, "printf ", 5)` (`userland/shell/main.c`:133) compares only `print`:
  `print` and `printx` run as `printf`, from the eighth character on.
- A bus that reads 0 is taken for a drive (ata.c:57), and `ata_wait_drq` polls it
  for ever; so does a drive that reports an error only after the driver looked for
  one (ata.c:94).
- Space and Enter have no entry in `scancode_shift` (keyboard.c): with shift held
  they type nothing.
- An indirect block number of 0, a hole of the whole indirect part of a file, is not
  tested (ext2.c:242): block 0 of the disk is read as the indirect block.
- `copy_user_string` refuses a path of 127 characters, which fits its buffer of 128.
- `vsnprintf` looks at the end of `tmp[256]` only between conversions and inside of
  `%s`: `%d`, `%u`, `%x`, `%p` and an unknown letter near the end, and the zero behind
  them, are written past it (stdio.c:110-146).
- `%s` with a null pointer prints `(null)` in the C library (stdio.c:104-105) and
  nothing in the kernel (renderer.c:197-198), which does not know `%p` either.
- `sbrk` takes a size near 2^64 as a negative increment: a `malloc` of less than the
  heap's length short of 2^64 moves the break down, or is rounded to a small block
  (stdlib.c:70).

## Not modelled

- **Frames that never come back.**  `pmm_free_page` has no caller: `exec`, `exit`,
  failed loads and a shrinking break leak frames.  The models show that what leaks
  is never given out twice; that it leaks is what the code does.
- **Overflow of counters and sizes**: `next_pid` after 2^31 spawns, and sizes less
  than the length of the heap short of 2^64 (above); `calloc`'s product.
- **What the C library makes of a negative exit status** (unistd.c:134): -1 and
  `errno`, the same as an error.  The system call itself is exact
  (`WaitGetsStatus`).
- **The pointers of `SYS_READ` and `SYS_WRITE`**: the handler goes through them
  unchecked (syscall.c:285-305).  A bad one makes the kernel fault, which halts, or
  reads or writes memory that is not the program's; `OtherCall` is only their result.
- **Page flags and ring transitions**: the tables of GDT and IDT are built once.
- **Overlapping segments** of a file (elf.c:142): mapped over each other, which
  nothing in the repository says anything of; that no frame is shared for it is
  checked.
- **Rest of the C library**: `puts`, `fgets`, `errno`, a `%` at the end of a format,
  digits of bases above 16 and in upper case; the stubs of the system calls.
- **The kernel shell's editor**: it never gets to read a line (`boot_shell`).
- **Pixels, fonts, colours, serial output, port timing.**
- **Build tools** (`tools/`): they never run on the machine.

## Plan

Every safety property is proved.  What would add most is breadth: `calloc` and
`fgets` in the C library, the programs of `userland/`, ext2 with descriptors of
groups in more than one block.
