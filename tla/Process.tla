------------------------------ MODULE Process ------------------------------
(***************************************************************************)
(* The process table of the kernel (src/src/kernel/process.c), the system  *)
(* calls that change it (src/src/kernel/syscall.c) and the two processor   *)
(* registers that follow it, CR3 and TSS.RSP0.                             *)
(*                                                                         *)
(* There is one CPU, vector 0x80 is an interrupt gate (IF is cleared on    *)
(* entry) and nothing preempts the kernel, so a system call is one step:   *)
(* the CPU pushes the user registers on the stack TSS.RSP0 names, the      *)
(* handler runs, and isr_syscall pops the trap frame the handler returned. *)
(* There is no scheduler: a spawned process first runs when its parent     *)
(* waits for it.                                                           *)
(***************************************************************************)
EXTENDS Integers

CONSTANTS
  MAX_PROCS,  \* slots of the process table
  Statuses,   \* exit statuses programs pass to exit
  MaxSpaces,  \* user address spaces physical memory has room for
  MaxPid      \* bound of the model: pids handed out

ASSUME ProcessAssumption ==
  /\ MAX_PROCS \in Nat \ {0}
  /\ Statuses \subseteq Int
  /\ MaxSpaces \in Nat \ {0}
  /\ MaxPid \in Nat \ {0}

Slots == 0 .. MAX_PROCS - 1
NULL  == -1                \* a null struct process * or struct trapframe *

States == {"UNUSED", "RUNNABLE", "RUNNING", "BLOCKED", "ZOMBIE"}

(***************************************************************************)
(* A struct process.  A trap frame always sits at the top of some kernel   *)
(* stack, so tf is the slot whose stack holds it.                          *)
(***************************************************************************)
ProcessRecord ==
  [pid : Nat, ppid : Nat, state : States, pml4 : Nat,
   tf : Slots \cup {NULL}, exit_status : Int]

(***************************************************************************)
(* The user registers of a process: owner says whose they are, image which *)
(* address space rip and rsp point into, rax is the system call's number   *)
(* on entry and its result on return.                                      *)
(***************************************************************************)
UserContext == [owner : Nat, image : Nat, rax : Int]

VARIABLES
  processes,        \* the table
  current_process,
  next_pid,
  kstack,           \* the trap frame area at the top of each kernel stack
  spaces,           \* address spaces created so far; a pml4 is its number
  cr3,              \* the address space the MMU translates through
  rsp0,             \* the slot whose kernel stack the next trap uses
  ctx,              \* the user registers the CPU holds
  mode              \* "user", or how the machine stopped

vars == <<processes, current_process, next_pid, kstack, spaces, cr3, rsp0,
          ctx, mode>>

SYS_EXIT == 60
SYS_WAIT == 61

-----------------------------------------------------------------------------
(* process.c *)

\* Mutant: process_create also takes the slots of ended processes.
UnusedOrZombie == {s \in Slots : processes[s].state \in {"UNUSED", "ZOMBIE"}}

Unused == {s \in Slots : processes[s].state = "UNUSED"}

FirstOf(S) == CHOOSE s \in S : \A t \in S : s <= t

\* process_create: the lowest unused slot, or NULL.
FreeSlot == IF Unused = {} THEN NULL ELSE FirstOf(Unused)

\* The fields process_create fills in.
Created ==
  [pid |-> next_pid, ppid |-> 0, state |-> "RUNNABLE", pml4 |-> 0,
   tf |-> NULL, exit_status |-> 0]

\* Mutant: process_discard forgets the slot.
NotDiscarded(p) == p

\* process_discard only frees the slot: the other fields keep their values.
Discarded(p) == [p EXCEPT !.state = "UNUSED"]

\* process_find: the lowest used slot with this pid, or NULL.
Find(pid) ==
  LET S == {s \in Slots : processes[s].state # "UNUSED" /\ processes[s].pid = pid}
  IN  IF S = {} THEN NULL ELSE FirstOf(S)

\* process_make_user: a trap frame that enters the program with zeroed registers.
UserFrame(pid, image) == [owner |-> pid, image |-> image, rax |-> 0]

\* Mutant: no tss_set_rsp0.
SwitchWithoutRsp0(procs, stacks, s) ==
  /\ processes' = [procs EXCEPT ![s].state = "RUNNING"]
  /\ kstack' = stacks
  /\ current_process' = s
  /\ cr3' = procs[s].pml4
  /\ rsp0' = rsp0
  /\ ctx' = stacks[procs[s].tf]

\* Mutant: no paging_load_cr3.
SwitchWithoutCr3(procs, stacks, s) ==
  /\ processes' = [procs EXCEPT ![s].state = "RUNNING"]
  /\ kstack' = stacks
  /\ current_process' = s
  /\ cr3' = cr3
  /\ rsp0' = s
  /\ ctx' = stacks[procs[s].tf]

\* process_switch, then isr_syscall pops the frame of slot s.
Switch(procs, stacks, s) ==
  /\ processes' = [procs EXCEPT ![s].state = "RUNNING"]
  /\ kstack' = stacks
  /\ current_process' = s
  /\ cr3' = procs[s].pml4
  /\ rsp0' = s
  /\ ctx' = stacks[procs[s].tf]

-----------------------------------------------------------------------------
(* syscall.c: entry and return *)

\* Mutant: the handler does not save the frame in the process.
NotTrapped == processes

\* syscall_handler's current->tf = tf: the CPU pushed the frame at TSS.RSP0.
Trapped == [processes EXCEPT ![current_process].tf = rsp0]

\* The kernel stacks once the user registers of call n are pushed.
Pushed(n) == [kstack EXCEPT ![rsp0] = [ctx EXCEPT !.rax = n]]

\* The handler returns its own frame with rax = v; procs is the table it leaves.
Return(procs, v) ==
  /\ processes' = procs
  /\ kstack' = [kstack EXCEPT ![rsp0] = [ctx EXCEPT !.rax = v]]
  /\ ctx' = [ctx EXCEPT !.rax = v]
  /\ UNCHANGED <<current_process, cr3, rsp0, mode>>

Current == processes[current_process]
InUser  == mode = "user"

-----------------------------------------------------------------------------
(* sys_spawn *)

\* The path, the file system or the file cannot be read: no slot is touched.
SpawnNoFile ==
  /\ InUser
  /\ Return(Trapped, -1)
  /\ UNCHANGED <<next_pid, spaces>>

SpawnNoSlot ==
  /\ InUser
  /\ FreeSlot = NULL
  /\ Return(Trapped, -1)
  /\ UNCHANGED <<next_pid, spaces>>

\* paging_create_user_as fails: the child is discarded, its pid is spent.
SpawnNoSpace ==
  /\ InUser
  /\ FreeSlot # NULL
  /\ next_pid <= MaxPid
  /\ next_pid' = next_pid + 1
  /\ Return([Trapped EXCEPT ![FreeSlot] = Discarded(Created)], -1)
  /\ UNCHANGED spaces

\* elf_load fails: the address space stays behind, unused.
SpawnBadElf ==
  /\ InUser
  /\ FreeSlot # NULL
  /\ next_pid <= MaxPid
  /\ spaces < MaxSpaces
  /\ next_pid' = next_pid + 1
  /\ spaces' = spaces + 1
  /\ Return([Trapped EXCEPT ![FreeSlot] = Discarded(Created)], -1)

\* The child sys_spawn leaves in slot s.
Spawned(s) ==
  [Created EXCEPT !.ppid = Current.pid, !.pml4 = spaces + 1, !.tf = s]

SpawnOk ==
  /\ InUser
  /\ FreeSlot # NULL
  /\ next_pid <= MaxPid
  /\ spaces < MaxSpaces
  /\ next_pid' = next_pid + 1
  /\ spaces' = spaces + 1
  /\ processes' = [Trapped EXCEPT ![FreeSlot] = Spawned(FreeSlot)]
  /\ ctx' = [ctx EXCEPT !.rax = next_pid]
  /\ kstack' = [kstack EXCEPT ![rsp0] = ctx',
                              ![FreeSlot] = UserFrame(next_pid, spaces + 1)]
  /\ UNCHANGED <<current_process, cr3, rsp0, mode>>

-----------------------------------------------------------------------------
(* sys_wait *)

\* Mutant: sys_wait does not compare the child's ppid.
IsAnyone(s) == s # NULL

IsChild(s) == s # NULL /\ processes[s].ppid = Current.pid

WaitNoChild(pid) ==
  /\ InUser
  /\ ~IsChild(Find(pid))
  /\ Return(Trapped, -1)
  /\ UNCHANGED <<next_pid, spaces>>

\* The child has ended: its slot is freed and its status returned.
WaitZombie(pid) ==
  LET child == Find(pid) IN
  /\ InUser
  /\ IsChild(child)
  /\ processes[child].state = "ZOMBIE"
  /\ Return([Trapped EXCEPT ![child] = Discarded(@)], processes[child].exit_status)
  /\ UNCHANGED <<next_pid, spaces>>

\* Otherwise the caller blocks and the CPU enters the child.
WaitSwitch(pid) ==
  LET child == Find(pid) IN
  /\ InUser
  /\ IsChild(child)
  /\ processes[child].state # "ZOMBIE"
  /\ Switch([Trapped EXCEPT ![current_process].state = "BLOCKED",
                            ![child].state = "RUNNING"],
            Pushed(SYS_WAIT), child)
  /\ UNCHANGED <<next_pid, spaces, mode>>

-----------------------------------------------------------------------------
(* sys_exit *)

\* Mutant: the status is not kept.
EndedNoStatus(status) == [Trapped EXCEPT ![current_process].state = "ZOMBIE"]

\* The table once the caller is a zombie.
Ended(status) ==
  [Trapped EXCEPT ![current_process].exit_status = status,
                  ![current_process].state = "ZOMBIE"]

\* No parent: the machine halts in the kernel.
ExitHalt(status) ==
  /\ InUser
  /\ Find(Current.ppid) = NULL
  /\ processes' = Ended(status)
  /\ kstack' = Pushed(SYS_EXIT)
  /\ mode' = "halted"
  /\ UNCHANGED <<current_process, next_pid, spaces, cr3, rsp0, ctx>>

\* The parent gets the status as the result of its wait; a parent without a
\* trap frame halts the machine.
ExitToParent(status) ==
  LET parent == Find(Current.ppid)
      procs  == [Ended(status) EXCEPT ![parent].state = "RUNNING"]
      stacks == [Pushed(SYS_EXIT) EXCEPT ![procs[parent].tf].rax = status]
  IN
  /\ InUser
  /\ parent # NULL
  /\ IF procs[parent].tf = NULL
       THEN /\ processes' = procs
            /\ kstack' = Pushed(SYS_EXIT)
            /\ mode' = "panic"
            /\ UNCHANGED <<current_process, cr3, rsp0, ctx>>
       ELSE /\ Switch(procs, stacks, parent)
            /\ UNCHANGED mode
  /\ UNCHANGED <<next_pid, spaces>>

-----------------------------------------------------------------------------
(* sys_exec and the calls that change no process *)

\* The file cannot be read or there is no address space for it.
ExecRefused ==
  /\ InUser
  /\ Return(Trapped, -1)
  /\ UNCHANGED <<next_pid, spaces>>

\* elf_load fails: the caller keeps its old program, the new space is lost.
ExecBadElf ==
  /\ InUser
  /\ spaces < MaxSpaces
  /\ spaces' = spaces + 1
  /\ Return(Trapped, -1)
  /\ UNCHANGED next_pid

ExecOk ==
  /\ InUser
  /\ spaces < MaxSpaces
  /\ spaces' = spaces + 1
  /\ processes' = [Trapped EXCEPT ![current_process].pml4 = spaces + 1]
  /\ ctx' = [ctx EXCEPT !.image = spaces + 1, !.rax = 0]
  /\ kstack' = [kstack EXCEPT ![rsp0] = ctx']
  /\ cr3' = spaces + 1
  /\ rsp0' = current_process
  /\ UNCHANGED <<current_process, next_pid, mode>>

GetPid ==
  /\ InUser
  /\ Return(Trapped, Current.pid)
  /\ UNCHANGED <<next_pid, spaces>>

\* read, write, clear, meminfo and brk: to the process table they are a result.  That
\* read and write go through any pointer they are given is left out: through a bad
\* one they fault, which is Fault here, or reach memory of the kernel.
OtherCall ==
  /\ InUser
  /\ \E v \in {0, 1} : Return(Trapped, v)
  /\ UNCHANGED <<next_pid, spaces>>

\* The program faults: the CPU pushes a frame, and isr_null halts the machine.
Fault ==
  /\ InUser
  /\ kstack' = [kstack EXCEPT ![rsp0] = ctx]
  /\ mode' = "halted"
  /\ UNCHANGED <<processes, current_process, next_pid, spaces, cr3, rsp0, ctx>>

-----------------------------------------------------------------------------
\* The state process_init, process_bootstrap and user_enter leave to /bin/init.
Init ==
  /\ processes = [s \in Slots |->
       IF s = 0
         THEN [pid |-> 1, ppid |-> 0, state |-> "RUNNING", pml4 |-> 1,
               tf |-> NULL, exit_status |-> 0]
         ELSE [pid |-> 0, ppid |-> 0, state |-> "UNUSED", pml4 |-> 0,
               tf |-> NULL, exit_status |-> 0]]
  /\ current_process = 0
  /\ next_pid = 2
  /\ kstack = [s \in Slots |-> UserFrame(0, 0)]
  /\ spaces = 1
  /\ cr3 = 1
  /\ rsp0 = 0
  /\ ctx = UserFrame(1, 1)
  /\ mode = "user"

\* A stopped machine executes hlt for ever.
Hang ==
  /\ ~InUser
  /\ UNCHANGED vars

Next ==
  \/ SpawnNoFile \/ SpawnNoSlot \/ SpawnNoSpace \/ SpawnBadElf \/ SpawnOk
  \/ \E pid \in 0 .. next_pid :
       WaitNoChild(pid) \/ WaitZombie(pid) \/ WaitSwitch(pid)
  \/ \E status \in Statuses : ExitHalt(status) \/ ExitToParent(status)
  \/ ExecRefused \/ ExecBadElf \/ ExecOk
  \/ GetPid \/ OtherCall
  \/ Fault \/ Hang

Spec == Init /\ [][Next]_vars

-----------------------------------------------------------------------------
(* Properties *)

Used   == {s \in Slots : processes[s].state # "UNUSED"}
Active == {s \in Slots : processes[s].state \in {"RUNNING", "BLOCKED"}}

TypeOK ==
  /\ processes \in [Slots -> ProcessRecord]
  /\ current_process \in Slots
  /\ next_pid \in Nat
  /\ kstack \in [Slots -> UserContext]
  /\ spaces \in Nat
  /\ cr3 \in Nat
  /\ rsp0 \in Slots
  /\ ctx \in UserContext
  /\ mode \in {"user", "halted", "panic"}

\* The current process, and no other, is RUNNING while user code runs.
OneRunning ==
  InUser => \A s \in Slots : processes[s].state = "RUNNING" <=> s = current_process

\* The processes that have started and not ended form one chain of waits: the
\* parent of each is BLOCKED and has no other such child.
WaitChain ==
  InUser => \A s \in Active :
    /\ \A t \in Active : processes[t].ppid = processes[s].ppid => t = s
    /\ processes[s].ppid # 0 =>
         \E t \in Active : /\ processes[t].pid = processes[s].ppid
                           /\ processes[t].state = "BLOCKED"

\* sys_exit never meets a parent without a trap frame (syscall.c:173-182).
NoPanic == mode # "panic"

\* The registers, the address space and the kernel stack in use are those of
\* the current process, whatever switches and execs came before.
ContextMatches ==
  InUser => /\ cr3 = Current.pml4
            /\ rsp0 = current_process
            /\ ctx.owner = Current.pid
            /\ ctx.image = Current.pml4

\* A process that is not running can be resumed: its frame is on its own
\* kernel stack, and holds its own registers for its own address space.
FramesResumable ==
  \A s \in Slots : processes[s].state \in {"RUNNABLE", "BLOCKED"} =>
    /\ processes[s].tf = s
    /\ kstack[s].owner = processes[s].pid
    /\ kstack[s].image = processes[s].pml4

\* No two processes share a pid or an address space.
Distinct ==
  \A s, t \in Used : s # t =>
    /\ processes[s].pid # processes[t].pid
    /\ processes[s].pml4 # processes[t].pml4

\* The registers of a BLOCKED process do not change until its child ends, and
\* then only rax does: it becomes the status that very child passed to exit.
WaitGetsStatus ==
  [][\A s \in Slots : processes[s].state = "BLOCKED" =>
       \/ processes'[s] = processes[s] /\ kstack'[s] = kstack[s]
       \/ /\ Current.ppid = processes[s].pid
          /\ Current'.pid = processes[s].pid
          /\ processes'[current_process].state = "ZOMBIE"
          /\ kstack'[s] = [kstack[s] EXCEPT
                             !.rax = processes'[current_process].exit_status]]_vars

\* The exit status of a zombie survives until its parent, and nobody else,
\* collects it.
StatusKept ==
  [][\A s \in Slots : processes[s].state = "ZOMBIE" =>
       \/ processes'[s] = processes[s]
       \/ /\ processes'[s].state = "UNUSED"
          /\ processes[s].ppid = Current.pid
          /\ ctx'.rax = processes[s].exit_status]_vars

\* The shell's "run" starts a binary (userland/shell/main.c:26): when every
\* other process has ended, there is a slot to spawn into.
RunFindsSlot ==
  (InUser /\ Active = {current_process} /\ \A s \in Slots : processes[s].state # "RUNNABLE")
    => FreeSlot # NULL
=============================================================================
